---------------------------- MODULE AddressSpace ----------------------------
(***************************************************************************)
(* The memory a process is promised: pages that keep what was last stored  *)
(* in them, whether or not the kernel has them in RAM.  Grown pages are    *)
(* zero, the pages below a shrink stay, exec replaces the whole image.     *)
(***************************************************************************)
EXTENDS Integers

CONSTANTS MaxPages, Contents, Zero

VARIABLE content        \* of each page of the process, from page 0 up

Spaces == UNION {[0 .. n - 1 -> Contents] : n \in 0 .. MaxPages}

Init == content \in Spaces

Store(v, x) == v \in DOMAIN content /\ content' = [content EXCEPT ![v] = x]

Grow(n) ==
    /\ \A v \in DOMAIN content : v < n
    /\ content' = [v \in 0 .. n - 1 |->
                    IF v \in DOMAIN content THEN content[v] ELSE Zero]

Shrink(n) ==
    /\ 0 .. n - 1 \subseteq DOMAIN content
    /\ content' = [v \in 0 .. n - 1 |-> content[v]]

\* An image of text x, an empty guard page, and y on its stack page.
Exec(n, x, y) ==
    content' = [v \in 0 .. n - 1 |->
                    IF v = n - 1 THEN y ELSE IF v < n - 2 THEN x ELSE Zero]

Next ==
    \/ \E v \in DOMAIN content, x \in Contents : Store(v, x)
    \/ \E n \in 1 .. MaxPages : Grow(n) \/ Shrink(n)
    \/ \E n \in 1 .. MaxPages, x, y \in Contents : Exec(n, x, y)

Spec == Init /\ [][Next]_content
=============================================================================
