------------------------------ MODULE Channel ------------------------------
(***************************************************************************)
(* What a pipe promises: a bounded first-in first-out channel of bytes.    *)
(* A reader gets the oldest bytes, each byte once; bytes are lost only     *)
(* when the whole channel goes.                                            *)
(***************************************************************************)
EXTENDS Integers, Sequences

CONSTANTS Size, Byte

VARIABLES
    queue,      \* bytes written and not yet read
    last        \* bytes the last read returned

channelVars == <<queue, last>>

Init == queue = <<>> /\ last = <<>>

Put(s) ==
    /\ Len(queue) + Len(s) <= Size
    /\ queue' = queue \o s
    /\ UNCHANGED last

Take(k) ==
    /\ k <= Len(queue)
    /\ last' = SubSeq(queue, 1, k)
    /\ queue' = SubSeq(queue, k + 1, Len(queue))

Discard ==
    /\ queue' = <<>>
    /\ UNCHANGED last

Next ==
    \/ \E k \in 1 .. Size : \E s \in [1 .. k -> Byte] : Put(s)
    \/ \E k \in 0 .. Size : Take(k)
    \/ Discard

Spec == Init /\ [][Next]_channelVars
=============================================================================
