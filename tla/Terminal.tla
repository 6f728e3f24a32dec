------------------------------ MODULE Terminal ------------------------------
(***************************************************************************)
(* What the console promises those who read it: the line being typed can   *)
(* be edited until it is finished; finished input is handed out once, in   *)
(* the order it was typed, a line at most to each read; an end of file     *)
(* ends the read before it and is itself an empty read.                    *)
(***************************************************************************)
EXTENDS Integers, Sequences

CONSTANTS Readers, Size, Char, NewLine, EndOfFile

VARIABLES
    line,       \* characters typed on the unfinished line
    ready,      \* finished input nobody has read
    dst         \* what each reader's last read has been given

terminalVars == <<line, ready, dst>>

Init == line = <<>> /\ ready = <<>> /\ dst = [p \in Readers |-> <<>>]

Finishes(c) ==
    c \in {NewLine, EndOfFile} \/ Len(ready) + Len(line) + 1 = Size

Type(c) ==
    /\ Len(ready) + Len(line) < Size
    /\ IF Finishes(c)
       THEN line' = <<>> /\ ready' = ready \o Append(line, c)
       ELSE line' = Append(line, c) /\ UNCHANGED ready
    /\ UNCHANGED dst

Erase(k) ==
    /\ k \in 1 .. Len(line)
    /\ line' = SubSeq(line, 1, Len(line) - k)
    /\ UNCHANGED <<ready, dst>>

Request(p) ==
    /\ dst' = [dst EXCEPT ![p] = <<>>]
    /\ UNCHANGED <<line, ready>>

OneLine(s) ==
    \A i \in DOMAIN s : s[i] # EndOfFile /\ (s[i] = NewLine => i = Len(s))

Give(p, k) ==
    /\ k \in 1 .. Len(ready)
    /\ OneLine(dst[p] \o SubSeq(ready, 1, k))
    /\ dst' = [dst EXCEPT ![p] = @ \o SubSeq(ready, 1, k)]
    /\ ready' = SubSeq(ready, k + 1, Len(ready))
    /\ UNCHANGED line

GiveEnd(p) ==
    /\ dst[p] = <<>>
    /\ ready # <<>> /\ Head(ready) = EndOfFile
    /\ ready' = Tail(ready)
    /\ UNCHANGED <<line, dst>>

Next ==
    \/ \E c \in Char : Type(c)
    \/ \E k \in 1 .. Size : Erase(k)
    \/ \E p \in Readers : Request(p) \/ GiveEnd(p)
    \/ \E p \in Readers, k \in 1 .. Size : Give(p, k)

Spec == Init /\ [][Next]_terminalVars
=============================================================================
