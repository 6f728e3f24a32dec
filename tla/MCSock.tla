------------------------------- MODULE MCSock -------------------------------
(* Instances of Sock for TLC. *)
EXTENDS Sock, TLC

CONSTANTS a, b, c   \* processes

\* A one-byte C string.
OneChar == {[i \in Bytes |-> IF i = 0 THEN 1 ELSE NUL]}

FullSize == {SBUFFSIZE}

\* The processes are interchangeable.
Symmetry == Permutations(Procs)

\* ret is written and never read by the actions.
NoRet == <<sock, countSock, nextsid, proc, frame, panicked, hist>>
=============================================================================
