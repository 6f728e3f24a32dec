---------------------------- MODULE AtomicStore ----------------------------
(***************************************************************************)
(* What the log promises the file system: block updates become durable all *)
(* together, only when no operation is under way, and a crash goes back to *)
(* the last durable state.                                                 *)
(***************************************************************************)
EXTENDS Integers

CONSTANTS Blocks, Values

VARIABLES
    durable,    \* what a reboot would find
    current,    \* what running operations read and write
    active      \* operations begun and not yet ended

storeVars == <<durable, current, active>>

Init ==
    /\ durable \in [Blocks -> Values]
    /\ current = durable
    /\ active = 0

Begin == active' = active + 1 /\ UNCHANGED <<durable, current>>

Write(b, v) ==
    /\ active > 0
    /\ current' = [current EXCEPT ![b] = v]
    /\ UNCHANGED <<durable, active>>

End == active > 0 /\ active' = active - 1 /\ UNCHANGED <<durable, current>>

Commit == active = 0 /\ durable' = current /\ UNCHANGED <<current, active>>

Crash == current' = durable /\ active' = 0 /\ UNCHANGED durable

Next ==
    \/ Begin \/ End \/ Commit \/ Crash
    \/ \E b \in Blocks, v \in Values : Write(b, v)

Spec == Init /\ [][Next]_storeVars
=============================================================================
