---------------------------- MODULE CakePipeline ----------------------------
(***************************************************************************)
(* What the cake factory promises, without threads, locks or semaphores:   *)
(* cakes travel along a belt of Q1Size places in the order they were put   *)
(* on it, one carrier at a time has at most one cake in hand, takes one    *)
(* only if the shelf of its flavour has a place for it, and puts it there; *)
(* what is sold is on the shelf.                                           *)
(***************************************************************************)
EXTENDS Integers, Sequences

CONSTANTS Flavours, Q1Size, QSize

NoCake == <<"no cake">>

VARIABLES belt, hand, shelf

pipelineVars == <<belt, hand, shelf>>

Init ==
    /\ belt = <<>>
    /\ hand = NoCake
    /\ shelf = [f \in Flavours |-> 0]

Bake(f) ==
    /\ Len(belt) < Q1Size
    /\ belt' = Append(belt, f)
    /\ UNCHANGED <<hand, shelf>>

Take ==
    /\ belt # <<>>
    /\ hand = NoCake
    /\ shelf[Head(belt)] < QSize
    /\ hand' = Head(belt)
    /\ belt' = Tail(belt)
    /\ UNCHANGED shelf

Deliver ==
    /\ hand # NoCake
    /\ shelf' = [shelf EXCEPT ![hand] = @ + 1]
    /\ hand' = NoCake
    /\ UNCHANGED belt

Sell(f) ==
    /\ shelf[f] > 0
    /\ shelf' = [shelf EXCEPT ![f] = @ - 1]
    /\ UNCHANGED <<belt, hand>>

Next == Take \/ Deliver \/ \E f \in Flavours : Bake(f) \/ Sell(f)

Spec == Init /\ [][Next]_pipelineVars
=============================================================================
