------------------------- MODULE CakeFactoryProofs -------------------------
(***************************************************************************)
(* Proofs about CakeFactory, for every set of flavours and every size of   *)
(* the queues.                                                             *)
(***************************************************************************)
EXTENDS CakeFactory, FiniteSetTheorems, SequenceTheorems, TLAPS

HasSeen == carrier \in {"found", "await", "PQ", "supply", "pop", "handover",
                        "print", "count", "V", "printQ"}

\* The carrier acts for a flavour from its look into Q1 to its last log line.
TopKnown == HasSeen => top \in Flavours

\* The operations on Q1 not yet logged: first that of the thread with
\* lock_console, if it is printing about Q1, then that of the one with lock_Q1.
Printing1 ==
    IF carrier = "print" \/ \E f \in Flavours : chef[f] = "print"
    THEN <<lock_console>> ELSE <<>>
Holding1 == IF lock_Q1 = Free THEN <<>> ELSE <<lock_Q1>>
Unprinted1Shape == unprinted1 = Printing1 \o Holding1

\* The same for a flavour's queue, on which a waiter that has sold and the
\* carrier that has delivered may both still have to print.  A waiter that
\* still holds the lock sold after the carrier delivered.
Delivered(f) == carrier \in {"V", "printQ"} /\ top = f
UnprintedShape ==
    \A f \in Flavours :
        unprinted[f] \in
            IF Delivered(f)
            THEN CASE waiter[f] = "handover" -> {<<Carrier, Waiter(f)>>}
                   [] waiter[f] = "print" -> {<<Carrier, Waiter(f)>>,
                                              <<Waiter(f), Carrier>>}
                   [] OTHER -> {<<Carrier>>}
            ELSE IF waiter[f] \in {"handover", "print"} THEN {<<Waiter(f)>>}
                                                        ELSE {<<>>}

\* A lock is held only by the threads that take it.
LockHolders ==
    /\ lock_Q1 \in {Chef(f) : f \in Flavours} \cup {Carrier, Free}
    /\ \A f \in Flavours : lock_Q[f] \in {Waiter(f), Free}

\* The inductive invariant.
IInv ==
    /\ Accounted
    /\ CarrierPopsWhatItSaw
    /\ TopKnown
    /\ LocksHeld
    /\ LockHolders
    /\ Unprinted1Shape
    /\ UnprintedShape

-----------------------------------------------------------------------------
(* Facts about threads and the operators *)

\* No two threads, and no thread and Free, are the same value.
LEMMA ThreadsDistinct ==
    /\ Carrier # Free
    /\ \A f : /\ Chef(f) # Free /\ Waiter(f) # Free
              /\ Chef(f) # Carrier /\ Waiter(f) # Carrier
              /\ \A g : /\ Chef(f) # Waiter(g)
                        /\ Chef(f) = Chef(g) => f = g
                        /\ Waiter(f) = Waiter(g) => f = g
BY DEF Carrier, Free, Chef, Waiter

\* Logging the oldest of two operations leaves the other one.
LEMMA LoggedFirst ==
    ASSUME NEW t, NEW u
    PROVE  Logged(<<t>>, t) = <<>> /\ Logged(<<t, u>>, t) = <<u>>
<1>1. Logged(<<t>>, t) = <<>>
  BY DEF Logged
<1>2. Logged(<<t, u>>, t) = <<u>>
  <2> DEFINE i == CHOOSE k \in 1 .. 2 : <<t, u>>[k] = t
                              /\ \A j \in 1 .. k - 1 : <<t, u>>[j] # t
  <2>1. i = 1
    OBVIOUS
  <2>2. Logged(<<t, u>>, t)
          = [k \in 1 .. 1 |-> IF k < i THEN <<t, u>>[k] ELSE <<t, u>>[k + 1]]
    BY DEF Logged
  <2> QED
    BY <2>1, <2>2
<1> QED
  BY <1>1, <1>2

\* Logging the newer of two operations leaves the older one.
LEMMA LoggedSecond ==
    ASSUME NEW t, NEW u, t # u
    PROVE  Logged(<<t, u>>, u) = <<t>>
<1> DEFINE i == CHOOSE k \in 1 .. 2 : <<t, u>>[k] = u
                            /\ \A j \in 1 .. k - 1 : <<t, u>>[j] # u
<1>1. i = 2
  OBVIOUS
<1>2. Logged(<<t, u>>, u)
        = [k \in 1 .. 1 |-> IF k < i THEN <<t, u>>[k] ELSE <<t, u>>[k + 1]]
  BY DEF Logged
<1> QED
  BY <1>1, <1>2

-----------------------------------------------------------------------------
(* Each part of the invariant is kept by every step *)

\* The initial state satisfies the invariant.
LEMMA InitInv == Init => IInv
<1> SUFFICES ASSUME Init PROVE IInv
  OBVIOUS
<1> USE DEF Init, initLocks
<1>1. TypeOK
  BY Q1SizeAssumption, QSizeAssumption
     DEF TypeOK, ChefPlaces, WaiterPlaces, CarrierPlaces
<1>2. Q1Accounted
  <2>1. Baking = {}
    BY DEF Baking
  <2> QED
    BY <2>1, FS_EmptySet, Q1SizeAssumption DEF Q1Accounted, B2N, HasTicket
<1>3. QAccounted
  BY QSizeAssumption DEF QAccounted, B2N, Reserved, Announcing, Selling
<1>4. CarrierPopsWhatItSaw /\ TopKnown
  BY DEF CarrierPopsWhatItSaw, TopKnown, HasTicket, HasSeen
<1>5. LocksHeld /\ LockHolders
  BY ThreadsDistinct DEF LocksHeld, LockHolders
<1>6. Unprinted1Shape
  BY DEF Unprinted1Shape, Printing1, Holding1
<1>7. UnprintedShape
  BY DEF UnprintedShape, Delivered
<1> QED
  BY <1>1, <1>2, <1>3, <1>4, <1>5, <1>6, <1>7 DEF IInv, Accounted

\* A step of a chef keeps the locks.
LEMMA ChefLocks ==
    ASSUME IInv, NEW f \in Flavours, bakingChef(f)
    PROVE  LocksHeld' /\ LockHolders'
<1> USE ThreadsDistinct
    DEF IInv, Accounted, TypeOK, LocksHeld, LockHolders, chefGoes
<1>1. CASE chefPrints(f)
  BY <1>1 DEF chefPrints
<1>2. CASE chefP(f)
  BY <1>2 DEF chefP
<1>3. CASE putInQ1(f)
  BY <1>3 DEF putInQ1
<1>4. CASE putHandover(f)
  BY <1>4 DEF putHandover, toConsole
<1>5. CASE putPrints(f)
  BY <1>5 DEF putPrints, fromConsole
<1> QED
  BY <1>1, <1>2, <1>3, <1>4, <1>5 DEF bakingChef

\* A step of a waiter keeps the locks.
LEMMA WaiterLocks ==
    ASSUME IInv, NEW f \in Flavours, sellingWaiter(f)
    PROVE  LocksHeld' /\ LockHolders'
<1> USE ThreadsDistinct
    DEF IInv, Accounted, TypeOK, LocksHeld, LockHolders, waiterGoes
<1>1. CASE waiterPrints(f)
  BY <1>1 DEF waiterPrints
<1>2. CASE waiterP(f)
  BY <1>2 DEF waiterP
<1>3. CASE waiterSells(f)
  BY <1>3 DEF waiterSells
<1>4. CASE sellHandover(f)
  BY <1>4 DEF sellHandover, toConsole
<1>5. CASE sellPrints(f)
  BY <1>5 DEF sellPrints, fromConsole
<1> QED
  BY <1>1, <1>2, <1>3, <1>4, <1>5 DEF sellingWaiter

\* A step of the carrier keeps the locks.
LEMMA CarrierLocks ==
    ASSUME IInv, carrierChef
    PROVE  LocksHeld' /\ LockHolders'
<1> USE ThreadsDistinct
    DEF IInv, Accounted, TypeOK, LocksHeld, LockHolders, carrierGoes, locks
<1>1. CASE carrierPrints \/ carrierP \/ lookIntoQ1 \/ carrierPQ
  BY <1>1 DEF carrierPrints, carrierP, lookIntoQ1, carrierPQ
<1>2. CASE popFromQ1
  BY <1>2 DEF popFromQ1
<1>3. CASE popHandover \/ carrierV
  BY <1>3 DEF popHandover, carrierV, toConsole
<1>4. CASE popPrints \/ carrierLogs
  BY <1>4 DEF popPrints, carrierLogs, fromConsole
<1>5. CASE carrierCounts
  BY <1>5 DEF carrierCounts
<1> QED
  BY <1>1, <1>2, <1>3, <1>4, <1>5 DEF carrierChef

\* A sequence of two from two of one, by concatenation or by Append.
LEMMA ConcatOneOne ==
    ASSUME NEW t, NEW u
    PROVE  <<t>> \o <<u>> = <<t, u>> /\ Append(<<t>>, u) = <<t, u>>
<1> DEFINE S == {t, u}  c == <<t>> \o <<u>>  a == Append(<<t>>, u)  d == <<t, u>>
<1>1. <<t>> \in Seq(S) /\ <<u>> \in Seq(S) /\ d \in Seq(S)
  OBVIOUS
<1>2. c \in Seq(S) /\ a \in Seq(S) /\ Len(c) = 2 /\ Len(a) = 2 /\ Len(d) = 2
  BY <1>1
<1>3. c[1] = t /\ c[2] = u /\ a[1] = t /\ a[2] = u /\ d[1] = t /\ d[2] = u
  BY <1>1
<1> HIDE DEF c, a, d
<1>4. \A i \in 1 .. 2 : c[i] = d[i] /\ a[i] = d[i]
  BY <1>3
<1>5. c = d /\ a = d
  BY <1>1, <1>2, <1>4, SeqEqual
<1> QED
  BY <1>5 DEF c, a, d

\* The log of Q1, in its four forms, before and after an entry is added at
\* its end or removed at its head.
LEMMA Shape1Append ==
    ASSUME NEW P, NEW c, NEW t, P = <<>> \/ P = <<c>>
    PROVE  Append(P \o <<>>, t) = P \o <<t>>
<1>1. CASE P = <<>>
  <2>1. <<>> \o <<>> = <<>> /\ Append(<<>>, t) = <<t>> /\ <<>> \o <<t>> = <<t>>
    OBVIOUS
  <2> QED
    BY <1>1, <2>1
<1>2. CASE P = <<c>>
  <2>1. <<c>> \o <<>> = <<c>>
    OBVIOUS
  <2> QED
    BY <1>2, <2>1, ConcatOneOne
<1> QED
  BY <1>1, <1>2

LEMMA Shape1Logged ==
    ASSUME NEW H, NEW c, NEW t, H = <<>> \/ H = <<c>>
    PROVE  Logged(<<t>> \o H, t) = <<>> \o H
<1>1. CASE H = <<>>
  <2>1. <<>> \o <<>> = <<>> /\ <<t>> \o <<>> = <<t>>
    OBVIOUS
  <2> QED
    BY <1>1, <2>1, LoggedFirst
<1>2. CASE H = <<c>>
  <2>1. <<>> \o <<c>> = <<c>>
    OBVIOUS
  <2> QED
    BY <1>2, <2>1, ConcatOneOne, LoggedFirst
<1> QED
  BY <1>1, <1>2

LEMMA Shape1Moves ==
    ASSUME NEW t
    PROVE  <<>> \o <<t>> = <<t>> \o <<>>
<1>1. <<>> \o <<t>> = <<t>> /\ <<t>> \o <<>> = <<t>>
  OBVIOUS
<1> QED
  BY <1>1

\* A step of a chef keeps the shape of Q1's log.
LEMMA ChefShape1 ==
    ASSUME IInv, NEW f \in Flavours, bakingChef(f)
    PROVE  Unprinted1Shape'
<1> USE ThreadsDistinct
    DEF IInv, Accounted, TypeOK, LocksHeld, chefGoes, Unprinted1Shape
<1>1. CASE chefPrints(f) \/ chefP(f)
  BY <1>1 DEF chefPrints, chefP, Printing1, Holding1
<1>2. CASE putInQ1(f)
  <2>1. Printing1' = Printing1
    BY <1>2 DEF putInQ1, Printing1
  <2>2. Holding1 = <<>> /\ Holding1' = <<Chef(f)>>
    BY <1>2 DEF putInQ1, Holding1
  <2>3. unprinted1' = Append(Printing1 \o <<>>, Chef(f))
    BY <1>2, <2>2 DEF putInQ1
  <2>4. Printing1 = <<>> \/ Printing1 = <<lock_console>>
    BY DEF Printing1
  <2>5. Append(Printing1 \o <<>>, Chef(f)) = Printing1 \o <<Chef(f)>>
    BY <2>4, Shape1Append
  <2> QED
    BY <2>1, <2>2, <2>3, <2>5
<1>3. CASE putHandover(f)
  <2>1. Printing1 = <<>> /\ Holding1 = <<Chef(f)>>
    BY <1>3 DEF putHandover, toConsole, Printing1, Holding1
  <2>2. Printing1' = <<Chef(f)>> /\ Holding1' = <<>>
    BY <1>3 DEF putHandover, toConsole, Printing1, Holding1
  <2>3. unprinted1' = unprinted1
    BY <1>3 DEF putHandover
  <2> QED
    BY <2>1, <2>2, <2>3, Shape1Moves
<1>4. CASE putPrints(f)
  <2>1. Printing1 = <<Chef(f)>> /\ Printing1' = <<>>
    BY <1>4 DEF putPrints, fromConsole, Printing1
  <2>2. Holding1' = Holding1 /\ (Holding1 = <<>> \/ Holding1 = <<lock_Q1>>)
    BY <1>4 DEF putPrints, Holding1
  <2>3. unprinted1' = Logged(unprinted1, Chef(f))
    BY <1>4 DEF putPrints
  <2>4. Logged(<<Chef(f)>> \o Holding1, Chef(f)) = <<>> \o Holding1
    BY <2>2, Shape1Logged
  <2> QED
    BY <2>1, <2>2, <2>3, <2>4
<1> QED
  BY <1>1, <1>2, <1>3, <1>4 DEF bakingChef

\* A step of the carrier keeps the shape of Q1's log.
LEMMA CarrierShape1 ==
    ASSUME IInv, carrierChef
    PROVE  Unprinted1Shape'
<1> USE ThreadsDistinct
    DEF IInv, Accounted, TypeOK, LocksHeld, carrierGoes, Unprinted1Shape
<1>1. CASE carrierPrints \/ carrierP \/ lookIntoQ1 \/ carrierPQ \/ carrierCounts
  BY <1>1 DEF carrierPrints, carrierP, lookIntoQ1, carrierPQ, carrierCounts,
              locks, Printing1, Holding1
<1>2. CASE popFromQ1
  <2>1. Printing1' = Printing1
    BY <1>2 DEF popFromQ1, Printing1
  <2>2. Holding1 = <<>> /\ Holding1' = <<Carrier>>
    BY <1>2 DEF popFromQ1, Holding1
  <2>3. unprinted1' = Append(Printing1 \o <<>>, Carrier)
    BY <1>2, <2>2 DEF popFromQ1
  <2>4. Printing1 = <<>> \/ Printing1 = <<lock_console>>
    BY DEF Printing1
  <2>5. Append(Printing1 \o <<>>, Carrier) = Printing1 \o <<Carrier>>
    BY <2>4, Shape1Append
  <2> QED
    BY <2>1, <2>2, <2>3, <2>5
<1>3. CASE popHandover
  <2>1. Printing1 = <<>> /\ Holding1 = <<Carrier>>
    BY <1>3 DEF popHandover, toConsole, Printing1, Holding1
  <2>2. Printing1' = <<Carrier>> /\ Holding1' = <<>>
    BY <1>3 DEF popHandover, toConsole, Printing1, Holding1
  <2>3. unprinted1' = unprinted1
    BY <1>3 DEF popHandover
  <2> QED
    BY <2>1, <2>2, <2>3, Shape1Moves
<1>4. CASE popPrints
  <2>1. Printing1 = <<Carrier>> /\ Printing1' = <<>>
    BY <1>4 DEF popPrints, fromConsole, Printing1
  <2>2. Holding1' = Holding1 /\ (Holding1 = <<>> \/ Holding1 = <<lock_Q1>>)
    BY <1>4 DEF popPrints, Holding1
  <2>3. unprinted1' = Logged(unprinted1, Carrier)
    BY <1>4 DEF popPrints
  <2>4. Logged(<<Carrier>> \o Holding1, Carrier) = <<>> \o Holding1
    BY <2>2, Shape1Logged
  <2> QED
    BY <2>1, <2>2, <2>3, <2>4
<1>5. CASE carrierV \/ carrierLogs
  <2>1. Printing1 = <<>> /\ Printing1' = <<>>
    BY <1>5 DEF carrierV, carrierLogs, toConsole, fromConsole, Printing1
  <2> QED
    BY <1>5, <2>1 DEF carrierV, carrierLogs, Holding1
<1> QED
  BY <1>1, <1>2, <1>3, <1>4, <1>5 DEF carrierChef

\* A step of a waiter keeps the shape of Q1's log: the console is free or its
\* own when it takes or releases it.
LEMMA WaiterShape1 ==
    ASSUME IInv, NEW f \in Flavours, sellingWaiter(f)
    PROVE  Unprinted1Shape'
<1> USE ThreadsDistinct
    DEF IInv, Accounted, TypeOK, LocksHeld, waiterGoes, Unprinted1Shape
<1>1. CASE waiterPrints(f) \/ waiterP(f) \/ waiterSells(f)
  BY <1>1 DEF waiterPrints, waiterP, waiterSells, Printing1, Holding1
<1>2. CASE sellHandover(f) \/ sellPrints(f)
  <2>1. Printing1 = <<>> /\ Printing1' = <<>>
    BY <1>2 DEF sellHandover, sellPrints, toConsole, fromConsole, Printing1
  <2> QED
    BY <1>2, <2>1 DEF sellHandover, sellPrints, Holding1
<1> QED
  BY <1>1, <1>2 DEF sellingWaiter

\* A step of a chef touches no flavour's log.
LEMMA ChefShape ==
    ASSUME IInv, NEW f \in Flavours, bakingChef(f)
    PROVE  UnprintedShape'
BY DEF IInv, UnprintedShape, Delivered, bakingChef, chefPrints, chefP, putInQ1,
       putHandover, putPrints, chefGoes

\* A step of a waiter keeps the shape of its queue's log.
LEMMA WaiterShape ==
    ASSUME IInv, NEW f \in Flavours, sellingWaiter(f)
    PROVE  UnprintedShape'
<1> USE DEF IInv, Accounted, TypeOK, waiterGoes
<1>1. CASE waiterPrints(f) \/ waiterP(f)
  BY <1>1 DEF waiterPrints, waiterP, UnprintedShape, Delivered
<1>2. CASE waiterSells(f)
  <2>1. unprinted[f] = IF Delivered(f) THEN <<Carrier>> ELSE <<>>
    BY <1>2 DEF waiterSells, UnprintedShape
  <2>2. Append(<<>>, Waiter(f)) = <<Waiter(f)>>
    OBVIOUS
  <2>3. Append(unprinted[f], Waiter(f))
          = IF Delivered(f) THEN <<Carrier, Waiter(f)>> ELSE <<Waiter(f)>>
    BY <2>1, <2>2, ConcatOneOne
  <2> QED
    BY <1>2, <2>3 DEF waiterSells, UnprintedShape, Delivered
<1>3. CASE sellHandover(f)
  BY <1>3 DEF sellHandover, UnprintedShape, Delivered
<1>4. CASE sellPrints(f)
  <2>1. Logged(unprinted[f], Waiter(f))
          = IF Delivered(f) THEN <<Carrier>> ELSE <<>>
    BY <1>4, ThreadsDistinct, LoggedFirst, LoggedSecond
       DEF sellPrints, UnprintedShape
  <2> QED
    BY <1>4, <2>1 DEF sellPrints, UnprintedShape, Delivered
<1> QED
  BY <1>1, <1>2, <1>3, <1>4 DEF sellingWaiter

\* A step of the carrier keeps the shape of the flavours' logs.
LEMMA CarrierShape ==
    ASSUME IInv, carrierChef
    PROVE  UnprintedShape'
<1> USE DEF IInv, Accounted, TypeOK, carrierGoes
<1>1. CASE carrierPrints \/ carrierP \/ lookIntoQ1 \/ carrierPQ \/ popFromQ1
             \/ popHandover \/ popPrints
  BY <1>1 DEF carrierPrints, carrierP, lookIntoQ1, carrierPQ, popFromQ1,
              popHandover, popPrints, UnprintedShape, Delivered
<1>2. CASE carrierCounts
  <2>1. top \in Flavours /\ waiter[top] # "handover"
    BY <1>2, ThreadsDistinct DEF carrierCounts, TopKnown, HasSeen, LocksHeld
  <2>2. unprinted[top] = IF waiter[top] = "print" THEN <<Waiter(top)>> ELSE <<>>
    BY <1>2, <2>1 DEF carrierCounts, UnprintedShape, Delivered
  <2>3. Append(<<>>, Carrier) = <<Carrier>>
    OBVIOUS
  <2>4. Append(unprinted[top], Carrier)
          = IF waiter[top] = "print" THEN <<Waiter(top), Carrier>>
                                     ELSE <<Carrier>>
    BY <2>2, <2>3, ConcatOneOne
  <2> QED
    BY <1>2, <2>1, <2>4 DEF carrierCounts, UnprintedShape, Delivered
<1>3. CASE carrierV
  BY <1>3 DEF carrierV, UnprintedShape, Delivered
<1>4. CASE carrierLogs
  <2>1. top \in Flavours /\ Delivered(top) /\ waiter[top] # "print"
    BY <1>4, ThreadsDistinct
       DEF carrierLogs, TopKnown, HasSeen, LocksHeld, Delivered, fromConsole
  <2>2. unprinted[top] = IF waiter[top] = "handover"
                         THEN <<Carrier, Waiter(top)>> ELSE <<Carrier>>
    BY <2>1 DEF UnprintedShape
  <2>3. Logged(unprinted[top], Carrier)
          = IF waiter[top] = "handover" THEN <<Waiter(top)>> ELSE <<>>
    BY <2>2, LoggedFirst
  <2> QED
    BY <1>4, <2>1, <2>3 DEF carrierLogs, UnprintedShape, Delivered
<1> QED
  BY <1>1, <1>2, <1>3, <1>4 DEF carrierChef

\* The shapes give the logs their type.
ShapesHold ==
    /\ lock_Q1 \in Threads \cup {Free}
    /\ lock_console \in Threads \cup {Free}
    /\ unprinted = [f \in Flavours |-> unprinted[f]]
    /\ LocksHeld /\ Unprinted1Shape /\ UnprintedShape
LogsTyped ==
    unprinted1 \in Seq(Threads) /\ unprinted \in [Flavours -> Seq(Threads)]

LEMMA ShapesTyped == ShapesHold => LogsTyped
<1> SUFFICES ASSUME ShapesHold PROVE LogsTyped
  OBVIOUS
<1> USE DEF ShapesHold
<1>1. Carrier \in Threads /\ \A f \in Flavours : Waiter(f) \in Threads
                                                   /\ Chef(f) \in Threads
  BY DEF Threads
<1>2. Printing1 \in Seq(Threads)
  BY <1>1, ThreadsDistinct DEF Printing1, LocksHeld
<1>3. Holding1 \in Seq(Threads)
  BY DEF Holding1
<1>4. unprinted1 \in Seq(Threads)
  BY <1>2, <1>3 DEF Unprinted1Shape
<1>5. ASSUME NEW f \in Flavours
      PROVE  unprinted[f] \in Seq(Threads)
  <2>1. <<>> \in Seq(Threads)
    OBVIOUS
  <2>2. <<Carrier>> \in Seq(Threads) /\ <<Waiter(f)>> \in Seq(Threads)
    BY <1>1
  <2>3. <<Carrier, Waiter(f)>> \in Seq(Threads)
    BY <1>1
  <2>4. <<Waiter(f), Carrier>> \in Seq(Threads)
    BY <1>1
  <2> QED
    BY <2>1, <2>2, <2>3, <2>4 DEF UnprintedShape
<1> QED
  BY <1>4, <1>5 DEF LogsTyped

\* Chefs that have reserved a place of Q1.
LEMMA BakingFinite ==
    IsFiniteSet(Baking) /\ Cardinality(Baking) \in Nat
<1>1. Baking \subseteq Flavours
  BY DEF Baking
<1> QED
  BY <1>1, FlavoursAssumption, FS_Subset, FS_CardinalityType

\* A step of a chef keeps the types and the accounts.
LEMMA ChefAccounts ==
    ASSUME IInv, NEW f \in Flavours, bakingChef(f)
    PROVE  Accounted'
<1> USE DEF IInv, Accounted, chefGoes
<1>1. QAccounted'
  BY DEF QAccounted, Reserved, Announcing, Selling, bakingChef, chefPrints,
         chefP, putInQ1, putHandover, putPrints
<1>2. Q1Accounted'
  <2>1. CASE chefPrints(f) \/ putHandover(f) \/ putPrints(f)
    <3>1. Baking' = Baking
      BY <2>1 DEF chefPrints, putHandover, putPrints, Baking, TypeOK
    <3> QED
      BY <2>1, <3>1 DEF chefPrints, putHandover, putPrints, Q1Accounted,
                        HasTicket, B2N
  <2>2. CASE chefP(f)
    <3>1. Baking' = Baking \cup {f} /\ f \notin Baking
      BY <2>2 DEF chefP, Baking, TypeOK
    <3>2. Cardinality(Baking') = Cardinality(Baking) + 1
      BY <3>1, BakingFinite, FS_AddElement
    <3> QED
      BY <2>2, <3>2, BakingFinite, Q1SizeAssumption
         DEF chefP, Q1Accounted, HasTicket, B2N, TypeOK
  <2>3. CASE putInQ1(f)
    <3>1. Baking' = Baking \ {f} /\ f \in Baking
      BY <2>3 DEF putInQ1, Baking, TypeOK
    <3>2. Cardinality(Baking') = Cardinality(Baking) - 1
      BY <3>1, BakingFinite, FS_RemoveElement
    <3>3. Len(q1') = Len(q1) + 1
      BY <2>3 DEF putInQ1, TypeOK
    <3>4. HasTicket' = HasTicket /\ q1_empty' = q1_empty
            /\ q1_full' = q1_full + 1
      BY <2>3 DEF putInQ1, HasTicket
    <3>5. Len(q1) \in Nat /\ q1_empty \in Nat /\ q1_full \in Nat
      BY DEF TypeOK
    <3> QED
      BY <3>2, <3>3, <3>4, <3>5, BakingFinite, Q1SizeAssumption
         DEF Q1Accounted, B2N
  <2> QED
    BY <2>1, <2>2, <2>3 DEF bakingChef
<1>3. TypeOK'
  <2> USE DEF TypeOK
  <2>1. Chef(f) \in Threads
    BY DEF Threads
  <2>2. /\ chef' \in [Flavours -> ChefPlaces]
        /\ lock_Q1' \in Threads \cup {Free}
        /\ lock_console' \in Threads \cup {Free}
    BY <2>1 DEF bakingChef, chefPrints, chefP, putInQ1, putHandover, putPrints,
                toConsole, fromConsole, ChefPlaces
  <2>3. q1' \in Seq(Flavours)
    <3>1. q1' = q1 \/ q1' = Append(q1, f)
      BY DEF bakingChef, chefPrints, chefP, putInQ1, putHandover, putPrints
    <3>2. q1 \in Seq(Flavours)
      OBVIOUS
    <3>3. Append(q1, f) \in Seq(Flavours)
      BY <3>2, AppendProperties
    <3> QED
      BY <3>1, <3>2, <3>3, Zenon
  <2>5. q1_empty' \in Nat /\ q1_full' \in Nat
    BY DEF bakingChef, chefPrints, chefP, putInQ1, putHandover, putPrints
  <2>4. LogsTyped'
    <3>1. LocksHeld' /\ Unprinted1Shape' /\ UnprintedShape'
      BY ChefLocks, ChefShape1, ChefShape
    <3>2. unprinted' = [g \in Flavours |-> unprinted'[g]]
      BY DEF bakingChef, chefPrints, chefP, putInQ1, putHandover, putPrints
    <3>3. ShapesHold'
      BY <2>2, <3>1, <3>2 DEF ShapesHold
    <3> QED
      BY <3>3, ShapesTyped, PTL
  <2> QED
    BY <2>2, <2>3, <2>4, <2>5
       DEF LogsTyped, bakingChef, chefPrints, chefP, putInQ1, putHandover, putPrints
<1> QED
  BY <1>1, <1>2, <1>3

\* A step of a waiter keeps the types and the accounts.
LEMMA WaiterAccounts ==
    ASSUME IInv, NEW f \in Flavours, sellingWaiter(f)
    PROVE  Accounted'
<1> USE DEF IInv, Accounted, waiterGoes
<1>1. Q1Accounted'
  BY DEF Q1Accounted, Baking, HasTicket, sellingWaiter, waiterPrints, waiterP,
         waiterSells, sellHandover, sellPrints
<1>2. QAccounted'
  <2> SUFFICES ASSUME NEW g \in Flavours
               PROVE  /\ qEmpty'[g] + B2N(Reserved(g)') + n'[g] = QSize
                      /\ qFull'[g] + B2N(Announcing(g)') + B2N(Selling(g)')
                            = n'[g]
    BY DEF QAccounted
  <2>1. Reserved(g)' = Reserved(g) /\ Announcing(g)' = Announcing(g)
    BY DEF Reserved, Announcing, sellingWaiter, waiterPrints, waiterP,
           waiterSells, sellHandover, sellPrints
  <2>2. qEmpty[g] \in Nat /\ qFull[g] \in Nat /\ n[g] \in Nat
    BY DEF TypeOK
  <2>3. /\ qEmpty[g] + B2N(Reserved(g)) + n[g] = QSize
        /\ qFull[g] + B2N(Announcing(g)) + B2N(Selling(g)) = n[g]
    BY DEF QAccounted
  <2>4. CASE waiterPrints(f) \/ sellHandover(f) \/ sellPrints(f)
    BY <2>1, <2>3, <2>4 DEF waiterPrints, sellHandover, sellPrints, Selling,
                            TypeOK, B2N
  <2>5. CASE waiterP(f)
    <3>1. /\ qFull'[g] = IF g = f THEN qFull[g] - 1 ELSE qFull[g]
          /\ qEmpty'[g] = qEmpty[g] /\ n'[g] = n[g]
      BY <2>5 DEF waiterP, TypeOK
    <3>2. /\ g = f => ~Selling(g) /\ Selling(g)'
          /\ g # f => Selling(g)' = Selling(g)
      BY <2>5 DEF waiterP, Selling, TypeOK
    <3> QED
      BY <2>1, <2>2, <2>3, <3>1, <3>2 DEF B2N
  <2>6. CASE waiterSells(f)
    <3>1. /\ n'[g] = IF g = f THEN n[g] - 1 ELSE n[g]
          /\ qEmpty'[g] = IF g = f THEN qEmpty[g] + 1 ELSE qEmpty[g]
          /\ qFull'[g] = qFull[g]
      BY <2>6 DEF waiterSells, TypeOK
    <3>2. /\ g = f => Selling(g) /\ ~Selling(g)'
          /\ g # f => Selling(g)' = Selling(g)
      BY <2>6 DEF waiterSells, Selling, TypeOK
    <3> QED
      BY <2>1, <2>2, <2>3, <3>1, <3>2, QSizeAssumption DEF B2N
  <2> QED
    BY <2>4, <2>5, <2>6 DEF sellingWaiter
<1>3. TypeOK'
  <2> USE DEF TypeOK
  <2>1. Waiter(f) \in Threads
    BY DEF Threads
  <2>2. /\ waiter' \in [Flavours -> WaiterPlaces]
        /\ lock_Q' \in [Flavours -> Threads \cup {Free}]
        /\ lock_console' \in Threads \cup {Free}
    BY <2>1 DEF sellingWaiter, waiterPrints, waiterP, waiterSells, sellHandover,
                sellPrints, toConsole, fromConsole, WaiterPlaces
  <2>3. n' \in [Flavours -> Nat]
    <3>1. qFull[f] \in Nat /\ n[f] \in Nat
      OBVIOUS
    <3>4. qFull[f] + B2N(Announcing(f)) + B2N(Selling(f)) = n[f]
      BY DEF QAccounted
    <3>2. Selling(f) => n[f] - 1 \in Nat
      BY <3>1, <3>4 DEF B2N
    <3>3. n' = n \/ (Selling(f) /\ n' = [n EXCEPT ![f] = @ - 1])
      BY DEF sellingWaiter, waiterPrints, waiterP, waiterSells, sellHandover,
             sellPrints, Selling
    <3> QED
      BY <3>2, <3>3
  <2>4. qEmpty' \in [Flavours -> Nat] /\ qFull' \in [Flavours -> Nat]
    <3>1. qFull[f] \in Nat /\ qEmpty[f] \in Nat
      OBVIOUS
    <3>2. /\ qEmpty' = qEmpty \/ qEmpty' = [qEmpty EXCEPT ![f] = @ + 1]
          /\ \/ qFull' = qFull
             \/ qFull[f] > 0 /\ qFull' = [qFull EXCEPT ![f] = @ - 1]
      BY DEF sellingWaiter, waiterPrints, waiterP, waiterSells, sellHandover,
             sellPrints
    <3> QED
      BY <3>1, <3>2
  <2>5. LogsTyped'
    <3>1. LocksHeld' /\ Unprinted1Shape' /\ UnprintedShape'
      BY WaiterLocks, WaiterShape1, WaiterShape
    <3>2. unprinted' = [g \in Flavours |-> unprinted'[g]]
      BY DEF sellingWaiter, waiterPrints, waiterP, waiterSells, sellHandover,
             sellPrints
    <3>3. ShapesHold'
      BY <2>2, <3>1, <3>2 DEF ShapesHold, sellingWaiter, waiterPrints, waiterP,
                              waiterSells, sellHandover, sellPrints
    <3> QED
      BY <3>3, ShapesTyped, PTL
  <2> QED
    BY <2>2, <2>3, <2>4, <2>5 DEF LogsTyped, sellingWaiter, waiterPrints,
       waiterP, waiterSells, sellHandover, sellPrints
<1> QED
  BY <1>1, <1>2, <1>3

\* The carrier's steps leave the chefs' reservations alone and keep Q1's
\* accounts.
LEMMA CarrierQ1Accounts ==
    ASSUME IInv, carrierChef
    PROVE  Q1Accounted'
<1>1. /\ q1 \in Seq(Flavours) /\ q1_empty \in Nat /\ q1_full \in Nat
      /\ Len(q1) \in Nat
  BY DEF IInv, Accounted, TypeOK
<1>2. /\ q1_empty + Cardinality(Baking) + Len(q1) = Q1Size
      /\ q1_full + B2N(HasTicket) = Len(q1)
  BY DEF IInv, Accounted, Q1Accounted
<1>3. Baking' = Baking
  BY DEF Baking, carrierChef, carrierPrints, carrierP, lookIntoQ1, carrierPQ,
         popFromQ1, popHandover, popPrints, carrierCounts, carrierV,
         carrierLogs, carrierGoes
<1>4. CASE carrierP
  <2>1. /\ ~HasTicket /\ HasTicket'
        /\ q1' = q1 /\ q1_empty' = q1_empty /\ q1_full' = q1_full - 1
    BY <1>4 DEF carrierP, carrierGoes, HasTicket
  <2> QED
    BY <1>1, <1>2, <1>3, <2>1 DEF Q1Accounted, B2N
<1>5. CASE popFromQ1
  <2>1. /\ HasTicket /\ ~HasTicket'
        /\ q1' = Tail(q1) /\ q1_empty' = q1_empty + 1 /\ q1_full' = q1_full
    BY <1>5 DEF popFromQ1, carrierGoes, HasTicket
  <2>2. q1 # <<>>
    BY <2>1 DEF IInv, CarrierPopsWhatItSaw
  <2>3. Len(q1') = Len(q1) - 1
    BY <1>1, <2>1, <2>2
  <2> QED
    BY <1>1, <1>2, <1>3, <2>1, <2>3, BakingFinite DEF Q1Accounted, B2N
<1>6. CASE ~carrierP /\ ~popFromQ1
  <2>1. /\ HasTicket' = HasTicket
        /\ q1' = q1 /\ q1_empty' = q1_empty /\ q1_full' = q1_full
    BY <1>6 DEF carrierChef, carrierPrints, lookIntoQ1, carrierPQ, popHandover,
                popPrints, carrierCounts, carrierV, carrierLogs, carrierGoes,
                HasTicket, semaphores
  <2> QED
    BY <1>2, <1>3, <2>1 DEF Q1Accounted
<1> QED
  BY <1>4, <1>5, <1>6

\* The carrier's steps keep the accounts of the flavours' queues.
LEMMA CarrierQAccounts ==
    ASSUME IInv, carrierChef
    PROVE  QAccounted'
<1> SUFFICES ASSUME NEW g \in Flavours
             PROVE  /\ qEmpty'[g] + B2N(Reserved(g)') + n'[g] = QSize
                    /\ qFull'[g] + B2N(Announcing(g)') + B2N(Selling(g)') = n'[g]
  BY DEF QAccounted
<1>1. qEmpty[g] \in Nat /\ qFull[g] \in Nat /\ n[g] \in Nat
  BY DEF IInv, Accounted, TypeOK
<1>2. /\ qEmpty[g] + B2N(Reserved(g)) + n[g] = QSize
      /\ qFull[g] + B2N(Announcing(g)) + B2N(Selling(g)) = n[g]
  BY DEF IInv, Accounted, QAccounted
<1>3. Selling(g)' = Selling(g)
  BY DEF Selling, carrierChef, carrierPrints, carrierP, lookIntoQ1, carrierPQ,
         popFromQ1, popHandover, popPrints, carrierCounts, carrierV,
         carrierLogs, carrierGoes
<1>4. HasSeen => top \in Flavours
  BY DEF IInv, TopKnown
<1>5. CASE carrierPQ
  <2>1. /\ qEmpty'[g] = IF g = top THEN qEmpty[g] - 1 ELSE qEmpty[g]
        /\ qFull'[g] = qFull[g] /\ n'[g] = n[g]
    BY <1>5 DEF carrierPQ, IInv, Accounted, TypeOK
  <2>2. /\ ~Reserved(g) /\ (Reserved(g)' <=> g = top)
        /\ ~Announcing(g) /\ ~Announcing(g)'
    BY <1>5 DEF carrierPQ, carrierGoes, Reserved, Announcing
  <2> QED
    BY <1>1, <1>2, <1>3, <2>1, <2>2, QSizeAssumption DEF B2N
<1>6. CASE carrierCounts
  <2>1. /\ n'[g] = IF g = top THEN n[g] + 1 ELSE n[g]
        /\ qFull'[g] = qFull[g] /\ qEmpty'[g] = qEmpty[g]
    BY <1>6 DEF carrierCounts, semaphores, IInv, Accounted, TypeOK
  <2>2. /\ (Reserved(g) <=> g = top) /\ ~Reserved(g)'
        /\ ~Announcing(g) /\ (Announcing(g)' <=> g = top)
    BY <1>6 DEF carrierCounts, carrierGoes, Reserved, Announcing
  <2> QED
    BY <1>1, <1>2, <1>3, <2>1, <2>2, QSizeAssumption DEF B2N
<1>7. CASE carrierV
  <2>1. /\ qFull'[g] = IF g = top THEN qFull[g] + 1 ELSE qFull[g]
        /\ n'[g] = n[g] /\ qEmpty'[g] = qEmpty[g]
    BY <1>7 DEF carrierV, IInv, Accounted, TypeOK
  <2>2. /\ ~Reserved(g) /\ ~Reserved(g)'
        /\ (Announcing(g) <=> g = top) /\ ~Announcing(g)'
    BY <1>7 DEF carrierV, carrierGoes, Reserved, Announcing
  <2> QED
    BY <1>1, <1>2, <1>3, <2>1, <2>2, QSizeAssumption DEF B2N
<1>8. CASE ~carrierPQ /\ ~carrierCounts /\ ~carrierV
  <2>1. /\ Reserved(g)' = Reserved(g) /\ Announcing(g)' = Announcing(g)
        /\ qEmpty' = qEmpty /\ qFull' = qFull /\ n' = n
    BY <1>8 DEF carrierChef, carrierPrints, carrierP, lookIntoQ1, popFromQ1,
                popHandover, popPrints, carrierLogs, carrierGoes, semaphores,
                Reserved, Announcing
  <2> QED
    BY <1>2, <1>3, <2>1
<1> QED
  BY <1>5, <1>6, <1>7, <1>8

\* A step of the carrier keeps the types.
LEMMA CarrierTypes ==
    ASSUME IInv, carrierChef
    PROVE  TypeOK'
<1>1. TypeOK
  BY DEF IInv, Accounted
<1>2. HasSeen => top \in Flavours
  BY DEF IInv, TopKnown
<1>3. Carrier \in Threads
  BY DEF Threads
<1>4. /\ chef' \in [Flavours -> ChefPlaces]
      /\ waiter' \in [Flavours -> WaiterPlaces]
      /\ carrier' \in CarrierPlaces
  BY <1>1 DEF TypeOK, CarrierPlaces, carrierChef, carrierPrints, carrierP, lookIntoQ1, carrierPQ, popFromQ1,
         popHandover, popPrints, carrierCounts, carrierV, carrierLogs,
         carrierGoes, semaphores, locks
<1>5. /\ lock_Q1' \in Threads \cup {Free}
      /\ lock_Q' \in [Flavours -> Threads \cup {Free}]
      /\ lock_console' \in Threads \cup {Free}
  BY <1>1, <1>3 DEF TypeOK, toConsole, fromConsole, carrierChef, carrierPrints, carrierP, lookIntoQ1, carrierPQ, popFromQ1,
         popHandover, popPrints, carrierCounts, carrierV, carrierLogs,
         carrierGoes, semaphores, locks
<1>6. q1' \in Seq(Flavours) /\ top' \in Flavours \cup {NoCake}
  <2>1. /\ q1' = q1 \/ (HasTicket /\ q1' = Tail(q1))
        /\ top' \in {top, NoCake} \/ (HasTicket /\ top' = Head(q1))
    BY DEF HasTicket, carrierChef, carrierPrints, carrierP, lookIntoQ1, carrierPQ, popFromQ1,
           popHandover, popPrints, carrierCounts, carrierV, carrierLogs,
           carrierGoes, semaphores, locks
  <2>2. q1 \in Seq(Flavours) /\ top \in Flavours \cup {NoCake}
    BY <1>1 DEF TypeOK
  <2>3. HasTicket => q1 # <<>>
    BY DEF IInv, CarrierPopsWhatItSaw
  <2>4. HasTicket => Head(q1) \in Flavours /\ Tail(q1) \in Seq(Flavours)
    BY <2>2, <2>3, HeadTailProperties
  <2> QED
    BY <2>1, <2>2, <2>4, Zenon
<1>7. q1_empty' \in Nat /\ q1_full' \in Nat
  <2>1. /\ q1_empty' \in {q1_empty, q1_empty + 1}
        /\ q1_full' = q1_full \/ (q1_full > 0 /\ q1_full' = q1_full - 1)
    BY DEF carrierChef, carrierPrints, carrierP, lookIntoQ1, carrierPQ, popFromQ1,
           popHandover, popPrints, carrierCounts, carrierV, carrierLogs,
           carrierGoes, semaphores, locks
  <2> QED
    BY <1>1, <2>1 DEF TypeOK
<1>8. n' \in [Flavours -> Nat]
  <2>1. n' = n \/ (HasSeen /\ n' = [n EXCEPT ![top] = @ + 1])
    BY DEF HasSeen, carrierChef, carrierPrints, carrierP, lookIntoQ1, carrierPQ, popFromQ1,
           popHandover, popPrints, carrierCounts, carrierV, carrierLogs,
           carrierGoes, semaphores, locks
  <2>2. n \in [Flavours -> Nat]
    BY <1>1 DEF TypeOK
  <2>3. ASSUME top \in Flavours
        PROVE  [n EXCEPT ![top] = @ + 1] \in [Flavours -> Nat]
    BY <2>2, <2>3
  <2> QED
    BY <1>2, <2>1, <2>2, <2>3, Zenon
<1>9. qEmpty' \in [Flavours -> Nat] /\ qFull' \in [Flavours -> Nat]
  <2>1. /\ \/ qEmpty' = qEmpty
           \/ HasSeen /\ qEmpty[top] > 0 /\ qEmpty' = [qEmpty EXCEPT ![top] = @ - 1]
        /\ qFull' = qFull \/ (HasSeen /\ qFull' = [qFull EXCEPT ![top] = @ + 1])
    BY DEF HasSeen, carrierChef, carrierPrints, carrierP, lookIntoQ1, carrierPQ, popFromQ1,
           popHandover, popPrints, carrierCounts, carrierV, carrierLogs,
           carrierGoes, semaphores, locks
  <2>2. qEmpty \in [Flavours -> Nat] /\ qFull \in [Flavours -> Nat]
    BY <1>1 DEF TypeOK
  <2>3. ASSUME top \in Flavours
        PROVE  /\ qEmpty[top] > 0
                     => [qEmpty EXCEPT ![top] = @ - 1] \in [Flavours -> Nat]
               /\ [qFull EXCEPT ![top] = @ + 1] \in [Flavours -> Nat]
    BY <2>2, <2>3
  <2> QED
    BY <1>2, <2>1, <2>2, <2>3, Zenon
<1>10. LogsTyped'
  <2>1. LocksHeld' /\ Unprinted1Shape' /\ UnprintedShape'
    BY CarrierLocks, CarrierShape1, CarrierShape
  <2>2. unprinted' = [g \in Flavours |-> unprinted'[g]]
    BY <1>1 DEF TypeOK, carrierChef, carrierPrints, carrierP, lookIntoQ1, carrierPQ, popFromQ1,
           popHandover, popPrints, carrierCounts, carrierV, carrierLogs,
           carrierGoes, semaphores, locks
  <2>3. ShapesHold'
    BY <1>5, <2>1, <2>2 DEF ShapesHold
  <2> QED
    BY <2>3, ShapesTyped, PTL
<1> QED
  BY <1>4, <1>5, <1>6, <1>7, <1>8, <1>9, <1>10 DEF LogsTyped, TypeOK

\* Only the carrier takes a cake out of Q1, so the one it looked at stays at
\* the head while chefs put others behind it.
LEMMA StillAtHead ==
    ASSUME IInv, Next
    PROVE  CarrierPopsWhatItSaw' /\ TopKnown'
<1>1. q1 \in Seq(Flavours)
  BY DEF IInv, Accounted, TypeOK
<1>2. /\ HasTicket => q1 # <<>>
      /\ carrier \in {"found", "await", "PQ", "supply", "pop"} => top = Head(q1)
      /\ HasSeen => top \in Flavours
  BY DEF IInv, CarrierPopsWhatItSaw, TopKnown
<1>3. ASSUME NEW f \in Flavours, bakingChef(f) \/ sellingWaiter(f)
      PROVE  CarrierPopsWhatItSaw' /\ TopKnown'
  <2>1. /\ carrier' = carrier /\ top' = top
        /\ q1' = q1 \/ q1' = Append(q1, f)
    BY <1>3 DEF bakingChef, chefPrints, chefP, putInQ1, putHandover, putPrints,
                chefGoes, sellingWaiter, waiterPrints, waiterP, waiterSells,
                sellHandover, sellPrints, waiterGoes
  <2>2. q1 # <<>> => q1' # <<>> /\ Head(q1') = Head(q1)
    BY <1>1, <2>1
  <2> QED
    BY <1>2, <2>1, <2>2
       DEF CarrierPopsWhatItSaw, TopKnown, HasTicket, HasSeen
<1>4. CASE carrierP
  <2>1. q1_full + B2N(HasTicket) = Len(q1) /\ q1_full \in Nat
    BY DEF IInv, Accounted, Q1Accounted, TypeOK
  <2>2. q1_full > 0 /\ q1' = q1 /\ carrier' = "start"
    BY <1>4 DEF carrierP, carrierGoes
  <2>3. q1' # <<>>
    BY <1>1, <2>1, <2>2 DEF B2N
  <2> QED
    BY <2>2, <2>3 DEF CarrierPopsWhatItSaw, TopKnown, HasSeen
<1>5. CASE lookIntoQ1
  <2>1. HasTicket /\ q1' = q1 /\ carrier' = "found" /\ top' = Head(q1)
    BY <1>5 DEF lookIntoQ1, carrierGoes, HasTicket
  <2>2. Head(q1) \in Flavours
    BY <1>1, <1>2, <2>1
  <2> QED
    BY <1>2, <2>1, <2>2 DEF CarrierPopsWhatItSaw, TopKnown
<1>6. CASE carrierPrints \/ carrierPQ
  BY <1>2, <1>6 DEF carrierPrints, carrierPQ, carrierGoes, CarrierPopsWhatItSaw,
                    TopKnown, HasTicket, HasSeen
<1>7. CASE popFromQ1 \/ popHandover \/ popPrints \/ carrierCounts \/ carrierV
             \/ carrierLogs
  BY <1>2, <1>7 DEF popFromQ1, popHandover, popPrints, carrierCounts, carrierV,
                    carrierLogs, carrierGoes, CarrierPopsWhatItSaw, TopKnown,
                    HasTicket, HasSeen
<1> QED
  BY <1>3, <1>4, <1>5, <1>6, <1>7 DEF Next, carrierChef

\* Every step keeps the invariant.
LEMMA NextInv == IInv /\ [Next]_vars => IInv'
<1> SUFFICES ASSUME IInv, [Next]_vars PROVE IInv'
  OBVIOUS
<1>1. ASSUME NEW f \in Flavours, bakingChef(f)
      PROVE  IInv'
  <2>1. Next
    BY <1>1 DEF Next
  <2> QED
    BY <1>1, <2>1, ChefAccounts, StillAtHead, ChefLocks, ChefShape1, ChefShape
       DEF IInv
<1>2. ASSUME NEW f \in Flavours, sellingWaiter(f)
      PROVE  IInv'
  <2>1. Next
    BY <1>2 DEF Next
  <2> QED
    BY <1>2, <2>1, WaiterAccounts, StillAtHead, WaiterLocks, WaiterShape1,
       WaiterShape DEF IInv
<1>3. CASE carrierChef
  <2>1. Next
    BY <1>3 DEF Next
  <2>2. Accounted'
    BY <1>3, CarrierTypes, CarrierQ1Accounts, CarrierQAccounts DEF Accounted
  <2> QED
    BY <1>3, <2>1, <2>2, StillAtHead, CarrierLocks, CarrierShape1, CarrierShape
       DEF IInv
<1>4. CASE UNCHANGED vars
  BY <1>4 DEF vars, semaphores, locks, IInv, Accounted, TypeOK, Q1Accounted,
              Baking, HasTicket, QAccounted, Reserved, Announcing, Selling,
              CarrierPopsWhatItSaw, TopKnown, HasSeen, LocksHeld, LockHolders,
              Unprinted1Shape, Printing1, Holding1, UnprintedShape, Delivered
<1> QED
  BY <1>1, <1>2, <1>3, <1>4 DEF Next

LEMMA InvHolds == Spec => []IInv
BY InitInv, NextInv, PTL DEF Spec

-----------------------------------------------------------------------------
(* The results *)

\* Semaphores, queues and threads agree at every moment: the places and cakes
\* the six semaphores count are those of the queues of CakeFactory.cpp, and
\* none of the size_t counts goes below zero.
THEOREM FactoryAccounted == Spec => []Accounted
<1>1. IInv => Accounted
  BY DEF IInv
<1> QED
  BY <1>1, InvHolds, PTL

\* popFromQ1 removes the cake lookIntoQ1 saw, from a queue that is not empty,
\* although the carrier holds no lock in between.
THEOREM FactoryPopsWhatItSaw == Spec => []CarrierPopsWhatItSaw
<1>1. IInv => CarrierPopsWhatItSaw
  BY DEF IInv
<1> QED
  BY <1>1, InvHolds, PTL

\* The lines on the console come in the order of the operations they report,
\* because lock_console is taken before the queue's lock is released.
THEOREM FactoryLogsInOrder == Spec => []LogsInOrder
<1>1. IInv => LogsInOrder
  <2> SUFFICES ASSUME IInv PROVE LogsInOrder
    OBVIOUS
  <2>1. ASSUME NEW t, Printing1 = <<t>>
        PROVE  Head(unprinted1) = t
    <3>1. Holding1 = <<>> \/ Holding1 = <<lock_Q1>>
      BY DEF Holding1
    <3>2. <<t>> \o <<>> = <<t>> /\ <<t>> \o <<lock_Q1>> = <<t, lock_Q1>>
      BY ConcatOneOne
    <3>3. unprinted1 = <<t>> \/ unprinted1 = <<t, lock_Q1>>
      BY <2>1, <3>1, <3>2 DEF IInv, Unprinted1Shape
    <3>4. Head(<<t>>) = t /\ Head(<<t, lock_Q1>>) = t
      OBVIOUS
    <3> QED
      BY <3>3, <3>4
  <2>2. /\ carrier = "print" => Printing1 = <<Carrier>>
        /\ \A f \in Flavours : chef[f] = "print" => Printing1 = <<Chef(f)>>
    BY DEF IInv, LocksHeld, Printing1
  <2>3. Q1LogInOrder
    BY <2>1, <2>2 DEF Q1LogInOrder
  <2>4. ASSUME carrier = "printQ"
        PROVE  Head(unprinted[top]) = Carrier
    <3>1. top \in Flavours /\ Delivered(top) /\ waiter[top] # "print"
      BY <2>4, ThreadsDistinct
         DEF IInv, TopKnown, HasSeen, Delivered, LocksHeld
    <3>2. unprinted[top] = <<Carrier, Waiter(top)>> \/ unprinted[top] = <<Carrier>>
      BY <3>1 DEF IInv, UnprintedShape
    <3>3. Head(<<Carrier>>) = Carrier /\ Head(<<Carrier, Waiter(top)>>) = Carrier
      OBVIOUS
    <3> QED
      BY <3>2, <3>3
  <2> QED
    BY <2>3, <2>4 DEF LogsInOrder, SaleLoggedFirst
<1> QED
  BY <1>1, InvHolds, PTL

\* A step of the threads is a step of the pipeline or leaves its belt, hand
\* and shelves alone.
LEMMA StepRefines ==
    IInv /\ [Next]_vars => [Pipeline!Next]_Pipeline!pipelineVars
<1> SUFFICES ASSUME IInv, [Next]_vars
             PROVE  [Pipeline!Next]_Pipeline!pipelineVars
  OBVIOUS
<1>1. /\ q1 \in Seq(Flavours) /\ q1_empty \in Nat /\ q1_full \in Nat
      /\ \A f \in Flavours : qEmpty[f] \in Nat /\ qFull[f] \in Nat /\ n[f] \in Nat
  BY DEF IInv, Accounted, TypeOK
<1>2. /\ q1_empty + Cardinality(Baking) + Len(q1) = Q1Size
      /\ \A f \in Flavours :
            /\ qEmpty[f] + B2N(Reserved(f)) + n[f] = QSize
            /\ qFull[f] + B2N(Announcing(f)) + B2N(Selling(f)) = n[f]
  BY DEF IInv, Accounted, Q1Accounted, QAccounted
<1> USE DEF Pipeline!pipelineVars, hand
<1>3. ASSUME NEW f \in Flavours, putInQ1(f)
      PROVE  Pipeline!Bake(f)
  <2>1. f \in Baking
    BY <1>3 DEF putInQ1, chefGoes, Baking
  <2>2. Cardinality(Baking) > 0
    BY <2>1, BakingFinite, FS_EmptySet
  <2>3. Len(q1) < Q1Size
    BY <1>1, <1>2, <2>2, BakingFinite, Q1SizeAssumption
  <2> QED
    BY <1>3, <2>3 DEF putInQ1, chefGoes, Pipeline!Bake
<1>4. ASSUME NEW f \in Flavours, bakingChef(f), ~putInQ1(f)
      PROVE  UNCHANGED Pipeline!pipelineVars
  BY <1>4 DEF bakingChef, chefPrints, chefP, putHandover, putPrints, chefGoes
<1>5. ASSUME NEW f \in Flavours, waiterSells(f)
      PROVE  Pipeline!Sell(f)
  <2>1. Selling(f)
    BY <1>5 DEF waiterSells, waiterGoes, Selling
  <2>2. n[f] > 0
    BY <1>1, <1>2, <2>1 DEF B2N
  <2> QED
    BY <1>5, <2>2 DEF waiterSells, waiterGoes, Pipeline!Sell
<1>6. ASSUME NEW f \in Flavours, sellingWaiter(f), ~waiterSells(f)
      PROVE  UNCHANGED Pipeline!pipelineVars
  BY <1>6 DEF sellingWaiter, waiterPrints, waiterP, sellHandover, sellPrints,
              waiterGoes
<1>7. ASSUME popFromQ1
      PROVE  Pipeline!Take
  <2>1. q1 # <<>> /\ top = Head(q1) /\ top \in Flavours
    BY <1>7 DEF popFromQ1, carrierGoes, IInv, CarrierPopsWhatItSaw, TopKnown,
                HasTicket, HasSeen
  <2>2. Reserved(top)
    BY <1>7 DEF popFromQ1, carrierGoes, Reserved
  <2>3. n[top] < QSize
    BY <1>1, <1>2, <2>1, <2>2, QSizeAssumption DEF B2N
  <2> QED
    BY <1>7, <2>1, <2>3 DEF popFromQ1, carrierGoes, Pipeline!Take,
                            Pipeline!NoCake, NoCake
<1>8. ASSUME carrierCounts
      PROVE  Pipeline!Deliver
  <2>1. top \in Flavours
    BY <1>8 DEF carrierCounts, carrierGoes, IInv, TopKnown, HasSeen
  <2>2. top # NoCake
    BY <2>1, NoCakeAssumption
  <2> QED
    BY <1>8, <2>2 DEF carrierCounts, carrierGoes, Pipeline!Deliver,
                      Pipeline!NoCake, NoCake
<1>9. ASSUME carrierChef, ~popFromQ1, ~carrierCounts
      PROVE  UNCHANGED Pipeline!pipelineVars
  BY <1>9 DEF carrierChef, carrierPrints, carrierP, lookIntoQ1, carrierPQ,
              popHandover, popPrints, carrierV, carrierLogs, carrierGoes
<1>10. CASE UNCHANGED vars
  BY <1>10 DEF vars
<1> QED
  BY <1>3, <1>4, <1>5, <1>6, <1>7, <1>8, <1>9, <1>10 DEF Next, Pipeline!Next

\* Threads, locks and semaphores together are the pipeline of CakePipeline:
\* cakes leave Q1 in the order they were put there, none is lost or doubled,
\* and no queue is ever overfull.
THEOREM FactoryImplementsPipeline == Spec => Implements
<1>1. Init => Pipeline!Init
  BY DEF Init, initLocks, Pipeline!Init, hand, NoCake, Pipeline!NoCake
<1> QED
  BY <1>1, InvHolds, StepRefines, PTL DEF Spec, Implements, Pipeline!Spec
=============================================================================
