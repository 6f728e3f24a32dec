---------------------------- MODULE CakeFactory ----------------------------
(***************************************************************************)
(* IPC/CakeFactory/CakeFactory.cpp: per flavour a chef that bakes and a    *)
(* waiter that sells, and one carrier (Chef Z) that moves cakes from the   *)
(* common queue Q1 to the queue of the cake's flavour.  Three pairs of     *)
(* counting semaphores bound the queues, a mutex per queue guards it, and  *)
(* lock_console guards the log.                                            *)
(*                                                                         *)
(* A step is what a thread does from one blocking call to the next: taking *)
(* a mutex together with the accesses it protects, or one sem_wait.        *)
(* printInConsoleWithLocking takes and releases lock_console at once, so   *)
(* it is one step that needs lock_console free.  timeoutPassed is never    *)
(* set, so every thread loops forever.                                     *)
(***************************************************************************)
EXTENDS Integers, Sequences, FiniteSets

CONSTANTS
    Flavours,   \* the kinds of cake; the program has vanilla and chocolate
    Q1Size,     \* MAX_NO_OF_PRODUCDED_CAKES
    QSize       \* MAX_NO_OF_VANILLA_CAKES and MAX_NO_OF_CHOCOLATE_CAKES

ASSUME FlavoursAssumption == IsFiniteSet(Flavours)
ASSUME Q1SizeAssumption == Q1Size \in Nat \ {0}
ASSUME QSizeAssumption == QSize \in Nat \ {0}

VARIABLES
    q1,             \* the common queue, a sequence of flavours
    q1_empty, q1_full,
    n,              \* nVanilla and nChocolate
    qEmpty, qFull,  \* the semaphores of the flavours' queues
    lock_Q1, lock_Q, lock_console,   \* each held by a thread or Free
    chef, waiter, carrier,           \* where each thread is
    top,            \* topCakeQ1 of the carrier
    unprinted1,     \* history: threads with an operation on q1 not yet logged
    unprinted       \* history: the same for each flavour's queue

semaphores == <<q1_empty, q1_full, qEmpty, qFull>>
locks == <<lock_Q1, lock_Q, lock_console>>
vars == <<q1, n, semaphores, locks, chef, waiter, carrier, top,
          unprinted1, unprinted>>

Free == <<"free">>
Chef(f) == <<"chef", f>>
Waiter(f) == <<"waiter", f>>
Carrier == <<"carrier">>
Threads == {Chef(f) : f \in Flavours} \cup {Waiter(f) : f \in Flavours}
              \cup {Carrier}
NoCake == <<"no cake">>

ASSUME NoCakeAssumption == NoCake \notin Flavours

ChefPlaces == {"announce", "P", "start", "put", "handover", "print"}
WaiterPlaces == {"announce", "P", "start", "sell", "handover", "print"}
CarrierPlaces == {"announce", "P", "start", "look", "found", "await", "PQ",
                  "supply", "pop", "handover", "print", "count", "V", "printQ"}

\* initLocks() and the zeroed globals.
initLocks ==
    /\ q1_empty = Q1Size
    /\ q1_full = 0
    /\ qEmpty = [f \in Flavours |-> QSize]
    /\ qFull = [f \in Flavours |-> 0]
    /\ lock_Q1 = Free
    /\ lock_Q = [f \in Flavours |-> Free]
    /\ lock_console = Free

Init ==
    /\ initLocks
    /\ q1 = <<>>
    /\ n = [f \in Flavours |-> 0]
    /\ chef = [f \in Flavours |-> "announce"]
    /\ waiter = [f \in Flavours |-> "announce"]
    /\ carrier = "announce"
    /\ top = NoCake
    /\ unprinted1 = <<>>
    /\ unprinted = [f \in Flavours |-> <<>>]

-----------------------------------------------------------------------------
(* Steps all threads have in common *)

\* printInConsoleWithLocking
printInConsoleWithLocking == lock_console = Free

\* Take lock_console while holding a queue's mutex, then let go of that one.
toConsole(t) == lock_console = Free /\ lock_console' = t

fromConsole(t) == lock_console = t /\ lock_console' = Free

\* Without the first entry of thread t.
Logged(s, t) ==
    LET i == CHOOSE k \in 1 .. Len(s) :
                s[k] = t /\ \A j \in 1 .. k - 1 : s[j] # t
    IN  [k \in 1 .. Len(s) - 1 |-> IF k < i THEN s[k] ELSE s[k + 1]]

-----------------------------------------------------------------------------
(* The baking chefs *)

chefGoes(f, from, to) ==
    /\ chef[f] = from
    /\ chef' = [chef EXCEPT ![f] = to]
    /\ UNCHANGED <<waiter, carrier, top, n, qEmpty, qFull, lock_Q, unprinted>>

chefPrints(f) ==
    /\ printInConsoleWithLocking
    /\ chefGoes(f, "announce", "P") \/ chefGoes(f, "start", "put")
    /\ UNCHANGED <<q1, q1_empty, q1_full, lock_Q1, lock_console, unprinted1>>

chefP(f) ==
    /\ chefGoes(f, "P", "start")
    /\ q1_empty > 0
    /\ q1_empty' = q1_empty - 1
    /\ UNCHANGED <<q1, q1_full, lock_Q1, lock_console, unprinted1>>

\* Mutant: the cake is put at the front.
putInQ1Front(f) ==
    /\ chefGoes(f, "put", "handover")
    /\ lock_Q1 = Free
    /\ lock_Q1' = Chef(f)
    /\ q1' = <<f>> \o q1
    /\ q1_full' = q1_full + 1
    /\ unprinted1' = Append(unprinted1, Chef(f))
    /\ UNCHANGED <<q1_empty, lock_console>>

\* putInQ1: up to the V(q1_full) inside the lock ...
putInQ1(f) ==
    /\ chefGoes(f, "put", "handover")
    /\ lock_Q1 = Free
    /\ lock_Q1' = Chef(f)
    /\ q1' = Append(q1, f)
    /\ q1_full' = q1_full + 1
    /\ unprinted1' = Append(unprinted1, Chef(f))
    /\ UNCHANGED <<q1_empty, lock_console>>

\* Mutant: lock_Q1 is released before lock_console is taken.
putHandoverEarly(f) ==
    /\ \/ /\ lock_Q1 = Chef(f)
          /\ lock_Q1' = Free
          /\ UNCHANGED <<lock_console, chef>>
       \/ /\ lock_Q1 # Chef(f)
          /\ toConsole(Chef(f))
          /\ chef' = [chef EXCEPT ![f] = "print"]
          /\ UNCHANGED lock_Q1
    /\ chef[f] = "handover"
    /\ UNCHANGED <<waiter, carrier, top, n, qEmpty, qFull, lock_Q, unprinted,
                   q1, q1_empty, q1_full, unprinted1>>

\* ... the console lock taken before lock_Q1 is released ...
putHandover(f) ==
    /\ chefGoes(f, "handover", "print")
    /\ toConsole(Chef(f))
    /\ lock_Q1' = Free
    /\ UNCHANGED <<q1, q1_empty, q1_full, unprinted1>>

\* ... and the log line.
putPrints(f) ==
    /\ chefGoes(f, "print", "announce")
    /\ fromConsole(Chef(f))
    /\ unprinted1' = Logged(unprinted1, Chef(f))
    /\ UNCHANGED <<q1, q1_empty, q1_full, lock_Q1>>

\* vanillaChef and chocolateChef
bakingChef(f) ==
    chefPrints(f) \/ chefP(f) \/ putInQ1(f) \/ putHandover(f) \/ putPrints(f)

-----------------------------------------------------------------------------
(* The carrier *)

carrierGoes(from, to) ==
    /\ carrier = from
    /\ carrier' = to
    /\ UNCHANGED <<chef, waiter>>

\* Mutant: the carrier looks again instead of waiting for a place.
carrierPrintsPolling ==
    /\ printInConsoleWithLocking
    /\ \/ carrierGoes("announce", "P")
       \/ carrierGoes("start", "look")
       \/ carrierGoes("found", "look")
    /\ UNCHANGED <<q1, n, semaphores, locks, top, unprinted1, unprinted>>

carrierPrints ==
    /\ printInConsoleWithLocking
    /\ \/ carrierGoes("announce", "P")
       \/ carrierGoes("start", "look")
       \/ carrierGoes("found", "await")
       \/ carrierGoes("await", "PQ")
       \/ carrierGoes("supply", "pop")
    /\ UNCHANGED <<q1, n, semaphores, locks, top, unprinted1, unprinted>>

carrierP ==
    /\ carrierGoes("P", "start")
    /\ q1_full > 0
    /\ q1_full' = q1_full - 1
    /\ UNCHANGED <<q1, n, q1_empty, qEmpty, qFull, locks, top, unprinted1,
                   unprinted>>

\* lookIntoQ1: the lock is taken and released around the look.
lookIntoQ1 ==
    /\ carrierGoes("look", "found")
    /\ lock_Q1 = Free
    /\ top' = Head(q1)
    /\ UNCHANGED <<q1, n, semaphores, locks, unprinted1, unprinted>>

\* P of the flavour's "empty" semaphore, with the cake still in Q1.
carrierPQ ==
    /\ carrierGoes("PQ", "supply")
    /\ qEmpty[top] > 0
    /\ qEmpty' = [qEmpty EXCEPT ![top] = @ - 1]
    /\ UNCHANGED <<q1, n, q1_empty, q1_full, qFull, locks, top, unprinted1,
                   unprinted>>

\* Mutant: the newest cake is taken.
popFromQ1Last ==
    /\ carrierGoes("pop", "handover")
    /\ lock_Q1 = Free
    /\ lock_Q1' = Carrier
    /\ top' = q1[Len(q1)]
    /\ q1' = SubSeq(q1, 1, Len(q1) - 1)
    /\ q1_empty' = q1_empty + 1
    /\ unprinted1' = Append(unprinted1, Carrier)
    /\ UNCHANGED <<n, q1_full, qEmpty, qFull, lock_Q, lock_console, unprinted>>

\* popFromQ1: up to the V(q1_empty) inside the lock ...
popFromQ1 ==
    /\ carrierGoes("pop", "handover")
    /\ lock_Q1 = Free
    /\ lock_Q1' = Carrier
    /\ q1' = Tail(q1)
    /\ q1_empty' = q1_empty + 1
    /\ unprinted1' = Append(unprinted1, Carrier)
    /\ UNCHANGED <<n, q1_full, qEmpty, qFull, lock_Q, lock_console, top,
                   unprinted>>

popHandover ==
    /\ carrierGoes("handover", "print")
    /\ toConsole(Carrier)
    /\ lock_Q1' = Free
    /\ UNCHANGED <<q1, n, semaphores, lock_Q, top, unprinted1, unprinted>>

popPrints ==
    /\ carrierGoes("print", "count")
    /\ fromConsole(Carrier)
    /\ unprinted1' = Logged(unprinted1, Carrier)
    /\ UNCHANGED <<q1, n, semaphores, lock_Q1, lock_Q, top, unprinted>>

\* ++nVanilla or ++nChocolate inside the flavour's lock.
carrierCounts ==
    /\ carrierGoes("count", "V")
    /\ lock_Q[top] = Free
    /\ n' = [n EXCEPT ![top] = @ + 1]
    /\ unprinted' = [unprinted EXCEPT ![top] = Append(@, Carrier)]
    /\ UNCHANGED <<q1, semaphores, locks, top, unprinted1>>

\* V of the flavour's "full" semaphore, under the console lock.
carrierV ==
    /\ carrierGoes("V", "printQ")
    /\ toConsole(Carrier)
    /\ qFull' = [qFull EXCEPT ![top] = @ + 1]
    /\ UNCHANGED <<q1, n, q1_empty, q1_full, qEmpty, lock_Q1, lock_Q, top,
                   unprinted1, unprinted>>

carrierLogs ==
    /\ carrierGoes("printQ", "announce")
    /\ fromConsole(Carrier)
    /\ unprinted' = [unprinted EXCEPT ![top] = Logged(@, Carrier)]
    /\ top' = NoCake
    /\ UNCHANGED <<q1, n, semaphores, lock_Q1, lock_Q, unprinted1>>

carrierChef ==
    \/ carrierPrints \/ carrierP \/ lookIntoQ1 \/ carrierPQ \/ popFromQ1
    \/ popHandover \/ popPrints \/ carrierCounts \/ carrierV \/ carrierLogs

-----------------------------------------------------------------------------
(* The waiters *)

waiterGoes(f, from, to) ==
    /\ waiter[f] = from
    /\ waiter' = [waiter EXCEPT ![f] = to]
    /\ UNCHANGED <<chef, carrier, top, q1, q1_empty, q1_full, lock_Q1,
                   unprinted1>>

waiterPrints(f) ==
    /\ printInConsoleWithLocking
    /\ waiterGoes(f, "announce", "P") \/ waiterGoes(f, "start", "sell")
    /\ UNCHANGED <<n, qEmpty, qFull, lock_Q, lock_console, unprinted>>

waiterP(f) ==
    /\ waiterGoes(f, "P", "start")
    /\ qFull[f] > 0
    /\ qFull' = [qFull EXCEPT ![f] = @ - 1]
    /\ UNCHANGED <<n, qEmpty, lock_Q, lock_console, unprinted>>

\* Mutant: V of the flavour's "empty" semaphore is forgotten.
waiterSellsNoV(f) ==
    /\ waiterGoes(f, "sell", "handover")
    /\ lock_Q[f] = Free
    /\ lock_Q' = [lock_Q EXCEPT ![f] = Waiter(f)]
    /\ n' = [n EXCEPT ![f] = @ - 1]
    /\ unprinted' = [unprinted EXCEPT ![f] = Append(@, Waiter(f))]
    /\ UNCHANGED <<qEmpty, qFull, lock_console>>

waiterSells(f) ==
    /\ waiterGoes(f, "sell", "handover")
    /\ lock_Q[f] = Free
    /\ lock_Q' = [lock_Q EXCEPT ![f] = Waiter(f)]
    /\ n' = [n EXCEPT ![f] = @ - 1]
    /\ qEmpty' = [qEmpty EXCEPT ![f] = @ + 1]
    /\ unprinted' = [unprinted EXCEPT ![f] = Append(@, Waiter(f))]
    /\ UNCHANGED <<qFull, lock_console>>

sellHandover(f) ==
    /\ waiterGoes(f, "handover", "print")
    /\ toConsole(Waiter(f))
    /\ lock_Q' = [lock_Q EXCEPT ![f] = Free]
    /\ UNCHANGED <<n, qEmpty, qFull, unprinted>>

sellPrints(f) ==
    /\ waiterGoes(f, "print", "announce")
    /\ fromConsole(Waiter(f))
    /\ unprinted' = [unprinted EXCEPT ![f] = Logged(@, Waiter(f))]
    /\ UNCHANGED <<n, qEmpty, qFull, lock_Q>>

\* vanillaWaiter and chocolateWaiter
sellingWaiter(f) ==
    \/ waiterPrints(f) \/ waiterP(f) \/ waiterSells(f) \/ sellHandover(f)
    \/ sellPrints(f)

-----------------------------------------------------------------------------

Next ==
    \/ carrierChef
    \/ \E f \in Flavours : bakingChef(f) \/ sellingWaiter(f)

Spec == Init /\ [][Next]_vars

\* The threads run concurrently under the system's scheduler; nothing is
\* assumed about which of several waiting threads a semaphore or mutex lets
\* go first.
FairSpec ==
    /\ Spec
    /\ WF_vars(carrierChef)
    /\ \A f \in Flavours : WF_vars(bakingChef(f)) /\ WF_vars(sellingWaiter(f))

-----------------------------------------------------------------------------
(* Invariants *)

\* Every variable has its type; the counts never go below zero (they are of
\* type size_t, which would wrap).
TypeOK ==
    /\ q1 \in Seq(Flavours)
    /\ n \in [Flavours -> Nat]
    /\ q1_empty \in Nat
    /\ q1_full \in Nat
    /\ qEmpty \in [Flavours -> Nat]
    /\ qFull \in [Flavours -> Nat]
    /\ chef \in [Flavours -> ChefPlaces]
    /\ waiter \in [Flavours -> WaiterPlaces]
    /\ carrier \in CarrierPlaces
    /\ top \in Flavours \cup {NoCake}
    /\ lock_Q1 \in Threads \cup {Free}
    /\ lock_Q \in [Flavours -> Threads \cup {Free}]
    /\ lock_console \in Threads \cup {Free}
    /\ unprinted1 \in Seq(Threads)
    /\ unprinted \in [Flavours -> Seq(Threads)]

Baking == {f \in Flavours : chef[f] \in {"start", "put"}}
HasTicket == carrier \in {"start", "look", "found", "await", "PQ", "supply",
                          "pop"}
B2N(b) == IF b THEN 1 ELSE 0

\* The semaphores of Q1 account for every place: free, reserved by a chef, or
\* holding a cake; and for every cake: announced to the carrier, or already
\* claimed by it.  No queue holds more cakes than it has places.
Q1Accounted ==
    /\ q1_empty + Cardinality(Baking) + Len(q1) = Q1Size
    /\ q1_full + B2N(HasTicket) = Len(q1)

Reserved(f) == carrier \in {"supply", "pop", "handover", "print", "count"}
                  /\ top = f
Announcing(f) == carrier = "V" /\ top = f
Selling(f) == waiter[f] \in {"start", "sell"}

\* The same for the queue of each flavour.
QAccounted ==
    \A f \in Flavours :
        /\ qEmpty[f] + B2N(Reserved(f)) + n[f] = QSize
        /\ qFull[f] + B2N(Announcing(f)) + B2N(Selling(f)) = n[f]

\* Semaphores and queues agree at every moment of the five threads.
Accounted == TypeOK /\ Q1Accounted /\ QAccounted

\* The carrier reserves a place by the cake it looked at and pops later,
\* without holding lock_Q1 in between: it is still the same cake, and front()
\* and pop() are never called on an empty queue.
CarrierPopsWhatItSaw ==
    /\ HasTicket => q1 # <<>>
    /\ carrier \in {"found", "await", "PQ", "supply", "pop"} => top = Head(q1)

\* The log lines of Q1 come in the order of the operations they report: the
\* thread about to print is the one whose operation is the oldest unprinted.
Q1LogInOrder ==
    /\ carrier = "print" => Head(unprinted1) = Carrier
    /\ \A f \in Flavours : chef[f] = "print" => Head(unprinted1) = Chef(f)

\* "newer one can write to q now but can't print that before this": when the
\* carrier prints, no waiter has an older sale still to print.
SaleLoggedFirst ==
    carrier = "printQ" => Head(unprinted[top]) = Carrier

\* The log tells the story of both kinds of queue in the order it happened.
LogsInOrder == Q1LogInOrder /\ SaleLoggedFirst

\* A mutex is held exactly between the steps that take and release it.
LocksHeld ==
    /\ lock_Q1 = Carrier <=> carrier = "handover"
    /\ lock_console = Carrier <=> carrier \in {"print", "printQ"}
    /\ \A f \in Flavours :
          /\ lock_Q1 = Chef(f) <=> chef[f] = "handover"
          /\ lock_Q[f] = Waiter(f) <=> waiter[f] = "handover"
          /\ lock_console = Chef(f) <=> chef[f] = "print"
          /\ lock_console = Waiter(f) <=> waiter[f] = "print"

-----------------------------------------------------------------------------
(* Liveness *)

\* Cakes go on being sold, whatever the order in which threads get the locks.
AlwaysSellsAgain == []<>(\E f \in Flavours : waiter[f] = "handover")

\* A cake the carrier has looked at reaches the queue of its flavour: a full
\* queue, or other threads that keep printing, cannot hold it up forever.
SeenCakeArrives ==
    \A f \in Flavours :
        (carrier = "found" /\ top = f) ~> (carrier = "V" /\ top = f)

\* Cakes never stop moving, neither all of them nor a single one.
CakesKeepMoving == AlwaysSellsAgain /\ SeenCakeArrives

-----------------------------------------------------------------------------
(* What the program promises, see CakePipeline. *)

hand == IF carrier \in {"handover", "print", "count"} THEN top ELSE NoCake

Pipeline == INSTANCE CakePipeline WITH belt <- q1, shelf <- n, hand <- hand
Implements == Pipeline!Spec
=============================================================================
