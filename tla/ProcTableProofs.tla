-------------------------- MODULE ProcTableProofs --------------------------
(***************************************************************************)
(* Proofs about ProcTable, for every number of slots and CPUs, every       *)
(* modulus of the tick counter and all arguments of sleep and kill.        *)
(***************************************************************************)
EXTENDS ProcTable, WellFoundedInduction, TLAPS

\* The places of a thread: where it holds no spin lock, where it comes back
\* from a switch with ptable.lock, and where it holds tickslock.
States == {"UNUSED", "EMBRYO", "RUNNABLE", "RUNNING", "SLEEPING", "ZOMBIE"}
Unlocked == {"user", "ret", "copy", "forked", "exit", "relock"}
Switched == {"waiting", "asleep"}
Timing == {"slept", "sleeps"}
InSleep == {"slept", "sleeps", "asleep", "relock"}
Places == Unlocked \cup Switched \cup Timing \cup {"forkret"}
Handlers == {"none", "tick", "wake", "check", "yielded", "exits"}

Proc == [state : States, pid : Nat, parent : 0 .. NPROC, chan : 0 .. NPROC + 1,
         killed : BOOLEAN]
Thread == [at : Places, irq : Handlers, intena : BOOLEAN, np : 0 .. NPROC,
           n : 0 .. TICKS - 1, ticks0 : 0 .. TICKS - 1, elapsed : 0 .. TICKS, ret : Int]
Cpu == [proc : 0 .. NPROC, on : {"scheduler", "process", "sched"},
        scan : 0 .. NPROC + 1, irq : {"none", "tick", "wake"}, ncli : Nat,
        intena : BOOLEAN, fl : BOOLEAN]

TypeOK ==
    /\ proc \in [Slots -> Proc]
    /\ thr \in [Slots -> Thread]
    /\ cpu \in [Cpus -> Cpu]
    /\ locked \in [{"ptable", "ticks"} -> 0 .. NCPU]
    /\ nextpid \in Nat /\ ticks \in 0 .. TICKS - 1

\* Where CPU c is inside a section of ptable.lock, and of tickslock.
HoldsTable(c) ==
    \/ cpu[c].on = "sched"
    \/ cpu[c].on = "scheduler" /\ cpu[c].scan > 0
    \/ /\ cpu[c].on = "process"
       /\ \/ thr[cpu[c].proc].irq = "yielded"
          \/ /\ thr[cpu[c].proc].irq = "none"
             /\ thr[cpu[c].proc].at \in Switched \cup {"forkret"}

HoldsTicks(c) ==
    \/ cpu[c].on # "process" /\ cpu[c].irq = "wake"
    \/ /\ cpu[c].on = "process"
       /\ \/ thr[cpu[c].proc].irq = "wake"
          \/ thr[cpu[c].proc].irq = "none" /\ thr[cpu[c].proc].at \in Timing

\* A lock is held by the CPU that is inside its section and by no other, ncli
\* counts the one lock a CPU can hold, and interrupts are on outside locks and
\* handlers only.
LocksExact(c) ==
    /\ locked["ptable"] = c <=> HoldsTable(c)
    /\ locked["ticks"] = c <=> HoldsTicks(c)
    /\ cpu[c].ncli = IF HoldsTable(c) \/ HoldsTicks(c) THEN 1 ELSE 0
    /\ cpu[c].fl <=> cpu[c].ncli = 0 /\ Irq(c) = "none"

\* b is the intena that thread t needs back after its switch.
Saved(t, b) ==
    /\ t.irq = "yielded" => ~b
    /\ t.irq = "none" /\ t.at \in Switched => b

\* What a CPU knows of the thread it carries.
Carries(c) ==
    /\ cpu[c].on = "scheduler" => cpu[c].proc = 0
    /\ cpu[c].on # "scheduler" =>
         cpu[c].proc \in Slots /\ cpu[c].scan > 0
    /\ cpu[c].scan > 0 => cpu[c].irq = "none"
    /\ cpu[c].on = "process" =>
         /\ proc[cpu[c].proc].state = "RUNNING"
         /\ thr[cpu[c].proc].irq = "wake" => ~cpu[c].intena
         /\ thr[cpu[c].proc].irq = "none" /\ thr[cpu[c].proc].at \in Timing
              => cpu[c].intena
    /\ cpu[c].on = "sched" =>
         /\ proc[cpu[c].proc].state \in {"RUNNABLE", "SLEEPING", "ZOMBIE"}
         /\ Saved(thr[cpu[c].proc], cpu[c].intena)

\* Every CPU is in order, and no two carry the same slot.
CpuInv == \A c \in Cpus : LocksExact(c) /\ Carries(c)
Alone == \A c, d \in Cpus : c # d => cpu[c].proc = 0 \/ cpu[c].proc # cpu[d].proc

\* Slot s is on a CPU; is leaving one; has a stack nobody has run on.
Carried(s) == \E c \in Cpus : cpu[c].proc = s
Leaving(s) == \E c \in Cpus : cpu[c].proc = s /\ cpu[c].on = "sched"
Fresh(s) == thr[s].at = "forkret" /\ thr[s].irq = "none"

\* A handler that came through an interrupt found its thread without a lock.
Combined(t) ==
    /\ t.irq = "exits" => t.at = "exit"
    /\ t.irq \in {"tick", "wake", "check", "yielded"} => t.at \in Unlocked

\* The state in the table tells where the thread of the slot is.
SlotOK(s) ==
    /\ Combined(thr[s])
    /\ Leaving(s) \/ Saved(thr[s], thr[s].intena)
    /\ proc[s].state \in {"UNUSED", "EMBRYO"} => Fresh(s)
    /\ proc[s].state = "ZOMBIE" => Leaving(s) \/ Fresh(s)
    /\ proc[s].state = "RUNNING" => Carried(s)
    /\ proc[s].state = "RUNNABLE" =>
         \/ thr[s].irq = "yielded"
         \/ thr[s].irq = "none" /\ thr[s].at \in Switched \cup {"forkret"}
    /\ proc[s].state = "SLEEPING" =>
         /\ thr[s].irq = "none"
         /\ \/ thr[s].at = "waiting" /\ proc[s].chan = s
            \/ thr[s].at = "asleep" /\ proc[s].chan = TicksChan
SlotInv == \A s \in Slots : SlotOK(s)

\* A fork between allocproc and its end owns the slot it fills.
Forking(p) == thr[p].at \in {"copy", "forked"}
ForkInv ==
    \A p \in Slots : Forking(p) =>
        /\ thr[p].np \in Slots
        /\ proc[thr[p].np].state = "EMBRYO"
        /\ proc[thr[p].np].parent = IF thr[p].at = "copy" THEN 0 ELSE p
        /\ \A q \in Slots : Forking(q) /\ thr[q].np = thr[p].np => q = p

\* init lives and has no parent, nobody is his own, and a free slot has none.
ParentInv ==
    /\ Alive(Init0) /\ proc[Init0].parent = 0
    /\ \A s \in Slots :
         /\ proc[s].parent # s
         /\ proc[s].state = "UNUSED" => proc[s].parent = 0

\* The ticks of a sleeper, counted one by one, are the difference of the
\* counter and ticks0, until they pass a whole turn.
TimeInv ==
    \A s \in Slots :
        /\ thr[s].n = 0 => thr[s].elapsed = 0
        /\ thr[s].n # 0 /\ thr[s].elapsed < TICKS =>
              (ticks - thr[s].ticks0) % TICKS = thr[s].elapsed
        /\ thr[s].n # 0 => thr[s].at \in InSleep

\* The inductive invariant.
IInv ==
    /\ TypeOK /\ LocksNeverPanic
    /\ CpuInv /\ Alone /\ SlotInv
    /\ ForkInv /\ ParentInv /\ ParentsWait
    /\ TimeInv

-----------------------------------------------------------------------------
(* Operators *)

\* The smallest of some numbers, as scheduler, allocproc, wait and kill look
\* for it.
LEMMA MinIn ==
    ASSUME NEW S, S \subseteq Nat, S # {}
    PROVE  Min(S) \in S /\ \A x \in S : Min(S) <= x
<1> DEFINE R == {ss \in Nat \X Nat : ss[1] < ss[2]}
<1>1. IsWellFoundedOn(R, Nat)
  BY NatLessThanWellFounded, Zenon DEF OpToRel
<1> HIDE DEF R
<1>2. \E x \in S : \A y \in S : ~ (<<y, x>> \in R)
  BY <1>1, WFMin, Zenon
<1>3. PICK x \in S : \A y \in S : ~ (<<y, x>> \in R)
  BY <1>2
<1>4. \A y \in S : ~ (y < x)
  BY <1>3, Zenon DEF R
<1>5. \E z \in S : \A y \in S : z <= y
  BY <1>4
<1> QED
  BY <1>5, Zenon DEF Min

\* A CPU with another depth, flag or saved flag.
LEMMA CpuFields ==
    ASSUME NEW k \in Cpu
    PROVE  /\ \A x \in Nat : [k EXCEPT !.ncli = x] \in Cpu
           /\ \A x \in BOOLEAN : [k EXCEPT !.fl = x] \in Cpu
           /\ \A x \in BOOLEAN : [k EXCEPT !.intena = x] \in Cpu
BY DEF Cpu

\* pushcli disables interrupts and saves the flag at depth 0.
LEMMA Pushed ==
    ASSUME NEW k \in Cpu
    PROVE  /\ pushcli(k) \in Cpu
           /\ pushcli(k).proc = k.proc /\ pushcli(k).on = k.on
           /\ pushcli(k).scan = k.scan /\ pushcli(k).irq = k.irq
           /\ pushcli(k).ncli = k.ncli + 1
           /\ ~pushcli(k).fl
           /\ k.ncli = 0 => (pushcli(k).intena <=> k.fl)
<1> DEFINE a == [k EXCEPT !.ncli = k.ncli + 1]
           b == [a EXCEPT !.fl = FALSE]
           j == IF k.ncli = 0 THEN k.fl ELSE k.intena
<1>1. k.ncli + 1 \in Nat /\ FALSE \in BOOLEAN /\ j \in BOOLEAN
  BY DEF Cpu
<1>2. a \in Cpu
  BY <1>1, CpuFields
<1>3. b \in Cpu
  BY <1>1, <1>2, CpuFields
<1>4. [b EXCEPT !.intena = j] \in Cpu
  BY <1>1, <1>3, CpuFields
<1>5. pushcli(k) \in Cpu
  BY <1>4 DEF pushcli
<1>6. /\ pushcli(k).proc = k.proc /\ pushcli(k).on = k.on
      /\ pushcli(k).scan = k.scan /\ pushcli(k).irq = k.irq
  BY DEF pushcli, Cpu
<1>7. pushcli(k).ncli = k.ncli + 1 /\ pushcli(k).fl = FALSE
  BY DEF pushcli, Cpu
<1>8. k.ncli = 0 => pushcli(k).intena = k.fl
  BY DEF pushcli, Cpu
<1>10. ~pushcli(k).fl
  BY <1>7, Zenon
<1>11. k.ncli = 0 => (pushcli(k).intena <=> k.fl)
  BY <1>8, Zenon
<1> QED
  BY <1>5, <1>6, <1>7, <1>10, <1>11

\* popcli at depth 1 brings the saved flag back.
LEMMA Popped ==
    ASSUME NEW k \in Cpu, k.ncli = 1
    PROVE  /\ popcli(k) \in Cpu
           /\ popcli(k).proc = k.proc /\ popcli(k).on = k.on
           /\ popcli(k).scan = k.scan /\ popcli(k).irq = k.irq
           /\ popcli(k).ncli = 0
           /\ ~popcli(k).intena
           /\ popcli(k).fl <=> k.intena
<1> DEFINE a == [k EXCEPT !.ncli = k.ncli - 1]
           b == [a EXCEPT !.fl = (k.ncli = 1 /\ k.intena)]
<1>1. /\ k.ncli - 1 \in Nat /\ (k.ncli = 1 /\ k.intena) \in BOOLEAN
      /\ (k.ncli > 1 /\ k.intena) \in BOOLEAN
  BY DEF Cpu
<1>2. a \in Cpu
  BY <1>1, CpuFields
<1>3. b \in Cpu
  BY <1>1, <1>2, CpuFields
<1>4. [b EXCEPT !.intena = (k.ncli > 1 /\ k.intena)] \in Cpu
  BY <1>1, <1>3, CpuFields
<1>5. popcli(k) \in Cpu
  BY <1>4 DEF popcli
<1>6. /\ popcli(k).proc = k.proc /\ popcli(k).on = k.on
      /\ popcli(k).scan = k.scan /\ popcli(k).irq = k.irq
  BY DEF popcli, Cpu
<1>7. popcli(k).ncli = 0
  <2>1. popcli(k).ncli = k.ncli - 1
    BY DEF popcli, Cpu
  <2> QED
    BY <2>1
<1>8. popcli(k).fl = (k.ncli = 1 /\ k.intena)
  BY DEF popcli, Cpu
<1>9. popcli(k).intena = (k.ncli > 1 /\ k.intena)
  BY DEF popcli, Cpu
<1>10. popcli(k).fl = k.intena /\ popcli(k).intena = FALSE
  <2>1. k.intena \in BOOLEAN /\ ~ (k.ncli > 1)
    BY DEF Cpu
  <2>2. (k.ncli = 1 /\ k.intena) = k.intena
    BY <2>1, Zenon
  <2>3. (k.ncli > 1 /\ k.intena) = FALSE
    BY <2>1, Zenon
  <2> QED
    BY <1>8, <1>9, <2>2, <2>3, Zenon
<1>11. ~popcli(k).intena /\ (popcli(k).fl <=> k.intena)
  BY <1>10, Zenon
<1> QED
  BY <1>5, <1>6, <1>7, <1>10, <1>11

-----------------------------------------------------------------------------
(* Where a CPU is, and what follows from it *)

\* The constants are positive.
LEMMA Constants == NPROC \in Nat \ {0} /\ NCPU \in Nat \ {0} /\ TICKS \in Nat \ {0}
BY NPROCAssumption, TICKSAssumption

\* The type invariant, element by element.
LEMMA Typed ==
    ASSUME TypeOK
    PROVE  /\ \A c \in Cpus : cpu[c] \in Cpu /\ c \in Nat \ {0}
           /\ \A s \in Slots : thr[s] \in Thread /\ proc[s] \in Proc /\ s \in Nat \ {0}
BY Constants DEF TypeOK, Cpus, Slots

\* A CPU that runs thread p.
LEMMA OnProcess ==
    ASSUME IInv, NEW c \in Cpus, NEW p \in Slots, Running(c, p)
    PROVE  /\ cpu[c] \in Cpu /\ thr[p] \in Thread /\ proc[p] \in Proc
           /\ cpu[c].on = "process" /\ cpu[c].proc = p
           /\ cpu[c].scan > 0 /\ cpu[c].irq = "none"
           /\ proc[p].state = "RUNNING"
           /\ Combined(thr[p]) /\ Saved(thr[p], thr[p].intena)
           /\ locked \in [{"ptable", "ticks"} -> 0 .. NCPU]
<1>1. TypeOK /\ LocksExact(c) /\ Carries(c) /\ SlotOK(p)
  BY DEF IInv, CpuInv, SlotInv
<1>2. cpu[c] \in Cpu /\ thr[p] \in Thread /\ proc[p] \in Proc
  BY <1>1, Typed
<1>3. cpu[c].on = "process" /\ cpu[c].proc = p
  BY DEF Running
<1>4. ~Leaving(p)
  <2> SUFFICES ASSUME NEW d \in Cpus, cpu[d].proc = p, cpu[d].on = "sched" PROVE FALSE
    BY DEF Leaving
  <2>1. d # c
    BY <1>3
  <2> QED
    BY <2>1, <1>3, Constants DEF IInv, Alone, Slots
<1> QED
  BY <1>1, <1>2, <1>3, <1>4 DEF Carries, SlotOK, TypeOK

\* A thread outside all locked sections.
LEMMA AtUnlocked ==
    ASSUME IInv, NEW c \in Cpus, NEW p \in Slots, Running(c, p),
           thr[p].at \in Unlocked, thr[p].irq \in {"none", "exits", "tick", "check"}
    PROVE  /\ cpu[c].ncli = 0 /\ locked["ptable"] # c /\ locked["ticks"] # c
           /\ cpu[c].fl <=> thr[p].irq = "none"
<1>1. LocksExact(c)
  BY DEF IInv, CpuInv
<1> QED
  BY <1>1, OnProcess DEF LocksExact, HoldsTable, HoldsTicks, Irq, Unlocked, Switched, Timing

\* A thread that comes back from sched() or starts in forkret.
LEMMA AtSwitched ==
    ASSUME IInv, NEW c \in Cpus, NEW p \in Slots, Running(c, p),
           \/ thr[p].at \in Switched \cup {"forkret"}
           \/ thr[p].irq = "yielded"
    PROVE  /\ cpu[c].ncli = 1 /\ locked["ptable"] = c /\ locked["ticks"] # c
           /\ ~cpu[c].fl
           /\ thr[p].irq \in {"none", "yielded"}
           /\ thr[p].irq = "yielded" => ~thr[p].intena
           /\ thr[p].irq = "none" /\ thr[p].at # "forkret" => thr[p].intena
<1>1. LocksExact(c)
  BY DEF IInv, CpuInv
<1>2. thr[p].irq \in {"none", "yielded"}
  BY OnProcess DEF Combined, Unlocked, Switched, Thread, Handlers
<1>3. thr[p].irq = "none" => thr[p].at \in Switched \cup {"forkret"}
  OBVIOUS
<1>4. HoldsTable(c) /\ ~HoldsTicks(c)
  BY <1>2, <1>3, OnProcess DEF HoldsTable, HoldsTicks, Switched, Timing
<1> QED
  BY <1>1, <1>2, <1>3, <1>4, OnProcess DEF LocksExact, Saved

\* A thread, or its interrupt handler, with tickslock held.
LEMMA AtTiming ==
    ASSUME IInv, NEW c \in Cpus, NEW p \in Slots, Running(c, p),
           thr[p].at \in Timing \/ thr[p].irq = "wake"
    PROVE  /\ cpu[c].ncli = 1 /\ locked["ptable"] # c /\ locked["ticks"] = c
           /\ ~cpu[c].fl
           /\ thr[p].irq \in {"none", "wake"}
           /\ cpu[c].intena <=> thr[p].irq = "none"
<1>1. LocksExact(c) /\ Carries(c)
  BY DEF IInv, CpuInv
<1>2. thr[p].irq \in {"none", "wake"}
  BY OnProcess DEF Combined, Unlocked, Timing, Thread, Handlers
<1>4. ~HoldsTable(c) /\ HoldsTicks(c)
  BY <1>2, OnProcess DEF HoldsTable, HoldsTicks, Switched, Timing
<1> QED
  BY <1>1, <1>2, <1>4, OnProcess DEF LocksExact, Carries

\* A thread that is about to leave its CPU.
LEMMA AtSched ==
    ASSUME IInv, NEW c \in Cpus, cpu[c].on = "sched"
    PROVE  /\ cpu[c] \in Cpu /\ cpu[c].proc \in Slots
           /\ cpu[c].scan > 0 /\ cpu[c].irq = "none"
           /\ cpu[c].ncli = 1 /\ locked["ptable"] = c /\ locked["ticks"] # c
           /\ ~cpu[c].fl
           /\ proc[cpu[c].proc].state \in {"RUNNABLE", "SLEEPING", "ZOMBIE"}
           /\ Saved(thr[cpu[c].proc], cpu[c].intena)
<1>1. LocksExact(c) /\ Carries(c) /\ cpu[c] \in Cpu
  BY Typed DEF IInv, CpuInv
<1> QED
  BY <1>1 DEF LocksExact, Carries, HoldsTable, HoldsTicks

\* A CPU in its scheduler.
LEMMA AtScheduler ==
    ASSUME IInv, NEW c \in Cpus, cpu[c].on = "scheduler"
    PROVE  /\ cpu[c] \in Cpu /\ cpu[c].proc = 0
           /\ locked["ptable"] = c <=> cpu[c].scan > 0
           /\ locked["ticks"] = c <=> cpu[c].irq = "wake"
           /\ cpu[c].ncli = IF cpu[c].scan > 0 \/ cpu[c].irq = "wake" THEN 1 ELSE 0
           /\ cpu[c].fl <=> cpu[c].scan = 0 /\ cpu[c].irq = "none"
           /\ cpu[c].scan > 0 => cpu[c].irq = "none"
<1>1. LocksExact(c) /\ Carries(c) /\ cpu[c] \in Cpu
  BY Typed DEF IInv, CpuInv
<1>2. cpu[c].scan \in Nat
  BY <1>1 DEF Cpu
<1> QED
  BY <1>1, <1>2 DEF LocksExact, Carries, HoldsTable, HoldsTicks, Irq

-----------------------------------------------------------------------------
(* What a step of CPU c leaves alone *)

\* Thread s does not move and its state changes by a wakeup only.
Kept(c, s) ==
    /\ thr'[s].at = thr[s].at /\ thr'[s].irq = thr[s].irq
    /\ thr'[s].intena = thr[s].intena
    /\ proc'[s].chan = proc[s].chan
    /\ \/ proc'[s].state = proc[s].state
       \/ /\ proc[s].state = "SLEEPING" /\ proc'[s].state = "RUNNABLE"
          /\ locked["ptable"] \in {0, c}

\* CPU c changes its own state, locks that are free or its own, and besides
\* its own thread only such as are on no CPU.
StepOf(c) ==
    /\ \A d \in Cpus : d # c => cpu'[d] = cpu[d]
    /\ \A l \in {"ptable", "ticks"} :
         \/ locked'[l] = locked[l]
         \/ locked[l] \in {0, c} /\ locked'[l] \in {0, c}
    /\ cpu'[c].proc \in {0, cpu[c].proc} \/ ~Carried(cpu'[c].proc)
    /\ \A s \in Slots : s # cpu[c].proc => Kept(c, s) \/ ~Carried(s)

\* The other CPUs are as they were.
LEMMA OtherCpus ==
    ASSUME IInv, NEW c \in Cpus, StepOf(c), NEW d \in Cpus, d # c
    PROVE  LocksExact(d)' /\ Carries(d)'
<1>1. LocksExact(d) /\ Carries(d) /\ TypeOK
  BY DEF IInv, CpuInv
<1>2. cpu'[d] = cpu[d] /\ d # 0 /\ d \in Nat
  BY Constants DEF StepOf, Cpus
<1>3. /\ locked'["ptable"] = d <=> locked["ptable"] = d
      /\ locked'["ticks"] = d <=> locked["ticks"] = d
  BY <1>2 DEF StepOf
<1>4. CASE cpu[d].on = "scheduler"
  BY <1>1, <1>2, <1>3, <1>4 DEF LocksExact, Carries, HoldsTable, HoldsTicks, Irq
<1>5. CASE cpu[d].on # "scheduler"
  <2> DEFINE s == cpu[d].proc
  <2>1. s \in Slots /\ s # 0
    BY <1>1, <1>5, Constants DEF Carries, Slots
  <2>2. s # cpu[c].proc
    BY <2>1 DEF IInv, Alone
  <2>3. Kept(c, s)
    BY <2>1, <2>2 DEF StepOf, Carried
  <2>4. proc'[s].state = proc[s].state
    <3>1. CASE cpu[d].on = "process"
      BY <1>1, <2>3, <3>1 DEF Carries, Kept
    <3>2. CASE cpu[d].on # "process"
      <4>1. HoldsTable(d)
        BY <1>5, <3>2, <1>1, Typed DEF HoldsTable, Cpu
      <4>2. locked["ptable"] = d
        BY <4>1, <1>1 DEF LocksExact
      <4> QED
        BY <4>2, <1>2, <2>3 DEF Kept
    <3> QED
      BY <3>1, <3>2
  <2>5. HoldsTable(d)' = HoldsTable(d) /\ HoldsTicks(d)' = HoldsTicks(d) /\ Irq(d)' = Irq(d)
    BY <1>2, <1>5, <2>3 DEF Kept, HoldsTable, HoldsTicks, Irq
  <2>6. LocksExact(d)'
    BY <1>1, <1>2, <1>3, <2>5 DEF LocksExact
  <2>7. Carries(d)'
    BY <1>1, <1>2, <1>5, <2>1, <2>3, <2>4 DEF Carries, Saved, Kept
  <2> QED
    BY <2>6, <2>7
<1> QED
  BY <1>4, <1>5

\* A thread of another CPU, or of none, that is kept.
LEMMA OtherSlot ==
    ASSUME IInv, NEW c \in Cpus, StepOf(c), NEW s \in Slots, s # cpu[c].proc, Kept(c, s)
    PROVE  SlotOK(s)'
<1>1. SlotOK(s)
  BY DEF IInv, SlotInv
<1>2. Carried(s) => Carried(s)'
  BY DEF StepOf, Carried
<1>3. Leaving(s) => Leaving(s)'
  BY DEF StepOf, Leaving
<1> QED
  BY <1>1, <1>2, <1>3 DEF SlotOK, Kept, Combined, Saved, Fresh, TicksChan, Switched

\* A step of CPU c is right if it is right for c and the threads it moves.
LEMMA Frame ==
    ASSUME IInv, NEW c \in Cpus, StepOf(c), LocksExact(c)', Carries(c)',
           \A s \in Slots : s = cpu[c].proc \/ ~Kept(c, s) => SlotOK(s)'
    PROVE  CpuInv' /\ Alone' /\ SlotInv'
<1>1. CpuInv'
  BY OtherCpus DEF CpuInv
<1>2. SlotInv'
  BY OtherSlot DEF SlotInv
<1>3. Alone'
  <2> SUFFICES ASSUME NEW d \in Cpus, NEW e \in Cpus, d # e,
                      cpu'[d].proc # 0, cpu'[d].proc = cpu'[e].proc
               PROVE  FALSE
    BY DEF Alone
  <2>1. ASSUME NEW f \in Cpus, f # c, cpu'[c].proc = cpu'[f].proc, cpu'[c].proc # 0
        PROVE  FALSE
    <3>1. cpu'[f] = cpu[f]
      BY <2>1 DEF StepOf
    <3>2. Carried(cpu'[c].proc)
      BY <2>1, <3>1 DEF Carried
    <3>3. cpu'[c].proc = cpu[c].proc
      BY <2>1, <3>2 DEF StepOf
    <3> QED
      BY <2>1, <3>1, <3>3 DEF IInv, Alone
  <2>2. CASE d # c /\ e # c
    BY <2>2 DEF StepOf, IInv, Alone
  <2> QED
    BY <2>1, <2>2
<1> QED
  BY <1>1, <1>2, <1>3

\* No fork begins, and new slots stay as they are.
ForkKept ==
    /\ \A p \in Slots : Forking(p)' =>
         thr'[p].at = thr[p].at /\ thr'[p].np = thr[p].np
    /\ \A s \in Slots : proc[s].state = "EMBRYO" =>
         proc'[s].state = "EMBRYO" /\ proc'[s].parent = proc[s].parent

\* Forks in progress are as they were.
LEMMA ForkFrame ==
    ASSUME IInv, ForkKept
    PROVE  ForkInv'
<1>1. ForkInv
  BY DEF IInv
<1> QED
  BY <1>1 DEF ForkInv, ForkKept, Forking

\* Nobody is born, dies, or goes to sleep in wait.
FamilyKept ==
    \A s \in Slots :
        /\ proc'[s].parent = proc[s].parent
        /\ proc'[s].state \in {"UNUSED", "EMBRYO"} <=> proc[s].state \in {"UNUSED", "EMBRYO"}
        /\ proc'[s].state = "UNUSED" => proc[s].state = "UNUSED" \/ proc[s].parent = 0
        /\ proc'[s].state = "ZOMBIE" <=> proc[s].state = "ZOMBIE"
        /\ proc'[s].state = "SLEEPING" /\ thr'[s].at = "waiting" =>
             /\ proc[s].state = "SLEEPING" /\ thr[s].at = "waiting"
             /\ proc'[s].killed = proc[s].killed

\* Parents and sleepers in wait are as they were.
LEMMA FamilyFrame ==
    ASSUME IInv, FamilyKept
    PROVE  ParentInv' /\ ParentsWait'
<1>1. ParentInv /\ ParentsWait
  BY DEF IInv
<1>2. \A s \in Slots : Alive(s)' <=> Alive(s)
  BY DEF FamilyKept, Alive
<1>3. Init0 \in Slots
  BY Constants DEF Init0, Slots
<1>4. ParentInv'
  BY <1>1, <1>2, <1>3 DEF ParentInv, FamilyKept
<1>5. ASSUME NEW s \in Slots \ {Init0}, proc'[s].state \notin {"UNUSED", "EMBRYO"}
      PROVE  proc'[s].parent \in Slots /\ Alive(proc[s].parent)'
  <2>1. proc[s].state \notin {"UNUSED", "EMBRYO"} /\ proc'[s].parent = proc[s].parent
    BY <1>5 DEF FamilyKept
  <2>2. proc[s].parent \in Slots /\ Alive(proc[s].parent)
    BY <1>1, <1>5, <2>1 DEF ParentsWait
  <2> QED
    BY <1>2, <2>1, <2>2 DEF Alive
<1>6. ASSUME NEW p \in Slots, proc'[p].state = "SLEEPING", thr'[p].at = "waiting"
      PROVE  /\ {s \in Slots : proc'[s].parent = p} # {} /\ ~proc'[p].killed
             /\ \A s \in {s \in Slots : proc'[s].parent = p} : proc'[s].state # "ZOMBIE"
  <2>1. proc[p].state = "SLEEPING" /\ thr[p].at = "waiting" /\ proc'[p].killed = proc[p].killed
    BY <1>6 DEF FamilyKept
  <2>2. {s \in Slots : proc'[s].parent = p} = {s \in Slots : proc[s].parent = p}
    BY DEF FamilyKept
  <2>3. /\ {s \in Slots : proc[s].parent = p} # {} /\ ~proc[p].killed
        /\ \A s \in {s \in Slots : proc[s].parent = p} : proc[s].state # "ZOMBIE"
    BY <1>1, <2>1 DEF ParentsWait
  <2> QED
    BY <2>1, <2>2, <2>3 DEF FamilyKept
<1> QED
  BY <1>4, <1>5, <1>6 DEF ParentsWait, Alive

\* Time stands still, and who is in sys_sleep stays there or is done.
TimeKept ==
    /\ ticks' = ticks
    /\ \A s \in Slots :
         \/ thr'[s].n = 0 /\ thr'[s].elapsed = 0
         \/ /\ thr'[s].n = thr[s].n /\ thr'[s].ticks0 = thr[s].ticks0
            /\ thr'[s].elapsed = thr[s].elapsed
            /\ thr[s].at \in InSleep => thr'[s].at \in InSleep

\* Sleepers have slept as long as before.
LEMMA TimeFrame ==
    ASSUME IInv, TimeKept
    PROVE  TimeInv'
<1>1. TimeInv
  BY DEF IInv
<1> QED
  BY <1>1 DEF TimeInv, TimeKept

\* A step of CPU c and its thread p that nobody else is part of.
Local(c, p) ==
    /\ \A d \in Cpus : d # c => cpu'[d] = cpu[d]
    /\ \A l \in {"ptable", "ticks"} :
         \/ locked'[l] = locked[l]
         \/ locked[l] \in {0, c} /\ locked'[l] \in {0, c}
    /\ cpu'[c].proc \in {0, p}
    /\ \A s \in Slots : s # p => thr'[s] = thr[s] /\ proc'[s] = proc[s]
    /\ panic' = panic /\ ticks' = ticks
    /\ proc'[p].parent = proc[p].parent
    /\ \A x \in {"UNUSED", "EMBRYO", "ZOMBIE"} :
         proc'[p].state = x <=> proc[p].state = x
    /\ \/ proc'[p].state # "SLEEPING" \/ thr'[p].at # "waiting"
       \/ proc'[p] = proc[p] /\ thr'[p].at = thr[p].at
    /\ thr'[p].at \in {"copy", "forked"} =>
         thr'[p].at = thr[p].at /\ thr'[p].np = thr[p].np
    /\ \/ thr'[p].n = 0 /\ thr'[p].elapsed = 0
       \/ /\ thr'[p].n = thr[p].n /\ thr'[p].ticks0 = thr[p].ticks0
          /\ thr'[p].elapsed = thr[p].elapsed
          /\ thr[p].at \in InSleep => thr'[p].at \in InSleep

\* A local step keeps the invariant if it does so for its CPU and its thread.
LEMMA LocalFrame ==
    ASSUME IInv, TypeOK', NEW c \in Cpus, NEW p \in Slots, cpu[c].proc = p,
           Local(c, p), LocksExact(c)', Carries(c)', SlotOK(p)'
    PROVE  IInv'
<1>1. StepOf(c)
  BY DEF StepOf, Local, Kept
<1>2. \A s \in Slots : s # p => Kept(c, s)
  BY DEF Local, Kept
<1>3. CpuInv' /\ Alone' /\ SlotInv'
  BY <1>1, <1>2, Frame
<1>4. ForkKept
  <2>1. \A q \in Slots : Forking(q)' => thr'[q].at = thr[q].at /\ thr'[q].np = thr[q].np
    BY DEF Local, Forking
  <2>2. \A s \in Slots : proc[s].state = "EMBRYO" =>
          proc'[s].state = "EMBRYO" /\ proc'[s].parent = proc[s].parent
    BY DEF Local
  <2> QED
    BY <2>1, <2>2 DEF ForkKept
<1>5. FamilyKept
  BY DEF FamilyKept, Local
<1>6. TimeKept
  BY DEF TimeKept, Local
<1>7. LocksNeverPanic'
  BY DEF IInv, LocksNeverPanic, Local
<1> QED
  BY <1>3, <1>4, <1>5, <1>6, <1>7, ForkFrame, FamilyFrame, TimeFrame DEF IInv

-----------------------------------------------------------------------------
(* The actions *)

\* A killed process leaves its interrupt for exit.
LEMMA TrapExits ==
    ASSUME IInv, NEW c \in Cpus, NEW p \in Slots, trapExits(c, p)
    PROVE  IInv'
<1>1. TypeOK /\ TimeInv /\ SlotOK(p) /\ LocksExact(c) /\ Carries(c)
  BY DEF IInv, SlotInv, CpuInv
<1>2. Running(c, p) /\ thr[p].irq = "check" /\ thr[p].at = "user"
  BY DEF trapExits, Killed
<1>3. /\ cpu[c].ncli = 0 /\ locked["ptable"] # c /\ locked["ticks"] # c
      /\ ~cpu[c].fl
  BY <1>2, AtUnlocked DEF Unlocked
<1>4. /\ thr' = [thr EXCEPT ![p] = Exits(thr[p])]
      /\ UNCHANGED <<proc, cpu, locked, nextpid, ticks, panic>>
  BY DEF trapExits
<1>5. /\ thr[p] \in Thread /\ thr'[p] = Exits(thr[p])
      /\ \A s \in Slots : s # p => thr'[s] = thr[s]
  BY <1>1, <1>4 DEF TypeOK
<1>6. /\ thr'[p] \in Thread /\ thr'[p].at = "exit" /\ thr'[p].irq = "exits"
      /\ thr'[p].n = thr[p].n /\ thr'[p].elapsed = thr[p].elapsed
  BY <1>5 DEF Exits, Thread, Places, Handlers, Unlocked
<1>7. TypeOK'
  BY <1>1, <1>4, <1>6 DEF TypeOK
<1>8. thr[p].n = 0 /\ thr[p].elapsed = 0
  BY <1>1, <1>2 DEF TimeInv, InSleep
<1>9. Local(c, p)
  BY <1>2, <1>4, <1>5, <1>6, <1>8, OnProcess DEF Local
<1>10. LocksExact(c)' /\ Carries(c)'
  BY <1>1, <1>2, <1>3, <1>4, <1>6, OnProcess
  DEF LocksExact, Carries, HoldsTable, HoldsTicks, Irq, Switched, Timing
<1>11. SlotOK(p)'
  BY <1>4, <1>6, <1>2, OnProcess DEF SlotOK, Combined, Saved, Carried, Unlocked
<1> QED
  BY <1>2, <1>7, <1>9, <1>10, <1>11, LocalFrame, OnProcess

\* The thread goes to place l of its system call.
LEMMA Goes ==
    ASSUME TypeOK, NEW p \in Slots, NEW l \in Places, Go(p, l)
    PROVE  /\ thr' \in [Slots -> Thread]
           /\ \A s \in Slots : s # p => thr'[s] = thr[s]
           /\ thr'[p].at = l /\ thr'[p].irq = thr[p].irq
           /\ thr'[p].intena = thr[p].intena /\ thr'[p].np = thr[p].np
           /\ thr'[p].n = thr[p].n /\ thr'[p].ticks0 = thr[p].ticks0
           /\ thr'[p].elapsed = thr[p].elapsed /\ thr'[p].ret = thr[p].ret
<1>1. thr[p] \in Thread
  BY DEF TypeOK
<1>2. thr' = [thr EXCEPT ![p] = [thr[p] EXCEPT !.at = l]]
  BY DEF Go
<1>3. [thr[p] EXCEPT !.at = l] \in Thread
  BY <1>1 DEF Thread
<1>4. /\ thr' \in [Slots -> Thread] /\ thr'[p] = [thr[p] EXCEPT !.at = l]
      /\ \A s \in Slots : s # p => thr'[s] = thr[s]
  BY <1>2, <1>3 DEF TypeOK
<1> QED
  BY <1>1, <1>4 DEF Thread

\* The thread allocproc sets up.
LEMMA NewThreads ==
    /\ NewThread \in Thread
    /\ NewThread.at = "forkret" /\ NewThread.irq = "none"
    /\ NewThread.n = 0 /\ NewThread.elapsed = 0
<1>1. NewThread \in Thread
  BY Constants DEF NewThread, Thread, Places, Unlocked, Switched, Timing, Handlers
<1> QED
  BY <1>1 DEF NewThread

\* The system call is over.
LEMMA Returned ==
    ASSUME TypeOK, NEW p \in Slots, NEW r \in Int, Returns(p, r)
    PROVE  /\ thr' \in [Slots -> Thread]
           /\ \A s \in Slots : s # p => thr'[s] = thr[s]
           /\ thr'[p].at = "ret" /\ thr'[p].irq = "none"
           /\ thr'[p].n = 0 /\ thr'[p].elapsed = 0
<1> DEFINE x == IF p = Init0 THEN r ELSE 0
           t == [NewThread EXCEPT !.at = "ret"]
           u == [t EXCEPT !.ret = x]
<1>1. x \in Int
  OBVIOUS
<1>2. t \in Thread /\ t.irq = "none" /\ t.at = "ret" /\ t.n = 0 /\ t.elapsed = 0
  <2>1. "ret" \in Places
    BY DEF Places, Unlocked
  <2> QED
    BY <2>1, NewThreads DEF Thread
<1> HIDE DEF x, t
<1>3. u \in Thread /\ u.irq = "none" /\ u.at = "ret" /\ u.n = 0 /\ u.elapsed = 0
  BY <1>1, <1>2 DEF Thread
<1>4. thr' = [thr EXCEPT ![p] = u]
  BY DEF Returns, x, t
<1> HIDE DEF u
<1> QED
  BY <1>3, <1>4 DEF TypeOK

\* A thread in kernel or user code that holds no spin lock.
InUnlocked(c, p) ==
    /\ cpu[c].on = "process" /\ cpu[c].proc = p
    /\ cpu[c].scan > 0 /\ cpu[c].irq = "none"
    /\ cpu[c].ncli = 0 /\ (cpu[c].fl <=> thr[p].irq = "none")
    /\ thr[p].at \in Unlocked
    /\ thr[p].irq \in {"none", "exits", "tick", "check"} /\ Combined(thr[p])
    /\ locked["ptable"] # c /\ locked["ticks"] # c
    /\ proc[p].state = "RUNNING"

\* A step that ends outside locks ends well.
LEMMA Unlocks ==
    ASSUME NEW c \in Cpus, NEW p \in Slots, InUnlocked(c, p)'
    PROVE  LocksExact(c)' /\ Carries(c)' /\ SlotOK(p)'
<1>1. LocksExact(c)'
  BY DEF InUnlocked, LocksExact, HoldsTable, HoldsTicks, Irq, Unlocked, Switched, Timing
<1>2. Carries(c)'
  BY DEF InUnlocked, Carries, Unlocked, Timing
<1>3. SlotOK(p)'
  BY DEF InUnlocked, SlotOK, Saved, Carried, Unlocked, Switched
<1> QED
  BY <1>1, <1>2, <1>3

\* A system call that ends in exit.
LEMMA SyscallExits ==
    ASSUME IInv, NEW c \in Cpus, NEW p \in Slots, syscallExits(c, p)
    PROVE  IInv'
<1>1. TypeOK /\ TimeInv
  BY DEF IInv
<1>2. Running(c, p) /\ thr[p].irq = "none" /\ thr[p].at = "user"
  BY OnProcess DEF syscallExits, At, Combined
<1>3. Go(p, "exit") /\ UNCHANGED <<proc, cpu, locked, nextpid, ticks, panic>>
  BY DEF syscallExits
<1>4. "exit" \in Places
  BY DEF Places, Unlocked
<1>5. TypeOK'
  BY <1>1, <1>3, <1>4, Goes DEF TypeOK
<1>6. thr[p].n = 0 /\ thr[p].elapsed = 0
  BY <1>1, <1>2 DEF TimeInv, InSleep
<1>7. Local(c, p)
  BY <1>1, <1>2, <1>3, <1>4, <1>6, Goes, OnProcess DEF Local
<1>8. InUnlocked(c, p)'
  BY <1>1, <1>2, <1>3, <1>4, Goes, OnProcess, AtUnlocked DEF InUnlocked, Unlocked, Combined
<1> QED
  BY <1>2, <1>5, <1>7, <1>8, LocalFrame, Unlocks, OnProcess

\* The way back from a system call.
LEMMA SyscallReturns ==
    ASSUME IInv, NEW c \in Cpus, NEW p \in Slots, syscallReturns(c, p)
    PROVE  IInv'
<1> DEFINE l == IF proc[p].killed THEN "exit" ELSE "user"
<1>1. TypeOK /\ TimeInv
  BY DEF IInv
<1>2. Running(c, p) /\ thr[p].irq = "none" /\ thr[p].at = "ret"
  BY OnProcess DEF syscallReturns, At, Combined
<1>3. Go(p, l) /\ UNCHANGED <<proc, cpu, locked, nextpid, ticks, panic>>
  BY DEF syscallReturns
<1>4. l \in Places /\ l \in {"exit", "user"}
  BY DEF Places, Unlocked
<1> HIDE DEF l
<1>5. TypeOK'
  BY <1>1, <1>3, <1>4, Goes DEF TypeOK
<1>6. thr[p].n = 0 /\ thr[p].elapsed = 0
  BY <1>1, <1>2 DEF TimeInv, InSleep
<1>7. Local(c, p)
  BY <1>1, <1>2, <1>3, <1>4, <1>6, Goes, OnProcess DEF Local
<1>8. InUnlocked(c, p)'
  BY <1>1, <1>2, <1>3, <1>4, Goes, OnProcess, AtUnlocked DEF InUnlocked, Unlocked, Combined
<1> QED
  BY <1>2, <1>5, <1>7, <1>8, LocalFrame, Unlocks, OnProcess

\* A thread that has set its state and is about to leave its CPU.
InSched(c, p) ==
    /\ cpu[c].on = "sched" /\ cpu[c].proc = p
    /\ cpu[c].scan > 0 /\ cpu[c].irq = "none"
    /\ cpu[c].ncli = 1 /\ ~cpu[c].fl
    /\ locked["ptable"] = c /\ locked["ticks"] # c
    /\ Combined(thr[p]) /\ Saved(thr[p], cpu[c].intena)
    /\ \/ proc[p].state = "ZOMBIE"
       \/ proc[p].state = "RUNNABLE" /\ thr[p].irq = "yielded"
       \/ /\ proc[p].state = "SLEEPING" /\ thr[p].irq = "none"
          /\ \/ thr[p].at = "waiting" /\ proc[p].chan = p
             \/ thr[p].at = "asleep" /\ proc[p].chan = TicksChan

\* A step that ends before a switch ends well.
LEMMA Scheds ==
    ASSUME NEW c \in Cpus, NEW p \in Slots, InSched(c, p)'
    PROVE  LocksExact(c)' /\ Carries(c)' /\ SlotOK(p)'
<1>1. LocksExact(c)'
  BY DEF InSched, LocksExact, HoldsTable, HoldsTicks, Irq
<1>2. Carries(c)'
  BY DEF InSched, Carries
<1>3. Leaving(p)'
  BY DEF InSched, Leaving
<1>4. SlotOK(p)'
  BY <1>3 DEF InSched, SlotOK, TicksChan
<1> QED
  BY <1>1, <1>2, <1>4

\* A thread with another handler or saved flag.
LEMMA ThreadFields ==
    ASSUME NEW t \in Thread
    PROVE  /\ \A x \in Handlers :
                /\ [t EXCEPT !.irq = x] \in Thread
                /\ [t EXCEPT !.irq = x].irq = x
                /\ [t EXCEPT !.irq = x].at = t.at
                /\ [t EXCEPT !.irq = x].intena = t.intena
                /\ [t EXCEPT !.irq = x].np = t.np
                /\ [t EXCEPT !.irq = x].n = t.n
                /\ [t EXCEPT !.irq = x].ticks0 = t.ticks0
                /\ [t EXCEPT !.irq = x].elapsed = t.elapsed
           /\ \A x \in BOOLEAN :
                /\ [t EXCEPT !.intena = x] \in Thread
                /\ [t EXCEPT !.intena = x].irq = t.irq
                /\ [t EXCEPT !.intena = x].at = t.at
                /\ [t EXCEPT !.intena = x].intena = x
                /\ [t EXCEPT !.intena = x].np = t.np
                /\ [t EXCEPT !.intena = x].n = t.n
                /\ [t EXCEPT !.intena = x].ticks0 = t.ticks0
                /\ [t EXCEPT !.intena = x].elapsed = t.elapsed
BY DEF Thread

\* A table entry with another state, channel or parent.
LEMMA ProcFields ==
    ASSUME NEW q \in Proc
    PROVE  /\ \A x \in States :
                /\ [q EXCEPT !.state = x] \in Proc
                /\ [q EXCEPT !.state = x].state = x
                /\ [q EXCEPT !.state = x].pid = q.pid
                /\ [q EXCEPT !.state = x].parent = q.parent
                /\ [q EXCEPT !.state = x].chan = q.chan
                /\ [q EXCEPT !.state = x].killed = q.killed
           /\ \A x \in 0 .. NPROC + 1 :
                /\ [q EXCEPT !.chan = x] \in Proc
                /\ [q EXCEPT !.chan = x].state = q.state
                /\ [q EXCEPT !.chan = x].pid = q.pid
                /\ [q EXCEPT !.chan = x].parent = q.parent
                /\ [q EXCEPT !.chan = x].chan = x
                /\ [q EXCEPT !.chan = x].killed = q.killed
           /\ \A x \in 0 .. NPROC :
                /\ [q EXCEPT !.parent = x] \in Proc
                /\ [q EXCEPT !.parent = x].state = q.state
                /\ [q EXCEPT !.parent = x].pid = q.pid
                /\ [q EXCEPT !.parent = x].parent = x
                /\ [q EXCEPT !.parent = x].chan = q.chan
                /\ [q EXCEPT !.parent = x].killed = q.killed
BY DEF Proc

\* A thread brings its own intena back to the CPU.
LEMMA Resumes ==
    ASSUME NEW p \in Slots, thr[p] \in Thread, NEW k \in Cpu
    PROVE  /\ resumed(p, k) \in Cpu
           /\ resumed(p, k).proc = k.proc /\ resumed(p, k).on = k.on
           /\ resumed(p, k).scan = k.scan /\ resumed(p, k).irq = k.irq
           /\ resumed(p, k).ncli = k.ncli
           /\ resumed(p, k).intena <=> thr[p].intena
<1>1. thr[p].intena \in BOOLEAN
  BY DEF Thread
<1>2. resumed(p, k).intena = thr[p].intena
  BY <1>1 DEF resumed, Cpu
<1>3. resumed(p, k).intena <=> thr[p].intena
  BY <1>2, Zenon
<1> QED
  BY <1>1, <1>2, <1>3 DEF resumed, Cpu

\* A CPU that is somewhere else.
LEMMA CpuOn ==
    ASSUME NEW k \in Cpu
    PROVE  \A x \in {"scheduler", "process", "sched"} :
             /\ [k EXCEPT !.on = x] \in Cpu /\ [k EXCEPT !.on = x].on = x
             /\ [k EXCEPT !.on = x].proc = k.proc /\ [k EXCEPT !.on = x].scan = k.scan
             /\ [k EXCEPT !.on = x].irq = k.irq /\ [k EXCEPT !.on = x].ncli = k.ncli
             /\ [k EXCEPT !.on = x].intena = k.intena /\ [k EXCEPT !.on = x].fl = k.fl
BY DEF Cpu

\* A CPU with another interrupt flag.
LEMMA CpuFlag ==
    ASSUME NEW k \in Cpu
    PROVE  \A x \in BOOLEAN :
             /\ [k EXCEPT !.fl = x] \in Cpu /\ [k EXCEPT !.fl = x].on = k.on
             /\ [k EXCEPT !.fl = x].proc = k.proc /\ [k EXCEPT !.fl = x].scan = k.scan
             /\ [k EXCEPT !.fl = x].irq = k.irq /\ [k EXCEPT !.fl = x].ncli = k.ncli
             /\ [k EXCEPT !.fl = x].intena = k.intena /\ [k EXCEPT !.fl = x].fl = x
BY DEF Cpu

\* yield() before its switch.
LEMMA Yields ==
    ASSUME IInv, NEW c \in Cpus, NEW p \in Slots, yield(c, p)
    PROVE  IInv'
<1> DEFINE k == pushcli(cpu[c])
<1>1. TypeOK /\ TimeInv
  BY DEF IInv
<1>2. Running(c, p) /\ thr[p].irq = "check" /\ thr[p].at \in Unlocked
  BY OnProcess DEF yield, Combined
<1>3. cpu[c].ncli = 0 /\ locked["ticks"] # c /\ ~cpu[c].fl
  BY <1>2, AtUnlocked
<1>4. /\ locked["ptable"] = 0 /\ locked' = [locked EXCEPT !["ptable"] = c]
      /\ proc' = [proc EXCEPT ![p] = [proc[p] EXCEPT !.state = "RUNNABLE"]]
      /\ thr' = [thr EXCEPT ![p] = [thr[p] EXCEPT !.irq = "yielded"]]
      /\ cpu' = [cpu EXCEPT ![c] = [k EXCEPT !.on = "sched"]]
      /\ UNCHANGED <<nextpid, ticks, panic>>
  BY DEF yield, acquire
<1>5. /\ k \in Cpu /\ k.proc = p /\ k.scan > 0 /\ k.irq = "none" /\ k.ncli = 1
      /\ ~k.fl /\ ~k.intena
  <2>1. cpu[c] \in Cpu /\ cpu[c].proc = p /\ cpu[c].scan > 0 /\ cpu[c].irq = "none"
    BY <1>2, OnProcess
  <2>2. k \in Cpu /\ k.proc = p /\ k.scan > 0 /\ k.irq = "none" /\ k.ncli = 1
    BY <1>3, <2>1, Pushed
  <2>3. ~k.fl /\ ~k.intena
    BY <1>3, <2>1, Pushed, Zenon
  <2> QED
    BY <2>2, <2>3
<1> HIDE DEF k
<1>6. /\ cpu' \in [Cpus -> Cpu] /\ cpu'[c] = [k EXCEPT !.on = "sched"]
      /\ \A d \in Cpus : d # c => cpu'[d] = cpu[d]
  BY <1>1, <1>4, <1>5, CpuOn DEF TypeOK
<1>7. /\ thr' \in [Slots -> Thread] /\ thr'[p] = [thr[p] EXCEPT !.irq = "yielded"]
      /\ \A s \in Slots : s # p => thr'[s] = thr[s]
  BY <1>1, <1>4, ThreadFields DEF TypeOK, Handlers
<1>8. /\ proc' \in [Slots -> Proc] /\ proc'[p] = [proc[p] EXCEPT !.state = "RUNNABLE"]
      /\ \A s \in Slots : s # p => proc'[s] = proc[s]
  BY <1>1, <1>4, ProcFields DEF TypeOK, States
<1>9. /\ locked' \in [{"ptable", "ticks"} -> 0 .. NCPU]
      /\ locked'["ptable"] = c /\ locked'["ticks"] = locked["ticks"]
  BY <1>1, <1>4, Constants DEF TypeOK, Cpus
<1>10. TypeOK'
  BY <1>1, <1>4, <1>6, <1>7, <1>8, <1>9 DEF TypeOK
<1>11. /\ cpu'[c].on = "sched" /\ cpu'[c].proc = p /\ cpu'[c].scan > 0
       /\ cpu'[c].irq = "none" /\ cpu'[c].ncli = 1 /\ ~cpu'[c].fl /\ ~cpu'[c].intena
  BY <1>5, <1>6, CpuOn
<1>12. /\ thr'[p].irq = "yielded" /\ thr'[p].at = thr[p].at /\ thr'[p].np = thr[p].np
       /\ thr'[p].n = thr[p].n /\ thr'[p].ticks0 = thr[p].ticks0
       /\ thr'[p].elapsed = thr[p].elapsed
  BY <1>2, <1>7, ThreadFields, OnProcess DEF Handlers
<1>13. proc'[p].state = "RUNNABLE" /\ proc'[p].parent = proc[p].parent
  BY <1>2, <1>8, ProcFields, OnProcess DEF States
<1>14. Local(c, p)
  BY <1>2, <1>4, <1>6, <1>7, <1>8, <1>9, <1>11, <1>12, <1>13, OnProcess DEF Local
<1>15. InSched(c, p)'
  BY <1>2, <1>3, <1>9, <1>11, <1>12, <1>13 DEF InSched, Combined, Saved
<1> QED
  BY <1>2, <1>10, <1>14, <1>15, LocalFrame, Scheds, OnProcess

\* yield() after its switch, and the iret.
LEMMA YieldReturns ==
    ASSUME IInv, NEW c \in Cpus, NEW p \in Slots, yieldReturns(c, p)
    PROVE  IInv'
<1> DEFINE j == resumed(p, cpu[c])
           k == popcli(j)
           h == [thr[p] EXCEPT !.irq = "none"]
           t == [h EXCEPT !.intena = FALSE]
           x == IF Killed(p) THEN Exits(t) ELSE t
           y == IF Killed(p) THEN k ELSE [k EXCEPT !.fl = TRUE]
<1>1. TypeOK /\ TimeInv
  BY DEF IInv
<1>2. Running(c, p) /\ thr[p].irq = "yielded" /\ thr[p].at \in Unlocked
  BY OnProcess DEF yieldReturns, Combined
<1>3. /\ cpu[c].ncli = 1 /\ locked["ticks"] # c /\ locked["ptable"] = c
      /\ ~thr[p].intena
  BY <1>2, AtSwitched
<1>4. /\ locked' = [locked EXCEPT !["ptable"] = 0]
      /\ thr' = [thr EXCEPT ![p] = x]
      /\ cpu' = [cpu EXCEPT ![c] = y]
      /\ UNCHANGED <<proc, nextpid, ticks, panic>>
  BY DEF yieldReturns, release
<1>5. thr[p] \in Thread /\ cpu[c] \in Cpu
  BY <1>2, OnProcess
<1>6. /\ j \in Cpu /\ j.ncli = 1 /\ j.proc = p /\ j.scan > 0 /\ j.irq = "none"
      /\ j.on = "process" /\ ~j.intena
  BY <1>2, <1>3, <1>5, Resumes, OnProcess
<1> HIDE DEF j
<1>7. /\ k \in Cpu /\ k.ncli = 0 /\ k.proc = p /\ k.scan > 0 /\ k.irq = "none"
      /\ k.on = "process" /\ ~k.fl
  BY <1>6, Popped
<1> HIDE DEF k
<1>8. /\ h \in Thread /\ h.irq = "none" /\ h.at = thr[p].at /\ h.np = thr[p].np
      /\ h.n = thr[p].n /\ h.ticks0 = thr[p].ticks0 /\ h.elapsed = thr[p].elapsed
  BY <1>5, ThreadFields DEF Handlers
<1> HIDE DEF h
<1>9. /\ t \in Thread /\ t.irq = "none" /\ t.at = thr[p].at /\ t.np = thr[p].np
      /\ t.n = thr[p].n /\ t.ticks0 = thr[p].ticks0 /\ t.elapsed = thr[p].elapsed
  BY <1>8, ThreadFields
<1> HIDE DEF t
<1>10. /\ x \in Thread /\ x.n = thr[p].n /\ x.ticks0 = thr[p].ticks0
       /\ x.elapsed = thr[p].elapsed /\ x.np = thr[p].np
       /\ \/ Killed(p) /\ x.at = "exit" /\ x.irq = "exits"
          \/ ~Killed(p) /\ x.at = thr[p].at /\ x.irq = "none"
  <2>1. CASE Killed(p)
    BY <1>9, <2>1 DEF Exits, Thread, Places, Unlocked, Handlers
  <2>2. CASE ~Killed(p)
    BY <1>9, <2>2
  <2> QED
    BY <2>1, <2>2
<1> HIDE DEF x
<1>11. /\ y \in Cpu /\ y.ncli = 0 /\ y.proc = p /\ y.scan > 0 /\ y.irq = "none"
       /\ y.on = "process"
  <2>1. CASE Killed(p)
    BY <1>7, <2>1
  <2>2. CASE ~Killed(p)
    BY <1>7, <2>2, CpuFlag
  <2> QED
    BY <2>1, <2>2
<1>12. y.fl <=> ~Killed(p)
  <2>1. CASE Killed(p)
    BY <1>7, <2>1
  <2>2. CASE ~Killed(p)
    <3>1. y.fl = TRUE
      BY <1>7, <2>2, CpuFlag
    <3> QED
      BY <3>1, <2>2, Zenon
  <2> QED
    BY <2>1, <2>2
<1> HIDE DEF y
<1>13. /\ cpu' \in [Cpus -> Cpu] /\ cpu'[c] = y
       /\ \A d \in Cpus : d # c => cpu'[d] = cpu[d]
  BY <1>1, <1>4, <1>11 DEF TypeOK
<1>14. /\ thr' \in [Slots -> Thread] /\ thr'[p] = x
       /\ \A s \in Slots : s # p => thr'[s] = thr[s]
  BY <1>1, <1>4, <1>10 DEF TypeOK
<1>15. /\ locked' \in [{"ptable", "ticks"} -> 0 .. NCPU] /\ c # 0
       /\ locked'["ptable"] = 0 /\ locked'["ticks"] = locked["ticks"]
  BY <1>1, <1>4, Constants DEF TypeOK, Cpus
<1>16. TypeOK'
  BY <1>1, <1>4, <1>13, <1>14, <1>15 DEF TypeOK
<1>17. Killed(p) => thr[p].n = 0 /\ thr[p].elapsed = 0
  BY <1>1 DEF TimeInv, InSleep, Killed
<1>18. Local(c, p)
  BY <1>2, <1>3, <1>4, <1>10, <1>11, <1>13, <1>14, <1>15, <1>17, OnProcess DEF Local
<1>19. InUnlocked(c, p)'
  BY <1>2, <1>3, <1>4, <1>10, <1>11, <1>12, <1>13, <1>14, <1>15, OnProcess
  DEF InUnlocked, Combined, Unlocked
<1> QED
  BY <1>2, <1>16, <1>18, <1>19, LocalFrame, Unlocks, OnProcess

\* The first run of a process.
LEMMA Forkret ==
    ASSUME IInv, NEW c \in Cpus, NEW p \in Slots, forkret(c, p)
    PROVE  IInv'
<1> DEFINE k == popcli(cpu[c])
           y == [k EXCEPT !.fl = TRUE]
<1>1. TypeOK /\ TimeInv
  BY DEF IInv
<1>2. Running(c, p) /\ thr[p].at = "forkret" /\ thr[p].irq = "none"
  BY OnProcess, AtSwitched DEF forkret, Combined, Unlocked
<1>3. cpu[c].ncli = 1 /\ locked["ticks"] # c /\ locked["ptable"] = c
  BY <1>2, AtSwitched
<1>4. /\ locked' = [locked EXCEPT !["ptable"] = 0]
      /\ cpu' = [cpu EXCEPT ![c] = y]
      /\ Go(p, "user")
      /\ UNCHANGED <<proc, nextpid, ticks, panic>>
  BY DEF forkret, release, Go
<1>5. /\ k \in Cpu /\ k.ncli = 0 /\ k.proc = p /\ k.scan > 0 /\ k.irq = "none"
      /\ k.on = "process"
  BY <1>2, <1>3, Popped, OnProcess
<1> HIDE DEF k
<1>6. /\ y \in Cpu /\ y.ncli = 0 /\ y.proc = p /\ y.scan > 0 /\ y.irq = "none"
      /\ y.on = "process"
  BY <1>5, CpuFlag
<1>7. y.fl
  <2>1. y.fl = TRUE
    BY <1>5, CpuFlag
  <2> QED
    BY <2>1, Zenon
<1> HIDE DEF y
<1>8. /\ cpu' \in [Cpus -> Cpu] /\ cpu'[c] = y
      /\ \A d \in Cpus : d # c => cpu'[d] = cpu[d]
  BY <1>1, <1>4, <1>6 DEF TypeOK
<1>9. /\ thr' \in [Slots -> Thread] /\ thr'[p].at = "user" /\ thr'[p].irq = "none"
      /\ thr'[p].n = thr[p].n /\ thr'[p].elapsed = thr[p].elapsed
      /\ \A s \in Slots : s # p => thr'[s] = thr[s]
  BY <1>1, <1>2, <1>4, Goes DEF Places, Unlocked
<1>10. /\ locked' \in [{"ptable", "ticks"} -> 0 .. NCPU] /\ c # 0
       /\ locked'["ptable"] = 0 /\ locked'["ticks"] = locked["ticks"]
  BY <1>1, <1>4, Constants DEF TypeOK, Cpus
<1>11. TypeOK'
  BY <1>1, <1>4, <1>8, <1>9, <1>10 DEF TypeOK
<1>12. thr[p].n = 0 /\ thr[p].elapsed = 0
  BY <1>1, <1>2 DEF TimeInv, InSleep
<1>13. Local(c, p)
  BY <1>2, <1>3, <1>4, <1>6, <1>8, <1>9, <1>10, <1>12, OnProcess DEF Local
<1>14. InUnlocked(c, p)'
  BY <1>2, <1>3, <1>4, <1>6, <1>7, <1>8, <1>9, <1>10, OnProcess
  DEF InUnlocked, Combined, Unlocked
<1> QED
  BY <1>2, <1>11, <1>13, <1>14, LocalFrame, Unlocks, OnProcess

\* sched never panics: the thread holds ptable.lock alone, its state is set
\* and interrupts are off.
LEMMA SchedNoPanic ==
    ASSUME IInv, NEW c \in Cpus, sched(c)
    PROVE  LET p == cpu[c].proc
           IN  /\ thr' = [thr EXCEPT ![p] = IF proc[p].state = "ZOMBIE" THEN NewThread
                                            ELSE [thr[p] EXCEPT !.intena = cpu[c].intena]]
               /\ cpu' = [cpu EXCEPT ![c].proc = 0, ![c].on = "scheduler"]
               /\ UNCHANGED <<proc, locked, nextpid, ticks, panic>>
<1>1. cpu[c].on = "sched"
  BY DEF sched
<1>2. /\ ~(locked["ptable"] # c) /\ ~(cpu[c].ncli # 1)
      /\ ~(proc[cpu[c].proc].state = "RUNNING") /\ ~cpu[c].fl
  BY <1>1, AtSched
<1> DEFINE why == CASE locked["ptable"] # c -> "sched ptable.lock"
                    [] cpu[c].ncli # 1 -> "sched locks"
                    [] proc[cpu[c].proc].state = "RUNNING" -> "sched running"
                    [] cpu[c].fl -> "sched interruptible"
                    [] OTHER -> "none"
<1>3. why = "none"
  BY <1>2, Zenon
<1> HIDE DEF why
<1>4. IF why # "none" THEN Panic(why)
      ELSE /\ thr' = [thr EXCEPT ![cpu[c].proc] =
                         IF proc[cpu[c].proc].state = "ZOMBIE" THEN NewThread
                         ELSE [thr[cpu[c].proc] EXCEPT !.intena = cpu[c].intena]]
           /\ cpu' = [cpu EXCEPT ![c].proc = 0, ![c].on = "scheduler"]
           /\ UNCHANGED <<proc, locked, nextpid, ticks, todo, shpid, panic>>
  BY Zenon DEF sched, why
<1> QED
  BY <1>3, <1>4, Zenon

\* The switch to the scheduler.
LEMMA Scheduled ==
    ASSUME IInv, NEW c \in Cpus, sched(c)
    PROVE  IInv'
<1>0. PICK p \in Slots : p = cpu[c].proc
  BY AtSched DEF sched
<1> DEFINE t == IF proc[p].state = "ZOMBIE" THEN NewThread
                ELSE [thr[p] EXCEPT !.intena = cpu[c].intena]
           k == [cpu[c] EXCEPT !.proc = 0]
           y == [k EXCEPT !.on = "scheduler"]
<1>1. TypeOK /\ TimeInv /\ SlotOK(p)
  BY DEF IInv, SlotInv
<1>2. /\ cpu[c].on = "sched" /\ cpu[c] \in Cpu /\ cpu[c].ncli = 1
      /\ locked["ptable"] = c /\ locked["ticks"] # c
      /\ cpu[c].scan > 0 /\ cpu[c].irq = "none" /\ ~cpu[c].fl
      /\ proc[p].state \in {"RUNNABLE", "SLEEPING", "ZOMBIE"}
      /\ Saved(thr[p], cpu[c].intena)
  BY <1>0, AtSched DEF sched
<1>3. /\ thr' = [thr EXCEPT ![p] = t]
      /\ cpu' = [cpu EXCEPT ![c] = y]
      /\ UNCHANGED <<proc, locked, nextpid, ticks, panic>>
  BY <1>0, SchedNoPanic
<1>4. thr[p] \in Thread /\ cpu[c].intena \in BOOLEAN
  BY <1>1, <1>2, Typed DEF Cpu
<1>5. /\ t \in Thread
      /\ \/ proc[p].state = "ZOMBIE" /\ t.at = "forkret" /\ t.irq = "none"
            /\ t.n = 0 /\ t.elapsed = 0
         \/ /\ proc[p].state # "ZOMBIE" /\ t.at = thr[p].at /\ t.irq = thr[p].irq
            /\ t.np = thr[p].np /\ t.n = thr[p].n
            /\ t.ticks0 = thr[p].ticks0 /\ t.elapsed = thr[p].elapsed
  <2>1. CASE proc[p].state = "ZOMBIE"
    BY <2>1, NewThreads
  <2>2. CASE proc[p].state # "ZOMBIE"
    BY <1>4, <2>2, ThreadFields
  <2> QED
    BY <2>1, <2>2
<1>6. Saved(t, t.intena)
  <2>1. CASE proc[p].state = "ZOMBIE"
    BY <2>1, <1>5 DEF Saved, Switched
  <2>2. CASE proc[p].state # "ZOMBIE"
    <3>1. t.intena = cpu[c].intena
      BY <1>4, <2>2, ThreadFields
    <3>2. t.intena <=> cpu[c].intena
      BY <3>1, Zenon
    <3> QED
      BY <1>2, <1>5, <2>2, <3>2 DEF Saved
  <2> QED
    BY <2>1, <2>2
<1> HIDE DEF t
<1>7. /\ k \in Cpu /\ k.proc = 0 /\ k.scan > 0 /\ k.irq = "none" /\ k.ncli = 1
  BY <1>2, Constants DEF Cpu
<1>8. ~k.fl
  BY <1>2 DEF Cpu
<1> HIDE DEF k
<1>9. /\ y \in Cpu /\ y.proc = 0 /\ y.scan > 0 /\ y.irq = "none" /\ y.ncli = 1
      /\ y.on = "scheduler"
  BY <1>7, CpuOn
<1>10. ~y.fl
  BY <1>7, <1>8, CpuOn
<1> HIDE DEF y
<1>11. /\ cpu' \in [Cpus -> Cpu] /\ cpu'[c] = y
       /\ \A d \in Cpus : d # c => cpu'[d] = cpu[d]
  BY <1>1, <1>3, <1>9 DEF TypeOK
<1>12. /\ thr' \in [Slots -> Thread] /\ thr'[p] = t
       /\ \A s \in Slots : s # p => thr'[s] = thr[s]
  BY <1>1, <1>3, <1>5 DEF TypeOK
<1>13. TypeOK'
  BY <1>1, <1>3, <1>11, <1>12 DEF TypeOK
<1>14. Local(c, p)
  BY <1>2, <1>3, <1>5, <1>9, <1>11, <1>12 DEF Local
<1>15. LocksExact(c)'
  BY <1>2, <1>3, <1>9, <1>10, <1>11 DEF LocksExact, HoldsTable, HoldsTicks, Irq
<1>16. Carries(c)'
  BY <1>9, <1>11 DEF Carries
<1>17. SlotOK(p)'
  BY <1>1, <1>2, <1>3, <1>5, <1>6, <1>12 DEF SlotOK, Combined, Fresh, TicksChan
<1> QED
  BY <1>0, <1>13, <1>14, <1>15, <1>16, <1>17, LocalFrame

\* A thread that holds tickslock, in sys_sleep or in the timer's handler.
InTicks(c, p) ==
    /\ cpu[c].on = "process" /\ cpu[c].proc = p
    /\ cpu[c].scan > 0 /\ cpu[c].irq = "none"
    /\ cpu[c].ncli = 1 /\ ~cpu[c].fl
    /\ locked["ptable"] # c /\ locked["ticks"] = c
    /\ proc[p].state = "RUNNING"
    /\ \/ thr[p].irq = "none" /\ thr[p].at \in Timing /\ cpu[c].intena
       \/ thr[p].irq = "wake" /\ thr[p].at \in Unlocked /\ ~cpu[c].intena

\* A step that ends with tickslock held ends well.
LEMMA TakesTicks ==
    ASSUME NEW c \in Cpus, NEW p \in Slots, InTicks(c, p)'
    PROVE  LocksExact(c)' /\ Carries(c)' /\ SlotOK(p)'
<1>1. LocksExact(c)'
  BY DEF InTicks, LocksExact, HoldsTable, HoldsTicks, Irq, Unlocked, Switched, Timing
<1>2. Carries(c)'
  BY DEF InTicks, Carries, Unlocked, Timing
<1>3. SlotOK(p)'
  BY DEF InTicks, SlotOK, Saved, Carried, Combined, Unlocked, Switched, Timing
<1> QED
  BY <1>1, <1>2, <1>3

\* sleep takes tickslock back.
LEMMA SleepRelocks ==
    ASSUME IInv, NEW c \in Cpus, NEW p \in Slots, sleepRelocks(c, p)
    PROVE  IInv'
<1> DEFINE k == pushcli(cpu[c])
<1>1. TypeOK /\ TimeInv
  BY DEF IInv
<1>2. Running(c, p) /\ thr[p].at = "relock" /\ thr[p].irq = "none"
  BY OnProcess DEF sleepRelocks, At, Combined
<1>3. cpu[c].ncli = 0 /\ locked["ptable"] # c /\ cpu[c].fl
  BY <1>2, AtUnlocked DEF Unlocked
<1>4. /\ locked["ticks"] = 0 /\ locked' = [locked EXCEPT !["ticks"] = c]
      /\ cpu' = [cpu EXCEPT ![c] = k]
      /\ Go(p, "slept")
      /\ UNCHANGED <<proc, nextpid, ticks, panic>>
  BY DEF sleepRelocks, acquire
<1>5. /\ k \in Cpu /\ k.proc = p /\ k.scan > 0 /\ k.irq = "none" /\ k.ncli = 1
      /\ k.on = "process" /\ ~k.fl /\ k.intena
  BY <1>2, <1>3, Pushed, OnProcess
<1> HIDE DEF k
<1>6. /\ cpu' \in [Cpus -> Cpu] /\ cpu'[c] = k
      /\ \A d \in Cpus : d # c => cpu'[d] = cpu[d]
  BY <1>1, <1>4, <1>5 DEF TypeOK
<1>7. /\ thr' \in [Slots -> Thread] /\ thr'[p].at = "slept" /\ thr'[p].irq = "none"
      /\ thr'[p].n = thr[p].n /\ thr'[p].elapsed = thr[p].elapsed
      /\ thr'[p].ticks0 = thr[p].ticks0
      /\ \A s \in Slots : s # p => thr'[s] = thr[s]
  BY <1>1, <1>2, <1>4, Goes DEF Places, Timing
<1>8. /\ locked' \in [{"ptable", "ticks"} -> 0 .. NCPU] /\ c # 0
      /\ locked'["ticks"] = c /\ locked'["ptable"] = locked["ptable"]
  BY <1>1, <1>4, Constants DEF TypeOK, Cpus
<1>9. TypeOK'
  BY <1>1, <1>4, <1>6, <1>7, <1>8 DEF TypeOK
<1>10. Local(c, p)
  BY <1>2, <1>3, <1>4, <1>5, <1>6, <1>7, <1>8, OnProcess DEF Local, InSleep
<1>11. InTicks(c, p)'
  BY <1>2, <1>3, <1>4, <1>5, <1>6, <1>7, <1>8, OnProcess DEF InTicks, Timing
<1> QED
  BY <1>2, <1>9, <1>10, <1>11, LocalFrame, TakesTicks, OnProcess

\* sys_sleep takes the time.
LEMMA SleepStarts ==
    ASSUME IInv, NEW c \in Cpus, NEW p \in Slots, sleepStarts(c, p)
    PROVE  IInv'
<1> DEFINE k == pushcli(cpu[c])
<1>1. TypeOK /\ TimeInv /\ Alone
  BY DEF IInv
<1>2. Running(c, p) /\ thr[p].at = "user" /\ thr[p].irq = "none"
  BY OnProcess DEF sleepStarts, Calling, At, Combined
<1>3. cpu[c].ncli = 0 /\ locked["ptable"] # c /\ cpu[c].fl
  BY <1>2, AtUnlocked DEF Unlocked
<1>4. /\ locked["ticks"] = 0 /\ locked' = [locked EXCEPT !["ticks"] = c]
      /\ cpu' = [cpu EXCEPT ![c] = k]
      /\ UNCHANGED <<proc, nextpid, ticks, panic>>
  BY DEF sleepStarts, acquire
<1>5. /\ k \in Cpu /\ k.proc = p /\ k.scan > 0 /\ k.irq = "none" /\ k.ncli = 1
      /\ k.on = "process" /\ ~k.fl /\ k.intena
  BY <1>2, <1>3, Pushed, OnProcess
<1> HIDE DEF k
<1>6. /\ cpu' \in [Cpus -> Cpu] /\ cpu'[c] = k
      /\ \A d \in Cpus : d # c => cpu'[d] = cpu[d]
  BY <1>1, <1>4, <1>5 DEF TypeOK
<1>7. PICK m \in SleepArgs :
        thr' = [thr EXCEPT ![p].at = "slept", ![p].n = m, ![p].ticks0 = ticks]
  BY DEF sleepStarts
<1> DEFINE t == [thr[p] EXCEPT !.at = "slept"]
           u == [t EXCEPT !.n = m]
           v == [u EXCEPT !.ticks0 = ticks]
<1>8. m \in 0 .. TICKS - 1 /\ ticks \in 0 .. TICKS - 1 /\ thr[p] \in Thread
  BY <1>1, TICKSAssumption DEF TypeOK
<1>9. t \in Thread /\ t.at = "slept" /\ t.irq = "none" /\ t.elapsed = thr[p].elapsed
  BY <1>2, <1>8 DEF Thread, Places, Timing
<1> HIDE DEF t
<1>10. /\ u \in Thread /\ u.at = "slept" /\ u.irq = "none"
       /\ u.elapsed = thr[p].elapsed /\ u.n = m
  BY <1>8, <1>9 DEF Thread
<1> HIDE DEF u
<1>11. /\ v \in Thread /\ v.at = "slept" /\ v.irq = "none"
       /\ v.elapsed = thr[p].elapsed /\ v.n = m /\ v.ticks0 = ticks
  BY <1>8, <1>10 DEF Thread
<1> HIDE DEF v
<1>12. thr' = [thr EXCEPT ![p] = v]
  BY <1>7, <1>1 DEF t, u, v, TypeOK
<1>13. /\ thr' \in [Slots -> Thread] /\ thr'[p] = v
       /\ \A s \in Slots : s # p => thr'[s] = thr[s]
  BY <1>1, <1>11, <1>12 DEF TypeOK
<1>14. /\ locked' \in [{"ptable", "ticks"} -> 0 .. NCPU] /\ c # 0
       /\ locked'["ticks"] = c /\ locked'["ptable"] = locked["ptable"]
  BY <1>1, <1>4, Constants DEF TypeOK, Cpus
<1>15. TypeOK'
  BY <1>1, <1>4, <1>6, <1>13, <1>14 DEF TypeOK
<1>16. InTicks(c, p)'
  BY <1>2, <1>3, <1>4, <1>5, <1>6, <1>11, <1>13, <1>14, OnProcess DEF InTicks, Timing
<1>17. \A s \in Slots : s # p => Kept(c, s)
  BY <1>4, <1>13 DEF Kept
<1>18. StepOf(c)
  BY <1>2, <1>4, <1>5, <1>6, <1>14, <1>17, OnProcess DEF StepOf
<1>19. CpuInv' /\ Alone' /\ SlotInv'
  BY <1>2, <1>16, <1>17, <1>18, TakesTicks, Frame, OnProcess
<1>20. ForkKept
  BY <1>4, <1>11, <1>13 DEF ForkKept, Forking
<1>21. FamilyKept
  BY <1>2, <1>4, <1>11, <1>13, OnProcess DEF FamilyKept
<1>22. TimeInv'
  <2>1. thr[p].elapsed = 0
    BY <1>1, <1>2 DEF TimeInv, InSleep
  <2>2. (ticks - ticks) % TICKS = 0
    BY <1>8, Constants
  <2>3. thr'[p].n = 0 \/ (ticks' - thr'[p].ticks0) % TICKS = thr'[p].elapsed
    BY <1>4, <1>11, <1>13, <2>1, <2>2
  <2> QED
    BY <1>1, <1>4, <1>11, <1>13, <2>1, <2>3 DEF TimeInv, InSleep
<1>23. LocksNeverPanic'
  BY <1>4 DEF IInv, LocksNeverPanic
<1> QED
  BY <1>15, <1>19, <1>20, <1>21, <1>22, <1>23, ForkFrame, FamilyFrame DEF IInv

\* sys_sleep looks at the time.
LEMMA SleepChecks ==
    ASSUME IInv, NEW c \in Cpus, NEW p \in Slots, sleepChecks(c, p)
    PROVE  IInv'
<1>1. TypeOK /\ TimeInv
  BY DEF IInv
<1>2. Running(c, p) /\ thr[p].at = "slept" /\ thr[p].irq = "none"
  BY OnProcess DEF sleepChecks, At, Combined
<1>3. /\ cpu[c].ncli = 1 /\ locked["ptable"] # c /\ locked["ticks"] = c
      /\ ~cpu[c].fl /\ cpu[c].intena
  BY <1>2, AtTiming DEF Timing
<1>4. UNCHANGED <<proc, nextpid, ticks, panic>>
  BY DEF sleepChecks
<1>5. CASE Elapsed(p) \/ proc[p].killed
  <2> DEFINE k == popcli(cpu[c])
  <2>1. /\ Returns(p, 0) /\ cpu' = [cpu EXCEPT ![c] = k]
        /\ locked' = [locked EXCEPT !["ticks"] = 0]
    BY <1>5 DEF sleepChecks, release
  <2>2. /\ k \in Cpu /\ k.proc = p /\ k.scan > 0 /\ k.irq = "none" /\ k.ncli = 0
        /\ k.on = "process" /\ k.fl
    BY <1>2, <1>3, Popped, OnProcess
  <2> HIDE DEF k
  <2>3. /\ cpu' \in [Cpus -> Cpu] /\ cpu'[c] = k
        /\ \A d \in Cpus : d # c => cpu'[d] = cpu[d]
    BY <1>1, <2>1, <2>2 DEF TypeOK
  <2>4. /\ thr' \in [Slots -> Thread] /\ thr'[p].at = "ret" /\ thr'[p].irq = "none"
        /\ thr'[p].n = 0 /\ thr'[p].elapsed = 0
        /\ \A s \in Slots : s # p => thr'[s] = thr[s]
    BY <1>1, <2>1, Returned
  <2>5. /\ locked' \in [{"ptable", "ticks"} -> 0 .. NCPU] /\ c # 0
        /\ locked'["ticks"] = 0 /\ locked'["ptable"] = locked["ptable"]
    BY <1>1, <2>1, Constants DEF TypeOK, Cpus
  <2>6. TypeOK'
    BY <1>1, <1>4, <2>3, <2>4, <2>5 DEF TypeOK
  <2>7. Local(c, p)
    BY <1>2, <1>3, <1>4, <2>2, <2>3, <2>4, <2>5, OnProcess DEF Local
  <2>8. InUnlocked(c, p)'
    BY <1>2, <1>3, <1>4, <2>2, <2>3, <2>4, <2>5, OnProcess
    DEF InUnlocked, Combined, Unlocked
  <2> QED
    BY <1>2, <2>6, <2>7, <2>8, LocalFrame, Unlocks, OnProcess
<1>6. CASE ~(Elapsed(p) \/ proc[p].killed)
  <2>1. Go(p, "sleeps") /\ UNCHANGED <<cpu, locked>>
    BY <1>6 DEF sleepChecks
  <2>2. /\ thr' \in [Slots -> Thread] /\ thr'[p].at = "sleeps" /\ thr'[p].irq = "none"
        /\ thr'[p].n = thr[p].n /\ thr'[p].elapsed = thr[p].elapsed
        /\ thr'[p].ticks0 = thr[p].ticks0
        /\ \A s \in Slots : s # p => thr'[s] = thr[s]
    BY <1>1, <1>2, <2>1, Goes DEF Places, Timing
  <2>3. TypeOK'
    BY <1>1, <1>4, <2>1, <2>2 DEF TypeOK
  <2>4. Local(c, p)
    BY <1>2, <1>4, <2>1, <2>2, OnProcess DEF Local, InSleep
  <2>5. InTicks(c, p)'
    BY <1>2, <1>3, <1>4, <2>1, <2>2, OnProcess DEF InTicks, Timing
  <2> QED
    BY <1>2, <2>3, <2>4, <2>5, LocalFrame, TakesTicks, OnProcess
<1> QED
  BY <1>5, <1>6

\* popcli after pushcli, as sleep changes one lock for another.
LEMMA PushedPopped ==
    ASSUME NEW k \in Cpu, k.ncli = 1
    PROVE  /\ popcli(pushcli(k)) \in Cpu
           /\ popcli(pushcli(k)).proc = k.proc /\ popcli(pushcli(k)).on = k.on
           /\ popcli(pushcli(k)).scan = k.scan /\ popcli(pushcli(k)).irq = k.irq
           /\ popcli(pushcli(k)).ncli = 1
           /\ ~popcli(pushcli(k)).fl
           /\ popcli(pushcli(k)).intena <=> k.intena
<1> DEFINE j == pushcli(k)
           a == [j EXCEPT !.ncli = j.ncli - 1]
           b == [a EXCEPT !.fl = (j.ncli = 1 /\ j.intena)]
<1>1. j \in Cpu /\ j.ncli = 2 /\ j.proc = k.proc /\ j.on = k.on /\ j.scan = k.scan /\ j.irq = k.irq
  BY Pushed
<1>2. j.intena = k.intena
  BY DEF pushcli, Cpu
<1> HIDE DEF j
<1>3. /\ j.ncli - 1 \in Nat /\ (j.ncli = 1 /\ j.intena) \in BOOLEAN
      /\ (j.ncli > 1 /\ j.intena) \in BOOLEAN
  BY <1>1 DEF Cpu
<1>4. a \in Cpu
  BY <1>1, <1>3, CpuFields
<1>5. b \in Cpu
  BY <1>3, <1>4, CpuFields
<1>6. [b EXCEPT !.intena = (j.ncli > 1 /\ j.intena)] \in Cpu
  BY <1>3, <1>5, CpuFields
<1>7. popcli(j) \in Cpu
  BY <1>6 DEF popcli
<1>8. /\ popcli(j).proc = j.proc /\ popcli(j).on = j.on
      /\ popcli(j).scan = j.scan /\ popcli(j).irq = j.irq
  BY <1>1 DEF popcli, Cpu
<1>9. popcli(j).ncli = j.ncli - 1
  BY <1>1 DEF popcli, Cpu
<1>10. popcli(j).fl = (j.ncli = 1 /\ j.intena)
  BY <1>1 DEF popcli, Cpu
<1>11. popcli(j).intena = (j.ncli > 1 /\ j.intena)
  BY <1>1 DEF popcli, Cpu
<1>12. j.ncli # 1 /\ j.ncli > 1
  BY <1>1
<1>13. ~popcli(j).fl
  BY <1>10, <1>12, Zenon
<1>14. popcli(j).intena <=> k.intena
  BY <1>2, <1>11, <1>12, Zenon
<1>15. popcli(j).ncli = 1
  BY <1>1, <1>9
<1> QED
  BY <1>1, <1>7, <1>8, <1>13, <1>14, <1>15 DEF j

\* sleep changes tickslock for ptable.lock.
LEMMA SleepsOnTicks ==
    ASSUME IInv, NEW c \in Cpus, NEW p \in Slots, sleep(c, p)
    PROVE  IInv'
<1> DEFINE k == popcli(pushcli(cpu[c]))
           y == [k EXCEPT !.on = "sched"]
           a == [proc[p] EXCEPT !.state = "SLEEPING"]
           b == [a EXCEPT !.chan = TicksChan]
<1>1. TypeOK
  BY DEF IInv
<1>2. Running(c, p) /\ thr[p].at = "sleeps" /\ thr[p].irq = "none"
  BY OnProcess DEF sleep, At, Combined
<1>3. /\ cpu[c].ncli = 1 /\ locked["ptable"] # c /\ locked["ticks"] = c
      /\ cpu[c].intena
  BY <1>2, AtTiming DEF Timing
<1>4. /\ locked["ptable"] = 0
      /\ locked' = [locked EXCEPT !["ptable"] = c, !["ticks"] = 0]
      /\ proc' = [proc EXCEPT ![p].state = "SLEEPING", ![p].chan = TicksChan]
      /\ Go(p, "asleep")
      /\ cpu' = [cpu EXCEPT ![c] = y]
      /\ UNCHANGED <<nextpid, ticks, panic>>
  BY DEF sleep, Section
<1>5. /\ k \in Cpu /\ k.proc = p /\ k.scan > 0 /\ k.irq = "none" /\ k.ncli = 1
      /\ ~k.fl /\ k.intena
  <2>1. cpu[c] \in Cpu /\ cpu[c].proc = p /\ cpu[c].scan > 0 /\ cpu[c].irq = "none"
    BY <1>2, OnProcess
  <2> QED
    BY <1>3, <2>1, PushedPopped
<1> HIDE DEF k
<1>6. /\ y \in Cpu /\ y.proc = p /\ y.scan > 0 /\ y.irq = "none" /\ y.ncli = 1
      /\ ~y.fl /\ y.intena /\ y.on = "sched"
  <2>1. /\ y \in Cpu /\ y.proc = p /\ y.scan > 0 /\ y.irq = "none" /\ y.ncli = 1
        /\ y.on = "sched"
    BY <1>5, CpuOn
  <2>2. y.fl = k.fl /\ y.intena = k.intena
    BY <1>5, CpuOn
  <2>3. ~y.fl /\ y.intena
    BY <1>5, <2>2, Zenon
  <2> QED
    BY <2>1, <2>3
<1> HIDE DEF y
<1>7. a \in Proc /\ a.state = "SLEEPING" /\ a.parent = proc[p].parent
  BY <1>1, Typed, ProcFields DEF States
<1> HIDE DEF a
<1>8. /\ b \in Proc /\ b.state = "SLEEPING" /\ b.parent = proc[p].parent
      /\ b.chan = TicksChan
  <2>1. TicksChan \in 0 .. NPROC + 1
    BY Constants DEF TicksChan
  <2> QED
    BY <2>1, <1>7, ProcFields
<1> HIDE DEF b
<1>9. proc' = [proc EXCEPT ![p] = b]
  BY <1>1, <1>4 DEF a, b, TypeOK
<1>10. /\ proc' \in [Slots -> Proc] /\ proc'[p] = b
       /\ \A s \in Slots : s # p => proc'[s] = proc[s]
  BY <1>1, <1>8, <1>9 DEF TypeOK
<1>11. /\ cpu' \in [Cpus -> Cpu] /\ cpu'[c] = y
       /\ \A d \in Cpus : d # c => cpu'[d] = cpu[d]
  BY <1>1, <1>4, <1>6 DEF TypeOK
<1>12. /\ thr' \in [Slots -> Thread] /\ thr'[p].at = "asleep" /\ thr'[p].irq = "none"
       /\ thr'[p].n = thr[p].n /\ thr'[p].elapsed = thr[p].elapsed
       /\ thr'[p].ticks0 = thr[p].ticks0
       /\ \A s \in Slots : s # p => thr'[s] = thr[s]
  BY <1>1, <1>2, <1>4, Goes DEF Places, Switched
<1>13. /\ locked' \in [{"ptable", "ticks"} -> 0 .. NCPU] /\ c # 0
       /\ locked'["ticks"] = 0 /\ locked'["ptable"] = c
  BY <1>1, <1>4, Constants DEF TypeOK, Cpus
<1>14. TypeOK'
  BY <1>1, <1>4, <1>10, <1>11, <1>12, <1>13 DEF TypeOK
<1>15. Local(c, p)
  BY <1>2, <1>3, <1>4, <1>6, <1>8, <1>10, <1>11, <1>12, <1>13, OnProcess
  DEF Local, InSleep
<1>16. InSched(c, p)'
  BY <1>6, <1>8, <1>10, <1>11, <1>12, <1>13 DEF InSched, Combined, Saved, TicksChan
<1> QED
  BY <1>2, <1>14, <1>15, <1>16, LocalFrame, Scheds, OnProcess

\* sleep after its switch.
LEMMA SleepWakes ==
    ASSUME IInv, NEW c \in Cpus, NEW p \in Slots, sleepWakes(c, p)
    PROVE  IInv'
<1> DEFINE j == resumed(p, cpu[c])
           k == popcli(j)
           q == [proc[p] EXCEPT !.chan = 0]
           t == [thr[p] EXCEPT !.at = "relock"]
           u == [t EXCEPT !.intena = FALSE]
<1>1. TypeOK
  BY DEF IInv
<1>2. Running(c, p) /\ thr[p].at = "asleep" /\ thr[p].irq = "none"
  BY OnProcess DEF sleepWakes, At, Combined
<1>3. /\ cpu[c].ncli = 1 /\ locked["ptable"] = c /\ locked["ticks"] # c
      /\ thr[p].intena
  BY <1>2, AtSwitched DEF Switched
<1>4. /\ locked' = [locked EXCEPT !["ptable"] = 0]
      /\ proc' = [proc EXCEPT ![p] = q]
      /\ thr' = [thr EXCEPT ![p].at = "relock", ![p].intena = FALSE]
      /\ cpu' = [cpu EXCEPT ![c] = k]
      /\ UNCHANGED <<nextpid, ticks, panic>>
  BY DEF sleepWakes, release
<1>5. thr[p] \in Thread /\ cpu[c] \in Cpu /\ proc[p] \in Proc
  BY <1>2, OnProcess
<1>6. /\ j \in Cpu /\ j.ncli = 1 /\ j.proc = p /\ j.scan > 0 /\ j.irq = "none"
      /\ j.on = "process" /\ j.intena
  BY <1>2, <1>3, <1>5, Resumes, OnProcess
<1> HIDE DEF j
<1>7. /\ k \in Cpu /\ k.ncli = 0 /\ k.proc = p /\ k.scan > 0 /\ k.irq = "none"
      /\ k.on = "process" /\ k.fl
  BY <1>6, Popped
<1> HIDE DEF k
<1>8. q \in Proc /\ q.state = "RUNNING" /\ q.parent = proc[p].parent
  <2>1. 0 \in 0 .. NPROC + 1
    BY Constants
  <2> QED
    BY <1>2, <1>5, <2>1, ProcFields, OnProcess
<1> HIDE DEF q
<1>9. /\ t \in Thread /\ t.at = "relock" /\ t.irq = "none" /\ t.n = thr[p].n
      /\ t.ticks0 = thr[p].ticks0 /\ t.elapsed = thr[p].elapsed
  BY <1>2, <1>5 DEF Thread, Places, Unlocked
<1> HIDE DEF t
<1>10. /\ u \in Thread /\ u.at = "relock" /\ u.irq = "none" /\ u.n = thr[p].n
       /\ u.ticks0 = thr[p].ticks0 /\ u.elapsed = thr[p].elapsed
  BY <1>9, ThreadFields
<1> HIDE DEF u
<1>11. thr' = [thr EXCEPT ![p] = u]
  BY <1>1, <1>4 DEF t, u, TypeOK
<1>12. /\ thr' \in [Slots -> Thread] /\ thr'[p] = u
       /\ \A s \in Slots : s # p => thr'[s] = thr[s]
  BY <1>1, <1>10, <1>11 DEF TypeOK
<1>13. /\ proc' \in [Slots -> Proc] /\ proc'[p] = q
       /\ \A s \in Slots : s # p => proc'[s] = proc[s]
  BY <1>1, <1>4, <1>8 DEF TypeOK
<1>14. /\ cpu' \in [Cpus -> Cpu] /\ cpu'[c] = k
       /\ \A d \in Cpus : d # c => cpu'[d] = cpu[d]
  BY <1>1, <1>4, <1>7 DEF TypeOK
<1>15. /\ locked' \in [{"ptable", "ticks"} -> 0 .. NCPU] /\ c # 0
       /\ locked'["ptable"] = 0 /\ locked'["ticks"] = locked["ticks"]
  BY <1>1, <1>4, Constants DEF TypeOK, Cpus
<1>16. TypeOK'
  BY <1>1, <1>4, <1>12, <1>13, <1>14, <1>15 DEF TypeOK
<1>17. Local(c, p)
  BY <1>2, <1>3, <1>4, <1>7, <1>8, <1>10, <1>12, <1>13, <1>14, <1>15, OnProcess
  DEF Local, InSleep
<1>18. InUnlocked(c, p)'
  BY <1>2, <1>3, <1>7, <1>8, <1>10, <1>12, <1>13, <1>14, <1>15
  DEF InUnlocked, Combined, Unlocked
<1> QED
  BY <1>2, <1>16, <1>17, <1>18, LocalFrame, Unlocks, OnProcess

-----------------------------------------------------------------------------
(* The timer interrupt *)

\* A CPU in another handler.
LEMMA CpuIrq ==
    ASSUME NEW k \in Cpu
    PROVE  \A x \in {"none", "tick", "wake"} :
             /\ [k EXCEPT !.irq = x] \in Cpu /\ [k EXCEPT !.irq = x].on = k.on
             /\ [k EXCEPT !.irq = x].proc = k.proc /\ [k EXCEPT !.irq = x].scan = k.scan
             /\ [k EXCEPT !.irq = x].irq = x /\ [k EXCEPT !.irq = x].ncli = k.ncli
             /\ [k EXCEPT !.irq = x].intena = k.intena /\ [k EXCEPT !.irq = x].fl = k.fl
BY DEF Cpu

\* A CPU in its scheduler, outside the loop or in it.
InScheduler(c) ==
    /\ cpu[c].on = "scheduler" /\ cpu[c].proc = 0
    /\ locked["ptable"] = c <=> cpu[c].scan > 0
    /\ locked["ticks"] = c <=> cpu[c].irq = "wake"
    /\ cpu[c].ncli = IF cpu[c].scan > 0 \/ cpu[c].irq = "wake" THEN 1 ELSE 0
    /\ cpu[c].fl <=> ~(cpu[c].scan > 0) /\ cpu[c].irq = "none"
    /\ cpu[c].scan > 0 => cpu[c].irq = "none"

\* A step that ends in the scheduler ends well.
LEMMA Schedules ==
    ASSUME NEW c \in Cpus, InScheduler(c)'
    PROVE  LocksExact(c)' /\ Carries(c)'
<1>1. LocksExact(c)'
  BY DEF InScheduler, LocksExact, HoldsTable, HoldsTicks, Irq
<1>2. Carries(c)'
  BY DEF InScheduler, Carries
<1> QED
  BY <1>1, <1>2

\* The timer interrupts a scheduler.
LEMMA TimerInScheduler ==
    ASSUME IInv, NEW c \in Cpus, timer(c), cpu[c].on # "process"
    PROVE  IInv'
<1> DEFINE k == [cpu[c] EXCEPT !.fl = FALSE]
           y == [k EXCEPT !.irq = "tick"]
<1>1. TypeOK
  BY DEF IInv
<1>2. cpu[c].on = "scheduler"
  BY <1>1, AtSched, Typed DEF timer, Cpu
<1>3. cpu[c] \in Cpu /\ cpu[c].proc = 0 /\ cpu[c].scan = 0 /\ cpu[c].ncli = 0 /\ locked["ptable"] # c
      /\ locked["ticks"] # c
  <2>1. cpu[c].fl
    BY DEF timer
  <2> QED
    BY <1>2, <2>1, AtScheduler
<1>4. k \in Cpu /\ k.on = "scheduler" /\ k.proc = 0 /\ k.scan = 0 /\ k.ncli = 0
  BY <1>2, <1>3, CpuFlag
<1>5. ~k.fl
  <2>1. k.fl = FALSE
    BY <1>3, CpuFlag
  <2> QED
    BY <2>1, Zenon
<1>6. cpu' = [cpu EXCEPT ![c] = y] /\ UNCHANGED <<thr, proc, locked, nextpid, ticks, panic>>
  <2>1. c = 1
    BY <1>2 DEF timer
  <2>2. SetIrq(c, k, "tick") /\ UNCHANGED <<proc, locked, nextpid, ticks, panic>>
    BY <2>1 DEF timer
  <2> QED
    BY <2>2, <1>4 DEF SetIrq
<1> HIDE DEF k
<1>7. /\ y \in Cpu /\ y.on = "scheduler" /\ y.proc = 0 /\ y.scan = 0 /\ y.ncli = 0
      /\ y.irq = "tick" /\ ~y.fl
  BY <1>4, <1>5, CpuIrq
<1> HIDE DEF y
<1>8. /\ cpu' \in [Cpus -> Cpu] /\ cpu'[c] = y
      /\ \A d \in Cpus : d # c => cpu'[d] = cpu[d]
  BY <1>1, <1>6, <1>7 DEF TypeOK
<1>9. TypeOK'
  BY <1>1, <1>6, <1>8 DEF TypeOK
<1>10. InScheduler(c)'
  BY <1>3, <1>6, <1>7, <1>8 DEF InScheduler
<1>11. \A s \in Slots : Kept(c, s) /\ s # cpu[c].proc
  BY <1>3, <1>6, Constants DEF Kept, Slots
<1>12. StepOf(c)
  BY <1>6, <1>7, <1>8, <1>11 DEF StepOf
<1>13. CpuInv' /\ Alone' /\ SlotInv'
  BY <1>10, <1>11, <1>12, Schedules, Frame
<1>14. ForkKept /\ FamilyKept /\ TimeKept
  BY <1>6 DEF ForkKept, FamilyKept, TimeKept, Forking
<1>15. LocksNeverPanic'
  BY <1>6 DEF IInv, LocksNeverPanic
<1> QED
  BY <1>9, <1>13, <1>14, <1>15, ForkFrame, FamilyFrame, TimeFrame DEF IInv

\* The timer interrupts a process.
LEMMA TimerInProcess ==
    ASSUME IInv, NEW c \in Cpus, NEW p \in Slots, Running(c, p), timer(c)
    PROVE  IInv'
<1> DEFINE y == [cpu[c] EXCEPT !.fl = FALSE]
           h == IF c = 1 THEN "tick" ELSE "check"
           t == [thr[p] EXCEPT !.irq = h]
<1>1. TypeOK
  BY DEF IInv
<1>2. thr[p].irq = "none" /\ cpu[c].fl
  BY OnProcess DEF timer, Irq
<1>3. cpu[c].ncli = 0 /\ locked["ptable"] # c /\ locked["ticks"] # c /\ thr[p].at \in Unlocked
  <2>1. thr[p].at \in Unlocked
    BY <1>2, OnProcess, AtSwitched, AtTiming DEF Thread, Places
  <2> QED
    BY <1>2, <2>1, AtUnlocked
<1>4. /\ y \in Cpu /\ y.on = "process" /\ y.proc = p /\ y.scan > 0 /\ y.ncli = 0
      /\ y.irq = "none"
  <2>1. cpu[c] \in Cpu /\ FALSE \in BOOLEAN
    BY OnProcess
  <2>2. /\ cpu[c].on = "process" /\ cpu[c].proc = p /\ cpu[c].scan > 0
        /\ cpu[c].irq = "none"
    BY OnProcess
  <2> QED
    BY <1>3, <2>1, <2>2, CpuFlag
<1>5. ~y.fl
  <2>1. y.fl = FALSE
    BY CpuFlag, OnProcess
  <2> QED
    BY <2>1, Zenon
<1>6. /\ cpu' = [cpu EXCEPT ![c] = y] /\ thr' = [thr EXCEPT ![p] = t]
      /\ UNCHANGED <<proc, locked, nextpid, ticks, panic>>
  <2>1. SetIrq(c, y, h) /\ UNCHANGED <<proc, locked, nextpid, ticks, panic>>
    BY DEF timer
  <2> QED
    BY <2>1, <1>4 DEF SetIrq
<1> HIDE DEF y
<1>7. h \in {"tick", "check"} /\ h \in Handlers
  BY DEF Handlers
<1> HIDE DEF h
<1>8. /\ t \in Thread /\ t.irq = h /\ t.at = thr[p].at /\ t.np = thr[p].np
      /\ t.n = thr[p].n /\ t.ticks0 = thr[p].ticks0 /\ t.elapsed = thr[p].elapsed
  BY <1>7, ThreadFields, OnProcess
<1> HIDE DEF t
<1>9. /\ cpu' \in [Cpus -> Cpu] /\ cpu'[c] = y
      /\ \A d \in Cpus : d # c => cpu'[d] = cpu[d]
  BY <1>1, <1>4, <1>6 DEF TypeOK
<1>10. /\ thr' \in [Slots -> Thread] /\ thr'[p] = t
       /\ \A s \in Slots : s # p => thr'[s] = thr[s]
  BY <1>1, <1>6, <1>8 DEF TypeOK
<1>11. TypeOK'
  BY <1>1, <1>6, <1>9, <1>10 DEF TypeOK
<1>12. Local(c, p)
  BY <1>4, <1>6, <1>8, <1>9, <1>10, OnProcess DEF Local
<1>13. InUnlocked(c, p)'
  BY <1>3, <1>4, <1>5, <1>6, <1>7, <1>8, <1>9, <1>10, OnProcess DEF InUnlocked, Combined
<1> QED
  BY <1>11, <1>12, <1>13, LocalFrame, Unlocks, OnProcess

\* The remainder within one turn of zero.
LEMMA Wraps ==
    ASSUME NEW m \in Nat \ {0}, NEW x \in Int
    PROVE  /\ 0 <= x /\ x < m => x % m = x
           /\ 0 - m <= x /\ x < 0 => x % m = x + m
           /\ x = m => x % m = 0
<1>1. CASE 0 <= x /\ x < m
  BY <1>1
<1>2. CASE 0 - m <= x /\ x < 0
  <2>1. x + m \in 0 .. m - 1 /\ x = m * (0 - 1) + (x + m)
    BY <1>2
  <2> QED
    BY <1>2, <2>1
<1>3. CASE x = m
  <2>1. x = m * 1 + 0 /\ 0 \in 0 .. m - 1
    BY <1>3
  <2> QED
    BY <1>3, <2>1
<1> QED
  BY <1>1, <1>2, <1>3

\* One more tick is one more tick since t0, whichever of them wraps around.
LEMMA OneMoreTick ==
    ASSUME NEW t \in 0 .. TICKS - 1, NEW t0 \in 0 .. TICKS - 1
    PROVE  /\ (t + 1) % TICKS \in 0 .. TICKS - 1
           /\ ((t - t0) % TICKS) + 1 < TICKS =>
                (((t + 1) % TICKS) - t0) % TICKS = ((t - t0) % TICKS) + 1
<1>1. TICKS \in Nat \ {0}
  BY Constants
<1>2. CASE t + 1 = TICKS
  <2>1. (t + 1) % TICKS = 0
    BY <1>1, <1>2, Wraps
  <2>2. (t - t0) % TICKS = t - t0
    BY <1>1, <1>2, Wraps
  <2>3. t0 # 0 => (0 - t0) % TICKS = TICKS - t0
    <3>1. 0 - t0 \in Int /\ 0 - TICKS <= 0 - t0 /\ (t0 # 0 => 0 - t0 < 0)
      BY <1>1
    <3>2. t0 # 0 => (0 - t0) % TICKS = (0 - t0) + TICKS
      BY <1>1, <3>1, Wraps
    <3> QED
      BY <1>1, <3>2
  <2> QED
    BY <1>1, <1>2, <2>1, <2>2, <2>3
<1>3. CASE t + 1 < TICKS
  <2>1. (t + 1) % TICKS = t + 1
    BY <1>1, <1>3, Wraps
  <2>2. CASE t0 <= t
    <3>1. (t - t0) % TICKS = t - t0 /\ ((t + 1) - t0) % TICKS = (t + 1) - t0
      BY <1>1, <1>3, <2>2, Wraps
    <3> QED
      BY <1>1, <2>1, <3>1
  <2>3. CASE t < t0
    <3>1. (t - t0) % TICKS = (t - t0) + TICKS
      BY <1>1, <2>3, Wraps
    <3>2. (t - t0) + TICKS + 1 < TICKS => ((t + 1) - t0) % TICKS = ((t + 1) - t0) + TICKS
      BY <1>1, <2>3, Wraps
    <3> QED
      BY <1>1, <2>1, <3>1, <3>2
  <2> QED
    BY <2>2, <2>3
<1> QED
  BY <1>1, <1>2, <1>3

\* The ticks a thread has counted, one tick later.
counted(s) ==
    IF thr[s].n = 0 THEN thr[s]
    ELSE [thr[s] EXCEPT !.elapsed = Min({thr[s].elapsed + 1, TICKS})]

\* Counting keeps the sum of TimeInv.
LEMMA Counts ==
    ASSUME TypeOK, TimeInv, NEW s \in Slots
    PROVE  /\ counted(s) \in Thread
           /\ counted(s).at = thr[s].at /\ counted(s).irq = thr[s].irq
           /\ counted(s).intena = thr[s].intena /\ counted(s).np = thr[s].np
           /\ counted(s).n = thr[s].n /\ counted(s).ticks0 = thr[s].ticks0
           /\ thr[s].n = 0 => counted(s).elapsed = 0
           /\ thr[s].n # 0 /\ counted(s).elapsed < TICKS =>
                (((ticks + 1) % TICKS) - thr[s].ticks0) % TICKS = counted(s).elapsed
<1> DEFINE e == Min({thr[s].elapsed + 1, TICKS})
<1>1. thr[s] \in Thread
  BY DEF TypeOK
<1>2. /\ thr[s].elapsed \in 0 .. TICKS /\ thr[s].ticks0 \in 0 .. TICKS - 1
      /\ ticks \in 0 .. TICKS - 1 /\ TICKS \in Nat
  BY <1>1, Constants DEF Thread, TypeOK
<1>3. CASE thr[s].n = 0
  BY <1>1, <1>3 DEF counted, TimeInv
<1>4. CASE thr[s].n # 0
  <2>1. e \in {thr[s].elapsed + 1, TICKS} /\ e <= thr[s].elapsed + 1 /\ e <= TICKS
    <3>1. {thr[s].elapsed + 1, TICKS} \subseteq Nat /\ {thr[s].elapsed + 1, TICKS} # {}
      BY <1>2
    <3> QED
      BY <3>1, MinIn
  <2>2. e \in 0 .. TICKS
    BY <1>2, <2>1
  <2>3. counted(s) = [thr[s] EXCEPT !.elapsed = e]
    BY <1>4 DEF counted
  <2> HIDE DEF e
  <2>4. /\ counted(s) \in Thread /\ counted(s).elapsed = e
        /\ counted(s).at = thr[s].at /\ counted(s).irq = thr[s].irq
        /\ counted(s).intena = thr[s].intena /\ counted(s).np = thr[s].np
        /\ counted(s).n = thr[s].n /\ counted(s).ticks0 = thr[s].ticks0
    BY <1>1, <2>2, <2>3 DEF Thread
  <2>5. e < TICKS => (((ticks + 1) % TICKS) - thr[s].ticks0) % TICKS = e
    <3> SUFFICES ASSUME e < TICKS
                 PROVE  (((ticks + 1) % TICKS) - thr[s].ticks0) % TICKS = e
      OBVIOUS
    <3>1. e = thr[s].elapsed + 1 /\ thr[s].elapsed < TICKS
      BY <1>2, <2>1
    <3>2. (ticks - thr[s].ticks0) % TICKS = thr[s].elapsed
      BY <1>4, <3>1 DEF TimeInv
    <3> QED
      BY <1>2, <3>1, <3>2, OneMoreTick
  <2> QED
    BY <1>4, <2>4, <2>5
<1> QED
  BY <1>3, <1>4

\* What a tick does to everybody, besides the handler that counts it.
Ticks ==
    /\ ticks' = (ticks + 1) % TICKS
    /\ \A s \in Slots :
         /\ thr'[s].at = thr[s].at /\ thr'[s].np = thr[s].np
         /\ thr'[s].n = thr[s].n /\ thr'[s].ticks0 = thr[s].ticks0
         /\ thr'[s].elapsed = counted(s).elapsed
    /\ UNCHANGED <<proc, panic>>

\* A tick keeps what is not about CPUs and slots.
LEMMA TickFrame ==
    ASSUME IInv, Ticks
    PROVE  ForkInv' /\ ParentInv' /\ ParentsWait' /\ TimeInv' /\ LocksNeverPanic'
<1>1. TypeOK /\ TimeInv
  BY DEF IInv
<1>2. ForkKept /\ FamilyKept
  BY DEF Ticks, ForkKept, FamilyKept, Forking
<1>3. TimeInv'
  <2> SUFFICES ASSUME NEW s \in Slots
               PROVE  /\ thr'[s].n = 0 => thr'[s].elapsed = 0
                      /\ thr'[s].n # 0 /\ thr'[s].elapsed < TICKS =>
                           (ticks' - thr'[s].ticks0) % TICKS = thr'[s].elapsed
                      /\ thr'[s].n # 0 => thr'[s].at \in InSleep
    BY DEF TimeInv
  <2>1. thr[s].n # 0 => thr[s].at \in InSleep
    BY <1>1 DEF TimeInv
  <2> QED
    BY <1>1, <2>1, Counts DEF Ticks
<1>4. LocksNeverPanic'
  BY DEF Ticks, IInv, LocksNeverPanic
<1> QED
  BY <1>2, <1>3, <1>4, ForkFrame, FamilyFrame

\* The handler counts a tick over a process.
LEMMA TickInProcess ==
    ASSUME IInv, NEW c \in Cpus, NEW p \in Slots, Running(c, p), tick(c)
    PROVE  IInv'
<1> DEFINE k == pushcli(cpu[c])
           t == [counted(p) EXCEPT !.irq = "wake"]
<1>1. TypeOK /\ TimeInv
  BY DEF IInv
<1>2. thr[p].irq = "tick" /\ thr[p].at \in Unlocked
  BY OnProcess DEF tick, Irq, Combined
<1>3. cpu[c].ncli = 0 /\ locked["ptable"] # c /\ locked["ticks"] # c /\ ~cpu[c].fl
  BY <1>2, AtUnlocked
<1>4. /\ k \in Cpu /\ k.proc = p /\ k.scan > 0 /\ k.irq = "none" /\ k.ncli = 1
      /\ k.on = "process" /\ ~k.fl /\ ~k.intena
  <2>1. cpu[c] \in Cpu /\ cpu[c].proc = p /\ cpu[c].scan > 0 /\ cpu[c].irq = "none"
        /\ cpu[c].on = "process"
    BY OnProcess
  <2>2. /\ k \in Cpu /\ k.proc = p /\ k.scan > 0 /\ k.irq = "none" /\ k.ncli = 1
        /\ k.on = "process"
    BY <1>3, <2>1, Pushed
  <2>3. ~k.fl /\ ~k.intena
    BY <1>3, <2>1, Pushed, Zenon
  <2> QED
    BY <2>2, <2>3
<1>5. /\ locked["ticks"] = 0 /\ locked' = [locked EXCEPT !["ticks"] = c]
      /\ ticks' = (ticks + 1) % TICKS
      /\ thr' = [[s \in Slots |-> counted(s)] EXCEPT ![p].irq = "wake"]
      /\ cpu' = [cpu EXCEPT ![c] = k]
      /\ UNCHANGED <<proc, nextpid, panic>>
  BY <1>3, <1>4, Zenon DEF tick, acquire, counted
<1> HIDE DEF k
<1>6. \A s \in Slots : counted(s) \in Thread
  BY <1>1, Counts
<1>7. /\ t \in Thread /\ t.irq = "wake" /\ t.at = thr[p].at /\ t.np = thr[p].np
      /\ t.n = thr[p].n /\ t.ticks0 = thr[p].ticks0 /\ t.elapsed = counted(p).elapsed
  <2>1. /\ counted(p) \in Thread
        /\ counted(p).at = thr[p].at /\ counted(p).np = thr[p].np
        /\ counted(p).n = thr[p].n /\ counted(p).ticks0 = thr[p].ticks0
    BY <1>1, Counts
  <2>2. "wake" \in Handlers
    BY DEF Handlers
  <2> QED
    BY <2>1, <2>2, ThreadFields
<1>8. /\ thr' \in [Slots -> Thread] /\ thr'[p] = t
      /\ \A s \in Slots : s # p => thr'[s] = counted(s)
  BY <1>5, <1>6, <1>7
<1> HIDE DEF t
<1>9. /\ cpu' \in [Cpus -> Cpu] /\ cpu'[c] = k
      /\ \A d \in Cpus : d # c => cpu'[d] = cpu[d]
  BY <1>1, <1>4, <1>5 DEF TypeOK
<1>10. /\ locked' \in [{"ptable", "ticks"} -> 0 .. NCPU] /\ c # 0
       /\ locked'["ticks"] = c /\ locked'["ptable"] = locked["ptable"]
  BY <1>1, <1>5, Constants DEF TypeOK, Cpus
<1>11. TypeOK'
  <2>1. ticks' \in 0 .. TICKS - 1
    BY <1>1, <1>5, OneMoreTick DEF TypeOK
  <2> QED
    BY <1>1, <1>5, <1>8, <1>9, <1>10, <2>1 DEF TypeOK
<1>12. Ticks
  BY <1>1, <1>5, <1>7, <1>8, Counts DEF Ticks
<1>13. InTicks(c, p)'
  BY <1>2, <1>3, <1>4, <1>5, <1>7, <1>8, <1>9, <1>10, OnProcess DEF InTicks
<1>14. \A s \in Slots : s # p => Kept(c, s)
  BY <1>1, <1>5, <1>8, Counts DEF Kept
<1>15. StepOf(c)
  BY <1>4, <1>5, <1>9, <1>10, <1>14, OnProcess DEF StepOf
<1>16. CpuInv' /\ Alone' /\ SlotInv'
  BY <1>13, <1>14, <1>15, TakesTicks, Frame, OnProcess
<1> QED
  BY <1>11, <1>12, <1>16, TickFrame DEF IInv

\* The handler counts a tick over a scheduler.
LEMMA TickInScheduler ==
    ASSUME IInv, NEW c \in Cpus, cpu[c].on # "process", tick(c)
    PROVE  IInv'
<1> DEFINE k == pushcli(cpu[c])
           y == [k EXCEPT !.irq = "wake"]
<1>1. TypeOK /\ TimeInv
  BY DEF IInv
<1>2. cpu[c].irq = "tick" /\ cpu[c].on = "scheduler"
  BY <1>1, AtSched, Typed DEF tick, Irq, Cpu
<1>3. /\ cpu[c] \in Cpu /\ cpu[c].proc = 0 /\ cpu[c].ncli = 0 /\ cpu[c].scan = 0
      /\ locked["ptable"] # c /\ locked["ticks"] # c
  <2>1. cpu[c] \in Cpu /\ cpu[c].scan \in Nat
    BY <1>1, Typed DEF Cpu
  <2> QED
    BY <1>2, <2>1, AtScheduler
<1>4. /\ k \in Cpu /\ k.proc = 0 /\ k.scan = 0 /\ k.ncli = 1 /\ k.on = "scheduler" /\ ~k.fl
  BY <1>2, <1>3, Pushed
<1>5. /\ locked["ticks"] = 0 /\ locked' = [locked EXCEPT !["ticks"] = c]
      /\ ticks' = (ticks + 1) % TICKS
      /\ thr' = [s \in Slots |-> counted(s)]
      /\ cpu' = [cpu EXCEPT ![c] = y]
      /\ UNCHANGED <<proc, nextpid, panic>>
  <2>1. k.on # "process"
    BY <1>4
  <2> QED
    BY <1>3, <2>1, Zenon DEF tick, acquire, counted
<1> HIDE DEF k
<1>6. /\ y \in Cpu /\ y.proc = 0 /\ y.scan = 0 /\ y.ncli = 1 /\ y.on = "scheduler"
      /\ y.irq = "wake" /\ ~y.fl
  BY <1>4, CpuIrq
<1> HIDE DEF y
<1>7. /\ thr' \in [Slots -> Thread]
      /\ \A s \in Slots : thr'[s] = counted(s)
  BY <1>1, <1>5, Counts
<1>8. /\ cpu' \in [Cpus -> Cpu] /\ cpu'[c] = y
      /\ \A d \in Cpus : d # c => cpu'[d] = cpu[d]
  BY <1>1, <1>5, <1>6 DEF TypeOK
<1>9. /\ locked' \in [{"ptable", "ticks"} -> 0 .. NCPU] /\ c # 0
      /\ locked'["ticks"] = c /\ locked'["ptable"] = locked["ptable"]
  BY <1>1, <1>5, Constants DEF TypeOK, Cpus
<1>10. TypeOK'
  <2>1. ticks' \in 0 .. TICKS - 1
    BY <1>1, <1>5, OneMoreTick DEF TypeOK
  <2> QED
    BY <1>1, <1>5, <1>7, <1>8, <1>9, <2>1 DEF TypeOK
<1>11. Ticks
  BY <1>1, <1>5, <1>7, Counts DEF Ticks
<1>12. InScheduler(c)'
  BY <1>3, <1>6, <1>8, <1>9 DEF InScheduler
<1>13. \A s \in Slots : Kept(c, s) /\ s # cpu[c].proc
  BY <1>1, <1>3, <1>5, <1>7, Counts, Constants DEF Kept, Slots
<1>14. StepOf(c)
  BY <1>3, <1>5, <1>6, <1>8, <1>9, <1>13 DEF StepOf
<1>15. CpuInv' /\ Alone' /\ SlotInv'
  BY <1>12, <1>13, <1>14, Schedules, Frame
<1> QED
  BY <1>10, <1>11, <1>15, TickFrame DEF IInv

\* wakeup1 makes those who sleep on a channel runnable, and nothing else.
LEMMA Wakes ==
    ASSUME NEW t \in [Slots -> Proc], NEW ch, NEW s \in Slots
    PROVE  /\ wakeup1(t, ch)[s] \in Proc
           /\ wakeup1(t, ch)[s].pid = t[s].pid /\ wakeup1(t, ch)[s].parent = t[s].parent
           /\ wakeup1(t, ch)[s].chan = t[s].chan /\ wakeup1(t, ch)[s].killed = t[s].killed
           /\ \/ wakeup1(t, ch)[s].state = t[s].state /\ wakeup1(t, ch)[s].state # "SLEEPING"
              \/ wakeup1(t, ch)[s].state = t[s].state /\ t[s].chan # ch
              \/ /\ t[s].state = "SLEEPING" /\ t[s].chan = ch
                 /\ wakeup1(t, ch)[s].state = "RUNNABLE"
<1>1. t[s] \in Proc
  OBVIOUS
<1>2. CASE t[s].state = "SLEEPING" /\ t[s].chan = ch
  <2>1. wakeup1(t, ch)[s] = [t[s] EXCEPT !.state = "RUNNABLE"]
    BY <1>2 DEF wakeup1
  <2>2. "RUNNABLE" \in States
    BY DEF States
  <2> QED
    BY <1>1, <1>2, <2>1, <2>2, ProcFields
<1>3. CASE ~(t[s].state = "SLEEPING" /\ t[s].chan = ch)
  <2>1. wakeup1(t, ch)[s] = t[s]
    BY <1>3 DEF wakeup1
  <2> QED
    BY <1>1, <1>3, <2>1
<1> QED
  BY <1>2, <1>3

\* A table after a wakeup is a table.
LEMMA WokenTable ==
    ASSUME NEW t \in [Slots -> Proc], NEW ch
    PROVE  wakeup1(t, ch) \in [Slots -> Proc]
<1>1. \A s \in Slots : wakeup1(t, ch)[s] \in Proc
  BY Wakes
<1> QED
  BY <1>1 DEF wakeup1

\* The timer's wakeup, for everybody but the handler.
LEMMA TickWoken ==
    ASSUME IInv, NEW c \in Cpus, locked["ptable"] = 0, proc' = wakeup1(proc, TicksChan)
    PROVE  /\ proc' \in [Slots -> Proc]
           /\ \A s \in Slots :
                /\ proc'[s].parent = proc[s].parent /\ proc'[s].killed = proc[s].killed
                /\ proc'[s].chan = proc[s].chan
                /\ \/ proc'[s].state = proc[s].state
                   \/ proc[s].state = "SLEEPING" /\ proc'[s].state = "RUNNABLE"
<1>1. proc \in [Slots -> Proc]
  BY DEF IInv, TypeOK
<1> QED
  BY <1>1, Wakes, WokenTable

\* The handler wakes the sleepers, over a process.
LEMMA TickWakesInProcess ==
    ASSUME IInv, NEW c \in Cpus, NEW p \in Slots, Running(c, p), tickWakes(c)
    PROVE  IInv'
<1> DEFINE k == popcli(cpu[c])
           t == [thr[p] EXCEPT !.irq = "check"]
<1>1. TypeOK
  BY DEF IInv
<1>2. thr[p].irq = "wake" /\ thr[p].at \in Unlocked
  BY OnProcess DEF tickWakes, Irq, Combined
<1>3. /\ cpu[c].ncli = 1 /\ locked["ptable"] # c /\ locked["ticks"] = c
      /\ ~cpu[c].intena
  BY <1>2, AtTiming
<1>4. /\ k \in Cpu /\ k.proc = p /\ k.scan > 0 /\ k.irq = "none" /\ k.ncli = 0
      /\ k.on = "process" /\ ~k.fl
  <2>1. /\ cpu[c] \in Cpu /\ cpu[c].proc = p /\ cpu[c].scan > 0 /\ cpu[c].irq = "none"
        /\ cpu[c].on = "process"
    BY OnProcess
  <2> QED
    BY <1>3, <2>1, Popped
<1>5. /\ locked["ptable"] = 0 /\ locked' = [locked EXCEPT !["ticks"] = 0]
      /\ proc' = wakeup1(proc, TicksChan)
      /\ thr' = [thr EXCEPT ![p] = t]
      /\ cpu' = [cpu EXCEPT ![c] = k]
      /\ UNCHANGED <<nextpid, ticks, panic>>
  <2>1. /\ locked["ptable"] = 0 /\ locked' = [locked EXCEPT !["ticks"] = 0]
        /\ proc' = wakeup1(proc, TicksChan)
        /\ UNCHANGED <<nextpid, ticks, panic>>
    BY <1>3 DEF tickWakes, Section, release
  <2>2. SetIrq(c, k, "check")
    BY <1>3, <1>4 DEF tickWakes
  <2>3. thr' = [thr EXCEPT ![p] = t] /\ cpu' = [cpu EXCEPT ![c] = k]
    BY <1>4, <2>2 DEF SetIrq
  <2> QED
    BY <2>1, <2>3
<1> HIDE DEF k
<1>6. /\ t \in Thread /\ t.irq = "check" /\ t.at = thr[p].at /\ t.np = thr[p].np
      /\ t.n = thr[p].n /\ t.ticks0 = thr[p].ticks0 /\ t.elapsed = thr[p].elapsed
  <2>1. thr[p] \in Thread /\ "check" \in Handlers
    BY OnProcess DEF Handlers
  <2> QED
    BY <2>1, ThreadFields
<1> HIDE DEF t
<1>7. /\ thr' \in [Slots -> Thread] /\ thr'[p] = t
      /\ \A s \in Slots : s # p => thr'[s] = thr[s]
  BY <1>1, <1>5, <1>6 DEF TypeOK
<1>8. /\ cpu' \in [Cpus -> Cpu] /\ cpu'[c] = k
      /\ \A d \in Cpus : d # c => cpu'[d] = cpu[d]
  BY <1>1, <1>4, <1>5 DEF TypeOK
<1>9. /\ locked' \in [{"ptable", "ticks"} -> 0 .. NCPU] /\ c # 0
      /\ locked'["ticks"] = 0 /\ locked'["ptable"] = locked["ptable"]
  BY <1>1, <1>5, Constants DEF TypeOK, Cpus
<1>10. /\ proc' \in [Slots -> Proc]
       /\ \A s \in Slots :
            /\ proc'[s].parent = proc[s].parent /\ proc'[s].killed = proc[s].killed
            /\ proc'[s].chan = proc[s].chan
            /\ \/ proc'[s].state = proc[s].state
               \/ proc[s].state = "SLEEPING" /\ proc'[s].state = "RUNNABLE"
  BY <1>5, TickWoken
<1>11. TypeOK'
  BY <1>1, <1>5, <1>7, <1>8, <1>9, <1>10 DEF TypeOK
<1>12. proc'[p].state = "RUNNING"
  BY <1>10, OnProcess
<1>13. InUnlocked(c, p)'
  BY <1>2, <1>3, <1>4, <1>6, <1>7, <1>8, <1>9, <1>12 DEF InUnlocked, Combined
<1>14. \A s \in Slots : s # p => Kept(c, s)
  BY <1>5, <1>7, <1>10 DEF Kept
<1>15. StepOf(c)
  BY <1>3, <1>4, <1>5, <1>8, <1>9, <1>14, OnProcess DEF StepOf
<1>16. CpuInv' /\ Alone' /\ SlotInv'
  BY <1>13, <1>14, <1>15, Unlocks, Frame, OnProcess
<1>17. ForkKept
  BY <1>6, <1>7, <1>10 DEF ForkKept, Forking
<1>18. FamilyKept
  BY <1>6, <1>7, <1>10 DEF FamilyKept
<1>19. TimeKept
  BY <1>5, <1>6, <1>7 DEF TimeKept
<1>20. LocksNeverPanic'
  BY <1>5 DEF IInv, LocksNeverPanic
<1> QED
  BY <1>11, <1>16, <1>17, <1>18, <1>19, <1>20, ForkFrame, FamilyFrame, TimeFrame DEF IInv

\* The handler wakes the sleepers, over a scheduler.
LEMMA TickWakesInScheduler ==
    ASSUME IInv, NEW c \in Cpus, cpu[c].on # "process", tickWakes(c)
    PROVE  IInv'
<1> DEFINE j == popcli(cpu[c])
           k == [j EXCEPT !.fl = TRUE]
           y == [k EXCEPT !.irq = "none"]
<1>1. TypeOK
  BY DEF IInv
<1>2. cpu[c].irq = "wake" /\ cpu[c].on = "scheduler"
  BY <1>1, AtSched, Typed DEF tickWakes, Irq, Cpu
<1>3. /\ cpu[c] \in Cpu /\ cpu[c].proc = 0 /\ cpu[c].ncli = 1 /\ cpu[c].scan = 0
      /\ locked["ptable"] # c /\ locked["ticks"] = c
  <2>1. cpu[c] \in Cpu /\ cpu[c].scan \in Nat
    BY <1>1, Typed DEF Cpu
  <2> QED
    BY <1>2, <2>1, AtScheduler
<1>4. j \in Cpu /\ j.proc = 0 /\ j.scan = 0 /\ j.ncli = 0 /\ j.on = "scheduler"
  BY <1>2, <1>3, Popped
<1>5. k \in Cpu /\ k.proc = 0 /\ k.scan = 0 /\ k.ncli = 0 /\ k.on = "scheduler"
  BY <1>4, CpuFlag
<1>6. k.fl
  <2>1. k.fl = TRUE
    BY <1>4, CpuFlag
  <2> QED
    BY <2>1, Zenon
<1>7. /\ locked["ptable"] = 0 /\ locked' = [locked EXCEPT !["ticks"] = 0]
      /\ proc' = wakeup1(proc, TicksChan)
      /\ cpu' = [cpu EXCEPT ![c] = y]
      /\ UNCHANGED <<thr, nextpid, ticks, panic>>
  <2>1. /\ locked["ptable"] = 0 /\ locked' = [locked EXCEPT !["ticks"] = 0]
        /\ proc' = wakeup1(proc, TicksChan)
        /\ UNCHANGED <<nextpid, ticks, panic>>
    BY <1>3 DEF tickWakes, Section, release
  <2>2. SetIrq(c, k, "none")
    BY <1>3, <1>4 DEF tickWakes
  <2>3. UNCHANGED thr /\ cpu' = [cpu EXCEPT ![c] = y]
    BY <1>5, <2>2 DEF SetIrq
  <2> QED
    BY <2>1, <2>3
<1> HIDE DEF j, k
<1>8. /\ y \in Cpu /\ y.proc = 0 /\ y.scan = 0 /\ y.ncli = 0 /\ y.on = "scheduler"
      /\ y.irq = "none" /\ y.fl
  <2>1. /\ y \in Cpu /\ y.proc = 0 /\ y.scan = 0 /\ y.ncli = 0 /\ y.on = "scheduler"
        /\ y.irq = "none"
    BY <1>5, CpuIrq
  <2>2. y.fl = k.fl
    BY <1>5, CpuIrq
  <2>3. y.fl
    BY <1>6, <2>2, Zenon
  <2> QED
    BY <2>1, <2>3
<1> HIDE DEF y
<1>9. /\ cpu' \in [Cpus -> Cpu] /\ cpu'[c] = y
      /\ \A d \in Cpus : d # c => cpu'[d] = cpu[d]
  BY <1>1, <1>7, <1>8 DEF TypeOK
<1>10. /\ locked' \in [{"ptable", "ticks"} -> 0 .. NCPU] /\ c # 0
       /\ locked'["ticks"] = 0 /\ locked'["ptable"] = locked["ptable"]
  BY <1>1, <1>7, Constants DEF TypeOK, Cpus
<1>11. /\ proc' \in [Slots -> Proc]
       /\ \A s \in Slots :
            /\ proc'[s].parent = proc[s].parent /\ proc'[s].killed = proc[s].killed
            /\ proc'[s].chan = proc[s].chan
            /\ \/ proc'[s].state = proc[s].state
               \/ proc[s].state = "SLEEPING" /\ proc'[s].state = "RUNNABLE"
  BY <1>7, TickWoken
<1>12. TypeOK'
  BY <1>1, <1>7, <1>9, <1>10, <1>11 DEF TypeOK
<1>13. InScheduler(c)'
  BY <1>3, <1>8, <1>9, <1>10 DEF InScheduler
<1>14. \A s \in Slots : Kept(c, s) /\ s # cpu[c].proc
  BY <1>3, <1>7, <1>11, Constants DEF Kept, Slots
<1>15. StepOf(c)
  BY <1>3, <1>7, <1>8, <1>9, <1>10, <1>14 DEF StepOf
<1>16. CpuInv' /\ Alone' /\ SlotInv'
  BY <1>13, <1>14, <1>15, Schedules, Frame
<1>17. ForkKept
  BY <1>7, <1>11 DEF ForkKept, Forking
<1>18. FamilyKept
  BY <1>7, <1>11 DEF FamilyKept
<1>19. TimeKept
  BY <1>7 DEF TimeKept
<1>20. LocksNeverPanic'
  BY <1>7 DEF IInv, LocksNeverPanic
<1> QED
  BY <1>12, <1>16, <1>17, <1>18, <1>19, <1>20, ForkFrame, FamilyFrame, TimeFrame DEF IInv

-----------------------------------------------------------------------------
(* The scheduler *)

\* A thread back on a CPU, with ptable.lock held by the switch.
InSwitched(c, p) ==
    /\ cpu[c].on = "process" /\ cpu[c].proc = p
    /\ cpu[c].scan > 0 /\ cpu[c].irq = "none"
    /\ cpu[c].ncli = 1 /\ ~cpu[c].fl
    /\ locked["ptable"] = c /\ locked["ticks"] # c
    /\ proc[p].state = "RUNNING"
    /\ Combined(thr[p]) /\ Saved(thr[p], thr[p].intena)
    /\ \/ thr[p].irq = "yielded"
       \/ thr[p].irq = "none" /\ thr[p].at \in Switched \cup {"forkret"}

\* A step that ends with a thread back on a CPU ends well.
LEMMA Switches ==
    ASSUME NEW c \in Cpus, NEW p \in Slots, InSwitched(c, p)'
    PROVE  LocksExact(c)' /\ Carries(c)' /\ SlotOK(p)'
<1>1. LocksExact(c)'
  BY DEF InSwitched, LocksExact, HoldsTable, HoldsTicks, Irq, Switched, Timing, Combined, Unlocked
<1>2. Carries(c)'
  BY DEF InSwitched, Carries, Timing, Switched
<1>3. SlotOK(p)'
  BY DEF InSwitched, SlotOK, Carried
<1> QED
  BY <1>1, <1>2, <1>3

\* Whoever can take ptable.lock sees no other CPU in a switch: a process that
\* does not run is on no CPU.
LEMMA OnNoCpu ==
    ASSUME IInv, NEW c \in Cpus, locked["ptable"] \in {0, c}, cpu[c].on # "sched",
           NEW s \in Slots, s # cpu[c].proc, proc[s].state # "RUNNING"
    PROVE  ~Carried(s) /\ ~Leaving(s)
<1> SUFFICES ASSUME NEW d \in Cpus, cpu[d].proc = s
             PROVE  FALSE
  BY DEF Carried, Leaving
<1>1. LocksExact(d) /\ Carries(d) /\ d # c /\ s # 0 /\ d # 0
  BY Constants DEF IInv, CpuInv, Slots, Cpus
<1>2. cpu[d].on = "sched"
  BY <1>1, Typed DEF Carries, Cpu, IInv
<1> QED
  BY <1>1, <1>2 DEF LocksExact, HoldsTable

\* The scheduler switches to a process.
LEMMA Runs ==
    ASSUME IInv, NEW c \in Cpus, NEW q \in Slots, proc[q].state = "RUNNABLE",
           cpu[c].on = "scheduler", locked["ptable"] \in {0, c}, locked["ticks"] # c,
           NEW k \in Cpu, k.ncli = 1, ~k.fl, k.irq = "none",
           run(c, k, q), locked' = [locked EXCEPT !["ptable"] = c],
           UNCHANGED <<thr, nextpid, ticks, panic>>
    PROVE  IInv'
<1> DEFINE a == [k EXCEPT !.proc = q]
           b == [a EXCEPT !.on = "process"]
           y == [b EXCEPT !.scan = q + 1]
           r == [proc[q] EXCEPT !.state = "RUNNING"]
<1>1. TypeOK /\ SlotOK(q)
  BY DEF IInv, SlotInv
<1>2. cpu[c].proc = 0 /\ q # 0 /\ c # 0
  BY AtScheduler, Constants DEF Slots, Cpus
<1>3. ~Carried(q) /\ ~Leaving(q)
  BY <1>2, OnNoCpu
<1>4. cpu' = [cpu EXCEPT ![c] = y] /\ proc' = [proc EXCEPT ![q] = r]
  BY DEF run
<1>5. /\ a \in Cpu /\ a.proc = q /\ a.irq = "none" /\ a.ncli = 1 /\ ~a.fl
  <2>1. q \in 0 .. NPROC
    BY Constants DEF Slots
  <2> QED
    BY <2>1 DEF Cpu
<1> HIDE DEF a
<1>6. b \in Cpu /\ b.proc = q /\ b.irq = "none" /\ b.ncli = 1 /\ b.on = "process" /\ ~b.fl
  BY <1>5, CpuOn
<1> HIDE DEF b
<1>7. /\ y \in Cpu /\ y.proc = q /\ y.irq = "none" /\ y.ncli = 1 /\ y.on = "process"
      /\ ~y.fl /\ y.scan > 0
  <2>1. q + 1 \in 0 .. NPROC + 1 /\ q + 1 > 0
    BY Constants DEF Slots
  <2> QED
    BY <2>1, <1>6 DEF Cpu
<1> HIDE DEF y
<1>8. /\ r \in Proc /\ r.state = "RUNNING" /\ r.parent = proc[q].parent
  <2>1. proc[q] \in Proc /\ "RUNNING" \in States
    BY <1>1 DEF TypeOK, States
  <2> QED
    BY <2>1, ProcFields
<1> HIDE DEF r
<1>9. /\ cpu' \in [Cpus -> Cpu] /\ cpu'[c] = y
      /\ \A d \in Cpus : d # c => cpu'[d] = cpu[d]
  BY <1>1, <1>4, <1>7 DEF TypeOK
<1>10. /\ proc' \in [Slots -> Proc] /\ proc'[q] = r
       /\ \A s \in Slots : s # q => proc'[s] = proc[s]
  BY <1>1, <1>4, <1>8 DEF TypeOK
<1>11. /\ locked' \in [{"ptable", "ticks"} -> 0 .. NCPU]
       /\ locked'["ptable"] = c /\ locked'["ticks"] = locked["ticks"]
  BY <1>1, Constants DEF TypeOK, Cpus
<1>12. TypeOK'
  BY <1>1, <1>9, <1>10, <1>11 DEF TypeOK
<1>13. InSwitched(c, q)'
  BY <1>1, <1>3, <1>7, <1>8, <1>9, <1>10, <1>11 DEF InSwitched, SlotOK
<1>14. \A s \in Slots : s # q => Kept(c, s)
  BY <1>10 DEF Kept
<1>15. StepOf(c)
  BY <1>3, <1>7, <1>9, <1>11, <1>14 DEF StepOf
<1>16. CpuInv' /\ Alone' /\ SlotInv'
  <2>1. \A s \in Slots : s = cpu[c].proc \/ ~Kept(c, s) => SlotOK(s)'
    <3>1. \A s \in Slots : s # 0
      BY Constants DEF Slots
    <3> QED
      BY <1>2, <1>13, <1>14, <3>1, Switches
  <2> QED
    BY <1>13, <1>15, <2>1, Switches, Frame
<1>17. ForkKept
  BY <1>10 DEF ForkKept, Forking
<1>18. FamilyKept
  BY <1>8, <1>10 DEF FamilyKept
<1>19. TimeKept
  BY DEF TimeKept
<1>20. LocksNeverPanic'
  BY DEF IInv, LocksNeverPanic
<1> QED
  BY <1>12, <1>16, <1>17, <1>18, <1>19, <1>20, ForkFrame, FamilyFrame, TimeFrame DEF IInv

\* The first process the scheduler finds.
LEMMA ReadyFirst ==
    ASSUME NEW from \in Nat, Ready(from) # {}
    PROVE  Min(Ready(from)) \in Slots /\ proc[Min(Ready(from))].state = "RUNNABLE"
<1>1. Ready(from) \subseteq Nat
  BY Constants DEF Ready, Slots
<1>2. Min(Ready(from)) \in Ready(from)
  BY <1>1, MinIn
<1> QED
  BY <1>2 DEF Ready

\* A pass over the table begins.
LEMMA SchedulerStarts ==
    ASSUME IInv, NEW c \in Cpus, scheduler(c)
    PROVE  IInv'
<1> DEFINE k == pushcli(cpu[c])
           q == Min(Ready(1))
<1>1. /\ cpu[c].on = "scheduler" /\ cpu[c].scan = 0 /\ cpu[c].irq = "none"
      /\ Ready(1) # {} /\ locked["ptable"] = 0
      /\ locked' = [locked EXCEPT !["ptable"] = c] /\ run(c, k, q)
      /\ UNCHANGED <<thr, nextpid, ticks, panic>>
  BY DEF scheduler, acquire
<1>2. cpu[c] \in Cpu /\ cpu[c].ncli = 0 /\ locked["ticks"] # c
  BY <1>1, AtScheduler
<1>3. k \in Cpu /\ k.ncli = 1 /\ ~k.fl /\ k.irq = "none"
  BY <1>1, <1>2, Pushed
<1>4. q \in Slots /\ proc[q].state = "RUNNABLE"
  BY <1>1, ReadyFirst
<1> HIDE DEF k, q
<1> QED
  BY <1>1, <1>2, <1>3, <1>4, Runs

\* A pass goes on, or ends.
LEMMA SchedulerContinues ==
    ASSUME IInv, NEW c \in Cpus, schedulerGoesOn(c)
    PROVE  IInv'
<1>1. TypeOK
  BY DEF IInv
<1>2. /\ cpu[c].on = "scheduler" /\ cpu[c].scan > 0 /\ cpu[c] \in Cpu
      /\ UNCHANGED <<thr, nextpid, ticks, panic>>
  BY <1>1, Typed DEF schedulerGoesOn
<1>3. /\ cpu[c].proc = 0 /\ cpu[c].ncli = 1 /\ cpu[c].irq = "none" /\ ~cpu[c].fl
      /\ locked["ptable"] = c /\ locked["ticks"] # c
  <2>1. ~(cpu[c].scan = 0)
    BY <1>2
  <2> QED
    BY <1>2, <2>1, AtScheduler
<1>4. CASE Ready(cpu[c].scan) # {}
  <2> DEFINE q == Min(Ready(cpu[c].scan))
  <2>1. run(c, cpu[c], q) /\ UNCHANGED locked
    BY <1>4 DEF schedulerGoesOn
  <2>2. q \in Slots /\ proc[q].state = "RUNNABLE"
    <3>1. cpu[c].scan \in Nat
      BY <1>2 DEF Cpu
    <3> QED
      BY <1>4, <3>1, ReadyFirst
  <2> HIDE DEF q
  <2>3. locked' = [locked EXCEPT !["ptable"] = c]
    BY <1>1, <1>3, <2>1 DEF TypeOK
  <2> QED
    BY <1>2, <1>3, <2>1, <2>2, <2>3, Runs
<1>5. CASE Ready(cpu[c].scan) = {}
  <2> DEFINE j == popcli(cpu[c])
             k == [j EXCEPT !.scan = 0]
             y == [k EXCEPT !.fl = TRUE]
  <2>1. /\ locked' = [locked EXCEPT !["ptable"] = 0] /\ UNCHANGED proc
        /\ cpu' = [cpu EXCEPT ![c] = [j EXCEPT !.scan = 0, !.fl = TRUE]]
    BY <1>5 DEF schedulerGoesOn, release
  <2>2. cpu' = [cpu EXCEPT ![c] = y]
    BY <2>1
  <2>3. /\ j \in Cpu /\ j.proc = 0 /\ j.ncli = 0 /\ j.irq = "none" /\ j.on = "scheduler"
    BY <1>2, <1>3, Popped
  <2> HIDE DEF j
  <2>4. /\ k \in Cpu /\ k.proc = 0 /\ k.ncli = 0 /\ k.irq = "none" /\ k.on = "scheduler"
        /\ k.scan = 0
    BY <2>3, Constants DEF Cpu
  <2> HIDE DEF k
  <2>5. /\ y \in Cpu /\ y.proc = 0 /\ y.ncli = 0 /\ y.irq = "none" /\ y.on = "scheduler"
        /\ y.scan = 0
    BY <2>4, CpuFlag
  <2>6. y.fl
    <3>1. y.fl = TRUE
      BY <2>4, CpuFlag
    <3> QED
      BY <3>1, Zenon
  <2> HIDE DEF y
  <2>7. /\ cpu' \in [Cpus -> Cpu] /\ cpu'[c] = y
        /\ \A d \in Cpus : d # c => cpu'[d] = cpu[d]
    BY <1>1, <2>2, <2>5 DEF TypeOK
  <2>8. /\ locked' \in [{"ptable", "ticks"} -> 0 .. NCPU] /\ c # 0
        /\ locked'["ptable"] = 0 /\ locked'["ticks"] = locked["ticks"]
    BY <1>1, <2>1, Constants DEF TypeOK, Cpus
  <2>9. TypeOK'
    BY <1>1, <1>2, <2>1, <2>7, <2>8 DEF TypeOK
  <2>10. InScheduler(c)'
    BY <1>3, <2>5, <2>6, <2>7, <2>8 DEF InScheduler
  <2>11. \A s \in Slots : Kept(c, s) /\ s # cpu[c].proc
    BY <1>2, <1>3, <2>1, Constants DEF Kept, Slots
  <2>12. StepOf(c)
    BY <1>3, <2>5, <2>7, <2>8, <2>11 DEF StepOf
  <2>13. CpuInv' /\ Alone' /\ SlotInv'
    BY <2>10, <2>11, <2>12, Schedules, Frame
  <2>14. ForkKept /\ FamilyKept /\ TimeKept
    BY <1>2, <2>1 DEF ForkKept, FamilyKept, TimeKept, Forking
  <2>15. LocksNeverPanic'
    BY <1>2 DEF IInv, LocksNeverPanic
  <2> QED
    BY <2>9, <2>13, <2>14, <2>15, ForkFrame, FamilyFrame, TimeFrame DEF IInv
<1> QED
  BY <1>4, <1>5

-----------------------------------------------------------------------------
(* kill and fork *)

\* What kill does to the table.
LEMMA KillMarks ==
    ASSUME NEW t \in [Slots -> Proc], NEW f \in Slots
    PROVE  /\ killWakes(t, f) \in [Slots -> Proc]
           /\ \A s \in Slots :
                /\ killWakes(t, f)[s].parent = t[s].parent
                /\ killWakes(t, f)[s].chan = t[s].chan
                /\ \/ killWakes(t, f)[s].state = t[s].state
                   \/ t[s].state = "SLEEPING" /\ killWakes(t, f)[s].state = "RUNNABLE"
                /\ killWakes(t, f)[s].state = "SLEEPING" =>
                     killWakes(t, f)[s].killed = t[s].killed
<1> DEFINE x == IF t[f].state = "SLEEPING" THEN "RUNNABLE" ELSE t[f].state
           a == [t[f] EXCEPT !.killed = TRUE]
           b == [a EXCEPT !.state = x]
<1>1. t[f] \in Proc
  OBVIOUS
<1>2. x \in States /\ x # "SLEEPING"
  BY <1>1 DEF Proc, States
<1>3. killWakes(t, f) = [t EXCEPT ![f] = b]
  BY <1>1 DEF killWakes, Proc
<1>4. \/ x = t[f].state
      \/ t[f].state = "SLEEPING" /\ x = "RUNNABLE"
  BY Zenon
<1> HIDE DEF x
<1>5. a \in Proc /\ a.parent = t[f].parent /\ a.chan = t[f].chan
  BY <1>1 DEF Proc
<1> HIDE DEF a
<1>6. b \in Proc /\ b.parent = t[f].parent /\ b.chan = t[f].chan /\ b.state = x
  BY <1>2, <1>5, ProcFields
<1> HIDE DEF b
<1>7. /\ killWakes(t, f) \in [Slots -> Proc] /\ killWakes(t, f)[f] = b
      /\ \A s \in Slots : s # f => killWakes(t, f)[s] = t[s]
  BY <1>3, <1>6
<1> QED
  BY <1>2, <1>4, <1>6, <1>7

\* kill, of oneself too.
LEMMA Kills ==
    ASSUME IInv, NEW c \in Cpus, NEW p \in Slots, kill(c, p)
    PROVE  IInv'
<1>1. TypeOK
  BY DEF IInv
<1>2. Running(c, p) /\ thr[p].at = "user" /\ thr[p].irq = "none"
  BY OnProcess DEF kill, Calling, At, Combined
<1>3. cpu[c].ncli = 0 /\ locked["ptable"] # c /\ locked["ticks"] # c /\ cpu[c].fl
  BY <1>2, AtUnlocked DEF Unlocked
<1>4. /\ locked["ptable"] = 0 /\ Returns(p, 0)
      /\ UNCHANGED <<cpu, locked, nextpid, ticks, panic>>
  BY DEF kill, Section
<1>5. /\ proc' \in [Slots -> Proc]
      /\ \A s \in Slots :
           /\ proc'[s].parent = proc[s].parent
           /\ proc'[s].chan = proc[s].chan
           /\ \/ proc'[s].state = proc[s].state
              \/ proc[s].state = "SLEEPING" /\ proc'[s].state = "RUNNABLE"
           /\ proc'[s].state = "SLEEPING" => proc'[s].killed = proc[s].killed
  <2>1. PICK pid \in KillArgs :
          proc' = IF {s \in Slots : proc[s].pid = pid} = {} THEN proc
                  ELSE killWakes(proc, Min({s \in Slots : proc[s].pid = pid}))
    BY DEF kill
  <2> DEFINE found == {s \in Slots : proc[s].pid = pid}
  <2>2. proc \in [Slots -> Proc]
    BY <1>1 DEF TypeOK
  <2>3. CASE found = {}
    BY <2>1, <2>2, <2>3
  <2>4. CASE found # {}
    <3>1. found \subseteq Slots /\ Slots \subseteq Nat
      BY Constants DEF Slots
    <3>2. Min(found) \in found
      BY <2>4, <3>1, MinIn
    <3>3. \E f \in Slots : proc' = killWakes(proc, f)
      BY <2>1, <2>4, <3>2
    <3>4. PICK f \in Slots : proc' = killWakes(proc, f)
      BY <3>3
    <3> QED
      BY <2>2, <3>4, KillMarks
  <2> QED
    BY <2>3, <2>4
<1>6. /\ thr' \in [Slots -> Thread] /\ thr'[p].at = "ret" /\ thr'[p].irq = "none"
      /\ thr'[p].n = 0 /\ thr'[p].elapsed = 0
      /\ \A s \in Slots : s # p => thr'[s] = thr[s]
  BY <1>1, <1>4, Returned
<1>7. TypeOK'
  BY <1>1, <1>4, <1>5, <1>6 DEF TypeOK
<1>8. proc'[p].state = "RUNNING"
  BY <1>2, <1>5, OnProcess
<1>9. InUnlocked(c, p)'
  BY <1>2, <1>3, <1>4, <1>6, <1>8, OnProcess DEF InUnlocked, Combined, Unlocked
<1>10. \A s \in Slots : s # p => Kept(c, s)
  BY <1>4, <1>5, <1>6 DEF Kept
<1>11. StepOf(c)
  BY <1>2, <1>4, <1>10, OnProcess DEF StepOf
<1>12. CpuInv' /\ Alone' /\ SlotInv'
  BY <1>2, <1>9, <1>10, <1>11, Unlocks, Frame, OnProcess
<1>13. ForkKept
  BY <1>5, <1>6 DEF ForkKept, Forking
<1>14. FamilyKept
  BY <1>5, <1>6 DEF FamilyKept
<1>15. TimeKept
  BY <1>4, <1>6 DEF TimeKept
<1>16. LocksNeverPanic'
  BY <1>4 DEF IInv, LocksNeverPanic
<1> QED
  BY <1>7, <1>12, <1>13, <1>14, <1>15, <1>16, ForkFrame, FamilyFrame, TimeFrame DEF IInv

\* A slot that holds no process, or one in the making, is on no CPU.
LEMMA NewOnNoCpu ==
    ASSUME IInv, NEW s \in Slots, proc[s].state \in {"UNUSED", "EMBRYO"}
    PROVE  ~Carried(s) /\ ~Leaving(s) /\ Fresh(s) /\ s # Init0 /\ s # 0
<1>1. ASSUME NEW d \in Cpus, cpu[d].proc = s
      PROVE  FALSE
  <2>1. Carries(d) /\ s # 0
    BY Constants DEF IInv, CpuInv, Slots
  <2>2. cpu[d].on = "sched" \/ cpu[d].on = "process"
    BY <1>1, <2>1, Typed DEF Carries, Cpu, IInv
  <2> QED
    BY <1>1, <2>1, <2>2 DEF Carries
<1> QED
  BY <1>1, Constants DEF Carried, Leaving, IInv, SlotInv, SlotOK, ParentInv, Alive, Slots

\* allocproc finds a slot, or none.
LEMMA Allocates ==
    ASSUME IInv, NEW c \in Cpus, NEW p \in Slots, allocproc(c, p)
    PROVE  IInv'
<1> DEFINE free == {s \in Slots : proc[s].state = "UNUSED"}
<1>1. TypeOK /\ TimeInv /\ ForkInv /\ ParentInv
  BY DEF IInv
<1>2. Running(c, p) /\ thr[p].at = "user" /\ thr[p].irq = "none"
  BY OnProcess DEF allocproc, Calling, At, Combined
<1>3. cpu[c].ncli = 0 /\ locked["ptable"] # c /\ locked["ticks"] # c /\ cpu[c].fl
  BY <1>2, AtUnlocked DEF Unlocked
<1>4. UNCHANGED <<cpu, locked, ticks, panic>>
  BY DEF allocproc
<1>5. CASE free = {}
  <2>1. Returns(p, -1) /\ UNCHANGED <<proc, nextpid>>
    BY <1>5 DEF allocproc
  <2>2. /\ thr' \in [Slots -> Thread] /\ thr'[p].at = "ret" /\ thr'[p].irq = "none"
        /\ thr'[p].n = 0 /\ thr'[p].elapsed = 0
        /\ \A s \in Slots : s # p => thr'[s] = thr[s]
    BY <1>1, <2>1, Returned
  <2>3. TypeOK'
    BY <1>1, <1>4, <2>1, <2>2 DEF TypeOK
  <2>4. Local(c, p)
    BY <1>2, <1>4, <2>1, <2>2, OnProcess DEF Local
  <2>5. InUnlocked(c, p)'
    BY <1>2, <1>3, <1>4, <2>1, <2>2, OnProcess DEF InUnlocked, Combined, Unlocked
  <2> QED
    BY <1>2, <2>3, <2>4, <2>5, LocalFrame, Unlocks, OnProcess
<1>6. CASE free # {}
  <2>1. \E q \in Slots :
          /\ proc[q].state = "UNUSED"
          /\ proc' = [proc EXCEPT ![q].state = "EMBRYO", ![q].pid = nextpid]
          /\ nextpid' = nextpid + 1
          /\ thr' = [thr EXCEPT ![p].at = "copy", ![p].np = q]
    <3>1. free \subseteq Slots /\ Slots \subseteq Nat
      BY Constants DEF Slots
    <3>2. Min(free) \in free
      BY <1>6, <3>1, MinIn
    <3>3. /\ proc' = [proc EXCEPT ![Min(free)].state = "EMBRYO", ![Min(free)].pid = nextpid]
          /\ nextpid' = nextpid + 1
          /\ thr' = [thr EXCEPT ![p].at = "copy", ![p].np = Min(free)]
      BY <1>6, Zenon DEF allocproc
    <3> QED
      BY <3>2, <3>3, Zenon
  <2>2. PICK q \in Slots :
          /\ proc[q].state = "UNUSED"
          /\ proc' = [proc EXCEPT ![q].state = "EMBRYO", ![q].pid = nextpid]
          /\ nextpid' = nextpid + 1
          /\ thr' = [thr EXCEPT ![p].at = "copy", ![p].np = q]
    BY <2>1
  <2> DEFINE a == [proc[q] EXCEPT !.state = "EMBRYO"]
             b == [a EXCEPT !.pid = nextpid]
             t == [thr[p] EXCEPT !.at = "copy"]
             u == [t EXCEPT !.np = q]
  <2>3. a \in Proc /\ a.state = "EMBRYO" /\ a.parent = proc[q].parent
    BY <1>1 DEF TypeOK, Proc, States
  <2> HIDE DEF a
  <2>4. b \in Proc /\ b.state = "EMBRYO" /\ b.parent = proc[q].parent
    BY <1>1, <2>3 DEF TypeOK, Proc
  <2> HIDE DEF b
  <2>5. proc' = [proc EXCEPT ![q] = b]
    BY <1>1, <2>2 DEF a, b, TypeOK
  <2>6. /\ proc' \in [Slots -> Proc] /\ proc'[q] = b
        /\ \A s \in Slots : s # q => proc'[s] = proc[s]
    BY <1>1, <2>4, <2>5 DEF TypeOK
  <2>7. /\ t \in Thread /\ t.at = "copy" /\ t.irq = "none" /\ t.n = thr[p].n
        /\ t.elapsed = thr[p].elapsed
    BY <1>1, <1>2 DEF TypeOK, Thread, Places, Unlocked
  <2> HIDE DEF t
  <2>8. /\ u \in Thread /\ u.at = "copy" /\ u.irq = "none" /\ u.n = thr[p].n
        /\ u.elapsed = thr[p].elapsed /\ u.np = q
    <3>1. q \in 0 .. NPROC
      BY Constants DEF Slots
    <3> QED
      BY <3>1, <2>7 DEF Thread
  <2> HIDE DEF u
  <2>9. thr' = [thr EXCEPT ![p] = u]
    BY <1>1, <2>2 DEF t, u, TypeOK
  <2>10. /\ thr' \in [Slots -> Thread] /\ thr'[p] = u
         /\ \A s \in Slots : s # p => thr'[s] = thr[s]
    BY <1>1, <2>8, <2>9 DEF TypeOK
  <2>11. TypeOK'
    BY <1>1, <1>4, <2>2, <2>6, <2>10 DEF TypeOK
  <2>12. q # p /\ ~Carried(q) /\ ~Leaving(q) /\ Fresh(q)
    BY <1>2, <2>2, NewOnNoCpu, OnProcess
  <2>13. InUnlocked(c, p)'
    BY <1>2, <1>3, <1>4, <2>6, <2>8, <2>10, <2>12, OnProcess DEF InUnlocked, Combined, Unlocked
  <2>14. SlotOK(q)'
    BY <2>4, <2>6, <2>10, <2>12 DEF SlotOK, Fresh, Combined, Saved, Switched
  <2>15. \A s \in Slots : s # p /\ s # q => Kept(c, s)
    BY <2>6, <2>10 DEF Kept
  <2>16. StepOf(c)
    BY <1>2, <1>4, <2>12, <2>15, OnProcess DEF StepOf
  <2>17. CpuInv' /\ Alone' /\ SlotInv'
    <3>1. cpu[c].proc = p
      BY <1>2, OnProcess
    <3> QED
      BY <2>13, <2>14, <2>15, <2>16, <3>1, Unlocks, Frame
  <2>18. ForkInv'
    BY <1>1, <1>2, <2>2, <2>4, <2>6, <2>8, <2>10 DEF ForkInv, Forking, ParentInv
  <2>19. FamilyKept
    BY <1>2, <2>2, <2>4, <2>6, <2>8, <2>10 DEF FamilyKept
  <2>20. TimeKept
    BY <1>1, <1>2, <1>4, <2>8, <2>10 DEF TimeKept, TimeInv, InSleep
  <2>21. LocksNeverPanic'
    BY <1>4 DEF IInv, LocksNeverPanic
  <2> QED
    BY <2>11, <2>17, <2>18, <2>19, <2>20, <2>21, FamilyFrame, TimeFrame DEF IInv
<1> QED
  BY <1>5, <1>6

\* The slot a fork is filling.
LEMMA InFork ==
    ASSUME IInv, NEW c \in Cpus, NEW p \in Slots, Running(c, p), Forking(p),
           thr[p].irq \in {"none", "exits"}
    PROVE  /\ thr[p].np \in Slots /\ thr[p].np # p /\ thr[p].np # Init0
           /\ thr[p].irq = "none" /\ thr[p].n = 0 /\ thr[p].elapsed = 0
           /\ proc[thr[p].np].state = "EMBRYO" /\ proc[thr[p].np] \in Proc
           /\ proc[thr[p].np].parent = IF thr[p].at = "copy" THEN 0 ELSE p
           /\ ~Carried(thr[p].np) /\ ~Leaving(thr[p].np) /\ Fresh(thr[p].np)
           /\ cpu[c].ncli = 0 /\ locked["ptable"] # c /\ locked["ticks"] # c /\ cpu[c].fl
<1>1. TypeOK /\ ForkInv /\ TimeInv
  BY DEF IInv
<1>2. thr[p].at \in {"copy", "forked"}
  BY DEF Forking
<1>3. thr[p].irq = "none"
  BY <1>2, OnProcess DEF Combined
<1>4. /\ thr[p].np \in Slots /\ proc[thr[p].np].state = "EMBRYO"
      /\ proc[thr[p].np].parent = IF thr[p].at = "copy" THEN 0 ELSE p
  BY <1>1 DEF ForkInv
<1>5. thr[p].np # p /\ proc[thr[p].np] \in Proc
  BY <1>1, <1>4, OnProcess DEF TypeOK
<1>6. thr[p].n = 0 /\ thr[p].elapsed = 0
  BY <1>1, <1>2 DEF TimeInv, InSleep
<1>7. cpu[c].ncli = 0 /\ locked["ptable"] # c /\ locked["ticks"] # c /\ cpu[c].fl
  BY <1>2, <1>3, AtUnlocked DEF Unlocked
<1> QED
  BY <1>3, <1>4, <1>5, <1>6, <1>7, NewOnNoCpu

\* The fork of p is over, one way or the other, and the others go on.
LEMMA ForkEnds ==
    ASSUME IInv, NEW p \in Slots, Forking(p), ~Forking(p)',
           \A q \in Slots : q # p => thr'[q] = thr[q],
           \A s \in Slots : s # thr[p].np => proc'[s] = proc[s]
    PROVE  ForkInv'
<1>1. ForkInv
  BY DEF IInv
<1> QED
  BY <1>1 DEF ForkInv, Forking

\* fork gives its slot back, without ptable.lock.
LEMMA ForkFails ==
    ASSUME IInv, NEW c \in Cpus, NEW p \in Slots, forkFails(c, p)
    PROVE  IInv'
<1>1. TypeOK
  BY DEF IInv
<1>2. Running(c, p) /\ Forking(p) /\ thr[p].at = "copy" /\ thr[p].irq \in {"none", "exits"}
  BY DEF forkFails, At, Forking
<1>3. PICK q \in Slots : q = thr[p].np
  BY <1>2, InFork
<1>4. /\ q # p /\ thr[p].irq = "none" /\ proc[q].state = "EMBRYO" /\ proc[q] \in Proc
      /\ proc[q].parent = 0 /\ ~Carried(q) /\ ~Leaving(q) /\ Fresh(q)
      /\ cpu[c].ncli = 0 /\ locked["ptable"] # c /\ locked["ticks"] # c /\ cpu[c].fl
  BY <1>2, <1>3, InFork
<1> DEFINE a == [proc[q] EXCEPT !.state = "UNUSED"]
<1>5. /\ proc' = [proc EXCEPT ![q] = a] /\ Returns(p, -1)
      /\ UNCHANGED <<cpu, locked, nextpid, ticks, panic>>
  BY <1>3 DEF forkFails
<1>6. a \in Proc /\ a.state = "UNUSED" /\ a.parent = proc[q].parent
  BY <1>4, ProcFields DEF States
<1> HIDE DEF a
<1>7. /\ proc' \in [Slots -> Proc] /\ proc'[q] = a
      /\ \A s \in Slots : s # q => proc'[s] = proc[s]
  BY <1>1, <1>5, <1>6 DEF TypeOK
<1>8. /\ thr' \in [Slots -> Thread] /\ thr'[p].at = "ret" /\ thr'[p].irq = "none"
      /\ thr'[p].n = 0 /\ thr'[p].elapsed = 0
      /\ \A s \in Slots : s # p => thr'[s] = thr[s]
  BY <1>1, <1>5, Returned
<1>9. TypeOK'
  BY <1>1, <1>5, <1>7, <1>8 DEF TypeOK
<1>10. InUnlocked(c, p)'
  BY <1>2, <1>4, <1>5, <1>7, <1>8, OnProcess DEF InUnlocked, Combined, Unlocked
<1>11. SlotOK(q)'
  BY <1>4, <1>6, <1>7, <1>8 DEF SlotOK, Fresh, Combined, Saved, Switched
<1>12. \A s \in Slots : s # p /\ s # q => Kept(c, s)
  BY <1>7, <1>8 DEF Kept
<1>13. StepOf(c)
  BY <1>2, <1>4, <1>5, <1>12, OnProcess DEF StepOf
<1>14. CpuInv' /\ Alone' /\ SlotInv'
  <2>1. cpu[c].proc = p
    BY <1>2, OnProcess
  <2> QED
    BY <1>10, <1>11, <1>12, <1>13, <2>1, Unlocks, Frame
<1>15. ForkInv'
  BY <1>2, <1>3, <1>7, <1>8, ForkEnds DEF Forking
<1>16. FamilyKept
  BY <1>4, <1>6, <1>7, <1>8 DEF FamilyKept
<1>17. TimeKept
  BY <1>5, <1>8 DEF TimeKept
<1>18. LocksNeverPanic'
  BY <1>5 DEF IInv, LocksNeverPanic
<1> QED
  BY <1>9, <1>14, <1>15, <1>16, <1>17, <1>18, FamilyFrame, TimeFrame DEF IInv

\* fork sets the parent and the stack of the child.
LEMMA ForkCopies ==
    ASSUME IInv, NEW c \in Cpus, NEW p \in Slots, forkCopies(c, p)
    PROVE  IInv'
<1>1. TypeOK /\ ForkInv /\ ParentInv /\ ParentsWait
  BY DEF IInv
<1>2. Running(c, p) /\ Forking(p) /\ thr[p].at = "copy" /\ thr[p].irq \in {"none", "exits"}
  BY DEF forkCopies, At, Forking
<1>3. PICK q \in Slots : q = thr[p].np
  BY <1>2, InFork
<1>4. /\ q # p /\ q # Init0 /\ thr[p].irq = "none" /\ proc[q].state = "EMBRYO"
      /\ proc[q] \in Proc
      /\ proc[q].parent = 0 /\ ~Carried(q) /\ ~Leaving(q) /\ Fresh(q)
      /\ cpu[c].ncli = 0 /\ locked["ptable"] # c /\ locked["ticks"] # c /\ cpu[c].fl
      /\ thr[p].n = 0 /\ thr[p].elapsed = 0
  BY <1>2, <1>3, InFork
<1> DEFINE a == [proc[q] EXCEPT !.parent = p]
           t == [thr[p] EXCEPT !.at = "forked"]
<1>5. /\ proc' = [proc EXCEPT ![q] = a]
      /\ thr' = [thr EXCEPT ![p].at = "forked", ![q] = NewThread]
      /\ UNCHANGED <<cpu, locked, nextpid, ticks, panic>>
  BY <1>3 DEF forkCopies
<1>6. a \in Proc /\ a.state = "EMBRYO" /\ a.parent = p
  <2>1. p \in 0 .. NPROC
    BY Constants DEF Slots
  <2> QED
    BY <1>4, <2>1, ProcFields
<1> HIDE DEF a
<1>7. /\ proc' \in [Slots -> Proc] /\ proc'[q] = a
      /\ \A s \in Slots : s # q => proc'[s] = proc[s]
  BY <1>1, <1>5, <1>6 DEF TypeOK
<1>8. /\ t \in Thread /\ t.at = "forked" /\ t.irq = "none" /\ t.np = q
      /\ t.n = 0 /\ t.elapsed = 0
  BY <1>1, <1>3, <1>4 DEF TypeOK, Thread, Places, Unlocked
<1>9. /\ thr' \in [Slots -> Thread] /\ thr'[p] = t /\ thr'[q] = NewThread
      /\ \A s \in Slots : s # p /\ s # q => thr'[s] = thr[s]
  BY <1>1, <1>4, <1>5, <1>8, NewThreads DEF TypeOK
<1> HIDE DEF t
<1>10. TypeOK'
  BY <1>1, <1>5, <1>7, <1>9 DEF TypeOK
<1>11. InUnlocked(c, p)'
  BY <1>2, <1>4, <1>5, <1>7, <1>8, <1>9, OnProcess DEF InUnlocked, Combined, Unlocked
<1>12. SlotOK(q)'
  BY <1>6, <1>7, <1>9, NewThreads DEF SlotOK, Fresh, Combined, Saved, Switched
<1>13. \A s \in Slots : s # p /\ s # q => Kept(c, s)
  BY <1>7, <1>9 DEF Kept
<1>14. StepOf(c)
  BY <1>2, <1>4, <1>5, <1>13, OnProcess DEF StepOf
<1>15. CpuInv' /\ Alone' /\ SlotInv'
  <2>1. cpu[c].proc = p
    BY <1>2, OnProcess
  <2> QED
    BY <1>11, <1>12, <1>13, <1>14, <2>1, Unlocks, Frame
<1>16. ForkInv'
  <2>1. ~Forking(q)' /\ Forking(p)'
    BY <1>8, <1>9, NewThreads DEF Forking
  <2>2. \A x \in Slots : x # p /\ Forking(x)' => Forking(x) /\ thr'[x] = thr[x] /\ thr[x].np # q
    BY <1>1, <1>2, <1>3, <1>9, <2>1 DEF ForkInv, Forking
  <2>3. \A x \in Slots : x # p /\ Forking(x)' =>
           /\ thr'[x].np \in Slots /\ proc'[thr'[x].np].state = "EMBRYO"
           /\ proc'[thr'[x].np].parent = IF thr'[x].at = "copy" THEN 0 ELSE x
    BY <1>1, <1>7, <2>2 DEF ForkInv
  <2>4. \A x, y \in Slots : Forking(x)' /\ Forking(y)' /\ thr'[x].np = thr'[y].np => x = y
    BY <1>1, <1>8, <1>9, <2>2 DEF ForkInv
  <2>5. /\ thr'[p].np \in Slots /\ proc'[thr'[p].np].state = "EMBRYO"
        /\ proc'[thr'[p].np].parent = IF thr'[p].at = "copy" THEN 0 ELSE p
    BY <1>6, <1>7, <1>8, <1>9
  <2> QED
    BY <2>3, <2>4, <2>5 DEF ForkInv
<1>17. \A s \in Slots : proc'[s].state = proc[s].state /\ proc'[s].killed = proc[s].killed
  <2>1. proc'[q].killed = proc[q].killed
    BY <1>4, <1>5, <1>7 DEF a, Proc
  <2> QED
    BY <1>4, <1>6, <1>7, <2>1
<1>18. ParentInv'
  <2>1. Init0 \in Slots
    BY Constants DEF Init0, Slots
  <2> QED
    BY <1>1, <1>4, <1>6, <1>7, <2>1 DEF ParentInv, Alive
<1>19. ParentsWait'
  <2>1. ASSUME NEW s \in Slots \ {Init0}, proc'[s].state \notin {"UNUSED", "EMBRYO"}
        PROVE  proc'[s].parent \in Slots /\ proc'[proc'[s].parent].state
                 \notin {"UNUSED", "EMBRYO", "ZOMBIE"}
    <3>1. s # q /\ proc'[s] = proc[s]
      BY <2>1, <1>6, <1>7
    <3>2. proc[s].parent \in Slots /\ Alive(proc[s].parent)
      BY <1>1, <2>1, <3>1 DEF ParentsWait
    <3> QED
      BY <1>17, <3>1, <3>2 DEF Alive
  <2>2. ASSUME NEW x \in Slots, proc'[x].state = "SLEEPING", thr'[x].at = "waiting"
        PROVE  /\ {s \in Slots : proc'[s].parent = x} # {} /\ ~proc'[x].killed
               /\ \A s \in {s \in Slots : proc'[s].parent = x} : proc'[s].state # "ZOMBIE"
    <3>1. x # p /\ x # q
      BY <1>6, <1>7, <1>8, <1>9, <2>2
    <3>2. proc[x].state = "SLEEPING" /\ thr[x].at = "waiting" /\ proc'[x] = proc[x]
      BY <1>7, <1>9, <2>2, <3>1
    <3>3. {s \in Slots : proc'[s].parent = x} = {s \in Slots : proc[s].parent = x}
      <4>1. x # 0
        BY Constants DEF Slots
      <4> QED
        BY <1>4, <1>6, <1>7, <3>1, <4>1
    <3>4. /\ {s \in Slots : proc[s].parent = x} # {} /\ ~proc[x].killed
          /\ \A s \in {s \in Slots : proc[s].parent = x} : proc[s].state # "ZOMBIE"
      BY <1>1, <3>2 DEF ParentsWait
    <3> QED
      BY <1>17, <3>2, <3>3, <3>4
  <2> QED
    BY <2>1, <2>2 DEF ParentsWait, Alive
<1>20. TimeKept
  BY <1>5, <1>8, <1>9, NewThreads DEF TimeKept
<1>21. LocksNeverPanic'
  BY <1>5 DEF IInv, LocksNeverPanic
<1> QED
  BY <1>10, <1>15, <1>16, <1>18, <1>19, <1>20, <1>21, TimeFrame DEF IInv

\* fork lets the child run.
LEMMA ForkRuns ==
    ASSUME IInv, NEW c \in Cpus, NEW p \in Slots, forkRuns(c, p)
    PROVE  IInv'
<1>1. TypeOK /\ ForkInv /\ ParentInv /\ ParentsWait
  BY DEF IInv
<1>2. Running(c, p) /\ Forking(p) /\ thr[p].at = "forked" /\ thr[p].irq \in {"none", "exits"}
  BY DEF forkRuns, At, Forking
<1>3. PICK q \in Slots : q = thr[p].np
  BY <1>2, InFork
<1>4. /\ q # p /\ q # Init0 /\ thr[p].irq = "none" /\ proc[q].state = "EMBRYO"
      /\ proc[q] \in Proc
      /\ proc[q].parent = p /\ ~Carried(q) /\ ~Leaving(q) /\ Fresh(q)
      /\ cpu[c].ncli = 0 /\ locked["ptable"] # c /\ locked["ticks"] # c /\ cpu[c].fl
  BY <1>2, <1>3, InFork
<1> DEFINE a == [proc[q] EXCEPT !.state = "RUNNABLE"]
<1>5. /\ proc' = [proc EXCEPT ![q] = a] /\ Returns(p, proc[q].pid)
      /\ UNCHANGED <<cpu, locked, nextpid, ticks, panic>>
  BY <1>3 DEF forkRuns
<1>6. a \in Proc /\ a.state = "RUNNABLE" /\ a.parent = proc[q].parent
  BY <1>4, ProcFields DEF States
<1> HIDE DEF a
<1>7. /\ proc' \in [Slots -> Proc] /\ proc'[q] = a
      /\ \A s \in Slots : s # q => proc'[s] = proc[s]
  BY <1>1, <1>5, <1>6 DEF TypeOK
<1>8. /\ thr' \in [Slots -> Thread] /\ thr'[p].at = "ret" /\ thr'[p].irq = "none"
      /\ thr'[p].n = 0 /\ thr'[p].elapsed = 0
      /\ \A s \in Slots : s # p => thr'[s] = thr[s]
  <2>1. proc[q].pid \in Int
    BY <1>4 DEF Proc
  <2> QED
    BY <1>1, <1>5, <2>1, Returned
<1>9. TypeOK'
  BY <1>1, <1>5, <1>7, <1>8 DEF TypeOK
<1>10. InUnlocked(c, p)'
  BY <1>2, <1>4, <1>5, <1>7, <1>8, OnProcess DEF InUnlocked, Combined, Unlocked
<1>11. SlotOK(q)'
  BY <1>4, <1>6, <1>7, <1>8 DEF SlotOK, Fresh, Combined, Saved, Switched
<1>12. \A s \in Slots : s # p /\ s # q => Kept(c, s)
  BY <1>7, <1>8 DEF Kept
<1>13. StepOf(c)
  BY <1>2, <1>4, <1>5, <1>12, OnProcess DEF StepOf
<1>14. CpuInv' /\ Alone' /\ SlotInv'
  <2>1. cpu[c].proc = p
    BY <1>2, OnProcess
  <2> QED
    BY <1>10, <1>11, <1>12, <1>13, <2>1, Unlocks, Frame
<1>15. ForkInv'
  BY <1>2, <1>3, <1>7, <1>8, ForkEnds DEF Forking
<1>16. ParentInv'
  <2>1. Init0 \in Slots
    BY Constants DEF Init0, Slots
  <2> QED
    BY <1>1, <1>4, <1>6, <1>7, <2>1 DEF ParentInv, Alive
<1>17. ParentsWait'
  <2>1. ASSUME NEW s \in Slots \ {Init0}, proc'[s].state \notin {"UNUSED", "EMBRYO"}
        PROVE  proc'[s].parent \in Slots /\ proc'[proc'[s].parent].state
                 \notin {"UNUSED", "EMBRYO", "ZOMBIE"}
    <3>1. CASE s = q
      BY <1>2, <1>4, <1>6, <1>7, <3>1, OnProcess
    <3>2. CASE s # q
      <4>1. proc'[s] = proc[s]
        BY <1>7, <3>2
      <4>2. proc[s].parent \in Slots /\ Alive(proc[s].parent)
        BY <1>1, <2>1, <4>1 DEF ParentsWait
      <4> QED
        BY <1>4, <1>7, <4>1, <4>2 DEF Alive
    <3> QED
      BY <3>1, <3>2
  <2>2. ASSUME NEW x \in Slots, proc'[x].state = "SLEEPING", thr'[x].at = "waiting"
        PROVE  /\ {s \in Slots : proc'[s].parent = x} # {} /\ ~proc'[x].killed
               /\ \A s \in {s \in Slots : proc'[s].parent = x} : proc'[s].state # "ZOMBIE"
    <3>1. x # p /\ x # q
      BY <1>6, <1>7, <1>8, <2>2
    <3>2. proc[x].state = "SLEEPING" /\ thr[x].at = "waiting" /\ proc'[x] = proc[x]
      BY <1>7, <1>8, <2>2, <3>1
    <3>3. {s \in Slots : proc'[s].parent = x} = {s \in Slots : proc[s].parent = x}
      BY <1>6, <1>7
    <3>4. /\ {s \in Slots : proc[s].parent = x} # {} /\ ~proc[x].killed
          /\ \A s \in {s \in Slots : proc[s].parent = x} : proc[s].state # "ZOMBIE"
      BY <1>1, <3>2 DEF ParentsWait
    <3> QED
      BY <1>6, <1>7, <3>2, <3>3, <3>4
  <2> QED
    BY <2>1, <2>2 DEF ParentsWait, Alive
<1>18. TimeKept
  BY <1>5, <1>8 DEF TimeKept
<1>19. LocksNeverPanic'
  BY <1>5 DEF IInv, LocksNeverPanic
<1> QED
  BY <1>9, <1>14, <1>15, <1>16, <1>17, <1>18, <1>19, TimeFrame DEF IInv

-----------------------------------------------------------------------------
(* exit and wait *)

\* exit's pass over the table: the children of p become init's, and the only
\* state it changes is that of sleepers on channel ch (p's parent in wait),
\* and of init in wait when a child of p is dead.
LEMMA Abandons ==
    ASSUME NEW t0 \in [Slots -> Proc], NEW p \in Slots, NEW ch
    PROVE  LET t == abandon(wakeup1(t0, ch), p)
           IN  /\ t \in [Slots -> Proc]
               /\ \A s \in Slots :
                    /\ t[s].parent = IF t0[s].parent = p THEN Init0 ELSE t0[s].parent
                    /\ t[s].chan = t0[s].chan /\ t[s].killed = t0[s].killed
                    /\ \/ t[s].state = t0[s].state
                       \/ t0[s].state = "SLEEPING" /\ t[s].state = "RUNNABLE"
                    /\ t[s].state = "SLEEPING" =>
                         /\ t0[s].chan # ch
                         /\ t0[s].chan = Init0 =>
                              \A x \in Slots : t0[x].parent = p => t0[x].state # "ZOMBIE"
<1> DEFINE u == wakeup1(t0, ch)
           kids == {s \in Slots : u[s].parent = p}
           v == [s \in Slots |-> IF s \in kids THEN [u[s] EXCEPT !.parent = Init0] ELSE u[s]]
           w == wakeup1(v, Init0)
           t == abandon(u, p)
<1>1. u \in [Slots -> Proc]
  BY WokenTable
<1>2. \A s \in Slots :
        /\ u[s].parent = t0[s].parent /\ u[s].chan = t0[s].chan /\ u[s].killed = t0[s].killed
        /\ \/ u[s].state = t0[s].state
           \/ t0[s].state = "SLEEPING" /\ u[s].state = "RUNNABLE"
        /\ u[s].state = "SLEEPING" => t0[s].chan # ch
  BY Wakes
<1>3. t = IF \E s \in kids : u[s].state = "ZOMBIE" THEN w ELSE v
  BY Zenon DEF abandon
<1> HIDE DEF u
<1>4. \A s \in Slots :
        /\ v[s] \in Proc
        /\ v[s].parent = IF u[s].parent = p THEN Init0 ELSE u[s].parent
        /\ v[s].chan = u[s].chan /\ v[s].killed = u[s].killed /\ v[s].state = u[s].state
  <2> SUFFICES ASSUME NEW s \in Slots
               PROVE  /\ v[s] \in Proc
                      /\ v[s].parent = IF u[s].parent = p THEN Init0 ELSE u[s].parent
                      /\ v[s].chan = u[s].chan /\ v[s].killed = u[s].killed
                      /\ v[s].state = u[s].state
    BY Zenon
  <2>1. u[s] \in Proc /\ Init0 \in 0 .. NPROC
    BY <1>1, Constants DEF Init0
  <2>2. CASE u[s].parent = p
    <3>1. v[s] = [u[s] EXCEPT !.parent = Init0]
      BY <2>2
    <3> HIDE DEF v
    <3> QED
      BY <2>1, <2>2, <3>1, ProcFields
  <2>3. CASE u[s].parent # p
    <3>1. v[s] = u[s]
      BY <2>3
    <3> HIDE DEF v
    <3> QED
      BY <2>1, <2>3, <3>1
  <2> QED
    BY <2>2, <2>3
<1>5. v \in [Slots -> Proc]
  <2>1. \A s \in Slots : (IF s \in kids THEN [u[s] EXCEPT !.parent = Init0] ELSE u[s]) \in Proc
    BY <1>4
  <2> QED
    BY <2>1
<1> HIDE DEF v
<1>6. w \in [Slots -> Proc]
  BY <1>5, WokenTable
<1>7. \A s \in Slots :
        /\ w[s].parent = v[s].parent /\ w[s].chan = v[s].chan /\ w[s].killed = v[s].killed
        /\ \/ w[s].state = v[s].state
           \/ v[s].state = "SLEEPING" /\ w[s].state = "RUNNABLE"
        /\ w[s].state = "SLEEPING" => v[s].chan # Init0 /\ v[s].state = "SLEEPING"
  BY <1>5, Wakes
<1> HIDE DEF w
<1>8. CASE \E s \in kids : u[s].state = "ZOMBIE"
  <2>1. t = w
    BY <1>3, <1>8
  <2> HIDE DEF t
  <2>2. t \in [Slots -> Proc]
    BY <1>6, <2>1
  <2>3. \A s \in Slots :
          /\ t[s].parent = IF t0[s].parent = p THEN Init0 ELSE t0[s].parent
          /\ t[s].chan = t0[s].chan /\ t[s].killed = t0[s].killed
          /\ \/ t[s].state = t0[s].state
             \/ t0[s].state = "SLEEPING" /\ t[s].state = "RUNNABLE"
          /\ t[s].state = "SLEEPING" => t0[s].chan # ch /\ t0[s].chan # Init0
    BY <1>2, <1>4, <1>7, <2>1
  <2> QED
    BY <2>2, <2>3 DEF t, u
<1>9. CASE ~ \E s \in kids : u[s].state = "ZOMBIE"
  <2>1. t = v
    BY <1>3, <1>9
  <2> HIDE DEF t
  <2>2. t \in [Slots -> Proc]
    BY <1>5, <2>1
  <2>3. \A s \in Slots :
          /\ t[s].parent = IF t0[s].parent = p THEN Init0 ELSE t0[s].parent
          /\ t[s].chan = t0[s].chan /\ t[s].killed = t0[s].killed
          /\ \/ t[s].state = t0[s].state
             \/ t0[s].state = "SLEEPING" /\ t[s].state = "RUNNABLE"
          /\ t[s].state = "SLEEPING" => t0[s].chan # ch
    BY <1>2, <1>4, <2>1
  <2>4. \A x \in Slots : t0[x].parent = p => t0[x].state # "ZOMBIE"
    BY <1>2, <1>9
  <2> QED
    BY <2>2, <2>3, <2>4 DEF t, u
<1> QED
  BY <1>8, <1>9

\* Nothing but panic changes.
LEMMA Unchanged ==
    ASSUME IInv, UNCHANGED <<proc, thr, cpu, locked, nextpid, ticks>>, LocksNeverPanic'
    PROVE  IInv'
<1>1. TypeOK'
  BY DEF IInv, TypeOK
<1>2. CpuInv' /\ Alone'
  BY DEF IInv, CpuInv, Alone, LocksExact, Carries, HoldsTable, HoldsTicks, Irq, Saved
<1>3. SlotInv'
  BY DEF IInv, SlotInv, SlotOK, Combined, Saved, Leaving, Carried, Fresh
<1>4. ForkKept /\ FamilyKept /\ TimeKept
  BY DEF ForkKept, FamilyKept, TimeKept, Forking
<1> QED
  BY <1>1, <1>2, <1>3, <1>4, ForkFrame, FamilyFrame, TimeFrame DEF IInv

\* exit, up to its switch; init panics instead.
LEMMA ProcessExits ==
    ASSUME IInv, NEW c \in Cpus, NEW p \in Slots, exit(c, p)
    PROVE  IInv'
<1>1. TypeOK /\ TimeInv /\ ForkInv /\ ParentInv /\ ParentsWait /\ SlotInv
  BY DEF IInv
<1>2. Running(c, p) /\ thr[p].at = "exit" /\ thr[p].irq \in {"none", "exits"}
  BY DEF exit, At
<1>3. CASE p = Init0
  <2>1. /\ panic' = "init exiting"
        /\ UNCHANGED <<proc, thr, cpu, locked, nextpid, ticks>>
    BY <1>3 DEF exit, Panic
  <2>2. LocksNeverPanic'
    BY <2>1 DEF LocksNeverPanic
  <2> QED
    BY <2>1, <2>2, Unchanged
<1>4. CASE p # Init0
  <2> DEFINE k == pushcli(cpu[c])
             y == [k EXCEPT !.on = "sched"]
             ch == proc[p].parent
             t == abandon(wakeup1(proc, ch), p)
             a == [t[p] EXCEPT !.state = "ZOMBIE"]
  <2>1. /\ locked["ptable"] = 0 /\ locked' = [locked EXCEPT !["ptable"] = c]
        /\ proc' = [t EXCEPT ![p] = a] /\ cpu' = [cpu EXCEPT ![c] = y]
        /\ UNCHANGED <<thr, nextpid, ticks, panic>>
    BY <1>4 DEF exit, acquire
  <2>2. cpu[c].ncli = 0 /\ locked["ticks"] # c
    BY <1>2, AtUnlocked DEF Unlocked
  <2>3. k \in Cpu /\ k.proc = p /\ k.scan > 0 /\ k.irq = "none" /\ k.ncli = 1 /\ ~k.fl
    <3>1. cpu[c] \in Cpu /\ cpu[c].proc = p /\ cpu[c].scan > 0 /\ cpu[c].irq = "none"
      BY <1>2, OnProcess
    <3> QED
      BY <2>2, <3>1, Pushed
  <2> HIDE DEF k
  <2>4. /\ y \in Cpu /\ y.proc = p /\ y.scan > 0 /\ y.irq = "none" /\ y.ncli = 1 /\ ~y.fl
        /\ y.on = "sched"
    BY <2>3, CpuOn
  <2> HIDE DEF y
  <2>5. /\ t \in [Slots -> Proc]
        /\ \A s \in Slots :
             /\ t[s].parent = IF proc[s].parent = p THEN Init0 ELSE proc[s].parent
             /\ t[s].chan = proc[s].chan /\ t[s].killed = proc[s].killed
             /\ \/ t[s].state = proc[s].state
                \/ proc[s].state = "SLEEPING" /\ t[s].state = "RUNNABLE"
             /\ t[s].state = "SLEEPING" =>
                  /\ proc[s].chan # ch
                  /\ proc[s].chan = Init0 =>
                       \A x \in Slots : proc[x].parent = p => proc[x].state # "ZOMBIE"
    <3>1. proc \in [Slots -> Proc]
      BY <1>1 DEF TypeOK
    <3> QED
      BY <3>1, Abandons
  <2> HIDE DEF t
  <2>6. a \in Proc /\ a.state = "ZOMBIE" /\ a.parent = t[p].parent
    <3>1. t[p] \in Proc /\ "ZOMBIE" \in States
      BY <2>5 DEF States
    <3> QED
      BY <3>1, ProcFields
  <2> HIDE DEF a
  <2>7. /\ proc' \in [Slots -> Proc] /\ proc'[p] = a
        /\ \A s \in Slots : s # p => proc'[s] = t[s]
    BY <2>1, <2>5, <2>6
  <2>8. /\ cpu' \in [Cpus -> Cpu] /\ cpu'[c] = y
        /\ \A d \in Cpus : d # c => cpu'[d] = cpu[d]
    BY <1>1, <2>1, <2>4 DEF TypeOK
  <2>9. /\ locked' \in [{"ptable", "ticks"} -> 0 .. NCPU] /\ c # 0
        /\ locked'["ptable"] = c /\ locked'["ticks"] = locked["ticks"]
    BY <1>1, <2>1, Constants DEF TypeOK, Cpus
  <2>10. TypeOK'
    BY <1>1, <2>1, <2>7, <2>8, <2>9 DEF TypeOK
  <2>11. InSched(c, p)'
    BY <1>2, <2>1, <2>2, <2>4, <2>6, <2>7, <2>8, <2>9 DEF InSched, Combined, Saved, Switched
  <2>12. \A s \in Slots : s # p => Kept(c, s)
    BY <2>1, <2>5, <2>7 DEF Kept
  <2>13. StepOf(c)
    BY <1>2, <2>1, <2>4, <2>8, <2>9, <2>12, OnProcess DEF StepOf
  <2>14. CpuInv' /\ Alone' /\ SlotInv'
    BY <1>2, <2>11, <2>12, <2>13, Scheds, Frame, OnProcess
  <2>15. Init0 \in Slots /\ p # 0 /\ proc[p].state = "RUNNING"
    BY <1>2, Constants, OnProcess DEF Init0, Slots
  <2>16. \A s \in Slots : s # p => (Alive(s)' <=> Alive(s))
    BY <2>5, <2>7 DEF Alive
  <2>17. ForkInv'
    <3> SUFFICES ASSUME NEW q \in Slots, Forking(q)
                 PROVE  /\ thr[q].np \in Slots
                        /\ proc'[thr[q].np].state = "EMBRYO"
                        /\ proc'[thr[q].np].parent = IF thr[q].at = "copy" THEN 0 ELSE q
                        /\ \A x \in Slots : Forking(x) /\ thr[x].np = thr[q].np => x = q
      BY <2>1 DEF ForkInv, Forking
    <3>1. q # p
      BY <1>2 DEF Forking
    <3>2. /\ thr[q].np \in Slots /\ proc[thr[q].np].state = "EMBRYO"
          /\ proc[thr[q].np].parent = IF thr[q].at = "copy" THEN 0 ELSE q
          /\ \A x \in Slots : Forking(x) /\ thr[x].np = thr[q].np => x = q
      BY <1>1 DEF ForkInv
    <3>3. thr[q].np # p /\ proc[thr[q].np].parent # p
      BY <2>15, <3>1, <3>2
    <3> QED
      BY <2>5, <2>7, <3>2, <3>3
  <2>18. \A s \in Slots : proc'[s].parent = IF proc[s].parent = p THEN Init0 ELSE proc[s].parent
    BY <2>5, <2>6, <2>7
  <2>19. ParentInv'
    BY <1>1, <1>4, <2>5, <2>6, <2>7, <2>15, <2>16, <2>18 DEF ParentInv
  <2>20. ParentsWait'
    <3>1. ASSUME NEW s \in Slots \ {Init0}, proc'[s].state \notin {"UNUSED", "EMBRYO"}
          PROVE  proc'[s].parent \in Slots /\ proc'[proc'[s].parent].state
                   \notin {"UNUSED", "EMBRYO", "ZOMBIE"}
      <4>1. proc[s].state \notin {"UNUSED", "EMBRYO"}
        BY <3>1, <2>5, <2>7, <2>15
      <4>2. proc[s].parent \in Slots /\ Alive(proc[s].parent)
        BY <1>1, <3>1, <4>1 DEF ParentsWait
      <4>3. Alive(Init0)
        BY <1>1 DEF ParentInv
      <4> QED
        BY <1>4, <2>15, <2>16, <2>18, <4>2, <4>3 DEF Alive
    <3>2. ASSUME NEW x \in Slots, proc'[x].state = "SLEEPING", thr'[x].at = "waiting"
          PROVE  /\ {s \in Slots : proc'[s].parent = x} # {} /\ ~proc'[x].killed
                 /\ \A s \in {s \in Slots : proc'[s].parent = x} : proc'[s].state # "ZOMBIE"
      <4>1. x # p
        BY <2>6, <2>7, <3>2
      <4>2. /\ proc[x].state = "SLEEPING" /\ thr[x].at = "waiting" /\ proc[x].chan = x
            /\ proc'[x].killed = proc[x].killed
        <5>1. proc[x].state = "SLEEPING" /\ thr[x].at = "waiting"
          BY <2>1, <2>5, <2>7, <3>2, <4>1
        <5> QED
          BY <1>1, <2>5, <2>7, <4>1, <5>1 DEF SlotInv, SlotOK
      <4>3. /\ {s \in Slots : proc[s].parent = x} # {} /\ ~proc[x].killed
            /\ \A s \in {s \in Slots : proc[s].parent = x} : proc[s].state # "ZOMBIE"
        BY <1>1, <4>2 DEF ParentsWait
      <4>4. /\ x # proc[p].parent
            /\ x = Init0 => \A s \in Slots : proc[s].parent = p => proc[s].state # "ZOMBIE"
        BY <2>5, <2>7, <3>2, <4>1, <4>2
      <4>5. \A s \in Slots : proc[s].parent = x => proc'[s].parent = x
        BY <2>18, <4>1
      <4>6. \A s \in Slots : proc'[s].parent = x =>
              \/ proc[s].parent = x
              \/ x = Init0 /\ proc[s].parent = p
        BY <2>18
      <4>7. proc[p].parent # p
        BY <1>1 DEF ParentInv
      <4>8. \A s \in Slots : proc'[s].parent = x => s # p
        BY <4>4, <4>6, <4>7
      <4>9. \A s \in Slots : proc'[s].parent = x => proc[s].state # "ZOMBIE"
        BY <4>3, <4>4, <4>6
      <4>10. \A s \in Slots : proc'[s].parent = x => proc'[s].state # "ZOMBIE"
        BY <2>5, <2>7, <4>8, <4>9
      <4> QED
        BY <4>2, <4>3, <4>5, <4>10
    <3> QED
      BY <3>1, <3>2 DEF ParentsWait, Alive
  <2>21. TimeKept
    BY <2>1 DEF TimeKept
  <2>22. LocksNeverPanic'
    BY <2>1 DEF IInv, LocksNeverPanic
  <2> QED
    BY <2>10, <2>14, <2>17, <2>19, <2>20, <2>21, <2>22, TimeFrame DEF IInv
<1> QED
  BY <1>3, <1>4

\* A thread in wait's loop, on a CPU whose state would be k with ptable.lock
\* held.
InWait(c, p, k) ==
    /\ Running(c, p) /\ thr[p].irq = "none" /\ thr[p].at \in {"user", "waiting"}
    /\ locked["ptable"] \in {0, c} /\ locked["ticks"] # c
    /\ k \in Cpu /\ k.proc = p /\ k.on = "process" /\ k.scan > 0 /\ k.irq = "none"
    /\ k.ncli = 1 /\ ~k.fl /\ k.intena

\* The step of waitScans that ends wait with result r: p has left its channel
\* and all locks, and at most one slot z, of a dead child, is free again.
EndsWait(c, p, k, r, z) ==
    /\ proc' = [s \in Slots |-> IF s = z THEN NoProc
                                ELSE IF s = p THEN [proc[p] EXCEPT !.chan = 0]
                                ELSE proc[s]]
    /\ Returns(p, r)
    /\ cpu' = [cpu EXCEPT ![c] = popcli(k)]
    /\ locked' = [locked EXCEPT !["ptable"] = 0]

\* wait reaps a child or gives up.
LEMMA WaitReturns ==
    ASSUME IInv, NEW c \in Cpus, NEW p \in Slots, NEW k, InWait(c, p, k),
           NEW r \in Int, NEW z, EndsWait(c, p, k, r, z),
           UNCHANGED <<nextpid, ticks, panic>>,
           z \in Slots => proc[z].parent = p /\ proc[z].state = "ZOMBIE"
    PROVE  IInv'
<1> DEFINE y == popcli(k)
           q == [proc[p] EXCEPT !.chan = 0]
<1>1. TypeOK /\ ParentInv /\ ParentsWait /\ SlotInv
  BY DEF IInv
<1>2. /\ Running(c, p) /\ thr[p].irq = "none" /\ thr[p].at \in {"user", "waiting"}
      /\ locked["ptable"] \in {0, c} /\ locked["ticks"] # c
  BY DEF InWait
<1>3. /\ y \in Cpu /\ y.proc = p /\ y.on = "process" /\ y.scan > 0 /\ y.irq = "none"
      /\ y.ncli = 0 /\ y.fl
  <2>1. /\ k \in Cpu /\ k.proc = p /\ k.on = "process" /\ k.scan > 0 /\ k.irq = "none"
        /\ k.ncli = 1 /\ k.intena
    BY DEF InWait
  <2> QED
    BY <2>1, Popped
<1> HIDE DEF y
<1>4. /\ cpu' \in [Cpus -> Cpu] /\ cpu'[c] = y
      /\ \A d \in Cpus : d # c => cpu'[d] = cpu[d]
  <2>1. cpu' = [cpu EXCEPT ![c] = y]
    BY DEF y, EndsWait
  <2> QED
    BY <1>1, <1>3, <2>1 DEF TypeOK
<1>5. /\ thr' \in [Slots -> Thread] /\ thr'[p].at = "ret" /\ thr'[p].irq = "none"
      /\ thr'[p].n = 0 /\ thr'[p].elapsed = 0
      /\ \A s \in Slots : s # p => thr'[s] = thr[s]
  BY <1>1, Returned DEF EndsWait
<1>6. /\ locked' \in [{"ptable", "ticks"} -> 0 .. NCPU] /\ c # 0
      /\ locked'["ptable"] = 0 /\ locked'["ticks"] = locked["ticks"]
  BY <1>1, Constants DEF TypeOK, Cpus, EndsWait
<1>7. q \in Proc /\ q.state = "RUNNING" /\ q.parent = proc[p].parent
  <2>1. proc[p] \in Proc /\ proc[p].state = "RUNNING" /\ 0 \in 0 .. NPROC + 1
    BY <1>2, OnProcess, Constants
  <2> QED
    BY <2>1, ProcFields
<1> HIDE DEF q
<1>8. NoProc \in Proc /\ NoProc.state = "UNUSED" /\ NoProc.parent = 0
  <2>1. NoProc \in Proc
    BY Constants DEF NoProc, Proc, States
  <2> QED
    BY <2>1 DEF NoProc
<1>9. z # p
  BY <1>2, OnProcess
<1>10. /\ proc'[p] = q
       /\ z \in Slots => proc'[z] = NoProc
       /\ \A s \in Slots : s # p /\ s # z => proc'[s] = proc[s]
  BY <1>9 DEF q, EndsWait
<1>11. proc' \in [Slots -> Proc]
  <2>1. \A s \in Slots : (IF s = z THEN NoProc ELSE IF s = p THEN q ELSE proc[s]) \in Proc
    BY <1>1, <1>7, <1>8 DEF TypeOK
  <2>2. proc' = [s \in Slots |-> IF s = z THEN NoProc ELSE IF s = p THEN q ELSE proc[s]]
    BY DEF q, EndsWait
  <2> QED
    BY <2>1, <2>2
<1>12. TypeOK'
  BY <1>1, <1>4, <1>5, <1>6, <1>11 DEF TypeOK
<1>13. InUnlocked(c, p)'
  BY <1>2, <1>3, <1>4, <1>5, <1>6, <1>7, <1>10 DEF InUnlocked, Combined, Unlocked
<1>14. ASSUME z \in Slots
       PROVE  ~Carried(z) /\ Fresh(z) /\ z # Init0
  <2>1. proc[z].state = "ZOMBIE"
    BY <1>14
  <2>2. cpu[c].on # "sched" /\ cpu[c].proc = p
    BY <1>2, OnProcess
  <2>3. ~Carried(z) /\ ~Leaving(z)
    BY <1>2, <1>9, <1>14, <2>1, <2>2, OnNoCpu
  <2>4. Fresh(z)
    BY <1>1, <1>14, <2>1, <2>3 DEF SlotInv, SlotOK
  <2>5. z # Init0
    BY <1>1, <2>1 DEF ParentInv, Alive
  <2> QED
    BY <2>3, <2>4, <2>5
<1>15. z \in Slots => SlotOK(z)'
  BY <1>5, <1>8, <1>9, <1>10, <1>14 DEF SlotOK, Fresh, Combined, Saved, Switched
<1>16. \A s \in Slots : s # p /\ s # z => Kept(c, s)
  BY <1>5, <1>10 DEF Kept
<1>17. StepOf(c)
  <2>1. cpu[c].proc = p
    BY <1>2, OnProcess
  <2> QED
    BY <1>2, <1>3, <1>4, <1>6, <1>14, <1>16, <2>1 DEF StepOf
<1>18. CpuInv' /\ Alone' /\ SlotInv'
  <2>1. cpu[c].proc = p
    BY <1>2, OnProcess
  <2> QED
    BY <1>13, <1>15, <1>16, <1>17, <2>1, Unlocks, Frame
<1>19. proc[p].state = "RUNNING" /\ Init0 \in Slots
  BY <1>2, OnProcess, Constants DEF Init0, Slots
<1>20. ForkKept
  BY <1>5, <1>10, <1>19 DEF ForkKept, Forking
<1>21. \A s \in Slots : s # z =>
         proc'[s].state = proc[s].state /\ proc'[s].parent = proc[s].parent
  BY <1>7, <1>10, <1>19
<1>22. ParentInv'
  <2>1. Alive(Init0)' /\ proc'[Init0].parent = 0
    BY <1>1, <1>14, <1>19, <1>21 DEF ParentInv, Alive
  <2>2. \A s \in Slots : proc'[s].parent # s /\ (proc'[s].state = "UNUSED" => proc'[s].parent = 0)
    <3>1. \A s \in Slots : s # 0
      BY Constants DEF Slots
    <3> QED
      BY <1>1, <1>8, <1>10, <1>21, <3>1 DEF ParentInv
  <2> QED
    BY <2>1, <2>2 DEF ParentInv
<1>23. ParentsWait'
  <2>1. ASSUME NEW s \in Slots \ {Init0}, proc'[s].state \notin {"UNUSED", "EMBRYO"}
        PROVE  proc'[s].parent \in Slots /\ proc'[proc'[s].parent].state
                 \notin {"UNUSED", "EMBRYO", "ZOMBIE"}
    <3>1. s # z
      BY <1>8, <1>10, <2>1
    <3>2. proc[s].parent \in Slots /\ Alive(proc[s].parent)
      BY <1>1, <1>21, <2>1, <3>1 DEF ParentsWait
    <3>3. proc[s].parent # z
      BY <3>2 DEF Alive
    <3> QED
      BY <1>21, <3>1, <3>2, <3>3 DEF Alive
  <2>2. ASSUME NEW x \in Slots, proc'[x].state = "SLEEPING", thr'[x].at = "waiting"
        PROVE  /\ {s \in Slots : proc'[s].parent = x} # {} /\ ~proc'[x].killed
               /\ \A s \in {s \in Slots : proc'[s].parent = x} : proc'[s].state # "ZOMBIE"
    <3>1. x # p /\ x # z /\ x # 0
      BY <1>5, <1>8, <1>10, <2>2, Constants DEF Slots
    <3>2. proc[x].state = "SLEEPING" /\ thr[x].at = "waiting" /\ proc'[x] = proc[x]
      BY <1>5, <1>10, <2>2, <3>1
    <3>3. {s \in Slots : proc'[s].parent = x} = {s \in Slots : proc[s].parent = x}
      BY <1>8, <1>10, <1>21, <3>1
    <3>4. /\ {s \in Slots : proc[s].parent = x} # {} /\ ~proc[x].killed
          /\ \A s \in {s \in Slots : proc[s].parent = x} : proc[s].state # "ZOMBIE"
      BY <1>1, <3>2 DEF ParentsWait
    <3>5. \A s \in {s \in Slots : proc[s].parent = x} : proc'[s].state # "ZOMBIE"
      BY <1>8, <1>10, <1>21, <3>4
    <3> QED
      BY <3>2, <3>3, <3>4, <3>5
  <2> QED
    BY <2>1, <2>2 DEF ParentsWait, Alive
<1>24. TimeKept
  BY <1>5 DEF TimeKept
<1>25. LocksNeverPanic'
  BY DEF IInv, LocksNeverPanic
<1> QED
  BY <1>12, <1>18, <1>20, <1>22, <1>23, <1>24, <1>25, ForkFrame, TimeFrame DEF IInv

\* The step of waitScans that goes to sleep.
SleepsInWait(c, p, k) ==
    /\ proc' = [proc EXCEPT ![p].state = "SLEEPING", ![p].chan = p]
    /\ Go(p, "waiting")
    /\ cpu' = [cpu EXCEPT ![c] = [k EXCEPT !.on = "sched"]]
    /\ locked' = [locked EXCEPT !["ptable"] = c]

\* wait goes to sleep: its children live.
LEMMA WaitSleeps ==
    ASSUME IInv, NEW c \in Cpus, NEW p \in Slots, NEW k, InWait(c, p, k),
           SleepsInWait(c, p, k), UNCHANGED <<nextpid, ticks, panic>>,
           {s \in Slots : proc[s].parent = p} # {}, ~proc[p].killed,
           \A s \in Slots : proc[s].parent = p => proc[s].state # "ZOMBIE"
    PROVE  IInv'
<1> DEFINE y == [k EXCEPT !.on = "sched"]
           a == [proc[p] EXCEPT !.state = "SLEEPING"]
           b == [a EXCEPT !.chan = p]
<1>1. TypeOK /\ ParentInv /\ ParentsWait /\ TimeInv
  BY DEF IInv
<1>2. /\ Running(c, p) /\ thr[p].irq = "none" /\ thr[p].at \in {"user", "waiting"}
      /\ locked["ptable"] \in {0, c} /\ locked["ticks"] # c
  BY DEF InWait
<1>3. /\ y \in Cpu /\ y.proc = p /\ y.on = "sched" /\ y.scan > 0 /\ y.irq = "none"
      /\ y.ncli = 1 /\ ~y.fl /\ y.intena
  <2>1. k \in Cpu /\ k.proc = p /\ k.scan > 0 /\ k.irq = "none" /\ k.ncli = 1
    BY DEF InWait
  <2>2. /\ y \in Cpu /\ y.proc = p /\ y.on = "sched" /\ y.scan > 0 /\ y.irq = "none"
        /\ y.ncli = 1
    BY <2>1, CpuOn
  <2>3. y.fl = k.fl /\ y.intena = k.intena
    BY <2>1, CpuOn
  <2>4. ~k.fl /\ k.intena
    BY DEF InWait
  <2>5. ~y.fl /\ y.intena
    BY <2>3, <2>4, Zenon
  <2> QED
    BY <2>2, <2>5
<1> HIDE DEF y
<1>4. /\ cpu' \in [Cpus -> Cpu] /\ cpu'[c] = y
      /\ \A d \in Cpus : d # c => cpu'[d] = cpu[d]
  <2>1. cpu' = [cpu EXCEPT ![c] = y]
    BY DEF y, SleepsInWait
  <2> QED
    BY <1>1, <1>3, <2>1 DEF TypeOK
<1>5. /\ thr' \in [Slots -> Thread] /\ thr'[p].at = "waiting" /\ thr'[p].irq = "none"
      /\ thr'[p].n = thr[p].n /\ thr'[p].elapsed = thr[p].elapsed
      /\ \A s \in Slots : s # p => thr'[s] = thr[s]
  BY <1>1, <1>2, Goes DEF Places, Switched, SleepsInWait
<1>6. /\ locked' \in [{"ptable", "ticks"} -> 0 .. NCPU] /\ c # 0
      /\ locked'["ptable"] = c /\ locked'["ticks"] = locked["ticks"]
  BY <1>1, Constants DEF TypeOK, Cpus, SleepsInWait
<1>7. proc[p] \in Proc /\ proc[p].state = "RUNNING"
  BY <1>2, OnProcess
<1>8. a \in Proc /\ a.state = "SLEEPING" /\ a.parent = proc[p].parent /\ a.killed = proc[p].killed
  BY <1>7, ProcFields DEF States
<1> HIDE DEF a
<1>9. /\ b \in Proc /\ b.state = "SLEEPING" /\ b.parent = proc[p].parent /\ b.chan = p
      /\ b.killed = proc[p].killed
  <2>1. p \in 0 .. NPROC + 1
    BY Constants DEF Slots
  <2> QED
    BY <2>1, <1>8, ProcFields
<1> HIDE DEF b
<1>10. proc' = [proc EXCEPT ![p] = b]
  BY <1>1 DEF a, b, TypeOK, SleepsInWait
<1>11. /\ proc' \in [Slots -> Proc] /\ proc'[p] = b
       /\ \A s \in Slots : s # p => proc'[s] = proc[s]
  BY <1>1, <1>9, <1>10 DEF TypeOK
<1>12. TypeOK'
  BY <1>1, <1>4, <1>5, <1>6, <1>11 DEF TypeOK
<1>13. InSched(c, p)'
  BY <1>2, <1>3, <1>4, <1>5, <1>6, <1>9, <1>11 DEF InSched, Combined, Saved
<1>14. \A s \in Slots : s # p => Kept(c, s)
  BY <1>5, <1>11 DEF Kept
<1>15. StepOf(c)
  BY <1>2, <1>3, <1>4, <1>6, <1>14, OnProcess DEF StepOf
<1>16. CpuInv' /\ Alone' /\ SlotInv'
  BY <1>2, <1>13, <1>14, <1>15, Scheds, Frame, OnProcess
<1>17. ForkKept
  BY <1>5, <1>7, <1>11 DEF ForkKept, Forking
<1>18. \A s \in Slots :
         /\ proc'[s].parent = proc[s].parent
         /\ proc'[s].state = "ZOMBIE" <=> proc[s].state = "ZOMBIE"
         /\ proc'[s].state = "UNUSED" <=> proc[s].state = "UNUSED"
         /\ proc'[s].state = "EMBRYO" <=> proc[s].state = "EMBRYO"
  BY <1>7, <1>9, <1>11
<1>19. ParentInv'
  <2>1. Init0 \in Slots
    BY Constants DEF Init0, Slots
  <2> QED
    BY <1>1, <1>18, <2>1 DEF ParentInv, Alive
<1>20. ParentsWait'
  <2>1. ASSUME NEW s \in Slots \ {Init0}, proc'[s].state \notin {"UNUSED", "EMBRYO"}
        PROVE  proc'[s].parent \in Slots /\ proc'[proc'[s].parent].state
                 \notin {"UNUSED", "EMBRYO", "ZOMBIE"}
    <3>1. proc[s].parent \in Slots /\ Alive(proc[s].parent)
      BY <1>1, <1>18, <2>1 DEF ParentsWait
    <3> QED
      BY <1>18, <3>1 DEF Alive
  <2>2. ASSUME NEW x \in Slots, proc'[x].state = "SLEEPING", thr'[x].at = "waiting"
        PROVE  /\ {s \in Slots : proc'[s].parent = x} # {} /\ ~proc'[x].killed
               /\ \A s \in {s \in Slots : proc'[s].parent = x} : proc'[s].state # "ZOMBIE"
    <3>1. {s \in Slots : proc'[s].parent = x} = {s \in Slots : proc[s].parent = x}
      BY <1>18
    <3>2. CASE x = p
      <4>1. ~proc'[p].killed
        <5>1. proc'[p].killed = proc[p].killed
          BY <1>9, <1>11
        <5> QED
          BY <5>1, Zenon
      <4> QED
        BY <1>18, <3>1, <3>2, <4>1
    <3>3. CASE x # p
      <4>1. proc[x].state = "SLEEPING" /\ thr[x].at = "waiting" /\ proc'[x] = proc[x]
        BY <1>5, <1>11, <2>2, <3>3
      <4>2. /\ {s \in Slots : proc[s].parent = x} # {} /\ ~proc[x].killed
            /\ \A s \in {s \in Slots : proc[s].parent = x} : proc[s].state # "ZOMBIE"
        BY <1>1, <4>1 DEF ParentsWait
      <4> QED
        BY <1>18, <3>1, <4>1, <4>2
    <3> QED
      BY <3>2, <3>3
  <2> QED
    BY <2>1, <2>2 DEF ParentsWait, Alive
<1>21. TimeKept
  <2>1. thr[p].n = 0 /\ thr[p].elapsed = 0
    BY <1>1, <1>2 DEF TimeInv, InSleep
  <2> QED
    BY <1>5, <2>1 DEF TimeKept
<1>22. LocksNeverPanic'
  BY DEF IInv, LocksNeverPanic
<1> QED
  BY <1>12, <1>16, <1>17, <1>19, <1>20, <1>21, <1>22, ForkFrame, TimeFrame DEF IInv

\* A pass of wait over the table.
LEMMA WaitScans ==
    ASSUME IInv, NEW c \in Cpus, NEW p \in Slots, NEW k, InWait(c, p, k),
           waitScans(c, p, k), UNCHANGED <<nextpid, ticks, panic>>
    PROVE  IInv'
<1> DEFINE kids == {s \in Slots : proc[s].parent = p}
           dead == {s \in kids : proc[s].state = "ZOMBIE"}
           z == Min(dead)
<1>1. dead # {} => z \in Slots /\ proc[z].parent = p /\ proc[z].state = "ZOMBIE"
  <2>1. dead \subseteq Slots /\ Slots \subseteq Nat
    BY Constants DEF Slots
  <2>2. dead # {} => z \in dead
    BY <2>1, MinIn
  <2> QED
    BY <2>2
<1>2. proc \in [Slots -> Proc]
  BY DEF IInv, TypeOK
<1>3. CASE dead # {}
  <2>1. /\ proc' = [s \in Slots |-> IF dead # {} /\ s = z THEN NoProc
                                    ELSE IF s = p THEN [proc[p] EXCEPT !.chan = 0]
                                    ELSE proc[s]]
        /\ Returns(p, IF dead = {} THEN -1 ELSE proc[z].pid)
        /\ cpu' = [cpu EXCEPT ![c] = popcli(k)]
        /\ locked' = [locked EXCEPT !["ptable"] = 0]
    BY <1>3, Zenon DEF waitScans
  <2>2. PICK x \in Slots : x = z /\ proc[x].parent = p /\ proc[x].state = "ZOMBIE"
    BY <1>1, <1>3
  <2>3. proc[x].pid \in Int
    BY <1>2 DEF Proc
  <2>4. EndsWait(c, p, k, proc[x].pid, x)
    <3>1. Returns(p, proc[x].pid)
      BY <1>3, <2>1, <2>2, Zenon
    <3>2. proc' = [s \in Slots |-> IF s = x THEN NoProc
                                   ELSE IF s = p THEN [proc[p] EXCEPT !.chan = 0]
                                   ELSE proc[s]]
      BY <1>3, <2>1, <2>2
    <3> QED
      BY <2>1, <3>1, <3>2 DEF EndsWait
  <2> QED
    BY <2>2, <2>3, <2>4, WaitReturns
<1>4. CASE dead = {} /\ (kids = {} \/ proc[p].killed)
  <2>1. /\ proc' = [s \in Slots |-> IF dead # {} /\ s = z THEN NoProc
                                    ELSE IF s = p THEN [proc[p] EXCEPT !.chan = 0]
                                    ELSE proc[s]]
        /\ Returns(p, IF dead = {} THEN -1 ELSE proc[z].pid)
        /\ cpu' = [cpu EXCEPT ![c] = popcli(k)]
        /\ locked' = [locked EXCEPT !["ptable"] = 0]
    BY <1>4, Zenon DEF waitScans
  <2>2. 0 \notin Slots /\ -1 \in Int
    BY Constants DEF Slots
  <2>3. EndsWait(c, p, k, -1, 0)
    <3>1. Returns(p, -1)
      BY <1>4, <2>1, Zenon
    <3>2. proc' = [s \in Slots |-> IF s = 0 THEN NoProc
                                   ELSE IF s = p THEN [proc[p] EXCEPT !.chan = 0]
                                   ELSE proc[s]]
      BY <1>4, <2>1, <2>2
    <3> QED
      BY <2>1, <3>1, <3>2 DEF EndsWait
  <2> QED
    BY <2>2, <2>3, WaitReturns
<1>5. CASE dead = {} /\ kids # {} /\ ~proc[p].killed
  <2>1. SleepsInWait(c, p, k)
    <3>1. ~(dead # {} \/ kids = {} \/ proc[p].killed)
      BY <1>5, Zenon
    <3> QED
      BY <3>1, Zenon DEF waitScans, SleepsInWait
  <2>2. \A s \in Slots : proc[s].parent = p => proc[s].state # "ZOMBIE"
    BY <1>5
  <2> QED
    BY <1>5, <2>1, <2>2, WaitSleeps
<1> QED
  BY <1>3, <1>4, <1>5

\* wait with its first pass.
LEMMA WaitStarts ==
    ASSUME IInv, NEW c \in Cpus, NEW p \in Slots, wait(c, p)
    PROVE  IInv'
<1>1. Running(c, p) /\ thr[p].at = "user" /\ thr[p].irq = "none"
  BY OnProcess DEF wait, Calling, At, Combined
<1>2. cpu[c].ncli = 0 /\ locked["ptable"] # c /\ locked["ticks"] # c /\ cpu[c].fl
  BY <1>1, AtUnlocked DEF Unlocked
<1>3. /\ cpu[c] \in Cpu /\ cpu[c].proc = p /\ cpu[c].scan > 0 /\ cpu[c].irq = "none"
      /\ cpu[c].on = "process"
  BY <1>1, OnProcess
<1>4. locked["ptable"] = 0 /\ waitScans(c, p, pushcli(cpu[c])) /\ UNCHANGED <<nextpid, ticks, panic>>
  BY DEF wait
<1>5. InWait(c, p, pushcli(cpu[c]))
  BY <1>1, <1>2, <1>3, <1>4, Pushed DEF InWait
<1> QED
  BY <1>4, <1>5, WaitScans

\* wait after its switch.
LEMMA WaitGoesOn ==
    ASSUME IInv, NEW c \in Cpus, NEW p \in Slots, waitWakes(c, p)
    PROVE  IInv'
<1> DEFINE k == resumed(p, cpu[c])
<1>1. Running(c, p) /\ thr[p].at = "waiting" /\ thr[p].irq = "none"
  BY OnProcess DEF waitWakes, At, Combined
<1>2. /\ cpu[c].ncli = 1 /\ locked["ptable"] = c /\ locked["ticks"] # c
      /\ ~cpu[c].fl /\ thr[p].intena
  BY <1>1, AtSwitched DEF Switched
<1>3. /\ cpu[c] \in Cpu /\ cpu[c].proc = p /\ cpu[c].scan > 0 /\ cpu[c].irq = "none"
      /\ cpu[c].on = "process" /\ thr[p] \in Thread
  BY <1>1, OnProcess
<1>4. waitScans(c, p, k) /\ UNCHANGED <<nextpid, ticks, panic>>
  BY DEF waitWakes
<1>5. ~k.fl
  <2>1. thr[p].intena \in BOOLEAN
    BY <1>3 DEF Thread
  <2>2. k.fl = cpu[c].fl
    BY <1>3, <2>1 DEF resumed, Cpu
  <2> QED
    BY <1>2, <2>2, Zenon
<1>6. /\ k \in Cpu /\ k.proc = p /\ k.scan > 0 /\ k.irq = "none"
      /\ k.on = "process" /\ k.ncli = 1 /\ k.intena
  BY <1>2, <1>3, Resumes
<1>7. InWait(c, p, k)
  BY <1>1, <1>2, <1>5, <1>6 DEF InWait
<1> HIDE DEF k
<1> QED
  BY <1>4, <1>7, WaitScans

-----------------------------------------------------------------------------
(* The invariant holds *)

\* After userinit.
LEMMA InitInv == Init => IInv
<1> SUFFICES ASSUME Init PROVE IInv
  OBVIOUS
<1>1. NoProc \in Proc /\ NoProc.state = "UNUSED" /\ NoProc.parent = 0
  <2>1. NoProc \in Proc
    BY Constants DEF NoProc, Proc, States
  <2> QED
    BY <2>1 DEF NoProc
<1> DEFINE a == [NoProc EXCEPT !.state = "RUNNABLE"]
           b == [a EXCEPT !.pid = 1]
<1>2. a \in Proc /\ a.state = "RUNNABLE" /\ a.parent = 0
  BY <1>1, ProcFields DEF States
<1> HIDE DEF a
<1>3. b \in Proc /\ b.state = "RUNNABLE" /\ b.parent = 0
  BY <1>2 DEF Proc
<1>4. proc = [s \in Slots |-> IF s = Init0 THEN b ELSE NoProc]
  BY DEF Init, a, b
<1> HIDE DEF b
<1>5. NewCpu \in Cpu /\ NewCpu.proc = 0 /\ NewCpu.on = "scheduler" /\ NewCpu.scan = 0
      /\ NewCpu.irq = "none" /\ NewCpu.ncli = 0
  <2>1. NewCpu \in Cpu
    BY Constants DEF NewCpu, Cpu
  <2> QED
    BY <2>1 DEF NewCpu
<1>6. NewCpu.fl
  <2>1. NewCpu.fl = TRUE
    BY DEF NewCpu
  <2> QED
    BY <2>1, Zenon
<1>7. /\ proc \in [Slots -> Proc] /\ thr \in [Slots -> Thread] /\ cpu \in [Cpus -> Cpu]
      /\ \A s \in Slots : thr[s] = NewThread
      /\ \A c \in Cpus : cpu[c] = NewCpu
      /\ proc[Init0] = b /\ \A s \in Slots : s # Init0 => proc[s] = NoProc
  <2>1. Init0 \in Slots
    BY Constants DEF Init0, Slots
  <2> QED
    BY <1>1, <1>3, <1>4, <1>5, <2>1, NewThreads DEF Init
<1>8. locked["ptable"] = 0 /\ locked["ticks"] = 0
  BY DEF Init, Locks
<1>9. TypeOK
  BY <1>7, Constants DEF Init, TypeOK, Locks
<1>10. LocksNeverPanic
  BY DEF Init, LocksNeverPanic
<1>11. CpuInv
  <2> SUFFICES ASSUME NEW c \in Cpus PROVE LocksExact(c) /\ Carries(c)
    BY DEF CpuInv
  <2>1. c # 0
    BY Constants DEF Cpus
  <2>2. ~HoldsTable(c) /\ ~HoldsTicks(c) /\ Irq(c) = "none"
    BY <1>5, <1>7 DEF HoldsTable, HoldsTicks, Irq
  <2> QED
    BY <1>5, <1>6, <1>7, <1>8, <2>1, <2>2 DEF LocksExact, Carries
<1>12. Alone
  BY <1>5, <1>7 DEF Alone
<1>13. SlotInv
  <2> SUFFICES ASSUME NEW s \in Slots PROVE SlotOK(s)
    BY DEF SlotInv
  <2> QED
    BY <1>1, <1>3, <1>7, NewThreads DEF SlotOK, Combined, Saved, Fresh, Switched
<1>14. ForkInv
  BY <1>7, NewThreads DEF ForkInv, Forking
<1>15. ParentInv
  BY <1>1, <1>3, <1>7, Constants DEF ParentInv, Alive, Slots
<1>16. ParentsWait
  BY <1>1, <1>7, NewThreads DEF ParentsWait
<1>17. TimeInv
  BY <1>7, NewThreads DEF TimeInv
<1> QED
  BY <1>9, <1>10, <1>11, <1>12, <1>13, <1>14, <1>15, <1>16, <1>17 DEF IInv

\* A CPU is in its scheduler or carries a slot.
LEMMA WhereCpuIs ==
    ASSUME IInv, NEW c \in Cpus
    PROVE  cpu[c].on # "process" \/ \E p \in Slots : Running(c, p)
<1>1. Carries(c)
  BY DEF IInv, CpuInv
<1> QED
  BY <1>1 DEF Carries, Running

\* No CPU acquires a spin lock it holds.
LEMMA NeverTwice ==
    ASSUME IInv, NEW c \in Cpus, NEW l \in Locks, Acquires(c, l)
    PROVE  locked[l] # c
<1>1. TypeOK /\ LocksExact(c) /\ Carries(c) /\ cpu[c] \in Cpu
  BY Typed DEF IInv, CpuInv
<1>2. l = "ptable" \/ l = "ticks"
  BY DEF Locks
<1>3. ASSUME Irq(c) \in {"tick", "wake"}
      PROVE  locked["ptable"] # c /\ (Irq(c) = "tick" => locked["ticks"] # c)
  <2>1. CASE cpu[c].on = "process"
    <3>1. PICK p \in Slots : Running(c, p)
      BY <2>1, WhereCpuIs
    <3>2. thr[p].irq = Irq(c)
      BY <3>1 DEF Running, Irq
    <3>3. thr[p].at \in Unlocked
      BY <1>3, <3>1, <3>2, OnProcess DEF Combined
    <3> QED
      BY <1>3, <3>1, <3>2, <3>3, AtUnlocked, AtTiming
  <2>2. CASE cpu[c].on # "process"
    <3>1. cpu[c].irq = Irq(c)
      BY <2>2 DEF Irq
    <3>2. cpu[c].on = "scheduler"
      BY <1>1, <1>3, <2>2, <3>1, AtSched DEF Cpu
    <3>3. cpu[c].scan \in Nat
      BY <1>1 DEF Cpu
    <3> QED
      BY <1>3, <3>1, <3>2, <3>3, AtScheduler
  <2> QED
    BY <2>1, <2>2
<1>4. ASSUME NEW p \in Slots, NEW a \in Unlocked, At(c, p, a)
      PROVE  locked["ptable"] # c /\ locked["ticks"] # c
  BY <1>4, AtUnlocked DEF At
<1>5. ASSUME NEW p \in Slots, NEW call, Calling(c, p, call)
      PROVE  locked["ptable"] # c /\ locked["ticks"] # c
  BY <1>4, <1>5 DEF Calling, Unlocked
<1>6. CASE l = "ptable"
  <2>1. CASE cpu[c].on = "scheduler" /\ cpu[c].scan = 0 /\ cpu[c].irq = "none"
    BY <1>6, <2>1, AtScheduler
  <2>2. CASE Irq(c) = "wake"
    BY <1>3, <1>6, <2>2
  <2>3. ASSUME NEW p \in Slots, Running(c, p), thr[p].irq = "check"
        PROVE  locked["ptable"] # c
    <3>1. thr[p].at \in Unlocked
      BY <2>3, OnProcess DEF Combined
    <3> QED
      BY <2>3, <3>1, AtUnlocked
  <2>4. ASSUME NEW p \in Slots, At(c, p, "forked") \/ At(c, p, "exit")
        PROVE  locked["ptable"] # c
    BY <1>4, <2>4 DEF Unlocked
  <2>5. ASSUME NEW p \in Slots, At(c, p, "sleeps") PROVE locked["ptable"] # c
    BY <2>5, AtTiming DEF At, Timing
  <2> QED
    BY <1>5, <1>6, <2>1, <2>2, <2>3, <2>4, <2>5 DEF Acquires
<1>7. CASE l = "ticks"
  <2>1. ASSUME NEW p \in Slots, At(c, p, "relock") PROVE locked["ticks"] # c
    BY <1>4, <2>1 DEF Unlocked
  <2> QED
    BY <1>3, <1>5, <1>7, <2>1 DEF Acquires
<1> QED
  BY <1>2, <1>6, <1>7

\* A CPU releases only a lock it holds, alone and with interrupts off.
LEMMA OnlyHeld ==
    ASSUME IInv, NEW c \in Cpus, NEW l \in Locks, Releases(c, l)
    PROVE  locked[l] = c /\ ~cpu[c].fl /\ cpu[c].ncli = 1
<1>1. TypeOK /\ cpu[c] \in Cpu
  BY Typed DEF IInv
<1>2. l = "ptable" \/ l = "ticks"
  BY DEF Locks
<1>3. ASSUME NEW p \in Slots, Running(c, p),
             \/ thr[p].at \in Switched \cup {"forkret"}
             \/ thr[p].irq = "yielded"
      PROVE  locked["ptable"] = c /\ ~cpu[c].fl /\ cpu[c].ncli = 1
  BY <1>3, AtSwitched
<1>4. CASE l = "ptable"
  <2>1. CASE cpu[c].on = "scheduler" /\ cpu[c].scan > 0
    BY <1>1, <1>4, <2>1, AtScheduler DEF Cpu
  <2>2. ASSUME NEW p \in Slots,
               \/ Running(c, p) /\ thr[p].irq = "yielded"
               \/ Running(c, p) /\ thr[p].at = "forkret"
               \/ At(c, p, "waiting") \/ At(c, p, "asleep")
        PROVE  locked["ptable"] = c /\ ~cpu[c].fl /\ cpu[c].ncli = 1
    BY <1>3, <2>2 DEF At, Switched
  <2> QED
    BY <1>4, <2>1, <2>2 DEF Releases
<1>5. CASE l = "ticks"
  <2>1. CASE Irq(c) = "wake"
    <3>1. CASE cpu[c].on = "process"
      <4>1. PICK p \in Slots : Running(c, p)
        BY <3>1, WhereCpuIs
      <4>2. thr[p].irq = "wake"
        BY <2>1, <4>1 DEF Running, Irq
      <4> QED
        BY <1>5, <4>1, <4>2, AtTiming
    <3>2. CASE cpu[c].on # "process"
      <4>1. cpu[c].irq = "wake"
        BY <2>1, <3>2 DEF Irq
      <4>2. cpu[c].on = "scheduler"
        BY <1>1, <3>2, <4>1, AtSched DEF Cpu
      <4> QED
        BY <1>5, <4>1, <4>2, AtScheduler
    <3> QED
      BY <3>1, <3>2
  <2>2. ASSUME NEW p \in Slots, At(c, p, "slept")
        PROVE  locked["ticks"] = c /\ ~cpu[c].fl /\ cpu[c].ncli = 1
    BY <2>2, AtTiming DEF At, Timing
  <2> QED
    BY <1>5, <2>1, <2>2 DEF Releases
<1> QED
  BY <1>2, <1>4, <1>5

\* What may panic is kill and the loss of a swap file, and no lock operation.
LEMMA Panics ==
    ASSUME IInv, NEW c \in Cpus, panics(c)
    PROVE  IInv'
<1>1. PICK why : MayPanic(c, why) /\ Panic(why)
  BY DEF panics
<1>2. why # "acquire"
  BY <1>1, NeverTwice DEF MayPanic
<1>3. ASSUME NEW p \in Slots, At(c, p, "sleeps") PROVE locked["ticks"] = c
  BY <1>3, AtTiming DEF At, Timing
<1>4. why # "release"
  BY <1>1, <1>3, OnlyHeld DEF MayPanic
<1>5. ASSUME why \in {"popcli interruptible", "popcli"} PROVE FALSE
  <2>1. PICK l \in Locks : Releases(c, l) /\ (cpu[c].fl \/ cpu[c].ncli < 1)
    BY <1>1, <1>5 DEF MayPanic
  <2>2. ~cpu[c].fl /\ cpu[c].ncli = 1
    BY <2>1, OnlyHeld
  <2> QED
    BY <2>1, <2>2
<1>6. why \in {"acquire in kill", "error deleting swap file"}
  BY <1>1, <1>2, <1>4, <1>5 DEF MayPanic
<1>7. panic' = why /\ UNCHANGED <<proc, thr, cpu, locked, nextpid, ticks>>
  BY <1>1 DEF Panic
<1>8. LocksNeverPanic'
  BY <1>6, <1>7 DEF LocksNeverPanic
<1> QED
  BY <1>7, <1>8, Unchanged

\* The invariant is inductive.
LEMMA NextInv == IInv /\ [Next]_vars => IInv'
<1> SUFFICES ASSUME IInv, [Next]_vars PROVE IInv'
  OBVIOUS
<1>1. CASE UNCHANGED vars
  <2>1. UNCHANGED <<proc, thr, cpu, locked, nextpid, ticks, panic>>
    BY <1>1 DEF vars
  <2>2. LocksNeverPanic'
    BY <2>1 DEF IInv, LocksNeverPanic
  <2> QED
    BY <2>1, <2>2, Unchanged
<1>2. CASE Next
  <2>1. PICK c \in Cpus : Kernel(c) \/ timer(c) \/ User(c)
    BY <1>2 DEF Next
  <2>2. CASE timer(c)
    BY <2>2, WhereCpuIs, TimerInProcess, TimerInScheduler
  <2>3. CASE User(c)
    <3>1. PICK p \in Slots :
            \/ syscallExits(c, p) \/ allocproc(c, p) \/ wait(c, p) \/ kill(c, p)
            \/ sleepStarts(c, p)
      BY <2>3 DEF User
    <3> QED
      BY <3>1, SyscallExits, Allocates, WaitStarts, Kills, SleepStarts
  <2>4. CASE Kernel(c)
    <3>1. CASE \/ scheduler(c) \/ schedulerGoesOn(c) \/ sched(c)
      BY <3>1, SchedulerStarts, SchedulerContinues, Scheduled
    <3>2. CASE tick(c)
      BY <3>2, WhereCpuIs, TickInProcess, TickInScheduler
    <3>3. CASE tickWakes(c)
      BY <3>3, WhereCpuIs, TickWakesInProcess, TickWakesInScheduler
    <3>7. CASE panics(c)
      BY <3>7, Panics
    <3>4. ASSUME NEW p \in Slots,
                 \/ trapExits(c, p) \/ yield(c, p) \/ yieldReturns(c, p)
                 \/ forkret(c, p) \/ syscallReturns(c, p)
          PROVE  IInv'
      BY <3>4, TrapExits, Yields, YieldReturns, Forkret, SyscallReturns
    <3>5. ASSUME NEW p \in Slots,
                 \/ forkFails(c, p) \/ forkCopies(c, p) \/ forkRuns(c, p)
                 \/ exit(c, p) \/ waitWakes(c, p)
          PROVE  IInv'
      BY <3>5, ForkFails, ForkCopies, ForkRuns, ProcessExits, WaitGoesOn
    <3>6. ASSUME NEW p \in Slots,
                 \/ sleepChecks(c, p) \/ sleep(c, p)
                 \/ sleepWakes(c, p) \/ sleepRelocks(c, p)
          PROVE  IInv'
      BY <3>6, SleepChecks, SleepsOnTicks, SleepWakes, SleepRelocks
    <3> QED
      BY <2>4, <3>1, <3>2, <3>3, <3>4, <3>5, <3>6, <3>7 DEF Kernel
  <2> QED
    BY <2>1, <2>2, <2>3, <2>4
<1> QED
  BY <1>1, <1>2

\* The invariant holds in every reachable state.
LEMMA InvHolds == Spec => []IInv
<1>1. Init => IInv
  BY InitInv
<1>2. IInv /\ [Next]_vars => IInv'
  BY NextInv
<1> QED
  BY <1>1, <1>2, PTL DEF Spec

-----------------------------------------------------------------------------
(* What follows *)

\* Outside kill no CPU acquires a spin lock it holds or releases one it does
\* not, pushcli and popcli are matched and sched() finds ptable.lock held alone
\* and interrupts off: acquire, release, popcli and sched never panic.
THEOREM TableLocksNeverPanic == Spec => []LocksNeverPanic
<1>1. IInv => LocksNeverPanic
  BY DEF IInv
<1> QED
  BY <1>1, InvHolds, PTL

\* The invariant implies clean switches.
LEMMA CleanFromInv == IInv => SwitchesClean
<1> SUFFICES ASSUME IInv PROVE SwitchesClean
  OBVIOUS
<1>1. ASSUME NEW c \in Cpus, cpu[c].on # "scheduler"
      PROVE  /\ proc[cpu[c].proc].state \notin {"UNUSED", "EMBRYO"}
             /\ \A d \in Cpus \ {c} : cpu[d].proc # cpu[c].proc
             /\ cpu[c].on = "process" => proc[cpu[c].proc].state = "RUNNING"
  <2>1. Carries(c) /\ Alone /\ cpu[c] \in Cpu
    BY Typed DEF IInv, CpuInv
  <2>2. cpu[c].proc \in Slots /\ cpu[c].proc # 0
    BY <1>1, <2>1, Constants DEF Carries, Slots
  <2>3. cpu[c].on = "process" \/ cpu[c].on = "sched"
    BY <1>1, <2>1 DEF Cpu
  <2>4. \A d \in Cpus \ {c} : cpu[d].proc # cpu[c].proc
    BY <2>1, <2>2 DEF Alone
  <2> QED
    BY <2>1, <2>3, <2>4 DEF Carries
<1>2. ASSUME NEW c \in Cpus, cpu[c].on = "process"
      PROVE  cpu[c].fl = (cpu[c].ncli = 0 /\ thr[cpu[c].proc].irq = "none")
  <2>1. LocksExact(c) /\ cpu[c] \in Cpu
    BY Typed DEF IInv, CpuInv
  <2>2. cpu[c].fl \in BOOLEAN
    BY <2>1 DEF Cpu
  <2>3. cpu[c].fl <=> cpu[c].ncli = 0 /\ thr[cpu[c].proc].irq = "none"
    BY <1>2, <2>1 DEF LocksExact, Irq
  <2> QED
    BY <2>2, <2>3, Zenon
<1>3. \A s \in Slots : proc[s].state = "RUNNING" => \E c \in Cpus : cpu[c].proc = s
  BY DEF IInv, SlotInv, SlotOK, Carried
<1> QED
  BY <1>1, <1>2, <1>3, Zenon DEF SwitchesClean

\* swtch, sched() and the scheduler hand processes from CPU to CPU cleanly,
\* with the interrupt flag each of them left with.
THEOREM TableSwitchesClean == Spec => []SwitchesClean
BY InvHolds, CleanFromInv, PTL

\* exit, wait, fork and kill keep every process in some living parent's care,
\* and no wakeup of a sleeper in wait is lost.
THEOREM TableParentsWait == Spec => []ParentsWait
<1>1. IInv => ParentsWait
  BY DEF IInv
<1> QED
  BY <1>1, InvHolds, PTL

\* Only sleepChecks ends a sleep: no other step takes a thread from the check
\* of sys_sleep to the end of its call.
LEMMA OnlyTheCheckReturns ==
    ASSUME IInv, Next, NEW p \in Slots, thr[p].at = "slept", thr'[p].at = "ret"
    PROVE  \E c \in Cpus : sleepChecks(c, p)
<1>1. TypeOK /\ TimeInv /\ ForkInv /\ thr \in [Slots -> Thread] /\ thr[p] \in Thread
  BY DEF IInv, TypeOK
<1> SUFFICES ASSUME ~ \E c \in Cpus : sleepChecks(c, p) PROVE FALSE
  OBVIOUS
<1>2. ~UNCHANGED thr
  OBVIOUS
<1>3. ASSUME NEW q \in Slots, NEW r, Returns(q, r), thr[q].at # "slept"
      PROVE  FALSE
  <2>1. p # q
    BY <1>3
  <2> QED
    BY <1>1, <1>3, <2>1 DEF Returns
<1>4. ASSUME NEW q \in Slots, NEW l \in Places, Go(q, l), l # "ret"
      PROVE  FALSE
  BY <1>1, <1>4, Goes
<1>5. ASSUME NEW q \in Slots, NEW t \in Thread, thr' = [thr EXCEPT ![q] = t],
             t.at # "ret" \/ thr[q].at # "slept"
      PROVE  FALSE
  BY <1>1, <1>5
<1>6. PICK c \in Cpus : Kernel(c) \/ timer(c) \/ User(c)
  BY DEF Next
<1>7. ~scheduler(c) /\ ~schedulerGoesOn(c) /\ ~panics(c)
  BY <1>2 DEF scheduler, schedulerGoesOn, panics, Panic
<1>8. ~sched(c)
  <2> SUFFICES ASSUME sched(c) PROVE FALSE
    OBVIOUS
  <2>1. PICK q \in Slots : q = cpu[c].proc
    BY AtSched DEF sched
  <2> DEFINE t == IF proc[q].state = "ZOMBIE" THEN NewThread
                  ELSE [thr[q] EXCEPT !.intena = cpu[c].intena]
  <2>2. thr' = [thr EXCEPT ![q] = t]
    BY <2>1, SchedNoPanic
  <2>3. thr[q] \in Thread /\ cpu[c].intena \in BOOLEAN
    BY <1>1, Typed DEF Cpu
  <2>4. t \in Thread /\ (t.at = "forkret" \/ t.at = thr[q].at)
    <3>1. CASE proc[q].state = "ZOMBIE"
      BY <3>1, NewThreads
    <3>2. CASE proc[q].state # "ZOMBIE"
      BY <2>3, <3>2, ThreadFields
    <3> QED
      BY <3>1, <3>2
  <2> HIDE DEF t
  <2> QED
    BY <1>5, <2>2, <2>4
<1>9. ASSUME NEW k, NEW h \in Handlers, SetIrq(c, k, h), k.on = "process" => k.proc \in Slots
      PROVE  FALSE
  <2>1. CASE k.on = "process"
    <3>1. PICK q \in Slots : q = k.proc
      BY <1>9, <2>1
    <3>2. thr' = [thr EXCEPT ![q] = [thr[q] EXCEPT !.irq = h]]
      BY <1>9, <2>1, <3>1 DEF SetIrq
    <3>3. [thr[q] EXCEPT !.irq = h] \in Thread /\ [thr[q] EXCEPT !.irq = h].at = thr[q].at
      BY <1>1, ThreadFields
    <3> QED
      BY <1>5, <3>2, <3>3
  <2>2. CASE k.on # "process"
    BY <1>2, <1>9, <2>2 DEF SetIrq
  <2> QED
    BY <2>1, <2>2
<1>10. cpu[c] \in Cpu /\ (cpu[c].on = "process" => cpu[c].proc \in Slots)
  BY <1>1, Typed DEF IInv, CpuInv, Carries
<1>11. ~timer(c)
  <2> DEFINE k == [cpu[c] EXCEPT !.fl = FALSE]
             h == IF c = 1 THEN "tick" ELSE "check"
  <2>1. k.on = cpu[c].on /\ k.proc = cpu[c].proc
    BY <1>10, CpuFlag
  <2>2. h \in Handlers
    BY DEF Handlers
  <2>3. timer(c) => SetIrq(c, k, h)
    BY DEF timer
  <2> HIDE DEF k, h
  <2> QED
    BY <1>9, <1>10, <2>1, <2>2, <2>3
<1>12. ~tick(c)
  <2> SUFFICES ASSUME tick(c) PROVE FALSE
    OBVIOUS
  <2> DEFINE k == pushcli(cpu[c])
  <2>1. k.on = cpu[c].on /\ k.proc = cpu[c].proc
    BY <1>10, Pushed
  <2>2. \/ UNCHANGED thr
        \/ k.on = "process" /\ thr' = [[s \in Slots |-> counted(s)] EXCEPT ![k.proc].irq = "wake"]
        \/ thr' = [s \in Slots |-> counted(s)]
    BY Zenon DEF tick, counted, Panic
  <2> HIDE DEF k
  <2>3. \A s \in Slots : counted(s) \in Thread /\ counted(s).at = thr[s].at
    BY <1>1, Counts
  <2>4. CASE k.on = "process" /\ thr' = [[s \in Slots |-> counted(s)] EXCEPT ![k.proc].irq = "wake"]
    <3>1. PICK q \in Slots : q = k.proc
      BY <1>10, <2>1, <2>4
    <3>2. thr'[q] = [counted(q) EXCEPT !.irq = "wake"] /\ \A s \in Slots : s # q => thr'[s] = counted(s)
      BY <2>4, <3>1
    <3>3. thr'[q].at = counted(q).at
      <4>1. "wake" \in Handlers
        BY DEF Handlers
      <4> QED
        BY <2>3, <3>2, <4>1, ThreadFields
    <3> QED
      BY <2>3, <3>2, <3>3
  <2>5. CASE thr' = [s \in Slots |-> counted(s)]
    BY <2>3, <2>5
  <2> QED
    BY <1>2, <2>2, <2>4, <2>5
<1>13. ~tickWakes(c)
  <2> SUFFICES ASSUME tickWakes(c) PROVE FALSE
    OBVIOUS
  <2>1. cpu[c].ncli = 1
    <3>1. CASE cpu[c].on = "process"
      <4>1. PICK q \in Slots : Running(c, q) /\ thr[q].irq = "wake"
        BY <3>1, <1>10 DEF tickWakes, Irq, Running
      <4> QED
        BY <4>1, AtTiming
    <3>2. CASE cpu[c].on # "process"
      <4>1. cpu[c].irq = "wake" /\ cpu[c].on = "scheduler"
        BY <3>2, <1>10, AtSched DEF tickWakes, Irq, Cpu
      <4> QED
        BY <4>1, AtScheduler
    <3> QED
      BY <3>1, <3>2
  <2> DEFINE j == popcli(cpu[c])
             k == [j EXCEPT !.fl = TRUE]
  <2>2. j \in Cpu /\ j.on = cpu[c].on /\ j.proc = cpu[c].proc
    BY <1>10, <2>1, Popped
  <2>3. \/ UNCHANGED thr
        \/ j.on = "process" /\ SetIrq(c, j, "check")
        \/ j.on # "process" /\ SetIrq(c, k, "none")
    BY Zenon DEF tickWakes, Panic
  <2> HIDE DEF j
  <2>4. k.on = j.on
    BY <2>2, CpuFlag
  <2> HIDE DEF k
  <2>5. "check" \in Handlers /\ "none" \in Handlers
    BY DEF Handlers
  <2> QED
    BY <1>2, <1>9, <1>10, <2>2, <2>3, <2>4, <2>5
<1>14. PICK q \in Slots :
         \/ trapExits(c, q) \/ yield(c, q) \/ yieldReturns(c, q)
         \/ forkret(c, q) \/ syscallReturns(c, q)
         \/ forkFails(c, q) \/ forkCopies(c, q) \/ forkRuns(c, q)
         \/ exit(c, q) \/ waitWakes(c, q)
         \/ sleepChecks(c, q) \/ sleep(c, q)
         \/ sleepWakes(c, q) \/ sleepRelocks(c, q)
         \/ syscallExits(c, q) \/ allocproc(c, q) \/ wait(c, q) \/ kill(c, q)
         \/ sleepStarts(c, q)
  BY <1>6, <1>7, <1>8, <1>11, <1>12, <1>13 DEF Kernel, User
<1>15. \A l \in {"exit", "user", "slept", "sleeps", "asleep", "waiting"} : l \in Places /\ l # "ret"
  BY DEF Places, Unlocked, Switched, Timing
<1>16. ~forkret(c, q) /\ ~syscallExits(c, q) /\ ~syscallReturns(c, q) /\ ~sleep(c, q)
       /\ ~sleepRelocks(c, q)
  <2>1. ~forkret(c, q)
    BY <1>4, <1>15 DEF forkret, Go
  <2>2. ~syscallExits(c, q)
    BY <1>4, <1>15 DEF syscallExits
  <2>3. ~syscallReturns(c, q)
    <3>1. syscallReturns(c, q) => Go(q, "exit") \/ Go(q, "user")
      BY DEF syscallReturns
    <3> QED
      BY <1>4, <1>15, <3>1
  <2>4. ~sleep(c, q) /\ ~sleepRelocks(c, q)
    BY <1>4, <1>15 DEF sleep, sleepRelocks
  <2> QED
    BY <2>1, <2>2, <2>3, <2>4
<1>17. ~exit(c, q)
  BY <1>2 DEF exit, Panic
<1>18. ~forkFails(c, q) /\ ~forkRuns(c, q) /\ ~kill(c, q)
  BY <1>3 DEF forkFails, forkRuns, kill, Calling, At
<1>19. ~sleepChecks(c, q)
  <2>1. sleepChecks(c, q) => q # p /\ (Returns(q, 0) \/ Go(q, "sleeps"))
    BY DEF sleepChecks
  <2>2. q # p => ~Returns(q, 0)
    BY <1>1 DEF Returns
  <2> QED
    BY <1>4, <1>15, <2>1, <2>2
<1>20. ~wait(c, q) /\ ~waitWakes(c, q)
  <2>1. ASSUME NEW k, waitScans(c, q, k), thr[q].at # "slept" PROVE FALSE
    <3>1. Go(q, "waiting") \/ \E r : Returns(q, r)
      BY <2>1, Zenon DEF waitScans
    <3> QED
      BY <1>3, <1>4, <1>15, <2>1, <3>1
  <2>2. wait(c, q) => thr[q].at # "slept" /\ waitScans(c, q, pushcli(cpu[c]))
    BY DEF wait, Calling, At
  <2>3. waitWakes(c, q) => thr[q].at # "slept" /\ waitScans(c, q, resumed(q, cpu[c]))
    BY DEF waitWakes, At
  <2> QED
    BY <2>1, <2>2, <2>3
<1>21. q # p => ~trapExits(c, q) /\ ~yield(c, q) /\ ~yieldReturns(c, q) /\ ~sleepWakes(c, q)
                /\ ~sleepStarts(c, q) /\ ~allocproc(c, q)
  <2> SUFFICES ASSUME q # p
               PROVE  ~trapExits(c, q) /\ ~yield(c, q) /\ ~yieldReturns(c, q) /\ ~sleepWakes(c, q)
                      /\ ~sleepStarts(c, q) /\ ~allocproc(c, q)
    OBVIOUS
  <2>1. ~ \E x : thr' = [thr EXCEPT ![q] = x]
    BY <1>1
  <2>2. ~trapExits(c, q) /\ ~yieldReturns(c, q)
    BY <2>1, Zenon DEF trapExits, yieldReturns
  <2>3. ~yield(c, q)
    BY <1>1 DEF yield
  <2>4. ~sleepWakes(c, q)
    BY <1>1 DEF sleepWakes
  <2>5. ~sleepStarts(c, q)
    BY <1>1 DEF sleepStarts
  <2>6. ~allocproc(c, q)
    <3> SUFFICES ASSUME allocproc(c, q) PROVE FALSE
      OBVIOUS
    <3>1. \/ Returns(q, -1)
          \/ \E m : thr' = [thr EXCEPT ![q].at = "copy", ![q].np = m]
      BY Zenon DEF allocproc
    <3>2. ~ \E m : thr' = [thr EXCEPT ![q].at = "copy", ![q].np = m]
      BY <1>1
    <3> QED
      BY <2>1, <3>1, <3>2 DEF Returns
  <2> QED
    BY <2>2, <2>3, <2>4, <2>5, <2>6
<1>22. ~trapExits(c, p) /\ ~yield(c, p) /\ ~yieldReturns(c, p) /\ ~sleepWakes(c, p)
       /\ ~sleepStarts(c, p) /\ ~allocproc(c, p)
  <2>1. ~trapExits(c, p) /\ ~sleepWakes(c, p) /\ ~sleepStarts(c, p) /\ ~allocproc(c, p)
    BY DEF trapExits, Killed, sleepWakes, sleepStarts, allocproc, Calling, At
  <2>2. Running(c, p) => thr[p].irq \in {"none", "wake"}
    BY AtTiming DEF Timing
  <2> QED
    BY <2>1, <2>2 DEF yield, yieldReturns
<1>23. ~forkCopies(c, q)
  <2> SUFFICES ASSUME forkCopies(c, q) PROVE FALSE
    OBVIOUS
  <2>1. q # p /\ thr' = [thr EXCEPT ![q].at = "forked", ![thr[q].np] = NewThread]
    BY DEF forkCopies, At
  <2>2. thr'[p] = thr[p] \/ thr'[p] = NewThread
    BY <1>1, <2>1
  <2> QED
    BY <2>2, NewThreads
<1> QED
  BY <1>14, <1>16, <1>17, <1>18, <1>19, <1>20, <1>21, <1>22, <1>23

\* The check of sys_sleep, read through TimeInv.
LEMMA SleptEnough ==
    ASSUME IInv, Next, NEW p \in Slots, thr[p].at = "slept", thr'[p].at = "ret",
           ~proc[p].killed
    PROVE  thr[p].elapsed >= thr[p].n
<1>1. TimeInv /\ thr[p] \in Thread
  BY DEF IInv, TypeOK
<1>2. /\ thr[p].n \in 0 .. TICKS - 1 /\ thr[p].elapsed \in 0 .. TICKS /\ TICKS \in Nat
  BY <1>1, Constants DEF Thread
<1>3. PICK c \in Cpus : sleepChecks(c, p)
  BY OnlyTheCheckReturns
<1>4. Elapsed(p)
  <2>1. Go(p, "sleeps") => thr'[p].at = "sleeps"
    BY Goes DEF Places, Timing, IInv
  <2> QED
    BY <1>3, <2>1 DEF sleepChecks
<1>5. CASE thr[p].n = 0
  BY <1>2, <1>5
<1>6. CASE thr[p].n # 0 /\ thr[p].elapsed < TICKS
  BY <1>1, <1>4, <1>6 DEF TimeInv, Elapsed
<1>7. CASE ~(thr[p].elapsed < TICKS)
  BY <1>2, <1>7
<1> QED
  BY <1>5, <1>6, <1>7

\* sys_sleep's comparison of unsigned tick counts is right across the wrap of
\* the counter, for every modulus: whoever sleeps n ticks and is not killed
\* sees n of them go by.
THEOREM TableSleepsLongEnough == Spec => SleepsLongEnough
<1> DEFINE A == \A p \in Slots :
                  thr[p].at = "slept" /\ thr'[p].at = "ret" /\ ~proc[p].killed
                    => thr[p].elapsed >= thr[p].n
<1>1. IInv /\ [Next]_vars => [A]_vars
  <2> SUFFICES ASSUME IInv, Next PROVE A
    BY DEF vars
  <2> QED
    BY SleptEnough
<1> HIDE DEF A
<1>2. Spec => [][A]_vars
  BY <1>1, InvHolds, PTL DEF Spec
<1> QED
  BY <1>2 DEF A, SleepsLongEnough

=============================================================================
