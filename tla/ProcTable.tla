----------------------------- MODULE ProcTable -----------------------------
(***************************************************************************)
(* The process table of xv6 (proc.c) on several CPUs: fork, exit, wait,    *)
(* kill, sleep(n), the scheduler, the spin locks ptable.lock and tickslock *)
(* with the interrupt flag they mask (spinlock.c), the timer interrupt     *)
(* (trap.c), and the user program init.                                    *)
(*                                                                         *)
(* A section that takes a spin lock and gives it back is one step; a lock  *)
(* held over a sleep, a switch or a second lock is in `locked'.  A thread  *)
(* that has set its state under ptable.lock switches to the scheduler in a *)
(* step of its own.  Files, memory and sockets are in the modules FileSys, *)
(* Paging and Sock; where one of them can make exit or kill panic, both    *)
(* outcomes are allowed here.                                              *)
(***************************************************************************)
EXTENDS Integers, FiniteSets, FiniteSetsExt

CONSTANTS
    NPROC, NCPU,
    TICKS,          \* the values of the unsigned counter ticks, 2^32 in C
    SleepArgs,      \* arguments of sleep, as the unsigned numbers C compares
    KillArgs,
    MaxPid          \* bound: pids handed out

ASSUME NPROCAssumption == NPROC \in Nat \ {0} /\ NCPU \in Nat \ {0}
ASSUME TICKSAssumption == TICKS \in Nat \ {0} /\ SleepArgs \subseteq 0 .. TICKS - 1

VARIABLES
    proc,       \* ptable.proc
    thr,        \* where the kernel or user code of each slot is
    cpu,
    locked,     \* the CPU that holds each spin lock
    nextpid, ticks,
    todo, shpid,    \* init's next call, and the pid of its shell
    panic

vars == <<proc, thr, cpu, locked, nextpid, ticks, todo, shpid, panic>>

Slots == 1 .. NPROC
Locks == {"ptable", "ticks"}
Cpus == 1 .. NCPU
Init0 == 1          \* initproc
NoProc == [state |-> "UNUSED", pid |-> 0, parent |-> 0, chan |-> 0,
           killed |-> FALSE]
TicksChan == NPROC + 1      \* &ticks; a slot is its own channel in wait

\* at: where the system call is; irq: where an interrupt handler on top of it
\* is; intena: what sched() saved; elapsed: the ticks since sleep began.
NewThread == [at |-> "forkret", irq |-> "none", intena |-> FALSE, np |-> 0,
              n |-> 0, ticks0 |-> 0, elapsed |-> 0, ret |-> 0]

\* scan: the scheduler's place in the table, 0 outside its loop.
NewCpu == [proc |-> 0, on |-> "scheduler", scan |-> 0, irq |-> "none",
           ncli |-> 0, intena |-> FALSE, fl |-> TRUE]

\* userinit has made the first process; every CPU enters its scheduler.
Init ==
    /\ proc = [s \in Slots |-> IF s = Init0
                 THEN [NoProc EXCEPT !.state = "RUNNABLE", !.pid = 1]
                 ELSE NoProc]
    /\ thr = [s \in Slots |-> NewThread]
    /\ cpu = [c \in Cpus |-> NewCpu]
    /\ locked = [l \in Locks |-> 0]
    /\ nextpid = 2 /\ ticks = 0
    /\ todo = "fork" /\ shpid = 0
    /\ panic = "none"

-----------------------------------------------------------------------------
(* spinlock.c *)

pushcli(k) ==
    [k EXCEPT !.ncli = @ + 1, !.fl = FALSE,
              !.intena = IF k.ncli = 0 THEN k.fl ELSE @]

\* As if every popcli restored the flag, the inner ones too.
popcliEager(k) ==
    [k EXCEPT !.ncli = @ - 1, !.fl = k.intena, !.intena = k.ncli > 1 /\ @]

\* intena means nothing while ncli is 0.
popcli(k) ==
    [k EXCEPT !.ncli = @ - 1, !.fl = k.ncli = 1 /\ k.intena,
              !.intena = k.ncli > 1 /\ @]

\* A section takes lock l and gives it back at once.
Section(c, l) == locked[l] = 0

\* When one of these two or popcli panics is in MayPanic below.
acquire(c, l) == locked[l] = 0 /\ locked' = [locked EXCEPT ![l] = c]
MayRelease(c, l) == locked[l] = c /\ ~cpu[c].fl /\ cpu[c].ncli >= 1
release(c, l) == MayRelease(c, l) /\ locked' = [locked EXCEPT ![l] = 0]

Panic(why) == /\ panic' = why
              /\ UNCHANGED <<proc, thr, cpu, locked, nextpid, ticks, todo, shpid>>

-----------------------------------------------------------------------------
(* wakeup1, and what the scheduler does *)

wakeup1(t, chan) ==
    [s \in Slots |-> IF t[s].state = "SLEEPING" /\ t[s].chan = chan
                     THEN [t[s] EXCEPT !.state = "RUNNABLE"] ELSE t[s]]

Ready(from) == {s \in Slots : s >= from /\ proc[s].state = "RUNNABLE"}

\* swtch to p, with ptable.lock held.
run(c, k, p) ==
    /\ proc' = [proc EXCEPT ![p].state = "RUNNING"]
    /\ cpu' = [cpu EXCEPT ![c] = [k EXCEPT !.proc = p, !.on = "process",
                                           !.scan = p + 1]]

\* A pass over the table that finds a process; one that does not changes
\* nothing.
scheduler(c) ==
    /\ cpu[c].on = "scheduler" /\ cpu[c].scan = 0 /\ cpu[c].irq = "none"
    /\ Ready(1) # {}
    /\ acquire(c, "ptable")
    /\ run(c, pushcli(cpu[c]), Min(Ready(1)))
    /\ UNCHANGED <<thr, nextpid, ticks, todo, shpid, panic>>

\* The pass goes on after the process that ran; at its end the lock is
\* released and interrupts are enabled.
schedulerGoesOn(c) ==
    /\ cpu[c].on = "scheduler" /\ cpu[c].scan > 0
    /\ LET ready == Ready(cpu[c].scan)
       IN  IF ready = {}
           THEN /\ release(c, "ptable")
                /\ cpu' = [cpu EXCEPT ![c] =
                             [popcli(@) EXCEPT !.scan = 0, !.fl = TRUE]]
                /\ UNCHANGED proc
           ELSE run(c, cpu[c], Min(ready)) /\ UNCHANGED locked
    /\ UNCHANGED <<thr, nextpid, ticks, todo, shpid, panic>>

\* As if intena belonged to the CPU.
schedForgets(c) ==
    /\ cpu[c].on = "sched"
    /\ cpu' = [cpu EXCEPT ![c].proc = 0, ![c].on = "scheduler"]
    /\ UNCHANGED <<proc, thr, locked, nextpid, ticks, todo, shpid, panic>>

\* sched: the thread has set its state and now leaves the CPU.
sched(c) ==
    LET p == cpu[c].proc
        why == CASE locked["ptable"] # c -> "sched ptable.lock"
                 [] cpu[c].ncli # 1 -> "sched locks"
                 [] proc[p].state = "RUNNING" -> "sched running"
                 [] cpu[c].fl -> "sched interruptible"
                 [] OTHER -> "none"
    IN  /\ cpu[c].on = "sched"
        /\ IF why # "none" THEN Panic(why)
           ELSE /\ thr' = [thr EXCEPT ![p] = IF proc[p].state = "ZOMBIE" THEN NewThread
                                          ELSE [@ EXCEPT !.intena = cpu[c].intena]]
                /\ cpu' = [cpu EXCEPT ![c].proc = 0, ![c].on = "scheduler"]
                /\ UNCHANGED <<proc, locked, nextpid, ticks, todo, shpid, panic>>

\* Back from sched with ptable.lock held: k is the CPU it runs on now.
resumed(p, k) == [k EXCEPT !.intena = thr[p].intena]

-----------------------------------------------------------------------------
(* The timer interrupt *)

Irq(c) == IF cpu[c].on = "process" THEN thr[cpu[c].proc].irq ELSE cpu[c].irq

SetIrq(c, k, h) ==
    IF k.on = "process"
    THEN /\ thr' = [thr EXCEPT ![k.proc].irq = h]
         /\ cpu' = [cpu EXCEPT ![c] = k]
    ELSE /\ cpu' = [cpu EXCEPT ![c] = [k EXCEPT !.irq = h]]
         /\ UNCHANGED thr

\* The handler runs with interrupts off; only CPU 0 (1 here) keeps the time.
timer(c) ==
    /\ cpu[c].fl /\ (c = 1 \/ cpu[c].on = "process")
    /\ Irq(c) = "none"
    /\ SetIrq(c, [cpu[c] EXCEPT !.fl = FALSE], IF c = 1 THEN "tick" ELSE "check")
    /\ UNCHANGED <<proc, locked, nextpid, ticks, todo, shpid, panic>>

tick(c) ==
    /\ Irq(c) = "tick"
    /\ acquire(c, "ticks")
    /\ ticks' = (ticks + 1) % TICKS
    /\ LET k == pushcli(cpu[c])
           counted == [s \in Slots |-> IF thr[s].n = 0 THEN thr[s] ELSE
                         [thr[s] EXCEPT !.elapsed = Min({@ + 1, TICKS})]]
       IN  IF k.on = "process"
           THEN /\ thr' = [counted EXCEPT ![k.proc].irq = "wake"]
                /\ cpu' = [cpu EXCEPT ![c] = k]
           ELSE /\ thr' = counted
                /\ cpu' = [cpu EXCEPT ![c] = [k EXCEPT !.irq = "wake"]]
    /\ UNCHANGED <<proc, nextpid, todo, shpid, panic>>

\* wakeup(&ticks), then release; the scheduler's handler returns.
tickWakes(c) ==
    /\ Irq(c) = "wake"
    /\ Section(c, "ptable")
    /\ proc' = wakeup1(proc, TicksChan)
    /\ release(c, "ticks")
    /\ LET k == popcli(cpu[c])
       IN  IF k.on = "process" THEN SetIrq(c, k, "check")
           ELSE SetIrq(c, [k EXCEPT !.fl = TRUE], "none")
    /\ UNCHANGED <<nextpid, ticks, todo, shpid, panic>>

-----------------------------------------------------------------------------
(* The end of trap: a killed process exits on its way to user space *)

Running(c, p) == cpu[c].on = "process" /\ cpu[c].proc = p

Killed(p) == proc[p].killed /\ thr[p].at = "user"

\* Where an interrupt that found p in user space after a kill leads.
Exits(t) == [t EXCEPT !.at = "exit", !.irq = "exits"]

trapExits(c, p) ==
    /\ Running(c, p) /\ thr[p].irq = "check" /\ Killed(p)
    /\ thr' = [thr EXCEPT ![p] = Exits(@)]
    /\ UNCHANGED <<proc, cpu, locked, nextpid, ticks, todo, shpid, panic>>

yield(c, p) ==
    /\ Running(c, p) /\ thr[p].irq = "check" /\ ~Killed(p)
    /\ acquire(c, "ptable")
    /\ proc' = [proc EXCEPT ![p].state = "RUNNABLE"]
    /\ thr' = [thr EXCEPT ![p].irq = "yielded"]
    /\ cpu' = [cpu EXCEPT ![c] = [pushcli(@) EXCEPT !.on = "sched"]]
    /\ UNCHANGED <<nextpid, ticks, todo, shpid, panic>>

\* Back on a CPU: the last look at killed, and the iret.
yieldReturns(c, p) ==
    /\ Running(c, p) /\ thr[p].irq = "yielded"
    /\ release(c, "ptable")
    /\ LET k == popcli(resumed(p, cpu[c]))
           t == [thr[p] EXCEPT !.irq = "none", !.intena = FALSE]
       IN  /\ thr' = [thr EXCEPT ![p] = IF Killed(p) THEN Exits(t) ELSE t]
           /\ cpu' = [cpu EXCEPT ![c] = IF Killed(p) THEN k
                                        ELSE [k EXCEPT !.fl = TRUE]]
    /\ UNCHANGED <<proc, nextpid, ticks, todo, shpid, panic>>

\* The first run of a process ends in user space, where its trap frame has
\* interrupts enabled.
forkret(c, p) ==
    /\ Running(c, p) /\ thr[p].at = "forkret"
    /\ release(c, "ptable")
    /\ cpu' = [cpu EXCEPT ![c] = [popcli(@) EXCEPT !.fl = TRUE]]
    /\ thr' = [thr EXCEPT ![p].at = "user"]
    /\ UNCHANGED <<proc, nextpid, ticks, todo, shpid, panic>>

-----------------------------------------------------------------------------
(* System calls *)

At(c, p, l) ==
    Running(c, p) /\ thr[p].irq \in {"none", "exits"} /\ thr[p].at = l

Go(p, l) == thr' = [thr EXCEPT ![p].at = l]

\* The call is over with result r; only init's program looks at it.
Returns(p, r) ==
    thr' = [thr EXCEPT ![p] =
              [NewThread EXCEPT !.at = "ret", !.ret = IF p = Init0 THEN r ELSE 0]]

\* The calls a process may make: init follows its program.
Calls(p) ==
    (IF p = Init0 THEN {todo} ELSE {"fork", "exit", "wait", "kill", "sleep"})
      \ (IF nextpid > MaxPid THEN {"fork"} ELSE {})

\* Process p makes call l: trap's first look at killed.
Calling(c, p, l) == At(c, p, "user") /\ ~proc[p].killed /\ l \in Calls(p)

syscallExits(c, p) ==
    /\ At(c, p, "user") /\ (proc[p].killed \/ "exit" \in Calls(p))
    /\ Go(p, "exit")
    /\ UNCHANGED <<proc, cpu, locked, nextpid, ticks, todo, shpid, panic>>

\* trap's second look at killed, then init.c's loop.
syscallReturns(c, p) ==
    /\ At(c, p, "ret")
    /\ Go(p, IF proc[p].killed THEN "exit" ELSE "user")
    /\ IF p = Init0 /\ ~proc[p].killed
       THEN IF todo = "fork"
            THEN /\ shpid' = thr[p].ret
                 /\ todo' = IF thr[p].ret = -1 THEN "exit" ELSE "wait"
            ELSE /\ todo' = IF thr[p].ret \in {-1, shpid} THEN "fork" ELSE "wait"
                 /\ UNCHANGED shpid
       ELSE UNCHANGED <<todo, shpid>>
    /\ UNCHANGED <<proc, cpu, locked, nextpid, ticks, panic>>

\* allocproc: the first UNUSED slot.
allocproc(c, p) ==
    /\ Calling(c, p, "fork") /\ Section(c, "ptable")
    /\ LET free == {s \in Slots : proc[s].state = "UNUSED"}
           np == Min(free)
       IN  IF free = {}
           THEN Returns(p, -1) /\ UNCHANGED <<proc, nextpid>>
           ELSE /\ proc' = [proc EXCEPT ![np].state = "EMBRYO",
                                        ![np].pid = nextpid]
                /\ nextpid' = nextpid + 1
                /\ thr' = [thr EXCEPT ![p].at = "copy", ![p].np = np]
    /\ UNCHANGED <<cpu, locked, ticks, todo, shpid, panic>>

\* No memory for the kernel stack or for the copy: the slot is given back
\* with its pid and its killed flag as they are.
forkFails(c, p) ==
    /\ At(c, p, "copy")
    /\ proc' = [proc EXCEPT ![thr[p].np].state = "UNUSED"]
    /\ Returns(p, -1)
    /\ UNCHANGED <<cpu, locked, nextpid, ticks, todo, shpid, panic>>

forkCopies(c, p) ==
    /\ At(c, p, "copy")
    /\ proc' = [proc EXCEPT ![thr[p].np].parent = p]
    /\ thr' = [thr EXCEPT ![p].at = "forked", ![thr[p].np] = NewThread]
    /\ UNCHANGED <<cpu, locked, nextpid, ticks, todo, shpid, panic>>

forkRuns(c, p) ==
    /\ At(c, p, "forked") /\ Section(c, "ptable")
    /\ proc' = [proc EXCEPT ![thr[p].np].state = "RUNNABLE"]
    /\ Returns(p, proc[thr[p].np].pid)
    /\ UNCHANGED <<cpu, locked, nextpid, ticks, todo, shpid, panic>>

\* exit passes p's children to init, and wakes it for those already dead.
abandon(t, p) ==
    LET kids == {s \in Slots : t[s].parent = p}
        adopted == [s \in Slots |-> IF s \in kids
                      THEN [t[s] EXCEPT !.parent = Init0] ELSE t[s]]
    IN  IF \E s \in kids : t[s].state = "ZOMBIE"
        THEN wakeup1(adopted, Init0) ELSE adopted

\* removeSwapFile may fail: somebody has removed the file (FileSys).
SwapFileGone(c) ==
    \E p \in Slots : At(c, p, "exit") /\ p # Init0 /\ proc[p].pid > 2

exit(c, p) ==
    /\ At(c, p, "exit")
    /\ IF p = Init0 THEN Panic("init exiting")
       ELSE /\ acquire(c, "ptable")
            /\ proc' = [abandon(wakeup1(proc, proc[p].parent), p)
                          EXCEPT ![p].state = "ZOMBIE"]
            /\ cpu' = [cpu EXCEPT ![c] = [pushcli(@) EXCEPT !.on = "sched"]]
            /\ UNCHANGED <<thr, nextpid, ticks, todo, shpid, panic>>

\* One pass over the table with ptable.lock held, on the CPU whose state is k
\* then: reap, give up, or sleep with the lock.
waitScans(c, p, k) ==
    LET kids == {s \in Slots : proc[s].parent = p}
        dead == {s \in kids : proc[s].state = "ZOMBIE"}
        z == Min(dead)
    IN  IF dead # {} \/ kids = {} \/ proc[p].killed
        THEN /\ proc' = [s \in Slots |-> IF dead # {} /\ s = z THEN NoProc
                                         ELSE IF s = p THEN [proc[p] EXCEPT !.chan = 0]
                                         ELSE proc[s]]
             /\ Returns(p, IF dead = {} THEN -1 ELSE proc[z].pid)
             /\ cpu' = [cpu EXCEPT ![c] = popcli(k)]
             /\ locked' = [locked EXCEPT !["ptable"] = 0]
        ELSE /\ proc' = [proc EXCEPT ![p].state = "SLEEPING", ![p].chan = p]
             /\ Go(p, "waiting")
             /\ cpu' = [cpu EXCEPT ![c] = [k EXCEPT !.on = "sched"]]
             /\ locked' = [locked EXCEPT !["ptable"] = c]

wait(c, p) ==
    /\ Calling(c, p, "wait") /\ locked["ptable"] = 0
    /\ waitScans(c, p, pushcli(cpu[c]))
    /\ UNCHANGED <<nextpid, ticks, todo, shpid, panic>>

\* The scan ends in a result, so the lock is released.
WaitOver(p) ==
    \/ proc[p].killed
    \/ \A s \in Slots : proc[s].parent # p
    \/ \E s \in Slots : proc[s].parent = p /\ proc[s].state = "ZOMBIE"

waitWakes(c, p) ==
    /\ At(c, p, "waiting") /\ (WaitOver(p) => MayRelease(c, "ptable"))
    /\ waitScans(c, p, resumed(p, cpu[c]))
    /\ UNCHANGED <<nextpid, ticks, todo, shpid, panic>>

\* As if kill only set the flag.
killMarks(t, s) == [t EXCEPT ![s].killed = TRUE]
killWakes(t, s) ==
    [t EXCEPT ![s].killed = TRUE,
              ![s].state = IF @ = "SLEEPING" THEN "RUNNABLE" ELSE @]

kill(c, p) ==
    /\ Calling(c, p, "kill") /\ Section(c, "ptable")
    /\ \E pid \in KillArgs :
         LET found == {s \in Slots : proc[s].pid = pid}
         IN  proc' = IF found = {} THEN proc ELSE killWakes(proc, Min(found))
    /\ Returns(p, 0)
    /\ UNCHANGED <<cpu, locked, nextpid, ticks, todo, shpid, panic>>

\* closeprocsocks, with ptable.lock held: if the process has a socket, removing
\* it acquires ptable.lock again in wakeup (Sock, KillReturns).
KillsSockets(c) ==
    \E p \in Slots :
        /\ Calling(c, p, "kill") /\ Section(c, "ptable")
        /\ \E s \in Slots : proc[s].pid \in KillArgs

-----------------------------------------------------------------------------
(* sys_sleep *)

sleepStarts(c, p) ==
    /\ Calling(c, p, "sleep") /\ acquire(c, "ticks")
    /\ \E n \in SleepArgs :
         thr' = [thr EXCEPT ![p].at = "slept", ![p].n = n, ![p].ticks0 = ticks]
    /\ cpu' = [cpu EXCEPT ![c] = pushcli(@)]
    /\ UNCHANGED <<proc, nextpid, ticks, todo, shpid, panic>>

\* As if it were ticks >= ticks0 + n.
elapsedSum(p) == ticks >= (thr[p].ticks0 + thr[p].n) % TICKS
\* ticks - ticks0 >= n in unsigned arithmetic.
Elapsed(p) == (ticks - thr[p].ticks0) % TICKS >= thr[p].n

sleepChecks(c, p) ==
    /\ At(c, p, "slept")
    /\ IF Elapsed(p) \/ proc[p].killed
       THEN /\ Returns(p, 0)
            /\ release(c, "ticks")
            /\ cpu' = [cpu EXCEPT ![c] = popcli(@)]
       ELSE Go(p, "sleeps") /\ UNCHANGED <<cpu, locked>>
    /\ UNCHANGED <<proc, nextpid, ticks, todo, shpid, panic>>

\* sleep(&ticks, &tickslock): take ptable.lock, give tickslock back.
sleep(c, p) ==
    /\ At(c, p, "sleeps") /\ Section(c, "ptable") /\ locked["ticks"] = c
    /\ locked' = [locked EXCEPT !["ptable"] = c, !["ticks"] = 0]
    /\ proc' = [proc EXCEPT ![p].state = "SLEEPING", ![p].chan = TicksChan]
    /\ Go(p, "asleep")
    /\ cpu' = [cpu EXCEPT ![c] = [popcli(pushcli(@)) EXCEPT !.on = "sched"]]
    /\ UNCHANGED <<nextpid, ticks, todo, shpid, panic>>

sleepWakes(c, p) ==
    /\ At(c, p, "asleep")
    /\ proc' = [proc EXCEPT ![p].chan = 0]
    /\ release(c, "ptable")
    /\ cpu' = [cpu EXCEPT ![c] = popcli(resumed(p, @))]
    /\ thr' = [thr EXCEPT ![p].at = "relock", ![p].intena = FALSE]
    /\ UNCHANGED <<nextpid, ticks, todo, shpid, panic>>

sleepRelocks(c, p) ==
    /\ At(c, p, "relock") /\ acquire(c, "ticks")
    /\ cpu' = [cpu EXCEPT ![c] = pushcli(@)]
    /\ Go(p, "slept")
    /\ UNCHANGED <<proc, nextpid, ticks, todo, shpid, panic>>

-----------------------------------------------------------------------------
(* The panics of acquire, release and popcli, and those of kill and exit *)

\* CPU c's next step acquires lock l, wakeup's section of ptable.lock included.
Acquires(c, l) ==
    \/ /\ l = "ptable"
       /\ \/ cpu[c].on = "scheduler" /\ cpu[c].scan = 0 /\ cpu[c].irq = "none"
          \/ Irq(c) = "wake"
          \/ \E p \in Slots :
               \/ Running(c, p) /\ thr[p].irq = "check" /\ ~Killed(p)
               \/ \E call \in {"fork", "wait", "kill"} : Calling(c, p, call)
               \/ At(c, p, "forked") \/ At(c, p, "sleeps")
               \/ At(c, p, "exit") /\ p # Init0
    \/ /\ l = "ticks"
       /\ \/ Irq(c) = "tick"
          \/ \E p \in Slots : Calling(c, p, "sleep") \/ At(c, p, "relock")

\* CPU c's next step releases lock l, in the state it is in.
Releases(c, l) ==
    \/ /\ l = "ptable"
       /\ \/ /\ cpu[c].on = "scheduler" /\ cpu[c].scan > 0
             /\ Ready(cpu[c].scan) = {}
          \/ \E p \in Slots :
               \/ Running(c, p) /\ thr[p].irq = "yielded"
               \/ Running(c, p) /\ thr[p].at = "forkret"
               \/ At(c, p, "waiting") /\ WaitOver(p)
               \/ At(c, p, "asleep")
    \/ /\ l = "ticks"
       /\ \/ Irq(c) = "wake" /\ locked["ptable"] = 0
          \/ \E p \in Slots :
               At(c, p, "slept") /\ (Elapsed(p) \/ proc[p].killed)

\* What CPU c may panic of in its next step.  sleep releases its lock between an
\* acquire and the switch.
MayPanic(c, why) ==
    \/ why = "acquire" /\ \E l \in Locks : Acquires(c, l) /\ locked[l] = c
    \/ /\ why = "release"
       /\ \/ \E l \in Locks : Releases(c, l) /\ locked[l] # c
          \/ /\ \E p \in Slots : At(c, p, "sleeps")
             /\ locked["ptable"] = 0 /\ locked["ticks"] # c
    \/ /\ why \in {"popcli interruptible", "popcli"}
       /\ \E l \in Locks : Releases(c, l) /\ locked[l] = c
       /\ IF why = "popcli" THEN ~cpu[c].fl /\ cpu[c].ncli < 1 ELSE cpu[c].fl
    \/ why = "acquire in kill" /\ KillsSockets(c)
    \/ why = "error deleting swap file" /\ SwapFileGone(c)

panics(c) ==
    \E why \in {"acquire", "release", "popcli interruptible", "popcli",
                "acquire in kill", "error deleting swap file"} :
        MayPanic(c, why) /\ Panic(why)

-----------------------------------------------------------------------------
\* What a CPU does of itself; user code may compute instead of calling.
Kernel(c) ==
    \/ scheduler(c) \/ schedulerGoesOn(c) \/ sched(c)
    \/ tick(c) \/ tickWakes(c)
    \/ panics(c)
    \/ \E p \in Slots :
         \/ trapExits(c, p) \/ yield(c, p) \/ yieldReturns(c, p)
         \/ forkret(c, p) \/ syscallReturns(c, p)
         \/ forkFails(c, p) \/ forkCopies(c, p) \/ forkRuns(c, p)
         \/ exit(c, p) \/ waitWakes(c, p)
         \/ sleepChecks(c, p) \/ sleep(c, p)
         \/ sleepWakes(c, p) \/ sleepRelocks(c, p)

\* What user code asks for.
User(c) ==
    \E p \in Slots :
      \/ syscallExits(c, p) \/ allocproc(c, p) \/ wait(c, p) \/ kill(c, p)
      \/ sleepStarts(c, p)

Next ==
    /\ panic = "none"
    /\ \E c \in Cpus : Kernel(c) \/ timer(c) \/ User(c)

Spec == Init /\ [][Next]_vars

-----------------------------------------------------------------------------
\* The discipline of the spin locks holds wherever an interrupt comes and
\* whichever CPU a thread goes on: no CPU acquires a lock it holds (but in kill,
\* proc.c 532) or releases one it does not, pushcli and popcli are matched, and
\* sched finds ptable.lock alone held.  The kernel panics in kill, when init
\* exits, and when a swap file is gone, and nowhere else.
LocksNeverPanic ==
    panic \in {"none", "acquire in kill", "init exiting",
               "error deleting swap file"}

\* A process is on one CPU at most, a thread that left its CPU has left its
\* stack before another CPU runs it or frees it, and the interrupt flag
\* follows the thread over switches and from CPU to CPU: off in a handler and
\* in a locked section, on everywhere else.
SwitchesClean ==
    /\ \A c \in Cpus : cpu[c].on # "scheduler" =>
         /\ proc[cpu[c].proc].state \notin {"UNUSED", "EMBRYO"}
         /\ \A d \in Cpus \ {c} : cpu[d].proc # cpu[c].proc
         /\ cpu[c].on = "process" => proc[cpu[c].proc].state = "RUNNING"
    /\ \A c \in Cpus : cpu[c].on = "process" =>
         cpu[c].fl = (cpu[c].ncli = 0 /\ thr[cpu[c].proc].irq = "none")
    /\ \A s \in Slots : proc[s].state = "RUNNING" =>
         \E c \in Cpus : cpu[c].proc = s

Alive(s) == proc[s].state \notin {"UNUSED", "EMBRYO", "ZOMBIE"}

\* Every process but init has a living parent to reap it, and whoever sleeps
\* in wait has a child and none that is dead, and has not been killed.
ParentsWait ==
    /\ \A s \in Slots \ {Init0} :
         proc[s].state \notin {"UNUSED", "EMBRYO"}
           => proc[s].parent \in Slots /\ Alive(proc[s].parent)
    /\ \A p \in Slots :
         proc[p].state = "SLEEPING" /\ thr[p].at = "waiting" =>
           LET kids == {s \in Slots : proc[s].parent = p}
           IN  /\ kids # {} /\ ~proc[p].killed
               /\ \A s \in kids : proc[s].state # "ZOMBIE"

\* sleep(n) comes back early only for a process that is killed, however the
\* counter of ticks wraps around.
SleepsLongEnough ==
    [][\A p \in Slots :
         thr[p].at = "slept" /\ thr'[p].at = "ret" /\ ~proc[p].killed
           => thr[p].elapsed >= thr[p].n]_vars
=============================================================================
