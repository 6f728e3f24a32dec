-------------------------------- MODULE Pipe --------------------------------
(***************************************************************************)
(* A pipe of xv6: pipe.c, and of file.c the reference counts of its two    *)
(* struct files.  Processes create the pipe, duplicate its descriptors,    *)
(* inherit them by fork, close them, read, write and kill each other.      *)
(*                                                                         *)
(* pipewrite and piperead hold p->lock from their first look at the pipe   *)
(* to their return or to the moment they are asleep.  Each pass is one     *)
(* step, except that kill, which does not take p->lock, may fall between   *)
(* the test of killed and the sleep: "dozeR" and "dozeW" are that moment.  *)
(***************************************************************************)
EXTENDS Integers, Sequences, FiniteSets

CONSTANTS
    Procs,
    PIPESIZE,
    UINT,           \* 2^32, the modulus of nread and nwrite
    Byte,           \* the values of a byte
    Junk,           \* the byte kfree fills a free page with
    Strings,        \* what programs write
    ReadSizes,      \* the lengths they read
    NOFILE          \* descriptors of a process

ASSUME ProcsAssumption == IsFiniteSet(Procs)
ASSUME PIPESIZEAssumption == PIPESIZE \in Nat \ {0}
ASSUME UINTAssumption ==
    UINT \in Nat /\ UINT % PIPESIZE = 0 /\ UINT > PIPESIZE
ASSUME JunkAssumption == Junk \in Byte
ASSUME StringsAssumption == Strings \subseteq Seq(Byte) \ {<<>>}
ASSUME ReadSizesAssumption == ReadSizes \subseteq Nat \ {0}
ASSUME NOFILEAssumption == NOFILE \in Nat /\ NOFILE >= 2

VARIABLES
    data, nread, nwrite, readopen, writeopen,   \* struct pipe
    allocated,      \* the pipe has its page: between kalloc and kfree
    ref,            \* f->ref of the read end and of the write end
    fds,            \* how many descriptors of each end a process has
    pc,             \* where each process is
    rest,           \* bytes its pipewrite has left
    want,           \* bytes its piperead asks for
    killed,
    last,           \* bytes the last piperead returned
    deserted        \* history: a killed writer left bytes and woke no reader

pipeVars == <<data, nread, nwrite, readopen, writeopen, allocated>>
fileVars == <<ref, fds>>
callVars == <<rest, want>>
vars == <<pipeVars, fileVars, pc, callVars, killed, last, deserted>>

Ends == {"r", "w"}
Index == 0 .. PIPESIZE - 1
NoFds == [e \in Ends |-> 0]

Reading == {"read", "dozeR", "asleepR"}
Writing == {"write", "dozeW", "asleepW"}
Closing == [r |-> "closeR", w |-> "closeW"]

Init ==
    /\ data = [i \in Index |-> Junk]
    /\ nread = 0 /\ nwrite = 0
    /\ readopen = FALSE /\ writeopen = FALSE
    /\ allocated = FALSE
    /\ ref = NoFds
    /\ fds = [p \in Procs |-> NoFds]
    /\ \E p \in Procs : pc = [q \in Procs |-> IF q = p THEN "user" ELSE "none"]
    /\ rest = [p \in Procs |-> <<>>]
    /\ want = [p \in Procs |-> 0]
    /\ killed = [p \in Procs |-> FALSE]
    /\ last = <<>>
    /\ deserted = FALSE

\* trap: a killed process makes no new call, it exits.
InUser(p) == pc[p] = "user" /\ ~killed[p]

\* Nobody holds p->lock.
Unlocked == \A p \in Procs : pc[p] \notin {"dozeR", "dozeW"}

\* wakeup(&p->nread) and wakeup(&p->nwrite), on the processes' places c.
WakeReaders(c) == [p \in Procs |-> IF c[p] = "asleepR" THEN "read" ELSE c[p]]
WakeWriters(c) == [p \in Procs |-> IF c[p] = "asleepW" THEN "write" ELSE c[p]]

-----------------------------------------------------------------------------
(* sys_pipe.  When a file, a page or a descriptor is missing, pipealloc and
   sys_pipe put back what they took, and nothing has changed. *)
pipealloc(p) ==
    /\ InUser(p) /\ ~allocated /\ ref = NoFds
    /\ allocated' = TRUE
    /\ readopen' = TRUE /\ writeopen' = TRUE
    /\ data' = [i \in Index |-> Junk]
    /\ nread' = 0 /\ nwrite' = 0
    /\ ref' = [e \in Ends |-> 1]
    /\ fds' = [fds EXCEPT ![p] = [e \in Ends |-> 1]]
    /\ deserted' = FALSE
    /\ UNCHANGED <<pc, callVars, killed, last>>

-----------------------------------------------------------------------------
(* pipewrite *)

\* sys_write and filewrite, on a file of type FD_PIPE.
callWrite(p, s) ==
    /\ InUser(p) /\ fds[p]["w"] > 0
    /\ pc' = [pc EXCEPT ![p] = "write"]
    /\ rest' = [rest EXCEPT ![p] = s]
    /\ UNCHANGED <<pipeVars, fileVars, want, killed, last, deserted>>

Filled == (nwrite - nread) % UINT

\* Bytes that fit before nwrite == nread + PIPESIZE.
Room == (nread + PIPESIZE - nwrite) % UINT
Fits(s) == IF Len(s) <= Room THEN Len(s) ELSE Room

\* The loop's stores of the first Fits(s) bytes of s.
SlotOffByOne(j) == ((nwrite + j) % UINT) % PIPESIZE
Slot(j) == ((nwrite + j - 1) % UINT) % PIPESIZE
stores(s) ==
    /\ data' = [i \in Index |->
                  IF \E j \in 1 .. Fits(s) : Slot(j) = i
                  THEN s[CHOOSE j \in 1 .. Fits(s) : Slot(j) = i]
                  ELSE data[i]]
    /\ nwrite' = (nwrite + Fits(s)) % UINT

\* As if the last wakeup were left to the loop.
pipewriteReturnsSilent(p) ==
    /\ pc[p] = "write" /\ Unlocked /\ Len(rest[p]) <= Room
    /\ stores(rest[p])
    /\ rest' = [rest EXCEPT ![p] = <<>>]
    /\ pc' = [pc EXCEPT ![p] = "user"]
    /\ UNCHANGED <<nread, readopen, writeopen, allocated, fileVars, want,
                   killed, last, deserted>>

\* All bytes left fit.
pipewriteReturns(p) ==
    /\ pc[p] = "write" /\ Unlocked /\ Len(rest[p]) <= Room
    /\ stores(rest[p])
    /\ rest' = [rest EXCEPT ![p] = <<>>]
    /\ pc' = WakeReaders([pc EXCEPT ![p] = "user"])
    /\ deserted' = FALSE
    /\ UNCHANGED <<nread, readopen, writeopen, allocated, fileVars, want,
                   killed, last>>

\* The pipe is full first: give up if nobody can read it, or if killed ...
pipewriteFails(p) ==
    /\ pc[p] = "write" /\ Unlocked /\ Len(rest[p]) > Room
    /\ ~readopen \/ killed[p]
    /\ stores(rest[p])
    /\ rest' = [rest EXCEPT ![p] = <<>>]
    /\ pc' = [pc EXCEPT ![p] = "user"]
    /\ deserted' = (deserted \/ Fits(rest[p]) > 0)
    /\ UNCHANGED <<nread, readopen, writeopen, allocated, fileVars, want,
                   killed, last>>

\* ... otherwise wake the readers and sleep.
pipewriteBlocks(p) ==
    /\ pc[p] = "write" /\ Unlocked /\ Len(rest[p]) > Room
    /\ readopen /\ ~killed[p]
    /\ stores(rest[p])
    /\ rest' = [rest EXCEPT ![p] = SubSeq(@, Fits(@) + 1, Len(@))]
    /\ pc' = WakeReaders([pc EXCEPT ![p] = "dozeW"])
    /\ deserted' = FALSE
    /\ UNCHANGED <<nread, readopen, writeopen, allocated, fileVars, want,
                   killed, last>>

-----------------------------------------------------------------------------
(* piperead *)

\* sys_read and fileread
callRead(p, k) ==
    /\ InUser(p) /\ fds[p]["r"] > 0
    /\ pc' = [pc EXCEPT ![p] = "read"]
    /\ want' = [want EXCEPT ![p] = k]
    /\ UNCHANGED <<pipeVars, fileVars, rest, killed, last, deserted>>

Bytes(k) == [j \in 1 .. k |-> data[((nread + j - 1) % UINT) % PIPESIZE]]
Got(k) == IF k <= Filled THEN k ELSE Filled

MustWait == nread = nwrite /\ writeopen

\* The copy, after the wait; at end of file it copies nothing.
pipereadReturns(p) ==
    /\ pc[p] = "read" /\ Unlocked /\ ~MustWait
    /\ last' = Bytes(Got(want[p]))
    /\ nread' = (nread + Got(want[p])) % UINT
    /\ want' = [want EXCEPT ![p] = 0]
    /\ pc' = WakeWriters([pc EXCEPT ![p] = "user"])
    /\ UNCHANGED <<data, nwrite, readopen, writeopen, allocated, fileVars, rest,
                   killed, deserted>>

pipereadFails(p) ==
    /\ pc[p] = "read" /\ Unlocked /\ MustWait /\ killed[p]
    /\ want' = [want EXCEPT ![p] = 0]
    /\ pc' = [pc EXCEPT ![p] = "user"]
    /\ UNCHANGED <<pipeVars, fileVars, rest, killed, last, deserted>>

pipereadBlocks(p) ==
    /\ pc[p] = "read" /\ Unlocked /\ MustWait /\ ~killed[p]
    /\ pc' = [pc EXCEPT ![p] = "dozeR"]
    /\ UNCHANGED <<pipeVars, fileVars, callVars, killed, last, deserted>>

\* sleep: under ptable.lock, p->lock is released and the process is asleep.
sleep(p) ==
    /\ \/ pc[p] = "dozeR" /\ pc' = [pc EXCEPT ![p] = "asleepR"]
       \/ pc[p] = "dozeW" /\ pc' = [pc EXCEPT ![p] = "asleepW"]
    /\ UNCHANGED <<pipeVars, fileVars, callVars, killed, last, deserted>>

-----------------------------------------------------------------------------
(* Descriptors *)

\* sys_dup
dup(p, e) ==
    /\ InUser(p) /\ fds[p][e] > 0
    /\ fds[p]["r"] + fds[p]["w"] < NOFILE
    /\ ref' = [ref EXCEPT ![e] = @ + 1]
    /\ fds' = [fds EXCEPT ![p][e] = @ + 1]
    /\ UNCHANGED <<pipeVars, pc, callVars, killed, last, deserted>>

\* As if fork copied ofile without filedup.
forkNoDup(p, q) ==
    /\ InUser(p) /\ pc[q] = "none"
    /\ fds' = [fds EXCEPT ![q] = fds[p]]
    /\ pc' = [pc EXCEPT ![q] = "user"]
    /\ UNCHANGED <<pipeVars, ref, callVars, killed, last, deserted>>

\* fork, with filedup on every descriptor.
fork(p, q) ==
    /\ InUser(p) /\ pc[q] = "none"
    /\ ref' = [e \in Ends |-> ref[e] + fds[p][e]]
    /\ fds' = [fds EXCEPT ![q] = fds[p]]
    /\ pc' = [pc EXCEPT ![q] = "user"]
    /\ UNCHANGED <<pipeVars, callVars, killed, last, deserted>>

\* fileclose, by sys_close or exit, up to the release of ftable.lock.
fileclose(p, e) ==
    /\ pc[p] = "user" /\ fds[p][e] > 0
    /\ ref' = [ref EXCEPT ![e] = @ - 1]
    /\ fds' = [fds EXCEPT ![p][e] = @ - 1]
    /\ pc' = [pc EXCEPT ![p] = IF ref[e] = 1 THEN Closing[e] ELSE "user"]
    /\ UNCHANGED <<pipeVars, callVars, killed, last, deserted>>

\* pipeclose(p, 0)
pipecloseReadEnd(p) ==
    /\ pc[p] = "closeR" /\ Unlocked
    /\ readopen' = FALSE
    /\ allocated' = writeopen
    /\ pc' = WakeWriters([pc EXCEPT ![p] = "user"])
    /\ UNCHANGED <<data, nread, nwrite, writeopen, fileVars, callVars, killed,
                   last, deserted>>

pipecloseWriteEndSilent(p) ==
    /\ pc[p] = "closeW" /\ Unlocked
    /\ writeopen' = FALSE
    /\ allocated' = readopen
    /\ pc' = [pc EXCEPT ![p] = "user"]
    /\ UNCHANGED <<data, nread, nwrite, readopen, fileVars, callVars, killed,
                   last, deserted>>

\* pipeclose(p, 1)
pipecloseWriteEnd(p) ==
    /\ pc[p] = "closeW" /\ Unlocked
    /\ writeopen' = FALSE
    /\ allocated' = readopen
    /\ pc' = WakeReaders([pc EXCEPT ![p] = "user"])
    /\ deserted' = FALSE
    /\ UNCHANGED <<data, nread, nwrite, readopen, fileVars, callVars, killed,
                   last>>

\* kill; a sleeper becomes runnable and looks at the pipe again.
kill(p, q) ==
    /\ InUser(p) /\ pc[q] # "none"
    /\ killed' = [killed EXCEPT ![q] = TRUE]
    /\ pc' = [pc EXCEPT ![q] = CASE @ = "asleepR" -> "read"
                                 [] @ = "asleepW" -> "write"
                                 [] OTHER -> @]
    /\ UNCHANGED <<pipeVars, fileVars, callVars, last, deserted>>

\* The end of exit, once every descriptor is closed.
exit(p) ==
    /\ pc[p] = "user" /\ fds[p] = NoFds
    /\ pc' = [pc EXCEPT ![p] = "none"]
    /\ killed' = [killed EXCEPT ![p] = FALSE]
    /\ UNCHANGED <<pipeVars, fileVars, callVars, last, deserted>>

-----------------------------------------------------------------------------
\* What the kernel does once a process is inside a call, or has been killed.
Kernel(p) ==
    \/ pipewriteReturns(p) \/ pipewriteFails(p) \/ pipewriteBlocks(p)
    \/ pipereadReturns(p) \/ pipereadFails(p) \/ pipereadBlocks(p)
    \/ sleep(p)
    \/ pipecloseReadEnd(p) \/ pipecloseWriteEnd(p)

\* What a program chooses to do.
User(p) ==
    \/ pipealloc(p)
    \/ \E s \in Strings : callWrite(p, s)
    \/ \E k \in ReadSizes : callRead(p, k)
    \/ \E e \in Ends : dup(p, e) \/ fileclose(p, e)
    \/ \E q \in Procs : fork(p, q) \/ kill(p, q)
    \/ exit(p)

Next == \E p \in Procs : Kernel(p) \/ User(p)

Spec == Init /\ [][Next]_vars

(* A process that can run is scheduled (round robin over ptable), and a
   killed process goes through exit at the next trap.  No fairness is put on
   what programs choose to do. *)
Dies(p) == killed[p] /\ ((\E e \in Ends : fileclose(p, e)) \/ exit(p))
FairSpec == Spec /\ \A p \in Procs : WF_vars(Kernel(p)) /\ WF_vars(Dies(p))

-----------------------------------------------------------------------------
(* Properties *)

TypeOK ==
    /\ data \in [Index -> Byte]
    /\ nread \in 0 .. UINT - 1 /\ nwrite \in 0 .. UINT - 1
    /\ Filled <= PIPESIZE
    /\ readopen \in BOOLEAN /\ writeopen \in BOOLEAN /\ allocated \in BOOLEAN
    /\ ref \in [Ends -> Nat]
    /\ fds \in [Procs -> [Ends -> 0 .. NOFILE]]
    /\ pc \in [Procs -> {"none", "user", "closeR", "closeW"}
                          \cup Reading \cup Writing]
    /\ rest \in [Procs -> Seq(Byte)]
    /\ want \in [Procs -> ReadSizes \cup {0}]
    /\ killed \in [Procs -> BOOLEAN]
    /\ last \in Seq(Byte)
    /\ deserted \in BOOLEAN

(* Nobody sleeps on a condition that already holds: a sleeping reader has an
   empty pipe and an open write end, a sleeping writer a full pipe and an
   open read end (the wakeups of pipewrite, piperead and pipeclose).  The one
   exception is in the code: a writer that finds itself killed returns
   without waking the readers of the bytes it has stored. *)
NoLostWakeup ==
    \A p \in Procs :
        /\ pc[p] = "asleepR" => writeopen /\ (nread = nwrite \/ deserted)
        /\ pc[p] = "asleepW" => Filled = PIPESIZE /\ readopen

(* A reader and a writer never wait for each other on one pipe. *)
NoMutualWait ==
    ~ \E p, q \in Procs : pc[p] = "asleepR" /\ pc[q] = "asleepW"

(* Every sleeper in piperead and pipewrite has somebody to wait for. *)
SleepersAreWoken == NoLostWakeup /\ NoMutualWait

(* An end is open exactly while someone has a descriptor of it, as every
   process inside pipewrite and piperead does, or is closing it; and the page
   is there exactly while an end is open.  kfree never comes before the last
   use and no pipe leaks (fileclose's reference count, across fork and dup). *)
LiveWhileReferenced ==
    /\ readopen <=> (\E p \in Procs : fds[p]["r"] > 0 \/ pc[p] = "closeR")
    /\ writeopen <=> (\E p \in Procs : fds[p]["w"] > 0 \/ pc[p] = "closeW")
    /\ allocated <=> (readopen \/ writeopen)

(* Pages, reference counts and counters fit together. *)
PipeConsistent == TypeOK /\ LiveWhileReferenced

\* The bytes from nread to nwrite.
contents == IF allocated THEN Bytes(Filled) ELSE <<>>
AbstractChannel == INSTANCE Channel WITH Size <- PIPESIZE, queue <- contents

(* The bytes come out in the order they went in, each once, although the
   counters wrap and writes are split over several passes of the loop. *)
Implements == AbstractChannel!Spec

(* When the last writer goes away every reader in a call gets its answer,
   and when the last reader does every writer. *)
EndOfFileDelivered ==
    \A p \in Procs : (pc[p] \in Reading /\ ~writeopen) ~> pc[p] = "user"
BrokenPipeDelivered ==
    \A p \in Procs : (pc[p] \in Writing /\ ~readopen) ~> pc[p] = "user"
PeerGoneAnswered == EndOfFileDelivered /\ BrokenPipeDelivered
=============================================================================
