--------------------------------- MODULE Log ---------------------------------
(***************************************************************************)
(* log.c of xv6: the redo log under the file system, with the parts of the *)
(* buffer cache (bio.c, ide.c) its correctness rests on: a block whose     *)
(* buffer is B_DIRTY is not evicted, and bwrite writes one block at once.  *)
(*                                                                         *)
(* Steps are the disk writes and the sections under log.lock.  A crash can *)
(* come between any two of them; it loses everything but the disk, and the *)
(* next boot runs recover_from_log, which can crash again.                 *)
(***************************************************************************)
EXTENDS Integers, Sequences, FiniteSets

CONSTANTS
    Procs,
    Blocks,         \* home blocks of the file system
    AfterLog,       \* the home block that follows the log area on disk
    Values,         \* contents of a block
    MAXOPBLOCKS, LOGSIZE,
    OpWrites,       \* blocks one operation adds to the log, at most; writing a
                    \* block that is in the log already takes no space there
    MaxDepth        \* begin_op calls a process may have open: exec begins one,
                    \* and its allocuvm may page out, which begins another

ASSUME AfterLogAssumption == AfterLog \in Blocks
ASSUME MAXOPBLOCKSAssumption == MAXOPBLOCKS \in Nat \ {0}
ASSUME LOGSIZEAssumption == LOGSIZE \in Nat \ {0, 1}
ASSUME OpWritesAssumption == OpWrites \in 0 .. MAXOPBLOCKS
ASSUME MaxDepthAssumption == MaxDepth \in Nat \ {0}

VARIABLES
    disk,           \* on disk: the home blocks,
    logBlocks,      \* the data blocks of the log,
    header,         \* and its header (the block numbers; n is the length)
    lh,             \* log.lh
    outstanding, committing,
    cache,          \* contents of the blocks as bread returns them
    dirty,          \* blocks whose buffer is B_DIRTY
    machine,        \* "up", "recovering" or "panicked"
    at,             \* the place in commit() or recover_from_log(), and
    tail,           \* the loop variable there
    pc, depth, left,\* per process: where it is, begin_op calls open, and
                    \* blocks it may still add to the log
    buf             \* the block a process has modified and not yet logged

onDisk == <<disk, logBlocks, header>>
procVars == <<pc, depth, left, buf>>
place == <<at, tail>>
vars == <<onDisk, lh, outstanding, committing, cache, dirty, machine, place,
          procVars>>

NoBlock == "no block"
ASSUME NoBlockAssumption == NoBlock \notin Blocks

nlog == LOGSIZE             \* mkfs: the header block is counted in
LogData == nlog - 1         \* so this many data blocks follow it

LoggedAt(h, b) == {i \in 1 .. Len(h) : h[i] = b}
up == machine = "up"

\* The block log.start + i of the disk; past the log it is a home block.
LogBlock(i) == IF i \in 1 .. LogData THEN logBlocks[i] ELSE disk[AfterLog]

\* What recover_from_log would make of the disk.
Recovered ==
    [b \in Blocks |->
        IF LoggedAt(header, b) = {} THEN disk[b]
        ELSE LogBlock(CHOOSE i \in LoggedAt(header, b) :
                        \A j \in LoggedAt(header, b) : j <= i)]

-----------------------------------------------------------------------------
Init ==
    /\ disk \in [Blocks -> Values]
    /\ logBlocks \in [1 .. LogData -> Values]
    /\ header = <<>>
    /\ lh = <<>>
    /\ outstanding = 0
    /\ committing = FALSE
    /\ cache = disk
    /\ dirty = {}
    /\ machine = "up"
    /\ at = "none"
    /\ tail = 1
    /\ pc = [p \in Procs |-> "out"]
    /\ depth = [p \in Procs |-> 0]
    /\ left = [p \in Procs |-> 0]
    /\ buf = [p \in Procs |-> NoBlock]

Woken == [p \in Procs |-> IF pc[p] = "asleep" THEN "begin" ELSE pc[p]]

-----------------------------------------------------------------------------
(* begin_op and end_op *)

callBegin(p) ==
    /\ up
    /\ pc[p] = "out" \/ (pc[p] = "run" /\ depth[p] < MaxDepth)
    /\ pc' = [pc EXCEPT ![p] = "begin"]
    /\ UNCHANGED <<onDisk, lh, outstanding, committing, cache, dirty, machine,
                   place, depth, left, buf>>

MustWaitNotCounted == committing \/ Len(lh) + outstanding * MAXOPBLOCKS > LOGSIZE
MustWait == committing \/ Len(lh) + (outstanding + 1) * MAXOPBLOCKS > LOGSIZE

\* One turn of begin_op's loop, under log.lock.
begin_op(p) ==
    /\ up /\ pc[p] = "begin"
    /\ \/ /\ MustWait
          /\ pc' = [pc EXCEPT ![p] = "asleep"]
          /\ UNCHANGED <<outstanding, depth, left>>
       \/ /\ ~MustWait
          /\ outstanding' = outstanding + 1
          /\ depth' = [depth EXCEPT ![p] = @ + 1]
          /\ left' = [left EXCEPT ![p] = @ + OpWrites]
          /\ pc' = [pc EXCEPT ![p] = "run"]
    /\ UNCHANGED <<onDisk, lh, committing, cache, dirty, machine, place, buf>>

Least(m, n) == IF m < n THEN m ELSE n

CloseOp(p) ==
    /\ outstanding' = outstanding - 1
    /\ depth' = [depth EXCEPT ![p] = @ - 1]
    /\ left' = [left EXCEPT ![p] = Least(@, (depth[p] - 1) * OpWrites)]

AfterEnd(p) == IF depth[p] = 1 THEN "out" ELSE "run"

\* panic("log.committing")
CheckCommitting == machine' = IF committing THEN "panicked" ELSE machine

end_opNotLast(p) ==
    /\ up /\ pc[p] = "run"
    /\ outstanding > 1
    /\ CloseOp(p)
    /\ CheckCommitting
    /\ pc' = [Woken EXCEPT ![p] = AfterEnd(p)]
    /\ UNCHANGED <<onDisk, lh, committing, cache, dirty, place, buf>>

\* The last operation out commits; commit() has nothing to do when log.lh.n = 0.
CommitPlace == IF lh = <<>> THEN "committed" ELSE "write_log"

end_opLast(p) ==
    /\ up /\ pc[p] = "run"
    /\ outstanding = 1
    /\ CloseOp(p)
    /\ CheckCommitting
    /\ committing' = TRUE
    /\ at' = CommitPlace
    /\ tail' = 1
    /\ pc' = [pc EXCEPT ![p] = "commit"]
    /\ UNCHANGED <<onDisk, lh, cache, dirty, buf>>

commitReturnsSilent(p) ==
    /\ up /\ pc[p] = "commit" /\ at = "committed"
    /\ committing' = FALSE
    /\ pc' = [pc EXCEPT ![p] = "out"]
    /\ at' = "none"
    /\ UNCHANGED <<onDisk, lh, outstanding, cache, dirty, machine, tail,
                   depth, left, buf>>

\* The end of end_op after commit().
commitReturns(p) ==
    /\ up /\ pc[p] = "commit" /\ at = "committed"
    /\ committing' = FALSE
    /\ pc' = [Woken EXCEPT ![p] = "out"]
    /\ at' = "none"
    /\ UNCHANGED <<onDisk, lh, outstanding, cache, dirty, machine, tail,
                   depth, left, buf>>

-----------------------------------------------------------------------------
(* log_write: the block is modified in its locked buffer, then log.lh.n is *)
(* read without log.lock, then the block number is recorded under it.  An  *)
(* operation calls it as often as it likes on the blocks that are in the   *)
(* log (balloc and bfree log a bitmap block once per block of a file).     *)

TooBig == Len(lh) >= LOGSIZE \/ Len(lh) >= nlog - 1

log_writeChecks(p, b, v) ==
    /\ up /\ pc[p] = "run"
    /\ left[p] > 0 \/ LoggedAt(lh, b) # {}
    /\ \A q \in Procs : buf[q] # b
    /\ cache' = [cache EXCEPT ![b] = v]
    /\ buf' = [buf EXCEPT ![p] = b]
    /\ pc' = [pc EXCEPT ![p] = "append"]
    /\ machine' = IF TooBig \/ outstanding < 1 THEN "panicked" ELSE machine
    /\ UNCHANGED <<onDisk, lh, outstanding, committing, dirty, place, depth,
                   left>>

AbsorbedNever(h, b) == Append(h, b)
Absorbed(h, b) == IF LoggedAt(h, b) = {} THEN Append(h, b) ELSE h

log_writeAppends(p) ==
    /\ up /\ pc[p] = "append"
    /\ lh' = Absorbed(lh, buf[p])
    /\ left' = [left EXCEPT ![p] = @ - (Len(lh') - Len(lh))]
    /\ dirty' = dirty \cup {buf[p]}
    /\ buf' = [buf EXCEPT ![p] = NoBlock]
    /\ pc' = [pc EXCEPT ![p] = "run"]
    /\ UNCHANGED <<onDisk, outstanding, committing, cache, machine, place,
                   depth>>

-----------------------------------------------------------------------------
(* commit() and recover_from_log(), one disk write at a time.  The         *)
(* committer runs while the machine is up, recovery before it is.          *)

Working == machine # "panicked"
quiet == <<outstanding, committing, machine, procVars>>

write_log ==
    /\ up /\ at = "write_log"
    /\ IF tail <= LogData
       THEN /\ logBlocks' = [logBlocks EXCEPT ![tail] = cache[lh[tail]]]
            /\ UNCHANGED disk
       ELSE /\ disk' = [disk EXCEPT ![AfterLog] = cache[lh[tail]]]
            /\ UNCHANGED logBlocks
    /\ IF tail < Len(lh) THEN tail' = tail + 1 /\ UNCHANGED at
       ELSE tail' = 1 /\ at' = "write_head"
    /\ UNCHANGED <<header, lh, cache, dirty, quiet>>

write_head ==
    /\ up /\ at = "write_head"
    /\ header' = lh
    /\ at' = "install_trans"
    /\ UNCHANGED <<disk, logBlocks, lh, cache, dirty, tail, quiet>>

install_transOne(b) ==
    /\ disk' = [disk EXCEPT ![b] = LogBlock(tail)]
    /\ cache' = [cache EXCEPT ![b] = LogBlock(tail)]
    /\ dirty' = dirty \ {b}

install_trans ==
    /\ Working /\ at = "install_trans"
    /\ IF tail <= Len(lh)
       THEN install_transOne(lh[tail]) /\ tail' = tail + 1 /\ UNCHANGED at
       ELSE at' = "erase" /\ UNCHANGED <<disk, cache, dirty, tail>>
    /\ UNCHANGED <<logBlocks, header, lh, quiet>>

eraseMemoryOnly ==
    /\ Working /\ at = "erase"
    /\ lh' = <<>>
    /\ at' = IF up THEN "committed" ELSE "none"
    /\ machine' = "up"
    /\ UNCHANGED <<onDisk, outstanding, committing, cache, dirty, tail,
                   procVars>>

\* log.lh.n = 0 and write_head(); at boot the file system is then usable.
erase ==
    /\ Working /\ at = "erase"
    /\ lh' = <<>>
    /\ header' = <<>>
    /\ at' = IF up THEN "committed" ELSE "none"
    /\ machine' = "up"
    /\ UNCHANGED <<disk, logBlocks, outstanding, committing, cache, dirty,
                   tail, procVars>>

\* read_head, the first step of recover_from_log.
read_head ==
    /\ machine = "recovering" /\ at = "read_head"
    /\ lh' = header
    /\ at' = "install_trans"
    /\ tail' = 1
    /\ UNCHANGED <<onDisk, cache, dirty, quiet>>

-----------------------------------------------------------------------------
\* bget reuses a buffer that nobody holds and that is not B_DIRTY.
bgetEvicts(b) ==
    /\ up
    /\ b \notin dirty /\ \A q \in Procs : buf[q] # b
    /\ cache' = [cache EXCEPT ![b] = disk[b]]
    /\ UNCHANGED <<onDisk, lh, outstanding, committing, dirty, machine, place,
                   procVars>>

\* A power failure, or the reboot after a panic: only the disk survives.
Crash ==
    /\ machine' = "recovering"
    /\ at' = "read_head"
    /\ tail' = 1
    /\ lh' = <<>>
    /\ outstanding' = 0
    /\ committing' = FALSE
    /\ cache' = disk
    /\ dirty' = {}
    /\ pc' = [p \in Procs |-> "out"]
    /\ depth' = [p \in Procs |-> 0]
    /\ left' = [p \in Procs |-> 0]
    /\ buf' = [p \in Procs |-> NoBlock]
    /\ UNCHANGED onDisk

EndOp(p) == end_opNotLast(p) \/ end_opLast(p)

ProcNext(p) ==
    \/ callBegin(p) \/ begin_op(p) \/ EndOp(p) \/ commitReturns(p)
    \/ log_writeAppends(p)
    \/ \E b \in Blocks, v \in Values : log_writeChecks(p, b, v)

DiskNext == write_log \/ write_head \/ install_trans \/ erase \/ read_head

Next ==
    \/ \E p \in Procs : ProcNext(p)
    \/ DiskNext
    \/ \E b \in Blocks : bgetEvicts(b)
    \/ Crash

Spec == Init /\ [][Next]_vars

\* An operation that has begun makes finitely many writes and ends, so a
\* process that is between two writes again and again does end it; the disk
\* answers.
FairSpec ==
    /\ Spec
    /\ WF_vars(DiskNext)
    /\ \A p \in Procs :
          /\ WF_vars(begin_op(p))
          /\ SF_vars(EndOp(p))
          /\ WF_vars(log_writeAppends(p) \/ commitReturns(p))

-----------------------------------------------------------------------------
TypeOK ==
    /\ disk \in [Blocks -> Values]
    /\ logBlocks \in [1 .. LogData -> Values]
    /\ header \in Seq(Blocks)
    /\ lh \in Seq(Blocks)
    /\ outstanding \in Nat
    /\ committing \in BOOLEAN
    /\ cache \in [Blocks -> Values]
    /\ dirty \subseteq Blocks
    /\ machine \in {"up", "recovering", "panicked"}
    /\ at \in {"none", "read_head", "write_log", "write_head",
              "install_trans", "erase", "committed"}
    /\ tail \in Nat \ {0}
    /\ pc \in [Procs -> {"out", "begin", "asleep", "run", "append", "commit"}]
    /\ depth \in [Procs -> 0 .. MaxDepth]
    /\ left \in [Procs -> Nat]
    /\ buf \in [Procs -> Blocks \cup {NoBlock}]

\* A crash at any moment, during recovery too, leaves the file system as it
\* was at the last commit: no operation's blocks survive in part, and none
\* that a commit has written are lost (log.c 11-15 and 97-100).
Store == INSTANCE AtomicStore WITH
    durable <- Recovered,
    current <- IF machine = "recovering" THEN Recovered ELSE cache,
    active <- IF machine = "recovering" THEN 0 ELSE outstanding
Implements == Store!Spec

\* When no operation is under way and no commit is running, everything that
\* ended operations wrote would survive a crash (end_op commits the last).
QuiescentDurable ==
    (up /\ outstanding = 0 /\ ~committing) => Recovered = cache

\* None of the panics of log.c is reached: the space begin_op reserves is
\* there when log_write needs it ("this op might exhaust log space", line
\* 133), although log_write reads log.lh.n before it takes log.lock, and no
\* operation ends during a commit.
NoPanic == machine # "panicked"

\* A process asleep in begin_op has somebody to wake it: a commit that is
\* running, or an operation whose process is not itself asleep there (lines
\* 20-21: begin_op "sleeps until the last outstanding end_op() commits").
SleeperHasWaker ==
    (\E p \in Procs : pc[p] = "asleep") =>
        \/ committing
        \/ \E q \in Procs : depth[q] > 0 /\ pc[q] # "asleep"

\* A block that an operation has changed and logged stays in the buffer cache
\* and in log.lh until a commit has installed it, each block once.
LoggedIsPinned ==
    (up /\ at \in {"none", "write_log", "write_head"}) =>
        /\ dirty = {lh[i] : i \in 1 .. Len(lh)}
        /\ \A b \in Blocks : Cardinality(LoggedAt(lh, b)) <= 1

\* Cache, log in memory and log on disk agree between the steps of a commit.
LogConsistent == TypeOK /\ LoggedIsPinned /\ QuiescentDurable

\* A process that sleeps in begin_op is woken to look again.
SleeperWoken == \A p \in Procs : pc[p] = "asleep" ~> pc[p] # "asleep"
=============================================================================
