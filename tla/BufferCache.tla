---------------------------- MODULE BufferCache ----------------------------
(***************************************************************************)
(* The buffer cache of xv6 (bio.c), the sleep locks of its buffers         *)
(* (sleeplock.c) and the disk driver under it (ide.c): processes read      *)
(* blocks, change them and either write them through or, as log_write      *)
(* does, leave them B_DIRTY for a later commit; the disk answers one       *)
(* request at a time with an interrupt.                                    *)
(*                                                                         *)
(* A step is a section under bcache.lock, under a sleep lock's spin lock   *)
(* or under idelock.                                                       *)
(***************************************************************************)
EXTENDS Integers, Sequences, FiniteSets, SequencesExt

CONSTANTS
    Procs, Blocks, Values,
    LogBlocks,      \* the blocks of the log,
    Indirect,       \* and the indirect blocks of the files
    NBUF,
    MaxHeld,        \* buffers a process holds at once: two in this code
    MaxPinned       \* blocks the log may hold B_DIRTY at once

ASSUME NBUFAssumption == NBUF \in Nat \ {0}
ASSUME ProcsAssumption == IsFiniteSet(Procs)
ASSUME BoundsAssumption == MaxHeld \in Nat /\ MaxPinned \in Nat

VARIABLES
    buf,        \* the buffers
    lru,        \* bcache.head: buffer numbers, the most recently used first
    disk,
    idequeue,   \* buffers waiting for the disk, the active request first
    wire,       \* the data idestart sent with a write
    pc, mine,   \* where each process is, and the buffer of its current call
    panicked

vars == <<buf, lru, disk, idequeue, wire, pc, mine, panicked>>

Bufs == 1 .. NBUF
None == "none"
ASSUME NoneAssumption == None \notin Procs \cup Blocks \cup Values

\* failed is not in the code: the last read of the buffer failed, and nobody
\* has put other data there since.
NoBuf == [blockno |-> None, valid |-> FALSE, dirty |-> FALSE, refcnt |-> 0,
          lock |-> None, data |-> None, failed |-> FALSE]

Init ==
    /\ buf = [b \in Bufs |-> NoBuf]
    /\ lru = [i \in Bufs |-> NBUF + 1 - i]
    /\ disk \in [Blocks -> Values]
    /\ idequeue = <<>> /\ wire = None
    /\ pc = [p \in Procs |-> "run"]
    /\ mine = [p \in Procs |-> 0]
    /\ panicked = FALSE

Go(p, l) == pc' = [pc EXCEPT ![p] = l]
Returns(p) == mine' = [mine EXCEPT ![p] = 0] /\ Go(p, "run")

Holding(p) == {b \in Bufs : buf[b].lock = p}

-----------------------------------------------------------------------------
(* bget: the block's buffer, or the least recently used one that is free *)

\* As if B_DIRTY did not matter.
FreeUnpinned(b) == buf[b].refcnt = 0
Free(b) == buf[b].refcnt = 0 /\ ~buf[b].dirty

Cached(n) == {b \in Bufs : buf[b].blockno = n}

\* A caller that holds a buffer asks for another one only in this order: after
\* a block of the log any other (install_trans and write_log), after an
\* indirect block the bitmap and the blocks it allocates (bmap, itrunc).
Rank(n) == IF n \in LogBlocks THEN 1 ELSE IF n \in Indirect THEN 2 ELSE 3
MayAsk(p, n) ==
    /\ Cardinality(Holding(p)) < MaxHeld
    /\ \A b \in Holding(p) : Rank(buf[b].blockno) < Rank(n)

bgetHit(p, n) ==
    /\ pc[p] = "run" /\ MayAsk(p, n)
    /\ \E b \in Cached(n) :
         /\ buf' = [buf EXCEPT ![b].refcnt = @ + 1]
         /\ mine' = [mine EXCEPT ![p] = b]
    /\ Go(p, "acquire")
    /\ UNCHANGED <<lru, disk, idequeue, wire, panicked>>

recycle(p, n, b) ==
    /\ buf' = [buf EXCEPT ![b] = [@ EXCEPT !.blockno = n, !.valid = FALSE,
                                           !.dirty = FALSE, !.refcnt = 1,
                                           !.failed = FALSE]]
    /\ mine' = [mine EXCEPT ![p] = b]
    /\ Go(p, "acquire")
    /\ UNCHANGED panicked

\* The last place of the list at which a buffer is free.
LastFree(i) == Free(lru[i]) /\ \A j \in Bufs : j > i => ~Free(lru[j])

bgetMiss(p, n) ==
    /\ pc[p] = "run" /\ MayAsk(p, n) /\ Cached(n) = {}
    /\ \/ \E i \in Bufs : LastFree(i) /\ recycle(p, n, lru[i])
       \/ /\ \A i \in Bufs : ~Free(lru[i])
          /\ panicked' = TRUE
          /\ UNCHANGED <<buf, mine, pc>>
    /\ UNCHANGED <<lru, disk, idequeue, wire>>

-----------------------------------------------------------------------------
(* sleeplock.c *)

\* As if the first look at the lock were the last.
acquiresleepBarges(p) ==
    /\ pc[p] = "acquire"
    /\ buf' = [buf EXCEPT ![mine[p]].lock = p]
    /\ Go(p, "locked")
    /\ UNCHANGED <<lru, disk, idequeue, wire, mine, panicked>>

acquiresleep(p) ==
    /\ pc[p] = "acquire"
    /\ LET free == buf[mine[p]].lock = None
       IN  /\ Go(p, IF free THEN "locked" ELSE "asleepLock")
           /\ buf' = IF free THEN [buf EXCEPT ![mine[p]].lock = p] ELSE buf
    /\ UNCHANGED <<lru, disk, idequeue, wire, mine, panicked>>

\* wakeup(chan): those asleep at label from on buffer b look again.
wakeup(c, b, from, to) ==
    [q \in Procs |-> IF c[q] = from /\ mine[q] = b THEN to ELSE c[q]]

\* As if releasesleep only unlocked.
releaseNoWakeup(c, b) == c
releaseWakes(c, b) == wakeup(c, b, "asleepLock", "acquire")

-----------------------------------------------------------------------------
(* ide.c *)

\* idestart: a write sends its data with the command.
idestart(b, g) == wire' = IF g[b].dirty THEN g[b].data ELSE None

\* iderw of buffer b, which p holds and whose flags g has set: queue it, sleep.
iderw(p, b, g) ==
    /\ buf' = g
    /\ mine' = [mine EXCEPT ![p] = b]
    /\ idequeue' = Append(idequeue, b)
    /\ IF idequeue = <<>> THEN idestart(b, g) ELSE UNCHANGED wire
    /\ Go(p, "asleepIo")

\* The active request is done with: a write has written what idestart sent, a
\* read has read the block or, after an error of the disk (idewait), nothing,
\* and leaves what was in the buffer.
Done(old, fails) ==
    [old EXCEPT !.data = IF old.dirty \/ fails THEN @ ELSE disk[old.blockno],
                !.failed = IF old.dirty THEN @ ELSE fails,
                !.valid = TRUE, !.dirty = FALSE]

\* The interrupt after the active request; it starts the next.
ideintr(fails) ==
    /\ idequeue # <<>>
    /\ LET b == Head(idequeue)
       IN  /\ buf' = [buf EXCEPT ![b] = Done(@, fails)]
           /\ disk' = IF buf[b].dirty THEN [disk EXCEPT ![buf[b].blockno] = wire]
                      ELSE disk
           /\ idequeue' = Tail(idequeue)
           /\ IF Len(idequeue) > 1 THEN idestart(idequeue[2], buf)
              ELSE wire' = None
           /\ pc' = wakeup(pc, b, "asleepIo", "io")
    /\ UNCHANGED <<lru, mine, panicked>>

\* iderw's while: the request is done, or sleep again.
iderwWakes(p) ==
    /\ pc[p] = "io"
    /\ IF buf[mine[p]].valid /\ ~buf[mine[p]].dirty THEN Returns(p)
       ELSE Go(p, "asleepIo") /\ UNCHANGED mine
    /\ UNCHANGED <<buf, lru, disk, idequeue, wire, panicked>>

-----------------------------------------------------------------------------
(* bread, bwrite, brelse, and log_write on a buffer p has locked *)

breadReady(p) ==
    /\ pc[p] = "locked" /\ buf[mine[p]].valid
    /\ Returns(p)
    /\ UNCHANGED <<buf, lru, disk, idequeue, wire, panicked>>

breadReads(p) ==
    /\ pc[p] = "locked" /\ ~buf[mine[p]].valid
    /\ iderw(p, mine[p], buf)
    /\ UNCHANGED <<lru, disk, panicked>>

\* The holder changes the data and sets B_DIRTY.
Changed(b, v) ==
    [buf EXCEPT ![b] = [@ EXCEPT !.dirty = TRUE, !.data = v, !.failed = FALSE]]

bwrite(p, b, v) ==
    /\ pc[p] = "run" /\ b \in Holding(p)
    /\ iderw(p, b, Changed(b, v))
    /\ UNCHANGED <<lru, disk, panicked>>

Pinned == {b \in Bufs : buf[b].dirty} \ ToSet(idequeue)

log_write(p, b, v) ==
    /\ pc[p] = "run" /\ b \in Holding(p)
    /\ Cardinality(Pinned \cup {b}) <= MaxPinned
    /\ buf' = Changed(b, v)
    /\ UNCHANGED <<lru, disk, idequeue, wire, pc, mine, panicked>>

brelseUnlocks(p, b) ==
    /\ pc[p] = "run" /\ b \in Holding(p)
    /\ buf' = [buf EXCEPT ![b].lock = None]
    /\ mine' = [mine EXCEPT ![p] = b]
    /\ pc' = releaseWakes([pc EXCEPT ![p] = "release"], b)
    /\ UNCHANGED <<lru, disk, idequeue, wire, panicked>>

\* The list with b taken out and put in front.
inFront(b) ==
    LET place == CHOOSE i \in Bufs : lru[i] = b
    IN  [i \in Bufs |-> IF i = 1 THEN b
                        ELSE IF i <= place THEN lru[i - 1] ELSE lru[i]]

\* The last user puts the buffer in front.
brelseDrops(p) ==
    /\ pc[p] = "release"
    /\ LET b == mine[p]
       IN  /\ buf' = [buf EXCEPT ![b].refcnt = @ - 1]
           /\ lru' = IF buf[b].refcnt = 1 THEN inFront(b) ELSE lru
    /\ Returns(p)
    /\ UNCHANGED <<disk, idequeue, wire, panicked>>

Step(p) ==
    \/ \E n \in Blocks : bgetHit(p, n) \/ bgetMiss(p, n)
    \/ \E b \in Bufs, v \in Values : bwrite(p, b, v) \/ log_write(p, b, v)
    \/ \E b \in Bufs : brelseUnlocks(p, b)
    \/ acquiresleep(p) \/ breadReady(p) \/ breadReads(p)
    \/ iderwWakes(p) \/ brelseDrops(p)

\* panic("bget: no buffers") stops the machine.
Stopped == panicked /\ UNCHANGED vars

Next ==
    \/ /\ ~panicked
       /\ (\E p \in Procs : Step(p)) \/ (\E fails \in BOOLEAN : ideintr(fails))
    \/ Stopped

Spec == Init /\ [][Next]_vars

-----------------------------------------------------------------------------
\* The processes that hold a buffer, wait for it or are giving it up.
Users(b) == {p \in Procs : mine[p] = b \/ buf[b].lock = p}

\* A block has one buffer, a buffer counts its users and is locked while the
\* disk works on it, the list has each buffer once and the queue none twice.
OneBufferPerBlock ==
    /\ \A n \in Blocks : Cardinality(Cached(n)) <= 1
    /\ \A b \in Bufs :
         /\ buf[b].refcnt = Cardinality(Users(b))
         /\ \A p \in Procs :
              pc[p] \in {"locked", "asleepIo", "io"} /\ mine[p] = b
                => buf[b].lock = p
    /\ Len(lru) = NBUF /\ ToSet(lru) = Bufs
    /\ IsInjective(idequeue)

\* What a process that reads block n now is given, if the disk does not fail.
Content(n) ==
    IF \E b \in Cached(n) : buf[b].valid /\ ~buf[b].failed
    THEN buf[CHOOSE b \in Cached(n) : TRUE].data ELSE disk[n]

\* Only a process that runs and holds a block's buffer changes what others read
\* of it: not the recycling of a buffer, nor a request of the disk.
ContentChangesUnderLock ==
    [][\A n \in Blocks :
         Content(n)' # Content(n) =>
           \E p \in Procs : /\ pc[p] = "run"
                            /\ \E b \in Holding(p) : buf[b].blockno = n]_vars

\* A block nobody pins or writes is on disk as it is in memory, unless the read
\* that filled its buffer failed.
CleanIsOnDisk ==
    \A b \in Bufs : buf[b].valid /\ ~buf[b].dirty /\ ~buf[b].failed
                      => disk[buf[b].blockno] = buf[b].data

\* The cache is coherent: one buffer per block, and clean means on disk.
CacheCoherent == OneBufferPerBlock /\ CleanIsOnDisk

\* Nobody sleeps for good: whoever waits for the disk has his buffer queued,
\* with a write's data on its way when it is first, and whoever waits for a
\* lock waits for a holder who will wake him.
NoLostWakeup ==
    \A p \in Procs :
      LET b == mine[p]
      IN  /\ pc[p] = "asleepLock" => buf[b].lock # None
          /\ pc[p] = "asleepIo" => b \in ToSet(idequeue)
          /\ pc[p] = "asleepIo" /\ b = Head(idequeue) /\ buf[b].dirty
               => wire = buf[b].data
=============================================================================
