------------------------- MODULE BufferCacheProofs -------------------------
(***************************************************************************)
(* Proofs about BufferCache, for every set of processes and blocks, every  *)
(* number of buffers and every number of them a process holds or the log   *)
(* pins.                                                                   *)
(***************************************************************************)
EXTENDS BufferCache, FiniteSetTheorems, SequenceTheorems, TLAPS

\* Places at which a process has the buffer of its call locked, and others.
Locked == {"locked", "asleepIo", "io"}
Places == Locked \cup {"run", "acquire", "asleepLock", "release"}

Buffer == [blockno : Blocks \cup {None}, valid : BOOLEAN, dirty : BOOLEAN,
           refcnt : Nat, lock : Procs \cup {None}, data : Values \cup {None},
           failed : BOOLEAN]

TypeOK ==
    /\ buf \in [Bufs -> Buffer]
    /\ lru \in [Bufs -> Bufs]
    /\ disk \in [Blocks -> Values]
    /\ idequeue \in Seq(Bufs)
    /\ wire \in Values \cup {None}
    /\ pc \in [Procs -> Places]
    /\ mine \in [Procs -> 0 .. NBUF]

\* A process is in a call on a buffer unless it runs.
HasBuffer == \A p \in Procs : pc[p] = "run" <=> mine[p] = 0

RefExact == \A b \in Bufs : buf[b].refcnt = Cardinality(Users(b))

\* The list holds every buffer.
Listed == \A b \in Bufs : \E i \in Bufs : lru[i] = b

\* No two buffers for one block.
OneBuffer ==
    \A b, c \in Bufs :
        buf[b].blockno = buf[c].blockno /\ buf[b].blockno # None => b = c

\* What the flags of a buffer say.
Flags ==
    \A b \in Bufs :
        /\ buf[b].valid => buf[b].blockno # None
        /\ buf[b].valid /\ ~buf[b].failed => buf[b].data # None
        /\ buf[b].dirty => buf[b].valid /\ ~buf[b].failed

\* What a process may count on at each place.
AtPlace(p, b) ==
    /\ buf[b].blockno # None
    /\ pc[p] \in Locked <=> buf[b].lock = p
    /\ pc[p] = "asleepLock" => buf[b].lock # None
    /\ pc[p] = "asleepIo" => (buf[b].valid <=> buf[b].dirty)
    /\ pc[p] = "io" => buf[b].valid /\ ~buf[b].dirty

ByPlace == \A p \in Procs : pc[p] # "run" => AtPlace(p, mine[p])

\* A locked buffer has a block, and its contents unless its holder gets them.
Held ==
    \A b \in Bufs, p \in Procs :
        buf[b].lock = p => buf[b].blockno # None /\ (buf[b].valid \/ mine[p] = b)

\* The queue has each buffer once, and only those somebody sleeps for.
Queue ==
    /\ \A i, j \in 1 .. Len(idequeue) : idequeue[i] = idequeue[j] => i = j
    /\ \A i \in 1 .. Len(idequeue) :
         \E p \in Procs : mine[p] = idequeue[i] /\ pc[p] = "asleepIo"
    /\ \A p \in Procs : pc[p] = "asleepIo" =>
         \E i \in 1 .. Len(idequeue) : idequeue[i] = mine[p]

\* The active request is a write exactly if its buffer is dirty.
Wire ==
    idequeue # <<>> =>
        wire = IF buf[idequeue[1]].dirty THEN buf[idequeue[1]].data ELSE None

IInv ==
    /\ TypeOK
    /\ HasBuffer /\ RefExact /\ Listed
    /\ OneBuffer /\ Flags /\ CleanIsOnDisk
    /\ ByPlace /\ Held
    /\ Queue /\ Wire

-----------------------------------------------------------------------------
LEMMA Constants ==
    /\ NBUF \in Nat \ {0} /\ IsFiniteSet(Procs)
    /\ None \notin Procs /\ None \notin Blocks /\ None \notin Values
    /\ 0 \notin Bufs /\ Bufs \subseteq 0 .. NBUF
BY NBUFAssumption, ProcsAssumption, NoneAssumption DEF Bufs

\* The buffer of a process that is in a call on one.
LEMMA MineIsBuffer ==
    ASSUME TypeOK, HasBuffer, NEW p \in Procs, pc[p] # "run"
    PROVE  mine[p] \in Bufs /\ buf[mine[p]] \in Buffer
<1>1. mine[p] \in 0 .. NBUF /\ mine[p] # 0
  BY DEF TypeOK, HasBuffer
<1>2. mine[p] \in Bufs
  BY <1>1, Constants DEF Bufs
<1> QED
  BY <1>2 DEF TypeOK

LEMMA UsersCounted ==
    ASSUME NEW b
    PROVE  /\ IsFiniteSet(Users(b)) /\ Cardinality(Users(b)) \in Nat
           /\ Cardinality(Users(b)) = 0 <=> Users(b) = {}
<1>1. Users(b) \subseteq Procs
  BY DEF Users
<1>2. IsFiniteSet(Users(b))
  BY <1>1, Constants, FS_Subset
<1> QED
  BY <1>2, FS_EmptySet, FS_CardinalityType

\* A caller does not have the buffer of the block it asks for.
LEMMA AsksForAnother ==
    ASSUME IInv, NEW p \in Procs, NEW n \in Blocks, pc[p] = "run", MayAsk(p, n),
           NEW b \in Bufs, buf[b].blockno = n
    PROVE  p \notin Users(b)
<1>1. mine[p] # b
  BY Constants DEF IInv, HasBuffer
<1>2. Rank(n) \in {1, 2, 3}
  BY DEF Rank
<1>3. b \notin Holding(p)
  BY <1>2 DEF MayAsk
<1> QED
  BY <1>1, <1>3 DEF Users, Holding

\* A free buffer has no users.
LEMMA FreeUnused ==
    ASSUME IInv, NEW b \in Bufs, Free(b)
    PROVE  Users(b) = {}
BY UsersCounted DEF IInv, RefExact, Free

-----------------------------------------------------------------------------
(* What each step changes, buffer by buffer and process by process *)

\* Process p is at place l in a call on b (0 for none), the others where they
\* were.
Moves(p, l, b) ==
    /\ pc'[p] = l /\ mine'[p] = b
    /\ \A q \in Procs : q # p => pc'[q] = pc[q] /\ mine'[q] = mine[q]

\* The buffers other than b are as they were.
Only(b) == \A c \in Bufs : c # b => buf'[c] = buf[c]

\* What b has of its block is as it was.
SameBlock(b) ==
    /\ buf'[b].blockno = buf[b].blockno /\ buf'[b].data = buf[b].data
    /\ buf'[b].valid = buf[b].valid /\ buf'[b].dirty = buf[b].dirty
    /\ buf'[b].failed = buf[b].failed

DiskIdle == UNCHANGED <<disk, idequeue, wire>>

Hit(p, b) ==
    /\ pc[p] = "run" /\ p \notin Users(b) /\ buf[b].blockno # None
    /\ Moves(p, "acquire", b) /\ Only(b) /\ SameBlock(b)
    /\ buf'[b].lock = buf[b].lock /\ buf'[b].refcnt = buf[b].refcnt + 1
    /\ DiskIdle /\ UNCHANGED lru

Miss(p, n, b) ==
    /\ pc[p] = "run" /\ Free(b) /\ Users(b) = {}
    /\ \A c \in Bufs : buf[c].blockno # n
    /\ Moves(p, "acquire", b) /\ Only(b)
    /\ buf'[b].blockno = n /\ ~buf'[b].valid /\ ~buf'[b].dirty /\ ~buf'[b].failed
    /\ buf'[b].lock = buf[b].lock /\ buf'[b].refcnt = buf[b].refcnt + 1
    /\ DiskIdle /\ UNCHANGED lru

Acquires(p, b) ==
    /\ pc[p] = "acquire" /\ mine[p] = b /\ buf[b].lock = None
    /\ Moves(p, "locked", b) /\ Only(b) /\ SameBlock(b)
    /\ buf'[b].lock = p /\ buf'[b].refcnt = buf[b].refcnt
    /\ DiskIdle /\ UNCHANGED lru

Waits(p, b) ==
    /\ pc[p] = "acquire" /\ mine[p] = b /\ buf[b].lock # None
    /\ Moves(p, "asleepLock", b)
    /\ DiskIdle /\ UNCHANGED <<buf, lru>>

Finishes(p, b) ==
    /\ pc[p] \in {"locked", "io"} /\ mine[p] = b /\ buf[b].valid
    /\ Moves(p, "run", 0)
    /\ DiskIdle /\ UNCHANGED <<buf, lru>>

\* p has b locked, and b is not queued.
Works(p, b) ==
    buf[b].lock = p /\ (pc[p] = "run" \/ (pc[p] = "locked" /\ mine[p] = b))

Queues(p, b) ==
    /\ Works(p, b) /\ Moves(p, "asleepIo", b) /\ Only(b)
    /\ \/ buf' = buf /\ ~buf[b].valid
       \/ /\ buf'[b].blockno = buf[b].blockno
          /\ buf'[b].valid = buf[b].valid /\ buf'[b].dirty /\ ~buf'[b].failed
          /\ buf[b].valid /\ buf'[b].data \in Values /\ pc[p] = "run"
    /\ buf'[b].lock = p /\ buf'[b].refcnt = buf[b].refcnt
    /\ idequeue' = Append(idequeue, b)
    /\ IF idequeue = <<>> THEN idestart(b, buf') ELSE wire' = wire
    /\ UNCHANGED <<disk, lru>>

Pins(p, b) ==
    /\ Works(p, b) /\ pc[p] = "run" /\ UNCHANGED <<pc, mine>> /\ Only(b)
    /\ buf'[b].blockno = buf[b].blockno /\ buf'[b].valid = buf[b].valid
    /\ buf[b].valid /\ buf'[b].dirty /\ ~buf'[b].failed /\ buf'[b].data \in Values
    /\ buf'[b].lock = p /\ buf'[b].refcnt = buf[b].refcnt
    /\ DiskIdle /\ UNCHANGED lru

Unlocks(p, b) ==
    /\ pc[p] = "run" /\ buf[b].lock = p
    /\ pc'[p] = "release" /\ mine'[p] = b
    /\ \A q \in Procs : q # p =>
         /\ pc'[q] = IF pc[q] = "asleepLock" /\ mine[q] = b THEN "acquire"
                     ELSE pc[q]
         /\ mine'[q] = mine[q]
    /\ Only(b) /\ SameBlock(b)
    /\ buf'[b].lock = None /\ buf'[b].refcnt = buf[b].refcnt
    /\ DiskIdle /\ UNCHANGED lru

Drops(p, b) ==
    /\ pc[p] = "release" /\ mine[p] = b /\ Moves(p, "run", 0)
    /\ Only(b) /\ SameBlock(b)
    /\ buf'[b].lock = buf[b].lock /\ buf'[b].refcnt = buf[b].refcnt - 1
    /\ lru' = inFront(b) \/ lru' = lru
    /\ DiskIdle

\* The disk is done with buffer b.
Answers(b) ==
    /\ idequeue # <<>> /\ b = idequeue[1] /\ 1 \in 1 .. Len(idequeue)
    /\ buf[b].blockno \in Blocks /\ Only(b)
    /\ buf'[b].blockno = buf[b].blockno /\ buf'[b].lock = buf[b].lock
    /\ buf'[b].refcnt = buf[b].refcnt
    /\ buf'[b].valid /\ ~buf'[b].dirty
    /\ buf[b].dirty => ~buf'[b].failed /\ buf'[b].data = buf[b].data
    /\ ~buf[b].dirty /\ ~buf'[b].failed => buf'[b].data = disk[buf[b].blockno]
    /\ ~buf'[b].failed => /\ buf'[b].data \in Values
                          /\ disk'[buf[b].blockno] = buf'[b].data
    /\ buf'[b].failed => disk'[buf[b].blockno] = disk[buf[b].blockno]
    /\ \A n \in Blocks : n # buf[b].blockno => disk'[n] = disk[n]
    /\ \A q \in Procs :
         /\ pc'[q] = IF pc[q] = "asleepIo" /\ mine[q] = b THEN "io" ELSE pc[q]
         /\ mine'[q] = mine[q]
    /\ idequeue' = Tail(idequeue)
    /\ IF Len(idequeue) > 1 THEN idestart(idequeue[2], buf) ELSE wire' = None
    /\ UNCHANGED lru

\* Nothing but the panic.
Same == UNCHANGED <<buf, lru, disk, idequeue, wire, pc, mine>>

Effect ==
    \/ \E p \in Procs, b \in Bufs :
         \/ Hit(p, b) \/ Acquires(p, b) \/ Waits(p, b) \/ Finishes(p, b)
         \/ Queues(p, b) \/ Pins(p, b) \/ Unlocks(p, b) \/ Drops(p, b)
         \/ \E n \in Blocks : Miss(p, n, b)
    \/ \E b \in Bufs : Answers(b)
    \/ Same

LEMMA NextCases ==
    ASSUME Next
    PROVE  \/ \E p \in Procs, n \in Blocks : bgetHit(p, n) \/ bgetMiss(p, n)
           \/ \E p \in Procs, b \in Bufs, v \in Values :
                 bwrite(p, b, v) \/ log_write(p, b, v)
           \/ \E p \in Procs, b \in Bufs : brelseUnlocks(p, b)
           \/ \E p \in Procs :
                 \/ acquiresleep(p) \/ breadReady(p) \/ breadReads(p)
                 \/ iderwWakes(p) \/ brelseDrops(p)
           \/ \E fails \in BOOLEAN : ideintr(fails)
           \/ Stopped
BY DEF Next, Step

\* The fields of a buffer, and those of one with a field changed.
LEMMA BufferFields ==
    ASSUME NEW x \in Buffer
    PROVE  /\ x.blockno \in Blocks \cup {None} /\ x.valid \in BOOLEAN
           /\ x.dirty \in BOOLEAN /\ x.refcnt \in Nat
           /\ x.lock \in Procs \cup {None} /\ x.data \in Values \cup {None}
           /\ x.failed \in BOOLEAN
BY DEF Buffer

LEMMA MovesByGo ==
    ASSUME TypeOK, NEW p \in Procs, NEW l, NEW b,
           pc' = [pc EXCEPT ![p] = l], mine' = [mine EXCEPT ![p] = b]
    PROVE  Moves(p, l, b)
BY DEF TypeOK, Moves

LEMMA MovesInPlace ==
    ASSUME TypeOK, NEW p \in Procs, NEW l,
           pc' = [pc EXCEPT ![p] = l], mine' = mine
    PROVE  Moves(p, l, mine[p])
BY DEF TypeOK, Moves

\* One buffer is replaced.
LEMMA OnlyOne ==
    ASSUME TypeOK, NEW b \in Bufs, NEW x, buf' = [buf EXCEPT ![b] = x]
    PROVE  Only(b) /\ buf'[b] = x
BY DEF TypeOK, Only

LEMMA GetEffect ==
    ASSUME IInv, NEW p \in Procs, NEW n \in Blocks, bgetHit(p, n) \/ bgetMiss(p, n)
    PROVE  \/ Same
           \/ \E b \in Bufs : Hit(p, b) \/ Miss(p, n, b)
<1>1. TypeOK
  BY DEF IInv
<1>2. CASE bgetHit(p, n)
  <2>1. PICK b \in Bufs : /\ buf[b].blockno = n
                          /\ buf' = [buf EXCEPT ![b].refcnt = @ + 1]
                          /\ mine' = [mine EXCEPT ![p] = b]
    BY <1>2 DEF bgetHit, Cached
  <2>2. buf[b] \in Buffer
    BY <1>1 DEF TypeOK
  <2>3. Moves(p, "acquire", b)
    BY <1>1, <1>2, <2>1, MovesByGo DEF bgetHit, Go
  <2>4. Only(b) /\ buf'[b] = [buf[b] EXCEPT !.refcnt = @ + 1]
    BY <1>1, <2>1 DEF TypeOK, Only
  <2>5. SameBlock(b) /\ buf'[b].lock = buf[b].lock
          /\ buf'[b].refcnt = buf[b].refcnt + 1
    BY <2>2, <2>4 DEF Buffer, SameBlock
  <2>6. p \notin Users(b)
    BY <1>2, <2>1, AsksForAnother DEF bgetHit
  <2> QED
    BY <1>2, <2>1, <2>3, <2>4, <2>5, <2>6, Constants DEF Hit, bgetHit, DiskIdle
<1>3. CASE bgetMiss(p, n)
  <2>1. CASE \A i \in Bufs : ~Free(lru[i])
    BY <1>3, <2>1 DEF bgetMiss, LastFree, Same
  <2>2. CASE \E i \in Bufs : LastFree(i) /\ recycle(p, n, lru[i])
    <3>1. PICK b \in Bufs : Free(b) /\ recycle(p, n, b)
      BY <1>1, <2>2 DEF LastFree, TypeOK
    <3>2. buf[b] \in Buffer /\ buf[b].refcnt = 0 /\ Users(b) = {}
      BY <1>1, <3>1, FreeUnused DEF TypeOK, Free
    <3>3. Moves(p, "acquire", b)
      BY <1>1, <3>1, MovesByGo DEF recycle, Go
    <3>4. Only(b) /\ buf'[b] = [buf[b] EXCEPT !.blockno = n, !.valid = FALSE,
                                    !.dirty = FALSE, !.refcnt = 1, !.failed = FALSE]
      BY <1>1, <3>1 DEF TypeOK, Only, recycle
    <3>5. /\ buf'[b].blockno = n /\ ~buf'[b].valid /\ ~buf'[b].dirty
          /\ ~buf'[b].failed /\ buf'[b].lock = buf[b].lock
          /\ buf'[b].refcnt = buf[b].refcnt + 1
      BY <3>2, <3>4 DEF Buffer
    <3>6. \A c \in Bufs : buf[c].blockno # n
      BY <1>3 DEF bgetMiss, Cached
    <3> QED
      BY <1>3, <3>1, <3>2, <3>3, <3>4, <3>5, <3>6 DEF Miss, bgetMiss, DiskIdle
  <2> QED
    BY <1>3, <2>1, <2>2 DEF bgetMiss
<1> QED
  BY <1>2, <1>3

LEMMA LockEffect ==
    ASSUME IInv, NEW p \in Procs, acquiresleep(p) \/ breadReady(p) \/ iderwWakes(p)
    PROVE  \E b \in Bufs : Acquires(p, b) \/ Waits(p, b) \/ Finishes(p, b)
<1>1. TypeOK /\ HasBuffer /\ ByPlace
  BY DEF IInv
<1> DEFINE b == mine[p]
<1>2. b \in Bufs /\ buf[b] \in Buffer
  BY <1>1, MineIsBuffer DEF acquiresleep, breadReady, iderwWakes
<1>3. CASE acquiresleep(p) /\ buf[b].lock = None
  <2>1. /\ pc' = [pc EXCEPT ![p] = "locked"] /\ mine' = mine
        /\ buf' = [buf EXCEPT ![b].lock = p] /\ pc[p] = "acquire"
        /\ DiskIdle /\ lru' = lru
    BY <1>3 DEF acquiresleep, Go, DiskIdle
  <2>2. Moves(p, "locked", b)
    BY <1>1, <2>1, MovesInPlace
  <2>3. Only(b) /\ buf'[b] = [buf[b] EXCEPT !.lock = p]
    BY <1>1, <1>2, <2>1 DEF TypeOK, Only
  <2>4. SameBlock(b) /\ buf'[b].lock = p /\ buf'[b].refcnt = buf[b].refcnt
    BY <1>2, <2>3 DEF Buffer, SameBlock
  <2> QED
    BY <1>2, <1>3, <2>1, <2>2, <2>3, <2>4 DEF Acquires
<1>4. CASE acquiresleep(p) /\ buf[b].lock # None
  <2>1. /\ pc' = [pc EXCEPT ![p] = "asleepLock"] /\ mine' = mine
        /\ buf' = buf /\ pc[p] = "acquire" /\ DiskIdle /\ lru' = lru
    BY <1>4 DEF acquiresleep, Go, DiskIdle
  <2>2. Moves(p, "asleepLock", b)
    BY <1>1, <2>1, MovesInPlace
  <2> QED
    BY <1>2, <1>4, <2>1, <2>2 DEF Waits
<1>5. CASE breadReady(p) \/ iderwWakes(p)
  <2>1. pc[p] \in {"locked", "io"} /\ buf[b].valid
    BY <1>1, <1>5 DEF breadReady, iderwWakes, ByPlace, AtPlace
  <2>2. pc[p] = "io" => buf[b].valid /\ ~buf[b].dirty
    BY <1>1 DEF ByPlace, AtPlace
  <2>3. Returns(p) /\ DiskIdle /\ UNCHANGED <<buf, lru>>
    BY <1>5, <2>2 DEF breadReady, iderwWakes, DiskIdle
  <2>4. Moves(p, "run", 0)
    BY <1>1, <2>3, MovesByGo DEF Returns, Go
  <2> QED
    BY <1>2, <2>1, <2>3, <2>4 DEF Finishes
<1> QED
  BY <1>3, <1>4, <1>5

\* The holder's change to its buffer.
LEMMA ChangedFields ==
    ASSUME TypeOK, NEW b \in Bufs, NEW v \in Values, buf' = Changed(b, v)
    PROVE  /\ Only(b)
           /\ buf'[b].blockno = buf[b].blockno /\ buf'[b].valid = buf[b].valid
           /\ buf'[b].dirty /\ ~buf'[b].failed /\ buf'[b].data = v
           /\ buf'[b].lock = buf[b].lock /\ buf'[b].refcnt = buf[b].refcnt
<1>1. buf[b] \in Buffer
  BY DEF TypeOK
<1>2. /\ Only(b)
      /\ buf'[b] = [buf[b] EXCEPT !.dirty = TRUE, !.data = v, !.failed = FALSE]
  BY DEF TypeOK, Only, Changed
<1> QED
  BY <1>1, <1>2 DEF Buffer

\* A process that runs has the contents of what it holds.
LEMMA HeldValid ==
    ASSUME IInv, NEW p \in Procs, NEW b \in Holding(p), pc[p] = "run"
    PROVE  b \in Bufs /\ buf[b].lock = p /\ buf[b].valid /\ Works(p, b)
<1>1. b \in Bufs /\ buf[b].lock = p
  BY DEF Holding
<1>2. mine[p] # b
  BY <1>1, Constants DEF IInv, HasBuffer
<1> QED
  BY <1>1, <1>2 DEF IInv, Held, Works

LEMMA WriteEffect ==
    ASSUME IInv, NEW p \in Procs,
           \/ breadReads(p)
           \/ \E b \in Bufs, v \in Values : bwrite(p, b, v) \/ log_write(p, b, v)
    PROVE  \E b \in Bufs : Queues(p, b) \/ Pins(p, b)
<1>1. TypeOK /\ HasBuffer /\ ByPlace
  BY DEF IInv
<1>2. CASE breadReads(p)
  <2> DEFINE b == mine[p]
  <2>1. pc[p] = "locked" /\ ~buf[b].valid /\ iderw(p, b, buf) /\ UNCHANGED <<lru, disk>>
    BY <1>2 DEF breadReads
  <2>2. b \in Bufs /\ buf[b].lock = p
    BY <1>1, <2>1, MineIsBuffer DEF ByPlace, AtPlace, Locked
  <2>3. Moves(p, "asleepIo", b)
    BY <1>1, <2>1, MovesByGo DEF iderw, Go
  <2>4. buf' = buf /\ Only(b)
    BY <2>1 DEF iderw, Only
  <2> QED
    BY <2>1, <2>2, <2>3, <2>4 DEF Queues, Works, iderw
<1>3. ASSUME NEW b \in Bufs, NEW v \in Values, bwrite(p, b, v)
      PROVE  Queues(p, b)
  <2>1. /\ pc[p] = "run" /\ b \in Holding(p) /\ UNCHANGED <<lru, disk>>
        /\ iderw(p, b, Changed(b, v))
    BY <1>3 DEF bwrite
  <2>2. buf[b].lock = p /\ buf[b].valid /\ Works(p, b)
    BY <2>1, HeldValid
  <2>3. Moves(p, "asleepIo", b) /\ buf' = Changed(b, v)
    BY <1>1, <2>1, MovesByGo DEF iderw, Go
  <2>4. /\ Only(b)
        /\ buf'[b].blockno = buf[b].blockno /\ buf'[b].valid = buf[b].valid
        /\ buf'[b].dirty /\ ~buf'[b].failed /\ buf'[b].data = v
        /\ buf'[b].lock = buf[b].lock /\ buf'[b].refcnt = buf[b].refcnt
    BY <1>1, <2>3, ChangedFields
  <2>5. /\ idequeue' = Append(idequeue, b)
        /\ IF idequeue = <<>> THEN idestart(b, buf') ELSE wire' = wire
    BY <2>1, <2>3 DEF iderw
  <2> QED
    BY <2>1, <2>2, <2>3, <2>4, <2>5 DEF Queues
<1>4. ASSUME NEW b \in Bufs, NEW v \in Values, log_write(p, b, v)
      PROVE  Pins(p, b)
  <2>1. /\ pc[p] = "run" /\ b \in Holding(p) /\ buf' = Changed(b, v)
        /\ DiskIdle /\ UNCHANGED <<lru, pc, mine>>
    BY <1>4 DEF log_write, DiskIdle
  <2>2. buf[b].lock = p /\ buf[b].valid /\ Works(p, b)
    BY <2>1, HeldValid
  <2> QED
    BY <1>1, <2>1, <2>2, ChangedFields DEF Pins
<1> QED
  BY <1>2, <1>3, <1>4

LEMMA ReleaseEffect ==
    ASSUME IInv, NEW p \in Procs,
           brelseDrops(p) \/ \E b \in Bufs : brelseUnlocks(p, b)
    PROVE  \E b \in Bufs : Unlocks(p, b) \/ Drops(p, b)
<1>1. TypeOK /\ HasBuffer
  BY DEF IInv
<1>2. ASSUME NEW b \in Bufs, brelseUnlocks(p, b)
      PROVE  Unlocks(p, b)
  <2>1. /\ pc[p] = "run" /\ buf[b].lock = p /\ buf[b] \in Buffer
        /\ buf' = [buf EXCEPT ![b].lock = None]
        /\ mine' = [mine EXCEPT ![p] = b]
        /\ pc' = releaseWakes([pc EXCEPT ![p] = "release"], b)
        /\ DiskIdle /\ lru' = lru
    BY <1>1, <1>2 DEF brelseUnlocks, Holding, DiskIdle, TypeOK
  <2>2. Only(b) /\ buf'[b] = [buf[b] EXCEPT !.lock = None]
    BY <1>1, <2>1 DEF TypeOK, Only
  <2>3. SameBlock(b) /\ buf'[b].lock = None /\ buf'[b].refcnt = buf[b].refcnt
    BY <2>1, <2>2 DEF Buffer, SameBlock
  <2>4. /\ pc'[p] = "release" /\ mine'[p] = b
        /\ \A q \in Procs : q # p =>
             /\ pc'[q] = IF pc[q] = "asleepLock" /\ mine[q] = b THEN "acquire"
                         ELSE pc[q]
             /\ mine'[q] = mine[q]
    BY <1>1, <2>1 DEF TypeOK, releaseWakes, wakeup
  <2> QED
    BY <2>1, <2>2, <2>3, <2>4 DEF Unlocks
<1>3. CASE brelseDrops(p)
  <2> DEFINE b == mine[p]
  <2>1. b \in Bufs /\ buf[b] \in Buffer
    BY <1>1, <1>3, MineIsBuffer DEF brelseDrops
  <2>2. /\ pc[p] = "release" /\ buf' = [buf EXCEPT ![b].refcnt = @ - 1]
        /\ lru' = inFront(b) \/ lru' = lru
        /\ Returns(p) /\ DiskIdle
    BY <1>3 DEF brelseDrops, DiskIdle
  <2>3. Only(b) /\ buf'[b] = [buf[b] EXCEPT !.refcnt = @ - 1]
    BY <1>1, <2>1, <2>2 DEF TypeOK, Only
  <2>4. SameBlock(b) /\ buf'[b].lock = buf[b].lock
          /\ buf'[b].refcnt = buf[b].refcnt - 1
    BY <2>1, <2>3 DEF Buffer, SameBlock
  <2>5. Moves(p, "run", 0)
    BY <1>1, <2>2, MovesByGo DEF Returns, Go
  <2> HIDE DEF b
  <2>6. Drops(p, b)
    BY <2>2, <2>3, <2>4, <2>5 DEF Drops, b
  <2> QED
    BY <2>1, <2>6
<1> QED
  BY <1>2, <1>3

\* A request of a buffer whose holder sleeps for it.
LEMMA QueuedBlock ==
    ASSUME IInv, NEW i \in 1 .. Len(idequeue)
    PROVE  /\ idequeue[i] \in Bufs /\ buf[idequeue[i]] \in Buffer
           /\ buf[idequeue[i]].blockno \in Blocks
           /\ \E p \in Procs : mine[p] = idequeue[i] /\ pc[p] = "asleepIo"
<1>1. idequeue[i] \in Bufs
  BY ElementOfSeq DEF IInv, TypeOK
<1>2. PICK p \in Procs : mine[p] = idequeue[i] /\ pc[p] = "asleepIo"
  BY DEF IInv, Queue
<1>3. buf[idequeue[i]] \in Buffer
  BY <1>1 DEF IInv, TypeOK
<1>4. buf[idequeue[i]].blockno # None
  BY <1>2 DEF IInv, ByPlace, AtPlace
<1> QED
  BY <1>1, <1>2, <1>3, <1>4, BufferFields

LEMMA DiskEffect ==
    ASSUME IInv, NEW fails \in BOOLEAN, ideintr(fails)
    PROVE  \E b \in Bufs : Answers(b)
<1>1. TypeOK /\ Queue /\ Wire /\ ByPlace /\ Flags
  BY DEF IInv
<1> DEFINE b == idequeue[1]
           old == buf[b]
           new == Done(old, fails)
<1>2. /\ idequeue # <<>> /\ Head(idequeue) = b /\ 1 \in 1 .. Len(idequeue)
  BY <1>1, HeadTailProperties, EmptySeq, LenProperties DEF TypeOK, ideintr
<1>3. /\ buf' = [buf EXCEPT ![b] = new]
      /\ disk' = IF old.dirty THEN [disk EXCEPT ![old.blockno] = wire] ELSE disk
      /\ pc' = wakeup(pc, b, "asleepIo", "io") /\ mine' = mine
      /\ idequeue' = Tail(idequeue) /\ lru' = lru
      /\ IF Len(idequeue) > 1 THEN idestart(idequeue[2], buf) ELSE wire' = None
  BY <1>2 DEF ideintr
<1>4. b \in Bufs /\ old \in Buffer /\ old.blockno \in Blocks
  BY <1>2, QueuedBlock
<1>5. /\ new.blockno = old.blockno /\ new.lock = old.lock
      /\ new.refcnt = old.refcnt /\ new.valid /\ ~new.dirty
      /\ new.data = IF old.dirty \/ fails THEN old.data ELSE disk[old.blockno]
      /\ new.failed = IF old.dirty THEN old.failed ELSE fails
  BY <1>4 DEF Buffer, Done
<1>6. old.dirty => wire = old.data /\ old.data \in Values /\ ~old.failed
  BY <1>1, <1>2, <1>4 DEF Wire, Flags, Buffer
<1>7. disk[old.blockno] \in Values
  BY <1>1, <1>4 DEF TypeOK
<1> HIDE DEF new
<1>8. Only(b) /\ buf'[b] = new
  BY <1>1, <1>3, <1>4, OnlyOne
<1>9. /\ \A n \in Blocks : n # old.blockno => disk'[n] = disk[n]
      /\ disk'[old.blockno] = IF old.dirty THEN wire ELSE disk[old.blockno]
  BY <1>1, <1>3, <1>4 DEF TypeOK
<1>10. \A q \in Procs :
         /\ pc'[q] = IF pc[q] = "asleepIo" /\ mine[q] = b THEN "io" ELSE pc[q]
         /\ mine'[q] = mine[q]
  BY <1>3 DEF wakeup
<1>a. /\ old.dirty => ~new.failed /\ new.data = old.data
      /\ ~old.dirty /\ ~new.failed => new.data = disk[old.blockno]
      /\ ~new.failed => new.data \in Values /\ disk'[old.blockno] = new.data
      /\ new.failed => disk'[old.blockno] = disk[old.blockno]
  <2> HIDE DEF old
  <2>1. CASE old.dirty
    BY <1>5, <1>6, <1>9, <2>1
  <2>2. CASE ~old.dirty
    BY <1>5, <1>7, <1>9, <2>2
  <2> QED
    BY <2>1, <2>2
<1>11. Answers(b)
  BY <1>2, <1>3, <1>4, <1>5, <1>8, <1>9, <1>10, <1>a DEF Answers
<1> QED
  BY <1>4, <1>11

LEMMA StepEffect ==
    ASSUME IInv, [Next]_vars
    PROVE  Effect
<1>1. CASE UNCHANGED vars
  BY <1>1 DEF vars, Effect, Same
<1>2. CASE Next
  <2>1. ASSUME NEW p \in Procs, NEW n \in Blocks, bgetHit(p, n) \/ bgetMiss(p, n)
        PROVE  Effect
    BY <2>1, GetEffect DEF Effect
  <2>2. ASSUME NEW p \in Procs,
               acquiresleep(p) \/ breadReady(p) \/ iderwWakes(p)
        PROVE  Effect
    BY <2>2, LockEffect DEF Effect
  <2>3. ASSUME NEW p \in Procs,
               \/ breadReads(p)
               \/ \E b \in Bufs, v \in Values : bwrite(p, b, v) \/ log_write(p, b, v)
        PROVE  Effect
    BY <2>3, WriteEffect DEF Effect
  <2>4. ASSUME NEW p \in Procs,
               brelseDrops(p) \/ \E b \in Bufs : brelseUnlocks(p, b)
        PROVE  Effect
    BY <2>4, ReleaseEffect DEF Effect
  <2>5. ASSUME NEW fails \in BOOLEAN, ideintr(fails)
        PROVE  Effect
    BY <2>5, DiskEffect DEF Effect
  <2>6. CASE Stopped
    BY <2>6 DEF Stopped, vars, Effect, Same
  <2> QED
    BY <1>2, <2>1, <2>2, <2>3, <2>4, <2>5, <2>6, NextCases
<1> QED
  BY <1>1, <1>2

-----------------------------------------------------------------------------
(* Types *)

LEMMA IderwType ==
    ASSUME TypeOK, NEW p \in Procs, NEW b \in Bufs, NEW g \in [Bufs -> Buffer],
           iderw(p, b, g), UNCHANGED <<lru, disk>>
    PROVE  TypeOK'
<1>1. buf' \in [Bufs -> Buffer] /\ idequeue' \in Seq(Bufs)
  BY AppendProperties DEF TypeOK, iderw
<1>2. g[b] \in Buffer
  OBVIOUS
<1>3. wire' \in Values \cup {None}
  BY <1>2 DEF TypeOK, iderw, idestart, Buffer
<1>4. pc' \in [Procs -> Places] /\ mine' \in [Procs -> 0 .. NBUF]
  BY Constants DEF TypeOK, iderw, Go, Places, Locked
<1> QED
  BY <1>1, <1>3, <1>4 DEF TypeOK

LEMMA NextType ==
    ASSUME IInv, Next
    PROVE  TypeOK'
<1>1. TypeOK /\ HasBuffer
  BY DEF IInv
<1>2. ASSUME NEW p \in Procs, NEW n \in Blocks, bgetHit(p, n) PROVE TypeOK'
  <2>1. PICK b \in Bufs : /\ buf' = [buf EXCEPT ![b].refcnt = @ + 1]
                          /\ mine' = [mine EXCEPT ![p] = b]
    BY <1>2 DEF bgetHit, Cached
  <2>2. buf[b] \in Buffer /\ buf[b].refcnt + 1 \in Nat
    BY <1>1 DEF TypeOK, Buffer
  <2>3. buf' \in [Bufs -> Buffer]
    BY <1>1, <2>1, <2>2 DEF TypeOK, Buffer
  <2>4. mine' \in [Procs -> 0 .. NBUF] /\ pc' \in [Procs -> Places]
    BY <1>1, <1>2, <2>1, Constants DEF TypeOK, bgetHit, Go, Places
  <2> QED
    BY <1>1, <1>2, <2>3, <2>4 DEF TypeOK, bgetHit
<1>3. ASSUME NEW p \in Procs, NEW n \in Blocks, bgetMiss(p, n) PROVE TypeOK'
  <2>1. UNCHANGED <<lru, disk, idequeue, wire>>
    BY <1>3 DEF bgetMiss
  <2>2. CASE UNCHANGED <<buf, mine, pc>>
    BY <1>1, <2>1, <2>2 DEF TypeOK
  <2>3. CASE \E i \in Bufs : LastFree(i) /\ recycle(p, n, lru[i])
    <3>1. PICK b \in Bufs : recycle(p, n, b)
      BY <1>1, <2>3 DEF TypeOK
    <3>b. buf[b] \in Buffer
      BY <1>1 DEF TypeOK
    <3>a. [buf[b] EXCEPT !.blockno = n, !.valid = FALSE, !.dirty = FALSE,
                         !.refcnt = 1, !.failed = FALSE] \in Buffer
      BY <3>b DEF Buffer
    <3>2. buf' \in [Bufs -> Buffer]
      BY <1>1, <3>1, <3>a DEF TypeOK, recycle
    <3>3. mine' \in [Procs -> 0 .. NBUF] /\ pc' \in [Procs -> Places]
      BY <1>1, <3>1, Constants DEF TypeOK, recycle, Go, Places
    <3> QED
      BY <1>1, <2>1, <3>2, <3>3 DEF TypeOK
  <2> QED
    BY <1>3, <2>2, <2>3 DEF bgetMiss
<1>4. ASSUME NEW p \in Procs, acquiresleep(p) PROVE TypeOK'
  <2>1. mine[p] \in Bufs /\ buf[mine[p]] \in Buffer
    BY <1>1, <1>4, MineIsBuffer DEF acquiresleep
  <2>2. buf' \in [Bufs -> Buffer]
    BY <1>1, <1>4, <2>1 DEF TypeOK, Buffer, acquiresleep
  <2>3. pc' \in [Procs -> Places]
    BY <1>1, <1>4 DEF TypeOK, acquiresleep, Go, Places, Locked
  <2> QED
    BY <1>1, <1>4, <2>2, <2>3 DEF TypeOK, acquiresleep
<1>5. ASSUME NEW p \in Procs, breadReady(p) \/ iderwWakes(p) PROVE TypeOK'
  <2>a. Returns(p) \/ (Go(p, "asleepIo") /\ UNCHANGED mine)
    BY <1>5 DEF breadReady, iderwWakes
  <2>b. pc' \in [Procs -> Places]
    BY <1>1, <2>a DEF TypeOK, Returns, Go, Places, Locked
  <2>c. mine' \in [Procs -> 0 .. NBUF]
    BY <1>1, <2>a, Constants DEF TypeOK, Returns
  <2>1. pc' \in [Procs -> Places] /\ mine' \in [Procs -> 0 .. NBUF]
    BY <2>b, <2>c
  <2> QED
    BY <1>1, <1>5, <2>1 DEF TypeOK, breadReady, iderwWakes
<1>6. ASSUME NEW p \in Procs, breadReads(p) PROVE TypeOK'
  <2>1. mine[p] \in Bufs /\ iderw(p, mine[p], buf) /\ UNCHANGED <<lru, disk>>
    BY <1>1, <1>6, MineIsBuffer DEF breadReads
  <2>2. buf \in [Bufs -> Buffer]
    BY <1>1 DEF TypeOK
  <2> QED
    BY <1>1, <2>1, <2>2, IderwType
<1>7. ASSUME NEW b \in Bufs, NEW v \in Values
      PROVE  Changed(b, v) \in [Bufs -> Buffer]
  BY <1>1 DEF TypeOK, Buffer, Changed
<1>8. ASSUME NEW p \in Procs, NEW b \in Bufs, NEW v \in Values, bwrite(p, b, v)
      PROVE  TypeOK'
  BY <1>1, <1>7, <1>8, IderwType DEF bwrite
<1>9. ASSUME NEW p \in Procs, NEW b \in Bufs, NEW v \in Values, log_write(p, b, v)
      PROVE  TypeOK'
  BY <1>1, <1>7, <1>9 DEF log_write, TypeOK
<1>10. ASSUME NEW p \in Procs, NEW b \in Bufs, brelseUnlocks(p, b) PROVE TypeOK'
  <2>b. buf[b] \in Buffer
    BY <1>1 DEF TypeOK
  <2>a. [buf[b] EXCEPT !.lock = None] \in Buffer
    BY <2>b DEF Buffer
  <2>1. buf' \in [Bufs -> Buffer]
    BY <1>1, <1>10, <2>a DEF TypeOK, brelseUnlocks
  <2>2. pc' \in [Procs -> Places] /\ mine' \in [Procs -> 0 .. NBUF]
    BY <1>1, <1>10, Constants
    DEF TypeOK, brelseUnlocks, releaseWakes, wakeup, Places
  <2> QED
    BY <1>1, <1>10, <2>1, <2>2 DEF TypeOK, brelseUnlocks
<1>11. ASSUME NEW p \in Procs, brelseDrops(p) PROVE TypeOK'
  <2>1. mine[p] \in Bufs /\ buf[mine[p]] \in Buffer
    BY <1>1, <1>11, MineIsBuffer DEF brelseDrops
  <2>2. lru' \in [Bufs -> Bufs]
    <3>1. inFront(mine[p]) \in [Bufs -> Bufs]
      <4>1. ASSUME NEW i \in Bufs, i # 1 PROVE i - 1 \in Bufs
        BY <4>1, Constants DEF Bufs
      <4>2. \A i \in Bufs : lru[i] \in Bufs /\ (i # 1 => lru[i - 1] \in Bufs)
        BY <1>1, <4>1 DEF TypeOK
      <4> QED
        BY <2>1, <4>2 DEF inFront
    <3> QED
      BY <1>1, <1>11, <3>1 DEF TypeOK, brelseDrops
  <2>3. buf[mine[p]].refcnt - 1 \in Nat
    <3>1. p \in Users(mine[p])
      BY DEF Users
    <3>2. buf[mine[p]].refcnt \in Nat \ {0}
      BY <2>1, <3>1, UsersCounted DEF IInv, RefExact
    <3> QED
      BY <3>2
  <2>a. buf' = [buf EXCEPT ![mine[p]].refcnt = @ - 1]
    BY <1>11 DEF brelseDrops
  <2>4. buf' \in [Bufs -> Buffer]
    BY <1>1, <2>1, <2>3, <2>a DEF TypeOK, Buffer
  <2>5. pc' \in [Procs -> Places] /\ mine' \in [Procs -> 0 .. NBUF]
    BY <1>1, <1>11, Constants DEF TypeOK, brelseDrops, Returns, Go, Places
  <2> QED
    BY <1>1, <1>11, <2>2, <2>4, <2>5 DEF TypeOK, brelseDrops
<1>12. ASSUME NEW fails \in BOOLEAN, ideintr(fails) PROVE TypeOK'
  <2> DEFINE b == idequeue[1]
             new == Done(buf[b], fails)
  <2>1. /\ idequeue # <<>> /\ Head(idequeue) = b /\ 1 \in 1 .. Len(idequeue)
        /\ Tail(idequeue) \in Seq(Bufs)
    BY <1>1, <1>12, HeadTailProperties, EmptySeq, LenProperties
    DEF TypeOK, ideintr
  <2>2. b \in Bufs /\ buf[b] \in Buffer /\ buf[b].blockno \in Blocks
    BY <2>1, QueuedBlock
  <2>3. new \in Buffer
    BY <1>1, <2>2 DEF TypeOK, Buffer, Done
  <2>4. /\ buf' = [buf EXCEPT ![b] = new]
        /\ disk' = IF buf[b].dirty THEN [disk EXCEPT ![buf[b].blockno] = wire]
                   ELSE disk
        /\ idequeue' = Tail(idequeue)
        /\ IF Len(idequeue) > 1 THEN idestart(idequeue[2], buf) ELSE wire' = None
        /\ pc' = wakeup(pc, b, "asleepIo", "io")
        /\ UNCHANGED <<lru, mine>>
    BY <1>12, <2>1 DEF ideintr
  <2> HIDE DEF new
  <2>5. buf' \in [Bufs -> Buffer]
    BY <1>1, <2>3, <2>4 DEF TypeOK
  <2>6. disk' \in [Blocks -> Values]
    <3>1. buf[b].dirty => wire \in Values
      BY <2>1, <2>2, Constants DEF IInv, Wire, Flags, Buffer
    <3> HIDE DEF b
    <3> QED
      BY <1>1, <2>2, <2>4, <3>1 DEF TypeOK
  <2>7. wire' \in Values \cup {None}
    <3>1. Len(idequeue) > 1 => idequeue[2] \in Bufs
      BY <1>1, ElementOfSeq, LenProperties DEF TypeOK
    <3>2. Len(idequeue) > 1 => buf[idequeue[2]] \in Buffer
      BY <1>1, <3>1 DEF TypeOK
    <3> QED
      BY <2>4, <3>2 DEF idestart, Buffer
  <2>8. pc' \in [Procs -> Places]
    BY <1>1, <2>4 DEF TypeOK, wakeup, Places, Locked
  <2> QED
    BY <1>1, <2>1, <2>4, <2>5, <2>6, <2>7, <2>8 DEF TypeOK
<1>13. CASE Stopped
  BY <1>1, <1>13 DEF Stopped, vars, TypeOK
<1> QED
  BY <1>2, <1>3, <1>4, <1>5, <1>6, <1>8, <1>9, <1>10, <1>11, <1>12, <1>13,
     NextCases

-----------------------------------------------------------------------------
(* References and the list *)

\* The buffer put in front is still listed, and so are the others.
LEMMA InFrontLists ==
    ASSUME TypeOK, Listed, NEW b \in Bufs, NEW c \in Bufs
    PROVE  \E i \in Bufs : inFront(b)[i] = c
<1> DEFINE place == CHOOSE i \in Bufs : lru[i] = b
<1>1. place \in Bufs /\ lru[place] = b
  BY DEF Listed
<1> HIDE DEF place
<1>2. \A i \in Bufs : inFront(b)[i] = IF i = 1 THEN b
                        ELSE IF i <= place THEN lru[i - 1] ELSE lru[i]
  BY DEF inFront, place
<1>3. PICK k \in Bufs : lru[k] = c
  BY DEF Listed
<1>4. 1 \in Bufs /\ place \in Nat /\ k \in Nat
  BY <1>1, Constants DEF Bufs
<1>5. CASE c = b
  BY <1>2, <1>4, <1>5
<1>6. CASE c # b /\ k < place
  <2>1. k + 1 \in Bufs /\ k + 1 # 1 /\ k + 1 <= place /\ (k + 1) - 1 = k
    BY <1>1, <1>4, <1>6, Constants DEF Bufs
  <2>2. inFront(b)[k + 1] = lru[(k + 1) - 1]
    BY <1>2, <2>1
  <2> QED
    BY <1>3, <2>1, <2>2
<1>7. CASE c # b /\ ~(k < place)
  <2>1. k # place
    BY <1>1, <1>3, <1>7
  <2>2. k # 1 /\ ~(k <= place)
    BY <1>1, <1>4, <1>7, <2>1 DEF Bufs
  <2> QED
    BY <1>2, <1>3, <2>2
<1> QED
  BY <1>5, <1>6, <1>7

Counts == HasBuffer /\ RefExact /\ Listed

\* The users of every buffer and its count stay as they are.
LEMMA SameUsers ==
    ASSUME IInv, UNCHANGED lru,
           \A b \in Bufs : Users(b)' = Users(b) /\ buf'[b].refcnt = buf[b].refcnt
    PROVE  RefExact' /\ Listed'
BY DEF IInv, RefExact, Listed

\* One more process uses b.
LEMMA OneMoreUser ==
    ASSUME IInv, UNCHANGED lru, NEW p \in Procs, NEW b \in Bufs, p \notin Users(b),
           pc[p] = "run", Moves(p, "acquire", b), Only(b),
           buf'[b].lock = buf[b].lock, buf'[b].refcnt = buf[b].refcnt + 1
    PROVE  Counts'
<1>1. TypeOK /\ HasBuffer /\ RefExact /\ Listed
  BY DEF IInv
<1>2. mine[p] = 0 /\ 0 \notin Bufs
  BY <1>1, Constants DEF HasBuffer
<1>3. ASSUME NEW c \in Bufs
      PROVE  Users(c)' = IF c = b THEN Users(c) \cup {p} ELSE Users(c)
  BY <1>2 DEF Users, Moves, Only
<1>4. Cardinality(Users(b) \cup {p}) = Cardinality(Users(b)) + 1
  BY UsersCounted, FS_AddElement
<1>5. RefExact'
  BY <1>1, <1>3, <1>4 DEF RefExact, Only
<1>6. HasBuffer'
  BY <1>1, <1>2 DEF HasBuffer, Moves
<1> QED
  BY <1>1, <1>5, <1>6 DEF Counts, Listed

LEMMA NextCounts ==
    ASSUME IInv, Effect, TypeOK'
    PROVE  Counts'
<1>1. TypeOK /\ HasBuffer /\ RefExact /\ Listed /\ ByPlace
  BY DEF IInv
<1>2. ASSUME NEW p \in Procs, NEW b \in Bufs, Hit(p, b) PROVE Counts'
  BY <1>2, OneMoreUser DEF Hit
<1>3. ASSUME NEW p \in Procs, NEW n \in Blocks, NEW b \in Bufs, Miss(p, n, b)
      PROVE  Counts'
  BY <1>3, OneMoreUser DEF Miss
<1>4. ASSUME NEW p \in Procs, NEW b \in Bufs,
             Acquires(p, b) \/ Waits(p, b) \/ Finishes(p, b)
      PROVE  Counts'
  <2>1. \A c \in Bufs : buf'[c].refcnt = buf[c].refcnt
    BY <1>4 DEF Acquires, Waits, Finishes, Only
  <2>2. mine[p] = b /\ pc[p] # "run" /\ b # 0
    BY <1>4, Constants DEF Acquires, Waits, Finishes
  <2>3. pc[p] \in Locked => buf[b].lock = p
    BY <1>1, <2>2 DEF ByPlace, AtPlace
  <2>4. ASSUME NEW c \in Bufs PROVE Users(c)' = Users(c)
    <3>1. CASE Acquires(p, b)
      BY <3>1, Constants DEF Users, Acquires, Moves, Only
    <3>2. CASE Waits(p, b)
      BY <3>2 DEF Users, Waits, Moves
    <3>3. CASE Finishes(p, b)
      BY <2>2, <2>3, <3>3, Constants DEF Users, Finishes, Moves, Locked
    <3> QED
      BY <1>4, <3>1, <3>2, <3>3
  <2>5. HasBuffer'
    BY <1>1, <1>4, <2>2 DEF HasBuffer, Acquires, Waits, Finishes, Moves
  <2>6. lru' = lru
    BY <1>4 DEF Acquires, Waits, Finishes
  <2> QED
    BY <2>1, <2>4, <2>5, <2>6, SameUsers DEF Counts
<1>5. ASSUME NEW p \in Procs, NEW b \in Bufs,
             Queues(p, b) \/ Pins(p, b) \/ Unlocks(p, b)
      PROVE  Counts'
  <2>1. \A c \in Bufs : buf'[c].refcnt = buf[c].refcnt
    BY <1>5 DEF Queues, Pins, Unlocks, Only
  <2>2. pc[p] = "run" => mine[p] = 0 /\ 0 \notin Bufs
    BY <1>1, Constants DEF HasBuffer
  <2>3. ASSUME NEW c \in Bufs PROVE Users(c)' = Users(c)
    <3>1. CASE Queues(p, b)
      BY <2>2, <3>1, Constants DEF Users, Queues, Works, Moves, Only
    <3>2. CASE Pins(p, b)
      BY <3>2 DEF Users, Pins, Works, Only
    <3>3. CASE Unlocks(p, b)
      BY <2>2, <3>3, Constants DEF Users, Unlocks, Only
    <3> QED
      BY <1>5, <3>1, <3>2, <3>3
  <2>4. HasBuffer'
    BY <1>1, <1>5, Constants DEF HasBuffer, Queues, Pins, Unlocks, Moves
  <2>5. lru' = lru
    BY <1>5 DEF Queues, Pins, Unlocks, DiskIdle
  <2> QED
    BY <2>1, <2>3, <2>4, <2>5, SameUsers DEF Counts
<1>6. ASSUME NEW p \in Procs, NEW b \in Bufs, Drops(p, b) PROVE Counts'
  <2>1. /\ pc[p] = "release" /\ mine[p] = b /\ Moves(p, "run", 0) /\ Only(b)
        /\ buf'[b].lock = buf[b].lock /\ buf'[b].refcnt = buf[b].refcnt - 1
        /\ lru' = inFront(b) \/ lru' = lru
    BY <1>6 DEF Drops
  <2>2. buf[b].lock # p
    BY <1>1, <2>1 DEF ByPlace, AtPlace, Locked
  <2>3. ASSUME NEW c \in Bufs
        PROVE  Users(c)' = IF c = b THEN Users(c) \ {p} ELSE Users(c)
    BY <2>1, <2>2, Constants DEF Users, Moves, Only
  <2>4. p \in Users(b)
    BY <2>1 DEF Users
  <2>5. Cardinality(Users(b) \ {p}) = Cardinality(Users(b)) - 1
    BY <2>4, UsersCounted, FS_RemoveElement
  <2>6. RefExact'
    BY <1>1, <2>1, <2>3, <2>5 DEF RefExact, Only
  <2>7. HasBuffer'
    BY <1>1, <2>1 DEF HasBuffer, Moves
  <2>8. Listed'
    <3>1. CASE lru' = lru
      BY <1>1, <3>1 DEF Listed
    <3>2. CASE lru' = inFront(b)
      <4>1. \A c \in Bufs : \E i \in Bufs : inFront(b)[i] = c
        BY <1>1, InFrontLists
      <4> QED
        BY <3>2, <4>1 DEF Listed
    <3> QED
      BY <2>1, <3>1, <3>2
  <2> QED
    BY <2>6, <2>7, <2>8 DEF Counts
<1>7. ASSUME NEW b \in Bufs, Answers(b) PROVE Counts'
  <2>1. \A c \in Bufs : buf'[c].refcnt = buf[c].refcnt /\ buf'[c].lock = buf[c].lock
    BY <1>7 DEF Answers, Only
  <2>2. \A q \in Procs : mine'[q] = mine[q] /\ (pc'[q] = "run" <=> pc[q] = "run")
    BY <1>7 DEF Answers
  <2>3. ASSUME NEW c \in Bufs PROVE Users(c)' = Users(c)
    BY <2>1, <2>2 DEF Users
  <2>4. lru' = lru
    BY <1>7 DEF Answers
  <2>5. HasBuffer'
    BY <1>1, <2>2 DEF HasBuffer
  <2> QED
    BY <2>1, <2>3, <2>4, <2>5, SameUsers DEF Counts
<1>8. CASE Same
  BY <1>1, <1>8 DEF Same, Counts, HasBuffer, RefExact, Listed, Users
<1> QED
  BY <1>2, <1>3, <1>4, <1>5, <1>6, <1>7, <1>8 DEF Effect

-----------------------------------------------------------------------------
(* Blocks and their contents *)

Data == OneBuffer /\ Flags /\ CleanIsOnDisk

LEMMA NextData ==
    ASSUME IInv, Effect, TypeOK'
    PROVE  Data'
<1>1. TypeOK /\ OneBuffer /\ Flags /\ CleanIsOnDisk /\ ByPlace
  BY DEF IInv
<1>2. ASSUME disk' = disk, \A c \in Bufs : SameBlock(c)
      PROVE  Data'
  BY <1>1, <1>2 DEF SameBlock, Data, OneBuffer, Flags, CleanIsOnDisk
<1>3. ASSUME NEW p \in Procs, NEW b \in Bufs,
             \/ Hit(p, b) \/ Acquires(p, b) \/ Waits(p, b) \/ Finishes(p, b)
             \/ Unlocks(p, b) \/ Drops(p, b)
      PROVE  Data'
  <2>1. disk' = disk
    BY <1>3 DEF Hit, Acquires, Waits, Finishes, Unlocks, Drops, DiskIdle
  <2>2. \A c \in Bufs : SameBlock(c)
    BY <1>3 DEF Hit, Acquires, Waits, Finishes, Unlocks, Drops, Only, SameBlock
  <2> QED
    BY <1>2, <2>1, <2>2
<1>4. ASSUME NEW p \in Procs, NEW n \in Blocks, NEW b \in Bufs, Miss(p, n, b)
      PROVE  Data'
  <2>1. /\ \A c \in Bufs : c # b => buf'[c] = buf[c] /\ buf[c].blockno # n
        /\ buf'[b].blockno = n /\ ~buf'[b].valid /\ ~buf'[b].dirty /\ disk' = disk
    BY <1>4 DEF Miss, Only, DiskIdle
  <2> QED
    BY <1>1, <2>1 DEF Data, OneBuffer, Flags, CleanIsOnDisk
<1>5. ASSUME NEW p \in Procs, NEW b \in Bufs, Queues(p, b) \/ Pins(p, b)
      PROVE  Data'
  <2>1. CASE buf' = buf
    BY <1>2, <1>5, <2>1 DEF Queues, Pins, SameBlock, DiskIdle
  <2>2. CASE buf' # buf
    <3>1. /\ Only(b) /\ disk' = disk /\ buf'[b].blockno = buf[b].blockno
          /\ buf[b].valid /\ buf'[b].valid = buf[b].valid /\ buf'[b].dirty
          /\ ~buf'[b].failed /\ buf'[b].data \in Values
      BY <1>5, <2>2 DEF Queues, Pins, DiskIdle
    <3>2. OneBuffer'
      BY <1>1, <3>1 DEF OneBuffer, Only
    <3>3. Flags'
      BY <1>1, <3>1, Constants DEF Flags, Only
    <3>4. CleanIsOnDisk'
      BY <1>1, <3>1 DEF CleanIsOnDisk, Only
    <3> QED
      BY <3>2, <3>3, <3>4 DEF Data
  <2> QED
    BY <2>1, <2>2
<1>6. ASSUME NEW b \in Bufs, Answers(b) PROVE Data'
  <2>1. /\ buf[b].blockno \in Blocks /\ Only(b)
        /\ buf'[b].blockno = buf[b].blockno /\ buf'[b].valid /\ ~buf'[b].dirty
        /\ ~buf'[b].failed => /\ buf'[b].data \in Values
                              /\ disk'[buf[b].blockno] = buf'[b].data
        /\ \A n \in Blocks : n # buf[b].blockno => disk'[n] = disk[n]
    BY <1>6 DEF Answers
  <2>2. OneBuffer'
    BY <1>1, <2>1 DEF OneBuffer, Only
  <2>3. Flags'
    BY <1>1, <2>1, Constants DEF Flags, Only
  <2>4. CleanIsOnDisk'
    <3>1. ASSUME NEW c \in Bufs, c # b, buf[c].valid
          PROVE  buf[c].blockno \in Blocks /\ buf[c].blockno # buf[b].blockno
      BY <1>1, <2>1, <3>1, Constants DEF OneBuffer, Flags, TypeOK, Buffer
    <3> QED
      BY <1>1, <2>1, <3>1 DEF CleanIsOnDisk, Only
  <2> QED
    BY <2>2, <2>3, <2>4 DEF Data
<1>7. CASE Same
  BY <1>2, <1>7 DEF Same, SameBlock
<1> QED
  BY <1>3, <1>4, <1>5, <1>6, <1>7 DEF Effect

-----------------------------------------------------------------------------
(* Holders and sleepers *)

Holders == ByPlace /\ Held

\* What AtPlace says of a process whose buffer the step does not touch.
LEMMA StaysAtPlace ==
    ASSUME ByPlace, NEW q \in Procs, pc[q] # "run", pc'[q] = pc[q],
           mine'[q] = mine[q], buf'[mine[q]] = buf[mine[q]]
    PROVE  AtPlace(q, mine[q])'
BY DEF ByPlace, AtPlace

LEMMA NextHolders ==
    ASSUME IInv, Effect, TypeOK', Data'
    PROVE  Holders'
<1>1. TypeOK /\ HasBuffer /\ Flags /\ ByPlace /\ Held
  BY DEF IInv
<1>a. \A q \in Procs : pc[q] # "run" => mine[q] \in Bufs
  BY <1>1, MineIsBuffer
<1>b. Flags'
  BY DEF Data
<1>2. ASSUME NEW p \in Procs, NEW b \in Bufs, Hit(p, b) PROVE Holders'
  <2>1. /\ pc[p] = "run" /\ p \notin Users(b) /\ buf[b].blockno # None
        /\ Moves(p, "acquire", b) /\ Only(b) /\ SameBlock(b)
        /\ buf'[b].lock = buf[b].lock
    BY <1>2 DEF Hit
  <2>2. buf[b].lock # p
    BY <2>1 DEF Users
  <2>3. AtPlace(p, mine[p])'
    BY <2>1, <2>2 DEF AtPlace, Moves, SameBlock, Locked
  <2>4. ASSUME NEW q \in Procs, q # p, pc'[q] # "run" PROVE AtPlace(q, mine[q])'
    BY <1>1, <1>a, <2>1, <2>4 DEF ByPlace, AtPlace, Moves, SameBlock, Only
  <2>5. Held'
    <3>1. mine[p] = 0 /\ 0 \notin Bufs
      BY <1>1, <2>1, Constants DEF HasBuffer
    <3> QED
      BY <1>1, <2>1, <2>2, <3>1 DEF Held, Moves, SameBlock, Only
  <2> QED
    BY <2>3, <2>4, <2>5 DEF Holders, ByPlace
<1>3. ASSUME NEW p \in Procs, NEW n \in Blocks, NEW b \in Bufs, Miss(p, n, b)
      PROVE  Holders'
  <2>1. /\ pc[p] = "run" /\ Users(b) = {} /\ Moves(p, "acquire", b) /\ Only(b)
        /\ buf'[b].blockno = n /\ buf'[b].lock = buf[b].lock
    BY <1>3 DEF Miss
  <2>2. \A q \in Procs : mine[q] # b /\ buf[b].lock # q
    BY <2>1 DEF Users
  <2>3. AtPlace(p, mine[p])'
    BY <2>1, <2>2, Constants DEF AtPlace, Moves, Locked
  <2>4. ASSUME NEW q \in Procs, q # p, pc'[q] # "run" PROVE AtPlace(q, mine[q])'
    BY <1>1, <1>a, <2>1, <2>2, <2>4, StaysAtPlace DEF Moves, Only
  <2>5. Held'
    <3>1. mine[p] = 0 /\ 0 \notin Bufs
      BY <1>1, <2>1, Constants DEF HasBuffer
    <3> QED
      BY <1>1, <2>1, <2>2, <3>1 DEF Held, Moves, Only
  <2> QED
    BY <2>3, <2>4, <2>5 DEF Holders, ByPlace
<1>4. ASSUME NEW p \in Procs, NEW b \in Bufs, Acquires(p, b) PROVE Holders'
  <2>1. /\ pc[p] = "acquire" /\ mine[p] = b /\ buf[b].lock = None
        /\ Moves(p, "locked", b) /\ Only(b) /\ SameBlock(b) /\ buf'[b].lock = p
    BY <1>4 DEF Acquires
  <2>2. buf[b].blockno # None
    BY <1>1, <2>1 DEF ByPlace, AtPlace
  <2>3. AtPlace(p, mine[p])'
    BY <2>1, <2>2 DEF AtPlace, Moves, SameBlock, Locked
  <2>4. ASSUME NEW q \in Procs, q # p, pc'[q] # "run" PROVE AtPlace(q, mine[q])'
    <3>1. CASE mine[q] # b
      BY <1>1, <1>a, <2>1, <2>4, <3>1, StaysAtPlace DEF Moves, Only
    <3>2. CASE mine[q] = b
      <4>1. /\ pc'[q] = pc[q] /\ mine'[q] = b /\ AtPlace(q, b)
        BY <1>1, <2>1, <2>4, <3>2 DEF Moves, ByPlace
      <4>2. pc[q] \notin Locked
        BY <2>1, <4>1, Constants DEF AtPlace
      <4> QED
        BY <2>1, <2>2, <2>4, <4>1, <4>2, Constants DEF AtPlace, SameBlock, Locked
    <3> QED
      BY <3>1, <3>2
  <2>5. Held'
    BY <1>1, <2>1, <2>2 DEF Held, Moves, SameBlock, Only
  <2> QED
    BY <2>3, <2>4, <2>5 DEF Holders, ByPlace
<1>5. ASSUME NEW p \in Procs, NEW b \in Bufs, Waits(p, b) PROVE Holders'
  <2>1. /\ pc[p] = "acquire" /\ mine[p] = b /\ buf[b].lock # None
        /\ Moves(p, "asleepLock", b) /\ buf' = buf
    BY <1>5 DEF Waits
  <2>2. buf[b].blockno # None /\ buf[b].lock # p
    BY <1>1, <2>1 DEF ByPlace, AtPlace, Locked
  <2>3. AtPlace(p, mine[p])'
    BY <2>1, <2>2 DEF AtPlace, Moves, Locked
  <2>4. ASSUME NEW q \in Procs, q # p, pc'[q] # "run" PROVE AtPlace(q, mine[q])'
    BY <1>1, <2>1, <2>4, StaysAtPlace DEF Moves
  <2>5. Held'
    BY <1>1, <2>1 DEF Held, Moves
  <2> QED
    BY <2>3, <2>4, <2>5 DEF Holders, ByPlace
<1>6. ASSUME NEW p \in Procs, NEW b \in Bufs, Finishes(p, b) PROVE Holders'
  <2>1. mine[p] = b /\ buf[b].valid /\ Moves(p, "run", 0) /\ buf' = buf
    BY <1>6 DEF Finishes
  <2>2. ASSUME NEW q \in Procs, pc'[q] # "run" PROVE AtPlace(q, mine[q])'
    BY <1>1, <2>1, <2>2, StaysAtPlace DEF Moves
  <2>3. Held'
    BY <1>1, <2>1 DEF Held, Moves
  <2> QED
    BY <2>2, <2>3 DEF Holders, ByPlace
<1>7. ASSUME NEW p \in Procs, NEW b \in Bufs, Queues(p, b) \/ Pins(p, b)
      PROVE  Holders'
  <2>1. /\ Only(b) /\ buf[b].lock = p /\ buf'[b].lock = p
        /\ buf'[b].blockno = buf[b].blockno /\ buf'[b].valid = buf[b].valid
        /\ \A q \in Procs : q # p => pc'[q] = pc[q] /\ mine'[q] = mine[q]
        /\ pc[p] = "run" \/ (pc[p] = "locked" /\ mine[p] = b)
    BY <1>7 DEF Queues, Pins, Works, Moves
  <2>2. buf[b].blockno # None
    BY <1>1, <2>1 DEF Held
  <2>3. pc'[p] # "run" => AtPlace(p, mine[p])'
    <3>1. CASE Pins(p, b)
      BY <3>1 DEF Pins
    <3>2. CASE Queues(p, b)
      <4>1. pc'[p] = "asleepIo" /\ mine'[p] = b
        BY <3>2 DEF Queues, Moves
      <4>2. buf'[b].valid <=> buf'[b].dirty
        BY <1>1, <3>2 DEF Queues, Flags
      <4> QED
        BY <2>1, <2>2, <4>1, <4>2 DEF AtPlace, Locked
    <3> QED
      BY <1>7, <3>1, <3>2
  <2>4. ASSUME NEW q \in Procs, q # p, pc'[q] # "run" PROVE AtPlace(q, mine[q])'
    <3>1. CASE mine[q] # b
      BY <1>1, <1>a, <2>1, <2>4, <3>1, StaysAtPlace DEF Only
    <3>2. CASE mine[q] = b
      <4>1. /\ pc'[q] = pc[q] /\ mine'[q] = b /\ AtPlace(q, b)
        BY <1>1, <2>1, <2>4, <3>2 DEF ByPlace
      <4>2. pc[q] \notin Locked
        BY <2>1, <2>4, <4>1 DEF AtPlace
      <4> QED
        BY <2>1, <2>2, <2>4, <4>1, <4>2 DEF AtPlace, Locked
    <3> QED
      BY <3>1, <3>2
  <2>5. Held'
    <3>1. ASSUME NEW c \in Bufs, NEW q \in Procs, buf'[c].lock = q
          PROVE  buf'[c].blockno # None /\ (buf'[c].valid \/ mine'[q] = c)
      <4>1. CASE c = b
        <5>1. q = p
          BY <2>1, <3>1, <4>1
        <5>2. mine'[p] = b \/ buf'[b].valid
          BY <1>7 DEF Queues, Pins, Moves
        <5> QED
          BY <2>1, <2>2, <4>1, <5>1, <5>2
      <4>2. CASE c # b
        <5>1. buf'[c] = buf[c] /\ buf[c].lock = q
          BY <2>1, <3>1, <4>2 DEF Only
        <5>2. mine[q] = c => q # p
          BY <1>1, <2>1, <4>2, Constants DEF HasBuffer
        <5> QED
          BY <1>1, <2>1, <5>1, <5>2 DEF Held
      <4> QED
        BY <4>1, <4>2
    <3> QED
      BY <3>1 DEF Held
  <2> QED
    BY <2>3, <2>4, <2>5 DEF Holders, ByPlace
<1>8. ASSUME NEW p \in Procs, NEW b \in Bufs, Unlocks(p, b) PROVE Holders'
  <2>1. /\ pc[p] = "run" /\ buf[b].lock = p /\ pc'[p] = "release" /\ mine'[p] = b
        /\ \A q \in Procs : q # p =>
             /\ pc'[q] = IF pc[q] = "asleepLock" /\ mine[q] = b THEN "acquire"
                         ELSE pc[q]
             /\ mine'[q] = mine[q]
        /\ Only(b) /\ SameBlock(b) /\ buf'[b].lock = None
    BY <1>8 DEF Unlocks
  <2>2. buf[b].blockno # None
    BY <1>1, <2>1 DEF Held
  <2>3. AtPlace(p, mine[p])'
    BY <2>1, <2>2, Constants DEF AtPlace, SameBlock, Locked
  <2>4. ASSUME NEW q \in Procs, q # p, pc'[q] # "run" PROVE AtPlace(q, mine[q])'
    <3>1. CASE mine[q] # b
      BY <1>1, <1>a, <2>1, <2>4, <3>1, StaysAtPlace DEF Only
    <3>2. CASE mine[q] = b
      <4>1. AtPlace(q, b)
        BY <1>1, <2>1, <2>4, <3>2 DEF ByPlace
      <4>2. pc[q] \notin Locked
        BY <2>1, <2>4, <4>1 DEF AtPlace
      <4> QED
        BY <2>1, <2>2, <2>4, <3>2, <4>1, <4>2, Constants
        DEF AtPlace, Locked, SameBlock
    <3> QED
      BY <3>1, <3>2
  <2>5. Held'
    <3>1. mine[p] = 0 /\ 0 \notin Bufs
      BY <1>1, <2>1, Constants DEF HasBuffer
    <3> QED
      BY <1>1, <2>1, <3>1, Constants DEF Held, Only
  <2> QED
    BY <2>3, <2>4, <2>5 DEF Holders, ByPlace
<1>9. ASSUME NEW p \in Procs, NEW b \in Bufs, Drops(p, b) PROVE Holders'
  <2>1. /\ pc[p] = "release" /\ mine[p] = b /\ Moves(p, "run", 0)
        /\ Only(b) /\ SameBlock(b) /\ buf'[b].lock = buf[b].lock
    BY <1>9 DEF Drops
  <2>2. buf[b].lock # p
    BY <1>1, <2>1 DEF ByPlace, AtPlace, Locked
  <2>3. ASSUME NEW q \in Procs, pc'[q] # "run" PROVE AtPlace(q, mine[q])'
    BY <1>1, <1>a, <2>1, <2>3 DEF ByPlace, AtPlace, Moves, SameBlock, Only
  <2>4. Held'
    BY <1>1, <2>1, <2>2 DEF Held, Moves, SameBlock, Only
  <2> QED
    BY <2>3, <2>4 DEF Holders, ByPlace
<1>10. ASSUME NEW b \in Bufs, Answers(b) PROVE Holders'
  <2>1. /\ b = idequeue[1] /\ 1 \in 1 .. Len(idequeue) /\ Only(b)
        /\ buf'[b].blockno = buf[b].blockno /\ buf'[b].lock = buf[b].lock
        /\ buf'[b].valid /\ ~buf'[b].dirty /\ buf[b].blockno \in Blocks
        /\ \A q \in Procs :
             /\ pc'[q] = IF pc[q] = "asleepIo" /\ mine[q] = b THEN "io" ELSE pc[q]
             /\ mine'[q] = mine[q]
    BY <1>10 DEF Answers
  <2>2. PICK p \in Procs : mine[p] = b /\ pc[p] = "asleepIo"
    BY <2>1, QueuedBlock
  <2>3. buf[b].lock = p
    BY <1>1, <2>2 DEF ByPlace, AtPlace, Locked
  <2>4. ASSUME NEW q \in Procs, pc'[q] # "run" PROVE AtPlace(q, mine[q])'
    <3>1. CASE mine[q] # b
      BY <1>1, <1>a, <2>1, <2>4, <3>1, StaysAtPlace DEF Only
    <3>2. CASE mine[q] = b /\ q # p
      <4>1. AtPlace(q, b)
        BY <1>1, <2>1, <2>4, <3>2 DEF ByPlace
      <4>2. pc[q] \notin Locked
        BY <2>3, <3>2, <4>1 DEF AtPlace
      <4> QED
        BY <2>1, <2>3, <2>4, <3>2, <4>1, <4>2, Constants DEF AtPlace, Locked
    <3>3. CASE q = p
      BY <2>1, <2>2, <2>3, <3>3, Constants DEF AtPlace, Locked
    <3> QED
      BY <3>1, <3>2, <3>3
  <2>5. Held'
    BY <1>1, <2>1, Constants DEF Held, Only
  <2> QED
    BY <2>4, <2>5 DEF Holders, ByPlace
<1>11. CASE Same
  BY <1>1, <1>11 DEF Same, Holders, ByPlace, AtPlace, Held
<1> QED
  BY <1>2, <1>3, <1>4, <1>5, <1>6, <1>7, <1>8, <1>9, <1>10, <1>11 DEF Effect

-----------------------------------------------------------------------------
(* The queue of the disk *)

Disk == Queue /\ Wire

\* Whoever works on a buffer does not have it queued.
LEMMA NotQueued ==
    ASSUME IInv, NEW p \in Procs, NEW b \in Bufs, Works(p, b),
           NEW i \in 1 .. Len(idequeue)
    PROVE  idequeue[i] # b
<1>1. PICK q \in Procs : mine[q] = idequeue[i] /\ pc[q] = "asleepIo"
  BY DEF IInv, Queue
<1>2. buf[idequeue[i]].lock = q
  BY <1>1 DEF IInv, ByPlace, AtPlace, Locked
<1> QED
  BY <1>1, <1>2 DEF Works

\* The queue, those who sleep for it and its buffers stay as they are.
LEMMA SameDisk ==
    ASSUME IInv, UNCHANGED <<idequeue, wire>>,
           \A q \in Procs : /\ pc'[q] = "asleepIo" <=> pc[q] = "asleepIo"
                            /\ pc[q] = "asleepIo" => mine'[q] = mine[q],
           \A i \in 1 .. Len(idequeue) :
               /\ buf'[idequeue[i]].dirty <=> buf[idequeue[i]].dirty
               /\ buf'[idequeue[i]].data = buf[idequeue[i]].data
    PROVE  Disk'
<1>1. TypeOK /\ Queue /\ Wire
  BY DEF IInv
<1>2. Queue'
  BY <1>1 DEF Queue
<1>3. idequeue # <<>> => 1 \in 1 .. Len(idequeue)
  BY <1>1, EmptySeq, LenProperties DEF TypeOK
<1>4. Wire'
  BY <1>1, <1>3 DEF Wire
<1> QED
  BY <1>2, <1>4 DEF Disk

\* A holder queues its buffer and sleeps.
LEMMA QueuesDisk ==
    ASSUME IInv, NEW p \in Procs, NEW b \in Bufs, Queues(p, b)
    PROVE  Disk'
<1>1. TypeOK /\ HasBuffer /\ Queue /\ Wire
  BY DEF IInv
<1> DEFINE m == Len(idequeue)
<1>2. m \in Nat
  BY <1>1, LenProperties DEF TypeOK
<1>3. /\ Works(p, b) /\ Moves(p, "asleepIo", b) /\ Only(b)
      /\ idequeue' = Append(idequeue, b)
      /\ IF idequeue = <<>> THEN idestart(b, buf') ELSE wire' = wire
  BY DEF Queues
<1>4. /\ Len(idequeue') = m + 1 /\ idequeue'[m + 1] = b
      /\ \A i \in 1 .. m : idequeue'[i] = idequeue[i]
  BY <1>1, <1>2, <1>3, AppendProperties DEF TypeOK
<1>5. \A i \in 1 .. m : idequeue[i] # b /\ idequeue[i] \in Bufs
  BY <1>1, <1>3, NotQueued, ElementOfSeq DEF TypeOK
<1>6. /\ pc'[p] = "asleepIo" /\ mine'[p] = b
      /\ \A q \in Procs : q # p => pc'[q] = pc[q] /\ mine'[q] = mine[q]
  BY <1>3 DEF Moves
<1>a. pc[p] # "asleepIo"
  BY <1>3 DEF Works
<1>7. Queue'
  <2> HIDE DEF m
  <2>1. \A i \in 1 .. m + 1 : i \in 1 .. m \/ i = m + 1
    BY <1>2
  <2>2. \A i \in 1 .. m : i \in 1 .. m + 1
    BY <1>2
  <2>3. \A i, j \in 1 .. m + 1 : idequeue'[i] = idequeue'[j] => i = j
    <3>1. \A i, j \in 1 .. m : idequeue[i] = idequeue[j] => i = j
      BY <1>1 DEF Queue, m
    <3> QED
      BY <1>4, <1>5, <2>1, <3>1
  <2>4. \A i \in 1 .. m + 1 :
          \E q \in Procs : mine'[q] = idequeue'[i] /\ pc'[q] = "asleepIo"
    <3>1. ASSUME NEW i \in 1 .. m
          PROVE  \E q \in Procs : mine'[q] = idequeue'[i] /\ pc'[q] = "asleepIo"
      <4>1. PICK q \in Procs : mine[q] = idequeue[i] /\ pc[q] = "asleepIo"
        BY <1>1 DEF Queue, m
      <4> QED
        BY <1>4, <1>6, <1>a, <4>1
    <3>2. mine'[p] = idequeue'[m + 1] /\ pc'[p] = "asleepIo"
      BY <1>4, <1>6
    <3> QED
      BY <2>1, <3>1, <3>2
  <2>5. ASSUME NEW q \in Procs, pc'[q] = "asleepIo"
        PROVE  \E i \in 1 .. m + 1 : idequeue'[i] = mine'[q]
    <3>1. CASE q = p
      <4>1. m + 1 \in 1 .. m + 1
        BY <1>2
      <4> QED
        BY <1>4, <1>6, <3>1, <4>1
    <3>2. CASE q # p
      <4>1. PICK i \in 1 .. m : idequeue[i] = mine[q]
        BY <1>1, <1>6, <2>5, <3>2 DEF Queue, m
      <4> QED
        BY <1>4, <1>6, <2>2, <3>2, <4>1
    <3> QED
      BY <3>1, <3>2
  <2> QED
    BY <1>4, <2>3, <2>4, <2>5 DEF Queue
<1>8. Wire'
  <2>1. CASE idequeue = <<>>
    <3>1. m = 0
      BY <2>1, EmptySeq
    <3>2. idequeue'[1] = b
      BY <1>4, <3>1
    <3>3. wire' = IF buf'[b].dirty THEN buf'[b].data ELSE None
      BY <1>3, <2>1 DEF idestart
    <3> QED
      BY <3>2, <3>3 DEF Wire
  <2>2. CASE idequeue # <<>>
    <3>1. 1 \in 1 .. m
      BY <1>1, <1>2, <2>2, EmptySeq DEF TypeOK
    <3>2. idequeue'[1] = idequeue[1] /\ buf'[idequeue[1]] = buf[idequeue[1]]
      BY <1>3, <1>4, <1>5, <3>1 DEF Only
    <3> QED
      BY <1>1, <1>3, <2>2, <3>2 DEF Wire
  <2> QED
    BY <2>1, <2>2
<1> QED
  BY <1>7, <1>8 DEF Disk

\* The disk takes the first request off and starts the next.
LEMMA AnswersDisk ==
    ASSUME IInv, NEW b \in Bufs, Answers(b)
    PROVE  Disk'
<1>1. TypeOK /\ Queue /\ Wire
  BY DEF IInv
<1> DEFINE m == Len(idequeue)
           t == Tail(idequeue)
<1>2. /\ b = idequeue[1] /\ 1 \in 1 .. m /\ Only(b)
      /\ \A q \in Procs :
           /\ pc'[q] = IF pc[q] = "asleepIo" /\ mine[q] = b THEN "io" ELSE pc[q]
           /\ mine'[q] = mine[q]
      /\ idequeue' = t /\ idequeue # <<>>
      /\ IF m > 1 THEN idestart(idequeue[2], buf) ELSE wire' = None
  BY DEF Answers
<1>a. m \in Nat /\ m >= 1
  BY <1>1, <1>2, LenProperties DEF TypeOK
<1>3. Len(t) = m - 1 /\ \A i \in 1 .. m - 1 : t[i] = idequeue[i + 1]
  BY <1>1, <1>2, <1>a, HeadTailProperties DEF TypeOK
<1> HIDE DEF t
<1>4. \A i \in 1 .. m - 1 : i + 1 \in 1 .. m /\ idequeue[i + 1] # b
  <2>1. \A i \in 1 .. m - 1 : i + 1 \in 1 .. m /\ i + 1 # 1
    BY <1>a
  <2> QED
    BY <1>1, <1>2, <2>1 DEF Queue
<1>5. Queue'
  <2> HIDE DEF m
  <2>1. \A i, j \in 1 .. m - 1 : t[i] = t[j] => i = j
    <3>1. ASSUME NEW i \in 1 .. m - 1, NEW j \in 1 .. m - 1, t[i] = t[j]
          PROVE  i + 1 = j + 1
      BY <1>1, <1>3, <1>4, <3>1 DEF Queue, m
    <3> QED
      BY <1>a, <3>1
  <2>2. ASSUME NEW i \in 1 .. m - 1
        PROVE  \E q \in Procs : mine'[q] = t[i] /\ pc'[q] = "asleepIo"
    <3>1. PICK q \in Procs : mine[q] = idequeue[i + 1] /\ pc[q] = "asleepIo"
      BY <1>1, <1>4 DEF Queue, m
    <3> QED
      BY <1>2, <1>3, <1>4, <3>1
  <2>3. ASSUME NEW q \in Procs, pc'[q] = "asleepIo"
        PROVE  \E i \in 1 .. m - 1 : t[i] = mine'[q]
    <3>1. pc[q] = "asleepIo" /\ mine[q] # b
      BY <1>2, <2>3
    <3>2. PICK k \in 1 .. m : idequeue[k] = mine[q]
      BY <1>1, <3>1 DEF Queue, m
    <3>3. k # 1
      BY <1>2, <3>1, <3>2
    <3>4. k - 1 \in 1 .. m - 1 /\ (k - 1) + 1 = k
      BY <1>a, <3>3
    <3>5. t[k - 1] = mine[q]
      BY <1>3, <3>2, <3>4
    <3> QED
      BY <1>2, <3>4, <3>5
  <2>4. Len(idequeue') = m - 1 /\ idequeue' = t
    BY <1>2, <1>3
  <2>5. /\ \A i, j \in 1 .. m - 1 : idequeue'[i] = idequeue'[j] => i = j
        /\ \A i \in 1 .. m - 1 :
             \E q \in Procs : mine'[q] = idequeue'[i] /\ pc'[q] = "asleepIo"
        /\ \A q \in Procs : pc'[q] = "asleepIo" =>
             \E i \in 1 .. m - 1 : idequeue'[i] = mine'[q]
    BY <2>1, <2>2, <2>3, <2>4
  <2> QED
    BY <2>4, <2>5 DEF Queue
<1>6. Wire'
  <2>1. CASE m > 1
    <3>1. 1 \in 1 .. m - 1 /\ 1 + 1 = 2 /\ 2 \in 1 .. m
      BY <1>a, <2>1
    <3>2. t[1] = idequeue[2] /\ idequeue[2] # b /\ idequeue[2] \in Bufs
      BY <1>3, <1>4, <3>1, QueuedBlock
    <3>3. wire' = IF buf[idequeue[2]].dirty THEN buf[idequeue[2]].data ELSE None
      BY <1>2, <2>1 DEF idestart
    <3> QED
      BY <1>2, <3>2, <3>3 DEF Wire, Only
  <2>2. CASE ~(m > 1)
    <3>1. Len(t) = 0
      BY <1>a, <1>3, <2>2
    <3>2. t \in Seq(Bufs)
      BY <1>1, <1>2, HeadTailProperties DEF TypeOK, t
    <3>3. t = <<>>
      BY <3>1, <3>2, EmptySeq
    <3> QED
      BY <1>2, <3>3 DEF Wire
  <2> QED
    BY <2>1, <2>2
<1> QED
  BY <1>5, <1>6 DEF Disk

LEMMA NextDisk ==
    ASSUME IInv, Effect
    PROVE  Disk'
<1>1. TypeOK /\ HasBuffer /\ Queue /\ Wire /\ ByPlace
  BY DEF IInv
<1>2. \A i \in 1 .. Len(idequeue) : idequeue[i] \in Bufs
  BY QueuedBlock
<1>3. ASSUME NEW p \in Procs, NEW b \in Bufs,
             \/ Hit(p, b) \/ Acquires(p, b) \/ Waits(p, b) \/ Finishes(p, b)
             \/ Unlocks(p, b) \/ Drops(p, b)
      PROVE  Disk'
  <2>1. UNCHANGED <<idequeue, wire>>
    BY <1>3 DEF Hit, Acquires, Waits, Finishes, Unlocks, Drops, DiskIdle
  <2>2. \A c \in Bufs : buf'[c].dirty = buf[c].dirty /\ buf'[c].data = buf[c].data
    BY <1>3 DEF Hit, Acquires, Waits, Finishes, Unlocks, Drops, Only, SameBlock
  <2>3. \A q \in Procs : /\ pc'[q] = "asleepIo" <=> pc[q] = "asleepIo"
                         /\ pc[q] = "asleepIo" => mine'[q] = mine[q]
    BY <1>3 DEF Hit, Acquires, Waits, Finishes, Unlocks, Drops, Moves
  <2> QED
    BY <1>2, <2>1, <2>2, <2>3, SameDisk
<1>4. ASSUME NEW p \in Procs, NEW n \in Blocks, NEW b \in Bufs, Miss(p, n, b)
      PROVE  Disk'
  <2>1. UNCHANGED <<idequeue, wire>> /\ Only(b) /\ Users(b) = {}
    BY <1>4 DEF Miss, DiskIdle
  <2>2. \A i \in 1 .. Len(idequeue) : idequeue[i] # b
    BY <1>1, <2>1 DEF Queue, Users
  <2>3. \A q \in Procs : /\ pc'[q] = "asleepIo" <=> pc[q] = "asleepIo"
                         /\ pc[q] = "asleepIo" => mine'[q] = mine[q]
    BY <1>4 DEF Miss, Moves
  <2> QED
    BY <1>2, <2>1, <2>2, <2>3, SameDisk DEF Only
<1>5. ASSUME NEW p \in Procs, NEW b \in Bufs, Pins(p, b) PROVE Disk'
  <2>1. /\ UNCHANGED <<idequeue, wire>> /\ Only(b) /\ Works(p, b)
        /\ UNCHANGED <<pc, mine>>
    BY <1>5 DEF Pins, DiskIdle
  <2>2. \A i \in 1 .. Len(idequeue) : idequeue[i] # b
    BY <2>1, NotQueued
  <2> QED
    BY <1>2, <2>1, <2>2, SameDisk DEF Only
<1>6. CASE Same
  BY <1>6, SameDisk DEF Same
<1> QED
  BY <1>3, <1>4, <1>5, <1>6, QueuesDisk, AnswersDisk DEF Effect

-----------------------------------------------------------------------------
(* The invariant holds *)

LEMMA InitIInv ==
    ASSUME Init
    PROVE  IInv
<1>1. Bufs = 1 .. NBUF /\ NBUF \in Nat /\ NBUF >= 1
  BY Constants DEF Bufs
<1>2. \A b \in Bufs : buf[b] = NoBuf
  BY DEF Init
<1>3. /\ NoBuf.blockno = None /\ ~NoBuf.valid /\ ~NoBuf.dirty /\ NoBuf.refcnt = 0
      /\ NoBuf.lock = None /\ NoBuf.data = None /\ NoBuf \in Buffer
  BY DEF NoBuf, Buffer
<1>4. \A i \in Bufs : NBUF + 1 - i \in Bufs /\ NBUF + 1 - (NBUF + 1 - i) = i
  BY <1>1
<1>5. lru \in [Bufs -> Bufs] /\ \A i \in Bufs : lru[i] = NBUF + 1 - i
  BY <1>4 DEF Init
<1>6. TypeOK
  <2>1. buf \in [Bufs -> Buffer]
    BY <1>3 DEF Init
  <2>2. pc \in [Procs -> Places] /\ mine \in [Procs -> 0 .. NBUF]
    BY <1>1 DEF Init, Places
  <2>3. idequeue \in Seq(Bufs) /\ wire = None /\ disk \in [Blocks -> Values]
    BY EmptySeq DEF Init
  <2> QED
    BY <1>5, <2>1, <2>2, <2>3 DEF TypeOK
<1>7. HasBuffer
  BY DEF Init, HasBuffer
<1>8. RefExact
  <2>1. ASSUME NEW b \in Bufs PROVE Users(b) = {}
    BY <1>2, <1>3, Constants DEF Init, Users
  <2> QED
    BY <1>2, <1>3, <2>1, UsersCounted DEF RefExact
<1>9. Listed
  BY <1>4, <1>5 DEF Listed
<1>10. OneBuffer /\ Flags /\ CleanIsOnDisk
  BY <1>2, <1>3 DEF OneBuffer, Flags, CleanIsOnDisk
<1>11. ByPlace /\ Held
  BY <1>2, <1>3, Constants DEF Init, ByPlace, Held
<1>12. Queue /\ Wire
  <2>1. Len(idequeue) = 0
    BY EmptySeq DEF Init
  <2> QED
    BY <2>1 DEF Init, Queue, Wire
<1> QED
  BY <1>6, <1>7, <1>8, <1>9, <1>10, <1>11, <1>12 DEF IInv

LEMMA NextIInv ==
    ASSUME IInv, [Next]_vars
    PROVE  IInv'
<1>1. TypeOK'
  BY NextType DEF IInv, TypeOK, vars
<1>2. Effect
  BY StepEffect
<1>3. Counts' /\ Data' /\ Disk'
  BY <1>1, <1>2, NextCounts, NextData, NextDisk
<1>4. Holders'
  BY <1>1, <1>2, <1>3, NextHolders
<1> QED
  BY <1>1, <1>3, <1>4 DEF IInv, Counts, Data, Disk, Holders

LEMMA InvHolds == Spec => []IInv
<1>1. Init => IInv
  BY InitIInv
<1>2. IInv /\ [Next]_vars => IInv'
  BY NextIInv
<1> QED
  BY <1>1, <1>2, PTL DEF Spec

\* bio.c: a block has one buffer and a buffer one holder, however many a
\* process holds, and a buffer that is neither B_DIRTY nor left by a failed
\* read has what the disk has.
THEOREM CacheIsCoherent == Spec => []CacheCoherent
<1>1. ASSUME IInv PROVE CacheCoherent
  <2>1. /\ TypeOK /\ HasBuffer /\ RefExact /\ Listed /\ OneBuffer
        /\ ByPlace /\ Queue /\ CleanIsOnDisk
    BY <1>1 DEF IInv
  <2>2. ASSUME NEW n \in Blocks PROVE Cardinality(Cached(n)) <= 1
    <3>1. CASE Cached(n) = {}
      BY <3>1, FS_EmptySet
    <3>2. CASE Cached(n) # {}
      <4>1. PICK b \in Bufs : buf[b].blockno = n
        BY <3>2 DEF Cached
      <4>2. Cached(n) = {b}
        BY <2>1, <4>1, Constants DEF Cached, OneBuffer
      <4>3. Cardinality({b}) = 1
        BY FS_Singleton
      <4> QED
        BY <4>2, <4>3
    <3> QED
      BY <3>1, <3>2
  <2>3. ASSUME NEW b \in Bufs PROVE buf[b].refcnt = Cardinality(Users(b))
    BY <2>1 DEF RefExact
  <2>4. ASSUME NEW b \in Bufs, NEW p \in Procs,
               pc[p] \in {"locked", "asleepIo", "io"}, mine[p] = b
        PROVE  buf[b].lock = p
    BY <2>1, <2>4 DEF ByPlace, AtPlace, Locked
  <2>5. Len(lru) = NBUF /\ ToSet(lru) = Bufs
    <3>1. lru \in [1 .. NBUF -> Bufs] /\ DOMAIN lru = Bufs
      BY <2>1 DEF TypeOK, Bufs
    <3>2. lru \in Seq(Bufs)
      BY <3>1, Constants, SeqDef
    <3>3. Len(lru) = NBUF
      BY <3>1, <3>2, Constants, LenProperties
    <3> QED
      BY <2>1, <3>1, <3>3 DEF ToSet, Listed, TypeOK
  <2>6. IsInjective(idequeue)
    <3>1. DOMAIN idequeue = 1 .. Len(idequeue)
      BY <2>1, LenProperties DEF TypeOK
    <3> QED
      BY <2>1, <3>1 DEF IsInjective, Queue
  <2>7. OneBufferPerBlock
    BY <2>2, <2>3, <2>4, <2>5, <2>6 DEF OneBufferPerBlock
  <2> QED
    BY <2>1, <2>7 DEF CacheCoherent
<1> QED
  BY <1>1, InvHolds, PTL

\* sleeplock.c and ide.c: whoever sleeps for a lock or for the disk sleeps for
\* somebody who will wake him.
THEOREM CacheNoLostWakeup == Spec => []NoLostWakeup
<1>1. ASSUME IInv PROVE NoLostWakeup
  <2>1. TypeOK /\ ByPlace /\ Queue /\ Wire
    BY <1>1 DEF IInv
  <2>2. DOMAIN idequeue = 1 .. Len(idequeue)
    BY <2>1, LenProperties DEF TypeOK
  <2>3. ASSUME NEW p \in Procs, pc[p] = "asleepIo"
        PROVE  mine[p] \in ToSet(idequeue) /\ idequeue # <<>>
    <3>1. PICK i \in 1 .. Len(idequeue) : idequeue[i] = mine[p]
      BY <2>1, <2>3 DEF Queue
    <3>2. idequeue # <<>>
      BY <3>1, EmptySeq
    <3> QED
      BY <2>2, <3>1, <3>2 DEF ToSet
  <2>4. idequeue # <<>> => Head(idequeue) = idequeue[1]
    BY <2>1, HeadTailProperties DEF TypeOK
  <2> QED
    BY <2>1, <2>3, <2>4 DEF NoLostWakeup, ByPlace, AtPlace, Wire
<1> QED
  BY <1>1, InvHolds, PTL

-----------------------------------------------------------------------------
(* Contents change under the lock only *)

\* What a reader is given of the block in b.
Given(b, n) == IF buf[b].valid /\ ~buf[b].failed THEN buf[b].data ELSE disk[n]

\* What Content is, told by the one buffer a block may have.
ContentRule ==
    \A n \in Blocks :
        /\ \A b \in Bufs : buf[b].blockno = n => Content(n) = Given(b, n)
        /\ (\A b \in Bufs : buf[b].blockno # n) => Content(n) = disk[n]

LEMMA ContentRuleHolds == IInv => ContentRule
<1> SUFFICES ASSUME IInv, NEW n \in Blocks
             PROVE  /\ \A b \in Bufs : buf[b].blockno = n => Content(n) = Given(b, n)
                    /\ (\A b \in Bufs : buf[b].blockno # n) => Content(n) = disk[n]
  BY DEF ContentRule
<1>1. ASSUME NEW b \in Bufs, buf[b].blockno = n
      PROVE  Content(n) = Given(b, n)
  <2>1. Cached(n) = {b}
    BY <1>1, Constants DEF IInv, OneBuffer, Cached
  <2>2. (CHOOSE c \in {b} : TRUE) = b
    OBVIOUS
  <2> QED
    BY <2>1, <2>2 DEF Content, Given
<1>2. ASSUME \A b \in Bufs : buf[b].blockno # n PROVE Content(n) = disk[n]
  BY <1>2 DEF Content, Cached
<1> QED
  BY <1>1, <1>2

\* The fields that make up the contents stay as they are.
LEMMA SameContent ==
    ASSUME IInv, ContentRule, ContentRule', NEW n \in Blocks,
           disk'[n] = disk[n],
           \A b \in Bufs : buf'[b].blockno = n <=> buf[b].blockno = n,
           \A b \in Bufs : buf[b].blockno = n => SameBlock(b)
    PROVE  Content(n)' = Content(n)
<1>1. CASE \E b \in Bufs : buf[b].blockno = n
  <2>1. PICK b \in Bufs : buf[b].blockno = n
    BY <1>1
  <2>2. Content(n) = Given(b, n)
    BY <2>1 DEF ContentRule
  <2>3. Content(n)' = Given(b, n)'
    BY <2>1 DEF ContentRule
  <2> QED
    BY <2>1, <2>2, <2>3 DEF Given, SameBlock
<1>2. CASE \A b \in Bufs : buf[b].blockno # n
  BY <1>2 DEF ContentRule
<1> QED
  BY <1>1, <1>2

LEMMA StepContent ==
    ASSUME IInv, ContentRule, ContentRule', Effect, NEW n \in Blocks,
           Content(n)' # Content(n)
    PROVE  \E p \in Procs : /\ pc[p] = "run"
                            /\ \E b \in Holding(p) : buf[b].blockno = n
<1>1. /\ TypeOK /\ HasBuffer /\ OneBuffer /\ Flags /\ CleanIsOnDisk /\ ByPlace
  BY DEF IInv
<1>2. ASSUME NEW p \in Procs, NEW b \in Bufs,
             \/ Hit(p, b) \/ Acquires(p, b) \/ Waits(p, b) \/ Finishes(p, b)
             \/ Unlocks(p, b) \/ Drops(p, b)
      PROVE  FALSE
  <2>1. disk' = disk
    BY <1>2 DEF Hit, Acquires, Waits, Finishes, Unlocks, Drops, DiskIdle
  <2>2. \A c \in Bufs : SameBlock(c)
    BY <1>2 DEF Hit, Acquires, Waits, Finishes, Unlocks, Drops, Only, SameBlock
  <2>3. \A c \in Bufs : buf'[c].blockno = buf[c].blockno
    BY <2>2 DEF SameBlock
  <2> QED
    BY <2>1, <2>2, <2>3, SameContent
<1>3. ASSUME NEW p \in Procs, NEW m \in Blocks, NEW b \in Bufs, Miss(p, m, b)
      PROVE  FALSE
  <2>1. /\ Free(b) /\ Only(b) /\ buf'[b].blockno = m /\ ~buf'[b].valid
        /\ disk' = disk /\ \A c \in Bufs : buf[c].blockno # m
    BY <1>3 DEF Miss, DiskIdle
  <2>2. CASE n = m
    <3>1. Content(n) = disk[n]
      BY <2>1, <2>2 DEF ContentRule
    <3>2. Content(n)' = Given(b, n)'
      BY <2>1, <2>2 DEF ContentRule
    <3> QED
      BY <2>1, <3>1, <3>2 DEF Given
  <2>3. CASE n # m /\ buf[b].blockno = n
    <3>1. Content(n) = Given(b, n)
      BY <2>3 DEF ContentRule
    <3>2. Given(b, n) = disk[n]
      BY <1>1, <2>1, <2>3 DEF Given, CleanIsOnDisk, Free
    <3>3. \A c \in Bufs : buf'[c].blockno # n
      BY <1>1, <2>1, <2>3, Constants DEF OneBuffer, Only
    <3>4. Content(n)' = disk'[n]
      BY <3>3 DEF ContentRule
    <3> QED
      BY <2>1, <3>1, <3>2, <3>4
  <2>4. CASE n # m /\ buf[b].blockno # n
    BY <2>1, <2>4, SameContent DEF Only, SameBlock
  <2> QED
    BY <2>2, <2>3, <2>4
<1>4. ASSUME NEW p \in Procs, NEW b \in Bufs, Queues(p, b) \/ Pins(p, b)
      PROVE  pc[p] = "run" /\ b \in Holding(p) /\ buf[b].blockno = n
  <2>1. /\ disk' = disk /\ Only(b) /\ buf[b].lock = p
        /\ buf'[b].blockno = buf[b].blockno
        /\ buf' = buf \/ pc[p] = "run"
    BY <1>4 DEF Queues, Pins, Works, DiskIdle
  <2>2. CASE buf' = buf \/ buf[b].blockno # n
    <3>1. \A c \in Bufs : buf'[c].blockno = buf[c].blockno
      BY <2>1 DEF Only
    <3>2. \A c \in Bufs : buf[c].blockno = n => SameBlock(c)
      BY <2>1, <2>2 DEF Only, SameBlock
    <3> QED
      BY <2>1, <3>1, <3>2, SameContent
  <2>3. CASE buf' # buf /\ buf[b].blockno = n
    BY <2>1, <2>3 DEF Holding
  <2> QED
    BY <2>2, <2>3
<1>5. ASSUME NEW b \in Bufs, Answers(b) PROVE FALSE
  <2>1. /\ b = idequeue[1] /\ 1 \in 1 .. Len(idequeue) /\ Only(b)
        /\ buf'[b].blockno = buf[b].blockno /\ buf'[b].valid
        /\ buf[b].dirty => ~buf'[b].failed /\ buf'[b].data = buf[b].data
        /\ ~buf[b].dirty /\ ~buf'[b].failed => buf'[b].data = disk[buf[b].blockno]
        /\ buf'[b].failed => disk'[buf[b].blockno] = disk[buf[b].blockno]
        /\ \A k \in Blocks : k # buf[b].blockno => disk'[k] = disk[k]
    BY <1>5 DEF Answers
  <2>2. PICK p \in Procs : mine[p] = b /\ pc[p] = "asleepIo"
    BY <2>1, QueuedBlock
  <2>3. buf[b].valid <=> buf[b].dirty
    BY <1>1, <2>2 DEF ByPlace, AtPlace
  <2>4. buf[b].dirty => ~buf[b].failed
    BY <1>1 DEF Flags
  <2>5. CASE buf[b].blockno = n
    <3>1. Content(n) = Given(b, n)
      BY <2>5 DEF ContentRule
    <3>2. Content(n)' = Given(b, n)'
      BY <2>1, <2>5 DEF ContentRule
    <3> QED
      BY <2>1, <2>3, <2>4, <2>5, <3>1, <3>2 DEF Given
  <2>6. CASE buf[b].blockno # n
    <3>1. \A c \in Bufs : buf'[c].blockno = n <=> buf[c].blockno = n
      BY <2>1, <2>6 DEF Only
    <3>2. \A c \in Bufs : buf[c].blockno = n => SameBlock(c)
      BY <2>1, <2>6 DEF Only, SameBlock
    <3> QED
      BY <2>1, <2>6, <3>1, <3>2, SameContent
  <2> QED
    BY <2>5, <2>6
<1>6. CASE Same
  BY <1>6, SameContent DEF Same, SameBlock
<1> QED
  BY <1>2, <1>3, <1>4, <1>5, <1>6 DEF Effect

\* Only a process that holds a block's buffer changes what others read of it:
\* bget recycling a buffer and ideintr completing a request, or failing to, do
\* not.
THEOREM CacheContentUnderLock == Spec => ContentChangesUnderLock
<1> DEFINE A == \A n \in Blocks :
                  Content(n)' # Content(n) =>
                    \E p \in Procs :
                      /\ pc[p] = "run"
                      /\ \E b \in Holding(p) : buf[b].blockno = n
<1>1. IInv /\ ContentRule /\ ContentRule' /\ [Next]_vars => [A]_vars
  BY StepContent, StepEffect
<1> HIDE DEF A
<1>2. Spec => [][A]_vars
  BY <1>1, InvHolds, ContentRuleHolds, PTL DEF Spec
<1> QED
  BY <1>2 DEF ContentChangesUnderLock, A
=============================================================================
