----------------------------- MODULE LogProofs -----------------------------
(***************************************************************************)
(* Proofs about Log, for every set of processes and blocks, every size of  *)
(* the log and every depth of nesting.                                     *)
(***************************************************************************)
EXTENDS Log, FiniteSetTheorems, FunctionTheorems, SequenceTheorems, TLAPS

\* An operation adds fewer blocks to the log than begin_op reserves for it, and
\* the log is larger than one reservation (30 to 10 in param.h).  filewrite
\* writes at most eight blocks of ten, however often it logs each of them.
Slack == OpWrites < MAXOPBLOCKS /\ MAXOPBLOCKS < LOGSIZE

-----------------------------------------------------------------------------
(* Totals over the processes *)

\* One element for every unit a process has of f.
Units(f) == {x \in Procs \X (Nat \ {0}) : x[2] <= f[x[1]]}

\* Process p gets k units more.
LEMMA UnitsMore ==
    ASSUME NEW f \in [Procs -> Nat], NEW g \in [Procs -> Nat], NEW p \in Procs,
           NEW k \in Nat, g[p] = f[p] + k,
           \A q \in Procs : q # p => g[q] = f[q],
           IsFiniteSet(Units(f))
    PROVE  /\ IsFiniteSet(Units(g))
           /\ Cardinality(Units(g)) = Cardinality(Units(f)) + k
<1> DEFINE D == {p} \X (f[p] + 1 .. f[p] + k)
<1>1. f[p] \in Nat
  OBVIOUS
<1>2. IsFiniteSet(D) /\ Cardinality(D) = k
  <2> DEFINE I == f[p] + 1 .. f[p] + k
  <2>1. IsFiniteSet(I) /\ Cardinality(I) = k
    <3>1. f[p] + 1 \in Int /\ f[p] + k \in Int
      BY <1>1
    <3>2. IsFiniteSet(I) /\ Cardinality(I) =
            IF f[p] + 1 > f[p] + k THEN 0 ELSE (f[p] + k) - (f[p] + 1) + 1
      BY <3>1, FS_Interval
    <3> HIDE DEF I
    <3> QED
      BY <1>1, <3>2
  <2>2. IsFiniteSet({p}) /\ Cardinality({p}) = 1
    BY FS_Singleton
  <2> HIDE DEF I
  <2>3. IsFiniteSet({p} \X I)
          /\ Cardinality({p} \X I) = Cardinality({p}) * Cardinality(I)
    BY <2>1, <2>2, FS_Product
  <2> QED
    BY <2>1, <2>2, <2>3 DEF I
<1>3. ASSUME NEW q \in Procs, NEW i \in Nat \ {0}
      PROVE  i <= g[q] <=> (i <= f[q] \/ <<q, i>> \in D)
  BY <1>1
<1>4. D \subseteq Procs \X (Nat \ {0})
  BY <1>1
<1>5. Units(f) \cap D = {}
  BY <1>1 DEF Units
<1> HIDE DEF D
<1>6. Units(g) = Units(f) \cup D
  BY <1>3, <1>4 DEF Units
<1>7. /\ IsFiniteSet(Units(f) \cup D)
      /\ Cardinality(Units(f) \cup D)
           = Cardinality(Units(f)) + Cardinality(D) - Cardinality({})
  BY <1>2, <1>5, FS_Union
<1>8. Cardinality({}) = 0 /\ Cardinality(Units(f)) \in Nat
  BY FS_EmptySet, FS_CardinalityType
<1> QED
  BY <1>2, <1>6, <1>7, <1>8

\* Nobody gets more.
LEMMA UnitsFewer ==
    ASSUME NEW f \in [Procs -> Nat], NEW g \in [Procs -> Nat],
           \A q \in Procs : g[q] <= f[q], IsFiniteSet(Units(f))
    PROVE  /\ IsFiniteSet(Units(g))
           /\ Cardinality(Units(g)) <= Cardinality(Units(f))
           /\ Cardinality(Units(g)) \in Nat
<1>1. Units(g) \subseteq Units(f)
  BY DEF Units
<1> QED
  BY <1>1, FS_Subset, FS_CardinalityType

\* Everybody has none: the total is 0; and only then.
LEMMA UnitsNone ==
    ASSUME NEW f \in [Procs -> Nat]
    PROVE  /\ (\A q \in Procs : f[q] = 0)
                => IsFiniteSet(Units(f)) /\ Cardinality(Units(f)) = 0
           /\ IsFiniteSet(Units(f)) /\ Cardinality(Units(f)) = 0
                => \A q \in Procs : f[q] = 0
<1>1. ASSUME \A q \in Procs : f[q] = 0
      PROVE  Units(f) = {}
  BY <1>1 DEF Units
<1>2. ASSUME NEW q \in Procs, f[q] # 0
      PROVE  <<q, 1>> \in Units(f)
  BY <1>2 DEF Units
<1> QED
  BY <1>1, <1>2, FS_EmptySet

\* If p has all there is, the others have none.
LEMMA UnitsAll ==
    ASSUME NEW f \in [Procs -> Nat], NEW p \in Procs,
           IsFiniteSet(Units(f)), Cardinality(Units(f)) = 1, f[p] > 0
    PROVE  f[p] = 1 /\ \A q \in Procs : q # p => f[q] = 0
<1>1. PICK x : Units(f) = {x}
  BY FS_Singleton
<1>2. <<p, 1>> \in Units(f)
  BY DEF Units
<1>3. f[p] = 1
  <2> SUFFICES ASSUME f[p] # 1 PROVE FALSE
    OBVIOUS
  <2>1. <<p, 2>> \in Units(f)
    BY DEF Units
  <2> QED
    BY <1>1, <1>2, <2>1
<1>4. ASSUME NEW q \in Procs, q # p, f[q] # 0
      PROVE  FALSE
  <2>1. <<q, 1>> \in Units(f)
    BY <1>4 DEF Units
  <2> QED
    BY <1>1, <1>2, <1>4, <2>1
<1> QED
  BY <1>3, <1>4

\* At most c units of f for every unit of g.
LEMMA UnitsBounded ==
    ASSUME NEW f \in [Procs -> Nat], NEW g \in [Procs -> Nat], NEW c \in Nat,
           \A q \in Procs : f[q] <= g[q] * c, IsFiniteSet(Units(g))
    PROVE  /\ IsFiniteSet(Units(f))
           /\ Cardinality(Units(f)) <= Cardinality(Units(g)) * c
<1>1. CASE c = 0
  <2>1. \A q \in Procs : f[q] = 0
    BY <1>1
  <2> QED
    BY <1>1, <2>1, UnitsNone, FS_CardinalityType
<1>2. CASE c # 0
  <2> DEFINE T == Units(g) \X (1 .. c)
             Group(i) == ((i - 1) \div c) + 1
             Place(i) == ((i - 1) % c) + 1
             h == [x \in Units(f) |-> <<<<x[1], Group(x[2])>>, Place(x[2])>>]
  <2>1. IsFiniteSet(T) /\ Cardinality(T) = Cardinality(Units(g)) * c
    <3>1. IsFiniteSet(1 .. c) /\ Cardinality(1 .. c) = c
      BY <1>2, FS_Interval
    <3> QED
      BY <3>1, FS_Product
  <2>2. ASSUME NEW i \in Nat \ {0}
        PROVE  /\ i - 1 = c * (Group(i) - 1) + (Place(i) - 1)
               /\ Group(i) \in Nat \ {0} /\ Place(i) \in 1 .. c
    BY <1>2
  <2> HIDE DEF Group, Place
  <2>3. ASSUME NEW x \in Units(f)
        PROVE  h[x] \in T
    <3>1. x[1] \in Procs /\ x[2] \in Nat \ {0} /\ x[2] <= f[x[1]]
      BY DEF Units
    <3>2. /\ x[2] - 1 = c * (Group(x[2]) - 1) + (Place(x[2]) - 1)
          /\ Group(x[2]) \in Nat \ {0} /\ Place(x[2]) \in 1 .. c
      BY <2>2, <3>1
    <3>3. /\ x[2] <= g[x[1]] * c /\ g[x[1]] \in Nat /\ f[x[1]] \in Nat
      BY <3>1
    <3>4. c * (Group(x[2]) - 1) < c * g[x[1]]
      BY <1>2, <3>1, <3>2, <3>3
    <3>5. Group(x[2]) <= g[x[1]]
      BY <1>2, <3>2, <3>3, <3>4
    <3> QED
      BY <3>1, <3>2, <3>5 DEF Units
  <2>4. ASSUME NEW x \in Units(f), NEW y \in Units(f), h[x] = h[y]
        PROVE  x = y
    <3>1. /\ x[1] = y[1] /\ Group(x[2]) = Group(y[2])
          /\ Place(x[2]) = Place(y[2])
      BY <2>4
    <3>2. /\ x = <<x[1], x[2]>> /\ y = <<y[1], y[2]>>
          /\ x[2] \in Nat \ {0} /\ y[2] \in Nat \ {0}
      BY DEF Units
    <3>3. x[2] - 1 = y[2] - 1
      BY <2>2, <3>1, <3>2
    <3> QED
      BY <3>1, <3>2, <3>3
  <2>5. h \in Injection(Units(f), T)
    <3> HIDE DEF T
    <3>1. h \in [Units(f) -> T]
      BY <2>3
    <3> QED
      BY <2>4, <3>1 DEF Injection, IsInjective
  <2> HIDE DEF h, T
  <2> QED
    BY <2>1, <2>5, FS_Injection
<1> QED
  BY <1>1, <1>2

-----------------------------------------------------------------------------
(* The inductive invariant *)

\* outstanding counts the operations that are open.
OpsExact == IsFiniteSet(Units(depth)) /\ outstanding = Cardinality(Units(depth))

\* What begin_op has reserved is there: two blocks stay free, the log's header
\* and the one log_write asks for although it may not need it.
SpaceLeft ==
    /\ IsFiniteSet(Units(left))
    /\ Len(lh) + Cardinality(Units(left)) <= LOGSIZE - 2
    /\ Len(header) <= LogData - 1

\* Where a process is, against the operations it has open.
InOps ==
    \A p \in Procs :
        /\ pc[p] \in {"run", "append"} => depth[p] > 0
        /\ pc[p] \in {"out", "commit"} => depth[p] = 0
        /\ pc[p] \in {"begin", "asleep"} => depth[p] < MaxDepth
        /\ left[p] <= depth[p] * OpWrites
        /\ pc[p] = "append" /\ LoggedAt(lh, buf[p]) = {} => left[p] > 0
        /\ buf[p] = NoBlock <=> pc[p] # "append"

\* Two processes never hold the same buffer.
HeldOnce ==
    \A p, q \in Procs : buf[p] = buf[q] /\ buf[p] # NoBlock => p = q

\* A commit runs alone, in one process.
Committer ==
    /\ committing => outstanding = 0
    /\ committing <=> \E p \in Procs : pc[p] = "commit"
    /\ \A p, q \in Procs : pc[p] = "commit" /\ pc[q] = "commit" => p = q
    /\ up => (committing <=> at # "none") /\ at # "read_head"

\* Recovery runs before any process does.
Recovery ==
    ~up =>
        /\ ~committing /\ outstanding = 0
        /\ at \in {"read_head", "install_trans", "erase"}
        /\ lh = (IF at = "read_head" THEN <<>> ELSE header)
        /\ cache = disk /\ dirty = {}
        /\ \A p \in Procs : pc[p] = "out"

Once(h) == \A i, j \in 1 .. Len(h) : h[i] = h[j] => i = j

\* The two headers at each place of a commit.
Headers ==
    /\ Once(lh) /\ Once(header)
    /\ up /\ at \in {"none", "write_log", "write_head", "committed"}
         => header = <<>>
    /\ at \in {"install_trans", "erase"} => header = lh
    /\ at = "committed" => lh = <<>>
    /\ up /\ ~committing /\ outstanding = 0 => lh = <<>>

\* How far the loop at each place has got.
Loops ==
    /\ at = "write_log" => tail \in 1 .. Len(lh)
    /\ at = "write_head" => tail = 1
    /\ at = "install_trans" => tail \in 1 .. Len(lh) + 1
    /\ at = "erase" => tail = Len(lh) + 1

\* The log holds the blocks it should, and the installed ones are at home.
Copied ==
    /\ \A i \in 1 .. Len(lh) :
          \/ at = "write_log" /\ i < tail
          \/ at = "write_head"
          \/ up /\ at \in {"install_trans", "erase"}
          => logBlocks[i] = cache[lh[i]]
    /\ \A i \in 1 .. Len(lh) :
          at \in {"install_trans", "erase"} /\ i < tail
          => disk[lh[i]] = logBlocks[i]

From(k) == {lh[i] : i \in k .. Len(lh)}

\* The dirty buffers are those of the blocks still to be installed.
Pinned ==
    up => dirty = IF at = "install_trans" THEN From(tail)
                  ELSE IF at = "erase" THEN {} ELSE From(1)

\* A buffer that is clean and not held has what the disk has.
CleanAsDisk ==
    up => \A b \in Blocks :
            b \notin dirty /\ (\A q \in Procs : buf[q] # b) => cache[b] = disk[b]

IInv ==
    /\ TypeOK /\ NoPanic
    /\ OpsExact /\ SpaceLeft /\ InOps /\ HeldOnce
    /\ Committer /\ Recovery /\ Headers /\ Loops
    /\ Copied /\ Pinned /\ CleanAsDisk

-----------------------------------------------------------------------------
(* The reservation *)

LEMMA Times ==
    ASSUME NEW d \in Nat, NEW w \in Nat
    PROVE  /\ d * w \in Nat
           /\ (d + 1) * w = d * w + w
           /\ d > 0 => (d - 1) * w \in Nat /\ (d - 1) * w = d * w - w
OBVIOUS

LEMMA Constants ==
    /\ AfterLog \in Blocks /\ NoBlock \notin Blocks
    /\ MAXOPBLOCKS \in Nat /\ OpWrites \in Nat /\ OpWrites <= MAXOPBLOCKS
    /\ LOGSIZE \in Nat /\ LogData \in Nat \ {0} /\ LogData = LOGSIZE - 1
    /\ MaxDepth \in Nat \ {0}
BY AfterLogAssumption, NoBlockAssumption, MAXOPBLOCKSAssumption,
   LOGSIZEAssumption, OpWritesAssumption, MaxDepthAssumption DEF LogData, nlog

\* The totals are natural numbers, and what is left fits what is reserved.
LEMMA Totals ==
    IInv => /\ left \in [Procs -> Nat] /\ depth \in [Procs -> Nat]
            /\ Cardinality(Units(left)) \in Nat
            /\ outstanding \in Nat
            /\ Cardinality(Units(left)) <= outstanding * OpWrites
            /\ Len(lh) \in Nat /\ Len(lh) <= LogData - 1 /\ Len(header) \in Nat
<1> SUFFICES ASSUME IInv PROVE
            /\ left \in [Procs -> Nat] /\ depth \in [Procs -> Nat]
            /\ Cardinality(Units(left)) \in Nat
            /\ outstanding \in Nat
            /\ Cardinality(Units(left)) <= outstanding * OpWrites
            /\ Len(lh) \in Nat /\ Len(lh) <= LogData - 1 /\ Len(header) \in Nat
  OBVIOUS
<1>1. TypeOK /\ OpsExact /\ SpaceLeft /\ InOps
  BY DEF IInv
<1>2. left \in [Procs -> Nat] /\ depth \in [Procs -> Nat]
  BY <1>1, Constants DEF TypeOK
<1>3. \A p \in Procs : left[p] <= depth[p] * OpWrites
  BY <1>1 DEF InOps
<1>4. Cardinality(Units(left)) <= Cardinality(Units(depth)) * OpWrites
  BY <1>1, <1>2, <1>3, Constants, UnitsBounded DEF OpsExact
<1>5. Cardinality(Units(left)) \in Nat
  BY <1>1, FS_CardinalityType DEF SpaceLeft
<1>6. Len(lh) \in Nat /\ Len(header) \in Nat /\ outstanding \in Nat
  BY <1>1, LenProperties DEF TypeOK
<1>7. Len(lh) <= LogData - 1
  BY <1>1, <1>5, <1>6, Constants DEF SpaceLeft
<1> QED
  BY <1>1, <1>2, <1>4, <1>5, <1>6, <1>7 DEF OpsExact

\* The length of log.lh after log_write has recorded block b.
LEMMA AbsorbedLength ==
    ASSUME NEW h \in Seq(Blocks), NEW b \in Blocks
    PROVE  /\ Absorbed(h, b) \in Seq(Blocks)
           /\ Len(h) \in Nat
           /\ Len(Absorbed(h, b)) = Len(h) + (IF LoggedAt(h, b) = {} THEN 1 ELSE 0)
<1>1. Len(h) \in Nat
  BY LenProperties
<1>2. Append(h, b) \in Seq(Blocks) /\ Len(Append(h, b)) = Len(h) + 1
  BY AppendProperties
<1>3. CASE LoggedAt(h, b) = {}
  BY <1>1, <1>2, <1>3 DEF Absorbed
<1>4. CASE LoggedAt(h, b) # {}
  BY <1>1, <1>4 DEF Absorbed
<1> QED
  BY <1>3, <1>4

\* What the processes may still add to the log after one of them has: exactly
\* as much less as log.lh is longer.
LEMMA AppendTakes ==
    ASSUME TypeOK, InOps, NEW p \in Procs, log_writeAppends(p)
    PROVE  /\ lh' \in Seq(Blocks)
           /\ \/ Len(lh') = Len(lh) /\ left' = left /\ lh' = lh
              \/ /\ Len(lh') = Len(lh) + 1 /\ left[p] > 0
                 /\ left' = [left EXCEPT ![p] = @ - 1]
           /\ left' \in [Procs -> Nat]
<1>1. buf[p] \in Blocks /\ lh \in Seq(Blocks) /\ left \in [Procs -> Nat]
  BY DEF TypeOK, InOps, log_writeAppends
<1>2. /\ lh' = Absorbed(lh, buf[p]) /\ pc[p] = "append"
      /\ left' = [left EXCEPT ![p] = @ - (Len(lh') - Len(lh))]
  BY DEF log_writeAppends
<1>3. lh' \in Seq(Blocks) /\ Len(lh) \in Nat
  BY <1>1, <1>2, AbsorbedLength
<1>4. CASE LoggedAt(lh, buf[p]) = {}
  <2>1. Len(lh') = Len(lh) + 1
    BY <1>1, <1>2, <1>4, AbsorbedLength
  <2>2. Len(lh') - Len(lh) = 1
    BY <1>3, <2>1
  <2>3. left[p] > 0
    BY <1>2, <1>4 DEF InOps
  <2>4. left' = [left EXCEPT ![p] = @ - 1]
    BY <1>2, <2>2
  <2> QED
    BY <1>1, <1>3, <2>1, <2>3, <2>4
<1>5. CASE LoggedAt(lh, buf[p]) # {}
  <2>1. Len(lh') - Len(lh) = 0 /\ lh' = lh
    BY <1>1, <1>2, <1>3, <1>5 DEF Absorbed
  <2>2. left' = left
    BY <1>1, <1>2, <2>1
  <2> QED
    BY <1>1, <1>3, <2>1, <2>2
<1> QED
  BY <1>4, <1>5

\* An action is one of these.
LEMMA NextCases ==
    ASSUME Next
    PROVE  \/ \E p \in Procs :
                 \/ callBegin(p) \/ begin_op(p) \/ end_opNotLast(p)
                 \/ end_opLast(p) \/ commitReturns(p) \/ log_writeAppends(p)
                 \/ \E b \in Blocks, v \in Values : log_writeChecks(p, b, v)
           \/ write_log \/ write_head \/ install_trans \/ erase \/ read_head
           \/ \E b \in Blocks : bgetEvicts(b)
           \/ Crash
BY DEF Next, ProcNext, EndOp, DiskNext

\* Commit and recovery stay inside the log and the blocks of lh.
LEMMA InLog ==
    ASSUME IInv
    PROVE  /\ at = "write_log" => tail \in 1 .. LogData /\ lh[tail] \in Blocks
           /\ at = "install_trans" /\ tail <= Len(lh)
                => /\ tail \in 1 .. LogData /\ lh[tail] \in Blocks
                   /\ LogBlock(tail) = logBlocks[tail]
                   /\ LogBlock(tail) \in Values
<1>1. TypeOK /\ Loops
  BY DEF IInv
<1>2. Len(lh) \in Nat /\ Len(lh) <= LogData
  BY Totals, Constants
<1>3. at = "write_log" => tail \in 1 .. LogData /\ lh[tail] \in Blocks
  BY <1>1, <1>2, Constants, ElementOfSeq DEF TypeOK, Loops
<1>4. at = "install_trans" /\ tail <= Len(lh)
        => tail \in 1 .. LogData /\ lh[tail] \in Blocks
  BY <1>1, <1>2, Constants, ElementOfSeq DEF TypeOK, Loops
<1> QED
  BY <1>1, <1>3, <1>4 DEF LogBlock, TypeOK

LEMMA NextType ==
    ASSUME IInv, Next
    PROVE  TypeOK'
<1>1. TypeOK /\ InOps
  BY DEF IInv
<1>2. ASSUME NEW p \in Procs, callBegin(p) PROVE TypeOK'
  BY <1>1, <1>2 DEF TypeOK, callBegin, onDisk, place
<1>3. ASSUME NEW p \in Procs, begin_op(p) PROVE TypeOK'
  <2>1. depth[p] < MaxDepth /\ depth[p] \in Nat /\ left[p] \in Nat
    BY <1>1, <1>3, Constants DEF TypeOK, begin_op, InOps
  <2>2. depth[p] + 1 \in 0 .. MaxDepth /\ left[p] + OpWrites \in Nat
    BY <2>1, Constants
  <2>3. outstanding' \in Nat /\ depth' \in [Procs -> 0 .. MaxDepth]
          /\ left' \in [Procs -> Nat]
    BY <1>1, <1>3, <2>2 DEF TypeOK, begin_op
  <2> QED
    BY <1>1, <1>3, <2>3 DEF TypeOK, begin_op, onDisk, place
<1>4. ASSUME NEW p \in Procs, CloseOp(p), pc[p] = "run", outstanding >= 1
      PROVE  outstanding' \in Nat /\ depth' \in [Procs -> 0 .. MaxDepth]
               /\ left' \in [Procs -> Nat]
  <2>1. depth[p] > 0 /\ depth[p] \in 0 .. MaxDepth /\ depth[p] \in Nat
          /\ left[p] \in Nat
    BY <1>1, <1>4, Constants DEF TypeOK, InOps
  <2>2. depth[p] - 1 \in 0 .. MaxDepth
    BY <2>1, Constants
  <2>3. (depth[p] - 1) * OpWrites \in Nat
    BY <2>1, Constants, Times
  <2>4. Least(left[p], (depth[p] - 1) * OpWrites) \in Nat
    BY <2>1, <2>3 DEF Least
  <2> QED
    BY <1>1, <1>4, <2>2, <2>4 DEF TypeOK, CloseOp
<1>5. ASSUME NEW p \in Procs, end_opNotLast(p) PROVE TypeOK'
  <2>1. CloseOp(p) /\ pc[p] = "run" /\ outstanding >= 1
    BY <1>1, <1>5 DEF end_opNotLast, TypeOK
  <2>2. pc' \in [Procs -> {"out", "begin", "asleep", "run", "append", "commit"}]
    BY <1>1, <1>5 DEF end_opNotLast, TypeOK, Woken, AfterEnd
  <2> QED
    BY <1>1, <1>4, <1>5, <2>1, <2>2
    DEF TypeOK, end_opNotLast, CheckCommitting, onDisk, place
<1>6. ASSUME NEW p \in Procs, end_opLast(p) PROVE TypeOK'
  <2>1. CloseOp(p) /\ pc[p] = "run" /\ outstanding >= 1
    BY <1>1, <1>6 DEF end_opLast, TypeOK
  <2> QED
    BY <1>1, <1>4, <1>6, <2>1
    DEF TypeOK, end_opLast, CheckCommitting, CommitPlace, onDisk
<1>7. ASSUME NEW p \in Procs, commitReturns(p) PROVE TypeOK'
  <2>1. pc' \in [Procs -> {"out", "begin", "asleep", "run", "append", "commit"}]
    BY <1>1, <1>7 DEF commitReturns, TypeOK, Woken
  <2> QED
    BY <1>1, <1>7, <2>1 DEF TypeOK, commitReturns, onDisk
<1>8. ASSUME NEW p \in Procs, log_writeAppends(p) PROVE TypeOK'
  <2>1. buf[p] \in Blocks
    BY <1>1, <1>8 DEF TypeOK, InOps, log_writeAppends
  <2>2. lh' \in Seq(Blocks) /\ left' \in [Procs -> Nat]
    BY <1>1, <1>8, AppendTakes
  <2> QED
    <3>1. buf' \in [Procs -> Blocks \cup {NoBlock}] /\ dirty' \subseteq Blocks
      BY <1>1, <1>8, <2>1 DEF TypeOK, log_writeAppends
    <3> QED
      BY <1>1, <1>8, <2>2, <3>1 DEF TypeOK, log_writeAppends, onDisk, place
<1>9. ASSUME NEW p \in Procs, NEW b \in Blocks, NEW v \in Values,
             log_writeChecks(p, b, v)
      PROVE  TypeOK'
  BY <1>1, <1>9 DEF TypeOK, log_writeChecks, onDisk, place
<1>10. ASSUME write_log PROVE TypeOK'
  <2>1. tail \in 1 .. LogData /\ cache[lh[tail]] \in Values
    BY <1>1, <1>10, InLog DEF write_log, TypeOK
  <2>2. tail <= LogData
    BY <2>1, Constants
  <2>a. logBlocks' = [logBlocks EXCEPT ![tail] = cache[lh[tail]]] /\ disk' = disk
    BY <1>10, <2>2 DEF write_log
  <2>b. logBlocks' \in [1 .. LogData -> Values]
    BY <1>1, <2>1, <2>a DEF TypeOK
  <2>3. tail' \in Nat \ {0}
    BY <1>1, <1>10 DEF write_log, TypeOK
  <2>4. at' \in {"write_log", "write_head"}
    BY <1>10 DEF write_log
  <2> QED
    BY <1>1, <1>10, <2>a, <2>b, <2>3, <2>4 DEF TypeOK, write_log, quiet, procVars
<1>11. ASSUME write_head PROVE TypeOK'
  BY <1>1, <1>11 DEF TypeOK, write_head, quiet, procVars
<1>12. ASSUME install_trans PROVE TypeOK'
  <2>1. CASE tail <= Len(lh)
    <3>1. lh[tail] \in Blocks /\ LogBlock(tail) \in Values
      BY <1>12, <2>1, InLog DEF install_trans
    <3>2. disk' \in [Blocks -> Values] /\ cache' \in [Blocks -> Values]
            /\ dirty' \subseteq Blocks
      BY <1>1, <1>12, <2>1, <3>1 DEF install_trans, install_transOne, TypeOK
    <3>3. tail' \in Nat \ {0} /\ at' = at
      BY <1>1, <1>12, <2>1 DEF install_trans, TypeOK
    <3> QED
      BY <1>1, <1>12, <3>2, <3>3 DEF TypeOK, install_trans, quiet, procVars
  <2>2. CASE ~(tail <= Len(lh))
    BY <1>1, <1>12, <2>2 DEF TypeOK, install_trans, quiet, procVars
  <2> QED
    BY <2>1, <2>2
<1>13. ASSUME erase PROVE TypeOK'
  <2>1. lh' \in Seq(Blocks) /\ header' \in Seq(Blocks)
    BY <1>13, EmptySeq DEF erase
  <2> QED
    BY <1>1, <1>13, <2>1 DEF TypeOK, erase, procVars
<1>14. ASSUME read_head PROVE TypeOK'
  BY <1>1, <1>14 DEF TypeOK, read_head, quiet, procVars, onDisk
<1>15. ASSUME NEW b \in Blocks, bgetEvicts(b) PROVE TypeOK'
  BY <1>1, <1>15 DEF TypeOK, bgetEvicts, procVars, onDisk, place
<1>16. ASSUME Crash PROVE TypeOK'
  <2>1. lh' \in Seq(Blocks)
    BY <1>16, EmptySeq DEF Crash
  <2>2. /\ pc' \in [Procs -> {"out", "begin", "asleep", "run", "append", "commit"}]
        /\ buf' \in [Procs -> Blocks \cup {NoBlock}]
        /\ left' \in [Procs -> Nat]
    BY <1>16 DEF Crash
  <2>3. depth' \in [Procs -> 0 .. MaxDepth]
    BY <1>16, Constants DEF Crash
  <2> QED
    <3>1. /\ machine' = "recovering" /\ at' = "read_head" /\ tail' = 1
          /\ outstanding' = 0 /\ committing' = FALSE /\ cache' = disk
          /\ dirty' = {} /\ UNCHANGED <<disk, logBlocks, header>>
      BY <1>16 DEF Crash, onDisk
    <3> QED
      <4>1. /\ disk' \in [Blocks -> Values] /\ cache' \in [Blocks -> Values]
            /\ logBlocks' \in [1 .. LogData -> Values]
            /\ header' \in Seq(Blocks)
        BY <1>1, <3>1 DEF TypeOK
      <4>2. outstanding' \in Nat /\ tail' \in Nat \ {0} /\ dirty' \subseteq Blocks
        BY <3>1
      <4>3. committing' \in BOOLEAN
        BY <3>1, Zenon
      <4> QED
        BY <2>1, <2>2, <2>3, <3>1, <4>1, <4>2, <4>3 DEF TypeOK
<1> QED
  BY <1>2, <1>3, <1>5, <1>6, <1>7, <1>8, <1>9, <1>10, <1>11, <1>12, <1>13,
     <1>14, <1>15, <1>16, NextCases

\* The names of what the reservation is made of.
Reservation == NoPanic /\ OpsExact /\ SpaceLeft /\ InOps

\* Nobody's operations, nor what they may still add, change.
LEMMA SameReservation ==
    ASSUME IInv, UNCHANGED <<depth, left, pc, buf, outstanding>>,
           machine' # "panicked",
           lh' = lh \/ (outstanding = 0 /\ Len(lh') <= LogData - 1),
           Len(lh') \in Nat,
           header' = header \/ header' = lh \/ header' = <<>>,
           Len(header') <= LogData - 1
    PROVE  Reservation'
<1>1. OpsExact /\ SpaceLeft /\ InOps
  BY DEF IInv
<1>2. OpsExact' /\ NoPanic'
  BY <1>1 DEF OpsExact, NoPanic, Units
<1>3. SpaceLeft'
  <2>1. IsFiniteSet(Units(left))' /\ Units(left)' = Units(left)
    BY <1>1 DEF SpaceLeft, Units
  <2> DEFINE u == Cardinality(Units(left))
  <2>2. u \in Nat
    BY Totals
  <2>3. Len(lh') + u <= LOGSIZE - 2
    <3>1. CASE lh' = lh
      BY <1>1, <3>1 DEF SpaceLeft
    <3>2. CASE outstanding = 0 /\ Len(lh') <= LogData - 1
      <4>1. u = 0
        BY <2>2, <3>2, Constants, Totals
      <4> HIDE DEF u
      <4> QED
        BY <3>2, <4>1, Constants
    <3> QED
      BY <3>1, <3>2
  <2> QED
    BY <2>1, <2>3 DEF SpaceLeft
<1>4. InOps'
  <2>1. CASE lh' = lh
    BY <1>1, <2>1 DEF InOps, LoggedAt
  <2>2. CASE outstanding = 0
    <3>1. \A q \in Procs : depth[q] = 0
      BY <1>1, <2>2, Totals, UnitsNone DEF OpsExact
    <3>2. \A q \in Procs : pc[q] # "append"
      BY <1>1, <3>1 DEF InOps
    <3> QED
      BY <1>1, <3>2 DEF InOps
  <2> QED
    BY <2>1, <2>2
<1> QED
  BY <1>2, <1>3, <1>4 DEF Reservation

\* What a new operation may add is there.
LEMMA BeginFits ==
    ASSUME Slack, IInv, ~MustWait, up
    PROVE  Len(lh) + (Cardinality(Units(left)) + OpWrites) <= LOGSIZE - 2
<1> DEFINE u == Cardinality(Units(left))
           n == outstanding
           l == Len(lh)
<1>1. l + (n + 1) * MAXOPBLOCKS <= LOGSIZE
  BY Totals, Constants DEF MustWait
<1>2. u \in Nat /\ n \in Nat /\ u <= n * OpWrites /\ l \in Nat
  BY Totals
<1>3. OpWrites + 1 <= MAXOPBLOCKS /\ MAXOPBLOCKS + 1 <= LOGSIZE
  BY Constants DEF Slack
<1>4. CASE n = 0
  <2>1. lh = <<>>
    BY <1>4 DEF IInv, Headers, MustWait
  <2>2. l = 0 /\ u = 0
    BY <1>2, <1>4, <2>1, EmptySeq, Constants
  <2> HIDE DEF u, l, n
  <2>3. l + (u + OpWrites) <= LOGSIZE - 2
    BY <1>3, <2>2, Constants
  <2> QED
    BY <2>3 DEF l, u
<1>5. CASE n # 0
  <2> DEFINE a == n * OpWrites
             m == (n + 1) * MAXOPBLOCKS
  <2> HIDE DEF u, l, n
  <2>1. a \in Nat /\ m \in Nat
    BY <1>2, Constants
  <2>2. m >= (n + 1) * (OpWrites + 1)
    BY <1>2, <1>3, Constants
  <2>3. (n + 1) * (OpWrites + 1) = a + OpWrites + n + 1
    BY <1>2, Constants
  <2>4. m >= a + OpWrites + n + 1
    BY <2>2, <2>3
  <2>5. l + m <= LOGSIZE /\ u <= a
    BY <1>1, <1>2
  <2> HIDE DEF a, m
  <2>6. l + (u + OpWrites) <= LOGSIZE - 2
    BY <1>2, <1>5, <2>1, <2>4, <2>5, Constants
  <2> QED
    BY <2>6 DEF l, u
<1> QED
  BY <1>4, <1>5

LEMMA BeginReserves ==
    ASSUME Slack, IInv, NEW p \in Procs, begin_op(p), TypeOK'
    PROVE  Reservation'
<1>1. OpsExact /\ SpaceLeft /\ InOps /\ TypeOK /\ NoPanic
  BY DEF IInv
<1>2. NoPanic'
  BY <1>1 DEF begin_op, NoPanic
<1>3. CASE MustWait /\ pc' = [pc EXCEPT ![p] = "asleep"]
             /\ UNCHANGED <<outstanding, depth, left>>
  <2>1. UNCHANGED <<lh, header, buf>> /\ pc[p] = "begin"
    BY DEF begin_op, onDisk
  <2>2. Units(left)' = Units(left) /\ Units(depth)' = Units(depth)
    BY <1>3 DEF Units
  <2>3. OpsExact' /\ SpaceLeft'
    BY <1>1, <1>3, <2>1, <2>2 DEF OpsExact, SpaceLeft
  <2>4. InOps'
    BY <1>1, <1>3, <2>1 DEF InOps, TypeOK, LoggedAt
  <2> QED
    BY <1>2, <2>3, <2>4 DEF Reservation
<1>4. CASE /\ ~MustWait
           /\ outstanding' = outstanding + 1
           /\ depth' = [depth EXCEPT ![p] = @ + 1]
           /\ left' = [left EXCEPT ![p] = @ + OpWrites]
           /\ pc' = [pc EXCEPT ![p] = "run"]
  <2>1. UNCHANGED <<lh, header, buf>> /\ pc[p] = "begin" /\ up
    BY DEF begin_op, onDisk
  <2>2. /\ left \in [Procs -> Nat] /\ left' \in [Procs -> Nat]
        /\ left'[p] = left[p] + OpWrites
        /\ \A q \in Procs : q # p => left'[q] = left[q]
    BY <1>1, <1>4, <2>1, Constants DEF TypeOK
  <2>3. /\ depth \in [Procs -> Nat] /\ depth' \in [Procs -> Nat]
        /\ depth'[p] = depth[p] + 1
        /\ \A q \in Procs : q # p => depth'[q] = depth[q]
    BY <1>1, <1>4, <2>1, Constants DEF TypeOK
  <2>4. IsFiniteSet(Units(depth'))
          /\ Cardinality(Units(depth')) = Cardinality(Units(depth)) + 1
    BY <1>1, <2>3, UnitsMore DEF OpsExact
  <2>5. IsFiniteSet(Units(left'))
          /\ Cardinality(Units(left')) = Cardinality(Units(left)) + OpWrites
    BY <1>1, <2>2, Constants, UnitsMore DEF SpaceLeft
  <2>6. OpsExact'
    BY <1>1, <1>4, <2>4 DEF OpsExact, Units
  <2>7. Len(lh) + Cardinality(Units(left')) <= LOGSIZE - 2
    BY <1>4, <2>1, <2>5, BeginFits
  <2>8. SpaceLeft'
    <3>1. IsFiniteSet(Units(left))'
            /\ Cardinality(Units(left))' = Cardinality(Units(left'))
      BY <2>5 DEF Units
    <3> QED
      BY <1>1, <2>1, <2>7, <3>1 DEF SpaceLeft
  <2>9. InOps'
    <3>1. ASSUME NEW q \in Procs, q # p
          PROVE  /\ pc'[q] = pc[q] /\ depth'[q] = depth[q]
                 /\ left'[q] = left[q] /\ buf'[q] = buf[q]
      BY <1>1, <1>4, <2>1, <2>2, <3>1 DEF TypeOK
    <3>2. pc'[p] = "run" /\ depth'[p] = depth[p] + 1 /\ depth[p] \in Nat
      BY <1>1, <1>4, <2>3 DEF TypeOK
    <3>3. left'[p] <= depth'[p] * OpWrites
      <4>1. left[p] <= depth[p] * OpWrites
        BY <1>1 DEF InOps
      <4>2. (depth[p] + 1) * OpWrites = depth[p] * OpWrites + OpWrites
              /\ depth[p] * OpWrites \in Nat
        BY <3>2, Constants, Times
      <4>3. left[p] \in Nat /\ left'[p] = left[p] + OpWrites
        BY <2>2
      <4> QED
        BY <3>2, <4>1, <4>2, <4>3, Constants
    <3>4. buf'[p] = NoBlock
      BY <1>1, <2>1 DEF InOps
    <3> QED
      BY <1>1, <2>1, <3>1, <3>2, <3>3, <3>4 DEF InOps, LoggedAt
  <2> QED
    BY <1>2, <2>6, <2>8, <2>9 DEF Reservation
<1> QED
  BY <1>3, <1>4 DEF begin_op

\* An operation ends; the process that ends it goes on at place w.
LEMMA EndReleases ==
    ASSUME IInv, NEW p \in Procs, CloseOp(p), CheckCommitting, TypeOK',
           up, pc[p] = "run", outstanding >= 1, UNCHANGED <<lh, header, buf>>,
           \A q \in Procs : q # p =>
               pc'[q] = pc[q] \/ (pc[q] = "asleep" /\ pc'[q] = "begin"),
           pc'[p] \in {"out", "commit", "run"},
           pc'[p] \in {"out", "commit"} <=> depth[p] = 1
    PROVE  Reservation'
<1>1. OpsExact /\ SpaceLeft /\ InOps /\ TypeOK /\ NoPanic /\ Committer
  BY DEF IInv
<1>2. NoPanic'
  <2>1. outstanding # 0
    BY <1>1 DEF TypeOK
  <2> QED
    BY <1>1, <2>1 DEF CheckCommitting, NoPanic, Committer, up
<1>3. depth[p] \in Nat /\ depth[p] > 0 /\ left[p] \in Nat
  BY <1>1, Constants DEF TypeOK, InOps
<1>4. /\ depth \in [Procs -> Nat] /\ depth' \in [Procs -> Nat]
      /\ depth'[p] = depth[p] - 1
      /\ \A q \in Procs : q # p => depth'[q] = depth[q]
  BY <1>1, <1>3, Constants DEF TypeOK, CloseOp
<1>5. /\ left' \in [Procs -> Nat]
      /\ left'[p] <= left[p] /\ left'[p] <= (depth[p] - 1) * OpWrites
      /\ \A q \in Procs : q # p => left'[q] = left[q]
  <2>1. (depth[p] - 1) * OpWrites \in Nat
    BY <1>3, Constants, Times
  <2>2. left'[p] = Least(left[p], (depth[p] - 1) * OpWrites)
    BY <1>1 DEF CloseOp, TypeOK
  <2>3. left'[p] <= left[p] /\ left'[p] <= (depth[p] - 1) * OpWrites
    <3> HIDE DEF CloseOp
    <3> QED
      BY <1>3, <2>1, <2>2 DEF Least
  <2> QED
    BY <1>1, <2>3 DEF CloseOp, TypeOK
<1>7. OpsExact'
  <2>1. IsFiniteSet(Units(depth'))
    BY <1>1, <1>4, UnitsFewer DEF OpsExact
  <2>2. Cardinality(Units(depth)) = Cardinality(Units(depth')) + 1
    <3>1. depth[p] = depth'[p] + 1
      BY <1>3, <1>4
    <3>2. \A q \in Procs : q # p => depth[q] = depth'[q]
      BY <1>4
    <3> QED
      BY <1>4, <2>1, <3>1, <3>2, UnitsMore
  <2>3. outstanding' = Cardinality(Units(depth'))
    BY <1>1, <2>1, <2>2, FS_CardinalityType DEF OpsExact, CloseOp
  <2> QED
    BY <2>1, <2>3 DEF OpsExact, Units
<1>8. SpaceLeft'
  <2> DEFINE u == Cardinality(Units(left))
             v == Cardinality(Units(left'))
  <2>0. left \in [Procs -> Nat] /\ \A q \in Procs : left'[q] <= left[q]
    <3>1. left \in [Procs -> Nat]
      BY <1>1 DEF TypeOK
    <3>2. ASSUME NEW q \in Procs PROVE left'[q] <= left[q]
      <4>1. left[q] \in Nat
        BY <3>1
      <4> QED
        BY <1>5, <4>1
    <3> QED
      BY <3>1, <3>2
  <2>1. IsFiniteSet(Units(left')) /\ v <= u /\ v \in Nat
    BY <1>1, <1>5, <2>0, UnitsFewer DEF SpaceLeft
  <2>2. u \in Nat /\ Len(lh) \in Nat
    BY Totals
  <2>3. Len(lh) + u <= LOGSIZE - 2
    BY <1>1 DEF SpaceLeft
  <2>4. Len(lh) + v <= LOGSIZE - 2
    <3> HIDE DEF u, v
    <3> QED
      BY <2>1, <2>2, <2>3, Constants
  <2>5. IsFiniteSet(Units(left))' /\ Cardinality(Units(left))' = v
    BY <2>1 DEF Units
  <2> HIDE DEF u, v
  <2> QED
    BY <1>1, <2>4, <2>5 DEF SpaceLeft
<1>9. InOps'
  <2>1. ASSUME NEW q \in Procs, q # p
        PROVE  /\ depth'[q] = depth[q] /\ buf'[q] = buf[q]
               /\ left'[q] = left[q]
               /\ pc'[q] = pc[q] \/ (pc[q] = "asleep" /\ pc'[q] = "begin")
    BY <1>4, <1>5, <2>1
  <2>2. left'[p] <= depth'[p] * OpWrites
    BY <1>4, <1>5
  <2>3. pc'[p] = "run" => depth'[p] > 0
    BY <1>3, <1>4
  <2>4. pc'[p] \in {"out", "commit"} => depth'[p] = 0
    BY <1>3, <1>4
  <2>5. buf'[p] = NoBlock
    BY <1>1 DEF InOps
  <2> QED
    BY <1>1, <2>1, <2>2, <2>3, <2>4, <2>5 DEF InOps, LoggedAt
<1> QED
  BY <1>2, <1>7, <1>8, <1>9 DEF Reservation

\* A block is modified: log_write finds the space it asks for.
LEMMA ChecksReservation ==
    ASSUME IInv, NEW p \in Procs, NEW b \in Blocks, NEW v \in Values,
           log_writeChecks(p, b, v), TypeOK'
    PROVE  Reservation'
<1>1. OpsExact /\ SpaceLeft /\ InOps /\ TypeOK /\ NoPanic
  BY DEF IInv
<1>2. /\ pc[p] = "run" /\ (left[p] > 0 \/ LoggedAt(lh, b) # {})
      /\ UNCHANGED <<lh, header, outstanding, depth, left>>
      /\ pc' = [pc EXCEPT ![p] = "append"]
      /\ buf' = [buf EXCEPT ![p] = b]
  BY DEF log_writeChecks, onDisk
<1>3. OpsExact' /\ SpaceLeft'
  BY <1>1, <1>2 DEF OpsExact, SpaceLeft, Units
<1>4. InOps'
  <2>1. ASSUME NEW q \in Procs, q # p
        PROVE  pc'[q] = pc[q] /\ buf'[q] = buf[q]
    BY <1>1, <1>2, <2>1 DEF TypeOK
  <2>2. pc'[p] = "append" /\ buf'[p] = b /\ b # NoBlock
    BY <1>1, <1>2, Constants DEF TypeOK
  <2>3. LoggedAt(lh', buf'[p]) = {} => left[p] > 0
    BY <1>2, <2>2
  <2> QED
    BY <1>1, <1>2, <2>1, <2>2, <2>3 DEF InOps
<1>5. ~TooBig /\ outstanding >= 1
  <2>1. depth[p] > 0 /\ depth \in [Procs -> Nat]
    BY <1>1, <1>2, Totals DEF InOps
  <2>2. outstanding # 0
    BY <1>1, <2>1, UnitsNone DEF OpsExact
  <2> DEFINE u == Cardinality(Units(left))
  <2>3. u \in Nat /\ outstanding \in Nat /\ Len(lh) \in Nat
    BY Totals
  <2>4. Len(lh) + u <= LOGSIZE - 2
    BY <1>1 DEF SpaceLeft
  <2> HIDE DEF u
  <2>5. Len(lh) <= LOGSIZE - 2
    BY <2>3, <2>4, Constants
  <2> QED
    BY <2>2, <2>3, <2>5, Constants DEF TooBig, nlog
<1>6. NoPanic'
  BY <1>1, <1>5, Totals DEF log_writeChecks, NoPanic
<1> QED
  BY <1>3, <1>4, <1>6 DEF Reservation

\* The block is recorded: log.lh grows by what its process may add less.
LEMMA AppendsReservation ==
    ASSUME IInv, NEW p \in Procs, log_writeAppends(p), TypeOK'
    PROVE  Reservation'
<1>1. OpsExact /\ SpaceLeft /\ InOps /\ TypeOK /\ NoPanic /\ HeldOnce
  BY DEF IInv
<1>2. /\ pc[p] = "append" /\ lh' = Absorbed(lh, buf[p])
      /\ buf' = [buf EXCEPT ![p] = NoBlock]
      /\ pc' = [pc EXCEPT ![p] = "run"]
      /\ UNCHANGED <<header, outstanding, depth, machine>>
  BY DEF log_writeAppends, onDisk
<1>3. /\ \/ Len(lh') = Len(lh) /\ left' = left /\ lh' = lh
         \/ /\ Len(lh') = Len(lh) + 1 /\ left[p] > 0
            /\ left' = [left EXCEPT ![p] = @ - 1]
      /\ left \in [Procs -> Nat] /\ left' \in [Procs -> Nat]
  BY <1>1, AppendTakes DEF TypeOK
<1>4. OpsExact' /\ NoPanic'
  BY <1>1, <1>2 DEF OpsExact, NoPanic, Units
<1>5. SpaceLeft'
  <2>1. CASE Len(lh') = Len(lh) /\ left' = left
    BY <1>1, <1>2, <2>1 DEF SpaceLeft, Units
  <2>2. CASE /\ Len(lh') = Len(lh) + 1 /\ left[p] > 0
             /\ left' = [left EXCEPT ![p] = @ - 1]
    <3>1. left[p] = left'[p] + 1 /\ \A q \in Procs : q # p => left[q] = left'[q]
      BY <1>3, <2>2
    <3>2. \A q \in Procs : left'[q] <= left[q]
      BY <1>3, <3>1
    <3>3. IsFiniteSet(Units(left'))
      BY <1>1, <1>3, <3>2, UnitsFewer DEF SpaceLeft
    <3>4. Cardinality(Units(left)) = Cardinality(Units(left')) + 1
      BY <1>3, <3>1, <3>3, UnitsMore
    <3> DEFINE u == Cardinality(Units(left))
               v == Cardinality(Units(left'))
    <3>5. u = v + 1 /\ v \in Nat /\ Len(lh) \in Nat /\ Len(lh) + u <= LOGSIZE - 2
      BY <1>1, <3>3, <3>4, Totals, FS_CardinalityType DEF SpaceLeft
    <3>6. Len(lh') + v <= LOGSIZE - 2
      <4> HIDE DEF u, v
      <4> QED
        BY <2>2, <3>5, Constants
    <3>7. IsFiniteSet(Units(left))' /\ Cardinality(Units(left))' = v
            /\ Len(header)' <= LogData - 1
      BY <1>1, <1>2, <3>3 DEF Units, SpaceLeft
    <3> HIDE DEF u, v
    <3> QED
      BY <3>6, <3>7 DEF SpaceLeft
  <2> QED
    BY <1>3, <2>1, <2>2
<1>6. InOps'
  <2>1. ASSUME NEW q \in Procs, q # p
        PROVE  /\ depth'[q] = depth[q] /\ buf'[q] = buf[q]
               /\ left'[q] = left[q] /\ pc'[q] = pc[q]
    BY <1>1, <1>2, <1>3, <2>1 DEF TypeOK
  <2>2. left'[p] <= depth'[p] * OpWrites
    <3>1. left[p] <= depth[p] * OpWrites /\ depth[p] \in Nat /\ left[p] \in Nat
      BY <1>1, Totals DEF InOps
    <3>2. depth[p] * OpWrites \in Nat
      BY <3>1, Constants, Times
    <3>3. left'[p] = left[p] \/ left'[p] = left[p] - 1
      BY <1>3
    <3> QED
      BY <1>2, <3>1, <3>2, <3>3
  <2>3. pc'[p] = "run" /\ depth'[p] > 0 /\ buf'[p] = NoBlock
    BY <1>1, <1>2 DEF InOps, TypeOK
  <2>4. ASSUME NEW q \in Procs, q # p, pc[q] = "append",
               LoggedAt(lh', buf[q]) = {}
        PROVE  LoggedAt(lh, buf[q]) = {}
    <3>1. CASE LoggedAt(lh, buf[p]) # {}
      BY <1>2, <2>4, <3>1 DEF Absorbed
    <3>2. CASE LoggedAt(lh, buf[p]) = {}
      <4>1. lh' = Append(lh, buf[p]) /\ lh \in Seq(Blocks) /\ buf[p] \in Blocks
        BY <1>1, <1>2, <3>2 DEF Absorbed, TypeOK, InOps
      <4>2. /\ Len(lh') = Len(lh) + 1 /\ Len(lh) \in Nat
            /\ \A i \in 1 .. Len(lh) : lh'[i] = lh[i]
        BY <4>1, AppendProperties, LenProperties
      <4> QED
        BY <2>4, <4>2 DEF LoggedAt
    <3> QED
      BY <3>1, <3>2
  <2> QED
    BY <1>1, <2>1, <2>2, <2>3, <2>4 DEF InOps
<1> QED
  BY <1>4, <1>5, <1>6 DEF Reservation

\* After a crash nobody has an operation open.
LEMMA CrashReservation ==
    ASSUME IInv, Crash
    PROVE  Reservation'
<1>1. SpaceLeft /\ TypeOK
  BY DEF IInv
<1>2. /\ \A q \in Procs : pc'[q] = "out" /\ depth'[q] = 0 /\ left'[q] = 0
                             /\ buf'[q] = NoBlock
      /\ lh' = <<>> /\ outstanding' = 0 /\ header' = header
      /\ machine' = "recovering" /\ depth' \in [Procs -> Nat]
  BY DEF Crash, onDisk
<1>3. left' \in [Procs -> Nat]
  BY DEF Crash
<1>4. IsFiniteSet(Units(left')) /\ Cardinality(Units(left')) = 0
  BY <1>2, <1>3, UnitsNone
<1>5. IsFiniteSet(Units(depth')) /\ Cardinality(Units(depth')) = 0
  BY <1>2, UnitsNone
<1>6. OpsExact' /\ NoPanic'
  BY <1>2, <1>5 DEF OpsExact, NoPanic, Units
<1>7. SpaceLeft'
  <2>1. IsFiniteSet(Units(left))' /\ Cardinality(Units(left))' = 0
    BY <1>4 DEF Units
  <2>2. Len(lh') = 0
    BY <1>2, EmptySeq
  <2> QED
    BY <1>1, <1>2, <2>1, <2>2, Constants DEF SpaceLeft
<1>8. InOps'
  <2>1. 0 * OpWrites = 0
    BY Constants
  <2> QED
    BY <1>2, <1>3, <2>1, Constants DEF InOps
<1> QED
  BY <1>6, <1>7, <1>8 DEF Reservation

\* A process goes to a place where it has no block modified.
LEMMA MovesReservation ==
    ASSUME IInv, UNCHANGED <<depth, left, buf, outstanding, lh, header, machine>>,
           \A q \in Procs :
             \/ pc'[q] = pc[q]
             \/ /\ pc[q] \in {"asleep", "run", "out"}
                /\ pc'[q] = "begin"
                /\ depth[q] < MaxDepth
             \/ pc[q] = "commit" /\ pc'[q] = "out"
    PROVE  Reservation'
<1>1. OpsExact /\ SpaceLeft /\ InOps /\ NoPanic
  BY DEF IInv
<1>2. OpsExact' /\ SpaceLeft' /\ NoPanic'
  BY <1>1 DEF OpsExact, SpaceLeft, NoPanic, Units
<1>3. InOps'
  BY <1>1 DEF InOps, LoggedAt
<1> QED
  BY <1>2, <1>3 DEF Reservation

LEMMA NextReservation ==
    ASSUME Slack, IInv, Next, TypeOK'
    PROVE  Reservation'
<1>1. TypeOK /\ InOps /\ Recovery /\ Headers /\ NoPanic /\ OpsExact
  BY DEF IInv
<1>2. ASSUME NEW p \in Procs, callBegin(p) PROVE Reservation'
  <2>1. depth[p] < MaxDepth
    BY <1>1, <1>2, Constants DEF callBegin, InOps, TypeOK
  <2> QED
    BY <1>1, <1>2, <2>1, MovesReservation DEF callBegin, onDisk, TypeOK
<1>3. ASSUME NEW p \in Procs, end_opNotLast(p) PROVE Reservation'
  <2>1. CloseOp(p) /\ CheckCommitting /\ up /\ pc[p] = "run" /\ outstanding >= 1
          /\ UNCHANGED <<lh, header, buf>>
    BY <1>1, <1>3 DEF end_opNotLast, TypeOK, onDisk
  <2>2. \A q \in Procs : q # p =>
          pc'[q] = pc[q] \/ (pc[q] = "asleep" /\ pc'[q] = "begin")
    BY <1>1, <1>3 DEF end_opNotLast, TypeOK, Woken
  <2>3. pc'[p] = IF depth[p] = 1 THEN "out" ELSE "run"
    BY <1>1, <1>3 DEF end_opNotLast, TypeOK, Woken, AfterEnd
  <2> QED
    BY <2>1, <2>2, <2>3, EndReleases
<1>4. ASSUME NEW p \in Procs, end_opLast(p) PROVE Reservation'
  <2>1. CloseOp(p) /\ CheckCommitting /\ up /\ pc[p] = "run" /\ outstanding = 1
          /\ UNCHANGED <<lh, header, buf>>
    BY <1>4 DEF end_opLast, onDisk
  <2>2. pc'[p] = "commit" /\ \A q \in Procs : q # p => pc'[q] = pc[q]
    BY <1>1, <1>4 DEF end_opLast, TypeOK
  <2>3. depth[p] = 1
    <3>1. depth[p] > 0
      BY <1>1, <2>1 DEF InOps
    <3> QED
      BY <1>1, <2>1, <3>1, Totals, UnitsAll DEF OpsExact
  <2> QED
    BY <2>1, <2>2, <2>3, EndReleases
<1>5. ASSUME NEW p \in Procs, commitReturns(p) PROVE Reservation'
  <2>1. UNCHANGED <<depth, left, buf, outstanding, lh, header, machine>>
    BY <1>5 DEF commitReturns, onDisk
  <2>2. ASSUME NEW q \in Procs
        PROVE  \/ pc'[q] = pc[q]
               \/ pc[q] = "asleep" /\ pc'[q] = "begin" /\ depth[q] < MaxDepth
               \/ pc[q] = "commit" /\ pc'[q] = "out"
    BY <1>1, <1>5 DEF commitReturns, Woken, TypeOK, InOps
  <2> QED
    BY <2>1, <2>2, MovesReservation
<1>6. ASSUME write_log \/ write_head \/ install_trans \/ erase \/ read_head
      PROVE  Reservation'
  <2>1. UNCHANGED <<depth, left, pc, buf, outstanding>>
          /\ machine' # "panicked"
    BY <1>1, <1>6 DEF write_log, write_head, install_trans, erase, read_head,
                      quiet, procVars, NoPanic
  <2>2. Len(lh') \in Nat /\ Len(lh) \in Nat
    BY LenProperties, Totals DEF TypeOK
  <2>3. Len(lh) <= LogData - 1 /\ Len(header) <= LogData - 1 /\ Len(<<>>) = 0
    BY Totals, EmptySeq DEF IInv, SpaceLeft
  <2>4. CASE write_log \/ write_head \/ install_trans
    <3>1. lh' = lh /\ (header' = header \/ header' = lh)
      BY <2>4 DEF write_log, write_head, install_trans
    <3> QED
      BY <2>1, <2>2, <2>3, <3>1, SameReservation
  <2>5. CASE erase
    <3>1. lh' = <<>> /\ header' = <<>> /\ at = "erase"
      BY <2>5 DEF erase
    <3>2. outstanding = 0
      BY <3>1 DEF IInv, Committer, Recovery
    <3> QED
      BY <2>1, <2>2, <2>3, <3>1, <3>2, Constants, SameReservation
  <2>6. CASE read_head
    <3>1. lh' = header /\ header' = header /\ ~up
      BY <2>6 DEF read_head, onDisk, up
    <3>2. outstanding = 0
      BY <1>1, <3>1 DEF Recovery
    <3>3. Len(header) <= LogData - 1
      BY DEF IInv, SpaceLeft
    <3> QED
      BY <2>1, <2>2, <2>3, <3>1, <3>2, <3>3, SameReservation
  <2> QED
    BY <1>6, <2>4, <2>5, <2>6
<1>7. ASSUME NEW b \in Blocks, bgetEvicts(b) PROVE Reservation'
  BY <1>7, MovesReservation DEF bgetEvicts, procVars, onDisk
<1> QED
  BY <1>2, <1>3, <1>4, <1>5, <1>6, <1>7, NextCases, BeginReserves,
     ChecksReservation, AppendsReservation, CrashReservation

-----------------------------------------------------------------------------
(* The course of a commit and of recovery *)

\* No operation is open: nobody runs one, or holds a block.
LEMMA NobodyRuns ==
    ASSUME IInv, outstanding = 0
    PROVE  \A p \in Procs : /\ depth[p] = 0 /\ pc[p] \notin {"run", "append"}
                            /\ buf[p] = NoBlock
<1>1. OpsExact /\ InOps /\ TypeOK
  BY DEF IInv
<1>2. \A p \in Procs : depth[p] = 0
  BY <1>1, Totals, UnitsNone DEF OpsExact
<1> QED
  BY <1>1, <1>2 DEF InOps

Course == HeldOnce /\ Committer /\ Recovery

LEMMA NextCourse ==
    ASSUME IInv, Next, TypeOK', Reservation'
    PROVE  Course'
<1>1. /\ TypeOK /\ NoPanic /\ InOps /\ OpsExact
      /\ HeldOnce /\ Committer /\ Recovery /\ Headers
  BY DEF IInv
<1>2. ASSUME NEW p \in Procs, callBegin(p) \/ begin_op(p) PROVE Course'
  <2>1. up /\ UNCHANGED <<lh, header, cache, disk, dirty, machine, at, tail, buf,
                          committing>>
    BY <1>2 DEF callBegin, begin_op, onDisk, place
  <2>2. ASSUME NEW q \in Procs PROVE pc'[q] = "commit" <=> pc[q] = "commit"
    BY <1>1, <1>2 DEF callBegin, begin_op, TypeOK
  <2>3. outstanding' = outstanding \/ ~committing
    BY <1>2 DEF callBegin, begin_op, MustWait
  <2> QED
    BY <1>1, <2>1, <2>2, <2>3 DEF Course, HeldOnce, Committer, Recovery, up
<1>3. ASSUME NEW p \in Procs, end_opNotLast(p) PROVE Course'
  <2>1. up /\ up' /\ UNCHANGED <<at, buf, committing>>
    BY <1>1, <1>3 DEF end_opNotLast, place, up, NoPanic, Reservation,
                      CheckCommitting
  <2>2. ~committing /\ pc[p] = "run"
    BY <1>1, <1>3 DEF end_opNotLast, Committer, TypeOK
  <2>3. ASSUME NEW q \in Procs PROVE pc'[q] # "commit"
    <3>1. pc[q] # "commit"
      BY <1>1, <2>2 DEF Committer
    <3> QED
      BY <1>1, <1>3, <2>2, <3>1 DEF end_opNotLast, TypeOK, Woken, AfterEnd
  <2> QED
    BY <1>1, <2>1, <2>2, <2>3 DEF Course, HeldOnce, Committer, Recovery
<1>4. ASSUME NEW p \in Procs, end_opLast(p) PROVE Course'
  <2>1. up /\ up' /\ UNCHANGED buf /\ committing' /\ outstanding' = 0
          /\ at' \in {"committed", "write_log"}
    BY <1>1, <1>4 DEF end_opLast, up, NoPanic, Reservation, CheckCommitting,
                      CloseOp, CommitPlace, TypeOK
  <2>2. ~committing /\ pc[p] = "run"
    BY <1>1, <1>4 DEF end_opLast, Committer, TypeOK
  <2>3. ASSUME NEW q \in Procs PROVE pc'[q] = "commit" <=> q = p
    <3>1. pc[q] # "commit"
      BY <1>1, <2>2 DEF Committer
    <3> QED
      BY <1>1, <1>4, <3>1 DEF end_opLast, TypeOK
  <2> QED
    BY <1>1, <2>1, <2>2, <2>3 DEF Course, HeldOnce, Committer, Recovery
<1>5. ASSUME NEW p \in Procs, commitReturns(p) PROVE Course'
  <2>1. up /\ up' /\ UNCHANGED buf /\ ~committing' /\ at' = "none"
    BY <1>5 DEF commitReturns, up
  <2>2. ASSUME NEW q \in Procs PROVE pc'[q] # "commit"
    <3>1. pc[q] = "commit" => q = p
      BY <1>1, <1>5 DEF Committer, commitReturns
    <3> QED
      BY <1>1, <1>5, <3>1 DEF commitReturns, TypeOK, Woken
  <2> QED
    BY <1>1, <2>1, <2>2 DEF Course, HeldOnce, Committer, Recovery
<1>6. ASSUME NEW p \in Procs, log_writeAppends(p) PROVE Course'
  <2>1. up /\ up' /\ UNCHANGED <<at, committing, outstanding>>
    BY <1>6 DEF log_writeAppends, place, up
  <2>2. ASSUME NEW q \in Procs PROVE pc'[q] = "commit" <=> pc[q] = "commit"
    BY <1>1, <1>6 DEF log_writeAppends, TypeOK
  <2>3. HeldOnce'
    BY <1>1, <1>6 DEF log_writeAppends, HeldOnce, TypeOK
  <2> QED
    BY <1>1, <2>1, <2>2, <2>3 DEF Course, Committer, Recovery
<1>7. ASSUME NEW p \in Procs, NEW b \in Blocks, NEW v \in Values,
             log_writeChecks(p, b, v)
      PROVE  Course'
  <2>1. up /\ up' /\ UNCHANGED <<at, committing, outstanding>>
    BY <1>7 DEF log_writeChecks, place, up, Reservation, NoPanic
  <2>2. ASSUME NEW q \in Procs PROVE pc'[q] = "commit" <=> pc[q] = "commit"
    BY <1>1, <1>7 DEF log_writeChecks, TypeOK
  <2>3. HeldOnce'
    BY <1>1, <1>7 DEF log_writeChecks, HeldOnce, TypeOK
  <2> QED
    BY <1>1, <2>1, <2>2, <2>3 DEF Course, Committer, Recovery
<1>8. ASSUME write_log \/ write_head PROVE Course'
  <2>1. /\ up /\ up' /\ UNCHANGED <<committing, outstanding, pc, buf>>
        /\ at # "none" /\ at' # "none" /\ at' # "read_head"
    BY <1>8 DEF write_log, write_head, quiet, procVars, up
  <2> QED
    BY <1>1, <2>1 DEF Course, HeldOnce, Committer, Recovery
<1>9. ASSUME install_trans PROVE Course'
  <2>1. /\ UNCHANGED <<committing, outstanding, pc, buf, lh, header, machine>>
        /\ at = "install_trans" /\ at' \in {"install_trans", "erase"}
    BY <1>9 DEF install_trans, quiet, procVars
  <2>2. ~up => cache' = disk' /\ dirty' = {}
    <3>1. ~up => cache = disk /\ dirty = {}
      BY <1>1 DEF Recovery
    <3> QED
      BY <1>9, <3>1 DEF install_trans, install_transOne
  <2>3. Recovery'
    BY <1>1, <2>1, <2>2 DEF Recovery, up
  <2> QED
    BY <1>1, <2>1, <2>3 DEF Course, HeldOnce, Committer, up
<1>10. ASSUME erase PROVE Course'
  <2>1. /\ UNCHANGED <<committing, outstanding, pc, buf>>
        /\ up' /\ at' = (IF up THEN "committed" ELSE "none") /\ at = "erase"
    BY <1>10 DEF erase, procVars, up
  <2>2. up => committing
    BY <1>1, <2>1 DEF Committer
  <2>3. ~up => ~committing
    BY <1>1 DEF Recovery
  <2> QED
    BY <1>1, <2>1, <2>2, <2>3 DEF Course, HeldOnce, Committer, Recovery
<1>11. ASSUME read_head PROVE Course'
  <2>1. /\ UNCHANGED <<committing, outstanding, pc, buf, cache, disk, dirty,
                        machine, header>>
        /\ at = "read_head" /\ at' = "install_trans" /\ lh' = header /\ ~up
    BY <1>11 DEF read_head, quiet, procVars, onDisk, up
  <2> QED
    BY <1>1, <2>1 DEF Course, HeldOnce, Committer, Recovery, up
<1>12. ASSUME NEW b \in Blocks, bgetEvicts(b) PROVE Course'
  <2>1. up /\ up' /\ UNCHANGED <<committing, outstanding, pc, buf, at>>
    BY <1>12 DEF bgetEvicts, procVars, place, up
  <2> QED
    BY <1>1, <2>1 DEF Course, HeldOnce, Committer, Recovery
<1>13. ASSUME Crash PROVE Course'
  <2>1. /\ \A q \in Procs : pc'[q] = "out" /\ buf'[q] = NoBlock
        /\ ~committing' /\ outstanding' = 0 /\ at' = "read_head" /\ lh' = <<>>
        /\ cache' = disk' /\ dirty' = {} /\ ~up'
    BY <1>13 DEF Crash, onDisk, up
  <2> QED
    BY <2>1 DEF Course, HeldOnce, Committer, Recovery
<1> QED
  BY <1>2, <1>3, <1>4, <1>5, <1>6, <1>7, <1>8, <1>9, <1>10, <1>11, <1>12,
     <1>13, NextCases

\* log_write records a block that is not there yet.
LEMMA AbsorbedOnce ==
    ASSUME NEW h \in Seq(Blocks), NEW b \in Blocks, Once(h)
    PROVE  /\ Once(Absorbed(h, b))
           /\ {Absorbed(h, b)[i] : i \in 1 .. Len(Absorbed(h, b))}
                = {h[i] : i \in 1 .. Len(h)} \cup {b}
<1>1. CASE LoggedAt(h, b) = {}
  <2> DEFINE g == Append(h, b)
  <2>1. /\ Len(g) = Len(h) + 1 /\ Len(h) \in Nat
        /\ \A i \in 1 .. Len(h) : g[i] = h[i]
        /\ g[Len(h) + 1] = b
    BY AppendProperties, LenProperties
  <2>2. Absorbed(h, b) = g
    BY <1>1 DEF Absorbed
  <2>3. \A i \in 1 .. Len(h) : h[i] # b
    BY <1>1 DEF LoggedAt
  <2> HIDE DEF g
  <2>4. \A i \in 1 .. Len(g) : i \in 1 .. Len(h) \/ i = Len(h) + 1
    BY <2>1
  <2>5. Once(g)
    BY <2>1, <2>3, <2>4 DEF Once
  <2>6. {g[i] : i \in 1 .. Len(g)} = {h[i] : i \in 1 .. Len(h)} \cup {b}
    <3>1. Len(h) + 1 \in 1 .. Len(g) /\ \A i \in 1 .. Len(h) : i \in 1 .. Len(g)
      BY <2>1
    <3> QED
      BY <2>1, <2>4, <3>1
  <2> QED
    BY <2>2, <2>5, <2>6
<1>2. CASE LoggedAt(h, b) # {}
  <2>1. Absorbed(h, b) = h
    BY <1>2 DEF Absorbed
  <2>2. b \in {h[i] : i \in 1 .. Len(h)}
    BY <1>2 DEF LoggedAt
  <2> QED
    BY <2>1, <2>2
<1> QED
  BY <1>1, <1>2

Progress == Headers /\ Loops

LEMMA NextProgress ==
    ASSUME IInv, Next, TypeOK', Reservation', Course'
    PROVE  Progress'
<1>1. /\ TypeOK /\ NoPanic /\ InOps /\ OpsExact
      /\ Committer /\ Recovery /\ Headers /\ Loops
  BY DEF IInv
<1>2. Once(<<>>) /\ Len(<<>>) = 0 /\ Len(lh) \in Nat /\ Len(header) \in Nat
  BY EmptySeq, Totals DEF Once
<1>3. ASSUME NEW p \in Procs, callBegin(p) \/ begin_op(p) PROVE Progress'
  <2>1. up /\ UNCHANGED <<lh, header, machine, at, tail, committing>>
    BY <1>3 DEF callBegin, begin_op, onDisk, place
  <2>2. outstanding' = 0 => outstanding = 0
    BY <1>1, <1>3 DEF callBegin, begin_op, TypeOK
  <2> QED
    BY <1>1, <2>1, <2>2 DEF Progress, Headers, Loops, Once, up
<1>4. ASSUME NEW p \in Procs, end_opNotLast(p) PROVE Progress'
  <2>1. up /\ up' /\ UNCHANGED <<lh, header, at, tail, committing>>
    BY <1>1, <1>4 DEF end_opNotLast, onDisk, place, up, NoPanic, Reservation,
                      CheckCommitting
  <2>2. outstanding' # 0
    BY <1>1, <1>4 DEF end_opNotLast, CloseOp, TypeOK
  <2> QED
    BY <1>1, <2>1, <2>2 DEF Progress, Headers, Loops, Once
<1>5. ASSUME NEW p \in Procs, end_opLast(p) PROVE Progress'
  <2>1. /\ up /\ up' /\ UNCHANGED <<lh, header>> /\ committing' /\ tail' = 1
        /\ outstanding = 1
        /\ at' = IF lh = <<>> THEN "committed" ELSE "write_log"
    BY <1>1, <1>5 DEF end_opLast, onDisk, up, NoPanic, Reservation,
                      CheckCommitting, CommitPlace
  <2>2. at = "none" /\ header = <<>>
    BY <1>1, <2>1 DEF Committer, Headers
  <2>3. lh # <<>> => 1 \in 1 .. Len(lh)
    BY <1>1, <1>2, EmptySeq DEF TypeOK
  <2> QED
    BY <1>1, <2>1, <2>2, <2>3 DEF Progress, Headers, Loops, Once
<1>6. ASSUME NEW p \in Procs, commitReturns(p) PROVE Progress'
  <2>1. up /\ up' /\ UNCHANGED <<lh, header>> /\ at' = "none" /\ at = "committed"
    BY <1>6 DEF commitReturns, onDisk, up
  <2>2. lh = <<>> /\ header = <<>>
    BY <1>1, <2>1 DEF Headers
  <2> QED
    BY <1>1, <2>1, <2>2 DEF Progress, Headers, Loops, Once
<1>7. ASSUME NEW p \in Procs, log_writeAppends(p) PROVE Progress'
  <2>1. /\ up /\ up' /\ UNCHANGED <<header, at, outstanding>> /\ buf[p] \in Blocks
        /\ lh' = Absorbed(lh, buf[p]) /\ pc[p] = "append"
    BY <1>1, <1>7 DEF log_writeAppends, place, onDisk, up, TypeOK, InOps
  <2>2. outstanding # 0 /\ at = "none"
    BY <1>1, <2>1, NobodyRuns DEF Committer
  <2>3. Once(lh')
    BY <1>1, <2>1, AbsorbedOnce DEF Headers, TypeOK
  <2>4. Once(header)' /\ Once(lh)'
    BY <1>1, <2>1, <2>3 DEF Headers, Once
  <2> QED
    BY <1>1, <2>1, <2>2, <2>4 DEF Progress, Headers, Loops
<1>8. ASSUME NEW p \in Procs, NEW b \in Blocks, NEW v \in Values,
             log_writeChecks(p, b, v)
      PROVE  Progress'
  <2>1. up /\ up' /\ UNCHANGED <<lh, header, at, tail, committing, outstanding>>
    BY <1>8 DEF log_writeChecks, place, onDisk, up, Reservation, NoPanic
  <2> QED
    BY <1>1, <2>1 DEF Progress, Headers, Loops, Once
<1>9. ASSUME write_log PROVE Progress'
  <2>1. /\ up /\ up' /\ UNCHANGED <<lh, header, committing, outstanding>>
        /\ at = "write_log" /\ tail \in 1 .. Len(lh)
    BY <1>1, <1>9 DEF write_log, quiet, up, Loops
  <2>2. \/ tail < Len(lh) /\ tail' = tail + 1 /\ at' = "write_log"
        \/ tail' = 1 /\ at' = "write_head"
    BY <1>9 DEF write_log
  <2> QED
    BY <1>1, <1>2, <2>1, <2>2 DEF Progress, Headers, Loops, Once
<1>10. ASSUME write_head PROVE Progress'
  <2>1. /\ up /\ up' /\ UNCHANGED <<lh, tail, committing, outstanding>>
        /\ at = "write_head" /\ at' = "install_trans" /\ header' = lh /\ tail = 1
    BY <1>1, <1>10 DEF write_head, quiet, up, Loops
  <2> QED
    BY <1>1, <1>2, <2>1 DEF Progress, Headers, Loops, Once
<1>11. ASSUME install_trans PROVE Progress'
  <2>1. /\ UNCHANGED <<lh, header, committing, outstanding, machine>>
        /\ at = "install_trans" /\ tail \in 1 .. Len(lh) + 1
    BY <1>1, <1>11 DEF install_trans, quiet, Loops
  <2>2. \/ tail <= Len(lh) /\ tail' = tail + 1 /\ at' = at
        \/ ~(tail <= Len(lh)) /\ tail' = tail /\ at' = "erase"
    BY <1>11 DEF install_trans
  <2>3. Loops'
    BY <1>2, <2>1, <2>2 DEF Loops
  <2> QED
    BY <1>1, <2>1, <2>2, <2>3 DEF Progress, Headers, Once, up
<1>12. ASSUME erase PROVE Progress'
  <2>1. lh' = <<>> /\ header' = <<>> /\ at' \in {"committed", "none"}
    BY <1>12 DEF erase
  <2> QED
    BY <1>2, <2>1 DEF Progress, Headers, Loops, Once
<1>13. ASSUME read_head PROVE Progress'
  <2>1. lh' = header /\ header' = header /\ at' = "install_trans" /\ tail' = 1
          /\ ~up'
    BY <1>13 DEF read_head, onDisk, quiet, up
  <2> QED
    BY <1>1, <1>2, <2>1 DEF Progress, Headers, Loops, Once
<1>14. ASSUME NEW b \in Blocks, bgetEvicts(b) PROVE Progress'
  <2>1. up /\ up' /\ UNCHANGED <<lh, header, committing, outstanding, at, tail>>
    BY <1>14 DEF bgetEvicts, onDisk, place, up
  <2> QED
    BY <1>1, <2>1 DEF Progress, Headers, Loops, Once
<1>15. ASSUME Crash PROVE Progress'
  <2>1. lh' = <<>> /\ header' = header /\ at' = "read_head" /\ ~up'
    BY <1>15 DEF Crash, onDisk, up
  <2> QED
    BY <1>1, <1>2, <2>1 DEF Progress, Headers, Loops, Once
<1> QED
  BY <1>3, <1>4, <1>5, <1>6, <1>7, <1>8, <1>9, <1>10, <1>11, <1>12,
     <1>13, <1>14, <1>15, NextCases

-----------------------------------------------------------------------------
(* The contents of the log, the cache and the disk *)

Contents == Copied /\ Pinned /\ CleanAsDisk

\* A step of a process that only moves it, outside any loop.
LEMMA SameContents ==
    ASSUME IInv, UNCHANGED <<disk, logBlocks, lh, cache, dirty, buf, machine>>,
           \/ at' = at /\ tail' = tail
           \/ /\ at' \in {"none", "committed"}
              /\ at \notin {"install_trans", "erase"}
           \/ /\ at' = "write_log" /\ tail' = 1
              /\ at \notin {"install_trans", "erase"}
    PROVE  Contents'
<1>1. Copied /\ Pinned /\ CleanAsDisk /\ TypeOK
  BY DEF IInv
<1>2. Copied'
  <2>1. CASE at' = at /\ tail' = tail
    BY <1>1, <2>1 DEF Copied, up
  <2>2. CASE at' \in {"none", "committed"}
    BY <2>2 DEF Copied
  <2>3. CASE at' = "write_log" /\ tail' = 1
    BY <2>3 DEF Copied
  <2> QED
    BY <2>1, <2>2, <2>3
<1>3. Pinned'
  BY <1>1 DEF Pinned, From, up
<1>4. CleanAsDisk'
  BY <1>1 DEF CleanAsDisk, up
<1> QED
  BY <1>2, <1>3, <1>4 DEF Contents

\* During a commit every block of the log but those already home is dirty.
LEMMA StillDirty ==
    ASSUME IInv, up, NEW i \in 1 .. Len(lh),
           at \in {"none", "write_log", "write_head"}
             \/ (at = "install_trans" /\ ~(i < tail))
    PROVE  lh[i] \in dirty
<1>1. TypeOK /\ Pinned
  BY DEF IInv
<1>2. tail \in Nat /\ Len(lh) \in Nat
  BY <1>1, Totals DEF TypeOK
<1> QED
  BY <1>1, <1>2 DEF Pinned, From

LEMMA NextContents ==
    ASSUME IInv, Next, TypeOK', Reservation', Course', Progress'
    PROVE  Contents'
<1>1. /\ TypeOK /\ NoPanic /\ InOps /\ Committer /\ Recovery /\ Headers /\ Loops
      /\ Copied /\ Pinned /\ CleanAsDisk
  BY DEF IInv
<1>2. Len(<<>>) = 0 /\ Len(lh) \in Nat /\ Len(header) \in Nat
      /\ tail \in Nat /\ tail >= 1
  BY <1>1, EmptySeq, Totals DEF TypeOK
<1>3. ASSUME NEW p \in Procs, callBegin(p) \/ begin_op(p) PROVE Contents'
  <2>1. UNCHANGED <<disk, logBlocks, lh, cache, dirty, buf, machine, at, tail>>
    BY <1>3 DEF callBegin, begin_op, onDisk, place
  <2> QED
    BY <2>1, SameContents
<1>4. ASSUME NEW p \in Procs, end_opNotLast(p) PROVE Contents'
  <2>1. machine' = machine
    BY <1>1, <1>4 DEF end_opNotLast, CheckCommitting, NoPanic, Reservation
  <2> QED
    <3>1. UNCHANGED <<disk, logBlocks, lh, cache, dirty, buf, at, tail>>
      BY <1>4 DEF end_opNotLast, onDisk, place
    <3> QED
      BY <2>1, <3>1, SameContents
<1>5. ASSUME NEW p \in Procs, end_opLast(p) PROVE Contents'
  <2>1. machine' = machine /\ at = "none"
    BY <1>1, <1>5 DEF end_opLast, CheckCommitting, NoPanic, Reservation,
                      Committer
  <2>2. at' \in {"committed", "write_log"} /\ tail' = 1
          /\ UNCHANGED <<disk, logBlocks, lh, cache, dirty, buf>>
    BY <1>5 DEF end_opLast, onDisk, CommitPlace
  <2> QED
    BY <2>1, <2>2, SameContents
<1>6. ASSUME NEW p \in Procs, commitReturns(p) PROVE Contents'
  <2>1. UNCHANGED <<disk, logBlocks, lh, cache, dirty, buf, machine>>
          /\ at' = "none" /\ at = "committed"
    BY <1>6 DEF commitReturns, onDisk
  <2> QED
    BY <2>1, SameContents
<1>7. ASSUME NEW p \in Procs, log_writeAppends(p) PROVE Contents'
  <2>1. /\ up /\ up' /\ UNCHANGED <<disk, cache, at, outstanding>>
        /\ lh' = Absorbed(lh, buf[p]) /\ pc[p] = "append" /\ buf[p] \in Blocks
        /\ dirty' = dirty \cup {buf[p]} /\ buf' = [buf EXCEPT ![p] = NoBlock]
    BY <1>1, <1>7 DEF log_writeAppends, place, onDisk, up, TypeOK, InOps
  <2>2. at = "none"
    BY <1>1, <2>1, NobodyRuns DEF Committer
  <2>3. Copied'
    BY <2>1, <2>2 DEF Copied
  <2>4. Pinned'
    <3>1. {Absorbed(lh, buf[p])[i] : i \in 1 .. Len(Absorbed(lh, buf[p]))}
            = {lh[i] : i \in 1 .. Len(lh)} \cup {buf[p]}
      BY <1>1, <2>1, AbsorbedOnce DEF Headers, TypeOK
    <3> QED
      BY <1>1, <2>1, <2>2, <3>1 DEF Pinned, From
  <2>5. CleanAsDisk'
    <3>1. ASSUME NEW b \in Blocks, b \notin dirty', \A q \in Procs : buf'[q] # b
          PROVE  b \notin dirty /\ \A q \in Procs : buf[q] # b
      BY <1>1, <2>1, <3>1 DEF TypeOK
    <3> QED
      BY <1>1, <2>1, <3>1 DEF CleanAsDisk
  <2> QED
    BY <2>3, <2>4, <2>5 DEF Contents
<1>8. ASSUME NEW p \in Procs, NEW b \in Blocks, NEW v \in Values,
             log_writeChecks(p, b, v)
      PROVE  Contents'
  <2>1. /\ up /\ up' /\ UNCHANGED <<disk, lh, dirty, at, tail>> /\ pc[p] = "run"
        /\ buf' = [buf EXCEPT ![p] = b] /\ cache' = [cache EXCEPT ![b] = v]
    BY <1>8 DEF log_writeChecks, place, onDisk, up, NoPanic, Reservation
  <2>2. at = "none"
    BY <1>1, <2>1, NobodyRuns DEF Committer
  <2>3. buf[p] = NoBlock
    BY <1>1, <2>1 DEF InOps
  <2>4. Copied' /\ Pinned'
    BY <1>1, <2>1, <2>2 DEF Copied, Pinned, From
  <2>5. CleanAsDisk'
    <3>1. ASSUME NEW c \in Blocks, c \notin dirty', \A q \in Procs : buf'[q] # c
          PROVE  c \notin dirty /\ c # b /\ \A q \in Procs : buf[q] # c
      BY <1>1, <2>1, <2>3, <3>1, Constants DEF TypeOK
    <3> QED
      BY <1>1, <2>1, <3>1 DEF CleanAsDisk, TypeOK
  <2> QED
    BY <2>4, <2>5 DEF Contents
<1>9. ASSUME write_log PROVE Contents'
  <2>1. /\ up /\ up' /\ at = "write_log" /\ tail \in 1 .. LogData
        /\ tail \in 1 .. Len(lh) /\ UNCHANGED <<lh, cache, dirty, buf>>
    BY <1>1, <1>9, InLog DEF write_log, quiet, procVars, up, Loops
  <2>2. tail <= LogData
    BY <2>1, Constants
  <2>3. logBlocks' = [logBlocks EXCEPT ![tail] = cache[lh[tail]]] /\ disk' = disk
    BY <1>9, <2>2 DEF write_log
  <2>4. \/ tail < Len(lh) /\ tail' = tail + 1 /\ at' = "write_log"
        \/ ~(tail < Len(lh)) /\ tail' = 1 /\ at' = "write_head"
    BY <1>9 DEF write_log
  <2>5. ASSUME NEW i \in 1 .. Len(lh), i <= tail
        PROVE  logBlocks'[i] = cache[lh[i]]
    <3>1. CASE i = tail
      BY <1>1, <2>1, <2>3, <3>1 DEF TypeOK
    <3>2. CASE i # tail
      <4>1. i < tail
        BY <1>2, <2>5, <3>2
      <4> QED
        BY <1>1, <2>1, <2>3, <3>2, <4>1 DEF TypeOK, Copied
    <3> QED
      BY <3>1, <3>2
  <2>6. Copied'
    <3>1. ASSUME NEW i \in 1 .. Len(lh),
                 \/ at' = "write_log" /\ i < tail'
                 \/ at' = "write_head"
          PROVE  i <= tail
      BY <1>2, <2>1, <2>4, <3>1
    <3>2. at' \notin {"install_trans", "erase"}
      BY <2>4
    <3> QED
      BY <2>1, <2>5, <3>1, <3>2 DEF Copied
  <2>7. Pinned' /\ CleanAsDisk'
    BY <1>1, <2>1, <2>3, <2>4 DEF Pinned, From, CleanAsDisk
  <2> QED
    BY <2>6, <2>7 DEF Contents
<1>10. ASSUME write_head PROVE Contents'
  <2>1. /\ up /\ up' /\ UNCHANGED <<disk, logBlocks, lh, cache, dirty, buf, tail>>
        /\ at = "write_head" /\ at' = "install_trans" /\ tail = 1
    BY <1>1, <1>10 DEF write_head, quiet, procVars, up, Loops
  <2>2. Copied'
    BY <1>1, <1>2, <2>1 DEF Copied
  <2> QED
    BY <1>1, <2>1, <2>2 DEF Contents, Pinned, From, CleanAsDisk
<1>11. ASSUME install_trans PROVE Contents'
  <2>1. /\ UNCHANGED <<lh, logBlocks, machine, buf>> /\ at = "install_trans"
        /\ tail \in 1 .. Len(lh) + 1
    BY <1>1, <1>11 DEF install_trans, quiet, procVars, Loops
  <2>2. CASE tail <= Len(lh)
    <3> DEFINE b == lh[tail]
    <3>1. /\ b \in Blocks /\ LogBlock(tail) = logBlocks[tail]
          /\ tail \in 1 .. Len(lh)
      BY <1>2, <1>11, <2>1, <2>2, InLog
    <3>2. /\ disk' = [disk EXCEPT ![b] = logBlocks[tail]]
          /\ cache' = [cache EXCEPT ![b] = logBlocks[tail]]
          /\ dirty' = dirty \ {b} /\ tail' = tail + 1 /\ at' = at
      BY <1>11, <2>2, <3>1 DEF install_trans, install_transOne
    <3>3. ASSUME NEW i \in 1 .. Len(lh), i # tail
          PROVE  lh[i] # b /\ lh[i] \in Blocks
      BY <1>1, <3>1, <3>3, ElementOfSeq DEF Headers, Once, TypeOK
    <3>4. disk'[b] = logBlocks[tail] /\ cache'[b] = logBlocks[tail]
            /\ \A c \in Blocks : c # b => disk'[c] = disk[c] /\ cache'[c] = cache[c]
      BY <1>1, <3>1, <3>2 DEF TypeOK
    <3> HIDE DEF b
    <3>5. ASSUME NEW i \in 1 .. Len(lh), up'
          PROVE  logBlocks[i] = cache'[lh[i]]
      <4>1. CASE i = tail
        BY <3>4, <4>1 DEF b
      <4>2. CASE i # tail
        BY <1>1, <2>1, <3>3, <3>4, <3>5, <4>2 DEF Copied, up
      <4> QED
        BY <4>1, <4>2
    <3>6. ASSUME NEW i \in 1 .. Len(lh), i < tail'
          PROVE  disk'[lh[i]] = logBlocks[i]
      <4>1. CASE i = tail
        BY <3>4, <4>1 DEF b
      <4>2. CASE i # tail
        <5>1. i < tail
          BY <1>2, <3>2, <3>6, <4>2
        <5> QED
          BY <1>1, <2>1, <3>3, <3>4, <4>2, <5>1 DEF Copied
      <4> QED
        BY <4>1, <4>2
    <3>7. Copied'
      BY <2>1, <3>2, <3>5, <3>6 DEF Copied
    <3>8. Pinned'
      <4>1. ASSUME up PROVE dirty' = {lh[i] : i \in tail + 1 .. Len(lh)}
        <5>1. dirty = {lh[i] : i \in tail .. Len(lh)}
          BY <1>1, <2>1, <4>1 DEF Pinned, From
        <5>2. \A i \in tail .. Len(lh) : i = tail \/ (i \in tail + 1 .. Len(lh))
          BY <1>2
        <5>3. \A i \in tail + 1 .. Len(lh) :
                i \in tail .. Len(lh) /\ i \in 1 .. Len(lh) /\ i # tail
          BY <1>2
        <5> QED
          BY <3>2, <3>3, <5>1, <5>2, <5>3 DEF b
      <4> QED
        BY <2>1, <3>2, <4>1 DEF Pinned, From, up
    <3>9. CleanAsDisk'
      <4>1. ASSUME up, NEW c \in Blocks, c \notin dirty',
                   \A q \in Procs : buf'[q] # c
            PROVE  cache'[c] = disk'[c]
        <5>1. CASE c = b
          BY <3>4, <5>1
        <5>2. CASE c # b
          <6>1. c \notin dirty
            BY <3>2, <4>1, <5>2
          <6> QED
            BY <1>1, <2>1, <3>4, <4>1, <5>2, <6>1 DEF CleanAsDisk
        <5> QED
          BY <5>1, <5>2
      <4> QED
        BY <2>1, <4>1 DEF CleanAsDisk, up
    <3> QED
      BY <3>7, <3>8, <3>9 DEF Contents
  <2>3. CASE ~(tail <= Len(lh))
    <3>1. at' = "erase" /\ UNCHANGED <<disk, cache, dirty, tail>>
      BY <1>11, <2>3 DEF install_trans
    <3>2. up => dirty = {}
      BY <1>1, <1>2, <2>1, <2>3 DEF Pinned, From
    <3> QED
      BY <1>1, <2>1, <3>1, <3>2 DEF Contents, Copied, Pinned, CleanAsDisk, up
  <2> QED
    BY <2>2, <2>3
<1>12. ASSUME erase PROVE Contents'
  <2>1. /\ lh' = <<>> /\ UNCHANGED <<disk, cache, dirty, buf>> /\ at = "erase"
        /\ at' \in {"committed", "none"}
    BY <1>12 DEF erase, procVars
  <2>2. dirty = {}
    BY <1>1, <2>1 DEF Pinned, Recovery
  <2>3. CleanAsDisk'
    BY <1>1, <2>1 DEF CleanAsDisk, Recovery
  <2> QED
    BY <1>2, <2>1, <2>2, <2>3 DEF Contents, Copied, Pinned, From
<1>13. ASSUME read_head PROVE Contents'
  <2>1. at' = "install_trans" /\ tail' = 1 /\ ~up'
    BY <1>13 DEF read_head, quiet, up
  <2> QED
    BY <2>1 DEF Contents, Copied, Pinned, CleanAsDisk
<1>14. ASSUME NEW b \in Blocks, bgetEvicts(b) PROVE Contents'
  <2>1. /\ up /\ up' /\ UNCHANGED <<disk, logBlocks, lh, dirty, at, tail, buf>>
        /\ b \notin dirty /\ cache' = [cache EXCEPT ![b] = disk[b]]
    BY <1>14 DEF bgetEvicts, onDisk, place, procVars, up
  <2>2. \A c \in Blocks : cache'[c] = IF c = b THEN disk[b] ELSE cache[c]
    BY <1>1, <2>1 DEF TypeOK
  <2>3. Copied'
    <3>1. ASSUME NEW i \in 1 .. Len(lh),
                 \/ at = "write_log" /\ i < tail
                 \/ at = "write_head"
                 \/ at \in {"install_trans", "erase"}
          PROVE  logBlocks[i] = cache'[lh[i]]
      <4>1. lh[i] \in Blocks /\ logBlocks[i] = cache[lh[i]]
        BY <1>1, <2>1, <3>1, ElementOfSeq DEF TypeOK, Copied
      <4>2. CASE lh[i] # b
        BY <2>2, <4>1, <4>2
      <4>3. CASE lh[i] = b
        <5>1. at \in {"install_trans", "erase"} /\ (at = "install_trans" => i < tail)
          BY <2>1, <3>1, <4>3, StillDirty
        <5>2. i < tail
          BY <1>1, <1>2, <5>1 DEF Loops
        <5> QED
          BY <1>1, <2>2, <4>3, <5>1, <5>2 DEF Copied
      <4> QED
        BY <4>2, <4>3
    <3> QED
      BY <1>1, <2>1, <3>1 DEF Copied
  <2>4. Pinned' /\ CleanAsDisk'
    BY <1>1, <2>1, <2>2 DEF Pinned, From, CleanAsDisk
  <2> QED
    BY <2>3, <2>4 DEF Contents
<1>15. ASSUME Crash PROVE Contents'
  <2>1. at' = "read_head" /\ ~up'
    BY <1>15 DEF Crash, up
  <2> QED
    BY <2>1 DEF Contents, Copied, Pinned, CleanAsDisk
<1> QED
  BY <1>3, <1>4, <1>5, <1>6, <1>7, <1>8, <1>9, <1>10, <1>11, <1>12,
     <1>13, <1>14, <1>15, NextCases

-----------------------------------------------------------------------------
(* The invariant holds *)

LEMMA InitIInv ==
    ASSUME Init
    PROVE  IInv
<1>1. Len(<<>>) = 0 /\ <<>> \in Seq(Blocks)
  BY EmptySeq
<1>2. TypeOK
  <2>1. /\ disk \in [Blocks -> Values] /\ cache \in [Blocks -> Values]
        /\ logBlocks \in [1 .. LogData -> Values]
        /\ header \in Seq(Blocks) /\ lh \in Seq(Blocks)
    BY <1>1 DEF Init
  <2>2. outstanding \in Nat /\ tail \in Nat \ {0} /\ dirty \subseteq Blocks
    BY DEF Init
  <2>3. committing \in BOOLEAN
    BY Zenon DEF Init
  <2>4. depth \in [Procs -> 0 .. MaxDepth]
    BY Constants DEF Init
  <2>5. /\ pc \in [Procs -> {"out", "begin", "asleep", "run", "append", "commit"}]
        /\ left \in [Procs -> Nat] /\ buf \in [Procs -> Blocks \cup {NoBlock}]
    BY DEF Init
  <2>6. machine = "up" /\ at = "none"
    BY DEF Init
  <2> QED
    BY <2>1, <2>2, <2>3, <2>4, <2>5, <2>6 DEF TypeOK
<1>3. left \in [Procs -> Nat] /\ \A q \in Procs : left[q] = 0
  BY DEF Init
<1>4. depth \in [Procs -> Nat] /\ \A q \in Procs : depth[q] = 0
  BY DEF Init
<1>5. OpsExact
  BY <1>4, UnitsNone DEF OpsExact, Init
<1>6. SpaceLeft
  <2>1. IsFiniteSet(Units(left)) /\ Cardinality(Units(left)) = 0
    BY <1>3, UnitsNone
  <2>2. Len(lh) = 0 /\ Len(header) = 0
    BY <1>1 DEF Init
  <2> QED
    BY <2>1, <2>2, Constants DEF SpaceLeft
<1>7. InOps
  <2>1. 0 * OpWrites = 0
    BY Constants
  <2> QED
    BY <1>3, <1>4, <2>1, Constants DEF InOps, Init
<1>8. HeldOnce /\ Committer /\ Recovery
  BY DEF Init, HeldOnce, Committer, Recovery, up
<1>9. Headers /\ Loops
  BY <1>1 DEF Init, Headers, Loops, Once
<1>10. Copied /\ Pinned /\ CleanAsDisk
  BY <1>1 DEF Init, Copied, Pinned, CleanAsDisk, From
<1> QED
  BY <1>2, <1>5, <1>6, <1>7, <1>8, <1>9, <1>10 DEF IInv, NoPanic, Init

LEMMA NextIInv ==
    ASSUME Slack, IInv, [Next]_vars
    PROVE  IInv'
<1>1. CASE Next
  <2>1. TypeOK'
    BY <1>1, NextType
  <2>2. Reservation'
    BY <1>1, <2>1, NextReservation
  <2>3. Course'
    BY <1>1, <2>1, <2>2, NextCourse
  <2>4. Progress'
    BY <1>1, <2>1, <2>2, <2>3, NextProgress
  <2>5. Contents'
    BY <1>1, <2>1, <2>2, <2>3, <2>4, NextContents
  <2> QED
    BY <2>1, <2>2, <2>3, <2>4, <2>5
    DEF IInv, Reservation, Course, Progress, Contents
<1>2. CASE UNCHANGED vars
  <2>1. UNCHANGED <<disk, logBlocks, header, lh, outstanding, committing, cache,
                    dirty, machine, at, tail, pc, depth, left, buf>>
    BY <1>2 DEF vars, onDisk, place, procVars
  <2>2. TypeOK' /\ NoPanic' /\ HeldOnce' /\ Committer' /\ Recovery'
    BY <2>1 DEF IInv, TypeOK, NoPanic, HeldOnce, Committer, Recovery, up
  <2>3. OpsExact' /\ SpaceLeft' /\ InOps'
    BY <2>1 DEF IInv, OpsExact, SpaceLeft, InOps, LoggedAt, Units
  <2>4. Headers' /\ Loops' /\ Copied' /\ Pinned' /\ CleanAsDisk'
    BY <2>1 DEF IInv, Headers, Loops, Once, Copied, Pinned, From, CleanAsDisk, up
  <2> QED
    BY <2>2, <2>3, <2>4 DEF IInv
<1> QED
  BY <1>1, <1>2

LEMMA InvHolds == ASSUME Slack PROVE Spec => []IInv
<1>1. Init => IInv
  BY InitIInv
<1>2. IInv /\ [Next]_vars => IInv'
  BY NextIInv
<1> QED
  BY <1>1, <1>2, PTL DEF Spec

-----------------------------------------------------------------------------
(* What recovery would find *)

LEMMA RecoveredBlocks ==
    ASSUME IInv
    PROVE  /\ Recovered \in [Blocks -> Values]
           /\ \A i \in 1 .. Len(header) : Recovered[header[i]] = logBlocks[i]
           /\ \A b \in Blocks :
                (\A i \in 1 .. Len(header) : header[i] # b) => Recovered[b] = disk[b]
<1>1. TypeOK /\ SpaceLeft /\ Headers
  BY DEF IInv
<1>2. ASSUME NEW b \in Blocks, \A i \in 1 .. Len(header) : header[i] # b
      PROVE  Recovered[b] = disk[b]
  BY <1>2 DEF Recovered, LoggedAt
<1>3. ASSUME NEW i \in 1 .. Len(header)
      PROVE  /\ Recovered[header[i]] = logBlocks[i] /\ header[i] \in Blocks
             /\ logBlocks[i] \in Values
  <2>1. header[i] \in Blocks /\ i \in 1 .. LogData
    BY <1>1, Totals, Constants, ElementOfSeq DEF TypeOK, SpaceLeft
  <2>2. LoggedAt(header, header[i]) = {i}
    BY <1>1 DEF Headers, Once, LoggedAt
  <2>3. (CHOOSE k \in {i} : \A j \in {i} : j <= k) = i
    OBVIOUS
  <2> QED
    <3>1. Recovered[header[i]] = LogBlock(i)
      BY <2>1, <2>2, <2>3 DEF Recovered
    <3> QED
      BY <1>1, <2>1, <3>1 DEF LogBlock, TypeOK
<1>4. Recovered = [b \in Blocks |-> Recovered[b]]
  BY DEF Recovered
<1>5. ASSUME NEW b \in Blocks PROVE Recovered[b] \in Values
  BY <1>1, <1>2, <1>3 DEF TypeOK
<1> QED
  BY <1>2, <1>3, <1>4, <1>5

\* Three places where the whole of Recovered is known.
LEMMA RecoveredWhole ==
    ASSUME IInv
    PROVE  /\ header = <<>> => Recovered = disk
           /\ at = "erase" => Recovered = disk
           /\ (up /\ outstanding = 0 /\ ~committing) => Recovered = cache
<1>1. TypeOK /\ Headers /\ Loops /\ Copied /\ Pinned /\ CleanAsDisk /\ Committer
  BY DEF IInv
<1>2. Len(<<>>) = 0 /\ Len(lh) \in Nat
  BY EmptySeq, Totals
<1>3. Recovered \in [Blocks -> Values]
  BY RecoveredBlocks
<1>4. ASSUME header = <<>> PROVE Recovered = disk
  <2>1. \A b \in Blocks : Recovered[b] = disk[b]
    BY <1>2, <1>4, RecoveredBlocks
  <2> QED
    BY <1>1, <1>3, <2>1 DEF TypeOK
<1>5. ASSUME at = "erase" PROVE Recovered = disk
  <2>1. header = lh /\ tail = Len(lh) + 1
    BY <1>1, <1>5 DEF Headers, Loops
  <2>2. \A i \in 1 .. Len(lh) : disk[lh[i]] = logBlocks[i]
    BY <1>1, <1>2, <1>5, <2>1 DEF Copied
  <2>3. \A b \in Blocks : Recovered[b] = disk[b]
    BY <2>1, <2>2, RecoveredBlocks
  <2> QED
    BY <1>1, <1>3, <2>3 DEF TypeOK
<1>6. ASSUME up, outstanding = 0, ~committing PROVE Recovered = cache
  <2>1. at = "none" /\ lh = <<>> /\ header = <<>>
    BY <1>1, <1>6 DEF Committer, Headers
  <2>2. dirty = {}
    BY <1>1, <1>2, <1>6, <2>1 DEF Pinned, From
  <2>3. \A b \in Blocks, q \in Procs : buf[q] # b
    BY <1>6, NobodyRuns, Constants
  <2>4. \A b \in Blocks : cache[b] = disk[b]
    BY <1>1, <1>6, <2>2, <2>3 DEF CleanAsDisk
  <2> QED
    BY <1>1, <1>4, <2>1, <2>4 DEF TypeOK
<1> QED
  BY <1>4, <1>5, <1>6

\* The same facts, by name, to be used of the next state.
ByHeader ==
    /\ Recovered \in [Blocks -> Values]
    /\ \A i \in 1 .. Len(header) : Recovered[header[i]] = logBlocks[i]
    /\ \A b \in Blocks :
         (\A i \in 1 .. Len(header) : header[i] # b) => Recovered[b] = disk[b]
Erased == header = <<>> => Recovered = disk

LEMMA RecoveredNamed == IInv => ByHeader /\ Erased
BY RecoveredBlocks, RecoveredWhole DEF ByHeader, Erased

\* No panic of log.c is reached when operations stay within their slack: the
\* unlocked test of log.lh.n in log_write is never too late.
THEOREM LogNeverPanics == ASSUME Slack PROVE Spec => []NoPanic
<1>1. IInv => NoPanic
  BY DEF IInv
<1> QED
  BY <1>1, InvHolds, PTL

\* Cache, log in memory and log on disk agree between the steps of a commit,
\* and what ended operations wrote would survive a crash.
THEOREM LogIsConsistent == ASSUME Slack PROVE Spec => []LogConsistent
<1>1. ASSUME IInv PROVE LogConsistent
  <2>1. TypeOK /\ Pinned /\ Headers
    BY <1>1 DEF IInv
  <2>2. QuiescentDurable
    BY <1>1, RecoveredWhole DEF QuiescentDurable
  <2>3. ASSUME NEW b \in Blocks
        PROVE  Cardinality(LoggedAt(lh, b)) <= 1
    <3>1. CASE LoggedAt(lh, b) = {}
      BY <3>1, FS_EmptySet
    <3>2. CASE LoggedAt(lh, b) # {}
      <4>1. PICK i : i \in LoggedAt(lh, b)
        BY <3>2
      <4>2. LoggedAt(lh, b) = {i}
        BY <2>1, <4>1 DEF Headers, Once, LoggedAt
      <4> QED
        <5>1. Cardinality({i}) = 1
          BY FS_Singleton
        <5> QED
          BY <4>2, <5>1
    <3> QED
      BY <3>1, <3>2
  <2>4. LoggedIsPinned
    BY <2>1, <2>3 DEF LoggedIsPinned, Pinned, From
  <2> QED
    BY <2>1, <2>2, <2>4 DEF LogConsistent
<1> QED
  BY <1>1, InvHolds, PTL

-----------------------------------------------------------------------------
(* Sleepers in begin_op *)

\* Somebody asleep in begin_op waits for a commit or for an operation.
SleepsForSomething ==
    (\E p \in Procs : pc[p] = "asleep") => committing \/ outstanding > 0

LEMMA NextSleeps ==
    ASSUME IInv, SleepsForSomething, [Next]_vars, MAXOPBLOCKS <= LOGSIZE
    PROVE  SleepsForSomething'
<1>1. TypeOK /\ Headers /\ Committer
  BY DEF IInv
<1>2. ASSUME NEW p \in Procs, begin_op(p) PROVE SleepsForSomething'
  <2>1. CASE ~committing /\ outstanding = 0
    <3>1. lh = <<>> /\ Len(lh) = 0
      BY <1>1, <1>2, <2>1, EmptySeq DEF Headers, begin_op
    <3>2. (outstanding + 1) * MAXOPBLOCKS = MAXOPBLOCKS
      BY <2>1, Constants
    <3>3. ~MustWait
      BY <2>1, <3>1, <3>2, Constants DEF MustWait
    <3> QED
      BY <1>2, <2>1, <3>3 DEF begin_op, SleepsForSomething
  <2>2. CASE committing
    BY <1>2, <2>2 DEF begin_op, SleepsForSomething
  <2>3. CASE outstanding # 0
    BY <1>1, <1>2, <2>3 DEF begin_op, SleepsForSomething, TypeOK
  <2> QED
    BY <2>1, <2>2, <2>3
<1>3. ASSUME NEW p \in Procs, callBegin(p) PROVE SleepsForSomething'
  BY <1>1, <1>3 DEF callBegin, SleepsForSomething, TypeOK
<1>4. ASSUME NEW p \in Procs, EndOp(p) PROVE SleepsForSomething'
  BY <1>1, <1>4 DEF EndOp, end_opNotLast, end_opLast, CloseOp, TypeOK,
                    SleepsForSomething
<1>5. ASSUME NEW p \in Procs, commitReturns(p) PROVE SleepsForSomething'
  BY <1>1, <1>5 DEF commitReturns, Woken, SleepsForSomething, TypeOK
<1>6. ASSUME NEW p \in Procs, log_writeAppends(p) PROVE SleepsForSomething'
  BY <1>1, <1>6 DEF log_writeAppends, SleepsForSomething, TypeOK
<1>7. ASSUME NEW p \in Procs, NEW b \in Blocks, NEW v \in Values,
             log_writeChecks(p, b, v)
      PROVE  SleepsForSomething'
  BY <1>1, <1>7 DEF log_writeChecks, SleepsForSomething, TypeOK
<1>8. ASSUME DiskNext \/ UNCHANGED vars PROVE SleepsForSomething'
  <2>1. UNCHANGED <<pc, committing, outstanding>>
    BY <1>8 DEF DiskNext, write_log, write_head, install_trans, erase, read_head,
                quiet, procVars, vars
  <2> QED
    BY <2>1 DEF SleepsForSomething
<1>9. ASSUME NEW b \in Blocks, bgetEvicts(b) PROVE SleepsForSomething'
  BY <1>9 DEF bgetEvicts, procVars, SleepsForSomething
<1>10. ASSUME Crash PROVE SleepsForSomething'
  BY <1>10 DEF Crash, SleepsForSomething
<1> QED
  BY <1>2, <1>3, <1>4, <1>5, <1>6, <1>7, <1>8, <1>9, <1>10 DEF Next, ProcNext

\* Where begin_op calls never nest, a process asleep in begin_op has somebody
\* to wake it: the deadlock of the nested call is the only one.
THEOREM LogSleepersWoken ==
    ASSUME Slack, MaxDepth = 1, MAXOPBLOCKS <= LOGSIZE
    PROVE  Spec => []SleeperHasWaker
<1>1. Init => SleepsForSomething
  BY DEF Init, SleepsForSomething
<1>2. IInv /\ SleepsForSomething /\ [Next]_vars => SleepsForSomething'
  BY NextSleeps
<1>3. IInv /\ SleepsForSomething => SleeperHasWaker
  <2> SUFFICES ASSUME IInv, SleepsForSomething, ~committing,
                      \E p \in Procs : pc[p] = "asleep"
               PROVE  \E q \in Procs : depth[q] > 0 /\ pc[q] # "asleep"
    BY DEF SleeperHasWaker
  <2>1. OpsExact /\ InOps /\ TypeOK
    BY DEF IInv
  <2>2. outstanding > 0
    BY DEF SleepsForSomething
  <2>3. PICK q \in Procs : depth[q] # 0
    <3>1. outstanding # 0
      BY <2>2, Totals
    <3> QED
      BY <2>1, <3>1, Totals, UnitsNone DEF OpsExact
  <2>4. depth[q] \in 0 .. MaxDepth /\ depth[q] > 0
    BY <2>1, <2>3, Totals DEF TypeOK
  <2>5. ~(depth[q] < MaxDepth)
    BY <2>4
  <2> QED
    BY <2>1, <2>4, <2>5 DEF InOps
<1> QED
  BY <1>1, <1>2, <1>3, InvHolds, PTL DEF Spec

-----------------------------------------------------------------------------
(* Refinement of AtomicStore *)

current == IF machine = "recovering" THEN Recovered ELSE cache
active == IF machine = "recovering" THEN 0 ELSE outstanding

\* A step that leaves the disk, the cache and the operations alone stutters.
LEMMA SameStore ==
    ASSUME IInv, Recovered' = Recovered, current' = current, active' = active
    PROVE  UNCHANGED Store!storeVars
BY DEF Store!storeVars, current, active

LEMMA SameRecovered ==
    ASSUME UNCHANGED <<disk, logBlocks, header>>
    PROVE  Recovered' = Recovered
BY DEF Recovered, LogBlock

LEMMA UpStore ==
    ASSUME IInv
    PROVE  /\ active = outstanding
           /\ up => current = cache
           /\ ~up => machine = "recovering" /\ current = Recovered
BY DEF IInv, Recovery, NoPanic, TypeOK, active, current, up

\* The processes' steps.
LEMMA ProcRefines ==
    ASSUME IInv, IInv', NEW p \in Procs, ProcNext(p)
    PROVE  Store!Next \/ UNCHANGED Store!storeVars
<1>1. TypeOK /\ InOps /\ NoPanic
  BY DEF IInv
<1>2. /\ up /\ up' /\ Recovered' = Recovered
      /\ current = cache /\ current' = cache'
      /\ active = outstanding /\ active' = outstanding'
  <2>1. up /\ UNCHANGED <<disk, logBlocks, header>> /\ machine' \in {"up", "panicked"}
    BY DEF ProcNext, callBegin, begin_op, EndOp, end_opNotLast, end_opLast,
           commitReturns, log_writeAppends, log_writeChecks, onDisk, up,
           CheckCommitting
  <2>2. up'
    BY <2>1 DEF IInv, NoPanic, up
  <2> QED
    BY <2>1, <2>2, UpStore, SameRecovered DEF current, active, up
<1>3. CASE callBegin(p)
  <2>1. UNCHANGED <<cache, outstanding>>
    BY <1>3 DEF callBegin
  <2> QED
    BY <1>2, <2>1, SameStore
<1>4. CASE begin_op(p)
  <2>1. cache' = cache /\ outstanding' \in {outstanding, outstanding + 1}
    BY <1>4 DEF begin_op
  <2>2. CASE outstanding' = outstanding
    BY <1>2, <2>1, <2>2, SameStore
  <2>3. CASE outstanding' = outstanding + 1
    <3>1. Store!Begin
      BY <1>2, <2>1, <2>3 DEF Store!Begin, current, active
    <3> QED
      BY <3>1 DEF Store!Next
  <2> QED
    BY <2>1, <2>2, <2>3
<1>5. CASE EndOp(p)
  <2>1. cache' = cache /\ outstanding > 0 /\ outstanding' = outstanding - 1
    BY <1>1, <1>5 DEF EndOp, end_opNotLast, end_opLast, CloseOp, TypeOK
  <2>2. Store!End
    BY <1>2, <2>1 DEF Store!End, current, active
  <2> QED
    BY <2>2 DEF Store!Next
<1>6. CASE commitReturns(p) \/ log_writeAppends(p)
  <2>1. UNCHANGED <<cache, outstanding>>
    BY <1>6 DEF commitReturns, log_writeAppends
  <2> QED
    BY <1>2, <2>1, SameStore
<1>7. ASSUME NEW b \in Blocks, NEW v \in Values, log_writeChecks(p, b, v)
      PROVE  Store!Next
  <2>1. /\ cache' = [cache EXCEPT ![b] = v] /\ outstanding' = outstanding
        /\ pc[p] = "run"
    BY <1>7 DEF log_writeChecks
  <2>2. outstanding > 0
    <3>1. outstanding # 0
      BY <2>1, NobodyRuns
    <3> QED
      BY <1>1, <3>1 DEF TypeOK
  <2>3. Store!Write(b, v)
    BY <1>2, <2>1, <2>2 DEF Store!Write, current, active
  <2> QED
    BY <2>3 DEF Store!Next
<1> QED
  BY <1>3, <1>4, <1>5, <1>6, <1>7 DEF ProcNext

\* The commit point: the header on disk makes all of the log durable at once.
LEMMA WriteHeadCommits ==
    ASSUME IInv, IInv', write_head
    PROVE  Store!Commit
<1>1. /\ up /\ up' /\ at = "write_head" /\ header' = lh
      /\ UNCHANGED <<disk, logBlocks, lh, cache, outstanding>>
  BY DEF write_head, quiet, up
<1>2. TypeOK /\ Committer /\ Copied /\ Pinned /\ CleanAsDisk
  BY DEF IInv
<1>3. outstanding = 0
  BY <1>1, <1>2 DEF Committer
<1>4. /\ Recovered' \in [Blocks -> Values]
      /\ \A i \in 1 .. Len(header') : Recovered'[header'[i]] = logBlocks'[i]
      /\ \A b \in Blocks :
           (\A i \in 1 .. Len(header') : header'[i] # b) => Recovered'[b] = disk'[b]
  <2>1. ByHeader'
    BY RecoveredNamed, PTL
  <2> QED
    BY <2>1 DEF ByHeader
<1>5. ASSUME NEW b \in Blocks PROVE Recovered'[b] = cache[b]
  <2>1. CASE \E i \in 1 .. Len(lh) : lh[i] = b
    <3>1. PICK i \in 1 .. Len(lh) : lh[i] = b
      BY <2>1
    <3>2. logBlocks[i] = cache[b]
      BY <1>1, <1>2, <3>1 DEF Copied
    <3> QED
      BY <1>1, <1>4, <3>1, <3>2
  <2>2. CASE \A i \in 1 .. Len(lh) : lh[i] # b
    <3>1. Recovered'[b] = disk[b]
      BY <1>1, <1>4, <2>2
    <3>2. b \notin dirty
      BY <1>1, <1>2, <2>2 DEF Pinned, From
    <3>3. \A q \in Procs : buf[q] # b
      BY <1>3, NobodyRuns, Constants
    <3> QED
      BY <1>1, <1>2, <3>1, <3>2, <3>3 DEF CleanAsDisk
  <2> QED
    BY <2>1, <2>2
<1>6. Recovered' = cache
  BY <1>2, <1>4, <1>5 DEF TypeOK
<1>7. current = cache /\ current' = cache /\ active = 0 /\ active' = 0
  BY <1>1, <1>3 DEF current, active, up
<1> QED
  BY <1>6, <1>7 DEF Store!Commit, current, active

\* Installing a block that the header names changes nothing.
LEMMA InstallStutters ==
    ASSUME IInv, IInv', install_trans
    PROVE  UNCHANGED Store!storeVars
<1>1. TypeOK /\ Headers /\ Copied /\ Loops
  BY DEF IInv
<1>2. /\ UNCHANGED <<logBlocks, header, lh, outstanding, machine>>
      /\ at = "install_trans" /\ header = lh
  BY <1>1 DEF install_trans, quiet, Headers
<1>3. CASE tail <= Len(lh)
  <2> DEFINE b == lh[tail]
  <2>1. /\ b \in Blocks /\ LogBlock(tail) = logBlocks[tail]
        /\ tail \in 1 .. Len(lh)
    BY <1>1, <1>2, <1>3, Totals, InLog DEF TypeOK
  <2>2. /\ disk' = [disk EXCEPT ![b] = logBlocks[tail]]
        /\ cache' = [cache EXCEPT ![b] = logBlocks[tail]]
    BY <1>3, <2>1 DEF install_trans, install_transOne
  <2>3. up => cache' = cache
    <3>1. up => logBlocks[tail] = cache[b]
      BY <1>1, <1>2, <2>1 DEF Copied
    <3> QED
      BY <1>1, <2>1, <2>2, <3>1 DEF TypeOK
  <2>4. Recovered' = Recovered
    <3>1. LoggedAt(header, b) # {}
      BY <1>2, <2>1 DEF LoggedAt
    <3>2. ASSUME NEW c \in Blocks, LoggedAt(header, c) = {}
          PROVE  disk'[c] = disk[c]
      BY <1>1, <2>1, <2>2, <3>1, <3>2 DEF TypeOK
    <3>4. ASSUME NEW c \in Blocks PROVE Recovered'[c] = Recovered[c]
      <4>1. CASE LoggedAt(header, c) = {}
        BY <1>2, <3>2, <4>1 DEF Recovered, LoggedAt
      <4>2. CASE LoggedAt(header, c) # {}
        <5>1. PICK i \in 1 .. Len(header) : header[i] = c
          BY <4>2 DEF LoggedAt
        <5>2. Recovered[c] = logBlocks[i]
          BY <5>1, RecoveredBlocks
        <5>3. ByHeader'
          BY RecoveredNamed, PTL
        <5>4. \A j \in 1 .. Len(header') : Recovered'[header'[j]] = logBlocks'[j]
          BY <5>3 DEF ByHeader
        <5> QED
          BY <1>2, <5>1, <5>2, <5>4
      <4> QED
        BY <4>1, <4>2
    <3> QED
      BY <3>4 DEF Recovered
  <2> QED
    BY <1>2, <2>3, <2>4, UpStore, SameStore DEF current, active, up
<1>4. CASE ~(tail <= Len(lh))
  <2>1. UNCHANGED <<disk, cache>>
    BY <1>4 DEF install_trans
  <2> QED
    BY <1>2, <2>1, SameRecovered, SameStore DEF current, active
<1> QED
  BY <1>3, <1>4

\* Every step of the log is a step of the store, or none.
LEMMA StepRefines ==
    IInv /\ IInv' /\ [Next]_vars => [Store!Next]_(Store!storeVars)
<1> SUFFICES ASSUME IInv, IInv', [Next]_vars
             PROVE  Store!Next \/ UNCHANGED Store!storeVars
  OBVIOUS
<1>1. TypeOK /\ Headers /\ Copied /\ Loops /\ CleanAsDisk /\ Recovery
  BY DEF IInv
<1>2. /\ header = <<>> => Recovered = disk
      /\ at = "erase" => Recovered = disk
  BY RecoveredWhole
<1>3. header' = <<>> => Recovered' = disk'
  <2>1. Erased'
    BY RecoveredNamed, PTL
  <2> QED
    BY <2>1 DEF Erased
<1>4. CASE write_log
  <2>1. /\ up /\ at = "write_log" /\ UNCHANGED <<header, cache, outstanding, machine>>
    BY <1>4 DEF write_log, quiet
  <2>2. tail <= LogData
    BY <2>1, InLog, Constants
  <2>3. disk' = disk
    BY <1>4, <2>2 DEF write_log
  <2>4. header = <<>>
    BY <1>1, <2>1 DEF Headers
  <2>5. Recovered' = Recovered
    BY <1>2, <1>3, <2>1, <2>3, <2>4
  <2> QED
    BY <2>1, <2>5, SameStore DEF current, active
<1>5. CASE erase
  <2>1. /\ at = "erase" /\ header' = <<>> /\ UNCHANGED <<disk, cache, outstanding>>
        /\ machine' = "up"
    BY <1>5 DEF erase
  <2>2. Recovered' = Recovered /\ Recovered = disk
    BY <1>2, <1>3, <2>1
  <2>3. current' = cache /\ active' = outstanding
    BY <2>1 DEF current, active
  <2>4. current = cache /\ active = outstanding
    BY <1>1, <2>2, UpStore DEF Recovery
  <2> QED
    BY <2>2, <2>3, <2>4, SameStore
<1>6. CASE read_head
  <2>1. UNCHANGED <<disk, logBlocks, header, cache, outstanding, machine>>
    BY <1>6 DEF read_head, onDisk, quiet
  <2> QED
    BY <2>1, SameRecovered, SameStore DEF current, active
<1>7. ASSUME NEW b \in Blocks, bgetEvicts(b)
      PROVE  UNCHANGED Store!storeVars
  <2>1. /\ up /\ UNCHANGED <<disk, logBlocks, header, outstanding, machine>>
        /\ cache[b] = disk[b] /\ cache' = [cache EXCEPT ![b] = disk[b]]
    BY <1>1, <1>7 DEF bgetEvicts, onDisk, CleanAsDisk
  <2>2. cache' = cache
    BY <1>1, <2>1 DEF TypeOK
  <2> QED
    BY <2>1, <2>2, SameRecovered, SameStore DEF current, active
<1>8. CASE Crash
  <2>1. UNCHANGED <<disk, logBlocks, header>> /\ machine' = "recovering"
    BY <1>8 DEF Crash, onDisk
  <2>2. Recovered' = Recovered /\ current' = Recovered /\ active' = 0
    BY <2>1, SameRecovered DEF current, active
  <2>3. Store!Crash
    BY <2>2 DEF Store!Crash, current, active
  <2> QED
    BY <2>3 DEF Store!Next
<1>9. CASE UNCHANGED vars
  <2>1. UNCHANGED <<disk, logBlocks, header, cache, outstanding, machine>>
    BY <1>9 DEF vars, onDisk
  <2> QED
    BY <2>1, SameRecovered, SameStore DEF current, active
<1>10. CASE write_head
  BY <1>10, WriteHeadCommits DEF Store!Next
<1> QED
  BY <1>4, <1>5, <1>6, <1>7, <1>8, <1>9, <1>10, ProcRefines, InstallStutters
  DEF Next, DiskNext

\* log.c 11-15: a crash at any moment, during recovery too, leaves the file
\* system as it was at the last commit, and a commit is all or nothing.
THEOREM LogImplementsStore == ASSUME Slack PROVE Spec => Implements
<1>1. Init => Store!Init
  <2> SUFFICES ASSUME Init PROVE Store!Init
    OBVIOUS
  <2>1. IInv
    BY InitIInv
  <2>2. Recovered = disk
    BY <2>1, RecoveredWhole DEF Init
  <2> QED
    BY <2>2 DEF Init, Store!Init
<1> QED
  BY <1>1, InvHolds, StepRefines, PTL DEF Spec, Implements, Store!Spec
=============================================================================
