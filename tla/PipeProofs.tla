----------------------------- MODULE PipeProofs -----------------------------
(***************************************************************************)
(* Proofs about Pipe, for every set of processes, pipe size, counter width *)
(* and every string written.                                               *)
(***************************************************************************)
EXTENDS Pipe, FiniteSetTheorems, SequenceTheorems, TLAPS

\* The descriptors of end e: the process and a number, one for each.
Descriptors(e) ==
    {d \in Procs \X (1 .. NOFILE) : d[2] <= fds[d[1]][e]}

\* f->ref counts the descriptors.
RefExact == \A e \in Ends : ref[e] = Cardinality(Descriptors(e))

\* Whoever closes the last descriptor of an end is alone with it.
CloserAlone ==
    \A p \in Procs, e \in Ends :
        pc[p] = Closing[e] =>
            /\ \A q \in Procs : fds[q][e] = 0
            /\ \A q \in Procs : pc[q] = Closing[e] => q = p

\* A process that is not there has nothing open, and one inside piperead or
\* pipewrite has a descriptor for what it does.
CallersHold ==
    \A p \in Procs :
        /\ pc[p] = "none" => \A e \in Ends : fds[p][e] = 0
        /\ pc[p] \in Reading => fds[p]["r"] > 0
        /\ pc[p] \in Writing => fds[p]["w"] > 0

\* p->lock has one holder; one about to sleep has found what it sleeps for.
DozersRight ==
    /\ \A p, q \in Procs :
          pc[p] \in {"dozeR", "dozeW"} /\ pc[q] \in {"dozeR", "dozeW"} => p = q
    /\ \A p \in Procs :
          /\ pc[p] = "dozeR" => writeopen /\ nread = nwrite
          /\ pc[p] = "dozeW" => Filled = PIPESIZE /\ readopen

\* Readers do not wait, or begin to, while a writer does.
OneSideWaits ==
    ~ \E p, q \in Procs : pc[p] \in {"dozeR", "asleepR"}
                            /\ pc[q] \in {"dozeW", "asleepW"}

\* The inductive invariant.
IInv ==
    /\ TypeOK
    /\ RefExact
    /\ CloserAlone
    /\ CallersHold
    /\ LiveWhileReferenced
    /\ DozersRight
    /\ NoLostWakeup
    /\ OneSideWaits

-----------------------------------------------------------------------------
(* Counters modulo UINT *)

\* What % does to a number written as a quotient and a remainder.
LEMMA ModUnique ==
    ASSUME NEW M \in Nat, M > 0, NEW x \in Int, NEW q \in Int,
           NEW r \in 0 .. M - 1, x = M * q + r
    PROVE  x % M = r
OBVIOUS

LEMMA ModRange ==
    ASSUME NEW M \in Nat, M > 0, NEW x \in Int
    PROVE  x % M \in 0 .. M - 1
OBVIOUS

\* One turn more or less.
LEMMA ModOneTurn ==
    ASSUME NEW M \in Nat, M > 0, NEW x \in Int
    PROVE  /\ x \in 0 .. M - 1 => x % M = x
           /\ x \in M .. 2 * M - 1 => x % M = x - M
           /\ x \in (-M) .. (-1) => x % M = x + M
<1>1. x \in 0 .. M - 1 => x % M = x
  OBVIOUS
<1>2. x \in M .. 2 * M - 1 => x % M = x - M
  OBVIOUS
<1>3. x \in (-M) .. (-1) => x % M = x + M
  OBVIOUS
<1> QED
  BY <1>1, <1>2, <1>3

\* The bytes in the pipe and the room left, without %.
LEMMA FilledAndRoom ==
    ASSUME TypeOK
    PROVE  /\ Filled = IF nread <= nwrite THEN nwrite - nread
                                         ELSE nwrite - nread + UINT
           /\ Filled \in 0 .. PIPESIZE
           /\ Room = PIPESIZE - Filled
           /\ nread = nwrite <=> Filled = 0
<1>1. nread \in 0 .. UINT - 1 /\ nwrite \in 0 .. UINT - 1 /\ Filled <= PIPESIZE
  BY DEF TypeOK
<1>2. UINT \in Nat /\ UINT > PIPESIZE /\ PIPESIZE \in Nat /\ UINT > 0
        /\ PIPESIZE > 0
  BY UINTAssumption, PIPESIZEAssumption
<1>3. nwrite - nread \in Int /\ nread + PIPESIZE - nwrite \in Int
  BY <1>1, <1>2
<1>4. Filled = IF nread <= nwrite THEN nwrite - nread ELSE nwrite - nread + UINT
  BY <1>1, <1>2, <1>3, ModOneTurn DEF Filled
<1>5. Filled \in 0 .. PIPESIZE
  BY <1>1, <1>2, <1>4
<1>6. nread + PIPESIZE - nwrite = PIPESIZE - Filled
        \/ nread + PIPESIZE - nwrite = PIPESIZE - Filled + UINT
  BY <1>1, <1>2, <1>4
<1>7. Room = PIPESIZE - Filled
  BY <1>2, <1>3, <1>5, <1>6, ModOneTurn DEF Room
<1> QED
  BY <1>1, <1>2, <1>4, <1>5, <1>7

\* Storing k bytes, where there is room, and taking k bytes, where there are
\* as many, is counted exactly.
LEMMA CountersMove ==
    ASSUME TypeOK, NEW k \in Nat
    PROVE  /\ (nwrite + k) % UINT \in 0 .. UINT - 1
           /\ (nread + k) % UINT \in 0 .. UINT - 1
           /\ k <= PIPESIZE - Filled =>
                 (((nwrite + k) % UINT) - nread) % UINT = Filled + k
           /\ k <= Filled => (nwrite - ((nread + k) % UINT)) % UINT = Filled - k
<1>1. nread \in 0 .. UINT - 1 /\ nwrite \in 0 .. UINT - 1
  BY DEF TypeOK
<1>2. UINT \in Nat /\ UINT > PIPESIZE /\ PIPESIZE \in Nat /\ UINT > 0
  BY UINTAssumption, PIPESIZEAssumption
<1>3. /\ Filled = IF nread <= nwrite THEN nwrite - nread
                                     ELSE nwrite - nread + UINT
      /\ Filled \in 0 .. PIPESIZE
  BY FilledAndRoom
<1>4. /\ (nwrite + k) % UINT \in 0 .. UINT - 1
      /\ (nread + k) % UINT \in 0 .. UINT - 1
  BY <1>1, <1>2, ModRange
<1>5. ASSUME k <= PIPESIZE - Filled
      PROVE  (((nwrite + k) % UINT) - nread) % UINT = Filled + k
  <2>1. (nwrite + k) % UINT = IF nwrite + k < UINT THEN nwrite + k
                                                   ELSE nwrite + k - UINT
    BY <1>1, <1>2, <1>3, <1>5, ModOneTurn
  <2>2. ((nwrite + k) % UINT) - nread \in {Filled + k, Filled + k - UINT}
    BY <1>1, <1>2, <1>3, <1>5, <2>1
  <2> QED
    BY <1>2, <1>3, <1>5, <2>2, ModOneTurn
<1>6. ASSUME k <= Filled
      PROVE  (nwrite - ((nread + k) % UINT)) % UINT = Filled - k
  <2>1. (nread + k) % UINT = IF nread + k < UINT THEN nread + k
                                                 ELSE nread + k - UINT
    BY <1>1, <1>2, <1>3, <1>6, ModOneTurn
  <2>2. nwrite - ((nread + k) % UINT) \in {Filled - k, Filled - k - UINT}
    BY <1>1, <1>2, <1>3, <1>6, <2>1
  <2> QED
    BY <1>2, <1>3, <1>6, <2>2, ModOneTurn
<1> QED
  BY <1>4, <1>5, <1>6

-----------------------------------------------------------------------------
(* What the calls do to the pipe *)

Places == {"none", "user", "closeR", "closeW"} \cup Reading \cup Writing
pipewrites(p) == pipewriteReturns(p) \/ pipewriteFails(p) \/ pipewriteBlocks(p)

LEMMA FitsFacts ==
    ASSUME TypeOK, NEW p \in Procs
    PROVE  /\ Len(rest[p]) \in Nat /\ rest[p] \in Seq(Byte)
           /\ Fits(rest[p]) \in Nat
           /\ Fits(rest[p]) <= PIPESIZE - Filled
           /\ Fits(rest[p]) <= Len(rest[p])
           /\ Len(rest[p]) > Room => Fits(rest[p]) = PIPESIZE - Filled
<1>1. rest[p] \in Seq(Byte) /\ Len(rest[p]) \in Nat
  BY DEF TypeOK
<1>2. Room = PIPESIZE - Filled /\ Filled \in 0 .. PIPESIZE /\ PIPESIZE \in Nat
  BY FilledAndRoom, PIPESIZEAssumption
<1> QED
  BY <1>1, <1>2 DEF Fits

\* pipewrite adds Fits(rest[p]) bytes.
LEMMA WriteStores ==
    ASSUME TypeOK, NEW p \in Procs, pipewrites(p)
    PROVE  /\ data' \in [Index -> Byte]
           /\ nread' = nread /\ nwrite' \in 0 .. UINT - 1
           /\ Filled' = Filled + Fits(rest[p])
           /\ rest' \in [Procs -> Seq(Byte)]
<1>1. stores(rest[p]) /\ nread' = nread
  BY DEF pipewrites, pipewriteReturns, pipewriteFails, pipewriteBlocks
<1>2. nwrite' \in 0 .. UINT - 1
  BY <1>1, FitsFacts, CountersMove DEF stores
<1>3. Filled' = Filled + Fits(rest[p])
  <2>1. Filled' = (((nwrite + Fits(rest[p])) % UINT) - nread) % UINT
    BY <1>1 DEF stores, Filled
  <2> QED
    BY <2>1, FitsFacts, CountersMove
<1>4. data' \in [Index -> Byte]
  <2>1. ASSUME NEW i \in Index, \E j \in 1 .. Fits(rest[p]) : Slot(j) = i
        PROVE  rest[p][CHOOSE j \in 1 .. Fits(rest[p]) : Slot(j) = i] \in Byte
    <3>1. (CHOOSE j \in 1 .. Fits(rest[p]) : Slot(j) = i)
             \in 1 .. Fits(rest[p])
      BY <2>1
    <3>2. \A j \in 1 .. Fits(rest[p]) : rest[p][j] \in Byte
      BY FitsFacts, ElementOfSeq
    <3> QED
      BY <3>1, <3>2
  <2>2. \A i \in Index : data[i] \in Byte
    BY DEF TypeOK
  <2> QED
    BY <1>1, <2>1, <2>2 DEF stores
<1>5. rest' \in [Procs -> Seq(Byte)]
  <2>1. SubSeq(rest[p], Fits(rest[p]) + 1, Len(rest[p])) \in Seq(Byte)
    BY FitsFacts, SubSeqProperties
  <2>2. <<>> \in Seq(Byte)
    OBVIOUS
  <2>3. rest' = [rest EXCEPT ![p] = <<>>]
          \/ rest' = [rest EXCEPT ![p] = SubSeq(rest[p], Fits(rest[p]) + 1,
                                                Len(rest[p]))]
    BY DEF pipewrites, pipewriteReturns, pipewriteFails, pipewriteBlocks
  <2> QED
    BY <2>1, <2>2, <2>3 DEF TypeOK
<1> QED
  BY <1>1, <1>2, <1>3, <1>4, <1>5

\* piperead takes Got(want[p]) bytes.
LEMMA ReadTakes ==
    ASSUME TypeOK, NEW p \in Procs, pipereadReturns(p)
    PROVE  /\ Got(want[p]) \in Nat /\ Got(want[p]) <= Filled
           /\ nwrite' = nwrite /\ nread' \in 0 .. UINT - 1
           /\ Filled' = Filled - Got(want[p])
           /\ last' \in Seq(Byte)
<1>1. want[p] \in Nat
  <2>1. want[p] \in ReadSizes \cup {0}
    BY DEF TypeOK
  <2>2. CASE want[p] \in ReadSizes
    BY <2>2, ReadSizesAssumption
  <2> QED
    BY <2>1, <2>2
<1>2. Filled \in 0 .. PIPESIZE /\ PIPESIZE \in Nat
  BY FilledAndRoom, PIPESIZEAssumption
<1>3. Got(want[p]) \in Nat /\ Got(want[p]) <= Filled
  BY <1>1, <1>2 DEF Got
<1>4. nread' = (nread + Got(want[p])) % UINT /\ nwrite' = nwrite
  BY DEF pipereadReturns
<1>5. nread' \in 0 .. UINT - 1
  BY <1>3, <1>4, CountersMove
<1>6. Filled' = Filled - Got(want[p])
  <2> DEFINE k == Got(want[p])
  <2>1. nread' = (nread + k) % UINT
    BY <1>4
  <2> HIDE DEF k
  <2>2. Filled' = (nwrite - ((nread + k) % UINT)) % UINT
    BY <1>4, <2>1 DEF Filled
  <2>3. k \in Nat /\ k <= Filled
    BY <1>3 DEF k
  <2>4. Filled' = Filled - k
    BY <2>2, <2>3, CountersMove
  <2> QED
    BY <2>4 DEF k
<1>7. last' \in Seq(Byte)
  <2>1. ASSUME NEW j \in 1 .. Got(want[p])
        PROVE  data[((nread + j - 1) % UINT) % PIPESIZE] \in Byte
    <3>1. nread + j - 1 \in Int /\ UINT \in Nat /\ UINT > 0 /\ PIPESIZE \in Nat
            /\ PIPESIZE > 0
      BY <1>3, UINTAssumption, PIPESIZEAssumption DEF TypeOK
    <3>2. (nread + j - 1) % UINT \in Int
      BY <3>1, ModRange
    <3>3. ((nread + j - 1) % UINT) % PIPESIZE \in Index
      BY <3>1, <3>2, ModRange DEF Index
    <3> QED
      BY <3>3 DEF TypeOK
  <2>2. last' = Bytes(Got(want[p]))
    BY DEF pipereadReturns
  <2>3. Bytes(Got(want[p])) \in [1 .. Got(want[p]) -> Byte]
    BY <2>1 DEF Bytes
  <2> QED
    BY <1>3, <2>2, <2>3, IsASeq
<1> QED
  BY <1>3, <1>4, <1>5, <1>6, <1>7

-----------------------------------------------------------------------------
(* Descriptors and reference counts *)

LEMMA DescriptorsFinite ==
    ASSUME NEW e \in Ends
    PROVE  IsFiniteSet(Descriptors(e)) /\ Cardinality(Descriptors(e)) \in Nat
<1>1. IsFiniteSet(1 .. NOFILE)
  BY FS_Interval, NOFILEAssumption
<1>2. IsFiniteSet(Procs \X (1 .. NOFILE))
  BY <1>1, ProcsAssumption, FS_Product
<1>3. Descriptors(e) \subseteq Procs \X (1 .. NOFILE)
  BY DEF Descriptors
<1> QED
  BY <1>2, <1>3, FS_Subset, FS_CardinalityType

\* The reference count is zero when nobody has a descriptor, and only then.
FdsTyped == fds \in [Procs -> [Ends -> 0 .. NOFILE]]
ZeroMeansNone ==
    \A e \in Ends : ref[e] = 0 <=> \A p \in Procs : fds[p][e] = 0

LEMMA RefZero == FdsTyped /\ RefExact => ZeroMeansNone
<1> SUFFICES ASSUME FdsTyped, RefExact, NEW e \in Ends
             PROVE  ref[e] = 0 <=> \A p \in Procs : fds[p][e] = 0
  BY DEF ZeroMeansNone
<1>1. \A p \in Procs : fds[p][e] \in 0 .. NOFILE
  BY DEF FdsTyped
<1>2. Descriptors(e) = {} <=> \A p \in Procs : fds[p][e] = 0
  <2>1. ASSUME NEW p \in Procs, fds[p][e] # 0
        PROVE  <<p, 1>> \in Descriptors(e)
    BY <1>1, <2>1, NOFILEAssumption DEF Descriptors
  <2>2. ASSUME NEW d \in Descriptors(e)
        PROVE  fds[d[1]][e] # 0 /\ d[1] \in Procs
    BY <1>1, <2>2, NOFILEAssumption DEF Descriptors
  <2> QED
    BY <2>1, <2>2
<1> QED
  BY <1>2, DescriptorsFinite, FS_EmptySet DEF RefExact

\* The count follows a change of one process' descriptors from i to k.
LEMMA OneMore ==
    ASSUME TypeOK, NEW e \in Ends, NEW p \in Procs,
           fds[p][e] < NOFILE,
           fds'[p][e] = fds[p][e] + 1,
           \A q \in Procs : q # p => fds'[q][e] = fds[q][e]
    PROVE  Cardinality(Descriptors(e)') = Cardinality(Descriptors(e)) + 1
<1> DEFINE d == <<p, fds[p][e] + 1>>
<1>1. \A q \in Procs : fds[q][e] \in 0 .. NOFILE
  BY DEF TypeOK
<1>2. d \in Procs \X (1 .. NOFILE) /\ d \notin Descriptors(e)
  BY <1>1, NOFILEAssumption DEF Descriptors
<1>3. ASSUME NEW q \in Procs, NEW i \in 1 .. NOFILE
      PROVE  i <= fds'[q][e] <=> (i <= fds[q][e] \/ <<q, i>> = d)
  BY <1>1, NOFILEAssumption
<1>4. Descriptors(e)' = Descriptors(e) \cup {d}
  BY <1>2, <1>3 DEF Descriptors
<1> QED
  BY <1>2, <1>4, DescriptorsFinite, FS_AddElement

LEMMA OneLess ==
    ASSUME TypeOK, NEW e \in Ends, NEW p \in Procs,
           fds[p][e] > 0,
           fds'[p][e] = fds[p][e] - 1,
           \A q \in Procs : q # p => fds'[q][e] = fds[q][e]
    PROVE  Cardinality(Descriptors(e)') = Cardinality(Descriptors(e)) - 1
<1> DEFINE d == <<p, fds[p][e]>>
<1>1. \A q \in Procs : fds[q][e] \in 0 .. NOFILE
  BY DEF TypeOK
<1>2. d \in Procs \X (1 .. NOFILE) /\ d \in Descriptors(e)
  BY <1>1, NOFILEAssumption DEF Descriptors
<1>3. ASSUME NEW q \in Procs, NEW i \in 1 .. NOFILE
      PROVE  i <= fds'[q][e] <=> (i <= fds[q][e] /\ <<q, i>> # d)
  BY <1>1, NOFILEAssumption
<1>4. Descriptors(e)' = Descriptors(e) \ {d}
  BY <1>2, <1>3 DEF Descriptors
<1> QED
  BY <1>2, <1>4, DescriptorsFinite, FS_RemoveElement

\* fork gives the child, which has none, as many as the parent has.
LEMMA AsManyAgain ==
    ASSUME TypeOK, NEW e \in Ends, NEW p \in Procs, NEW q \in Procs,
           fds[q][e] = 0, fds'[q][e] = fds[p][e],
           \A r \in Procs : r # q => fds'[r][e] = fds[r][e]
    PROVE  Cardinality(Descriptors(e)')
             = Cardinality(Descriptors(e)) + fds[p][e]
<1> DEFINE D == {q} \X (1 .. fds[p][e])
<1>1. \A r \in Procs : fds[r][e] \in 0 .. NOFILE
  BY DEF TypeOK
<1>2. IsFiniteSet(D) /\ Cardinality(D) = fds[p][e]
  <2>1. fds[p][e] \in Nat
    BY <1>1, NOFILEAssumption
  <2>2. IsFiniteSet(1 .. fds[p][e])
          /\ Cardinality(1 .. fds[p][e])
               = IF 1 > fds[p][e] THEN 0 ELSE fds[p][e] - 1 + 1
    BY <2>1, FS_Interval
  <2>3. IsFiniteSet({q}) /\ Cardinality({q}) = 1
    BY FS_Singleton
  <2>4. /\ IsFiniteSet(D)
        /\ Cardinality(D) = Cardinality({q}) * Cardinality(1 .. fds[p][e])
    BY <2>2, <2>3, FS_Product
  <2>5. Cardinality(1 .. fds[p][e]) = fds[p][e]
    BY <2>1, <2>2
  <2> QED
    BY <2>1, <2>3, <2>4, <2>5
<1>3. ASSUME NEW r \in Procs, NEW i \in 1 .. NOFILE
      PROVE  i <= fds'[r][e] <=> (i <= fds[r][e] \/ (r = q /\ i <= fds[p][e]))
  BY <1>1, NOFILEAssumption
<1>4. D \subseteq Procs \X (1 .. NOFILE)
  BY <1>1, NOFILEAssumption
<1>5. Descriptors(e)' = Descriptors(e) \cup D
  <2>1. \A x \in Procs \X (1 .. NOFILE) :
            x \in D <=> x[1] = q /\ x[2] <= fds[p][e]
    BY <1>1, NOFILEAssumption
  <2> QED
    BY <1>3, <1>4, <2>1 DEF Descriptors
<1>6. Descriptors(e) \cap D = {}
  BY <1>1, NOFILEAssumption DEF Descriptors
<1> HIDE DEF D
<1>7. Cardinality(Descriptors(e) \cup D)
        = Cardinality(Descriptors(e)) + Cardinality(D) - Cardinality({})
  BY <1>2, <1>6, DescriptorsFinite, FS_Union
<1>8. Cardinality({}) = 0
  BY FS_EmptySet
<1> QED
  BY <1>1, <1>2, <1>5, <1>7, <1>8, DescriptorsFinite

-----------------------------------------------------------------------------
(* Each part of the invariant is kept by every step *)

\* The reference counts stay exact.
LEMMA RefStep ==
    ASSUME IInv, Next
    PROVE  RefExact'
<1> USE DEF IInv
<1>1. ASSUME UNCHANGED fileVars
      PROVE  RefExact'
  BY <1>1 DEF RefExact, Descriptors, fileVars
<1>2. ASSUME NEW p \in Procs, Kernel(p) \/ exit(p)
               \/ (\E s \in Strings : callWrite(p, s))
               \/ (\E k \in ReadSizes : callRead(p, k))
               \/ (\E q \in Procs : kill(p, q))
      PROVE  UNCHANGED fileVars
  BY <1>2 DEF Kernel, pipewriteReturns, pipewriteFails, pipewriteBlocks,
              pipereadReturns, pipereadFails, pipereadBlocks, sleep,
              pipecloseReadEnd, pipecloseWriteEnd, exit, callWrite, callRead,
              kill
<1>3. ASSUME NEW p \in Procs, pipealloc(p)
      PROVE  RefExact'
  <2> SUFFICES ASSUME NEW e \in Ends
               PROVE  ref'[e] = Cardinality(Descriptors(e)')
    BY DEF RefExact
  <2>1. ref[e] = 0 /\ ref'[e] = 1
    BY <1>3 DEF pipealloc, NoFds
  <2>2. \A q \in Procs : fds[q][e] = 0
    BY <2>1, RefZero DEF ZeroMeansNone, FdsTyped, TypeOK
  <2>3. /\ fds'[p][e] = fds[p][e] + 1
        /\ \A q \in Procs : q # p => fds'[q][e] = fds[q][e]
    BY <1>3, <2>2 DEF pipealloc, TypeOK
  <2>4. fds[p][e] < NOFILE
    BY <2>2, NOFILEAssumption
  <2>5. Cardinality(Descriptors(e)') = Cardinality(Descriptors(e)) + 1
    BY <2>3, <2>4, OneMore
  <2> QED
    BY <2>1, <2>5 DEF RefExact
<1>4. ASSUME NEW p \in Procs, NEW d \in Ends, dup(p, d)
      PROVE  RefExact'
  <2> SUFFICES ASSUME NEW e \in Ends
               PROVE  ref'[e] = Cardinality(Descriptors(e)')
    BY DEF RefExact
  <2>1. ref[e] = Cardinality(Descriptors(e))
    BY DEF RefExact
  <2>2. CASE e = d
    <3>1. fds[p]["r"] \in Nat /\ fds[p]["w"] \in Nat
      BY NOFILEAssumption DEF TypeOK, Ends
    <3>2. fds[p][e] < NOFILE
      BY <1>4, <3>1, NOFILEAssumption DEF dup, Ends
    <3>3. /\ fds'[p][e] = fds[p][e] + 1
          /\ \A q \in Procs : q # p => fds'[q][e] = fds[q][e]
          /\ ref'[e] = ref[e] + 1
      BY <1>4, <2>2 DEF dup, TypeOK
    <3> QED
      BY <2>1, <3>2, <3>3, OneMore
  <2>3. CASE e # d
    <3>1. ref'[e] = ref[e] /\ \A q \in Procs : fds'[q][e] = fds[q][e]
      BY <1>4, <2>3 DEF dup, TypeOK
    <3> QED
      BY <2>1, <3>1 DEF Descriptors
  <2> QED
    BY <2>2, <2>3
<1>5. ASSUME NEW p \in Procs, NEW d \in Ends, fileclose(p, d)
      PROVE  RefExact'
  <2> SUFFICES ASSUME NEW e \in Ends
               PROVE  ref'[e] = Cardinality(Descriptors(e)')
    BY DEF RefExact
  <2>1. ref[e] = Cardinality(Descriptors(e))
    BY DEF RefExact
  <2>2. CASE e = d
    <3>1. /\ fds[p][e] > 0
          /\ fds'[p][e] = fds[p][e] - 1
          /\ \A q \in Procs : q # p => fds'[q][e] = fds[q][e]
          /\ ref'[e] = ref[e] - 1
      BY <1>5, <2>2 DEF fileclose, TypeOK
    <3> QED
      BY <2>1, <3>1, OneLess
  <2>3. CASE e # d
    <3>1. ref'[e] = ref[e] /\ \A q \in Procs : fds'[q][e] = fds[q][e]
      BY <1>5, <2>3 DEF fileclose, TypeOK
    <3> QED
      BY <2>1, <3>1 DEF Descriptors
  <2> QED
    BY <2>2, <2>3
<1>6. ASSUME NEW p \in Procs, NEW q \in Procs, fork(p, q)
      PROVE  RefExact'
  <2> SUFFICES ASSUME NEW e \in Ends
               PROVE  ref'[e] = Cardinality(Descriptors(e)')
    BY DEF RefExact
  <2>1. fds[q][e] = 0
    BY <1>6 DEF fork, CallersHold
  <2>2. /\ fds'[q][e] = fds[p][e]
        /\ \A r \in Procs : r # q => fds'[r][e] = fds[r][e]
        /\ ref'[e] = ref[e] + fds[p][e]
    BY <1>6 DEF fork, TypeOK
  <2>3. Cardinality(Descriptors(e)') = Cardinality(Descriptors(e)) + fds[p][e]
    BY <2>1, <2>2, AsManyAgain
  <2> QED
    BY <2>2, <2>3 DEF RefExact
<1> QED
  BY <1>1, <1>2, <1>3, <1>4, <1>5, <1>6 DEF Next, User

\* The steps of a call, and kill: nobody starts or finishes closing, nobody
\* appears or leaves, and nobody changes from reading to writing.
Quiet(p) ==
    \/ pipewrites(p) \/ pipereadReturns(p) \/ pipereadFails(p)
    \/ pipereadBlocks(p) \/ sleep(p) \/ \E q \in Procs : kill(p, q)

LEMMA QuietPlaces ==
    ASSUME IInv, NEW p \in Procs, Quiet(p)
    PROVE  /\ pc' \in [Procs -> Places]
           /\ UNCHANGED <<fds, ref, readopen, writeopen, allocated>>
           /\ \A q \in Procs :
                 /\ pc'[q] = "none" <=> pc[q] = "none"
                 /\ pc'[q] = "closeR" <=> pc[q] = "closeR"
                 /\ pc'[q] = "closeW" <=> pc[q] = "closeW"
                 /\ pc'[q] \in Reading => pc[q] \in Reading
                 /\ pc'[q] \in Writing => pc[q] \in Writing
<1>1. pc \in [Procs -> Places]
  BY DEF IInv, TypeOK, Places
<1> USE DEF Places, Reading, Writing
<1>2. CASE pipewrites(p)
  BY <1>1, <1>2 DEF pipewrites, pipewriteReturns, pipewriteFails,
                    pipewriteBlocks, WakeReaders, fileVars
<1>3. CASE pipereadReturns(p) \/ pipereadFails(p) \/ pipereadBlocks(p)
  BY <1>1, <1>3 DEF pipereadReturns, pipereadFails, pipereadBlocks,
                    WakeWriters, fileVars, pipeVars
<1>4. CASE sleep(p)
  BY <1>1, <1>4 DEF sleep, fileVars, pipeVars
<1>5. ASSUME NEW q \in Procs, kill(p, q)
      PROVE  /\ pc' \in [Procs -> Places]
             /\ UNCHANGED <<fds, ref, readopen, writeopen, allocated>>
             /\ \A r \in Procs :
                   /\ pc'[r] = "none" <=> pc[r] = "none"
                   /\ pc'[r] = "closeR" <=> pc[r] = "closeR"
                   /\ pc'[r] = "closeW" <=> pc[r] = "closeW"
                   /\ pc'[r] \in Reading => pc[r] \in Reading
                   /\ pc'[r] \in Writing => pc[r] \in Writing
  BY <1>1, <1>5 DEF kill, fileVars, pipeVars
<1> QED
  BY <1>2, <1>3, <1>4, <1>5 DEF Quiet

\* Descriptors, places and the flags of the pipe fit together.
Held == CloserAlone /\ CallersHold /\ LiveWhileReferenced

LEMMA QuietHeld ==
    ASSUME IInv, NEW p \in Procs, Quiet(p)
    PROVE  Held'
<1>1. CloserAlone'
  BY QuietPlaces DEF IInv, CloserAlone, Closing, Ends
<1>2. CallersHold'
  BY QuietPlaces DEF IInv, CallersHold
<1>3. LiveWhileReferenced'
  BY QuietPlaces DEF IInv, LiveWhileReferenced
<1> QED
  BY <1>1, <1>2, <1>3 DEF Held

LEMMA UserHeld ==
    ASSUME IInv, NEW p \in Procs, User(p)
    PROVE  Held'
<1> USE DEF IInv, Held, CloserAlone, CallersHold, LiveWhileReferenced
<1>1. CASE pipealloc(p)
  <2>1. \A q \in Procs : fds[q]["r"] = 0 /\ fds[q]["w"] = 0
    BY <1>1, RefZero DEF ZeroMeansNone, FdsTyped, TypeOK, pipealloc, NoFds, Ends
  <2>2. \A q \in Procs : pc[q] # "closeR" /\ pc[q] # "closeW"
    BY <1>1 DEF pipealloc
  <2>3. \A q \in Procs : pc[q] \notin Reading /\ pc[q] \notin Writing
    BY <2>1
  <2>4. pc[p] = "user" /\ pc' = pc /\ readopen' /\ writeopen' /\ allocated'
    BY <1>1 DEF pipealloc, InUser
  <2>5. \A q \in Procs, e \in Ends :
            fds'[q][e] = IF q = p THEN 1 ELSE fds[q][e]
    BY <1>1 DEF pipealloc, TypeOK
  <2> QED
    BY <2>1, <2>2, <2>3, <2>4, <2>5 DEF Ends, Closing, Reading, Writing
<1>2. ASSUME NEW s, callWrite(p, s)
      PROVE  Held'
  BY <1>2 DEF callWrite, InUser, fileVars, pipeVars, TypeOK, Ends, Closing,
              Reading, Writing
<1>3. ASSUME NEW k, callRead(p, k)
      PROVE  Held'
  BY <1>3 DEF callRead, InUser, fileVars, pipeVars, TypeOK, Ends, Closing,
              Reading, Writing
<1>4. ASSUME NEW d \in Ends, dup(p, d)
      PROVE  Held'
  <2>1. \A q \in Procs, e \in Ends :
            fds'[q][e] = IF q = p /\ e = d THEN fds[q][e] + 1 ELSE fds[q][e]
    BY <1>4 DEF dup, TypeOK
  <2>2. /\ pc' = pc /\ pc[p] = "user" /\ fds[p][d] > 0
        /\ UNCHANGED <<readopen, writeopen, allocated>>
    BY <1>4 DEF dup, InUser, pipeVars
  <2>3. fds[p][d] \in Nat
    BY NOFILEAssumption DEF TypeOK
  <2> QED
    BY <2>1, <2>2, <2>3 DEF Ends, Closing, Reading, Writing
<1>5. ASSUME NEW q \in Procs, fork(p, q)
      PROVE  Held'
  <2>1. \A r \in Procs, e \in Ends :
            fds'[r][e] = IF r = q THEN fds[p][e] ELSE fds[r][e]
    BY <1>5 DEF fork, TypeOK
  <2>2. /\ pc[p] = "user" /\ pc[q] = "none"
        /\ UNCHANGED <<readopen, writeopen, allocated>>
    BY <1>5 DEF fork, InUser, pipeVars
  <2>3. \A r \in Procs : pc'[r] = IF r = q THEN "user" ELSE pc[r]
    BY <1>5 DEF fork, TypeOK
  <2>4. \A e \in Ends : (\E r \in Procs : fds'[r][e] > 0)
                           <=> (\E r \in Procs : fds[r][e] > 0)
    BY <2>1, <2>2
  <2> QED
    BY <2>1, <2>2, <2>3, <2>4 DEF Ends, Closing, Reading, Writing
<1>6. ASSUME NEW q \in Procs, kill(p, q)
      PROVE  Held'
  BY <1>6, QuietHeld DEF Quiet
<1>7. CASE exit(p)
  <2>1. /\ UNCHANGED <<fds, readopen, writeopen, allocated>>
        /\ pc[p] = "user" /\ fds[p] = NoFds
    BY <1>7 DEF exit, fileVars, pipeVars
  <2>2. \A r \in Procs : pc'[r] = IF r = p THEN "none" ELSE pc[r]
    BY <1>7 DEF exit, TypeOK
  <2> QED
    BY <2>1, <2>2 DEF Ends, Closing, Reading, Writing, NoFds
<1>8. ASSUME NEW d \in Ends, fileclose(p, d)
      PROVE  Held'
  <2>1. \A q \in Procs, e \in Ends :
            fds'[q][e] = IF q = p /\ e = d THEN fds[q][e] - 1 ELSE fds[q][e]
    BY <1>8 DEF fileclose, TypeOK
  <2>2. /\ pc[p] = "user" /\ fds[p][d] > 0 /\ ref'[d] = ref[d] - 1
        /\ UNCHANGED <<readopen, writeopen, allocated>>
    BY <1>8 DEF fileclose, pipeVars, TypeOK
  <2>3. \A q \in Procs : pc'[q] = IF q = p /\ ref[d] = 1 THEN Closing[d]
                                                         ELSE pc[q]
    BY <1>8 DEF fileclose, TypeOK
  <2>4. \A q \in Procs, e \in Ends : fds[q][e] \in Nat
    BY NOFILEAssumption DEF TypeOK
  <2>5. RefExact'
    BY <1>8, RefStep DEF Next, User
  <2>6. ref[d] = 1 <=> \A q \in Procs : fds'[q][d] = 0
    <3>1. ref[d] \in Nat
      BY DEF TypeOK
    <3>2. FdsTyped'
      <4>1. fds[p][d] - 1 \in 0 .. NOFILE
        BY <2>2, NOFILEAssumption DEF TypeOK
      <4>2. fds' = [fds EXCEPT ![p][d] = fds[p][d] - 1]
        BY <1>8 DEF fileclose
      <4> QED
        BY <4>1, <4>2 DEF FdsTyped, TypeOK
    <3>3. ZeroMeansNone'
      BY <2>5, <3>2, RefZero, PTL
    <3> QED
      BY <2>2, <3>1, <3>3 DEF ZeroMeansNone
  <2>7. CloserAlone'
    BY <2>1, <2>2, <2>3, <2>4, <2>6 DEF Ends, Closing
  <2>8. CallersHold'
    BY <2>1, <2>2, <2>3 DEF Ends, Closing, Reading, Writing
  <2>9. LiveWhileReferenced'
    BY <2>1, <2>2, <2>3, <2>4, <2>6 DEF Ends, Closing
  <2> QED
    BY <2>7, <2>8, <2>9
<1> QED
  BY <1>1, <1>2, <1>3, <1>4, <1>5, <1>6, <1>7, <1>8 DEF User

LEMMA CloseHeld ==
    ASSUME IInv, NEW p \in Procs, pipecloseReadEnd(p) \/ pipecloseWriteEnd(p)
    PROVE  Held'
<1> USE DEF IInv, Held, CloserAlone, CallersHold, LiveWhileReferenced
<1>1. CASE pipecloseReadEnd(p)
  <2>1. /\ pc[p] = "closeR" /\ ~readopen' /\ writeopen' = writeopen
        /\ allocated' = writeopen /\ fds' = fds
    BY <1>1 DEF pipecloseReadEnd, fileVars
  <2>2. \A q \in Procs : pc'[q] = IF q = p THEN "user"
                                  ELSE IF pc[q] = "asleepW" THEN "write"
                                  ELSE pc[q]
    BY <1>1 DEF pipecloseReadEnd, WakeWriters, TypeOK
  <2>3. \A q \in Procs : fds[q]["r"] = 0 /\ (pc[q] = "closeR" => q = p)
    BY <2>1 DEF Closing, Ends
  <2> QED
    BY <2>1, <2>2, <2>3 DEF Ends, Closing, Reading, Writing
<1>2. CASE pipecloseWriteEnd(p)
  <2>1. /\ pc[p] = "closeW" /\ ~writeopen' /\ readopen' = readopen
        /\ allocated' = readopen /\ fds' = fds
    BY <1>2 DEF pipecloseWriteEnd, fileVars
  <2>2. \A q \in Procs : pc'[q] = IF q = p THEN "user"
                                  ELSE IF pc[q] = "asleepR" THEN "read"
                                  ELSE pc[q]
    BY <1>2 DEF pipecloseWriteEnd, WakeReaders, TypeOK
  <2>3. \A q \in Procs : fds[q]["w"] = 0 /\ (pc[q] = "closeW" => q = p)
    BY <2>1 DEF Closing, Ends
  <2> QED
    BY <2>1, <2>2, <2>3 DEF Ends, Closing, Reading, Writing
<1> QED
  BY <1>1, <1>2

LEMMA HeldStep ==
    ASSUME IInv, Next
    PROVE  Held'
BY QuietHeld, UserHeld, CloseHeld DEF Next, Kernel, Quiet, pipewrites

\* Sleepers, and those about to sleep, have found what they sleep for.
Waiting == DozersRight /\ NoLostWakeup /\ OneSideWaits

\* Facts about the state before a step, for the proofs below.
LEMMA WaitingNow ==
    ASSUME IInv
    PROVE  /\ pc \in [Procs -> Places]
           /\ Filled \in 0 .. PIPESIZE /\ PIPESIZE \in Nat /\ PIPESIZE > 0
           /\ nread = nwrite <=> Filled = 0
           /\ \A p \in Procs :
                 /\ pc[p] = "dozeR" => writeopen /\ Filled = 0
                 /\ pc[p] = "dozeW" => Filled = PIPESIZE /\ readopen
                 /\ pc[p] = "asleepR" => writeopen /\ (Filled = 0 \/ deserted)
                 /\ pc[p] = "asleepW" => Filled = PIPESIZE /\ readopen
BY FilledAndRoom, PIPESIZEAssumption
   DEF IInv, TypeOK, Places, DozersRight, NoLostWakeup

\* A step after which TypeOK holds leaves everyone waiting rightly if it does
\* so in terms of Filled.
WaitingByFill ==
    /\ \A p, q \in Procs :
          pc[p] \in {"dozeR", "dozeW"} /\ pc[q] \in {"dozeR", "dozeW"} => p = q
    /\ \A p \in Procs :
          /\ pc[p] = "dozeR" => writeopen /\ Filled = 0
          /\ pc[p] = "dozeW" => Filled = PIPESIZE /\ readopen
          /\ pc[p] = "asleepR" => writeopen /\ (Filled = 0 \/ deserted)
          /\ pc[p] = "asleepW" => Filled = PIPESIZE /\ readopen
    /\ OneSideWaits

LEMMA ByFill == TypeOK /\ WaitingByFill => Waiting
BY FilledAndRoom
   DEF WaitingByFill, Waiting, DozersRight, NoLostWakeup

LEMMA FillBy == TypeOK /\ Waiting => WaitingByFill
BY FilledAndRoom
   DEF WaitingByFill, Waiting, DozersRight, NoLostWakeup

\* pipewrite, inside which nobody else is about to sleep.
LEMMA WriteWaiting ==
    ASSUME IInv, NEW p \in Procs, pipewrites(p)
    PROVE  WaitingByFill'
<1> DEFINE k == Fits(rest[p])
<1>1. /\ k \in Nat /\ k <= PIPESIZE - Filled
      /\ Len(rest[p]) > Room => k = PIPESIZE - Filled
      /\ Filled \in 0 .. PIPESIZE /\ PIPESIZE \in Nat /\ PIPESIZE > 0
      /\ Filled' = Filled + k
  BY FitsFacts, WriteStores, WaitingNow DEF IInv
<1>2. pc[p] = "write" /\ \A q \in Procs : pc[q] \notin {"dozeR", "dozeW"}
  BY DEF pipewrites, pipewriteReturns, pipewriteFails, pipewriteBlocks, Unlocked
<1>3. pc \in [Procs -> Places] /\ UNCHANGED <<readopen, writeopen>>
  BY WaitingNow
     DEF pipewrites, pipewriteReturns, pipewriteFails, pipewriteBlocks
<1>4. WaitingByFill
  BY FillBy DEF IInv, Waiting
<1>5. CASE pipewriteReturns(p)
  <2>1. \A q \in Procs : pc'[q] = IF q = p THEN "user"
                                  ELSE IF pc[q] = "asleepR" THEN "read"
                                  ELSE pc[q]
    BY <1>3, <1>5 DEF pipewriteReturns, WakeReaders
  <2>2. \A q \in Procs : pc'[q] \notin {"dozeR", "dozeW", "asleepR"}
    BY <1>2, <2>1
  <2> HIDE DEF k
  <2>3. \A q \in Procs : pc'[q] = "asleepW" => Filled' = PIPESIZE /\ readopen'
    BY <1>1, <1>3, <1>4, <2>1 DEF WaitingByFill
  <2> QED
    BY <2>2, <2>3 DEF WaitingByFill, OneSideWaits
<1>6. CASE pipewriteFails(p)
  <2>1. \A q \in Procs : pc'[q] = IF q = p THEN "user" ELSE pc[q]
    BY <1>3, <1>6 DEF pipewriteFails
  <2>2. deserted' <=> (deserted \/ k > 0)
    BY <1>6 DEF pipewriteFails
  <2> HIDE DEF k
  <2>3. \A q \in Procs :
          /\ pc'[q] = "asleepW" => Filled' = PIPESIZE /\ readopen'
          /\ pc'[q] = "asleepR" => writeopen' /\ (Filled' = 0 \/ deserted')
    BY <1>1, <1>3, <1>4, <2>1, <2>2 DEF WaitingByFill
  <2> QED
    BY <1>2, <1>4, <2>1, <2>3 DEF WaitingByFill, OneSideWaits
<1>7. CASE pipewriteBlocks(p)
  <2>1. \A q \in Procs : pc'[q] = IF q = p THEN "dozeW"
                                  ELSE IF pc[q] = "asleepR" THEN "read"
                                  ELSE pc[q]
    BY <1>3, <1>7 DEF pipewriteBlocks, WakeReaders
  <2>2. readopen /\ k = PIPESIZE - Filled
    BY <1>1, <1>7 DEF pipewriteBlocks
  <2> HIDE DEF k
  <2> QED
    BY <1>1, <1>2, <1>3, <1>4, <2>1, <2>2 DEF WaitingByFill, OneSideWaits
<1> QED
  BY <1>5, <1>6, <1>7 DEF pipewrites

LEMMA ReadWaiting ==
    ASSUME IInv, NEW p \in Procs,
           pipereadReturns(p) \/ pipereadFails(p) \/ pipereadBlocks(p) \/ sleep(p)
    PROVE  WaitingByFill'
<1>1. WaitingByFill
  BY FillBy DEF IInv, Waiting
<1>2. pc \in [Procs -> Places] /\ UNCHANGED <<readopen, writeopen, deserted>>
  BY WaitingNow
     DEF pipereadReturns, pipereadFails, pipereadBlocks, sleep, pipeVars
<1>3. Filled \in 0 .. PIPESIZE /\ PIPESIZE \in Nat /\ PIPESIZE > 0
        /\ (nread = nwrite <=> Filled = 0)
  BY WaitingNow
<1>4. CASE pipereadReturns(p)
  <2> DEFINE k == Got(want[p])
  <2>1. k \in Nat /\ k <= Filled /\ Filled' = Filled - k
    BY <1>4, ReadTakes DEF IInv
  <2>2. /\ pc[p] = "read" /\ ~(Filled = 0 /\ writeopen)
        /\ \A q \in Procs : pc[q] \notin {"dozeR", "dozeW"}
    BY <1>3, <1>4 DEF pipereadReturns, MustWait, Unlocked
  <2>3. \A q \in Procs : pc'[q] = IF q = p THEN "user"
                                  ELSE IF pc[q] = "asleepW" THEN "write"
                                  ELSE pc[q]
    BY <1>2, <1>4 DEF pipereadReturns, WakeWriters
  <2> HIDE DEF k
  <2> QED
    BY <1>1, <1>2, <1>3, <2>1, <2>2, <2>3 DEF WaitingByFill, OneSideWaits
<1>5. CASE pipereadFails(p)
  <2>1. /\ pc[p] = "read" /\ Filled' = Filled
        /\ \A q \in Procs : pc'[q] = IF q = p THEN "user" ELSE pc[q]
    BY <1>2, <1>5 DEF pipereadFails, pipeVars, Filled
  <2> QED
    BY <1>1, <1>2, <2>1 DEF WaitingByFill, OneSideWaits
<1>6. CASE pipereadBlocks(p)
  <2>1. /\ pc[p] = "read" /\ Filled' = Filled
        /\ \A q \in Procs : pc'[q] = IF q = p THEN "dozeR" ELSE pc[q]
    BY <1>2, <1>6 DEF pipereadBlocks, pipeVars, Filled
  <2>2. /\ Filled = 0 /\ writeopen
        /\ \A q \in Procs : pc[q] \notin {"dozeR", "dozeW"}
    BY <1>3, <1>6 DEF pipereadBlocks, MustWait, Unlocked
  <2> QED
    BY <1>1, <1>2, <1>3, <2>1, <2>2 DEF WaitingByFill, OneSideWaits
<1>7. CASE sleep(p)
  <2>1. /\ Filled' = Filled
        /\ \/ /\ pc[p] = "dozeR"
              /\ \A q \in Procs : pc'[q] = IF q = p THEN "asleepR" ELSE pc[q]
           \/ /\ pc[p] = "dozeW"
              /\ \A q \in Procs : pc'[q] = IF q = p THEN "asleepW" ELSE pc[q]
    BY <1>2, <1>7 DEF sleep, pipeVars, Filled
  <2> QED
    BY <1>1, <1>2, <2>1 DEF WaitingByFill, OneSideWaits
<1> QED
  BY <1>4, <1>5, <1>6, <1>7

LEMMA CloseWaiting ==
    ASSUME IInv, NEW p \in Procs, pipecloseReadEnd(p) \/ pipecloseWriteEnd(p)
    PROVE  WaitingByFill'
<1>1. WaitingByFill
  BY FillBy DEF IInv, Waiting
<1>2. pc \in [Procs -> Places] /\ Filled' = Filled
        /\ \A q \in Procs : pc[q] \notin {"dozeR", "dozeW"}
  BY WaitingNow DEF pipecloseReadEnd, pipecloseWriteEnd, Unlocked, Filled
<1>3. CASE pipecloseReadEnd(p)
  <2>1. writeopen' = writeopen /\ deserted' = deserted
    BY <1>3 DEF pipecloseReadEnd
  <2>2. \A q \in Procs : pc'[q] = IF q = p THEN "user"
                                  ELSE IF pc[q] = "asleepW" THEN "write"
                                  ELSE pc[q]
    BY <1>2, <1>3 DEF pipecloseReadEnd, WakeWriters
  <2> QED
    BY <1>1, <1>2, <2>1, <2>2 DEF WaitingByFill, OneSideWaits
<1>4. CASE pipecloseWriteEnd(p)
  <2>1. readopen' = readopen
    BY <1>4 DEF pipecloseWriteEnd
  <2>2. \A q \in Procs : pc'[q] = IF q = p THEN "user"
                                  ELSE IF pc[q] = "asleepR" THEN "read"
                                  ELSE pc[q]
    BY <1>2, <1>4 DEF pipecloseWriteEnd, WakeReaders
  <2> QED
    BY <1>1, <1>2, <2>1, <2>2 DEF WaitingByFill, OneSideWaits
<1> QED
  BY <1>3, <1>4

LEMMA UserWaiting ==
    ASSUME IInv, NEW p \in Procs, User(p)
    PROVE  WaitingByFill'
<1> DEFINE Waits == {"dozeR", "dozeW", "asleepR", "asleepW"}
<1>1. WaitingByFill
  BY FillBy DEF IInv, Waiting
<1>2. pc \in [Procs -> Places]
  BY WaitingNow
<1>3. CASE pipealloc(p)
  <2>1. pc' = pc /\ ~allocated
    BY <1>3 DEF pipealloc
  <2>2. \A q \in Procs : pc[q] \notin Reading /\ pc[q] \notin Writing
    BY <2>1 DEF IInv, CallersHold, LiveWhileReferenced
  <2> QED
    BY <2>1, <2>2 DEF WaitingByFill, OneSideWaits, Reading, Writing
<1>4. CASE ~pipealloc(p)
  <2>1. Filled' = Filled /\ UNCHANGED <<readopen, writeopen, deserted>>
    BY <1>4 DEF User, callWrite, callRead, dup, fork, fileclose, kill, exit,
                pipeVars, Filled
  <2>2. \A q \in Procs : pc'[q] \in Waits => pc'[q] = pc[q]
    BY <1>2, <1>4 DEF User, callWrite, callRead, dup, fork, fileclose, kill,
                      exit, Closing, Ends
  <2> QED
    BY <1>1, <2>1, <2>2 DEF WaitingByFill, OneSideWaits
<1> QED
  BY <1>3, <1>4

LEMMA WaitingStep ==
    ASSUME IInv, Next, TypeOK'
    PROVE  Waiting'
<1>1. WaitingByFill'
  BY WriteWaiting, ReadWaiting, CloseWaiting, UserWaiting
     DEF Next, Kernel, pipewrites
<1> QED
  BY <1>1, ByFill, PTL

\* Every step keeps the types.
LEMMA TypeStep ==
    ASSUME IInv, Next
    PROVE  TypeOK'
<1>1. TypeOK /\ pc \in [Procs -> Places]
  BY WaitingNow DEF IInv
<1>3. ASSUME NEW p \in Procs, pipewrites(p)
      PROVE  TypeOK'
  <2>1. pc' \in [Procs -> Places]
    BY <1>3, QuietPlaces DEF Quiet
  <2>2. Filled' <= PIPESIZE
    BY <1>1, <1>3, WriteStores, FitsFacts, WaitingNow
  <2>3. deserted' \in BOOLEAN
    BY <1>1, <1>3 DEF pipewrites, pipewriteReturns, pipewriteFails,
                      pipewriteBlocks, TypeOK
  <2>4. UNCHANGED <<readopen, writeopen, allocated, ref, fds, want, killed, last>>
    BY <1>3 DEF pipewrites, pipewriteReturns, pipewriteFails, pipewriteBlocks,
                fileVars
  <2> QED
    BY <1>1, <1>3, <2>1, <2>2, <2>3, <2>4, WriteStores DEF TypeOK, Places
<1>4. ASSUME NEW p \in Procs, pipereadReturns(p)
      PROVE  TypeOK'
  <2>1. pc' \in [Procs -> Places]
    BY <1>4, QuietPlaces DEF Quiet
  <2>2. Filled' <= PIPESIZE
    BY <1>1, <1>4, ReadTakes, WaitingNow
  <2>3. want' \in [Procs -> ReadSizes \cup {0}]
    BY <1>1, <1>4 DEF pipereadReturns, TypeOK
  <2>4. UNCHANGED <<data, readopen, writeopen, allocated, ref, fds, rest, killed,
                    deserted>>
    BY <1>4 DEF pipereadReturns, fileVars
  <2> QED
    BY <1>1, <1>4, <2>1, <2>2, <2>3, <2>4, ReadTakes DEF TypeOK, Places
<1>5. ASSUME NEW p \in Procs, pipereadFails(p) \/ pipereadBlocks(p) \/ sleep(p)
      PROVE  TypeOK'
  <2>1. pc' \in [Procs -> Places]
    BY <1>5, QuietPlaces DEF Quiet
  <2> QED
    BY <1>1, <1>5, <2>1 DEF TypeOK, Places, pipereadFails, pipereadBlocks,
                            sleep, pipeVars, fileVars, callVars, Filled
<1>6. ASSUME NEW p \in Procs, pipecloseReadEnd(p) \/ pipecloseWriteEnd(p)
      PROVE  TypeOK'
  <2>1. pc' \in [Procs -> Places]
    BY <1>1, <1>6 DEF pipecloseReadEnd, pipecloseWriteEnd, WakeReaders,
                      WakeWriters, Places, Reading, Writing
  <2> QED
    BY <1>1, <1>6, <2>1 DEF TypeOK, Places, pipecloseReadEnd,
                            pipecloseWriteEnd, fileVars, callVars, Filled
<1>7. ASSUME NEW p \in Procs, pipealloc(p)
      PROVE  TypeOK'
  <2>1. nread' = 0 /\ nwrite' = 0
    BY <1>7 DEF pipealloc
  <2>2. Filled' = 0
    <3>1. UINT \in Nat /\ UINT > 0
      BY UINTAssumption, PIPESIZEAssumption
    <3>2. 0 % UINT = 0
      BY <3>1, ModOneTurn
    <3>3. Filled' = (0 - 0) % UINT
      BY <2>1 DEF Filled
    <3> QED
      BY <3>2, <3>3
  <2>3. /\ fds' \in [Procs -> [Ends -> 0 .. NOFILE]]
        /\ ref' \in [Ends -> Nat]
        /\ data' \in [Index -> Byte]
    BY <1>1, <1>7, NOFILEAssumption, JunkAssumption DEF pipealloc, TypeOK
  <2>4. nread' \in 0 .. UINT - 1 /\ nwrite' \in 0 .. UINT - 1
          /\ Filled' <= PIPESIZE
    BY <2>1, <2>2, UINTAssumption, PIPESIZEAssumption
  <2>5. /\ readopen' \in BOOLEAN /\ writeopen' \in BOOLEAN
        /\ allocated' \in BOOLEAN /\ deserted' \in BOOLEAN
        /\ UNCHANGED <<pc, rest, want, killed, last>>
    BY <1>7 DEF pipealloc, callVars
  <2> QED
    BY <1>1, <2>3, <2>4, <2>5 DEF TypeOK
<1>8. ASSUME NEW p \in Procs, NEW s \in Strings, callWrite(p, s)
      PROVE  TypeOK'
  <2>1. s \in Seq(Byte)
    BY StringsAssumption
  <2>2. /\ pc' \in [Procs -> Places]
        /\ rest' \in [Procs -> Seq(Byte)]
    BY <1>1, <1>8, <2>1 DEF callWrite, TypeOK, Places, Writing
  <2> QED
    BY <1>1, <1>8, <2>2 DEF TypeOK, Places, callWrite, pipeVars, fileVars, Filled
<1>9. ASSUME NEW p \in Procs, NEW k \in ReadSizes, callRead(p, k)
      PROVE  TypeOK'
  <2>1. /\ pc' \in [Procs -> Places]
        /\ want' \in [Procs -> ReadSizes \cup {0}]
    BY <1>1, <1>9 DEF callRead, TypeOK, Places, Reading
  <2> QED
    BY <1>1, <1>9, <2>1 DEF TypeOK, Places, callRead, pipeVars, fileVars, Filled
<1>10. ASSUME NEW p \in Procs, NEW e \in Ends, dup(p, e)
       PROVE  TypeOK'
  <2>1. \A q \in Procs : fds[q] \in [Ends -> 0 .. NOFILE]
    BY <1>1 DEF TypeOK
  <2>2. fds[p]["r"] \in Nat /\ fds[p]["w"] \in Nat
    BY <2>1, NOFILEAssumption DEF Ends
  <2>3. fds[p][e] + 1 \in 0 .. NOFILE
    BY <1>10, <2>2, NOFILEAssumption DEF dup, Ends
  <2>4. fds' = [fds EXCEPT ![p][e] = fds[p][e] + 1] /\ ref[e] \in Nat
          /\ ref' = [ref EXCEPT ![e] = ref[e] + 1]
    BY <1>1, <1>10 DEF dup, TypeOK
  <2>5. fds' \in [Procs -> [Ends -> 0 .. NOFILE]] /\ ref' \in [Ends -> Nat]
    BY <1>1, <2>3, <2>4 DEF TypeOK
  <2> QED
    BY <1>1, <1>10, <2>5 DEF TypeOK, dup, pipeVars, callVars, Filled
<1>11. ASSUME NEW p \in Procs, NEW e \in Ends, fileclose(p, e)
       PROVE  TypeOK'
  <2>1. fds[p][e] - 1 \in 0 .. NOFILE
    BY <1>1, <1>11, NOFILEAssumption DEF fileclose, TypeOK
  <2>2. ref[e] - 1 \in Nat
    <3>1. ref[e] # 0 /\ ref[e] \in Nat
      BY <1>1, <1>11, RefZero
         DEF IInv, ZeroMeansNone, FdsTyped, TypeOK, fileclose
    <3> QED
      BY <3>1
  <2>3. fds' = [fds EXCEPT ![p][e] = fds[p][e] - 1]
          /\ ref' = [ref EXCEPT ![e] = ref[e] - 1]
    BY <1>11 DEF fileclose
  <2>4. fds' \in [Procs -> [Ends -> 0 .. NOFILE]] /\ ref' \in [Ends -> Nat]
    BY <1>1, <2>1, <2>2, <2>3 DEF TypeOK
  <2>5. pc' \in [Procs -> Places]
    BY <1>1, <1>11 DEF fileclose, Places, Closing, Ends
  <2> QED
    BY <1>1, <1>11, <2>4, <2>5 DEF TypeOK, Places, fileclose, pipeVars, callVars,
                                   Filled
<1>12. ASSUME NEW p \in Procs, NEW q \in Procs, fork(p, q)
       PROVE  TypeOK'
  <2>1. \A e \in Ends : ref[e] + fds[p][e] \in Nat
    BY <1>1, NOFILEAssumption DEF TypeOK
  <2>2. ref' \in [Ends -> Nat]
    BY <1>12, <2>1 DEF fork
  <2>3. fds' \in [Procs -> [Ends -> 0 .. NOFILE]] /\ pc' \in [Procs -> Places]
    BY <1>1, <1>12 DEF fork, TypeOK, Places
  <2> QED
    BY <1>1, <1>12, <2>2, <2>3 DEF TypeOK, Places, fork, pipeVars, callVars,
                                   Filled
<1>13. ASSUME NEW p \in Procs, (\E q \in Procs : kill(p, q)) \/ exit(p)
       PROVE  TypeOK'
  <2>1. pc' \in [Procs -> Places] /\ killed' \in [Procs -> BOOLEAN]
    BY <1>1, <1>13 DEF kill, exit, Places, Reading, Writing, TypeOK
  <2> QED
    BY <1>1, <1>13, <2>1 DEF TypeOK, Places, kill, exit, pipeVars, fileVars,
                             callVars, Filled
<1> QED
  BY <1>3, <1>4, <1>5, <1>6, <1>7, <1>8, <1>9, <1>10, <1>11, <1>12, <1>13
     DEF Next, Kernel, User, pipewrites

-----------------------------------------------------------------------------
(* The results *)

LEMMA InitInv == Init => IInv
<1> SUFFICES ASSUME Init PROVE IInv
  OBVIOUS
<1>1. PICK p \in Procs : pc = [q \in Procs |-> IF q = p THEN "user" ELSE "none"]
  BY DEF Init
<1>2. TypeOK
  <2>1. UINT \in Nat /\ UINT > 0 /\ PIPESIZE \in Nat
    BY UINTAssumption, PIPESIZEAssumption
  <2>2. 0 % UINT = 0
    BY <2>1, ModOneTurn
  <2>3. Filled = (0 - 0) % UINT
    BY DEF Init, Filled
  <2>4. Filled <= PIPESIZE /\ nread \in 0 .. UINT - 1 /\ nwrite \in 0 .. UINT - 1
    BY <2>1, <2>2, <2>3 DEF Init
  <2>5. pc \in [Procs -> {"none", "user", "closeR", "closeW"}
                           \cup Reading \cup Writing]
    BY <1>1
  <2>6. ref \in [Ends -> Nat] /\ fds \in [Procs -> [Ends -> 0 .. NOFILE]]
    BY NOFILEAssumption DEF Init, NoFds
  <2>7. data \in [Index -> Byte] /\ want \in [Procs -> ReadSizes \cup {0}]
    BY JunkAssumption DEF Init
  <2>8. rest \in [Procs -> Seq(Byte)] /\ last \in Seq(Byte)
    BY DEF Init
  <2>9. /\ readopen \in BOOLEAN /\ writeopen \in BOOLEAN
        /\ allocated \in BOOLEAN /\ deserted \in BOOLEAN
        /\ killed \in [Procs -> BOOLEAN]
    BY DEF Init
  <2> QED
    BY <2>4, <2>5, <2>6, <2>7, <2>8, <2>9 DEF TypeOK
<1>3. RefExact
  <2> SUFFICES ASSUME NEW e \in Ends PROVE ref[e] = Cardinality(Descriptors(e))
    BY DEF RefExact
  <2>1. Descriptors(e) = {}
    BY NOFILEAssumption DEF Descriptors, Init, NoFds
  <2> QED
    BY <2>1, FS_EmptySet DEF Init, NoFds
<1>4. \A q \in Procs : pc[q] \in {"user", "none"} /\ \A e \in Ends : fds[q][e] = 0
  BY <1>1 DEF Init, NoFds
<1>5. CloserAlone /\ CallersHold /\ LiveWhileReferenced
  BY <1>4 DEF Init, CloserAlone, CallersHold, LiveWhileReferenced, Closing, Ends,
              Reading, Writing
<1>6. DozersRight /\ NoLostWakeup /\ OneSideWaits
  BY <1>4 DEF DozersRight, NoLostWakeup, OneSideWaits
<1> QED
  BY <1>2, <1>3, <1>5, <1>6 DEF IInv

LEMMA NextInv == IInv /\ [Next]_vars => IInv'
<1> SUFFICES ASSUME IInv, [Next]_vars PROVE IInv'
  OBVIOUS
<1>1. CASE Next
  BY <1>1, TypeStep, RefStep, HeldStep, WaitingStep DEF IInv, Held, Waiting
<1>2. CASE UNCHANGED vars
  BY <1>2 DEF vars, pipeVars, fileVars, callVars, IInv, TypeOK, Filled, RefExact,
              Descriptors, CloserAlone, CallersHold, LiveWhileReferenced,
              DozersRight, NoLostWakeup, OneSideWaits
<1> QED
  BY <1>1, <1>2

LEMMA InvHolds == Spec => []IInv
BY InitInv, NextInv, PTL DEF Spec

\* The page of the pipe is there exactly while an end is open, and an end is
\* open exactly while someone has a descriptor of it or is closing it: the
\* reference counts of file.c are exact across dup, fork, close and exit.
THEOREM PipeIsConsistent == Spec => []PipeConsistent
<1>1. IInv => PipeConsistent
  BY DEF IInv, PipeConsistent
<1> QED
  BY <1>1, InvHolds, PTL

\* Nobody sleeps in piperead or pipewrite on a condition that holds, and no
\* reader and writer wait for each other.
THEOREM PipeSleepersAreWoken == Spec => []SleepersAreWoken
<1>1. IInv => SleepersAreWoken
  BY DEF IInv, SleepersAreWoken, NoMutualWait, OneSideWaits
<1> QED
  BY <1>1, InvHolds, PTL

-----------------------------------------------------------------------------
(* The pipe implements a channel *)

LEMMA ModAdd ==
    ASSUME NEW M \in Nat, M > 0, NEW a \in Int, NEW b \in Int
    PROVE  ((a % M) + b) % M = (a + b) % M
<1> DEFINE q == a \div M  r == a % M  c == r + b  q2 == c \div M  r2 == c % M
<1>1. a = M * q + r /\ q \in Int /\ r \in 0 .. M - 1
  OBVIOUS
<1>2. c \in Int
  BY <1>1
<1>3. c = M * q2 + r2 /\ q2 \in Int /\ r2 \in 0 .. M - 1
  BY <1>2
<1> HIDE DEF q, r, q2, r2
<1>4. M * (q + q2) = M * q + M * q2 /\ M * q \in Int /\ M * q2 \in Int
  BY <1>1, <1>3
<1>5. a + b = M * (q + q2) + r2
  BY <1>1, <1>3, <1>4
<1>6. (a + b) % M = r2
  <2> DEFINE t == q + q2  x == a + b
  <2>1. t \in Int /\ x \in Int /\ x = M * t + r2
    BY <1>1, <1>3, <1>5
  <2> HIDE DEF t, x
  <2>2. x % M = r2
    BY <1>3, <2>1, ModUnique
  <2> QED
    BY <2>2 DEF x
<1> QED
  BY <1>6 DEF r, r2

LEMMA ModOfMod ==
    ASSUME NEW P \in Nat, P > 0, NEW U \in Nat, U > 0, U % P = 0, NEW x \in Int
    PROVE  (x % U) % P = x % P
<1> DEFINE k == U \div P  q == x \div U  r == x % U  q2 == r \div P  s == r % P
<1>1. U = P * k /\ k \in Int
  <2>1. U = P * (U \div P) + (U % P) /\ U \div P \in Int
    OBVIOUS
  <2> QED
    BY <2>1
<1>2. x = U * q + r /\ q \in Int /\ r \in 0 .. U - 1
  OBVIOUS
<1>3. r = P * q2 + s /\ q2 \in Int /\ s \in 0 .. P - 1
  BY <1>2
<1> HIDE DEF k, q, r, q2, s
<1>4. x = (P * k) * q + (P * q2 + s)
  BY <1>1, <1>2, <1>3
<1>5. k * q + q2 \in Int /\ (P * k) * q + (P * q2 + s) = P * (k * q + q2) + s
  BY <1>1, <1>2, <1>3
<1>6. x % P = s
  BY <1>3, <1>4, <1>5, ModUnique
<1> QED
  BY <1>6 DEF r, s

\* Consecutive numbers, fewer than P of them, differ modulo P.
LEMMA ModApart ==
    ASSUME NEW P \in Nat, P > 0, NEW x \in Int,
           NEW i \in 0 .. P - 1, NEW j \in 0 .. P - 1,
           (x + i) % P = (x + j) % P
    PROVE  i = j
<1> DEFINE s == (x + i) % P  q == (x + i) \div P  t == (x + j) \div P
<1>1. x + i = P * q + s /\ q \in Int /\ s \in 0 .. P - 1
  OBVIOUS
<1>2. x + j = P * t + s /\ t \in Int
  <2>1. x + j = P * ((x + j) \div P) + ((x + j) % P) /\ (x + j) \div P \in Int
    OBVIOUS
  <2> QED
    BY <2>1
<1> HIDE DEF s, q, t
<1>3. i - j = P * (q - t)
  BY <1>1, <1>2
<1>4. q - t < 1
  <2>1. q - t >= 1 => P * (q - t) >= P
    BY <1>1, <1>2
  <2> QED
    BY <1>1, <1>2, <1>3, <2>1
<1>5. q - t > -1
  <2>1. q - t <= -1 => P * (q - t) <= -P
    BY <1>1, <1>2
  <2> QED
    BY <1>1, <1>2, <1>3, <2>1
<1> QED
  BY <1>1, <1>2, <1>3, <1>4, <1>5

\* Where the byte i places after the next one to be read is.
Pos(i) == ((nread + i) % UINT) % PIPESIZE

LEMMA Positions ==
    ASSUME TypeOK
    PROVE  /\ \A i \in Nat : Pos(i) \in Index
           /\ \A i, j \in 0 .. PIPESIZE - 1 : Pos(i) = Pos(j) => i = j
           /\ \A j \in Nat \ {0} : Slot(j) = Pos(Filled + j - 1)
<1>1. /\ UINT \in Nat /\ UINT > 0 /\ PIPESIZE \in Nat /\ PIPESIZE > 0
      /\ UINT > PIPESIZE /\ UINT % PIPESIZE = 0
      /\ nread \in 0 .. UINT - 1 /\ nwrite \in 0 .. UINT - 1
      /\ Filled \in 0 .. PIPESIZE
  BY UINTAssumption, PIPESIZEAssumption, FilledAndRoom DEF TypeOK
<1>2. ASSUME NEW i \in Nat
      PROVE  Pos(i) = (nread + i) % PIPESIZE /\ Pos(i) \in Index
  <2>1. nread + i \in Int
    BY <1>1
  <2>2. Pos(i) = (nread + i) % PIPESIZE
    BY <1>1, <2>1, ModOfMod DEF Pos
  <2> QED
    BY <1>1, <2>1, <2>2, ModRange DEF Index
<1>3. ASSUME NEW i \in 0 .. PIPESIZE - 1, NEW j \in 0 .. PIPESIZE - 1,
             Pos(i) = Pos(j)
      PROVE  i = j
  <2>1. (nread + i) % PIPESIZE = (nread + j) % PIPESIZE
    BY <1>1, <1>2, <1>3
  <2> QED
    BY <1>1, <2>1, ModApart
<1>4. nwrite = (nread + Filled) % UINT
  <2>1. nread + Filled \in {nwrite, nwrite + UINT}
    BY <1>1, FilledAndRoom
  <2> QED
    BY <1>1, <2>1, ModOneTurn
<1>5. ASSUME NEW j \in Nat \ {0}
      PROVE  Slot(j) = Pos(Filled + j - 1)
  <2> DEFINE a == nread + Filled  b == j - 1
  <2>1. a \in Int /\ b \in Int
    BY <1>1
  <2>2. nwrite + j - 1 = (a % UINT) + b /\ nread + (Filled + j - 1) = a + b
    BY <1>1, <1>4
  <2>3. ((a % UINT) + b) % UINT = (a + b) % UINT
    BY <1>1, <2>1, ModAdd
  <2> HIDE DEF a, b
  <2> QED
    BY <2>2, <2>3 DEF Slot, Pos
<1> QED
  BY <1>2, <1>3, <1>5

LEMMA BytesFacts ==
    ASSUME TypeOK, NEW k \in 0 .. PIPESIZE
    PROVE  /\ Bytes(k) \in Seq(Byte) /\ Len(Bytes(k)) = k
           /\ \A j \in 1 .. k : Bytes(k)[j] = data[Pos(j - 1)]
<1>1. k \in Nat /\ nread \in Int
  BY PIPESIZEAssumption, UINTAssumption DEF TypeOK
<1>2. ASSUME NEW j \in 1 .. k
      PROVE  Bytes(k)[j] = data[Pos(j - 1)] /\ data[Pos(j - 1)] \in Byte
  <2>1. j - 1 \in Nat /\ nread + j - 1 = nread + (j - 1)
    BY <1>1
  <2>2. Pos(j - 1) \in Index
    BY <2>1, Positions
  <2>3. Bytes(k)[j] = data[((nread + j - 1) % UINT) % PIPESIZE]
    BY DEF Bytes
  <2> QED
    BY <2>1, <2>2, <2>3 DEF Pos, TypeOK
<1>3. Bytes(k) \in [1 .. k -> Byte]
  BY <1>2 DEF Bytes
<1> QED
  BY <1>1, <1>2, <1>3

\* What pipewrite stores comes after what was there.
LEMMA StoredLast ==
    ASSUME TypeOK, TypeOK', NEW p \in Procs, pipewrites(p)
    PROVE  /\ SubSeq(rest[p], 1, Fits(rest[p])) \in [1 .. Fits(rest[p]) -> Byte]
           /\ Bytes(Filled)'
                = Bytes(Filled) \o SubSeq(rest[p], 1, Fits(rest[p]))
<1> DEFINE k == Fits(rest[p])  s == SubSeq(rest[p], 1, k)
           old == Bytes(Filled)  new == Bytes(Filled)'
<1>1. /\ k \in Nat /\ k <= PIPESIZE - Filled /\ k <= Len(rest[p])
      /\ rest[p] \in Seq(Byte) /\ Len(rest[p]) \in Nat
      /\ Filled \in 0 .. PIPESIZE /\ PIPESIZE \in Nat
      /\ Filled' = Filled + k /\ nread' = nread
  BY FitsFacts, WriteStores, FilledAndRoom, PIPESIZEAssumption
<1>2. stores(rest[p])
  BY DEF pipewrites, pipewriteReturns, pipewriteFails, pipewriteBlocks
<1>3. /\ s \in Seq(Byte) /\ Len(s) = k
      /\ \A j \in 1 .. k : s[j] = rest[p][j] /\ s[j] \in Byte
  BY <1>1
<1>4. s \in [1 .. k -> Byte]
  BY <1>1, <1>3, LenProperties
<1>5. /\ old \in Seq(Byte) /\ Len(old) = Filled
      /\ \A j \in 1 .. Filled : old[j] = data[Pos(j - 1)]
  BY <1>1, BytesFacts
<1>6. /\ new \in Seq(Byte) /\ Len(new) = Filled + k
      /\ \A j \in 1 .. Filled + k : new[j] = data'[Pos(j - 1)]
  <2>1. /\ \A j \in 1 .. Filled + k :
              new[j] = data'[((nread + j - 1) % UINT) % PIPESIZE]
        /\ DOMAIN new = 1 .. Filled + k
        /\ new = [j \in 1 .. Filled + k |-> new[j]]
    BY <1>1 DEF Bytes
  <2>2. ASSUME NEW j \in 1 .. Filled + k
        PROVE  new[j] = data'[Pos(j - 1)] /\ new[j] \in Byte
    <3>1. j - 1 \in Nat /\ nread + j - 1 = nread + (j - 1)
      BY <1>1, UINTAssumption DEF TypeOK
    <3>2. Pos(j - 1) \in Index
      BY <3>1, Positions
    <3> QED
      BY <2>1, <3>1, <3>2 DEF Pos, TypeOK
  <2> HIDE DEF new, k
  <2>3. new \in [1 .. Filled + k -> Byte]
    BY <2>1, <2>2
  <2> QED
    BY <1>1, <2>2, <2>3
<1>7. ASSUME NEW j \in 1 .. Filled
      PROVE  data'[Pos(j - 1)] = data[Pos(j - 1)]
  <2>1. Pos(j - 1) \in Index
    BY <1>1, Positions
  <2>2. ~ \E i \in 1 .. k : Slot(i) = Pos(j - 1)
    <3> SUFFICES ASSUME NEW i \in 1 .. k PROVE Slot(i) # Pos(j - 1)
      OBVIOUS
    <3>1. Filled + i - 1 \in 0 .. PIPESIZE - 1 /\ j - 1 \in 0 .. PIPESIZE - 1
            /\ Filled + i - 1 # j - 1 /\ i \in Nat \ {0}
      BY <1>1
    <3> QED
      BY <3>1, Positions
  <2> HIDE DEF k
  <2> QED
    BY <1>2, <2>1, <2>2 DEF stores, k
<1>8. ASSUME NEW i \in 1 .. k
      PROVE  data'[Pos(Filled + i - 1)] = s[i]
  <2>1. i \in Nat \ {0} /\ Filled + i - 1 \in 0 .. PIPESIZE - 1
          /\ Filled + i - 1 \in Nat
    BY <1>1
  <2>2. Slot(i) = Pos(Filled + i - 1) /\ Pos(Filled + i - 1) \in Index
    BY <2>1, Positions
  <2>3. ASSUME NEW j \in 1 .. k, Slot(j) = Slot(i)
        PROVE  j = i
    <3>1. j \in Nat \ {0} /\ Filled + j - 1 \in 0 .. PIPESIZE - 1
      BY <1>1
    <3>2. Slot(j) = Pos(Filled + j - 1)
      BY <3>1, Positions
    <3>3. Filled + j - 1 = Filled + i - 1
      BY <2>1, <2>2, <2>3, <3>1, <3>2, Positions
    <3> QED
      BY <1>1, <3>3
  <2>4. (CHOOSE j \in 1 .. k : Slot(j) = Slot(i)) = i
    BY <2>3
  <2>5. data'[Slot(i)] = rest[p][CHOOSE j \in 1 .. k : Slot(j) = Slot(i)]
    BY <1>2, <2>2 DEF stores
  <2> QED
    BY <1>3, <2>2, <2>4, <2>5
<1>9. new = old \o s
  <2> HIDE DEF new, old, s, k
  <2>1. old \o s \in Seq(Byte) /\ Len(old \o s) = Filled + k
    BY <1>1, <1>3, <1>5
  <2>2. ASSUME NEW j \in 1 .. Filled + k
        PROVE  new[j] = (old \o s)[j]
    <3>1. (old \o s)[j] = IF j <= Filled THEN old[j] ELSE s[j - Filled]
      BY <1>1, <1>3, <1>5, ConcatProperties
    <3>2. CASE j <= Filled
      <4>1. j \in 1 .. Filled /\ (old \o s)[j] = old[j]
        BY <1>1, <3>1, <3>2
      <4>2. old[j] = data[Pos(j - 1)] /\ data'[Pos(j - 1)] = data[Pos(j - 1)]
        BY <1>5, <1>7, <4>1, Zenon
      <4>3. new[j] = data'[Pos(j - 1)]
        BY <1>6, Zenon
      <4> QED
        BY <4>1, <4>2, <4>3, Zenon
    <3>3. CASE ~(j <= Filled)
      <4>1. j - Filled \in 1 .. k /\ Filled + (j - Filled) - 1 = j - 1
        BY <1>1, <3>3
      <4>2. data'[Pos(j - 1)] = s[j - Filled]
        BY <1>8, <4>1
      <4> QED
        BY <1>1, <1>6, <3>1, <3>3, <4>2
    <3> QED
      BY <3>2, <3>3
  <2> QED
    BY <1>6, <2>1, <2>2, SeqEqual
<1> QED
  BY <1>4, <1>9

\* piperead returns the oldest bytes and leaves the others.
LEMMA TakenFirst ==
    ASSUME TypeOK, NEW p \in Procs, pipereadReturns(p)
    PROVE  /\ Got(want[p]) \in 0 .. PIPESIZE
           /\ Len(Bytes(Filled)) = Filled /\ Got(want[p]) <= Filled
           /\ last' = SubSeq(Bytes(Filled), 1, Got(want[p]))
           /\ Bytes(Filled)' = SubSeq(Bytes(Filled), Got(want[p]) + 1, Filled)
<1> DEFINE k == Got(want[p])  old == Bytes(Filled)  new == Bytes(Filled)'
<1>1. /\ k \in Nat /\ k <= Filled /\ Filled' = Filled - k
      /\ Filled \in 0 .. PIPESIZE /\ PIPESIZE \in Nat /\ PIPESIZE > 0
      /\ UINT \in Nat /\ UINT > 0 /\ nread \in 0 .. UINT - 1
      /\ nread' = (nread + k) % UINT
  <2>1. k \in Nat /\ k <= Filled /\ Filled' = Filled - k
    BY ReadTakes
  <2>2. Filled \in 0 .. PIPESIZE /\ PIPESIZE \in Nat /\ PIPESIZE > 0
    BY FilledAndRoom, PIPESIZEAssumption
  <2>3. UINT \in Nat /\ UINT > 0 /\ nread \in 0 .. UINT - 1
    BY PIPESIZEAssumption, UINTAssumption DEF TypeOK
  <2>4. nread' = (nread + k) % UINT
    BY DEF pipereadReturns
  <2> QED
    BY <2>1, <2>2, <2>3, <2>4
<1>2. data' = data /\ last' = Bytes(k)
  BY DEF pipereadReturns
<1>3. /\ old \in Seq(Byte) /\ Len(old) = Filled
      /\ \A j \in 1 .. Filled : old[j] = data[Pos(j - 1)] /\ old[j] \in Byte
  <2>1. /\ old \in Seq(Byte) /\ Len(old) = Filled
        /\ \A j \in 1 .. Filled : old[j] = data[Pos(j - 1)]
    BY <1>1, BytesFacts
  <2> QED
    BY <2>1, ElementOfSeq
<1>4. last' = SubSeq(old, 1, k)
  <2>1. /\ Bytes(k) \in Seq(Byte) /\ Len(Bytes(k)) = k
        /\ \A j \in 1 .. k : Bytes(k)[j] = data[Pos(j - 1)]
    BY <1>1, BytesFacts
  <2> HIDE DEF k, old
  <2>2. \A j \in 1 .. k : old[j] \in Byte
    BY <1>1, <1>3
  <2>3. /\ SubSeq(old, 1, k) \in Seq(Byte) /\ Len(SubSeq(old, 1, k)) = k
        /\ \A j \in 1 .. k : SubSeq(old, 1, k)[j] = old[j]
    BY <1>1, <1>3, <2>2
  <2>4. \A j \in 1 .. k : Bytes(k)[j] = SubSeq(old, 1, k)[j]
    BY <1>1, <1>3, <2>1, <2>3
  <2>5. Bytes(k) = SubSeq(old, 1, k)
    BY <2>1, <2>3, <2>4, SeqEqual
  <2> QED
    BY <1>2, <2>5
<1>5. new = SubSeq(old, k + 1, Filled)
  <2> DEFINE m == Filled - k  tail == SubSeq(old, k + 1, Filled)
  <2> HIDE DEF k, old
  <2>1. m \in Nat /\ Filled' = m
    BY <1>1
  <2>2. /\ new = [j \in 1 .. m |->
                   data[((((nread + k) % UINT) + (j - 1)) % UINT) % PIPESIZE]]
    <3>1. \A j \in 1 .. m : nread' + j - 1 = ((nread + k) % UINT) + (j - 1)
      BY <1>1
    <3> HIDE DEF m
    <3> QED
      BY <1>2, <2>1, <3>1 DEF Bytes
  <2>3. ASSUME NEW j \in 1 .. m
        PROVE  /\ new[j] = data[Pos(k + j - 1)]
               /\ tail[j] = old[k + j]
               /\ old[k + j] = data[Pos(k + j - 1)]
               /\ old[k + j] \in Byte
    <3>1. (((nread + k) % UINT) + (j - 1)) % UINT = (nread + (k + j - 1)) % UINT
      <4>1. nread + k \in Int /\ j - 1 \in Int
              /\ (nread + k) + (j - 1) = nread + (k + j - 1)
        BY <1>1, <2>1
      <4> QED
        BY <1>1, <4>1, ModAdd
    <3>2. new[j] = data[Pos(k + j - 1)]
      BY <2>2, <3>1 DEF Pos
    <3>3. k + j \in 1 .. Filled
      BY <1>1, <2>1
    <3>4. tail[j] = old[k + j]
      <4>1. /\ old \in Seq(Byte) /\ Len(old) = Filled /\ Filled \in Nat
            /\ k + 1 \in 1 .. Filled + 1 /\ j \in 1 .. Filled - (k + 1) + 1
            /\ (k + 1) + j - 1 = k + j
        BY <1>1, <1>3, <2>1
      <4>2. SubSeq(old, k + 1, Filled)[j] = old[(k + 1) + j - 1]
        BY <4>1, SubSeqProperties
      <4> QED
        BY <4>1, <4>2
    <3>5. old[k + j] = data[Pos((k + j) - 1)] /\ old[k + j] \in Byte
      BY <1>3, <3>3
    <3>6. (k + j) - 1 = k + j - 1
      BY <1>1, <2>1
    <3> QED
      BY <3>2, <3>4, <3>5, <3>6
  <2>4. tail \in Seq(Byte) /\ Len(tail) = m
    BY <1>1, <1>3, <2>1
  <2>5. new \in Seq(Byte) /\ Len(new) = m
    <3> HIDE DEF m
    <3>1. new \in [1 .. m -> Byte]
      BY <2>2, <2>3
    <3> QED
      BY <2>1, <3>1
  <2> HIDE DEF m, tail
  <2>6. new = tail
    BY <2>3, <2>4, <2>5, SeqEqual
  <2> QED
    BY <2>6 DEF tail
<1> QED
  BY <1>1, <1>3, <1>4, <1>5

\* Every step of the pipe is a step of the channel, or leaves it alone.
LEMMA StepRefines ==
    IInv /\ IInv' /\ [Next]_vars
        => [AbstractChannel!Next]_(AbstractChannel!channelVars)
<1> SUFFICES ASSUME IInv, IInv', [Next]_vars
             PROVE  AbstractChannel!Next \/ UNCHANGED <<contents, last>>
  BY DEF AbstractChannel!channelVars
<1> USE DEF AbstractChannel!Next
<1>1. TypeOK /\ TypeOK' /\ PIPESIZE \in Nat /\ PIPESIZE > 0
  BY PIPESIZEAssumption DEF IInv
<1>2. ASSUME NEW p \in Procs, pc[p] = "write" \/ pc[p] = "read"
      PROVE  allocated
  <2>1. fds[p]["w"] > 0 \/ fds[p]["r"] > 0
    BY <1>2 DEF IInv, CallersHold, Reading, Writing
  <2> QED
    BY <2>1 DEF IInv, LiveWhileReferenced
<1>3. ASSUME NEW p \in Procs, pipewrites(p)
      PROVE  AbstractChannel!Next \/ UNCHANGED <<contents, last>>
  <2> DEFINE k == Fits(rest[p])  s == SubSeq(rest[p], 1, k)
  <2>1. /\ allocated /\ allocated' /\ last' = last
    BY <1>2, <1>3 DEF pipewrites, pipewriteReturns, pipewriteFails,
                      pipewriteBlocks
  <2>2. contents = Bytes(Filled) /\ contents' = Bytes(Filled)'
    BY <2>1 DEF contents
  <2>3. s \in [1 .. k -> Byte] /\ contents' = contents \o s
    BY <1>1, <1>3, <2>2, StoredLast
  <2>4. k \in Nat /\ k <= PIPESIZE - Filled
    BY <1>1, FitsFacts
  <2>5. contents \in Seq(Byte) /\ Len(contents) = Filled
          /\ Filled \in 0 .. PIPESIZE
    BY <1>1, <2>2, FilledAndRoom, BytesFacts
  <2> HIDE DEF k, s
  <2>6. s \in Seq(Byte) /\ Len(s) = k
    BY <2>3, <2>4
  <2>7. CASE k = 0
    <3>1. s = <<>>
      BY <2>6, <2>7
    <3>2. contents' = contents
      BY <2>3, <2>5, <3>1, ConcatEmptySeq
    <3> QED
      BY <2>1, <3>2
  <2>8. CASE k # 0
    <3>1. k \in 1 .. PIPESIZE /\ Len(contents) + Len(s) <= PIPESIZE
      BY <1>1, <2>4, <2>5, <2>6, <2>8
    <3>2. AbstractChannel!Put(s)
      BY <2>1, <2>3, <3>1 DEF AbstractChannel!Put
    <3> QED
      BY <2>3, <3>1, <3>2
  <2> QED
    BY <2>7, <2>8
<1>4. ASSUME NEW p \in Procs, pipereadReturns(p)
      PROVE  AbstractChannel!Next
  <2>1. allocated /\ allocated'
    BY <1>2, <1>4 DEF pipereadReturns
  <2>2. contents = Bytes(Filled) /\ contents' = Bytes(Filled)'
    BY <2>1 DEF contents
  <2>3. AbstractChannel!Take(Got(want[p])) /\ Got(want[p]) \in 0 .. PIPESIZE
    BY <1>1, <1>4, <2>2, TakenFirst DEF AbstractChannel!Take
  <2> QED
    BY <2>3
<1>5. ASSUME NEW p \in Procs, pipealloc(p)
      PROVE  AbstractChannel!Next
  <2>1. allocated' /\ nread' = 0 /\ nwrite' = 0 /\ last' = last
    BY <1>5 DEF pipealloc
  <2>2. Filled' = 0
    <3>1. Filled' = (0 - 0) % UINT /\ UINT \in Nat \ {0}
      BY <2>1, UINTAssumption, PIPESIZEAssumption DEF Filled
    <3> QED
      BY <3>1
  <2>3. contents' = <<>>
    BY <2>1, <2>2 DEF contents, Bytes
  <2> QED
    BY <2>1, <2>3 DEF AbstractChannel!Discard
<1>6. ASSUME NEW p \in Procs, pipecloseReadEnd(p) \/ pipecloseWriteEnd(p)
      PROVE  AbstractChannel!Next \/ UNCHANGED <<contents, last>>
  <2>1. data' = data /\ nread' = nread /\ nwrite' = nwrite /\ last' = last
    BY <1>6 DEF pipecloseReadEnd, pipecloseWriteEnd
  <2>2. allocated
    BY <1>6 DEF pipecloseReadEnd, pipecloseWriteEnd, IInv, LiveWhileReferenced
  <2>3. CASE allocated'
    BY <2>1, <2>2, <2>3 DEF contents, Bytes, Filled
  <2>4. CASE ~allocated'
    BY <2>1, <2>4 DEF contents, AbstractChannel!Discard
  <2> QED
    BY <2>3, <2>4
<1>7. ASSUME UNCHANGED <<pipeVars, last>>
      PROVE  UNCHANGED <<contents, last>>
  BY <1>7 DEF pipeVars, contents, Bytes, Filled
<1>8. CASE UNCHANGED vars
  BY <1>7, <1>8 DEF vars
<1>9. ASSUME NEW p \in Procs, Kernel(p)
      PROVE  AbstractChannel!Next \/ UNCHANGED <<contents, last>>
  <2>1. \/ pipewrites(p) \/ pipereadReturns(p)
        \/ pipecloseReadEnd(p) \/ pipecloseWriteEnd(p)
        \/ pipereadFails(p) \/ pipereadBlocks(p) \/ sleep(p)
    BY <1>9 DEF Kernel, pipewrites
  <2>2. pipereadFails(p) \/ pipereadBlocks(p) \/ sleep(p)
          => UNCHANGED <<pipeVars, last>>
    BY DEF pipereadFails, pipereadBlocks, sleep
  <2> QED
    BY <1>3, <1>4, <1>6, <1>7, <2>1, <2>2
<1>10. ASSUME NEW p \in Procs, User(p)
       PROVE  AbstractChannel!Next \/ UNCHANGED <<contents, last>>
  <2>1. pipealloc(p) \/ UNCHANGED <<pipeVars, last>>
    BY <1>10 DEF User, callWrite, callRead, dup, fileclose, fork, kill, exit
  <2> QED
    BY <1>5, <1>7, <2>1
<1> QED
  BY <1>8, <1>9, <1>10 DEF Next

\* A pipe is a bounded first-in first-out channel of bytes: readers get the
\* bytes in the order they were written, each once, although the counters
\* wrap and a write is split over several passes of pipewrite's loop.
THEOREM PipeImplementsChannel == Spec => Implements
<1>1. Init => AbstractChannel!Init
  BY DEF Init, AbstractChannel!Init, contents
<1> QED
  BY <1>1, InvHolds, StepRefines, PTL DEF Spec, Implements, AbstractChannel!Spec
=============================================================================
