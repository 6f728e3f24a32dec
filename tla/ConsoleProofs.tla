---------------------------- MODULE ConsoleProofs ----------------------------
(***************************************************************************)
(* Proofs about Console, for any readers, ring size, counter width, keys,  *)
(* characters and writes: nobody is stuck, no modifier is left over, the   *)
(* screen shows the line that is edited, and the ring implements Terminal. *)
(***************************************************************************)
EXTENDS Console, SequenceTheorems, WellFoundedInduction, TLAPS

\* Places of the ring, values of its counters, and what ends a read.
Index == 0 .. INPUT_BUF - 1
Counter == 0 .. UINT - 1
Ends == {NewLine, EndOfFile}

\* Characters of input that can be read, and of the line being edited.
ReadyLen == Minus(w, r)
LineLen == Minus(e, w)

\* What the variables that readers see can be.
TypeOK ==
    /\ buf \in [Index -> LineChars]
    /\ r \in Counter /\ w \in Counter /\ e \in Counter
    /\ pc \in [Readers -> {"user", "read", "doze", "asleep"}]
    /\ n \in [Readers -> Nat]
    /\ dst \in [Readers -> Seq(LineChars)]

\* The ring holds finished input and then the line, at most INPUT_BUF
\* characters; a full ring is all finished.
RingInv ==
    /\ ReadyLen + LineLen <= INPUT_BUF
    /\ ReadyLen + LineLen = INPUT_BUF => LineLen = 0

\* The line being edited is unfinished.
LineInv == \A j \in 1 .. LineLen : buf[Plus(w, j - 1) % INPUT_BUF] \notin Ends

\* A read goes on only while it wants more and has met no end of line.
ReadInv ==
    \A p \in Readers : pc[p] # "user" =>
        /\ n[p] > 0
        /\ \A i \in 1 .. Len(dst[p]) : dst[p][i] \notin Ends

\* Whoever sleeps, or is about to, has read all there is.
SleepInv == \A p \in Readers : pc[p] \in {"doze", "asleep"} => w = r

\* A modifier is on for a key that is held, or for the key whose bytes are
\* still on the wire.
Explained(m, key) ==
    \/ \E other \in held : m \in shiftcode(other)
    \/ m \in shiftcode(key)

\* The bytes of a key that kbdgetc has not taken: all, or all but the E0.
Sent(key, up) ==
    \/ /\ wire = KeyBytes(key, up)
       /\ "E0ESC" \notin shift
    \/ /\ wire = <<Byte(key.code, up)>>
       /\ key.ext /\ "E0ESC" \in shift

\* The modifiers agree with the keys.
KbdInv ==
    /\ held \subseteq AllKeys
    /\ \/ /\ wire = <<>>
          /\ "E0ESC" \notin shift
          /\ \A m \in {"CTL", "SHIFT"} :
                m \in shift => \E key \in held : m \in shiftcode(key)
       \/ \E key \in AllKeys, up \in BOOLEAN :
             /\ Sent(key, up)
             /\ ~up => key \in held
             /\ \A m \in {"CTL", "SHIFT"} : m \in shift => Explained(m, key)

\* The inductive invariant.
IInv == TypeOK /\ RingInv /\ LineInv /\ ReadInv /\ SleepInv /\ KbdInv
-----------------------------------------------------------------------------
(* Counters modulo UINT and places modulo INPUT_BUF *)

\* What % does to a number written as a quotient and a remainder.
LEMMA ModUnique ==
    ASSUME NEW M \in Nat, M > 0, NEW x \in Int, NEW q \in Int,
           NEW rem \in 0 .. M - 1, x = M * q + rem
    PROVE  x % M = rem
<1> DEFINE z == x \div M  y == x % M
<1>1. x = M * z + y /\ z \in Int /\ y \in 0 .. M - 1
  OBVIOUS
<1> HIDE DEF z, y
<1>2. y - rem = M * (q - z)
  BY <1>1
<1>3. q - z < 1
  <2>1. q - z >= 1 => M * (q - z) >= M
    BY <1>1
  <2> QED
    BY <1>1, <1>2, <2>1
<1>4. q - z > -1
  <2>1. q - z <= -1 => M * (q - z) <= -M
    BY <1>1
  <2> QED
    BY <1>1, <1>2, <2>1
<1>5. y = rem
  BY <1>1, <1>2, <1>3, <1>4
<1> QED
  BY <1>5 DEF y

\* A remainder is smaller than the modulus.
LEMMA ModRange ==
    ASSUME NEW M \in Nat, M > 0, NEW x \in Int
    PROVE  x % M \in 0 .. M - 1
OBVIOUS

\* One turn more or less.
LEMMA ModOneTurn ==
    ASSUME NEW M \in Nat, M > 0, NEW x \in Int
    PROVE  /\ x \in 0 .. M - 1 => x % M = x
           /\ x \in M .. 2 * M - 1 => x % M = x - M
           /\ x \in (-M) .. (-1) => x % M = x + M
<1>1. x \in 0 .. M - 1 => x % M = x
  OBVIOUS
<1>2. x \in M .. 2 * M - 1 => x % M = x - M
  OBVIOUS
<1>3. x \in (-M) .. (-1) => x % M = x + M
  OBVIOUS
<1> QED
  BY <1>1, <1>2, <1>3

\* A remainder may be taken before adding.
LEMMA ModAdd ==
    ASSUME NEW M \in Nat, M > 0, NEW a \in Int, NEW b \in Int
    PROVE  ((a % M) + b) % M = (a + b) % M
<1> DEFINE q == a \div M  rem == a % M  c == rem + b  q2 == c \div M  rem2 == c % M
<1>1. a = M * q + rem /\ q \in Int /\ rem \in 0 .. M - 1
  OBVIOUS
<1>2. c \in Int
  BY <1>1
<1>3. c = M * q2 + rem2 /\ q2 \in Int /\ rem2 \in 0 .. M - 1
  BY <1>2
<1> HIDE DEF q, rem, q2, rem2
<1>4. M * (q + q2) = M * q + M * q2 /\ M * q \in Int /\ M * q2 \in Int
  BY <1>1, <1>3
<1>5. a + b = M * (q + q2) + rem2
  BY <1>1, <1>3, <1>4
<1>6. (a + b) % M = rem2
  <2> DEFINE t == q + q2  x == a + b
  <2>1. t \in Int /\ x \in Int /\ x = M * t + rem2
    BY <1>1, <1>3, <1>5
  <2> HIDE DEF t, x
  <2>2. x % M = rem2
    BY <1>3, <2>1, ModUnique
  <2> QED
    BY <2>2 DEF x
<1> QED
  BY <1>6 DEF rem, rem2

\* A remainder may be taken twice when one modulus divides the other.
LEMMA ModOfMod ==
    ASSUME NEW P \in Nat, P > 0, NEW U \in Nat, U > 0, U % P = 0, NEW x \in Int
    PROVE  (x % U) % P = x % P
<1> DEFINE k == U \div P  q == x \div U  rem == x % U  q2 == rem \div P  s == rem % P
<1>1. U = P * k /\ k \in Int
  <2>1. U = P * (U \div P) + (U % P) /\ U \div P \in Int
    OBVIOUS
  <2> QED
    BY <2>1
<1>2. x = U * q + rem /\ q \in Int /\ rem \in 0 .. U - 1
  OBVIOUS
<1>3. rem = P * q2 + s /\ q2 \in Int /\ s \in 0 .. P - 1
  BY <1>2
<1> HIDE DEF k, q, rem, q2, s
<1>4. x = (P * k) * q + (P * q2 + s)
  BY <1>1, <1>2, <1>3
<1>5. k * q + q2 \in Int /\ (P * k) * q + (P * q2 + s) = P * (k * q + q2) + s
  BY <1>1, <1>2, <1>3
<1>6. x % P = s
  BY <1>3, <1>4, <1>5, ModUnique
<1> QED
  BY <1>6 DEF rem, s

\* Consecutive numbers, fewer than P of them, differ modulo P.
LEMMA ModApart ==
    ASSUME NEW P \in Nat, P > 0, NEW x \in Int,
           NEW i \in 0 .. P - 1, NEW j \in 0 .. P - 1,
           (x + i) % P = (x + j) % P
    PROVE  i = j
<1> DEFINE s == (x + i) % P  q == (x + i) \div P  t == (x + j) \div P
<1>1. x + i = P * q + s /\ q \in Int /\ s \in 0 .. P - 1
  OBVIOUS
<1>2. x + j = P * t + s /\ t \in Int
  <2>1. x + j = P * ((x + j) \div P) + ((x + j) % P) /\ (x + j) \div P \in Int
    OBVIOUS
  <2> QED
    BY <2>1
<1> HIDE DEF s, q, t
<1>3. i - j = P * (q - t)
  BY <1>1, <1>2
<1>4. q - t < 1
  <2>1. q - t >= 1 => P * (q - t) >= P
    BY <1>1, <1>2
  <2> QED
    BY <1>1, <1>2, <1>3, <2>1
<1>5. q - t > -1
  <2>1. q - t <= -1 => P * (q - t) <= -P
    BY <1>1, <1>2
  <2> QED
    BY <1>1, <1>2, <1>3, <2>1
<1> QED
  BY <1>1, <1>2, <1>3, <1>4, <1>5

\* The assumptions, as the provers need them.
LEMMA Sizes ==
    /\ UINT \in Nat /\ UINT > 0 /\ INPUT_BUF \in Nat /\ INPUT_BUF > 0
    /\ UINT > INPUT_BUF /\ UINT % INPUT_BUF = 0
    /\ Counter \subseteq Nat /\ Index \subseteq Nat
BY UINTAssumption, INPUT_BUFAssumption DEF Counter, Index

\* A counter moved on is a counter, at a place of the ring.
LEMMA PlusFacts ==
    ASSUME NEW i \in Nat, NEW k \in Int, i + k \in Int
    PROVE  /\ Plus(i, k) \in Counter
           /\ Plus(i, k) % INPUT_BUF \in Index
           /\ Plus(i, k) % INPUT_BUF = (i + k) % INPUT_BUF
<1>1. Plus(i, k) \in Counter
  BY Sizes, ModRange DEF Plus, Counter
<1>2. Plus(i, k) \in Int
  BY <1>1 DEF Counter
<1>3. Plus(i, k) % INPUT_BUF \in Index
  BY <1>2, Sizes, ModRange DEF Index
<1>4. Plus(i, k) % INPUT_BUF = (i + k) % INPUT_BUF
  BY Sizes, ModOfMod DEF Plus
<1> QED
  BY <1>1, <1>3, <1>4

\* Moved on twice.
LEMMA PlusPlus ==
    ASSUME NEW i \in Nat, NEW j \in Nat, NEW k \in Nat
    PROVE  Plus(Plus(i, j), k) = Plus(i, j + k)
<1>1. i + j \in Int /\ k \in Int /\ (i + j) + k = i + (j + k)
  OBVIOUS
<1>2. (((i + j) % UINT) + k) % UINT = ((i + j) + k) % UINT
  BY <1>1, Sizes, ModAdd
<1> QED
  BY <1>1, <1>2 DEF Plus

\* The distance of two counters, without %.
LEMMA Distance ==
    ASSUME NEW i \in Counter, NEW k \in Counter
    PROVE  /\ Minus(i, k) = IF k <= i THEN i - k ELSE i - k + UINT
           /\ Minus(i, k) \in Counter
           /\ Plus(k, Minus(i, k)) = i
           /\ Minus(i, k) = 0 <=> i = k
<1>1. i \in 0 .. UINT - 1 /\ k \in 0 .. UINT - 1 /\ UINT \in Nat /\ UINT > 0
  BY Sizes DEF Counter
<1>2. Minus(i, k) = IF k <= i THEN i - k ELSE i - k + UINT
  <2>1. i - k + UINT \in Int
    BY <1>1
  <2>2. CASE k <= i
    <3>1. i - k + UINT \in UINT .. 2 * UINT - 1
      BY <1>1, <2>2
    <3>2. (i - k + UINT) % UINT = (i - k + UINT) - UINT
      BY <1>1, <2>1, <3>1, ModOneTurn
    <3> QED
      BY <1>1, <2>2, <3>2 DEF Minus
  <2>3. CASE ~(k <= i)
    <3>1. i - k + UINT \in 0 .. UINT - 1
      BY <1>1, <2>3
    <3> QED
      BY <1>1, <2>1, <2>3, <3>1, ModOneTurn DEF Minus
  <2> QED
    BY <2>2, <2>3
<1>3. Minus(i, k) \in 0 .. UINT - 1
  BY <1>1, <1>2
<1>4. k + Minus(i, k) \in {i, i + UINT}
  BY <1>1, <1>2
<1>5. Plus(k, Minus(i, k)) = i
  BY <1>1, <1>4, ModOneTurn DEF Plus
<1> QED
  BY <1>1, <1>2, <1>3, <1>5 DEF Counter

\* Moved on by less than a turn, the distance is the move.
LEMMA DistanceMoved ==
    ASSUME NEW i \in Counter, NEW k \in Counter
    PROVE  Minus(Plus(i, k), i) = k
<1>1. i \in 0 .. UINT - 1 /\ k \in 0 .. UINT - 1 /\ UINT \in Nat /\ UINT > 0
  BY Sizes DEF Counter
<1>2. Plus(i, k) = IF i + k < UINT THEN i + k ELSE i + k - UINT
  BY <1>1, ModOneTurn DEF Plus
<1>3. Plus(i, k) \in Counter
  BY <1>1, <1>2 DEF Counter
<1>4. Minus(Plus(i, k), i) = IF i <= Plus(i, k) THEN Plus(i, k) - i
                                               ELSE Plus(i, k) - i + UINT
  BY <1>3, Distance
<1> QED
  BY <1>1, <1>2, <1>4

\* Moved on by j and by more, the distance is what is more.
LEMMA DistanceBetween ==
    ASSUME NEW i \in Counter, NEW j \in Nat, NEW k \in Counter, j <= k
    PROVE  Minus(Plus(i, k), Plus(i, j)) = k - j
<1>1. k - j \in Counter /\ j + (k - j) = k /\ i \in Nat /\ j \in Nat
        /\ k - j \in Nat
  BY Sizes DEF Counter
<1>2. Plus(i, j) \in Counter
  BY <1>1, PlusFacts
<1>3. Plus(Plus(i, j), k - j) = Plus(i, k)
  BY <1>1, PlusPlus
<1> QED
  BY <1>1, <1>2, <1>3, DistanceMoved

-----------------------------------------------------------------------------
(* What is in the ring *)

\* The place of the j-th character from counter i on.
Place(i, j) == Plus(i, j - 1) % INPUT_BUF

\* INPUT_BUF characters in a row have places of their own, over the wrap of the
\* counter too.
LEMMA Places ==
    ASSUME NEW i \in Counter
    PROVE  /\ \A j \in Nat \ {0} : Place(i, j) \in Index
           /\ \A j, k \in 1 .. INPUT_BUF : Place(i, j) = Place(i, k) => j = k
           /\ \A j \in Nat, k \in Nat \ {0} :
                 Place(Plus(i, j), k) = Place(i, j + k)
<1>1. i \in Nat
  BY Sizes
<1>2. ASSUME NEW j \in Nat \ {0}
      PROVE  Place(i, j) \in Index /\ Place(i, j) = (i + (j - 1)) % INPUT_BUF
  BY <1>1, PlusFacts DEF Place
<1>3. ASSUME NEW j \in 1 .. INPUT_BUF, NEW k \in 1 .. INPUT_BUF,
             Place(i, j) = Place(i, k)
      PROVE  j = k
  <2>1. j \in Nat \ {0} /\ k \in Nat \ {0} /\ j - 1 \in 0 .. INPUT_BUF - 1
          /\ k - 1 \in 0 .. INPUT_BUF - 1
    BY Sizes
  <2>2. (i + (j - 1)) % INPUT_BUF = (i + (k - 1)) % INPUT_BUF
    BY <1>2, <1>3, <2>1
  <2>3. j - 1 = k - 1
    BY <1>1, <2>1, <2>2, Sizes, ModApart
  <2> QED
    BY <2>1, <2>3
<1>4. ASSUME NEW j \in Nat, NEW k \in Nat \ {0}
      PROVE  Place(Plus(i, j), k) = Place(i, j + k)
  <2>1. k - 1 \in Nat /\ j + (k - 1) = (j + k) - 1
    OBVIOUS
  <2>2. Plus(Plus(i, j), k - 1) = Plus(i, (j + k) - 1)
    BY <1>1, <2>1, PlusPlus
  <2> QED
    BY <2>2 DEF Place
<1> QED
  BY <1>2, <1>3, <1>4

\* A slice of the ring is a sequence of characters.
LEMMA SliceFacts ==
    ASSUME TypeOK, NEW i \in Counter, NEW k \in Nat
    PROVE  /\ Slice(i, k) \in Seq(LineChars) /\ Len(Slice(i, k)) = k
           /\ \A j \in 1 .. k : /\ Slice(i, k)[j] = buf[Place(i, j)]
                               /\ Slice(i, k)[j] \in LineChars
<1>1. ASSUME NEW j \in 1 .. k
      PROVE  Slice(i, k)[j] = buf[Place(i, j)] /\ buf[Place(i, j)] \in LineChars
  <2>1. Place(i, j) \in Index
    BY Places
  <2> QED
    BY <2>1 DEF Slice, Place, TypeOK
<1>2. Slice(i, k) \in [1 .. k -> LineChars]
  BY <1>1 DEF Slice
<1> QED
  BY <1>1, <1>2

\* The counters as distances from r.
LEMMA Counters ==
    ASSUME TypeOK, RingInv
    PROVE  /\ ReadyLen \in Nat /\ LineLen \in Nat
           /\ ReadyLen + LineLen \in Counter
           /\ w = Plus(r, ReadyLen) /\ e = Plus(w, LineLen)
           /\ e = Plus(r, ReadyLen + LineLen)
           /\ Minus(e, r) = ReadyLen + LineLen
           /\ ReadyLen = 0 <=> w = r
<1>1. r \in Counter /\ w \in Counter /\ e \in Counter
  BY DEF TypeOK
<1>2. ReadyLen \in Counter /\ LineLen \in Counter
        /\ w = Plus(r, ReadyLen) /\ e = Plus(w, LineLen)
        /\ (ReadyLen = 0 <=> w = r)
  BY <1>1, Distance DEF ReadyLen, LineLen
<1>3. ReadyLen \in Nat /\ LineLen \in Nat /\ r \in Nat
  BY <1>1, <1>2, Sizes
<1>4. ReadyLen + LineLen \in Counter
  BY <1>3, Sizes DEF RingInv, Counter
<1>5. e = Plus(r, ReadyLen + LineLen)
  BY <1>2, <1>3, PlusPlus
<1> QED
  BY <1>1, <1>2, <1>3, <1>4, <1>5, DistanceMoved

\* Lengths are the distances of counters.
LEMMA Lengths ==
    ASSUME TypeOK, RingInv
    PROVE  /\ Ready \in Seq(LineChars) /\ Len(Ready) = ReadyLen
           /\ Line \in Seq(LineChars) /\ Len(Line) = LineLen
           /\ \A j \in 1 .. ReadyLen : /\ Ready[j] = buf[Place(r, j)]
                                     /\ Ready[j] \in LineChars
           /\ \A j \in 1 .. LineLen : /\ Line[j] = buf[Place(w, j)]
                                    /\ Line[j] \in LineChars
<1>1. r \in Counter /\ w \in Counter /\ ReadyLen \in Nat /\ LineLen \in Nat
  BY Counters DEF TypeOK
<1>2. Ready = Slice(r, ReadyLen) /\ Line = Slice(w, LineLen)
  BY DEF Ready, Line, ReadyLen, LineLen
<1> QED
  BY <1>1, <1>2, SliceFacts

\* consoleread takes the first k characters.
LEMMA TakesFirst ==
    ASSUME TypeOK, RingInv, NEW k \in Nat, k <= ReadyLen,
           r' = Plus(r, k), UNCHANGED <<buf, w, e>>
    PROVE  /\ r' \in Counter
           /\ ReadyLen' = ReadyLen - k /\ LineLen' = LineLen
           /\ Line' = Line
           /\ Ready' = SubSeq(Ready, k + 1, Len(Ready))
<1>1. /\ r \in Counter /\ r \in Nat /\ w = Plus(r, ReadyLen) /\ ReadyLen \in Nat
      /\ ReadyLen \in Counter
  BY Counters, Sizes, Distance DEF TypeOK, ReadyLen
<1>2. r' \in Counter
  BY <1>1, PlusFacts
<1>3. ReadyLen' = ReadyLen - k
  <2>1. Minus(Plus(r, ReadyLen), Plus(r, k)) = ReadyLen - k
    BY <1>1, DistanceBetween
  <2> QED
    BY <1>1, <2>1 DEF ReadyLen
<1>4. LineLen' = LineLen /\ Line' = Line
  BY DEF LineLen, Line, Slice
<1>5. /\ Ready \in Seq(LineChars) /\ Len(Ready) = ReadyLen
      /\ \A j \in 1 .. ReadyLen : /\ Ready[j] = buf[Place(r, j)]
                                /\ Ready[j] \in LineChars
  BY Lengths
<1> DEFINE m == ReadyLen - k  t == SubSeq(Ready, k + 1, Len(Ready))
<1>6. m \in Nat
  BY <1>1
<1>7. /\ Ready' \in Seq(LineChars) /\ Len(Ready') = m
      /\ \A j \in 1 .. m : Ready'[j] = buf[Place(r', j)]
  <2>1. Ready' = Slice(r', m)
    BY <1>3 DEF Ready, Slice, ReadyLen
  <2> HIDE DEF m
  <2> QED
    BY <1>2, <1>6, <2>1, SliceFacts
<1>8. t \in Seq(LineChars) /\ Len(t) = m
  BY <1>1, <1>5, <1>6
<1>9. ASSUME NEW j \in 1 .. m
      PROVE  Ready'[j] = t[j]
  <2>1. Place(r', j) = Place(r, k + j)
    BY <1>1, Places
  <2>2. k + j \in 1 .. ReadyLen
    BY <1>1
  <2>3. t[j] = Ready[k + j]
    BY <1>1, <1>5, <1>6, <2>2
  <2> QED
    BY <1>5, <1>7, <2>1, <2>2, <2>3
<1>10. Ready' = t
  <2> HIDE DEF m, t
  <2> QED
    BY <1>7, <1>8, <1>9, SeqEqual
<1> QED
  BY <1>2, <1>3, <1>4, <1>10

\* ^H and ^U take the last k characters of the line.
LEMMA ErasesLast ==
    ASSUME TypeOK, RingInv, NEW k \in Nat, k <= LineLen,
           e' = Minus(e, k), UNCHANGED <<buf, r, w>>
    PROVE  /\ e' \in Counter
           /\ ReadyLen' = ReadyLen /\ LineLen' = LineLen - k
           /\ Ready' = Ready
           /\ Line' = SubSeq(Line, 1, Len(Line) - k)
<1>1. /\ w \in Counter /\ w \in Nat /\ e \in Counter /\ LineLen \in Nat
      /\ LineLen \in Counter /\ e = Plus(w, LineLen)
  BY Counters, Sizes, Distance DEF TypeOK, LineLen
<1> DEFINE m == LineLen - k  t == SubSeq(Line, 1, Len(Line) - k)
<1>2. k \in Counter /\ m \in Counter /\ m \in Nat
  BY <1>1, Sizes DEF Counter
<1>3. e' = Plus(w, m)
  <2>1. Minus(e, k) = IF k <= e THEN e - k ELSE e - k + UINT
    BY <1>1, <1>2, Distance
  <2>2. LineLen = IF w <= e THEN e - w ELSE e - w + UINT
    BY <1>1, Distance DEF LineLen
  <2>3. w + m \in {Minus(e, k), Minus(e, k) + UINT} /\ Minus(e, k) \in 0 .. UINT - 1
    BY <1>1, <1>2, <2>1, <2>2, Sizes DEF Counter
  <2>4. (w + m) % UINT = Minus(e, k)
    <3>1. UINT \in Nat /\ UINT > 0 /\ w + m \in Int
      BY <1>1, <1>2, Sizes
    <3> HIDE DEF m
    <3> QED
      BY <2>3, <3>1, ModOneTurn
  <2> QED
    BY <2>4 DEF Plus
<1>4. e' \in Counter /\ LineLen' = m
  <2> HIDE DEF m
  <2>1. e' \in Counter
    BY <1>1, <1>2, <1>3, PlusFacts
  <2>2. Minus(Plus(w, m), w) = m
    BY <1>1, <1>2, DistanceMoved
  <2> QED
    BY <1>3, <2>1, <2>2 DEF LineLen
<1>5. ReadyLen' = ReadyLen /\ Ready' = Ready
  BY DEF ReadyLen, Ready, Slice
<1>6. /\ Line \in Seq(LineChars) /\ Len(Line) = LineLen
      /\ \A j \in 1 .. LineLen : Line[j] = buf[Place(w, j)]
                               /\ Line[j] \in LineChars
  BY Lengths
<1>7. /\ Line' \in Seq(LineChars) /\ Len(Line') = m
      /\ \A j \in 1 .. m : Line'[j] = buf[Place(w, j)]
  <2>1. Line' = Slice(w, m)
    BY <1>4 DEF Line, Slice, LineLen
  <2> HIDE DEF m
  <2> QED
    BY <1>1, <1>2, <2>1, SliceFacts
<1>8. t \in Seq(LineChars) /\ Len(t) = m /\ \A j \in 1 .. m : t[j] = Line[j]
  BY <1>1, <1>2, <1>6
<1>9. \A j \in 1 .. m : Line'[j] = t[j]
  BY <1>1, <1>2, <1>6, <1>7, <1>8
<1>10. Line' = t
  <2> HIDE DEF m, t
  <2> QED
    BY <1>7, <1>8, <1>9, SeqEqual
<1> QED
  BY <1>4, <1>5, <1>10

\* consoleintr puts a character after the line.
LEMMA InsertStores ==
    ASSUME TypeOK, RingInv, ReadyLen + LineLen < INPUT_BUF,
           NEW c \in LineChars,
           buf' = [buf EXCEPT ![e % INPUT_BUF] = c], e' = Plus(e, 1), r' = r
    PROVE  /\ buf' \in [Index -> LineChars] /\ e' \in Counter
           /\ e' = Plus(w, LineLen + 1) /\ e' = Plus(r, ReadyLen + LineLen + 1)
           /\ \A j \in 1 .. ReadyLen : buf'[Place(r, j)] = Ready[j]
           /\ \A j \in 1 .. LineLen : buf'[Place(w, j)] = Line[j]
           /\ buf'[Place(w, LineLen + 1)] = c
<1>1. /\ r \in Counter /\ w \in Counter /\ e \in Counter
      /\ r \in Nat /\ w \in Nat /\ e \in Nat
      /\ ReadyLen \in Nat /\ LineLen \in Nat
      /\ w = Plus(r, ReadyLen) /\ e = Plus(w, LineLen)
      /\ e = Plus(r, ReadyLen + LineLen)
  BY Counters, Sizes DEF TypeOK
<1>2. e % INPUT_BUF = Place(w, LineLen + 1)
  <2>1. (LineLen + 1) - 1 = LineLen
    BY <1>1
  <2> QED
    BY <1>1, <2>1 DEF Place
<1>3. \A j \in Nat \ {0} : Place(w, j) = Place(r, ReadyLen + j)
                          /\ Place(w, j) \in Index /\ Place(r, j) \in Index
  BY <1>1, Places
<1>4. e % INPUT_BUF = Place(r, ReadyLen + LineLen + 1) /\ e % INPUT_BUF \in Index
  <2>1. LineLen + 1 \in Nat \ {0} /\ ReadyLen + LineLen + 1 = ReadyLen + (LineLen + 1)
    BY <1>1
  <2> QED
    BY <1>2, <1>3, <2>1
<1>5. ASSUME NEW j \in 1 .. ReadyLen + LineLen
      PROVE  Place(r, j) # e % INPUT_BUF /\ Place(r, j) \in Index
  <2>1. j \in 1 .. INPUT_BUF /\ ReadyLen + LineLen + 1 \in 1 .. INPUT_BUF
          /\ j # ReadyLen + LineLen + 1
    BY <1>1, Sizes
  <2> QED
    BY <1>1, <1>4, <2>1, Places
<1>6. \A j \in 1 .. ReadyLen + LineLen : buf'[Place(r, j)] = buf[Place(r, j)]
  BY <1>5 DEF TypeOK
<1>7. /\ \A j \in 1 .. ReadyLen : Ready[j] = buf[Place(r, j)]
      /\ \A j \in 1 .. LineLen : Line[j] = buf[Place(w, j)]
  BY Lengths
<1>8. \A j \in 1 .. ReadyLen : buf'[Place(r, j)] = Ready[j]
  BY <1>1, <1>6, <1>7
<1>9. ASSUME NEW j \in 1 .. LineLen
      PROVE  buf'[Place(w, j)] = Line[j]
  <2>1. ReadyLen + j \in 1 .. ReadyLen + LineLen /\ j \in Nat \ {0}
    BY <1>1
  <2> QED
    BY <1>3, <1>6, <1>7, <2>1
<1>10. buf' \in [Index -> LineChars] /\ buf'[Place(w, LineLen + 1)] = c
  BY <1>2, <1>4 DEF TypeOK
<1>11. e' \in Counter /\ e' = Plus(w, LineLen + 1)
         /\ e' = Plus(r, ReadyLen + LineLen + 1)
  <2>1. e' \in Counter
    BY <1>1, PlusFacts
  <2>2. Plus(Plus(w, LineLen), 1) = Plus(w, LineLen + 1)
    <3>1. w \in Nat /\ LineLen \in Nat /\ 1 \in Nat
      BY <1>1
    <3> QED
      BY <3>1, PlusPlus, Zenon
  <2>3. Plus(Plus(r, ReadyLen + LineLen), 1) = Plus(r, (ReadyLen + LineLen) + 1)
    <3>1. ReadyLen + LineLen \in Nat
      BY <1>1
    <3> QED
      BY <1>1, <3>1, PlusPlus
  <2> QED
    BY <1>1, <2>1, <2>2, <2>3
<1> QED
  BY <1>8, <1>9, <1>10, <1>11

\* The character goes on the line, or finishes it.
LEMMA Inserts ==
    ASSUME TypeOK, RingInv, ReadyLen + LineLen < INPUT_BUF,
           NEW c \in LineChars,
           buf' = [buf EXCEPT ![e % INPUT_BUF] = c], e' = Plus(e, 1), r' = r
    PROVE  /\ w' = w => /\ ReadyLen' = ReadyLen /\ LineLen' = LineLen + 1
                        /\ Ready' = Ready /\ Line' = Append(Line, c)
           /\ w' = e' => /\ ReadyLen' = ReadyLen + LineLen + 1 /\ LineLen' = 0
                         /\ Ready' = Ready \o Append(Line, c) /\ Line' = <<>>
<1> DEFINE s == Append(Line, c)
<1>1. /\ buf' \in [Index -> LineChars] /\ e' \in Counter
      /\ e' = Plus(w, LineLen + 1) /\ e' = Plus(r, ReadyLen + LineLen + 1)
      /\ \A j \in 1 .. ReadyLen : buf'[Place(r, j)] = Ready[j]
      /\ \A j \in 1 .. LineLen : buf'[Place(w, j)] = Line[j]
      /\ buf'[Place(w, LineLen + 1)] = c
  BY InsertStores
<1>2. /\ r \in Counter /\ w \in Counter /\ ReadyLen \in Nat /\ LineLen \in Nat
      /\ ReadyLen + LineLen + 1 \in Counter /\ LineLen + 1 \in Counter
      /\ w = Plus(r, ReadyLen)
  BY Counters, Sizes DEF TypeOK, Counter
<1>3. /\ Ready \in Seq(LineChars) /\ Len(Ready) = ReadyLen
      /\ Line \in Seq(LineChars) /\ Len(Line) = LineLen
      /\ \A j \in 1 .. ReadyLen : Ready[j] \in LineChars
  BY Lengths
<1>4. /\ s \in Seq(LineChars) /\ Len(s) = LineLen + 1
      /\ \A j \in 1 .. LineLen + 1 : s[j] = buf'[Place(w, j)]
                                  /\ s[j] \in LineChars
  <2>1. s \in Seq(LineChars) /\ Len(s) = LineLen + 1
    BY <1>2, <1>3
  <2>2. ASSUME NEW j \in 1 .. LineLen + 1
        PROVE  s[j] = buf'[Place(w, j)]
    BY <1>1, <1>2, <1>3
  <2> HIDE DEF s
  <2>3. \A j \in 1 .. LineLen + 1 : s[j] \in LineChars
    BY <1>2, <2>1, ElementOfSeq
  <2> QED
    BY <2>1, <2>2, <2>3
<1>5. ASSUME NEW i \in Counter, NEW k \in Nat,
             NEW t, t = [j \in 1 .. k |-> buf'[Place(i, j)]]
      PROVE  /\ t \in Seq(LineChars) /\ Len(t) = k
             /\ \A j \in 1 .. k : t[j] = buf'[Place(i, j)]
  <2>1. \A j \in 1 .. k : buf'[Place(i, j)] \in LineChars
    BY <1>1, Places
  <2>2. t \in [1 .. k -> LineChars]
    BY <1>5, <2>1
  <2> QED
    BY <1>5, <2>2
<1> HIDE DEF s
<1>6. ASSUME w' = w
      PROVE  /\ ReadyLen' = ReadyLen /\ LineLen' = LineLen + 1
             /\ Ready' = Ready /\ Line' = s
  <2>1. LineLen' = LineLen + 1 /\ ReadyLen' = ReadyLen
    <3>1. Minus(Plus(w, LineLen + 1), w) = LineLen + 1
      BY <1>2, DistanceMoved
    <3> QED
      BY <1>1, <1>6, <3>1 DEF LineLen, ReadyLen
  <2>2. /\ Ready' = [j \in 1 .. ReadyLen |-> buf'[Place(r, j)]]
        /\ Line' = [j \in 1 .. LineLen + 1 |-> buf'[Place(w, j)]]
    BY <1>6, <2>1 DEF Ready, ReadyLen, Line, LineLen, Slice, Place
  <2>3. /\ Ready' \in Seq(LineChars) /\ Len(Ready') = ReadyLen
        /\ \A j \in 1 .. ReadyLen : Ready'[j] = buf'[Place(r, j)]
    <3>1. r \in Counter /\ ReadyLen \in Nat
      BY <1>2
    <3> QED
      BY <1>5, <2>2, <3>1, Zenon
  <2>4. Ready' = Ready
    BY <1>1, <1>3, <2>3, SeqEqual
  <2>5. /\ Line' \in Seq(LineChars) /\ Len(Line') = LineLen + 1
        /\ \A j \in 1 .. LineLen + 1 : Line'[j] = buf'[Place(w, j)]
    <3>1. LineLen + 1 \in Nat
      BY <1>2
    <3> QED
      BY <1>2, <1>5, <2>2, <3>1
  <2>6. Line' = s
    BY <1>4, <2>5, SeqEqual
  <2> QED
    BY <2>1, <2>4, <2>6
<1>7. ASSUME w' = e'
      PROVE  /\ ReadyLen' = ReadyLen + LineLen + 1 /\ LineLen' = 0
             /\ Ready' = Ready \o s /\ Line' = <<>>
  <2>1. LineLen' = 0
    BY <1>1, <1>7, Distance DEF LineLen
  <2>2. ReadyLen' = ReadyLen + LineLen + 1
    <3>1. Minus(Plus(r, ReadyLen + LineLen + 1), r) = ReadyLen + LineLen + 1
      BY <1>2, DistanceMoved
    <3> QED
      BY <1>1, <1>7, <3>1 DEF ReadyLen
  <2>3. Line' = <<>>
    BY <2>1 DEF Line, LineLen, Slice
  <2> DEFINE m == ReadyLen + LineLen + 1  t == Ready \o s
  <2>4. m \in Nat /\ ReadyLen <= m
    BY <1>2
  <2>5. /\ Ready' \in Seq(LineChars) /\ Len(Ready') = m
        /\ \A j \in 1 .. m : Ready'[j] = buf'[Place(r, j)]
    <3>1. Ready' = [j \in 1 .. m |-> buf'[Place(r, j)]]
      BY <2>2 DEF Ready, ReadyLen, Slice, Place
    <3> HIDE DEF m
    <3> QED
      BY <1>2, <1>5, <2>4, <3>1
  <2>6. t \in Seq(LineChars) /\ Len(t) = m
    <3>1. t \in Seq(LineChars) /\ Len(t) = Len(Ready) + Len(s)
      BY <1>3, <1>4, ConcatProperties
    <3> HIDE DEF t
    <3> QED
      BY <1>2, <1>3, <1>4, <3>1
  <2>7. ASSUME NEW j \in 1 .. m
        PROVE  Ready'[j] = t[j]
    <3>1. t[j] = IF j <= ReadyLen THEN Ready[j] ELSE s[j - ReadyLen]
      <4>1. j \in 1 .. Len(Ready) + Len(s)
        BY <1>2, <1>3, <1>4
      <4> QED
        BY <1>3, <1>4, <4>1, ConcatProperties
    <3>2. CASE j <= ReadyLen
      BY <1>1, <1>2, <2>5, <3>1, <3>2
    <3>3. CASE ~(j <= ReadyLen)
      <4> DEFINE k == j - ReadyLen
      <4>1. k \in 1 .. LineLen + 1 /\ k \in Nat \ {0} /\ ReadyLen + k = j
        BY <1>2, <3>3
      <4>2. Place(w, k) = Place(r, j)
        BY <1>2, <4>1, Places
      <4> QED
        BY <1>4, <2>5, <3>1, <3>3, <4>1, <4>2
    <3> QED
      BY <3>2, <3>3
  <2>8. Ready' = t
    <3> HIDE DEF m, t
    <3> QED
      BY <2>5, <2>6, <2>7, SeqEqual
  <2> QED
    BY <2>1, <2>2, <2>3, <2>8
<1> QED
  BY <1>6, <1>7 DEF s

-----------------------------------------------------------------------------
(* Readers *)

\* The smallest of some numbers.
LEMMA MinIn ==
    ASSUME NEW S, S \subseteq Nat, S # {}
    PROVE  Min(S) \in S /\ \A x \in S : Min(S) <= x
<1> DEFINE R == {ss \in Nat \X Nat : ss[1] < ss[2]}
<1>1. IsWellFoundedOn(R, Nat)
  BY NatLessThanWellFounded, Zenon DEF OpToRel
<1> HIDE DEF R
<1>2. PICK x \in S : \A y \in S : ~ (<<y, x>> \in R)
  BY <1>1, WFMin, Zenon
<1>3. \A y \in S : ~ (y < x)
  BY <1>2, Zenon DEF R
<1>4. \E z \in S : \A y \in S : z <= y
  BY <1>3
<1> QED
  BY <1>4, Zenon DEF Min

\* EndOfRead is the first end of a line or file among the characters that a
\* read may take, and 0 when there is none.
LEMMA EndFacts ==
    ASSUME TypeOK, RingInv, NEW p \in Readers
    PROVE  /\ EndOfRead(p) \in Nat
           /\ EndOfRead(p) <= n[p] /\ EndOfRead(p) <= ReadyLen
           /\ EndOfRead(p) # 0 =>
                 /\ Ready[EndOfRead(p)] \in Ends
                 /\ \A i \in 1 .. EndOfRead(p) - 1 : Ready[i] \notin Ends
           /\ EndOfRead(p) = 0 =>
                 \A i \in 1 .. ReadyLen : i <= n[p] => Ready[i] \notin Ends
<1> DEFINE both == {n[p], Len(Ready)}
           m == Min(both)
           ends == {i \in 1 .. m : Ready[i] \in Ends}
<1>1. n[p] \in Nat /\ ReadyLen \in Nat /\ Len(Ready) = ReadyLen
  BY Counters, Lengths DEF TypeOK
<1>2. m \in both /\ \A x \in both : m <= x
  BY <1>1, MinIn
<1>3. m \in Nat /\ m <= n[p] /\ m <= ReadyLen /\ (m = n[p] \/ m = ReadyLen)
  BY <1>1, <1>2
<1>4. EndOfRead(p) = IF ends = {} THEN 0 ELSE Min(ends)
  BY DEF EndOfRead, Ends
<1> HIDE DEF both, m
<1>5. CASE ends = {}
  <2>1. \A i \in 1 .. m : Ready[i] \notin Ends
    BY <1>5
  <2> QED
    BY <1>1, <1>3, <1>4, <1>5, <2>1
<1>6. CASE ends # {}
  <2> DEFINE k == Min(ends)
  <2>1. ends \subseteq Nat
    BY <1>3
  <2>2. k \in ends /\ \A x \in ends : k <= x
    BY <1>6, <2>1, MinIn
  <2> HIDE DEF k
  <2>3. k \in 1 .. m /\ Ready[k] \in Ends
    BY <2>2
  <2>4. ASSUME NEW i \in 1 .. k - 1 PROVE Ready[i] \notin Ends
    <3>1. i \in 1 .. m /\ ~(k <= i)
      BY <1>3, <2>3
    <3> QED
      BY <2>2, <3>1
  <2>5. EndOfRead(p) = k
    BY <1>4, <1>6 DEF k
  <2> QED
    BY <1>1, <1>3, <2>3, <2>4, <2>5
<1> QED
  BY <1>5, <1>6

\* A pass of consoleread copies the first k characters and goes to some place.
Copies(p, k, place) ==
    /\ k <= ReadyLen /\ k <= n[p]
    /\ dst' = [dst EXCEPT ![p] = @ \o Slice(r, k)]
    /\ n' = [n EXCEPT ![p] = @ - k]
    /\ pc' = [pc EXCEPT ![p] = place]
    /\ \A i \in 1 .. k : Ready[i] # EndOfFile /\ (Ready[i] = NewLine => i = k)
    /\ place = "doze" => /\ k < n[p] /\ k = ReadyLen
                         /\ \A i \in 1 .. k : Ready[i] \notin Ends

\* It takes as many, or a ^D that it does not copy.
TakesEnd(p, k) ==
    /\ k = 0 /\ ReadyLen > 0 /\ Ready[1] = EndOfFile
    /\ dst[p] = <<>> /\ r' = Plus(r, 1)

\* The four ways a pass of consoleread ends.
LEMMA PassFacts ==
    ASSUME TypeOK, RingInv, NEW p \in Readers, readPass(p)
    PROVE  \E k \in Nat, place \in {"user", "doze"} :
              Copies(p, k, place) /\ (r' = Plus(r, k) \/ TakesEnd(p, k))
<1> DEFINE k == EndOfRead(p)
<1>1. /\ k \in Nat /\ k <= n[p] /\ k <= ReadyLen
      /\ k # 0 => /\ Ready[k] \in Ends
                  /\ \A i \in 1 .. k - 1 : Ready[i] \notin Ends
      /\ k = 0 => \A i \in 1 .. ReadyLen : i <= n[p] => Ready[i] \notin Ends
  BY EndFacts
<1>2. /\ n[p] \in Nat /\ ReadyLen \in Nat /\ Len(Ready) = ReadyLen
      /\ NewLine # EndOfFile /\ NewLine \in Ends /\ EndOfFile \in Ends
      /\ dst[p] \in Seq(LineChars) /\ r \in Counter /\ r \in Nat
      /\ p \in DOMAIN dst
  BY Counters, Lengths, Sizes DEF TypeOK, Ends, NewLine, EndOfFile
<1> HIDE DEF k
<1>3. CASE readLine(p)
  <2>1. /\ k # 0 /\ Ready[k] = NewLine /\ copy(p, k) /\ r' = Plus(r, k)
        /\ goTo(p, "user")
    BY <1>3 DEF readLine, k
  <2>2. \A i \in 1 .. k : Ready[i] # EndOfFile /\ (Ready[i] = NewLine => i = k)
    <3> TAKE i \in 1 .. k
    <3>1. CASE i = k
      BY <1>2, <2>1, <3>1
    <3>2. CASE i # k
      <4>1. i \in 1 .. k - 1
        BY <1>1, <3>2
      <4> QED
        BY <1>1, <1>2, <2>1, <4>1
    <3> QED
      BY <3>1, <3>2
  <2>3. Copies(p, k, "user")
    BY <1>1, <2>1, <2>2 DEF Copies, copy, goTo
  <2> QED
    BY <1>1, <2>1, <2>3
<1>4. CASE readEnd(p)
  <2>1. /\ k # 0 /\ Ready[k] = EndOfFile /\ copy(p, k - 1)
        /\ r' = Plus(r, IF dst'[p] = <<>> THEN k ELSE k - 1)
        /\ goTo(p, "user")
    BY <1>4 DEF readEnd, k
  <2>2. k - 1 \in Nat /\ k - 1 <= ReadyLen /\ k - 1 <= n[p]
    BY <1>1, <1>2, <2>1
  <2>3. Copies(p, k - 1, "user")
    <3>1. \A i \in 1 .. k - 1 : Ready[i] # EndOfFile /\ (Ready[i] = NewLine => i = k - 1)
      BY <1>1, <1>2, <2>1
    <3> QED
      BY <2>1, <2>2, <3>1 DEF Copies, copy, goTo
  <2>4. dst'[p] = dst[p] \o Slice(r, k - 1)
    BY <1>2, <2>1 DEF copy, TypeOK
  <2>5. /\ Slice(r, k - 1) \in Seq(LineChars) /\ Len(Slice(r, k - 1)) = k - 1
    BY <1>2, <2>2, SliceFacts
  <2>6. Len(dst'[p]) = Len(dst[p]) + (k - 1) /\ Len(dst[p]) \in Nat
    <3>1. Len(dst[p] \o Slice(r, k - 1)) = Len(dst[p]) + Len(Slice(r, k - 1))
      BY <1>2, <2>5, ConcatProperties, Zenon
    <3>2. Len(dst[p]) \in Nat
      BY <1>2
    <3> QED
      BY <2>4, <2>5, <3>1, <3>2
  <2>7. CASE dst'[p] = <<>>
    <3>1. Len(dst[p]) = 0 /\ k = 1
      BY <1>1, <2>2, <2>6, <2>7
    <3>2. dst[p] = <<>>
      BY <1>2, <3>1
    <3>3. TakesEnd(p, k - 1)
      BY <1>1, <1>2, <2>1, <2>7, <3>1, <3>2 DEF TakesEnd
    <3> QED
      BY <2>2, <2>3, <3>3
  <2>8. CASE dst'[p] # <<>>
    BY <2>1, <2>2, <2>3, <2>8
  <2> QED
    BY <2>7, <2>8
<1>5. CASE readFull(p)
  <2>1. /\ k = 0 /\ n[p] <= ReadyLen /\ copy(p, n[p]) /\ r' = Plus(r, n[p])
        /\ goTo(p, "user")
    BY <1>2, <1>5 DEF readFull, k
  <2>2. \A i \in 1 .. n[p] : Ready[i] \notin Ends
    BY <1>1, <1>2, <2>1
  <2>3. Copies(p, n[p], "user")
    BY <1>2, <2>1, <2>2 DEF Copies, copy, goTo
  <2> QED
    BY <1>2, <2>1, <2>3
<1>6. CASE readAll(p)
  <2> DEFINE place == IF killed[p] THEN "user" ELSE "doze"
  <2>1. /\ k = 0 /\ n[p] > ReadyLen /\ copy(p, ReadyLen) /\ r' = w
        /\ goTo(p, place)
    BY <1>2, <1>6 DEF readAll, k
  <2>2. \A i \in 1 .. ReadyLen : Ready[i] \notin Ends
    BY <1>1, <1>2, <2>1
  <2>3. r' = Plus(r, ReadyLen)
    BY <2>1, Counters
  <2> HIDE DEF place
  <2>4. Copies(p, ReadyLen, place)
    BY <1>2, <2>1, <2>2 DEF Copies, copy, goTo
  <2> QED
    BY <1>2, <2>3, <2>4 DEF place
<1> QED
  BY <1>3, <1>4, <1>5, <1>6 DEF readPass

\* The part of the invariant that readers and consoleintr share.
RInv == TypeOK /\ RingInv /\ LineInv /\ ReadInv /\ SleepInv

\* What a pass copies comes after what the reader has.
LEMMA PassCopies ==
    ASSUME TypeOK, RingInv, NEW p \in Readers, NEW k \in Nat, NEW place,
           Copies(p, k, place)
    PROVE  /\ Slice(r, k) = SubSeq(Ready, 1, k)
           /\ Slice(r, k) \in Seq(LineChars) /\ Len(Slice(r, k)) = k
           /\ \A i \in 1 .. k : Slice(r, k)[i] = Ready[i]
           /\ dst' \in [Readers -> Seq(LineChars)]
           /\ Len(dst'[p]) = Len(dst[p]) + k
           /\ \A i \in 1 .. Len(dst[p]) + k :
                 dst'[p][i] = IF i <= Len(dst[p]) THEN dst[p][i]
                                                 ELSE Ready[i - Len(dst[p])]
           /\ n' \in [Readers -> Nat]
           /\ \A q \in Readers : q # p => dst'[q] = dst[q] /\ n'[q] = n[q]
           /\ n'[p] = n[p] - k
<1> DEFINE a == dst[p]  s == Slice(r, k)
<1>1. /\ k <= ReadyLen /\ k <= n[p] /\ n' = [n EXCEPT ![p] = @ - k]
      /\ dst' = [dst EXCEPT ![p] = a \o s]
  BY DEF Copies
<1>2. /\ r \in Counter /\ a \in Seq(LineChars) /\ n[p] \in Nat /\ ReadyLen \in Nat
      /\ dst \in [Readers -> Seq(LineChars)] /\ n \in [Readers -> Nat]
  BY Counters DEF TypeOK
<1>3. /\ s \in Seq(LineChars) /\ Len(s) = k
      /\ \A j \in 1 .. k : s[j] = buf[Place(r, j)]
  BY <1>2, SliceFacts
<1>4. /\ Ready \in Seq(LineChars) /\ Len(Ready) = ReadyLen
      /\ \A j \in 1 .. ReadyLen : Ready[j] = buf[Place(r, j)]
                                /\ Ready[j] \in LineChars
  BY Lengths
<1> HIDE DEF a, s
<1>5. ASSUME NEW i \in 1 .. k
      PROVE  s[i] = Ready[i] /\ Ready[i] \in LineChars
  <2>1. i \in 1 .. ReadyLen
    BY <1>1, <1>2
  <2> QED
    BY <1>3, <1>4, <2>1, Zenon
<1>6. s = SubSeq(Ready, 1, k)
  <2> DEFINE t == SubSeq(Ready, 1, k)
  <2>1. t \in Seq(LineChars) /\ Len(t) = k /\ \A i \in 1 .. k : t[i] = Ready[i]
    BY <1>1, <1>2, <1>4, <1>5
  <2> HIDE DEF t
  <2>2. s = t
    BY <1>3, <1>5, <2>1, SeqEqual
  <2> QED
    BY <2>2 DEF t
<1>7. a \o s \in Seq(LineChars) /\ Len(a \o s) = Len(a) + Len(s)
        /\ \A i \in 1 .. Len(a) + Len(s) :
              (a \o s)[i] = IF i <= Len(a) THEN a[i] ELSE s[i - Len(a)]
  BY <1>2, <1>3, ConcatProperties, Zenon
<1>8. dst'[p] = a \o s /\ dst' \in [Readers -> Seq(LineChars)]
        /\ \A q \in Readers : q # p => dst'[q] = dst[q]
  BY <1>1, <1>2, <1>7
<1>9. n' \in [Readers -> Nat] /\ n'[p] = n[p] - k
        /\ \A q \in Readers : q # p => n'[q] = n[q]
  BY <1>1, <1>2
<1>10. ASSUME NEW i \in 1 .. Len(a) + k
       PROVE  dst'[p][i] = IF i <= Len(a) THEN a[i] ELSE Ready[i - Len(a)]
  <2>1. Len(a) \in Nat
    BY <1>2
  <2>2. CASE i <= Len(a)
    BY <1>3, <1>7, <1>8, <2>1, <2>2
  <2>3. CASE ~(i <= Len(a))
    <3>1. i - Len(a) \in 1 .. k
      BY <2>1, <2>3
    <3> QED
      BY <1>3, <1>5, <1>7, <1>8, <2>1, <2>3, <3>1
  <2> QED
    BY <2>2, <2>3
<1>11. Len(dst'[p]) = Len(a) + k
  BY <1>3, <1>7, <1>8
<1> QED
  BY <1>3, <1>5, <1>6, <1>8, <1>9, <1>10, <1>11 DEF a, s

\* A pass of consoleread keeps the invariant: it ends the read, or sleeps
\* wanting more with nothing left.
LEMMA PassKeeps ==
    ASSUME RInv, NEW p \in Readers, readPass(p)
    PROVE  RInv'
<1>1. /\ TypeOK /\ RingInv /\ LineInv /\ ReadInv /\ SleepInv
      /\ UNCHANGED <<buf, w, e>> /\ pc[p] = "read"
      /\ \A q \in Readers : pc[q] # "doze"
  BY DEF RInv, readPass, Locked
<1>2. PICK k \in Nat, place \in {"user", "doze"} :
         Copies(p, k, place) /\ (r' = Plus(r, k) \/ TakesEnd(p, k))
  BY <1>1, PassFacts
<1>3. PICK t \in Nat : t <= ReadyLen /\ r' = Plus(r, t) /\ (t = k \/ TakesEnd(p, k))
  <2>1. ReadyLen \in Nat /\ k <= ReadyLen
    BY <1>1, <1>2, Counters DEF Copies
  <2>2. CASE r' = Plus(r, k)
    BY <2>1, <2>2
  <2>3. CASE TakesEnd(p, k)
    <3>1. 1 \in Nat /\ 1 <= ReadyLen /\ r' = Plus(r, 1)
      BY <2>1, <2>3 DEF TakesEnd
    <3> QED
      BY <2>3, <3>1
  <2> QED
    BY <1>2, <2>2, <2>3
<1>4. /\ r' \in Counter /\ ReadyLen' = ReadyLen - t /\ LineLen' = LineLen
  BY <1>1, <1>3, TakesFirst
<1>5. ReadyLen \in Nat /\ LineLen \in Nat /\ INPUT_BUF \in Nat
  BY <1>1, Counters, Sizes
<1>6. /\ dst' \in [Readers -> Seq(LineChars)] /\ n' \in [Readers -> Nat]
      /\ \A q \in Readers : q # p => dst'[q] = dst[q] /\ n'[q] = n[q]
      /\ n'[p] = n[p] - k
      /\ Len(dst'[p]) = Len(dst[p]) + k
      /\ \A i \in 1 .. Len(dst[p]) + k :
            dst'[p][i] = IF i <= Len(dst[p]) THEN dst[p][i]
                                            ELSE Ready[i - Len(dst[p])]
  BY <1>1, <1>2, PassCopies
<1>7. pc' = [pc EXCEPT ![p] = place]
  BY <1>2 DEF Copies
<1>8. TypeOK'
  BY <1>1, <1>4, <1>6, <1>7 DEF TypeOK
<1>9. RingInv'
  BY <1>1, <1>3, <1>4, <1>5 DEF RingInv
<1>10. LineInv'
  BY <1>1, <1>4 DEF LineInv
<1>11. ReadInv'
  <2> SUFFICES ASSUME NEW q \in Readers, pc'[q] # "user"
               PROVE  /\ n'[q] > 0
                      /\ \A i \in 1 .. Len(dst'[q]) : dst'[q][i] \notin Ends
    BY DEF ReadInv
  <2>1. CASE q # p
    BY <1>1, <1>6, <1>7, <2>1 DEF ReadInv, TypeOK
  <2>2. CASE q = p
    <3>1. place = "doze"
      BY <1>1, <1>7, <2>2 DEF TypeOK
    <3>2. /\ k < n[p] /\ \A i \in 1 .. k : Ready[i] \notin Ends
      BY <1>2, <3>1 DEF Copies
    <3>3. \A i \in 1 .. Len(dst[p]) : dst[p][i] \notin Ends
      BY <1>1 DEF ReadInv
    <3>4. n[p] \in Nat /\ Len(dst[p]) \in Nat
      BY <1>1 DEF TypeOK
    <3>5. n'[p] > 0
      BY <1>6, <3>2, <3>4
    <3>6. ASSUME NEW i \in 1 .. Len(dst'[p]) PROVE dst'[p][i] \notin Ends
      <4>1. i \in 1 .. Len(dst[p]) + k
        BY <1>6
      <4>2. CASE i <= Len(dst[p])
        <5>1. i \in 1 .. Len(dst[p])
          BY <3>4, <4>1, <4>2
        <5> QED
          BY <1>6, <3>3, <4>1, <4>2, <5>1
      <4>3. CASE ~(i <= Len(dst[p]))
        <5>1. i - Len(dst[p]) \in 1 .. k
          BY <3>4, <4>1, <4>3
        <5> QED
          BY <1>6, <3>2, <4>1, <4>3, <5>1
      <4> QED
        BY <4>2, <4>3
    <3> QED
      BY <2>2, <3>5, <3>6
  <2> QED
    BY <2>1, <2>2
<1>12. SleepInv'
  <2> SUFFICES ASSUME NEW q \in Readers, pc'[q] \in {"doze", "asleep"}
               PROVE  w' = r'
    BY DEF SleepInv
  <2>1. CASE q = p
    <3>1. place = "doze"
      BY <1>1, <1>7, <2>1 DEF TypeOK
    <3>2. k = ReadyLen
      BY <1>2, <3>1 DEF Copies
    <3>3. t = k
      <4>1. TakesEnd(p, k) => k = 0 /\ ReadyLen > 0
        BY DEF TakesEnd
      <4> QED
        BY <1>3, <1>5, <3>2, <4>1
    <3> QED
      BY <1>1, <1>3, <3>2, <3>3, Counters
  <2>2. CASE q # p
    <3>1. pc[q] = "asleep"
      BY <1>1, <1>7, <2>2 DEF TypeOK
    <3>2. w = r
      BY <1>1, <3>1 DEF SleepInv
    <3>3. ReadyLen = 0
      BY <1>1, <3>2, Counters
    <3>4. t = 0
      BY <1>3, <1>5, <3>3
    <3>5. ReadyLen' = 0
      BY <1>4, <3>3, <3>4
    <3>6. r' \in Counter /\ w' \in Counter
      BY <1>8 DEF TypeOK
    <3>7. Minus(w', r') = 0
      BY <3>5 DEF ReadyLen
    <3> QED
      BY <3>6, <3>7, Distance
  <2> QED
    BY <2>1, <2>2
<1> QED
  BY <1>8, <1>9, <1>10, <1>11, <1>12 DEF RInv

\* What Terminal is told of a step.
Refines == T!Next \/ UNCHANGED <<Line, Ready, dst>>

\* A pass of consoleread gives its reader part of a line, or an end of file.
LEMMA PassRefines ==
    ASSUME RInv, NEW p \in Readers, readPass(p)
    PROVE  Refines
<1>1. /\ TypeOK /\ RingInv /\ ReadInv /\ UNCHANGED <<buf, w, e>> /\ pc[p] = "read"
  BY DEF RInv, readPass
<1>2. PICK k \in Nat, place \in {"user", "doze"} :
         Copies(p, k, place) /\ (r' = Plus(r, k) \/ TakesEnd(p, k))
  BY <1>1, PassFacts
<1>3. /\ Slice(r, k) = SubSeq(Ready, 1, k)
      /\ Slice(r, k) \in Seq(LineChars) /\ Len(Slice(r, k)) = k
      /\ \A i \in 1 .. k : Slice(r, k)[i] = Ready[i]
      /\ dst' \in [Readers -> Seq(LineChars)]
      /\ Len(dst'[p]) = Len(dst[p]) + k
      /\ \A i \in 1 .. Len(dst[p]) + k :
            dst'[p][i] = IF i <= Len(dst[p]) THEN dst[p][i]
                                            ELSE Ready[i - Len(dst[p])]
  BY <1>1, <1>2, PassCopies
<1>4. /\ k <= ReadyLen /\ dst' = [dst EXCEPT ![p] = dst[p] \o Slice(r, k)]
      /\ \A i \in 1 .. k : Ready[i] # EndOfFile /\ (Ready[i] = NewLine => i = k)
  BY <1>2 DEF Copies
<1>5. /\ Ready \in Seq(LineChars) /\ Len(Ready) = ReadyLen /\ ReadyLen \in Nat
      /\ dst[p] \in Seq(LineChars) /\ Len(dst[p]) \in Nat
      /\ dst \in [Readers -> Seq(LineChars)]
      /\ ReadyLen <= INPUT_BUF /\ INPUT_BUF \in Nat
  BY <1>1, Lengths, Counters, Sizes DEF TypeOK, RingInv
<1>6. k = 0 => dst' = dst
  <2> SUFFICES ASSUME k = 0 PROVE dst' = dst
    OBVIOUS
  <2>1. Slice(r, k) = <<>>
    BY <1>3
  <2>2. dst[p] \o Slice(r, k) = dst[p]
    BY <1>5, <2>1, ConcatEmptySeq
  <2> QED
    BY <1>4, <1>5, <2>2
<1>7. CASE r' = Plus(r, k)
  <2>1. Line' = Line /\ Ready' = SubSeq(Ready, k + 1, Len(Ready))
    BY <1>1, <1>4, <1>7, TakesFirst
  <2>2. CASE k = 0
    <3>1. k + 1 = 1 /\ SubSeq(Ready, 1, Len(Ready)) = Ready
      BY <1>5, <2>2
    <3> QED
      BY <1>6, <2>1, <2>2, <3>1 DEF Refines
  <2>3. CASE k # 0
    <3>1. k \in 1 .. Len(Ready) /\ k \in 1 .. INPUT_BUF
      BY <1>4, <1>5, <2>3
    <3>2. dst'[p] = dst[p] \o SubSeq(Ready, 1, k)
      BY <1>3, <1>4, <1>5
    <3>3. DOMAIN dst'[p] = 1 .. Len(dst[p]) + k
      BY <1>3
    <3>4. ASSUME NEW i \in 1 .. Len(dst[p]) + k
          PROVE  /\ dst'[p][i] # EndOfFile
                 /\ dst'[p][i] = NewLine => i = Len(dst'[p])
      <4>1. CASE i <= Len(dst[p])
        <5>1. i \in 1 .. Len(dst[p])
          BY <1>5, <4>1
        <5>2. dst[p][i] \notin Ends /\ dst'[p][i] = dst[p][i]
          BY <1>1, <1>3, <4>1, <5>1 DEF ReadInv
        <5> QED
          BY <5>2 DEF Ends
      <4>2. CASE ~(i <= Len(dst[p]))
        <5> DEFINE j == i - Len(dst[p])
        <5>1. j \in 1 .. k /\ i = Len(dst[p]) + j
          BY <1>5, <4>2
        <5>2. dst'[p][i] = Ready[j]
          BY <1>3, <4>2
        <5>3. Ready[j] # EndOfFile /\ (Ready[j] = NewLine => j = k)
          BY <1>4, <5>1
        <5> HIDE DEF j
        <5> QED
          BY <1>3, <5>1, <5>2, <5>3
      <4> QED
        BY <4>1, <4>2
    <3>5. T!OneLine(dst[p] \o SubSeq(Ready, 1, k))
      <4>1. T!OneLine(dst'[p])
        BY <3>3, <3>4 DEF T!OneLine
      <4> QED
        BY <3>2, <4>1
    <3>6. T!Give(p, k)
      BY <1>3, <1>4, <2>1, <3>1, <3>5 DEF T!Give
    <3> QED
      BY <3>1, <3>6 DEF Refines, T!Next
  <2> QED
    BY <2>2, <2>3
<1>8. CASE TakesEnd(p, k)
  <2>1. /\ k = 0 /\ ReadyLen > 0 /\ Ready[1] = EndOfFile
        /\ dst[p] = <<>> /\ r' = Plus(r, 1)
    BY <1>8 DEF TakesEnd
  <2>2. 1 \in Nat /\ 1 <= ReadyLen
    BY <1>5, <2>1
  <2>3. Line' = Line /\ Ready' = SubSeq(Ready, 1 + 1, Len(Ready))
    BY <1>1, <2>1, <2>2, TakesFirst
  <2>4. Ready # <<>> /\ Head(Ready) = EndOfFile
    BY <1>5, <2>1
  <2>5. Tail(Ready) = SubSeq(Ready, 2, Len(Ready))
    BY <1>5, <2>4, TailIsSubSeq
  <2>6. T!GiveEnd(p)
    BY <1>6, <2>1, <2>3, <2>4, <2>5 DEF T!GiveEnd
  <2> QED
    BY <2>6 DEF Refines, T!Next
<1> QED
  BY <1>2, <1>7, <1>8

-----------------------------------------------------------------------------
(* consoleintr *)

\* What uartgetc and kbdgetc can hand over.
Received == SerialChars \cup {NO, "d", "D", EndOfFile, "\r", NewLine}

\* The tests of consoleintr on wrapping counters are tests of the lengths.
LEMMA RoomFacts ==
    ASSUME TypeOK, RingInv, HasRoom
    PROVE  /\ ReadyLen + LineLen < INPUT_BUF
           /\ \A c : FinishesLine(c) <=>
                 (c \in Ends \/ ReadyLen + LineLen + 1 = INPUT_BUF)
<1> DEFINE k == ReadyLen + LineLen
<1>1. /\ Minus(e, r) = k /\ k \in Nat /\ e = Plus(r, k) /\ r \in Counter
      /\ INPUT_BUF \in Counter /\ INPUT_BUF \in Nat
  BY Counters, Sizes DEF TypeOK, Counter
<1>2. k < INPUT_BUF
  BY <1>1 DEF HasRoom
<1> HIDE DEF k
<1>3. k + 1 \in Counter /\ r \in Nat
  BY <1>1, <1>2, Sizes DEF Counter
<1>4. Plus(e, 1) = Plus(r, k + 1)
  BY <1>1, <1>3, PlusPlus
<1>5. Minus(Plus(r, k + 1), r) = k + 1 /\ Minus(Plus(r, INPUT_BUF), r) = INPUT_BUF
  BY <1>1, <1>3, DistanceMoved
<1>6. Plus(e, 1) = Plus(r, INPUT_BUF) <=> k + 1 = INPUT_BUF
  BY <1>4, <1>5
<1> QED
  BY <1>2, <1>6 DEF FinishesLine, Ends, k

\* A character that is put into the ring.
LEMMA InsertStep ==
    ASSUME RInv, ~Locked, NEW c \in LineChars, insert(c), UNCHANGED <<n, dst>>
    PROVE  RInv' /\ Refines
<1>1. /\ TypeOK /\ RingInv /\ LineInv /\ ReadInv /\ SleepInv /\ HasRoom
      /\ buf' = [buf EXCEPT ![e % INPUT_BUF] = c] /\ e' = Plus(e, 1) /\ r' = r
  BY DEF RInv, insert
<1>2. /\ ReadyLen + LineLen < INPUT_BUF
      /\ FinishesLine(c) <=> (c \in Ends \/ ReadyLen + LineLen + 1 = INPUT_BUF)
  BY <1>1, RoomFacts
<1>3. /\ ReadyLen \in Nat /\ LineLen \in Nat /\ INPUT_BUF \in Nat
      /\ Len(Ready) = ReadyLen /\ Len(Line) = LineLen
  BY <1>1, Counters, Lengths, Sizes
<1>4. /\ buf' \in [Index -> LineChars] /\ e' \in Counter
      /\ \A j \in 1 .. LineLen : buf'[Place(w, j)] = Line[j]
      /\ buf'[Place(w, LineLen + 1)] = c
  BY <1>1, <1>2, InsertStores
<1>5. T!Finishes(c) <=> FinishesLine(c)
  BY <1>2, <1>3 DEF T!Finishes, Ends
<1>6. Len(Ready) + Len(Line) < INPUT_BUF
  BY <1>2, <1>3
<1>7. CASE ~FinishesLine(c)
  <2>1. w' = w /\ pc' = pc
    BY <1>7 DEF insert
  <2>2. /\ ReadyLen' = ReadyLen /\ LineLen' = LineLen + 1
        /\ Ready' = Ready /\ Line' = Append(Line, c)
    BY <1>1, <1>2, <2>1, Inserts
  <2>3. TypeOK'
    BY <1>1, <1>4, <2>1 DEF TypeOK
  <2>4. RingInv'
    BY <1>2, <1>3, <1>7, <2>2 DEF RingInv
  <2>5. LineInv'
    <3> SUFFICES ASSUME NEW j \in 1 .. LineLen + 1
                 PROVE  buf'[Place(w, j)] \notin Ends
      BY <2>1, <2>2 DEF LineInv, Place
    <3>1. CASE j = LineLen + 1
      BY <1>2, <1>4, <1>7, <3>1
    <3>2. CASE j # LineLen + 1
      <4>1. j \in 1 .. LineLen
        BY <1>3, <3>2
      <4>2. Line[j] = buf[Place(w, j)] /\ buf[Place(w, j)] \notin Ends
        BY <1>1, <4>1, Lengths DEF LineInv, Place
      <4> QED
        BY <1>4, <4>1, <4>2
    <3> QED
      BY <3>1, <3>2
  <2>6. ReadInv' /\ SleepInv'
    BY <1>1, <2>1 DEF ReadInv, SleepInv
  <2>7. T!Type(c)
    BY <1>5, <1>6, <1>7, <2>2 DEF T!Type
  <2> QED
    BY <2>3, <2>4, <2>5, <2>6, <2>7 DEF RInv, Refines, T!Next
<1>8. CASE FinishesLine(c)
  <2>1. w' = e' /\ wakeupReaders
    BY <1>8 DEF insert
  <2>2. /\ ReadyLen' = ReadyLen + LineLen + 1 /\ LineLen' = 0
        /\ Ready' = Ready \o Append(Line, c) /\ Line' = <<>>
    BY <1>1, <1>2, <2>1, Inserts
  <2>3. /\ pc' \in [Readers -> {"user", "read", "doze", "asleep"}]
        /\ \A p \in Readers : /\ pc'[p] # "user" => pc[p] # "user"
                              /\ pc'[p] \notin {"doze", "asleep"}
    BY <1>1, <2>1 DEF wakeupReaders, TypeOK, Locked
  <2>4. TypeOK'
    BY <1>1, <1>4, <2>1, <2>3 DEF TypeOK
  <2>5. RingInv'
    BY <1>2, <1>3, <2>2 DEF RingInv
  <2>6. LineInv'
    BY <2>2 DEF LineInv
  <2>7. ReadInv' /\ SleepInv'
    BY <1>1, <2>3 DEF ReadInv, SleepInv
  <2>8. T!Type(c)
    BY <1>5, <1>6, <1>8, <2>2 DEF T!Type
  <2> QED
    BY <2>4, <2>5, <2>6, <2>7, <2>8 DEF RInv, Refines, T!Next
<1> QED
  BY <1>7, <1>8

\* Characters that are taken back by ^H and ^U.
LEMMA EraseStep ==
    ASSUME RInv, NEW k \in Nat, k <= LineLen, erase(k), UNCHANGED <<n, dst>>
    PROVE  RInv' /\ Refines
<1>1. /\ TypeOK /\ RingInv /\ LineInv /\ ReadInv /\ SleepInv
      /\ e' = Minus(e, k) /\ UNCHANGED <<buf, r, w, pc>>
  BY DEF RInv, erase
<1>2. /\ e' \in Counter /\ ReadyLen' = ReadyLen /\ LineLen' = LineLen - k
      /\ Ready' = Ready /\ Line' = SubSeq(Line, 1, Len(Line) - k)
  BY <1>1, ErasesLast
<1>3. /\ ReadyLen \in Nat /\ LineLen \in Nat /\ INPUT_BUF \in Nat
      /\ Len(Line) = LineLen /\ Line \in Seq(LineChars)
      /\ ReadyLen + LineLen <= INPUT_BUF
  BY <1>1, Counters, Lengths, Sizes DEF RingInv
<1>4. TypeOK' /\ ReadInv' /\ SleepInv'
  BY <1>1, <1>2 DEF TypeOK, ReadInv, SleepInv
<1>5. RingInv'
  BY <1>1, <1>2, <1>3 DEF RingInv
<1>6. LineInv'
  <2> SUFFICES ASSUME NEW j \in 1 .. LineLen - k
               PROVE  buf[Plus(w, j - 1) % INPUT_BUF] \notin Ends
    BY <1>1, <1>2 DEF LineInv
  <2>1. j \in 1 .. LineLen
    BY <1>3
  <2> QED
    BY <1>1, <2>1 DEF LineInv
<1>7. CASE k = 0
  <2>1. Len(Line) - k = Len(Line) /\ SubSeq(Line, 1, Len(Line)) = Line
    BY <1>3, <1>7
  <2> QED
    BY <1>2, <1>4, <1>5, <1>6, <2>1 DEF RInv, Refines
<1>8. CASE k # 0
  <2>1. k \in 1 .. Len(Line) /\ k \in 1 .. INPUT_BUF
    BY <1>3, <1>8
  <2>2. T!Erase(k)
    BY <1>2, <2>1 DEF T!Erase
  <2> QED
    BY <1>4, <1>5, <1>6, <2>1, <2>2 DEF RInv, Refines, T!Next
<1> QED
  BY <1>7, <1>8

\* ^U erases the whole line: no newline is in it.
LEMMA KillLine ==
    ASSUME RInv
    PROVE  killLineLength = LineLen
<1>1. /\ Len(Line) = LineLen /\ LineLen \in Nat /\ DOMAIN Line = 1 .. LineLen
      /\ \A j \in 1 .. LineLen : Line[j] = buf[Place(w, j)]
  BY Lengths, Counters DEF RInv
<1>2. \A j \in 1 .. LineLen : Line[j] # NewLine
  BY <1>1 DEF RInv, LineInv, Place, Ends
<1>3. {0} \cup {i \in DOMAIN Line : Line[i] = NewLine} = {0}
  BY <1>1, <1>2
<1>4. Max({0}) = 0
  BY DEF Max
<1>5. killLineLength = Len(Line) - Max({0})
  BY <1>3 DEF killLineLength
<1> QED
  BY <1>1, <1>4, <1>5

\* Nothing that readers or Terminal see has changed.
LEMMA Quiet ==
    ASSUME RInv, UNCHANGED <<inputVars, pc, n, dst>>
    PROVE  RInv' /\ Refines
<1>1. RInv'
  BY DEF RInv, inputVars, TypeOK, RingInv, LineInv, ReadInv, SleepInv, ReadyLen,
         LineLen
<1>2. Refines
  BY DEF Refines, inputVars, Line, Ready, Slice
<1> QED
  BY <1>1, <1>2

\* One character of consoleintr, whatever it is.
LEMMA IntrStep ==
    ASSUME RInv, NEW c \in Received, consoleintr(c)
    PROVE  RInv' /\ Refines
<1>1. ~Locked /\ UNCHANGED <<n, dst>>
  BY DEF consoleintr
<1>2. CASE editKey(c)
  <2>1. LineLen \in Nat /\ (e # w => 1 <= LineLen)
    <3>1. e \in Counter /\ w \in Counter
      BY DEF RInv, TypeOK
    <3> QED
      BY <3>1, Distance, Sizes DEF LineLen
  <2>2. CASE procdump
    BY <1>1, <2>2, Quiet DEF procdump
  <2>3. CASE erase(killLineLength)
    <3>1. erase(LineLen)
      BY <2>3, KillLine
    <3> HIDE DEF LineLen
    <3> QED
      <4>1. LineLen <= LineLen
        BY <2>1
      <4> QED
        BY <1>1, <2>1, <3>1, <4>1, EraseStep
  <2>4. CASE e # w /\ erase(1)
    BY <1>1, <2>1, <2>4, EraseStep
  <2>5. CASE UNCHANGED <<inputVars, screen, pc, mixed>>
    BY <1>1, <2>5, Quiet
  <2> QED
    BY <1>2, <2>2, <2>3, <2>4, <2>5 DEF editKey
<1>3. CASE c \notin {"^P", "^U", "^H"} /\ ~editKey(c)
  <2> DEFINE d == IF c = "\r" THEN NewLine ELSE c
  <2>1. insert(d) \/ drop(d)
    BY <1>3 DEF consoleintr
  <2>2. CASE insert(d)
    <3>1. d # NO
      BY <2>2 DEF insert
    <3>2. d \in LineChars
      BY <3>1 DEF Received, LineChars
    <3> HIDE DEF d
    <3> QED
      BY <1>1, <2>2, <3>2, InsertStep
  <2>3. CASE drop(d)
    BY <1>1, <2>3, Quiet DEF drop
  <2> QED
    BY <2>1, <2>2, <2>3
<1> QED
  BY <1>2, <1>3 DEF consoleintr

\* kbdgetc hands over nothing else.
LEMMA KbdReceived ==
    ASSUME NEW m, NEW key
    PROVE  capsLock(m, charcode(m, key)) \in Received
<1>1. charcode(m, key) \in {NO, "d", "D", EndOfFile, "\r", NewLine}
  BY DEF charcode, EndOfFile
<1>2. \A c \in {NO, "d", "D", EndOfFile, "\r", NewLine} : capsLock(m, c) \in Received
  BY DEF capsLock, Received, NO, EndOfFile, NewLine
<1> QED
  BY <1>1, <1>2

-----------------------------------------------------------------------------
(* The keyboard *)

\* Two sequences of one element.
LEMMA Pair ==
    ASSUME NEW a, NEW b
    PROVE  <<a>> \o <<b>> = <<a, b>>
<1> DEFINE S == {a, b}  s == <<a>>  t == <<b>>  u == <<a, b>>
<1>1. /\ s \in Seq(S) /\ Len(s) = 1 /\ s[1] = a
      /\ t \in Seq(S) /\ Len(t) = 1 /\ t[1] = b
  OBVIOUS
<1>2. u \in Seq(S) /\ Len(u) = 2 /\ u[1] = a /\ u[2] = b
  OBVIOUS
<1> HIDE DEF S, s, t, u
<1>3. s \o t \in Seq(S) /\ Len(s \o t) = 2
  <2>1. s \o t \in Seq(S)
    BY <1>1, ConcatProperties, Zenon
  <2>2. Len(s \o t) = Len(s) + Len(t)
    BY <1>1, ConcatProperties, Zenon
  <2> QED
    BY <1>1, <2>1, <2>2
<1>4. (s \o t)[1] = a /\ (s \o t)[2] = b
  BY <1>1, ConcatProperties
<1>5. \A i \in 1 .. 2 : i = 1 \/ i = 2
  OBVIOUS
<1>6. s \o t = u
  BY <1>2, <1>3, <1>4, <1>5, SeqEqual
<1> QED
  BY <1>6 DEF s, t, u

\* A key that moves sends something.
LEMMA SentBytes ==
    \A key, up : KeyBytes(key, up) # <<>> /\ <<Byte(key.code, up)>> # <<>>
<1> TAKE key, up
<1>1. CASE key.ext
  BY <1>1 DEF KeyBytes
<1>2. CASE ~key.ext
  BY <1>2 DEF KeyBytes
<1> QED
  BY <1>1, <1>2

\* Keys moved and bytes taken keep modifiers and keys in agreement.
LEMMA KbdStep == IInv /\ [Next]_vars => KbdInv'
<1> SUFFICES ASSUME KbdInv, [Next]_vars PROVE KbdInv'
  BY DEF IInv
<1>1. ASSUME UNCHANGED kbdVars PROVE KbdInv'
  BY <1>1 DEF kbdVars, KbdInv, Sent, Explained
<1>2. ASSUME NEW key \in Keys, moveKey(key) PROVE KbdInv'
  <2>1. /\ key \in AllKeys /\ shift' = shift /\ held \subseteq AllKeys
        /\ wire' = KeyBytes(key, key \in held)
        /\ held' = IF key \in held THEN held \ {key} ELSE held \cup {key}
    BY <1>2, KeysAssumption DEF moveKey, KbdInv
  <2>2. /\ wire = <<>> /\ "E0ESC" \notin shift
        /\ \A m \in {"CTL", "SHIFT"} :
              m \in shift => \E k \in held : m \in shiftcode(k)
    BY <1>2, SentBytes DEF moveKey, KbdInv, Sent
  <2>3. held' \subseteq AllKeys
    BY <2>1
  <2>4. ASSUME NEW m \in {"CTL", "SHIFT"}, m \in shift
        PROVE  Explained(m, key)'
    <3>1. PICK k \in held : m \in shiftcode(k)
      BY <2>2, <2>4
    <3> QED
      BY <2>1, <3>1 DEF Explained
  <2>5. CASE key \in held
    <3>1. (key \in held) = TRUE
      BY <2>5
    <3>2. Sent(key, TRUE)'
      BY <2>1, <2>2, <3>1 DEF Sent
    <3> QED
      BY <2>1, <2>3, <2>4, <3>2 DEF KbdInv
  <2>6. CASE key \notin held
    <3>1. (key \in held) = FALSE
      BY <2>6
    <3>2. Sent(key, FALSE)' /\ key \in held'
      BY <2>1, <2>2, <2>6, <3>1 DEF Sent
    <3> QED
      BY <2>1, <2>3, <2>4, <3>2 DEF KbdInv
  <2> QED
    BY <2>5, <2>6
<1>3. CASE kbdintr
  <2>1. wire # <<>> /\ wire' = Tail(wire) /\ held' = held
    BY <1>3 DEF kbdintr
  <2>2. PICK key \in AllKeys, up \in BOOLEAN :
             /\ Sent(key, up)
             /\ ~up => key \in held
             /\ \A m \in {"CTL", "SHIFT"} : m \in shift => Explained(m, key)
    BY <2>1 DEF KbdInv
  <2>3. key.code \in Codes /\ key.ext \in BOOLEAN
          /\ key = [code |-> key.code, ext |-> key.ext]
          /\ "E0" \notin Codes
    BY <2>2 DEF AllKeys, Codes
  <2>4. CASE wire = KeyBytes(key, up) /\ key.ext /\ "E0ESC" \notin shift
    <3>1. wire = <<Byte("E0", FALSE), Byte(key.code, up)>>
      <4>1. wire = <<Byte("E0", FALSE)>> \o <<Byte(key.code, up)>>
        BY <2>4 DEF KeyBytes
      <4> QED
        BY <4>1, Pair
    <3>2. Head(wire).code = "E0" /\ Tail(wire) = <<Byte(key.code, up)>>
      BY <3>1 DEF Byte
    <3>3. shift' = shift \cup {"E0ESC"}
      BY <1>3, <3>2 DEF kbdintr
    <3>4. Sent(key, up)'
      BY <2>1, <2>4, <3>2, <3>3 DEF Sent
    <3>5. \A m \in {"CTL", "SHIFT"} : m \in shift' => Explained(m, key)'
      BY <2>1, <2>2, <3>3 DEF Explained
    <3> QED
      BY <2>1, <2>2, <3>4, <3>5 DEF KbdInv
  <2>5. CASE wire = <<Byte(key.code, up)>> /\ key.ext = ("E0ESC" \in shift)
    <3>1. /\ Head(wire).code = key.code /\ Head(wire).up = up
          /\ Tail(wire) = <<>>
      BY <2>5 DEF Byte
    <3>2. [code |-> Head(wire).code, ext |-> "E0ESC" \in shift] = key
      BY <2>3, <2>5, <3>1
    <3>3. (up /\ released(key)) \/ (~up /\ pressed(key))
      BY <1>3, <2>3, <3>1, <3>2 DEF kbdintr
    <3>4. CASE up /\ released(key)
      <4>1. shift' = shift \ (shiftcode(key) \cup {"E0ESC"})
        BY <3>4 DEF released
      <4>2. \A m \in {"CTL", "SHIFT"} :
               m \in shift' => \E k \in held' : m \in shiftcode(k)
        BY <2>1, <2>2, <4>1 DEF Explained
      <4> QED
        BY <2>1, <3>1, <4>1, <4>2 DEF KbdInv
    <3>5. CASE ~up /\ pressed(key)
      <4>1. shift' = Toggled(Pressed(key), togglecode(key)) /\ key \in held
        BY <2>2, <3>5 DEF pressed
      <4>2. /\ togglecode(key) \subseteq {"CAPSLOCK"}
            /\ "E0ESC" \notin shiftcode(key)
        BY DEF togglecode, shiftcode
      <4>3. "E0ESC" \notin shift'
        BY <4>1, <4>2 DEF Toggled, Pressed
      <4>4. \A m \in {"CTL", "SHIFT"} :
               m \in shift' => \E k \in held' : m \in shiftcode(k)
        <5> SUFFICES ASSUME NEW m \in {"CTL", "SHIFT"}, m \in shift'
                     PROVE  \E k \in held : m \in shiftcode(k)
          BY <2>1
        <5>1. m \in shift \/ m \in shiftcode(key)
          BY <4>1, <4>2 DEF Toggled, Pressed
        <5> QED
          BY <2>2, <4>1, <5>1 DEF Explained
      <4> QED
        BY <2>1, <3>1, <4>3, <4>4 DEF KbdInv
    <3> QED
      BY <3>3, <3>4, <3>5
  <2>6. CASE wire = KeyBytes(key, up) /\ ~key.ext /\ "E0ESC" \notin shift
    <3>1. wire = <<Byte(key.code, up)>>
      BY <2>6 DEF KeyBytes
    <3> QED
      BY <2>3, <2>5, <2>6, <3>1
  <2> QED
    BY <2>2, <2>3, <2>4, <2>5, <2>6 DEF Sent
<1>4. ASSUME NEW c, uartintr(c) PROVE UNCHANGED kbdVars
  BY <1>4 DEF uartintr
<1>5. ASSUME NEW s, consolewrite(s) PROVE UNCHANGED kbdVars
  BY <1>5 DEF consolewrite
<1>6. ASSUME NEW p, NEW k, consoleread(p, k) PROVE UNCHANGED kbdVars
  BY <1>6 DEF consoleread
<1>7. ASSUME NEW p, readPass(p) \/ sleepOnInput(p) \/ kill(p)
      PROVE  UNCHANGED kbdVars
  BY <1>7 DEF readPass, sleepOnInput, kill
<1>8. CASE UNCHANGED vars
  BY <1>1, <1>8 DEF vars
<1> QED
  BY <1>1, <1>2, <1>3, <1>4, <1>5, <1>6, <1>7, <1>8 DEF Next

-----------------------------------------------------------------------------
(* The screen *)

\* What can be on the screen or sent to it.
CharsOf(string) == {string[i] : i \in DOMAIN string}
Glyph == LineChars \cup {Blank, BACKSPACE}
           \cup UNION {CharsOf(string) : string \in Outputs \cup {Listing}}

\* The cells of CGA memory that are used, and where the cursor may be.
Cells == 0 .. (ROWS + 1) * COLS - 1
Visible == 0 .. ROWS * COLS - 1
Screens == [pos : Visible, crt : [Cells -> Glyph]]

\* What a screen that is moved but not scrolled yet can be.
MovedScreens == [pos : 0 .. ROWS * COLS, crt : [Cells -> Glyph]]

\* The sizes of the screen; there is a row above the last one.
LEMMA ScreenSizes ==
    /\ COLS \in Nat /\ COLS > 0 /\ ROWS \in Nat /\ ROWS * COLS \in Nat
    /\ (ROWS - 1) * COLS = ROWS * COLS - COLS
    /\ (ROWS + 1) * COLS = ROWS * COLS + COLS
    /\ INPUT_BUF <= ROWS * COLS - COLS /\ ROWS * COLS > COLS
    /\ Cells \subseteq Nat /\ Visible \subseteq Cells
<1>1. COLS \in Nat /\ COLS > 0 /\ ROWS \in Nat /\ ROWS > 0
        /\ INPUT_BUF <= (ROWS - 1) * COLS /\ INPUT_BUF \in Nat /\ INPUT_BUF > 0
  BY ScreenAssumption, Sizes
<1>2. /\ ROWS * COLS \in Nat
      /\ (ROWS - 1) * COLS = ROWS * COLS - COLS
      /\ (ROWS + 1) * COLS = ROWS * COLS + COLS
  BY <1>1
<1> QED
  BY <1>1, <1>2 DEF Cells, Visible

\* A place is below the last row when its number is too large.
LEMMA RowOf ==
    ASSUME NEW pos \in Nat
    PROVE  pos \div COLS >= ROWS <=> pos >= ROWS * COLS
<1> DEFINE q == pos \div COLS  rem == pos % COLS
<1>1. COLS \in Nat /\ COLS > 0 /\ ROWS \in Nat /\ ROWS * COLS \in Nat
  BY ScreenSizes
<1>2. pos = COLS * q + rem /\ q \in Int /\ rem \in 0 .. COLS - 1
  BY <1>1
<1> HIDE DEF q, rem
<1>3. q >= ROWS => pos >= ROWS * COLS
  <2>1. q >= ROWS => COLS * q >= COLS * ROWS
    BY <1>1, <1>2
  <2> QED
    BY <1>1, <1>2, <2>1
<1>4. q < ROWS => pos < ROWS * COLS
  <2>1. q < ROWS => COLS * (q + 1) <= COLS * ROWS
    BY <1>1, <1>2
  <2>2. COLS * (q + 1) = COLS * q + COLS /\ COLS * q \in Int
    BY <1>1, <1>2
  <2> QED
    BY <1>1, <1>2, <2>1, <2>2
<1>5. q >= ROWS <=> pos >= ROWS * COLS
  BY <1>1, <1>2, <1>3, <1>4
<1> QED
  BY <1>5 DEF q

\* The rows move up when the cursor has left the last one.
LEMMA MustScrollIs ==
    ASSUME NEW s, s.pos \in Nat
    PROVE  MustScroll(s) <=> s.pos >= ROWS * COLS
BY RowOf, Zenon DEF MustScroll

\* The next row begins behind the cursor, and at most one row is too much.
LEMMA NextRow ==
    ASSUME NEW pos \in Visible
    PROVE  pos + COLS - (pos % COLS) \in 1 .. ROWS * COLS
<1> DEFINE q == pos \div COLS  rem == pos % COLS
<1>1. COLS \in Nat /\ COLS > 0 /\ ROWS \in Nat /\ ROWS * COLS \in Nat
        /\ pos \in Nat /\ pos < ROWS * COLS
  BY ScreenSizes DEF Visible
<1>2. pos = COLS * q + rem /\ q \in Int /\ rem \in 0 .. COLS - 1
  BY <1>1
<1> HIDE DEF q, rem
<1>3. q < ROWS
  <2>1. q >= ROWS => COLS * q >= COLS * ROWS
    BY <1>1, <1>2
  <2> QED
    BY <1>1, <1>2, <2>1
<1>4. COLS * (q + 1) <= COLS * ROWS /\ COLS * (q + 1) = COLS * q + COLS
        /\ COLS * q \in Int
  BY <1>1, <1>2, <1>3
<1>5. pos + COLS - rem \in 1 .. ROWS * COLS
  BY <1>1, <1>2, <1>4
<1> QED
  BY <1>5 DEF rem

\* What moving the cursor makes of a screen, character by character.
LEMMA MovesFacts ==
    ASSUME NEW s \in Screens, NEW c \in Glyph
    PROVE  /\ cursorMoves(s, c) \in MovedScreens
           /\ c = BACKSPACE /\ s.pos > 0 =>
                cursorMoves(s, c).pos = s.pos - 1 /\ cursorMoves(s, c).crt = s.crt
           /\ c \notin {NewLine, BACKSPACE} =>
                /\ cursorMoves(s, c).pos = s.pos + 1
                /\ cursorMoves(s, c).crt = [s.crt EXCEPT ![s.pos] = c]
<1>1. /\ s.pos \in Visible /\ s.crt \in [Cells -> Glyph] /\ s.pos \in Nat
      /\ s.pos < ROWS * COLS /\ ROWS * COLS \in Nat /\ s.pos \in Cells
      /\ s = [pos |-> s.pos, crt |-> s.crt]
  BY ScreenSizes DEF Screens, Visible
<1>2. CASE c = NewLine
  <2>1. NewLine # BACKSPACE
    BY DEF NewLine, BACKSPACE
  <2>2. cursorMoves(s, c) = [pos |-> s.pos + COLS - (s.pos % COLS), crt |-> s.crt]
    <3>1. cursorMoves(s, c) = [s EXCEPT !.pos = s.pos + COLS - (s.pos % COLS)]
      BY <1>2, <2>1, Zenon DEF cursorMoves
    <3>2. \A x : [s EXCEPT !.pos = x] = [pos |-> x, crt |-> s.crt]
      BY <1>1
    <3> QED
      BY <3>1, <3>2, Zenon
  <2>3. s.pos + COLS - (s.pos % COLS) \in 0 .. ROWS * COLS
    BY <1>1, NextRow, ScreenSizes
  <2> QED
    BY <1>1, <1>2, <2>1, <2>2, <2>3 DEF MovedScreens
<1>3. CASE c = BACKSPACE
  <2>1. c # NewLine
    BY <1>3 DEF NewLine, BACKSPACE
  <2>2. cursorMoves(s, c) =
          [pos |-> IF s.pos > 0 THEN s.pos - 1 ELSE s.pos, crt |-> s.crt]
    BY <1>1, <1>3, <2>1 DEF cursorMoves
  <2> QED
    BY <1>1, <1>3, <2>1, <2>2 DEF MovedScreens
<1>4. CASE c \notin {NewLine, BACKSPACE}
  <2>1. cursorMoves(s, c) = [pos |-> s.pos + 1, crt |-> [s.crt EXCEPT ![s.pos] = c]]
    BY <1>1, <1>4 DEF cursorMoves
  <2> QED
    BY <1>1, <1>4, <2>1 DEF MovedScreens
<1> QED
  BY <1>2, <1>3, <1>4

\* The cells before the cursor stay, or all move up by one row.
LEMMA ScrollFacts ==
    ASSUME NEW s \in MovedScreens
    PROVE  /\ showCursor(scrollUp(s)) \in Screens
           /\ s.pos < ROWS * COLS =>
                /\ showCursor(scrollUp(s)).pos = s.pos
                /\ \A i \in 0 .. s.pos - 1 : showCursor(scrollUp(s)).crt[i] = s.crt[i]
           /\ s.pos = ROWS * COLS =>
                /\ showCursor(scrollUp(s)).pos = s.pos - COLS
                /\ \A i \in COLS .. s.pos - 1 :
                     showCursor(scrollUp(s)).crt[i - COLS] = s.crt[i]
<1>1. /\ s.pos \in Nat /\ s.pos <= ROWS * COLS /\ s.crt \in [Cells -> Glyph]
      /\ s = [pos |-> s.pos, crt |-> s.crt] /\ Blank \in Glyph
      /\ DOMAIN s.crt = Cells
  <2>1. /\ s.pos \in 0 .. ROWS * COLS /\ s.crt \in [Cells -> Glyph]
        /\ s = [pos |-> s.pos, crt |-> s.crt]
    BY DEF MovedScreens
  <2>2. Blank \in Glyph
    BY DEF Blank, Glyph
  <2>3. s.pos \in Nat /\ s.pos <= ROWS * COLS
    BY <2>1, ScreenSizes
  <2> QED
    BY <2>1, <2>2, <2>3
<1> DEFINE u == scrollUp(s)  t == showCursor(u)
<1>2. ASSUME u.pos \in Visible, u.crt \in [Cells -> Glyph],
             u = [pos |-> u.pos, crt |-> u.crt]
      PROVE  t \in Screens /\ t.pos = u.pos /\ t.crt = [u.crt EXCEPT ![u.pos] = Blank]
  <2> HIDE DEF u
  <2>1. u.pos \in Cells
    BY <1>2, ScreenSizes
  <2>2. t = [pos |-> u.pos, crt |-> [u.crt EXCEPT ![u.pos] = Blank]]
    BY <1>2 DEF showCursor
  <2> QED
    BY <1>1, <1>2, <2>1, <2>2 DEF Screens
<1>3. CASE s.pos < ROWS * COLS
  <2>1. u = s
    BY <1>1, <1>3, MustScrollIs, ScreenSizes DEF scrollUp
  <2>2. s.pos \in Visible /\ s.pos # ROWS * COLS
    BY <1>1, <1>3, ScreenSizes DEF Visible
  <2>3. t \in Screens /\ t.pos = s.pos /\ t.crt = [s.crt EXCEPT ![s.pos] = Blank]
    BY <1>1, <1>2, <2>1, <2>2
  <2> HIDE DEF t, u
  <2>4. ASSUME NEW i \in 0 .. s.pos - 1 PROVE t.crt[i] = s.crt[i]
    <3>1. i # s.pos /\ i \in Cells
      BY <1>1, <1>3, ScreenSizes DEF Cells
    <3> QED
      BY <1>1, <2>3, <3>1
  <2> QED
    BY <2>2, <2>3, <2>4 DEF t, u
<1>4. CASE s.pos = ROWS * COLS
  <2> DEFINE crt == [i \in Cells |->
                       IF i >= s.pos - COLS /\ i < ROWS * COLS THEN Blank
                       ELSE IF i < (ROWS - 1) * COLS THEN s.crt[i + COLS]
                       ELSE s.crt[i]]
  <2>1. u = [pos |-> s.pos - COLS, crt |-> crt]
    BY <1>1, <1>4, MustScrollIs, ScreenSizes DEF scrollUp
  <2>2. crt \in [Cells -> Glyph]
    <3> SUFFICES ASSUME NEW i \in Cells, i < (ROWS - 1) * COLS
                 PROVE  i + COLS \in Cells
      BY <1>1
    <3> QED
      BY ScreenSizes DEF Cells
  <2>3. s.pos - COLS \in Visible /\ ~(s.pos < ROWS * COLS)
    BY <1>1, <1>4, ScreenSizes DEF Visible
  <2>4. \A i \in COLS .. s.pos - 1 :
           i - COLS \in Cells /\ i - COLS # s.pos - COLS /\ crt[i - COLS] = s.crt[i]
    <3> TAKE i \in COLS .. s.pos - 1
    <3>1. i \in Nat /\ COLS <= i /\ i < ROWS * COLS
      BY <1>4, ScreenSizes
    <3>2. /\ i - COLS \in Cells /\ i - COLS < ROWS * COLS - COLS
          /\ i - COLS < (ROWS - 1) * COLS /\ (i - COLS) + COLS = i
          /\ ~(i - COLS >= ROWS * COLS - COLS) /\ i - COLS # ROWS * COLS - COLS
      BY <3>1, ScreenSizes DEF Cells
    <3> QED
      BY <1>4, <3>2
  <2> HIDE DEF crt
  <2>5. /\ t \in Screens /\ t.pos = s.pos - COLS
        /\ t.crt = [crt EXCEPT ![s.pos - COLS] = Blank]
    BY <1>2, <2>1, <2>2, <2>3
  <2> HIDE DEF t, u
  <2>6. \A i \in COLS .. s.pos - 1 : t.crt[i - COLS] = s.crt[i]
    BY <2>2, <2>4, <2>5
  <2> QED
    BY <2>3, <2>5, <2>6 DEF t, u
<1> QED
  BY <1>1, <1>3, <1>4, ScreenSizes

\* cgaputc keeps the cursor on the screen.
LEMMA PutKeeps ==
    ASSUME NEW s \in Screens, NEW c \in Glyph
    PROVE  cgaputc(s, c) \in Screens
BY MovesFacts, ScrollFacts DEF cgaputc

\* A BACKSPACE behind other characters takes the last one only.
LEMMA PutBack ==
    ASSUME NEW s \in Screens, s.pos > 0
    PROVE  /\ cgaputc(s, BACKSPACE).pos = s.pos - 1
           /\ \A i \in 0 .. s.pos - 2 : cgaputc(s, BACKSPACE).crt[i] = s.crt[i]
<1> DEFINE m == cursorMoves(s, BACKSPACE)  t == showCursor(scrollUp(m))
<1>1. s.pos \in Nat /\ s.pos < ROWS * COLS /\ ROWS * COLS \in Nat
  BY ScreenSizes DEF Screens, Visible
<1>2. m \in MovedScreens /\ m.pos = s.pos - 1 /\ m.crt = s.crt
  <2>1. BACKSPACE \in Glyph
    BY DEF Glyph
  <2> QED
    BY <2>1, MovesFacts
<1> HIDE DEF m
<1>3. m.pos < ROWS * COLS /\ m.pos - 1 = s.pos - 2
  BY <1>1, <1>2
<1>4. t.pos = s.pos - 1 /\ \A i \in 0 .. s.pos - 2 : t.crt[i] = s.crt[i]
  BY <1>2, <1>3, ScrollFacts
<1> QED
  BY <1>4 DEF t, m, cgaputc

\* A character goes behind what was there; the rows of both may move up.
Lost(s) == IF s.pos + 1 = ROWS * COLS THEN COLS ELSE 0

LEMMA PutChar ==
    ASSUME NEW s \in Screens, NEW c \in Glyph, c \notin {NewLine, BACKSPACE}
    PROVE  /\ cgaputc(s, c).pos = s.pos + 1 - Lost(s)
           /\ \A i \in Lost(s) .. s.pos - 1 : cgaputc(s, c).crt[i - Lost(s)] = s.crt[i]
           /\ cgaputc(s, c).crt[s.pos - Lost(s)] = c
<1> DEFINE m == cursorMoves(s, c)  t == showCursor(scrollUp(m))
<1>1. /\ s.pos \in Nat /\ s.pos < ROWS * COLS /\ ROWS * COLS \in Nat
      /\ s.pos \in Cells /\ s.crt \in [Cells -> Glyph]
      /\ COLS \in Nat /\ COLS > 0 /\ ROWS * COLS > COLS
  BY ScreenSizes DEF Screens, Visible
<1>2. m \in MovedScreens /\ m.pos = s.pos + 1 /\ m.crt = [s.crt EXCEPT ![s.pos] = c]
  BY MovesFacts
<1>3. /\ m.crt[s.pos] = c
      /\ \A i \in 0 .. s.pos - 1 : m.crt[i] = s.crt[i]
  <2>1. \A i \in 0 .. s.pos - 1 : i # s.pos /\ i \in Cells
    BY <1>1, ScreenSizes DEF Cells
  <2> QED
    BY <1>1, <1>2, <2>1
<1> HIDE DEF m
<1>4. CASE s.pos + 1 = ROWS * COLS
  <2>1. Lost(s) = COLS
    BY <1>4 DEF Lost
  <2>2. /\ t.pos = s.pos + 1 - COLS
        /\ \A i \in COLS .. s.pos : t.crt[i - COLS] = m.crt[i]
    <3>1. /\ m.pos = ROWS * COLS /\ m.pos - 1 = s.pos
          /\ m.pos - COLS = s.pos + 1 - COLS
      BY <1>1, <1>2, <1>4
    <3>2. t.pos = m.pos - COLS /\ \A i \in COLS .. m.pos - 1 : t.crt[i - COLS] = m.crt[i]
      BY <1>2, <3>1, ScrollFacts, Zenon
    <3> QED
      BY <3>1, <3>2, Zenon
  <2>3. s.pos \in COLS .. s.pos /\ \A i \in COLS .. s.pos - 1 :
            i \in COLS .. s.pos /\ i \in 0 .. s.pos - 1
    BY <1>1, <1>4
  <2> HIDE DEF t
  <2> QED
    BY <1>3, <2>1, <2>2, <2>3 DEF t, m, cgaputc
<1>5. CASE s.pos + 1 # ROWS * COLS
  <2>1. Lost(s) = 0
    BY <1>5 DEF Lost
  <2>2. t.pos = s.pos + 1 /\ \A i \in 0 .. s.pos : t.crt[i] = m.crt[i]
    <3>1. m.pos < ROWS * COLS /\ m.pos - 1 = s.pos
      BY <1>1, <1>2, <1>5
    <3>2. t.pos = m.pos /\ \A i \in 0 .. m.pos - 1 : t.crt[i] = m.crt[i]
      BY <1>2, <3>1, ScrollFacts, Zenon
    <3> HIDE DEF t
    <3> QED
      BY <1>2, <3>1, <3>2
  <2>3. /\ s.pos - 0 = s.pos /\ s.pos + 1 - 0 = s.pos + 1 /\ s.pos \in 0 .. s.pos
        /\ \A i \in 0 .. s.pos - 1 : i - 0 = i /\ i \in 0 .. s.pos
    BY <1>1
  <2> HIDE DEF t
  <2> QED
    BY <1>3, <2>1, <2>2, <2>3 DEF t, m, cgaputc
<1> QED
  BY <1>4, <1>5

\* f is the screen after 0, 1, ... m characters of a string.
Written(f, s, string, m) ==
    f = [k \in 0 .. m |-> IF k = 0 THEN s ELSE cgaputc(f[k - 1], string[k])]

\* The loop of consolewrite can be followed to any character: there is no first
\* one at which it cannot.
LEMMA WrittenExists ==
    ASSUME NEW s, NEW string, NEW m \in Nat
    PROVE  \E f : Written(f, s, string, m)
<1> DEFINE S == {k \in Nat : ~ \E f : Written(f, s, string, k)}
<1>1. ASSUME S # {} PROVE FALSE
  <2> DEFINE k == Min(S)
  <2>1. k \in S /\ \A x \in S : k <= x
    BY <1>1, MinIn
  <2> HIDE DEF k
  <2>2. k \in Nat /\ ~ \E f : Written(f, s, string, k)
    BY <2>1
  <2>3. CASE k = 0
    <3> DEFINE f == [j \in 0 .. 0 |-> s]
    <3>1. f = [j \in 0 .. 0 |-> IF j = 0 THEN s ELSE cgaputc(f[j - 1], string[j])]
      <4>1. \A j \in 0 .. 0 : j = 0
        OBVIOUS
      <4> QED
        BY <4>1, Zenon
    <3>2. Written(f, s, string, 0)
      BY <3>1, Zenon DEF Written
    <3> QED
      BY <2>2, <2>3, <3>2, Zenon
  <2>4. CASE k # 0
    <3>1. k - 1 \in Nat /\ k - 1 \notin S
      BY <2>1, <2>2, <2>4
    <3>2. PICK f : Written(f, s, string, k - 1)
      BY <3>1
    <3>3. \A j \in 0 .. k - 1 :
             f[j] = IF j = 0 THEN s ELSE cgaputc(f[j - 1], string[j])
      BY <3>2, Zenon DEF Written
    <3> DEFINE g == [j \in 0 .. k |->
                       IF j = k THEN cgaputc(f[k - 1], string[k]) ELSE f[j]]
    <3>4. \A j \in 0 .. k : j # k => g[j] = f[j] /\ j \in 0 .. k - 1
      BY <2>2
    <3>5. \A j \in 0 .. k : j # 0 => g[j - 1] = f[j - 1]
      <4> TAKE j \in 0 .. k
      <4> HAVE j # 0
      <4>1. j - 1 \in 0 .. k /\ j - 1 # k
        BY <2>2
      <4> QED
        BY <3>4, <4>1, Zenon
    <3>6. \A j \in 0 .. k : g[j] = IF j = 0 THEN s ELSE cgaputc(g[j - 1], string[j])
      <4> TAKE j \in 0 .. k
      <4> HIDE DEF g
      <4>1. CASE j = k
        <5>1. g[j] = cgaputc(f[j - 1], string[j])
          BY <4>1, Zenon DEF g
        <5> QED
          BY <2>4, <3>5, <4>1, <5>1, Zenon
      <4>2. CASE j # k
        BY <3>3, <3>4, <3>5, <4>2, Zenon
      <4> QED
        BY <4>1, <4>2
    <3>7. g = [j \in 0 .. k |-> g[j]]
      OBVIOUS
    <3> HIDE DEF g
    <3>8. Written(g, s, string, k)
      BY <3>6, <3>7, Zenon DEF Written
    <3> QED
      BY <2>2, <3>8, Zenon
  <2> QED
    BY <2>3, <2>4
<1> QED
  BY <1>1

\* What a string leaves on the screen is the end of that loop.
LEMMA PutsAre ==
    ASSUME NEW s, NEW string, Len(string) \in Nat
    PROVE  \E f : /\ cgaputs(s, string) = f[Len(string)]
                  /\ \A k \in 0 .. Len(string) :
                       f[k] = IF k = 0 THEN s ELSE cgaputc(f[k - 1], string[k])
<1> DEFINE P(g) == g = [k \in 0 .. Len(string) |->
                          IF k = 0 THEN s ELSE cgaputc(g[k - 1], string[k])]
           h == CHOOSE g : P(g)
<1>1. PICK f : Written(f, s, string, Len(string))
  BY WrittenExists
<1>2. P(f)
  BY <1>1, Zenon DEF Written
<1>3. P(h)
  BY <1>2, Zenon
<1>4. cgaputs(s, string) = h[Len(string)]
  BY Zenon DEF cgaputs
<1> HIDE DEF h
<1>5. \A k \in 0 .. Len(string) :
         h[k] = IF k = 0 THEN s ELSE cgaputc(h[k - 1], string[k])
  BY <1>3, Zenon
<1> QED
  BY <1>4, <1>5, Zenon

\* A string keeps the cursor on the screen: no character is the first to move
\* it off.
LEMMA PutsKeep ==
    ASSUME NEW s \in Screens, NEW string \in Seq(Glyph)
    PROVE  cgaputs(s, string) \in Screens
<1>1. Len(string) \in Nat /\ \A k \in 1 .. Len(string) : string[k] \in Glyph
  OBVIOUS
<1>2. PICK f : /\ cgaputs(s, string) = f[Len(string)]
               /\ \A k \in 0 .. Len(string) :
                    f[k] = IF k = 0 THEN s ELSE cgaputc(f[k - 1], string[k])
  BY <1>1, PutsAre
<1> DEFINE S == {k \in 0 .. Len(string) : f[k] \notin Screens}
<1>3. ASSUME S # {} PROVE FALSE
  <2> DEFINE k == Min(S)
  <2>1. S \subseteq Nat
    BY <1>1
  <2>2. k \in S /\ \A x \in S : k <= x
    BY <1>3, <2>1, MinIn
  <2> HIDE DEF k
  <2>3. k \in 0 .. Len(string) /\ f[k] \notin Screens
    BY <2>2
  <2>4. k # 0
    BY <1>2, <2>3
  <2>5. k - 1 \in 0 .. Len(string) /\ k - 1 \notin S /\ k \in 1 .. Len(string)
    BY <1>1, <2>2, <2>3, <2>4
  <2>6. f[k - 1] \in Screens /\ string[k] \in Glyph
    BY <1>1, <2>5
  <2>7. f[k] = cgaputc(f[k - 1], string[k])
    BY <1>2, <2>3, <2>4, Zenon
  <2> QED
    BY <2>3, <2>6, <2>7, PutKeeps, Zenon
<1>4. Len(string) \in 0 .. Len(string)
  BY <1>1
<1> QED
  BY <1>2, <1>3, <1>4

\* k BACKSPACEs behind k or more characters take the last k of them.
LEMMA Rubout ==
    ASSUME NEW s \in Screens, NEW k \in Nat, k <= s.pos,
           NEW t, t = cgaputs(s, [i \in 1 .. k |-> BACKSPACE])
    PROVE  t.pos = s.pos - k /\ \A i \in 0 .. s.pos - k - 1 : t.crt[i] = s.crt[i]
<1> DEFINE string == [i \in 1 .. k |-> BACKSPACE]
<1>1. Len(string) = k /\ \A j \in 1 .. k : string[j] = BACKSPACE
  OBVIOUS
<1>2. s.pos \in Nat
  BY ScreenSizes DEF Screens, Visible
<1>3. t = cgaputs(s, string)
  OBVIOUS
<1> HIDE DEF string
<1>4. PICK f : /\ cgaputs(s, string) = f[k]
               /\ \A j \in 0 .. k :
                    f[j] = IF j = 0 THEN s ELSE cgaputc(f[j - 1], string[j])
  BY <1>1, PutsAre
<1> DEFINE Good(j) == /\ f[j] \in Screens /\ f[j].pos = s.pos - j
                      /\ \A i \in 0 .. s.pos - j - 1 : f[j].crt[i] = s.crt[i]
           S == {j \in 0 .. k : ~Good(j)}
<1>5. ASSUME S # {} PROVE FALSE
  <2> DEFINE j == Min(S)
  <2>1. S \subseteq Nat
    OBVIOUS
  <2>2. j \in S /\ \A x \in S : j <= x
    BY <1>5, <2>1, MinIn
  <2> HIDE DEF j
  <2>3. j \in 0 .. k /\ ~Good(j)
    BY <2>2
  <2>4. j # 0
    <3>1. f[0] = s
      BY <1>4
    <3>2. s.pos - 0 = s.pos
      BY <1>2
    <3>3. Good(0)
      BY <3>1, <3>2
    <3> QED
      BY <2>3, <3>3
  <2>5. j - 1 \in 0 .. k /\ j - 1 \notin S /\ j \in 1 .. k
    BY <2>2, <2>3, <2>4
  <2>6. Good(j - 1) /\ f[j] = cgaputc(f[j - 1], BACKSPACE)
    <3>1. f[j] = cgaputc(f[j - 1], string[j])
      BY <1>4, <2>3, <2>4, Zenon
    <3> QED
      BY <1>1, <2>5, <3>1
  <2> DEFINE u == f[j - 1]
  <2>7. /\ u \in Screens /\ u.pos = s.pos - (j - 1)
        /\ \A i \in 0 .. s.pos - (j - 1) - 1 : u.crt[i] = s.crt[i]
    BY <2>6
  <2> HIDE DEF u
  <2>8. /\ u.pos > 0 /\ u.pos - 1 = s.pos - j
        /\ \A i \in 0 .. s.pos - j - 1 :
             i \in 0 .. u.pos - 2 /\ i \in 0 .. s.pos - (j - 1) - 1
    <3> DEFINE x == s.pos  y == u.pos
    <3>1. x \in Nat /\ y = x - (j - 1) /\ k <= x /\ j \in Nat /\ j >= 1 /\ j <= k
      BY <1>2, <2>5, <2>7
    <3> HIDE DEF x, y
    <3>2. /\ y > 0 /\ y - 1 = x - j
          /\ \A i \in 0 .. x - j - 1 : i \in 0 .. y - 2 /\ i \in 0 .. x - (j - 1) - 1
      BY <3>1
    <3> QED
      BY <3>2, Zenon DEF x, y
  <2>9. BACKSPACE \in Glyph
    BY DEF Glyph
  <2>10. /\ cgaputc(u, BACKSPACE).pos = s.pos - j /\ cgaputc(u, BACKSPACE) \in Screens
         /\ \A i \in 0 .. s.pos - j - 1 : cgaputc(u, BACKSPACE).crt[i] = s.crt[i]
    <3>1. /\ cgaputc(u, BACKSPACE).pos = u.pos - 1
          /\ \A i \in 0 .. u.pos - 2 : cgaputc(u, BACKSPACE).crt[i] = u.crt[i]
          /\ cgaputc(u, BACKSPACE) \in Screens
      BY <2>7, <2>8, <2>9, PutBack, PutKeeps, Zenon
    <3> QED
      BY <2>7, <2>8, <3>1, Zenon
  <2>11. f[j] = cgaputc(u, BACKSPACE)
    BY <2>6 DEF u
  <2> QED
    BY <2>3, <2>10, <2>11, Zenon
<1>6. Good(k)
  <2>1. k \in 0 .. k
    OBVIOUS
  <2> QED
    BY <1>5, <2>1
<1> QED
  BY <1>3, <1>4, <1>6

\* The cursor is on the screen, and the line before it unless others wrote.
ScreenInv == screen \in Screens /\ mixed \in BOOLEAN /\ EditedLineShown

\* How long the line is.
LEMMA LineLength == RInv => Len(Line) = LineLen /\ DOMAIN Line = 1 .. LineLen
BY Lengths, Counters DEF RInv

\* The line shown, in terms of its length.
LEMMA ShownIs ==
    ASSUME RInv
    PROVE  EditedLineShown <=>
             /\ screen.pos \in Visible
             /\ ~mixed =>
                  /\ screen.pos >= LineLen
                  /\ \A i \in 1 .. LineLen :
                       screen.crt[screen.pos - LineLen + i - 1] = Line[i]
BY LineLength, Zenon DEF EditedLineShown, Visible

\* What is left of the line is not shown, or there is none.
LEMMA NothingToShow ==
    ASSUME RInv', screen' \in Screens, mixed' \in BOOLEAN, mixed' \/ LineLen' = 0
    PROVE  ScreenInv'
<1>1. screen'.pos \in Visible /\ screen'.pos \in Nat
  BY ScreenSizes DEF Screens
<1>2. Len(Line') = LineLen' /\ DOMAIN (Line') = 1 .. LineLen'
  <2>1. (RInv => Len(Line) = LineLen /\ DOMAIN Line = 1 .. LineLen)'
    BY LineLength, PTL
  <2> QED
    BY <2>1
<1>3. mixed' \/ (Len(Line') = 0 /\ DOMAIN (Line') = {})
  BY <1>2
<1>4. EditedLineShown'
  BY <1>1, <1>3 DEF EditedLineShown, Visible
<1> QED
  BY <1>4 DEF ScreenInv

\* consolewrite and procdump.
LEMMA ScreenWrite ==
    ASSUME RInv, RInv', ScreenInv, NEW string \in Outputs \cup {Listing},
           screen' = cgaputs(screen, string), mixed' = (Line # <<>>),
           UNCHANGED inputVars
    PROVE  ScreenInv'
<1>1. string \in Seq(Glyph)
  <2>1. string \in Seq(CharsOf(string))
    BY OutputsAssumption DEF CharsOf
  <2>2. CharsOf(string) \subseteq Glyph
    BY DEF Glyph
  <2> QED
    BY <2>1, <2>2
<1>2. screen' \in Screens
  BY <1>1, PutsKeep DEF ScreenInv
<1>3. LineLen' = LineLen /\ LineLen \in Nat /\ Len(Line) = LineLen
  BY Lengths, Counters DEF RInv, inputVars, LineLen
<1>4. Line = <<>> => LineLen = 0
  BY <1>3
<1> QED
  BY <1>2, <1>3, <1>4, NothingToShow

\* A character typed: it is shown behind the line, of which no row is lost.
LEMMA ScreenInsert ==
    ASSUME RInv, RInv', ScreenInv, NEW c \in LineChars, insert(c)
    PROVE  ScreenInv'
<1>1. /\ TypeOK /\ RingInv /\ HasRoom /\ screen' = cgaputc(screen, c)
      /\ buf' = [buf EXCEPT ![e % INPUT_BUF] = c] /\ e' = Plus(e, 1) /\ r' = r
      /\ screen \in Screens /\ mixed \in BOOLEAN /\ c \in Glyph
  BY DEF RInv, insert, ScreenInv, Glyph
<1>2. /\ ReadyLen + LineLen < INPUT_BUF /\ INPUT_BUF \in Nat
      /\ FinishesLine(c) <=> (c \in Ends \/ ReadyLen + LineLen + 1 = INPUT_BUF)
      /\ ReadyLen \in Nat /\ LineLen \in Nat /\ Len(Line) = LineLen
      /\ Line \in Seq(LineChars)
  BY <1>1, RoomFacts, Counters, Lengths, Sizes
<1>3. screen' \in Screens
  BY <1>1, PutKeeps
<1>4. CASE FinishesLine(c)
  <2>1. w' = e' /\ mixed' = FALSE
    BY <1>4 DEF insert
  <2>2. LineLen' = 0
    BY <1>1, <1>2, <2>1, Inserts
  <2> QED
    BY <1>3, <2>1, <2>2, NothingToShow
<1>5. CASE ~FinishesLine(c) /\ mixed
  <2>1. mixed' = mixed
    BY <1>5 DEF insert
  <2> QED
    BY <1>1, <1>3, <1>5, <2>1, NothingToShow
<1>6. CASE ~FinishesLine(c) /\ ~mixed
  <2>1. w' = w /\ mixed' = mixed
    BY <1>6 DEF insert
  <2>2. LineLen' = LineLen + 1 /\ Line' = Append(Line, c)
    BY <1>1, <1>2, <2>1, Inserts
  <2>3. c \notin {NewLine, BACKSPACE}
    <3>1. c # NewLine
      BY <1>2, <1>6 DEF Ends
    <3>2. BACKSPACE \notin LineChars
      BY SerialAssumption DEF LineChars, BACKSPACE, NewLine, EndOfFile
    <3> QED
      BY <3>1, <3>2
  <2>4. /\ screen.pos \in Visible /\ screen.pos >= LineLen
        /\ \A i \in 1 .. LineLen : screen.crt[screen.pos - LineLen + i - 1] = Line[i]
    BY <1>6, ShownIs DEF ScreenInv
  <2> DEFINE x == screen.pos  y == screen'.pos  d == Lost(screen)  len == LineLen
  <2>5. /\ y = x + 1 - d
        /\ \A i \in d .. x - 1 : screen'.crt[i - d] = screen.crt[i]
        /\ screen'.crt[x - d] = c
    BY <1>1, <2>3, PutChar
  <2>6. /\ x \in Nat /\ len \in Nat /\ d \in Nat /\ len <= x /\ x < ROWS * COLS
        /\ d = (IF x + 1 = ROWS * COLS THEN COLS ELSE 0)
        /\ len + 1 <= ROWS * COLS - COLS /\ ROWS * COLS \in Nat /\ COLS \in Nat
        /\ COLS > 0
    BY <1>2, <2>4, ScreenSizes DEF Visible, Lost
  <2> HIDE DEF x, y, d, len
  <2>7. y >= len + 1 /\ x - d = y - (len + 1) + (len + 1) - 1
    BY <2>5, <2>6
  <2>8. ASSUME NEW i \in 1 .. len
        PROVE  /\ x - len + i - 1 \in d .. x - 1
               /\ (x - len + i - 1) - d = y - (len + 1) + i - 1
    BY <2>5, <2>6
  <2>9. Line'[len + 1] = c /\ \A i \in 1 .. len : Line'[i] = Line[i]
    BY <1>2, <2>2 DEF len
  <2>10. ASSUME NEW i \in 1 .. len + 1
         PROVE  screen'.crt[y - (len + 1) + i - 1] = Line'[i]
    <3>1. CASE i = len + 1
      BY <2>5, <2>7, <2>9, <3>1
    <3>2. CASE i # len + 1
      <4>1. i \in 1 .. len
        BY <2>6, <3>2
      <4>2. screen.crt[x - len + i - 1] = Line[i]
        BY <2>4, <4>1 DEF x, len
      <4> QED
        BY <2>5, <2>8, <2>9, <4>1, <4>2
    <3> QED
      BY <3>1, <3>2
  <2>11. /\ screen'.pos \in Visible
         /\ screen'.pos >= LineLen'
         /\ \A i \in 1 .. LineLen' :
              screen'.crt[screen'.pos - LineLen' + i - 1] = Line'[i]
    <3>1. screen'.pos \in Visible
      BY <1>3 DEF Screens
    <3>2. LineLen' = len + 1
      BY <2>2 DEF len
    <3> QED
      BY <2>7, <2>10, <3>1, <3>2 DEF y
  <2>12. Len(Line') = LineLen' /\ DOMAIN (Line') = 1 .. LineLen'
    BY <1>2, <2>2
  <2>13. EditedLineShown'
    BY <2>11, <2>12, Zenon DEF EditedLineShown, Visible
  <2> QED
    BY <1>1, <1>3, <2>1, <2>13 DEF ScreenInv
<1> QED
  BY <1>1, <1>4, <1>5, <1>6

\* Characters taken back are taken from the screen.
LEMMA ScreenErase ==
    ASSUME RInv, RInv', ScreenInv, NEW k \in Nat, k <= LineLen, erase(k)
    PROVE  ScreenInv'
<1> DEFINE blanks == [i \in 1 .. k |-> BACKSPACE]
<1>1. /\ TypeOK /\ RingInv /\ e' = Minus(e, k) /\ UNCHANGED <<buf, r, w>>
      /\ screen' = cgaputs(screen, blanks) /\ mixed' = (mixed /\ k < Len(Line))
      /\ screen \in Screens /\ mixed \in BOOLEAN
  BY DEF RInv, erase, ScreenInv
<1>2. LineLen' = LineLen - k /\ Line' = SubSeq(Line, 1, Len(Line) - k)
  BY <1>1, ErasesLast
<1>3. LineLen \in Nat /\ Len(Line) = LineLen /\ Line \in Seq(LineChars)
  BY <1>1, Counters, Lengths
<1>4. screen' \in Screens
  <2>1. blanks \in Seq(Glyph)
    BY DEF Glyph
  <2> HIDE DEF blanks
  <2> QED
    BY <1>1, <2>1, PutsKeep
<1>5. CASE mixed' \/ k = LineLen
  <2>1. mixed' \/ LineLen' = 0
    BY <1>2, <1>3, <1>5
  <2> QED
    BY <1>1, <1>4, <2>1, NothingToShow
<1>6. CASE ~mixed' /\ k # LineLen
  <2>1. ~mixed
    BY <1>1, <1>3, <1>6
  <2>2. /\ screen.pos \in Visible /\ screen.pos >= LineLen
        /\ \A i \in 1 .. LineLen : screen.crt[screen.pos - LineLen + i - 1] = Line[i]
    BY <2>1, ShownIs DEF ScreenInv
  <2> DEFINE x == screen.pos  y == screen'.pos  len == LineLen
  <2>3. x \in Nat /\ len \in Nat /\ len <= x /\ k < len /\ k <= x
    <3>1. x \in Nat /\ len <= x
      BY <2>2, ScreenSizes
    <3>2. len \in Nat /\ k <= len /\ k # len
      BY <1>3, <1>6
    <3> HIDE DEF x, len
    <3> QED
      BY <3>1, <3>2
  <2>4. y = x - k /\ \A i \in 0 .. x - k - 1 : screen'.crt[i] = screen.crt[i]
    BY <1>1, <2>3, Rubout
  <2> HIDE DEF x, y, len
  <2>5. ASSUME NEW i \in 1 .. len - k
        PROVE  /\ i \in 1 .. len /\ y - (len - k) + i - 1 = x - len + i - 1
               /\ x - len + i - 1 \in 0 .. x - k - 1
    BY <2>3, <2>4
  <2>6. \A i \in 1 .. len - k : Line'[i] = Line[i]
    BY <1>2, <1>3, <2>3 DEF len
  <2>7. ASSUME NEW i \in 1 .. len - k
        PROVE  screen'.crt[y - (len - k) + i - 1] = Line'[i]
    <3>1. screen.crt[x - len + i - 1] = Line[i]
      BY <2>2, <2>5 DEF x, len
    <3> QED
      BY <2>4, <2>5, <2>6, <3>1
  <2>8. y >= len - k
    BY <2>3, <2>4
  <2>9. Len(Line') = len - k /\ DOMAIN (Line') = 1 .. len - k
    BY <1>2, <1>3, <2>3 DEF len
  <2>10. y \in Visible
    BY <1>4 DEF Screens, y
  <2>11. EditedLineShown'
    BY <2>7, <2>8, <2>9, <2>10, Zenon DEF EditedLineShown, Visible, y
  <2> QED
    BY <1>1, <1>4, <2>11 DEF ScreenInv
<1> QED
  BY <1>5, <1>6

\* Steps that touch neither the screen nor the line.
LEMMA ScreenQuiet ==
    ASSUME ScreenInv, UNCHANGED <<buf, w, e, screen, mixed>>
    PROVE  ScreenInv'
<1>1. Line' = Line
  BY DEF Line, Slice
<1> QED
  BY <1>1 DEF ScreenInv, EditedLineShown

\* One character of consoleintr on the screen.
LEMMA ScreenIntr ==
    ASSUME RInv, RInv', ScreenInv, NEW c \in Received, consoleintr(c)
    PROVE  ScreenInv'
<1>1. CASE editKey(c)
  <2>1. LineLen \in Nat /\ (e # w => 1 <= LineLen)
    <3>1. e \in Counter /\ w \in Counter
      BY DEF RInv, TypeOK
    <3> QED
      BY <3>1, Distance, Sizes DEF LineLen
  <2>2. CASE procdump
    BY <2>2, ScreenWrite DEF procdump
  <2>3. CASE erase(killLineLength)
    <3>1. erase(LineLen)
      BY <2>3, KillLine
    <3> HIDE DEF LineLen
    <3>2. LineLen <= LineLen
      BY <2>1
    <3> QED
      BY <2>1, <3>1, <3>2, ScreenErase
  <2>4. CASE e # w /\ erase(1)
    BY <2>1, <2>4, ScreenErase
  <2>5. CASE UNCHANGED <<inputVars, screen, pc, mixed>>
    BY <2>5, ScreenQuiet DEF inputVars
  <2> QED
    BY <1>1, <2>2, <2>3, <2>4, <2>5 DEF editKey
<1>2. CASE c \notin {"^P", "^U", "^H"} /\ ~editKey(c)
  <2> DEFINE d == IF c = "\r" THEN NewLine ELSE c
  <2>1. insert(d) \/ drop(d)
    BY <1>2 DEF consoleintr
  <2>2. CASE insert(d)
    <3>1. d # NO
      BY <2>2 DEF insert
    <3>2. d \in LineChars
      BY <3>1 DEF Received, LineChars
    <3> HIDE DEF d
    <3> QED
      BY <2>2, <3>2, ScreenInsert
  <2>3. CASE drop(d)
    BY <2>3, ScreenQuiet DEF drop, inputVars
  <2> QED
    BY <2>1, <2>2, <2>3
<1> QED
  BY <1>1, <1>2 DEF consoleintr

\* Every step keeps the screen in agreement with the line.
LEMMA ScreenStep ==
    ASSUME RInv, RInv', ScreenInv, [Next]_vars
    PROVE  ScreenInv'
<1>1. ASSUME NEW c \in SerialChars, uartintr(c) PROVE ScreenInv'
  <2>1. c \in Received /\ consoleintr(c)
    BY <1>1 DEF Received, uartintr
  <2> QED
    BY <2>1, ScreenIntr
<1>2. CASE kbdintr
  <2> DEFINE key == [code |-> Head(wire).code, ext |-> "E0ESC" \in shift]
             c == capsLock(shift', charcode(shift', key))
  <2>1. consoleintr(NO) \/ consoleintr(c)
    BY <1>2 DEF kbdintr, released, pressed
  <2>2. NO \in Received /\ c \in Received
    BY KbdReceived DEF Received
  <2> HIDE DEF key, c
  <2> QED
    BY <2>1, <2>2, ScreenIntr
<1>3. ASSUME NEW string \in Outputs, consolewrite(string) PROVE ScreenInv'
  BY <1>3, ScreenWrite DEF consolewrite
<1>4. ASSUME NEW key, moveKey(key) PROVE ScreenInv'
  BY <1>4, ScreenQuiet DEF moveKey, inputVars
<1>5. ASSUME NEW p, NEW k, consoleread(p, k) PROVE ScreenInv'
  BY <1>5, ScreenQuiet DEF consoleread, inputVars
<1>6. ASSUME NEW p, readPass(p) \/ sleepOnInput(p) \/ kill(p) PROVE ScreenInv'
  BY <1>6, ScreenQuiet DEF readPass, sleepOnInput, kill, inputVars
<1>7. CASE UNCHANGED vars
  BY <1>7, ScreenQuiet DEF vars, inputVars
<1> QED
  BY <1>1, <1>2, <1>3, <1>4, <1>5, <1>6, <1>7 DEF Next

\* A blank screen, the cursor at the start of its last row.
LEMMA ScreenInit ==
    ASSUME Init
    PROVE  ScreenInv
<1>1. LineLen = 0
  <2>1. Start % UINT \in Counter
    BY Sizes, StartAssumption, ModRange DEF Counter
  <2> QED
    BY <2>1, Distance DEF Init, LineLen
<1>2. Line = <<>>
  BY <1>1 DEF Line, Slice, LineLen
<1>3. screen = [pos |-> (ROWS - 1) * COLS, crt |-> [i \in Cells |-> Blank]]
        /\ mixed = FALSE
  BY DEF Init, Cells
<1>4. (ROWS - 1) * COLS \in Visible
  BY ScreenSizes DEF Visible
<1>5. screen \in Screens /\ screen.pos \in Nat /\ screen.pos \in Visible
  <2>1. Blank \in Glyph
    BY DEF Glyph
  <2> QED
    BY <1>3, <1>4, <2>1, ScreenSizes DEF Screens
<1>6. EditedLineShown
  BY <1>2, <1>5 DEF EditedLineShown, Visible
<1> QED
  BY <1>3, <1>5, <1>6 DEF ScreenInv

-----------------------------------------------------------------------------
(* The invariant, and what follows from it *)

\* Before anything is typed.
LEMMA InitInv == Init => IInv
<1> SUFFICES ASSUME Init PROVE IInv
  OBVIOUS
<1>1. Start % UINT \in Counter
  BY Sizes, StartAssumption, ModRange DEF Counter
<1>2. TypeOK
  <2>1. NewLine \in LineChars
    BY DEF LineChars
  <2>2. buf \in [Index -> LineChars]
    BY <2>1 DEF Init, Index
  <2>3. dst \in [Readers -> Seq(LineChars)] /\ n \in [Readers -> Nat]
    BY DEF Init
  <2> QED
    BY <1>1, <2>2, <2>3 DEF TypeOK, Init
<1>3. ReadyLen = 0 /\ LineLen = 0
  BY <1>1, Distance DEF Init, ReadyLen, LineLen
<1>4. RingInv /\ LineInv
  BY <1>3, Sizes DEF RingInv, LineInv
<1>5. ReadInv /\ SleepInv
  BY DEF Init, ReadInv, SleepInv
<1>6. KbdInv
  BY DEF Init, KbdInv
<1> QED
  BY <1>2, <1>4, <1>5, <1>6 DEF IInv

\* Every step keeps the readers' part and is a step of Terminal or none.
LEMMA StepKeepsAndRefines ==
    ASSUME RInv, [Next]_vars
    PROVE  RInv' /\ Refines
<1>1. ASSUME NEW c \in SerialChars, uartintr(c) PROVE RInv' /\ Refines
  <2>1. c \in Received /\ consoleintr(c)
    BY <1>1 DEF Received, uartintr
  <2> QED
    BY <2>1, IntrStep
<1>2. CASE kbdintr
  <2> DEFINE key == [code |-> Head(wire).code, ext |-> "E0ESC" \in shift]
  <2>1. consoleintr(NO) \/ pressed(key)
    BY <1>2 DEF kbdintr, released
  <2> HIDE DEF key
  <2>2. CASE consoleintr(NO)
    <3>1. NO \in Received
      BY DEF Received
    <3> QED
      BY <2>2, <3>1, IntrStep
  <2>3. CASE pressed(key)
    <3> DEFINE c == capsLock(shift', charcode(shift', key))
    <3>1. consoleintr(c)
      BY <2>3 DEF pressed
    <3>2. c \in Received
      BY KbdReceived
    <3> HIDE DEF c
    <3> QED
      BY <3>1, <3>2, IntrStep
  <2> QED
    BY <2>1, <2>2, <2>3
<1>3. ASSUME NEW key, moveKey(key) PROVE RInv' /\ Refines
  BY <1>3, Quiet DEF moveKey, readerVars
<1>4. ASSUME NEW string, consolewrite(string) PROVE RInv' /\ Refines
  BY <1>4, Quiet DEF consolewrite, readerVars
<1>5. ASSUME NEW p \in Readers, NEW k \in ReadSizes, consoleread(p, k)
      PROVE  RInv' /\ Refines
  <2>1. /\ pc[p] = "user" /\ pc' = [pc EXCEPT ![p] = "read"]
        /\ n' = [n EXCEPT ![p] = k] /\ dst' = [dst EXCEPT ![p] = <<>>]
        /\ UNCHANGED <<buf, r, w, e>>
    BY <1>5 DEF consoleread, inputVars
  <2>2. k \in Nat /\ k > 0
    BY ReadSizesAssumption
  <2>3. TypeOK'
    BY <2>1, <2>2 DEF RInv, TypeOK
  <2>4. RingInv' /\ LineInv'
    BY <2>1 DEF RInv, RingInv, LineInv, ReadyLen, LineLen
  <2>5. ReadInv'
    <3> SUFFICES ASSUME NEW q \in Readers, pc'[q] # "user"
                 PROVE  /\ n'[q] > 0
                        /\ \A i \in 1 .. Len(dst'[q]) : dst'[q][i] \notin Ends
      BY DEF ReadInv
    <3>1. CASE q = p
      <4>1. n'[q] = k /\ dst'[q] = <<>>
        BY <2>1, <3>1 DEF RInv, TypeOK
      <4> QED
        BY <2>2, <4>1
    <3>2. CASE q # p
      <4>1. n'[q] = n[q] /\ dst'[q] = dst[q] /\ pc[q] # "user"
        BY <2>1, <3>2 DEF RInv, TypeOK
      <4> QED
        BY <4>1 DEF RInv, ReadInv
    <3> QED
      BY <3>1, <3>2
  <2>6. SleepInv'
    BY <2>1 DEF RInv, TypeOK, SleepInv
  <2>7. T!Request(p)
    BY <2>1 DEF T!Request, Line, Ready, Slice
  <2> QED
    BY <2>3, <2>4, <2>5, <2>6, <2>7 DEF RInv, Refines, T!Next
<1>6. ASSUME NEW p \in Readers, readPass(p) PROVE RInv' /\ Refines
  BY <1>6, PassKeeps, PassRefines
<1>7. ASSUME NEW p \in Readers, sleepOnInput(p) \/ kill(p)
      PROVE  RInv' /\ Refines
  <2>1. /\ UNCHANGED <<buf, r, w, e, n, dst>>
        /\ pc' \in [Readers -> {"user", "read", "doze", "asleep"}]
        /\ \A q \in Readers :
              /\ pc'[q] # "user" => pc[q] # "user"
              /\ pc'[q] \in {"doze", "asleep"} => pc[q] \in {"doze", "asleep"}
    BY <1>7 DEF sleepOnInput, kill, goTo, inputVars, RInv, TypeOK
  <2>2. TypeOK' /\ RingInv' /\ LineInv'
    BY <2>1 DEF RInv, TypeOK, RingInv, LineInv, ReadyLen, LineLen
  <2>3. ReadInv' /\ SleepInv'
    BY <2>1 DEF RInv, ReadInv, SleepInv
  <2>4. Refines
    BY <2>1 DEF Refines, Line, Ready, Slice
  <2> QED
    BY <2>2, <2>3, <2>4 DEF RInv
<1>8. CASE UNCHANGED vars
  BY <1>8, Quiet DEF vars, readerVars
<1> QED
  BY <1>1, <1>2, <1>3, <1>4, <1>5, <1>6, <1>7, <1>8 DEF Next

\* The invariant is inductive.
LEMMA InvHolds == Spec => []IInv
<1>1. IInv /\ [Next]_vars => IInv'
  <2> SUFFICES ASSUME IInv, [Next]_vars PROVE IInv'
    OBVIOUS
  <2>1. RInv' /\ KbdInv'
    BY KbdStep, StepKeepsAndRefines DEF IInv, RInv
  <2> QED
    BY <2>1 DEF IInv, RInv
<1> QED
  BY <1>1, InitInv, PTL DEF Spec

\* A reader sleeps in consoleread only while no finished input is left, and
\* then consoleintr has room: readers and typist never wait for each other.
THEOREM ConsoleNoStall == Spec => []NoStall
<1>1. ASSUME IInv PROVE NoStall
  <2>1. TypeOK /\ RingInv /\ SleepInv
    BY <1>1 DEF IInv
  <2>2. /\ ReadyLen \in Nat /\ LineLen \in Nat /\ INPUT_BUF \in Nat
        /\ INPUT_BUF > 0 /\ Minus(e, r) = ReadyLen + LineLen
        /\ (ReadyLen = 0 <=> w = r)
        /\ Ready \in Seq(LineChars) /\ Len(Ready) = ReadyLen
    BY <2>1, Counters, Lengths, Sizes
  <2>3. Ready = <<>> <=> ReadyLen = 0
    BY <2>2
  <2>4. ReadyLen = 0 => HasRoom
    BY <2>1, <2>2 DEF RingInv, HasRoom
  <2>5. \A p \in Readers : pc[p] = "asleep" => ReadyLen = 0
    BY <2>1, <2>2 DEF SleepInv
  <2> QED
    BY <2>3, <2>4, <2>5 DEF NoStall
<1> QED
  BY <1>1, InvHolds, PTL

\* kbdgetc leaves no modifier on, and no E0 pending, when no key that has it
\* is held and all bytes are taken, in whatever order keys are moved.
THEOREM ConsoleNoStuckModifier == Spec => []NoStuckModifier
<1>1. ASSUME IInv PROVE NoStuckModifier
  <2> SUFFICES ASSUME wire = <<>>
               PROVE  /\ "E0ESC" \notin shift
                      /\ \A m \in {"CTL", "SHIFT"} :
                           (\A key \in held : m \notin shiftcode(key)) => m \notin shift
    BY DEF NoStuckModifier
  <2>1. \A key, up : ~Sent(key, up)
    BY SentBytes DEF Sent
  <2> QED
    BY <1>1, <2>1 DEF IInv, KbdInv
<1> QED
  BY <1>1, InvHolds, PTL

\* The echo of consoleintr shows the line it edits: whatever is typed, erased,
\* written or listed, cgaputc's cursor stays on the screen, and while only the
\* typist has written since the line was begun, the cells before the cursor
\* hold the line, of which scrolling loses no row.
THEOREM ConsoleEditedLineShown == Spec => []EditedLineShown
<1>1. ScreenInv /\ IInv /\ IInv' /\ [Next]_vars => ScreenInv'
  BY ScreenStep DEF IInv, RInv
<1>2. Init => ScreenInv
  BY ScreenInit
<1>3. ScreenInv => EditedLineShown
  BY DEF ScreenInv
<1> QED
  BY <1>1, <1>2, <1>3, InvHolds, PTL DEF Spec

\* The ring of consoleintr and consoleread with its wrapping counters
\* implements Terminal: finished input is read once and in order.
THEOREM ConsoleImplementsTerminal == Spec => Implements
<1>1. Init => T!Init
  <2> SUFFICES ASSUME Init PROVE T!Init
    OBVIOUS
  <2>1. ReadyLen = 0 /\ LineLen = 0
    <3>1. Start % UINT \in Counter
      BY Sizes, StartAssumption, ModRange DEF Counter
    <3> QED
      BY <3>1, Distance DEF Init, ReadyLen, LineLen
  <2>2. Ready = <<>> /\ Line = <<>>
    BY <2>1 DEF Ready, Line, Slice, ReadyLen, LineLen
  <2> QED
    BY <2>2 DEF Init, T!Init
<1>2. IInv /\ [Next]_vars => [T!Next]_(T!terminalVars)
  <2> SUFFICES ASSUME IInv, [Next]_vars PROVE [T!Next]_(T!terminalVars)
    OBVIOUS
  <2>1. Refines
    BY StepKeepsAndRefines DEF IInv, RInv
  <2> QED
    BY <2>1 DEF Refines, T!terminalVars
<1> QED
  BY <1>1, <1>2, InvHolds, PTL DEF Spec, Implements, T!Spec
==============================================================================
