---------------------------- MODULE PagingProofs ----------------------------
(***************************************************************************)
(* Proofs about Paging: the ring, the slots and the page table stay one    *)
(* description of memory, for any number of pages in memory and in the     *)
(* file, any width of the counters and any contents of pages.              *)
(***************************************************************************)
EXTENDS Paging, FiniteSetTheorems, FunctionTheorems, SequenceTheorems,
        WellFoundedInduction, TLAPS

-----------------------------------------------------------------------------
(* Arithmetic *)

\* The assumptions, as the provers need them.
LEMMA Sizes ==
    /\ MAX_PSYC_PAGES \in Nat /\ MAX_PSYC_PAGES > 0
    /\ MAX_TOTAL_PAGES \in Nat /\ MAX_TOTAL_PAGES > MAX_PSYC_PAGES
    /\ MAX_FILE_PAGES \in Nat /\ MAX_FILE_PAGES > 0
    /\ MAX_FILE_PAGES = MAX_TOTAL_PAGES - MAX_PSYC_PAGES
    /\ UINT \in Nat /\ UINT > 2 * MAX_TOTAL_PAGES
    /\ InitPages \in Nat /\ 1 <= InitPages /\ InitPages <= MAX_PSYC_PAGES
BY PagesAssumption, InitPagesAssumption DEF MAX_FILE_PAGES

\* What % does to a number written as a quotient and a remainder.
LEMMA ModUnique ==
    ASSUME NEW m \in Nat, m > 0, NEW x \in Int, NEW q \in Int,
           NEW rem \in 0 .. m - 1, x = m * q + rem
    PROVE  x % m = rem
<1> DEFINE z == x \div m  y == x % m
<1>1. x = m * z + y /\ z \in Int /\ y \in 0 .. m - 1
  OBVIOUS
<1> HIDE DEF z, y
<1>2. y - rem = m * (q - z)
  BY <1>1
<1>3. q - z < 1
  <2>1. q - z >= 1 => m * (q - z) >= m
    BY <1>1
  <2> QED
    BY <1>1, <1>2, <2>1
<1>4. q - z > -1
  <2>1. q - z <= -1 => m * (q - z) <= -m
    BY <1>1
  <2> QED
    BY <1>1, <1>2, <2>1
<1>5. y = rem
  BY <1>1, <1>2, <1>3, <1>4
<1> QED
  BY <1>5 DEF y

\* A remainder is smaller than the modulus.
LEMMA ModRange ==
    ASSUME NEW m \in Nat, m > 0, NEW x \in Int
    PROVE  x % m \in 0 .. m - 1
OBVIOUS

\* One turn more or less.
LEMMA ModOneTurn ==
    ASSUME NEW m \in Nat, m > 0, NEW x \in Int
    PROVE  /\ x \in 0 .. m - 1 => x % m = x
           /\ x \in m .. 2 * m - 1 => x % m = x - m
           /\ x \in (-m) .. (-1) => x % m = x + m
<1>1. x \in 0 .. m - 1 => x % m = x
  OBVIOUS
<1>2. x \in m .. 2 * m - 1 => x % m = x - m
  OBVIOUS
<1>3. x \in (-m) .. (-1) => x % m = x + m
  OBVIOUS
<1> QED
  BY <1>1, <1>2, <1>3

\* The place of the ring k behind the place s.
Pos(s, k) == (s + k) % MAX_PSYC_PAGES

\* Pos without %.
LEMMA PosIs ==
    ASSUME NEW s \in RamIndex, NEW k \in 0 .. MAX_PSYC_PAGES
    PROVE  /\ Pos(s, k) \in RamIndex
           /\ Pos(s, k) = IF s + k < MAX_PSYC_PAGES THEN s + k
                          ELSE s + k - MAX_PSYC_PAGES
<1>1. s \in 0 .. MAX_PSYC_PAGES - 1
  BY DEF RamIndex
<1>2. PICK x \in Int : x = s + k
  BY <1>1, Sizes
<1>3. 0 <= x /\ x < 2 * MAX_PSYC_PAGES
  BY <1>2, <1>1, Sizes
<1>4. /\ x < MAX_PSYC_PAGES => x % MAX_PSYC_PAGES = x
      /\ ~(x < MAX_PSYC_PAGES) => x % MAX_PSYC_PAGES = x - MAX_PSYC_PAGES
  BY <1>3, Sizes, ModOneTurn
<1>5. x % MAX_PSYC_PAGES \in 0 .. MAX_PSYC_PAGES - 1
  BY <1>3, <1>4, Sizes
<1>6. Pos(s, k) = x % MAX_PSYC_PAGES
  BY <1>2, Zenon DEF Pos
<1>7. Pos(s, k) \in RamIndex
  BY <1>5, <1>6, Zenon DEF RamIndex
<1>8. Pos(s, k) = IF x < MAX_PSYC_PAGES THEN x ELSE x - MAX_PSYC_PAGES
  BY <1>4, <1>6, Zenon
<1> QED
  BY <1>2, <1>1, <1>7, <1>8, Sizes

\* Places fewer than a turn apart are different.
LEMMA PosApart ==
    ASSUME NEW s \in RamIndex, NEW i \in 0 .. MAX_PSYC_PAGES - 1,
           NEW j \in 0 .. MAX_PSYC_PAGES - 1, Pos(s, i) = Pos(s, j)
    PROVE  i = j
<1>1. s \in 0 .. MAX_PSYC_PAGES - 1
  BY DEF RamIndex
<1>2. i \in 0 .. MAX_PSYC_PAGES /\ j \in 0 .. MAX_PSYC_PAGES
  BY Sizes
<1>3. /\ Pos(s, i) = IF s + i < MAX_PSYC_PAGES THEN s + i ELSE s + i - MAX_PSYC_PAGES
      /\ Pos(s, j) = IF s + j < MAX_PSYC_PAGES THEN s + j ELSE s + j - MAX_PSYC_PAGES
  BY <1>2, PosIs
<1> DEFINE P == Pos(s, i)
<1>4. /\ P = IF s + i < MAX_PSYC_PAGES THEN s + i ELSE s + i - MAX_PSYC_PAGES
      /\ P = IF s + j < MAX_PSYC_PAGES THEN s + j ELSE s + j - MAX_PSYC_PAGES
  BY <1>3, Zenon
<1> HIDE DEF P
<1>5. s \in Int /\ i \in Int /\ j \in Int /\ 0 <= i /\ 0 <= j
      /\ i < MAX_PSYC_PAGES /\ j < MAX_PSYC_PAGES
  BY <1>1, Sizes
<1> QED
  BY <1>4, <1>5, Sizes

\* Every place is some way behind any other.
LEMMA PosAll ==
    ASSUME NEW s \in RamIndex, NEW i \in RamIndex
    PROVE  \E k \in 0 .. MAX_PSYC_PAGES - 1 : i = Pos(s, k)
<1>1. s \in 0 .. MAX_PSYC_PAGES - 1 /\ i \in 0 .. MAX_PSYC_PAGES - 1
  BY DEF RamIndex
<1> DEFINE k == IF s <= i THEN i - s ELSE i - s + MAX_PSYC_PAGES
<1>2. k \in 0 .. MAX_PSYC_PAGES - 1
  BY <1>1, Sizes
<1>3. k \in 0 .. MAX_PSYC_PAGES
  BY <1>2, Sizes
<1>4. Pos(s, k) = IF s + k < MAX_PSYC_PAGES THEN s + k ELSE s + k - MAX_PSYC_PAGES
  BY <1>3, PosIs
<1>5. i = Pos(s, k)
  BY <1>1, <1>4, Sizes
<1> QED
  BY <1>2, <1>5

\* A whole turn, and no less, leads back.
LEMMA PosTurn ==
    ASSUME NEW s \in RamIndex, NEW k \in 0 .. MAX_PSYC_PAGES - 1
    PROVE  Pos(s, k + 1) = s <=> k = MAX_PSYC_PAGES - 1
<1> DEFINE P == Pos(s, k + 1)
<1>1. s \in Int /\ 0 <= s /\ s < MAX_PSYC_PAGES
      /\ k \in Int /\ 0 <= k /\ k < MAX_PSYC_PAGES
  BY Sizes DEF RamIndex
<1>2. k + 1 \in 0 .. MAX_PSYC_PAGES
  BY <1>1, Sizes
<1>3. P = IF s + (k + 1) < MAX_PSYC_PAGES THEN s + (k + 1) ELSE s + (k + 1) - MAX_PSYC_PAGES
  BY <1>2, PosIs
<1> HIDE DEF P
<1>4. P = s <=> k = MAX_PSYC_PAGES - 1
  BY <1>1, <1>3, Sizes
<1> QED
  BY <1>4 DEF P

\* From the place j behind s, the place k behind that.
LEMMA PosPos ==
    ASSUME NEW s \in RamIndex, NEW j \in 0 .. MAX_PSYC_PAGES,
           NEW k \in 0 .. MAX_PSYC_PAGES, j + k <= MAX_PSYC_PAGES
    PROVE  Pos(Pos(s, j), k) = Pos(s, j + k)
<1>1. s \in 0 .. MAX_PSYC_PAGES - 1
  BY DEF RamIndex
<1>2. j + k \in 0 .. MAX_PSYC_PAGES
  BY Sizes
<1>3. /\ Pos(s, j) \in RamIndex
      /\ Pos(s, j) = IF s + j < MAX_PSYC_PAGES THEN s + j ELSE s + j - MAX_PSYC_PAGES
  BY PosIs
<1>4. Pos(s, j + k) = IF s + (j + k) < MAX_PSYC_PAGES THEN s + (j + k)
                      ELSE s + (j + k) - MAX_PSYC_PAGES
  BY <1>2, PosIs
<1>5. Pos(Pos(s, j), k) = IF Pos(s, j) + k < MAX_PSYC_PAGES THEN Pos(s, j) + k
                      ELSE Pos(s, j) + k - MAX_PSYC_PAGES
  BY <1>3, PosIs
<1> QED
  BY <1>1, <1>3, <1>4, <1>5, Sizes

\* SmallestOf finds the smallest of some numbers.
LEMMA SmallestFacts ==
    ASSUME NEW S, S \subseteq Nat, S # {}
    PROVE  SmallestOf(S) \in S /\ \A x \in S : SmallestOf(S) <= x
<1> DEFINE R == {ss \in Nat \X Nat : ss[1] < ss[2]}
<1>1. IsWellFoundedOn(R, Nat)
  BY NatLessThanWellFounded, Zenon DEF OpToRel
<1> HIDE DEF R
<1>2. PICK x \in S : \A y \in S : ~ (<<y, x>> \in R)
  BY <1>1, WFMin, Zenon
<1>3. \A y \in S : ~ (y < x)
  BY <1>2, Zenon DEF R
<1>4. \E z \in S : \A y \in S : z <= y
  BY <1>3
<1> QED
  BY <1>4, Zenon DEF SmallestOf

-----------------------------------------------------------------------------
(* The ring *)

Rings == [ram : [RamIndex -> page_t], count : 0 .. MAX_PSYC_PAGES,
          start : RamIndex, next : RamIndex]

\* The entry k behind the head.
Cell(r, k) == r.ram[Pos(r.start, k)]

\* The entries in use are those from the head on, up to next.
Sound(r) ==
    /\ r \in Rings
    /\ r.next = Pos(r.start, r.count)
    /\ \A k \in 0 .. MAX_PSYC_PAGES - 1 :
          Cell(r, k).state = "USED" <=> k < r.count

\* The index that updateFIFONextFreePageIndex computes does not overflow.
LEMMA NextIs ==
    ASSUME NEW s \in RamIndex, NEW c \in 0 .. MAX_PSYC_PAGES
    PROVE  ((s + c) % UINT) % MAX_PSYC_PAGES = Pos(s, c)
<1>1. s \in 0 .. MAX_PSYC_PAGES - 1
  BY DEF RamIndex
<1> DEFINE x == s + c
<1>2. x \in 0 .. UINT - 1
  BY <1>1, Sizes
<1> HIDE DEF x
<1>3. x % UINT = x
  BY <1>2, Sizes, ModOneTurn
<1> QED
  BY <1>3 DEF x, Pos

\* An entry is in use and has the type of the ring's.
LEMMA EntryFacts ==
    ASSUME NEW d \in Dirs, NEW v \in Pages
    PROVE  /\ Entry(d, v) \in page_t
           /\ Entry(d, v).state = "USED"
           /\ Entry(d, v).pgdir = d /\ Entry(d, v).vAddr = v
BY DEF Entry, page_t

\* A record and what its updates make of it, field by field.
LEMMA RingFields ==
    ASSUME NEW r \in Rings
    PROVE  /\ r = [ram |-> r.ram, count |-> r.count, start |-> r.start, next |-> r.next]
           /\ \A i, x, c : [r EXCEPT !.ram[i] = x, !.count = c] =
                 [ram |-> [r.ram EXCEPT ![i] = x], count |-> c, start |-> r.start,
                  next |-> r.next]
           /\ \A n : [r EXCEPT !.next = n] =
                 [ram |-> r.ram, count |-> r.count, start |-> r.start, next |-> n]
<1>1. r = [ram |-> r.ram, count |-> r.count, start |-> r.start, next |-> r.next]
  BY DEF Rings
<1>2. ASSUME NEW n
      PROVE  [r EXCEPT !.next = n] =
                 [ram |-> r.ram, count |-> r.count, start |-> r.start, next |-> n]
  BY <1>1
<1>3. ASSUME NEW i, NEW x, NEW c
      PROVE  [r EXCEPT !.ram[i] = x, !.count = c] =
                 [ram |-> [r.ram EXCEPT ![i] = x], count |-> c, start |-> r.start,
                  next |-> r.next]
  <2> DEFINE a == [r.ram EXCEPT ![i] = x]
             r1 == [r EXCEPT !.ram = a]
             r2 == [r1 EXCEPT !.count = c]
  <2>1. [r EXCEPT !.ram[i] = x, !.count = c] = r2
    OBVIOUS
  <2> HIDE DEF a
  <2>2. r1 = [ram |-> a, count |-> r.count, start |-> r.start, next |-> r.next]
    BY <1>1
  <2> HIDE DEF r1
  <2>3. r2 = [ram |-> a, count |-> c, start |-> r.start, next |-> r.next]
    BY <2>2
  <2> HIDE DEF r2
  <2> QED
    BY <2>1, <2>3 DEF a
<1> QED
  BY <1>1, <1>2, <1>3

\* insertPageToRAM puts the page behind all others.
LEMMA InsertFacts ==
    ASSUME NEW r, Sound(r), r.count < MAX_PSYC_PAGES, NEW d \in Dirs, NEW v \in Pages,
           NEW q, q = insertPageToRAM(r, d, v)
    PROVE  /\ Sound(q)
           /\ q.count = r.count + 1
           /\ \A k \in 0 .. r.count - 1 : Cell(q, k) = Cell(r, k)
           /\ Cell(q, r.count) = Entry(d, v)
<1> DEFINE ram2 == [r.ram EXCEPT ![r.next] = Entry(d, v)]
           c == r.count
<1>1. /\ r \in Rings /\ r.ram \in [RamIndex -> page_t]
      /\ c \in 0 .. MAX_PSYC_PAGES /\ c \in Nat /\ c + 1 <= MAX_PSYC_PAGES
      /\ r.start \in RamIndex /\ r.next \in RamIndex /\ r.next = Pos(r.start, c)
  BY Sizes DEF Sound, Rings
<1>2. (c + 1) % UINT = c + 1
  <2>1. c + 1 \in 0 .. UINT - 1
    BY <1>1, Sizes
  <2> QED
    BY <2>1, Sizes, ModOneTurn
<1>3. c + 1 \in 0 .. MAX_PSYC_PAGES
  BY <1>1, Sizes
<1>4. q = [ram |-> ram2, count |-> c + 1, start |-> r.start,
           next |-> ((r.start + (c + 1)) % UINT) % MAX_PSYC_PAGES]
  <2> DEFINE r1 == [r EXCEPT !.ram[r.next] = Entry(d, v), !.count = (@ + 1) % UINT]
  <2>1. r1 = [ram |-> ram2, count |-> c + 1, start |-> r.start, next |-> r.next]
    <3>1. \A i, x, n : [r EXCEPT !.ram[i] = x, !.count = n] =
                 [ram |-> [r.ram EXCEPT ![i] = x], count |-> n, start |-> r.start,
                  next |-> r.next]
      BY <1>1, RingFields, Zenon
    <3>2. r1 = [ram |-> ram2, count |-> (c + 1) % UINT, start |-> r.start, next |-> r.next]
      BY <3>1, Zenon
    <3> QED
      BY <1>2, <3>2, Zenon
  <2>2. q = [r1 EXCEPT !.next = ((r1.start + r1.count) % UINT) % MAX_PSYC_PAGES]
    BY DEF insertPageToRAM, updateFIFONextFreePageIndex
  <2> HIDE DEF r1, ram2
  <2>3. r1.start = r.start /\ r1.count = c + 1
    BY <2>1
  <2> QED
    BY <2>1, <2>2, <2>3
<1>5. ((r.start + (c + 1)) % UINT) % MAX_PSYC_PAGES = Pos(r.start, c + 1)
  BY <1>1, <1>3, NextIs
<1>6. q.ram = ram2 /\ q.count = c + 1 /\ q.start = r.start /\ q.next = Pos(r.start, c + 1)
  BY <1>4, <1>5
<1>7. q \in Rings
  <2>1. ram2 \in [RamIndex -> page_t]
    BY <1>1, EntryFacts
  <2>2. Pos(r.start, c + 1) \in RamIndex
    BY <1>1, <1>3, PosIs
  <2> QED
    BY <1>1, <1>3, <1>4, <1>5, <2>1, <2>2 DEF Rings
<1> HIDE DEF ram2
<1>8. ASSUME NEW k \in 0 .. MAX_PSYC_PAGES - 1
      PROVE  Cell(q, k) = IF k = c THEN Entry(d, v) ELSE Cell(r, k)
  <2>1. Pos(r.start, k) \in RamIndex
    BY <1>1, PosIs, Sizes
  <2>2. Pos(r.start, k) = r.next <=> k = c
    <3>1. c \in 0 .. MAX_PSYC_PAGES - 1
      BY <1>1, Sizes
    <3> QED
      BY <1>1, <3>1, PosApart
  <2> QED
    BY <1>1, <1>6, <2>1, <2>2 DEF Cell, ram2
<1>9. Entry(d, v).state = "USED"
  BY EntryFacts
<1>10. \A k \in 0 .. MAX_PSYC_PAGES - 1 : Cell(q, k).state = "USED" <=> k < c + 1
  <2> TAKE k \in 0 .. MAX_PSYC_PAGES - 1
  <2>1. Cell(r, k).state = "USED" <=> k < c
    BY DEF Sound
  <2> QED
    BY <1>1, <1>8, <1>9, <2>1
<1>11. Sound(q)
  BY <1>6, <1>7, <1>10 DEF Sound
<1>12. c \in 0 .. MAX_PSYC_PAGES - 1 /\ \A k \in 0 .. c - 1 : k \in 0 .. MAX_PSYC_PAGES - 1 /\ k # c
  BY <1>1, Sizes
<1> QED
  BY <1>6, <1>8, <1>11, <1>12

\* A full ring whose head is replaced and shifted: the new entry is the last.
LEMMA RotateFacts ==
    ASSUME NEW r, Sound(r), r.count = MAX_PSYC_PAGES, NEW d \in Dirs, NEW v \in Pages,
           NEW q, q = shiftFIFOIndex([r EXCEPT !.ram[r.start] = Entry(d, v)])
    PROVE  /\ Sound(q)
           /\ q.count = MAX_PSYC_PAGES
           /\ \A k \in 0 .. MAX_PSYC_PAGES - 2 : Cell(q, k) = Cell(r, k + 1)
           /\ Cell(q, MAX_PSYC_PAGES - 1) = Entry(d, v)
<1> DEFINE ram2 == [r.ram EXCEPT ![r.start] = Entry(d, v)]
           c == r.count
<1>1. /\ r \in Rings /\ r.ram \in [RamIndex -> page_t]
      /\ r.start \in RamIndex /\ r.next \in RamIndex
      /\ r.next = Pos(r.start, MAX_PSYC_PAGES)
  BY Sizes DEF Sound, Rings
<1>2. r.next = r.start
  <2>1. MAX_PSYC_PAGES \in 0 .. MAX_PSYC_PAGES
    BY Sizes
  <2>2. r.start \in Nat
    BY <1>1, Sizes DEF RamIndex
  <2> QED
    BY <1>1, <2>1, <2>2, PosIs, Sizes
<1>3. q = [ram |-> ram2, count |-> MAX_PSYC_PAGES, start |-> Pos(r.start, 1),
           next |-> Pos(r.start, 1)]
  BY <1>1, <1>2 DEF shiftFIFOIndex, Pos, Rings
<1>4. 1 \in 0 .. MAX_PSYC_PAGES
  BY Sizes
<1>5. Pos(r.start, 1) \in RamIndex
  BY <1>1, <1>4, PosIs
<1>6. q \in Rings
  <2>1. ram2 \in [RamIndex -> page_t]
    BY <1>1, EntryFacts
  <2>2. MAX_PSYC_PAGES \in 0 .. MAX_PSYC_PAGES
    BY Sizes
  <2> QED
    BY <1>3, <1>5, <2>1, <2>2 DEF Rings
<1> HIDE DEF ram2
<1>7. /\ q.ram = ram2 /\ q.count = MAX_PSYC_PAGES
      /\ q.start = Pos(r.start, 1) /\ q.next = Pos(r.start, 1)
  BY <1>3
<1>8. ASSUME NEW k \in 0 .. MAX_PSYC_PAGES - 1
      PROVE  Cell(q, k) = IF k = MAX_PSYC_PAGES - 1 THEN Entry(d, v) ELSE Cell(r, k + 1)
  <2>1. k + 1 \in 0 .. MAX_PSYC_PAGES /\ 1 + k = k + 1 /\ k \in 0 .. MAX_PSYC_PAGES
    BY Sizes
  <2>2. Pos(Pos(r.start, 1), k) = Pos(r.start, k + 1)
    BY <1>1, <1>4, <2>1, PosPos
  <2>3. Pos(r.start, k + 1) \in RamIndex
    BY <1>1, <2>1, PosIs
  <2>4. Pos(r.start, k + 1) = r.start <=> k = MAX_PSYC_PAGES - 1
    BY <1>1, PosTurn
  <2> QED
    BY <1>1, <1>7, <2>2, <2>3, <2>4 DEF Cell, ram2
<1>9. Entry(d, v).state = "USED"
  BY EntryFacts
<1>10. \A k \in 0 .. MAX_PSYC_PAGES - 1 : Cell(q, k).state = "USED"
  <2> TAKE k \in 0 .. MAX_PSYC_PAGES - 1
  <2>1. CASE k = MAX_PSYC_PAGES - 1
    BY <1>8, <1>9, <2>1
  <2>2. CASE k # MAX_PSYC_PAGES - 1
    <3>1. k + 1 \in 0 .. MAX_PSYC_PAGES - 1 /\ k + 1 < r.count
      BY <2>2, Sizes
    <3>2. Cell(r, k + 1).state = "USED"
      BY <3>1 DEF Sound
    <3> QED
      BY <1>8, <2>2, <3>2
  <2> QED
    BY <2>1, <2>2
<1>11. Pos(r.start, 1) = Pos(Pos(r.start, 1), MAX_PSYC_PAGES)
  <2>1. MAX_PSYC_PAGES \in 0 .. MAX_PSYC_PAGES
    BY Sizes
  <2>2. Pos(r.start, 1) \in Nat
    BY <1>5, Sizes DEF RamIndex
  <2> QED
    BY <1>5, <2>1, <2>2, PosIs, Sizes
<1>12. Sound(q)
  BY <1>6, <1>7, <1>10, <1>11, Sizes DEF Sound
<1>13. \A k \in 0 .. MAX_PSYC_PAGES - 2 : k \in 0 .. MAX_PSYC_PAGES - 1 /\ k # MAX_PSYC_PAGES - 1
  BY Sizes
<1>14. MAX_PSYC_PAGES - 1 \in 0 .. MAX_PSYC_PAGES - 1
  BY Sizes
<1> QED
  BY <1>7, <1>8, <1>12, <1>13, <1>14
-----------------------------------------------------------------------------
(* organizeFIFORAMqueue *)

\* One turn of its loop, from what the turn before left.
Turn(from, s, k) ==
    LET n == (from + k) % MAX_PSYC_PAGES
        hole == s.ram[s.i].state = "NOT_USED"
        next == s.ram[n].state = "USED"
    IN  [ram |-> IF hole /\ next
                 THEN [s.ram EXCEPT ![s.i] = s.ram[n], ![n].state = "NOT_USED"]
                 ELSE s.ram,
         i |-> IF hole /\ ~next THEN s.i ELSE n]

\* g is what the loop has made after 0, 1, ... turns.
IsLoop(g, ram, from, turns) ==
    g = [k \in 0 .. turns |-> IF k = 0 THEN [ram |-> ram, i |-> from]
                              ELSE Turn(from, g[k - 1], k)]

\* Two runs of the loop do not differ: there is no first turn at which they do.
LEMMA LoopUnique ==
    ASSUME NEW ram, NEW from, NEW turns \in Nat,
           NEW f, IsLoop(f, ram, from, turns), NEW g, IsLoop(g, ram, from, turns)
    PROVE  f[turns] = g[turns]
<1> DEFINE S == {k \in 0 .. turns : f[k] # g[k]}
<1>1. S \subseteq Nat
  OBVIOUS
<1>2. CASE S = {}
  BY <1>2
<1>3. CASE S # {}
  <2> DEFINE k == SmallestOf(S)
  <2>1. k \in S /\ \A x \in S : k <= x
    BY <1>1, <1>3, SmallestFacts
  <2> HIDE DEF k
  <2>2. k \in 0 .. turns /\ f[k] # g[k]
    BY <2>1
  <2>3. \A j \in 0 .. turns : f[j] = IF j = 0 THEN [ram |-> ram, i |-> from]
                                     ELSE Turn(from, f[j - 1], j)
    BY Zenon DEF IsLoop
  <2>4. \A j \in 0 .. turns : g[j] = IF j = 0 THEN [ram |-> ram, i |-> from]
                                     ELSE Turn(from, g[j - 1], j)
    BY Zenon DEF IsLoop
  <2>5. k # 0
    BY <2>2, <2>3, <2>4
  <2>6. k - 1 \in 0 .. turns /\ k - 1 \notin S
    BY <2>1, <2>2, <2>5
  <2>7. f[k - 1] = g[k - 1]
    BY <2>6
  <2>8. f[k] = Turn(from, f[k - 1], k) /\ g[k] = Turn(from, g[k - 1], k)
    BY <2>2, <2>3, <2>4, <2>5, Zenon
  <2> QED
    BY <2>2, <2>7, <2>8, Zenon
<1> QED
  BY <1>2, <1>3

\* What the loop makes can be computed in any way that follows its turns.
LEMMA OrganizedIs ==
    ASSUME NEW r, NEW from, NEW turns \in Nat, NEW f, IsLoop(f, r.ram, from, turns)
    PROVE  Organized(r, from, turns) = [r EXCEPT !.ram = f[turns].ram]
<1> DEFINE P(g) == g = [k \in 0 .. turns |-> IF k = 0 THEN [ram |-> r.ram, i |-> from]
                                             ELSE Turn(from, g[k - 1], k)]
           h == CHOOSE g : P(g)
<1>1. P(f)
  BY Zenon DEF IsLoop
<1>2. P(h)
  BY <1>1, Zenon
<1>3. Organized(r, from, turns) = [r EXCEPT !.ram = h[turns].ram]
  BY Zenon DEF Organized, Turn
<1>4. IsLoop(h, r.ram, from, turns)
  BY <1>2, Zenon DEF IsLoop
<1>5. f[turns] = h[turns]
  BY <1>4, LoopUnique
<1> QED
  BY <1>3, <1>5, Zenon

\* The ring in the middle of the loop: entry k0 behind the head was deleted and
\* the m entries behind it have moved down.
Moved(r, k0, m, j) == \E i \in 0 .. m - 1 : j = Pos(r.start, k0 + i)
Compacted(r, k0, m) ==
    [ram |-> [j \in RamIndex |->
                IF Moved(r, k0, m, j) THEN r.ram[Pos(j, 1)]
                ELSE IF j = Pos(r.start, k0 + m)
                     THEN [r.ram[j] EXCEPT !.state = "NOT_USED"]
                     ELSE r.ram[j]],
     i |-> Pos(r.start, k0 + m)]

\* Places from k0 to k0 + m are the first ones behind k0, and different.
LEMMA MovedFacts ==
    ASSUME NEW r, r.start \in RamIndex, NEW k0 \in Nat, NEW m \in Nat,
           k0 + m < MAX_PSYC_PAGES
    PROVE  \A k \in 0 .. MAX_PSYC_PAGES - 1 :
              Moved(r, k0, m, Pos(r.start, k)) <=> k0 <= k /\ k < k0 + m
<1> TAKE k \in 0 .. MAX_PSYC_PAGES - 1
<1>1. ASSUME NEW i \in 0 .. m - 1
      PROVE  Pos(r.start, k) = Pos(r.start, k0 + i) <=> k = k0 + i
  <2>1. k0 + i \in 0 .. MAX_PSYC_PAGES - 1
    BY Sizes
  <2> QED
    BY <2>1, PosApart
<1>2. Moved(r, k0, m, Pos(r.start, k)) <=> \E i \in 0 .. m - 1 : k = k0 + i
  BY <1>1 DEF Moved
<1>3. (k0 <= k /\ k < k0 + m) => k - k0 \in 0 .. m - 1 /\ k = k0 + (k - k0)
  BY Sizes
<1>4. (\E i \in 0 .. m - 1 : k = k0 + i) => k0 <= k /\ k < k0 + m
  BY Sizes
<1> QED
  BY <1>2, <1>3, <1>4

\* What the middle of the loop has at each place.
LEMMA CompactedAt ==
    ASSUME NEW r, r.start \in RamIndex, NEW k0 \in Nat, NEW m \in Nat,
           k0 + m < MAX_PSYC_PAGES, NEW k \in 0 .. MAX_PSYC_PAGES - 1
    PROVE  Compacted(r, k0, m).ram[Pos(r.start, k)] =
              IF k0 <= k /\ k < k0 + m THEN Cell(r, k + 1)
              ELSE IF k = k0 + m THEN [Cell(r, k) EXCEPT !.state = "NOT_USED"]
                   ELSE Cell(r, k)
<1>1. k \in 0 .. MAX_PSYC_PAGES /\ k + 1 \in 0 .. MAX_PSYC_PAGES
      /\ 1 \in 0 .. MAX_PSYC_PAGES /\ k + 1 <= MAX_PSYC_PAGES
  BY Sizes
<1>2. Pos(r.start, k) \in RamIndex
  BY <1>1, PosIs
<1>3. Pos(Pos(r.start, k), 1) = Pos(r.start, k + 1)
  BY <1>1, PosPos
<1>4. Moved(r, k0, m, Pos(r.start, k)) <=> k0 <= k /\ k < k0 + m
  BY MovedFacts
<1>5. Pos(r.start, k) = Pos(r.start, k0 + m) <=> k = k0 + m
  <2>1. k0 + m \in 0 .. MAX_PSYC_PAGES - 1
    BY Sizes
  <2> QED
    BY <2>1, PosApart
<1> DEFINE j == Pos(r.start, k)
<1>6. Compacted(r, k0, m).ram[j] =
        IF Moved(r, k0, m, j) THEN r.ram[Pos(j, 1)]
        ELSE IF j = Pos(r.start, k0 + m) THEN [r.ram[j] EXCEPT !.state = "NOT_USED"]
             ELSE r.ram[j]
  BY <1>2, Zenon DEF Compacted
<1> QED
  BY <1>3, <1>4, <1>5, <1>6, Zenon DEF Cell

\* The loop moves one entry down at each turn.
LEMMA LoopCompacts ==
    ASSUME NEW r, Sound(r), NEW k0 \in 0 .. r.count - 1,
           NEW t, t = r.count - k0 - 1,
           NEW ram, ram = [r.ram EXCEPT ![Pos(r.start, k0)].state = "NOT_USED"]
    PROVE  IsLoop([k \in 0 .. t |-> Compacted(r, k0, k)], ram, Pos(r.start, k0), t)
<1>1. /\ r.ram \in [RamIndex -> page_t] /\ r.start \in RamIndex
      /\ r.count \in 0 .. MAX_PSYC_PAGES /\ k0 \in 0 .. MAX_PSYC_PAGES - 1
      /\ k0 \in Nat /\ t \in Nat /\ k0 + t < r.count /\ k0 + t < MAX_PSYC_PAGES
      /\ k0 \in 0 .. MAX_PSYC_PAGES
  BY Sizes DEF Sound, Rings
<1> DEFINE f == [k \in 0 .. t |-> Compacted(r, k0, k)]
           from == Pos(r.start, k0)
<1>2. from \in RamIndex
  BY <1>1, PosIs
<1>3. ASSUME NEW x \in page_t
      PROVE  [x EXCEPT !.state = "NOT_USED"] \in page_t
  BY DEF page_t
<1>4. ASSUME NEW k \in Nat
      PROVE  Compacted(r, k0, k).ram \in [RamIndex -> page_t]
  <2>1. ASSUME NEW j \in RamIndex PROVE Pos(j, 1) \in RamIndex
    <3>1. 1 \in 0 .. MAX_PSYC_PAGES
      BY Sizes
    <3> QED
      BY <3>1, PosIs
  <2> QED
    BY <1>1, <1>3, <2>1 DEF Compacted
<1>5. Compacted(r, k0, 0) = [ram |-> ram, i |-> from]
  <2>1. ~ \E i \in 0 .. 0 - 1 : TRUE
    OBVIOUS
  <2>2. \A j : ~Moved(r, k0, 0, j)
    BY <2>1, Zenon DEF Moved
  <2>3. k0 + 0 = k0
    BY <1>1
  <2>4. ram = [j \in RamIndex |-> IF j = from THEN [r.ram[j] EXCEPT !.state = "NOT_USED"]
                                  ELSE r.ram[j]]
    BY <1>1, <1>2
  <2> QED
    BY <2>2, <2>3, <2>4, Zenon DEF Compacted
<1>6. ASSUME NEW k \in 0 .. t, k # 0
      PROVE  Compacted(r, k0, k) = Turn(from, Compacted(r, k0, k - 1), k)
  <2> DEFINE s == Compacted(r, k0, k - 1)
             a == Pos(r.start, k0 + (k - 1))
             b == Pos(r.start, k0 + k)
  <2>1. /\ k - 1 \in Nat /\ k \in Nat /\ k0 + (k - 1) \in 0 .. MAX_PSYC_PAGES - 1
        /\ k0 + k \in 0 .. MAX_PSYC_PAGES - 1 /\ k0 + (k - 1) < MAX_PSYC_PAGES
        /\ k0 + k < MAX_PSYC_PAGES /\ k0 + k < r.count
        /\ k \in 0 .. MAX_PSYC_PAGES /\ k0 + k <= MAX_PSYC_PAGES
        /\ k0 + (k - 1) < r.count
    <3>1. k \in Int /\ 1 <= k /\ k <= t
      BY <1>1, <1>6
    <3>2. r.count \in Int /\ r.count <= MAX_PSYC_PAGES
      BY <1>1, Sizes
    <3> QED
      BY <1>1, <3>1, <3>2, Sizes
  <2>2. (from + k) % MAX_PSYC_PAGES = b
    BY <1>1, <2>1, PosPos DEF Pos
  <2>3. a \in RamIndex /\ b \in RamIndex /\ a # b
    <3>1. k0 + (k - 1) # k0 + k
      BY <2>1
    <3>2. k0 + (k - 1) \in 0 .. MAX_PSYC_PAGES /\ k0 + k \in 0 .. MAX_PSYC_PAGES
      BY <2>1, Sizes
    <3> QED
      BY <1>1, <2>1, <3>1, <3>2, PosApart, PosIs
  <2>4. s.i = a
    BY Zenon DEF Compacted
  <2>5. s.ram[a] = [Cell(r, k0 + (k - 1)) EXCEPT !.state = "NOT_USED"]
    <3>1. ~(k0 + (k - 1) < k0 + (k - 1))
      BY <2>1
    <3> QED
      BY <1>1, <2>1, <3>1, CompactedAt
  <2>6. s.ram[b] = Cell(r, k0 + k)
    <3>1. ~(k0 + k < k0 + (k - 1)) /\ k0 + k # k0 + (k - 1)
      BY <1>1, <2>1
    <3>2. s.ram[b] = IF k0 <= k0 + k /\ k0 + k < k0 + (k - 1) THEN Cell(r, (k0 + k) + 1)
              ELSE IF k0 + k = k0 + (k - 1) THEN [Cell(r, k0 + k) EXCEPT !.state = "NOT_USED"]
                   ELSE Cell(r, k0 + k)
      BY <1>1, <2>1, CompactedAt
    <3> QED
      BY <3>1, <3>2, Zenon
  <2>7. /\ Cell(r, k0 + k).state = "USED"
        /\ Cell(r, k0 + (k - 1)) \in page_t /\ Cell(r, k0 + k) \in page_t
    BY <1>1, <2>1, <2>3 DEF Sound, Cell
  <2>8. s.ram[s.i].state = "NOT_USED" /\ s.ram[(from + k) % MAX_PSYC_PAGES].state = "USED"
    <3>1. s.ram[a].state = "NOT_USED"
      BY <2>5, <2>7 DEF page_t
    <3> QED
      BY <2>2, <2>4, <2>6, <2>7, <3>1, Zenon
  <2>9. Turn(from, s, k) =
           [ram |-> [s.ram EXCEPT ![a] = s.ram[b], ![b].state = "NOT_USED"], i |-> b]
    BY <2>2, <2>4, <2>8, Zenon DEF Turn
  <2> HIDE DEF a, b, s
  <2> DEFINE s1 == [s.ram EXCEPT ![a] = s.ram[b]]
             s2 == [s1 EXCEPT ![b] = [s1[b] EXCEPT !.state = "NOT_USED"]]
             c == Compacted(r, k0, k).ram
  <2>10. [s.ram EXCEPT ![a] = s.ram[b], ![b].state = "NOT_USED"] = s2
    OBVIOUS
  <2>11. s.ram \in [RamIndex -> page_t] /\ c \in [RamIndex -> page_t]
    BY <1>4, <2>1 DEF s
  <2>12. /\ s1 \in [RamIndex -> page_t]
         /\ \A j \in RamIndex : s1[j] = IF j = a THEN s.ram[b] ELSE s.ram[j]
    BY <2>3, <2>11
  <2> HIDE DEF s1
  <2>13. s2 \in [RamIndex -> page_t]
         /\ \A j \in RamIndex : s2[j] = IF j = b THEN [s1[b] EXCEPT !.state = "NOT_USED"] ELSE s1[j]
    <3>1. [s1[b] EXCEPT !.state = "NOT_USED"] \in page_t
      BY <1>3, <2>3, <2>12
    <3> QED
      BY <2>3, <2>12, <3>1
  <2> HIDE DEF s2
  <2>14. s1[b] = Cell(r, k0 + k)
    BY <2>3, <2>6, <2>12
  <2> HIDE DEF c
  <2>15. ASSUME NEW n \in 0 .. MAX_PSYC_PAGES - 1
         PROVE  c[Pos(r.start, n)] = s2[Pos(r.start, n)]
    <3> DEFINE j == Pos(r.start, n)
    <3>1. n \in 0 .. MAX_PSYC_PAGES
      BY Sizes
    <3>2. j \in RamIndex
      BY <1>1, <3>1, PosIs
    <3>3. (j = a <=> n = k0 + (k - 1)) /\ (j = b <=> n = k0 + k)
      BY <1>1, <2>1, PosApart DEF a, b
    <3>4. c[j] = IF k0 <= n /\ n < k0 + k THEN Cell(r, n + 1)
                 ELSE IF n = k0 + k THEN [Cell(r, n) EXCEPT !.state = "NOT_USED"]
                      ELSE Cell(r, n)
      BY <1>1, <2>1, CompactedAt DEF c
    <3>5. s.ram[j] = IF k0 <= n /\ n < k0 + (k - 1) THEN Cell(r, n + 1)
                 ELSE IF n = k0 + (k - 1) THEN [Cell(r, n) EXCEPT !.state = "NOT_USED"]
                      ELSE Cell(r, n)
      BY <1>1, <2>1, CompactedAt DEF s
    <3> HIDE DEF j
    <3>6. CASE n = k0 + (k - 1)
      <4>1. j = a /\ j # b /\ k0 <= n /\ n < k0 + k /\ n + 1 = k0 + k
        BY <2>1, <2>3, <3>3, <3>6
      <4>2. s2[j] = Cell(r, k0 + k)
        BY <2>6, <2>12, <2>13, <3>2, <4>1
      <4>3. c[j] = Cell(r, n + 1)
        BY <3>4, <4>1, Zenon
      <4> QED
        BY <4>1, <4>2, <4>3, Zenon DEF j
    <3>7. CASE n = k0 + k
      <4>1. j = b /\ ~(n < k0 + k)
        BY <2>1, <3>3, <3>7
      <4>2. s2[j] = [Cell(r, k0 + k) EXCEPT !.state = "NOT_USED"]
        BY <2>13, <2>14, <3>2, <4>1
      <4>3. c[j] = [Cell(r, n) EXCEPT !.state = "NOT_USED"]
        BY <3>4, <3>7, <4>1, Zenon
      <4> QED
        BY <3>7, <4>2, <4>3, Zenon DEF j
    <3>8. CASE n # k0 + k /\ n # k0 + (k - 1)
      <4>1. j # a /\ j # b
        BY <3>3, <3>8
      <4>2. s2[j] = s.ram[j]
        BY <2>12, <2>13, <3>2, <4>1
      <4>3. (k0 <= n /\ n < k0 + k) <=> (k0 <= n /\ n < k0 + (k - 1))
        BY <2>1, <3>8
      <4>4. c[j] = s.ram[j]
        BY <3>4, <3>5, <3>8, <4>3, Zenon
      <4> QED
        BY <4>2, <4>4, Zenon DEF j
    <3> QED
      BY <3>6, <3>7, <3>8
  <2>16. c = s2
    <3>1. \A n \in 0 .. MAX_PSYC_PAGES - 1 : c[Pos(r.start, n)] = s2[Pos(r.start, n)]
      BY <2>15
    <3>2. r.start \in RamIndex /\ s2 \in [RamIndex -> page_t]
      BY <1>1, <2>13
    <3>3. ASSUME NEW j \in RamIndex PROVE c[j] = s2[j]
      <4>1. PICK n \in 0 .. MAX_PSYC_PAGES - 1 : j = Pos(r.start, n)
        BY <3>2, PosAll
      <4> QED
        BY <3>1, <4>1, Zenon
    <3> QED
      BY <2>11, <3>2, <3>3
  <2>17. Compacted(r, k0, k) = [ram |-> c, i |-> b]
    BY Zenon DEF Compacted, c, b
  <2> QED
    BY <2>9, <2>10, <2>16, <2>17, Zenon DEF s
<1>7. \A k \in 0 .. t : k # 0 => k - 1 \in 0 .. t
  BY <1>1
<1>8. 0 \in 0 .. t
  BY <1>1
<1>9. ASSUME NEW k \in 0 .. t
      PROVE  f[k] = IF k = 0 THEN [ram |-> ram, i |-> from] ELSE Turn(from, f[k - 1], k)
  <2>1. CASE k = 0
    BY <1>5, <2>1, Zenon
  <2>2. CASE k # 0
    <3>1. f[k - 1] = Compacted(r, k0, k - 1)
      BY <1>7, <2>2, Zenon
    <3>2. f[k] = Compacted(r, k0, k)
      BY Zenon
    <3> QED
      BY <1>6, <2>2, <3>1, <3>2, Zenon
  <2> QED
    BY <2>1, <2>2
<1>10. f = [k \in 0 .. t |-> f[k]]
  BY Zenon
<1> HIDE DEF f, from
<1>11. f = [k \in 0 .. t |-> IF k = 0 THEN [ram |-> ram, i |-> from] ELSE Turn(from, f[k - 1], k)]
  BY <1>9, <1>10
<1>12. IsLoop(f, ram, from, t)
  BY <1>11, Zenon DEF IsLoop
<1> QED
  BY <1>12, Zenon DEF f, from

\* deletePageFromRAM before it touches the order.
LEMMA DeleteFields ==
    ASSUME NEW r \in Rings, r.count > 0, NEW i \in RamIndex
    PROVE  deleteKeepingOrder(r, i) =
              [ram |-> [r.ram EXCEPT ![i].state = "NOT_USED"], count |-> r.count - 1,
               start |-> r.start, next |-> r.next]
<1> DEFINE x == [r.ram[i] EXCEPT !.state = "NOT_USED"]
           n == (r.count - 1) % UINT
<1>1. r.count - 1 \in 0 .. UINT - 1
  BY Sizes DEF Rings
<1>2. n = r.count - 1
  BY <1>1, Sizes, ModOneTurn
<1>3. deleteKeepingOrder(r, i) = [r EXCEPT !.ram[i] = x, !.count = n]
  BY DEF deleteKeepingOrder
<1>4. [r.ram EXCEPT ![i].state = "NOT_USED"] = [r.ram EXCEPT ![i] = x]
  OBVIOUS
<1> HIDE DEF x, n
<1>5. \A j, y, c : [r EXCEPT !.ram[j] = y, !.count = c] =
         [ram |-> [r.ram EXCEPT ![j] = y], count |-> c, start |-> r.start,
          next |-> r.next]
  BY RingFields, Zenon
<1>6. [r EXCEPT !.ram[i] = x, !.count = n] =
         [ram |-> [r.ram EXCEPT ![i] = x], count |-> n, start |-> r.start,
          next |-> r.next]
  BY <1>5, Zenon
<1> QED
  BY <1>2, <1>3, <1>4, <1>6, Zenon

\* How many turns the loop takes.
LEMMA TurnsAre ==
    ASSUME NEW s \in RamIndex, NEW c \in 0 .. MAX_PSYC_PAGES, NEW k \in 0 .. c - 1
    PROVE  (Pos(s, c) - Pos(s, k) - 1) % MAX_PSYC_PAGES = c - k - 1
<1>1. /\ s \in Int /\ 0 <= s /\ s < MAX_PSYC_PAGES
      /\ c \in Int /\ c <= MAX_PSYC_PAGES /\ k \in Int /\ 0 <= k /\ k < c
  BY Sizes DEF RamIndex
<1>2. k \in 0 .. MAX_PSYC_PAGES
  BY <1>1, Sizes
<1>3. Pos(s, c) = IF s + c < MAX_PSYC_PAGES THEN s + c ELSE s + c - MAX_PSYC_PAGES
  BY PosIs
<1>4. Pos(s, k) = IF s + k < MAX_PSYC_PAGES THEN s + k ELSE s + k - MAX_PSYC_PAGES
  BY <1>2, PosIs
<1>5. PICK x \in Int : x = Pos(s, c) - Pos(s, k) - 1
  BY <1>1, <1>3, <1>4, Sizes
<1>6. x = c - k - 1 \/ x = c - k - 1 - MAX_PSYC_PAGES
  BY <1>1, <1>3, <1>4, <1>5, Sizes
<1>7. x % MAX_PSYC_PAGES = c - k - 1
  <2>1. CASE x = c - k - 1
    <3>1. x \in 0 .. MAX_PSYC_PAGES - 1
      BY <1>1, <2>1, Sizes
    <3>2. x % MAX_PSYC_PAGES = x
      BY <3>1, Sizes, ModOneTurn
    <3> QED
      BY <2>1, <3>2
  <2>2. CASE x = c - k - 1 - MAX_PSYC_PAGES
    <3>1. x \in (-MAX_PSYC_PAGES) .. (-1)
      BY <1>1, <2>2, Sizes
    <3>2. x % MAX_PSYC_PAGES = x + MAX_PSYC_PAGES
      BY <3>1, Sizes, ModOneTurn
    <3> QED
      BY <1>1, <2>2, <3>2, Sizes
  <2> QED
    BY <1>6, <2>1, <2>2
<1> QED
  BY <1>5, <1>7, Zenon

\* deletePageFromRAM takes an entry out and keeps the order of the others.
LEMMA RemoveFacts ==
    ASSUME NEW r, Sound(r), NEW k0 \in 0 .. r.count - 1,
           NEW q, q = deleteAndReform(r, Pos(r.start, k0))
    PROVE  /\ Sound(q)
           /\ q.count = r.count - 1
           /\ \A k \in 0 .. q.count - 1 :
                 Cell(q, k) = IF k < k0 THEN Cell(r, k) ELSE Cell(r, k + 1)
<1> DEFINE i == Pos(r.start, k0)
           t == r.count - k0 - 1
           ram1 == [r.ram EXCEPT ![i].state = "NOT_USED"]
           r1 == deleteKeepingOrder(r, i)
           f == [k \in 0 .. t |-> Compacted(r, k0, k)]
           ram2 == Compacted(r, k0, t).ram
           r2 == organizeFIFORAMqueue(r1, i)
<1>1. /\ r \in Rings /\ r.ram \in [RamIndex -> page_t] /\ r.start \in RamIndex
      /\ r.next = Pos(r.start, r.count)
      /\ r.count \in 0 .. MAX_PSYC_PAGES /\ k0 \in 0 .. MAX_PSYC_PAGES - 1
      /\ k0 \in Nat /\ t \in Nat /\ k0 + t < r.count /\ k0 + t < MAX_PSYC_PAGES
      /\ k0 \in 0 .. MAX_PSYC_PAGES /\ r.count > 0 /\ r.count \in Nat
      /\ k0 + t = r.count - 1 /\ r.count - 1 \in 0 .. MAX_PSYC_PAGES
      /\ r.count <= MAX_PSYC_PAGES
  BY Sizes DEF Sound, Rings
<1>2. i \in RamIndex
  BY <1>1, PosIs
<1>3. r1 = [ram |-> ram1, count |-> r.count - 1, start |-> r.start, next |-> r.next]
  BY <1>1, <1>2, DeleteFields
<1>4. IsLoop(f, ram1, i, t)
  BY LoopCompacts
<1>5. (r1.next - i - 1) % MAX_PSYC_PAGES = t
  <2>1. r1.next = Pos(r.start, r.count)
    BY <1>1, <1>3
  <2> QED
    BY <1>1, <2>1, TurnsAre
<1>6. r2 = [r1 EXCEPT !.ram = f[t].ram]
  <2>1. r1.ram = ram1
    BY <1>3
  <2>2. Organized(r1, i, t) = [r1 EXCEPT !.ram = f[t].ram]
    <3>1. IsLoop(f, r1.ram, i, t) /\ t \in Nat
      BY <1>1, <1>4, <2>1, Zenon
    <3> HIDE DEF r1, f, i, t
    <3>2. ASSUME NEW rr, NEW ff, IsLoop(ff, rr.ram, i, t)
          PROVE  Organized(rr, i, t) = [rr EXCEPT !.ram = ff[t].ram]
      BY <3>1, <3>2, OrganizedIs
    <3> QED
      BY <3>1, <3>2, Zenon
  <2> QED
    BY <1>5, <2>2, Zenon DEF organizeFIFORAMqueue
<1>7. f[t].ram = ram2
  BY <1>1
<1> HIDE DEF f, ram1, ram2, r1
<1>8. r2 = [ram |-> ram2, count |-> r.count - 1, start |-> r.start, next |-> r.next]
  BY <1>3, <1>6, <1>7
<1>9. q = [ram |-> ram2, count |-> r.count - 1, start |-> r.start,
           next |-> Pos(r.start, r.count - 1)]
  <2>1. q = [r2 EXCEPT !.next = ((r2.start + r2.count) % UINT) % MAX_PSYC_PAGES]
    BY Zenon DEF deleteAndReform, updateFIFONextFreePageIndex, r1
  <2> HIDE DEF r2
  <2>2. r2.start = r.start /\ r2.count = r.count - 1
    BY <1>8
  <2>3. ((r2.start + r2.count) % UINT) % MAX_PSYC_PAGES = Pos(r.start, r.count - 1)
    BY <1>1, <2>2, NextIs
  <2>4. q = [r2 EXCEPT !.next = Pos(r.start, r.count - 1)]
    BY <2>1, <2>3, Zenon
  <2> QED
    BY <1>8, <2>4
<1>10. q.ram = ram2 /\ q.count = r.count - 1 /\ q.start = r.start
       /\ q.next = Pos(r.start, r.count - 1)
  BY <1>9
<1>11. ram2 \in [RamIndex -> page_t]
  <2>1. ASSUME NEW j \in RamIndex PROVE Pos(j, 1) \in RamIndex
    <3>1. 1 \in 0 .. MAX_PSYC_PAGES
      BY Sizes
    <3> QED
      BY <3>1, PosIs
  <2>2. ASSUME NEW x \in page_t PROVE [x EXCEPT !.state = "NOT_USED"] \in page_t
    BY DEF page_t
  <2> QED
    BY <1>1, <2>1, <2>2 DEF Compacted, ram2
<1>12. q \in Rings
  <2>1. Pos(r.start, r.count - 1) \in RamIndex
    BY <1>1, PosIs
  <2> QED
    BY <1>1, <1>9, <1>11, <2>1 DEF Rings
<1>13. ASSUME NEW k \in 0 .. MAX_PSYC_PAGES - 1
       PROVE  Cell(q, k) = IF k0 <= k /\ k < r.count - 1 THEN Cell(r, k + 1)
                           ELSE IF k = r.count - 1
                                THEN [Cell(r, k) EXCEPT !.state = "NOT_USED"]
                                ELSE Cell(r, k)
  <2>1. Cell(q, k) = ram2[Pos(r.start, k)]
    BY <1>10, Zenon DEF Cell
  <2>2. ram2[Pos(r.start, k)] =
              IF k0 <= k /\ k < k0 + t THEN Cell(r, k + 1)
              ELSE IF k = k0 + t THEN [Cell(r, k) EXCEPT !.state = "NOT_USED"]
                   ELSE Cell(r, k)
    BY <1>1, CompactedAt DEF ram2
  <2> HIDE DEF t
  <2> QED
    BY <1>1, <2>1, <2>2, Zenon
<1>14. ASSUME NEW k \in 0 .. MAX_PSYC_PAGES - 1
       PROVE  Cell(q, k).state = "USED" <=> k < r.count - 1
  <2>1. (Cell(r, k).state = "USED" <=> k < r.count) /\ Cell(r, k) \in page_t
    <3>1. Pos(r.start, k) \in RamIndex
      BY <1>1, PosIs, Sizes
    <3> QED
      BY <1>1, <3>1 DEF Sound, Cell
  <2>2. CASE k0 <= k /\ k < r.count - 1
    <3>1. k + 1 \in 0 .. MAX_PSYC_PAGES - 1 /\ k + 1 < r.count
      BY <1>1, <2>2, Sizes
    <3>2. Cell(r, k + 1).state = "USED"
      BY <3>1 DEF Sound
    <3> QED
      BY <1>13, <2>2, <3>2
  <2>3. CASE k = r.count - 1
    <3>1. ~(k < r.count - 1)
      BY <1>1, <2>3
    <3>2. Cell(q, k) = [Cell(r, k) EXCEPT !.state = "NOT_USED"]
      BY <1>13, <2>3, <3>1
    <3> QED
      BY <2>1, <3>1, <3>2 DEF page_t
  <2>4. CASE ~(k0 <= k /\ k < r.count - 1) /\ k # r.count - 1
    <3>1. Cell(q, k) = Cell(r, k)
      BY <1>13, <2>4
    <3>2. k < r.count <=> k < r.count - 1
      BY <1>1, <2>4, Sizes
    <3> QED
      BY <2>1, <3>1, <3>2
  <2> QED
    BY <2>2, <2>3, <2>4
<1>15. Sound(q)
  BY <1>10, <1>12, <1>14 DEF Sound
<1>16. ASSUME NEW k \in 0 .. q.count - 1
       PROVE  Cell(q, k) = IF k < k0 THEN Cell(r, k) ELSE Cell(r, k + 1)
  <2>1. /\ k \in 0 .. MAX_PSYC_PAGES - 1 /\ k < r.count - 1 /\ k # r.count - 1
        /\ k0 <= k <=> ~(k < k0)
    BY <1>1, <1>10, Sizes
  <2> QED
    BY <1>13, <2>1
<1> QED
  BY <1>10, <1>15, <1>16

\* A full ring after swap_out's deletion, insertion and shift: the deleted head
\* is where the new entry goes.
LEMMA SwapFacts ==
    ASSUME NEW r, Sound(r), r.count = MAX_PSYC_PAGES, NEW d \in Dirs, NEW v \in Pages
    PROVE  insertPageToRAM(deleteKeepingOrder(r, r.start), d, v) =
              [r EXCEPT !.ram[r.start] = Entry(d, v)]
<1> DEFINE r1 == deleteKeepingOrder(r, r.start)
           ram1 == [r.ram EXCEPT ![r.start].state = "NOT_USED"]
           ram2 == [r.ram EXCEPT ![r.start] = Entry(d, v)]
           r2 == [r1 EXCEPT !.ram[r1.next] = Entry(d, v), !.count = (@ + 1) % UINT]
<1>1. /\ r \in Rings /\ r.ram \in [RamIndex -> page_t] /\ r.start \in RamIndex
      /\ r.next \in RamIndex /\ r.next = Pos(r.start, MAX_PSYC_PAGES) /\ r.count > 0
      /\ r.count - 1 \in 0 .. MAX_PSYC_PAGES
      /\ MAX_PSYC_PAGES \in 0 .. MAX_PSYC_PAGES
  BY Sizes DEF Sound, Rings
<1>2. r.next = r.start
  <2>1. r.start \in Nat
    BY <1>1, Sizes DEF RamIndex
  <2> QED
    BY <1>1, <2>1, PosIs, Sizes
<1>3. r1 = [ram |-> ram1, count |-> r.count - 1, start |-> r.start, next |-> r.start]
  BY <1>1, <1>2, DeleteFields
<1>4. ram1 \in [RamIndex -> page_t] /\ [ram1 EXCEPT ![r.start] = Entry(d, v)] = ram2
  <2>1. \A x \in page_t : [x EXCEPT !.state = "NOT_USED"] \in page_t
    BY DEF page_t
  <2> QED
    BY <1>1, <2>1
<1>5. r1 \in Rings /\ r1.ram = ram1 /\ r1.start = r.start /\ r1.next = r.start
      /\ r1.count = r.count - 1
  BY <1>1, <1>3, <1>4 DEF Rings
<1> HIDE DEF r1, ram1, ram2
<1>6. (r1.count + 1) % UINT = MAX_PSYC_PAGES
  <2>1. MAX_PSYC_PAGES \in 0 .. UINT - 1
    BY Sizes
  <2>2. MAX_PSYC_PAGES % UINT = MAX_PSYC_PAGES
    BY <2>1, Sizes, ModOneTurn
  <2>3. r1.count + 1 = MAX_PSYC_PAGES
    BY <1>5, Sizes
  <2> QED
    BY <2>2, <2>3, Zenon
<1>7. r2 = [ram |-> ram2, count |-> MAX_PSYC_PAGES, start |-> r.start, next |-> r.start]
  <2>1. \A j, y, c : [r1 EXCEPT !.ram[j] = y, !.count = c] =
         [ram |-> [r1.ram EXCEPT ![j] = y], count |-> c, start |-> r1.start,
          next |-> r1.next]
    BY <1>5, RingFields, Zenon
  <2>2. r2 = [ram |-> [r1.ram EXCEPT ![r1.next] = Entry(d, v)],
              count |-> (r1.count + 1) % UINT, start |-> r1.start, next |-> r1.next]
    BY <2>1, Zenon
  <2>3. [r1.ram EXCEPT ![r1.next] = Entry(d, v)] = ram2
    BY <1>4, <1>5, Zenon
  <2> QED
    BY <1>5, <1>6, <2>2, <2>3, Zenon
<1>8. insertPageToRAM(r1, d, v) =
         [r2 EXCEPT !.next = ((r2.start + r2.count) % UINT) % MAX_PSYC_PAGES]
  BY Zenon DEF insertPageToRAM, updateFIFONextFreePageIndex
<1> HIDE DEF r2
<1>9. ((r2.start + r2.count) % UINT) % MAX_PSYC_PAGES = r.start
  <2>1. r2.start = r.start /\ r2.count = MAX_PSYC_PAGES
    BY <1>7
  <2> QED
    BY <1>1, <1>2, <2>1, NextIs
<1>10. insertPageToRAM(r1, d, v) = [r2 EXCEPT !.next = r.start]
  BY <1>8, <1>9, Zenon
<1>11. insertPageToRAM(r1, d, v) =
          [ram |-> ram2, count |-> MAX_PSYC_PAGES, start |-> r.start, next |-> r.start]
  BY <1>7, <1>10
<1>12. [r EXCEPT !.ram[r.start] = Entry(d, v)] =
          [ram |-> ram2, count |-> MAX_PSYC_PAGES, start |-> r.start, next |-> r.start]
  <2>1. [r EXCEPT !.ram[r.start] = Entry(d, v)] = [r EXCEPT !.ram = ram2]
    BY DEF ram2
  <2>2. r = [ram |-> r.ram, count |-> MAX_PSYC_PAGES, start |-> r.start, next |-> r.start]
    BY <1>1, <1>2, RingFields
  <2> QED
    BY <2>1, <2>2
<1> QED
  BY <1>11, <1>12 DEF r1

-----------------------------------------------------------------------------
(* Ring and page tables *)

Tables == [Dirs -> [Pages -> {"none", "P", "PG"}]]

\* The ring r holds every page that is present in the page tables t once.
Holds(r, t) ==
    /\ Sound(r)
    /\ \A i, j \in 0 .. r.count - 1 : Cell(r, i) = Cell(r, j) => i = j
    /\ \A k \in 0 .. r.count - 1 : \E d \in Dirs, v \in Pages : Cell(r, k) = Entry(d, v)
    /\ \A d \in Dirs, v \in Pages :
          t[d][v] = "P" <=> \E k \in 0 .. r.count - 1 : Cell(r, k) = Entry(d, v)

\* The entries of q that were in r are in front of those that were not, and in
\* the order they had.
InOrder(r, q) ==
    \A j \in 0 .. q.count - 1 : \A i \in 0 .. j - 1 :
        (\E k \in 0 .. r.count - 1 : Cell(q, j) = Cell(r, k)) =>
           \E k, l \in 0 .. r.count - 1 :
              k < l /\ Cell(q, i) = Cell(r, k) /\ Cell(q, j) = Cell(r, l)

\* An entry tells its page.
LEMMA EntryOf ==
    ASSUME NEW d, NEW v, NEW e, NEW w, Entry(d, v) = Entry(e, w)
    PROVE  d = e /\ v = w
<1>1. Entry(d, v).pgdir = Entry(e, w).pgdir /\ Entry(d, v).vAddr = Entry(e, w).vAddr
  BY Zenon
<1> QED
  BY <1>1 DEF Entry

\* The number of entries of a sound ring.
LEMMA CountIs ==
    ASSUME NEW r, Sound(r)
    PROVE  /\ r \in Rings /\ r.count \in Nat /\ r.count <= MAX_PSYC_PAGES
           /\ r.start \in RamIndex /\ r.ram \in [RamIndex -> page_t]
BY Sizes DEF Sound, Rings

\* A present page joins a ring with room.
LEMMA HoldsInsert ==
    ASSUME NEW r, NEW t, Holds(r, t), r.count < MAX_PSYC_PAGES,
           NEW d \in Dirs, NEW v \in Pages, t[d][v] # "P",
           NEW u, \A e \in Dirs, w \in Pages :
                     u[e][w] = "P" <=> t[e][w] = "P" \/ (e = d /\ w = v),
           NEW q, q = insertPageToRAM(r, d, v)
    PROVE  Holds(q, u) /\ InOrder(r, q) /\ q.count = r.count + 1
<1>1. /\ Sound(q) /\ q.count = r.count + 1
      /\ \A k \in 0 .. r.count - 1 : Cell(q, k) = Cell(r, k)
      /\ Cell(q, r.count) = Entry(d, v)
  BY InsertFacts DEF Holds
<1>2. r.count \in Nat
  BY CountIs DEF Holds
<1>3. \A k \in 0 .. q.count - 1 : k \in 0 .. r.count - 1 \/ k = r.count
  BY <1>1, <1>2
<1>4. \A k \in 0 .. r.count - 1 : k \in 0 .. q.count - 1 /\ k # r.count
  BY <1>1, <1>2
<1>5. r.count \in 0 .. q.count - 1
  BY <1>1, <1>2
<1>6. \A k \in 0 .. r.count - 1 : Cell(r, k) # Entry(d, v)
  BY DEF Holds
<1>7. \A i, j \in 0 .. q.count - 1 : Cell(q, i) = Cell(q, j) => i = j
  <2> TAKE i, j \in 0 .. q.count - 1
  <2>1. \A k, l \in 0 .. r.count - 1 : Cell(r, k) = Cell(r, l) => k = l
    BY DEF Holds
  <2> QED
    BY <1>1, <1>3, <1>6, <2>1
<1>8. \A k \in 0 .. q.count - 1 : \E e \in Dirs, w \in Pages : Cell(q, k) = Entry(e, w)
  <2> TAKE k \in 0 .. q.count - 1
  <2>1. CASE k = r.count
    BY <1>1, <2>1
  <2>2. CASE k \in 0 .. r.count - 1
    BY <1>1, <2>2 DEF Holds
  <2> QED
    BY <1>3, <2>1, <2>2
<1>9. ASSUME NEW e \in Dirs, NEW w \in Pages
      PROVE  u[e][w] = "P" <=> \E k \in 0 .. q.count - 1 : Cell(q, k) = Entry(e, w)
  <2>1. t[e][w] = "P" <=> \E k \in 0 .. r.count - 1 : Cell(r, k) = Entry(e, w)
    BY DEF Holds
  <2>2. u[e][w] = "P" <=> t[e][w] = "P" \/ (e = d /\ w = v)
    OBVIOUS
  <2>3. ASSUME u[e][w] = "P" PROVE \E k \in 0 .. q.count - 1 : Cell(q, k) = Entry(e, w)
    <3>1. CASE e = d /\ w = v
      BY <1>1, <1>5, <3>1
    <3>2. CASE t[e][w] = "P"
      BY <1>1, <1>4, <2>1, <3>2
    <3> QED
      BY <2>2, <2>3, <3>1, <3>2
  <2>4. ASSUME NEW k \in 0 .. q.count - 1, Cell(q, k) = Entry(e, w) PROVE u[e][w] = "P"
    <3>1. CASE k = r.count
      BY <1>1, <2>2, <2>4, <3>1, EntryOf
    <3>2. CASE k \in 0 .. r.count - 1
      BY <1>1, <2>1, <2>2, <2>4, <3>2
    <3> QED
      BY <1>3, <3>1, <3>2
  <2> QED
    BY <2>3, <2>4
<1>10. Holds(q, u)
  BY <1>1, <1>7, <1>8, <1>9 DEF Holds
<1>11. InOrder(r, q)
  <2> SUFFICES ASSUME NEW j \in 0 .. q.count - 1, NEW i \in 0 .. j - 1,
                      NEW m \in 0 .. r.count - 1, Cell(q, j) = Cell(r, m)
               PROVE  \E k, l \in 0 .. r.count - 1 :
                         k < l /\ Cell(q, i) = Cell(r, k) /\ Cell(q, j) = Cell(r, l)
    BY DEF InOrder
  <2>1. j # r.count
    BY <1>1, <1>6
  <2>2. j \in 0 .. r.count - 1 /\ i \in 0 .. r.count - 1 /\ i < j
    BY <1>2, <1>3, <2>1
  <2> QED
    BY <1>1, <2>2
<1> QED
  BY <1>1, <1>10, <1>11

\* In a full ring a present page takes the place of the head, which leaves.
LEMMA HoldsRotate ==
    ASSUME NEW r, NEW t, Holds(r, t), r.count = MAX_PSYC_PAGES,
           NEW d \in Dirs, NEW v \in Pages, t[d][v] # "P",
           NEW u, \A e \in Dirs, w \in Pages :
                     u[e][w] = "P" <=> \/ t[e][w] = "P" /\ Entry(e, w) # r.ram[r.start]
                                       \/ e = d /\ w = v,
           NEW q, q = shiftFIFOIndex([r EXCEPT !.ram[r.start] = Entry(d, v)])
    PROVE  Holds(q, u) /\ InOrder(r, q) /\ q.count = MAX_PSYC_PAGES
<1> DEFINE n == MAX_PSYC_PAGES - 1
<1>1. /\ Sound(q) /\ q.count = MAX_PSYC_PAGES
      /\ \A k \in 0 .. MAX_PSYC_PAGES - 2 : Cell(q, k) = Cell(r, k + 1)
      /\ Cell(q, n) = Entry(d, v)
  BY RotateFacts DEF Holds
<1>2. r.start \in RamIndex
  BY CountIs DEF Holds
<1>3. \A k \in 0 .. n : k \in 0 .. MAX_PSYC_PAGES - 2 \/ k = n
  BY Sizes
<1>4. \A k \in 0 .. MAX_PSYC_PAGES - 2 : k \in 0 .. n /\ k + 1 \in 0 .. n /\ k # n /\ k + 1 # 0
  BY Sizes
<1>5. n \in 0 .. n /\ 0 \in 0 .. n
  BY Sizes
<1>6. \A k \in 0 .. n : Cell(r, k) # Entry(d, v)
  BY DEF Holds
<1>7. r.ram[r.start] = Cell(r, 0)
  <2>1. r.start \in Int /\ 0 <= r.start /\ r.start < MAX_PSYC_PAGES
    BY <1>2, Sizes DEF RamIndex
  <2>2. 0 \in 0 .. MAX_PSYC_PAGES
    BY Sizes
  <2>3. Pos(r.start, 0) = IF r.start + 0 < MAX_PSYC_PAGES THEN r.start + 0
                          ELSE r.start + 0 - MAX_PSYC_PAGES
    BY <1>2, <2>2, PosIs
  <2>4. Pos(r.start, 0) = r.start
    BY <2>1, <2>3, Sizes
  <2> QED
    BY <2>4, Zenon DEF Cell
<1>8. \A k, l \in 0 .. n : Cell(r, k) = Cell(r, l) => k = l
  BY DEF Holds
<1>9. \A i, j \in 0 .. n : Cell(q, i) = Cell(q, j) => i = j
  <2> TAKE i, j \in 0 .. n
  <2>1. CASE i # n /\ j # n
    <3>1. /\ i + 1 \in 0 .. n /\ j + 1 \in 0 .. n
          /\ Cell(q, i) = Cell(r, i + 1) /\ Cell(q, j) = Cell(r, j + 1)
      BY <1>1, <1>3, <1>4, <2>1
    <3>2. i + 1 = j + 1 => i = j
      BY Sizes
    <3> QED
      BY <1>8, <3>1, <3>2
  <2>2. CASE i # n /\ j = n
    BY <1>1, <1>3, <1>4, <1>6, <2>2
  <2>3. CASE i = n /\ j # n
    BY <1>1, <1>3, <1>4, <1>6, <2>3
  <2> QED
    BY <2>1, <2>2, <2>3
<1>10. \A k \in 0 .. n : \E e \in Dirs, w \in Pages : Cell(q, k) = Entry(e, w)
  <2> TAKE k \in 0 .. n
  <2>1. CASE k = n
    BY <1>1, <2>1
  <2>2. CASE k \in 0 .. MAX_PSYC_PAGES - 2
    <3>1. k + 1 \in 0 .. n /\ Cell(q, k) = Cell(r, k + 1)
      BY <1>1, <1>4, <2>2
    <3>2. \A m \in 0 .. n : \E e \in Dirs, w \in Pages : Cell(r, m) = Entry(e, w)
      BY DEF Holds
    <3> QED
      BY <3>1, <3>2
  <2> QED
    BY <1>3, <2>1, <2>2
<1>11. ASSUME NEW e \in Dirs, NEW w \in Pages
      PROVE  u[e][w] = "P" <=> \E k \in 0 .. n : Cell(q, k) = Entry(e, w)
  <2>1. t[e][w] = "P" <=> \E k \in 0 .. n : Cell(r, k) = Entry(e, w)
    BY DEF Holds
  <2>2. u[e][w] = "P" <=> \/ t[e][w] = "P" /\ Entry(e, w) # Cell(r, 0)
                          \/ e = d /\ w = v
    BY <1>7
  <2>3. ASSUME u[e][w] = "P" PROVE \E k \in 0 .. n : Cell(q, k) = Entry(e, w)
    <3>1. CASE e = d /\ w = v
      BY <1>1, <1>5, <3>1
    <3>2. CASE t[e][w] = "P" /\ Entry(e, w) # Cell(r, 0)
      <4>1. PICK k \in 0 .. n : Cell(r, k) = Entry(e, w)
        BY <2>1, <3>2
      <4>2. k # 0
        BY <3>2, <4>1
      <4>3. k - 1 \in 0 .. MAX_PSYC_PAGES - 2 /\ (k - 1) + 1 = k
        BY <4>2, Sizes
      <4>4. Cell(q, k - 1) = Cell(r, k) /\ k - 1 \in 0 .. n
        BY <1>1, <1>4, <4>3
      <4> QED
        BY <4>1, <4>4
    <3> QED
      BY <2>2, <2>3, <3>1, <3>2
  <2>4. ASSUME NEW k \in 0 .. n, Cell(q, k) = Entry(e, w) PROVE u[e][w] = "P"
    <3>1. CASE k = n
      BY <1>1, <2>2, <2>4, <3>1, EntryOf
    <3>2. CASE k \in 0 .. MAX_PSYC_PAGES - 2
      <4>1. Cell(r, k + 1) = Entry(e, w) /\ k + 1 \in 0 .. n /\ k + 1 # 0
        BY <1>1, <1>4, <2>4, <3>2
      <4>2. Cell(r, k + 1) # Cell(r, 0)
        BY <1>5, <1>8, <4>1
      <4> QED
        BY <2>1, <2>2, <4>1, <4>2
    <3> QED
      BY <1>3, <3>1, <3>2
  <2> QED
    BY <2>3, <2>4
<1>12. Holds(q, u)
  <2>1. q.count - 1 = n
    BY <1>1
  <2> HIDE DEF n
  <2> QED
    BY <1>1, <1>9, <1>10, <1>11, <2>1, Zenon DEF Holds
<1>13. InOrder(r, q)
  <2> SUFFICES ASSUME NEW j \in 0 .. n, NEW i \in 0 .. j - 1,
                      NEW m \in 0 .. n, Cell(q, j) = Cell(r, m)
               PROVE  \E k, l \in 0 .. n :
                         k < l /\ Cell(q, i) = Cell(r, k) /\ Cell(q, j) = Cell(r, l)
    BY <1>1 DEF InOrder
  <2>1. j # n
    BY <1>1, <1>6
  <2>2. j \in 0 .. MAX_PSYC_PAGES - 2 /\ i \in 0 .. MAX_PSYC_PAGES - 2 /\ i + 1 < j + 1
    BY <1>3, <2>1, Sizes
  <2> QED
    BY <1>1, <1>4, <2>2
<1> QED
  BY <1>1, <1>12, <1>13

\* A page that is given up leaves the ring.
LEMMA HoldsRemove ==
    ASSUME NEW r, NEW t, Holds(r, t),
           NEW d \in Dirs, NEW v \in Pages, t[d][v] = "P",
           NEW u, \A e \in Dirs, w \in Pages :
                     u[e][w] = "P" <=> t[e][w] = "P" /\ ~(e = d /\ w = v),
           NEW q, q = removePageFromRAM(r, d, v)
    PROVE  Holds(q, u) /\ InOrder(r, q) /\ q.count = r.count - 1 /\ r.count > 0
<1>1. r.count \in Nat /\ r.count <= MAX_PSYC_PAGES /\ r.start \in RamIndex
  BY CountIs DEF Holds
<1>2. PICK k0 \in 0 .. r.count - 1 : Cell(r, k0) = Entry(d, v)
  BY DEF Holds
<1>3. k0 \in 0 .. MAX_PSYC_PAGES - 1 /\ k0 \in 0 .. MAX_PSYC_PAGES
  BY <1>1, Sizes
<1>4. RamEntries(r, d, v) = {Pos(r.start, k0)}
  <2>1. Pos(r.start, k0) \in RamIndex
    BY <1>1, <1>3, PosIs
  <2>2. ASSUME NEW i \in RamIndex, r.ram[i] = Entry(d, v) PROVE i = Pos(r.start, k0)
    <3>1. PICK k \in 0 .. MAX_PSYC_PAGES - 1 : i = Pos(r.start, k)
      BY <1>1, PosAll
    <3>2. Cell(r, k) = Entry(d, v)
      BY <2>2, <3>1, Zenon DEF Cell
    <3>3. Cell(r, k).state = "USED"
      BY <3>2, EntryFacts
    <3>4. k \in 0 .. r.count - 1
      <4>1. k < r.count
        BY <3>3 DEF Holds, Sound
      <4> QED
        BY <1>1, <4>1
    <3>5. k = k0
      BY <1>2, <3>2, <3>4 DEF Holds
    <3> QED
      BY <3>1, <3>5
  <2>3. r.ram[Pos(r.start, k0)] = Entry(d, v)
    BY <1>2, Zenon DEF Cell
  <2> QED
    BY <2>1, <2>2, <2>3 DEF RamEntries
<1>5. SmallestOf(RamEntries(r, d, v)) = Pos(r.start, k0)
  <2>1. Pos(r.start, k0) \in Nat
    <3>1. Pos(r.start, k0) \in RamIndex
      BY <1>1, <1>3, PosIs
    <3> QED
      BY <3>1, Sizes DEF RamIndex
  <2>2. RamEntries(r, d, v) \subseteq Nat /\ RamEntries(r, d, v) # {}
    BY <1>4, <2>1
  <2>3. SmallestOf(RamEntries(r, d, v)) \in RamEntries(r, d, v)
    BY <2>2, SmallestFacts
  <2> QED
    BY <1>4, <2>3
<1>6. q = deleteAndReform(r, Pos(r.start, k0))
  <2>1. RamEntries(r, d, v) # {}
    BY <1>4
  <2> QED
    BY <1>5, <2>1, Zenon DEF removePageFromRAM
<1>7. /\ Sound(q) /\ q.count = r.count - 1
      /\ \A k \in 0 .. q.count - 1 :
            Cell(q, k) = IF k < k0 THEN Cell(r, k) ELSE Cell(r, k + 1)
  BY <1>6, RemoveFacts DEF Holds
\* Where the entry k of q was in r.
<1> DEFINE Was(k) == IF k < k0 THEN k ELSE k + 1
<1>8. \A k \in 0 .. q.count - 1 : /\ Was(k) \in 0 .. r.count - 1 /\ Was(k) # k0
                                  /\ Cell(q, k) = Cell(r, Was(k))
  BY <1>1, <1>7
<1>9. \A i, j \in 0 .. q.count - 1 : i < j => Was(i) < Was(j)
  BY <1>1, <1>7
<1>10. \A m \in 0 .. r.count - 1 : m # k0 => \E k \in 0 .. q.count - 1 : Was(k) = m
  <2> SUFFICES ASSUME NEW m \in 0 .. r.count - 1, m # k0
               PROVE  \E k \in 0 .. q.count - 1 : Was(k) = m
    OBVIOUS
  <2>1. CASE m < k0
    <3>1. m \in 0 .. q.count - 1 /\ Was(m) = m
      BY <1>1, <1>7, <2>1
    <3> QED
      BY <3>1
  <2>2. CASE ~(m < k0)
    <3>1. m - 1 \in 0 .. q.count - 1 /\ Was(m - 1) = m
      BY <1>1, <1>7, <2>2
    <3> QED
      BY <3>1
  <2> QED
    BY <2>1, <2>2
<1>11. \A i, j \in 0 .. q.count - 1 : i # j => Was(i) # Was(j)
  BY <1>1, <1>7
<1> HIDE DEF Was
<1>12. \A k, l \in 0 .. r.count - 1 : Cell(r, k) = Cell(r, l) => k = l
  BY DEF Holds
<1>13. \A i, j \in 0 .. q.count - 1 : Cell(q, i) = Cell(q, j) => i = j
  BY <1>8, <1>11, <1>12
<1>14. \A k \in 0 .. q.count - 1 : \E e \in Dirs, w \in Pages : Cell(q, k) = Entry(e, w)
  BY <1>8 DEF Holds
<1>15. ASSUME NEW e \in Dirs, NEW w \in Pages
      PROVE  u[e][w] = "P" <=> \E k \in 0 .. q.count - 1 : Cell(q, k) = Entry(e, w)
  <2>1. t[e][w] = "P" <=> \E k \in 0 .. r.count - 1 : Cell(r, k) = Entry(e, w)
    BY DEF Holds
  <2>2. u[e][w] = "P" <=> t[e][w] = "P" /\ ~(e = d /\ w = v)
    OBVIOUS
  <2>3. ASSUME u[e][w] = "P" PROVE \E k \in 0 .. q.count - 1 : Cell(q, k) = Entry(e, w)
    <3>1. PICK m \in 0 .. r.count - 1 : Cell(r, m) = Entry(e, w)
      BY <2>1, <2>2, <2>3
    <3>2. m # k0
      BY <1>2, <2>2, <2>3, <3>1, EntryOf
    <3>3. PICK k \in 0 .. q.count - 1 : Was(k) = m
      BY <1>10, <3>2
    <3> QED
      BY <1>8, <3>1, <3>3
  <2>4. ASSUME NEW k \in 0 .. q.count - 1, Cell(q, k) = Entry(e, w) PROVE u[e][w] = "P"
    <3>1. Was(k) \in 0 .. r.count - 1 /\ Was(k) # k0 /\ Cell(r, Was(k)) = Entry(e, w)
      BY <1>8, <2>4
    <3>2. Cell(r, Was(k)) # Entry(d, v)
      BY <1>2, <1>12, <3>1
    <3> QED
      BY <2>1, <2>2, <3>1, <3>2
  <2> QED
    BY <2>3, <2>4
<1>16. Holds(q, u)
  BY <1>7, <1>13, <1>14, <1>15 DEF Holds
<1>17. InOrder(r, q)
  <2> SUFFICES ASSUME NEW j \in 0 .. q.count - 1, NEW i \in 0 .. j - 1
               PROVE  \E k, l \in 0 .. r.count - 1 :
                         k < l /\ Cell(q, i) = Cell(r, k) /\ Cell(q, j) = Cell(r, l)
    BY DEF InOrder
  <2>1. i \in 0 .. q.count - 1 /\ i < j
    BY <1>1, <1>7
  <2> QED
    BY <1>8, <1>9, <2>1
<1> QED
  BY <1>1, <1>7, <1>16, <1>17

-----------------------------------------------------------------------------
(* The swap file *)

Files == [slot : [FileIndex -> page_t], out : 0 .. MAX_FILE_PAGES, data : Seq(Contents)]
UsedSlot(f, i) == f.slot[i].state = "USED"

\* The slots in use are those of the pages O of the page table d, one for each.
\* A free slot keeps the address of a page it held, but none in front of the
\* slot a page has now has its address.
FileOk(f, d, O) ==
    /\ f \in Files /\ Len(f.data) <= MAX_FILE_PAGES
    /\ O \subseteq Pages /\ f.out = Cardinality(O)
    /\ \A i \in FileIndex :
          UsedSlot(f, i) => f.slot[i].pgdir = d /\ f.slot[i].vAddr \in O /\ i < Len(f.data)
    /\ \A v \in O : \E i \in FileIndex : UsedSlot(f, i) /\ f.slot[i].vAddr = v
    /\ \A i, j \in FileIndex :
          i < j /\ UsedSlot(f, j) => f.slot[i].vAddr # f.slot[j].vAddr

\* Sets of pages are finite.
LEMMA PagesFinite ==
    ASSUME NEW S, S \subseteq Pages
    PROVE  IsFiniteSet(S) /\ Cardinality(S) \in Nat /\ Cardinality(S) <= MAX_TOTAL_PAGES
<1>1. IsFiniteSet(Pages) /\ Cardinality(Pages) = MAX_TOTAL_PAGES
  <2>1. 0 \in Int /\ MAX_TOTAL_PAGES - 1 \in Int
    BY Sizes
  <2>2. /\ IsFiniteSet(0 .. MAX_TOTAL_PAGES - 1)
        /\ Cardinality(0 .. MAX_TOTAL_PAGES - 1) =
              IF 0 > MAX_TOTAL_PAGES - 1 THEN 0 ELSE MAX_TOTAL_PAGES - 1 - 0 + 1
    BY <2>1, FS_Interval, Zenon
  <2> QED
    BY <2>2, Sizes DEF Pages
<1>2. IsFiniteSet(S) /\ Cardinality(S) <= Cardinality(Pages)
  BY <1>1, FS_Subset
<1> QED
  BY <1>1, <1>2, FS_CardinalityType

\* There are no more slots in use than slots, and a slot is free while fewer
\* pages than slots are paged out.
LEMMA SlotsBound ==
    ASSUME NEW f, NEW d, NEW O, FileOk(f, d, O)
    PROVE  /\ Cardinality(O) \in 0 .. MAX_FILE_PAGES
           /\ Cardinality(O) < MAX_FILE_PAGES => FreeSlots(f) # {}
<1>1. IsFiniteSet(FileIndex) /\ Cardinality(FileIndex) = MAX_FILE_PAGES
  <2>1. 0 \in Int /\ MAX_FILE_PAGES - 1 \in Int
    BY Sizes
  <2>2. /\ IsFiniteSet(0 .. MAX_FILE_PAGES - 1)
        /\ Cardinality(0 .. MAX_FILE_PAGES - 1) =
              IF 0 > MAX_FILE_PAGES - 1 THEN 0 ELSE MAX_FILE_PAGES - 1 - 0 + 1
    BY <2>1, FS_Interval, Zenon
  <2> QED
    BY <2>2, Sizes DEF FileIndex
<1>2. Cardinality(O) \in 0 .. MAX_FILE_PAGES
  BY DEF FileOk, Files
<1>3. ASSUME Cardinality(O) < MAX_FILE_PAGES, FreeSlots(f) = {} PROVE FALSE
  <2>1. \A i \in FileIndex : UsedSlot(f, i)
    BY <1>3 DEF FreeSlots, UsedSlot, FileOk, Files, page_t
  <2> DEFINE g == [i \in FileIndex |-> f.slot[i].vAddr]
  <2>2. g \in [FileIndex -> O]
    BY <2>1 DEF FileOk
  <2>3. \A i, j \in FileIndex : i < j => f.slot[i].vAddr # f.slot[j].vAddr
    BY <2>1 DEF FileOk
  <2>4. \A i, j \in FileIndex : f.slot[i].vAddr = f.slot[j].vAddr => i = j
    BY <2>3, Sizes DEF FileIndex
  <2>5. IsFiniteSet(O)
    BY PagesFinite DEF FileOk
  <2>6. \A i \in FileIndex : g[i] = f.slot[i].vAddr
    OBVIOUS
  <2> HIDE DEF g
  <2>7. PICK i, j \in FileIndex : i # j /\ g[i] = g[j]
    BY <1>1, <1>3, <2>2, <2>5, FS_PigeonHole
  <2> QED
    BY <2>4, <2>6, <2>7
<1> QED
  BY <1>2, <1>3

\* page_in takes the slot in use.
LEMMA SlotIs ==
    ASSUME NEW f, NEW d, NEW O, FileOk(f, d, O),
           NEW i \in FileIndex, UsedSlot(f, i), NEW v, f.slot[i].vAddr = v
    PROVE  /\ page_inFinds(f, v) /\ page_inSlot(f, v) = i
           /\ \A x : page_inData(f, v, x) = f.data[i + 1]
           /\ f.data[i + 1] \in Contents
<1>1. i \in Nat /\ Len(f.data) \in Nat /\ i < Len(f.data) /\ f.data \in Seq(Contents)
  BY Sizes DEF FileOk, Files, FileIndex
<1>2. i \in SlotsFor(f, v) /\ SlotsFor(f, v) \subseteq FileIndex
  BY DEF SlotsFor
<1>3. SlotsFor(f, v) \subseteq Nat
  BY <1>2, Sizes DEF FileIndex
<1>4. PICK s \in SlotsFor(f, v) : s = SmallestOf(SlotsFor(f, v)) /\ s <= i
  BY <1>2, <1>3, SmallestFacts
<1>5. s \in FileIndex /\ f.slot[s].vAddr = v
  BY <1>4 DEF SlotsFor
<1>6. ~(s < i)
  BY <1>5 DEF FileOk
<1>7. s = i
  BY <1>1, <1>3, <1>4, <1>6
<1>8. page_inFinds(f, v) /\ page_inSlot(f, v) = i
  BY <1>1, <1>2, <1>4, <1>7 DEF page_inFinds, page_inSlot
<1>9. ASSUME NEW x PROVE page_inData(f, v, x) = f.data[i + 1]
  BY <1>1, <1>8, Zenon DEF page_inData
<1>10. f.data[i + 1] \in Contents
  BY <1>1
<1> QED
  BY <1>8, <1>9, <1>10

\* A page that is paged out can be read.
LEMMA DataIs ==
    ASSUME NEW f, NEW d, NEW O, FileOk(f, d, O), NEW v \in O
    PROVE  \A x, y : /\ page_inData(f, v, x) = page_inData(f, v, y)
                     /\ page_inData(f, v, x) \in Contents
<1>1. PICK i \in FileIndex : UsedSlot(f, i) /\ f.slot[i].vAddr = v
  BY DEF FileOk
<1> QED
  BY <1>1, SlotIs

\* page_in frees the slot of the page and leaves the other pages what they are.
LEMMA PageInFacts ==
    ASSUME NEW f, NEW d \in Dirs, NEW O, FileOk(f, d, O), NEW v \in O,
           NEW q, q = page_in(f, v), NEW R, R = O \ {v}
    PROVE  /\ FileOk(q, d, R)
           /\ page_inFinds(f, v) /\ f.slot[page_inSlot(f, v)] = Entry(d, v)
           /\ \A x : \A w \in R : page_inData(q, w, x) = page_inData(f, w, x)
<1>1. PICK i \in FileIndex : UsedSlot(f, i) /\ f.slot[i].vAddr = v
  BY DEF FileOk
<1>2. page_inFinds(f, v) /\ page_inSlot(f, v) = i
  BY <1>1, SlotIs
<1>3. f \in Files /\ f.slot \in [FileIndex -> page_t] /\ f.out = Cardinality(O)
      /\ O \subseteq Pages /\ v \in Pages
  BY DEF FileOk, Files
<1>4. f.slot[i] = Entry(d, v)
  <2>1. f.slot[i] \in page_t
    BY <1>3
  <2>2. f.slot[i].state = "USED" /\ f.slot[i].pgdir = d
    BY <1>1 DEF FileOk, UsedSlot
  <2> QED
    BY <1>1, <2>1, <2>2 DEF page_t, Entry
<1>5. Cardinality(O \ {v}) = Cardinality(O) - 1 /\ Cardinality(O) \in Nat
      /\ Cardinality(O) > 0 /\ Cardinality(O) <= MAX_FILE_PAGES /\ Cardinality(O \ {v}) \in Nat
  <2>1. IsFiniteSet(O) /\ Cardinality(O) \in Nat
    BY <1>3, PagesFinite
  <2>2. IsFiniteSet(O \ {v}) /\ Cardinality(O \ {v}) = Cardinality(O) - 1
    BY <2>1, FS_RemoveElement
  <2>3. Cardinality(O \ {v}) \in Nat
    BY <2>2, FS_CardinalityType
  <2>4. Cardinality(O) <= MAX_FILE_PAGES
    BY <2>1, SlotsBound, Sizes
  <2> QED
    BY <2>1, <2>2, <2>3, <2>4
<1>6. (f.out - 1) % UINT = Cardinality(O \ {v})
  <2>1. Cardinality(O \ {v}) \in 0 .. UINT - 1
    BY <1>5, Sizes
  <2>2. Cardinality(O \ {v}) % UINT = Cardinality(O \ {v})
    BY <2>1, Sizes, ModOneTurn
  <2>3. f.out - 1 = Cardinality(O \ {v})
    BY <1>3, <1>5
  <2> QED
    BY <2>2, <2>3, Zenon
<1> DEFINE slot2 == [f.slot EXCEPT ![i].state = "NOT_USED"]
<1>7. q = [slot |-> slot2, out |-> Cardinality(O \ {v}), data |-> f.data]
  <2>1. f = [slot |-> f.slot, out |-> f.out, data |-> f.data]
    BY <1>3 DEF Files
  <2>2. \A j, c : [f EXCEPT !.slot[j].state = "NOT_USED", !.out = c] =
               [slot |-> [f.slot EXCEPT ![j].state = "NOT_USED"], out |-> c, data |-> f.data]
    <3> TAKE j, c
    <3> DEFINE a == [f.slot EXCEPT ![j].state = "NOT_USED"]
               f1 == [f EXCEPT !.slot = a]
               f2 == [f1 EXCEPT !.out = c]
    <3>1. [f EXCEPT !.slot[j].state = "NOT_USED", !.out = c] = f2
      OBVIOUS
    <3> HIDE DEF a
    <3>2. f1 = [slot |-> a, out |-> f.out, data |-> f.data]
      BY <2>1
    <3> HIDE DEF f1
    <3>3. f2 = [slot |-> a, out |-> c, data |-> f.data]
      BY <3>2
    <3> HIDE DEF f2
    <3> QED
      BY <3>1, <3>3 DEF a
  <2>3. q = [f EXCEPT !.slot[page_inSlot(f, v)].state = "NOT_USED",
                      !.out = (f.out - 1) % UINT]
    BY <1>2, Zenon DEF page_in
  <2> QED
    BY <1>2, <1>6, <2>2, <2>3, Zenon
<1>8. slot2 \in [FileIndex -> page_t]
  <2>1. \A x \in page_t : [x EXCEPT !.state = "NOT_USED"] \in page_t
    BY DEF page_t
  <2> QED
    BY <1>3, <2>1
<1>9. \A j \in FileIndex :
         /\ slot2[j].vAddr = f.slot[j].vAddr /\ slot2[j].pgdir = f.slot[j].pgdir
         /\ slot2[j].state = IF j = i THEN "NOT_USED" ELSE f.slot[j].state
  BY <1>3 DEF page_t
<1> HIDE DEF slot2
<1>10. q.slot = slot2 /\ q.data = f.data /\ q.out = Cardinality(O \ {v})
  BY <1>7
<1>11. \A j \in FileIndex : UsedSlot(q, j) <=> j # i /\ UsedSlot(f, j)
  BY <1>9, <1>10 DEF UsedSlot
<1>12. \A j \in FileIndex : j # i /\ UsedSlot(f, j) => f.slot[j].vAddr # v
  BY <1>1, Sizes DEF FileOk, FileIndex
<1>13. FileOk(q, d, O \ {v})
  <2>1. q \in Files
    <3>1. f.data \in Seq(Contents)
      BY <1>3 DEF Files
    <3>2. Cardinality(O \ {v}) \in 0 .. MAX_FILE_PAGES
      BY <1>5, Sizes
    <3> QED
      BY <1>7, <1>8, <3>1, <3>2 DEF Files
  <2>2. \A j \in FileIndex : UsedSlot(q, j) =>
           q.slot[j].pgdir = d /\ q.slot[j].vAddr \in O \ {v} /\ j < Len(q.data)
    BY <1>9, <1>10, <1>11, <1>12 DEF FileOk
  <2>3. ASSUME NEW w \in O \ {v}
        PROVE  \E j \in FileIndex : UsedSlot(q, j) /\ q.slot[j].vAddr = w
    <3>1. PICK j \in FileIndex : UsedSlot(f, j) /\ f.slot[j].vAddr = w
      BY DEF FileOk
    <3> QED
      BY <1>1, <1>9, <1>10, <1>11, <3>1
  <2>4. \A j, k \in FileIndex :
           j < k /\ UsedSlot(q, k) => q.slot[j].vAddr # q.slot[k].vAddr
    BY <1>9, <1>10, <1>11 DEF FileOk
  <2>5. Len(q.data) <= MAX_FILE_PAGES /\ O \ {v} \subseteq Pages
    BY <1>10 DEF FileOk
  <2> QED
    BY <1>10, <2>1, <2>2, <2>3, <2>4, <2>5 DEF FileOk
<1>14. ASSUME NEW w \in O \ {v}, NEW x PROVE page_inData(q, w, x) = page_inData(f, w, x)
  <2>1. PICK j \in FileIndex : UsedSlot(q, j) /\ q.slot[j].vAddr = w
    BY <1>13 DEF FileOk
  <2>2. UsedSlot(f, j) /\ f.slot[j].vAddr = w
    BY <1>9, <1>10, <1>11, <2>1
  <2>3. page_inData(q, w, x) = q.data[j + 1]
    BY <1>13, <2>1, SlotIs
  <2>4. page_inData(f, w, x) = f.data[j + 1]
    BY <2>2, SlotIs
  <2> QED
    BY <1>10, <2>3, <2>4
<1> QED
  BY <1>2, <1>4, <1>13, <1>14

\* page_out has a slot for the page, within the file or at its end, and leaves
\* the other pages what they are.
LEMMA PageOutFacts ==
    ASSUME NEW f, NEW d \in Dirs, NEW O, FileOk(f, d, O), NEW v \in Pages, v \notin O,
           Cardinality(O) < MAX_FILE_PAGES, NEW x \in Contents,
           NEW q, q = page_out(f, d, v, x)
    PROVE  /\ FileOk(q, d, O \cup {v})
           /\ \A y : page_inData(q, v, y) = x
           /\ \A y : \A w \in O : page_inData(q, w, y) = page_inData(f, w, y)
<1>1. f \in Files /\ f.slot \in [FileIndex -> page_t] /\ f.out = Cardinality(O)
      /\ O \subseteq Pages /\ f.data \in Seq(Contents) /\ Len(f.data) \in Nat
  BY DEF FileOk, Files
<1>2. FreeSlots(f) # {} /\ FreeSlots(f) \subseteq FileIndex /\ FileIndex \subseteq Nat
  <2>1. FreeSlots(f) # {}
    BY SlotsBound
  <2> QED
    BY <2>1, Sizes DEF FreeSlots, FileIndex
<1>3. PICK i \in FileIndex : i = SmallestOf(FreeSlots(f)) /\ i \in FreeSlots(f)
                             /\ \A j \in FreeSlots(f) : i <= j
  <2>1. FreeSlots(f) \subseteq Nat
    BY <1>2
  <2> QED
    BY <1>2, <2>1, SmallestFacts
<1>4. \A j \in FileIndex : j < i => UsedSlot(f, j)
  <2> SUFFICES ASSUME NEW j \in FileIndex, j < i, ~ UsedSlot(f, j) PROVE FALSE
    OBVIOUS
  <2>1. j \in FreeSlots(f)
    BY <1>1 DEF FreeSlots, UsedSlot, page_t
  <2> QED
    BY <1>2, <1>3, <2>1
<1>5. ~ UsedSlot(f, i)
  BY <1>3 DEF FreeSlots, UsedSlot
<1>6. i \in Nat /\ i < MAX_FILE_PAGES /\ i <= Len(f.data)
  <2>1. i \in Nat /\ i < MAX_FILE_PAGES
    BY Sizes DEF FileIndex
  <2>2. CASE i = 0
    BY <1>1, <2>1, <2>2
  <2>3. CASE i # 0
    <3>1. i - 1 \in FileIndex /\ i - 1 < i
      BY <2>1, <2>3, Sizes DEF FileIndex
    <3>2. i - 1 < Len(f.data)
      BY <1>4, <3>1 DEF FileOk
    <3> QED
      BY <1>1, <2>1, <3>2
  <2> QED
    BY <2>2, <2>3
<1>7. /\ Cardinality(O) \in Nat /\ Cardinality(O \cup {v}) = Cardinality(O) + 1
      /\ (f.out + 1) % UINT = Cardinality(O \cup {v})
      /\ Cardinality(O \cup {v}) \in 0 .. MAX_FILE_PAGES
  <2>1. IsFiniteSet(O) /\ Cardinality(O) \in Nat
    BY <1>1, PagesFinite
  <2>2. Cardinality(O \cup {v}) = Cardinality(O) + 1
    BY <2>1, FS_AddElement
  <2>3. Cardinality(O) + 1 \in 0 .. UINT - 1 /\ Cardinality(O) + 1 \in 0 .. MAX_FILE_PAGES
    BY <2>1, Sizes
  <2>4. (Cardinality(O) + 1) % UINT = Cardinality(O) + 1
    BY <2>3, Sizes, ModOneTurn
  <2>5. (f.out + 1) % UINT = Cardinality(O \cup {v})
    BY <1>1, <2>2, <2>4, Zenon
  <2> QED
    BY <2>1, <2>2, <2>3, <2>5
<1> DEFINE slot2 == [f.slot EXCEPT ![i] = Entry(d, v)]
           data2 == Written(f.data, i, x)
<1>8. q = [slot |-> slot2, out |-> Cardinality(O \cup {v}), data |-> data2]
  <2>1. ~ (i > Len(f.data))
    BY <1>1, <1>6
  <2>2. q = [slot |-> [f.slot EXCEPT ![i] = Entry(d, v)],
             out |-> (f.out + 1) % UINT, data |-> Written(f.data, i, x)]
    BY <1>2, <1>3, <2>1, Zenon DEF page_out
  <2> QED
    BY <1>7, <2>2, Zenon
<1>9. /\ data2 \in Seq(Contents) /\ i < Len(data2)
      /\ Len(data2) \in Nat /\ Len(data2) <= MAX_FILE_PAGES /\ Len(f.data) <= Len(data2)
      /\ data2[i + 1] = x
      /\ \A k \in 1 .. Len(f.data) : k # i + 1 => data2[k] = f.data[k]
  <2>1. CASE i = Len(f.data)
    <3>1. data2 = Append(f.data, x)
      BY <2>1, Zenon DEF Written
    <3>2. /\ Append(f.data, x) \in Seq(Contents)
          /\ Len(Append(f.data, x)) = Len(f.data) + 1
          /\ \A k \in 1 .. Len(f.data) : Append(f.data, x)[k] = f.data[k]
          /\ Append(f.data, x)[Len(f.data) + 1] = x
      BY <1>1, AppendProperties
    <3> QED
      BY <1>1, <1>6, <2>1, <3>1, <3>2, Sizes
  <2>2. CASE i # Len(f.data)
    <3>1. data2 = [f.data EXCEPT ![i + 1] = x]
      BY <2>2, Zenon DEF Written
    <3>2. i + 1 \in 1 .. Len(f.data)
      BY <1>1, <1>6, <2>2
    <3>3. /\ [f.data EXCEPT ![i + 1] = x] \in Seq(Contents)
          /\ Len([f.data EXCEPT ![i + 1] = x]) = Len(f.data)
          /\ \A k \in 1 .. Len(f.data) :
                [f.data EXCEPT ![i + 1] = x][k] = IF k = i + 1 THEN x ELSE f.data[k]
      BY <1>1, <3>2, ExceptSeq
    <3>4. Len(f.data) <= MAX_FILE_PAGES
      BY DEF FileOk
    <3> HIDE DEF data2
    <3>5. /\ data2 \in Seq(Contents) /\ Len(data2) = Len(f.data)
          /\ \A k \in 1 .. Len(f.data) : data2[k] = IF k = i + 1 THEN x ELSE f.data[k]
      BY <3>1, <3>3, Zenon
    <3> QED
      BY <1>1, <1>6, <3>2, <3>4, <3>5
  <2> QED
    BY <2>1, <2>2
<1>10. /\ slot2 \in [FileIndex -> page_t]
       /\ \A j \in FileIndex : slot2[j] = IF j = i THEN Entry(d, v) ELSE f.slot[j]
  BY <1>1, EntryFacts
<1> HIDE DEF slot2, data2
<1>11. q.slot = slot2 /\ q.data = data2 /\ q.out = Cardinality(O \cup {v})
  BY <1>8
<1>12. \A j \in FileIndex :
          /\ j = i => UsedSlot(q, j) /\ q.slot[j].pgdir = d /\ q.slot[j].vAddr = v
          /\ j # i => q.slot[j] = f.slot[j] /\ (UsedSlot(q, j) <=> UsedSlot(f, j))
  <2>1. Entry(d, v).state = "USED" /\ Entry(d, v).pgdir = d /\ Entry(d, v).vAddr = v
    BY EntryFacts
  <2> QED
    BY <1>10, <1>11, <2>1, Zenon DEF UsedSlot
<1>13. FileOk(q, d, O \cup {v})
  <2>1. q \in Files
    BY <1>7, <1>8, <1>9, <1>10 DEF Files
  <2>2. ASSUME NEW j \in FileIndex, UsedSlot(q, j)
        PROVE  q.slot[j].pgdir = d /\ q.slot[j].vAddr \in O \cup {v} /\ j < Len(q.data)
    <3>1. CASE j = i
      BY <1>9, <1>11, <1>12, <3>1
    <3>2. CASE j # i
      <4>1. f.slot[j].pgdir = d /\ f.slot[j].vAddr \in O /\ j < Len(f.data)
        BY <1>12, <2>2, <3>2 DEF FileOk
      <4>2. j < Len(data2)
        BY <1>1, <1>2, <1>9, <4>1
      <4> QED
        BY <1>11, <1>12, <3>2, <4>1, <4>2
    <3> QED
      BY <3>1, <3>2
  <2>3. ASSUME NEW w \in O \cup {v}
        PROVE  \E j \in FileIndex : UsedSlot(q, j) /\ q.slot[j].vAddr = w
    <3>1. CASE w = v
      BY <1>12, <3>1
    <3>2. CASE w # v
      <4>1. PICK j \in FileIndex : UsedSlot(f, j) /\ f.slot[j].vAddr = w
        BY <2>3, <3>2 DEF FileOk
      <4> QED
        BY <1>5, <1>12, <4>1
    <3> QED
      BY <3>1, <3>2
  <2>4. ASSUME NEW j \in FileIndex, NEW k \in FileIndex, j < k, UsedSlot(q, k)
        PROVE  q.slot[j].vAddr # q.slot[k].vAddr
    <3>1. CASE k = i
      <4>1. UsedSlot(f, j) /\ j # i
        BY <1>2, <1>4, <2>4, <3>1
      <4>2. f.slot[j].vAddr # v
        BY <4>1 DEF FileOk
      <4> QED
        BY <1>12, <3>1, <4>1, <4>2
    <3>2. CASE k # i
      <4>1. UsedSlot(f, k) /\ f.slot[k].vAddr \in O /\ q.slot[k] = f.slot[k]
        BY <1>12, <2>4, <3>2 DEF FileOk
      <4>2. CASE j = i
        BY <1>12, <4>1, <4>2
      <4>3. CASE j # i
        BY <1>12, <2>4, <4>1, <4>3 DEF FileOk
      <4> QED
        BY <4>2, <4>3
    <3> QED
      BY <3>1, <3>2
  <2>5. Len(q.data) <= MAX_FILE_PAGES /\ O \cup {v} \subseteq Pages
    BY <1>1, <1>9, <1>11
  <2> QED
    BY <1>11, <2>1, <2>2, <2>3, <2>4, <2>5 DEF FileOk
<1>14. ASSUME NEW y PROVE page_inData(q, v, y) = x
  <2>1. page_inData(q, v, y) = q.data[i + 1]
    BY <1>12, <1>13, SlotIs
  <2> QED
    BY <1>9, <1>11, <2>1
<1>15. ASSUME NEW w \in O, NEW y PROVE page_inData(q, w, y) = page_inData(f, w, y)
  <2>1. PICK j \in FileIndex : UsedSlot(f, j) /\ f.slot[j].vAddr = w
    BY DEF FileOk
  <2>2. j # i /\ UsedSlot(q, j) /\ q.slot[j].vAddr = w
    BY <1>5, <1>12, <2>1
  <2>3. page_inData(q, w, y) = q.data[j + 1] /\ page_inData(f, w, y) = f.data[j + 1]
    BY <1>13, <2>1, <2>2, SlotIs
  <2>4. j + 1 \in 1 .. Len(f.data) /\ j + 1 # i + 1
    <3>1. j < Len(f.data)
      BY <2>1 DEF FileOk
    <3> QED
      BY <1>1, <1>2, <1>6, <2>2, <3>1
  <2> QED
    BY <1>9, <1>11, <2>3, <2>4
<1> QED
  BY <1>13, <1>14, <1>15

\* A sound ring counts the pages of d that are present, if no others are.
LEMMA CountExact ==
    ASSUME NEW r, NEW t, Holds(r, t), NEW d \in Dirs,
           \A e \in Dirs, v \in Pages : e # d => t[e][v] # "P"
    PROVE  r.count = Cardinality({v \in Pages : t[d][v] = "P"})
<1> DEFINE S == {v \in Pages : t[d][v] = "P"}
           g == [k \in 0 .. r.count - 1 |-> Cell(r, k).vAddr]
<1>1. r.count \in Nat
  BY CountIs DEF Holds
<1>2. ASSUME NEW k \in 0 .. r.count - 1
      PROVE  \E v \in S : Cell(r, k) = Entry(d, v) /\ Cell(r, k).vAddr = v
  <2>1. PICK e \in Dirs, v \in Pages : Cell(r, k) = Entry(e, v)
    BY DEF Holds
  <2>2. t[e][v] = "P"
    BY <2>1 DEF Holds
  <2>3. e = d
    BY <2>2
  <2> QED
    BY <2>1, <2>2, <2>3, EntryFacts
<1>3. g \in [0 .. r.count - 1 -> S]
  BY <1>2
<1>4. \A i, j \in 0 .. r.count - 1 : g[i] = g[j] => i = j
  <2> TAKE i, j \in 0 .. r.count - 1
  <2>1. g[i] = Cell(r, i).vAddr /\ g[j] = Cell(r, j).vAddr
    OBVIOUS
  <2>2. g[i] = g[j] => Cell(r, i) = Cell(r, j)
    BY <1>2, <2>1
  <2> QED
    BY <2>2 DEF Holds
<1>5. \A v \in S : \E k \in 0 .. r.count - 1 : g[k] = v
  <2> TAKE v \in S
  <2>1. PICK k \in 0 .. r.count - 1 : Cell(r, k) = Entry(d, v)
    BY DEF Holds
  <2>2. g[k] = v
    BY <2>1, EntryFacts
  <2> QED
    BY <2>2
<1> HIDE DEF g
<1>6. g \in Injection(0 .. r.count - 1, S)
  BY <1>3, <1>4, Fun_IsInj
<1>7. g \in Surjection(0 .. r.count - 1, S)
  BY <1>3, <1>5, Fun_IsSurj
<1>8. IsFiniteSet(0 .. r.count - 1) /\ Cardinality(0 .. r.count - 1) = r.count
  <2>1. 0 \in Int /\ r.count - 1 \in Int
    BY <1>1
  <2>2. /\ IsFiniteSet(0 .. r.count - 1)
        /\ Cardinality(0 .. r.count - 1) = IF 0 > r.count - 1 THEN 0 ELSE r.count - 1 - 0 + 1
    BY <2>1, FS_Interval, Zenon
  <2> QED
    BY <1>1, <2>2
<1> HIDE DEF S
<1>9. Cardinality(S) = Cardinality(0 .. r.count - 1)
  BY <1>6, <1>7, <1>8, FS_Surjection
<1> QED
  BY <1>8, <1>9 DEF S

-----------------------------------------------------------------------------
(* The inductive invariant *)

\* The calls for which the pager keeps its promise: a process shrinks or
\* executes a program only while none of its pages is in the swap file, and
\* does not fork.  fork is what starts the child with a ring that is out of step
\* with its page table.
ResidentCalls == Calls \subseteq {"shrinkResident", "execResident"}

Out == {v \in Pages : pte[pgdir][v] = "PG"}
Mapped(v) == pte[pgdir][v] # "none"

\* What the program finds in page v once it is in RAM.
View(v) == IF pte[pgdir][v] = "P" THEN mem[pgdir][v] ELSE page_inData(File, v, Zero)

BaseInv ==
    /\ pgdir \in Dirs
    /\ pte \in Tables
    /\ mem \in [Dirs -> [Pages -> Contents]]
    /\ sz \in 1 .. MAX_TOTAL_PAGES
    /\ pc \in {"user", "grow", "shrink", "execText", "execStack", "freevm", "trap"}
    /\ at \in 0 .. MAX_TOTAL_PAGES
    /\ goal \in 0 .. MAX_TOTAL_PAGES

\* The ring holds the present pages of both page tables.
RingInv == Holds(Ring, pte)

\* The slots hold the pages that are paged out, and there are some only while
\* the ring is full, so that swap_in always has a victim to make room.
FileInv ==
    /\ FileOk(File, pgdir, Out)
    /\ Out # {} => page_mem_count = MAX_PSYC_PAGES

\* The pages the process has, while a loop is adding or removing some.
TableInv ==
    /\ pc \in {"user", "trap", "execText", "execStack", "freevm"} =>
          \A v \in Pages : Mapped(v) <=> v < sz
    /\ pc = "grow" =>
          /\ sz <= at /\ at <= goal
          /\ \A v \in Pages : Mapped(v) <=> v < at
          /\ \A v \in Pages : sz <= v /\ v < at => View(v) = Zero
    /\ pc = "shrink" =>
          /\ sz <= at /\ at <= goal
          /\ \A v \in Pages : Mapped(v) <=> v < sz \/ (at <= v /\ v < goal)
    /\ pc \in {"shrink", "execText", "execStack", "freevm"} => Out = {}
    /\ pc = "trap" => Out # {}

\* The page table that exec builds or gives up is all in RAM, and the ring has
\* room for what is still to come.
OtherInv ==
    /\ \A v \in Pages : pte[other][v] # "PG"
    /\ pc \in {"user", "grow", "shrink", "trap"} => \A v \in Pages : pte[other][v] = "none"
    /\ pc \in {"execText", "execStack"} =>
          at <= goal /\ \A v \in Pages : pte[other][v] = "P" <=> v < at
    /\ pc = "execText" =>
          /\ goal >= 1 /\ goal + 1 < MAX_TOTAL_PAGES
          /\ page_mem_count + (goal - at) + 2 <= MAX_PSYC_PAGES
    /\ pc = "execStack" =>
          /\ goal >= 3 /\ goal - 2 <= at
          /\ page_mem_count + (goal - at) <= MAX_PSYC_PAGES
          /\ \E x \in Contents : \A v \in Pages : v < goal - 2 => mem[other][v] = x
          /\ \A v \in Pages : v = goal - 2 /\ v < at => mem[other][v] = Zero
    /\ pc = "freevm" =>
          /\ at <= goal /\ goal = MAX_TOTAL_PAGES
          /\ \A v \in Pages : v < at => pte[other][v] = "none"

IInv == BaseInv /\ RingInv /\ FileInv /\ TableInv /\ OtherInv

\* What a step leaves the program to find.
Kept == \A v \in Pages : v < sz => View(v)' = View(v)

\* The state as records.
LEMMA Fields ==
    /\ Ring.ram = ram_manager /\ Ring.count = page_mem_count
    /\ Ring.start = fifoIndexStart /\ Ring.next = fifoIndexNext
    /\ File.slot = file_manager /\ File.out = paged_out_count /\ File.data = swapFile
BY DEF Ring, File

\* The two page tables.
LEMMA Others ==
    ASSUME pgdir \in Dirs
    PROVE  other \in Dirs /\ other # pgdir /\ \A d \in Dirs : d = pgdir \/ d = other
BY DEF Dirs, other

\* SetRing assigns the record.
LEMMA RingSet ==
    ASSUME NEW q \in Rings, SetRing(q)
    PROVE  Ring' = q
<1>1. q = [ram |-> q.ram, count |-> q.count, start |-> q.start, next |-> q.next]
  BY RingFields
<1>2. Ring' = [ram |-> q.ram, count |-> q.count, start |-> q.start, next |-> q.next]
  BY Zenon DEF Ring, SetRing
<1> QED
  BY <1>1, <1>2, Zenon

\* SetFile likewise.
LEMMA FileSet ==
    ASSUME NEW q \in Files, SetFile(q)
    PROVE  File' = q
<1>1. q = [slot |-> q.slot, out |-> q.out, data |-> q.data]
  BY DEF Files
<1>2. File' = [slot |-> q.slot, out |-> q.out, data |-> q.data]
  BY Zenon DEF File, SetFile
<1> QED
  BY <1>1, <1>2, Zenon

\* The ring and the slots have their types, and the pager does not panic.
LEMMA IInvTypes ==
    ASSUME IInv
    PROVE  TypeOK /\ OnlyKernelFaultPanics
<1>1. Ring \in Rings
  BY CountIs DEF IInv, RingInv, Holds
<1>2. /\ ram_manager \in [RamIndex -> page_t] /\ page_mem_count \in 0 .. MAX_PSYC_PAGES
      /\ fifoIndexStart \in RamIndex /\ fifoIndexNext \in RamIndex
  BY <1>1, Fields DEF Rings
<1>3. File \in Files /\ Len(File.data) <= MAX_FILE_PAGES
  BY DEF IInv, FileInv, FileOk
<1>4. /\ file_manager \in [FileIndex -> page_t] /\ paged_out_count \in 0 .. MAX_FILE_PAGES
      /\ swapFile \in Seq(Contents) /\ Len(swapFile) <= MAX_FILE_PAGES
  BY <1>3, Fields DEF Files
<1>5. BaseInv
  BY DEF IInv
<1>6. OnlyKernelFaultPanics
  <2>1. pc # "panic"
    BY <1>5 DEF BaseInv
  <2>2. ASSUME pc = "trap" PROVE \E v \in Pages : v < sz /\ pte[pgdir][v] = "PG"
    <3>1. PICK v \in Out : TRUE
      BY <2>2 DEF IInv, TableInv
    <3>2. v \in Pages /\ pte[pgdir][v] = "PG"
      BY DEF Out
    <3>3. Mapped(v)
      BY <3>2 DEF Mapped
    <3>4. v < sz
      BY <2>2, <3>2, <3>3 DEF IInv, TableInv
    <3> QED
      BY <3>2, <3>4
  <2> QED
    BY <2>1, <2>2 DEF OnlyKernelFaultPanics
<1> QED
  BY <1>2, <1>4, <1>5, <1>6 DEF BaseInv, TypeOK, Tables

\* The head of the ring is a present page, one of the process when the other
\* page table is empty.
LEMMA VictimIs ==
    ASSUME IInv, page_mem_count > 0
    PROVE  \E d \in Dirs, v \in Pages :
              /\ Victim = Entry(d, v) /\ pte[d][v] = "P"
              /\ Victim.pgdir = d /\ Victim.vAddr = v
              /\ (\A w \in Pages : pte[other][w] # "P") => d = pgdir
<1>1. Holds(Ring, pte) /\ Ring.count \in Nat /\ Ring.start \in RamIndex
  BY CountIs DEF IInv, RingInv, Holds
<1>2. 0 \in 0 .. Ring.count - 1
  BY <1>1, Fields
<1>3. Cell(Ring, 0) = Victim
  <2>1. 0 \in 0 .. MAX_PSYC_PAGES
    BY Sizes
  <2>2. fifoIndexStart \in Int /\ 0 <= fifoIndexStart /\ fifoIndexStart < MAX_PSYC_PAGES
    BY <1>1, Fields, Sizes DEF RamIndex
  <2>3. Pos(fifoIndexStart, 0) = IF fifoIndexStart + 0 < MAX_PSYC_PAGES THEN fifoIndexStart + 0
                                 ELSE fifoIndexStart + 0 - MAX_PSYC_PAGES
    BY <1>1, <2>1, Fields, PosIs
  <2>4. Pos(fifoIndexStart, 0) = fifoIndexStart
    BY <2>2, <2>3, Sizes
  <2> QED
    BY <2>4, Fields, Zenon DEF Cell, Victim
<1>4. PICK d \in Dirs, v \in Pages : Victim = Entry(d, v)
  BY <1>1, <1>2, <1>3 DEF Holds
<1>5. pte[d][v] = "P"
  BY <1>1, <1>2, <1>3, <1>4 DEF Holds
<1>6. (\A w \in Pages : pte[other][w] # "P") => d = pgdir
  BY <1>5, Others DEF IInv, BaseInv
<1> QED
  BY <1>4, <1>5, <1>6, EntryFacts

\* A step that touches neither page tables nor ring nor slots.
Quiet == UNCHANGED <<pgdir, pte, queueVars, fileVars>>

\* It keeps what the invariant says of them.
LEMMA QuietFacts ==
    ASSUME IInv, Quiet
    PROVE  /\ Ring' = Ring /\ File' = File /\ Out' = Out /\ other' = other
           /\ RingInv' /\ FileInv'
           /\ \A v \in Pages : Mapped(v)' <=> Mapped(v)
<1>1. Ring' = Ring /\ File' = File
  BY DEF Quiet, queueVars, fileVars, Ring, File
<1>2. pte' = pte /\ pgdir' = pgdir /\ page_mem_count' = page_mem_count
  BY DEF Quiet, queueVars
<1>3. Out' = Out /\ other' = other /\ \A v \in Pages : Mapped(v)' <=> Mapped(v)
  BY <1>2, Zenon DEF Out, other, Mapped
<1>4. RingInv'
  BY <1>1, <1>2, Zenon DEF IInv, RingInv
<1>5. FileInv'
  BY <1>1, <1>2, <1>3, Zenon DEF IInv, FileInv
<1> QED
  BY <1>1, <1>3, <1>4, <1>5

\* With memory unchanged too, the program finds what it found.
LEMMA QuietViews ==
    ASSUME IInv, Quiet, UNCHANGED mem
    PROVE  \A v : View(v)' = View(v)
<1>1. File' = File /\ pte' = pte /\ pgdir' = pgdir /\ mem' = mem
  BY QuietFacts DEF Quiet
<1> QED
  BY <1>1, Zenon DEF View

\* A ring that stays is in order.
LEMMA InOrderSame ==
    ASSUME NEW r, r.count \in Nat
    PROVE  InOrder(r, r)
<1> SUFFICES ASSUME NEW j \in 0 .. r.count - 1, NEW i \in 0 .. j - 1
             PROVE  \E k, l \in 0 .. r.count - 1 :
                       k < l /\ Cell(r, i) = Cell(r, k) /\ Cell(r, j) = Cell(r, l)
  BY DEF InOrder
<1>1. i \in 0 .. r.count - 1 /\ i < j
  OBVIOUS
<1> QED
  BY <1>1

\* The image of a small program.
LEMMA InitInv == Init => IInv
<1> SUFFICES ASSUME Init PROVE IInv
  OBVIOUS
<1>1. pgdir = 0 /\ pc = "user" /\ at = 0 /\ goal = 0 /\ sz = InitPages /\ swapFile = <<>>
      /\ page_mem_count = InitPages /\ paged_out_count = 0 /\ fifoIndexStart = 0
  BY DEF Init
<1>2. pte = [d \in Dirs |-> IF d = 0 THEN Image(InitPages) ELSE NoPages]
  BY DEF Init
<1>3. \A d \in Dirs, v \in Pages : pte[d][v] = IF d = 0 /\ v < InitPages THEN "P" ELSE "none"
  BY <1>2 DEF Image, NoPages
<1>4. BaseInv
  <2>1. pte \in Tables
    BY <1>2 DEF Image, NoPages, Tables
  <2>2. mem \in [Dirs -> [Pages -> Contents]]
    BY ZeroAssumption DEF Init
  <2> QED
    BY <1>1, <2>1, <2>2, Sizes DEF BaseInv, Dirs
<1>5. InitPages \in 0 .. MAX_PSYC_PAGES /\ 0 \in RamIndex /\ 0 \in Dirs
  BY Sizes DEF RamIndex, Dirs
<1>6. \A k \in 0 .. MAX_PSYC_PAGES - 1 : Pos(0, k) = k /\ k \in RamIndex /\ k \in Pages
  <2> TAKE k \in 0 .. MAX_PSYC_PAGES - 1
  <2>1. k \in 0 .. MAX_PSYC_PAGES
    BY Sizes
  <2>2. Pos(0, k) = IF 0 + k < MAX_PSYC_PAGES THEN 0 + k ELSE 0 + k - MAX_PSYC_PAGES
    BY <1>5, <2>1, PosIs
  <2> QED
    BY <2>2, Sizes DEF RamIndex, Pages
<1>7. ram_manager = [i \in RamIndex |-> IF i < InitPages THEN Entry(0, i)
                        ELSE [state |-> "NOT_USED", pgdir |-> 0, vAddr |-> 0]]
  BY DEF Init
<1>8. ram_manager \in [RamIndex -> page_t]
  <2>1. \A i \in RamIndex : Entry(0, i) \in page_t
    BY <1>5, <1>6, EntryFacts DEF RamIndex
  <2>2. [state |-> "NOT_USED", pgdir |-> 0, vAddr |-> 0] \in page_t
    BY <1>5, Sizes DEF page_t, Pages
  <2> QED
    BY <1>7, <2>1, <2>2
<1>9. \A k \in 0 .. MAX_PSYC_PAGES - 1 :
        Cell(Ring, k) = IF k < InitPages THEN Entry(0, k)
                        ELSE [state |-> "NOT_USED", pgdir |-> 0, vAddr |-> 0]
  <2> TAKE k \in 0 .. MAX_PSYC_PAGES - 1
  <2>1. Cell(Ring, k) = ram_manager[Pos(0, k)]
    BY <1>1, Fields, Zenon DEF Cell
  <2>2. Cell(Ring, k) = ram_manager[k] /\ k \in RamIndex
    BY <1>6, <2>1
  <2> QED
    BY <1>7, <2>2
<1>10. fifoIndexNext = Pos(0, InitPages) /\ fifoIndexNext \in RamIndex
  <2>1. fifoIndexNext = InitPages % MAX_PSYC_PAGES
    BY DEF Init
  <2>2. InitPages % MAX_PSYC_PAGES = Pos(0, InitPages)
    BY Sizes DEF Pos
  <2> QED
    BY <1>5, <2>1, <2>2, PosIs
<1>11. Ring \in Rings /\ Ring.next = Pos(Ring.start, Ring.count) /\ Ring.count = InitPages
  <2>1. Ring \in Rings
    BY <1>1, <1>5, <1>8, <1>10 DEF Ring, Rings
  <2> QED
    BY <1>1, <1>10, <2>1, Fields
<1>12. \A k \in 0 .. InitPages - 1 : k \in 0 .. MAX_PSYC_PAGES - 1 /\ k < InitPages
                                     /\ k \in Pages /\ Cell(Ring, k) = Entry(0, k)
  <2> TAKE k \in 0 .. InitPages - 1
  <2>1. k \in 0 .. MAX_PSYC_PAGES - 1 /\ k < InitPages
    BY Sizes
  <2> QED
    BY <1>6, <1>9, <2>1
<1>13. Sound(Ring)
  <2>1. ASSUME NEW k \in 0 .. MAX_PSYC_PAGES - 1
        PROVE  Cell(Ring, k).state = "USED" <=> k < InitPages
    <3>1. CASE k < InitPages
      <4>1. Entry(0, k).state = "USED"
        BY <1>5, <1>6, EntryFacts
      <4> QED
        BY <1>9, <3>1, <4>1
    <3>2. CASE ~(k < InitPages)
      BY <1>9, <3>2
    <3> QED
      BY <3>1, <3>2
  <2> QED
    BY <1>11, <2>1 DEF Sound
<1>14. RingInv
  <2>1. \A i, j \in 0 .. InitPages - 1 : Cell(Ring, i) = Cell(Ring, j) => i = j
    BY <1>12, EntryOf
  <2>2. ASSUME NEW d \in Dirs, NEW v \in Pages
        PROVE  pte[d][v] = "P" <=> \E k \in 0 .. InitPages - 1 : Cell(Ring, k) = Entry(d, v)
    <3>1. pte[d][v] = "P" <=> d = 0 /\ v \in 0 .. InitPages - 1
      BY <1>3, Sizes DEF Pages
    <3>2. ASSUME NEW k \in 0 .. InitPages - 1, Cell(Ring, k) = Entry(d, v)
          PROVE  d = 0 /\ v = k
      BY <1>12, <3>2, EntryOf
    <3> QED
      BY <1>12, <3>1, <3>2
  <2>3. \A k \in 0 .. InitPages - 1 : \E d \in Dirs, v \in Pages : Cell(Ring, k) = Entry(d, v)
    BY <1>5, <1>12
  <2> QED
    BY <1>11, <1>13, <2>1, <2>2, <2>3 DEF RingInv, Holds
<1>15. Out = {}
  BY <1>1, <1>3, <1>5 DEF Out
<1>16. FileInv
  <2>1. /\ file_manager \in [FileIndex -> page_t]
        /\ \A i \in FileIndex : file_manager[i].state = "NOT_USED"
    <3>1. PICK S : /\ S = {[state |-> "NOT_USED", pgdir |-> 0, vAddr |-> v] : v \in Pages}
                   /\ file_manager \in [FileIndex -> S]
      BY Zenon DEF Init
    <3>2. \A e \in S : e \in page_t /\ e.state = "NOT_USED"
      BY <1>5, <3>1 DEF page_t
    <3> QED
      BY <3>1, <3>2
  <2>2. <<>> \in Seq(Contents) /\ Len(<<>>) = 0
    BY EmptySeq
  <2>3. File \in Files
    BY <1>1, <2>1, <2>2, Sizes DEF File, Files
  <2>4. \A i \in FileIndex : ~ UsedSlot(File, i)
    BY <2>1, Fields DEF UsedSlot
  <2>5. FileOk(File, pgdir, {})
    BY <1>1, <2>2, <2>3, <2>4, Fields, FS_EmptySet, Sizes DEF FileOk
  <2> QED
    BY <1>15, <2>5 DEF FileInv
<1>17. TableInv
  <2>1. \A v \in Pages : Mapped(v) <=> v < sz
    BY <1>1, <1>3, <1>5 DEF Mapped
  <2> QED
    BY <1>1, <1>15, <2>1 DEF TableInv
<1>18. OtherInv
  <2>1. \A v \in Pages : pte[other][v] = "none"
    BY <1>1, <1>3 DEF other, Dirs
  <2> QED
    BY <1>1, <2>1 DEF OtherInv
<1> QED
  BY <1>4, <1>14, <1>16, <1>17, <1>18 DEF IInv

-----------------------------------------------------------------------------
(* The steps that leave ring and slots alone *)

\* A store is found where it was made.
LEMMA StoreStep ==
    ASSUME IInv, NEW v \in Pages, NEW x \in Contents, store(v, x)
    PROVE  /\ IInv' /\ Ring' = Ring /\ sz' = sz /\ v < sz
           /\ \A w \in Pages : View(w)' = IF w = v THEN x ELSE View(w)
<1>1. /\ pc = "user" /\ pc' = pc /\ at' = at /\ goal' = goal /\ sz' = sz /\ v < sz
      /\ pte[pgdir][v] = "P" /\ mem' = [mem EXCEPT ![pgdir][v] = x] /\ Quiet
  BY DEF store, Running, Space, Quiet
<1>2. BaseInv /\ BaseInv'
  BY <1>1 DEF IInv, BaseInv, Quiet
<1>3. /\ Ring' = Ring /\ File' = File /\ Out' = Out /\ other' = other
      /\ RingInv' /\ FileInv'
      /\ \A w \in Pages : Mapped(w)' <=> Mapped(w)
  BY <1>1, QuietFacts
<1>4. TableInv'
  BY <1>1, <1>3 DEF IInv, TableInv
<1>5. OtherInv'
  BY <1>1, <1>3 DEF IInv, OtherInv, Quiet
<1>6. ASSUME NEW w \in Pages PROVE View(w)' = IF w = v THEN x ELSE View(w)
  <2>1. mem'[pgdir][w] = IF w = v THEN x ELSE mem[pgdir][w]
    BY <1>1, <1>2 DEF BaseInv
  <2>2. pte' = pte /\ pgdir' = pgdir
    BY <1>1 DEF Quiet
  <2>3. View(w)' = IF pte[pgdir][w] = "P" THEN mem'[pgdir][w] ELSE page_inData(File, w, Zero)
    BY <1>3, <2>2, Zenon DEF View
  <2> QED
    BY <1>1, <2>1, <2>3 DEF View
<1> QED
  BY <1>1, <1>2, <1>3, <1>4, <1>5, <1>6 DEF IInv

\* A system call that touches a page which is not present: the page is in the
\* swap file, for every page below sz is mapped.
LEMMA KernelFaultStep ==
    ASSUME IInv, NEW v \in Pages, kernelFault(v)
    PROVE  IInv' /\ Ring' = Ring /\ sz' = sz /\ Kept
<1>1. /\ pc = "user" /\ pc' = "trap" /\ at' = at /\ goal' = goal /\ sz' = sz
      /\ v < sz /\ pte[pgdir][v] # "P" /\ mem' = mem /\ Quiet
  BY DEF kernelFault, Running, Space, Quiet
<1>2. BaseInv /\ BaseInv'
  BY <1>1 DEF IInv, BaseInv, Quiet
<1>3. /\ Ring' = Ring /\ Out' = Out /\ other' = other
      /\ RingInv' /\ FileInv'
      /\ \A w \in Pages : Mapped(w)' <=> Mapped(w)
  BY <1>1, QuietFacts
<1>4. v \in Out
  <2>1. Mapped(v)
    BY <1>1 DEF IInv, TableInv
  <2> QED
    BY <1>1, <1>2, <2>1 DEF Mapped, Out, BaseInv, Tables
<1>5. TableInv'
  <2>1. \A w \in Pages : Mapped(w) <=> w < sz
    BY <1>1 DEF IInv, TableInv
  <2> QED
    BY <1>1, <1>3, <1>4, <2>1 DEF TableInv
<1>6. OtherInv'
  BY <1>1, <1>3 DEF IInv, OtherInv, Quiet
<1>7. Kept
  BY <1>1, QuietViews DEF Kept
<1> QED
  BY <1>1, <1>2, <1>3, <1>5, <1>6, <1>7 DEF IInv

\* growproc starts to grow the process.
LEMMA GrowprocStep ==
    ASSUME IInv, NEW n \in 1 .. MAX_TOTAL_PAGES, growproc(n)
    PROVE  IInv' /\ Ring' = Ring /\ sz' = sz /\ Kept
<1>1. /\ pc = "user" /\ pc' = "grow" /\ at' = sz /\ goal' = sz + n /\ sz' = sz
      /\ sz + n <= MAX_TOTAL_PAGES /\ mem' = mem /\ Quiet
  BY DEF growproc, Running, Space, Quiet, Call
<1>2. BaseInv /\ BaseInv' /\ sz \in Nat
  BY <1>1, Sizes DEF IInv, BaseInv, Quiet
<1>3. /\ Ring' = Ring /\ Out' = Out /\ other' = other
      /\ RingInv' /\ FileInv'
      /\ \A w \in Pages : Mapped(w)' <=> Mapped(w)
  BY <1>1, QuietFacts
<1>4. TableInv'
  <2>1. \A v \in Pages : Mapped(v) <=> v < sz
    BY <1>1 DEF IInv, TableInv
  <2>2. \A v \in Pages : ~(sz <= v /\ v < sz)
    BY <1>2, Sizes DEF Pages
  <2> QED
    BY <1>1, <1>2, <1>3, <2>1, <2>2 DEF TableInv
<1>5. OtherInv'
  BY <1>1, <1>3 DEF IInv, OtherInv, Quiet
<1>6. Kept
  BY <1>1, QuietViews DEF Kept
<1> QED
  BY <1>1, <1>2, <1>3, <1>4, <1>5, <1>6 DEF IInv

\* growproc returns with the pages it asked for, which are zero.
LEMMA GrowprocReturnsStep ==
    ASSUME IInv, growprocReturns
    PROVE  /\ IInv' /\ Ring' = Ring /\ sz' = goal /\ sz <= goal /\ Kept
           /\ \A v \in Pages : sz <= v /\ v < goal => View(v)' = Zero
<1>1. /\ pc = "grow" /\ at = goal /\ pc' = "user" /\ at' = 0 /\ goal' = 0 /\ sz' = goal
      /\ mem' = mem /\ Quiet
  BY DEF growprocReturns, Quiet, Return
<1>2. /\ sz <= goal /\ \A v \in Pages : Mapped(v) <=> v < goal
      /\ \A v \in Pages : sz <= v /\ v < goal => View(v) = Zero
  BY <1>1 DEF IInv, TableInv
<1>3. BaseInv /\ BaseInv'
  BY <1>1, <1>2, Sizes DEF IInv, BaseInv, Quiet
<1>4. /\ Ring' = Ring /\ Out' = Out /\ other' = other
      /\ RingInv' /\ FileInv'
      /\ \A w \in Pages : Mapped(w)' <=> Mapped(w)
  BY <1>1, QuietFacts
<1>5. TableInv'
  BY <1>1, <1>2, <1>4 DEF TableInv
<1>6. OtherInv'
  BY <1>1, <1>4 DEF IInv, OtherInv, Quiet
<1>7. \A v : View(v)' = View(v)
  BY <1>1, QuietViews
<1> QED
  BY <1>1, <1>2, <1>3, <1>4, <1>5, <1>6, <1>7 DEF IInv, Kept

\* growproc starts to shrink a process that is all in RAM.
LEMMA GrowprocShrinksStep ==
    ASSUME ResidentCalls, IInv, NEW n \in 1 .. MAX_TOTAL_PAGES, growprocShrinks(n)
    PROVE  /\ IInv' /\ Ring' = Ring
           /\ sz' \in 1 .. sz /\ \A v \in Pages : v < sz' => View(v)' = View(v)
<1>1. /\ pc = "user" /\ pc' = "shrink" /\ at' = sz - n /\ goal' = sz /\ sz' = sz - n
      /\ n \in 1 .. sz - 1 /\ mem' = mem /\ Quiet /\ AllResident
  BY DEF growprocShrinks, Running, Quiet, Call, MayCall, ResidentCalls
<1>2. BaseInv /\ BaseInv' /\ sz' \in 1 .. sz /\ sz \in Nat
  BY <1>1, Sizes DEF IInv, BaseInv, Quiet
<1>3. /\ Ring' = Ring /\ Out' = Out /\ other' = other
      /\ RingInv' /\ FileInv'
      /\ \A w \in Pages : Mapped(w)' <=> Mapped(w)
  BY <1>1, QuietFacts
<1>4. Out = {}
  BY <1>1 DEF AllResident, Out
<1>5. TableInv'
  <2>1. \A v \in Pages : Mapped(v) <=> v < sz
    BY <1>1 DEF IInv, TableInv
  <2>2. \A v \in Pages : v < sz <=> v < sz' \/ (at' <= v /\ v < goal')
    BY <1>1, <1>2, Sizes DEF Pages
  <2>3. sz' <= at' /\ at' <= goal'
    BY <1>1, <1>2
  <2> QED
    BY <1>1, <1>3, <1>4, <2>1, <2>2, <2>3 DEF TableInv
<1>6. OtherInv'
  BY <1>1, <1>3 DEF IInv, OtherInv, Quiet
<1>7. \A v : View(v)' = View(v)
  BY <1>1, QuietViews
<1> QED
  BY <1>2, <1>3, <1>5, <1>6, <1>7 DEF IInv

\* The loop that gives the pages up is over.
LEMMA GrowprocShrunkStep ==
    ASSUME IInv, growprocShrunk
    PROVE  IInv' /\ Ring' = Ring /\ sz' = sz /\ Kept
<1>1. /\ pc = "shrink" /\ at = goal /\ pc' = "user" /\ at' = 0 /\ goal' = 0 /\ sz' = sz
      /\ mem' = mem /\ Quiet
  BY DEF growprocShrunk, Quiet, Return, Space
<1>2. BaseInv /\ BaseInv'
  BY <1>1, Sizes DEF IInv, BaseInv, Quiet
<1>3. /\ Ring' = Ring /\ Out' = Out /\ other' = other
      /\ RingInv' /\ FileInv'
      /\ \A w \in Pages : Mapped(w)' <=> Mapped(w)
  BY <1>1, QuietFacts
<1>4. TableInv'
  <2>1. \A v \in Pages : Mapped(v) <=> v < sz \/ (goal <= v /\ v < goal)
    BY <1>1 DEF IInv, TableInv
  <2>2. \A v \in Pages : ~(goal <= v /\ v < goal)
    BY <1>2, Sizes DEF Pages, BaseInv
  <2> QED
    BY <1>1, <1>3, <2>1, <2>2 DEF TableInv
<1>5. OtherInv'
  BY <1>1, <1>3 DEF IInv, OtherInv, Quiet
<1>6. Kept
  BY <1>1, QuietViews DEF Kept
<1> QED
  BY <1>1, <1>2, <1>3, <1>4, <1>5, <1>6 DEF IInv

\* exec starts while the old image is all in RAM and the new one has room.
LEMMA ExecStep ==
    ASSUME ResidentCalls, IInv, NEW n \in 1 .. MAX_TOTAL_PAGES, exec(n)
    PROVE  IInv' /\ Ring' = Ring /\ sz' = sz /\ Kept
<1>1. /\ pc = "user" /\ pc' = "execText" /\ at' = 0 /\ goal' = n - 2 /\ sz' = sz
      /\ n \in 3 .. MAX_TOTAL_PAGES /\ page_mem_count + n <= MAX_PSYC_PAGES
      /\ mem' = mem /\ Quiet /\ AllResident
  BY DEF exec, Running, Quiet, Call, MayCall, Space, ResidentCalls
<1>2. BaseInv /\ BaseInv' /\ page_mem_count \in Nat /\ page_mem_count' = page_mem_count
  BY <1>1, IInvTypes, Sizes DEF IInv, BaseInv, Quiet, TypeOK, queueVars
<1>3. /\ Ring' = Ring /\ Out' = Out /\ other' = other
      /\ RingInv' /\ FileInv'
      /\ \A w \in Pages : Mapped(w)' <=> Mapped(w)
  BY <1>1, QuietFacts
<1>4. Out = {}
  BY <1>1 DEF AllResident, Out
<1>5. TableInv'
  BY <1>1, <1>3, <1>4 DEF IInv, TableInv
<1>6. OtherInv'
  <2>1. \A v \in Pages : pte'[other'][v] = "none"
    BY <1>1, <1>3 DEF IInv, OtherInv, Quiet
  <2>2. \A v \in Pages : ~(v < at')
    BY <1>1, Sizes DEF Pages
  <2>3. /\ at' <= goal' /\ goal' >= 1 /\ goal' + 1 < MAX_TOTAL_PAGES
        /\ page_mem_count' + (goal' - at') + 2 <= MAX_PSYC_PAGES
    BY <1>1, <1>2, Sizes
  <2> QED
    BY <1>1, <2>1, <2>2, <2>3 DEF OtherInv
<1>7. Kept
  BY <1>1, QuietViews DEF Kept
<1> QED
  BY <1>1, <1>2, <1>3, <1>5, <1>6, <1>7 DEF IInv

\* loaduvm fills every page of the text, for all of them are in RAM.
LEMMA ExecLoadsStep ==
    ASSUME IInv, NEW x \in Contents, execLoads(x)
    PROVE  IInv' /\ Ring' = Ring /\ sz' = sz /\ Kept
<1>1. /\ pc = "execText" /\ at = goal /\ pc' = "execStack" /\ at' = goal
      /\ goal' = goal + 2 /\ sz' = sz /\ mem' = Loaded(x) /\ Quiet
  BY DEF execLoads, Quiet, Call, Space
<1>2. /\ \A v \in Pages : pte[other][v] = "P" <=> v < at
      /\ goal >= 1 /\ goal + 1 < MAX_TOTAL_PAGES
      /\ page_mem_count + (goal - at) + 2 <= MAX_PSYC_PAGES
  BY <1>1 DEF IInv, OtherInv
<1>3. BaseInv /\ goal \in Nat /\ page_mem_count \in Nat /\ page_mem_count' = page_mem_count
      /\ other \in Dirs /\ other # pgdir
  BY <1>1, IInvTypes, Others, Sizes DEF IInv, BaseInv, Quiet, TypeOK, queueVars
<1>4. /\ mem' \in [Dirs -> [Pages -> Contents]]
      /\ \A v \in Pages : v < goal => mem'[other][v] = x
      /\ \A v \in Pages : mem'[pgdir][v] = mem[pgdir][v]
  <2> DEFINE g == [v \in Pages |-> IF v < goal /\ pte[other][v] = "P" THEN x ELSE mem[other][v]]
  <2>1. mem \in [Dirs -> [Pages -> Contents]] /\ pgdir \in Dirs
    BY <1>3 DEF BaseInv
  <2>2. mem' = [mem EXCEPT ![other] = g]
    BY <1>1 DEF Loaded
  <2>3. g \in [Pages -> Contents] /\ \A v \in Pages : v < goal => g[v] = x
    BY <1>1, <1>2, <1>3, <2>1
  <2> HIDE DEF g
  <2> QED
    BY <1>3, <2>1, <2>2, <2>3
<1>5. BaseInv'
  BY <1>1, <1>2, <1>3, <1>4, Sizes DEF BaseInv, Quiet
<1>6. /\ Ring' = Ring /\ File' = File /\ Out' = Out /\ other' = other
      /\ RingInv' /\ FileInv'
      /\ \A w \in Pages : Mapped(w)' <=> Mapped(w)
  BY <1>1, QuietFacts
<1>7. TableInv'
  BY <1>1, <1>6 DEF IInv, TableInv
<1>8. OtherInv'
  <2>1. pte' = pte
    BY <1>1 DEF Quiet
  <2>2. \A v \in Pages : pte'[other'][v] # "PG" /\ (pte'[other'][v] = "P" <=> v < at')
    BY <1>1, <1>2, <1>6, <2>1 DEF IInv, OtherInv
  <2>3. /\ at' <= goal' /\ goal' >= 3 /\ goal' - 2 <= at' /\ goal' - 2 = goal
        /\ page_mem_count' + (goal' - at') <= MAX_PSYC_PAGES
    BY <1>1, <1>2, <1>3, Sizes
  <2>4. \E y \in Contents : \A v \in Pages : v < goal' - 2 => mem'[other'][v] = y
    BY <1>4, <1>6, <2>3
  <2>5. \A v \in Pages : ~(v = goal' - 2 /\ v < at')
    BY <1>1, <1>3, <2>3
  <2> QED
    BY <1>1, <2>2, <2>3, <2>4, <2>5 DEF OtherInv
<1>9. Kept
  <2> SUFFICES ASSUME NEW v \in Pages PROVE View(v)' = View(v)
    BY DEF Kept
  <2>1. pte' = pte /\ pgdir' = pgdir /\ mem'[pgdir][v] = mem[pgdir][v]
    BY <1>1, <1>4 DEF Quiet
  <2> QED
    BY <1>6, <2>1, Zenon DEF View
<1> QED
  BY <1>1, <1>3, <1>5, <1>6, <1>7, <1>8, <1>9 DEF IInv

\* The new image takes over: its text is what was loaded, its guard page empty,
\* its stack page what the arguments made it.
LEMMA ExecCommitsStep ==
    ASSUME IInv, NEW x \in Contents, execCommits(x)
    PROVE  /\ IInv' /\ Ring' = Ring /\ sz' = goal /\ goal \in 1 .. MAX_TOTAL_PAGES
           /\ \E y \in Contents : \A v \in Pages :
                 v < goal => View(v)' = IF v = goal - 1 THEN x
                                        ELSE IF v < goal - 2 THEN y ELSE Zero
<1>1. /\ pc = "execStack" /\ at = goal /\ pc' = "freevm" /\ at' = 0
      /\ goal' = MAX_TOTAL_PAGES /\ sz' = goal /\ pgdir' = other
      /\ mem' = [mem EXCEPT ![other][goal - 1] = x]
      /\ pte' = pte /\ UNCHANGED <<queueVars, fileVars>>
  BY DEF execCommits, Call
<1>2. /\ goal >= 3 /\ \A v \in Pages : pte[other][v] # "PG" /\ (pte[other][v] = "P" <=> v < goal)
  BY <1>1 DEF IInv, OtherInv
<1>3. PICK y \in Contents : \A v \in Pages : v < goal - 2 => mem[other][v] = y
  BY <1>1 DEF IInv, OtherInv
<1>4. BaseInv /\ goal \in 1 .. MAX_TOTAL_PAGES /\ goal - 1 \in Pages
      /\ other \in Dirs /\ other # pgdir /\ other' = pgdir
  <2>1. BaseInv
    BY DEF IInv
  <2>2. goal \in 1 .. MAX_TOTAL_PAGES /\ goal - 1 \in Pages
    BY <1>2, <2>1, Sizes DEF BaseInv, Pages
  <2>3. other' = pgdir
    BY <1>1, <2>1 DEF other, BaseInv, Dirs
  <2> QED
    BY <2>1, <2>2, <2>3, Others DEF BaseInv
<1>5. BaseInv'
  <2>1. mem' \in [Dirs -> [Pages -> Contents]]
    BY <1>1, <1>4 DEF BaseInv
  <2> QED
    BY <1>1, <1>4, <2>1, Sizes DEF BaseInv
<1>6. Out = {} /\ Out' = {}
  <2>1. Out = {}
    BY <1>1 DEF IInv, TableInv
  <2> QED
    BY <1>1, <1>2, <2>1 DEF Out
<1>7. Ring' = Ring /\ File' = File /\ RingInv'
  <2>1. Ring' = Ring /\ File' = File
    BY <1>1 DEF queueVars, fileVars, Ring, File
  <2> QED
    BY <1>1, <2>1, Zenon DEF IInv, RingInv
<1>8. FileInv'
  <2>1. FileOk(File, pgdir, {})
    BY <1>6, Zenon DEF IInv, FileInv
  <2>2. FileOk(File, other, {})
    BY <2>1 DEF FileOk
  <2> QED
    BY <1>1, <1>6, <1>7, <2>2 DEF FileInv
<1>9. TableInv'
  <2>1. \A v \in Pages : Mapped(v)' <=> v < sz'
    <3> TAKE v \in Pages
    <3>1. pte[other][v] # "none" <=> v < goal
      BY <1>2, <1>4 DEF BaseInv, Tables
    <3> QED
      BY <1>1, <3>1 DEF Mapped
  <2> QED
    BY <1>1, <1>6, <2>1 DEF TableInv
<1>10. OtherInv'
  <2>1. \A v \in Pages : pte'[other'][v] # "PG"
    BY <1>1, <1>4, <1>6 DEF Out
  <2>2. \A v \in Pages : ~(v < at')
    BY <1>1, Sizes DEF Pages
  <2>3. at' <= goal'
    BY <1>1, Sizes
  <2> QED
    BY <1>1, <2>1, <2>2, <2>3 DEF OtherInv
<1>11. ASSUME NEW v \in Pages, v < goal
       PROVE  View(v)' = IF v = goal - 1 THEN x ELSE IF v < goal - 2 THEN y ELSE Zero
  <2>1. View(v)' = mem'[other][v]
    BY <1>1, <1>2, <1>11, Zenon DEF View
  <2>2. mem'[other][v] = IF v = goal - 1 THEN x ELSE mem[other][v]
    BY <1>1, <1>4 DEF BaseInv
  <2>3. v < goal - 2 \/ v = goal - 2 \/ v = goal - 1
    BY <1>4, <1>11, Sizes DEF Pages
  <2>4. ~(v = goal - 2 /\ v < goal - 2) /\ (v = goal - 2 => v < at)
    BY <1>1, <1>4, <1>11, Sizes DEF Pages
  <2>5. v = goal - 2 => mem[other][v] = Zero
    BY <1>1, <2>4 DEF IInv, OtherInv
  <2> QED
    BY <1>3, <2>1, <2>2, <2>3, <2>4, <2>5
<1> QED
  BY <1>1, <1>4, <1>5, <1>7, <1>8, <1>9, <1>10, <1>11 DEF IInv

\* exec fails and gives the new image up.
LEMMA ExecBadStep ==
    ASSUME IInv, execBad
    PROVE  IInv' /\ Ring' = Ring /\ sz' = sz /\ Kept
<1>1. /\ pc \in {"execText", "execStack"} /\ at = goal /\ pc' = "freevm" /\ at' = 0
      /\ goal' = MAX_TOTAL_PAGES /\ sz' = sz /\ mem' = mem /\ Quiet
  BY DEF execBad, Quiet, Call, Space
<1>2. BaseInv /\ BaseInv'
  BY <1>1, Sizes DEF IInv, BaseInv, Quiet
<1>3. /\ Ring' = Ring /\ Out' = Out /\ other' = other
      /\ RingInv' /\ FileInv'
      /\ \A w \in Pages : Mapped(w)' <=> Mapped(w)
  BY <1>1, QuietFacts
<1>4. TableInv'
  BY <1>1, <1>3 DEF IInv, TableInv
<1>5. OtherInv'
  <2>1. \A v \in Pages : pte'[other'][v] # "PG"
    BY <1>1, <1>3 DEF IInv, OtherInv, Quiet
  <2>2. (\A v \in Pages : ~(v < at')) /\ at' <= goal'
    BY <1>1, Sizes DEF Pages
  <2> QED
    BY <1>1, <2>1, <2>2 DEF OtherInv
<1>6. Kept
  BY <1>1, QuietViews DEF Kept
<1> QED
  BY <1>1, <1>2, <1>3, <1>4, <1>5, <1>6 DEF IInv

\* freevm ends: the page table it has emptied is given up.
LEMMA FreevmStep ==
    ASSUME IInv, freevm
    PROVE  IInv' /\ Ring' = Ring /\ sz' = sz /\ Kept
<1>1. /\ pc = "freevm" /\ at = goal /\ pc' = "user" /\ at' = 0 /\ goal' = 0 /\ sz' = sz
      /\ mem' = mem /\ pgdir' = pgdir /\ pte' = [pte EXCEPT ![other] = NoPages]
      /\ UNCHANGED <<queueVars, fileVars>>
  BY DEF freevm, Return, Space
<1>2. BaseInv /\ other \in Dirs /\ other # pgdir /\ pte \in Tables /\ pgdir \in Dirs
  BY Others DEF IInv, BaseInv
<1>3. pte' = pte
  <2>1. \A v \in Pages : v < at
    BY <1>1, Sizes DEF IInv, OtherInv, Pages
  <2>2. \A v \in Pages : pte[other][v] = "none"
    BY <1>1, <2>1 DEF IInv, OtherInv
  <2>3. pte[other] = NoPages
    BY <1>2, <2>2 DEF NoPages, Tables
  <2> QED
    BY <1>1, <1>2, <2>3 DEF Tables
<1>4. Quiet
  BY <1>1, <1>3 DEF Quiet
<1>5. BaseInv'
  BY <1>1, <1>2, <1>3, Sizes DEF BaseInv
<1>6. /\ Ring' = Ring /\ Out' = Out /\ other' = other
      /\ RingInv' /\ FileInv'
      /\ \A w \in Pages : Mapped(w)' <=> Mapped(w)
  BY <1>4, QuietFacts
<1>7. TableInv'
  BY <1>1, <1>6 DEF IInv, TableInv
<1>8. OtherInv'
  <2>1. \A v \in Pages : pte'[other][v] = "none"
    BY <1>1, <1>2 DEF Tables, NoPages
  <2> QED
    BY <1>1, <1>6, <2>1 DEF OtherInv
<1>9. Kept
  BY <1>1, <1>4, QuietViews DEF Kept
<1> QED
  BY <1>1, <1>5, <1>6, <1>7, <1>8, <1>9 DEF IInv

-----------------------------------------------------------------------------
(* The steps of the pager *)

\* allocuvm with room in the ring: the pages of the process are all in RAM.
LEMMA AllocStep ==
    ASSUME IInv, allocuvmWithRoom
    PROVE  IInv' /\ InOrder(Ring, Ring') /\ sz' = sz /\ Kept
<1>1. /\ pc \in {"grow", "execText", "execStack"} /\ at < goal /\ pc' = pc
      /\ at' = at + 1 /\ goal' = goal /\ sz' = sz /\ pgdir' = pgdir
      /\ Ring.count # MAX_PSYC_PAGES /\ UNCHANGED fileVars
      /\ pte' = [pte EXCEPT ![Into][at] = "P"] /\ mem' = [mem EXCEPT ![Into][at] = Zero]
      /\ SetRing(insertPageToRAM(Ring, Into, at))
  BY DEF allocuvmWithRoom, Allocating, isFIFOfull, Map, FillZero, Space
<1>2. /\ BaseInv /\ pgdir \in Dirs /\ other \in Dirs /\ other # pgdir /\ other' = other
      /\ pte \in Tables /\ mem \in [Dirs -> [Pages -> Contents]]
      /\ at \in Nat /\ goal \in Nat /\ goal <= MAX_TOTAL_PAGES /\ sz \in Nat
  BY <1>1, Others, Sizes DEF IInv, BaseInv, other
<1>3. at \in Pages /\ Into \in Dirs /\ (Into = pgdir <=> pc = "grow")
      /\ (Into = other <=> pc \in {"execText", "execStack"})
  BY <1>1, <1>2, Sizes DEF Pages, Into
<1>4. Holds(Ring, pte) /\ Ring.count \in Nat /\ Ring.count < MAX_PSYC_PAGES
  <2>1. Holds(Ring, pte) /\ Ring.count \in Nat /\ Ring.count <= MAX_PSYC_PAGES
    BY CountIs DEF IInv, RingInv, Holds
  <2> QED
    BY <1>1, <2>1, Sizes
<1>5. Out = {}
  BY <1>1, <1>4, Fields DEF IInv, FileInv
<1>6. pte[Into][at] # "P"
  <2>1. CASE pc = "grow"
    <3>1. ~ Mapped(at)
      BY <1>2, <1>3, <2>1 DEF IInv, TableInv
    <3> QED
      BY <1>3, <2>1, <3>1 DEF Mapped
  <2>2. CASE pc # "grow"
    BY <1>1, <1>2, <1>3, <2>2 DEF IInv, OtherInv
  <2> QED
    BY <2>1, <2>2
<1>7. /\ pte' \in Tables /\ mem' \in [Dirs -> [Pages -> Contents]]
      /\ \A e \in Dirs, w \in Pages :
            /\ pte'[e][w] = IF e = Into /\ w = at THEN "P" ELSE pte[e][w]
            /\ mem'[e][w] = IF e = Into /\ w = at THEN Zero ELSE mem[e][w]
  BY <1>1, <1>2, <1>3, ZeroAssumption DEF Tables
<1>8. PICK q : q = insertPageToRAM(Ring, Into, at)
  OBVIOUS
<1>9. Holds(q, pte') /\ InOrder(Ring, q) /\ q.count = Ring.count + 1
  <2>1. \A e \in Dirs, w \in Pages :
           pte'[e][w] = "P" <=> pte[e][w] = "P" \/ (e = Into /\ w = at)
    BY <1>7
  <2> QED
    BY <1>3, <1>4, <1>6, <1>8, <2>1, HoldsInsert
<1>10. Ring' = q
  <2>1. q \in Rings
    BY <1>9, CountIs DEF Holds
  <2> QED
    BY <1>1, <1>8, <2>1, RingSet
<1>11. RingInv' /\ InOrder(Ring, Ring') /\ page_mem_count' = page_mem_count + 1
  <2>1. Ring'.count = page_mem_count'
    BY DEF Ring
  <2> QED
    BY <1>9, <1>10, <2>1, Fields DEF RingInv
<1>12. Out' = {} /\ File' = File
  BY <1>1, <1>3, <1>5, <1>7, <1>2 DEF Out, fileVars, File
<1>13. FileInv'
  <2>1. FileOk(File', pgdir', Out')
    BY <1>1, <1>5, <1>12, Zenon DEF IInv, FileInv
  <2> QED
    BY <1>12, <2>1 DEF FileInv
<1>14. BaseInv'
  BY <1>1, <1>2, <1>7, Sizes DEF BaseInv
<1>15. \A w \in Pages : Mapped(w)' <=> Mapped(w) \/ (pc = "grow" /\ w = at)
  BY <1>1, <1>2, <1>3, <1>7 DEF Mapped
<1>16. ASSUME NEW w \in Pages
       PROVE  View(w)' = IF pc = "grow" /\ w = at THEN Zero ELSE View(w)
  <2>1. View(w)' = IF pte'[pgdir][w] = "P" THEN mem'[pgdir][w] ELSE page_inData(File, w, Zero)
    <3>1. pgdir' = pgdir /\ File' = File
      BY <1>1, <1>12
    <3> QED
      BY <3>1, Zenon DEF View
  <2>2. /\ pte'[pgdir][w] = IF pc = "grow" /\ w = at THEN "P" ELSE pte[pgdir][w]
        /\ mem'[pgdir][w] = IF pc = "grow" /\ w = at THEN Zero ELSE mem[pgdir][w]
    BY <1>2, <1>3, <1>7
  <2>3. CASE pc = "grow" /\ w = at
    BY <2>1, <2>2, <2>3, Zenon
  <2>4. CASE ~(pc = "grow" /\ w = at)
    BY <2>1, <2>2, <2>4, Zenon DEF View
  <2> QED
    BY <2>3, <2>4
<1>17. TableInv'
  <2>1. CASE pc = "grow"
    <3>1. /\ sz <= at /\ \A v \in Pages : Mapped(v) <=> v < at
          /\ \A v \in Pages : sz <= v /\ v < at => View(v) = Zero
      BY <2>1 DEF IInv, TableInv
    <3>2. \A v \in Pages : v < at + 1 <=> v < at \/ v = at
      BY <1>2, Sizes DEF Pages
    <3>3. sz <= at + 1 /\ at + 1 <= goal
      BY <1>1, <1>2, <3>1
    <3>4. \A v \in Pages : Mapped(v)' <=> v < at'
      BY <1>1, <1>15, <2>1, <3>1, <3>2
    <3>5. \A v \in Pages : sz' <= v /\ v < at' => View(v)' = Zero
      BY <1>1, <1>16, <2>1, <3>1, <3>2
    <3> QED
      BY <1>1, <2>1, <3>3, <3>4, <3>5 DEF TableInv
  <2>2. CASE pc # "grow"
    BY <1>1, <1>12, <1>15, <2>2 DEF IInv, TableInv
  <2> QED
    BY <2>1, <2>2
<1>18. OtherInv'
  <2>1. CASE pc = "grow"
    <3>1. \A v \in Pages : pte'[other'][v] = "none"
      BY <1>2, <1>3, <1>7, <2>1 DEF IInv, OtherInv
    <3> QED
      BY <1>1, <2>1, <3>1 DEF OtherInv
  <2>2. CASE pc # "grow"
    <3>1. \A v \in Pages : pte[other][v] # "PG" /\ (pte[other][v] = "P" <=> v < at)
      BY <1>1, <2>2 DEF IInv, OtherInv
    <3>2. \A v \in Pages : v < at + 1 <=> v < at \/ v = at
      BY <1>2, Sizes DEF Pages
    <3>3. \A v \in Pages : pte'[other'][v] # "PG" /\ (pte'[other'][v] = "P" <=> v < at')
      BY <1>1, <1>2, <1>3, <1>7, <2>2, <3>1, <3>2
    <3>4. page_mem_count' + (goal' - at') = page_mem_count + (goal - at) /\ at' <= goal'
      BY <1>1, <1>2, <1>4, <1>11, Fields
    <3>5. CASE pc = "execText"
      <4>1. goal >= 1 /\ goal + 1 < MAX_TOTAL_PAGES
            /\ page_mem_count + (goal - at) + 2 <= MAX_PSYC_PAGES
        BY <3>5 DEF IInv, OtherInv
      <4> QED
        BY <1>1, <3>3, <3>4, <3>5, <4>1 DEF OtherInv
    <3>6. CASE pc = "execStack"
      <4>1. goal >= 3 /\ goal - 2 <= at /\ page_mem_count + (goal - at) <= MAX_PSYC_PAGES
        BY <3>6 DEF IInv, OtherInv
      <4>2. PICK x \in Contents : \A v \in Pages : v < goal - 2 => mem[other][v] = x
        BY <3>6 DEF IInv, OtherInv
      <4>3. \A v \in Pages : v < goal - 2 => v # at
        BY <1>2, <4>1, Sizes DEF Pages
      <4>4. \A v \in Pages : v < goal' - 2 => mem'[other'][v] = x
        BY <1>1, <1>2, <1>7, <4>2, <4>3
      <4>5. goal' - 2 <= at'
        BY <1>1, <1>2, <4>1
      <4>6. \A v \in Pages : v = goal - 2 /\ v < at => mem[other][v] = Zero
        BY <3>6 DEF IInv, OtherInv
      <4>7. \A v \in Pages : v < at' => v < at \/ v = at
        BY <1>1, <3>2
      <4>8. \A v \in Pages : v = goal' - 2 /\ v < at' => mem'[other'][v] = Zero
        BY <1>1, <1>2, <1>3, <1>7, <2>2, <4>6, <4>7
      <4> QED
        BY <1>1, <3>3, <3>4, <3>6, <4>1, <4>4, <4>5, <4>8 DEF OtherInv
    <3> QED
      BY <1>1, <2>2, <3>5, <3>6
  <2> QED
    BY <2>1, <2>2
<1>19. Kept
  <2> SUFFICES ASSUME NEW v \in Pages, v < sz PROVE View(v)' = View(v)
    BY DEF Kept
  <2>1. pc = "grow" => v # at
    BY <1>2, Sizes DEF IInv, TableInv, Pages
  <2> QED
    BY <1>16, <2>1
<1> QED
  BY <1>1, <1>11, <1>13, <1>14, <1>17, <1>18, <1>19 DEF IInv

\* What a page holds after a step that keeps the page table in use.
LEMMA ViewAfter ==
    ASSUME pgdir' = pgdir, NEW q, File' = q, NEW w
    PROVE  View(w)' = IF pte'[pgdir][w] = "P" THEN mem'[pgdir][w] ELSE page_inData(q, w, Zero)
BY Zenon DEF View

\* While a full ring makes room for a page that is to come, a slot is free: the
\* pages in RAM and in the file are fewer than MAX_TOTAL_PAGES.
LEMMA SlotLeft ==
    ASSUME IInv, pc = "grow", at < goal, Ring.count = MAX_PSYC_PAGES
    PROVE  Cardinality(Out) < MAX_FILE_PAGES
<1> DEFINE P == {v \in Pages : pte[pgdir][v] = "P"}
<1>1. pgdir \in Dirs /\ at \in Nat /\ goal \in Nat /\ goal <= MAX_TOTAL_PAGES /\ pte \in Tables
  BY Sizes DEF IInv, BaseInv
<1>2. Ring.count = Cardinality(P)
  <2>1. \A e \in Dirs, v \in Pages : e # pgdir => pte[e][v] # "P"
    BY Others DEF IInv, BaseInv, OtherInv
  <2> QED
    BY <1>1, <2>1, CountExact DEF IInv, RingInv
<1>3. P \cup Out = 0 .. at - 1
  <2>1. \A v \in Pages : Mapped(v) <=> v < at
    BY DEF IInv, TableInv
  <2>2. \A v \in Pages : v \in P \cup Out <=> Mapped(v)
    BY <1>1 DEF Out, Mapped, Tables
  <2>3. \A v : v \in 0 .. at - 1 <=> v \in Pages /\ v < at
    BY <1>1, Sizes DEF Pages
  <2>4. P \cup Out \subseteq Pages
    BY DEF Out
  <2> HIDE DEF P
  <2> QED
    BY <2>1, <2>2, <2>3, <2>4
<1>4. P \cap Out = {}
  BY DEF Out
<1>5. /\ IsFiniteSet(P) /\ IsFiniteSet(Out)
      /\ Cardinality(P) \in Nat /\ Cardinality(Out) \in Nat
  <2>1. P \subseteq Pages /\ Out \subseteq Pages
    BY DEF Out
  <2> HIDE DEF P
  <2> QED
    BY <2>1, PagesFinite
<1> HIDE DEF P
<1>6. Cardinality(P \cup Out) = Cardinality(P) + Cardinality(Out)
  <2>1. Cardinality(P \cup Out) = Cardinality(P) + Cardinality(Out) - Cardinality(P \cap Out)
    BY <1>5, FS_Union
  <2>2. Cardinality(P \cap Out) = 0
    BY <1>4, FS_EmptySet
  <2> QED
    BY <1>5, <2>1, <2>2
<1>7. Cardinality(0 .. at - 1) = at
  <2>1. 0 \in Int /\ at - 1 \in Int
    BY <1>1
  <2>2. Cardinality(0 .. at - 1) = IF 0 > at - 1 THEN 0 ELSE at - 1 - 0 + 1
    BY <2>1, FS_Interval, Zenon
  <2> QED
    BY <1>1, <2>2
<1>8. Cardinality(P) + Cardinality(Out) = at /\ Cardinality(P) = MAX_PSYC_PAGES
  BY <1>2, <1>3, <1>6, <1>7, Zenon
<1> QED
  BY <1>1, <1>5, <1>8, Sizes

\* The ring of swap_out: the head goes and the page it made room for comes.
LEMMA HoldsSwap ==
    ASSUME NEW r, NEW t, Holds(r, t), r.count = MAX_PSYC_PAGES,
           NEW d \in Dirs, NEW v \in Pages, t[d][v] # "P",
           NEW u, \A e \in Dirs, w \in Pages :
                     u[e][w] = "P" <=> \/ t[e][w] = "P" /\ Entry(e, w) # r.ram[r.start]
                                       \/ e = d /\ w = v,
           NEW q, q = shiftFIFOIndex(insertPageToRAM(
                         deleteKeepingOrder(r, r.start), d, v))
    PROVE  Holds(q, u) /\ InOrder(r, q) /\ q.count = MAX_PSYC_PAGES
<1>1. Sound(r)
  BY DEF Holds
<1>2. insertPageToRAM(deleteKeepingOrder(r, r.start), d, v) =
         [r EXCEPT !.ram[r.start] = Entry(d, v)]
  BY <1>1, SwapFacts
<1>3. q = shiftFIFOIndex([r EXCEPT !.ram[r.start] = Entry(d, v)])
  BY <1>2, Zenon
<1> QED
  BY <1>3, HoldsRotate

\* swap_out: the victim is a page of the process, its contents are in the file
\* when its frame is gone, and the new page is behind all others.
LEMMA SwapOutStep ==
    ASSUME IInv, swap_out
    PROVE  IInv' /\ InOrder(Ring, Ring') /\ sz' = sz /\ Kept
<1>1. /\ pc \in {"grow", "execText", "execStack"} /\ at < goal
      /\ at' = at + 1 /\ goal' = goal /\ sz' = sz /\ pgdir' = pgdir
      /\ Ring.count = MAX_PSYC_PAGES
      /\ pte' = PagedOut(Map(pte)) /\ mem' = [mem EXCEPT ![Into][at] = Zero]
      /\ SetRing(shiftFIFOIndex(insertPageToRAM(
                   deleteKeepingOrder(Ring, fifoIndexStart), Into, at)))
      /\ SetFile(page_out(File, Victim.pgdir, Victim.vAddr, VictimData))
      /\ pc' = IF VictimReadable THEN pc ELSE "panic"
  BY DEF swap_out, Allocating, isFIFOfull, FillZero, Space, PanicUnless
<1>2. /\ BaseInv /\ pgdir \in Dirs /\ other \in Dirs /\ other # pgdir /\ other' = other
      /\ pte \in Tables /\ mem \in [Dirs -> [Pages -> Contents]]
      /\ at \in Nat /\ goal \in Nat /\ goal <= MAX_TOTAL_PAGES /\ sz \in Nat
  BY <1>1, Others, Sizes DEF IInv, BaseInv, other
<1>3. pc = "grow"
  <2>1. page_mem_count = MAX_PSYC_PAGES
    BY <1>1, Fields
  <2>2. pc = "execText" => FALSE
    BY <1>1, <1>2, <2>1, Sizes DEF IInv, OtherInv
  <2>3. pc = "execStack" => FALSE
    BY <1>1, <1>2, <2>1, Sizes DEF IInv, OtherInv
  <2> QED
    BY <1>1, <2>2, <2>3
<1>4. at \in Pages /\ Into = pgdir
  BY <1>1, <1>2, <1>3, Sizes DEF Pages, Into
<1>5. /\ \A v \in Pages : pte[other][v] = "none"
      /\ sz <= at /\ \A v \in Pages : Mapped(v) <=> v < at
      /\ \A v \in Pages : sz <= v /\ v < at => View(v) = Zero
  BY <1>3 DEF IInv, OtherInv, TableInv
<1>6. pte[pgdir][at] = "none"
  BY <1>2, <1>4, <1>5 DEF Mapped
<1>7. PICK u \in Pages : /\ Victim = Entry(pgdir, u) /\ pte[pgdir][u] = "P"
                         /\ Victim.pgdir = pgdir /\ Victim.vAddr = u
  <2>1. page_mem_count > 0
    BY <1>1, Fields, Sizes
  <2> QED
    BY <1>5, <2>1, VictimIs
<1>8. u # at /\ u \notin Out /\ VictimData = mem[pgdir][u] /\ VictimData \in Contents
      /\ pc' = "grow"
  BY <1>1, <1>2, <1>3, <1>6, <1>7 DEF Out, VictimData, VictimReadable
<1>9. /\ pte' \in Tables /\ mem' \in [Dirs -> [Pages -> Contents]]
      /\ \A e \in Dirs, w \in Pages :
            pte'[e][w] = IF e = pgdir /\ w = u THEN "PG"
                         ELSE IF e = pgdir /\ w = at THEN "P" ELSE pte[e][w]
      /\ \A w \in Pages : mem'[pgdir][w] = IF w = at THEN Zero ELSE mem[pgdir][w]
  <2>1. pte' = [[pte EXCEPT ![pgdir][at] = "P"] EXCEPT ![pgdir][u] = "PG"]
    BY <1>1, <1>4, <1>7, Zenon DEF PagedOut, Map
  <2>2. mem' = [mem EXCEPT ![pgdir][at] = Zero]
    BY <1>1, <1>4, Zenon
  <2> QED
    BY <1>2, <1>4, <1>8, <2>1, <2>2, ZeroAssumption DEF Tables
<1>10. PICK q : q = shiftFIFOIndex(insertPageToRAM(
                        deleteKeepingOrder(Ring, Ring.start), pgdir, at))
  OBVIOUS
<1>11. Holds(Ring, pte)
  BY DEF IInv, RingInv
<1>12. Holds(q, pte') /\ InOrder(Ring, q) /\ q.count = MAX_PSYC_PAGES
  <2>1. Ring.ram[Ring.start] = Entry(pgdir, u)
    BY <1>7, Fields, Zenon DEF Victim
  <2>2. ASSUME NEW e \in Dirs, NEW w \in Pages
        PROVE  pte'[e][w] = "P" <=> \/ pte[e][w] = "P" /\ Entry(e, w) # Ring.ram[Ring.start]
                                    \/ e = pgdir /\ w = at
    <3>1. Entry(e, w) = Entry(pgdir, u) <=> e = pgdir /\ w = u
      BY EntryOf
    <3> QED
      BY <1>8, <1>9, <2>1, <3>1
  <2>3. pgdir \in Dirs /\ at \in Pages /\ pte[pgdir][at] # "P" /\ Ring.count = MAX_PSYC_PAGES
    BY <1>1, <1>2, <1>4, <1>6
  <2> QED
    BY <1>10, <1>11, <2>2, <2>3, HoldsSwap
<1>13. Ring' = q
  <2>1. q \in Rings
    BY <1>12, CountIs DEF Holds
  <2>2. SetRing(q)
    BY <1>1, <1>4, <1>10, Fields, Zenon
  <2> QED
    BY <2>1, <2>2, RingSet
<1>14. RingInv' /\ InOrder(Ring, Ring') /\ page_mem_count' = MAX_PSYC_PAGES
  <2>1. Ring'.count = page_mem_count'
    BY DEF Ring
  <2> QED
    BY <1>12, <1>13, <2>1 DEF RingInv
<1>15. PICK f : f = page_out(File, pgdir, u, VictimData)
  OBVIOUS
<1>16. /\ FileOk(f, pgdir, Out \cup {u})
       /\ \A y : page_inData(f, u, y) = VictimData
       /\ \A y : \A w \in Out : page_inData(f, w, y) = page_inData(File, w, y)
  <2>1. FileOk(File, pgdir, Out)
    BY DEF IInv, FileInv
  <2>2. Cardinality(Out) < MAX_FILE_PAGES
    BY <1>1, <1>3, SlotLeft
  <2>3. pgdir \in Dirs /\ u \in Pages /\ u \notin Out /\ VictimData \in Contents
    BY <1>2, <1>8
  <2> QED
    BY <1>15, <2>1, <2>2, <2>3, PageOutFacts
<1>17. File' = f
  <2>1. f \in Files
    BY <1>16 DEF FileOk
  <2>2. SetFile(f)
    BY <1>1, <1>7, <1>15, Zenon
  <2> QED
    BY <2>1, <2>2, FileSet
<1>18. Out' = Out \cup {u}
  BY <1>1, <1>2, <1>6, <1>8, <1>9 DEF Out
<1>19. FileInv'
  BY <1>1, <1>14, <1>16, <1>17, <1>18 DEF FileInv
<1>20. BaseInv'
  BY <1>1, <1>2, <1>8, <1>9, Sizes DEF BaseInv
<1>21. \A w \in Pages : Mapped(w)' <=> Mapped(w) \/ w = at
  BY <1>1, <1>2, <1>7, <1>9 DEF Mapped
<1>22. ASSUME NEW w \in Pages, Mapped(w) \/ w = at
       PROVE  View(w)' = IF w = at THEN Zero ELSE View(w)
  <2>1. View(w)' = IF pte'[pgdir][w] = "P" THEN mem'[pgdir][w] ELSE page_inData(f, w, Zero)
    BY <1>1, <1>17, ViewAfter
  <2>2. CASE w = at
    <3>1. pte'[pgdir][w] = "P" /\ mem'[pgdir][w] = Zero
      BY <1>2, <1>8, <1>9, <2>2
    <3> QED
      BY <2>1, <2>2, <3>1
  <2>3. CASE w = u
    <3>1. pte'[pgdir][w] # "P" /\ View(w) = VictimData
      BY <1>2, <1>7, <1>8, <1>9, <2>3 DEF View
    <3> QED
      BY <1>8, <1>16, <2>1, <2>3, <3>1
  <2>4. CASE w # at /\ w # u
    <3>1. pte'[pgdir][w] = pte[pgdir][w] /\ mem'[pgdir][w] = mem[pgdir][w]
      BY <1>2, <1>9, <2>4
    <3>2. CASE pte[pgdir][w] = "P"
      BY <2>1, <2>4, <3>1, <3>2, Zenon DEF View
    <3>3. CASE pte[pgdir][w] # "P"
      <4>1. w \in Out
        BY <1>2, <1>22, <2>4, <3>3 DEF Mapped, Out, Tables
      <4>2. page_inData(f, w, Zero) = page_inData(File, w, Zero)
        BY <1>16, <4>1
      <4> QED
        BY <2>1, <2>4, <3>1, <3>3, <4>2, Zenon DEF View
    <3> QED
      BY <3>2, <3>3
  <2> QED
    BY <2>2, <2>3, <2>4
<1>23. \A v \in Pages : v < at + 1 <=> v < at \/ v = at
  BY <1>2, Sizes DEF Pages
<1>24. \A v \in Pages : v < at => v # at
  BY <1>2, Sizes DEF Pages
<1>25. TableInv'
  <2>1. sz' <= at' /\ at' <= goal'
    BY <1>1, <1>2, <1>5
  <2>2. \A v \in Pages : Mapped(v)' <=> v < at'
    BY <1>1, <1>5, <1>21, <1>23
  <2>3. \A v \in Pages : sz' <= v /\ v < at' => View(v)' = Zero
    BY <1>1, <1>5, <1>22, <1>23
  <2> QED
    BY <1>8, <2>1, <2>2, <2>3 DEF TableInv
<1>26. OtherInv'
  <2>1. \A v \in Pages : pte'[other'][v] = "none"
    BY <1>2, <1>5, <1>9
  <2> QED
    BY <1>8, <2>1 DEF OtherInv
<1>27. Kept
  <2> SUFFICES ASSUME NEW v \in Pages, v < sz PROVE View(v)' = View(v)
    BY DEF Kept
  <2>1. v < at
    BY <1>2, <1>5, Sizes DEF Pages
  <2> QED
    BY <1>5, <1>22, <1>24, <2>1
<1> QED
  BY <1>1, <1>14, <1>19, <1>20, <1>25, <1>26, <1>27 DEF IInv

\* The ring of swap_in: the head goes and the page of the slot comes.
LEMMA HoldsPageIn ==
    ASSUME NEW r, NEW t, Holds(r, t), r.count = MAX_PSYC_PAGES,
           NEW d \in Dirs, NEW v \in Pages, t[d][v] # "P",
           NEW f, page_inFinds(f, v), f.slot[page_inSlot(f, v)] = Entry(d, v),
           NEW u, \A e \in Dirs, w \in Pages :
                     u[e][w] = "P" <=> \/ t[e][w] = "P" /\ Entry(e, w) # r.ram[r.start]
                                       \/ e = d /\ w = v,
           NEW q, q = shiftFIFOIndex(page_inRing(r, f, r.start, v))
    PROVE  Holds(q, u) /\ InOrder(r, q) /\ q.count = MAX_PSYC_PAGES
<1>1. page_inRing(r, f, r.start, v) = [r EXCEPT !.ram[r.start] = Entry(d, v)]
  <2>1. page_inRing(r, f, r.start, v) =
           [r EXCEPT !.ram[r.start] = f.slot[page_inSlot(f, v)]]
    BY Zenon DEF page_inRing
  <2> QED
    BY <2>1, Zenon
<1>2. q = shiftFIFOIndex([r EXCEPT !.ram[r.start] = Entry(d, v)])
  BY <1>1, Zenon
<1> QED
  BY <1>2, HoldsRotate

\* swap_in: the page comes back as it left, the victim takes a slot in turn.
LEMMA SwapInStep ==
    ASSUME IInv, NEW v \in Pages, NEW x \in Contents, swap_inFull(v, x)
    PROVE  IInv' /\ InOrder(Ring, Ring') /\ sz' = sz /\ Kept
<1>1. /\ pc = "user" /\ at' = at /\ goal' = goal /\ sz' = sz /\ pgdir' = pgdir
      /\ pte[pgdir][v] = "PG"
      /\ Ring.count = MAX_PSYC_PAGES /\ page_inData(File, v, x) = x
      /\ pte' = PagedOut(PagedIn(pte, v)) /\ mem' = [mem EXCEPT ![pgdir][v] = x]
      /\ SetFile(page_out(page_in(File, v), Victim.pgdir, Victim.vAddr, VictimData))
      /\ SetRing(shiftFIFOIndex(page_inRing(Ring, File, fifoIndexStart, v)))
      /\ pc' = IF VictimReadable THEN pc ELSE "panic"
  BY DEF swap_inFull, isFIFOfull, Space, PanicUnless
<1>2. /\ BaseInv /\ pgdir \in Dirs /\ other \in Dirs /\ other # pgdir /\ other' = other
      /\ pte \in Tables /\ mem \in [Dirs -> [Pages -> Contents]] /\ v \in Out
  BY <1>1, Others DEF IInv, BaseInv, other, Out
<1>3. /\ \A w \in Pages : pte[other][w] = "none"
      /\ \A w \in Pages : Mapped(w) <=> w < sz
  BY <1>1 DEF IInv, OtherInv, TableInv
<1>4. PICK u \in Pages : /\ Victim = Entry(pgdir, u) /\ pte[pgdir][u] = "P"
                         /\ Victim.pgdir = pgdir /\ Victim.vAddr = u
  <2>1. page_mem_count > 0
    BY <1>1, Fields, Sizes
  <2> QED
    BY <1>3, <2>1, VictimIs
<1>5. u # v /\ u \notin Out /\ VictimData = mem[pgdir][u] /\ VictimData \in Contents
      /\ pc' = "user"
  BY <1>1, <1>2, <1>4 DEF Out, VictimData, VictimReadable
<1>6. /\ pte' \in Tables /\ mem' \in [Dirs -> [Pages -> Contents]]
      /\ \A e \in Dirs, w \in Pages :
            pte'[e][w] = IF e = pgdir /\ w = u THEN "PG"
                         ELSE IF e = pgdir /\ w = v THEN "P" ELSE pte[e][w]
      /\ \A w \in Pages : mem'[pgdir][w] = IF w = v THEN x ELSE mem[pgdir][w]
  <2>1. pte' = [[pte EXCEPT ![pgdir][v] = "P"] EXCEPT ![pgdir][u] = "PG"]
    BY <1>1, <1>4, Zenon DEF PagedOut, PagedIn
  <2>2. mem' = [mem EXCEPT ![pgdir][v] = x]
    BY <1>1
  <2> QED
    BY <1>2, <1>5, <2>1, <2>2 DEF Tables
<1>7. FileOk(File, pgdir, Out)
  BY DEF IInv, FileInv
<1>8. PICK f, R : f = page_in(File, v) /\ R = Out \ {v}
  OBVIOUS
<1>9. /\ FileOk(f, pgdir, R)
      /\ page_inFinds(File, v) /\ File.slot[page_inSlot(File, v)] = Entry(pgdir, v)
      /\ \A y : \A w \in R : page_inData(f, w, y) = page_inData(File, w, y)
  <2>1. pgdir \in Dirs /\ v \in Out
    BY <1>2
  <2> QED
    BY <1>7, <1>8, <2>1, PageInFacts
<1>10. View(v) = x
  <2>1. page_inData(File, v, Zero) = page_inData(File, v, x)
    BY <1>2, <1>7, DataIs
  <2> QED
    BY <1>1, <2>1 DEF View
<1>11. PICK f2 : f2 = page_out(f, pgdir, u, VictimData)
  OBVIOUS
<1>12. /\ FileOk(f2, pgdir, R \cup {u})
       /\ \A y : page_inData(f2, u, y) = VictimData
       /\ \A y : \A w \in R : page_inData(f2, w, y) = page_inData(f, w, y)
  <2>1. Cardinality(R) < MAX_FILE_PAGES
    <3>1. Cardinality(Out) \in 0 .. MAX_FILE_PAGES
      BY <1>7, SlotsBound
    <3>2. Out \subseteq Pages
      BY DEF Out
    <3>3. IsFiniteSet(Out)
      BY <3>2, PagesFinite
    <3>4. Cardinality(R) = Cardinality(Out) - 1
      BY <1>2, <1>8, <3>3, FS_RemoveElement
    <3> QED
      BY <3>1, <3>4, Sizes
  <2>2. pgdir \in Dirs /\ u \in Pages /\ u \notin R /\ VictimData \in Contents
    BY <1>2, <1>5, <1>8
  <2>3. FileOk(f, pgdir, R)
    BY <1>9
  <2> QED
    BY <1>11, <2>1, <2>2, <2>3, PageOutFacts
<1>13. File' = f2
  <2>1. f2 \in Files
    BY <1>12 DEF FileOk
  <2>2. SetFile(f2)
    BY <1>1, <1>4, <1>8, <1>11, Zenon
  <2> QED
    BY <2>1, <2>2, FileSet
<1>14. PICK q : q = shiftFIFOIndex(page_inRing(Ring, File, Ring.start, v))
  OBVIOUS
<1>15. Holds(q, pte') /\ InOrder(Ring, q) /\ q.count = MAX_PSYC_PAGES
  <2>1. Ring.ram[Ring.start] = Entry(pgdir, u)
    BY <1>4, Fields, Zenon DEF Victim
  <2>2. ASSUME NEW e \in Dirs, NEW w \in Pages
        PROVE  pte'[e][w] = "P" <=> \/ pte[e][w] = "P" /\ Entry(e, w) # Ring.ram[Ring.start]
                                    \/ e = pgdir /\ w = v
    <3>1. Entry(e, w) = Entry(pgdir, u) <=> e = pgdir /\ w = u
      BY EntryOf
    <3> QED
      BY <1>5, <1>6, <2>1, <3>1
  <2>3. Holds(Ring, pte) /\ pgdir \in Dirs /\ pte[pgdir][v] # "P" /\ Ring.count = MAX_PSYC_PAGES
    BY <1>1, <1>2 DEF IInv, RingInv
  <2>4. page_inFinds(File, v) /\ File.slot[page_inSlot(File, v)] = Entry(pgdir, v)
    BY <1>9
  <2> QED
    BY <1>14, <2>2, <2>3, <2>4, HoldsPageIn
<1>16. Ring' = q
  <2>1. q \in Rings
    BY <1>15, CountIs DEF Holds
  <2>2. SetRing(q)
    BY <1>1, <1>14, Fields, Zenon
  <2> QED
    BY <2>1, <2>2, RingSet
<1>17. RingInv' /\ InOrder(Ring, Ring') /\ page_mem_count' = MAX_PSYC_PAGES
  <2>1. Ring'.count = page_mem_count'
    BY DEF Ring
  <2> QED
    BY <1>15, <1>16, <2>1 DEF RingInv
<1>18. Out' = R \cup {u}
  BY <1>1, <1>8, <1>2, <1>5, <1>6 DEF Out
<1>19. FileInv'
  BY <1>1, <1>12, <1>13, <1>17, <1>18 DEF FileInv
<1>20. BaseInv'
  BY <1>1, <1>2, <1>5, <1>6 DEF BaseInv
<1>21. \A w \in Pages : Mapped(w)' <=> Mapped(w)
  BY <1>1, <1>2, <1>4, <1>6 DEF Mapped
<1>22. ASSUME NEW w \in Pages, Mapped(w) PROVE View(w)' = View(w)
  <2>1. View(w)' = IF pte'[pgdir][w] = "P" THEN mem'[pgdir][w] ELSE page_inData(f2, w, Zero)
    BY <1>1, <1>13, ViewAfter
  <2>2. CASE w = v
    <3>1. pte'[pgdir][w] = "P" /\ mem'[pgdir][w] = x
      BY <1>2, <1>5, <1>6, <2>2
    <3> QED
      BY <1>10, <2>1, <2>2, <3>1
  <2>3. CASE w = u
    <3>1. pte'[pgdir][w] # "P" /\ View(w) = VictimData
      BY <1>2, <1>4, <1>5, <1>6, <2>3 DEF View
    <3> QED
      BY <1>12, <2>1, <2>3, <3>1
  <2>4. CASE w # v /\ w # u
    <3>1. pte'[pgdir][w] = pte[pgdir][w] /\ mem'[pgdir][w] = mem[pgdir][w]
      BY <1>2, <1>6, <2>4
    <3>2. CASE pte[pgdir][w] = "P"
      BY <2>1, <3>1, <3>2, Zenon DEF View
    <3>3. CASE pte[pgdir][w] # "P"
      <4>1. w \in R
        BY <1>2, <1>8, <1>22, <2>4, <3>3 DEF Mapped, Out, Tables
      <4>2. page_inData(f2, w, Zero) = page_inData(File, w, Zero)
        BY <1>9, <1>12, <4>1
      <4> QED
        BY <2>1, <3>1, <3>3, <4>2, Zenon DEF View
    <3> QED
      BY <3>2, <3>3
  <2> QED
    BY <2>2, <2>3, <2>4
<1>23. TableInv'
  BY <1>1, <1>3, <1>5, <1>21 DEF TableInv
<1>24. OtherInv'
  <2>1. \A w \in Pages : pte'[other'][w] = "none"
    BY <1>2, <1>3, <1>6
  <2> QED
    BY <1>5, <2>1 DEF OtherInv
<1>25. Kept
  BY <1>3, <1>22 DEF Kept
<1> QED
  BY <1>1, <1>17, <1>19, <1>20, <1>23, <1>24, <1>25 DEF IInv

\* No page is paged out while there is room in RAM, so swap_in never finds any.
LEMMA SwapInRoomNever ==
    ASSUME IInv, NEW v \in Pages, swap_inWithRoom(v)
    PROVE  FALSE
<1>1. v \in Out /\ Ring.count # MAX_PSYC_PAGES
  BY DEF swap_inWithRoom, Out, isFIFOfull
<1> QED
  BY <1>1, Fields DEF IInv, FileInv

\* fork is not among the calls.
LEMMA ForkNever ==
    ASSUME ResidentCalls, fork
    PROVE  FALSE
BY DEF ResidentCalls, fork, MayCall

\* deallocuvm gives up one page, of the process or of the other page table.
LEMMA DeallocStep ==
    ASSUME IInv, deallocuvm
    PROVE  IInv' /\ InOrder(Ring, Ring') /\ sz' = sz /\ Kept
<1>1. /\ pc \in {"shrink", "freevm"} /\ at < goal /\ pc' = pc
      /\ at' = at + 1 /\ goal' = goal /\ sz' = sz /\ pgdir' = pgdir
      /\ mem' = mem /\ UNCHANGED fileVars
  BY DEF deallocuvm, Space
<1>2. /\ BaseInv /\ pgdir \in Dirs /\ other \in Dirs /\ other # pgdir /\ other' = other
      /\ pte \in Tables
      /\ at \in Nat /\ goal \in Nat /\ goal <= MAX_TOTAL_PAGES /\ sz \in Nat
  BY <1>1, Others, Sizes DEF IInv, BaseInv, other
<1>3. at \in Pages /\ From \in Dirs /\ (From = pgdir <=> pc = "shrink")
      /\ (From = other <=> pc = "freevm")
  BY <1>1, <1>2, Sizes DEF Pages, From
<1>4. Out = {} /\ \A w \in Pages : pte[other][w] # "PG"
  BY <1>1 DEF IInv, TableInv, OtherInv
<1>5. \A w \in Pages : pte[pgdir][w] # "PG"
  BY <1>4 DEF Out
<1>6. /\ pte' \in Tables
      /\ \A e \in Dirs, w \in Pages :
            pte'[e][w] = IF e = From /\ w = at THEN "none" ELSE pte[e][w]
  <2>1. CASE pte[From][at] = "P"
    <3>1. pte' = [pte EXCEPT ![From][at] = "none"]
      BY <2>1 DEF deallocuvm
    <3> QED
      BY <1>2, <1>3, <3>1 DEF Tables
  <2>2. CASE pte[From][at] # "P"
    <3>1. pte' = pte
      BY <2>2 DEF deallocuvm
    <3>2. pte[From][at] = "none"
      BY <1>1, <1>2, <1>3, <1>4, <1>5, <2>2 DEF Tables
    <3> QED
      BY <1>2, <3>1, <3>2
  <2> QED
    BY <2>1, <2>2
<1>7. RingInv' /\ InOrder(Ring, Ring')
  <2>1. Holds(Ring, pte) /\ Ring.count \in Nat
    BY CountIs DEF IInv, RingInv, Holds
  <2>2. CASE pte[From][at] = "P"
    <3>1. PICK q : q = removePageFromRAM(Ring, From, at)
      OBVIOUS
    <3>2. \A e \in Dirs, w \in Pages :
             pte'[e][w] = "P" <=> pte[e][w] = "P" /\ ~(e = From /\ w = at)
      BY <1>6
    <3>3. Holds(q, pte') /\ InOrder(Ring, q)
      BY <1>3, <2>1, <2>2, <3>1, <3>2, HoldsRemove
    <3>4. q \in Rings
      BY <3>3, CountIs DEF Holds
    <3>5. SetRing(q)
      BY <2>2, <3>1, Zenon DEF deallocuvm
    <3>6. Ring' = q
      BY <3>4, <3>5, RingSet
    <3> QED
      BY <3>3, <3>6 DEF RingInv
  <2>3. CASE pte[From][at] # "P"
    <3>1. pte' = pte /\ UNCHANGED queueVars
      BY <2>3 DEF deallocuvm
    <3>2. Ring' = Ring
      BY <3>1 DEF queueVars, Ring
    <3>3. InOrder(Ring, Ring)
      BY <2>1, InOrderSame
    <3> QED
      BY <2>1, <3>1, <3>2, <3>3 DEF RingInv
  <2> QED
    BY <2>2, <2>3
<1>8. Out' = {} /\ File' = File
  BY <1>1, <1>2, <1>5, <1>6 DEF Out, fileVars, File
<1>9. FileInv'
  <2>1. FileOk(File', pgdir', Out')
    BY <1>1, <1>4, <1>8, Zenon DEF IInv, FileInv
  <2> QED
    BY <1>8, <2>1 DEF FileInv
<1>10. BaseInv'
  BY <1>1, <1>2, <1>6, Sizes DEF IInv, BaseInv
<1>11. \A w \in Pages : Mapped(w)' <=> Mapped(w) /\ ~(pc = "shrink" /\ w = at)
  BY <1>1, <1>2, <1>3, <1>6 DEF Mapped
<1>12. TableInv'
  <2>1. CASE pc = "shrink"
    <3>1. /\ sz <= at /\ \A w \in Pages : Mapped(w) <=> w < sz \/ (at <= w /\ w < goal)
      BY <2>1 DEF IInv, TableInv
    <3>2. \A w \in Pages : w < sz \/ (at + 1 <= w /\ w < goal) <=>
                           (w < sz \/ (at <= w /\ w < goal)) /\ w # at
      BY <1>1, <1>2, <3>1, Sizes DEF Pages
    <3>3. \A w \in Pages : Mapped(w)' <=> w < sz' \/ (at' <= w /\ w < goal')
      BY <1>1, <1>11, <2>1, <3>1, <3>2
    <3>4. sz' <= at' /\ at' <= goal'
      BY <1>1, <1>2, <3>1
    <3> QED
      BY <1>1, <1>8, <2>1, <3>3, <3>4 DEF TableInv
  <2>2. CASE pc = "freevm"
    BY <1>1, <1>8, <1>11, <2>2 DEF IInv, TableInv
  <2> QED
    BY <1>1, <2>1, <2>2
<1>13. OtherInv'
  <2>1. CASE pc = "shrink"
    <3>1. \A w \in Pages : pte'[other'][w] = "none"
      BY <1>2, <1>3, <1>6, <2>1 DEF IInv, OtherInv
    <3> QED
      BY <1>1, <2>1, <3>1 DEF OtherInv
  <2>2. CASE pc = "freevm"
    <3>1. goal = MAX_TOTAL_PAGES /\ \A w \in Pages : w < at => pte[other][w] = "none"
      BY <2>2 DEF IInv, OtherInv
    <3>2. \A w \in Pages : w < at + 1 <=> w < at \/ w = at
      BY <1>2, Sizes DEF Pages
    <3>3. \A w \in Pages : /\ pte'[other'][w] # "PG"
                           /\ w < at' => pte'[other'][w] = "none"
      BY <1>1, <1>2, <1>3, <1>4, <1>6, <2>2, <3>1, <3>2
    <3>4. at' <= goal'
      BY <1>1, <1>2
    <3> QED
      BY <1>1, <2>2, <3>1, <3>3, <3>4 DEF OtherInv
  <2> QED
    BY <1>1, <2>1, <2>2
<1>14. Kept
  <2> SUFFICES ASSUME NEW w \in Pages, w < sz PROVE View(w)' = View(w)
    BY DEF Kept
  <2>1. pc = "shrink" => w # at
    BY <1>2, Sizes DEF IInv, TableInv, Pages
  <2>2. pte'[pgdir][w] = pte[pgdir][w] /\ mem'[pgdir][w] = mem[pgdir][w]
    BY <1>1, <1>2, <1>3, <1>6, <2>1
  <2>3. View(w)' = IF pte'[pgdir][w] = "P" THEN mem'[pgdir][w] ELSE page_inData(File, w, Zero)
    BY <1>1, <1>8, ViewAfter
  <2> QED
    BY <2>2, <2>3, Zenon DEF View
<1> QED
  BY <1>1, <1>7, <1>9, <1>10, <1>12, <1>13, <1>14 DEF IInv

-----------------------------------------------------------------------------
(* The theorems *)

\* What the program finds, page by page.
Content == [v \in 0 .. sz - 1 |-> View(v)]

\* Every page below sz is one of Pages and holds one of Contents.
LEMMA ContentFacts ==
    ASSUME IInv
    PROVE  /\ sz \in 1 .. MAX_TOTAL_PAGES /\ 0 .. sz - 1 \subseteq Pages
           /\ \A v \in 0 .. sz - 1 : v \in Pages /\ v < sz /\ View(v) \in Contents
           /\ DOMAIN Content = 0 .. sz - 1
           /\ \A v \in 0 .. sz - 1 : Content[v] = View(v)
<1>1. sz \in 1 .. MAX_TOTAL_PAGES /\ pgdir \in Dirs /\ pte \in Tables
      /\ mem \in [Dirs -> [Pages -> Contents]]
      /\ pc \in {"user", "grow", "shrink", "execText", "execStack", "freevm", "trap"}
      /\ at \in Nat
  BY Sizes DEF IInv, BaseInv
<1>2. \A v \in 0 .. sz - 1 : v \in Pages /\ v < sz
  BY <1>1, Sizes DEF Pages
<1>3. ASSUME NEW v \in 0 .. sz - 1 PROVE View(v) \in Contents
  <2>1. v \in Pages /\ v < sz
    BY <1>2
  <2>2. Mapped(v)
    <3>1. CASE pc = "grow"
      <4>1. sz <= at /\ (Mapped(v) <=> v < at)
        BY <2>1, <3>1 DEF IInv, TableInv
      <4> QED
        BY <1>1, <2>1, <4>1, Sizes
    <3>2. CASE pc # "grow"
      BY <1>1, <2>1, <3>2 DEF IInv, TableInv
    <3> QED
      BY <3>1, <3>2
  <2>3. CASE pte[pgdir][v] = "P"
    BY <1>1, <2>1, <2>3 DEF View
  <2>4. CASE pte[pgdir][v] # "P"
    <3>1. v \in Out
      BY <1>1, <2>1, <2>2, <2>4 DEF Mapped, Out, Tables
    <3>2. page_inData(File, v, Zero) \in Contents
      BY <3>1, DataIs DEF IInv, FileInv
    <3> QED
      BY <2>4, <3>2, Zenon DEF View
  <2> QED
    BY <2>3, <2>4
<1> QED
  BY <1>1, <1>2, <1>3 DEF Content

\* A step that keeps the size and what the program finds is none of the memory.
LEMMA KeptContent ==
    ASSUME IInv, sz' = sz, Kept
    PROVE  Content' = Content
<1>1. \A v \in 0 .. sz - 1 : View(v)' = View(v)
  BY ContentFacts DEF Kept
<1>2. Content' = [v \in 0 .. sz - 1 |-> View(v)']
  BY Zenon DEF Content
<1> QED
  BY <1>1, <1>2 DEF Content

\* What a step of the pager means to the program.
ContentStep ==
    \/ \E v \in DOMAIN Content, x \in Contents : Content' = [Content EXCEPT ![v] = x]
    \/ \E n \in 1 .. MAX_TOTAL_PAGES :
          /\ \A v \in DOMAIN Content : v < n
          /\ Content' = [v \in 0 .. n - 1 |->
                            IF v \in DOMAIN Content THEN Content[v] ELSE Zero]
    \/ \E n \in 1 .. MAX_TOTAL_PAGES :
          /\ 0 .. n - 1 \subseteq DOMAIN Content
          /\ Content' = [v \in 0 .. n - 1 |-> Content[v]]
    \/ \E n \in 1 .. MAX_TOTAL_PAGES, x, y \in Contents :
          Content' = [v \in 0 .. n - 1 |->
                         IF v = n - 1 THEN y ELSE IF v < n - 2 THEN x ELSE Zero]
    \/ Content' = Content

\* Every step keeps the invariant and the order of the ring, and is a step of
\* the memory or none.
LEMMA StepInv ==
    ASSUME ResidentCalls, IInv, Next
    PROVE  IInv' /\ InOrder(Ring, Ring') /\ ContentStep
<1>1. Ring.count \in Nat
  BY CountIs DEF IInv, RingInv, Holds
<1>2. ASSUME Ring' = Ring PROVE InOrder(Ring, Ring')
  BY <1>1, <1>2, InOrderSame
<1>3. ASSUME IInv', InOrder(Ring, Ring'), sz' = sz, Kept
      PROVE  IInv' /\ InOrder(Ring, Ring') /\ ContentStep
  BY <1>3, KeptContent DEF ContentStep
<1>4. /\ sz \in 1 .. MAX_TOTAL_PAGES /\ sz \in Nat
      /\ \A v \in 0 .. sz - 1 : v \in Pages /\ v < sz /\ Content[v] = View(v)
      /\ DOMAIN Content = 0 .. sz - 1
  BY ContentFacts, Sizes
<1>5. Content' = [v \in 0 .. sz' - 1 |-> View(v)']
  BY Zenon DEF Content
<1>6. ASSUME NEW v \in Pages, NEW x \in Contents, store(v, x)
      PROVE  IInv' /\ InOrder(Ring, Ring') /\ ContentStep
  <2>1. /\ IInv' /\ Ring' = Ring /\ sz' = sz /\ v < sz
        /\ \A w \in Pages : View(w)' = IF w = v THEN x ELSE View(w)
    BY <1>6, StoreStep
  <2>2. v \in 0 .. sz - 1
    BY <1>4, <2>1, Sizes DEF Pages
  <2>3. Content' = [w \in 0 .. sz - 1 |-> IF w = v THEN x ELSE Content[w]]
    BY <1>4, <1>5, <2>1
  <2>4. Content' = [Content EXCEPT ![v] = x]
    BY <1>4, <2>2, <2>3 DEF Content
  <2> QED
    BY <1>2, <1>4, <2>1, <2>2, <2>4 DEF ContentStep
<1>7. ASSUME NEW v \in Pages, NEW x \in Contents, swap_inFull(v, x)
      PROVE  IInv' /\ InOrder(Ring, Ring') /\ ContentStep
  BY <1>3, <1>7, SwapInStep
<1>8. ASSUME NEW v \in Pages, swap_inWithRoom(v) PROVE FALSE
  BY <1>8, SwapInRoomNever
<1>22. ASSUME NEW v \in Pages, kernelFault(v)
       PROVE  IInv' /\ InOrder(Ring, Ring') /\ ContentStep
  BY <1>2, <1>3, <1>22, KernelFaultStep
<1>9. ASSUME NEW n \in 1 .. MAX_TOTAL_PAGES, growproc(n)
      PROVE  IInv' /\ InOrder(Ring, Ring') /\ ContentStep
  BY <1>2, <1>3, <1>9, GrowprocStep
<1>10. ASSUME NEW n \in 1 .. MAX_TOTAL_PAGES, growprocShrinks(n)
       PROVE  IInv' /\ InOrder(Ring, Ring') /\ ContentStep
  <2>1. /\ IInv' /\ Ring' = Ring
        /\ sz' \in 1 .. sz /\ \A v \in Pages : v < sz' => View(v)' = View(v)
    BY <1>10, GrowprocShrinksStep
  <2>2. sz' \in 1 .. MAX_TOTAL_PAGES /\ \A v \in 0 .. sz' - 1 : v \in 0 .. sz - 1 /\ v < sz'
    <3>1. PICK m \in 1 .. sz : m = sz'
      BY <2>1
    <3>2. sz \in Nat /\ sz <= MAX_TOTAL_PAGES
      BY <1>4, Sizes
    <3>3. m \in 1 .. MAX_TOTAL_PAGES /\ \A v \in 0 .. m - 1 : v \in 0 .. sz - 1 /\ v < m
      BY <3>2, Sizes
    <3> QED
      BY <3>1, <3>3
  <2>3. Content' = [v \in 0 .. sz' - 1 |-> Content[v]]
    BY <1>4, <1>5, <2>1, <2>2
  <2>4. 0 .. sz' - 1 \subseteq DOMAIN Content
    BY <1>4, <2>2
  <2>5. \E n1 \in 1 .. MAX_TOTAL_PAGES : /\ 0 .. n1 - 1 \subseteq DOMAIN Content
                                         /\ Content' = [v \in 0 .. n1 - 1 |-> Content[v]]
    BY <2>2, <2>3, <2>4, Zenon
  <2> QED
    BY <1>2, <2>1, <2>5 DEF ContentStep
<1>11. ASSUME NEW n \in 1 .. MAX_TOTAL_PAGES, exec(n)
       PROVE  IInv' /\ InOrder(Ring, Ring') /\ ContentStep
  BY <1>2, <1>3, <1>11, ExecStep
<1>12. ASSUME growprocReturns PROVE IInv' /\ InOrder(Ring, Ring') /\ ContentStep
  <2>1. /\ IInv' /\ Ring' = Ring /\ sz' = goal /\ sz <= goal /\ Kept
        /\ \A v \in Pages : sz <= v /\ v < goal => View(v)' = Zero
    BY <1>12, GrowprocReturnsStep
  <2>2. goal \in 1 .. MAX_TOTAL_PAGES
    BY <1>4, <2>1, Sizes DEF IInv, BaseInv
  <2>3. ASSUME NEW v \in 0 .. goal - 1
        PROVE  View(v)' = IF v \in 0 .. sz - 1 THEN Content[v] ELSE Zero
    <3>1. v \in Pages /\ v < goal /\ (v \notin 0 .. sz - 1 => sz <= v)
      BY <1>4, <2>2, Sizes DEF Pages
    <3>2. v \in 0 .. sz - 1 => View(v)' = Content[v]
      BY <1>4, <2>1 DEF Kept
    <3> QED
      BY <2>1, <3>1, <3>2
  <2>4. Content' = [v \in 0 .. goal - 1 |-> IF v \in DOMAIN Content THEN Content[v] ELSE Zero]
    <3>1. Content' = [v \in 0 .. goal - 1 |-> View(v)']
      BY <1>5, <2>1, Zenon
    <3> QED
      BY <1>4, <2>3, <3>1
  <2>5. \A v \in DOMAIN Content : v < goal
    BY <1>4, <2>1, <2>2
  <2> QED
    BY <1>2, <2>1, <2>2, <2>4, <2>5 DEF ContentStep
<1>13. ASSUME NEW x \in Contents, execCommits(x)
       PROVE  IInv' /\ InOrder(Ring, Ring') /\ ContentStep
  <2>1. IInv' /\ Ring' = Ring /\ sz' = goal /\ goal \in 1 .. MAX_TOTAL_PAGES
    BY <1>13, ExecCommitsStep
  <2>2. PICK y \in Contents :
           \A v \in Pages :
              v < goal => View(v)' = IF v = goal - 1 THEN x
                                     ELSE IF v < goal - 2 THEN y ELSE Zero
    BY <1>13, ExecCommitsStep
  <2>3. \A v \in 0 .. goal - 1 : v \in Pages /\ v < goal
    BY <2>1, Sizes DEF Pages
  <2>4. Content' = [v \in 0 .. goal - 1 |->
                      IF v = goal - 1 THEN x ELSE IF v < goal - 2 THEN y ELSE Zero]
    <3>1. Content' = [v \in 0 .. goal - 1 |-> View(v)']
      BY <1>5, <2>1, Zenon
    <3> QED
      BY <2>2, <2>3, <3>1
  <2> QED
    BY <1>2, <2>1, <2>4 DEF ContentStep
<1>14. ASSUME NEW x \in Contents, execLoads(x)
       PROVE  IInv' /\ InOrder(Ring, Ring') /\ ContentStep
  BY <1>2, <1>3, <1>14, ExecLoadsStep
<1>15. ASSUME allocuvmWithRoom PROVE IInv' /\ InOrder(Ring, Ring') /\ ContentStep
  BY <1>3, <1>15, AllocStep
<1>16. ASSUME swap_out PROVE IInv' /\ InOrder(Ring, Ring') /\ ContentStep
  BY <1>3, <1>16, SwapOutStep
<1>17. ASSUME deallocuvm PROVE IInv' /\ InOrder(Ring, Ring') /\ ContentStep
  BY <1>3, <1>17, DeallocStep
<1>18. ASSUME growprocShrunk PROVE IInv' /\ InOrder(Ring, Ring') /\ ContentStep
  BY <1>2, <1>3, <1>18, GrowprocShrunkStep
<1>19. ASSUME freevm PROVE IInv' /\ InOrder(Ring, Ring') /\ ContentStep
  BY <1>2, <1>3, <1>19, FreevmStep
<1>20. ASSUME execBad PROVE IInv' /\ InOrder(Ring, Ring') /\ ContentStep
  BY <1>2, <1>3, <1>20, ExecBadStep
<1>21. ~ fork
  BY ForkNever
<1> QED
  BY <1>6, <1>7, <1>8, <1>9, <1>10, <1>11, <1>12, <1>13, <1>14, <1>15, <1>16, <1>17,
     <1>18, <1>19, <1>20, <1>21, <1>22, Zenon DEF Next

\* The invariant holds as long as the process makes the calls it allows.
LEMMA InvHolds ==
    ASSUME ResidentCalls
    PROVE  Spec => []IInv
<1>1. IInv /\ UNCHANGED vars => IInv'
  <2> SUFFICES ASSUME IInv, UNCHANGED vars PROVE IInv'
    OBVIOUS
  <2>1. /\ Quiet /\ pgdir' = pgdir /\ pte' = pte /\ mem' = mem /\ sz' = sz /\ pc' = pc
        /\ at' = at /\ goal' = goal /\ page_mem_count' = page_mem_count
    BY DEF vars, Quiet, queueVars
  <2>2. /\ Out' = Out /\ other' = other /\ RingInv' /\ FileInv'
        /\ \A v \in Pages : Mapped(v)' <=> Mapped(v)
    BY <2>1, QuietFacts
  <2>3. \A v : View(v)' = View(v)
    BY <2>1, QuietViews
  <2>4. BaseInv'
    BY <2>1 DEF IInv, BaseInv
  <2>5. TableInv'
    BY <2>1, <2>2, <2>3 DEF IInv, TableInv
  <2>6. OtherInv'
    BY <2>1, <2>2 DEF IInv, OtherInv
  <2> QED
    BY <2>2, <2>4, <2>5, <2>6 DEF IInv
<1>2. IInv /\ [Next]_vars => IInv'
  BY <1>1, StepInv
<1> QED
  BY <1>2, InitInv, PTL DEF Spec

\* The ring from its head on is what the program's present pages are, once the
\* other page table is empty.
LEMMA ConsistentIf ==
    ASSUME IInv
    PROVE  PagerConsistent
<1>1. TypeOK /\ OnlyKernelFaultPanics
  BY IInvTypes
<1>2. Holds(Ring, pte) /\ pgdir \in Dirs
  BY DEF IInv, RingInv, BaseInv
<1>3. ASSUME pc = "user" PROVE \A e \in Dirs, v \in Pages : e # pgdir => pte[e][v] # "P"
  BY <1>3, Others DEF IInv, BaseInv, OtherInv
<1>4. CountsExact
  <2> SUFFICES ASSUME pc = "user"
               PROVE  /\ page_mem_count = Cardinality({v \in Pages : pte[pgdir][v] = "P"})
                      /\ paged_out_count = Cardinality({v \in Pages : pte[pgdir][v] = "PG"})
    BY DEF CountsExact
  <2>1. Ring.count = Cardinality({v \in Pages : pte[pgdir][v] = "P"})
    BY <1>2, <1>3, CountExact
  <2>2. File.out = Cardinality(Out)
    BY DEF IInv, FileInv, FileOk
  <2> QED
    BY <2>1, <2>2, Fields DEF Out
<1>5. RingHoldsResident
  <2> SUFFICES ASSUME pc = "user"
               PROVE  {v \in Pages : pte[pgdir][v] = "P"} =
                         {ram_manager[(fifoIndexStart + k) % MAX_PSYC_PAGES].vAddr :
                             k \in 0 .. page_mem_count - 1}
    BY DEF RingHoldsResident
  <2>1. \A k : ram_manager[(fifoIndexStart + k) % MAX_PSYC_PAGES] = Cell(Ring, k)
    BY Fields, Zenon DEF Cell, Pos
  <2> DEFINE Addr(k) == ram_manager[(fifoIndexStart + k) % MAX_PSYC_PAGES].vAddr
  <2>2. ASSUME NEW v \in Pages, pte[pgdir][v] = "P"
        PROVE  \E k \in 0 .. page_mem_count - 1 : Cell(Ring, k).vAddr = v
    <3>1. PICK k \in 0 .. Ring.count - 1 : Cell(Ring, k) = Entry(pgdir, v)
      BY <1>2, <2>2 DEF Holds
    <3> QED
      BY <1>2, <3>1, EntryFacts, Fields
  <2>3. ASSUME NEW k \in 0 .. page_mem_count - 1
        PROVE  Cell(Ring, k).vAddr \in {v \in Pages : pte[pgdir][v] = "P"}
    <3>1. PICK e \in Dirs, v \in Pages : Cell(Ring, k) = Entry(e, v)
      BY <1>2, Fields DEF Holds
    <3>2. pte[e][v] = "P"
      BY <1>2, <3>1, Fields DEF Holds
    <3>3. e = pgdir /\ Cell(Ring, k).vAddr = v
      BY <1>3, <3>1, <3>2, EntryFacts
    <3> QED
      BY <3>2, <3>3
  <2>4. \A k : Addr(k) = Cell(Ring, k).vAddr
    BY <2>1, Zenon
  <2>5. SUFFICES {v \in Pages : pte[pgdir][v] = "P"} = {Addr(k) : k \in 0 .. page_mem_count - 1}
    OBVIOUS
  <2> HIDE DEF Addr
  <2> QED
    BY <2>2, <2>3, <2>4
<1> QED
  BY <1>1, <1>4, <1>5 DEF PagerConsistent

\* Page table, counters, ring and slots never drift apart, whatever is paged
\* out and in, and no path of the pager panics (vm.c swap_out, swap_in and
\* deallocuvm, fs.c page_out and page_in), for every number of pages in RAM and
\* in the file and every width of the counters that holds them.  The kernel does
\* panic when a system call touches a page that is paged out (trap.c 85), and
\* the page is then always one that the swap file holds.
THEOREM PagerIsConsistent ==
    ASSUME ResidentCalls
    PROVE  Spec => []PagerConsistent
<1>1. IInv => PagerConsistent
  BY ConsistentIf
<1> QED
  BY <1>1, InvHolds, PTL

\* A ring in order, in the words of FifoOrder.
LEMMA FifoIf ==
    ASSUME IInv, IInv', InOrder(Ring, Ring')
    PROVE  \A j \in DOMAIN Queue' : \A i \in 1 .. j - 1 :
              Queue'[j] \in {Queue[k] : k \in DOMAIN Queue} =>
                 /\ Queue'[i] \in {Queue[k] : k \in DOMAIN Queue}
                 /\ Place(Queue, Queue'[i]) < Place(Queue, Queue'[j])
<1> DEFINE n == page_mem_count  m == page_mem_count'
<1>1. /\ n \in Nat /\ fifoIndexStart \in Int
      /\ \A i, j \in 0 .. n - 1 : Cell(Ring, i) = Cell(Ring, j) => i = j
  <2>1. TypeOK /\ Holds(Ring, pte)
    BY IInvTypes DEF IInv, RingInv
  <2>2. n \in Nat /\ fifoIndexStart \in Int
    BY <2>1, Sizes DEF TypeOK, RamIndex
  <2> QED
    BY <2>1, <2>2, Fields DEF Holds
<1>2. m \in Nat /\ fifoIndexStart' \in Int
  <2>1. Holds(Ring', pte')
    BY DEF IInv, RingInv
  <2>2. Ring'.count \in Nat /\ Ring'.start \in RamIndex
    BY <2>1, CountIs DEF Holds
  <2>3. Ring'.count = m /\ Ring'.start = fifoIndexStart'
    BY DEF Ring
  <2> QED
    BY <2>2, <2>3, Sizes DEF RamIndex
<1>3. DOMAIN Queue = 1 .. n /\ \A k \in 1 .. n : Queue[k] = Cell(Ring, k - 1)
  <2>1. \A k \in 1 .. n : fifoIndexStart + k - 1 = fifoIndexStart + (k - 1)
    BY <1>1
  <2>2. \A k : Cell(Ring, k) = ram_manager[(fifoIndexStart + k) % MAX_PSYC_PAGES]
    BY Fields, Zenon DEF Cell, Pos
  <2>3. \A k \in 1 .. n : Queue[k] = ram_manager[(fifoIndexStart + k - 1) % MAX_PSYC_PAGES]
    BY DEF Queue
  <2> QED
    BY <2>1, <2>2, <2>3 DEF Queue
<1>4. DOMAIN Queue' = 1 .. m /\ \A k \in 1 .. m : Queue'[k] = Cell(Ring', k - 1)
  <2>1. \A k \in 1 .. m : fifoIndexStart' + k - 1 = fifoIndexStart' + (k - 1)
    BY <1>2
  <2>2. \A k : Cell(Ring', k) = ram_manager'[(fifoIndexStart' + k) % MAX_PSYC_PAGES]
    <3>1. Ring'.ram = ram_manager' /\ Ring'.start = fifoIndexStart'
      BY DEF Ring
    <3> QED
      BY <3>1, Zenon DEF Cell, Pos
  <2>3. \A k \in 1 .. m : Queue'[k] = ram_manager'[(fifoIndexStart' + k - 1) % MAX_PSYC_PAGES]
    BY DEF Queue
  <2> QED
    BY <2>1, <2>2, <2>3 DEF Queue
<1>5. ASSUME NEW k \in 0 .. n - 1
      PROVE  /\ Place(Queue, Cell(Ring, k)) = k + 1
             /\ Cell(Ring, k) \in {Queue[l] : l \in DOMAIN Queue}
  <2>1. k + 1 \in 1 .. n /\ Queue[k + 1] = Cell(Ring, k)
    <3>1. k + 1 \in 1 .. n /\ (k + 1) - 1 = k
      BY <1>1
    <3> QED
      BY <1>3, <3>1
  <2>2. ASSUME NEW l \in 1 .. n, Queue[l] = Cell(Ring, k) PROVE l = k + 1
    <3>1. l - 1 \in 0 .. n - 1 /\ Cell(Ring, l - 1) = Cell(Ring, k)
      BY <1>1, <1>3, <2>2
    <3>2. l - 1 = k
      BY <1>1, <3>1
    <3> QED
      BY <1>1, <3>2
  <2>3. PICK p : p = Place(Queue, Cell(Ring, k))
    OBVIOUS
  <2>4. p \in 1 .. n /\ Queue[p] = Cell(Ring, k)
    BY <1>3, <2>1, <2>3, Zenon DEF Place
  <2>5. p = k + 1
    BY <2>2, <2>4
  <2> QED
    BY <1>3, <2>1, <2>3, <2>5
<1> HIDE DEF n, m
<1>6. ASSUME NEW j \in 1 .. m, NEW i \in 1 .. j - 1,
             NEW l \in 1 .. n, Queue'[j] = Queue[l]
      PROVE  /\ Queue'[i] \in {Queue[k] : k \in DOMAIN Queue}
             /\ Place(Queue, Queue'[i]) < Place(Queue, Queue'[j])
  <2>1. /\ j - 1 \in 0 .. m - 1 /\ i - 1 \in 0 .. (j - 1) - 1 /\ l - 1 \in 0 .. n - 1
        /\ i \in 1 .. m
    BY <1>1, <1>2
  <2>2. Ring'.count = m /\ Ring.count = n
    BY DEF Ring, n, m
  <2>3. Cell(Ring', j - 1) = Cell(Ring, l - 1)
    BY <1>3, <1>4, <1>6
  <2>4. PICK k1, k2 \in 0 .. n - 1 :
           /\ k1 < k2 /\ Cell(Ring', i - 1) = Cell(Ring, k1)
           /\ Cell(Ring', j - 1) = Cell(Ring, k2)
    BY <2>1, <2>2, <2>3 DEF InOrder
  <2>5. Queue'[i] = Cell(Ring, k1) /\ Queue'[j] = Cell(Ring, k2)
    BY <1>4, <2>1, <2>4
  <2>6. /\ Place(Queue, Queue'[i]) = k1 + 1 /\ Place(Queue, Queue'[j]) = k2 + 1
        /\ Queue'[i] \in {Queue[k] : k \in DOMAIN Queue}
    BY <1>5, <2>5
  <2>7. k1 + 1 < k2 + 1
    BY <1>1, <2>4
  <2> QED
    BY <2>6, <2>7
<1> QED
  BY <1>3, <1>4, <1>6

\* The pager evicts first in, first out, on a ring of any size, around its end
\* and after removals from its middle (vm.c shiftFIFOIndex, deletePageFromRAM
\* and organizeFIFORAMqueue).
THEOREM PagerFifoOrder ==
    ASSUME ResidentCalls
    PROVE  Spec => FifoOrder
<1> DEFINE Ordered == \A j \in DOMAIN Queue' : \A i \in 1 .. j - 1 :
              Queue'[j] \in {Queue[k] : k \in DOMAIN Queue} =>
                 /\ Queue'[i] \in {Queue[k] : k \in DOMAIN Queue}
                 /\ Place(Queue, Queue'[i]) < Place(Queue, Queue'[j])
<1>1. IInv /\ IInv' /\ [Next]_vars => [Ordered]_vars
  <2> SUFFICES ASSUME IInv, IInv', Next PROVE Ordered
    OBVIOUS
  <2>1. InOrder(Ring, Ring')
    BY StepInv
  <2> QED
    BY <2>1, FifoIf
<1>2. Spec => [][Ordered]_vars
  BY <1>1, InvHolds, PTL DEF Spec
<1> QED
  BY <1>2 DEF FifoOrder

\* Paging is invisible to the program: what it finds in its pages is a memory
\* that only stores, growth, shrinking and exec change (AddressSpace), wherever
\* swap_out, swap_in, page_out and page_in have put the pages.
THEOREM PagerIsTransparent ==
    ASSUME ResidentCalls
    PROVE  Spec => Transparent
<1> DEFINE content == [v \in 0 .. sz - 1 |->
                          IF pte[pgdir][v] = "P" THEN mem[pgdir][v]
                          ELSE page_inData(File, v, Zero)]
<1>1. Init => Memory!Init
  <2> SUFFICES ASSUME Init PROVE Memory!Init
    OBVIOUS
  <2>1. IInv
    BY InitInv
  <2>2. Content \in [0 .. sz - 1 -> Contents] /\ sz \in 0 .. MAX_TOTAL_PAGES
    BY <2>1, ContentFacts, Sizes DEF Content
  <2>3. Content \in UNION {[0 .. n - 1 -> Contents] : n \in 0 .. MAX_TOTAL_PAGES}
    BY <2>2
  <2> QED
    BY <2>3, Zenon DEF Memory!Init, Memory!Spaces, Content, View
<1>2. ContentStep => [Memory!Next]_content
  BY Zenon DEF ContentStep, Memory!Next, Memory!Store, Memory!Grow, Memory!Shrink,
     Memory!Exec, Content, View
<1>3. UNCHANGED vars => UNCHANGED content
  <2> SUFFICES ASSUME UNCHANGED vars PROVE UNCHANGED content
    OBVIOUS
  <2>1. /\ pgdir' = pgdir /\ pte' = pte /\ mem' = mem /\ sz' = sz /\ File' = File
    BY DEF vars, fileVars, File
  <2> QED
    BY <2>1, Zenon
<1>4. IInv /\ [Next]_vars => [Memory!Next]_content
  BY <1>2, <1>3, StepInv
<1> QED
  BY <1>1, <1>4, InvHolds, PTL DEF Spec, Transparent, Memory!Spec

=============================================================================
