-------------------------------- MODULE Paging --------------------------------
(***************************************************************************)
(* Demand paging of one user process of xv6: vm.c's allocuvm, deallocuvm,  *)
(* swap_out and swap_in with the FIFO ring ram_manager, fs.c's page_in and *)
(* page_out with the slots of file_manager, and the callers growproc, exec *)
(* and fork.  Addresses are page numbers.  Loops over pages take one step  *)
(* per page; nothing else touches the state of a process meanwhile.        *)
(*                                                                         *)
(* fork is followed into the child, whose paging state is the new one.     *)
(***************************************************************************)
EXTENDS Integers, Sequences, FiniteSets

CONSTANTS
    MAX_PSYC_PAGES, MAX_TOTAL_PAGES,
    UINT,           \* 2^32, the modulus of the counters
    InitPages,      \* pages of the image the process starts with
    CodePages,      \* those with its code
    Contents, Zero, \* contents of a page
    Calls           \* the calls the program makes besides growing; the
                    \* Resident ones only while no page is in the swap file,
                    \* shrinkTop only while none of those it gives up is

MAX_FILE_PAGES == MAX_TOTAL_PAGES - MAX_PSYC_PAGES

ASSUME PagesAssumption ==
    /\ MAX_PSYC_PAGES \in Nat \ {0}
    /\ MAX_TOTAL_PAGES \in Nat /\ MAX_TOTAL_PAGES > MAX_PSYC_PAGES
    /\ UINT \in Nat /\ UINT > 2 * MAX_TOTAL_PAGES
ASSUME InitPagesAssumption == InitPages \in 1 .. MAX_PSYC_PAGES
ASSUME CodePagesAssumption == CodePages \subseteq 0 .. InitPages - 1
ASSUME ZeroAssumption == Zero \in Contents
ASSUME CallsAssumption ==
    Calls \subseteq {"shrink", "shrinkResident", "shrinkTop",
                     "exec", "execResident", "fork", "forkResident"}

VARIABLES
    pgdir,          \* p->pgdir, one of two page tables (exec builds another)
    pte,            \* page tables: "none", "P" (present) or "PG" (paged out)
    mem,            \* contents of the frame a present page maps to
    sz,             \* p->sz in pages
    ram_manager, file_manager,
    page_mem_count, paged_out_count,
    fifoIndexStart, fifoIndexNext,
    swapFile,       \* the contents of the slots that the file is long enough for
    pc,             \* "user", a loop of the kernel, "panic", or "trap", the
                    \* panic of trap()
    at,             \* the page that loop has reached
    goal            \* and the one it stops at

queueVars == <<ram_manager, page_mem_count, fifoIndexStart, fifoIndexNext>>
fileVars == <<file_manager, paged_out_count, swapFile>>
vars == <<pgdir, pte, mem, sz, queueVars, fileVars, pc, at, goal>>

Dirs == {0, 1}
Pages == 0 .. MAX_TOTAL_PAGES - 1
RamIndex == 0 .. MAX_PSYC_PAGES - 1
FileIndex == 0 .. MAX_FILE_PAGES - 1
page_t == [state : {"USED", "NOT_USED"}, pgdir : Dirs, vAddr : Pages]
other == 1 - pgdir

SmallestOf(S) == CHOOSE i \in S : \A j \in S : i <= j

-----------------------------------------------------------------------------
(* The ring, as a record of the four fields of struct proc that make it. *)

Ring == [ram |-> ram_manager, count |-> page_mem_count,
         start |-> fifoIndexStart, next |-> fifoIndexNext]
SetRing(r) ==
    /\ ram_manager' = r.ram
    /\ page_mem_count' = r.count
    /\ fifoIndexStart' = r.start
    /\ fifoIndexNext' = r.next

isFIFOfull(r) == r.count = MAX_PSYC_PAGES
Entry(d, v) == [state |-> "USED", pgdir |-> d, vAddr |-> v]
updateFIFONextFreePageIndex(r) ==
    [r EXCEPT !.next = ((r.start + r.count) % UINT) % MAX_PSYC_PAGES]

insertPageToRAM(r, d, v) ==
    updateFIFONextFreePageIndex(
        [r EXCEPT !.ram[r.next] = Entry(d, v), !.count = (@ + 1) % UINT])

\* The loop of organizeFIFORAMqueue, after entry from became NOT_USED: the
\* entries behind it, up to fifoIndexNext, move down by one.
Organized(r, from, turns) ==
    LET move[k \in 0 .. turns] ==
            IF k = 0 THEN [ram |-> r.ram, i |-> from]
            ELSE LET s == move[k - 1]
                     n == (from + k) % MAX_PSYC_PAGES
                     hole == s.ram[s.i].state = "NOT_USED"
                     next == s.ram[n].state = "USED"
                 IN  [ram |-> IF hole /\ next
                              THEN [s.ram EXCEPT ![s.i] = s.ram[n],
                                                 ![n].state = "NOT_USED"]
                              ELSE s.ram,
                      i |-> IF hole /\ ~next THEN s.i ELSE n]
    IN  [r EXCEPT !.ram = move[turns].ram]

organizeShort(r, from) ==
    Organized(r, from, (r.next - from - 1) % MAX_PSYC_PAGES \div 2)
organizeFIFORAMqueue(r, from) ==
    Organized(r, from, (r.next - from - 1) % MAX_PSYC_PAGES)

\* deletePageFromRAM, without and with its reform argument.
deleteKeepingOrder(r, i) ==
    [r EXCEPT !.ram[i].state = "NOT_USED", !.count = (@ - 1) % UINT]
deleteAndReform(r, i) ==
    updateFIFONextFreePageIndex(
        organizeFIFORAMqueue(deleteKeepingOrder(r, i), i))

RamEntries(r, d, v) == {i \in RamIndex : r.ram[i] = Entry(d, v)}
removePageFromRAM(r, d, v) ==
    IF RamEntries(r, d, v) = {} THEN r
    ELSE deleteAndReform(r, SmallestOf(RamEntries(r, d, v)))

shiftFIFOIndex(r) ==
    [r EXCEPT !.start = (@ + 1) % MAX_PSYC_PAGES,
              !.next = (@ + 1) % MAX_PSYC_PAGES]

-----------------------------------------------------------------------------
(* The swap file: slot i of it is swapFile[i + 1]. *)

File == [slot |-> file_manager, out |-> paged_out_count, data |-> swapFile]
SetFile(f) ==
    /\ file_manager' = f.slot
    /\ paged_out_count' = f.out
    /\ swapFile' = f.data

\* nextFreePageIndexInFile; no slot is its -1.
FreeSlots(f) == {i \in FileIndex : f.slot[i].state = "NOT_USED"}

\* writei refuses to leave a hole in the file.
Written(data, i, x) ==
    IF i = Len(data) THEN Append(data, x) ELSE [data EXCEPT ![i + 1] = x]

\* page_out of page v, whose contents are x.  When no slot is free or the
\* write fails it returns -1 with nothing saved, which no caller looks at.
page_out(f, d, v, x) ==
    IF FreeSlots(f) = {} THEN f
    ELSE LET i == SmallestOf(FreeSlots(f))
         IN  IF i > Len(f.data) THEN f
             ELSE [slot |-> [f.slot EXCEPT ![i] = Entry(d, v)],
                   out |-> (f.out + 1) % UINT,
                   data |-> Written(f.data, i, x)]

\* The slot page_in takes for page v: the first one with its address.
SlotsFor(f, v) == {i \in FileIndex : f.slot[i].vAddr = v}
page_inFinds(f, v) ==
    SlotsFor(f, v) # {} /\ SmallestOf(SlotsFor(f, v)) <= Len(f.data)
page_inSlot(f, v) == SmallestOf(SlotsFor(f, v))

\* What page_in leaves in the destination that held x: nothing is read from a
\* slot at the end of the file.
page_inData(f, v, x) ==
    IF page_inFinds(f, v) /\ page_inSlot(f, v) < Len(f.data)
    THEN f.data[page_inSlot(f, v) + 1] ELSE x
page_inRing(r, f, i, v) ==
    IF page_inFinds(f, v)
    THEN [r EXCEPT !.ram[i] = f.slot[page_inSlot(f, v)]] ELSE r
page_inKeepsSlot(f, v) ==
    IF page_inFinds(f, v) THEN [f EXCEPT !.out = (@ - 1) % UINT] ELSE f
page_in(f, v) ==
    IF page_inFinds(f, v)
    THEN [f EXCEPT !.slot[page_inSlot(f, v)].state = "NOT_USED",
                   !.out = (@ - 1) % UINT]
    ELSE f

-----------------------------------------------------------------------------
NoPages == [v \in Pages |-> "none"]
Image(n) == [v \in Pages |-> IF v < n THEN "P" ELSE "none"]

\* A process of the shell that has just executed a small program.  A free slot of
\* file_manager has address 0, or removeProcFiles' 0xffffffff; the model lets it
\* be any page, so that nothing depends on it.
Init ==
    /\ pgdir = 0
    /\ pte = [d \in Dirs |-> IF d = 0 THEN Image(InitPages) ELSE NoPages]
    /\ mem = [d \in Dirs |-> [v \in Pages |-> Zero]]
    /\ sz = InitPages
    /\ ram_manager = [i \in RamIndex |->
         IF i < InitPages THEN Entry(0, i)
         ELSE [state |-> "NOT_USED", pgdir |-> 0, vAddr |-> 0]]
    /\ file_manager \in [FileIndex ->
         {[state |-> "NOT_USED", pgdir |-> 0, vAddr |-> v] : v \in Pages}]
    /\ page_mem_count = InitPages
    /\ paged_out_count = 0
    /\ fifoIndexStart = 0
    /\ fifoIndexNext = InitPages % MAX_PSYC_PAGES
    /\ swapFile = <<>>
    /\ pc = "user"
    /\ at = 0
    /\ goal = 0

Call(loop, from, to) == pc' = loop /\ at' = from /\ goal' = to
Return == pc' = "user" /\ at' = 0 /\ goal' = 0
PanicUnless(ok) == pc' = IF ok THEN pc ELSE "panic"
Space == <<pgdir, sz>>

\* The program runs from a page of code that is present.
Running == pc = "user" /\ \E v \in CodePages : pte[pgdir][v] = "P"

\* A user instruction, or a system call with a buffer, stores x in a present
\* page.
store(v, x) ==
    /\ Running /\ v < sz /\ pte[pgdir][v] = "P"
    /\ mem' = [mem EXCEPT ![pgdir][v] = x]
    /\ UNCHANGED <<Space, pte, queueVars, fileVars, pc, at, goal>>

\* A system call reads or writes a buffer in a page that is not present: argptr
\* checks only that it lies below p->sz, and trap() pages in for user mode only.
kernelFault(v) ==
    /\ Running /\ v < sz /\ pte[pgdir][v] # "P"
    /\ pc' = "trap"
    /\ UNCHANGED <<Space, pte, mem, queueVars, fileVars, at, goal>>

-----------------------------------------------------------------------------
(* allocuvm: growproc fills the current page table, exec a new one. *)

growproc(n) ==
    /\ Running /\ sz + n <= MAX_TOTAL_PAGES
    /\ Call("grow", sz, sz + n)
    /\ UNCHANGED <<Space, pte, mem, queueVars, fileVars>>

Allocating == pc \in {"grow", "execText", "execStack"} /\ at < goal
Into == IF pc = "grow" THEN pgdir ELSE other
Map(t) == [t EXCEPT ![Into][at] = "P"]
FillZero == [mem EXCEPT ![Into][at] = Zero]

allocuvmWithRoom ==
    /\ Allocating /\ ~isFIFOfull(Ring)
    /\ pte' = Map(pte)
    /\ mem' = FillZero
    /\ SetRing(insertPageToRAM(Ring, Into, at))
    /\ at' = at + 1
    /\ UNCHANGED <<Space, fileVars, pc, goal>>

\* The page at the head of the ring.  page_out reads it at its address in the
\* page table in use, and the frame of its own page table is freed.
Victim == ram_manager[fifoIndexStart]
VictimReadable ==
    pte[pgdir][Victim.vAddr] = "P" /\ pte[Victim.pgdir][Victim.vAddr] = "P"
VictimData == mem[pgdir][Victim.vAddr]
PagedOut(t) == [t EXCEPT ![Victim.pgdir][Victim.vAddr] = "PG"]

\* swap_out: the head of the ring makes room for the page just mapped.
swap_out ==
    /\ Allocating /\ isFIFOfull(Ring)
    /\ PanicUnless(VictimReadable)
    /\ SetFile(page_out(File, Victim.pgdir, Victim.vAddr, VictimData))
    /\ pte' = PagedOut(Map(pte))
    /\ mem' = FillZero
    /\ SetRing(shiftFIFOIndex(insertPageToRAM(
                 deleteKeepingOrder(Ring, fifoIndexStart), Into, at)))
    /\ at' = at + 1
    /\ UNCHANGED <<Space, goal>>

growprocReturns ==
    /\ pc = "grow" /\ at = goal
    /\ sz' = goal
    /\ Return
    /\ UNCHANGED <<pgdir, pte, mem, queueVars, fileVars>>

-----------------------------------------------------------------------------
(* swap_in, on a page fault at a page that is paged out *)

PagedIn(t, v) == [t EXCEPT ![pgdir][v] = "P"]

swap_inWithRoom(v) ==
    /\ pc = "user" /\ pte[pgdir][v] = "PG"
    /\ ~isFIFOfull(Ring)
    /\ pte' = PagedIn(pte, v)
    /\ mem' = [mem EXCEPT ![pgdir][v] = page_inData(File, v, Zero)]
    /\ SetRing(page_inRing(Ring, File, fifoIndexNext, v))
    /\ SetFile(page_in(File, v))
    /\ UNCHANGED <<Space, pc, at, goal>>

\* When nothing is read, the new page gets whatever the static buffer holds.
swap_inFull(v, x) ==
    /\ pc = "user" /\ pte[pgdir][v] = "PG"
    /\ isFIFOfull(Ring)
    /\ PanicUnless(VictimReadable)
    /\ page_inData(File, v, x) = x
    /\ pte' = PagedOut(PagedIn(pte, v))
    /\ mem' = [mem EXCEPT ![pgdir][v] = x]
    /\ SetFile(page_out(page_in(File, v), Victim.pgdir, Victim.vAddr,
                        VictimData))
    /\ SetRing(shiftFIFOIndex(page_inRing(Ring, File, fifoIndexStart, v)))
    /\ UNCHANGED <<Space, at, goal>>

-----------------------------------------------------------------------------
(* deallocuvm: a shrinking growproc, and freevm of the page table that exec *)
(* gives up. *)

AllResident == \A v \in Pages : pte[pgdir][v] # "PG"
MayCall(any, resident) ==
    /\ Running
    /\ any \in Calls \/ (resident \in Calls /\ AllResident)

\* p->sz is assigned when the loop is over; nobody reads it before.
growprocShrinks(n) ==
    /\ Running
    /\ n \in 1 .. sz - 1
    /\ \/ MayCall("shrink", "shrinkResident")
       \/ /\ "shrinkTop" \in Calls
          /\ \A v \in sz - n .. sz - 1 : pte[pgdir][v] # "PG"
    /\ sz' = sz - n
    /\ Call("shrink", sz - n, sz)
    /\ UNCHANGED <<pgdir, pte, mem, queueVars, fileVars>>

From == IF pc = "shrink" THEN pgdir ELSE other

\* Only a present page is given up; one in the swap file keeps its slot.
deallocuvmKeepsEntry ==
    /\ pc \in {"shrink", "freevm"} /\ at < goal
    /\ pte' = IF pte[From][at] = "P"
              THEN [pte EXCEPT ![From][at] = "none"] ELSE pte
    /\ at' = at + 1
    /\ UNCHANGED <<Space, mem, queueVars, fileVars, pc, goal>>
deallocuvm ==
    /\ pc \in {"shrink", "freevm"} /\ at < goal
    /\ IF pte[From][at] = "P"
       THEN /\ SetRing(removePageFromRAM(Ring, From, at))
            /\ pte' = [pte EXCEPT ![From][at] = "none"]
       ELSE UNCHANGED <<queueVars, pte>>
    /\ at' = at + 1
    /\ UNCHANGED <<Space, mem, fileVars, pc, goal>>

growprocShrunk ==
    /\ pc = "shrink" /\ at = goal
    /\ Return
    /\ UNCHANGED <<Space, pte, mem, queueVars, fileVars>>

-----------------------------------------------------------------------------
(* exec: a program of n pages, the last one its stack and the one before it  *)
(* the guard page.  The old image stays in place until the new one is        *)
(* complete.  The bit that clearpteu takes from the guard page is left out:  *)
(* update_pageIN_pte_flags gives it back the first time the page comes in.   *)

exec(n) ==
    /\ MayCall("exec", "execResident")
    /\ n \in 3 .. MAX_TOTAL_PAGES
    /\ "exec" \in Calls \/ page_mem_count + n <= MAX_PSYC_PAGES
    /\ Call("execText", 0, n - 2)
    /\ UNCHANGED <<Space, pte, mem, queueVars, fileVars>>

\* loaduvm writes through the physical address in the page table entry, which
\* is 0 once a page has been paged out.
Loaded(x) ==
    [mem EXCEPT ![other] =
        [v \in Pages |-> IF v < goal /\ pte[other][v] = "P" THEN x ELSE @[v]]]

execLoads(x) ==
    /\ pc = "execText" /\ at = goal
    /\ mem' = Loaded(x)
    /\ Call("execStack", goal, goal + 2)
    /\ UNCHANGED <<Space, pte, queueVars, fileVars>>

\* The arguments are copied to the stack and the new image takes over.
execCommitsLow(x) ==
    /\ pc = "execStack" /\ at = goal
    /\ mem' = [mem EXCEPT ![other][goal - 2] = x]
    /\ pgdir' = other
    /\ sz' = goal
    /\ Call("freevm", 0, MAX_TOTAL_PAGES)
    /\ UNCHANGED <<pte, queueVars, fileVars>>
execCommits(x) ==
    /\ pc = "execStack" /\ at = goal
    /\ mem' = [mem EXCEPT ![other][goal - 1] = x]
    /\ pgdir' = other
    /\ sz' = goal
    /\ Call("freevm", 0, MAX_TOTAL_PAGES)
    /\ UNCHANGED <<pte, queueVars, fileVars>>

\* bad: the new image is given up.
execBad ==
    /\ pc \in {"execText", "execStack"} /\ at = goal
    /\ Call("freevm", 0, MAX_TOTAL_PAGES)
    /\ UNCHANGED <<Space, pte, mem, queueVars, fileVars>>

freevm ==
    /\ pc = "freevm" /\ at = goal
    /\ pte' = [pte EXCEPT ![other] = NoPages]
    /\ Return
    /\ UNCHANGED <<Space, mem, queueVars, fileVars>>

-----------------------------------------------------------------------------
(* fork *)

\* copyuvm marks the child's entry of a page that is paged out, in a page
\* table it has only if a page before it was copied; clone_file cannot write
\* a slot with a hole before it.
Copyable == pte[pgdir][0] = "P"
Clonable ==
    \A i, j \in FileIndex :
        i < j /\ file_manager[j].state = "USED" => file_manager[i].state = "USED"
ChildFile ==
    SelectSeq([k \in 1 .. Len(swapFile) |-> <<k - 1, swapFile[k]>>],
              LAMBDA t : file_manager[t[1]].state = "USED")

\* The counters and indices of the child are those allocproc starts it with.
fork ==
    /\ MayCall("fork", "forkResident")
    /\ PanicUnless(Copyable /\ Clonable)
    /\ page_mem_count' = 0
    /\ paged_out_count' = 0
    /\ fifoIndexStart' = 0
    /\ fifoIndexNext' = 0
    /\ swapFile' = [k \in 1 .. Len(ChildFile) |-> ChildFile[k][2]]
    /\ UNCHANGED <<Space, pte, mem, ram_manager, file_manager, at, goal>>

-----------------------------------------------------------------------------
Next ==
    \/ \E v \in Pages, x \in Contents : store(v, x) \/ swap_inFull(v, x)
    \/ \E v \in Pages : swap_inWithRoom(v) \/ kernelFault(v)
    \/ \E n \in 1 .. MAX_TOTAL_PAGES :
          growproc(n) \/ growprocShrinks(n) \/ exec(n)
    \/ allocuvmWithRoom \/ swap_out \/ growprocReturns
    \/ deallocuvm \/ growprocShrunk \/ freevm
    \/ \E x \in Contents : execLoads(x) \/ execCommits(x)
    \/ execBad
    \/ fork

Spec == Init /\ [][Next]_vars

-----------------------------------------------------------------------------
TypeOK ==
    /\ pgdir \in Dirs
    /\ pte \in [Dirs -> [Pages -> {"none", "P", "PG"}]]
    /\ mem \in [Dirs -> [Pages -> Contents]]
    /\ sz \in 1 .. MAX_TOTAL_PAGES
    /\ ram_manager \in [RamIndex -> page_t]
    /\ file_manager \in [FileIndex -> page_t]
    /\ page_mem_count \in 0 .. MAX_PSYC_PAGES
    /\ paged_out_count \in 0 .. MAX_FILE_PAGES
    /\ fifoIndexStart \in RamIndex
    /\ fifoIndexNext \in RamIndex
    /\ swapFile \in Seq(Contents) /\ Len(swapFile) <= MAX_FILE_PAGES
    /\ pc \in {"user", "grow", "shrink", "execText", "execStack", "freevm",
               "trap", "panic"}
    /\ at \in 0 .. MAX_TOTAL_PAGES
    /\ goal \in 0 .. MAX_TOTAL_PAGES

\* Paging is invisible to the program: whatever is moved to the swap file and
\* back, each page holds what was last stored in it (page_in "reads from page
\* in swapfile corresponding to vAddr", fs.c 814).
Memory == INSTANCE AddressSpace WITH
    MaxPages <- MAX_TOTAL_PAGES,
    content <- [v \in 0 .. sz - 1 |->
                    IF pte[pgdir][v] = "P" THEN mem[pgdir][v]
                    ELSE page_inData(File, v, Zero)]
Transparent == Memory!Spec

\* The pager's own code never ends in a panic of the kernel.  trap() does, when
\* a system call touches a page of the process, and then only one whose contents
\* are in the swap file, never one that was lost.
OnlyKernelFaultPanics ==
    /\ pc # "panic"
    /\ pc = "trap" => \E v \in Pages : v < sz /\ pte[pgdir][v] = "PG"

\* page_mem_count is the "count of pages in ram" (proc.h 69) and
\* paged_out_count the "count of pages in swap" (proc.h 70).
CountsExact ==
    pc = "user" =>
        /\ page_mem_count = Cardinality({v \in Pages : pte[pgdir][v] = "P"})
        /\ paged_out_count = Cardinality({v \in Pages : pte[pgdir][v] = "PG"})

\* The pages of the process that are in RAM are the entries of the ring from
\* fifoIndexStart on, so that each of them will get its turn to be paged out.
RingHoldsResident ==
    pc = "user" =>
        {v \in Pages : pte[pgdir][v] = "P"} =
            {ram_manager[(fifoIndexStart + k) % MAX_PSYC_PAGES].vAddr :
                k \in 0 .. page_mem_count - 1}

\* Page table, counters and ring describe the same memory, and no path of the
\* pager ends in a panic; what ends in one is a system call on a paged-out page.
PagerConsistent ==
    TypeOK /\ OnlyKernelFaultPanics /\ CountsExact /\ RingHoldsResident

\* The ring from its head on.
Queue ==
    [k \in 1 .. page_mem_count |->
        ram_manager[(fifoIndexStart + k - 1) % MAX_PSYC_PAGES]]
Place(q, e) == CHOOSE k \in DOMAIN q : q[k] = e

\* The queue is first in, first out: a page that comes into RAM goes behind
\* all that are there, and pages leaving never change the order of the others,
\* around the ring's end and after removals from its middle too.
FifoOrder ==
    [][\A j \in DOMAIN Queue' : \A i \in 1 .. j - 1 :
          Queue'[j] \in {Queue[k] : k \in DOMAIN Queue} =>
             /\ Queue'[i] \in {Queue[k] : k \in DOMAIN Queue}
             /\ Place(Queue, Queue'[i]) < Place(Queue, Queue'[j])]_vars
===============================================================================
