------------------------------ MODULE FileSys ------------------------------
(***************************************************************************)
(* The file system of xv6: blocks, inodes, the inode cache, directories    *)
(* and path names (fs.c), open files (file.c), the system calls on them    *)
(* (sysfile.c) and the image they start from (mkfs.c).                     *)
(*                                                                         *)
(* A step runs from one acquiresleep of an inode to the next, or to the    *)
(* next access to i->ref after a releasesleep.  In between it touches one  *)
(* structure of another lock at most (icache.lock, ftable.lock or a        *)
(* buffer), so no other process can tell where in the step it is.  puts    *)
(* are the inodes a process is about to iput, in order, before it goes on  *)
(* at pc.                                                                  *)
(*                                                                         *)
(* A block is BSIZE cells.  A cell is a pair of a name and a number: a     *)
(* directory entry, a block number of an indirect block, or data.          *)
(***************************************************************************)
EXTENDS Integers, Sequences, FiniteSets, FiniteSetsExt

CONSTANTS
    Procs, First,       \* the processes, and the one that forks the others
    FSSIZE, NINODES,    \* blocks and inodes of the disk
    BSIZE, NDIRECT,     \* cells of a block, direct blocks of an inode
    DIRSIZ,             \* characters of a name
    NINODE, NFILE, NOFILE,
    Image,              \* mkfs: the names of the files it puts in the root
    SwapPath,           \* /.swap<pid> of every process
    Programs,           \* by name: the calls each process may make, with
                        \* arguments, and how many calls and crashes in all
    MaxChunk

None == "none"
ROOTINO == 1
NINDIRECT == BSIZE
MAXFILE == NDIRECT + NINDIRECT
Inums == 1 .. NINODES - 1
Slots == 1 .. NINODE
Files == 1 .. NFILE
Dot == <<".">>
DotDot == <<".", ".">>

ASSUME FirstAssumption == First \in Procs
\* mkfs rounds the root's size up to a block, and past a full one it would
\* leave a hole.
ASSUME ImageAssumption == (2 + Len(Image)) % BSIZE # 0
ASSUME BoundsAssumption ==
    /\ MaxChunk \in Nat \ {0}
    /\ \A n \in DOMAIN Programs :
         {Programs[n].left, Programs[n].crashes} \subseteq Nat

VARIABLES
    fs,         \* the disk, its inode cache and the panic message
    ftable,     \* file.c: the open files
    ofile, swapFile, cwd,   \* of every process
    R,          \* where every process is, and its local variables
    program,    \* the program that runs, and the calls and crashes left to it
    history     \* what the invariants make exceptions for: something was made
                \* in a removed directory ("stray"), a path led out of one by
                \* ".." ("orphan"), a call removed or took the name of a swap
                \* file ("swapName")

vars == <<fs, ftable, ofile, swapFile, cwd, R, program, history>>

Zero == <<<<>>, 0>>
ZeroBlock == [i \in 0 .. BSIZE - 1 |-> Zero]
NoAddrs == [i \in 0 .. NDIRECT |-> 0]
dinode(type, nlink) ==
    [type |-> type, nlink |-> nlink, size |-> 0, addrs |-> NoAddrs]
NoInode == dinode(None, 0)
NoEntry == [inum |-> 0, ref |-> 0, valid |-> FALSE, lock |-> None,
            ip |-> NoInode]
NoFile == [ref |-> 0, type |-> None, ip |-> 0, off |-> 0,
           readable |-> FALSE, writable |-> FALSE]
NoCall == [op |-> None, path |-> <<>>, new |-> <<>>, mode |-> None]
AtRest == [pc |-> "idle", call |-> NoCall, path |-> <<>>, name |-> <<>>,
           par |-> FALSE, ip |-> 0, ip2 |-> 0, ret |-> None, back |-> "idle",
           puts |-> <<>>, checked |-> FALSE, fd |-> 0, left |-> 0,
           child |-> None]

panic(f, why) == [f EXCEPT !.panic = IF @ = None THEN why ELSE @]

-----------------------------------------------------------------------------
(* Blocks and inodes on disk.  These operators take a file system f to the
   one after the call; those that return a value too return both. *)

balloc(f) ==
    LET free == (0 .. FSSIZE - 1) \ f.used
        b == Min(free)
    IN  IF free = {} THEN [f |-> panic(f, "balloc: out of blocks"), b |-> 0]
        ELSE [f |-> [f EXCEPT !.used = @ \cup {b}, !.data[b] = ZeroBlock],
              b |-> b]

\* bfree of all blocks bs of an inode.
bfree(f, bs) ==
    IF bs \subseteq f.used THEN [f EXCEPT !.used = @ \ bs]
    ELSE panic(f, "freeing free block")

iupdate(f, s) == [f EXCEPT !.dinode[f.icache[s].inum] = f.icache[s].ip]

iget(f, inum) ==
    LET hit == {s \in Slots : f.icache[s].ref > 0 /\ f.icache[s].inum = inum}
        empty == {s \in Slots : f.icache[s].ref = 0}
    IN  CASE hit # {} ->
               [f |-> [f EXCEPT !.icache[Min(hit)].ref = @ + 1], s |-> Min(hit)]
          [] hit = {} /\ empty = {} ->
               [f |-> panic(f, "iget: no inodes"), s |-> 0]
          [] OTHER ->
               [f |-> [f EXCEPT !.icache[Min(empty)] =
                         [@ EXCEPT !.inum = inum, !.ref = 1, !.valid = FALSE]],
                s |-> Min(empty)]

idup(f, s) == [f EXCEPT !.icache[s].ref = @ + 1]

ialloc(f, type) ==
    LET free == {i \in Inums : f.dinode[i].type = None}
    IN  IF free = {} THEN [f |-> panic(f, "ialloc: no inodes"), s |-> 0]
        ELSE iget([f EXCEPT !.dinode[Min(free)] = dinode(type, 0)], Min(free))

Unlocked(s) == fs.icache[s].lock = None

\* After acquiresleep, which waits for Unlocked(s).
ilock(f, p, s) ==
    LET e == f.icache[s]
        read == IF e.valid THEN e.ip ELSE f.dinode[e.inum]
        g == [f EXCEPT !.icache[s] =
                [e EXCEPT !.lock = p, !.valid = TRUE, !.ip = read]]
    IN  CASE e.ref < 1 -> panic(g, "ilock")
          [] e.ref >= 1 /\ read.type = None -> panic(g, "ilock: no type")
          [] OTHER -> g

iunlock(f, s) == [f EXCEPT !.icache[s].lock = None]

\* The number of block bn of an inode, which is allocated if it is not there:
\* listed in ip->addrs, or in cell n of the indirect block t.
addrsBlock(f, s, n) ==
    LET keep(a) == [a EXCEPT !.f.icache[s].ip.addrs[n] = a.b]
    IN  IF f.icache[s].ip.addrs[n] # 0
        THEN [f |-> f, b |-> f.icache[s].ip.addrs[n]]
        ELSE keep(balloc(f))
indirectBlock(t, n) ==
    LET keep(a) == [a EXCEPT !.f.data[t.b][n] = <<<<>>, a.b>>]
    IN  IF t.f.data[t.b][n] # Zero THEN [f |-> t.f, b |-> t.f.data[t.b][n][2]]
        ELSE keep(balloc(t.f))
bmap(f, s, bn) ==
    CASE bn < NDIRECT -> addrsBlock(f, s, bn)
      [] bn \in NDIRECT .. MAXFILE - 1 ->
           indirectBlock(addrsBlock(f, s, NDIRECT), bn - NDIRECT)
      [] OTHER -> [f |-> panic(f, "bmap: out of range"), b |-> 0]

\* The blocks an inode ip of f holds, its indirect block included.
Indirect(f, ip) ==
    IF ip.addrs[NDIRECT] = 0 THEN {}
    ELSE {f.data[ip.addrs[NDIRECT]][i][2] : i \in 0 .. BSIZE - 1} \ {0}
Owned(f, ip) == ({ip.addrs[i] : i \in 0 .. NDIRECT} \ {0}) \cup Indirect(f, ip)

Emptied(f, s) ==
    [f EXCEPT !.icache[s].ip.addrs = NoAddrs, !.icache[s].ip.size = 0]
\* As if the blocks of the indirect block were forgotten.
itruncDirect(f, s) ==
    LET bs == {f.icache[s].ip.addrs[i] : i \in 0 .. NDIRECT} \ {0}
    IN  iupdate(Emptied(bfree(f, bs), s), s)
itrunc(f, s) ==
    iupdate(Emptied(bfree(f, Owned(f, f.icache[s].ip)), s), s)

-----------------------------------------------------------------------------
(* Content, directories, names *)

Size(f, s) == f.icache[s].ip.size
IsDir(f, s) == f.icache[s].ip.type = "dir"
IsDev(f, s) == f.icache[s].ip.type = "dev"

\* readi of the cell at an offset below the size, where bmap allocates nothing.
readCell(f, ip, off) ==
    LET bn == off \div BSIZE
        b == IF bn < NDIRECT THEN ip.addrs[bn]
             ELSE f.data[ip.addrs[NDIRECT]][bn - NDIRECT][2]
    IN  f.data[b][off % BSIZE]
cellAt(f, s, off) == readCell(f, f.icache[s].ip, off)

\* writei's last lines.
grow(f, s, n) ==
    IF n > Size(f, s) THEN iupdate([f EXCEPT !.icache[s].ip.size = n], s)
    ELSE f
writei(f, s, off, cells) ==
    LET n == Len(cells)
        store[k \in 0 .. n] ==
            IF k = 0 THEN f
            ELSE LET m == bmap(store[k - 1], s, (off + k - 1) \div BSIZE)
                 IN  [m.f EXCEPT !.data[m.b][(off + k - 1) % BSIZE] = cells[k]]
    IN  CASE IsDev(f, s) -> [f |-> f, r |-> n]          \* devsw[major].write
          [] ~IsDev(f, s) /\ (off > Size(f, s) \/ off + n > MAXFILE * BSIZE) ->
               [f |-> f, r |-> -1]
          [] OTHER -> [f |-> grow(store[n], s, off + n), r |-> n]

\* The offset of the entry called name, or -1.
dirlookup(f, s, name) ==
    LET at == {off \in 0 .. Size(f, s) - 1 :
                 /\ cellAt(f, s, off)[2] # 0
                 /\ cellAt(f, s, off)[1] = name}
    IN  IF at = {} THEN -1 ELSE Min(at)

igetEntry(f, s, off) == iget(f, cellAt(f, s, off)[2])

\* The part of dirlink after its dirlookup found no entry.
dirlink(f, s, name, inum) ==
    LET free == {off \in 0 .. Size(f, s) - 1 : cellAt(f, s, off)[2] = 0}
        off == IF free = {} THEN Size(f, s) ELSE Min(free)
        checked(w) == IF w.r = 1 THEN w.f ELSE panic(f, "dirlink")
    IN  checked(writei(f, s, off, <<<<name, inum>>>>))

isdirempty(f, s) ==
    \A off \in 2 .. Size(f, s) - 1 : cellAt(f, s, off)[2] = 0

skipSlashes(path) ==
    LET k == {i \in 1 .. Len(path) : path[i] # "/"}
    IN  IF k = {} THEN <<>> ELSE SubSeq(path, Min(k), Len(path))

\* The first element, cut to DIRSIZ, and what follows; no name: none is left.
skipelem(path) ==
    LET s == skipSlashes(path)
        slash == {i \in 1 .. Len(s) : s[i] = "/"}
        len == IF slash = {} THEN Len(s) ELSE Min(slash) - 1
    IN  [name |-> SubSeq(s, 1, Min({len, DIRSIZ})),
         rest |-> skipSlashes(SubSeq(s, len + 1, Len(s)))]

-----------------------------------------------------------------------------
(* mkfs: the root with ".", ".." and one file of one cell per name in Image,
   blocks and inodes handed out in order, the root's size rounded up. *)

mkfsBlank ==
    [dinode |-> [i \in Inums |-> NoInode], used |-> {0},
     data |-> [b \in 0 .. FSSIZE - 1 |-> ZeroBlock],
     icache |-> [s \in Slots |-> NoEntry], panic |-> None]

\* iappend of one cell to inode inum, through cache slot 1.
iappend(f, inum, cell) ==
    LET g == [f EXCEPT !.icache[1] = [NoEntry EXCEPT !.inum = inum, !.ref = 1,
                                        !.valid = TRUE, !.ip = f.dinode[inum]]]
        w == writei(g, 1, Size(g, 1), <<cell>>)
    IN  [w.f EXCEPT !.icache[1] = NoEntry]

mkfs ==
    LET root == [mkfsBlank EXCEPT !.dinode[ROOTINO] = dinode("dir", 1)]
        dots == iappend(iappend(root, ROOTINO, <<Dot, ROOTINO>>),
                        ROOTINO, <<DotDot, ROOTINO>>)
        add[n \in 0 .. Len(Image)] ==
            IF n = 0 THEN dots
            ELSE LET i == ROOTINO + n
                     g == [add[n - 1] EXCEPT !.dinode[i] = dinode("file", 1)]
                 IN  iappend(iappend(g, ROOTINO, <<Image[n], i>>),
                             i, <<<<"data">>, i>>)
        f == add[Len(Image)]
    IN  [f EXCEPT !.dinode[ROOTINO].size = ((@ \div BSIZE) + 1) * BSIZE]

\* The machine has booted from disk: userinit has a first process in the root.
boot(f) ==
    /\ LET g == iget([f EXCEPT !.icache = [s \in Slots |-> NoEntry]], ROOTINO)
       IN  /\ fs' = g.f
           /\ cwd' = [p \in Procs |-> IF p = First THEN g.s ELSE 0]
    /\ ftable' = [k \in Files |-> NoFile]
    /\ ofile' = [p \in Procs |-> [fd \in 1 .. NOFILE |-> 0]]
    /\ swapFile' = [p \in Procs |-> 0]
    /\ R' = [p \in Procs |->
               IF p = First THEN AtRest ELSE [AtRest EXCEPT !.pc = None]]

Init ==
    /\ LET g == iget(mkfs, ROOTINO)
       IN  /\ fs = g.f
           /\ cwd = [p \in Procs |-> IF p = First THEN g.s ELSE 0]
    /\ ftable = [k \in Files |-> NoFile]
    /\ ofile = [p \in Procs |-> [fd \in 1 .. NOFILE |-> 0]]
    /\ swapFile = [p \in Procs |-> 0]
    /\ R = [p \in Procs |->
              IF p = First THEN AtRest ELSE [AtRest EXCEPT !.pc = None]]
    /\ history = {}
    /\ \E n \in DOMAIN Programs :
         program = [name |-> n, left |-> Programs[n].left,
                    crashes |-> Programs[n].crashes]

-----------------------------------------------------------------------------
(* Processes.  At(p, l): p is at label l with nothing left to iput. *)

At(p, l) == fs.panic = None /\ R[p].pc = l /\ R[p].puts = <<>>
others == <<ftable, ofile, swapFile, cwd, program, history>>

MayCall == program.left > 0
CountCall == program' = [program EXCEPT !.left = @ - 1]

\* p's file system work makes fs into f and its local variables into r.
Step(p, f, r) == fs' = f /\ R' = [R EXCEPT ![p] = r]

\* The call is over once what is in puts is dropped.
Return(p, f, puts) ==
    Step(p, f, [AtRest EXCEPT !.pc = R[p].back, !.back = R[p].back,
                              !.puts = puts])
\* It failed.  exit and createSwapFile do not survive that.
Fail(p, f, puts) ==
    Return(p, CASE R[p].back = "exit" ->
                     panic(f, "exit: error deleting swap file")
                [] R[p].call.op = "fork" -> panic(f, "iunlock")
                [] OTHER -> f, puts)

\* As if iput did not look at i->ref.
iputFreesShared(s) ==
    LET e == fs.icache[s]
        t == itrunc(fs, s)
    IN  IF e.valid /\ e.ip.nlink = 0
        THEN [iupdate([t EXCEPT !.icache[s].ip.type = None], s)
                EXCEPT !.icache[s].valid = FALSE]
        ELSE fs
\* iput: under the lock, free an inode nobody else refers to ...
iputFrees(s) ==
    LET e == fs.icache[s]
        t == itrunc(fs, s)
    IN  IF e.valid /\ e.ip.nlink = 0 /\ e.ref = 1
        THEN [iupdate([t EXCEPT !.icache[s].ip.type = None], s)
                EXCEPT !.icache[s].valid = FALSE]
        ELSE fs
iputCheck(p) ==
    /\ fs.panic = None /\ R[p].puts # <<>> /\ ~R[p].checked
    /\ Unlocked(Head(R[p].puts))
    /\ Step(p, iputFrees(Head(R[p].puts)), [R[p] EXCEPT !.checked = TRUE])
    /\ UNCHANGED others
\* ... and drop the reference when the lock is released.
iputDrop(p) ==
    /\ fs.panic = None /\ R[p].checked
    /\ Step(p, [fs EXCEPT !.icache[Head(R[p].puts)].ref = @ - 1],
            [R[p] EXCEPT !.checked = FALSE, !.puts = Tail(@)])
    /\ UNCHANGED others

\* A directory that has been removed and is somebody's cwd takes entries still.
Removed(f, s) == f.icache[s].ip.nlink = 0

Notes(what, when) == history' = IF when THEN history \cup {what} ELSE history

\* namex begins: r is to walk path and go on at ret.
startWalk(p, f, r, path, par, ret) ==
    LET g == IF path # <<>> /\ Head(path) = "/" THEN iget(f, ROOTINO)
             ELSE [f |-> idup(f, cwd[p]), s |-> cwd[p]]
    IN  Step(p, g.f, [r EXCEPT !.pc = "walk", !.path = path, !.par = par,
                               !.ret = ret, !.ip = g.s])

\* One round of namex's loop.  The result is ip; 0 is failure.
namex(p) ==
    /\ At(p, "walk")
    /\ LET r == R[p]
           ip == r.ip
           e == skipelem(r.path)
           f == ilock(fs, p, ip)
           off == dirlookup(f, ip, e.name)
           next == igetEntry(f, ip, off)
           found == [r EXCEPT !.pc = r.ret, !.name = e.name, !.path = <<>>]
           failed == [r EXCEPT !.pc = r.ret, !.path = <<>>, !.ip = 0,
                               !.puts = <<ip>>]
       IN  \/ /\ e.name = <<>>
              /\ Step(p, fs, IF r.par THEN failed ELSE found)
              /\ UNCHANGED history
           \/ /\ e.name # <<>> /\ Unlocked(ip)
              /\ CASE IsDir(f, ip) /\ r.par /\ e.rest = <<>> ->
                        Step(p, iunlock(f, ip), found)
                   [] IsDir(f, ip) /\ ~(r.par /\ e.rest = <<>>) /\ off >= 0 ->
                        Step(p, iunlock(next.f, ip),
                             [r EXCEPT !.path = e.rest, !.ip = next.s,
                                       !.puts = <<ip>>])
                   [] OTHER -> Step(p, iunlock(f, ip), failed)
              /\ Notes("orphan", e.name = DotDot /\ Removed(f, ip))
    /\ UNCHANGED <<ftable, ofile, swapFile, cwd, program>>

\* sys_link, sys_unlink, sys_open, sys_mkdir, sys_mknod, sys_chdir, fork's
\* createSwapFile: begin_op, and namei or nameiparent of the path.
Looks == [link |-> "link1", open |-> "open1", chdir |-> "chdir1"]
Makes == [open |-> "file", creat |-> "file", fork |-> "file",
          mkdir |-> "dir", mknod |-> "dev"]
sysPath(p, c) ==
    /\ At(p, "idle") /\ MayCall
    /\ LET r == [R[p] EXCEPT !.call = c, !.back = "idle"]
       IN  CASE c.op \in DOMAIN Looks ->
                  startWalk(p, fs, r, c.path, FALSE, Looks[c.op])
             [] c.op = "unlink" -> startWalk(p, fs, r, c.path, TRUE, "unlink1")
             [] OTHER -> startWalk(p, fs, r, c.path, TRUE, "create1")
    /\ CountCall
    /\ UNCHANGED <<ftable, ofile, swapFile, cwd, history>>

-----------------------------------------------------------------------------
(* sys_link *)

link1(p) ==
    /\ At(p, "link1")
    /\ LET s == R[p].ip
           f == ilock(fs, p, s)
           up == iunlock(iupdate([f EXCEPT !.icache[s].ip.nlink = @ + 1], s), s)
       IN  \/ s = 0 /\ Fail(p, fs, <<>>)
           \/ /\ s # 0 /\ Unlocked(s)
              /\ IF IsDir(f, s) THEN Fail(p, iunlock(f, s), <<s>>)
                 ELSE startWalk(p, up, [R[p] EXCEPT !.ip2 = s],
                                R[p].call.new, TRUE, "link2")
    /\ UNCHANGED others

\* name, in directory dp, is that of a swap file.
AtSwapName(f, dp, name) ==
    /\ f.icache[dp].inum = ROOTINO
    /\ \E q \in Procs : skipelem(SwapPath[q]).name = name

link2(p) ==
    /\ At(p, "link2")
    /\ LET dp == R[p].ip
           ip == R[p].ip2
           f == ilock(fs, p, dp)
           off == dirlookup(f, dp, R[p].name)
           old == igetEntry(f, dp, off)
       IN  \/ /\ dp = 0
              /\ Step(p, fs, [R[p] EXCEPT !.pc = "link4"]) /\ UNCHANGED history
           \/ /\ dp # 0 /\ Unlocked(dp) /\ off >= 0     \* dirlink's iput
              /\ Step(p, old.f, [R[p] EXCEPT !.pc = "link3", !.puts = <<old.s>>])
              /\ UNCHANGED history
           \/ /\ dp # 0 /\ Unlocked(dp) /\ off < 0
              /\ Return(p, iunlock(dirlink(f, dp, R[p].name,
                                           fs.icache[ip].inum), dp),
                        <<dp, ip>>)
              /\ history' = history
                   \cup (IF Removed(f, dp) THEN {"stray"} ELSE {})
                   \cup (IF AtSwapName(f, dp, R[p].name)
                         THEN {"swapName"} ELSE {})
    /\ UNCHANGED <<ftable, ofile, swapFile, cwd, program>>

link3(p) ==
    /\ At(p, "link3")
    /\ Step(p, iunlock(fs, R[p].ip),
            [R[p] EXCEPT !.pc = "link4", !.ip = 0, !.puts = <<R[p].ip>>])
    /\ UNCHANGED others

\* As if a failed link left the count as it is.
link4Keeps(p) ==
    /\ At(p, "link4") /\ Fail(p, fs, <<R[p].ip2>>)
    /\ UNCHANGED others
\* bad: take the link count back.
link4(p) ==
    /\ At(p, "link4")
    /\ LET s == R[p].ip2
           f == ilock(fs, p, s)
       IN  /\ Unlocked(s)
           /\ Fail(p, iunlock(iupdate([f EXCEPT !.icache[s].ip.nlink = @ - 1],
                                      s), s), <<s>>)
    /\ UNCHANGED others

-----------------------------------------------------------------------------
(* sys_unlink, and removeSwapFile after it has closed the file *)

\* ilock(dp), dirlookup; dp stays locked when there is something to unlink.
unlink1(p) ==
    /\ At(p, "unlink1")
    /\ LET dp == R[p].ip
           f == ilock(fs, p, dp)
           off == dirlookup(f, dp, R[p].name)
           ip == igetEntry(f, dp, off)
       IN  \/ dp = 0 /\ Fail(p, fs, <<>>)
           \/ /\ dp # 0 /\ Unlocked(dp)
              /\ IF R[p].name \in {Dot, DotDot} \/ off < 0
                 THEN Fail(p, iunlock(f, dp), <<dp>>)
                 ELSE Step(p, ip.f, [R[p] EXCEPT !.pc = "unlink2",
                                                 !.ip2 = ip.s])
    /\ UNCHANGED others

\* ilock(ip): the entry goes, and with a directory's ".." a link of dp.
unlink2(p) ==
    /\ At(p, "unlink2")
    /\ LET dp == R[p].ip
           ip == R[p].ip2
           f == ilock(fs, p, ip)
           zero == writei(f, dp, dirlookup(f, dp, R[p].name), <<Zero>>).f
           done == IF IsDir(f, ip)
                   THEN iupdate([zero EXCEPT !.icache[dp].ip.nlink = @ - 1], dp)
                   ELSE zero
       IN  /\ Unlocked(ip)
           /\ CASE f.icache[ip].ip.nlink < 1 ->
                     Step(p, panic(f, "unlink: nlink < 1"), R[p])
                [] f.icache[ip].ip.nlink >= 1 /\ IsDir(f, ip)
                     /\ ~isdirempty(f, ip) ->
                     Step(p, iunlock(f, ip),
                          [R[p] EXCEPT !.pc = "unlink4", !.ip2 = 0,
                                       !.puts = <<ip>>])
                [] OTHER ->
                     Step(p, iunlock(done, dp),
                          [R[p] EXCEPT !.pc = "unlink3", !.ip = 0,
                                       !.puts = <<dp>>])
           /\ Notes("swapName", /\ AtSwapName(f, dp, R[p].name)
                                /\ R[p].call.op = "unlink")
    /\ UNCHANGED <<ftable, ofile, swapFile, cwd, program>>

\* ip, still locked, loses its link.
unlink3(p) ==
    /\ At(p, "unlink3")
    /\ LET ip == R[p].ip2
       IN  Return(p, iunlock(iupdate([fs EXCEPT !.icache[ip].ip.nlink = @ - 1],
                                     ip), ip), <<ip>>)
    /\ UNCHANGED others

\* bad, with dp still locked.
unlink4(p) ==
    /\ At(p, "unlink4")
    /\ Fail(p, iunlock(fs, R[p].ip), <<R[p].ip>>)
    /\ UNCHANGED others

-----------------------------------------------------------------------------
(* create, and what sys_open, sys_mkdir, sys_mknod and createSwapFile do
   with the locked inode it returns *)

\* As if iunlockput(dp) were forgotten when the name exists.
create1Holds(p) ==
    /\ At(p, "create1")
    /\ LET dp == R[p].ip
           f == ilock(fs, p, dp)
           off == dirlookup(f, dp, R[p].name)
           old == igetEntry(f, dp, off)
           new == ialloc(f, Makes[R[p].call.op])
       IN  \/ dp = 0 /\ Fail(p, fs, <<>>)
           \/ /\ dp # 0 /\ Unlocked(dp)
              /\ IF off >= 0
                 THEN Step(p, old.f,
                           [R[p] EXCEPT !.pc = "create2", !.ip2 = old.s])
                 ELSE Step(p, new.f,
                           [R[p] EXCEPT !.pc = "create3", !.ip2 = new.s])
    /\ UNCHANGED others
create1(p) ==
    /\ At(p, "create1")
    /\ LET dp == R[p].ip
           f == ilock(fs, p, dp)
           off == dirlookup(f, dp, R[p].name)
           old == igetEntry(f, dp, off)
           new == ialloc(f, Makes[R[p].call.op])
       IN  \/ dp = 0 /\ Fail(p, fs, <<>>)
           \/ /\ dp # 0 /\ Unlocked(dp)
              /\ IF off >= 0
                 THEN Step(p, iunlock(old.f, dp),
                           [R[p] EXCEPT !.pc = "create2", !.ip = 0,
                                        !.ip2 = old.s, !.puts = <<dp>>])
                 ELSE Step(p, new.f,
                           [R[p] EXCEPT !.pc = "create3", !.ip2 = new.s])
    /\ UNCHANGED others

\* The name exists: only a file may be opened so.
create2(p) ==
    /\ At(p, "create2")
    /\ LET ip == R[p].ip2
           f == ilock(fs, p, ip)
       IN  /\ Unlocked(ip)
           /\ IF /\ Makes[R[p].call.op] = "file"
                 /\ f.icache[ip].ip.type = "file"
              THEN Step(p, f, [R[p] EXCEPT !.pc = "created"])
              ELSE Fail(p, iunlock(f, ip), <<ip>>)
    /\ UNCHANGED others

\* A directory's ".." is a link of dp.
dotdotLinks(f, dp) == iupdate([f EXCEPT !.icache[dp].ip.nlink = @ + 1], dp)

\* A new inode: ".", "..", and its entry in dp.
create3(p) ==
    /\ At(p, "create3")
    /\ LET dp == R[p].ip
           ip == R[p].ip2
           f == ilock(fs, p, ip)
           inum == f.icache[ip].inum
           linked == iupdate([f EXCEPT !.icache[ip].ip.nlink = 1], ip)
           dots == dirlink(dirlink(dotdotLinks(linked, dp), ip, Dot, inum),
                           ip, DotDot, f.icache[dp].inum)
           g == IF Makes[R[p].call.op] = "dir" THEN dots ELSE linked
       IN  /\ Unlocked(ip)
           /\ Step(p, iunlock(dirlink(g, dp, R[p].name, inum), dp),
                   [R[p] EXCEPT !.pc = "created", !.ip = 0, !.puts = <<dp>>])
           /\ history' = history
                \cup (IF Removed(fs, dp) THEN {"stray"} ELSE {})
                \cup (IF /\ AtSwapName(f, dp, R[p].name)
                         /\ Makes[R[p].call.op] # "file"
                      THEN {"swapName"} ELSE {})
    /\ UNCHANGED <<ftable, ofile, swapFile, cwd, program>>

\* filealloc and fdalloc.
FreeFiles == {k \in Files : ftable[k].ref = 0}
FreeFds(p) == {fd \in 1 .. NOFILE : ofile[p][fd] = 0}

openInode(p, f, ip, mode) ==
    IF FreeFiles = {} \/ FreeFds(p) = {}
    THEN /\ Fail(p, iunlock(f, ip), <<ip>>)
         /\ UNCHANGED <<ftable, ofile>>
    ELSE /\ Return(p, iunlock(f, ip), <<>>)
         /\ ofile' = [ofile EXCEPT ![p][Min(FreeFds(p))] = Min(FreeFiles)]
         /\ ftable' = [ftable EXCEPT ![Min(FreeFiles)] =
                         [ref |-> 1, type |-> "inode", ip |-> ip, off |-> 0,
                          readable |-> mode # "w", writable |-> mode # "r"]]

created(p) ==
    /\ At(p, "created")
    /\ LET ip == R[p].ip2
           op == R[p].call.op
       IN  \/ /\ op = "creat" /\ openInode(p, fs, ip, "rw")
              /\ UNCHANGED swapFile
           \/ /\ op \in {"mkdir", "mknod"}
              /\ Return(p, iunlock(fs, ip), <<ip>>)
              /\ UNCHANGED <<ftable, ofile, swapFile>>
           \/ /\ op = "fork" /\ FreeFiles = {}
              /\ Step(p, panic(fs, "no slot for files on /store"), R[p])
              /\ UNCHANGED <<ftable, ofile, swapFile>>
           \/ /\ op = "fork" /\ FreeFiles # {}
              /\ Step(p, iunlock(fs, ip),
                      [R[p] EXCEPT !.pc = "forked", !.ip2 = 0])
              /\ swapFile' = [swapFile EXCEPT ![R[p].child] = Min(FreeFiles)]
              /\ ftable' = [ftable EXCEPT ![Min(FreeFiles)] =
                              [ref |-> 1, type |-> "inode", ip |-> ip,
                               off |-> 0, readable |-> TRUE,
                               writable |-> TRUE]]
              /\ UNCHANGED ofile
    /\ UNCHANGED <<cwd, program, history>>

\* sys_open without O_CREATE.
open1(p) ==
    /\ At(p, "open1")
    /\ LET ip == R[p].ip
           f == ilock(fs, p, ip)
       IN  \/ ip = 0 /\ Fail(p, fs, <<>>) /\ UNCHANGED <<ftable, ofile>>
           \/ /\ ip # 0 /\ Unlocked(ip)
              /\ IF IsDir(f, ip) /\ R[p].call.mode # "r"
                 THEN Fail(p, iunlock(f, ip), <<ip>>)
                      /\ UNCHANGED <<ftable, ofile>>
                 ELSE openInode(p, f, ip, R[p].call.mode)
    /\ UNCHANGED <<swapFile, cwd, program, history>>

chdir1(p) ==
    /\ At(p, "chdir1")
    /\ LET ip == R[p].ip
           f == ilock(fs, p, ip)
       IN  \/ ip = 0 /\ Fail(p, fs, <<>>) /\ UNCHANGED cwd
           \/ /\ ip # 0 /\ Unlocked(ip) /\ ~IsDir(f, ip)
              /\ Fail(p, iunlock(f, ip), <<ip>>) /\ UNCHANGED cwd
           \/ /\ ip # 0 /\ Unlocked(ip) /\ IsDir(f, ip)
              /\ Return(p, iunlock(f, ip), <<cwd[p]>>)
              /\ cwd' = [cwd EXCEPT ![p] = ip]
    /\ UNCHANGED <<ftable, ofile, swapFile, program, history>>

-----------------------------------------------------------------------------
(* Open files *)

\* fileclose of file k; r are p's local variables after it.
fileclose(p, k, r) ==
    /\ ftable' = [ftable EXCEPT ![k] =
                    IF @.ref > 1 THEN [@ EXCEPT !.ref = @ - 1] ELSE NoFile]
    /\ Step(p, IF ftable[k].ref < 1 THEN panic(fs, "fileclose") ELSE fs,
            [r EXCEPT !.puts =
               IF ftable[k].ref = 1 THEN <<ftable[k].ip>> ELSE <<>>])

sysClose(p, fd) ==
    /\ At(p, "idle") /\ ofile[p][fd] # 0
    /\ fileclose(p, ofile[p][fd], R[p])
    /\ ofile' = [ofile EXCEPT ![p][fd] = 0]
    /\ UNCHANGED <<swapFile, cwd, program, history>>

sysDup(p, fd) ==
    /\ At(p, "idle") /\ ofile[p][fd] # 0 /\ FreeFds(p) # {} /\ MayCall
    /\ ofile' = [ofile EXCEPT ![p][Min(FreeFds(p))] = ofile[p][fd]]
    /\ ftable' = [ftable EXCEPT ![ofile[p][fd]].ref = @ + 1]
    /\ CountCall
    /\ UNCHANGED <<fs, swapFile, cwd, R, history>>

\* fileread of one cell.
sysRead(p, fd) ==
    /\ At(p, "idle") /\ ofile[p][fd] # 0 /\ MayCall
    /\ LET k == ofile[p][fd]
           s == ftable[k].ip
           f == ilock(fs, p, s)
       IN  /\ ftable[k].readable /\ Unlocked(s)
           /\ IsDev(f, s) \/ ftable[k].off < Size(f, s)
           /\ ftable' = [ftable EXCEPT ![k].off = @ + 1]
           /\ fs' = iunlock(f, s)
    /\ CountCall
    /\ UNCHANGED <<ofile, swapFile, cwd, R, history>>

\* filewrite of n cells, at most MaxChunk of them in a transaction.
sysWrite(p, fd, n) ==
    /\ At(p, "idle") /\ ofile[p][fd] # 0 /\ MayCall
    /\ ftable[ofile[p][fd]].writable
    /\ R' = [R EXCEPT ![p].pc = "write", ![p].fd = fd, ![p].left = n]
    /\ CountCall
    /\ UNCHANGED <<fs, ftable, ofile, swapFile, cwd, history>>

filewrite(p) ==
    /\ At(p, "write")
    /\ LET k == ofile[p][R[p].fd]
           s == ftable[k].ip
           f == ilock(fs, p, s)
           n1 == Min({R[p].left, MaxChunk})
           w == writei(f, s, ftable[k].off,
                       [i \in 1 .. n1 |-> <<<<"data">>, f.icache[s].inum>>])
       IN  /\ Unlocked(s)
           /\ ftable' = [ftable EXCEPT ![k].off = @ + Max({0, w.r})]
           /\ IF w.r < 0 \/ n1 = R[p].left
              THEN Return(p, iunlock(w.f, s), <<>>)
              ELSE Step(p, iunlock(w.f, s), [R[p] EXCEPT !.left = @ - n1])
    /\ UNCHANGED <<ofile, swapFile, cwd, program, history>>

-----------------------------------------------------------------------------
(* fork, exit, crash *)

\* allocproc: the child's swap file first.
forkStarts(p, q) ==
    /\ At(p, "idle") /\ R[q].pc = None
    /\ startWalk(p, fs, [R[p] EXCEPT !.call = [NoCall EXCEPT !.op = "fork"],
                                     !.child = q],
                 SwapPath[q], TRUE, "create1")
    /\ UNCHANGED others

forkCopies(p) ==
    /\ At(p, "forked")
    /\ LET q == R[p].child
       IN  /\ ofile' = [ofile EXCEPT ![q] = ofile[p]]
           /\ ftable' = [k \in Files |->
                [ftable[k] EXCEPT !.ref = @ +
                   Cardinality({fd \in 1 .. NOFILE : ofile[p][fd] = k})]]
           /\ cwd' = [cwd EXCEPT ![q] = cwd[p]]
           /\ fs' = idup(fs, cwd[p])
           /\ R' = [R EXCEPT ![p] = AtRest, ![q] = AtRest]
    /\ UNCHANGED <<swapFile, program, history>>

\* copyuvm found no memory: the child is gone, its swap file is not.
forkFails(p) ==
    /\ At(p, "forked")
    /\ R' = [R EXCEPT ![p] = AtRest, ![R[p].child].pc = "dead"]
    /\ UNCHANGED <<fs, others>>

exit(p) ==
    /\ At(p, "idle") /\ p # First
    /\ R' = [R EXCEPT ![p].pc = "exit", ![p].back = "exit"]
    /\ UNCHANGED <<fs, others>>

exitClose(p) ==
    /\ At(p, "exit")
    /\ LET open == (1 .. NOFILE) \ FreeFds(p)
       IN  /\ open # {}
           /\ fileclose(p, ofile[p][Min(open)], R[p])
           /\ ofile' = [ofile EXCEPT ![p][Min(open)] = 0]
    /\ UNCHANGED <<swapFile, cwd, program, history>>

\* removeSwapFile: fileclose, then as sys_unlink.
exitSwap(p) ==
    /\ At(p, "exit") /\ FreeFds(p) = 1 .. NOFILE /\ swapFile[p] # 0
    /\ fileclose(p, swapFile[p], [R[p] EXCEPT !.pc = "removeSwap"])
    /\ swapFile' = [swapFile EXCEPT ![p] = 0]
    /\ UNCHANGED <<ofile, cwd, program, history>>

removeSwapFile(p) ==
    /\ At(p, "removeSwap")
    /\ startWalk(p, fs, R[p], SwapPath[p], TRUE, "unlink1")
    /\ UNCHANGED others

exitCwd(p) ==
    /\ At(p, "exit") /\ FreeFds(p) = 1 .. NOFILE /\ swapFile[p] = 0
    /\ Step(p, fs, [R[p] EXCEPT !.pc = "dead", !.puts = <<cwd[p]>>])
    /\ cwd' = [cwd EXCEPT ![p] = 0]
    /\ UNCHANGED <<ftable, ofile, swapFile, program, history>>

\* The log keeps what was on disk when no transaction was open last, so a
\* crash at any time leaves a state that one at such a moment leaves.
InTransaction(p) ==
    R[p].puts # <<>> \/ R[p].pc \notin {"idle", "write", "exit", None, "dead"}

crash ==
    /\ program.crashes > 0 /\ \A p \in Procs : ~InTransaction(p)
    /\ boot(fs)
    /\ program' = [program EXCEPT !.crashes = @ - 1]
    /\ UNCHANGED history

Next ==
    \/ \E p \in Procs :
         \/ iputCheck(p) \/ iputDrop(p) \/ namex(p)
         \/ \E c \in Programs[program.name].calls[p] : sysPath(p, c)
         \/ link1(p) \/ link2(p) \/ link3(p) \/ link4(p)
         \/ unlink1(p) \/ unlink2(p) \/ unlink3(p) \/ unlink4(p)
         \/ create1(p) \/ create2(p) \/ create3(p) \/ created(p)
         \/ open1(p) \/ chdir1(p)
         \/ \E fd \in 1 .. NOFILE :
              sysClose(p, fd) \/ sysDup(p, fd) \/ sysRead(p, fd)
                \/ sysWrite(p, fd, MaxChunk + 1)
         \/ filewrite(p)
         \/ \E q \in Procs : forkStarts(p, q)
         \/ forkCopies(p) \/ forkFails(p)
         \/ exit(p) \/ exitClose(p) \/ exitSwap(p) \/ removeSwapFile(p)
         \/ exitCwd(p)
    \/ crash

Spec == Init /\ [][Next]_vars

-----------------------------------------------------------------------------
(* What the disk and the memory say of each other *)

Count(S, P(_)) == Cardinality({x \in S : P(x)})

\* Every reference in memory is counted once: those of open files, of current
\* directories and of calls in progress.
RefsExact ==
    /\ \A s \in Slots :
         fs.icache[s].ref =
           Count(Files, LAMBDA k : ftable[k].ref > 0 /\ ftable[k].ip = s)
           + Count(Procs, LAMBDA p : cwd[p] = s)
           + Count(Procs, LAMBDA p : R[p].ip = s)
           + Count(Procs, LAMBDA p : R[p].ip2 = s)
           + Count(Procs \X (1 .. 2),
                   LAMBDA x : /\ x[2] <= Len(R[x[1]].puts)
                              /\ R[x[1]].puts[x[2]] = s)
    /\ \A k \in Files :
         ftable[k].ref = Count(Procs \X (1 .. NOFILE),
                               LAMBDA x : ofile[x[1]][x[2]] = k)
                         + Count(Procs, LAMBDA p : swapFile[p] = k)

\* An inode's blocks are in use and nobody else's, and no block is lost; a
\* cached inode nobody is changing is as on disk.
Addrs(ip) == {i \in 0 .. NDIRECT : ip.addrs[i] # 0}
BlocksOwnedOnce ==
    /\ fs.used = {0} \cup UNION {Owned(fs, fs.dinode[i]) : i \in Inums}
    /\ \A i, j \in Inums :
         i # j => Owned(fs, fs.dinode[i]) \cap Owned(fs, fs.dinode[j]) = {}
    /\ \A i \in Inums :
         /\ Cardinality({fs.dinode[i].addrs[n] : n \in Addrs(fs.dinode[i])})
              = Cardinality(Addrs(fs.dinode[i]))
         /\ {fs.dinode[i].addrs[n] : n \in Addrs(fs.dinode[i])}
              \cap Indirect(fs, fs.dinode[i]) = {}
         /\ fs.dinode[i].type = None => Addrs(fs.dinode[i]) = {}
    /\ \A s \in Slots :
         fs.icache[s].ref > 0 /\ fs.icache[s].valid
           => fs.icache[s].ip = fs.dinode[fs.icache[s].inum]

\* The entries of the directories that are in the tree.
Entries ==
    {<<d, off>> \in Inums \X (0 .. MAXFILE * BSIZE - 1) :
       LET ip == fs.dinode[d]
       IN  /\ ip.type = "dir" /\ ip.nlink > 0
           /\ off < ip.size /\ readCell(fs, ip, off)[2] # 0}
Names(e) == readCell(fs, fs.dinode[e[1]], e[2])
Quiet == \A p \in Procs : ~InTransaction(p)

\* A directory entry names an inode that is allocated; and when no call is in
\* progress, as many entries name an inode as its link count says.
LinksExact ==
    /\ \A e \in Entries : fs.dinode[Names(e)[2]].type # None
    /\ Quiet /\ "stray" \notin history =>
         \A i \in Inums :
           fs.dinode[i].type # None =>
             fs.dinode[i].nlink =
               Count(Entries, LAMBDA e : Names(e)[2] = i /\ Names(e)[1] # Dot)

\* Both counts that decide when an inode is freed, ref in memory and nlink on
\* disk, are exact.
CountsExact == RefsExact /\ LinksExact

\* The inode whose lock p is about to acquire; 0: none.
Acquires(p) ==
    CASE R[p].checked -> 0
      [] R[p].puts # <<>> /\ ~R[p].checked -> Head(R[p].puts)
      [] R[p].puts = <<>> /\ R[p].pc = "write" -> ftable[ofile[p][R[p].fd]].ip
      [] R[p].puts = <<>> /\ R[p].pc = "walk" ->
           IF skipelem(R[p].path).name = <<>> THEN 0 ELSE R[p].ip
      [] R[p].puts = <<>> /\ R[p].pc \in {"link1", "link2", "unlink1",
                                          "create1", "open1", "chdir1"} ->
           R[p].ip
      [] R[p].puts = <<>> /\ R[p].pc \in {"link4", "unlink2", "create2",
                                          "create3"} -> R[p].ip2
      [] OTHER -> 0

\* The processes of S wait for each other's locks.
Deadlocked(S) ==
    /\ S # {}
    /\ \A p \in S : Acquires(p) # 0 /\ fs.icache[Acquires(p)].lock \in S

\* fs.c 150: the separation of iget and ilock "also helps avoid deadlock and
\* races during pathname lookup".
NoDeadlock == \A S \in SUBSET Procs : ~Deadlocked(S)

\* Locks are taken in an order that cannot deadlock, but for iput's; and a
\* process holds none when its call is over.
DeadlockOnlyInIput ==
    /\ \A S \in SUBSET Procs : Deadlocked(S) => \E p \in S : R[p].puts # <<>>
    /\ \A s \in Slots, p \in Procs :
         fs.icache[s].lock = p => InTransaction(p)

\* Why the kernel panics: a table, a directory or the disk is full (bget and
\* the log aside); a path led by ".." out of a removed directory, whose parent
\* may be gone too (namex's ilock); or a call removed or took the name of a swap
\* file, which fork and exit rely on (proc.c 272).  Never on a reference count,
\* a bad bitmap, a broken directory, or an inode freed under an open file.
FullDirectory ==
    \E i \in Inums :
        fs.dinode[i].type = "dir" /\ fs.dinode[i].size = MAXFILE * BSIZE
PanicsExplained ==
    /\ fs.panic \in {None, "balloc: out of blocks", "ialloc: no inodes",
                     "iget: no inodes", "no slot for files on /store",
                     "dirlink", "ilock: no type", "iunlock",
                     "exit: error deleting swap file"}
    /\ fs.panic = "dirlink" => FullDirectory
    /\ fs.panic = "ilock: no type" => history \cap {"orphan", "stray"} # {}
    /\ fs.panic \in {"iunlock", "exit: error deleting swap file"} =>
          "swapName" \in history

\* fs.c 328-329, of iput: "If that was the last reference and the inode has
\* no links to it, free the inode (and its content) on disk."
UnlinkedIsFreed ==
    Quiet /\ program.crashes = Programs[program.name].crashes =>
      \A i \in Inums :
        fs.dinode[i].type # None /\ fs.dinode[i].nlink = 0 =>
          \E s \in Slots : fs.icache[s].ref > 0 /\ fs.icache[s].inum = i

=============================================================================
