# A verification project for Operating-System-CSE-314-BUET

The repository holds course work on operating systems. Its core is an xv6
kernel (`xv6-Development/xv6`) extended with a socket API (`sock.c`,
`syssock.c`), and with demand paging (`vm.c`, `fs.c`, `proc.c`, `exec.c`); beside
it stand an inter-process communication assignment (`IPC/CakeFactory`), smaller
exercises and shell scripts. This directory models the parts of it that run
concurrently, that can crash, or that keep tables whose consistency depends on
long sequences of calls.

## Inventory

| Component | State | Operations | What is hard | What makes it correct |
|---|---|---|---|---|
| Socket API (`sock.c`, `syssock.c`) | table of sockets, `countSock`, `nextsid` under `stable.lock` | listen, connect, send, recv, disconnect; exit, kill and fork of their owners | calls sleep in their middle and go on with pointers taken before; all sleepers of a channel are woken at once; kill closes sockets of a sleeping process | table consistent with its count and owners; nobody sleeps on a closed socket; wakeups are not lost; send and recv as documented |
| Cake factory (`CakeFactory.cpp`) | a common queue, a counter per flavour, six semaphores, four mutexes | five threads that loop forever | the carrier looks, waits, then pops; logging after the queue's lock is handed over | bounded queues, every cake accounted for, no deadlock, log in the order of events |
| Redo log (`log.c`) | in-memory header, counters, on-disk header and data blocks | begin_op, log_write, end_op, commit, recovery | a crash between any two disk writes; sleepers waiting for space or a commit | operations survive whole or not at all; reserved space suffices; sleepers are woken |
| Demand paging (`vm.c`, `fs.c`, `exec.c`, `proc.c`) | page table, ring `ram_manager`, slots `file_manager`, counters, swap file | grow, shrink, fault, exec, fork | counters, ring, slots and page table must agree after every sequence of calls | swapping is invisible to the program; FIFO order; no panic but that of a system call on a paged-out page |
| Pipes (`pipe.c`) and references to open files (`file.c`) | ring buffer with two wrapping counters, two open flags, reference counts | pipe, read, write, dup, close, fork, exit, kill | two kinds of sleepers; kill between a test and a sleep; who frees the page | FIFO channel; page freed exactly when unreachable; end of file delivered |
| Process table, scheduler (`proc.c`, `spinlock.c`, `trap.c`, `init.c`) | `ptable`, the CPUs with their interrupt depth, `ticks` | fork, exit, wait, kill, sleep, wakeup, yield, scheduler, timer interrupt | parent and child exiting together; threads that move between CPUs in the middle of `sched`; interrupts in locked sections | each thread on one CPU, interrupts off exactly where they must be, no lock acquired twice or released by another, every child reaped, no lost wakeup of wait |
| Buffer cache, disk driver (`bio.c`, `ide.c`, `sleeplock.c`) | buffers with reference counts, sleep locks and an LRU list, request queue | bget, bread, bwrite, brelse, iderw, ideintr | two processes missing one block, recycling, the interrupt starting the next request | one buffer per block, clean means on disk, requests complete |
| Inodes, directories, open files (`fs.c`, `sysfile.c`, `file.c`) | inode cache, bitmap, inodes and directory blocks on disk, file table, descriptors | open, create, mkdir, mknod, link, unlink, chdir, read, write, dup, close, fork, exit | path walks, removals and the last iput in any order; undoing half a link; locks of two inodes | exact reference and link counts, every block owned once, no deadlock but iput's, no panic without its known reason |
| Console (`console.c`, `kbd.c`, `uart.c`) | input ring with three wrapping counters, screen and cursor, keyboard modifiers | consoleintr, consoleread, consolewrite | a full ring, ^D put back, several readers, output during editing | a line-edited queue read once and in order, nobody stuck, echo equals the line |
| Shell (`sh.c`) | the line, the tree of commands, processes and their descriptors | parsecmd, runcmd, main's loop | recursive descent with one cursor; which child a wait is for; pipe ends left open | the parser is the grammar's, commands get their descriptors, the prompt comes back after the foreground |
| Page allocator (`kalloc.c`), boot, user programs, IPC exercises, shell scripts | see the list in `PROJECT.json` | | | |

Interactions. System calls of processes enter through `trap`, which also makes a
killed process exit. Sockets, pipes and the log block with `sleep` and are
released by `wakeup`, which scans `ptable` under `ptable.lock`. Paging writes to
a swap file through `filewrite`, which opens a log operation; exec already has
one open. fork copies descriptors and the pager's tables; exit closes
descriptors, swap file and sockets; kill closes sockets.

## Modules

| Module | Models | State and actions |
|---|---|---|
| `Sock` | `sock.c`, `syssock.c`, and of `proc.c` wakeup, exit, kill, fork | A call is one action up to its sleep and one (`listenWake`, `sendWake`, `recvWake`) from the reacquired `stable.lock` on; `frame` holds the locals kept across the sleep |
| `SockProofs`, `CakeFactoryProofs`, `LogProofs`, `PipeProofs`, `BufferCacheProofs`, `ProcTableProofs`, `ConsoleProofs`, `PagingProofs` | theorems about the module of that name | see "What is proved" |
| `CakeFactory` | `IPC/CakeFactory/CakeFactory.cpp` | A step lasts from one blocking call to the next; `chef`, `waiter`, `carrier` are the threads' places |
| `CakePipeline` | what the factory promises: cakes go chef, common queue, carrier's hands, shelf, customer, in order of baking | implemented by `CakeFactory` (`Implements`) |
| `Log` | `log.c`, with the eviction rule of `bio.c` | One action per section under `log.lock` and per disk write; `Crash` is enabled between all of them |
| `AtomicStore` | what the log promises: a store whose crash returns it to the last commit | implemented by `Log` (`Implements`), with the contents that recovery would produce as the durable state |
| `Paging` | the pager of one process and its callers growproc, exec, fork, page fault | Loops over pages are one step per page; `kernelFault` is a system call on a page that is not present; `fork` follows the child |
| `AddressSpace` | memory without paging: each page holds what was last stored | implemented by `Paging` (`Transparent`) |
| `Pipe` | `pipe.c`, and of `file.c` the reference counts | A pass of pipewrite or piperead under `p->lock` is one step; `dozeR` and `dozeW` are the moment between the test of `killed` and the sleep |
| `Channel` | a bounded FIFO of bytes | implemented by `Pipe` (`Implements`) |
| `FileSys` | `fs.c`, `sysfile.c`, the inode side of `file.c`, swap files of `fs.c` and the image of `mkfs.c` | A call runs from one lock acquisition to the next (`link1` .. `link4`, `unlink1` .. `unlink4`, `create1` .. `create3`, `walk` for a path element); `R[p]` holds the locals of p's call and `puts` the inodes it has still to iput; disk and inode cache are one record `fs` |
| `BufferCache` | `bio.c`, `ide.c`, `sleeplock.c` | One action per section under `bcache.lock`, a buffer's lock or `idelock`; `ideintr` is the disk's, and a read may fail in it; a process may hold a buffer while it gets another (`MayAsk`), as install_trans and bmap do |
| `ProcTable` | `proc.c`, `spinlock.c`, the timer of `trap.c`, `sys_sleep`, `init.c` | A CPU runs its scheduler, a process or a switch between them; `acquire`, `pushcli`, `sched`, `swtch` and the return from them are steps, so that interrupts and other CPUs come in between; `panics` is every panic of acquire, release and popcli, and those of kill and exit that depend on sockets and swap files |
| `Shell` | `sh.c`, on fork, wait, pipe, dup and exit as the kernel gives them | The parser is a set of recursive operators with a cursor; `runcmd` is one action per system call that others can see |
| `Console` | `console.c`, `kbd.c`, the receiving side of `uart.c` | One character of an interrupt, one pass of a read and one write are steps, as `cons.lock` makes them |
| `Terminal` | what the console promises its readers | implemented by `Console` (`Implements`) |
| `MC...` | constants of the small instances | |

Definitions keep the names of the C functions. An operator with a longer name
beside one of them (`removesockTwice` beside `removesock`) is the same code
with a plausible mistake; it shows that a property would notice the mistake and
is used by no action.

The modules fit together along the calls of the code. `FileSys` takes from `Log`
that an operation is atomic and that a crash happens between operations, and
from `BufferCache` that a block read is the block last written. `Log` takes
from `BufferCache` that a dirty buffer is not recycled (`FreeUnpinned` is the
mistake that would break it). `Pipe`, `Sock`, `Console` and `BufferCache` take
from `ProcTable` what sleep, wakeup and kill do. `Shell` takes from `ProcTable`
what fork, exit and wait do, and from `Pipe` when a reader sees the end.

External to the models, and assumed: a disk write of one block is atomic
(`Log`), and the disk reports no error of a write (`BufferCache`); in `FileSys`
and `Log` it reports none of a read either; kalloc does not run out
(`Pipe`, `Paging`); POSIX semaphores and mutexes behave as documented
(`CakeFactory`); a command of the shell reads its input to the end and exits
(`Shell`); the keyboard sends E0 and make or break codes as a PC's does
(`Console`).

## Runs

| Run | Instance | What it shows |
|---|---|---|
| `sock` | 3 processes, 2 sockets, 3 ports, 5 socket creations, one-byte buffers | The table's count, ports and owners stay right (`TableConsistent`), a call that slept still owns its socket, no process sleeps on a closed socket or a channel whose wakeup has passed (`SleepersAreWoken`), a full table is reported as such |
| `sock_kill` | violation | kill panics when its victim owns a socket |
| `cake` | 2 flavours, queues of 2 | Accounting, order of the log, no deadlock, refinement of `CakePipeline`, progress |
| `log` | 2 processes, 3 blocks, 2 values, operations that add one block each and rewrite any in the log, `LOGSIZE` 4, `MAXOPBLOCKS` 2 | Atomicity over crashes (refinement of `AtomicStore`), the space begin_op reserves is there when log_write needs it (`NoPanic`) although `log.lh.n` is read before the lock is taken, sleepers, progress |
| `paging` | 4 pages in memory, 1 in the file, two contents; images of one page and exec's guard and stack page | Counters, ring, FIFO order, transparency; the only panic is a system call's on a page that the swap file holds |
| `paging_drift` | 2 and 2 pages, shrinks that give up resident pages only, forks | Transparency although counters and ring no longer describe memory |
| `pipe` | 2 processes, a pipe of 2 bytes, counters modulo 4, writes of 1 and 3 bytes | FIFO channel, freeing, wakeups, end of file and broken pipe |
| `filesys` | 2 processes; 14 blocks of 2 cells, 6 inodes, 4 cached; three programs, each with close, dup, read, write, fork and exit: 3 calls out of five for each process and one crash, 5 calls of which one process works below a directory that the other removes, and 3 that take or remove the name of a swap file | References and links are exact (`CountsExact`), blocks belong to one inode each and none is lost (`BlocksOwnedOnce`), a cycle of waiting processes goes through an iput (`DeadlockOnlyInIput`), and every panic has its reason, those out of a removed directory and of a lost swap file, which happen, included (`PanicsExplained`) |
| `bufcache` | 2 processes that hold up to 2 buffers each, 4 blocks (one of the log, one indirect), 2 buffers, one pinned, reads that fail | One buffer per block and clean means on disk (`CacheCoherent`), wakeups, contents change only under the buffer's lock |
| `proc` | 3 slots, 2 CPUs, ticks modulo 3, 3 pids | acquire, release, popcli and sched never panic (`LocksNeverPanic`), switches are clean, every child has a living parent and wait sleeps only with reason, sleep(n) lasts |
| `shell` | all lines of up to 5 characters over 9, and 11 longer ones; 6 processes, 5 descriptors | The parser agrees with the grammar, descriptors are wired as the line says, the foreground ends before the prompt, the prompt comes |
| `console` | 2 readers, a ring of 3 with counters modulo 6, a screen of 3 rows of 2, 5 characters, keys or writes | Refinement of `Terminal`, nobody stuck, echo, modifiers |

Seven more configurations show behaviour that is described under Observations;
they are kept for the reader and are not among the runs: `MCSockOverwrite`,
`MCSockCrosstalk`, `MCLogNested`, `MCPagingShrink`, `MCFileSysDeadlock` and
`MCFileSysLeak` end in a violation of the one property they name; `MCSockLive`
passes and shows that, under the fairness below, peers that close release
blocked calls and connected listeners return (`BlockedCallsReturn`).

Why the bounds are enough to meet the interesting cases. Two slots and three
ports make the socket table full and reuse both slots and ports; three processes
give two senders to one receiver or a stranger to a pair; `MaxSid` is large
enough for a slot to be reused while an old caller still sleeps. In the log, two
operations commit together (4 reserved of 4); as in the code, `LOGSIZE` is a
multiple of `MAXOPBLOCKS`; a commit has two blocks and an operation may write
both, so a torn one would show. A third block in the log is too many
(`log.size - 1`): an operation that did not wait for space makes log_write
panic. In the pager the ring has four entries, so removal from its middle,
wrap-around and compaction all happen, and the swap file is full with one page;
exec needs four, since both images are in memory at once. `paging_drift` has two
slots in the file, and the theorems of `PagingProofs` have any number of both.
In the pipe a write of 3
bytes must block on a pipe of 2, and the counters wrap many times. In the file
system a file of two blocks has an indirect one, four cached inodes and two
files can run out, and one process makes what the other removes; a directory in
a directory, both removed, is what ".." needs to lead nowhere. Two buffers for
four blocks force recycling while one is pinned, and bget runs out of them when
one process holds both. Three slots hold init, a
parent and a child, with two CPUs to run them; ticks wrap within one sleep. Five
characters reach every production of the grammar, and the longer lines nest
them. The ring of the console fills with three characters and its counters start
at 5 so that they wrap at once.

`MaxSid` (socket creations), `OpWrites` and `MaxDepth` (of an
operation), `Strings` and `ReadSizes` (of a pipe's users) and `Calls` (which calls
a paging program makes) are bounds that the code does not have; so are
`Programs` (calls, and numbers of calls and crashes) and `MaxChunk` of `FileSys`, `MaxPinned` of
`BufferCache` (`MaxHeld` is the code's two), `MaxPid`, `SleepArgs` and `KillArgs` of `ProcTable`, `Lines` of
`Shell`, and `MaxInput`, `ReadSizes`, `SerialChars` and `Keys` of `Console`.
`Start` of `Console` starts it after empty lines that have been read, a state the
program reaches.

`CHECK_DEADLOCK FALSE` is set where programs may stop: processes of `Sock` and
`Pipe` may all have exited, or wait for a peer that never comes, and a paging
program may have used up its calls; a program of `FileSys` and the typist of
`Console` likewise, `ProcTable` stops when it panics, and one line is typed to
`Shell`. `CakeFactory`, `Log` and `BufferCache` are checked for deadlock.

### Fairness

- `Sock`: weak fairness of a process that has been woken. The scheduler goes
  round robin over `ptable` and `stable.lock` is held for finitely many steps.
  No fairness is assumed of programs' calls.
- `Log`: weak fairness of the disk, of a woken begin_op, and of a log_write or an
  end_op under way; strong fairness of ending an operation, because an operation
  makes finitely many writes: one that is between two writes again and again does
  end. Crashes are not fair.
- `CakeFactory`: weak fairness of each thread; nothing about which waiter a
  mutex or semaphore lets go first.
- `Pipe`: weak fairness of a process inside a pipe call and of a killed process's
  exit. None of what programs choose to do.
- `Shell`: weak fairness of the whole: some process that can run does. With one
  line to run every behaviour is finite, so that this is all `Prompts` needs.

## What is proved

Every theorem holds for all values of the constants that satisfy the named
assumptions of the module it is about; TLC evaluates those assumptions on the
instances it checks. Each proof has the same shape: `IInv` is an inductive
invariant, lemmas on the initial states and on every action show that it holds
and stays (`InvHolds`), and the theorem follows from it. A refinement is proved
step by step from the same invariant: every action is a step of the abstract
specification or leaves its variables alone.

### Socket API (`SockProofs`)

| Theorem | Says |
|---|---|
| `SockTableConsistent` | the table is consistent: the next four together |
| `TypeCorrect` | `Spec => []TypeOK` |
| `SockCountExact` | `countSock` is the number of open sockets |
| `SockPortsUnique` | open sockets have different local ports |
| `SockOwnersAlive` | the owner of an open socket has not exited |
| `SockLocalStaysOwned` | a call that slept still owns the open socket it was made on |
| `SockLimitReported` | listen blames a port in use only when it is in use; a full table is reported as such, which needs the exact count |
| `SockSleepersAreWoken` | nobody sleeps on a closed socket or on a channel whose event has passed |

The inductive invariant `IInv` is the conjunction of types, count, ports, owners
and `LocalStaysOwned`. None of the latter four is inductive alone: the count
needs the types (a finite table) and that an exit removes exactly the open
sockets of its process; `PortsUnique` needs that getfreeport and listen look at
all open sockets; `LocalStaysOwned` needs `OwnersAlive` so that a sleeping
process's socket can be closed by nobody else. There is one lemma per kind of
step: `RemoveStep` (sockets go), `OpenStep` (one comes), `QuietStep` (neither),
`FailsStep` (error returns).

`SockSleepersAreWoken` needs more, `WInv`: identities of sockets are fresh
(`SidsFresh`), so that a slot that was closed and reused is not taken for the one
slept on; the peer that connect gave a socket, while it is open, is at the port
the socket names (`PeersAtPort`), and a receiver sleeps on the socket at its
`rPort` (`ReceiverAtPort`), so that a close or a send of the peer wakes it.

### Cake factory (`CakeFactoryProofs`)

| Theorem | Says |
|---|---|
| `FactoryAccounted` | the semaphores and counters account for every cake |
| `FactoryPopsWhatItSaw` | the carrier pops the cake it looked at before its wait |
| `FactoryLogsInOrder` | lines are logged in the order of the events |
| `FactoryImplementsPipeline` | the factory implements `CakePipeline` |

`Accounted` alone is inductive only together with who holds the mutexes
(`LocksHeld`, `LockHolders`): a thread between its semaphore and its queue is
counted by its place. For `LogsInOrder` the invariant says exactly which
operations on a queue can be done and not yet logged, given where the threads
are (`Unprinted1Shape`, `UnprintedShape`). There can be two for one queue: for
the common queue the thread with `lock_console` prints first and the one with
`lock_Q1` after it.

### Redo log (`LogProofs`)

| Theorem | Says |
|---|---|
| `LogNeverPanics` | log_write never finds the log full, end_op never finds a commit running |
| `LogIsConsistent` | header, cached blocks and disk agree |
| `LogImplementsStore` | the log implements `AtomicStore`, with a crash between any two disk writes and during recovery |
| `LogSleepersWoken` | whoever sleeps in begin_op has an operation or a commit ahead of it that will wake it |

All four suppose `Slack`: an operation adds fewer blocks to the log than begin_op
reserves for it, and the log is larger than one reservation (30 to 10). What
counts is the blocks, not the calls of log_write: a block that is logged already
is absorbed, however often balloc or bfree logs the bitmap again. The code's
operations keep to it: filewrite, the largest, splits its writes so that an
operation touches at most eight of the ten. Without slack the header block,
counted into the log, is the one that is missing (see Observations). `LogSleepersWoken`
also supposes that no operation begins inside another (`MaxDepth = 1`), since one
that does can wait for itself, and that one operation fits the log.

The invariant counts what is promised (`OpsExact`, `SpaceLeft`: the logged
blocks, what open operations may still write and their slack fit the log
together, so that the header has its place while one is open; what an open
operation may still add does not shrink when a block is absorbed), follows the
commit write by write (`Committer`, `Headers`, `Loops`, `Copied`: how far the
loop has come, and that the blocks behind it are in the log or at home) and ties
the cache to the disk (`Pinned`: the dirty buffers are those of blocks still to
be installed; `CleanAsDisk`). With `Recovery` and `Copied` a crash in the middle
of recovery is harmless: installing twice is installing once. The durable state
of the refinement is `Recovered`, what recovery would make of the disk now; the
only step that changes it is the write of the header.

### Pipes (`PipeProofs`)

| Theorem | Says |
|---|---|
| `PipeIsConsistent` | the page is there exactly while a file refers to it; the counters are never further apart than `PIPESIZE` |
| `PipeSleepersAreWoken` | a reader or writer sleeps only with something to wait for and somebody to wake it, but for bytes of a killed writer |
| `PipeImplementsChannel` | the ring is a bounded FIFO `Channel` |

`RefExact` (`ref` counts the descriptors of an end) carries the rest: with it a
process inside read or write holds a reference (`CallersHold`), so the page
lives (`LiveWhileReferenced`), and the closer that finds both flags down is
alone (`CloserAlone`). `DozersRight` is the moment between a test and the sleep,
`OneSideWaits` that readers do not wait while a writer does. The counters wrap;
that `PIPESIZE` divides their modulus is an assumption, as 512 divides 2^32, and
the lemmas on `%` are where it is used.

### Buffer cache and disk (`BufferCacheProofs`)

| Theorem | Says |
|---|---|
| `CacheIsCoherent` | one buffer per block, one holder per buffer, clean means on disk unless the read failed |
| `CacheNoLostWakeup` | whoever sleeps for a buffer or for the disk will be woken |
| `CacheContentUnderLock` | what others would read of a block changes only by a step of the holder of its lock |

They hold for any number of processes, of blocks, of buffers, and of buffers that
one process holds at once or the log pins. `RefExact` says that `refcnt` is the
number of processes that hold a buffer or wait for it; it makes recycling safe.
`Queue` and `Wire` say that the disk's queue holds each buffer once, each with a
process that sleeps for it, and that the disk works on its head. `ByPlace` ties a
process's place to the lock and the flags of the buffer its call is about, and
`Held` says that the other buffers it has locked have their contents. That bget
finds a buffer is not claimed: it panics when it does not, in the model as in the
code (see Observations).

### Processes (`ProcTableProofs`)

| Theorem | Says |
|---|---|
| `TableLocksNeverPanic` | no panic of sched, acquire, release or popcli is reached; what panics is kill when it closes a socket, init's exit, and an exit whose swap file is gone |
| `TableSwitchesClean` | a process is on one CPU at most, whoever is RUNNING is on one, and the interrupt flag follows a thread over its switches |
| `TableParentsWait` | every process but init has a living parent, and a parent sleeps in wait only with reason |
| `TableSleepsLongEnough` | sleep(n) comes back, unless killed, after n ticks at least although `ticks` wraps |

They hold for any number of CPUs and slots. `CpuInv` says what a CPU is doing from
its place: a lock is held exactly by the CPU inside its section, `ncli` counts
the one lock a CPU can hold, and interrupts are on outside locks and handlers
only. With it no CPU is ever about to acquire a lock it holds (`NeverTwice`) or to
release one it does not (`OnlyHeld`). `SlotInv` says from a slot's state where its thread is: a RUNNABLE or
SLEEPING one in sched with `intena` saved, or on a stack nobody has run on; a
RUNNING one on a CPU, and on no second one (`Alone`). `ForkInv` covers the EMBRYO
between two sections of fork, `ParentInv` the parents of live slots. `TimeInv`
relates the counted ticks of a sleep to the difference of the wrapped counter,
until it has gone a full turn.

### Console (`ConsoleProofs`)

| Theorem | Says |
|---|---|
| `ConsoleNoStall` | a reader sleeps only while no finished input is left, and the ring then has room |
| `ConsoleNoStuckModifier` | no modifier is on without a key held, once the keyboard's bytes are taken |
| `ConsoleEditedLineShown` | the cursor stays on the screen, and the cells before it hold the line unless others wrote meanwhile |
| `ConsoleImplementsTerminal` | input is edited until its line is finished, then read once, in order, at most a line at a time |

`RingInv` bounds the three wrapping counters (finished input and line together fit
the ring, and a full ring is all finished, because consoleintr finishes the line
that fills it); `LineInv` says that the line being edited has no newline or ^D, so
that kill-line stops where the finished input does. `ReadInv` and `SleepInv`
describe a read between two passes, `KbdInv` explains each modifier bit by a key
that is held or whose byte is still on the way. `UINT` is a multiple of
`INPUT_BUF`, as 2^32 is of 128.

`ConsoleEditedLineShown` needs that invariant and the type of the screen
(`ScreenInv`). One character moves the cells before the cursor by nothing or by
one row (`PutChar`), and no row of the line is lost, since a full line fits above
the last row (`ScreenAssumption`; 128 characters and 23 * 80 cells). A string is a
recursive function of its characters: it exists for any length
(`WrittenExists`), and no character of it is the first to take the cursor off the
screen (`PutsKeep`) or, of k backspaces, to take more than its own cell
(`Rubout`). The serial line never delivers `BACKSPACE`, which is 0x100 and not a
byte (`SerialAssumption`).

### Demand paging (`PagingProofs`)

| Theorem | Says |
|---|---|
| `PagerIsConsistent` | page table, counters, ring and slots describe the same memory; no path of the pager panics, and trap() panics only for a system call on a page that the swap file holds |
| `PagerFifoOrder` | pages leave RAM in the order they came |
| `PagerIsTransparent` | the pager implements `AddressSpace`: a page holds what was last stored in it, wherever it is |

All three suppose `ResidentCalls`, the calls of the run `paging`: the process
grows and faults at will, and shrinks or executes a program only while none of
its pages is in the swap file (for exec, with room for both images in RAM). The
other calls are those after which the pager loses its way (see Observations), so
the hypothesis is the condition under which the code is right, and the constants
are otherwise free: any number of pages in RAM and in the file, any `UINT` that can
count them twice over.

The invariant, `IInv`, has four parts. `RingInv` says that the ring holds each page
that is present, in either page table, once (`Holds`), in the places from the head
on and no other (`Sound`). `FileInv` says that the slots in use are those of the
pages paged out (`FileOk`). A free slot keeps the address of the page it had last
and page_in searches by address only; what makes that safe is that no slot *in
front of* the one a page has now carries its address, because page_out always
takes the first free slot. It also says that pages are out only while RAM is full,
so that the branch of swap_in that does not count its page is never taken.
`TableInv` and `OtherInv` follow the loops of growproc and exec over the pages.
That page_out finds a slot is a count: the pages in RAM and in the file together
are fewer than `MAX_TOTAL_PAGES` while one is to come (`SlotLeft`, `CountExact`).

Taking a page out of the middle of the ring, `Organized`, is a recursive function,
and the prover has no induction. `Compacted` is the ring after k turns of that
loop in closed form; it satisfies the recursion (`LoopCompacts`), and two functions
that do are equal, since there would be a smallest turn at which they differ
(`LoopUnique`, from the well-foundedness of the naturals).

### What is only model-checked

- Liveness, in all modules: fairness and ENABLED are out of the prover's reach.
- `Paging` for the calls of the run `paging_drift`: once a shrink has left pages in
  the swap file with room in RAM, or a fork has started the child's counters at
  zero, counters, ring and page table differ, and the argument of `PagingProofs`
  is gone with them. Only `Transparent` is checked there.
- `FileSys`: its counts are sums over directories and caches whose steps the
  provers would have to take apart by induction.
- `Shell` is built from recursive operators, so the prover cannot be used on it.

## Observations

The disagreement that a violation run shows is the finding in `PROJECT.json`.
The others are shown by a configuration that is not a run, or are in the models
without a property of their own.

Shown by a configuration of their own:

- send tests `hasfullbuffer` once and writes after any wakeup (`sock.c:135`); the
  repository's xv6 README says "send() blocks, if remote host has not yet read
  earlier". `MCSockOverwrite`: a send woken by its peer's own send overwrites.
- send finds its peer by port number, and a half-open socket keeps `rPort`
  (`sock.c:130`). `MCSockCrosstalk`: data goes to a stranger that reused the port.
- begin_op inside an open operation (exec, whose allocuvm pages out through
  filewrite, `exec.c:22`) waits for itself (`log.c:132`). `MCLogNested`.
- deallocuvm leaves the slots of paged-out pages in use (`vm.c:295`): after a
  growth a page has other contents. `MCPagingShrink`. The run `paging_drift` shows
  which shrinks and forks keep the contents.
- iput takes an inode's lock while its caller may hold another's (`fs.c:335`);
  `fs.c:150` says that the separation of iget and ilock "also helps avoid
  deadlock". `MCFileSysDeadlock`: two processes wait for each other; a link to
  "." waits for itself.
- Two iputs of an unlinked inode may each see the other's reference and free
  nothing (`fs.c:338`); `fs.c:328` says "If that was the last reference and the
  inode has no links to it, free the inode". `MCFileSysLeak`.

In the models:

- recv, like send, tests its buffer once: woken without data, it returns 0 with
  an empty buffer (`sock.c:167`).
- `sys_send` fetches the port a second time as the length (`syssock.c:41`), so a
  message is cut to as many bytes as its port's number.
- `mkfs` makes the log `LOGSIZE` blocks long with the header in it, and begin_op
  reserves from `LOGSIZE`. Operations that each write all they may would reach
  the panic of log_write: `NoPanic` fails for `LOGSIZE` 4 or 5, `MAXOPBLOCKS = 2`,
  `OpWrites = 2` and 4 blocks. One block of slack in each operation is enough
  for any sizes: `LogNeverPanics` is the proof, and the code's operations have
  it.
- A page fault while the ring has room, possible after a shrink, does not count
  the page (`vm.c:554`): `CountsExact` fails with `Calls = {"shrink"}`.
- exec of an image larger than memory saves the new image's pages through the
  old page table (`fs.c:845`): `Transparent` fails with `Calls = {"exec"}`.
- fork with page 0 in the swap file panics in copyuvm (`vm.c:362`):
  `PagerConsistent` fails with `Calls = {"fork"}`.
- A page fault is served only from user mode (`trap.c:85`). A system call that
  reads or writes a buffer in a page that has been paged out ends in
  `panic("trap")` (`trap.c:97`), since argptr checks only that the buffer lies
  below `p->sz`; so does exec when its arguments are in such a page of the old
  image. `kernelFault` is that step, and `OnlyKernelFaultPanics` says that
  nothing else in the pager panics.
- exec takes the user bit from the guard page below the stack (`exec.c:68`);
  swap_in maps a page with the user bit again (`vm.c:557`), so after the first
  time it is paged out the guard guards nothing. The bit is not in `Paging`.
- A killed writer leaves its bytes in the pipe and wakes no reader
  (`pipe.c:86`); `NoLostWakeup` of `Pipe` shows that this is the only way for a
  reader to sleep beside bytes.
- A kill that falls between the test of `killed` and the sleep leaves a killed
  process asleep until the pipe changes (`pipe.c:107`); the same holds of
  sys_sleep until the next tick, and of consoleread until the next line.
- swap_in reads into one static buffer and sleeps on the disk (`vm.c:579`): with
  two processes a second fault overwrites it before the first has copied it.
- Walking ".." out of a directory whose parent was removed panics in ilock ("no
  type"), and a create in a removed working directory leaks the new inode.
  `history` in `FileSys` marks the removal ("orphan") and the entry made
  ("stray"), and `PanicsExplained` allows the panic only after one of them.
- exit panics when somebody has unlinked its swap file (`proc.c:272`), and fork
  panics in iunlock when its name is taken by a directory, for which create
  returns 0 (`fs.c:778`): "swapName" in `history`. A fork that fails after
  allocproc leaves a swap file behind.
- dirlink panics when the directory has no room for the entry (`fs.c:576`). `PanicsExplained` allows it of a full directory only; the
  directories of the runs do not fill up.
- The number of blocks `mkfs` reserves for inodes leaves a hole for some sizes;
  `ImageAssumption` of `FileSys` excludes them.
- bget panics when every buffer is pinned or in use (`bio.c:92`): nothing bounds
  the processes that read at once, 64 with up to two buffers each, while the log
  pins some of the 30 buffers. The run `bufcache` reaches the panic, and no
  property excludes it.
- ideintr marks the buffer of a failed read valid (`ide.c:118`), and readers take
  what was in it for the block: `failed` in `BufferCache` marks it. A failed write
  goes unnoticed too; the model has none.
- kill calls closeprocsocks with ptable.lock held (`proc.c:532`). Beside the panic
  of the finding, it waits there for stable.lock, while sleep and wakeup inside a
  socket call take ptable.lock with stable.lock held: on two CPUs each may wait
  for the other, for a victim without sockets too. `Sock` makes kill one step and
  has no locks, so this is not in it; it also leaves out kill of a pid that only
  unused entries have, which changes no socket. `ProcTable` has both outcomes of
  the call, panic and return.
- Built with `VERBOSE_PRINT=TRUE`, exit calls procdump with ptable.lock held
  (`proc.c:301`). procdump prints under cons.lock, and consoleintr wakes readers,
  taking ptable.lock, with cons.lock held: on two CPUs each may wait for the
  other. The default build (`Makefile:34`) leaves the call out, and so do the
  models; consoleintr's own procdump runs after cons.lock is released.
- kill(0), or kill of the pid of a fork that failed, marks an unused entry, and
  the next process made in it is born killed; kill(1) ends in the panic "init
  exiting".
- In the shell `a & b` is a syntax error, `>>` writes like `>`, of two output
  redirections the first one written wins, a failed fork in main ends the shell,
  and a failed second fork of a pipeline brings the prompt early (`denied`).
- A killed reader of the console returns -1 and loses what it had read; a ^D put
  back for one reader may be taken by another; releasing one of two control keys
  held turns control off.

The passing runs of `Paging` keep to the calls for which the pager works: shrink
and exec while every page is in memory (`paging`), and, for the contents only,
fork while every page is in memory and shrinks that give up no page of the swap
file (`paging_drift`).

## Not modelled

- Hardware set-up: boot, interrupt controllers, multiprocessor start. It is
  straight-line code before anything runs concurrently.
- `kalloc.c`: a free list under one lock. That it runs out is a choice of its
  callers where they handle it.
- The formatting of `cprintf` and `printf`, and the UART's registers.
- The shell's built-in `cd`, and lines cut at 100 characters.
- Locks other than those of `ProcTable`, `BufferCache` and the inodes: the section
  a spin lock guards is one step elsewhere, and orders of acquiring two of them
  are not checked.
- User programs and their library (`usertests.c`, `socktest.c`, `ulib.c`,
  `umalloc.c`): the models let processes make any call.
- The IPC exercises other than the cake factory: single-flag and
  single-semaphore programs that the assignment supersedes.
- The shell scripts: text processing by external tools.
- The pager's static buffer shared by all processes (`vm.c:579`), which needs two
  processes that read block by block, and crashes in the middle of a file system
  operation, which `Log` shows to be crashes before or after it.

## Plan

Done: the models of `Sock`, `CakeFactory`, `Log`, `Paging`, `Pipe`, `FileSys`,
`BufferCache`, `ProcTable`, `Shell` and `Console`, and the proofs about eight of
them.

Left: the parts of `FileSys` that do not need a sum over the tree
(`DeadlockOnlyInIput`).
