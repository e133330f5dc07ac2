# A verification project for the xv6 kernel of OperatingSystem/HW5

The repository holds class work. By far the largest program in it is a
teaching kernel, xv6 for x86, in `src/OperatingSystem/HW5`, with a priority
scheduler and the system calls `cps` and `chpr` added. This directory holds
TLA+ models of the parts of that kernel that are hard to test, TLC
configurations that check them on small instances, and TLAPS proofs for
instances of every size.

Paths below are relative to `src/OperatingSystem/HW5` unless they start with
`src/`.

## The system and its parts

| part | sources | here |
|---|---|---|
| redo log: transactions, commit, recovery | log.c | `Log`, `AtomicDisk` |
| process table, scheduler, sleep/wakeup | proc.c, swtch.S | `Proc` |
| sleep locks | sleeplock.c | `SleepLock` |
| pipes | pipe.c | `Pipe`, `Fifo` |
| buffer cache and IDE driver | bio.c, ide.c | `Bio` |
| inodes, path lookup, directories | fs.c | `Inode`, `Fs` |
| file table, descriptors, file system calls | file.c, sysfile.c, syscall.c | `Calls`, `Fs` |
| block allocation and file contents | fs.c | `FileData`, `Files` |
| programs that use the file system | usertests.c, ls.c, ln.c, cat.c, stressfs.c, init.c, ... | `UserTests`, `UserPrograms` |
| virtual memory, page allocator, exec, growproc | vm.c, kalloc.c, exec.c, proc.c | `Vm` |
| console input | console.c | `Console`, `Devices` |
| ticks and `sys_sleep` | trap.c, sysproc.c | `Ticks`, `Devices` |
| user memory allocator | umalloc.c | `Malloc` |
| shell | sh.c | `Sh` |
| everything else | | see Not modelled |

How the parts use each other: a file system call runs as a process of the
process table. It brackets its work by `begin_op` and `end_op` of the log, and
reads and writes blocks through the buffer cache, which calls the disk driver.
A buffer is protected by a sleep lock. A process that waits, for a sleep lock,
the disk, log space, a pipe or a child, does so with `sleep` and `wakeup`, and
`kill` may end any sleep early. Spin locks make short sections atomic; those of
`ptable.lock` are special because the lock is handed from one process to
another across `swtch`. User programs reach all this through system calls: the
shell builds pipelines out of `fork`, `pipe`, `dup` and `close`, and `malloc`
gets its memory from `sbrk`.

The models follow that structure. `Proc` shows what `sleep`, `wakeup` and the
switch do with the process table. `SleepLock` takes `sleep` apart once, step by
step through both spin locks, and shows that no wakeup is lost; `Pipe`, `Bio`,
`Log`, `Console` and `Ticks` then use `sleep` as one step. `Bio` shows that the
cache is faithful to the disk; `Log` builds on an abstract cache and shows that
calls are atomic with respect to crashes; `FileData` and `Inode` build on that
and treat a block as memory. `Fs` puts the system calls on top of `Inode`, and
`UserTests` and `UserPrograms` are the programs that it runs.

Each critical section of a spin lock is one action unless the module says
otherwise. Between two actions every other process may run.

## Modules

### Log and AtomicDisk

`Log` is log.c with the two facts about the buffer cache that it relies on: a
buffer is held from `bread` to `brelse`, and a `B_DIRTY` buffer is not
recycled. The state is the disk (home blocks, log blocks, header), the cache,
`struct log`, the place of every process in a call, and the progress of
recovery. `begin_op`, `log_write` (its unlocked check and its critical section
are two actions), `end_op`, every single block write of `commit` and of
`recover_from_log`, and `Crash` are the actions. A crash can fall between any two
of them, also during recovery. A block is one 512-byte sector, so a block write
is atomic and torn writes are excluded.

`AtomicDisk` is what the log promises: a memory that calls write to, a stable
copy that a commit sets to the memory when no call is under way, and a crash
that sets the memory back to the stable copy. `Log` implements it
(`AtomicDiskSpec`) with the mapping: the stable copy is the home blocks
overlaid with the log blocks that the header on the disk names; the memory is
what `bread` would return, and the stable copy until recovery has finished.

### Proc

The process table on several CPUs, with the lock and the switch modelled as
they are: `yield`, `sleep`, `exit` and `wait` take `ptable.lock` and change the
state; `sched` is the switch to the scheduler; `scheduler_run` chooses, and the
chosen process releases the lock in `resume` (or `wait` goes on with it).
`fork` takes four steps and can fail at two of them; between them it can be
preempted. `HighP` is what the inner loop of `scheduler()` computes, and the
outer loop continues behind the chosen slot, as the code does by overwriting
its loop variable. `exec` appears because it sets the priority. A panic of init
stops its CPU; the others go on until they print.

`ctx` records where `p->context` resumes, `pc` how far a fork is, and `asked` is
a history variable with the pids that were passed to `kill`.

### SleepLock

`acquiresleep` and `releasesleep`, and inside them `sleep` and `wakeup`, one
step for every acquire and release of the two spin locks involved. `kill` wakes
sleepers at any time.

### Pipe and Fifo

A pipe shared by several writers and readers, byte by byte, with closing of the
ends, `kill`, and counters that wrap around at `UINT`. As 512 divides 2^32, the
model assumes that `PIPESIZE` divides `UINT`. The test of `killed` and the
sleep are two steps, because `kill` does not take `p->lock`. `Fifo` is a bounded
queue; `Queue` in `Pipe` is the refinement mapping.

### Bio

The buffer cache with reference counts, LRU list and sleep locks on top of the
disk driver: the request queue, the command the disk works on, the data that
`outsl` has sent when the command was started, and the interrupt. A process that
changes a buffer afterwards writes it or leaves it to the log, as all callers
do.

### Inode, Calls and Fs

`Inode` is the inode layer of fs.c: inodes on the disk, the inode cache with its
reference counts, and directories as sequences of entries (`dirlookup` finds the
first match, `dirlink` reuses the first free place, an entry's name is cut at
`DIRSIZ`). `Fs` runs processes through the system calls of sysfile.c and the
open files of file.c. A process is interrupted wherever it waits for a sleep
lock: `namex` locks one directory per step, `create`, `link` and `unlink` lock
parent and entry in the order of the code, and `iput` is two steps, because the
test of `nlink` and `ref` and the decrement of `ref` are separate critical
sections. `th[p]` is the call under way: its place `pc`, the inodes it holds
(`ip`, `dp`, `lp`), and the inodes and files it has still to put (`puts`,
`files`). `Calls` names the calls, with the results that the calling program
accepts; a call that returns something else sets `failed`.

`UserTests` is the file system part of usertests.c, test by test, with loops
unrolled a few times; `UserPrograms` are the file tools, `stressfs` and `init`.

### FileData

Below the inode: the bitmap, the direct addresses and the indirect block, and
the loops of `writei`, `readi` and `itrunc`, one pass per step, for two files at
once. A block is an array of cells that hold bytes or addresses, so a block that
is reused without being zeroed would be taken for an indirect block. `file` is a
ghost variable with the contents the program wrote. Offsets are unsigned and
wrap at `WORD`, as in the overflow test of `writei`. A file has at most one
`writei` at a time, since its caller holds the inode's sleep lock. `Files` names the
variables for use beside other parts, with the assumption on the constants and the
property.

### Vm

Physical pages, page directories, page tables and PTEs, and the calls that
build, copy, resize, replace and release address spaces: `userinit`, `fork`,
`sbrk`, `exec`, `exit` and `wait`. The state says for every *place* that can hold a
pointer to a page (a kernel stack, the local variable `mem`, a directory, its
entries, a PTE) which page is there; a process has two address spaces, its own
and the one that `exec` builds. A call is a small program: one step per
allocation of setupkvm, walkpgdir, allocuvm and copyuvm, so that the calls of
different processes compete for pages and every one of these allocations fails
in some behaviour, with its own error path. `view` is a ghost variable: what the
program has a right to find in its memory. `lost` are pages that nobody refers to
any more and those the rest of the kernel keeps. `sz` is in bytes, addresses are
unsigned (`Word`) and the argument of `sbrk` is signed. The kernel half of an
address space is reduced to the number of page tables it takes, and a program
file to the sizes and addresses of its segments.

### Console, Ticks, Malloc, Sh

`Console`: `consoleintr` edits a line in the ring, readers take finished lines;
`line` and `queue` are ghost variables with what was typed. `Ticks`: the timer
interrupt and `sys_sleep`, with the ticks that have really passed as a ghost.
`Devices` holds the two side by side, with one assumption on their constants and
the properties of both.
`Malloc`: the free list lives in raw memory (`ptr`, `size`), as in umalloc.c,
and `own` records who was given which cell. `Sh`: `gettoken`, the parser and
`runcmd` as recursive operators; each state is a line. The reference for the
parser is a grammar over the tokens, and for `runcmd` the meaning of the tree
(what each program reads from and writes to) without any descriptors.

### Proof modules

`LogProofs` (log), `ProcProofs` (process table), `FileProofs` (the sleep lock, and the
contents of the files that the lock of an inode protects), `PipeProofs`,
`BioProofs` (buffer cache and disk driver), `VmStepProofs` and `VmProofs` (virtual
memory, on the inductive invariant in `VmIndInv`) and `DeviceProofs` (console and
timer). The `MC` modules add symmetry
sets, the programs of `Fs`, the images of `exec`, and in `MCParts` the sum of the
five small components, which share no state: a behaviour belongs to one of them.

Operators with a suffix after the name of another one (`plumb_keeps` beside
`plumb`) are deliberate faults. Put in the place of the original, each of them
makes a run fail, which shows that the property is about the code.

## Runs

| run | configuration | result |
|---|---|---|
| `log_atomic` | 2 processes, 3 blocks, 2 values, calls of up to 2 blocks | the log implements `AtomicDisk`; a quiet log is durable; the inductive invariant holds |
| `log_space` | 3 processes, 4 blocks, a log that admits two calls at once, fairness | the log stays inside its region, sleepers in `begin_op` have a waker and are woken, recovery ends if crashes end |
| `proc_table` | 3 slots, 2 CPUs | the inductive invariant of the table, nobody on two CPUs, no killed process asleep in `wait`, the scheduler respects priorities, only parents reap |
| `proc_orphans` | 4 slots, 1 CPU, `chpr`, fairness | every process has a live parent, init never sleeps in `wait` beside a zombie it has inherited; the process that is more urgent than all others gets the CPU |
| `proc_round` | 3 slots, 1 CPU, fairness | violation, see below |
| `sleeplock` | 3 processes, fairness | mutual exclusion, no lost wakeup, every sleeper is woken, the lock is passed on |
| `pipe` | 2 writers, 1 reader, 2-byte ring, counters modulo 4 | implements `Fifo`; nobody sleeps on a condition that no longer holds; no use after free |
| `bio` | 3 processes, 2 buffers, 3 blocks | one buffer per block, exact reference counts, contents change only by the holder, requests are queued once and served in order, the disk is never idle with requests queued, no buffer is lost from the list |
| `fs` | 28 programs, up to 3 processes, 12 inodes, 6 cache entries, 4 files, 4 descriptors, fairness | reference counts, link counts and the directory tree are right between any two steps, nothing in use is freed, no panic, every test gets the results it accepts, all programs end |
| `fs_deadlock` | the `linkunlink` test, 2 processes | violation, see below |
| `memory` | 2 processes, 9 to 13 pages of 2 bytes, 2 page tables of 2 pages, 3 calls | a page has one owner at every step, exactly the pages below `sz` are mapped, memory is private, the guard page stays closed, no panic of vm.c is reached, nothing is left of a failed call, and an image changes only by a call of its own that succeeds |
| `parts` | see `MCParts` | console: the ring is a queue, a full ring can be read, no reader sleeps beside input, one end of file per control-D. ticks: nobody sleeps too short or on. files: every marked block has one place, reads give back what was written. malloc: every cell has one owner, the free list is ordered and joined, 0 only if full. shell: exactly the lines of the grammar are accepted, programs get the right input and output, no pipe end stays open where it should not |

Why the bounds are enough. In the log, two calls of two blocks on three blocks
reach absorption (two calls log the same block), groups of calls that end at
different times, and a crash at every point of a commit of more than one block;
three processes and a log for two calls reach waiting for space. Three slots
reach a grandchild that outlives its parent, and two CPUs reach every race for
`ptable.lock`; the fourth slot is needed for a zombie that is handed over while
init sleeps and the process that hands it over is not a child of init. Pids
are bounded by `MaxPid`, which ends the creation of processes. In the pipe a
ring of two bytes with counters modulo four goes round twice before the
counters wrap. Three processes on two buffers force recycling and waiting for a
buffer at once.

The programs of `fs` fill every table they can: open files, descriptors, cache
entries and inodes run out in some of them, and two or three processes meet in
the same directory, in the same file and on the same last reference. In `memory`
the number of pages ranges from just enough for init and a failing call to
enough for two processes and an `exec`, so that each allocation of each call is
the one that fails in some behaviour; an address space has two page tables of two
pages, so that a call crosses a page table; three calls reach an `exec` in the
child of a process that has grown. In `parts` the ring holds three
characters and its indices wrap at six; a file has one direct and two indirect
blocks and the disk is full before both files are; the heap has eleven units in
blocks of 2, 3 and 5; all lines of up to four characters are parsed, and four more
after beginnings inside a pipe, a block and a redirection.

`PidArg`, `Prio`, `IoChan`, `MaxN`, `Counts`, `Keys`, `Times`, `Units`, `Steps`, `Images`
and `Memory` are the inputs of the calls: small sets of pids, priorities, channels,
byte counts, keys, times, sizes, program files and free memories. `MaxPid`,
`MaxCalls`, `MaxLate`, `MaxBrk` and `MaxTyped` bound what would go on for ever. In `memory` and
`parts` these bounds stop the behaviours, so deadlock is not checked there.

## Fairness

In `Log`, a
process inside a call keeps running and ends its call (strong fairness of
`end_op`, since a call may log several blocks first); no call has to start, and
crashes are free. This assumes that the scheduler does not starve a process,
which is not true of this scheduler in general (see `proc_round`); it is the
assumption under which log.c can be judged by itself. In `Proc`, a CPU executes,
its timer ticks, and a process that was switched to goes on; there is one CPU,
because a spin lock is not fair and two CPUs could starve one another. In
`SleepLock`, processes go on, a holder releases, and calls of `kill` come to an
end: a process that is woken again and again could keep `lk->lk` from the one
that wants to release, as the spin lock is not fair. In `Fs` every process takes
its next step as long as it can, which again is the scheduler's part.

## What the violations show

- `proc_round`: the scheduler searches from the start of the table for a better
  process than the next runnable one, replaces it only by a strictly better one,
  and continues behind the chosen slot. With slots 1 and 3 of equal best
  priority and slot 2 of a worse one, slot 1 is chosen again and again and slot
  3 never runs.
- `fs_deadlock`: `iput` takes the inode's sleep lock before it looks at the link
  count. `create` and `unlink` put the directory while they have its entry
  locked; another process that holds the directory wants the entry, or puts it,
  and both wait for ever. The test `linkunlink` of usertests.c, which looks for
  just that, can run into it.

## Known divergences

Places where the code does not do what it says or what one would expect, met
while modelling. The first four are stated as definitions that no run checks,
because they do not hold; adding the definition to the configuration named
shows a counterexample.

- `KilledWasAsked` in `MCProc.cfg`: `kill` looks at the pid only, not at the
  state (proc.c:495). A fork that failed leaves its pid in a free slot; killing
  that pid marks the slot, and the next process created in it is born killed.
- `NoKilledSleeper` in `MCPipe.cfg`: a kill between the test of `killed` and the
  sleep in `piperead` or `pipewrite` (pipe.c:86, 107) is not noticed until
  somebody writes or closes. `consoleread` and `sys_sleep` have the same window.
  `wait` has not, since it tests under `ptable.lock` (`NoKilledWaiter`, proved).
- `ReadFromDisk` in `MCBio.cfg` with `ReadErrors = TRUE`: after a read error
  `ideintr` marks the buffer valid although nothing was read (ide.c:118).
- `UnlinkedIsFreed` in `MCFs.cfg`: fs.c:326-329 says that the last `iput` frees an
  inode without links. Two processes that put their references at the same
  time can each see the other's, and neither frees it; `FreedInTime` asks it of
  single processes only.
- `LogFitsOnDisk` with `MAXOPBLOCKS = 1`, `LOGSIZE = Size = 3`, `OpBlocks = 1` and three
  processes: the log region made by mkfs holds the header and `LOGSIZE - 1`
  blocks, while `begin_op` counts on `LOGSIZE`. Calls that used all of `MAXOPBLOCKS`
  could write one block behind the region; those of this kernel log fewer
  blocks, which is the assumption `Roomy` of the theorems.
- A killed writer leaves a full pipe without waking the reader: the exception in
  `NoForgottenReader`.
- `chpr` stores priorities outside the range that proc.h names.
- `create` does not look at the link count of the directory it has just locked,
  which may have been removed since `namex` found it (sysfile.c:250); the `..` of a
  removed directory may name an inode that is free by now. `link` with a new
  name that ends in `.` finds the directory it has locked in `dirlink` and waits
  for itself (fs.c:561).
- `copyuvm` forgets the page it could not map (vm.c:335): the pages in `lost`.
- `sbrk` of minus the whole size frees everything, returns -1 and leaves `sz`
  (proc.c:170); the model leaves this call out.
- `sys_sleep` with n close to 2^32 goes back to sleep if its process gets to
  run some ticks late: `MaxLate` keeps n away from the edge.
- `consoleread` of a killed process returns -1 although it may have taken
  characters from the ring.
- In the shell the first of several redirections of a descriptor wins, since it
  is the innermost command of the tree and opened last.

## What is proved

The theorems hold for any number of CPUs, slots, blocks, pages and values and any
(in `Log` and `Bio`: any finite) set of processes, under the named assumptions on the
constants, which every run evaluates. Beside the theorems about single modules,
two are refinements: the log implements `AtomicDisk` and the pipe implements
`Fifo`.

*Log.* The inductive invariant `LogInv` consists of type correctness;
`ControlInv` (who may be where: one committer, no call during a commit, who
holds which buffer); `DataInv` (in each phase of commit or recovery, which of
cache, log blocks, header and home blocks agree); and `SpaceInv` (blocks logged
plus slots reserved by calls under way stay below the bound). None of the checked
properties is inductive by itself: that installing a block is harmless depends
on the header, the header on the log blocks, and these on the cache not having
lost a dirty buffer. `LogProofs` proves the data part action by action, then the
rest and `LogInvariant`, `TypeCorrect`, `LogSpaceSafe` and `NoLostWakeup`. All theorems about the log assume
`Roomy`, which says that a call logs enough fewer blocks than it reserves. In the
shipped kernel `LOGSIZE = Size = 30` and `MAXOPBLOCKS = 10`, so it holds when calls
log at most 8 distinct blocks. That they do is read off the callers (the largest,
`filewrite`, logs four data blocks, an indirect block, the bitmap and the inode);
it is not model-checked. Without it `LogFitsOnDisk` fails (Known divergences).
From `LogInv` follow `Durability` and `LogImplementsAtomicDisk`: initial
states map to initial states, the write of the header is the abstract commit, a
crash the abstract crash, `log_write` and the others a write, a begin, an end or
a stutter.

*Process table.* `ProcInv` adds to the properties where each CPU and process is
in the protocol of `ptable.lock`: `CpuInv` (a CPU that does not hold the lock
executes a RUNNING process), `SwitchInv` (a process off the CPU is inside
`sched`, and a sleeper's channel says what it waits for), `ForkInv` (a slot being
filled belongs to one live process), `TreeInv` (init is the root; a parent is
alive), `PidInv` and `WaitInv`. `ProcProofs` has a lemma for every action,
shows that the searches of the code find what they look for,
combines the lemmas and derives the theorems. The scans pick a least element of
a set of slots; its existence is derived from the well-foundedness of `<`.

*Sleep lock.* `LockInv` says which places hold which spin lock and that a
process on its way to sleep has seen the lock taken since it took `lk->lk` or
`ptable.lock`. `OneHolder` and `NoWakeupLostByRelease` follow.

*Buffer cache.* `BioInv` joins `BufferPerBlock` and `BreadValid` with what they
rest on: `HolderInv` (which places hold a buffer's sleep lock), `BlockInv` (a
dirty buffer is valid, a buffer in use is one for a block), `QueueInv` (a request
is queued once, by a process that waits in `iderw`), `CommandInv` (the disk works
on the first request and has its contents) and `LruInv` (the list holds every
buffer, so that `bget` finds a free one if there is one). With `~ReadErrors` it
includes `CleanIsOnDisk`; that needs the queue, since the interrupt marks a buffer
clean, and the queue needs the sleep lock, since nobody else may change a buffer
whose block is being written. `BioProofs` has a lemma for each action on all
but the reference counts and the list, adds these (finite sets; moving
a buffer to the front loses none) and proves `BioInvariant`, `CacheIsConsistent`
and `DriverServes`. `HolderHasBlock` and `ContentsByHolder` assume a disk
without read errors, and fail with them (Known divergences).

*Pipe.* `PipeInv` joins the types with `HoldsInv` (which places hold `p->lock`),
`EndsInv` (an end is open as long as one of its processes has not closed it, and
the page is there as long as an end is open) and `SleepersInv` (a writer sleeps
only beside a full ring, a reader beside an empty one, or the process that will
wake them holds the lock). `PipePageSafe` and `PipeNoForgottenSleeper` follow.
`PipeImplementsFifo` maps the ring to the queue `Queue`. As `nread` and `nwrite` wrap
around at `UINT`, the length of the queue is their difference modulo `UINT`, and the
cell of a byte its counter modulo `PIPESIZE`; that the two fit together at the
wrap-around is where the proof needs that `PIPESIZE` divides `UINT`
(`PipeAssumption`; 512 divides 2^32).

*Virtual memory.* `OnePlace`, `AddressSpace` and `FailureUndone` say nothing about a
half-built address space except that its pages have one place, so none of them is
inductive. `VmInv` adds, for every point of every call, how far it has got:
`Control` (which call is where, on which address space), `Slot` (what a process has
when it is not being built), `Work` (the pages below the loop variable are mapped,
with which contents and flags; the rest of the tree is empty) and `Builders` (no two
calls build the same address space). `VmStepProofs` first proves what
taking, moving, releasing and filling a page does to the places, then that a step
of one process leaves the slots and the work of the others alone, since no place
belongs to two of them, and then one lemma for each step inside the calls.
`VmProofs` has the steps that begin and end a call, `VmInvariant`, and the three
properties. `FailureUndone` is an action property: for each step, either
the image of every process is kept or it is the last step of a successful call of
its own. `VmAssumption` asks for at least one user and one kernel page table, for
page tables of more than one entry, for sizes of segments that are machine words,
and for arguments of `sbrk` within the signed range; the code's page
tables have 1024 entries.

*Files.* `FileInv` rests on one notion, the address at a *place* of a file
(`Addr`: in the inode, or in the indirect block if there is one). `Owned` says that
the marked blocks are the addresses at places, each at one; `Stored` that every
byte the calls have written so far is in the cell of the block at its place;
`FileBounds` that `size` is not ahead of what was written and that a call in
progress ends within the largest file. The last takes the overflow test of `writei`:
`off + n` cannot have wrapped around, as `off` is not beyond the file
(`GoodWrite`; `FileAssumption` asks that the largest file be smaller than `WORD`,
and here (12 + 128) * 512 is less than 2^32). Both the ownership and the bytes need that
`balloc` clears a block: an indirect block comes with no addresses, so a new place
is empty, and no other place changes (`Comes`, `NewBlock`). `bmap` allocates up to
two blocks in a row, so it is taken apart into `Direct` and `Indirect` with a
lemma for each (`DirectIs`, `IndirectIs`). A pass of the loop stays in one block
(`SameBlock`) that is no indirect block, so it changes no address (`Fill`);
`itrunc` gives up the blocks of its file and of no other (`Truncated`).
`FilesKeepContents` follows: `BlocksOnce`, `ReadsBack` and `NoHoles`.

*Console and timer.* `ConsInv` says that the indices `r`, `w` and `e` are as far apart
as the two ghost sequences are long, modulo `UINT`, that every character is in
its cell, that a full ring has no unfinished line (so control-U and backspace
never have to look at the cell that is overwritten next), and that there is no
newline in the unfinished line, which is why the loop of control-U ends where the
line begins. `ConsoleKeepsInput` and `ConsoleEndsFile` follow; the latter needs that
the pass of the loop of `consoleread` stops at the first newline or control-D,
again a least element. `TickInv` says that `ticks - ticks0` modulo `UINT` is the
time passed since the call; `SleepsOnTime` follows as long as n plus the
lateness of a wakeup stays below `UINT` (`DevicesAssumption`, and Known divergences
for the other n).

Only model-checked:

- all liveness properties: the prover has no `ENABLED`, on which fairness rests;
- `References`, `FreedInTime`, `NameSpace`, `NoPanic` and `TestsPass` of `Fs`: reference
  and link counts are sums over the variables of all processes, computed by a
  recursive function, and what such a sum is after a step takes an induction over
  the processes that is out of the prover's reach; the other properties rest on the
  counts (an inode is freed in time because its counts are right), and
  `TestsPass` is about particular programs;
- `Heap`: the free list is followed through memory by a recursive definition;
- `ShellParses` and `ShellPlumbs`: recursive descent against a recursive grammar.

## Not modelled

- Spin locks (spinlock.c) and the nesting of `cli`: below the grain of the models,
  which take a critical section as one step.
- Boot, interrupt controllers, serial port, keyboard map and screen (main.c, mp.c,
  lapic.c, uart.c, kbd.c, ...): programming of devices that runs once or has no
  state of its own. memide.c is not in the default build.
- Trap frames, argument fetching, context switching in assembly, segment
  descriptors, ELF parsing: the formats of the hardware and of files.
- mkfs.c: a host program that runs once; its result is the initial state of `Fs`.
- The tests of usertests.c for memory, pipes and `fork`: their subjects are
  explored in full by `Vm`, `Pipe` and `Proc`. The remaining user programs and the
  library only print or handle strings.
- The mini shell src/OperatingSystem/HW3.c, the FIRST/FOLLOW and LR(0) exercises in
  src/ComplierClass, the calculator and the other class exercises: sequential
  programs, independent of the kernel, that read a terminal and print.
- src/OperatingSystem/proc.c: a copy of the scheduler outside the kernel tree.
