# A TLA+ verification of the xv6-riscv kernel with buddy and slab allocators

The system is a teaching operating system for RISC-V multiprocessors
(`src/xv6-riscv-riscv/`): the xv6 kernel and its user programs, extended by a
buddy allocator (`kernel/buddy.c`), a slab allocator on top of it
(`kernel/slab.c`), and a buffer cache, a file table and pipes that take their
memory from it. This directory holds TLA+ models of its parts, the
configurations with which TLC checks them, and proofs that TLAPS checks.

Contents: [the system](#the-system) · [reading the modules](#reading-the-modules)
· [modules](#the-modules-and-the-code) · [runs](#the-runs) · [fairness](#fairness)
· [proofs](#proofs) · [known divergences](#known-divergences) ·
[not modelled](#what-is-not-modelled) · [next](#next)

All file names below are relative to `src/xv6-riscv-riscv/kernel/` unless they
start with `user/`.

## The system

| part | state | operations | what makes it hard |
|---|---|---|---|
| buddy allocator, `buddy.c` | `free_list[]`, `free_blocks` under `buddy.lock` | init, alloc (split loop), free (merge loop) | long sequences of splits and merges; index arithmetic at the edges |
| slab allocator, `slab.c` | caches with three slab lists, `cache_list`, `buffer_caches` | create, alloc, free, shrink, destroy, kmalloc, kfree | several locks; kmalloc drops one in the middle; memory runs out at each step |
| buffer cache, `bio.c` | LRU list of buffers, refcounts, sleep locks | bread, bwrite, brelse, bpin, bunpin | growth and shrinking; `brelse` unlocks before it decrements |
| log, `log.c` | header in memory and on disk, `outstanding`, `committing` | begin_op, log_write, end_op, commit, recovery | crashes between block writes, also during recovery; space reservation |
| file system, `fs.c`, `sysfile.c`, `file.c` | inode table, disk inodes, bitmap, directory entries | open, create, mkdir, link, unlink, write, close | references held over lock releases; link counts; disk full; crashes |
| file contents, `fs.c`, `file.c` | blocks, indirect block, size, shared offset | readi, writei, bmap, filewrite's transactions | a write of several transactions meets writes and truncations of others; failure in the middle |
| processes, `proc.c`, `trap.c` | process table, `wait_lock`, CPUs | fork, exit, wait, kill, yield, sleep, wakeup | lost wakeups, reparenting, a zombie that still runs |
| memory, `kalloc.c`, `vm.c`, `exec.c`, `sysproc.c` | free pages, page tables, sizes | fork, exec, sbrk (eager, lazy), page fault, exit | memory runs out at any of many allocations |
| pipes, `pipe.c`, `file.c` | ring buffer, two flags | read, write, close, kill | wakeups, wrapping counters, freeing the pipe |
| disk driver, `virtio_disk.c` | descriptors, two rings shared with the device | rw, interrupt | several requests in flight, one interrupt for several completions |
| console, `console.c` | ring buffer with three indices | interrupt (edit), read | wrapping, a full buffer, end-of-file |
| UART, `uart.c` | `tx_busy` | write, putc_sync, interrupt | polling output takes no lock |
| user memory, `vm.c`, `syscall.c` | page table, frames | copyin, copyout, copyinstr | page boundaries, lazily allocated pages, read-only pages, overflow of address plus length |
| interrupts and locks, `trap.c`, `spinlock.c`, `proc.c` | interrupt flag, `noff` and `intena` of each CPU, locks | traps, acquire, release, sched, sleep, the scheduler, the timer | an interrupt between any two instructions; a thread that resumes on another CPU |
| shell and file descriptors, `user/sh.c`, `user/init.c`, `file.c`, `sysfile.c` | descriptors, file table, pipes | parse, fork, pipe, dup, close, exec, wait | descriptors left open keep a pipe's reader waiting |
| libraries and filters, `printf.c`, `string.c`, `user/*.c` | heap of a program; otherwise none | malloc, free, printf, string functions, grep, wc | boundaries: overlap, buffer ends, the most negative number |
| boot, assembly, other user programs, tests | | | see [not modelled](#what-is-not-modelled) |

They stack up as follows. System calls run inside a log transaction and use
inodes; inodes use buffers of the buffer cache, which the log pins; buffers are
read and written by the disk driver. Buffers, pipes and file structures are
objects of slab caches, whose slabs are chunks of the buddy allocator. User
memory and page tables come from the page allocator. Everything that waits
uses `sleep` and `wakeup` of `proc.c`.

Each model takes the layer below it as that layer's own model promises it:
`Slab` takes blocks one at a time from a pool (`BlockPool`), `Log` has buffers
that may be recycled when unpinned (`Bcache`), `Fs` has transactions that are
atomic with respect to crashes (`AtomicDisk`), every module but `Proc` and `Trap`
has a `sleep` that releases its lock and blocks in one step (those two open it
up), `Proc` has locks that work (`Trap` has their instructions), and `Shell`
has system calls that are atomic (`Pipe`, `Proc` and `Fs` have their steps).

## Reading the modules

- **A step is the code between two points at which someone else can
  intervene**: lock operations, `sleep`, disk writes, device registers. A
  critical section that nobody can interrupt is one step. A lock that is held
  from one step to the next is a variable; one that is not is left out.
- **`pc`** says where in a system call each process is; its other fields are the
  local variables that outlive a step.
- **Names** are those of the C functions and fields; an action that is a part of
  a function is named for the part (`BgetGrow`, `UnlinkEntry`).
- **Panics** are not actions: a model either records that one happened (`Log`'s and
  `Vm`'s `panicked`, `Uart`'s `lost`) or has a predicate for it (`Fs`'s `Panics`).
- **`X_Y`**, preceded by a comment `Fault:`, is definition `X` with a plausible
  programming error `Y`. It is used by no specification: substituted for `X`, it
  makes the property that guards against it fail, which shows that the property
  can fail.
- `PROJECT.json` maps every definition to the lines it models and lists the
  hazards of the code with the properties that cover them.

## The modules and the code

**`Buddy`** (`buddy.c`). Blocks are numbered from `memory_start`, a chunk is
`<<first block, order>>`. `free_list` holds the lists as sequences; `op` is the
call that holds `buddy.lock`. `AllocFound`, `SplitStep`, `AllocReturn` are
`buddy_alloc`, one step per iteration of the split loop; `AllocNone` and
`ReturnNull` are its failure; `FreeStart`, `MergeStep`, `FreeReturn` are
`buddy_free`. Powers of two are a constant function `Pow2`, of which only
`Pow2[0] = 1` and the doubling are assumed, so that proofs need no
exponentiation. Reading `free_list[MAX_ORDER]`, one past the array, is modelled
as what it is: a read of `memory_start`.
**`BlockPool`** is the abstract allocator: a request gets an aligned run of
blocks nobody holds and is refused only if there is none.

**`Slab`** (`slab.c`). Blocks are cache headers, slabs or with the buddy
allocator. Lists are linked through `next` and `prev` as in the code. Object
sizes are represented by the number of objects a slab holds, 0 included: a
class too large for its slab. `kmalloc` is three steps, because it drops
`buffer_cache_lock` to create the cache of a class.

**`Bcache`** (`bio.c`, `sleeplock.c`). `list` is the LRU list; `BgetHit`,
`BgetRecycle` and `BgetGrow` are the three outcomes of `bget`; `releasesleep`
and `brelse` are the two critical sections of `brelse`, the second with the
shrinking. `latest` is a history variable.

**`Log`** (`log.c`). `home`, `dlog`, `dhead` are the disk and survive `Crash`,
which may happen in every state. `phase` and `tail` are the progress of
`commit`, or of recovery, block by block. `Recycle` drops an unpinned buffer.
**`AtomicDisk`** is what it promises: the updates of the calls in progress
become durable together, when all have ended.

**`Fs`** (`fs.c`, `sysfile.c`, part of `file.c`). `dinode` and `bitmap` are the
disk as the buffer cache shows it, `inode` the inode table, `file` one open file
per process. A file's contents are the set of its blocks, the indirect block
included; a directory's are its entries. `SysCall` starts a call of the constant
`Calls`; `NamexStep` walks one name; `iput`, `IputLast`, `itrunc`, `Ifree` are
`iput` with the freeing of an inode in the steps the code has. `Reboot` is a
crash: since a transaction is atomic (`Log`) and the log commits when no call is
outstanding, the disk after a crash is one of a state without calls; the
recovery is `ireclaim`. `stray` is a history: the inode had a name in a directory
that was freed with names in it.

**`Proc`** (`proc.c`, `trap.c`). The process table with states, parents,
`killed` and `chan`; `lock[p]` is `p->lock` where it is held over a context
switch, `wait_lock` its holder. `kfork`, `kexit` with `reparent` and its
`wakeup` slot by slot, `kwait` with its scan slot by slot, `kkill`, the timer's
`yield` and the scheduler on each CPU.

**`Vm`** (`kalloc.c`, `vm.c`, memory of `proc.c` and `exec.c`, `sys_sbrk`).
`space[p]` is a page table as the physical pages it consists of and maps; each
`kalloc` is a step, so that another process can take the last page in between,
and each may fail. Sizes are in half pages, so that they need not be aligned.
`vmfault` passes a page it cannot map to the slab allocator's `kfree`
(`slab_kfree`), which follows the words in front of the page: the page is in `lost`
from then on, and the kernel may have panicked.

**`Pipe`** (`pipe.c`, `fileclose`). Byte by byte, with the counters modulo
`WORD`. Byte number *k* has value *k*, which makes loss and reordering visible.

**`Virtio`** (`virtio_disk.c`). The descriptors and the two rings; the device is
external, takes requests in ring order and completes them in any order. A process
that finds one or two free descriptors takes them and gives them back (`GivenBack`).

**`Console`** (`console.c`). The ring buffer with `r`, `w`, `e` modulo `WORD`.
**`LineEditor`** is the same without indices: complete lines, and a line under
edit.

**`Uart`** (`uart.c`). Characters sent are counted; the FIFO of the device and its
interrupt are external. A character received also runs `uartintr` (`Receive`), which
looks at the transmitter too.

**`SlabSizes`** (`slab.c`). The byte arithmetic that `Slab` abstracts: the class
of a request, the blocks and the objects of a slab, with the constants of the
code; the loops are recursive functions. The references are closed forms.

**`FileIO`** (`fs.c`, `file.c`). The contents of one inode that several
processes have open, byte by byte through `bmap`, `readi`, `writei` and
`itrunc`; a byte is the name of who wrote it. `filewrite` is one step per
transaction, as each holds the inode's lock. The size arithmetic is that of
`uint`. `flat` is what the file should hold; `log` counts the blocks a
transaction has logged.

**`UserMem`** (`vm.c`, `syscall.c`, `proc.c`). `copyout`, `copyin` and
`copyinstr` as functions on an address space, page by page, with the faults
they take. The reference is a flat memory.

**`Trap`** (`trap.c`, `spinlock.c`, `proc.c`, `sysproc.c`). `code[t]` is what a
kernel thread still has to do, an instruction per access to a lock, a flag or
shared data; `acquire`, `release`, `sleep`, `sched` are sequences of them. An
interrupt puts `kerneltrap`, or `usertrap`, in front of it. `sie`, `noff` and
`intena` belong to the CPU, `code` and `saved` to the thread.

**`Parser`** (`user/sh.c`). The recursive-descent parser with its place in the
line passed along; what a function does after a call is an operator that takes
the call's result (`PipeAfter`, `LineAfter`, `CloseBlock`). The reference is the
grammar: the set of trees a sequence of tokens has.
**`Shell`** (`user/sh.c`, `user/init.c`, `file.c`, `sysfile.c`) runs its trees:
`code[p]` are the system calls a process still makes, `runcmd` expands a tree
into them. Descriptors, the file table and pipes are those of the kernel.

**`Umalloc`** (`user/umalloc.c`). The circular list, the search from `freep`, and
`morecore`. **`Filters`** (`user/grep.c`, `user/wc.c`), **`Libc`** (`string.c`,
`user/ulib.c`) and **`Printf`** (`printf.c`, `user/printf.c`) are operators that
translate the functions loop by loop, and reference definitions beside them. The
kernel's and the library's printf are translated separately (`lib_…`), with their own
digits, `printint` and `printptr`, and compared.

## The runs

Every run is exhaustive for its bounds. `MC…` modules add values and symmetry
sets that a configuration cannot express. Some of them put modules that share no
state side by side, whatever their subjects: a variable `part`, chosen at the
start, says which one a behaviour is about, and the state space is the sum of
theirs. Pure functions have one state for each input.

| run | modules | states | properties |
|---|---|---|---|
| `memory` | Buddy, Vm, UserMem | 180 675 | NoOverlap, Covers, FreeBlocksExact, PoolSpec, PagesOwnedOnce, CopiesFlat |
| `slab_disk` | Slab, SlabSizes, Virtio | 976 539 | SlabsOnTheirList, BlocksAccounted, ObjectsOwnedOnce, SizesFit, RequestInOnePlace, NoLostWakeup |
| `log` | Log | 720 152 | LogHasRoom, AtomicCommit, SleepersWoken |
| `proc` | Proc | 2 218 764 | NoLostChild, RunsOnOneCpu |
| `bcache` | Bcache | 152 779 | BufferStaysMine, ReadsLatest |
| `pipe` | Pipe | 201 486 | StreamIntact, NoLostWakeup, EofMeansEnd, CloseUnblocks |
| `fs` | Fs, FileIO | 1 057 120 | RefsExact, DiskConsistent, InUseNotFreed, FileIsFlat, TransactionFits |
| `traps` | Trap, Console | 2 155 871 | NoffExact, FlagFollowsProcess, NoRaceWithWfi, NoLostInput, EditsLines |
| `user` | Shell, Parser, Uart, Umalloc, Filters, Libc, Printf | 131 281 | RefsMatchDescriptors, NoOverrun, ParsesLines, HeapTiled, FunctionsRight, EveryJobEnds, WritesEnd |
| `fs_dotdot` | Fs | violation | InUseNotFreed |
| `slab_sizes` | SlabSizes | violation | ClassServes |
| `vm_fault` | Vm | violation | NoPageLost |

What they show, and why their bounds are enough:

- **memory**, buddy allocator: 8 blocks, four orders, requests of 1 to 9 blocks.
  Every split depth and merge depth occurs, a request may be larger than the
  region, and there is one order more than the region needs. No memory is handed
  out twice or lost in any step of any call; the count of free blocks is right;
  and (`PoolSpec`) a request fails only if no aligned run of its size is free,
  which means that merging is always complete.
- **memory**, address spaces: three processes, of which init is one, and thirteen
  pages, of which init needs five at first and a full process eight. Two
  processes can be in fork, exec, sbrk or a page fault at a time while a third has
  memory of its own; every allocation in them also fails, with others half way.
  Growth by one and a half pages exercises the rounding. `PagesOwnedOnce`: each
  page is free, in exactly one place of one address space or call, or `lost`, and
  a process maps nothing beyond its size but what a call is mapping. `VIEW`:
  states are told apart by which places hold a page and by the numbers of free and
  of lost pages, not by which page is where. No guard asks which page it is, so
  states alike in this go on alike as long as each page is in one place; whether
  that is so is itself part of the view, so that a state in which it is not
  is looked at when it is reached.
- **memory**, copies: all spaces of up to three pages of two bytes, each writable,
  read-only, for the kernel only, promised or beyond the size, with up to two free
  frames, all addresses up to past the end of memory and all lengths. Every frame
  has a byte of its own, so a copy from or to the wrong page shows.
- **slab_disk**, slab allocator: two threads, three blocks, objects of which a
  slab holds 0, 1 or 2, one class of kmalloc. Two caches and one slab, or one
  cache and two slabs, use up the memory, so creation, growth and kmalloc also
  fail. A slab of one object goes from empty to full at once, the case in which
  both list moves happen; both threads can create the cache of the class at the
  same time. The sizes, with the code's own constants, are all up to 100, every
  power of two up to 2^17 with its neighbours, where classes and slabs change,
  and the numbers half way between. `SizesFit` is about layout; that every class
  can serve a request is `ClassServes`, of the run `slab_sizes`.
- **slab_disk**, disk driver: three processes and four, five or six descriptors.
  Six have room for two requests, and the third waits; of four or five, one or two
  are left over by a request, so that `alloc3_desc` takes them and has to give them
  back (the code's ring of eight leaves two). The ring indices wrap at the number
  of descriptors.
- **slab_sizes**, **vm_fault**: see [known divergences](#known-divergences).
- **log**: two processes, four blocks, a log of four blocks, two reserved per
  call. A second call has to wait when a commit is due or the log is full, the
  log fills, blocks are absorbed, and a crash may follow every block write, in
  recovery too.
- **proc**: four slots, two CPUs. Enough for init, a parent, its child and a
  bystander, with two of them in the kernel at once: a child that exits while
  its parent exits, waits or is killed.
- **bcache**: three processes, three blocks, one permanent buffer of three:
  every process may need another buffer, so the cache grows twice, recycles and
  shrinks. Symmetry in processes, blocks and buffers.
- **pipe**: three processes of which at least one reads and one writes, a buffer
  of two bytes, counters that wrap at 4, calls of 1 and 3 bytes, five bytes in
  all (`MaxBytes`), one process that may be killed. Calls both shorter and
  longer than the buffer occur. `CHECK_DEADLOCK FALSE`: when all have closed
  their ends nothing is left to do, and a program may also wait on a pipe whose
  other end only itself keeps from being used.
- **fs**: two processes, a directory `a`, a file that is `a/c`, `c` or both,
  three inodes and three blocks, every mix of mkdir, create, open (with and
  without truncation), write, link, unlink and close, and a crash between
  transactions. `DiskConsistent`: an inode has as many links as there are
  names of it, give or take what calls in progress are about to change; only a
  `stray` one may have more. Both inodes and blocks run out; a write that needs the indirect
  block always comes up short of its data block. The inode table has as many
  entries as there are inodes, so `iget` never lacks one; the panic for a full
  table (`NINODE` = 50) is not modelled. A directory's entries fit in its block;
  its growth by another block appears only as the failure for want of one.
  Paths with `..` are in the next run. For the contents: blocks of two bytes, two
  direct and three indirect ones, a disk of five, two writes of 3 or 7 bytes by
  any of three processes, of which two share an offset, two reads, a truncation
  and a bad address. A write of 7 bytes takes several
  transactions, crosses into the indirect blocks and exhausts the disk;
  `MAXOPBLOCKS` = 6 makes a transaction one block long, so that everything can
  come in between.
- **fs_dotdot**: the same processes walk `a/c/..`. See
  [known divergences](#known-divergences).
- **traps**: two processes on two CPUs, one tick to wait for, ticks that wrap at
  2. Each is interrupted at every instruction at which interrupts are on, in
  user space, in the kernel and in the scheduler, and may resume on the other
  CPU. The console has a buffer of three characters, indices that wrap at 6, two
  readers asking for up to three characters; the buffer fills with and without a
  newline.
- **user**: six command lines with pipelines of two and three programs,
  redirections, a block, background jobs and errors, typed to a shell with six
  process slots, five descriptors, six files and two pipes of one byte: slots,
  files and pipes run out. Two writers of two characters, two polling CPUs and a
  FIFO of three, exactly as many as can be in flight. A heap of 11 units with
  requests of 1, 2 and 4 and a program that moves the break itself. Command
  lines of up to four characters for the parser, and of words and pipes up to
  six, with `MAXARGS` = 3: commands of too many words occur, alone and in
  pipelines; patterns up to 3 characters and texts up to 6, with a line buffer
  of 4 for grep and of 3 for wc, however cut into reads; memories of 7 bytes
  with every overlap; numbers of 8 bits; formats of up to 5 characters, in which
  the two printfs must print the same but for the case of hexadecimal digits.
  `CHECK_DEADLOCK FALSE`: a job that has ended, and a function that has been
  evaluated, leave nothing to do.

## Fairness

Four properties need it: `SleepersWoken`, `CloseUnblocks`, `EveryJobEnds` and
`WritesEnd`.

- **Log**: weak fairness of commit and of a started `log_write`, as the scheduler
  runs every process; strong fairness of `end_op`, because a call may log block
  after block in between but writes finitely often. Nothing is assumed of
  `begin_op`: the property is that a sleeper is woken, not that it wins the
  race for space, which the code does not promise.
- **Pipe**: the scheduler goes round the process table (`proc.c:432`), so a
  runnable process runs (weak fairness of its steps). A spinlock is an atomic
  swap without a queue, so getting one is strongly fair: it is had by who keeps
  trying while it is free again and again. This is the one assumption hardware
  has to justify.
- **Shell**: weak fairness of the steps of each process, of init's start of the
  shell and of its `wait`, for the same reason. Typing is not fair: no line need
  be entered.
- **Uart**: the same of processes; the device sends what it holds, and interrupts
  are delivered. `WritesEnd` makes its own premises explicit: the pollers stop,
  and other writers do not take the lock each time.

`Buddy` has weak fairness of a started call; no property of a run uses it.

## Proofs

Seventeen theorems, for every value of the constants. Each rests on an inductive
invariant that is true initially, is kept by every action (one lemma per action)
and implies what the theorem states.

| theorem | module | states |
|---|---|---|
| `TilingInvariant` | `BuddyProofs` | `ASSUME OneChunkRegion PROVE Spec => [](TypeOK /\ NoOverlap /\ Covers)` |
| `RegionIsCovered` | `BuddyProofs` | `ASSUME OneChunkRegion PROVE Spec => []Covers` |
| `FreeCountIsExact` | `BuddyProofs` | `ASSUME OneChunkRegion PROVE Spec => []FreeBlocksExact` |
| `ImplementsPool` | `BuddyProofs` | `ASSUME OneChunkRegion PROVE Spec => PoolSpec` |
| `NoBlockLost` | `SlabProofs` | `Spec => []BlocksAccounted` |
| `NoObjectLost` | `SlabProofs` | `Spec => []ObjectsOwnedOnce` |
| `ListsAreRight` | `SlabProofs` | `Spec => []SlabsOnTheirList` |
| `BuffersStayMine` | `BcacheProofs` | `Spec => []BufferStaysMine` |
| `CacheIsCoherent` | `BcacheProofs` | `Spec => []ReadsLatest` |
| `LogNeverFull` | `LogProofs` | `ASSUME LogAssumption PROVE Spec => []LogHasRoom` |
| `LogIsAtomic` | `LogProofs` | `ASSUME LogAssumption PROVE Spec => AtomicCommit` |
| `OneCpuPerProcess` | `ProcProofs` | `ASSUME ProcAssumption PROVE Spec => []RunsOnOneCpu` |
| `ChildrenAreWaitedFor` | `ProcProofs` | `ASSUME ProcAssumption PROVE Spec => []NoLostChild` |
| `StreamStaysIntact` | `PipeProofs` | `Spec => []StreamIntact` |
| `NoWakeupIsLost` | `PipeProofs` | `Spec => []NoLostWakeup` |
| `EndOfFile` | `PipeProofs` | `Spec => EofMeansEnd` |
| `NeverOverrun` | `UartProofs` | `ASSUME UartAssumption PROVE Spec => []NoOverrun` |

The assumptions are the named ones of the component's module; those that the table
does not show are assumed in the module itself (`SlabAssumption`,
`BcacheAssumption`, `PipeAssumption`). They say that the sets of blocks, buffers
and users of a buffer that are counted are finite, that `NULL` is none of the
values it is compared with, and of the sizes: at least one buffer (`NBUF`), a
ring of at least one byte, counters whose range is a multiple of it (512 and
2^32 in `pipe.c`), at least init and one more process. TLC evaluates them in the
runs.

**Buddy allocator.** No sequence of `buddy_alloc` and `buddy_free` hands out
memory twice, loses memory or hands out memory outside the region, and this
holds in every iteration of the two loops. `OneChunkRegion` says that the region
is a power of two that needs fewer orders than the array has and that
`buddy_init` lists it as one chunk; it holds of the region `main.c` passes (1024
blocks, 15 orders), and `MCMemory` asserts it of the instance it
checks. The other assumptions are those named in `Buddy`: `Pow2` doubles, the
constants are natural numbers, `max_order` fits the array.

The invariant is `IInv == TypeOK /\ LoopOrders /\ NoOverlap /\ Covers`.
`NoOverlap` and `Covers` speak of the chunks on the lists, those clients own and
the one a loop has in its hands, so they are preserved by each iteration and not
only by whole calls. They are not inductive alone: `LoopOrders` bounds the orders
the loop variables and the owned chunks range over (a split never goes below the
order asked for, nothing exceeds `max_order`), and says that `memory_start` has
not been overwritten through the list behind the array. Tiling needs no
alignment: `get_buddy` flips one bit of the index, so a chunk and its buddy are
adjacent and `get_parent` is the lower of the two for any index, and a merge
happens only when the buddy is found on the list of the same order. Lemmas about
lists (`PushElems`, `RemoveElems`, `TailElems`) and geometry (`SplitTiles`,
`BuddyAdjacent`, `MergeTiles`) lead to one lemma per action. `FreeCountIsExact`
counts the blocks outside the chunks of clients: a grant takes an interval of
them away and a return adds one.

`ImplementsPool` is the refinement of `BlockPool`: a grant is a run of the order
asked for that was free, and a request is refused only when no aligned run of free
blocks of that order exists. The second half is the hard one, for the code looks
only at its lists. It needs `Shape`: chunks start at multiples of their size, and two
buddies are never both listed (the merge loop stops only when the buddy is not).
Suppose every list from the order asked for upward is empty and a run of that
order is free. All its blocks are then in listed chunks of smaller orders
(`Fragmented`). A fragmented run of order `o + 1` has two halves; if both were
listed they would be buddies, so a half that is not listed is itself fragmented
(`FragmentedPart`). A fragmented run of order 0 cannot be. As the order is a number
below `MAX_ORDER`, the descent ends in the contradiction: the least order with a
fragmented run does not exist (`NoneFragmented`).

**Slab allocator.** The invariant, in `SlabInv`, is

    Inv == TypeOK /\ WellListed(Memory) /\ Right(Memory, held, DyingOnes)
           /\ OneUse /\ Listed /\ Threads /\ Public

`WellListed`: every slab has a position on the list that its number of free
objects calls for, `next` and `prev` lead to the slabs at the neighbouring
positions, and the head is at position 0. Positions make the links of three lists
of every cache one statement about neighbours, of which an insertion at the head
and a removal anywhere change a constant number. `Right`: in a slab every object is
on the free list once or held once, and `num_free`, `num_allocated` and `num_slabs`
count exactly; the counts of a cache that is being destroyed are exempt.
`OneUse`: a block is in the pool, a header or a slab. `Listed`: `cache_list` names
the valid caches, but for those about to be entered. `Threads`: a cache being
created or destroyed is known to its thread alone; whoever is between two steps of
shrink or destroy holds the lock. `Public`: clients hold objects of valid caches and
free them through the cache they came from. None of the three properties is
inductive without the others: that a slab may be returned to the pool follows from
its list (empty), what this says of its counter, and what the counter says of the
held objects.

`Slab`'s operations change a record of the whole memory (`Memory`), several links
at a time. `SlabInv` proves what each operation on the memory does (`AddIs`,
`RemoveIs`, `TakeIs`, `PutIs`, `GrownIs`, ...) and that it keeps `WellListed` and
`Right`; `SlabProofs` follows the threads through their steps and adds what concerns
them. `SlabsOnTheirList` speaks of walks from the head of a list: `WalkIs` shows
that the slab after `n` steps is the one at position `n`. The laws of cardinality
and of least numbers are a hypothesis, `Counting`, of the lemmas up to `StepKeeps`;
`CountingHolds` proves it from the library, which is instantiated only there: the
fewer facts are in scope, the faster a leaf is checked.

**Buffer cache.** `Coherent == TypeOK /\ Listed /\ (\A p : Has(p)) /\ OneBuffer
/\ Counted /\ Fresh`. `Counted` gives `refcnt` as the number of processes that have
the buffer and its pin. `Fresh`: a valid buffer has the latest contents, and so has
the disk unless the block is pinned or somebody is changing it. `Listed`: the list is
longer than `NBUF` only while its last buffer is in use, which is what the loop
at the end of `brelse` establishes again; its last iteration is found as the least
number of removals after which the loop stops (`Least`).

**Log.** `LogProofs` has the invariant both theorems use,

    Recoverable == TypeOK /\ Lists /\ Quiet /\ Buffers /\ Progress

`Lists`: neither list names a block twice and both fit the log. `Quiet`: nobody
is in a system call while the log is committed or recovered, and `outstanding`
counts those who are. `Buffers`: a block of the transaction that is not yet
installed has a buffer, pinned once; every other buffer that nobody is changing
equals the disk, so it may be dropped. `Progress`: how far commit or recovery is,
phase by phase: which log blocks are written, and which home blocks. One lemma
per action shows that it is inductive.

`LogIsAtomic` is a refinement. `Recovered`, what a reboot would make of the disk,
is `AtomicDisk`'s `durable`; what system calls read is its `mem`. Every step of
commit and of recovery maps to a stutter (`Hidden`), because it writes blocks that
a reboot would overwrite or not look at, except the write of the header: it maps
to the abstract `Commit`. There `Progress` says that the log holds the
transaction, and `Buffers` that every other block is at home. A crash, wherever
it happens, maps to the abstract `Crash`.

`LogNeverFull` adds

    Room == Len(lh) + Cardinality(Left) <= LOGBLOCKS /\ ...

where `Left` has an element `<<p, k>>` for every slot that `begin_op` has reserved
for `p` and `p` has not used. A call that logs a block new to the transaction
removes an element; absorbing a block or ending a call removes none or more.
`begin_op` adds at most `MAXOPBLOCKS`, which its test has left room for. As a call
logs fewer than `MAXOPBLOCKS` blocks (`LogAssumption`), it always has a slot left,
so `log_write` finds room. Counting slots as a set needs no sum over processes,
and so no induction.

**Processes.** `Separate == TypeOK /\ Apart /\ \A p : Fits(p)`. `Fits` relates a
process's state, its place in the code, its lock and whether a CPU runs it: the
lock is held from the moment the state changes until the CPU has left the
process. `Apart`: no two CPUs run one process and no two calls of `fork` have
the same slot. `RunsOnOneCpu` alone is not inductive: it says nothing of a process
between `kexit`'s change of state and `swtch`.

`ChildrenAreWaitedFor` adds `Family`. `Stage` says who holds `wait_lock` and where a
process in each state is; `Kin`, that a parent is alive and that a process
has one from before it first runs; `Work`, what the loops of `reparent`, `wakeup`
and `kwait` have done so far (no child of the exiting process below the index; no
sleeper on the channel below the index; no zombie child below the index); `Rest`,
that who sleeps in `kwait`, or is about to, has a child, and a zombie child only
while the `wakeup` of its `kexit` is still to reach it. `Work` is what carries the
facts from one iteration to the next: `wait_lock` is held throughout.

**Pipes.** `Inv == TypeOK /\ Mutex /\ Users /\ FreedOnce /\ Ring /\ Sleepers`.
`Ring`: the counters are the numbers of bytes read and written modulo 2^32, these
differ by at most `PIPESIZE`, and the ring holds the bytes in between; lemmas on
remainders (`ModAdd`, `ModMod`, `ModDiff`) take it over the wrap. `Users`: an end
is open as long as somebody has it and until its last `pipeclose` is through.
`Sleepers`: a reader sleeps on an empty pipe whose other end is open, or a writer
is at work that has yet to wake it, or a process has been killed; likewise a
writer. `EofMeansEnd` is an action property: `Users` and `Ring` say of the step in
which a read ends empty-handed that no writer is left and every byte has been read.

**UART.** `OneEach`: the characters in the FIFO and the CPUs about to write one
are, together, no more than the CPUs, and one more while `tx_busy` is set. A CPU
that polls sees an empty FIFO, which is what bounds the others.

Only model-checked: the other properties, for one of these reasons.

- Liveness under fairness (`SleepersWoken`, `CloseUnblocks`, `EveryJobEnds`,
  `WritesEnd`) is outside what the prover does.
- What a function defined by recursion computes (`Parser`, `Libc`, `Filters`,
  `Printf`, `SlabSizes`, `Umalloc`, `UserMem`, `FileIO`) needs induction over its
  input, which it does not have.
- `Virtio`, `Console`, `Fs`, `Vm`, `Trap` and `Shell` have no proofs yet. Their invariants
  are of the same kind as those proved.

## Known divergences

Where the code and what it says of itself disagree, or where a model had to take
an assumption.

- **`..` of a removed directory** (run `fs_dotdot`; `fs.c:596`). A walk in `a/c`
  refers to `c`, not to `a`. After both have been removed, `..` in `c` names an
  inode that is free: `ilock` panics with "ilock: no type". When the number has
  been used again the walk continues in another directory or file.
- **A file created in a removed directory** (`sysfile.c:254`). `create` does not
  look at the directory's link count once it has it locked. When the directory
  is then freed, the new inode keeps `nlink` 1 without an entry and is never
  freed, by `ireclaim` either; `fs.h:36` calls `nlink` the "Number of links to
  inode in file system". `Fs` reaches such states, and marks the inode `stray`;
  `DiskConsistent` allows a surplus of links of these inodes only.
- **Regions that are no power of two** (`buddy.c:131`): the pointer to a struct of
  8 bytes is advanced by a byte count, so all chunks but the first lie outside
  the region; the comment at line 122 promises `23 -> [16][4][2][1]`.
- **Regions of 8193 to 16384 blocks** (`buddy.c:149`): `max_order` is 15, and the
  search reads `free_list[15]` behind the array, which is `memory_start`.
- **A second `kmem_init`** through the system call (`sysproc.c:146`) leaves the
  kernel's caches in the old region; `buddy_init` clears `max_order` lists
  although list `max_order` is searched, too (`buddy.c:114`).
- **Size classes above 32768 bytes** (run `slab_sizes`; `slab.c:53`): a slab has at
  most 16 blocks, which holds no such object with its header, so kmalloc fails;
  `slab.h:101` promises classes up to 2^17. TLC's counterexample to `ClassServes`
  is a request of 32769 bytes.
- **Constructors** are stored but not called (`slab.c:256`; `slab.h:70`).
- **`pipe_cache`** is created without a lock (`pipe.c:36`): two first calls of
  `pipealloc` may create two caches.
- **`vmfault`** (run `vm_fault`; `vm.c:469`) frees a page of `kalloc` with the slab
  allocator's `kfree` if it cannot be mapped. `kfree` takes the words in front of the
  page for an object's header; it faults, or changes nothing and the page is not on
  the free list again, which `user/usertests.c:3210` tests for. `NoPageLost` states
  that this does not happen; `PagesOwnedOnce` that no page is lost in another way.
- **Two printfs**: the kernel's writes hexadecimal digits in lower case
  (`printf.c:26`), the library's in upper case (`user/printf.c:7`).
- **A cache made twice** (`slab.c:408`): two threads that call kmalloc for the first
  time in a class may both create its cache; one of the two stays on `cache_list`
  and serves no further request.
- **A kill between the test of `killed` and `sleep`** (`proc.c:415`, also in
  `piperead`, `consoleread`, `sys_pause`) wakes nobody: the process sees it when
  it is next woken.
- **`kill(0)`** finds a free slot, whose pid is 0, and marks it (`proc.c:607`).
- **A killed writer** of a pipe returns without waking the readers of what it has
  stored (`pipe.c:105`); `Pipe`'s `NoLostWakeup` makes the exception explicit.
- **`log_write`** tests for a full log before it looks for the block in it
  (`log.c:221`), so a call may use one block fewer than `MAXOPBLOCKS`:
  `LogAssumption`'s `OpBlocks < MAXOPBLOCKS`.
- **`filewrite` after a failed transaction** (`file.c:168`): the offset has moved by
  what the completed transactions wrote although the call returns -1, and a byte
  of a copy that failed on the way may stay in the file. `FileIsFlat` allows
  exactly these bytes.
- **`morecore`** (`user/umalloc.c:56`) passes a byte count to `sbrk(int)`; requests
  near 4 GB overflow it. `Umalloc` counts in units below that bound.
- **Waiters for descriptors** wake each other in vain (`virtio_disk.c:208`): each
  gives back the one or two it took, which wakes the rest. `Virtio` has it; no
  termination is claimed of it.

## What is not modelled

- Boot, assembly, the PLIC, control registers (`start.c`, `main.c`, `entry.S`,
  `swtch.S`, `trampoline.S`, `plic.c`): no state that a property could tell apart
  at this level. `swtch` is the hand-over of `p->lock` in `Proc` and of the CPU in
  `Trap`; `uartinit` and `virtio_disk_init` are initial states.
- A second `kmem_init`, constructors, and the lazy creation of `pipe_cache`: see
  [known divergences](#known-divergences).
- The current directory (`chdir`, `cd`), device nodes (`mknod`) and `fstat`.
- The ELF format, argument layout of `exec`, the kernel's own page table.
- `usertests.c`, `grind.c`, `forktest.c` and the other test programs, the small
  programs of `user/` (`ls`, `mkdir`, `rm`, ...), `mkfs.c` and CMake's generated
  compiler test: they exercise the kernel, and the models let processes make any
  calls instead.
- Printing of statistics and listings in `buddy.c`, `slab.c`, `proc.c`.
- Memory order: locks order memory, and what is shared without locks is a step
  of its own. The fences in `virtio_disk.c` are taken to work.
- The deadlock order of the kernel's locks as a whole: each run checks deadlock
  among the locks of its module.

## Next

1. A current directory in `Fs`; a second `kmem_init`, and `pipealloc` over `Slab`.
2. Proofs: `Virtio`'s `RequestInOnePlace`, `Trap`'s `NoffExact`.
