# TLA+ models of the xv6 MLFQ kernel

This directory holds TLA+ specifications of the system in `src/`: xv6 for
RISC-V with a multi-level feedback queue (MLFQ) scheduler, its file system,
drivers and memory management, and two pieces of its user level. TLC checks them
on small instances. TLAPS proves the safety of the scheduler, the process life
cycle, the spinlocks, the statistics calls, the log, the buffer cache, the disk
driver, the console, timed sleep, files and pipes, and the page allocator with
the calls that use it, for every size.

## The system

| Part | Operations | What makes it hard | Modules |
|---|---|---|---|
| MLFQ scheduler (`proc.c`) | `scheduler`, `priority_boost`, `yield`, `setprocpriority` | every CPU scans one table, one `p->lock` at a time; `p->lock` is held across `swtch` | `Mlfq`, `MlfqOrder`, `MlfqRules` |
| Timer path (`trap.c`) | `clockintr`, `mlfq_check_timer`, `usertrap`, `kerneltrap` | interrupts nest in the scheduler and in system calls | `Mlfq` |
| Process life cycle (`proc.c`) | `fork`, `exit`, `reparent`, `wait`, `kill`, `sleep`, `wakeup` | two kinds of lock, orphans, kills at any moment, lost wakeups | `ProcLife` |
| Spinlocks (`spinlock.c`) | `acquire`, `release`, `push_off`, `pop_off`, with `sched` | `noff` and `intena` belong to the CPU, but the thread moves | `Spin` |
| Statistics (`proc.c`) | `getpstat`, `getprocinfo` | reads the table slot by slot, and `p->parent` without `wait_lock` | `Pstat` |
| Timed sleep (`sysproc.c`, `trap.c`) | `sys_sleep`, `clockintr` | `ticks` wraps around | `Clock` |
| Log (`log.c`) | `begin_op`, `end_op`, `log_write`, `commit`, recovery | a crash between any two disk writes | `Log`, `AtomicDisk` |
| Buffer cache, sleep locks (`bio.c`, `sleeplock.c`) | `bget`, `bread`, `bwrite`, `brelse`, `bpin`, `bunpin` | recycling while others wait | `Bcache` |
| File contents (`fs.c`) | `balloc`, `bfree`, `bmap`, `itrunc`, `readi`, `writei` | indirect blocks, a full disk half way | `FileData`, `ByteFile` |
| Inodes, directories, paths (`fs.c`, `sysfile.c`) | `iget`, `ilock`, `iput`, `ialloc`, `namex`, `create`, `sys_link`, `sys_unlink`, `sys_chdir` | the last reference against a new lookup; paths through removed directories | `Inode` |
| Files and pipes (`file.c`, `pipe.c`) | `filedup`, `fileclose`, `pipewrite`, `piperead`, `pipeclose` | one end closes while the other sleeps; wrapping counters | `Files`, `Fifo` |
| Console, UART (`console.c`, `uart.c`) | `consoleread`, `consoleintr`, `uartputc`, `uartstart`, `uartintr` | processes against interrupts, full rings | `Console`, `Terminal`, `Uart` |
| Disk driver (`virtio_disk.c`) | `virtio_disk_rw`, `virtio_disk_intr` | a full descriptor table, completions in any order, a device beside the handler | `Virtio` |
| Memory (`kalloc.c`, `vm.c`, `exec.c`) | `uvmalloc`, `uvmdealloc`, `uvmcopy`, `growproc`, `fork`, `exec`; `copyin`, `copyout`, `copyinstr` | undoing a partial failure; page boundaries | `Memory`, `UserCopy` |
| Shell (`sh.c`) | the parser; `runcmd` of a pipeline | everyone waits for someone to close a descriptor | `ShParse`, `Shell` |
| User heap (`umalloc.c`) | `malloc`, `free`, `morecore` | merging on a circular list | `Umalloc` |

`PROJECT.json` lists every part with its status, every definition with the lines
it models, and every hazard with its line.

## Modules

**`Mlfq`** models the scheduler and the timer path. A critical section under one
`p->lock`, under `mlfq_lock` or under `tickslock` is one step. Each CPU has a
position `pc` in its code:

- `check`, `boost`, `boostp`, `scan`: the loop of `scheduler()`, with
  `priority_boost()`. `level` and `slot` are the loop variables.
- `resume`, `swtch`: the two sides of a context switch, with `p->lock` held.
- `run`: a process with interrupts on, in user space or in a system call.
- `tick`, `mtick`, `yield`: a timer trap, with interrupts off.
- `wake`: the loop of `wakeup()`. `ret` is where it returns to.

`plock` is a variable because the lock outlives a step. `np` is the local of
`fork()` on the parent's stack. `allocproc()` may return any UNUSED slot here:
slots freed behind its scan make that possible in the code too, and the model
does not require it to be the first. `MLFQ_TICKS` gives a quantum for each queue,
so the `default` branch of `get_time_slice()` is unreachable, which `TypeOK` shows.

**`MlfqOrder`** adds a history variable to `Mlfq`: who has waited in one queue
during the whole of a CPU's present scan.

**`MlfqRules`** adds history variables for two of the rules in `src/README.md`,
and a timer that strikes every CPU once per period, as `timerinit()` sets it up.

**`ProcLife`** models `fork`, `exit`, `wait`, `reparent`, `kill`, `sleep` and
`wakeup` at the grain of `wait_lock` and `p->lock`. RUNNABLE stands for RUNNING
too, because scheduling is `Mlfq`'s subject. The scan of `wait()` and the loop of
`reparent()` are one step each: both run under `wait_lock`, and no process
becomes a zombie or changes its parent without it. The other sleeps of the kernel
are of two kinds. `sys_sleep()` tests `killed` and then sleeps, again and again
(`IoTest`, `IoSleep`, `IoReturn`). `exit()` sleeps any number of times while it
closes its files and drops its directory, killed or not (`ExitSleep`), before it
takes `wait_lock`. `Sleepers` are the slots whose processes do either.

**`Spin`** has the locks as sets held by a context: a kernel thread or a CPU's
scheduler. A thread holds at most a device lock and then its `p->lock`; it takes
interrupts when they are enabled, and `sched()` may continue it on another CPU.

**`Pstat`** has the readers over a table that changes under them. Only `pid`
and `parent` of a process matter; `stable` is a history variable: the processes
that have existed, with one parent, since the call began. The compiler is taken
to load `p->parent` once, as it does at the `-O` of the Makefile.

**`Log`** takes each block written to the disk as one step, in `commit()` and in
recovery, and may crash before any of them. The cache appears in it as far as the
log depends on it: the copy of a block, its references, its eviction. `AtomicDisk`
is what the file system relies on. **`Bcache`** has the cache itself, at the grain
of `bcache.lock` and the sleep locks; its processes use it as the log does.

**`FileData`** has operations on file contents as single steps, since each holds
the inode's lock and runs in a transaction. Blocks are arrays of cells, which are
bytes or block numbers. `ByteFile` is the file as a sequence of bytes.

**`Inode`** has the inode table and the directory tree. A step ends where the
process next waits for an inode's lock or takes `itable.lock` again, so every
window between `iget()`, `ilock()` and `iput()` is there. A system call is the
sequence of those steps with its error paths. A call that finds every slot of
the table in use goes no further: `iget()` panics there.

**`Files`** has the file table, descriptors and one pipe; `fileclose()` releases
`ftable.lock` before it calls `pipeclose()`, which is a step of its own.
**`Shell`** runs `runcmd()` of `left | right` on top of `Files`: the composition
of shell, `fork`, `dup`, `close`, `exit` and the pipe. `Fifo` is what a pipe promises.

**`Console`** and **`Uart`** are the two directions of the console. What is echoed
is left out, but that echoing bypasses `uart_tx_lock` is kept. `Terminal` is the
line editor the console promises. **`Virtio`** has the driver beside a device that
takes requests in order and completes them in any order. The devices are modelled
from the way the drivers use them.

**`Memory`** counts pages. Each call is a step, because processes share only the
free list, and it may run out at any page; a loop over pages, segments or
arguments is a recursive function. **`UserCopy`**, **`Umalloc`** and
**`ShParse`** are algorithms: copies against a definition by address, the heap
against a tiling of its memory, the parser against a grammar of the shell.

**`*Proofs`** hold the theorems: `CoreProofs` those about `ProcLife` and `Pstat`,
`LockProofs` about `Spin` and `Bcache`, `MlfqProofs` about `Mlfq` and `MlfqOrder`,
`DeviceProofs` about `Clock` and `Console`, `FilesProofs` about `Files` and `Shell`,
and the others about the module they are named after. **`MC*`** are the instances for TLC. An operator
just before another of like name (`ExpiredLate` before `Expired`) is a faulty form
that no action uses. Putting it in the place of the right one must violate a
property.

Where two modules describe one thing at two grains, the link is this. `ProcLife`
assumes that a RUNNABLE process gets to run, which is `NoStarvation` of `Mlfq` and
holds as long as `setpriority()` and `kill()` are not used for ever.
The other modules treat a critical section as one step, which is what `Spin` and
`acquire()` are for, and a sleep as a step that waits for its wakeup, which is
`NoLostWakeup`. `Log` uses of the cache what `Bcache` shows. `FileData` and
`Inode` treat a transaction as atomic, which is `LogAtomic`. These links are
arguments, not theorems: the modules are not composed into one specification.

## Runs

| Run | Instance | Property | What it shows |
|---|---|---|---|
| `mlfq_safety` | 2 slots, 2 CPUs, 3 queues, boost every 3 | `StackOwnership` | no process is on two CPUs; one that may be dispatched or freed is on none |
| | | `StackInv` | the inductive form of it |
| | | `QuantumBound` | no process exceeds its quantum, whatever other CPUs do to its priority |
| | | `BoostNotMissed` | a boost is late by at most the CPUs still on their way to the test |
| `mlfq_order` | 3 slots, 2 CPUs, 2 queues | `HigherQueueFirst` | no dispatch past a process that waited in a higher queue during the whole scan |
| `mlfq_liveness` | 3 slots, 1 CPU, 2 queues, boost every 3 | `NoStarvation` | every RUNNABLE process comes to run, if from some time on nobody calls `setpriority()` or `kill()` |
| `proc_fs_safety` | 3 slots | `NoLostWakeup`, `LiveParent`, `FreedOffStack`, `LifeInv` | no sleep on a zombie, no orphan without a live parent, no free on a live stack |
| | 2 processes, 4 blocks, a log of 4 | `LogAtomic` | refinement of `AtomicDisk`: after a crash at any write the disk has whole transactions only |
| | | `LogSpace`, `SleeperHasWaker` | no panic in `log_write()` or `end_op()`; no sleep in `begin_op()` without a waker |
| | 2 files on 4 blocks of 2 cells | `FileIsBytes`, `BlocksOwned` | files are byte sequences (refinement of `ByteFile`); no block is lost or in two places |
| `proc_liveness` | 3 processes; 8 descriptors and 3 requests; a pipe of 2 bytes; a ring of 2 | `WaitReturns`, `ExitEnds` | `wait()` returns when it has a zombie; `exit()` closes its files, gets its locks and ends |
| | | `RequestsIntact`, `RwReturns` | no descriptor is shared or lost, every entry of a ring is a request under way; every disk request returns |
| | | `PipeIsFifo`, `PipelineEnds` | a pipe is a FIFO (refinement); a shell pipeline ends, whichever command ends first or is killed |
| | | `PutcReturns` | `uartputc()` returns, although `uartputc_sync()` uses the device too |
| `kernel_safety` | see Bounds | `OneBuffer`, `BreadFresh` | one buffer per block; `bread()` returns the last value |
| | | `LockFindsType`, `IputWontBlock`, `LinksCounted` | the panic of `ilock()` and the assumption of `iput()`; an inode never has more names than `nlink` |
| | | `FilesCounted` | `ref` counts descriptors; an end of a pipe is open while a file is |
| | | `PagesConserved`, `SizeMapped` | every page is free or in one place; `sz` says what is mapped |
| | | `CopyAgrees` | copies move the right bytes and stop at the right page |
| | | `EofDelivered`, `ConsoleIsTerminal` | every `^D` gives one read 0 bytes; the console is a line editor (refinement of `Terminal`) |
| | | `SleepsLongEnough` | `sleep(n)` lasts n ticks across the wrap of `ticks` |
| | | `InterruptsMatchLocks` | interrupts are off under locks and come back as they were |
| | | `SnapshotComplete` | a process that exists throughout a call is reported, with its parent |
| | | `HeapTiled` | free and allocated blocks tile the heap |
| | | `ParseAgrees` | the parser accepts the grammar and builds its tree |
| `starvation` | 3 slots, 1 CPU, 2 queues, boost every 3 | `BoostPreventsStarvation` | **violated**, see below |
| `round_robin` | 2 slots, 1 CPU | `RoundRobin` | **violated** |
| `boost_period` | 2 slots, 2 CPUs | `BoostPeriod` | **violated** |
| `killed_exits` | 3 slots | `KilledExits` | **violated** |
| `born_alive` | 2 slots | `BornAlive` | **violated** |
| `dotdot_freed` | 1 process, 3 inodes | `LockFindsType` | **violated** with paths through `..` |

`mlfq_safety` and `proc_fs_safety` also check `TypeOK` (of `Mlfq` and of
`ProcLife`). `proc_fs_safety`, `proc_liveness` and `kernel_safety` check several modules side by side: a behaviour picks one of them
in its first state, and the others stand still. This shows each module's
properties, and nothing of their interaction, for which there are `Shell` (over
`Files`), `Log` (with the cache) and the links above.

### Where the code and its words differ

- **A boost undone.** `proc.c:482` and `src/README.md` (Rule 5) say that the boost
  prevents starvation. `setprocpriority()` moves any process to any queue at any
  time, with a new quantum. A process that puts another into the lowest queue
  after each boost keeps it RUNNABLE for ever without running. `NoStarvation` is
  the same promise for behaviours in which such calls, and kills, cease.
- **Round robin.** `src/README.md` (Rule 2) says that equal priorities take turns.
  `scheduler()` starts each scan at `proc[0]`, so the lowest slot of a queue wins
  again and again. In the lowest queue it does so until the next boost.
- **Boost period.** `src/README.md` gives the period as 100 ticks. `mlfq_ticks`
  counts the ticks of every CPU that runs a process. Several busy CPUs bring the
  boost early, and idle ticks do not count at all.
- **A kill that is not seen.** `wait()` tests `killed(p)`, lets go of `p->lock`,
  and takes it again in `sleep()`. A `kill()` in between finds the process running
  and wakes nobody. The victim sleeps until one of its children exits.
- **Born killed.** `kill(0)` matches an UNUSED slot, whose pid is 0. `allocproc()`
  does not clear `killed`, so the next process in that slot starts out killed.
- **A freed parent directory.** `unlink()` of an empty directory drops the
  parent's `nlink` for its `..`, but a process may still have the directory as its
  current one. When the parent is removed too, its inode is freed, and opening
  `..` there reaches `panic("ilock: no type")` of `fs.c:315`. In
  `kernel_safety`, whose paths never go up, no behaviour reaches it.

## Bounds

- Two slots and two CPUs let one process be dispatched, woken, killed, boosted
  and freed from the other CPU. Three queues give a top, a middle and a floor.
- A third slot is needed where one process must wait while two CPUs are busy
  (`mlfq_order`), or behind two others (`mlfq_liveness`).
- `ProcLife` with three slots has init, a parent and a child that it orphans, and
  both of them may be killed, sleep and exit at once. `CoreProofs` shows the same
  invariants for every number of slots.
- `ticks` counts modulo `TickMod`. It is 1 where no property reads `ticks`; in
  `boost_period` it is 32, large against the interval of 4.
- `KillTargets`, `PrioTargets`, `Sleepers`, `Chan` and `DevCpus` limit the inputs,
  not the responses. init is never killed and never exits: the kernel panics there.
- Every wrapping counter has a small modulus, a multiple of its ring as in the
  code: `PIPEMOD` 4 for a pipe of 2, `CONSMOD` 6 for an input buffer of 3, `IDXMOD`
  16 for 8 descriptors (two requests fill the table, so a third one waits), and
  `TICKMOD` 8 for sleeps of up to 3. Console and disk start at zero or just before
  the wrap.
- `Log`: two operations, four blocks and room for four in the log, so that
  operations share a transaction, wait for room, and log one block twice.
  `OPBLOCKS` is what one operation really writes. `log_write()` compares with
  `log.size - 1`, so `LogSpace` needs the operations to leave some of their
  reservation unused: `LOGSIZE - MAXOPBLOCKS + OPBLOCKS < log.size - 1`. With the
  30, 10 and 30 of `param.h` and `mkfs` that allows 8 blocks; `filewrite()` limits
  itself to 3 blocks at a time, which is 4 unaligned blocks, the inode, the
  indirect block and the bitmap, 7 in all.
- `Bcache`: two buffers for three blocks, so that every miss recycles, and two
  processes. At most one buffer is pinned, since `bget()` panics without a free one.
- `FileData`: two inodes on four data blocks of two cells, one direct block: the
  indirect block, its end and a full disk are all reached.
- `Inode`: two processes, two inodes and as many slots of the table, names `a`
  and `b`, paths `/a`, `b` and `a/b`. One path element is one lock. A slot is
  recycled with each inode that is freed; with as many slots as inodes, `iget()`
  always finds one.
- `Files`: two processes (three in `Shell`), a table of two or three files.
- `Memory`: 12 pages for two processes of up to three pages each and an `exec`
  between them, so that every allocation can be the one that fails.
- `Spin`: two CPUs and two threads, each with its lock, and one device lock.
  `Pstat`: three slots, four pids. `Umalloc`: a heap of ten headers. `ShParse`:
  every line of up to 3 symbols out of 9, and up to 5 over two smaller alphabets.
- `MaxPutc`, `MaxEcho`, `MaxReq`, `MaxKeys` and `MaxPid` only stop the runs.
- Symmetry is used where processes, blocks or contents are interchangeable and
  no liveness property is checked.
- `mlfq_liveness` has `setpriority()` for the last slot, to any queue, and `kill()`
  for the one before it; these are the slots the scan reaches last. It has no sleep
  except on `ticks` and no device interrupts. `NoStarvation` asks that the two calls
  cease: a killed process leaves `usertrap()` before its tick is counted, so an
  endless sequence of forks and kills would keep `mlfq_ticks` from advancing.
- `NoStarvation` depends on the interval. With three slots it holds for an
  interval of 3 and fails for 2. The kernel has 100 for 64 slots on up to 8 CPUs;
  the run has one CPU, so this says nothing of the real sizes beyond the instance.

## Fairness

- `mlfq_liveness`: a CPU's scheduler and trap code progresses. Scheduler code may
  be interrupted, hence strong fairness. Timer interrupts recur, and a process
  that runs again and again is sometimes running when one comes. A killed process
  that runs comes to its `exit()`, where `usertrap()` sends it. Nothing is assumed
  of `fork()`. `starvation` has the same fairness.
- `proc_liveness`, `killed_exits`: kernel code progresses, with strong fairness
  because a spinlock that is free infinitely often is obtained. xv6's spinlocks
  do not queue, so this is an assumption about the hardware's test-and-set. A
  killed process that runs enters the kernel. A sleep on the clock or the disk
  ends, and a process in `exit()` has finitely many files to close. Programs need
  not call `wait()` or `exit()`.
- `RwReturns`: a process that can run does, the device takes and completes what
  it is given, a raised interrupt is taken. Weak fairness suffices. No process
  needs to make a request. A process may still lose the race for descriptors, but
  only finitely often with `MaxReq` requests each.
- `PipelineEnds`: each process of the pipeline runs when it can. The commands
  need not write at all, may stop reading, and one may be killed.
- `PutcReturns`: as for the disk; nothing is assumed of `uartputc_sync()`.

## Refinement

| Detailed | Abstract | Mapping |
|---|---|---|
| `Log` | `AtomicDisk` | `mem`: the cached copy of a block, or what recovery would find; `durable`: what recovery would find now; `active`: `outstanding` |
| `FileData` | `ByteFile` | the bytes of an inode, through its block map, up to its size |
| `Files` | `Fifo` | the bytes from `nread` to `nwrite`, modulo the ring |
| `Console` | `Terminal` | the bytes from `r` to `w`, and from `w` to `e` |

TLC checks all four; all but `ByteFile` are also proved.

## Proofs

All theorems hold for every value of the constants that the named assumptions
allow. The assumptions say that sizes and quanta are positive, that the range of
a wrapping counter is a multiple of its ring (and larger, for the pipe and the
console), that init is never killed, that the sizes of the log fit (`LogSizes`,
above), that the processes of `Files` are finitely many, that memory
holds the first process and `MaxSz` the stack of every program, and that the
values standing for "none" are not members of the sets they extend. Each proof
finds an invariant that every action preserves, one step of the proof per action.

- `MlfqProofs!TypeCorrect`: `TypeOK`.
- `MlfqProofs!StackSafe`, `StackLinked`: `StackOwnership` is not inductive: a step
  must know who holds each lock. `StackInv` adds that `c->proc` is set exactly
  while a CPU is on a process's stack, that such a process is RUNNING until it
  gives up the CPU, and that `p->lock` is held between steps exactly across
  `swtch()`.
- `MlfqProofs!QuantumKept`: `QuantumBound`, with `StackInv` to know that only one
  CPU charges ticks to a process.
- `MlfqProofs!BoostInTime`: `BoostNotMissed`, by following the cardinality of the
  set of CPUs that have not yet reached the test.
- `MlfqProofs!ScanKeepsRuleOne`: `HigherQueueFirst`. A process that has waited
  since the scan began is still ahead of it, in a later queue or a later slot of
  this one; interrupts return to the place they left, and every change of a
  priority is made under `p->lock`.
- `CoreProofs!TypeCorrect`, `WakeupsNotLost`, `ParentsLive`, `FreedSafely`,
  `LifeKept`: the last three properties follow from `LifeInv`, which records the
  holders of the locks, the state at each point of the code, the slots being
  forked, and that a child about to become a zombie has woken its parent.
- `LockProofs!LocksMaskInterrupts`: `InterruptsMatchLocks`. The invariant says
  where a thread's interrupt state is remembered: in the CPU's register, in
  `intena` of its CPU, or in the local of `sched()`.
- `CoreProofs!SnapshotIsComplete`: `SnapshotComplete`. Between the two loads of
  `getpstat()` the parent read is still that of a stable slot.
- `LockProofs!BlockHasOneBuffer`, `BreadIsFresh`: `refcnt` counts the users and the
  pin of a buffer, so a recycled one has neither; a value that is not on the disk
  is in a buffer that has one.
- `LogProofs!LogNeverFull`, `SleepersWoken`: `LogSpace` and `SleeperHasWaker`. The
  reservation is a sum over operations, counted as the pairs of an operation and
  a block it has logged, and bounded for every set of operations, so that the
  bound survives the end of any one.
- `LogProofs!LogIsAtomic`: `Log` implements `AtomicDisk`. `DiskInv` says for each
  step of `commit()` and of an interrupted recovery which of cache, log and home
  has a block's value, and which references keep it in the cache. Every step is
  then an abstract step or a stutter: `write_head()` is the commit.
- `DeviceProofs!SleepLastsLongEnough`: `SleepsLongEnough`. While a process is in
  its loop, the unsigned difference it tests is the number of ticks since its
  call, on whichever side of the wrap `ticks` is.
- `DeviceProofs!EofIsDelivered`, `ConsoleImplementsTerminal`: `EofDelivered` and the
  refinement of `Terminal`. `ConsInv` says that `w` lies between `r` and `e`, that
  these are no further apart than the buffer, and that no `^D` is among the
  characters still being edited. The module starts with the arithmetic of
  counters that wrap around and of the ring they index: two counters less than a
  ring apart name different slots. `FilesProofs` and `VirtioProofs` start with the
  same lemmas, repeated so that each module can be checked by itself.
- `FilesProofs!FilesAreCounted`, `PipeImplementsFifo`: `FilesCounted` and the
  refinement of `Fifo`, for any calls of any processes in any order. `FilesInv` adds
  that a process not made yet has nothing open, that a free file has no type, and
  that an end of the pipe is held once: by one file, or by a process between
  `fileclose()` and `pipeclose()`. `PipelineIsSafe` states both of `Shell`, whose
  steps are such calls.
- `MemoryProofs!PagesAreConserved`, `SizesAreMapped`: `PagesConserved` and
  `SizeMapped`. `MemInv` says that the free pages and those of the processes make
  up the machine's, and no two share a page. A call trades pages between one
  process and the free list; each loop keeps that at every turn, whether or not
  its allocation fails. What a loop keeps is proved by taking the first turn at
  which it would not.
- `VirtioProofs!RequestsStayIntact`: `RequestsIntact`. Between its two indices each
  ring holds as many different heads as the indices are apart, there is room for
  one more because a request takes three descriptors, and the two rings and the
  device share the requests that wait.

Only model-checked, and why:

- every liveness property: TLAPS does not reason about fairness and ENABLED here;
- `FileIsBytes` and `BlocksOwned` (the loops of `FileData`), `CopyAgrees`,
  `HeapTiled`, `ParseAgrees`: what folds and recursive operators compute for every
  input, which would need induction over data;
- the properties of `Inode`: `LockFindsType` fails with paths through `..`
  (`dotdot_freed`); `IputWontBlock` and `LinksCounted` rest on a count of every
  place that names a slot, in every window of every call, and are not proved.

## Not modelled

- Boot code, the PLIC, `printf`, `panic` and the string functions: start-up,
  device access, or no state that lasts.
- System call dispatch and argument fetching: no state of their own. The calls
  are actions of the modules above, except those that only read (`fstat`,
  `getpid`, `uptime`) and `mknod`, which is `mkdir` with another type.
- Hardware page tables, the kernel's page table and TLB flushes; `walk()` is two
  levels in `Memory` and a flat table in `UserCopy`.
- The counters and times of `getpstat()`, and "." entries: nothing depends on them.
- Bytes that `writei()` copied before `copyin()` failed stay in the buffer without
  being logged. `ByteFile` allows them to be seen; that they vanish when the buffer
  is recycled is not modelled.
- An inode freed by `iput()` whose number is used again before the reference is
  dropped may stay allocated without a name. It breaks no property stated here.
- The other user programs, and `mkfs`, whose result is the initial state.
