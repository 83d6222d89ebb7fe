# Bazzulto OS: a verification project

Bazzulto is an AArch64 operating system in Rust: a monolithic kernel
(`kernel/`), an init system and services (`userspace/system/`), a runtime
library (`userspace/libraries/bsl/`), a shell and coreutils
(`userspace/programs/`) and disk tools (`tools/`). This directory models the
parts of it whose correctness depends on the order of events: TLA+ modules
translated from the source, TLC configurations that check them on small
instances, and TLAPS proofs of what holds for every instance.

## How the kernel runs

* A system call enters with interrupts masked and runs to completion unless it
  calls `schedule()` or `schedule_no_requeue()`. It ends in
  `deliver_pending_signals()` (`systemcalls/mod.rs`, last line of `dispatch`).
* The timer interrupt counts ticks. It does not schedule.
* One core is booted by the default Makefile; the others are only started when
  the boot loader reports them.

So on one core the atomic steps are exactly the stretches of a system call
between two switches. Each such stretch is one action. A process switched out
inside a call is at a *program point* (`pc`), and the rest of the call is the
action that needs that program point.

## Inventory

| Component | State | Operations | What makes it hard |
|---|---|---|---|
| Run queue | one FIFO per level, mask of non-empty levels | push, pop, remove | cached mask against content |
| Process pool, scheduler | slot states, parents, pending signals, alarms, current pid | create, ready, block, unblock, schedule, exit, reap, signal | lost wake-ups, double queueing, freed slots |
| Process system calls | program points, handlers | fork, spawn, clone, exit, wait, kill, sigaction, sleep, alarm, nice | orders of exit, wait, stop and signal |
| Futexes, threads | queue of pids per address | wait, wake, clone | stale waiters |
| Pipes, FIFOs | ring, open counts, one blocked reader and writer | read, write, close, dup | overwritten waiter, close against block |
| Semaphores, message queues | counter or queue, waiter lists | open, wait, post, send, receive, unlink | killed waiters, wake-ups that are not posts |
| Unix sockets, epoll | buffers, backlog, waiter | bind, listen, accept, connect, send, receive | full buffers, half-closed peers |
| File descriptor tables | slots shared by threads | open, close, dup, fork | lock held across a blocking read |
| Binary permission model | request queue, responses, permissiond's pid | ask, read, respond, die | permissiond dies or fails half way |
| Physical and virtual memory | free list, page tables, shared frames | alloc, free, map, fork, fault, unmap | shared frames freed, out of memory half way |
| Kernel heap | free lists | alloc, free | coalescing |
| Locks, SMP | tickets; scheduler lock | lock, unlock; switch | wrap-around, interrupt against lock, late register save |
| Terminals | line buffer, foreground group | key, read, signal | reader against signal |
| Block and keyboard devices | virtio rings | submit, complete | index wrap-around |
| File systems | mounts, inodes, FAT32 chains, Btrfs trees | create, write, unlink, commit | failure half way |
| bzinit | service states, retries | start, exit, restart, fall back | crash loops |
| Shell | jobs, pipelines | run, wait | children out of order |
| BSL | calendar, time zones, allocator | convert, allocate | calendar edges |

`PROJECT.json` lists every component with its files, and every hazard at the
line where it bites.

## Modules

`RunQueue` → `Scheduler` → `Processes`, each EXTENDS the one before.

* **RunQueue**: `struct RunQueue`. The operators are its methods, as functions
  from a queue to a queue.
* **Scheduler**: `ProcessPool` and `Scheduler`. The whole state is one record
  `S` (per slot: state, wait target, wake-up tick, alarm, parent, pending
  signals, handlers, nice level, program point; the run queue, the current pid,
  the search index, the tick, and whether the kernel panicked). Operators take
  a state to the next one and carry the names of the methods, so that a system
  call is the composition of operators its code calls.
* **Processes**: the variable `sched` holds that record. One action per system
  call, and one per point where a call resumes after a switch (`WaitResume`,
  `Resume`), with the idle loop (`Idle`) and the timer (`Tick`). `Calls` selects
  the system calls the programs make; the order and the arguments are free.
  `sysret` is `deliver_pending_signals()` and part of every call.
* **Pipe** EXTENDS Processes: one pipe between processes
  (`fs/pipe.rs` and the calls that reach it). Its variable `pipe` holds the
  number of bytes, the counts of both ends, the recorded blocked reader and
  writer, who has descriptors, and the rest of a read or write in progress.
  `Read` and `Write` are a call up to its first block or its return;
  `ReadResume` and `WriteResume` are one more turn of its loop after a wake-up.
  `Inherit`, `PipeExit` and `PipeWait` are the process calls with what they do
  to descriptors: copies at `fork()` and `spawn()`, `close_all()` in
  `sys_exit()`, and the drop of a killed process's descriptors when it is
  reaped, which runs inside the scheduler's lock (`hung`).
* **PipeBuffer**: the ring of bytes inside the pipe, with both two-chunk copies.
* **BoundedFifo**: what a byte channel promises. `PipeBuffer` implements it,
  with the bytes from the head on as the queue. The arguments of the last call
  (`given`, `asked`) and its result (`taken`) are visible in both, so that the
  ring may not store other bytes than it was given.
* **RunQueueProofs, SchedulerProofs, ProcessesProofs, PipeBufferProofs**:
  theorems and proofs.

Operators described as a mutant are altered forms of the definition below
them; they stand for a plausible error in the code and no action uses them.

### Data abstractions

Pids are slot numbers: the code gives every slot generation 1, so the two carry
the same information. Nice values are the levels they map to. A
signal set is a set of numbers; handlers are only "default or not", the
distinction `deliver_pending_signals()` makes when it ends a process. The
fields of a process that the scheduler does not read (identity, files, memory)
belong to other components. Fields of a free slot are reset so that equal
states are equal. In `Pipe` the bytes are only counted; `PipeBuffer` is about
their order. A process has at most one descriptor for each end, and there is
one pipe at a time. When `schedule()` panics the machine stops, so no action is
possible then.

## Runs

Bounds: `PID_MAX` 3 or 4 slots (idle, init and one or two more, so that there
are siblings, orphans, and reuse of slots), one or two levels, a clock of at
most 3 ticks with sleeps of at most 2 (a sleep may end before, at or after
another), run queues of at most 2 entries when a process signals itself. A pipe
of 2 bytes with requests of up to 3 makes writes block half way and reads take
part of what there is; a ring of 3 with requests of up to 4 wraps at every
offset.

| Run | Shows |
|---|---|
| `lifecycle` | no missed exit, orphans adopted, queue, states and current pid agree, no panic, stopped until continued, zombies only reaped |
| `timing` | with sleeps, alarms, priorities and threads: types, queue exact, no early wake-up |
| `jobcontrol` | the inductive invariant, the mask and the queue when processes stop themselves and forks run out of memory |
| `zombie_rescheduled` | SIGSTOP and SIGCONT to oneself leave a stale queue entry, and a zombie is scheduled |
| `fork_oom_leak` | a failed fork leaves a Ready process that is in no queue |
| `no_preemption` | the timer does not preempt |
| `pipe` | ends counted; a blocked reader has no data and a writer left, a blocked writer has a reader left and is woken by each blocking read, whoever forks, closes, exits, stops or is killed |
| `pipe_ring` | the ring stays in its array and implements the bounded FIFO |
| `second_reader_lost` | of two blocked readers only the last is ever woken |
| `nonblock_forgets_writer` | a non-blocking read makes room and does not wake the writer |
| `reap_takes_lock_twice` | reaping a killed process that has the last end of a pipe may spin on a lock the CPU holds |
| `sleeper_starved` | sleepers are forgotten while others only exit and wait |

`lifecycle` and `timing` leave SIGSTOP to oneself out (`raise`); the findings
are what happens with it. `jobcontrol` may end in a panic, or with the only
process stopped or in the last loop of `exit()`, so deadlock is not checked
there. `pipe` has one reader and one writer; `second_reader_lost` is what
happens with two readers. Programs can block for ever on a pipe whose other end
they hold themselves, so deadlock is not checked in `pipe` either. In the other
passing runs it is.

The models also show, without a run of their own: a process that sends itself
SIGSTOP keeps the CPU and leaves Stopped without SIGCONT; SIGCONT stays pending
and its default action ends the process; a signal wakes a blocked reader or
writer, which blocks again before the signal is delivered; and a process ended
by a signal keeps its pipe ends until it is reaped.

### Fairness

Only two violation runs use it. `RunsOn` is weak fairness of "the process on the
CPU makes its next system call, or the idle loop turns" and of the timer: the
CPU does not stop and the timer is periodic. `BlockingSpec` adds that programs
exit, wait or sleep again and again, to show that starvation of sleepers does
not need a program that hogs the CPU.

## Proofs

`ProcessesProofs` proves `Spec => []IndInv` and from it type correctness,
`MaskInv`, `ReadyIsQueued`, `NoMissedExit` and `OrphansAdopted`, for every pool
size of at least 2, every number of levels, every set of signals in 1..63, every
tick bound and every subset of the system calls, self-stops and failing forks
included. The assumptions are the named ASSUMEs on the constants.

`IndInv` is `Sound(sched, PC)`. None of the five is inductive alone:
`NoMissedExit` needs that a parent is never a slot someone else took over
(`OrphansAdopted`), that in turn needs that an exited process stays at its last
program point and that init's slot is never freed (`SlotsConsistent`), and
`ReadyIsQueued` needs the mask to be exact, since `pop()` trusts it. The
argument has one lemma per operator, "a sound state goes to a sound state"
(`SchedulerProofs`): most operators only move live processes between live
states, which `LiveStatesChange` treats once; `CreateSound`, `FreeSound` and
`ExitSound` are the ones that touch parents and slots. `ProcessesProofs`
composes them along each system call. `PopServesHighestPriority` says that
`pop()` serves the best level.

`PipeBufferProofs` proves for every capacity, every set of bytes and every
length of request that the ring stays in range (`RingInRange`) and implements
the bounded FIFO (`RingIsFifo`). `RingTypeOK` is inductive as it stands. The
place of the k-th byte, `(read_head + k) % capacity`, is rewritten without `%`
(`RingIndex`); `WriteStep` and `ReadStep` then compare the sequence of bytes
before and after a copy element by element, in the cases that the two chunks
make.

Only model-checked: the properties of `Pipe`, `QueueExact`, `OneRunning`, `NoPanic`,
`StoppedUntilContinued`, `NoEarlyWakeup`, `ZombieOnlyReaped` (they need the
absence of `raise`), and everything temporal: liveness under fairness is out of
the prover's reach.

## Plan

1. **Blocking on objects**, each module over `Processes` with its own variables
   and program points (`IpcPoints`): `Futex`, `Fifo` (refining
   `BoundedFifo`, as `PipeBuffer` does), `Semaphore`, `MessageQueue`, `Socket`, `PermissionChannel`.
   Runs: two or three processes, buffers of one or two items, killed waiters.
   Then `dup()` and threads that share a descriptor table for `Pipe`.
   Theorems: `IndInv` again for each composition (the lemmas carry over), and
   the conservation of items.
2. **Memory**: `CowMemory` (frames, shared mappings, fork, fault, unmap, out of
   memory), `Heap`.
3. **Concurrency below the scheduler**: `TicketLock` (mutual exclusion, with
   wrap-around), `SchedulerLock` (idle loop against interrupt), `SmpSwitch`.
4. **Descriptors and files**: `FdTable`, mounts, FAT32 chains, Btrfs commit,
   virtio rings.
5. **Terminals and services**: `Tty`, `Pty`, `Supervisor`, job table.
6. Process groups, `exec`, `sigsuspend`, the signal mask, reuse of pids.
