-------------------------------- MODULE Pipe --------------------------------
(***************************************************************************)
(* A kernel pipe between processes (kernel/src/fs/pipe.rs) over the        *)
(* scheduler: blocking reads and writes, non-blocking reads, and every way *)
(* in which an end is duplicated or dropped: fork(), close(), exit() and   *)
(* the reaping of a process that a signal ended.                           *)
(*                                                                         *)
(* The bytes are abstracted to their number; PipeBuffer.tla is about their *)
(* order.  There is one pipe at a time, and a process has at most one      *)
(* descriptor for each end.                                                *)
(***************************************************************************)
EXTENDS Processes

CONSTANTS PIPE_BUFFER_CAPACITY,  \* 65536 in the code
          MAX_IO,                \* bound on the length of a read or a write
          Readers, Writers,      \* the processes that read and that write
          PipeCalls              \* the calls on pipes the programs use

VARIABLE pipe

SIGPIPE == 13

ASSUME PipeAssumption ==
    /\ PIPE_BUFFER_CAPACITY \in Nat \ {0}
    /\ MAX_IO \in Nat
    /\ Readers \subseteq Pid /\ Writers \subseteq Pid
    /\ PipeCalls \subseteq {"read", "read_nonblock", "write", "close"}
    /\ SIGPIPE \in Signals
    /\ {"read", "write"} \subseteq IpcPoints

End == {"read", "write"}

Peer(e) == IF e = "read" THEN "write" ELSE "read"

(***************************************************************************)
(* count[e] is read_end_count or write_end_count, blocked[e] the pid in    *)
(* blocked_reader or blocked_writer, ends[p] the ends p has descriptors    *)
(* for.  want[p] is a local of a read or write in progress: the room in    *)
(* the destination, or the bytes still to write.  hung: the CPU spins on   *)
(* the scheduler's lock, which it holds itself.                            *)
(***************************************************************************)
PipeStates == [length  : 0 .. PIPE_BUFFER_CAPACITY,
               count   : [End -> Nat],
               blocked : [End -> Pid \cup {NoPid}],
               ends    : [Slot -> SUBSET End],
               want    : [Slot -> Nat],
               hung    : BOOLEAN]

NoPipe == [length |-> 0, count |-> [e \in End |-> 0],
           blocked |-> [e \in End |-> NoPid], ends |-> [p \in Slot |-> {}],
           want |-> [p \in Slot |-> 0], hung |-> FALSE]

Holders(B, e) == {p \in Pid : e \in B.ends[p]}

-----------------------------------------------------------------------------
(* Operators on a pair X of the scheduler (X.s) and the pipe (X.b).        *)

Now == [s |-> sched, b |-> pipe]

\* Mutant: the process recorded at e is forgotten and not woken.
wake_forgetting(X, e) == [X EXCEPT !.b.blocked[e] = NoPid]

\* Wake the process recorded at end e, and forget it.
wake(X, e) ==
    IF X.b.blocked[e] = NoPid THEN X
    ELSE [s |-> unblock(X.s, X.b.blocked[e]),
          b |-> [X.b EXCEPT !.blocked[e] = NoPid]]

block(X, p, e) ==
    [s |-> block_current([X.s EXCEPT !.pc[p] = e]),
     b |-> [X.b EXCEPT !.blocked[e] = p]]

return(X, p) == [s |-> sysret(X.s), b |-> [X.b EXCEPT !.want[p] = 0]]

\* Mutant: one byte too many.
room_plus_one(B) == PIPE_BUFFER_CAPACITY - B.length + 1

available_to_write(B) == PIPE_BUFFER_CAPACITY - B.length

\* Mutant: the end of file is never seen.
write_never_closed(B) == FALSE

is_write_closed(B) == B.count["write"] = 0

\* pipe_read_blocking(), from the top of its loop.
read_turn(X, p) ==
    LET n == X.b.want[p]
        k == IF n <= X.b.length THEN n ELSE X.b.length
    IN  IF X.b.length > 0
        THEN return(wake([X EXCEPT !.b.length = @ - k], "write"), p)
        ELSE IF is_write_closed(X.b) THEN return(X, p) ELSE block(X, p, "read")

\* pipe_write_blocking(), from the top of its loop; sys_write() turns a broken
\* pipe into SIGPIPE.
write_turn(X, p) ==
    LET n == X.b.want[p]
        room == available_to_write(X.b)
        k == IF n <= room THEN n ELSE room
        W == [X EXCEPT !.b.length = @ + k, !.b.want[p] = n - k]
        V == IF k > 0 THEN wake(W, "read") ELSE W
    IN  CASE X.b.count["read"] = 0 ->
               return([X EXCEPT !.s = send_signal_to(X.s, p, SIGPIPE)], p)
          [] X.b.count["read"] > 0 /\ k = n -> return(V, p)
          [] OTHER -> block(V, p, "write")


wake_peer(S, B, e) == IF B.count[e] = 0 /\ B.blocked[Peer(e)] # NoPid
                      THEN unblock(S, B.blocked[Peer(e)]) ELSE S

\* PipeHandle::drop() of p's descriptor for e, outside the scheduler: the last
\* one wakes the peer, which stays recorded.  The buffer goes with the last of
\* both ends.
drop(X, p, e) ==
    LET B == [X.b EXCEPT !.ends[p] = @ \ {e}, !.count[e] = @ - 1]
        F == IF B.count = [f \in End |-> 0]
             THEN [B EXCEPT !.length = 0, !.blocked = [f \in End |-> NoPid]]
             ELSE B
    IN  [s |-> wake_peer(X.s, B, e), b |-> F]

\* FileDescriptorTable::close_all(): the ends p has, in the order of pipe().
close_all(X, p) ==
    LET Y == IF "read" \in X.b.ends[p] THEN drop(X, p, "read") ELSE X
    IN  IF "write" \in Y.b.ends[p] THEN drop(Y, p, "write") ELSE Y

Becomes(X) == sched' = X.s /\ pipe' = X.b

-----------------------------------------------------------------------------
(* The calls on the pipe.                                                  *)

PipeIssues(p, call) ==
    InUser(sched, p) /\ call \in PipeCalls /\ ~pipe.hung

PipeCreate(p) ==
    /\ InUser(sched, p) /\ ~pipe.hung
    /\ pipe.count = [e \in End |-> 0]
    /\ sched' = sysret(sched)
    /\ pipe' = [pipe EXCEPT !.count = [e \in End |-> 1], !.ends[p] = End]

Read(p) == /\ PipeIssues(p, "read") /\ p \in Readers
           /\ "read" \in pipe.ends[p]
           /\ \E n \in 1 .. MAX_IO : Becomes(read_turn([Now EXCEPT !.b.want[p] = n], p))

ReadResume(p) == /\ Inside(sched, p, "read") /\ ~pipe.hung
                 /\ Becomes(read_turn(Now, p))

\* sys_read() on a descriptor with O_NONBLOCK reads what there is, and leaves
\* blocked_writer alone.
ReadNonblock(p) ==
    /\ PipeIssues(p, "read_nonblock") /\ p \in Readers
    /\ "read" \in pipe.ends[p]
    /\ \E n \in 1 .. MAX_IO :
          pipe' = [pipe EXCEPT !.length = IF n <= @ THEN @ - n ELSE 0]
    /\ sched' = sysret(sched)

Write(p) == /\ PipeIssues(p, "write") /\ p \in Writers
            /\ "write" \in pipe.ends[p]
            /\ \E n \in 1 .. MAX_IO : Becomes(write_turn([Now EXCEPT !.b.want[p] = n], p))

WriteResume(p) == /\ Inside(sched, p, "write") /\ ~pipe.hung
                  /\ Becomes(write_turn(Now, p))

Close(p) == /\ PipeIssues(p, "close")
            /\ \E e \in pipe.ends[p] : Becomes(return(drop(Now, p, e), p))

-----------------------------------------------------------------------------
(* The process calls that duplicate and drop descriptors.                  *)

\* Mutant: the copies are not counted.
clone_uncounted(B, p, c) == [B EXCEPT !.ends[c] = B.ends[p]]

\* FileDescriptorTable::clone_for_fork(): c gets a copy of p's descriptors.
clone_for_fork(B, p, c) ==
    [B EXCEPT !.ends[c] = B.ends[p],
              !.count = [e \in End |-> IF e \in B.ends[p] THEN @[e] + 1 ELSE @[e]]]

\* fork() and spawn().
Inherit(p) ==
    /\ ~pipe.hung
    /\ Fork(p) \/ Spawn(p)
    /\ LET c == allocate_slot(sched)
       IN  pipe' = IF c = NoPid THEN pipe ELSE clone_for_fork(pipe, p, c)

\* sys_exit() closes the descriptors before it ends the process.
PipeExit(p) ==
    /\ Issues(p, "exit") /\ ~pipe.hung
    /\ LET X == close_all(Now, p)
       IN  sched' = exit(X.s) /\ pipe' = X.b

Reaped == {z \in Pid : Occupied(sched, z) /\ sched'.state[z] = "Empty"}

\* A drop inside the scheduler's critical section that has a peer to wake
\* takes the scheduler's lock a second time.
DropHangs(z) == \E e \in pipe.ends[z] : pipe.count[e] = 1 /\ pipe.blocked[Peer(e)] # NoPid

\* reap() frees the process, and with it the descriptors it still has: those
\* of a process that a signal ended.
PipeWait(p) ==
    /\ ~pipe.hung
    /\ Wait(p) \/ WaitPid(p) \/ WaitNoHang(p) \/ WaitResume(p)
    /\ pipe' = IF \E z \in Reaped : DropHangs(z) THEN [pipe EXCEPT !.hung = TRUE]
               ELSE IF Reaped = {} THEN pipe
               ELSE close_all(Now, CHOOSE z \in Reaped : TRUE).b

OtherStep(p) == /\ ~pipe.hung
                /\ \/ Kill(p) \/ Raise(p) \/ Sigaction(p) \/ Yield(p)
                   \/ Nanosleep(p) \/ Resume(p) \/ Alarm(p) \/ SetPriority(p)
                /\ UNCHANGED pipe

OtherNext == ~pipe.hung /\ (Idle \/ Tick) /\ UNCHANGED pipe

PipeStep(p) == \/ PipeCreate(p) \/ Read(p) \/ ReadResume(p) \/ ReadNonblock(p)
               \/ Write(p) \/ WriteResume(p) \/ Close(p)
               \/ Inherit(p) \/ PipeExit(p) \/ PipeWait(p) \/ OtherStep(p)

PipeInit == Init /\ pipe = NoPipe

PipeNext == (\E p \in Pid : PipeStep(p)) \/ OtherNext

PipeSpec == PipeInit /\ [][PipeNext]_<<sched, pipe>>

-----------------------------------------------------------------------------

\* The scheduler state and the pipe keep their types; in particular length
\* stays within the buffer and no count goes below zero.
PipeTypeOK == TypeOK /\ pipe \in PipeStates

\* read_end_count and write_end_count are the numbers of descriptors there
\* are, through fork(), close(), exit() and the reaping of killed processes.
EndsCounted == \A e \in End : pipe.count[e] = Cardinality(Holders(pipe, e))

\* A reader blocked in pipe_read_blocking() finds no byte and a writer left:
\* no write and no close() or exit() of the last writer misses it.
ReaderBlockedForCause ==
    \A p \in Pid : sched.state[p] = "Blocked" /\ sched.pc[p] = "read" =>
        pipe.length = 0 /\ pipe.count["write"] > 0


\* Once pipe_read_blocking() has taken bytes no writer is blocked, whatever
\* happened between the writer's block and this read.
ReadWakesWriter ==
    [][(\E p \in Pid : Read(p) \/ ReadResume(p)) /\ pipe'.length < pipe.length =>
          \A q \in Pid : ~(sched'.state[q] = "Blocked" /\ sched'.pc[q] = "write")]_<<sched, pipe>>

-----------------------------------------------------------------------------
(* What the comments of the kernel promise and the code does not keep; see *)
(* the findings.                                                           *)

\* A blocked writer finds the buffer full (pipe_write_blocking(): "Buffer full:
\* block until a reader drains some data."), also when a read is non-blocking.
WriterBlockedForCause ==
    \A p \in Pid : sched.state[p] = "Blocked" /\ sched.pc[p] = "write" =>
        pipe.length = PIPE_BUFFER_CAPACITY

\* No reader stays blocked once the last writer has gone (PipeHandle::drop():
\* "If a reader is blocked waiting for data, wake it to get EOF."), also when
\* there are two readers.
ReadersSeeEof ==
    \A p \in Pid : sched.state[p] = "Blocked" /\ sched.pc[p] = "read" =>
        pipe.count["write"] > 0

\* Freeing a reaped process (ProcessPool::free_slot()) never takes the
\* scheduler's lock a second time.
NotHung == ~pipe.hung

=============================================================================
