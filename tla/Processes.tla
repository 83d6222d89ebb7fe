------------------------------ MODULE Processes ------------------------------
(***************************************************************************)
(* Process life cycle over the scheduler: the system calls that create,    *)
(* end, await, signal, delay and reprioritise processes, the idle loop and *)
(* the timer tick.  A process issues any call of Calls, in any order, with *)
(* any argument: the programs are unconstrained.                           *)
(***************************************************************************)
EXTENDS Scheduler

CONSTANTS Calls,       \* the system calls the programs use
          MAX_SLEEP,   \* bound on the duration of a sleep or an alarm, in ticks
          MAX_QUEUED,  \* bound on the run queue's length at a raise()
          IpcPoints    \* program points inside the calls of other modules

VARIABLE sched

AllCalls == {"yield", "fork", "fork_oom", "spawn", "clone", "exit", "wait",
             "waitpid", "wnohang", "kill", "raise", "nanosleep", "alarm",
             "sigaction", "setpriority"}

ASSUME ProcessesAssumption == /\ Calls \subseteq AllCalls
                              /\ MAX_SLEEP \in Nat
                              /\ MAX_QUEUED \in Nat

PC == {"user", "yield", "wait", "nanosleep", "embryo", "halt"} \cup IpcPoints

-----------------------------------------------------------------------------

\* deliver_pending_signals(), the last thing every system call does: the
\* lowest pending signal is taken, whatever the mask; Default ends the process
\* except for SIGCHLD and SIGURG.  (The locals of the call are gone with it.)
sysret(S) ==
    LET p == S.current
        sig == First(S.pending[p])
        U == [S EXCEPT !.pc[p] = "user", !.for_pid[p] = Any, !.wake_at[p] = 0]
        T == [U EXCEPT !.pending[p] = @ \ {sig}]
    IN  CASE S.pending[p] = {} -> U
          [] S.pending[p] # {} /\ sig \in S.handlers[p] \cup {SIGCHLD, SIGURG} -> T
          [] OTHER -> exit(T)

\* p is at a point of its program where it may issue a system call.
InUser(S, p) == S.current = p /\ p # IDLE /\ S.pc[p] = "user" /\ ~S.panicked

\* p was switched in again inside the system call `call'.
Inside(S, p, call) == S.current = p /\ p # IDLE /\ S.pc[p] = call /\ ~S.panicked

Issues(p, call) == InUser(sched, p) /\ call \in Calls

-----------------------------------------------------------------------------
(* Creation.                                                               *)

\* The common tail of fork(), clone_thread() and sys_spawn(): the CPU context
\* is set up and the new process made ready.
Launch(S, c, nice, handlers) ==
    MarkReady([S EXCEPT !.nice[c] = nice, !.handlers[c] = handlers, !.pc[c] = "user"], c)

\* A new process starts at the default level whatever its parent's is.
Fork(p) ==
    LET c == allocate_slot(sched)
    IN  /\ Issues(p, "fork")
        /\ sched' = IF c = NoPid THEN sysret(sched)
                    ELSE sysret(Launch(create_process(sched, c, p), c,
                                       NICE_DEFAULT, sched.handlers[p]))

\* Memory runs out in fork(): in Process::new(), when only the search index
\* has moved, or in cow_copy_user(), whose error return leaves the new process
\* in the pool.
ForkOutOfMemory(p) ==
    LET c == allocate_slot(sched)
    IN  /\ Issues(p, "fork_oom")
        /\ c # NoPid
        /\ \/ sched' = sysret([sched EXCEPT !.next_search_index = (c + 1) % PID_MAX])
           \/ sched' = sysret(create_process(sched, c, p))

Spawn(p) ==
    LET c == allocate_slot(sched)
    IN  /\ Issues(p, "spawn")
        /\ sched' = IF c = NoPid THEN sysret(sched)
                    ELSE sysret(Launch(create_process(sched, c, p), c,
                                       NICE_DEFAULT, {}))

\* A thread is a process with its creator as parent; it inherits the level.
Clone(p) ==
    LET c == allocate_slot(sched)
    IN  /\ Issues(p, "clone")
        /\ sched' = IF c = NoPid THEN sysret(sched)
                    ELSE sysret(Launch(create_process(sched, c, p), c,
                                       sched.nice[p], sched.handlers[p]))

-----------------------------------------------------------------------------
(* The end, and waiting for it.                                            *)

Exit(p) == Issues(p, "exit") /\ sched' = exit(sched)

\* One turn of the loop in sys_wait().
wait_turn(S, p, nohang) ==
    LET z == reap_candidate(S, p, S.for_pid[p])
        W == [S EXCEPT !.state[p] = "Waiting", !.pc[p] = "wait"]
    IN  CASE z # NoPid -> sysret(free_slot(S, z))
          [] z = NoPid /\ nohang -> sysret(S)
          [] OTHER -> schedule_no_requeue(W)

sys_wait(p, for_pid, nohang) ==
    sched' = IF has_children(sched, p)
             THEN wait_turn([sched EXCEPT !.for_pid[p] = for_pid], p, nohang)
             ELSE sysret(sched)

Wait(p) == Issues(p, "wait") /\ sys_wait(p, Any, FALSE)

WaitPid(p) == /\ Issues(p, "waitpid")
              /\ \E c \in Pid : sys_wait(p, c, FALSE)

WaitNoHang(p) == /\ Issues(p, "wnohang")
                 /\ \E c \in Pid \cup {Any} : sys_wait(p, c, TRUE)

WaitResume(p) == /\ Inside(sched, p, "wait")
                 /\ sched' = wait_turn(sched, p, FALSE)

-----------------------------------------------------------------------------
(* Signals, time and priority.                                             *)

\* kill() of another process, and of the caller itself.
Kill(p) == /\ Issues(p, "kill")
           /\ \E t \in Pid \ {p}, sig \in Signals :
                 sched' = sysret(send_signal_to(sched, t, sig))

Raise(p) == /\ Issues(p, "raise")
            /\ total_len(sched.rq) <= MAX_QUEUED
            /\ \E sig \in Signals : sched' = sysret(send_signal_to(sched, p, sig))

Sigaction(p) ==
    /\ Issues(p, "sigaction")
    /\ \E sig \in Signals : \E H \in {{}, {sig}} :
          sched' = sysret([sched EXCEPT !.handlers[p] = (@ \ {sig}) \cup H])

Yield(p) == /\ Issues(p, "yield")
            /\ sched' = schedule([sched EXCEPT !.pc[p] = "yield"])

\* At least one tick: sys_nanosleep() rounds up.
Nanosleep(p) ==
    /\ Issues(p, "nanosleep")
    /\ \E n \in 1 .. MAX_SLEEP :
          /\ sched.tick + n <= MAX_TICK
          /\ sched' = schedule([sched EXCEPT !.state[p] = "Sleeping",
                                             !.wake_at[p] = sched.tick + n,
                                             !.pc[p] = "nanosleep"])

\* Back from schedule(): both calls return straight away.
Resume(p) == /\ \E call \in {"yield", "nanosleep"} : Inside(sched, p, call)
             /\ sched' = sysret(sched)

Alarm(p) ==
    /\ Issues(p, "alarm")
    /\ \E n \in 0 .. MAX_SLEEP :
          /\ sched.tick + n <= MAX_TICK
          /\ sched' = sysret([sched EXCEPT !.alarm[p] =
                                 IF n = 0 THEN 0 ELSE sched.tick + n])

SetPriority(p) ==
    /\ Issues(p, "setpriority")
    /\ \E l \in Level : sched' = sysret([sched EXCEPT !.nice[p] = l])

\* The idle loop: schedule_next(), then wait for an event.
Idle == /\ sched.current = IDLE
        /\ ~sched.panicked
        /\ sched' = schedule(sched)

\* The timer interrupt only counts; it never switches.
Tick == /\ sched.tick < MAX_TICK
        /\ ~sched.panicked
        /\ sched' = [sched EXCEPT !.tick = @ + 1]

-----------------------------------------------------------------------------

Step(p) == \/ Fork(p) \/ ForkOutOfMemory(p) \/ Spawn(p) \/ Clone(p)
           \/ Exit(p)
           \/ Wait(p) \/ WaitPid(p) \/ WaitNoHang(p) \/ WaitResume(p)
           \/ Kill(p) \/ Raise(p) \/ Sigaction(p)
           \/ Yield(p) \/ Nanosleep(p) \/ Resume(p) \/ Alarm(p)
           \/ SetPriority(p)

Init == sched = BootState

Next == (\E p \in Pid : Step(p)) \/ Idle \/ Tick

Spec == Init /\ [][Next]_sched

-----------------------------------------------------------------------------
(* Properties that hold for every set of Calls.                            *)

\* Every field of the scheduler state keeps its type (struct Scheduler,
\* struct Process).
TypeOK == sched \in SchedulerStates(PC)

\* The cached mask of the run queue is exact after every call, including a
\* SIGSTOP that empties a level through remove().
MaskInv == MaskExact(sched.rq)

\* No process is lost: one that is Ready, and whose creation completed, is in
\* the run queue, so pop() will reach it.
ReadyIsQueued == AllReadyQueued(sched)

\* No missed exit: a process blocked in wait() has no zombie it waits for,
\* whatever the order of the child's exit, the reparenting of orphans and the
\* stops and signals sent to the parent.
NoMissedExit == NoZombieAwaited(sched)

\* Orphans are adopted: the parent of every process is a process that has not
\* exited, or init; so no zombie is left without a process that can reap it.
OrphansAdopted == ParentsAlive(sched)

\* The conjunction the proof is by induction on: the invariants above, with
\* the facts on slots (SlotsConsistent) that make them inductive.
IndInv == Sound(sched, PC)

-----------------------------------------------------------------------------
(* Properties that hold as long as no process signals itself with SIGSTOP. *)

\* The run queue holds each Ready process exactly once and nothing else, so a
\* process that blocks, stops or exits is never popped (ProcessState: "Not in
\* the run queue").
QueueExact ==
    \A p \in Pid : Occurrences(sched.rq, p) =
                      IF sched.state[p] = "Ready" /\ sched.pc[p] # "embryo" THEN 1 ELSE 0

\* Exactly one process is Running, and it is the current one (the invariant
\* stated at ProcessState::Running).
OneRunning == {p \in Slot : sched.state[p] = "Running"} = {sched.current}

\* schedule() never meets a pid that is no longer in the pool.
NoPanic == ~sched.panicked

\* A stopped process is resumed by SIGCONT and by nothing else.
StoppedUntilContinued ==
    [][\A p \in Pid : sched.state[p] = "Stopped" /\ sched'.state[p] # "Stopped"
                        => SIGCONT \in sched'.pending[p]]_sched

\* A sleeper leaves its sleep at its tick, or for a signal, and never before.
NoEarlyWakeup ==
    [][\A p \in Pid : sched.state[p] = "Sleeping" /\ sched'.state[p] # "Sleeping"
                        => \/ sched.tick >= sched.wake_at[p]
                           \/ sched'.pending[p] # {}
                           \/ sched'.state[p] = "Stopped"]_sched

\* An exited process is only ever reaped: it is not scheduled, woken, stopped
\* or continued (ProcessState: "Zombie -> (slot freed)").
ZombieOnlyReaped ==
    [][\A p \in Pid : sched.state[p] = "Zombie"
                        => sched'.state[p] \in {"Zombie", "Empty"}]_sched

-----------------------------------------------------------------------------
(* What the comments of the kernel promise and the code does not keep; see *)
(* the findings.                                                           *)

\* ProcessState::Ready: "Eligible to run; present in the run queue", also for
\* the process a failed fork() leaves behind.
ReadyMeansQueued ==
    \A p \in Pid : sched.state[p] = "Ready" => Queued(sched.rq, p)

\* The CPU never stops, programs keep making system calls, and the timer fires.
RunsOn == WF_sched((\E p \in Pid : Step(p)) \/ Idle) /\ WF_sched(Tick)

FairSpec == Spec /\ RunsOn

\* A Ready process gets the CPU in the end, as the timer takes it from the one
\* that holds it (scheduler/mod.rs: "The timer IRQ calls `schedule()`").
ReadyRuns ==
    \A p \in Pid : sched.state[p] = "Ready" ~> sched.state[p] # "Ready"

\* Programs that give up the CPU, by waiting, sleeping or exiting, again and
\* again; and a tick counter that reaches its bound.
BlockingSpec == FairSpec /\ SF_sched(\E p \in Pid : Exit(p) \/ Wait(p) \/ Nanosleep(p))

\* A sleeper is woken by the scheduler once its tick has passed
\* (ProcessState::Sleeping), though the others only ever exit and wait.
SleeperWakes ==
    \A p \in Pid : sched.state[p] = "Sleeping" ~> sched.state[p] # "Sleeping"

=============================================================================
