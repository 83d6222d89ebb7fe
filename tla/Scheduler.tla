------------------------------ MODULE Scheduler ------------------------------
(***************************************************************************)
(* The process pool and the scheduler of the kernel                        *)
(* (kernel/src/scheduler/mod.rs), as operators from a scheduler state to   *)
(* the next one.  A system call runs with interrupts masked and gives up   *)
(* the CPU only inside schedule() and schedule_no_requeue(), so the whole  *)
(* of a system call up to such a point is one composition of these         *)
(* operators.  The modules that extend this one turn system calls into     *)
(* actions.                                                                *)
(*                                                                         *)
(* One core is modelled (the configuration the Makefile boots): run queue  *)
(* and current pid of CPU 0.                                               *)
(***************************************************************************)
EXTENDS RunQueue

CONSTANTS NICE_DEFAULT,   \* the level of a new process
          Signals,        \* signal numbers in use
          MAX_TICK        \* bound on the tick counter

SIGALRM == 14
SIGCHLD == 17
SIGCONT == 18
SIGSTOP == 19
SIGURG  == 23

ASSUME SchedulerAssumption == /\ NICE_DEFAULT \in Level
                              /\ Signals \subseteq 1 .. 63
                              /\ MAX_TICK \in Nat

INIT == 1                  \* init_pid, set once at boot to bzinit
Any == NoPid               \* wait() for any child
Forever == MAX_TICK + 1    \* a wake_at_tick of u64::MAX

ProcessState == {"Empty", "Ready", "Running", "Blocked", "Waiting",
                 "Sleeping", "Stopped", "Zombie"}

(***************************************************************************)
(* Per slot: the ProcessState ("Empty" for a free slot) with the arguments *)
(* of Waiting and Sleeping beside it, and the fields of Process the        *)
(* scheduler reads.  handlers[p] are the signals whose disposition is not  *)
(* Default.  pc[p] is where p resumes: "user" in its program, the name of  *)
(* a system call inside that call, "embryo" for a slot whose CPU context   *)
(* was never set up, "halt" in the endless loop at the end of exit().      *)
(***************************************************************************)
SchedulerStates(PC) ==
    [state    : [Slot -> ProcessState],
     for_pid  : [Slot -> Pid \cup {Any}],
     wake_at  : [Slot -> Nat],
     alarm    : [Slot -> Nat],
     parent   : [Slot -> Slot \cup {NoPid}],
     pending  : [Slot -> SUBSET (Signals \cup {SIGALRM})],
     handlers : [Slot -> SUBSET Signals],
     nice     : [Slot -> Level],
     pc       : [Slot -> PC],
     rq       : Queues,
     current  : Slot,
     next_search_index : Slot,
     tick     : Nat,
     panicked : BOOLEAN]

Occupied(S, p) == S.state[p] # "Empty"

Children(S, p) == {c \in Pid : Occupied(S, c) /\ S.parent[c] = p}

Zombies(S, p) == {c \in Children(S, p) : S.state[c] = "Zombie"}

\* After boot: bzinit in slot 1, ready; the idle process is running.
BootState ==
    [state    |-> [p \in Slot |-> CASE p = IDLE -> "Running"
                                    [] p = INIT -> "Ready"
                                    [] OTHER    -> "Empty"],
     for_pid  |-> [p \in Slot |-> Any],
     wake_at  |-> [p \in Slot |-> 0],
     alarm    |-> [p \in Slot |-> 0],
     parent   |-> [p \in Slot |-> NoPid],
     pending  |-> [p \in Slot |-> {}],
     handlers |-> [p \in Slot |-> {}],
     nice     |-> [p \in Slot |-> NICE_DEFAULT],
     pc       |-> [p \in Slot |-> "user"],
     rq       |-> push_with_nice(EmptyQueue, INIT, NICE_DEFAULT),
     current  |-> IDLE,
     next_search_index |-> 2 % PID_MAX,
     tick     |-> 0,
     panicked |-> FALSE]

-----------------------------------------------------------------------------
(* The process pool.                                                       *)

\* allocate_slot(): the first free slot at or after next_search_index,
\* cyclically; slot 0 is never handed out.
FreeOffsets(S) == {o \in 0 .. PID_MAX - 1 :
                      LET index == (S.next_search_index + o) % PID_MAX
                      IN  index # IDLE /\ ~Occupied(S, index)}

allocate_slot(S) == IF FreeOffsets(S) = {} THEN NoPid
                    ELSE (S.next_search_index + First(FreeOffsets(S))) % PID_MAX

\* Mutant of create_process(): the search index is not wrapped.
create_process_unwrapped(S, p, parent) ==
    [S EXCEPT !.state[p] = "Ready", !.for_pid[p] = Any, !.wake_at[p] = 0,
              !.alarm[p] = 0, !.parent[p] = parent, !.pending[p] = {},
              !.handlers[p] = {}, !.nice[p] = NICE_DEFAULT, !.pc[p] = "embryo",
              !.next_search_index = p + 1]

\* Process::new() installed in slot p: Ready, but in no queue yet, and with
\* a zeroed CPU context.
create_process(S, p, parent) ==
    [S EXCEPT !.state[p] = "Ready", !.for_pid[p] = Any, !.wake_at[p] = 0,
              !.alarm[p] = 0, !.parent[p] = parent, !.pending[p] = {},
              !.handlers[p] = {}, !.nice[p] = NICE_DEFAULT, !.pc[p] = "embryo",
              !.next_search_index = (p + 1) % PID_MAX]

\* free_slot(): the Process is dropped.  The fields of a free slot are given
\* the values create_process() would, as nothing reads them.
free_slot(S, p) ==
    [S EXCEPT !.state[p] = "Empty", !.for_pid[p] = Any, !.wake_at[p] = 0,
              !.alarm[p] = 0, !.parent[p] = NoPid, !.pending[p] = {},
              !.handlers[p] = {}, !.nice[p] = NICE_DEFAULT, !.pc[p] = "user"]

-----------------------------------------------------------------------------
(* Making processes ready.                                                 *)

enqueue(S, p) == [S EXCEPT !.rq = push_with_nice(@, p, S.nice[p])]

MarkReady(S, p) == enqueue([S EXCEPT !.state[p] = "Ready"], p)

make_ready(S, p) == IF Occupied(S, p) THEN MarkReady(S, p) ELSE S

unblock(S, p) ==
    IF S.state[p] \in {"Blocked", "Waiting"} THEN MarkReady(S, p) ELSE S

futex_make_ready(S, p) ==
    IF S.state[p] \in {"Empty", "Running", "Zombie"} THEN S ELSE MarkReady(S, p)

\* Mutant of the SIGSTOP arm: a Ready process stays in the run queue.
stop_queued(S, p) ==
    IF S.state[p] \in {"Zombie", "Stopped"} THEN S
    ELSE [S EXCEPT !.state[p] = "Stopped"]

stop(S, p) ==
    CASE S.state[p] \in {"Zombie", "Stopped"} -> S
      [] S.state[p] = "Ready" ->
            [S EXCEPT !.state[p] = "Stopped", !.rq = remove(@, p)]
      [] OTHER -> [S EXCEPT !.state[p] = "Stopped"]

\* Mutants of the SIGCONT arm: any process is made ready, even one that has
\* exited; a stopped process is made Ready and not queued.
continue_any(S, p) == MarkReady([S EXCEPT !.pending[p] = @ \cup {SIGCONT}], p)

continue_unqueued(S, p) ==
    [S EXCEPT !.pending[p] = @ \cup {SIGCONT},
              !.state[p] = IF @ = "Stopped" THEN "Ready" ELSE @]

continue(S, p) ==
    LET T == [S EXCEPT !.pending[p] = @ \cup {SIGCONT}]
    IN  IF T.state[p] = "Stopped" THEN MarkReady(T, p) ELSE T

\* Mutants of the last arm: a signal resumes a stopped process; a signal
\* queues a process that is already Ready.
notify_stopped(S, p, sig) ==
    LET T == [S EXCEPT !.pending[p] = @ \cup {sig}]
    IN  IF T.state[p] \in {"Blocked", "Sleeping", "Stopped"} THEN MarkReady(T, p) ELSE T

notify_ready(S, p, sig) ==
    LET T == [S EXCEPT !.pending[p] = @ \cup {sig}]
    IN  IF T.state[p] \in {"Blocked", "Sleeping", "Ready"} THEN MarkReady(T, p) ELSE T

notify(S, p, sig) ==
    LET T == [S EXCEPT !.pending[p] = @ \cup {sig}]
    IN  IF T.state[p] \in {"Blocked", "Sleeping"} THEN MarkReady(T, p) ELSE T

send_signal_to(S, p, sig) ==
    CASE ~Occupied(S, p) -> S
      [] Occupied(S, p) /\ sig = SIGSTOP -> stop(S, p)
      [] Occupied(S, p) /\ sig = SIGCONT -> continue(S, p)
      [] OTHER -> notify(S, p, sig)

\* Mutant of wake_waiting_parent(): a parent in wait() for any child is not woken.
wake_exact_parent(S, c) ==
    LET p == S.parent[c]
    IN  IF p \in Pid /\ S.state[p] = "Waiting" /\ S.for_pid[p] = c
        THEN unblock(S, p)
        ELSE S

\* A child that exits, or a zombie handed over to init, wakes its parent only
\* if the parent waits for it or for any child.
wake_waiting_parent(S, c) ==
    LET p == S.parent[c]
    IN  IF /\ p \in Pid
           /\ S.state[p] = "Waiting"
           /\ S.for_pid[p] \in {Any, c}
        THEN unblock(S, p)
        ELSE S

-----------------------------------------------------------------------------
(* Switching.                                                              *)

NextPid(S) == IF PopPid(S.rq) = NoPid THEN IDLE ELSE PopPid(S.rq)

SwitchTo(S, to) ==
    IF Occupied(S, to) /\ Occupied(S, S.current)
    THEN [S EXCEPT !.state[to] = "Running", !.current = to]
    ELSE [S EXCEPT !.panicked = TRUE]

Popped(S) == [S EXCEPT !.rq = PopRest(@)]

schedule_no_requeue(S) ==
    IF NextPid(S) = S.current THEN Popped(S) ELSE SwitchTo(Popped(S), NextPid(S))

\* Mutant of the sleepers' test: one tick early.
DueEarly(S) == {p \in Pid : S.state[p] = "Sleeping" /\ S.tick + 1 >= S.wake_at[p]}

Due(S) == {p \in Pid : S.state[p] = "Sleeping" /\ S.tick >= S.wake_at[p]}

\* Sleepers whose tick has come, in slot order, each at its own level.
wake_sleepers(S) ==
    LET woken == [l \in Level |-> {p \in Due(S) : S.nice[p] = l}]
    IN  [S EXCEPT
           !.state = [p \in Slot |-> IF p \in Due(S) THEN "Ready" ELSE @[p]],
           !.rq = push_all(@, woken)]

\* An expired alarm only becomes pending: it does not wake its process.
fire_alarms(S) ==
    LET Fires(p) == Occupied(S, p) /\ S.alarm[p] # 0 /\ S.tick >= S.alarm[p]
    IN  [S EXCEPT
           !.alarm = [p \in Slot |-> IF Fires(p) THEN 0 ELSE @[p]],
           !.pending = [p \in Slot |-> IF Fires(p) THEN @[p] \cup {SIGALRM} ELSE @[p]]]

\* Mutant of the requeue: the outgoing process is queued but left Running.
requeue_running(S) ==
    IF S.state[S.current] = "Running" /\ S.current # IDLE THEN enqueue(S, S.current) ELSE S

\* The current process goes to the back of its level iff it is still Running.
requeue_current(S) ==
    LET p == S.current
        T == [S EXCEPT !.state[p] = "Ready"]
    IN  IF S.state[p] # "Running" THEN S
        ELSE IF p = IDLE THEN T ELSE enqueue(T, p)

schedule(S) ==
    LET Q == requeue_current(fire_alarms(wake_sleepers(S)))
    IN  IF NextPid(Q) = Q.current
        THEN [Popped(Q) EXCEPT !.state[Q.current] = "Running"]
        ELSE SwitchTo(Popped(Q), NextPid(Q))

block_current(S) ==
    schedule_no_requeue([S EXCEPT !.state[S.current] = "Blocked"])

-----------------------------------------------------------------------------
(* The end of a process.                                                   *)

\* Mutant of the reparenting: only the children that already exited move.
reparent_zombies(S, p) ==
    LET T == [S EXCEPT !.parent =
                [c \in Slot |-> IF c \in Zombies(S, p) THEN INIT ELSE @[c]]]
    IN  IF \E c \in Zombies(S, p) : wake_waiting_parent(T, c) # T
        THEN unblock(T, INIT)
        ELSE T

\* The children of p go to init; a zombie among them wakes a waiting init.
reparent(S, p) ==
    LET T == [S EXCEPT !.parent =
                [c \in Slot |-> IF c \in Children(S, p) THEN INIT ELSE @[c]]]
    IN  IF \E c \in Zombies(S, p) : wake_waiting_parent(T, c) # T
        THEN unblock(T, INIT)
        ELSE T

exit(S) ==
    LET p == S.current
        Z == [S EXCEPT !.state[p] = "Zombie", !.pc[p] = "halt"]
    IN  schedule_no_requeue(wake_waiting_parent(reparent(Z, p), p))

\* Mutant of reap(): the child need not have exited.
reap_any(S, p, for_pid) ==
    LET Z == {c \in Children(S, p) : for_pid \in {Any, c}}
    IN  IF Z = {} THEN NoPid ELSE First(Z)

\* The zombie child reap() finds first, in slot order; NoPid if there is none.
reap_candidate(S, p, for_pid) ==
    LET Z == {c \in Zombies(S, p) : for_pid \in {Any, c}}
    IN  IF Z = {} THEN NoPid ELSE First(Z)

has_children(S, p) == Children(S, p) # {}

-----------------------------------------------------------------------------
(* State predicates the modules above build their properties from.         *)

\* Every process that is Ready, and whose creation completed, is queued.
AllReadyQueued(S) ==
    \A p \in Pid : S.state[p] = "Ready" /\ S.pc[p] # "embryo" => Queued(S.rq, p)

\* No process waits for a child that is already a zombie.
NoZombieAwaited(S) ==
    \A p \in Pid : S.state[p] = "Waiting"
                      => \A c \in Zombies(S, p) : S.for_pid[p] \notin {Any, c}

\* The parent of a process is init or a process that has not exited.
ParentsAlive(S) ==
    \A c \in Pid : Occupied(S, c) /\ S.parent[c] \in Pid \ {INIT}
                      => Occupied(S, S.parent[c]) /\ S.pc[S.parent[c]] # "halt"

\* What the three rest on: the slots of the current process, of the idle
\* process and of init are never freed, init has no parent, an exited process
\* is in the last loop of exit(), and a waiting one is inside sys_wait().
SlotsConsistent(S) ==
    /\ \A p \in {S.current, IDLE, INIT} : Occupied(S, p)
    /\ S.parent[INIT] = NoPid
    /\ \A p \in Slot : /\ S.state[p] = "Zombie" => S.pc[p] = "halt"
                       /\ S.state[p] = "Waiting" => S.pc[p] = "wait"

Sound(S, PC) == /\ S \in SchedulerStates(PC)
                /\ MaskExact(S.rq)
                /\ AllReadyQueued(S)
                /\ NoZombieAwaited(S)
                /\ ParentsAlive(S)
                /\ SlotsConsistent(S)

=============================================================================
