--------------------------- MODULE SchedulerProofs ---------------------------
(***************************************************************************)
(* Every operation of the scheduler keeps a sound state sound, for every   *)
(* pool size, number of levels, set of signals and set of program points.  *)
(***************************************************************************)
EXTENDS Scheduler, RunQueueProofs

USE RunQueueAssumption, SchedulerAssumption

\* The program points the scheduler itself assigns.
BasePC == {"user", "embryo", "halt"}

\* Where the distinguished pids lie.
LEMMA PidFacts ==
    /\ IDLE \in Slot /\ INIT \in Slot /\ INIT \in Pid /\ IDLE \notin Pid
    /\ Pid \subseteq Slot /\ NoPid \notin Slot /\ NoPid \notin Pid /\ Any = NoPid
    /\ \A p \in Slot : p \in Pid <=> p # IDLE
BY DEF IDLE, INIT, Slot, Pid, NoPid, Any

(***************************************************************************)
(* Most operations only move processes between the states of a live        *)
(* process, and change queue and current pid with them.                    *)
(***************************************************************************)
LEMMA LiveStatesChange ==
    ASSUME NEW PC, NEW S, Sound(S, PC),
           NEW T \in SchedulerStates(PC), MaskExact(T.rq), AllReadyQueued(T),
           T.pc = S.pc, T.parent = S.parent, T.for_pid = S.for_pid,
           Occupied(T, T.current),
           \A x \in Slot : \/ T.state[x] = S.state[x]
                           \/ /\ T.state[x] \notin {"Empty", "Waiting", "Zombie"}
                              /\ Occupied(S, x)
    PROVE  Sound(T, PC)
<1>1. \A x \in Slot : Occupied(T, x) <=> Occupied(S, x)
  BY DEF Occupied
<1>2. \A x \in Slot : Zombies(T, x) \subseteq Zombies(S, x)
  BY <1>1, PidFacts DEF Zombies, Children
<1>3. NoZombieAwaited(T)
  BY <1>2, PidFacts DEF NoZombieAwaited, Sound
<1>4. ParentsAlive(T)
  BY <1>1, PidFacts DEF ParentsAlive, Sound
<1>5. SlotsConsistent(T)
  BY <1>1, PidFacts DEF SlotsConsistent, Sound
<1> QED
  BY <1>3, <1>4, <1>5 DEF Sound

\* Making a slot ready changes its state and queues it, and nothing else.
LEMMA MarkReadyEffect ==
    ASSUME NEW PC, NEW S \in SchedulerStates(PC), MaskExact(S.rq), NEW p \in Pid,
           \A x \in Pid : S.state[x] = "Ready" /\ S.pc[x] # "embryo" /\ x # p
                             => Queued(S.rq, x)
    PROVE  /\ MarkReady(S, p) \in SchedulerStates(PC)
           /\ MaskExact(MarkReady(S, p).rq)
           /\ AllReadyQueued(MarkReady(S, p))
           /\ MarkReady(S, p).current = S.current
           /\ MarkReady(S, p).pc = S.pc
           /\ MarkReady(S, p).parent = S.parent
           /\ MarkReady(S, p).pending = S.pending
           /\ MarkReady(S, p).for_pid = S.for_pid
           /\ MarkReady(S, p).state = [S.state EXCEPT ![p] = "Ready"]
<1> DEFINE T == MarkReady(S, p)
           R == push_with_nice(S.rq, p, S.nice[p])
<1>1. S.rq \in Queues /\ S.nice[p] \in Level /\ p \in Slot
  BY PidFacts DEF SchedulerStates
<1>2. R \in Queues /\ MaskExact(R) /\ \A x : Queued(R, x) <=> Queued(S.rq, x) \/ x = p
  BY <1>1, PushLemma
<1>3. T = [S EXCEPT !.state = [S.state EXCEPT ![p] = "Ready"], !.rq = R]
  BY <1>1 DEF MarkReady, enqueue, SchedulerStates
<1> HIDE DEF T, R
<1>4. T \in SchedulerStates(PC)
  BY <1>1, <1>2, <1>3 DEF SchedulerStates, ProcessState
<1>5. /\ T.rq = R
      /\ T.state = [S.state EXCEPT ![p] = "Ready"]
      /\ T.pc = S.pc /\ T.parent = S.parent /\ T.for_pid = S.for_pid
      /\ T.current = S.current /\ T.pending = S.pending
  BY <1>1, <1>3 DEF SchedulerStates
<1>6. S.state \in [Slot -> ProcessState]
  BY DEF SchedulerStates
<1>7. AllReadyQueued(T)
  BY <1>2, <1>5, <1>6, PidFacts DEF AllReadyQueued
<1> QED
  BY <1>2, <1>4, <1>5, <1>7 DEF T

\* Making an occupied slot ready keeps the state sound.
LEMMA MarkReadySound ==
    ASSUME NEW PC, NEW S, Sound(S, PC), NEW p \in Pid, Occupied(S, p)
    PROVE  /\ Sound(MarkReady(S, p), PC)
           /\ MarkReady(S, p).current = S.current
           /\ MarkReady(S, p).pc = S.pc
<1> DEFINE T == MarkReady(S, p)
<1>1. /\ S \in SchedulerStates(PC) /\ MaskExact(S.rq) /\ p \in Slot
      /\ \A x \in Pid : S.state[x] = "Ready" /\ S.pc[x] # "embryo" => Queued(S.rq, x)
  BY PidFacts DEF Sound, AllReadyQueued
<1>2. /\ T \in SchedulerStates(PC) /\ MaskExact(T.rq) /\ AllReadyQueued(T)
      /\ T.current = S.current /\ T.pc = S.pc /\ T.parent = S.parent
      /\ T.for_pid = S.for_pid /\ T.state = [S.state EXCEPT ![p] = "Ready"]
  BY <1>1, MarkReadyEffect
<1> HIDE DEF T
<1>3. S.state \in [Slot -> ProcessState] /\ S.current \in Slot
  BY <1>1 DEF SchedulerStates
<1>4. Occupied(T, T.current)
  BY <1>2, <1>3 DEF Occupied, Sound, SlotsConsistent
<1>5. \A x \in Slot : T.state[x] = S.state[x] \/ (T.state[x] = "Ready" /\ x = p)
  BY <1>2, <1>3
<1>6. Sound(T, PC)
  BY <1>2, <1>4, <1>5, LiveStatesChange
<1> QED
  BY <1>2, <1>6 DEF T

(***************************************************************************)
(* Wake-ups and signals.                                                   *)
(***************************************************************************)

\* unblock() keeps a sound state sound, whatever the state of its target.
LEMMA UnblockSound ==
    ASSUME NEW PC, NEW S, Sound(S, PC), NEW p \in Pid
    PROVE  Sound(unblock(S, p), PC)
<1>1. CASE S.state[p] \in {"Blocked", "Waiting"}
  <2>1. Occupied(S, p)
    BY <1>1 DEF Occupied
  <2> QED
    BY <1>1, <2>1, MarkReadySound DEF unblock
<1>2. CASE S.state[p] \notin {"Blocked", "Waiting"}
  BY <1>2 DEF unblock
<1> QED
  BY <1>1, <1>2

\* So does futex_make_ready(), which also wakes Ready and Stopped processes.
LEMMA FutexMakeReadySound ==
    ASSUME NEW PC, NEW S, Sound(S, PC), NEW p \in Pid
    PROVE  Sound(futex_make_ready(S, p), PC)
<1>1. CASE S.state[p] \in {"Empty", "Running", "Zombie"}
  BY <1>1 DEF futex_make_ready
<1>2. CASE S.state[p] \notin {"Empty", "Running", "Zombie"}
  <2>1. Occupied(S, p)
    BY <1>2 DEF Occupied
  <2> QED
    BY <1>2, <2>1, MarkReadySound DEF futex_make_ready
<1> QED
  BY <1>1, <1>2

\* A change of pending signals, handlers, level or alarm disturbs nothing.
LEMMA BookkeepingSound ==
    ASSUME NEW PC, NEW S, Sound(S, PC), NEW T \in SchedulerStates(PC),
           T.state = S.state, T.pc = S.pc, T.parent = S.parent,
           T.for_pid = S.for_pid, T.current = S.current, T.rq = S.rq
    PROVE  Sound(T, PC)
<1>1. MaskExact(T.rq) /\ AllReadyQueued(T)
  BY DEF Sound, AllReadyQueued
<1>2. Occupied(T, T.current)
  BY DEF Sound, SlotsConsistent, Occupied
<1> QED
  BY <1>1, <1>2, LiveStatesChange

\* Adding a pending signal.
LEMMA PendSound ==
    ASSUME NEW PC, NEW S, Sound(S, PC), NEW p \in Pid, NEW sig \in Signals
    PROVE  /\ Sound([S EXCEPT !.pending[p] = @ \cup {sig}], PC)
           /\ [S EXCEPT !.pending[p] = @ \cup {sig}].state = S.state
<1> DEFINE T == [S EXCEPT !.pending[p] = @ \cup {sig}]
<1>1. S \in SchedulerStates(PC) /\ p \in Slot
  BY PidFacts DEF Sound
<1>2. /\ T \in SchedulerStates(PC)
      /\ T.state = S.state /\ T.pc = S.pc /\ T.parent = S.parent
      /\ T.for_pid = S.for_pid /\ T.current = S.current /\ T.rq = S.rq
  BY <1>1 DEF SchedulerStates
<1> QED
  BY <1>2, BookkeepingSound

\* SIGSTOP to a live process: a Ready one leaves the run queue for good.
LEMMA StopSound ==
    ASSUME NEW PC, NEW S, Sound(S, PC), NEW p \in Pid, Occupied(S, p)
    PROVE  Sound(stop(S, p), PC)
<1> DEFINE T == stop(S, p)
           R == remove(S.rq, p)
<1>1. S \in SchedulerStates(PC) /\ S.rq \in Queues /\ p \in Slot /\ S.current \in Slot
  BY PidFacts DEF Sound, SchedulerStates
<1>2. S.state \in [Slot -> ProcessState]
  BY <1>1 DEF SchedulerStates
<1>3. CASE S.state[p] \in {"Zombie", "Stopped"}
  BY <1>3 DEF stop
<1>4. CASE S.state[p] = "Ready"
  <2>1. R \in Queues /\ MaskExact(R) /\ \A x : Queued(R, x) <=> Queued(S.rq, x) /\ x # p
    BY <1>1, RemoveLemma DEF Sound
  <2>2. T = [S EXCEPT !.state = [S.state EXCEPT ![p] = "Stopped"], !.rq = R]
    BY <1>1, <1>4 DEF stop, SchedulerStates
  <2> HIDE DEF T, R
  <2>3. T \in SchedulerStates(PC)
    BY <1>1, <2>1, <2>2 DEF SchedulerStates, ProcessState
  <2>4. /\ T.rq = R
        /\ T.state = [S.state EXCEPT ![p] = "Stopped"]
        /\ T.pc = S.pc /\ T.parent = S.parent /\ T.for_pid = S.for_pid
        /\ T.current = S.current
    BY <1>1, <2>2 DEF SchedulerStates
  <2>5. AllReadyQueued(T)
    BY <1>2, <2>1, <2>4, PidFacts DEF AllReadyQueued, Sound
  <2>6. Occupied(T, T.current)
    BY <1>1, <1>2, <2>4 DEF Occupied, Sound, SlotsConsistent
  <2>7. \A x \in Slot : T.state[x] = S.state[x] \/ (T.state[x] = "Stopped" /\ x = p)
    BY <1>2, <2>4
  <2>8. Sound(T, PC)
    BY <2>1, <2>3, <2>4, <2>5, <2>6, <2>7, LiveStatesChange
  <2> QED
    BY <2>8 DEF T
<1>5. CASE S.state[p] \notin {"Zombie", "Stopped", "Ready"}
  <2>1. T = [S EXCEPT !.state = [S.state EXCEPT ![p] = "Stopped"]]
    BY <1>1, <1>5 DEF stop, SchedulerStates
  <2> HIDE DEF T
  <2>2. T \in SchedulerStates(PC)
    BY <1>1, <2>1 DEF SchedulerStates, ProcessState
  <2>3. /\ T.rq = S.rq
        /\ T.state = [S.state EXCEPT ![p] = "Stopped"]
        /\ T.pc = S.pc /\ T.parent = S.parent /\ T.for_pid = S.for_pid
        /\ T.current = S.current
    BY <1>1, <2>1 DEF SchedulerStates
  <2>4. AllReadyQueued(T) /\ MaskExact(T.rq)
    BY <1>2, <2>3, PidFacts DEF AllReadyQueued, Sound
  <2>5. Occupied(T, T.current)
    BY <1>1, <1>2, <2>3 DEF Occupied, Sound, SlotsConsistent
  <2>6. \A x \in Slot : T.state[x] = S.state[x] \/ (T.state[x] = "Stopped" /\ x = p)
    BY <1>2, <2>3
  <2>7. Sound(T, PC)
    BY <2>2, <2>3, <2>4, <2>5, <2>6, LiveStatesChange
  <2> QED
    BY <2>7 DEF T
<1> QED
  BY <1>3, <1>4, <1>5

\* No signal, to a process in any state, breaks the scheduler state.
LEMMA SendSignalSound ==
    ASSUME NEW PC, NEW S, Sound(S, PC), NEW p \in Pid, NEW sig \in Signals
    PROVE  Sound(send_signal_to(S, p, sig), PC)
<1> DEFINE T == [S EXCEPT !.pending[p] = @ \cup {sig}]
<1>1. Sound(T, PC) /\ T.state = S.state
  BY PendSound
<1>2. CASE ~Occupied(S, p)
  BY <1>2 DEF send_signal_to
<1>3. CASE Occupied(S, p) /\ sig = SIGSTOP
  <2>1. send_signal_to(S, p, sig) = stop(S, p)
    BY <1>3 DEF send_signal_to, SIGSTOP, SIGCONT
  <2>2. Sound(stop(S, p), PC)
    BY <1>3, StopSound
  <2> QED
    BY <2>1, <2>2
<1>4. CASE Occupied(S, p) /\ sig = SIGCONT
  <2>1. SIGCONT # SIGSTOP
    BY DEF SIGCONT, SIGSTOP
  <2>2. send_signal_to(S, p, sig) = IF T.state[p] = "Stopped" THEN MarkReady(T, p) ELSE T
    BY <1>4, <2>1 DEF send_signal_to, continue
  <2>3. Occupied(T, p)
    BY <1>1, <1>4 DEF Occupied
  <2> HIDE DEF T
  <2>4. Sound(MarkReady(T, p), PC)
    BY <1>1, <2>3, MarkReadySound
  <2> QED
    BY <1>1, <2>2, <2>4
<1>5. CASE Occupied(S, p) /\ sig # SIGSTOP /\ sig # SIGCONT
  <2>1. send_signal_to(S, p, sig)
           = IF T.state[p] \in {"Blocked", "Sleeping"} THEN MarkReady(T, p) ELSE T
    BY <1>5 DEF send_signal_to, notify
  <2>2. Occupied(T, p)
    BY <1>1, <1>5 DEF Occupied
  <2> HIDE DEF T
  <2>3. Sound(MarkReady(T, p), PC)
    BY <1>1, <2>2, MarkReadySound
  <2> QED
    BY <1>1, <2>1, <2>3
<1> QED
  BY <1>2, <1>3, <1>4, <1>5

(***************************************************************************)
(* Switching.                                                              *)
(***************************************************************************)

\* What popping the run queue leaves: only the popped pid can be missing.
LEMMA PopFacts ==
    ASSUME NEW PC, NEW S, Sound(S, PC)
    PROVE  /\ Popped(S) \in SchedulerStates(PC)
           /\ MaskExact(Popped(S).rq)
           /\ Popped(S).state = S.state
           /\ Popped(S).pc = S.pc
           /\ Popped(S).parent = S.parent
           /\ Popped(S).for_pid = S.for_pid
           /\ Popped(S).current = S.current
           /\ NextPid(S) \in Slot
           /\ \A x \in Pid : /\ S.state[x] = "Ready" /\ S.pc[x] # "embryo"
                             /\ x # NextPid(S)
                             => Queued(Popped(S).rq, x)
<1> DEFINE T == Popped(S)
<1>1. S \in SchedulerStates(PC) /\ S.rq \in Queues /\ MaskExact(S.rq)
  BY DEF Sound, SchedulerStates
<1>2. /\ PopRest(S.rq) \in Queues
      /\ MaskExact(PopRest(S.rq))
      /\ PopPid(S.rq) \in Pid \cup {NoPid}
      /\ \A x : Queued(S.rq, x) /\ x # PopPid(S.rq) => Queued(PopRest(S.rq), x)
  BY <1>1, PopLemma
<1>3. /\ T \in SchedulerStates(PC)
      /\ T.rq = PopRest(S.rq)
      /\ T.state = S.state /\ T.pc = S.pc /\ T.parent = S.parent
      /\ T.for_pid = S.for_pid /\ T.current = S.current
  BY <1>1, <1>2 DEF SchedulerStates, Popped
<1>4. NextPid(S) \in Slot
  BY <1>2, PidFacts DEF NextPid
<1>5. ASSUME NEW x \in Pid, S.state[x] = "Ready", S.pc[x] # "embryo", x # NextPid(S)
      PROVE  Queued(T.rq, x)
  <2>1. Queued(S.rq, x)
    BY <1>5 DEF Sound, AllReadyQueued
  <2>2. x # PopPid(S.rq)
    BY <1>5, PidFacts DEF NextPid
  <2> QED
    BY <1>2, <1>3, <2>1, <2>2
<1> QED
  BY <1>2, <1>3, <1>4, <1>5

\* Switching to the popped process, or panicking because it is gone.
LEMMA SwitchSound ==
    ASSUME NEW PC, NEW S, Sound(S, PC)
    PROVE  Sound(SwitchTo(Popped(S), NextPid(S)), PC)
<1> DEFINE to == NextPid(S)
           T == Popped(S)
           U == SwitchTo(T, to)
<1>1. /\ T \in SchedulerStates(PC)
      /\ MaskExact(T.rq)
      /\ T.state = S.state /\ T.pc = S.pc /\ T.parent = S.parent
      /\ T.for_pid = S.for_pid /\ T.current = S.current
      /\ to \in Slot
      /\ \A x \in Pid : S.state[x] = "Ready" /\ S.pc[x] # "embryo" /\ x # to
                           => Queued(T.rq, x)
  BY PopFacts
<1>2. S.state \in [Slot -> ProcessState] /\ S.current \in Slot
  BY DEF Sound, SchedulerStates
<1>3. CASE Occupied(T, to) /\ Occupied(T, T.current)
  <2>1. U = [T EXCEPT !.state = [T.state EXCEPT ![to] = "Running"], !.current = to]
    BY <1>1, <1>3 DEF SwitchTo, SchedulerStates
  <2> HIDE DEF U, to, T
  <2>2. U \in SchedulerStates(PC)
    BY <1>1, <2>1 DEF SchedulerStates, ProcessState
  <2>3. /\ U.rq = T.rq /\ U.pc = T.pc /\ U.parent = T.parent
        /\ U.for_pid = T.for_pid /\ U.current = to
        /\ U.state = [S.state EXCEPT ![to] = "Running"]
    BY <1>1, <2>1 DEF SchedulerStates
  <2>4. AllReadyQueued(U)
    BY <1>1, <1>2, <2>3, PidFacts DEF AllReadyQueued
  <2>5. Occupied(U, U.current)
    BY <1>1, <1>2, <2>3 DEF Occupied
  <2>6. Occupied(S, to)
    BY <1>1, <1>3 DEF Occupied
  <2>7. \A x \in Slot : \/ U.state[x] = S.state[x]
                        \/ U.state[x] = "Running" /\ Occupied(S, x)
    BY <1>2, <2>3, <2>6
  <2>8. Sound(U, PC)
    BY <1>1, <2>2, <2>3, <2>4, <2>5, <2>6, <2>7, LiveStatesChange
  <2> QED
    BY <2>8 DEF U, to, T
<1>4. CASE ~(Occupied(T, to) /\ Occupied(T, T.current))
  <2>1. U = [T EXCEPT !.panicked = TRUE]
    BY <1>4 DEF SwitchTo
  <2>2. Occupied(T, T.current)
    BY <1>1 DEF Sound, SlotsConsistent, Occupied
  <2>3. S.state[to] = "Empty"
    BY <1>1, <1>4, <2>2 DEF Occupied
  <2> HIDE DEF U, to, T
  <2>4. /\ U \in SchedulerStates(PC)
        /\ U.rq = T.rq /\ U.pc = T.pc /\ U.parent = T.parent
        /\ U.for_pid = T.for_pid /\ U.current = T.current /\ U.state = T.state
    BY <1>1, <2>1 DEF SchedulerStates
  <2>5. AllReadyQueued(U)
    BY <1>1, <2>3, <2>4 DEF AllReadyQueued
  <2>6. Occupied(U, U.current)
    BY <2>2, <2>4 DEF Occupied
  <2>7. Sound(U, PC)
    BY <1>1, <2>4, <2>5, <2>6, LiveStatesChange
  <2> QED
    BY <2>7 DEF U, to, T
<1> QED
  BY <1>3, <1>4

\* schedule_no_requeue() is called by a process that is no longer Ready.
LEMMA ScheduleNoRequeueSound ==
    ASSUME NEW PC, NEW S, Sound(S, PC), S.state[S.current] # "Ready"
    PROVE  Sound(schedule_no_requeue(S), PC)
<1> DEFINE T == Popped(S)
<1>1. CASE NextPid(S) = S.current
  <2>1. /\ T \in SchedulerStates(PC)
        /\ MaskExact(T.rq)
        /\ T.state = S.state /\ T.pc = S.pc /\ T.parent = S.parent
        /\ T.for_pid = S.for_pid /\ T.current = S.current
        /\ \A x \in Pid : S.state[x] = "Ready" /\ S.pc[x] # "embryo" /\ x # NextPid(S)
                             => Queued(T.rq, x)
    BY PopFacts
  <2>2. AllReadyQueued(T)
    BY <1>1, <2>1 DEF AllReadyQueued
  <2>3. Occupied(T, T.current)
    BY <2>1 DEF Sound, SlotsConsistent, Occupied
  <2>4. Sound(T, PC)
    BY <2>1, <2>2, <2>3, LiveStatesChange
  <2> QED
    BY <1>1, <2>4 DEF schedule_no_requeue
<1>2. CASE NextPid(S) # S.current
  <2>1. schedule_no_requeue(S) = SwitchTo(T, NextPid(S))
    BY <1>2 DEF schedule_no_requeue
  <2>2. Sound(SwitchTo(T, NextPid(S)), PC)
    BY SwitchSound
  <2> QED
    BY <2>1, <2>2
<1> QED
  BY <1>1, <1>2

\* Waking the sleepers that are due queues every one of them.
LEMMA WakeSleepersSound ==
    ASSUME NEW PC, NEW S, Sound(S, PC)
    PROVE  Sound(wake_sleepers(S), PC)
<1> DEFINE woken == [l \in Level |-> {p \in Due(S) : S.nice[p] = l}]
           R == push_all(S.rq, woken)
           F == [p \in Slot |-> IF p \in Due(S) THEN "Ready" ELSE S.state[p]]
           T == wake_sleepers(S)
<1>1. S \in SchedulerStates(PC) /\ S.rq \in Queues /\ MaskExact(S.rq)
  BY DEF Sound, SchedulerStates
<1>2. /\ S.state \in [Slot -> ProcessState] /\ S.nice \in [Slot -> Level]
      /\ S.current \in Slot
  BY <1>1 DEF SchedulerStates
<1>3. woken \in [Level -> SUBSET Pid]
  BY DEF Due
<1>4. /\ R \in Queues /\ MaskExact(R)
      /\ \A x : Queued(S.rq, x) => Queued(R, x)
      /\ \A l \in Level : \A x \in woken[l] : Queued(R, x)
  <2> HIDE DEF woken
  <2> QED
    BY <1>1, <1>3, PushAllLemma
<1>5. \A x \in Due(S) : Queued(R, x)
  <2> SUFFICES ASSUME NEW x \in Due(S) PROVE Queued(R, x)
    OBVIOUS
  <2>1. S.nice[x] \in Level /\ x \in woken[S.nice[x]]
    BY <1>2, PidFacts DEF Due
  <2> QED
    BY <1>4, <2>1
<1>6. T = [S EXCEPT !.state = F, !.rq = R]
  BY <1>1 DEF wake_sleepers, SchedulerStates
<1>7. F \in [Slot -> ProcessState] /\ \A x \in Slot : F[x] = IF x \in Due(S) THEN "Ready" ELSE S.state[x]
  BY <1>2 DEF ProcessState
<1> HIDE DEF T, R, F, woken
<1>8. /\ T \in SchedulerStates(PC)
      /\ T.rq = R /\ T.state = F
      /\ T.pc = S.pc /\ T.parent = S.parent /\ T.for_pid = S.for_pid
      /\ T.current = S.current
  BY <1>1, <1>4, <1>6, <1>7 DEF SchedulerStates
<1>9. AllReadyQueued(T)
  BY <1>4, <1>5, <1>7, <1>8, PidFacts DEF AllReadyQueued, Sound
<1>10. \A x \in Due(S) : Occupied(S, x)
  BY DEF Due, Occupied
<1>11. \A x \in Slot : T.state[x] = S.state[x] \/ (T.state[x] = "Ready" /\ Occupied(S, x))
  BY <1>7, <1>8, <1>10
<1>12. Occupied(T, T.current)
  BY <1>2, <1>8, <1>11 DEF Occupied, Sound, SlotsConsistent
<1>13. Sound(T, PC)
  BY <1>4, <1>8, <1>9, <1>11, <1>12, LiveStatesChange
<1> QED
  BY <1>13 DEF T

\* Expired alarms only become pending.
LEMMA FireAlarmsSound ==
    ASSUME NEW PC, NEW S, Sound(S, PC)
    PROVE  Sound(fire_alarms(S), PC)
<1> DEFINE Fires(p) == Occupied(S, p) /\ S.alarm[p] # 0 /\ S.tick >= S.alarm[p]
           A == [p \in Slot |-> IF Fires(p) THEN 0 ELSE S.alarm[p]]
           P == [p \in Slot |-> IF Fires(p) THEN S.pending[p] \cup {SIGALRM}
                                            ELSE S.pending[p]]
           T == fire_alarms(S)
<1>1. S \in SchedulerStates(PC)
  BY DEF Sound
<1>2. T = [S EXCEPT !.alarm = A, !.pending = P]
  BY <1>1 DEF fire_alarms, SchedulerStates
<1>3. A \in [Slot -> Nat] /\ P \in [Slot -> SUBSET (Signals \cup {SIGALRM})]
  <2> HIDE DEF Fires
  <2> QED
    BY <1>1 DEF SchedulerStates
<1> HIDE DEF T, A, P
<1>4. /\ T \in SchedulerStates(PC)
      /\ T.state = S.state /\ T.pc = S.pc /\ T.parent = S.parent
      /\ T.for_pid = S.for_pid /\ T.current = S.current /\ T.rq = S.rq
  BY <1>1, <1>2, <1>3 DEF SchedulerStates
<1>5. Sound(T, PC)
  BY <1>4, BookkeepingSound
<1> QED
  BY <1>5 DEF T

\* A current process that is still Running goes back to its queue.
LEMMA RequeueSound ==
    ASSUME NEW PC, NEW S, Sound(S, PC)
    PROVE  Sound(requeue_current(S), PC)
<1>1. /\ S \in SchedulerStates(PC) /\ S.current \in Slot
      /\ S.state \in [Slot -> ProcessState] /\ Occupied(S, S.current)
  BY DEF Sound, SchedulerStates, SlotsConsistent
<1>2. CASE S.state[S.current] # "Running"
  BY <1>2 DEF requeue_current
<1>3. CASE S.state[S.current] = "Running" /\ S.current # IDLE
  <2>1. requeue_current(S) = MarkReady(S, S.current)
    BY <1>1, <1>3 DEF requeue_current, MarkReady, SchedulerStates
  <2>2. S.current \in Pid
    BY <1>1, <1>3, PidFacts
  <2>3. Sound(MarkReady(S, S.current), PC)
    BY <1>1, <2>2, MarkReadySound
  <2> QED
    BY <2>1, <2>3
<1>4. CASE S.state[S.current] = "Running" /\ S.current = IDLE
  <2> DEFINE T == requeue_current(S)
  <2>1. T = [S EXCEPT !.state = [S.state EXCEPT ![IDLE] = "Ready"]]
    BY <1>1, <1>4 DEF requeue_current, SchedulerStates
  <2> HIDE DEF T
  <2>2. T \in SchedulerStates(PC)
    BY <1>1, <2>1, PidFacts DEF SchedulerStates, ProcessState
  <2>3. /\ T.rq = S.rq /\ T.pc = S.pc /\ T.parent = S.parent
        /\ T.for_pid = S.for_pid /\ T.current = S.current
        /\ T.state = [S.state EXCEPT ![IDLE] = "Ready"]
    BY <1>1, <2>1 DEF SchedulerStates
  <2>4. MaskExact(T.rq) /\ AllReadyQueued(T)
    BY <1>1, <2>3, PidFacts DEF AllReadyQueued, Sound
  <2>5. Occupied(T, T.current)
    BY <1>1, <2>3 DEF Occupied
  <2>6. Occupied(S, IDLE)
    BY <1>1, <1>4
  <2>7. \A x \in Slot : T.state[x] = S.state[x] \/ (T.state[x] = "Ready" /\ Occupied(S, x))
    BY <1>1, <2>3, <2>6
  <2>8. Sound(T, PC)
    BY <2>2, <2>3, <2>4, <2>5, <2>7, LiveStatesChange
  <2> QED
    BY <2>8 DEF T
<1> QED
  BY <1>2, <1>3, <1>4

\* schedule() keeps a sound state sound.
LEMMA ScheduleSound ==
    ASSUME NEW PC, NEW S, Sound(S, PC)
    PROVE  Sound(schedule(S), PC)
<1> DEFINE Q == requeue_current(fire_alarms(wake_sleepers(S)))
<1>1. Sound(wake_sleepers(S), PC)
  BY WakeSleepersSound
<1>2. Sound(fire_alarms(wake_sleepers(S)), PC)
  BY <1>1, FireAlarmsSound
<1>3. Sound(Q, PC)
  BY <1>2, RequeueSound
<1>4. schedule(S) = IF NextPid(Q) = Q.current
                    THEN [Popped(Q) EXCEPT !.state[Q.current] = "Running"]
                    ELSE SwitchTo(Popped(Q), NextPid(Q))
  BY DEF schedule
<1> HIDE DEF Q
<1>5. CASE NextPid(Q) # Q.current
  <2>1. Sound(SwitchTo(Popped(Q), NextPid(Q)), PC)
    BY <1>3, SwitchSound
  <2> QED
    BY <1>4, <1>5, <2>1
<1>6. CASE NextPid(Q) = Q.current
  <2> DEFINE T == Popped(Q)
  <2>1. Occupied(Q, Q.current) /\ Q.current \in Slot /\ Q.state \in [Slot -> ProcessState]
    BY <1>3 DEF Sound, SlotsConsistent, SchedulerStates
  <2>2. T.state = Q.state /\ T.current = Q.current /\ T \in SchedulerStates(PC)
    BY <1>3, PopFacts
  <2>3. Occupied(T, NextPid(Q)) /\ Occupied(T, T.current)
    BY <1>6, <2>1, <2>2 DEF Occupied
  <2>4. schedule(S) = SwitchTo(T, NextPid(Q))
    BY <1>4, <1>6, <2>2, <2>3 DEF SwitchTo, SchedulerStates
  <2>5. Sound(SwitchTo(T, NextPid(Q)), PC)
    BY <1>3, SwitchSound
  <2> QED
    BY <2>4, <2>5
<1> QED
  BY <1>5, <1>6

(***************************************************************************)
(* Creation.                                                               *)
(***************************************************************************)

\* A live process that is not waiting may move to another program point.
LEMMA LocalChange ==
    ASSUME NEW PC, NEW S, Sound(S, PC), NEW T \in SchedulerStates(PC), NEW p \in Slot,
           T.state = S.state, T.parent = S.parent, T.rq = S.rq, T.current = S.current,
           S.pc[p] \notin {"halt", "embryo"}, T.pc[p] # "halt", S.state[p] # "Waiting",
           \A x \in Slot \ {p} : T.pc[x] = S.pc[x] /\ T.for_pid[x] = S.for_pid[x]
    PROVE  Sound(T, PC)
<1>1. \A x \in Slot : Occupied(T, x) <=> Occupied(S, x)
  BY DEF Occupied
<1>2. MaskExact(T.rq)
  BY DEF Sound
<1>3. AllReadyQueued(T)
  BY PidFacts DEF Sound, AllReadyQueued
<1>4. \A x \in Slot : Zombies(T, x) = Zombies(S, x)
  BY <1>1, PidFacts DEF Zombies, Children
<1>5. NoZombieAwaited(T)
  BY <1>4, PidFacts DEF Sound, NoZombieAwaited
<1>6. ParentsAlive(T)
  BY <1>1, PidFacts DEF Sound, ParentsAlive
<1>7. SlotsConsistent(T)
  <2>1. \A x \in {T.current, IDLE, INIT} : x \in Slot /\ Occupied(T, x)
    BY <1>1, PidFacts DEF Sound, SlotsConsistent, SchedulerStates
  <2>2. \A x \in Slot : /\ T.state[x] = "Zombie" => T.pc[x] = "halt"
                        /\ T.state[x] = "Waiting" => T.pc[x] = "wait"
    BY DEF Sound, SlotsConsistent
  <2> QED
    BY <2>1, <2>2 DEF Sound, SlotsConsistent
<1> QED
  BY <1>2, <1>3, <1>5, <1>6, <1>7 DEF Sound

\* allocate_slot() returns a free slot other than the idle one.
LEMMA AllocateLemma ==
    ASSUME NEW PC, NEW S \in SchedulerStates(PC), allocate_slot(S) # NoPid
    PROVE  allocate_slot(S) \in Pid /\ ~Occupied(S, allocate_slot(S))
<1> DEFINE W == FreeOffsets(S)
           o == First(W)
<1>1. W # {} /\ allocate_slot(S) = (S.next_search_index + o) % PID_MAX
  BY DEF allocate_slot
<1>2. W \in SUBSET Slot
  BY DEF FreeOffsets, Slot
<1>3. W \in SUBSET Nat /\ IsFiniteSet(W)
  <2> HIDE DEF W
  <2> QED
    BY <1>2, PidFinite
<1>4. o \in W
  <2> HIDE DEF W
  <2> QED
    BY <1>1, <1>3, FirstLemma
<1>5. /\ o \in 0 .. PID_MAX - 1
      /\ (S.next_search_index + o) % PID_MAX # IDLE
      /\ ~Occupied(S, (S.next_search_index + o) % PID_MAX)
  <2> HIDE DEF o
  <2> QED
    BY <1>4 DEF FreeOffsets
<1>6. S.next_search_index \in 0 .. PID_MAX - 1
  BY DEF SchedulerStates, Slot
<1>7. (S.next_search_index + o) % PID_MAX \in 0 .. PID_MAX - 1
  <2> HIDE DEF o
  <2> QED
    BY <1>5, <1>6
<1> QED
  BY <1>1, <1>5, <1>7 DEF Pid, IDLE

\* A new process, still without a CPU context, as a child of a live process.
LEMMA CreateSound ==
    ASSUME NEW PC, BasePC \subseteq PC, NEW S, Sound(S, PC), NEW c \in Pid,
           ~Occupied(S, c), NEW p \in Pid, Occupied(S, p), S.pc[p] # "halt"
    PROVE  /\ Sound(create_process(S, c, p), PC)
           /\ create_process(S, c, p).current = S.current
           /\ create_process(S, c, p).state = [S.state EXCEPT ![c] = "Ready"]
           /\ create_process(S, c, p).pc = [S.pc EXCEPT ![c] = "embryo"]
<1> DEFINE T == create_process(S, c, p)
<1>1. /\ S \in SchedulerStates(PC) /\ c \in Slot /\ p \in Slot /\ c # p
      /\ "embryo" \in PC /\ Any \in Pid \cup {Any}
  BY PidFacts DEF Sound, Occupied, BasePC
<1>2. (c + 1) % PID_MAX \in Slot
  BY DEF Slot, Pid
<1>3. T \in SchedulerStates(PC)
  <2> DEFINE st == [S.state EXCEPT ![c] = "Ready"]
             fp == [S.for_pid EXCEPT ![c] = Any]
             wa == [S.wake_at EXCEPT ![c] = 0]
             al == [S.alarm EXCEPT ![c] = 0]
             pa == [S.parent EXCEPT ![c] = p]
             pe == [S.pending EXCEPT ![c] = {}]
             ha == [S.handlers EXCEPT ![c] = {}]
             ni == [S.nice EXCEPT ![c] = NICE_DEFAULT]
             at == [S.pc EXCEPT ![c] = "embryo"]
  <2>1. /\ st \in [Slot -> ProcessState] /\ fp \in [Slot -> Pid \cup {Any}]
        /\ wa \in [Slot -> Nat] /\ al \in [Slot -> Nat]
    BY <1>1 DEF SchedulerStates, ProcessState
  <2>2. /\ pa \in [Slot -> Slot \cup {NoPid}]
        /\ pe \in [Slot -> SUBSET (Signals \cup {SIGALRM})]
        /\ ha \in [Slot -> SUBSET Signals]
        /\ ni \in [Slot -> Level] /\ at \in [Slot -> PC]
    BY <1>1 DEF SchedulerStates
  <2>3. T = [S EXCEPT !.state = st, !.for_pid = fp, !.wake_at = wa, !.alarm = al,
                      !.parent = pa, !.pending = pe, !.handlers = ha, !.nice = ni,
                      !.pc = at, !.next_search_index = (c + 1) % PID_MAX]
    BY <1>1 DEF create_process, SchedulerStates
  <2> HIDE DEF st, fp, wa, al, pa, pe, ha, ni, at, T
  <2> QED
    BY <1>1, <1>2, <2>1, <2>2, <2>3 DEF SchedulerStates
<1>4. /\ T.state = [S.state EXCEPT ![c] = "Ready"]
      /\ T.pc = [S.pc EXCEPT ![c] = "embryo"]
      /\ T.parent = [S.parent EXCEPT ![c] = p]
      /\ T.for_pid = [S.for_pid EXCEPT ![c] = Any]
      /\ T.rq = S.rq /\ T.current = S.current
  BY <1>1 DEF create_process, SchedulerStates
<1> HIDE DEF T
<1>5. /\ S.state \in [Slot -> ProcessState] /\ S.pc \in [Slot -> PC]
      /\ S.parent \in [Slot -> Slot \cup {NoPid}] /\ S.current \in Slot
      /\ S.for_pid \in [Slot -> Pid \cup {Any}]
  BY <1>1 DEF SchedulerStates
<1>6. \A x \in Slot : Occupied(T, x) <=> Occupied(S, x) \/ x = c
  BY <1>1, <1>4, <1>5 DEF Occupied
<1>7. MaskExact(T.rq) /\ AllReadyQueued(T)
  BY <1>1, <1>4, <1>5, PidFacts DEF Sound, AllReadyQueued
<1>8. \A x \in Slot : Zombies(T, x) \subseteq Zombies(S, x)
  BY <1>1, <1>4, <1>5, <1>6, PidFacts DEF Zombies, Children
<1>9. NoZombieAwaited(T)
  BY <1>1, <1>4, <1>5, <1>8, PidFacts DEF Sound, NoZombieAwaited
<1>10. ParentsAlive(T)
  <2> SUFFICES ASSUME NEW x \in Pid, Occupied(T, x), T.parent[x] \in Pid \ {INIT}
               PROVE  Occupied(T, T.parent[x]) /\ T.pc[T.parent[x]] # "halt"
    BY DEF ParentsAlive
  <2>1. CASE x = c
    BY <1>1, <1>4, <1>5, <1>6, <2>1, PidFacts
  <2>2. CASE x # c
    BY <1>1, <1>4, <1>5, <1>6, <2>2, PidFacts DEF Sound, ParentsAlive
  <2> QED
    BY <2>1, <2>2
<1>11. c # INIT
  BY DEF Sound, SlotsConsistent
<1>12. SlotsConsistent(T)
  BY <1>1, <1>4, <1>5, <1>6, <1>11, PidFacts DEF Sound, SlotsConsistent
<1> QED
  BY <1>3, <1>4, <1>7, <1>9, <1>10, <1>12 DEF Sound, T

(***************************************************************************)
(* The end of a process.                                                   *)
(***************************************************************************)

\* The slot of a zombie other than init's can be freed while others run.
LEMMA FreeSound ==
    ASSUME NEW PC, BasePC \subseteq PC, NEW S, Sound(S, PC), NEW z \in Pid,
           S.state[z] = "Zombie", z # INIT, z # S.current
    PROVE  /\ Sound(free_slot(S, z), PC)
           /\ free_slot(S, z).current = S.current
           /\ free_slot(S, z).state = [S.state EXCEPT ![z] = "Empty"]
           /\ free_slot(S, z).pc = [S.pc EXCEPT ![z] = "user"]
<1> DEFINE T == free_slot(S, z)
<1>1. /\ S \in SchedulerStates(PC) /\ z \in Slot /\ z # IDLE
      /\ "user" \in PC /\ S.pc[z] = "halt"
  BY PidFacts DEF Sound, SlotsConsistent, BasePC
<1>2. T \in SchedulerStates(PC)
  <2> DEFINE st == [S.state EXCEPT ![z] = "Empty"]
             fp == [S.for_pid EXCEPT ![z] = Any]
             wa == [S.wake_at EXCEPT ![z] = 0]
             al == [S.alarm EXCEPT ![z] = 0]
             pa == [S.parent EXCEPT ![z] = NoPid]
             pe == [S.pending EXCEPT ![z] = {}]
             ha == [S.handlers EXCEPT ![z] = {}]
             ni == [S.nice EXCEPT ![z] = NICE_DEFAULT]
             at == [S.pc EXCEPT ![z] = "user"]
  <2>1. /\ st \in [Slot -> ProcessState] /\ fp \in [Slot -> Pid \cup {Any}]
        /\ wa \in [Slot -> Nat] /\ al \in [Slot -> Nat]
    BY <1>1 DEF SchedulerStates, ProcessState
  <2>2. /\ pa \in [Slot -> Slot \cup {NoPid}]
        /\ pe \in [Slot -> SUBSET (Signals \cup {SIGALRM})]
        /\ ha \in [Slot -> SUBSET Signals]
        /\ ni \in [Slot -> Level] /\ at \in [Slot -> PC]
    BY <1>1 DEF SchedulerStates
  <2>3. T = [S EXCEPT !.state = st, !.for_pid = fp, !.wake_at = wa, !.alarm = al,
                      !.parent = pa, !.pending = pe, !.handlers = ha, !.nice = ni,
                      !.pc = at]
    BY <1>1 DEF free_slot, SchedulerStates
  <2> HIDE DEF st, fp, wa, al, pa, pe, ha, ni, at, T
  <2> QED
    BY <1>1, <2>1, <2>2, <2>3 DEF SchedulerStates
<1>3. /\ T.state = [S.state EXCEPT ![z] = "Empty"]
      /\ T.pc = [S.pc EXCEPT ![z] = "user"]
      /\ T.parent = [S.parent EXCEPT ![z] = NoPid]
      /\ T.for_pid = [S.for_pid EXCEPT ![z] = Any]
      /\ T.rq = S.rq /\ T.current = S.current
  BY <1>1 DEF free_slot, SchedulerStates
<1> HIDE DEF T
<1>4. /\ S.state \in [Slot -> ProcessState] /\ S.pc \in [Slot -> PC]
      /\ S.parent \in [Slot -> Slot \cup {NoPid}] /\ S.current \in Slot
      /\ S.for_pid \in [Slot -> Pid \cup {Any}]
  BY <1>1 DEF SchedulerStates
<1>5. \A x \in Slot : Occupied(T, x) <=> Occupied(S, x) /\ x # z
  BY <1>1, <1>3, <1>4 DEF Occupied
<1>6. MaskExact(T.rq) /\ AllReadyQueued(T)
  BY <1>1, <1>3, <1>4, PidFacts DEF Sound, AllReadyQueued
<1>7. \A x \in Slot : Zombies(T, x) \subseteq Zombies(S, x)
  BY <1>1, <1>3, <1>4, <1>5, PidFacts DEF Zombies, Children
<1>8. NoZombieAwaited(T)
  BY <1>1, <1>3, <1>4, <1>7, PidFacts DEF Sound, NoZombieAwaited
<1>9. ParentsAlive(T)
  BY <1>1, <1>3, <1>4, <1>5, PidFacts DEF Sound, ParentsAlive
<1>10. SlotsConsistent(T)
  BY <1>1, <1>3, <1>4, <1>5, PidFacts DEF Sound, SlotsConsistent
<1> QED
  BY <1>2, <1>3, <1>6, <1>8, <1>9, <1>10 DEF Sound, T

\* unblock() wakes its target out of Blocked and Waiting, and nothing else.
LEMMA UnblockEffect ==
    ASSUME NEW PC, NEW S \in SchedulerStates(PC), MaskExact(S.rq), AllReadyQueued(S),
           NEW p \in Pid
    PROVE  /\ unblock(S, p) \in SchedulerStates(PC)
           /\ MaskExact(unblock(S, p).rq)
           /\ AllReadyQueued(unblock(S, p))
           /\ unblock(S, p).current = S.current
           /\ unblock(S, p).pc = S.pc
           /\ unblock(S, p).parent = S.parent
           /\ unblock(S, p).for_pid = S.for_pid
           /\ unblock(S, p).state[p] # "Waiting"
           /\ \A x \in Slot : \/ unblock(S, p).state[x] = S.state[x]
                              \/ /\ S.state[x] \in {"Blocked", "Waiting"}
                                 /\ unblock(S, p).state[x] = "Ready"
<1>1. CASE S.state[p] \notin {"Blocked", "Waiting"}
  BY <1>1 DEF unblock
<1>2. CASE S.state[p] \in {"Blocked", "Waiting"}
  <2> DEFINE T == MarkReady(S, p)
  <2>1. unblock(S, p) = T
    BY <1>2 DEF unblock
  <2>2. /\ T \in SchedulerStates(PC) /\ MaskExact(T.rq) /\ AllReadyQueued(T)
        /\ T.current = S.current /\ T.pc = S.pc /\ T.parent = S.parent
        /\ T.for_pid = S.for_pid /\ T.state = [S.state EXCEPT ![p] = "Ready"]
    BY MarkReadyEffect DEF AllReadyQueued
  <2> HIDE DEF T
  <2>3. S.state \in [Slot -> ProcessState] /\ p \in Slot
    BY PidFacts DEF SchedulerStates
  <2> QED
    BY <1>2, <2>1, <2>2, <2>3
<1> QED
  BY <1>1, <1>2

(***************************************************************************)
(* exit() makes a zombie and orphans at once: NoZombieAwaited and          *)
(* ParentsAlive hold again only once the orphans have gone to init and     *)
(* both possible waiters, init and the parent, have been woken.            *)
(***************************************************************************)

\* The children of p go to init; init is woken when a zombie among them is
\* one it waits for.
LEMMA ReparentEffect ==
    ASSUME NEW PC, NEW S \in SchedulerStates(PC), MaskExact(S.rq), AllReadyQueued(S),
           NEW p \in Pid
    PROVE  /\ reparent(S, p) \in SchedulerStates(PC)
           /\ MaskExact(reparent(S, p).rq)
           /\ AllReadyQueued(reparent(S, p))
           /\ reparent(S, p).current = S.current
           /\ reparent(S, p).pc = S.pc
           /\ reparent(S, p).for_pid = S.for_pid
           /\ \A c \in Slot : reparent(S, p).parent[c] =
                              IF c \in Children(S, p) THEN INIT ELSE S.parent[c]
           /\ \A x \in Slot : \/ reparent(S, p).state[x] = S.state[x]
                              \/ /\ S.state[x] \in {"Blocked", "Waiting"}
                                 /\ reparent(S, p).state[x] = "Ready"
           /\ reparent(S, p).state[INIT] = "Waiting"
                 => \A c \in Zombies(S, p) : S.for_pid[INIT] \notin {Any, c}
<1> DEFINE F == [c \in Slot |-> IF c \in Children(S, p) THEN INIT ELSE S.parent[c]]
           T == [S EXCEPT !.parent = F]
           U == unblock(T, INIT)
           R == reparent(S, p)
           Woken == \E c \in Zombies(S, p) : wake_waiting_parent(T, c) # T
<1>1. R = IF Woken THEN U ELSE T
  BY DEF reparent, SchedulerStates
<1>2. F \in [Slot -> Slot \cup {NoPid}]
  BY PidFacts DEF SchedulerStates
<1>3. /\ T \in SchedulerStates(PC)
      /\ T.state = S.state /\ T.pc = S.pc /\ T.for_pid = S.for_pid
      /\ T.current = S.current /\ T.rq = S.rq /\ T.parent = F
  <2> HIDE DEF F
  <2> QED
    BY <1>2 DEF SchedulerStates
<1>4. MaskExact(T.rq) /\ AllReadyQueued(T)
  BY <1>3 DEF AllReadyQueued
<1>5. /\ U \in SchedulerStates(PC) /\ MaskExact(U.rq) /\ AllReadyQueued(U)
      /\ U.current = T.current /\ U.pc = T.pc /\ U.parent = T.parent
      /\ U.for_pid = T.for_pid /\ U.state[INIT] # "Waiting"
      /\ \A x \in Slot : \/ U.state[x] = T.state[x]
                         \/ T.state[x] \in {"Blocked", "Waiting"} /\ U.state[x] = "Ready"
  <2> HIDE DEF T
  <2> QED
    BY <1>3, <1>4, PidFacts, UnblockEffect
<1>6. ASSUME ~Woken, S.state[INIT] = "Waiting", NEW c \in Zombies(S, p)
      PROVE  S.for_pid[INIT] \notin {Any, c}
  <2>1. wake_waiting_parent(T, c) = T
    BY <1>6
  <2>2. T.parent[c] = INIT /\ INIT \in Pid
    BY <1>3, PidFacts DEF Zombies, Children
  <2>3. unblock(T, INIT) # T
    BY <1>3, <1>5, <1>6
  <2> QED
    BY <1>3, <1>6, <2>1, <2>2, <2>3 DEF wake_waiting_parent
<1> HIDE DEF T, U, F, R, Woken
<1>7. CASE Woken
  BY <1>1, <1>3, <1>5, <1>7 DEF R, F
<1>8. CASE ~Woken
  BY <1>1, <1>3, <1>4, <1>6, <1>8 DEF R, F
<1> QED
  BY <1>7, <1>8

\* exit() by a live process keeps the state sound.
LEMMA ExitSound ==
    ASSUME NEW PC, BasePC \subseteq PC, NEW S, Sound(S, PC), S.current \in Pid
    PROVE  Sound(exit(S), PC)
<1> DEFINE p == S.current
           Z == [S EXCEPT !.state[p] = "Zombie", !.pc[p] = "halt"]
           R == reparent(Z, p)
           q == R.parent[p]
           W == wake_waiting_parent(R, p)
<1>1. S \in SchedulerStates(PC) /\ p \in Slot /\ "halt" \in PC /\ Occupied(S, p)
  BY PidFacts DEF Sound, BasePC, SlotsConsistent
<1>2. /\ S.state \in [Slot -> ProcessState] /\ S.pc \in [Slot -> PC]
      /\ S.parent \in [Slot -> Slot \cup {NoPid}]
      /\ S.for_pid \in [Slot -> Pid \cup {Any}]
  BY <1>1 DEF SchedulerStates
<1>3. /\ Z \in SchedulerStates(PC)
      /\ Z.state = [S.state EXCEPT ![p] = "Zombie"]
      /\ Z.pc = [S.pc EXCEPT ![p] = "halt"]
      /\ Z.rq = S.rq /\ Z.current = p /\ Z.for_pid = S.for_pid /\ Z.parent = S.parent
  BY <1>1 DEF SchedulerStates, ProcessState
<1>4. exit(S) = schedule_no_requeue(W)
  BY DEF exit
<1> HIDE DEF Z
<1>5. MaskExact(Z.rq) /\ AllReadyQueued(Z)
  BY <1>1, <1>2, <1>3, PidFacts DEF Sound, AllReadyQueued
<1>6. \A x \in Slot : Occupied(Z, x) <=> Occupied(S, x)
  BY <1>1, <1>2, <1>3 DEF Occupied
<1>7. Children(Z, p) = Children(S, p)
  BY <1>3, <1>6, PidFacts DEF Children
<1>8. /\ R \in SchedulerStates(PC) /\ MaskExact(R.rq) /\ AllReadyQueued(R)
      /\ R.current = Z.current /\ R.pc = Z.pc /\ R.for_pid = Z.for_pid
      /\ \A c \in Slot : R.parent[c] = IF c \in Children(Z, p) THEN INIT ELSE Z.parent[c]
      /\ \A x \in Slot : \/ R.state[x] = Z.state[x]
                         \/ Z.state[x] \in {"Blocked", "Waiting"} /\ R.state[x] = "Ready"
      /\ R.state[INIT] = "Waiting"
            => \A c \in Zombies(Z, p) : Z.for_pid[INIT] \notin {Any, c}
  <2>1. Z \in SchedulerStates(PC) /\ p \in Pid
    BY <1>3
  <2> HIDE DEF p
  <2> QED
    BY <1>5, <2>1, ReparentEffect
<1>9. \A x \in Slot : R.parent[x] = IF x \in Children(S, p) THEN INIT ELSE S.parent[x]
  BY <1>3, <1>7, <1>8
<1> HIDE DEF R
<1>10. /\ W \in SchedulerStates(PC) /\ MaskExact(W.rq) /\ AllReadyQueued(W)
       /\ W.current = R.current /\ W.pc = R.pc /\ W.for_pid = R.for_pid
       /\ W.parent = R.parent
       /\ \A x \in Slot : \/ W.state[x] = R.state[x]
                          \/ R.state[x] \in {"Blocked", "Waiting"} /\ W.state[x] = "Ready"
       /\ q \in Pid /\ W.state[q] = "Waiting" => R.for_pid[q] \notin {Any, p}
  <2>1. CASE q \in Pid /\ R.state[q] = "Waiting" /\ R.for_pid[q] \in {Any, p}
    <3>1. W = unblock(R, q)
      BY <2>1 DEF wake_waiting_parent
    <3> HIDE DEF W, q
    <3> QED
      BY <1>8, <2>1, <3>1, UnblockEffect
  <2>2. CASE ~(q \in Pid /\ R.state[q] = "Waiting" /\ R.for_pid[q] \in {Any, p})
    <3>1. W = R
      BY <2>2 DEF wake_waiting_parent
    <3> QED
      BY <1>8, <2>2, <3>1
  <2> QED
    BY <2>1, <2>2
<1> HIDE DEF W
<1>11. /\ W.state[p] = "Zombie" /\ W.current = p
       /\ \A x \in Slot \ {p} : \/ W.state[x] = S.state[x]
                                \/ S.state[x] \in {"Blocked", "Waiting"} /\ W.state[x] = "Ready"
       /\ W.pc = [S.pc EXCEPT ![p] = "halt"]
       /\ W.for_pid = S.for_pid
  <2>1. Z.state[p] = "Zombie" /\ \A x \in Slot \ {p} : Z.state[x] = S.state[x]
    BY <1>1, <1>2, <1>3
  <2>2. W.current = p /\ W.pc = [S.pc EXCEPT ![p] = "halt"] /\ W.for_pid = S.for_pid
    BY <1>3, <1>8, <1>10
  <2>3. R.state[p] = "Zombie"
    BY <1>1, <1>8, <2>1
  <2>4. W.state[p] = "Zombie"
    BY <1>1, <1>10, <2>3
  <2>5. ASSUME NEW x \in Slot \ {p}
        PROVE  \/ W.state[x] = S.state[x]
               \/ S.state[x] \in {"Blocked", "Waiting"} /\ W.state[x] = "Ready"
    BY <1>8, <1>10, <2>1
  <2> HIDE DEF p
  <2> QED
    BY <2>2, <2>4, <2>5
<1>12. \A x \in Slot : Occupied(W, x) <=> Occupied(S, x)
  BY <1>1, <1>11 DEF Occupied
<1>13. NoZombieAwaited(W)
  <2> SUFFICES ASSUME NEW x \in Pid, W.state[x] = "Waiting", NEW c \in Zombies(W, x)
               PROVE  W.for_pid[x] \notin {Any, c}
    BY DEF NoZombieAwaited
  <2>1. x # p /\ x \in Slot /\ S.state[x] = "Waiting" /\ R.state[x] = "Waiting"
    BY <1>10, <1>11, PidFacts
  <2>2. c \in Pid /\ c \in Slot /\ Occupied(W, c) /\ W.parent[c] = x /\ W.state[c] = "Zombie"
    BY PidFacts DEF Zombies, Children
  <2>3. CASE c = p
    BY <1>3, <1>8, <1>10, <1>11, <2>2, <2>3
  <2>4. CASE c # p
    <3>1. S.state[c] = "Zombie" /\ Z.state[c] = "Zombie" /\ Occupied(S, c)
      BY <1>2, <1>3, <1>11, <2>2, <2>4 DEF Occupied
    <3>2. CASE c \in Children(S, p)
      <4>1. x = INIT
        BY <1>9, <1>10, <2>2, <3>2
      <4>2. c \in Zombies(Z, p)
        BY <1>7, <3>1, <3>2 DEF Zombies
      <4> QED
        BY <1>3, <1>8, <1>11, <2>1, <4>1, <4>2
    <3>3. CASE c \notin Children(S, p)
      <4>1. c \in Zombies(S, x)
        BY <1>9, <1>10, <2>2, <3>1, <3>3 DEF Zombies, Children
      <4> QED
        BY <1>11, <2>1, <4>1 DEF Sound, NoZombieAwaited
    <3> QED
      BY <3>2, <3>3
  <2> QED
    BY <2>3, <2>4
<1>14. ParentsAlive(W)
  <2> SUFFICES ASSUME NEW c \in Pid, Occupied(W, c), W.parent[c] \in Pid \ {INIT}
               PROVE  Occupied(W, W.parent[c]) /\ W.pc[W.parent[c]] # "halt"
    BY DEF ParentsAlive
  <2>1. c \in Slot /\ Occupied(S, c) /\ c \notin Children(S, p) /\ W.parent[c] = S.parent[c]
    BY <1>9, <1>10, <1>12, PidFacts
  <2>2. S.parent[c] # p
    BY <2>1 DEF Children
  <2>3. Occupied(S, S.parent[c]) /\ S.pc[S.parent[c]] # "halt"
    BY <2>1 DEF Sound, ParentsAlive
  <2> QED
    BY <1>2, <1>11, <1>12, <2>1, <2>2, <2>3, PidFacts
<1>15. SlotsConsistent(W)
  <2>1. \A x \in {W.current, IDLE, INIT} : Occupied(W, x)
    BY <1>1, <1>11, <1>12, PidFacts DEF Sound, SlotsConsistent
  <2>2. INIT \notin Children(S, p)
    BY <1>1, PidFacts DEF Sound, SlotsConsistent, Children
  <2>3. W.parent[INIT] = NoPid
    BY <1>9, <1>10, <2>2, PidFacts DEF Sound, SlotsConsistent
  <2>4. \A x \in Slot : /\ W.state[x] = "Zombie" => W.pc[x] = "halt"
                        /\ W.state[x] = "Waiting" => W.pc[x] = "wait"
    BY <1>1, <1>2, <1>11 DEF Sound, SlotsConsistent
  <2> QED
    BY <2>1, <2>3, <2>4 DEF SlotsConsistent
<1>16. Sound(W, PC)
  BY <1>10, <1>13, <1>14, <1>15 DEF Sound
<1>17. W.state[W.current] # "Ready"
  BY <1>11
<1> QED
  BY <1>4, <1>16, <1>17, ScheduleNoRequeueSound

=============================================================================
