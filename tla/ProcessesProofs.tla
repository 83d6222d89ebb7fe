--------------------------- MODULE ProcessesProofs ---------------------------
(***************************************************************************)
(* The safety invariants of Processes hold for every pool size, number of  *)
(* levels, signal set and choice of system calls.  IndInv (the soundness   *)
(* of the scheduler state) is inductive: each action composes scheduler    *)
(* operations that keep it, in an order that meets their preconditions.    *)
(***************************************************************************)
EXTENDS Processes, SchedulerProofs

USE RunQueueAssumption, SchedulerAssumption

\* The program points of Processes include the scheduler's.
LEMMA ProgramPoints == BasePC \subseteq PC
BY DEF BasePC, PC

\* A process inside its program or inside a system call it returns from.
Returning(S) == /\ Sound(S, PC)
                /\ S.current \in Pid
                /\ S.pc[S.current] \notin {"halt", "embryo"}
                /\ S.state[S.current] # "Waiting"

\* Returning to the program delivers at most one signal, which may end the
\* process.
LEMMA SysretSound ==
    ASSUME NEW S, Returning(S)
    PROVE  Sound(sysret(S), PC)
<1> DEFINE p == S.current
           sig == First(S.pending[p])
           U == [S EXCEPT !.pc[p] = "user", !.for_pid[p] = Any, !.wake_at[p] = 0]
           T == [U EXCEPT !.pending[p] = @ \ {sig}]
<1>1. /\ Sound(S, PC) /\ S \in SchedulerStates(PC) /\ p \in Pid /\ p \in Slot
      /\ S.pc[p] \notin {"halt", "embryo"} /\ S.state[p] # "Waiting"
      /\ "user" \in PC
  BY PidFacts DEF Returning, Sound, PC
<1>2. /\ U \in SchedulerStates(PC)
      /\ U.state = S.state /\ U.parent = S.parent /\ U.rq = S.rq /\ U.current = S.current
      /\ U.pc[p] = "user"
      /\ \A x \in Slot \ {p} : U.pc[x] = S.pc[x] /\ U.for_pid[x] = S.for_pid[x]
  BY <1>1 DEF SchedulerStates
<1>3. /\ T \in SchedulerStates(PC)
      /\ T.state = S.state /\ T.parent = S.parent /\ T.rq = S.rq /\ T.current = S.current
      /\ T.pc[p] = "user"
      /\ \A x \in Slot \ {p} : T.pc[x] = S.pc[x] /\ T.for_pid[x] = S.for_pid[x]
  <2> HIDE DEF sig
  <2> QED
    BY <1>1 DEF SchedulerStates
<1>4. \/ sysret(S) = U
      \/ sysret(S) = T
      \/ sysret(S) = exit(T)
  BY DEF sysret
<1> HIDE DEF U, T
<1>5. Sound(U, PC)
  BY <1>1, <1>2, LocalChange
<1>6. Sound(T, PC)
  BY <1>1, <1>3, LocalChange
<1>7. Sound(exit(T), PC)
  BY <1>1, <1>3, <1>6, ExitSound, ProgramPoints
<1> QED
  BY <1>4, <1>5, <1>6, <1>7

\* A process that issues a system call can return from it.
LEMMA UserReturning ==
    ASSUME NEW S, Sound(S, PC), NEW p \in Pid, InUser(S, p)
    PROVE  Returning(S) /\ S.current = p /\ S.pc[p] = "user" /\ Occupied(S, p)
BY PidFacts DEF InUser, Returning, Sound, SlotsConsistent

\* A completed creation leaves the caller where it was.
LEMMA LaunchReturning ==
    ASSUME NEW S, Returning(S), NEW c \in Pid, ~Occupied(S, c),
           NEW nice \in Level, NEW handlers \in SUBSET Signals
    PROVE  /\ Returning(create_process(S, c, S.current))
           /\ Returning(Launch(create_process(S, c, S.current), c, nice, handlers))
<1> DEFINE p == S.current
           T == create_process(S, c, p)
           V == [T EXCEPT !.nice[c] = nice, !.handlers[c] = handlers, !.pc[c] = "user"]
           L == MarkReady(V, c)
<1>1. /\ Sound(S, PC) /\ S \in SchedulerStates(PC) /\ p \in Pid /\ p \in Slot /\ c \in Slot
      /\ S.pc[p] \notin {"halt", "embryo"} /\ S.state[p] # "Waiting"
      /\ Occupied(S, p) /\ p # c
  BY PidFacts DEF Returning, Sound, SlotsConsistent
<1>2. /\ S.state \in [Slot -> ProcessState] /\ S.pc \in [Slot -> PC]
  BY <1>1 DEF SchedulerStates
<1>3. /\ Sound(T, PC) /\ T.current = p
      /\ T.state = [S.state EXCEPT ![c] = "Ready"]
      /\ T.pc = [S.pc EXCEPT ![c] = "embryo"]
  BY <1>1, CreateSound, ProgramPoints
<1> HIDE DEF T
<1>4. Returning(T)
  BY <1>1, <1>2, <1>3 DEF Returning
<1>5. T \in SchedulerStates(PC) /\ MaskExact(T.rq) /\ AllReadyQueued(T)
  BY <1>3 DEF Sound
<1>6. /\ V \in SchedulerStates(PC)
      /\ V.state = T.state /\ V.parent = T.parent /\ V.rq = T.rq
      /\ V.current = T.current /\ V.for_pid = T.for_pid
      /\ V.pc = [T.pc EXCEPT ![c] = "user"]
  BY <1>1, <1>5 DEF SchedulerStates, PC
<1> HIDE DEF V
<1>7. T.pc \in [Slot -> PC] /\ T.state \in [Slot -> ProcessState]
  BY <1>5 DEF SchedulerStates
<1>8. \A x \in Pid : V.state[x] = "Ready" /\ V.pc[x] # "embryo" /\ x # c => Queued(V.rq, x)
  BY <1>5, <1>6, <1>7, PidFacts DEF AllReadyQueued
<1>8a. V \in SchedulerStates(PC) /\ MaskExact(V.rq)
  BY <1>5, <1>6
<1>9. /\ L \in SchedulerStates(PC) /\ MaskExact(L.rq) /\ AllReadyQueued(L)
      /\ L.current = V.current /\ L.pc = V.pc /\ L.parent = V.parent
      /\ L.for_pid = V.for_pid /\ L.state = [V.state EXCEPT ![c] = "Ready"]
  BY <1>8, <1>8a, MarkReadyEffect
<1> HIDE DEF L
<1>10. /\ L.current = p /\ L.parent = T.parent /\ L.for_pid = T.for_pid /\ L.state = T.state
       /\ L.pc = [T.pc EXCEPT ![c] = "user"]
  BY <1>1, <1>2, <1>3, <1>6, <1>7, <1>9
<1>11. Sound(L, PC)
  <2>1. \A x \in Slot : Occupied(L, x) <=> Occupied(T, x)
    BY <1>10 DEF Occupied
  <2>2. NoZombieAwaited(L)
    BY <1>3, <1>10, <2>1, PidFacts DEF Sound, NoZombieAwaited, Zombies, Children
  <2>3. ParentsAlive(L)
    BY <1>1, <1>3, <1>7, <1>10, <2>1, PidFacts DEF Sound, ParentsAlive
  <2>4. SlotsConsistent(L)
    BY <1>1, <1>2, <1>3, <1>7, <1>10, <2>1, PidFacts DEF Sound, SlotsConsistent
  <2> QED
    BY <1>9, <2>2, <2>3, <2>4 DEF Sound
<1>12. Returning(L)
  BY <1>1, <1>2, <1>3, <1>7, <1>10, <1>11 DEF Returning
<1>13. Launch(T, c, nice, handlers) = L
  BY DEF Launch, L, V
<1> QED
  BY <1>4, <1>12, <1>13 DEF T

\* A turn of the loop in sys_wait() reaps, returns or blocks.
LEMMA WaitTurnSound ==
    ASSUME NEW S, Sound(S, PC), NEW p \in Pid, S.current = p,
           S.pc[p] \in {"user", "wait"}, NEW nohang \in BOOLEAN,
           nohang => S.pc[p] = "user"
    PROVE  Sound(wait_turn(S, p, nohang), PC)
<1> DEFINE z == reap_candidate(S, p, S.for_pid[p])
           ZS == {c \in Zombies(S, p) : S.for_pid[p] \in {Any, c}}
           W == [S EXCEPT !.state[p] = "Waiting", !.pc[p] = "wait"]
<1>1. /\ S \in SchedulerStates(PC) /\ p \in Slot /\ Occupied(S, p)
      /\ S.state \in [Slot -> ProcessState] /\ S.pc \in [Slot -> PC]
  BY PidFacts DEF Sound, SlotsConsistent, SchedulerStates
<1>2. z # NoPid => z \in ZS
  <2>1. ZS \in SUBSET Slot
    BY PidFacts DEF Zombies, Children
  <2>2. ZS \in SUBSET Nat /\ IsFiniteSet(ZS)
    <3> HIDE DEF ZS
    <3> QED
      BY <2>1, PidFinite
  <2>3. ZS # {} => First(ZS) \in ZS
    <3> HIDE DEF ZS
    <3> QED
      BY <2>2, FirstLemma
  <2>4. z = IF ZS = {} THEN NoPid ELSE First(ZS)
    BY DEF reap_candidate
  <2> HIDE DEF z, ZS
  <2> QED
    BY <2>3, <2>4
<1>3. ZS = {} => z = NoPid
  BY DEF reap_candidate
<1>4. CASE z # NoPid
  <2>1. /\ z \in Pid /\ S.state[z] = "Zombie" /\ S.parent[z] = p
        /\ z \in Zombies(S, p) /\ S.for_pid[p] \in {Any, z}
    <3>1. z \in ZS
      BY <1>2, <1>4
    <3> HIDE DEF z
    <3> QED
      BY <3>1 DEF Zombies, Children
  <2>2. z # INIT /\ z # p
    <3> HIDE DEF z
    <3>1. S.pc[p] # "halt"
      OBVIOUS
    <3> QED
      BY <1>1, <2>1, <3>1, PidFacts DEF Sound, SlotsConsistent
  <2>3. S.state[p] # "Waiting"
    <3> HIDE DEF z
    <3> QED
      BY <2>1 DEF Sound, NoZombieAwaited
  <2> DEFINE F == free_slot(S, z)
  <2>4. wait_turn(S, p, nohang) = sysret(F)
    BY <1>4 DEF wait_turn
  <2> HIDE DEF z
  <2>5. /\ Sound(F, PC) /\ F.current = S.current
        /\ F.state = [S.state EXCEPT ![z] = "Empty"]
        /\ F.pc = [S.pc EXCEPT ![z] = "user"]
    BY <2>1, <2>2, FreeSound, ProgramPoints
  <2> HIDE DEF F
  <2>6. Returning(F)
    BY <1>1, <2>2, <2>3, <2>5 DEF Returning
  <2>7. Sound(sysret(F), PC)
    BY <2>6, SysretSound
  <2> QED
    BY <2>4, <2>7
<1>5. CASE z = NoPid /\ nohang
  <2>1. wait_turn(S, p, nohang) = sysret(S)
    BY <1>5 DEF wait_turn
  <2>2. Returning(S)
    BY <1>1, <1>5 DEF Returning, Sound, SlotsConsistent
  <2>3. Sound(sysret(S), PC)
    BY <2>2, SysretSound
  <2> QED
    BY <2>1, <2>3
<1>6. CASE z = NoPid /\ ~nohang
  <2>1. wait_turn(S, p, nohang) = schedule_no_requeue(W)
    BY <1>6 DEF wait_turn
  <2>2. ZS = {}
    <3> SUFFICES ASSUME ZS # {} PROVE FALSE
      OBVIOUS
    <3>1. z = First(ZS)
      BY DEF reap_candidate
    <3>2. ZS \in SUBSET Slot
      BY PidFacts DEF Zombies, Children
    <3> HIDE DEF ZS, z
    <3>3. First(ZS) \in Slot
      BY <3>2, PidFinite, FirstLemma
    <3> QED
      BY <1>6, <3>1, <3>3, PidFacts
  <2>3. /\ W \in SchedulerStates(PC)
        /\ W.state = [S.state EXCEPT ![p] = "Waiting"]
        /\ W.pc = [S.pc EXCEPT ![p] = "wait"]
        /\ W.parent = S.parent /\ W.for_pid = S.for_pid /\ W.rq = S.rq
        /\ W.current = S.current
    BY <1>1 DEF SchedulerStates, ProcessState, PC
  <2> HIDE DEF W, z
  <2>4. \A x \in Slot : Occupied(W, x) <=> Occupied(S, x)
    BY <1>1, <2>3 DEF Occupied
  <2>5. MaskExact(W.rq) /\ AllReadyQueued(W)
    BY <1>1, <2>3, PidFacts DEF Sound, AllReadyQueued
  <2>6. \A x \in Slot : Zombies(W, x) \subseteq Zombies(S, x)
    BY <1>1, <2>3, <2>4, PidFacts DEF Zombies, Children
  <2>7. NoZombieAwaited(W)
    BY <1>1, <2>2, <2>3, <2>6, PidFacts DEF Sound, NoZombieAwaited
  <2>8. ParentsAlive(W)
    BY <1>1, <2>3, <2>4, PidFacts DEF Sound, ParentsAlive
  <2>9. SlotsConsistent(W)
    BY <1>1, <2>3, <2>4, PidFacts DEF Sound, SlotsConsistent
  <2>10. Sound(W, PC) /\ W.state[W.current] # "Ready"
    BY <1>1, <2>3, <2>5, <2>7, <2>8, <2>9 DEF Sound
  <2>11. Sound(schedule_no_requeue(W), PC)
    BY <2>10, ScheduleNoRequeueSound
  <2> QED
    BY <2>1, <2>11
<1> QED
  BY <1>4, <1>5, <1>6

\* A first turn of sys_wait(), with the argument just stored.
LEMMA SysWaitSound ==
    ASSUME Sound(sched, PC), NEW p \in Pid, InUser(sched, p),
           NEW for_pid \in Pid \cup {Any}, NEW nohang \in BOOLEAN,
           sys_wait(p, for_pid, nohang)
    PROVE  Sound(sched', PC)
<1> DEFINE T == [sched EXCEPT !.for_pid[p] = for_pid]
<1>1. Returning(sched) /\ sched.current = p /\ sched.pc[p] = "user"
  BY UserReturning
<1>2. CASE has_children(sched, p)
  <2>1. sched' = wait_turn(T, p, nohang)
    BY <1>2 DEF sys_wait
  <2>2. sched \in SchedulerStates(PC) /\ p \in Slot
    BY PidFacts DEF Sound
  <2>3. /\ T \in SchedulerStates(PC)
        /\ T.state = sched.state /\ T.parent = sched.parent /\ T.rq = sched.rq
        /\ T.current = sched.current /\ T.pc = sched.pc
        /\ \A x \in Slot \ {p} : T.for_pid[x] = sched.for_pid[x]
    BY <2>2 DEF SchedulerStates
  <2> HIDE DEF T
  <2>4. Sound(T, PC)
    BY <1>1, <2>2, <2>3, LocalChange DEF Returning
  <2>5. T.current = p /\ T.pc[p] = "user"
    BY <1>1, <2>3
  <2>6. Sound(wait_turn(T, p, nohang), PC)
    BY <2>4, <2>5, WaitTurnSound
  <2> QED
    BY <2>1, <2>6
<1>3. CASE ~has_children(sched, p)
  <2>1. sched' = sysret(sched)
    BY <1>3 DEF sys_wait
  <2> QED
    BY <1>1, <2>1, SysretSound
<1> QED
  BY <1>2, <1>3

\* A change of the caller's own handlers, alarm or level.
LEMMA OwnFieldReturning ==
    ASSUME NEW S, Returning(S), NEW T \in SchedulerStates(PC),
           T.state = S.state, T.pc = S.pc, T.parent = S.parent,
           T.for_pid = S.for_pid, T.current = S.current, T.rq = S.rq
    PROVE  Returning(T)
<1>1. Sound(T, PC)
  BY BookkeepingSound DEF Returning
<1> QED
  BY <1>1 DEF Returning

\* A signal leaves the current process able to return, whoever gets it.
LEMMA SignalReturning ==
    ASSUME NEW S, Returning(S), NEW t \in Pid, NEW sig \in Signals
    PROVE  Returning(send_signal_to(S, t, sig))
<1> DEFINE T == [S EXCEPT !.pending[t] = @ \cup {sig}]
           V == send_signal_to(S, t, sig)
<1>1. /\ Sound(S, PC) /\ S \in SchedulerStates(PC) /\ t \in Slot
      /\ S.current \in Pid /\ S.current \in Slot
      /\ S.pc[S.current] \notin {"halt", "embryo"} /\ S.state[S.current] # "Waiting"
  BY PidFacts DEF Returning, Sound
<1>2. Sound(V, PC)
  BY <1>1, SendSignalSound
<1>3. \A X : X \in {S, T} => /\ X.pc = S.pc /\ X.current = S.current /\ X.state = S.state
                            /\ X.state \in [Slot -> ProcessState]
                            /\ X \in SchedulerStates(PC)
  BY <1>1 DEF SchedulerStates
<1>4. \/ V \in {S, T}
      \/ \E X \in {S, T} : V = MarkReady(X, t)
      \/ V = [S EXCEPT !.state[t] = "Stopped", !.rq = remove(@, t)]
      \/ V = [S EXCEPT !.state[t] = "Stopped"]
  BY DEF send_signal_to, stop, continue, notify
<1> HIDE DEF T, V
<1>5. ASSUME NEW X \in {S, T}
      PROVE  /\ MarkReady(X, t).pc = S.pc
             /\ MarkReady(X, t).current = S.current
             /\ MarkReady(X, t).state = [S.state EXCEPT ![t] = "Ready"]
  BY <1>1, <1>3 DEF MarkReady, enqueue, SchedulerStates
<1>6. /\ V.pc = S.pc /\ V.current = S.current
      /\ \/ V.state = S.state
         \/ \E s \in {"Ready", "Stopped"} : V.state = [S.state EXCEPT ![t] = s]
  <2>1. CASE V \in {S, T}
    BY <1>3, <2>1
  <2>2. CASE \E X \in {S, T} : V = MarkReady(X, t)
    BY <1>5, <2>2
  <2>3. CASE V = [S EXCEPT !.state[t] = "Stopped", !.rq = remove(@, t)]
    BY <1>1, <2>3 DEF SchedulerStates
  <2>4. CASE V = [S EXCEPT !.state[t] = "Stopped"]
    BY <1>1, <2>4 DEF SchedulerStates
  <2> QED
    BY <1>4, <2>1, <2>2, <2>3, <2>4
<1>7. S.state \in [Slot -> ProcessState]
  BY <1>1 DEF SchedulerStates
<1>8. V.state[V.current] # "Waiting"
  BY <1>1, <1>6, <1>7
<1>9. Returning(V)
  BY <1>1, <1>2, <1>6, <1>8 DEF Returning
<1> QED
  BY <1>9 DEF V

(***************************************************************************)
(* The invariant.                                                          *)
(***************************************************************************)

\* The state after boot is sound.
LEMMA BootSound == Init => IndInv
<1> SUFFICES ASSUME Init PROVE Sound(sched, PC)
  BY DEF IndInv
<1> DEFINE R == push_with_nice(EmptyQueue, INIT, NICE_DEFAULT)
<1>1. EmptyQueue \in Queues /\ MaskExact(EmptyQueue)
  BY EmptySeq DEF EmptyQueue, Queues, MaskExact
<1>2. R \in Queues /\ MaskExact(R) /\ \A x : Queued(R, x) <=> Queued(EmptyQueue, x) \/ x = INIT
  BY <1>1, PidFacts, PushLemma
<1>3. 2 % PID_MAX \in Slot
  BY DEF Slot
<1> HIDE DEF R
<1>4. sched = [BootState EXCEPT !.rq = R]
  BY DEF Init, BootState, R
<1>5. sched \in SchedulerStates(PC)
  BY <1>2, <1>3, <1>4, PidFacts DEF BootState, SchedulerStates, ProcessState, PC
<1>6. /\ sched.rq = R /\ sched.current = IDLE
      /\ \A x \in Slot : /\ sched.state[x] = IF x = IDLE THEN "Running"
                                            ELSE IF x = INIT THEN "Ready" ELSE "Empty"
                         /\ sched.parent[x] = NoPid
                         /\ sched.pc[x] = "user"
  BY <1>4, PidFacts DEF BootState
<1>7. AllReadyQueued(sched)
  BY <1>2, <1>6, PidFacts DEF AllReadyQueued
<1>8. NoZombieAwaited(sched) /\ ParentsAlive(sched)
  BY <1>6, PidFacts DEF NoZombieAwaited, ParentsAlive
<1>9. SlotsConsistent(sched)
  BY <1>6, PidFacts DEF SlotsConsistent, Occupied
<1> QED
  BY <1>2, <1>5, <1>6, <1>7, <1>8, <1>9 DEF Sound

\* Every system call keeps the state sound.
LEMMA StepSound ==
    ASSUME IndInv, NEW p \in Pid, Step(p)
    PROVE  IndInv'
<1> SUFFICES Sound(sched', PC)
  BY DEF IndInv
<1>0. Sound(sched, PC) /\ sched \in SchedulerStates(PC) /\ p \in Slot
  BY PidFacts DEF IndInv, Sound
<1>1. CASE Fork(p)
  <2>1. InUser(sched, p)
    BY <1>1 DEF Fork, Issues
  <2>2. Returning(sched) /\ sched.current = p
    BY <1>0, <2>1, UserReturning
  <2>3. CASE allocate_slot(sched) = NoPid
    <3>1. sched' = sysret(sched)
      BY <1>1, <2>3 DEF Fork
    <3> QED
      BY <2>2, <3>1, SysretSound
  <2>4. CASE allocate_slot(sched) # NoPid
    <3> DEFINE c == allocate_slot(sched)
               L == Launch(create_process(sched, c, p), c, NICE_DEFAULT, sched.handlers[p])
    <3>1. sched' = sysret(L)
      BY <1>1, <2>4 DEF Fork
    <3>2. c \in Pid /\ ~Occupied(sched, c)
      BY <1>0, <2>4, AllocateLemma
    <3>3. NICE_DEFAULT \in Level /\ sched.handlers[p] \in SUBSET Signals
      BY <1>0 DEF SchedulerStates
    <3> HIDE DEF c
    <3>4. Returning(L)
      BY <2>2, <3>2, <3>3, LaunchReturning
    <3> HIDE DEF L
    <3> QED
      BY <3>1, <3>4, SysretSound
  <2> QED
    BY <2>3, <2>4
<1>2. CASE ForkOutOfMemory(p)
  <2> DEFINE c == allocate_slot(sched)
             N == [sched EXCEPT !.next_search_index = (c + 1) % PID_MAX]
  <2>1. /\ InUser(sched, p) /\ c # NoPid
        /\ sched' = sysret(N) \/ sched' = sysret(create_process(sched, c, p))
    BY <1>2 DEF ForkOutOfMemory, Issues
  <2>2. Returning(sched) /\ sched.current = p
    BY <1>0, <2>1, UserReturning
  <2>3. c \in Pid /\ ~Occupied(sched, c)
    BY <1>0, <2>1, AllocateLemma
  <2>4. NICE_DEFAULT \in Level /\ {} \in SUBSET Signals
    OBVIOUS
  <2> HIDE DEF c
  <2>5. Returning(create_process(sched, c, p))
    BY <2>2, <2>3, <2>4, LaunchReturning
  <2>6. (c + 1) % PID_MAX \in Slot
    BY <2>3 DEF Pid, Slot
  <2>7. /\ N \in SchedulerStates(PC)
        /\ N.state = sched.state /\ N.pc = sched.pc /\ N.parent = sched.parent
        /\ N.for_pid = sched.for_pid /\ N.current = sched.current /\ N.rq = sched.rq
    BY <1>0, <2>6 DEF SchedulerStates
  <2> HIDE DEF N
  <2>8. Returning(N)
    BY <2>2, <2>7, OwnFieldReturning
  <2> QED
    BY <2>1, <2>5, <2>8, SysretSound
<1>3. CASE Spawn(p)
  <2>1. InUser(sched, p)
    BY <1>3 DEF Spawn, Issues
  <2>2. Returning(sched) /\ sched.current = p
    BY <1>0, <2>1, UserReturning
  <2>3. CASE allocate_slot(sched) = NoPid
    <3>1. sched' = sysret(sched)
      BY <1>3, <2>3 DEF Spawn
    <3> QED
      BY <2>2, <3>1, SysretSound
  <2>4. CASE allocate_slot(sched) # NoPid
    <3> DEFINE c == allocate_slot(sched)
               L == Launch(create_process(sched, c, p), c, NICE_DEFAULT, {})
    <3>1. sched' = sysret(L)
      BY <1>3, <2>4 DEF Spawn
    <3>2. c \in Pid /\ ~Occupied(sched, c)
      BY <1>0, <2>4, AllocateLemma
    <3>3. NICE_DEFAULT \in Level /\ {} \in SUBSET Signals
      BY <1>0 DEF SchedulerStates
    <3> HIDE DEF c
    <3>4. Returning(L)
      BY <2>2, <3>2, <3>3, LaunchReturning
    <3> HIDE DEF L
    <3> QED
      BY <3>1, <3>4, SysretSound
  <2> QED
    BY <2>3, <2>4
<1>4. CASE Clone(p)
  <2>1. InUser(sched, p)
    BY <1>4 DEF Clone, Issues
  <2>2. Returning(sched) /\ sched.current = p
    BY <1>0, <2>1, UserReturning
  <2>3. CASE allocate_slot(sched) = NoPid
    <3>1. sched' = sysret(sched)
      BY <1>4, <2>3 DEF Clone
    <3> QED
      BY <2>2, <3>1, SysretSound
  <2>4. CASE allocate_slot(sched) # NoPid
    <3> DEFINE c == allocate_slot(sched)
               L == Launch(create_process(sched, c, p), c, sched.nice[p], sched.handlers[p])
    <3>1. sched' = sysret(L)
      BY <1>4, <2>4 DEF Clone
    <3>2. c \in Pid /\ ~Occupied(sched, c)
      BY <1>0, <2>4, AllocateLemma
    <3>3. sched.nice[p] \in Level /\ sched.handlers[p] \in SUBSET Signals
      BY <1>0 DEF SchedulerStates
    <3> HIDE DEF c
    <3>4. Returning(L)
      BY <2>2, <3>2, <3>3, LaunchReturning
    <3> HIDE DEF L
    <3> QED
      BY <3>1, <3>4, SysretSound
  <2> QED
    BY <2>3, <2>4
<1>5. CASE Exit(p)
  BY <1>0, <1>5, ExitSound, ProgramPoints DEF Exit, Issues, InUser
<1>6. CASE Wait(p)
  <2>1. InUser(sched, p) /\ sys_wait(p, Any, FALSE)
    BY <1>6 DEF Wait, Issues
  <2> QED
    BY <1>0, <2>1, SysWaitSound
<1>7. CASE WaitPid(p)
  <2>1. InUser(sched, p)
    BY <1>7 DEF WaitPid, Issues
  <2>2. PICK c \in Pid : sys_wait(p, c, FALSE)
    BY <1>7 DEF WaitPid
  <2> QED
    BY <1>0, <2>1, <2>2, SysWaitSound
<1>8. CASE WaitNoHang(p)
  <2>1. InUser(sched, p)
    BY <1>8 DEF WaitNoHang, Issues
  <2>2. PICK c \in Pid \cup {Any} : sys_wait(p, c, TRUE)
    BY <1>8 DEF WaitNoHang
  <2> QED
    BY <1>0, <2>1, <2>2, SysWaitSound
<1>9. CASE WaitResume(p)
  <2>1. sched.current = p /\ sched.pc[p] = "wait" /\ sched' = wait_turn(sched, p, FALSE)
    BY <1>9 DEF WaitResume, Inside
  <2>2. Sound(wait_turn(sched, p, FALSE), PC)
    BY <1>0, <2>1, WaitTurnSound
  <2> QED
    BY <2>1, <2>2
<1>10. CASE Kill(p)
  <2>1. InUser(sched, p)
    BY <1>10 DEF Kill, Issues
  <2>2. PICK t \in Pid \ {p}, sig \in Signals : sched' = sysret(send_signal_to(sched, t, sig))
    BY <1>10 DEF Kill
  <2>3. Returning(send_signal_to(sched, t, sig))
    BY <1>0, <2>1, UserReturning, SignalReturning
  <2> QED
    BY <2>2, <2>3, SysretSound
<1>11. CASE Raise(p)
  <2>1. InUser(sched, p)
    BY <1>11 DEF Raise, Issues
  <2>2. PICK sig \in Signals : sched' = sysret(send_signal_to(sched, p, sig))
    BY <1>11 DEF Raise
  <2>3. Returning(send_signal_to(sched, p, sig))
    BY <1>0, <2>1, UserReturning, SignalReturning
  <2> QED
    BY <2>2, <2>3, SysretSound
<1>12. CASE Sigaction(p)
  <2>1. InUser(sched, p)
    BY <1>12 DEF Sigaction, Issues
  <2>2. PICK sig \in Signals : \E H \in {{}, {sig}} :
               sched' = sysret([sched EXCEPT !.handlers[p] = (@ \ {sig}) \cup H])
    BY <1>12 DEF Sigaction
  <2>3. PICK H \in {{}, {sig}} :
               sched' = sysret([sched EXCEPT !.handlers[p] = (@ \ {sig}) \cup H])
    BY <2>2
  <2> DEFINE T == [sched EXCEPT !.handlers[p] = (@ \ {sig}) \cup H]
  <2>4. /\ T \in SchedulerStates(PC)
        /\ T.state = sched.state /\ T.pc = sched.pc /\ T.parent = sched.parent
        /\ T.for_pid = sched.for_pid /\ T.current = sched.current /\ T.rq = sched.rq
    BY <1>0 DEF SchedulerStates
  <2> HIDE DEF T
  <2>5. Returning(T)
    BY <1>0, <2>1, <2>4, UserReturning, OwnFieldReturning
  <2> QED
    BY <2>3, <2>5, SysretSound DEF T
<1>13. CASE Alarm(p)
  <2>1. InUser(sched, p)
    BY <1>13 DEF Alarm, Issues
  <2>2. PICK n \in 0 .. MAX_SLEEP : sched' = sysret([sched EXCEPT !.alarm[p] = IF n = 0 THEN 0 ELSE sched.tick + n])
    BY <1>13 DEF Alarm
  <2> DEFINE a == IF n = 0 THEN 0 ELSE sched.tick + n
             T == [sched EXCEPT !.alarm[p] = a]
  <2>0. a \in Nat
    BY <1>0, ProcessesAssumption DEF SchedulerStates
  <2> HIDE DEF a
  <2>3. /\ T \in SchedulerStates(PC)
        /\ T.state = sched.state /\ T.pc = sched.pc /\ T.parent = sched.parent
        /\ T.for_pid = sched.for_pid /\ T.current = sched.current /\ T.rq = sched.rq
    BY <1>0, <2>0 DEF SchedulerStates
  <2> HIDE DEF T
  <2>4. Returning(T)
    BY <1>0, <2>1, <2>3, UserReturning, OwnFieldReturning
  <2> QED
    BY <2>2, <2>4, SysretSound DEF T, a
<1>14. CASE SetPriority(p)
  <2>1. InUser(sched, p)
    BY <1>14 DEF SetPriority, Issues
  <2>2. PICK l \in Level : sched' = sysret([sched EXCEPT !.nice[p] = l])
    BY <1>14 DEF SetPriority
  <2> DEFINE T == [sched EXCEPT !.nice[p] = l]
  <2>3. /\ T \in SchedulerStates(PC)
        /\ T.state = sched.state /\ T.pc = sched.pc /\ T.parent = sched.parent
        /\ T.for_pid = sched.for_pid /\ T.current = sched.current /\ T.rq = sched.rq
    BY <1>0 DEF SchedulerStates
  <2> HIDE DEF T
  <2>4. Returning(T)
    BY <1>0, <2>1, <2>3, UserReturning, OwnFieldReturning
  <2> QED
    BY <2>2, <2>4, SysretSound DEF T
<1>15. CASE Yield(p)
  <2> DEFINE T == [sched EXCEPT !.pc[p] = "yield"]
  <2>1. InUser(sched, p) /\ sched' = schedule(T)
    BY <1>15 DEF Yield, Issues
  <2>2. sched.pc[p] = "user" /\ sched.state[p] # "Waiting"
    BY <1>0, <2>1 DEF InUser, Sound, SlotsConsistent
  <2>3. /\ T \in SchedulerStates(PC)
        /\ T.state = sched.state /\ T.parent = sched.parent /\ T.rq = sched.rq
        /\ T.current = sched.current /\ T.for_pid = sched.for_pid /\ T.pc[p] = "yield"
        /\ \A x \in Slot \ {p} : T.pc[x] = sched.pc[x]
    BY <1>0 DEF SchedulerStates, PC
  <2> HIDE DEF T
  <2>4. Sound(T, PC)
    BY <1>0, <2>2, <2>3, LocalChange
  <2> QED
    BY <2>1, <2>4, ScheduleSound
<1>16. CASE Nanosleep(p)
  <2>1. InUser(sched, p)
    BY <1>16 DEF Nanosleep, Issues
  <2>2. PICK n \in 1 .. MAX_SLEEP :
           sched' = schedule([sched EXCEPT !.state[p] = "Sleeping",
                                           !.wake_at[p] = sched.tick + n,
                                           !.pc[p] = "nanosleep"])
    BY <1>16 DEF Nanosleep
  <2> DEFINE M == [sched EXCEPT !.pc[p] = "nanosleep"]
             T == [sched EXCEPT !.state[p] = "Sleeping", !.wake_at[p] = sched.tick + n,
                                !.pc[p] = "nanosleep"]
  <2>3. sched.pc[p] = "user" /\ sched.state[p] # "Waiting" /\ sched.current = p
        /\ Occupied(sched, p)
    BY <1>0, <2>1 DEF InUser, Sound, SlotsConsistent
  <2>4. /\ M \in SchedulerStates(PC)
        /\ M.state = sched.state /\ M.parent = sched.parent /\ M.rq = sched.rq
        /\ M.current = sched.current /\ M.for_pid = sched.for_pid /\ M.pc[p] = "nanosleep"
        /\ \A x \in Slot \ {p} : M.pc[x] = sched.pc[x]
    BY <1>0 DEF SchedulerStates, PC
  <2>5. /\ T \in SchedulerStates(PC)
        /\ T.state = [sched.state EXCEPT ![p] = "Sleeping"] /\ T.parent = sched.parent
        /\ T.rq = sched.rq /\ T.current = sched.current /\ T.for_pid = sched.for_pid
        /\ T.pc = M.pc
    <3> DEFINE st == [sched.state EXCEPT ![p] = "Sleeping"]
               wa == [sched.wake_at EXCEPT ![p] = sched.tick + n]
               at == [sched.pc EXCEPT ![p] = "nanosleep"]
    <3>1. sched.tick + n \in Nat
      BY <1>0, ProcessesAssumption DEF SchedulerStates
    <3>2. st \in [Slot -> ProcessState] /\ wa \in [Slot -> Nat] /\ at \in [Slot -> PC]
      BY <1>0, <3>1 DEF SchedulerStates, ProcessState, PC
    <3>3. /\ T = [sched EXCEPT !.state = st, !.wake_at = wa, !.pc = at]
          /\ M = [sched EXCEPT !.pc = at]
      BY <1>0 DEF SchedulerStates
    <3> HIDE DEF wa, at, T, M
    <3> QED
      BY <1>0, <3>2, <3>3 DEF SchedulerStates
  <2>6. sched.state \in [Slot -> ProcessState]
    BY <1>0 DEF SchedulerStates
  <2> HIDE DEF M, T
  <2>7. Sound(M, PC)
    BY <1>0, <2>3, <2>4, LocalChange
  <2>8. MaskExact(T.rq) /\ AllReadyQueued(T)
    BY <1>0, <2>4, <2>5, <2>6, <2>7, PidFacts DEF Sound, AllReadyQueued
  <2>9. Occupied(T, T.current) /\ Occupied(M, p)
    BY <1>0, <2>3, <2>4, <2>5, <2>6 DEF Occupied
  <2>10. \A x \in Slot : \/ T.state[x] = M.state[x]
                         \/ T.state[x] = "Sleeping" /\ Occupied(M, x)
    BY <1>0, <2>4, <2>5, <2>6, <2>9
  <2>11. Sound(T, PC)
    BY <2>4, <2>5, <2>7, <2>8, <2>9, <2>10, LiveStatesChange
  <2>12. Sound(schedule(T), PC)
    BY <2>11, ScheduleSound
  <2> QED
    BY <2>2, <2>12 DEF T
<1>17. CASE Resume(p)
  <2>1. /\ sched.current = p /\ sched.pc[p] \in {"yield", "nanosleep"}
        /\ sched' = sysret(sched)
    BY <1>17 DEF Resume, Inside
  <2>2. Returning(sched)
    BY <1>0, <2>1 DEF Returning, Sound, SlotsConsistent
  <2> QED
    BY <2>1, <2>2, SysretSound
<1> QED
  BY <1>1, <1>2, <1>3, <1>4, <1>5, <1>6, <1>7, <1>8, <1>9, <1>10, <1>11, <1>12,
     <1>13, <1>14, <1>15, <1>16, <1>17 DEF Step

\* So do the idle loop, the timer and a stutter.
LEMMA NextSound == IndInv /\ [Next]_sched => IndInv'
<1> SUFFICES ASSUME IndInv, [Next]_sched PROVE IndInv'
  OBVIOUS
<1>1. CASE \E p \in Pid : Step(p)
  BY <1>1, StepSound
<1>2. CASE Idle
  BY <1>2, ScheduleSound DEF Idle, IndInv
<1>3. CASE Tick
  <2> DEFINE T == [sched EXCEPT !.tick = @ + 1]
  <2>1. Sound(sched, PC) /\ sched \in SchedulerStates(PC) /\ sched' = T
    BY <1>3 DEF Tick, IndInv, Sound
  <2>2. /\ T \in SchedulerStates(PC)
        /\ T.state = sched.state /\ T.pc = sched.pc /\ T.parent = sched.parent
        /\ T.for_pid = sched.for_pid /\ T.current = sched.current /\ T.rq = sched.rq
    BY <2>1 DEF SchedulerStates
  <2> HIDE DEF T
  <2>3. Sound(T, PC)
    BY <2>1, <2>2, BookkeepingSound
  <2> QED
    BY <2>1, <2>3 DEF IndInv
<1>4. CASE sched' = sched
  BY <1>4 DEF IndInv
<1> QED
  BY <1>1, <1>2, <1>3, <1>4 DEF Next

\* The scheduler state is sound in every reachable state, for every pool size,
\* number of levels, signal set and mix of system calls.
THEOREM AlwaysSound == Spec => []IndInv
<1> QED
  BY BootSound, NextSound, PTL DEF Spec

\* Type correctness of the scheduler and process structures.
THEOREM AlwaysTypeOK == Spec => []TypeOK
<1>1. IndInv => TypeOK
  BY DEF IndInv, TypeOK, Sound
<1> QED
  BY <1>1, AlwaysSound, PTL

\* The run queue's cached mask is exact, so pop() finds every queued process.
THEOREM AlwaysMaskExact == Spec => []MaskInv
<1>1. IndInv => MaskInv
  BY DEF IndInv, MaskInv, Sound
<1> QED
  BY <1>1, AlwaysSound, PTL

\* No Ready process is ever missing from the run queue.
THEOREM AlwaysReadyIsQueued == Spec => []ReadyIsQueued
<1>1. IndInv => ReadyIsQueued
  BY DEF IndInv, ReadyIsQueued, Sound
<1> QED
  BY <1>1, AlwaysSound, PTL

\* No process sleeps in wait() on a child that has already exited.
THEOREM NeverMissesExit == Spec => []NoMissedExit
<1>1. IndInv => NoMissedExit
  BY DEF IndInv, NoMissedExit, Sound
<1> QED
  BY <1>1, AlwaysSound, PTL

\* Every process has a parent able to reap it, or init.
THEOREM AlwaysAdopted == Spec => []OrphansAdopted
<1>1. IndInv => OrphansAdopted
  BY DEF IndInv, OrphansAdopted, Sound
<1> QED
  BY <1>1, AlwaysSound, PTL

=============================================================================
