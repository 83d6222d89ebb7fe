------------------------------ MODULE RunQueue ------------------------------
(***************************************************************************)
(* The per-CPU run queue of the kernel scheduler                           *)
(* (kernel/src/scheduler/mod.rs, struct RunQueue): one FIFO per priority   *)
(* level and a cached mask of the levels that hold at least one pid.  The  *)
(* operators are the methods of the struct, as functions from a queue to a *)
(* queue; Scheduler.tla keeps one queue inside its state.                  *)
(***************************************************************************)
EXTENDS Naturals, Sequences, FiniteSets

CONSTANTS PRIORITY_LEVELS,   \* number of levels; 40 in the code
          PID_MAX            \* number of slots of the process pool; 32768

ASSUME RunQueueAssumption == /\ PRIORITY_LEVELS \in Nat \ {0}
                             /\ PID_MAX \in Nat
                             /\ PID_MAX >= 2

IDLE == 0                          \* Pid::IDLE, slot 0, never queued
Slot == 0 .. PID_MAX - 1
Pid == 1 .. PID_MAX - 1            \* the slots allocate_slot() hands out
NoPid == PID_MAX                   \* Option::None where a pid is expected
Level == 0 .. PRIORITY_LEVELS - 1  \* nice_to_priority_level(nice)

Queues == [levels : [Level -> Seq(Pid)], mask : SUBSET Level]

(***************************************************************************)
(* The members of a finite set of naturals in ascending order: the order   *)
(* in which the code scans pool slots, bit positions and queue indices.    *)
(***************************************************************************)
Rank(W, w) == Cardinality({v \in W : v <= w})

Ascending(W) == [k \in 1 .. Cardinality(W) |-> CHOOSE w \in W : Rank(W, w) = k]

First(W) == Ascending(W)[1]

\* The entries of q other than pid, in their order (VecDeque::retain).
Retain(q, pid) ==
    LET kept == Ascending({i \in 1 .. Len(q) : q[i] # pid})
    IN  [k \in 1 .. Len(kept) |-> q[kept[k]]]

Holds(q, pid) == \E i \in 1 .. Len(q) : q[i] = pid

Queued(rq, pid) == \E l \in Level : Holds(rq.levels[l], pid)

Entries(rq) == UNION {{l} \X (1 .. Len(rq.levels[l])) : l \in Level}

Occurrences(rq, pid) == Cardinality({e \in Entries(rq) : rq.levels[e[1]][e[2]] = pid})

-----------------------------------------------------------------------------

total_len(rq) == Cardinality(Entries(rq))

EmptyQueue == [levels |-> [l \in Level |-> <<>>], mask |-> {}]

push_with_nice(rq, pid, level) ==
    [levels |-> [rq.levels EXCEPT ![level] = Append(@, pid)],
     mask   |-> rq.mask \cup {level}]

\* Push the pids of woken[l] on level l in slot order, for every level l.
push_all(rq, woken) ==
    [levels |-> [l \in Level |-> rq.levels[l] \o Ascending(woken[l])],
     mask   |-> rq.mask \cup {l \in Level : woken[l] # {}}]

\* Take the front of one level, clearing its bit when the level runs empty.
PopLevel(rq, level) ==
    LET rest == Tail(rq.levels[level])
    IN  [levels |-> [rq.levels EXCEPT ![level] = rest],
         mask   |-> IF rest = <<>> THEN rq.mask \ {level} ELSE rq.mask]

\* pop(): the front of the lowest level whose bit is set.
PopPid(rq) == IF rq.mask = {} THEN NoPid ELSE Head(rq.levels[First(rq.mask)])

PopRest(rq) == IF rq.mask = {} THEN rq ELSE PopLevel(rq, First(rq.mask))

\* Mutant of remove(): the mask is left as it was.
remove_keeping_bits(rq, pid) ==
    [levels |-> [l \in Level |-> Retain(rq.levels[l], pid)], mask |-> rq.mask]

\* remove(): drop every entry of pid on every level; a level's bit is
\* cleared only when that level shrank and is now empty.
remove(rq, pid) ==
    LET kept == [l \in Level |-> Retain(rq.levels[l], pid)]
    IN  [levels |-> kept,
         mask   |-> rq.mask \ {l \in Level : /\ Len(kept[l]) < Len(rq.levels[l])
                                             /\ kept[l] = <<>>}]

\* non_empty_mask is exact: a set bit names a level pop() can serve, and no
\* level holding a pid is hidden from pop().
MaskExact(rq) == rq.mask = {l \in Level : rq.levels[l] # <<>>}

=============================================================================
