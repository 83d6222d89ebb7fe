---------------------------- MODULE BoundedFifo ----------------------------
(***************************************************************************)
(* What a byte channel of the kernel promises: bytes come out in the order *)
(* they went in, none is lost or made up, and at most CAPACITY are held.   *)
(* A write takes as much as there is room for, a read gives what there is, *)
(* up to the length asked for.                                             *)
(***************************************************************************)
EXTENDS Naturals, Sequences

CONSTANTS Byte, CAPACITY, MAX_IO

VARIABLES queue,   \* the bytes held
          given,   \* the bytes the last operation was given to write
          asked,   \* the length the last operation was called with
          taken    \* the bytes the last operation delivered

Smaller(a, b) == IF a <= b THEN a ELSE b

Messages == UNION {[1 .. n -> Byte] : n \in 0 .. MAX_IO}

Init == queue = <<>> /\ given = <<>> /\ asked = 0 /\ taken = <<>>

Write(src) == /\ queue' = queue \o SubSeq(src, 1, Smaller(Len(src), CAPACITY - Len(queue)))
              /\ given' = src /\ asked' = Len(src) /\ taken' = <<>>

Read(n) == LET k == Smaller(n, Len(queue))
           IN  /\ given' = <<>> /\ asked' = n /\ taken' = SubSeq(queue, 1, k)
               /\ queue' = SubSeq(queue, k + 1, Len(queue))

Next == (\E src \in Messages : Write(src)) \/ (\E n \in 0 .. MAX_IO : Read(n))

Spec == Init /\ [][Next]_<<queue, given, asked, taken>>

=============================================================================
