----------------------------- MODULE PipeBuffer -----------------------------
(***************************************************************************)
(* The ring buffer of a pipe (kernel/src/fs/pipe.rs, PipeBuffer): both     *)
(* copies are in two chunks when they pass the end of the array.           *)
(***************************************************************************)
EXTENDS Naturals, Sequences

CONSTANTS PIPE_BUFFER_CAPACITY, Byte, MAX_IO

ASSUME PipeBufferAssumption == /\ PIPE_BUFFER_CAPACITY \in Nat \ {0}
                               /\ MAX_IO \in Nat
                               /\ 0 \in Byte

VARIABLES data,        \* the array
          read_head,   \* index of the next byte to read
          length,      \* number of bytes held
          given,       \* source_buffer of the last call
          asked,       \* the length of the buffer of the last call
          taken        \* destination_buffer, as the last call filled it

vars == <<data, read_head, length, given, asked, taken>>

Index == 0 .. PIPE_BUFFER_CAPACITY - 1

LeastOf(a, b) == IF a <= b THEN a ELSE b

\* Mutant: the index just past the array is not wrapped.
wrap_late(i) == IF i > PIPE_BUFFER_CAPACITY THEN i - PIPE_BUFFER_CAPACITY ELSE i

wrap(i) == i % PIPE_BUFFER_CAPACITY

new == /\ data = [i \in Index |-> 0]
       /\ read_head = 0
       /\ length = 0
       /\ given = <<>> /\ asked = 0 /\ taken = <<>>

\* Mutant: what does not fit before the end of the array is not copied.
write_one_chunk(src) ==
    LET to_write == LeastOf(Len(src), PIPE_BUFFER_CAPACITY - length)
        write_head == wrap(read_head + length)
    IN  /\ data' = [i \in Index |-> IF i \in write_head .. write_head + to_write - 1
                                    THEN src[i - write_head + 1] ELSE data[i]]
        /\ length' = length + to_write
        /\ given' = src /\ asked' = Len(src) /\ taken' = <<>>
        /\ UNCHANGED read_head

write_bytes(src) ==
    LET to_write == LeastOf(Len(src), PIPE_BUFFER_CAPACITY - length)
        write_head == wrap(read_head + length)
        first_chunk == LeastOf(to_write, PIPE_BUFFER_CAPACITY - write_head)
        second_chunk == to_write - first_chunk
    IN  /\ data' = [i \in Index |->
                      IF i \in write_head .. write_head + first_chunk - 1
                      THEN src[i - write_head + 1]
                      ELSE IF i < second_chunk THEN src[first_chunk + i + 1]
                      ELSE data[i]]
        /\ length' = length + to_write
        /\ given' = src /\ asked' = Len(src) /\ taken' = <<>>
        /\ UNCHANGED read_head

read_bytes(n) ==
    LET to_read == LeastOf(n, length)
        first_chunk == LeastOf(to_read, PIPE_BUFFER_CAPACITY - read_head)
    IN  /\ taken' = [k \in 1 .. to_read |->
                       IF k <= first_chunk THEN data[read_head + k - 1]
                       ELSE data[k - first_chunk - 1]]
        /\ read_head' = wrap(read_head + to_read)
        /\ length' = length - to_read
        /\ given' = <<>> /\ asked' = n
        /\ UNCHANGED data

Sources == UNION {[1 .. n -> Byte] : n \in 0 .. MAX_IO}

Next == (\E src \in Sources : write_bytes(src)) \/ (\E n \in 0 .. MAX_IO : read_bytes(n))

Spec == new /\ [][Next]_vars

-----------------------------------------------------------------------------

\* The array, the head and the length stay in range, so that no index of a
\* copy is out of bounds.
RingTypeOK == /\ data \in [Index -> Byte]
              /\ read_head \in Index
              /\ length \in 0 .. PIPE_BUFFER_CAPACITY
              /\ given \in Seq(Byte) /\ asked \in Nat /\ taken \in Seq(Byte)

\* The n bytes of array d from place h on, oldest first.
Bytes(d, h, n) == [k \in 1 .. n |-> d[(h + k - 1) % PIPE_BUFFER_CAPACITY]]

Content == Bytes(data, read_head, length)

Fifo == INSTANCE BoundedFifo WITH queue <- Content, CAPACITY <- PIPE_BUFFER_CAPACITY

\* The ring implements a bounded FIFO: what read_bytes() delivers is what
\* write_bytes() took, in order, wherever the copies wrap around.
RefinesFifo == Fifo!Spec

=============================================================================
