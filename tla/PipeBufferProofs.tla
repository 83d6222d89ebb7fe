-------------------------- MODULE PipeBufferProofs --------------------------
(***************************************************************************)
(* The ring buffer of a pipe implements a bounded FIFO, for every capacity *)
(* and every set of bytes.                                                 *)
(***************************************************************************)
EXTENDS PipeBuffer, TLAPS

\* An index that does not pass the end of the array.
LEMMA ModBelow ==
    ASSUME NEW N \in Nat \ {0}, NEW a \in Nat, a < N
    PROVE  a % N = a
  BY SMTT(30)

\* An index that passes it once.
LEMMA ModWrap ==
    ASSUME NEW N \in Nat \ {0}, NEW a \in Nat, a >= N, a < 2 * N
    PROVE  a % N = a - N
  BY SMTT(30)

\* The place of the byte at distance k from a place h of the ring.
Place(h, k) == IF h + k < PIPE_BUFFER_CAPACITY THEN h + k
               ELSE h + k - PIPE_BUFFER_CAPACITY

LEMMA RingIndex ==
    ASSUME NEW h \in Index, NEW k \in 0 .. PIPE_BUFFER_CAPACITY
    PROVE  /\ (h + k) % PIPE_BUFFER_CAPACITY = Place(h, k)
           /\ Place(h, k) \in Index
<1> USE PipeBufferAssumption DEF Index, Place
<1>1. CASE h + k < PIPE_BUFFER_CAPACITY
  <2>1. (h + k) % PIPE_BUFFER_CAPACITY = h + k
    BY <1>1, ModBelow
  <2> QED BY <1>1, <2>1
<1>2. CASE h + k >= PIPE_BUFFER_CAPACITY
  <2> DEFINE a == h + k
             N == PIPE_BUFFER_CAPACITY
  <2>1. N \in Nat \ {0} /\ a \in Nat /\ a >= N /\ a < 2 * N
    BY <1>2
  <2>2. a % N = a - N
    <3> HIDE DEF a, N
    <3> QED BY <2>1, ModWrap
  <2> QED BY <1>2, <2>2
<1> QED BY <1>1, <1>2

\* The content, with the indices worked out.
LEMMA BytesAt ==
    ASSUME NEW d \in [Index -> Byte], NEW h \in Index,
           NEW n \in 0 .. PIPE_BUFFER_CAPACITY
    PROVE  /\ Bytes(d, h, n) \in Seq(Byte)
           /\ Len(Bytes(d, h, n)) = n
           /\ \A k \in 1 .. n : Bytes(d, h, n)[k] = d[Place(h, k - 1)]
           /\ \A k \in 1 .. n : Place(h, k - 1) \in Index
<1> USE PipeBufferAssumption
<1>1. n \in Nat /\ n <= PIPE_BUFFER_CAPACITY
  OBVIOUS
<1>2. ASSUME NEW k \in 1 .. n
      PROVE  /\ (h + k - 1) % PIPE_BUFFER_CAPACITY = Place(h, k - 1)
             /\ Place(h, k - 1) \in Index
  <2>1. k - 1 \in 0 .. PIPE_BUFFER_CAPACITY /\ h + k - 1 = h + (k - 1)
    BY <1>1 DEF Index
  <2> QED BY <1>1, <2>1, RingIndex
<1>3. ASSUME NEW k \in 1 .. n
      PROVE  d[(h + k - 1) % PIPE_BUFFER_CAPACITY] \in Byte
  BY <1>2
<1>4. Bytes(d, h, n) \in [1 .. n -> Byte]
  BY <1>3 DEF Bytes
<1>5. Bytes(d, h, n) \in Seq(Byte) /\ Len(Bytes(d, h, n)) = n
  BY <1>1, <1>4
<1>6. \A k \in 1 .. n : Bytes(d, h, n)[k] = d[Place(h, k - 1)]
  BY <1>2 DEF Bytes
<1> QED BY <1>2, <1>5, <1>6

\* A message is a sequence of bytes.
LEMMA SourceSeq ==
    ASSUME NEW src \in Sources
    PROVE  /\ src \in Seq(Byte)
           /\ Len(src) \in Nat
           /\ \A i \in 1 .. Len(src) : src[i] \in Byte
<1>1. PICK n \in 0 .. MAX_IO : src \in [1 .. n -> Byte]
  BY DEF Sources
<1>2. n \in Nat
  BY PipeBufferAssumption
<1> QED BY <1>1, <1>2

\* write_bytes() appends the bytes it has room for and keeps the others.
LEMMA WriteStep ==
    ASSUME RingTypeOK, NEW src \in Sources, write_bytes(src)
    PROVE  RingTypeOK' /\ Fifo!Write(src)
<1> DEFINE N == PIPE_BUFFER_CAPACITY
           k == LeastOf(Len(src), N - length)
           w == (read_head + length) % N
           f == LeastOf(k, N - w)
<1>0. N \in Nat /\ N > 0
  BY PipeBufferAssumption
<1>1. /\ data \in [Index -> Byte] /\ read_head \in Index /\ read_head \in Nat /\ read_head < N
      /\ length \in Nat /\ length <= N /\ length \in 0 .. N
  BY <1>0 DEF RingTypeOK, Index
<1>2. src \in Seq(Byte) /\ Len(src) \in Nat /\ \A i \in 1 .. Len(src) : src[i] \in Byte
  BY SourceSeq
<1>3. k \in Nat /\ k <= Len(src) /\ k + length <= N
  BY <1>0, <1>1, <1>2 DEF LeastOf
<1>4. w = Place(read_head, length) /\ w \in Index
  BY <1>1, RingIndex
<1>5. w \in Nat /\ w < N
  BY <1>0, <1>4 DEF Index
<1>6. f \in Nat /\ f <= k /\ w + f <= N /\ (f = k \/ f = N - w)
  BY <1>0, <1>3, <1>5 DEF LeastOf
<1>7. /\ data' = [i \in Index |->
                     IF i \in w .. w + f - 1 THEN src[i - w + 1]
                     ELSE IF i < k - f THEN src[f + i + 1] ELSE data[i]]
      /\ length' = length + k /\ read_head' = read_head
      /\ given' = src /\ asked' = Len(src) /\ taken' = <<>>
  BY DEF write_bytes, wrap
<1> HIDE DEF k, w, f
<1>8. \A i \in Index : data'[i] \in Byte
  <2> TAKE i \in Index
  <2>1. i \in Nat
    BY <1>0 DEF Index
  <2>2. CASE i \in w .. w + f - 1
    <3>1. i - w + 1 \in 1 .. Len(src)
      BY <2>1, <2>2, <1>2, <1>3, <1>5, <1>6
    <3> QED BY <2>2, <3>1, <1>2, <1>7
  <2>3. CASE i \notin w .. w + f - 1 /\ i < k - f
    <3>1. f + i + 1 \in 1 .. Len(src)
      BY <2>1, <2>3, <1>2, <1>3, <1>6
    <3> QED BY <2>3, <3>1, <1>2, <1>7
  <2>4. CASE i \notin w .. w + f - 1 /\ ~(i < k - f)
    BY <2>4, <1>1, <1>7
  <2> QED BY <2>2, <2>3, <2>4
<1>9. data' \in [Index -> Byte]
  BY <1>7, <1>8
<1>10. length' \in 0 .. N /\ read_head' \in Index
  BY <1>0, <1>1, <1>3, <1>7
<1>11. RingTypeOK'
  BY <1>2, <1>7, <1>9, <1>10 DEF RingTypeOK
<1> DEFINE C == Bytes(data, read_head, length)
           D == Bytes(data', read_head', length')
<1>12. /\ C \in Seq(Byte) /\ Len(C) = length
       /\ \A j \in 1 .. length : C[j] = data[Place(read_head, j - 1)] /\ Place(read_head, j - 1) \in Index
  BY <1>1, BytesAt
<1>13. /\ D \in Seq(Byte) /\ Len(D) = length + k
       /\ \A j \in 1 .. length + k : D[j] = data'[Place(read_head, j - 1)] /\ Place(read_head, j - 1) \in Index
  <2>1. /\ D \in Seq(Byte) /\ Len(D) = length'
        /\ \A j \in 1 .. length' : D[j] = data'[Place(read_head', j - 1)] /\ Place(read_head', j - 1) \in Index
    <3> HIDE DEF N
    <3> QED BY <1>9, <1>10, BytesAt DEF N
  <2> QED BY <2>1, <1>7
<1> HIDE DEF C, D
<1>14. \A j \in 1 .. length : D[j] = C[j]
  <2> TAKE j \in 1 .. length
  <2>1. j \in Nat /\ j >= 1 /\ j <= length /\ j \in 1 .. length + k
    BY <1>1, <1>3
  <2> DEFINE i == Place(read_head, j - 1)
  <2>2. i \in Index
    BY <1>12
  <2>3. i \notin w .. w + f - 1 /\ ~(i < k - f)
    <3> HIDE DEF N
    <3>1. CASE read_head + length < N
      <4>1. i = read_head + j - 1 /\ w = read_head + length
        BY <2>1, <3>1, <1>0, <1>1, <1>4 DEF Place, N
      <4> HIDE DEF i
      <4> QED BY <4>1, <2>1, <3>1, <1>0, <1>1, <1>3, <1>5, <1>6
    <3>2. CASE read_head + length >= N
      <4>1. w = read_head + length - N
        BY <3>2, <1>0, <1>1, <1>4 DEF Place, N
      <4>2. f = k
        BY <4>1, <3>2, <1>0, <1>1, <1>3, <1>5, <1>6
      <4>3. i = read_head + j - 1 \/ i = read_head + j - 1 - N
        BY <2>1, <1>0, <1>1 DEF Place, N
      <4>4. i \in Nat /\ i < N
        BY <2>2, <1>0 DEF Index, N
      <4> HIDE DEF i
      <4> QED BY <4>1, <4>2, <4>3, <4>4, <2>1, <3>2, <1>0, <1>1, <1>3, <1>5, <1>6
    <3> QED BY <3>1, <3>2, <1>0, <1>1
  <2>4. data'[i] = data[i]
    <3> HIDE DEF i
    <3> QED BY <2>2, <2>3, <1>7
  <2> QED BY <2>1, <2>4, <1>12, <1>13
<1>15. \A j \in 1 .. k : D[length + j] = src[j]
  <2> TAKE j \in 1 .. k
  <2>1. j \in Nat /\ j >= 1 /\ j <= k /\ length + j \in 1 .. length + k
    BY <1>1, <1>3
  <2> DEFINE i == Place(read_head, (length + j) - 1)
  <2>2. D[length + j] = data'[i] /\ i \in Index
    BY <2>1, <1>13
  <2>3. CASE j <= f
    <3>1. i \in w .. w + f - 1 /\ i - w + 1 = j
      BY <2>1, <2>3, <1>0, <1>1, <1>3, <1>4, <1>5, <1>6 DEF Place
    <3> HIDE DEF i
    <3> QED BY <2>2, <3>1, <1>7
  <2>4. CASE j > f
    <3>1. i \notin w .. w + f - 1 /\ i < k - f /\ f + i + 1 = j
      BY <2>1, <2>4, <1>0, <1>1, <1>3, <1>4, <1>5, <1>6 DEF Place
    <3> HIDE DEF i
    <3> QED BY <2>2, <3>1, <1>7
  <2> QED BY <2>1, <2>3, <2>4, <1>6
<1>16. D = C \o SubSeq(src, 1, k)
  <2>1. SubSeq(src, 1, k) \in Seq(Byte) /\ Len(SubSeq(src, 1, k)) = k
        /\ \A j \in 1 .. k : SubSeq(src, 1, k)[j] = src[j]
    BY <1>2, <1>3
  <2> DEFINE E == C \o SubSeq(src, 1, k)
  <2>2. E \in Seq(Byte) /\ Len(E) = length + k
    BY <2>1, <1>12
  <2>3. ASSUME NEW j \in 1 .. length + k PROVE E[j] = D[j]
    <3>1. CASE j <= length
      BY <2>1, <3>1, <1>1, <1>3, <1>12, <1>14
    <3>2. CASE j > length
      <4>1. j - length \in 1 .. k /\ j = length + (j - length)
        BY <3>2, <1>1, <1>3
      <4>2. E[j] = SubSeq(src, 1, k)[j - length]
        BY <2>1, <3>2, <1>1, <1>3, <1>12
      <4>3. SubSeq(src, 1, k)[j - length] = src[j - length]
        BY <2>1, <4>1
      <4>4. D[length + (j - length)] = src[j - length]
        BY <4>1, <1>15
      <4> HIDE DEF E
      <4> QED BY <4>1, <4>2, <4>3, <4>4
    <3>3. j <= length \/ j > length
      <4> HIDE DEF E
      <4> QED BY <1>1, <1>3
    <3> HIDE DEF E
    <3> QED BY <3>1, <3>2, <3>3
  <2> HIDE DEF E
  <2> QED BY <2>2, <2>3, <1>13 DEF E
<1>17. Fifo!Smaller(Len(src), N - Len(C)) = k
  BY <1>12 DEF Fifo!Smaller, LeastOf, k
<1> QED BY <1>7, <1>11, <1>16, <1>17 DEF Fifo!Write, Content, C, D

\* read_bytes() delivers the oldest bytes and keeps the others.
LEMMA ReadStep ==
    ASSUME RingTypeOK, NEW n \in 0 .. MAX_IO, read_bytes(n)
    PROVE  RingTypeOK' /\ Fifo!Read(n)
<1> DEFINE N == PIPE_BUFFER_CAPACITY
           k == LeastOf(n, length)
           f == LeastOf(k, N - read_head)
<1>0. N \in Nat /\ N > 0 /\ n \in Nat
  BY PipeBufferAssumption
<1>1. /\ data \in [Index -> Byte] /\ read_head \in Index /\ read_head \in Nat /\ read_head < N
      /\ length \in Nat /\ length <= N /\ length \in 0 .. N
  BY <1>0 DEF RingTypeOK, Index
<1>2. k \in Nat /\ k <= length /\ k \in 0 .. N
  BY <1>0, <1>1 DEF LeastOf
<1>3. f \in Nat /\ f <= k /\ read_head + f <= N /\ (f = k \/ f = N - read_head)
  BY <1>0, <1>1, <1>2 DEF LeastOf
<1>4. /\ taken' = [j \in 1 .. k |-> IF j <= f THEN data[read_head + j - 1]
                                   ELSE data[j - f - 1]]
      /\ read_head' = (read_head + k) % N /\ length' = length - k /\ data' = data
      /\ given' = <<>> /\ asked' = n
  BY DEF read_bytes, wrap
<1>5. read_head' = Place(read_head, k) /\ read_head' \in Index
  <2> HIDE DEF k, N
  <2> QED BY <1>1, <1>2, <1>4, RingIndex DEF N
<1> DEFINE C == Bytes(data, read_head, length)
           D == Bytes(data', read_head', length')
<1>6. /\ C \in Seq(Byte) /\ Len(C) = length
      /\ \A j \in 1 .. length : C[j] = data[Place(read_head, j - 1)] /\ Place(read_head, j - 1) \in Index
  BY <1>1, BytesAt
<1> HIDE DEF k, f
<1>7. length' \in 0 .. N /\ length' \in Nat
  BY <1>0, <1>1, <1>2, <1>4
<1>8. /\ D \in Seq(Byte) /\ Len(D) = length - k
      /\ \A j \in 1 .. length - k : D[j] = data[Place(read_head', j - 1)]
  <2>1. /\ D \in Seq(Byte) /\ Len(D) = length'
        /\ \A j \in 1 .. length' : D[j] = data'[Place(read_head', j - 1)]
    <3>1. data' \in [Index -> Byte]
      BY <1>1, <1>4
    <3> QED BY <3>1, <1>5, <1>7, BytesAt
  <2> QED BY <2>1, <1>4
<1> HIDE DEF C, D
<1>9. ASSUME NEW j \in 1 .. k PROVE taken'[j] = C[j]
  <2>1. j \in Nat /\ j >= 1 /\ j <= k /\ j \in 1 .. length
    BY <1>1, <1>2
  <2>2. CASE j <= f
    <3>1. Place(read_head, j - 1) = read_head + j - 1
      BY <2>1, <2>2, <1>0, <1>1, <1>3 DEF Place
    <3> QED BY <2>1, <2>2, <3>1, <1>4, <1>6
  <2>3. CASE j > f
    <3>1. Place(read_head, j - 1) = j - f - 1
      BY <2>1, <2>3, <1>0, <1>1, <1>2, <1>3 DEF Place
    <3> QED BY <2>1, <2>3, <3>1, <1>3, <1>4, <1>6
  <2> QED BY <2>1, <2>2, <2>3, <1>3
<1>10. taken' = SubSeq(C, 1, k)
  <2>1. \A j \in 1 .. k : SubSeq(C, 1, k)[j] = C[j]
    BY <1>2, <1>6
  <2>2. SubSeq(C, 1, k) = [j \in 1 .. k |-> C[j]]
    BY <1>2, <1>6
  <2>3. taken' = [j \in 1 .. k |-> C[j]]
    BY <1>4, <1>9
  <2> QED BY <2>2, <2>3
<1>11. taken' \in Seq(Byte)
  BY <1>2, <1>6, <1>10
<1>12. RingTypeOK'
  BY <1>0, <1>1, <1>4, <1>5, <1>7, <1>11 DEF RingTypeOK
<1>13. ASSUME NEW j \in 1 .. length - k PROVE D[j] = C[k + j]
  <2>1. j \in Nat /\ j >= 1 /\ k + j \in 1 .. length
    BY <1>1, <1>2
  <2>2. Place(read_head', j - 1) = Place(read_head, (k + j) - 1)
    BY <2>1, <1>0, <1>1, <1>2, <1>5 DEF Place
  <2>3. C[k + j] = data[Place(read_head, (k + j) - 1)]
    BY <2>1, <1>6
  <2> QED BY <2>2, <2>3, <1>8
<1>14. D = SubSeq(C, k + 1, length)
  <2>1. /\ SubSeq(C, k + 1, length) \in Seq(Byte)
        /\ Len(SubSeq(C, k + 1, length)) = length - k
    BY <1>1, <1>2, <1>6
  <2>2. ASSUME NEW j \in 1 .. length - k PROVE SubSeq(C, k + 1, length)[j] = C[k + j]
    BY <1>1, <1>2, <1>6
  <2> DEFINE E == SubSeq(C, k + 1, length)
  <2>3. E \in Seq(Byte) /\ Len(E) = length - k /\ \A j \in 1 .. length - k : E[j] = D[j]
    BY <2>1, <2>2, <1>13
  <2> HIDE DEF E
  <2>4. D = E
    BY <2>3, <1>8
  <2> QED BY <2>4 DEF E
<1>15. Fifo!Smaller(n, Len(C)) = k
  BY <1>6 DEF Fifo!Smaller, LeastOf, k
<1> QED BY <1>4, <1>6, <1>10, <1>12, <1>14, <1>15 DEF Fifo!Read, Content, C, D

\* Every copy of pipe.rs' write_bytes() and read_bytes() stays inside the
\* array, for every capacity and every length of request.
THEOREM RingInRange == Spec => []RingTypeOK
<1>1. new => RingTypeOK
  <2> SUFFICES ASSUME new PROVE RingTypeOK
    OBVIOUS
  <2>1. 0 \in Index
    BY PipeBufferAssumption DEF Index
  <2> QED BY <2>1, PipeBufferAssumption DEF new, RingTypeOK
<1>2. RingTypeOK /\ [Next]_vars => RingTypeOK'
  <2> SUFFICES ASSUME RingTypeOK, [Next]_vars PROVE RingTypeOK'
    OBVIOUS
  <2>1. ASSUME NEW src \in Sources, write_bytes(src) PROVE RingTypeOK'
    BY <2>1, WriteStep
  <2>2. ASSUME NEW n \in 0 .. MAX_IO, read_bytes(n) PROVE RingTypeOK'
    BY <2>2, ReadStep
  <2>3. CASE UNCHANGED vars
    BY <2>3 DEF vars, RingTypeOK, Index
  <2> QED BY <2>1, <2>2, <2>3 DEF Next
<1> QED BY <1>1, <1>2, PTL DEF Spec

\* The pipe's ring implements a bounded FIFO: no byte is lost, repeated or
\* reordered by the two-chunk copies of write_bytes() and read_bytes().
THEOREM RingIsFifo == Spec => RefinesFifo
<1>1. new => Fifo!Init
  <2> SUFFICES ASSUME new PROVE Content = <<>>
    BY DEF new, Fifo!Init
  <2>1. length = 0
    BY DEF new
  <2> QED BY <2>1 DEF Content, Bytes
<1>2. RingTypeOK /\ [Next]_vars => [Fifo!Next]_<<Content, given, asked, taken>>
  <2> SUFFICES ASSUME RingTypeOK, [Next]_vars PROVE [Fifo!Next]_<<Content, given, asked, taken>>
    OBVIOUS
  <2>1. ASSUME NEW src \in Sources, write_bytes(src) PROVE Fifo!Next
    <3>1. Fifo!Write(src)
      BY <2>1, WriteStep
    <3>2. src \in Fifo!Messages
      BY DEF Sources, Fifo!Messages
    <3> QED BY <3>1, <3>2 DEF Fifo!Next
  <2>2. ASSUME NEW n \in 0 .. MAX_IO, read_bytes(n) PROVE Fifo!Next
    <3>1. Fifo!Read(n)
      BY <2>2, ReadStep
    <3> QED BY <3>1 DEF Fifo!Next
  <2>3. CASE UNCHANGED vars
    BY <2>3 DEF vars, Content, Bytes
  <2> QED BY <2>1, <2>2, <2>3 DEF Next
<1> QED BY <1>1, <1>2, RingInRange, PTL DEF Spec, RefinesFifo, Fifo!Spec

=============================================================================
