------------------------- MODULE SliceSourceProofs -------------------------
(***************************************************************************)
(* A source gives its consumer the bytes of its chunk: SliceSource         *)
(* implements ByteStream, whatever the slices, their number and the sizes  *)
(* of the buffers.                                                         *)
(***************************************************************************)
EXTENDS SliceSource, DataInduction, SequenceTheorems

\* What the implementation of a ReaderAt has to keep to.  A read that comes
\* up short says so, which the code relies on for the executable and for a
\* header of which it gets nothing; and a read of a slice header does not fail
\* within the magic, where the code takes the slice for a raw one (see
\* HeaderIsHidden).
ReadersAssumption ==
  /\ "embedded" \notin Lapses
  /\ \A c \in Chunks : \A k \in DOMAIN c.slices :
       c.slices[k].header # 0 =>
         \A r \in HeaderFaults : r.n >= MagicLen \/ (r.n = 0 /\ r.err = "fault")

-----------------------------------------------------------------------------
(* The inductive invariant.                                                *)

\* a begins c.
Begins(a, c) == Len(a) <= Len(c) /\ \A i \in 1..Len(a) : a[i] = c[i]

Running == pc \in {"idle", "read"}
got == delivered \o buffer
k0 == slice - chunk.first + 1
begin == StartOf(chunk, k0)

\* The length of what a slice gives when it is read from its start.
PayloadLen(s) ==
  IF s.header # 0 /\ s.declared - HeaderLen <= Len(s.bytes) THEN s.declared - HeaderLen
  ELSE Len(s.bytes)

Calls ==
  /\ pc \in {"new", "refused"} => delivered = <<>> /\ buffer = <<>>
  /\ pc = "new" => end = MaxUint /\ base = 0 /\ ~opened /\ want = 0
  /\ pc = "idle" => buffer = <<>> /\ want = 0
  /\ pc = "read" => want + Len(buffer) > 0
  /\ Running => NewError(chunk) = "none" /\ isEmbedded = ~External(chunk)

\* The executable: pos counts the bytes delivered.
InExecutable ==
  Running /\ isEmbedded =>
    /\ dataStart = chunk.dataOffset + chunk.offset
    /\ buffer = <<>> /\ pos = Len(delivered) /\ Begins(delivered, content)

\* The slices: those before the current one are complete, and pos says how far
\* into it the bytes delivered reach.
InSlices ==
  Running /\ ~isEmbedded =>
    /\ slice \in chunk.first..chunk.last
    /\ \A j \in 1..(k0 - 1) : Passable(chunk, j)
    /\ ~opened => pos = begin
    /\ opened => /\ Readable(current) /\ base = current.header
                 /\ end = IF current.header = 0 THEN MaxUint ELSE current.declared - HeaderLen
    /\ pos >= begin /\ (pos > begin => pos <= PayloadLen(current))
    /\ Len(got) = Len(Joined(chunk)[k0 - 1]) + (pos - begin)
    /\ Begins(got, content)

SInv == TypeOK /\ Calls /\ InExecutable /\ InSlices

-----------------------------------------------------------------------------
(* Sequences.                                                              *)

\* What At returns.
LEMMA AtFacts ==
  ASSUME NEW S, NEW bytes \in Seq(S), NEW offset \in Nat, NEW n \in Nat
  PROVE  /\ At(bytes, offset, n) \in Seq(S)
         /\ Len(At(bytes, offset, n)) = IF offset >= Len(bytes) THEN 0
                                        ELSE IF offset + n <= Len(bytes) THEN n
                                        ELSE Len(bytes) - offset
         /\ \A i \in 1..Len(At(bytes, offset, n)) : At(bytes, offset, n)[i] = bytes[offset + i]
  <1>0. Len(bytes) \in Nat /\ \A i \in 1..Len(bytes) : bytes[i] \in S
    BY LenProperties, ElementOfSeq
  <1>1. CASE offset >= Len(bytes)
    <2>1. At(bytes, offset, n) = <<>> /\ <<>> \in Seq(S) /\ Len(<<>>) = 0
      BY <1>1 DEF At
    <2> QED BY <1>1, <2>1
  <1>2. CASE ~(offset >= Len(bytes))
    <2> DEFINE m == IF offset + n <= Len(bytes) THEN offset + n ELSE Len(bytes)
    <2>1. /\ m \in Int /\ offset + 1 \in Int /\ At(bytes, offset, n) = SubSeq(bytes, offset + 1, m)
          /\ \A i \in (offset + 1)..m : bytes[i] \in S
      BY <1>0, <1>2 DEF At
    <2>2. /\ m - (offset + 1) + 1 = m - offset
          /\ m - offset = IF offset + n <= Len(bytes) THEN n ELSE Len(bytes) - offset
          /\ (IF offset + 1 <= m THEN m - (offset + 1) + 1 ELSE 0) = m - offset
          /\ \A i \in 1..(m - offset) : (offset + 1) + i - 1 = offset + i
      BY <1>0, <1>2
    <2> HIDE DEF m
    <2>3. /\ SubSeq(bytes, offset + 1, m) \in Seq(S)
          /\ Len(SubSeq(bytes, offset + 1, m)) = IF offset + 1 <= m THEN m - (offset + 1) + 1 ELSE 0
          /\ \A i \in 1..(m - (offset + 1) + 1) :
               SubSeq(bytes, offset + 1, m)[i] = bytes[(offset + 1) + i - 1]
      BY <2>1, SubSeqProperties
    <2>4. Len(SubSeq(bytes, offset + 1, m)) = m - offset
      BY <2>2, <2>3
    <2> QED BY <1>2, <2>1, <2>2, <2>3, <2>4
  <1> QED BY <1>1, <1>2

LEMMA ConcatFacts ==
  ASSUME NEW S, NEW a \in Seq(S), NEW b \in Seq(S)
  PROVE  /\ a \o b \in Seq(S) /\ Len(a) \in Nat /\ Len(b) \in Nat
         /\ Len(a \o b) = Len(a) + Len(b)
         /\ \A i \in 1..Len(a) : (a \o b)[i] = a[i]
         /\ \A i \in 1..Len(b) : (a \o b)[Len(a) + i] = b[i]
  <1>1. Len(a) \in Nat /\ Len(b) \in Nat
    BY LenProperties
  <1>2. /\ a \o b \in Seq(S) /\ Len(a \o b) = Len(a) + Len(b)
        /\ \A i \in 1..(Len(a) + Len(b)) :
             (a \o b)[i] = IF i <= Len(a) THEN a[i] ELSE b[i - Len(a)]
    BY ConcatProperties
  <1>3. ASSUME NEW i \in 1..Len(a) PROVE (a \o b)[i] = a[i]
    BY <1>1, <1>2
  <1>4. ASSUME NEW i \in 1..Len(b) PROVE (a \o b)[Len(a) + i] = b[i]
    <2>1. /\ Len(a) + i \in 1..(Len(a) + Len(b)) /\ ~(Len(a) + i <= Len(a))
          /\ (Len(a) + i) - Len(a) = i
      BY <1>1
    <2> QED BY <1>2, <2>1
  <1> QED BY <1>1, <1>2, <1>3, <1>4

\* A beginning grows by what comes next.
LEMMA BeginsMore ==
  ASSUME NEW S, NEW a \in Seq(S), NEW b \in Seq(S), NEW c \in Seq(S), Begins(a, c),
         Len(a) + Len(b) <= Len(c), \A i \in 1..Len(b) : c[Len(a) + i] = b[i]
  PROVE  Begins(a \o b, c)
  <1>1. /\ Len(a) \in Nat /\ Len(b) \in Nat /\ Len(a \o b) = Len(a) + Len(b)
        /\ \A i \in 1..Len(a) : (a \o b)[i] = a[i]
        /\ \A i \in 1..Len(b) : (a \o b)[Len(a) + i] = b[i]
    BY ConcatFacts
  <1>2. ASSUME NEW i \in 1..Len(a \o b) PROVE (a \o b)[i] = c[i]
    <2>1. CASE i <= Len(a)
      BY <1>1, <2>1 DEF Begins
    <2>2. CASE ~(i <= Len(a))
      <3>1. i - Len(a) \in 1..Len(b) /\ Len(a) + (i - Len(a)) = i
        BY <1>1, <2>2
      <3> QED BY <1>1, <3>1
    <2> QED BY <2>1, <2>2
  <1> QED BY <1>1, <1>2 DEF Begins

LEMMA BeginsTransitive ==
  ASSUME NEW S, NEW a \in Seq(S), NEW b \in Seq(S), NEW c \in Seq(S), Begins(a, b), Begins(b, c)
  PROVE  Begins(a, c)
  <1>1. Len(a) \in Nat /\ Len(b) \in Nat /\ Len(c) \in Nat
    BY LenProperties
  <1> QED BY <1>1 DEF Begins

\* Two beginnings of the same length are the same, and the whole begins with
\* SubSeq.
LEMMA BeginsEqual ==
  ASSUME NEW S, NEW a \in Seq(S), NEW b \in Seq(S), NEW c \in Seq(S), Begins(a, c), Begins(b, c),
         Len(a) = Len(b)
  PROVE  a = b
  <1>1. \A i \in 1..Len(a) : a[i] = b[i]
    BY DEF Begins
  <1> QED BY <1>1, SeqEqual

LEMMA BeginsSubSeq ==
  ASSUME NEW S, NEW a \in Seq(S), NEW c \in Seq(S), Begins(a, c)
  PROVE  a = SubSeq(c, 1, Len(a))
  <1>1. Len(a) \in Nat /\ Len(c) \in Nat /\ Len(a) <= Len(c)
    BY LenProperties DEF Begins
  <1>2. \A i \in 1..Len(a) : c[i] \in S
    BY <1>1, ElementOfSeq
  <1>3. /\ SubSeq(c, 1, Len(a)) \in Seq(S)
        /\ Len(SubSeq(c, 1, Len(a))) = IF 1 <= Len(a) THEN Len(a) - 1 + 1 ELSE 0
        /\ \A i \in 1..(Len(a) - 1 + 1) : SubSeq(c, 1, Len(a))[i] = c[1 + i - 1]
    BY <1>1, <1>2, SubSeqProperties
  <1>4. /\ Len(SubSeq(c, 1, Len(a))) = Len(a) /\ Len(a) - 1 + 1 = Len(a)
        /\ \A i \in 1..Len(a) : 1 + i - 1 = i
    BY <1>1, <1>3
  <1>5. \A i \in 1..Len(a) : SubSeq(c, 1, Len(a))[i] = a[i]
    BY <1>3, <1>4 DEF Begins
  <1> QED BY <1>3, <1>4, <1>5, SeqEqual

-----------------------------------------------------------------------------
(* What a chunk holds.                                                     *)

LEMMA ChunkFacts ==
  ASSUME NEW c \in Chunks
  PROVE  /\ c.first \in Nat /\ c.last \in Nat
         /\ c.offset \in Nat /\ c.offset <= MaxUint /\ c.dataOffset \in Nat /\ c.dataOffset <= MaxUint
         /\ c.slices \in Seq(Slice) /\ Len(c.slices) \in Nat /\ DOMAIN c.slices = 1..Len(c.slices)
         /\ c.embedded \in Seq(Byte) /\ Len(c.embedded) \in Nat
         /\ c.first <= c.last => Len(c.slices) = c.last - c.first + 1
         /\ c.dataOffset + Len(c.embedded) <= MaxInt
         /\ MaxInt \in Nat /\ MaxUint \in Nat /\ MaxInt < MaxUint
  <1>1. /\ c \in Chunk /\ MaxInt \in Nat /\ MaxUint \in Nat /\ MaxInt < MaxUint
        /\ c.first <= c.last => Len(c.slices) = c.last - c.first + 1
        /\ c.dataOffset + Len(c.embedded) <= MaxInt
    BY SourceAssumption
  <1>2. /\ c.first \in Nat /\ c.last \in Nat /\ c.offset \in 0..MaxUint /\ c.dataOffset \in 0..MaxUint
        /\ c.slices \in Seq(Slice) /\ c.embedded \in Seq(Byte)
    BY <1>1 DEF Chunk
  <1>3. Len(c.slices) \in Nat /\ DOMAIN c.slices = 1..Len(c.slices) /\ Len(c.embedded) \in Nat
    BY <1>2, LenProperties
  <1> QED BY <1>1, <1>2, <1>3

LEMMA SliceFacts ==
  ASSUME NEW c \in Chunks, NEW k \in 1..Len(c.slices)
  PROVE  LET s == c.slices[k]
         IN  /\ s.reader \in BOOLEAN /\ s.header \in Nat /\ s.declared \in Nat
             /\ s.header = 0 \/ s.header \in MagicLen..HeaderLen
             /\ s.bytes \in Seq(Byte) /\ Len(s.bytes) \in Nat
             /\ s.header # 0 /\ s.header < HeaderLen => s.bytes = <<>>
             /\ s.declared <= MaxUint /\ s.header + Len(s.bytes) <= MaxInt
             /\ PayloadLen(s) <= Len(s.bytes)
             /\ Readable(s) => PayloadLen(s) \in Nat
  <1> DEFINE s == c.slices[k]
  <1>1. c.slices \in Seq(Slice) /\ k \in DOMAIN c.slices
    BY ChunkFacts
  <1>2. s \in Slice
    BY <1>1
  <1>3. RealSlice(s)
    BY <1>1, SourceAssumption
  <1> HIDE DEF s
  <1>4. /\ s.reader \in BOOLEAN /\ s.header \in {0} \cup MagicLen..HeaderLen /\ s.declared \in Nat
        /\ s.bytes \in Seq(Byte)
    BY <1>2 DEF Slice
  <1>5. Len(s.bytes) \in Nat /\ s.header \in Nat
    BY <1>4, LenProperties DEF MagicLen, HeaderLen
  <1>6. PayloadLen(s) <= Len(s.bytes) /\ (Readable(s) => PayloadLen(s) \in Nat)
    BY <1>4, <1>5 DEF PayloadLen, Readable, HeaderLen
  <1>7. /\ s.header # 0 /\ s.header < HeaderLen => s.bytes = <<>>
        /\ s.declared <= MaxUint /\ s.header + Len(s.bytes) <= MaxInt
    BY <1>3 DEF RealSlice
  <1>8. s.header = 0 \/ s.header \in MagicLen..HeaderLen
    BY <1>4
  <1> QED BY <1>4, <1>5, <1>6, <1>7, <1>8 DEF s

\* What a slice gives.
LEMMA GivenFacts ==
  ASSUME NEW c \in Chunks, NEW k \in 1..Len(c.slices), Readable(c.slices[k])
  PROVE  LET s == c.slices[k]
             start == StartOf(c, k)
         IN  /\ start \in Nat /\ Given(c, k) \in Seq(Byte)
             /\ Len(Given(c, k)) = IF start >= PayloadLen(s) THEN 0 ELSE PayloadLen(s) - start
             /\ \A i \in 1..Len(Given(c, k)) : Given(c, k)[i] = s.bytes[start + i]
  <1> DEFINE s == c.slices[k]
             start == StartOf(c, k)
             n == Len(s.bytes)
             payload == Payload(s)
  <1>1. /\ s.header \in Nat /\ s.declared \in Nat /\ s.bytes \in Seq(Byte) /\ n \in Nat
        /\ PayloadLen(s) \in Nat /\ PayloadLen(s) <= n
    BY SliceFacts
  <1>2. start \in Nat
    BY ChunkFacts DEF StartOf
  <1>3. Readable(s) /\ Given(c, k) = At(payload, start, n)
    BY DEF Given
  <1> HIDE DEF s, start
  <1>4. /\ payload \in Seq(Byte) /\ Len(payload) = PayloadLen(s)
        /\ \A i \in 1..PayloadLen(s) : payload[i] = s.bytes[i]
    <2>1. CASE s.header = 0
      BY <1>1, <2>1 DEF Payload, PayloadLen
    <2>2. CASE s.header # 0
      <3>1. PICK d : d = s.declared - HeaderLen
        OBVIOUS
      <3>0. d \in Nat /\ 0 \in Nat
        BY <1>1, <1>3, <2>2, <3>1 DEF Readable, HeaderLen
      <3>3. payload = At(s.bytes, 0, d)
        BY <2>2, <3>1 DEF Payload
      <3> DEFINE there == At(s.bytes, 0, d)
      <3>2. /\ there \in Seq(Byte)
            /\ Len(there) = IF 0 >= Len(s.bytes) THEN 0
                            ELSE IF 0 + d <= Len(s.bytes) THEN d ELSE Len(s.bytes) - 0
            /\ \A i \in 1..Len(there) : there[i] = s.bytes[0 + i]
        <4>1. s.bytes \in Seq(Byte) /\ d \in Nat /\ 0 \in Nat
          BY <1>1, <3>0
        <4> QED BY ONLY <4>1, AtFacts
      <3>6. payload = there
        BY <3>3
      <3> HIDE DEF there, payload
      <3>4. Len(there) = PayloadLen(s)
        BY <1>1, <2>2, <3>0, <3>1, <3>2 DEF PayloadLen
      <3>5. ASSUME NEW i \in 1..Len(there) PROVE there[i] = s.bytes[i]
        <4>1. 0 + i = i
          BY <3>4, <1>1
        <4> QED BY <3>2, <4>1
      <3> QED BY <3>2, <3>4, <3>5, <3>6
    <2> QED BY <2>1, <2>2
  <1> HIDE DEF payload, n
  <1> DEFINE there == At(payload, start, n)
  <1>5. /\ there \in Seq(Byte)
        /\ Len(there) = IF start >= Len(payload) THEN 0
                        ELSE IF start + n <= Len(payload) THEN n ELSE Len(payload) - start
        /\ \A i \in 1..Len(there) : there[i] = payload[start + i]
    <2>1. payload \in Seq(Byte) /\ start \in Nat /\ n \in Nat
      BY <1>1, <1>2, <1>4
    <2> QED BY <2>1, AtFacts
  <1>6. there = Given(c, k)
    BY <1>3
  <1> HIDE DEF there
  <1>7. /\ Len(there) = IF start >= PayloadLen(s) THEN 0 ELSE PayloadLen(s) - start
        /\ \A i \in 1..Len(there) : start + i \in 1..PayloadLen(s)
    BY <1>1, <1>2, <1>4, <1>5
  <1>8. \A i \in 1..Len(there) : there[i] = s.bytes[start + i]
    BY <1>4, <1>5, <1>7
  <1> QED BY <1>2, <1>5, <1>6, <1>7, <1>8 DEF s, start

LEMMA PieceType ==
  ASSUME NEW c \in Chunks, NEW k \in 1..Len(c.slices)
  PROVE  Piece(c, k) \in Seq(Byte)
  BY GivenFacts DEF Piece

-----------------------------------------------------------------------------
(* Joined.                                                                 *)

\* The recursion equation of Joined, for the first n slices.
IsJoined(f, c, n) == f = [k \in 0..n |-> IF k = 0 THEN <<>> ELSE f[k - 1] \o Piece(c, k)]

LEMMA JoinedExists ==
  ASSUME NEW n \in Nat, NEW c
  PROVE  \E f : IsJoined(f, c, n)
  <1> DEFINE S == {m \in Nat : \E f : IsJoined(f, c, m)}
  <1>1. 0 \in S
    <2> DEFINE f == [k \in 0..0 |-> <<>>]
    <2>1. IsJoined(f, c, 0)
      BY DEF IsJoined
    <2> QED BY <2>1
  <1>2. ASSUME NEW m \in Nat, m \in S PROVE m + 1 \in S
    <2>1. PICK f : IsJoined(f, c, m)
      BY <1>2
    <2> DEFINE g == [k \in 0..(m + 1) |-> IF k = m + 1 THEN f[m] \o Piece(c, m + 1) ELSE f[k]]
    <2>0. \A k \in 0..m : f[k] = IF k = 0 THEN <<>> ELSE f[k - 1] \o Piece(c, k)
      <3> DEFINE e == [k \in 0..m |-> IF k = 0 THEN <<>> ELSE f[k - 1] \o Piece(c, k)]
      <3>1. f = e
        BY <2>1 DEF IsJoined
      <3>2. \A k \in 0..m : e[k] = IF k = 0 THEN <<>> ELSE f[k - 1] \o Piece(c, k)
        OBVIOUS
      <3> HIDE DEF e
      <3> QED BY <3>1, <3>2
    <2>2. ASSUME NEW k \in 0..(m + 1)
          PROVE  g[k] = IF k = 0 THEN <<>> ELSE g[k - 1] \o Piece(c, k)
      <3>1. CASE k = m + 1
        <4>0. k # 0 /\ k - 1 = m /\ m # m + 1 /\ m \in 0..(m + 1)
          BY <3>1
        <4>1. g[k] = f[m] \o Piece(c, m + 1)
          BY <3>1
        <4>2. g[m] = f[m]
          BY <4>0
        <4> HIDE DEF g
        <4> QED BY <3>1, <4>0, <4>1, <4>2
      <3>2. CASE k # m + 1
        <4>1. k \in 0..m /\ g[k] = f[k]
          BY <3>2
        <4>2. k # 0 => k - 1 \in 0..(m + 1) /\ k - 1 # m + 1
          OBVIOUS
        <4>3. k # 0 => g[k - 1] = f[k - 1]
          BY <4>2
        <4> HIDE DEF g
        <4> QED BY <2>0, <4>1, <4>3
      <3> QED BY <3>1, <3>2
    <2>3. g = [k \in 0..(m + 1) |-> g[k]]
      OBVIOUS
    <2>4. IsJoined(g, c, m + 1)
      <3> HIDE DEF g
      <3> QED BY <2>2, <2>3 DEF IsJoined
    <2> HIDE DEF g
    <2> QED BY <2>4
  <1>3. \A m \in Nat : m \in S
    <2> HIDE DEF S
    <2> QED BY <1>1, <1>2, SetInduction
  <1> QED BY <1>3

LEMMA JoinedEquation ==
  ASSUME NEW c \in Chunks
  PROVE  /\ Joined(c)[0] = <<>>
         /\ \A k \in 1..Len(c.slices) : Joined(c)[k] = Joined(c)[k - 1] \o Piece(c, k)
  <1> DEFINE j == Joined(c)
             n == Len(c.slices)
  <1>1. n \in Nat
    BY ChunkFacts
  <1>2. \E f : IsJoined(f, c, n)
    BY <1>1, JoinedExists
  <1>3. IsJoined(j, c, n)
    BY <1>2 DEF IsJoined, Joined
  <1>4. j[0] = <<>> /\ \A k \in 1..n : j[k] = j[k - 1] \o Piece(c, k)
    <2> HIDE DEF j, n
    <2> DEFINE e == [k \in 0..n |-> IF k = 0 THEN <<>> ELSE j[k - 1] \o Piece(c, k)]
    <2>1. j = e
      BY <1>3 DEF IsJoined
    <2>2. \A k \in 0..n : e[k] = IF k = 0 THEN <<>> ELSE j[k - 1] \o Piece(c, k)
      OBVIOUS
    <2>3. 0 \in 0..n /\ \A k \in 1..n : k \in 0..n /\ k # 0
      BY <1>1
    <2> HIDE DEF e
    <2> QED BY <2>1, <2>2, <2>3
  <1> QED BY <1>4

LEMMA JoinedType ==
  ASSUME NEW c \in Chunks, NEW n \in 0..Len(c.slices)
  PROVE  Joined(c)[n] \in Seq(Byte)
  <1> DEFINE j == Joined(c)
             all == Len(c.slices)
             S == {k \in Nat : k <= all => j[k] \in Seq(Byte)}
  <1>1. all \in Nat /\ j[0] = <<>> /\ \A k \in 1..all : j[k] = j[k - 1] \o Piece(c, k)
    BY ChunkFacts, JoinedEquation
  <1>2. \A k \in 1..all : Piece(c, k) \in Seq(Byte)
    BY PieceType
  <1> HIDE DEF j, all
  <1>3. 0 \in S
    <2>1. <<>> \in Seq(Byte)
      OBVIOUS
    <2>2. j[0] \in Seq(Byte)
      BY <1>1, <2>1
    <2> QED BY <2>2
  <1>4. ASSUME NEW k \in Nat, k \in S PROVE k + 1 \in S
    <2> SUFFICES ASSUME k + 1 <= all PROVE j[k + 1] \in Seq(Byte)
      OBVIOUS
    <2>1. k + 1 \in 1..all /\ (k + 1) - 1 = k
      BY <1>1
    <2>2. j[k] \in Seq(Byte) /\ Piece(c, k + 1) \in Seq(Byte)
      BY <1>1, <1>2, <1>4, <2>1
    <2>3. j[k + 1] = j[k] \o Piece(c, k + 1)
      BY <1>1, <2>1
    <2> QED BY <2>2, <2>3, ConcatFacts
  <1>5. \A k \in Nat : k \in S
    <2> HIDE DEF S
    <2> QED BY <1>3, <1>4, SetInduction
  <1> QED BY <1>1, <1>5 DEF j, all

\* What slices have given stays where it is when more follow.
LEMMA JoinedBegins ==
  ASSUME NEW c \in Chunks, NEW m \in 0..Len(c.slices), NEW n \in m..Len(c.slices)
  PROVE  Begins(Joined(c)[m], Joined(c)[n])
  <1> DEFINE j == Joined(c)
             all == Len(c.slices)
             S == {d \in Nat : m + d <= all => Begins(j[m], j[m + d])}
  <1>1. /\ all \in Nat /\ m \in Nat /\ \A k \in 1..all : j[k] = j[k - 1] \o Piece(c, k)
        /\ \A k \in 0..all : j[k] \in Seq(Byte)
        /\ \A k \in 1..all : Piece(c, k) \in Seq(Byte)
    BY ChunkFacts, JoinedEquation, JoinedType, PieceType
  <1>2. m + (n - m) = n /\ n - m \in Nat /\ n <= all /\ m + 0 = m
    BY <1>1
  <1> HIDE DEF j, all
  <1>3. 0 \in S
    <2>1. j[m] \in Seq(Byte)
      BY <1>1, <1>2
    <2>2. Len(j[m]) \in Nat
      BY <2>1, LenProperties
    <2>3. Begins(j[m], j[m])
      BY <2>2 DEF Begins
    <2> QED BY <1>2, <2>3
  <1>4. ASSUME NEW d \in Nat, d \in S PROVE d + 1 \in S
    <2> SUFFICES ASSUME m + (d + 1) <= all PROVE Begins(j[m], j[m + (d + 1)])
      OBVIOUS
    <2>1. m + (d + 1) \in 1..all /\ (m + (d + 1)) - 1 = m + d /\ m + d \in 0..all /\ m \in 0..all
      BY <1>1
    <2>2. Begins(j[m], j[m + d])
      BY <1>1, <1>4, <2>1
    <2>3. j[m + (d + 1)] = j[m + d] \o Piece(c, m + (d + 1))
      BY <1>1, <2>1
    <2>4. j[m] \in Seq(Byte) /\ j[m + d] \in Seq(Byte) /\ Piece(c, m + (d + 1)) \in Seq(Byte)
          /\ j[m + (d + 1)] \in Seq(Byte)
      BY <1>1, <2>1
    <2>5. Begins(j[m + d], j[m + (d + 1)])
      <3> DEFINE a == j[m + d]
                 b == Piece(c, m + (d + 1))
      <3>1. /\ Len(a) \in Nat /\ Len(b) \in Nat /\ Len(a \o b) = Len(a) + Len(b)
            /\ \A i \in 1..Len(a) : (a \o b)[i] = a[i]
        BY <2>4, ConcatFacts
      <3>2. Begins(a, a \o b)
        <4> HIDE DEF a, b
        <4> QED BY <3>1 DEF Begins
      <3> QED BY <2>3, <3>2
    <2> QED BY <2>2, <2>4, <2>5, BeginsTransitive
  <1>5. \A d \in Nat : d \in S
    <2> HIDE DEF S
    <2> QED BY <1>3, <1>4, SetInduction
  <1>6. Begins(j[m], j[m + (n - m)])
    BY <1>2, <1>5
  <1> QED BY <1>2, <1>6 DEF j

\* The content of a chunk.
LEMMA ContentType ==
  ASSUME chunk \in Chunks
  PROVE  content \in Seq(Byte) /\ Len(content) \in Nat
  <1>1. CASE External(chunk)
    <2>1. Len(chunk.slices) \in 0..Len(chunk.slices)
      BY ChunkFacts
    <2>2. content \in Seq(Byte)
      BY <1>1, <2>1, JoinedType DEF content
    <2> QED BY <2>2, LenProperties
  <1>2. CASE ~External(chunk)
    <2>1. chunk.embedded \in Seq(Byte) /\ Len(chunk.embedded) \in Nat /\ chunk.offset \in Nat
      BY ChunkFacts
    <2>2. content \in Seq(Byte)
      BY <1>2, <2>1, AtFacts DEF content
    <2> QED BY <2>2, LenProperties
  <1> QED BY <1>1, <1>2

LEMMA ChunkFixed ==
  ASSUME chunk' = chunk
  PROVE  /\ content' = content /\ whole' = whole /\ External(chunk)' = External(chunk)
         /\ Joined(chunk)' = Joined(chunk) /\ NewError(chunk)' = NewError(chunk)
         /\ \A k : Passable(chunk, k)' = Passable(chunk, k)
         /\ \A k : StartOf(chunk, k)' = StartOf(chunk, k)
  BY DEF content, whole

-----------------------------------------------------------------------------
(* Reading from a slice.                                                   *)

\* Where the reader is, given the invariant.
LEMMA Place ==
  ASSUME SInv, Running, ~isEmbedded
  PROVE  /\ chunk \in Chunks /\ External(chunk) /\ slice \in Nat /\ slice <= chunk.last
         /\ chunk.last - chunk.first + 1 = Len(chunk.slices) /\ chunk.first \in Nat /\ chunk.last \in Nat
         /\ k0 \in 1..Len(chunk.slices) /\ current = chunk.slices[k0]
         /\ begin \in Nat /\ pos \in Nat
         /\ delivered \in Seq(Byte) /\ buffer \in Seq(Byte)
         /\ got \in Seq(Byte) /\ Len(got) \in Nat /\ Len(buffer) \in Nat
         /\ Joined(chunk)[k0 - 1] \in Seq(Byte) /\ Len(Joined(chunk)[k0 - 1]) \in Nat
         /\ content \in Seq(Byte) /\ Len(content) \in Nat
  <1>1. /\ chunk \in Chunks /\ slice \in Nat /\ pos \in 0..MaxUint
        /\ delivered \in Seq(Byte) /\ buffer \in Seq(Byte)
    BY DEF SInv, TypeOK
  <1>2. /\ External(chunk) /\ NewError(chunk) = "none"
    BY DEF SInv, Calls
  <1>3. slice \in chunk.first..chunk.last
    BY DEF SInv, InSlices
  <1>4. /\ chunk.first \in Nat /\ chunk.last \in Nat /\ chunk.offset \in Nat /\ MaxUint \in Nat
        /\ chunk.first <= chunk.last => Len(chunk.slices) = chunk.last - chunk.first + 1
        /\ Len(chunk.slices) \in Nat
    BY <1>1, ChunkFacts
  <1>5. k0 \in 1..Len(chunk.slices) /\ k0 - 1 \in 0..Len(chunk.slices)
    BY <1>3, <1>4 DEF k0
  <1>6. current = chunk.slices[k0]
    BY DEF current, k0
  <1>7. begin \in Nat /\ pos \in Nat
    BY <1>1, <1>4 DEF begin, StartOf
  <1>8. got \in Seq(Byte) /\ Len(got) \in Nat /\ Len(buffer) \in Nat
    BY <1>1, ConcatFacts, LenProperties DEF got
  <1>9. Joined(chunk)[k0 - 1] \in Seq(Byte) /\ Len(Joined(chunk)[k0 - 1]) \in Nat
    BY <1>1, <1>5, JoinedType, LenProperties
  <1>10. content \in Seq(Byte) /\ Len(content) \in Nat
    BY <1>1, ContentType
  <1> QED BY <1>1, <1>2, <1>3, <1>4, <1>5, <1>6, <1>7, <1>8, <1>9, <1>10

\* The first k0 slices, when the current one can be read.
LEMMA CurrentJoined ==
  ASSUME SInv, Running, ~isEmbedded, Readable(current)
  PROVE  LET given == Given(chunk, k0)
         IN  /\ given \in Seq(Byte) /\ Len(given) \in Nat
             /\ Len(given) = IF begin >= PayloadLen(current) THEN 0
                             ELSE PayloadLen(current) - begin
             /\ \A i \in 1..Len(given) : given[i] = current.bytes[begin + i]
             /\ Joined(chunk)[k0] = Joined(chunk)[k0 - 1] \o given
             /\ Joined(chunk)[k0] \in Seq(Byte)
             /\ Len(Joined(chunk)[k0]) = Len(Joined(chunk)[k0 - 1]) + Len(given)
             /\ Begins(Joined(chunk)[k0], content)
             /\ PayloadLen(current) \in Nat
  <1>1. /\ chunk \in Chunks /\ k0 \in 1..Len(chunk.slices) /\ current = chunk.slices[k0]
        /\ External(chunk) /\ Joined(chunk)[k0 - 1] \in Seq(Byte) /\ Len(chunk.slices) \in Nat
    BY Place, ChunkFacts
  <1> DEFINE given == Given(chunk, k0)
  <1>2. /\ given \in Seq(Byte) /\ PayloadLen(current) \in Nat
        /\ Len(given) = IF begin >= PayloadLen(current) THEN 0 ELSE PayloadLen(current) - begin
        /\ \A i \in 1..Len(given) : given[i] = current.bytes[begin + i]
    BY <1>1, GivenFacts, SliceFacts DEF begin
  <1>3. Piece(chunk, k0) = given
    <2>1. \A j \in 1..(k0 - 1) : Passable(chunk, j)
      BY DEF SInv, InSlices
    <2> QED BY <1>1, <2>1 DEF Piece
  <1>4. Joined(chunk)[k0] = Joined(chunk)[k0 - 1] \o given
    BY <1>1, <1>3, JoinedEquation
  <1>5. /\ k0 \in 0..Len(chunk.slices) /\ Len(chunk.slices) \in k0..Len(chunk.slices)
    BY <1>1
  <1>6. Begins(Joined(chunk)[k0], content)
    BY <1>1, <1>5, JoinedBegins DEF content
  <1>7. Joined(chunk)[k0] \in Seq(Byte)
    BY <1>1, <1>5, JoinedType
  <1>8. Len(given) \in Nat /\ Len(Joined(chunk)[k0]) = Len(Joined(chunk)[k0 - 1]) + Len(given)
    BY <1>1, <1>2, <1>4, ConcatFacts
  <1> QED BY <1>2, <1>4, <1>6, <1>7, <1>8

\* Bytes of the current slice are the ones that come next.
LEMMA ReadMore ==
  ASSUME SInv, Running, ~isEmbedded, Readable(current),
         NEW b \in Seq(Byte), Len(b) > 0 => pos + Len(b) <= PayloadLen(current),
         \A i \in 1..Len(b) : b[i] = current.bytes[pos + i]
  PROVE  Begins(got \o b, content) /\ Len(got \o b) = Len(got) + Len(b)
  <1> DEFINE given == Given(chunk, k0)
             before == Joined(chunk)[k0 - 1]
             after == Joined(chunk)[k0]
  <1>1. /\ begin \in Nat /\ pos \in Nat /\ Len(got) \in Nat /\ Len(before) \in Nat
        /\ got \in Seq(Byte) /\ before \in Seq(Byte) /\ content \in Seq(Byte) /\ Len(content) \in Nat
    BY Place
  <1>2. /\ pos >= begin /\ Len(got) = Len(before) + (pos - begin) /\ Begins(got, content)
    BY DEF SInv, InSlices
  <1>3. /\ given \in Seq(Byte) /\ Len(given) \in Nat /\ PayloadLen(current) \in Nat
        /\ Len(given) = IF begin >= PayloadLen(current) THEN 0 ELSE PayloadLen(current) - begin
        /\ \A i \in 1..Len(given) : given[i] = current.bytes[begin + i]
        /\ after = before \o given /\ after \in Seq(Byte) /\ Len(after) = Len(before) + Len(given)
        /\ Begins(after, content)
    BY CurrentJoined
  <1>4. Len(b) \in Nat
    BY LenProperties
  <1>5. Len(got \o b) = Len(got) + Len(b)
    BY <1>1, ConcatFacts
  <1> HIDE DEF given, before, after
  <1>6. ASSUME NEW i \in 1..Len(b) PROVE content[Len(got) + i] = b[i] /\ Len(got) + Len(b) <= Len(content)
    <2>1. /\ Len(given) = PayloadLen(current) - begin
          /\ (pos - begin) + i \in 1..Len(given) /\ begin + ((pos - begin) + i) = pos + i
          /\ Len(got) + i = Len(before) + ((pos - begin) + i)
          /\ Len(got) + i \in 1..Len(after) /\ Len(got) + Len(b) <= Len(after)
      <3>1. PICK p, s, l, g, m, n, h \in Nat :
              /\ p = pos /\ s = begin /\ l = Len(got) /\ g = Len(given) /\ m = PayloadLen(current)
              /\ n = Len(b) /\ h = Len(before)
        BY <1>1, <1>3, <1>4
      <3>2. /\ i \in 1..n /\ p + n <= m /\ p >= s /\ l = h + (p - s)
            /\ g = (IF s >= m THEN 0 ELSE m - s) /\ Len(after) = h + g
        <4>1. i \in 1..n /\ n > 0
          BY <3>1
        <4> QED BY <1>2, <1>3, <3>1, <4>1
      <3>3. /\ g = m - s /\ (p - s) + i \in 1..g /\ s + ((p - s) + i) = p + i
            /\ l + i = h + ((p - s) + i) /\ l + i \in 1..(h + g) /\ l + n <= h + g
        BY <3>2
      <3> QED BY <3>1, <3>2, <3>3
    <2>2. content[Len(got) + i] = after[Len(got) + i] /\ Len(after) <= Len(content)
      BY <1>3, <2>1 DEF Begins
    <2>3. \A j \in 1..Len(given) : after[Len(before) + j] = given[j]
      BY <1>1, <1>3, ConcatFacts
    <2>4. after[Len(got) + i] = given[(pos - begin) + i]
      BY <2>1, <2>3
    <2>5. given[(pos - begin) + i] = current.bytes[pos + i]
      BY <1>3, <2>1
    <2>6. Len(after) \in Nat
      BY <1>3, LenProperties
    <2>7. Len(got) + Len(b) <= Len(content)
      BY <1>1, <1>4, <2>1, <2>2, <2>6
    <2> QED BY <2>2, <2>4, <2>5, <2>7
  <1>7. CASE Len(b) = 0
    <2>1. Len(got) + Len(b) <= Len(content)
      BY <1>1, <1>2, <1>7 DEF Begins
    <2> QED BY <1>1, <1>2, <1>5, <1>6, <2>1, BeginsMore
  <1>8. CASE Len(b) # 0
    <2>1. 1 \in 1..Len(b)
      BY <1>4, <1>8
    <2>2. Len(got) + Len(b) <= Len(content)
      BY <1>6, <2>1
    <2> QED BY <1>1, <1>2, <1>5, <1>6, <2>2, BeginsMore
  <1> QED BY <1>7, <1>8

\* At the end of a slice everything it gives has been read.
LEMMA SliceComplete ==
  ASSUME SInv, Running, ~isEmbedded, Readable(current), NEW n \in Nat,
         n > 0 => pos + n <= PayloadLen(current), pos + n >= PayloadLen(current)
  PROVE  Len(got) + n = Len(Joined(chunk)[k0])
  <1>1. /\ begin \in Nat /\ pos \in Nat /\ Len(got) \in Nat /\ Len(Joined(chunk)[k0 - 1]) \in Nat
    BY Place
  <1>2. /\ pos >= begin /\ (pos > begin => pos <= PayloadLen(current))
        /\ Len(got) = Len(Joined(chunk)[k0 - 1]) + (pos - begin)
    BY DEF SInv, InSlices
  <1>3. /\ Len(Given(chunk, k0)) \in Nat /\ PayloadLen(current) \in Nat
        /\ Len(Given(chunk, k0)) = IF begin >= PayloadLen(current) THEN 0
                                   ELSE PayloadLen(current) - begin
        /\ Len(Joined(chunk)[k0]) = Len(Joined(chunk)[k0 - 1]) + Len(Given(chunk, k0))
    BY CurrentJoined
  <1> QED BY <1>1, <1>2, <1>3

-----------------------------------------------------------------------------
(* The steps.                                                              *)

Ends == Errors \cup {"none", "EOF"}

\* An answer of the source is a step of the stream.
LEMMA AnswerReads ==
  ASSUME chunk \in Chunks, delivered \in Seq(Byte), chunk' = chunk,
         NEW b \in Seq(Byte), NEW e \in Ends, Answer(b, e),
         Len(b) > 0 \/ e # "none", Begins(delivered \o b, content),
         e = "EOF" => whole /\ Len(delivered \o b) = Len(content)
  PROVE  Stream!Next
  <1>1. content \in Seq(Byte) /\ Len(content) \in Nat /\ content' = content /\ whole' = whole
    BY ContentType, ChunkFixed
  <1>2. /\ delivered \o b \in Seq(Byte) /\ Len(delivered) \in Nat /\ Len(b) \in Nat
        /\ Len(delivered \o b) = Len(delivered) + Len(b)
    BY ConcatFacts
  <1>3. delivered \o b = SubSeq(content, 1, Len(delivered) + Len(b))
    BY <1>1, <1>2, BeginsSubSeq
  <1>4. Len(b) \in 0..Len(content) /\ Len(b) <= Len(content) - Len(delivered)
    BY <1>1, <1>2 DEF Begins
  <1>5. e = "EOF" => delivered \o b = content
    <2>1. SubSeq(content, 1, Len(content)) = content
      BY <1>1, SubSeqFull
    <2> QED BY <1>2, <1>3, <2>1
  <1>6. Stream!Read(Len(b), e)
    BY <1>1, <1>3, <1>4, <1>5 DEF Stream!Read, Answer
  <1> QED BY <1>4, <1>6 DEF Stream!Next, Ends

\* The type of what an answer leaves.
LEMMA AnswerType ==
  ASSUME delivered \in Seq(Byte), NEW b \in Seq(Byte), NEW e \in Ends, Answer(b, e)
  PROVE  /\ delivered' = delivered \o b /\ delivered' \in Seq(Byte) /\ got' = delivered \o b
         /\ buffer' = <<>> /\ buffer' \in Seq(Byte) /\ want' = 0 /\ pc' = "idle"
         /\ answer' \in [n: Nat, err: Errors \cup {"none", "EOF"}]
  <1>1. delivered \o b \in Seq(Byte) /\ Len(b) \in Nat
    BY ConcatFacts
  <1>2. (delivered \o b) \o <<>> = delivered \o b
    BY <1>1, ConcatEmptySeq
  <1>3. <<>> \in Seq(Byte)
    OBVIOUS
  <1> QED BY <1>1, <1>2, <1>3 DEF Answer, got, Ends

\* Bytes of the current slice are read.
LEMMA StayInSlice ==
  ASSUME SInv, Running, ~isEmbedded, opened, opened',
         UNCHANGED <<chunk, isEmbedded, slice, base, end>>,
         NEW b \in Seq(Byte), Len(b) > 0 => pos + Len(b) <= PayloadLen(current),
         \A i \in 1..Len(b) : b[i] = current.bytes[pos + i],
         got' = got \o b, pos' = pos + Len(b)
  PROVE  InSlices' /\ Begins(got', content) /\ pos' \in 0..MaxUint
  <1>1. Readable(current) /\ base = current.header
        /\ end = IF current.header = 0 THEN MaxUint ELSE current.declared - HeaderLen
    BY DEF SInv, InSlices
  <1>2. Begins(got', content) /\ Len(got') = Len(got) + Len(b)
    BY <1>1, ReadMore
  <1>3. /\ begin \in Nat /\ pos \in Nat /\ Len(got) \in Nat /\ Len(Joined(chunk)[k0 - 1]) \in Nat
        /\ Len(b) \in Nat
    BY Place, LenProperties
  <1>4. /\ current' = current /\ k0' = k0 /\ begin' = begin /\ Joined(chunk)' = Joined(chunk)
        /\ content' = content
        /\ \A k : Passable(chunk, k)' = Passable(chunk, k)
    BY ChunkFixed DEF current, k0, begin
  <1>5. /\ slice \in chunk.first..chunk.last
        /\ \A j \in 1..(k0 - 1) : Passable(chunk, j)
        /\ pos >= begin /\ (pos > begin => pos <= PayloadLen(current))
        /\ Len(got) = Len(Joined(chunk)[k0 - 1]) + (pos - begin)
    BY DEF SInv, InSlices
  <1>6. /\ pos' >= begin /\ (pos' > begin => pos' <= PayloadLen(current))
        /\ Len(got') = Len(Joined(chunk)[k0 - 1]) + (pos' - begin)
    <2>1. /\ Len(b) \in Nat /\ (Len(b) > 0 => pos + Len(b) <= PayloadLen(current))
          /\ pos' = pos + Len(b)
      BY <1>3
    <2>3. pos >= begin /\ Len(got) = Len(Joined(chunk)[k0 - 1]) + (pos - begin)
      BY <1>5
    <2>4. /\ pos \in Nat /\ begin \in Nat /\ Len(got) \in Nat
          /\ Len(Joined(chunk)[k0 - 1]) \in Nat /\ Len(b) \in Nat
      BY <1>3
    <2>2. PICK p, s, r, j, n \in Nat : /\ p = pos /\ s = begin /\ r = Len(got)
                                       /\ j = Len(Joined(chunk)[k0 - 1]) /\ n = Len(b)
      BY <2>4
    <2>5. p >= s /\ r = j + (p - s)
      BY <2>2, <2>3
    <2>6. p + n >= s /\ (p + n > s => n > 0 \/ p > s) /\ r + n = j + ((p + n) - s) /\ (n > 0 \/ p + n = p)
      BY <2>5
    <2> QED BY <1>2, <1>5, <2>1, <2>2, <2>6
  <1>7. pos' \in 0..MaxUint
    <2>1. pos \in 0..MaxUint /\ chunk \in Chunks
      BY DEF SInv, TypeOK
    <2>2. current.header \in Nat /\ Len(current.bytes) \in Nat
          /\ current.header + Len(current.bytes) <= MaxInt
          /\ PayloadLen(current) <= Len(current.bytes) /\ PayloadLen(current) \in Nat
      BY <1>1, Place, SliceFacts
    <2>3. MaxInt \in Nat /\ MaxUint \in Nat /\ MaxInt < MaxUint
      BY SourceAssumption
    <2> QED BY <1>3, <2>1, <2>2, <2>3
  <1>8. InSlices'
    BY <1>1, <1>2, <1>4, <1>5, <1>6 DEF InSlices
  <1> QED BY <1>2, <1>7, <1>8

\* The next slice is turned to.
LEMMA TurnToNext ==
  ASSUME SInv, Running, ~isEmbedded, opened, ~opened',
         UNCHANGED <<chunk, isEmbedded>>, slice # chunk.last, slice' = slice + 1, pos' = 0,
         Passable(chunk, k0),
         NEW b \in Seq(Byte), Len(b) > 0 => pos + Len(b) <= PayloadLen(current),
         \A i \in 1..Len(b) : b[i] = current.bytes[pos + i],
         pos + Len(b) >= PayloadLen(current), got' = got \o b
  PROVE  InSlices'
  <1>1. Readable(current)
    BY DEF SInv, InSlices
  <1>2. Begins(got', content) /\ Len(got') = Len(got) + Len(b) /\ Len(b) \in Nat
    BY <1>1, ReadMore, LenProperties
  <1>3. Len(got') = Len(Joined(chunk)[k0])
    BY <1>1, <1>2, SliceComplete
  <1>4. /\ slice \in chunk.first..chunk.last
        /\ \A j \in 1..(k0 - 1) : Passable(chunk, j)
    BY DEF SInv, InSlices
  <1>5. /\ chunk.first \in Nat /\ chunk.last \in Nat /\ slice \in Nat /\ k0 \in 1..Len(chunk.slices)
        /\ Len(Joined(chunk)[k0]) \in Nat
    BY <1>1, Place, CurrentJoined, LenProperties
  <1>6. Joined(chunk)' = Joined(chunk) /\ content' = content /\ chunk' = chunk
        /\ \A k : Passable(chunk, k)' = Passable(chunk, k)
    BY ChunkFixed
  <1>7. slice' \in chunk.first..chunk.last /\ k0' = k0 + 1 /\ k0' - 1 = k0 /\ k0' # 1
    BY <1>4, <1>5, <1>6 DEF k0
  <1>8. begin' = 0
    BY <1>7 DEF begin, StartOf
  <1>9. \A j \in 1..(k0' - 1) : Passable(chunk, j)
    <2>1. \A j \in 1..k0 : j \in 1..(k0 - 1) \/ j = k0
      BY <1>5
    <2> QED BY <1>4, <1>7, <2>1
  <1>10. Len(got') = Len(Joined(chunk)[k0' - 1]) + (pos' - begin')
    BY <1>3, <1>5, <1>7, <1>8
  <1> QED BY <1>2, <1>6, <1>7, <1>8, <1>9, <1>10 DEF InSlices

\* Nothing is read.
LEMMA StayPut ==
  ASSUME SInv, Running, ~isEmbedded, UNCHANGED <<chunk, isEmbedded, slice, pos>>, got' = got,
         opened' => /\ Readable(current) /\ base' = current.header
                    /\ end' = IF current.header = 0 THEN MaxUint ELSE current.declared - HeaderLen,
         opened => opened'
  PROVE  InSlices' /\ Begins(got', content)
  <1>1. /\ current' = current /\ k0' = k0 /\ begin' = begin /\ Joined(chunk)' = Joined(chunk)
        /\ content' = content
        /\ \A k : Passable(chunk, k)' = Passable(chunk, k)
    BY ChunkFixed DEF current, k0, begin
  <1>2. InSlices
    BY DEF SInv
  <1> QED BY <1>1, <1>2 DEF InSlices

\* A slice is passed at its end: what the last one leaves is nothing.
LEMMA LastComplete ==
  ASSUME SInv, Running, ~isEmbedded, Readable(current), Passable(chunk, k0), slice = chunk.last,
         NEW n \in Nat, n > 0 => pos + n <= PayloadLen(current), pos + n >= PayloadLen(current)
  PROVE  whole /\ Len(got) + n = Len(content)
  <1>1. /\ chunk \in Chunks /\ External(chunk) /\ k0 \in 1..Len(chunk.slices)
        /\ chunk.last - chunk.first + 1 = Len(chunk.slices)
        /\ chunk.first \in Nat /\ chunk.last \in Nat
    BY Place
  <1>2. k0 = Len(chunk.slices) /\ DOMAIN chunk.slices = 1..Len(chunk.slices)
    BY <1>1, ChunkFacts DEF k0
  <1>3. \A j \in 1..Len(chunk.slices) : Passable(chunk, j)
    <2>1. \A j \in 1..(k0 - 1) : Passable(chunk, j)
      BY DEF SInv, InSlices
    <2>2. \A j \in 1..k0 : j \in 1..(k0 - 1) \/ j = k0
      BY <1>1
    <2> QED BY <1>2, <2>1, <2>2
  <1>4. Len(got) + n = Len(Joined(chunk)[k0])
    BY SliceComplete
  <1> QED BY <1>1, <1>2, <1>3, <1>4 DEF whole, content

\* A call that reads slices returns.
LEMMA SliceAnswer ==
  ASSUME SInv, pc = "read", ~isEmbedded, UNCHANGED <<chunk, isEmbedded, dataStart, slice>>,
         NEW b \in Seq(Byte), NEW e \in Ends, Answer(b, e), InSlices',
         pos' \in 0..MaxUint, base' \in {0, HeaderLen}, end' \in 0..MaxUint, opened' \in BOOLEAN
  PROVE  SInv'
  <1>1. TypeOK /\ delivered \in Seq(Byte)
    BY DEF SInv, TypeOK
  <1>2. /\ delivered' \in Seq(Byte) /\ buffer' = <<>> /\ buffer' \in Seq(Byte)
        /\ want' = 0 /\ pc' = "idle" /\ answer' \in [n: Nat, err: Errors \cup {"none", "EOF"}]
    BY <1>1, AnswerType
  <1>3. TypeOK'
    BY <1>1, <1>2 DEF TypeOK
  <1>4. NewError(chunk) = "none" /\ isEmbedded = ~External(chunk)
    BY DEF SInv, Calls, Running
  <1>5. Calls'
    BY <1>2, <1>4, ChunkFixed DEF Calls
  <1>6. InExecutable'
    BY DEF InExecutable
  <1> QED BY <1>3, <1>5, <1>6 DEF SInv

\* A call that reads slices goes on.
LEMMA SliceGoesOn ==
  ASSUME SInv, pc = "read", ~isEmbedded,
         UNCHANGED <<chunk, pc, isEmbedded, dataStart, delivered, answer>>, InSlices',
         want' \in Nat, buffer' \in Seq(Byte), want' + Len(buffer') > 0,
         pos' \in 0..MaxUint, base' \in {0, HeaderLen}, end' \in 0..MaxUint, opened' \in BOOLEAN
  PROVE  SInv' /\ UNCHANGED Stream!vars
  <1>1. Running'
    BY DEF Running
  <1>2. slice' \in chunk'.first..chunk'.last
    BY <1>1 DEF InSlices
  <1>3. chunk \in Chunks /\ chunk.first \in Nat /\ chunk.last \in Nat
    BY ChunkFacts DEF SInv, TypeOK
  <1>4. slice' \in chunk.first..chunk.last /\ slice' \in Nat
    BY <1>2, <1>3
  <1>5. TypeOK'
    <2>1. TypeOK
      BY DEF SInv
    <2> QED BY <1>4, <2>1 DEF TypeOK
  <1>6. NewError(chunk) = "none" /\ isEmbedded = ~External(chunk)
    BY DEF SInv, Calls, Running
  <1>7. Calls'
    BY <1>6, ChunkFixed DEF Calls
  <1>8. InExecutable'
    BY DEF InExecutable
  <1> QED BY <1>5, <1>7, <1>8, ChunkFixed DEF SInv, Stream!vars

LEMMA NewKeeps ==
  ASSUME SInv, New
  PROVE  SInv' /\ UNCHANGED Stream!vars
  <1>1. /\ pc = "new" /\ NewError(chunk) = "none"
        /\ isEmbedded' = ~External(chunk)
        /\ dataStart' = IF External(chunk) THEN 0 ELSE chunk.dataOffset + chunk.offset
        /\ pos' = IF External(chunk) THEN chunk.offset ELSE 0
        /\ slice' = chunk.first /\ pc' = "idle"
        /\ UNCHANGED <<chunk, base, end, opened, want, buffer, delivered, answer>>
    BY DEF New
  <1>2. TypeOK /\ delivered = <<>> /\ buffer = <<>> /\ ~opened /\ want = 0
    BY <1>1 DEF SInv, Calls
  <1>3. chunk \in Chunks
    BY <1>2 DEF TypeOK
  <1>4. /\ chunk.first \in Nat /\ chunk.last \in Nat /\ chunk.offset \in Nat /\ chunk.dataOffset \in Nat
        /\ chunk.offset <= MaxUint /\ MaxUint \in Nat
    BY <1>3, ChunkFacts
  <1>5. /\ chunk.first <= chunk.last
        /\ ~External(chunk) => chunk.offset <= MaxUint - chunk.dataOffset
    BY <1>1, <1>4 DEF NewError
  <1>6. dataStart' \in 0..MaxUint /\ pos' \in 0..MaxUint /\ slice' \in Nat /\ isEmbedded' \in BOOLEAN
    BY <1>1, <1>4, <1>5 DEF External
  <1>7. TypeOK'
    BY <1>1, <1>2, <1>6 DEF TypeOK
  <1>8. content' = content /\ content \in Seq(Byte) /\ Len(content) \in Nat /\ <<>> \in Seq(Byte)
        /\ Begins(<<>>, content)
    BY <1>1, <1>3, ChunkFixed, ContentType DEF Begins
  <1>9. Calls'
    BY <1>1, <1>2, ChunkFixed DEF Calls
  <1>10. InExecutable'
    BY <1>1, <1>2, <1>8 DEF InExecutable
  <1>11. InSlices'
    <2> SUFFICES ASSUME External(chunk) PROVE InSlices'
      BY <1>1 DEF InSlices
    <2>1. slice' \in chunk.first..chunk.last /\ k0' = 1 /\ begin' = chunk.offset
      BY <1>1, <1>4, <1>5 DEF k0, begin, StartOf
    <2>2. got' = <<>> /\ Len(<<>>) = 0
      BY <1>1, <1>2 DEF got
    <2>3. Joined(chunk)' = Joined(chunk) /\ Len(Joined(chunk)[0]) = 0
      BY <1>1, <1>3, ChunkFixed, JoinedEquation
    <2>4. /\ pos' = begin' /\ pos' >= begin' /\ ~(pos' > begin') /\ k0' - 1 = 0
          /\ Len(got') = Len(Joined(chunk)[k0' - 1]) + (pos' - begin')
      BY <1>1, <1>4, <2>1, <2>2, <2>3
    <2>5. \A j : j \notin 1..(k0' - 1)
      BY <2>4
    <2> QED BY <1>1, <1>2, <1>8, <2>1, <2>2, <2>3, <2>4, <2>5 DEF InSlices
  <1> QED BY <1>1, <1>7, <1>9, <1>10, <1>11, ChunkFixed DEF SInv, Stream!vars

LEMMA RefuseKeeps ==
  ASSUME SInv, Refuse
  PROVE  SInv' /\ Stream!Next
  <1>1. /\ pc = "new" /\ NewError(chunk) # "none" /\ pc' = "refused"
        /\ answer' = [n |-> 0, err |-> NewError(chunk)]
        /\ UNCHANGED <<chunk, source, pos, want, buffer, delivered>>
    BY DEF Refuse
  <1>2. NewError(chunk) \in {"MissingSlice", "Corrupt"}
    BY <1>1 DEF NewError
  <1>3. TypeOK /\ delivered = <<>> /\ buffer = <<>>
    BY <1>1 DEF SInv, Calls
  <1>4. SInv'
    BY <1>1, <1>2, <1>3 DEF SInv, TypeOK, Calls, InExecutable, InSlices, Running, source, Errors
  <1>5. content \in Seq(Byte) /\ Len(content) \in Nat /\ content' = content /\ whole' = whole
    BY <1>1, <1>3, ContentType, ChunkFixed DEF TypeOK
  <1>6. delivered' = SubSeq(content, 1, Len(delivered) + 0) /\ 0 <= Len(content) - Len(delivered)
    BY <1>1, <1>3, <1>5, SubSeqEmpty
  <1>7. Stream!Read(0, NewError(chunk))
    BY <1>1, <1>2, <1>5, <1>6 DEF Stream!Read
  <1> QED BY <1>2, <1>4, <1>5, <1>7 DEF Stream!Next, Errors

LEMMA StartKeeps ==
  ASSUME SInv, NEW n \in Wants, Start(n)
  PROVE  SInv' /\ UNCHANGED Stream!vars
  <1>1. /\ pc = "idle" /\ want' = n /\ buffer' = <<>> /\ pc' = "read"
        /\ UNCHANGED <<chunk, source, pos, delivered, answer>>
    BY DEF Start
  <1>2. TypeOK /\ Running /\ buffer = <<>> /\ delivered \in Seq(Byte) /\ n \in Nat /\ n > 0
        /\ <<>> \in Seq(Byte) /\ Len(<<>>) = 0
    BY <1>1, SourceAssumption DEF SInv, TypeOK, Calls, Running
  <1>3. content' = content
    BY <1>1, ChunkFixed
  <1>4. ~isEmbedded => slice \in chunk.first..chunk.last
    BY <1>2 DEF SInv, InSlices
  <1>5. TypeOK'
    BY <1>1, <1>2, <1>4 DEF TypeOK, source
  <1>6. Calls'
    BY <1>1, <1>2, ChunkFixed DEF SInv, Calls, source, Running
  <1>7. InExecutable'
    BY <1>1, <1>2, <1>3 DEF SInv, InExecutable, source
  <1>8. InSlices'
    <2>1. got' = got
      BY <1>1, <1>2 DEF got
    <2>2. CASE isEmbedded
      BY <1>1, <2>2 DEF InSlices, source
    <2>3. CASE ~isEmbedded
      <3>1. opened => /\ Readable(current) /\ base = current.header
                      /\ end = IF current.header = 0 THEN MaxUint ELSE current.declared - HeaderLen
        BY <1>2, <2>3 DEF SInv, InSlices
      <3> QED BY <1>1, <1>2, <2>1, <2>3, <3>1, StayPut DEF source
    <2> QED BY <2>2, <2>3
  <1> QED BY <1>1, <1>5, <1>6, <1>7, <1>8, ChunkFixed DEF SInv, Stream!vars

LEMMA FilledKeeps ==
  ASSUME SInv, Filled
  PROVE  SInv' /\ Stream!Next
  <1>1. /\ pc = "read" /\ ~isEmbedded /\ want = 0 /\ Running /\ Answer(buffer, "none")
        /\ UNCHANGED <<chunk, source, pos>>
    BY DEF Filled, Running
  <1>2. TypeOK /\ delivered \in Seq(Byte) /\ buffer \in Seq(Byte) /\ Len(buffer) > 0 /\ chunk \in Chunks
    BY <1>1, LenProperties DEF SInv, TypeOK, Calls
  <1>3. got' = got
    BY <1>1, <1>2, AnswerType DEF got, Ends
  <1>4. opened => /\ Readable(current) /\ base = current.header
                  /\ end = IF current.header = 0 THEN MaxUint ELSE current.declared - HeaderLen
    BY <1>1 DEF SInv, InSlices
  <1>5. InSlices' /\ Begins(delivered \o buffer, content)
    BY <1>1, <1>3, <1>4, StayPut DEF source, SInv, InSlices, got
  <1>6. SInv'
    BY <1>1, <1>2, <1>5, SliceAnswer DEF source, TypeOK, Ends
  <1>7. Stream!Next
    BY <1>1, <1>2, <1>5, AnswerReads DEF Ends
  <1> QED BY <1>6, <1>7

\* A call that fails without having read: the bytes of the slices before it
\* are returned, and the source stays where it is.
LEMMA GivesUp ==
  ASSUME SInv, pc = "read", ~isEmbedded,
         UNCHANGED <<chunk, isEmbedded, dataStart, slice, pos, opened>>,
         NEW e \in Errors, Answer(buffer, e),
         opened => UNCHANGED <<base, end>>,
         base' \in {0, HeaderLen}, end' \in 0..MaxUint
  PROVE  SInv' /\ Stream!Next
  <1>1. TypeOK /\ delivered \in Seq(Byte) /\ buffer \in Seq(Byte) /\ chunk \in Chunks /\ Running
    BY DEF SInv, TypeOK, Running
  <1>2. e \in Ends /\ e # "none" /\ e # "EOF"
    BY DEF Ends, Errors
  <1>3. got' = got
    BY <1>1, <1>2, AnswerType DEF got
  <1>4. opened => /\ Readable(current) /\ base = current.header
                  /\ end = IF current.header = 0 THEN MaxUint ELSE current.declared - HeaderLen
    BY <1>1 DEF SInv, InSlices
  <1>5. InSlices' /\ Begins(delivered \o buffer, content)
    BY <1>1, <1>3, <1>4, StayPut DEF SInv, InSlices, got
  <1>6. SInv'
    BY <1>1, <1>2, <1>5, SliceAnswer DEF TypeOK
  <1>7. Stream!Next
    BY <1>1, <1>2, <1>5, AnswerReads
  <1> QED BY <1>6, <1>7

LEMMA OpenMissingKeeps ==
  ASSUME SInv, OpenMissing
  PROVE  SInv' /\ Stream!Next
  BY GivesUp DEF OpenMissing, Opening, source, SInv, TypeOK, Errors

\* The file of a slice.
LEMMA FileFacts ==
  ASSUME SInv, Running, ~isEmbedded
  PROVE  /\ current.header \in Nat /\ current.declared \in Nat /\ current.reader \in BOOLEAN
         /\ current.header = 0 \/ current.header \in MagicLen..HeaderLen
         /\ current.bytes \in Seq(Byte) /\ Len(current.bytes) \in Nat
         /\ current.header # 0 /\ current.header < HeaderLen => Len(current.bytes) = 0
         /\ current.declared <= MaxUint /\ current.header + Len(current.bytes) <= MaxInt
         /\ PayloadLen(current) <= Len(current.bytes)
         /\ File(current) \in Seq(Byte)
         /\ Len(File(current)) = current.header + Len(current.bytes)
         /\ \A i \in 1..Len(current.bytes) : File(current)[current.header + i] = current.bytes[i]
  <1>1. chunk \in Chunks /\ k0 \in 1..Len(chunk.slices) /\ current = chunk.slices[k0] /\ slice \in Nat
    BY Place
  <1>2. /\ current.header \in Nat /\ current.declared \in Nat /\ current.reader \in BOOLEAN
        /\ current.header = 0 \/ current.header \in MagicLen..HeaderLen
        /\ current.bytes \in Seq(Byte) /\ Len(current.bytes) \in Nat
        /\ current.header # 0 /\ current.header < HeaderLen => current.bytes = <<>>
        /\ current.declared <= MaxUint /\ current.header + Len(current.bytes) <= MaxInt
        /\ PayloadLen(current) <= Len(current.bytes)
    BY <1>1, SliceFacts
  <1> DEFINE head == [k \in 1..current.header |-> <<"header", slice, k>>]
  <1>3. head \in Seq(Byte) /\ Len(head) = current.header
    <2>1. \A k \in 1..current.header : <<"header", slice, k>> \in Byte
      BY <1>1, <1>2 DEF Byte
    <2>2. head \in [1..current.header -> Byte]
      BY <2>1
    <2> HIDE DEF head
    <2> QED BY <1>2, <2>2, FunctionIsSeq
  <1>4. File(current) = head \o current.bytes
    BY DEF File
  <1> HIDE DEF head
  <1>5. /\ File(current) \in Seq(Byte) /\ Len(File(current)) = Len(head) + Len(current.bytes)
        /\ \A i \in 1..Len(current.bytes) : File(current)[Len(head) + i] = current.bytes[i]
    <2>1. head \in Seq(Byte) /\ current.bytes \in Seq(Byte)
      BY <1>2, <1>3
    <2>2. /\ head \o current.bytes \in Seq(Byte)
          /\ Len(head \o current.bytes) = Len(head) + Len(current.bytes)
          /\ \A i \in 1..Len(current.bytes) : (head \o current.bytes)[Len(head) + i] = current.bytes[i]
      BY ONLY <2>1, ConcatFacts
    <2> QED BY <1>4, <2>2
  <1>6. current.header # 0 /\ current.header < HeaderLen => Len(current.bytes) = 0
    BY <1>2
  <1> QED BY <1>2, <1>3, <1>5, <1>6

\* What a ReaderAt returns.
LEMMA ReadAtFacts ==
  ASSUME NEW S, NEW bytes \in Seq(S), NEW offset \in Nat, NEW n \in Nat, NEW where,
         NEW r \in ReadAt(bytes, offset, n, where)
  PROVE  /\ r.bytes \in Seq(S) /\ Len(r.bytes) \in Nat /\ Len(r.bytes) <= n
         /\ Len(r.bytes) > 0 => offset + Len(r.bytes) <= Len(bytes)
         /\ \A i \in 1..Len(r.bytes) : r.bytes[i] = bytes[offset + i]
         /\ r.err \in {"none", "EOF", "fault"}
         /\ r.err = "EOF" => offset + Len(r.bytes) >= Len(bytes) /\ Len(r.bytes) < n
         /\ r.err = "none" /\ where \notin Lapses => Len(r.bytes) = n
  <1> DEFINE there == At(bytes, offset, n)
  <1>1. /\ there \in Seq(S) /\ Len(bytes) \in Nat /\ Len(there) \in Nat
        /\ Len(there) = IF offset >= Len(bytes) THEN 0
                        ELSE IF offset + n <= Len(bytes) THEN n ELSE Len(bytes) - offset
        /\ \A i \in 1..Len(there) : there[i] = bytes[offset + i]
    BY AtFacts, LenProperties
  <1>2. \/ r = [bytes |-> there, err |-> IF Len(there) < n THEN "EOF" ELSE "none"]
        \/ \E k \in 0..(n - 1) \cap 0..Len(there) :
             \/ r = [bytes |-> SubSeq(there, 1, k), err |-> "fault"]
             \/ where \in Lapses /\ r = [bytes |-> SubSeq(there, 1, k), err |-> "none"]
    BY DEF ReadAt
  <1> HIDE DEF there
  <1>3. CASE r = [bytes |-> there, err |-> IF Len(there) < n THEN "EOF" ELSE "none"]
    <2>1. r.bytes = there /\ r.err = IF Len(there) < n THEN "EOF" ELSE "none"
      BY <1>3
    <2>2. /\ Len(there) <= n /\ (Len(there) > 0 => offset + Len(there) <= Len(bytes))
          /\ Len(there) < n => offset + Len(there) >= Len(bytes)
      BY <1>1
    <2>3. CASE Len(there) < n
      BY <1>1, <2>1, <2>2, <2>3
    <2>4. CASE ~(Len(there) < n)
      BY <1>1, <2>1, <2>2, <2>4
    <2> QED BY <2>3, <2>4
  <1>4. ASSUME NEW k \in 0..(n - 1) \cap 0..Len(there),
               \/ r = [bytes |-> SubSeq(there, 1, k), err |-> "fault"]
               \/ where \in Lapses /\ r = [bytes |-> SubSeq(there, 1, k), err |-> "none"]
        PROVE  /\ r.bytes \in Seq(S) /\ Len(r.bytes) = k
               /\ \A i \in 1..k : r.bytes[i] = there[i]
               /\ r.err = "fault" \/ (r.err = "none" /\ where \in Lapses)
    <2>1. r.bytes = SubSeq(there, 1, k) /\ (r.err = "fault" \/ (r.err = "none" /\ where \in Lapses))
      BY <1>4
    <2>2. \A i \in 1..k : there[i] \in S
      BY <1>1, ElementOfSeq
    <2>3. /\ SubSeq(there, 1, k) \in Seq(S)
          /\ Len(SubSeq(there, 1, k)) = IF 1 <= k THEN k - 1 + 1 ELSE 0
          /\ \A i \in 1..(k - 1 + 1) : SubSeq(there, 1, k)[i] = there[1 + i - 1]
      BY <1>1, <2>2, SubSeqProperties
    <2>4. Len(SubSeq(there, 1, k)) = k /\ k - 1 + 1 = k /\ \A i \in 1..k : 1 + i - 1 = i
      BY <1>1, <2>3
    <2> QED BY <2>1, <2>3, <2>4
  <1>5. ASSUME NEW k \in 0..(n - 1) \cap 0..Len(there),
               \/ r = [bytes |-> SubSeq(there, 1, k), err |-> "fault"]
               \/ where \in Lapses /\ r = [bytes |-> SubSeq(there, 1, k), err |-> "none"]
        PROVE  /\ r.bytes \in Seq(S) /\ Len(r.bytes) \in Nat /\ Len(r.bytes) <= n
               /\ Len(r.bytes) > 0 => offset + Len(r.bytes) <= Len(bytes)
               /\ \A i \in 1..Len(r.bytes) : r.bytes[i] = bytes[offset + i]
               /\ r.err \in {"none", "EOF", "fault"} /\ r.err # "EOF"
               /\ r.err = "none" => where \in Lapses
    <2>1. /\ r.bytes \in Seq(S) /\ Len(r.bytes) = k
          /\ \A i \in 1..k : r.bytes[i] = there[i]
          /\ r.err = "fault" \/ (r.err = "none" /\ where \in Lapses)
      BY <1>4, <1>5
    <2>2. k \in Nat /\ k <= n /\ k <= Len(there) /\ (k > 0 => offset + k <= Len(bytes))
      BY <1>1
    <2>3. \A i \in 1..k : r.bytes[i] = bytes[offset + i]
      <3>1. \A i \in 1..k : i \in 1..Len(there)
        BY <1>1, <2>2
      <3> QED BY <1>1, <2>1, <3>1
    <2> QED BY <2>1, <2>2, <2>3
  <1> QED BY <1>2, <1>3, <1>5

\* A slice that is opened can be read, and its header is hidden.
LEMMA OpenFacts ==
  ASSUME SInv, ReadersAssumption, Running, ~isEmbedded, current.reader,
         NEW r \in HeaderReads, OpenError(r) = "none"
  PROVE  /\ Readable(current)
         /\ (IF HeaderSeen(r) THEN HeaderLen ELSE 0) = current.header
         /\ HeaderSeen(r) <=> current.header # 0
  <1> DEFINE there == Len(At(File(current), 0, HeaderLen))
  <1>1. /\ current.header \in Nat /\ (current.header = 0 \/ current.header \in MagicLen..HeaderLen)
        /\ Len(current.bytes) \in Nat /\ current.declared \in Nat
        /\ current.header # 0 /\ current.header < HeaderLen => Len(current.bytes) = 0
        /\ File(current) \in Seq(Byte) /\ Len(File(current)) = current.header + Len(current.bytes)
    BY FileFacts
  <1>2. /\ there \in Nat
        /\ there = IF 0 >= Len(File(current)) THEN 0
                   ELSE IF 0 + HeaderLen <= Len(File(current)) THEN HeaderLen
                   ELSE Len(File(current)) - 0
    <2>1. HeaderLen \in Nat /\ 0 \in Nat
      BY DEF HeaderLen
    <2>2. there = IF 0 >= Len(File(current)) THEN 0
                  ELSE IF 0 + HeaderLen <= Len(File(current)) THEN HeaderLen
                  ELSE Len(File(current)) - 0
      BY <1>1, <2>1, AtFacts
    <2> HIDE DEF there
    <2> QED BY <1>1, <2>1, <2>2
  <1>3. \/ r.n = there
        \/ r \in HeaderFaults /\ r.n <= there /\ r.n < HeaderLen /\ r.n \in Nat
    <2>1. \/ r = [n |-> there, err |-> IF there < HeaderLen THEN "EOF" ELSE "none"]
          \/ r \in HeaderFaults /\ r.n <= there
      BY DEF HeaderReads
    <2> HIDE DEF there
    <2> QED BY <1>2, <2>1, SourceAssumption DEF HeaderLen
  <1> HIDE DEF there
  <1>4. CASE current.header = 0
    BY <1>4 DEF Readable, HeaderSeen
  <1>5. CASE current.header # 0
    <2>1. /\ there >= MagicLen /\ (there >= HeaderLen => current.header = HeaderLen)
          /\ there \in Nat
      BY <1>1, <1>2, <1>5 DEF MagicLen, HeaderLen
    <2>2. r \in HeaderFaults => r.n >= MagicLen \/ (r.n = 0 /\ r.err = "fault")
      <3>1. chunk \in Chunks /\ k0 \in DOMAIN chunk.slices /\ current = chunk.slices[k0]
        BY Place, ChunkFacts
      <3> QED BY <1>5, <3>1 DEF ReadersAssumption
    <2>3. r.n >= MagicLen
      BY <1>3, <1>5, <2>1, <2>2 DEF OpenError, HeaderSeen, MagicLen
    <2>4. HeaderSeen(r)
      BY <1>5, <2>3 DEF HeaderSeen
    <2>5. r.n >= HeaderLen /\ current.declared >= HeaderLen
      BY <1>1, <1>3, <2>1, <2>4 DEF OpenError, HeaderLen
    <2>6. there >= HeaderLen
      BY <1>3, <2>1, <2>5 DEF HeaderLen
    <2> QED BY <1>5, <2>1, <2>4, <2>5, <2>6 DEF Readable
  <1> QED BY <1>4, <1>5

LEMMA OpenSliceKeeps ==
  ASSUME SInv, ReadersAssumption, OpenSlice
  PROVE  SInv' /\ (Stream!Next \/ UNCHANGED Stream!vars)
  <1>1. /\ pc = "read" /\ ~isEmbedded /\ want > 0 /\ ~opened /\ current.reader /\ Running
        /\ UNCHANGED <<chunk, isEmbedded, dataStart, slice, pos>>
    BY DEF OpenSlice, Opening, Running
  <1>2. PICK r \in HeaderReads :
       IF OpenError(r) # "none"
       THEN /\ base' = 0 /\ end' = MaxUint
            /\ Answer(buffer, OpenError(r))
            /\ UNCHANGED opened
       ELSE /\ base' = IF HeaderSeen(r) THEN HeaderLen ELSE 0
            /\ end' = IF HeaderSeen(r) THEN current.declared - HeaderLen ELSE MaxUint
            /\ opened' = TRUE
            /\ UNCHANGED <<pc, want, buffer, delivered, answer>>
    BY DEF OpenSlice
  <1>3. CASE OpenError(r) # "none"
    <2>1. OpenError(r) \in Errors
      BY <1>3 DEF OpenError, Errors
    <2>2. 0 \in {0, HeaderLen} /\ MaxUint \in 0..MaxUint
      BY SourceAssumption
    <2> QED BY <1>1, <1>2, <1>3, <2>1, <2>2, GivesUp
  <1>4. CASE OpenError(r) = "none"
    <2>1. /\ base' = current.header /\ Readable(current)
          /\ end' = IF current.header = 0 THEN MaxUint ELSE current.declared - HeaderLen
      BY <1>1, <1>2, <1>4, OpenFacts
    <2>2. base' \in {0, HeaderLen} /\ end' \in 0..MaxUint
      <3>1. current.declared \in Nat /\ current.declared <= MaxUint /\ MaxUint \in Nat
        BY <1>1, FileFacts, SourceAssumption
      <3> QED BY <2>1, <3>1 DEF Readable, HeaderLen
    <2>3. TypeOK /\ want + Len(buffer) > 0
      BY <1>1 DEF SInv, Calls
    <2>4. InSlices'
      <3>1. got' = got
        BY <1>2, <1>4 DEF got
      <3> QED BY <1>1, <2>1, <3>1, StayPut
    <2> QED BY <1>1, <1>2, <1>4, <2>2, <2>3, <2>4, SliceGoesOn DEF TypeOK
  <1> QED BY <1>3, <1>4

\* Reading gets past a slice at its declared end, and where its file ends.
LEMMA EndPassable ==
  ASSUME SInv, Running, ~isEmbedded, opened, NEW n \in Nat,
         n > 0 => pos + n <= Len(current.bytes),
         IF current.header = 0 THEN pos <= MaxInt ELSE pos + n >= end
  PROVE  Passable(chunk, k0)
  <1>1. /\ Readable(current)
        /\ end = IF current.header = 0 THEN MaxUint ELSE current.declared - HeaderLen
        /\ pos >= begin /\ (pos > begin => pos <= PayloadLen(current))
    BY DEF SInv, InSlices
  <1>2. /\ begin \in Nat /\ pos \in Nat /\ current = chunk.slices[k0]
    BY Place
  <1>3. /\ current.header \in Nat /\ current.declared \in Nat /\ Len(current.bytes) \in Nat
        /\ PayloadLen(current) <= Len(current.bytes) /\ MaxInt \in Nat
    BY FileFacts, SourceAssumption
  <1>4. PayloadLen(current) \in Nat
    BY <1>1, CurrentJoined
  <1>5. CASE current.header = 0
    BY <1>1, <1>2, <1>3, <1>5 DEF Passable, begin
  <1>6. CASE current.header # 0
    <2>1. current.declared - HeaderLen <= IF begin > Len(current.bytes) THEN begin ELSE Len(current.bytes)
      <3>1. end = current.declared - HeaderLen /\ end \in Nat /\ end <= pos + n
        BY <1>1, <1>3, <1>6 DEF Readable, HeaderLen
      <3>2. PICK e, p, b, m, l \in Nat :
              /\ e = end /\ p = pos /\ b = begin /\ m = Len(current.bytes) /\ l = PayloadLen(current)
        BY <1>2, <1>3, <1>4, <3>1
      <3>3. /\ e <= p + n /\ (n > 0 => p + n <= m) /\ p >= b /\ (p > b => p <= l) /\ l <= m
        BY <1>1, <1>3, <3>1, <3>2
      <3>4. e <= IF b > m THEN b ELSE m
        BY <3>3
      <3> QED BY <3>1, <3>2, <3>4
    <2> QED BY <1>1, <1>2, <1>6, <2>1 DEF Passable, begin
  <1> QED BY <1>5, <1>6

\* What holds of the slice that is open.
LEMMA OpenedFacts ==
  ASSUME SInv, Running, ~isEmbedded, opened
  PROVE  /\ Readable(current) /\ base = current.header /\ PayloadLen(current) \in Nat
         /\ Bounded <=> current.header # 0
         /\ current.header # 0 => end = current.declared - HeaderLen
         /\ end \in Nat /\ pos \in Nat /\ end <= MaxUint /\ pos <= MaxUint
         /\ PayloadLen(current) <= Len(current.bytes) /\ Len(current.bytes) \in Nat
         /\ Bounded => PayloadLen(current) = IF end <= Len(current.bytes) THEN end
                                             ELSE Len(current.bytes)
         /\ ~Bounded => PayloadLen(current) = Len(current.bytes)
         /\ delivered \in Seq(Byte) /\ buffer \in Seq(Byte) /\ got \in Seq(Byte)
         /\ chunk \in Chunks /\ end \in 0..MaxUint /\ base \in {0, HeaderLen} /\ want \in Nat
  <1>1. /\ Readable(current) /\ base = current.header
        /\ end = IF current.header = 0 THEN MaxUint ELSE current.declared - HeaderLen
    BY DEF SInv, InSlices
  <1>2. /\ end \in 0..MaxUint /\ pos \in 0..MaxUint /\ base \in {0, HeaderLen} /\ chunk \in Chunks
        /\ delivered \in Seq(Byte) /\ buffer \in Seq(Byte) /\ want \in Nat
    BY DEF SInv, TypeOK
  <1>3. MaxUint \in Nat
    BY SourceAssumption
  <1>4. /\ current.header \in Nat /\ current.declared \in Nat /\ Len(current.bytes) \in Nat
        /\ current.declared <= MaxUint /\ PayloadLen(current) <= Len(current.bytes)
    BY FileFacts
  <1>5. Bounded <=> current.header # 0
    BY <1>1, <1>3, <1>4 DEF Bounded, Readable, HeaderLen
  <1>6. /\ Bounded => PayloadLen(current) = IF end <= Len(current.bytes) THEN end
                                            ELSE Len(current.bytes)
        /\ ~Bounded => PayloadLen(current) = Len(current.bytes)
    BY <1>1, <1>5 DEF PayloadLen
  <1>7. PayloadLen(current) \in Nat /\ got \in Seq(Byte)
    BY <1>1, CurrentJoined, Place
  <1> QED BY <1>1, <1>2, <1>3, <1>4, <1>5, <1>6, <1>7

\* After bytes of the last slice that end it.
LEMMA PassEndKeeps ==
  ASSUME SInv, PassEnd
  PROVE  SInv' /\ (Stream!Next \/ UNCHANGED Stream!vars)
  <1>1. /\ pc = "read" /\ ~isEmbedded /\ want > 0 /\ opened /\ Running /\ Bounded /\ pos >= end
        /\ UNCHANGED <<chunk, isEmbedded, dataStart, base, end>>
    BY DEF PassEnd, Reading, Running
  <1>2. /\ Readable(current) /\ PayloadLen(current) \in Nat /\ current.header # 0
        /\ end \in Nat /\ pos \in Nat /\ end <= MaxUint /\ pos <= MaxUint
        /\ Len(current.bytes) \in Nat
        /\ PayloadLen(current) = IF end <= Len(current.bytes) THEN end ELSE Len(current.bytes)
        /\ delivered \in Seq(Byte) /\ buffer \in Seq(Byte) /\ got \in Seq(Byte) /\ chunk \in Chunks
        /\ end \in 0..MaxUint /\ base \in {0, HeaderLen} /\ want \in Nat
    BY <1>1, OpenedFacts
  <1>3. 0 \in Nat /\ pos + 0 >= PayloadLen(current) /\ pos + 0 >= end /\ ~(0 > 0)
    BY <1>1, <1>2
  <1>4. Passable(chunk, k0)
    BY <1>1, <1>2, <1>3, EndPassable
  <1>5. CASE slice = chunk.last
    <2>1. Answer(buffer, "EOF") /\ UNCHANGED <<slice, opened, pos>>
      BY <1>5 DEF PassEnd, AdvanceOrEnd
    <2>2. got' = got /\ "EOF" \in Ends
      BY <1>2, <2>1, AnswerType DEF got, Ends
    <2>3. InSlices' /\ Begins(delivered \o buffer, content)
      <3>1. opened => /\ Readable(current) /\ base = current.header
                      /\ end = IF current.header = 0 THEN MaxUint ELSE current.declared - HeaderLen
        BY <1>1 DEF SInv, InSlices
      <3> QED BY <1>1, <2>1, <2>2, <3>1, StayPut DEF SInv, InSlices, got
    <2>4. SInv'
      BY <1>1, <1>2, <2>1, <2>2, <2>3, SliceAnswer DEF SInv, TypeOK
    <2>5. whole /\ Len(got) + 0 = Len(content)
      BY <1>1, <1>2, <1>3, <1>4, <1>5, LastComplete
    <2>6. Len(delivered \o buffer) = Len(content)
      BY <1>2, <2>5, LenProperties DEF got
    <2>7. Stream!Next
      BY <1>1, <1>2, <2>1, <2>2, <2>3, <2>5, <2>6, AnswerReads
    <2> QED BY <2>4, <2>7
  <1>6. CASE slice # chunk.last
    <2>1. /\ slice' = slice + 1 /\ opened' = FALSE /\ buffer' = buffer /\ pos' = 0
          /\ UNCHANGED <<pc, delivered, answer, want>>
      BY <1>6 DEF PassEnd, AdvanceOrEnd, NextSlice
    <2>2. /\ got' = got \o <<>> /\ <<>> \in Seq(Byte) /\ Len(<<>>) = 0
      BY <1>2, <2>1, ConcatEmptySeq DEF got
    <2>3. /\ \A i \in 1..Len(<<>>) : <<>>[i] = current.bytes[pos + i]
          /\ ~(Len(<<>>) > 0) /\ pos + Len(<<>>) >= PayloadLen(current)
      BY <1>3, <2>2
    <2>4. InSlices'
      BY <1>1, <1>4, <1>6, <2>1, <2>2, <2>3, TurnToNext
    <2>5. want + Len(buffer) > 0 /\ 0 \in 0..MaxUint
      BY <1>1, SourceAssumption DEF SInv, Calls
    <2> QED BY <1>1, <1>2, <2>1, <2>4, <2>5, SliceGoesOn
  <1> QED BY <1>5, <1>6

LEMMA ReadSliceKeeps ==
  ASSUME SInv, ReadSlice
  PROVE  SInv' /\ (Stream!Next \/ UNCHANGED Stream!vars)
  <1>1. /\ pc = "read" /\ ~isEmbedded /\ want > 0 /\ opened /\ Running /\ (Bounded => pos < end)
        /\ UNCHANGED <<chunk, isEmbedded, dataStart, base, end>>
    BY DEF ReadSlice, Reading, Running
  <1>2. /\ Readable(current) /\ base = current.header /\ PayloadLen(current) \in Nat
        /\ Bounded <=> current.header # 0
        /\ end \in Nat /\ pos \in Nat /\ end <= MaxUint /\ pos <= MaxUint
        /\ PayloadLen(current) <= Len(current.bytes) /\ Len(current.bytes) \in Nat
        /\ Bounded => PayloadLen(current) = IF end <= Len(current.bytes) THEN end
                                            ELSE Len(current.bytes)
        /\ ~Bounded => PayloadLen(current) = Len(current.bytes)
        /\ delivered \in Seq(Byte) /\ buffer \in Seq(Byte) /\ got \in Seq(Byte) /\ chunk \in Chunks
        /\ end \in 0..MaxUint /\ base \in {0, HeaderLen} /\ want \in Nat
    BY <1>1, OpenedFacts
  <1>3. CASE base + pos > MaxInt
    <2>1. Answer(buffer, "Corrupt") /\ UNCHANGED <<pos, slice, opened>>
      BY <1>3 DEF ReadSlice
    <2> QED BY <1>1, <1>2, <2>1, GivesUp DEF Errors
  <1>4. CASE ~(base + pos > MaxInt)
    <2>1. PICK r \in ReadAt(File(current), base + pos, Request, "slices") :
            LET read == buffer \o r.bytes
                at  == pos + Len(r.bytes)
            IN  IF Len(r.bytes) = Request
                THEN /\ pos' = at /\ want' = want - Len(r.bytes) /\ buffer' = read
                     /\ UNCHANGED <<pc, slice, opened, delivered, answer>>
                ELSE IF r.err = "EOF" /\ ~Truncated(at) /\ slice # chunk.last
                THEN /\ pos' = 0 /\ want' = want - Len(r.bytes)
                     /\ AdvanceOrEnd(read)
                ELSE /\ pos' = at
                     /\ Answer(read, IF r.err = "none" THEN "NoProgress"
                                     ELSE IF r.err = "EOF" /\ Truncated(at) THEN "UnexpectedEOF"
                                     ELSE r.err)
                     /\ UNCHANGED <<slice, opened>>
      BY <1>4 DEF ReadSlice
    <2> DEFINE b == r.bytes
    <2>2. /\ Request \in Nat /\ Request > 0 /\ Request <= want
          /\ Bounded => Request <= end - pos
      BY <1>1, <1>2 DEF Request
    <2>3. /\ File(current) \in Seq(Byte) /\ current.header \in Nat
          /\ Len(File(current)) = current.header + Len(current.bytes)
          /\ \A i \in 1..Len(current.bytes) : File(current)[current.header + i] = current.bytes[i]
      BY <1>1, FileFacts
    <2>4. /\ b \in Seq(Byte) /\ Len(b) \in Nat /\ Len(b) <= Request
          /\ Len(b) > 0 => (base + pos) + Len(b) <= Len(File(current))
          /\ \A i \in 1..Len(b) : b[i] = File(current)[(base + pos) + i]
          /\ r.err \in {"none", "EOF", "fault"}
          /\ r.err = "EOF" => (base + pos) + Len(b) >= Len(File(current)) /\ Len(b) < Request
      <3>1. base \in Nat /\ pos \in Nat
        BY <1>2, <2>3
      <3>2. base + pos \in Nat
        BY <3>1
      <3> QED BY <2>2, <2>3, <3>2, ReadAtFacts
    <2> HIDE DEF b
    <2>5. /\ Len(b) > 0 => pos + Len(b) <= Len(current.bytes)
          /\ r.err = "EOF" => pos + Len(b) >= Len(current.bytes)
      <3>1. PICK h, p, m, n \in Nat : /\ h = base /\ h = current.header /\ p = pos
                                      /\ m = Len(current.bytes) /\ n = Len(b)
        BY <1>2, <2>3, <2>4
      <3>2. Len(File(current)) = h + m
        BY <2>3, <3>1
      <3>3. /\ n > 0 => (h + p) + n <= h + m
            /\ r.err = "EOF" => (h + p) + n >= h + m
        BY <2>4, <3>1, <3>2
      <3>4. /\ n > 0 => p + n <= m
            /\ r.err = "EOF" => p + n >= m
        BY <3>3
      <3> QED BY <3>1, <3>4
    <2>6. Len(b) > 0 => pos + Len(b) <= PayloadLen(current)
      <3>1. Bounded => pos + Len(b) <= end
        BY <1>2, <2>2, <2>4
      <3> QED BY <1>2, <2>4, <2>5, <3>1
    <2>7. ASSUME NEW i \in 1..Len(b) PROVE b[i] = current.bytes[pos + i]
      <3>1. pos + i \in 1..Len(current.bytes) /\ (base + pos) + i = current.header + (pos + i)
        <4>1. PICK h, p, m, n \in Nat : /\ h = base /\ h = current.header /\ p = pos
                                        /\ m = Len(current.bytes) /\ n = Len(b)
          BY <1>2, <2>3, <2>4
        <4>2. i \in 1..n /\ (n > 0 => p + n <= m)
          BY <2>5, <4>1
        <4>3. p + i \in 1..m /\ (h + p) + i = h + (p + i)
          BY <4>2
        <4> QED BY <4>1, <4>3
      <3> QED BY <2>3, <2>4, <3>1
    <2>8. /\ (delivered \o buffer) \o b = delivered \o (buffer \o b) /\ buffer \o b \in Seq(Byte)
          /\ Len(buffer \o b) = Len(buffer) + Len(b) /\ Len(buffer) \in Nat
      <3>1. delivered \in Seq(Byte) /\ buffer \in Seq(Byte) /\ b \in Seq(Byte)
        BY <1>2, <2>4
      <3>2. (delivered \o buffer) \o b = delivered \o (buffer \o b)
        BY <3>1, ConcatAssociative
      <3>3. /\ buffer \o b \in Seq(Byte) /\ Len(buffer) \in Nat
            /\ Len(buffer \o b) = Len(buffer) + Len(b)
        BY <3>1, ConcatFacts
      <3> QED BY <3>2, <3>3
    <2>9. r.err = "EOF" => pos + Len(b) >= PayloadLen(current)
      BY <1>2, <2>4, <2>5
    <2>10. r.err = "EOF" /\ ~Truncated(pos + Len(b)) => Passable(chunk, k0)
      <3> SUFFICES ASSUME r.err = "EOF", ~Truncated(pos + Len(b)) PROVE Passable(chunk, k0)
        OBVIOUS
      <3>1. current.header = 0 => pos <= MaxInt
        BY <1>2, <1>4, SourceAssumption
      <3>2. current.header # 0 => pos + Len(b) >= end
        BY <1>2, <2>4 DEF Truncated
      <3> QED BY <1>1, <2>4, <2>5, <3>1, <3>2, EndPassable
    <2>11. want + Len(buffer) > 0 /\ 0 \in 0..MaxUint
      BY <1>1, SourceAssumption DEF SInv, Calls
    <2>12. CASE Len(b) = Request
      <3>1. /\ pos' = pos + Len(b) /\ want' = want - Len(b) /\ buffer' = buffer \o b
            /\ UNCHANGED <<pc, slice, opened, delivered, answer>>
        BY <2>1, <2>12 DEF b
      <3>2. got' = got \o b
        BY <2>8, <3>1 DEF got
      <3>3. InSlices' /\ pos' \in 0..MaxUint
        BY <1>1, <2>4, <2>6, <2>7, <3>1, <3>2, StayInSlice
      <3>4. want' \in Nat /\ want' + Len(buffer') > 0 /\ buffer' \in Seq(Byte)
        BY <1>2, <2>2, <2>4, <2>8, <2>11, <3>1
      <3> QED BY <1>1, <1>2, <3>1, <3>3, <3>4, SliceGoesOn
    <2>13. CASE Len(b) # Request /\ r.err = "EOF" /\ ~Truncated(pos + Len(b)) /\ slice # chunk.last
      <3>1. /\ pos' = 0 /\ want' = want - Len(b) /\ AdvanceOrEnd(buffer \o b)
        BY <2>1, <2>13 DEF b
      <3>2. /\ slice' = slice + 1 /\ ~opened' /\ opened' \in BOOLEAN /\ buffer' = buffer \o b
            /\ UNCHANGED <<pc, delivered, answer>>
        BY <2>13, <3>1 DEF AdvanceOrEnd, NextSlice
      <3>3. got' = got \o b
        BY <2>8, <3>2 DEF got
      <3>4. InSlices'
        BY <1>1, <2>4, <2>6, <2>7, <2>9, <2>10, <2>13, <3>1, <3>2, <3>3, TurnToNext
      <3>5. want' \in Nat /\ want' + Len(buffer') > 0 /\ buffer' \in Seq(Byte)
        BY <1>2, <2>2, <2>4, <2>8, <2>11, <3>1, <3>2
      <3> QED BY <1>1, <1>2, <2>11, <3>1, <3>2, <3>4, <3>5, SliceGoesOn
    <2>14. CASE /\ Len(b) # Request
                /\ ~(r.err = "EOF" /\ ~Truncated(pos + Len(b)) /\ slice # chunk.last)
      <3> DEFINE e == IF r.err = "none" THEN "NoProgress"
                      ELSE IF r.err = "EOF" /\ Truncated(pos + Len(b)) THEN "UnexpectedEOF"
                      ELSE r.err
      <3>1. pos' = pos + Len(b) /\ Answer(buffer \o b, e) /\ UNCHANGED <<slice, opened>>
        BY <2>1, <2>14 DEF b
      <3>2. e \in Ends /\ e # "none"
        BY <2>4 DEF Ends, Errors
      <3>3. e = "EOF" => r.err = "EOF" /\ ~Truncated(pos + Len(b)) /\ slice = chunk.last
        BY <2>14
      <3> HIDE DEF e
      <3>4. got' = got \o b
        BY <1>2, <2>8, <3>1, <3>2, AnswerType DEF got
      <3>5. InSlices' /\ Begins(got', content) /\ pos' \in 0..MaxUint
        BY <1>1, <2>4, <2>6, <2>7, <3>1, <3>4, StayInSlice
      <3>6. Begins(delivered \o (buffer \o b), content)
        BY <2>8, <3>4, <3>5 DEF got
      <3>7. SInv'
        BY <1>1, <1>2, <2>8, <3>1, <3>2, <3>5, SliceAnswer
      <3>8. e = "EOF" => whole /\ Len(delivered \o (buffer \o b)) = Len(content)
        <4> SUFFICES ASSUME e = "EOF"
                     PROVE  whole /\ Len(delivered \o (buffer \o b)) = Len(content)
          OBVIOUS
        <4>1. whole /\ Len(got) + Len(b) = Len(content)
          BY <1>1, <1>2, <2>4, <2>6, <2>9, <2>10, <3>3, LastComplete
        <4>2. Len(got \o b) = Len(got) + Len(b)
          BY <1>2, <2>4, ConcatFacts
        <4> QED BY <2>8, <4>1, <4>2 DEF got
      <3>9. Stream!Next
        BY <1>1, <1>2, <2>8, <3>1, <3>2, <3>6, <3>8, AnswerReads
      <3> QED BY <3>7, <3>9
    <2> QED BY <2>12, <2>13, <2>14
  <1> QED BY <1>3, <1>4

LEMMA ReadEmbeddedKeeps ==
  ASSUME SInv, ReadersAssumption, ReadEmbedded
  PROVE  SInv' /\ Stream!Next
  <1>1. /\ pc = "read" /\ isEmbedded /\ Running /\ UNCHANGED <<chunk, source>>
    BY DEF ReadEmbedded, Running
  <1>2. /\ TypeOK /\ chunk \in Chunks /\ delivered \in Seq(Byte) /\ pos \in 0..MaxUint /\ want \in Nat
        /\ dataStart = chunk.dataOffset + chunk.offset /\ pos = Len(delivered)
        /\ buffer = <<>> /\ Begins(delivered, content) /\ want + Len(buffer) > 0
        /\ NewError(chunk) = "none" /\ isEmbedded = ~External(chunk) /\ ~External(chunk)
    BY <1>1 DEF SInv, TypeOK, InExecutable, Calls
  <1>3. /\ chunk.offset \in Nat /\ chunk.dataOffset \in Nat /\ chunk.embedded \in Seq(Byte)
        /\ Len(chunk.embedded) \in Nat /\ chunk.dataOffset + Len(chunk.embedded) <= MaxInt
        /\ MaxInt \in Nat /\ MaxUint \in Nat /\ MaxInt < MaxUint
    BY <1>2, ChunkFacts
  <1>4. want > 0 /\ pos \in Nat /\ <<>> \in Seq(Byte) /\ Len(<<>>) = 0
    BY <1>2, <1>3
  <1>5. ASSUME NEW b \in Seq(Byte), NEW e \in Ends, Answer(b, e), pos' = pos + Len(b),
               pos' \in 0..MaxUint, Len(b) > 0 \/ e # "none", Begins(delivered \o b, content),
               e = "EOF" => Len(delivered \o b) = Len(content)
        PROVE  SInv' /\ Stream!Next
    <2>1. /\ delivered' = delivered \o b /\ delivered' \in Seq(Byte)
          /\ buffer' = <<>> /\ buffer' \in Seq(Byte) /\ want' = 0 /\ pc' = "idle"
          /\ answer' \in [n: Nat, err: Errors \cup {"none", "EOF"}]
      BY <1>2, <1>5, AnswerType
    <2>2. Len(delivered') = Len(delivered) + Len(b)
      BY <1>2, <2>1, ConcatFacts
    <2>3. TypeOK'
      BY <1>1, <1>2, <1>5, <2>1 DEF TypeOK, source
    <2>4. Calls'
      BY <1>1, <1>2, <2>1, ChunkFixed DEF Calls, source
    <2>5. InExecutable'
      BY <1>1, <1>2, <1>5, <2>1, <2>2, ChunkFixed DEF InExecutable, source
    <2>6. InSlices'
      BY <1>1 DEF InSlices, source
    <2>7. whole
      BY <1>2 DEF whole
    <2>8. Stream!Next
      BY <1>1, <1>2, <1>5, <2>7, AnswerReads
    <2> QED BY <2>3, <2>4, <2>5, <2>6, <2>8 DEF SInv
  <1>6. CASE pos > MaxUint - dataStart \/ dataStart + pos > MaxInt
    <2>1. Answer(<<>>, "Corrupt") /\ pos' = pos
      BY <1>6 DEF ReadEmbedded
    <2>2. pos' = pos + Len(<<>>) /\ delivered \o <<>> = delivered /\ "Corrupt" \in Ends
      BY <1>2, <1>4, <2>1, ConcatEmptySeq DEF Ends, Errors
    <2> QED BY <1>2, <1>4, <1>5, <2>1, <2>2
  <1>7. CASE ~(pos > MaxUint - dataStart \/ dataStart + pos > MaxInt)
    <2>1. PICK r \in ReadAt(chunk.embedded, dataStart + pos - chunk.dataOffset, want, "embedded") :
            /\ pos' = pos + Len(r.bytes)
            /\ Answer(r.bytes, IF Len(r.bytes) = want THEN "none"
                               ELSE IF r.err = "none" THEN "EOF" ELSE r.err)
      BY <1>7 DEF ReadEmbedded
    <2> DEFINE b == r.bytes
               e == IF Len(r.bytes) = want THEN "none"
                    ELSE IF r.err = "none" THEN "EOF" ELSE r.err
    <2>2. dataStart + pos - chunk.dataOffset = chunk.offset + pos /\ chunk.offset + pos \in Nat
      <3>1. PICK o, p, d \in Nat : o = chunk.offset /\ p = pos /\ d = chunk.dataOffset
        BY <1>3, <1>4
      <3>2. dataStart = d + o
        BY <1>2, <3>1
      <3>3. (d + o) + p - d = o + p /\ o + p \in Nat
        OBVIOUS
      <3> QED BY <3>1, <3>2, <3>3
    <2>3. /\ b \in Seq(Byte) /\ Len(b) \in Nat /\ Len(b) <= want
          /\ Len(b) > 0 => (chunk.offset + pos) + Len(b) <= Len(chunk.embedded)
          /\ \A i \in 1..Len(b) : b[i] = chunk.embedded[(chunk.offset + pos) + i]
          /\ r.err \in {"none", "EOF", "fault"}
          /\ r.err = "EOF" => (chunk.offset + pos) + Len(b) >= Len(chunk.embedded) /\ Len(b) < want
          /\ r.err = "none" => Len(b) = want
      <3>1. "embedded" \notin Lapses
        BY DEF ReadersAssumption
      <3>2. r \in ReadAt(chunk.embedded, chunk.offset + pos, want, "embedded")
        BY <2>1, <2>2
      <3>3. chunk.embedded \in Seq(Byte) /\ chunk.offset + pos \in Nat /\ want \in Nat
        BY <1>2, <1>3, <2>2
      <3> HIDE DEF b
      <3>4. /\ r.bytes \in Seq(Byte) /\ Len(r.bytes) \in Nat /\ Len(r.bytes) <= want
            /\ Len(r.bytes) > 0 => (chunk.offset + pos) + Len(r.bytes) <= Len(chunk.embedded)
            /\ \A i \in 1..Len(r.bytes) : r.bytes[i] = chunk.embedded[(chunk.offset + pos) + i]
            /\ r.err \in {"none", "EOF", "fault"}
            /\ r.err = "EOF" => (chunk.offset + pos) + Len(r.bytes) >= Len(chunk.embedded)
                                /\ Len(r.bytes) < want
            /\ r.err = "none" /\ "embedded" \notin Lapses => Len(r.bytes) = want
        BY ONLY <3>2, <3>3, ReadAtFacts
      <3> QED BY <3>1, <3>4 DEF b
    <2>4. e \in Ends /\ (Len(b) > 0 \/ e # "none") /\ (e = "EOF" => r.err = "EOF")
      BY <1>4, <2>3 DEF Ends, Errors
    <2>5. Answer(b, e) /\ pos' = pos + Len(b)
      BY <2>1
    <2> HIDE DEF b, e
    <2>6. /\ content \in Seq(Byte) /\ Len(content) \in Nat
          /\ Len(content) = IF chunk.offset >= Len(chunk.embedded) THEN 0
                            ELSE IF chunk.offset + Len(chunk.embedded) <= Len(chunk.embedded)
                                 THEN Len(chunk.embedded)
                            ELSE Len(chunk.embedded) - chunk.offset
          /\ \A i \in 1..Len(content) : content[i] = chunk.embedded[chunk.offset + i]
      <3> DEFINE there == At(chunk.embedded, chunk.offset, Len(chunk.embedded))
      <3>1. content = there
        BY <1>2 DEF content
      <3>2. content \in Seq(Byte) /\ Len(content) \in Nat
        BY <1>2, ContentType
      <3>3. /\ Len(there) = IF chunk.offset >= Len(chunk.embedded) THEN 0
                            ELSE IF chunk.offset + Len(chunk.embedded) <= Len(chunk.embedded)
                                 THEN Len(chunk.embedded)
                            ELSE Len(chunk.embedded) - chunk.offset
            /\ \A i \in 1..Len(there) : there[i] = chunk.embedded[chunk.offset + i]
        <4>1. chunk.embedded \in Seq(Byte) /\ chunk.offset \in Nat /\ Len(chunk.embedded) \in Nat
          BY <1>3
        <4>2. \A x \in Seq(Byte), o, n \in Nat :
                /\ Len(At(x, o, n)) = IF o >= Len(x) THEN 0 ELSE IF o + n <= Len(x) THEN n ELSE Len(x) - o
                /\ \A i \in 1..Len(At(x, o, n)) : At(x, o, n)[i] = x[o + i]
          BY AtFacts
        <4> QED BY <4>1, <4>2, Zenon
      <3> HIDE DEF there
      <3> QED BY <3>1, <3>2, <3>3
    <2>7. Len(delivered) + Len(b) <= Len(content) /\ pos' \in 0..MaxUint
      <3>1. PICK o, p, m, n, c \in Nat : /\ o = chunk.offset /\ p = pos /\ p = Len(delivered)
                                         /\ m = Len(chunk.embedded) /\ n = Len(b) /\ c = Len(content)
        BY <1>2, <1>3, <1>4, <2>3, <2>6
      <3>2. /\ c = IF o >= m THEN 0 ELSE IF o + m <= m THEN m ELSE m - o
            /\ p <= c /\ (n > 0 => (o + p) + n <= m) /\ m <= MaxInt /\ p <= MaxUint
        BY <1>2, <1>3, <2>3, <2>6, <3>1 DEF Begins
      <3>3. p + n <= c /\ p + n <= MaxUint
        BY <1>3, <3>2
      <3> QED BY <2>5, <3>1, <3>3
    <2>8. ASSUME NEW i \in 1..Len(b) PROVE content[Len(delivered) + i] = b[i]
      <3>1. PICK o, p, n, c \in Nat :
              o = chunk.offset /\ p = pos /\ p = Len(delivered) /\ n = Len(b) /\ c = Len(content)
        BY <1>2, <1>3, <1>4, <2>3, <2>6
      <3>2. p + n <= c /\ i \in 1..n
        BY <2>7, <3>1
      <3>3. p + i \in 1..c /\ (o + p) + i = o + (p + i)
        BY <3>2
      <3>4. content[p + i] = chunk.embedded[o + (p + i)]
        BY <2>6, <3>1, <3>3
      <3>5. b[i] = chunk.embedded[(o + p) + i]
        BY <2>3, <3>1
      <3> QED BY <3>1, <3>3, <3>4, <3>5
    <2>9. Begins(delivered \o b, content)
      BY <1>2, <2>3, <2>6, <2>7, <2>8, BeginsMore
    <2>10. e = "EOF" => Len(delivered \o b) = Len(content)
      <3> SUFFICES ASSUME e = "EOF" PROVE Len(delivered \o b) = Len(content)
        OBVIOUS
      <3>1. (chunk.offset + pos) + Len(b) >= Len(chunk.embedded)
        BY <2>3, <2>4
      <3>2. Len(delivered) + Len(b) >= Len(content)
        <4>1. PICK o, p, m, n, c \in Nat : /\ o = chunk.offset /\ p = pos /\ p = Len(delivered)
                                           /\ m = Len(chunk.embedded) /\ n = Len(b) /\ c = Len(content)
          BY <1>2, <1>3, <1>4, <2>3, <2>6
        <4>2. /\ c = IF o >= m THEN 0 ELSE IF o + m <= m THEN m ELSE m - o
              /\ (o + p) + n >= m
          BY <2>6, <3>1, <4>1
        <4>3. p + n >= c
          BY <4>2
        <4> QED BY <4>1, <4>3
      <3>3. Len(delivered \o b) = Len(delivered) + Len(b) /\ Len(delivered) \in Nat
        BY <1>2, <2>3, ConcatFacts
      <3>4. PICK l, n, c \in Nat : l = Len(delivered) /\ n = Len(b) /\ c = Len(content)
        BY <2>3, <2>6, <3>3
      <3>5. l + n >= c /\ l + n <= c
        BY <2>7, <3>2, <3>4
      <3>6. l + n = c
        BY <3>5
      <3> QED BY <3>3, <3>4, <3>6
    <2> QED BY <1>5, <2>3, <2>4, <2>5, <2>7, <2>9, <2>10
  <1> QED BY <1>6, <1>7

LEMMA NothingKeeps ==
  ASSUME SInv, UNCHANGED vars
  PROVE  SInv' /\ UNCHANGED Stream!vars
  <1>1. UNCHANGED <<chunk, pc, isEmbedded, dataStart, slice, base, end, opened, pos, want, buffer,
                    delivered, answer>>
    BY DEF vars, source
  <1>2. TypeOK'
    BY <1>1 DEF SInv, TypeOK
  <1>3. Calls'
    BY <1>1, ChunkFixed DEF SInv, Calls, Running
  <1>4. InExecutable'
    BY <1>1, ChunkFixed DEF SInv, InExecutable, Running
  <1>5. InSlices'
    <2>1. CASE Running /\ ~isEmbedded
      <3>1. got' = got
        BY <1>1 DEF got
      <3>2. opened => /\ Readable(current) /\ base = current.header
                      /\ end = IF current.header = 0 THEN MaxUint ELSE current.declared - HeaderLen
        BY <2>1 DEF SInv, InSlices
      <3> QED BY <1>1, <2>1, <3>1, <3>2, StayPut
    <2>2. CASE ~(Running /\ ~isEmbedded)
      BY <1>1, <2>2 DEF InSlices, Running
    <2> QED BY <2>1, <2>2
  <1> QED BY <1>1, <1>2, <1>3, <1>4, <1>5, ChunkFixed DEF SInv, Stream!vars

LEMMA InitKeeps ==
  ASSUME Init
  PROVE  SInv /\ Stream!Init
  <1>1. MaxUint \in Nat /\ <<>> \in Seq(Byte) /\ [n |-> 0, err |-> "none"] \in [n: Nat, err: Errors \cup {"none", "EOF"}]
    BY SourceAssumption
  <1>2. TypeOK
    <2>1. 0 \in 0..MaxUint /\ MaxUint \in 0..MaxUint
      BY <1>1
    <2>2. buffer \in Seq(Byte) /\ delivered \in Seq(Byte) /\ chunk \in Chunks
          /\ answer \in [n: Nat, err: Errors \cup {"none", "EOF"}]
      BY <1>1 DEF Init
    <2> QED BY <2>1, <2>2 DEF Init, TypeOK
  <1> QED BY <1>1, <1>2 DEF Init, SInv, Calls, InExecutable, InSlices, Running, Stream!Init

LEMMA NextKeeps ==
  ASSUME ReadersAssumption, SInv, [Next]_vars
  PROVE  SInv' /\ (Stream!Next \/ UNCHANGED Stream!vars)
  <1>1. CASE New
    BY <1>1, NewKeeps
  <1>2. CASE Refuse
    BY <1>2, RefuseKeeps
  <1>3. ASSUME NEW n \in Wants, Start(n) PROVE SInv' /\ UNCHANGED Stream!vars
    BY <1>3, StartKeeps
  <1>4. CASE ReadEmbedded
    BY <1>4, ReadEmbeddedKeeps
  <1>5. CASE Filled
    BY <1>5, FilledKeeps
  <1>6. CASE OpenMissing
    BY <1>6, OpenMissingKeeps
  <1>7. CASE OpenSlice
    BY <1>7, OpenSliceKeeps
  <1>8. CASE PassEnd
    BY <1>8, PassEndKeeps
  <1>9. CASE ReadSlice
    BY <1>9, ReadSliceKeeps
  <1>10. CASE UNCHANGED vars
    BY <1>10, NothingKeeps
  <1> QED BY <1>1, <1>2, <1>3, <1>4, <1>5, <1>6, <1>7, <1>8, <1>9, <1>10 DEF Next, Iteration, Refused

-----------------------------------------------------------------------------
(* The theorems.                                                           *)

LEMMA SourceInvariant ==
  ASSUME ReadersAssumption
  PROVE  Spec => []SInv
  <1>1. Init => SInv
    BY InitKeeps
  <1>2. SInv /\ [Next]_vars => SInv'
    BY NextKeeps
  <1> QED BY <1>1, <1>2, PTL DEF Spec

\* The variables of a source keep their types: the position stays within a
\* uint64, and the slice it reads within those of the chunk.
THEOREM SourceTypes ==
  ASSUME ReadersAssumption
  PROVE  Spec => []TypeOK
  <1>1. SInv => TypeOK
    BY DEF SInv
  <1> QED BY <1>1, SourceInvariant, PTL

\* sliceSource is the io.Reader it claims to be: it returns the bytes of its
\* chunk in order, each once, over slice borders, errors and retries, and says
\* io.EOF at their end only.
THEOREM StreamsContent ==
  ASSUME ReadersAssumption
  PROVE  Spec => StreamSpec
  <1>1. Init => Stream!Init
    BY InitKeeps
  <1>2. SInv /\ [Next]_vars => [Stream!Next]_(Stream!vars)
    BY NextKeeps
  <1> QED BY <1>1, <1>2, SourceInvariant, PTL DEF Spec, StreamSpec, Stream!Spec

\* A slice is asked for when every byte before it has been read, and not
\* before: its owner may fetch it when it is asked for.
THEOREM AsksLate ==
  ASSUME ReadersAssumption
  PROVE  Spec => AskedWhenNeeded
  <1> DEFINE Late == LET k == slice - chunk.first
                     IN  /\ External(chunk) /\ k \in 0..(Len(chunk.slices) - 1)
                         /\ \A j \in 1..k : Passable(chunk, j)
                         /\ delivered \o buffer = Joined(chunk)[k]
  <1>1. SInv /\ Asks => Late
    <2> SUFFICES ASSUME SInv, Asks PROVE Late
      OBVIOUS
    <2>1. pc = "read" /\ ~isEmbedded /\ ~opened /\ Running
      BY DEF Asks, OpenMissing, OpenSlice, Opening, Running
    <2>2. /\ chunk \in Chunks /\ External(chunk) /\ k0 \in 1..Len(chunk.slices)
          /\ chunk.first \in Nat /\ slice \in Nat /\ begin \in Nat
          /\ got \in Seq(Byte) /\ content \in Seq(Byte) /\ Joined(chunk)[k0 - 1] \in Seq(Byte)
          /\ Len(Joined(chunk)[k0 - 1]) \in Nat /\ Len(chunk.slices) \in Nat
      BY <2>1, Place, ChunkFacts
    <2>3. /\ \A j \in 1..(k0 - 1) : Passable(chunk, j)
          /\ Len(got) = Len(Joined(chunk)[k0 - 1]) + (pos - begin) /\ pos = begin
          /\ Begins(got, content)
      BY <2>1 DEF SInv, InSlices
    <2>4. k0 - 1 = slice - chunk.first /\ k0 - 1 \in 0..(Len(chunk.slices) - 1)
      <3>1. k0 = slice - chunk.first + 1 /\ slice - chunk.first \in Int
        BY <2>2 DEF k0
      <3>2. PICK d \in Int : d = slice - chunk.first
        BY <3>1
      <3>6. PICK l \in Nat : l = Len(chunk.slices)
        BY <2>2
      <3>7. k0 \in 1..l
        BY <2>2, <3>6
      <3>3. PICK k \in 1..l : k = k0
        BY <3>7
      <3>4. k = d + 1 /\ k \in 1..l
        BY <3>1, <3>2, <3>3
      <3>5. k - 1 = d /\ k - 1 \in 0..(l - 1)
        BY <3>4
      <3> QED BY <3>2, <3>3, <3>5, <3>6
    <2>5. Begins(Joined(chunk)[k0 - 1], content)
      <3>1. k0 - 1 \in 0..Len(chunk.slices) /\ Len(chunk.slices) \in (k0 - 1)..Len(chunk.slices)
        BY <2>2
      <3> QED BY <2>2, <3>1, JoinedBegins DEF content
    <2>6. Len(got) = Len(Joined(chunk)[k0 - 1])
      BY <2>2, <2>3
    <2>7. got = Joined(chunk)[k0 - 1]
      BY <2>2, <2>3, <2>5, <2>6, BeginsEqual
    <2> QED BY <2>2, <2>3, <2>4, <2>7 DEF got
  <1>2. SInv => [Asks => Late]_vars
    BY <1>1
  <1> QED BY <1>2, SourceInvariant, PTL DEF AskedWhenNeeded

=============================================================================
