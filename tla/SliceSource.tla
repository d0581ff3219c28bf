---------------------------- MODULE SliceSource ----------------------------
(***************************************************************************)
(* sliceSource (internal/stream/slice.go): the bytes of one chunk as an    *)
(* io.Reader, taken from the setup executable or, when the data is kept    *)
(* outside it, from a run of slices that a callback supplies one by one.   *)
(*                                                                         *)
(* An action is one iteration of the loop of Read, with the one call it    *)
(* makes to the callback or to a ReaderAt; the environment decides how     *)
(* that call ends.  The consumer may read again after any answer, errors   *)
(* included.                                                               *)
(***************************************************************************)
EXTENDS Integers, Sequences

CONSTANTS
  Chunks,        \* the chunks a source is made for, with what holds their bytes
  Wants,         \* the buffer lengths Read is called with
  HeaderFaults,  \* how reading a header may go wrong: bytes read, error or none
  Lapses,        \* where a ReaderAt may come up short without an error
  ProviderFails, \* the callback may fail and be asked for the same slice again
  MaxInt,        \* math.MaxInt64
  MaxUint        \* math.MaxUint64

HeaderLen == 12
MagicLen == 8

Byte == {"header", "data"} \X Nat \X Nat

\* A slice as its ReaderAt shows it: the bytes of a header there are (0 for a
\* raw slice), how many bytes the header declares in all, and what follows it.
\* Without a reader the callback reports an error whenever it is asked.
Slice == [reader: BOOLEAN, header: {0} \cup MagicLen..HeaderLen, declared: Nat, bytes: Seq(Byte)]

\* embedded is the executable from DataOffset on; it is what is read whenever
\* DataOffset is not zero.
Chunk == [first: Nat, last: Nat, offset: 0..MaxUint, dataOffset: 0..MaxUint,
          baseFilename: BOOLEAN, provider: BOOLEAN,
          slices: Seq(Slice), embedded: Seq(Byte)]

Errors == {"MissingSlice", "Corrupt", "UnexpectedEOF", "NoProgress", "fault"}

\* Only the end of its file cuts a header short, its size is a uint32, and a
\* file has no more bytes than an int64 can count.
RealSlice(s) ==
  /\ s.header # 0 /\ s.header < HeaderLen => s.bytes = <<>>
  /\ s.declared <= MaxUint
  /\ s.header + Len(s.bytes) <= MaxInt

ASSUME SourceAssumption ==
  /\ Chunks \subseteq Chunk
  /\ \A c \in Chunks : c.first <= c.last => Len(c.slices) = c.last - c.first + 1
  /\ \A c \in Chunks : \A k \in DOMAIN c.slices : RealSlice(c.slices[k])
  /\ \A c \in Chunks : c.dataOffset + Len(c.embedded) <= MaxInt
  /\ Wants \subseteq Nat \ {0}
  /\ HeaderFaults \subseteq [n: 0..(HeaderLen - 1), err: {"fault", "none"}]
  /\ Lapses \subseteq {"embedded", "slices"} /\ ProviderFails \in BOOLEAN
  /\ MaxInt \in Nat /\ MaxUint \in Nat /\ MaxInt < MaxUint

VARIABLES
  chunk,             \* the argument
  pc,                \* "new", "idle", "read" or "refused"
  isEmbedded, dataStart, slice, pos, base, end, opened,   \* the fields of sliceSource
  want,              \* len(p): what the call of Read still has to fill
  buffer,            \* what it has filled
  delivered, answer  \* what the calls so far have returned

source == <<isEmbedded, dataStart, slice, base, end, opened>>
vars == <<chunk, pc, source, pos, want, buffer, delivered, answer>>

TypeOK ==
  /\ chunk \in Chunks /\ pc \in {"new", "idle", "read", "refused"}
  /\ isEmbedded \in BOOLEAN /\ dataStart \in 0..MaxUint
  /\ slice \in Nat /\ pos \in 0..MaxUint
  /\ base \in {0, HeaderLen} /\ end \in 0..MaxUint /\ opened \in BOOLEAN
  /\ want \in Nat /\ buffer \in Seq(Byte) /\ delivered \in Seq(Byte)
  /\ answer \in [n: Nat, err: Errors \cup {"none", "EOF"}]
  /\ pc = "read" /\ ~isEmbedded => slice \in chunk.first..chunk.last

\* newSliceSourceWithProvider, and newSliceSource for what it hands on.
External(c) == c.provider /\ c.dataOffset = 0
NewErrorUnordered(c) == IF External(c) THEN "none"    \* mutant: the range is not looked at
                        ELSE IF c.dataOffset = 0 /\ c.baseFilename THEN "MissingSlice" ELSE "none"
NewError(c) ==
  IF c.first > c.last THEN "Corrupt"
  ELSE IF External(c) THEN "none"
  ELSE IF c.dataOffset = 0 /\ c.baseFilename THEN "MissingSlice"
  ELSE IF c.offset > MaxUint - c.dataOffset THEN "Corrupt"
  ELSE "none"

Init ==
  /\ chunk \in Chunks
  /\ pc = "new"
  /\ isEmbedded = FALSE /\ dataStart = 0
  /\ slice = 0 /\ pos = 0 /\ base = 0 /\ end = MaxUint /\ opened = FALSE
  /\ want = 0 /\ buffer = <<>>
  /\ delivered = <<>> /\ answer = [n |-> 0, err |-> "none"]

New ==
  /\ pc = "new"
  /\ NewError(chunk) = "none"
  /\ isEmbedded' = ~External(chunk)
  /\ dataStart' = IF External(chunk) THEN 0 ELSE chunk.dataOffset + chunk.offset
  /\ pos' = IF External(chunk) THEN chunk.offset ELSE 0
  /\ slice' = chunk.first
  /\ pc' = "idle"
  /\ UNCHANGED <<chunk, base, end, opened, want, buffer, delivered, answer>>

Refuse ==
  /\ pc = "new"
  /\ NewError(chunk) # "none"
  /\ answer' = [n |-> 0, err |-> NewError(chunk)]
  /\ pc' = "refused"
  /\ UNCHANGED <<chunk, source, pos, want, buffer, delivered>>

-----------------------------------------------------------------------------
(* ReaderAt.                                                               *)

\* The bytes of a file from an offset on, at most n of them.
At(bytes, offset, n) ==
  IF offset >= Len(bytes) THEN <<>>
  ELSE SubSeq(bytes, offset + 1, IF offset + n <= Len(bytes) THEN offset + n ELSE Len(bytes))

\* A read is complete, or short because the file ends, or it fails after any
\* of the bytes, or it stops short of them and says nothing.
ReadAt(bytes, offset, n, where) ==
  LET there == At(bytes, offset, n)
  IN  {[bytes |-> there, err |-> IF Len(there) < n THEN "EOF" ELSE "none"]}
        \cup {[bytes |-> SubSeq(there, 1, k), err |-> "fault"] : k \in 0..(n - 1) \cap 0..Len(there)}
        \cup {[bytes |-> SubSeq(there, 1, k), err |-> "none"] :
                k \in IF where \in Lapses THEN 0..(n - 1) \cap 0..Len(there) ELSE {}}

current == chunk.slices[slice - chunk.first + 1]
File(s) == [k \in 1..s.header |-> <<"header", slice, k>>] \o s.bytes

-----------------------------------------------------------------------------
(* Read.                                                                   *)

Start(n) ==
  /\ pc = "idle"
  /\ want' = n /\ buffer' = <<>>
  /\ pc' = "read"
  /\ UNCHANGED <<chunk, source, pos, delivered, answer>>

\* The call returns what it has and an error, or none.
Answer(bytes, err) ==
  /\ answer' = [n |-> Len(bytes), err |-> err]
  /\ delivered' = delivered \o bytes
  /\ buffer' = <<>> /\ want' = 0
  /\ pc' = "idle"

\* The executable is read in one call.
ReadEmbedded ==
  /\ pc = "read" /\ isEmbedded
  /\ IF pos > MaxUint - dataStart \/ dataStart + pos > MaxInt
     THEN Answer(<<>>, "Corrupt") /\ UNCHANGED pos
     ELSE \E r \in ReadAt(chunk.embedded, dataStart + pos - chunk.dataOffset, want, "embedded") :
            /\ pos' = pos + Len(r.bytes)
            /\ Answer(r.bytes, IF Len(r.bytes) = want THEN "none"
                               ELSE IF r.err = "none" THEN "EOF" ELSE r.err)
  /\ UNCHANGED <<chunk, source>>

Filled ==
  /\ pc = "read" /\ ~isEmbedded /\ want = 0
  /\ Answer(buffer, "none")
  /\ UNCHANGED <<chunk, source, pos>>

\* open fails: no reader, a header that cannot be read or makes no sense.  The
\* slice stays closed, and the next Read asks for it again, which may end in
\* another way.
Opening == pc = "read" /\ ~isEmbedded /\ want > 0 /\ ~opened

OpenMissing ==
  /\ Opening
  /\ ~current.reader \/ ProviderFails
  /\ Answer(buffer, "MissingSlice")
  /\ UNCHANGED <<chunk, source, pos>>

\* How many bytes of the header are read, and how that ends.
HeaderReads ==
  LET there == Len(At(File(current), 0, HeaderLen))
  IN  {[n |-> there, err |-> IF there < HeaderLen THEN "EOF" ELSE "none"]}
        \cup {r \in HeaderFaults : r.n <= there}

HeaderSeen(r) == r.n >= MagicLen /\ current.header # 0

OpenError(r) ==
  IF HeaderSeen(r)
  THEN IF r.n < HeaderLen \/ current.declared < HeaderLen THEN "Corrupt" ELSE "none"
  ELSE IF r.err = "fault" /\ r.n = 0 THEN "Corrupt" ELSE "none"

OpenSlice ==
  /\ Opening
  /\ current.reader
  /\ \E r \in HeaderReads :
       IF OpenError(r) # "none"
       THEN /\ base' = 0 /\ end' = MaxUint
            /\ Answer(buffer, OpenError(r))
            /\ UNCHANGED opened
       ELSE /\ base' = IF HeaderSeen(r) THEN HeaderLen ELSE 0
            /\ end' = IF HeaderSeen(r) THEN current.declared - HeaderLen ELSE MaxUint
            /\ opened' = TRUE
            /\ UNCHANGED <<pc, want, buffer, delivered, answer>>
  /\ UNCHANGED <<chunk, isEmbedded, dataStart, slice, pos>>

SameSlice == slice    \* mutant of NextSlice
NextSlice == slice + 1

\* The end of a slice: of the data, or of this slice only.
AdvanceOrEnd(bytes) ==
  IF slice = chunk.last
  THEN Answer(bytes, "EOF") /\ UNCHANGED <<slice, opened>>
  ELSE /\ slice' = NextSlice /\ opened' = FALSE
       /\ buffer' = bytes
       /\ UNCHANGED <<pc, delivered, answer>>

Reading == pc = "read" /\ ~isEmbedded /\ want > 0 /\ opened
Bounded == end # MaxUint

PassEnd ==
  /\ Reading
  /\ Bounded /\ pos >= end
  /\ AdvanceOrEnd(buffer)
  /\ IF slice = chunk.last THEN UNCHANGED pos ELSE pos' = 0 /\ UNCHANGED want
  /\ UNCHANGED <<chunk, isEmbedded, dataStart, base, end>>

RequestPastEnd == want    \* mutant: reads past what the header declares
Request == IF Bounded /\ end - pos < want THEN end - pos ELSE want

NotTruncated(at) == FALSE    \* mutant: a file that ends early ends its slice
Truncated(at) == Bounded /\ at < end

ReadSlice ==
  /\ Reading
  /\ Bounded => pos < end
  /\ IF base + pos > MaxInt
     THEN Answer(buffer, "Corrupt") /\ UNCHANGED <<pos, slice, opened>>
     ELSE \E r \in ReadAt(File(current), base + pos, Request, "slices") :
            LET got == buffer \o r.bytes
                at  == pos + Len(r.bytes)
            IN  IF Len(r.bytes) = Request
                THEN /\ pos' = at /\ want' = want - Len(r.bytes) /\ buffer' = got
                     /\ UNCHANGED <<pc, slice, opened, delivered, answer>>
                ELSE IF r.err = "EOF" /\ ~Truncated(at) /\ slice # chunk.last
                THEN /\ pos' = 0 /\ want' = want - Len(r.bytes)
                     /\ AdvanceOrEnd(got)
                ELSE /\ pos' = at
                     /\ Answer(got, IF r.err = "none" THEN "NoProgress"
                                    ELSE IF r.err = "EOF" /\ Truncated(at) THEN "UnexpectedEOF"
                                    ELSE r.err)
                     /\ UNCHANGED <<slice, opened>>
  /\ UNCHANGED <<chunk, isEmbedded, dataStart, base, end>>

Iteration == \/ ReadEmbedded \/ Filled \/ OpenMissing \/ OpenSlice \/ PassEnd \/ ReadSlice

Refused == pc = "refused" /\ UNCHANGED vars

Next ==
  \/ New \/ Refuse \/ Refused
  \/ \E n \in Wants : Start(n)
  \/ Iteration

\* A call of Read runs until it returns; the consumer need not call again.
Spec == Init /\ [][Next]_vars /\ WF_vars(Iteration)

-----------------------------------------------------------------------------
(* What the chunk holds, stated without the steps.                         *)

\* Where reading starts in the k-th slice of c.
StartOf(c, k) == IF k = 1 THEN c.offset ELSE 0

\* What a slice gives away from there on: everything behind the header up to
\* the declared end, or the whole file when it is raw.
Readable(s) == s.reader /\ (s.header = 0 \/ (s.header = HeaderLen /\ s.declared >= HeaderLen))
Payload(s) == IF s.header = 0 THEN s.bytes ELSE At(s.bytes, 0, s.declared - HeaderLen)
Given(c, k) == At(Payload(c.slices[k]), StartOf(c, k), Len(c.slices[k].bytes))

\* Whether reading gets past it: it may be shorter than its header says, and
\* an offset that no file can have is refused where a byte is wanted.
Passable(c, k) ==
  LET s == c.slices[k]
      start == StartOf(c, k)
  IN  /\ Readable(s)
      /\ IF s.header = 0
         THEN start <= MaxInt
         ELSE s.declared - HeaderLen <= (IF start > Len(s.bytes) THEN start ELSE Len(s.bytes))

\* The k-th slice adds what it gives when all before it can be passed.
Piece(c, k) ==
  IF (\A j \in 1..(k - 1) : Passable(c, j)) /\ Readable(c.slices[k]) THEN Given(c, k) ELSE <<>>

\* The first k slices, as far as they can be read.
Joined(c) ==
  LET joined[k \in 0..Len(c.slices)] ==
        IF k = 0 THEN <<>> ELSE joined[k - 1] \o Piece(c, k)
  IN  joined

content == IF External(chunk) THEN Joined(chunk)[Len(chunk.slices)]
           ELSE At(chunk.embedded, chunk.offset, Len(chunk.embedded))
whole == External(chunk) => \A k \in DOMAIN chunk.slices : Passable(chunk, k)

-----------------------------------------------------------------------------
(* Properties.                                                             *)

\* Whatever the slices are and however their readers fail, a consumer gets the
\* bytes of the chunk in order, each once, across errors, retries and slice
\* borders, and is told of the end at the end only: see ByteStream.  A source
\* that is refused is one that answers nothing.
Stream == INSTANCE ByteStream
StreamSpec == Stream!Spec

\* "The provider is only called for slices referenced by the archive"
\* (README.md:87), and late: slice by slice, each when every byte before it
\* has been read and no slice before it is incomplete.
Asks == OpenMissing \/ OpenSlice
AskedWhenNeeded ==
  [][Asks => LET k == slice - chunk.first
             IN  /\ External(chunk) /\ k \in 0..(Len(chunk.slices) - 1)
                 /\ \A j \in 1..k : Passable(chunk, j)
                 /\ delivered \o buffer = Joined(chunk)[k]]_vars

\* A call of Read returns, however many slices are empty.
ReadReturns == pc = "read" ~> pc = "idle"

-----------------------------------------------------------------------------
(* What the documentation says and the code does not do.                   *)

\* A slice's reader "is validated and its 12-byte slice header is hidden by
\* this package" (internal/stream/stream.go:37).  When reading the header
\* fails after some of its bytes but before the magic is complete, the slice
\* counts as raw and the header is read as data.
HeaderIsHidden == \A k \in DOMAIN delivered : delivered[k][1] = "data"

=============================================================================
