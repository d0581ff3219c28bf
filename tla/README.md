# innoextract-go in TLA+

A verification development for this Go library, which reads Inno Setup
installers: it parses the setup metadata, joins the parts of GOG Galaxy files,
and decodes the files of an installer in memory. The modules model the code
under `src/`; TLC checks them on small instances, and TLAPS proves the theorems
of the modules named `...Proofs` for every value of the constants.

## 1. Inventory

The library is sequential: it starts no goroutine, keeps no global state and
writes nothing. What is hard in it is partial failure (an archive is extracted
as far as it can be), accounting (a memory limit that several buffers share),
re-entry (readers that are read again after an error, calls that are repeated)
and order (segments, slices and markers that depend on what came before).

| Component | Source | State | Operations | Talks to |
|---|---|---|---|---|
| Public API | `archive.go`, `extractor.go`, `options.go`, `types.go` | `Archive`: reader, options, parsed archive | `Open`, `Info`, `Files`, `Extract`, `Verify`, one-shot `Extract` | calls Parse, `gog.Apply`, `stream.Extract` |
| Stream extraction | `internal/stream/stream.go` | `fileAssembly` per file, chunk groups, memory budget, results | `Extract`, `buildGroups`, `allocateFileBuffers`, `decodeChunk`, `decodeFileSegment`, `verifyFinalChecksum` | reads through a slice source, calls the decoders |
| Slice source | `internal/stream/slice.go` | current slice, position, bounds, whether it is open | `newSliceSource…`, `Read`, `open` | calls the caller's slice provider and its `io.ReaderAt`s |
| Decoders and filters | `internal/stream/stream.go` | a dictionary, an instruction address | `newChunkDecoder`, `decodeInstruction…`, `readAllLimit` | zlib, bzip2, LZMA libraries |
| GOG Galaxy metadata | `internal/gog/gog.go` | the archive, the open group of parts, languages | `Apply` | changes the parsed archive that `Extract` reads |
| Setup parser | `internal/setup/setup.go` | a cursor over each of two streams, the header's counts | `Parse`, `readVersion`, `readBlock`, a reader per kind of record | loader, LZMA library |
| Loader | `internal/loader/loader.go` | none | `Locate` | reads the executable |
| Paths | `internal/pathutil/path.go` | none | `Clean` | none |
| Crypto | `internal/crypto/crypto.go` | cipher state | `Sum`, `EqualChecksum`, key derivation, ARC4, XChaCha20 | standard library |
| Errors, types | `errors.go`, `internal/fault`, `internal/format` | none | `ExtractError.Unwrap` | |

What makes each correct:

* *Stream extraction*: the budget counts what is in use on every path; a file
  that is returned is what the archive says; a failure stays with its file;
  each file is answered once, in order.
* *Slice source*: its consumer sees the bytes of the chunk in order and once,
  whatever readers do, and the end only at the end; the provider is asked for
  a slice only when it is needed.
* *GOG metadata*: exactly the parts that belong together are joined; the size
  of a joined file is the sum of its parts; applying twice changes nothing.
* *Public API*: calls on one `Archive` do not influence each other; `Verify`
  and `Extract` agree; what Open joins, Extract returns whole.
* *Setup parser*: what was written is read back, whatever the version; cut,
  extended, corrupted or miscounted streams are errors and never another
  archive; what is built is paid for in bytes of a bounded stream.
* *Loader*: the table of offsets is found wherever it is; the order of the
  sections does not matter.
* *Filters*: no two segments are decoded alike, and pages are independent.
* *Paths*: the result is relative, never leaves its root, and is clean.

The hazards, each at its line, are listed in `PROJECT.json`.

## 2. Modules

```
ExtractContract <------ StreamExtract <-- ArchiveCalls <-- MCArchiveCalls
                             ^                             (which takes the catalogue
                             +---------- MCStreamExtract <--- of MCStreamExtract)
ByteStream <----------- SliceSource <--- MCSliceSource
                        GogApply <------ MCGogApply   (ArchiveCalls instantiates GogApply)
Loader, SetupLayout <-- SetupParse <---- MCSetupParse
InstructionFilter, PathClean <---------- MCTransforms

StreamExtract <- StreamExtractProofs <- StreamCallProofs <- ArchiveCallsProofs -> ArchiveCalls
GogApply <- GogApplyProofs (instantiated by ArchiveCallsProofs)
SliceSource <- SliceSourceProofs         SetupParse <- SetupParseProofs
InstructionFilter, PathClean <- TransformProofs
Sums <- DataInduction <- all the modules named ...Proofs
```

On the way of an installer through the library, `SetupParse` (with `Loader`)
makes the archive, `GogApply` changes it, `StreamExtract` works through it and
reads its chunks as `SliceSource` does, `InstructionFilter` decodes a segment in
it, and `ArchiveCalls` with `PathClean` describes what the caller gets.

**StreamExtract** is one call of `stream.Extract`. `archive`, `memoryLimit` and
`verifyOnly` are the arguments; `files`, `groups`, `limit`, `used` are the
variables of the same name in the code (`memoryBudget` is `limit`, `used`), and
`fi`, `li`, `gi`, `ri` its loop variables. An action is one iteration of one
loop: `AddPart`, `AddRef` and `SortGroup` in `buildGroups`; `PlanFile`,
`RefuseFile`, `ReserveOutput` and `RefuseOutput` in `allocateFileBuffers`;
`OpenChunk`, `ReadChunk`, `ReserveChunk` and their failures for `decodeChunk`;
`DecodeSegment`, `FailSegment`, `PlaceSegment` and `ReleaseChunk` in the segment
loop; `ReportResult` and `ReportFailure` for the results. Everything read from
outside is fixed by the archive: a chunk says how opening and decoding it end. A
byte is a token that says which filter of which chunk and offset it comes
from, so a checksum is right exactly when the bytes are.
`decodeChunk` returns before its result is reserved; `dictionary` is the window
of the decoder that is alive in between.
Encrypted archives end in `RejectArchive`: the parser sets
`UnsupportedEncryption` with `Encrypted`, so no key ever reaches a chunk and an
encrypted chunk in a plain archive is `ErrPasswordRequired`.

**ExtractContract** is the promise of `Extract` without the how: a verdict per
file that is never taken back, then one report per file in order, or one error
for the archive. `StreamExtract` implements it (`ContractSpec`).

**ArchiveCalls** composes the life of an `Archive`: `Opening` is `Open` from the
parsed archive on, a run of `GogApply` (`Gog`, an instance over the same
archive: `Metadata` is what `Apply` sees of it, `Extractable` what it leaves for
`Extract`); then `Call` starts a run of `StreamExtract` afresh for every
`Extract` or `Verify`, `Answer` is what `archive.go` makes of its outcome, and
`entry` what `Files` lists.

**SliceSource** is `sliceSource`, from its constructor on. An action is one
iteration of the loop of `Read` with the one outside call in it. A `ReaderAt`
answers with all bytes, the bytes up to the end of the file, some bytes and an
error, or (`Lapses`) some bytes and none; reading a header may go wrong in the ways
of `HeaderFaults`, and the provider (`ProviderFails`) may fail for a slice and hand it
out when it is asked again. The constructor's branches for
embedded data and for a provider are `New`. The consumer may call `Read` again
after any answer.

**ByteStream** is what the consumer of an `io.Reader` relies on: a prefix of a
fixed content that grows, and `io.EOF` when it is complete and delivered.
`SliceSource` implements it (`StreamSpec`) with the content stated from the
slices without the reader's steps.

**GogApply** is `gog.Apply`: the two halves of an iteration of
`applyGalaxyParts` (`StartGroup`/`NoStart`, then `TakePart`, `RejectPart`,
`InterruptGroup` or `PassFile`), an iteration of `applyGalaxyConstraints`, and the merge of
languages. A marker is the arguments `parseFunctionCall` finds in it;
a number that does not parse is -1; sizes and the countdown are modulo `MaxUint + 1`.

**Loader** is `loader.Locate` as operators on a file. A file is its size and a
function from offsets to the structures that begin there (`Object`); reading
past the size fails (`Readable`). The operators are the functions of
`loader.go`, with each early return; `findResource` is its three levels
(`Level`) and a leaf. `Failed("panic")` is the slice expression that goes past the 28
bytes of a table for the oldest magic (`RevisionOne`).

**SetupLayout** says, per version, which fields a record has. One operator per
reader of a record (`HeaderTexts`, `LanguageFields`, ..., `DataFields`) is the
sequence of reads its code makes; adjacent skips are one field of their total
size. `Phases` and `Times` are the order of the loops of `Parse` and how often each runs.

**SetupParse** is `setup.Parse`. `b` and `pos` are the cursor; `phase` and
`left` the loop `Parse` is in and its remaining iterations; `todo` and `got` the
fields of the current record that are still to be read and those that have
been. `FindSetup`, `ReadVersion`, `ReadEncryptionHeader` and `ReadBlock` are the
steps before a stream; `StartRecord`, `ReadField`, `ReadString`, `ReadGroup`,
`RejectField` and `EndRecord` read a record, one field per action; `NextPhase`
and `EndStream` end a loop and a stream. The streams are bytes, so that a wrong
position has the effect it has in the program: whatever lies there is read as
a length, a count or a number. `mustReadCursor` is the kind of field that takes
nothing when too little is left, and `ReadString` writes the zero that `append`
writes into the stream.

**InstructionFilter** is the three instruction filters, a byte of
`decodeInstruction4108` and an instruction of `decodeInstruction5200` per
action: `i` is what has been read, `dst` what has been written. The size of a byte, of an operand and of a page are constants. **PathClean** is
`pathutil.Clean`, run on a destination and then on its own result;
`expandConstants` is a recursive function over the depth and `Walked` one pass of
it over the characters. The loop over the parts has an action per branch; it
cuts a part off what is left where the code has split the path before
(`firstPart`, `otherParts`). `MCTransforms` checks both modules, one at work
while the other is idle.

**Sums** is the running total of a sequence of sizes, which four of the modules
need. Recursion is written as recursive functions throughout, so that the
modules can be proved about. **DataInduction** holds the induction the proofs
need (section 4); the modules named `...Proofs` hold the theorems about the
module they are named after; `StreamCallProofs` adds to those about `StreamExtract`
what a whole call comes to.

Each module ends with its properties. Operators marked as mutants are
plausible mistakes in the operator that follows them; they are used by nothing
else, and each property fails when its mutant takes that operator's place.

## 3. Runs

| Run | Module, configuration | Shows |
|---|---|---|
| `extract` | MCStreamExtract | the properties of one call, below |
| `calls` | MCArchiveCalls | Open, with the joining of Galaxy files, and two calls in either mode, in either order |
| `slice` | MCSliceSource | reading a chunk, with failures and retries |
| `gog` | MCGogApply | Apply, twice |
| `setup` | MCSetupParse | Parse over sound and damaged installers of twelve versions |
| `transforms` | MCTransforms | instruction filters and path cleaning |
| `extract_memory`, `extract_missing`, `calls_verified`, `slice_header`, `gog_malformed`, `setup_odd` | the other configurations | where code and documentation disagree (section 6) |

`extract`:

* `BudgetHolds`: the budget equals the memory it is meant to count at every
  step, whatever chunk or segment has failed before, and stays in the limit.
* `OutputIsReserved`: the output part of it is the sum of the buffers there are.
* `SegmentsCoverFiles`: after grouping and sorting, each part of each file is in
  exactly one group, at the place where the parts before it end.
* `ResultsAreSound`: a returned file has the content that is computed from the
  archive without the steps. It leaves out files with a part whose declared
  size is zero and which is not empty: the code does not compare the two then.
* `SoundFilesFailOnlyOnMemory`: a file in order fails for want of memory only,
  and never when there is room for everything.
* `ContractSpec`: `ExtractContract` is implemented, the return of the call
  included.

`calls`:

* `CallsAreRepeatable`: two calls in the same mode answer the same, with any call
  between.
* `VerifyAcceptsWhatExtracts`: Verify fails only files that Extract fails.
* `ManifestMatchesFiles`: what `Files` lists of a file, which `Archive.entry` works
  out by itself, is true of the file that is extracted. The length is left out where
  two groups share a data entry (`Unshared`): the last of them decides the length of
  the entry and the others list another.
* `GalaxyFilesAreWhole`: from the markers to the bytes. A Galaxy file is returned as
  all its parts in order, wherever they are stored, or fails for want of memory, if
  its markers are true and a `uint64` holds their sum; with an untrue marker or a
  digest of something else it is never returned. The exception is `Measured`: a
  marker that gives a part no length turns the comparison of lengths off.

The proofs found these exceptions: the catalogue had no archive of the kind, and the
properties, stated without them, were false. It now has one of each.

`slice`: `StreamSpec`; `AskedWhenNeeded` (the provider is asked for a slice of
the chunk only, when all bytes before it have been read and no slice before it
is cut short); `ReadReturns`.

`gog`: `CountdownFollowsGroup` (between any two files, `activeStart`, `remaining` and
the size added up so far are what the definition of groups says of the files
passed), `PartsJoinTheirStart` (a definition of groups by intervals of files
against the pass with its countdown), `SizeIsSumOfParts` (the size handed to
`stream.Extract` is what that adds up; parts that share a data entry are left
out, see the hazards), `OnlyPartsAreInflated`, `ReapplyingIsHarmless`,
`ConstraintsNameLanguages`.

`setup`:

* `ReadsWhatIsWritten`: a sound installer gives the archive it was written from,
  and `ErrLimitExceeded` exactly when one of its two streams, stored or decoded,
  is longer than the limit. The writer of `MCSetupParse` takes the layout of
  records from `SetupLayout`, as the reader does: no description of the format
  is in the repository apart from the code. So this shows that the phases, the counts and
  the fields each record depends on agree with one another, and not that a
  layout is that of Inno Setup; a layout was compared with the code line by line.
* `DamageIsNoticed`: a stream that is cut at any place, goes on, fails a
  checksum, or holds another number of records than it counts is refused. One
  exception, stated in it: when a cut of the second stream leaves exactly the
  bytes behind the digest, `mustReadCursor` skips the digest and the entry is accepted
  without it.
* `RecordsAreBacked`: the records that exist have used up bytes of a stream the
  header limit bounds, although the counts are 500000.
* `AddressesAreUnambiguous`: for sections that do not overlap, an address has one
  place in the file, whatever the order of the sections.
* `TypeOK`: the cursor stays in its stream; this is the only check of the
  conditions of `read`, `stringRaw` and `mustReadCursor` together.

`transforms`: `TypeOK` (a filter writes a byte for every byte it reads and reads the
whole segment, also when it ends in an operand), `FilterIsLossless` (what has been decoded so far can be encoded
again, so decoding is injective, at cut operands and page ends as well),
`PagesAreSeparate` (no instruction is decoded across the end of a page, so what
a page decodes to does not depend on the alignment the page before left),
`StaysBelowRoot` and `CleanIsIdempotent`.

### Bounds

* `extract`: two chunks, three data entries, up to three files, `int` up to 15
  and `uint64` up to 31, so that an output may fit a `uint64` and no `int`, and
  sums may pass both. Two files are needed to share a chunk, a third to be
  disturbed by them; two parts to be in different groups, in either order. The
  catalogue holds every fault of a chunk and of a segment, in one chunk of the
  two; the limits go from nothing to room for all, the default included.
* `calls`: two calls (`MaxCalls`); a call depends on the one before it only, and
  starts from the same values. Limits are the default and one too small for some archives,
  since `WithMemoryLimit` refuses what is not positive. The Galaxy installers have a
  group of one to three announced parts, true and untrue lengths, an overrun, an
  interruption or a second group behind it, and two parts that are stored in the order of
  the files or against it, in two chunks.
* `slice`: up to three slices (a first, a middle, a last), raw or with a header,
  empty, full, with bytes behind the declared end or cut short of it, without a
  reader, with a truncated or an invalid header; buffers of one and three bytes,
  shorter and longer than a slice. Nothing is bounded beyond the content:
  `delivered` is a prefix of it. `LateFaults` are the failing header
  reads that `open` tells from a raw slice: nothing and an error, or all of the
  magic with an error or without; the others are the finding of
  `slice_header` (`EarlyFaults`). The provider may fail any number of times for any
  slice. `Lapses = {"slices"}`: a `ReaderAt` that returns less than it
  was asked for and no error breaks the contract of `io.ReaderAt`; sliceSource
  has a branch for it when it reads slices (`io.ErrNoProgress`), and reports
  `io.EOF` when it reads embedded data.
* `gog`: three or four files over two data entries: a group that is complete,
  interrupted, overrun or started anew needs three, two groups with parts
  between them four. Sizes wrap at 4. `MaxApplies` is 2.
* `setup`: every version at which a layout changes, a slim archive (one record
  of the kinds that are kept) and a full one (one or two of every kind). A
  stream is a few hundred bytes; `PartSize` is 400 instead of 4096, so that the first stream
  has more than one part. The header limit is the default, 3000, more than any
  of these streams needs, or 560, between the small archives and the larger
  ones. A record of a kind does not depend on how many there were before it, so two are
  enough for the loops; the counts that are wrong are one off or larger than any
  stream. `MaxU32` is 9999: executables are smaller, and one section ends beyond it.
  Every length of the second stream is tried for three layouts, and four of five
  lengths of the first for one.
* `transforms`: bytes of base 4, operands of three bytes and pages of six.
  Segments of up to seven bytes reach into a second page; all of them are tried. An address has
  two digits, enough for carries and for both signs. Destinations are all
  sequences of up to five characters of seven sorts, and longer ones with the
  prefix, with nested constants and with the other sorts. `MaxDepth` is 2 instead of 8, and
  constants are nested up to three deep.

### Fairness

`StreamExtract` assumes `WF_vars(Step)`: the call is sequential code and runs
until it returns. `SliceSource` assumes weak fairness of `Iteration`, the body of
the loop of a `Read` that has begun, provided the calls of the provider and of
the `ReaderAt` in it return; nothing makes the consumer read again.
`GogApply`, `ArchiveCalls`, `SetupParse`, `InstructionFilter` and `PathClean`
state no liveness: each step of theirs takes from a finite list. Deadlock is checked in every
run; a program that has returned stutters (`Returned`, `Refused`, `Done`,
`CallsDone`).

## 4. Theorems

TLAPS proves the following for every value of the constants that the named
assumptions of the modules allow: any number of files, chunks, slices, records
or characters, any limit, any width. Every safety property of the passing runs
is among them, except those named under "Only model-checked". As a rule a property
is not inductive; each proof has an invariant that is, shown with one lemma per
action or phase and one step per part of the invariant it can disturb.

### Extraction

`StreamExtractProofs`: `TypeCorrect` (no size, total, offset or budget leaves its
range, which is what the overflow checks of the code are for) and
`BudgetCorrect`. Their invariant `IInv` adds to `TypeOK /\ BudgetHolds` that a loop
variable is in range where it is used (`InRange`; in particular every location
is known to be a data entry before `AddRef` looks at one, because `AddPart` has
passed them all) and that the budget is empty until the output is reserved
(`NothingReserved`).

The plan:

* `FilesBuilt`: the running totals of `buildGroups` are the ends of the parts
  passed so far, a file that has been passed is skipped, failed or has the size of its parts.
* `BuffersPlanned`, from which `OutputReserved` follows: the total is the sum of the
  sizes planned, then of the lengths of the buffers. That a sum changes with one
  element by as much as the element is a lemma of `DataInduction`.
* `SegmentsPlaced`, from which `SegmentsCover` follows: one group per chunk; each part
  entered so far has one segment, in the group of its chunk, at the end of the
  parts before it; the groups are sorted as far as the sort has come. Sorting
  moves segments within their group, so that the map from parts to places is given
  anew for every step (`Placement`).

The results: `Laid` collects these, and `RefsOwned`: each segment of a
group belongs to a part of a file that can be located. `ChunkDecoded` says what an open chunk and a
segment to be placed are, `PartsPlaced` that a file that has not failed has the bytes of every part dealt
with so far and zeros elsewhere, `FailuresExplained` that a file in order has failed
for want of memory only. `ReportsSound` takes that over to what has been
reported; `ResultsCorrect` and `FailuresCorrect` follow from their conjunction `RInv`.
`KeepsContract` shows that `StreamExtract` implements the safety part of
`ExtractContract`: initial states are initial states, and every step is one of the contract
or a stutter; `markFailure` is a verdict on the files that have none
(`MarksAreVerdicts`). The fairness of the contract is left to TLC.

### A call, and the life of an archive

`StreamCallProofs` proves `FilesDecidedCorrect`: what `Extract` makes of a file is a
function of the archive, the limit and the mode, although its steps depend on
shared and changing things, on the budget, the open chunk, the flags of other files.
`FinalFile` is that function, without steps; the invariant `CallInv` is why it
holds:

* `PlanDecided`, `OutputDecided`: which files get a buffer, and so what the limit
  leaves for decoding (`Room`) for the rest of the call. Between groups, only the
  buffers are in the budget.
* `GroupsKnown`: the groups are what gathering the refs of all parts chunk by
  chunk and sorting them comes to (`Groups`); there is one stable order
  (`OneStableOrder`).
* `DecodingFits`, `FailuresDecided`, `ErrorsKnown`: a file has failed exactly
  when a segment passed so far has an error by itself, and with the first of these.
  A segment that is skipped, since its file has failed before, or a chunk that is
  skipped, since all its files have, cannot change that.
* `DataKnown`: a byte of a buffer is from the last segment passed that covers it.
* `AllReported`: the reports so far are those of the files so far, in their order.

`ArchiveCallsProofs` proves the four properties of `ArchiveCalls`. Its invariant
`CallsInv` is `GInv` of `GogApplyProofs`, `CallInv` for the call under way, and
`CallFact` for each call that has answered: its answer is that of the files that
`FinalFile` describes. `GInv` is used through an instance of that module, the
assumption of which is proved (`ApplyAssumption`) and not assumed again.

* `RepeatableCorrect`: two calls of one mode have the same `FinalFile` for each
  file, and so the same outcome (`SameOutcome`) and the same reports.
* `VerifyCorrect`: Verify gives fewer files a buffer, so a segment has at least the
  room it has in Extract (`VerifyHasRoom`, `MoreRoom`); what fits there fits here.
* `ManifestCorrect`: a returned file has the length that is planned, `OutputSize`;
  that it is the one listed depends on what Apply has added up (`GroupEnds`, from
  `SizesCorrect`'s invariant).
* `GalaxyCorrect`: the parts Extract sees are those of the group in their order
  (`GroupParts`), each with the length of its marker (`GroupEnds`); where the markers
  are true the file is in order (`GroupSound`), and its content is that of the parts
  one behind the other (`GroupContent`). `ResultsAreSound` and
  `SoundFilesFailOnlyOnMemory`, which are part of `CallFact`, do the rest.

`CallsAssumption` has a parsed file at one location, which only `Apply` changes;
`IntAssumption` has `MaxInt + MaxInt <= MaxUint`,
as for `int` and `uint64`.

### Slices

`SliceSourceProofs` proves `StreamsContent` (`SliceSource` implements `ByteStream`),
`AsksLate` and `SourceTypes` under `ReadersAssumption`. It asks two things of a
`ReaderAt`: it does not return less than it was asked for without an error when
it reads the executable (the contract of `io.ReaderAt`; without it `sliceSource` says
`io.EOF` early), and a read of a slice header that goes wrong has either read the whole magic or
has read nothing and says so (otherwise the header is read as data, the finding
of `slice_header`). Failures of the provider are not restricted.
`SourceAssumption` says that a slice has a length that fits a file size (`RealSlice`).
The invariant `SInv` says how far into the slices the bytes delivered reach:
`pos` is that place, whether the slice is open or not, every slice before is
complete, and what is delivered and buffered begins the content.

### GOG metadata

`GogApplyProofs`: `PartsCorrect`, `SizesCorrect`, `EntriesCorrect`, `ReapplyCorrect`,
`ConstraintsCorrect`, `CountdownCorrect`. `GogAssumption` has the archive as parsed without
additional locations: only `gog.go:145` sets them. The center of the invariant
`GInv` is `GroupKept`: the open group is the one the file before belongs to,
and its countdown is what it still lacks; with the part about sizes it is
`CountdownFollowsGroup`. The other parts say of each field of
a file what the files passed so far have made of it, by the definition of groups as
intervals. A second call computes names, sizes and entries again: `SameAgain` says
that all archives returned so far are equal and that the one at work differs from them
only in sizes and entries that this call has not reached or is adding up.

### Setup parser

`SetupParseProofs`: `CursorStays` and `RecordsTakeBytes` for every file, every stream and every count;
`SetupAssumption` asks that a file is well typed (bytes are bytes, numbers
are numbers). In the invariant `PInv`, `Paid` is the argument against the counts of
up to 500000: the records of the current kind, and the one being read less the
fields that are left, have taken their smallest size each from before the
cursor. `InTurn` says that kinds whose turn has not come have no records.
`SectionsDecide` is about `rvaToFile` for any list of disjoint sections and any address.

### Filters and paths

`TransformProofs`, on the filters: `NothingIsLost`, `PagesKept`, `FilterTypes`, for every base,
operand length, page size, set of opcodes and segment (`FilterAssumption`: an operand
has two bytes or more and fits a page). The invariant `FInv` says
that as many bytes are written as read; of
the operand that `4108` is in the middle of that it follows its opcode and which
digits have been decoded, with the carry in `addr`; and that the instructions that are complete encode
back, whatever follows them.

On paths: `NeverAbsolute` and `CleanOnceEnough`, for every destination and every
`MaxDepth`. What is expanded may be anything, so `CleanInv` only says that the parts there are
stay below the root. For the second, each level of constants leaves a brace less
to expand (`LevelsLeaveNone`), so that up to `MaxDepth` braces none is left and
the result has neither brace nor colon; then nothing is expanded or dropped in the
second run, and cutting takes the joined path apart into the same parts
(`TwiceInv`).

### Induction over data

The induction theorems of the library take an operator as an argument, which the
installed provers cannot instantiate. `DataInduction` states induction for sets
of numbers (`SetInduction`, from `LeastNatural`), since a set can be
named in a step, and shows by it that a recursion has a solution
(`SumExists` for totals, `RecursionExists` for any step that can be named; `NumberExists`, `FlatExists`, `JoinedExists`, `PowerExists`,
`RestExists` and `ExpandExists` for the recursions of `SetupParse`, `SliceSource`,
`InstructionFilter` and `PathClean`). Without that the `CHOOSE` behind a recursive
function says nothing.

### Only model-checked

* Liveness, which TLAPS does not prove here: that a call returns (the fairness of
  `ContractSpec`), and `ReadReturns`.
* `ReadsWhatIsWritten` and `DamageIsNoticed`: they compare the parser with a writer that is
  in `MCSetupParse`, over the layouts of all records of all versions.
* `Loader` apart from `rvaToFile`: its operators have no state, and the run evaluates them.
* The properties of the runs that expect a violation.

## 5. What is abstracted

* Compressed data: a decoder is what it yields (`length`, `broken`, `dict`).
  Dictionaries count, the fixed buffers of the readers (32 and 64 KiB) do not.
* Checksum algorithms: an entry's checksum is right or not (`intact`), a public
  checksum is the content it was computed from.
* Paths, digests, hex strings and the wording of errors.
* `Extract`'s checks for nil arguments, and branches that nothing reaches: the
  index checks of `markFailure` and `groupNeeded`, decryption, and the last
  `newSliceSource` branch, for which the second condition has returned before.
* `setup` and `loader`: what is at an offset of a file is a structure with its
  fields or something else; its bytes matter in the two streams only. The text of
  the version is its numbers, a checksum is right or wrong, decompression is what it
  yields. Reading bytes that are no directory as a directory gives one without entries.
  UTF-16 text is kept as its code units, and the tests of versions before 6.0,
  which `Parse` has refused by then, are decided.
* `gog`: the text of marker calls and of constraint expressions; the order of
  languages (they are sorted by name) is left out.

## 6. Where code and documentation disagree

* `extract_memory`: `README.md:89` says that the limit bounds decompression
  memory; the LZMA dictionary is compared with it and never counted.
* `extract_missing`: `README.md:111` says that `errors.Is` finds the cause of a
  failed entry; the error of a slice provider is formatted into `ErrCorrupt`.
* `calls_verified`: `stream.go:299` says that a file without a public checksum is
  validated from its segments; Verify then does not see that the file is
  declared too short, and Extract fails it.
* `slice_header`: `stream.go:37` says that a slice header is validated and hidden;
  it is read as data when reading it fails after 1 to 7 bytes.
* `gog_malformed`: `gog.go:40` says that malformed markers are ignored; a start
  marker with a malformed count has wiped its file's size and checksum by then.
* `setup_odd`: `setup.go:115` says that the padding of a string with an odd number
  of bytes preserves the position and makes it benign; the padding is appended to a
  slice of the stream and goes over the length of the string behind it.

Seen on the way, and not stated as a property of a run:

* `resourceOffsetTable` compares the word at the start of the data directories with
  3 (`loader.go:234`). That word is the address of the exports, so a program
  that exports nothing is refused as corrupt.
* For the oldest loader magic, `loader.go:159` reads a word behind the 28 bytes it
  has read and panics; `README.md:103` says that parsing failures are errors.
* `Parse` makes slices with the capacity its counts ask for (`setup.go:185`, `:239`,
  `:260`, `:291`), up to 2^32 - 1 entries, before it reads a record.
* A section maps addresses up to the larger of its two sizes (`loader.go:190`),
  so an address in the part that is filled with zeros in memory leads to the bytes
  behind the section in the file.
* A part that `Apply` has joined loses its name (`gog.go:144`) and stays among the
  files: Extract returns it again, as a file with an empty path, and its buffer counts
  against the limit next to that of the joined file.
* A string that ends behind the stream is `ErrLimitExceeded` (`setup.go:103`), every
  other truncated field `ErrCorrupt`.

## 7. Not modelled

* `internal/crypto`: hashes are library functions (a digest is right or wrong here);
  key derivation, ARC4 and XChaCha20 are not reached by any archive the parser
  returns, because `UnsupportedEncryption` is set with `Encrypted`.
* The decompressors (zlib, bzip2, LZMA) are libraries, modelled by their outcome.
* `options.go`, `Info`, `types.go`, `errors.go`: copies of values, validation of
  one argument each, and conversions of enumerations.
* `Parse` within `Open`: `ArchiveCalls` begins with the archive it returns. The parser
  and what follows share that archive and nothing else; that the catalogues are archives
  it can return is by inspection.
* `gog.GameID` and the text parser of marker calls: string scanning whose result
  is what `GogApply` is given.

## 8. State

All components of section 1 but the cryptography are modelled and checked, and every
safety property of a passing run is proved, but for two. What a next step could be:

1. `DamageIsNoticed` for a stream that goes on behind its last record, which
   `EndStream` alone decides. The rest of it, and `ReadsWhatIsWritten`, need a writer
   that is apart from the instances of `MCSetupParse`.
2. `Loader` beyond `rvaToFile`.
