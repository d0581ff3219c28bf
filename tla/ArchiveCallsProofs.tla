------------------------- MODULE ArchiveCallsProofs -------------------------
(***************************************************************************)
(* Proofs about an Archive, for every set of installers.                   *)
(***************************************************************************)
EXTENDS ArchiveCalls, StreamCallProofs

GP == INSTANCE GogApplyProofs WITH
  Archives <- Parsed, Names <- {"own", "joined"},
  Languages <- {}, MaxApplies <- 1,
  original <- Metadata(installer), archive <- galaxy, pc <- gpc, fi <- gfi

-----------------------------------------------------------------------------
LEMMA SameOperators ==
  /\ Gog!files0 = GP!files0
  /\ \A s, j : Gog!PartOf(s, j) = GP!PartOf(s, j)
  /\ \A s : Gog!PartsOf(s) = GP!PartsOf(s)
  /\ \A s : Gog!LastPart(s) = GP!LastPart(s)
  /\ \A s : Gog!Sizes(s) = GP!Sizes(s)
  <1>1. Gog!files0 = GP!files0
    BY DEF Gog!files0, GP!files0
  <1>2. \A s, j : Gog!PartOf(s, j) = GP!PartOf(s, j)
    BY <1>1 DEF Gog!PartOf, GP!PartOf, Gog!ValidPart, GP!ValidPart, Gog!Parts, GP!Parts
  <1>3. \A s : Gog!PartsOf(s) = GP!PartsOf(s)
    BY <1>1, <1>2 DEF Gog!PartsOf, GP!PartsOf
  <1>4. \A s : Gog!LastPart(s) = GP!LastPart(s)
    BY <1>3 DEF Gog!LastPart, GP!LastPart
  <1> QED BY <1>1, <1>2, <1>3, <1>4 DEF Gog!Sizes, GP!Sizes

LEMMA SameInit == Gog!Init => GP!Init
  BY DEF Gog!Init, GP!Init

LEMMA SameNext == Gog!Next => GP!Next
  BY DEF Gog!Next, GP!Next,
    Gog!Begin, GP!Begin, Gog!LeaveAlone, GP!LeaveAlone, Gog!StartGroup, GP!StartGroup,
    Gog!NoStart, GP!NoStart, Gog!TakePart, GP!TakePart, Gog!RejectPart, GP!RejectPart,
    Gog!InterruptGroup, GP!InterruptGroup, Gog!PassFile, GP!PassFile, Gog!EndParts, GP!EndParts,
    Gog!ConstrainFile, GP!ConstrainFile, Gog!EndConstraints, GP!EndConstraints,
    Gog!MergeLanguages, GP!MergeLanguages, Gog!Done, GP!Done,
    Gog!hasGalaxyMarkers, GP!hasGalaxyMarkers, Gog!locals, GP!locals, Gog!vars, GP!vars,
    Gog!MoreFiles, GP!MoreFiles, Gog!file, GP!file, Gog!Started, GP!Started, Gog!Parts, GP!Parts,
    Gog!FileDone, GP!FileDone, Gog!Named, GP!Named, Gog!Abandon, GP!Abandon, Gog!GoodPart, GP!GoodPart,
    Gog!IsEntry, GP!IsEntry, Gog!OneOf, GP!OneOf, Gog!Grown, GP!Grown,
    Gog!containsLocation, GP!containsLocation, Gog!Constrained, GP!Constrained,
    Gog!isAllLanguages, GP!isAllLanguages, Gog!architectureBits, GP!architectureBits,
    Gog!Positive, GP!Positive, Gog!Other, GP!Other, Gog!EndsGroup, GP!EndsGroup

-----------------------------------------------------------------------------
(* What a call returns, told from the archive, the limit and the mode.     *)

RefusalOf == IF memoryLimit < 0 THEN "LimitExceeded" ELSE "UnsupportedEncryption"
CallRecord == [verify: BOOLEAN, files: Seq(Result), err: Errors \cup {"none", "ExtractError"},
               failures: Seq(Failure)]

\* The call c reports the files fs.
Reports(c, fs) ==
  /\ fs \in Seq(FileAssembly) /\ DOMAIN fs = DOMAIN archive.files
  /\ \A i \in DOMAIN fs : FinalFile(c.verify, i, fs[i])
  /\ c.files = IF c.verify THEN <<>> ELSE Chained(ResultsOf(fs, FALSE))[Len(fs)]
  /\ c.failures = Chained(FailuresOf(fs))[Len(fs)]
  /\ c.err = IF c.failures = <<>> THEN "none" ELSE "ExtractError"

\* What is true of a file that is returned, and of one that is reported.
ReturnedSound(r) == Measured(r.file) => SoundParts(r.file) /\ Sound(r.file) /\ r.data = Content(r.file)
ReportedSound(f) == Sound(f.file) => f.err = "LimitExceeded"

CallFact(c) ==
  /\ c \in CallRecord
  /\ Refused => c.files = <<>> /\ c.failures = <<>> /\ c.err = RefusalOf
  /\ ~Refused => PartsGrouped /\ \E fs : Reports(c, fs)
  /\ \A k \in DOMAIN c.files : ReturnedSound(c.files[k])
  /\ \A k \in DOMAIN c.failures : ReportedSound(c.failures[k])

\* A call that ends with its results.
LEMMA ReturnedFact ==
  ASSUME CallInv, pc = "finalize", ~MoreFiles
  PROVE  CallFact(Answer)
  <1>1. /\ IInv /\ ReportsSound /\ AllReported /\ ~Refused /\ Decoding
    BY DEF CallInv, DInv, RInv, Laid, LimitKnown, Decoding
  <1>2. /\ verifyOnly \in BOOLEAN /\ files \in Seq(FileAssembly) /\ archive \in Archive
        /\ Len(files) = Len(archive.files)
        /\ results \in Seq(Result) /\ failures \in Seq(Failure)
    BY <1>1 DEF IInv, TypeOK, InRange, Result, Failure
  <1>3. Len(files) \in Nat /\ DOMAIN files = DOMAIN archive.files
    <2>1. archive.files \in Seq(FileEntry)
      BY <1>2 DEF Archive
    <2> QED BY <1>2, <2>1
  <1>4. /\ archiveErr = "none" /\ fi - 1 = Len(files)
        /\ results = Chained(ResultsOf(files, verifyOnly))[Len(files)]
        /\ failures = Chained(FailuresOf(files))[Len(files)]
    <2>1. /\ archiveErr = "none" /\ fi \in 1..Len(files) + 1
          /\ results = Chained(ResultsOf(files, verifyOnly))[fi - 1]
          /\ failures = Chained(FailuresOf(files))[fi - 1]
      BY <1>1 DEF AllReported
    <2>2. fi - 1 = Len(files)
      BY <1>3, <2>1 DEF MoreFiles
    <2> QED BY <2>1, <2>2
  <1>5. /\ Answer.verify = verifyOnly
        /\ Answer.files = IF verifyOnly THEN <<>> ELSE results
        /\ Answer.err = IF failures = <<>> THEN "none" ELSE "ExtractError"
        /\ Answer.failures = failures
    BY <1>4 DEF Answer
  <1>6. Answer \in CallRecord
    <2>1. <<>> \in Seq(Result)
      OBVIOUS
    <2> DEFINE out == Answer.files
    <2>2. out \in Seq(Result)
      BY <1>2, <1>5, <2>1
    <2>3. Answer = [verify |-> verifyOnly, files |-> out,
                    err |-> IF failures = <<>> THEN "none" ELSE "ExtractError", failures |-> failures]
      BY <1>4, <1>5 DEF Answer
    <2> HIDE DEF out
    <2> QED BY <1>2, <2>2, <2>3 DEF CallRecord
  <1>7. Reports(Answer, files)
    <2>1. ASSUME NEW i \in DOMAIN files PROVE FinalFile(Answer.verify, i, files[i])
      BY <1>5, FinalFiles
    <2>2. ~verifyOnly => verifyOnly = FALSE
      BY <1>2
    <2> QED BY <1>2, <1>3, <1>4, <1>5, <2>1, <2>2 DEF Reports
  <1>8. ASSUME NEW k \in DOMAIN Answer.files PROVE ReturnedSound(Answer.files[k])
    <2>1. ~verifyOnly /\ Answer.files = results
      BY <1>5, <1>8
    <2>2. ResultSound(results[k])
      BY <1>1, <1>8, <2>1 DEF ReportsSound
    <2> QED BY <2>1, <2>2 DEF ResultSound, ReturnedSound
  <1>9. ASSUME NEW k \in DOMAIN Answer.failures PROVE ReportedSound(Answer.failures[k])
    <2>1. FailureSound(failures[k])
      BY <1>1, <1>5, <1>9 DEF ReportsSound
    <2> QED BY <1>5, <2>1 DEF FailureSound, ReportedSound
  <1>10. PartsGrouped
    BY <1>1, FinalGroups
  <1> QED BY <1>1, <1>6, <1>7, <1>8, <1>9, <1>10 DEF CallFact

\* A call that is refused.
LEMMA RefusedFact ==
  ASSUME CallInv, Refused, NEW c,
         c = [verify |-> verifyOnly, files |-> <<>>, err |-> RefusalOf, failures |-> <<>>]
  PROVE  CallFact(c)
  <1>1. verifyOnly \in BOOLEAN
    BY DEF CallInv, DInv, RInv, Laid, IInv, TypeOK
  <1>2. <<>> \in Seq(Result) /\ <<>> \in Seq(Failure) /\ RefusalOf \in Errors
    BY DEF RefusalOf, Errors
  <1>3. c \in CallRecord
    <2> DEFINE x == <<>>
    <2>1. x \in Seq(Result) /\ x \in Seq(Failure) /\ c = [verify |-> verifyOnly, files |-> x, err |-> RefusalOf, failures |-> x]
      BY <1>2
    <2> HIDE DEF x
    <2> QED BY <1>1, <1>2, <2>1 DEF CallRecord
  <1>4. c.files = <<>> /\ c.failures = <<>> /\ c.err = RefusalOf
    OBVIOUS
  <1> QED BY <1>3, <1>4 DEF CallFact

\* A call keeps its facts while the archive and the limit stay.
LEMMA CallFactFixed ==
  ASSUME archive' = archive, memoryLimit' = memoryLimit
  PROVE  \A c : CallFact(c)' <=> CallFact(c)
  <1>1. /\ Groups' = Groups
        /\ \A i : Parts(i)' = Parts(i)
        /\ \A i : PartEnds(i)' = PartEnds(i)
        /\ \A l : Entry(l)' = Entry(l)
        /\ \A i : External(i)' = External(i) /\ Located(i)' = Located(i) /\ OutputSize(i)' = OutputSize(i)
        /\ \A i : /\ Content(i)' = Content(i) /\ SoundParts(i)' = SoundParts(i)
                  /\ Sound(i)' = Sound(i) /\ Measured(i)' = Measured(i)
    BY GroupsFixed, ArchiveFixed, ContentFixed
  <1>2. \A v, i : AssemblesIn(v, i)' = AssemblesIn(v, i) /\ NeedsIn(v, i)' = NeedsIn(v, i)
    BY <1>1 DEF AssemblesIn, NeedsIn
  <1>3. /\ Refused' = Refused /\ LimitOf' = LimitOf /\ RefusalOf' = RefusalOf
        /\ \A v : NeededIn(v)' = NeededIn(v)
    BY <1>1, <1>2 DEF Refused, LimitOf, RefusalOf, NeededIn
  <1>4. \A v : EnoughIn(v)' = EnoughIn(v) /\ RoomIn(v)' = RoomIn(v)
    BY <1>3 DEF EnoughIn, RoomIn
  <1>5. \A v, i : BufferIn(v, i)' = BufferIn(v, i)
    BY <1>2, <1>4 DEF BufferIn
  <1>6. \A v, i, r : ErrorIn(v, i, r)' = ErrorIn(v, i, r)
    BY <1>1, <1>4, <1>5 DEF ErrorIn
  <1>7. \A v, i, e : FirstErrorIn(v, i, e)' = FirstErrorIn(v, i, e)
    BY <1>1, <1>6 DEF FirstErrorIn, Before
  <1>8. \A i, p, b : LastByteOf(i, p, b)' = LastByteOf(i, p, b)
    BY <1>1 DEF LastByteOf, Writes, ByteOf, Before
  <1>9. \A v, i, f : FinalFile(v, i, f)' = FinalFile(v, i, f)
    <2>1. \A v, i, f : LocatedFile(v, i, f)' = LocatedFile(v, i, f)
      BY <1>1, <1>2, <1>5, <1>6, <1>7, <1>8 DEF LocatedFile
    <2> QED BY <1>1, <2>1 DEF FinalFile
  <1>10. PartsGrouped' = PartsGrouped
    <2>1. \A r, i, k : HoldsPart(Groups, r, i, k)' = HoldsPart(Groups, r, i, k)
      BY <1>1 DEF HoldsPart
    <2> QED BY <1>1, <2>1 DEF PartsGrouped
  <1>11. \A fs : ResultsOf(fs, FALSE)' = ResultsOf(fs, FALSE) /\ FailuresOf(fs)' = FailuresOf(fs)
    <2>1. \A i, f : OutcomeOf(i, f)' = OutcomeOf(i, f)
      BY DEF OutcomeOf
    <2> QED BY <2>1 DEF ResultsOf, FailuresOf, ResultOf, FailureOf
  <1>12. \A c, fs : Reports(c, fs)' = Reports(c, fs)
    <2> SUFFICES ASSUME NEW c, NEW fs PROVE Reports(c, fs)' = Reports(c, fs)
      OBVIOUS
    <2>1. /\ ResultsOf(fs, FALSE)' = ResultsOf(fs, FALSE) /\ FailuresOf(fs)' = FailuresOf(fs)
          /\ (DOMAIN archive.files)' = DOMAIN archive.files
      BY <1>11
    <2>2. (\A i \in DOMAIN fs : FinalFile(c.verify, i, fs[i]))' = (\A i \in DOMAIN fs : FinalFile(c.verify, i, fs[i]))
      BY <1>9
    <2> QED BY <2>1, <2>2 DEF Reports
  <1>13. \A r : ReturnedSound(r)' = ReturnedSound(r) /\ ReportedSound(r)' = ReportedSound(r)
    BY <1>1 DEF ReturnedSound, ReportedSound
  <1> QED BY <1>3, <1>10, <1>12, <1>13 DEF CallFact

-----------------------------------------------------------------------------
(* The whole life of an Archive.                                           *)

\* Open hands on the archive it has parsed or what Apply has left of it, and
\* each call of it is one of those above.
CallsInv ==
  /\ installer \in Installers
  /\ GP!GInv
  /\ CallInv
  /\ ~opened => archive = installer.archive /\ Begun /\ calls = <<>>
  /\ opened => gpc = "idle" /\ archive = Extractable(galaxy)
  /\ calls \in Seq(CallRecord)
  /\ \A c \in DOMAIN calls : CallFact(calls[c])

\* The archives that Apply is called with are what it expects.
LEMMA ApplyAssumption == GP!GogAssumption
  <1>1. MaxUint \in Nat \ {0} /\ 1 \in Nat
    BY IntAssumption
  <1>2. ASSUME NEW i \in Installers
        PROVE  /\ Metadata(i) \in GP!Archive
               /\ \A k \in DOMAIN Metadata(i).files : Metadata(i).files[k].additional = <<>>
    <2>1. /\ i.archive \in Archive /\ i.marks \in Seq(Mark) /\ DOMAIN i.marks = DOMAIN i.archive.files
          /\ \A k \in DOMAIN i.archive.files : i.archive.files[k].additional = <<>>
      BY CallsAssumption, ArchivesAssumption
    <2>2. i.archive.files \in Seq(FileEntry) /\ i.archive.entries \in Seq(DataEntry)
      BY <2>1 DEF Archive
    <2> DEFINE m == Metadata(i)
               n == Len(i.archive.files)
               l == Len(i.archive.entries)
    <2>3. n \in Nat /\ DOMAIN i.archive.files = 1..n /\ l \in Nat /\ DOMAIN i.archive.entries = 1..l
      BY <2>2
    <2>4. ASSUME NEW k \in DOMAIN i.archive.files
          PROVE  m.files[k] \in GP!FileEntry /\ m.files[k].additional = <<>>
      <3>1. i.archive.files[k] \in FileEntry /\ i.marks[k] \in Mark
        BY <2>1, <2>2
      <3>2. Unconditional \in GP!Check
        <4>1. \A S : <<>> \in Seq(S)
          OBVIOUS
        <4> DEFINE nothing == <<>>
        <4>2. Unconditional = [call |-> "none", languages |-> nothing, arch |-> FALSE, bits |-> nothing, component |-> ""]
          BY DEF Unconditional
        <4>3. \A S : nothing \in Seq(S)
          BY <4>1
        <4> HIDE DEF nothing
        <4> QED BY <4>2, <4>3 DEF GP!Check
      <3> DEFINE f == i.archive.files[k]
                 none == <<>>
                 before == i.marks[k].before
                 after == i.marks[k].after
                 g == m.files[k]
                 sum == IF f.hasChecksum THEN "file" ELSE "none"
      <3>3. g =
              [destination |-> "own", size |-> f.size, checksum |-> sum,
               location |-> f.location, additional |-> f.additional,
               before |-> before, after |-> after,
               check |-> Unconditional, languages |-> none, components |-> "",
               bits32 |-> FALSE, bits64 |-> FALSE]
        BY DEF Metadata
      <3>4. none \in Seq(GP!Constraint) /\ sum \in GP!Checksums
        BY DEF GP!Checksums
      <3>5. f.size \in GP!Uint /\ f.location \in Nat /\ f.additional \in Seq(Nat)
        BY <3>1 DEF FileEntry, Uint, GP!Uint
      <3>6. before \in GP!StartMarker /\ after \in GP!PartMarker
        BY <3>1 DEF Mark, GP!StartMarker, GP!PartMarker, Uint, GP!Uint
      <3>7. f.additional = <<>>
        BY <2>1
      <3> HIDE DEF none, sum, f, before, after, g
      <3>8. g \in GP!FileEntry
        BY <3>2, <3>3, <3>4, <3>5, <3>6 DEF GP!FileEntry
      <3>9. g.additional = f.additional
        BY <3>3
      <3> QED BY <3>7, <3>8, <3>9 DEF g
    <2>5. ASSUME NEW k \in DOMAIN i.archive.entries PROVE m.entries[k] \in GP!DataEntry
      <3>1. i.archive.entries[k] \in DataEntry
        BY <2>2
      <3>2. m.entries[k] = [uncompressedSize |-> i.archive.entries[k].uncompressedSize,
                            zlib |-> i.archive.entries[k].filter = "zlib"]
        BY DEF Metadata
      <3> QED BY <3>1, <3>2 DEF DataEntry, GP!DataEntry, Uint, GP!Uint
    <2>6. /\ m.galaxy = FALSE /\ m.languages = {}
          /\ m.files = [k \in 1..n |-> m.files[k]] /\ m.entries = [k \in 1..l |-> m.entries[k]]
          /\ m = [galaxy |-> m.galaxy, files |-> m.files, entries |-> m.entries, languages |-> m.languages]
      BY <2>3 DEF Metadata
    <2> HIDE DEF m
    <2>7. m.files \in Seq(GP!FileEntry) /\ m.entries \in Seq(GP!DataEntry) /\ DOMAIN m.files = 1..n
      <3>1. m.files \in [1..n -> GP!FileEntry]
        BY <2>3, <2>4, <2>6
      <3>2. m.entries \in [1..l -> GP!DataEntry]
        BY <2>3, <2>5, <2>6
      <3> QED BY <2>3, <3>1, <3>2
    <2>8. m \in GP!Archive
      BY <2>6, <2>7 DEF GP!Archive
    <2> QED BY <2>3, <2>4, <2>7, <2>8 DEF m
  <1> QED BY <1>1, <1>2 DEF GP!GogAssumption, Parsed

\* What Apply has seen and left of the files and the entries of an installer.
LEMMA GalaxyTypes ==
  ASSUME installer \in Installers, GP!GInv
  PROVE  /\ installer.archive \in Archive
         /\ installer.marks \in Seq(Mark) /\ DOMAIN installer.marks = DOMAIN installer.archive.files
         /\ Len(installer.archive.files) \in Nat
         /\ DOMAIN installer.archive.files = 1..Len(installer.archive.files)
         /\ DOMAIN galaxy.files = DOMAIN installer.archive.files
         /\ Len(installer.archive.entries) \in Nat
         /\ DOMAIN installer.archive.entries = 1..Len(installer.archive.entries)
         /\ DOMAIN galaxy.entries = DOMAIN installer.archive.entries
         /\ \A k \in DOMAIN galaxy.files : galaxy.files[k] \in GP!FileEntry
         /\ \A k \in DOMAIN galaxy.entries : galaxy.entries[k] \in GP!DataEntry
         /\ \A k \in DOMAIN installer.archive.files :
              installer.archive.files[k] \in FileEntry /\ installer.marks[k] \in Mark
         /\ \A k \in DOMAIN installer.archive.entries : installer.archive.entries[k] \in DataEntry
  <1>1. installer.archive \in Archive /\ installer.marks \in Seq(Mark)
        /\ DOMAIN installer.marks = DOMAIN installer.archive.files
    BY CallsAssumption, ArchivesAssumption
  <1>2. installer.archive.files \in Seq(FileEntry) /\ installer.archive.entries \in Seq(DataEntry)
    BY <1>1 DEF Archive
  <1>3. galaxy.files \in Seq(GP!FileEntry) /\ galaxy.entries \in Seq(GP!DataEntry)
    BY DEF GP!GInv, GP!TypeOK, GP!Archive
  <1> DEFINE n == Len(installer.archive.files)
             l == Len(installer.archive.entries)
  <1>4. /\ n \in Nat /\ l \in Nat /\ DOMAIN installer.archive.files = 1..n
        /\ DOMAIN installer.archive.entries = 1..l
    BY <1>2
  <1>5. Len(galaxy.files) = n /\ Len(galaxy.entries) = l
    <2>1. Len(galaxy.files) = Len(Metadata(installer).files) /\ Len(galaxy.entries) = Len(Metadata(installer).entries)
      BY DEF GP!GInv, GP!Fixed, GP!files0
    <2> DEFINE mf == Metadata(installer).files
               me == Metadata(installer).entries
    <2>2. mf = [k \in 1..n |-> mf[k]] /\ me = [k \in 1..l |-> me[k]]
      BY <1>4 DEF Metadata
    <2> HIDE DEF mf, me, n, l
    <2>3. Len(mf) = n /\ Len(me) = l
      BY <1>4, <2>2, FunctionIsSeq
    <2> QED BY <2>1, <2>3 DEF mf, me
  <1>6. DOMAIN galaxy.files = 1..n /\ DOMAIN galaxy.entries = 1..l
    BY <1>3, <1>5
  <1> HIDE DEF n, l
  <1> QED BY <1>1, <1>2, <1>3, <1>4, <1>6 DEF n, l

\* What Apply leaves is an archive, of the same files.
LEMMA ExtractableType ==
  installer \in Installers /\ GP!GInv
    => /\ Extractable(galaxy) \in Archive
       /\ DOMAIN Extractable(galaxy).files = DOMAIN installer.archive.files
  <1> SUFFICES ASSUME installer \in Installers, GP!GInv
               PROVE  /\ Extractable(galaxy) \in Archive
                      /\ DOMAIN Extractable(galaxy).files = DOMAIN installer.archive.files
    OBVIOUS
  <1> DEFINE x == Extractable(galaxy)
             n == Len(installer.archive.files)
             l == Len(installer.archive.entries)
             sum(k) == CASE galaxy.files[k].checksum = "none"   -> <<>>
                         [] galaxy.files[k].checksum = "file"   -> installer.archive.files[k].checksum
                         [] galaxy.files[k].checksum = "marker" -> installer.marks[k].digest
  <1>1. n \in Nat /\ l \in Nat /\ DOMAIN galaxy.files = 1..n /\ DOMAIN galaxy.entries = 1..l
    BY GalaxyTypes
  <1>2. ASSUME NEW k \in 1..n PROVE x.files[k] \in FileEntry
    <2>1. /\ galaxy.files[k] \in GP!FileEntry
          /\ installer.archive.files[k] \in FileEntry /\ installer.marks[k] \in Mark
      BY <1>1, GalaxyTypes
    <2>2. sum(k) \in Seq(Byte)
      <3>1. <<>> \in Seq(Byte)
        OBVIOUS
      <3>2. installer.archive.files[k].checksum \in Seq(Byte) /\ installer.marks[k].digest \in Seq(Byte)
        BY <2>1 DEF FileEntry, Mark
      <3>3. galaxy.files[k].checksum \in {"none", "file", "marker"}
        BY <2>1 DEF GP!FileEntry, GP!Checksums
      <3> QED BY <3>1, <3>2, <3>3
    <2> HIDE DEF sum
    <2> DEFINE f == x.files[k]
               has == galaxy.files[k].checksum # "none"
    <2>3. f = [location |-> galaxy.files[k].location, additional |-> galaxy.files[k].additional,
               size |-> galaxy.files[k].size, hasChecksum |-> has, checksum |-> sum(k)]
      BY <1>1 DEF Extractable, sum
    <2>4. /\ galaxy.files[k].location \in Nat /\ galaxy.files[k].additional \in Seq(Nat)
          /\ galaxy.files[k].size \in Uint /\ has \in BOOLEAN
      BY <2>1 DEF GP!FileEntry, Uint, GP!Uint
    <2> HIDE DEF has, f
    <2>5. f \in FileEntry
      BY <2>2, <2>3, <2>4 DEF FileEntry
    <2> QED BY <2>5 DEF f
  <1>3. ASSUME NEW k \in 1..l PROVE x.entries[k] \in DataEntry
    <2>1. galaxy.entries[k] \in GP!DataEntry /\ installer.archive.entries[k] \in DataEntry
      BY <1>1, GalaxyTypes
    <2> DEFINE e == installer.archive.entries[k]
               g == galaxy.entries[k]
               filter == IF g.zlib THEN "zlib" ELSE e.filter
    <2>2. x.entries[k] = [e EXCEPT !.uncompressedSize = g.uncompressedSize, !.filter = filter]
      BY <1>1 DEF Extractable
    <2>3. g.uncompressedSize \in Uint /\ filter \in Filters /\ e \in DataEntry
      BY <2>1 DEF GP!DataEntry, DataEntry, Filters, Uint, GP!Uint
    <2> HIDE DEF e, g, filter
    <2> QED BY <2>2, <2>3 DEF DataEntry
  <1>4. /\ x.encrypted = installer.archive.encrypted
        /\ x.files = [k \in 1..n |-> x.files[k]] /\ x.entries = [k \in 1..l |-> x.entries[k]]
        /\ x = [encrypted |-> x.encrypted, files |-> x.files, entries |-> x.entries]
    BY <1>1 DEF Extractable
  <1>5. installer.archive.encrypted \in BOOLEAN /\ DOMAIN installer.archive.files = 1..n
    BY GalaxyTypes DEF Archive
  <1> HIDE DEF x
  <1>6. x.files \in Seq(FileEntry) /\ x.entries \in Seq(DataEntry) /\ DOMAIN x.files = 1..n
    <2>1. x.files \in [1..n -> FileEntry]
      BY <1>2, <1>4
    <2>2. x.entries \in [1..l -> DataEntry]
      BY <1>3, <1>4
    <2> HIDE DEF n, l
    <2> QED BY <1>1, <2>1, <2>2
  <1>7. x \in Archive
    BY <1>4, <1>5, <1>6 DEF Archive
  <1> QED BY <1>5, <1>6, <1>7 DEF x

LEMMA InitCallsInv == CallsInit => CallsInv
  <1> SUFFICES ASSUME CallsInit PROVE CallsInv
    OBVIOUS
  <1>1. installer \in Installers /\ calls = <<>> /\ Gog!Init /\ archive = installer.archive /\ Init
    BY DEF CallsInit
  <1>2. GP!GInv
    BY <1>1, SameInit, ApplyAssumption, GP!InitGInv
  <1>3. applied = <<>>
    BY <1>1 DEF Gog!Init
  <1>4. Begun /\ CallInv
    BY <1>1, InitBegun, InitCallInv
  <1>5. calls \in Seq(CallRecord) /\ DOMAIN calls = {}
    BY <1>1
  <1> QED BY <1>1, <1>2, <1>3, <1>4, <1>5 DEF CallsInv, opened

\* Apply does not move once Open has returned.
LEMMA ApplyKept ==
  ASSUME GP!GInv, UNCHANGED <<installer, applying>>
  PROVE  GP!GInv'
  <1>1. Metadata(installer)' = Metadata(installer)
    BY DEF Metadata, Unconditional
  <1>2. UNCHANGED GP!vars
    BY <1>1 DEF GP!vars, GP!locals, applying
  <1> QED BY <1>2, ApplyAssumption, GP!NextGInv

LEMMA OpeningStep ==
  ASSUME CallsInv, Opening
  PROVE  CallsInv'
  <1>1. /\ ~opened /\ installer' = installer /\ Gog!Next
        /\ archive' = IF applied' = <<>> THEN archive ELSE Extractable(galaxy')
        /\ UNCHANGED <<memoryLimit, verifyOnly, pc, plan, decode, budget, outputs, calls>>
    BY DEF Opening
  <1>2. GP!GInv'
    BY <1>1, SameNext, ApplyAssumption, GP!NextGInv DEF CallsInv
  <1>3. installer.archive = archive /\ Begun /\ calls = <<>> /\ installer \in Installers /\ GP!GInv
    BY <1>1 DEF CallsInv
  <1>4. ASSUME NEW g PROVE Extractable(g)' = Extractable(g)
    BY <1>1 DEF Extractable
  <1>5. archive' \in Archive /\ DOMAIN archive'.files = DOMAIN archive.files
    <2>1. CASE applied' = <<>>
      BY <1>1, <1>3, <2>1 DEF Begun
    <2>2. CASE applied' # <<>>
      <3>1. archive' = Extractable(galaxy)'
        BY <1>1, <2>2 DEF Extractable
      <3>2. (installer \in Installers)'
        BY <1>1, <1>3
      <3>3. (Extractable(galaxy) \in Archive)' /\ (DOMAIN Extractable(galaxy).files = DOMAIN installer.archive.files)'
        BY <1>2, <3>2, ExtractableType, PTL
      <3> QED BY <1>1, <1>3, <3>1, <3>3
    <2> QED BY <2>1, <2>2
  <1>6. Begun'
    BY <1>1, <1>3, <1>5 DEF Begun, Called, FreshFile, plan, decode, budget, outputs
  <1>7. CallInv'
    BY <1>6, InitCallInv, PTL
  <1>8. applied' # <<>> => gpc' = "idle" /\ archive' = Extractable(galaxy)'
    <2>1. applied' # <<>> => archive' = Extractable(galaxy)'
      BY <1>1 DEF Extractable
    <2>2. applied = <<>>
      BY <1>1 DEF opened
    <2>3. applied' # <<>> => gpc' = "idle"
      BY <1>1, <2>2 DEF Gog!Next, Gog!Begin, Gog!LeaveAlone, Gog!StartGroup, Gog!NoStart, Gog!TakePart, Gog!RejectPart,
        Gog!InterruptGroup, Gog!PassFile, Gog!EndParts, Gog!ConstrainFile, Gog!EndConstraints, Gog!MergeLanguages,
        Gog!Done, Gog!FileDone, Gog!vars, Gog!locals
    <2> QED BY <2>1, <2>3
  <1>9. applied' = <<>> => archive' = installer'.archive
    BY <1>1, <1>3
  <1>10. calls' = <<>> /\ calls' \in Seq(CallRecord) /\ DOMAIN calls' = {}
    BY <1>1, <1>3
  <1> QED BY <1>1, <1>2, <1>3, <1>6, <1>7, <1>8, <1>9, <1>10 DEF CallsInv, opened

\* A step that leaves Open alone, and makes calls that have their facts.
LEMMA OpenStays ==
  ASSUME CallsInv, opened, UNCHANGED <<installer, applying>>, archive' = archive, memoryLimit' = memoryLimit,
         CallInv', calls' \in Seq(CallRecord),
         \A c \in DOMAIN calls' : (c \in DOMAIN calls /\ calls'[c] = calls[c]) \/ CallFact(calls'[c])
  PROVE  CallsInv'
  <1>1. GP!GInv'
    BY ApplyKept DEF CallsInv
  <1>2. applied' = applied /\ gpc' = gpc /\ galaxy' = galaxy
    BY DEF applying
  <1>3. Extractable(galaxy)' = Extractable(galaxy)
    BY <1>2 DEF Extractable
  <1>4. ASSUME NEW c \in DOMAIN calls' PROVE CallFact(calls[c])'
    <2>1. PICK d : d = calls'[c]
      OBVIOUS
    <2>2. CallFact(d)
      BY <1>4, <2>1 DEF CallsInv
    <2>3. CallFact(d)'
      BY <2>2, CallFactFixed
    <2>4. \A k \in DOMAIN calls' : k = c => calls'[k] = d
      BY <2>1
    <2>5. c' = c
      OBVIOUS
    <2> QED BY <2>1, <2>3
  <1> QED BY <1>1, <1>2, <1>3, <1>4 DEF CallsInv, opened

LEMMA StepInputs ==
  ASSUME Step
  PROVE  UNCHANGED inputs
  BY DEF Step, RejectArchive, AcceptArchive, SkipFile, StartFile, AddPart, RejectPart,
    SizeFile, AddRef, EndFile, EndFiles, SortGroup, EndSort, PassFile, PlanFile,
    RefuseFile, EndPlan, ReserveOutput, RefuseOutput, SkipGroup, OpenChunk, FailOpen, ReadChunk, FailRead,
    ReserveChunk, FailGroup, SkipRef, DecodeSegment, FailSegment, PlaceSegment, ReleaseChunk, EndGroups,
    ReportSkipped, ReportFailure, ReportResult, Return

\* What a call returns has its facts.
LEMMA AnsweringFact ==
  ASSUME CallsInv, Answering
  PROVE  CallFact(Answer')
  <1>1. CallInv /\ Step /\ pc' = "done" /\ opened
    BY DEF CallsInv, Answering
  <1>2. RejectArchive \/ Return
    BY <1>1 DEF Step, RejectArchive, AcceptArchive, SkipFile, StartFile, AddPart, RejectPart,
      SizeFile, AddRef, EndFile, EndFiles, SortGroup, EndSort, PassFile, PlanFile,
      RefuseFile, EndPlan, ReserveOutput, RefuseOutput, SkipGroup, OpenChunk, FailOpen, ReadChunk, FailRead,
      ReserveChunk, FailGroup, SkipRef, DecodeSegment, FailSegment, PlaceSegment, ReleaseChunk, EndGroups,
      ReportSkipped, ReportFailure, ReportResult
  <1>3. CASE Return
    <2>1. /\ pc = "finalize" /\ ~MoreFiles
          /\ UNCHANGED <<verifyOnly, results, failures, archiveErr>>
      BY <1>3 DEF Return, inputs, outputs
    <2>2. Answer' = Answer
      BY <2>1 DEF Answer
    <2> QED BY <1>1, <2>1, <2>2, ReturnedFact
  <1>4. CASE RejectArchive
    <2>1. /\ pc = "start" /\ Refused /\ archiveErr' = RefusalOf
          /\ verifyOnly' = verifyOnly /\ results' = results /\ failures' = failures
      BY <1>4 DEF RejectArchive, inputs, Refused, RefusalOf
    <2>2. results = <<>> /\ failures = <<>>
      BY <1>1, <2>1 DEF CallInv, AllReported
    <2>3. RefusalOf # "none"
      BY DEF RefusalOf
    <2>4. Answer' = [verify |-> verifyOnly, files |-> <<>>, err |-> RefusalOf, failures |-> <<>>]
      BY <2>1, <2>2, <2>3 DEF Answer
    <2> QED BY <1>1, <2>1, <2>4, RefusedFact
  <1> QED BY <1>2, <1>3, <1>4

LEMMA NextCallsInv == CallsInv /\ [CallsNext]_everything => CallsInv'
  <1> SUFFICES ASSUME CallsInv, [CallsNext]_everything PROVE CallsInv'
    OBVIOUS
  <1>1. CASE Opening
    BY <1>1, OpeningStep
  <1>2. CASE Working
    <2>1. /\ opened /\ Step /\ UNCHANGED <<installer, applying, calls>>
      BY <1>2 DEF Working
    <2>2. CallInv'
      BY <2>1, NextCallInv DEF CallsInv, Next
    <2>3. archive' = archive /\ memoryLimit' = memoryLimit
      BY <2>1, StepInputs DEF inputs
    <2> QED BY <2>1, <2>2, <2>3, OpenStays DEF CallsInv
  <1>3. CASE Answering
    <2>1. /\ opened /\ Step /\ UNCHANGED <<installer, applying>>
          /\ calls' = Append(calls, Answer')
      BY <1>3 DEF Answering
    <2>2. CallInv'
      BY <2>1, NextCallInv DEF CallsInv, Next
    <2>3. archive' = archive /\ memoryLimit' = memoryLimit
      BY <2>1, StepInputs DEF inputs
    <2>4. PICK a : a = Answer'
      OBVIOUS
    <2>5. CallFact(a) /\ a \in CallRecord
      BY <1>3, <2>4, AnsweringFact DEF CallFact
    <2>6. calls \in Seq(CallRecord) /\ calls' = Append(calls, a)
      BY <2>1, <2>4 DEF CallsInv
    <2>7. /\ calls' \in Seq(CallRecord)
          /\ \A c \in DOMAIN calls' : (c \in DOMAIN calls /\ calls'[c] = calls[c]) \/ calls'[c] = a
      BY <2>5, <2>6
    <2> QED BY <2>1, <2>2, <2>3, <2>5, <2>7, OpenStays
  <1>4. ASSUME NEW verify \in BOOLEAN, Call(verify) PROVE CallsInv'
    <2>1. /\ pc = "done" /\ UNCHANGED <<installer, applying, archive, memoryLimit, calls>>
      BY <1>4 DEF Call
    <2>2. opened
      BY <2>1 DEF CallsInv, Begun, Called
    <2>3. archive \in Archive /\ memoryLimit \in MemoryLimits
      BY DEF CallsInv, CallInv, DInv, RInv, Laid, IInv, TypeOK
    <2>4. Begun'
      BY <1>4, <2>3 DEF Begun, Called, Call, NewBudget, FreshFile
    <2>5. CallInv'
      BY <2>4, InitCallInv, PTL
    <2> QED BY <2>1, <2>2, <2>5, OpenStays DEF CallsInv
  <1>5. CASE CallsDone \/ UNCHANGED everything
    <2>1. UNCHANGED <<installer, applying, vars, calls>>
      BY <1>5 DEF CallsDone, everything
    <2>2. CallInv'
      BY <2>1, NextCallInv DEF CallsInv
    <2>3. archive' = archive /\ memoryLimit' = memoryLimit
      BY <2>1 DEF vars, inputs
    <2>4. CASE opened
      BY <2>1, <2>2, <2>3, <2>4, OpenStays DEF CallsInv
    <2>5. CASE ~opened
      <3>1. GP!GInv'
        BY <2>1, ApplyKept DEF CallsInv
      <3>2. archive = installer.archive /\ Begun /\ calls = <<>> /\ installer \in Installers
        BY <2>5 DEF CallsInv
      <3>3. Begun'
        BY <2>1, <3>2 DEF Begun, Called, FreshFile, vars, inputs, plan, decode, budget, outputs
      <3>4. applied' = applied /\ calls' = <<>> /\ calls' \in Seq(CallRecord) /\ DOMAIN calls' = {}
        BY <2>1, <3>2 DEF applying
      <3> QED BY <2>1, <2>2, <2>3, <2>5, <3>1, <3>2, <3>3, <3>4 DEF CallsInv, opened
    <2> QED BY <2>4, <2>5
  <1> QED BY <1>1, <1>2, <1>3, <1>4, <1>5 DEF CallsNext

LEMMA AlwaysCallsInv == CallsSpec => []CallsInv
  BY InitCallsInv, NextCallsInv, PTL DEF CallsSpec

-----------------------------------------------------------------------------
(* What the calls answer, file by file.                                    *)

Good(i, f) == ~f.skip /\ OutcomeOf(i, f) = "none"
Bad(i, f) == ~f.skip /\ OutcomeOf(i, f) # "none"

\* The files a call returns are the good ones, and it reports the bad ones.
LEMMA ReportedFiles ==
  ASSUME NEW c, NEW fs, Reports(c, fs)
  PROVE  /\ \A k \in DOMAIN c.files : ~c.verify /\
              \E i \in DOMAIN fs : Good(i, fs[i]) /\ c.files[k] = [file |-> i, data |-> fs[i].data]
         /\ ~c.verify => \A i \in DOMAIN fs : Good(i, fs[i]) =>
              \E k \in DOMAIN c.files : c.files[k] = [file |-> i, data |-> fs[i].data]
         /\ \A k \in DOMAIN c.failures :
              \E i \in DOMAIN fs : Bad(i, fs[i]) /\ c.failures[k] = [file |-> i, err |-> OutcomeOf(i, fs[i])]
         /\ \A i \in DOMAIN fs : Bad(i, fs[i]) =>
              \E k \in DOMAIN c.failures : c.failures[k] = [file |-> i, err |-> OutcomeOf(i, fs[i])]
<1> DEFINE n == Len(fs)
           R == ResultsOf(fs, FALSE)
           F == FailuresOf(fs)
<1>1. /\ fs \in Seq(FileAssembly)
      /\ c.files = IF c.verify THEN <<>> ELSE Chained(R)[n]
      /\ c.failures = Chained(F)[n]
  BY DEF Reports
<1>2. n \in Nat /\ n \in 0..n /\ DOMAIN fs = 1..n
  BY <1>1
<1>3. /\ R \in Seq(Seq(Result)) /\ Len(R) = n /\ F \in Seq(Seq(Failure)) /\ Len(F) = n
      /\ \A i \in 1..n : R[i] = ResultOf(i, fs[i], FALSE) /\ F[i] = FailureOf(i, fs[i])
  BY <1>1, ReportTypes
<1> HIDE DEF R, F, n
<1>4. /\ \A k \in DOMAIN Chained(R)[n] : \E i \in 1..n : \E m \in DOMAIN R[i] : Chained(R)[n][k] = R[i][m]
      /\ \A i \in 1..n : \A m \in DOMAIN R[i] : \E k \in DOMAIN Chained(R)[n] : Chained(R)[n][k] = R[i][m]
  <2>1. R \in Seq(Seq(Result)) /\ n \in 0..Len(R)
    BY <1>2, <1>3
  <2>2. \A k \in DOMAIN Chained(R)[n] : \E i \in 1..n : \E m \in DOMAIN R[i] : Chained(R)[n][k] = R[i][m]
    BY ONLY <2>1, ChainedElements
  <2>3. \A i \in 1..n : \A m \in DOMAIN R[i] : \E k \in DOMAIN Chained(R)[n] : Chained(R)[n][k] = R[i][m]
    BY ONLY <2>1, ChainedElements
  <2> QED BY <2>2, <2>3
<1>5. /\ \A k \in DOMAIN Chained(F)[n] : \E i \in 1..n : \E m \in DOMAIN F[i] : Chained(F)[n][k] = F[i][m]
      /\ \A i \in 1..n : \A m \in DOMAIN F[i] : \E k \in DOMAIN Chained(F)[n] : Chained(F)[n][k] = F[i][m]
  <2>1. F \in Seq(Seq(Failure)) /\ n \in 0..Len(F)
    BY <1>2, <1>3
  <2>2. \A k \in DOMAIN Chained(F)[n] : \E i \in 1..n : \E m \in DOMAIN F[i] : Chained(F)[n][k] = F[i][m]
    BY ONLY <2>1, ChainedElements
  <2>3. \A i \in 1..n : \A m \in DOMAIN F[i] : \E k \in DOMAIN Chained(F)[n] : Chained(F)[n][k] = F[i][m]
    BY ONLY <2>1, ChainedElements
  <2> QED BY <2>2, <2>3
<1>6. ASSUME NEW i \in 1..n
      PROVE  /\ \A m \in DOMAIN R[i] : Good(i, fs[i]) /\ R[i][m] = [file |-> i, data |-> fs[i].data]
             /\ Good(i, fs[i]) => 1 \in DOMAIN R[i] /\ R[i][1] = [file |-> i, data |-> fs[i].data]
             /\ \A m \in DOMAIN F[i] : Bad(i, fs[i]) /\ F[i][m] = [file |-> i, err |-> OutcomeOf(i, fs[i])]
             /\ Bad(i, fs[i]) => 1 \in DOMAIN F[i] /\ F[i][1] = [file |-> i, err |-> OutcomeOf(i, fs[i])]
  <2> DEFINE g == [file |-> i, data |-> fs[i].data]
             b == [file |-> i, err |-> OutcomeOf(i, fs[i])]
  <2>1. R[i] = IF Good(i, fs[i]) THEN <<g>> ELSE <<>>
    BY <1>3 DEF ResultOf, Good
  <2>2. F[i] = IF Bad(i, fs[i]) THEN <<b>> ELSE <<>>
    BY <1>3 DEF FailureOf, Bad
  <2> HIDE DEF g, b
  <2>3. /\ \A m \in DOMAIN R[i] : Good(i, fs[i]) /\ R[i][m] = g
        /\ Good(i, fs[i]) => 1 \in DOMAIN R[i] /\ R[i][1] = g
    BY <2>1
  <2>4. /\ \A m \in DOMAIN F[i] : Bad(i, fs[i]) /\ F[i][m] = b
        /\ Bad(i, fs[i]) => 1 \in DOMAIN F[i] /\ F[i][1] = b
    BY <2>2
  <2> QED BY <2>3, <2>4 DEF g, b
<1>7. ASSUME NEW k \in DOMAIN c.files
      PROVE  ~c.verify /\ \E i \in DOMAIN fs : Good(i, fs[i]) /\ c.files[k] = [file |-> i, data |-> fs[i].data]
  <2>1. ~c.verify /\ c.files = Chained(R)[n]
    BY <1>1, <1>7
  <2>2. PICK i \in 1..n : \E m \in DOMAIN R[i] : c.files[k] = R[i][m]
    BY <1>4, <1>7, <2>1
  <2>3. i \in DOMAIN fs /\ Good(i, fs[i]) /\ c.files[k] = [file |-> i, data |-> fs[i].data]
    BY <1>2, <1>6, <2>2
  <2> QED BY <2>1, <2>3
<1>8. ASSUME ~c.verify, NEW i \in DOMAIN fs, Good(i, fs[i])
      PROVE  \E k \in DOMAIN c.files : c.files[k] = [file |-> i, data |-> fs[i].data]
  <2>1. i \in 1..n /\ 1 \in DOMAIN R[i] /\ R[i][1] = [file |-> i, data |-> fs[i].data]
    BY <1>2, <1>6, <1>8
  <2>2. \E k \in DOMAIN Chained(R)[n] : Chained(R)[n][k] = R[i][1]
    BY <1>4, <2>1
  <2> QED BY <1>1, <1>8, <2>1, <2>2
<1>9. ASSUME NEW k \in DOMAIN c.failures
      PROVE  \E i \in DOMAIN fs : Bad(i, fs[i]) /\ c.failures[k] = [file |-> i, err |-> OutcomeOf(i, fs[i])]
  <2>1. PICK i \in 1..n : \E m \in DOMAIN F[i] : c.failures[k] = F[i][m]
    BY <1>1, <1>5, <1>9
  <2> QED BY <1>2, <1>6, <2>1
<1>10. ASSUME NEW i \in DOMAIN fs, Bad(i, fs[i])
       PROVE  \E k \in DOMAIN c.failures : c.failures[k] = [file |-> i, err |-> OutcomeOf(i, fs[i])]
  <2>1. i \in 1..n /\ 1 \in DOMAIN F[i] /\ F[i][1] = [file |-> i, err |-> OutcomeOf(i, fs[i])]
    BY <1>2, <1>6, <1>10
  <2>2. \E k \in DOMAIN Chained(F)[n] : Chained(F)[n][k] = F[i][1]
    BY <1>5, <2>1
  <2> QED BY <1>1, <2>1, <2>2
<1> QED BY <1>7, <1>8, <1>9, <1>10

\* A good file of an extraction has a buffer, and none of its segments has an
\* error.
LEMMA GoodFile ==
  ASSUME NEW i, NEW f, FinalFile(FALSE, i, f), Good(i, f)
  PROVE  /\ ~External(i) /\ Located(i) /\ BufferIn(FALSE, i) /\ ~f.failed
         /\ Len(f.data) = OutputSize(i)
         /\ \A r \in Slots(Groups, i) : ErrorIn(FALSE, i, r) = "none"
<1>1. ~f.skip /\ ~External(i) /\ ~f.failed
  <2>1. f.failed => OutcomeOf(i, f) = f.err /\ f.err # "none"
    BY DEF FinalFile, OutcomeOf
  <2> QED BY <2>1 DEF FinalFile, Good
<1>2. Located(i) /\ LocatedFile(FALSE, i, f)
  BY <1>1 DEF FinalFile
<1>3. AssemblesIn(FALSE, i)
  BY DEF AssemblesIn
<1>4. BufferIn(FALSE, i)
  BY <1>1, <1>2, <1>3 DEF LocatedFile
<1> QED BY <1>1, <1>2, <1>4 DEF LocatedFile

\* No part of a file without an error is in an encrypted chunk.
LEMMA PlainParts ==
  ASSUME NEW verify, NEW i \in DOMAIN archive.files, PartsGrouped, ~External(i), Located(i),
         \A r \in Slots(Groups, i) : ErrorIn(verify, i, r) = "none",
         NEW m \in DOMAIN Parts(i)
  PROVE  ~Entry(Parts(i)[m]).chunk.encrypted
<1>1. PICK r \in Slots(Groups, i) : HoldsPart(Groups, r, i, m)
  BY DEF PartsGrouped
<1> DEFINE x == Groups[r[1]].refs[r[2]]
<1>2. x.entry = Entry(Parts(i)[m])
  BY <1>1 DEF HoldsPart
<1>3. RefErrorIn(RoomIn(verify), BufferIn(verify, i), OutputSize(i), x) = "none"
  BY DEF ErrorIn
<1> HIDE DEF x
<1>4. ChunkErrorIn(RoomIn(verify), x.entry.chunk) = "none"
  BY <1>3 DEF RefErrorIn
<1> QED BY <1>2, <1>4 DEF ChunkErrorIn

-----------------------------------------------------------------------------
(* Calls of one mode answer the same.                                      *)

\* The slots of a file are in a total order.
LEMMA SlotsInOrder ==
  ASSUME PartsGrouped, NEW i, NEW q \in Slots(Groups, i), NEW r \in Slots(Groups, i)
  PROVE  q = r \/ Before(q, r) \/ Before(r, q)
<1>1. Groups \in Seq(ChunkGroup)
  BY DEF PartsGrouped
<1>2. /\ q = <<q[1], q[2]>> /\ r = <<r[1], r[2]>>
      /\ q[1] \in DOMAIN Groups /\ q[2] \in DOMAIN Groups[q[1]].refs
      /\ r[1] \in DOMAIN Groups /\ r[2] \in DOMAIN Groups[r[1]].refs
  BY SlotsMember
<1>3. Groups[q[1]].refs \in Seq(SegmentRef) /\ Groups[r[1]].refs \in Seq(SegmentRef)
  <2> DEFINE g == Groups[q[1]]
             h == Groups[r[1]]
  <2>1. g \in ChunkGroup
    BY <1>1, <1>2
  <2>2. h \in ChunkGroup
    BY <1>1, <1>2
  <2> HIDE DEF g, h
  <2>3. g.refs \in Seq(SegmentRef) /\ h.refs \in Seq(SegmentRef)
    BY <2>1, <2>2 DEF ChunkGroup
  <2> QED BY <2>3 DEF g, h
<1>4. q[1] \in Nat /\ r[1] \in Nat
  BY <1>1, <1>2
<1>5. q[2] \in Nat /\ r[2] \in Nat
  BY <1>2, <1>3
<1> QED BY <1>2, <1>4, <1>5 DEF Before

\* There is one first error, and one last byte.
LEMMA OneFirstError ==
  ASSUME PartsGrouped, NEW verify, NEW i, NEW a, NEW b, a # "none", b # "none",
         FirstErrorIn(verify, i, a), FirstErrorIn(verify, i, b)
  PROVE  a = b
<1>1. PICK q \in Slots(Groups, i) :
        /\ ErrorIn(verify, i, q) = a
        /\ \A s \in Slots(Groups, i) : Before(s, q) => ErrorIn(verify, i, s) \in {"none", a}
  BY DEF FirstErrorIn
<1>2. PICK r \in Slots(Groups, i) :
        /\ ErrorIn(verify, i, r) = b
        /\ \A s \in Slots(Groups, i) : Before(s, r) => ErrorIn(verify, i, s) \in {"none", b}
  BY DEF FirstErrorIn
<1>3. q = r \/ Before(q, r) \/ Before(r, q)
  BY SlotsInOrder
<1> QED BY <1>1, <1>2, <1>3

LEMMA OneLastByte ==
  ASSUME PartsGrouped, NEW i, NEW p, NEW a, NEW b, LastByteOf(i, p, a), LastByteOf(i, p, b)
  PROVE  a = b
<1>1. CASE \A r \in Slots(Groups, i) : ~Writes(Groups, r, p)
  BY <1>1 DEF LastByteOf
<1>2. CASE ~(\A r \in Slots(Groups, i) : ~Writes(Groups, r, p))
  <2>1. PICK q \in Slots(Groups, i) :
          /\ Writes(Groups, q, p) /\ a = ByteOf(Groups, q, p)
          /\ \A s \in Slots(Groups, i) : Writes(Groups, s, p) => ~Before(q, s)
    BY <1>2 DEF LastByteOf
  <2>2. PICK r \in Slots(Groups, i) :
          /\ Writes(Groups, r, p) /\ b = ByteOf(Groups, r, p)
          /\ \A s \in Slots(Groups, i) : Writes(Groups, s, p) => ~Before(r, s)
    BY <1>2 DEF LastByteOf
  <2>3. q = r
    BY <2>1, <2>2, SlotsInOrder
  <2> QED BY <2>1, <2>2, <2>3
<1> QED BY <1>1, <1>2

\* So there is one content of a buffer.
LEMMA OneContent ==
  ASSUME PartsGrouped, NEW i, NEW s \in Seq(Byte), NEW t \in Seq(Byte), NEW n, Len(s) = n, Len(t) = n,
         \A p \in 1..n : LastByteOf(i, p, s[p]), \A p \in 1..n : LastByteOf(i, p, t[p])
  PROVE  s = t
<1>1. \A p \in 1..n : s[p] = t[p]
  BY OneLastByte
<1>2. DOMAIN s = 1..n /\ DOMAIN t = 1..n /\ s = [p \in DOMAIN s |-> s[p]] /\ t = [p \in DOMAIN t |-> t[p]]
  OBVIOUS
<1> QED BY <1>1, <1>2

\* A call of one mode makes the same of a file as any other.
LEMMA SameOutcome ==
  ASSUME PartsGrouped, NEW verify, NEW i, NEW f, NEW g,
         FinalFile(verify, i, f), FinalFile(verify, i, g), ~f.skip
  PROVE  /\ OutcomeOf(i, f) = OutcomeOf(i, g)
         /\ ~verify /\ OutcomeOf(i, f) = "none" => f.data = g.data
<1>1. /\ f \in FileAssembly /\ g \in FileAssembly /\ ~External(i)
      /\ f.failed <=> f.err # "none"
      /\ g.failed <=> g.err # "none"
  BY DEF FinalFile
<1>2. f.data \in Seq(Byte) /\ g.data \in Seq(Byte) /\ f.failed \in BOOLEAN /\ g.failed \in BOOLEAN
  BY <1>1 DEF FileAssembly
<1>3. CASE ~Located(i)
  BY <1>1, <1>3 DEF FinalFile, OutcomeOf
<1>4. CASE Located(i)
  <2>1. LocatedFile(verify, i, f) /\ LocatedFile(verify, i, g)
    BY <1>1, <1>4 DEF FinalFile
  <2>2. CASE AssemblesIn(verify, i) /\ ~BufferIn(verify, i)
    BY <2>1, <2>2 DEF LocatedFile, OutcomeOf
  <2>3. CASE BufferIn(verify, i) \/ ~AssemblesIn(verify, i)
    <3>1. /\ f.failed <=> g.failed
          /\ f.failed => FirstErrorIn(verify, i, f.err) /\ FirstErrorIn(verify, i, g.err)
      BY <1>2, <2>1, <2>3 DEF LocatedFile
    <3>2. CASE f.failed
      <4>1. f.err = g.err
        BY <1>1, <3>1, <3>2, OneFirstError
      <4> QED BY <1>1, <3>1, <3>2, <4>1 DEF OutcomeOf
    <3>3. CASE ~f.failed /\ BufferIn(verify, i)
      <4>1. f.totalSize = OutputSize(i) /\ g.totalSize = OutputSize(i)
        BY <2>1 DEF LocatedFile
      <4>2. /\ Len(f.data) = OutputSize(i) /\ \A p \in 1..OutputSize(i) : LastByteOf(i, p, f.data[p])
            /\ Len(g.data) = OutputSize(i) /\ \A p \in 1..OutputSize(i) : LastByteOf(i, p, g.data[p])
        BY <2>1, <3>1, <3>3 DEF LocatedFile
      <4>3. f.data = g.data
        BY <1>2, <4>2, OneContent
      <4> QED BY <3>1, <3>3, <4>1, <4>3 DEF OutcomeOf
    <3>4. CASE ~f.failed /\ ~BufferIn(verify, i)
      <4>1. verify /\ ~archive.files[i].hasChecksum
        BY <2>3, <3>4 DEF AssemblesIn
      <4> QED BY <3>1, <3>4, <4>1 DEF OutcomeOf
    <3> QED BY <3>2, <3>3, <3>4
  <2> QED BY <2>2, <2>3
<1> QED BY <1>3, <1>4

\* Two calls of one mode are one answer.
LEMMA SameAnswer ==
  ASSUME NEW c, NEW d, CallFact(c), CallFact(d), c.verify = d.verify
  PROVE  c = d
<1>1. c \in CallRecord /\ d \in CallRecord
  BY DEF CallFact
<1>2. ASSUME c.files = d.files, c.err = d.err, c.failures = d.failures PROVE c = d
  <2>1. /\ c = [verify |-> c.verify, files |-> c.files, err |-> c.err, failures |-> c.failures]
        /\ d = [verify |-> d.verify, files |-> d.files, err |-> d.err, failures |-> d.failures]
    BY <1>1 DEF CallRecord
  <2> QED BY <1>2, <2>1
<1>3. CASE Refused
  BY <1>2, <1>3 DEF CallFact
<1>4. CASE ~Refused
  <2>1. PartsGrouped /\ \E fs : Reports(c, fs)
    BY <1>4 DEF CallFact
  <2>2. \E gs : Reports(d, gs)
    BY <1>4 DEF CallFact
  <2>3. PICK fs : Reports(c, fs)
    BY <2>1
  <2>4. PICK gs : Reports(d, gs)
    BY <2>2
  <2>5. /\ fs \in Seq(FileAssembly) /\ gs \in Seq(FileAssembly)
        /\ DOMAIN fs = DOMAIN gs
        /\ \A i \in DOMAIN fs : FinalFile(c.verify, i, fs[i]) /\ FinalFile(c.verify, i, gs[i])
    BY <2>3, <2>4 DEF Reports
  <2>6. Len(fs) = Len(gs) /\ Len(fs) \in Nat /\ DOMAIN fs = 1..Len(fs)
    BY <2>5
  <2>7. ASSUME NEW i \in 1..Len(fs)
        PROVE  /\ FailureOf(i, fs[i]) = FailureOf(i, gs[i])
               /\ ~c.verify => ResultOf(i, fs[i], FALSE) = ResultOf(i, gs[i], FALSE)
    <3>1. FinalFile(c.verify, i, fs[i]) /\ FinalFile(c.verify, i, gs[i])
      BY <2>5, <2>6
    <3>2. fs[i].skip = gs[i].skip
      BY <3>1 DEF FinalFile
    <3>3. CASE fs[i].skip
      BY <3>2, <3>3 DEF FailureOf, ResultOf
    <3>4. CASE ~fs[i].skip
      <4>1. /\ OutcomeOf(i, fs[i]) = OutcomeOf(i, gs[i])
            /\ ~c.verify /\ OutcomeOf(i, fs[i]) = "none" => fs[i].data = gs[i].data
        BY <2>1, <3>1, <3>4, SameOutcome
      <4> QED BY <3>2, <4>1 DEF FailureOf, ResultOf
    <3> QED BY <3>3, <3>4
  <2>8. FailuresOf(fs) = FailuresOf(gs)
    BY <2>6, <2>7 DEF FailuresOf
  <2>9. ~c.verify => ResultsOf(fs, FALSE) = ResultsOf(gs, FALSE)
    BY <2>6, <2>7 DEF ResultsOf
  <2>10. c.failures = d.failures /\ c.files = d.files
    BY <2>3, <2>4, <2>6, <2>8, <2>9 DEF Reports
  <2>11. c.err = d.err
    BY <2>3, <2>4, <2>10 DEF Reports
  <2> QED BY <1>2, <2>10, <2>11
<1> QED BY <1>3, <1>4

\* A call does not change what the next one answers, whatever the installer and
\* the memory: see CallsAreRepeatable.
THEOREM RepeatableCorrect == CallsSpec => []CallsAreRepeatable
<1>1. CallsInv => CallsAreRepeatable
  BY SameAnswer DEF CallsInv, CallsAreRepeatable
<1> QED BY <1>1, AlwaysCallsInv, PTL

-----------------------------------------------------------------------------
(* Verifying asks for less than extracting.                                *)

\* Verifying leaves at least as much of the limit.
LEMMA VerifyHasRoom ==
  ASSUME archive \in Archive, ~Refused, memoryLimit \in MemoryLimits, EnoughIn(FALSE)
  PROVE  /\ EnoughIn(TRUE)
         /\ RoomIn(FALSE) \in Int /\ RoomIn(TRUE) \in Int /\ RoomIn(FALSE) <= RoomIn(TRUE)
<1> DEFINE less == NeededIn(TRUE)
           more == NeededIn(FALSE)
           n == Len(archive.files)
<1>1. n \in Nat /\ DOMAIN archive.files = 1..n
  <2>1. archive.files \in Seq(FileEntry)
    BY DEF Archive
  <2> QED BY <2>1
<1>2. ASSUME NEW v \in BOOLEAN, NEW i \in 1..n, NeedsIn(v, i)
      PROVE  OutputSize(i) \in Nat
  <2>1. Located(i)
    BY <1>2 DEF NeedsIn
  <2>2. ~External(i) /\ i \in DOMAIN archive.files
    BY <1>1, <1>2 DEF NeedsIn
  <2> QED BY <2>1, <2>2, OutputSizesType
<1>3. less = [i \in 1..n |-> IF NeedsIn(TRUE, i) THEN OutputSize(i) ELSE 0]
  BY <1>1 DEF NeededIn
<1>4. more = [i \in 1..n |-> IF NeedsIn(FALSE, i) THEN OutputSize(i) ELSE 0]
  BY <1>1 DEF NeededIn
<1>5. \A i \in 1..n : NeedsIn(TRUE, i) => NeedsIn(FALSE, i)
  BY DEF NeedsIn, AssemblesIn
<1>6. \A i \in 1..n : NeedsIn(FALSE, i) => OutputSize(i) \in Nat
  BY <1>2
<1> DEFINE whole == Total(more)
           part == Total(less)
           enough == EnoughIn(TRUE)
           little == RoomIn(FALSE)
           much == RoomIn(TRUE)
<1>7. whole <= LimitOf
  BY DEF EnoughIn
<1>8. part <= LimitOf => enough
  BY DEF EnoughIn
<1>9. little = LimitOf - whole /\ (enough => much = LimitOf - part)
  BY DEF RoomIn
<1> HIDE DEF n, less, more
<1>10. less \in [1..n -> Nat] /\ more \in [1..n -> Nat]
  BY <1>3, <1>4, <1>5, <1>6
<1>11. ASSUME NEW i \in 1..n PROVE less[i] <= more[i]
  <2> DEFINE size == OutputSize(i)
             a == NeedsIn(TRUE, i)
             b == NeedsIn(FALSE, i)
  <2>1. less[i] = IF a THEN size ELSE 0
    BY <1>3
  <2>2. more[i] = IF b THEN size ELSE 0
    BY <1>4
  <2>3. (a => b) /\ (b => size \in Nat)
    BY <1>5, <1>6
  <2> HIDE DEF a, b, size
  <2> QED BY <2>1, <2>2, <2>3
<1>12. less \in Seq(Nat) /\ more \in Seq(Nat) /\ Len(less) = n /\ Len(more) = n
  BY <1>1, <1>10
<1>13. part <= whole /\ part \in Nat /\ whole \in Nat
  BY <1>11, <1>12, TotalLeq, TotalType
<1>14. LimitOf \in Int
  BY IntAssumption DEF LimitOf
<1> HIDE DEF part, whole, enough, little, much
<1>15. enough
  BY <1>7, <1>8, <1>13, <1>14
<1>16. little \in Int /\ much \in Int /\ little <= much
  BY <1>9, <1>13, <1>14, <1>15
<1> QED BY <1>15, <1>16 DEF enough, little, much

\* A segment that is in order with little room and a buffer is in order with
\* more room, whether or not it has a buffer.
LEMMA MoreRoom ==
  ASSUME NEW little \in Int, NEW much \in Int, little <= much, NEW x, NEW b, NEW size,
         x.entry.chunk.dict \in Int, x.entry.chunk.length \in Int, Len(PartBytes(x.entry)) \in Int,
         RefErrorIn(little, TRUE, size, x) = "none"
  PROVE  RefErrorIn(much, b, size, x) = "none"
<1> DEFINE c == x.entry.chunk
           e == x.entry
<1>1. ChunkErrorIn(little, c) = "none"
  BY DEF RefErrorIn
<1>2. PartErrorIn(little, e) = "none"
  BY DEF RefErrorIn
<1>3. /\ ~(e.uncompressedSize # 0 /\ Len(PartBytes(e)) # e.uncompressedSize)
      /\ ~(x.dest + Len(PartBytes(e)) > size)
  BY <1>1, <1>2 DEF RefErrorIn
<1>4. ChunkErrorIn(much, c) = "none"
  BY <1>1 DEF ChunkErrorIn
<1>5. PartErrorIn(much, e) = "none"
  <2> DEFINE bytes == Len(PartBytes(e))
  <2>1. bytes \in Int
    OBVIOUS
  <2> HIDE DEF bytes
  <2>2. bytes > much - e.chunk.length => bytes > little - e.chunk.length
    BY <2>1
  <2> QED BY <1>2, <2>2 DEF PartErrorIn, bytes
<1> QED BY <1>3, <1>4, <1>5 DEF RefErrorIn

\* A file that is good when it is extracted is good when it is verified.
LEMMA VerifyGood ==
  ASSUME archive \in Archive, memoryLimit \in MemoryLimits, ~Refused, PartsGrouped,
         NEW i \in DOMAIN archive.files, NEW f, NEW g,
         FinalFile(TRUE, i, f), FinalFile(FALSE, i, g), Good(i, g)
  PROVE  ~Bad(i, f)
<1>1. /\ ~External(i) /\ Located(i) /\ BufferIn(FALSE, i) /\ ~g.failed
      /\ Len(g.data) = OutputSize(i)
      /\ \A r \in Slots(Groups, i) : ErrorIn(FALSE, i, r) = "none"
  BY GoodFile
<1>2. EnoughIn(FALSE)
  BY <1>1 DEF BufferIn
<1>3. /\ EnoughIn(TRUE)
      /\ RoomIn(FALSE) \in Int /\ RoomIn(TRUE) \in Int /\ RoomIn(FALSE) <= RoomIn(TRUE)
  BY <1>2, VerifyHasRoom
<1>4. AssemblesIn(TRUE, i) => BufferIn(TRUE, i)
  BY <1>1, <1>3 DEF BufferIn, NeedsIn, AssemblesIn
<1>5. ASSUME NEW r \in Slots(Groups, i) PROVE ErrorIn(TRUE, i, r) = "none"
  <2> DEFINE x == Groups[r[1]].refs[r[2]]
  <2>1. PICK m \in DOMAIN Parts(i) : HoldsPart(Groups, r, i, m)
    BY <1>1 DEF PartsGrouped
  <2>2. x.entry = Entry(Parts(i)[m])
    BY <2>1 DEF HoldsPart
  <2>3. x.entry \in DataEntry
    BY <1>1, <2>2, LocatedPart
  <2> DEFINE e == x.entry
  <2>4. Len(PartBytes(e)) \in Nat
    BY <2>3, PartBytesLength
  <2>5. e.chunk \in Chunk
    BY <2>3 DEF DataEntry
  <2>6. e.chunk.dict \in Nat /\ e.chunk.length \in Nat
    BY <2>5 DEF Chunk
  <2>7. RefErrorIn(RoomIn(FALSE), TRUE, OutputSize(i), x) = "none"
    <3>1. ErrorIn(FALSE, i, r) = "none" /\ BufferIn(FALSE, i) = TRUE
      BY <1>1 DEF BufferIn, EnoughIn, NeedsIn
    <3> QED BY <3>1 DEF ErrorIn
  <2> HIDE DEF x
  <2> DEFINE little == RoomIn(FALSE)
             much == RoomIn(TRUE)
             b == BufferIn(TRUE, i)
             size == OutputSize(i)
  <2>8. little \in Int /\ much \in Int /\ little <= much /\ RefErrorIn(little, TRUE, size, x) = "none"
    BY <1>3, <2>7
  <2>9. x.entry.chunk.dict \in Int /\ x.entry.chunk.length \in Int /\ Len(PartBytes(x.entry)) \in Int
    BY <2>4, <2>6
  <2> HIDE DEF little, much, b, size
  <2>10. RefErrorIn(much, b, size, x) = "none"
    BY <2>8, <2>9, MoreRoom
  <2> QED BY <2>10 DEF ErrorIn, x, much, b, size
<1>6. LocatedFile(TRUE, i, f) /\ LocatedFile(FALSE, i, g) /\ f \in FileAssembly /\ g \in FileAssembly
  BY <1>1 DEF FinalFile
<1>7. ~f.failed
  BY <1>4, <1>5, <1>6 DEF LocatedFile
<1>8. CASE ~archive.files[i].hasChecksum
  BY <1>7, <1>8 DEF Bad, OutcomeOf
<1>9. CASE archive.files[i].hasChecksum
  <2>1. BufferIn(TRUE, i)
    BY <1>4, <1>9 DEF AssemblesIn
  <2>2. /\ Len(f.data) = OutputSize(i) /\ \A p \in 1..OutputSize(i) : LastByteOf(i, p, f.data[p])
        /\ f.totalSize = OutputSize(i)
    BY <1>6, <1>7, <2>1 DEF LocatedFile
  <2>3. /\ Len(g.data) = OutputSize(i) /\ \A p \in 1..OutputSize(i) : LastByteOf(i, p, g.data[p])
        /\ g.totalSize = OutputSize(i)
    BY <1>1, <1>6 DEF LocatedFile
  <2>4. f.data \in Seq(Byte) /\ g.data \in Seq(Byte)
    BY <1>6 DEF FileAssembly
  <2>5. f.data = g.data
    BY <2>2, <2>3, <2>4, OneContent
  <2>6. OutcomeOf(i, f) = OutcomeOf(i, g)
    BY <1>1, <1>7, <2>2, <2>3, <2>5 DEF OutcomeOf
  <2> QED BY <2>6 DEF Good, Bad
<1> QED BY <1>8, <1>9

\* What a verifying call finds wrong, an extracting one does.
LEMMA VerifyFails ==
  ASSUME archive \in Archive, memoryLimit \in MemoryLimits,
         NEW v, NEW x, CallFact(v), CallFact(x), v.verify, ~x.verify
  PROVE  /\ FailedFiles(v) \subseteq FailedFiles(x)
         /\ x.err = "none" => v.err = "none"
<1>1. v \in CallRecord /\ x \in CallRecord
  BY DEF CallFact
<1>2. v.failures \in Seq(Failure) /\ x.failures \in Seq(Failure) /\ v.verify = TRUE /\ x.verify = FALSE
  BY <1>1 DEF CallRecord
<1>3. CASE Refused
  BY <1>3 DEF CallFact, FailedFiles
<1>4. CASE ~Refused
  <2>1. PartsGrouped /\ \E fs : Reports(v, fs)
    BY <1>4 DEF CallFact
  <2>2. \E gs : Reports(x, gs)
    BY <1>4 DEF CallFact
  <2>3. PICK fs : Reports(v, fs)
    BY <2>1
  <2>4. PICK gs : Reports(x, gs)
    BY <2>2
  <2>5. /\ DOMAIN fs = DOMAIN archive.files /\ DOMAIN gs = DOMAIN archive.files
        /\ \A i \in DOMAIN fs : FinalFile(TRUE, i, fs[i])
        /\ \A i \in DOMAIN gs : FinalFile(FALSE, i, gs[i])
        /\ x.err = IF x.failures = <<>> THEN "none" ELSE "ExtractError"
        /\ v.err = IF v.failures = <<>> THEN "none" ELSE "ExtractError"
    BY <1>2, <2>3, <2>4 DEF Reports
  <2>6. ASSUME NEW k \in DOMAIN v.failures
        PROVE  \E l \in DOMAIN x.failures : x.failures[l].file = v.failures[k].file
    <3>1. PICK i \in DOMAIN fs : Bad(i, fs[i]) /\ v.failures[k] = [file |-> i, err |-> OutcomeOf(i, fs[i])]
      BY <2>3, ReportedFiles
    <3>2. FinalFile(TRUE, i, fs[i]) /\ FinalFile(FALSE, i, gs[i]) /\ i \in DOMAIN archive.files /\ i \in DOMAIN gs
      BY <2>5
    <3>3. ~Good(i, gs[i])
      BY <1>4, <2>1, <3>1, <3>2, VerifyGood
    <3>4. ~gs[i].skip
      BY <3>1, <3>2 DEF FinalFile, Bad
    <3>5. Bad(i, gs[i])
      BY <3>3, <3>4 DEF Good, Bad
    <3>6. PICK l \in DOMAIN x.failures : x.failures[l] = [file |-> i, err |-> OutcomeOf(i, gs[i])]
      BY <2>4, <3>2, <3>5, ReportedFiles
    <3> QED BY <3>1, <3>6
  <2>7. FailedFiles(v) \subseteq FailedFiles(x)
    BY <2>6 DEF FailedFiles
  <2>8. ASSUME x.err = "none" PROVE v.err = "none"
    <3>1. x.failures = <<>>
      BY <2>5, <2>8
    <3>2. DOMAIN v.failures = {}
      BY <2>6, <3>1
    <3> DEFINE s == v.failures
    <3>3. s \in Seq(Failure) /\ DOMAIN s = {}
      BY <1>2, <3>2
    <3> HIDE DEF s
    <3>4. s = <<>>
      BY <3>3
    <3>5. v.failures = <<>>
      BY <3>4 DEF s
    <3> QED BY <2>5, <3>5
  <2> QED BY <2>7, <2>8
<1> QED BY <1>3, <1>4

\* What Extract accepts Verify accepts, whatever the installer and the memory:
\* see VerifyAcceptsWhatExtracts.
THEOREM VerifyCorrect == CallsSpec => []VerifyAcceptsWhatExtracts
<1>1. CallsInv => VerifyAcceptsWhatExtracts
  <2> SUFFICES ASSUME CallsInv, NEW v \in Verifies, NEW x \in Extracts
               PROVE  /\ FailedFiles(calls[v]) \subseteq FailedFiles(calls[x])
                      /\ calls[x].err = "none" => calls[v].err = "none"
    BY DEF VerifyAcceptsWhatExtracts
  <2>1. /\ CallFact(calls[v]) /\ CallFact(calls[x]) /\ calls[v].verify /\ ~calls[x].verify
    BY DEF CallsInv, Verifies, Extracts
  <2>2. archive \in Archive /\ memoryLimit \in MemoryLimits
    BY DEF CallsInv, CallInv, DInv, RInv, Laid, IInv, TypeOK
  <2> QED BY <2>1, <2>2, VerifyFails
<1> QED BY <1>1, AlwaysCallsInv, PTL

-----------------------------------------------------------------------------
(* What Apply leaves of a group of parts.                                  *)

\* Once Open has returned, the archive is what Apply has left.
LEMMA AfterApply ==
  ASSUME CallsInv, opened
  PROVE  /\ GP!GInv /\ GP!Applied /\ GP!TypeOK /\ installer \in Installers /\ archive = Extractable(galaxy)
         /\ archive \in Archive
         /\ DOMAIN archive.files = DOMAIN installer.marks /\ DOMAIN GP!files0 = DOMAIN installer.marks
         /\ DOMAIN installer.marks = 1..Len(installer.archive.files) /\ Len(installer.archive.files) \in Nat
         /\ \A k \in DOMAIN installer.marks :
              /\ GP!files0[k].location = installer.archive.files[k].location
              /\ GP!files0[k].before = installer.marks[k].before
              /\ GP!files0[k].after = installer.marks[k].after
              /\ installer.marks[k] \in Mark
<1>1. /\ GP!GInv /\ gpc = "idle" /\ applied # <<>> /\ installer \in Installers
      /\ archive = Extractable(galaxy)
  BY DEF CallsInv, opened
<1>2. GP!Applied /\ GP!TypeOK
  BY <1>1 DEF GP!Applied, GP!GInv
<1>3. /\ archive \in Archive /\ DOMAIN archive.files = DOMAIN installer.archive.files
  BY <1>1, ExtractableType
<1>4. /\ DOMAIN installer.marks = DOMAIN installer.archive.files
      /\ DOMAIN installer.marks = 1..Len(installer.archive.files)
      /\ Len(installer.archive.files) \in Nat
      /\ \A k \in DOMAIN installer.marks : installer.marks[k] \in Mark
  BY <1>1, GalaxyTypes
<1>5. /\ DOMAIN GP!files0 = DOMAIN installer.archive.files
      /\ \A k \in DOMAIN installer.archive.files :
           /\ GP!files0[k].location = installer.archive.files[k].location
           /\ GP!files0[k].before = installer.marks[k].before
           /\ GP!files0[k].after = installer.marks[k].after
  BY DEF GP!files0, Metadata
<1> QED BY <1>1, <1>2, <1>3, <1>4, <1>5

\* What the archive says of a file is what Apply has left of it.
LEMMA ExtractableFields ==
  ASSUME CallsInv, opened, NEW k \in DOMAIN installer.marks
  PROVE  LET f == galaxy.files[k]
         IN  /\ Parts(k) = GP!Locations(f)
             /\ archive.files[k].location = f.location
             /\ archive.files[k].size = f.size
             /\ archive.files[k].hasChecksum = (f.checksum # "none")
             /\ f.checksum = "marker" => archive.files[k].checksum = installer.marks[k].digest
<1>1. archive = Extractable(galaxy) /\ k \in DOMAIN galaxy.files
  BY AfterApply, GalaxyTypes
<1> DEFINE f == galaxy.files[k]
           g == archive.files[k]
<1>2. g = [location |-> f.location, additional |-> f.additional, size |-> f.size,
           hasChecksum |-> f.checksum # "none",
           checksum |-> CASE f.checksum = "none"   -> <<>>
                          [] f.checksum = "file"   -> installer.archive.files[k].checksum
                          [] f.checksum = "marker" -> installer.marks[k].digest]
  BY <1>1 DEF Extractable
<1>3. Parts(k) = Locations(g)
  BY DEF Parts
<1> HIDE DEF f, g
<1>4. g.location = f.location /\ g.additional = f.additional /\ g.size = f.size /\ g.hasChecksum = (f.checksum # "none")
  BY <1>2
<1>5. f.checksum = "marker" => g.checksum = installer.marks[k].digest
  BY <1>2
<1>6. Locations(g) = GP!Locations(f)
  BY Zenon, <1>4 DEF Locations, GP!Locations
<1> QED BY <1>3, <1>4, <1>5, <1>6 DEF f, g

\* The same of a data entry.
LEMMA ExtractableEntry ==
  ASSUME CallsInv, opened, NEW k \in DOMAIN installer.archive.entries
  PROVE  LET e == installer.archive.entries[k]
             g == galaxy.entries[k]
             d == archive.entries[k]
         IN  /\ k \in DOMAIN archive.entries /\ e \in DataEntry /\ d \in DataEntry
             /\ d.chunk = e.chunk /\ d.offset = e.offset /\ d.size = e.size /\ d.inflated = e.inflated
             /\ d.inflates = e.inflates /\ d.intact = e.intact
             /\ d.uncompressedSize = g.uncompressedSize
             /\ g.zlib => d.filter = "zlib"
<1>1. /\ archive = Extractable(galaxy) /\ archive \in Archive /\ k \in DOMAIN galaxy.entries
      /\ installer.archive.entries[k] \in DataEntry
  BY AfterApply, GalaxyTypes
<1> DEFINE e == installer.archive.entries[k]
           g == galaxy.entries[k]
           d == archive.entries[k]
<1>2. d = [e EXCEPT !.uncompressedSize = g.uncompressedSize,
                    !.filter = IF g.zlib THEN "zlib" ELSE @]
  BY <1>1 DEF Extractable
<1>3. k \in DOMAIN archive.entries
  BY <1>1 DEF Extractable
<1>4. archive.entries \in Seq(DataEntry)
  BY <1>1 DEF Archive
<1>5. d \in DataEntry
  BY <1>3, <1>4
<1>6. e \in DataEntry
  BY <1>1
<1> HIDE DEF e, g, d
<1>7. /\ d.chunk = e.chunk /\ d.offset = e.offset /\ d.size = e.size /\ d.inflated = e.inflated
      /\ d.inflates = e.inflates /\ d.intact = e.intact
      /\ d.uncompressedSize = g.uncompressedSize
      /\ g.zlib => d.filter = "zlib"
  BY <1>2, <1>6 DEF DataEntry
<1> QED BY <1>3, <1>5, <1>6, <1>7 DEF e, g, d

\* The locations of a group that shares no data with another are those of its
\* parts, in order; each entry has the length its marker tells, and is
\* inflated.
LEMMA GroupParts ==
  ASSUME CallsInv, opened, NEW i \in DOMAIN installer.marks, Gog!PartsOf(i) # {}, Unshared(i)
  PROVE  LET last == Gog!LastPart(i)
             n == last - i + 1
         IN  /\ i \in Nat /\ last \in Nat /\ i <= last /\ last \in DOMAIN installer.marks
             /\ Gog!PartsOf(i) = i..last
             /\ Len(Parts(i)) = n
             /\ Gog!Sizes(i) \in Seq(Nat) /\ Len(Gog!Sizes(i)) = n
             /\ \A k \in 1..n :
                  LET e == Entry(Parts(i)[k])
                      p == Packed(i + k - 1)
                  IN  /\ i + k - 1 \in i..last
                      /\ IsEntry(Parts(i)[k])
                      /\ e \in DataEntry /\ p \in DataEntry
                      /\ e.chunk = p.chunk /\ e.offset = p.offset /\ e.size = p.size /\ e.inflated = p.inflated
                      /\ e.inflates = p.inflates /\ e.intact = p.intact /\ e.filter = "zlib"
                      /\ e.uncompressedSize = installer.marks[i + k - 1].after.size
                      /\ e.uncompressedSize = Gog!Sizes(i)[k]
             /\ archive.files[i].size = Total(Gog!Sizes(i)) % (MaxUint + 1)
             /\ archive.files[i].hasChecksum = installer.marks[i].before.md5
             /\ installer.marks[i].before.md5 => archive.files[i].checksum = installer.marks[i].digest
<1> DEFINE last == Gog!LastPart(i)
           n == last - i + 1
<1>1. /\ GP!GInv /\ GP!Applied /\ GP!TypeOK /\ installer \in Installers
      /\ archive \in Archive
      /\ DOMAIN GP!files0 = DOMAIN installer.marks
      /\ DOMAIN installer.marks = 1..Len(installer.archive.files) /\ Len(installer.archive.files) \in Nat
      /\ \A k \in DOMAIN installer.marks :
           /\ GP!files0[k].location = installer.archive.files[k].location
           /\ GP!files0[k].before = installer.marks[k].before
           /\ GP!files0[k].after = installer.marks[k].after
  BY AfterApply
<1>2. /\ GP!PartsOf(i) = Gog!PartsOf(i) /\ GP!LastPart(i) = last /\ GP!Sizes(i) = Gog!Sizes(i)
      /\ \A s, j : GP!PartOf(s, j) = Gog!PartOf(s, j)
  BY SameOperators
<1>3. /\ last \in DOMAIN GP!files0 /\ i <= last /\ GP!PartsOf(i) = i..last
  BY <1>1, <1>2, ApplyAssumption, GP!GroupIsInterval
<1>4. i \in Nat /\ last \in Nat /\ i >= 1 /\ n \in Nat
  BY <1>1, <1>3
<1>5. ~GP!Shared(i)
  <2> SUFFICES ASSUME GP!Shared(i) PROVE FALSE
    OBVIOUS
  <2>1. PICK j \in GP!PartsOf(i), s \in DOMAIN GP!files0, k \in DOMAIN GP!files0 :
          k # j /\ GP!PartOf(s, k) /\ GP!files0[k].location = GP!files0[j].location
    BY DEF GP!Shared
  <2>2. j \in DOMAIN installer.marks
    BY <1>1, <2>1 DEF GP!PartsOf
  <2>3. Packed(k) = Packed(j)
    BY <1>1, <2>1, <2>2 DEF Packed
  <2>4. Packed(k) # Packed(j)
    BY <1>1, <1>2, <2>1 DEF Unshared
  <2> QED BY <2>3, <2>4
<1>6. /\ Len(GP!Locations(galaxy.files[i])) = n
      /\ \A k \in 1..n : GP!Locations(galaxy.files[i])[k] = GP!files0[i + k - 1].location
  BY <1>1, <1>2, <1>5, ApplyAssumption, GP!LocationsOfParts
<1>7. /\ Parts(i) = GP!Locations(galaxy.files[i])
      /\ archive.files[i].size = galaxy.files[i].size
      /\ archive.files[i].hasChecksum = (galaxy.files[i].checksum # "none")
      /\ galaxy.files[i].checksum = "marker" => archive.files[i].checksum = installer.marks[i].digest
  BY ExtractableFields
<1>8. /\ Gog!Sizes(i) \in Seq(Nat) /\ Len(Gog!Sizes(i)) = n
      /\ \A j \in GP!PartsOf(i) : Gog!Sizes(i)[j - i + 1] = GP!files0[j].after.size
  BY <1>1, <1>2, ApplyAssumption, GP!SizesType
<1>9. galaxy.files[i].size = Total(Gog!Sizes(i)) % (MaxUint + 1)
  <2>1. galaxy.files[i].size = GP!Size(i)
    BY <1>1, <1>2, ApplyAssumption, GP!SizeOfParts
  <2>2. GP!Size(i) = GP!Total(Gog!Sizes(i)) % (MaxUint + 1)
    BY <1>2 DEF GP!Size
  <2>3. \A x : GP!Total(x) = Total(x)
    BY DEF GP!Total, Total, GP!Sums, Sums
  <2> QED BY <2>1, <2>2, <2>3
<1>10. galaxy.files[i].checksum = IF installer.marks[i].before.md5 THEN "marker" ELSE "none"
  <2>1. i \in GP!PartsOf(i)
    BY <1>3, <1>4
  <2>2. GP!IsStart(i)
    <3>1. GP!PartOf(i, i)
      BY <2>1 DEF GP!PartsOf
    <3> QED BY <3>1 DEF GP!PartOf, GP!IsStart
  <2>3. GP!Again /\ GP!ChecksumsKept
    BY <1>1, ApplyAssumption, GP!WhenApplied DEF GP!GInv
  <2> QED BY <1>1, <2>2, <2>3 DEF GP!ChecksumsKept
<1>11. ASSUME NEW k \in 1..n
       PROVE  LET e == Entry(Parts(i)[k])
                  p == Packed(i + k - 1)
              IN  /\ i + k - 1 \in i..last
                  /\ IsEntry(Parts(i)[k])
                  /\ e \in DataEntry /\ p \in DataEntry
                  /\ e.chunk = p.chunk /\ e.offset = p.offset /\ e.size = p.size /\ e.inflated = p.inflated
                  /\ e.inflates = p.inflates /\ e.intact = p.intact /\ e.filter = "zlib"
                  /\ e.uncompressedSize = installer.marks[i + k - 1].after.size
                  /\ e.uncompressedSize = Gog!Sizes(i)[k]
  <2> DEFINE j == i + k - 1
             l == GP!files0[j].location
  <2>1. j \in i..last /\ j - i + 1 = k /\ j \in GP!PartsOf(i)
    BY <1>3, <1>4
  <2>2. j \in DOMAIN GP!files0 /\ GP!PartOf(i, j)
    BY <2>1 DEF GP!PartsOf
  <2>3. Parts(i)[k] = l
    BY <1>6, <1>7
  <2>4. galaxy.entries[l + 1] = [uncompressedSize |-> GP!files0[j].after.size, zlib |-> TRUE]
    BY <1>1, <1>5, <2>1, ApplyAssumption, GP!EntryOfPart
  <2>5. l \in Nat /\ l < Len(installer.archive.entries)
    <3>1. l < Len(Metadata(installer).entries)
      BY <1>1, <2>2, ApplyAssumption, GP!PartFacts
    <3>2. l \in Nat
      BY <1>1, <2>2, ApplyAssumption, GP!FileTypes
    <3>3. Len(Metadata(installer).entries) = Len(installer.archive.entries)
      <4> DEFINE me == Metadata(installer).entries
                 m == Len(installer.archive.entries)
      <4>1. m \in Nat /\ DOMAIN installer.archive.entries = 1..m
        BY <1>1, GalaxyTypes
      <4>2. me = [x \in 1..m |-> me[x]]
        BY <4>1 DEF Metadata
      <4> HIDE DEF me, m
      <4>3. Len(me) = m
        BY <4>1, <4>2, FunctionIsSeq
      <4> QED BY <4>3 DEF me, m
    <3> QED BY <3>1, <3>2, <3>3
  <2>6. l + 1 \in DOMAIN installer.archive.entries
    BY <1>1, <2>5, GalaxyTypes
  <2> DEFINE e == Entry(Parts(i)[k])
             p == Packed(j)
             g == galaxy.entries[l + 1]
             d == archive.entries[l + 1]
  <2>7. e = d
    BY <2>3 DEF Entry
  <2>8. p = installer.archive.entries[l + 1]
    BY <1>1, <2>2 DEF Packed
  <2>9. g.uncompressedSize = installer.marks[j].after.size /\ g.zlib
    BY <1>1, <2>2, <2>4
  <2>10. installer.marks[j].after.size = Gog!Sizes(i)[k]
    BY <1>1, <1>8, <2>1, <2>2
  <2>11. IsEntry(Parts(i)[k])
    <3>1. l + 1 \in DOMAIN archive.entries /\ archive.entries \in Seq(DataEntry)
      BY <1>1, <2>6, ExtractableEntry DEF Archive
    <3>2. Len(archive.entries) \in Nat /\ l + 1 <= Len(archive.entries)
      BY <3>1
    <3> QED BY <2>3, <2>5, <3>2 DEF IsEntry
  <2>12. /\ p \in DataEntry /\ d \in DataEntry
         /\ d.chunk = p.chunk /\ d.offset = p.offset /\ d.size = p.size /\ d.inflated = p.inflated
         /\ d.inflates = p.inflates /\ d.intact = p.intact
         /\ d.uncompressedSize = g.uncompressedSize
         /\ g.zlib => d.filter = "zlib"
    BY <2>6, <2>8, ExtractableEntry
  <2> HIDE DEF e, p, g, d
  <2>13. /\ e \in DataEntry /\ p \in DataEntry
         /\ e.chunk = p.chunk /\ e.offset = p.offset /\ e.size = p.size /\ e.inflated = p.inflated
         /\ e.inflates = p.inflates /\ e.intact = p.intact /\ e.filter = "zlib"
         /\ e.uncompressedSize = installer.marks[j].after.size
         /\ e.uncompressedSize = Gog!Sizes(i)[k]
    BY <2>7, <2>9, <2>10, <2>12
  <2> QED BY <2>1, <2>11, <2>13 DEF e, p
<1>12. Len(Parts(i)) = n
  BY <1>6, <1>7
<1>13. /\ archive.files[i].size = Total(Gog!Sizes(i)) % (MaxUint + 1)
       /\ archive.files[i].hasChecksum = installer.marks[i].before.md5
       /\ installer.marks[i].before.md5 => archive.files[i].checksum = installer.marks[i].digest
  <2>1. installer.marks[i].before.md5 \in BOOLEAN
    BY <1>1, AfterApply DEF Mark
  <2> QED BY <1>7, <1>9, <1>10, <2>1
<1>14. last \in DOMAIN installer.marks /\ Gog!PartsOf(i) = i..last
  BY <1>1, <1>2, <1>3
<1> HIDE DEF last, n
<1> QED BY <1>3, <1>4, <1>8, <1>11, <1>12, <1>13, <1>14 DEF last, n

\* Where the parts of such a group end.
LEMMA GroupEnds ==
  ASSUME CallsInv, opened, NEW i \in DOMAIN installer.marks, Gog!PartsOf(i) # {}, Unshared(i)
  PROVE  /\ PartEnds(i) = Sums(Gog!Sizes(i))
         /\ PartEnds(i)[Len(Parts(i))] = Total(Gog!Sizes(i)) /\ Total(Gog!Sizes(i)) \in Nat
         /\ ~External(i)
         /\ Located(i) <=> Total(Gog!Sizes(i)) <= MaxUint
         /\ Total(Gog!Sizes(i)) <= MaxUint => OutputSize(i) = Total(Gog!Sizes(i))
<1> DEFINE sizes == Gog!Sizes(i)
           n == Len(Parts(i))
           last == Gog!LastPart(i)
<1>0. /\ i \in Nat /\ last \in Nat /\ i <= last /\ n = last - i + 1
      /\ sizes \in Seq(Nat) /\ Len(sizes) = last - i + 1
      /\ \A k \in 1..(last - i + 1) :
           IsEntry(Parts(i)[k]) /\ Entry(Parts(i)[k]).uncompressedSize = sizes[k]
      /\ archive.files[i].size = Total(sizes) % (MaxUint + 1)
  BY GroupParts
<1>1. /\ sizes \in Seq(Nat) /\ Len(sizes) = n /\ n \in Nat /\ n >= 1
      /\ \A k \in 1..n : IsEntry(Parts(i)[k]) /\ Entry(Parts(i)[k]).uncompressedSize = sizes[k]
      /\ archive.files[i].size = Total(sizes) % (MaxUint + 1)
  <2>1. n >= 1 /\ n \in Nat
    <3> HIDE DEF n, last
    <3> QED BY <1>0
  <2> HIDE DEF sizes, last, n
  <2> QED BY <1>0, <2>1
<1>2. archive \in Archive /\ i \in DOMAIN archive.files
  BY AfterApply
<1>3. Parts(i) \in Seq(Nat) /\ DOMAIN Parts(i) = 1..n
  BY <1>2, PartEndsEquation
<1>4. PartSizes(i) = sizes
  <2>1. PartSizes(i) = [k \in 1..n |-> Entry(Parts(i)[k]).uncompressedSize]
    BY <1>3 DEF PartSizes, Parts
  <2>2. sizes = [k \in 1..n |-> sizes[k]]
    BY <1>1
  <2> HIDE DEF sizes, n
  <2> QED BY <1>1, <2>1, <2>2
<1>5. PartEnds(i) = Sums(sizes) /\ PartEnds(i)[n] = Total(sizes)
  BY <1>1, <1>4 DEF PartEnds, Total
<1>6. Total(sizes) \in Nat
  BY <1>1, TotalType
<1>7. ~External(i)
  <2>1. Parts(i)[1] = archive.files[i].location
    <3>1. archive.files[i] \in FileEntry
      BY <1>2 DEF Archive
    <3>2. archive.files[i].additional \in Seq(Nat)
      BY <3>1 DEF FileEntry
    <3> QED BY <3>2 DEF Parts, Locations
  <2> QED BY <1>1, <2>1 DEF External
<1>8. Located(i) <=> Total(sizes) <= MaxUint
  <2>1. \A k \in DOMAIN Parts(i) : IsEntry(Parts(i)[k])
    BY <1>1, <1>3
  <2> HIDE DEF sizes
  <2> QED BY <1>5, <2>1 DEF Located, Parts, n
<1>9. ASSUME Total(sizes) <= MaxUint PROVE OutputSize(i) = Total(sizes)
  <2> DEFINE whole == Total(sizes)
  <2>1. whole \in Nat /\ whole <= MaxUint /\ MaxUint \in Nat
    BY <1>6, <1>9, IntAssumption
  <2>2. whole % (MaxUint + 1) = whole
    <3> HIDE DEF whole
    <3> QED BY <2>1
  <2> HIDE DEF sizes
  <2> QED BY <1>1, <1>5, <2>2 DEF OutputSize, Parts, n
<1> QED BY <1>5, <1>6, <1>7, <1>8, <1>9

\* The parts of a group, unpacked one after the other.
Pieces(i) == [k \in 1..(Gog!LastPart(i) - i + 1) |-> Unpacked(i + k - 1)]

LEMMA PiecesType ==
  ASSUME CallsInv, opened, NEW i \in DOMAIN installer.marks, Gog!PartsOf(i) # {}, Unshared(i)
  PROVE  /\ Pieces(i) \in Seq(Seq(Byte)) /\ Len(Pieces(i)) = Len(Parts(i))
         /\ \A k \in 1..Len(Parts(i)) :
              /\ Pieces(i)[k] = Unpacked(i + k - 1)
              /\ Pieces(i)[k] = PartBytes(Entry(Parts(i)[k]))
              /\ Len(Pieces(i)[k]) = Packed(i + k - 1).inflated
<1> DEFINE n == Gog!LastPart(i) - i + 1
<1>1. /\ n = Len(Parts(i)) /\ n \in Nat
      /\ \A k \in 1..n :
           LET e == Entry(Parts(i)[k])
               p == Packed(i + k - 1)
           IN  /\ e \in DataEntry /\ p \in DataEntry
               /\ e.chunk = p.chunk /\ e.offset = p.offset /\ e.size = p.size /\ e.inflated = p.inflated
               /\ e.filter = "zlib"
  BY GroupParts
<1>2. ASSUME NEW k \in 1..n
      PROVE  /\ Unpacked(i + k - 1) \in Seq(Byte)
             /\ Unpacked(i + k - 1) = PartBytes(Entry(Parts(i)[k]))
             /\ Len(Unpacked(i + k - 1)) = Packed(i + k - 1).inflated
  <2> DEFINE e == Entry(Parts(i)[k])
             p == Packed(i + k - 1)
             u == Unpacked(i + k - 1)
  <2>1. /\ e \in DataEntry /\ p \in DataEntry
        /\ e.chunk = p.chunk /\ e.offset = p.offset /\ e.size = p.size /\ e.inflated = p.inflated
        /\ e.filter = "zlib"
    BY <1>1
  <2>2. u = [b \in 1..p.inflated |-> <<"inflated", p.chunk.id, p.offset, b>>]
    BY DEF Unpacked
  <2> HIDE DEF e, p, u
  <2>3. PartBytes(e) = [b \in 1..e.inflated |-> <<"inflated", e.chunk.id, e.offset, b>>]
    BY <2>1 DEF PartBytes, Filtered
  <2>4. u = PartBytes(e)
    BY <2>1, <2>2, <2>3
  <2>5. PartBytes(e) \in Seq(Byte) /\ Len(PartBytes(e)) = e.inflated
    BY <2>1, PartBytesLength
  <2> QED BY <2>1, <2>4, <2>5 DEF e, p, u
<1>3. Pieces(i) = [k \in 1..n |-> Unpacked(i + k - 1)]
  BY DEF Pieces
<1> HIDE DEF n
<1>4. Pieces(i) \in [1..n -> Seq(Byte)]
  BY <1>2, <1>3
<1>5. Pieces(i) \in Seq(Seq(Byte)) /\ Len(Pieces(i)) = n
  BY <1>1, <1>4
<1> QED BY <1>1, <1>2, <1>3, <1>5

\* Joined is the chain of these pieces.
LEMMA JoinedIsChained ==
  ASSUME CallsInv, opened, NEW i \in DOMAIN installer.marks, Gog!PartsOf(i) # {}, Unshared(i)
  PROVE  Joined(i) = Chained(Pieces(i))[Len(Parts(i))]
<1> DEFINE last == Gog!LastPart(i)
           n == Len(Parts(i))
           x == Pieces(i)
           c == Chained(x)
           IsJoin(f) == f = [j \in (i - 1)..last |-> IF j < i THEN <<>> ELSE Followed(f[j - 1], Unpacked(j))]
<1>1. n = last - i + 1 /\ i \in Nat /\ last \in Nat /\ n \in Nat
  BY GroupParts
<1>2. x \in Seq(Seq(Byte)) /\ Len(x) = n /\ \A k \in 1..n : x[k] = Unpacked(i + k - 1)
  BY PiecesType
<1> HIDE DEF x
<1>3. /\ c[0] = <<>>
      /\ \A k \in 1..n : c[k] = Followed(c[k - 1], x[k])
  BY <1>2, ChainedEquation
<1> HIDE DEF c, n, last
<1>4. \E f : IsJoin(f)
  <2> DEFINE f == [j \in (i - 1)..last |-> c[j - i + 1]]
  <2>1. ASSUME NEW j \in (i - 1)..last
        PROVE  f[j] = IF j < i THEN <<>> ELSE Followed(f[j - 1], Unpacked(j))
    <3>1. CASE j < i
      <4>1. j - i + 1 = 0
        BY <1>1, <3>1
      <4> QED BY <1>3, <3>1, <4>1
    <3>2. CASE ~(j < i)
      <4> DEFINE k == j - i + 1
      <4>1. k \in 1..n /\ j - 1 \in (i - 1)..last /\ j - 1 - i + 1 = k - 1 /\ i + k - 1 = j
        BY <1>1, <3>2
      <4>2. f[j] = c[k] /\ f[j - 1] = c[k - 1]
        BY <4>1
      <4>3. x[k] = Unpacked(j)
        BY <1>2, <4>1
      <4> HIDE DEF k, f
      <4>4. c[k] = Followed(c[k - 1], x[k])
        BY <1>3, <4>1
      <4> QED BY <3>2, <4>2, <4>3, <4>4
    <3> QED BY <3>1, <3>2
  <2>2. f = [j \in (i - 1)..last |-> f[j]]
    OBVIOUS
  <2> HIDE DEF f
  <2>3. IsJoin(f)
    BY <2>1, <2>2
  <2> QED BY <2>3
<1> DEFINE join == CHOOSE f : IsJoin(f)
<1>5. Joined(i) = join[last]
  BY Zenon DEF Joined, Followed, last
<1>6. IsJoin(join)
  BY <1>4
<1> HIDE DEF join
<1>7. \A j \in (i - 1)..last : join[j] = IF j < i THEN <<>> ELSE Followed(join[j - 1], Unpacked(j))
  BY <1>6
<1> DEFINE T == {k \in Nat : k <= n => join[i - 1 + k] = c[k]}
<1>8. 0 \in T
  <2>1. i - 1 + 0 = i - 1 /\ i - 1 \in (i - 1)..last /\ i - 1 < i
    BY <1>1
  <2> QED BY <1>3, <1>7, <2>1
<1>9. ASSUME NEW k \in Nat, k \in T PROVE k + 1 \in T
  <2> SUFFICES ASSUME k + 1 <= n PROVE join[i - 1 + (k + 1)] = c[k + 1]
    OBVIOUS
  <2> DEFINE j == i + k
  <2>1. /\ j \in (i - 1)..last /\ ~(j < i) /\ j - 1 = i - 1 + k /\ i - 1 + (k + 1) = j
        /\ k + 1 \in 1..n /\ k + 1 - 1 = k /\ i + (k + 1) - 1 = j
    BY <1>1
  <2>2. join[j - 1] = c[k]
    BY <1>1, <1>9, <2>1
  <2>3. x[k + 1] = Unpacked(j)
    BY <1>2, <2>1
  <2>4. c[k + 1] = Followed(c[k], x[k + 1])
    BY <1>3, <2>1
  <2>5. join[j] = Followed(join[j - 1], Unpacked(j))
    BY <1>7, <2>1
  <2> QED BY <2>1, <2>2, <2>3, <2>4, <2>5
<1>10. \A k \in Nat : k \in T
  <2> HIDE DEF T
  <2> QED BY <1>8, <1>9, SetInduction
<1>11. join[i - 1 + n] = c[n] /\ i - 1 + n = last
  BY <1>1, <1>10
<1> QED BY <1>5, <1>11 DEF c, n, x

\* The group is in order exactly when its markers tell the truth.
LEMMA GroupSound ==
  ASSUME CallsInv, opened, NEW i \in DOMAIN installer.marks, Gog!PartsOf(i) # {}, Unshared(i)
  PROVE  SoundParts(i) <=> Truthful(i) /\ Total(Gog!Sizes(i)) <= MaxUint
<1> DEFINE last == Gog!LastPart(i)
           n == Len(Parts(i))
<1>1. /\ i \in Nat /\ last \in Nat /\ i <= last /\ n = last - i + 1
      /\ Gog!PartsOf(i) = i..last
      /\ \A k \in 1..(last - i + 1) :
           LET e == Entry(Parts(i)[k])
               p == Packed(i + k - 1)
           IN  /\ e \in DataEntry /\ p \in DataEntry
               /\ e.chunk = p.chunk /\ e.offset = p.offset /\ e.size = p.size /\ e.inflated = p.inflated
               /\ e.inflates = p.inflates /\ e.intact = p.intact /\ e.filter = "zlib"
               /\ e.uncompressedSize = installer.marks[i + k - 1].after.size
  BY GroupParts
<1>2. archive \in Archive /\ i \in DOMAIN archive.files
  BY AfterApply
<1>3. DOMAIN Parts(i) = 1..n
  BY <1>2, PartEndsEquation
<1>4. Located(i) <=> Total(Gog!Sizes(i)) <= MaxUint
  BY GroupEnds
<1> DEFINE TruthOf(j) ==
             /\ SoundChunk(Packed(j).chunk)
             /\ Packed(j).offset + Packed(j).size <= Packed(j).chunk.length
             /\ Packed(j).inflates /\ Packed(j).intact
             /\ Packed(j).inflated = installer.marks[j].after.size
<1>5. ASSUME NEW k \in 1..(last - i + 1)
      PROVE  SoundPart(Entry(Parts(i)[k])) <=> TruthOf(i + k - 1)
  <2> DEFINE e == Entry(Parts(i)[k])
             p == Packed(i + k - 1)
             z == installer.marks[i + k - 1].after.size
  <2>1. /\ e \in DataEntry /\ p \in DataEntry
        /\ e.chunk = p.chunk /\ e.offset = p.offset /\ e.size = p.size /\ e.inflated = p.inflated
        /\ e.inflates = p.inflates /\ e.intact = p.intact /\ e.filter = "zlib"
        /\ e.uncompressedSize = z
    BY <1>1
  <2>2. TruthOf(i + k - 1) <=>
          /\ SoundChunk(p.chunk) /\ p.offset + p.size <= p.chunk.length
          /\ p.inflates /\ p.intact /\ p.inflated = z
    OBVIOUS
  <2> HIDE DEF e, p, z
  <2>3. Len(PartBytes(e)) = e.inflated
    BY <2>1, PartBytesLength
  <2>4. SoundPart(e) <=>
          /\ SoundChunk(p.chunk) /\ p.offset + p.size <= p.chunk.length
          /\ p.inflates /\ p.intact /\ p.inflated = z
    <3>1. SoundPart(e) <=>
            /\ SoundChunk(e.chunk) /\ e.offset + e.size <= e.chunk.length
            /\ e.filter = "zlib" => e.inflates
            /\ e.intact
            /\ Len(PartBytes(e)) = e.uncompressedSize
      BY DEF SoundPart
    <3> QED BY <2>1, <2>3, <3>1
  <2> HIDE DEF TruthOf
  <2> QED BY <2>2, <2>4 DEF e
<1>6. SoundParts(i) <=> Located(i) /\ \A k \in 1..n : SoundPart(Entry(Parts(i)[k]))
  BY <1>3 DEF SoundParts, Parts
<1>7. Truthful(i) <=> \A j \in i..last : TruthOf(j)
  BY <1>1 DEF Truthful
<1> HIDE DEF TruthOf, last, n
<1>8. (\A k \in 1..n : SoundPart(Entry(Parts(i)[k]))) <=> \A j \in i..last : TruthOf(j)
  <2>1. ASSUME \A k \in 1..n : SoundPart(Entry(Parts(i)[k])), NEW j \in i..last PROVE TruthOf(j)
    <3>1. j - i + 1 \in 1..n /\ i + (j - i + 1) - 1 = j
      BY <1>1
    <3>2. PICK k : k = j - i + 1
      OBVIOUS
    <3>3. k \in 1..(last - i + 1) /\ k \in 1..n /\ i + k - 1 = j
      BY <1>1, <3>1, <3>2
    <3> QED BY <1>5, <2>1, <3>3
  <2>2. ASSUME \A j \in i..last : TruthOf(j), NEW k \in 1..n PROVE SoundPart(Entry(Parts(i)[k]))
    <3>1. k \in 1..(last - i + 1) /\ i + k - 1 \in i..last
      BY <1>1
    <3> QED BY <1>5, <2>2, <3>1
  <2> QED BY <2>1, <2>2
<1> QED BY <1>4, <1>6, <1>7, <1>8

\* When it is, what the archive says of the file is all of its parts joined.
LEMMA GroupContent ==
  ASSUME CallsInv, opened, NEW i \in DOMAIN installer.marks, Gog!PartsOf(i) # {}, Unshared(i),
         SoundParts(i)
  PROVE  Content(i) = Joined(i)
<1> DEFINE sizes == Gog!Sizes(i)
           n == Len(Parts(i))
           x == Pieces(i)
           joined == Chained(x)[n]
<1>1. archive \in Archive /\ i \in DOMAIN archive.files
  BY AfterApply
<1>2. DOMAIN Parts(i) = 1..n /\ n \in Nat
  BY <1>1, PartEndsEquation
<1>3. /\ sizes \in Seq(Nat) /\ Len(sizes) = n
      /\ PartEnds(i) = Sums(sizes) /\ OutputSize(i) = Total(sizes)
  <2>1. Total(sizes) <= MaxUint
    BY GroupSound
  <2>2. sizes \in Seq(Nat) /\ Len(sizes) = n
    BY GroupParts
  <2> QED BY <2>1, <2>2, GroupEnds
<1>4. /\ x \in Seq(Seq(Byte)) /\ Len(x) = n
      /\ \A k \in 1..n : x[k] = PartBytes(Entry(Parts(i)[k]))
  BY PiecesType
<1>5. ASSUME NEW k \in 1..n PROVE Len(x[k]) = sizes[k]
  <2>1. SoundPart(Entry(Parts(i)[k]))
    BY <1>2 DEF SoundParts, Parts
  <2>2. Len(PartBytes(Entry(Parts(i)[k]))) = Entry(Parts(i)[k]).uncompressedSize
    BY <2>1 DEF SoundPart
  <2>3. Entry(Parts(i)[k]).uncompressedSize = sizes[k]
    BY GroupParts
  <2> QED BY <1>4, <2>2, <2>3
<1>6. Joined(i) = joined
  BY JoinedIsChained
<1>7. Content(i) = [p \in 1..OutputSize(i) |->
         LET here == {k \in 1..n : PartEnds(i)[k - 1] < p /\ p <= PartEnds(i)[k]}
         IN  IF here = {} THEN Zero
             ELSE LET k == CHOOSE k \in here : TRUE
                  IN  PartBytes(Entry(Parts(i)[k]))[p - PartEnds(i)[k - 1]]]
  BY <1>2 DEF Content, Parts
<1> DEFINE s == Sums(sizes)
           N == Total(sizes)
<1>8. /\ \A k \in 0..n : s[k] \in Nat
      /\ \A k \in 1..n : s[k] = s[k - 1] + sizes[k]
      /\ \A k \in 1..n : sizes[k] \in Nat
      /\ N \in Nat /\ s[n] = N
  BY <1>3, SumsOfNat, TotalType DEF Total
<1> HIDE DEF sizes, n, x
<1>9. n \in 0..Len(x) /\ Len(sizes) = Len(x) /\ \A k \in 1..Len(x) : Len(x[k]) = sizes[k]
  BY <1>2, <1>3, <1>4, <1>5
<1>10. /\ Len(joined) = s[n]
       /\ \A m \in 1..n : \A b \in 1..sizes[m] : joined[s[m - 1] + b] = x[m][b]
  <2>1. x \in Seq(Seq(Byte)) /\ sizes \in Seq(Nat)
    BY <1>3, <1>4
  <2>2. Len(joined) = s[n]
    BY ONLY <1>9, <2>1, ChainedLength
  <2>3. \A m \in 1..n : \A b \in 1..sizes[m] : Chained(x)[n][Sums(sizes)[m - 1] + b] = x[m][b]
    <3>1. n \in 0..Len(x)
      BY <1>9
    <3>2. Len(sizes) = Len(x)
      BY <1>9
    <3>3. \A k \in 1..Len(x) : Len(x[k]) = sizes[k]
      BY <1>9
    <3>4. Placed(Chained(x)[n], Sums(sizes), x, sizes, n)
      BY ONLY <2>1, <3>1, <3>2, <3>3, ChainedPositions
    <3> QED BY <3>4 DEF Placed
  <2> QED BY <2>2, <2>3
<1>11. joined \in Seq(Byte)
  BY <1>4, <1>9, ChainedEquation
<1> HIDE DEF joined
<1>12. joined = [p \in 1..N |-> joined[p]]
  BY <1>8, <1>10, <1>11
<1>13. ASSUME NEW p \in 1..N
       PROVE  joined[p] = LET here == {k \in 1..n : s[k - 1] < p /\ p <= s[k]}
                          IN  IF here = {} THEN Zero
                              ELSE LET k == CHOOSE k \in here : TRUE
                                   IN  PartBytes(Entry(Parts(i)[k]))[p - s[k - 1]]
  <2> DEFINE here == {k \in 1..n : s[k - 1] < p /\ p <= s[k]}
             k == CHOOSE k \in here : TRUE
  <2>1. here # {}
    BY <1>3, SumsReach
  <2>2. k \in here
    BY <2>1
  <2> HIDE DEF k
  <2>3. k \in 1..n /\ s[k - 1] < p /\ p <= s[k]
    BY <2>2
  <2> DEFINE b == p - s[k - 1]
  <2>4. b \in 1..sizes[k] /\ s[k - 1] + b = p
    <3>1. k - 1 \in 0..n
      BY <1>2, <2>3
    <3>2. s[k - 1] \in Nat /\ sizes[k] \in Nat /\ s[k] = s[k - 1] + sizes[k] /\ p \in Nat
      BY <1>8, <2>3, <3>1
    <3> HIDE DEF s
    <3> QED BY <2>3, <3>2
  <2>5. joined[p] = x[k][b]
    <3> HIDE DEF b, s
    <3> QED BY <1>10, <2>3, <2>4
  <2>6. joined[p] = PartBytes(Entry(Parts(i)[k]))[p - s[k - 1]]
    BY <1>4, <2>3, <2>5
  <2> HIDE DEF s, here
  <2> QED BY <2>1, <2>6 DEF k, here
<1>14. Content(i) = joined
  <2> DEFINE C(p) == LET here == {k \in 1..n : s[k - 1] < p /\ p <= s[k]}
                     IN  IF here = {} THEN Zero
                         ELSE LET k == CHOOSE k \in here : TRUE
                              IN  PartBytes(Entry(Parts(i)[k]))[p - s[k - 1]]
  <2>1. Content(i) = [p \in 1..N |-> C(p)]
    BY <1>3, <1>7
  <2>2. \A p \in 1..N : joined[p] = C(p)
    BY <1>13
  <2> HIDE DEF C
  <2> QED BY <1>12, <2>1, <2>2
<1> QED BY <1>6, <1>14

-----------------------------------------------------------------------------
(* What is listed is what is extracted, and Galaxy files are whole.        *)

\* What an extraction that was not refused makes of the files.
LEMMA Extraction ==
  ASSUME CallsInv, NEW x \in Extracts, ~Refused
  PROVE  LET c == calls[x]
         IN  /\ opened /\ PartsGrouped /\ CallFact(c) /\ ~c.verify
             /\ \E fs : /\ DOMAIN fs = DOMAIN archive.files
                        /\ \A i \in DOMAIN fs : FinalFile(FALSE, i, fs[i])
                        /\ Reports(c, fs)
<1> DEFINE c == calls[x]
<1>1. x \in DOMAIN calls /\ ~c.verify /\ CallFact(c)
  BY DEF CallsInv, Extracts, Verifies
<1>2. opened
  <2>1. calls # <<>>
    BY <1>1
  <2> QED BY <2>1 DEF CallsInv
<1>3. c \in CallRecord
  BY <1>1 DEF CallFact
<1> HIDE DEF c
<1>4. c.verify = FALSE
  BY <1>1, <1>3 DEF CallRecord
<1>5. PartsGrouped /\ \E fs : Reports(c, fs)
  BY <1>1 DEF CallFact
<1>6. ASSUME NEW fs, Reports(c, fs)
      PROVE  DOMAIN fs = DOMAIN archive.files /\ \A i \in DOMAIN fs : FinalFile(FALSE, i, fs[i])
  BY <1>4, <1>6 DEF Reports
<1> QED BY <1>1, <1>2, <1>5, <1>6 DEF c

\* A file without a group has one part.
LEMMA NoGroup ==
  ASSUME CallsInv, opened, NEW i \in DOMAIN installer.marks, Gog!PartsOf(i) = {}
  PROVE  Len(Parts(i)) = 1
<1>1. /\ GP!GInv /\ GP!Applied /\ installer \in Installers /\ archive \in Archive
      /\ i \in DOMAIN archive.files
      /\ DOMAIN GP!files0 = DOMAIN installer.marks
  BY AfterApply
<1>2. GP!PartsOf(i) = {}
  BY SameOperators
<1>3. GP!Joined(i) = {}
  <2>1. GP!Joined(i) = {j \in GP!PartsOf(i) : j # i}
    BY <1>1, ApplyAssumption, GP!WhenApplied
  <2> QED BY <1>2, <2>1
<1>4. galaxy.files[i].additional \in Seq(Nat)
  <2>1. galaxy.files[i] \in GP!FileEntry
    BY <1>1, GalaxyTypes
  <2> QED BY <2>1 DEF GP!FileEntry
<1>5. GP!OneOf(galaxy.files[i].additional) = {}
  BY <1>1, <1>3 DEF GP!GInv, GP!LocationsKept
<1>6. Len(galaxy.files[i].additional) = 0
  <2> DEFINE s == galaxy.files[i].additional
  <2>1. DOMAIN s = {}
    BY <1>5 DEF GP!OneOf
  <2>2. s \in Seq(Nat)
    BY <1>4
  <2> HIDE DEF s
  <2>3. Len(s) = 0
    BY <2>1, <2>2
  <2> QED BY <2>3 DEF s
<1>7. Parts(i) = GP!Locations(galaxy.files[i])
  BY <1>1, ExtractableFields
<1>8. Len(GP!Locations(galaxy.files[i])) = 1 + Len(galaxy.files[i].additional)
  BY <1>4 DEF GP!Locations
<1> QED BY <1>6, <1>7, <1>8

\* The size that is listed is the size of the output, unless Apply has added
\* up other lengths than those of the entries.
LEMMA ListedSize ==
  ASSUME CallsInv, opened, NEW i \in DOMAIN installer.marks, Unshared(i), ~External(i), Located(i)
  PROVE  entry(archive.files[i]).size = OutputSize(i)
<1> DEFINE f == archive.files[i]
           n == Len(Parts(i))
           e == Entry(f.location)
<1>1. archive \in Archive /\ i \in DOMAIN archive.files
  BY AfterApply
<1>2. entry(f).size = IF f.size = 0 THEN e.uncompressedSize ELSE f.size
  BY DEF entry, External
<1>3. /\ Parts(i) \in Seq(Nat) /\ n \in Nat /\ n >= 1 /\ DOMAIN Parts(i) = 1..n
      /\ PartEnds(i)[0] = 0
      /\ \A k \in 1..n : PartEnds(i)[k] = PartEnds(i)[k - 1] + Entry(Parts(i)[k]).uncompressedSize
  <2>1. /\ Parts(i) \in Seq(Nat) /\ n \in Nat /\ n >= 1
        /\ PartEnds(i)[0] = 0
        /\ \A k \in 1..n : PartEnds(i)[k] = PartEnds(i)[k - 1] + Entry(Parts(i)[k]).uncompressedSize
    BY <1>1, PartEndsEquation
  <2>2. DOMAIN Parts(i) = 1..n
    <3> DEFINE parts == Parts(i)
    <3>1. parts \in Seq(Nat) /\ n = Len(parts)
      BY <2>1
    <3> HIDE DEF parts, n
    <3>2. DOMAIN parts = 1..n
      BY <3>1
    <3> QED BY <3>2 DEF parts
  <2> QED BY <2>1, <2>2
<1>4. Parts(i)[1] = f.location
  <2>1. f \in FileEntry
    BY <1>1 DEF Archive
  <2>2. f.additional \in Seq(Nat)
    BY <2>1 DEF FileEntry
  <2> HIDE DEF f
  <2>3. Locations(f)[1] = f.location
    BY <2>2 DEF Locations
  <2> QED BY <2>3 DEF Parts, f
<1>5. \A k \in 1..n : IsEntry(Parts(i)[k])
  BY <1>3 DEF Located, Parts
<1>6. PartEnds(i)[1] = e.uncompressedSize /\ PartEnds(i)[1] \in Nat
  <2>1. e \in DataEntry /\ e.uncompressedSize \in Nat
    <3>1. 1 \in DOMAIN Parts(i)
      BY <1>3
    <3> QED BY <1>1, <1>4, <3>1, LocatedPart
  <2>2. PartEnds(i)[1] = PartEnds(i)[1 - 1] + Entry(Parts(i)[1]).uncompressedSize
    BY <1>3
  <2> HIDE DEF e
  <2>3. Entry(Parts(i)[1]) = e
    BY <1>4 DEF e
  <2>4. PartEnds(i)[1 - 1] = 0
    BY <1>3
  <2> QED BY <2>1, <2>2, <2>3, <2>4
<1>7. OutputSize(i) = IF f.size # 0 THEN f.size ELSE PartEnds(i)[n]
  BY DEF OutputSize, Parts
<1>8. ASSUME f.size = 0 PROVE PartEnds(i)[n] = e.uncompressedSize
  <2>1. CASE Gog!PartsOf(i) = {}
    BY <1>6, <2>1, NoGroup
  <2>2. CASE Gog!PartsOf(i) # {}
    <3> DEFINE whole == Total(Gog!Sizes(i))
    <3>1. PartEnds(i)[n] = whole /\ whole \in Nat /\ whole <= MaxUint
      BY <2>2, GroupEnds
    <3>2. f.size = whole % (MaxUint + 1)
      BY <2>2, GroupParts
    <3>3. whole = 0
      <4>1. MaxUint \in Nat
        BY IntAssumption
      <4> HIDE DEF whole, f
      <4> QED BY <1>8, <3>1, <3>2, <4>1
    <3>4. PartEnds(i)[1] <= PartEnds(i)[n]
      <4>1. 1 \in 0..n /\ n \in 1..n
        BY <1>3
      <4> QED BY <1>1, <1>5, <4>1, PartEndsMonotone
    <3> HIDE DEF whole, e, n
    <3> QED BY <1>6, <3>1, <3>3, <3>4
  <2> QED BY <2>1, <2>2
<1> HIDE DEF f, e, n
<1>9. entry(f).size = OutputSize(i)
  BY <1>2, <1>7, <1>8
<1> QED BY <1>9 DEF f

\* What Files lists is what Extract returns, whatever the installer and the
\* memory: see ManifestMatchesFiles.
THEOREM ManifestCorrect == CallsSpec => []ManifestMatchesFiles
<1>1. CallsInv => ManifestMatchesFiles
  <2> SUFFICES ASSUME CallsInv, NEW x \in Extracts, NEW k \in DOMAIN calls[x].files
               PROVE  LET r == calls[x].files[k]
                          f == archive.files[r.file]
                      IN  /\ ~entry(f).encrypted
                          /\ Unshared(r.file) => entry(f).size = Len(r.data)
    BY DEF ManifestMatchesFiles
  <2> DEFINE c == calls[x]
  <2>1. ~Refused
    <3>1. CallFact(c)
      BY DEF CallsInv, Extracts
    <3>2. Refused => c.files = <<>>
      BY <3>1 DEF CallFact
    <3> QED BY <3>2
  <2>2. /\ opened /\ PartsGrouped
        /\ \E fs : /\ DOMAIN fs = DOMAIN archive.files
                   /\ \A i \in DOMAIN fs : FinalFile(FALSE, i, fs[i])
                   /\ Reports(c, fs)
    BY <2>1, Extraction
  <2>3. PICK fs : /\ DOMAIN fs = DOMAIN archive.files
                  /\ \A i \in DOMAIN fs : FinalFile(FALSE, i, fs[i])
                  /\ Reports(c, fs)
    BY <2>2
  <2>4. PICK i \in DOMAIN fs : Good(i, fs[i]) /\ c.files[k] = [file |-> i, data |-> fs[i].data]
    <3>1. Reports(c, fs) /\ c.files = calls[x].files
      BY <2>3
    <3>2. k \in DOMAIN c.files
      BY <3>1
    <3> HIDE DEF c
    <3>3. \E i \in DOMAIN fs : Good(i, fs[i]) /\ c.files[k] = [file |-> i, data |-> fs[i].data]
      BY ONLY <3>1, <3>2, ReportedFiles
    <3> QED BY <3>3
  <2>5. /\ i \in DOMAIN archive.files /\ i \in DOMAIN installer.marks /\ archive \in Archive
    BY <2>2, <2>3, <2>4, AfterApply
  <2>6. /\ ~External(i) /\ Located(i) /\ Len(fs[i].data) = OutputSize(i)
        /\ \A r \in Slots(Groups, i) : ErrorIn(FALSE, i, r) = "none"
    BY <2>3, <2>4, GoodFile
  <2>7. ~entry(archive.files[i]).encrypted
    <3>1. 1 \in DOMAIN Parts(i) /\ Parts(i)[1] = archive.files[i].location
      <4>1. archive.files[i] \in FileEntry
        BY <2>5 DEF Archive
      <4>2. archive.files[i].additional \in Seq(Nat)
        BY <4>1 DEF FileEntry
      <4> QED BY <4>2 DEF Parts, Locations
    <3>2. ~Entry(Parts(i)[1]).chunk.encrypted
      BY <2>2, <2>5, <2>6, <3>1, PlainParts
    <3>3. entry(archive.files[i]).encrypted = Entry(archive.files[i].location).chunk.encrypted
      BY <2>6 DEF entry, External
    <3> QED BY <3>1, <3>2, <3>3
  <2>8. Unshared(i) => entry(archive.files[i]).size = OutputSize(i)
    BY <2>2, <2>5, <2>6, ListedSize
  <2> QED BY <2>4, <2>6, <2>7, <2>8
<1> QED BY <1>1, AlwaysCallsInv, PTL

\* From the markers to the bytes, whatever the installer and the memory: see
\* GalaxyFilesAreWhole.
THEOREM GalaxyCorrect == CallsSpec => []GalaxyFilesAreWhole
<1>1. CallsInv => GalaxyFilesAreWhole
  <2> SUFFICES ASSUME CallsInv, NEW x \in Extracts, calls[x].err \in {"none", "ExtractError"},
                      NEW i \in DOMAIN installer.marks, Gog!PartsOf(i) # {}, Unshared(i)
               PROVE  LET returned == {k \in DOMAIN calls[x].files : calls[x].files[k].file = i}
                          failed == {k \in DOMAIN calls[x].failures : calls[x].failures[k].file = i}
                      IN  IF Truthful(i) /\ RightDigest(i) /\ Total(Gog!Sizes(i)) <= MaxUint
                          THEN \/ \E k \in returned : calls[x].files[k].data = Joined(i)
                               \/ \E k \in failed : calls[x].failures[k].err = "LimitExceeded"
                          ELSE Measured(i) => returned = {}
    BY DEF GalaxyFilesAreWhole
  <2> DEFINE c == calls[x]
             whole == Truthful(i) /\ RightDigest(i) /\ Total(Gog!Sizes(i)) <= MaxUint
  <2>1. CallFact(c)
    BY DEF CallsInv, Extracts
  <2>2. ~Refused
    <3>1. Refused => c.err = RefusalOf
      BY <2>1 DEF CallFact
    <3> QED BY <3>1 DEF RefusalOf
  <2>3. /\ opened /\ PartsGrouped /\ ~c.verify
        /\ \E fs : /\ DOMAIN fs = DOMAIN archive.files
                   /\ \A j \in DOMAIN fs : FinalFile(FALSE, j, fs[j])
                   /\ Reports(c, fs)
    BY <2>2, Extraction
  <2>4. /\ archive.files[i].hasChecksum = installer.marks[i].before.md5
        /\ installer.marks[i].before.md5 => archive.files[i].checksum = installer.marks[i].digest
    BY <2>3, GroupParts
  <2>5. SoundParts(i) <=> Truthful(i) /\ Total(Gog!Sizes(i)) <= MaxUint
    BY <2>3, GroupSound
  <2>6. SoundParts(i) => Content(i) = Joined(i)
    BY <2>3, GroupContent
  <2>7. SoundParts(i) => PartEnds(i)[Len(Parts(i))] <= OutputSize(i)
    <3>1. /\ PartEnds(i)[Len(Parts(i))] = Total(Gog!Sizes(i)) /\ Total(Gog!Sizes(i)) \in Nat
          /\ Total(Gog!Sizes(i)) <= MaxUint => OutputSize(i) = Total(Gog!Sizes(i))
      BY <2>3, GroupEnds
    <3> QED BY <2>5, <3>1
  <2>8. Sound(i) <=> whole
    BY <2>4, <2>5, <2>6, <2>7 DEF Sound, RightDigest, Parts
  <2>9. Sound(i) => Content(i) = Joined(i)
    BY <2>6 DEF Sound
  <2>10. CASE Sound(i)
    <3>1. PICK fs : /\ DOMAIN fs = DOMAIN archive.files
                    /\ \A j \in DOMAIN fs : FinalFile(FALSE, j, fs[j])
                    /\ Reports(c, fs)
      BY <2>3
    <3>2. i \in DOMAIN fs
      BY <2>3, <3>1, AfterApply
    <3>3. ~fs[i].skip
      <4>1. fs[i].skip = External(i)
        BY <3>1, <3>2 DEF FinalFile
      <4> QED BY <2>3, <4>1, GroupEnds
    <3>4. Good(i, fs[i]) \/ Bad(i, fs[i])
      BY <3>3 DEF Good, Bad
    <3>5. CASE Good(i, fs[i])
      <4>1. PICK k \in DOMAIN c.files : c.files[k] = [file |-> i, data |-> fs[i].data]
        BY <2>3, <3>1, <3>2, <3>5, ReportedFiles
      <4>2. ReturnedSound(c.files[k]) /\ c.files[k].file = i
        BY <2>1, <4>1 DEF CallFact
      <4>3. c.files[k].data = Joined(i)
        BY <2>9, <2>10, <4>2, SoundMeasured DEF ReturnedSound
      <4> QED BY <2>8, <2>10, <4>2, <4>3
    <3>6. CASE Bad(i, fs[i])
      <4>1. PICK k \in DOMAIN c.failures : c.failures[k] = [file |-> i, err |-> OutcomeOf(i, fs[i])]
        BY <2>3, <3>1, <3>2, <3>6, ReportedFiles
      <4>2. ReportedSound(c.failures[k]) /\ c.failures[k].file = i
        BY <2>1, <4>1 DEF CallFact
      <4>3. c.failures[k].err = "LimitExceeded"
        BY <2>10, <4>2 DEF ReportedSound
      <4> QED BY <2>8, <2>10, <4>2, <4>3
    <3> QED BY <3>4, <3>5, <3>6
  <2>11. CASE ~Sound(i)
    <3>1. ASSUME Measured(i), NEW k \in DOMAIN c.files, c.files[k].file = i PROVE FALSE
      <4>1. ReturnedSound(c.files[k])
        BY <2>1 DEF CallFact
      <4> QED BY <2>11, <3>1, <4>1 DEF ReturnedSound
    <3> QED BY <2>8, <2>11, <3>1
  <2> QED BY <2>10, <2>11
<1> QED BY <1>1, AlwaysCallsInv, PTL

=============================================================================
