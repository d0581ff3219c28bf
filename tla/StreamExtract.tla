--------------------------- MODULE StreamExtract ---------------------------
(***************************************************************************)
(* stream.Extract (internal/stream/stream.go): decode every file of a      *)
(* parsed archive under a memory budget, and report successes and          *)
(* file-local failures separately.                                         *)
(*                                                                         *)
(* The call is sequential; one action is one iteration of one of its       *)
(* loops.  Everything read from outside (the slices, the codecs, the       *)
(* checksums) is fixed by the archive: the description of a chunk says how *)
(* opening and decoding it end, so a run of this module is one call of     *)
(* Extract over one archive, and two runs over the same archive see the    *)
(* same bytes.                                                             *)
(*                                                                         *)
(* A byte is a token that tells where it came from; a checksum is right    *)
(* exactly when the bytes are.  Lengths and sizes are numbers: uint64      *)
(* ranges over 0..MaxUint, int over -MaxInt-1..MaxInt.                     *)
(***************************************************************************)
EXTENDS Integers, Sequences, Sums

CONSTANTS
  Archives,      \* the parsed archives Extract is called with
  MemoryLimits,  \* the values of Options.MemoryLimit it is called with
  DefaultLimit,  \* defaultMemoryLimit
  MaxInt,        \* the largest int (maxInt()) and int64
  MaxUint        \* math.MaxUint64

Uint == 0..MaxUint

Filters == {"none", "instruction", "zlib"}

\* What a slice holds for a chunk: its bytes, bytes without the chunk magic,
\* nothing because Options.Slices is nil, nothing because Slices failed.
Sources == {"chunk", "badMagic", "noProvider", "missingSlice"}

\* How building the decoder ends before the dictionary is looked at.
Codecs == {"ok", "badHeader", "unknown"}

Errors == {"Corrupt", "LimitExceeded", "ChecksumMismatch", "MissingSlice",
           "PasswordRequired", "UnsupportedEncryption", "UnsupportedCompression"}

\* Where a byte comes from: form, chunk, offset of the stored file, index.
Forms == {"zero", "raw", "filtered", "inflated"}
Byte  == Forms \X Nat \X Nat \X Nat
Zero  == <<"zero", 0, 0, 0>>

\* dict is the LZMA dictionary (0 for the other codecs), length the number of
\* bytes the decoder yields, broken whether it then ends with an error.
Chunk == [id: Nat, source: Sources, encrypted: BOOLEAN, codec: Codecs,
          dict: Nat, length: Nat, broken: BOOLEAN]

\* inflated and inflates say what zlib.NewReader makes of the stored bytes,
\* intact that the entry's checksum is the one of the bytes.
DataEntry == [chunk: Chunk, offset: Uint, size: Uint, filter: Filters,
              inflated: Nat, inflates: BOOLEAN, intact: BOOLEAN,
              uncompressedSize: Uint]

\* checksum is the content the public checksum was computed from.
FileEntry == [location: Nat, additional: Seq(Nat), size: Uint,
              hasChecksum: BOOLEAN, checksum: Seq(Byte)]

Archive == [encrypted: BOOLEAN, files: Seq(FileEntry), entries: Seq(DataEntry)]

\* fileAssembly, segmentRef and chunkGroup
FileAssembly == [data: Seq(Byte), totalSize: Uint, assemble: BOOLEAN, skip: BOOLEAN,
                 failed: BOOLEAN, err: Errors \cup {"none"}]
SegmentRef == [file: Nat \ {0}, entry: DataEntry, dest: Uint]
ChunkGroup == [chunk: Chunk, refs: Seq(SegmentRef)]

ASSUME ArchivesAssumption == Archives \subseteq Archive
ASSUME IntAssumption ==
  /\ MaxInt \in Nat /\ MaxUint \in Nat /\ MaxInt + MaxInt <= MaxUint
  /\ DefaultLimit \in 1..MaxInt
  /\ MemoryLimits \subseteq (-MaxInt - 1)..MaxInt

VARIABLES
  archive, memoryLimit, verifyOnly,   \* the arguments
  pc,
  fi, li,      \* loop variables over files and over the locations of a file
  gi, ri,      \* loop variables over groups and over the refs of a group
  total,       \* buildGroups' and allocateFileBuffers' running totals; after
               \* the reservation, what is reserved for output
  dest,        \* buildGroups' destination offset
  files,       \* []fileAssembly
  groups,      \* []chunkGroup
  limit, used, \* memoryBudget
  chunkData,   \* the decoded chunk
  dictionary,  \* the decoder's window while decodeChunk runs
  segment,     \* the decoded file segment
  transient,   \* what it has reserved
  results, failures, archiveErr       \* what the call returns

inputs == <<archive, memoryLimit, verifyOnly>>
plan   == <<fi, li, total, dest, files, groups>>
decode == <<gi, ri, chunkData, dictionary, segment, transient>>
budget == <<limit, used>>
outputs == <<results, failures, archiveErr>>
vars == <<inputs, pc, plan, decode, budget, outputs>>

-----------------------------------------------------------------------------
Locations(f) == <<f.location>> \o f.additional
IsEntry(l)   == l < Len(archive.entries)
Entry(l)     == archive.entries[l + 1]

file == archive.files[fi]
group == groups[gi]
ref == group.refs[ri]

\* Mutant of markFailure: the last error wins.
markFailureLast(fs, marked, err) ==
  [i \in DOMAIN fs |-> IF i \in marked THEN [fs[i] EXCEPT !.failed = TRUE, !.err = err] ELSE fs[i]]

\* markFailure: the first error of a file is the one it keeps.
markFailure(fs, marked, err) ==
  [i \in DOMAIN fs |->
     IF i \in marked /\ ~fs[i].failed
     THEN [fs[i] EXCEPT !.failed = TRUE, !.err = err]
     ELSE fs[i]]

\* memoryBudget
availableAtFirst == limit    \* mutant: forgets what is used already
available == IF limit <= used THEN 0 ELSE limit - used
CanReserve(n) == n <= available
Released(n) == IF n >= used THEN 0 ELSE used - n

FreshFile == [data |-> <<>>, totalSize |-> 0, assemble |-> FALSE,
              skip |-> FALSE, failed |-> FALSE, err |-> "none"]

TypeOK ==
  /\ archive \in Archive /\ memoryLimit \in MemoryLimits /\ verifyOnly \in BOOLEAN
  /\ pc \in {"start", "file", "total", "refs", "sort", "plan", "reserve", "group",
             "read", "chunk", "segment", "place", "finalize", "done"}
  /\ fi \in Nat \ {0} /\ li \in Nat \ {0} /\ gi \in Nat \ {0} /\ ri \in Nat \ {0}
  /\ total \in Uint /\ dest \in Uint
  /\ files \in Seq(FileAssembly) /\ groups \in Seq(ChunkGroup)
  /\ limit \in 0..MaxInt /\ used \in 0..MaxInt
  /\ chunkData \in Seq(Byte) /\ segment \in Seq(Byte)
  /\ dictionary \in Nat /\ transient \in Nat
  /\ results \in Seq([file: Nat \ {0}, data: Seq(Byte)])
  /\ failures \in Seq([file: Nat \ {0}, err: Errors])
  /\ archiveErr \in Errors \cup {"none"}

\* How a call begins, whatever the archive.
Called ==
  /\ memoryLimit \in MemoryLimits /\ verifyOnly \in BOOLEAN
  /\ pc = "start"
  /\ fi = 1 /\ li = 1 /\ gi = 1 /\ ri = 1
  /\ total = 0 /\ dest = 0
  /\ files = [i \in DOMAIN archive.files |-> FreshFile]
  /\ groups = <<>>
  /\ limit = 0 /\ used = 0
  /\ chunkData = <<>> /\ dictionary = 0 /\ segment = <<>> /\ transient = 0
  /\ results = <<>> /\ failures = <<>> /\ archiveErr = "none"

Init == archive \in Archives /\ Called

-----------------------------------------------------------------------------
(* Options and archiveKey.  The parser sets Header.UnsupportedEncryption   *)
(* whenever it sets Header.Encrypted, so an encrypted archive ends here    *)
(* and the chunks are always decoded without a key.                        *)

RejectArchive ==
  /\ pc = "start"
  /\ memoryLimit < 0 \/ archive.encrypted
  /\ archiveErr' = IF memoryLimit < 0 THEN "LimitExceeded" ELSE "UnsupportedEncryption"
  /\ pc' = "done"
  /\ UNCHANGED <<inputs, plan, decode, budget, results, failures>>

AcceptArchive ==
  /\ pc = "start"
  /\ memoryLimit >= 0 /\ ~archive.encrypted
  /\ limit' = IF memoryLimit = 0 THEN DefaultLimit ELSE memoryLimit
  /\ pc' = "file"
  /\ UNCHANGED <<inputs, plan, decode, used, outputs>>

-----------------------------------------------------------------------------
(* buildGroups: the size and the segments of every file.                   *)

MoreFiles == fi <= Len(files)

\* A location past the data entries is an external copy command: no payload.
SkipFile ==
  /\ pc = "file" /\ MoreFiles
  /\ ~IsEntry(file.location)
  /\ files' = [files EXCEPT ![fi].skip = TRUE]
  /\ fi' = fi + 1
  /\ UNCHANGED <<inputs, pc, li, total, dest, groups, decode, budget, outputs>>

StartFile ==
  /\ pc = "file" /\ MoreFiles
  /\ IsEntry(file.location)
  /\ li' = 1 /\ total' = 0
  /\ pc' = "total"
  /\ UNCHANGED <<inputs, fi, dest, files, groups, decode, budget, outputs>>

Part == Entry(Locations(file)[li])
MoreParts == li <= Len(Locations(file))
UnboundedPart == IsEntry(Locations(file)[li])    \* mutant: no overflow check
GoodPart == /\ IsEntry(Locations(file)[li])
            /\ Part.uncompressedSize <= MaxUint - total

AddPart ==
  /\ pc = "total" /\ MoreParts
  /\ GoodPart
  /\ total' = total + Part.uncompressedSize
  /\ li' = li + 1
  /\ UNCHANGED <<inputs, pc, fi, dest, files, groups, decode, budget, outputs>>

RejectPart ==
  /\ pc = "total" /\ MoreParts
  /\ ~GoodPart
  /\ files' = markFailure(files, {fi}, "Corrupt")
  /\ fi' = fi + 1
  /\ pc' = "file"
  /\ UNCHANGED <<inputs, li, total, dest, groups, decode, budget, outputs>>

\* The size of the public file, when there is one, overrides the sum.
SizeFile ==
  /\ pc = "total" /\ ~MoreParts
  /\ files' = [files EXCEPT ![fi].totalSize = IF file.size # 0 THEN file.size ELSE total]
  /\ li' = 1 /\ dest' = 0
  /\ pc' = "refs"
  /\ UNCHANGED <<inputs, fi, total, groups, decode, budget, outputs>>

\* Mutant of WithRef: every ref opens a group of its own.
WithRefApart(gs, chunk, r) == Append(gs, [chunk |-> chunk, refs |-> <<r>>])

\* One group per unique chunk, in the order the chunks are first met.
WithRef(gs, chunk, r) ==
  IF \E g \in DOMAIN gs : gs[g].chunk = chunk
  THEN [g \in DOMAIN gs |-> IF gs[g].chunk = chunk
                            THEN [gs[g] EXCEPT !.refs = Append(@, r)]
                            ELSE gs[g]]
  ELSE Append(gs, [chunk |-> chunk, refs |-> <<r>>])

\* The destination cannot overflow where AddPart has let the sum through.
AddRef ==
  /\ pc = "refs" /\ MoreParts
  /\ groups' = WithRef(groups, Part.chunk, [file |-> fi, entry |-> Part, dest |-> dest])
  /\ IF Part.uncompressedSize <= MaxUint - dest
     THEN /\ dest' = dest + Part.uncompressedSize
          /\ li' = li + 1
          /\ UNCHANGED <<pc, fi, files>>
     ELSE /\ files' = markFailure(files, {fi}, "Corrupt")
          /\ fi' = fi + 1 /\ pc' = "file"
          /\ UNCHANGED <<dest, li>>
  /\ UNCHANGED <<inputs, total, decode, budget, outputs>>

EndFile ==
  /\ pc = "refs" /\ ~MoreParts
  /\ fi' = fi + 1
  /\ pc' = "file"
  /\ UNCHANGED <<inputs, li, total, dest, files, groups, decode, budget, outputs>>

EndFiles ==
  /\ pc = "file" /\ ~MoreFiles
  /\ gi' = 1
  /\ pc' = "sort"
  /\ UNCHANGED <<inputs, plan, ri, chunkData, dictionary, segment, transient, budget, outputs>>

\* sort.SliceStable by the offset in the chunk: order[k] is the index, before
\* the sort, of the ref that is k-th after it.
StableOrders(refs) ==
  {order \in [DOMAIN refs -> DOMAIN refs] :
     \A j, k \in DOMAIN refs : j < k =>
       LET x == refs[order[j]].entry.offset
           y == refs[order[k]].entry.offset
       IN  x < y \/ (x = y /\ order[j] < order[k])}

SortGroup ==
  /\ pc = "sort" /\ gi <= Len(groups)
  /\ \E order \in StableOrders(group.refs) :
       groups' = [groups EXCEPT ![gi].refs = [k \in DOMAIN group.refs |-> group.refs[order[k]]]]
  /\ gi' = gi + 1
  /\ UNCHANGED <<inputs, pc, fi, li, total, dest, files, ri, chunkData, dictionary, segment,
                 transient, budget, outputs>>

EndSort ==
  /\ pc = "sort" /\ gi > Len(groups)
  /\ fi' = 1 /\ total' = 0
  /\ pc' = "plan"
  /\ UNCHANGED <<inputs, li, dest, files, groups, decode, budget, outputs>>

-----------------------------------------------------------------------------
(* allocateFileBuffers: the whole output is reserved before any buffer is  *)
(* made.  Verifying assembles only the files with a public checksum.       *)

AssembledToKeep == ~files[fi].skip /\ ~files[fi].failed /\ ~verifyOnly   \* mutant
Assembled == /\ ~files[fi].skip /\ ~files[fi].failed
             /\ verifyOnly => file.hasChecksum
Fits == /\ files[fi].totalSize <= MaxInt
        /\ files[fi].totalSize <= MaxUint - total

PassFile ==
  /\ pc = "plan" /\ MoreFiles
  /\ ~Assembled
  /\ fi' = fi + 1
  /\ UNCHANGED <<inputs, pc, li, total, dest, files, groups, decode, budget, outputs>>

PlanFile ==
  /\ pc = "plan" /\ MoreFiles
  /\ Assembled /\ Fits
  /\ files' = [files EXCEPT ![fi].assemble = TRUE]
  /\ total' = total + files[fi].totalSize
  /\ fi' = fi + 1
  /\ UNCHANGED <<inputs, pc, li, dest, groups, decode, budget, outputs>>

RefuseFile ==
  /\ pc = "plan" /\ MoreFiles
  /\ Assembled /\ ~Fits
  /\ files' = markFailure(files, {fi}, "LimitExceeded")
  /\ fi' = fi + 1
  /\ UNCHANGED <<inputs, pc, li, total, dest, groups, decode, budget, outputs>>

EndPlan ==
  /\ pc = "plan" /\ ~MoreFiles
  /\ gi' = 1
  /\ pc' = "reserve"
  /\ UNCHANGED <<inputs, plan, ri, chunkData, dictionary, segment, transient, budget, outputs>>

\* Extract's loop that makes the buffers.
HasBufferUnplanned(i) == ~files[i].failed    \* mutant: files not assembled too
HasBuffer(i) == files[i].assemble /\ ~files[i].failed

ReserveOutput ==
  /\ pc = "reserve"
  /\ CanReserve(total)
  /\ used' = used + total
  /\ files' = [i \in DOMAIN files |->
                 IF HasBuffer(i)
                 THEN [files[i] EXCEPT !.data = [k \in 1..files[i].totalSize |-> Zero]]
                 ELSE files[i]]
  /\ pc' = "group"
  /\ UNCHANGED <<inputs, fi, li, total, dest, groups, decode, limit, outputs>>

RefuseOutput ==
  /\ pc = "reserve"
  /\ ~CanReserve(total)
  /\ total' = 0
  /\ LET assembled == {i \in DOMAIN files : files[i].assemble}
         marked == markFailure(files, assembled, "LimitExceeded")
     IN  files' = [i \in DOMAIN files |-> [marked[i] EXCEPT !.assemble = FALSE]]
  /\ pc' = "group"
  /\ UNCHANGED <<inputs, fi, li, dest, groups, decode, budget, outputs>>

-----------------------------------------------------------------------------
(* decodeChunk, for every group some live file needs.                      *)

EveryFile(g) == DOMAIN files    \* mutant of Owners
Owners(g) == {g.refs[k].file : k \in DOMAIN g.refs}

groupNeeded == \E i \in Owners(group) : ~files[i].skip /\ ~files[i].failed

\* The error of every file of the group when its chunk cannot be decoded.
FailGroup(err) ==
  /\ files' = markFailure(files, Owners(group), err)
  /\ gi' = gi + 1
  /\ chunkData' = <<>> /\ dictionary' = 0
  /\ pc' = "group"
  /\ UNCHANGED <<inputs, fi, li, total, dest, groups, ri, segment, transient, budget, outputs>>

SkipGroup ==
  /\ pc = "group" /\ gi <= Len(groups)
  /\ ~groupNeeded
  /\ gi' = gi + 1
  /\ UNCHANGED <<inputs, pc, plan, ri, chunkData, dictionary, segment, transient, budget, outputs>>

\* The first thing that goes wrong before the decoder yields a byte.  The
\* failure of Slices happens in the first read, which reports Corrupt.
OpenError(c) ==
  IF c.source = "noProvider" THEN "MissingSlice"
  ELSE IF c.source # "chunk" THEN "Corrupt"
  ELSE IF c.encrypted THEN "PasswordRequired"
  ELSE IF c.codec = "unknown" THEN "UnsupportedCompression"
  ELSE IF c.codec = "badHeader" THEN "Corrupt"
  ELSE IF c.dict > available THEN "LimitExceeded"
  ELSE "none"

OpenChunk ==
  /\ pc = "group" /\ gi <= Len(groups)
  /\ groupNeeded
  /\ OpenError(group.chunk) = "none"
  /\ dictionary' = group.chunk.dict
  /\ pc' = "read"
  /\ UNCHANGED <<inputs, plan, gi, ri, chunkData, segment, transient, budget, outputs>>

FailOpen ==
  /\ pc = "group" /\ gi <= Len(groups)
  /\ groupNeeded
  /\ OpenError(group.chunk) # "none"
  /\ FailGroup(OpenError(group.chunk))

\* readAllLimit: the limit is noticed before the error that follows the bytes.
ReadError(c) ==
  IF c.length > available THEN "LimitExceeded"
  ELSE IF c.broken THEN "Corrupt"
  ELSE "none"

ChunkBytes(c) == [k \in 1..c.length |-> <<"raw", c.id, 0, k>>]

ReadChunk ==
  /\ pc = "read"
  /\ ReadError(group.chunk) = "none"
  /\ chunkData' = ChunkBytes(group.chunk)
  /\ pc' = "chunk"
  /\ UNCHANGED <<inputs, plan, gi, ri, dictionary, segment, transient, budget, outputs>>

FailRead ==
  /\ pc = "read"
  /\ ReadError(group.chunk) # "none"
  /\ FailGroup(ReadError(group.chunk))

\* decodeChunk has returned: its decoder is gone, its result gets reserved.
ReserveChunk ==
  /\ pc = "chunk"
  /\ IF CanReserve(Len(chunkData))
     THEN /\ used' = used + Len(chunkData)
          /\ dictionary' = 0
          /\ ri' = 1
          /\ pc' = "segment"
          /\ UNCHANGED <<inputs, plan, gi, chunkData, segment, transient, limit, outputs>>
     ELSE FailGroup("LimitExceeded")

-----------------------------------------------------------------------------
(* The segments of the decoded chunk.                                      *)

InChunk(e) == /\ e.offset <= Len(chunkData)
              /\ e.size <= Len(chunkData) - e.offset

\* decodeFileSegment
SegmentError(e) ==
  IF ~InChunk(e) THEN "Corrupt"
  ELSE IF e.filter = "instruction" /\ e.size > available THEN "LimitExceeded"
  ELSE IF e.filter = "zlib" /\ e.inflated > available THEN "LimitExceeded"
  ELSE IF e.filter = "zlib" /\ ~e.inflates THEN "Corrupt"
  ELSE IF ~e.intact THEN "ChecksumMismatch"
  ELSE "none"

Filtered(e, bytes) ==
  CASE e.filter = "none"        -> bytes
    [] e.filter = "instruction" -> [k \in 1..e.size |-> <<"filtered", e.chunk.id, e.offset, k>>]
    [] e.filter = "zlib"        -> [k \in 1..e.inflated |-> <<"inflated", e.chunk.id, e.offset, k>>]

StoredBytes(e) == [k \in 1..e.size |-> chunkData[e.offset + k]]

SkipRef ==
  /\ pc = "segment" /\ ri <= Len(group.refs)
  /\ files[ref.file].failed
  /\ ri' = ri + 1
  /\ UNCHANGED <<inputs, pc, plan, gi, chunkData, dictionary, segment, transient, budget, outputs>>

\* Only a filter that makes a buffer of its own reserves memory.
DecodeSegment ==
  /\ pc = "segment" /\ ri <= Len(group.refs)
  /\ ~files[ref.file].failed
  /\ SegmentError(ref.entry) = "none"
  /\ LET bytes == Filtered(ref.entry, StoredBytes(ref.entry))
         own   == IF ref.entry.filter = "none" THEN 0 ELSE Len(bytes)
     IN  IF CanReserve(own)
         THEN /\ segment' = bytes
              /\ transient' = own
              /\ used' = used + own
              /\ pc' = "place"
              /\ UNCHANGED <<files, ri>>
         ELSE /\ files' = markFailure(files, {ref.file}, "LimitExceeded")
              /\ ri' = ri + 1
              /\ UNCHANGED <<pc, segment, transient, used>>
  /\ UNCHANGED <<inputs, fi, li, total, dest, groups, gi, chunkData, dictionary, limit, outputs>>

FailSegment ==
  /\ pc = "segment" /\ ri <= Len(group.refs)
  /\ ~files[ref.file].failed
  /\ SegmentError(ref.entry) # "none"
  /\ files' = markFailure(files, {ref.file}, SegmentError(ref.entry))
  /\ ri' = ri + 1
  /\ UNCHANGED <<inputs, pc, fi, li, total, dest, groups, gi, chunkData, dictionary, segment,
                 transient, budget, outputs>>

\* Mutant of PlaceError: the decoded size is not compared with the declared one.
PlaceErrorUnmeasured(r) ==
  IF files[r.file].assemble /\ Len(segment) > Len(files[r.file].data) - r.dest
  THEN "Corrupt" ELSE "none"

\* A declared size of zero is not compared with the decoded one.
PlaceError(r) ==
  IF r.entry.uncompressedSize # 0 /\ Len(segment) # r.entry.uncompressedSize
  THEN "Corrupt"
  ELSE IF /\ files[r.file].assemble
          /\ \/ r.dest > Len(files[r.file].data)
             \/ Len(segment) > Len(files[r.file].data) - r.dest
  THEN "Corrupt"
  ELSE "none"

Copied(data, at, bytes) ==
  [k \in DOMAIN data |-> IF k \in (at + 1)..(at + Len(bytes)) THEN bytes[k - at] ELSE data[k]]

PlaceSegment ==
  /\ pc = "place"
  /\ files' = IF PlaceError(ref) # "none"
              THEN markFailure(files, {ref.file}, PlaceError(ref))
              ELSE IF files[ref.file].assemble
              THEN [files EXCEPT ![ref.file].data = Copied(@, ref.dest, segment)]
              ELSE files
  /\ used' = Released(transient)
  /\ segment' = <<>> /\ transient' = 0
  /\ ri' = ri + 1
  /\ pc' = "segment"
  /\ UNCHANGED <<inputs, fi, li, total, dest, groups, gi, chunkData, dictionary, limit, outputs>>

ReleaseChunk ==
  /\ pc = "segment" /\ ri > Len(group.refs)
  /\ used' = Released(Len(chunkData))
  /\ chunkData' = <<>>
  /\ gi' = gi + 1
  /\ pc' = "group"
  /\ UNCHANGED <<inputs, plan, ri, dictionary, segment, transient, limit, outputs>>

EndGroups ==
  /\ pc = "group" /\ gi > Len(groups)
  /\ fi' = 1
  /\ pc' = "finalize"
  /\ UNCHANGED <<inputs, li, total, dest, files, groups, decode, budget, outputs>>

-----------------------------------------------------------------------------
(* The results, in file order.                                             *)

\* verifyFinalChecksum
FinalError(i) ==
  IF ~archive.files[i].hasChecksum THEN "none"
  ELSE IF Len(files[i].data) # files[i].totalSize THEN "Corrupt"
  ELSE IF files[i].data # archive.files[i].checksum THEN "ChecksumMismatch"
  ELSE "none"

Verdict(i) == IF files[i].failed THEN files[i].err ELSE FinalError(i)

ReportSkipped ==
  /\ pc = "finalize" /\ MoreFiles
  /\ files[fi].skip
  /\ fi' = fi + 1
  /\ UNCHANGED <<inputs, pc, li, total, dest, files, groups, decode, budget, outputs>>

ReportFailure ==
  /\ pc = "finalize" /\ MoreFiles
  /\ ~files[fi].skip /\ Verdict(fi) # "none"
  /\ failures' = Append(failures, [file |-> fi, err |-> Verdict(fi)])
  /\ fi' = fi + 1
  /\ UNCHANGED <<inputs, pc, li, total, dest, files, groups, decode, budget, results, archiveErr>>

ReportResult ==
  /\ pc = "finalize" /\ MoreFiles
  /\ ~files[fi].skip /\ Verdict(fi) = "none"
  /\ results' = Append(results, [file |-> fi,
                                 data |-> IF verifyOnly THEN <<>> ELSE files[fi].data])
  /\ fi' = fi + 1
  /\ UNCHANGED <<inputs, pc, li, total, dest, files, groups, decode, budget, failures, archiveErr>>

Return ==
  /\ pc = "finalize" /\ ~MoreFiles
  /\ pc' = "done"
  /\ UNCHANGED <<inputs, plan, decode, budget, outputs>>

Step ==
  \/ RejectArchive \/ AcceptArchive
  \/ SkipFile \/ StartFile \/ AddPart \/ RejectPart \/ SizeFile \/ AddRef \/ EndFile \/ EndFiles
  \/ SortGroup \/ EndSort
  \/ PassFile \/ PlanFile \/ RefuseFile \/ EndPlan \/ ReserveOutput \/ RefuseOutput
  \/ SkipGroup \/ OpenChunk \/ FailOpen \/ ReadChunk \/ FailRead \/ ReserveChunk
  \/ SkipRef \/ DecodeSegment \/ FailSegment \/ PlaceSegment \/ ReleaseChunk \/ EndGroups
  \/ ReportSkipped \/ ReportFailure \/ ReportResult \/ Return

Returned == pc = "done" /\ UNCHANGED vars

Next == Step \/ Returned

\* The call runs until it returns.
Spec == Init /\ [][Next]_vars /\ WF_vars(Step)

-----------------------------------------------------------------------------
(* What the archive says should come out, stated without the steps.        *)

\* PartEnds(i)[k]: where in the public file its first k parts end.
PartSizes(i) ==
  LET locations == Locations(archive.files[i])
  IN  [k \in DOMAIN locations |-> Entry(locations[k]).uncompressedSize]
PartEnds(i) == Sums(PartSizes(i))

\* The files that name data entries only, with sizes a uint64 can add up.
External(i) == ~IsEntry(archive.files[i].location)
Located(i) ==
  LET locations == Locations(archive.files[i])
  IN  /\ \A k \in DOMAIN locations : IsEntry(locations[k])
      /\ PartEnds(i)[Len(locations)] <= MaxUint

OutputSize(i) == IF archive.files[i].size # 0 THEN archive.files[i].size
                 ELSE PartEnds(i)[Len(Locations(archive.files[i]))]

\* The bytes a part decodes to, and whether everything about it is in order.
PartBytes(e) == Filtered(e, [k \in 1..e.size |-> <<"raw", e.chunk.id, 0, e.offset + k>>])
SoundChunk(c) == /\ c.source = "chunk" /\ ~c.encrypted
                 /\ c.codec = "ok" /\ ~c.broken
SoundPart(e) == /\ SoundChunk(e.chunk)
                /\ e.offset + e.size <= e.chunk.length
                /\ e.filter = "zlib" => e.inflates
                /\ e.intact
                /\ Len(PartBytes(e)) = e.uncompressedSize

\* No part of the file declares no size and has bytes: they would land on the
\* bytes of the part that follows.
Measured(i) ==
  \A k \in DOMAIN Locations(archive.files[i]) :
     LET e == Entry(Locations(archive.files[i])[k])
     IN  e.uncompressedSize = 0 => Len(PartBytes(e)) = 0

\* The parts one after the other, and zeros when the file is declared longer.
Content(i) ==
  [p \in 1..OutputSize(i) |->
     LET locations == Locations(archive.files[i])
         here == {k \in DOMAIN locations : PartEnds(i)[k - 1] < p /\ p <= PartEnds(i)[k]}
     IN  IF here = {} THEN Zero
         ELSE LET k == CHOOSE k \in here : TRUE
              IN  PartBytes(Entry(locations[k]))[p - PartEnds(i)[k - 1]]]

SoundParts(i) ==
  /\ Located(i)
  /\ \A k \in DOMAIN Locations(archive.files[i]) :
       SoundPart(Entry(Locations(archive.files[i])[k]))

Sound(i) ==
  /\ SoundParts(i)
  /\ PartEnds(i)[Len(Locations(archive.files[i]))] <= OutputSize(i)
  /\ archive.files[i].hasChecksum => Content(i) = archive.files[i].checksum

\* The limit has room for every output and, next to them, for any one chunk,
\* its dictionary and its largest segment.
AmpleMemory ==
  LET sizes == [i \in DOMAIN archive.files |->
                    IF External(i) \/ ~Located(i) THEN 0 ELSE OutputSize(i)]
  IN  \A k \in DOMAIN archive.entries :
        LET e == archive.entries[k]
        IN  Total(sizes) + e.chunk.length + e.chunk.dict + Len(PartBytes(e)) <= limit

Answered == pc = "done" /\ archiveErr = "none"

-----------------------------------------------------------------------------
(* Properties.                                                             *)

\* From the reservation on, the budget counts exactly the memory in use, the
\* output, the decoded chunk and the segment buffer: nothing a failed chunk
\* or segment has reserved stays behind, nothing is released twice, and the
\* limit is never passed.
BudgetHolds ==
  /\ used <= limit
  /\ pc \in {"group", "read", "chunk", "finalize"} => used = total
  /\ pc = "segment" => used = total + Len(chunkData)
  /\ pc = "place" => used = total + Len(chunkData) + transient

\* The output part of the budget is the sum of the buffers that exist, those
\* of files that have failed since included: they stay until the call returns.
OutputIsReserved ==
  pc \in {"group", "read", "chunk", "segment", "place", "finalize"} =>
    total = Total([i \in DOMAIN files |-> Len(files[i].data)])

\* Grouping by chunk and sorting by offset neither lose, repeat nor misplace a
\* segment: each part of each planned file is in exactly one group, the only
\* one of its chunk, at the destination where the parts before it end, and
\* the refs of a group are in offset order, files in archive order within it.
SegmentsCoverFiles ==
  pc = "reserve" =>
    /\ \A g, h \in DOMAIN groups : groups[g].chunk = groups[h].chunk => g = h
    /\ \A g \in DOMAIN groups : \A j, k \in DOMAIN groups[g].refs :
         j < k => \/ groups[g].refs[j].entry.offset < groups[g].refs[k].entry.offset
                  \/ /\ groups[g].refs[j].entry.offset = groups[g].refs[k].entry.offset
                     /\ groups[g].refs[j].file <= groups[g].refs[k].file
    /\ \A i \in DOMAIN files :
         LET locations == Locations(archive.files[i])
             refs == UNION {{<<g, k>> : k \in {k \in DOMAIN groups[g].refs :
                                                groups[g].refs[k].file = i}} : g \in DOMAIN groups}
             isPart(r, k) == LET x == groups[r[1]].refs[r[2]]
                             IN  /\ x.entry = Entry(locations[k])
                                 /\ x.dest = PartEnds(i)[k - 1]
                                 /\ groups[r[1]].chunk = x.entry.chunk
         IN  IF External(i) \/ ~Located(i)
             THEN refs = {}
             ELSE \E part \in [refs -> DOMAIN locations] :
                    /\ \A r \in refs : isPart(r, part[r])
                    /\ \A k \in DOMAIN locations : \E r \in refs : part[r] = k /\ \A q \in refs : part[q] = k => q = r

\* A file that is returned is what the archive says: every part decoded without
\* an error and in its place, whatever its group shares with other files and
\* in whatever order the groups came.  Verifying a file without a public
\* checksum vouches for its parts only.
ResultsAreSound ==
  Answered =>
    \A k \in DOMAIN results :
      LET i == results[k].file
      IN  Measured(i) =>
            /\ SoundParts(i)
            /\ ~verifyOnly \/ archive.files[i].hasChecksum => Sound(i)
            /\ ~verifyOnly => results[k].data = Content(i)

\* A failure stays with the file it belongs to: a file in order fails only for
\* want of memory, and never when there is room for everything.
SoundFilesFailOnlyOnMemory ==
  Answered =>
    \A k \in DOMAIN failures :
      Sound(failures[k].file) => failures[k].err = "LimitExceeded" /\ ~AmpleMemory

-----------------------------------------------------------------------------
(* What the call promises, whatever the archive: see ExtractContract.      *)

verdictOf(i) == IF files[i].skip THEN "external"
                ELSE IF files[i].failed THEN files[i].err
                ELSE "open"

Contract == INSTANCE ExtractContract WITH
  verdict   <- [i \in DOMAIN files |-> verdictOf(i)],
  reported  <- IF pc = "finalize" THEN fi - 1
               ELSE IF Answered THEN Len(files) ELSE 0,
  succeeded <- [k \in DOMAIN results |-> results[k].file],
  refused   <- archiveErr

ContractSpec == Contract!Spec

-----------------------------------------------------------------------------
(* What the documentation says and the code does not do.                   *)

\* "WithMemoryLimit(bytes) bounds extraction/decompression memory"
\* (README.md:89).  The dictionary of the decoder is compared with what is
\* left of the budget but never counted in it, so that it and the decoded
\* chunk may each fill what is left.
MemoryIsBounded ==
  pc \in {"group", "read", "chunk", "segment", "place"} =>
    total + dictionary + Len(chunkData) + transient <= limit

\* "errors.Is/errors.As can still inspect the underlying cause" of a failed
\* entry (README.md:111).  The error of a slice provider reaches decodeChunk
\* through its first read and is reported as corruption, its text kept and
\* the error itself lost.
MissingSliceCanBeInspected ==
  Answered =>
    \A k \in DOMAIN failures :
      LET f == archive.files[failures[k].file]
      IN  Entry(f.location).chunk.source = "missingSlice" /\ failures[k].err # "LimitExceeded"
            => failures[k].err = "MissingSlice"

=============================================================================
