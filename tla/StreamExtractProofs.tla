------------------------ MODULE StreamExtractProofs -------------------------
(*****************************************************************************)
(* Proofs about stream.Extract, for every set of archives, every limit and  *)
(* every integer width: the types and the memory budget, what buildGroups   *)
(* makes of the files, which segments the groups hold and in which order,   *)
(* that the memory reserved for output is the memory of the buffers, that   *)
(* a result is what the archive says, and that a file in order fails only   *)
(* for want of memory.                                                      *)
(*****************************************************************************)
EXTENDS StreamExtract, DataInduction, FiniteSetTheorems

-----------------------------------------------------------------------------
(* The operators the actions are built from.                               *)

\* A file that is marked as failed is a file.
LEMMA FailedFile ==
  ASSUME NEW f \in FileAssembly, NEW err \in Errors
  PROVE  [f EXCEPT !.failed = TRUE, !.err = err] \in FileAssembly
  BY DEF FileAssembly

\* A file that is given bytes is a file.
LEMMA FilledFile ==
  ASSUME NEW f \in FileAssembly, NEW bytes \in Seq(Byte)
  PROVE  [f EXCEPT !.data = bytes] \in FileAssembly
  BY DEF FileAssembly

\* So is a sequence of files one of which is replaced.
LEMMA ReplacedFile ==
  ASSUME NEW fs \in Seq(FileAssembly), NEW k, NEW f \in FileAssembly
  PROVE  [fs EXCEPT ![k] = f] \in Seq(FileAssembly) /\ Len([fs EXCEPT ![k] = f]) = Len(fs)
  <1>1. fs \in [1..Len(fs) -> FileAssembly] /\ Len(fs) \in Nat
    OBVIOUS
  <1>2. [fs EXCEPT ![k] = f] \in [1..Len(fs) -> FileAssembly]
    BY <1>1
  <1> QED BY <1>1, <1>2

\* markFailure keeps the number of files and their types, whichever it marks.
LEMMA MarkFailureType ==
  ASSUME NEW fs \in Seq(FileAssembly), NEW marked, NEW err \in Errors
  PROVE  /\ markFailure(fs, marked, err) \in Seq(FileAssembly)
         /\ Len(markFailure(fs, marked, err)) = Len(fs)
  <1>1. DOMAIN fs = 1..Len(fs) /\ Len(fs) \in Nat
    OBVIOUS
  <1> DEFINE new(i) == IF i \in marked /\ ~fs[i].failed
                       THEN [fs[i] EXCEPT !.failed = TRUE, !.err = err] ELSE fs[i]
  <1>2. ASSUME NEW i \in 1..Len(fs) PROVE new(i) \in FileAssembly
    <2>1. fs[i] \in FileAssembly
      OBVIOUS
    <2> QED BY <2>1, FailedFile
  <1>3. markFailure(fs, marked, err) = [i \in 1..Len(fs) |-> new(i)]
    BY <1>1 DEF markFailure
  <1> HIDE DEF new
  <1> QED BY <1>1, <1>2, <1>3

\* A file has a first location, and its locations are numbers.
LEMMA LocationsType ==
  ASSUME NEW f \in FileEntry
  PROVE  Locations(f) \in Seq(Nat) /\ Len(Locations(f)) >= 1
  <1>1. f.location \in Nat /\ f.additional \in Seq(Nat)
    BY DEF FileEntry
  <1> QED BY <1>1 DEF Locations

\* Adding a ref to the groups gives groups, in its chunk's group or a new one.
LEMMA WithRefType ==
  ASSUME NEW gs \in Seq(ChunkGroup), NEW c \in Chunk, NEW r \in SegmentRef
  PROVE  WithRef(gs, c, r) \in Seq(ChunkGroup)
  <1>1. ASSUME NEW g \in ChunkGroup
        PROVE  [g EXCEPT !.refs = Append(@, r)] \in ChunkGroup
    <2>1. g.refs \in Seq(SegmentRef)
      BY DEF ChunkGroup
    <2>2. Append(g.refs, r) \in Seq(SegmentRef)
      BY <2>1
    <2> QED BY <2>2 DEF ChunkGroup
  <1>2. DOMAIN gs = 1..Len(gs) /\ Len(gs) \in Nat
    OBVIOUS
  <1> DEFINE new(g) == IF gs[g].chunk = c THEN [gs[g] EXCEPT !.refs = Append(@, r)] ELSE gs[g]
  <1>3. ASSUME NEW g \in 1..Len(gs) PROVE new(g) \in ChunkGroup
    <2>1. gs[g] \in ChunkGroup
      OBVIOUS
    <2> QED BY <2>1, <1>1
  <1>4. CASE \E g \in DOMAIN gs : gs[g].chunk = c
    <2>1. WithRef(gs, c, r) = [g \in 1..Len(gs) |-> new(g)]
      BY <1>2, <1>4 DEF WithRef
    <2> HIDE DEF new
    <2> QED BY <1>2, <1>3, <2>1
  <1>5. CASE ~ \E g \in DOMAIN gs : gs[g].chunk = c
    <2>1. [chunk |-> c, refs |-> <<r>>] \in ChunkGroup
      BY DEF ChunkGroup
    <2> QED BY <1>5, <2>1 DEF WithRef
  <1> QED BY <1>4, <1>5

\* What a filter makes of stored bytes is a sequence of bytes.
LEMMA FilteredType ==
  ASSUME NEW e \in DataEntry, NEW bytes \in Seq(Byte)
  PROVE  Filtered(e, bytes) \in Seq(Byte)
  <1>1. e.size \in Nat /\ e.inflated \in Nat /\ e.offset \in Nat /\ e.chunk.id \in Nat
    BY IntAssumption DEF DataEntry, Chunk, Uint
  <1>2. \A form \in Forms, k \in Nat : <<form, e.chunk.id, e.offset, k>> \in Byte
    BY <1>1 DEF Byte
  <1>3. \A n \in Nat : /\ [k \in 1..n |-> <<"filtered", e.chunk.id, e.offset, k>>] \in Seq(Byte)
                       /\ [k \in 1..n |-> <<"inflated", e.chunk.id, e.offset, k>>] \in Seq(Byte)
    BY <1>2 DEF Forms
  <1> QED BY <1>1, <1>3 DEF Filtered, DataEntry, Filters

-----------------------------------------------------------------------------
(* The inductive invariant.  The types need two facts more: the loop       *)
(* variables are in range where they are used (a file is only taken apart  *)
(* once all its locations are known to be entries), and nothing is         *)
(* reserved before the output is.                                          *)

InRange ==
  /\ Len(files) = Len(archive.files)
  /\ pc \in {"total", "refs"} => fi <= Len(files)
  /\ pc = "total" => \A k \in 1..(li - 1) : k <= Len(Locations(file)) => IsEntry(Locations(file)[k])
  /\ pc = "refs" => \A k \in 1..Len(Locations(file)) : IsEntry(Locations(file)[k])
  /\ pc \in {"read", "chunk", "segment", "place"} => gi <= Len(groups)
  /\ pc = "place" => ri <= Len(group.refs)

NothingReserved ==
  pc \in {"start", "file", "total", "refs", "sort", "plan", "reserve"} => used = 0

IInv == TypeOK /\ InRange /\ NothingReserved /\ BudgetHolds

\* A call begins, on whatever archive there is by now.
Begun == archive \in Archive /\ Called

LEMMA InitBegun == Init => Begun
BY ArchivesAssumption DEF Init, Begun

\* Extract is called with an empty budget and nothing reserved.
THEOREM InitIInv == Begun => IInv
  <1> SUFFICES ASSUME Begun PROVE IInv
    OBVIOUS
  <1> USE DEF Begun, Called
  <1>1. archive \in Archive /\ archive.files \in Seq(FileEntry)
    BY DEF Archive
  <1>2. FreshFile \in FileAssembly
    BY IntAssumption DEF FreshFile, FileAssembly, Uint, Errors
  <1>3. files \in Seq(FileAssembly) /\ Len(files) = Len(archive.files)
    <2>1. DOMAIN archive.files = 1..Len(archive.files) /\ Len(archive.files) \in Nat
      BY <1>1
    <2>2. files \in [1..Len(archive.files) -> FileAssembly]
      BY <2>1, <1>2
    <2> QED BY <2>1, <2>2
  <1>4. TypeOK
    BY <1>1, <1>3, IntAssumption DEF TypeOK, Uint
  <1>5. InRange
    BY <1>3 DEF InRange
  <1>6. NothingReserved /\ BudgetHolds
    BY DEF NothingReserved, BudgetHolds
  <1> QED BY <1>4, <1>5, <1>6 DEF IInv

\* What the type invariant says of the file a loop is at.
LEMMA FileTypes ==
  ASSUME IInv, fi <= Len(files)
  PROVE  /\ file \in FileEntry /\ files[fi] \in FileAssembly
         /\ fi \in DOMAIN files /\ fi \in DOMAIN archive.files
         /\ Locations(file) \in Seq(Nat) /\ Len(Locations(file)) >= 1
  <1>1. archive.files \in Seq(FileEntry)
    BY DEF IInv, TypeOK, Archive
  <1>2. fi \in 1..Len(files) /\ Len(files) = Len(archive.files)
    BY DEF IInv, TypeOK, InRange
  <1>3. file \in FileEntry /\ files[fi] \in FileAssembly
    BY <1>1, <1>2 DEF IInv, TypeOK, file
  <1> QED BY <1>1, <1>2, <1>3, LocationsType DEF IInv, TypeOK

\* The data entry of a location that is in range.
LEMMA PartTypes ==
  ASSUME IInv, fi <= Len(files), MoreParts, IsEntry(Locations(file)[li])
  PROVE  /\ Part \in DataEntry /\ Part.uncompressedSize \in Uint
         /\ Part.chunk \in Chunk
  <1>1. archive.entries \in Seq(DataEntry)
    BY DEF IInv, TypeOK, Archive
  <1>2. Locations(file)[li] \in Nat
    BY FileTypes DEF MoreParts, IInv, TypeOK
  <1>3. Part \in DataEntry
    BY <1>1, <1>2 DEF Part, Entry, IsEntry
  <1> QED BY <1>3 DEF DataEntry

\* The chunk group a loop is at.
LEMMA GroupTypes ==
  ASSUME IInv, gi <= Len(groups)
  PROVE  /\ gi \in DOMAIN groups /\ group \in ChunkGroup
         /\ group.chunk \in Chunk /\ group.refs \in Seq(SegmentRef)
         /\ group.chunk.dict \in Nat /\ group.chunk.length \in Nat /\ group.chunk.id \in Nat
  <1>1. gi \in DOMAIN groups /\ group \in ChunkGroup
    BY DEF IInv, TypeOK, group
  <1>2. group.chunk \in Chunk /\ group.refs \in Seq(SegmentRef)
    BY <1>1 DEF ChunkGroup
  <1> QED BY <1>1, <1>2 DEF Chunk

\* The segment the segment loop is at.
LEMMA RefTypes ==
  ASSUME IInv, gi <= Len(groups), ri <= Len(group.refs)
  PROVE  /\ ref \in SegmentRef /\ ref.file \in Nat \ {0} /\ ref.entry \in DataEntry
         /\ ref.dest \in Uint
         /\ ref.entry.offset \in Uint /\ ref.entry.size \in Uint /\ ref.entry.inflated \in Nat
         /\ ref.entry.filter \in Filters
  <1>1. ref \in SegmentRef
    BY GroupTypes DEF IInv, TypeOK, ref
  <1>2. ref.file \in Nat \ {0} /\ ref.entry \in DataEntry /\ ref.dest \in Uint
    BY <1>1 DEF SegmentRef
  <1> QED BY <1>1, <1>2 DEF DataEntry

\* available is what the limit leaves, and never negative.
LEMMA AvailableType ==
  ASSUME IInv
  PROVE  available \in Nat /\ available = limit - used
  BY DEF IInv, TypeOK, BudgetHolds, available

-----------------------------------------------------------------------------
(* Every step preserves the invariant, one lemma per phase of Extract.     *)

\* Options and archiveKey.
LEMMA StartStep ==
  ASSUME IInv, RejectArchive \/ AcceptArchive
  PROVE  IInv'
  <1> USE DEF inputs, plan, decode, budget, outputs
  <1>1. CASE RejectArchive
    BY <1>1 DEF RejectArchive, IInv, TypeOK, InRange, NothingReserved, BudgetHolds, Errors
  <1>2. CASE AcceptArchive
    <2>1. limit' \in 0..MaxInt
      BY <1>2, IntAssumption DEF AcceptArchive, IInv, TypeOK
    <2> QED
      BY <1>2, <2>1 DEF AcceptArchive, IInv, TypeOK, InRange, NothingReserved, BudgetHolds
  <1> QED BY <1>1, <1>2

\* buildGroups' loops over files and locations.
LEMMA BuildStep ==
  ASSUME IInv,
         \/ SkipFile \/ StartFile \/ AddPart \/ RejectPart \/ SizeFile \/ AddRef \/ EndFile
         \/ EndFiles
  PROVE  IInv'
  <1> USE DEF inputs, plan, decode, budget, outputs
  <1>1. CASE SkipFile
    <2>1. files' \in Seq(FileAssembly) /\ Len(files') = Len(files)
      <3>1. [files[fi] EXCEPT !.skip = TRUE] \in FileAssembly
        BY <1>1, FileTypes DEF SkipFile, MoreFiles, FileAssembly
      <3>2. /\ files \in Seq(FileAssembly)
            /\ files' = [files EXCEPT ![fi] = [files[fi] EXCEPT !.skip = TRUE]]
        BY <1>1 DEF SkipFile, IInv, TypeOK
      <3> QED BY <3>1, <3>2, ReplacedFile
    <2> QED
      BY <1>1, <2>1 DEF SkipFile, IInv, TypeOK, InRange, NothingReserved, BudgetHolds
  <1>2. CASE StartFile
    <2>1. total' \in Uint
      BY <1>2, IntAssumption DEF StartFile, Uint
    <2>2. fi <= Len(files) /\ IsEntry(file.location)
      BY <1>2 DEF StartFile, MoreFiles
    <2>3. InRange'
      BY <1>2, <2>2 DEF StartFile, IInv, InRange, file, IsEntry
    <2> QED
      BY <1>2, <2>1, <2>3 DEF StartFile, IInv, TypeOK, NothingReserved, BudgetHolds
  <1>3. CASE AddPart
    <2>1. fi <= Len(files) /\ MoreParts /\ IsEntry(Locations(file)[li])
      BY <1>3 DEF AddPart, GoodPart, IInv, InRange
    <2>2. total' \in Uint
      <3>1. /\ total \in Uint /\ total' = total + Part.uncompressedSize
            /\ Part.uncompressedSize <= MaxUint - total
        BY <1>3 DEF AddPart, GoodPart, IInv, TypeOK
      <3>2. Part.uncompressedSize \in Uint
        BY <2>1, PartTypes
      <3> QED BY <3>1, <3>2, IntAssumption DEF Uint
    <2>3. /\ \A k \in 1..li : k <= Len(Locations(file)) => IsEntry(Locations(file)[k])
          /\ li' = li + 1 /\ li \in Nat
      BY <1>3, <2>1 DEF AddPart, IInv, TypeOK, InRange
    <2>4. InRange'
      BY <1>3, <2>1, <2>3 DEF AddPart, IInv, InRange, file, IsEntry
    <2> QED
      BY <1>3, <2>2, <2>3, <2>4 DEF AddPart, IInv, TypeOK, NothingReserved, BudgetHolds
  <1>4. CASE RejectPart
    <2>1. files' \in Seq(FileAssembly) /\ Len(files') = Len(files)
      BY <1>4, MarkFailureType DEF RejectPart, IInv, TypeOK, Errors
    <2> QED
      BY <1>4, <2>1 DEF RejectPart, IInv, TypeOK, InRange, NothingReserved, BudgetHolds
  <1>5. CASE SizeFile
    <2>1. fi <= Len(files) /\ ~MoreParts
      BY <1>5 DEF SizeFile, IInv, InRange
    <2>2. files' \in Seq(FileAssembly) /\ Len(files') = Len(files)
      <3> DEFINE n == IF file.size # 0 THEN file.size ELSE total
      <3>1. n \in Uint
        BY <2>1, FileTypes DEF FileEntry, IInv, TypeOK
      <3>2. [files[fi] EXCEPT !.totalSize = n] \in FileAssembly
        <4> HIDE DEF n
        <4> QED BY <2>1, <3>1, FileTypes DEF FileAssembly
      <3>3. files' = [files EXCEPT ![fi] = [files[fi] EXCEPT !.totalSize = n]]
        BY <1>5 DEF SizeFile
      <3>4. files \in Seq(FileAssembly)
        BY DEF IInv, TypeOK
      <3> HIDE DEF n
      <3> DEFINE f == [files[fi] EXCEPT !.totalSize = n]
      <3>5. f \in FileAssembly /\ files' = [files EXCEPT ![fi] = f]
        BY <3>2, <3>3
      <3> HIDE DEF f
      <3> QED BY <3>4, <3>5, ReplacedFile
    <2>3. \A k \in 1..Len(Locations(file)) : IsEntry(Locations(file)[k])
      <3>1. InRange /\ pc = "total" /\ li \in Nat \ {0} /\ Len(Locations(file)) \in Nat
        BY <1>5, <2>1, FileTypes DEF SizeFile, IInv, TypeOK
      <3>2. li > Len(Locations(file))
        BY <2>1, <3>1 DEF MoreParts
      <3> QED BY <2>1, <3>1, <3>2 DEF InRange
    <2>4. InRange'
      BY <1>5, <2>1, <2>2, <2>3 DEF SizeFile, IInv, InRange, file, IsEntry
    <2>5. dest' \in Uint
      BY <1>5, IntAssumption DEF SizeFile, Uint
    <2> QED
      BY <1>5, <2>2, <2>4, <2>5 DEF SizeFile, IInv, TypeOK, NothingReserved, BudgetHolds
  <1>6. CASE AddRef
    <2>1. fi <= Len(files) /\ MoreParts /\ IsEntry(Locations(file)[li])
      BY <1>6 DEF AddRef, MoreParts, IInv, TypeOK, InRange
    <2>2. [file |-> fi, entry |-> Part, dest |-> dest] \in SegmentRef
      BY <2>1, PartTypes DEF SegmentRef, IInv, TypeOK
    <2>3. groups' \in Seq(ChunkGroup)
      BY <1>6, <2>1, <2>2, PartTypes, WithRefType DEF AddRef, IInv, TypeOK
    <2>4. CASE Part.uncompressedSize <= MaxUint - dest
      <3>1. dest' \in Uint
        BY <1>6, <2>1, <2>4, PartTypes, IntAssumption DEF AddRef, IInv, TypeOK, Uint
      <3>2. InRange'
        BY <1>6, <2>4 DEF AddRef, IInv, InRange, file, IsEntry
      <3> QED
        BY <1>6, <2>3, <2>4, <3>1, <3>2 DEF AddRef, IInv, TypeOK, NothingReserved, BudgetHolds
    <2>5. CASE ~(Part.uncompressedSize <= MaxUint - dest)
      <3>1. files' \in Seq(FileAssembly) /\ Len(files') = Len(files)
        BY <1>6, <2>5, MarkFailureType DEF AddRef, IInv, TypeOK, Errors
      <3> QED
        BY <1>6, <2>3, <2>5, <3>1 DEF AddRef, IInv, TypeOK, InRange, NothingReserved, BudgetHolds
    <2> QED BY <2>4, <2>5
  <1>7. CASE EndFile
    BY <1>7 DEF EndFile, IInv, TypeOK, InRange, NothingReserved, BudgetHolds
  <1>8. CASE EndFiles
    BY <1>8 DEF EndFiles, IInv, TypeOK, InRange, NothingReserved, BudgetHolds
  <1> QED BY <1>1, <1>2, <1>3, <1>4, <1>5, <1>6, <1>7, <1>8

\* The stable sort of a group's refs.
LEMMA SortStep ==
  ASSUME IInv, SortGroup \/ EndSort
  PROVE  IInv'
  <1> USE DEF inputs, plan, decode, budget, outputs
  <1>1. CASE SortGroup
    <2>1. PICK order \in StableOrders(group.refs) :
            groups' = [groups EXCEPT ![gi].refs = [k \in DOMAIN group.refs |-> group.refs[order[k]]]]
      BY <1>1 DEF SortGroup
    <2> DEFINE sorted == [k \in DOMAIN group.refs |-> group.refs[order[k]]]
    <2>2. gi <= Len(groups)
      BY <1>1 DEF SortGroup
    <2>3. order \in [DOMAIN group.refs -> DOMAIN group.refs]
      BY DEF StableOrders
    <2>4. sorted \in [1..Len(group.refs) -> SegmentRef]
      BY <2>2, <2>3, GroupTypes
    <2>5. sorted \in Seq(SegmentRef)
      <3>1. Len(group.refs) \in Nat
        BY <2>2, GroupTypes
      <3> DEFINE n == Len(group.refs)
      <3>2. n \in Nat /\ sorted \in [1..n -> SegmentRef]
        BY <2>4, <3>1
      <3> HIDE DEF sorted, n
      <3> QED BY ONLY <3>2
    <2>6. [groups[gi] EXCEPT !.refs = sorted] \in ChunkGroup
      <3> HIDE DEF sorted
      <3> QED BY <2>2, <2>5, GroupTypes DEF ChunkGroup, group
    <2>7. groups' = [groups EXCEPT ![gi] = [groups[gi] EXCEPT !.refs = sorted]]
      BY <2>1
    <2>8. groups' \in Seq(ChunkGroup)
      <3> HIDE DEF sorted
      <3> QED BY <2>2, <2>6, <2>7, GroupTypes DEF IInv, TypeOK
    <2>9. /\ pc = "sort" /\ gi' = gi + 1
          /\ UNCHANGED <<inputs, pc, fi, li, total, dest, files, ri, chunkData, dictionary,
                         segment, transient, budget, outputs>>
      BY <1>1 DEF SortGroup
    <2> HIDE DEF sorted
    <2> QED
      BY <2>8, <2>9 DEF IInv, TypeOK, InRange, NothingReserved, BudgetHolds
  <1>2. CASE EndSort
    <2>1. total' \in Uint
      BY <1>2, IntAssumption DEF EndSort, Uint
    <2> QED
      BY <1>2, <2>1 DEF EndSort, IInv, TypeOK, InRange, NothingReserved, BudgetHolds
  <1> QED BY <1>1, <1>2

\* allocateFileBuffers and the loop that makes the buffers.
LEMMA PlanStep ==
  ASSUME IInv,
         PassFile \/ PlanFile \/ RefuseFile \/ EndPlan \/ ReserveOutput \/ RefuseOutput
  PROVE  IInv'
  <1> USE DEF inputs, plan, decode, budget, outputs
  <1>1. CASE PassFile
    BY <1>1 DEF PassFile, IInv, TypeOK, InRange, NothingReserved, BudgetHolds
  <1>2. CASE PlanFile
    <2>1. fi <= Len(files)
      BY <1>2 DEF PlanFile, MoreFiles
    <2>2. [files[fi] EXCEPT !.assemble = TRUE] \in FileAssembly
      BY <2>1, FileTypes DEF FileAssembly
    <2>3. files' \in Seq(FileAssembly) /\ Len(files') = Len(files)
      <3>1. /\ files \in Seq(FileAssembly)
            /\ files' = [files EXCEPT ![fi] = [files[fi] EXCEPT !.assemble = TRUE]]
        BY <1>2 DEF PlanFile, IInv, TypeOK
      <3> QED BY <2>2, <3>1, ReplacedFile
    <2>4. files[fi].totalSize \in Uint
      BY <2>1, FileTypes DEF FileAssembly
    <2>5. total' \in Uint
      <3>1. total \in Uint /\ total' = total + files[fi].totalSize
        BY <1>2 DEF PlanFile, IInv, TypeOK
      <3>2. files[fi].totalSize <= MaxUint - total
        BY <1>2 DEF PlanFile, Fits
      <3> QED BY <2>4, <3>1, <3>2, IntAssumption DEF Uint
    <2> QED
      BY <1>2, <2>3, <2>5 DEF PlanFile, IInv, TypeOK, InRange, NothingReserved, BudgetHolds
  <1>3. CASE RefuseFile
    <2>1. files' \in Seq(FileAssembly) /\ Len(files') = Len(files)
      BY <1>3, MarkFailureType DEF RefuseFile, IInv, TypeOK, Errors
    <2> QED
      BY <1>3, <2>1 DEF RefuseFile, IInv, TypeOK, InRange, NothingReserved, BudgetHolds
  <1>4. CASE EndPlan
    BY <1>4 DEF EndPlan, IInv, TypeOK, InRange, NothingReserved, BudgetHolds
  <1>5. CASE ReserveOutput
    <2> DEFINE new(i) == IF HasBuffer(i)
                         THEN [files[i] EXCEPT !.data = [k \in 1..files[i].totalSize |-> Zero]]
                         ELSE files[i]
    <2>1. ASSUME NEW i \in 1..Len(files) PROVE new(i) \in FileAssembly
      <3>1. files[i] \in FileAssembly
        BY DEF IInv, TypeOK
      <3>2. files[i].totalSize \in Nat
        BY <3>1, IntAssumption DEF FileAssembly, Uint
      <3>3. [k \in 1..files[i].totalSize |-> Zero] \in Seq(Byte)
        BY <3>2 DEF Zero, Byte, Forms
      <3>4. [files[i] EXCEPT !.data = [k \in 1..files[i].totalSize |-> Zero]] \in FileAssembly
        BY <3>1, <3>3 DEF FileAssembly
      <3> QED BY <3>1, <3>4
    <2>2. DOMAIN files = 1..Len(files) /\ Len(files) \in Nat
      BY DEF IInv, TypeOK
    <2>3. files' = [i \in 1..Len(files) |-> new(i)]
      BY <1>5, <2>2 DEF ReserveOutput, HasBuffer
    <2>4. files' \in Seq(FileAssembly) /\ Len(files') = Len(files)
      <3> HIDE DEF new
      <3> QED BY <2>1, <2>2, <2>3
    <2>5. used = 0 /\ used' = total /\ used' \in 0..MaxInt /\ used' <= limit
      <3>1. pc = "reserve" /\ CanReserve(total) /\ used' = used + total
        BY <1>5 DEF ReserveOutput
      <3>2. used = 0 /\ total \in Nat
        BY <3>1, IntAssumption DEF IInv, NothingReserved, TypeOK, Uint
      <3> QED BY <3>1, <3>2, AvailableType, IntAssumption DEF CanReserve, IInv, TypeOK
    <2> QED
      BY <1>5, <2>4, <2>5 DEF ReserveOutput, IInv, TypeOK, InRange, NothingReserved, BudgetHolds
  <1>6. CASE RefuseOutput
    <2> DEFINE marked == markFailure(files, {i \in DOMAIN files : files[i].assemble}, "LimitExceeded")
               new(i) == [marked[i] EXCEPT !.assemble = FALSE]
    <2>1. marked \in Seq(FileAssembly) /\ Len(marked) = Len(files)
      BY MarkFailureType DEF IInv, TypeOK, Errors
    <2>2. ASSUME NEW i \in 1..Len(files) PROVE new(i) \in FileAssembly
      <3> HIDE DEF marked
      <3>1. marked[i] \in FileAssembly
        BY <2>1
      <3> QED BY <3>1 DEF FileAssembly
    <2>3. DOMAIN files = 1..Len(files) /\ Len(files) \in Nat
      BY DEF IInv, TypeOK
    <2>4. files' = [i \in 1..Len(files) |-> new(i)]
      BY <1>6, <2>3 DEF RefuseOutput
    <2>5. files' \in Seq(FileAssembly) /\ Len(files') = Len(files)
      <3> HIDE DEF new
      <3> QED BY <2>2, <2>3, <2>4
    <2>6. total' = 0 /\ total' \in Uint /\ used = 0
      BY <1>6, IntAssumption DEF RefuseOutput, Uint, IInv, NothingReserved
    <2> QED
      BY <1>6, <2>5, <2>6 DEF RefuseOutput, IInv, TypeOK, InRange, NothingReserved, BudgetHolds
  <1> QED BY <1>1, <1>2, <1>3, <1>4, <1>5, <1>6

\* A chunk that cannot be decoded leaves no reservation behind.
LEMMA FailGroupStep ==
  ASSUME IInv, NEW err \in Errors, FailGroup(err), used = total
  PROVE  IInv'
  <1>1. files' \in Seq(FileAssembly) /\ Len(files') = Len(files)
    BY MarkFailureType DEF FailGroup, IInv, TypeOK
  <1>2. chunkData' \in Seq(Byte) /\ dictionary' \in Nat /\ gi' \in Nat \ {0} /\ pc' = "group"
    BY DEF FailGroup, IInv, TypeOK
  <1> QED
    BY <1>1, <1>2 DEF FailGroup, inputs, budget, outputs, IInv, TypeOK, InRange,
                      NothingReserved, BudgetHolds

\* Opening, reading and reserving a chunk.
LEMMA ChunkStep ==
  ASSUME IInv,
         SkipGroup \/ OpenChunk \/ FailOpen \/ ReadChunk \/ FailRead \/ ReserveChunk \/ EndGroups
  PROVE  IInv'
  <1> USE DEF inputs, plan, decode, budget, outputs
  <1>1. CASE SkipGroup
    BY <1>1 DEF SkipGroup, IInv, TypeOK, InRange, NothingReserved, BudgetHolds
  <1>2. CASE OpenChunk
    <2>1. dictionary' \in Nat /\ gi <= Len(groups)
      BY <1>2, GroupTypes DEF OpenChunk
    <2> QED
      BY <1>2, <2>1 DEF OpenChunk, IInv, TypeOK, InRange, NothingReserved, BudgetHolds
  <1>3. CASE FailOpen
    <2>1. OpenError(group.chunk) \in Errors
      BY <1>3 DEF FailOpen, OpenError, Errors
    <2>2. FailGroup(OpenError(group.chunk)) /\ used = total
      BY <1>3 DEF FailOpen, IInv, BudgetHolds
    <2> QED BY <2>1, <2>2, FailGroupStep
  <1>4. CASE ReadChunk
    <2>1. pc = "read" /\ gi <= Len(groups)
      BY <1>4 DEF ReadChunk, IInv, InRange
    <2>2. chunkData' \in Seq(Byte)
      <3>1. group.chunk.length \in Nat /\ group.chunk.id \in Nat
        BY <2>1, GroupTypes
      <3>2. \A k \in Nat : <<"raw", group.chunk.id, 0, k>> \in Byte
        BY <3>1 DEF Byte, Forms
      <3>3. chunkData' = [k \in 1..group.chunk.length |-> <<"raw", group.chunk.id, 0, k>>]
        BY <1>4 DEF ReadChunk, ChunkBytes
      <3> QED BY <3>1, <3>2, <3>3
    <2> QED
      BY <1>4, <2>1, <2>2 DEF ReadChunk, IInv, TypeOK, InRange, NothingReserved, BudgetHolds
  <1>5. CASE FailRead
    <2>1. ReadError(group.chunk) \in Errors
      BY <1>5 DEF FailRead, ReadError, Errors
    <2>2. FailGroup(ReadError(group.chunk)) /\ used = total
      BY <1>5 DEF FailRead, IInv, BudgetHolds
    <2> QED BY <2>1, <2>2, FailGroupStep
  <1>6. CASE ReserveChunk
    <2>1. pc = "chunk" /\ used = total /\ gi <= Len(groups) /\ Len(chunkData) \in Nat
      BY <1>6 DEF ReserveChunk, IInv, TypeOK, InRange, BudgetHolds
    <2>2. CASE CanReserve(Len(chunkData))
      <3>1. /\ used' = used + Len(chunkData) /\ used' <= limit /\ used' \in 0..MaxInt
        <4>1. used' = used + Len(chunkData)
          BY <1>6, <2>2 DEF ReserveChunk
        <4>2. used \in 0..MaxInt /\ limit \in 0..MaxInt /\ available = limit - used
          BY AvailableType DEF IInv, TypeOK
        <4>3. Len(chunkData) <= available /\ MaxInt \in Nat
          BY <2>2, IntAssumption DEF CanReserve
        <4> QED BY ONLY <2>1, <4>1, <4>2, <4>3
      <3>2. pc' = "segment" /\ dictionary' = 0 /\ ri' = 1
        BY <1>6, <2>2 DEF ReserveChunk
      <3> QED
        BY <1>6, <2>1, <2>2, <3>1, <3>2
           DEF ReserveChunk, IInv, TypeOK, InRange, NothingReserved, BudgetHolds
    <2>3. CASE ~CanReserve(Len(chunkData))
      <3>1. FailGroup("LimitExceeded") /\ "LimitExceeded" \in Errors
        BY <1>6, <2>3 DEF ReserveChunk, Errors
      <3> QED BY <2>1, <3>1, FailGroupStep
    <2> QED BY <2>2, <2>3
  <1>7. CASE EndGroups
    BY <1>7 DEF EndGroups, IInv, TypeOK, InRange, NothingReserved, BudgetHolds
  <1> QED BY <1>1, <1>2, <1>3, <1>4, <1>5, <1>6, <1>7

\* Copying a segment into a buffer keeps the buffer's length.
LEMMA CopiedType ==
  ASSUME NEW data \in Seq(Byte), NEW at \in Nat, NEW bytes \in Seq(Byte)
  PROVE  Copied(data, at, bytes) \in Seq(Byte) /\ Len(Copied(data, at, bytes)) = Len(data)
  <1>1. DOMAIN data = 1..Len(data) /\ Len(data) \in Nat /\ Len(bytes) \in Nat
    OBVIOUS
  <1> DEFINE new(k) == IF k \in (at + 1)..(at + Len(bytes)) THEN bytes[k - at] ELSE data[k]
  <1>2. ASSUME NEW k \in 1..Len(data) PROVE new(k) \in Byte
    <2>1. CASE k \in (at + 1)..(at + Len(bytes))
      <3>1. k - at \in 1..Len(bytes)
        BY <2>1, <1>1
      <3> QED BY <2>1, <3>1
    <2> QED BY <2>1
  <1>3. Copied(data, at, bytes) = [k \in 1..Len(data) |-> new(k)]
    BY <1>1 DEF Copied
  <1> HIDE DEF new
  <1> QED BY <1>1, <1>2, <1>3

\* Decoding, placing and releasing segments.
LEMMA SegmentStep ==
  ASSUME IInv,
         SkipRef \/ DecodeSegment \/ FailSegment \/ PlaceSegment \/ ReleaseChunk
  PROVE  IInv'
  <1> USE DEF inputs, plan, decode, budget, outputs
  <1>1. CASE SkipRef
    BY <1>1 DEF SkipRef, IInv, TypeOK, InRange, NothingReserved, BudgetHolds
  <1>2. CASE DecodeSegment
    <2> DEFINE bytes == Filtered(ref.entry, StoredBytes(ref.entry))
               own   == IF ref.entry.filter = "none" THEN 0 ELSE Len(bytes)
    <2>1. /\ pc = "segment" /\ gi <= Len(groups) /\ ri <= Len(group.refs)
          /\ used = total + Len(chunkData) /\ InChunk(ref.entry)
      BY <1>2 DEF DecodeSegment, SegmentError, IInv, InRange, BudgetHolds
    <2>2. ref.entry \in DataEntry /\ ref.entry.size \in Nat /\ ref.entry.offset \in Nat
      BY <2>1, RefTypes, IntAssumption DEF Uint
    <2>3. StoredBytes(ref.entry) \in Seq(Byte)
      <3>1. chunkData \in Seq(Byte) /\ Len(chunkData) \in Nat
        BY DEF IInv, TypeOK
      <3>2. \A k \in 1..ref.entry.size : ref.entry.offset + k \in 1..Len(chunkData)
        BY <2>1, <2>2, <3>1 DEF InChunk
      <3>3. \A k \in 1..ref.entry.size : chunkData[ref.entry.offset + k] \in Byte
        BY <3>1, <3>2
      <3> QED BY <2>2, <3>3 DEF StoredBytes
    <2>4. bytes \in Seq(Byte) /\ own \in Nat
      BY <2>2, <2>3, FilteredType
    <2>5. CASE CanReserve(own)
      <3>1. /\ segment' = bytes /\ transient' = own /\ used' = used + own /\ pc' = "place"
            /\ UNCHANGED <<inputs, plan, gi, ri, chunkData, dictionary, limit, outputs>>
        BY <1>2, <2>5 DEF DecodeSegment
      <3> HIDE DEF bytes, own
      <3>2. used' <= limit /\ used' \in 0..MaxInt
        BY <2>4, <2>5, <3>1, AvailableType, IntAssumption DEF CanReserve, IInv, TypeOK
      <3> QED
        BY <2>1, <2>4, <3>1, <3>2 DEF IInv, TypeOK, InRange, NothingReserved, BudgetHolds, group
    <2>6. CASE ~CanReserve(own)
      <3>1. /\ files' = markFailure(files, {ref.file}, "LimitExceeded") /\ ri' = ri + 1
            /\ UNCHANGED <<pc, segment, transient, used>>
            /\ UNCHANGED <<inputs, fi, li, total, dest, groups, gi, chunkData, dictionary, limit,
                           outputs>>
        BY <1>2, <2>6 DEF DecodeSegment
      <3>2. files' \in Seq(FileAssembly) /\ Len(files') = Len(files)
        BY <3>1, MarkFailureType DEF IInv, TypeOK, Errors
      <3> HIDE DEF bytes, own
      <3> QED BY <2>1, <3>1, <3>2 DEF IInv, TypeOK, InRange, NothingReserved, BudgetHolds
    <2> QED BY <2>5, <2>6
  <1>3. CASE FailSegment
    <2>1. SegmentError(ref.entry) \in Errors
      BY <1>3 DEF FailSegment, SegmentError, Errors
    <2>2. files' \in Seq(FileAssembly) /\ Len(files') = Len(files)
      BY <1>3, <2>1, MarkFailureType DEF FailSegment, IInv, TypeOK
    <2> QED
      BY <1>3, <2>2 DEF FailSegment, IInv, TypeOK, InRange, NothingReserved, BudgetHolds
  <1>4. CASE PlaceSegment
    <2>1. pc = "place" /\ gi <= Len(groups) /\ ri <= Len(group.refs)
      BY <1>4 DEF PlaceSegment, IInv, InRange
    <2>2. files' \in Seq(FileAssembly) /\ Len(files') = Len(files)
      <3>1. CASE PlaceError(ref) # "none"
        <4>1. PlaceError(ref) \in Errors
          BY <3>1 DEF PlaceError, Errors
        <4> QED BY <1>4, <3>1, <4>1, MarkFailureType DEF PlaceSegment, IInv, TypeOK
      <3>2. CASE PlaceError(ref) = "none" /\ files[ref.file].assemble
        <4> DEFINE f == files[ref.file]
                   g == [f EXCEPT !.data = Copied(@, ref.dest, segment)]
        <4>1. files' = [files EXCEPT ![ref.file] = g]
          BY <1>4, <3>2 DEF PlaceSegment
        <4>2. CASE ref.file \in DOMAIN files
          <5>1. f \in FileAssembly
            BY <4>2 DEF IInv, TypeOK
          <5>2. f.data \in Seq(Byte) /\ ref.dest \in Nat /\ segment \in Seq(Byte)
            <6>1. f.data \in Seq(Byte)
              BY <5>1 DEF FileAssembly
            <6>2. ref.dest \in Nat
              BY <2>1, RefTypes, IntAssumption DEF Uint
            <6> QED BY <6>1, <6>2 DEF IInv, TypeOK
          <5>3. Copied(f.data, ref.dest, segment) \in Seq(Byte)
            BY <5>2, CopiedType
          <5>4. g \in FileAssembly
            <6> DEFINE d == Copied(f.data, ref.dest, segment)
            <6>1. d \in Seq(Byte) /\ g = [f EXCEPT !.data = d]
              BY <5>3
            <6> HIDE DEF d, f, g
            <6> QED BY <5>1, <6>1, FilledFile
          <5> HIDE DEF g
          <5> QED BY <4>1, <4>2, <5>4 DEF IInv, TypeOK
        <4>3. CASE ref.file \notin DOMAIN files
          <5>1. DOMAIN files = 1..Len(files) /\ Len(files) \in Nat
            BY DEF IInv, TypeOK
          <5>2. files' = [i \in DOMAIN files |-> files[i]]
            <6> HIDE DEF g
            <6> QED BY <4>1, <4>3
          <5>3. \A i \in 1..Len(files) : files[i] \in FileAssembly
            BY <5>1 DEF IInv, TypeOK
          <5> QED BY <5>1, <5>2, <5>3
        <4> QED BY <4>2, <4>3
      <3>3. CASE PlaceError(ref) = "none" /\ ~files[ref.file].assemble
        BY <1>4, <3>3 DEF PlaceSegment, IInv, TypeOK
      <3> QED BY <3>1, <3>2, <3>3
    <2>3. used' = total + Len(chunkData) /\ used' <= limit /\ used' \in 0..MaxInt
      <3>1. used = total + Len(chunkData) + transient /\ used <= limit
        BY <2>1 DEF IInv, BudgetHolds
      <3>2. total \in Nat /\ Len(chunkData) \in Nat /\ transient \in Nat
        BY IntAssumption DEF IInv, TypeOK, Uint
      <3>3. used' = IF transient >= used THEN 0 ELSE used - transient
        BY <1>4 DEF PlaceSegment, Released
      <3> QED BY <3>1, <3>2, <3>3, IntAssumption DEF IInv, TypeOK
    <2>4. /\ segment' = <<>> /\ transient' = 0 /\ ri' = ri + 1 /\ pc' = "segment"
          /\ UNCHANGED <<inputs, fi, li, total, dest, groups, gi, chunkData, dictionary, limit,
                         outputs>>
      BY <1>4 DEF PlaceSegment
    <2> QED
      BY <2>1, <2>2, <2>3, <2>4 DEF IInv, TypeOK, InRange, NothingReserved, BudgetHolds
  <1>5. CASE ReleaseChunk
    <2>1. used' = total /\ used' <= limit /\ used' \in 0..MaxInt
      <3>1. used = total + Len(chunkData) /\ used <= limit
        BY <1>5 DEF ReleaseChunk, IInv, BudgetHolds
      <3>2. total \in Nat /\ Len(chunkData) \in Nat
        BY IntAssumption DEF IInv, TypeOK, Uint
      <3>3. used' = IF Len(chunkData) >= used THEN 0 ELSE used - Len(chunkData)
        BY <1>5 DEF ReleaseChunk, Released
      <3> QED BY <3>1, <3>2, <3>3, IntAssumption DEF IInv, TypeOK
    <2>2. chunkData' = <<>> /\ gi' = gi + 1 /\ pc' = "group"
      BY <1>5 DEF ReleaseChunk
    <2> QED
      BY <1>5, <2>1, <2>2 DEF ReleaseChunk, IInv, TypeOK, InRange, NothingReserved, BudgetHolds
  <1> QED BY <1>1, <1>2, <1>3, <1>4, <1>5

\* The loop that builds the results.
LEMMA ReportStep ==
  ASSUME IInv, ReportSkipped \/ ReportFailure \/ ReportResult \/ Return
  PROVE  IInv'
  <1> USE DEF inputs, plan, decode, budget, outputs
  <1>1. CASE ReportSkipped
    BY <1>1 DEF ReportSkipped, IInv, TypeOK, InRange, NothingReserved, BudgetHolds
  <1>2. CASE ReportFailure
    <2>1. fi <= Len(files) /\ Verdict(fi) # "none"
      BY <1>2 DEF ReportFailure, MoreFiles
    <2>2. Verdict(fi) \in Errors
      <3>1. files[fi].err \in Errors \cup {"none"}
        BY <2>1, FileTypes DEF FileAssembly
      <3>2. FinalError(fi) \in Errors \cup {"none"}
        BY DEF FinalError, Errors
      <3> QED BY <2>1, <3>1, <3>2 DEF Verdict
    <2>3. failures' \in Seq([file: Nat \ {0}, err: Errors])
      BY <1>2, <2>2 DEF ReportFailure, IInv, TypeOK
    <2> QED
      BY <1>2, <2>3 DEF ReportFailure, IInv, TypeOK, InRange, NothingReserved, BudgetHolds
  <1>3. CASE ReportResult
    <2>1. fi <= Len(files)
      BY <1>3 DEF ReportResult, MoreFiles
    <2>2. files[fi].data \in Seq(Byte)
      BY <2>1, FileTypes DEF FileAssembly
    <2>3. results' \in Seq([file: Nat \ {0}, data: Seq(Byte)])
      <3> DEFINE d == IF verifyOnly THEN <<>> ELSE files[fi].data
      <3>1. d \in Seq(Byte)
        BY <2>2
      <3>2. results' = Append(results, [file |-> fi, data |-> d])
        BY <1>3 DEF ReportResult
      <3> HIDE DEF d
      <3> QED BY <3>1, <3>2 DEF IInv, TypeOK
    <2> QED
      BY <1>3, <2>3 DEF ReportResult, IInv, TypeOK, InRange, NothingReserved, BudgetHolds
  <1>4. CASE Return
    BY <1>4 DEF Return, IInv, TypeOK, InRange, NothingReserved, BudgetHolds
  <1> QED BY <1>1, <1>2, <1>3, <1>4

\* Every step of Extract preserves the invariant: nothing it reserves is lost
\* or released twice, on the error paths either.
THEOREM NextIInv == IInv /\ [Next]_vars => IInv'
  <1> SUFFICES ASSUME IInv, [Next]_vars PROVE IInv'
    OBVIOUS
  <1>1. CASE Step
    BY <1>1, StartStep, BuildStep, SortStep, PlanStep, ChunkStep, SegmentStep, ReportStep DEF Step
  <1>2. CASE UNCHANGED vars
    BY <1>2 DEF vars, inputs, plan, decode, budget, outputs, IInv, TypeOK, InRange,
                NothingReserved, BudgetHolds, file, group, IsEntry
  <1> QED BY <1>1, <1>2 DEF Next, Returned

\* The invariant holds in every state of every call.
LEMMA SpecIInv == Spec => []IInv
  BY InitBegun, InitIInv, NextIInv, PTL DEF Spec

\* Every variable keeps its type: no size or budget leaves its integer range.
THEOREM TypeCorrect == Spec => []TypeOK
  BY SpecIInv, PTL DEF IInv

\* The budget counts the memory in use and stays within the limit, for every
\* archive and every limit.
THEOREM BudgetCorrect == Spec => []BudgetHolds
  BY SpecIInv, PTL DEF IInv

-----------------------------------------------------------------------------
(* The plan.                                                               *)

Parts(i) == Locations(archive.files[i])

-----------------------------------------------------------------------------
(* What depends on the archive alone.                                      *)

\* A step does not change the archive, nor what is said of it.
LEMMA ArchiveFixed ==
  ASSUME archive' = archive
  PROVE  /\ \A i : Parts(i)' = Parts(i)
         /\ \A l : Entry(l)' = Entry(l) /\ IsEntry(l)' = IsEntry(l)
         /\ \A i : PartEnds(i)' = PartEnds(i)
         /\ \A i : External(i)' = External(i)
         /\ \A i : Located(i)' = Located(i)
         /\ \A i : OutputSize(i)' = OutputSize(i)
  <1>1. \A i : PartSizes(i)' = PartSizes(i)
    BY DEF PartSizes, Locations, Entry
  <1>2. \A i : PartEnds(i)' = PartEnds(i)
    BY <1>1 DEF PartEnds
  <1>3. \A i : External(i)' = External(i)
    BY DEF External, IsEntry
  <1>4. \A i : Located(i)' = Located(i)
    BY <1>2 DEF Located, IsEntry, Locations
  <1>5. \A i : OutputSize(i)' = OutputSize(i)
    BY <1>2 DEF OutputSize, Locations
  <1>6. \A l : Entry(l)' = Entry(l) /\ IsEntry(l)' = IsEntry(l)
    BY DEF Entry, IsEntry
  <1>7. \A i : Parts(i)' = Parts(i)
    BY DEF Parts, Locations
  <1> QED BY <1>2, <1>3, <1>4, <1>5, <1>6, <1>7

\* A location that is in range names a data entry.
LEMMA EntryType ==
  ASSUME archive \in Archive, NEW l \in Nat, IsEntry(l)
  PROVE  /\ Entry(l) \in DataEntry /\ Entry(l).uncompressedSize \in Nat
         /\ Entry(l).uncompressedSize <= MaxUint
  <1>1. archive.entries \in Seq(DataEntry)
    BY DEF Archive
  <1>2. Entry(l) \in DataEntry
    BY <1>1 DEF Entry, IsEntry
  <1> QED BY <1>2, IntAssumption DEF DataEntry, Uint

\* Where parts end, one part after the other.
LEMMA PartEndsEquation ==
  ASSUME archive \in Archive, NEW i \in DOMAIN archive.files
  PROVE  /\ Parts(i) \in Seq(Nat) /\ Len(Parts(i)) \in Nat /\ Len(Parts(i)) >= 1
         /\ Len(PartSizes(i)) = Len(Parts(i))
         /\ \A k \in 1..Len(Parts(i)) : PartSizes(i)[k] = Entry(Parts(i)[k]).uncompressedSize
         /\ PartEnds(i)[0] = 0
         /\ \A k \in 1..Len(Parts(i)) :
              PartEnds(i)[k] = PartEnds(i)[k - 1] + Entry(Parts(i)[k]).uncompressedSize
  <1>1. archive.files[i] \in FileEntry
    BY DEF Archive
  <1>2. Parts(i) \in Seq(Nat) /\ Len(Parts(i)) >= 1
    BY <1>1, LocationsType DEF Parts
  <1> DEFINE n == Len(Parts(i))
             x == PartSizes(i)
  <1>3. n \in Nat /\ DOMAIN Parts(i) = 1..n
    BY <1>2
  <1>4. x = [k \in 1..n |-> Entry(Parts(i)[k]).uncompressedSize]
    BY <1>3 DEF PartSizes, Parts
  <1>5. x = [k \in 1..n |-> x[k]] /\ \A k \in 1..n : x[k] = Entry(Parts(i)[k]).uncompressedSize
    <2> HIDE DEF x, n
    <2> QED BY <1>4
  <1>6. Len(x) = n
    <2> HIDE DEF x, n
    <2> QED BY <1>3, <1>5, FunctionIsSeq
  <1>7. /\ Sums(x)[0] = 0
        /\ \A k \in 1..n : Sums(x)[k] = Sums(x)[k - 1] + x[k]
    <2> HIDE DEF x, n
    <2> QED BY <1>3, <1>6, SumsEquation
  <1> QED BY <1>2, <1>3, <1>5, <1>6, <1>7 DEF PartEnds

\* The first m parts end somewhere when they are entries.
LEMMA PartEndsType ==
  ASSUME archive \in Archive, NEW i \in DOMAIN archive.files, NEW m \in 0..Len(Parts(i)),
         \A k \in 1..m : IsEntry(Parts(i)[k])
  PROVE  PartEnds(i)[m] \in Nat
  <1>1. /\ Len(PartSizes(i)) \in Nat /\ m \in 0..Len(PartSizes(i))
        /\ \A k \in 1..m : PartSizes(i)[k] = Entry(Parts(i)[k]).uncompressedSize
        /\ \A k \in 1..m : Parts(i)[k] \in Nat
    BY PartEndsEquation
  <1>2. \A k \in 1..m : PartSizes(i)[k] \in Nat
    BY <1>1, EntryType
  <1> QED BY <1>1, <1>2, SumsType DEF PartEnds

\* The ends of parts that are entries never fall.
LEMMA PartEndsMonotone ==
  ASSUME archive \in Archive, NEW i \in DOMAIN archive.files,
         \A k \in 1..Len(Parts(i)) : IsEntry(Parts(i)[k]),
         NEW j \in 0..Len(Parts(i)), NEW k \in j..Len(Parts(i))
  PROVE  PartEnds(i)[j] \in Nat /\ PartEnds(i)[k] \in Nat /\ PartEnds(i)[j] <= PartEnds(i)[k]
  <1> DEFINE x == PartSizes(i)
  <1>1. /\ Len(x) \in Nat /\ Len(x) = Len(Parts(i)) /\ DOMAIN Parts(i) = 1..Len(x)
        /\ \A m \in 1..Len(x) : x[m] \in Nat
    BY PartEndsEquation, EntryType
  <1>2. x = [m \in 1..Len(x) |-> x[m]]
    BY <1>1 DEF PartSizes, Parts
  <1>3. x \in Seq(Nat)
    <2> HIDE DEF x
    <2> QED BY <1>1, <1>2
  <1>4. Sums(x)[j] <= Sums(x)[k] /\ Sums(x)[j] \in Nat /\ Sums(x)[k] \in Nat
    <2> HIDE DEF x
    <2> QED BY <1>1, <1>3, SumsMonotone, SumsOfNat
  <1> QED BY <1>4 DEF PartEnds

-----------------------------------------------------------------------------
(* What buildGroups makes of the files.                                    *)

Building == pc \in {"start", "file", "total", "refs"}

\* buildGroups is done with file i.
Reached(i) == archiveErr = "none" /\ (~Building \/ i < fi)

\* What buildGroups makes of file i: it is skipped, or fails, or has its size,
\* as the archive says.
Built(i, f) ==
  /\ f.skip = External(i)
  /\ ~External(i) /\ ~Located(i) => f.failed
  /\ ~External(i) /\ Located(i) => f.totalSize = OutputSize(i)

\* The files buildGroups is done with are built, the others untouched, and the
\* running totals are the ends of the parts.
FilesBuilt ==
  /\ archiveErr # "none" => pc = "done"
  /\ pc = "start" => fi = 1
  /\ \A i \in DOMAIN files : IF Reached(i) THEN Built(i, files[i])
                            ELSE ~files[i].skip /\ ~files[i].failed
  /\ pc \in {"total", "refs"} => ~External(fi) /\ li <= Len(Parts(fi)) + 1
  /\ pc = "total" => total = PartEnds(fi)[li - 1]
  /\ pc = "refs" =>
       /\ Located(fi) /\ dest = PartEnds(fi)[li - 1]
       /\ files[fi].totalSize = OutputSize(fi)

\* What markFailure does to each file.
LEMMA MarkFailureFields ==
  ASSUME NEW fs \in Seq(FileAssembly), NEW marked, NEW err \in Errors, NEW i \in DOMAIN fs
  PROVE  LET f == markFailure(fs, marked, err)[i]
         IN  /\ f.skip = fs[i].skip /\ f.totalSize = fs[i].totalSize
             /\ f.assemble = fs[i].assemble /\ f.data = fs[i].data
             /\ f.failed = (fs[i].failed \/ i \in marked)
             /\ f.err = IF i \in marked /\ ~fs[i].failed THEN err ELSE fs[i].err
  <1>1. fs[i] \in FileAssembly
    OBVIOUS
  <1>2. markFailure(fs, marked, err)[i] = IF i \in marked /\ ~fs[i].failed
                                          THEN [fs[i] EXCEPT !.failed = TRUE, !.err = err]
                                          ELSE fs[i]
    BY DEF markFailure
  <1> QED BY <1>1, <1>2 DEF FileAssembly

-----------------------------------------------------------------------------
(* What the steps after buildGroups leave alone.                           *)

SortActions == SortGroup \/ EndSort
PlanActions == PassFile \/ PlanFile \/ RefuseFile \/ EndPlan \/ ReserveOutput \/ RefuseOutput
DecodeActions ==
  \/ SkipGroup \/ OpenChunk \/ FailOpen \/ ReadChunk \/ FailRead \/ ReserveChunk
  \/ SkipRef \/ DecodeSegment \/ FailSegment \/ PlaceSegment \/ ReleaseChunk \/ EndGroups
ReportActions == ReportSkipped \/ ReportFailure \/ ReportResult \/ Return

Decoding == pc \in {"group", "read", "chunk", "segment", "place", "finalize"}

\* How a file may change while chunks are decoded: it may fail and its buffer
\* may be written to.
SameFile(old, new) ==
  /\ new.skip = old.skip /\ new.totalSize = old.totalSize /\ new.assemble = old.assemble
  /\ Len(new.data) = Len(old.data)
  /\ old.failed => new.failed /\ new.err = old.err
  /\ new.data = old.data \/ old.assemble

SameFiles == DOMAIN files' = DOMAIN files /\ \A i \in DOMAIN files : SameFile(files[i], files'[i])

LEMMA MarkFailureSame ==
  ASSUME IInv, NEW marked, NEW err \in Errors, files' = markFailure(files, marked, err)
  PROVE  SameFiles
  <1>1. files \in Seq(FileAssembly)
    BY DEF IInv, TypeOK
  <1>2. DOMAIN files' = DOMAIN files
    BY DEF markFailure
  <1>3. ASSUME NEW i \in DOMAIN files PROVE SameFile(files[i], files'[i])
    <2> DEFINE f == files'[i]
    <2>1. /\ f.skip = files[i].skip /\ f.totalSize = files[i].totalSize
          /\ f.assemble = files[i].assemble /\ f.data = files[i].data
          /\ f.failed = (files[i].failed \/ i \in marked)
          /\ f.err = IF i \in marked /\ ~files[i].failed THEN err ELSE files[i].err
      BY <1>1, MarkFailureFields
    <2>2. files[i] \in FileAssembly
      BY <1>1
    <2>3. files[i].failed \in BOOLEAN
      BY <2>2 DEF FileAssembly
    <2> HIDE DEF f
    <2>4. SameFile(files[i], f)
      BY <2>1, <2>3 DEF SameFile
    <2> QED BY <2>4 DEF f
  <1> QED BY <1>2, <1>3 DEF SameFiles

LEMMA FailGroupSame ==
  ASSUME IInv, NEW err \in Errors, FailGroup(err)
  PROVE  SameFiles
  BY MarkFailureSame DEF FailGroup

LEMMA DecodeFrame ==
  ASSUME IInv, DecodeActions \/ ReportActions
  PROVE  /\ Decoding /\ (Decoding' \/ pc' = "done")
         /\ UNCHANGED <<inputs, total, limit, groups, archiveErr>>
         /\ SameFiles
  <1> USE DEF inputs, plan, decode, budget, outputs
  <1>0. files = files' => SameFiles
    BY DEF SameFiles, SameFile
  <1>1. CASE SkipGroup \/ OpenChunk \/ ReadChunk \/ SkipRef \/ ReleaseChunk \/ EndGroups
    BY <1>0, <1>1 DEF SkipGroup, OpenChunk, ReadChunk, SkipRef, ReleaseChunk, EndGroups, Decoding
  <1>2. CASE ReportActions
    BY <1>0, <1>2 DEF ReportActions, ReportSkipped, ReportFailure, ReportResult, Return, Decoding
  <1>3. CASE FailOpen
    <2>1. OpenError(group.chunk) \in Errors
      BY <1>3 DEF FailOpen, OpenError, Errors
    <2> QED BY <1>3, <2>1, FailGroupSame DEF FailOpen, FailGroup, Decoding
  <1>4. CASE FailRead
    <2>1. ReadError(group.chunk) \in Errors
      BY <1>4 DEF FailRead, ReadError, Errors
    <2> QED BY <1>4, <2>1, FailGroupSame DEF FailRead, FailGroup, Decoding
  <1>5. CASE ReserveChunk
    <2>1. CASE CanReserve(Len(chunkData))
      BY <1>0, <1>5, <2>1 DEF ReserveChunk, Decoding
    <2>2. CASE ~CanReserve(Len(chunkData))
      <3>1. "LimitExceeded" \in Errors
        BY DEF Errors
      <3> QED BY <1>5, <2>2, <3>1, FailGroupSame DEF ReserveChunk, FailGroup, Decoding
    <2> QED BY <2>1, <2>2
  <1>6. CASE DecodeSegment
    <2>1. \/ files' = files
          \/ files' = markFailure(files, {ref.file}, "LimitExceeded")
      BY <1>6 DEF DecodeSegment
    <2>2. "LimitExceeded" \in Errors
      BY DEF Errors
    <2>3. SameFiles
      BY <1>0, <2>1, <2>2, MarkFailureSame
    <2> QED BY <1>6, <2>3 DEF DecodeSegment, Decoding
  <1>7. CASE FailSegment
    <2>1. SegmentError(ref.entry) \in Errors
      BY <1>7 DEF FailSegment, SegmentError, Errors
    <2> QED BY <1>7, <2>1, MarkFailureSame DEF FailSegment, Decoding
  <1>8. CASE PlaceSegment
    <2>1. CASE PlaceError(ref) # "none"
      <3>1. PlaceError(ref) \in Errors
        BY <2>1 DEF PlaceError, Errors
      <3> QED BY <1>8, <2>1, <3>1, MarkFailureSame DEF PlaceSegment, Decoding
    <2>2. CASE PlaceError(ref) = "none" /\ files[ref.file].assemble
      <3> DEFINE f == files[ref.file]
                 d == Copied(f.data, ref.dest, segment)
      <3>1. files' = [files EXCEPT ![ref.file].data = d]
        BY <1>8, <2>2 DEF PlaceSegment
      <3>2. ASSUME ref.file \in DOMAIN files
            PROVE  Len(d) = Len(f.data) /\ f \in FileAssembly
        <4>0. f \in FileAssembly
          BY <3>2 DEF IInv, TypeOK
        <4>1. f \in FileAssembly /\ f.data \in Seq(Byte)
          BY <4>0 DEF FileAssembly
        <4>2. gi <= Len(groups) /\ ri <= Len(group.refs) /\ segment \in Seq(Byte)
          BY <1>8 DEF PlaceSegment, IInv, TypeOK, InRange
        <4>3. ref.dest \in Nat
          BY <4>2, RefTypes, IntAssumption DEF Uint
        <4> QED BY <4>1, <4>2, <4>3, CopiedType
      <3>3. SameFiles
        <4> HIDE DEF d
        <4>1. DOMAIN files' = DOMAIN files
          BY <3>1
        <4>2. ASSUME NEW i \in DOMAIN files PROVE SameFile(files[i], files'[i])
          <5>1. CASE i = ref.file
            <6>1. files'[i] = [f EXCEPT !.data = d] /\ files[i] = f /\ f \in FileAssembly
              BY <3>1, <3>2, <5>1
            <6>2. Len(d) = Len(f.data) /\ f.assemble
              BY <2>2, <3>2, <5>1
            <6> HIDE DEF f
            <6>3. SameFile(f, [f EXCEPT !.data = d])
              BY <6>1, <6>2 DEF SameFile, FileAssembly
            <6> QED BY <6>1, <6>3
          <5>2. CASE i # ref.file
            <6>1. files'[i] = files[i]
              BY <3>1, <5>2
            <6> QED BY <6>1 DEF SameFile
          <5> QED BY <5>1, <5>2
        <4> QED BY <4>1, <4>2 DEF SameFiles
      <3> QED BY <1>8, <3>3 DEF PlaceSegment, Decoding
    <2>3. CASE PlaceError(ref) = "none" /\ ~files[ref.file].assemble
      BY <1>0, <1>8, <2>3 DEF PlaceSegment, Decoding
    <2> QED BY <2>1, <2>2, <2>3
  <1> QED BY <1>1, <1>2, <1>3, <1>4, <1>5, <1>6, <1>7, <1>8 DEF DecodeActions

\* What the steps between buildGroups and the decoding leave alone.
LEMMA PlanFrame ==
  ASSUME IInv, SortActions \/ PlanActions
  PROVE  /\ UNCHANGED <<inputs, archiveErr, limit>>
         /\ pc \in {"sort", "plan", "reserve"} /\ pc' \in {"sort", "plan", "reserve", "group"}
         /\ DOMAIN files' = DOMAIN files
         /\ \A i \in DOMAIN files :
              /\ files'[i].skip = files[i].skip /\ files'[i].totalSize = files[i].totalSize
              /\ files[i].failed => files'[i].failed
  <1> USE DEF inputs, plan, decode, budget, outputs
  <1>1. CASE SortGroup \/ EndSort \/ PassFile \/ EndPlan
    BY <1>1 DEF SortGroup, EndSort, PassFile, EndPlan
  <1>2. CASE PlanFile
    <2>1. fi \in DOMAIN files /\ files[fi] \in FileAssembly
      BY <1>2, FileTypes DEF PlanFile, MoreFiles
    <2>2. files' = [files EXCEPT ![fi] = [files[fi] EXCEPT !.assemble = TRUE]]
      BY <1>2 DEF PlanFile
    <2>3. \A i \in DOMAIN files :
            /\ files'[i].skip = files[i].skip /\ files'[i].totalSize = files[i].totalSize
            /\ files'[i].failed = files[i].failed
      BY <2>1, <2>2 DEF FileAssembly
    <2> QED BY <1>2, <2>2, <2>3 DEF PlanFile
  <1>3. CASE RefuseFile
    <2>1. SameFiles
      BY <1>3, MarkFailureSame DEF RefuseFile, Errors
    <2> QED BY <1>3, <2>1 DEF RefuseFile, SameFiles, SameFile
  <1>4. CASE ReserveOutput
    <2>1. ASSUME NEW i \in DOMAIN files
          PROVE  /\ files'[i].skip = files[i].skip /\ files'[i].totalSize = files[i].totalSize
                 /\ files'[i].failed = files[i].failed
      <3>1. files[i] \in FileAssembly
        BY DEF IInv, TypeOK
      <3> DEFINE d == [k \in 1..files[i].totalSize |-> Zero]
      <3>2. files'[i] = IF HasBuffer(i) THEN [files[i] EXCEPT !.data = d] ELSE files[i]
        BY <1>4 DEF ReserveOutput
      <3> HIDE DEF d
      <3> QED BY <3>1, <3>2 DEF FileAssembly
    <2> QED BY <1>4, <2>1 DEF ReserveOutput
  <1>5. CASE RefuseOutput
    <2> DEFINE marked == markFailure(files, {i \in DOMAIN files : files[i].assemble}, "LimitExceeded")
    <2>1. marked \in Seq(FileAssembly) /\ DOMAIN marked = DOMAIN files
      BY MarkFailureType DEF IInv, TypeOK, Errors, markFailure
    <2>2. files' = [i \in DOMAIN files |-> [marked[i] EXCEPT !.assemble = FALSE]]
      BY <1>5 DEF RefuseOutput
    <2>3. ASSUME NEW i \in DOMAIN files
          PROVE  /\ marked[i].skip = files[i].skip /\ marked[i].totalSize = files[i].totalSize
                 /\ files[i].failed => marked[i].failed
      <3>1. files \in Seq(FileAssembly) /\ "LimitExceeded" \in Errors
        BY DEF IInv, TypeOK, Errors
      <3> DEFINE f == marked[i]
      <3>2. /\ f.skip = files[i].skip /\ f.totalSize = files[i].totalSize
            /\ f.failed = (files[i].failed \/ i \in {j \in DOMAIN files : files[j].assemble})
        BY <3>1, MarkFailureFields
      <3>3. files[i] \in FileAssembly
        BY <3>1
      <3>5. files[i].failed \in BOOLEAN
        BY <3>3 DEF FileAssembly
      <3> HIDE DEF f
      <3>4. f.skip = files[i].skip /\ f.totalSize = files[i].totalSize /\ (files[i].failed => f.failed)
        BY <3>2, <3>5
      <3> QED BY <3>4 DEF f
    <2> HIDE DEF marked
    <2>4. ASSUME NEW i \in DOMAIN files
          PROVE  /\ files'[i].skip = files[i].skip /\ files'[i].totalSize = files[i].totalSize
                 /\ files[i].failed => files'[i].failed
      <3>1. marked[i] \in FileAssembly /\ files'[i] = [marked[i] EXCEPT !.assemble = FALSE]
        BY <2>1, <2>2
      <3> QED BY <2>3, <3>1 DEF FileAssembly
    <2> QED BY <1>5, <2>2, <2>4 DEF RefuseOutput
  <1> QED BY <1>1, <1>2, <1>3, <1>4, <1>5 DEF SortActions, PlanActions

-----------------------------------------------------------------------------
(* FilesBuilt is kept by every step.                                       *)

StartActions == RejectArchive \/ AcceptArchive
FileActions == SkipFile \/ StartFile \/ AddPart \/ RejectPart \/ SizeFile \/ AddRef \/ EndFile
                 \/ EndFiles

LEMMA InitFilesBuilt == Begun => FilesBuilt
  <1> SUFFICES ASSUME Begun PROVE FilesBuilt
    OBVIOUS
  <1>1. /\ pc = "start" /\ fi = 1 /\ archiveErr = "none"
        /\ files = [i \in DOMAIN archive.files |-> FreshFile]
        /\ DOMAIN archive.files = 1..Len(archive.files)
    BY DEF Begun, Called, Archive
  <1>2. \A i \in DOMAIN files : ~files[i].skip /\ ~files[i].failed /\ ~Reached(i)
    BY <1>1 DEF FreshFile, Reached, Building
  <1> QED BY <1>1, <1>2 DEF FilesBuilt

LEMMA StartFilesBuilt ==
  ASSUME IInv, FilesBuilt, StartActions
  PROVE  FilesBuilt'
  <1> USE DEF inputs, plan, decode, budget, outputs
  <1>1. pc = "start" /\ fi' = fi /\ files' = files /\ fi = 1
    BY DEF StartActions, RejectArchive, AcceptArchive, FilesBuilt
  <1>4. \A i \in DOMAIN files : ~(i < fi) /\ ~(i < fi')
    BY <1>1 DEF IInv, TypeOK
  <1>2. CASE RejectArchive
    <2>1. archiveErr' # "none" /\ pc' = "done"
      BY <1>2 DEF RejectArchive
    <2>2. \A i \in DOMAIN files : ~Reached(i) /\ ~Reached(i)'
      BY <1>1, <1>4, <2>1 DEF Reached, Building
    <2> QED BY <1>1, <2>1, <2>2 DEF FilesBuilt
  <1>3. CASE AcceptArchive
    <2>1. archiveErr' = archiveErr /\ pc' = "file"
      BY <1>3 DEF AcceptArchive
    <2>2. \A i \in DOMAIN files : ~Reached(i) /\ ~Reached(i)'
      BY <1>1, <1>4, <2>1 DEF Reached, Building
    <2>3. archiveErr = "none"
      BY <1>1 DEF FilesBuilt
    <2> QED BY <1>1, <2>1, <2>2, <2>3 DEF FilesBuilt
  <1> QED BY <1>2, <1>3 DEF StartActions

\* A step that ends file fi leaves the others as they are.
LEMMA FileEnds ==
  ASSUME IInv, FilesBuilt, archive' = archive, archiveErr' = archiveErr,
         pc \in {"file", "total", "refs"}, pc' = "file", fi' = fi + 1, fi \in DOMAIN files,
         DOMAIN files' = DOMAIN files, \A i \in DOMAIN files : i # fi => files'[i] = files[i],
         Built(fi, files'[fi])
  PROVE  FilesBuilt'
  <1>1. \A i \in DOMAIN files : i \in Nat /\ fi \in Nat
    BY DEF IInv, TypeOK
  <1>2. archiveErr = "none"
    BY DEF FilesBuilt
  <1>4. ASSUME NEW i \in DOMAIN files
        PROVE  IF Reached(i)' THEN Built(i, files[i])' ELSE ~files'[i].skip /\ ~files'[i].failed
    <2>1. Reached(i) <=> i < fi
      BY <1>2 DEF Reached, Building
    <2>2. Reached(i)' <=> i < fi + 1
      BY <1>2 DEF Reached, Building
    <2>3. IF Reached(i) THEN Built(i, files[i]) ELSE ~files[i].skip /\ ~files[i].failed
      BY DEF FilesBuilt
    <2>4. Built(i, files[i])' <=> Built(i, files'[i])
      BY ArchiveFixed DEF Built
    <2>5. CASE i = fi
      BY <1>1, <2>2, <2>4, <2>5
    <2>6. CASE i # fi
      BY <1>1, <2>1, <2>2, <2>3, <2>4, <2>6
    <2> QED BY <2>5, <2>6
  <1> QED BY <1>2, <1>4 DEF FilesBuilt

\* A step within file fi changes nothing but its size.
LEMMA FileGoesOn ==
  ASSUME IInv, FilesBuilt, archive' = archive, archiveErr' = archiveErr, fi' = fi,
         pc \in {"file", "total", "refs"}, pc' \in {"file", "total", "refs"},
         DOMAIN files' = DOMAIN files,
         \A i \in DOMAIN files : /\ i # fi => files'[i] = files[i]
                                 /\ files'[i].skip = files[i].skip
                                 /\ files'[i].failed = files[i].failed
  PROVE  /\ archiveErr' = "none"
         /\ \A i \in DOMAIN files' :
              IF Reached(i)' THEN Built(i, files[i])' ELSE ~files'[i].skip /\ ~files'[i].failed
  <1>1. \A i \in DOMAIN files : i \in Nat /\ fi \in Nat
    BY DEF IInv, TypeOK
  <1>2. archiveErr = "none"
    BY DEF FilesBuilt
  <1>3. ASSUME NEW i \in DOMAIN files
        PROVE  IF Reached(i)' THEN Built(i, files[i])' ELSE ~files'[i].skip /\ ~files'[i].failed
    <2>1. Reached(i) <=> i < fi
      BY <1>2 DEF Reached, Building
    <2>2. Reached(i)' <=> i < fi
      BY <1>2 DEF Reached, Building
    <2>3. IF Reached(i) THEN Built(i, files[i]) ELSE ~files[i].skip /\ ~files[i].failed
      BY DEF FilesBuilt
    <2>4. Built(i, files[i])' <=> Built(i, files'[i])
      BY ArchiveFixed DEF Built
    <2>5. i < fi => files'[i] = files[i]
      BY <1>1
    <2> QED BY <2>1, <2>2, <2>3, <2>4, <2>5
  <1> QED BY <1>2, <1>3

\* The part loops count the parts of file fi from where they have come.
LEMMA PartLoop ==
  ASSUME IInv, FilesBuilt, pc \in {"total", "refs"}
  PROVE  /\ fi \in DOMAIN files /\ fi \in DOMAIN archive.files /\ archive \in Archive
         /\ files[fi] \in FileAssembly /\ file \in FileEntry
         /\ Locations(file) = Parts(fi) /\ Parts(fi) \in Seq(Nat) /\ Len(Parts(fi)) \in Nat
         /\ DOMAIN Parts(fi) = 1..Len(Parts(fi))
         /\ li \in 1..(Len(Parts(fi)) + 1) /\ li - 1 \in 0..Len(Parts(fi))
         /\ (li + 1) - 1 = li /\ MaxUint \in Nat
         /\ IF Reached(fi) THEN Built(fi, files[fi]) ELSE ~files[fi].skip /\ ~files[fi].failed
         /\ ~Reached(fi)
  <1>1. fi <= Len(files) /\ archive \in Archive /\ li \in Nat \ {0} /\ fi \in Nat
    BY DEF IInv, TypeOK, InRange
  <1>2. /\ fi \in DOMAIN files /\ fi \in DOMAIN archive.files
        /\ files[fi] \in FileAssembly /\ file \in FileEntry
    BY <1>1, FileTypes
  <1>3. /\ Locations(file) = Parts(fi) /\ Parts(fi) \in Seq(Nat) /\ Len(Parts(fi)) \in Nat
        /\ DOMAIN Parts(fi) = 1..Len(Parts(fi))
    BY <1>1, <1>2, PartEndsEquation DEF file, Parts
  <1>4. li \in 1..(Len(Parts(fi)) + 1) /\ li - 1 \in 0..Len(Parts(fi)) /\ (li + 1) - 1 = li
    BY <1>1, <1>3 DEF FilesBuilt
  <1>5. ~Reached(fi)
    BY <1>1 DEF Reached, Building
  <1> QED BY <1>1, <1>2, <1>3, <1>4, <1>5, IntAssumption DEF FilesBuilt

\* A part that cannot be added makes a file that cannot be located.
LEMMA BadPart ==
  ASSUME IInv, FilesBuilt, pc = "total", MoreParts, ~GoodPart
  PROVE  ~Located(fi)
  <1> DEFINE n == Len(Parts(fi))
             s == PartEnds(fi)
  <1>1. SUFFICES ASSUME Located(fi) PROVE FALSE
    OBVIOUS
  <1>2. /\ fi \in DOMAIN archive.files /\ archive \in Archive /\ Locations(file) = Parts(fi)
        /\ li \in 1..(n + 1) /\ n \in Nat /\ DOMAIN Parts(fi) = 1..n
    BY PartLoop
  <1>3. li \in 1..n /\ li - 1 \in 0..n /\ n \in li..n /\ li \in 0..n
    BY <1>2 DEF MoreParts
  <1>4. \A k \in 1..n : IsEntry(Parts(fi)[k])
    BY <1>1, <1>2 DEF Located, Parts
  <1>5. s[n] <= MaxUint
    BY <1>1 DEF Located, Parts
  <1>6. s[li] \in Nat /\ s[n] \in Nat /\ s[li] <= s[n]
    BY <1>2, <1>3, <1>4, PartEndsMonotone
  <1>7. s[li] = s[li - 1] + Entry(Parts(fi)[li]).uncompressedSize
    BY <1>2, <1>3, PartEndsEquation
  <1>8. Entry(Parts(fi)[li]).uncompressedSize \in Nat
    <2>1. Parts(fi)[li] \in Nat
      BY <1>3, PartLoop
    <2> QED BY <1>2, <1>3, <1>4, <2>1, EntryType
  <1>9. total = s[li - 1] /\ total \in Nat
    BY IntAssumption DEF FilesBuilt, IInv, TypeOK, Uint
  <1>10. ~(Entry(Parts(fi)[li]).uncompressedSize <= MaxUint - total)
    BY <1>2, <1>3, <1>4 DEF GoodPart, Part
  <1> HIDE DEF s, n
  <1>11. \A a, b, m \in Int : a + b <= m => b <= m - a
    OBVIOUS
  <1>12. s[li] <= MaxUint
    BY <1>5, <1>6, IntAssumption
  <1> QED BY <1>7, <1>8, <1>9, <1>10, <1>11, <1>12, IntAssumption

\* The parts counted to the end make a file that is located.
LEMMA GoodParts ==
  ASSUME IInv, FilesBuilt, pc = "total", ~MoreParts
  PROVE  /\ Located(fi) /\ total = PartEnds(fi)[Len(Parts(fi))]
         /\ OutputSize(fi) = IF file.size # 0 THEN file.size ELSE total
  <1> DEFINE n == Len(Parts(fi))
  <1>1. /\ Locations(file) = Parts(fi) /\ li \in 1..(n + 1) /\ n \in Nat
        /\ DOMAIN Parts(fi) = 1..n
    BY PartLoop
  <1>2. li = n + 1 /\ li - 1 = n
    BY <1>1 DEF MoreParts
  <1>3. total = PartEnds(fi)[n]
    BY <1>2 DEF FilesBuilt
  <1>4. \A k \in 1..n : IsEntry(Parts(fi)[k])
    BY <1>1, <1>2 DEF IInv, InRange
  <1>5. total <= MaxUint
    BY IntAssumption DEF IInv, TypeOK, Uint
  <1> QED BY <1>1, <1>3, <1>4, <1>5 DEF Located, OutputSize, Parts, file

\* A part that was counted has room behind the parts before it.
LEMMA PartFits ==
  ASSUME IInv, FilesBuilt, pc = "refs", MoreParts
  PROVE  /\ Part.uncompressedSize <= MaxUint - dest
         /\ li \in 1..Len(Parts(fi)) /\ (li + 1) - 1 = li /\ li + 1 <= Len(Parts(fi)) + 1
         /\ dest + Part.uncompressedSize = PartEnds(fi)[li]
         /\ Part = Entry(Parts(fi)[li]) /\ Part \in DataEntry
  <1> DEFINE s == PartEnds(fi)
             n == Len(Parts(fi))
  <1>2. /\ fi \in DOMAIN files /\ fi \in DOMAIN archive.files /\ archive \in Archive
        /\ Locations(file) = Parts(fi) /\ n \in Nat /\ DOMAIN Parts(fi) = 1..n
        /\ li \in 1..(n + 1) /\ (li + 1) - 1 = li
    BY PartLoop
  <1>3. Located(fi) /\ dest = s[li - 1]
    BY DEF FilesBuilt
  <1>4. li \in 1..n /\ li - 1 \in 0..n /\ n \in li..n /\ li \in 0..n /\ li + 1 <= n + 1
    BY <1>2 DEF MoreParts
  <1>5. s[li] = s[li - 1] + Part.uncompressedSize /\ Part = Entry(Parts(fi)[li])
    BY <1>2, <1>4, PartEndsEquation DEF Part
  <1>6. \A k \in 1..n : IsEntry(Parts(fi)[k])
    BY <1>2, <1>3 DEF Located, Parts
  <1>7. s[li] \in Nat /\ s[n] \in Nat /\ s[li] <= s[n] /\ s[n] <= MaxUint
    <2>1. s[li] \in Nat /\ s[n] \in Nat /\ s[li] <= s[n]
      BY <1>2, <1>4, <1>6, PartEndsMonotone
    <2> QED BY <1>3, <2>1 DEF Located, Parts
  <1>8. Part \in DataEntry /\ Part.uncompressedSize \in Nat /\ dest \in Nat
    <2>1. fi <= Len(files) /\ dest \in Uint
      BY DEF IInv, TypeOK, InRange
    <2>2. IsEntry(Locations(file)[li])
      BY <1>2, <1>4, <1>6
    <2>3. Part \in DataEntry /\ Part.uncompressedSize \in Uint
      BY <2>1, <2>2, PartTypes
    <2> QED BY <2>1, <2>3, IntAssumption DEF Uint
  <1> HIDE DEF s, n
  <1>9. Part.uncompressedSize <= MaxUint - dest
    <2>1. \A a, b, m \in Int : a + b <= m => b <= m - a
      OBVIOUS
    <2>2. dest + Part.uncompressedSize <= MaxUint
      BY <1>3, <1>5, <1>7, IntAssumption
    <2> QED BY <1>8, <2>1, <2>2, IntAssumption
  <1> QED BY <1>2, <1>3, <1>4, <1>5, <1>8, <1>9 DEF s, n

\* The loops of buildGroups.
LEMMA BuildFilesBuilt ==
  ASSUME IInv, FilesBuilt, FileActions
  PROVE  FilesBuilt'
  <1> USE DEF inputs, plan, decode, budget, outputs
  <1>0. archive' = archive /\ archiveErr' = archiveErr
    BY DEF FileActions, SkipFile, StartFile, AddPart, RejectPart, SizeFile, AddRef, EndFile, EndFiles
  <1>1. CASE SkipFile
    <2>1. /\ fi \in DOMAIN files /\ files[fi] \in FileAssembly /\ External(fi)
      BY <1>1, FileTypes DEF SkipFile, MoreFiles, External, file
    <2>2. files' = [files EXCEPT ![fi] = [files[fi] EXCEPT !.skip = TRUE]]
      BY <1>1 DEF SkipFile
    <2>3. files'[fi].skip = TRUE
      BY <2>1, <2>2 DEF FileAssembly
    <2>4. Built(fi, files'[fi])
      BY <2>1, <2>3 DEF Built, External
    <2> QED BY <1>0, <1>1, <2>1, <2>2, <2>4, FileEnds DEF SkipFile
  <1>2. CASE StartFile
    <2>1. fi \in DOMAIN archive.files /\ ~External(fi)
      BY <1>2, FileTypes DEF StartFile, MoreFiles, External, file
    <2>2. archive \in Archive
      BY DEF IInv, TypeOK
    <2>3. PartEnds(fi)[0] = 0 /\ Len(Parts(fi)) >= 1 /\ Len(Parts(fi)) \in Nat
      BY <2>1, <2>2, PartEndsEquation
    <2>5. /\ pc = "file" /\ pc' = "total" /\ fi' = fi /\ files' = files /\ li' = 1 /\ total' = 0
      BY <1>2 DEF StartFile
    <2>4. /\ ~External(fi)' /\ PartEnds(fi)'[0] = 0 /\ 1 <= Len(Parts(fi)') + 1
      BY <1>0, <2>1, <2>3, <2>5, ArchiveFixed
    <2>6. /\ archiveErr' = "none"
          /\ \A i \in DOMAIN files' :
               IF Reached(i)' THEN Built(i, files[i])' ELSE ~files'[i].skip /\ ~files'[i].failed
      BY <1>0, <2>5, FileGoesOn
    <2> QED BY <2>4, <2>5, <2>6 DEF FilesBuilt
  <1>3. CASE AddPart
    <2>1. /\ pc = "total" /\ pc' = pc /\ fi' = fi /\ files' = files /\ li' = li + 1
          /\ total' = total + Part.uncompressedSize /\ MoreParts
      BY <1>3 DEF AddPart
    <2>2. /\ fi \in DOMAIN archive.files /\ archive \in Archive /\ Locations(file) = Parts(fi)
          /\ li \in 1..(Len(Parts(fi)) + 1) /\ (li + 1) - 1 = li /\ Len(Parts(fi)) \in Nat
      BY <2>1, PartLoop
    <2>3. li \in 1..Len(Parts(fi)) /\ li + 1 <= Len(Parts(fi)) + 1
      BY <2>1, <2>2 DEF MoreParts
    <2>4. PartEnds(fi)[li] = PartEnds(fi)[li - 1] + Part.uncompressedSize
      BY <2>2, <2>3, PartEndsEquation DEF Part
    <2>5. total' = PartEnds(fi)'[li' - 1] /\ ~External(fi)' /\ li' <= Len(Parts(fi)') + 1
      BY <1>0, <2>1, <2>2, <2>3, <2>4, ArchiveFixed DEF FilesBuilt
    <2>6. /\ archiveErr' = "none"
          /\ \A i \in DOMAIN files' :
               IF Reached(i)' THEN Built(i, files[i])' ELSE ~files'[i].skip /\ ~files'[i].failed
      BY <1>0, <2>1, FileGoesOn
    <2> QED BY <2>1, <2>5, <2>6 DEF FilesBuilt
  <1>4. CASE RejectPart
    <2>1. /\ pc = "total" /\ pc' = "file" /\ fi' = fi + 1 /\ MoreParts /\ ~GoodPart
          /\ files' = markFailure(files, {fi}, "Corrupt")
      BY <1>4 DEF RejectPart
    <2>2. /\ fi \in DOMAIN files /\ ~External(fi) /\ files \in Seq(FileAssembly)
          /\ files[fi].skip = FALSE /\ "Corrupt" \in Errors
      BY <2>1, PartLoop DEF FilesBuilt, IInv, TypeOK, Errors, FileAssembly
    <2>3. ~Located(fi)
      BY <2>1, BadPart
    <2>4. DOMAIN files' = DOMAIN files /\ \A i \in DOMAIN files : i # fi => files'[i] = files[i]
      BY <2>1 DEF markFailure
    <2> DEFINE f == files'[fi]
    <2>5. f.skip = files[fi].skip /\ f.failed = (files[fi].failed \/ fi \in {fi})
      BY <2>1, <2>2, MarkFailureFields
    <2>6. Built(fi, files'[fi])
      BY <2>2, <2>3, <2>5 DEF Built, External
    <2> QED BY <1>0, <2>1, <2>2, <2>4, <2>6, FileEnds
  <1>5. CASE SizeFile
    <2> DEFINE size == IF file.size # 0 THEN file.size ELSE total
    <2>1. /\ pc = "total" /\ pc' = "refs" /\ fi' = fi /\ ~MoreParts /\ li' = 1 /\ dest' = 0
          /\ files' = [files EXCEPT ![fi] = [files[fi] EXCEPT !.totalSize = size]]
      BY <1>5 DEF SizeFile
    <2>2. /\ fi \in DOMAIN files /\ ~External(fi) /\ files[fi] \in FileAssembly
          /\ fi \in DOMAIN archive.files /\ archive \in Archive /\ Len(Parts(fi)) \in Nat
      BY <2>1, PartLoop DEF FilesBuilt
    <2>3. Located(fi) /\ OutputSize(fi) = size
      BY <2>1, GoodParts
    <2> HIDE DEF size
    <2>4. /\ DOMAIN files' = DOMAIN files /\ \A i \in DOMAIN files : i # fi => files'[i] = files[i]
          /\ files'[fi].skip = files[fi].skip /\ files'[fi].failed = files[fi].failed
          /\ files'[fi].totalSize = size
      BY <2>1, <2>2 DEF FileAssembly
    <2>5. PartEnds(fi)[0] = 0
      BY <2>2, PartEndsEquation
    <2>6. /\ archiveErr' = "none"
          /\ \A i \in DOMAIN files' :
               IF Reached(i)' THEN Built(i, files[i])' ELSE ~files'[i].skip /\ ~files'[i].failed
      BY <1>0, <2>1, <2>4, FileGoesOn
    <2>7. /\ ~External(fi)' /\ Located(fi)' /\ PartEnds(fi)'[0] = 0 /\ OutputSize(fi)' = size
          /\ 1 <= Len(Parts(fi)') + 1
      BY <1>0, <2>1, <2>2, <2>3, <2>5, ArchiveFixed
    <2> QED BY <2>1, <2>4, <2>6, <2>7 DEF FilesBuilt
  <1>6. CASE AddRef
    <2>1. pc = "refs" /\ MoreParts
      BY <1>6 DEF AddRef
    <2>2. Located(fi) /\ files[fi].totalSize = OutputSize(fi) /\ ~External(fi)
      BY <2>1 DEF FilesBuilt
    <2>3. /\ Part.uncompressedSize <= MaxUint - dest /\ (li + 1) - 1 = li
          /\ dest + Part.uncompressedSize = PartEnds(fi)[li] /\ li + 1 <= Len(Parts(fi)) + 1
      BY <2>1, PartFits
    <2>10. /\ dest' = dest + Part.uncompressedSize /\ li' = li + 1
           /\ pc' = pc /\ fi' = fi /\ files' = files
      BY <1>6, <2>3 DEF AddRef
    <2>11. /\ archiveErr' = "none"
           /\ \A i \in DOMAIN files' :
                IF Reached(i)' THEN Built(i, files[i])' ELSE ~files'[i].skip /\ ~files'[i].failed
      BY <1>0, <2>1, <2>10, FileGoesOn
    <2>12. dest' = PartEnds(fi)[li' - 1] /\ li' <= Len(Parts(fi)) + 1
      BY <2>3, <2>10
    <2>13. /\ ~External(fi)' /\ Located(fi)' /\ dest' = PartEnds(fi)'[li' - 1]
           /\ files'[fi].totalSize = OutputSize(fi)' /\ li' <= Len(Parts(fi)') + 1
      BY <1>0, <2>2, <2>10, <2>12, ArchiveFixed
    <2> QED BY <2>1, <2>10, <2>11, <2>13 DEF FilesBuilt
  <1>7. CASE EndFile
    <2>1. /\ pc = "refs" /\ pc' = "file" /\ fi' = fi + 1 /\ files' = files
      BY <1>7 DEF EndFile
    <2>2. /\ fi \in DOMAIN files /\ ~External(fi) /\ Located(fi) /\ files[fi].skip = FALSE
          /\ files[fi].totalSize = OutputSize(fi)
      BY <2>1, PartLoop DEF FilesBuilt, FileAssembly
    <2>3. Built(fi, files'[fi])
      BY <2>1, <2>2 DEF Built, External
    <2> QED BY <1>0, <2>1, <2>2, <2>3, FileEnds
  <1>8. CASE EndFiles
    <2>1. pc = "file" /\ pc' = "sort" /\ files' = files /\ fi > Len(files) /\ archiveErr = "none"
      BY <1>8 DEF EndFiles, MoreFiles, FilesBuilt, IInv, TypeOK
    <2>2. ASSUME NEW i \in DOMAIN files PROVE Built(i, files[i])'
      <3>1. i < fi
        BY <2>1 DEF IInv, TypeOK
      <3>2. Built(i, files[i])
        BY <2>1, <3>1 DEF FilesBuilt, Reached
      <3> QED BY <1>0, <2>1, <3>2, ArchiveFixed DEF Built
    <2>3. \A i \in DOMAIN files : Reached(i)'
      BY <1>0, <2>1 DEF Reached, Building
    <2> QED BY <1>0, <2>1, <2>2, <2>3 DEF FilesBuilt
  <1> QED BY <1>1, <1>2, <1>3, <1>4, <1>5, <1>6, <1>7, <1>8 DEF FileActions

\* The later steps leave what buildGroups made, except that files may fail.
LEMMA LaterFilesBuilt ==
  ASSUME FilesBuilt, pc \notin {"start", "file", "total", "refs"},
         pc' \notin {"start", "file", "total", "refs"},
         archive' = archive, archiveErr' = archiveErr, archiveErr = "none",
         DOMAIN files' = DOMAIN files,
         \A i \in DOMAIN files :
           /\ files'[i].skip = files[i].skip /\ files'[i].totalSize = files[i].totalSize
           /\ files[i].failed => files'[i].failed
  PROVE  FilesBuilt'
  <1>1. \A i : Reached(i) /\ Reached(i)'
    BY DEF Reached, Building
  <1>2. ASSUME NEW i \in DOMAIN files PROVE Built(i, files[i])'
    <2>1. Built(i, files[i])
      BY <1>1 DEF FilesBuilt
    <2> QED BY <2>1, ArchiveFixed DEF Built
  <1> QED BY <1>1, <1>2 DEF FilesBuilt

LEMMA NextFilesBuilt == IInv /\ FilesBuilt /\ [Next]_vars => FilesBuilt'
  <1> SUFFICES ASSUME IInv, FilesBuilt, [Next]_vars PROVE FilesBuilt'
    OBVIOUS
  <1>1. CASE StartActions
    BY <1>1, StartFilesBuilt
  <1>2. CASE FileActions
    BY <1>2, BuildFilesBuilt
  <1>3. CASE SortActions \/ PlanActions
    BY <1>3, PlanFrame, LaterFilesBuilt DEF inputs, FilesBuilt
  <1>4. CASE DecodeActions \/ ReportActions
    BY <1>4, DecodeFrame, LaterFilesBuilt DEF inputs, FilesBuilt, Decoding, SameFiles, SameFile
  <1>5. CASE UNCHANGED vars
    <2>1. /\ archive' = archive /\ files' = files /\ pc' = pc /\ fi' = fi /\ li' = li
          /\ total' = total /\ dest' = dest /\ archiveErr' = archiveErr
      BY <1>5 DEF vars, inputs, plan, outputs
    <2>2. \A i : /\ Reached(i)' <=> Reached(i)
                 /\ Built(i, files[i])' <=> Built(i, files[i])
      BY <2>1, ArchiveFixed DEF Reached, Building, Built
    <2> QED BY <2>1, <2>2, ArchiveFixed DEF FilesBuilt
  <1> QED BY <1>1, <1>2, <1>3, <1>4, <1>5
          DEF Next, Returned, Step, StartActions, FileActions, SortActions, PlanActions,
              DecodeActions, ReportActions

-----------------------------------------------------------------------------
(* Which files get a buffer.                                               *)

Planning == pc \in {"plan", "reserve"}

\* A file that is neither skipped nor failed has a buffer, unless it is only
\* to be verified and has no checksum.
Decided(i, f) ==
  f.assemble \/ f.skip \/ f.failed \/ (verifyOnly /\ ~archive.files[i].hasChecksum)

\* The buffers that are planned, and those that exist.
Planned(fs) == [i \in DOMAIN fs |-> IF fs[i].assemble THEN fs[i].totalSize ELSE 0]
Buffers(fs) == [i \in DOMAIN fs |-> Len(fs[i].data)]

\* Nothing is assembled before it is planned, what is planned is neither
\* skipped nor failed, and while chunks are decoded the buffers are those of
\* the planned files and have their sizes.
BuffersPlanned ==
  /\ \A i \in DOMAIN files :
       /\ Building \/ pc = "sort" \/ (pc = "plan" /\ i >= fi) => ~files[i].assemble
       /\ Building \/ pc = "sort" \/ Planning => files[i].data = <<>>
       /\ Planning /\ files[i].assemble => ~files[i].failed /\ ~files[i].skip
       /\ Decoding /\ ~files[i].assemble => files[i].data = <<>>
       /\ Decoding /\ files[i].assemble => Len(files[i].data) = files[i].totalSize
       /\ Decoding \/ pc = "reserve" \/ (pc = "plan" /\ i < fi) => Decided(i, files[i])
  /\ Planning => total = Total(Planned(files))
  /\ Decoding => total = Total(Buffers(files))

LEMMA InitBuffersPlanned == Begun => BuffersPlanned
  <1> SUFFICES ASSUME Begun PROVE BuffersPlanned
    OBVIOUS
  <1>1. pc = "start" /\ files = [i \in DOMAIN archive.files |-> FreshFile]
    BY DEF Begun, Called
  <1>2. \A i \in DOMAIN files : ~files[i].assemble /\ files[i].data = <<>>
    BY <1>1 DEF FreshFile
  <1> QED BY <1>1, <1>2 DEF BuffersPlanned, Planning, Decoding

\* The steps before the planning make no buffer.
LEMMA FilesFrame ==
  ASSUME IInv, StartActions \/ FileActions \/ SortActions
  PROVE  /\ Building \/ pc = "sort"
         /\ Building' \/ pc' = "sort" \/ pc' = "done" \/ (pc' = "plan" /\ fi' = 1 /\ total' = 0)
         /\ DOMAIN files' = DOMAIN files
         /\ \A i \in DOMAIN files : /\ files'[i].assemble = files[i].assemble
                                    /\ files'[i].data = files[i].data
  <1> USE DEF inputs, plan, decode, budget, outputs, Building
  <1>0. files \in Seq(FileAssembly) /\ \A i \in DOMAIN files : files[i] \in FileAssembly
    BY DEF IInv, TypeOK
  <1>1. CASE StartActions \/ SortActions \/ StartFile \/ AddPart \/ EndFile \/ EndFiles
    BY <1>1 DEF StartActions, SortActions, RejectArchive, AcceptArchive, SortGroup, EndSort,
                StartFile, AddPart, EndFile, EndFiles
  <1>2. CASE SkipFile
    <2>1. files' = [files EXCEPT ![fi] = [files[fi] EXCEPT !.skip = TRUE]]
      BY <1>2 DEF SkipFile
    <2> QED BY <1>0, <1>2, <2>1 DEF SkipFile, FileAssembly
  <1>3. CASE RejectPart \/ AddRef
    <2>1. \/ files' = files
          \/ files' = markFailure(files, {fi}, "Corrupt")
      BY <1>3 DEF RejectPart, AddRef
    <2>2. /\ DOMAIN files' = DOMAIN files
          /\ \A i \in DOMAIN files : /\ files'[i].assemble = files[i].assemble
                                     /\ files'[i].data = files[i].data
      <3>1. CASE files' = markFailure(files, {fi}, "Corrupt")
        <4>1. DOMAIN files' = DOMAIN files /\ "Corrupt" \in Errors
          BY <3>1 DEF markFailure, Errors
        <4> QED BY <1>0, <3>1, <4>1, MarkFailureFields
      <3> QED BY <2>1, <3>1
    <2> QED BY <1>3, <2>2 DEF RejectPart, AddRef
  <1>4. CASE SizeFile
    <2> DEFINE size == IF file.size # 0 THEN file.size ELSE total
    <2>1. files' = [files EXCEPT ![fi] = [files[fi] EXCEPT !.totalSize = size]]
      BY <1>4 DEF SizeFile
    <2> HIDE DEF size
    <2> QED BY <1>0, <1>4, <2>1 DEF SizeFile, FileAssembly
  <1> QED BY <1>1, <1>2, <1>3, <1>4 DEF FileActions

\* The sizes are sequences of numbers, one for each file.
LEMMA SizesType ==
  ASSUME NEW fs \in Seq(FileAssembly)
  PROVE  /\ Planned(fs) \in Seq(Nat) /\ Len(Planned(fs)) = Len(fs)
         /\ Buffers(fs) \in Seq(Nat) /\ Len(Buffers(fs)) = Len(fs)
  <1>1. ASSUME NEW i \in DOMAIN fs
        PROVE  fs[i].totalSize \in Nat /\ Len(fs[i].data) \in Nat
    <2>1. fs[i] \in FileAssembly
      OBVIOUS
    <2>2. fs[i].totalSize \in Nat /\ fs[i].data \in Seq(Byte)
      BY <2>1, IntAssumption DEF FileAssembly, Uint
    <2> QED BY <2>2
  <1>2. DOMAIN fs = 1..Len(fs) /\ Len(fs) \in Nat
    OBVIOUS
  <1> QED BY <1>1, <1>2 DEF Planned, Buffers

LEMMA EarlyBuffersPlanned ==
  ASSUME IInv, BuffersPlanned, StartActions \/ FileActions \/ SortActions
  PROVE  BuffersPlanned'
  <1>1. /\ Building \/ pc = "sort"
        /\ Building' \/ pc' = "sort" \/ pc' = "done" \/ (pc' = "plan" /\ fi' = 1 /\ total' = 0)
        /\ DOMAIN files' = DOMAIN files
        /\ \A i \in DOMAIN files : /\ files'[i].assemble = files[i].assemble
                                   /\ files'[i].data = files[i].data
    BY FilesFrame
  <1>2. /\ \A i \in DOMAIN files : ~files'[i].assemble /\ files'[i].data = <<>>
        /\ \A i \in DOMAIN files : ~(i < 1)
    <2>1. \A i \in DOMAIN files : i \in Nat /\ ~(i < 1)
      BY DEF IInv, TypeOK
    <2> QED BY <1>1, <2>1 DEF BuffersPlanned
  <1>3. CASE pc' = "plan"
    <2>1. Planned(files') = [i \in 1..Len(files) |-> 0] /\ Len(files) \in Nat
      BY <1>1, <1>2 DEF Planned, IInv, TypeOK
    <2>2. Planned(files') \in Seq(Nat) /\ \A k \in 1..Len(Planned(files')) : Planned(files')[k] = 0
      BY <2>1
    <2>4. Total(Planned(files')) = 0
      BY <2>2, TotalOfZeros
    <2>5. total' = Total(Planned(files))' /\ fi' = 1
      BY <1>1, <1>3, <2>4 DEF Building, Total, Sums
    <2> QED BY <1>1, <1>2, <1>3, <2>5 DEF BuffersPlanned, Building, Planning, Decoding
  <1>4. CASE pc' # "plan"
    BY <1>1, <1>2, <1>4 DEF BuffersPlanned, Building, Planning, Decoding
  <1> QED BY <1>3, <1>4

\* allocateFileBuffers keeps the sum of what it has planned, and the buffers
\* are then made of these sizes or not at all.
LEMMA PlanBuffersPlanned ==
  ASSUME IInv, BuffersPlanned, PlanActions
  PROVE  BuffersPlanned'
  <1> USE DEF inputs, plan, decode, budget, outputs, Building, Decoding, Planning
  <1>0. /\ files \in Seq(FileAssembly) /\ fi \in Nat /\ "LimitExceeded" \in Errors
        /\ Len(files) \in Nat /\ DOMAIN files = 1..Len(files)
        /\ \A i \in DOMAIN files : files[i] \in FileAssembly /\ i \in Nat
    BY DEF IInv, TypeOK, Errors
  <1>1. CASE PassFile
    <2>1. /\ pc = "plan" /\ pc' = pc /\ files' = files /\ fi' = fi + 1 /\ total' = total
          /\ archive' = archive /\ verifyOnly' = verifyOnly /\ fi \in DOMAIN files
      BY <1>0, <1>1, FileTypes DEF PassFile, MoreFiles
    <2>2. Decided(fi, files[fi])
      BY <1>1 DEF PassFile, Assembled, Decided, file
    <2>3. Planned(files') = Planned(files)
      BY <2>1 DEF Planned
    <2>4. \A i \in DOMAIN files : i < fi' => i < fi \/ i = fi
      BY <1>0, <2>1
    <2>5. \A i \in DOMAIN files : i >= fi' => i >= fi
      BY <1>0, <2>1
    <2>6. \A i \in DOMAIN files : i < fi' => Decided(i, files[i])
      BY <2>1, <2>2, <2>4 DEF BuffersPlanned
    <2> QED BY <2>1, <2>3, <2>5, <2>6 DEF BuffersPlanned, Decided, Total
  <1>2. CASE PlanFile
    <2>1. /\ pc = "plan" /\ pc' = pc /\ fi' = fi + 1 /\ total' = total + files[fi].totalSize
          /\ archive' = archive /\ verifyOnly' = verifyOnly /\ fi \in DOMAIN files
          /\ files' = [files EXCEPT ![fi] = [files[fi] EXCEPT !.assemble = TRUE]]
          /\ ~files[fi].skip /\ ~files[fi].failed /\ ~files[fi].assemble
      BY <1>0, <1>2, FileTypes DEF PlanFile, MoreFiles, Assembled, BuffersPlanned
    <2>2. /\ DOMAIN files' = DOMAIN files /\ files' \in Seq(FileAssembly)
          /\ files'[fi].assemble = TRUE /\ files'[fi].totalSize = files[fi].totalSize
          /\ files'[fi].failed = files[fi].failed /\ files'[fi].skip = files[fi].skip
          /\ files'[fi].data = files[fi].data
          /\ \A i \in DOMAIN files : i # fi => files'[i] = files[i]
      <3>1. [files[fi] EXCEPT !.assemble = TRUE] \in FileAssembly
        BY <1>0, <2>1 DEF FileAssembly
      <3>2. files' \in Seq(FileAssembly)
        BY <1>0, <2>1, <3>1
      <3> QED BY <1>0, <2>1, <3>2 DEF FileAssembly
    <2>3. /\ Planned(files) \in Seq(Nat) /\ Len(Planned(files)) = Len(files)
          /\ Planned(files') \in Seq(Nat) /\ Len(Planned(files')) = Len(files)
      <3>1. Len(files') = Len(files)
        BY <1>0, <2>2
      <3> QED BY <1>0, <2>2, <3>1, SizesType
    <2>4. /\ Planned(files)[fi] = 0 /\ Planned(files')[fi] = files[fi].totalSize
          /\ \A k \in 1..Len(files) : k # fi => Planned(files)[k] = Planned(files')[k]
      BY <1>0, <2>1, <2>2 DEF Planned
    <2>5. Total(Planned(files')) = Total(Planned(files)) - 0 + files[fi].totalSize
      <3> DEFINE x == Planned(files)
                 y == Planned(files')
      <3>1. x \in Seq(Nat) /\ y \in Seq(Nat) /\ Len(x) = Len(files) /\ Len(y) = Len(files)
        BY <2>3
      <3>2. /\ x[fi] = 0 /\ y[fi] = files[fi].totalSize
            /\ \A k \in 1..Len(files) : k # fi => x[k] = y[k]
        BY <2>4
      <3>3. fi \in 1..Len(files)
        BY <1>0, <2>1
      <3> HIDE DEF x, y
      <3>4. Total(y) = Total(x) - x[fi] + y[fi]
        BY <3>1, <3>2, <3>3, TotalChange
      <3>5. Total(y) = Total(x) - 0 + files[fi].totalSize
        BY <3>2, <3>4
      <3> QED BY <3>5 DEF x, y
    <2>6. total = Total(Planned(files)) /\ total \in Nat /\ files[fi].totalSize \in Nat
      <3>1. files[fi] \in FileAssembly
        BY <1>0, <2>1
      <3> QED BY <2>1, <3>1, IntAssumption DEF BuffersPlanned, IInv, TypeOK, Uint, FileAssembly
    <2>7. total' = Total(Planned(files'))
      BY <2>1, <2>5, <2>6
    <2>8. \A i \in DOMAIN files : i < fi' => i < fi \/ i = fi
      BY <1>0, <2>1
    <2>9. \A i \in DOMAIN files : i >= fi' => i >= fi /\ i # fi
      BY <1>0, <2>1
    <2>10. ASSUME NEW i \in DOMAIN files
           PROVE  /\ i >= fi' => ~files'[i].assemble
                  /\ files'[i].data = <<>>
                  /\ files'[i].assemble => ~files'[i].failed /\ ~files'[i].skip
                  /\ i < fi' => Decided(i, files[i])'
      <3>1. CASE i = fi
        BY <2>1, <2>2, <2>8, <2>9, <3>1 DEF BuffersPlanned, Decided
      <3>2. CASE i # fi
        BY <2>1, <2>2, <2>8, <2>9, <3>2 DEF BuffersPlanned, Decided
      <3> QED BY <3>1, <3>2
    <2> QED BY <2>1, <2>2, <2>7, <2>10 DEF BuffersPlanned, Total
  <1>3. CASE RefuseFile
    <2>1. /\ pc = "plan" /\ pc' = pc /\ fi' = fi + 1 /\ total' = total
          /\ archive' = archive /\ verifyOnly' = verifyOnly /\ fi \in DOMAIN files
          /\ files' = markFailure(files, {fi}, "LimitExceeded") /\ ~files[fi].assemble
      BY <1>0, <1>3, FileTypes DEF RefuseFile, MoreFiles, BuffersPlanned
    <2>2. DOMAIN files' = DOMAIN files /\ \A i \in DOMAIN files : i # fi => files'[i] = files[i]
      BY <2>1 DEF markFailure
    <2> DEFINE f == files'[fi]
    <2>3. /\ f.assemble = files[fi].assemble /\ f.data = files[fi].data
          /\ f.failed = (files[fi].failed \/ fi \in {fi})
      BY <1>0, <2>1, MarkFailureFields
    <2> HIDE DEF f
    <2>4. ~f.assemble /\ f.data = <<>> /\ Decided(fi, f)
      BY <2>1, <2>3 DEF BuffersPlanned, Decided
    <2>5. ~files'[fi].assemble /\ files'[fi].data = <<>> /\ Decided(fi, files'[fi])
      BY <2>4 DEF f
    <2>6. ASSUME NEW i \in DOMAIN files
          PROVE  (IF files'[i].assemble THEN files'[i].totalSize ELSE 0)
                   = (IF files[i].assemble THEN files[i].totalSize ELSE 0)
      BY <2>1, <2>2, <2>5
    <2>7. Planned(files') = Planned(files)
      BY <2>2, <2>6 DEF Planned
    <2>8. \A i \in DOMAIN files : i < fi' => i < fi \/ i = fi
      BY <1>0, <2>1
    <2>9. \A i \in DOMAIN files : i >= fi' => i >= fi /\ i # fi
      BY <1>0, <2>1
    <2>10. ASSUME NEW i \in DOMAIN files
           PROVE  /\ i >= fi' => ~files'[i].assemble
                  /\ files'[i].data = <<>>
                  /\ files'[i].assemble => ~files'[i].failed /\ ~files'[i].skip
                  /\ i < fi' => Decided(i, files[i])'
      <3>1. CASE i = fi
        BY <2>1, <2>5, <3>1 DEF Decided
      <3>2. CASE i # fi
        BY <2>1, <2>2, <2>8, <2>9, <3>2 DEF BuffersPlanned, Decided
      <3> QED BY <3>1, <3>2
    <2> QED BY <2>1, <2>2, <2>7, <2>10 DEF BuffersPlanned, Total
  <1>4. CASE EndPlan
    <2>1. /\ pc = "plan" /\ pc' = "reserve" /\ files' = files /\ total' = total
          /\ archive' = archive /\ verifyOnly' = verifyOnly /\ fi > Len(files)
      BY <1>0, <1>4 DEF EndPlan, MoreFiles
    <2>2. \A i \in DOMAIN files : i < fi
      BY <1>0, <2>1
    <2> QED BY <2>1, <2>2 DEF BuffersPlanned, Decided, Total
  <1>5. CASE ReserveOutput
    <2>1. /\ pc = "reserve" /\ pc' = "group" /\ total' = total /\ DOMAIN files' = DOMAIN files
          /\ archive' = archive /\ verifyOnly' = verifyOnly /\ total = Total(Planned(files))
      BY <1>5 DEF ReserveOutput, BuffersPlanned
    <2>2. ASSUME NEW i \in DOMAIN files
          PROVE  /\ files'[i].assemble = files[i].assemble /\ files'[i].skip = files[i].skip
                 /\ files'[i].failed = files[i].failed
                 /\ files'[i].totalSize = files[i].totalSize
                 /\ ~files[i].assemble => files'[i].data = <<>> /\ Len(files'[i].data) = 0
                 /\ files[i].assemble => Len(files'[i].data) = files[i].totalSize
                 /\ Decided(i, files[i])
      <3> DEFINE d == [k \in 1..files[i].totalSize |-> Zero]
      <3>1. files'[i] = IF HasBuffer(i) THEN [files[i] EXCEPT !.data = d] ELSE files[i]
        BY <1>5 DEF ReserveOutput
      <3>2. HasBuffer(i) <=> files[i].assemble
        BY <2>1 DEF HasBuffer, BuffersPlanned
      <3>3. files[i].data = <<>> /\ Decided(i, files[i])
        BY <2>1 DEF BuffersPlanned
      <3>4. files[i] \in FileAssembly /\ files[i].totalSize \in Nat
        BY <1>0, IntAssumption DEF FileAssembly, Uint
      <3>5. Len(d) = files[i].totalSize
        BY <3>4
      <3> HIDE DEF d
      <3> QED BY <3>1, <3>2, <3>3, <3>4, <3>5 DEF FileAssembly
    <2>3. Buffers(files') = Planned(files)
      BY <2>1, <2>2 DEF Buffers, Planned
    <2> QED BY <2>1, <2>2, <2>3 DEF BuffersPlanned, Decided, Total
  <1>6. CASE RefuseOutput
    <2> DEFINE assembled == {i \in DOMAIN files : files[i].assemble}
               marked == markFailure(files, assembled, "LimitExceeded")
    <2>1. /\ pc = "reserve" /\ pc' = "group" /\ total' = 0
          /\ archive' = archive /\ verifyOnly' = verifyOnly
          /\ files' = [i \in DOMAIN files |-> [marked[i] EXCEPT !.assemble = FALSE]]
      BY <1>6 DEF RefuseOutput
    <2>2. marked \in Seq(FileAssembly) /\ DOMAIN marked = DOMAIN files
      BY <1>0, MarkFailureType DEF markFailure
    <2>3. ASSUME NEW i \in DOMAIN files
          PROVE  /\ ~files'[i].assemble /\ files'[i].data = <<>>
                 /\ Decided(i, files'[i])
      <3> DEFINE f == marked[i]
      <3>1. /\ f.skip = files[i].skip /\ f.data = files[i].data
            /\ f.failed = (files[i].failed \/ i \in assembled)
        BY <1>0, MarkFailureFields
      <3>2. f \in FileAssembly
        BY <2>2
      <3>3. files[i].data = <<>> /\ Decided(i, files[i])
        BY <2>1 DEF BuffersPlanned
      <3>4. i \in assembled <=> files[i].assemble
        OBVIOUS
      <3>5. files'[i] = [f EXCEPT !.assemble = FALSE]
        BY <2>1
      <3> HIDE DEF f, assembled, marked
      <3>6. /\ files'[i].assemble = FALSE /\ files'[i].data = f.data
            /\ files'[i].skip = f.skip /\ files'[i].failed = f.failed
        BY <3>2, <3>5 DEF FileAssembly
      <3> QED BY <3>1, <3>3, <3>4, <3>6 DEF Decided
    <2>4. DOMAIN files' = 1..Len(files)
      BY <1>0, <2>1
    <2> HIDE DEF assembled, marked
    <2>5. Buffers(files') = [i \in 1..Len(files) |-> 0]
      BY <2>3, <2>4, <1>0 DEF Buffers
    <2>6. Total(Buffers(files')) = 0
      <3> DEFINE x == [i \in 1..Len(files) |-> 0]
      <3>1. x \in Seq(Nat) /\ \A k \in 1..Len(x) : x[k] = 0
        BY <1>0
      <3> HIDE DEF x
      <3>2. Total(x) = 0
        BY <3>1, TotalOfZeros
      <3> QED BY <2>5, <3>2 DEF x
    <2> QED BY <1>0, <2>1, <2>3, <2>4, <2>6 DEF BuffersPlanned, Decided, Total
  <1> QED BY <1>1, <1>2, <1>3, <1>4, <1>5, <1>6 DEF PlanActions

LEMMA DecodeBuffersPlanned ==
  ASSUME IInv, BuffersPlanned, DecodeActions \/ ReportActions
  PROVE  BuffersPlanned'
  <1>1. /\ Decoding /\ (Decoding' \/ pc' = "done") /\ archive' = archive
        /\ verifyOnly' = verifyOnly /\ total' = total /\ SameFiles
    BY DecodeFrame DEF inputs
  <1>2. Buffers(files') = Buffers(files)
    BY <1>1 DEF Buffers, SameFiles, SameFile
  <1>3. ASSUME NEW i \in DOMAIN files, Decided(i, files[i]) PROVE Decided(i, files[i])'
    BY <1>1, <1>3 DEF Decided, SameFiles, SameFile
  <1>4. ~Building' /\ ~Planning' /\ pc' # "sort" /\ pc' # "plan" /\ pc' # "reserve"
    BY <1>1 DEF Building, Planning, Decoding
  <1>5. ASSUME NEW i \in DOMAIN files
        PROVE  /\ ~files'[i].assemble => files'[i].data = <<>>
               /\ files'[i].assemble => Len(files'[i].data) = files'[i].totalSize
               /\ Decided(i, files[i])'
    BY <1>1, <1>3 DEF BuffersPlanned, SameFiles, SameFile
  <1>6. total' = Total(Buffers(files'))
    BY <1>1, <1>2 DEF BuffersPlanned
  <1> QED BY <1>1, <1>4, <1>5, <1>6 DEF BuffersPlanned, SameFiles, Total

LEMMA NextBuffersPlanned == IInv /\ BuffersPlanned /\ [Next]_vars => BuffersPlanned'
  <1> SUFFICES ASSUME IInv, BuffersPlanned, [Next]_vars PROVE BuffersPlanned'
    OBVIOUS
  <1>1. CASE UNCHANGED vars
    BY <1>1 DEF vars, inputs, plan, BuffersPlanned, Building, Planning, Decoding, Decided,
                Planned, Buffers, Total, Sums
  <1> QED BY <1>1, EarlyBuffersPlanned, PlanBuffersPlanned, DecodeBuffersPlanned
          DEF Next, Returned, Step, StartActions, FileActions, SortActions, PlanActions,
              DecodeActions, ReportActions

LEMMA SpecPlan == Spec => [](IInv /\ FilesBuilt /\ BuffersPlanned)
  BY InitBegun, InitIInv, NextIInv, InitFilesBuilt, NextFilesBuilt, InitBuffersPlanned, NextBuffersPlanned,
     PTL DEF Spec

\* The output part of the budget is the memory of the buffers, whatever the
\* files, the limit and the errors.
THEOREM OutputReserved == Spec => []OutputIsReserved
  <1>1. BuffersPlanned => OutputIsReserved
    BY DEF BuffersPlanned, OutputIsReserved, Decoding, Buffers
  <1> QED BY <1>1, SpecPlan, PTL

-----------------------------------------------------------------------------
(* Where the segments of a file are.                                       *)

\* The refs of file i in the groups, by group and position.
Slots(gs, i) ==
  UNION {{<<g, k>> : k \in {k \in DOMAIN gs[g].refs : gs[g].refs[k].file = i}} : g \in DOMAIN gs}

\* The ref in a slot is the one of part k of file i, in the group of its chunk.
HoldsPart(gs, r, i, k) ==
  LET x == gs[r[1]].refs[r[2]]
  IN  /\ x.entry = Entry(Parts(i)[k])
      /\ x.dest = PartEnds(i)[k - 1]
      /\ gs[r[1]].chunk = x.entry.chunk

\* part tells which of the first n parts of file i each of its refs is.
Placement(gs, i, n, part) ==
  /\ part \in [Slots(gs, i) -> 1..n]
  /\ \A r \in Slots(gs, i) : HoldsPart(gs, r, i, part[r])
  /\ \A k \in 1..n : \E r \in Slots(gs, i) : part[r] = k /\ \A q \in Slots(gs, i) : part[q] = k => q = r

\* The parts of file i that have been entered into groups.
Entered(i) ==
  IF Building /\ i >= fi THEN IF pc = "refs" /\ i = fi THEN li - 1 ELSE 0
  ELSE IF External(i) \/ ~Located(i) THEN 0 ELSE Len(Parts(i))

\* The refs of a group are in the order of the files, and after the sort in
\* the order of their offsets first.
InFileOrder(refs) == \A j, k \in DOMAIN refs : j < k => refs[j].file <= refs[k].file
InOffsetOrder(refs) ==
  \A j, k \in DOMAIN refs :
    j < k => \/ refs[j].entry.offset < refs[k].entry.offset
             \/ refs[j].entry.offset = refs[k].entry.offset /\ refs[j].file <= refs[k].file

UniqueChunks(gs) == \A g, h \in DOMAIN gs : gs[g].chunk = gs[h].chunk => g = h

\* One group for each chunk, the segments entered so far in it, sorted as far
\* as the sort has come.
SegmentsPlaced ==
  archiveErr = "none" =>
    /\ UniqueChunks(groups)
    /\ \A i \in DOMAIN files : \E part : Placement(groups, i, Entered(i), part)
    /\ \A g \in DOMAIN groups :
         /\ Building \/ (pc = "sort" /\ g >= gi) => InFileOrder(groups[g].refs)
         /\ ~Building /\ (pc = "sort" => g < gi) => InOffsetOrder(groups[g].refs)
         /\ Building => \A k \in DOMAIN groups[g].refs : groups[g].refs[k].file <= fi
    /\ pc = "start" => groups = <<>>

LEMMA SlotsMember ==
  ASSUME NEW gs, NEW i
  PROVE  /\ \A g, k : <<g, k>> \in Slots(gs, i) <=>
                        g \in DOMAIN gs /\ k \in DOMAIN gs[g].refs /\ gs[g].refs[k].file = i
         /\ \A r \in Slots(gs, i) : r = <<r[1], r[2]>>
  <1> DEFINE of(g) == {k \in DOMAIN gs[g].refs : gs[g].refs[k].file = i}
             in(g) == {<<g, k>> : k \in of(g)}
  <1>1. Slots(gs, i) = UNION {in(g) : g \in DOMAIN gs}
    BY DEF Slots
  <1>2. \A r : r \in Slots(gs, i) <=> \E g \in DOMAIN gs : r \in in(g)
    <2> HIDE DEF in
    <2> QED BY <1>1
  <1>3. \A r, g : r \in in(g) <=> \E k \in of(g) : r = <<g, k>>
    <2> HIDE DEF of
    <2> QED OBVIOUS
  <1>4. \A g, k : k \in of(g) <=> k \in DOMAIN gs[g].refs /\ gs[g].refs[k].file = i
    OBVIOUS
  <1> HIDE DEF of, in
  <1>5. \A g, k, h, m : <<g, k>> = <<h, m>> <=> g = h /\ k = m
    OBVIOUS
  <1>6. \A g, k : <<g, k>> \in Slots(gs, i) <=> g \in DOMAIN gs /\ k \in of(g)
    BY <1>2, <1>3, <1>5
  <1>7. ASSUME NEW r \in Slots(gs, i) PROVE r = <<r[1], r[2]>>
    <2>1. \E g, k : r = <<g, k>>
      BY <1>2, <1>3
    <2> QED BY <2>1
  <1> QED BY <1>4, <1>6, <1>7

\* gs becomes new when ref r enters the group of chunk c: one slot more, at
\* the end of its group, and the rest as it was.
Adds(gs, new, c, r, g0, k0) ==
  /\ g0 \in DOMAIN new /\ new[g0].chunk = c
  /\ k0 \in DOMAIN new[g0].refs /\ new[g0].refs[k0] = r
  /\ ~(g0 \in DOMAIN gs /\ k0 \in DOMAIN gs[g0].refs)
  /\ \A g, k : g \in DOMAIN new /\ k \in DOMAIN new[g].refs <=>
                 (g \in DOMAIN gs /\ k \in DOMAIN gs[g].refs) \/ (g = g0 /\ k = k0)
  /\ \A g \in DOMAIN gs : /\ new[g].chunk = gs[g].chunk
                          /\ \A k \in DOMAIN gs[g].refs : new[g].refs[k] = gs[g].refs[k]
  /\ g0 \in DOMAIN gs => \A k \in DOMAIN gs[g0].refs : k < k0

LEMMA WithRefAdds ==
  ASSUME NEW gs \in Seq(ChunkGroup), NEW c \in Chunk, NEW r \in SegmentRef, UniqueChunks(gs),
         NEW new, new = WithRef(gs, c, r)
  PROVE  UniqueChunks(new) /\ \E g0, k0 : Adds(gs, new, c, r, g0, k0)
  <1>0. /\ Len(gs) \in Nat /\ DOMAIN gs = 1..Len(gs)
        /\ \A g \in DOMAIN gs : gs[g] \in ChunkGroup
    OBVIOUS
  <1>1. \A g \in DOMAIN gs : gs[g].refs \in Seq(SegmentRef)
    BY <1>0 DEF ChunkGroup
  <1>2. CASE \E g \in DOMAIN gs : gs[g].chunk = c
    <2>1. PICK g0 \in DOMAIN gs : gs[g0].chunk = c
      BY <1>2
    <2> DEFINE refs == gs[g0].refs
               k0 == Len(refs) + 1
    <2>2. \A g \in DOMAIN gs : gs[g].chunk = c <=> g = g0
      BY <2>1 DEF UniqueChunks
    <2>3. /\ DOMAIN new = DOMAIN gs
          /\ \A g \in DOMAIN gs : new[g] = IF gs[g].chunk = c THEN [gs[g] EXCEPT !.refs = Append(gs[g].refs, r)]
                                           ELSE gs[g]
      BY <1>2 DEF WithRef
    <2>4. \A g \in DOMAIN gs : g # g0 => new[g] = gs[g]
      BY <2>2, <2>3
    <2>5. refs \in Seq(SegmentRef) /\ Len(refs) \in Nat /\ DOMAIN refs = 1..Len(refs) /\ gs[g0] \in ChunkGroup
      BY <1>0, <1>1
    <2>6. new[g0] = [gs[g0] EXCEPT !.refs = Append(refs, r)]
      BY <2>1, <2>3
    <2> HIDE DEF refs
    <2>7. new[g0].chunk = gs[g0].chunk /\ new[g0].refs = Append(refs, r)
      BY <2>5, <2>6 DEF ChunkGroup
    <2>8. /\ DOMAIN new[g0].refs = 1..k0 /\ new[g0].refs[k0] = r
          /\ \A k \in DOMAIN refs : new[g0].refs[k] = refs[k]
      BY <2>5, <2>7
    <2>9. \A k : k \in 1..k0 <=> k \in DOMAIN refs \/ k = k0
      BY <2>5
    <2>10. k0 \notin DOMAIN refs /\ \A k \in DOMAIN refs : k < k0
      BY <2>5
    <2> HIDE DEF k0
    <2>11. Adds(gs, new, c, r, g0, k0)
      BY <2>1, <2>3, <2>4, <2>7, <2>8, <2>9, <2>10 DEF Adds, refs
    <2>12. UniqueChunks(new)
      BY <2>3, <2>4, <2>7 DEF UniqueChunks
    <2> QED BY <2>11, <2>12
  <1>3. CASE ~ \E g \in DOMAIN gs : gs[g].chunk = c
    <2> DEFINE g0 == Len(gs) + 1
               x == [chunk |-> c, refs |-> <<r>>]
    <2>1. new = Append(gs, x)
      BY <1>3 DEF WithRef
    <2> HIDE DEF x
    <2>2. /\ DOMAIN new = 1..g0 /\ new[g0] = x /\ \A g \in DOMAIN gs : new[g] = gs[g]
      <3>1. x \in ChunkGroup
        BY DEF x, ChunkGroup
      <3> QED BY <1>0, <2>1, <3>1
    <2>3. x.chunk = c /\ x.refs = <<r>> /\ DOMAIN x.refs = {1} /\ x.refs[1] = r
      BY DEF x
    <2>4. g0 \notin DOMAIN gs /\ \A g : g \in 1..g0 <=> g \in DOMAIN gs \/ g = g0
      BY <1>0
    <2> HIDE DEF g0
    <2>5. Adds(gs, new, c, r, g0, 1)
      BY <2>2, <2>3, <2>4 DEF Adds
    <2>6. UniqueChunks(new)
      BY <1>3, <2>2, <2>3, <2>4 DEF UniqueChunks
    <2> QED BY <2>5, <2>6
  <1> QED BY <1>2, <1>3

\* A ref of another file changes nothing for file i.
LEMMA OtherPlaced ==
  ASSUME NEW gs, NEW new, NEW c, NEW r, NEW g0, NEW k0, Adds(gs, new, c, r, g0, k0),
         NEW i, i # r.file, NEW n, NEW part, Placement(gs, i, n, part)
  PROVE  Placement(new, i, n, part)
  <1>1. ASSUME NEW g, NEW k
        PROVE  <<g, k>> \in Slots(new, i) <=> <<g, k>> \in Slots(gs, i)
    BY SlotsMember DEF Adds
  <1>2. Slots(new, i) = Slots(gs, i)
    <2>1. \A s \in Slots(new, i) : s = <<s[1], s[2]>>
      BY SlotsMember
    <2>2. \A s \in Slots(gs, i) : s = <<s[1], s[2]>>
      BY SlotsMember
    <2> QED BY <1>1, <2>1, <2>2
  <1>3. ASSUME NEW s \in Slots(gs, i), NEW k, HoldsPart(gs, s, i, k)
        PROVE  HoldsPart(new, s, i, k)
    <2>1. <<s[1], s[2]>> \in Slots(gs, i)
      BY SlotsMember
    <2>2. s[1] \in DOMAIN gs /\ s[2] \in DOMAIN gs[s[1]].refs
      BY <2>1, SlotsMember
    <2> QED BY <1>3, <2>2 DEF Adds, HoldsPart
  <1> QED BY <1>2, <1>3 DEF Placement

\* The ref of the next part of file i is the slot of this part.
LEMMA NextPlaced ==
  ASSUME NEW gs, NEW new, NEW c, NEW r, NEW g0, NEW k0, Adds(gs, new, c, r, g0, k0),
         NEW i, i = r.file, NEW n \in Nat, NEW part, Placement(gs, i, n, part),
         r.entry = Entry(Parts(i)[n + 1]), r.dest = PartEnds(i)[n], c = r.entry.chunk
  PROVE  \E p : Placement(new, i, n + 1, p)
  <1> DEFINE s0 == <<g0, k0>>
             p == [s \in Slots(new, i) |-> IF s = s0 THEN n + 1 ELSE part[s]]
  <1>1. ASSUME NEW g, NEW k
        PROVE  <<g, k>> \in Slots(new, i) <=> <<g, k>> \in Slots(gs, i) \/ <<g, k>> = s0
    BY SlotsMember DEF Adds
  <1>2. /\ \A s \in Slots(new, i) : s = <<s[1], s[2]>>
        /\ \A s \in Slots(gs, i) : s = <<s[1], s[2]>>
    BY SlotsMember
  <1>3. \A s : s \in Slots(new, i) <=> s \in Slots(gs, i) \/ s = s0
    BY <1>1, <1>2
  <1>4. s0 \notin Slots(gs, i)
    BY SlotsMember DEF Adds
  <1>5. ASSUME NEW s \in Slots(gs, i), NEW k, HoldsPart(gs, s, i, k)
        PROVE  HoldsPart(new, s, i, k)
    <2>1. <<s[1], s[2]>> \in Slots(gs, i)
      BY SlotsMember
    <2>2. s[1] \in DOMAIN gs /\ s[2] \in DOMAIN gs[s[1]].refs
      BY <2>1, SlotsMember
    <2> QED BY <1>5, <2>2 DEF Adds, HoldsPart
  <1>6. HoldsPart(new, s0, i, n + 1)
    <2>1. s0[1] = g0 /\ s0[2] = k0 /\ (n + 1) - 1 = n
      OBVIOUS
    <2> HIDE DEF s0
    <2> QED BY <2>1 DEF Adds, HoldsPart
  <1> HIDE DEF s0
  <1>7. /\ \A s \in Slots(gs, i) : part[s] \in 1..n /\ HoldsPart(gs, s, i, part[s])
        /\ \A k \in 1..n : \E s \in Slots(gs, i) : part[s] = k /\ \A q \in Slots(gs, i) : part[q] = k => q = s
    BY DEF Placement
  <1>8. \A k : k \in 1..(n + 1) <=> k \in 1..n \/ k = n + 1
    OBVIOUS
  <1>9. n + 1 \notin 1..n
    OBVIOUS
  <1>10. p \in [Slots(new, i) -> 1..(n + 1)]
    BY <1>3, <1>7, <1>8
  <1>11. /\ \A s \in Slots(gs, i) : p[s] = part[s] /\ p[s] # n + 1
         /\ p[s0] = n + 1
    BY <1>3, <1>4, <1>7, <1>9
  <1> HIDE DEF p
  <1>12. \A s \in Slots(new, i) : HoldsPart(new, s, i, p[s])
    BY <1>3, <1>5, <1>6, <1>7, <1>11
  <1>13. ASSUME NEW k \in 1..(n + 1)
         PROVE  \E s \in Slots(new, i) : p[s] = k /\ \A q \in Slots(new, i) : p[q] = k => q = s
    <2>1. CASE k \in 1..n
      <3>1. PICK s \in Slots(gs, i) : part[s] = k /\ \A q \in Slots(gs, i) : part[q] = k => q = s
        BY <1>7, <2>1
      <3> QED BY <1>3, <1>9, <1>11, <2>1, <3>1
    <2>2. CASE k = n + 1
      BY <1>3, <1>11, <2>2
    <2> QED BY <1>8, <2>1, <2>2
  <1>14. Placement(new, i, n + 1, p)
    BY <1>10, <1>12, <1>13 DEF Placement
  <1> QED BY <1>14

-----------------------------------------------------------------------------
(* The stable sort.                                                        *)

\* A stable order reaches every index, and no index twice.
LEMMA StableOrderOnto ==
  ASSUME NEW refs \in Seq(SegmentRef), NEW order \in StableOrders(refs)
  PROVE  /\ order \in [DOMAIN refs -> DOMAIN refs]
         /\ \A j, k \in DOMAIN refs : order[j] = order[k] => j = k
         /\ \A k \in DOMAIN refs : \E j \in DOMAIN refs : order[j] = k
  <1> DEFINE S == DOMAIN refs
  <1>1. S = 1..Len(refs) /\ Len(refs) \in Nat
    OBVIOUS
  <1>2. /\ order \in [S -> S]
        /\ \A j, k \in S : j < k =>
             \/ refs[order[j]].entry.offset < refs[order[k]].entry.offset
             \/ order[j] < order[k]
    BY DEF StableOrders
  <1>3. \A j \in S : refs[order[j]].entry.offset \in Nat
    <2>1. \A k \in S : refs[k] \in SegmentRef
      OBVIOUS
    <2>2. \A k \in S : refs[k].entry \in DataEntry
      BY <2>1 DEF SegmentRef
    <2>3. \A k \in S : refs[k].entry.offset \in Nat
      BY <2>2, IntAssumption DEF DataEntry, Uint
    <2> QED BY <1>2, <2>3
  <1> HIDE DEF S
  <1>4. ASSUME NEW j \in S, NEW k \in S, j < k PROVE order[j] # order[k]
    <2>1. order[j] \in Nat /\ order[k] \in Nat
      <3>1. order[j] \in S /\ order[k] \in S
        BY <1>2
      <3> QED BY <1>1, <3>1
    <2> QED BY <1>2, <1>3, <1>4, <2>1
  <1>5. ASSUME NEW j \in S, NEW k \in S, order[j] = order[k] PROVE j = k
    <2>1. j \in Nat /\ k \in Nat
      BY <1>1
    <2>2. ~(j < k) /\ ~(k < j)
      BY <1>4, <1>5
    <2> QED BY <2>1, <2>2
  <1>6. order \in Injection(S, S)
    BY <1>2, <1>5 DEF Injection, IsInjective
  <1>7. IsFiniteSet(S)
    BY <1>1, FS_Interval
  <1>8. order \in Surjection(S, S)
    BY <1>6, <1>7, FS_Injection
  <1>9. \A k \in S : \E j \in S : order[j] = k
    BY <1>8 DEF Surjection
  <1> QED BY <1>2, <1>5, <1>9 DEF S

\* new is gs with the refs of group g in another order.
Reorders(gs, new, g, order) ==
  /\ DOMAIN new = DOMAIN gs
  /\ \A h \in DOMAIN gs : new[h].chunk = gs[h].chunk
  /\ \A h \in DOMAIN gs : h # g => new[h].refs = gs[h].refs
  /\ new[g].refs = [k \in DOMAIN gs[g].refs |-> gs[g].refs[order[k]]]

\* Every part is still in one slot.
LEMMA SortedPlaced ==
  ASSUME NEW gs, NEW new, NEW g \in DOMAIN gs, NEW order, Reorders(gs, new, g, order),
         LET S == DOMAIN gs[g].refs
         IN  /\ order \in [S -> S]
             /\ \A j, k \in S : order[j] = order[k] => j = k
             /\ \A k \in S : \E j \in S : order[j] = k,
         NEW i, NEW n, NEW part, Placement(gs, i, n, part)
  PROVE  \E p : Placement(new, i, n, p)
  <1> DEFINE S == DOMAIN gs[g].refs
             old(s) == IF s[1] = g THEN <<g, order[s[2]]>> ELSE s
             p == [s \in Slots(new, i) |-> part[old(s)]]
  <1>1. /\ order \in [S -> S] /\ \A j, k \in S : order[j] = order[k] => j = k
        /\ \A k \in S : \E j \in S : order[j] = k
    OBVIOUS
  <1>2. /\ DOMAIN new = DOMAIN gs
        /\ \A h \in DOMAIN gs : new[h].chunk = gs[h].chunk /\ (h # g => new[h].refs = gs[h].refs)
        /\ DOMAIN new[g].refs = S
        /\ \A k \in S : new[g].refs[k] = gs[g].refs[order[k]]
    BY DEF Reorders
  <1> HIDE DEF S
  <1>3. ASSUME NEW h, NEW k
        PROVE  <<h, k>> \in Slots(new, i) <=>
                 IF h = g THEN k \in S /\ <<g, order[k]>> \in Slots(gs, i)
                 ELSE <<h, k>> \in Slots(gs, i)
    <2>1. <<h, k>> \in Slots(new, i) <=>
            h \in DOMAIN new /\ k \in DOMAIN new[h].refs /\ new[h].refs[k].file = i
      BY SlotsMember
    <2>2. <<h, k>> \in Slots(gs, i) <=>
            h \in DOMAIN gs /\ k \in DOMAIN gs[h].refs /\ gs[h].refs[k].file = i
      BY SlotsMember
    <2>3. <<g, order[k]>> \in Slots(gs, i) <=> order[k] \in S /\ gs[g].refs[order[k]].file = i
      BY SlotsMember DEF S
    <2>4. CASE h = g
      BY <1>1, <1>2, <2>1, <2>3, <2>4
    <2>5. CASE h # g
      BY <1>2, <2>1, <2>2, <2>5
    <2> QED BY <2>4, <2>5
  <1>4. ASSUME NEW s \in Slots(new, i)
        PROVE  /\ old(s) \in Slots(gs, i)
               /\ \A k : HoldsPart(gs, old(s), i, k) => HoldsPart(new, s, i, k)
    <2>1. s = <<s[1], s[2]>> /\ <<s[1], s[2]>> \in Slots(new, i)
      BY SlotsMember
    <2>2. CASE s[1] = g
      <3>1. s[2] \in S /\ <<g, order[s[2]]>> \in Slots(gs, i) /\ old(s) = <<g, order[s[2]]>>
        BY <1>3, <2>1, <2>2
      <3>2. old(s)[1] = g /\ old(s)[2] = order[s[2]]
        BY <3>1
      <3> HIDE DEF old
      <3> QED BY <1>2, <2>2, <3>1, <3>2 DEF HoldsPart
    <2>3. CASE s[1] # g
      <3>3. <<s[1], s[2]>> \in Slots(gs, i)
        BY <1>3, <2>1, <2>3
      <3>1. old(s) = s /\ s \in Slots(gs, i)
        BY <2>1, <2>3, <3>3
      <3>2. s[1] \in DOMAIN gs
        BY <2>1, <3>1, SlotsMember
      <3> HIDE DEF old
      <3> QED BY <1>2, <2>3, <3>1, <3>2 DEF HoldsPart
    <2> QED BY <2>2, <2>3
  <1>5. ASSUME NEW q \in Slots(gs, i)
        PROVE  \E s \in Slots(new, i) : old(s) = q
    <2>1. q = <<q[1], q[2]>> /\ <<q[1], q[2]>> \in Slots(gs, i)
      BY SlotsMember
    <2>2. CASE q[1] = g
      <3>1. q[2] \in S
        BY <2>1, <2>2, SlotsMember DEF S
      <3>2. PICK k \in S : order[k] = q[2]
        BY <1>1, <3>1
      <3>3. <<g, k>> \in Slots(new, i)
        BY <1>3, <2>1, <2>2, <3>2
      <3>4. old(<<g, k>>) = q
        BY <2>1, <2>2, <3>2
      <3> QED BY <3>3, <3>4
    <2>3. CASE q[1] # g
      <3>1. <<q[1], q[2]>> \in Slots(new, i)
        BY <1>3, <2>1, <2>3
      <3> QED BY <2>1, <2>3, <3>1
    <2> QED BY <2>2, <2>3
  <1>6. ASSUME NEW s \in Slots(new, i), NEW t \in Slots(new, i), old(s) = old(t)
        PROVE  s = t
    <2>1. /\ s = <<s[1], s[2]>> /\ <<s[1], s[2]>> \in Slots(new, i)
          /\ t = <<t[1], t[2]>> /\ <<t[1], t[2]>> \in Slots(new, i)
      BY SlotsMember
    <2>2. CASE s[1] = g
      <3>1. old(s) = <<g, order[s[2]]>> /\ s[2] \in S
        BY <1>3, <2>1, <2>2
      <3>2. t[1] = g
        BY <1>6, <3>1
      <3>3. old(t) = <<g, order[t[2]]>> /\ t[2] \in S
        BY <1>3, <2>1, <3>2
      <3>4. order[s[2]] = order[t[2]]
        BY <1>6, <3>1, <3>3
      <3> QED BY <1>1, <2>1, <2>2, <3>1, <3>2, <3>3, <3>4
    <2>3. CASE s[1] # g
      <3>1. old(s) = s
        BY <2>3
      <3>2. t[1] # g
        BY <1>6, <2>3, <3>1
      <3> QED BY <1>6, <3>1, <3>2
    <2> QED BY <2>2, <2>3
  <1> HIDE DEF old
  <1>7. /\ part \in [Slots(gs, i) -> 1..n]
        /\ \A q \in Slots(gs, i) : HoldsPart(gs, q, i, part[q])
        /\ \A k \in 1..n : \E q \in Slots(gs, i) : part[q] = k /\ \A r \in Slots(gs, i) : part[r] = k => r = q
    BY DEF Placement
  <1>8. p \in [Slots(new, i) -> 1..n] /\ \A s \in Slots(new, i) : p[s] = part[old(s)]
    BY <1>4, <1>7
  <1> HIDE DEF p
  <1>9. \A s \in Slots(new, i) : HoldsPart(new, s, i, p[s])
    BY <1>4, <1>7, <1>8
  <1>10. ASSUME NEW k \in 1..n
         PROVE  \E s \in Slots(new, i) : p[s] = k /\ \A t \in Slots(new, i) : p[t] = k => t = s
    <2>1. PICK q \in Slots(gs, i) : part[q] = k /\ \A r \in Slots(gs, i) : part[r] = k => r = q
      BY <1>7
    <2>2. PICK s \in Slots(new, i) : old(s) = q
      BY <1>5
    <2>3. ASSUME NEW t \in Slots(new, i), p[t] = k PROVE t = s
      <3>1. part[old(t)] = k /\ old(t) \in Slots(gs, i)
        BY <1>4, <1>8, <2>3
      <3>2. old(t) = old(s)
        BY <2>1, <2>2, <3>1
      <3> QED BY <1>6, <3>2
    <2> QED BY <1>8, <2>1, <2>2, <2>3
  <1> QED BY <1>8, <1>9, <1>10 DEF Placement

\* Refs in file order are, after the stable sort, in the order of offsets.
LEMMA SortedInOrder ==
  ASSUME NEW refs \in Seq(SegmentRef), NEW order \in StableOrders(refs), InFileOrder(refs),
         NEW sorted, sorted = [k \in DOMAIN refs |-> refs[order[k]]]
  PROVE  InOffsetOrder(sorted)
  <1>1. order \in [DOMAIN refs -> DOMAIN refs]
    BY StableOrderOnto
  <1>2. \A j, k \in DOMAIN refs : j < k =>
          LET x == refs[order[j]].entry.offset
              y == refs[order[k]].entry.offset
          IN  x < y \/ (x = y /\ order[j] < order[k])
    BY DEF StableOrders
  <1>3. DOMAIN sorted = DOMAIN refs
    OBVIOUS
  <1> QED BY <1>1, <1>2, <1>3 DEF InFileOrder, InOffsetOrder

-----------------------------------------------------------------------------
(* SegmentsPlaced is kept by every step.                                   *)

LEMMA PlacementFixed ==
  ASSUME archive' = archive, NEW gs, NEW i, NEW n, NEW p
  PROVE  Placement(gs, i, n, p)' <=> Placement(gs, i, n, p)
  <1>1. \A s, k : HoldsPart(gs, s, i, k)' <=> HoldsPart(gs, s, i, k)
    BY ArchiveFixed DEF HoldsPart
  <1>2. Slots(gs, i)' = Slots(gs, i)
    BY DEF Slots
  <1> QED BY <1>1, <1>2 DEF Placement

LEMMA InitSegmentsPlaced == Begun => SegmentsPlaced
  <1> SUFFICES ASSUME Begun PROVE SegmentsPlaced
    OBVIOUS
  <1>1. /\ pc = "start" /\ fi = 1 /\ groups = <<>> /\ DOMAIN groups = {}
        /\ files = [i \in DOMAIN archive.files |-> FreshFile]
        /\ DOMAIN archive.files = 1..Len(archive.files)
    BY DEF Begun, Called, Archive
  <1>2. ASSUME NEW i \in DOMAIN files PROVE \E p : Placement(groups, i, Entered(i), p)
    <2>1. Entered(i) = 0
      BY <1>1 DEF Entered, Building
    <2>2. Slots(groups, i) = {}
      BY <1>1, SlotsMember
    <2>3. 1..0 = {} /\ [s \in {} |-> 0] \in [{} -> {}]
      OBVIOUS
    <2>4. Placement(groups, i, 0, [s \in {} |-> 0])
      BY <2>2, <2>3 DEF Placement
    <2> QED BY <2>1, <2>4
  <1> QED BY <1>1, <1>2 DEF SegmentsPlaced, UniqueChunks

\* Steps that leave the groups and what is entered alone.
LEMMA SegmentsStay ==
  ASSUME SegmentsPlaced, archive' = archive, archiveErr' = archiveErr, groups' = groups,
         DOMAIN files' = DOMAIN files, archiveErr = "none" /\ pc' = "start" => groups = <<>>,
         \A i \in DOMAIN files : Entered(i)' = Entered(i),
         archiveErr = "none" => \A g \in DOMAIN groups :
           /\ Building' \/ (pc' = "sort" /\ g >= gi') => InFileOrder(groups[g].refs)
           /\ ~Building' /\ (pc' = "sort" => g < gi') => InOffsetOrder(groups[g].refs)
           /\ Building' => \A k \in DOMAIN groups[g].refs : groups[g].refs[k].file <= fi'
  PROVE  SegmentsPlaced'
  <1> SUFFICES ASSUME archiveErr = "none" PROVE SegmentsPlaced'
    BY DEF SegmentsPlaced
  <1>1. ASSUME NEW i \in DOMAIN files PROVE \E p : Placement(groups, i, Entered(i), p)'
    <2>1. PICK p : Placement(groups, i, Entered(i), p)
      BY DEF SegmentsPlaced
    <2>2. Placement(groups, i, Entered(i), p)'
      BY <2>1, PlacementFixed
    <2> QED BY <2>2
  <1> QED BY <1>1 DEF SegmentsPlaced, UniqueChunks, InFileOrder, InOffsetOrder

\* Steps of buildGroups that enter no segment.
LEMMA FileStays ==
  ASSUME IInv, SegmentsPlaced, archive' = archive, archiveErr' = archiveErr,
         pc \in {"file", "total", "refs"}, pc' \in {"file", "total", "refs"},
         \/ fi' = fi
         \/ fi' = fi + 1 /\ pc' = "file",
         DOMAIN files' = DOMAIN files, groups' = groups,
         NEW f, f = fi, f \in DOMAIN files => Entered(f)' = Entered(f)
  PROVE  SegmentsPlaced'
  <1>1. fi \in Nat /\ \A i \in DOMAIN files : i \in Nat
    BY DEF IInv, TypeOK
  <1>2. ASSUME NEW i \in DOMAIN files PROVE Entered(i)' = Entered(i)
    <2>1. CASE i = f
      BY <2>1
    <2>2. CASE i # f
      <3>1. i >= fi <=> i >= fi'
        BY <1>1, <2>2
      <3>2. i # fi /\ ~(pc' = "refs" /\ i = fi')
        BY <2>2
      <3> QED BY <3>1, <3>2, ArchiveFixed DEF Entered, Building
    <2> QED BY <2>1, <2>2
  <1>3. ASSUME archiveErr = "none", NEW g \in DOMAIN groups, NEW k \in DOMAIN groups[g].refs
        PROVE  groups[g].refs[k].file <= fi'
    <2>1. groups[g].refs[k].file <= fi
      BY <1>3 DEF SegmentsPlaced, Building
    <2>2. groups[g].refs[k].file \in Nat
      <3>1. groups[g] \in ChunkGroup
        BY DEF IInv, TypeOK
      <3>2. groups[g].refs \in Seq(SegmentRef)
        BY <3>1 DEF ChunkGroup
      <3>3. groups[g].refs[k] \in SegmentRef
        BY <3>2
      <3> QED BY <3>3 DEF SegmentRef
    <2> QED BY <1>1, <2>1, <2>2
  <1>4. Building /\ Building' /\ pc' # "sort" /\ pc' # "start"
    BY DEF Building
  <1>5. archiveErr = "none" => \A g \in DOMAIN groups : InFileOrder(groups[g].refs)
    BY <1>4 DEF SegmentsPlaced
  <1> QED BY <1>2, <1>3, <1>4, <1>5, SegmentsStay

LEMMA StartSegments ==
  ASSUME IInv, FilesBuilt, SegmentsPlaced, StartActions
  PROVE  SegmentsPlaced'
  <1> USE DEF inputs, plan, decode, budget, outputs
  <1>1. CASE RejectArchive
    BY <1>1 DEF RejectArchive, SegmentsPlaced
  <1>2. CASE AcceptArchive
    <2>1. /\ pc = "start" /\ pc' = "file" /\ fi' = fi /\ files' = files /\ groups' = groups
          /\ archive' = archive /\ archiveErr' = archiveErr /\ fi = 1 /\ archiveErr = "none"
      BY <1>2 DEF AcceptArchive, FilesBuilt
    <2>2. groups = <<>> /\ DOMAIN groups = {}
      BY <2>1 DEF SegmentsPlaced
    <2>3. \A i \in DOMAIN files : i >= fi /\ i >= fi'
      BY <2>1 DEF IInv, TypeOK
    <2>4. \A i \in DOMAIN files : Entered(i)' = Entered(i)
      BY <2>1, <2>3 DEF Entered, Building
    <2> QED BY <2>1, <2>2, <2>4, SegmentsStay
  <1> QED BY <1>1, <1>2 DEF StartActions

\* The ref of the part the loop is at goes to the group of its chunk.
LEMMA AddRefSegments ==
  ASSUME IInv, FilesBuilt, SegmentsPlaced, AddRef
  PROVE  SegmentsPlaced'
  <1> USE DEF inputs, plan, decode, budget, outputs
  <1> DEFINE r == [file |-> fi, entry |-> Part, dest |-> dest]
             c == Part.chunk
  <1>1. pc = "refs" /\ MoreParts /\ archive' = archive /\ groups' = WithRef(groups, c, r)
    BY DEF AddRef
  <1>2. /\ Part.uncompressedSize <= MaxUint - dest
        /\ li \in 1..Len(Parts(fi)) /\ (li + 1) - 1 = li
        /\ Part = Entry(Parts(fi)[li]) /\ Part \in DataEntry
    BY <1>1, PartFits
  <1>3. pc' = pc /\ fi' = fi /\ files' = files /\ li' = li + 1 /\ archiveErr' = archiveErr
    BY <1>2 DEF AddRef
  <1>4. archiveErr = "none" /\ fi \in DOMAIN files /\ dest = PartEnds(fi)[li - 1]
    BY <1>1, PartLoop DEF FilesBuilt
  <1>5. /\ fi \in Nat \ {0} /\ li - 1 \in Nat /\ (li - 1) + 1 = li
        /\ groups \in Seq(ChunkGroup) /\ dest \in Uint /\ \A i \in DOMAIN files : i \in Nat
    BY <1>2 DEF IInv, TypeOK
  <1>6. c \in Chunk /\ r \in SegmentRef
    BY <1>2, <1>5 DEF DataEntry, SegmentRef
  <1>7. r.file = fi /\ r.entry = Part /\ r.dest = dest /\ r.entry.chunk = c
    OBVIOUS
  <1>8. UniqueChunks(groups)
    BY <1>4 DEF SegmentsPlaced
  <1> HIDE DEF r, c
  <1>9. UniqueChunks(groups') /\ \E g0, k0 : Adds(groups, groups', c, r, g0, k0)
    BY <1>1, <1>5, <1>6, <1>8, WithRefAdds
  <1>10. PICK g0, k0 : Adds(groups, groups', c, r, g0, k0)
    BY <1>9
  <1>11. ASSUME NEW i \in DOMAIN files PROVE \E p : Placement(groups, i, Entered(i), p)'
    <2>1. PICK part : Placement(groups, i, Entered(i), part)
      BY <1>4 DEF SegmentsPlaced
    <2>2. CASE i # fi
      <3>1. Placement(groups', i, Entered(i), part)
        BY <1>7, <1>10, <2>1, <2>2, OtherPlaced
      <3>2. Entered(i)' = Entered(i)
        BY <1>1, <1>3, <2>2, ArchiveFixed DEF Entered, Building
      <3>3. Placement(groups, i, Entered(i), part)'
        BY <1>1, <3>1, <3>2, PlacementFixed
      <3> QED BY <3>3
    <2>3. CASE i = fi
      <3>1. Entered(i) = li - 1 /\ Entered(i)' = li' - 1
        BY <1>1, <1>3, <1>5, <2>3 DEF Entered, Building
      <3>2. r.entry = Entry(Parts(i)[(li - 1) + 1]) /\ r.dest = PartEnds(i)[li - 1] /\ i = r.file
        BY <1>2, <1>4, <1>5, <1>7, <2>3
      <3>3. \E p : Placement(groups', i, (li - 1) + 1, p)
        BY <1>5, <1>7, <1>10, <2>1, <3>1, <3>2, NextPlaced
      <3>4. PICK p : Placement(groups', i, li, p)
        BY <1>5, <3>3
      <3>5. Entered(i)' = li
        BY <1>2, <1>3, <3>1
      <3>6. Placement(groups, i, Entered(i), p)'
        BY <1>1, <3>4, <3>5, PlacementFixed
      <3> QED BY <3>6
    <2> QED BY <2>2, <2>3
  <1>12. ASSUME NEW g \in DOMAIN groups'
         PROVE  /\ InFileOrder(groups'[g].refs)
                /\ \A k \in DOMAIN groups'[g].refs : groups'[g].refs[k].file <= fi
    <2> DEFINE old(k) == g \in DOMAIN groups /\ k \in DOMAIN groups[g].refs
    <2>1. ASSUME NEW k PROVE k \in DOMAIN groups'[g].refs <=> old(k) \/ (g = g0 /\ k = k0)
      BY <1>10 DEF Adds
    <2>2. ASSUME NEW k, old(k)
          PROVE  groups'[g].refs[k] = groups[g].refs[k] /\ groups[g].refs[k].file <= fi
      BY <1>1, <1>4, <1>10, <2>2 DEF Adds, SegmentsPlaced, Building
    <2>3. ASSUME NEW j, NEW k, old(j), old(k), j < k
          PROVE  groups[g].refs[j].file <= groups[g].refs[k].file
      BY <1>1, <1>4, <2>3 DEF SegmentsPlaced, Building, InFileOrder
    <2>4. g = g0 => groups'[g].refs[k0] = r
      BY <1>10 DEF Adds
    <2>5. ASSUME NEW k, old(k), g = g0 PROVE k < k0 /\ k0 # k
      <3>1. k < k0
        BY <1>10, <2>5 DEF Adds
      <3>2. ~(g0 \in DOMAIN groups /\ k0 \in DOMAIN groups[g0].refs)
        BY <1>10 DEF Adds
      <3> QED BY <2>5, <3>1, <3>2
    <2>6. ASSUME NEW k, old(k) PROVE k \in Nat
      <3>1. groups[g] \in ChunkGroup
        BY <1>5, <2>6
      <3>2. groups[g].refs \in Seq(SegmentRef)
        BY <3>1 DEF ChunkGroup
      <3> QED BY <2>6, <3>2
    <2>7. \A k \in DOMAIN groups'[g].refs : groups'[g].refs[k].file <= fi
      BY <1>5, <1>7, <2>1, <2>2, <2>4
    <2>8. g = g0 => k0 \in Nat
      <3>1. groups' \in Seq(ChunkGroup)
        BY <1>1, <1>5, <1>6, WithRefType
      <3>2. groups'[g] \in ChunkGroup
        BY <3>1
      <3>3. groups'[g].refs \in Seq(SegmentRef)
        BY <3>2 DEF ChunkGroup
      <3> QED BY <2>1, <3>3
    <2>9. ASSUME NEW j \in DOMAIN groups'[g].refs, NEW k \in DOMAIN groups'[g].refs, j < k
          PROVE  groups'[g].refs[j].file <= groups'[g].refs[k].file
      <3>1. CASE old(j) /\ old(k)
        BY <2>2, <2>3, <2>9, <3>1
      <3>2. CASE old(j) /\ ~old(k)
        BY <1>7, <2>1, <2>2, <2>4, <3>2
      <3>3. CASE ~old(j)
        <4>1. g = g0 /\ j = k0 /\ j \in Nat
          BY <2>1, <2>8, <3>3
        <4>2. CASE old(k)
          <5>1. k < j /\ k \in Nat
            BY <2>5, <2>6, <4>1, <4>2
          <5> QED BY <2>9, <4>1, <5>1
        <4>3. CASE ~old(k)
          <5>1. k = j
            BY <2>1, <4>1, <4>3
          <5> QED BY <2>9, <4>1, <5>1
        <4> QED BY <4>2, <4>3
      <3> QED BY <3>1, <3>2, <3>3
    <2> QED BY <2>7, <2>9 DEF InFileOrder
  <1>13. Building' /\ pc' # "sort" /\ pc' # "start"
    BY <1>1, <1>3 DEF Building
  <1> QED BY <1>3, <1>9, <1>11, <1>12, <1>13 DEF SegmentsPlaced, UniqueChunks, InFileOrder

LEMMA FileSegments ==
  ASSUME IInv, FilesBuilt, SegmentsPlaced, FileActions
  PROVE  SegmentsPlaced'
  <1> USE DEF inputs, plan, decode, budget, outputs
  <1>9. PICK f : f = fi
    OBVIOUS
  <1>0. fi \in Nat /\ f = fi
    BY <1>9 DEF IInv, TypeOK
  <1>1. CASE SkipFile
    <2>1. /\ pc = "file" /\ pc' = "file" /\ fi' = fi + 1 /\ groups' = groups
          /\ DOMAIN files' = DOMAIN files /\ archive' = archive /\ archiveErr' = archiveErr
          /\ External(f)
      BY <1>0, <1>1 DEF SkipFile, External, file
    <2>2. Entered(f) = 0 /\ Entered(f)' = 0
      BY <1>0, <2>1, ArchiveFixed DEF Entered, Building
    <2> QED BY <1>0, <2>1, <2>2, FileStays
  <1>2. CASE StartFile \/ AddPart
    <2>1. /\ pc \in {"file", "total"} /\ pc' \in {"file", "total"} /\ fi' = fi /\ groups' = groups
          /\ files' = files /\ archive' = archive /\ archiveErr' = archiveErr
      BY <1>2 DEF StartFile, AddPart
    <2>2. Entered(f) = 0 /\ Entered(f)' = 0
      BY <1>0, <2>1 DEF Entered, Building
    <2> QED BY <1>0, <2>1, <2>2, FileStays
  <1>3. CASE RejectPart
    <2>1. /\ pc = "total" /\ pc' = "file" /\ fi' = fi + 1 /\ groups' = groups
          /\ DOMAIN files' = DOMAIN files /\ archive' = archive /\ archiveErr' = archiveErr
      BY <1>3 DEF RejectPart, markFailure
    <2>2. ~Located(f)
      BY <1>0, <1>3, BadPart DEF RejectPart
    <2>3. Entered(f) = 0 /\ Entered(f)' = 0
      BY <1>0, <2>1, <2>2, ArchiveFixed DEF Entered, Building
    <2> QED BY <1>0, <2>1, <2>3, FileStays
  <1>4. CASE SizeFile
    <2>1. /\ pc = "total" /\ pc' = "refs" /\ fi' = fi /\ li' = 1 /\ groups' = groups
          /\ DOMAIN files' = DOMAIN files /\ archive' = archive /\ archiveErr' = archiveErr
      BY <1>4 DEF SizeFile
    <2>2. Entered(f) = 0 /\ Entered(f)' = 0
      BY <1>0, <2>1 DEF Entered, Building
    <2> QED BY <1>0, <2>1, <2>2, FileStays
  <1>5. CASE AddRef
    BY <1>5, AddRefSegments
  <1>6. CASE EndFile
    <2>1. /\ pc = "refs" /\ pc' = "file" /\ fi' = fi + 1 /\ groups' = groups /\ ~MoreParts
          /\ files' = files /\ archive' = archive /\ archiveErr' = archiveErr
      BY <1>6 DEF EndFile
    <2>2. /\ Locations(file) = Parts(fi) /\ Len(Parts(fi)) \in Nat
          /\ li \in 1..(Len(Parts(fi)) + 1) /\ Located(fi) /\ ~External(fi)
      BY <2>1, PartLoop DEF FilesBuilt
    <2>3. li - 1 = Len(Parts(f))
      BY <1>0, <2>1, <2>2 DEF MoreParts
    <2>4. Entered(f) = li - 1 /\ Entered(f)' = Len(Parts(f))
      BY <1>0, <2>1, <2>2, ArchiveFixed DEF Entered, Building
    <2> QED BY <1>0, <2>1, <2>3, <2>4, FileStays
  <1>7. CASE EndFiles
    <2>1. /\ pc = "file" /\ pc' = "sort" /\ gi' = 1 /\ fi' = fi /\ fi > Len(files)
          /\ groups' = groups /\ files' = files /\ archive' = archive /\ archiveErr' = archiveErr
      BY <1>0, <1>7 DEF EndFiles, MoreFiles, IInv, TypeOK
    <2>2. \A i \in DOMAIN files : ~(i >= fi)
      BY <2>1 DEF IInv, TypeOK
    <2>3. \A i \in DOMAIN files : Entered(i)' = Entered(i)
      BY <2>1, <2>2, ArchiveFixed DEF Entered, Building
    <2>4. \A g \in DOMAIN groups : ~(g < 1)
      BY DEF IInv, TypeOK
    <2>5. Building /\ ~Building'
      BY <2>1 DEF Building
    <2> QED BY <2>1, <2>3, <2>4, <2>5, SegmentsStay DEF SegmentsPlaced
  <1> QED BY <1>1, <1>2, <1>3, <1>4, <1>5, <1>6, <1>7 DEF FileActions

\* The refs of one group are sorted, and every part keeps its slot.
LEMMA SortSegments ==
  ASSUME IInv, FilesBuilt, SegmentsPlaced, SortActions
  PROVE  SegmentsPlaced'
  <1> USE DEF inputs, plan, decode, budget, outputs
  <1>0. /\ groups \in Seq(ChunkGroup) /\ gi \in Nat /\ Len(groups) \in Nat
        /\ DOMAIN groups = 1..Len(groups) /\ \A g \in DOMAIN groups : g \in Nat
    BY DEF IInv, TypeOK
  <1>1. CASE SortGroup
    <2>1. PICK order \in StableOrders(group.refs) :
            groups' = [groups EXCEPT ![gi].refs = [k \in DOMAIN group.refs |-> group.refs[order[k]]]]
      BY <1>1 DEF SortGroup
    <2>2. /\ pc = "sort" /\ pc' = pc /\ gi' = gi + 1 /\ gi \in DOMAIN groups /\ archiveErr = "none"
          /\ fi' = fi /\ files' = files /\ archive' = archive /\ archiveErr' = archiveErr
      BY <1>1, GroupTypes DEF SortGroup, FilesBuilt
    <2> DEFINE sorted == [k \in DOMAIN group.refs |-> group.refs[order[k]]]
    <2>3. group \in ChunkGroup /\ group.refs \in Seq(SegmentRef) /\ group = groups[gi]
      BY <1>1, GroupTypes DEF SortGroup, group
    <2>4. groups' = [groups EXCEPT ![gi] = [group EXCEPT !.refs = sorted]]
      BY <2>1, <2>3
    <2>5. sorted = [k \in DOMAIN group.refs |-> group.refs[order[k]]]
      OBVIOUS
    <2> HIDE DEF sorted
    <2>6. /\ DOMAIN groups' = DOMAIN groups
          /\ \A h \in DOMAIN groups : h # gi => groups'[h] = groups[h]
          /\ groups'[gi].chunk = groups[gi].chunk /\ groups'[gi].refs = sorted
      BY <2>2, <2>3, <2>4 DEF ChunkGroup
    <2>7. Reorders(groups, groups', gi, order)
      BY <2>3, <2>5, <2>6 DEF Reorders
    <2>8. ASSUME NEW i \in DOMAIN files PROVE \E p : Placement(groups, i, Entered(i), p)'
      <3>1. PICK part : Placement(groups, i, Entered(i), part)
        BY <2>2 DEF SegmentsPlaced
      <3>2. LET S == DOMAIN groups[gi].refs
            IN  /\ order \in [S -> S]
                /\ \A j, k \in S : order[j] = order[k] => j = k
                /\ \A k \in S : \E j \in S : order[j] = k
        BY <2>3, StableOrderOnto
      <3>3. PICK p : Placement(groups', i, Entered(i), p)
        BY <2>2, <2>7, <3>1, <3>2, SortedPlaced
      <3>4. Entered(i)' = Entered(i)
        BY <2>2, ArchiveFixed DEF Entered, Building
      <3>5. Placement(groups, i, Entered(i), p)'
        BY <2>2, <3>3, <3>4, PlacementFixed
      <3> QED BY <3>5
    <2>9. /\ ~Building' /\ ~Building /\ UniqueChunks(groups)
          /\ \A g \in DOMAIN groups : /\ g >= gi => InFileOrder(groups[g].refs)
                                      /\ g < gi => InOffsetOrder(groups[g].refs)
      BY <2>2 DEF SegmentsPlaced, Building
    <2>10. UniqueChunks(groups')
      BY <2>6, <2>9 DEF UniqueChunks
    <2>11. InOffsetOrder(sorted)
      BY <1>0, <2>2, <2>3, <2>5, <2>9, SortedInOrder
    <2>12. ASSUME NEW g \in DOMAIN groups'
           PROVE  /\ g >= gi' => InFileOrder(groups'[g].refs)
                  /\ g < gi' => InOffsetOrder(groups'[g].refs)
      <3>1. g \in Nat /\ g \in DOMAIN groups
        BY <1>0, <2>6
      <3>2. CASE g = gi
        BY <1>0, <2>2, <2>6, <2>11, <3>2
      <3>3. CASE g # gi
        <4>1. /\ g >= gi' => g >= gi
              /\ g < gi' => g < gi
          BY <1>0, <2>2, <3>1, <3>3
        <4> QED BY <2>6, <2>9, <3>1, <3>3, <4>1
      <3> QED BY <3>2, <3>3
    <2> QED BY <2>2, <2>8, <2>9, <2>10, <2>12
            DEF SegmentsPlaced, UniqueChunks, InFileOrder, InOffsetOrder
  <1>2. CASE EndSort
    <2>1. /\ pc = "sort" /\ pc' = "plan" /\ gi > Len(groups) /\ groups' = groups
          /\ files' = files /\ archive' = archive /\ archiveErr' = archiveErr
      BY <1>2 DEF EndSort
    <2>2. /\ \A i \in DOMAIN files : Entered(i)' = Entered(i)
          /\ ~Building /\ ~Building'
      BY <2>1, ArchiveFixed DEF Entered, Building
    <2>3. \A g \in DOMAIN groups : g < gi
      BY <1>0, <2>1
    <2> QED BY <2>1, <2>2, <2>3, SegmentsStay DEF SegmentsPlaced
  <1> QED BY <1>1, <1>2 DEF SortActions

\* The later steps leave the groups alone.
LEMMA LaterSegments ==
  ASSUME IInv, SegmentsPlaced, PlanActions \/ DecodeActions \/ ReportActions
  PROVE  SegmentsPlaced'
  <1>1. groups' = groups
    <2>1. CASE PlanActions
      BY <2>1 DEF PlanActions, PassFile, PlanFile, RefuseFile, EndPlan, ReserveOutput,
                  RefuseOutput, plan
    <2> QED BY <2>1, DecodeFrame
  <1>2. /\ archive' = archive /\ archiveErr' = archiveErr /\ DOMAIN files' = DOMAIN files
    BY PlanFrame, DecodeFrame DEF inputs, SameFiles
  <1>3. /\ ~Building /\ ~Building' /\ pc # "sort" /\ pc' # "sort" /\ pc' # "start"
    <2>1. CASE PlanActions
      BY <2>1 DEF PlanActions, PassFile, PlanFile, RefuseFile, EndPlan, ReserveOutput,
                  RefuseOutput, Building
    <2> QED BY <2>1, DecodeFrame DEF Building, Decoding
  <1>4. \A i \in DOMAIN files : Entered(i)' = Entered(i)
    BY <1>2, <1>3, ArchiveFixed DEF Entered
  <1> QED BY <1>1, <1>2, <1>3, <1>4, SegmentsStay DEF SegmentsPlaced

LEMMA NextSegmentsPlaced ==
  IInv /\ FilesBuilt /\ SegmentsPlaced /\ [Next]_vars => SegmentsPlaced'
  <1> SUFFICES ASSUME IInv, FilesBuilt, SegmentsPlaced, [Next]_vars PROVE SegmentsPlaced'
    OBVIOUS
  <1>1. CASE UNCHANGED vars
    <2>1. /\ archive' = archive /\ archiveErr' = archiveErr /\ groups' = groups
          /\ files' = files /\ pc' = pc /\ gi' = gi /\ fi' = fi /\ li' = li
      BY <1>1 DEF vars, inputs, plan, decode, outputs
    <2>2. \A i \in DOMAIN files : Entered(i)' = Entered(i)
      BY <2>1, ArchiveFixed DEF Entered, Building
    <2> QED BY <2>1, <2>2, SegmentsStay DEF SegmentsPlaced, Building
  <1> QED BY <1>1, StartSegments, FileSegments, SortSegments, LaterSegments
          DEF Next, Returned, Step, StartActions, FileActions, SortActions, PlanActions,
              DecodeActions, ReportActions

LEMMA SpecSegments == Spec => [](IInv /\ FilesBuilt /\ SegmentsPlaced)
  BY InitBegun, InitIInv, NextIInv, InitFilesBuilt, NextFilesBuilt, InitSegmentsPlaced, NextSegmentsPlaced,
     PTL DEF Spec

\* Grouping and sorting neither lose, repeat nor misplace a segment, whatever
\* the archive.
THEOREM SegmentsCover == Spec => []SegmentsCoverFiles
  <1>1. IInv /\ FilesBuilt /\ SegmentsPlaced => SegmentsCoverFiles
    <2> SUFFICES ASSUME IInv, FilesBuilt, SegmentsPlaced, pc = "reserve" PROVE SegmentsCoverFiles
      BY DEF SegmentsCoverFiles
    <2>1. archiveErr = "none" /\ ~Building
      BY DEF FilesBuilt, Building
    <2>2. UniqueChunks(groups) /\ \A g \in DOMAIN groups : InOffsetOrder(groups[g].refs)
      BY <2>1 DEF SegmentsPlaced
    <2>3. ASSUME NEW i \in DOMAIN files
          PROVE  IF External(i) \/ ~Located(i)
                 THEN Slots(groups, i) = {}
                 ELSE \E part \in [Slots(groups, i) -> DOMAIN Parts(i)] :
                        /\ \A r \in Slots(groups, i) : HoldsPart(groups, r, i, part[r])
                        /\ \A k \in DOMAIN Parts(i) :
                             \E r \in Slots(groups, i) :
                               part[r] = k /\ \A q \in Slots(groups, i) : part[q] = k => q = r
      <3>1. PICK part : Placement(groups, i, Entered(i), part)
        BY <2>1 DEF SegmentsPlaced
      <3>2. CASE External(i) \/ ~Located(i)
        <4>1. Entered(i) = 0 /\ 1..0 = {}
          BY <2>1, <3>2 DEF Entered
        <4> QED BY <3>1, <3>2, <4>1 DEF Placement
      <3>3. CASE ~(External(i) \/ ~Located(i))
        <4>1. Entered(i) = Len(Parts(i))
          BY <2>1, <3>3 DEF Entered
        <4>2. DOMAIN Parts(i) = 1..Len(Parts(i))
          <5>1. i \in DOMAIN archive.files /\ archive \in Archive
            BY DEF IInv, TypeOK, InRange, Archive
          <5> QED BY <5>1, PartEndsEquation
        <4> QED BY <3>1, <3>3, <4>1, <4>2 DEF Placement
      <3> QED BY <3>2, <3>3
    <2> QED BY <2>2, <2>3
            DEF SegmentsCoverFiles, UniqueChunks, InOffsetOrder, Slots, HoldsPart, Parts
  <1> QED BY <1>1, SpecSegments, PTL

-----------------------------------------------------------------------------
(* What the archive says does not change.                                  *)

LEMMA ContentFixed ==
  ASSUME archive' = archive
  PROVE  /\ \A i : Content(i)' = Content(i)
         /\ \A i : SoundParts(i)' = SoundParts(i)
         /\ \A i : Sound(i)' = Sound(i)
         /\ \A i : Measured(i)' = Measured(i)
  <1>1. /\ \A i : PartEnds(i)' = PartEnds(i)
        /\ \A i : Located(i)' = Located(i)
        /\ \A i : OutputSize(i)' = OutputSize(i)
    BY ArchiveFixed
  <1>6. \A i : Content(i)' = Content(i)
    <2> SUFFICES ASSUME NEW i PROVE Content(i)' = Content(i)
      OBVIOUS
    <2> DEFINE locations == Locations(archive.files[i])
               here(p) == {k \in DOMAIN locations : PartEnds(i)[k - 1] < p /\ p <= PartEnds(i)[k]}
               chosen(p) == CHOOSE k \in here(p) : TRUE
               byte(p) == IF here(p) = {} THEN Zero
                          ELSE PartBytes(Entry(locations[chosen(p)]))[p - PartEnds(i)[chosen(p) - 1]]
    <2>1. locations' = locations
      BY DEF Locations
    <2>2. ASSUME NEW p PROVE here(p)' = here(p)
      <3> HIDE DEF locations
      <3> QED BY <2>1, <1>1
    <2>3. ASSUME NEW p PROVE byte(p)' = byte(p)
      <3> HIDE DEF locations, here
      <3>1. chosen(p)' = chosen(p)
        BY <2>2
      <3> HIDE DEF chosen
      <3>2. PartBytes(Entry(locations[chosen(p)]))' = PartBytes(Entry(locations[chosen(p)]))
        BY <2>1, <3>1 DEF Entry
      <3> QED BY <2>1, <2>2, <1>1, <3>1, <3>2
    <2>4. Content(i) = [p \in 1..OutputSize(i) |-> byte(p)]
      BY DEF Content
    <2>5. Content(i)' = [p \in 1..OutputSize(i)' |-> byte(p)']
      BY DEF Content
    <2> HIDE DEF byte
    <2> QED BY <2>3, <2>4, <2>5, <1>1
  <1>7. \A i : SoundParts(i)' = SoundParts(i)
    BY <1>1 DEF SoundParts, Entry, Locations
  <1>8. \A i : Sound(i)' = Sound(i)
    BY <1>1, <1>6, <1>7 DEF Sound, Locations
  <1>9. \A i : Measured(i)' = Measured(i)
    BY DEF Measured, Entry, Locations
  <1> QED BY <1>6, <1>7, <1>8, <1>9

\* What each file puts into the output, and the room it all takes.
OutputSizes == [i \in DOMAIN archive.files |->
                  IF External(i) \/ ~Located(i) THEN 0 ELSE OutputSize(i)]

LEMMA AmpleFixed ==
  ASSUME archive' = archive, limit' = limit
  PROVE  AmpleMemory' = AmpleMemory
  <1>1. OutputSizes' = OutputSizes
    BY ArchiveFixed DEF OutputSizes
  <1> DEFINE Room(e, sizes, l) == Total(sizes) + e.chunk.length + e.chunk.dict + Len(PartBytes(e)) <= l
  <1>2. AmpleMemory = \A k \in DOMAIN archive.entries : Room(archive.entries[k], OutputSizes, limit)
    BY DEF AmpleMemory, OutputSizes
  <1>3. AmpleMemory' = \A k \in DOMAIN archive'.entries : Room(archive'.entries[k], OutputSizes', limit')
    BY DEF AmpleMemory, OutputSizes
  <1> HIDE DEF Room
  <1> QED BY <1>1, <1>2, <1>3

-----------------------------------------------------------------------------
(* The refs of the groups belong to files of the archive.                  *)

RefsOwned == \A g \in DOMAIN groups : \A k \in DOMAIN groups[g].refs :
               groups[g].refs[k].file \in DOMAIN files

LEMMA InitRefsOwned == Begun => RefsOwned
  BY DEF Begun, Called, RefsOwned

LEMMA NextRefsOwned == IInv /\ SegmentsPlaced /\ FilesBuilt /\ RefsOwned /\ [Next]_vars => RefsOwned'
  <1> SUFFICES ASSUME IInv, SegmentsPlaced, FilesBuilt, RefsOwned, [Next]_vars PROVE RefsOwned'
    OBVIOUS
  <1> USE DEF inputs, plan, decode, budget, outputs
  <1>1. DOMAIN files' = DOMAIN files
    <2>1. CASE UNCHANGED vars
      BY <2>1 DEF vars
    <2>2. CASE StartActions \/ FileActions \/ SortActions
      BY <2>2, FilesFrame
    <2>3. CASE PlanActions
      BY <2>3, PlanFrame
    <2>4. CASE DecodeActions \/ ReportActions
      BY <2>4, DecodeFrame DEF SameFiles
    <2> QED BY <2>1, <2>2, <2>3, <2>4
            DEF Next, Returned, Step, StartActions, FileActions, SortActions, PlanActions,
                DecodeActions, ReportActions
  <1>2. CASE groups' = groups
    BY <1>1, <1>2 DEF RefsOwned
  <1>3. CASE AddRef
    <2> DEFINE r == [file |-> fi, entry |-> Part, dest |-> dest]
    <2>1. pc = "refs" /\ groups' = WithRef(groups, Part.chunk, r) /\ archiveErr = "none"
      BY <1>3 DEF AddRef, FilesBuilt
    <2>2. UniqueChunks(groups) /\ groups \in Seq(ChunkGroup)
      BY <2>1 DEF SegmentsPlaced, IInv, TypeOK
    <2>3. Part.chunk \in Chunk /\ r \in SegmentRef
      <3>1. Part \in DataEntry
        BY <1>3, <2>1, PartFits DEF AddRef
      <3> QED BY <3>1 DEF IInv, TypeOK, DataEntry, SegmentRef
    <2>4. r.file = fi /\ fi \in DOMAIN files
      BY <2>1, PartLoop
    <2> HIDE DEF r
    <2>5. PICK g0, k0 : Adds(groups, groups', Part.chunk, r, g0, k0)
      BY <2>1, <2>2, <2>3, WithRefAdds
    <2> QED BY <1>1, <2>4, <2>5 DEF RefsOwned, Adds
  <1>4. CASE SortGroup
    <2>1. PICK order \in StableOrders(group.refs) :
            groups' = [groups EXCEPT ![gi].refs = [k \in DOMAIN group.refs |-> group.refs[order[k]]]]
      BY <1>4 DEF SortGroup
    <2>2. order \in [DOMAIN group.refs -> DOMAIN group.refs]
      BY <2>1 DEF StableOrders
    <2> DEFINE sorted == [k \in DOMAIN group.refs |-> group.refs[order[k]]]
    <2>3. group \in ChunkGroup /\ gi \in DOMAIN groups /\ group = groups[gi]
      BY <1>4, GroupTypes DEF SortGroup, group
    <2>4. groups' = [groups EXCEPT ![gi] = [group EXCEPT !.refs = sorted]]
      BY <2>1, <2>3
    <2>5. DOMAIN sorted = DOMAIN group.refs /\ \A k \in DOMAIN sorted : sorted[k] = group.refs[order[k]]
      OBVIOUS
    <2> HIDE DEF sorted
    <2>6. /\ DOMAIN groups' = DOMAIN groups
          /\ \A h \in DOMAIN groups : h # gi => groups'[h] = groups[h]
          /\ groups'[gi].refs = sorted
      BY <2>3, <2>4 DEF ChunkGroup
    <2>7. ASSUME NEW g \in DOMAIN groups', NEW k \in DOMAIN groups'[g].refs
          PROVE  groups'[g].refs[k].file \in DOMAIN files
      <3>1. CASE g = gi
        <4>1. k \in DOMAIN group.refs /\ groups'[g].refs[k] = group.refs[order[k]]
          BY <2>5, <2>6, <2>7, <3>1
        <4>2. order[k] \in DOMAIN group.refs
          BY <2>2, <4>1
        <4> QED BY <2>3, <4>1, <4>2 DEF RefsOwned
      <3>2. CASE g # gi
        BY <2>6, <2>7, <3>2 DEF RefsOwned
      <3> QED BY <3>1, <3>2
    <2> QED BY <1>1, <2>7 DEF RefsOwned
  <1>5. CASE Step /\ ~AddRef /\ ~SortGroup
    <2>1. groups' = groups
      <3>1. CASE DecodeActions \/ ReportActions
        BY <3>1, DecodeFrame
      <3>2. CASE ~(DecodeActions \/ ReportActions)
        BY <1>5, <3>2 DEF Step, DecodeActions, ReportActions, RejectArchive, AcceptArchive, SkipFile,
          StartFile, AddPart, RejectPart, SizeFile, EndFile, EndFiles, EndSort, PassFile, PlanFile,
          RefuseFile, EndPlan, ReserveOutput, RefuseOutput
      <3> QED BY <3>1, <3>2
    <2> QED BY <1>2, <2>1
  <1> QED BY <1>2, <1>3, <1>4, <1>5 DEF Next, Returned, vars

-----------------------------------------------------------------------------
(* Slots and parts while chunks are decoded.                               *)

\* What the plan leaves behind, the hypotheses of what follows.
Laid == IInv /\ FilesBuilt /\ BuffersPlanned /\ SegmentsPlaced /\ RefsOwned

\* Past the planning, a file that is neither external nor failed is built.
LEMMA BuiltFile ==
  ASSUME IInv, FilesBuilt, archiveErr = "none", ~Building, NEW i \in DOMAIN files
  PROVE  Built(i, files[i]) /\ i \in DOMAIN archive.files /\ archive \in Archive
  <1>1. Reached(i)
    BY DEF Reached
  <1> QED BY <1>1 DEF FilesBuilt, IInv, TypeOK, InRange, Archive

LEMMA DecodingBasics ==
  ASSUME FilesBuilt, Decoding
  PROVE  archiveErr = "none" /\ ~Building /\ ~Planning
  BY DEF FilesBuilt, Decoding, Building, Planning

\* Each slot of a file holds one of its parts, and the file can be located.
LEMMA SlotPart ==
  ASSUME Laid, Decoding, NEW i \in DOMAIN files, NEW r \in Slots(groups, i)
  PROVE  /\ ~External(i) /\ Located(i) /\ ~files[i].skip
         /\ \E m \in DOMAIN Parts(i) : HoldsPart(groups, r, i, m)
         /\ r[1] \in DOMAIN groups /\ r[2] \in DOMAIN groups[r[1]].refs
         /\ r[1] \in Nat /\ r[2] \in Nat /\ r[2] >= 1 /\ r[2] <= Len(groups[r[1]].refs)
         /\ groups[r[1]].refs[r[2]].file = i
         /\ r = <<r[1], r[2]>>
  <1>1. archiveErr = "none" /\ ~Building
    BY DecodingBasics DEF Laid
  <1>2. PICK part : Placement(groups, i, Entered(i), part)
    BY <1>1 DEF Laid, SegmentsPlaced
  <1>3. part[r] \in 1..Entered(i) /\ HoldsPart(groups, r, i, part[r])
    BY <1>2 DEF Placement
  <1>4. ~External(i) /\ Located(i) /\ Entered(i) = Len(Parts(i))
    BY <1>1, <1>3 DEF Entered
  <1>5. Built(i, files[i]) /\ i \in DOMAIN archive.files /\ archive \in Archive
    BY <1>1, BuiltFile DEF Laid
  <1>6. DOMAIN Parts(i) = 1..Len(Parts(i))
    BY <1>5, PartEndsEquation
  <1>7. ~files[i].skip
    BY <1>4, <1>5 DEF Built
  <1>8. r = <<r[1], r[2]>> /\ r[1] \in DOMAIN groups /\ r[2] \in DOMAIN groups[r[1]].refs
        /\ groups[r[1]].refs[r[2]].file = i
    <2>1. r = <<r[1], r[2]>>
      BY SlotsMember
    <2>2. <<r[1], r[2]>> \in Slots(groups, i)
      BY <2>1
    <2> QED BY <2>1, <2>2, SlotsMember
  <1>9. groups \in Seq(ChunkGroup)
    BY DEF Laid, IInv, TypeOK
  <1>10. groups[r[1]] \in ChunkGroup /\ r[1] \in Nat
    BY <1>8, <1>9
  <1>11. groups[r[1]].refs \in Seq(SegmentRef)
    BY <1>10 DEF ChunkGroup
  <1> QED BY <1>3, <1>4, <1>6, <1>7, <1>8, <1>10, <1>11

\* Each part of a file that can be located has a slot.
LEMMA PartSlot ==
  ASSUME Laid, Decoding, NEW i \in DOMAIN files, ~External(i), Located(i),
         NEW m \in DOMAIN Parts(i)
  PROVE  \E r \in Slots(groups, i) : HoldsPart(groups, r, i, m)
  <1>1. archiveErr = "none" /\ ~Building
    BY DecodingBasics DEF Laid
  <1>2. PICK part : Placement(groups, i, Entered(i), part)
    BY <1>1 DEF Laid, SegmentsPlaced
  <1>3. Entered(i) = Len(Parts(i))
    BY <1>1 DEF Entered
  <1>4. i \in DOMAIN archive.files /\ archive \in Archive
    BY <1>1, BuiltFile DEF Laid
  <1>5. DOMAIN Parts(i) = 1..Len(Parts(i))
    BY <1>4, PartEndsEquation
  <1>6. PICK r \in Slots(groups, i) : part[r] = m
    BY <1>2, <1>3, <1>5 DEF Placement
  <1> QED BY <1>2, <1>6 DEF Placement

\* The parts of a file that can be located are data entries.
LEMMA LocatedPart ==
  ASSUME archive \in Archive, NEW i \in DOMAIN archive.files, Located(i),
         NEW m \in DOMAIN Parts(i)
  PROVE  /\ Entry(Parts(i)[m]) \in DataEntry /\ Entry(Parts(i)[m]).uncompressedSize \in Nat
         /\ \E k \in DOMAIN archive.entries : Entry(Parts(i)[m]) = archive.entries[k]
         /\ m \in Nat /\ m >= 1 /\ m <= Len(Parts(i)) /\ Len(Parts(i)) \in Nat
         /\ PartEnds(i)[m - 1] \in Nat /\ PartEnds(i)[m] \in Nat
         /\ PartEnds(i)[m] = PartEnds(i)[m - 1] + Entry(Parts(i)[m]).uncompressedSize
  <1>1. /\ Parts(i) \in Seq(Nat) /\ Len(Parts(i)) \in Nat /\ DOMAIN Parts(i) = 1..Len(Parts(i))
    BY PartEndsEquation
  <1>2. Parts(i)[m] \in Nat /\ m \in 1..Len(Parts(i)) /\ m - 1 \in 0..Len(Parts(i)) /\ m \in 0..Len(Parts(i))
    BY <1>1
  <1>3. \A k \in 1..Len(Parts(i)) : IsEntry(Parts(i)[k])
    BY <1>1 DEF Located, Parts
  <1>4. Entry(Parts(i)[m]) \in DataEntry /\ Entry(Parts(i)[m]).uncompressedSize \in Nat
    BY <1>2, <1>3, EntryType
  <1>5. \E k \in DOMAIN archive.entries : Entry(Parts(i)[m]) = archive.entries[k]
    <2>1. archive.entries \in Seq(DataEntry)
      BY DEF Archive
    <2>2. Parts(i)[m] + 1 \in DOMAIN archive.entries
      BY <1>2, <1>3, <2>1 DEF IsEntry
    <2> QED BY <2>2 DEF Entry
  <1>6. PartEnds(i)[m - 1] \in Nat /\ PartEnds(i)[m] \in Nat
    <2>1. (\A k \in 1..(m - 1) : IsEntry(Parts(i)[k])) /\ \A k \in 1..m : IsEntry(Parts(i)[k])
      BY <1>2, <1>3
    <2> QED BY <1>2, <2>1, PartEndsType
  <1>7. PartEnds(i)[m] = PartEnds(i)[m - 1] + Entry(Parts(i)[m]).uncompressedSize
    BY <1>2, PartEndsEquation
  <1>8. m \in Nat /\ m >= 1 /\ m <= Len(Parts(i))
    BY <1>1, <1>2
  <1> QED BY <1>1, <1>4, <1>5, <1>6, <1>7, <1>8

\* The segment the loop is at is a part of a file, in the group of its chunk.
LEMMA RefPart ==
  ASSUME Laid, Decoding, gi <= Len(groups), ri <= Len(group.refs)
  PROVE  /\ ref.file \in DOMAIN files
         /\ <<gi, ri>> \in Slots(groups, ref.file)
         /\ groups[gi].refs[ri] = ref /\ groups[gi].chunk = group.chunk
         /\ \E m \in DOMAIN Parts(ref.file) : HoldsPart(groups, <<gi, ri>>, ref.file, m)
         /\ ref.entry.chunk = group.chunk
  <1>1. gi \in DOMAIN groups /\ ri \in DOMAIN group.refs /\ group = groups[gi] /\ ref = group.refs[ri]
    <2>1. gi \in DOMAIN groups /\ group.refs \in Seq(SegmentRef)
      BY GroupTypes DEF Laid
    <2>2. ri \in Nat \ {0}
      BY DEF Laid, IInv, TypeOK
    <2> QED BY <2>1, <2>2 DEF group, ref
  <1>2. ref.file \in DOMAIN files
    BY <1>1 DEF Laid, RefsOwned
  <1>3. <<gi, ri>> \in Slots(groups, ref.file)
    BY <1>1, SlotsMember
  <1>4. PICK m \in DOMAIN Parts(ref.file) : HoldsPart(groups, <<gi, ri>>, ref.file, m)
    BY <1>2, <1>3, SlotPart
  <1>5. ref.entry.chunk = group.chunk
    BY <1>1, <1>4 DEF HoldsPart
  <1> QED BY <1>1, <1>2, <1>3, <1>4, <1>5

\* A file of a group has a part in the chunk of the group.
LEMMA OwnerPart ==
  ASSUME Laid, Decoding, gi <= Len(groups), NEW i \in Owners(group)
  PROVE  /\ i \in DOMAIN files /\ ~External(i) /\ Located(i)
         /\ \E m \in DOMAIN Parts(i) : Entry(Parts(i)[m]).chunk = group.chunk
  <1>1. gi \in DOMAIN groups /\ group = groups[gi]
    BY GroupTypes DEF Laid, group
  <1>2. PICK k \in DOMAIN group.refs : group.refs[k].file = i
    BY DEF Owners
  <1>3. i \in DOMAIN files
    BY <1>1, <1>2 DEF Laid, RefsOwned
  <1>4. <<gi, k>> \in Slots(groups, i)
    BY <1>1, <1>2, SlotsMember
  <1>5. /\ ~External(i) /\ Located(i)
        /\ \E m \in DOMAIN Parts(i) : HoldsPart(groups, <<gi, k>>, i, m)
    BY <1>3, <1>4, SlotPart
  <1> QED BY <1>1, <1>3, <1>5 DEF HoldsPart

-----------------------------------------------------------------------------
(* The chunk and the segment that are being decoded.                       *)

\* A chunk that is open can be decoded, what has been read are its bytes, and
\* a segment to be placed is what its entry decodes to.
ChunkDecoded ==
  /\ pc \in {"read", "chunk", "segment", "place"} =>
       group.chunk.source = "chunk" /\ ~group.chunk.encrypted /\ group.chunk.codec = "ok"
  /\ pc \in {"chunk", "segment", "place"} =>
       ~group.chunk.broken /\ chunkData = ChunkBytes(group.chunk)
  /\ pc = "place" =>
       /\ ~files[ref.file].failed
       /\ ref.entry.offset + ref.entry.size <= ref.entry.chunk.length
       /\ ref.entry.filter = "zlib" => ref.entry.inflates
       /\ ref.entry.intact
       /\ segment = PartBytes(ref.entry)

\* The decoded chunk has as many bytes as it declares.
LEMMA ChunkBytesLength ==
  ASSUME NEW c \in Chunk
  PROVE  /\ Len(ChunkBytes(c)) = c.length /\ c.length \in Nat
         /\ \A k \in 1..c.length : ChunkBytes(c)[k] = <<"raw", c.id, 0, k>>
  <1>1. c.length \in Nat
    BY DEF Chunk
  <1>2. ChunkBytes(c) = [k \in 1..c.length |-> ChunkBytes(c)[k]]
    BY DEF ChunkBytes
  <1>3. Len(ChunkBytes(c)) = c.length
    <2> DEFINE b == ChunkBytes(c)
               n == c.length
    <2>1. b = [k \in 1..n |-> b[k]] /\ n \in Nat
      BY <1>1, <1>2
    <2> HIDE DEF b, n
    <2>2. Len(b) = n
      BY <2>1, FunctionIsSeq
    <2> QED BY <2>2 DEF b, n
  <1> QED BY <1>1, <1>3 DEF ChunkBytes

\* What a filter makes of the stored bytes of an entry in its decoded chunk.
LEMMA StoredPart ==
  ASSUME NEW e \in DataEntry, chunkData = ChunkBytes(e.chunk),
         e.offset + e.size <= e.chunk.length
  PROVE  Filtered(e, StoredBytes(e)) = PartBytes(e)
  <1>1. e.chunk \in Chunk /\ e.offset \in Nat /\ e.size \in Nat
    BY IntAssumption DEF DataEntry, Uint
  <1>2. e.chunk.length \in Nat /\ \A k \in 1..e.chunk.length : chunkData[k] = <<"raw", e.chunk.id, 0, k>>
    BY <1>1, ChunkBytesLength
  <1>3. \A k \in 1..e.size : chunkData[e.offset + k] = <<"raw", e.chunk.id, 0, e.offset + k>>
    <2>1. ASSUME NEW k \in 1..e.size PROVE e.offset + k \in 1..e.chunk.length
      BY <1>1, <1>2
    <2> QED BY <1>2, <2>1
  <1>4. StoredBytes(e) = [k \in 1..e.size |-> <<"raw", e.chunk.id, 0, e.offset + k>>]
    BY <1>3 DEF StoredBytes
  <1> QED BY <1>4 DEF PartBytes

\* How many bytes a part decodes to.
LEMMA PartBytesLength ==
  ASSUME NEW e \in DataEntry
  PROVE  /\ Len(PartBytes(e)) = IF e.filter = "zlib" THEN e.inflated ELSE e.size
         /\ Len(PartBytes(e)) \in Nat /\ PartBytes(e) \in Seq(Byte)
  <1>1. /\ e.size \in Nat /\ e.inflated \in Nat /\ e.offset \in Nat /\ e.chunk.id \in Nat
        /\ e.filter \in Filters
    BY IntAssumption DEF DataEntry, Chunk, Uint
  <1>2. ASSUME NEW k \in 1..e.size PROVE <<"raw", e.chunk.id, 0, e.offset + k>> \in Byte
    BY <1>1 DEF Byte, Forms
  <1> DEFINE raw == [k \in 1..e.size |-> <<"raw", e.chunk.id, 0, e.offset + k>>]
             own == [k \in 1..e.size |-> <<"filtered", e.chunk.id, e.offset, k>>]
             inflated == [k \in 1..e.inflated |-> <<"inflated", e.chunk.id, e.offset, k>>]
  <1>3. \A n \in Nat : \A x : x = [k \in 1..n |-> x[k]] => Len(x) = n
    BY FunctionIsSeq
  <1>4. Len(raw) = e.size
    <2>1. raw = [k \in 1..e.size |-> raw[k]]
      OBVIOUS
    <2> HIDE DEF raw
    <2> QED BY <1>1, <1>3, <2>1
  <1>5. Len(own) = e.size
    <2>1. own = [k \in 1..e.size |-> own[k]]
      OBVIOUS
    <2> HIDE DEF own
    <2> QED BY <1>1, <1>3, <2>1
  <1>6. Len(inflated) = e.inflated
    <2>1. inflated = [k \in 1..e.inflated |-> inflated[k]]
      OBVIOUS
    <2> HIDE DEF inflated
    <2> QED BY <1>1, <1>3, <2>1
  <1>7. PartBytes(e) = CASE e.filter = "none" -> raw
                         [] e.filter = "instruction" -> own
                         [] e.filter = "zlib" -> inflated
    BY DEF PartBytes, Filtered
  <1>8. raw \in Seq(Byte)
    <2>1. raw = [k \in 1..e.size |-> raw[k]] /\ \A k \in 1..e.size : raw[k] \in Byte
      BY <1>2
    <2> HIDE DEF raw
    <2> QED BY <1>1, <2>1
  <1>9. PartBytes(e) \in Seq(Byte)
    BY <1>8, FilteredType DEF PartBytes
  <1> HIDE DEF raw, own, inflated
  <1>10. Len(PartBytes(e)) = IF e.filter = "zlib" THEN e.inflated ELSE e.size
    BY <1>1, <1>4, <1>5, <1>6, <1>7 DEF Filters
  <1> QED BY <1>1, <1>9, <1>10

\* What is known of the segment that has been decoded without an error.
LEMMA DecodedSegment ==
  ASSUME Laid, ChunkDecoded, pc = "segment", ri <= Len(group.refs)
  PROVE  /\ Decoding /\ gi <= Len(groups)
         /\ ref.entry \in DataEntry /\ ref.entry.chunk = group.chunk
         /\ Len(chunkData) = group.chunk.length
         /\ group.chunk.length \in Nat /\ group.chunk.dict \in Nat
         /\ ref.entry.offset \in Nat /\ ref.entry.size \in Nat /\ ref.entry.inflated \in Nat
         /\ ref.entry.filter \in Filters
         /\ InChunk(ref.entry) <=> ref.entry.offset + ref.entry.size <= group.chunk.length
         /\ InChunk(ref.entry) => Filtered(ref.entry, StoredBytes(ref.entry)) = PartBytes(ref.entry)
  <1>1. gi <= Len(groups) /\ Decoding
    BY DEF Laid, IInv, InRange, Decoding
  <1>2. /\ ref.entry \in DataEntry /\ ref.entry.chunk = group.chunk /\ group.chunk \in Chunk
        /\ ref.entry.filter \in Filters
    BY <1>1, RefPart, RefTypes, GroupTypes DEF Laid
  <1>3. chunkData = ChunkBytes(group.chunk)
    BY DEF ChunkDecoded
  <1>4. Len(chunkData) = group.chunk.length /\ group.chunk.length \in Nat /\ group.chunk.dict \in Nat
    BY <1>2, <1>3, ChunkBytesLength DEF Chunk
  <1>5. ref.entry.offset \in Nat /\ ref.entry.size \in Nat /\ ref.entry.inflated \in Nat
    BY <1>2, IntAssumption DEF DataEntry, Uint
  <1>6. InChunk(ref.entry) <=> ref.entry.offset + ref.entry.size <= group.chunk.length
    <2>1. \A o, s, n \in Nat : (o <= n /\ s <= n - o) <=> o + s <= n
      OBVIOUS
    <2> QED BY <1>4, <1>5, <2>1 DEF InChunk
  <1>7. InChunk(ref.entry) => Filtered(ref.entry, StoredBytes(ref.entry)) = PartBytes(ref.entry)
    BY <1>2, <1>3, <1>6, StoredPart
  <1> QED BY <1>1, <1>2, <1>4, <1>5, <1>6, <1>7

LEMMA InitChunkDecoded == Begun => ChunkDecoded
  BY DEF Begun, Called, ChunkDecoded

\* The chunk is opened, read, and each of its segments decoded.
LEMMA NextChunkDecoded == Laid /\ ChunkDecoded /\ [Next]_vars => ChunkDecoded'
  <1> SUFFICES ASSUME Laid, ChunkDecoded, [Next]_vars PROVE ChunkDecoded'
    OBVIOUS
  <1> USE DEF inputs, plan, decode, budget, outputs
  <1> DEFINE Late == {"read", "chunk", "segment", "place"}
  <1>1. CASE pc' \notin Late
    BY <1>1 DEF ChunkDecoded
  <1>2. CASE UNCHANGED vars
    BY <1>2 DEF vars, ChunkDecoded, group, ref
  <1>3. CASE OpenChunk
    <2>1. /\ OpenError(group.chunk) = "none" /\ gi <= Len(groups)
          /\ pc' = "read" /\ groups' = groups /\ gi' = gi
      BY <1>3 DEF OpenChunk
    <2>2. group.chunk \in Chunk /\ group' = group
      BY <2>1, GroupTypes DEF Laid, group
    <2>3. group.chunk.source = "chunk" /\ ~group.chunk.encrypted /\ group.chunk.codec = "ok"
      BY <2>1, <2>2 DEF OpenError, Chunk, Codecs
    <2> QED BY <2>1, <2>2, <2>3 DEF ChunkDecoded
  <1>4. CASE ReadChunk
    BY <1>4 DEF ReadChunk, ReadError, ChunkDecoded, group
  <1>5. CASE ReserveChunk /\ CanReserve(Len(chunkData))
    BY <1>5 DEF ReserveChunk, ChunkDecoded, group
  <1>6. CASE SkipRef \/ FailSegment
    BY <1>6 DEF SkipRef, FailSegment, ChunkDecoded, group
  <1>7. CASE PlaceSegment
    BY <1>7 DEF PlaceSegment, ChunkDecoded, group
  <1>8. CASE DecodeSegment
    <2>1. CASE pc' = "segment"
      BY <1>8, <2>1 DEF DecodeSegment, ChunkDecoded, group
    <2>2. CASE pc' # "segment"
      <3>1. /\ pc = "segment" /\ ri <= Len(group.refs) /\ ~files[ref.file].failed
            /\ SegmentError(ref.entry) = "none"
            /\ segment' = Filtered(ref.entry, StoredBytes(ref.entry))
            /\ pc' = "place" /\ files' = files /\ ri' = ri /\ gi' = gi /\ groups' = groups
            /\ chunkData' = chunkData
        BY <1>8, <2>2 DEF DecodeSegment
      <3>2. InChunk(ref.entry) /\ ref.entry.intact /\ (ref.entry.filter = "zlib" => ref.entry.inflates)
        <4>1. ref.entry \in DataEntry
          BY <3>1, DecodedSegment
        <4> QED BY <3>1, <4>1 DEF SegmentError, DataEntry
      <3>3. ref' = ref /\ group' = group
        BY <3>1 DEF ref, group
      <3>4. /\ ref.entry.offset + ref.entry.size <= ref.entry.chunk.length
            /\ segment' = PartBytes(ref.entry)
        BY <3>1, <3>2, DecodedSegment
      <3>5. PartBytes(ref.entry)' = PartBytes(ref.entry) /\ ChunkBytes(group.chunk)' = ChunkBytes(group.chunk)
        BY <3>3 DEF PartBytes, ChunkBytes, Filtered
      <3> QED BY <3>1, <3>2, <3>3, <3>4, <3>5 DEF ChunkDecoded
    <2> QED BY <2>1, <2>2
  <1>9. CASE Step /\ pc' \in Late
    BY <1>3, <1>4, <1>5, <1>6, <1>7, <1>8, <1>9
       DEF Step, RejectArchive, AcceptArchive, SkipFile, StartFile, AddPart, RejectPart, SizeFile,
           AddRef, EndFile, EndFiles, SortGroup, EndSort, PassFile, PlanFile, RefuseFile, EndPlan,
           ReserveOutput, RefuseOutput, SkipGroup, FailOpen, FailRead, FailGroup, ReserveChunk,
           ReleaseChunk, EndGroups, ReportSkipped, ReportFailure, ReportResult, Return
  <1> QED BY <1>1, <1>2, <1>9 DEF Next, Returned

-----------------------------------------------------------------------------
(* What has been placed in the buffers.                                    *)

\* bytes are in data behind position at.
InPlace(data, at, bytes) ==
  /\ at + Len(bytes) <= Len(data)
  /\ \A b \in 1..Len(bytes) : data[at + b] = bytes[b]

\* A copy is in place, and what it does not reach stays in place.
LEMMA CopiedInPlace ==
  ASSUME NEW data \in Seq(Byte), NEW at \in Nat, NEW bytes \in Seq(Byte),
         at + Len(bytes) <= Len(data)
  PROVE  InPlace(Copied(data, at, bytes), at, bytes)
  <1> DEFINE new == Copied(data, at, bytes)
  <1>1. DOMAIN data = 1..Len(data) /\ Len(data) \in Nat /\ Len(bytes) \in Nat
    OBVIOUS
  <1>2. Len(new) = Len(data)
    BY CopiedType
  <1>3. ASSUME NEW b \in 1..Len(bytes) PROVE new[at + b] = bytes[b]
    <2>1. at + b \in (at + 1)..(at + Len(bytes)) /\ at + b \in DOMAIN data /\ (at + b) - at = b
      BY <1>1
    <2> QED BY <2>1 DEF Copied
  <1> HIDE DEF new
  <1> QED BY <1>2, <1>3 DEF InPlace, new

LEMMA CopiedElsewhere ==
  ASSUME NEW data \in Seq(Byte), NEW at \in Nat, NEW bytes \in Seq(Byte),
         NEW old \in Nat, NEW kept \in Seq(Byte), InPlace(data, old, kept),
         old + Len(kept) <= at \/ at + Len(bytes) <= old
  PROVE  InPlace(Copied(data, at, bytes), old, kept)
  <1> DEFINE new == Copied(data, at, bytes)
  <1>1. /\ DOMAIN data = 1..Len(data) /\ Len(data) \in Nat /\ Len(bytes) \in Nat
        /\ Len(kept) \in Nat
    OBVIOUS
  <1>2. Len(new) = Len(data)
    BY CopiedType
  <1>3. ASSUME NEW b \in 1..Len(kept) PROVE new[old + b] = kept[b]
    <2>1. old + Len(kept) <= Len(data)
      BY DEF InPlace
    <2>2. old + b \in DOMAIN data /\ ~(old + b \in (at + 1)..(at + Len(bytes)))
      BY <1>1, <2>1
    <2>3. new[old + b] = data[old + b]
      BY <2>2 DEF Copied
    <2> QED BY <2>3 DEF InPlace
  <1> HIDE DEF new
  <1> QED BY <1>2, <1>3 DEF InPlace, new

\* The segment in slot r has been dealt with.
Done(r) == r[1] < gi \/ (r[1] = gi /\ pc \in {"segment", "place"} /\ r[2] < ri)

\* Part m of file i is in order, and its bytes are in the buffer of the file.
PartPlaced(i, m, f) ==
  /\ SoundPart(Entry(Parts(i)[m]))
  /\ f.assemble => InPlace(f.data, PartEnds(i)[m - 1], PartBytes(Entry(Parts(i)[m])))

\* Some part of file i has byte p.
Covered(i, p) == \E m \in DOMAIN Parts(i) : PartEnds(i)[m - 1] < p /\ p <= PartEnds(i)[m]

\* Every segment of file i that has been dealt with without an error is in its
\* place, and what no part has is zero.
FilePlaced(i, f) ==
  /\ ~f.failed => \A r \in Slots(groups, i), m \in DOMAIN Parts(i) :
                    Done(r) /\ HoldsPart(groups, r, i, m) => PartPlaced(i, m, f)
  /\ \A p \in DOMAIN f.data : Covered(i, p) \/ f.data[p] = Zero

PartsPlaced ==
  /\ pc = "reserve" => gi = 1
  /\ pc = "finalize" => gi > Len(groups)
  /\ Decoding => \A i \in DOMAIN files : ~External(i) /\ Located(i) /\ Measured(i) =>
                   FilePlaced(i, files[i])

LEMMA InitPartsPlaced == Begun => PartsPlaced
  BY DEF Begun, Called, PartsPlaced, Decoding

\* To be placed after a step that changes neither the archive nor the groups.
LEMMA FilePlacedNow ==
  ASSUME archive' = archive, groups' = groups, NEW i, NEW f, f = files'[i],
         ~f.failed => \A r \in Slots(groups, i), m \in DOMAIN Parts(i) :
                        Done(r)' /\ HoldsPart(groups, r, i, m) => PartPlaced(i, m, f),
         \A p \in DOMAIN f.data : Covered(i, p) \/ f.data[p] = Zero
  PROVE  FilePlaced(i, files[i])'
  <1>1. \A r, m : HoldsPart(groups, r, i, m)' <=> HoldsPart(groups, r, i, m)
    BY ArchiveFixed DEF HoldsPart
  <1>2. Slots(groups, i)' = Slots(groups, i)
    BY DEF Slots
  <1>3. \A p : Covered(i, p)' <=> Covered(i, p)
    BY ArchiveFixed DEF Covered
  <1>4. ASSUME NEW m, PartPlaced(i, m, f) PROVE PartPlaced(i, m, files[i])'
    <2> DEFINE e == Entry(Parts(i)[m])
               s == PartEnds(i)[m - 1]
    <2>1. e' = e /\ s' = s
      BY ArchiveFixed
    <2>2. SoundPart(e) /\ (f.assemble => InPlace(f.data, s, PartBytes(e)))
      BY <1>4 DEF PartPlaced
    <2>3. PartPlaced(i, m, files[i])' <=>
            SoundPart(e') /\ (files'[i].assemble => InPlace(files'[i].data, s', PartBytes(e')))
      BY DEF PartPlaced
    <2> HIDE DEF e, s
    <2> QED BY <2>1, <2>2, <2>3
  <1>5. Parts(i)' = Parts(i)
    BY ArchiveFixed
  <1> QED BY <1>1, <1>2, <1>3, <1>4, <1>5 DEF FilePlaced

\* The steps that place nothing: whatever is dealt with by the step belongs to
\* a file that has failed.
LEMMA PartsStay ==
  ASSUME Laid, PartsPlaced, Decoding, archive' = archive, groups' = groups,
         DOMAIN files' = DOMAIN files,
         \A i \in DOMAIN files : /\ files'[i].data = files[i].data
                                 /\ files'[i].assemble = files[i].assemble
                                 /\ files[i].failed => files'[i].failed,
         \A i \in DOMAIN files : \A r \in Slots(groups, i) :
            Done(r)' => Done(r) \/ files'[i].failed,
         pc' # "reserve", pc' = "finalize" => gi' > Len(groups)
  PROVE  PartsPlaced'
  <1>1. ASSUME NEW i \in DOMAIN files, ~External(i), Located(i), Measured(i), FilePlaced(i, files[i])
        PROVE  FilePlaced(i, files[i])'
    <2> DEFINE f == files'[i]
    <2>1. f.data = files[i].data /\ f.assemble = files[i].assemble /\ (files[i].failed => f.failed)
      OBVIOUS
    <2>2. ASSUME ~f.failed, NEW r \in Slots(groups, i), NEW m \in DOMAIN Parts(i),
                 Done(r)', HoldsPart(groups, r, i, m)
          PROVE  PartPlaced(i, m, f)
      <3>1. PartPlaced(i, m, files[i])
        BY <1>1, <2>1, <2>2 DEF FilePlaced
      <3> HIDE DEF f
      <3> QED BY <2>1, <3>1 DEF PartPlaced
    <2>3. \A p \in DOMAIN f.data : Covered(i, p) \/ f.data[p] = Zero
      BY <1>1, <2>1 DEF FilePlaced
    <2>4. f = files'[i]
      OBVIOUS
    <2> HIDE DEF f
    <2> QED BY <2>2, <2>3, <2>4, FilePlacedNow
  <1>2. \A i \in DOMAIN files : ~External(i)' /\ Located(i)' /\ Measured(i)' =>
          ~External(i) /\ Located(i) /\ Measured(i)
    BY ArchiveFixed, ContentFixed
  <1> QED BY <1>1, <1>2 DEF PartsPlaced

\* What a segment without an error is, and where it goes.
LEMMA PlacedSegment ==
  ASSUME Laid, ChunkDecoded, pc = "place"
  PROVE  /\ Decoding /\ gi <= Len(groups) /\ ri <= Len(group.refs)
         /\ ref.file \in DOMAIN files /\ files[ref.file] \in FileAssembly
         /\ files[ref.file].data \in Seq(Byte)
         /\ ref.entry \in DataEntry /\ ref.dest \in Nat /\ ref.entry.uncompressedSize \in Nat
         /\ segment = PartBytes(ref.entry) /\ segment \in Seq(Byte) /\ Len(segment) \in Nat
         /\ SoundChunk(ref.entry.chunk)
         /\ ref.file \in DOMAIN archive.files /\ archive \in Archive
         /\ ~External(ref.file) /\ Located(ref.file)
  <1>1. gi <= Len(groups) /\ ri <= Len(group.refs) /\ Decoding /\ archive \in Archive
    BY DEF Laid, IInv, TypeOK, InRange, Decoding
  <1>2. ref.file \in DOMAIN files /\ <<gi, ri>> \in Slots(groups, ref.file) /\ ref.entry.chunk = group.chunk
    BY <1>1, RefPart
  <1>3. files[ref.file] \in FileAssembly /\ ref.file \in DOMAIN archive.files
    BY <1>2 DEF Laid, IInv, TypeOK, InRange, Archive
  <1>4. files[ref.file].data \in Seq(Byte)
    BY <1>3 DEF FileAssembly
  <1>5. ref.entry \in DataEntry /\ ref.dest \in Nat
    BY <1>1, RefTypes, IntAssumption DEF Laid, Uint
  <1>6. ref.entry.uncompressedSize \in Nat
    BY <1>5, IntAssumption DEF DataEntry, Uint
  <1>7. segment = PartBytes(ref.entry) /\ SoundChunk(ref.entry.chunk)
    BY <1>2 DEF ChunkDecoded, SoundChunk
  <1>8. segment \in Seq(Byte) /\ Len(segment) \in Nat
    BY <1>5, <1>7, PartBytesLength
  <1>9. ~External(ref.file) /\ Located(ref.file)
    BY <1>1, <1>2, SlotPart
  <1> QED BY <1>1, <1>2, <1>3, <1>4, <1>5, <1>6, <1>7, <1>8, <1>9

\* Parts of a file do not overlap.
LEMMA PartsApart ==
  ASSUME archive \in Archive, NEW i \in DOMAIN archive.files, Located(i),
         NEW j \in DOMAIN Parts(i), NEW k \in DOMAIN Parts(i), j # k
  PROVE  PartEnds(i)[j] <= PartEnds(i)[k - 1] \/ PartEnds(i)[k] <= PartEnds(i)[j - 1]
  <1>1. /\ j \in Nat /\ j >= 1 /\ j <= Len(Parts(i)) /\ Len(Parts(i)) \in Nat
        /\ k \in Nat /\ k >= 1 /\ k <= Len(Parts(i))
    BY LocatedPart
  <1>2. \A m \in 1..Len(Parts(i)) : IsEntry(Parts(i)[m])
    <2>1. DOMAIN Parts(i) = 1..Len(Parts(i))
      BY PartEndsEquation
    <2> QED BY <2>1 DEF Located, Parts
  <1>3. CASE j < k
    <2>1. j \in 0..Len(Parts(i)) /\ k - 1 \in j..Len(Parts(i))
      BY <1>1, <1>3
    <2> QED BY <1>2, <2>1, PartEndsMonotone
  <1>4. CASE k < j
    <2>1. k \in 0..Len(Parts(i)) /\ j - 1 \in k..Len(Parts(i))
      BY <1>1, <1>4
    <2> QED BY <1>2, <2>1, PartEndsMonotone
  <1> QED BY <1>1, <1>3, <1>4

\* A segment that is copied into its file.
LEMMA PlaceSegmentPlaced ==
  ASSUME Laid, ChunkDecoded, PartsPlaced, PlaceSegment, PlaceError(ref) = "none"
  PROVE  PartsPlaced'
  <1>0. PICK i0 : i0 = ref.file
    OBVIOUS
  <1> DEFINE f == files[i0]
             e == ref.entry
  <1>1. /\ pc = "place" /\ pc' = "segment" /\ ri' = ri + 1 /\ gi' = gi /\ groups' = groups
        /\ archive' = archive
        /\ files' = IF f.assemble THEN [files EXCEPT ![i0] = [f EXCEPT !.data = Copied(f.data, ref.dest, segment)]]
                    ELSE files
    BY <1>0 DEF PlaceSegment, inputs
  <1>2. /\ Decoding /\ gi <= Len(groups) /\ ri <= Len(group.refs)
        /\ i0 \in DOMAIN files /\ f \in FileAssembly /\ f.data \in Seq(Byte)
        /\ e \in DataEntry /\ ref.dest \in Nat /\ e.uncompressedSize \in Nat
        /\ segment = PartBytes(e) /\ segment \in Seq(Byte) /\ Len(segment) \in Nat
        /\ SoundChunk(e.chunk) /\ i0 \in DOMAIN archive.files /\ archive \in Archive
        /\ ~External(i0) /\ Located(i0)
    BY <1>0, <1>1, PlacedSegment
  <1>3. PICK m0 \in DOMAIN Parts(i0) : HoldsPart(groups, <<gi, ri>>, i0, m0)
    BY <1>0, <1>2, RefPart
  <1>4. groups[gi].refs[ri] = ref /\ ~f.failed
    BY <1>0, <1>1, <1>2, RefPart DEF ChunkDecoded
  <1>5. e = Entry(Parts(i0)[m0]) /\ ref.dest = PartEnds(i0)[m0 - 1]
    BY <1>3, <1>4 DEF HoldsPart
  <1>6. /\ e.uncompressedSize # 0 => Len(segment) = e.uncompressedSize
        /\ f.assemble => ref.dest + Len(segment) <= Len(f.data)
    <2>1. Len(f.data) \in Nat
      BY <1>2
    <2>2. \A a, b, n \in Nat : ~(a > n) /\ ~(b > n - a) => a + b <= n
      OBVIOUS
    <2>3. f.assemble => ~(ref.dest > Len(f.data)) /\ ~(Len(segment) > Len(f.data) - ref.dest)
      BY <1>0 DEF PlaceError
    <2> QED BY <1>0, <1>2, <2>1, <2>2, <2>3 DEF PlaceError
  <1>7. DOMAIN files' = DOMAIN files /\ \A i \in DOMAIN files : i # i0 => files'[i] = files[i]
    BY <1>1
  <1> DEFINE new == files'[i0]
  <1>8. /\ new.failed = f.failed /\ new.assemble = f.assemble
        /\ new.data = IF f.assemble THEN Copied(f.data, ref.dest, segment) ELSE f.data
    <2> DEFINE d == Copied(f.data, ref.dest, segment)
    <2>1. new = IF f.assemble THEN [f EXCEPT !.data = d] ELSE f
      BY <1>1, <1>2
    <2>2. f \in FileAssembly
      BY <1>2
    <2> HIDE DEF d, new, f
    <2>3. /\ new.failed = f.failed /\ new.assemble = f.assemble
          /\ new.data = IF f.assemble THEN d ELSE f.data
      BY <2>1, <2>2 DEF FileAssembly
    <2> QED BY <2>3 DEF d
  <1>9. ASSUME NEW r, r = <<r[1], r[2]>>, r[1] \in Nat, r[2] \in Nat, Done(r)'
        PROVE  Done(r) \/ r = <<gi, ri>>
    <2>1. gi \in Nat /\ ri \in Nat
      BY DEF Laid, IInv, TypeOK
    <2>2. r[1] < gi \/ (r[1] = gi /\ r[2] < ri + 1)
      BY <1>1, <1>9 DEF Done
    <2>3. r[1] < gi \/ (r[1] = gi /\ (r[2] < ri \/ r[2] = ri))
      BY <1>9, <2>1, <2>2
    <2> QED BY <1>1, <1>9, <2>3 DEF Done
  <1>10. ASSUME NEW i \in DOMAIN files, i # i0, ~External(i), Located(i), Measured(i),
                FilePlaced(i, files[i])
         PROVE  FilePlaced(i, files[i])'
    <2>1. files'[i] = files[i]
      BY <1>7, <1>10
    <2>2. ASSUME NEW r \in Slots(groups, i), Done(r)' PROVE Done(r)
      <3>1. r = <<r[1], r[2]>> /\ r[1] \in Nat /\ r[2] \in Nat /\ groups[r[1]].refs[r[2]].file = i
        BY <1>2, SlotPart
      <3>2. r # <<gi, ri>>
        BY <1>0, <1>4, <1>10, <3>1
      <3> QED BY <1>9, <2>2, <3>1, <3>2
    <2>3. PICK g : g = files'[i]
      OBVIOUS
    <2> QED BY <1>1, <1>10, <2>1, <2>2, <2>3, FilePlacedNow DEF FilePlaced
  <1>11. ASSUME Measured(i0), FilePlaced(i0, f)
         PROVE  FilePlaced(i0, files[i0])'
    <2>1. Len(segment) = e.uncompressedSize /\ SoundPart(e)
      <3>1. e.uncompressedSize = 0 => Len(segment) = 0
        BY <1>2, <1>3, <1>5, <1>11 DEF Measured, Parts
      <3>2. Len(segment) = e.uncompressedSize
        BY <1>6, <3>1
      <3> QED BY <1>1, <1>2, <3>2 DEF SoundPart, ChunkDecoded
    <2>2. PartEnds(i0)[m0] = ref.dest + Len(segment)
      BY <1>2, <1>3, <1>5, <2>1, LocatedPart
    <2>3. f.assemble => InPlace(new.data, ref.dest, segment)
      BY <1>2, <1>6, <1>8, CopiedInPlace
    <2>4. ASSUME NEW m \in DOMAIN Parts(i0), HoldsPart(groups, <<gi, ri>>, i0, m)
          PROVE  PartPlaced(i0, m, new)
      <3>1. e = Entry(Parts(i0)[m]) /\ ref.dest = PartEnds(i0)[m - 1]
        BY <1>4, <2>4 DEF HoldsPart
      <3> HIDE DEF new, f, e
      <3> QED BY <1>2, <1>8, <2>1, <2>3, <3>1 DEF PartPlaced
    <2>5. ASSUME NEW m \in DOMAIN Parts(i0), PartPlaced(i0, m, f)
          PROVE  PartPlaced(i0, m, new)
      <3> DEFINE x == Entry(Parts(i0)[m])
                 at == PartEnds(i0)[m - 1]
      <3>1. CASE m = m0
        <4>1. HoldsPart(groups, <<gi, ri>>, i0, m)
          BY <1>3, <3>1
        <4> QED BY <2>4, <4>1
      <3>2. CASE m # m0 /\ f.assemble
        <4>1. /\ x \in DataEntry /\ at \in Nat /\ PartEnds(i0)[m] = at + x.uncompressedSize
              /\ PartEnds(i0)[m] \in Nat
          BY <1>2, LocatedPart
        <4>2. SoundPart(x) /\ InPlace(f.data, at, PartBytes(x))
          BY <2>5, <3>2 DEF PartPlaced
        <4>3. Len(PartBytes(x)) = x.uncompressedSize /\ PartBytes(x) \in Seq(Byte)
          BY <4>1, <4>2, PartBytesLength DEF SoundPart
        <4>4. at + Len(PartBytes(x)) <= ref.dest \/ ref.dest + Len(segment) <= at
          <5>1. PartEnds(i0)[m] <= PartEnds(i0)[m0 - 1] \/ PartEnds(i0)[m0] <= PartEnds(i0)[m - 1]
            BY <1>2, <1>3, <3>2, PartsApart
          <5> QED BY <1>5, <2>2, <4>1, <4>3, <5>1
        <4> HIDE DEF x, at
        <4>5. InPlace(Copied(f.data, ref.dest, segment), at, PartBytes(x))
          BY <1>2, <4>1, <4>2, <4>3, <4>4, CopiedElsewhere
        <4>6. InPlace(new.data, at, PartBytes(x))
          BY <1>8, <3>2, <4>5
        <4> QED BY <4>2, <4>6 DEF PartPlaced, x, at
      <3>3. CASE ~f.assemble
        <4> HIDE DEF new, f
        <4> QED BY <1>8, <2>5, <3>3 DEF PartPlaced
      <3> QED BY <3>1, <3>2, <3>3
    <2>6. ASSUME NEW r \in Slots(groups, i0), NEW m \in DOMAIN Parts(i0), Done(r)',
                 HoldsPart(groups, r, i0, m)
          PROVE  PartPlaced(i0, m, new)
      <3>1. r = <<r[1], r[2]>> /\ r[1] \in Nat /\ r[2] \in Nat
        BY <1>2, SlotPart
      <3>2. Done(r) \/ r = <<gi, ri>>
        BY <1>9, <2>6, <3>1
      <3>3. CASE Done(r)
        <4>1. PartPlaced(i0, m, f)
          BY <1>4, <1>11, <2>6, <3>3 DEF FilePlaced
        <4> QED BY <2>5, <4>1
      <3>4. CASE r = <<gi, ri>>
        BY <2>4, <2>6, <3>4
      <3> QED BY <3>2, <3>3, <3>4
    <2>7. ASSUME NEW p \in DOMAIN new.data PROVE Covered(i0, p) \/ new.data[p] = Zero
      <3>1. CASE ~f.assemble
        BY <1>8, <1>11, <3>1 DEF FilePlaced
      <3>2. CASE f.assemble
        <4>1. p \in DOMAIN f.data /\ p \in Nat
          BY <1>2, <1>8, <2>7, <3>2 DEF Copied
        <4>2. CASE p \in (ref.dest + 1)..(ref.dest + Len(segment))
          <5>1. ref.dest < p /\ p <= ref.dest + Len(segment)
            BY <1>2, <4>1, <4>2
          <5> QED BY <1>3, <1>5, <2>2, <5>1 DEF Covered
        <4>3. CASE p \notin (ref.dest + 1)..(ref.dest + Len(segment))
          <5>1. new.data[p] = f.data[p]
            BY <1>8, <3>2, <4>1, <4>3 DEF Copied
          <5> QED BY <1>11, <4>1, <5>1 DEF FilePlaced
        <4> QED BY <4>2, <4>3
      <3> QED BY <3>1, <3>2
    <2>8. new = files'[i0]
      OBVIOUS
    <2> HIDE DEF new
    <2> QED BY <1>1, <2>6, <2>7, <2>8, FilePlacedNow
  <1>12. \A i : (External(i)' <=> External(i)) /\ (Located(i)' <=> Located(i)) /\ (Measured(i)' <=> Measured(i))
    BY <1>1, ArchiveFixed, ContentFixed
  <1>13. ASSUME NEW i \in DOMAIN files, ~External(i), Located(i), Measured(i)
         PROVE  FilePlaced(i, files[i])'
    <2>1. FilePlaced(i, files[i])
      BY <1>2, <1>13 DEF PartsPlaced
    <2> QED BY <1>10, <1>11, <1>13, <2>1
  <1> QED BY <1>1, <1>7, <1>12, <1>13 DEF PartsPlaced

\* The files a step marks fail, and the others keep what they have.
LEMMA MarkedFiles ==
  ASSUME IInv, NEW marked, NEW err \in Errors, files' = markFailure(files, marked, err)
  PROVE  /\ DOMAIN files' = DOMAIN files
         /\ \A i \in DOMAIN files :
              /\ files'[i].data = files[i].data /\ files'[i].assemble = files[i].assemble
              /\ files'[i].skip = files[i].skip /\ files'[i].totalSize = files[i].totalSize
              /\ files'[i].failed <=> files[i].failed \/ i \in marked
              /\ files'[i].err = IF i \in marked /\ ~files[i].failed THEN err ELSE files[i].err
  <1>1. files \in Seq(FileAssembly)
    BY DEF IInv, TypeOK
  <1>2. DOMAIN files' = DOMAIN files
    BY DEF markFailure
  <1>3. ASSUME NEW i \in DOMAIN files
        PROVE  /\ files'[i].data = files[i].data /\ files'[i].assemble = files[i].assemble
               /\ files'[i].skip = files[i].skip /\ files'[i].totalSize = files[i].totalSize
               /\ files'[i].failed <=> files[i].failed \/ i \in marked
               /\ files'[i].err = IF i \in marked /\ ~files[i].failed THEN err ELSE files[i].err
    <2> DEFINE f == files'[i]
    <2>1. /\ f.skip = files[i].skip /\ f.totalSize = files[i].totalSize
          /\ f.assemble = files[i].assemble /\ f.data = files[i].data
          /\ f.failed = (files[i].failed \/ i \in marked)
          /\ f.err = IF i \in marked /\ ~files[i].failed THEN err ELSE files[i].err
      BY <1>1, MarkFailureFields
    <2> HIDE DEF f
    <2>2. /\ f.data = files[i].data /\ f.assemble = files[i].assemble
          /\ f.skip = files[i].skip /\ f.totalSize = files[i].totalSize
          /\ f.failed <=> files[i].failed \/ i \in marked
          /\ f.err = IF i \in marked /\ ~files[i].failed THEN err ELSE files[i].err
      BY <2>1
    <2> QED BY <2>2 DEF f
  <1> QED BY <1>2, <1>3

\* A step that gives the current group up: its files have failed.
LEMMA GroupEndsPlaced ==
  ASSUME Laid, PartsPlaced, Decoding, pc' = "group", gi <= Len(groups), gi' = gi + 1,
         archive' = archive, groups' = groups, DOMAIN files' = DOMAIN files,
         \A i \in DOMAIN files : /\ files'[i].data = files[i].data
                                 /\ files'[i].assemble = files[i].assemble
                                 /\ files[i].failed => files'[i].failed,
         \A i \in Owners(group) : files'[i].failed
  PROVE  PartsPlaced'
  <1>1. ASSUME NEW i \in DOMAIN files, NEW r \in Slots(groups, i), Done(r)', ~files'[i].failed
        PROVE  Done(r)
    <2>1. /\ r[1] \in DOMAIN groups /\ r[2] \in DOMAIN groups[r[1]].refs /\ r[1] \in Nat
          /\ groups[r[1]].refs[r[2]].file = i
      BY SlotPart
    <2>2. r[1] # gi
      <3>1. SUFFICES ASSUME r[1] = gi PROVE FALSE
        OBVIOUS
      <3>2. i \in Owners(group)
        BY <2>1, <3>1 DEF Owners, group
      <3> QED BY <1>1, <3>2
    <2>3. r[1] < gi + 1 /\ gi \in Nat
      BY <1>1 DEF Done, Laid, IInv, TypeOK
    <2> QED BY <2>1, <2>2, <2>3 DEF Done
  <1> QED BY <1>1, PartsStay

\* A step that goes on to the next segment: the file of this one has failed.
LEMMA RefEndsPlaced ==
  ASSUME Laid, PartsPlaced, pc \in {"segment", "place"}, pc' = "segment",
         ri <= Len(group.refs), ri' = ri + 1, gi' = gi,
         archive' = archive, groups' = groups, DOMAIN files' = DOMAIN files,
         \A i \in DOMAIN files : /\ files'[i].data = files[i].data
                                 /\ files'[i].assemble = files[i].assemble
                                 /\ files[i].failed => files'[i].failed,
         NEW j, j = ref.file, files'[j].failed
  PROVE  PartsPlaced'
  <1>1. Decoding
    BY DEF Decoding
  <1>2. ASSUME NEW i \in DOMAIN files, NEW r \in Slots(groups, i), Done(r)', ~files'[i].failed
        PROVE  Done(r)
    <2>1. r[1] \in Nat /\ r[2] \in Nat /\ groups[r[1]].refs[r[2]].file = i
      BY <1>1, SlotPart
    <2>2. ~(r[1] = gi /\ r[2] = ri)
      <3>1. SUFFICES ASSUME r[1] = gi, r[2] = ri PROVE FALSE
        OBVIOUS
      <3>2. i = j
        BY <2>1, <3>1 DEF ref, group
      <3> QED BY <1>2, <3>2
    <2>3. /\ gi \in Nat /\ ri \in Nat
          /\ r[1] < gi \/ (r[1] = gi /\ r[2] < ri + 1)
      BY <1>2 DEF Done, Laid, IInv, TypeOK
    <2>4. r[1] < gi \/ (r[1] = gi /\ r[2] < ri)
      BY <2>1, <2>2, <2>3
    <2> QED BY <2>4 DEF Done
  <1> QED BY <1>1, <1>2, PartsStay

\* Reserving the output makes buffers of zeros, and nothing is placed yet.
LEMMA ReservePlaced ==
  ASSUME Laid, PartsPlaced, ReserveOutput \/ RefuseOutput
  PROVE  PartsPlaced'
  <1> USE DEF inputs, plan, decode, budget, outputs
  <1>1. /\ pc = "reserve" /\ pc' = "group" /\ gi' = gi /\ gi = 1
        /\ groups' = groups /\ archive' = archive /\ DOMAIN files' = DOMAIN files
    BY PlanFrame DEF PartsPlaced, ReserveOutput, RefuseOutput, PlanActions
  <1>2. ASSUME NEW i \in DOMAIN files PROVE \A p \in DOMAIN files'[i].data : files'[i].data[p] = Zero
    <2>1. files[i] \in FileAssembly /\ files[i].data = <<>>
      BY <1>1, <1>2 DEF Laid, IInv, TypeOK, BuffersPlanned, Planning
    <2>2. CASE ReserveOutput
      <3> DEFINE d == [k \in 1..files[i].totalSize |-> Zero]
      <3>1. files'[i] = IF HasBuffer(i) THEN [files[i] EXCEPT !.data = d] ELSE files[i]
        BY <2>2 DEF ReserveOutput
      <3>2. \A p \in DOMAIN d : d[p] = Zero
        OBVIOUS
      <3> HIDE DEF d
      <3>3. files'[i].data = d \/ files'[i].data = <<>>
        BY <2>1, <3>1 DEF FileAssembly
      <3> QED BY <3>2, <3>3
    <2>3. CASE RefuseOutput
      <3> DEFINE marked == markFailure(files, {j \in DOMAIN files : files[j].assemble}, "LimitExceeded")
      <3>1. files' = [j \in DOMAIN files |-> [marked[j] EXCEPT !.assemble = FALSE]]
        BY <2>3 DEF RefuseOutput
      <3>2. files \in Seq(FileAssembly) /\ "LimitExceeded" \in Errors
        BY DEF Laid, IInv, TypeOK, Errors
      <3>3. marked[i].data = files[i].data
        BY <3>2, MarkFailureFields
      <3>4. marked \in Seq(FileAssembly) /\ Len(marked) = Len(files)
        BY <3>2, MarkFailureType
      <3>5. marked[i] \in FileAssembly
        BY <3>2, <3>4
      <3> HIDE DEF marked
      <3>6. files'[i].data = <<>>
        BY <2>1, <3>1, <3>3, <3>5 DEF FileAssembly
      <3> QED BY <3>6
    <2> QED BY <2>2, <2>3
  <1>3. ASSUME NEW i \in DOMAIN files, ~External(i), Located(i) PROVE FilePlaced(i, files[i])'
    <2>1. ASSUME NEW r \in Slots(groups, i) PROVE ~Done(r)'
      <3>1. r = <<r[1], r[2]>>
        BY SlotsMember
      <3>2. r[1] \in DOMAIN groups
        BY <3>1, SlotsMember
      <3>3. r[1] \in Nat /\ r[1] >= 1
        BY <3>2 DEF Laid, IInv, TypeOK
      <3> QED BY <1>1, <3>3 DEF Done
    <2>2. PICK g : g = files'[i]
      OBVIOUS
    <2> QED BY <1>1, <1>2, <2>1, <2>2, FilePlacedNow
  <1>4. \A i : (External(i)' <=> External(i)) /\ (Located(i)' <=> Located(i))
    BY <1>1, ArchiveFixed
  <1> QED BY <1>1, <1>3, <1>4 DEF PartsPlaced

\* The steps of the decoding.
LEMMA DecodePartsPlaced ==
  ASSUME Laid, ChunkDecoded, PartsPlaced, DecodeActions
  PROVE  PartsPlaced'
  <1> USE DEF inputs, plan, decode, budget, outputs
  <1>1. Decoding /\ groups' = groups /\ archive' = archive /\ IInv
    BY DecodeFrame DEF Laid
  <1>2. ASSUME files' = files
        PROVE  /\ DOMAIN files' = DOMAIN files
               /\ \A i \in DOMAIN files : /\ files'[i].data = files[i].data
                                          /\ files'[i].assemble = files[i].assemble
                                          /\ files[i].failed => files'[i].failed
    BY <1>2
  <1>3. \A i \in DOMAIN files : \A r \in Slots(groups, i) :
          /\ r[1] \in DOMAIN groups /\ r[2] \in DOMAIN groups[r[1]].refs
          /\ r[1] \in Nat /\ r[2] \in Nat /\ r[2] >= 1 /\ r[2] <= Len(groups[r[1]].refs)
          /\ groups[r[1]].refs[r[2]].file = i /\ ~files[i].skip
    BY <1>1, SlotPart
  <1>4. CASE SkipGroup
    <2>1. /\ pc = "group" /\ pc' = "group" /\ gi <= Len(groups) /\ gi' = gi + 1 /\ files' = files
          /\ ~groupNeeded
      BY <1>4 DEF SkipGroup
    <2>2. ASSUME NEW i \in Owners(group) PROVE files'[i].failed
      <3>1. /\ i \in DOMAIN files /\ ~External(i)
        BY <1>1, <2>1, OwnerPart
      <3>2. ~files[i].skip
        BY <1>1, <3>1, DecodingBasics, BuiltFile DEF Laid, Built
      <3> QED BY <2>1, <2>2, <3>2 DEF groupNeeded
    <2> QED BY <1>1, <1>2, <2>1, <2>2, GroupEndsPlaced
  <1>5. CASE OpenChunk \/ ReadChunk
    <2>1. /\ pc \in {"group", "read"} /\ pc' \in {"read", "chunk"} /\ gi' = gi /\ files' = files
      BY <1>5 DEF OpenChunk, ReadChunk
    <2>2. \A r : Done(r)' => Done(r)
      BY <2>1 DEF Done
    <2> QED BY <1>1, <1>2, <2>1, <2>2, PartsStay
  <1>6. ASSUME NEW err \in Errors, FailGroup(err), gi <= Len(groups) PROVE PartsPlaced'
    <2>1. /\ files' = markFailure(files, Owners(group), err) /\ gi' = gi + 1 /\ pc' = "group"
      BY <1>6 DEF FailGroup
    <2>2. /\ DOMAIN files' = DOMAIN files
          /\ \A i \in DOMAIN files : /\ files'[i].data = files[i].data
                                     /\ files'[i].assemble = files[i].assemble
                                     /\ files'[i].failed <=> files[i].failed \/ i \in Owners(group)
      BY <1>1, <2>1, MarkedFiles
    <2>3. \A i \in Owners(group) : i \in DOMAIN files
      BY <1>1, <1>6, OwnerPart
    <2> QED BY <1>1, <1>6, <2>1, <2>2, <2>3, GroupEndsPlaced
  <1>7. CASE FailOpen
    <2>1. OpenError(group.chunk) \in Errors
      BY <1>7 DEF FailOpen, OpenError, Errors
    <2> QED BY <1>6, <1>7, <2>1 DEF FailOpen
  <1>8. CASE FailRead
    <2>1. ReadError(group.chunk) \in Errors /\ gi <= Len(groups)
      BY <1>1, <1>8 DEF FailRead, ReadError, Errors, IInv, InRange
    <2> QED BY <1>6, <1>8, <2>1 DEF FailRead
  <1>9. CASE ReserveChunk
    <2>1. CASE CanReserve(Len(chunkData))
      <3>1. pc = "chunk" /\ pc' = "segment" /\ gi' = gi /\ ri' = 1 /\ files' = files
        BY <1>9, <2>1 DEF ReserveChunk
      <3>2. \A i \in DOMAIN files : \A r \in Slots(groups, i) : Done(r)' => Done(r)
        BY <1>3, <3>1 DEF Done
      <3> QED BY <1>1, <1>2, <3>1, <3>2, PartsStay
    <2>2. CASE ~CanReserve(Len(chunkData))
      <3>1. FailGroup("LimitExceeded") /\ gi <= Len(groups) /\ "LimitExceeded" \in Errors
        BY <1>1, <1>9, <2>2 DEF ReserveChunk, Errors, IInv, InRange
      <3> QED BY <1>6, <3>1
    <2> QED BY <2>1, <2>2
  <1>10. CASE SkipRef
    <2>1. /\ pc = "segment" /\ pc' = "segment" /\ ri <= Len(group.refs) /\ ri' = ri + 1 /\ gi' = gi
          /\ files' = files /\ files[ref.file].failed
      BY <1>10 DEF SkipRef
    <2>2. PICK j : j = ref.file
      OBVIOUS
    <2> QED BY <1>1, <1>2, <2>1, <2>2, RefEndsPlaced
  <1>11. ASSUME NEW err \in Errors, files' = markFailure(files, {ref.file}, err),
                pc \in {"segment", "place"}, pc' = "segment", ri <= Len(group.refs), ri' = ri + 1, gi' = gi
         PROVE  PartsPlaced'
    <2>1. PICK j : j = ref.file
      OBVIOUS
    <2>2. /\ DOMAIN files' = DOMAIN files
          /\ \A i \in DOMAIN files : /\ files'[i].data = files[i].data
                                     /\ files'[i].assemble = files[i].assemble
                                     /\ files'[i].failed <=> files[i].failed \/ i \in {j}
      BY <1>1, <1>11, <2>1, MarkedFiles
    <2>3. j \in DOMAIN files
      <3>1. gi <= Len(groups)
        BY <1>1, <1>11 DEF IInv, InRange
      <3> QED BY <1>1, <1>11, <2>1, <3>1, RefPart
    <2> QED BY <1>1, <1>11, <2>1, <2>2, <2>3, RefEndsPlaced
  <1>12. CASE DecodeSegment
    <2>1. CASE pc' = "place"
      <3>1. pc = "segment" /\ gi' = gi /\ ri' = ri /\ files' = files
        BY <1>12, <2>1 DEF DecodeSegment
      <3>2. \A r : Done(r)' => Done(r)
        BY <2>1, <3>1 DEF Done
      <3> QED BY <1>1, <1>2, <2>1, <3>1, <3>2, PartsStay
    <2>2. CASE pc' # "place"
      <3>1. /\ files' = markFailure(files, {ref.file}, "LimitExceeded") /\ "LimitExceeded" \in Errors
            /\ pc = "segment" /\ pc' = "segment" /\ ri <= Len(group.refs) /\ ri' = ri + 1 /\ gi' = gi
        BY <1>12, <2>2 DEF DecodeSegment, Errors
      <3> QED BY <1>11, <3>1
    <2> QED BY <2>1, <2>2
  <1>13. CASE FailSegment
    <2>1. SegmentError(ref.entry) \in Errors
      BY <1>13 DEF FailSegment, SegmentError, Errors
    <2> QED BY <1>11, <1>13, <2>1 DEF FailSegment
  <1>14. CASE PlaceSegment
    <2>1. CASE PlaceError(ref) # "none"
      <3>1. PlaceError(ref) \in Errors /\ ri <= Len(group.refs)
        BY <1>1, <1>14, <2>1 DEF PlaceSegment, PlaceError, Errors, IInv, InRange
      <3> QED BY <1>11, <1>14, <2>1, <3>1 DEF PlaceSegment
    <2> QED BY <1>14, <2>1, PlaceSegmentPlaced
  <1>15. CASE ReleaseChunk
    <2>1. pc = "segment" /\ pc' = "group" /\ gi' = gi + 1 /\ ri > Len(group.refs) /\ files' = files
      BY <1>15 DEF ReleaseChunk
    <2>2. ASSUME NEW i \in DOMAIN files, NEW r \in Slots(groups, i), Done(r)' PROVE Done(r)
      <3>1. /\ r[1] \in Nat /\ r[2] \in Nat /\ r[2] <= Len(groups[r[1]].refs)
            /\ r[2] \in DOMAIN groups[r[1]].refs /\ r[1] \in DOMAIN groups
        BY <1>3
      <3>2. gi \in Nat /\ ri \in Nat /\ (r[1] < gi \/ r[1] = gi)
        <4>1. gi \in Nat /\ ri \in Nat
          BY DEF Laid, IInv, TypeOK
        <4>2. r[1] < gi + 1
          BY <2>1, <2>2 DEF Done
        <4> QED BY <3>1, <4>1, <4>2
      <3>3. r[1] = gi => r[2] < ri
        <4>1. gi <= Len(groups)
          BY <1>1, <2>1 DEF IInv, InRange
        <4>2. group.refs \in Seq(SegmentRef)
          BY <1>1, <4>1, GroupTypes
        <4>3. Len(group.refs) \in Nat /\ (r[1] = gi => r[2] <= Len(group.refs))
          BY <3>1, <4>2 DEF group
        <4> QED BY <2>1, <3>1, <3>2, <4>3
      <3> QED BY <2>1, <3>2, <3>3 DEF Done
    <2> QED BY <1>1, <1>2, <2>1, <2>2, PartsStay
  <1>16. CASE EndGroups
    <2>1. pc = "group" /\ pc' = "finalize" /\ gi' = gi /\ gi > Len(groups) /\ files' = files
      BY <1>16 DEF EndGroups
    <2>2. \A r : Done(r)' => Done(r)
      BY <2>1 DEF Done
    <2> QED BY <1>1, <1>2, <2>1, <2>2, PartsStay
  <1> QED BY <1>4, <1>5, <1>7, <1>8, <1>9, <1>10, <1>12, <1>13, <1>14, <1>15, <1>16 DEF DecodeActions

LEMMA NextPartsPlaced == Laid /\ ChunkDecoded /\ PartsPlaced /\ [Next]_vars => PartsPlaced'
  <1> SUFFICES ASSUME Laid, ChunkDecoded, PartsPlaced, [Next]_vars PROVE PartsPlaced'
    OBVIOUS
  <1> USE DEF inputs, plan, decode, budget, outputs
  <1>1. CASE UNCHANGED vars
    <2>1. /\ archive' = archive /\ groups' = groups /\ files' = files /\ pc' = pc /\ gi' = gi /\ ri' = ri
      BY <1>1 DEF vars
    <2>2. CASE Decoding
      <3>1. \A r : Done(r)' => Done(r)
        BY <2>1 DEF Done
      <3>2. pc' # "reserve" /\ (pc' = "finalize" => gi' > Len(groups))
        BY <2>1, <2>2 DEF Decoding, PartsPlaced
      <3> QED BY <2>1, <2>2, <3>1, <3>2, PartsStay
    <2>3. CASE ~Decoding
      BY <2>1, <2>3 DEF PartsPlaced, Decoding
    <2> QED BY <2>2, <2>3
  <1>2. CASE StartActions \/ FileActions \/ SortActions
    <2>1. Building' \/ pc' = "sort" \/ pc' = "done" \/ pc' = "plan"
      BY <1>2, FilesFrame DEF Laid
    <2> QED BY <2>1 DEF PartsPlaced, Decoding, Building
  <1>3. CASE PassFile \/ PlanFile \/ RefuseFile
    BY <1>3 DEF PassFile, PlanFile, RefuseFile, PartsPlaced, Decoding
  <1>4. CASE EndPlan
    BY <1>4 DEF EndPlan, PartsPlaced, Decoding
  <1>5. CASE ReportSkipped \/ ReportFailure \/ ReportResult
    <2>1. /\ archive' = archive /\ groups' = groups /\ files' = files /\ gi' = gi
          /\ pc = "finalize" /\ pc' = "finalize"
      BY <1>5 DEF ReportSkipped, ReportFailure, ReportResult
    <2>2. (\A r : Done(r)' => Done(r)) /\ Decoding
      BY <2>1 DEF Done, Decoding
    <2>3. gi' > Len(groups)
      BY <2>1 DEF PartsPlaced
    <2> QED BY <2>1, <2>2, <2>3, PartsStay
  <1>6. CASE Return
    BY <1>6 DEF Return, PartsPlaced, Decoding
  <1> QED BY <1>1, <1>2, <1>3, <1>4, <1>5, <1>6, ReservePlaced, DecodePartsPlaced
          DEF Next, Returned, Step, StartActions, FileActions, SortActions, PlanActions,
              DecodeActions, ReportActions

-----------------------------------------------------------------------------
(* Why files fail.                                                         *)

\* Only files that can be located are assembled, and a file in order fails
\* only for want of memory, where there is not room for everything.
FailuresExplained ==
  \A i \in DOMAIN files :
    /\ files[i].assemble => ~External(i) /\ Located(i)
    /\ files[i].failed /\ Sound(i) => files[i].err = "LimitExceeded" /\ ~AmpleMemory

LEMMA InitFailuresExplained == Begun => FailuresExplained
  <1> SUFFICES ASSUME Begun PROVE FailuresExplained
    OBVIOUS
  <1>1. files = [i \in DOMAIN archive.files |-> FreshFile]
    BY DEF Begun, Called
  <1>2. \A i \in DOMAIN files : ~files[i].assemble /\ ~files[i].failed
    BY <1>1 DEF FreshFile
  <1> QED BY <1>2 DEF FailuresExplained

LEMMA OutputSizesType ==
  ASSUME archive \in Archive
  PROVE  /\ OutputSizes \in Seq(Nat) /\ Len(OutputSizes) = Len(archive.files)
         /\ DOMAIN OutputSizes = DOMAIN archive.files
         /\ \A i \in DOMAIN archive.files : ~External(i) /\ Located(i) =>
              OutputSizes[i] = OutputSize(i) /\ OutputSize(i) \in Nat
         /\ Total(OutputSizes) \in Nat
  <1>1. ASSUME NEW i \in DOMAIN archive.files, Located(i) PROVE OutputSize(i) \in Nat
    <2>1. archive.files[i] \in FileEntry
      BY DEF Archive
    <2>2. archive.files[i].size \in Nat
      BY <2>1, IntAssumption DEF FileEntry, Uint
    <2>3. /\ Len(Parts(i)) \in 0..Len(Parts(i)) /\ DOMAIN Parts(i) = 1..Len(Parts(i))
      BY PartEndsEquation
    <2>4. PartEnds(i)[Len(Parts(i))] \in Nat
      BY <1>1, <2>3, PartEndsType DEF Located, Parts
    <2> QED BY <2>2, <2>4 DEF OutputSize, Parts
  <1>2. \A i \in DOMAIN archive.files : (IF External(i) \/ ~Located(i) THEN 0 ELSE OutputSize(i)) \in Nat
    BY <1>1
  <1>3. archive.files \in Seq(FileEntry)
    BY DEF Archive
  <1>4. OutputSizes \in Seq(Nat) /\ Len(OutputSizes) = Len(archive.files)
    BY <1>2, <1>3 DEF OutputSizes
  <1> QED BY <1>1, <1>4, TotalType DEF OutputSizes

\* Where there is room for everything, there is for a part of any one file.
LEMMA AmpleRoom ==
  ASSUME archive \in Archive, AmpleMemory, NEW i \in DOMAIN archive.files, Located(i),
         NEW m \in DOMAIN Parts(i)
  PROVE  LET e == Entry(Parts(i)[m])
         IN  /\ Total(OutputSizes) + e.chunk.length + e.chunk.dict + Len(PartBytes(e)) <= limit
             /\ e.chunk.length \in Nat /\ e.chunk.dict \in Nat /\ Len(PartBytes(e)) \in Nat
             /\ e \in DataEntry
  <1> DEFINE e == Entry(Parts(i)[m])
  <1>1. e \in DataEntry /\ \E k \in DOMAIN archive.entries : e = archive.entries[k]
    BY LocatedPart
  <1>2. e.chunk \in Chunk /\ Len(PartBytes(e)) \in Nat
    BY <1>1, PartBytesLength DEF DataEntry
  <1>3. Total(OutputSizes) + e.chunk.length + e.chunk.dict + Len(PartBytes(e)) <= limit
    <2>1. PICK k \in DOMAIN archive.entries : e = archive.entries[k]
      BY <1>1
    <2> HIDE DEF e
    <2> QED BY <2>1 DEF AmpleMemory, OutputSizes
  <1> QED BY <1>1, <1>2, <1>3 DEF Chunk

\* The planned output is part of all output.
LEMMA PlannedOutput ==
  ASSUME Laid, FailuresExplained, Planning \/ Decoding
  PROVE  total \in Nat /\ total <= Total(OutputSizes)
  <1>1. /\ files \in Seq(FileAssembly) /\ Len(files) = Len(archive.files) /\ archive \in Archive
        /\ total \in Nat /\ archiveErr = "none" /\ ~Building
    BY IntAssumption DEF Laid, IInv, TypeOK, InRange, FilesBuilt, Planning, Decoding, Building, Uint
  <1>2. \A i \in DOMAIN files : i \in DOMAIN archive.files /\ i \in 1..Len(files)
    BY <1>1 DEF Archive
  <1>3. ASSUME NEW i \in DOMAIN files, files[i].assemble
        PROVE  files[i].totalSize = OutputSizes[i] /\ OutputSizes[i] \in Nat
    <2>1. ~External(i) /\ Located(i)
      BY <1>3 DEF FailuresExplained
    <2>2. files[i].totalSize = OutputSize(i)
      BY <1>1, <2>1, BuiltFile DEF Laid, Built
    <2> QED BY <1>1, <1>2, <2>1, <2>2, OutputSizesType
  <1>4. /\ OutputSizes \in Seq(Nat) /\ Len(OutputSizes) = Len(files)
        /\ Planned(files) \in Seq(Nat) /\ Len(Planned(files)) = Len(files)
        /\ Buffers(files) \in Seq(Nat) /\ Len(Buffers(files)) = Len(files)
    BY <1>1, OutputSizesType, SizesType
  <1>5. \A i \in 1..Len(files) : i \in DOMAIN files /\ OutputSizes[i] \in Nat
    BY <1>1, <1>4
  <1>6. CASE Planning
    <2>1. \A i \in 1..Len(files) : Planned(files)[i] <= OutputSizes[i]
      BY <1>3, <1>5 DEF Planned
    <2> QED BY <1>1, <1>4, <1>6, <2>1, TotalLeq DEF Laid, BuffersPlanned
  <1>7. CASE Decoding
    <2>1. ASSUME NEW i \in DOMAIN files
          PROVE  Len(files[i].data) = IF files[i].assemble THEN files[i].totalSize ELSE 0
      BY <1>7 DEF Laid, BuffersPlanned
    <2>2. \A i \in 1..Len(files) : Buffers(files)[i] <= OutputSizes[i]
      BY <1>3, <1>5, <2>1 DEF Buffers
    <2> QED BY <1>1, <1>4, <1>7, <2>2, TotalLeq DEF Laid, BuffersPlanned
  <1> QED BY <1>6, <1>7

\* A step that marks files explains those failures.
LEMMA MarkExplained ==
  ASSUME Laid, FailuresExplained, archive' = archive, limit' = limit,
         NEW marked, NEW err \in Errors, files' = markFailure(files, marked, err),
         \A i \in DOMAIN files : i \in marked /\ Sound(i) => err = "LimitExceeded" /\ ~AmpleMemory
  PROVE  FailuresExplained'
  <1>1. /\ DOMAIN files' = DOMAIN files
        /\ \A i \in DOMAIN files :
             /\ files'[i].assemble = files[i].assemble
             /\ files'[i].failed <=> files[i].failed \/ i \in marked
             /\ files'[i].err = IF i \in marked /\ ~files[i].failed THEN err ELSE files[i].err
    BY MarkedFiles DEF Laid
  <1>2. AmpleMemory' = AmpleMemory
    BY AmpleFixed
  <1>3. \A i : Sound(i)' = Sound(i) /\ External(i)' = External(i) /\ Located(i)' = Located(i)
    BY ArchiveFixed, ContentFixed
  <1>4. ASSUME NEW i \in DOMAIN files, files'[i].failed, Sound(i)
        PROVE  files'[i].err = "LimitExceeded" /\ ~AmpleMemory
    <2>1. CASE i \in marked /\ ~files[i].failed
      BY <1>1, <1>4, <2>1
    <2>2. CASE files[i].failed
      BY <1>1, <1>4, <2>2 DEF FailuresExplained
    <2> QED BY <1>1, <1>4, <2>1, <2>2
  <1>5. \A i \in DOMAIN files : files'[i].assemble => ~External(i) /\ Located(i)
    BY <1>1 DEF FailuresExplained
  <1> QED BY <1>1, <1>2, <1>3, <1>4, <1>5 DEF FailuresExplained

\* A step that marks no file.
LEMMA NoneExplained ==
  ASSUME FailuresExplained, archive' = archive, limit' = limit, DOMAIN files' = DOMAIN files,
         \A i \in DOMAIN files :
           /\ files'[i].assemble => files[i].assemble \/ (~External(i) /\ Located(i))
           /\ files'[i].failed => files[i].failed /\ files'[i].err = files[i].err
  PROVE  FailuresExplained'
  <1>1. AmpleMemory' = AmpleMemory
    BY AmpleFixed
  <1>2. \A i : Sound(i)' = Sound(i) /\ External(i)' = External(i) /\ Located(i)' = Located(i)
    BY ArchiveFixed, ContentFixed
  <1> QED BY <1>1, <1>2 DEF FailuresExplained

\* The room for everything is more than the room for the output.
LEMMA AmpleOutput ==
  ASSUME Laid, AmpleMemory, NEW i \in DOMAIN files, Located(i)
  PROVE  Total(OutputSizes) <= limit /\ Total(OutputSizes) \in Nat /\ limit \in Nat /\ limit <= MaxInt
  <1>1. archive \in Archive /\ i \in DOMAIN archive.files /\ limit \in 0..MaxInt
    BY DEF Laid, IInv, TypeOK, InRange, Archive
  <1>2. 1 \in DOMAIN Parts(i)
    BY <1>1, PartEndsEquation
  <1>3. LET e == Entry(Parts(i)[1])
        IN  /\ Total(OutputSizes) + e.chunk.length + e.chunk.dict + Len(PartBytes(e)) <= limit
            /\ e.chunk.length \in Nat /\ e.chunk.dict \in Nat /\ Len(PartBytes(e)) \in Nat
    BY <1>1, <1>2, AmpleRoom
  <1>4. Total(OutputSizes) \in Nat
    BY <1>1, OutputSizesType
  <1>5. PICK a, b, c \in Nat :
          LET e == Entry(Parts(i)[1])
          IN  a = e.chunk.length /\ b = e.chunk.dict /\ c = Len(PartBytes(e))
    BY <1>3
  <1>6. PICK t \in Nat : t = Total(OutputSizes)
    BY <1>4
  <1>7. ((t + a) + b) + c <= limit /\ limit \in 0..MaxInt /\ MaxInt \in Nat
    BY <1>1, <1>3, <1>5, <1>6, IntAssumption
  <1>8. t <= limit /\ limit \in Nat /\ limit <= MaxInt
    BY <1>7
  <1> QED BY <1>6, <1>8

\* A file is refused only where the output does not fit into the limit.
LEMMA RefusedFile ==
  ASSUME Laid, FailuresExplained, RefuseFile, Sound(fi)
  PROVE  ~AmpleMemory
  <1>1. SUFFICES ASSUME AmpleMemory PROVE FALSE
    OBVIOUS
  <1> DEFINE size == files[fi].totalSize
             x == Planned(files)
             y == [x EXCEPT ![fi] = size]
  <1>2. /\ pc = "plan" /\ fi <= Len(files) /\ Assembled /\ ~Fits
    BY DEF RefuseFile, MoreFiles
  <1>3. /\ files \in Seq(FileAssembly) /\ archive \in Archive /\ Len(files) = Len(archive.files)
        /\ archiveErr = "none" /\ ~Building /\ Planning /\ fi \in DOMAIN files
        /\ fi \in 1..Len(files) /\ Len(files) \in Nat
    BY <1>2, FileTypes DEF Laid, IInv, TypeOK, InRange, FilesBuilt, Planning, Building
  <1>4. Built(fi, files[fi]) /\ fi \in DOMAIN archive.files
    BY <1>3, BuiltFile DEF Laid
  <1>5. ~External(fi) /\ Located(fi) /\ size = OutputSize(fi) /\ ~files[fi].assemble
    <2>1. ~files[fi].assemble
      BY <1>2, <1>3 DEF Laid, BuffersPlanned, IInv, TypeOK
    <2> QED BY <1>2, <1>4, <2>1 DEF Built, Assembled
  <1>6. /\ OutputSizes \in Seq(Nat) /\ Len(OutputSizes) = Len(files)
        /\ size = OutputSizes[fi] /\ size \in Nat
    BY <1>3, <1>4, <1>5, OutputSizesType
  <1>7. x \in Seq(Nat) /\ Len(x) = Len(files) /\ x[fi] = 0 /\ total = Total(x)
    BY <1>3, <1>5, SizesType DEF Planned, Laid, BuffersPlanned
  <1>8. \A i \in 1..Len(files) : x[i] <= OutputSizes[i]
    <2>1. ASSUME NEW i \in 1..Len(files) PROVE x[i] <= OutputSizes[i]
      <3>1. i \in DOMAIN files /\ i \in DOMAIN archive.files /\ OutputSizes[i] \in Nat
        BY <1>3, <1>6 DEF Archive
      <3>2. CASE files[i].assemble
        <4>1. ~External(i) /\ Located(i)
          BY <3>1, <3>2 DEF FailuresExplained
        <4>2. files[i].totalSize = OutputSize(i)
          BY <1>3, <3>1, <4>1, BuiltFile DEF Laid, Built
        <4>3. OutputSizes[i] = OutputSize(i)
          BY <1>3, <3>1, <4>1, OutputSizesType
        <4> QED BY <3>1, <3>2, <4>2, <4>3 DEF Planned
      <3>3. CASE ~files[i].assemble
        BY <3>1, <3>3 DEF Planned
      <3> QED BY <3>2, <3>3
    <2> QED BY <2>1
  <1>9. Total(OutputSizes) <= limit /\ Total(OutputSizes) \in Nat /\ limit \in Nat /\ limit <= MaxInt
    BY <1>1, <1>3, <1>5, AmpleOutput
  <1>10. total \in Nat
    BY <1>3, PlannedOutput
  <1>11. ~(size <= MaxInt /\ size <= MaxUint - total)
    BY <1>2 DEF Fits
  <1> HIDE DEF size, x
  <1>12. /\ y \in Seq(Nat) /\ Len(y) = Len(files) /\ y[fi] = size
         /\ \A i \in 1..Len(files) : i # fi => y[i] = x[i]
    BY <1>3, <1>6, <1>7
  <1> HIDE DEF y
  <1>13. Total(y) = total + size
    <2>1. Total(y) = Total(x) - x[fi] + y[fi]
      BY <1>3, <1>7, <1>12, TotalChange
    <2> QED BY <1>6, <1>7, <1>10, <1>12, <2>1
  <1>14. Total(y) <= Total(OutputSizes)
    <2>1. \A i \in 1..Len(y) : y[i] <= OutputSizes[i]
      BY <1>6, <1>8, <1>12
    <2> QED BY <1>6, <1>12, <2>1, TotalLeq
  <1>15. total + size <= MaxInt
    BY <1>6, <1>9, <1>10, <1>13, <1>14, IntAssumption
  <1> QED BY <1>6, <1>10, <1>11, <1>15, IntAssumption

\* The planning.
LEMMA PlanExplained ==
  ASSUME Laid, FailuresExplained, PlanActions
  PROVE  FailuresExplained'
  <1> USE DEF inputs, plan, decode, budget, outputs
  <1>1. /\ archive' = archive /\ limit' = limit /\ DOMAIN files' = DOMAIN files
        /\ files \in Seq(FileAssembly) /\ \A i \in DOMAIN files : files[i] \in FileAssembly
    BY PlanFrame DEF Laid, IInv, TypeOK
  <1>2. CASE PassFile \/ EndPlan
    <2>1. files' = files
      BY <1>2 DEF PassFile, EndPlan
    <2> QED BY <1>1, <2>1, NoneExplained
  <1>3. CASE PlanFile
    <2>1. /\ pc = "plan" /\ fi <= Len(files) /\ Assembled
          /\ files' = [files EXCEPT ![fi] = [files[fi] EXCEPT !.assemble = TRUE]]
      BY <1>3 DEF PlanFile, MoreFiles
    <2>2. fi \in DOMAIN files /\ archiveErr = "none" /\ ~Building
      BY <2>1, FileTypes DEF Laid, FilesBuilt, Building
    <2>3. ~External(fi) /\ Located(fi)
      BY <2>1, <2>2, BuiltFile DEF Laid, Built, Assembled
    <2>4. \A i \in DOMAIN files :
            /\ files'[i].assemble => files[i].assemble \/ i = fi
            /\ files'[i].failed = files[i].failed /\ files'[i].err = files[i].err
      BY <1>1, <2>1, <2>2 DEF FileAssembly
    <2> QED BY <1>1, <2>3, <2>4, NoneExplained
  <1>4. CASE RefuseFile
    <2>1. files' = markFailure(files, {fi}, "LimitExceeded") /\ "LimitExceeded" \in Errors
      BY <1>4 DEF RefuseFile, Errors
    <2> QED BY <1>1, <1>4, <2>1, RefusedFile, MarkExplained
  <1>5. CASE ReserveOutput
    <2>1. ASSUME NEW i \in DOMAIN files
          PROVE  /\ files'[i].assemble = files[i].assemble
                 /\ files'[i].failed = files[i].failed /\ files'[i].err = files[i].err
      <3> DEFINE d == [k \in 1..files[i].totalSize |-> Zero]
      <3>1. files'[i] = IF HasBuffer(i) THEN [files[i] EXCEPT !.data = d] ELSE files[i]
        BY <1>5 DEF ReserveOutput
      <3> HIDE DEF d
      <3> QED BY <1>1, <3>1 DEF FileAssembly
    <2> QED BY <1>1, <2>1, NoneExplained
  <1>6. CASE RefuseOutput
    <2> DEFINE assembled == {j \in DOMAIN files : files[j].assemble}
               marked == markFailure(files, assembled, "LimitExceeded")
    <2>1. /\ files' = [j \in DOMAIN files |-> [marked[j] EXCEPT !.assemble = FALSE]]
          /\ pc = "reserve" /\ ~CanReserve(total)
      BY <1>6 DEF RefuseOutput
    <2>2. "LimitExceeded" \in Errors
      BY DEF Errors
    <2>3. marked \in Seq(FileAssembly) /\ DOMAIN marked = DOMAIN files
      BY <1>1, <2>2, MarkFailureType DEF markFailure
    <2>4. ASSUME NEW i \in DOMAIN files
          PROVE  /\ ~files'[i].assemble
                 /\ files'[i].failed <=> files[i].failed \/ files[i].assemble
                 /\ files'[i].err = IF files[i].assemble /\ ~files[i].failed
                                    THEN "LimitExceeded" ELSE files[i].err
      <3> DEFINE m == marked[i]
      <3>1. /\ m.failed = (files[i].failed \/ i \in assembled)
            /\ m.err = IF i \in assembled /\ ~files[i].failed THEN "LimitExceeded" ELSE files[i].err
        BY <1>1, <2>2, MarkFailureFields
      <3>2. m \in FileAssembly /\ files'[i] = [m EXCEPT !.assemble = FALSE]
        BY <2>1, <2>3
      <3>3. i \in assembled <=> files[i].assemble
        OBVIOUS
      <3> HIDE DEF m, assembled
      <3>4. /\ ~files'[i].assemble /\ files'[i].failed = m.failed /\ files'[i].err = m.err
        BY <3>2 DEF FileAssembly
      <3> QED BY <3>1, <3>3, <3>4
    <2> HIDE DEF marked, assembled
    <2>5. ASSUME NEW i \in DOMAIN files, files[i].assemble PROVE ~AmpleMemory
      <3>1. SUFFICES ASSUME AmpleMemory PROVE FALSE
        OBVIOUS
      <3>2. Located(i)
        BY <2>5 DEF FailuresExplained
      <3>3. Total(OutputSizes) <= limit /\ Total(OutputSizes) \in Nat /\ limit \in Nat
        BY <3>1, <3>2, AmpleOutput
      <3>4. total \in Nat /\ total <= Total(OutputSizes)
        BY <2>1, PlannedOutput DEF Planning
      <3>5. available = limit - used /\ used = 0
        BY <2>1, AvailableType DEF Laid, IInv, NothingReserved
      <3> QED BY <2>1, <3>3, <3>4, <3>5 DEF CanReserve
    <2>6. AmpleMemory' = AmpleMemory
      BY <1>1, AmpleFixed
    <2>7. \A i : Sound(i)' = Sound(i)
      BY <1>1, ContentFixed
    <2>8. ASSUME NEW i \in DOMAIN files, files'[i].failed, Sound(i)
          PROVE  files'[i].err = "LimitExceeded" /\ ~AmpleMemory
      <3>1. CASE files[i].failed
        BY <2>4, <2>8, <3>1 DEF FailuresExplained
      <3>2. CASE ~files[i].failed
        BY <2>4, <2>5, <2>8, <3>2
      <3> QED BY <3>1, <3>2
    <2> QED BY <1>1, <2>4, <2>6, <2>7, <2>8 DEF FailuresExplained
  <1> QED BY <1>2, <1>3, <1>4, <1>5, <1>6 DEF PlanActions

\* A file in order has only parts in order.
LEMMA SoundFile ==
  ASSUME NEW i, Sound(i), NEW m \in DOMAIN Parts(i)
  PROVE  SoundPart(Entry(Parts(i)[m])) /\ SoundChunk(Entry(Parts(i)[m]).chunk) /\ Located(i)
  BY DEF Sound, SoundParts, SoundPart, Parts

\* What is available while a chunk is decoded: what the output has left.
LEMMA LeftForChunk ==
  ASSUME Laid, FailuresExplained, pc \in {"group", "read", "chunk", "segment"}
  PROVE  /\ available = limit - used /\ limit \in Nat /\ total \in Nat
         /\ total <= Total(OutputSizes) /\ Total(OutputSizes) \in Nat
         /\ used = IF pc = "segment" THEN total + Len(chunkData) ELSE total
  <1>1. available = limit - used /\ limit \in Nat
    BY AvailableType DEF Laid, IInv, TypeOK
  <1>2. total \in Nat /\ total <= Total(OutputSizes)
    BY PlannedOutput DEF Decoding
  <1>3. Total(OutputSizes) \in Nat
    BY OutputSizesType DEF Laid, IInv, TypeOK
  <1> QED BY <1>1, <1>2, <1>3 DEF Laid, IInv, BudgetHolds

\* A chunk of a file in order fails only for want of memory.
LEMMA FailedChunk ==
  ASSUME Laid, ChunkDecoded, FailuresExplained, gi <= Len(groups),
         NEW i \in Owners(group), Sound(i), NEW err,
         \/ pc = "group" /\ err = OpenError(group.chunk) /\ err # "none"
         \/ pc = "read" /\ err = ReadError(group.chunk) /\ err # "none"
         \/ pc = "chunk" /\ err = "LimitExceeded" /\ ~CanReserve(Len(chunkData))
  PROVE  err = "LimitExceeded" /\ ~AmpleMemory
  <1> DEFINE c == group.chunk
  <1>1. Decoding /\ archive \in Archive /\ c \in Chunk
    BY GroupTypes DEF Decoding, Laid, IInv, TypeOK
  <1>2. i \in DOMAIN files /\ \E m \in DOMAIN Parts(i) : Entry(Parts(i)[m]).chunk = c
    BY <1>1, OwnerPart
  <1>3. PICK m \in DOMAIN Parts(i) : Entry(Parts(i)[m]).chunk = c
    BY <1>2
  <1>4. SoundChunk(c) /\ Located(i) /\ i \in DOMAIN archive.files
    BY <1>1, <1>2, <1>3, SoundFile DEF Laid, IInv, InRange, TypeOK, Archive
  <1>5. c.dict \in Nat /\ c.length \in Nat
    BY <1>1 DEF Chunk
  <1>6. /\ available = limit - total /\ limit \in Nat /\ total \in Nat
        /\ total <= Total(OutputSizes) /\ Total(OutputSizes) \in Nat
    BY LeftForChunk
  <1> HIDE DEF c
  <1>7. c.dict > available \/ c.length > available => ~AmpleMemory
    <2>1. SUFFICES ASSUME AmpleMemory, c.dict > available \/ c.length > available PROVE FALSE
      OBVIOUS
    <2> DEFINE n == Len(PartBytes(Entry(Parts(i)[m])))
    <2>2. Total(OutputSizes) + c.length + c.dict + n <= limit /\ n \in Nat
      BY <1>1, <1>3, <1>4, <2>1, AmpleRoom
    <2> HIDE DEF n
    <2> QED BY <1>5, <1>6, <2>1, <2>2
  <1>8. CASE pc = "group"
    <2>1. err = OpenError(c) /\ err # "none"
      BY <1>8 DEF c
    <2>2. err = "LimitExceeded" /\ c.dict > available
      BY <1>4, <2>1 DEF OpenError, SoundChunk
    <2> QED BY <1>7, <2>2
  <1>9. CASE pc = "read"
    <2>1. err = ReadError(c) /\ err # "none"
      BY <1>9 DEF c
    <2>2. err = "LimitExceeded" /\ c.length > available
      BY <1>4, <2>1 DEF ReadError, SoundChunk
    <2> QED BY <1>7, <2>2
  <1>10. CASE pc = "chunk"
    <2>1. err = "LimitExceeded" /\ ~CanReserve(Len(chunkData)) /\ chunkData = ChunkBytes(c)
      BY <1>10 DEF ChunkDecoded, c
    <2>2. Len(chunkData) = c.length
      BY <1>1, <2>1, ChunkBytesLength DEF c
    <2>3. c.length > available
      BY <1>5, <1>6, <2>1, <2>2 DEF CanReserve
    <2> QED BY <1>7, <2>1, <2>3
  <1> QED BY <1>8, <1>9, <1>10

\* A segment of a file in order fails only for want of memory.
LEMMA FailedSegment ==
  ASSUME Laid, ChunkDecoded, FailuresExplained, pc = "segment", ri <= Len(group.refs),
         Sound(ref.file), NEW err,
         \/ err = SegmentError(ref.entry) /\ err # "none"
         \/ /\ err = "LimitExceeded" /\ SegmentError(ref.entry) = "none"
            /\ ref.entry.filter # "none"
            /\ ~CanReserve(Len(Filtered(ref.entry, StoredBytes(ref.entry))))
  PROVE  err = "LimitExceeded" /\ ~AmpleMemory
  <1> DEFINE e == ref.entry
             i == ref.file
  <1>1. /\ Decoding /\ gi <= Len(groups)
        /\ e \in DataEntry /\ e.chunk = group.chunk
        /\ Len(chunkData) = group.chunk.length
        /\ group.chunk.length \in Nat /\ group.chunk.dict \in Nat
        /\ e.filter \in Filters /\ e.size \in Nat /\ e.inflated \in Nat
        /\ InChunk(e) <=> e.offset + e.size <= group.chunk.length
        /\ InChunk(e) => Filtered(e, StoredBytes(e)) = PartBytes(e)
    BY DecodedSegment
  <1>2. i \in DOMAIN files /\ \E m \in DOMAIN Parts(i) : HoldsPart(groups, <<gi, ri>>, i, m)
    BY <1>1, RefPart
  <1>3. groups[gi].refs[ri] = ref
    BY <1>1, RefPart
  <1>4. PICK m \in DOMAIN Parts(i) : e = Entry(Parts(i)[m])
    BY <1>2, <1>3 DEF HoldsPart
  <1>5. i \in DOMAIN archive.files /\ archive \in Archive
    BY <1>2 DEF Laid, IInv, TypeOK, InRange, Archive
  <1>6. SoundPart(e) /\ Located(i)
    BY <1>4, SoundFile
  <1>7. /\ Len(PartBytes(e)) = IF e.filter = "zlib" THEN e.inflated ELSE e.size
        /\ Len(PartBytes(e)) \in Nat
    BY <1>1, PartBytesLength
  <1>8. /\ available = limit - used /\ limit \in Nat /\ total \in Nat
        /\ total <= Total(OutputSizes) /\ Total(OutputSizes) \in Nat
        /\ used = total + Len(chunkData)
    BY LeftForChunk
  <1>9. /\ e.intact /\ (e.filter = "zlib" => e.inflates) /\ InChunk(e)
    BY <1>1, <1>6 DEF SoundPart
  <1> DEFINE n == Len(PartBytes(e))
  <1>10. err = "LimitExceeded" /\ n > available
    <2>1. CASE err = SegmentError(e) /\ err # "none"
      BY <1>7, <1>9, <2>1 DEF SegmentError
    <2>2. CASE ~(err = SegmentError(e) /\ err # "none")
      <3>1. err = "LimitExceeded" /\ ~CanReserve(n)
        BY <1>1, <1>9, <2>2
      <3> HIDE DEF e, n
      <3>2. n \in Nat /\ available \in Int
        BY <1>1, <1>7, <1>8 DEF n
      <3> QED BY <3>1, <3>2 DEF CanReserve
    <2> QED BY <2>1, <2>2
  <1>11. ASSUME AmpleMemory PROVE FALSE
    <2>1. Total(OutputSizes) + e.chunk.length + e.chunk.dict + n <= limit
      BY <1>4, <1>5, <1>6, <1>11, AmpleRoom
    <2>2. n \in Nat /\ e.chunk.length = Len(chunkData) /\ e.chunk.length \in Nat /\ e.chunk.dict \in Nat
      BY <1>1, <1>7
    <2> DEFINE c == Len(chunkData)
               d == e.chunk.dict
               N == Total(OutputSizes)
    <2>3. N + c + d + n <= limit /\ c \in Nat /\ d \in Nat
      BY <2>1, <2>2
    <2>4. available = limit - used /\ limit \in Nat /\ total <= N /\ N \in Nat /\ total \in Nat /\ used = total + c
      BY <1>8
    <2>5. n > available /\ n \in Nat
      BY <1>10, <2>2
    <2> HIDE DEF n, e, c, d, N
    <2> QED BY ONLY <2>3, <2>4, <2>5
  <1> QED BY <1>10, <1>11

\* A segment of a file in order always fits.
LEMMA MisplacedSegment ==
  ASSUME Laid, ChunkDecoded, pc = "place", Sound(ref.file)
  PROVE  PlaceError(ref) = "none"
  <1> DEFINE e == ref.entry
             i == ref.file
             f == files[i]
  <1>1. /\ Decoding /\ gi <= Len(groups) /\ ri <= Len(group.refs)
        /\ i \in DOMAIN files /\ f.data \in Seq(Byte)
        /\ e \in DataEntry /\ ref.dest \in Nat /\ e.uncompressedSize \in Nat
        /\ segment = PartBytes(e) /\ Len(segment) \in Nat
        /\ i \in DOMAIN archive.files /\ archive \in Archive
        /\ ~External(i) /\ Located(i)
    BY PlacedSegment
  <1>2. PICK m \in DOMAIN Parts(i) : HoldsPart(groups, <<gi, ri>>, i, m)
    BY <1>1, RefPart
  <1>3. groups[gi].refs[ri] = ref
    BY <1>1, RefPart
  <1>4. e = Entry(Parts(i)[m]) /\ ref.dest = PartEnds(i)[m - 1]
    BY <1>2, <1>3 DEF HoldsPart
  <1>5. Len(segment) = e.uncompressedSize
    BY <1>1, <1>4, SoundFile DEF SoundPart
  <1>6. f.assemble => ref.dest + Len(segment) <= Len(f.data)
    <2>1. SUFFICES ASSUME f.assemble PROVE ref.dest + Len(segment) <= Len(f.data)
      OBVIOUS
    <2>2. Len(f.data) = f.totalSize
      BY <1>1, <2>1 DEF Laid, BuffersPlanned
    <2>3. f.totalSize = OutputSize(i)
      BY <1>1, DecodingBasics, BuiltFile DEF Laid, Built
    <2>4. PartEnds(i)[Len(Parts(i))] <= OutputSize(i)
      BY DEF Sound, Parts
    <2>5. PartEnds(i)[m] = ref.dest + Len(segment) /\ PartEnds(i)[m] \in Nat
          /\ m \in Nat /\ m >= 1 /\ m <= Len(Parts(i)) /\ Len(Parts(i)) \in Nat
      BY <1>1, <1>2, <1>4, <1>5, LocatedPart
    <2>6. PartEnds(i)[m] <= PartEnds(i)[Len(Parts(i))] /\ PartEnds(i)[Len(Parts(i))] \in Nat
      <3>1. m \in 0..Len(Parts(i)) /\ Len(Parts(i)) \in m..Len(Parts(i))
        BY <2>5
      <3>2. \A k \in 1..Len(Parts(i)) : IsEntry(Parts(i)[k])
        BY <1>1, PartEndsEquation DEF Located, Parts
      <3> QED BY <1>1, <3>1, <3>2, PartEndsMonotone
    <2>7. Len(f.data) \in Nat
      BY <1>1
    <2> HIDE DEF f, i
    <2> QED BY <2>2, <2>3, <2>4, <2>5, <2>6, <2>7
  <1>7. f.assemble => ~(ref.dest > Len(f.data)) /\ ~(Len(segment) > Len(f.data) - ref.dest)
    <2>1. Len(f.data) \in Nat
      BY <1>1
    <2>2. \A a, b, n \in Nat : a + b <= n => ~(a > n) /\ ~(b > n - a)
      OBVIOUS
    <2> QED BY <1>1, <1>6, <2>1, <2>2
  <1> QED BY <1>5, <1>7 DEF PlaceError

LEMMA DecodeExplained ==
  ASSUME Laid, ChunkDecoded, FailuresExplained, DecodeActions
  PROVE  FailuresExplained'
  <1> USE DEF inputs, plan, decode, budget, outputs
  <1>1. archive' = archive /\ limit' = limit /\ IInv /\ Decoding /\ "LimitExceeded" \in Errors
    BY DecodeFrame DEF Laid, Errors
  <1>2. CASE files' = files
    BY <1>1, <1>2, NoneExplained
  <1>3. ASSUME NEW err \in Errors, FailGroup(err), gi <= Len(groups),
               \A i \in Owners(group) : Sound(i) => err = "LimitExceeded" /\ ~AmpleMemory
        PROVE  FailuresExplained'
    BY <1>1, <1>3, MarkExplained DEF FailGroup
  <1>4. CASE FailOpen
    <2>1. /\ pc = "group" /\ gi <= Len(groups) /\ OpenError(group.chunk) # "none"
          /\ FailGroup(OpenError(group.chunk)) /\ OpenError(group.chunk) \in Errors
      BY <1>4 DEF FailOpen, OpenError, Errors
    <2>2. PICK err : err = OpenError(group.chunk)
      OBVIOUS
    <2>3. \A i \in Owners(group) : Sound(i) => err = "LimitExceeded" /\ ~AmpleMemory
      BY <2>1, <2>2, FailedChunk
    <2> QED BY <1>3, <2>1, <2>2, <2>3
  <1>5. CASE FailRead
    <2>1. /\ pc = "read" /\ gi <= Len(groups) /\ ReadError(group.chunk) # "none"
          /\ FailGroup(ReadError(group.chunk)) /\ ReadError(group.chunk) \in Errors
      BY <1>1, <1>5 DEF FailRead, ReadError, Errors, IInv, InRange
    <2>2. PICK err : err = ReadError(group.chunk)
      OBVIOUS
    <2>3. \A i \in Owners(group) : Sound(i) => err = "LimitExceeded" /\ ~AmpleMemory
      BY <2>1, <2>2, FailedChunk
    <2> QED BY <1>3, <2>1, <2>2, <2>3
  <1>6. CASE ReserveChunk
    <2>1. CASE CanReserve(Len(chunkData))
      BY <1>2, <1>6, <2>1 DEF ReserveChunk
    <2>2. CASE ~CanReserve(Len(chunkData))
      <3>1. pc = "chunk" /\ gi <= Len(groups) /\ FailGroup("LimitExceeded")
        BY <1>1, <1>6, <2>2 DEF ReserveChunk, IInv, InRange
      <3>2. \A i \in Owners(group) : Sound(i) => ~AmpleMemory
        BY <2>2, <3>1, FailedChunk
      <3> QED BY <1>1, <1>3, <3>1, <3>2
    <2> QED BY <2>1, <2>2
  <1>7. CASE DecodeSegment
    <2>1. CASE pc' = "place"
      BY <1>2, <1>7, <2>1 DEF DecodeSegment
    <2>2. CASE pc' # "place"
      <3>1. /\ pc = "segment" /\ ri <= Len(group.refs) /\ SegmentError(ref.entry) = "none"
            /\ files' = markFailure(files, {ref.file}, "LimitExceeded")
            /\ ~CanReserve(IF ref.entry.filter = "none" THEN 0
                           ELSE Len(Filtered(ref.entry, StoredBytes(ref.entry))))
        BY <1>7, <2>2 DEF DecodeSegment
      <3>2. ref.entry.filter # "none"
        BY <1>1, <3>1, AvailableType DEF CanReserve
      <3>3. Sound(ref.file) => ~AmpleMemory
        BY <3>1, <3>2, FailedSegment
      <3> QED BY <1>1, <3>1, <3>3, MarkExplained
    <2> QED BY <2>1, <2>2
  <1>8. CASE FailSegment
    <2>1. /\ pc = "segment" /\ ri <= Len(group.refs) /\ SegmentError(ref.entry) # "none"
          /\ files' = markFailure(files, {ref.file}, SegmentError(ref.entry))
          /\ SegmentError(ref.entry) \in Errors
      BY <1>8 DEF FailSegment, SegmentError, Errors
    <2>2. PICK err : err = SegmentError(ref.entry)
      OBVIOUS
    <2>3. Sound(ref.file) => err = "LimitExceeded" /\ ~AmpleMemory
      BY <2>1, <2>2, FailedSegment
    <2> QED BY <1>1, <2>1, <2>2, <2>3, MarkExplained
  <1>9. CASE PlaceSegment
    <2>1. CASE PlaceError(ref) # "none"
      <3>1. /\ pc = "place" /\ files' = markFailure(files, {ref.file}, PlaceError(ref))
            /\ PlaceError(ref) \in Errors
        BY <1>9, <2>1 DEF PlaceSegment, PlaceError, Errors
      <3>2. ~Sound(ref.file)
        BY <2>1, <3>1, MisplacedSegment
      <3> QED BY <1>1, <3>1, <3>2, MarkExplained
    <2>2. CASE PlaceError(ref) = "none"
      <3>1. files \in Seq(FileAssembly) /\ \A i \in DOMAIN files : files[i] \in FileAssembly
        BY <1>1 DEF IInv, TypeOK
      <3> DEFINE d == Copied(files[ref.file].data, ref.dest, segment)
      <3>2. \/ files' = files
            \/ files' = [files EXCEPT ![ref.file] = [files[ref.file] EXCEPT !.data = d]]
        BY <1>9, <2>2 DEF PlaceSegment
      <3> HIDE DEF d
      <3>3. /\ DOMAIN files' = DOMAIN files
            /\ \A i \in DOMAIN files :
                 /\ files'[i].assemble = files[i].assemble
                 /\ files'[i].failed = files[i].failed /\ files'[i].err = files[i].err
        <4>1. DOMAIN files' = DOMAIN files
          BY <3>2
        <4>2. ASSUME NEW i \in DOMAIN files
              PROVE  /\ files'[i].assemble = files[i].assemble
                     /\ files'[i].failed = files[i].failed /\ files'[i].err = files[i].err
          <5>1. files'[i] = files[i] \/ files'[i] = [files[i] EXCEPT !.data = d]
            BY <3>2
          <5>2. files[i] \in FileAssembly
            BY <3>1
          <5> QED BY <5>1, <5>2 DEF FileAssembly
        <4> QED BY <4>1, <4>2
      <3> QED BY <1>1, <3>3, NoneExplained
    <2> QED BY <2>1, <2>2
  <1>10. CASE SkipGroup \/ OpenChunk \/ ReadChunk \/ SkipRef \/ ReleaseChunk \/ EndGroups
    BY <1>2, <1>10 DEF SkipGroup, OpenChunk, ReadChunk, SkipRef, ReleaseChunk, EndGroups
  <1> QED BY <1>4, <1>5, <1>6, <1>7, <1>8, <1>9, <1>10 DEF DecodeActions

LEMMA NextFailuresExplained ==
  Laid /\ ChunkDecoded /\ FailuresExplained /\ [Next]_vars => FailuresExplained'
  <1> SUFFICES ASSUME Laid, ChunkDecoded, FailuresExplained, [Next]_vars PROVE FailuresExplained'
    OBVIOUS
  <1> USE DEF inputs, plan, decode, budget, outputs
  <1>1. CASE UNCHANGED vars \/ ReportActions
    <2>1. archive' = archive /\ limit' = limit /\ files' = files
      BY <1>1 DEF vars, ReportActions, ReportSkipped, ReportFailure, ReportResult, Return
    <2> QED BY <2>1, NoneExplained
  <1>2. CASE RejectArchive
    <2>1. archive' = archive /\ limit' = limit /\ files' = files
      BY <1>2 DEF RejectArchive
    <2> QED BY <2>1, NoneExplained
  <1>3. CASE AcceptArchive
    <2>1. pc = "start" /\ archive' = archive /\ files' = files
      BY <1>3 DEF AcceptArchive
    <2>2. fi = 1 /\ fi \in Nat /\ Building
      BY <2>1 DEF Laid, FilesBuilt, Building
    <2>3. ASSUME NEW i \in DOMAIN files PROVE ~files[i].assemble /\ ~files[i].failed
      <3>1. ~files[i].assemble
        BY <2>2 DEF Laid, BuffersPlanned
      <3>2. ~(i < fi)
        BY <2>2 DEF Laid, IInv, TypeOK
      <3> QED BY <2>2, <3>1, <3>2 DEF Laid, FilesBuilt, Reached
    <2> QED BY <2>1, <2>3 DEF FailuresExplained
  <1>4. CASE FileActions \/ SortActions
    <2>1. /\ archive' = archive /\ limit' = limit /\ DOMAIN files' = DOMAIN files
          /\ \A i \in DOMAIN files : files'[i].assemble = files[i].assemble
      <3>1. archive' = archive /\ limit' = limit
        BY <1>4 DEF FileActions, SortActions, SkipFile, StartFile, AddPart, RejectPart, SizeFile,
                    AddRef, EndFile, EndFiles, SortGroup, EndSort
      <3> QED BY <1>4, <3>1, FilesFrame DEF Laid
    <2>2. CASE files' = files
      BY <2>1, <2>2, NoneExplained
    <2>3. files \in Seq(FileAssembly) /\ \A i \in DOMAIN files : files[i] \in FileAssembly
      BY DEF Laid, IInv, TypeOK
    <2>4. CASE SkipFile \/ SizeFile
      <3>1. PICK size : \/ files' = [files EXCEPT ![fi] = [files[fi] EXCEPT !.skip = TRUE]]
                        \/ files' = [files EXCEPT ![fi] = [files[fi] EXCEPT !.totalSize = size]]
        BY <2>4 DEF SkipFile, SizeFile
      <3>2. ASSUME NEW i \in DOMAIN files
            PROVE  files'[i].failed = files[i].failed /\ files'[i].err = files[i].err
        <4>1. \/ files'[i] = files[i]
              \/ files'[i] = [files[i] EXCEPT !.skip = TRUE]
              \/ files'[i] = [files[i] EXCEPT !.totalSize = size]
          BY <3>1
        <4>2. files[i] \in FileAssembly
          BY <2>3
        <4> QED BY <4>1, <4>2 DEF FileAssembly
      <3> QED BY <2>1, <3>2, NoneExplained
    <2>5. CASE RejectPart
      <3>1. /\ pc = "total" /\ MoreParts /\ ~GoodPart /\ "Corrupt" \in Errors
            /\ files' = markFailure(files, {fi}, "Corrupt")
        BY <2>5 DEF RejectPart, Errors
      <3>2. ~Located(fi)
        BY <3>1, BadPart DEF Laid
      <3>3. ~Sound(fi)
        BY <3>2 DEF Sound, SoundParts
      <3> QED BY <2>1, <3>1, <3>3, MarkExplained
    <2>6. CASE AddRef
      <3>1. pc = "refs" /\ MoreParts
        BY <2>6 DEF AddRef
      <3>2. Part.uncompressedSize <= MaxUint - dest
        BY <3>1, PartFits DEF Laid
      <3>3. files' = files
        BY <2>6, <3>2 DEF AddRef
      <3> QED BY <2>2, <3>3
    <2>7. CASE StartFile \/ AddPart \/ EndFile \/ EndFiles \/ SortActions
      BY <2>2, <2>7 DEF StartFile, AddPart, EndFile, EndFiles, SortActions, SortGroup, EndSort
    <2> QED BY <1>4, <2>4, <2>5, <2>6, <2>7 DEF FileActions
  <1> QED BY <1>1, <1>2, <1>3, <1>4, PlanExplained, DecodeExplained
          DEF Next, Returned, Step, FileActions, SortActions, PlanActions, DecodeActions, ReportActions

-----------------------------------------------------------------------------
(* What is reported.                                                       *)

\* A file in order has no part without a declared size and with bytes.
LEMMA SoundMeasured ==
  ASSUME NEW i, Sound(i)
  PROVE  Measured(i)
  BY DEF Sound, SoundParts, SoundPart, Measured

\* When all groups are done, the buffer of a file that has not failed holds
\* what the archive says.
LEMMA WholeFile ==
  ASSUME Laid, PartsPlaced, pc = "finalize",
         NEW i \in DOMAIN files, ~files[i].skip, ~files[i].failed, Measured(i)
  PROVE  /\ SoundParts(i)
         /\ files[i].assemble => /\ PartEnds(i)[Len(Parts(i))] <= OutputSize(i)
                                 /\ files[i].data = Content(i)
                                 /\ Len(files[i].data) = files[i].totalSize
  <1> DEFINE data == files[i].data
             n == OutputSize(i)
  <1>1. Decoding /\ archiveErr = "none" /\ ~Building
    BY DecodingBasics DEF Laid, Decoding
  <1>2. /\ Built(i, files[i]) /\ i \in DOMAIN archive.files /\ archive \in Archive
        /\ files[i] \in FileAssembly
    BY <1>1, BuiltFile DEF Laid, IInv, TypeOK
  <1>3. ~External(i) /\ Located(i) /\ files[i].totalSize = n
    BY <1>2 DEF Built
  <1>4. FilePlaced(i, files[i])
    BY <1>1, <1>3 DEF PartsPlaced
  <1>5. ASSUME NEW m \in DOMAIN Parts(i) PROVE PartPlaced(i, m, files[i])
    <2>1. PICK r \in Slots(groups, i) : HoldsPart(groups, r, i, m)
      BY <1>1, <1>3, PartSlot
    <2>2. r[1] \in Nat /\ r[1] \in DOMAIN groups
      BY <1>1, SlotPart
    <2>3. gi > Len(groups) /\ gi \in Nat /\ groups \in Seq(ChunkGroup)
      BY DEF PartsPlaced, Laid, IInv, TypeOK
    <2>4. Done(r)
      BY <2>2, <2>3 DEF Done
    <2> QED BY <1>4, <2>1, <2>4 DEF FilePlaced
  <1>6. SoundParts(i)
    BY <1>3, <1>5 DEF SoundParts, PartPlaced, Parts
  <1>7. ASSUME files[i].assemble
        PROVE  /\ PartEnds(i)[Len(Parts(i))] <= n
               /\ data = Content(i) /\ Len(data) = n
    <2>1. Len(data) = n /\ data \in Seq(Byte)
      <3>1. Len(data) = n
        BY <1>1, <1>3, <1>7 DEF Laid, BuffersPlanned
      <3> QED BY <1>2, <3>1 DEF FileAssembly
    <2>2. n \in Nat /\ DOMAIN data = 1..n
      BY <2>1
    <2>3. ASSUME NEW m \in DOMAIN Parts(i)
          PROVE  /\ PartEnds(i)[m - 1] \in Nat /\ m \in Nat
                 /\ PartEnds(i)[m] = PartEnds(i)[m - 1] + Len(PartBytes(Entry(Parts(i)[m])))
                 /\ Len(PartBytes(Entry(Parts(i)[m]))) \in Nat
                 /\ InPlace(data, PartEnds(i)[m - 1], PartBytes(Entry(Parts(i)[m])))
      <3> DEFINE e == Entry(Parts(i)[m])
      <3>1. /\ e \in DataEntry /\ PartEnds(i)[m - 1] \in Nat /\ m \in Nat
            /\ PartEnds(i)[m] = PartEnds(i)[m - 1] + e.uncompressedSize
        BY <1>2, <1>3, LocatedPart
      <3>2. SoundPart(e) /\ InPlace(data, PartEnds(i)[m - 1], PartBytes(e))
        BY <1>5, <1>7 DEF PartPlaced
      <3>3. Len(PartBytes(e)) = e.uncompressedSize /\ Len(PartBytes(e)) \in Nat
        BY <3>1, <3>2, PartBytesLength DEF SoundPart
      <3> HIDE DEF e, data
      <3>4. PartEnds(i)[m] = PartEnds(i)[m - 1] + Len(PartBytes(e))
        BY <3>1, <3>3
      <3> QED BY <3>1, <3>2, <3>3, <3>4 DEF e
    <2>4. PartEnds(i)[Len(Parts(i))] <= n
      <3>1. Len(Parts(i)) \in DOMAIN Parts(i)
        BY <1>2, PartEndsEquation
      <3> QED BY <2>1, <2>3, <3>1 DEF InPlace
    <2> DEFINE here(p) == {k \in DOMAIN Parts(i) : PartEnds(i)[k - 1] < p /\ p <= PartEnds(i)[k]}
               chosen(p) == CHOOSE k \in here(p) : TRUE
               byte(p) == IF here(p) = {} THEN Zero
                          ELSE PartBytes(Entry(Parts(i)[chosen(p)]))[p - PartEnds(i)[chosen(p) - 1]]
    <2>5. Content(i) = [p \in 1..n |-> byte(p)]
      BY DEF Content, Parts
    <2>6. ASSUME NEW p \in 1..n PROVE data[p] = byte(p)
      <3>1. CASE here(p) = {}
        <4>1. ~Covered(i, p)
          BY <3>1 DEF Covered
        <4> QED BY <1>4, <2>2, <3>1, <4>1 DEF FilePlaced
      <3>2. CASE here(p) # {}
        <4>1. PICK k : k = chosen(p)
          OBVIOUS
        <4>2. k \in here(p)
          BY <3>2, <4>1
        <4>3. k \in DOMAIN Parts(i) /\ PartEnds(i)[k - 1] < p /\ p <= PartEnds(i)[k]
          BY <4>2
        <4>4. byte(p) = PartBytes(Entry(Parts(i)[k]))[p - PartEnds(i)[k - 1]]
          BY <3>2, <4>1
        <4> DEFINE at == PartEnds(i)[k - 1]
                   bytes == PartBytes(Entry(Parts(i)[k]))
        <4>5. /\ at \in Nat /\ PartEnds(i)[k] = at + Len(bytes) /\ Len(bytes) \in Nat
              /\ InPlace(data, at, bytes)
          BY <2>3, <4>3
        <4>6. at < p /\ p <= PartEnds(i)[k]
          BY <4>3
        <4> HIDE DEF at, bytes, data, byte, here, chosen
        <4>7. p - at \in 1..Len(bytes) /\ at + (p - at) = p
          BY <2>2, <4>5, <4>6
        <4>8. data[p] = bytes[p - at]
          BY <4>5, <4>7 DEF InPlace
        <4> QED BY <4>4, <4>8 DEF at, bytes
      <3> QED BY <3>1, <3>2
    <2>7. data = [p \in 1..n |-> data[p]]
      BY <2>1, <2>2
    <2> HIDE DEF byte, n, data
    <2>8. data = Content(i)
      BY <2>5, <2>6, <2>7
    <2> QED BY <2>1, <2>4, <2>8
  <1> QED BY <1>3, <1>6, <1>7

\* The bytes of a result are what the archive says.
ResultSound(r) ==
  Measured(r.file) =>
    /\ SoundParts(r.file)
    /\ ~verifyOnly \/ archive.files[r.file].hasChecksum => Sound(r.file)
    /\ ~verifyOnly => r.data = Content(r.file)

FailureSound(f) == Sound(f.file) => f.err = "LimitExceeded" /\ ~AmpleMemory

\* Whatever has been reported stays true of the archive.
ReportsSound ==
  /\ pc = "start" => results = <<>> /\ failures = <<>>
  /\ \A k \in DOMAIN results : ResultSound(results[k])
  /\ \A k \in DOMAIN failures : FailureSound(failures[k])

LEMMA InitReportsSound == Begun => ReportsSound
  BY DEF Begun, Called, ReportsSound

-----------------------------------------------------------------------------
(* How the verdict of a file changes: it is skipped once, or marked.       *)

Marks(marked, err) ==
  /\ DOMAIN files' = DOMAIN files
  /\ \A i \in DOMAIN files :
       /\ files'[i].skip = files[i].skip
       /\ files'[i].failed <=> files[i].failed \/ i \in marked
       /\ files'[i].err = IF i \in marked /\ ~files[i].failed THEN err ELSE files[i].err

LEMMA StepMarks ==
  ASSUME IInv, [Next]_vars
  PROVE  SkipFile \/ \E marked : \E err \in Errors : Marks(marked, err)
  <1> USE DEF inputs, plan, decode, budget, outputs
  <1>0. /\ files \in Seq(FileAssembly) /\ \A i \in DOMAIN files : files[i] \in FileAssembly
        /\ "Corrupt" \in Errors /\ "LimitExceeded" \in Errors
    BY DEF IInv, TypeOK, Errors
  <1> DEFINE goal == \E marked : \E err \in Errors : Marks(marked, err)
  <1>1. ASSUME files' = files PROVE goal
    <2>1. Marks({}, "Corrupt")
      BY <1>1 DEF Marks
    <2> QED BY <1>0, <2>1
  <1>2. ASSUME NEW marked, NEW err \in Errors, files' = markFailure(files, marked, err) PROVE goal
    <2>1. Marks(marked, err)
      BY <1>2, MarkedFiles DEF Marks
    <2> QED BY <1>2, <2>1
  <1>3. ASSUME DOMAIN files' = DOMAIN files,
               \A i \in DOMAIN files : files'[i].skip = files[i].skip
                  /\ files'[i].failed = files[i].failed /\ files'[i].err = files[i].err
        PROVE  goal
    <2>1. Marks({}, "Corrupt")
      BY <1>3 DEF Marks
    <2> QED BY <1>0, <2>1
  <1>g. goal => SkipFile \/ \E marked : \E err \in Errors : Marks(marked, err)
    OBVIOUS
  <1> HIDE DEF goal
  <1>4. CASE UNCHANGED vars \/ StartActions \/ StartFile \/ AddPart \/ EndFile \/ EndFiles
             \/ SortActions \/ PassFile \/ EndPlan \/ SkipGroup \/ OpenChunk \/ ReadChunk \/ SkipRef
             \/ ReleaseChunk \/ EndGroups \/ ReportActions
    BY <1>1, <1>4, <1>g DEF vars, StartActions, RejectArchive, AcceptArchive, StartFile, AddPart, EndFile,
      EndFiles, SortActions, SortGroup, EndSort, PassFile, EndPlan, SkipGroup, OpenChunk, ReadChunk,
      SkipRef, ReleaseChunk, EndGroups, ReportActions, ReportSkipped, ReportFailure, ReportResult, Return
  <1>5. CASE RejectPart \/ AddRef \/ RefuseFile
    <2>1. \/ files' = files
          \/ files' = markFailure(files, {fi}, "Corrupt")
          \/ files' = markFailure(files, {fi}, "LimitExceeded")
      BY <1>5 DEF RejectPart, AddRef, RefuseFile
    <2> QED BY <1>0, <1>1, <1>2, <1>g, <2>1
  <1>6. CASE FailOpen \/ FailRead \/ ReserveChunk
    <2>1. OpenError(group.chunk) # "none" => OpenError(group.chunk) \in Errors
      BY DEF OpenError, Errors
    <2>2. ReadError(group.chunk) # "none" => ReadError(group.chunk) \in Errors
      BY DEF ReadError, Errors
    <2>3. \/ files' = files
          \/ \E err \in Errors : files' = markFailure(files, Owners(group), err)
      BY <1>0, <1>6, <2>1, <2>2 DEF FailOpen, FailRead, ReserveChunk, FailGroup
    <2> QED BY <1>1, <1>2, <1>g, <2>3
  <1>7. CASE DecodeSegment \/ FailSegment
    <2>1. SegmentError(ref.entry) # "none" => SegmentError(ref.entry) \in Errors
      BY DEF SegmentError, Errors
    <2>2. \/ files' = files
          \/ \E err \in Errors : files' = markFailure(files, {ref.file}, err)
      BY <1>0, <1>7, <2>1 DEF DecodeSegment, FailSegment
    <2> QED BY <1>1, <1>2, <1>g, <2>2
  <1>8. ASSUME NEW j, NEW f, files' = [files EXCEPT ![j] = f],
               j \in DOMAIN files => /\ f.skip = files[j].skip /\ f.failed = files[j].failed
                                     /\ f.err = files[j].err
        PROVE  goal
    <2>1. \A i \in DOMAIN files : files'[i] = IF i = j THEN f ELSE files[i]
      BY <1>8
    <2> QED BY <1>3, <1>8, <2>1
  <1>9. ASSUME NEW f \in FileAssembly, NEW x
        PROVE  /\ [f EXCEPT !.data = x].skip = f.skip /\ [f EXCEPT !.data = x].failed = f.failed
               /\ [f EXCEPT !.data = x].err = f.err
               /\ [f EXCEPT !.assemble = x].skip = f.skip /\ [f EXCEPT !.assemble = x].failed = f.failed
               /\ [f EXCEPT !.assemble = x].err = f.err
               /\ [f EXCEPT !.totalSize = x].skip = f.skip /\ [f EXCEPT !.totalSize = x].failed = f.failed
               /\ [f EXCEPT !.totalSize = x].err = f.err
    BY <1>9 DEF FileAssembly
  <1>10. CASE PlaceSegment
    <2>1. PlaceError(ref) # "none" => PlaceError(ref) \in Errors
      BY DEF PlaceError, Errors
    <2> DEFINE d == Copied(files[ref.file].data, ref.dest, segment)
               f == [files[ref.file] EXCEPT !.data = d]
    <2>2. \/ files' = files
          \/ \E err \in Errors : files' = markFailure(files, {ref.file}, err)
          \/ files' = [files EXCEPT ![ref.file] = f]
      BY <1>10, <2>1 DEF PlaceSegment
    <2>3. ref.file \in DOMAIN files => /\ f.skip = files[ref.file].skip /\ f.failed = files[ref.file].failed
                                       /\ f.err = files[ref.file].err
      <3> HIDE DEF d
      <3> QED BY <1>0, <1>9
    <2> HIDE DEF f
    <2> QED BY <1>1, <1>2, <1>8, <1>g, <2>2, <2>3
  <1>11. CASE SizeFile \/ PlanFile
    <2>1. PICK x : \/ files' = [files EXCEPT ![fi] = [files[fi] EXCEPT !.totalSize = x]]
                   \/ files' = [files EXCEPT ![fi] = [files[fi] EXCEPT !.assemble = x]]
      BY <1>11 DEF SizeFile, PlanFile
    <2> DEFINE f == [files[fi] EXCEPT !.totalSize = x]
               g == [files[fi] EXCEPT !.assemble = x]
    <2>2. fi \in DOMAIN files =>
            /\ f.skip = files[fi].skip /\ f.failed = files[fi].failed /\ f.err = files[fi].err
            /\ g.skip = files[fi].skip /\ g.failed = files[fi].failed /\ g.err = files[fi].err
      BY <1>0, <1>9
    <2>3. files' = [files EXCEPT ![fi] = f] \/ files' = [files EXCEPT ![fi] = g]
      BY <2>1
    <2> HIDE DEF f, g
    <2> QED BY <1>8, <1>g, <2>2, <2>3
  <1>12. CASE ReserveOutput
    <2>1. ASSUME NEW i \in DOMAIN files
          PROVE  files'[i].skip = files[i].skip
                 /\ files'[i].failed = files[i].failed /\ files'[i].err = files[i].err
      <3> DEFINE d == [k \in 1..files[i].totalSize |-> Zero]
      <3>1. files'[i] = IF HasBuffer(i) THEN [files[i] EXCEPT !.data = d] ELSE files[i]
        BY <1>12 DEF ReserveOutput
      <3> HIDE DEF d
      <3> QED BY <1>0, <1>9, <3>1
    <2> QED BY <1>3, <1>12, <1>g, <2>1 DEF ReserveOutput
  <1>13. CASE RefuseOutput
    <2> DEFINE assembled == {j \in DOMAIN files : files[j].assemble}
               new == markFailure(files, assembled, "LimitExceeded")
    <2>1. files' = [j \in DOMAIN files |-> [new[j] EXCEPT !.assemble = FALSE]]
      BY <1>13 DEF RefuseOutput
    <2>2. new \in Seq(FileAssembly) /\ DOMAIN new = DOMAIN files
      BY <1>0, MarkFailureType DEF markFailure
    <2>3. ASSUME NEW i \in DOMAIN files
          PROVE  /\ files'[i].skip = files[i].skip
                 /\ files'[i].failed <=> files[i].failed \/ i \in assembled
                 /\ files'[i].err = IF i \in assembled /\ ~files[i].failed
                                    THEN "LimitExceeded" ELSE files[i].err
      <3> DEFINE m == new[i]
      <3>1. /\ m.skip = files[i].skip /\ m.failed = (files[i].failed \/ i \in assembled)
            /\ m.err = IF i \in assembled /\ ~files[i].failed THEN "LimitExceeded" ELSE files[i].err
        BY <1>0, MarkFailureFields
      <3>2. m \in FileAssembly /\ files'[i] = [m EXCEPT !.assemble = FALSE]
        BY <2>1, <2>2
      <3>3. /\ files'[i].skip = m.skip /\ files'[i].failed = m.failed /\ files'[i].err = m.err
        <4> HIDE DEF m, new, assembled
        <4> QED BY <1>9, <3>2
      <3> QED BY <3>1, <3>3
    <2>4. Marks(assembled, "LimitExceeded")
      <3> HIDE DEF assembled, new
      <3> QED BY <2>1, <2>3 DEF Marks
    <2> QED BY <1>0, <2>4 DEF goal
  <1> QED BY <1>4, <1>5, <1>6, <1>7, <1>10, <1>11, <1>12, <1>13
          DEF goal, Next, Returned, Step, StartActions, SortActions, ReportActions

\* A file has failed exactly when it has an error.
FailedHaveErrors == \A i \in DOMAIN files : files[i].failed <=> files[i].err # "none"

LEMMA InitFailedHaveErrors == Begun => FailedHaveErrors
  <1> SUFFICES ASSUME Begun PROVE FailedHaveErrors
    OBVIOUS
  <1>1. files = [i \in DOMAIN archive.files |-> FreshFile]
    BY DEF Begun, Called
  <1> QED BY <1>1 DEF FreshFile, FailedHaveErrors

LEMMA NextFailedHaveErrors == IInv /\ FailedHaveErrors /\ [Next]_vars => FailedHaveErrors'
  <1> SUFFICES ASSUME IInv, FailedHaveErrors, [Next]_vars PROVE FailedHaveErrors'
    OBVIOUS
  <1>1. CASE SkipFile
    <2>1. /\ files' = [files EXCEPT ![fi] = [files[fi] EXCEPT !.skip = TRUE]]
          /\ \A i \in DOMAIN files : files[i] \in FileAssembly
      BY <1>1 DEF SkipFile, IInv, TypeOK
    <2>2. \A i \in DOMAIN files : files'[i].failed = files[i].failed /\ files'[i].err = files[i].err
      BY <2>1 DEF FileAssembly
    <2> QED BY <2>1, <2>2 DEF FailedHaveErrors
  <1>2. CASE \E marked : \E err \in Errors : Marks(marked, err)
    <2>1. PICK marked, err : err \in Errors /\ Marks(marked, err)
      BY <1>2
    <2>2. err # "none"
      BY <2>1 DEF Errors
    <2> QED BY <2>1, <2>2 DEF Marks, FailedHaveErrors
  <1> QED BY <1>1, <1>2, StepMarks

\* What has been reported is not touched again.
LEMMA ReportsStay ==
  ASSUME ReportsSound, archive' = archive, verifyOnly' = verifyOnly, limit' = limit,
         pc' # "start" \/ pc = "start",
         \A k \in DOMAIN results' :
           (k \in DOMAIN results /\ results'[k] = results[k]) \/ ResultSound(results'[k]),
         \A k \in DOMAIN failures' :
           (k \in DOMAIN failures /\ failures'[k] = failures[k]) \/ FailureSound(failures'[k]),
         pc = "start" => results' = results /\ failures' = failures
  PROVE  ReportsSound'
  <1>1. AmpleMemory' = AmpleMemory
    BY AmpleFixed
  <1>2. /\ \A i : Sound(i)' = Sound(i) /\ SoundParts(i)' = SoundParts(i)
        /\ \A i : Measured(i)' = Measured(i) /\ Content(i)' = Content(i)
    BY ContentFixed
  <1>3. ASSUME NEW k \in DOMAIN results' PROVE ResultSound(results[k])'
    <2>1. PICK r : r = results'[k]
      OBVIOUS
    <2>2. ResultSound(r)
      BY <1>3, <2>1 DEF ReportsSound
    <2>3. ResultSound(results[k])' <=>
            (Measured(r.file)' =>
               /\ SoundParts(r.file)'
               /\ ~verifyOnly' \/ archive'.files[r.file].hasChecksum => Sound(r.file)'
               /\ ~verifyOnly' => r.data = Content(r.file)')
      BY <2>1 DEF ResultSound
    <2> QED BY <1>2, <2>2, <2>3 DEF ResultSound
  <1>4. ASSUME NEW k \in DOMAIN failures' PROVE FailureSound(failures[k])'
    <2>1. PICK f : f = failures'[k]
      OBVIOUS
    <2>2. FailureSound(f)
      BY <1>4, <2>1 DEF ReportsSound
    <2>3. FailureSound(failures[k])' <=>
            (Sound(f.file)' => f.err = "LimitExceeded" /\ ~AmpleMemory')
      BY <2>1 DEF FailureSound
    <2> QED BY <1>1, <1>2, <2>2, <2>3 DEF FailureSound
  <1>5. pc' = "start" => results' = <<>> /\ failures' = <<>>
    BY DEF ReportsSound
  <1> QED BY <1>3, <1>4, <1>5 DEF ReportsSound

\* A file that is reported as good.
LEMMA ReportedResult ==
  ASSUME Laid, PartsPlaced, FailedHaveErrors, ReportResult, NEW r,
         r = [file |-> fi, data |-> IF verifyOnly THEN <<>> ELSE files[fi].data]
  PROVE  ResultSound(r)
  <1>1. SUFFICES ASSUME Measured(fi)
                 PROVE  /\ SoundParts(fi)
                        /\ ~verifyOnly \/ archive.files[fi].hasChecksum => Sound(fi)
                        /\ ~verifyOnly => files[fi].data = Content(fi)
    BY DEF ResultSound
  <1>2. /\ pc = "finalize" /\ fi \in DOMAIN files /\ ~files[fi].skip /\ Verdict(fi) = "none"
        /\ files[fi] \in FileAssembly
    BY FileTypes DEF ReportResult, MoreFiles, Laid
  <1>3. ~files[fi].failed /\ FinalError(fi) = "none"
    <2>1. CASE files[fi].failed
      <3>1. files[fi].err = "none"
        BY <1>2, <2>1 DEF Verdict
      <3> QED BY <1>2, <2>1, <3>1 DEF FailedHaveErrors
    <2> QED BY <1>2, <2>1 DEF Verdict
  <1>4. /\ SoundParts(fi)
        /\ files[fi].assemble => /\ PartEnds(fi)[Len(Parts(fi))] <= OutputSize(fi)
                                 /\ files[fi].data = Content(fi)
    BY <1>1, <1>2, <1>3, WholeFile
  <1>5. ~verifyOnly \/ archive.files[fi].hasChecksum => files[fi].assemble
    <2>1. Decided(fi, files[fi])
      BY <1>2 DEF Laid, BuffersPlanned, Decoding
    <2> QED BY <1>2, <1>3, <2>1 DEF Decided
  <1>6. archive.files[fi].hasChecksum => files[fi].data = archive.files[fi].checksum
    BY <1>3 DEF FinalError
  <1>7. ~verifyOnly \/ archive.files[fi].hasChecksum => Sound(fi)
    BY <1>4, <1>5, <1>6 DEF Sound, Parts
  <1> QED BY <1>4, <1>5, <1>7

\* A file that is reported as failed.
LEMMA ReportedFailure ==
  ASSUME Laid, PartsPlaced, FailuresExplained, ReportFailure, NEW f,
         f = [file |-> fi, err |-> Verdict(fi)]
  PROVE  FailureSound(f)
  <1>1. SUFFICES ASSUME Sound(fi) PROVE Verdict(fi) = "LimitExceeded" /\ ~AmpleMemory
    BY DEF FailureSound
  <1>2. /\ pc = "finalize" /\ fi \in DOMAIN files /\ ~files[fi].skip /\ Verdict(fi) # "none"
    BY FileTypes DEF ReportFailure, MoreFiles, Laid
  <1>3. CASE files[fi].failed
    BY <1>1, <1>2, <1>3 DEF Verdict, FailuresExplained
  <1>4. CASE ~files[fi].failed
    <2>1. FinalError(fi) # "none"
      BY <1>2, <1>4 DEF Verdict
    <2>2. archive.files[fi].hasChecksum
      BY <2>1 DEF FinalError
    <2>3. files[fi].assemble
      <3>1. Decided(fi, files[fi])
        BY <1>2 DEF Laid, BuffersPlanned, Decoding
      <3> QED BY <1>2, <1>4, <2>2, <3>1 DEF Decided
    <2>4. files[fi].data = Content(fi) /\ Len(files[fi].data) = files[fi].totalSize
      BY <1>1, <1>2, <1>4, <2>3, SoundMeasured, WholeFile
    <2>5. Content(fi) = archive.files[fi].checksum
      BY <1>1, <2>2 DEF Sound
    <2> QED BY <2>1, <2>4, <2>5 DEF FinalError
  <1> QED BY <1>3, <1>4

LEMMA NextReportsSound ==
  Laid /\ PartsPlaced /\ FailuresExplained /\ FailedHaveErrors /\ ReportsSound /\ [Next]_vars
    => ReportsSound'
  <1> SUFFICES ASSUME Laid, PartsPlaced, FailuresExplained, FailedHaveErrors, ReportsSound, [Next]_vars
               PROVE  ReportsSound'
    OBVIOUS
  <1> USE DEF inputs, plan, decode, budget, outputs
  <1>1. CASE AcceptArchive
    BY <1>1 DEF AcceptArchive, ReportsSound
  <1>2. ASSUME archive' = archive, verifyOnly' = verifyOnly, limit' = limit,
               pc' # "start" \/ pc = "start", results' = results, failures' = failures
        PROVE  ReportsSound'
    BY <1>2, ReportsStay
  <1>3. CASE UNCHANGED vars
    BY <1>2, <1>3 DEF vars
  <1>4. CASE RejectArchive
    BY <1>2, <1>4 DEF RejectArchive
  <1>5. CASE FileActions \/ SortActions
    BY <1>2, <1>5 DEF FileActions, SortActions, SkipFile, StartFile, AddPart, RejectPart, SizeFile,
                      AddRef, EndFile, EndFiles, SortGroup, EndSort
  <1>6. CASE PlanActions
    BY <1>2, <1>6 DEF PlanActions, PassFile, PlanFile, RefuseFile, EndPlan, ReserveOutput, RefuseOutput
  <1>7. CASE DecodeActions
    BY <1>2, <1>7 DEF DecodeActions, SkipGroup, OpenChunk, FailOpen, ReadChunk, FailRead,
                      ReserveChunk, FailGroup, SkipRef, DecodeSegment, FailSegment, PlaceSegment,
                      ReleaseChunk, EndGroups
  <1>8. CASE ReportSkipped \/ Return
    BY <1>2, <1>8 DEF ReportSkipped, Return
  <1>9. CASE ReportFailure
    <2>1. PICK f : f = [file |-> fi, err |-> Verdict(fi)]
      OBVIOUS
    <2>2. FailureSound(f)
      BY <1>9, <2>1, ReportedFailure
    <2>3. /\ failures' = Append(failures, f) /\ results' = results /\ pc = "finalize" /\ pc' = "finalize"
          /\ archive' = archive /\ verifyOnly' = verifyOnly /\ limit' = limit
      BY <1>9, <2>1 DEF ReportFailure
    <2>4. \E S : failures \in Seq(S)
      BY DEF Laid, IInv, TypeOK
    <2>5. \A k \in DOMAIN failures' : (k \in DOMAIN failures /\ failures'[k] = failures[k]) \/ failures'[k] = f
      BY <2>3, <2>4
    <2> QED BY <2>2, <2>3, <2>5, ReportsStay
  <1>10. CASE ReportResult
    <2>1. PICK r : r = [file |-> fi, data |-> IF verifyOnly THEN <<>> ELSE files[fi].data]
      OBVIOUS
    <2>2. ResultSound(r)
      BY <1>10, <2>1, ReportedResult
    <2>3. /\ results' = Append(results, r) /\ failures' = failures /\ pc = "finalize" /\ pc' = "finalize"
          /\ archive' = archive /\ verifyOnly' = verifyOnly /\ limit' = limit
      BY <1>10, <2>1 DEF ReportResult
    <2>4. \E S : results \in Seq(S)
      BY DEF Laid, IInv, TypeOK
    <2>5. \A k \in DOMAIN results' : (k \in DOMAIN results /\ results'[k] = results[k]) \/ results'[k] = r
      BY <2>3, <2>4
    <2> QED BY <2>2, <2>3, <2>5, ReportsStay
  <1> QED BY <1>1, <1>3, <1>4, <1>5, <1>6, <1>7, <1>8, <1>9, <1>10
          DEF Next, Returned, Step, FileActions, SortActions, PlanActions, DecodeActions

-----------------------------------------------------------------------------
(* What the call returns.                                                  *)

RInv == /\ Laid /\ ChunkDecoded /\ PartsPlaced /\ FailuresExplained
        /\ FailedHaveErrors /\ ReportsSound

LEMMA InitRInv == Begun => RInv
  BY InitIInv, InitFilesBuilt, InitBuffersPlanned, InitSegmentsPlaced, InitRefsOwned,
     InitChunkDecoded, InitPartsPlaced, InitFailuresExplained, InitFailedHaveErrors,
     InitReportsSound
  DEF RInv, Laid

LEMMA NextRInv == RInv /\ [Next]_vars => RInv'
  <1> SUFFICES ASSUME RInv, [Next]_vars PROVE RInv'
    OBVIOUS
  <1>1. Laid'
    BY NextIInv, NextFilesBuilt, NextBuffersPlanned, NextSegmentsPlaced, NextRefsOwned DEF RInv, Laid
  <1>2. ChunkDecoded' /\ PartsPlaced' /\ FailuresExplained'
    BY NextChunkDecoded, NextPartsPlaced, NextFailuresExplained DEF RInv
  <1>3. FailedHaveErrors' /\ ReportsSound'
    BY NextFailedHaveErrors, NextReportsSound DEF RInv, Laid
  <1> QED BY <1>1, <1>2, <1>3 DEF RInv

LEMMA SpecRInv == Spec => []RInv
  BY InitBegun, InitRInv, NextRInv, PTL DEF Spec

\* Extract returns a file only when every part of it has been decoded without
\* an error, and with the bytes the archive says, whatever the archive, the
\* memory limit, and what the file shares its chunks with.
THEOREM ResultsCorrect == Spec => []ResultsAreSound
  <1>1. RInv => ResultsAreSound
    BY DEF RInv, ReportsSound, ResultSound, ResultsAreSound
  <1> QED BY <1>1, SpecRInv, PTL

\* Extract fails a file the archive has in order for want of memory only, and
\* never when the limit has room for the outputs and any one chunk.
THEOREM FailuresCorrect == Spec => []SoundFilesFailOnlyOnMemory
  <1>1. RInv => SoundFilesFailOnlyOnMemory
    BY DEF RInv, ReportsSound, FailureSound, SoundFilesFailOnlyOnMemory
  <1> QED BY <1>1, SpecRInv, PTL

-----------------------------------------------------------------------------
(* The steps of the call are steps of its contract.                        *)

Verdicts == [i \in DOMAIN files |-> verdictOf(i)]
Reported == IF pc = "finalize" THEN fi - 1 ELSE IF Answered THEN Len(files) ELSE 0
Succeeded == [k \in DOMAIN results |-> results[k].file]

\* The loop over the results ends with the last file.
Reporting == pc = "finalize" => fi <= Len(files) + 1

LEMMA NextReporting == IInv /\ Reporting /\ [Next]_vars => Reporting'
  <1> SUFFICES ASSUME IInv, Reporting, [Next]_vars, pc' = "finalize" PROVE fi' <= Len(files') + 1
    BY DEF Reporting
  <1>0. fi \in Nat /\ Len(files) \in Nat
    BY DEF IInv, TypeOK
  <1> USE DEF inputs, plan, decode, budget, outputs
  <1>1. CASE UNCHANGED vars
    BY <1>1 DEF vars, Reporting
  <1>2. CASE EndGroups
    BY <1>0, <1>2 DEF EndGroups
  <1>3. CASE ReportSkipped \/ ReportFailure \/ ReportResult
    BY <1>0, <1>3 DEF ReportSkipped, ReportFailure, ReportResult, MoreFiles
  <1>4. CASE StartActions \/ FileActions \/ SortActions \/ PlanActions
    BY <1>4 DEF StartActions, FileActions, SortActions, PlanActions, RejectArchive, AcceptArchive,
      SkipFile, StartFile, AddPart, RejectPart, SizeFile, AddRef, EndFile, EndFiles, SortGroup,
      EndSort, PassFile, PlanFile, RefuseFile, EndPlan, ReserveOutput, RefuseOutput
  <1>5. CASE DecodeActions /\ ~EndGroups
    BY <1>5 DEF DecodeActions, SkipGroup, OpenChunk, FailOpen, ReadChunk, FailRead, ReserveChunk,
      FailGroup, SkipRef, DecodeSegment, FailSegment, PlaceSegment, ReleaseChunk
  <1>6. CASE Return
    BY <1>6 DEF Return
  <1> QED BY <1>1, <1>2, <1>3, <1>4, <1>5, <1>6
          DEF Next, Returned, Step, StartActions, FileActions, SortActions, PlanActions,
              DecodeActions, ReportActions

LEMMA ContractVars ==
  ASSUME Verdicts' = Verdicts, Reported' = Reported, results' = results, failures' = failures,
         archiveErr' = archiveErr
  PROVE  UNCHANGED Contract!vars
  BY DEF Contract!vars, Verdicts, Reported

\* A mark is a verdict on the files that had none, or changes nothing.
LEMMA MarksAreVerdicts ==
  ASSUME NEW marked, NEW err \in Errors, Marks(marked, err), FailedHaveErrors,
         \A i \in DOMAIN files : files[i] \in FileAssembly,
         Reported = 0, Reported' = 0, results' = results, failures' = failures,
         archiveErr = "none", archiveErr' = "none"
  PROVE  Contract!Next \/ UNCHANGED Contract!vars
  <1> DEFINE doomed == marked \cap DOMAIN files
  <1>1. ASSUME NEW i \in DOMAIN files
        PROVE  verdictOf(i)' = IF i \in doomed /\ verdictOf(i) = "open" THEN err ELSE verdictOf(i)
    <2>1. /\ files'[i].skip = files[i].skip
          /\ files'[i].failed <=> files[i].failed \/ i \in marked
          /\ files'[i].err = IF i \in marked /\ ~files[i].failed THEN err ELSE files[i].err
          /\ "open" \notin Errors /\ "none" \notin Errors
          /\ files[i].err \in Errors \cup {"none"}
      BY DEF Marks, Errors, FileAssembly
    <2>2. verdictOf(i)' = IF files'[i].skip THEN "external"
                          ELSE IF files'[i].failed THEN files'[i].err ELSE "open"
      BY DEF verdictOf
    <2>3. files[i].failed <=> files[i].err # "none"
      BY DEF FailedHaveErrors
    <2>4. "open" # "external" /\ (files[i].failed => files[i].err # "open")
      BY <2>1, <2>3
    <2> QED BY <2>1, <2>2, <2>4 DEF verdictOf
  <1>2. Verdicts' = [i \in DOMAIN Verdicts |->
                       IF i \in doomed /\ Verdicts[i] = "open" THEN err ELSE Verdicts[i]]
    <2>1. Verdicts' = [i \in DOMAIN files |-> verdictOf(i)']
      BY DEF Marks, Verdicts
    <2> HIDE DEF doomed
    <2> QED BY <1>1, <2>1 DEF Verdicts
  <1>3. CASE \E i \in doomed : Verdicts[i] = "open"
    <2>1. Contract!Doom(doomed, err)
      <3> HIDE DEF doomed
      <3> QED BY <1>2, <1>3 DEF Contract!Doom, Verdicts, Reported, Succeeded
    <2>2. doomed \in SUBSET DOMAIN Verdicts
      BY DEF Verdicts
    <2> HIDE DEF doomed
    <2> QED BY <2>1, <2>2 DEF Contract!Next, Verdicts
  <1>4. CASE ~\E i \in doomed : Verdicts[i] = "open"
    <2>1. Verdicts' = Verdicts
      <3>1. Verdicts = [i \in DOMAIN Verdicts |-> Verdicts[i]]
        BY DEF Verdicts
      <3> HIDE DEF doomed
      <3> QED BY <1>2, <1>4, <3>1
    <2> QED BY <2>1, ContractVars
  <1> QED BY <1>3, <1>4

\* Before the reports a step changes nothing but the verdicts.
LEMMA QuietStep ==
  ASSUME FilesBuilt, IInv, AcceptArchive \/ FileActions \/ SortActions \/ PlanActions \/ DecodeActions
  PROVE  /\ Reported = 0 /\ Reported' = 0
         /\ results' = results /\ failures' = failures
         /\ archiveErr = "none" /\ archiveErr' = "none"
  <1> USE DEF inputs, plan, decode, budget, outputs
  <1> SUFFICES /\ pc \notin {"finalize", "done"} /\ pc' # "done" /\ (pc' = "finalize" => fi' = 1)
               /\ UNCHANGED <<results, failures, archiveErr>>
    BY DEF Reported, Answered, FilesBuilt
  <1>1. CASE AcceptArchive
    BY <1>1 DEF AcceptArchive
  <1>2. CASE FileActions \/ SortActions
    BY <1>2 DEF FileActions, SortActions, SkipFile, StartFile, AddPart, RejectPart, SizeFile, AddRef,
                EndFile, EndFiles, SortGroup, EndSort
  <1>3. CASE PlanActions
    BY <1>3 DEF PlanActions, PassFile, PlanFile, RefuseFile, EndPlan, ReserveOutput, RefuseOutput
  <1>4. CASE DecodeActions
    BY <1>4 DEF DecodeActions, SkipGroup, OpenChunk, FailOpen, ReadChunk, FailRead, ReserveChunk,
      FailGroup, SkipRef, DecodeSegment, FailSegment, PlaceSegment, ReleaseChunk, EndGroups
  <1> QED BY <1>1, <1>2, <1>3, <1>4

LEMMA RefuseContract ==
  ASSUME IInv, FilesBuilt, RejectArchive
  PROVE  Contract!Next
  <1> USE DEF inputs, plan, decode, budget, outputs
  <1>1. /\ pc = "start" /\ pc' = "done" /\ archiveErr' \in Errors
        /\ UNCHANGED <<files, results, failures>>
    BY DEF RejectArchive, Errors
  <1>2. archiveErr = "none" /\ \A i \in DOMAIN files : ~files[i].skip /\ ~files[i].failed
    <2>1. archiveErr = "none" /\ fi = 1 /\ Building
      BY <1>1 DEF FilesBuilt, Building
    <2>2. \A i \in DOMAIN files : ~Reached(i)
      <3>1. DOMAIN files = 1..Len(files)
        BY DEF IInv, TypeOK
      <3> QED BY <2>1, <3>1 DEF Reached
    <2> QED BY <2>1, <2>2 DEF FilesBuilt
  <1>3. Reported = 0 /\ Reported' = 0
    <2>1. archiveErr' # "none"
      BY <1>1 DEF Errors
    <2> QED BY <1>1, <2>1 DEF Reported, Answered
  <1>4. Verdicts' = Verdicts /\ \A i \in DOMAIN Verdicts : Verdicts[i] = "open"
    BY <1>1, <1>2 DEF Verdicts, verdictOf
  <1>5. Contract!Refuse(archiveErr')
    BY <1>1, <1>2, <1>3, <1>4 DEF Contract!Refuse, Verdicts, Reported
  <1> QED BY <1>1, <1>5 DEF Contract!Next

LEMMA ExcludeContract ==
  ASSUME IInv, FilesBuilt, SkipFile
  PROVE  Contract!Next
  <1>1. /\ Reported = 0 /\ Reported' = 0 /\ results' = results /\ failures' = failures
        /\ archiveErr = "none" /\ archiveErr' = "none"
    BY QuietStep DEF FileActions
  <1>2. fi \in DOMAIN files /\ files \in Seq(FileAssembly)
    BY FileTypes DEF SkipFile, MoreFiles, IInv, TypeOK
  <1>3. ~files[fi].skip /\ ~files[fi].failed
    <2>1. ~Reached(fi)
      BY DEF Reached, SkipFile, Building, IInv, TypeOK
    <2> QED BY <1>2, <2>1 DEF FilesBuilt
  <1>4. files' = [files EXCEPT ![fi] = [files[fi] EXCEPT !.skip = TRUE]]
    BY DEF SkipFile
  <1>5. \A i \in DOMAIN files :
          /\ files'[i].failed = files[i].failed /\ files'[i].err = files[i].err
          /\ i # fi => files'[i].skip = files[i].skip
          /\ i = fi => files'[i].skip
    <2> DEFINE f == [files[fi] EXCEPT !.skip = TRUE]
    <2>1. f.failed = files[fi].failed /\ f.err = files[fi].err /\ f.skip = TRUE
      <3>1. files[fi] \in FileAssembly
        BY <1>2
      <3> QED BY <3>1 DEF FileAssembly
    <2>2. \A i \in DOMAIN files : files'[i] = IF i = fi THEN f ELSE files[i]
      BY <1>2, <1>4
    <2> HIDE DEF f
    <2> QED BY <2>1, <2>2
  <1>6. Verdicts' = [Verdicts EXCEPT ![fi] = "external"]
    <2>1. DOMAIN files' = DOMAIN files
      BY <1>4
    <2>2. \A i \in DOMAIN files : verdictOf(i)' = IF i = fi THEN "external" ELSE verdictOf(i)
      BY <1>5 DEF verdictOf
    <2>3. Verdicts' = [i \in DOMAIN files |-> verdictOf(i)']
      BY <2>1 DEF Verdicts
    <2> QED BY <2>2, <2>3 DEF Verdicts
  <1>7. Contract!Exclude(fi)
    BY <1>1, <1>2, <1>3, <1>6 DEF Contract!Exclude, Verdicts, verdictOf, Reported
  <1> QED BY <1>2, <1>7 DEF Contract!Next

LEMMA ReportContract ==
  ASSUME IInv, FilesBuilt, FailedHaveErrors, ReportSkipped \/ ReportFailure \/ ReportResult
  PROVE  Contract!Next
  <1> USE DEF inputs, plan, decode, budget, outputs
  <1>1. /\ pc = "finalize" /\ pc' = "finalize" /\ fi' = fi + 1 /\ files' = files
        /\ archiveErr' = archiveErr /\ fi <= Len(files)
    BY DEF ReportSkipped, ReportFailure, ReportResult, MoreFiles
  <1>2. /\ fi \in Nat /\ fi \in DOMAIN files /\ files[fi] \in FileAssembly /\ archiveErr = "none"
        /\ files \in Seq(FileAssembly)
    BY <1>1, FileTypes DEF IInv, TypeOK, FilesBuilt
  <1>3. Verdicts' = Verdicts /\ Len(Verdicts) = Len(files) /\ Verdicts[fi] = verdictOf(fi)
    BY <1>1, <1>2 DEF Verdicts, verdictOf
  <1>4. /\ Reported + 1 = fi /\ Reported' = Reported + 1 /\ Reported < Len(Verdicts)
    BY <1>1, <1>2, <1>3 DEF Reported
  <1>5. /\ files[fi].err \in Errors \cup {"none"} /\ "none" \notin Errors
        /\ files[fi].failed <=> files[fi].err # "none"
    BY <1>2 DEF FileAssembly, FailedHaveErrors, Errors
  <1> DEFINE fail(err) == failures' = Append(failures, [file |-> fi, err |-> err])
  <1>6. ASSUME \/ Verdicts[fi] = "external" /\ UNCHANGED <<Succeeded, failures>>
               \/ Verdicts[fi] \in Errors /\ fail(Verdicts[fi]) /\ UNCHANGED Succeeded
               \/ Verdicts[fi] = "open" /\ (\E err \in Errors : fail(err)) /\ UNCHANGED Succeeded
               \/ Verdicts[fi] = "open" /\ Succeeded' = Append(Succeeded, fi) /\ UNCHANGED failures
        PROVE  Contract!Next
    <2>1. Contract!Report
      BY <1>1, <1>2, <1>3, <1>4, <1>6 DEF Contract!Report, Verdicts, Reported, Succeeded
    <2> QED BY <2>1 DEF Contract!Next
  <1>7. CASE ReportSkipped
    <2>1. Verdicts[fi] = "external" /\ results' = results /\ failures' = failures
      BY <1>3, <1>7 DEF ReportSkipped, verdictOf
    <2> QED BY <1>6, <2>1 DEF Succeeded
  <1>8. CASE ReportFailure
    <2>1. /\ ~files[fi].skip /\ Verdict(fi) # "none" /\ results' = results
          /\ failures' = Append(failures, [file |-> fi, err |-> Verdict(fi)])
      BY <1>8 DEF ReportFailure
    <2>2. CASE files[fi].failed
      BY <1>3, <1>5, <1>6, <2>1, <2>2 DEF Verdict, verdictOf, Succeeded
    <2>3. CASE ~files[fi].failed
      <3>1. Verdict(fi) \in Errors
        BY <2>1, <2>3 DEF Verdict, FinalError, Errors
      <3> QED BY <1>3, <1>6, <2>1, <2>3, <3>1 DEF verdictOf, Succeeded
    <2> QED BY <2>2, <2>3
  <1>9. CASE ReportResult
    <2>1. PICK r : r = [file |-> fi, data |-> IF verifyOnly THEN <<>> ELSE files[fi].data]
      OBVIOUS
    <2>2. /\ ~files[fi].skip /\ Verdict(fi) = "none" /\ failures' = failures
          /\ results' = Append(results, r) /\ r.file = fi
      BY <1>9, <2>1 DEF ReportResult
    <2>3. Verdicts[fi] = "open"
      BY <1>3, <1>5, <2>2 DEF Verdict, verdictOf
    <2>4. Succeeded' = Append(Succeeded, fi)
      <3>1. PICK S : results \in Seq(S)
        BY DEF IInv, TypeOK
      <3> DEFINE old == [k \in 1..Len(results) |-> results[k].file]
      <3>2. Succeeded = old /\ old \in Seq({results[k].file : k \in 1..Len(results)})
            /\ Len(old) = Len(results)
        BY <3>1 DEF Succeeded
      <3>3. Succeeded' = [k \in 1..(Len(results) + 1) |-> Append(results, r)[k].file]
        BY <2>2, <3>1 DEF Succeeded
      <3>4. ASSUME NEW k \in 1..(Len(results) + 1)
            PROVE  Append(results, r)[k].file = Append(old, fi)[k]
        BY <2>2, <3>1, <3>2
      <3>5. Append(old, fi) = [k \in 1..(Len(results) + 1) |-> Append(old, fi)[k]]
        <4>1. PICK T : old \in Seq(T)
          BY <3>2
        <4>2. Len(old) = Len(results) /\ Len(results) \in Nat
          BY <3>1, <3>2
        <4>3. DOMAIN Append(old, fi) = 1..(Len(old) + 1)
          <5> HIDE DEF old
          <5> QED BY <4>1
        <4>4. Append(old, fi) \in Seq(T \cup {fi})
          <5> HIDE DEF old
          <5>1. old \in Seq(T \cup {fi})
            BY <4>1
          <5> QED BY <5>1
        <4> DEFINE new == Append(old, fi)
        <4>5. new \in Seq(T \cup {fi}) /\ DOMAIN new = 1..(Len(results) + 1)
          BY <4>2, <4>3, <4>4
        <4> HIDE DEF new
        <4>6. new \in [DOMAIN new -> T \cup {fi}]
          BY <4>5
        <4>7. new = [k \in DOMAIN new |-> new[k]]
          BY <4>6
        <4> QED BY <4>5, <4>7 DEF new
      <3> HIDE DEF old
      <3> QED BY <3>2, <3>3, <3>4, <3>5
    <2> QED BY <1>6, <2>2, <2>3, <2>4
  <1> QED BY <1>7, <1>8, <1>9

LEMMA ContractStep ==
  ASSUME RInv, Reporting, [Next]_vars
  PROVE  [Contract!Next]_(Contract!vars)
  <1> SUFFICES Contract!Next \/ UNCHANGED Contract!vars
    OBVIOUS
  <1>0. /\ IInv /\ FilesBuilt /\ FailedHaveErrors
        /\ \A i \in DOMAIN files : files[i] \in FileAssembly
        /\ fi \in Nat /\ Len(files) \in Nat
    BY DEF RInv, Laid, IInv, TypeOK
  <1>1. CASE UNCHANGED vars
    <2>1. Verdicts' = Verdicts /\ Reported' = Reported
      BY <1>1 DEF vars, inputs, plan, decode, outputs, Verdicts, verdictOf, Reported, Answered
    <2> QED BY <1>1, <2>1, ContractVars DEF vars, outputs
  <1>2. CASE Return
    <2>1. /\ pc = "finalize" /\ pc' = "done" /\ archiveErr = "none" /\ fi = Len(files) + 1
          /\ UNCHANGED <<files, results, failures, archiveErr>>
      BY <1>0, <1>2 DEF Return, MoreFiles, FilesBuilt, Reporting, plan, outputs
    <2>2. Verdicts' = Verdicts /\ Reported' = Reported
      BY <1>0, <2>1 DEF Verdicts, verdictOf, Reported, Answered
    <2> QED BY <2>1, <2>2, ContractVars
  <1>3. CASE /\ AcceptArchive \/ FileActions \/ SortActions \/ PlanActions \/ DecodeActions
             /\ ~SkipFile
    <2>1. PICK marked, err : err \in Errors /\ Marks(marked, err)
      BY <1>0, <1>3, StepMarks
    <2> QED BY <1>0, <1>3, <2>1, QuietStep, MarksAreVerdicts
  <1>4. CASE RejectArchive \/ SkipFile \/ ReportSkipped \/ ReportFailure \/ ReportResult
    BY <1>0, <1>4, RefuseContract, ExcludeContract, ReportContract
  <1>5. \/ UNCHANGED vars \/ Return \/ RejectArchive \/ ReportSkipped \/ ReportFailure \/ ReportResult
        \/ AcceptArchive \/ FileActions \/ SortActions \/ PlanActions \/ DecodeActions
    BY DEF Next, Returned, Step, FileActions, SortActions, PlanActions, DecodeActions
  <1> QED BY <1>1, <1>2, <1>3, <1>4, <1>5

LEMMA InitContract == Init => Contract!Init /\ Reporting
  <1> SUFFICES ASSUME Init PROVE Contract!Init /\ Reporting
    OBVIOUS
  <1>1. /\ pc = "start" /\ results = <<>> /\ failures = <<>> /\ archiveErr = "none"
        /\ files = [i \in DOMAIN archive.files |-> FreshFile]
    BY DEF Init, Called
  <1>2. archive.files \in Seq(FileEntry)
    BY ArchivesAssumption DEF Init, Called, Archive
  <1>3. Verdicts = [i \in 1..Len(archive.files) |-> "open"]
    BY <1>1, <1>2 DEF Verdicts, verdictOf, FreshFile
  <1>4. Verdicts \in Seq({"open"})
    BY <1>2, <1>3
  <1>5. Reported = 0 /\ Succeeded = <<>>
    BY <1>1 DEF Reported, Answered, Succeeded
  <1> QED BY <1>1, <1>4, <1>5 DEF Contract!Init, Reporting, Verdicts, Reported, Succeeded

\* The call does what its contract allows and nothing else: the verdict on a
\* file is never taken back, each file is reported once, in file order and with
\* the verdict it has, and an archive is refused whole, before any verdict.
THEOREM KeepsContract == Spec => Contract!Safety
  <1>1. RInv /\ Reporting /\ [Next]_vars => RInv' /\ Reporting'
    BY NextRInv, NextReporting DEF RInv, Laid
  <1> QED BY <1>1, InitBegun, InitRInv, InitContract, ContractStep, PTL DEF Spec, Contract!Safety

=============================================================================
