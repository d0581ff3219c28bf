-------------------------- MODULE StreamCallProofs --------------------------
(*****************************************************************************)
(* Proofs about one call of stream.Extract, for every archive and every     *)
(* limit: what it makes of each file is told from the archive, the limit    *)
(* and the mode alone, whatever order its steps came in. The reservation,   *)
(* the groups, the failures and their errors, and the bytes of the          *)
(* buffers.                                                                 *)
(*****************************************************************************)
EXTENDS StreamExtractProofs

-----------------------------------------------------------------------------
(* What a call of Extract reserves, and which files fail, told from the    *)
(* archive, the limit and the mode alone.                                  *)

\* The files with a buffer in this mode, and the memory they need.
Assembles(i) == verifyOnly => archive.files[i].hasChecksum
Needs(i) == ~External(i) /\ Located(i) /\ Assembles(i) /\ OutputSize(i) <= MaxInt
Needed == [i \in DOMAIN archive.files |-> IF Needs(i) THEN OutputSize(i) ELSE 0]
Enough == Total(Needed) <= limit

\* A file that can be located fails in the planning only when it is too large
\* for its buffer, or for the running total.
PlanDecided ==
  \A i \in DOMAIN files :
    /\ ~External(i) /\ Located(i) =>
         /\ Building \/ pc = "sort" \/ (pc = "plan" /\ i >= fi) => ~files[i].failed
         /\ Planning /\ files[i].failed => Assembles(i)
    /\ Planning /\ files[i].assemble => Needs(i)
    /\ pc = "reserve" \/ (pc = "plan" /\ i < fi) =>
         (Needs(i) /\ ~files[i].assemble => OutputSize(i) > MaxUint - total)

\* All the buffers are reserved, or none is.
OutputDecided ==
  Decoding =>
    /\ total = IF Enough THEN Total(Needed) ELSE 0
    /\ \A i \in DOMAIN files : files[i].assemble <=> Enough /\ Needs(i)

\* What the output leaves of the limit, and what it lets decode.
Room == limit - total
ChunkFits(c) == /\ c.source = "chunk" /\ ~c.encrypted /\ c.codec = "ok" /\ ~c.broken
                /\ c.dict <= Room /\ c.length <= Room
PartFitsIn(e) ==
  /\ e.offset + e.size <= e.chunk.length
  /\ e.filter # "none" => Len(PartBytes(e)) <= Room - e.chunk.length
  /\ e.filter = "zlib" => e.inflates
  /\ e.intact
RefFits(x) ==
  /\ ChunkFits(x.entry.chunk) /\ PartFitsIn(x.entry)
  /\ x.entry.uncompressedSize # 0 => Len(PartBytes(x.entry)) = x.entry.uncompressedSize
  /\ files[x.file].assemble => x.dest + Len(PartBytes(x.entry)) <= files[x.file].totalSize
SlotFits(r) == RefFits(groups[r[1]].refs[r[2]])

\* The chunk and the segment that are being decoded do fit.
DecodingFits ==
  /\ pc \in {"read", "chunk", "segment", "place"} => group.chunk.dict <= Room
  /\ pc \in {"chunk", "segment", "place"} => group.chunk.length <= Room
  /\ pc = "place" => PartFitsIn(ref.entry)

\* A file fails in the decoding when one of its segments does not decode or
\* has no place, whatever the order of the groups.
FailuresDecided ==
  Decoding => \A i \in DOMAIN files :
    ~External(i) /\ Located(i) /\ (files[i].assemble \/ ~Assembles(i)) =>
      (files[i].failed <=> \E r \in Slots(groups, i) : Done(r) /\ ~SlotFits(r))

DInv == RInv /\ PlanDecided /\ OutputDecided /\ DecodingFits /\ FailuresDecided

LEMMA NeedsFixed ==
  ASSUME archive' = archive, verifyOnly' = verifyOnly
  PROVE  /\ \A i : Needs(i)' = Needs(i) /\ Assembles(i)' = Assembles(i)
         /\ Needed' = Needed
         /\ limit' = limit => Enough' = Enough
  <1>1. \A i : External(i)' = External(i) /\ Located(i)' = Located(i) /\ OutputSize(i)' = OutputSize(i)
    BY ArchiveFixed
  <1>2. \A i : Assembles(i)' = Assembles(i)
    BY DEF Assembles
  <1>3. \A i : Needs(i)' = Needs(i)
    BY <1>1, <1>2 DEF Needs
  <1>4. Needed' = Needed
    BY <1>1, <1>3 DEF Needed
  <1>5. limit' = limit => Enough' = Enough
    BY <1>4 DEF Enough
  <1> QED BY <1>2, <1>3, <1>4, <1>5

\* The needed sizes are a sequence of numbers, like the planned ones.
LEMMA NeededType ==
  ASSUME archive \in Archive
  PROVE  /\ Needed \in Seq(Nat) /\ Len(Needed) = Len(archive.files)
         /\ DOMAIN Needed = DOMAIN archive.files
         /\ \A i \in DOMAIN archive.files : Needs(i) => OutputSize(i) \in Nat
         /\ Total(Needed) \in Nat
  <1>1. \A i \in DOMAIN archive.files : Needs(i) => OutputSize(i) \in Nat
    BY OutputSizesType DEF Needs
  <1>2. archive.files \in Seq(FileEntry)
    BY DEF Archive
  <1>3. Needed \in Seq(Nat) /\ Len(Needed) = Len(archive.files) /\ DOMAIN Needed = DOMAIN archive.files
    BY <1>1, <1>2 DEF Needed
  <1> QED BY <1>1, <1>3, TotalType

-----------------------------------------------------------------------------
(* The planning.                                                           *)

LEMMA InitPlanDecided == Begun => PlanDecided
  <1> SUFFICES ASSUME Begun PROVE PlanDecided
    OBVIOUS
  <1>1. pc = "start" /\ files = [i \in DOMAIN archive.files |-> FreshFile]
    BY DEF Begun, Called
  <1>2. \A i \in DOMAIN files : ~files[i].failed
    BY <1>1 DEF FreshFile
  <1> QED BY <1>1, <1>2 DEF PlanDecided, Planning

\* Past the planning there is nothing left to show.
LEMMA NotPlanning ==
  ASSUME pc' \notin {"start", "file", "total", "refs", "sort", "plan", "reserve"}
  PROVE  PlanDecided'
  BY DEF PlanDecided, Planning, Building

\* A step of the first loops that fails no file.
LEMMA BuildingOn ==
  ASSUME PlanDecided, Building \/ pc = "sort", Building' \/ pc' = "sort",
         archive' = archive, verifyOnly' = verifyOnly, DOMAIN files' = DOMAIN files,
         \A i \in DOMAIN files : ~External(i) /\ Located(i) => files'[i].failed = files[i].failed
  PROVE  PlanDecided'
  <1>1. \A i : External(i)' = External(i) /\ Located(i)' = Located(i)
    BY ArchiveFixed
  <1>2. ~Planning' /\ pc' # "plan" /\ pc' # "reserve"
    BY DEF Building, Planning
  <1>3. \A i \in DOMAIN files : ~External(i) /\ Located(i) => ~files[i].failed
    BY DEF PlanDecided
  <1>4. \A i \in DOMAIN files' : External(i)' \/ ~Located(i)' \/ ~files'[i].failed
    BY <1>1, <1>3
  <1> QED BY <1>2, <1>4 DEF PlanDecided

LEMMA FilePlanDecided ==
  ASSUME Laid, PlanDecided, FileActions \/ SortGroup
  PROVE  PlanDecided'
  <1> USE DEF inputs, plan, decode, budget, outputs
  <1>1. /\ archive' = archive /\ verifyOnly' = verifyOnly
        /\ Building \/ pc = "sort"
        /\ Building' \/ pc' = "sort"
    BY DEF FileActions, SkipFile, StartFile, AddPart, RejectPart, SizeFile,
           AddRef, EndFile, EndFiles, SortGroup, Building
  <1>2. files \in Seq(FileAssembly) /\ \A i \in DOMAIN files : files[i] \in FileAssembly
    BY DEF Laid, IInv, TypeOK
  <1>3. CASE SkipFile \/ SizeFile
    <2>1. PICK size : \/ files' = [files EXCEPT ![fi] = [files[fi] EXCEPT !.skip = TRUE]]
                      \/ files' = [files EXCEPT ![fi] = [files[fi] EXCEPT !.totalSize = size]]
      BY <1>3 DEF SkipFile, SizeFile
    <2>2. ASSUME NEW i \in DOMAIN files PROVE files'[i].failed = files[i].failed
      <3>1. \/ files'[i] = files[i]
            \/ files'[i] = [files[i] EXCEPT !.skip = TRUE]
            \/ files'[i] = [files[i] EXCEPT !.totalSize = size]
        BY <2>1
      <3> QED BY <1>2, <3>1 DEF FileAssembly
    <2>3. DOMAIN files' = DOMAIN files
      BY <2>1
    <2> QED BY <1>1, <2>2, <2>3, BuildingOn
  <1>4. CASE RejectPart
    <2>1. /\ pc = "total" /\ MoreParts /\ ~GoodPart /\ "Corrupt" \in Errors
          /\ files' = markFailure(files, {fi}, "Corrupt")
      BY <1>4 DEF RejectPart, Errors
    <2>2. ~Located(fi)
      BY <2>1, BadPart DEF Laid
    <2>3. /\ DOMAIN files' = DOMAIN files
          /\ \A i \in DOMAIN files : files'[i].failed <=> files[i].failed \/ i \in {fi}
      BY <2>1, MarkedFiles DEF Laid
    <2>4. ASSUME NEW i \in DOMAIN files, Located(i) PROVE files'[i].failed = files[i].failed
      <3>1. i # fi
        BY <2>2, <2>4
      <3>2. files'[i].failed <=> files[i].failed
        BY <2>3, <3>1
      <3>3. files'[i].failed \in BOOLEAN /\ files[i].failed \in BOOLEAN
        <4>1. files' \in Seq(FileAssembly)
          BY <1>2, <2>1, MarkFailureType
        <4>2. files'[i] \in FileAssembly /\ files[i] \in FileAssembly
          BY <1>2, <2>3, <4>1
        <4> QED BY <4>2 DEF FileAssembly
      <3> QED BY <3>2, <3>3
    <2> QED BY <1>1, <2>3, <2>4, BuildingOn
  <1>5. CASE AddRef
    <2>1. pc = "refs" /\ MoreParts
      BY <1>5 DEF AddRef
    <2>2. Part.uncompressedSize <= MaxUint - dest
      BY <2>1, PartFits DEF Laid
    <2>3. files' = files
      BY <1>5, <2>2 DEF AddRef
    <2> QED BY <1>1, <2>3, BuildingOn
  <1>6. CASE StartFile \/ AddPart \/ EndFile \/ EndFiles \/ SortGroup
    <2>1. files' = files
      BY <1>6 DEF StartFile, AddPart, EndFile, EndFiles, SortGroup
    <2> QED BY <1>1, <2>1, BuildingOn
  <1> QED BY <1>3, <1>4, <1>5, <1>6 DEF FileActions

\* The loop of allocateFileBuffers.
LEMMA PlanLoopDecided ==
  ASSUME Laid, PlanDecided, EndSort \/ PassFile \/ PlanFile \/ RefuseFile \/ EndPlan
  PROVE  PlanDecided'
  <1> USE DEF inputs, plan, decode, budget, outputs
  <1>1. /\ archive' = archive /\ verifyOnly' = verifyOnly /\ pc \in {"sort", "plan"}
        /\ pc' \in {"plan", "reserve"}
    BY DEF EndSort, PassFile, PlanFile, RefuseFile, EndPlan
  <1>2. /\ \A i : External(i)' = External(i) /\ Located(i)' = Located(i) /\ OutputSize(i)' = OutputSize(i)
        /\ \A i : Needs(i)' = Needs(i) /\ Assembles(i)' = Assembles(i)
    BY <1>1, ArchiveFixed, NeedsFixed
  <1>3. /\ files \in Seq(FileAssembly) /\ fi \in Nat /\ "LimitExceeded" \in Errors
        /\ Len(files) \in Nat /\ DOMAIN files = 1..Len(files) /\ total \in Nat
        /\ \A i \in DOMAIN files : files[i] \in FileAssembly /\ i \in Nat /\ i >= 1
    BY IntAssumption DEF Laid, IInv, TypeOK, Errors, Uint
  <1>4. ~Building /\ ~Building' /\ ~Decoding
    BY <1>1 DEF Building, Decoding
  <1>5. archive \in Archive
    BY DEF Laid, IInv, TypeOK
  <1>6. ASSUME NEW i \in DOMAIN files, pc = "plan"
        PROVE  Built(i, files[i]) /\ i \in DOMAIN archive.files
    <2>1. archiveErr = "none"
      BY <1>6 DEF Laid, FilesBuilt
    <2> QED BY <1>4, <2>1, BuiltFile DEF Laid
  \* It is enough that the file the loop is at is decided.
  <1>7. ASSUME pc = "plan", pc' = "plan", fi' = fi + 1, DOMAIN files' = DOMAIN files, total' >= total,
               total' \in Nat, fi \in DOMAIN files,
               \A i \in DOMAIN files : i # fi => files'[i] = files[i],
               ~External(fi) /\ Located(fi) /\ files'[fi].failed => Assembles(fi),
               files'[fi].assemble => Needs(fi),
               Needs(fi) /\ ~files'[fi].assemble => OutputSize(fi) > MaxUint - total
        PROVE  PlanDecided'
    <2>1. ASSUME NEW i \in DOMAIN files
          PROVE  /\ ~External(i) /\ Located(i) =>
                      /\ i >= fi' => ~files'[i].failed
                      /\ files'[i].failed => Assembles(i)
                 /\ files'[i].assemble => Needs(i)
                 /\ i < fi' => (Needs(i) /\ ~files'[i].assemble => OutputSize(i) > MaxUint - total')
      <3>1. Planning
        BY <1>7 DEF Planning
      <3>2. Needs(i) => OutputSize(i) \in Nat
        <4>1. i \in DOMAIN archive.files
          BY <1>6, <1>7
        <4> QED BY <1>5, <4>1, NeededType
      <3>3. OutputSize(i) > MaxUint - total /\ Needs(i) => OutputSize(i) > MaxUint - total'
        BY <1>3, <1>7, <3>2, IntAssumption
      <3>4. CASE i = fi
        BY <1>3, <1>7, <3>3, <3>4
      <3>5. CASE i # fi
        <4>1. files'[i] = files[i] /\ (i >= fi' => i >= fi) /\ (i < fi' => i < fi)
          BY <1>3, <1>7, <3>5
        <4> QED BY <1>7, <3>1, <3>3, <4>1 DEF PlanDecided
      <3> QED BY <3>4, <3>5
    <2> QED BY <1>2, <1>4, <1>7, <2>1 DEF PlanDecided
  <1>8. CASE EndSort
    <2>1. /\ pc = "sort" /\ pc' = "plan" /\ files' = files /\ fi' = 1
      BY <1>8 DEF EndSort
    <2>2. ASSUME NEW i \in DOMAIN files
          PROVE  ~(i < fi') /\ ~files[i].assemble /\ (~External(i) /\ Located(i) => ~files[i].failed)
      <3>1. ~(i < 1)
        BY <1>3
      <3>2. ~files[i].assemble
        BY <2>1 DEF Laid, BuffersPlanned
      <3> QED BY <2>1, <3>1, <3>2 DEF PlanDecided
    <2> QED BY <1>2, <2>1, <2>2 DEF PlanDecided
  <1>9. CASE PassFile
    <2>1. /\ pc = "plan" /\ pc' = "plan" /\ files' = files /\ fi' = fi + 1 /\ total' = total
          /\ fi \in DOMAIN files /\ ~Assembled
      BY <1>3, <1>9, FileTypes DEF PassFile, MoreFiles, Laid
    <2>2. ~External(fi) /\ Located(fi) => ~files[fi].failed
      BY <1>3, <2>1 DEF PlanDecided
    <2>3. ~Needs(fi)
      BY <1>6, <2>1, <2>2 DEF Needs, Assembles, Assembled, Built, file
    <2>4. ~files[fi].assemble
      BY <1>3, <2>1 DEF Laid, BuffersPlanned
    <2>5. total' >= total
      BY <1>3, <2>1
    <2> QED BY <1>3, <1>7, <2>1, <2>2, <2>3, <2>4, <2>5
  <1>10. CASE PlanFile
    <2>1. /\ pc = "plan" /\ pc' = "plan" /\ fi' = fi + 1 /\ total' = total + files[fi].totalSize
          /\ fi \in DOMAIN files /\ Assembled /\ Fits
          /\ files' = [files EXCEPT ![fi] = [files[fi] EXCEPT !.assemble = TRUE]]
      BY <1>3, <1>10, FileTypes DEF PlanFile, MoreFiles, Laid
    <2>2. /\ DOMAIN files' = DOMAIN files /\ \A i \in DOMAIN files : i # fi => files'[i] = files[i]
          /\ files'[fi].assemble = TRUE /\ files'[fi].failed = files[fi].failed
      BY <1>3, <2>1 DEF FileAssembly
    <2>3. ~files[fi].skip /\ ~files[fi].failed
      BY <2>1 DEF Assembled
    <2>4. ~External(fi) /\ Located(fi) /\ files[fi].totalSize = OutputSize(fi)
      BY <1>6, <2>1, <2>3 DEF Built
    <2>5. Needs(fi)
      BY <2>1, <2>4 DEF Needs, Assembles, Assembled, Fits, file
    <2>6. files[fi].totalSize \in Nat
      BY <1>3, <2>1, IntAssumption DEF FileAssembly, Uint
    <2>7. total' >= total /\ total' \in Nat
      BY <1>3, <2>1, <2>6
    <2> QED BY <1>7, <2>1, <2>2, <2>3, <2>5, <2>7
  <1>11. CASE RefuseFile
    <2>1. /\ pc = "plan" /\ pc' = "plan" /\ fi' = fi + 1 /\ total' = total
          /\ fi \in DOMAIN files /\ Assembled /\ ~Fits
          /\ files' = markFailure(files, {fi}, "LimitExceeded")
      BY <1>3, <1>11, FileTypes DEF RefuseFile, MoreFiles, Laid
    <2>2. DOMAIN files' = DOMAIN files /\ \A i \in DOMAIN files : i # fi => files'[i] = files[i]
      BY <2>1 DEF markFailure
    <2>3. ~files[fi].skip /\ ~files[fi].failed /\ ~files[fi].assemble
      BY <1>3, <2>1 DEF Assembled, Laid, BuffersPlanned
    <2>4. ~files'[fi].assemble
      BY <1>3, <2>1, <2>3, MarkedFiles DEF Laid
    <2>5. Assembles(fi)
      BY <2>1 DEF Assembles, Assembled, file
    <2>6. Needs(fi) => OutputSize(fi) > MaxUint - total
      <3>1. SUFFICES ASSUME Needs(fi) PROVE OutputSize(fi) > MaxUint - total
        OBVIOUS
      <3>2. files[fi].totalSize = OutputSize(fi) /\ OutputSize(fi) <= MaxInt
        BY <1>6, <2>1, <3>1 DEF Needs, Built
      <3>3. files[fi].totalSize \in Nat
        <4>1. files[fi] \in FileAssembly
          BY <1>3, <2>1
        <4> QED BY <4>1, IntAssumption DEF FileAssembly, Uint
      <3>4. ~(OutputSize(fi) <= MaxUint - total)
        BY <2>1, <3>2 DEF Fits
      <3> QED BY <1>3, <3>2, <3>3, <3>4, IntAssumption
    <2>7. total' >= total
      BY <1>3, <2>1
    <2> QED BY <1>3, <1>7, <2>1, <2>2, <2>4, <2>5, <2>6, <2>7
  <1>12. CASE EndPlan
    <2>1. /\ pc = "plan" /\ pc' = "reserve" /\ files' = files /\ total' = total /\ fi > Len(files)
      BY <1>3, <1>12 DEF EndPlan, MoreFiles
    <2>2. \A i \in DOMAIN files : i < fi
      BY <1>3, <2>1
    <2>3. Planning /\ Planning'
      BY <2>1 DEF Planning
    <2> QED BY <1>2, <1>4, <2>1, <2>2, <2>3 DEF PlanDecided
  <1> QED BY <1>8, <1>9, <1>10, <1>11, <1>12

LEMMA NextPlanDecided == Laid /\ PlanDecided /\ [Next]_vars => PlanDecided'
  <1> SUFFICES ASSUME Laid, PlanDecided, [Next]_vars PROVE PlanDecided'
    OBVIOUS
  <1>1. CASE UNCHANGED vars
    <2>1. /\ archive' = archive /\ verifyOnly' = verifyOnly /\ files' = files /\ pc' = pc
          /\ fi' = fi /\ total' = total
      BY <1>1 DEF vars, inputs, plan
    <2>2. /\ \A i : External(i)' = External(i) /\ Located(i)' = Located(i) /\ OutputSize(i)' = OutputSize(i)
          /\ \A i : Needs(i)' = Needs(i) /\ Assembles(i)' = Assembles(i)
      BY <2>1, ArchiveFixed, NeedsFixed
    <2>3. (Planning' <=> Planning) /\ (Building' <=> Building)
      BY <2>1 DEF Planning, Building
    <2> QED BY <2>1, <2>2, <2>3 DEF PlanDecided
  <1>2. CASE AcceptArchive
    <2>1. /\ archive' = archive /\ verifyOnly' = verifyOnly /\ files' = files
          /\ Building /\ Building'
      BY <1>2 DEF AcceptArchive, inputs, plan, Building
    <2> QED BY <2>1, BuildingOn
  <1>3. CASE RejectArchive \/ ReserveOutput \/ RefuseOutput
    BY <1>3, NotPlanning DEF RejectArchive, ReserveOutput, RefuseOutput
  <1>4. CASE FileActions \/ SortGroup
    BY <1>4, FilePlanDecided
  <1>5. CASE EndSort \/ PassFile \/ PlanFile \/ RefuseFile \/ EndPlan
    BY <1>5, PlanLoopDecided
  <1>6. CASE DecodeActions \/ ReportActions
    <2>1. Decoding' \/ pc' = "done"
      BY <1>6, DecodeFrame DEF Laid
    <2> QED BY <2>1, NotPlanning DEF Decoding
  <1> QED BY <1>1, <1>2, <1>3, <1>4, <1>5, <1>6
          DEF Next, Returned, Step, FileActions, DecodeActions, ReportActions

-----------------------------------------------------------------------------
(* The reservation.                                                        *)

\* What is planned is part of what is needed, and all of it unless the running
\* total has passed every integer.
LEMMA PlannedNeeded ==
  ASSUME Laid, PlanDecided, pc = "reserve"
  PROVE  /\ total \in Nat /\ limit \in Nat /\ limit <= MaxInt /\ Total(Needed) \in Nat
         /\ total <= Total(Needed)
         /\ total <= limit => /\ \A i \in DOMAIN files : files[i].assemble <=> Needs(i)
                              /\ total = Total(Needed)
  <1>1. /\ files \in Seq(FileAssembly) /\ archive \in Archive /\ Len(files) = Len(archive.files)
        /\ Planning /\ ~Building /\ archiveErr = "none" /\ Len(files) \in Nat /\ DOMAIN files = 1..Len(files)
        /\ total \in Nat /\ limit \in Nat /\ limit <= MaxInt
    BY IntAssumption DEF Laid, IInv, TypeOK, InRange, FilesBuilt, Planning, Building, Uint
  <1>2. /\ Needed \in Seq(Nat) /\ Len(Needed) = Len(archive.files) /\ Total(Needed) \in Nat
        /\ DOMAIN Needed = DOMAIN archive.files
    BY <1>1, NeededType
  <1>3. Planned(files) \in Seq(Nat) /\ Len(Planned(files)) = Len(files) /\ total = Total(Planned(files))
    BY <1>1, SizesType DEF Laid, BuffersPlanned
  <1>4. ASSUME NEW i \in DOMAIN files
        PROVE  /\ i \in DOMAIN archive.files
               /\ files[i].assemble => Needs(i) /\ Planned(files)[i] = Needed[i]
               /\ ~files[i].assemble => Planned(files)[i] = 0
               /\ ~Needs(i) => Needed[i] = 0
               /\ Needed[i] \in Nat
               /\ Needs(i) => OutputSize(i) \in Nat /\ OutputSize(i) <= MaxInt
    <2>1. Built(i, files[i]) /\ i \in DOMAIN archive.files
      BY <1>1, BuiltFile DEF Laid
    <2>2. files[i].assemble => Needs(i)
      BY <1>1 DEF PlanDecided
    <2>3. Needs(i) => files[i].totalSize = OutputSize(i) /\ Needed[i] = OutputSize(i)
      BY <2>1 DEF Needs, Built, Needed
    <2>4. ~Needs(i) => Needed[i] = 0
      BY <2>1 DEF Needed
    <2>5. Needs(i) => OutputSize(i) \in Nat /\ OutputSize(i) <= MaxInt
      BY <1>1, <2>1, NeededType DEF Needs
    <2> QED BY <2>1, <2>2, <2>3, <2>4, <2>5 DEF Planned
  <1>5. total <= Total(Needed)
    <2>1. \A k \in 1..Len(Planned(files)) : Planned(files)[k] <= Needed[k]
      <3>1. ASSUME NEW k \in DOMAIN files PROVE Planned(files)[k] <= Needed[k]
        BY <1>4
      <3> QED BY <1>1, <1>3, <3>1
    <2> QED BY <1>1, <1>2, <1>3, <2>1, TotalLeq
  <1>6. ASSUME total <= limit
        PROVE  (\A i \in DOMAIN files : files[i].assemble <=> Needs(i)) /\ total = Total(Needed)
    <2>1. ASSUME NEW i \in DOMAIN files PROVE files[i].assemble <=> Needs(i)
      <3>1. SUFFICES ASSUME Needs(i), ~files[i].assemble PROVE FALSE
        BY <1>4
      <3>2. OutputSize(i) > MaxUint - total
        BY <1>1, <3>1 DEF PlanDecided
      <3>3. OutputSize(i) \in Nat /\ OutputSize(i) <= MaxInt
        BY <1>4, <3>1
      <3> QED BY <1>1, <1>6, <3>2, <3>3, IntAssumption
    <2>2. \A i \in DOMAIN files : Planned(files)[i] = Needed[i]
      BY <1>4, <2>1
    <2>3. DOMAIN files = DOMAIN archive.files
      BY <1>1 DEF Archive
    <2>4. Planned(files) = Needed
      BY <2>2, <2>3 DEF Planned, Needed
    <2> QED BY <1>3, <2>1, <2>4
  <1> QED BY <1>1, <1>2, <1>5, <1>6

LEMMA NextOutputDecided == Laid /\ PlanDecided /\ OutputDecided /\ [Next]_vars => OutputDecided'
  <1> SUFFICES ASSUME Laid, PlanDecided, OutputDecided, [Next]_vars PROVE OutputDecided'
    OBVIOUS
  <1>1. ASSUME archive' = archive, verifyOnly' = verifyOnly, limit' = limit, total' = total,
               Decoding, DOMAIN files' = DOMAIN files,
               \A i \in DOMAIN files : files'[i].assemble = files[i].assemble
        PROVE  OutputDecided'
    <2>1. /\ \A i : Needs(i)' = Needs(i)
          /\ Needed' = Needed /\ Enough' = Enough
      BY <1>1, NeedsFixed
    <2>2. Total(Needed)' = Total(Needed)
      BY <2>1 DEF Total, Sums
    <2> QED BY <1>1, <2>1, <2>2 DEF OutputDecided
  <1>2. CASE UNCHANGED vars
    <2>1. /\ archive' = archive /\ verifyOnly' = verifyOnly /\ limit' = limit /\ total' = total
          /\ files' = files /\ pc' = pc
      BY <1>2 DEF vars, inputs, plan, budget
    <2>2. Decoding' <=> Decoding
      BY <2>1 DEF Decoding
    <2> QED BY <1>1, <2>1, <2>2 DEF OutputDecided
  <1>3. CASE DecodeActions \/ ReportActions
    <2>1. Decoding /\ UNCHANGED <<inputs, total, limit>> /\ SameFiles
      BY <1>3, DecodeFrame DEF Laid
    <2> QED BY <1>1, <2>1 DEF inputs, SameFiles, SameFile
  <1>4. CASE ReserveOutput \/ RefuseOutput
    <2>1. pc = "reserve" /\ archive' = archive /\ verifyOnly' = verifyOnly /\ limit' = limit
      BY <1>4 DEF ReserveOutput, RefuseOutput, inputs, budget
    <2>2. /\ total \in Nat /\ limit \in Nat /\ Total(Needed) \in Nat /\ total <= Total(Needed)
          /\ total <= limit => /\ \A i \in DOMAIN files : files[i].assemble <=> Needs(i)
                               /\ total = Total(Needed)
      BY <2>1, PlannedNeeded
    <2>3. CanReserve(total) <=> total <= limit
      <3>1. available = limit - used /\ used = 0
        BY <2>1, AvailableType DEF Laid, IInv, NothingReserved
      <3>2. available = limit
        BY <2>2, <3>1
      <3> QED BY <3>2 DEF CanReserve
    <2>4. Enough <=> total <= limit
      BY <2>2 DEF Enough
    <2>5. (\A i : Needs(i)' = Needs(i)) /\ Needed' = Needed /\ Enough' = Enough
      BY <2>1, NeedsFixed
    <2>6. Total(Needed)' = Total(Needed)
      BY <2>5 DEF Total, Sums
    <2>7. files \in Seq(FileAssembly) /\ "LimitExceeded" \in Errors
      BY DEF Laid, IInv, TypeOK, Errors
    <2>8. CASE ReserveOutput
      <3>1. total' = total /\ CanReserve(total) /\ DOMAIN files' = DOMAIN files
        BY <2>8 DEF ReserveOutput
      <3>2. ASSUME NEW i \in DOMAIN files PROVE files'[i].assemble = files[i].assemble
        <4>1. PICK d : files'[i] = [files[i] EXCEPT !.data = d] \/ files'[i] = files[i]
          BY <2>8 DEF ReserveOutput
        <4>2. files[i] \in FileAssembly
          BY <2>7
        <4> QED BY <4>1, <4>2 DEF FileAssembly
      <3> QED BY <2>2, <2>3, <2>4, <2>5, <2>6, <3>1, <3>2 DEF OutputDecided
    <2>9. CASE RefuseOutput
      <3> DEFINE assembled == {i \in DOMAIN files : files[i].assemble}
                 marked == markFailure(files, assembled, "LimitExceeded")
      <3>1. /\ total' = 0 /\ ~CanReserve(total)
            /\ files' = [i \in DOMAIN files |-> [marked[i] EXCEPT !.assemble = FALSE]]
        BY <2>9 DEF RefuseOutput
      <3>2. marked \in Seq(FileAssembly) /\ DOMAIN marked = DOMAIN files
        BY <2>7, MarkFailureType DEF markFailure
      <3> HIDE DEF marked, assembled
      <3>3. DOMAIN files' = DOMAIN files
        BY <3>1
      <3>4. ASSUME NEW i \in DOMAIN files PROVE ~files'[i].assemble
        <4>1. marked[i] \in FileAssembly /\ files'[i] = [marked[i] EXCEPT !.assemble = FALSE]
          BY <3>1, <3>2
        <4> QED BY <4>1 DEF FileAssembly
      <3> QED BY <2>3, <2>4, <2>5, <2>6, <3>1, <3>3, <3>4 DEF OutputDecided
    <2> QED BY <1>4, <2>8, <2>9
  <1>5. CASE pc' \notin {"group", "read", "chunk", "segment", "place", "finalize"}
    BY <1>5 DEF OutputDecided, Decoding
  <1>6. CASE RejectArchive \/ AcceptArchive \/ FileActions \/ SortActions \/ PassFile \/ PlanFile \/ RefuseFile \/ EndPlan
    <2> USE DEF inputs, plan, decode, budget, outputs
    <2>1. pc' \notin {"group", "read", "chunk", "segment", "place", "finalize"}
      BY <1>6 DEF RejectArchive, AcceptArchive, FileActions, SkipFile, StartFile, AddPart, RejectPart, SizeFile,
           AddRef, EndFile, EndFiles, SortActions, SortGroup, EndSort, PassFile, PlanFile, RefuseFile, EndPlan
    <2> QED BY <1>5, <2>1
  <1> QED BY <1>2, <1>3, <1>4, <1>6
          DEF Next, Returned, Step, FileActions, SortActions, DecodeActions, ReportActions

-----------------------------------------------------------------------------
(* The decoding.                                                           *)

\* What a chunk needs to decode is what the steps of decodeChunk ask for.
LEMMA ChunkSteps ==
  ASSUME Laid, ChunkDecoded, DecodingFits, gi <= Len(groups)
  PROVE  LET c == group.chunk
         IN  /\ pc = "group" => (OpenError(c) = "none" <=> /\ c.source = "chunk" /\ ~c.encrypted
                                                          /\ c.codec = "ok" /\ c.dict <= Room)
             /\ pc = "read" => (ReadError(c) = "none" <=> ~c.broken /\ c.length <= Room)
             /\ pc = "chunk" => CanReserve(Len(chunkData))
             /\ pc \in {"chunk", "segment", "place"} => ChunkFits(c)
             /\ pc = "read" => c.dict <= Room
  <1> DEFINE c == group.chunk
  <1>1. c \in Chunk /\ c.source \in Sources /\ c.codec \in Codecs /\ c.dict \in Nat /\ c.length \in Nat
    BY GroupTypes DEF Laid, Chunk
  <1>2. available = limit - used /\ limit \in Nat /\ total \in Nat /\ limit <= MaxInt
    BY AvailableType, IntAssumption DEF Laid, IInv, TypeOK, Uint
  <1>3. pc \in {"group", "read", "chunk"} => available = Room
    <2>1. pc \in {"group", "read", "chunk"} => used = total
      BY DEF Laid, IInv, BudgetHolds
    <2> QED BY <1>2, <2>1 DEF Room
  <1>4. /\ pc \in {"read", "chunk", "segment", "place"} =>
             c.source = "chunk" /\ ~c.encrypted /\ c.codec = "ok" /\ c.dict <= Room
        /\ pc \in {"chunk", "segment", "place"} =>
             ~c.broken /\ c.length <= Room /\ chunkData = ChunkBytes(c)
    BY DEF ChunkDecoded, DecodingFits
  <1>5. pc = "chunk" => Len(chunkData) = c.length
    BY <1>1, <1>4, ChunkBytesLength
  <1> HIDE DEF c
  <1>6. Room \in Int
    BY <1>2 DEF Room
  <1>7. pc = "group" => (OpenError(c) = "none" <=> /\ c.source = "chunk" /\ ~c.encrypted
                                                   /\ c.codec = "ok" /\ c.dict <= Room)
    BY <1>1, <1>3, <1>6 DEF OpenError, Codecs
  <1>8. pc = "read" => (ReadError(c) = "none" <=> ~c.broken /\ c.length <= Room)
    BY <1>1, <1>3, <1>6 DEF ReadError
  <1>9. pc = "chunk" => CanReserve(Len(chunkData))
    BY <1>3, <1>4, <1>5 DEF CanReserve
  <1>10. pc \in {"chunk", "segment", "place"} => ChunkFits(c)
    BY <1>4 DEF ChunkFits
  <1>11. pc = "read" => c.dict <= Room
    BY <1>4
  <1> QED BY <1>7, <1>8, <1>9, <1>10, <1>11 DEF c

\* What a segment needs to decode is what decodeFileSegment asks for.
LEMMA SegmentSteps ==
  ASSUME Laid, ChunkDecoded, pc = "segment", ri <= Len(group.refs)
  PROVE  PartFitsIn(ref.entry) <=>
           /\ SegmentError(ref.entry) = "none"
           /\ CanReserve(IF ref.entry.filter = "none" THEN 0
                         ELSE Len(Filtered(ref.entry, StoredBytes(ref.entry))))
  <1> DEFINE e == ref.entry
             n == Len(PartBytes(e))
             own == Len(Filtered(e, StoredBytes(e)))
  <1>1. /\ e \in DataEntry /\ e.chunk = group.chunk /\ Len(chunkData) = group.chunk.length
        /\ group.chunk.length \in Nat /\ e.filter \in Filters /\ e.size \in Nat /\ e.inflated \in Nat
        /\ InChunk(e) <=> e.offset + e.size <= group.chunk.length
        /\ InChunk(e) => Filtered(e, StoredBytes(e)) = PartBytes(e)
    BY DecodedSegment
  <1>2. n = (IF e.filter = "zlib" THEN e.inflated ELSE e.size) /\ n \in Nat
    BY <1>1, PartBytesLength
  <1>3. /\ available = limit - used /\ limit \in Nat /\ total \in Nat /\ used = total + Len(chunkData)
        /\ available \in Nat
    BY AvailableType, IntAssumption DEF Laid, IInv, TypeOK, BudgetHolds, Uint
  <1>4. available = Room - e.chunk.length
    BY <1>1, <1>3 DEF Room
  <1>5. InChunk(e) => own = n
    BY <1>1
  <1>6. InChunk(e) <=> e.offset + e.size <= e.chunk.length
    BY <1>1
  <1> HIDE DEF e, n, own
  <1>7. PartFitsIn(e) <=>
          /\ InChunk(e) /\ (e.filter # "none" => n <= available)
          /\ (e.filter = "zlib" => e.inflates) /\ e.intact
    BY <1>4, <1>6 DEF PartFitsIn, n
  <1>8. (SegmentError(e) = "none" /\ CanReserve(IF e.filter = "none" THEN 0 ELSE own)) <=>
          /\ InChunk(e) /\ (e.filter # "none" => n <= available)
          /\ (e.filter = "zlib" => e.inflates) /\ e.intact
    <2>1. CASE e.filter = "none"
      BY <1>3, <2>1 DEF SegmentError, CanReserve
    <2>2. CASE e.filter = "instruction"
      <3>1. n = e.size
        BY <1>2, <2>2
      <3> QED BY <1>1, <1>2, <1>3, <1>5, <2>2, <3>1 DEF SegmentError, CanReserve
    <2>3. CASE e.filter = "zlib"
      <3>1. n = e.inflated
        BY <1>2, <2>3
      <3> QED BY <1>1, <1>2, <1>3, <1>5, <2>3, <3>1 DEF SegmentError, CanReserve
    <2> QED BY <1>1, <2>1, <2>2, <2>3 DEF Filters
  <1> QED BY <1>7, <1>8 DEF e, own

\* A decoded segment has a place exactly when it fits.
LEMMA PlaceSteps ==
  ASSUME Laid, ChunkDecoded, DecodingFits, pc = "place"
  PROVE  PlaceError(ref) = "none" <=> RefFits(ref)
  <1> DEFINE n == Len(PartBytes(ref.entry))
             f == files[ref.file]
  <1>1. /\ Decoding /\ gi <= Len(groups) /\ ri <= Len(group.refs)
        /\ ref.file \in DOMAIN files /\ f \in FileAssembly /\ ref.dest \in Nat
        /\ ref.entry.uncompressedSize \in Nat /\ segment = PartBytes(ref.entry) /\ Len(segment) \in Nat
    BY PlacedSegment
  <1>2. ref.entry.chunk = group.chunk
    BY <1>1, RefPart
  <1>3. ChunkFits(ref.entry.chunk) /\ PartFitsIn(ref.entry)
    BY <1>1, <1>2, ChunkSteps DEF DecodingFits
  <1>4. f.assemble => Len(f.data) = f.totalSize
    BY <1>1 DEF Laid, BuffersPlanned
  <1>5. f.totalSize \in Nat /\ Len(segment) = n /\ n \in Nat
    BY <1>1, IntAssumption DEF FileAssembly, Uint
  <1>6. RefFits(ref) <=> /\ ref.entry.uncompressedSize # 0 => n = ref.entry.uncompressedSize
                         /\ f.assemble => ref.dest + n <= f.totalSize
    BY <1>3 DEF RefFits
  <1>7. PlaceError(ref) = "none" <=>
          /\ ref.entry.uncompressedSize # 0 => n = ref.entry.uncompressedSize
          /\ f.assemble => ~(ref.dest > Len(f.data)) /\ ~(n > Len(f.data) - ref.dest)
    BY <1>5 DEF PlaceError
  <1> HIDE DEF n, f
  <1>8. f.assemble => (ref.dest + n <= f.totalSize <=>
                         ~(ref.dest > Len(f.data)) /\ ~(n > Len(f.data) - ref.dest))
    <2>1. PICK a, b, s \in Nat : a = ref.dest /\ b = n /\ s = f.totalSize
      BY <1>1, <1>5
    <2>2. a + b <= s <=> ~(a > s) /\ ~(b > s - a)
      OBVIOUS
    <2> QED BY <1>4, <2>1, <2>2
  <1> QED BY <1>6, <1>7, <1>8

LEMMA NextDecodingFits == Laid /\ ChunkDecoded /\ DecodingFits /\ [Next]_vars => DecodingFits'
  <1> SUFFICES ASSUME Laid, ChunkDecoded, DecodingFits, [Next]_vars PROVE DecodingFits'
    OBVIOUS
  <1> USE DEF inputs, plan, decode, budget, outputs
  <1>1. ASSUME groups' = groups, limit' = limit, total' = total, gi' = gi
        PROVE  group' = group /\ Room' = Room
    BY <1>1 DEF group, Room
  <1>2. ASSUME Room' = Room PROVE \A e : PartFitsIn(e)' <=> PartFitsIn(e)
    BY <1>2 DEF PartFitsIn
  <1>3. CASE pc' \notin {"read", "chunk", "segment", "place"}
    BY <1>3 DEF DecodingFits
  <1>4. CASE UNCHANGED vars
    <2>1. group' = group /\ Room' = Room /\ ref' = ref /\ pc' = pc
      BY <1>1, <1>4 DEF vars, ref
    <2> QED BY <1>2, <2>1 DEF DecodingFits
  <1>5. CASE OpenChunk
    <2>1. /\ pc = "group" /\ pc' = "read" /\ gi <= Len(groups) /\ OpenError(group.chunk) = "none"
          /\ group' = group /\ Room' = Room
      BY <1>1, <1>5 DEF OpenChunk
    <2>2. group.chunk.dict <= Room
      BY <2>1, ChunkSteps
    <2> QED BY <2>1, <2>2 DEF DecodingFits
  <1>6. CASE ReadChunk
    <2>1. /\ pc = "read" /\ pc' = "chunk" /\ gi <= Len(groups) /\ ReadError(group.chunk) = "none"
          /\ group' = group /\ Room' = Room
      BY <1>1, <1>6 DEF ReadChunk, Laid, IInv, InRange
    <2>2. group.chunk.dict <= Room /\ group.chunk.length <= Room
      BY <2>1, ChunkSteps
    <2> QED BY <2>1, <2>2 DEF DecodingFits
  <1>7. CASE ReserveChunk \/ SkipRef \/ FailSegment \/ PlaceSegment
    <2>1. pc \in {"chunk", "segment", "place"} /\ pc' \in {"segment", "group"}
      BY <1>7 DEF ReserveChunk, SkipRef, FailSegment, PlaceSegment, FailGroup
    <2>2. pc' = "segment" => groups' = groups /\ limit' = limit /\ total' = total /\ gi' = gi
      BY <1>7 DEF ReserveChunk, SkipRef, FailSegment, PlaceSegment, FailGroup
    <2>3. pc' = "segment" => group' = group /\ Room' = Room
      BY <1>1, <2>2
    <2> QED BY <2>1, <2>3 DEF DecodingFits
  <1>8. CASE DecodeSegment
    <2>1. /\ pc = "segment" /\ pc' \in {"segment", "place"} /\ ri <= Len(group.refs)
          /\ group' = group /\ Room' = Room
      BY <1>1, <1>8 DEF DecodeSegment
    <2>2. CASE pc' = "place"
      <3>1. /\ ri' = ri /\ SegmentError(ref.entry) = "none"
            /\ CanReserve(IF ref.entry.filter = "none" THEN 0
                          ELSE Len(Filtered(ref.entry, StoredBytes(ref.entry))))
        BY <1>8, <2>1, <2>2 DEF DecodeSegment
      <3>2. PartFitsIn(ref.entry)
        BY <2>1, <3>1, SegmentSteps
      <3>3. ref' = ref
        BY <2>1, <3>1 DEF ref
      <3> QED BY <1>2, <2>1, <2>2, <3>2, <3>3 DEF DecodingFits
    <2>3. CASE pc' = "segment"
      BY <2>1, <2>3 DEF DecodingFits
    <2> QED BY <2>1, <2>2, <2>3
  <1>9. CASE \/ RejectArchive \/ AcceptArchive \/ FileActions \/ SortActions \/ PlanActions
             \/ SkipGroup \/ FailOpen \/ FailRead \/ ReleaseChunk \/ EndGroups \/ ReportActions
    <2>1. pc' \notin {"read", "chunk", "segment", "place"}
      BY <1>9 DEF RejectArchive, AcceptArchive, FileActions, SkipFile, StartFile, AddPart, RejectPart, SizeFile,
           AddRef, EndFile, EndFiles, SortActions, SortGroup, EndSort, PlanActions, PassFile, PlanFile,
           RefuseFile, EndPlan, ReserveOutput, RefuseOutput, SkipGroup, FailOpen, FailRead, FailGroup,
           ReleaseChunk, EndGroups, ReportActions, ReportSkipped, ReportFailure, ReportResult, Return
    <2> QED BY <1>3, <2>1
  <1> QED BY <1>4, <1>5, <1>6, <1>7, <1>8, <1>9
          DEF Next, Returned, Step, FileActions, SortActions, PlanActions, ReportActions

\* A step of the decoding after which a file has failed for the segments that
\* have been dealt with since.
LEMMA FailuresOn ==
  ASSUME Laid, FailuresDecided, Decoding,
         archive' = archive, verifyOnly' = verifyOnly, groups' = groups,
         total' = total, limit' = limit, SameFiles,
         \A i \in DOMAIN files : ~External(i) /\ Located(i) =>
           /\ files'[i].failed /\ ~files[i].failed =>
                \E r \in Slots(groups, i) : Done(r)' /\ ~SlotFits(r)
           /\ \A r \in Slots(groups, i) : Done(r) => Done(r)'
           /\ ~files'[i].failed =>
                \A r \in Slots(groups, i) : Done(r)' => Done(r) \/ SlotFits(r)
  PROVE  FailuresDecided'
  <1>1. \A i : External(i)' = External(i) /\ Located(i)' = Located(i) /\ Assembles(i)' = Assembles(i)
    BY ArchiveFixed, NeedsFixed
  <1>2. Room' = Room /\ \A i : Slots(groups, i)' = Slots(groups, i)
    BY DEF Room, Slots
  <1>3. DOMAIN files' = DOMAIN files
    BY DEF SameFiles
  <1>4. ASSUME NEW i \in DOMAIN files, NEW r \in Slots(groups, i)
        PROVE  SlotFits(r)' <=> SlotFits(r)
    <2>1. groups[r[1]].refs[r[2]].file = i
      BY SlotPart
    <2>2. files'[i].assemble = files[i].assemble /\ files'[i].totalSize = files[i].totalSize
      BY DEF SameFiles, SameFile
    <2> QED BY <1>2, <2>1, <2>2 DEF SlotFits, RefFits, ChunkFits, PartFitsIn
  <1>5. ASSUME NEW i \in DOMAIN files, ~External(i), Located(i), files[i].assemble \/ ~Assembles(i)
        PROVE  files'[i].failed <=> \E r \in Slots(groups, i) : Done(r)' /\ ~SlotFits(r)'
    <2>1. files[i].failed <=> \E r \in Slots(groups, i) : Done(r) /\ ~SlotFits(r)
      BY <1>5 DEF FailuresDecided
    <2>2. files[i].failed => files'[i].failed
      BY DEF SameFiles, SameFile
    <2>3. CASE files'[i].failed
      <3>1. \E r \in Slots(groups, i) : Done(r)' /\ ~SlotFits(r)
        BY <1>5, <2>1, <2>3
      <3> QED BY <1>4, <2>3, <3>1
    <2>4. CASE ~files'[i].failed
      <3>1. \A r \in Slots(groups, i) : Done(r)' => Done(r) \/ SlotFits(r)
        BY <1>5, <2>4
      <3>2. \A r \in Slots(groups, i) : Done(r)' => SlotFits(r)
        BY <2>1, <2>2, <2>4, <3>1
      <3> QED BY <1>4, <2>4, <3>2
    <2> QED BY <2>3, <2>4
  <1>6. \A i \in DOMAIN files : files'[i].assemble = files[i].assemble
    BY DEF SameFiles, SameFile
  <1> QED BY <1>1, <1>2, <1>3, <1>5, <1>6 DEF FailuresDecided

\* A group that does not decode is given up, and so is one nobody needs.
LEMMA GroupEndsDecided ==
  ASSUME Laid, FailuresDecided, pc \in {"group", "read"}, pc' = "group", gi <= Len(groups), gi' = gi + 1,
         archive' = archive, verifyOnly' = verifyOnly, groups' = groups,
         total' = total, limit' = limit, SameFiles,
         \A i \in Owners(group) : files'[i].failed,
         \/ ~ChunkFits(group.chunk)
         \/ files' = files,
         \A i \in DOMAIN files : files'[i].failed => files[i].failed \/ i \in Owners(group)
  PROVE  FailuresDecided'
  <1>1. Decoding /\ gi \in Nat
    BY DEF Decoding, Laid, IInv, TypeOK
  <1>2. ASSUME NEW i \in DOMAIN files, NEW r \in Slots(groups, i)
        PROVE  /\ Done(r) <=> r[1] < gi
               /\ Done(r)' <=> r[1] <= gi
               /\ r[1] \in Nat /\ r[1] \in DOMAIN groups /\ r[2] \in DOMAIN groups[r[1]].refs
               /\ groups[r[1]].refs[r[2]].file = i
    <2>1. /\ r[1] \in Nat /\ r[1] \in DOMAIN groups /\ r[2] \in DOMAIN groups[r[1]].refs
          /\ groups[r[1]].refs[r[2]].file = i
      BY <1>1, SlotPart
    <2>2. r[1] < gi + 1 <=> r[1] <= gi
      BY <1>1, <2>1
    <2> QED BY <2>1, <2>2 DEF Done
  <1>3. ASSUME NEW i \in DOMAIN files, files'[i].failed, ~files[i].failed
        PROVE  \E r \in Slots(groups, i) : Done(r)' /\ ~SlotFits(r)
    <2>1. i \in Owners(group) /\ ~ChunkFits(group.chunk)
      BY <1>3
    <2>2. PICK k \in DOMAIN group.refs : group.refs[k].file = i
      BY <2>1 DEF Owners
    <2>3. gi \in DOMAIN groups /\ group = groups[gi]
      BY GroupTypes DEF Laid, group
    <2>4. PICK r : r = <<gi, k>>
      OBVIOUS
    <2>5. r \in Slots(groups, i) /\ r[1] = gi /\ r[2] = k
      BY <2>2, <2>3, <2>4, SlotsMember
    <2>6. Done(r)'
      BY <1>1, <1>2, <2>5
    <2>7. \E m \in DOMAIN Parts(i) : HoldsPart(groups, r, i, m)
      BY <1>1, <2>5, SlotPart
    <2>8. groups[r[1]].refs[r[2]].entry.chunk = group.chunk
      BY <2>3, <2>5, <2>7 DEF HoldsPart
    <2>9. ~SlotFits(r)
      BY <2>1, <2>8 DEF SlotFits, RefFits
    <2> QED BY <2>5, <2>6, <2>9
  <1>4. ASSUME NEW i \in DOMAIN files, ~files'[i].failed, NEW r \in Slots(groups, i), Done(r)'
        PROVE  Done(r)
    <2>1. r[1] # gi
      <3>1. SUFFICES ASSUME r[1] = gi PROVE FALSE
        OBVIOUS
      <3>2. i \in Owners(group)
        BY <1>2, <3>1 DEF Owners, group
      <3> QED BY <1>4, <3>2
    <2> QED BY <1>1, <1>2, <1>4, <2>1
  <1>5. ASSUME NEW i \in DOMAIN files, NEW r \in Slots(groups, i), Done(r) PROVE Done(r)'
    BY <1>1, <1>2, <1>5
  <1> QED BY <1>1, <1>3, <1>4, <1>5, FailuresOn

\* A segment has been dealt with: its file has failed, or had failed before,
\* or the segment fits.
LEMMA RefEndsDecided ==
  ASSUME Laid, FailuresDecided, pc \in {"segment", "place"}, pc' = "segment",
         gi <= Len(groups), ri <= Len(group.refs), ri' = ri + 1, gi' = gi,
         archive' = archive, verifyOnly' = verifyOnly, groups' = groups,
         total' = total, limit' = limit, SameFiles,
         \A i \in DOMAIN files : files'[i].failed => files[i].failed \/ (i = ref.file /\ ~RefFits(ref)),
         files'[ref.file].failed \/ RefFits(ref)
  PROVE  FailuresDecided'
  <1>1. Decoding /\ gi \in Nat /\ ri \in Nat
    BY DEF Decoding, Laid, IInv, TypeOK
  <1>2. ASSUME NEW i \in DOMAIN files, NEW r \in Slots(groups, i)
        PROVE  /\ Done(r) => Done(r)'
               /\ Done(r)' => Done(r) \/ (r[1] = gi /\ r[2] = ri)
               /\ groups[r[1]].refs[r[2]].file = i
    <2>1. r[1] \in Nat /\ r[2] \in Nat /\ groups[r[1]].refs[r[2]].file = i
      BY <1>1, SlotPart
    <2>2. r[2] < ri + 1 <=> r[2] < ri \/ r[2] = ri
      BY <1>1, <2>1
    <2> QED BY <2>1, <2>2 DEF Done
  <1>3. /\ ref.file \in DOMAIN files /\ <<gi, ri>> \in Slots(groups, ref.file)
        /\ groups[gi].refs[ri] = ref
    BY <1>1, RefPart
  <1>4. PICK at : at = <<gi, ri>>
    OBVIOUS
  <1>5. Done(at)' /\ at[1] = gi /\ at[2] = ri
    <2>1. at[1] = gi /\ at[2] = ri
      BY <1>4
    <2> QED BY <1>1, <2>1 DEF Done
  <1>6. \A r : r[1] = gi /\ r[2] = ri => (SlotFits(r) <=> RefFits(ref)) /\ groups[r[1]].refs[r[2]].file = ref.file
    BY <1>3 DEF SlotFits
  <1>7. ASSUME NEW i \in DOMAIN files, files'[i].failed, ~files[i].failed
        PROVE  \E r \in Slots(groups, i) : Done(r)' /\ ~SlotFits(r)
    <2>1. i = ref.file /\ ~RefFits(ref)
      BY <1>7
    <2>2. at \in Slots(groups, i) /\ ~SlotFits(at)
      BY <1>3, <1>5, <1>6, <1>4, <2>1
    <2> QED BY <1>5, <2>2
  <1>8. ASSUME NEW i \in DOMAIN files, ~files'[i].failed, NEW r \in Slots(groups, i), Done(r)'
        PROVE  Done(r) \/ SlotFits(r)
    <2>1. SUFFICES ASSUME r[1] = gi, r[2] = ri PROVE SlotFits(r)
      BY <1>2, <1>8
    <2>2. i = ref.file
      BY <1>2, <1>6, <2>1
    <2> QED BY <1>6, <1>8, <2>1, <2>2
  <1> QED BY <1>1, <1>2, <1>7, <1>8, FailuresOn

\* A step within the decoding of a chunk that deals with nothing.
LEMMA NothingEndsDecided ==
  ASSUME Laid, FailuresDecided, Decoding,
         archive' = archive, verifyOnly' = verifyOnly, groups' = groups,
         total' = total, limit' = limit, files' = files,
         \A i \in DOMAIN files : \A r \in Slots(groups, i) : Done(r)' <=> Done(r)
  PROVE  FailuresDecided'
  <1>1. SameFiles
    BY DEF SameFiles, SameFile
  <1> QED BY <1>1, FailuresOn

LEMMA DecodeFailuresDecided ==
  ASSUME Laid, ChunkDecoded, PartsPlaced, DecodingFits, FailuresDecided, DecodeActions
  PROVE  FailuresDecided'
  <1> USE DEF inputs, plan, decode, budget, outputs
  <1>1. /\ Decoding /\ archive' = archive /\ verifyOnly' = verifyOnly /\ groups' = groups
        /\ total' = total /\ limit' = limit /\ SameFiles
    BY DecodeFrame DEF Laid
  <1>2. /\ gi \in Nat /\ ri \in Nat /\ groups \in Seq(ChunkGroup) /\ IInv
        /\ files \in Seq(FileAssembly) /\ {"Corrupt", "LimitExceeded"} \subseteq Errors
    BY DEF Laid, IInv, TypeOK, Errors
  <1>3. \A i \in DOMAIN files : \A r \in Slots(groups, i) :
          /\ r[1] \in Nat /\ r[2] \in Nat /\ r[2] >= 1 /\ r[1] \in DOMAIN groups
          /\ r[2] <= Len(groups[r[1]].refs)
    BY <1>1, SlotPart
  <1>4. ASSUME gi <= Len(groups), NEW err, FailGroup(err), err \in Errors, pc \in {"group", "read"},
               ~ChunkFits(group.chunk)
        PROVE  FailuresDecided'
    <2>1. pc' = "group" /\ gi' = gi + 1 /\ files' = markFailure(files, Owners(group), err)
      BY <1>4 DEF FailGroup
    <2>2. /\ DOMAIN files' = DOMAIN files
          /\ \A i \in DOMAIN files : files'[i].failed <=> files[i].failed \/ i \in Owners(group)
      BY <1>2, <1>4, <2>1, MarkedFiles
    <2>3. Owners(group) \subseteq DOMAIN files
      BY <1>1, <1>4, OwnerPart
    <2> QED BY <1>1, <1>4, <2>1, <2>2, <2>3, GroupEndsDecided
  <1>5. CASE SkipGroup
    <2>1. /\ pc = "group" /\ pc' = "group" /\ gi <= Len(groups) /\ gi' = gi + 1 /\ files' = files
          /\ ~groupNeeded
      BY <1>5 DEF SkipGroup
    <2>2. ASSUME NEW i \in Owners(group) PROVE files[i].failed
      <3>1. i \in DOMAIN files /\ ~External(i) /\ archiveErr = "none" /\ ~Building
        BY <1>1, <2>1, OwnerPart, DecodingBasics DEF Laid
      <3>2. ~files[i].skip
        BY <3>1, BuiltFile DEF Built, Laid
      <3> QED BY <2>1, <3>2 DEF groupNeeded
    <2> QED BY <1>1, <2>1, <2>2, GroupEndsDecided
  <1>6. CASE OpenChunk \/ ReadChunk \/ EndGroups
    <2>1. /\ pc \in {"group", "read"} /\ pc' \in {"read", "chunk", "finalize"} /\ gi' = gi
          /\ files' = files
      BY <1>6 DEF OpenChunk, ReadChunk, EndGroups
    <2>2. \A r : Done(r)' <=> Done(r)
      BY <2>1 DEF Done
    <2> QED BY <1>1, <2>1, <2>2, NothingEndsDecided
  <1>7. CASE FailOpen
    <2>1. /\ pc = "group" /\ gi <= Len(groups) /\ OpenError(group.chunk) # "none"
          /\ FailGroup(OpenError(group.chunk))
      BY <1>7 DEF FailOpen
    <2>2. ~ChunkFits(group.chunk)
      BY <2>1, ChunkSteps DEF ChunkFits
    <2>3. OpenError(group.chunk) \in Errors
      BY <2>1 DEF OpenError, Errors
    <2> QED BY <1>4, <2>1, <2>2, <2>3
  <1>8. CASE FailRead
    <2>1. /\ pc = "read" /\ gi <= Len(groups) /\ ReadError(group.chunk) # "none"
          /\ FailGroup(ReadError(group.chunk))
      BY <1>8 DEF FailRead, Laid, IInv, InRange
    <2>2. ~ChunkFits(group.chunk)
      BY <2>1, ChunkSteps DEF ChunkFits
    <2>3. ReadError(group.chunk) \in Errors
      BY <2>1 DEF ReadError, Errors
    <2> QED BY <1>4, <2>1, <2>2, <2>3
  <1>9. CASE ReserveChunk
    <2>1. pc = "chunk" /\ gi <= Len(groups)
      BY <1>9 DEF ReserveChunk, Laid, IInv, InRange
    <2>2. CanReserve(Len(chunkData))
      BY <2>1, ChunkSteps
    <2>3. pc' = "segment" /\ gi' = gi /\ ri' = 1 /\ files' = files
      BY <1>9, <2>2 DEF ReserveChunk
    <2>4. ASSUME NEW i \in DOMAIN files, NEW r \in Slots(groups, i) PROVE Done(r)' <=> Done(r)
      <3>1. r[2] \in Nat /\ r[2] >= 1
        BY <1>3
      <3>2. ~(r[2] < 1)
        BY <3>1
      <3> QED BY <2>1, <2>3, <3>2 DEF Done
    <2> QED BY <1>1, <2>3, <2>4, NothingEndsDecided
  <1>10. CASE ReleaseChunk
    <2>1. pc = "segment" /\ pc' = "group" /\ gi' = gi + 1 /\ files' = files /\ ri > Len(group.refs)
      BY <1>10 DEF ReleaseChunk
    <2>2. ASSUME NEW i \in DOMAIN files, NEW r \in Slots(groups, i) PROVE Done(r)' <=> Done(r)
      <3>1. r[1] \in Nat /\ r[2] \in Nat /\ r[1] \in DOMAIN groups /\ r[2] <= Len(groups[r[1]].refs)
        BY <1>3
      <3>2. r[1] = gi => r[2] < ri
        <4>1. SUFFICES ASSUME r[1] = gi PROVE r[2] < ri
          OBVIOUS
        <4>2. gi \in DOMAIN groups /\ groups[gi] \in ChunkGroup
          BY <1>2, <3>1, <4>1
        <4>3. group.refs = groups[gi].refs /\ groups[gi].refs \in Seq(SegmentRef)
          BY <4>2 DEF group, ChunkGroup
        <4>4. Len(groups[gi].refs) \in Nat
          BY <4>3
        <4> QED BY <1>2, <2>1, <3>1, <4>1, <4>3, <4>4
      <3>3. r[1] < gi + 1 <=> r[1] < gi \/ r[1] = gi
        BY <1>2, <3>1
      <3> QED BY <2>1, <3>2, <3>3 DEF Done
    <2> QED BY <1>1, <2>1, <2>2, NothingEndsDecided
  <1>11. CASE SkipRef
    <2>1. /\ pc = "segment" /\ pc' = "segment" /\ gi' = gi /\ ri' = ri + 1 /\ files' = files
          /\ gi <= Len(groups) /\ ri <= Len(group.refs) /\ files[ref.file].failed
      BY <1>11 DEF SkipRef, Laid, IInv, InRange
    <2> QED BY <1>1, <2>1, RefEndsDecided
  <1>12. ASSUME gi <= Len(groups), ri <= Len(group.refs), pc \in {"segment", "place"}, pc' = "segment",
                gi' = gi, ri' = ri + 1, ~RefFits(ref), NEW err \in Errors,
                files' = markFailure(files, {ref.file}, err)
         PROVE  FailuresDecided'
    <2>1. ref.file \in DOMAIN files
      BY <1>1, <1>12, RefPart
    <2>2. \A i \in DOMAIN files : files'[i].failed <=> files[i].failed \/ i \in {ref.file}
      BY <1>2, <1>12, MarkedFiles
    <2> QED BY <1>1, <1>12, <2>1, <2>2, RefEndsDecided
  <1>13. CASE FailSegment
    <2>1. /\ pc = "segment" /\ pc' = "segment" /\ gi' = gi /\ ri' = ri + 1
          /\ gi <= Len(groups) /\ ri <= Len(group.refs) /\ SegmentError(ref.entry) # "none"
          /\ files' = markFailure(files, {ref.file}, SegmentError(ref.entry))
      BY <1>13 DEF FailSegment, Laid, IInv, InRange
    <2>2. ~RefFits(ref)
      BY <2>1, SegmentSteps DEF RefFits
    <2>3. SegmentError(ref.entry) \in Errors
      BY <2>1 DEF SegmentError, Errors
    <2> QED BY <1>12, <2>1, <2>2, <2>3
  <1>14. CASE DecodeSegment
    <2> DEFINE own == IF ref.entry.filter = "none" THEN 0
                      ELSE Len(Filtered(ref.entry, StoredBytes(ref.entry)))
    <2>1. /\ pc = "segment" /\ gi' = gi /\ gi <= Len(groups) /\ ri <= Len(group.refs)
          /\ IF CanReserve(own) THEN pc' = "place" /\ files' = files /\ ri' = ri
             ELSE /\ files' = markFailure(files, {ref.file}, "LimitExceeded")
                  /\ ri' = ri + 1 /\ pc' = pc
      BY <1>14 DEF DecodeSegment, Laid, IInv, InRange
    <2>2. CASE CanReserve(own)
      <3>1. \A r : Done(r)' <=> Done(r)
        BY <2>1, <2>2 DEF Done
      <3> QED BY <1>1, <2>1, <2>2, <3>1, NothingEndsDecided
    <2>3. CASE ~CanReserve(own)
      <3>1. ~RefFits(ref)
        BY <2>1, <2>3, SegmentSteps DEF RefFits
      <3>2. "LimitExceeded" \in Errors
        BY <1>2
      <3> HIDE DEF own
      <3> QED BY <1>12, <2>1, <2>3, <3>1, <3>2
    <2> QED BY <2>2, <2>3
  <1>15. CASE PlaceSegment
    <2>1. /\ pc = "place" /\ pc' = "segment" /\ gi' = gi /\ ri' = ri + 1
          /\ gi <= Len(groups) /\ ri <= Len(group.refs) /\ ref.file \in DOMAIN files
      BY <1>15, PlacedSegment DEF PlaceSegment
    <2>2. PlaceError(ref) = "none" <=> RefFits(ref)
      BY <2>1, PlaceSteps
    <2>3. CASE PlaceError(ref) # "none"
      <3>1. files' = markFailure(files, {ref.file}, PlaceError(ref))
        BY <1>15, <2>3 DEF PlaceSegment
      <3>2. PlaceError(ref) \in Errors
        BY <2>3 DEF PlaceError, Errors
      <3> QED BY <1>12, <2>1, <2>2, <2>3, <3>1, <3>2
    <2>4. CASE PlaceError(ref) = "none"
      <3>1. \A i \in DOMAIN files : files'[i].failed = files[i].failed
        <4>1. ASSUME NEW i \in DOMAIN files PROVE files'[i].failed = files[i].failed
          <5>1. \/ files'[i] = files[i]
                \/ files'[i] = [files[i] EXCEPT !.data = Copied(files[i].data, ref.dest, segment)]
            BY <1>15, <2>4 DEF PlaceSegment
          <5>2. files[i] \in FileAssembly
            BY <1>2
          <5> QED BY <5>1, <5>2 DEF FileAssembly
        <4> QED BY <4>1
      <3> QED BY <1>1, <2>1, <2>2, <2>4, <3>1, RefEndsDecided
    <2> QED BY <2>3, <2>4
  <1> QED BY <1>5, <1>6, <1>7, <1>8, <1>9, <1>10, <1>11, <1>13, <1>14, <1>15 DEF DecodeActions

LEMMA NextFailuresDecided ==
  Laid /\ ChunkDecoded /\ PartsPlaced /\ PlanDecided /\ DecodingFits /\ FailuresDecided /\ [Next]_vars
    => FailuresDecided'
  <1> SUFFICES ASSUME Laid, ChunkDecoded, PartsPlaced, PlanDecided, DecodingFits, FailuresDecided, [Next]_vars
               PROVE  FailuresDecided'
    OBVIOUS
  <1> USE DEF inputs, plan, decode, budget, outputs
  <1>1. CASE UNCHANGED vars \/ ReportActions
    <2>1. CASE Decoding /\ Decoding'
      <3>1. /\ archive' = archive /\ verifyOnly' = verifyOnly /\ groups' = groups
            /\ total' = total /\ limit' = limit /\ files' = files /\ pc' = pc /\ gi' = gi /\ ri' = ri
        BY <1>1, <2>1 DEF vars, ReportActions, ReportSkipped, ReportFailure, ReportResult, Return, Decoding
      <3>2. \A r : Done(r)' <=> Done(r)
        BY <3>1 DEF Done
      <3> QED BY <2>1, <3>1, <3>2, NothingEndsDecided
    <2>2. CASE ~Decoding'
      BY <2>2 DEF FailuresDecided
    <2>3. CASE ~Decoding
      <3>1. UNCHANGED vars \/ Decoding
        BY <1>1, DecodeFrame DEF Laid
      <3>2. ~Decoding'
        BY <2>3, <3>1 DEF vars, Decoding
      <3> QED BY <2>2, <3>2
    <2> QED BY <2>1, <2>2, <2>3
  <1>2. CASE DecodeActions
    BY <1>2, DecodeFailuresDecided
  <1>3. CASE ReserveOutput \/ RefuseOutput
    <2>1. /\ pc = "reserve" /\ pc' = "group" /\ gi' = gi /\ groups' = groups
          /\ archive' = archive /\ verifyOnly' = verifyOnly /\ DOMAIN files' = DOMAIN files
      BY <1>3 DEF ReserveOutput, RefuseOutput
    <2>2. gi = 1 /\ Decoding' /\ Planning /\ files \in Seq(FileAssembly) /\ "LimitExceeded" \in Errors
      BY <2>1 DEF PartsPlaced, Decoding, Planning, Laid, IInv, TypeOK, Errors
    <2>3. \A i : External(i)' = External(i) /\ Located(i)' = Located(i) /\ Assembles(i)' = Assembles(i)
      BY <2>1, ArchiveFixed, NeedsFixed
    <2>4. ASSUME NEW i \in DOMAIN files, NEW r \in Slots(groups, i)' PROVE ~Done(r)'
      <3>1. r \in Slots(groups, i)
        BY <2>1, <2>4 DEF Slots
      <3>2. r[1] \in DOMAIN groups
        BY <3>1, SlotsMember
      <3>3. groups \in Seq(ChunkGroup)
        BY DEF Laid, IInv, TypeOK
      <3>4. ~(r[1] < 1)
        BY <3>2, <3>3
      <3> QED BY <2>1, <2>2, <3>4 DEF Done
    <2>5. ASSUME NEW i \in DOMAIN files, ~External(i), Located(i), files'[i].assemble \/ ~Assembles(i)
          PROVE  ~files'[i].failed
      <3>1. files[i] \in FileAssembly
        BY <2>2
      <3>2. /\ files[i].assemble => ~files[i].failed /\ Assembles(i)
            /\ files[i].failed => Assembles(i)
        BY <2>2, <2>5 DEF PlanDecided, Laid, BuffersPlanned, Needs
      <3>3. CASE ReserveOutput
        <4>1. \E d : files'[i] = [files[i] EXCEPT !.data = d] \/ files'[i] = files[i]
          BY <3>3 DEF ReserveOutput
        <4>2. PICK d : files'[i] = [files[i] EXCEPT !.data = d] \/ files'[i] = files[i]
          BY <4>1
        <4>3. files'[i].failed = files[i].failed /\ files'[i].assemble = files[i].assemble
          BY <3>1, <4>2 DEF FileAssembly
        <4> QED BY <2>5, <3>2, <4>3
      <3>4. CASE RefuseOutput
        <4> DEFINE assembled == {j \in DOMAIN files : files[j].assemble}
                   marked == markFailure(files, assembled, "LimitExceeded")
        <4>1. files' = [j \in DOMAIN files |-> [marked[j] EXCEPT !.assemble = FALSE]]
          BY <3>4 DEF RefuseOutput
        <4>2. marked \in Seq(FileAssembly) /\ DOMAIN marked = DOMAIN files
          BY <2>2, MarkFailureType DEF markFailure
        <4>3. marked[i] \in FileAssembly /\ files'[i] = [marked[i] EXCEPT !.assemble = FALSE]
          BY <4>1, <4>2
        <4>4. marked[i] = files[i] \/ files[i].assemble
          BY DEF markFailure
        <4> HIDE DEF marked, assembled
        <4>5. files'[i].failed = marked[i].failed /\ files'[i].assemble = FALSE
          BY <4>3 DEF FileAssembly
        <4>6. ~Assembles(i)
          BY <2>5, <4>5
        <4> QED BY <3>2, <4>4, <4>5, <4>6
      <3> QED BY <1>3, <3>3, <3>4
    <2> QED BY <2>1, <2>2, <2>3, <2>4, <2>5 DEF FailuresDecided
  <1>4. CASE RejectArchive \/ AcceptArchive \/ FileActions \/ SortActions \/ PassFile \/ PlanFile \/ RefuseFile \/ EndPlan
    <2>1. pc' \notin {"group", "read", "chunk", "segment", "place", "finalize"}
      BY <1>4 DEF RejectArchive, AcceptArchive, FileActions, SkipFile, StartFile, AddPart, RejectPart, SizeFile,
           AddRef, EndFile, EndFiles, SortActions, SortGroup, EndSort, PassFile, PlanFile, RefuseFile, EndPlan
    <2> QED BY <2>1 DEF FailuresDecided, Decoding
  <1> QED BY <1>1, <1>2, <1>3, <1>4
          DEF Next, Returned, Step, FileActions, SortActions, DecodeActions, ReportActions

-----------------------------------------------------------------------------
LEMMA InitDInv == Begun => DInv
  <1> SUFFICES ASSUME Begun PROVE DInv
    OBVIOUS
  <1>1. pc = "start"
    BY DEF Begun, Called
  <1>2. OutputDecided /\ DecodingFits /\ FailuresDecided
    BY <1>1 DEF OutputDecided, DecodingFits, FailuresDecided, Decoding
  <1> QED BY <1>2, InitRInv, InitPlanDecided DEF DInv

LEMMA NextDInv == DInv /\ [Next]_vars => DInv'
  BY NextRInv, NextPlanDecided, NextOutputDecided, NextDecodingFits, NextFailuresDecided DEF DInv, RInv

-----------------------------------------------------------------------------
(* The reports: one result or one failure for every file with a payload,   *)
(* in file order.                                                          *)

\* What finalize makes of a file.
OutcomeOf(i, f) ==
  IF f.failed THEN f.err
  ELSE IF ~archive.files[i].hasChecksum THEN "none"
  ELSE IF Len(f.data) # f.totalSize THEN "Corrupt"
  ELSE IF f.data # archive.files[i].checksum THEN "ChecksumMismatch"
  ELSE "none"
ResultOf(i, f, verify) ==
  IF ~f.skip /\ OutcomeOf(i, f) = "none"
  THEN <<[file |-> i, data |-> IF verify THEN <<>> ELSE f.data]>> ELSE <<>>
FailureOf(i, f) ==
  IF ~f.skip /\ OutcomeOf(i, f) # "none" THEN <<[file |-> i, err |-> OutcomeOf(i, f)]>> ELSE <<>>
ResultsOf(fs, verify) == [i \in 1..Len(fs) |-> ResultOf(i, fs[i], verify)]
FailuresOf(fs) == [i \in 1..Len(fs) |-> FailureOf(i, fs[i])]

Result == [file: Nat \ {0}, data: Seq(Byte)]
Failure == [file: Nat \ {0}, err: Errors]

AllReported ==
  /\ pc # "done" => archiveErr = "none"
  /\ pc \notin {"finalize", "done"} => results = <<>> /\ failures = <<>>
  /\ pc = "finalize" => /\ fi \in 1..Len(files) + 1
                        /\ results = Chained(ResultsOf(files, verifyOnly))[fi - 1]
                        /\ failures = Chained(FailuresOf(files))[fi - 1]

LEMMA OutcomeIsVerdict == \A i : Verdict(i) = OutcomeOf(i, files[i])
  BY DEF Verdict, FinalError, OutcomeOf

LEMMA OutcomeType ==
  ASSUME NEW i, NEW f \in FileAssembly
  PROVE  OutcomeOf(i, f) # "none" => OutcomeOf(i, f) \in Errors
  BY DEF OutcomeOf, FileAssembly, Errors

LEMMA ReportTypes ==
  ASSUME NEW fs \in Seq(FileAssembly), NEW verify
  PROVE  /\ Len(fs) \in Nat
         /\ ResultsOf(fs, verify) \in Seq(Seq(Result)) /\ Len(ResultsOf(fs, verify)) = Len(fs)
         /\ FailuresOf(fs) \in Seq(Seq(Failure)) /\ Len(FailuresOf(fs)) = Len(fs)
         /\ \A i \in 1..Len(fs) : /\ fs[i] \in FileAssembly
                                  /\ ResultsOf(fs, verify)[i] = ResultOf(i, fs[i], verify)
                                  /\ FailuresOf(fs)[i] = FailureOf(i, fs[i])
  <1>1. Len(fs) \in Nat /\ \A i \in 1..Len(fs) : fs[i] \in FileAssembly
    OBVIOUS
  <1>2. ASSUME NEW i \in 1..Len(fs)
        PROVE  ResultOf(i, fs[i], verify) \in Seq(Result) /\ FailureOf(i, fs[i]) \in Seq(Failure)
    <2>1. fs[i].data \in Seq(Byte) /\ i \in Nat \ {0} /\ <<>> \in Seq(Byte)
      BY <1>1 DEF FileAssembly
    <2>2. [file |-> i, data |-> IF verify THEN <<>> ELSE fs[i].data] \in Result
      BY <2>1 DEF Result
    <2>3. OutcomeOf(i, fs[i]) # "none" => [file |-> i, err |-> OutcomeOf(i, fs[i])] \in Failure
      BY <1>1, <2>1, OutcomeType DEF Failure
    <2>4. \A S : \A e \in S : <<e>> \in Seq(S) /\ <<>> \in Seq(S)
      OBVIOUS
    <2>5. <<>> \in Seq(Result) /\ <<>> \in Seq(Failure)
      OBVIOUS
    <2>6. ResultOf(i, fs[i], verify) \in Seq(Result)
      BY <2>2, <2>4, <2>5 DEF ResultOf
    <2>7. FailureOf(i, fs[i]) \in Seq(Failure)
      BY <2>3, <2>4, <2>5 DEF FailureOf
    <2> QED BY <2>6, <2>7
  <1>3. ResultsOf(fs, verify) \in [1..Len(fs) -> Seq(Result)] /\ FailuresOf(fs) \in [1..Len(fs) -> Seq(Failure)]
    BY <1>2 DEF ResultsOf, FailuresOf
  <1>4. \A i \in 1..Len(fs) : /\ ResultsOf(fs, verify)[i] = ResultOf(i, fs[i], verify)
                              /\ FailuresOf(fs)[i] = FailureOf(i, fs[i])
    BY DEF ResultsOf, FailuresOf
  <1> DEFINE A == Seq(Result)
             B == Seq(Failure)
             n == Len(fs)
  <1>5. ResultsOf(fs, verify) \in [1..n -> A] /\ FailuresOf(fs) \in [1..n -> B] /\ n \in Nat
    BY <1>1, <1>3
  <1> HIDE DEF A, B, n
  <1>6. /\ ResultsOf(fs, verify) \in Seq(A) /\ Len(ResultsOf(fs, verify)) = n
        /\ FailuresOf(fs) \in Seq(B) /\ Len(FailuresOf(fs)) = n
    BY <1>5
  <1> QED BY <1>1, <1>4, <1>6 DEF A, B, n

\* A step of the last loop.
LEMMA ReportAdds ==
  ASSUME IInv, AllReported, pc = "finalize", fi \in 1..Len(files)
  PROVE  /\ ResultOf(fi, files[fi], verifyOnly) = <<>> => Chained(ResultsOf(files, verifyOnly))[fi] = results
         /\ FailureOf(fi, files[fi]) = <<>> => Chained(FailuresOf(files))[fi] = failures
         /\ \A e \in Result : ResultOf(fi, files[fi], verifyOnly) = <<e>> =>
              Chained(ResultsOf(files, verifyOnly))[fi] = Append(results, e)
         /\ \A e \in Failure : FailureOf(fi, files[fi]) = <<e>> =>
              Chained(FailuresOf(files))[fi] = Append(failures, e)
  <1> DEFINE R == ResultsOf(files, verifyOnly)
             F == FailuresOf(files)
  <1>1. /\ files \in Seq(FileAssembly) /\ Len(files) \in Nat
        /\ results \in Seq(Result) /\ failures \in Seq(Failure)
    BY DEF IInv, TypeOK, Result, Failure
  <1>2. /\ R \in Seq(Seq(Result)) /\ Len(R) = Len(files)
        /\ F \in Seq(Seq(Failure)) /\ Len(F) = Len(files)
        /\ R[fi] = ResultOf(fi, files[fi], verifyOnly) /\ F[fi] = FailureOf(fi, files[fi])
    BY <1>1, ReportTypes
  <1> HIDE DEF R, F
  <1>3. fi \in 1..Len(R) /\ fi \in 1..Len(F)
    BY <1>2
  <1>4. Chained(R)[fi] = Followed(Chained(R)[fi - 1], R[fi])
    BY <1>2, <1>3, ChainedEquation
  <1>5. Chained(F)[fi] = Followed(Chained(F)[fi - 1], F[fi])
    BY <1>2, <1>3, ChainedEquation
  <1>6. Chained(R)[fi - 1] = results /\ Chained(F)[fi - 1] = failures
    BY DEF AllReported, R, F
  <1>7. /\ Followed(results, <<>>) = results /\ Followed(failures, <<>>) = failures
        /\ \A e \in Result : Followed(results, <<e>>) = Append(results, e)
        /\ \A e \in Failure : Followed(failures, <<e>>) = Append(failures, e)
    BY <1>1, FollowedByNothing, FollowedByOne
  <1> QED BY <1>2, <1>4, <1>5, <1>6, <1>7 DEF R, F

LEMMA InitAllReported == Begun => AllReported
  BY DEF Begun, Called, AllReported

LEMMA NextAllReported == IInv /\ AllReported /\ [Next]_vars => AllReported'
  <1> SUFFICES ASSUME IInv, AllReported, [Next]_vars PROVE AllReported'
    OBVIOUS
  <1> USE DEF inputs, plan, decode, budget, outputs
  <1>1. CASE UNCHANGED vars
    <2>1. \A i, f : OutcomeOf(i, f)' = OutcomeOf(i, f)
      BY <1>1 DEF vars, OutcomeOf
    <2> QED BY <1>1, <2>1 DEF vars, AllReported, ResultsOf, FailuresOf, ResultOf, FailureOf
  <1>2. CASE RejectArchive \/ Return
    BY <1>2 DEF RejectArchive, Return, AllReported
  <1>3. CASE AcceptArchive \/ FileActions \/ SortActions \/ PlanActions
    BY <1>3 DEF AcceptArchive, AllReported, FileActions, SortActions, SkipFile, StartFile, AddPart, RejectPart,
                SizeFile, AddRef, EndFile, EndFiles, SortGroup, EndSort, PlanActions, PassFile, PlanFile,
                RefuseFile, EndPlan, ReserveOutput, RefuseOutput
  <1>4. CASE DecodeActions /\ ~EndGroups
    BY <1>4 DEF DecodeActions, SkipGroup, OpenChunk, FailOpen, ReadChunk, FailRead, ReserveChunk, FailGroup,
                SkipRef, DecodeSegment, FailSegment, PlaceSegment, ReleaseChunk, AllReported
  <1>5. CASE EndGroups
    <2>1. /\ pc = "group" /\ pc' = "finalize" /\ fi' = 1 /\ files' = files /\ verifyOnly' = verifyOnly
          /\ archive' = archive /\ results' = results /\ failures' = failures /\ archiveErr' = archiveErr
      BY <1>5 DEF EndGroups
    <2>2. files \in Seq(FileAssembly)
      BY DEF IInv, TypeOK
    <2>3. results = <<>> /\ failures = <<>> /\ archiveErr = "none"
      BY <2>1 DEF AllReported
    <2>4. Len(files) \in Nat /\ 1 \in 1..Len(files) + 1
      BY <2>2
    <2>5. \A fs \in Seq(FileAssembly) : \A v :
            Chained(ResultsOf(fs, v))[0] = <<>> /\ Chained(FailuresOf(fs))[0] = <<>>
      BY ReportTypes, ChainedEquation
    <2>6. \A i, f : OutcomeOf(i, f)' = OutcomeOf(i, f)
      BY <2>1 DEF OutcomeOf
    <2>7. ResultsOf(files, verifyOnly)' = ResultsOf(files, verifyOnly) /\ FailuresOf(files)' = FailuresOf(files)
      BY <2>1, <2>6 DEF ResultsOf, FailuresOf, ResultOf, FailureOf
    <2> QED BY <2>1, <2>2, <2>3, <2>4, <2>5, <2>7 DEF AllReported
  <1>6. CASE ReportSkipped \/ ReportFailure \/ ReportResult
    <2>1. /\ pc = "finalize" /\ pc' = "finalize" /\ fi' = fi + 1 /\ files' = files /\ verifyOnly' = verifyOnly
          /\ archive' = archive /\ archiveErr' = archiveErr /\ MoreFiles
      BY <1>6 DEF ReportSkipped, ReportFailure, ReportResult
    <2>2. files \in Seq(FileAssembly) /\ Len(files) \in Nat /\ fi \in Nat \ {0}
      BY DEF IInv, TypeOK
    <2>3. fi \in 1..Len(files) /\ fi + 1 \in 1..Len(files) + 1 /\ fi + 1 - 1 = fi
      BY <2>1, <2>2 DEF MoreFiles
    <2>4. \A i, f : OutcomeOf(i, f)' = OutcomeOf(i, f)
      BY <2>1 DEF OutcomeOf
    <2>5. ResultsOf(files, verifyOnly)' = ResultsOf(files, verifyOnly) /\ FailuresOf(files)' = FailuresOf(files)
      BY <2>1, <2>4 DEF ResultsOf, FailuresOf, ResultOf, FailureOf
    <2>6. files[fi] \in FileAssembly /\ Verdict(fi) = OutcomeOf(fi, files[fi])
      BY <2>2, <2>3, OutcomeIsVerdict
    <2>7. /\ results' = Chained(ResultsOf(files, verifyOnly))[fi]
          /\ failures' = Chained(FailuresOf(files))[fi]
      <3>1. CASE ReportSkipped
        <4>1. ResultOf(fi, files[fi], verifyOnly) = <<>> /\ FailureOf(fi, files[fi]) = <<>>
          BY <3>1 DEF ReportSkipped, ResultOf, FailureOf
        <4>2. results' = results /\ failures' = failures
          BY <3>1 DEF ReportSkipped
        <4> QED BY <2>1, <2>3, <4>1, <4>2, ReportAdds
      <3>2. CASE ReportFailure
        <4>1. PICK e : e = [file |-> fi, err |-> Verdict(fi)]
          OBVIOUS
        <4>2. ~files[fi].skip /\ Verdict(fi) # "none" /\ failures' = Append(failures, e) /\ results' = results
          BY <3>2, <4>1 DEF ReportFailure
        <4>3. e \in Failure
          BY <2>2, <2>6, <4>1, <4>2, OutcomeType DEF Failure
        <4>4. ResultOf(fi, files[fi], verifyOnly) = <<>> /\ FailureOf(fi, files[fi]) = <<e>>
          BY <2>6, <4>1, <4>2 DEF ResultOf, FailureOf
        <4> QED BY <2>1, <2>3, <4>2, <4>3, <4>4, ReportAdds
      <3>3. CASE ReportResult
        <4>1. PICK e : e = [file |-> fi, data |-> IF verifyOnly THEN <<>> ELSE files[fi].data]
          OBVIOUS
        <4>2. ~files[fi].skip /\ Verdict(fi) = "none" /\ results' = Append(results, e) /\ failures' = failures
          BY <3>3, <4>1 DEF ReportResult
        <4>3. e \in Result
          <5>1. files[fi].data \in Seq(Byte) /\ <<>> \in Seq(Byte)
            BY <2>6 DEF FileAssembly
          <5> QED BY <2>2, <4>1, <5>1 DEF Result
        <4>4. ResultOf(fi, files[fi], verifyOnly) = <<e>> /\ FailureOf(fi, files[fi]) = <<>>
          BY <2>6, <4>1, <4>2 DEF ResultOf, FailureOf
        <4> QED BY <2>1, <2>3, <4>2, <4>3, <4>4, ReportAdds
      <3> QED BY <1>6, <3>1, <3>2, <3>3
    <2> QED BY <2>1, <2>3, <2>5, <2>7 DEF AllReported
  <1> QED BY <1>1, <1>2, <1>3, <1>4, <1>5, <1>6
          DEF Next, Returned, Step, FileActions, SortActions, PlanActions, DecodeActions

-----------------------------------------------------------------------------
(* The groups are the same in every call: what buildGroups and the sort    *)
(* make of the refs of all parts.                                          *)

\* The refs of the sequence x enter gs one after the other.
Gathered(gs, x) ==
  LET more[k \in 0..Len(x)] == IF k = 0 THEN gs ELSE WithRef(more[k - 1], x[k].entry.chunk, x[k])
  IN  more
\* The sequences of X enter no groups, one after the other.
GatheredUpTo(X) ==
  LET upTo[n \in 0..Len(X)] == IF n = 0 THEN <<>> ELSE Gathered(upTo[n - 1], X[n])[Len(X[n])]
  IN  upTo

LEMMA GatheredEquation ==
  ASSUME NEW gs \in Seq(ChunkGroup), NEW x \in Seq(SegmentRef)
  PROVE  /\ Len(x) \in Nat
         /\ Gathered(gs, x)[0] = gs
         /\ \A k \in 1..Len(x) : Gathered(gs, x)[k] = WithRef(Gathered(gs, x)[k - 1], x[k].entry.chunk, x[k])
         /\ \A k \in 0..Len(x) : Gathered(gs, x)[k] \in Seq(ChunkGroup)
  <1> DEFINE n == Len(x)
             IsMore(f) == f = [k \in 0..n |-> IF k = 0 THEN gs ELSE WithRef(f[k - 1], x[k].entry.chunk, x[k])]
             Z == Seq(ChunkGroup)
             step == [p \in (1..n) \X Z |-> WithRef(p[2], x[p[1]].entry.chunk, x[p[1]])]
  <1>1. n \in Nat /\ gs \in Z
    OBVIOUS
  <1>2. \A k \in 1..n : \A s \in Z : WithRef(s, x[k].entry.chunk, x[k]) \in Z
    <2>1. ASSUME NEW k \in 1..n PROVE x[k] \in SegmentRef /\ x[k].entry.chunk \in Chunk
      <3>1. x[k] \in SegmentRef
        OBVIOUS
      <3> QED BY <3>1 DEF SegmentRef, DataEntry
    <2> QED BY <2>1, WithRefType
  <1> HIDE DEF Z, n
  <1>3. \A k \in 1..n : \A s \in Z : step[<<k, s>>] = WithRef(s, x[k].entry.chunk, x[k])
    OBVIOUS
  <1>4. \A k \in 1..n : \A s \in Z : step[<<k, s>>] \in Z
    BY <1>2, <1>3
  <1> HIDE DEF step
  <1>5. PICK f : IsRun(f, Z, gs, n, step)
    BY <1>1, <1>4, RecursionExists
  <1>6. IsMore(f)
    <2>1. ASSUME NEW k \in 0..n, k # 0 PROVE f[k] = WithRef(f[k - 1], x[k].entry.chunk, x[k])
      <3>1. k \in 1..n /\ k - 1 \in 0..n
        BY <1>1, <2>1
      <3>2. f[k - 1] \in Z
        BY <1>5, <3>1 DEF IsRun
      <3> QED BY <1>3, <1>5, <3>1, <3>2 DEF IsRun
    <2> QED BY <1>5, <2>1 DEF IsRun
  <1> DEFINE c == Gathered(gs, x)
  <1>7. IsMore(c)
    BY <1>6 DEF Gathered, n
  <1> HIDE DEF c
  <1>8. c[0] = gs /\ \A k \in 1..n : c[k] = WithRef(c[k - 1], x[k].entry.chunk, x[k])
    BY <1>1, <1>7
  <1> DEFINE T == {k \in Nat : k <= n => c[k] \in Z}
  <1>9. 0 \in T
    BY <1>1, <1>8
  <1>10. ASSUME NEW k \in Nat, k \in T PROVE k + 1 \in T
    <2> SUFFICES ASSUME k + 1 <= n PROVE c[k + 1] \in Z
      OBVIOUS
    <2>1. k + 1 \in 1..n /\ k + 1 - 1 = k /\ c[k] \in Z
      BY <1>1, <1>10
    <2> QED BY <1>2, <1>8, <2>1
  <1>11. \A k \in Nat : k \in T
    <2> HIDE DEF T
    <2> QED BY <1>9, <1>10, SetInduction
  <1> QED BY <1>1, <1>8, <1>11 DEF c, n, Z

LEMMA GatheredUpToEquation ==
  ASSUME NEW X \in Seq(Seq(SegmentRef))
  PROVE  /\ Len(X) \in Nat
         /\ GatheredUpTo(X)[0] = <<>>
         /\ \A n \in 1..Len(X) : GatheredUpTo(X)[n] = Gathered(GatheredUpTo(X)[n - 1], X[n])[Len(X[n])]
         /\ \A n \in 0..Len(X) : GatheredUpTo(X)[n] \in Seq(ChunkGroup)
  <1> DEFINE N == Len(X)
             IsUpTo(f) == f = [n \in 0..N |-> IF n = 0 THEN <<>> ELSE Gathered(f[n - 1], X[n])[Len(X[n])]]
             Z == Seq(ChunkGroup)
             step == [p \in (1..N) \X Z |-> Gathered(p[2], X[p[1]])[Len(X[p[1]])]]
             base == <<>>
  <1>1. N \in Nat /\ base \in Z
    OBVIOUS
  <1>2. \A n \in 1..N : \A s \in Z : Gathered(s, X[n])[Len(X[n])] \in Z
    <2>1. ASSUME NEW n \in 1..N, NEW s \in Z PROVE Gathered(s, X[n])[Len(X[n])] \in Z
      <3>1. X[n] \in Seq(SegmentRef)
        OBVIOUS
      <3>2. Len(X[n]) \in 0..Len(X[n])
        BY <3>1
      <3> QED BY <3>1, <3>2, GatheredEquation
    <2> QED BY <2>1
  <1> HIDE DEF Z, N, base
  <1>3. \A n \in 1..N : \A s \in Z : step[<<n, s>>] = Gathered(s, X[n])[Len(X[n])]
    OBVIOUS
  <1>4. \A n \in 1..N : \A s \in Z : step[<<n, s>>] \in Z
    BY <1>2, <1>3
  <1> HIDE DEF step
  <1>5. PICK f : IsRun(f, Z, base, N, step)
    BY <1>1, <1>4, RecursionExists
  <1>6. IsUpTo(f)
    <2>1. ASSUME NEW n \in 0..N, n # 0 PROVE f[n] = Gathered(f[n - 1], X[n])[Len(X[n])]
      <3>1. n \in 1..N /\ n - 1 \in 0..N
        BY <1>1, <2>1
      <3>2. f[n - 1] \in Z
        BY <1>5, <3>1 DEF IsRun
      <3> QED BY <1>3, <1>5, <3>1, <3>2 DEF IsRun
    <2> QED BY <1>5, <2>1 DEF IsRun, base
  <1> DEFINE c == GatheredUpTo(X)
  <1>7. IsUpTo(c)
    BY <1>6 DEF GatheredUpTo, N
  <1> HIDE DEF c
  <1>8. c[0] = base /\ \A n \in 1..N : c[n] = Gathered(c[n - 1], X[n])[Len(X[n])]
    BY <1>1, <1>7 DEF base
  <1> DEFINE T == {n \in Nat : n <= N => c[n] \in Z}
  <1>9. 0 \in T
    BY <1>1, <1>8
  <1>10. ASSUME NEW n \in Nat, n \in T PROVE n + 1 \in T
    <2> SUFFICES ASSUME n + 1 <= N PROVE c[n + 1] \in Z
      OBVIOUS
    <2>1. n + 1 \in 1..N /\ n + 1 - 1 = n /\ c[n] \in Z
      BY <1>1, <1>10
    <2> QED BY <1>2, <1>8, <2>1
  <1>11. \A n \in Nat : n \in T
    <2> HIDE DEF T
    <2> QED BY <1>9, <1>10, SetInduction
  <1> QED BY <1>1, <1>8, <1>11 DEF c, N, Z, base

\* There is one stable order.
LEMMA OneStableOrder ==
  ASSUME NEW refs \in Seq(SegmentRef), NEW p \in StableOrders(refs), NEW q \in StableOrders(refs)
  PROVE  p = q
  <1> DEFINE S == DOMAIN refs
             at(k) == refs[k].entry.offset
             Before(a, b) == at(a) < at(b) \/ (at(a) = at(b) /\ a < b)
  <1>1. S = 1..Len(refs) /\ Len(refs) \in Nat
    OBVIOUS
  <1>2. \A k \in S : at(k) \in Nat
    <2>1. ASSUME NEW k \in S PROVE at(k) \in Nat
      <3>1. refs[k] \in SegmentRef
        OBVIOUS
      <3>2. refs[k].entry \in DataEntry
        BY <3>1 DEF SegmentRef
      <3> QED BY <3>2, IntAssumption DEF DataEntry, Uint
    <2> QED BY <2>1
  <1>3. /\ p \in [S -> S] /\ \A j, k \in S : j < k => Before(p[j], p[k])
        /\ q \in [S -> S] /\ \A j, k \in S : j < k => Before(q[j], q[k])
    BY DEF StableOrders
  <1>4. /\ \A j, k \in S : p[j] = p[k] => j = k
        /\ \A k \in S : \E j \in S : p[j] = k
        /\ \A j, k \in S : q[j] = q[k] => j = k
        /\ \A k \in S : \E j \in S : q[j] = k
    BY StableOrderOnto
  <1>5. \A a, b \in S : ~(Before(a, b) /\ Before(b, a))
    <2> TAKE a, b \in S
    <2>1. at(a) \in Nat /\ at(b) \in Nat /\ a \in Nat /\ b \in Nat
      BY <1>1, <1>2
    <2> HIDE DEF at
    <2> QED BY <2>1
  <1> HIDE DEF S, Before
  <1> DEFINE T == {k \in S : p[k] # q[k]}
  <1>6. SUFFICES ASSUME T # {} PROVE FALSE
    BY <1>3
  <1>7. PICK m \in T : \A n \in T : m <= n
    <2>1. T \subseteq Nat
      BY <1>1
    <2> HIDE DEF T
    <2> QED BY <1>6, <2>1, LeastNatural
  <1>8. m \in S /\ p[m] # q[m] /\ \A k \in S : k < m => p[k] = q[k]
    BY <1>1, <1>7
  \* What one order has at m comes later in the other.
  <1>9. PICK j \in S : q[j] = p[m]
    BY <1>3, <1>4, <1>8
  <1>10. PICK k \in S : p[k] = q[m]
    BY <1>3, <1>4, <1>8
  <1>11. m < j
    <2>1. j # m
      BY <1>8, <1>9
    <2>2. ~(j < m)
      <3>1. j < m => p[j] = p[m]
        BY <1>8, <1>9
      <3>2. j < m => j = m
        BY <1>4, <1>8, <3>1
      <3> QED BY <2>1, <3>2
    <2> QED BY <1>1, <1>8, <2>1, <2>2
  <1>12. m < k
    <2>1. k # m
      BY <1>8, <1>10
    <2>2. ~(k < m)
      <3>1. k < m => q[k] = q[m]
        BY <1>8, <1>10
      <3>2. k < m => k = m
        BY <1>4, <1>8, <3>1
      <3> QED BY <2>1, <3>2
    <2> QED BY <1>1, <1>8, <2>1, <2>2
  <1>13. Before(q[m], q[j]) /\ Before(p[m], p[k])
    BY <1>3, <1>8, <1>11, <1>12
  <1>14. p[m] \in S /\ q[m] \in S
    BY <1>3, <1>8
  <1> QED BY <1>5, <1>9, <1>10, <1>13, <1>14

\* The refs of the parts of file i, and of all files.
RefsOf(i) ==
  IF External(i) \/ ~Located(i) THEN <<>>
  ELSE [k \in 1..Len(Parts(i)) |-> [file |-> i, entry |-> Entry(Parts(i)[k]), dest |-> PartEnds(i)[k - 1]]]
AllRefs == [i \in DOMAIN archive.files |-> RefsOf(i)]

\* The groups as they are entered, and as they are sorted.
GroupsEntered == GatheredUpTo(AllRefs)
Grouped == GroupsEntered[Len(archive.files)]
InOrder(refs) == LET order == CHOOSE order \in StableOrders(refs) : TRUE
                 IN  [k \in DOMAIN refs |-> refs[order[k]]]
SortedGroup(x) == [x EXCEPT !.refs = InOrder(x.refs)]
Groups == [g \in DOMAIN Grouped |-> SortedGroup(Grouped[g])]

\* Where the groups come from, at every point of a call.
GroupsKnown ==
  archiveErr = "none" =>
    /\ pc \in {"start", "file"} => fi <= Len(archive.files) + 1
    /\ pc \in {"start", "file", "total"} => groups = GroupsEntered[fi - 1]
    /\ pc = "refs" => groups = Gathered(GroupsEntered[fi - 1], RefsOf(fi))[li - 1]
    /\ pc = "sort" => /\ DOMAIN groups = DOMAIN Grouped
                      /\ \A g \in DOMAIN groups :
                           groups[g] = IF g < gi THEN SortedGroup(Grouped[g]) ELSE Grouped[g]
    /\ Planning \/ Decoding => groups = Groups

LEMMA RefsOfType ==
  ASSUME archive \in Archive, NEW i \in DOMAIN archive.files
  PROVE  /\ RefsOf(i) \in Seq(SegmentRef)
         /\ Len(RefsOf(i)) = IF External(i) \/ ~Located(i) THEN 0 ELSE Len(Parts(i))
  <1>1. CASE External(i) \/ ~Located(i)
    BY <1>1 DEF RefsOf
  <1>2. CASE ~External(i) /\ Located(i)
    <2> DEFINE n == Len(Parts(i))
    <2>1. n \in Nat /\ DOMAIN Parts(i) = 1..n /\ i \in Nat \ {0}
      BY PartEndsEquation DEF Archive
    <2>2. ASSUME NEW k \in 1..n
          PROVE  [file |-> i, entry |-> Entry(Parts(i)[k]), dest |-> PartEnds(i)[k - 1]] \in SegmentRef
      <3>1. k \in DOMAIN Parts(i)
        BY <2>1
      <3>2. /\ Entry(Parts(i)[k]) \in DataEntry /\ PartEnds(i)[k - 1] \in Nat
            /\ k - 1 \in 0..n /\ n \in (k - 1)..n
        BY <1>2, <2>1, <3>1, LocatedPart
      <3>3. \A m \in 1..n : IsEntry(Parts(i)[m])
        BY <1>2, <2>1 DEF Located, Parts
      <3>4. PartEnds(i)[k - 1] <= PartEnds(i)[n] /\ PartEnds(i)[n] \in Nat
        BY <3>2, <3>3, PartEndsMonotone
      <3>5. PartEnds(i)[n] <= MaxUint
        BY <1>2 DEF Located, Parts
      <3>6. PartEnds(i)[k - 1] \in Uint
        BY <3>2, <3>4, <3>5, IntAssumption DEF Uint
      <3> QED BY <2>1, <3>2, <3>6 DEF SegmentRef
    <2>3. RefsOf(i) = [k \in 1..n |-> [file |-> i, entry |-> Entry(Parts(i)[k]), dest |-> PartEnds(i)[k - 1]]]
      BY <1>2 DEF RefsOf
    <2>4. RefsOf(i) \in [1..n -> SegmentRef]
      BY <2>2, <2>3
    <2> HIDE DEF n
    <2>5. RefsOf(i) \in Seq(SegmentRef) /\ Len(RefsOf(i)) = n
      BY <2>1, <2>4
    <2> QED BY <1>2, <2>5 DEF n
  <1> QED BY <1>1, <1>2

LEMMA AllRefsType ==
  ASSUME archive \in Archive
  PROVE  /\ AllRefs \in Seq(Seq(SegmentRef)) /\ Len(AllRefs) = Len(archive.files)
         /\ Len(archive.files) \in Nat /\ DOMAIN archive.files = 1..Len(archive.files)
         /\ \A i \in DOMAIN archive.files : AllRefs[i] = RefsOf(i)
         /\ GroupsEntered[0] = <<>>
         /\ \A n \in 0..Len(archive.files) : GroupsEntered[n] \in Seq(ChunkGroup)
         /\ \A n \in 1..Len(archive.files) :
              GroupsEntered[n] = Gathered(GroupsEntered[n - 1], RefsOf(n))[Len(RefsOf(n))]
  <1> DEFINE n == Len(archive.files)
             Z == Seq(SegmentRef)
  <1>1. n \in Nat /\ DOMAIN archive.files = 1..n
    BY DEF Archive
  <1>2. \A i \in DOMAIN archive.files : AllRefs[i] = RefsOf(i) /\ RefsOf(i) \in Z
    BY RefsOfType DEF AllRefs
  <1>3. AllRefs \in [1..n -> Z]
    BY <1>1, <1>2 DEF AllRefs
  <1> HIDE DEF n, Z
  <1>4. AllRefs \in Seq(Z) /\ Len(AllRefs) = n
    BY <1>1, <1>3
  <1>5. AllRefs \in Seq(Seq(SegmentRef))
    BY <1>4 DEF Z
  <1>6. /\ GroupsEntered[0] = <<>>
        /\ \A m \in 0..n : GroupsEntered[m] \in Seq(ChunkGroup)
        /\ \A m \in 1..n : GroupsEntered[m] = Gathered(GroupsEntered[m - 1], AllRefs[m])[Len(AllRefs[m])]
    BY <1>4, <1>5, GatheredUpToEquation DEF GroupsEntered
  <1> QED BY <1>1, <1>2, <1>4, <1>5, <1>6 DEF n

\* The one stable order is the one that sorts.
LEMMA SortIsInOrder ==
  ASSUME NEW refs \in Seq(SegmentRef), NEW order \in StableOrders(refs)
  PROVE  [k \in DOMAIN refs |-> refs[order[k]]] = InOrder(refs)
  <1> DEFINE the == CHOOSE o \in StableOrders(refs) : TRUE
  <1>1. the \in StableOrders(refs)
    OBVIOUS
  <1> HIDE DEF the
  <1>2. the = order
    BY <1>1, OneStableOrder
  <1> QED BY <1>2 DEF InOrder, the

LEMMA GroupsFixed ==
  ASSUME archive' = archive
  PROVE  /\ \A i : RefsOf(i)' = RefsOf(i)
         /\ GroupsEntered' = GroupsEntered /\ Grouped' = Grouped /\ Groups' = Groups
  <1>1. \A i : RefsOf(i)' = RefsOf(i)
    BY ArchiveFixed DEF RefsOf
  <1>2. AllRefs' = AllRefs
    BY <1>1 DEF AllRefs
  <1>3. GroupsEntered' = GroupsEntered
    BY <1>2 DEF GroupsEntered
  <1>4. Grouped' = Grouped
    BY <1>3 DEF Grouped
  <1>5. Groups' = Groups
    BY <1>4 DEF Groups
  <1> QED BY <1>1, <1>3, <1>4, <1>5

LEMMA InitGroupsKnown == Begun => GroupsKnown
  <1> SUFFICES ASSUME Begun PROVE GroupsKnown
    OBVIOUS
  <1>1. /\ archive \in Archive /\ pc = "start" /\ fi = 1 /\ groups = <<>>
    BY DEF Begun, Called
  <1>2. GroupsEntered[0] = <<>>
    BY <1>1, AllRefsType
  <1>3. fi <= Len(archive.files) + 1
    BY <1>1 DEF Archive
  <1> QED BY <1>1, <1>2, <1>3 DEF GroupsKnown, Planning, Decoding

LEMMA NextGroupsKnown == Laid /\ GroupsKnown /\ [Next]_vars => GroupsKnown'
  <1> SUFFICES ASSUME Laid, GroupsKnown, [Next]_vars PROVE GroupsKnown'
    OBVIOUS
  <1> USE DEF inputs, plan, decode, budget, outputs
  <1>a. archive' = archive
    <2>1. CASE UNCHANGED vars \/ StartActions \/ SortActions \/ FileActions
      BY <2>1 DEF vars, StartActions, RejectArchive, AcceptArchive, FileActions, SkipFile, StartFile, AddPart,
        RejectPart, SizeFile, AddRef, EndFile, EndFiles, SortActions, SortGroup, EndSort
    <2>2. CASE PlanActions \/ DecodeActions \/ ReportActions
      BY <2>2, PlanFrame, DecodeFrame DEF PlanActions, ReportActions, Laid, ReportSkipped, ReportFailure, ReportResult, Return,
         DecodeActions, SkipGroup, OpenChunk, FailOpen, ReadChunk, FailRead, ReserveChunk, FailGroup, SkipRef,
         DecodeSegment, FailSegment, PlaceSegment, ReleaseChunk, EndGroups, PassFile, PlanFile, RefuseFile, EndPlan,
         ReserveOutput, RefuseOutput
    <2> QED BY <2>1, <2>2 DEF Next, Returned, Step, FileActions, SortActions, PlanActions, DecodeActions,
        ReportActions, StartActions
  <1>b. /\ \A i : RefsOf(i)' = RefsOf(i)
        /\ GroupsEntered' = GroupsEntered /\ Grouped' = Grouped /\ Groups' = Groups
    BY <1>a, GroupsFixed
  <1>c. /\ archive \in Archive /\ files \in Seq(FileAssembly) /\ groups \in Seq(ChunkGroup)
        /\ fi \in Nat \ {0} /\ li \in Nat \ {0} /\ gi \in Nat \ {0}
        /\ Len(files) \in Nat /\ Len(files) = Len(archive.files) /\ DOMAIN files = 1..Len(files)
    <2>1. Len(files) = Len(archive.files)
      BY DEF Laid, IInv, InRange
    <2> QED BY <2>1 DEF Laid, IInv, TypeOK
  <1>1. CASE UNCHANGED vars
    BY <1>1, <1>b DEF vars, GroupsKnown, Planning, Decoding
  <1>2. CASE StartActions
    BY <1>2, <1>a, <1>b DEF StartActions, RejectArchive, AcceptArchive, GroupsKnown, Planning, Decoding
  <1>3. CASE SkipFile \/ RejectPart
    <2>1. /\ pc \in {"file", "total"} /\ pc' = "file" /\ groups' = groups /\ fi' = fi + 1 /\ archiveErr' = archiveErr
      BY <1>3 DEF SkipFile, RejectPart
    <2>2. External(fi) \/ ~Located(fi)
      <3>1. CASE SkipFile
        BY <3>1 DEF SkipFile, External, file
      <3>2. CASE RejectPart
        BY <3>2, BadPart DEF RejectPart, Laid
      <3> QED BY <1>3, <3>1, <3>2
    <2>3. fi \in 1..Len(archive.files) /\ fi + 1 - 1 = fi
      <3>1. fi <= Len(files)
        BY <1>3 DEF SkipFile, RejectPart, MoreFiles, Laid, IInv, InRange
      <3> QED BY <1>c, <3>1
    <2>4. RefsOf(fi) = <<>> /\ Len(RefsOf(fi)) = 0 /\ <<>> \in Seq(SegmentRef)
      BY <2>2 DEF RefsOf
    <2>5. fi - 1 \in 0..Len(archive.files)
      BY <1>c, <2>3
    <2>6. GroupsEntered[fi] = GroupsEntered[fi - 1]
      <3>1. GroupsEntered[fi] = Gathered(GroupsEntered[fi - 1], RefsOf(fi))[Len(RefsOf(fi))]
        BY <1>c, <2>3, AllRefsType
      <3>2. GroupsEntered[fi - 1] \in Seq(ChunkGroup)
        BY <1>c, <2>5, AllRefsType
      <3>3. RefsOf(fi) \in Seq(SegmentRef)
        BY <2>4
      <3>4. Gathered(GroupsEntered[fi - 1], RefsOf(fi))[0] = GroupsEntered[fi - 1]
        BY <3>2, <3>3, GatheredEquation
      <3> QED BY <2>4, <3>1, <3>4
    <2>7. fi + 1 <= Len(archive.files) + 1
      BY <1>c, <2>3
    <2> QED BY <1>a, <1>b, <2>1, <2>3, <2>6, <2>7 DEF GroupsKnown, Planning, Decoding
  <1>4. CASE StartFile \/ AddPart
    BY <1>4, <1>b DEF StartFile, AddPart, GroupsKnown, Planning, Decoding
  <1>5. CASE SizeFile
    <2>1. pc = "total" /\ ~MoreParts /\ pc' = "refs" /\ li' = 1 /\ groups' = groups /\ fi' = fi /\ archiveErr' = archiveErr
      BY <1>5 DEF SizeFile
    <2>2. fi \in DOMAIN archive.files
      BY <2>1, PartLoop DEF Laid
    <2>3. fi - 1 \in 0..Len(archive.files)
      BY <1>c, <2>2
    <2>4. GroupsEntered[fi - 1] \in Seq(ChunkGroup) /\ RefsOf(fi) \in Seq(SegmentRef)
      BY <1>c, <2>2, <2>3, AllRefsType, RefsOfType
    <2>5. Gathered(GroupsEntered[fi - 1], RefsOf(fi))[0] = GroupsEntered[fi - 1]
      BY <2>4, GatheredEquation
    <2> QED BY <1>b, <2>1, <2>5 DEF GroupsKnown, Planning, Decoding
  <1>6. CASE AddRef \/ EndFile
    <2>1. pc = "refs" /\ groups' = IF MoreParts THEN WithRef(groups, Part.chunk, [file |-> fi, entry |-> Part, dest |-> dest])
                                   ELSE groups
      BY <1>6 DEF AddRef, EndFile
    <2>2. /\ ~External(fi) /\ Located(fi) /\ dest = PartEnds(fi)[li - 1] /\ archiveErr' = archiveErr
          /\ archiveErr = "none"
      <3>1. archiveErr' = archiveErr
        BY <1>6 DEF AddRef, EndFile
      <3> QED BY <2>1, <3>1 DEF Laid, FilesBuilt
    <2>3. /\ fi \in DOMAIN archive.files /\ li \in 1..(Len(Parts(fi)) + 1) /\ Len(Parts(fi)) \in Nat
          /\ Locations(file) = Parts(fi)
      BY <2>1, PartLoop DEF Laid
    <2>4. fi - 1 \in 0..Len(archive.files) /\ fi \in 1..Len(archive.files) /\ fi + 1 - 1 = fi
      BY <1>c, <2>3
    <2>5. /\ GroupsEntered[fi - 1] \in Seq(ChunkGroup) /\ RefsOf(fi) \in Seq(SegmentRef)
          /\ Len(RefsOf(fi)) = Len(Parts(fi))
      BY <1>c, <2>2, <2>3, <2>4, AllRefsType, RefsOfType
    <2>6. groups = Gathered(GroupsEntered[fi - 1], RefsOf(fi))[li - 1]
      BY <2>1, <2>2 DEF GroupsKnown
    <2>7. CASE MoreParts
      <3>1. AddRef
        BY <1>6, <2>7 DEF EndFile
      <3>2. /\ Part.uncompressedSize <= MaxUint - dest /\ Part = Entry(Parts(fi)[li])
            /\ li \in 1..Len(Parts(fi))
        BY <2>1, <2>7, PartFits DEF Laid
      <3>3. pc' = "refs" /\ fi' = fi /\ li' = li + 1 /\ li + 1 - 1 = li
        BY <2>1, <2>3, <3>1, <3>2 DEF AddRef
      <3>4. PICK r : r = [file |-> fi, entry |-> Part, dest |-> dest]
        OBVIOUS
      <3>5. RefsOf(fi)[li] = r /\ r.entry.chunk = Part.chunk
        BY <2>2, <3>2, <3>4 DEF RefsOf
      <3>6. groups' = WithRef(groups, r.entry.chunk, r)
        BY <2>1, <2>7, <3>4, <3>5
      <3>7. Gathered(GroupsEntered[fi - 1], RefsOf(fi))[li] = groups'
        BY <2>5, <2>6, <3>2, <3>5, <3>6, GatheredEquation
      <3>8. GroupsEntered'[fi' - 1] = GroupsEntered[fi - 1] /\ RefsOf(fi)' = RefsOf(fi)
        <4>1. PICK i : i = fi
          OBVIOUS
        <4>2. RefsOf(fi)' = RefsOf(i)'
          BY <3>3, <4>1
        <4> QED BY <1>b, <3>3, <4>1, <4>2
      <3>9. li' - 1 = li
        BY <1>c, <3>3
      <3>10. groups' = Gathered(GroupsEntered'[fi' - 1], RefsOf(fi)')[li' - 1]
        BY <3>7, <3>8, <3>9
      <3> QED BY <3>3, <3>10 DEF GroupsKnown, Planning, Decoding
    <2>8. CASE ~MoreParts
      <3>1. EndFile
        BY <1>6, <2>8 DEF AddRef
      <3>2. pc' = "file" /\ fi' = fi + 1
        BY <3>1 DEF EndFile
      <3>3. li - 1 = Len(RefsOf(fi))
        BY <2>3, <2>5, <2>8 DEF MoreParts
      <3>4. GroupsEntered[fi] = groups
        BY <1>c, <2>4, <2>6, <3>3, AllRefsType
      <3>5. fi + 1 <= Len(archive.files) + 1
        BY <1>c, <2>4
      <3> QED BY <1>a, <1>b, <2>1, <2>4, <2>8, <3>2, <3>4, <3>5 DEF GroupsKnown, Planning, Decoding
    <2> QED BY <2>7, <2>8
  <1>7. CASE EndFiles
    <2>1. /\ pc = "file" /\ ~MoreFiles /\ gi' = 1 /\ pc' = "sort" /\ groups' = groups /\ archiveErr' = archiveErr
      BY <1>7 DEF EndFiles
    <2>2. fi - 1 = Len(archive.files)
      <3>1. archiveErr = "none"
        BY <2>1 DEF Laid, FilesBuilt
      <3>2. fi <= Len(archive.files) + 1
        BY <2>1, <3>1 DEF GroupsKnown
      <3> QED BY <1>c, <2>1, <3>2 DEF MoreFiles
    <2>3. archiveErr = "none" => groups = Grouped
      BY <2>1, <2>2 DEF GroupsKnown, Grouped
    <2>4. \A g \in DOMAIN groups : ~(g < 1)
      BY <1>c
    <2> QED BY <1>b, <2>1, <2>3, <2>4 DEF GroupsKnown, Planning, Decoding
  <1>8. CASE SortGroup
    <2>1. /\ pc = "sort" /\ pc' = "sort" /\ gi <= Len(groups) /\ gi' = gi + 1 /\ archiveErr' = archiveErr
      BY <1>8 DEF SortGroup
    <2>2. PICK order \in StableOrders(group.refs) :
            groups' = [groups EXCEPT ![gi] = [groups[gi] EXCEPT !.refs = [k \in DOMAIN group.refs |-> group.refs[order[k]]]]]
      BY <1>8 DEF SortGroup
    <2>3. gi \in DOMAIN groups /\ group = groups[gi] /\ groups[gi] \in ChunkGroup
      BY <1>c, <2>1 DEF group
    <2>4. group.refs \in Seq(SegmentRef)
      BY <2>3 DEF ChunkGroup
    <2>5. [k \in DOMAIN group.refs |-> group.refs[order[k]]] = InOrder(group.refs)
      BY <2>4, SortIsInOrder
    <2>6. groups' = [groups EXCEPT ![gi] = SortedGroup(groups[gi])]
      BY <2>2, <2>3, <2>5 DEF SortedGroup
    <2>7. ASSUME archiveErr = "none", NEW g \in DOMAIN groups
          PROVE  groups'[g] = IF g < gi + 1 THEN SortedGroup(Grouped[g]) ELSE Grouped[g]
      <3>1. groups[g] = IF g < gi THEN SortedGroup(Grouped[g]) ELSE Grouped[g]
        BY <2>1, <2>7 DEF GroupsKnown
      <3>2. g \in Nat /\ gi \in Nat
        BY <1>c
      <3>3. CASE g = gi
        BY <2>3, <2>6, <3>1, <3>2, <3>3
      <3>4. CASE g # gi
        <4>1. groups'[g] = groups[g] /\ (g < gi + 1 <=> g < gi)
          BY <2>6, <3>2, <3>4
        <4> QED BY <3>1, <4>1
      <3> QED BY <3>3, <3>4
    <2>8. DOMAIN groups' = DOMAIN groups
      BY <2>6
    <2> QED BY <1>b, <2>1, <2>7, <2>8 DEF GroupsKnown, Planning, Decoding
  <1>9. CASE EndSort
    <2>1. pc = "sort" /\ pc' = "plan" /\ gi > Len(groups) /\ groups' = groups /\ archiveErr' = archiveErr
      BY <1>9 DEF EndSort
    <2>2. ASSUME archiveErr = "none" PROVE groups = Groups
      <3>1. \A g \in DOMAIN groups : g < gi
        BY <1>c, <2>1
      <3>2. DOMAIN groups = DOMAIN Grouped /\ \A g \in DOMAIN groups : groups[g] = SortedGroup(Grouped[g])
        BY <2>1, <2>2, <3>1 DEF GroupsKnown
      <3>3. groups = [g \in DOMAIN groups |-> groups[g]]
        BY <1>c
      <3> QED BY <3>2, <3>3 DEF Groups
    <2> QED BY <1>b, <2>1, <2>2 DEF GroupsKnown, Planning, Decoding
  <1>10. CASE PlanActions \/ DecodeActions \/ ReportActions
    <2>1. /\ groups' = groups /\ archiveErr' = archiveErr /\ (Planning \/ Decoding)
          /\ pc' \notin {"start", "file", "total", "refs", "sort"}
      <3>1. CASE PlanActions
        BY <3>1 DEF PlanActions, PassFile, PlanFile, RefuseFile, EndPlan, ReserveOutput, RefuseOutput, Planning
      <3>2. CASE DecodeActions
        BY <3>2 DEF DecodeActions, SkipGroup, OpenChunk, FailOpen, ReadChunk, FailRead, ReserveChunk, FailGroup, SkipRef,
          DecodeSegment, FailSegment, PlaceSegment, ReleaseChunk, EndGroups, Decoding
      <3>3. CASE ReportActions
        BY <3>3 DEF ReportActions, ReportSkipped, ReportFailure, ReportResult, Return, Decoding
      <3> QED BY <1>10, <3>1, <3>2, <3>3
    <2> QED BY <1>b, <2>1 DEF GroupsKnown
  <1> QED BY <1>1, <1>2, <1>3, <1>4, <1>5, <1>6, <1>7, <1>8, <1>9, <1>10
          DEF Next, Returned, Step, StartActions, SortActions, PlanActions, DecodeActions, ReportActions

-----------------------------------------------------------------------------
(* What the decoding makes of each segment: its error, and its bytes where *)
(* it has none.                                                            *)

\* The error of a segment, in the order in which the steps of the decoding
\* look for one; room is what the output has left of the limit.
ChunkErrorIn(room, c) ==
  IF c.source = "noProvider" THEN "MissingSlice"
  ELSE IF c.source # "chunk" THEN "Corrupt"
  ELSE IF c.encrypted THEN "PasswordRequired"
  ELSE IF c.codec = "unknown" THEN "UnsupportedCompression"
  ELSE IF c.codec = "badHeader" THEN "Corrupt"
  ELSE IF c.dict > room \/ c.length > room THEN "LimitExceeded"
  ELSE IF c.broken THEN "Corrupt"
  ELSE "none"
PartErrorIn(room, e) ==
  IF e.offset + e.size > e.chunk.length THEN "Corrupt"
  ELSE IF e.filter # "none" /\ Len(PartBytes(e)) > room - e.chunk.length THEN "LimitExceeded"
  ELSE IF e.filter = "zlib" /\ ~e.inflates THEN "Corrupt"
  ELSE IF ~e.intact THEN "ChecksumMismatch"
  ELSE "none"
RefErrorIn(room, assembled, size, x) ==
  IF ChunkErrorIn(room, x.entry.chunk) # "none" THEN ChunkErrorIn(room, x.entry.chunk)
  ELSE IF PartErrorIn(room, x.entry) # "none" THEN PartErrorIn(room, x.entry)
  ELSE IF x.entry.uncompressedSize # 0 /\ Len(PartBytes(x.entry)) # x.entry.uncompressedSize THEN "Corrupt"
  ELSE IF assembled /\ x.dest + Len(PartBytes(x.entry)) > size THEN "Corrupt"
  ELSE "none"
RefError(x) == RefErrorIn(Room, files[x.file].assemble, files[x.file].totalSize, x)
SlotError(r) == RefError(groups[r[1]].refs[r[2]])

\* A segment has no error exactly when it fits.
LEMMA ErrorUnlessFits ==
  ASSUME Laid, Decoding, NEW i \in DOMAIN files, NEW r \in Slots(groups, i)
  PROVE  SlotError(r) = "none" <=> SlotFits(r)
  <1> DEFINE x == groups[r[1]].refs[r[2]]
             e == x.entry
             n == Len(PartBytes(e))
             f == files[i]
  <1>1. x.file = i /\ x.dest \in Nat /\ e \in DataEntry /\ e.chunk \in Chunk
    <2>1. x.file = i /\ r[1] \in DOMAIN groups /\ r[2] \in DOMAIN groups[r[1]].refs
      BY SlotPart
    <2>2. groups \in Seq(ChunkGroup)
      BY DEF Laid, IInv, TypeOK
    <2>3. groups[r[1]] \in ChunkGroup
      BY <2>1, <2>2
    <2>4. groups[r[1]].refs \in Seq(SegmentRef)
      BY <2>3 DEF ChunkGroup
    <2>5. x \in SegmentRef
      BY <2>1, <2>4
    <2>6. x.dest \in Nat /\ e \in DataEntry
      BY <2>5, IntAssumption DEF SegmentRef, Uint
    <2> QED BY <2>1, <2>6 DEF DataEntry
  <1>2. n \in Nat
    BY <1>1, PartBytesLength
  <1>3. /\ e.offset \in Nat /\ e.size \in Nat /\ e.uncompressedSize \in Nat /\ e.chunk.length \in Nat
        /\ e.chunk.dict \in Nat /\ e.chunk.source \in Sources /\ e.chunk.codec \in Codecs
    <2> HIDE DEF e
    <2>1. /\ e.chunk.length \in Nat /\ e.chunk.dict \in Nat /\ e.chunk.source \in Sources
          /\ e.chunk.codec \in Codecs
      BY <1>1 DEF Chunk
    <2> QED BY <1>1, <2>1, IntAssumption DEF DataEntry, Uint
  <1>4. Room \in Int
    BY IntAssumption DEF Room, Laid, IInv, TypeOK, Uint
  <1>5. f.totalSize \in Nat
    <2>1. f \in FileAssembly
      BY DEF Laid, IInv, TypeOK
    <2> QED BY <2>1, IntAssumption DEF FileAssembly, Uint
  <1> HIDE DEF n, e, x, f
  <1>6. ChunkErrorIn(Room, e.chunk) = "none" <=> ChunkFits(e.chunk)
    BY <1>3, <1>4 DEF ChunkErrorIn, ChunkFits, Codecs
  <1>7. PartErrorIn(Room, e) = "none" <=> PartFitsIn(e)
    BY <1>2, <1>3, <1>4 DEF PartErrorIn, PartFitsIn, n
  <1>8. RefError(x) = "none" <=>
          /\ ChunkFits(e.chunk) /\ PartFitsIn(e)
          /\ e.uncompressedSize # 0 => n = e.uncompressedSize
          /\ f.assemble => ~(x.dest + n > f.totalSize)
    BY <1>1, <1>6, <1>7 DEF RefError, RefErrorIn, e, n, f
  <1>9. RefFits(x) <=>
          /\ ChunkFits(e.chunk) /\ PartFitsIn(e)
          /\ e.uncompressedSize # 0 => n = e.uncompressedSize
          /\ f.assemble => x.dest + n <= f.totalSize
    BY <1>1 DEF RefFits, e, n, f
  <1>10. x.dest + n <= f.totalSize <=> ~(x.dest + n > f.totalSize)
    BY <1>1, <1>2, <1>5
  <1> QED BY <1>8, <1>9, <1>10 DEF SlotError, SlotFits, x

\* What goes wrong with a chunk is its error.
LEMMA ChunkErrors ==
  ASSUME Laid, ChunkDecoded, DecodingFits, gi <= Len(groups)
  PROVE  LET c == group.chunk
         IN  /\ pc = "group" /\ OpenError(c) # "none" => ChunkErrorIn(Room, c) = OpenError(c)
             /\ pc = "read" /\ ReadError(c) # "none" => ChunkErrorIn(Room, c) = ReadError(c)
             /\ pc \in {"chunk", "segment", "place"} => ChunkErrorIn(Room, c) = "none"
  <1> DEFINE c == group.chunk
  <1>1. c \in Chunk /\ c.source \in Sources /\ c.codec \in Codecs /\ c.dict \in Nat /\ c.length \in Nat
    BY GroupTypes DEF Laid, Chunk
  <1>2. available = limit - used /\ limit \in Nat /\ total \in Nat /\ limit <= MaxInt
    BY AvailableType, IntAssumption DEF Laid, IInv, TypeOK, Uint
  <1>3. pc \in {"group", "read"} => available = Room
    <2>1. pc \in {"group", "read"} => used = total
      BY DEF Laid, IInv, BudgetHolds
    <2> QED BY <1>2, <2>1 DEF Room
  <1>4. pc \in {"read", "chunk", "segment", "place"} =>
          c.source = "chunk" /\ ~c.encrypted /\ c.codec = "ok" /\ c.dict <= Room
    BY DEF ChunkDecoded, DecodingFits
  <1>5. pc \in {"chunk", "segment", "place"} => ChunkFits(c)
    BY ChunkSteps
  <1>6. Room \in Int
    BY <1>2 DEF Room
  <1> HIDE DEF c
  <1>7. pc = "group" /\ OpenError(c) # "none" => ChunkErrorIn(Room, c) = OpenError(c)
    BY <1>1, <1>3, <1>6 DEF OpenError, ChunkErrorIn
  <1>8. pc = "read" /\ ReadError(c) # "none" => ChunkErrorIn(Room, c) = ReadError(c)
    BY <1>1, <1>3, <1>4, <1>6 DEF ReadError, ChunkErrorIn
  <1>9. pc \in {"chunk", "segment", "place"} => ChunkErrorIn(Room, c) = "none"
    BY <1>1, <1>5, <1>6 DEF ChunkFits, ChunkErrorIn
  <1> QED BY <1>7, <1>8, <1>9 DEF c

\* What goes wrong with a segment is its error, and a segment without one has
\* room for its bytes.
LEMMA SegmentErrors ==
  ASSUME Laid, ChunkDecoded, pc = "segment", ri <= Len(group.refs)
  PROVE  /\ PartErrorIn(Room, ref.entry) = SegmentError(ref.entry)
         /\ SegmentError(ref.entry) = "none" =>
              CanReserve(IF ref.entry.filter = "none" THEN 0
                         ELSE Len(Filtered(ref.entry, StoredBytes(ref.entry))))
  <1> DEFINE e == ref.entry
             n == Len(PartBytes(e))
             own == Len(Filtered(e, StoredBytes(e)))
  <1>1. /\ e \in DataEntry /\ e.chunk = group.chunk /\ Len(chunkData) = group.chunk.length
        /\ group.chunk.length \in Nat /\ e.filter \in Filters /\ e.size \in Nat /\ e.inflated \in Nat
        /\ e.offset \in Nat
        /\ InChunk(e) <=> e.offset + e.size <= group.chunk.length
        /\ InChunk(e) => Filtered(e, StoredBytes(e)) = PartBytes(e)
    BY DecodedSegment
  <1>2. n = (IF e.filter = "zlib" THEN e.inflated ELSE e.size) /\ n \in Nat
    BY <1>1, PartBytesLength
  <1>3. /\ available = limit - used /\ limit \in Nat /\ total \in Nat /\ used = total + Len(chunkData)
        /\ available \in Nat
    BY AvailableType, IntAssumption DEF Laid, IInv, TypeOK, BudgetHolds, Uint
  <1>4. available = Room - e.chunk.length
    BY <1>1, <1>3 DEF Room
  <1>5. InChunk(e) => own = n
    BY <1>1
  <1>6. InChunk(e) <=> ~(e.offset + e.size > e.chunk.length)
    BY <1>1
  <1> HIDE DEF e, n, own
  <1>7. PartErrorIn(Room, e) =
          IF ~InChunk(e) THEN "Corrupt"
          ELSE IF e.filter # "none" /\ n > available THEN "LimitExceeded"
          ELSE IF e.filter = "zlib" /\ ~e.inflates THEN "Corrupt"
          ELSE IF ~e.intact THEN "ChecksumMismatch"
          ELSE "none"
    BY <1>4, <1>6 DEF PartErrorIn, n
  <1>8. SegmentError(e) =
          IF ~InChunk(e) THEN "Corrupt"
          ELSE IF e.filter # "none" /\ n > available THEN "LimitExceeded"
          ELSE IF e.filter = "zlib" /\ ~e.inflates THEN "Corrupt"
          ELSE IF ~e.intact THEN "ChecksumMismatch"
          ELSE "none"
    <2>1. CASE e.filter = "none"
      BY <2>1 DEF SegmentError
    <2>2. CASE e.filter = "instruction"
      <3>1. n = e.size
        BY <1>2, <2>2
      <3> QED BY <2>2, <3>1 DEF SegmentError
    <2>3. CASE e.filter = "zlib"
      <3>1. n = e.inflated
        BY <1>2, <2>3
      <3> QED BY <2>3, <3>1 DEF SegmentError
    <2> QED BY <1>1, <2>1, <2>2, <2>3 DEF Filters
  <1>9. SegmentError(e) = "none" => CanReserve(IF e.filter = "none" THEN 0 ELSE own)
    BY <1>2, <1>3, <1>5, <1>8 DEF CanReserve
  <1> QED BY <1>7, <1>8, <1>9 DEF e, own

\* What goes wrong where a segment is placed is its error.
LEMMA PlaceErrors ==
  ASSUME Laid, ChunkDecoded, DecodingFits, pc = "place"
  PROVE  RefError(ref) = PlaceError(ref)
  <1> DEFINE n == Len(PartBytes(ref.entry))
             f == files[ref.file]
             e == ref.entry
  <1>1. /\ Decoding /\ gi <= Len(groups) /\ ri <= Len(group.refs)
        /\ ref.file \in DOMAIN files /\ f \in FileAssembly /\ ref.dest \in Nat /\ e \in DataEntry
        /\ ref.entry.uncompressedSize \in Nat /\ segment = PartBytes(ref.entry) /\ Len(segment) \in Nat
    BY PlacedSegment
  <1>2. e.chunk = group.chunk
    BY <1>1, RefPart
  <1>3. ChunkErrorIn(Room, e.chunk) = "none" /\ PartFitsIn(e)
    BY <1>1, <1>2, ChunkErrors DEF DecodingFits
  <1>4. f.assemble => Len(f.data) = f.totalSize
    BY <1>1 DEF Laid, BuffersPlanned
  <1>5. f.totalSize \in Nat /\ Len(segment) = n /\ n \in Nat
    BY <1>1, IntAssumption DEF FileAssembly, Uint
  <1>6. PartErrorIn(Room, e) = "none"
    <2>1. e.offset \in Nat /\ e.size \in Nat /\ e.chunk.length \in Nat
      BY <1>1, IntAssumption DEF DataEntry, Chunk, Uint
    <2>2. Room \in Int
      BY IntAssumption DEF Room, Laid, IInv, TypeOK, Uint
    <2>3. n \in Nat
      BY <1>5
    <2> HIDE DEF n, e
    <2> QED BY <1>3, <2>1, <2>2, <2>3 DEF PartErrorIn, PartFitsIn, n, e
  <1>7. RefError(ref) = IF e.uncompressedSize # 0 /\ n # e.uncompressedSize THEN "Corrupt"
                        ELSE IF f.assemble /\ ref.dest + n > f.totalSize THEN "Corrupt" ELSE "none"
    BY <1>3, <1>6 DEF RefError, RefErrorIn
  <1>8. PlaceError(ref) = IF e.uncompressedSize # 0 /\ n # e.uncompressedSize THEN "Corrupt"
                          ELSE IF f.assemble /\ (ref.dest > Len(f.data) \/ n > Len(f.data) - ref.dest)
                               THEN "Corrupt" ELSE "none"
    BY <1>5 DEF PlaceError
  <1> HIDE DEF n, f, e
  <1>9. f.assemble => (ref.dest + n > f.totalSize <=>
                         ref.dest > Len(f.data) \/ n > Len(f.data) - ref.dest)
    <2>1. PICK a, b, s \in Nat : a = ref.dest /\ b = n /\ s = f.totalSize
      BY <1>1, <1>5
    <2>2. a + b > s <=> a > s \/ b > s - a
      OBVIOUS
    <2> QED BY <1>4, <2>1, <2>2
  <1> QED BY <1>7, <1>8, <1>9

-----------------------------------------------------------------------------
(* What a step of the decoding deals with.                                 *)

Before(q, r) == q[1] < r[1] \/ (q[1] = r[1] /\ q[2] < r[2])
Dealt(r) == Done(r)' /\ ~Done(r)

\* A segment without an error is copied into the buffer there is.
Filled(f, x) == IF f.assemble THEN [f EXCEPT !.data = Copied(f.data, x.dest, PartBytes(x.entry))] ELSE f

\* The step deals with no segment of file i that the file needs; or with some
\* that have an error, and this is the one the file fails with; or with one
\* that has none, and its bytes go into the buffer.
Deals ==
  \A i \in DOMAIN files :
    LET now == {r \in Slots(groups, i) : Dealt(r)}
    IN  \/ files'[i] = files[i] /\ (files[i].failed \/ now = {})
        \/ /\ ~files[i].failed /\ files'[i].failed /\ files'[i].err # "none"
           /\ now # {} /\ \A r \in now : SlotError(r) = files'[i].err
        \/ /\ ~files[i].failed
           /\ \E r \in now : /\ now = {r} /\ SlotError(r) = "none"
                            /\ files'[i] = Filled(files[i], groups[r[1]].refs[r[2]])

LEMMA NothingDealt ==
  ASSUME files' = files, \A i \in DOMAIN files : \A r \in Slots(groups, i) : Done(r)' <=> Done(r)
  PROVE  Deals
  BY DEF Deals, Dealt

LEMMA GroupDealt ==
  ASSUME Laid, pc \in {"group", "read"}, pc' = "group", gi <= Len(groups), gi' = gi + 1,
         NEW err,
         \A i \in DOMAIN files : i \notin Owners(group) \/ files[i].failed => files'[i] = files[i],
         \A i \in Owners(group) : ~files[i].failed =>
            /\ files'[i].failed /\ files'[i].err = err
            /\ err # "none" /\ ChunkErrorIn(Room, group.chunk) = err
  PROVE  Deals
  <1>1. Decoding /\ gi \in Nat
    BY DEF Decoding, Laid, IInv, TypeOK
  <1>2. ASSUME NEW i \in DOMAIN files, NEW r \in Slots(groups, i)
        PROVE  /\ Dealt(r) <=> r[1] = gi
               /\ groups[r[1]].refs[r[2]].file = i /\ r[2] \in DOMAIN groups[r[1]].refs
               /\ groups[r[1]].refs[r[2]].entry.chunk = groups[r[1]].chunk
    <2>1. /\ r[1] \in Nat /\ r[1] \in DOMAIN groups /\ r[2] \in DOMAIN groups[r[1]].refs
          /\ groups[r[1]].refs[r[2]].file = i
          /\ \E m \in DOMAIN Parts(i) : HoldsPart(groups, r, i, m)
      BY <1>1, SlotPart
    <2>2. Done(r) <=> r[1] < gi
      BY DEF Done
    <2>3. Done(r)' <=> r[1] < gi + 1
      BY DEF Done
    <2>4. Dealt(r) <=> r[1] = gi
      BY <1>1, <2>1, <2>2, <2>3 DEF Dealt
    <2> QED BY <2>1, <2>4 DEF HoldsPart
  <1>3. ASSUME NEW i \in DOMAIN files
        PROVE  LET now == {r \in Slots(groups, i) : Dealt(r)}
               IN  /\ i \in Owners(group) => now # {}
                   /\ i \notin Owners(group) => now = {}
                   /\ \A r \in now : groups[r[1]].refs[r[2]].entry.chunk = group.chunk
    <2>1. gi \in DOMAIN groups /\ group = groups[gi]
      BY GroupTypes DEF Laid, group
    <2>2. ASSUME NEW r \in Slots(groups, i), Dealt(r)
          PROVE  i \in Owners(group) /\ groups[r[1]].refs[r[2]].entry.chunk = group.chunk
      <3>1. r[1] = gi
        BY <1>2, <2>2
      <3> QED BY <1>2, <2>1, <3>1 DEF Owners
    <2>3. ASSUME i \in Owners(group) PROVE \E r \in Slots(groups, i) : Dealt(r)
      <3>1. PICK k \in DOMAIN group.refs : group.refs[k].file = i
        BY <2>3 DEF Owners
      <3>2. PICK r : r = <<gi, k>>
        OBVIOUS
      <3>3. r \in Slots(groups, i) /\ r[1] = gi
        BY <2>1, <3>1, <3>2, SlotsMember
      <3> QED BY <1>2, <3>3
    <2> QED BY <2>2, <2>3
  <1>4. ASSUME NEW i \in DOMAIN files, i \in Owners(group), ~files[i].failed,
               NEW r \in Slots(groups, i), Dealt(r)
        PROVE  SlotError(r) = files'[i].err
    <2>1. groups[r[1]].refs[r[2]].entry.chunk = group.chunk
      BY <1>3, <1>4
    <2>2. ChunkErrorIn(Room, group.chunk) = err /\ err # "none" /\ files'[i].err = err
      BY <1>4
    <2> QED BY <2>1, <2>2 DEF SlotError, RefError, RefErrorIn
  <1>5. ASSUME NEW i \in DOMAIN files
        PROVE  LET now == {r \in Slots(groups, i) : Dealt(r)}
               IN  \/ files'[i] = files[i] /\ (files[i].failed \/ now = {})
                   \/ /\ ~files[i].failed /\ files'[i].failed /\ files'[i].err # "none"
                      /\ now # {} /\ \A r \in now : SlotError(r) = files'[i].err
    BY <1>3, <1>4
  <1> QED BY <1>5 DEF Deals

LEMMA RefDealt ==
  ASSUME Laid, pc \in {"segment", "place"}, pc' = "segment",
         gi <= Len(groups), ri <= Len(group.refs), ri' = ri + 1, gi' = gi,
         \A i \in DOMAIN files : i # ref.file => files'[i] = files[i],
         \/ files[ref.file].failed /\ files'[ref.file] = files[ref.file]
         \/ /\ ~files[ref.file].failed /\ files'[ref.file].failed
            /\ files'[ref.file].err # "none" /\ files'[ref.file].err = RefError(ref)
         \/ /\ ~files[ref.file].failed /\ RefError(ref) = "none"
            /\ files'[ref.file] = Filled(files[ref.file], ref)
  PROVE  Deals
  <1>1. Decoding /\ gi \in Nat /\ ri \in Nat
    BY DEF Decoding, Laid, IInv, TypeOK
  <1>2. PICK j, x, at : j = ref.file /\ x = ref /\ at = <<gi, ri>>
    OBVIOUS
  <1>3. /\ j \in DOMAIN files /\ at \in Slots(groups, j) /\ groups[gi].refs[ri] = x
    BY <1>1, <1>2, RefPart
  <1>4. at[1] = gi /\ at[2] = ri
    BY <1>2
  <1>5. ASSUME NEW i \in DOMAIN files, NEW r \in Slots(groups, i)
        PROVE  Dealt(r) <=> i = j /\ r = at
    <2>1. /\ r[1] \in Nat /\ r[2] \in Nat /\ groups[r[1]].refs[r[2]].file = i /\ r = <<r[1], r[2]>>
      BY <1>1, SlotPart
    <2>2. Dealt(r) <=> r[1] = gi /\ r[2] = ri
      <3>1. r[2] < ri + 1 <=> r[2] < ri \/ r[2] = ri
        BY <1>1, <2>1
      <3>2. (r[1] < gi /\ r[1] = gi) <=> FALSE
        BY <1>1, <2>1
      <3>3. ~(r[2] < ri /\ r[2] = ri)
        BY <1>1, <2>1
      <3> QED BY <3>1, <3>2, <3>3 DEF Dealt, Done
    <2>3. r[1] = gi /\ r[2] = ri <=> r = at
      BY <1>2, <1>4, <2>1
    <2>4. r = at => i = j
      BY <1>2, <1>3, <1>4, <2>1
    <2> QED BY <2>2, <2>3, <2>4
  <1>6. SlotError(at) = RefError(x)
    BY <1>3, <1>4 DEF SlotError
  <1>7. ASSUME NEW i \in DOMAIN files, i # j
        PROVE  files'[i] = files[i] /\ {r \in Slots(groups, i) : Dealt(r)} = {}
    BY <1>2, <1>5, <1>7
  <1>8. {r \in Slots(groups, j) : Dealt(r)} = {at}
    BY <1>3, <1>5
  <1>9. \/ files[j].failed /\ files'[j] = files[j]
        \/ ~files[j].failed /\ files'[j].failed /\ files'[j].err # "none" /\ files'[j].err = RefError(x)
        \/ ~files[j].failed /\ RefError(x) = "none" /\ files'[j] = Filled(files[j], x)
    BY <1>2
  <1>10. groups[at[1]].refs[at[2]] = x
    BY <1>3, <1>4
  <1>11. ASSUME NEW i \in DOMAIN files
         PROVE  LET now == {r \in Slots(groups, i) : Dealt(r)}
                IN  \/ files'[i] = files[i] /\ (files[i].failed \/ now = {})
                    \/ /\ ~files[i].failed /\ files'[i].failed /\ files'[i].err # "none"
                       /\ now # {} /\ \A r \in now : SlotError(r) = files'[i].err
                    \/ /\ ~files[i].failed
                       /\ \E r \in now : /\ now = {r} /\ SlotError(r) = "none"
                                        /\ files'[i] = Filled(files[i], groups[r[1]].refs[r[2]])
    <2>1. CASE i # j
      BY <1>7, <2>1
    <2>2. CASE i = j
      BY <1>6, <1>8, <1>9, <1>10, <2>2
    <2> QED BY <2>1, <2>2
  <1> QED BY <1>11 DEF Deals

LEMMA DecodeDeals ==
  ASSUME Laid, ChunkDecoded, DecodingFits, DecodeActions
  PROVE  Deals
  <1> USE DEF inputs, plan, decode, budget, outputs
  <1>1. Decoding
    BY DecodeFrame DEF Laid
  <1>2. /\ gi \in Nat /\ ri \in Nat /\ groups \in Seq(ChunkGroup) /\ IInv
        /\ files \in Seq(FileAssembly) /\ {"Corrupt", "LimitExceeded"} \subseteq Errors
    BY DEF Laid, IInv, TypeOK, Errors
  <1>3. \A i \in DOMAIN files : \A r \in Slots(groups, i) :
          /\ r[1] \in Nat /\ r[2] \in Nat /\ r[2] >= 1 /\ r[1] \in DOMAIN groups
          /\ r[2] <= Len(groups[r[1]].refs)
    BY <1>1, SlotPart
  <1>4. ASSUME gi <= Len(groups), NEW err, FailGroup(err), err # "none", pc \in {"group", "read"},
               ChunkErrorIn(Room, group.chunk) = err
        PROVE  Deals
    <2>1. pc' = "group" /\ gi' = gi + 1 /\ files' = markFailure(files, Owners(group), err)
      BY <1>4 DEF FailGroup
    <2>2. ASSUME NEW i \in DOMAIN files
          PROVE  /\ i \notin Owners(group) \/ files[i].failed => files'[i] = files[i]
                 /\ i \in Owners(group) /\ ~files[i].failed => files'[i].failed /\ files'[i].err = err
      <3>1. files[i] \in FileAssembly
        BY <1>2
      <3>2. files'[i] = IF i \in Owners(group) /\ ~files[i].failed
                        THEN [files[i] EXCEPT !.failed = TRUE, !.err = err] ELSE files[i]
        BY <2>1 DEF markFailure
      <3> QED BY <3>1, <3>2 DEF FileAssembly
    <2>3. Owners(group) \subseteq DOMAIN files
      BY <1>1, <1>4, OwnerPart
    <2> QED BY <1>4, <2>1, <2>2, <2>3, GroupDealt
  <1>5. CASE SkipGroup
    <2>1. /\ pc = "group" /\ pc' = "group" /\ gi <= Len(groups) /\ gi' = gi + 1 /\ files' = files
          /\ ~groupNeeded
      BY <1>5 DEF SkipGroup
    <2>2. ASSUME NEW i \in Owners(group) PROVE files[i].failed
      <3>1. i \in DOMAIN files /\ ~External(i) /\ archiveErr = "none" /\ ~Building
        BY <1>1, <2>1, OwnerPart, DecodingBasics DEF Laid
      <3>2. ~files[i].skip
        BY <3>1, BuiltFile DEF Built, Laid
      <3> QED BY <2>1, <3>2 DEF groupNeeded
    <2> QED BY <2>1, <2>2, GroupDealt
  <1>6. CASE OpenChunk \/ ReadChunk \/ EndGroups
    <2>1. /\ pc \in {"group", "read"} /\ pc' \in {"read", "chunk", "finalize"} /\ gi' = gi
          /\ files' = files
      BY <1>6 DEF OpenChunk, ReadChunk, EndGroups
    <2>2. \A r : Done(r)' <=> Done(r)
      BY <2>1 DEF Done
    <2> QED BY <2>1, <2>2, NothingDealt
  <1>7. CASE FailOpen
    <2>1. /\ pc = "group" /\ gi <= Len(groups) /\ OpenError(group.chunk) # "none"
          /\ FailGroup(OpenError(group.chunk))
      BY <1>7 DEF FailOpen
    <2>2. ChunkErrorIn(Room, group.chunk) = OpenError(group.chunk)
      BY <2>1, ChunkErrors
    <2> QED BY <1>4, <2>1, <2>2
  <1>8. CASE FailRead
    <2>1. /\ pc = "read" /\ gi <= Len(groups) /\ ReadError(group.chunk) # "none"
          /\ FailGroup(ReadError(group.chunk))
      BY <1>8 DEF FailRead, Laid, IInv, InRange
    <2>2. ChunkErrorIn(Room, group.chunk) = ReadError(group.chunk)
      BY <2>1, ChunkErrors
    <2> QED BY <1>4, <2>1, <2>2
  <1>9. CASE ReserveChunk
    <2>1. pc = "chunk" /\ gi <= Len(groups)
      BY <1>9 DEF ReserveChunk, Laid, IInv, InRange
    <2>2. CanReserve(Len(chunkData))
      BY <2>1, ChunkSteps
    <2>3. pc' = "segment" /\ gi' = gi /\ ri' = 1 /\ files' = files
      BY <1>9, <2>2 DEF ReserveChunk
    <2>4. ASSUME NEW i \in DOMAIN files, NEW r \in Slots(groups, i) PROVE Done(r)' <=> Done(r)
      <3>1. r[2] \in Nat /\ r[2] >= 1
        BY <1>3
      <3>2. ~(r[2] < 1)
        BY <3>1
      <3> QED BY <2>1, <2>3, <3>2 DEF Done
    <2> QED BY <2>3, <2>4, NothingDealt
  <1>10. CASE ReleaseChunk
    <2>1. pc = "segment" /\ pc' = "group" /\ gi' = gi + 1 /\ files' = files /\ ri > Len(group.refs)
      BY <1>10 DEF ReleaseChunk
    <2>2. ASSUME NEW i \in DOMAIN files, NEW r \in Slots(groups, i) PROVE Done(r)' <=> Done(r)
      <3>1. r[1] \in Nat /\ r[2] \in Nat /\ r[1] \in DOMAIN groups /\ r[2] <= Len(groups[r[1]].refs)
        BY <1>3
      <3>2. r[1] = gi => r[2] < ri
        <4>1. SUFFICES ASSUME r[1] = gi PROVE r[2] < ri
          OBVIOUS
        <4>2. gi \in DOMAIN groups /\ groups[gi] \in ChunkGroup
          BY <1>2, <3>1, <4>1
        <4>3. group.refs = groups[gi].refs /\ groups[gi].refs \in Seq(SegmentRef)
          BY <4>2 DEF group, ChunkGroup
        <4>4. Len(groups[gi].refs) \in Nat
          BY <4>3
        <4> QED BY <1>2, <2>1, <3>1, <4>1, <4>3, <4>4
      <3>3. r[1] < gi + 1 <=> r[1] < gi \/ r[1] = gi
        BY <1>2, <3>1
      <3> QED BY <2>1, <3>2, <3>3 DEF Done
    <2> QED BY <2>1, <2>2, NothingDealt
  <1>11. CASE SkipRef
    <2>1. /\ pc = "segment" /\ pc' = "segment" /\ gi' = gi /\ ri' = ri + 1 /\ files' = files
          /\ gi <= Len(groups) /\ ri <= Len(group.refs) /\ files[ref.file].failed
      BY <1>11 DEF SkipRef, Laid, IInv, InRange
    <2> QED BY <2>1, RefDealt
  <1>12. ASSUME gi <= Len(groups), ri <= Len(group.refs), pc \in {"segment", "place"}, pc' = "segment",
                gi' = gi, ri' = ri + 1, NEW err, err # "none", RefError(ref) = err,
                ~files[ref.file].failed,
                files' = markFailure(files, {ref.file}, err)
         PROVE  Deals
    <2>1. ref.file \in DOMAIN files
      BY <1>1, <1>12, RefPart
    <2>2. files[ref.file] \in FileAssembly
      BY <1>2, <2>1
    <2>3. /\ files'[ref.file] = [files[ref.file] EXCEPT !.failed = TRUE, !.err = err]
          /\ \A i \in DOMAIN files : i # ref.file => files'[i] = files[i]
      BY <1>12, <2>1 DEF markFailure
    <2>4. files'[ref.file].failed /\ files'[ref.file].err = err
      BY <2>2, <2>3 DEF FileAssembly
    <2> QED BY <1>12, <2>3, <2>4, RefDealt
  <1>13. CASE FailSegment
    <2>1. /\ pc = "segment" /\ pc' = "segment" /\ gi' = gi /\ ri' = ri + 1
          /\ gi <= Len(groups) /\ ri <= Len(group.refs) /\ SegmentError(ref.entry) # "none"
          /\ ~files[ref.file].failed
          /\ files' = markFailure(files, {ref.file}, SegmentError(ref.entry))
      BY <1>13 DEF FailSegment, Laid, IInv, InRange
    <2>2. ref.entry.chunk = group.chunk
      BY <1>1, <2>1, RefPart
    <2>3. ChunkErrorIn(Room, group.chunk) = "none"
      BY <2>1, ChunkErrors
    <2>4. RefError(ref) = SegmentError(ref.entry)
      BY <2>1, <2>2, <2>3, SegmentErrors DEF RefError, RefErrorIn
    <2> QED BY <1>12, <2>1, <2>4
  <1>14. CASE DecodeSegment
    <2> DEFINE own == IF ref.entry.filter = "none" THEN 0
                      ELSE Len(Filtered(ref.entry, StoredBytes(ref.entry)))
    <2>1. /\ pc = "segment" /\ gi' = gi /\ gi <= Len(groups) /\ ri <= Len(group.refs)
          /\ SegmentError(ref.entry) = "none"
          /\ CanReserve(own) => pc' = "place" /\ files' = files /\ ri' = ri
      BY <1>14 DEF DecodeSegment, Laid, IInv, InRange
    <2>2. CanReserve(own)
      BY <2>1, SegmentErrors
    <2>3. \A r : Done(r)' <=> Done(r)
      BY <2>1, <2>2 DEF Done
    <2> QED BY <2>1, <2>2, <2>3, NothingDealt
  <1>15. CASE PlaceSegment
    <2>1. /\ pc = "place" /\ pc' = "segment" /\ gi' = gi /\ ri' = ri + 1
          /\ gi <= Len(groups) /\ ri <= Len(group.refs) /\ ref.file \in DOMAIN files
          /\ segment = PartBytes(ref.entry)
      BY <1>15, PlacedSegment DEF PlaceSegment
    <2>2. RefError(ref) = PlaceError(ref)
      BY <2>1, PlaceErrors
    <2>3. ~files[ref.file].failed
      BY <2>1 DEF ChunkDecoded
    <2>4. CASE PlaceError(ref) # "none"
      <3>1. files' = markFailure(files, {ref.file}, PlaceError(ref))
        BY <1>15, <2>4 DEF PlaceSegment
      <3> QED BY <1>12, <2>1, <2>2, <2>3, <2>4, <3>1
    <2>5. CASE PlaceError(ref) = "none"
      <3>1. /\ files'[ref.file] = Filled(files[ref.file], ref)
            /\ \A i \in DOMAIN files : i # ref.file => files'[i] = files[i]
        BY <1>15, <2>1, <2>5 DEF PlaceSegment, Filled
      <3> QED BY <2>1, <2>2, <2>3, <2>5, <3>1, RefDealt
    <2> QED BY <2>4, <2>5
  <1> QED BY <1>5, <1>6, <1>7, <1>8, <1>9, <1>10, <1>11, <1>13, <1>14, <1>15 DEF DecodeActions

\* What has been dealt with comes before what has not.
LEMMA DoneBefore ==
  ASSUME Laid, Decoding, NEW i \in DOMAIN files, NEW r \in Slots(groups, i), NEW q \in Slots(groups, i),
         Before(q, r), Done(r)
  PROVE  Done(q)
  <1>1. r[1] \in Nat /\ r[2] \in Nat /\ q[1] \in Nat /\ q[2] \in Nat
    BY SlotPart
  <1>2. gi \in Nat /\ ri \in Nat
    BY DEF Laid, IInv, TypeOK
  <1> QED BY <1>1, <1>2 DEF Before, Done

\* A step of the decoding changes no error, and takes nothing back.
LEMMA DecodeKeeps ==
  ASSUME Laid, DecodeActions
  PROVE  /\ Decoding /\ archive' = archive /\ verifyOnly' = verifyOnly /\ groups' = groups /\ limit' = limit
         /\ total' = total /\ SameFiles /\ Room' = Room
         /\ \A i : Slots(groups, i)' = Slots(groups, i)
         /\ \A i \in DOMAIN files : \A r \in Slots(groups, i) :
              /\ SlotError(r)' = SlotError(r)
              /\ Done(r) => Done(r)'
  <1> USE DEF inputs, plan, decode, budget, outputs
  <1>1. /\ Decoding /\ archive' = archive /\ verifyOnly' = verifyOnly /\ groups' = groups
        /\ total' = total /\ limit' = limit /\ SameFiles
    BY DecodeFrame DEF Laid
  <1>2. Room' = Room
    BY <1>1 DEF Room
  <1>3. \A i : Slots(groups, i)' = Slots(groups, i)
    BY <1>1 DEF Slots
  <1>4. ASSUME NEW i \in DOMAIN files, NEW r \in Slots(groups, i)
        PROVE  SlotError(r)' = SlotError(r)
    <2>1. groups[r[1]].refs[r[2]].file = i
      BY <1>1, SlotPart
    <2>2. files'[i].assemble = files[i].assemble /\ files'[i].totalSize = files[i].totalSize
      BY <1>1 DEF SameFiles, SameFile
    <2> QED BY <1>1, <1>2, <2>1, <2>2 DEF SlotError, RefError
  <1>5. /\ gi \in Nat /\ ri \in Nat /\ gi' \in {gi, gi + 1}
        /\ gi' = gi => \/ pc' \notin {"segment", "place"} /\ pc \notin {"segment", "place"}
                       \/ pc = "chunk"
                       \/ pc \in {"segment", "place"} /\ pc' \in {"segment", "place"} /\ ri' \in {ri, ri + 1}
    BY DEF DecodeActions, SkipGroup, OpenChunk, FailOpen, ReadChunk, FailRead, ReserveChunk, FailGroup,
           SkipRef, DecodeSegment, FailSegment, PlaceSegment, ReleaseChunk, EndGroups, Laid, IInv, TypeOK
  <1>6. ASSUME NEW i \in DOMAIN files, NEW r \in Slots(groups, i), Done(r)
        PROVE  Done(r)'
    <2>1. r[1] \in Nat /\ r[2] \in Nat
      BY <1>1, SlotPart
    <2> QED BY <1>5, <1>6, <2>1 DEF Done
  <1> QED BY <1>1, <1>2, <1>3, <1>4, <1>6

-----------------------------------------------------------------------------
(* The error of a failed file.                                             *)

\* err is the error of the first segment of file i that has one.
FirstError(i, err) ==
  \E r \in Slots(groups, i) :
    /\ Done(r) /\ SlotError(r) = err
    /\ \A q \in Slots(groups, i) : Before(q, r) => SlotError(q) \in {"none", err}

ErrorsKnown ==
  \A i \in DOMAIN files : files[i].failed /\ ~External(i) =>
    /\ ~Located(i) => files[i].err = "Corrupt"
    /\ Located(i) =>
         /\ (Planning \/ Decoding) /\ Assembles(i) /\ ~files[i].assemble => files[i].err = "LimitExceeded"
         /\ Decoding /\ (files[i].assemble \/ ~Assembles(i)) => FirstError(i, files[i].err)

LEMMA InitErrorsKnown == Begun => ErrorsKnown
  BY DEF Begun, Called, ErrorsKnown, FreshFile

LEMMA DecodeErrorsKnown ==
  ASSUME DInv, ErrorsKnown, DecodeActions
  PROVE  ErrorsKnown'
  <1>1. Laid /\ ChunkDecoded /\ DecodingFits /\ FailuresDecided
    BY DEF DInv, RInv
  <1>2. /\ Decoding /\ archive' = archive /\ verifyOnly' = verifyOnly /\ groups' = groups
        /\ SameFiles /\ \A i : Slots(groups, i)' = Slots(groups, i)
        /\ \A i \in DOMAIN files : \A r \in Slots(groups, i) :
             SlotError(r)' = SlotError(r) /\ (Done(r) => Done(r)')
    BY <1>1, DecodeKeeps
  <1>3. \A i : External(i)' = External(i) /\ Located(i)' = Located(i) /\ Assembles(i)' = Assembles(i)
    BY <1>2, ArchiveFixed, NeedsFixed
  <1>4. Deals
    BY <1>1, DecodeDeals
  <1>5. ~Planning /\ ~Planning'
    <2>1. Decoding' \/ pc' = "done"
      BY DecodeFrame DEF DInv, RInv, Laid
    <2> QED BY <1>2, <2>1 DEF Planning, Decoding
  <1>6. ASSUME NEW i \in DOMAIN files, files'[i].failed, files[i].failed
        PROVE  /\ files'[i].err = files[i].err /\ files'[i].assemble = files[i].assemble
               /\ \A err : FirstError(i, err) => FirstError(i, err)'
    <2>1. files'[i].err = files[i].err /\ files'[i].assemble = files[i].assemble
      BY <1>2, <1>6 DEF SameFiles, SameFile
    <2>2. ASSUME NEW err, FirstError(i, err) PROVE FirstError(i, err)'
      BY <1>2, <2>2 DEF FirstError
    <2> QED BY <2>1, <2>2
  <1>7. ASSUME NEW i \in DOMAIN files, files'[i].failed, ~files[i].failed, ~External(i)
        PROVE  /\ Located(i)
               /\ files'[i].assemble \/ ~Assembles(i)
               /\ FirstError(i, files[i].err)'
    <2>1. archiveErr = "none" /\ ~Building
      BY <1>1, <1>2, DecodingBasics DEF Laid
    <2>2. Built(i, files[i]) /\ files'[i].assemble = files[i].assemble
      BY <1>1, <1>2, <2>1, BuiltFile DEF Laid, SameFiles, SameFile
    <2>3. Located(i) /\ ~files[i].skip
      BY <1>7, <2>2 DEF Built
    <2>4. files[i].assemble \/ ~Assembles(i)
      BY <1>1, <1>2, <1>7, <2>3 DEF Laid, BuffersPlanned, Decided, Assembles
    <2>5. \A q \in Slots(groups, i) : Done(q) => SlotFits(q)
      BY <1>1, <1>2, <1>7, <2>3, <2>4 DEF FailuresDecided
    <2>6. \A q \in Slots(groups, i) : SlotError(q) = "none" <=> SlotFits(q)
      BY <1>1, <1>2, ErrorUnlessFits
    <2> DEFINE now == {r \in Slots(groups, i) : Dealt(r)}
    <2>0. PICK err : err = files'[i].err
      OBVIOUS
    <2>7. err # "none" /\ now # {} /\ \A r \in now : SlotError(r) = err
      <3>1. \/ files'[i] = files[i]
            \/ err # "none" /\ now # {} /\ \A r \in now : SlotError(r) = err
            \/ \E r : files'[i] = Filled(files[i], groups[r[1]].refs[r[2]])
        BY <1>4, <2>0 DEF Deals
      <3>2. files[i] \in FileAssembly
        BY <1>1 DEF Laid, IInv, TypeOK
      <3>3. ~\E r : files'[i] = Filled(files[i], groups[r[1]].refs[r[2]])
        <4>1. SUFFICES ASSUME NEW r, files'[i] = Filled(files[i], groups[r[1]].refs[r[2]]) PROVE FALSE
          OBVIOUS
        <4>2. PICK d : files'[i] = [files[i] EXCEPT !.data = d] \/ files'[i] = files[i]
          BY <4>1 DEF Filled
        <4> QED BY <1>7, <3>2, <4>2 DEF FileAssembly
      <3> QED BY <1>7, <3>1, <3>3
    <2>8. PICK r \in now : SlotError(r) = err
      BY <2>7
    <2>9. r \in Slots(groups, i) /\ Done(r)' /\ ~Done(r)
      BY <2>8 DEF Dealt
    <2>10. ASSUME NEW q \in Slots(groups, i), Before(q, r) PROVE SlotError(q) \in {"none", err}
      <3>1. CASE Done(q)
        BY <2>5, <2>6, <3>1
      <3>2. CASE ~Done(q)
        <4>1. Done(q)'
          <5>1. r[1] \in Nat /\ r[2] \in Nat /\ q[1] \in Nat /\ q[2] \in Nat
            BY <1>1, <1>2, <2>9, SlotPart
          <5>2. gi' \in Nat /\ ri' \in Nat
            <6>1. /\ gi \in Nat /\ ri \in Nat /\ gi' \in {gi, gi + 1} /\ ri' \in {ri, ri + 1, 1}
              BY <1>1 DEF DecodeActions, SkipGroup, OpenChunk, FailOpen, ReadChunk, FailRead, ReserveChunk,
                 FailGroup, SkipRef, DecodeSegment, FailSegment, PlaceSegment, ReleaseChunk, EndGroups,
                 Laid, IInv, TypeOK, plan, decode
            <6> QED BY <6>1
          <5> QED BY <2>9, <2>10, <5>1, <5>2 DEF Before, Done
        <4>2. q \in now
          BY <3>2, <4>1 DEF Dealt
        <4> QED BY <2>7, <4>2
      <3> QED BY <3>1, <3>2
    <2>11. FirstError(i, err)'
      <3>1. r \in Slots(groups, i)' /\ Done(r)' /\ SlotError(r)' = err
        BY <1>2, <2>8, <2>9
      <3>2. \A q \in Slots(groups, i)' : Before(q, r) => SlotError(q)' \in {"none", err}
        BY <1>2, <2>10
      <3> QED BY <3>1, <3>2 DEF FirstError, Before
    <2> QED BY <2>0, <2>2, <2>3, <2>4, <2>11
  <1>8. ASSUME NEW i \in DOMAIN files, files'[i].failed, ~External(i)
        PROVE  /\ ~Located(i) => files'[i].err = "Corrupt"
               /\ Located(i) =>
                    /\ Assembles(i) /\ ~files'[i].assemble => files'[i].err = "LimitExceeded"
                    /\ files'[i].assemble \/ ~Assembles(i) => FirstError(i, files[i].err)'
    <2>1. CASE files[i].failed
      <3>1. /\ files'[i].err = files[i].err /\ files'[i].assemble = files[i].assemble
            /\ \A err : FirstError(i, err) => FirstError(i, err)'
        BY <1>6, <1>8, <2>1
      <3>2. /\ ~Located(i) => files[i].err = "Corrupt"
            /\ Located(i) =>
                 /\ Assembles(i) /\ ~files[i].assemble => files[i].err = "LimitExceeded"
                 /\ files[i].assemble \/ ~Assembles(i) => FirstError(i, files[i].err)
        BY <1>2, <1>8, <2>1 DEF ErrorsKnown
      <3>3. PICK err : err = files[i].err
        OBVIOUS
      <3>4. FirstError(i, err)' => FirstError(i, files[i].err)'
        BY <3>1, <3>3
      <3> QED BY <3>1, <3>2, <3>3, <3>4
    <2>2. CASE ~files[i].failed
      BY <1>7, <1>8, <2>2
    <2> QED BY <2>1, <2>2
  <1>9. DOMAIN files' = DOMAIN files
    BY <1>2 DEF SameFiles
  <1> QED BY <1>3, <1>8, <1>9 DEF ErrorsKnown

\* A step before the decoding that fails no file, or file fi for its reason.
LEMMA EarlyErrorsKnown ==
  ASSUME DInv, ErrorsKnown, archive' = archive, verifyOnly' = verifyOnly, DOMAIN files' = DOMAIN files,
         ~Decoding, ~Decoding',
         \A i \in DOMAIN files : files'[i].failed /\ ~External(i) =>
           \/ /\ files[i].failed /\ files'[i].err = files[i].err
              /\ Planning' => (Planning \/ ~Located(i)) /\ files'[i].assemble = files[i].assemble
           \/ ~Located(i) /\ files'[i].err = "Corrupt"
           \/ Located(i) /\ files'[i].err = "LimitExceeded"
  PROVE  ErrorsKnown'
  <1>1. \A i : External(i)' = External(i) /\ Located(i)' = Located(i) /\ Assembles(i)' = Assembles(i)
    BY ArchiveFixed, NeedsFixed
  <1>2. ASSUME NEW i \in DOMAIN files, files'[i].failed, ~External(i)
        PROVE  /\ ~Located(i) => files'[i].err = "Corrupt"
               /\ Located(i) /\ Planning' /\ Assembles(i) /\ ~files'[i].assemble => files'[i].err = "LimitExceeded"
    BY <1>2 DEF ErrorsKnown
  <1> QED BY <1>1, <1>2 DEF ErrorsKnown

LEMMA ReserveErrorsKnown ==
  ASSUME DInv, ErrorsKnown, ReserveOutput \/ RefuseOutput
  PROVE  ErrorsKnown'
  <1> USE DEF inputs, plan, decode, budget, outputs
  <1>1. /\ pc = "reserve" /\ pc' = "group" /\ archive' = archive /\ verifyOnly' = verifyOnly
        /\ DOMAIN files' = DOMAIN files
    BY DEF ReserveOutput, RefuseOutput
  <1>2. Planning /\ ~Decoding /\ Decoding' /\ ~Planning' /\ files \in Seq(FileAssembly) /\ "LimitExceeded" \in Errors
    BY <1>1 DEF Planning, Decoding, DInv, RInv, Laid, IInv, TypeOK, Errors
  <1>3. \A i : External(i)' = External(i) /\ Located(i)' = Located(i) /\ Assembles(i)' = Assembles(i)
    BY <1>1, ArchiveFixed, NeedsFixed
  <1>4. ASSUME NEW i \in DOMAIN files, files'[i].failed, ~External(i)
        PROVE  /\ ~Located(i) => files'[i].err = "Corrupt"
               /\ Located(i) => /\ Assembles(i) /\ ~files'[i].assemble => files'[i].err = "LimitExceeded"
                                /\ ~files'[i].assemble /\ Assembles(i)
    <2>1. files[i] \in FileAssembly
      BY <1>2
    <2>2. /\ files[i].assemble => ~files[i].failed /\ Located(i) /\ Assembles(i)
          /\ Located(i) /\ files[i].failed => Assembles(i)
      BY <1>2, <1>4 DEF PlanDecided, DInv, RInv, Laid, BuffersPlanned, Needs
    <2>3. files[i].failed => /\ ~Located(i) => files[i].err = "Corrupt"
                             /\ Located(i) => files[i].err = "LimitExceeded"
      BY <1>2, <1>4, <2>2 DEF ErrorsKnown
    <2>4. CASE ReserveOutput
      <3>1. PICK d : files'[i] = [files[i] EXCEPT !.data = d] \/ files'[i] = files[i]
        BY <2>4 DEF ReserveOutput
      <3>2. /\ files'[i].failed = files[i].failed /\ files'[i].assemble = files[i].assemble
            /\ files'[i].err = files[i].err
        BY <2>1, <3>1 DEF FileAssembly
      <3> QED BY <1>4, <2>2, <2>3, <3>2
    <2>5. CASE RefuseOutput
      <3> DEFINE assembled == {j \in DOMAIN files : files[j].assemble}
                 marked == markFailure(files, assembled, "LimitExceeded")
      <3>1. files' = [j \in DOMAIN files |-> [marked[j] EXCEPT !.assemble = FALSE]]
        BY <2>5 DEF RefuseOutput
      <3>2. marked \in Seq(FileAssembly) /\ DOMAIN marked = DOMAIN files
        BY <1>2, MarkFailureType DEF markFailure
      <3>3. marked[i] \in FileAssembly /\ files'[i] = [marked[i] EXCEPT !.assemble = FALSE]
        BY <3>1, <3>2
      <3>4. /\ ~files[i].assemble => marked[i] = files[i]
            /\ files[i].assemble => marked[i] = [files[i] EXCEPT !.failed = TRUE, !.err = "LimitExceeded"]
        BY <2>2 DEF markFailure
      <3> HIDE DEF marked, assembled
      <3>5. files'[i].failed = marked[i].failed /\ files'[i].assemble = FALSE /\ files'[i].err = marked[i].err
        BY <3>3 DEF FileAssembly
      <3>6. CASE files[i].assemble
        <4>1. marked[i].err = "LimitExceeded"
          BY <2>1, <3>4, <3>6 DEF FileAssembly
        <4> QED BY <2>2, <3>5, <3>6, <4>1
      <3>7. CASE ~files[i].assemble
        BY <1>4, <2>2, <2>3, <3>4, <3>5, <3>7
      <3> QED BY <3>6, <3>7
    <2> QED BY <2>4, <2>5
  <1> QED BY <1>1, <1>2, <1>3, <1>4 DEF ErrorsKnown

LEMMA NextErrorsKnown == DInv /\ ErrorsKnown /\ [Next]_vars => ErrorsKnown'
  <1> SUFFICES ASSUME DInv, ErrorsKnown, [Next]_vars PROVE ErrorsKnown'
    OBVIOUS
  <1> USE DEF inputs, plan, decode, budget, outputs
  <1>0. /\ Laid /\ files \in Seq(FileAssembly) /\ \A i \in DOMAIN files : files[i] \in FileAssembly
    BY DEF DInv, RInv, Laid, IInv, TypeOK
  <1>1. CASE UNCHANGED vars \/ ReportActions
    <2>1. /\ archive' = archive /\ verifyOnly' = verifyOnly /\ groups' = groups /\ total' = total
          /\ limit' = limit /\ files' = files /\ gi' = gi /\ ri' = ri
          /\ pc' = pc \/ pc' = "done"
      BY <1>1 DEF vars, ReportActions, ReportSkipped, ReportFailure, ReportResult, Return
    <2>2. \A i : External(i)' = External(i) /\ Located(i)' = Located(i) /\ Assembles(i)' = Assembles(i)
      BY <2>1, ArchiveFixed, NeedsFixed
    <2>3. ASSUME pc' = pc
          PROVE  /\ \A i, err : FirstError(i, err)' <=> FirstError(i, err)
                 /\ (Planning' <=> Planning) /\ (Decoding' <=> Decoding)
      <3>1. /\ \A r : Done(r)' <=> Done(r)
            /\ \A r : SlotError(r)' = SlotError(r)
            /\ \A i : Slots(groups, i)' = Slots(groups, i)
        BY <2>1, <2>3 DEF Done, SlotError, RefError, Room, Slots
      <3> QED BY <2>3, <3>1 DEF FirstError, Planning, Decoding
    <2>4. CASE pc' = pc
      BY <2>1, <2>2, <2>3, <2>4 DEF ErrorsKnown
    <2>5. CASE pc' = "done"
      <3>1. ~Planning' /\ ~Decoding'
        BY <2>5 DEF Planning, Decoding
      <3> QED BY <2>1, <2>2, <3>1 DEF ErrorsKnown
    <2> QED BY <2>1, <2>4, <2>5
  <1>2. CASE DecodeActions
    BY <1>2, DecodeErrorsKnown
  <1>3. CASE ReserveOutput \/ RefuseOutput
    BY <1>3, ReserveErrorsKnown
  <1>4. CASE StartActions \/ FileActions \/ SortActions
    <2>1. /\ archive' = archive /\ verifyOnly' = verifyOnly
          /\ Building \/ pc = "sort"
          /\ Building' \/ pc' = "sort" \/ pc' = "done" \/ (pc' = "plan" /\ pc = "sort")
      BY <1>4 DEF StartActions, RejectArchive, AcceptArchive, FileActions, SkipFile, StartFile, AddPart, RejectPart, SizeFile,
             AddRef, EndFile, EndFiles, SortActions, SortGroup, EndSort, Building
    <2>2. ~Decoding /\ ~Decoding' /\ ~Planning /\ (Planning' => pc = "sort")
      BY <2>1 DEF Building, Planning, Decoding
    <2>3. CASE files' = files
      <3>1. \A i \in DOMAIN files : files[i].failed /\ ~External(i) /\ Planning' => ~Located(i)
        BY <2>2 DEF DInv, PlanDecided
      <3>2. DOMAIN files' = DOMAIN files
        BY <2>3
      <3> QED BY <2>1, <2>2, <2>3, <3>1, <3>2, EarlyErrorsKnown
    <2>4. CASE SkipFile \/ SizeFile
      <3>1. PICK size : \/ files' = [files EXCEPT ![fi] = [files[fi] EXCEPT !.skip = TRUE]]
                        \/ files' = [files EXCEPT ![fi] = [files[fi] EXCEPT !.totalSize = size]]
        BY <2>4 DEF SkipFile, SizeFile
      <3>2. ASSUME NEW i \in DOMAIN files PROVE files'[i].failed = files[i].failed /\ files'[i].err = files[i].err
        <4>1. \/ files'[i] = files[i]
              \/ files'[i] = [files[i] EXCEPT !.skip = TRUE]
              \/ files'[i] = [files[i] EXCEPT !.totalSize = size]
          BY <3>1
        <4> QED BY <1>0, <4>1 DEF FileAssembly
      <3>3. DOMAIN files' = DOMAIN files
        BY <3>1
      <3>4. ~Planning'
        BY <2>4 DEF SkipFile, SizeFile, Planning
      <3> QED BY <2>1, <2>2, <3>2, <3>3, <3>4, EarlyErrorsKnown
    <2>5. CASE RejectPart
      <3>1. /\ pc = "total" /\ MoreParts /\ ~GoodPart /\ "Corrupt" \in Errors /\ pc' = "file"
            /\ files' = markFailure(files, {fi}, "Corrupt")
        BY <2>5 DEF RejectPart, Errors
      <3>2. ~Located(fi)
        BY <1>0, <3>1, BadPart DEF Laid
      <3>3. /\ DOMAIN files' = DOMAIN files
            /\ \A i \in DOMAIN files :
                 /\ files'[i].failed <=> files[i].failed \/ i \in {fi}
                 /\ files'[i].err = IF i \in {fi} /\ ~files[i].failed THEN "Corrupt" ELSE files[i].err
        BY <1>0, <3>1, MarkedFiles DEF Laid
      <3>4. ~Planning'
        BY <3>1 DEF Planning
      <3>5. ASSUME NEW i \in DOMAIN files, files'[i].failed
            PROVE  \/ files[i].failed /\ files'[i].err = files[i].err
                   \/ ~Located(i) /\ files'[i].err = "Corrupt"
        BY <3>2, <3>3, <3>5
      <3> QED BY <2>1, <2>2, <3>3, <3>4, <3>5, EarlyErrorsKnown
    <2>6. CASE AddRef
      <3>1. pc = "refs" /\ MoreParts
        BY <2>6 DEF AddRef
      <3>2. Part.uncompressedSize <= MaxUint - dest
        BY <1>0, <3>1, PartFits DEF Laid
      <3> QED BY <2>3, <2>6, <3>2 DEF AddRef
    <2>7. CASE StartActions \/ SortActions \/ StartFile \/ AddPart \/ EndFile \/ EndFiles
      BY <2>3, <2>7 DEF StartActions, RejectArchive, AcceptArchive, SortActions, SortGroup, EndSort,
                        StartFile, AddPart, EndFile, EndFiles
    <2> QED BY <1>4, <2>4, <2>5, <2>6, <2>7 DEF FileActions
  <1>5. CASE PassFile \/ PlanFile \/ RefuseFile \/ EndPlan
    <2>1. /\ archive' = archive /\ verifyOnly' = verifyOnly /\ pc = "plan" /\ pc' \in {"plan", "reserve"}
      BY <1>5 DEF PassFile, PlanFile, RefuseFile, EndPlan
    <2>2. ~Decoding /\ ~Decoding' /\ Planning
      BY <2>1 DEF Planning, Decoding
    <2>3. CASE PassFile \/ EndPlan
      <3>1. files' = files
        BY <2>3 DEF PassFile, EndPlan
      <3>2. DOMAIN files' = DOMAIN files
        BY <3>1
      <3> QED BY <2>1, <2>2, <3>1, <3>2, EarlyErrorsKnown
    <2>4. CASE PlanFile
      <3>1. files' = [files EXCEPT ![fi] = [files[fi] EXCEPT !.assemble = TRUE]] /\ ~files[fi].failed
        BY <2>4 DEF PlanFile, Assembled
      <3>2. DOMAIN files' = DOMAIN files
        BY <3>1
      <3>3. ASSUME NEW i \in DOMAIN files, files'[i].failed PROVE files'[i] = files[i]
        <4>1. files'[i] = files[i] \/ (i = fi /\ files'[i] = [files[i] EXCEPT !.assemble = TRUE])
          BY <3>1
        <4>2. i = fi => files'[i].failed = files[i].failed
          BY <1>0, <4>1 DEF FileAssembly
        <4> QED BY <3>1, <3>3, <4>1, <4>2
      <3> QED BY <2>1, <2>2, <3>2, <3>3, EarlyErrorsKnown
    <2>5. CASE RefuseFile
      <3>1. /\ files' = markFailure(files, {fi}, "LimitExceeded") /\ "LimitExceeded" \in Errors /\ MoreFiles
            /\ ~files[fi].failed /\ ~files[fi].skip
        BY <2>5 DEF RefuseFile, Assembled, Errors
      <3>2. fi \in DOMAIN files
        BY <1>0, <3>1, FileTypes DEF MoreFiles, Laid
      <3>3. archiveErr = "none" /\ ~Building
        BY <1>0, <2>1 DEF Laid, FilesBuilt, Building
      <3>4. External(fi) \/ Located(fi)
        BY <1>0, <3>1, <3>2, <3>3, BuiltFile DEF Laid, Built
      <3>5. /\ DOMAIN files' = DOMAIN files
            /\ \A i \in DOMAIN files :
                 /\ files'[i].assemble = files[i].assemble
                 /\ files'[i].failed <=> files[i].failed \/ i \in {fi}
                 /\ files'[i].err = IF i \in {fi} /\ ~files[i].failed THEN "LimitExceeded" ELSE files[i].err
        BY <1>0, <3>1, MarkedFiles DEF Laid
      <3>6. ASSUME NEW i \in DOMAIN files, files'[i].failed, ~External(i)
            PROVE  \/ files[i].failed /\ files'[i].err = files[i].err /\ files'[i].assemble = files[i].assemble
                   \/ Located(i) /\ files'[i].err = "LimitExceeded"
        BY <3>1, <3>4, <3>5, <3>6
      <3> QED BY <2>1, <2>2, <3>5, <3>6, EarlyErrorsKnown
    <2> QED BY <1>5, <2>3, <2>4, <2>5
  <1> QED BY <1>1, <1>2, <1>3, <1>4, <1>5
          DEF Next, Returned, Step, StartActions, FileActions, SortActions, DecodeActions, ReportActions

-----------------------------------------------------------------------------
(* The bytes of a buffer.                                                  *)

\* The segment in slot r has byte p of its file.
Writes(gs, r, p) ==
  LET x == gs[r[1]].refs[r[2]] IN x.dest < p /\ p <= x.dest + Len(PartBytes(x.entry))
ByteOf(gs, r, p) ==
  LET x == gs[r[1]].refs[r[2]] IN PartBytes(x.entry)[p - x.dest]

\* Byte p of file i is of the last segment that has been written there.
LastByte(i, p, b) ==
  \/ b = Zero /\ \A r \in Slots(groups, i) : Done(r) => ~Writes(groups, r, p)
  \/ \E r \in Slots(groups, i) :
       /\ Done(r) /\ Writes(groups, r, p) /\ b = ByteOf(groups, r, p)
       /\ \A q \in Slots(groups, i) : Done(q) /\ Writes(groups, q, p) => ~Before(r, q)

DataKnown ==
  Decoding => \A i \in DOMAIN files : files[i].assemble /\ ~files[i].failed =>
    \A p \in 1..files[i].totalSize : LastByte(i, p, files[i].data[p])

LEMMA DecodeDataKnown ==
  ASSUME DInv, DataKnown, DecodeActions
  PROVE  DataKnown'
  <1>1. Laid /\ ChunkDecoded /\ DecodingFits
    BY DEF DInv, RInv
  <1>2. /\ Decoding /\ archive' = archive /\ groups' = groups
        /\ SameFiles /\ \A i : Slots(groups, i)' = Slots(groups, i)
        /\ \A i \in DOMAIN files : \A r \in Slots(groups, i) : Done(r) => Done(r)'
    BY <1>1, DecodeKeeps
  <1>3. Deals
    BY <1>1, DecodeDeals
  <1>4. /\ files \in Seq(FileAssembly) /\ DOMAIN files' = DOMAIN files
    BY <1>1, <1>2 DEF Laid, IInv, TypeOK, SameFiles
  <1>5. \A r, p : (Writes(groups, r, p)' <=> Writes(groups, r, p)) /\ ByteOf(groups, r, p)' = ByteOf(groups, r, p)
    BY <1>2 DEF Writes, ByteOf
  <1>6. ASSUME NEW i \in DOMAIN files, files'[i].assemble, ~files'[i].failed
        PROVE  \A p \in 1..files'[i].totalSize : LastByte(i, p, files[i].data[p])'
    <2>1. /\ files[i].assemble /\ ~files[i].failed /\ files'[i].totalSize = files[i].totalSize
      BY <1>2, <1>6 DEF SameFiles, SameFile
    <2>2. \A p \in 1..files[i].totalSize : LastByte(i, p, files[i].data[p])
      BY <1>2, <2>1 DEF DataKnown
    <2> DEFINE now == {r \in Slots(groups, i) : Dealt(r)}
    <2>3. \/ files'[i] = files[i] /\ now = {}
          \/ \E r \in now : /\ now = {r} /\ SlotError(r) = "none"
                            /\ files'[i] = Filled(files[i], groups[r[1]].refs[r[2]])
      BY <1>3, <1>6, <2>1 DEF Deals
    <2>4. CASE files'[i] = files[i] /\ now = {}
      <3>1. \A r \in Slots(groups, i) : Done(r)' <=> Done(r)
        BY <1>2, <2>4 DEF Dealt
      <3>2. ASSUME NEW p \in 1..files[i].totalSize PROVE LastByte(i, p, files[i].data[p])'
        <4>1. PICK b : b = files[i].data[p]
          OBVIOUS
        <4>2. LastByte(i, p, b)
          BY <2>2, <4>1
        <4>3. LastByte(i, p, b)'
          BY <1>2, <1>5, <3>1, <4>2 DEF LastByte
        <4> QED BY <2>4, <4>1, <4>3
      <3> QED BY <2>1, <3>2
    <2>5. ASSUME NEW r \in now, now = {r}, SlotError(r) = "none",
                 files'[i] = Filled(files[i], groups[r[1]].refs[r[2]])
          PROVE  \A p \in 1..files[i].totalSize : LastByte(i, p, files[i].data[p])'
      <3> DEFINE x == groups[r[1]].refs[r[2]]
                 bytes == PartBytes(x.entry)
      <3>1. r \in Slots(groups, i) /\ Done(r)' /\ ~Done(r)
        BY <2>5 DEF Dealt
      <3>2. \A q \in Slots(groups, i) : Done(q)' <=> Done(q) \/ q = r
        BY <1>2, <2>5, <3>1 DEF Dealt
      <3>3. \A q \in Slots(groups, i) : Done(q) => ~Before(r, q)
        BY <1>1, <1>2, <3>1, DoneBefore
      <3>4. ~Before(r, r)
        <4>1. r[1] \in Nat /\ r[2] \in Nat
          BY <1>1, <1>2, <3>1, SlotPart
        <4> QED BY <4>1 DEF Before
      <3>5. files[i] \in FileAssembly /\ files[i].data \in Seq(Byte) /\ Len(files[i].data) = files[i].totalSize
        <4>1. files[i] \in FileAssembly
          BY <1>4
        <4>2. Len(files[i].data) = files[i].totalSize
          BY <1>1, <1>2, <2>1 DEF Laid, BuffersPlanned
        <4> QED BY <4>1, <4>2 DEF FileAssembly
      <3>6. files'[i].data = Copied(files[i].data, x.dest, bytes)
        BY <2>1, <2>5, <3>5 DEF Filled, FileAssembly
      <3>7. DOMAIN files[i].data = 1..files[i].totalSize
        BY <3>5
      <3>8. x.dest \in Nat /\ Len(bytes) \in Nat
        <4>1. r[1] \in DOMAIN groups /\ r[2] \in DOMAIN groups[r[1]].refs
          BY <1>1, <1>2, <3>1, SlotPart
        <4>2. groups \in Seq(ChunkGroup)
          BY <1>1 DEF Laid, IInv, TypeOK
        <4>3. groups[r[1]] \in ChunkGroup
          BY <4>1, <4>2
        <4>4. groups[r[1]].refs \in Seq(SegmentRef)
          BY <4>3 DEF ChunkGroup
        <4>5. x \in SegmentRef
          BY <4>1, <4>4
        <4>6. x.dest \in Nat /\ x.entry \in DataEntry
          BY <4>5, IntAssumption DEF SegmentRef, Uint
        <4> QED BY <4>6, PartBytesLength
      <3>9. ASSUME NEW p \in 1..files[i].totalSize PROVE LastByte(i, p, files[i].data[p])'
        <4>0. p \in Nat
          <5>1. files[i].totalSize \in Nat
            BY <3>5, IntAssumption DEF FileAssembly, Uint
          <5> QED BY <5>1
        <4> HIDE DEF bytes, x
        <4>1. Writes(groups, r, p) <=> p \in (x.dest + 1)..(x.dest + Len(bytes))
          <5>1. Writes(groups, r, p) <=> x.dest < p /\ p <= x.dest + Len(bytes)
            BY DEF Writes, x, bytes
          <5> QED BY <3>8, <4>0, <5>1
        <4>2. files'[i].data[p] = IF Writes(groups, r, p) THEN ByteOf(groups, r, p) ELSE files[i].data[p]
          <5>1. ByteOf(groups, r, p) = bytes[p - x.dest]
            BY DEF ByteOf, bytes, x
          <5> QED BY <3>6, <3>7, <4>1, <5>1 DEF Copied
        <4>3. PICK b : b = files'[i].data[p]
          OBVIOUS
        <4>4. CASE Writes(groups, r, p)
          <5>1. b = ByteOf(groups, r, p)
            BY <4>2, <4>3, <4>4
          <5>2. \A q \in Slots(groups, i) : Done(q)' /\ Writes(groups, q, p) => ~Before(r, q)
            BY <3>2, <3>3, <3>4
          <5>3. \A q \in Slots(groups, i)' : Done(q)' /\ Writes(groups, q, p)' => ~Before(r, q)
            BY <1>2, <1>5, <5>2
          <5>4. r \in Slots(groups, i)' /\ Done(r)' /\ Writes(groups, r, p)' /\ b = ByteOf(groups, r, p)'
            BY <1>2, <1>5, <3>1, <4>4, <5>1
          <5>5. LastByte(i, p, b)'
            BY <5>3, <5>4 DEF LastByte, Before
          <5> QED BY <4>3, <5>5
        <4>5. CASE ~Writes(groups, r, p)
          <5>1. LastByte(i, p, b)
            BY <2>2, <4>2, <4>3, <4>5
          <5>2. \A q \in Slots(groups, i) : Writes(groups, q, p) => (Done(q)' <=> Done(q))
            BY <3>2, <4>5
          <5>3. LastByte(i, p, b)'
            BY <1>2, <1>5, <5>1, <5>2 DEF LastByte, Before
          <5> QED BY <4>3, <5>3
        <4> QED BY <4>4, <4>5
      <3> QED BY <3>9
    <2> QED BY <2>1, <2>3, <2>4, <2>5
  <1> QED BY <1>4, <1>6 DEF DataKnown

LEMMA NextDataKnown == DInv /\ DataKnown /\ [Next]_vars => DataKnown'
  <1> SUFFICES ASSUME DInv, DataKnown, [Next]_vars PROVE DataKnown'
    OBVIOUS
  <1> USE DEF inputs, plan, decode, budget, outputs
  <1>0. Laid /\ files \in Seq(FileAssembly)
    BY DEF DInv, RInv, Laid, IInv, TypeOK
  <1>1. CASE UNCHANGED vars \/ ReportActions
    <2>1. /\ groups' = groups /\ files' = files /\ gi' = gi /\ ri' = ri
          /\ pc' = pc \/ pc' = "done"
      BY <1>1 DEF vars, ReportActions, ReportSkipped, ReportFailure, ReportResult, Return
    <2>2. CASE pc' = pc
      <3>1. /\ \A r : Done(r)' <=> Done(r)
            /\ \A i : Slots(groups, i)' = Slots(groups, i)
            /\ \A r, p : (Writes(groups, r, p)' <=> Writes(groups, r, p)) /\ ByteOf(groups, r, p)' = ByteOf(groups, r, p)
        BY <2>1, <2>2 DEF Done, Slots, Writes, ByteOf
      <3>2. \A i, p, b : LastByte(i, p, b)' <=> LastByte(i, p, b)
        BY <3>1 DEF LastByte, Before
      <3> QED BY <2>1, <2>2, <3>2 DEF DataKnown, Decoding
    <2>3. CASE pc' = "done"
      BY <2>3 DEF DataKnown, Decoding
    <2> QED BY <2>1, <2>2, <2>3
  <1>2. CASE DecodeActions
    BY <1>2, DecodeDataKnown
  <1>3. CASE ReserveOutput
    <2>1. /\ pc = "reserve" /\ pc' = "group" /\ gi' = gi /\ groups' = groups
          /\ files' = [i \in DOMAIN files |->
                         IF HasBuffer(i)
                         THEN [files[i] EXCEPT !.data = [k \in 1..files[i].totalSize |-> Zero]]
                         ELSE files[i]]
      BY <1>3 DEF ReserveOutput
    <2>2. gi = 1
      BY <2>1 DEF DInv, RInv, PartsPlaced
    <2>3. ASSUME NEW i, NEW r \in Slots(groups, i) PROVE ~Done(r)'
      <3>1. r[1] \in DOMAIN groups
        BY <2>3, SlotsMember
      <3>2. groups \in Seq(ChunkGroup)
        BY <1>0 DEF Laid, IInv, TypeOK
      <3>3. ~(r[1] < 1)
        BY <3>1, <3>2
      <3> QED BY <2>1, <2>2, <3>3 DEF Done
    <2>4. ASSUME NEW i \in DOMAIN files, files'[i].assemble, ~files'[i].failed, NEW p \in 1..files'[i].totalSize
          PROVE  files'[i].data[p] = Zero
      <3>1. files[i] \in FileAssembly
        BY <1>0
      <3>2. HasBuffer(i)
        BY <2>1, <2>4 DEF HasBuffer
      <3>3. files'[i] = [files[i] EXCEPT !.data = [k \in 1..files[i].totalSize |-> Zero]]
        BY <2>1, <3>2
      <3>4. files'[i].data = [k \in 1..files[i].totalSize |-> Zero] /\ files'[i].totalSize = files[i].totalSize
        BY <3>1, <3>3 DEF FileAssembly
      <3> QED BY <2>4, <3>4
    <2>5. \A i : Slots(groups, i)' = Slots(groups, i)
      BY <2>1 DEF Slots
    <2>6. \A i, p : LastByte(i, p, Zero)'
      BY <2>3, <2>5 DEF LastByte
    <2>7. ASSUME NEW i \in DOMAIN files, files'[i].assemble, ~files'[i].failed, NEW p \in 1..files'[i].totalSize
          PROVE  LastByte(i, p, files[i].data[p])'
      <3>1. files'[i].data[p] = Zero
        BY <2>4, <2>7
      <3> QED BY <2>6, <3>1
    <2>8. DOMAIN files' = DOMAIN files
      BY <2>1
    <2> QED BY <2>7, <2>8 DEF DataKnown
  <1>4. CASE RefuseOutput
    <2> DEFINE assembled == {i \in DOMAIN files : files[i].assemble}
               marked == markFailure(files, assembled, "LimitExceeded")
    <2>1. files' = [i \in DOMAIN files |-> [marked[i] EXCEPT !.assemble = FALSE]]
      BY <1>4 DEF RefuseOutput
    <2>2. marked \in Seq(FileAssembly) /\ DOMAIN marked = DOMAIN files
      BY <1>0, MarkFailureType DEF markFailure, Errors
    <2> HIDE DEF marked, assembled
    <2>3. ASSUME NEW i \in DOMAIN files' PROVE ~files'[i].assemble
      <3>1. marked[i] \in FileAssembly /\ files'[i] = [marked[i] EXCEPT !.assemble = FALSE]
        BY <2>1, <2>2
      <3> QED BY <3>1 DEF FileAssembly
    <2> QED BY <2>3 DEF DataKnown
  <1>5. CASE StartActions \/ FileActions \/ SortActions \/ PassFile \/ PlanFile \/ RefuseFile \/ EndPlan
    <2>1. pc' \notin {"group", "read", "chunk", "segment", "place", "finalize"}
      BY <1>5 DEF StartActions, RejectArchive, AcceptArchive, FileActions, SkipFile, StartFile, AddPart, RejectPart, SizeFile,
           AddRef, EndFile, EndFiles, SortActions, SortGroup, EndSort, PassFile, PlanFile, RefuseFile, EndPlan
    <2> QED BY <2>1 DEF DataKnown, Decoding
  <1> QED BY <1>1, <1>2, <1>3, <1>4, <1>5
          DEF Next, Returned, Step, StartActions, FileActions, SortActions, DecodeActions, ReportActions

-----------------------------------------------------------------------------
(* The whole of what is known of a call.                                   *)

\* What the call is asked for, and what it then may use.
Refused == memoryLimit < 0 \/ archive.encrypted
LimitOf == IF memoryLimit = 0 THEN DefaultLimit ELSE memoryLimit
LimitKnown == pc \notin {"start", "done"} => ~Refused /\ limit = LimitOf

LEMMA NextLimitKnown == IInv /\ LimitKnown /\ [Next]_vars => LimitKnown'
  <1> SUFFICES ASSUME IInv, LimitKnown, [Next]_vars PROVE LimitKnown'
    OBVIOUS
  <1>0. memoryLimit \in Int
    BY IntAssumption DEF IInv, TypeOK
  <1> USE DEF inputs, plan, decode, budget, outputs
  <1>1. CASE UNCHANGED vars
    BY <1>1 DEF vars, LimitKnown, Refused, LimitOf
  <1>2. CASE RejectArchive \/ Return
    BY <1>2 DEF RejectArchive, Return, LimitKnown
  <1>3. CASE AcceptArchive
    BY <1>0, <1>3 DEF AcceptArchive, LimitKnown, Refused, LimitOf
  <1>4. CASE FileActions \/ SortActions \/ PlanActions
    <2>1. /\ archive' = archive /\ memoryLimit' = memoryLimit /\ limit' = limit
          /\ pc \notin {"start", "done"}
      BY <1>4 DEF FileActions, SortActions, SkipFile, StartFile, AddPart, RejectPart,
                  SizeFile, AddRef, EndFile, EndFiles, SortGroup, EndSort, PlanActions, PassFile, PlanFile,
                  RefuseFile, EndPlan, ReserveOutput, RefuseOutput
    <2> QED BY <2>1 DEF LimitKnown, Refused, LimitOf
  <1>5. CASE DecodeActions \/ ReportSkipped \/ ReportFailure \/ ReportResult
    <2>1. Decoding /\ archive' = archive /\ memoryLimit' = memoryLimit /\ limit' = limit
      BY <1>5, DecodeFrame DEF ReportActions
    <2> QED BY <2>1 DEF LimitKnown, Refused, LimitOf, Decoding
  <1> QED BY <1>1, <1>2, <1>3, <1>4, <1>5
          DEF Next, Returned, Step, FileActions, SortActions, PlanActions, DecodeActions

CallInv == DInv /\ AllReported /\ GroupsKnown /\ ErrorsKnown /\ DataKnown /\ LimitKnown

LEMMA InitCallInv == Begun => CallInv
  <1> SUFFICES ASSUME Begun PROVE CallInv
    OBVIOUS
  <1>1. pc = "start" /\ ~Decoding
    BY DEF Begun, Called, Decoding
  <1>2. DataKnown /\ LimitKnown
    BY <1>1 DEF DataKnown, LimitKnown
  <1> QED BY <1>2, InitDInv, InitAllReported, InitGroupsKnown, InitErrorsKnown DEF CallInv

LEMMA NextCallInv == CallInv /\ [Next]_vars => CallInv'
  <1> SUFFICES ASSUME CallInv, [Next]_vars PROVE CallInv'
    OBVIOUS
  <1>1. Laid /\ IInv /\ DInv
    BY DEF CallInv, DInv, RInv, Laid
  <1> QED BY <1>1, NextDInv, NextAllReported, NextGroupsKnown, NextErrorsKnown, NextDataKnown, NextLimitKnown
          DEF CallInv

-----------------------------------------------------------------------------
(* What a call makes of each file, told from the archive, the limit and    *)
(* the mode: verify says whether the call verifies.                        *)

\* What the call gives a buffer, and what the buffers leave of the limit.
AssemblesIn(verify, i) == verify => archive.files[i].hasChecksum
NeedsIn(verify, i) == ~External(i) /\ Located(i) /\ AssemblesIn(verify, i) /\ OutputSize(i) <= MaxInt
NeededIn(verify) == [i \in DOMAIN archive.files |-> IF NeedsIn(verify, i) THEN OutputSize(i) ELSE 0]
EnoughIn(verify) == Total(NeededIn(verify)) <= LimitOf
RoomIn(verify) == LimitOf - (IF EnoughIn(verify) THEN Total(NeededIn(verify)) ELSE 0)
BufferIn(verify, i) == EnoughIn(verify) /\ NeedsIn(verify, i)

\* The error of the segment of file i in slot r, the one the file fails with,
\* and the byte it has at p when it does not fail.
ErrorIn(verify, i, r) ==
  RefErrorIn(RoomIn(verify), BufferIn(verify, i), OutputSize(i), Groups[r[1]].refs[r[2]])
FirstErrorIn(verify, i, err) ==
  \E r \in Slots(Groups, i) :
    /\ ErrorIn(verify, i, r) = err
    /\ \A q \in Slots(Groups, i) : Before(q, r) => ErrorIn(verify, i, q) \in {"none", err}
LastByteOf(i, p, b) ==
  \/ b = Zero /\ \A r \in Slots(Groups, i) : ~Writes(Groups, r, p)
  \/ \E r \in Slots(Groups, i) :
       /\ Writes(Groups, r, p) /\ b = ByteOf(Groups, r, p)
       /\ \A q \in Slots(Groups, i) : Writes(Groups, q, p) => ~Before(r, q)

\* The groups have each part of each file that can be located, and no other.
PartsGrouped ==
  /\ Groups \in Seq(ChunkGroup)
  /\ \A i \in DOMAIN archive.files : ~External(i) /\ Located(i) =>
       /\ \A m \in DOMAIN Parts(i) : \E r \in Slots(Groups, i) : HoldsPart(Groups, r, i, m)
       /\ \A r \in Slots(Groups, i) : \E m \in DOMAIN Parts(i) : HoldsPart(Groups, r, i, m)

\* What becomes of a file that can be located.
LocatedFile(verify, i, f) ==
  /\ f.totalSize = OutputSize(i)
  /\ AssemblesIn(verify, i) /\ ~BufferIn(verify, i) => f.failed /\ f.err = "LimitExceeded"
  /\ BufferIn(verify, i) \/ ~AssemblesIn(verify, i) =>
       /\ f.failed <=> \E r \in Slots(Groups, i) : ErrorIn(verify, i, r) # "none"
       /\ f.failed => FirstErrorIn(verify, i, f.err)
  /\ BufferIn(verify, i) /\ ~f.failed =>
       Len(f.data) = OutputSize(i) /\ \A p \in 1..OutputSize(i) : LastByteOf(i, p, f.data[p])
FinalFile(verify, i, f) ==
  /\ f \in FileAssembly
  /\ f.skip = External(i)
  /\ f.failed <=> f.err # "none"
  /\ ~External(i) /\ ~Located(i) => f.failed /\ f.err = "Corrupt"
  /\ ~External(i) /\ Located(i) => LocatedFile(verify, i, f)

\* In a call these are what its state says.
LEMMA InCall ==
  /\ \A i : Assembles(i) = AssemblesIn(verifyOnly, i) /\ Needs(i) = NeedsIn(verifyOnly, i)
  /\ Needed = NeededIn(verifyOnly)
  <1>1. \A i : Assembles(i) = AssemblesIn(verifyOnly, i)
    BY DEF Assembles, AssemblesIn
  <1>2. \A i : Needs(i) = NeedsIn(verifyOnly, i)
    BY <1>1 DEF Needs, NeedsIn
  <1> QED BY <1>1, <1>2 DEF Needed, NeededIn

LEMMA RoomInCall ==
  ASSUME CallInv, Decoding
  PROVE  /\ groups = Groups /\ Room = RoomIn(verifyOnly)
         /\ \A i \in DOMAIN files : files[i].assemble <=> BufferIn(verifyOnly, i)
         /\ \A i \in DOMAIN files : \A r \in Slots(groups, i) : SlotError(r) = ErrorIn(verifyOnly, i, r)
  <1>1. /\ archiveErr = "none" /\ groups = Groups
        /\ Laid /\ FilesBuilt /\ IInv /\ ~Building
    BY DecodingBasics DEF CallInv, DInv, RInv, Laid, GroupsKnown
  <1>2. limit = LimitOf
    BY DEF CallInv, LimitKnown, Decoding
  <1>3. Enough <=> EnoughIn(verifyOnly)
    BY <1>2, InCall DEF Enough, EnoughIn
  <1>4. Room = RoomIn(verifyOnly)
    BY <1>2, <1>3, InCall DEF Room, RoomIn, CallInv, DInv, OutputDecided
  <1>5. ASSUME NEW i \in DOMAIN files PROVE files[i].assemble <=> BufferIn(verifyOnly, i)
    BY <1>3, InCall DEF BufferIn, CallInv, DInv, OutputDecided
  <1>6. ASSUME NEW i \in DOMAIN files, NEW r \in Slots(groups, i)
        PROVE  SlotError(r) = ErrorIn(verifyOnly, i, r)
    <2>1. ~External(i) /\ Located(i) /\ groups[r[1]].refs[r[2]].file = i
      BY <1>1, SlotPart
    <2>2. files[i].totalSize = OutputSize(i)
      BY <1>1, <2>1, BuiltFile DEF Built
    <2>3. files[i].assemble = BufferIn(verifyOnly, i)
      <3>0. files[i] \in FileAssembly
        BY <1>1 DEF IInv, TypeOK
      <3>1. files[i].assemble \in BOOLEAN
        BY <3>0 DEF FileAssembly
      <3>2. BufferIn(verifyOnly, i) \in BOOLEAN
        BY DEF BufferIn
      <3> QED BY <1>5, <3>1, <3>2
    <2> QED BY <1>1, <1>4, <2>1, <2>2, <2>3 DEF SlotError, RefError, ErrorIn
  <1> QED BY <1>1, <1>4, <1>5, <1>6

\* What the files are when the results are built.
LEMMA FinalFiles ==
  ASSUME CallInv, pc = "finalize", NEW i \in DOMAIN files
  PROVE  FinalFile(verifyOnly, i, files[i])
  <1>1. /\ Laid /\ IInv /\ FilesBuilt /\ BuffersPlanned /\ PartsPlaced /\ FailedHaveErrors
        /\ FailuresDecided /\ ErrorsKnown /\ DataKnown
    BY DEF CallInv, DInv, RInv, Laid
  <1>2. /\ Decoding /\ archiveErr = "none" /\ ~Building /\ gi > Len(groups)
        /\ i \in DOMAIN archive.files /\ archive \in Archive /\ Built(i, files[i])
    <2>1. Decoding
      BY DEF Decoding
    <2>2. gi > Len(groups)
      BY <1>1 DEF PartsPlaced
    <2> QED BY <1>1, <2>1, <2>2, DecodingBasics, BuiltFile
  <1>3. files[i] \in FileAssembly
    BY <1>1 DEF IInv, TypeOK
  <1>4. /\ groups = Groups
        /\ files[i].assemble <=> BufferIn(verifyOnly, i)
        /\ \A r \in Slots(groups, i) : SlotError(r) = ErrorIn(verifyOnly, i, r)
    BY <1>2, RoomInCall
  <1>5. Assembles(i) = AssemblesIn(verifyOnly, i)
    BY InCall
  <1>6. \A r \in Slots(groups, i) : Done(r)
    <2>1. groups \in Seq(ChunkGroup) /\ gi \in Nat
      BY <1>1 DEF IInv, TypeOK
    <2>2. Len(groups) \in Nat /\ DOMAIN groups = 1..Len(groups)
      BY <2>1
    <2>3. ASSUME NEW r \in Slots(groups, i) PROVE r[1] < gi
      <3>1. r[1] \in DOMAIN groups
        BY <1>1, <1>2, SlotPart
      <3> QED BY <1>2, <2>1, <2>2, <3>1
    <2> QED BY <2>3 DEF Done
  <1>7. files[i].failed <=> files[i].err # "none"
    BY <1>1 DEF FailedHaveErrors
  <1>8. ~External(i) /\ ~Located(i) => files[i].failed /\ files[i].err = "Corrupt"
    BY <1>1, <1>2 DEF Built, ErrorsKnown
  <1>9. ASSUME ~External(i), Located(i) PROVE LocatedFile(verifyOnly, i, files[i])
    <2>1. files[i].totalSize = OutputSize(i)
      BY <1>2, <1>9 DEF Built
    <2>2. ASSUME AssemblesIn(verifyOnly, i), ~BufferIn(verifyOnly, i)
          PROVE  files[i].failed /\ files[i].err = "LimitExceeded"
      <3>1. ~files[i].assemble /\ Assembles(i) /\ ~files[i].skip
        BY <1>2, <1>4, <1>5, <1>9, <2>2 DEF Built
      <3>2. Decided(i, files[i])
        BY <1>1, <1>2 DEF BuffersPlanned
      <3>3. files[i].failed
        BY <3>1, <3>2 DEF Decided, Assembles
      <3> QED BY <1>1, <1>2, <1>9, <3>1, <3>3 DEF ErrorsKnown
    <2>3. ASSUME BufferIn(verifyOnly, i) \/ ~AssemblesIn(verifyOnly, i)
          PROVE  /\ files[i].failed <=> \E r \in Slots(Groups, i) : ErrorIn(verifyOnly, i, r) # "none"
                 /\ files[i].failed => FirstErrorIn(verifyOnly, i, files[i].err)
      <3>1. files[i].assemble \/ ~Assembles(i)
        BY <1>4, <1>5, <2>3
      <3>2. files[i].failed <=> \E r \in Slots(groups, i) : Done(r) /\ ~SlotFits(r)
        BY <1>1, <1>2, <1>9, <3>1 DEF FailuresDecided
      <3>3. \A r \in Slots(groups, i) : SlotError(r) = "none" <=> SlotFits(r)
        BY <1>1, <1>2, ErrorUnlessFits
      <3>4. files[i].failed => FirstError(i, files[i].err)
        BY <1>1, <1>2, <1>9, <3>1 DEF ErrorsKnown
      <3>5. files[i].failed => FirstErrorIn(verifyOnly, i, files[i].err)
        BY <1>4, <3>4 DEF FirstError, FirstErrorIn
      <3> QED BY <1>4, <1>6, <3>2, <3>3, <3>5
    <2>4. ASSUME BufferIn(verifyOnly, i), ~files[i].failed
          PROVE  /\ Len(files[i].data) = OutputSize(i)
                 /\ \A p \in 1..OutputSize(i) : LastByteOf(i, p, files[i].data[p])
      <3>1. files[i].assemble
        BY <1>4, <2>4
      <3>2. Len(files[i].data) = files[i].totalSize
        BY <1>1, <1>2, <3>1 DEF BuffersPlanned
      <3>3. \A p \in 1..files[i].totalSize : LastByte(i, p, files[i].data[p])
        BY <1>1, <1>2, <2>4, <3>1 DEF DataKnown
      <3>4. ASSUME NEW p, NEW b, LastByte(i, p, b) PROVE LastByteOf(i, p, b)
        BY <1>4, <1>6, <3>4 DEF LastByte, LastByteOf
      <3> QED BY <2>1, <3>2, <3>3, <3>4
    <2> QED BY <2>1, <2>2, <2>3, <2>4 DEF LocatedFile
  <1> QED BY <1>2, <1>3, <1>7, <1>8, <1>9 DEF FinalFile, Built

LEMMA FinalGroups ==
  ASSUME CallInv, Decoding
  PROVE  PartsGrouped
  <1>1. /\ Laid /\ IInv /\ groups = Groups
    BY RoomInCall DEF CallInv, DInv, RInv, Laid
  <1>2. groups \in Seq(ChunkGroup) /\ DOMAIN files = DOMAIN archive.files
    <2>1. /\ groups \in Seq(ChunkGroup) /\ files \in Seq(FileAssembly) /\ archive \in Archive
          /\ Len(files) = Len(archive.files)
      BY <1>1 DEF IInv, TypeOK, InRange
    <2>2. archive.files \in Seq(FileEntry)
      BY <2>1 DEF Archive
    <2> QED BY <2>1, <2>2
  <1>3. ASSUME NEW i \in DOMAIN files, ~External(i), Located(i)
        PROVE  /\ \A m \in DOMAIN Parts(i) : \E r \in Slots(groups, i) : HoldsPart(groups, r, i, m)
               /\ \A r \in Slots(groups, i) : \E m \in DOMAIN Parts(i) : HoldsPart(groups, r, i, m)
    BY <1>1, <1>3, SlotPart, PartSlot
  <1> QED BY <1>1, <1>2, <1>3 DEF PartsGrouped

\* What a call has made of each file when it builds the results.
FilesDecided == pc = "finalize" => \A i \in DOMAIN files : FinalFile(verifyOnly, i, files[i])

\* Whatever the archive and the limit, what Extract has made of a file when it
\* builds the results is told from the archive, the limit and the mode: whether
\* the file is skipped, whether it has a buffer, with which error it fails,
\* namely the first in the order of the segments, and otherwise each of its
\* bytes, from the last segment that covers it.
THEOREM FilesDecidedCorrect == Spec => []FilesDecided
<1>1. Spec => []CallInv
  <2>1. Init => CallInv
    BY InitBegun, InitCallInv
  <2> QED BY <2>1, NextCallInv, PTL DEF Spec
<1>2. CallInv => FilesDecided
  BY FinalFiles DEF FilesDecided
<1> QED BY <1>1, <1>2, PTL

=============================================================================
