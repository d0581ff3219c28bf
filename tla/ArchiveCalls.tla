---------------------------- MODULE ArchiveCalls ----------------------------
(***************************************************************************)
(* An Archive (archive.go): Open, and then Extract and Verify again and    *)
(* again.  Open has parsed the archive; it lets gog.Apply join the parts   *)
(* of Galaxy files in it.  Each call after that is one run of              *)
(* StreamExtract over what Apply has left, with the options Open was       *)
(* given; what it returns becomes the files and the error of the call.     *)
(***************************************************************************)
EXTENDS StreamExtract

CONSTANTS
  Installers,  \* what Open is called on
  MaxCalls     \* bound: the calls a caller makes on one Archive

\* A marker call of a file, as Gog reads it, and the content its MD5 is of.
Mark == [before: [args: Nat, md5: BOOLEAN, name: {"", "joined"}, parts: Uint \cup {-1}],
         after: [args: Nat, size: Uint \cup {-1}],
         digest: Seq(Byte)]

\* An installer is the archive that Parse returns and the marks of its files.
\* Only Apply gives a file more than one location.
ASSUME CallsAssumption ==
  /\ MaxCalls \in Nat \ {0}
  /\ \A i \in Installers :
       /\ i.archive \in Archives /\ i.marks \in Seq(Mark)
       /\ DOMAIN i.marks = DOMAIN i.archive.files
       /\ \A k \in DOMAIN i.archive.files : i.archive.files[k].additional = <<>>

VARIABLES
  installer,   \* the argument of Open
  galaxy, gpc, gfi, activeStart, remaining, allLanguages, hasLanguageConstraints,
  applied,     \* Open's call of Apply: the variables of GogApply
  calls        \* what the calls so far have returned

-----------------------------------------------------------------------------
(* Open.                                                                   *)

Unconditional == [call |-> "none", languages |-> <<>>, arch |-> FALSE, bits |-> <<>>, component |-> ""]

\* What Apply sees of an archive.
Metadata(i) ==
  [galaxy  |-> FALSE,
   files   |-> [k \in DOMAIN i.archive.files |->
                  LET f == i.archive.files[k]
                  IN  [destination |-> "own", size |-> f.size,
                       checksum |-> IF f.hasChecksum THEN "file" ELSE "none",
                       location |-> f.location, additional |-> f.additional,
                       before |-> i.marks[k].before, after |-> i.marks[k].after,
                       check |-> Unconditional, languages |-> <<>>, components |-> "",
                       bits32 |-> FALSE, bits64 |-> FALSE]],
   entries |-> [k \in DOMAIN i.archive.entries |->
                  LET e == i.archive.entries[k]
                  IN  [uncompressedSize |-> e.uncompressedSize, zlib |-> e.filter = "zlib"]],
   languages |-> {}]

Parsed == {Metadata(i) : i \in Installers}

Gog == INSTANCE GogApply WITH
  Archives <- Parsed, Names <- {"own", "joined"},
  Languages <- {}, MaxApplies <- 1,
  original <- Metadata(installer), archive <- galaxy, pc <- gpc, fi <- gfi

\* What Extract sees of what Apply has left.
Extractable(g) ==
  [encrypted |-> installer.archive.encrypted,
   files   |-> [k \in DOMAIN g.files |->
                  LET f == g.files[k]
                  IN  [location |-> f.location, additional |-> f.additional, size |-> f.size,
                       hasChecksum |-> f.checksum # "none",
                       checksum |-> CASE f.checksum = "none"   -> <<>>
                                      [] f.checksum = "file"   -> installer.archive.files[k].checksum
                                      [] f.checksum = "marker" -> installer.marks[k].digest]],
   entries |-> [k \in DOMAIN g.entries |->
                  [installer.archive.entries[k] EXCEPT
                     !.uncompressedSize = g.entries[k].uncompressedSize,
                     !.filter = IF g.entries[k].zlib THEN "zlib" ELSE @]]]

applying == <<galaxy, gpc, gfi, activeStart, remaining, allLanguages, hasLanguageConstraints, applied>>
opened == applied # <<>>

CallsInit ==
  /\ installer \in Installers
  /\ galaxy = Metadata(installer) /\ Gog!Init
  /\ archive = installer.archive /\ Init
  /\ calls = <<>>

\* Open returns when Apply does.
Opening ==
  /\ ~opened
  /\ UNCHANGED installer
  /\ Gog!Next
  /\ archive' = IF applied' = <<>> THEN archive ELSE Extractable(galaxy')
  /\ UNCHANGED <<memoryLimit, verifyOnly, pc, plan, decode, budget, outputs, calls>>

-----------------------------------------------------------------------------
(* Files, Extract and Verify.                                              *)

\* Archive.entry, what Files lists of a file: a size the file does not declare
\* is that of its first data entry, which also says whether it is encrypted.
\* Mutant of entry: the size as it is stored in the chunk.
entryAsStored(f) ==
  LET data == Entry(f.location) IN
  IF ~IsEntry(f.location) THEN [size |-> f.size, encrypted |-> FALSE]
  ELSE [size |-> IF f.size = 0 THEN data.size ELSE f.size, encrypted |-> data.chunk.encrypted]
entry(f) ==
  LET data == Entry(f.location) IN
  IF ~IsEntry(f.location) THEN [size |-> f.size, encrypted |-> FALSE]
  ELSE [size |-> IF f.size = 0 THEN data.uncompressedSize ELSE f.size,
        encrypted |-> data.chunk.encrypted]

\* Archive.extract: Verify hands back the error alone, Extract the files that
\* were decoded as well; an archive-wide error comes before the failures.
Answer ==
  [verify   |-> verifyOnly,
   files    |-> IF verifyOnly THEN <<>> ELSE results,
   err      |-> IF archiveErr # "none" THEN archiveErr
                ELSE IF failures = <<>> THEN "none" ELSE "ExtractError",
   failures |-> failures]

Working == opened /\ Step /\ pc' # "done" /\ UNCHANGED <<installer, applying, calls>>

Answering ==
  /\ opened
  /\ Step /\ pc' = "done"
  /\ calls' = Append(calls, Answer')
  /\ UNCHANGED <<installer, applying>>

\* Mutant of NewBudget: what the last call had reserved stays reserved.
SharedBudget == limit' = 0 /\ UNCHANGED used
NewBudget == limit' = 0 /\ used' = 0

\* The next call begins, with nothing left of the last.
Call(verify) ==
  /\ pc = "done" /\ Len(calls) < MaxCalls
  /\ verifyOnly' = verify
  /\ pc' = "start"
  /\ fi' = 1 /\ li' = 1 /\ gi' = 1 /\ ri' = 1
  /\ total' = 0 /\ dest' = 0
  /\ files' = [i \in DOMAIN archive.files |-> FreshFile]
  /\ groups' = <<>>
  /\ NewBudget
  /\ chunkData' = <<>> /\ dictionary' = 0 /\ segment' = <<>> /\ transient' = 0
  /\ results' = <<>> /\ failures' = <<>> /\ archiveErr' = "none"
  /\ UNCHANGED <<installer, applying, archive, memoryLimit, calls>>

everything == <<installer, applying, vars, calls>>

CallsDone == pc = "done" /\ Len(calls) = MaxCalls /\ UNCHANGED everything

CallsNext == Opening \/ Working \/ Answering \/ (\E verify \in BOOLEAN : Call(verify)) \/ CallsDone

CallsSpec == CallsInit /\ [][CallsNext]_everything

-----------------------------------------------------------------------------
FailedFiles(c) == {c.failures[k].file : k \in DOMAIN c.failures}
Verifies == {c \in DOMAIN calls : calls[c].verify}
Extracts == DOMAIN calls \ Verifies

\* A call does not change what the next one answers: the budget, the verdicts
\* and the buffers are its own.
CallsAreRepeatable ==
  \A c, d \in DOMAIN calls : calls[c].verify = calls[d].verify => calls[c] = calls[d]

\* Verifying finds nothing wrong that extracting would not: it needs no more
\* memory and makes no check that Extract leaves out.
VerifyAcceptsWhatExtracts ==
  \A v \in Verifies, x \in Extracts :
    /\ FailedFiles(calls[v]) \subseteq FailedFiles(calls[x])
    /\ calls[x].err = "none" => calls[v].err = "none"

\* The part j of a Galaxy file, as the installer packed it.
Packed(j) == installer.archive.entries[installer.archive.files[j].location + 1]
Unpacked(j) ==
  [k \in 1..Packed(j).inflated |-> <<"inflated", Packed(j).chunk.id, Packed(j).offset, k>>]

\* All the parts there are of the file that starts at i, one after the other.
Joined(i) ==
  LET upTo[j \in (i - 1)..Gog!LastPart(i)] == IF j < i THEN <<>> ELSE upTo[j - 1] \o Unpacked(j)
  IN  upTo[Gog!LastPart(i)]

\* The markers of the parts tell the truth, and no other part has their data.
Truthful(i) ==
  \A j \in Gog!PartsOf(i) :
    /\ SoundChunk(Packed(j).chunk)
    /\ Packed(j).offset + Packed(j).size <= Packed(j).chunk.length
    /\ Packed(j).inflates /\ Packed(j).intact
    /\ Packed(j).inflated = installer.marks[j].after.size
Unshared(i) ==
  \A j \in Gog!PartsOf(i), s, k \in DOMAIN installer.marks :
    k # j /\ Gog!PartOf(s, k) => Packed(k) # Packed(j)
RightDigest(i) == installer.marks[i].before.md5 => installer.marks[i].digest = Joined(i)

\* What Files lists is what Extract returns: a returned file has the length of
\* its entry, and none is listed as encrypted (Archive.entry and Extract work
\* it out apart).  The length is left open where groups share a data entry: the
\* last of them says how long the entry is, and Apply has added up another
\* length for the others.
ManifestMatchesFiles ==
  \A x \in Extracts : \A k \in DOMAIN calls[x].files :
    LET r == calls[x].files[k]
        f == archive.files[r.file]
    IN /\ ~entry(f).encrypted
       /\ Unshared(r.file) => entry(f).size = Len(r.data)

\* From the markers of the install scripts to the bytes that Extract returns: a
\* Galaxy file is all of its parts in the order of the files, wherever they
\* are stored, and is returned unless memory is short or no uint64 holds its
\* size; one with a part that is not what its marker says, or with a digest of
\* something else (a group that was interrupted), is never returned.  A marker
\* that gives a part no length at all is the exception: what the part inflates
\* to is not compared with it.
GalaxyFilesAreWhole ==
  \A x \in Extracts : calls[x].err \in {"none", "ExtractError"} =>
    \A i \in DOMAIN installer.marks : Gog!PartsOf(i) # {} /\ Unshared(i) =>
      LET returned == {k \in DOMAIN calls[x].files : calls[x].files[k].file = i}
          failed == {k \in DOMAIN calls[x].failures : calls[x].failures[k].file = i}
      IN  IF Truthful(i) /\ RightDigest(i) /\ Total(Gog!Sizes(i)) <= MaxUint
          THEN \/ \E k \in returned : calls[x].files[k].data = Joined(i)
               \/ \E k \in failed : calls[x].failures[k].err = "LimitExceeded"
          ELSE Measured(i) => returned = {}

\* "files without one can be validated from their per-segment checksums alone"
\* (internal/stream/stream.go:299): what Verify accepts can be extracted, given
\* the memory.  The size of the public file is compared with its segments only
\* where they are assembled, so a file that is declared too short and has no
\* public checksum passes Verify and fails Extract.
VerifiedCanBeExtracted ==
  \A v \in Verifies, x \in Extracts :
    calls[v].err = "none" =>
      \A k \in DOMAIN calls[x].failures : calls[x].failures[k].err = "LimitExceeded"

=============================================================================
