------------------------------ MODULE GogApply ------------------------------
(***************************************************************************)
(* gog.Apply (internal/gog/gog.go): what Open does to the parsed archive   *)
(* of a GOG Galaxy installer.  A file that is stored in parts is listed    *)
(* part by part; marker calls in the install scripts say where it begins,  *)
(* of how many parts it is and how long each part is.  Apply joins the     *)
(* parts, so that stream.Extract sees one file with several locations.     *)
(*                                                                         *)
(* An action is one half of an iteration of applyGalaxyParts, the start    *)
(* marker and the part marker of a file, or one iteration of               *)
(* applyGalaxyConstraints.  A marker is given by the arguments             *)
(* parseFunctionCall finds in it.                                          *)
(***************************************************************************)
EXTENDS Sums

CONSTANTS
  Archives,     \* the parsed archives Apply is called on
  Names,        \* file names, and the names of components
  Languages,    \* names of languages and architectures in constraints
  MaxUint,      \* math.MaxUint64
  MaxApplies    \* bound: the calls of Apply on one archive

Uint == 0..MaxUint

\* before_install(md5, name, parts): args counts the arguments there are, 0
\* when there is no such call; malformed numbers are -1.
StartMarker == [args: Nat, md5: BOOLEAN, name: Names \cup {""}, parts: Uint \cup {-1}]

\* after_install(_, _, uncompressed size)
PartMarker == [args: Nat, size: Uint \cup {-1}]

\* check_if_install(languages, architectures), where arch is FALSE when the
\* second argument is missing or empty, or
\* check_if_install_dependency(component).
Constraint == [name: Languages, negated: BOOLEAN]
Check == [call: {"none", "install", "dependency"}, languages: Seq(Constraint), arch: BOOLEAN,
          bits: Seq(Constraint), component: Names \cup {""}]

Checksums == {"none", "file", "marker"}

FileEntry == [destination: Names \cup {""}, size: Uint, checksum: Checksums,
              location: Nat, additional: Seq(Nat),
              before: StartMarker, after: PartMarker, check: Check,
              languages: Seq(Constraint), components: Names \cup {"", "game"},
              bits32: BOOLEAN, bits64: BOOLEAN]

DataEntry == [uncompressedSize: Uint, zlib: BOOLEAN]

\* galaxy: there is a GOG game ID or GOG is the publisher.
Archive == [galaxy: BOOLEAN, files: Seq(FileEntry), entries: Seq(DataEntry),
            languages: SUBSET Languages]

ASSUME GogAssumption ==
  /\ Archives \subseteq Archive
  /\ \A a \in Archives : \A k \in DOMAIN a.files : a.files[k].additional = <<>>
  /\ MaxUint \in Nat \ {0} /\ MaxApplies \in Nat

VARIABLES
  original,      \* the archive as parsed
  archive,       \* the archive
  pc, fi,        \* where Apply is, and at which file
  activeStart, remaining,                 \* the group of parts being joined
  allLanguages, hasLanguageConstraints,
  applied        \* the archive after each call of Apply

locals == <<activeStart, remaining, allLanguages, hasLanguageConstraints>>
vars == <<original, archive, pc, fi, locals, applied>>

TypeOK ==
  /\ original \in Archive
  /\ archive \in Archive
  /\ pc \in {"idle", "start", "part", "constraint", "languages"}
  /\ fi \in Nat \ {0}
  /\ activeStart \in 0..Len(archive.files) /\ remaining \in Uint
  /\ allLanguages \subseteq Languages /\ hasLanguageConstraints \in BOOLEAN
  /\ applied \in Seq(Archive)

Init ==
  /\ original \in Archives /\ archive = original
  /\ pc = "idle" /\ fi = 1
  /\ activeStart = 0 /\ remaining = 0
  /\ allLanguages = {} /\ hasLanguageConstraints = FALSE
  /\ applied = <<>>

-----------------------------------------------------------------------------
file == archive.files[fi]
MoreFiles == fi <= Len(archive.files)
IsEntry(l) == l < Len(archive.entries)
OneOf(seq) == {seq[k] : k \in DOMAIN seq}

hasGalaxyMarkers ==
  \E i \in DOMAIN archive.files : archive.files[i].before.args > 0 \/ archive.files[i].after.args > 0

Begin ==
  /\ pc = "idle" /\ Len(applied) < MaxApplies
  /\ archive.galaxy \/ hasGalaxyMarkers
  /\ activeStart' = 0 /\ remaining' = 0
  /\ allLanguages' = {} /\ hasLanguageConstraints' = FALSE
  /\ fi' = 1
  /\ pc' = "start"
  /\ UNCHANGED <<original, archive, applied>>

LeaveAlone ==
  /\ pc = "idle" /\ Len(applied) < MaxApplies
  /\ ~archive.galaxy /\ ~hasGalaxyMarkers
  /\ applied' = Append(applied, archive)
  /\ UNCHANGED <<original, archive, pc, fi, locals>>

-----------------------------------------------------------------------------
(* applyGalaxyParts: the start marker.                                     *)

Parts(start) == IF start.args < 3 \/ start.parts = 0 THEN 1
                ELSE IF start.parts = -1 THEN 0
                ELSE start.parts

\* Mutant of Started: the size the file had is added to.
StartedFromSize(f) ==
  [f EXCEPT !.destination = IF f.before.args >= 2 /\ f.before.name # "" THEN f.before.name ELSE @,
            !.checksum = IF f.before.md5 THEN "marker" ELSE "none"]
Started(f) ==
  [f EXCEPT !.destination = IF f.before.args >= 2 /\ f.before.name # "" THEN f.before.name ELSE @,
            !.checksum = IF f.before.md5 THEN "marker" ELSE "none",
            !.size = 0]

\* A new start abandons an incomplete group.
StartGroup ==
  /\ pc = "start" /\ MoreFiles
  /\ file.before.args > 0
  /\ archive' = [archive EXCEPT !.files[fi] = Started(@)]
  /\ remaining' = Parts(file.before)
  /\ activeStart' = IF Parts(file.before) = 0 THEN 0 ELSE fi
  /\ pc' = "part"
  /\ UNCHANGED <<original, fi, allLanguages, hasLanguageConstraints, applied>>

NoStart ==
  /\ pc = "start" /\ MoreFiles
  /\ file.before.args = 0
  /\ pc' = "part"
  /\ UNCHANGED <<original, archive, fi, locals, applied>>

-----------------------------------------------------------------------------
(* applyGalaxyParts: the part marker.                                      *)

NamedPositively(check) ==    \* mutant of Named: a negated name is not one
  IF check.call = "install" THEN {c.name : c \in {c \in OneOf(check.languages) : ~c.negated}} ELSE {}
Named(check) ==
  IF check.call = "install" THEN {c.name : c \in OneOf(check.languages)} ELSE {}

\* What ends every iteration: a file that keeps a name is asked for languages.
FileDone ==
  LET f == archive'.files[fi]
  IN  /\ allLanguages' = allLanguages \cup IF f.destination # "" THEN Named(f.check) ELSE {}
      /\ hasLanguageConstraints' = (hasLanguageConstraints \/ f.languages # <<>>)
      /\ fi' = fi + 1
      /\ pc' = "start"
      /\ UNCHANGED <<original, applied>>

Abandon == activeStart' = 0 /\ remaining' = 0

\* Mutant of GoodPart: a group takes more parts than it announced.
GoodPartBeyond ==
  activeStart > 0 /\ IsEntry(file.location) /\ file.after.args >= 3 /\ file.after.size # -1
GoodPart ==
  /\ activeStart > 0 /\ remaining # 0
  /\ IsEntry(file.location)
  /\ file.after.args >= 3 /\ file.after.size # -1

Grown(size, n) == (size + n) % (MaxUint + 1)

ContainsNothing(locations, l) == FALSE    \* mutant of containsLocation
containsLocation(locations, l) == l \in OneOf(locations)

\* A part of the group: its data entry is a zlib stream of the length the
\* marker says, and its location goes to the file that started the group.
TakePart ==
  /\ pc = "part"
  /\ file.after.args > 0 /\ GoodPart
  /\ remaining' = (remaining - 1) % (MaxUint + 1)
  /\ LET grown == [archive EXCEPT
                     !.entries[file.location + 1] = [uncompressedSize |-> file.after.size, zlib |-> TRUE],
                     !.files[activeStart].size = Grown(@, file.after.size)]
         joined == [grown EXCEPT
                     !.files[fi].destination = "",
                     !.files[activeStart].additional =
                       IF containsLocation(@, file.location) THEN @ ELSE Append(@, file.location)]
     IN  archive' = IF fi = activeStart THEN grown ELSE joined
  /\ UNCHANGED activeStart
  /\ FileDone

RejectPart ==
  /\ pc = "part"
  /\ file.after.args > 0 /\ ~GoodPart
  /\ Abandon
  /\ UNCHANGED archive
  /\ FileDone

\* A file that is no part ends the group it is in.
EndsGroupAsStart == file.before.args > 0    \* mutant of EndsGroup: a bare file is passed over
EndsGroup == file.before.args > 0 \/ remaining # 0

InterruptGroup ==
  /\ pc = "part"
  /\ file.after.args = 0
  /\ EndsGroup
  /\ Abandon
  /\ UNCHANGED archive
  /\ FileDone

PassFile ==
  /\ pc = "part"
  /\ file.after.args = 0 /\ ~EndsGroup
  /\ UNCHANGED <<archive, activeStart, remaining>>
  /\ FileDone

EndParts ==
  /\ pc = "start" /\ ~MoreFiles
  /\ fi' = 1
  /\ pc' = "constraint"
  /\ UNCHANGED <<original, archive, locals, applied>>

-----------------------------------------------------------------------------
(* applyGalaxyConstraints.                                                 *)

isAllLanguages(constraints, all) ==
  /\ \E x, y \in all : x # y
  /\ \A name \in all :
       \E k \in DOMAIN constraints : constraints[k] = [name |-> name, negated |-> FALSE]

\* Whether the constraints leave one architecture, and which.
Other(arch) == IF arch = "32" THEN "64" ELSE "32"
Positive(constraints, arch) ==
  \/ [name |-> arch, negated |-> FALSE] \in OneOf(constraints)
  \/ constraints = <<[name |-> Other(arch), negated |-> TRUE]>>
architectureBits(constraints) ==
  [b \in {"32", "64"} |-> Positive(constraints, b) /\ ~Positive(constraints, Other(b))]

Constrained(f, all) ==
  LET c == f.check
  IN  CASE c.call = "none" -> f
        [] c.call = "install" ->
             [f EXCEPT !.languages = IF c.languages # <<>> /\ ~isAllLanguages(c.languages, all)
                                     THEN c.languages ELSE @,
                       !.bits32 = IF c.arch THEN architectureBits(c.bits)["32"] ELSE @,
                       !.bits64 = IF c.arch THEN architectureBits(c.bits)["64"] ELSE @,
                       !.components = IF @ = "" THEN "game" ELSE @]
        [] c.call = "dependency" ->
             [f EXCEPT !.components = IF @ = "" THEN c.component ELSE @]

ConstrainFile ==
  /\ pc = "constraint" /\ MoreFiles
  /\ archive' = IF file.destination = "" THEN archive
                ELSE [archive EXCEPT !.files[fi] = Constrained(@, allLanguages)]
  /\ fi' = fi + 1
  /\ UNCHANGED <<original, pc, locals, applied>>

EndConstraints ==
  /\ pc = "constraint" /\ ~MoreFiles
  /\ pc' = "languages"
  /\ UNCHANGED <<original, archive, fi, locals, applied>>

\* The languages of the markers replace those of the setup unless a file was
\* constrained to languages before.
MergeLanguages ==
  /\ pc = "languages"
  /\ archive' = [archive EXCEPT !.languages =
                   IF allLanguages = {} THEN @
                   ELSE IF hasLanguageConstraints THEN @ \cup allLanguages
                   ELSE allLanguages]
  /\ applied' = Append(applied, archive')
  /\ pc' = "idle"
  /\ UNCHANGED <<original, fi, locals>>

Done == pc = "idle" /\ Len(applied) = MaxApplies /\ UNCHANGED vars

Next ==
  \/ Begin \/ LeaveAlone
  \/ StartGroup \/ NoStart
  \/ TakePart \/ RejectPart \/ InterruptGroup \/ PassFile \/ EndParts
  \/ ConstrainFile \/ EndConstraints \/ MergeLanguages
  \/ Done

Spec == Init /\ [][Next]_vars

-----------------------------------------------------------------------------
(* The groups of an archive, stated without the steps.                     *)

files0 == original.files
ValidPart(j) == /\ files0[j].after.args >= 3 /\ files0[j].after.size # -1
                /\ files0[j].location < Len(original.entries)

\* File j is a part of the file that starts at i.
PartOf(i, j) ==
  /\ i <= j
  /\ files0[i].before.args > 0
  /\ j - i < Parts(files0[i].before)
  /\ \A k \in i..j : ValidPart(k)
  /\ \A k \in (i + 1)..j : files0[k].before.args = 0

PartsOf(i) == {j \in DOMAIN files0 : PartOf(i, j)}

\* The parts of a group lie next to each other, from its start on.
LastPart(i) == CHOOSE j \in PartsOf(i) : \A k \in PartsOf(i) : k <= j

Sizes(i) == [k \in 1..(LastPart(i) - i + 1) |-> files0[i + k - 1].after.size]
Size(i) == Total(Sizes(i)) % (MaxUint + 1)

Applied == pc = "idle" /\ applied # <<>>
Locations(f) == <<f.location>> \o f.additional

-----------------------------------------------------------------------------
(* Properties.                                                             *)

\* Between two files, what is carried from one to the next is what the markers
\* say: parts are still to come exactly where the files up to here are parts
\* of a group and fewer than it announced, activeStart is then its start,
\* remaining the number to come, and its size what has been taken.  A file
\* that is passed over while a group is open, or a marker that is counted
\* twice, would break this before it shows in the files (applyGalaxyParts).
CountdownFollowsGroup ==
  pc = "start" =>
    LET Taken(s) == fi - s
        Open(s) == PartOf(s, fi - 1) /\ Taken(s) < Parts(files0[s].before)
    IN  /\ \A s \in 1..(fi - 1) : Open(s) => activeStart = s /\ remaining # 0
        /\ activeStart # 0 /\ remaining # 0 =>
             /\ Open(activeStart)
             /\ remaining = Parts(files0[activeStart].before) - Taken(activeStart)
             /\ archive.files[activeStart].size =
                  Sums(Sizes(activeStart))[Taken(activeStart)] % (MaxUint + 1)

\* The one pass over the files, with its open group and its countdown, joins
\* exactly the parts that belong together, whatever groups are incomplete,
\* interrupted or malformed around them: a file without a name is a part of
\* one start, a start has the size of its parts and each of their locations
\* once, and any other file keeps its size, its name and its one location.
PartsJoinTheirStart ==
  Applied =>
    \A i \in DOMAIN files0 :
      LET f == archive.files[i]
          joined == {j \in PartsOf(i) : j # i}
      IN  /\ OneOf(f.additional) = {files0[j].location : j \in joined}
          /\ \A k, l \in DOMAIN f.additional : f.additional[k] = f.additional[l] => k = l
          /\ IF PartsOf(i) # {} THEN f.size = Size(i)
             ELSE f.size = IF files0[i].before.args > 0 THEN 0 ELSE files0[i].size
          /\ (\E s \in DOMAIN files0 : s # i /\ PartOf(s, i)) => f.destination = ""
          /\ f.destination = "" =>
               files0[i].destination = "" \/ \E s \in DOMAIN files0 : s # i /\ PartOf(s, i)

\* What stream.Extract adds up for a joined file is the size it is given: the
\* lengths of the data entries at its locations.  Parts that share a data
\* entry are left out: the last of them decides the entry's length, and the
\* size counts each of them while the locations name the entry once.
SizeIsSumOfParts ==
  Applied =>
    \A i \in DOMAIN files0 :
      LET locations == Locations(archive.files[i])
          lengths == [k \in 1..Len(locations) |-> archive.entries[locations[k] + 1].uncompressedSize]
          shared == \E j \in PartsOf(i), s, k \in DOMAIN files0 :
                      k # j /\ PartOf(s, k) /\ files0[k].location = files0[j].location
      IN  PartsOf(i) # {} /\ ~shared =>
            archive.files[i].size = Total(lengths) % (MaxUint + 1)

\* A data entry becomes a zlib stream when a part lies in it and stays as it
\* was parsed otherwise.
OnlyPartsAreInflated ==
  Applied =>
    \A l \in DOMAIN archive.entries :
      IF \E s, j \in DOMAIN files0 : PartOf(s, j) /\ files0[j].location = l - 1
      THEN archive.entries[l].zlib
      ELSE archive.entries[l] = original.entries[l]

\* "Reapplying is harmless for callers that run post-processing defensively"
\* (internal/gog/gog_test.go:95): the second call finds the names, locations
\* and constraints the first has left, and changes nothing.
ReapplyingIsHarmless ==
  Applied => \A k \in DOMAIN applied : applied[k] = applied[1]

\* A file that Apply constrains to languages names languages of the archive
\* only, although the constraints are read after the parts have taken the
\* names of some files away and the languages of the setup may be dropped.
ConstraintsNameLanguages ==
  Applied =>
    \A i \in DOMAIN files0 :
      archive.files[i].languages # files0[i].languages =>
        {c.name : c \in OneOf(archive.files[i].languages)} \subseteq archive.languages

-----------------------------------------------------------------------------
(* What the documentation says and the code does not do.                   *)

\* "Malformed markers are ignored because this API has no logging or error
\* channel" (internal/gog/gog.go:40).  A start marker whose part count is no
\* number starts no group, but the name, the size and the checksum of its
\* file are gone all the same.
MalformedMarkersAreIgnored ==
  Applied =>
    \A i \in DOMAIN files0 :
      files0[i].before.args >= 3 /\ files0[i].before.parts = -1 =>
        /\ archive.files[i].size = files0[i].size
        /\ archive.files[i].checksum = files0[i].checksum

=============================================================================
