--------------------------- MODULE GogApplyProofs ---------------------------
(***************************************************************************)
(* Apply joins exactly the parts that belong together, names languages of  *)
(* the archive only and changes nothing when it is called again, whatever  *)
(* markers the files of an archive carry and in whatever order.            *)
(***************************************************************************)
EXTENDS GogApply, DataInduction

-----------------------------------------------------------------------------
(* What has been done.                                                     *)

Active == original.galaxy \/ \E i \in DOMAIN files0 : files0[i].before.args > 0 \/ files0[i].after.args > 0
Again == applied # <<>>

\* The files whose start marker, and whose part marker, this call has passed.
begun == IF pc = "start" THEN fi - 1
         ELSE IF pc = "part" THEN fi
         ELSE IF pc = "idle" /\ ~Again THEN 0 ELSE Len(files0)
passed == IF pc \in {"start", "part"} THEN fi - 1
          ELSE IF pc = "idle" /\ ~Again THEN 0 ELSE Len(files0)
constrained == IF pc = "constraint" THEN fi - 1
               ELSE IF pc = "languages" THEN Len(files0) ELSE 0

IsStart(i) == files0[i].before.args > 0
HasName(i) == files0[i].before.args >= 2 /\ files0[i].before.name # ""
IsPart(i) == \E s \in DOMAIN files0 : s # i /\ PartOf(s, i)
InEntry(j, l) == files0[j].location = l - 1 /\ \E s \in DOMAIN files0 : PartOf(s, j)

\* Files with the same markers, the same constraints, and that differ in size
\* at most.
SameMarkers(f, g) ==
  /\ f.location = g.location /\ f.before = g.before /\ f.after = g.after /\ f.check = g.check
SameConstraints(f, g) ==
  /\ f.languages = g.languages /\ f.components = g.components
  /\ f.bits32 = g.bits32 /\ f.bits64 = g.bits64
SameButSize(f, g) ==
  /\ SameMarkers(f, g) /\ SameConstraints(f, g)
  /\ f.destination = g.destination /\ f.checksum = g.checksum /\ f.additional = g.additional

-----------------------------------------------------------------------------
(* The inductive invariant.                                                *)

\* What no step changes, and where Apply can be.
Fixed ==
  /\ original \in Archives
  /\ Len(archive.files) = Len(files0) /\ Len(archive.entries) = Len(original.entries)
  /\ archive.galaxy = original.galaxy
  /\ \A i \in DOMAIN files0 : SameMarkers(archive.files[i], files0[i])

Positions ==
  /\ pc = "part" => fi <= Len(files0)
  /\ pc \in {"start", "constraint"} => fi <= Len(files0) + 1
  /\ Active \/ (pc = "idle" /\ archive = original /\ \A k \in DOMAIN applied : applied[k] = original)

\* The open group is the group of the file before, and what remains of it.
Left(s) == Parts(files0[s].before) - (fi - s)
GroupKept ==
  /\ pc = "part" /\ IsStart(fi) =>
       /\ remaining = Parts(files0[fi].before)
       /\ activeStart = IF remaining = 0 THEN 0 ELSE fi
  /\ pc = "start" \/ (pc = "part" /\ ~IsStart(fi)) =>
       /\ activeStart > 0 /\ remaining # 0 =>
            PartOf(activeStart, fi - 1) /\ remaining = Left(activeStart)
       /\ \A s \in DOMAIN files0 :
            PartOf(s, fi - 1) /\ Left(s) > 0 => activeStart = s /\ remaining = Left(s)

NamesKept ==
  \A i \in DOMAIN files0 :
    archive.files[i].destination =
      IF (Again \/ i <= passed) /\ IsPart(i) THEN ""
      ELSE IF (Again \/ i <= begun) /\ HasName(i) THEN files0[i].before.name
      ELSE files0[i].destination

ChecksumsKept ==
  \A i \in DOMAIN files0 :
    archive.files[i].checksum =
      IF (Again \/ i <= begun) /\ IsStart(i) THEN IF files0[i].before.md5 THEN "marker" ELSE "none"
      ELSE files0[i].checksum

\* The size of a file, or of the parts up to file m that have been joined to it.
SizeUpTo(size, i, m) ==
  IF ~IsStart(i) THEN size = files0[i].size
  ELSE /\ ~PartOf(i, i) \/ m < i => size = 0
       /\ \A j \in i..m : PartOf(i, j) /\ (j = m \/ ~PartOf(i, j + 1)) =>
            size = Sums(Sizes(i))[j - i + 1] % (MaxUint + 1)
SizesKept ==
  \A i \in DOMAIN files0 :
    IF i <= begun THEN SizeUpTo(archive.files[i].size, i, passed)
    ELSE IF Again THEN SizeUpTo(archive.files[i].size, i, Len(files0))
    ELSE archive.files[i].size = files0[i].size

Joined(i) == {j \in PartsOf(i) : j # i /\ (Again \/ j <= passed)}
Shared(i) == \E j \in PartsOf(i), s, k \in DOMAIN files0 :
               k # j /\ PartOf(s, k) /\ files0[k].location = files0[j].location
LocationsKept ==
  \A i \in DOMAIN files0 :
    LET additional == archive.files[i].additional
    IN  /\ OneOf(additional) = {files0[j].location : j \in Joined(i)}
        /\ \A k, l \in DOMAIN additional : additional[k] = additional[l] => k = l
        /\ ~Shared(i) =>
             /\ \A j \in Joined(i) : j - i \in DOMAIN additional
             /\ \A k \in DOMAIN additional :
                  i + k \in Joined(i) /\ additional[k] = files0[i + k].location

\* The last part up to file m that lies in a data entry decides it.
EntryUpTo(e, l, m) ==
  /\ (\A j \in 1..m : ~InEntry(j, l)) => e = original.entries[l]
  /\ \A j \in 1..m :
       InEntry(j, l) /\ (\A k \in (j + 1)..m : ~InEntry(k, l)) =>
         e = [uncompressedSize |-> files0[j].after.size, zlib |-> TRUE]
EntriesKept ==
  \A l \in DOMAIN original.entries :
    EntryUpTo(archive.entries[l], l,
              IF Again /\ \A j \in 1..passed : ~InEntry(j, l) THEN Len(files0) ELSE passed)

-----------------------------------------------------------------------------
(* Constraints.                                                            *)

KeepsName(i) == ~IsPart(i) /\ (HasName(i) \/ files0[i].destination # "")
NamedUpTo(m) == UNION {Named(files0[i].check) : i \in {i \in DOMAIN files0 : i <= m /\ KeepsName(i)}}
AllNamed == NamedUpTo(Len(files0))

\* What the constraints make of a file.
Constrains(i) == KeepsName(i) /\ (i <= constrained \/ (Again /\ Active))
ConstraintsKept ==
  \A i \in DOMAIN files0 :
    SameConstraints(archive.files[i],
                    IF Constrains(i) THEN Constrained(files0[i], AllNamed) ELSE files0[i])

HadLanguages == \E i \in DOMAIN files0 : files0[i].languages # <<>>
NamesCollected ==
  pc # "idle" =>
    /\ allLanguages = NamedUpTo(passed)
    /\ \A i \in DOMAIN files0 : i <= passed /\ files0[i].languages # <<>> => hasLanguageConstraints
    /\ hasLanguageConstraints => HadLanguages \/ Again

LanguagesKept ==
  archive.languages =
    IF ~Again \/ ~Active \/ AllNamed = {} THEN original.languages
    ELSE IF HadLanguages THEN original.languages \cup AllNamed
    ELSE AllNamed

\* Every call has left what the first one left, and the call at work differs
\* from it only in what it is about to compute again.
SameAgain ==
  Again =>
    LET first == applied[1]
    IN  /\ \A k \in DOMAIN applied : applied[k] = first
        /\ pc = "idle" => archive = first
        /\ first.galaxy = archive.galaxy /\ first.languages = archive.languages
        /\ Len(first.files) = Len(files0) /\ Len(first.entries) = Len(original.entries)
        /\ \A i \in DOMAIN files0 :
             /\ SameButSize(first.files[i], archive.files[i])
             /\ SizeUpTo(first.files[i].size, i, Len(files0))
        /\ \A l \in DOMAIN original.entries : EntryUpTo(first.entries[l], l, Len(files0))

GInv ==
  /\ TypeOK /\ Fixed /\ Positions /\ GroupKept
  /\ NamesKept /\ ChecksumsKept /\ SizesKept /\ LocationsKept /\ EntriesKept
  /\ ConstraintsKept /\ NamesCollected /\ LanguagesKept /\ SameAgain

-----------------------------------------------------------------------------
(* The archive as parsed stays what it is.                                 *)

LEMMA Frozen ==
  ASSUME original' = original
  PROVE  /\ files0' = files0
         /\ \A i, j : PartOf(i, j)' <=> PartOf(i, j)
         /\ \A i : PartsOf(i)' = PartsOf(i)
         /\ \A i : Sizes(i)' = Sizes(i)
         /\ \A i : IsStart(i)' <=> IsStart(i)
         /\ \A i : HasName(i)' <=> HasName(i)
         /\ \A i : IsPart(i)' <=> IsPart(i)
         /\ \A i : Shared(i)' <=> Shared(i)
         /\ \A j, l : InEntry(j, l)' <=> InEntry(j, l)
         /\ \A x, i, m : SizeUpTo(x, i, m)' <=> SizeUpTo(x, i, m)
         /\ \A e, l, m : EntryUpTo(e, l, m)' <=> EntryUpTo(e, l, m)
         /\ \A i : KeepsName(i)' <=> KeepsName(i)
         /\ \A m : NamedUpTo(m)' = NamedUpTo(m)
         /\ AllNamed' = AllNamed
         /\ HadLanguages' <=> HadLanguages
         /\ Active' <=> Active
<1>1. files0' = files0
  BY DEF files0
<1>2. \A i, j : PartOf(i, j)' <=> PartOf(i, j)
  BY <1>1 DEF PartOf, ValidPart
<1>3. \A i : PartsOf(i)' = PartsOf(i)
  BY <1>1, <1>2 DEF PartsOf
<1>4. \A i : Sizes(i)' = Sizes(i)
  BY <1>1, <1>3 DEF Sizes, LastPart
<1>5. /\ \A i : IsStart(i)' <=> IsStart(i)
      /\ \A i : HasName(i)' <=> HasName(i)
  BY <1>1 DEF IsStart, HasName
<1>6. \A i : IsPart(i)' <=> IsPart(i)
  BY <1>1, <1>2 DEF IsPart
<1>7. \A i : Shared(i)' <=> Shared(i)
  BY <1>1, <1>2, <1>3 DEF Shared
<1>8. \A j, l : InEntry(j, l)' <=> InEntry(j, l)
  BY <1>1, <1>2 DEF InEntry
<1>9. \A i : KeepsName(i)' <=> KeepsName(i)
  BY <1>1, <1>5, <1>6 DEF KeepsName
<1>10. \A m : NamedUpTo(m)' = NamedUpTo(m)
  BY <1>1, <1>9 DEF NamedUpTo
<1>11. AllNamed' = AllNamed
  BY <1>1, <1>10 DEF AllNamed
<1>12. (HadLanguages' <=> HadLanguages) /\ (Active' <=> Active)
  BY <1>1 DEF HadLanguages, Active
<1>13. \A x, i, m : SizeUpTo(x, i, m)' <=> SizeUpTo(x, i, m)
  BY <1>1, <1>2, <1>4, <1>5 DEF SizeUpTo
<1>14. \A e, l, m : EntryUpTo(e, l, m)' <=> EntryUpTo(e, l, m)
  BY <1>1, <1>8 DEF EntryUpTo
<1> QED BY <1>1, <1>2, <1>3, <1>4, <1>5, <1>6, <1>7, <1>8, <1>9, <1>10, <1>11, <1>12, <1>13, <1>14

\* The fields of the files as parsed.
LEMMA FileTypes ==
  ASSUME TypeOK
  PROVE  /\ Len(files0) \in Nat /\ DOMAIN files0 = 1..Len(files0)
         /\ Len(original.entries) \in Nat /\ DOMAIN original.entries = 1..Len(original.entries)
         /\ \A i \in DOMAIN files0 :
              /\ files0[i] \in FileEntry
              /\ files0[i].location \in Nat /\ files0[i].size \in Uint
              /\ files0[i].before.args \in Nat /\ files0[i].after.args \in Nat
              /\ files0[i].after.size \in Uint \cup {-1}
              /\ Parts(files0[i].before) \in Uint
<1>1. original.files \in Seq(FileEntry) /\ original.entries \in Seq(DataEntry)
  BY DEF TypeOK, Archive
<1>2. ASSUME NEW i \in DOMAIN files0
      PROVE  /\ files0[i] \in FileEntry
             /\ files0[i].location \in Nat /\ files0[i].size \in Uint
             /\ files0[i].before \in StartMarker /\ files0[i].after \in PartMarker
  <2>1. files0 \in Seq(FileEntry)
    BY <1>1 DEF files0
  <2>2. files0[i] \in FileEntry
    BY <2>1
  <2> HIDE DEF files0
  <2> QED BY <2>2 DEF FileEntry
<1>3. ASSUME NEW i \in DOMAIN files0 PROVE Parts(files0[i].before) \in Uint
  <2>1. files0[i].before.parts \in Uint \cup {-1}
    BY <1>2 DEF StartMarker
  <2>2. 0 \in Uint /\ 1 \in Uint
    BY GogAssumption DEF Uint
  <2> QED BY <2>1, <2>2 DEF Parts
<1>4. /\ Len(files0) \in Nat /\ DOMAIN files0 = 1..Len(files0)
      /\ Len(original.entries) \in Nat /\ DOMAIN original.entries = 1..Len(original.entries)
  BY <1>1 DEF files0
<1> QED BY <1>2, <1>3, <1>4 DEF StartMarker, PartMarker

-----------------------------------------------------------------------------
(* Groups.                                                                 *)

\* The files of a group lie next to each other, and a file is in one group.
LEMMA PartFacts ==
  ASSUME TypeOK, NEW i \in DOMAIN files0, NEW j \in DOMAIN files0, PartOf(i, j)
  PROVE  /\ i <= j /\ IsStart(i) /\ j - i < Parts(files0[i].before)
         /\ files0[j].after.size \in Uint /\ files0[j].after.args >= 3
         /\ files0[j].location < Len(original.entries)
         /\ i # j => ~IsStart(j)
         /\ \A k \in i..j : PartOf(i, k)
<1>1. i \in Nat /\ j \in Nat /\ DOMAIN files0 = 1..Len(files0)
  BY FileTypes
<1>2. i <= j /\ IsStart(i) /\ j - i < Parts(files0[i].before)
  BY DEF PartOf, IsStart
<1>3. j \in i..j /\ (i # j => j \in (i + 1)..j)
  BY <1>1, <1>2
<1>4. ValidPart(j)
  BY <1>3 DEF PartOf
<1>5. files0[j].after.size \in Uint /\ files0[j].after.args >= 3 /\ files0[j].location < Len(original.entries)
  BY <1>4, FileTypes DEF ValidPart
<1>6. i # j => ~IsStart(j)
  <2>1. i # j => files0[j].before.args = 0
    BY <1>3 DEF PartOf
  <2> QED BY <2>1 DEF IsStart
<1>7. ASSUME NEW k \in i..j PROVE PartOf(i, k)
  <2>1. PICK p \in Nat : p = Parts(files0[i].before)
    BY FileTypes DEF Uint
  <2>2. i <= k /\ k - i < p
    BY <1>1, <1>2, <2>1
  <2>3. \A m \in i..k : m \in i..j
    BY <1>1
  <2>4. \A m \in (i + 1)..k : m \in (i + 1)..j
    BY <1>1
  <2> QED BY <2>1, <2>2, <2>3, <2>4 DEF PartOf
<1> QED BY <1>2, <1>5, <1>6, <1>7

LEMMA OneStart ==
  ASSUME TypeOK, NEW i \in DOMAIN files0, NEW k \in DOMAIN files0, NEW j \in DOMAIN files0,
         PartOf(i, j), PartOf(k, j)
  PROVE  i = k
<1>1. i \in Nat /\ k \in Nat /\ j \in Nat /\ i <= j /\ k <= j
  BY FileTypes, PartFacts
<1>2. IsStart(i) /\ IsStart(k)
  BY PartFacts
<1>3. CASE i < k
  <2>1. k \in (i + 1)..j
    BY <1>1, <1>3
  <2>2. files0[k].before.args = 0
    BY <2>1 DEF PartOf
  <2> QED BY <1>2, <2>2 DEF IsStart
<1>4. CASE k < i
  <2>1. i \in (k + 1)..j
    BY <1>1, <1>4
  <2>2. files0[i].before.args = 0
    BY <2>1 DEF PartOf
  <2> QED BY <1>2, <2>2 DEF IsStart
<1> QED BY <1>1, <1>3, <1>4

\* A start is a part of its own group only.
LEMMA StartsAreNoParts ==
  ASSUME TypeOK, NEW i \in DOMAIN files0, IsStart(i)
  PROVE  ~IsPart(i)
BY PartFacts DEF IsPart

\* A group begins at its start, and goes on with a file that is no start.
LEMMA FirstPart ==
  ASSUME TypeOK, NEW i \in DOMAIN files0
  PROVE  PartOf(i, i) <=> IsStart(i) /\ Parts(files0[i].before) # 0 /\ ValidPart(i)
<1>1. i \in Nat /\ Parts(files0[i].before) \in Nat
  BY FileTypes DEF Uint
<1>2. i..i = {i} /\ (i + 1)..i = {} /\ i - i = 0
  BY <1>1
<1> QED BY <1>1, <1>2 DEF PartOf, IsStart

LEMMA NextPart ==
  ASSUME TypeOK, NEW i \in DOMAIN files0, NEW j \in DOMAIN files0, j + 1 \in DOMAIN files0, i <= j
  PROVE  PartOf(i, j + 1) <=> /\ PartOf(i, j) /\ ~IsStart(j + 1) /\ ValidPart(j + 1)
                              /\ (j + 1) - i < Parts(files0[i].before)
<1>1. i \in Nat /\ j \in Nat
  BY FileTypes
<1>2. files0[j + 1].before.args \in Nat
  BY FileTypes
<1>3. ASSUME PartOf(i, j + 1)
      PROVE  /\ PartOf(i, j) /\ ~IsStart(j + 1) /\ ValidPart(j + 1)
             /\ (j + 1) - i < Parts(files0[i].before)
  <2>1. j \in i..(j + 1) /\ j + 1 \in i..(j + 1) /\ i # j + 1
    BY <1>1
  <2>2. ValidPart(j + 1)
    BY <1>3, <2>1 DEF PartOf
  <2> QED BY <1>3, <2>1, <2>2, PartFacts
<1>4. ASSUME PartOf(i, j), ~IsStart(j + 1), ValidPart(j + 1), (j + 1) - i < Parts(files0[i].before)
      PROVE  PartOf(i, j + 1)
  <2>1. i <= j + 1 /\ i..(j + 1) = (i..j) \cup {j + 1} /\ (i + 1)..(j + 1) = ((i + 1)..j) \cup {j + 1}
    BY <1>1
  <2>2. files0[j + 1].before.args = 0
    BY <1>2, <1>4 DEF IsStart
  <2>3. \A k \in i..(j + 1) : ValidPart(k)
    BY <1>4, <2>1 DEF PartOf
  <2>4. \A k \in (i + 1)..(j + 1) : files0[k].before.args = 0
    BY <1>4, <2>1, <2>2 DEF PartOf
  <2> QED BY <1>4, <2>1, <2>3, <2>4 DEF PartOf
<1> QED BY <1>3, <1>4

\* A set of files that is not empty has a last one.
LEMMA LastOfSet ==
  ASSUME NEW n \in Nat, NEW T, T \subseteq 0..n, T # {}
  PROVE  \E m \in T : \A k \in T : k <= m
<1> DEFINE S == {n - k : k \in T}
<1>1. S \subseteq Nat /\ S # {}
  <2>1. \A k \in T : n - k \in Nat
    OBVIOUS
  <2>2. PICK k : k \in T
    OBVIOUS
  <2>3. n - k \in S
    BY <2>2
  <2> QED BY <2>1, <2>3
<1>2. PICK x \in S : \A y \in S : x <= y
  <2> HIDE DEF S
  <2> QED BY <1>1, LeastNatural
<1>3. PICK m \in T : x = n - m
  BY <1>2
<1>4. ASSUME NEW k \in T PROVE k <= m
  <2>1. x <= n - k
    BY <1>2
  <2> QED BY <1>3, <2>1
<1> QED BY <1>4

LEMMA GroupIsInterval ==
  ASSUME TypeOK, NEW i \in DOMAIN files0, PartsOf(i) # {}
  PROVE  /\ LastPart(i) \in DOMAIN files0 /\ i <= LastPart(i)
         /\ PartsOf(i) = i..LastPart(i)
         /\ ~(LastPart(i) + 1 \in DOMAIN files0 /\ PartOf(i, LastPart(i) + 1))
<1> DEFINE last == LastPart(i)
<1>1. Len(files0) \in Nat /\ DOMAIN files0 = 1..Len(files0)
  BY FileTypes
<1>2. PartsOf(i) \subseteq 0..Len(files0)
  BY <1>1 DEF PartsOf
<1>3. \E j \in PartsOf(i) : \A k \in PartsOf(i) : k <= j
  BY <1>1, <1>2, LastOfSet
<1>4. last \in PartsOf(i) /\ \A k \in PartsOf(i) : k <= last
  BY <1>3 DEF LastPart
<1> HIDE DEF last
<1>5. last \in DOMAIN files0 /\ PartOf(i, last) /\ i <= last
  BY <1>4, PartFacts DEF PartsOf
<1>6. \A k \in i..last : PartOf(i, k) /\ k \in DOMAIN files0
  BY <1>1, <1>5, PartFacts
<1>7. PartsOf(i) = i..last
  <2>1. ASSUME NEW k \in PartsOf(i) PROVE k \in i..last
    <3>1. k \in DOMAIN files0 /\ PartOf(i, k)
      BY DEF PartsOf
    <3>2. i <= k /\ k <= last
      BY <1>4, <3>1, PartFacts
    <3> QED BY <1>1, <1>5, <3>1, <3>2
  <2> QED BY <1>6, <2>1 DEF PartsOf
<1>8. ~(last + 1 \in DOMAIN files0 /\ PartOf(i, last + 1))
  <2> SUFFICES ASSUME last + 1 \in DOMAIN files0, PartOf(i, last + 1) PROVE FALSE
    OBVIOUS
  <2>1. last + 1 \in PartsOf(i)
    BY DEF PartsOf
  <2> QED BY <1>1, <1>4, <1>5, <2>1
<1> QED BY <1>5, <1>7, <1>8 DEF last

\* The sizes of the parts of a group.
LEMMA SizesType ==
  ASSUME TypeOK, NEW i \in DOMAIN files0, PartsOf(i) # {}
  PROVE  /\ Sizes(i) \in Seq(Nat) /\ Len(Sizes(i)) = LastPart(i) - i + 1
         /\ \A j \in PartsOf(i) : /\ j - i + 1 \in 1..Len(Sizes(i))
                                  /\ Sizes(i)[j - i + 1] = files0[j].after.size
<1> DEFINE last == LastPart(i)
           n == last - i + 1
<1>1. /\ last \in DOMAIN files0 /\ i <= last /\ PartsOf(i) = i..last
      /\ DOMAIN files0 = 1..Len(files0) /\ Len(files0) \in Nat
  BY GroupIsInterval, FileTypes
<1>2. i \in Nat /\ last \in Nat /\ n \in Nat
  <2> HIDE DEF last
  <2> QED BY <1>1
<1>3. \A k \in 1..n : i + k - 1 \in PartsOf(i)
  <2> HIDE DEF last
  <2> QED BY <1>1, <1>2
<1>4. \A j \in PartsOf(i) : j \in DOMAIN files0 /\ files0[j].after.size \in Nat
  BY PartFacts DEF PartsOf, Uint
<1>5. Sizes(i) = [k \in 1..n |-> files0[i + k - 1].after.size]
  BY DEF Sizes
<1> HIDE DEF n
<1>6. Sizes(i) \in [1..n -> Nat]
  BY <1>3, <1>4, <1>5
<1>7. Sizes(i) \in Seq(Nat) /\ Len(Sizes(i)) = n
  BY <1>2, <1>6
<1>8. ASSUME NEW j \in PartsOf(i)
      PROVE  j - i + 1 \in 1..n /\ Sizes(i)[j - i + 1] = files0[j].after.size
  <2>1. j \in i..last
    BY <1>1
  <2>2. j - i + 1 \in 1..n /\ i + (j - i + 1) - 1 = j
    <3> HIDE DEF last
    <3> QED BY <1>2, <2>1 DEF n
  <2> QED BY <1>5, <2>2
<1> QED BY <1>7, <1>8 DEF n

-----------------------------------------------------------------------------
(* What the steps do to the archive.                                       *)

LEMMA ArchiveTypes ==
  ASSUME TypeOK, Fixed
  PROVE  /\ archive.files \in Seq(FileEntry) /\ archive.entries \in Seq(DataEntry)
         /\ DOMAIN archive.files = DOMAIN files0 /\ DOMAIN archive.entries = DOMAIN original.entries
         /\ \A i \in DOMAIN files0 : archive.files[i] \in FileEntry
         /\ archive = [galaxy |-> archive.galaxy, files |-> archive.files,
                       entries |-> archive.entries, languages |-> archive.languages]
         /\ archive.galaxy \in BOOLEAN /\ archive.languages \subseteq Languages
<1>1. /\ archive.files \in Seq(FileEntry) /\ archive.entries \in Seq(DataEntry)
      /\ archive.galaxy \in BOOLEAN /\ archive.languages \subseteq Languages
      /\ archive = [galaxy |-> archive.galaxy, files |-> archive.files,
                    entries |-> archive.entries, languages |-> archive.languages]
  BY DEF TypeOK, Archive
<1>2. DOMAIN archive.files = 1..Len(archive.files) /\ DOMAIN archive.entries = 1..Len(archive.entries)
  BY <1>1
<1>3. DOMAIN archive.files = DOMAIN files0 /\ DOMAIN archive.entries = DOMAIN original.entries
  BY <1>2, FileTypes DEF Fixed, SameMarkers
<1>4. \A i \in DOMAIN files0 : archive.files[i] \in FileEntry
  BY <1>1, <1>3
<1> QED BY <1>1, <1>3, <1>4

\* A step that changes one file.
LEMMA OneFileChanges ==
  ASSUME TypeOK, Fixed, NEW i \in DOMAIN files0, NEW f \in FileEntry,
         archive' = [archive EXCEPT !.files[i] = f]
  PROVE  /\ archive' \in Archive
         /\ Len(archive'.files) = Len(archive.files)
         /\ archive'.entries = archive.entries /\ archive'.galaxy = archive.galaxy
         /\ archive'.languages = archive.languages
         /\ \A k \in DOMAIN files0 : archive'.files[k] = IF k = i THEN f ELSE archive.files[k]
<1>1. archive' = [archive EXCEPT !.files = [archive.files EXCEPT ![i] = f]]
  OBVIOUS
<1>2. archive' = [galaxy |-> archive.galaxy, files |-> [archive.files EXCEPT ![i] = f],
                  entries |-> archive.entries, languages |-> archive.languages]
  BY <1>1, ArchiveTypes
<1>3. /\ [archive.files EXCEPT ![i] = f] \in Seq(FileEntry)
      /\ Len([archive.files EXCEPT ![i] = f]) = Len(archive.files)
      /\ \A k \in DOMAIN files0 : [archive.files EXCEPT ![i] = f][k] = IF k = i THEN f ELSE archive.files[k]
  BY ArchiveTypes
<1>4. archive' \in Archive
  BY <1>2, <1>3, ArchiveTypes DEF Archive
<1> QED BY <1>2, <1>3, <1>4

LEMMA StartedFields ==
  ASSUME NEW f \in FileEntry
  PROVE  /\ Started(f) \in FileEntry
         /\ Started(f).destination = IF f.before.args >= 2 /\ f.before.name # "" THEN f.before.name ELSE f.destination
         /\ Started(f).checksum = IF f.before.md5 THEN "marker" ELSE "none"
         /\ Started(f).size = 0
         /\ Started(f).additional = f.additional /\ Started(f).location = f.location
         /\ Started(f).before = f.before /\ Started(f).after = f.after /\ Started(f).check = f.check
         /\ Started(f).languages = f.languages /\ Started(f).components = f.components
         /\ Started(f).bits32 = f.bits32 /\ Started(f).bits64 = f.bits64
<1>1. f.before \in StartMarker
  BY DEF FileEntry
<1>2. f.before.name \in Names \cup {""} /\ 0 \in Uint
  <2>1. 0 \in Uint
    BY GogAssumption DEF Uint
  <2>2. f.before.name \in Names \cup {""}
    BY <1>1 DEF StartMarker
  <2> QED BY <2>1, <2>2
<1>3. f.destination \in Names \cup {""}
  BY DEF FileEntry
<1> DEFINE d == IF f.before.args >= 2 /\ f.before.name # "" THEN f.before.name ELSE f.destination
           c == IF f.before.md5 THEN "marker" ELSE "none"
<1>4. d \in Names \cup {""} /\ c \in Checksums
  BY <1>2, <1>3 DEF Checksums
<1>5. Started(f) = [f EXCEPT !.destination = d, !.checksum = c, !.size = 0]
  BY DEF Started
<1> HIDE DEF d, c
<1>6. /\ Started(f) \in FileEntry
      /\ Started(f).destination = d /\ Started(f).checksum = c /\ Started(f).size = 0
      /\ Started(f).additional = f.additional /\ Started(f).location = f.location
      /\ Started(f).before = f.before /\ Started(f).after = f.after /\ Started(f).check = f.check
      /\ Started(f).languages = f.languages /\ Started(f).components = f.components
      /\ Started(f).bits32 = f.bits32 /\ Started(f).bits64 = f.bits64
  BY <1>2, <1>4, <1>5 DEF FileEntry
<1> QED BY <1>6 DEF d, c

LEMMA StartEffect ==
  ASSUME TypeOK, Fixed, StartGroup
  PROVE  /\ archive' \in Archive
         /\ fi \in DOMAIN files0 /\ IsStart(fi) /\ original' = original
         /\ remaining' = Parts(files0[fi].before)
         /\ activeStart' = IF remaining' = 0 THEN 0 ELSE fi
         /\ Len(archive'.files) = Len(archive.files)
         /\ archive'.entries = archive.entries /\ archive'.galaxy = archive.galaxy
         /\ archive'.languages = archive.languages
         /\ \A k \in DOMAIN files0 :
              LET f == archive.files[k]
                  g == archive'.files[k]
              IN  /\ SameMarkers(g, f) /\ SameConstraints(g, f) /\ g.additional = f.additional
                  /\ k # fi => g = f
                  /\ k = fi =>
                       /\ g.destination = (IF HasName(k) THEN files0[k].before.name ELSE f.destination)
                       /\ g.checksum = (IF files0[k].before.md5 THEN "marker" ELSE "none")
                       /\ g.size = 0
<1>1. fi \in DOMAIN files0
  <2>1. fi \in Nat \ {0} /\ fi <= Len(files0)
    BY DEF StartGroup, MoreFiles, TypeOK, Fixed, SameMarkers
  <2> QED BY <2>1, FileTypes
<1>2. file.before = files0[fi].before
  BY <1>1 DEF Fixed, SameMarkers, file
<1>3. IsStart(fi)
  BY <1>2 DEF StartGroup, IsStart
<1> DEFINE f0 == archive.files[fi]
           f1 == Started(f0)
<1>4. f0 \in FileEntry /\ f0.before = files0[fi].before
  BY <1>1, ArchiveTypes DEF Fixed, SameMarkers
<1>5. f1 \in FileEntry
  BY <1>4, StartedFields
<1>6. archive' = [archive EXCEPT !.files[fi] = f1]
  BY DEF StartGroup
<1>7. /\ archive' \in Archive
      /\ Len(archive'.files) = Len(archive.files)
      /\ archive'.entries = archive.entries /\ archive'.galaxy = archive.galaxy
      /\ archive'.languages = archive.languages
      /\ \A k \in DOMAIN files0 : archive'.files[k] = IF k = fi THEN f1 ELSE archive.files[k]
  <2> HIDE DEF f1
  <2> QED BY <1>1, <1>5, <1>6, OneFileChanges
<1>8. /\ f1.destination = (IF HasName(fi) THEN files0[fi].before.name ELSE f0.destination)
      /\ f1.checksum = (IF files0[fi].before.md5 THEN "marker" ELSE "none")
      /\ f1.size = 0 /\ f1.additional = f0.additional
      /\ SameMarkers(f1, f0) /\ SameConstraints(f1, f0)
  <2> HIDE DEF f0
  <2>1. /\ f1.destination = (IF f0.before.args >= 2 /\ f0.before.name # "" THEN f0.before.name ELSE f0.destination)
        /\ f1.checksum = (IF f0.before.md5 THEN "marker" ELSE "none")
        /\ f1.size = 0 /\ f1.additional = f0.additional
    BY <1>4, StartedFields
  <2>2. SameMarkers(f1, f0) /\ SameConstraints(f1, f0)
    BY <1>4, StartedFields DEF SameMarkers, SameConstraints
  <2> HIDE DEF f1
  <2> QED BY <1>4, <2>1, <2>2 DEF HasName
<1> HIDE DEF f1
<1>9. ASSUME NEW k \in DOMAIN files0
      PROVE  LET f == archive.files[k]
                 g == archive'.files[k]
             IN  /\ SameMarkers(g, f) /\ SameConstraints(g, f) /\ g.additional = f.additional
                 /\ k # fi => g = f
                 /\ k = fi =>
                      /\ g.destination = (IF HasName(k) THEN files0[k].before.name ELSE f.destination)
                      /\ g.checksum = (IF files0[k].before.md5 THEN "marker" ELSE "none")
                      /\ g.size = 0
  <2>1. CASE k = fi
    BY <1>7, <1>8, <2>1
  <2>2. CASE k # fi
    BY <1>7, <2>2 DEF SameMarkers, SameConstraints
  <2> QED BY <2>1, <2>2
<1>10. /\ remaining' = Parts(files0[fi].before) /\ original' = original
       /\ activeStart' = IF remaining' = 0 THEN 0 ELSE fi
  BY <1>2 DEF StartGroup
<1> QED BY <1>1, <1>3, <1>7, <1>9, <1>10

-----------------------------------------------------------------------------
(* The open group.                                                         *)

\* A part marker is taken exactly when the file is a part of the open group.
LEMMA PartJoins ==
  ASSUME TypeOK, Fixed, Positions, GroupKept, pc = "part"
  PROVE  /\ fi \in DOMAIN files0 /\ file.after = files0[fi].after /\ file.location = files0[fi].location
         /\ GoodPart => /\ activeStart \in DOMAIN files0 /\ PartOf(activeStart, fi)
                        /\ remaining = Left(activeStart)
         /\ \A s \in DOMAIN files0 : PartOf(s, fi) => GoodPart /\ activeStart = s
<1>1. /\ fi \in DOMAIN files0 /\ fi \in Nat /\ fi >= 1
      /\ DOMAIN files0 = 1..Len(files0) /\ Len(files0) \in Nat
  <2>1. fi \in Nat \ {0} /\ fi <= Len(files0)
    BY DEF Positions, TypeOK
  <2> QED BY <2>1, FileTypes
<1>2. file.after = files0[fi].after /\ file.location = files0[fi].location
  BY <1>1 DEF Fixed, SameMarkers, file
<1>3. Len(archive.entries) = Len(original.entries)
  BY DEF Fixed, SameMarkers
<1>4. ValidPart(fi) <=> IsEntry(file.location) /\ file.after.args >= 3 /\ file.after.size # -1
  BY <1>2, <1>3 DEF ValidPart, IsEntry
<1>5. activeStart \in 0..Len(files0) /\ remaining \in Nat
  BY DEF TypeOK, Fixed, SameMarkers, Uint
<1>6. CASE IsStart(fi)
  <2>1. remaining = Parts(files0[fi].before) /\ activeStart = IF remaining = 0 THEN 0 ELSE fi
    BY <1>6 DEF GroupKept
  <2>2. GoodPart <=> PartOf(fi, fi)
    BY <1>1, <1>4, <1>6, <2>1, FirstPart DEF GoodPart
  <2>3. GoodPart => activeStart = fi
    BY <2>1 DEF GoodPart
  <2>4. \A s \in DOMAIN files0 : PartOf(s, fi) => s = fi
    BY <1>1, <1>6, PartFacts
  <2>5. remaining = Left(fi)
    <3>1. PICK p \in Nat : p = Parts(files0[fi].before)
      BY <1>1, FileTypes DEF Uint
    <3> QED BY <1>1, <2>1, <3>1 DEF Left
  <2> QED BY <1>1, <1>2, <2>2, <2>3, <2>4, <2>5
<1>7. CASE ~IsStart(fi)
  <2>1. /\ activeStart > 0 /\ remaining # 0 =>
             PartOf(activeStart, fi - 1) /\ remaining = Left(activeStart)
        /\ \A s \in DOMAIN files0 :
             PartOf(s, fi - 1) /\ Left(s) > 0 => activeStart = s /\ remaining = Left(s)
    BY <1>7 DEF GroupKept
  <2>2. ASSUME NEW s \in DOMAIN files0
        PROVE  PartOf(s, fi) <=> s <= fi - 1 /\ PartOf(s, fi - 1) /\ ValidPart(fi) /\ Left(s) > 0
    <3>1. PICK p \in Nat : p = Parts(files0[s].before)
      BY FileTypes DEF Uint
    <3>2. s \in Nat /\ s >= 1 /\ s <= Len(files0)
      BY <1>1
    <3>3. Left(s) > 0 <=> fi - s < p
      BY <1>1, <3>1, <3>2 DEF Left
    <3>4. CASE s <= fi - 1
      <4>1. fi - 1 \in DOMAIN files0 /\ (fi - 1) + 1 = fi
        BY <1>1, <3>2, <3>4
      <4>2. PartOf(s, fi) <=> PartOf(s, fi - 1) /\ ~IsStart(fi) /\ ValidPart(fi) /\ fi - s < p
        BY <1>1, <3>1, <3>4, <4>1, NextPart
      <4> QED BY <1>7, <3>3, <3>4, <4>2
    <3>5. CASE ~(s <= fi - 1)
      <4>1. PartOf(s, fi) => s <= fi /\ IsStart(s)
        BY <1>1, PartFacts
      <4>2. PartOf(s, fi) => s = fi
        BY <1>1, <3>2, <3>5, <4>1
      <4> QED BY <1>7, <3>5, <4>1, <4>2
    <3> QED BY <3>4, <3>5
  <2>3. ASSUME NEW s \in DOMAIN files0, PartOf(s, fi) PROVE GoodPart /\ activeStart = s
    <3>1. s <= fi - 1 /\ PartOf(s, fi - 1) /\ ValidPart(fi) /\ Left(s) > 0
      BY <2>2, <2>3
    <3>2. activeStart = s /\ remaining = Left(s)
      BY <2>1, <3>1
    <3>3. s > 0 /\ remaining # 0
      BY <1>1, <1>5, <3>1, <3>2
    <3> QED BY <1>4, <3>1, <3>2, <3>3 DEF GoodPart
  <2>4. ASSUME GoodPart
        PROVE  activeStart \in DOMAIN files0 /\ PartOf(activeStart, fi) /\ remaining = Left(activeStart)
    <3>1. activeStart > 0 /\ remaining # 0 /\ ValidPart(fi)
      BY <1>4, <2>4 DEF GoodPart
    <3>2. activeStart \in DOMAIN files0
      BY <1>1, <1>5, <3>1
    <3>3. PartOf(activeStart, fi - 1) /\ remaining = Left(activeStart)
      BY <2>1, <3>1
    <3>4. activeStart <= fi - 1 /\ Left(activeStart) > 0
      <4>1. activeStart <= fi - 1
        BY <3>3 DEF PartOf
      <4>2. remaining > 0
        BY <1>5, <3>1
      <4> QED BY <3>3, <4>1, <4>2
    <3> QED BY <2>2, <3>1, <3>2, <3>3, <3>4
  <2> QED BY <1>1, <1>2, <2>3, <2>4
<1> QED BY <1>6, <1>7

\* What ends an iteration.
LEMMA NoPartHere ==
  ASSUME TypeOK, Fixed, Positions, GroupKept, RejectPart \/ InterruptGroup \/ PassFile
  PROVE  /\ pc = "part" /\ fi \in DOMAIN files0
         /\ \A s \in DOMAIN files0 : ~PartOf(s, fi)
<1>1. pc = "part"
  BY DEF RejectPart, InterruptGroup, PassFile
<1>2. fi \in DOMAIN files0 /\ file.after = files0[fi].after
  BY <1>1, PartJoins
<1>3. ASSUME NEW s \in DOMAIN files0, PartOf(s, fi) PROVE FALSE
  <2>1. GoodPart
    BY <1>1, <1>3, PartJoins
  <2>2. files0[fi].after.args >= 3 /\ files0[fi].after.args \in Nat
    BY <1>2, <1>3, PartFacts, FileTypes
  <2>3. file.after.args > 0 /\ file.after.args # 0
    BY <1>2, <2>2
  <2> QED BY <2>1, <2>3 DEF RejectPart, InterruptGroup, PassFile
<1> QED BY <1>1, <1>2, <1>3

LEMMA TakesPart ==
  ASSUME TypeOK, Fixed, Positions, GroupKept, TakePart
  PROVE  /\ fi \in DOMAIN files0 /\ activeStart \in DOMAIN files0
         /\ PartOf(activeStart, fi) /\ remaining = Left(activeStart) /\ remaining > 0
         /\ file.after = files0[fi].after /\ file.location = files0[fi].location
<1>1. pc = "part" /\ GoodPart
  BY DEF TakePart
<1>2. remaining > 0
  BY <1>1 DEF GoodPart, TypeOK, Uint
<1> QED BY <1>1, <1>2, PartJoins

LEMMA DivMod ==
  ASSUME NEW a \in Nat, NEW m \in Nat \ {0}
  PROVE  a % m \in 0..(m - 1) /\ a \div m \in Nat /\ a = m * (a \div m) + (a % m)
OBVIOUS

LEMMA ModIs ==
  ASSUME NEW m \in Nat \ {0}, NEW q \in Int, NEW r \in 0..(m - 1)
  PROVE  (m * q + r) % m = r
OBVIOUS

\* The countdown of an open group does not wrap.
LEMMA CountsDown ==
  ASSUME TypeOK, TakePart
  PROVE  remaining # 0 /\ remaining' = remaining - 1
<1>1. remaining \in 0..MaxUint /\ MaxUint \in Nat /\ remaining # 0
  BY GogAssumption DEF TakePart, GoodPart, TypeOK, Uint
<1>2. remaining' = (remaining - 1) % (MaxUint + 1)
  BY DEF TakePart
<1>3. remaining - 1 \in 0..((MaxUint + 1) - 1) /\ MaxUint + 1 \in Nat \ {0}
  BY <1>1
<1>4. ((MaxUint + 1) * 0 + (remaining - 1)) % (MaxUint + 1) = remaining - 1
  BY <1>3, ModIs
<1>5. (MaxUint + 1) * 0 + (remaining - 1) = remaining - 1
  BY <1>1
<1> QED BY <1>1, <1>2, <1>4, <1>5

LEMMA GroupStep ==
  ASSUME TypeOK, Fixed, Positions, GroupKept, Next
  PROVE  GroupKept'
<1>0. original' = original
  BY DEF Next, Begin, LeaveAlone, StartGroup, NoStart, TakePart, RejectPart, InterruptGroup,
         PassFile, EndParts, ConstrainFile, EndConstraints, MergeLanguages, Done, FileDone, vars
<1>1. /\ files0' = files0
      /\ \A i, j : PartOf(i, j)' <=> PartOf(i, j)
      /\ \A i : IsStart(i)' <=> IsStart(i)
  BY <1>0, Frozen
<1>2. fi \in Nat /\ DOMAIN files0 = 1..Len(files0) /\ Len(files0) \in Nat
  BY FileTypes DEF TypeOK
<1>3. CASE pc' \notin {"start", "part"}
  BY <1>3 DEF GroupKept
<1>4. CASE Begin
  <2>1. pc' = "start" /\ activeStart' = 0 /\ fi' = 1
    BY <1>4 DEF Begin
  <2>2. \A s \in DOMAIN files0 : ~PartOf(s, 0)
    BY <1>2 DEF PartOf
  <2> QED BY <1>1, <2>1, <2>2 DEF GroupKept
<1>5. CASE StartGroup
  <2>1. pc' = "part" /\ fi' = fi /\ IsStart(fi)
    BY <1>5, StartEffect DEF StartGroup
  <2>2. remaining' = Parts(files0[fi].before) /\ activeStart' = IF remaining' = 0 THEN 0 ELSE fi
    BY <1>5, StartEffect
  <2> QED BY <1>1, <2>1, <2>2 DEF GroupKept
<1>6. CASE NoStart
  <2>1. /\ pc = "start" /\ pc' = "part" /\ fi' = fi /\ activeStart' = activeStart /\ remaining' = remaining
    BY <1>6 DEF NoStart, locals
  <2>2. ~IsStart(fi)
    <3>1. fi \in DOMAIN files0
      BY <1>2, <1>6 DEF NoStart, MoreFiles, Fixed, SameMarkers, TypeOK
    <3>2. file.before = files0[fi].before
      BY <3>1 DEF Fixed, SameMarkers, file
    <3> QED BY <1>6, <3>2 DEF NoStart, IsStart
  <2>3. \A s : Left(s)' = Left(s)
    BY <1>1, <2>1 DEF Left
  <2> QED BY <1>1, <2>1, <2>2, <2>3 DEF GroupKept
<1>7. CASE TakePart
  <2> DEFINE s0 == activeStart
  <2>1. /\ fi \in DOMAIN files0 /\ s0 \in DOMAIN files0
        /\ PartOf(s0, fi) /\ remaining = Left(s0) /\ remaining > 0
    BY <1>7, TakesPart
  <2>2. pc' = "start" /\ fi' = fi + 1 /\ activeStart' = s0 /\ remaining' = remaining - 1
    <3>1. remaining' = remaining - 1
      BY <1>7, CountsDown
    <3> QED BY Zenon, <1>7, <3>1 DEF TakePart, FileDone
  <2>3. fi' - 1 = fi
    BY <1>2, <2>2
  <2>4. remaining' = Left(s0)'
    <3>1. PICK p \in Nat : p = Parts(files0[s0].before)
      BY <2>1, FileTypes DEF Uint
    <3>2. s0 \in Nat
      BY <1>2, <2>1
    <3>3. Left(s0)' = p - ((fi + 1) - s0) /\ remaining = p - (fi - s0)
      BY <1>1, <2>1, <2>2, <3>1 DEF Left
    <3> QED BY <1>2, <2>2, <3>2, <3>3
  <2>5. \A s \in DOMAIN files0 : PartOf(s, fi) => s = s0
    BY <2>1, OneStart
  <2> QED BY <1>1, <2>1, <2>2, <2>3, <2>4, <2>5 DEF GroupKept
<1>8. CASE RejectPart \/ InterruptGroup \/ PassFile
  <2>1. \A s \in DOMAIN files0 : ~PartOf(s, fi)
    BY <1>8, NoPartHere
  <2>2. pc' = "start" /\ fi' = fi + 1
    BY <1>8 DEF RejectPart, InterruptGroup, PassFile, FileDone
  <2>3. activeStart' = 0 \/ remaining' = 0
    BY <1>8 DEF RejectPart, InterruptGroup, PassFile, EndsGroup, Abandon
  <2>4. fi' - 1 = fi
    BY <1>2, <2>2
  <2> QED BY <1>1, <2>1, <2>2, <2>3, <2>4 DEF GroupKept
<1>9. CASE LeaveAlone \/ EndParts \/ ConstrainFile \/ EndConstraints \/ MergeLanguages \/ Done
  BY <1>3, <1>9 DEF LeaveAlone, EndParts, ConstrainFile, EndConstraints, MergeLanguages, Done, vars
<1> QED BY <1>4, <1>5, <1>6, <1>7, <1>8, <1>9 DEF Next

-----------------------------------------------------------------------------
(* A part is taken.                                                        *)

\* The file that starts the group, with part j, and a part of another file.
Takes(f, j) == [f EXCEPT !.size = Grown(@, files0[j].after.size)]
TakesLocation(f, j) ==
  [f EXCEPT !.size = Grown(@, files0[j].after.size),
            !.additional = IF containsLocation(@, files0[j].location) THEN @
                           ELSE Append(@, files0[j].location)]
Unnamed(f) == [f EXCEPT !.destination = ""]
Inflated(j) == [uncompressedSize |-> files0[j].after.size, zlib |-> TRUE]

LEMMA TakenFields ==
  ASSUME TypeOK, NEW f \in FileEntry, NEW j \in DOMAIN files0, files0[j].after.size \in Uint
  PROVE  /\ Takes(f, j) \in FileEntry /\ TakesLocation(f, j) \in FileEntry /\ Unnamed(f) \in FileEntry
         /\ Inflated(j) \in DataEntry
<1>1. f.size \in Uint /\ f.additional \in Seq(Nat) /\ files0[j].location \in Nat
  BY FileTypes DEF FileEntry
<1>2. Grown(f.size, files0[j].after.size) \in Uint
  BY <1>1, GogAssumption DEF Uint, Grown
<1> DEFINE a == IF containsLocation(f.additional, files0[j].location) THEN f.additional
                ELSE Append(f.additional, files0[j].location)
           g == Grown(f.size, files0[j].after.size)
<1>3. a \in Seq(Nat)
  BY <1>1
<1>4. Takes(f, j) = [f EXCEPT !.size = g] /\ TakesLocation(f, j) = [f EXCEPT !.size = g, !.additional = a]
  BY DEF Takes, TakesLocation
<1>5. g \in Uint
  BY <1>2
<1> HIDE DEF a, g
<1>6. Takes(f, j) \in FileEntry /\ TakesLocation(f, j) \in FileEntry
  BY <1>3, <1>4, <1>5 DEF FileEntry
<1>7. Unnamed(f) \in FileEntry
  BY DEF Unnamed, FileEntry
<1>8. Inflated(j) \in DataEntry
  BY DEF Inflated, DataEntry
<1> QED BY <1>6, <1>7, <1>8

LEMMA TakeArchive ==
  ASSUME TypeOK, Fixed, Positions, GroupKept, TakePart
  PROVE  /\ archive' \in Archive
         /\ Len(archive'.files) = Len(archive.files)
         /\ archive'.galaxy = archive.galaxy /\ archive'.languages = archive.languages
         /\ archive'.entries = [archive.entries EXCEPT ![files0[fi].location + 1] = Inflated(fi)]
         /\ \A k \in DOMAIN files0 :
              archive'.files[k] =
                IF k = activeStart THEN IF fi = k THEN Takes(archive.files[k], fi)
                                        ELSE TakesLocation(archive.files[k], fi)
                ELSE IF k = fi THEN Unnamed(archive.files[k])
                ELSE archive.files[k]
<1> DEFINE s == activeStart
           l == files0[fi].location
           size == files0[fi].after.size
           E == [archive.entries EXCEPT ![l + 1] = Inflated(fi)]
           F == [archive.files EXCEPT ![s] = Takes(@, fi)]
           G == [archive.files EXCEPT ![s] = TakesLocation(@, fi), ![fi] = Unnamed(@)]
<1>1. /\ fi \in DOMAIN files0 /\ s \in DOMAIN files0 /\ PartOf(s, fi)
      /\ file.after = files0[fi].after /\ file.location = l
  BY TakesPart
<1>2. /\ size \in Uint /\ l < Len(original.entries) /\ l \in Nat
  BY <1>1, PartFacts, FileTypes
<1>3. /\ archive.files \in Seq(FileEntry) /\ archive.entries \in Seq(DataEntry)
      /\ DOMAIN archive.files = DOMAIN files0 /\ DOMAIN archive.entries = DOMAIN original.entries
      /\ archive = [galaxy |-> archive.galaxy, files |-> archive.files,
                    entries |-> archive.entries, languages |-> archive.languages]
      /\ archive.galaxy \in BOOLEAN /\ archive.languages \subseteq Languages
  BY ArchiveTypes
<1>4. l + 1 \in DOMAIN archive.entries
  BY <1>2, <1>3, FileTypes
<1>5. archive' =
        LET grown == [archive EXCEPT
                       !.entries[l + 1] = [uncompressedSize |-> size, zlib |-> TRUE],
                       !.files[s].size = Grown(@, size)]
            joined == [grown EXCEPT
                       !.files[fi].destination = "",
                       !.files[s].additional =
                         IF containsLocation(@, l) THEN @ ELSE Append(@, l)]
        IN  IF fi = s THEN grown ELSE joined
  <2>1. archive' =
          LET grown == [archive EXCEPT
                         !.entries[file.location + 1] = [uncompressedSize |-> file.after.size, zlib |-> TRUE],
                         !.files[activeStart].size = Grown(@, file.after.size)]
              joined == [grown EXCEPT
                         !.files[fi].destination = "",
                         !.files[activeStart].additional =
                           IF containsLocation(@, file.location) THEN @ ELSE Append(@, file.location)]
          IN  IF fi = activeStart THEN grown ELSE joined
    BY DEF TakePart
  <2> QED BY <1>1, <2>1
<1>6. CASE fi = s
  <2>1. archive' = [archive EXCEPT !.entries = E, !.files = F]
    BY <1>5, <1>6 DEF Takes, Inflated
  <2> HIDE DEF E, F
  <2>2. archive' = [galaxy |-> archive.galaxy, files |-> F, entries |-> E, languages |-> archive.languages]
    BY <1>3, <2>1
  <2>3. /\ F \in Seq(FileEntry) /\ Len(F) = Len(archive.files)
        /\ \A k \in DOMAIN files0 : F[k] = IF k = s THEN Takes(archive.files[k], fi) ELSE archive.files[k]
    <3>1. archive.files[s] \in FileEntry
      BY <1>1, ArchiveTypes
    <3>2. Takes(archive.files[s], fi) \in FileEntry
      BY <1>1, <1>2, <3>1, TakenFields
    <3> HIDE DEF s
    <3> QED BY <1>1, <1>3, <3>2 DEF F
  <2>4. E \in Seq(DataEntry)
    <3>1. Inflated(fi) \in DataEntry
      BY <1>1, <1>2, <1>3, ArchiveTypes, TakenFields
    <3> QED BY <1>3, <1>4, <3>1 DEF E
  <2>5. archive' \in Archive
    BY <1>3, <2>2, <2>3, <2>4 DEF Archive
  <2> HIDE DEF s
  <2>6. \A k \in DOMAIN files0 :
          archive'.files[k] = IF k = s THEN Takes(archive.files[k], fi) ELSE archive.files[k]
    BY <2>2, <2>3
  <2>7. /\ Len(archive'.files) = Len(archive.files) /\ archive'.entries = E
        /\ archive'.galaxy = archive.galaxy /\ archive'.languages = archive.languages
    BY <2>2, <2>3
  <2> QED BY <1>6, <2>5, <2>6, <2>7 DEF E, s
<1>7. CASE fi # s
  <2>1. archive' = [galaxy |-> archive.galaxy, files |-> G, entries |-> E, languages |-> archive.languages]
    <3> DEFINE grown == [archive EXCEPT
                          !.entries[l + 1] = [uncompressedSize |-> size, zlib |-> TRUE],
                          !.files[s].size = Grown(@, size)]
               H == [F EXCEPT ![fi].destination = "",
                              ![s].additional = IF containsLocation(@, l) THEN @ ELSE Append(@, l)]
    <3>1. DOMAIN archive.files = DOMAIN files0 /\ s \in DOMAIN archive.files /\ fi \in DOMAIN archive.files
      BY <1>1, <1>3
    <3>2. archive.files[s] \in FileEntry /\ archive.files[fi] \in FileEntry
      BY <1>1, ArchiveTypes
    <3>3. grown = [archive EXCEPT !.entries = E, !.files = F]
      BY DEF Takes, Inflated
    <3>4. grown = [galaxy |-> archive.galaxy, files |-> F, entries |-> E, languages |-> archive.languages]
      <4> HIDE DEF E, F, grown
      <4> QED BY <1>3, <3>3
    <3>5. archive' = [grown EXCEPT !.files[fi].destination = "",
                                   !.files[s].additional =
                                     IF containsLocation(@, l) THEN @ ELSE Append(@, l)]
      BY <1>5, <1>7
    <3> HIDE DEF grown
    <3>6. archive' = [grown EXCEPT !.files = [grown.files EXCEPT
                                                ![fi].destination = "",
                                                ![s].additional =
                                                  IF containsLocation(@, l) THEN @ ELSE Append(@, l)]]
      <4> HIDE DEF s, l
      <4> QED BY <3>5
    <3>7. archive' = [grown EXCEPT !.files = H]
      <4> HIDE DEF s, l, F
      <4> QED BY <3>4, <3>6 DEF H
    <3>8. H = G
      <4>1. /\ DOMAIN F = DOMAIN archive.files /\ F[s] = Takes(archive.files[s], fi)
            /\ F[fi] = archive.files[fi]
            /\ \A k \in DOMAIN archive.files : k # s => F[k] = archive.files[k]
        <5> HIDE DEF s
        <5> QED BY <1>7, <3>1
      <4> HIDE DEF F
      <4>2. /\ DOMAIN H = DOMAIN archive.files
            /\ \A k \in DOMAIN archive.files :
                 H[k] = IF k = s THEN [F[s] EXCEPT !.additional = IF containsLocation(@, l) THEN @ ELSE Append(@, l)]
                        ELSE IF k = fi THEN [F[fi] EXCEPT !.destination = ""]
                        ELSE F[k]
        <5> HIDE DEF s, l
        <5> QED BY <1>7, <3>1, <4>1
      <4>3. [F[s] EXCEPT !.additional = IF containsLocation(@, l) THEN @ ELSE Append(@, l)]
              = TakesLocation(archive.files[s], fi)
        <5> DEFINE f == archive.files[s]
        <5>1. f \in FileEntry /\ F[s] = [f EXCEPT !.size = Grown(f.size, size)]
          BY <3>2, <4>1 DEF Takes
        <5>2. TakesLocation(f, fi) = [f EXCEPT !.size = Grown(f.size, size),
                                               !.additional = IF containsLocation(f.additional, l) THEN f.additional
                                                              ELSE Append(f.additional, l)]
          BY DEF TakesLocation
        <5> HIDE DEF f, s, l, size
        <5>3. F[s].additional = f.additional
          BY <5>1 DEF FileEntry
        <5> QED BY <5>1, <5>2, <5>3 DEF f
      <4>4. [F[fi] EXCEPT !.destination = ""] = Unnamed(archive.files[fi])
        BY <4>1 DEF Unnamed
      <4>5. /\ DOMAIN G = DOMAIN archive.files
            /\ \A k \in DOMAIN archive.files :
                 G[k] = IF k = s THEN TakesLocation(archive.files[s], fi)
                        ELSE IF k = fi THEN Unnamed(archive.files[fi])
                        ELSE archive.files[k]
        <5> HIDE DEF s
        <5> QED BY <1>7, <3>1
      <4>6. H = [k \in DOMAIN H |-> H[k]] /\ G = [k \in DOMAIN G |-> G[k]]
        OBVIOUS
      <4>7. \A k \in DOMAIN archive.files : H[k] = G[k]
        <5> HIDE DEF H, G, s
        <5> SUFFICES ASSUME NEW k \in DOMAIN archive.files PROVE H[k] = G[k]
          OBVIOUS
        <5>1. CASE k = s
          BY <4>2, <4>3, <4>5, <5>1
        <5>2. CASE k # s /\ k = fi
          BY <4>1, <4>2, <4>4, <4>5, <5>2
        <5>3. CASE k # s /\ k # fi
          BY <4>1, <4>2, <4>5, <5>3
        <5> QED BY <5>1, <5>2, <5>3
      <4> HIDE DEF H, G
      <4> QED BY <4>2, <4>5, <4>6, <4>7
    <3> HIDE DEF H, G, E, F
    <3>9. archive' = [galaxy |-> archive.galaxy, files |-> H, entries |-> E, languages |-> archive.languages]
      BY <3>4, <3>7
    <3> QED BY <3>8, <3>9
  <2> HIDE DEF E, G
  <2>3. /\ G \in Seq(FileEntry) /\ Len(G) = Len(archive.files)
        /\ \A k \in DOMAIN files0 : G[k] = IF k = s THEN TakesLocation(archive.files[k], fi)
                                           ELSE IF k = fi THEN Unnamed(archive.files[k])
                                           ELSE archive.files[k]
    <3>1. archive.files[s] \in FileEntry /\ archive.files[fi] \in FileEntry
      BY <1>1, ArchiveTypes
    <3>2. TakesLocation(archive.files[s], fi) \in FileEntry /\ Unnamed(archive.files[fi]) \in FileEntry
      BY <1>1, <1>2, <3>1, TakenFields
    <3> HIDE DEF s
    <3> QED BY <1>1, <1>3, <1>7, <3>2 DEF G
  <2>4. E \in Seq(DataEntry)
    <3>1. Inflated(fi) \in DataEntry
      BY <1>1, <1>2, <1>3, ArchiveTypes, TakenFields
    <3> QED BY <1>3, <1>4, <3>1 DEF E
  <2>5. archive' \in Archive
    BY <1>3, <2>1, <2>3, <2>4 DEF Archive
  <2> HIDE DEF s
  <2>6. \A k \in DOMAIN files0 :
          archive'.files[k] = IF k = s THEN TakesLocation(archive.files[k], fi)
                              ELSE IF k = fi THEN Unnamed(archive.files[k])
                              ELSE archive.files[k]
    BY <2>1, <2>3
  <2>7. /\ Len(archive'.files) = Len(archive.files) /\ archive'.entries = E
        /\ archive'.galaxy = archive.galaxy /\ archive'.languages = archive.languages
    BY <2>1, <2>3
  <2> QED BY <1>7, <2>5, <2>6, <2>7 DEF E, s
<1> QED BY <1>6, <1>7

LEMMA TakeEffect ==
  ASSUME TypeOK, Fixed, Positions, GroupKept, TakePart, NEW k \in DOMAIN files0
  PROVE  LET f == archive.files[k]
             g == archive'.files[k]
             l == files0[fi].location
         IN  /\ SameMarkers(g, f) /\ SameConstraints(g, f) /\ g.checksum = f.checksum
             /\ g.size = (IF k = activeStart THEN Grown(f.size, files0[fi].after.size) ELSE f.size)
             /\ g.destination = (IF k = fi /\ k # activeStart THEN "" ELSE f.destination)
             /\ g.additional = (IF k = activeStart /\ k # fi /\ ~containsLocation(f.additional, l)
                                THEN Append(f.additional, l) ELSE f.additional)
<1> DEFINE f == archive.files[k]
           g == archive'.files[k]
<1>1. f \in FileEntry
  BY ArchiveTypes
<1>2. g = IF k = activeStart THEN IF fi = k THEN Takes(f, fi) ELSE TakesLocation(f, fi)
          ELSE IF k = fi THEN Unnamed(f)
          ELSE f
  BY TakeArchive
<1> HIDE DEF f, g
<1>3. CASE k = activeStart /\ k = fi
  BY <1>1, <1>2, <1>3 DEF Takes, FileEntry, SameMarkers, SameConstraints, f, g
<1>4. CASE k = activeStart /\ k # fi
  <2>1. g = TakesLocation(f, fi)
    BY <1>2, <1>4
  <2> DEFINE l == files0[fi].location
             a == IF containsLocation(f.additional, l) THEN f.additional ELSE Append(f.additional, l)
             z == Grown(f.size, files0[fi].after.size)
  <2>2. g = [f EXCEPT !.size = z, !.additional = a]
    BY <2>1 DEF TakesLocation
  <2>3. a = IF ~containsLocation(f.additional, l) THEN Append(f.additional, l) ELSE f.additional
    OBVIOUS
  <2> HIDE DEF a, z
  <2>4. /\ SameMarkers(g, f) /\ SameConstraints(g, f) /\ g.checksum = f.checksum
        /\ g.size = z /\ g.additional = a /\ g.destination = f.destination
    BY <1>1, <2>2 DEF FileEntry, SameMarkers, SameConstraints
  <2> QED BY <1>4, <2>3, <2>4 DEF f, g, z
<1>5. CASE k # activeStart /\ k = fi
  BY <1>1, <1>2, <1>5 DEF Unnamed, FileEntry, SameMarkers, SameConstraints, f, g
<1>6. CASE k # activeStart /\ k # fi
  BY <1>2, <1>6 DEF SameMarkers, SameConstraints, f, g
<1> QED BY <1>3, <1>4, <1>5, <1>6

-----------------------------------------------------------------------------
(* A file is constrained.                                                  *)

\* g is what the constraints make of f.
TheConstraints(g, f, all) ==
  LET c == f.check
  IN  /\ g.languages = IF c.call = "install" /\ c.languages # <<>> /\ ~isAllLanguages(c.languages, all)
                       THEN c.languages ELSE f.languages
      /\ g.bits32 = IF c.call = "install" /\ c.arch THEN architectureBits(c.bits)["32"] ELSE f.bits32
      /\ g.bits64 = IF c.call = "install" /\ c.arch THEN architectureBits(c.bits)["64"] ELSE f.bits64
      /\ g.components = IF f.components # "" \/ c.call = "none" THEN f.components
                        ELSE IF c.call = "install" THEN "game" ELSE c.component

LEMMA ConstrainedFields ==
  ASSUME NEW f \in FileEntry, NEW all
  PROVE  /\ Constrained(f, all) \in FileEntry
         /\ SameMarkers(Constrained(f, all), f)
         /\ Constrained(f, all).destination = f.destination
         /\ Constrained(f, all).size = f.size
         /\ Constrained(f, all).checksum = f.checksum
         /\ Constrained(f, all).additional = f.additional
         /\ TheConstraints(Constrained(f, all), f, all)
<1> DEFINE c == f.check
           g == Constrained(f, all)
<1>1. /\ c \in Check /\ f.languages \in Seq(Constraint) /\ f.components \in Names \cup {"", "game"}
      /\ f.bits32 \in BOOLEAN /\ f.bits64 \in BOOLEAN
  BY DEF FileEntry
<1> DEFINE l == IF c.languages # <<>> /\ ~isAllLanguages(c.languages, all) THEN c.languages ELSE f.languages
           b32 == IF c.arch THEN architectureBits(c.bits)["32"] ELSE f.bits32
           b64 == IF c.arch THEN architectureBits(c.bits)["64"] ELSE f.bits64
           m == IF f.components = "" THEN "game" ELSE f.components
           d == IF f.components = "" THEN c.component ELSE f.components
<1>2. /\ c.languages \in Seq(Constraint) /\ c.component \in Names \cup {""} /\ c.arch \in BOOLEAN
      /\ c.call \in {"none", "install", "dependency"}
  <2> HIDE DEF c
  <2> QED BY <1>1 DEF Check
<1>3. \A b \in {"32", "64"} : architectureBits(c.bits)[b] \in BOOLEAN
  BY DEF architectureBits
<1>4. /\ l \in Seq(Constraint) /\ b32 \in BOOLEAN /\ b64 \in BOOLEAN
      /\ m \in Names \cup {"", "game"} /\ d \in Names \cup {"", "game"}
  <2>1. l \in Seq(Constraint) /\ m \in Names \cup {"", "game"} /\ d \in Names \cup {"", "game"}
    BY <1>1, <1>2
  <2>2. b32 \in BOOLEAN /\ b64 \in BOOLEAN
    <3>1. architectureBits(c.bits)["32"] \in BOOLEAN /\ architectureBits(c.bits)["64"] \in BOOLEAN
      BY <1>3
    <3> HIDE DEF c
    <3> QED BY Zenon, <1>1, <3>1
  <2> QED BY <2>1, <2>2
<1>5. CASE c.call = "none"
  <2>1. g = f
    BY <1>5 DEF Constrained
  <2> QED BY <1>5, <2>1 DEF SameMarkers, TheConstraints
<1>6. CASE c.call = "install"
  <2>1. g = [f EXCEPT !.languages = l, !.bits32 = b32, !.bits64 = b64, !.components = m]
    BY <1>6 DEF Constrained
  <2> HIDE DEF g, l, b32, b64, m
  <2>2. /\ g \in FileEntry /\ g.destination = f.destination /\ g.size = f.size /\ g.checksum = f.checksum
        /\ g.additional = f.additional /\ g.location = f.location /\ g.before = f.before
        /\ g.after = f.after /\ g.check = f.check
        /\ g.languages = l /\ g.bits32 = b32 /\ g.bits64 = b64 /\ g.components = m
    <3>1. g \in FileEntry
      BY <1>4, <2>1 DEF FileEntry
    <3>2. /\ g.destination = f.destination /\ g.size = f.size /\ g.checksum = f.checksum
          /\ g.additional = f.additional /\ g.location = f.location /\ g.before = f.before
          /\ g.after = f.after /\ g.check = f.check
          /\ g.languages = l /\ g.bits32 = b32 /\ g.bits64 = b64 /\ g.components = m
      BY <2>1 DEF FileEntry
    <3> QED BY <3>1, <3>2
  <2>3. l = IF f.check.call = "install" /\ f.check.languages # <<>> /\ ~isAllLanguages(f.check.languages, all)
            THEN f.check.languages ELSE f.languages
    BY <1>6 DEF l
  <2>4. /\ b32 = IF f.check.call = "install" /\ f.check.arch THEN architectureBits(f.check.bits)["32"] ELSE f.bits32
        /\ b64 = IF f.check.call = "install" /\ f.check.arch THEN architectureBits(f.check.bits)["64"] ELSE f.bits64
    BY Zenon, <1>6 DEF b32, b64
  <2>5. m = IF f.components # "" \/ f.check.call = "none" THEN f.components
            ELSE IF f.check.call = "install" THEN "game" ELSE f.check.component
    BY <1>6 DEF m
  <2> QED BY Zenon, <2>2, <2>3, <2>4, <2>5 DEF SameMarkers, TheConstraints, g
<1>7. CASE c.call = "dependency"
  <2>1. g = [f EXCEPT !.components = d]
    BY <1>7 DEF Constrained
  <2> HIDE DEF g, d
  <2>2. /\ g \in FileEntry /\ g.destination = f.destination /\ g.size = f.size /\ g.checksum = f.checksum
        /\ g.additional = f.additional /\ g.location = f.location /\ g.before = f.before
        /\ g.after = f.after /\ g.check = f.check
        /\ g.languages = f.languages /\ g.bits32 = f.bits32 /\ g.bits64 = f.bits64 /\ g.components = d
    BY <1>4, <2>1 DEF FileEntry
  <2>3. d = IF f.components # "" \/ f.check.call = "none" THEN f.components
            ELSE IF f.check.call = "install" THEN "game" ELSE f.check.component
    BY <1>7 DEF d
  <2>4. f.check.call # "install"
    BY <1>7
  <2> QED BY Zenon, <2>2, <2>3, <2>4 DEF SameMarkers, TheConstraints, g
<1> QED BY <1>2, <1>5, <1>6, <1>7

\* What constraints make of a file depends on its fields that they change, and
\* the second time they change nothing.
LEMMA ConstrainedAlike ==
  ASSUME NEW f \in FileEntry, NEW g \in FileEntry, NEW all, f.check = g.check, SameConstraints(f, g)
  PROVE  SameConstraints(Constrained(f, all), Constrained(g, all))
<1> DEFINE p == Constrained(f, all)
           q == Constrained(g, all)
<1>1. TheConstraints(p, f, all) /\ TheConstraints(q, g, all)
  BY ConstrainedFields
<1> HIDE DEF p, q
<1>2. p.languages = q.languages
  BY <1>1 DEF TheConstraints, SameConstraints
<1>3. p.bits32 = q.bits32
  BY Zenon, <1>1 DEF TheConstraints, SameConstraints
<1>4. p.bits64 = q.bits64
  BY Zenon, <1>1 DEF TheConstraints, SameConstraints
<1>5. p.components = q.components
  BY <1>1 DEF TheConstraints, SameConstraints
<1> QED BY <1>2, <1>3, <1>4, <1>5 DEF SameConstraints, p, q

LEMMA ConstrainedTwice ==
  ASSUME NEW f \in FileEntry, NEW all
  PROVE  SameConstraints(Constrained(Constrained(f, all), all), Constrained(f, all))
<1> DEFINE p == Constrained(f, all)
           q == Constrained(p, all)
<1>1. p \in FileEntry /\ p.check = f.check
  BY ConstrainedFields DEF SameMarkers
<1>2. TheConstraints(p, f, all) /\ TheConstraints(q, p, all)
  BY <1>1, ConstrainedFields
<1> HIDE DEF p, q
<1>3. q.languages = p.languages
  BY <1>1, <1>2 DEF TheConstraints
<1>4. q.bits32 = p.bits32
  BY Zenon, <1>1, <1>2 DEF TheConstraints
<1>5. q.bits64 = p.bits64
  BY Zenon, <1>1, <1>2 DEF TheConstraints
<1>6. q.components = p.components
  BY <1>1, <1>2 DEF TheConstraints
<1> QED BY <1>3, <1>4, <1>5, <1>6 DEF SameConstraints, p, q

LEMMA ConstrainEffect ==
  ASSUME TypeOK, Fixed, ConstrainFile
  PROVE  /\ archive' \in Archive /\ fi \in DOMAIN files0
         /\ Len(archive'.files) = Len(archive.files)
         /\ archive'.entries = archive.entries /\ archive'.galaxy = archive.galaxy
         /\ archive'.languages = archive.languages
         /\ \A k \in DOMAIN files0 :
              LET f == archive.files[k]
                  g == archive'.files[k]
              IN  /\ SameMarkers(g, f) /\ g.destination = f.destination /\ g.size = f.size
                  /\ g.checksum = f.checksum /\ g.additional = f.additional
                  /\ SameConstraints(g, IF k = fi /\ f.destination # "" THEN Constrained(f, allLanguages) ELSE f)
<1>1. fi \in DOMAIN files0
  <2>1. fi \in Nat \ {0} /\ fi <= Len(files0)
    BY DEF ConstrainFile, MoreFiles, TypeOK, Fixed, SameMarkers
  <2> QED BY <2>1, FileTypes
<1>2. CASE file.destination = ""
  <2>1. archive' = archive
    BY <1>2 DEF ConstrainFile
  <2>2. archive.files[fi].destination = ""
    BY <1>2 DEF file
  <2> QED BY <1>1, <2>1, <2>2 DEF TypeOK, SameMarkers, SameConstraints
<1>3. CASE file.destination # ""
  <2> DEFINE f0 == archive.files[fi]
             f1 == Constrained(f0, allLanguages)
  <2>1. f0 \in FileEntry /\ f0.destination # ""
    BY <1>1, <1>3, ArchiveTypes DEF file
  <2>2. archive' = [archive EXCEPT !.files[fi] = f1]
    BY <1>3 DEF ConstrainFile
  <2>3. /\ f1 \in FileEntry /\ SameMarkers(f1, f0) /\ f1.destination = f0.destination /\ f1.size = f0.size
        /\ f1.checksum = f0.checksum /\ f1.additional = f0.additional
    <3> HIDE DEF f0
    <3> QED BY <2>1, ConstrainedFields
  <2>4. /\ archive' \in Archive
        /\ Len(archive'.files) = Len(archive.files)
        /\ archive'.entries = archive.entries /\ archive'.galaxy = archive.galaxy
        /\ archive'.languages = archive.languages
        /\ \A k \in DOMAIN files0 : archive'.files[k] = IF k = fi THEN f1 ELSE archive.files[k]
    <3> HIDE DEF f1
    <3> QED BY <1>1, <2>2, <2>3, OneFileChanges
  <2>5. ASSUME NEW k \in DOMAIN files0
        PROVE  LET f == archive.files[k]
                   g == archive'.files[k]
               IN  /\ SameMarkers(g, f) /\ g.destination = f.destination /\ g.size = f.size
                   /\ g.checksum = f.checksum /\ g.additional = f.additional
                   /\ SameConstraints(g, IF k = fi /\ f.destination # "" THEN Constrained(f, allLanguages) ELSE f)
    <3>1. CASE k = fi
      <4>1. archive'.files[k] = f1 /\ archive.files[k] = f0
        BY <2>4, <3>1
      <4>2. (IF k = fi /\ f0.destination # "" THEN Constrained(f0, allLanguages) ELSE f0) = f1
        BY <2>1, <3>1
      <4> HIDE DEF f0, f1
      <4>3. SameConstraints(f1, f1)
        BY DEF SameConstraints
      <4> QED BY <2>3, <4>1, <4>2, <4>3
    <3>2. CASE k # fi
      BY <2>4, <3>2 DEF SameMarkers, SameConstraints
    <3> QED BY <3>1, <3>2
  <2> HIDE DEF f1
  <2> QED BY <1>1, <2>4, <2>5
<1> QED BY <1>2, <1>3

-----------------------------------------------------------------------------
(* Types.                                                                  *)

Quiet == Begin \/ LeaveAlone \/ NoStart \/ RejectPart \/ InterruptGroup \/ PassFile \/ EndParts
           \/ EndConstraints \/ Done

LEMMA QuietStep == Quiet => archive' = archive
BY DEF Quiet, Begin, LeaveAlone, NoStart, RejectPart, InterruptGroup, PassFile, EndParts, EndConstraints,
       Done, vars

LEMMA MergeEffect ==
  ASSUME TypeOK, Fixed, MergeLanguages
  PROVE  /\ archive' \in Archive /\ archive'.files = archive.files
         /\ archive'.entries = archive.entries /\ archive'.galaxy = archive.galaxy
         /\ archive'.languages = IF allLanguages = {} THEN archive.languages
                                 ELSE IF hasLanguageConstraints THEN archive.languages \cup allLanguages
                                 ELSE allLanguages
<1> DEFINE l == IF allLanguages = {} THEN archive.languages
                ELSE IF hasLanguageConstraints THEN archive.languages \cup allLanguages
                ELSE allLanguages
<1>1. archive' = [archive EXCEPT !.languages = l]
  BY DEF MergeLanguages
<1>2. l \subseteq Languages
  BY ArchiveTypes DEF TypeOK
<1> HIDE DEF l
<1>3. archive \in Archive
  BY DEF TypeOK
<1>4. archive' \in Archive /\ archive'.files = archive.files /\ archive'.entries = archive.entries
      /\ archive'.galaxy = archive.galaxy /\ archive'.languages = l
  BY <1>1, <1>2, <1>3 DEF Archive
<1> QED BY <1>4 DEF l

\* Every step leaves an archive of as many files and data entries, with their
\* markers.
LEMMA ArchiveStep ==
  ASSUME TypeOK, Fixed, Positions, GroupKept, Next
  PROVE  /\ archive' \in Archive
         /\ Len(archive'.files) = Len(archive.files) /\ Len(archive'.entries) = Len(archive.entries)
         /\ archive'.galaxy = archive.galaxy
         /\ \A k \in DOMAIN files0 : SameMarkers(archive'.files[k], archive.files[k])
<1>1. CASE Quiet
  <2>1. archive' = archive
    BY <1>1, QuietStep
  <2> QED BY <2>1 DEF TypeOK, SameMarkers
<1>2. CASE StartGroup
  BY <1>2, StartEffect
<1>3. CASE TakePart
  <2>1. /\ archive' \in Archive /\ Len(archive'.files) = Len(archive.files)
        /\ archive'.galaxy = archive.galaxy
        /\ archive'.entries = [archive.entries EXCEPT ![files0[fi].location + 1] = Inflated(fi)]
    BY <1>3, TakeArchive
  <2>2. Len(archive'.entries) = Len(archive.entries)
    BY <2>1, ArchiveTypes
  <2>3. \A k \in DOMAIN files0 : SameMarkers(archive'.files[k], archive.files[k])
    BY <1>3, TakeEffect
  <2> QED BY <2>1, <2>2, <2>3
<1>4. CASE ConstrainFile
  BY <1>4, ConstrainEffect
<1>5. CASE MergeLanguages
  BY <1>5, MergeEffect DEF SameMarkers
<1> QED BY <1>1, <1>2, <1>3, <1>4, <1>5 DEF Next, Quiet

LEMMA NamedType ==
  ASSUME NEW c \in Check
  PROVE  Named(c) \subseteq Languages
<1>1. c.languages \in Seq(Constraint)
  BY DEF Check
<1>2. \A x \in OneOf(c.languages) : x \in Constraint
  BY <1>1 DEF OneOf
<1>3. \A x \in OneOf(c.languages) : x.name \in Languages
  BY <1>2 DEF Constraint
<1> QED BY <1>3 DEF Named

LEMMA TypeStep ==
  ASSUME TypeOK, Fixed, Positions, GroupKept, Next
  PROVE  TypeOK'
<1>1. /\ original' = original
      /\ pc' \in {"idle", "start", "part", "constraint", "languages"}
      /\ fi' \in {1, fi, fi + 1}
  BY DEF Next, Begin, LeaveAlone, StartGroup, NoStart, TakePart, RejectPart, InterruptGroup, TypeOK,
         PassFile, EndParts, ConstrainFile, EndConstraints, MergeLanguages, Done, FileDone, vars
<1>2. archive' \in Archive /\ Len(archive'.files) = Len(archive.files)
  BY ArchiveStep
<1>3. /\ activeStart \in 0..Len(archive.files) /\ remaining \in Nat /\ remaining <= MaxUint
      /\ Len(archive.files) \in Nat /\ MaxUint \in Nat /\ fi \in Nat \ {0}
  BY GogAssumption, FileTypes DEF TypeOK, Uint, Fixed, SameMarkers
<1>4. activeStart' \in 0..Len(archive'.files) /\ remaining' \in Uint
  <2>1. activeStart' = activeStart \/ activeStart' = 0 \/ (StartGroup /\ activeStart' = fi)
    BY DEF Next, Begin, LeaveAlone, StartGroup, NoStart, TakePart, RejectPart, InterruptGroup, TypeOK,
           PassFile, EndParts, ConstrainFile, EndConstraints, MergeLanguages, Done, Abandon, vars, locals
  <2>2. remaining' = remaining \/ remaining' = 0 \/ (StartGroup /\ remaining' = Parts(file.before))
          \/ (remaining # 0 /\ remaining' = remaining - 1)
    <3>1. CASE TakePart
      BY <3>1, CountsDown
    <3> QED BY <3>1 DEF Next, Begin, LeaveAlone, StartGroup, NoStart, RejectPart, InterruptGroup, TypeOK,
           PassFile, EndParts, ConstrainFile, EndConstraints, MergeLanguages, Done, Abandon, vars, locals
  <2>3. StartGroup => fi \in DOMAIN files0 /\ remaining' \in Uint
    BY StartEffect, FileTypes
  <2>4. StartGroup => fi \in 0..Len(archive.files)
    BY <1>3, <2>3, FileTypes DEF Fixed, SameMarkers
  <2>5. activeStart' \in 0..Len(archive'.files)
    BY <1>2, <1>3, <2>1, <2>4
  <2>6. remaining' \in Uint
    BY <1>3, <2>2, <2>3 DEF Uint
  <2> QED BY <2>5, <2>6
<1>5. allLanguages' \subseteq Languages /\ hasLanguageConstraints' \in BOOLEAN
  <2>1. CASE TakePart \/ RejectPart \/ InterruptGroup \/ PassFile
    <3>1. fi \in DOMAIN files0
      BY <2>1, TakesPart, NoPartHere
    <3>2. FileDone
      BY <2>1 DEF TakePart, RejectPart, InterruptGroup, PassFile
    <3>3. archive'.files[fi].check = files0[fi].check
      BY <3>1, ArchiveStep DEF SameMarkers, Fixed
    <3>4. files0[fi].check \in Check
      <4>1. files0[fi] \in FileEntry
        BY <3>1, FileTypes
      <4> QED BY <4>1 DEF FileEntry
    <3>5. Named(archive'.files[fi].check) \subseteq Languages
      BY <3>3, <3>4, NamedType
    <3>6. allLanguages' \subseteq Languages
      BY <3>2, <3>5 DEF FileDone, TypeOK
    <3>7. hasLanguageConstraints' \in BOOLEAN
      BY <3>2 DEF FileDone
    <3> QED BY <3>6, <3>7
  <2>2. CASE ~(TakePart \/ RejectPart \/ InterruptGroup \/ PassFile)
    <3>1. /\ allLanguages' = allLanguages \/ allLanguages' = {}
          /\ hasLanguageConstraints' = hasLanguageConstraints \/ hasLanguageConstraints' = FALSE
      BY <2>2 DEF Next, Begin, LeaveAlone, StartGroup, NoStart,
             EndParts, ConstrainFile, EndConstraints, MergeLanguages, Done, vars, locals
    <3> QED BY <3>1 DEF TypeOK
  <2> QED BY <2>1, <2>2
<1>6. applied' \in Seq(Archive)
  <2>1. applied' = applied \/ applied' = Append(applied, archive')
    BY DEF Next, Begin, LeaveAlone, StartGroup, NoStart, TakePart, RejectPart, InterruptGroup, TypeOK,
           PassFile, EndParts, ConstrainFile, EndConstraints, MergeLanguages, Done, FileDone, vars
  <2> QED BY <1>2, <2>1 DEF TypeOK
<1>7. original' \in Archive /\ fi' \in Nat \ {0}
  BY <1>1, <1>3 DEF TypeOK
<1> QED BY <1>1, <1>2, <1>4, <1>5, <1>6, <1>7 DEF TypeOK

LEMMA FixedStep ==
  ASSUME TypeOK, Fixed, Positions, GroupKept, Next
  PROVE  Fixed'
<1>1. original' = original
  BY DEF Next, Begin, LeaveAlone, StartGroup, NoStart, TakePart, RejectPart, InterruptGroup,
         PassFile, EndParts, ConstrainFile, EndConstraints, MergeLanguages, Done, FileDone, vars
<1>2. files0' = files0
  BY <1>1, Frozen
<1> QED BY <1>1, <1>2, ArchiveStep DEF Fixed, SameMarkers

LEMMA PositionsStep ==
  ASSUME TypeOK, Fixed, Positions, GroupKept, Next
  PROVE  Positions'
<1>1. original' = original
  BY DEF Next, Begin, LeaveAlone, StartGroup, NoStart, TakePart, RejectPart, InterruptGroup,
         PassFile, EndParts, ConstrainFile, EndConstraints, MergeLanguages, Done, FileDone, vars
<1>2. files0' = files0 /\ (Active' <=> Active)
  BY <1>1, Frozen
<1>3. fi \in Nat \ {0} /\ Len(files0) \in Nat /\ Len(archive.files) = Len(files0)
  BY FileTypes DEF TypeOK, Fixed, SameMarkers
<1>4. hasGalaxyMarkers <=> \E i \in DOMAIN files0 : files0[i].before.args > 0 \/ files0[i].after.args > 0
  BY ArchiveTypes DEF hasGalaxyMarkers, Fixed, SameMarkers
<1>5. archive.galaxy \/ hasGalaxyMarkers <=> Active
  BY <1>4 DEF Active, Fixed, SameMarkers
<1>6. /\ pc' = "part" => fi' <= Len(files0)
      /\ pc' \in {"start", "constraint"} => fi' <= Len(files0) + 1
  <2>1. CASE StartGroup \/ NoStart
    <3>1. pc' = "part" /\ fi' = fi /\ fi <= Len(archive.files)
      BY <2>1 DEF StartGroup, NoStart, MoreFiles
    <3> QED BY <1>3, <3>1
  <2>2. CASE TakePart \/ RejectPart \/ InterruptGroup \/ PassFile
    <3>1. pc = "part" /\ pc' = "start" /\ fi' = fi + 1
      BY <2>2 DEF TakePart, RejectPart, InterruptGroup, PassFile, FileDone
    <3>2. fi <= Len(files0)
      BY <3>1 DEF Positions
    <3> QED BY <1>3, <3>1, <3>2
  <2>3. CASE ConstrainFile
    <3>1. pc' = "constraint" /\ fi' = fi + 1 /\ fi <= Len(archive.files)
      BY <2>3 DEF ConstrainFile, MoreFiles
    <3> QED BY <1>3, <3>1
  <2>4. CASE Begin \/ EndParts
    <3>1. fi' = 1 /\ pc' # "part"
      BY <2>4 DEF Begin, EndParts
    <3> QED BY <1>3, <3>1
  <2>5. CASE LeaveAlone \/ EndConstraints \/ MergeLanguages \/ Done
    <3>1. pc' \in {"idle", "languages"}
      BY <2>5 DEF LeaveAlone, EndConstraints, MergeLanguages, Done, vars
    <3> QED BY <3>1
  <2> QED BY <2>1, <2>2, <2>3, <2>4, <2>5 DEF Next
<1>7. Active' \/ (pc' = "idle" /\ archive' = original' /\ \A k \in DOMAIN applied' : applied'[k] = original')
  <2> SUFFICES ASSUME ~Active
               PROVE  pc' = "idle" /\ archive' = original' /\ \A k \in DOMAIN applied' : applied'[k] = original'
    BY <1>2
  <2>1. pc = "idle" /\ archive = original /\ \A k \in DOMAIN applied : applied[k] = original
    BY DEF Positions
  <2>2. LeaveAlone \/ Done
    BY <1>5, <2>1 DEF Next, Begin, StartGroup, NoStart, TakePart, RejectPart, InterruptGroup,
           PassFile, EndParts, ConstrainFile, EndConstraints, MergeLanguages
  <2>3. /\ pc' = "idle" /\ archive' = archive /\ archive \in Archive /\ applied \in Seq(Archive)
        /\ applied' = applied \/ applied' = Append(applied, archive)
    BY <2>1, <2>2 DEF LeaveAlone, Done, vars, TypeOK
  <2>4. \A k \in DOMAIN applied' : applied'[k] = original
    BY <2>1, <2>3
  <2> QED BY <1>1, <2>1, <2>3, <2>4
<1> QED BY <1>2, <1>6, <1>7 DEF Positions

-----------------------------------------------------------------------------
(* How far a call has come.                                                *)

Base == TypeOK /\ Fixed /\ Positions /\ GroupKept

\* The steps that pass no marker.
Between == Begin \/ EndParts \/ ConstrainFile \/ EndConstraints \/ MergeLanguages \/ Done

LEMMA BeginsFile ==
  ASSUME Base, StartGroup \/ NoStart
  PROVE  /\ fi \in DOMAIN files0 /\ fi \in Nat /\ begun = fi - 1 /\ begun' = fi
         /\ passed = fi - 1 /\ passed' = fi - 1 /\ constrained = 0 /\ constrained' = 0
         /\ applied' = applied /\ original' = original /\ pc # "idle" /\ pc' # "idle"
         /\ allLanguages' = allLanguages /\ hasLanguageConstraints' = hasLanguageConstraints
<1>1. /\ pc = "start" /\ pc' = "part" /\ fi' = fi /\ applied' = applied /\ original' = original
      /\ allLanguages' = allLanguages /\ hasLanguageConstraints' = hasLanguageConstraints
      /\ fi <= Len(archive.files)
  BY DEF StartGroup, NoStart, MoreFiles, locals
<1>2. fi \in DOMAIN files0 /\ fi \in Nat
  BY <1>1, FileTypes DEF Base, TypeOK, Fixed, SameMarkers
<1> QED BY <1>1, <1>2 DEF begun, passed, constrained

LEMMA PassesFile ==
  ASSUME Base, TakePart \/ RejectPart \/ InterruptGroup \/ PassFile
  PROVE  /\ fi \in DOMAIN files0 /\ fi \in Nat /\ begun = fi /\ begun' = fi
         /\ passed = fi - 1 /\ passed' = fi /\ constrained = 0 /\ constrained' = 0
         /\ applied' = applied /\ original' = original /\ pc # "idle" /\ pc' # "idle"
<1>1. fi \in DOMAIN files0 /\ fi \in Nat
  BY TakesPart, NoPartHere, FileTypes DEF Base
<1>2. pc = "part" /\ FileDone
  BY DEF TakePart, RejectPart, InterruptGroup, PassFile
<1>3. pc' = "start" /\ fi' = fi + 1 /\ applied' = applied /\ original' = original
  BY <1>2 DEF FileDone
<1> QED BY <1>1, <1>2, <1>3 DEF begun, passed, constrained

LEMMA BetweenFiles ==
  ASSUME Base, Between
  PROVE  /\ original' = original
         /\ \A i \in DOMAIN files0 : /\ (Again \/ i <= begun)' <=> Again \/ i <= begun
                                     /\ (Again \/ i <= passed)' <=> Again \/ i <= passed
         /\ Begin => /\ begun' = 0 /\ passed' = 0 /\ constrained = 0 /\ constrained' = 0 /\ applied' = applied
                     /\ begun = IF Again THEN Len(files0) ELSE 0
                     /\ passed = IF Again THEN Len(files0) ELSE 0
         /\ Done => begun' = begun /\ passed' = passed /\ constrained' = constrained /\ applied' = applied
         /\ EndParts => begun = Len(files0) /\ begun' = Len(files0)
                        /\ passed = Len(files0) /\ passed' = Len(files0) /\ applied' = applied
                        /\ constrained = 0 /\ constrained' = 0
         /\ ConstrainFile => begun = Len(files0) /\ begun' = Len(files0)
                             /\ passed = Len(files0) /\ passed' = Len(files0) /\ applied' = applied
                             /\ constrained = fi - 1 /\ constrained' = fi
         /\ EndConstraints => begun = Len(files0) /\ begun' = Len(files0)
                              /\ passed = Len(files0) /\ passed' = Len(files0) /\ applied' = applied
                              /\ constrained = Len(files0) /\ constrained' = Len(files0)
         /\ MergeLanguages => begun = Len(files0) /\ begun' = Len(files0)
                              /\ passed = Len(files0) /\ passed' = Len(files0)
                              /\ constrained = Len(files0) /\ constrained' = 0
                              /\ applied' = Append(applied, archive') /\ Again'
<1>0. original' = original
  BY DEF Between, Begin, EndParts, ConstrainFile, EndConstraints, MergeLanguages, Done, vars
<1>1. files0' = files0
  BY <1>0 DEF files0
<1>2. /\ fi \in Nat /\ fi >= 1 /\ Len(files0) \in Nat /\ Len(archive.files) = Len(files0)
      /\ DOMAIN files0 = 1..Len(files0) /\ applied \in Seq(Archive)
  BY FileTypes DEF Base, TypeOK, Fixed, SameMarkers
<1>3. CASE Begin
  <2>1. pc = "idle" /\ pc' = "start" /\ fi' = 1 /\ applied' = applied
    BY <1>3 DEF Begin
  <2>2. begun' = 0 /\ passed' = 0 /\ constrained = 0 /\ constrained' = 0
    BY <2>1 DEF begun, passed, constrained
  <2>3. /\ begun = IF Again THEN Len(files0) ELSE 0
        /\ passed = IF Again THEN Len(files0) ELSE 0
    BY <2>1 DEF begun, passed
  <2>4. Again' <=> Again
    BY <2>1 DEF Again
  <2>5. ~EndParts /\ ~ConstrainFile /\ ~EndConstraints /\ ~MergeLanguages /\ ~Done
    BY <2>1 DEF EndParts, ConstrainFile, EndConstraints, MergeLanguages, Done, vars
  <2> QED BY <1>0, <1>2, <2>1, <2>2, <2>3, <2>4, <2>5
<1>4. CASE EndParts
  <2>1. pc = "start" /\ pc' = "constraint" /\ fi' = 1 /\ applied' = applied /\ ~(fi <= Len(archive.files))
    BY <1>4 DEF EndParts, MoreFiles
  <2>2. fi <= Len(files0) + 1
    BY <2>1 DEF Base, Positions
  <2>3. fi - 1 = Len(files0)
    BY <1>2, <2>1, <2>2
  <2>4. /\ begun = Len(files0) /\ begun' = Len(files0) /\ passed = Len(files0) /\ passed' = Len(files0)
        /\ constrained = 0 /\ constrained' = 0
    BY <1>1, <2>1, <2>3 DEF begun, passed, constrained
  <2>5. Again' <=> Again
    BY <2>1 DEF Again
  <2>6. ~Begin /\ ~ConstrainFile /\ ~EndConstraints /\ ~MergeLanguages /\ ~Done
    BY <2>1 DEF Begin, ConstrainFile, EndConstraints, MergeLanguages, Done
  <2> QED BY <1>0, <2>1, <2>4, <2>5, <2>6
<1>5. CASE ConstrainFile
  <2>1. pc = "constraint" /\ pc' = "constraint" /\ fi' = fi + 1 /\ applied' = applied
    BY <1>5 DEF ConstrainFile
  <2>2. /\ begun = Len(files0) /\ begun' = Len(files0) /\ passed = Len(files0) /\ passed' = Len(files0)
        /\ constrained = fi - 1 /\ constrained' = fi
    BY <1>1, <1>2, <2>1 DEF begun, passed, constrained
  <2>3. Again' <=> Again
    BY <2>1 DEF Again
  <2>4. ~Begin /\ ~EndParts /\ ~EndConstraints /\ ~MergeLanguages /\ ~Done
    BY <1>5, <2>1 DEF Begin, EndParts, EndConstraints, MergeLanguages, ConstrainFile, Done
  <2> QED BY <1>0, <2>1, <2>2, <2>3, <2>4
<1>6. CASE EndConstraints
  <2>1. pc = "constraint" /\ pc' = "languages" /\ applied' = applied /\ ~(fi <= Len(archive.files))
    BY <1>6 DEF EndConstraints, MoreFiles
  <2>2. fi <= Len(files0) + 1
    BY <2>1 DEF Base, Positions
  <2>3. fi - 1 = Len(files0)
    BY <1>2, <2>1, <2>2
  <2>4. /\ begun = Len(files0) /\ begun' = Len(files0) /\ passed = Len(files0) /\ passed' = Len(files0)
        /\ constrained = Len(files0) /\ constrained' = Len(files0)
    BY <1>1, <2>1, <2>3 DEF begun, passed, constrained
  <2>5. Again' <=> Again
    BY <2>1 DEF Again
  <2>6. ~Begin /\ ~EndParts /\ ~ConstrainFile /\ ~MergeLanguages /\ ~Done
    BY <1>6, <2>1 DEF Begin, EndParts, ConstrainFile, EndConstraints, MergeLanguages, Done
  <2> QED BY <1>0, <2>1, <2>4, <2>5, <2>6
<1>7. CASE MergeLanguages
  <2>1. pc = "languages" /\ pc' = "idle" /\ applied' = Append(applied, archive')
    BY <1>7 DEF MergeLanguages
  <2>2. Again'
    BY <1>2, <2>1 DEF Again
  <2>3. /\ begun = Len(files0) /\ begun' = Len(files0) /\ passed = Len(files0) /\ passed' = Len(files0)
        /\ constrained = Len(files0) /\ constrained' = 0
    BY <1>1, <2>1, <2>2 DEF begun, passed, constrained
  <2>4. ~Begin /\ ~EndParts /\ ~ConstrainFile /\ ~EndConstraints /\ ~Done
    BY <2>1 DEF Begin, EndParts, ConstrainFile, EndConstraints, Done
  <2>5. \A i \in DOMAIN files0 : i <= Len(files0)
    BY <1>2
  <2> QED BY <1>0, <2>1, <2>2, <2>3, <2>4, <2>5
<1>8. CASE Done
  <2>1. pc = "idle" /\ pc' = pc /\ fi' = fi /\ applied' = applied
    BY <1>8 DEF Done, vars
  <2>2. (Again' <=> Again) /\ begun' = begun /\ passed' = passed /\ constrained' = constrained
    BY <1>1, <2>1 DEF Again, begun, passed, constrained
  <2>3. /\ ~EndParts /\ ~ConstrainFile /\ ~EndConstraints /\ ~MergeLanguages /\ ~Begin
    BY <1>8, <2>1 DEF EndParts, ConstrainFile, EndConstraints, MergeLanguages, Begin
  <2> QED BY <1>0, <2>1, <2>2, <2>3
<1> QED BY <1>3, <1>4, <1>5, <1>6, <1>7, <1>8 DEF Between

\* A file that starts no group has no name in its marker.
LEMMA NamedIsStart ==
  ASSUME TypeOK, NEW i \in DOMAIN files0, HasName(i)
  PROVE  IsStart(i)
<1>1. PICK args \in Nat : args = files0[i].before.args
  BY FileTypes
<1>2. args >= 2
  BY <1>1 DEF HasName
<1>3. args > 0
  BY <1>2
<1> QED BY <1>1, <1>3 DEF IsStart

\* Where nothing is marked, there is no group, and nothing happens.
LEMMA NothingMarked ==
  ASSUME Base, LeaveAlone
  PROVE  /\ original' = original /\ archive' = original /\ archive = original
         /\ ~Active /\ ~Active' /\ pc = "idle" /\ pc' = "idle" /\ applied' = Append(applied, original)
         /\ \A k \in DOMAIN applied : applied[k] = original
         /\ \A i \in DOMAIN files0 : ~IsStart(i) /\ ~HasName(i) /\ ~IsPart(i) /\ PartsOf(i) = {}
         /\ \A i, j \in DOMAIN files0 : ~PartOf(i, j)
<1>1. /\ original' = original /\ archive' = archive /\ pc = "idle" /\ pc' = "idle"
      /\ applied' = Append(applied, archive) /\ ~archive.galaxy /\ ~hasGalaxyMarkers
  BY DEF LeaveAlone
<1>2. hasGalaxyMarkers <=> \E i \in DOMAIN files0 : files0[i].before.args > 0 \/ files0[i].after.args > 0
  BY ArchiveTypes DEF Base, hasGalaxyMarkers, Fixed, SameMarkers
<1>3. ~Active
  BY <1>1, <1>2 DEF Active, Base, Fixed, SameMarkers
<1>4. archive = original /\ \A k \in DOMAIN applied : applied[k] = original
  BY <1>3 DEF Base, Positions
<1>5. ~Active'
  BY <1>1, <1>3, Frozen
<1>6. \A i \in DOMAIN files0 : files0[i].before.args \in Nat /\ ~(files0[i].before.args > 0)
  BY <1>3, FileTypes DEF Active, Base
<1>7. \A i \in DOMAIN files0 : ~IsStart(i) /\ ~HasName(i)
  BY <1>6, NamedIsStart DEF IsStart, Base
<1>8. \A i, j \in DOMAIN files0 : ~PartOf(i, j)
  BY <1>7, PartFacts DEF Base
<1> QED BY <1>1, <1>3, <1>4, <1>5, <1>7, <1>8 DEF IsPart, PartsOf

LEMMA BaseStep ==
  ASSUME Base, Next
  PROVE  Base'
BY TypeStep, FixedStep, PositionsStep, GroupStep DEF Base

-----------------------------------------------------------------------------
(* Names and checksums.                                                    *)

\* What a step between the files leaves alone.
LEMMA BetweenEffect ==
  ASSUME Base, Between
  PROVE  /\ archive'.entries = archive.entries
         /\ \A k \in DOMAIN files0 :
              LET f == archive.files[k]
                  g == archive'.files[k]
              IN  /\ g.destination = f.destination /\ g.size = f.size
                  /\ g.checksum = f.checksum /\ g.additional = f.additional
         /\ ~ConstrainFile => archive'.files = archive.files
         /\ ~MergeLanguages => archive'.languages = archive.languages
<1>1. CASE ConstrainFile
  BY <1>1, ConstrainEffect DEF Base
<1>2. CASE MergeLanguages
  <2>1. ~ConstrainFile
    BY <1>2 DEF MergeLanguages, ConstrainFile
  <2> QED BY <1>2, <2>1, MergeEffect DEF Base
<1>3. CASE ~ConstrainFile /\ ~MergeLanguages
  BY <1>3, QuietStep DEF Between, Quiet
<1> QED BY <1>1, <1>2, <1>3

\* A part marker that is not taken leaves the archive alone.
LEMMA OtherEffect == RejectPart \/ InterruptGroup \/ PassFile \/ NoStart => archive' = archive
BY DEF RejectPart, InterruptGroup, PassFile, NoStart

LEMMA NamesStep ==
  ASSUME Base, NamesKept, Next
  PROVE  NamesKept'
<1> DEFINE D(i, b, p) == IF p /\ IsPart(i) THEN ""
                         ELSE IF b /\ HasName(i) THEN files0[i].before.name
                         ELSE files0[i].destination
<1>0. original' = original
  BY BeginsFile, PassesFile, BetweenFiles, NothingMarked DEF Next, Between
<1>1. /\ files0' = files0
      /\ \A i : IsPart(i)' <=> IsPart(i)
      /\ \A i : HasName(i)' <=> HasName(i)
  BY <1>0, Frozen
<1>2. \A i \in DOMAIN files0 : archive.files[i].destination = D(i, Again \/ i <= begun, Again \/ i <= passed)
  BY DEF NamesKept
<1> SUFFICES ASSUME NEW i \in DOMAIN files0
             PROVE  archive'.files[i].destination = D(i, (Again \/ i <= begun)', (Again \/ i <= passed)')
  BY <1>1 DEF NamesKept
<1>3. archive.files[i].destination = D(i, Again \/ i <= begun, Again \/ i <= passed)
  BY <1>2
<1>4. i \in Nat /\ TypeOK
  BY FileTypes DEF Base
<1>5. IsPart(i) => ~IsStart(i) /\ ~HasName(i)
  BY <1>4, StartsAreNoParts, NamedIsStart
<1>6. CASE Between
  <2>1. archive'.files[i].destination = archive.files[i].destination
    BY <1>6, BetweenEffect
  <2>2. ((Again \/ i <= begun)' <=> Again \/ i <= begun) /\ ((Again \/ i <= passed)' <=> Again \/ i <= passed)
    BY <1>6, BetweenFiles
  <2> QED BY Zenon, <1>3, <2>1, <2>2
<1>7. CASE LeaveAlone
  <2>1. archive' = original /\ ~IsPart(i) /\ ~HasName(i)
    BY <1>7, NothingMarked
  <2> QED BY <2>1 DEF files0
<1>8. CASE StartGroup \/ NoStart
  <2>1. /\ fi \in Nat /\ begun = fi - 1 /\ begun' = fi /\ passed' = passed
        /\ (Again' <=> Again) /\ fi \in DOMAIN files0
    BY <1>8, BeginsFile DEF Again
  <2>2. (Again \/ i <= passed)' <=> Again \/ i <= passed
    BY <2>1
  <2>3. i # fi => ((Again \/ i <= begun)' <=> Again \/ i <= begun)
    BY <1>4, <2>1
  <2>4. i = fi => (Again \/ i <= begun)'
    BY <1>4, <2>1
  <2>5. CASE i # fi
    <3>1. archive'.files[i].destination = archive.files[i].destination
      BY <1>4, <1>8, <2>5, StartEffect, OtherEffect DEF Base
    <3> QED BY Zenon, <1>3, <2>2, <2>3, <2>5, <3>1
  <2>6. CASE i = fi /\ StartGroup
    <3>1. /\ IsStart(i)
          /\ archive'.files[i].destination = IF HasName(i) THEN files0[i].before.name
                                             ELSE archive.files[i].destination
      BY <2>6, StartEffect DEF Base
    <3>2. ~IsPart(i)
      BY <1>5, <3>1
    <3> QED BY Zenon, <1>3, <2>4, <2>6, <3>1, <3>2
  <2>7. CASE i = fi /\ NoStart
    <3>1. archive' = archive /\ ~HasName(i)
      <4>1. archive' = archive
        BY <2>7, OtherEffect
      <4>2. file.before = files0[i].before
        BY <2>7 DEF Base, Fixed, SameMarkers, file
      <4>3. ~IsStart(i)
        BY <2>7, <4>2 DEF NoStart, IsStart
      <4> QED BY <1>4, <4>1, <4>3, NamedIsStart
    <3> QED BY Zenon, <1>3, <2>2, <3>1
  <2> QED BY <1>8, <2>5, <2>6, <2>7
<1>9. CASE TakePart \/ RejectPart \/ InterruptGroup \/ PassFile
  <2>1. /\ fi \in Nat /\ begun' = begun /\ passed = fi - 1 /\ passed' = fi
        /\ (Again' <=> Again) /\ fi \in DOMAIN files0
    BY <1>9, PassesFile DEF Again
  <2>2. (Again \/ i <= begun)' <=> Again \/ i <= begun
    BY <2>1
  <2>3. i # fi => ((Again \/ i <= passed)' <=> Again \/ i <= passed)
    BY <1>4, <2>1
  <2>4. i = fi => (Again \/ i <= passed)'
    BY <1>4, <2>1
  <2>5. CASE i # fi
    <3>1. archive'.files[i].destination = archive.files[i].destination
      BY <1>9, <2>5, TakeEffect, OtherEffect DEF Base
    <3> QED BY Zenon, <1>3, <2>2, <2>3, <2>5, <3>1
  <2>6. CASE i = fi /\ TakePart
    <3>1. /\ activeStart \in DOMAIN files0 /\ PartOf(activeStart, i)
          /\ archive'.files[i].destination = IF i # activeStart THEN "" ELSE archive.files[i].destination
      BY <2>6, TakesPart, TakeEffect DEF Base
    <3>2. CASE i # activeStart
      <4>1. IsPart(i)
        BY <3>1, <3>2 DEF IsPart
      <4> QED BY Zenon, <2>4, <2>6, <3>1, <3>2, <4>1
    <3>3. CASE i = activeStart
      <4>1. IsStart(i)
        BY <1>4, <3>1, <3>3, PartFacts
      <4>2. ~IsPart(i)
        BY <1>5, <4>1
      <4> QED BY Zenon, <1>3, <2>2, <3>1, <3>3, <4>2
    <3> QED BY <3>2, <3>3
  <2>7. CASE i = fi /\ ~TakePart
    <3>1. archive' = archive
      BY <1>9, <2>7, OtherEffect
    <3>2. ~IsPart(i)
      BY <1>9, <2>7, NoPartHere DEF IsPart, Base
    <3> QED BY Zenon, <1>3, <2>2, <3>1, <3>2
  <2> QED BY <2>5, <2>6, <2>7
<1> QED BY <1>6, <1>7, <1>8, <1>9 DEF Next, Between

LEMMA ChecksumsStep ==
  ASSUME Base, ChecksumsKept, Next
  PROVE  ChecksumsKept'
<1> DEFINE D(i, b) == IF b /\ IsStart(i) THEN IF files0[i].before.md5 THEN "marker" ELSE "none"
                      ELSE files0[i].checksum
<1>0. original' = original
  BY BeginsFile, PassesFile, BetweenFiles, NothingMarked DEF Next, Between
<1>1. /\ files0' = files0
      /\ \A i : IsStart(i)' <=> IsStart(i)
  BY <1>0, Frozen
<1>2. \A i \in DOMAIN files0 : archive.files[i].checksum = D(i, Again \/ i <= begun)
  BY Zenon DEF ChecksumsKept
<1> SUFFICES ASSUME NEW i \in DOMAIN files0
             PROVE  archive'.files[i].checksum = D(i, (Again \/ i <= begun)')
  BY <1>1 DEF ChecksumsKept
<1>3. archive.files[i].checksum = D(i, Again \/ i <= begun)
  BY <1>2
<1>4. i \in Nat
  BY FileTypes DEF Base
<1>5. CASE Between
  <2>1. archive'.files[i].checksum = archive.files[i].checksum
    BY <1>5, BetweenEffect
  <2>2. (Again \/ i <= begun)' <=> Again \/ i <= begun
    BY <1>5, BetweenFiles
  <2> QED BY Zenon, <1>3, <2>1, <2>2
<1>6. CASE LeaveAlone
  <2>1. archive' = original /\ ~IsStart(i)
    BY <1>6, NothingMarked
  <2> QED BY <2>1 DEF files0
<1>7. CASE StartGroup \/ NoStart
  <2>1. /\ fi \in Nat /\ begun = fi - 1 /\ begun' = fi /\ (Again' <=> Again) /\ fi \in DOMAIN files0
    BY <1>7, BeginsFile DEF Again
  <2>2. i # fi => ((Again \/ i <= begun)' <=> Again \/ i <= begun)
    BY <1>4, <2>1
  <2>3. i = fi => (Again \/ i <= begun)'
    BY <1>4, <2>1
  <2>4. CASE i # fi
    <3>1. archive'.files[i].checksum = archive.files[i].checksum
      BY <1>7, <2>4, StartEffect, OtherEffect DEF Base
    <3> QED BY Zenon, <1>3, <2>2, <2>4, <3>1
  <2>5. CASE i = fi /\ StartGroup
    <3>1. IsStart(i) /\ archive'.files[i].checksum = IF files0[i].before.md5 THEN "marker" ELSE "none"
      BY <2>5, StartEffect DEF Base
    <3> QED BY Zenon, <2>3, <2>5, <3>1
  <2>6. CASE i = fi /\ NoStart
    <3>1. archive' = archive
      BY <2>6, OtherEffect
    <3>2. file.before = files0[i].before
      BY <2>6 DEF Base, Fixed, SameMarkers, file
    <3>3. ~IsStart(i)
      BY <2>6, <3>2 DEF NoStart, IsStart
    <3> QED BY Zenon, <1>3, <3>1, <3>3
  <2> QED BY <1>7, <2>4, <2>5, <2>6
<1>8. CASE TakePart \/ RejectPart \/ InterruptGroup \/ PassFile
  <2>1. (Again \/ i <= begun)' <=> Again \/ i <= begun
    BY <1>8, PassesFile DEF Again
  <2>2. archive'.files[i].checksum = archive.files[i].checksum
    BY <1>8, TakeEffect, OtherEffect DEF Base
  <2> QED BY Zenon, <1>3, <2>1, <2>2
<1> QED BY <1>5, <1>6, <1>7, <1>8 DEF Next, Between

-----------------------------------------------------------------------------
(* Sizes.                                                                  *)

\* A sum that wraps at every step is the sum that wraps once.
LEMMA ModSum ==
  ASSUME NEW a \in Nat, NEW b \in Nat, NEW m \in Nat \ {0}
  PROVE  ((a % m) + b) % m = (a + b) % m
<1>1. PICK r \in 0..(m - 1), q \in Nat : a % m = r /\ a = m * q + r
  BY DivMod
<1>2. PICK t \in 0..(m - 1), p \in Nat : (r + b) % m = t /\ r + b = m * p + t
  <2>1. r + b \in Nat
    OBVIOUS
  <2> QED BY <2>1, DivMod
<1>3. a + b = m * (q + p) + t
  <2>1. m * (q + p) = m * q + m * p
    OBVIOUS
  <2> QED BY <1>1, <1>2, <2>1
<1>4. (a + b) % m = t
  <2>1. q + p \in Int
    OBVIOUS
  <2> QED BY <1>3, <2>1, ModIs
<1> QED BY <1>1, <1>2, <1>4

\* A file that is no part of a group leaves its size alone.
LEMMA SizeStays ==
  ASSUME TypeOK, NEW i \in DOMAIN files0, NEW j \in DOMAIN files0, i <= j, ~PartOf(i, j),
         NEW x, SizeUpTo(x, i, j - 1)
  PROVE  SizeUpTo(x, i, j)
<1>1. i \in Nat /\ j \in Nat
  BY FileTypes
<1>2. CASE ~IsStart(i)
  BY <1>2 DEF SizeUpTo
<1>3. CASE IsStart(i)
  <2>1. /\ ~PartOf(i, i) \/ j - 1 < i => x = 0
        /\ \A k \in i..(j - 1) : PartOf(i, k) /\ (k = j - 1 \/ ~PartOf(i, k + 1)) =>
             x = Sums(Sizes(i))[k - i + 1] % (MaxUint + 1)
    BY <1>3 DEF SizeUpTo
  <2>2. ~PartOf(i, i) \/ j < i => x = 0
    BY <1>1, <2>1
  <2>3. ASSUME NEW k \in i..j, PartOf(i, k), k = j \/ ~PartOf(i, k + 1)
        PROVE  x = Sums(Sizes(i))[k - i + 1] % (MaxUint + 1)
    <3>1. k # j
      BY <2>3
    <3>2. k \in i..(j - 1)
      BY <1>1, <3>1
    <3> QED BY <2>1, <2>3, <3>1, <3>2
  <2> QED BY <1>3, <2>2, <2>3 DEF SizeUpTo
<1> QED BY <1>2, <1>3

\* The next part of a group is added to the size of its start.
LEMMA SizeGrows ==
  ASSUME TypeOK, NEW i \in DOMAIN files0, NEW j \in DOMAIN files0, PartOf(i, j),
         NEW x, SizeUpTo(x, i, j - 1)
  PROVE  SizeUpTo(Grown(x, files0[j].after.size), i, j)
<1> DEFINE s == Sums(Sizes(i))
           z == files0[j].after.size
           M == MaxUint + 1
<1>1. /\ i \in Nat /\ j \in Nat /\ i <= j /\ IsStart(i) /\ \A k \in i..j : PartOf(i, k)
      /\ DOMAIN files0 = 1..Len(files0) /\ Len(files0) \in Nat
  BY FileTypes, PartFacts
<1>2. z \in Nat /\ M \in Nat \ {0}
  BY PartFacts, GogAssumption DEF Uint
<1>3. /\ PartsOf(i) # {} /\ j \in PartsOf(i)
  BY DEF PartsOf
<1>4. /\ Sizes(i) \in Seq(Nat) /\ j - i + 1 \in 1..Len(Sizes(i)) /\ Sizes(i)[j - i + 1] = z
  BY <1>3, SizesType
<1>5. /\ Len(Sizes(i)) \in Nat /\ s[0] = 0
      /\ \A k \in 0..Len(Sizes(i)) : s[k] \in Nat
      /\ \A k \in 1..Len(Sizes(i)) : s[k] = s[k - 1] + Sizes(i)[k]
  BY <1>4, SumsOfNat
<1> HIDE DEF s, z, M
<1>6. s[j - i + 1] = s[j - i] + z /\ s[j - i] \in Nat
  <2>1. (j - i + 1) - 1 = j - i /\ j - i \in 0..Len(Sizes(i))
    BY <1>1, <1>4, <1>5
  <2> QED BY <1>4, <1>5, <2>1
<1>7. /\ ~PartOf(i, i) \/ j - 1 < i => x = 0
      /\ \A k \in i..(j - 1) : PartOf(i, k) /\ (k = j - 1 \/ ~PartOf(i, k + 1)) => x = s[k - i + 1] % M
  BY <1>1 DEF SizeUpTo, s, M
<1>8. x = s[j - i] % M
  <2>1. CASE i = j
    <3>1. x = 0 /\ j - i = 0
      BY <1>1, <1>7, <2>1
    <3>2. 0 % M = 0
      BY <1>2
    <3> QED BY <1>5, <3>1, <3>2
  <2>2. CASE i # j
    <3>1. j - 1 \in i..(j - 1) /\ j - 1 \in i..j /\ (j - 1) - i + 1 = j - i
      BY <1>1, <2>2
    <3> QED BY <1>1, <1>7, <3>1
  <2> QED BY <2>1, <2>2
<1>9. (x + z) % M = s[j - i + 1] % M
  BY <1>2, <1>6, <1>8, ModSum
<1>10. ASSUME NEW k \in i..j, k = j \/ ~PartOf(i, k + 1) PROVE k = j
  <2>1. k # j => k + 1 \in i..j
    BY <1>1
  <2> QED BY <1>1, <1>10, <2>1
<1>11. PartOf(i, i) /\ ~(j < i)
  BY <1>1
<1>12. Grown(x, z) = s[j - i + 1] % M
  BY <1>9 DEF Grown, M
<1> QED BY <1>1, <1>10, <1>11, <1>12 DEF SizeUpTo, s, M, z

LEMMA SizesStep ==
  ASSUME Base, SizesKept, Next
  PROVE  SizesKept'
<1>0. original' = original
  BY BeginsFile, PassesFile, BetweenFiles, NothingMarked DEF Next, Between
<1>1. /\ files0' = files0
      /\ \A x, i, m : SizeUpTo(x, i, m)' <=> SizeUpTo(x, i, m)
  BY <1>0, Frozen
<1> SUFFICES ASSUME NEW i \in DOMAIN files0
             PROVE  IF i <= begun' THEN SizeUpTo(archive'.files[i].size, i, passed')
                    ELSE IF Again' THEN SizeUpTo(archive'.files[i].size, i, Len(files0))
                    ELSE archive'.files[i].size = files0[i].size
  BY <1>1 DEF SizesKept
<1> DEFINE x == archive.files[i].size
           y == archive'.files[i].size
<1>2. IF i <= begun THEN SizeUpTo(x, i, passed)
      ELSE IF Again THEN SizeUpTo(x, i, Len(files0))
      ELSE x = files0[i].size
  BY DEF SizesKept
<1>3. i \in Nat /\ i >= 1 /\ i <= Len(files0) /\ Len(files0) \in Nat /\ TypeOK
  BY FileTypes DEF Base
<1>4. CASE Between
  <2>1. y = x
    BY <1>4, BetweenEffect
  <2>2. CASE Begin
    <3>1. begun' = 0 /\ (Again' <=> Again) /\ begun = (IF Again THEN Len(files0) ELSE 0)
            /\ passed = (IF Again THEN Len(files0) ELSE 0)
      BY <1>4, <2>2, BetweenFiles DEF Again
    <3>2. ~(i <= begun')
      BY <1>3, <3>1
    <3>3. Again => i <= begun /\ passed = Len(files0)
      BY <1>3, <3>1
    <3>4. ~Again => ~(i <= begun)
      BY <1>3, <3>1
    <3> QED BY <1>2, <2>1, <3>1, <3>2, <3>3, <3>4
  <2>3. CASE EndParts \/ ConstrainFile \/ EndConstraints \/ MergeLanguages
    <3>1. begun = Len(files0) /\ begun' = Len(files0) /\ passed' = passed
      BY <1>4, <2>3, BetweenFiles
    <3> QED BY <1>2, <1>3, <2>1, <3>1
  <2>4. CASE Done
    <3>1. begun' = begun /\ passed' = passed /\ (Again' <=> Again)
      BY <1>4, <2>4, BetweenFiles DEF Again
    <3> QED BY <1>2, <2>1, <3>1
  <2> QED BY <1>4, <2>2, <2>3, <2>4 DEF Between
<1>5. CASE LeaveAlone
  <2>1. y = files0[i].size /\ ~IsStart(i)
    BY <1>5, NothingMarked DEF files0
  <2>2. \A m : SizeUpTo(y, i, m)
    BY <2>1 DEF SizeUpTo
  <2> QED BY <2>1, <2>2
<1>6. CASE StartGroup \/ NoStart
  <2>1. /\ fi \in Nat /\ begun = fi - 1 /\ begun' = fi /\ passed = fi - 1 /\ passed' = fi - 1
        /\ (Again' <=> Again) /\ fi \in DOMAIN files0
    BY <1>6, BeginsFile DEF Again
  <2>2. CASE i # fi
    <3>1. y = x
      BY <1>6, <2>2, StartEffect, OtherEffect DEF Base
    <3>2. i <= begun' <=> i <= begun
      BY <1>3, <2>1, <2>2
    <3> QED BY <1>2, <2>1, <3>1, <3>2
  <2>3. CASE i = fi /\ StartGroup
    <3>1. y = 0 /\ IsStart(i)
      BY <2>3, StartEffect DEF Base
    <3>2. i..(i - 1) = {} /\ i - 1 < i
      BY <1>3
    <3>3. SizeUpTo(y, i, i - 1)
      BY <3>1, <3>2 DEF SizeUpTo
    <3>4. i <= begun'
      BY <1>3, <2>1, <2>3
    <3> QED BY <2>1, <2>3, <3>3, <3>4
  <2>4. CASE i = fi /\ NoStart
    <3>1. y = x
      BY <2>4, OtherEffect
    <3>2. ~IsStart(i)
      <4>1. file.before = files0[i].before
        BY <2>4 DEF Base, Fixed, SameMarkers, file
      <4> QED BY <2>4, <4>1 DEF NoStart, IsStart
    <3>3. x = files0[i].size
      BY <1>2, <3>2 DEF SizeUpTo
    <3> QED BY <3>1, <3>2, <3>3 DEF SizeUpTo
  <2> QED BY <1>6, <2>2, <2>3, <2>4
<1>7. CASE TakePart \/ RejectPart \/ InterruptGroup \/ PassFile
  <2>1. /\ fi \in Nat /\ begun = fi /\ begun' = fi /\ passed = fi - 1 /\ passed' = fi
        /\ (Again' <=> Again) /\ fi \in DOMAIN files0
    BY <1>7, PassesFile DEF Again
  <2>2. CASE TakePart /\ i = activeStart
    <3>1. PartOf(i, fi) /\ y = Grown(x, files0[fi].after.size)
      BY <2>2, TakesPart, TakeEffect DEF Base
    <3>2. i <= fi
      BY <3>1 DEF PartOf
    <3>3. SizeUpTo(x, i, fi - 1)
      BY <1>2, <2>1, <3>2
    <3>4. SizeUpTo(y, i, fi)
      <4> HIDE DEF x, y
      <4> QED BY <1>3, <2>1, <3>1, <3>3, SizeGrows
    <3> QED BY <2>1, <3>2, <3>4
  <2>3. CASE ~(TakePart /\ i = activeStart)
    <3>1. y = x
      BY <1>7, <2>3, TakeEffect, OtherEffect DEF Base
    <3>2. ~PartOf(i, fi)
      <4>1. TakePart => activeStart \in DOMAIN files0 /\ PartOf(activeStart, fi)
        BY TakesPart DEF Base
      <4>2. TakePart /\ PartOf(i, fi) => i = activeStart
        BY <1>3, <2>1, <4>1, OneStart
      <4>3. ~TakePart => ~PartOf(i, fi)
        BY <1>7, NoPartHere DEF Base
      <4> QED BY <2>3, <4>2, <4>3
    <3>3. CASE i <= fi
      <4>1. SizeUpTo(x, i, fi - 1)
        BY <1>2, <2>1, <3>3
      <4>2. SizeUpTo(x, i, fi)
        <5> HIDE DEF x
        <5> QED BY <1>3, <2>1, <3>2, <3>3, <4>1, SizeStays
      <4> QED BY <2>1, <3>1, <3>3, <4>2
    <3>4. CASE ~(i <= fi)
      BY <1>2, <2>1, <3>1, <3>4
    <3> QED BY <3>3, <3>4
  <2> QED BY <2>2, <2>3
<1> QED BY <1>4, <1>5, <1>6, <1>7 DEF Next, Between

-----------------------------------------------------------------------------
(* Locations.                                                              *)

LEMMA OneOfAppend ==
  ASSUME NEW S, NEW x \in Seq(S), NEW e \in S
  PROVE  /\ OneOf(Append(x, e)) = OneOf(x) \cup {e}
         /\ Append(x, e) \in Seq(S) /\ DOMAIN Append(x, e) = DOMAIN x \cup {Len(x) + 1}
         /\ DOMAIN x = 1..Len(x) /\ Len(x) \in Nat
         /\ \A k \in DOMAIN x : Append(x, e)[k] = x[k]
         /\ Append(x, e)[Len(x) + 1] = e
<1>1. /\ Append(x, e) \in Seq(S) /\ DOMAIN Append(x, e) = 1..(Len(x) + 1)
      /\ DOMAIN x = 1..Len(x) /\ Len(x) \in Nat
      /\ \A k \in DOMAIN x : Append(x, e)[k] = x[k]
      /\ Append(x, e)[Len(x) + 1] = e
  OBVIOUS
<1>2. 1..(Len(x) + 1) = 1..Len(x) \cup {Len(x) + 1}
  BY <1>1
<1> QED BY <1>1, <1>2 DEF OneOf

\* What is left to show of a file when parts are joined to it.
LocationsAre(additional, i, joined) ==
  /\ OneOf(additional) = {files0[j].location : j \in joined}
  /\ \A k, l \in DOMAIN additional : additional[k] = additional[l] => k = l
  /\ ~Shared(i) =>
       /\ \A j \in joined : j - i \in DOMAIN additional
       /\ \A k \in DOMAIN additional : i + k \in joined /\ additional[k] = files0[i + k].location

\* A location is added to those of the group unless it is there.
LEMMA LocationsGrow ==
  ASSUME Base, TakePart, activeStart # fi,
         LocationsAre(archive.files[activeStart].additional, activeStart, Joined(activeStart))
  PROVE  LocationsAre(archive'.files[activeStart].additional, activeStart, Joined(activeStart) \cup {fi})
<1> DEFINE i == activeStart
           x == archive.files[i].additional
           y == archive'.files[i].additional
           l == files0[fi].location
<1>1. /\ fi \in DOMAIN files0 /\ i \in DOMAIN files0 /\ PartOf(i, fi) /\ i # fi
  BY TakesPart DEF Base
<1>2. /\ passed = fi - 1 /\ fi \in Nat
  BY PassesFile
<1>3. /\ i \in Nat /\ l \in Nat /\ i < fi /\ \A k \in i..fi : PartOf(i, k)
      /\ DOMAIN files0 = 1..Len(files0) /\ Len(files0) \in Nat
  BY <1>1, <1>2, FileTypes, PartFacts DEF Base
<1>4. x \in Seq(Nat)
  <2>1. archive.files[i] \in FileEntry
    BY <1>1, ArchiveTypes DEF Base
  <2> QED BY <2>1 DEF FileEntry
<1>5. y = IF ~containsLocation(x, l) THEN Append(x, l) ELSE x
  BY <1>1, TakeEffect DEF Base
<1>6. fi \in PartsOf(i) /\ \A j \in Joined(i) : j \in PartsOf(i) /\ j \in DOMAIN files0 /\ PartOf(i, j)
  BY <1>1 DEF PartsOf, Joined
<1>7. /\ OneOf(x) = {files0[j].location : j \in Joined(i)}
      /\ \A k, m \in DOMAIN x : x[k] = x[m] => k = m
      /\ ~Shared(i) =>
           /\ \A j \in Joined(i) : j - i \in DOMAIN x
           /\ \A k \in DOMAIN x : i + k \in Joined(i) /\ x[k] = files0[i + k].location
  BY DEF LocationsAre
<1> HIDE DEF i, x, y, l
<1>8. CASE containsLocation(x, l)
  <2>1. l \in OneOf(x) /\ y = x
    BY <1>5, <1>8 DEF containsLocation
  <2>2. PICK j \in Joined(i) : files0[j].location = l
    BY <1>7, <2>1
  <2>3. OneOf(y) = {files0[m].location : m \in Joined(i) \cup {fi}}
    BY <1>7, <2>1 DEF l
  <2>4. ~Shared(i) => j = fi
    <3>1. j \in PartsOf(i) /\ j \in DOMAIN files0 /\ PartOf(i, fi) /\ files0[fi].location = files0[j].location
      BY <1>1, <1>6, <2>2 DEF l
    <3> QED BY <1>1, <3>1 DEF Shared
  <2>5. ~Shared(i) => Joined(i) \cup {fi} = Joined(i)
    BY <2>2, <2>4
  <2> QED BY <1>7, <2>1, <2>3, <2>5 DEF LocationsAre, i, y
<1>9. CASE ~containsLocation(x, l)
  <2> DEFINE n == Len(x)
  <2>1. /\ y = Append(x, l) /\ OneOf(y) = OneOf(x) \cup {l}
        /\ DOMAIN y = DOMAIN x \cup {n + 1} /\ DOMAIN x = 1..n /\ n \in Nat
        /\ \A k \in DOMAIN x : y[k] = x[k]
        /\ y[n + 1] = l
    BY <1>3, <1>4, <1>5, <1>9, OneOfAppend
  <2>2. l \notin OneOf(x)
    BY <1>9 DEF containsLocation
  <2>3. OneOf(y) = {files0[m].location : m \in Joined(i) \cup {fi}}
    BY <1>7, <2>1 DEF l
  <2>4. ASSUME NEW k \in DOMAIN y, NEW m \in DOMAIN y, y[k] = y[m] PROVE k = m
    <3>1. \A p \in DOMAIN x : x[p] # l
      BY <2>2 DEF OneOf
    <3> HIDE DEF n
    <3> QED BY <1>7, <2>1, <2>4, <3>1
  <2>5. ASSUME ~Shared(i)
        PROVE  /\ \A j \in Joined(i) \cup {fi} : j - i \in DOMAIN y
               /\ \A k \in DOMAIN y : i + k \in Joined(i) \cup {fi} /\ y[k] = files0[i + k].location
    <3>1. fi \notin Joined(i)
      BY <1>7, <2>2 DEF l
    <3>2. ~Again
      BY <1>1, <1>6, <3>1 DEF Joined
    <3>3. Joined(i) = (i + 1)..(fi - 1)
      <4>1. ASSUME NEW j \in Joined(i) PROVE j \in (i + 1)..(fi - 1)
        <5>1. j \in DOMAIN files0 /\ PartOf(i, j) /\ j # i /\ j <= fi - 1
          BY <1>2, <1>6, <3>2 DEF Joined
        <5>2. i <= j
          BY <5>1 DEF PartOf
        <5> QED BY <1>2, <1>3, <5>1, <5>2
      <4>2. ASSUME NEW j \in (i + 1)..(fi - 1) PROVE j \in Joined(i)
        <5>1. j \in i..fi /\ j # i /\ j <= passed
          BY <1>2, <1>3
        <5>2. j \in DOMAIN files0
          BY <1>1, <1>2, <1>3
        <5> QED BY <1>3, <5>1, <5>2 DEF Joined, PartsOf
      <4> QED BY <4>1, <4>2
    <3>4. n = fi - 1 - i
      <4> HIDE DEF n
      <4>1. n <= fi - 1 - i
        <5>1. CASE n = 0
          BY <1>2, <1>3, <5>1
        <5>2. CASE n # 0
          <6>1. n \in DOMAIN x
            BY <2>1, <5>2
          <6>2. i + n \in (i + 1)..(fi - 1)
            BY <1>7, <2>5, <3>3, <6>1
          <6> QED BY <1>2, <1>3, <2>1, <6>2
        <5> QED BY <5>1, <5>2
      <4>2. n >= fi - 1 - i
        <5>1. CASE fi - 1 = i
          BY <1>3, <2>1, <5>1
        <5>2. CASE fi - 1 # i
          <6>1. fi - 1 \in (i + 1)..(fi - 1)
            BY <1>2, <1>3, <5>2
          <6>2. (fi - 1) - i \in 1..n
            BY <1>7, <2>1, <2>5, <3>3, <6>1
          <6> QED BY <1>2, <1>3, <2>1, <6>2
        <5> QED BY <5>1, <5>2
      <4> QED BY <1>2, <1>3, <2>1, <4>1, <4>2
    <3>5. n + 1 = fi - i /\ i + (n + 1) = fi
      <4> HIDE DEF n
      <4>1. i \in Nat /\ fi \in Nat
        BY <1>2, <1>3
      <4> QED BY <3>4, <4>1
    <3>6. \A j \in Joined(i) \cup {fi} : j - i \in DOMAIN y
      <4> HIDE DEF n
      <4> QED BY <1>7, <2>1, <2>5, <3>5
    <3>7. ASSUME NEW k \in DOMAIN y PROVE i + k \in Joined(i) \cup {fi} /\ y[k] = files0[i + k].location
      <4>1. CASE k \in DOMAIN x
        BY <1>7, <2>1, <2>5, <4>1
      <4>2. CASE k = n + 1
        <5> HIDE DEF n
        <5> QED BY <2>1, <3>5, <4>2 DEF l
      <4> QED BY <2>1, <4>1, <4>2
    <3> QED BY <3>6, <3>7
  <2> QED BY <2>3, <2>4, <2>5 DEF LocationsAre, i, y
<1> QED BY <1>8, <1>9

LEMMA LocationsStep ==
  ASSUME Base, LocationsKept, Next
  PROVE  LocationsKept'
<1>0. original' = original
  BY BeginsFile, PassesFile, BetweenFiles, NothingMarked DEF Next, Between
<1>1. /\ files0' = files0
      /\ \A i : PartsOf(i)' = PartsOf(i)
      /\ \A i : Shared(i)' <=> Shared(i)
  BY <1>0, Frozen
<1> SUFFICES ASSUME NEW i \in DOMAIN files0
             PROVE  LocationsAre(archive'.files[i].additional, i,
                                 {j \in PartsOf(i) : j # i /\ (Again \/ j <= passed)'})
  BY <1>1 DEF LocationsKept, LocationsAre, Joined
<1>2. LocationsAre(archive.files[i].additional, i, Joined(i))
  BY DEF LocationsKept, LocationsAre
<1>3. \A j \in PartsOf(i) : j \in DOMAIN files0 /\ j \in Nat
  BY FileTypes DEF PartsOf, Base
<1>4. CASE Between
  <2>1. archive'.files[i].additional = archive.files[i].additional
    BY <1>4, BetweenEffect
  <2>2. \A j \in DOMAIN files0 : (Again \/ j <= passed)' <=> Again \/ j <= passed
    BY <1>4, BetweenFiles
  <2>3. {j \in PartsOf(i) : j # i /\ (Again \/ j <= passed)'} = Joined(i)
    BY <1>3, <2>2 DEF Joined
  <2> QED BY <1>2, <2>1, <2>3
<1>5. CASE LeaveAlone
  <2>1. archive' = archive /\ PartsOf(i) = {}
    BY <1>5, NothingMarked
  <2>2. {j \in PartsOf(i) : j # i /\ (Again \/ j <= passed)'} = Joined(i)
    BY <2>1 DEF Joined
  <2> QED BY <1>2, <2>1, <2>2
<1>6. CASE StartGroup \/ NoStart
  <2>1. passed' = passed /\ (Again' <=> Again)
    BY <1>6, BeginsFile DEF Again
  <2>2. archive'.files[i].additional = archive.files[i].additional
    BY <1>6, StartEffect, OtherEffect DEF Base
  <2>3. {j \in PartsOf(i) : j # i /\ (Again \/ j <= passed)'} = Joined(i)
    BY <2>1 DEF Joined
  <2> QED BY <1>2, <2>2, <2>3
<1>7. CASE TakePart \/ RejectPart \/ InterruptGroup \/ PassFile
  <2>1. /\ fi \in Nat /\ passed = fi - 1 /\ passed' = fi /\ (Again' <=> Again) /\ fi \in DOMAIN files0
    BY <1>7, PassesFile DEF Again
  <2>2. \A j \in PartsOf(i) : j <= fi <=> j <= fi - 1 \/ j = fi
    BY <1>3, <2>1
  <2>3. CASE TakePart /\ i = activeStart /\ i # fi
    <3>1. fi \in PartsOf(i)
      BY <2>3, TakesPart DEF PartsOf, Base
    <3>2. {j \in PartsOf(i) : j # i /\ (Again \/ j <= passed)'} = Joined(i) \cup {fi}
      BY <2>1, <2>2, <2>3, <3>1 DEF Joined
    <3> QED BY <1>2, <2>3, <3>2, LocationsGrow
  <2>4. CASE ~(TakePart /\ i = activeStart /\ i # fi)
    <3>1. archive'.files[i].additional = archive.files[i].additional
      BY <1>7, <2>4, TakeEffect, OtherEffect DEF Base
    <3>2. fi \notin PartsOf(i) \/ fi = i
      <4>1. TakePart => activeStart \in DOMAIN files0 /\ PartOf(activeStart, fi)
        BY TakesPart DEF Base
      <4>2. TakePart /\ PartOf(i, fi) => i = activeStart
        BY <2>1, <4>1, OneStart DEF Base
      <4>3. ~TakePart => ~PartOf(i, fi)
        BY <1>7, NoPartHere DEF Base
      <4> QED BY <2>4, <4>2, <4>3 DEF PartsOf
    <3>3. {j \in PartsOf(i) : j # i /\ (Again \/ j <= passed)'} = Joined(i)
      BY <2>1, <2>2, <3>2 DEF Joined
    <3> QED BY <1>2, <3>1, <3>3
  <2> QED BY <2>3, <2>4
<1> QED BY <1>4, <1>5, <1>6, <1>7 DEF Next, Between

-----------------------------------------------------------------------------
(* Data entries.                                                           *)

\* A file in another data entry, or in none, leaves the entry alone.
LEMMA EntryStays ==
  ASSUME NEW j \in Nat \ {0}, NEW l, NEW e, ~InEntry(j, l), EntryUpTo(e, l, j - 1)
  PROVE  EntryUpTo(e, l, j)
<1>1. 1..j = 1..(j - 1) \cup {j} /\ \A k \in 1..(j - 1) : (k + 1)..j = (k + 1)..(j - 1) \cup {j}
  OBVIOUS
<1> QED BY <1>1 DEF EntryUpTo

LEMMA EntriesStep ==
  ASSUME Base, EntriesKept, Next
  PROVE  EntriesKept'
<1>0. original' = original
  BY BeginsFile, PassesFile, BetweenFiles, NothingMarked DEF Next, Between
<1>1. /\ files0' = files0
      /\ \A j, l : InEntry(j, l)' <=> InEntry(j, l)
      /\ \A e, l, m : EntryUpTo(e, l, m)' <=> EntryUpTo(e, l, m)
  BY <1>0, Frozen
<1> SUFFICES ASSUME NEW l \in DOMAIN original.entries
             PROVE  EntryUpTo(archive'.entries[l], l,
                              IF Again' /\ \A j \in 1..passed' : ~InEntry(j, l) THEN Len(files0) ELSE passed')
  BY <1>0, <1>1 DEF EntriesKept
<1> DEFINE bound == IF Again /\ \A j \in 1..passed : ~InEntry(j, l) THEN Len(files0) ELSE passed
           Bound == IF Again' /\ \A j \in 1..passed' : ~InEntry(j, l) THEN Len(files0) ELSE passed'
<1>2. EntryUpTo(archive.entries[l], l, bound)
  BY DEF EntriesKept
<1>3. Len(files0) \in Nat /\ DOMAIN files0 = 1..Len(files0) /\ TypeOK
  BY FileTypes DEF Base
<1>4. CASE Between
  <2>1. archive'.entries = archive.entries
    BY <1>4, BetweenEffect
  <2>2. Bound = bound
    <3>1. CASE Begin
      <4>1. /\ passed' = 0 /\ (Again' <=> Again)
            /\ passed = IF Again THEN Len(files0) ELSE 0
        BY <1>4, <3>1, BetweenFiles DEF Again
      <4>2. \A j \in 1..passed' : ~InEntry(j, l)
        BY <4>1
      <4>3. Again => bound = Len(files0) /\ Bound = Len(files0)
        BY <4>1, <4>2
      <4>4. ~Again => bound = 0 /\ Bound = 0
        BY <4>1
      <4> QED BY <4>3, <4>4
    <3>2. CASE EndParts \/ ConstrainFile \/ EndConstraints \/ MergeLanguages
      <4>1. passed = Len(files0) /\ passed' = Len(files0)
        BY <1>4, <3>2, BetweenFiles
      <4> QED BY <4>1
    <3>3. CASE Done
      <4>1. passed' = passed /\ (Again' <=> Again)
        BY <1>4, <3>3, BetweenFiles DEF Again
      <4> QED BY <4>1
    <3> QED BY <1>4, <3>1, <3>2, <3>3 DEF Between
  <2> QED BY <1>2, <2>1, <2>2
<1>5. CASE LeaveAlone
  <2>1. archive'.entries[l] = original.entries[l] /\ \A i, j \in DOMAIN files0 : ~PartOf(i, j)
    BY <1>5, NothingMarked
  <2>2. \A j \in DOMAIN files0 : ~InEntry(j, l)
    BY <2>1 DEF InEntry
  <2>3. passed' = Len(files0)
    <3>1. pc' = "idle" /\ applied' = Append(applied, original) /\ applied \in Seq(Archive)
      BY <1>5, NothingMarked DEF Base, TypeOK
    <3>2. Again'
      BY <3>1 DEF Again
    <3> QED BY <1>1, <3>1, <3>2 DEF passed
  <2>4. Bound = Len(files0)
    BY <2>3
  <2>5. EntryUpTo(archive'.entries[l], l, Len(files0))
    BY <1>3, <2>1, <2>2 DEF EntryUpTo
  <2> QED BY <2>4, <2>5
<1>6. CASE StartGroup \/ NoStart
  <2>1. passed' = passed /\ (Again' <=> Again)
    BY <1>6, BeginsFile DEF Again
  <2>2. archive'.entries = archive.entries
    BY <1>6, StartEffect, OtherEffect DEF Base
  <2>3. Bound = bound
    BY <2>1
  <2> QED BY <1>2, <2>2, <2>3
<1>7. CASE TakePart \/ RejectPart \/ InterruptGroup \/ PassFile
  <2>1. /\ fi \in Nat /\ passed = fi - 1 /\ passed' = fi /\ (Again' <=> Again) /\ fi \in DOMAIN files0
    BY <1>7, PassesFile DEF Again
  <2>2. fi >= 1 /\ 1..fi = 1..(fi - 1) \cup {fi}
    BY <1>3, <2>1
  <2>3. CASE TakePart /\ l = files0[fi].location + 1
    <3>1. activeStart \in DOMAIN files0 /\ PartOf(activeStart, fi) /\ files0[fi].location \in Nat
      BY <1>3, <2>1, <2>3, TakesPart, FileTypes DEF Base
    <3>2. InEntry(fi, l)
      <4>1. files0[fi].location = l - 1
        BY <2>3, <3>1
      <4> QED BY <3>1, <4>1 DEF InEntry
    <3>3. Bound = fi
      BY <2>1, <2>2, <3>2
    <3>4. archive'.entries[l] = Inflated(fi)
      <4>1. archive'.entries = [archive.entries EXCEPT ![l] = Inflated(fi)]
        BY <2>3, TakeArchive DEF Base
      <4>2. l \in DOMAIN archive.entries
        BY ArchiveTypes DEF Base
      <4> QED BY <4>1, <4>2
    <3>5. ASSUME NEW j \in 1..fi, \A k \in (j + 1)..fi : ~InEntry(k, l) PROVE j = fi
      <4>1. j # fi => fi \in (j + 1)..fi
        BY <2>1, <2>2
      <4> QED BY <3>2, <3>5, <4>1
    <3>6. EntryUpTo(archive'.entries[l], l, fi)
      BY <2>2, <3>2, <3>4, <3>5 DEF EntryUpTo, Inflated
    <3> QED BY <3>3, <3>6
  <2>4. CASE ~(TakePart /\ l = files0[fi].location + 1)
    <3>1. archive'.entries[l] = archive.entries[l]
      <4>1. CASE TakePart
        <5>1. archive'.entries = [archive.entries EXCEPT ![files0[fi].location + 1] = Inflated(fi)]
          BY <4>1, TakeArchive DEF Base
        <5>2. l \in DOMAIN archive.entries
          BY ArchiveTypes DEF Base
        <5> QED BY <2>4, <4>1, <5>1, <5>2
      <4>2. CASE ~TakePart
        BY <1>7, <4>2, OtherEffect
      <4> QED BY <4>1, <4>2
    <3>2. ~InEntry(fi, l)
      <4>1. CASE TakePart
        <5>1. files0[fi].location \in Nat /\ l \in Nat
          BY <1>3, <2>1, FileTypes
        <5>2. files0[fi].location # l - 1
          BY <2>4, <4>1, <5>1
        <5> QED BY <5>2 DEF InEntry
      <4>2. CASE ~TakePart
        BY <1>7, <4>2, NoPartHere DEF InEntry, Base
      <4> QED BY <4>1, <4>2
    <3>3. (\A j \in 1..fi : ~InEntry(j, l)) <=> (\A j \in 1..(fi - 1) : ~InEntry(j, l))
      BY <2>2, <3>2
    <3>4. CASE Again /\ \A j \in 1..(fi - 1) : ~InEntry(j, l)
      <4>1. bound = Len(files0) /\ Bound = Len(files0)
        BY <2>1, <3>3, <3>4
      <4> QED BY <1>2, <3>1, <4>1
    <3>5. CASE ~(Again /\ \A j \in 1..(fi - 1) : ~InEntry(j, l))
      <4>1. bound = fi - 1 /\ Bound = fi
        BY <2>1, <3>3, <3>5
      <4>2. EntryUpTo(archive.entries[l], l, fi - 1)
        BY <1>2, <4>1
      <4>3. EntryUpTo(archive.entries[l], l, fi)
        BY <2>1, <2>2, <3>2, <4>2, EntryStays
      <4> QED BY <3>1, <4>1, <4>3
    <3> QED BY <3>4, <3>5
  <2> QED BY <2>3, <2>4
<1> QED BY <1>4, <1>5, <1>6, <1>7 DEF Next, Between

-----------------------------------------------------------------------------
(* Languages and constraints.                                              *)

LEMMA NamedGrows ==
  ASSUME TypeOK, NEW j \in DOMAIN files0
  PROVE  NamedUpTo(j) = NamedUpTo(j - 1) \cup IF KeepsName(j) THEN Named(files0[j].check) ELSE {}
<1>1. \A i \in DOMAIN files0 : i \in Nat
  BY FileTypes
<1>2. \A i \in DOMAIN files0 : i <= j <=> i <= j - 1 \/ i = j
  BY <1>1
<1> DEFINE S(m) == {i \in DOMAIN files0 : i <= m /\ KeepsName(i)}
<1>3. S(j) = S(j - 1) \cup IF KeepsName(j) THEN {j} ELSE {}
  BY <1>2
<1> HIDE DEF S
<1>4. UNION {Named(files0[i].check) : i \in S(j)} =
        (UNION {Named(files0[i].check) : i \in S(j - 1)}) \cup IF KeepsName(j) THEN Named(files0[j].check) ELSE {}
  BY <1>3
<1> QED BY <1>4 DEF NamedUpTo, S

LEMMA NamesCollectedStep ==
  ASSUME Base, NamesKept, ConstraintsKept, NamesCollected, Next
  PROVE  NamesCollected'
<1>0. original' = original
  BY BeginsFile, PassesFile, BetweenFiles, NothingMarked DEF Next, Between
<1>1. /\ files0' = files0 /\ \A m : NamedUpTo(m)' = NamedUpTo(m)
      /\ HadLanguages' <=> HadLanguages
  BY <1>0, Frozen
<1>2. TypeOK /\ Len(files0) \in Nat /\ DOMAIN files0 = 1..Len(files0)
  BY FileTypes DEF Base
<1> SUFFICES ASSUME pc' # "idle"
             PROVE  /\ allLanguages' = NamedUpTo(passed')
                    /\ \A i \in DOMAIN files0 : i <= passed' /\ files0[i].languages # <<>> => hasLanguageConstraints'
                    /\ hasLanguageConstraints' => HadLanguages \/ Again'
  BY <1>1 DEF NamesCollected
<1>3. CASE Begin
  <2>1. passed' = 0 /\ allLanguages' = {} /\ ~hasLanguageConstraints'
    BY <1>3, BetweenFiles DEF Begin, Between
  <2>2. \A i \in DOMAIN files0 : ~(i <= 0)
    BY <1>2
  <2>3. NamedUpTo(0) = {}
    BY <2>2 DEF NamedUpTo
  <2> QED BY <2>1, <2>2, <2>3
<1>4. CASE StartGroup \/ NoStart
  BY <1>4, BeginsFile DEF NamesCollected, Again
<1>5. CASE EndParts \/ ConstrainFile \/ EndConstraints
  <2>1. passed = passed' /\ applied' = applied
    BY <1>5, BetweenFiles DEF Between
  <2>2. /\ pc # "idle" /\ allLanguages' = allLanguages
        /\ hasLanguageConstraints' = hasLanguageConstraints
    BY <1>5 DEF EndParts, ConstrainFile, EndConstraints, locals
  <2> QED BY <2>1, <2>2 DEF NamesCollected, Again
<1>6. CASE LeaveAlone \/ MergeLanguages \/ Done
  <2>1. pc' = "idle"
    BY <1>6 DEF LeaveAlone, MergeLanguages, Done, vars
  <2> QED BY <2>1
<1>7. CASE TakePart \/ RejectPart \/ InterruptGroup \/ PassFile
  <2>1. /\ fi \in DOMAIN files0 /\ fi \in Nat /\ begun' = fi /\ passed = fi - 1 /\ passed' = fi
        /\ constrained = 0 /\ pc # "idle" /\ applied' = applied /\ begun = fi
    BY <1>7, PassesFile
  <2>2. /\ allLanguages' = allLanguages \cup IF archive'.files[fi].destination # ""
                                             THEN Named(archive'.files[fi].check) ELSE {}
        /\ hasLanguageConstraints' = (hasLanguageConstraints \/ archive'.files[fi].languages # <<>>)
    BY Zenon, <1>7 DEF TakePart, RejectPart, InterruptGroup, PassFile, FileDone
  <2>3. PICK k \in DOMAIN files0 : k = fi
    BY <2>1
  <2>4. archive'.files[k].destination # "" <=> KeepsName(k)
    <3>1. Base' /\ NamesKept'
      BY BaseStep, NamesStep
    <3>2. /\ \A i : KeepsName(i)' <=> KeepsName(i)
          /\ \A i : IsPart(i)' <=> IsPart(i)
          /\ \A i : HasName(i)' <=> HasName(i)
      BY <1>0, Frozen
    <3>3. (Again \/ k <= passed)' /\ (Again \/ k <= begun)'
      BY <1>2, <2>1, <2>3
    <3>4. HasName(k) => files0[k].before.name # ""
      BY DEF HasName
    <3>5. archive'.files[k].destination =
            IF IsPart(k) THEN "" ELSE IF HasName(k) THEN files0[k].before.name ELSE files0[k].destination
      BY Zenon, <1>1, <3>1, <3>2, <3>3 DEF NamesKept
    <3> QED BY <3>4, <3>5 DEF KeepsName
  <2>5. archive'.files[k].check = files0[k].check
    <3>1. Fixed'
      BY BaseStep DEF Base
    <3> QED BY <1>1, <3>1 DEF Fixed, SameMarkers
  <2>6. allLanguages' = NamedUpTo(k)
    <3>1. allLanguages = NamedUpTo(k - 1)
      BY <2>1, <2>3 DEF NamesCollected
    <3>2. allLanguages' = allLanguages \cup IF KeepsName(k) THEN Named(files0[k].check) ELSE {}
      BY Zenon, <2>2, <2>3, <2>4, <2>5
    <3> QED BY <1>2, <3>1, <3>2, NamedGrows
  <2>7. archive'.files[k].languages = archive.files[k].languages
    BY <1>7, TakeEffect, OtherEffect DEF Base, SameConstraints
  <2>8. ~Again => archive.files[k].languages = files0[k].languages
    <3>1. ~Again => ~Constrains(k)
      BY <1>2, <2>1, <2>3 DEF Constrains
    <3> QED BY <3>1 DEF ConstraintsKept, SameConstraints
  <2>9. hasLanguageConstraints' => HadLanguages \/ Again
    BY <2>2, <2>3, <2>1, <2>7, <2>8 DEF NamesCollected, HadLanguages
  <2>10. ASSUME NEW i \in DOMAIN files0, i <= k, files0[i].languages # <<>>
         PROVE  hasLanguageConstraints'
    <3>1. CASE i # k
      <4>1. i <= passed
        BY <1>2, <2>1, <2>3, <2>10, <3>1
      <4> QED BY <2>1, <2>2, <2>10, <4>1 DEF NamesCollected
    <3>2. CASE i = k
      <4>1. Constrained(files0[k], AllNamed).languages # <<>>
        <5>1. files0[k] \in FileEntry
          BY <1>2, FileTypes
        <5>2. TheConstraints(Constrained(files0[k], AllNamed), files0[k], AllNamed)
          BY <5>1, ConstrainedFields
        <5>3. files0[k].languages # <<>>
          BY <2>10, <3>2
        <5> HIDE DEF files0
        <5> QED BY <5>2, <5>3 DEF TheConstraints
      <4>2. archive.files[k].languages # <<>>
        BY <2>10, <3>2, <4>1 DEF ConstraintsKept, SameConstraints
      <4> QED BY <2>2, <2>3, <2>7, <4>2
    <3> QED BY <3>1, <3>2
  <2> QED BY <2>1, <2>3, <2>6, <2>9, <2>10 DEF Again
<1> QED BY <1>3, <1>4, <1>5, <1>6, <1>7 DEF Next, Between

LEMMA ConstraintsStep ==
  ASSUME Base, NamesKept, NamesCollected, ConstraintsKept, Next
  PROVE  ConstraintsKept'
<1>0. original' = original
  BY BeginsFile, PassesFile, BetweenFiles, NothingMarked DEF Next, Between
<1>1. /\ files0' = files0 /\ AllNamed' = AllNamed /\ (Active' <=> Active)
      /\ \A i : KeepsName(i)' <=> KeepsName(i)
  BY <1>0, Frozen
<1>2. TypeOK /\ Len(files0) \in Nat /\ DOMAIN files0 = 1..Len(files0)
  BY FileTypes DEF Base
<1> DEFINE C(i, c) == IF c THEN Constrained(files0[i], AllNamed) ELSE files0[i]
<1> SUFFICES ASSUME NEW i \in DOMAIN files0
             PROVE  SameConstraints(archive'.files[i], C(i, Constrains(i)'))
  BY <1>1 DEF ConstraintsKept
<1>3. SameConstraints(archive.files[i], C(i, Constrains(i)))
  BY DEF ConstraintsKept
<1>4. Constrains(i)' <=> KeepsName(i) /\ (i <= constrained' \/ (Again' /\ Active))
  BY <1>1 DEF Constrains
<1>5. i \in Nat /\ i >= 1 /\ i <= Len(files0)
  BY <1>2
<1>6. CASE Begin \/ EndParts \/ EndConstraints \/ Done
  <2>1. archive'.files = archive.files
    BY <1>6, BetweenEffect DEF Between, ConstrainFile, Begin, EndParts, EndConstraints, Done, vars
  <2>2. constrained' = constrained /\ applied' = applied
    BY <1>6, BetweenFiles DEF Between
  <2>3. Constrains(i)' <=> Constrains(i)
    BY <1>4, <2>2 DEF Constrains, Again
  <2> QED BY Zenon, <1>3, <2>1, <2>3
<1>7. CASE LeaveAlone
  <2>1. archive' = original /\ ~Active /\ pc' = "idle"
    BY <1>7, NothingMarked
  <2>2. constrained' = 0
    BY <2>1 DEF constrained
  <2>3. ~Constrains(i)'
    BY <1>4, <1>5, <2>1, <2>2
  <2> QED BY <2>1, <2>3 DEF SameConstraints, files0
<1>8. CASE StartGroup \/ NoStart \/ TakePart \/ RejectPart \/ InterruptGroup \/ PassFile
  <2>1. constrained = 0 /\ constrained' = 0 /\ applied' = applied
    BY <1>8, BeginsFile, PassesFile
  <2>2. Constrains(i)' <=> Constrains(i)
    BY <1>4, <2>1 DEF Constrains, Again
  <2>3. SameConstraints(archive'.files[i], archive.files[i])
    BY <1>8, StartEffect, TakeEffect, OtherEffect DEF Base, SameConstraints
  <2>4. SameConstraints(archive'.files[i], C(i, Constrains(i)))
    <3> HIDE DEF C
    <3> QED BY <1>3, <2>3 DEF SameConstraints
  <2> QED BY Zenon, <2>2, <2>4
<1>9. CASE MergeLanguages
  <2>1. archive'.files = archive.files /\ constrained = Len(files0) /\ Again'
    BY <1>9, MergeEffect, BetweenFiles DEF Base, Between
  <2>2. Active
    BY <1>9 DEF Base, Positions, MergeLanguages
  <2>3. Constrains(i)' <=> Constrains(i)
    BY <1>4, <1>5, <2>1, <2>2 DEF Constrains
  <2> QED BY Zenon, <1>3, <2>1, <2>3
<1>10. CASE ConstrainFile
  <2>1. /\ begun = Len(files0) /\ passed = Len(files0) /\ applied' = applied
        /\ constrained = fi - 1 /\ constrained' = fi
    BY <1>10, BetweenFiles DEF Between
  <2>2. /\ fi \in DOMAIN files0
        /\ SameConstraints(archive'.files[i],
             IF i = fi /\ archive.files[i].destination # "" THEN Constrained(archive.files[i], allLanguages)
             ELSE archive.files[i])
    <3>1. TypeOK /\ Fixed
      BY DEF Base
    <3> QED BY Zenon, <1>2, <1>10, <3>1, ConstrainEffect
  <2>3. allLanguages = AllNamed
    BY <1>10, <2>1 DEF NamesCollected, ConstrainFile, AllNamed
  <2>4. archive.files[i].destination # "" <=> KeepsName(i)
    <3>1. HasName(i) => files0[i].before.name # ""
      BY DEF HasName
    <3>2. i <= passed /\ i <= begun
      BY <1>5, <2>1
    <3>3. archive.files[i].destination =
            IF IsPart(i) THEN "" ELSE IF HasName(i) THEN files0[i].before.name ELSE files0[i].destination
      BY Zenon, <3>2 DEF NamesKept
    <3> QED BY <3>1, <3>3 DEF KeepsName
  <2>5. archive.files[i] \in FileEntry /\ files0[i] \in FileEntry /\ archive.files[i].check = files0[i].check
    BY <1>2, ArchiveTypes, FileTypes DEF Base, Fixed, SameMarkers
  <2>6. CASE i # fi \/ ~KeepsName(i)
    <3>1. Constrains(i)' <=> Constrains(i)
      <4>1. Again' <=> Again
        BY <2>1 DEF Again
      <4>2. i # fi => (i <= constrained' <=> i <= constrained)
        BY <1>2, <1>5, <2>1, <2>2
      <4> QED BY Zenon, <1>4, <2>6, <4>1, <4>2 DEF Constrains
    <3>2. SameConstraints(archive'.files[i], archive.files[i])
      BY Zenon, <2>2, <2>4, <2>6
    <3>3. SameConstraints(archive'.files[i], C(i, Constrains(i)))
      <4> HIDE DEF C
      <4> QED BY <1>3, <3>2 DEF SameConstraints
    <3> QED BY Zenon, <3>1, <3>3
  <2>7. CASE i = fi /\ KeepsName(i)
    <3> DEFINE f == archive.files[i]
               p == Constrained(files0[i], AllNamed)
    <3>1. Constrains(i)'
      BY <1>4, <1>5, <2>1, <2>7
    <3>2. SameConstraints(archive'.files[i], Constrained(f, AllNamed))
      BY Zenon, <2>2, <2>3, <2>4, <2>7
    <3>3. SameConstraints(Constrained(f, AllNamed), p)
      <4>1. CASE Constrains(i)
        <5>1. SameConstraints(f, p)
          BY Zenon, <1>3, <4>1
        <5>2. p \in FileEntry /\ p.check = f.check
          BY <2>5, ConstrainedFields DEF SameMarkers
        <5>3. SameConstraints(Constrained(f, AllNamed), Constrained(p, AllNamed))
          BY <2>5, <5>1, <5>2, ConstrainedAlike
        <5>4. SameConstraints(Constrained(p, AllNamed), p)
          BY <2>5, ConstrainedTwice
        <5> HIDE DEF p
        <5> QED BY <5>3, <5>4 DEF SameConstraints
      <4>2. CASE ~Constrains(i)
        <5>1. SameConstraints(f, files0[i])
          BY Zenon, <1>3, <4>2
        <5> QED BY <2>5, <5>1, ConstrainedAlike
      <4> QED BY <4>1, <4>2
    <3>4. SameConstraints(archive'.files[i], p)
      <4> HIDE DEF p, f
      <4> QED BY <3>2, <3>3 DEF SameConstraints
    <3> QED BY Zenon, <3>1, <3>4
  <2> QED BY <2>6, <2>7
<1> QED BY <1>6, <1>7, <1>8, <1>9, <1>10 DEF Next

LEMMA LanguagesStep ==
  ASSUME Base, NamesCollected, LanguagesKept, Next
  PROVE  LanguagesKept'
<1>0. original' = original
  BY BeginsFile, PassesFile, BetweenFiles, NothingMarked DEF Next, Between
<1>1. AllNamed' = AllNamed /\ (Active' <=> Active) /\ (HadLanguages' <=> HadLanguages)
  BY <1>0, Frozen
<1> DEFINE L(again) == IF ~again \/ ~Active \/ AllNamed = {} THEN original.languages
                       ELSE IF HadLanguages THEN original.languages \cup AllNamed
                       ELSE AllNamed
<1>2. archive.languages = L(Again)
  BY DEF LanguagesKept
<1> SUFFICES archive'.languages = L(Again')
  BY Zenon, <1>0, <1>1 DEF LanguagesKept
<1>3. CASE Begin \/ EndParts \/ ConstrainFile \/ EndConstraints \/ Done
  <2>1. Again' <=> Again
    BY <1>3, BetweenFiles DEF Between, Again
  <2>2. ~MergeLanguages
    BY <1>3 DEF MergeLanguages, Begin, EndParts, ConstrainFile, EndConstraints, Done
  <2>3. archive'.languages = archive.languages
    BY <1>3, <2>2, BetweenEffect DEF Between
  <2> QED BY Zenon, <1>2, <2>1, <2>3
<1>4. CASE LeaveAlone
  <2>1. archive' = original /\ ~Active
    BY <1>4, NothingMarked
  <2> QED BY <2>1
<1>5. CASE StartGroup \/ NoStart \/ TakePart \/ RejectPart \/ InterruptGroup \/ PassFile
  <2>1. applied' = applied
    BY <1>5, BeginsFile, PassesFile
  <2>2. archive'.languages = archive.languages
    BY <1>5, StartEffect, TakeArchive, OtherEffect DEF Base
  <2> QED BY <1>2, <2>1, <2>2 DEF Again
<1>6. CASE MergeLanguages
  <2>1. Again' /\ passed = Len(files0)
    BY <1>6, BetweenFiles DEF Between
  <2>2. Active
    BY <1>6 DEF Base, Positions, MergeLanguages
  <2>3. /\ allLanguages = AllNamed /\ (HadLanguages => hasLanguageConstraints)
        /\ hasLanguageConstraints => HadLanguages \/ Again
    <3>1. pc # "idle"
      BY <1>6 DEF MergeLanguages
    <3>2. \A i \in DOMAIN files0 : i <= Len(files0)
      BY FileTypes DEF Base
    <3> QED BY <2>1, <3>1, <3>2 DEF NamesCollected, AllNamed, HadLanguages
  <2>4. archive'.languages = IF AllNamed = {} THEN archive.languages
                             ELSE IF hasLanguageConstraints THEN archive.languages \cup AllNamed
                             ELSE AllNamed
    BY Zenon, <1>6, <2>3, MergeEffect DEF Base
  <2>5. CASE AllNamed = {}
    BY <1>2, <2>4, <2>5
  <2>6. CASE AllNamed # {} /\ HadLanguages
    <3>1. archive.languages \cup AllNamed = original.languages \cup AllNamed
      BY <1>2, <2>6
    <3> QED BY Zenon, <2>1, <2>2, <2>3, <2>4, <2>6, <3>1
  <2>7. CASE AllNamed # {} /\ ~HadLanguages
    <3>1. Again => archive.languages = AllNamed
      BY Zenon, <1>2, <2>2, <2>7
    <3>2. archive'.languages = AllNamed
      <4>1. CASE ~hasLanguageConstraints
        BY Zenon, <2>4, <2>7, <4>1
      <4>2. CASE hasLanguageConstraints
        <5>1. archive.languages \cup AllNamed = AllNamed
          BY <2>3, <2>7, <3>1, <4>2
        <5> QED BY Zenon, <2>4, <2>7, <4>2, <5>1
      <4> QED BY <4>1, <4>2
    <3> QED BY Zenon, <2>1, <2>2, <2>7, <3>2
  <2> QED BY <2>5, <2>6, <2>7
<1> QED BY <1>3, <1>4, <1>5, <1>6 DEF Next

-----------------------------------------------------------------------------
(* The second call.                                                        *)

\* The size a call gives a file, and the entry a call leaves, are determined by
\* the archive as parsed.
LEMMA OneSize ==
  ASSUME TypeOK, NEW i \in DOMAIN files0, NEW x, NEW y,
         SizeUpTo(x, i, Len(files0)), SizeUpTo(y, i, Len(files0))
  PROVE  x = y
<1>1. Len(files0) \in Nat /\ DOMAIN files0 = 1..Len(files0)
  BY FileTypes
<1>2. CASE ~IsStart(i)
  BY <1>2 DEF SizeUpTo
<1>3. CASE IsStart(i) /\ ~PartOf(i, i)
  BY <1>3 DEF SizeUpTo
<1>4. CASE IsStart(i) /\ PartOf(i, i)
  <2>1. PartsOf(i) # {}
    BY <1>4 DEF PartsOf
  <2>2. PICK last \in DOMAIN files0 : /\ i <= last /\ PartsOf(i) = i..last
                                      /\ ~(last + 1 \in DOMAIN files0 /\ PartOf(i, last + 1))
    BY <2>1, GroupIsInterval
  <2>3. last \in i..Len(files0) /\ last \in PartsOf(i)
    BY <1>1, <2>2
  <2>4. PartOf(i, last)
    BY <2>3 DEF PartsOf
  <2>5. last = Len(files0) \/ ~PartOf(i, last + 1)
    BY <1>1, <2>2
  <2> QED BY <1>4, <2>3, <2>4, <2>5 DEF SizeUpTo
<1> QED BY <1>2, <1>3, <1>4

LEMMA OneEntry ==
  ASSUME NEW n \in Nat, NEW l, NEW e, NEW f, EntryUpTo(e, l, n), EntryUpTo(f, l, n)
  PROVE  e = f
<1> DEFINE T == {j \in 1..n : InEntry(j, l)}
<1>1. CASE T = {}
  BY <1>1 DEF EntryUpTo
<1>2. CASE T # {}
  <2>1. T \subseteq 0..n
    OBVIOUS
  <2>2. PICK m \in T : \A k \in T : k <= m
    <3> HIDE DEF T
    <3> QED BY <1>2, <2>1, LastOfSet
  <2>3. \A k \in (m + 1)..n : ~InEntry(k, l)
    <3> SUFFICES ASSUME NEW k \in (m + 1)..n, InEntry(k, l) PROVE FALSE
      OBVIOUS
    <3>1. m \in Nat /\ k \in 1..n
      OBVIOUS
    <3>2. k <= m
      BY <2>2, <3>1
    <3> QED BY <3>1, <3>2
  <2>4. m \in 1..n /\ InEntry(m, l)
    OBVIOUS
  <2>5. /\ e = [uncompressedSize |-> files0[m].after.size, zlib |-> TRUE]
        /\ f = [uncompressedSize |-> files0[m].after.size, zlib |-> TRUE]
    BY Zenon, <2>3, <2>4 DEF EntryUpTo
  <2> QED BY <2>5
<1> QED BY <1>1, <1>2

\* Two archives that agree in everything Apply leaves are the same.
LEMMA SameFile ==
  ASSUME NEW f \in FileEntry, NEW g \in FileEntry, SameButSize(f, g), f.size = g.size
  PROVE  f = g
<1>1. f = [destination |-> f.destination, size |-> f.size, checksum |-> f.checksum,
           location |-> f.location, additional |-> f.additional,
           before |-> f.before, after |-> f.after, check |-> f.check,
           languages |-> f.languages, components |-> f.components,
           bits32 |-> f.bits32, bits64 |-> f.bits64]
  BY DEF FileEntry
<1>2. g = [destination |-> g.destination, size |-> g.size, checksum |-> g.checksum,
           location |-> g.location, additional |-> g.additional,
           before |-> g.before, after |-> g.after, check |-> g.check,
           languages |-> g.languages, components |-> g.components,
           bits32 |-> g.bits32, bits64 |-> g.bits64]
  BY DEF FileEntry
<1> QED BY Zenon, <1>1, <1>2 DEF SameButSize, SameMarkers, SameConstraints

LEMMA SameArchive ==
  ASSUME NEW a \in Archive, NEW b \in Archive, a.galaxy = b.galaxy, a.languages = b.languages,
         Len(a.files) = Len(b.files), Len(a.entries) = Len(b.entries),
         \A k \in DOMAIN a.files : a.files[k] = b.files[k],
         \A k \in DOMAIN a.entries : a.entries[k] = b.entries[k]
  PROVE  a = b
<1>1. /\ a = [galaxy |-> a.galaxy, files |-> a.files, entries |-> a.entries, languages |-> a.languages]
      /\ b = [galaxy |-> b.galaxy, files |-> b.files, entries |-> b.entries, languages |-> b.languages]
  BY DEF Archive
<1>2. /\ a.files \in Seq(FileEntry) /\ b.files \in Seq(FileEntry)
      /\ a.entries \in Seq(DataEntry) /\ b.entries \in Seq(DataEntry)
  BY DEF Archive
<1>3. /\ DOMAIN a.files = DOMAIN b.files /\ DOMAIN a.entries = DOMAIN b.entries
      /\ a.files = [k \in DOMAIN a.files |-> a.files[k]] /\ b.files = [k \in DOMAIN b.files |-> b.files[k]]
      /\ a.entries = [k \in DOMAIN a.entries |-> a.entries[k]]
      /\ b.entries = [k \in DOMAIN b.entries |-> b.entries[k]]
  BY <1>2
<1>4. a.files = b.files
  BY <1>3
<1>5. a.entries = b.entries
  BY <1>3
<1> QED BY Zenon, <1>1, <1>4, <1>5

\* In a call that is not the first one the fields of a file, its size apart,
\* stay as they are.
LEMMA AgainStays ==
  ASSUME Base, NamesKept, ChecksumsKept, LocationsKept, NamesCollected, ConstraintsKept,
         Next, ~LeaveAlone, Again, NEW i \in DOMAIN files0
  PROVE  SameButSize(archive.files[i], archive'.files[i])
<1> DEFINE f == archive.files[i]
           g == archive'.files[i]
<1>0. original' = original
  BY BeginsFile, PassesFile, BetweenFiles, NothingMarked DEF Next, Between
<1>1. /\ files0' = files0 /\ AllNamed' = AllNamed /\ (Active' <=> Active)
      /\ \A k : KeepsName(k)' <=> KeepsName(k)
      /\ \A k : IsPart(k)' <=> IsPart(k)
      /\ \A k : HasName(k)' <=> HasName(k)
      /\ \A k : IsStart(k)' <=> IsStart(k)
  BY <1>0, Frozen
<1>2. Again'
  <2>1. applied' = applied \/ (MergeLanguages /\ Again')
    BY BeginsFile, PassesFile, BetweenFiles DEF Next, Between
  <2> QED BY <2>1 DEF Again
<1>3. SameMarkers(f, g)
  BY ArchiveStep DEF Base, SameMarkers
<1>4. f.destination = g.destination
  <2> DEFINE d == IF IsPart(i) THEN "" ELSE IF HasName(i) THEN files0[i].before.name ELSE files0[i].destination
  <2>1. f.destination = d
    BY Zenon DEF NamesKept
  <2>2. NamesKept'
    BY NamesStep
  <2>3. g.destination = d
    BY Zenon, <1>1, <1>2, <2>2 DEF NamesKept
  <2> QED BY <2>1, <2>3
<1>5. f.checksum = g.checksum
  <2> DEFINE c == IF IsStart(i) THEN IF files0[i].before.md5 THEN "marker" ELSE "none" ELSE files0[i].checksum
  <2>1. f.checksum = c
    BY Zenon DEF ChecksumsKept
  <2>2. ChecksumsKept'
    BY ChecksumsStep
  <2>3. g.checksum = c
    BY Zenon, <1>1, <1>2, <2>2 DEF ChecksumsKept
  <2> QED BY <2>1, <2>3
<1>6. f.additional = g.additional
  <2>1. CASE Between
    BY <2>1, BetweenEffect
  <2>2. CASE StartGroup \/ NoStart \/ RejectPart \/ InterruptGroup \/ PassFile
    BY <2>2, StartEffect, OtherEffect DEF Base
  <2>3. CASE TakePart
    <3>1. /\ fi \in DOMAIN files0 /\ activeStart \in DOMAIN files0 /\ PartOf(activeStart, fi)
      BY <2>3, TakesPart DEF Base
    <3>2. g.additional = IF i = activeStart /\ i # fi /\ ~containsLocation(f.additional, files0[fi].location)
                         THEN Append(f.additional, files0[fi].location) ELSE f.additional
      BY <2>3, TakeEffect DEF Base
    <3>3. i = activeStart /\ i # fi => fi \in Joined(i)
      BY <3>1 DEF Joined, PartsOf
    <3>4. i = activeStart /\ i # fi => files0[fi].location \in OneOf(f.additional)
      BY <3>3 DEF LocationsKept
    <3> QED BY Zenon, <3>2, <3>4 DEF containsLocation
  <2> QED BY <2>1, <2>2, <2>3 DEF Next, Between
<1>7. SameConstraints(f, g)
  <2>1. CASE Done
    BY <2>1 DEF Done, vars, SameConstraints
  <2>2. CASE ~Done
    <3>1. Active
      <4>1. pc # "idle" \/ pc' # "idle"
        BY <2>2 DEF Next, Begin, StartGroup, NoStart, TakePart, RejectPart, InterruptGroup, PassFile,
                    EndParts, ConstrainFile, EndConstraints, MergeLanguages
      <4>2. Positions /\ Positions'
        BY BaseStep DEF Base
      <4> QED BY <1>1, <4>1, <4>2 DEF Positions
    <3> DEFINE c == IF KeepsName(i) THEN Constrained(files0[i], AllNamed) ELSE files0[i]
    <3>2. (Constrains(i) <=> KeepsName(i)) /\ (Constrains(i)' <=> KeepsName(i))
      BY <1>1, <1>2, <3>1 DEF Constrains
    <3>3. SameConstraints(f, c)
      BY Zenon, <3>2 DEF ConstraintsKept
    <3>4. ConstraintsKept'
      BY ConstraintsStep
    <3>5. SameConstraints(g, c)
      BY Zenon, <1>1, <3>2, <3>4 DEF ConstraintsKept
    <3> HIDE DEF c
    <3> QED BY <3>3, <3>5 DEF SameConstraints
  <2> QED BY <2>1, <2>2
<1> QED BY <1>3, <1>4, <1>5, <1>6, <1>7 DEF SameButSize

LEMMA SameAgainStep ==
  ASSUME Base, NamesKept, ChecksumsKept, SizesKept, LocationsKept, EntriesKept,
         ConstraintsKept, NamesCollected, LanguagesKept, SameAgain, Next
  PROVE  SameAgain'
<1> DEFINE n == Len(files0)
           first == applied[1]
<1>0. original' = original
  BY BeginsFile, PassesFile, BetweenFiles, NothingMarked DEF Next, Between
<1>1. /\ files0' = files0
      /\ \A x, i, m : SizeUpTo(x, i, m)' <=> SizeUpTo(x, i, m)
      /\ \A e, l, m : EntryUpTo(e, l, m)' <=> EntryUpTo(e, l, m)
  BY <1>0, Frozen
<1>2. TypeOK /\ n \in Nat /\ DOMAIN files0 = 1..n /\ original.entries \in Seq(DataEntry)
  BY FileTypes DEF Base, TypeOK, Archive
<1>3. /\ archive' \in Archive /\ applied \in Seq(Archive)
      /\ Len(archive'.files) = n /\ Len(archive'.entries) = Len(original.entries)
      /\ archive'.galaxy = archive.galaxy
  BY ArchiveStep DEF Base, Fixed, TypeOK
<1>4. Again => DOMAIN applied = 1..Len(applied) /\ Len(applied) \in Nat /\ Len(applied) >= 1 /\ first \in Archive
  BY <1>3 DEF Again
<1> DEFINE Kept(f, a) ==
             /\ f.galaxy = a.galaxy /\ f.languages = a.languages
             /\ Len(f.files) = n /\ Len(f.entries) = Len(original.entries)
             /\ \A i \in DOMAIN files0 :
                  /\ SameButSize(f.files[i], a.files[i])
                  /\ SizeUpTo(f.files[i].size, i, n)
             /\ \A l \in DOMAIN original.entries : EntryUpTo(f.entries[l], l, n)
<1>5. Again => /\ \A k \in DOMAIN applied : applied[k] = first
               /\ pc = "idle" => archive = first
               /\ Kept(first, archive)
  BY DEF SameAgain
<1> SUFFICES ASSUME Again'
             PROVE  /\ \A k \in DOMAIN applied' : applied'[k] = applied'[1]
                    /\ pc' = "idle" => archive' = applied'[1]
                    /\ Kept(applied'[1], archive')
  BY <1>0, <1>1 DEF SameAgain, SameButSize, SameMarkers, SameConstraints
<1>6. CASE LeaveAlone
  <2>1. /\ archive' = original /\ applied' = Append(applied, original)
        /\ \A k \in DOMAIN applied : applied[k] = original
        /\ \A i \in DOMAIN files0 : ~IsStart(i)
        /\ \A i, j \in DOMAIN files0 : ~PartOf(i, j)
    BY <1>6, NothingMarked
  <2>2. \A k \in DOMAIN applied' : applied'[k] = original
    BY <1>3, <2>1
  <2>3. applied'[1] = original
    BY <1>3, <2>1
  <2>4. Kept(original, original)
    <3>1. \A i \in DOMAIN files0 : SizeUpTo(original.files[i].size, i, n)
      BY <2>1 DEF SizeUpTo, files0
    <3>2. \A l : \A j \in 1..n : ~InEntry(j, l)
      BY <1>2, <2>1 DEF InEntry
    <3>3. \A l : EntryUpTo(original.entries[l], l, n)
      BY <3>2 DEF EntryUpTo
    <3>4. Len(original.files) = n
      BY DEF files0
    <3> QED BY <3>1, <3>3, <3>4 DEF SameButSize, SameMarkers, SameConstraints
  <2> QED BY <2>1, <2>2, <2>3, <2>4
<1>7. CASE MergeLanguages
  <2>1. /\ archive'.files = archive.files /\ archive'.entries = archive.entries
        /\ begun = n /\ passed = n /\ applied' = Append(applied, archive')
    BY <1>7, MergeEffect, BetweenFiles DEF Base, Between
  <2>2. \A i \in DOMAIN files0 : SizeUpTo(archive'.files[i].size, i, n)
    <3>1. \A i \in DOMAIN files0 : i <= begun
      BY <1>2, <2>1
    <3> QED BY <2>1, <3>1 DEF SizesKept
  <2>3. \A l \in DOMAIN original.entries : EntryUpTo(archive'.entries[l], l, n)
    BY <2>1 DEF EntriesKept
  <2>4. CASE ~Again
    <3>1. applied' = <<archive'>>
      BY <1>3, <2>1, <2>4 DEF Again
    <3>2. Kept(archive', archive')
      BY <1>3, <2>2, <2>3 DEF SameButSize, SameMarkers, SameConstraints
    <3> HIDE DEF Kept
    <3> QED BY <3>1, <3>2
  <2>5. CASE Again
    <3>1. /\ first.galaxy = archive'.galaxy /\ Len(first.files) = Len(archive'.files)
          /\ Len(first.entries) = Len(archive'.entries)
      BY <1>3, <1>5, <2>5
    <3>2. first.languages = archive'.languages
      <4>1. LanguagesKept'
        BY LanguagesStep
      <4>2. (AllNamed' = AllNamed) /\ (Active' <=> Active) /\ (HadLanguages' <=> HadLanguages)
        BY <1>0, Frozen
      <4> DEFINE all == IF ~Active \/ AllNamed = {} THEN original.languages
                        ELSE IF HadLanguages THEN original.languages \cup AllNamed
                        ELSE AllNamed
      <4>3. archive.languages = all
        BY Zenon, <2>5 DEF LanguagesKept
      <4>4. archive'.languages = all
        BY Zenon, <1>0, <4>1, <4>2 DEF LanguagesKept
      <4> QED BY <1>5, <2>5, <4>3, <4>4
    <3>3. \A i \in DOMAIN first.files : first.files[i] = archive'.files[i]
      <4> SUFFICES ASSUME NEW i \in DOMAIN first.files PROVE first.files[i] = archive'.files[i]
        OBVIOUS
      <4>1. first.files \in Seq(FileEntry) /\ archive'.files \in Seq(FileEntry) /\ Len(first.files) = n
        BY <1>3, <1>4, <1>5, <2>5 DEF Archive
      <4>2. i \in DOMAIN files0 /\ first.files[i] \in FileEntry /\ archive'.files[i] \in FileEntry
        BY <1>2, <1>3, <4>1
      <4>3. SameButSize(first.files[i], archive'.files[i])
        BY <1>5, <2>1, <2>5, <4>2
      <4>4. first.files[i].size = archive'.files[i].size
        BY <1>2, <1>5, <2>2, <2>5, <4>2, OneSize
      <4> QED BY <4>2, <4>3, <4>4, SameFile
    <3>4. \A l \in DOMAIN first.entries : first.entries[l] = archive'.entries[l]
      <4> SUFFICES ASSUME NEW l \in DOMAIN first.entries PROVE first.entries[l] = archive'.entries[l]
        OBVIOUS
      <4>1. first.entries \in Seq(DataEntry) /\ Len(first.entries) = Len(original.entries)
        BY <1>4, <1>5, <2>5 DEF Archive
      <4>2. l \in DOMAIN original.entries
        BY <1>2, <4>1
      <4> QED BY <1>2, <1>5, <2>3, <2>5, <4>2, OneEntry
    <3>5. archive' = first
      BY <1>3, <1>4, <2>5, <3>1, <3>2, <3>3, <3>4, SameArchive
    <3>6. applied'[1] = first /\ \A k \in DOMAIN applied' : applied'[k] = first
      <4>1. \A k \in DOMAIN applied : applied[k] = first
        BY <1>5, <2>5
      <4> HIDE DEF first
      <4>2. \A k \in DOMAIN applied' : applied'[k] = first
        BY <1>3, <2>1, <3>5, <4>1
      <4>3. 1 \in DOMAIN applied'
        BY <1>3, <1>4, <2>1, <2>5
      <4> QED BY <4>2, <4>3
    <3>7. Kept(first, archive')
      <4> HIDE DEF Kept, first
      <4>1. Kept(first, archive)
        BY <1>5, <2>5
      <4>2. first.languages = archive'.languages /\ first.galaxy = archive'.galaxy
        BY <3>1, <3>2
      <4> QED BY <2>1, <4>1, <4>2 DEF Kept
    <3> QED BY <3>5, <3>6, <3>7
  <2> QED BY <2>4, <2>5
<1>8. CASE ~LeaveAlone /\ ~MergeLanguages
  <2>1. applied' = applied
    BY <1>8, BeginsFile, PassesFile, BetweenFiles DEF Next, Between
  <2>2. Again
    BY <2>1 DEF Again
  <2>3. pc' = "idle" => Done
    BY <1>8 DEF Next, Begin, StartGroup, NoStart, TakePart, RejectPart, InterruptGroup, PassFile, FileDone,
                EndParts, ConstrainFile, EndConstraints
  <2>4. pc' = "idle" => archive' = first
    BY <1>5, <2>2, <2>3 DEF Done, vars
  <2>5. archive'.languages = archive.languages
    BY <1>8, StartEffect, TakeArchive, OtherEffect, BetweenEffect DEF Next, Between, Base
  <2>6. \A i \in DOMAIN files0 : SameButSize(archive.files[i], archive'.files[i])
    BY <1>8, <2>2, AgainStays
  <2>7. \A i \in DOMAIN files0 : SameButSize(first.files[i], archive'.files[i])
    <3> HIDE DEF first, n
    <3> QED BY <1>5, <2>2, <2>6 DEF SameButSize, SameMarkers, SameConstraints
  <2>8. Kept(first, archive')
    <3> HIDE DEF first, n
    <3> QED BY <1>3, <1>5, <2>2, <2>5, <2>7
  <2> HIDE DEF Kept
  <2> QED BY <1>5, <2>1, <2>2, <2>4, <2>8
<1> QED BY <1>6, <1>7, <1>8

-----------------------------------------------------------------------------
(* The invariant.                                                          *)

LEMMA InitGInv == Init => GInv
<1> SUFFICES ASSUME Init PROVE GInv
  OBVIOUS
<1>1. /\ original \in Archives /\ archive = original /\ pc = "idle" /\ fi = 1
      /\ activeStart = 0 /\ remaining = 0 /\ allLanguages = {} /\ hasLanguageConstraints = FALSE
      /\ applied = <<>>
  BY DEF Init
<1>2. original \in Archive /\ \A k \in DOMAIN files0 : files0[k].additional = <<>>
  BY <1>1, GogAssumption DEF files0
<1>3. TypeOK
  <2>1. original.files \in Seq(FileEntry)
    BY <1>2 DEF Archive
  <2>2. activeStart \in 0..Len(archive.files)
    BY <1>1, <2>1
  <2>3. remaining \in Uint
    BY <1>1, GogAssumption DEF Uint
  <2>4. fi \in Nat \ {0} /\ applied \in Seq(Archive) /\ allLanguages \subseteq Languages
    BY <1>1
  <2>5. archive \in Archive /\ hasLanguageConstraints \in BOOLEAN
    BY <1>1, <1>2
  <2> QED BY <1>1, <1>2, <2>2, <2>3, <2>4, <2>5 DEF TypeOK
<1>4. /\ Len(files0) \in Nat /\ DOMAIN files0 = 1..Len(files0)
      /\ DOMAIN original.entries = 1..Len(original.entries)
      /\ \A i \in DOMAIN files0 : i \in Nat /\ ~(i <= 0)
  BY <1>3, FileTypes
<1>5. ~Again /\ begun = 0 /\ passed = 0 /\ constrained = 0
  BY <1>1 DEF Again, begun, passed, constrained
<1>6. \A i : archive.files[i] = files0[i]
  BY <1>1 DEF files0
<1>7. Fixed
  BY <1>1, <1>6 DEF Fixed, SameMarkers, files0
<1>8. Positions /\ GroupKept
  BY <1>1 DEF Positions, GroupKept
<1>9. NamesKept
  BY Zenon, <1>4, <1>5, <1>6 DEF NamesKept
<1>10. ChecksumsKept
  BY Zenon, <1>4, <1>5, <1>6 DEF ChecksumsKept
<1>11. SizesKept
  BY <1>4, <1>5, <1>6 DEF SizesKept
<1>12. LocationsKept
  <2>1. \A i \in DOMAIN files0 : Joined(i) = {}
    BY <1>4, <1>5 DEF Joined, PartsOf
  <2>2. \A i \in DOMAIN files0 : archive.files[i].additional = <<>>
    BY <1>2, <1>6
  <2>3. OneOf(<<>>) = {} /\ DOMAIN <<>> = {}
    BY DEF OneOf
  <2> QED BY <2>1, <2>2, <2>3 DEF LocationsKept
<1>13. EntriesKept
  <2>1. \A l : EntryUpTo(archive.entries[l], l, 0)
    BY <1>1 DEF EntryUpTo
  <2> QED BY <1>5, <2>1 DEF EntriesKept
<1>14. ConstraintsKept
  <2>1. \A i \in DOMAIN files0 : ~Constrains(i)
    BY <1>4, <1>5 DEF Constrains
  <2> QED BY <1>6, <2>1 DEF ConstraintsKept, SameConstraints
<1>15. NamesCollected /\ SameAgain
  BY <1>1, <1>5 DEF NamesCollected, SameAgain
<1>16. LanguagesKept
  BY <1>1, <1>5 DEF LanguagesKept
<1> QED BY <1>3, <1>7, <1>8, <1>9, <1>10, <1>11, <1>12, <1>13, <1>14, <1>15, <1>16 DEF GInv

LEMMA NextGInv == GInv /\ [Next]_vars => GInv'
<1> SUFFICES ASSUME GInv, [Next]_vars PROVE GInv'
  OBVIOUS
<1>1. Base
  BY DEF GInv, Base
<1>2. CASE Next
  <2>1. Base'
    BY <1>1, <1>2, BaseStep
  <2>2. NamesKept' /\ ChecksumsKept' /\ SizesKept' /\ LocationsKept' /\ EntriesKept'
    BY <1>1, <1>2, NamesStep, ChecksumsStep, SizesStep, LocationsStep, EntriesStep DEF GInv
  <2>3. ConstraintsKept' /\ NamesCollected' /\ LanguagesKept' /\ SameAgain'
    BY <1>1, <1>2, ConstraintsStep, NamesCollectedStep, LanguagesStep, SameAgainStep DEF GInv
  <2> QED BY <2>1, <2>2, <2>3 DEF GInv, Base
<1>3. CASE vars' = vars
  <2>1. /\ original' = original /\ archive' = archive /\ pc' = pc /\ fi' = fi
        /\ activeStart' = activeStart /\ remaining' = remaining /\ allLanguages' = allLanguages
        /\ hasLanguageConstraints' = hasLanguageConstraints /\ applied' = applied
    BY <1>3 DEF vars, locals
  <2>2. (Again' <=> Again) /\ begun' = begun /\ passed' = passed /\ constrained' = constrained
    <3>1. files0' = files0 /\ (Again' <=> Again)
      BY <2>1 DEF files0, Again
    <3> QED BY <2>1, <3>1 DEF begun, passed, constrained
  <2>3. /\ \A i : Joined(i)' = Joined(i)
        /\ \A i : Constrains(i)' <=> Constrains(i)
        /\ \A s : Left(s)' = Left(s)
    BY <2>1, <2>2, Frozen DEF Joined, Constrains, Left
  <2>4. TypeOK' /\ Fixed' /\ Positions'
    BY <2>1, Frozen DEF GInv, TypeOK, Fixed, Positions, files0
  <2>5. GroupKept'
    BY <2>1, <2>3, Frozen DEF GInv, GroupKept
  <2>6. NamesKept' /\ ChecksumsKept'
    BY Zenon, <2>1, <2>2, Frozen DEF GInv, NamesKept, ChecksumsKept
  <2>7. SizesKept' /\ LocationsKept' /\ EntriesKept'
    <3>1. SizesKept'
      BY <2>1, <2>2, Frozen DEF GInv, SizesKept
    <3>2. LocationsKept'
      <4>1. /\ files0' = files0
            /\ \A i : PartsOf(i)' = PartsOf(i)
            /\ \A i : Shared(i)' <=> Shared(i)
        BY <2>1, Frozen
      <4> SUFFICES ASSUME NEW i \in DOMAIN files0
                   PROVE  LocationsAre(archive'.files[i].additional, i,
                                       {j \in PartsOf(i) : j # i /\ (Again \/ j <= passed)'})
        BY <4>1 DEF LocationsKept, LocationsAre, Joined
      <4>2. LocationsAre(archive.files[i].additional, i, Joined(i))
        BY DEF GInv, LocationsKept, LocationsAre
      <4>3. {j \in PartsOf(i) : j # i /\ (Again \/ j <= passed)'} = Joined(i)
        BY <2>2 DEF Joined
      <4> QED BY <2>1, <4>2, <4>3
    <3>3. EntriesKept'
      BY <2>1, <2>2, Frozen DEF GInv, EntriesKept
    <3> QED BY <3>1, <3>2, <3>3
  <2>8. ConstraintsKept'
    BY Zenon, <2>1, <2>3, Frozen DEF GInv, ConstraintsKept, SameConstraints
  <2>9. NamesCollected' /\ LanguagesKept' /\ SameAgain'
    BY <2>1, <2>2, Frozen DEF GInv, NamesCollected, LanguagesKept, SameAgain, SameButSize, SameMarkers,
       SameConstraints
  <2> QED BY <2>4, <2>5, <2>6, <2>7, <2>8, <2>9 DEF GInv
<1> QED BY <1>2, <1>3

LEMMA AlwaysGInv == Spec => []GInv
BY InitGInv, NextGInv, PTL DEF Spec

-----------------------------------------------------------------------------
(* What the invariant says of an archive Apply is done with.               *)

\* The values of the state are those of their types: no index leaves the files
\* of the archive, and no size or count its width.
THEOREM ApplyTypes == Spec => []TypeOK
<1>1. GInv => TypeOK
  BY DEF GInv
<1> QED BY <1>1, AlwaysGInv, PTL

LEMMA WhenApplied ==
  ASSUME GInv, Applied
  PROVE  /\ Again /\ begun = Len(files0) /\ passed = Len(files0) /\ constrained = 0
         /\ Len(files0) \in Nat /\ DOMAIN files0 = 1..Len(files0)
         /\ \A i \in DOMAIN files0 : Joined(i) = {j \in PartsOf(i) : j # i}
         /\ \A i \in DOMAIN files0 : SizeUpTo(archive.files[i].size, i, Len(files0))
         /\ \A l \in DOMAIN original.entries : EntryUpTo(archive.entries[l], l, Len(files0))
<1>1. pc = "idle" /\ Again
  BY DEF Applied, Again
<1>2. begun = Len(files0) /\ passed = Len(files0) /\ constrained = 0
  BY <1>1 DEF begun, passed, constrained
<1>3. Len(files0) \in Nat /\ DOMAIN files0 = 1..Len(files0)
  BY FileTypes DEF GInv
<1>4. \A i \in DOMAIN files0 : Joined(i) = {j \in PartsOf(i) : j # i}
  BY <1>1 DEF Joined
<1>5. \A i \in DOMAIN files0 : i <= begun
  BY <1>2, <1>3
<1>6. \A i \in DOMAIN files0 : SizeUpTo(archive.files[i].size, i, Len(files0))
  BY <1>2, <1>5 DEF GInv, SizesKept
<1>7. \A l \in DOMAIN original.entries : EntryUpTo(archive.entries[l], l, Len(files0))
  BY <1>2 DEF GInv, EntriesKept
<1> QED BY <1>1, <1>2, <1>3, <1>4, <1>6, <1>7

\* A start has the size of its parts.
LEMMA SizeOfParts ==
  ASSUME GInv, Applied, NEW i \in DOMAIN files0, PartsOf(i) # {}
  PROVE  archive.files[i].size = Size(i)
<1>1. /\ TypeOK /\ Len(files0) \in Nat /\ DOMAIN files0 = 1..Len(files0)
      /\ SizeUpTo(archive.files[i].size, i, Len(files0))
  BY WhenApplied DEF GInv
<1>2. PICK last \in DOMAIN files0 : /\ last = LastPart(i) /\ i <= last /\ PartsOf(i) = i..last
                                    /\ ~(last + 1 \in DOMAIN files0 /\ PartOf(i, last + 1))
  BY <1>1, GroupIsInterval
<1>3. last \in i..Len(files0) /\ last \in PartsOf(i)
  BY <1>1, <1>2
<1>4. PartOf(i, last) /\ IsStart(i)
  BY <1>1, <1>3, PartFacts DEF PartsOf
<1>5. last = Len(files0) \/ ~PartOf(i, last + 1)
  BY <1>1, <1>2
<1>6. archive.files[i].size = Sums(Sizes(i))[last - i + 1] % (MaxUint + 1)
  BY <1>1, <1>3, <1>4, <1>5 DEF SizeUpTo
<1>7. Len(Sizes(i)) = last - i + 1
  BY <1>1, <1>2, SizesType
<1> QED BY <1>6, <1>7 DEF Size, Total

\* Whatever groups of an archive are incomplete, interrupted or malformed, the
\* one pass joins exactly the parts that belong together: see
\* PartsJoinTheirStart.
THEOREM PartsCorrect == Spec => []PartsJoinTheirStart
<1>1. GInv => PartsJoinTheirStart
  <2> SUFFICES ASSUME GInv, Applied, NEW i \in DOMAIN files0
               PROVE  LET f == archive.files[i]
                          joined == {j \in PartsOf(i) : j # i}
                      IN  /\ OneOf(f.additional) = {files0[j].location : j \in joined}
                          /\ \A k, l \in DOMAIN f.additional : f.additional[k] = f.additional[l] => k = l
                          /\ IF PartsOf(i) # {} THEN f.size = Size(i)
                             ELSE f.size = IF files0[i].before.args > 0 THEN 0 ELSE files0[i].size
                          /\ (\E s \in DOMAIN files0 : s # i /\ PartOf(s, i)) => f.destination = ""
                          /\ f.destination = "" =>
                               files0[i].destination = "" \/ \E s \in DOMAIN files0 : s # i /\ PartOf(s, i)
    BY DEF PartsJoinTheirStart
  <2> DEFINE f == archive.files[i]
  <2>1. /\ OneOf(f.additional) = {files0[j].location : j \in {j \in PartsOf(i) : j # i}}
        /\ \A k, l \in DOMAIN f.additional : f.additional[k] = f.additional[l] => k = l
    BY WhenApplied DEF GInv, LocationsKept
  <2>2. PartsOf(i) # {} => f.size = Size(i)
    BY SizeOfParts
  <2>3. PartsOf(i) = {} => f.size = IF files0[i].before.args > 0 THEN 0 ELSE files0[i].size
    <3>1. PartsOf(i) = {} => ~PartOf(i, i)
      BY DEF PartsOf
    <3> QED BY <3>1, WhenApplied DEF SizeUpTo, IsStart
  <2>4. f.destination = IF IsPart(i) THEN "" ELSE IF HasName(i) THEN files0[i].before.name ELSE files0[i].destination
    BY Zenon, WhenApplied DEF GInv, NamesKept
  <2>5. HasName(i) => files0[i].before.name # ""
    BY DEF HasName
  <2>6. IsPart(i) => f.destination = ""
    BY <2>4
  <2>7. f.destination = "" => files0[i].destination = "" \/ IsPart(i)
    BY <2>4, <2>5
  <2> HIDE DEF f
  <2> QED BY Zenon, <2>1, <2>2, <2>3, <2>6, <2>7 DEF IsPart, f
<1> QED BY <1>1, AlwaysGInv, PTL

\* Only the data entries that parts lie in are made zlib streams: see
\* OnlyPartsAreInflated.
THEOREM EntriesCorrect == Spec => []OnlyPartsAreInflated
<1>1. GInv => OnlyPartsAreInflated
  <2> SUFFICES ASSUME GInv, Applied, NEW l \in DOMAIN archive.entries
               PROVE  IF \E s, j \in DOMAIN files0 : PartOf(s, j) /\ files0[j].location = l - 1
                      THEN archive.entries[l].zlib
                      ELSE archive.entries[l] = original.entries[l]
    BY DEF OnlyPartsAreInflated
  <2> DEFINE e == archive.entries[l]
             n == Len(files0)
             T == {j \in 1..n : InEntry(j, l)}
  <2>1. /\ n \in Nat /\ DOMAIN files0 = 1..n /\ EntryUpTo(e, l, n)
    BY WhenApplied, ArchiveTypes DEF GInv
  <2>2. T = {} <=> ~\E s, j \in DOMAIN files0 : PartOf(s, j) /\ files0[j].location = l - 1
    BY <2>1 DEF InEntry
  <2>3. CASE T = {}
    <3>1. e = original.entries[l]
      BY <2>1, <2>3 DEF EntryUpTo
    <3> QED BY <2>2, <2>3, <3>1
  <2>4. CASE T # {}
    <3>1. T \subseteq 0..n
      OBVIOUS
    <3>2. PICK m \in T : \A k \in T : k <= m
      <4> HIDE DEF T
      <4> QED BY <2>1, <2>4, <3>1, LastOfSet
    <3>3. m \in 1..n /\ InEntry(m, l)
      OBVIOUS
    <3>4. \A k \in (m + 1)..n : ~InEntry(k, l)
      <4> SUFFICES ASSUME NEW k \in (m + 1)..n, InEntry(k, l) PROVE FALSE
        OBVIOUS
      <4>1. k \in T /\ m \in Nat
        BY <2>1, <3>3
      <4>2. k <= m
        BY <3>2, <4>1
      <4> QED BY <2>1, <4>1, <4>2
    <3>5. e = [uncompressedSize |-> files0[m].after.size, zlib |-> TRUE]
      BY Zenon, <2>1, <3>3, <3>4 DEF EntryUpTo
    <3>6. e.zlib
      BY <3>5
    <3> QED BY <2>2, <2>4, <3>6
  <2> QED BY <2>3, <2>4
<1> QED BY <1>1, AlwaysGInv, PTL

\* A second call of Apply, and every later one, leaves the archive as the first
\* one left it: see ReapplyingIsHarmless.
THEOREM ReapplyCorrect == Spec => []ReapplyingIsHarmless
<1>1. GInv => ReapplyingIsHarmless
  BY DEF GInv, SameAgain, ReapplyingIsHarmless, Applied, Again
<1> QED BY <1>1, AlwaysGInv, PTL

\* Languages a file is constrained to are languages of the archive: see
\* ConstraintsNameLanguages.
THEOREM ConstraintsCorrect == Spec => []ConstraintsNameLanguages
<1>1. GInv => ConstraintsNameLanguages
  <2> SUFFICES ASSUME GInv, Applied, NEW i \in DOMAIN files0,
                      archive.files[i].languages # files0[i].languages
               PROVE  {c.name : c \in OneOf(archive.files[i].languages)} \subseteq archive.languages
    BY DEF ConstraintsNameLanguages
  <2> DEFINE g == Constrained(files0[i], AllNamed)
             c == files0[i].check
  <2>1. Again /\ constrained = 0 /\ i \in Nat /\ i <= Len(files0) /\ i >= 1
    BY WhenApplied
  <2>2. Constrains(i)
    BY DEF GInv, ConstraintsKept, SameConstraints
  <2>3. KeepsName(i) /\ Active
    BY <2>1, <2>2 DEF Constrains
  <2>4. archive.files[i].languages = g.languages
    BY <2>2 DEF GInv, ConstraintsKept, SameConstraints
  <2>5. TheConstraints(g, files0[i], AllNamed)
    BY FileTypes, ConstrainedFields DEF GInv
  <2>6. c.call = "install" /\ g.languages = c.languages /\ c.languages # <<>>
    <3> HIDE DEF g, files0
    <3> QED BY <2>4, <2>5 DEF TheConstraints
  <2>7. Named(c) \subseteq AllNamed
    BY <2>1, <2>3 DEF AllNamed, NamedUpTo
  <2>8. {d.name : d \in OneOf(archive.files[i].languages)} = Named(c)
    BY <2>4, <2>6 DEF Named
  <2>9. AllNamed # {}
    <3>1. c.languages \in Seq(Constraint)
      BY FileTypes DEF GInv, FileEntry, Check
    <3>2. 1 \in DOMAIN c.languages
      BY <2>6, <3>1
    <3>3. c.languages[1].name \in Named(c)
      BY <2>6, <3>2 DEF Named, OneOf
    <3> QED BY <2>7, <3>3
  <2>10. AllNamed \subseteq archive.languages
    BY <2>1, <2>3, <2>9 DEF GInv, LanguagesKept
  <2> QED BY <2>7, <2>8, <2>10
<1> QED BY <1>1, AlwaysGInv, PTL

\* The entry at the location of a part that shares it with no other has the
\* length of the part, and is inflated.
LEMMA EntryOfPart ==
  ASSUME GInv, Applied, NEW i \in DOMAIN files0, ~Shared(i), NEW j \in PartsOf(i)
  PROVE  archive.entries[files0[j].location + 1] = [uncompressedSize |-> files0[j].after.size, zlib |-> TRUE]
<1> DEFINE l == files0[j].location + 1
           n == Len(files0)
<1>1. /\ TypeOK /\ n \in Nat /\ DOMAIN files0 = 1..n
      /\ \A m \in DOMAIN original.entries : EntryUpTo(archive.entries[m], m, n)
  BY WhenApplied DEF GInv
<1>2. j \in DOMAIN files0 /\ PartOf(i, j)
  BY DEF PartsOf
<1>3. /\ files0[j].location \in Nat /\ files0[j].location < Len(original.entries)
      /\ DOMAIN original.entries = 1..Len(original.entries) /\ Len(original.entries) \in Nat
  BY <1>1, <1>2, FileTypes, PartFacts
<1>4. l \in DOMAIN original.entries /\ l - 1 = files0[j].location
  BY <1>3
<1>5. InEntry(j, l)
  BY <1>2, <1>4 DEF InEntry
<1>6. \A k \in (j + 1)..n : ~InEntry(k, l)
  <2> SUFFICES ASSUME NEW k \in (j + 1)..n, InEntry(k, l) PROVE FALSE
    OBVIOUS
  <2>1. k \in DOMAIN files0 /\ k # j
    BY <1>1, <1>2
  <2>2. PICK s \in DOMAIN files0 : PartOf(s, k) /\ files0[k].location = files0[j].location
    BY <1>4 DEF InEntry
  <2> QED BY <2>1, <2>2 DEF Shared
<1>7. archive.entries[l] = [uncompressedSize |-> files0[j].after.size, zlib |-> TRUE]
  <2>1. EntryUpTo(archive.entries[l], l, n) /\ j \in 1..n
    BY <1>1, <1>2, <1>4
  <2> HIDE DEF l, n
  <2> QED BY Zenon, <1>5, <1>6, <2>1 DEF EntryUpTo
<1> QED BY <1>7 DEF l

\* The locations of a start whose parts share theirs with no other are those
\* of its parts, in their order.
LEMMA LocationsOfParts ==
  ASSUME GInv, Applied, NEW i \in DOMAIN files0, PartsOf(i) # {}, ~Shared(i)
  PROVE  /\ Len(Locations(archive.files[i])) = LastPart(i) - i + 1
         /\ \A k \in 1..(LastPart(i) - i + 1) :
              Locations(archive.files[i])[k] = files0[i + k - 1].location
<1> DEFINE f == archive.files[i]
           x == f.additional
           locations == Locations(f)
<1>1. /\ TypeOK /\ Fixed /\ Len(files0) \in Nat /\ DOMAIN files0 = 1..Len(files0)
      /\ Joined(i) = {j \in PartsOf(i) : j # i}
  BY WhenApplied DEF GInv
<1>2. PICK last \in DOMAIN files0 : last = LastPart(i) /\ i <= last /\ PartsOf(i) = i..last
  BY <1>1, GroupIsInterval
<1>4. f \in FileEntry /\ x \in Seq(Nat) /\ f.location = files0[i].location /\ f.location \in Nat
  BY <1>1, ArchiveTypes DEF FileEntry, Fixed, SameMarkers
<1>5. /\ \A j \in Joined(i) : j - i \in DOMAIN x
      /\ \A k \in DOMAIN x : i + k \in Joined(i) /\ x[k] = files0[i + k].location
  BY DEF GInv, LocationsKept
<1>6. Len(x) = last - i
  <2>1. DOMAIN x = 1..Len(x) /\ Len(x) \in Nat /\ i \in Nat /\ last \in Nat
    BY <1>1, <1>4
  <2> HIDE DEF x
  <2>2. Joined(i) = (i + 1)..last
    BY <1>1, <1>2, <2>1
  <2>3. last - i <= Len(x)
    <3>1. CASE i = last
      BY <2>1, <3>1
    <3>2. CASE i # last
      <4>1. last \in Joined(i)
        BY <1>2, <2>1, <2>2, <3>2
      <4> QED BY <1>5, <2>1, <4>1
    <3> QED BY <3>1, <3>2
  <2>4. Len(x) <= last - i
    <3>1. CASE Len(x) = 0
      BY <1>2, <2>1, <3>1
    <3>2. CASE Len(x) # 0
      <4>1. Len(x) \in DOMAIN x
        BY <2>1, <3>2
      <4>2. i + Len(x) \in (i + 1)..last
        BY <1>5, <2>2, <4>1
      <4> QED BY <2>1, <4>2
    <3> QED BY <3>1, <3>2
  <2> QED BY <2>1, <2>3, <2>4
<1>7. /\ Len(locations) = last - i + 1
      /\ \A k \in 1..(last - i + 1) : locations[k] = files0[i + k - 1].location
  <2>1. locations = <<f.location>> \o x
    BY DEF Locations
  <2> HIDE DEF x, locations, f
  <2>2. /\ i \in Nat /\ last \in Nat /\ Len(locations) = 1 + Len(x)
        /\ locations[1] = files0[i].location
        /\ \A k \in 2..Len(locations) : locations[k] = x[k - 1]
    BY <1>1, <1>4, <2>1
  <2>3. ASSUME NEW k \in 2..(last - i + 1) PROVE locations[k] = files0[i + k - 1].location
    <3>1. k - 1 \in DOMAIN x /\ i + (k - 1) = i + k - 1 /\ k \in 2..Len(locations)
      BY <1>4, <1>6, <2>2
    <3> QED BY <1>5, <2>2, <3>1
  <2>4. i + 1 - 1 = i
    BY <2>2
  <2> QED BY <1>2, <1>6, <2>2, <2>3, <2>4
<1> QED BY <1>2, <1>7

\* A joined file has the size of what lies at its locations: see
\* SizeIsSumOfParts.
THEOREM SizesCorrect == Spec => []SizeIsSumOfParts
<1>1. GInv => SizeIsSumOfParts
  <2> SUFFICES ASSUME GInv, Applied, NEW i \in DOMAIN files0, PartsOf(i) # {}, ~Shared(i)
               PROVE  LET locations == Locations(archive.files[i])
                          lengths == [k \in 1..Len(locations) |-> archive.entries[locations[k] + 1].uncompressedSize]
                      IN  archive.files[i].size = Total(lengths) % (MaxUint + 1)
    BY DEF SizeIsSumOfParts, Shared
  <2> DEFINE f == archive.files[i]
             x == f.additional
             locations == Locations(f)
             lengths == [k \in 1..Len(locations) |-> archive.entries[locations[k] + 1].uncompressedSize]
  <2>1. /\ TypeOK /\ Fixed /\ Len(files0) \in Nat /\ DOMAIN files0 = 1..Len(files0)
        /\ Joined(i) = {j \in PartsOf(i) : j # i}
    BY WhenApplied DEF GInv
  <2>2. PICK last \in DOMAIN files0 : last = LastPart(i) /\ i <= last /\ PartsOf(i) = i..last
    BY <2>1, GroupIsInterval
  <2>3. Len(Sizes(i)) = last - i + 1 /\ \A j \in PartsOf(i) : Sizes(i)[j - i + 1] = files0[j].after.size
    BY <2>1, <2>2, SizesType
  <2>7. /\ Len(locations) = last - i + 1
        /\ \A k \in 1..(last - i + 1) : locations[k] = files0[i + k - 1].location
    BY <2>2, LocationsOfParts
  <2>8. lengths = Sizes(i)
    <3>1. ASSUME NEW k \in 1..(last - i + 1) PROVE lengths[k] = Sizes(i)[k]
      <4> DEFINE j == i + k - 1
      <4>1. j \in PartsOf(i) /\ j - i + 1 = k
        BY <2>1, <2>2
      <4>2. lengths[k] = archive.entries[files0[j].location + 1].uncompressedSize
        BY <2>7
      <4> HIDE DEF j, lengths
      <4>3. archive.entries[files0[j].location + 1] = [uncompressedSize |-> files0[j].after.size, zlib |-> TRUE]
        BY <4>1, EntryOfPart
      <4>4. archive.entries[files0[j].location + 1].uncompressedSize = files0[j].after.size
        BY <4>3
      <4>5. Sizes(i)[j - i + 1] = files0[j].after.size
        BY <2>3, <4>1
      <4> QED BY <4>1, <4>2, <4>4, <4>5
    <3>2. Sizes(i) = [k \in 1..(last - i + 1) |-> Sizes(i)[k]]
      BY <2>2 DEF Sizes
    <3>3. lengths = [k \in 1..(last - i + 1) |-> lengths[k]]
      BY <2>7
    <3> HIDE DEF lengths
    <3> QED BY <3>1, <3>2, <3>3
  <2>9. f.size = Total(Sizes(i)) % (MaxUint + 1)
    BY SizeOfParts DEF Size
  <2> QED BY <2>8, <2>9
<1> QED BY <1>1, AlwaysGInv, PTL

\* In the middle of the files, the open group and its countdown are what the
\* markers passed so far say, and the start has the size of the parts taken:
\* see CountdownFollowsGroup.
THEOREM CountdownCorrect == Spec => []CountdownFollowsGroup
<1>1. GInv => CountdownFollowsGroup
  <2> SUFFICES ASSUME GInv, pc = "start" PROVE CountdownFollowsGroup
    BY DEF CountdownFollowsGroup
  <2>1. /\ TypeOK /\ fi \in Nat \ {0} /\ fi <= Len(files0) + 1
        /\ Len(files0) \in Nat /\ DOMAIN files0 = 1..Len(files0)
        /\ begun = fi - 1 /\ passed = fi - 1
    BY FileTypes DEF GInv, TypeOK, Positions, begun, passed
  <2>2. ASSUME NEW s \in DOMAIN files0
        PROVE  fi - s < Parts(files0[s].before) <=> Left(s) > 0
    <3>1. Parts(files0[s].before) \in Nat
      BY <2>1, FileTypes DEF Uint
    <3>2. s \in Nat
      BY <2>1
    <3> QED BY <2>1, <3>1, <3>2 DEF Left
  <2>3. /\ activeStart > 0 /\ remaining # 0 =>
             PartOf(activeStart, fi - 1) /\ remaining = Left(activeStart)
        /\ \A s \in DOMAIN files0 :
             PartOf(s, fi - 1) /\ Left(s) > 0 => activeStart = s /\ remaining = Left(s)
    BY DEF GInv, GroupKept
  <2>4. ASSUME NEW s \in 1..(fi - 1), PartOf(s, fi - 1), fi - s < Parts(files0[s].before)
        PROVE  activeStart = s /\ remaining # 0
    <3>1. s \in DOMAIN files0
      BY <2>1
    <3>2. Left(s) > 0 /\ remaining = Left(s) /\ activeStart = s
      BY <2>2, <2>3, <2>4, <3>1
    <3> QED BY <3>2
  <2>5. ASSUME activeStart # 0, remaining # 0
        PROVE  /\ PartOf(activeStart, fi - 1)
               /\ fi - activeStart < Parts(files0[activeStart].before)
               /\ remaining = Parts(files0[activeStart].before) - (fi - activeStart)
               /\ archive.files[activeStart].size =
                    Sums(Sizes(activeStart))[fi - activeStart] % (MaxUint + 1)
    <3> DEFINE s == activeStart
    <3>1. s \in 0..Len(archive.files) /\ Len(archive.files) = Len(files0) /\ remaining \in Uint
      BY <2>1 DEF TypeOK, GInv, Fixed
    <3>2. s \in DOMAIN files0 /\ s > 0 /\ s \in Nat /\ remaining > 0
      BY <2>1, <2>5, <3>1 DEF Uint
    <3>3. PartOf(s, fi - 1) /\ remaining = Left(s)
      BY <2>3, <2>5, <3>2
    <3>4. s <= fi - 1 /\ IsStart(s)
      BY <3>3 DEF PartOf, IsStart
    <3>5. SizeUpTo(archive.files[s].size, s, fi - 1)
      BY <2>1, <3>2, <3>4 DEF GInv, SizesKept
    <3>6. fi - 1 \in s..(fi - 1) /\ (fi - 1) - s + 1 = fi - s
      BY <2>1, <3>2, <3>4
    <3>7. archive.files[s].size = Sums(Sizes(s))[fi - s] % (MaxUint + 1)
      BY <3>3, <3>4, <3>5, <3>6 DEF SizeUpTo
    <3>8. fi - s < Parts(files0[s].before)
      BY <2>2, <3>2, <3>3
    <3> QED BY <3>3, <3>7, <3>8 DEF Left
  <2> QED BY Zenon, <2>4, <2>5 DEF CountdownFollowsGroup
<1> QED BY <1>1, AlwaysGInv, PTL

=============================================================================
