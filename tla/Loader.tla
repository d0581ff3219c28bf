------------------------------- MODULE Loader -------------------------------
(***************************************************************************)
(* loader.Locate (internal/loader/loader.go): find the table of offsets in *)
(* an executable, at a fixed place or in a resource, or take the file for  *)
(* a bare setup-0.bin.                                                     *)
(*                                                                         *)
(* A file is its size and the structures that begin at some of its         *)
(* offsets; what a read finds anywhere else is none of them.  Locate reads *)
(* and computes only, so it is an operator on files.                       *)
(***************************************************************************)
EXTENDS Integers, Sequences

CONSTANT MaxU32     \* math.MaxUint32
ASSUME LoaderAssumption == MaxU32 \in Nat

Object(f, off) == IF off \in DOMAIN f.at THEN f.at[off] ELSE [kind |-> "bytes"]
Is(f, off, kind) == Object(f, off).kind = kind

\* readAt: n bytes at off or an error.
Readable(f, off, n) == off >= 0 /\ off + n <= f.size

NoOffsets == [found |-> FALSE, revision |-> 0, exe |-> 0, header |-> 0, data |-> 0]
Found(o)    == [err |-> "none", found |-> TRUE, offsets |-> o]
Failed(e)   == [err |-> e, found |-> TRUE, offsets |-> NoOffsets]
NotFound    == [err |-> "none", found |-> FALSE, offsets |-> NoOffsets]

\* The words of a table of revision 1 from the total size on.  Loaders before
\* 4.1.6 have a compressed size, loaders before 4.0.0 a message offset as well.
\* version is 0 for an unknown magic, else 10000 * major + 100 * minor + patch.
Optional(absent) == IF absent THEN 0 ELSE 1
HeaderWord(version) == 5 + Optional(version >= 40106) + Optional(version >= 40000)

\* A slice of 28 bytes has no eighth word: reading it is a panic.
RevisionOne(t) ==
  IF HeaderWord(t.version) + 1 > 7 THEN Failed("panic")
  ELSE Found([found |-> TRUE, revision |-> 1, exe |-> t.words[2],
              header |-> t.words[HeaderWord(t.version)], data |-> t.words[HeaderWord(t.version) + 1]])

\* The checksum of a table of revision 2 is read and its verdict ignored.
RevisionTwo(t) ==
  IF t.exe < 0 \/ t.header < 0 \/ t.data < 0 THEN Failed("Corrupt")
  ELSE Found([found |-> TRUE, revision |-> 2, exe |-> t.exe, header |-> t.header, data |-> t.data])

loadOffsetTable(f, pos) ==
  LET t == Object(f, pos) IN
  IF ~Readable(f, pos, 12) THEN Failed("Corrupt")
  ELSE IF t.kind # "table" \/ (t.kind = "table" /\ t.version = 0) THEN Failed("InvalidFormat")
  ELSE IF ~Readable(f, pos + 12, 4) THEN Failed("Corrupt")
  ELSE IF t.revision = 2 /\ Readable(f, pos + 16, 48) THEN RevisionTwo(t)
  ELSE IF t.revision # 2 /\ Readable(f, pos + 16, 28) THEN RevisionOne(t)
  ELSE Failed("Corrupt")

\* The marker at 0x30 gives the place of the table and its complement.
fixedOffsetTable(f) ==
  IF Readable(f, 48, 12) /\ Is(f, 48, "marker") /\ Object(f, 48).complemented
  THEN loadOffsetTable(f, Object(f, 48).table)
  ELSE NotFound

-----------------------------------------------------------------------------
(* Addresses in the image.  A section is [va, virtualSize, raw, rawSize].   *)

Nowhere == -1
span(s) == IF s.rawSize > s.virtualSize THEN s.rawSize ELSE s.virtualSize

\* section.fileOffset
\* Mutant of Maps: an address is taken to be in the section before it.
MapsBelow(s, rva) == rva - s.va < span(s) /\ s.raw + (rva - s.va) \in 0..MaxU32
Maps(s, rva) == rva >= s.va /\ rva - s.va < span(s) /\ s.raw + (rva - s.va) <= MaxU32
fileOffset(s, rva) == s.raw + (rva - s.va)

\* The first section that maps the address decides.
rvaToFile(sections, rva) ==
  LET Mapping == {i \in DOMAIN sections : Maps(sections[i], rva)} IN
  IF Mapping = {} THEN Nowhere
  ELSE fileOffset(sections[CHOOSE i \in Mapping : \A j \in Mapping : i <= j], rva)

-----------------------------------------------------------------------------
(* The resource directory: an entry is [id, ref, sub]; sub tells that ref   *)
(* leads to a directory and not to a leaf, a named entry has an id below 0. *)

addRVA(root, rel) == IF root + rel > MaxU32 THEN Nowhere ELSE root + rel

MaxEntries == 4096
\* What else lies at an offset has no entries.
Entries(f, off) == IF Is(f, off, "dir") THEN Object(f, off).entries ELSE <<>>
DirReadable(f, off) == /\ Readable(f, off, 16) /\ Len(Entries(f, off)) <= MaxEntries
                       /\ Readable(f, off, 16 + 8 * Len(Entries(f, off)))

First(entries, Wanted(_)) ==
  LET Hits == {i \in DOMAIN entries : Wanted(entries[i])} IN
  IF Hits = {} THEN 0 ELSE CHOOSE i \in Hits : \A j \in Hits : i <= j

resourceEntry(entries, id) == LET Wanted(e) == e.id = id IN First(entries, Wanted)

English == 1033     \* 0x409
\* The English entry, else the first one.  The sign of a named entry is masked.
languageEntry(entries) ==
  LET Wanted(e) == e.id \in {English, -English}
      k == First(entries, Wanted) IN
  IF k = 0 /\ entries # <<>> THEN 1 ELSE k

Broken  == [err |-> "Corrupt", off |-> Nowhere]
Missing == [err |-> "none", off |-> Nowhere]

\* One level of findResource below the directory at off, by the entry Pick
\* chooses: where it leads, Nowhere when it is missing or of the wrong kind.
Level(f, root, off, Pick(_), sub) ==
  LET k == Pick(Entries(f, off)) IN
  IF ~DirReadable(f, off) THEN Broken
  ELSE IF k = 0 THEN Missing
  ELSE LET entry == Entries(f, off)[k] IN
       IF entry.sub # sub THEN Missing
       ELSE IF addRVA(root, entry.ref) = Nowhere THEN Broken
       ELSE [err |-> "none", off |-> addRVA(root, entry.ref)]

resourceTypeData == 10
loaderResourceName == 11111

\* The leaf at off names the bytes of the resource, which are read.
Leaf(f, sections, off) ==
  LET leaf == IF Is(f, off, "leaf") THEN Object(f, off) ELSE [rva |-> 0, size |-> 0]
      data == rvaToFile(sections, leaf.rva)
  IN IF /\ Readable(f, off, 16) /\ data # Nowhere
        /\ leaf.size > 0 => Readable(f, data, leaf.size)
     THEN [err |-> "none", off |-> data]
     ELSE Broken

\* findResource: type, name, language, then the leaf.
Then(place, Step(_)) == IF place.off = Nowhere THEN place ELSE Step(place.off)
findResource(f, sections, root) ==
  LET OfType(entries) == resourceEntry(entries, resourceTypeData)
      OfName(entries) == resourceEntry(entries, loaderResourceName)
      LeafAt(off) == Leaf(f, sections, off)
      NameAt(off) == Then(Level(f, root, off, languageEntry, FALSE), LeafAt)
      TypeAt(off) == Then(Level(f, root, off, OfName, TRUE), NameAt)
  IN Then(Level(f, root, root, OfType, TRUE), TypeAt)

\* The word at the start of the directories, which is compared with 3, is the
\* address of the first of them (exports), not their number.
dirOff(pe) == IF pe.magic = "pe32+" THEN 112 ELSE 96

TableAt(f, place) == IF place.err # "none" THEN Failed("Corrupt")
                     ELSE IF place.off = Nowhere THEN Failed("InvalidFormat")
                     ELSE loadOffsetTable(f, place.off)

resourceOffsetTable(f) ==
  LET dos == Object(f, 0)
      pe  == Object(f, dos.pe)
      opt == dos.pe + 24
      root == rvaToFile(pe.sections, pe.resource)
  IN IF ~(Readable(f, 0, 64) /\ dos.kind = "dos") THEN NotFound
     ELSE IF ~(Readable(f, dos.pe, 24) /\ pe.kind = "pe") THEN NotFound
     ELSE IF \/ Len(pe.sections) \notin 1..96 \/ pe.optionalSize \notin 96..4096
             \/ ~Readable(f, opt, pe.optionalSize) THEN Failed("Corrupt")
     ELSE IF pe.magic \notin {"pe32", "pe32+"} THEN Failed("InvalidFormat")
     ELSE IF dirOff(pe) + 24 > pe.optionalSize \/ pe.exports < 3 THEN Failed("Corrupt")
     ELSE IF pe.resource = 0 THEN Failed("InvalidFormat")
     ELSE IF ~Readable(f, opt + pe.optionalSize, 40 * Len(pe.sections)) \/ root = Nowhere THEN Failed("Corrupt")
     ELSE TableAt(f, findResource(f, pe.sections, root))

\* Locate: what one search has found or failed at is not searched again.
Locate(f) == IF fixedOffsetTable(f).found THEN fixedOffsetTable(f) ELSE resourceOffsetTable(f)

=============================================================================
