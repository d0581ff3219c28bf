---------------------------- MODULE MCSetupParse ----------------------------
(***************************************************************************)
(* Installers for SetupParse: small archives, written in the layout of     *)
(* their version as a setup-0.bin or into executables of several shapes,   *)
(* and the same files cut, extended, corrupted or put together wrongly.    *)
(***************************************************************************)
EXTENDS SetupParse, FiniteSets

MCMaxU32 == 9999
MCDefaultLimit == 3000
MCPartSize == 400
MCLimits == {0, 560}

-----------------------------------------------------------------------------
(* The writer.                                                              *)

Le(n, size) == [i \in 1..size |-> IF i > 3 THEN 0 ELSE (n \div 256 ^ (i - 1)) % 256]
\* Bound by a quantifier, an argument is evaluated once.
Concat(seqs) == CHOOSE s \in {FlattenSeq(t) : t \in {seqs}} : TRUE
Wide(units) == Concat([i \in DOMAIN units |-> Le(units[i], 2)])
Written(s) == Le(Len(s), 4) \o s
Nothing == [x \in {} |-> 0]
Zeros(n) == [i \in 1..n |-> 0]
Padded(s, n) == [i \in 1..n |-> IF i <= Len(s) THEN s[i] ELSE 0]
\* Numbers with the given bits set.
BitsOf(S) == [i \in 1..8 |-> LET On == {k \in S : k \div 8 = i - 1} IN
                             FoldSet(LAMBDA k, n : n + 2 ^ (k % 8), 0, On)]

WrittenField(f, vals) ==
  LET value == IF f.name \in DOMAIN vals THEN vals[f.name] ELSE <<>> IN
  CASE f.kind \in {"fixed", "must"} -> Padded(value, f.size)
    [] f.kind \in {"utf16", "raw"}  -> Written(value)
    [] f.kind = "strings"           -> Written(<<33>>) \o Zeros(4 * (f.size - 1))
    [] f.kind = "group"             -> Le(2, 4) \o Written(<<44>>) \o Written(<<>>)
WrittenRecord(layout, vals) ==
  Concat(CHOOSE s \in {[i \in DOMAIN l |-> WrittenField(l[i], w)] : l \in {layout}, w \in {vals}} : TRUE)

\* An archive a: what Parse keeps of it, and how many records there are of the
\* kinds it skips.
HeaderVals(a) ==
  a.raw @@ [n \in HeaderNames |-> Wide(a.names[n])]
    @@ [n \in {CountNames[i] : i \in DOMAIN CountNames} |->
          IF n \in DOMAIN a.counts THEN Le(a.counts[n], 4)
          ELSE IF n \in DOMAIN a THEN Le(Len(a[n]), 4) ELSE Le(a.others, 4)]
    @@ ("sevenZip" :> When(AtLeast(a.v, 5, 0), a.sevenZip)) @@ ("Compression" :> <<a.compression>>)
    @@ ("Password" :> [i \in 1..20 |-> 7])
    @@ ("Flags" :> BitsOf(IF a.encrypted THEN {EncryptionBit(a.v)} ELSE {0, EncryptionBit(a.v) + 1}))
FileTexts == {"Source", "Destination", "Components", "Tasks", "Languages",
              "Check", "AfterInstall", "BeforeInstall"}
LanguageVals(l) == [n \in {"Name", "DisplayName"} |-> Wide(l[n])] @@ ("ID" :> Le(l.ID, 4))
FileVals(f) == [n \in FileTexts |-> Wide(f[n])]
                 @@ ("Digest" :> f.digest) @@ ("verification" :> <<f.verification>>)
                 @@ ("Location" :> Le(f.Location, 4)) @@ ("Size" :> Le(f.Size, 4)) @@ ("Flags" :> BitsOf(f.flags))
RegistryVals(r) == [n \in {"Key", "Name", "Value"} |-> Wide(r[n])]
EntryNumbers == {"FirstSlice", "LastSlice", "ChunkOffset", "FileOffset", "FileSize", "ChunkSize"}
EntryVals(e) == [n \in EntryNumbers |-> Le(e[n], 4)] @@ ("Digest" :> e.digest) @@ ("Flags" :> BitsOf(e.flags))

ValsOf(a, p, i) ==
  CASE p = "languages"   -> LanguageVals(a.languages[i])
    [] p = "files"       -> FileVals(a.files[i])
    [] p = "registries"  -> RegistryVals(a.registries[i])
    [] p = "dataEntries" -> EntryVals(a.dataEntries[i])
    [] OTHER             -> Nothing
HowMany(a, p) ==
  CASE p = "wizard"                -> 1
    [] p \in {"deletes", "runs"}   -> 2 * a.others
    [] p \in DOMAIN a              -> Len(a[p])
    [] p = "issigKeys"             -> If(AtLeast(a.v, 5, 0), a.others)
    [] OTHER                       -> a.others
Records(a, p, h) ==
  Concat([i \in 1..HowMany(a, p) |-> WrittenRecord(Layout(a.v, h, p), ValsOf(a, p, i))])

Primary(a) ==
  CHOOSE s \in {WrittenRecord(HeaderFields(a.v), h) \o Concat([k \in 1..15 |-> Records(a, Phases[k + 1], h)]) :
                 h \in {HeaderVals(a)}} : TRUE
Secondary(a) == Records(a, "dataEntries", HeaderVals(a))

\* What Parse is to return.
DigestSize(v) == IF AtLeast(v, 4, 0) THEN 32 ELSE 20
ParsedFile(a, f) ==
  [n \in FileTexts |-> f[n]] @@
  [Checksum |-> IF AtLeast(a.v, 5, 0) /\ f.verification = 1 THEN f.digest ELSE <<>>,
   Location |-> f.Location, Size |-> f.Size,
   Temporary |-> 3 \in f.flags, DontCopy |-> 19 \in f.flags, Bits32 |-> 26 \in f.flags, Bits64 |-> 27 \in f.flags]
ParsedEntry(a, e) ==
  [n \in EntryNumbers |-> e[n]] @@
  [Digest |-> SubSeq(e.digest, 1, DigestSize(a.v)),
   Compression |-> IF 4 \notin e.flags THEN "stored"
                   ELSE IF a.compression > 4 THEN "unknown" ELSE Compressions[a.compression + 1],
   Encryption |-> IF 3 \notin e.flags THEN "plaintext"
                  ELSE IF AtLeast(a.v, 4, 0) THEN "xchacha20" ELSE "arc4sha1",
   Filter |-> IF 2 \in e.flags THEN "instruction5309" ELSE "none"]
Result(a, offs) ==
  [version |-> a.v, offsets |-> offs, encrypted |-> a.encrypted,
   compression |-> IF a.compression > 4 THEN "unknown" ELSE Compressions[a.compression + 1],
   names |-> a.names,
   records |-> [languages |-> [i \in DOMAIN a.languages |->
                                 [a.languages[i] EXCEPT !.Name = IF @ = <<>> THEN DefaultName ELSE @]],
                files |-> [i \in DOMAIN a.files |-> ParsedFile(a, a.files[i])],
                registries |-> a.registries,
                dataEntries |-> [i \in DOMAIN a.dataEntries |-> ParsedEntry(a, a.dataEntries[i])]]]

-----------------------------------------------------------------------------
(* Archives.                                                                *)

Language1 == [Name |-> <<101, 110>>, DisplayName |-> <<69>>, ID |-> 1033]
Language2 == [Name |-> <<>>, DisplayName |-> <<>>, ID |-> 7]
File1 == [Source |-> <<65>>, Destination |-> <<66, 353>>, Components |-> <<67>>, Tasks |-> <<68>>,
          Languages |-> <<101, 110>>, Check |-> <<70>>, AfterInstall |-> <<71, 72>>, BeforeInstall |-> <<73>>,
          digest |-> [i \in 1..32 |-> 10 + i], verification |-> 1,
          Location |-> 1, Size |-> 70000, flags |-> {3, 27}]
File2 == [n \in FileTexts |-> <<>>] @@
         [digest |-> Zeros(32), verification |-> 2, Location |-> 0, Size |-> 0, flags |-> {2, 19, 26}]
Registry1 == [Key |-> <<75>>, Name |-> <<>>, Value |-> <<86, 87>>]
Entry1 == [FirstSlice |-> 0, LastSlice |-> 1, ChunkOffset |-> 300, FileOffset |-> 4, FileSize |-> 70000,
           ChunkSize |-> 513, digest |-> [i \in 1..32 |-> 50 + i], flags |-> {2, 4}]
Entry2 == [Entry1 EXCEPT !.FileOffset = 0, !.digest = [i \in 1..32 |-> 4 * i], !.flags = {3}]

Names1 == [n \in HeaderNames |-> IF n = "BaseFilename" THEN <<>> ELSE <<65, 353>>]
\* One record of everything, or two.
Slim(v) ==
  [v |-> v, encrypted |-> FALSE, compression |-> 4, sevenZip |-> <<>>, others |-> 0,
   counts |-> Nothing, raw |-> Nothing, names |-> Names1, languages |-> <<Language1>>, files |-> <<File1>>,
   registries |-> <<>>, dataEntries |-> <<Entry1, Entry2>>]
Full(v) ==
  [Slim(v) EXCEPT !.encrypted = TRUE, !.compression = 2, !.sevenZip = <<9>>, !.others = 1,
                  !.languages = <<Language2, Language1>>, !.files = <<File2, File1>>,
                  !.registries = <<Registry1, Registry1>>]

Versions == {<<6, 0, 0, 0>>, <<6, 1, 0, 0>>, <<6, 3, 0, 0>>, <<6, 4, 0, 0>>, <<6, 4, 0, 1>>, <<6, 4, 2, 0>>,
             <<6, 4, 3, 0>>, <<6, 5, 0, 0>>, <<6, 5, 2, 0>>, <<6, 6, 0, 0>>, <<6, 6, 1, 0>>, <<6, 7, 0, 0>>}
Archives ==
  {Slim(v) : v \in Versions} \cup {Full(v) : v \in Versions}
    \cup {[Slim(<<6, 4, 3, 0>>) EXCEPT !.compression = c] : c \in {0, 1, 5}}
    \cup {[Slim(<<6, 5, 0, 0>>) EXCEPT !.names.AppName = <<>>, !.languages = <<>>, !.files = <<>>,
                                   !.dataEntries = <<>>]}

-----------------------------------------------------------------------------
(* Streams and files.                                                       *)

PartsOf(n) == (n + PartSize - 1) \div PartSize
Block(content) ==
  [kind |-> "block", stored |-> Len(content) + 4 * PartsOf(Len(content)), intact |-> TRUE, bad |-> 0,
   compressed |-> FALSE, content |-> content, broken |-> FALSE]
Packed(content) == [Block(content) EXCEPT !.stored = 45, !.compressed = TRUE]

VersionText(v) == [kind |-> "version", parts |-> IF v[4] = 0 THEN SubSeq(v, 1, 3) ELSE v]
EncryptionHeader(a) == [kind |-> "encryption", intact |-> TRUE, encrypted |-> a.encrypted]

\* What setup-0.bin holds from offset p on.
Outer(a) == AtLeast(a.v, 5, 0)
PrimaryAt(a, p) == p + 64 + If(Outer(a), 53)
SecondaryAt(a, p, block) == PrimaryAt(a, p) + block.stored + IF AtLeast(a.v, 7, 0) THEN 13 ELSE 9
Setup0(a, p, block1, block2) ==
  (p :> VersionText(a.v)) @@ (IF Outer(a) THEN p + 64 :> EncryptionHeader(a) ELSE Nothing)
    @@ (PrimaryAt(a, p) :> block1) @@ (SecondaryAt(a, p, block1) :> block2)
EndOf(a, p, block1, block2) ==
  SecondaryAt(a, p, block1) + block2.stored + IF AtLeast(a.v, 7, 0) THEN 13 ELSE 9

Larger(x, y) == IF x > y THEN x ELSE y
Needs(block) == Larger(block.stored, Len(block.content))
Installer(kind, f, needs, written) ==
  [kind |-> kind, file |-> f, needs |-> needs, written |-> written, addresses |-> {}]

\* An external setup-0.bin.
Bare(kind, a, block1, block2) ==
  Installer(kind, [size |-> EndOf(a, 0, block1, block2), at |-> Setup0(a, 0, block1, block2)],
            Larger(Needs(block1), Needs(block2)), Result(a, NoOffsets))

SoundSetups ==
  {Bare("sound", a, Block(Primary(a)), Block(Secondary(a))) : a \in Archives}
    \cup LET a == Slim(<<6, 6, 1, 0>>) IN
         {Bare("sound", a, Packed(Primary(a)), Packed(Secondary(a))),
          Bare("sound", a, [Packed(Primary(a)) EXCEPT !.stored = 561], Packed(Secondary(a))),
          Bare("sound", a, Packed(Primary(a)), [Packed(Secondary(a)) EXCEPT !.stored = 561])}

\* A stream that ends early, goes on, or is corrupted.
Cuts(s) == {SubSeq(s, 1, n) : n \in 0..(Len(s) - 1)} \cup {s \o <<0>>, s \o <<1, 0, 0, 0>>}
Damaged(block) ==
  {[block EXCEPT !.intact = FALSE], [block EXCEPT !.bad = 1], [block EXCEPT !.stored = @ + 1],
   [block EXCEPT !.stored = 404 + 4], [block EXCEPT !.compressed = TRUE, !.broken = TRUE],
   [block EXCEPT !.kind = "bytes"]}
\* Every place of the second stream, and a part of the places of the first.
DamagedSetups ==
  LET a == Slim(<<6, 5, 2, 0>>)
      first == Block(Primary(a))
      second == Block(Secondary(a))
  IN {Bare("damaged", a, Block(c), second) : c \in {x \in Cuts(Primary(a)) : Len(x) % 5 # 1}}
       \cup {Bare("damaged", a, d, second) : d \in Damaged(first)}
       \cup {Bare("damaged", a, first, d) : d \in Damaged(second)}
       \cup {[Bare("damaged", a, first, second) EXCEPT !.file.size = @ - n] : n \in {1, 200, 600}}
       \cup UNION {{Bare("damaged", Slim(v), Block(Primary(Slim(v))), Block(c)) : c \in Cuts(Secondary(Slim(v)))} :
                     v \in {<<6, 0, 0, 0>>, <<6, 3, 0, 0>>, <<6, 5, 2, 0>>}}

\* Counts that are off by one, or larger than any stream.
Base == Slim(<<6, 6, 0, 0>>)
Miscounted ==
  LET Counted(n, k) == LET a == [Base EXCEPT !.counts = n :> k] IN
                       [Bare("damaged", a, Block(Primary(a)), Block(Secondary(a)))
                          EXCEPT !.written = Result(Base, NoOffsets)]
  IN {Counted(n, k) : n \in {CountNames[i] : i \in DOMAIN CountNames}, k \in {2, 500000}}
       \cup {Counted(n, 0) : n \in {"languages", "files"}} \cup {Counted("dataEntries", 1)}

\* Versions that are not read, and version texts and headers that are none.
Misversioned ==
  LET sound == Bare("damaged", Base, Block(Primary(Base)), Block(Secondary(Base)))
      Text0(x) == [sound EXCEPT !.file.at[0] = x]
  IN {Text0([kind |-> "version", parts |-> q]) :
        q \in {<<5, 6, 1>>, <<6, 8, 0>>, <<7, 0, 0>>, <<6, 6>>, <<6, 6, 0, 0, 0>>, <<6, -1, 0>>, <<6, 256, 0>>}}
       \cup {Text0([kind |-> "bytes"]), [sound EXCEPT !.file.at[64].intact = FALSE],
             [sound EXCEPT !.file.size = 40], [sound EXCEPT !.file.size = 100]}

\* Strings of an odd length: before a length that begins with a zero byte, or not.
OddSetups ==
  {LET a == [Base EXCEPT !.raw = s[2] :> <<65, 0, 97, 1, 98>>, !.names[s[2]] = <<65, 353, 98>>] IN
   Bare(s[1], a, Block(Primary(a)), Block(Secondary(a))) :
     s \in {<<"sound", "AppID">>, <<"odd", "Publisher">>}}

-----------------------------------------------------------------------------
(* Executables: the DOS header with the marker, the PE header, sections, a  *)
(* resource directory, the table of offsets, and setup-0.bin at Payload.    *)

Payload == 1600
TablePlace == 1300
Exe == Slim(<<6, 4, 3, 0>>)
Table(magic, rev, words) ==
  [kind |-> "table", version |-> magic, revision |-> rev, words |-> words,
   exe |-> 64, header |-> Payload, data |-> 900]
NewTable == Table(50105, 2, <<>>)
OldTable == Table(50105, 1, <<5000, 64, 333, 444, Payload, 900, 0>>)
Tables == {NewTable, OldTable,
           Table(40100, 1, <<5000, 64, 111, 333, 444, Payload, 900>>),
           Table(40106, 1, <<5000, 64, 333, 444, Payload, 900, 0>>)}
TableOffsets(t) == [found |-> TRUE, revision |-> t.revision, exe |-> 64, header |-> Payload, data |-> 900]

CodeSection == [va |-> 1000, virtualSize |-> 500, raw |-> 400, rawSize |-> 100]
DataSection == [va |-> 1500, virtualSize |-> 0, raw |-> 500, rawSize |-> 500]
RsrcSection == [va |-> 3000, virtualSize |-> 500, raw |-> 1000, rawSize |-> 600]
Overlapping == [CodeSection EXCEPT !.va = 2900, !.virtualSize = 600]
Orders == {<<CodeSection, DataSection, RsrcSection>>, <<RsrcSection, CodeSection, DataSection>>,
           <<DataSection, RsrcSection, CodeSection>>}
Pe(sections) == [kind |-> "pe", sections |-> sections, optionalSize |-> 224, magic |-> "pe32",
                 exports |-> 1040, resource |-> 3000]
Marker(t, ok) == [kind |-> "marker", table |-> t, complemented |-> ok]

Directory(entries) == [kind |-> "dir", entries |-> entries]
DirEntry(id, ref, sub) == [id |-> id, ref |-> ref, sub |-> sub]
Resources ==
  (1000 :> Directory(<<DirEntry(3, 40, TRUE), DirEntry(10, 40, TRUE)>>))
    @@ (1040 :> Directory(<<DirEntry(-11111, 10, TRUE), DirEntry(11111, 80, TRUE)>>))
    @@ (1080 :> Directory(<<DirEntry(7, 150, FALSE), DirEntry(English, 130, FALSE)>>))
    @@ (1130 :> [kind |-> "leaf", rva |-> 3300, size |-> 64])
    @@ (1150 :> [kind |-> "leaf", rva |-> 3500, size |-> 64])

Image(at) ==
  LET block1 == Block(Primary(Exe))
      block2 == Block(Secondary(Exe))
  IN [size |-> EndOf(Exe, Payload, block1, block2), at |-> at @@ Setup0(Exe, Payload, block1, block2)]
Executable(kind, at, t) ==
  [Installer(kind, Image(at), 0, Result(Exe, TableOffsets(t)))
     EXCEPT !.addresses = {999, 1000, 1499, 1500, 1999, 2000, 3000, 3300, 3599, 3600}]
Program(pe, t) == (0 :> [kind |-> "dos", pe |-> 100]) @@ (100 :> pe) @@ (TablePlace :> t) @@ Resources

Ample(x) == [x EXCEPT !.needs = Larger(Needs(Block(Primary(Exe))), Needs(Block(Secondary(Exe))))]
SoundPrograms ==
  {Ample(Executable("sound", Program(Pe(s), NewTable), NewTable)) : s \in Orders}
    \cup {Ample(Executable("sound", Program(Pe(<<CodeSection, RsrcSection>>), t), t)) : t \in Tables}
    \cup {Ample(Executable("sound", (48 :> Marker(TablePlace, TRUE)) @@ (TablePlace :> t), t)) :
             t \in {NewTable, OldTable}}
    \cup LET program == Program(Pe(<<RsrcSection>>), NewTable) IN
         {Ample(Executable("sound", x, NewTable)) :
            x \in {(48 :> Marker(TablePlace, FALSE)) @@ program,
                   [program EXCEPT ![100].magic = "pe32+", ![100].optionalSize = 240],
                   [program EXCEPT ![1080].entries = SubSeq(@, 2, 2)],
                   [program EXCEPT ![1080].entries = <<DirEntry(-English, 130, FALSE)>>],
                   [program EXCEPT ![1130].size = 0],
                   \* what overlaps comes later
                   [program EXCEPT ![100].sections = <<RsrcSection, Overlapping>>]}}

\* Programs without a loader, or with one that leads astray.
DamagedPrograms ==
  LET program == Program(Pe(<<CodeSection, RsrcSection>>), NewTable)
      marked == (48 :> Marker(TablePlace, TRUE)) @@ (TablePlace :> NewTable)
  IN {Executable("damaged", x, NewTable) :
        x \in {[program EXCEPT ![0].kind = "bytes"], [program EXCEPT ![0].pe = 101], [program EXCEPT ![0].pe = 9000],
               [program EXCEPT ![100].sections = <<>>], [program EXCEPT ![100].optionalSize = 80],
               [program EXCEPT ![100].optionalSize = 4096],
               [program EXCEPT ![100].optionalSize = 100], [program EXCEPT ![100].magic = "rom"],
               [program EXCEPT ![100].exports = 0],
               [program EXCEPT ![100].resource = 0], [program EXCEPT ![100].resource = 2900],
               [program EXCEPT ![100].sections = <<Overlapping, RsrcSection>>],
               [program EXCEPT ![100].sections[2].raw = 9700],
               [program EXCEPT ![1000].entries = SubSeq(@, 1, 1)], [program EXCEPT ![1000].entries[2].sub = FALSE],
               [program EXCEPT ![1000].entries[2].ref = 9000], [program EXCEPT ![1000].entries[2].ref = 8000],
               [program EXCEPT ![1040].entries[2].id = 1], [program EXCEPT ![1040].entries[2].sub = FALSE],
               [program EXCEPT ![1040].entries = [i \in 1..4097 |-> @[2]]],
               [program EXCEPT ![1080].entries = <<>>], [program EXCEPT ![1080].entries[2].sub = TRUE],
               [program EXCEPT ![1130].rva = 3700], [program EXCEPT ![1130].rva = 3500],
               [program EXCEPT ![1130].kind = "bytes"], [program EXCEPT ![1130].size = 9000],
               [program EXCEPT ![TablePlace].version = 0], [program EXCEPT ![TablePlace].kind = "bytes"],
               [program EXCEPT ![TablePlace].header = -1], [program EXCEPT ![TablePlace].header = 9000],
               [program EXCEPT ![TablePlace] = Table(10210, 1, <<5000, 64, 111, 333, 444, 777, Payload>>)],
               [marked EXCEPT ![48].table = 9000], [marked EXCEPT ![48].table = 1301]}}
       \cup {[Executable("damaged", program, NewTable) EXCEPT !.file.size = n] :
               n \in {50, 80, 110, 200, 400, 1310, 1320, 1400}}
       \cup {[Executable("damaged", marked, NewTable) EXCEPT !.file.size = n] : n \in {50, 1310, 1320, 1400}}

MCInstallers == SoundSetups \cup DamagedSetups \cup Miscounted \cup Misversioned \cup OddSetups
                  \cup SoundPrograms \cup DamagedPrograms

=============================================================================
