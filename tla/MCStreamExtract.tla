-------------------------- MODULE MCStreamExtract --------------------------
(***************************************************************************)
(* A catalogue of small archives for StreamExtract.  Two chunks, three     *)
(* data entries, up to three files.  Every archive is one the parser and   *)
(* gog.Apply can produce: only zlib-filtered entries declare a size of     *)
(* their own, and only those are parts of a file with several locations.   *)
(***************************************************************************)
EXTENDS StreamExtract, FiniteSets

MCMaxInt == 15
MCMaxUint == 31
MCDefaultLimit == 12

\* Chunk 1 is stored, chunk 2 has a dictionary.
Chunk1 == [id |-> 1, source |-> "chunk", encrypted |-> FALSE, codec |-> "ok",
           dict |-> 0, length |-> 3, broken |-> FALSE]
Chunk2 == [Chunk1 EXCEPT !.id = 2, !.dict = 2, !.length = 2]

Chunks2 ==
  {Chunk2} \cup {[Chunk2 EXCEPT !.source = s] : s \in Sources \ {"chunk"}}
           \cup {[Chunk2 EXCEPT !.codec = c] : c \in Codecs \ {"ok"}}
           \cup {[Chunk2 EXCEPT !.encrypted = TRUE], [Chunk2 EXCEPT !.broken = TRUE],
                 [Chunk2 EXCEPT !.dict = 9], [Chunk2 EXCEPT !.length = 9],
                 [Chunk2 EXCEPT !.length = 1]}

Stored(c, at, n) == [chunk |-> c, offset |-> at, size |-> n, filter |-> "none",
                     inflated |-> 0, inflates |-> TRUE, intact |-> TRUE,
                     uncompressedSize |-> n]
Code(c, at, n) == [Stored(c, at, n) EXCEPT !.filter = "instruction"]
Zipped(c, at, n, m) == [Stored(c, at, n) EXCEPT !.filter = "zlib", !.inflated = m,
                                                !.uncompressedSize = m]

\* Two files of a solid chunk in reverse offset order, one filtered, and one
\* in a chunk of its own.
Plain(c) == <<Code(Chunk1, 2, 1), Stored(Chunk1, 0, 2), Stored(c, 0, 2)>>

\* The parts of a Galaxy file in two chunks, and an ordinary neighbour.
Galaxy(c) == <<Zipped(Chunk1, 1, 2, 2), Zipped(c, 0, 2, 1), Stored(Chunk1, 0, 1)>>

EntryFaults(es, l) ==
  {[es EXCEPT ![l].offset = 3], [es EXCEPT ![l].intact = FALSE]}
ZipFaults(es, l) ==
  {[es EXCEPT ![l].inflates = FALSE], [es EXCEPT ![l].inflated = 9],
   [es EXCEPT ![l].inflated = 0], [es EXCEPT ![l].uncompressedSize = 0],
   [es EXCEPT ![l].uncompressedSize = MCMaxUint]}

EntryLists ==
  UNION {{Plain(c), Galaxy(c)} : c \in Chunks2}
    \cup EntryFaults(Plain(Chunk2), 1) \cup EntryFaults(Plain(Chunk2), 2)
    \cup EntryFaults(Galaxy(Chunk2), 1)
    \cup ZipFaults(Galaxy(Chunk2), 1) \cup ZipFaults(Galaxy(Chunk2), 2)

\* The content of the locations ls, cut or padded to n bytes.
Whole(es, ls) ==
  LET upTo[k \in 0..Len(ls)] == IF k = 0 THEN <<>> ELSE upTo[k - 1] \o PartBytes(es[ls[k] + 1])
  IN  upTo[Len(ls)]
Padded(bytes, n) == [k \in 1..n |-> IF k <= Len(bytes) THEN bytes[k] ELSE Zero]

Unchecked(l, more, n) == [location |-> l, additional |-> more, size |-> n,
                          hasChecksum |-> FALSE, checksum |-> <<>>]
Checked(es, l, more, n) ==
  [Unchecked(l, more, n) EXCEPT !.hasChecksum = TRUE,
     !.checksum = LET all == Whole(es, <<l>> \o more)
                  IN  Padded(all, IF n = 0 THEN Len(all) ELSE n)]
Mischecked(l, n) == [Unchecked(l, <<>>, n) EXCEPT !.hasChecksum = TRUE]

Absent == Unchecked(9, <<>>, 2)

\* Single files over every entry, of the entry's size or of another.
Singles(es) ==
  {Unchecked(0, <<>>, 0), Unchecked(1, <<>>, 0), Checked(es, 2, <<>>, 0),
   Unchecked(1, <<>>, 1), Unchecked(2, <<>>, 3), Checked(es, 0, <<>>, 3), Mischecked(0, 0)}

IsZip(es, l) == es[l + 1].filter = "zlib"
Multiparts(es) ==
  IF IsZip(es, 0) /\ IsZip(es, 1)
  THEN {Checked(es, 0, <<1>>, 3), Checked(es, 1, <<0>>, 0), Unchecked(0, <<0, 1>>, 5)}
  ELSE {}

FileLists(es) ==
  LET one == Singles(es) \cup Multiparts(es)
      mate == {Checked(es, 2, <<>>, 0), Unchecked(1, <<>>, 0)} \cup Multiparts(es)
  IN  (one \X mate) \cup (one \X {Absent} \X mate)

\* Sizes only the header of a malformed archive declares.
Huge == {<<Unchecked(1, <<>>, MCMaxInt + 1), Unchecked(0, <<>>, 0)>>,
         <<Unchecked(0, <<>>, MCMaxInt), Unchecked(1, <<>>, MCMaxInt), Checked(Plain(Chunk2), 2, <<>>, MCMaxInt)>>}

ArchiveOf(fs, es, e) == [encrypted |-> e, files |-> fs, entries |-> es]

Oddities == ((Huge \cup {<<>>}) \X {Plain(Chunk2)} \X {FALSE})
              \cup {<<<<Absent, Absent>>, <<>>, TRUE>>}

ArchivesOf(lists) ==
  {ArchiveOf(p[1], p[2], p[3]) :
     p \in Oddities \cup UNION {FileLists(es) \X {es} \X {FALSE} : es \in lists}}

MCArchives == ArchivesOf(EntryLists)

MCMemoryLimits == {-1, 0, 6, 8, 15}

\* A smaller catalogue for the temporal property.
FewArchives == ArchivesOf({Plain(c) : c \in Chunks2} \cup {Galaxy(Chunk2)})

FewLimits == {-1, 0, 7}

=============================================================================
