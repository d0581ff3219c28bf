--------------------------- MODULE MCArchiveCalls ---------------------------
(***************************************************************************)
(* An ordinary installer with every fault of a chunk, and Galaxy           *)
(* installers of up to four files over three data entries: complete,       *)
(* incomplete, interrupted and overrun groups of parts, in and against the *)
(* order in which they are stored, with right, wrong and no digests.  The   *)
(* data entries of the parts are stored without a filter, as Parse finds   *)
(* them.                                                                   *)
(***************************************************************************)
EXTENDS ArchiveCalls, MCStreamExtract

NoMark == [before |-> [args |-> 0, md5 |-> FALSE, name |-> "", parts |-> -1],
           after |-> [args |-> 0, size |-> -1], digest |-> <<>>]
Ordinary(a) == [archive |-> a, marks |-> [k \in DOMAIN a.files |-> NoMark]]

\* The entries as they are parsed: nothing says that they are zlib streams.
InflatesTo(c, at, n, m) == [Stored(c, at, n) EXCEPT !.inflated = m]
AsParsed(c) == <<InflatesTo(Chunk1, 1, 2, 2), InflatesTo(c, 0, 2, 1), Stored(Chunk1, 0, 1)>>
PackFaults(es) ==
  {[es EXCEPT ![1].offset = 3], [es EXCEPT ![1].intact = FALSE], [es EXCEPT ![2].inflates = FALSE],
   [es EXCEPT ![1].inflated = 9], [es EXCEPT ![2].inflated = 0],
   [es EXCEPT ![1].inflated = MCMaxUint]}
ParsedLists == {AsParsed(c) : c \in {Chunk2, [Chunk2 EXCEPT !.broken = TRUE], [Chunk2 EXCEPT !.dict = 9]}}
                 \cup PackFaults(AsParsed(Chunk2))

Whole12 == [k \in 1..2 |-> <<"inflated", 1, 1, k>>] \o [k \in 1..1 |-> <<"inflated", 2, 0, k>>]
Whole21 == [k \in 1..1 |-> <<"inflated", 2, 0, k>>] \o [k \in 1..2 |-> <<"inflated", 1, 1, k>>]

\* A file at location l with its mark; the length a marker gives is right for
\* the first two entries, or one too much.
APart(l, lie) == [f |-> Unchecked(l, <<>>, 0),
                  m |-> [NoMark EXCEPT !.after = [args |-> 3, size |-> (IF l = 0 THEN 2 ELSE 1) + lie]]]
AStart(l, lie, parts, digest) ==
  [APart(l, lie) EXCEPT
     !.m.before = [args |-> 3, md5 |-> digest # <<>>, name |-> "joined", parts |-> parts],
     !.m.digest = digest]
Own(l, n) == [f |-> Unchecked(l, <<>>, n), m |-> NoMark]
Sized(p) == [p EXCEPT !.f.size = 2]

Digests == {<<>>, Whole12, Whole21}
Starts == {AStart(p[1], 0, p[2], p[3]) : p \in (0..1) \X {-1, 1, 2, 3} \X Digests}
            \cup {AStart(p[1], 1, 2, p[2]) : p \in (0..1) \X Digests}
Others == {APart(0, 0), APart(1, 0), APart(1, 1), Sized(APart(1, 0)), Own(1, 0)}

MarkedLists ==
  {<<p[1], p[2], Own(2, 0)>> : p \in Starts \X Others}
    \cup {<<Sized(AStart(0, 0, 2, d)), APart(1, 0)>> : d \in Digests}
    \cup {<<AStart(0, 0, 3, d), APart(1, 0), Own(2, 0), APart(2, 0)>> : d \in Digests}
    \cup {<<AStart(0, 0, 2, Whole12), AStart(1, 0, 2, d), APart(0, 0)>> : d \in Digests}
    \cup {<<AStart(1, -1, 2, <<>>), APart(0, 0)>>}
    \cup {<<AStart(1, -1, 2, <<>>), APart(0, -2), AStart(0, 0, 1, <<>>)>>}
    \cup {<<AStart(0, MCMaxUint - 2, 2, <<>>), APart(1, 0)>>}

GalaxyInstallers ==
  {[archive |-> ArchiveOf([k \in DOMAIN p[1] |-> p[1][k].f], p[2], FALSE),
    marks   |-> [k \in DOMAIN p[1] |-> p[1][k].m]] : p \in MarkedLists \X ParsedLists}

CallInstallers ==
  {Ordinary(a) : a \in ArchivesOf({Plain(c) : c \in Chunks2})} \cup GalaxyInstallers
CallArchives == {i.archive : i \in CallInstallers}
\* WithMemoryLimit takes positive limits; without it, the limit is the default.
CallLimits == {6, MCDefaultLimit}

=============================================================================
