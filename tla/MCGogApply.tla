----------------------------- MODULE MCGogApply -----------------------------
(***************************************************************************)
(* Installers of up to four files over two data entries: every marker a    *)
(* file may carry, alone and in runs that make, break and overrun groups.  *)
(***************************************************************************)
EXTENDS GogApply

MCMaxUint == 3

NoBefore == [args |-> 0, md5 |-> FALSE, name |-> "", parts |-> -1]
NoAfter == [args |-> 0, size |-> -1]
NoCheck == [call |-> "none", languages |-> <<>>, arch |-> FALSE, bits |-> <<>>, component |-> ""]

\* A file of its own, with a checksum and a size.
Plain(l) == [destination |-> "own", size |-> 1, checksum |-> "file", location |-> l, additional |-> <<>>,
             before |-> NoBefore, after |-> NoAfter, check |-> NoCheck,
             languages |-> <<>>, components |-> "", bits32 |-> FALSE, bits64 |-> FALSE]

Begins(parts) == [args |-> 3, md5 |-> TRUE, name |-> "joined", parts |-> parts]
Befores == {NoBefore, [NoBefore EXCEPT !.args = 1], Begins(-1), Begins(0), Begins(2), Begins(3)}
Afters == {NoAfter, [args |-> 2, size |-> -1], [args |-> 3, size |-> -1],
           [args |-> 3, size |-> 1], [args |-> 3, size |-> 3]}

Marked(l, b, a) == [Plain(l) EXCEPT !.before = b, !.after = a]

AnyFile == {Marked(p[1], p[2], p[3]) : p \in (0..2) \X Befores \X Afters}
Parts12 == {Marked(p[1], NoBefore, p[2]) : p \in (0..1) \X {NoAfter, [args |-> 3, size |-> 1], [args |-> 3, size |-> 2]}}
GoodStarts == {Marked(p[1], p[2], [args |-> 3, size |-> 2]) : p \in (0..1) \X {Begins(0), Begins(2), Begins(3)}}

Of(fs) == [galaxy |-> FALSE, files |-> fs,
           entries |-> <<[uncompressedSize |-> 2, zlib |-> FALSE], [uncompressedSize |-> 1, zlib |-> FALSE]>>,
           languages |-> {"en"}]

Runs == {<<p[1], p[2], p[3]>> : p \in AnyFile \X Parts12 \X Parts12}
          \cup {<<p[1], p[2], p[3]>> : p \in GoodStarts \X AnyFile \X Parts12}
          \cup {<<p[1], p[2], p[3], p[4]>> : p \in GoodStarts \X Parts12 \X GoodStarts \X Parts12}

\* Languages, architectures and components, on files with and without a name.
Is(n) == [name |-> n, negated |-> FALSE]
Not(n) == [name |-> n, negated |-> TRUE]
Install(ls, bs) == [NoCheck EXCEPT !.call = "install", !.languages = ls, !.arch = bs # <<>>, !.bits = bs]
Checks == {NoCheck, Install(<<>>, <<Is("32")>>), Install(<<Is("en"), Is("de")>>, <<Is("64"), Is("32")>>),
           Install(<<Not("de")>>, <<Not("32")>>), Install(<<Is("en")>>, <<>>),
           [NoCheck EXCEPT !.call = "dependency", !.component = "joined"]}

Checked == {[p[1] EXCEPT !.check = p[2], !.languages = p[3], !.components = p[4]] :
              p \in {Plain(0), Marked(0, Begins(2), [args |-> 3, size |-> 1]),
                     Marked(1, NoBefore, [args |-> 3, size |-> 1])}
                      \X Checks \X {<<>>, <<Is("de")>>} \X {"", "own"}}
Pairs == {<<p[1], p[2]>> : p \in Checked \X Checked}

AllArchives == {Of(fs) : fs \in Runs \cup Pairs}
                 \cup {[Of(<<f>>) EXCEPT !.galaxy = TRUE] : f \in Checked}

FewArchives == {Of(<<Marked(0, Begins(-1), NoAfter)>>)}

=============================================================================
