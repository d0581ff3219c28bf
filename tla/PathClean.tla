------------------------------ MODULE PathClean ------------------------------
(***************************************************************************)
(* pathutil.Clean (internal/pathutil/path.go): the destination of a file   *)
(* becomes a relative path.  A path is a sequence of characters, of which  *)
(* there is one of each sort the code tells apart, and "app", which stands *)
(* for three letters.  Clean is run twice, the second time on its result.  *)
(***************************************************************************)
EXTENDS Integers, SequencesExt

CONSTANTS
  Destinations,   \* what Clean is given
  MaxDepth        \* 8: the constants in constants that are expanded

\* "a" is a letter, "*" a control character or one of <>"|?*.
Characters == {"{", "}", "/", "\\", ":", ".", "a", "app", "$", "*"}
Path == Seq(Characters)

ASSUME PathAssumption == MaxDepth \in Nat \ {0} /\ Destinations \subseteq Path

VARIABLES
  raw, step,      \* the argument, where Clean is
  todo, parts,    \* what is still to be cut into parts, the parts of the result
  earlier         \* what the first run was given and its result; <<>> while there is none

pvars == <<raw, step, todo, parts, earlier>>

PathInit ==
  /\ raw \in Destinations
  /\ step = "begin" /\ todo = <<>> /\ parts = <<>> /\ earlier = <<>>

-----------------------------------------------------------------------------
(* Constants.                                                               *)

\* findConstantEnd: the brace that closes a constant that begins at n, or 0.
findConstantEnd(s, n) ==
  LET Depth(k) == Cardinality({j \in n..k : s[j] = "{"}) - Cardinality({j \in n..k : s[j] = "}"})
      Ends == {k \in n..Len(s) : s[k] = "}" /\ Depth(k) = -1}
  IN IF Ends = {} THEN 0 ELSE Min(Ends)

\* expandConstants.  A constant stands for what it contains, an empty one and
\* a brace that is not closed for a dollar sign; below MaxDepth they stay.
\* Mutant of expandConstants: what a constant contains is taken as it is.
expandOnce(s) ==
  LET walk[k \in 1..(Len(s) + 1)] ==
        LET end == findConstantEnd(s, k + 1) IN
        IF k > Len(s) THEN <<>>
        ELSE IF s[k] # "{" THEN <<s[k]>> \o walk[k + 1]
        ELSE IF end = 0 THEN <<"$">> \o walk[k + 1]
        ELSE SubSeq(s, k + 1, end - 1) \o walk[end + 1]
  IN walk[1]
Walked(t, inner) ==
  LET walk[k \in 1..(Len(t) + 1)] ==
        LET end == findConstantEnd(t, k + 1) IN
        IF k > Len(t) THEN <<>>
        ELSE IF t[k] # "{" THEN <<t[k]>> \o walk[k + 1]
        ELSE IF end = 0 THEN <<"$">> \o walk[k + 1]
        ELSE (IF end = k + 1 THEN <<"$">> ELSE inner[SubSeq(t, k + 1, end - 1)]) \o walk[end + 1]
  IN walk[1]
expandConstants(s) ==
  LET expand[depth \in 0..MaxDepth] ==
        [t \in Path |-> IF depth = MaxDepth THEN t ELSE Walked(t, expand[depth + 1])]
  IN expand[0][s]

-----------------------------------------------------------------------------
(* Prefixes and parts.                                                      *)

Separators == {"/", "\\"}
\* The prefix {app} is dropped where a separator or the end follows.
WithoutApp(s) ==
  IF IsPrefix(<<"{", "app", "}">>, s) /\ (Len(s) = 3 \/ s[4] \in Separators) THEN SubSeq(s, 4, Len(s)) ELSE s
WithoutDrive(s) == IF IsPrefix(<<"a", ":">>, s) THEN SubSeq(s, 3, Len(s)) ELSE s

\* strings.Split after all separators have become slashes, one part at a time.
\* Leading ones are trimmed first; that only spares empty parts, as does
\* stopping when nothing is left.
partEnd(s) == Min({Len(s) + 1} \cup {k \in DOMAIN s : s[k] \in Separators})
firstPart(s) == SubSeq(s, 1, partEnd(s) - 1)
otherParts(s) == SubSeq(s, partEnd(s) + 1, Len(s))
Join(ps) ==
  LET join[n \in 1..(Len(ps) + 1)] ==
        IF n > Len(ps) THEN <<>> ELSE IF n = Len(ps) THEN ps[n] ELSE ps[n] \o <<"/">> \o join[n + 1]
  IN join[1]

\* Mutant of cleanPart: a colon stays.
cleanPartButColon(part) == [k \in DOMAIN part |-> IF part[k] = "*" THEN "$" ELSE part[k]]
cleanPart(part) == [k \in DOMAIN part |-> IF part[k] \in {":", "*"} THEN "$" ELSE part[k]]

-----------------------------------------------------------------------------

Begin ==
  /\ step = "begin"
  /\ todo' = WithoutDrive(expandConstants(WithoutApp(raw)))
  /\ step' = "part"
  /\ UNCHANGED <<raw, parts, earlier>>

Parting == step = "part" /\ todo # <<>> /\ todo' = otherParts(todo) /\ UNCHANGED <<raw, step, earlier>>
part == cleanPart(firstPart(todo))

Pass == Parting /\ part \in {<<>>, <<".">>} /\ UNCHANGED parts
GoUp == Parting /\ part = <<".", ".">> /\ parts' = IF parts = <<>> THEN parts ELSE Front(parts)
Enter == Parting /\ part \notin {<<>>, <<".">>, <<".", ".">>} /\ parts' = Append(parts, part)

result == Join(parts)
Again ==
  /\ step = "part" /\ todo = <<>> /\ earlier = <<>>
  /\ earlier' = <<raw, result>> /\ raw' = result
  /\ step' = "begin" /\ parts' = <<>> /\ UNCHANGED todo

PathDone == step = "part" /\ todo = <<>> /\ earlier # <<>> /\ UNCHANGED pvars

PathStep == Begin \/ Pass \/ GoUp \/ Enter \/ Again
PathSpec == PathInit /\ [][PathStep \/ PathDone]_pvars

-----------------------------------------------------------------------------
(* Properties.                                                              *)

\* "never returns an absolute path" (path.go:17, TestCleanNeverReturnsAbsoluteOrParentPath):
\* wherever constants expand to dots, drives or separators, no part of the
\* result is empty, leads up, holds a separator or names a drive.
StaysBelowRoot ==
  \A k \in DOMAIN parts :
    /\ parts[k] \notin {<<>>, <<".">>, <<".", ".">>}
    /\ \A j \in DOMAIN parts[k] : parts[k][j] \notin Separators \cup {":", "*"}

\* A path that Clean has returned is clean: a second run leaves it alone, unless
\* constants were nested deeper than MaxDepth, whose braces the first run left.
CleanIsIdempotent ==
  step = "part" /\ todo = <<>> /\ earlier # <<>> =>
    \/ result = earlier[2]
    \/ Cardinality({k \in DOMAIN earlier[1] : earlier[1][k] = "{"}) > MaxDepth

=============================================================================
