---------------------------- MODULE MCSliceSource ----------------------------
(***************************************************************************)
(* Chunks of up to three slices, of every kind a file can be, and chunks   *)
(* in the executable.                                                      *)
(***************************************************************************)
EXTENDS SliceSource

First == 5

Data(i, n) == [k \in 1..n |-> <<"data", i, k>>]

Raw(i, n) == [reader |-> TRUE, header |-> 0, declared |-> 0, bytes |-> Data(i, n)]
Headered(i, size, n) ==
  [reader |-> TRUE, header |-> 12, declared |-> 12 + size, bytes |-> Data(i, n)]
CutHeader == [reader |-> TRUE, header |-> 9, declared |-> 0, bytes |-> <<>>]
BadHeader(i) == [reader |-> TRUE, header |-> 12, declared |-> 11, bytes |-> Data(i, 1)]
NoReader == [reader |-> FALSE, header |-> 0, declared |-> 0, bytes |-> <<>>]

\* Raw or with a header: empty, of two bytes, with a byte too many behind the
\* declared end, or cut short of it; and the ones that cannot be opened.
Kinds(i) == {Raw(i, 0), Raw(i, 2), Headered(i, 0, 0), Headered(i, 2, 2), Headered(i, 1, 2),
             Headered(i, 3, 1), CutHeader, BadHeader(i), NoReader}

\* A small choice for the slices after the first two.
LastKinds(i) == {Raw(i, 1), Headered(i, 2, 2)}

Slices == {<<a>> : a \in Kinds(First)}
            \cup {<<a, b>> : a \in Kinds(First), b \in Kinds(First + 1)}
            \cup {<<a, b, c>> : a \in Kinds(First), b \in Kinds(First + 1), c \in LastKinds(First + 2)}

\* Offsets within the first slice, at or past its end, and past int64.
Offsets == {0, 1, 3, 45}

Outside == {[first |-> First, last |-> First + Len(s) - 1, offset |-> o, dataOffset |-> 0,
             baseFilename |-> TRUE, provider |-> TRUE, slices |-> s, embedded |-> <<>>] :
              s \in Slices, o \in Offsets}

\* In the executable, which ends early in one of them; or refused, for want
\* of a callback, for the order of the slices, or for its offset.
Inside == {[first |-> f, last |-> 0, offset |-> o, dataOffset |-> d,
            baseFilename |-> b, provider |-> p, slices |-> s, embedded |-> Data(0, n)] :
             f \in 0..1, o \in {0, 1, 58}, d \in {0, 7}, b \in BOOLEAN, p \in BOOLEAN, n \in {1, 4},
             s \in {<<Raw(0, 2)>>}}

AllChunks == Outside \cup Inside
\* A header that cannot be read, of which nothing, all of the magic or half of
\* the magic has been seen.
LateFaults == {[n |-> 0, err |-> "fault"], [n |-> 8, err |-> "fault"], [n |-> 8, err |-> "none"]}
EarlyFaults == {[n |-> 0, err |-> "fault"], [n |-> 4, err |-> "fault"]}

FewChunks == {c \in Outside : c.slices = <<Headered(First, 2, 2)>>}

=============================================================================
