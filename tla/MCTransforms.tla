---------------------------- MODULE MCTransforms ----------------------------
(***************************************************************************)
(* What is done to the name and to the bytes of a file on their way to the *)
(* caller: PathClean over short destinations, InstructionFilter over short *)
(* segments of four byte values, operands of three bytes and pages of six. *)
(***************************************************************************)
EXTENDS InstructionFilter, PathClean

MCBase == 4
MCOpcodes == {1}
MCSegments == UNION {[1..n -> 0..3] : n \in 0..7}

\* Every short destination, and longer ones after the prefix and in braces.
Some == {"{", "}", "/", ".", "a", "app", ":"}
Short(n) == UNION {[1..m -> Some] : m \in 0..n}
Nested(n, s) == [k \in 1..n |-> "{"] \o s \o [k \in 1..n |-> "}"]
MCDestinations ==
  Short(5)
    \cup {<<"{", "app", "}">> \o s : s \in Short(2)}
    \cup {<<"{", "app", "}", "\\">> \o s : s \in Short(2)}
    \cup {s \o <<"\\", "*", "a">> : s \in Short(2)}
    \cup {Nested(n, s) \o t : n \in 1..3, s \in Short(2), t \in {<<>>, <<":", "a">>, <<"/", ".", ".">>}}

\* One of the two at work, the other with nothing to do.
TransformInit ==
  \/ /\ PathInit
     /\ filter = "5309" /\ src = <<>> /\ dst = <<>> /\ pc = "done" /\ i = 0 /\ left = 0 /\ addr = 0
  \/ /\ raw = <<>> /\ step = "part" /\ todo = <<>> /\ parts = <<>> /\ earlier = <<<<>>, <<>>>>
     /\ Init
TransformNext ==
  \/ PathStep /\ UNCHANGED fvars
  \/ Step /\ UNCHANGED pvars
  \/ PathDone /\ Decoded
TransformSpec == TransformInit /\ [][TransformNext]_<<fvars, pvars>>

=============================================================================
