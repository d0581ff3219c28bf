----------------------------- MODULE ByteStream -----------------------------
(***************************************************************************)
(* What a consumer of an io.Reader may rely on: the bytes of the content   *)
(* in order, each once, and an end that is announced only at the end.      *)
(***************************************************************************)
EXTENDS Naturals, Sequences

CONSTANT Errors      \* the errors of a Read other than io.EOF

VARIABLES
  content,     \* the bytes there are
  whole,       \* content is everything there should be
  delivered,   \* the bytes Read has returned so far
  answer       \* what the last Read returned: [n, err]

vars == <<content, whole, delivered, answer>>

Init ==
  /\ delivered = <<>>
  /\ answer = [n |-> 0, err |-> "none"]

\* Bytes may come with an error; without one there is at least a byte.
Read(n, err) ==
  /\ n > 0 \/ err # "none"
  /\ n <= Len(content) - Len(delivered)
  /\ delivered' = SubSeq(content, 1, Len(delivered) + n)
  /\ err = "EOF" => whole /\ delivered' = content
  /\ answer' = [n |-> n, err |-> err]
  /\ UNCHANGED <<content, whole>>

Next == \E n \in 0..Len(content), err \in Errors \cup {"none", "EOF"} : Read(n, err)

Spec == Init /\ [][Next]_vars

=============================================================================
