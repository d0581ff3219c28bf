-------------------------- MODULE ExtractContract --------------------------
(***************************************************************************)
(* What stream.Extract promises its caller, without the how: a verdict per *)
(* file that is never taken back, then one report per file, in file order, *)
(* or an error for the archive and no report at all.                       *)
(*                                                                         *)
(*   "It returns successful files and file-local failures separately so    *)
(*    callers can report a useful partial result.  Password and            *)
(*    archive-wide format errors are returned as the final error."         *)
(*                                             (internal/stream/stream.go) *)
(***************************************************************************)
EXTENDS Naturals, Sequences

CONSTANT Errors

VARIABLES
  verdict,     \* per file: "open", "external" (no payload), or its error
  reported,    \* how many files have been reported
  succeeded,   \* the files returned, in the order they are returned
  failures,    \* the failures returned: [file, err]
  refused      \* the archive-wide error, or "none"

vars == <<verdict, reported, succeeded, failures, refused>>

Init ==
  /\ verdict \in Seq({"open"})
  /\ reported = 0 /\ succeeded = <<>> /\ failures = <<>>
  /\ refused = "none"

\* Files that have an error keep it; the others of the set get this one.
Doom(doomed, err) ==
  /\ reported = 0 /\ refused = "none"
  /\ \E i \in doomed : verdict[i] = "open"
  /\ verdict' = [i \in DOMAIN verdict |->
                   IF i \in doomed /\ verdict[i] = "open" THEN err ELSE verdict[i]]
  /\ UNCHANGED <<reported, succeeded, failures, refused>>

Exclude(i) ==
  /\ reported = 0 /\ refused = "none"
  /\ verdict[i] = "open"
  /\ verdict' = [verdict EXCEPT ![i] = "external"]
  /\ UNCHANGED <<reported, succeeded, failures, refused>>

\* An archive is refused before any of its files is looked at.
Refuse(err) ==
  /\ refused = "none"
  /\ reported = 0 /\ \A i \in DOMAIN verdict : verdict[i] = "open"
  /\ refused' = err
  /\ UNCHANGED <<verdict, reported, succeeded, failures>>

\* A file without an error succeeds, or fails the check of its whole content.
Report ==
  /\ reported < Len(verdict) /\ refused = "none"
  /\ LET i == reported + 1
         fail(err) == /\ failures' = Append(failures, [file |-> i, err |-> err])
                      /\ UNCHANGED succeeded
     IN  \/ verdict[i] = "external" /\ UNCHANGED <<succeeded, failures>>
         \/ verdict[i] \in Errors /\ fail(verdict[i])
         \/ verdict[i] = "open" /\ \E err \in Errors : fail(err)
         \/ /\ verdict[i] = "open"
            /\ succeeded' = Append(succeeded, i)
            /\ UNCHANGED failures
  /\ reported' = reported + 1
  /\ UNCHANGED <<verdict, refused>>

Next ==
  \/ \E doomed \in SUBSET DOMAIN verdict, err \in Errors : Doom(doomed, err)
  \/ \E i \in DOMAIN verdict : Exclude(i)
  \/ \E err \in Errors : Refuse(err)
  \/ Report

Safety == Init /\ [][Next]_vars

\* The call returns: every file is reported unless the archive is refused.
Spec == Safety /\ WF_vars(Report)

=============================================================================
