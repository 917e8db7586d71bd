------------------------------ MODULE OpStream ------------------------------
(***************************************************************************)
(* What the scheduling window promises of the operations that touch data:   *)
(* they are launched in the order in which they were submitted, each of     *)
(* them once; or the ones that are pending are given up all together, and   *)
(* somebody is told.  Fences and discards are not among them: the runtime   *)
(* adds fences and merges discards into tasks.                              *)
(***************************************************************************)
EXTENDS Naturals, Sequences, SequencesExt

VARIABLES
  pending,  \* submitted and not yet launched, oldest first
  done,     \* launched, oldest first
  failed    \* "no", "told" somebody, or the process is "dead"

vars == <<pending, done, failed>>

Init == pending = <<>> /\ done = <<>> /\ failed = "no"

\* Operations are numbered in the order in which they are created.
Submit ==
  /\ pending' # <<>> /\ Front(pending') = pending
  /\ \A id \in ToSet(pending \o done) : id < Last(pending')
  /\ UNCHANGED <<done, failed>>

Launch ==
  /\ pending # <<>>
  /\ done' = Append(done, Head(pending))
  /\ pending' = Tail(pending)
  /\ UNCHANGED failed

GiveUp ==
  /\ failed # "dead"
  /\ pending' = <<>> /\ failed' \in {"told", "dead"}
  /\ UNCHANGED done

\* The process dies where it is.
Die ==
  /\ failed' = "dead"
  /\ UNCHANGED <<pending, done>>

Recover ==
  /\ failed = "told" /\ failed' = "no"
  /\ UNCHANGED <<pending, done>>

Next == Submit \/ Launch \/ GiveUp \/ Die \/ Recover

Spec == Init /\ [][Next]_vars
=============================================================================
