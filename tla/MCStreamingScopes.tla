-------------------------- MODULE MCStreamingScopes --------------------------
(***************************************************************************)
(* Programs that use relaxed scopes and programs that use strict ones, each *)
(* with operations of its own, chosen at the start.                         *)
(***************************************************************************)
EXTENDS MCStreamingWindow

VARIABLE program

ScopesInit == Init /\ program \in {"relaxed", "strict"}
ScopesSpec == ScopesInit /\ [][Next /\ UNCHANGED program]_<<vars, program>>

MixedOrChecked == Mixed \cup Checked

Submits(tasks) == \A i \in DOMAIN window :
  window[i].kind \in {"auto", "manual", "fill"} => Given(window[i]) \in tasks

\* A scope with the policy of the one around it does nothing.
EachScopeCounts == \A i \in 2..Len(scopes) : scopes[i] # scopes[i - 1]

\* The scalar is for relaxed programs; strict ones are a call shorter.
OneProgram ==
  /\ EachScopeCounts
  /\ IF program = "relaxed"
       THEN Submits(Mixed) /\ ToSet(scopes) \subseteq {Off, Relaxed}
       ELSE Submits(Checked) /\ c \notin alive /\ calls < MaxCalls
=============================================================================
