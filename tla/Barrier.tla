---- MODULE Barrier ----
(* What a pthread barrier promises to the threads of a ThreadComm: a round ends when every rank has   *)
(* entered it, and a rank that has not left a round yet cannot be in the next one. ThreadComm treats   *)
(* both successful results of pthread_barrier_wait alike (thread_comm.cc:51-56), so which rank is the  *)
(* serial one is left out.                                                                             *)

CONSTANT Ranks

VARIABLE bar  \* where each rank is with respect to the barrier, "none" while the barrier does not exist

States == {"none", "out", "in", "released"}

TypeOK == bar \in [Ranks -> States]

Init == bar = [r \in Ranks |-> "none"]

\* pthread_barrier_init
Create ==
  /\ bar = [r \in Ranks |-> "none"]
  /\ bar' = [r \in Ranks |-> "out"]

\* The effect of entering: the last rank to enter ends the round for all.
Entered(r) ==
  IF \A q \in Ranks \ {r} : bar[q] = "in" THEN [q \in Ranks |-> "released"]
                                          ELSE [bar EXCEPT ![r] = "in"]

\* A call of pthread_barrier_wait is counted
Arrive(r) ==
  /\ bar[r] = "out"
  /\ bar' = Entered(r)

\* The call of pthread_barrier_wait returns
Leave(r) ==
  /\ bar[r] = "released"
  /\ bar' = [bar EXCEPT ![r] = "out"]

\* pthread_barrier_destroy, which POSIX defines only when no thread is blocked in the barrier
Destroy ==
  /\ bar = [r \in Ranks |-> "out"]
  /\ bar' = [r \in Ranks |-> "none"]

Next == Create \/ Destroy \/ \E r \in Ranks : Arrive(r) \/ Leave(r)

Safe == Init /\ [][Next]_bar

\* A rank that has been released gets out, whatever the others do.
Spec == Safe /\ \A r \in Ranks : WF_bar(Leave(r))
====
