---- MODULE Collective ----
(* What the collective operations of a communicator promise to its ranks. All ranks make the same      *)
(* sequence of calls: the communicator is created, used and destroyed. A rank returns from a call only *)
(* when all ranks have entered it, and what it then holds is made of what its peers passed to this     *)
(* call, and to no other.                                                                              *)
EXTENDS Integers, Sequences, FiniteSets

CONSTANTS N,        \* global_comm_size
          Ops,      \* the collective operations the program uses
          MaxCalls  \* bound on the number of calls, creation and destruction included

Ranks == 0 .. N - 1

VARIABLES prog,    \* the calls of the program, as far as some rank has come
          call,    \* call[r]: how many calls r has entered
          result   \* result[r]: <<>> inside of a call, and after it what r received

vars == <<prog, call, result>>

Inside == <<>>   \* r is in a call
Nothing == <<0>> \* a call that delivers nothing

\* The data that p passed to call k for q. (all_gather and all_reduce send the same data to all; by
\* convention they send what is meant for rank 0.)
Item(p, q, k) == [from |-> p, to |-> q, call |-> k]

\* What rank r may hold after call k: one item of every rank. A reduction has reduced each of them
\* into the result once, in any order.
Orders == {f \in [1 .. N -> Ranks] : \A i, j \in 1 .. N : i # j => f[i] # f[j]}

Replies(op, r, k) ==
  CASE op \in {"all_to_all_v", "all_to_all"} -> {[p \in Ranks |-> <<Item(p, r, k)>>]}
    [] op = "all_gather" -> {[p \in Ranks |-> <<Item(p, 0, k)>>]}
    [] op = "all_reduce" -> {[i \in 1 .. N |-> Item(f[i], 0, k)] : f \in Orders}
    [] op \in {"create", "destroy"} -> {Nothing}

\* The first call creates the communicator, the last one destroys it.
Callable(op, k) ==
  /\ k <= MaxCalls
  /\ k = 1 <=> op = "create"
  /\ k > 1 => prog[k - 1] # "destroy"

\* The program that all ranks execute: who gets to call k first chooses it, the others follow.
Calls(r, op) ==
  IF call[r] < Len(prog)
    THEN op = prog[call[r] + 1] /\ prog' = prog
    ELSE Callable(op, call[r] + 1) /\ prog' = Append(prog, op)

Init ==
  /\ prog = <<>>
  /\ call = [r \in Ranks |-> 0]
  /\ result = [r \in Ranks |-> Nothing]

Begin(r, op) ==
  /\ result[r] # Inside
  /\ Calls(r, op)
  /\ call' = [call EXCEPT ![r] = @ + 1]
  /\ result' = [result EXCEPT ![r] = Inside]

Return(r) ==
  /\ result[r] = Inside
  /\ \A q \in Ranks : call[q] >= call[r]
  /\ \E reply \in Replies(prog[call[r]], r, call[r]) : result' = [result EXCEPT ![r] = reply]
  /\ UNCHANGED <<prog, call>>

Next == \E r \in Ranks : Return(r) \/ \E op \in Ops \cup {"create", "destroy"} : Begin(r, op)

Safe == Init /\ [][Next]_vars

\* A call that everybody has entered returns.
Answers == \A r \in Ranks : WF_vars(Return(r))

Spec == Safe /\ Answers
====
