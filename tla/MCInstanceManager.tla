------------------------ MODULE MCInstanceManager ------------------------
(* R and S overlap so much that they share an instance; T is the same tile  *)
(* as S in another partition; V crosses S in one point, and an instance for *)
(* both would be too big.                                                   *)
EXTENDS InstanceManager

CONSTANTS R, S, T, V

Tiles == (R :> {0, 1} \X {0}) @@ (S :> {1, 2} \X {0}) @@ (T :> {1, 2} \X {0})
         @@ (V :> {2} \X {0, 1, 2})

MCBox == [r \in Regions |-> Tiles[r]]

Read(r) == [region |-> r, exact |-> FALSE, write |-> FALSE, redundant |-> FALSE]
Write(r) == [Read(r) EXCEPT !.write = TRUE]
ExactRead(r) == [Read(r) EXCEPT !.exact = TRUE]
Copy(r) == [Read(r) EXCEPT !.redundant = TRUE]

\* Reads and writes of an operation, and reads of exact instances.
MCJobs == {<<Read(S), Write(R), Write(V)>>, <<ExactRead(S), ExactRead(T)>>}
JobsShared == {<<Read(R)>>, <<Read(S)>>}
JobsCopy == {<<Copy(R)>>, <<Read(S)>>}
JobsThrow == {<<Read(S)>>, <<Read(R)>>, <<ExactRead(S)>>, <<ExactRead(R)>>}
=============================================================================
