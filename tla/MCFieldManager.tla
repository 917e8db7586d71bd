--------------------------- MODULE MCFieldManager ---------------------------
(* Values of the constants of FieldManager for TLC. *)
EXTENDS FieldManager, TLC

CONSTANTS s1, s2, kIn, kOut

MCShards   == {s1, s2}
MCKeys     == {kIn}
MCOutKeys  == {kOut}
MCBytes    == [x \in AllKeys |-> 1]

Create(x, g, e) == [op |-> "create", key |-> x, gc |-> g, ext |-> e]

\* Marked and unmarked stores with external allocations, and their destruction.
MenuReuse ==
  {Create(kIn, TRUE, TRUE), Create(kIn, FALSE, TRUE)}
    \cup [op : {"drop"}, store : 1..MaxStmts]

\* Outputs of tasks, their shapes, and stores made with these shapes.
MenuOutput ==
  {Create(kIn, TRUE, FALSE), Create(kOut, TRUE, FALSE),
   [op |-> "import", key |-> kOut], [op |-> "query", key |-> kOut]}

\* Tasks between creations, and destructions.
MenuOrder ==
  {Create(kIn, TRUE, TRUE), [op |-> "task"]} \cup [op : {"drop"}, store : 1..MaxStmts]

MenuTask == {Create(kIn, TRUE, FALSE), [op |-> "task"]}

Symmetry   == Permutations(Shards)
=============================================================================
