------------------------------ MODULE MCStreaming ------------------------------
(***************************************************************************)
(* Streaming programs on a node with one processor and two columns.      *)
(***************************************************************************)
EXTENDS Streaming

CONSTANTS a, b, p

Auto(in, out) == [Plain("auto") EXCEPT !.in = in, !.out = out]
Manual(in, out, ld, part) ==
  [Plain("manual") EXCEPT !.in = in, !.out = out, !.ld = ld,
                          !.part = [f \in in \cup out |-> part]]

MCPlace == [cpu |-> [col \in Cols |-> p]]
RelaxedOnly == {[mode |-> "relaxed", od |-> 1]}

\* Index tasks on a field that agree on its partition, or not, and one that
\* is independent of them.
Chains == {Auto({}, {a}), Auto({a}, {}), Manual({a}, {}, "index", "cols"),
           Auto({}, {b})}

\* Two ways to write a field.
Writers == {Auto({}, {a}), Manual({}, {a}, "index", "cols")}

\* No field backs a second store.
FieldsUsedOnce == \A f \in Fields : life[f] <= 1

\* The program has created its stores and opened a scope, and the mapper has
\* mapped the fence of that.
InScope ==
  /\ scopes = <<Off, CHOOSE pol \in Policies : TRUE>>
  /\ alive = Fields /\ region = Fields \ Unbound /\ life = [f \in Fields |-> 1]
  /\ window = <<>> /\ stack = <<>> /\ exc = "none"
  /\ att = [f \in Fields |-> "none"] /\ key = [x \in Fields \X {1} |-> NoKey]
  /\ wr = [f \in Fields |-> 0] /\ mem = [f \in Fields |-> 0]
  /\ log = <<>> /\ gens = 0 /\ outstanding = FALSE /\ credit = 0
  /\ ids = 0 /\ calls = 0
  /\ M!InitMapper

SpecInScope == InScope /\ [][StreamingNext]_<<vars, mapVars>>
=============================================================================
