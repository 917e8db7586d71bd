-------------------------- MODULE MCStreamingWindow --------------------------
(***************************************************************************)
(* Programs for the scheduling window: what they may submit and the scopes  *)
(* they may open.                                                           *)
(***************************************************************************)
EXTENDS StreamingWindow

CONSTANTS a, b, c

Auto(in, out) == [Plain("auto") EXCEPT !.in = in, !.out = out]
Reducing(in, red) == [Plain("auto") EXCEPT !.in = in, !.red = red]
Manual(in, out, ld, part) ==
  [Plain("manual") EXCEPT !.in = in, !.out = out, !.ld = ld,
                          !.part = [f \in in \cup out |-> part]]
Copy(f, g) == [Plain("copy") EXCEPT !.in = {f}, !.out = {g}]
Fill(f) == [Plain("fill") EXCEPT !.out = {f}]
Throwing(op) == [op EXCEPT !.flush = TRUE]

Relaxed == [mode |-> "relaxed", od |-> 1]
Strict == [mode |-> "strict", od |-> 1]
StrictTwo == [mode |-> "strict", od |-> 2]

RelaxedOrStrict == {Relaxed, Strict}
RelaxedOnly == {Relaxed}
StrictOnly == {Strict}
TwoOrOne == {[mode |-> "relaxed", od |-> 2]}
RelaxedOrNot == {Relaxed, Off}
AllPolicies == {Off, Relaxed, Strict, StrictTwo}

\* Index tasks that agree on their partitions, or not, a single task on a
\* scalar and a reduction.
Mixed == {Fill(a), Auto({a}, {b}), Manual({b}, {}, "index", "cols"),
          Manual({}, {b}, "index", "cols"),
          Manual({}, {c}, "one", "single"), Reducing({b}, {a})}

\* With an attached store, an unbound one and what waits for a match.
Managed == {Auto({}, {a}), Auto({}, {b}), Auto({a}, {}), Auto({b}, {})}

\* For the control flow of a call it does not matter what a task reads.
Writing == {Auto({}, {a}), Auto({}, {b})}

\* A copy that reads what a task has written.
Copying == {Auto({}, {a}), Copy(a, b)}

Scalar == {Auto({}, {a}), Manual({}, {c}, "one", "single"), Auto({c}, {})}

Reusing == {Auto({}, {a}), Manual({}, {a}, "index", "cols")}

\* What a strict scope streams and what it does not.
Checked == {Fill(a), Auto({a}, {b}), Throwing(Auto({a}, {})),
            Manual({a}, {b}, "index", "cols")}
=============================================================================
