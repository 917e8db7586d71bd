------------------------- MODULE FieldDetachProofs -------------------------
(***************************************************************************)
(* Why a field that is used again is not attached any more: a field in an  *)
(* ordered queue can be waited for (ReusableIsDetached), and Legion never  *)
(* sees a field attached by two lives of it at a time (OneAttachment), for *)
(* any size of the scheduling window; and why all shards make the same     *)
(* ordered calls if it has room for one operation (ControlDeterminism).    *)
(*                                                                         *)
(* The argument for the former: the whole window is launched or nothing of *)
(* it, so a store that was released and is still attached has its release  *)
(* in the window and is marked as pending (LifeOK).  A shard waits for a   *)
(* match with an empty window, so all that it offered is detached when it  *)
(* goes on to the exchange of unordered operations (OfferedOK), and it     *)
(* takes fields out of the match only when every shard has called that     *)
(* exchange (ExchangeOK), so the detachments are in the task stream        *)
(* (InsertedOK).                                                           *)
(***************************************************************************)
EXTENDS FieldManagerProofs, SequenceTheorems, WellFoundedInduction

\* The operations that the window is made of.
Op ==
  [op : {"task"}, id : Nat]
    \cup [op : {"attach"}, store : Store, field : Field]
    \cup [op : {"release"}, store : Store, field : Field, unordered : BOOLEAN]
    \cup [op : {"discard"}, field : Field]

\* Statement i makes a store with an external allocation.
Attaches(prog, i) == prog[i].op = "create" /\ prog[i].ext

\* The life of the attachments of shard s.
LifeOK(s) ==
  \A i \in Store :
    /\ In(window[s], "attach", i) =>
         att[s][i] = "none" /\ i <= fm[s].pc /\ Attaches(program, i)
    /\ In(window[s], "release", i) => i \in released[s]
    /\ att[s][i] # "none" => i <= fm[s].pc /\ Attaches(program, i)
    /\ i \in released[s] /\ att[s][i] = "attached" =>
         In(window[s], "release", i) /\ i \in pending[s]
    /\ i \in released[s] /\ In(window[s], "attach", i) => In(window[s], "release", i)
    /\ i <= fm[s].pc /\ Attaches(program, i) =>
         att[s][i] # "none" \/ In(window[s], "attach", i)
    /\ fm[s].ctl = "wait" =>
         ~In(window[s], "attach", i) /\ ~In(window[s], "release", i)

\* What the program has destroyed is released.
DropsOK(s) ==
  \A j \in 1..fm[s].pc : program[j].op = "drop" => program[j].store \in released[s]

\* A store whose field was given to a later one is not attached any more.
LivesOK(s) ==
  \A j \in 1..fm[s].pc : \A i \in 1..(j-1) :
    Makes(program, i) /\ Makes(program, j) /\ fm[s].alloc[i] = fm[s].alloc[j]
      => att[s][i] # "attached"

\* A shard has called the exchange of unordered operations for every match but
\* the one that it has not waited for, and with the others before it goes on.
ExchangeOK(s) ==
  /\ Len(progressed[s]) =
       IF fm[s].outstanding /\ fm[s].ctl \notin {"progress", "free"}
       THEN fm[s].matches - 1 ELSE fm[s].matches
  /\ fm[s].ctl = "free" => \A t \in Shards : Len(progressed[t]) >= fm[s].matches

\* What a shard brings to the exchange has the detachments of what it offered.
OfferedOK ==
  \A t \in Shards : \A m \in 1..Len(progressed[t]) : \A n \in 1..Len(hist) :
    IssuedAt(n, m) =>
      \A f \in offered[t][m] : \A i \in Store :
        LastHolder(hist[n], f, i) /\ Attaches(program, i) => i \in progressed[t][m]

\* The detachment of a marked store that gave its field up is in the stream.
InsertedOK ==
  \A s \in Shards : \A i \in released[s] \ Freed(s) :
    CollectableIn(program, i) /\ Attaches(program, i) => Inserted(s, i)

DInv ==
  /\ window \in [Shards -> Seq(Op)]
  /\ OfferedOK /\ InsertedOK
  /\ \A s \in Shards :
       /\ Len(window[s]) < WindowSize
       /\ LifeOK(s) /\ DropsOK(s) /\ LivesOK(s) /\ ExchangeOK(s)


\* The naturals are well-founded: a set of them has a least element.
LEMMA Least ==
  ASSUME NEW S \in SUBSET Nat, S # {}
  PROVE  \E x \in S : \A y \in S : x <= y
<1> DEFINE R == OpToRel(<, Nat)
<1>1. IsWellFoundedOn(R, Nat)
  BY NatLessThanWellFounded
<1>2. \A x, y \in Nat : y < x => <<y, x>> \in R
  BY DEF OpToRel
<1> HIDE DEF R
<1>3. PICK x \in S : \A y \in S : <<y, x>> \notin R
  BY <1>1, WFMin, Zenon
<1>4. \A y \in S : ~(y < x)
  BY <1>2, <1>3
<1> QED BY <1>4
-----------------------------------------------------------------------------
(* The scheduling window: all of it is launched, or nothing of it.         *)

\* Where submit cuts what has gathered.
LEMMA CutOK ==
  ASSUME NEW x \in Nat, NEW W \in Nat \ {0}
  PROVE  LET cut == (x \div W) * W
         IN cut \in 0..x /\ x - cut < W /\ (cut = 0 \/ cut >= W)
<1> DEFINE q == x \div W
<1>1. q \in Nat /\ q * W <= x /\ x < (q + 1) * W
  OBVIOUS
<1> HIDE DEF q
<1>2. (q + 1) * W = q * W + W /\ q * W \in Nat
  BY <1>1
<1>3. q = 0 \/ q * W >= W
  BY <1>1
<1> QED BY <1>1, <1>2, <1>3 DEF q

\* Two windows, one after the other.
LEMMA InBoth ==
  ASSUME NEW a \in Seq(Op), NEW b \in Seq(Op), NEW name, NEW i
  PROVE  In(a \o b, name, i) <=> (In(a, name, i) \/ In(b, name, i))
<1>1. /\ Len(a \o b) = Len(a) + Len(b) /\ Len(a) \in Nat /\ Len(b) \in Nat
      /\ \A j \in 1..Len(a) : (a \o b)[j] = a[j]
      /\ \A j \in 1..Len(b) : (a \o b)[Len(a) + j] = b[j]
  OBVIOUS
<1>2. ASSUME NEW j \in 1..Len(a) + Len(b)
      PROVE  j \in 1..Len(a) \/ (j - Len(a) \in 1..Len(b) /\ j = Len(a) + (j - Len(a)))
  BY <1>1
<1>3. ASSUME In(a \o b, name, i) PROVE In(a, name, i) \/ In(b, name, i)
  <2>1. PICK j \in 1..Len(a) + Len(b) : (a \o b)[j].op = name /\ (a \o b)[j].store = i
    BY <1>1, <1>3 DEF In
  <2>2. CASE j \in 1..Len(a)
    BY <1>1, <2>1, <2>2 DEF In
  <2>3. CASE j - Len(a) \in 1..Len(b) /\ j = Len(a) + (j - Len(a))
    <3>1. (a \o b)[j] = b[j - Len(a)]
      BY <1>1, <2>3
    <3> QED BY <2>1, <2>3, <3>1 DEF In
  <2> QED BY <1>2, <2>2, <2>3
<1>4. In(a, name, i) => In(a \o b, name, i)
  BY <1>1 DEF In
<1>5. In(b, name, i) => In(a \o b, name, i)
  BY <1>1 DEF In
<1> QED BY <1>3, <1>4, <1>5

\* What one step submits: at most one operation that attaches or detaches, and
\* it comes first.
Submits(ops) ==
  /\ ops \in Seq(Op)
  /\ \A j \in 2..Len(ops) : ops[j].op \notin {"attach", "release"}

\* A part of a window.
LEMMA PartOK ==
  ASSUME NEW t \in Seq(Op), NEW a \in Nat, NEW b \in Nat,
         1 <= a, a <= b + 1, b <= Len(t)
  PROVE  /\ SubSeq(t, a, b) \in Seq(Op) /\ Len(SubSeq(t, a, b)) = b + 1 - a
         /\ \A j \in 1..(b + 1 - a) : SubSeq(t, a, b)[j] = t[a + j - 1]
<1>1. a \in Int /\ b \in Int /\ \A j \in a..b : t[j] \in Op
  OBVIOUS
<1>2. /\ SubSeq(t, a, b) \in Seq(Op)
      /\ Len(SubSeq(t, a, b)) = IF a <= b THEN b - a + 1 ELSE 0
      /\ \A j \in 1..b - a + 1 : SubSeq(t, a, b)[j] = t[a + j - 1]
  BY ONLY <1>1, SubSeqProperties
<1>3. b - a + 1 = b + 1 - a /\ (IF a <= b THEN b - a + 1 ELSE 0) = b + 1 - a
  OBVIOUS
<1> QED BY <1>2, <1>3

\* What submit launches of `keep`, then `ops`, and what stays in the window.
LEMMA CutWindow ==
  ASSUME NEW keep \in Seq(Op), Len(keep) < WindowSize, NEW ops, Submits(ops)
  PROVE  LET todo == keep \o ops
             cut  == (Len(todo) \div WindowSize) * WindowSize
             out  == SubSeq(todo, 1, cut)
             rest == SubSeq(todo, cut + 1, Len(todo))
         IN /\ out \in Seq(Op) /\ rest \in Seq(Op) /\ Len(rest) < WindowSize
            /\ \/ \A name \in {"attach", "release"} : \A i \in Store :
                    /\ ~In(out, name, i)
                    /\ In(rest, name, i) <=> (In(keep, name, i) \/ In(ops, name, i))
               \/ \A name \in {"attach", "release"} : \A i \in Store :
                    /\ ~In(rest, name, i)
                    /\ In(out, name, i) <=> (In(keep, name, i) \/ In(ops, name, i))
<1> DEFINE todo == keep \o ops
           cut  == (Len(todo) \div WindowSize) * WindowSize
           out  == SubSeq(todo, 1, cut)
           rest == SubSeq(todo, cut + 1, Len(todo))
<1>1. /\ todo \in Seq(Op) /\ Len(todo) = Len(keep) + Len(ops)
      /\ Len(keep) \in Nat /\ Len(ops) \in Nat /\ Len(todo) \in Nat
      /\ \A j \in 1..Len(ops) : todo[Len(keep) + j] = ops[j]
  BY DEF Submits
<1>2. /\ cut \in 0..Len(todo) /\ Len(todo) - cut < WindowSize
      /\ cut = 0 \/ cut >= WindowSize
  BY <1>1, CutOK, ConstAssumption
<1> HIDE DEF cut, todo
<1>3. /\ out \in Seq(Op) /\ Len(out) = cut /\ \A j \in 1..cut : out[j] = todo[j]
      /\ rest \in Seq(Op) /\ Len(rest) = Len(todo) - cut
      /\ \A j \in 1..Len(todo) - cut : rest[j] = todo[cut + j]
  <2>1. cut \in Nat /\ cut + 1 \in Nat /\ cut <= Len(todo)
    BY <1>1, <1>2
  <2>2. /\ out \in Seq(Op) /\ Len(out) = cut + 1 - 1
        /\ \A j \in 1..(cut + 1 - 1) : out[j] = todo[1 + j - 1]
    BY <1>1, <2>1, PartOK
  <2>3. /\ rest \in Seq(Op) /\ Len(rest) = Len(todo) + 1 - (cut + 1)
        /\ \A j \in 1..(Len(todo) + 1 - (cut + 1)) : rest[j] = todo[cut + 1 + j - 1]
    BY <1>1, <2>1, PartOK
  <2> HIDE DEF out, rest
  <2>4. cut + 1 - 1 = cut /\ Len(todo) + 1 - (cut + 1) = Len(todo) - cut
    BY <1>1, <2>1
  <2>5. \A j \in 1..cut : 1 + j - 1 = j
    BY <2>1
  <2>6. \A j \in 1..Len(todo) - cut : cut + 1 + j - 1 = cut + j
    BY <1>1, <2>1
  <2> QED BY <2>2, <2>3, <2>4, <2>5, <2>6
<1> HIDE DEF out, rest
<1>4. CASE cut = 0
  <2>1. ASSUME NEW name, NEW i PROVE ~In(out, name, i)
    BY <1>3, <1>4 DEF In
  <2>2. ASSUME NEW name, NEW i
        PROVE  In(rest, name, i) <=> (In(keep, name, i) \/ In(ops, name, i))
    <3>1. In(rest, name, i) <=> In(todo, name, i)
      <4>1. Len(rest) = Len(todo)
        BY <1>1, <1>3, <1>4
      <4>2. ASSUME NEW j \in 1..Len(todo) PROVE rest[j] = todo[j]
        <5>1. j \in 1..Len(todo) - cut /\ cut + j = j
          BY <1>1, <1>4
        <5> QED BY <1>3, <5>1
      <4> QED BY <4>1, <4>2 DEF In
    <3> QED BY <3>1, InBoth DEF Submits, todo
  <2> QED BY <1>1, <1>2, <1>3, <2>1, <2>2 DEF out, rest, cut, todo
<1>5. CASE cut >= WindowSize
  <2>1. cut >= Len(keep) + 1
    BY <1>1, <1>2, <1>5, ConstAssumption
  <2>2. ASSUME NEW j \in 1..Len(todo), j > cut
        PROVE  todo[j].op \notin {"attach", "release"}
    <3>1. j - Len(keep) \in 2..Len(ops) /\ j = Len(keep) + (j - Len(keep))
      BY <1>1, <1>2, <2>1, <2>2
    <3>2. todo[j] = ops[j - Len(keep)]
      BY <1>1, <3>1
    <3> QED BY <3>1, <3>2 DEF Submits
  <2>3. ASSUME NEW name \in {"attach", "release"}, NEW i PROVE ~In(rest, name, i)
    <3>1. ASSUME NEW j \in 1..Len(rest) PROVE rest[j].op # name
      <4>1. rest[j] = todo[cut + j] /\ cut + j \in 1..Len(todo) /\ cut + j > cut
        <5>1. j \in 1..Len(todo) - cut
          BY <1>3
        <5> QED BY <1>1, <1>2, <1>3, <5>1
      <4> QED BY <2>2, <4>1
    <3> QED BY <3>1 DEF In
  <2>4. ASSUME NEW name \in {"attach", "release"}, NEW i
        PROVE  In(out, name, i) <=> (In(keep, name, i) \/ In(ops, name, i))
    <3>1. In(out, name, i) => In(todo, name, i)
      <4> SUFFICES ASSUME NEW j \in 1..cut, out[j].op = name, out[j].store = i
                   PROVE  In(todo, name, i)
        BY <1>3 DEF In
      <4>1. j \in 1..Len(todo) /\ todo[j] = out[j]
        BY <1>1, <1>2, <1>3
      <4> QED BY <4>1 DEF In
    <3>2. In(todo, name, i) => In(out, name, i)
      <4> SUFFICES ASSUME NEW j \in 1..Len(todo), todo[j].op = name, todo[j].store = i
                   PROVE  In(out, name, i)
        BY DEF In
      <4>1. j \in 1..cut
        BY <1>1, <1>2, <2>2
      <4> QED BY <1>3, <4>1 DEF In
    <3> QED BY <3>1, <3>2, InBoth DEF Submits, todo
  <2> QED BY <1>1, <1>2, <1>3, <2>3, <2>4 DEF out, rest, cut, todo
<1>6. cut = 0 \/ cut >= WindowSize
  BY <1>2
<1> QED BY <1>4, <1>5, <1>6

\* An attachment after the launch of a window that attaches it if C and releases
\* it if R.
Launched(a, C, R) ==
  LET b == IF C THEN "attached" ELSE a
  IN IF R /\ b = "attached" THEN "detached" ELSE b

\* The window keeps what it has and takes ops; or it is flushed and takes ops; or
\* all is launched.
WindowMoves(s, flush, marked, ops) ==
  \/ /\ ~flush
     /\ \A i \in Store :
          /\ In(window'[s], "attach", i) <=> (In(window[s], "attach", i) \/ In(ops, "attach", i))
          /\ In(window'[s], "release", i) <=> (In(window[s], "release", i) \/ In(ops, "release", i))
          /\ att'[s][i] = att[s][i]
          /\ i \in pending[s] \cup marked => i \in pending'[s]
  \/ /\ flush
     /\ \A i \in Store :
          /\ In(window'[s], "attach", i) <=> In(ops, "attach", i)
          /\ In(window'[s], "release", i) <=> In(ops, "release", i)
          /\ att'[s][i] = Launched(att[s][i], In(window[s], "attach", i),
                                              In(window[s], "release", i))
  \/ \A i \in Store :
       /\ ~In(window'[s], "attach", i) /\ ~In(window'[s], "release", i)
       /\ att'[s][i] = Launched(att[s][i],
                                In(window[s], "attach", i) \/ In(ops, "attach", i),
                                In(window[s], "release", i) \/ In(ops, "release", i))

\* This, and the other windows are left alone.
Touches(s, flush, marked, ops) ==
  /\ window' \in [Shards -> Seq(Op)] /\ Len(window'[s]) < WindowSize
  /\ WindowMoves(s, flush, marked, ops)
  /\ \A t \in Shards \ {s} :
       window'[t] = window[t] /\ att'[t] = att[t] /\ pending'[t] = pending[t]

\* What a step of a shard does to its window.
LEMMA WindowEffect ==
  ASSUME IInv, window \in [Shards -> Seq(Op)], NEW s \in Shards,
         Len(window[s]) < WindowSize, NEW flush \in BOOLEAN, NEW marked \in SUBSET Store,
         NEW calls, NEW ops, Submits(ops), WindowStep(s, flush, marked, calls, ops)
  PROVE  Touches(s, flush, marked, ops)
<1> DEFINE pre  == IF flush THEN window[s] ELSE <<>>
           keep == IF flush THEN <<>> ELSE window[s]
           todo == keep \o ops
           cut  == (Len(todo) \div WindowSize) * WindowSize
           out  == SubSeq(todo, 1, cut)
           rest == SubSeq(todo, cut + 1, Len(todo))
           w    == pre \o out
<1>1. /\ window' = [window EXCEPT ![s] = rest]
      /\ att' = [att EXCEPT ![s] = AttAfter(s, w)]
      /\ pending' = [pending EXCEPT ![s] = PendingAfter(s, w, marked)]
  BY DEF WindowStep
<1>2. /\ att \in [Shards -> [Store -> {"none", "attached", "detached"}]]
      /\ pending \in [Shards -> SUBSET Store]
  BY DEF IInv, LocalOK
<1>3. /\ keep \in Seq(Op) /\ pre \in Seq(Op) /\ Len(keep) < WindowSize
  BY ConstAssumption
<1>4. /\ out \in Seq(Op) /\ rest \in Seq(Op) /\ Len(rest) < WindowSize
      /\ \/ \A name \in {"attach", "release"} : \A i \in Store :
              /\ ~In(out, name, i)
              /\ In(rest, name, i) <=> (In(keep, name, i) \/ In(ops, name, i))
         \/ \A name \in {"attach", "release"} : \A i \in Store :
              /\ ~In(rest, name, i)
              /\ In(out, name, i) <=> (In(keep, name, i) \/ In(ops, name, i))
  <2> HIDE DEF keep
  <2> QED BY <1>3, CutWindow
<1>5. \A name, i : In(w, name, i) <=> (In(pre, name, i) \/ In(out, name, i))
  <2> HIDE DEF pre, out
  <2> QED BY <1>3, <1>4, InBoth
<1>6. \A name, i : ~In(<<>>, name, i)
  BY DEF In
<1>7. /\ window'[s] = rest /\ att'[s] = AttAfter(s, w)
      /\ pending'[s] = PendingAfter(s, w, marked)
      /\ \A t \in Shards \ {s} :
           window'[t] = window[t] /\ att'[t] = att[t] /\ pending'[t] = pending[t]
  <2> HIDE DEF rest, w
  <2> QED BY <1>1, <1>2
<1>8. /\ \A i \in Store : att'[s][i] = Launched(att[s][i], In(w, "attach", i), In(w, "release", i))
      /\ \A i \in pending[s] \cup marked : ~In(w, "release", i) => i \in pending'[s]
  <2> HIDE DEF w
  <2> QED BY <1>7 DEF AttAfter, PendingAfter, Launched
<1>9. window' \in [Shards -> Seq(Op)]
  <2> HIDE DEF rest
  <2> QED BY <1>1, <1>4
<1>10. WindowMoves(s, flush, marked, ops)
  <2>1. flush => /\ \A name, i : In(pre, name, i) <=> In(window[s], name, i)
                 /\ \A name, i : ~In(keep, name, i)
    BY <1>6
  <2>2. ~flush => /\ \A name, i : ~In(pre, name, i)
                  /\ \A name, i : In(keep, name, i) <=> In(window[s], name, i)
    BY <1>6
  <2> HIDE DEF pre, keep, out, rest, w
  <2>3. CASE \A name \in {"attach", "release"} : \A i \in Store :
               /\ ~In(rest, name, i)
               /\ In(out, name, i) <=> (In(keep, name, i) \/ In(ops, name, i))
    <3>1. ASSUME NEW i \in Store
          PROVE  /\ ~In(rest, "attach", i) /\ ~In(rest, "release", i)
                 /\ In(w, "attach", i) <=> (In(window[s], "attach", i) \/ In(ops, "attach", i))
                 /\ In(w, "release", i) <=> (In(window[s], "release", i) \/ In(ops, "release", i))
      BY <1>5, <2>1, <2>2, <2>3
    <3> QED BY <1>7, <1>8, <3>1 DEF WindowMoves, Launched
  <2>4. CASE \A name \in {"attach", "release"} : \A i \in Store :
               /\ ~In(out, name, i)
               /\ In(rest, name, i) <=> (In(keep, name, i) \/ In(ops, name, i))
    <3>1. CASE flush
      <4>1. ASSUME NEW i \in Store
            PROVE  /\ In(rest, "attach", i) <=> In(ops, "attach", i)
                   /\ In(rest, "release", i) <=> In(ops, "release", i)
                   /\ In(w, "attach", i) <=> In(window[s], "attach", i)
                   /\ In(w, "release", i) <=> In(window[s], "release", i)
        BY <1>5, <2>1, <2>4, <3>1
      <4> QED BY <1>7, <1>8, <3>1, <4>1 DEF WindowMoves, Launched
    <3>2. CASE ~flush
      <4>1. ASSUME NEW i \in Store
            PROVE  /\ In(rest, "attach", i) <=> (In(window[s], "attach", i) \/ In(ops, "attach", i))
                   /\ In(rest, "release", i) <=> (In(window[s], "release", i) \/ In(ops, "release", i))
                   /\ ~In(w, "attach", i) /\ ~In(w, "release", i)
        BY <1>5, <2>2, <2>4, <3>2
      <4>2. \A i \in Store : /\ att'[s][i] = att[s][i]
                             /\ i \in pending[s] \cup marked => i \in pending'[s]
        BY <1>8, <4>1 DEF Launched
      <4> QED BY <1>7, <3>2, <4>1, <4>2 DEF WindowMoves
    <3> QED BY <3>1, <3>2
  <2> QED BY <1>4, <2>3, <2>4
<1> QED BY <1>4, <1>7, <1>9, <1>10 DEF Touches

\* A step that submits nothing.
LEMMA NothingSubmitted ==
  /\ Submits(<<>>)
  /\ \A name, i : ~In(<<>>, name, i)
BY DEF Submits, In

\* A step that leaves the window alone.
LEMMA SameWindow ==
  ASSUME IInv, DInv, NEW s \in Shards, UNCHANGED <<window, att, pending>>
  PROVE  Touches(s, FALSE, {}, <<>>)
<1>1. window \in [Shards -> Seq(Op)] /\ Len(window[s]) < WindowSize
  BY DEF DInv
<1>2. window' = window /\ att' = att /\ pending' = pending
  OBVIOUS
<1>3. WindowMoves(s, FALSE, {}, <<>>)
  BY <1>2, NothingSubmitted DEF WindowMoves
<1> QED BY <1>1, <1>2, <1>3 DEF Touches

-----------------------------------------------------------------------------
(* What a step has to say of what it submits.                              *)

\* A store that attaches is made by the step that submits its attachment, a
\* store is released by the step that submits its release, and a shard that is
\* about to wait has flushed its window and submitted nothing since.
Submitted(s, flush, marked, ops) ==
  /\ released[s] \subseteq released'[s]
  /\ \A i \in Store :
       /\ In(ops, "attach", i) => /\ i > fm[s].pc /\ i <= fm'[s].pc
                                  /\ Attaches(program', i) /\ i \notin released'[s]
       /\ i > fm[s].pc /\ i <= fm'[s].pc /\ Attaches(program', i) => In(ops, "attach", i)
       /\ In(ops, "release", i) => i \in released'[s]
       /\ i \in released'[s] \ released[s] =>
            /\ ~flush /\ In(ops, "release", i)
            /\ att[s][i] = "attached" => i \in marked
  /\ fm'[s].ctl = "wait" =>
       flush /\ \A i \in Store : ~In(ops, "attach", i) /\ ~In(ops, "release", i)

\* What is destroyed in a step is released in it.
Dropped(s) ==
  \A j \in fm[s].pc + 1 .. fm'[s].pc :
    program'[j].op = "drop" => program'[j].store \in released'[s]

\* The store made in a step gets a field that is not attached any more.
NewLife(s) ==
  \A j \in fm[s].pc + 1 .. fm'[s].pc : \A i \in 1..(j-1) :
    Makes(program', i) /\ Makes(program', j) /\ fm'[s].alloc[i] = fm'[s].alloc[j]
      => att'[s][i] # "attached"

\* The lives of the attachments go on.
LEMMA LifeStep ==
  ASSUME IInv, IInv', DInv, NEW s \in Shards, Grows(program, program'),
         Keeps(fm[s], fm'[s]),
         NEW flush, NEW marked, NEW ops,
         Touches(s, flush, marked, ops), Submitted(s, flush, marked, ops)
  PROVE  /\ LifeOK(s)'
         /\ \A i \in released[s] \cap Store :
              flush \/ att[s][i] # "attached" => att'[s][i] # "attached"
<1>1. /\ fm[s].pc \in Nat /\ fm'[s].pc \in Nat /\ fm[s].pc <= fm'[s].pc
      /\ fm[s].pc <= Len(program) /\ Len(program) \in Nat
      /\ \A i \in Store : i \in Nat /\ i >= 1
  <2>1. fm[s].pc \in Nat /\ fm[s].pc <= Len(program) /\ Len(program) \in Nat
    BY CurrentOK DEF OrdOK, OrdState
  <2>2. fm'[s].pc \in Nat
    BY DEF IInv, HistOK, OrdState
  <2> QED BY <2>1, <2>2, ConstAssumption DEF Keeps, Store
<1>2. \A i \in Store : i <= fm[s].pc => (Attaches(program', i) <=> Attaches(program, i))
  <2> SUFFICES ASSUME NEW i \in Store, i <= fm[s].pc
               PROVE  Attaches(program', i) <=> Attaches(program, i)
    OBVIOUS
  <2>1. i \in 1..Len(program)
    BY <1>1
  <2> QED BY <2>1 DEF Grows, Attaches
<1>3. \A i \in Store : att[s][i] \in {"none", "attached", "detached"}
  BY DEF IInv, LocalOK
<1>4. ASSUME NEW i \in Store
      PROVE  /\ In(window[s], "attach", i) =>
                  att[s][i] = "none" /\ i <= fm[s].pc /\ Attaches(program, i)
             /\ In(window[s], "release", i) => i \in released[s]
             /\ att[s][i] # "none" => i <= fm[s].pc /\ Attaches(program, i)
             /\ i \in released[s] /\ att[s][i] = "attached" =>
                  In(window[s], "release", i) /\ i \in pending[s]
             /\ i \in released[s] /\ In(window[s], "attach", i) => In(window[s], "release", i)
             /\ i <= fm[s].pc /\ Attaches(program, i) =>
                  att[s][i] # "none" \/ In(window[s], "attach", i)
  BY DEF DInv, LifeOK
<1>5. ASSUME NEW i \in Store
      PROVE  /\ In(window'[s], "attach", i) =>
                  att'[s][i] = "none" /\ i <= fm'[s].pc /\ Attaches(program', i)
             /\ In(window'[s], "release", i) => i \in released'[s]
             /\ att'[s][i] # "none" => i <= fm'[s].pc /\ Attaches(program', i)
             /\ i \in released'[s] /\ att'[s][i] = "attached" =>
                  In(window'[s], "release", i) /\ i \in pending'[s]
             /\ i \in released'[s] /\ In(window'[s], "attach", i) => In(window'[s], "release", i)
             /\ i <= fm'[s].pc /\ Attaches(program', i) =>
                  att'[s][i] # "none" \/ In(window'[s], "attach", i)
             /\ fm'[s].ctl = "wait" =>
                  ~In(window'[s], "attach", i) /\ ~In(window'[s], "release", i)
             /\ i \in released[s] /\ (flush \/ att[s][i] # "attached") =>
                  att'[s][i] # "attached"
  <2>1. /\ released[s] \subseteq released'[s]
        /\ In(ops, "attach", i) => /\ ~(i <= fm[s].pc) /\ i <= fm'[s].pc
                                   /\ Attaches(program', i) /\ i \notin released'[s]
        /\ ~(i <= fm[s].pc) /\ i <= fm'[s].pc /\ Attaches(program', i) => In(ops, "attach", i)
        /\ In(ops, "release", i) => i \in released'[s]
        /\ i \in released'[s] \ released[s] =>
             /\ ~flush /\ In(ops, "release", i)
             /\ att[s][i] = "attached" => i \in marked
        /\ fm'[s].ctl = "wait" =>
             flush /\ ~In(ops, "attach", i) /\ ~In(ops, "release", i)
    BY <1>1 DEF Submitted
  <2>2. i <= fm[s].pc => i <= fm'[s].pc /\ (Attaches(program', i) <=> Attaches(program, i))
    BY <1>1, <1>2
  <2>3. CASE /\ ~flush
             /\ In(window'[s], "attach", i) <=> (In(window[s], "attach", i) \/ In(ops, "attach", i))
             /\ In(window'[s], "release", i) <=> (In(window[s], "release", i) \/ In(ops, "release", i))
             /\ att'[s][i] = att[s][i]
             /\ i \in pending[s] \cup marked => i \in pending'[s]
    BY <1>4, <2>1, <2>2, <2>3
  <2>4. CASE /\ flush
             /\ In(window'[s], "attach", i) <=> In(ops, "attach", i)
             /\ In(window'[s], "release", i) <=> In(ops, "release", i)
             /\ att'[s][i] = Launched(att[s][i], In(window[s], "attach", i),
                                                 In(window[s], "release", i))
    BY <1>3, <1>4, <2>1, <2>2, <2>4 DEF Launched
  <2>5. CASE /\ ~In(window'[s], "attach", i) /\ ~In(window'[s], "release", i)
             /\ att'[s][i] = Launched(att[s][i],
                                      In(window[s], "attach", i) \/ In(ops, "attach", i),
                                      In(window[s], "release", i) \/ In(ops, "release", i))
    BY <1>3, <1>4, <2>1, <2>2, <2>5 DEF Launched
  <2> QED BY <2>3, <2>4, <2>5 DEF Touches, WindowMoves
<1>6. LifeOK(s)'
  BY <1>5 DEF LifeOK
<1> QED BY <1>5, <1>6

\* A store that has given its field up is released.
LEMMA GoneReleased ==
  ASSUME NEW s \in Shards, NEW R, DropsOK(s), released[s] = R,
         NEW i, NEW U, Gone(program, fm[s], U, R, i)
  PROVE  i \in released[s]
BY DEF Gone, DropsOK, Drops

\* A store whose field was given to another one stays as it is.
LEMMA LivesStep ==
  ASSUME IInv, IInv', RInv, DInv, NEW s \in Shards, Grows(program, program'),
         Keeps(fm[s], fm'[s]), NewLife(s),
         \A i \in released[s] \cap Store : att[s][i] # "attached" => att'[s][i] # "attached"
  PROVE  LivesOK(s)'
<1>1. /\ fm[s].pc \in Nat /\ fm'[s].pc \in Nat /\ fm[s].pc <= fm'[s].pc
      /\ fm[s].pc <= Len(program) /\ Len(program) \in Nat /\ Len(program) <= MaxStmts
  <2>1. fm[s].pc \in Nat /\ fm[s].pc <= Len(program) /\ Len(program) \in Nat
    BY CurrentOK DEF OrdOK, OrdState
  <2>2. fm'[s].pc \in Nat
    BY DEF IInv, HistOK, OrdState
  <2> QED BY <2>1, <2>2 DEF Keeps, IInv, ProgramOK
<1> SUFFICES ASSUME NEW j \in 1..fm'[s].pc, NEW i \in 1..(j-1),
                    Makes(program', i), Makes(program', j),
                    fm'[s].alloc[i] = fm'[s].alloc[j]
             PROVE  att'[s][i] # "attached"
  BY DEF LivesOK
<1>2. CASE j > fm[s].pc
  <2>1. j \in fm[s].pc + 1 .. fm'[s].pc
    BY <1>1, <1>2
  <2> QED BY <2>1 DEF NewLife
<1>3. CASE j <= fm[s].pc
  <2>1. /\ i \in 1..fm[s].pc /\ j \in 1..fm[s].pc
        /\ i \in 1..Len(program) /\ j \in 1..Len(program) /\ i \in Store
    BY <1>1, <1>3, ConstAssumption DEF Store
  <2>2. Makes(program, i) /\ Makes(program, j) /\ fm[s].alloc[i] = fm[s].alloc[j]
    BY <2>1 DEF Grows, Makes, Keeps
  <2>3. OwnOK(program, fm[s], Freed(s), released[s]) /\ DropsOK(s) /\ LivesOK(s)
    BY DEF RInv, DInv
  <2>4. i \in released[s]
    <3>1. Gone(program, fm[s], Freed(s), released[s], i)
      BY <2>1, <2>2, <2>3 DEF OwnOK, OnceOK
    <3> QED BY <2>3, <3>1, GoneReleased
  <2>5. att[s][i] # "attached"
    BY <2>1, <2>2, <2>3 DEF LivesOK
  <2> QED BY <2>1, <2>4, <2>5
<1> QED BY <1>1, <1>2, <1>3

\* What any step of shard s does to the rest.
Goes(s) ==
  /\ Grows(program, program') /\ Grows(hist, hist') /\ OthersKept(s)
  /\ Keeps(fm[s], fm'[s]) /\ \A t \in Shards \ {s} : fm'[t] = fm[t]
  /\ \A n \in 1..Len(hist') : n \in 1..Len(hist) \/ n = Len(hist')

\* A shard calls the exchange of unordered operations, or it does not.
Exchanges(s) ==
  progressed'[s] = progressed[s] \/ \E S : progressed'[s] = Append(progressed[s], S)

\* A step of the thread of a shard only adds to the program and the history.
LEMMA RunGoes ==
  ASSUME IInv, IInv', NEW s \in Shards, OrderedMove(s), OthersKept(s)
  PROVE  Goes(s)
<1>1. /\ Grows(hist, hist') /\ Len(hist) \in Nat /\ Len(hist') \in Nat
      /\ \A n \in 1..Len(hist') :
           \/ n \in 1..Len(hist)
           \/ n = Len(hist) + 1 /\ step[s] = Len(hist) /\ hist'[n] = fm'[s]
      /\ Keeps(fm[s], fm'[s]) /\ \A t \in Shards \ {s} : fm'[t] = fm[t]
  BY MoveFacts
<1>2. ASSUME NEW n \in 1..Len(hist') PROVE n \in 1..Len(hist) \/ n = Len(hist')
  BY <1>1
<1> QED BY <1>1, <1>2 DEF Goes, OrderedMove

\* And so does a step of its garbage collector.
LEMMA CollectGoes ==
  ASSUME IInv, NEW s \in Shards, Collect(s)
  PROVE  Goes(s)
<1>1. UNCHANGED <<program, fm, hist>>
  BY DEF Collect
<1>2. Len(program) \in Nat /\ Len(hist) \in Nat /\ fm[s].pc \in Nat
  <2>1. program \in Seq(Stmt) /\ hist \in Seq(OrdState) /\ fm[s] \in OrdState
    BY DEF IInv, HistOK, ProgramOK
  <2> QED BY <2>1 DEF OrdState
<1> QED BY <1>1, <1>2, OthersStay DEF Goes, Grows, Keeps

\* The exchanges that were called stay what they are.
LEMMA ExchangesKept ==
  ASSUME IInv, NEW s \in Shards, OthersKept(s), Exchanges(s), NEW t \in Shards
  PROVE  /\ Len(progressed[t]) \in Nat /\ Len(progressed'[t]) \in Nat
         /\ Len(progressed[t]) <= Len(progressed'[t])
         /\ \A p \in 1..Len(progressed[t]) : progressed'[t][p] = progressed[t][p]
<1>1. progressed[t] \in Seq(SUBSET Store)
  BY DEF IInv, LocalOK
<1>2. CASE progressed'[t] = progressed[t]
  BY <1>1, <1>2
<1>3. CASE t = s /\ \E S : progressed'[s] = Append(progressed[s], S)
  <2>1. PICK S : progressed'[s] = Append(progressed[s], S)
    BY <1>3
  <2>2. Len(progressed'[t]) = Len(progressed[t]) + 1
    BY <1>1, <1>3, <2>1
  <2> QED BY <1>1, <1>3, <2>1, <2>2
<1> QED BY <1>2, <1>3 DEF Exchanges, OthersKept

\* Nothing that the invariant says of another shard is disturbed.
LEMMA OthersDetached ==
  ASSUME IInv, DInv, NEW s \in Shards, Goes(s), Exchanges(s),
         NEW flush, NEW marked, NEW ops, Touches(s, flush, marked, ops),
         NEW t \in Shards \ {s}
  PROVE  /\ Len(window'[t]) < WindowSize
         /\ (LifeOK(t) /\ DropsOK(t) /\ LivesOK(t) /\ ExchangeOK(t))'
<1>1. /\ fm'[t] = fm[t] /\ window'[t] = window[t] /\ att'[t] = att[t]
      /\ pending'[t] = pending[t] /\ released'[t] = released[t]
      /\ progressed'[t] = progressed[t]
  BY DEF Goes, OthersKept, Touches
<1>2. /\ fm[t].pc \in Nat /\ fm[t].pc <= Len(program) /\ Len(program) \in Nat
      /\ fm[t].matches \in Nat
  BY CurrentOK DEF OrdOK, OrdState
<1>3. \A i \in 1..fm[t].pc : program'[i] = program[i]
  BY <1>2 DEF Goes, Grows
<1>4. LifeOK(t)'
  <2>1. \A i \in Store : i <= fm[t].pc => (Attaches(program', i) <=> Attaches(program, i))
    <3> SUFFICES ASSUME NEW i \in Store, i <= fm[t].pc
                 PROVE  Attaches(program', i) <=> Attaches(program, i)
      OBVIOUS
    <3>1. i \in 1..fm[t].pc
      BY <1>2, ConstAssumption DEF Store
    <3> QED BY <1>3, <3>1 DEF Attaches
  <2>2. LifeOK(t)
    BY DEF DInv
  <2> QED BY <1>1, <2>1, <2>2 DEF LifeOK
<1>5. DropsOK(t)'
  BY <1>1, <1>3 DEF DInv, DropsOK
<1>6. LivesOK(t)'
  <2>1. LivesOK(t)
    BY DEF DInv
  <2>2. \A i \in 1..fm[t].pc : Makes(program', i) <=> Makes(program, i)
    BY <1>3 DEF Makes
  <2>3. \A j \in 1..fm[t].pc : \A i \in 1..(j-1) : i \in 1..fm[t].pc
    BY <1>2
  <2> QED BY <1>1, <2>1, <2>2, <2>3 DEF LivesOK
<1>7. ExchangeOK(t)'
  <2>1. ExchangeOK(t)
    BY DEF DInv
  <2>2. \A u \in Shards : /\ Len(progressed[u]) \in Nat /\ Len(progressed'[u]) \in Nat
                          /\ Len(progressed[u]) <= Len(progressed'[u])
    BY ExchangesKept DEF Goes
  <2>3. fm[t].ctl = "free" => \A u \in Shards : Len(progressed'[u]) >= fm[t].matches
    BY <1>2, <2>1, <2>2 DEF ExchangeOK
  <2> QED BY <1>1, <2>1, <2>3 DEF ExchangeOK
<1> QED BY <1>1, <1>4, <1>5, <1>6, <1>7 DEF DInv

\* What is in an exchange has the detachments of what was offered: a step has to
\* show it of the exchange that it calls.
LEMMA OfferedStep ==
  ASSUME IInv, IInv', RInv', DInv, NEW s \in Shards, Goes(s), Exchanges(s),
         \A t \in Shards : ExchangeOK(t)',
         offered'[s] = offered[s] \/ \E S : offered'[s] = Append(offered[s], S),
         \A m \in 1..Len(progressed'[s]) : m > Len(progressed[s]) =>
           \A n \in 1..Len(hist) : IssuedAt(n, m) =>
             \A f \in offered'[s][m] : \A i \in Store :
               LastHolder(hist[n], f, i) /\ Attaches(program', i) => i \in progressed'[s][m]
  PROVE  OfferedOK'
<1>1. /\ hist \in Seq(OrdState) /\ Len(hist) \in Nat
      /\ hist' \in Seq(OrdState) /\ Len(hist') \in Nat
  BY DEF IInv, HistOK
<1> SUFFICES ASSUME NEW t \in Shards, NEW m \in 1..Len(progressed'[t]),
                    NEW n \in 1..Len(hist'), IssuedAt(n, m)',
                    NEW f \in offered'[t][m], NEW i \in Store,
                    LastHolder(hist'[n], f, i), Attaches(program', i)
             PROVE  i \in progressed'[t][m]
  BY DEF OfferedOK
<1>2. /\ Len(progressed[t]) \in Nat /\ Len(progressed'[t]) \in Nat
      /\ Len(progressed[t]) <= Len(progressed'[t])
      /\ \A p \in 1..Len(progressed[t]) : progressed'[t][p] = progressed[t][p]
  BY ExchangesKept DEF Goes
<1>3. n \in 1..Len(hist)
  <2> SUFFICES ASSUME n = Len(hist') PROVE FALSE
    BY DEF Goes
  <2>1. /\ step'[t] \in 1..Len(hist') /\ fm'[t] = hist'[step'[t]]
        /\ fm'[t].matches \in Nat
    <3>1. /\ step'[t] \in Nat \ {0} /\ step'[t] <= Len(hist')
          /\ fm'[t] = hist'[step'[t]] /\ fm'[t] \in OrdState
      BY DEF IInv, HistOK
    <3> QED BY <1>1, <3>1, SMTT(30) DEF OrdState
  <2>2. Len(progressed'[t]) <= fm'[t].matches
    BY <1>2, <2>1 DEF ExchangeOK
  <2>3. hist'[n].matches + 1 = m /\ hist'[n].matches \in Nat
    <3>1. hist'[n] \in OrdState
      BY <1>1
    <3> QED BY <3>1 DEF IssuedAt, OrdState
  <2>4. CASE step'[t] = n
    BY <1>2, <2>1, <2>2, <2>3, <2>4
  <2>5. CASE step'[t] < n
    <3>1. Counted(hist'[step'[t]]) <= hist'[n].matches
      BY <2>1, <2>5 DEF RInv, CountsOK
    <3>2. fm'[t].matches <= hist'[n].matches
      BY <2>1, <2>3, <3>1 DEF Counted
    <3> QED BY <1>2, <2>1, <2>2, <2>3, <3>2
  <2> QED BY <2>1, <2>4, <2>5
<1>4. hist'[n] = hist[n]
  BY <1>1, <1>3 DEF Goes, Grows
<1>5. IssuedAt(n, m)
  BY <1>4 DEF IssuedAt
<1>6. CASE m <= Len(progressed[t])
  <2>1. m \in 1..Len(progressed[t])
    BY <1>2, <1>6
  <2>2. f \in offered[t][m]
    <3>1. ExchangeOK(t) /\ fm[t].matches = Len(offered[t]) /\ offered[t] \in Seq(SUBSET Field)
          /\ fm[t].matches \in Nat
      BY DEF DInv, IInv, LocalOK
    <3>2. m \in 1..Len(offered[t])
      BY <1>2, <2>1, <3>1 DEF ExchangeOK
    <3>3. CASE offered'[t] = offered[t]
      BY <3>3
    <3>4. CASE t = s /\ \E S : offered'[s] = Append(offered[s], S)
      <4>1. PICK S : offered'[s] = Append(offered[s], S)
        BY <3>4
      <4>2. offered'[t][m] = offered[t][m]
        BY <3>1, <3>2, <3>4, <4>1
      <4> QED BY <4>2
    <3> QED BY <3>3, <3>4 DEF Goes, OthersKept
  <2>3. Attaches(program, i)
    <3>1. OrdOK(hist[n], program, result) /\ Len(program) \in Nat
      BY <1>3 DEF IInv, HistOK, ProgramOK
    <3>2. i \in 1..Len(program)
      BY <1>4, <3>1 DEF LastHolder, OrdOK, OrdState
    <3> QED BY <3>2 DEF Goes, Grows, Attaches
  <2> QED BY <1>2, <1>3, <1>4, <1>5, <2>1, <2>2, <2>3 DEF DInv, OfferedOK
<1>7. CASE m > Len(progressed[t])
  <2>1. t = s
    BY <1>2, <1>7 DEF Goes, OthersKept
  <2> QED BY <1>3, <1>4, <1>5, <1>7, <2>1
<1> QED BY <1>2, <1>6, <1>7

\* The detachments in the stream stay there: a step has to show it of the stores
\* that it lets go of.
LEMMA InsertedStep ==
  ASSUME IInv, RInv, DInv, NEW s \in Shards, Goes(s), Exchanges(s),
         \A i \in (released[s] \ Freed(s))' :
           CollectableIn(program', i) /\ Attaches(program', i) =>
             i \in released[s] \ Freed(s) \/ Inserted(s, i)'
  PROVE  InsertedOK'
<1> SUFFICES ASSUME NEW u \in Shards, NEW i \in (released[u] \ Freed(u))',
                    CollectableIn(program', i), Attaches(program', i)
             PROVE  Inserted(u, i)'
  BY DEF InsertedOK
<1>1. i \in released[u] \ Freed(u) \/ Inserted(u, i)'
  BY DEF Goes, OthersKept, Freed
<1>2. CASE i \in released[u] \ Freed(u)
  <2>1. i \in 1..fm[u].pc /\ fm[u].pc \in Nat /\ fm[u].pc <= Len(program) /\ Len(program) \in Nat
    BY <1>2, CurrentOK DEF RInv, OwnOK, OrdOK, OrdState
  <2>2. program'[i] = program[i]
    BY <2>1 DEF Goes, Grows
  <2>3. Inserted(u, i)
    BY <1>2, <2>2 DEF DInv, InsertedOK, CollectableIn, Attaches
  <2>4. PICK p \in 1..Len(progressed[u]) :
          \A t \in Shards : Len(progressed[t]) >= p /\ i \in progressed[t][p]
    BY <2>3 DEF Inserted
  <2>5. \A t \in Shards :
          /\ Len(progressed[t]) \in Nat /\ Len(progressed'[t]) \in Nat
          /\ Len(progressed[t]) <= Len(progressed'[t])
          /\ \A q \in 1..Len(progressed[t]) : progressed'[t][q] = progressed[t][q]
    BY ExchangesKept DEF Goes
  <2>6. p \in 1..Len(progressed'[u])
    BY <2>4, <2>5
  <2>7. \A t \in Shards : Len(progressed'[t]) >= p /\ i \in progressed'[t][p]
    BY <2>4, <2>5
  <2> QED BY <2>6, <2>7 DEF Inserted
<1> QED BY <1>1, <1>2

\* A step keeps the invariant if it submits what it should, gives a store a field
\* that is free, and keeps to the exchanges.
LEMMA DetachStep ==
  ASSUME IInv, IInv', RInv, RInv', DInv, NEW s \in Shards, Goes(s), Exchanges(s),
         NEW flush, NEW marked, NEW ops,
         Touches(s, flush, marked, ops), Submitted(s, flush, marked, ops),
         Dropped(s), NewLife(s), ExchangeOK(s)',
         offered'[s] = offered[s] \/ \E S : offered'[s] = Append(offered[s], S),
         \A m \in 1..Len(progressed'[s]) : m > Len(progressed[s]) =>
           \A n \in 1..Len(hist) : IssuedAt(n, m) =>
             \A f \in offered'[s][m] : \A i \in Store :
               LastHolder(hist[n], f, i) /\ Attaches(program', i) => i \in progressed'[s][m],
         \A i \in (released[s] \ Freed(s))' :
           CollectableIn(program', i) /\ Attaches(program', i) =>
             i \in released[s] \ Freed(s) \/ Inserted(s, i)'
  PROVE  DInv'
<1>1. Grows(program, program') /\ Keeps(fm[s], fm'[s])
  BY DEF Goes
<1>2. /\ LifeOK(s)'
      /\ \A i \in released[s] \cap Store :
           flush \/ att[s][i] # "attached" => att'[s][i] # "attached"
  BY <1>1, LifeStep
<1>3. LivesOK(s)'
  BY <1>1, <1>2, LivesStep
<1>4. DropsOK(s)'
  <2>1. /\ fm[s].pc \in Nat /\ fm'[s].pc \in Nat /\ fm[s].pc <= fm'[s].pc
        /\ fm[s].pc <= Len(program) /\ Len(program) \in Nat
    <3>1. fm[s].pc \in Nat /\ fm[s].pc <= Len(program) /\ Len(program) \in Nat
      BY CurrentOK DEF OrdOK, OrdState
    <3>2. fm'[s].pc \in Nat
      BY DEF IInv, HistOK, OrdState
    <3> QED BY <1>1, <3>1, <3>2 DEF Keeps
  <2>2. ASSUME NEW j \in 1..fm'[s].pc, program'[j].op = "drop"
        PROVE  program'[j].store \in released'[s]
    <3>1. CASE j <= fm[s].pc
      <4>1. j \in 1..fm[s].pc /\ j \in 1..Len(program)
        BY <2>1, <3>1
      <4> QED BY <1>1, <2>2, <4>1 DEF Grows, DInv, DropsOK, Submitted
    <3>2. CASE j > fm[s].pc
      <4>1. j \in fm[s].pc + 1 .. fm'[s].pc
        BY <2>1, <3>2
      <4> QED BY <2>2, <4>1 DEF Dropped
    <3> QED BY <2>1, <3>1, <3>2
  <2> QED BY <2>2 DEF DropsOK
<1>5. \A t \in Shards \ {s} :
        /\ Len(window'[t]) < WindowSize
        /\ (LifeOK(t) /\ DropsOK(t) /\ LivesOK(t) /\ ExchangeOK(t))'
  BY OthersDetached
<1>6. \A t \in Shards :
        /\ Len(window'[t]) < WindowSize
        /\ (LifeOK(t) /\ DropsOK(t) /\ LivesOK(t) /\ ExchangeOK(t))'
  BY <1>2, <1>3, <1>4, <1>5 DEF Touches
<1>7. OfferedOK'
  BY <1>6, OfferedStep
<1>8. InsertedOK'
  BY InsertedStep
<1> QED BY <1>6, <1>7, <1>8 DEF DInv, Touches

-----------------------------------------------------------------------------
(* The steps of the thread of a shard.                                     *)

\* Where a step of the ordered part leads.
LEMMA SuccShape ==
  ASSUME NEW prog, NEW res, NEW o, NEW p, res \in Seq(Seq(Field)),
         ProgramOK(prog), OrdOK(o, prog, res), IsSucc(o, p, prog, res)
  PROVE  /\ p.pc = o.pc \/ p.pc = o.pc + 1
         /\ o.ctl = "idle" /\ Makes(prog, o.pc + 1) => p.pc = o.pc
         /\ o.ctl = "idle" /\ ~Makes(prog, o.pc + 1) => p.pc = o.pc + 1 /\ p.ctl = "idle"
         /\ o.ctl \in {"issue", "wait", "progress", "free"} => p.pc = o.pc /\ p.ctl # "wait"
         /\ o.ctl = "bind" => p.pc = o.pc + 1 /\ p.ctl = "idle"
         /\ p.ctl = "progress" => o.ctl = "wait"
<1> DEFINE st == prog[o.pc + 1]
<1>1. /\ o \in OrdState /\ o.pc \in Nat /\ Len(prog) \in Nat
      /\ o.pc < Len(prog) => st \in Stmt
  BY OrdFacts
<1>2. o.ctl # "idle" => o.pc < Len(prog) /\ Makes(prog, o.pc + 1)
  BY DEF OrdOK
<1>3. ASSUME NEW q, Requeued(o, q), NEW f \in Field \cup {NoField}, p = Finish(q, f)
      PROVE  p.ctl = "idle" /\ p.pc = o.pc + 1
  BY <1>3, FinishOK DEF Requeued
<1>4. CASE o.ctl = "idle" /\ o.pc < Len(prog) /\ st.op \in {"create", "import"}
           /\ p = MaybeIssue(o, st.key, st.op)
  <2>1. st.key \in AllKeys
    BY <1>1, <1>4, StmtOK
  <2>2. p.pc = o.pc /\ p.ctl \in {"reuse", "bind", "wait", "issue"}
    BY <1>1, <1>4, <2>1, MaybeIssueOK DEF After
  <2> QED BY <1>1, <1>4, <2>2 DEF Makes
<1>5. CASE o.ctl = "idle" /\ o.pc < Len(prog) /\ st.op = "drop"
           /\ p = Finish(FreeField(o, o.alloc[st.store]), NoField)
  <2>1. st.store \in 1..o.pc /\ Makes(prog, st.store)
    <3>1. o.pc + 1 \in 1..Len(prog)
      BY <1>1, <1>5
    <3>2. st.store \in 1..((o.pc + 1) - 1) /\ prog[st.store].op = "create"
      BY <3>1, <1>5 DEF ProgramOK
    <3> QED BY <3>2, <1>1 DEF Makes
  <2>2. o.alloc[st.store] \in Field
    BY <2>1 DEF OrdOK
  <2>3. Requeued(o, FreeField(o, o.alloc[st.store]))
    BY <1>1, <2>2, FreeFieldOK
  <2>4. p.ctl = "idle" /\ p.pc = o.pc + 1
    BY <1>3, <1>5, <2>3
  <2> QED BY <1>5, <2>4 DEF Makes
<1>6. CASE o.ctl = "idle" /\ o.pc < Len(prog) /\ st.op = "query"
           /\ p = Finish([o EXCEPT !.ready = @ \cup {st.key}], NoField)
  <2> DEFINE r == o.ready \cup {st.key}
             q == [o EXCEPT !.ready = r]
  <2>1. r \in SUBSET AllKeys
    BY <1>1, <1>6, StmtOK DEF OrdState
  <2>2. Requeued(o, q) /\ p = Finish(q, NoField)
    BY <1>1, <1>6, <2>1, RequeueOK
  <2> HIDE DEF q
  <2>3. p.ctl = "idle" /\ p.pc = o.pc + 1
    BY <1>3, <2>2
  <2> QED BY <1>6, <2>3 DEF Makes
<1>7. CASE o.ctl = "idle" /\ o.pc < Len(prog) /\ st.op = "task" /\ p = Finish(o, NoField)
  <2>1. p.ctl = "idle" /\ p.pc = o.pc + 1
    BY <1>1, <1>3, <1>7, RequeueOK
  <2> QED BY <1>7, <2>1 DEF Makes
<1>8. CASE o.ctl = "issue" /\ p = IssueMatch(o, st.op)
  <2>1. st.op \in {"create", "import"}
    BY <1>2, <1>8 DEF Makes
  <2>2. p.pc = o.pc /\ p.ctl = After(st.op)
    BY <1>1, <1>8, <2>1, IssueMatchOK
  <2> QED BY <1>1, <1>8, <2>2 DEF After
<1>9. CASE o.ctl = "reuse" /\ p = Allocate(o, st.key)
  <2>1. st.key \in AllKeys
    BY <1>1, <1>2, <1>9, StmtOK DEF Makes
  <2>2. (p.ctl = "idle" /\ p.pc = o.pc + 1) \/ (p.ctl = "wait" /\ p.pc = o.pc)
    <3>1. CASE \E q \in OrdState, f \in Field : Requeued(o, q) /\ p = Finish(q, f)
      BY <1>3, <3>1
    <3>2. CASE p.pc = o.pc /\ p.ctl = "wait"
      BY <3>2
    <3> QED BY <1>1, <1>9, <2>1, <3>1, <3>2, AllocateOK
  <2> QED BY <1>9, <2>2
<1>10. CASE o.ctl = "bind" /\ p = BindOutput(o, st.key)
  <2>1. st.key \in AllKeys
    BY <1>1, <1>2, <1>10, StmtOK DEF Makes
  <2>2. <<st.key, 0>> \in Field
    BY <2>1 DEF Field
  <2>3. PICK q \in OrdState : Requeued(o, q) /\ p = Finish(q, <<st.key, 0>>)
    BY <1>1, <1>10, <2>1, BindOutputOK
  <2>4. p.ctl = "idle" /\ p.pc = o.pc + 1
    BY <1>3, <2>2, <2>3
  <2> QED BY <1>10, <2>4
<1>11. CASE o.ctl = "wait" /\ p = [o EXCEPT !.ctl = "progress"]
  <2>1. p.ctl = "progress" /\ p.pc = o.pc
    BY <1>1, <1>11 DEF OrdState
  <2> QED BY <1>11, <2>1
<1>12. CASE o.ctl = "progress" /\ p = [o EXCEPT !.ctl = "free"]
  <2>1. p.ctl = "free" /\ p.pc = o.pc
    BY <1>1, <1>12 DEF OrdState
  <2> QED BY <1>12, <2>1
<1>13. CASE o.ctl = "free" /\ o.taken < Len(res[o.matches])
            /\ p = FreeItem(o, res[o.matches][o.taken + 1])
  <2>1. /\ o.matches >= 1 /\ o.matches <= Len(res)
        /\ o.matches \in Nat /\ o.taken \in Nat
    BY <1>1, <1>13 DEF OrdOK, InMatch, OrdState
  <2>2. res[o.matches] \in Seq(Field)
    BY <2>1
  <2>3. res[o.matches][o.taken + 1] \in Field
    BY <1>13, <2>1, <2>2
  <2>4. p.ctl = o.ctl /\ p.pc = o.pc
    BY <1>1, <1>13, <2>3, FreeItemOK
  <2> QED BY <1>13, <2>4
<1>14. CASE o.ctl = "free" /\ o.taken = Len(res[o.matches]) /\ p = EndMatch(o)
  <2>1. p.pc = o.pc /\ p.ctl = o.why
    BY <1>1, <1>14, EndMatchOK
  <2>2. o.why \in {"issue", "reuse"}
    BY <1>1 DEF OrdState
  <2> QED BY <1>14, <2>1, <2>2
<1> QED BY <1>4, <1>5, <1>6, <1>7, <1>8, <1>9, <1>10, <1>11, <1>12, <1>13, <1>14 DEF IsSucc

\* What is known of every step of the thread of a shard.
LEMMA RunFacts ==
  ASSUME IInv, RInv, NEW s \in Shards, Run(s)
  PROVE  /\ IInv' /\ RInv' /\ OrderedMove(s) /\ OthersKept(s) /\ Goes(s)
         /\ OrdOK(fm[s], program', result') /\ ProgramOK(program')
         /\ OrdOK(fm'[s], program', result')
         /\ result' \in Seq(Seq(Field)) /\ IsSucc(fm[s], fm'[s], program', result')
         /\ OwnOK(program, fm[s], Freed(s), released[s]) /\ MatchOK(s)
         /\ fm[s].pc \in Nat /\ fm[s].matches \in Nat
<1>1. IInv' /\ RInv' /\ OrderedMove(s) /\ OthersKept(s)
  BY RunOK, RunRInv, RunMoves, OthersStay
<1>2. Goes(s)
  BY <1>1, RunGoes
<1>3. /\ OrdOK(fm[s], program', result') /\ ProgramOK(program')
      /\ OrdOK(fm'[s], program', result')
      /\ result' \in Seq(Seq(Field)) /\ IsSucc(fm[s], fm'[s], program', result')
  BY <1>1, MoveFacts DEF OrderedMove
<1>4. OwnOK(program, fm[s], Freed(s), released[s]) /\ MatchOK(s)
  BY DEF RInv
<1>5. fm[s].pc \in Nat /\ fm[s].matches \in Nat
  BY <1>3 DEF OrdOK, OrdState
<1> QED BY <1>1, <1>2, <1>3, <1>4, <1>5

\* A step that submits nothing that attaches or detaches, and makes no store.
LEMMA PlainStep ==
  ASSUME NEW s \in Shards, fm[s].pc \in Nat, UNCHANGED released,
         NEW flush, NEW marked, NEW ops,
         \A i \in Store : ~In(ops, "attach", i) /\ ~In(ops, "release", i),
         fm'[s].ctl = "wait" => flush,
         \/ fm'[s].pc = fm[s].pc
         \/ /\ fm'[s].pc = fm[s].pc + 1
            /\ program'[fm[s].pc + 1].op \in {"query", "task"}
  PROVE  Submitted(s, flush, marked, ops) /\ Dropped(s) /\ NewLife(s)
<1>1. \A j : j \in fm[s].pc + 1 .. fm'[s].pc =>
               j = fm[s].pc + 1 /\ program'[j].op \in {"query", "task"}
  <2>1. CASE fm'[s].pc = fm[s].pc
    BY <2>1
  <2>2. CASE fm'[s].pc = fm[s].pc + 1 /\ program'[fm[s].pc + 1].op \in {"query", "task"}
    BY <2>2
  <2> QED BY <2>1, <2>2
<1>2. \A i \in Store : i > fm[s].pc /\ i <= fm'[s].pc => i \in fm[s].pc + 1 .. fm'[s].pc
  BY ConstAssumption DEF Store
<1>3. Submitted(s, flush, marked, ops)
  BY <1>1, <1>2 DEF Submitted, Attaches
<1>4. Dropped(s)
  BY <1>1 DEF Dropped
<1>5. NewLife(s)
  BY <1>1 DEF NewLife, Makes
<1> QED BY <1>3, <1>4, <1>5

\* The count of the exchanges in a step that calls none.
LEMMA NoExchange ==
  ASSUME IInv, RInv, DInv, NEW s \in Shards, Run(s), UNCHANGED progressed,
         fm[s].ctl \notin {"wait", "progress"}
  PROVE  ExchangeOK(s)'
<1>1. /\ IInv' /\ OrderedMove(s) /\ MatchOK(s) /\ ExchangeOK(s)
      /\ OrdOK(fm[s], program', result') /\ ProgramOK(program')
      /\ result' \in Seq(Seq(Field)) /\ IsSucc(fm[s], fm'[s], program', result')
      /\ fm[s].matches \in Nat
  BY RunFacts DEF DInv
<1>2. fm'[s].matches = IF fm[s].ctl = "issue" THEN fm[s].matches + 1 ELSE fm[s].matches
  BY <1>1, MoveFacts DEF Counted
<1>3. /\ fm[s].ctl = "issue" => ~fm[s].outstanding
      /\ fm[s].ctl = "issue" => fm'[s].outstanding /\ fm'[s].ctl # "free"
      /\ fm[s].ctl \notin {"issue", "free"} => (fm'[s].outstanding <=> fm[s].outstanding)
      /\ fm'[s].ctl = "free" => fm[s].ctl = "free"
      /\ fm[s].ctl = "free" => fm'[s].ctl = "free" \/ ~fm'[s].outstanding
  BY <1>1, SuccMatch DEF MatchOK
<1>4. fm'[s].ctl # "progress"
  BY <1>1, SuccShape
<1>5. Len(progressed[s]) =
        IF fm[s].outstanding /\ fm[s].ctl \notin {"progress", "free"}
        THEN fm[s].matches - 1 ELSE fm[s].matches
  BY <1>1 DEF ExchangeOK
<1>6. Len(progressed'[s]) =
        IF fm'[s].outstanding /\ fm'[s].ctl \notin {"progress", "free"}
        THEN fm'[s].matches - 1 ELSE fm'[s].matches
  <2>1. CASE fm[s].ctl = "issue"
    BY <1>1, <1>2, <1>3, <1>4, <1>5, <2>1
  <2>2. CASE fm[s].ctl = "free"
    BY <1>1, <1>2, <1>3, <1>4, <1>5, <2>2
  <2>3. CASE fm[s].ctl \notin {"issue", "free"}
    BY <1>1, <1>2, <1>3, <1>4, <1>5, <2>3
  <2> QED BY <2>1, <2>2, <2>3
<1>7. fm'[s].ctl = "free" => \A t \in Shards : Len(progressed'[t]) >= fm'[s].matches
  BY <1>1, <1>2, <1>3 DEF ExchangeOK
<1> QED BY <1>6, <1>7 DEF ExchangeOK

\* A step that calls no exchange, releases nothing and lets nothing go.
LEMMA CalmStep ==
  ASSUME IInv, RInv, DInv, NEW s \in Shards, Run(s),
         UNCHANGED <<progressed, released>>, Freed(s)' = Freed(s),
         fm[s].ctl \notin {"wait", "progress"},
         offered'[s] = offered[s] \/ \E S : offered'[s] = Append(offered[s], S),
         NEW flush, NEW marked, NEW ops,
         Touches(s, flush, marked, ops), Submitted(s, flush, marked, ops),
         Dropped(s), NewLife(s)
  PROVE  DInv'
<1>1. IInv' /\ RInv' /\ Goes(s)
  BY RunFacts
<1>2. Exchanges(s)
  BY DEF Exchanges
<1>3. ExchangeOK(s)'
  BY NoExchange
<1>4. ASSUME NEW m \in 1..Len(progressed'[s]) PROVE ~(m > Len(progressed[s]))
  <2>1. Len(progressed[s]) \in Nat
    BY <1>1, <1>2, ExchangesKept DEF Goes
  <2> QED BY <2>1
<1>5. \A i \in (released[s] \ Freed(s))' : i \in released[s] \ Freed(s)
  OBVIOUS
<1> QED BY <1>1, <1>2, <1>3, <1>4, <1>5, DetachStep

\* The window of a step, from what is known of the state.
LEMMA StepWindow ==
  ASSUME IInv, DInv, NEW s \in Shards, NEW flush \in BOOLEAN, NEW marked \in SUBSET Store,
         NEW calls, NEW ops, Submits(ops), WindowStep(s, flush, marked, calls, ops)
  PROVE  Touches(s, flush, marked, ops)
BY WindowEffect DEF DInv

\* A store of region k is asked for: a shard that has to wait flushes first.
LEMMA BeginCreateDetach ==
  ASSUME IInv, RInv, DInv, NEW s \in Shards, BeginCreate(s) PROVE DInv'
<1>1. PICK st \in Menu :
        /\ st.op = "create" /\ Starts(s, st)
        /\ LET o == MaybeIssue(fm[s], st.key, st.op)
           IN /\ Ordered(s, o)
              /\ WindowStep(s, o.ctl = "wait", {}, <<>>, <<>>)
        /\ UNCHANGED <<local, result>>
  BY DEF BeginCreate, Window
<1> DEFINE flush == fm'[s].ctl = "wait"
<1>2. /\ fm[s].ctl = "idle" /\ program'[fm[s].pc + 1].op = "create"
      /\ WindowStep(s, flush, {}, <<>>, <<>>)
      /\ UNCHANGED <<unordered, matching, offered, released, progressed>>
  BY <1>1, StartsOK, OrderedMoves DEF local
<1>3. Run(s)
  BY DEF Run
<1>4. /\ fm[s].pc \in Nat /\ fm'[s].pc = fm[s].pc
  BY <1>2, <1>3, RunFacts, SuccShape DEF Makes
<1>5. flush \in BOOLEAN /\ (fm'[s].ctl = "wait" => flush)
  OBVIOUS
<1> HIDE DEF flush
<1>6. Touches(s, flush, {}, <<>>)
  BY <1>2, <1>5, StepWindow, NothingSubmitted
<1>7. Submitted(s, flush, {}, <<>>) /\ Dropped(s) /\ NewLife(s)
  BY <1>2, <1>4, <1>5, NothingSubmitted, PlainStep
<1>8. Freed(s)' = Freed(s)
  BY <1>2 DEF Freed
<1> QED BY <1>2, <1>3, <1>6, <1>7, <1>8, CalmStep

\* A task with an unbound output starts with a flush.
LEMMA BeginImportDetach ==
  ASSUME IInv, RInv, DInv, NEW s \in Shards, BeginImport(s) PROVE DInv'
<1>1. PICK st, calls :
        /\ st \in Menu /\ st.op = "import" /\ Starts(s, st)
        /\ WindowStep(s, TRUE, {}, calls, <<>>)
        /\ UNCHANGED <<local, result>>
  BY DEF BeginImport, Window
<1>2. /\ fm[s].ctl = "idle" /\ program'[fm[s].pc + 1].op = "import"
      /\ UNCHANGED <<unordered, matching, offered, released, progressed>>
  BY <1>1, StartsOK DEF local
<1>3. Run(s)
  BY DEF Run
<1>4. /\ fm[s].pc \in Nat /\ fm'[s].pc = fm[s].pc
  BY <1>2, <1>3, RunFacts, SuccShape DEF Makes
<1>5. Touches(s, TRUE, {}, <<>>)
  BY <1>1, StepWindow, NothingSubmitted
<1>6. Submitted(s, TRUE, {}, <<>>) /\ Dropped(s) /\ NewLife(s)
  BY <1>2, <1>4, NothingSubmitted, PlainStep
<1>7. Freed(s)' = Freed(s)
  BY <1>2 DEF Freed
<1> QED BY <1>2, <1>3, <1>5, <1>6, <1>7, CalmStep

\* A match is issued.
LEMMA IssueDetach ==
  ASSUME IInv, RInv, DInv, NEW s \in Shards, Issue(s) PROVE DInv'
<1>1. PICK calls, S :
        /\ fm[s].ctl = "issue"
        /\ offered' = [offered EXCEPT ![s] = Append(@, S)]
        /\ matching' = [matching EXCEPT ![s] = unordered[s]]
        /\ unordered' = [unordered EXCEPT ![s] = {}]
        /\ WindowStep(s, FALSE, {}, calls, <<>>)
        /\ UNCHANGED <<released, progressed>>
  BY DEF Issue, Window
<1>2. Run(s)
  BY DEF Run
<1>3. /\ fm[s].pc \in Nat /\ fm'[s].pc = fm[s].pc /\ fm'[s].ctl # "wait" /\ MatchOK(s)
  BY <1>1, <1>2, RunFacts, SuccShape
<1>4. Touches(s, FALSE, {}, <<>>)
  BY <1>1, StepWindow, NothingSubmitted
<1>5. Submitted(s, FALSE, {}, <<>>) /\ Dropped(s) /\ NewLife(s)
  BY <1>1, <1>3, NothingSubmitted, PlainStep
<1>6. Freed(s)' = Freed(s)
  <2>1. matching'[s] = unordered[s] /\ unordered'[s] = {} /\ matching[s] = {}
    BY <1>1, <1>3 DEF IInv, LocalOK, MatchOK
  <2> QED BY <2>1 DEF Freed
<1>7. offered'[s] = Append(offered[s], S)
  BY <1>1 DEF IInv, LocalOK
<1> QED BY <1>1, <1>2, <1>4, <1>5, <1>6, <1>7, CalmStep

\* The shape of an output is asked for.
LEMMA QueryDetach ==
  ASSUME IInv, RInv, DInv, NEW s \in Shards, Query(s) PROVE DInv'
<1>1. PICK st \in Menu :
        /\ st.op = "query" /\ Starts(s, st)
        /\ UNCHANGED <<result, local, window, att, pending>>
  BY DEF Query
<1>2. /\ fm[s].ctl = "idle" /\ program'[fm[s].pc + 1].op = "query"
      /\ UNCHANGED <<unordered, matching, offered, released, progressed>>
  BY <1>1, StartsOK DEF local
<1>3. Run(s)
  BY DEF Run
<1>4. fm[s].pc \in Nat /\ fm'[s].pc = fm[s].pc + 1 /\ fm'[s].ctl # "wait"
  BY <1>2, <1>3, RunFacts, SuccShape DEF Makes
<1>5. Touches(s, FALSE, {}, <<>>)
  BY <1>1, SameWindow
<1>6. Submitted(s, FALSE, {}, <<>>) /\ Dropped(s) /\ NewLife(s)
  BY <1>2, <1>4, NothingSubmitted, PlainStep
<1>7. Freed(s)' = Freed(s)
  BY <1>2 DEF Freed
<1> QED BY <1>2, <1>3, <1>5, <1>6, <1>7, CalmStep

\* One operation that neither attaches nor detaches is submitted.
LEMMA OneSubmitted ==
  ASSUME NEW x \in Op, x.op \notin {"attach", "release"}
  PROVE  /\ Submits(<<x>>)
         /\ \A i : ~In(<<x>>, "attach", i) /\ ~In(<<x>>, "release", i)
<1>1. <<x>> \in Seq(Op) /\ Len(<<x>>) = 1 /\ <<x>>[1] = x
  OBVIOUS
<1> QED BY <1>1 DEF Submits, In

\* A task is submitted.
LEMMA TaskDetach ==
  ASSUME IInv, RInv, DInv, NEW s \in Shards, Task(s) PROVE DInv'
<1> DEFINE x == TaskOp(fm[s].pc + 1)
<1>1. PICK st \in Menu :
        /\ st.op = "task" /\ Starts(s, st)
        /\ WindowStep(s, FALSE, {}, <<>>, <<x>>)
        /\ UNCHANGED <<result, local>>
  BY DEF Task, Window
<1>2. /\ fm[s].ctl = "idle" /\ program'[fm[s].pc + 1].op = "task"
      /\ UNCHANGED <<unordered, matching, offered, released, progressed>>
  BY <1>1, StartsOK DEF local
<1>3. Run(s)
  BY DEF Run
<1>4. fm[s].pc \in Nat /\ fm'[s].pc = fm[s].pc + 1 /\ fm'[s].ctl # "wait"
  BY <1>2, <1>3, RunFacts, SuccShape DEF Makes
<1>5. x \in Op /\ x.op = "task"
  BY <1>4 DEF TaskOp, Op
<1> HIDE DEF x
<1>6. /\ Submits(<<x>>)
      /\ \A i : ~In(<<x>>, "attach", i) /\ ~In(<<x>>, "release", i)
  BY <1>5, OneSubmitted
<1>7. Touches(s, FALSE, {}, <<x>>)
  BY <1>1, <1>6, StepWindow
<1>8. Submitted(s, FALSE, {}, <<x>>) /\ Dropped(s) /\ NewLife(s)
  BY <1>2, <1>4, <1>6, PlainStep
<1>9. Freed(s)' = Freed(s)
  BY <1>2 DEF Freed
<1> QED BY <1>2, <1>3, <1>7, <1>8, <1>9, CalmStep

\* What did not come out of the match goes back.
LEMMA EndProcessDetach ==
  ASSUME IInv, RInv, DInv, NEW s \in Shards, EndProcess(s) PROVE DInv'
<1>1. /\ fm[s].ctl = "free"
      /\ unordered' = [unordered EXCEPT ![s] = @ \cup matching[s]]
      /\ matching' = [matching EXCEPT ![s] = {}]
      /\ UNCHANGED <<offered, released, progressed, window, att, pending>>
  BY DEF EndProcess
<1>2. Run(s)
  BY DEF Run
<1>3. fm[s].pc \in Nat /\ fm'[s].pc = fm[s].pc /\ fm'[s].ctl # "wait"
  BY <1>1, <1>2, RunFacts, SuccShape
<1>4. Touches(s, FALSE, {}, <<>>)
  BY <1>1, SameWindow
<1>5. Submitted(s, FALSE, {}, <<>>) /\ Dropped(s) /\ NewLife(s)
  BY <1>1, <1>3, NothingSubmitted, PlainStep
<1>6. Freed(s)' = Freed(s)
  BY <1>1 DEF Freed, IInv, LocalOK
<1> QED BY <1>1, <1>2, <1>4, <1>5, <1>6, CalmStep

\* The exchange returns when every shard has called it.
LEMMA ProgressDetach ==
  ASSUME IInv, RInv, DInv, NEW s \in Shards, Progress(s) PROVE DInv'
<1>1. /\ fm[s].ctl = "progress"
      /\ \A t \in Shards : Len(progressed[t]) >= Len(progressed[s])
      /\ Ordered(s, [fm[s] EXCEPT !.ctl = "free"])
      /\ UNCHANGED <<unordered, matching, offered, released, progressed, window, att, pending>>
  BY DEF Progress, local
<1>2. Run(s)
  BY DEF Run
<1>3. /\ fm[s].pc \in Nat /\ fm'[s].pc = fm[s].pc /\ fm'[s].ctl # "wait"
      /\ IInv' /\ RInv' /\ Goes(s) /\ OrdOK(fm[s], program', result')
  BY <1>1, <1>2, RunFacts, SuccShape
<1>4. Touches(s, FALSE, {}, <<>>)
  BY <1>1, SameWindow
<1>5. Submitted(s, FALSE, {}, <<>>) /\ Dropped(s) /\ NewLife(s)
  BY <1>1, <1>3, NothingSubmitted, PlainStep
<1>6. Freed(s)' = Freed(s) /\ Exchanges(s)
  BY <1>1 DEF Freed, Exchanges
<1>7. ExchangeOK(s)'
  <2>1. /\ fm'[s].ctl = "free" /\ fm'[s].matches = fm[s].matches
        /\ fm'[s].outstanding = fm[s].outstanding
    BY <1>1, <1>3, OrderedMoves DEF OrdOK, OrdState
  <2>2. Len(progressed[s]) = fm[s].matches
    BY <1>1 DEF DInv, ExchangeOK
  <2> QED BY <1>1, <2>1, <2>2 DEF ExchangeOK
<1>8. ASSUME NEW m \in 1..Len(progressed'[s]) PROVE ~(m > Len(progressed[s]))
  <2>1. Len(progressed[s]) \in Nat
    BY <1>3, <1>6, ExchangesKept DEF Goes
  <2> QED BY <1>1, <2>1
<1>9. \A i \in (released[s] \ Freed(s))' : i \in released[s] \ Freed(s)
  BY <1>1, <1>6
<1> QED BY <1>1, <1>3, <1>4, <1>5, <1>6, <1>7, <1>8, <1>9, DetachStep

-----------------------------------------------------------------------------
(* The steps that make a store.                                            *)

\* No store has the field that the output of a task arrives with.
LEMMA OutputUnused ==
  ASSUME NEW prog, NEW res, NEW o, NEW U, NEW R, ProgramOK(prog), LegalProgram(prog),
         OrdOK(o, prog, res), OwnOK(prog, o, U, R),
         o.pc < Len(prog), prog[o.pc + 1].op = "import"
  PROVE  \A i \in 1..o.pc : Makes(prog, i) => o.alloc[i] # <<prog[o.pc + 1].key, 0>>
<1> SUFFICES ASSUME NEW i \in 1..o.pc, Makes(prog, i)
             PROVE  o.alloc[i] # <<prog[o.pc + 1].key, 0>>
  OBVIOUS
<1>1. /\ o.pc \in Nat /\ o.pc + 1 \in 1..Len(prog) /\ i \in 1..((o.pc + 1) - 1)
      /\ o.alloc[i] \in Field
  BY OrdFacts
<1>2. prog[i].key # prog[o.pc + 1].key
  BY <1>1 DEF LegalProgram
<1>3. o.alloc[i][1] = prog[i].key
  BY DEF OwnOK, RecordOK
<1> QED BY <1>2, <1>3

\* The field that allocate_field comes back with.
LEMMA AllocateTakes ==
  ASSUME NEW o \in OrdState, NEW k \in AllKeys, o.pc + 1 \in Store
  PROVE  LET p == Allocate(o, k)
         IN /\ \/ p.ctl = "idle" /\ p.pc = o.pc + 1
               \/ p.ctl = "wait" /\ p.pc = o.pc
            /\ p.ctl = "idle" /\ CanReuse(o, k) => p.alloc[o.pc + 1] = Head(o.free[k])
            /\ p.ctl = "idle" /\ ~CanReuse(o, k) => p.alloc[o.pc + 1] = <<k, o.fresh[k]>>
<1>1. /\ o.free \in [AllKeys -> Seq(Field)] /\ o.fresh \in [AllKeys -> Nat]
      /\ o.pc \in Nat /\ o.alloc \in [Store -> Field \cup {NoField}]
  BY DEF OrdState
<1>2. ASSUME NEW q \in OrdState, NEW f \in Field, Requeued(o, q)
      PROVE  /\ Finish(q, f).ctl = "idle" /\ Finish(q, f).pc = o.pc + 1
             /\ Finish(q, f).alloc[o.pc + 1] = f
  <2>1. /\ Finish(q, f).ctl = "idle" /\ Finish(q, f).pc = q.pc + 1
        /\ Finish(q, f).alloc = [q.alloc EXCEPT ![q.pc + 1] = f]
    BY FinishOK
  <2> QED BY <1>1, <1>2, <2>1 DEF Requeued
<1>3. CASE CanReuse(o, k)
  <2> DEFINE fr == [o.free EXCEPT ![k] = Tail(@)]
             q  == [o EXCEPT !.free = fr]
  <2>1. o.free[k] \in Seq(Field) /\ o.free[k] # <<>>
    BY <1>1, <1>3 DEF CanReuse
  <2>2. Head(o.free[k]) \in Field /\ fr \in [AllKeys -> Seq(Field)]
    BY <1>1, <2>1
  <2>3. Requeued(o, q) /\ q \in OrdState
    BY <2>2, RequeueOK DEF Requeued
  <2>4. Allocate(o, k) = Finish(q, Head(o.free[k]))
    BY <1>3 DEF Allocate
  <2> HIDE DEF q
  <2> QED BY <1>2, <1>3, <2>2, <2>3, <2>4
<1>4. CASE ~CanReuse(o, k) /\ o.outstanding
  <2>1. Allocate(o, k) = [o EXCEPT !.ctl = "wait", !.why = "reuse"]
    BY <1>4 DEF Allocate
  <2>2. Allocate(o, k).ctl = "wait" /\ Allocate(o, k).pc = o.pc
    BY <2>1 DEF OrdState
  <2> QED BY <2>2
<1>5. CASE ~CanReuse(o, k) /\ ~o.outstanding
  <2> DEFINE fr == [o.fresh EXCEPT ![k] = @ + 1]
             q  == [o EXCEPT !.fresh = fr]
  <2>1. fr \in [AllKeys -> Nat] /\ o.fresh[k] \in Nat
    BY <1>1
  <2>2. Requeued(o, q) /\ q \in OrdState
    BY <2>1, RequeueOK DEF Requeued
  <2>3. Allocate(o, k) = Finish(q, <<k, o.fresh[k]>>)
    BY <1>5 DEF Allocate
  <2>4. <<k, o.fresh[k]>> \in Field
    BY <2>1 DEF Field
  <2> HIDE DEF q
  <2> QED BY <1>2, <1>5, <2>2, <2>3, <2>4
<1> QED BY <1>3, <1>4, <1>5

\* An attachment is submitted.
LEMMA AttachSubmitted ==
  ASSUME NEW x \in Op, x.op = "attach"
  PROVE  /\ Submits(<<x>>)
         /\ \A i : (In(<<x>>, "attach", i) <=> i = x.store) /\ ~In(<<x>>, "release", i)
<1>1. <<x>> \in Seq(Op) /\ Len(<<x>>) = 1 /\ <<x>>[1] = x
  OBVIOUS
<1> QED BY <1>1 DEF Submits, In

\* A step that makes a store submits its attachment, if it has one.
LEMMA MadeSubmitted ==
  ASSUME IInv, RInv, NEW s \in Shards, UNCHANGED <<program, released>>,
         fm[s].ctl \in {"reuse", "bind"}, fm'[s].pc = fm[s].pc + 1, fm'[s].ctl = "idle",
         NEW flush, NEW ops,
         \A i \in Store :
           /\ In(ops, "attach", i) <=> (i = fm[s].pc + 1 /\ Attaches(program, i))
           /\ ~In(ops, "release", i)
  PROVE  Submitted(s, flush, {}, ops) /\ Dropped(s)
<1>1. /\ fm[s].pc \in Nat /\ released[s] \subseteq 1..fm[s].pc
      /\ Makes(program, fm[s].pc + 1)
  BY CurrentOK DEF OrdOK, OrdState, RInv, OwnOK
<1>2. \A i \in Store : i \in Nat
  BY ConstAssumption DEF Store
<1>3. \A i \in Store : i > fm[s].pc /\ i <= fm'[s].pc <=> i = fm[s].pc + 1
  BY <1>1, <1>2
<1>4. fm[s].pc + 1 \notin released[s]
  BY <1>1
<1>5. Submitted(s, flush, {}, ops)
  BY <1>3, <1>4 DEF Submitted
<1>6. \A j \in fm[s].pc + 1 .. fm'[s].pc : j = fm[s].pc + 1
  BY <1>1
<1>7. Dropped(s)
  BY <1>1, <1>6 DEF Dropped, Makes
<1> QED BY <1>5, <1>7

\* The store that is made has a field that is not attached.
LEMMA MadeLife ==
  ASSUME IInv, NEW s \in Shards, UNCHANGED program, Keeps(fm[s], fm'[s]),
         fm'[s].pc = fm[s].pc + 1,
         \A i \in 1..fm[s].pc :
           Makes(program, i) /\ fm[s].alloc[i] = fm'[s].alloc[fm[s].pc + 1] =>
             att'[s][i] # "attached"
  PROVE  NewLife(s)
<1>1. fm[s].pc \in Nat
  BY CurrentOK DEF OrdOK, OrdState
<1> SUFFICES ASSUME NEW j \in fm[s].pc + 1 .. fm'[s].pc, NEW i \in 1..(j-1),
                    Makes(program', i), fm'[s].alloc[i] = fm'[s].alloc[j]
             PROVE  att'[s][i] # "attached"
  BY DEF NewLife
<1>2. j = fm[s].pc + 1 /\ i \in 1..fm[s].pc
  BY <1>1
<1> QED BY <1>2 DEF Keeps

\* The output of a task becomes the field of its store.
LEMMA BindDetach ==
  ASSUME IInv, RInv, DInv, NEW s \in Shards, Bind(s) PROVE DInv'
<1>1. /\ fm[s].ctl = "bind"
      /\ Ordered(s, BindOutput(fm[s], Current(s).key))
      /\ UNCHANGED <<program, result, local, window, att, pending>>
  BY DEF Bind
<1>2. UNCHANGED <<unordered, matching, offered, released, progressed>>
  BY <1>1 DEF local
<1>3. Run(s)
  BY DEF Run
<1>4. /\ fm[s].pc \in Nat /\ fm'[s].pc = fm[s].pc + 1 /\ fm'[s].ctl = "idle"
      /\ Keeps(fm[s], fm'[s]) /\ OwnOK(program, fm[s], Freed(s), released[s])
  BY <1>1, <1>3, RunFacts, SuccShape DEF Goes
<1>5. /\ OrdOK(fm[s], program, result) /\ ProgramOK(program) /\ LegalProgram(program)
      /\ fm[s].pc < Len(program) /\ program[fm[s].pc + 1].op = "import"
  BY <1>1, CurrentOK DEF OrdOK, IInv, RInv
<1>6. fm'[s].alloc[fm[s].pc + 1] = <<program[fm[s].pc + 1].key, 0>>
  <2> DEFINE k == program[fm[s].pc + 1].key
  <2>1. fm[s] \in OrdState /\ fm[s].pc + 1 \in Store /\ program[fm[s].pc + 1] \in Stmt
    BY <1>5, OrdFacts
  <2>2. k \in AllKeys
    BY <1>5, <2>1, StmtOK
  <2>3. fm'[s] = BindOutput(fm[s], k)
    BY <1>1, OrderedMoves DEF Current
  <2>4. <<k, 0>> \in Field
    BY <2>2 DEF Field
  <2> HIDE DEF k
  <2>5. PICK q \in OrdState : Requeued(fm[s], q) /\ fm'[s] = Finish(q, <<k, 0>>)
    BY <2>1, <2>2, <2>3, BindOutputOK
  <2>6. fm'[s].alloc = [q.alloc EXCEPT ![q.pc + 1] = <<k, 0>>]
    BY <2>4, <2>5, FinishOK
  <2>7. q.pc = fm[s].pc /\ q.alloc \in [Store -> Field \cup {NoField}]
    BY <2>5 DEF Requeued, OrdState
  <2>8. fm'[s].alloc[fm[s].pc + 1] = <<k, 0>>
    BY <2>1, <2>6, <2>7
  <2> QED BY <2>8 DEF k
<1>7. NewLife(s)
  <2>1. \A i \in 1..fm[s].pc :
          Makes(program, i) => fm[s].alloc[i] # fm'[s].alloc[fm[s].pc + 1]
    BY <1>4, <1>5, <1>6, OutputUnused
  <2> QED BY <1>1, <1>4, <2>1, MadeLife
<1>8. Touches(s, FALSE, {}, <<>>)
  BY <1>1, SameWindow
<1>9. Submitted(s, FALSE, {}, <<>>) /\ Dropped(s)
  <2>1. \A i \in Store : ~(i = fm[s].pc + 1 /\ Attaches(program, i))
    BY <1>5 DEF Attaches
  <2> QED BY <1>1, <1>2, <1>4, <2>1, NothingSubmitted, MadeSubmitted
<1>10. Freed(s)' = Freed(s)
  BY <1>2 DEF Freed
<1> QED BY <1>1, <1>2, <1>3, <1>7, <1>8, <1>9, <1>10, CalmStep

\* The last store that held a field is its holder.
LEMMA HolderIs ==
  ASSUME NEW s \in Shards, NEW f, NEW i, fm[s].pc \in Nat, LastHolder(fm[s], f, i)
  PROVE  Holder(s, f) = i
<1> DEFINE P(h) == /\ fm[s].alloc[h] = f
                   /\ \A j \in h+1..fm[s].pc : fm[s].alloc[j] # f
<1>1. i \in 1..fm[s].pc /\ P(i)
  BY DEF LastHolder
<1>2. ASSUME NEW h \in 1..fm[s].pc, P(h) PROVE h = i
  <2>1. ~(h < i)
    <3>1. h < i => i \in h+1..fm[s].pc
      BY <1>1
    <3> QED BY <1>1, <1>2, <3>1
  <2>2. ~(i < h)
    <3>1. i < h => h \in i+1..fm[s].pc
      BY <1>1
    <3> QED BY <1>1, <1>2, <3>1
  <2> QED BY <1>1, <2>1, <2>2
<1>3. Holder(s, f) = CHOOSE h \in 1..fm[s].pc : P(h)
  BY DEF Holder
<1> HIDE DEF P
<1> QED BY <1>1, <1>2, <1>3

\* When a field is taken from its queue, the store that last held it is the only
\* one that can still be attached, and then its release is in the window.
LEMMA QueueAttached ==
  ASSUME IInv, RInv, DInv, NEW s \in Shards, NEW k \in AllKeys,
         NEW n \in 1..Len(fm[s].free[k]), NEW i \in 1..fm[s].pc,
         Makes(program, i), fm[s].alloc[i] = fm[s].free[k][n]
  PROVE  /\ i \in released[s] \cap Store
         /\ att[s][i] = "attached" =>
              i \in pending[s] /\ LastHolder(fm[s], fm[s].free[k][n], i)
<1> DEFINE f == fm[s].free[k][n]
<1>1. /\ OwnOK(program, fm[s], Freed(s), released[s]) /\ DropsOK(s) /\ LivesOK(s) /\ LifeOK(s)
      /\ fm[s].pc \in Nat /\ OrdOK(fm[s], program, result) /\ ProgramOK(program)
  BY CurrentOK DEF RInv, DInv, OrdOK, OrdState, IInv
<1>2. Gone(program, fm[s], Freed(s), released[s], i)
  BY <1>1 DEF OwnOK, QueueOK
<1>3. i \in released[s] /\ i \in Store
  BY <1>1, <1>2, GoneReleased, OrdFacts
<1> SUFFICES ASSUME att[s][i] = "attached"
             PROVE  i \in pending[s] /\ LastHolder(fm[s], f, i)
  BY <1>3
<1>4. i \in pending[s]
  BY <1>1, <1>3 DEF LifeOK
<1>5. ASSUME NEW j \in i+1..fm[s].pc, fm[s].alloc[j] = f PROVE FALSE
  <2>1. j \in 1..fm[s].pc /\ i \in 1..(j-1)
    BY <1>1
  <2>2. fm[s].alloc[i] \in Field
    BY <1>1, OrdFacts
  <2>3. Makes(program, j)
    BY <1>1, <1>5, <2>1, <2>2, NoFieldOK DEF OwnOK, RecordOK
  <2> QED BY <1>1, <1>5, <2>1, <2>3 DEF LivesOK
<1> QED BY <1>4, <1>5 DEF LastHolder

\* The rest of allocate_field: a field of a queue, a new one, or a wait.
LEMMA ReuseDetach ==
  ASSUME IInv, RInv, DInv, NEW s \in Shards, Reuse(s) PROVE DInv'
<1> DEFINE st == Current(s)
           k  == st.key
           p  == Allocate(fm[s], k)
           i  == p.pc
           f  == p.alloc[i]
           ops == IF st.ext THEN <<AttachOp(i, f)>> ELSE <<>>
<1>1. /\ fm[s].ctl = "reuse" /\ Ordered(s, p)
      /\ \/ p.ctl = "wait" /\ WindowStep(s, TRUE, {}, <<>>, <<>>)
         \/ /\ p.ctl = "idle" /\ CanReuse(fm[s], k)
            /\ WindowStep(s, Holder(s, f) \in pending[s], {}, <<>>, ops)
         \/ /\ p.ctl = "idle" /\ ~CanReuse(fm[s], k)
            /\ WindowStep(s, FALSE, {}, <<[op |-> "allocate_field", field |-> f]>>, ops)
      /\ UNCHANGED <<program, result, local>>
  BY DEF Reuse, Window
<1>2. UNCHANGED <<program, unordered, matching, offered, released, progressed>>
  BY <1>1 DEF local
<1>3. Run(s)
  BY DEF Run
<1>4. /\ fm[s].pc \in Nat /\ Goes(s) /\ Keeps(fm[s], fm'[s]) /\ IInv' /\ RInv'
      /\ OwnOK(program, fm[s], Freed(s), released[s])
  BY <1>3, RunFacts DEF Goes
<1>5. /\ OrdOK(fm[s], program, result) /\ ProgramOK(program) /\ st = program[fm[s].pc + 1]
      /\ fm[s].pc < Len(program) /\ st.op = "create"
  BY <1>1, CurrentOK DEF OrdOK, IInv, Current
<1>6. fm[s] \in OrdState /\ fm[s].pc + 1 \in Store /\ st \in Stmt /\ k \in AllKeys
  <2>1. fm[s] \in OrdState /\ fm[s].pc + 1 \in Store /\ st \in Stmt
    BY <1>5, OrdFacts
  <2> QED BY <1>5, <2>1, StmtOK
<1>7. fm'[s] = p
  BY <1>1, OrderedMoves
<1>8. /\ \/ p.ctl = "idle" /\ p.pc = fm[s].pc + 1
         \/ p.ctl = "wait" /\ p.pc = fm[s].pc
      /\ p.ctl = "idle" /\ CanReuse(fm[s], k) => p.alloc[fm[s].pc + 1] = Head(fm[s].free[k])
      /\ p.ctl = "idle" /\ ~CanReuse(fm[s], k) =>
           p.alloc[fm[s].pc + 1] = <<k, fm[s].fresh[k]>>
  <2> HIDE DEF k
  <2> QED BY <1>6, AllocateTakes
<1>9. Freed(s)' = Freed(s)
  BY <1>2 DEF Freed
<1> HIDE DEF p
<1>10. CASE p.ctl = "wait"
  <2>1. Touches(s, TRUE, {}, <<>>)
    BY <1>1, <1>10, StepWindow, NothingSubmitted
  <2>2. Submitted(s, TRUE, {}, <<>>) /\ Dropped(s) /\ NewLife(s)
    BY <1>2, <1>4, <1>7, <1>8, <1>10, NothingSubmitted, PlainStep
  <2> QED BY <1>1, <1>2, <1>3, <1>9, <2>1, <2>2, CalmStep
<1>11. CASE p.ctl = "idle"
  <2>1. i = fm[s].pc + 1 /\ fm'[s].ctl = "idle" /\ fm'[s].pc = fm[s].pc + 1
    BY <1>7, <1>8, <1>11
  <2>2. f \in Field
    <3>1. OrdOK(fm'[s], program', result')
      BY <1>4, CurrentOK, <1>3, RunFacts
    <3>2. i \in 1..fm'[s].pc /\ Makes(program', i)
      BY <1>2, <1>4, <1>5, <2>1 DEF Makes
    <3> QED BY <1>7, <3>1, <3>2 DEF OrdOK
  <2>3. /\ Submits(ops)
        /\ \A h \in Store : /\ In(ops, "attach", h) <=> (h = fm[s].pc + 1 /\ Attaches(program, h))
                            /\ ~In(ops, "release", h)
    <3>1. Attaches(program, fm[s].pc + 1) <=> st.ext
      BY <1>5 DEF Attaches
    <3>2. CASE st.ext
      <4> DEFINE x == AttachOp(i, f)
      <4>1. x \in Op /\ x.op = "attach" /\ x.store = fm[s].pc + 1
        BY <1>6, <2>1, <2>2 DEF AttachOp, Op
      <4>2. ops = <<x>>
        BY <3>2
      <4> HIDE DEF x, ops
      <4> QED BY <3>1, <3>2, <4>1, <4>2, AttachSubmitted
    <3>3. CASE ~st.ext
      <4>1. ops = <<>>
        BY <3>3
      <4> HIDE DEF ops
      <4> QED BY <3>1, <3>3, <4>1, NothingSubmitted
    <3> QED BY <3>2, <3>3
  <2> HIDE DEF ops, f
  <2>4. PICK flush, calls :
          /\ flush \in BOOLEAN /\ WindowStep(s, flush, {}, calls, ops)
          /\ CanReuse(fm[s], k) => (flush <=> Holder(s, f) \in pending[s])
    <3>1. CASE CanReuse(fm[s], k)
      <4>1. WindowStep(s, Holder(s, f) \in pending[s], {}, <<>>, ops)
        BY <1>1, <1>11, <3>1
      <4>2. (Holder(s, f) \in pending[s]) \in BOOLEAN
        OBVIOUS
      <4> QED BY <4>1, <4>2
    <3>2. CASE ~CanReuse(fm[s], k)
      BY <1>1, <1>11, <3>2
    <3> QED BY <3>1, <3>2
  <2>5. Touches(s, flush, {}, ops)
    BY <2>3, <2>4, StepWindow
  <2>6. Submitted(s, flush, {}, ops) /\ Dropped(s)
    BY <1>1, <1>2, <2>1, <2>3, MadeSubmitted
  <2>7. \A h \in released[s] \cap Store :
          flush \/ att[s][h] # "attached" => att'[s][h] # "attached"
    BY <1>4, <2>5, <2>6, LifeStep DEF Goes
  <2>8. ASSUME NEW h \in 1..fm[s].pc, Makes(program, h),
               fm[s].alloc[h] = fm'[s].alloc[fm[s].pc + 1]
        PROVE  att'[s][h] # "attached"
    <3>1. CASE CanReuse(fm[s], k)
      <4>1. /\ fm[s].free[k] \in Seq(Field) /\ fm[s].free[k] # <<>>
        BY <1>6, <3>1 DEF OrdState, CanReuse
      <4>2. 1 \in 1..Len(fm[s].free[k]) /\ Head(fm[s].free[k]) = fm[s].free[k][1]
        BY <4>1
      <4>3. f = fm[s].free[k][1] /\ fm[s].alloc[h] = fm[s].free[k][1]
        BY <1>7, <1>8, <1>11, <2>1, <2>8, <3>1, <4>2 DEF f
      <4>4. /\ h \in released[s] \cap Store
            /\ att[s][h] = "attached" => h \in pending[s] /\ LastHolder(fm[s], f, h)
        BY <1>6, <2>8, <4>2, <4>3, QueueAttached
      <4>5. att[s][h] = "attached" => flush
        BY <1>4, <2>4, <3>1, <4>4, HolderIs
      <4> QED BY <2>7, <4>4, <4>5
    <3>2. CASE ~CanReuse(fm[s], k)
      <4>1. /\ fm[s].alloc[h] = <<k, fm[s].fresh[k]>>
            /\ fm[s].alloc[h][1] = program[h].key
            /\ fm[s].alloc[h][2] < fm[s].fresh[program[h].key]
        BY <1>4, <1>7, <1>8, <1>11, <2>8, <3>2 DEF OwnOK, RecordOK
      <4>2. fm[s].fresh[k] < fm[s].fresh[k] /\ fm[s].fresh[k] \in Nat
        BY <1>6, <4>1 DEF OrdState
      <4> QED BY <4>2
    <3> QED BY <3>1, <3>2
  <2>9. NewLife(s)
    BY <1>2, <1>4, <2>1, <2>8, MadeLife
  <2> QED BY <1>1, <1>2, <1>3, <1>9, <2>5, <2>6, <2>9, CalmStep
<1> QED BY <1>8, <1>10, <1>11

-----------------------------------------------------------------------------
(* The steps that release a store.                                         *)

\* A release is submitted, and maybe a discard after it.
LEMMA ReleaseSubmitted ==
  ASSUME NEW x \in Op, x.op = "release", NEW more \in Seq(Op),
         \A j \in 1..Len(more) : more[j].op = "discard"
  PROVE  /\ Submits(<<x>> \o more)
         /\ \A i : /\ ~In(<<x>> \o more, "attach", i)
                   /\ In(<<x>> \o more, "release", i) <=> i = x.store
<1> DEFINE ops == <<x>> \o more
<1>1. /\ ops \in Seq(Op) /\ Len(ops) = Len(more) + 1 /\ Len(more) \in Nat /\ ops[1] = x
      /\ \A j \in 1..Len(more) : ops[j + 1] = more[j]
  OBVIOUS
<1> HIDE DEF ops
<1>2. ASSUME NEW j \in 1..Len(ops), j # 1 PROVE ops[j].op = "discard"
  <2>1. j - 1 \in 1..Len(more) /\ j = (j - 1) + 1
    BY <1>1, <1>2
  <2> QED BY <1>1, <2>1
<1>3. 1 \in 1..Len(ops) /\ \A j \in 2..Len(ops) : j \in 1..Len(ops) /\ j # 1
  BY <1>1
<1>4. Submits(ops)
  BY <1>1, <1>2, <1>3 DEF Submits
<1>5. ASSUME NEW i PROVE ~In(ops, "attach", i) /\ (In(ops, "release", i) <=> i = x.store)
  BY <1>1, <1>2, <1>3 DEF In
<1> QED BY <1>4, <1>5 DEF ops

\* What is marked as pending before a release.
LEMMA MarkOK ==
  ASSUME NEW s \in Shards, NEW i \in Store
  PROVE  PendingMark(s, i) \in SUBSET Store /\ (att[s][i] = "attached" => i \in PendingMark(s, i))
BY DEF PendingMark

\* The program destroys a store.
LEMMA DropDetach == ASSUME IInv, RInv, DInv, NEW s \in Shards, Drop(s) PROVE DInv'
<1>1. PICK st \in Menu :
        /\ st.op = "drop" /\ Starts(s, st)
        /\ released' = [released EXCEPT ![s] = @ \cup {st.store}]
        /\ Release(s, st.store, FALSE, <<DiscardOp(fm[s].alloc[st.store])>>)
        /\ UNCHANGED <<result, unordered, matching, offered, progressed>>
  BY DEF Drop
<1> DEFINE i == st.store
           f == fm[s].alloc[i]
           x == ReleaseOp(i, f, FALSE)
           more == <<DiscardOp(f)>>
           ops == <<x>> \o more
           marked == PendingMark(s, i)
<1>2. Run(s)
  BY DEF Run
<1>3. /\ IInv' /\ RInv' /\ Goes(s) /\ ProgramOK(program')
      /\ OrdOK(fm[s], program', result') /\ fm[s].pc \in Nat
  BY <1>2, RunFacts
<1>4. /\ fm[s].ctl = "idle" /\ program'[fm[s].pc + 1] = st /\ fm[s].pc < Len(program')
      /\ fm[s].pc + 1 \in 1..Len(program')
  BY <1>1, <1>3, StartsOK, OrdFacts
<1>5. fm'[s].pc = fm[s].pc + 1 /\ fm'[s].ctl = "idle"
  BY <1>1, <1>2, <1>4, RunFacts, SuccShape DEF Makes
<1>6. i \in 1..fm[s].pc /\ program'[i].op = "create" /\ i \in Store /\ f \in Field
  <2>1. i \in 1..((fm[s].pc + 1) - 1) /\ program'[i].op = "create"
    BY <1>1, <1>3, <1>4 DEF ProgramOK
  <2>2. i \in 1..fm[s].pc
    BY <1>3, <2>1
  <2> QED BY <1>3, <2>1, <2>2, OrdFacts DEF Makes
<1>7. released'[s] = released[s] \cup {i}
  BY <1>1 DEF IInv, LocalOK
<1>8. WindowStep(s, FALSE, marked, <<>>, ops)
  BY <1>1 DEF Release
<1>9. /\ x \in Op /\ x.op = "release" /\ x.store = i /\ more \in Seq(Op)
      /\ \A j \in 1..Len(more) : more[j].op = "discard"
  BY <1>6 DEF ReleaseOp, DiscardOp, Op
<1> HIDE DEF x, more
<1>10. /\ Submits(ops)
       /\ \A h : ~In(ops, "attach", h) /\ (In(ops, "release", h) <=> h = i)
  BY <1>9, ReleaseSubmitted
<1>11. marked \in SUBSET Store /\ (att[s][i] = "attached" => i \in marked)
  BY <1>6, MarkOK
<1> HIDE DEF ops, marked
<1>12. Touches(s, FALSE, marked, ops)
  BY <1>8, <1>10, <1>11, StepWindow
<1>13. \A j \in fm[s].pc + 1 .. fm'[s].pc : j = fm[s].pc + 1 /\ program'[j] = st
  BY <1>3, <1>4, <1>5
<1>14. Submitted(s, FALSE, marked, ops)
  <2>1. \A h \in Store : h > fm[s].pc /\ h <= fm'[s].pc => h \in fm[s].pc + 1 .. fm'[s].pc
    BY ConstAssumption, <1>3, <1>5 DEF Store
  <2>2. \A h \in Store : h > fm[s].pc /\ h <= fm'[s].pc => ~Attaches(program', h)
    BY <1>1, <1>13, <2>1 DEF Attaches
  <2> QED BY <1>5, <1>7, <1>10, <1>11, <2>2 DEF Submitted
<1>15. Dropped(s) /\ NewLife(s)
  BY <1>1, <1>7, <1>13 DEF Dropped, NewLife, Makes
<1>16. ExchangeOK(s)'
  BY <1>1, <1>2, <1>4, NoExchange
<1>17. Exchanges(s) /\ offered'[s] = offered[s]
  BY <1>1 DEF Exchanges
<1>18. ASSUME NEW m \in 1..Len(progressed'[s]) PROVE ~(m > Len(progressed[s]))
  <2>1. Len(progressed[s]) \in Nat
    BY <1>3, <1>17, ExchangesKept DEF Goes
  <2> QED BY <1>1, <2>1
<1>19. ~CollectableIn(program', i)
  BY <1>1, <1>3, <1>4 DEF RInv, LegalProgram
<1>20. \A h \in (released[s] \ Freed(s))' :
         CollectableIn(program', h) => h \in released[s] \ Freed(s)
  BY <1>1, <1>7, <1>19 DEF Freed
<1> QED BY <1>3, <1>12, <1>14, <1>15, <1>16, <1>17, <1>18, <1>20, DetachStep

\* The garbage collector takes a store.
LEMMA CollectDetach == ASSUME IInv, RInv, DInv, NEW s \in Shards, Collect(s) PROVE DInv'
<1>1. PICK i \in 1..fm[s].pc :
        /\ fm[s].ctl = "idle" /\ CollectableIn(program, i)
        /\ released' = [released EXCEPT ![s] = @ \cup {i}]
        /\ unordered' = [unordered EXCEPT ![s] = @ \cup {i}]
        /\ Release(s, i, TRUE, <<>>)
        /\ UNCHANGED <<program, result, fm, step, hist, matching, offered, progressed>>
  BY DEF Collect, Collectable, CollectableIn
<1> DEFINE f == fm[s].alloc[i]
           x == ReleaseOp(i, f, TRUE)
           ops == <<x>> \o <<>>
           marked == PendingMark(s, i)
<1>2. IInv' /\ RInv' /\ Goes(s)
  BY CollectOK, CollectRInv, CollectGoes
<1>3. /\ OrdOK(fm[s], program, result) /\ ProgramOK(program) /\ fm[s].pc \in Nat
      /\ i \in Store /\ f \in Field
  <2>1. OrdOK(fm[s], program, result) /\ ProgramOK(program)
    BY CurrentOK DEF IInv
  <2>2. Makes(program, i)
    BY <1>1 DEF CollectableIn, Makes
  <2> QED BY <2>1, <2>2, OrdFacts
<1>4. released'[s] = released[s] \cup {i} /\ unordered'[s] = unordered[s] \cup {i}
  BY <1>1 DEF IInv, LocalOK
<1>5. WindowStep(s, FALSE, marked, <<>>, ops)
  BY <1>1 DEF Release
<1>6. /\ x \in Op /\ x.op = "release" /\ x.store = i
      /\ <<>> \in Seq(Op) /\ \A j \in 1..Len(<<>>) : <<>>[j].op = "discard"
  BY <1>3 DEF ReleaseOp, Op
<1> HIDE DEF x
<1>7. /\ Submits(ops)
      /\ \A h : ~In(ops, "attach", h) /\ (In(ops, "release", h) <=> h = i)
  BY <1>6, ReleaseSubmitted
<1>8. marked \in SUBSET Store /\ (att[s][i] = "attached" => i \in marked)
  BY <1>3, MarkOK
<1> HIDE DEF ops, marked
<1>9. Touches(s, FALSE, marked, ops)
  BY <1>5, <1>7, <1>8, StepWindow
<1>10. /\ fm' = fm /\ \A j : j \notin fm[s].pc + 1 .. fm'[s].pc
       /\ \A h \in Store : ~(h > fm[s].pc /\ h <= fm'[s].pc)
  BY <1>1, <1>3, ConstAssumption DEF Store
<1>11. Submitted(s, FALSE, marked, ops) /\ Dropped(s) /\ NewLife(s)
  BY <1>1, <1>4, <1>7, <1>8, <1>10 DEF Submitted, Dropped, NewLife
<1>12. Exchanges(s) /\ offered'[s] = offered[s]
  BY <1>1 DEF Exchanges
<1>13. ExchangeOK(s)'
  BY <1>1 DEF DInv, ExchangeOK
<1>14. ASSUME NEW m \in 1..Len(progressed'[s]) PROVE ~(m > Len(progressed[s]))
  <2>1. Len(progressed[s]) \in Nat
    BY <1>2, <1>12, ExchangesKept DEF Goes
  <2> QED BY <1>1, <2>1
<1>15. \A h \in (released[s] \ Freed(s))' : h \in released[s] \ Freed(s)
  BY <1>1, <1>4 DEF Freed
<1> QED BY <1>2, <1>9, <1>11, <1>12, <1>13, <1>14, <1>15, DetachStep

-----------------------------------------------------------------------------
(* The steps of a match.                                                   *)

\* A match is issued at one point of the history.
LEMMA OneIssue ==
  ASSUME IInv, CountsOK, NEW m, NEW n \in 1..Len(hist), NEW k \in 1..Len(hist),
         IssuedAt(n, m), IssuedAt(k, m)
  PROVE  n = k
<1>1. hist[n].matches \in Nat /\ hist[k].matches \in Nat
  <2>1. hist[n] \in OrdState /\ hist[k] \in OrdState
    BY DEF IInv, HistOK
  <2> QED BY <2>1 DEF OrdState
<1>2. /\ Counted(hist[n]) = m /\ Counted(hist[k]) = m /\ m \in Nat
      /\ hist[n].matches < m /\ hist[k].matches < m
  BY <1>1 DEF IssuedAt, Counted
<1>3. ~(n < k)
  BY <1>1, <1>2 DEF CountsOK
<1>4. ~(k < n)
  BY <1>1, <1>2 DEF CountsOK
<1> QED BY <1>3, <1>4

\* A field has one last holder.
LEMMA OneHolder ==
  ASSUME NEW o \in OrdState, NEW f, NEW i, NEW j, LastHolder(o, f, i), LastHolder(o, f, j)
  PROVE  i = j
BY DEF LastHolder, OrdState

\* Where a match was issued, the last holder of a field that is in the match is
\* the store that was freed.
LEMMA MatchingLast ==
  ASSUME IInv, RInv, NEW s \in Shards, fm[s].outstanding, NEW i \in matching[s],
         NEW n \in 1..Len(hist), IssuedAt(n, fm[s].matches)
  PROVE  LastHolder(hist[n], fm[s].alloc[i], i)
<1>1. PICK k \in 1..step[s] :
        IssuedAt(k, fm[s].matches) /\ \A j \in matching[s] : j <= hist[k].pc
  BY DEF RInv, MatchOK
<1>2. /\ k \in 1..Len(hist) /\ hist[k] \in OrdState /\ fm[s] \in OrdState
      /\ Keeps(hist[k], fm[s])
  <2>1. /\ step[s] \in 1..Len(hist) /\ fm[s] = hist[step[s]] /\ hist \in Seq(OrdState)
    BY DEF IInv, HistOK
  <2>2. k \in 1..Len(hist) /\ k <= step[s]
    BY <2>1
  <2> QED BY <2>1, <2>2 DEF IInv, HistOK
<1>3. n = k
  BY <1>1, <1>2, OneIssue DEF RInv
<1>4. LastHolder(fm[s], fm[s].alloc[i], i)
  <2>1. OwnOK(program, fm[s], Freed(s), released[s]) /\ i \in Freed(s)
    BY DEF RInv, Freed
  <2>2. OrdOK(fm[s], program, result) /\ ProgramOK(program)
    BY CurrentOK DEF IInv
  <2> QED BY <2>1, <2>2, FreedLast
<1>5. i <= hist[n].pc
  BY <1>1, <1>3
<1> QED BY <1>2, <1>3, <1>4, <1>5 DEF LastHolder, Keeps, OrdState

\* The match is over for this shard, which calls the exchange of unordered
\* operations with an empty window.
LEMMA AwaitMatchDetach ==
  ASSUME IInv, RInv, DInv, NEW s \in Shards, AwaitMatch(s) PROVE DInv'
<1> DEFINE m == fm[s].matches
           S == {i \in Store : att[s][i] = "detached" /\ Collectable(i)}
<1>1. /\ fm[s].ctl = "wait"
      /\ Ordered(s, [fm[s] EXCEPT !.ctl = "progress"])
      /\ progressed' = [progressed EXCEPT ![s] = Append(@, S)]
      /\ WindowStep(s, FALSE, {}, <<[op |-> "progress", id |-> m]>>, <<>>)
      /\ UNCHANGED <<program, unordered, matching, offered, released>>
  BY DEF AwaitMatch, Window
<1>2. Run(s)
  BY DEF Run
<1>3. /\ fm[s].pc \in Nat /\ fm'[s].pc = fm[s].pc /\ fm'[s].ctl # "wait" /\ m \in Nat
      /\ IInv' /\ RInv' /\ Goes(s) /\ OrdOK(fm[s], program', result') /\ MatchOK(s)
      /\ OwnOK(program, fm[s], Freed(s), released[s])
  BY <1>1, <1>2, RunFacts, SuccShape
<1>4. /\ fm'[s].ctl = "progress" /\ fm'[s].matches = m
      /\ fm[s].outstanding /\ fm'[s].outstanding = fm[s].outstanding
  BY <1>1, <1>3, OrderedMoves DEF OrdOK, OrdState, InMatch
<1>5. Touches(s, FALSE, {}, <<>>)
  BY <1>1, StepWindow, NothingSubmitted
<1>6. Submitted(s, FALSE, {}, <<>>) /\ Dropped(s) /\ NewLife(s)
  BY <1>1, <1>3, NothingSubmitted, PlainStep
<1>7. /\ progressed[s] \in Seq(SUBSET Store) /\ Len(progressed[s]) = m - 1
      /\ progressed'[s] = Append(progressed[s], S)
  BY <1>1, <1>3, <1>4 DEF IInv, LocalOK, DInv, ExchangeOK
<1> HIDE DEF S, m
<1>8. Len(progressed'[s]) = m /\ progressed'[s][m] = S
  BY <1>3, <1>7
<1>9. Exchanges(s) /\ offered'[s] = offered[s] /\ Freed(s)' = Freed(s)
  BY <1>1, <1>7 DEF Exchanges, Freed
<1>10. ExchangeOK(s)'
  BY <1>4, <1>8 DEF ExchangeOK
<1>11. ASSUME NEW p \in 1..Len(progressed'[s]), p > Len(progressed[s]),
              NEW n \in 1..Len(hist), IssuedAt(n, p),
              NEW f \in offered'[s][p], NEW i \in Store,
              LastHolder(hist[n], f, i), Attaches(program', i)
       PROVE  i \in progressed'[s][p]
  <2>1. p = m
    BY <1>3, <1>7, <1>8, <1>11
  <2>2. PICK j \in matching[s] : fm[s].alloc[j] = f
    BY <1>1, <1>3, <1>4, <1>11, <2>1 DEF MatchOK, m
  <2>3. j = i
    <3>1. LastHolder(hist[n], f, j)
      BY <1>4, <1>11, <2>1, <2>2, MatchingLast DEF m
    <3>2. hist[n] \in OrdState
      BY DEF IInv, HistOK
    <3> QED BY <1>11, <3>1, <3>2, OneHolder
  <2>4. i \in released[s] /\ i \in 1..fm[s].pc /\ CollectableIn(program, i)
    BY <1>3, <2>2, <2>3 DEF OwnOK, Freed
  <2>5. Attaches(program, i) /\ i <= fm[s].pc
    BY <1>1, <1>11, <2>4
  <2>6. /\ att[s][i] # "none" \/ In(window[s], "attach", i)
        /\ att[s][i] = "attached" => In(window[s], "release", i)
        /\ ~In(window[s], "attach", i) /\ ~In(window[s], "release", i)
    BY <1>1, <2>4, <2>5 DEF DInv, LifeOK
  <2>7. att[s][i] = "detached"
    BY <2>6 DEF IInv, LocalOK
  <2> QED BY <1>8, <2>1, <2>4, <2>7 DEF S, Collectable, CollectableIn
<1>12. \A i \in (released[s] \ Freed(s))' : i \in released[s] \ Freed(s)
  BY <1>1, <1>9
<1> QED BY <1>3, <1>5, <1>6, <1>9, <1>10, <1>11, <1>12, DetachStep

\* A field that came out of the match is discarded and enters its queue.
LEMMA FreeMatchedDetach ==
  ASSUME IInv, RInv, DInv, NEW s \in Shards, FreeMatched(s) PROVE DInv'
<1> DEFINE m == fm[s].matches
           l == fm[s].taken + 1
           f == result[m][l]
           x == DiscardOp(f)
<1>1. /\ fm[s].ctl = "free" /\ fm[s].taken < Len(result[m])
      /\ matching' = [matching EXCEPT ![s] = {i \in @ : fm[s].alloc[i] # f}]
      /\ WindowStep(s, FALSE, {}, <<>>, <<x>>)
      /\ UNCHANGED <<program, result, unordered, offered, released, progressed>>
  BY DEF FreeMatched, MatchOutput, Window
<1>2. Run(s)
  BY DEF Run
<1>3. /\ fm[s].pc \in Nat /\ fm'[s].pc = fm[s].pc /\ fm'[s].ctl # "wait" /\ m \in Nat
      /\ IInv' /\ RInv' /\ Goes(s) /\ MatchOK(s)
      /\ OwnOK(program, fm[s], Freed(s), released[s])
  BY <1>1, <1>2, RunFacts, SuccShape
<1>4. OrdOK(fm[s], program, result) /\ result \in Seq(Seq(Field)) /\ fm[s].outstanding
  BY <1>1, CurrentOK DEF OrdOK, InMatch, IInv
<1>5. /\ m \in 1..Len(result) /\ result[m] \in Seq(Field)
      /\ l \in 1..Len(result[m]) /\ f \in Field
  <2>1. m \in 1..Len(result) /\ fm[s].taken \in Nat
    BY <1>1, <1>4 DEF OrdOK, OrdState
  <2>2. result[m] \in Seq(Field)
    BY <1>4, <2>1
  <2>3. l \in 1..Len(result[m])
    BY <1>1, <2>1, <2>2
  <2> QED BY <2>1, <2>2, <2>3
<1>6. PICK i \in matching[s] : fm[s].alloc[i] = f
  <2>1. l \in fm[s].taken + 1 .. Len(result[m])
    BY <1>5
  <2>2. \A n \in fm[s].taken + 1 .. Len(result[m]) :
          \E i \in matching[s] : fm[s].alloc[i] = result[m][n]
    BY <1>1, <1>3 DEF MatchOK
  <2> HIDE DEF l
  <2> QED BY <2>1, <2>2
<1>7. x \in Op /\ x.op = "discard"
  BY <1>5 DEF DiscardOp, Op
<1> HIDE DEF x, f, l, m
<1>8. /\ Submits(<<x>>)
      /\ \A h : ~In(<<x>>, "attach", h) /\ ~In(<<x>>, "release", h)
  BY <1>7, OneSubmitted
<1>9. Touches(s, FALSE, {}, <<x>>)
  BY <1>1, <1>8, StepWindow
<1>10. Submitted(s, FALSE, {}, <<x>>) /\ Dropped(s) /\ NewLife(s)
  BY <1>1, <1>3, <1>8, PlainStep
<1>11. Exchanges(s) /\ offered'[s] = offered[s]
  BY <1>1 DEF Exchanges
<1>12. ExchangeOK(s)'
  BY <1>1, <1>2, NoExchange
<1>13. ASSUME NEW p \in 1..Len(progressed'[s]) PROVE ~(p > Len(progressed[s]))
  <2>1. Len(progressed[s]) \in Nat
    BY <1>3, <1>11, ExchangesKept DEF Goes
  <2> QED BY <1>1, <2>1
<1>14. ASSUME Attaches(program, i) PROVE Inserted(s, i)'
  <2>1. PICK n \in 1..step[s] : IssuedAt(n, m)
    BY <1>3, <1>4 DEF MatchOK, m
  <2>2. n \in 1..Len(hist)
    <3>1. step[s] \in 1..Len(hist)
      BY DEF IInv, HistOK
    <3> QED BY <3>1
  <2>3. LastHolder(hist[n], f, i)
    BY <1>4, <1>6, <2>1, <2>2, MatchingLast DEF m
  <2>4. i \in Store
    BY <1>6 DEF IInv, LocalOK
  <2>5. ASSUME NEW t \in Shards PROVE Len(progressed[t]) >= m /\ i \in progressed[t][m]
    <3>1. Len(progressed[t]) >= m /\ Len(progressed[t]) \in Nat
      BY <1>1 DEF DInv, ExchangeOK, IInv, LocalOK, m
    <3>2. m \in 1..Len(progressed[t])
      BY <1>3, <1>5, <3>1
    <3>3. f \in offered[t][m]
      BY <1>5 DEF RInv, ResultOK, f
    <3> QED BY <1>14, <2>1, <2>2, <2>3, <2>4, <3>1, <3>2, <3>3 DEF DInv, OfferedOK
  <2>6. m \in 1..Len(progressed[s])
    <3>1. Len(progressed[s]) >= m /\ Len(progressed[s]) \in Nat
      BY <2>5 DEF IInv, LocalOK
    <3> QED BY <1>3, <1>5, <3>1
  <2> QED BY <1>1, <2>5, <2>6 DEF Inserted
<1>15. ASSUME NEW h \in (released[s] \ Freed(s))', Attaches(program', h)
       PROVE  h \in released[s] \ Freed(s) \/ Inserted(s, h)'
  <2>1. CASE h = i
    BY <1>1, <1>14, <1>15, <2>1
  <2>2. CASE h # i
    <3>1. matching'[s] = {j \in matching[s] : fm[s].alloc[j] # f}
      BY <1>1 DEF IInv, LocalOK
    <3>2. \A j \in matching[s] : fm[s].alloc[j] = f => j = i
      <4>1. fm[s] \in OrdState /\ \A j \in matching[s] : j \in Freed(s)
        BY <1>4 DEF OrdOK, Freed
      <4>2. \A j, g \in Freed(s) : j # g => fm[s].alloc[j] # fm[s].alloc[g]
        BY <1>3, <4>1, FreedDistinct
      <4> QED BY <1>6, <4>1, <4>2
    <3> QED BY <1>1, <1>15, <2>2, <3>1, <3>2 DEF Freed
  <2> QED BY <2>1, <2>2
<1> QED BY <1>3, <1>9, <1>10, <1>11, <1>12, <1>13, <1>15, DetachStep

-----------------------------------------------------------------------------
(* The invariant, and what follows from it.                                *)

\* Every step of the thread of a shard keeps the invariant.
LEMMA RunDInv == ASSUME IInv, RInv, DInv, NEW s \in Shards, Run(s) PROVE DInv'
BY BeginCreateDetach, BeginImportDetach, IssueDetach, ReuseDetach, BindDetach,
   AwaitMatchDetach, ProgressDetach, FreeMatchedDetach, EndProcessDetach,
   DropDetach, QueryDetach, TaskDetach DEF Run

\* Nothing is attached, and nothing was matched, before the program starts.
LEMMA InitDInv == Init => DInv
<1> SUFFICES ASSUME Init PROVE DInv
  OBVIOUS
<1>1. /\ window = [s \in Shards |-> <<>>]
      /\ \A s \in Shards : /\ fm[s] = InitOrd /\ progressed[s] = <<>> /\ window[s] = <<>>
                           /\ released[s] = {} /\ \A i \in Store : att[s][i] = "none"
  BY DEF Init
<1>2. /\ InitOrd.pc = 0 /\ InitOrd.ctl = "idle" /\ InitOrd.outstanding = FALSE
      /\ InitOrd.matches = 0
  BY DEF InitOrd
<1>3. window \in [Shards -> Seq(Op)]
  BY <1>1
<1>4. OfferedOK /\ InsertedOK
  BY <1>1 DEF OfferedOK, InsertedOK
<1>5. ASSUME NEW s \in Shards
      PROVE  /\ Len(window[s]) < WindowSize
             /\ LifeOK(s) /\ DropsOK(s) /\ LivesOK(s) /\ ExchangeOK(s)
  <2>1. Len(window[s]) < WindowSize
    BY <1>1, ConstAssumption
  <2>2. LifeOK(s)
    <3>1. \A i \in Store : i >= 1 /\ i \in Nat
      BY ConstAssumption DEF Store
    <3>2. \A name, i : ~In(<<>>, name, i)
      BY NothingSubmitted
    <3> QED BY <1>1, <1>2, <3>1, <3>2 DEF LifeOK
  <2>3. DropsOK(s) /\ LivesOK(s)
    BY <1>1, <1>2 DEF DropsOK, LivesOK
  <2>4. ExchangeOK(s)
    BY <1>1, <1>2 DEF ExchangeOK
  <2> QED BY <2>1, <2>2, <2>3, <2>4
<1> QED BY <1>3, <1>4, <1>5 DEF DInv

\* Every step keeps the invariant.
LEMMA NextDInv == IInv /\ RInv /\ DInv /\ [Next]_vars => DInv'
<1> SUFFICES ASSUME IInv, RInv, DInv, [Next]_vars PROVE DInv'
  OBVIOUS
<1>1. CASE UNCHANGED vars
  <2>1. /\ program' = program /\ fm' = fm /\ hist' = hist /\ window' = window /\ att' = att
        /\ pending' = pending /\ released' = released /\ unordered' = unordered
        /\ matching' = matching /\ progressed' = progressed /\ offered' = offered
    BY <1>1 DEF vars
  <2>2. OfferedOK'
    BY <2>1 DEF DInv, OfferedOK, IssuedAt
  <2>3. InsertedOK'
    BY <2>1 DEF DInv, InsertedOK, Inserted, Freed
  <2>4. ASSUME NEW s \in Shards
        PROVE  /\ Len(window'[s]) < WindowSize
               /\ (LifeOK(s) /\ DropsOK(s) /\ LivesOK(s) /\ ExchangeOK(s))'
    <3>1. Len(window[s]) < WindowSize /\ LifeOK(s) /\ DropsOK(s) /\ LivesOK(s) /\ ExchangeOK(s)
      BY DEF DInv
    <3>2. LifeOK(s)'
      BY <2>1, <3>1 DEF LifeOK
    <3>3. DropsOK(s)' /\ LivesOK(s)'
      BY <2>1, <3>1 DEF DropsOK, LivesOK
    <3>4. ExchangeOK(s)'
      BY <2>1, <3>1 DEF ExchangeOK
    <3> QED BY <2>1, <3>1, <3>2, <3>3, <3>4
  <2> QED BY <2>1, <2>2, <2>3, <2>4 DEF DInv
<1>2. ASSUME NEW s \in Shards, Run(s) PROVE DInv'
  BY <1>2, RunDInv
<1>3. ASSUME NEW s \in Shards, Collect(s) PROVE DInv'
  BY <1>3, CollectDetach
<1>4. CASE Ended
  BY <1>1, <1>4 DEF Ended
<1> QED BY <1>1, <1>2, <1>3, <1>4 DEF Next

\* The invariant of the attachments: windows are launched as a whole, and the
\* exchanges of unordered operations have what the matches give back.
THEOREM DetachInvariance == Spec => []DInv
BY InitDInv, NextDInv, Invariance, ReuseInvariance, PTL DEF Spec

\* A field that was made has a last holder.
LEMMA LastExists ==
  ASSUME NEW o \in OrdState, NEW f, NEW i \in 1..o.pc, o.alloc[i] = f
  PROVE  \E j \in 1..o.pc : LastHolder(o, f, j)
<1> DEFINE S == {n \in 0..o.pc : o.pc - n \in 1..o.pc /\ o.alloc[o.pc - n] = f}
<1>1. o.pc \in Nat
  BY DEF OrdState
<1>2. S \in SUBSET Nat /\ o.pc - i \in S
  <2>1. o.pc - i \in 0..o.pc /\ o.pc - (o.pc - i) = i
    BY <1>1
  <2> QED BY <1>1, <2>1
<1>3. PICK n \in S : \A y \in S : n <= y
  <2> HIDE DEF S
  <2>1. S # {}
    BY <1>2
  <2> QED BY <1>2, <2>1, Least
<1>4. n \in 0..o.pc /\ o.pc - n \in 1..o.pc /\ o.alloc[o.pc - n] = f
  BY <1>3
<1>5. ASSUME NEW j \in (o.pc - n)+1..o.pc, o.alloc[j] = f PROVE FALSE
  <2>1. o.pc - j \in 0..o.pc /\ o.pc - (o.pc - j) = j /\ j \in 1..o.pc /\ ~(n <= o.pc - j)
    BY <1>1, <1>4, <1>5
  <2>2. o.pc - j \in S
    BY <1>5, <2>1
  <2> QED BY <1>3, <2>1, <2>2
<1> QED BY <1>4, <1>5 DEF LastHolder

\* A store that has given its field up and is detached has its detachment in the
\* task stream, if it was unordered.
LEMMA DetachedInserted ==
  ASSUME IInv, RInv, DInv, NEW s \in Shards, NEW i \in Store,
         Gone(program, fm[s], Freed(s), released[s], i), att[s][i] = "detached",
         Collectable(i)
  PROVE  Inserted(s, i)
<1>1. CollectableIn(program, i)
  BY DEF Collectable, CollectableIn
<1>2. i \in released[s] \ Freed(s)
  BY <1>1 DEF Gone
<1>3. Attaches(program, i)
  BY DEF DInv, LifeOK
<1> QED BY <1>1, <1>2, <1>3 DEF DInv, InsertedOK

\* A field in an ordered queue can be waited for: its detach was emitted, and is
\* in the task stream if it was unordered, or is known to be still pending, so
\* that deallocate_attachment knows when it has to flush.
THEOREM ReusableDetached == Spec => []ReusableIsDetached
<1>1. IInv /\ RInv /\ DInv => ReusableIsDetached
  <2> SUFFICES ASSUME IInv, RInv, DInv, NEW s \in Shards, NEW k \in AllKeys,
                      NEW n \in 1..Len(fm[s].free[k])
               PROVE  LET i == Holder(s, fm[s].free[k][n])
                      IN /\ att[s][i] = "attached" => i \in pending[s]
                         /\ att[s][i] = "detached" /\ Collectable(i) => Inserted(s, i)
    BY DEF ReusableIsDetached
  <2> DEFINE f == fm[s].free[k][n]
  <2>1. /\ fm[s] \in OrdState /\ fm[s].pc \in Nat /\ OrdOK(fm[s], program, result)
        /\ OwnOK(program, fm[s], Freed(s), released[s])
    BY CurrentOK DEF OrdOK, OrdState, RInv
  <2>2. PICK h \in 1..fm[s].pc : Makes(program, h) /\ fm[s].alloc[h] = f
    BY <2>1 DEF OwnOK, QueueOK
  <2>3. PICK i \in 1..fm[s].pc : LastHolder(fm[s], f, i)
    BY <2>1, <2>2, LastExists
  <2>4. Holder(s, f) = i
    BY <2>1, <2>3, HolderIs
  <2>5. fm[s].alloc[i] = f /\ f \in Field /\ Makes(program, i)
    <3>1. f \in Field
      BY <2>1, <2>2 DEF OrdOK
    <3> QED BY <2>1, <2>3, <3>1, NoFieldOK DEF LastHolder, OwnOK, RecordOK
  <2>6. i \in Store /\ (att[s][i] = "attached" => i \in pending[s])
    BY <2>5, QueueAttached
  <2>7. Gone(program, fm[s], Freed(s), released[s], i)
    BY <2>1, <2>5 DEF OwnOK, QueueOK
  <2>8. att[s][i] = "detached" /\ Collectable(i) => Inserted(s, i)
    BY <2>6, <2>7, DetachedInserted
  <2> QED BY <2>4, <2>6, <2>8
<1> QED BY <1>1, Invariance, ReuseInvariance, DetachInvariance, PTL

\* Legion never sees a field attached by two lives of it at a time: what held the
\* field before was never attached, or its detachment was emitted.
THEOREM AttachedOnce == Spec => []OneAttachment
<1>1. IInv /\ RInv /\ DInv => OneAttachment
  <2> SUFFICES ASSUME IInv, RInv, DInv, NEW s \in Shards, NEW i \in Store, NEW j \in Store,
                      i < j, j <= fm[s].pc, fm[s].alloc[i] = fm[s].alloc[j],
                      att[s][j] # "none"
               PROVE  \/ att[s][i] = "none"
                      \/ att[s][i] = "detached" /\ (Collectable(i) => Inserted(s, i))
    BY DEF OneAttachment
  <2>1. /\ fm[s] \in OrdState /\ fm[s].pc \in Nat /\ OrdOK(fm[s], program, result)
        /\ OwnOK(program, fm[s], Freed(s), released[s]) /\ LifeOK(s) /\ LivesOK(s)
    BY CurrentOK DEF OrdOK, OrdState, RInv, DInv
  <2>2. j \in 1..fm[s].pc /\ i \in 1..(j-1) /\ i \in 1..fm[s].pc
    BY <2>1, ConstAssumption DEF Store
  <2>3. Makes(program, j)
    BY <2>1 DEF LifeOK, Attaches, Makes
  <2>4. Makes(program, i)
    <3>1. fm[s].alloc[i] \in Field
      BY <2>1, <2>2, <2>3 DEF OrdOK
    <3> QED BY <2>1, <2>2, <3>1, NoFieldOK DEF OwnOK, RecordOK
  <2>5. Gone(program, fm[s], Freed(s), released[s], i)
    BY <2>1, <2>2, <2>3, <2>4 DEF OwnOK, OnceOK
  <2>6. att[s][i] # "attached"
    BY <2>1, <2>2, <2>3, <2>4 DEF LivesOK
  <2>7. att[s][i] \in {"none", "attached", "detached"}
    BY DEF IInv, LocalOK
  <2> QED BY <2>5, <2>6, <2>7, DetachedInserted
<1> QED BY <1>1, Invariance, ReuseInvariance, DetachInvariance, PTL

-----------------------------------------------------------------------------
(***************************************************************************)
(* ControlDeterminism: all shards make the same ordered calls to Legion    *)
(* when the window has room for one operation.                             *)
(*                                                                         *)
(* The argument: with nothing kept in the window, the ordered calls of a   *)
(* step are a function of the ordered part of the shard, the program and   *)
(* the match results (Emission), except for one test: a store that the     *)
(* program destroys is detached only if it is attached.  Such a store is   *)
(* released by the statement that destroys it and by nothing else          *)
(* (ReleasedOK), and stays attached until then, so that the outcome is     *)
(* known from the program.  The stream of a shard is then the              *)
(* concatenation of the calls of the elements of hist before its own       *)
(* (StreamOK).                                                             *)
(***************************************************************************)

\* What is in the stream of ordered calls.
LegionCall ==
  [op : {"task", "match", "progress"}, id : Nat]
    \cup [op : {"attach"}, store : Store, field : Field]
    \cup [op : {"detach", "discard", "allocate_field"}, field : Field]

\* The calls of the start of statement st, of the rest of allocate_field, and of
\* any step, in state o of the ordered part.
StmtCalls(o, st, prog) ==
  IF st.op \in {"import", "task"} THEN <<TaskOp(o.pc + 1)>>
  ELSE IF st.op # "drop" THEN <<>>
  ELSE IF Attaches(prog, st.store)
       THEN <<[op |-> "detach", field |-> o.alloc[st.store]], DiscardOp(o.alloc[st.store])>>
       ELSE <<DiscardOp(o.alloc[st.store])>>

AllocateCalls(o, st) ==
  LET p == Allocate(o, st.key)
      f == p.alloc[p.pc]
  IN IF p.ctl = "wait" THEN <<>>
     ELSE (IF CanReuse(o, st.key) THEN <<>>
           ELSE <<[op |-> "allocate_field", field |-> f]>>)
          \o (IF st.ext THEN <<AttachOp(p.pc, f)>> ELSE <<>>)

Emission(o, prog, res) ==
  IF o.ctl = "idle" THEN StmtCalls(o, prog[o.pc + 1], prog)
  ELSE IF o.ctl = "issue" THEN <<[op |-> "match", id |-> o.matches + 1]>>
  ELSE IF o.ctl = "reuse" THEN AllocateCalls(o, prog[o.pc + 1])
  ELSE IF o.ctl = "wait" THEN <<[op |-> "progress", id |-> o.matches]>>
  ELSE IF o.ctl = "free" /\ o.taken < Len(res[o.matches])
       THEN <<DiscardOp(res[o.matches][o.taken + 1])>>
  ELSE <<>>

\* A store is detached when it is released, and a store that is not marked is
\* released when the program destroys it.
ReleasedOK(s) ==
  /\ \A i \in Store : att[s][i] = "detached" => i \in released[s]
  /\ \A i \in released[s] :
       CollectableIn(program, i) \/ \E j \in 1..fm[s].pc : Drops(program, j, i)

\* T[n] are the calls made on the way to hist[n].
Told(T) ==
  /\ T \in Seq(Seq(LegionCall)) /\ Len(T) = Len(hist)
  /\ \A s \in Shards : stream[s] = T[step[s]]
  /\ \A n \in 1..Len(hist) - 1 : T[n+1] = T[n] \o Emission(hist[n], program, result)
  /\ \A m, n \in 1..Len(hist) : m <= n => Grows(T[m], T[n])

StreamOK == stream \in [Shards -> Seq(LegionCall)] /\ \E T : Told(T)

OInv == StreamOK /\ \A s \in Shards : ReleasedOK(s)

-----------------------------------------------------------------------------
(* The ordered calls of a step, when the window keeps nothing.             *)

\* Two calls, one after the other.
LEMMA Pair ==
  ASSUME NEW x, NEW y PROVE <<x>> \o <<y>> = <<x, y>>
<1> DEFINE S == {x, y}
           p == <<x>> \o <<y>>
           q == <<x, y>>
<1>1. p \in Seq(S) /\ q \in Seq(S) /\ Len(p) = 2 /\ Len(q) = 2
  OBVIOUS
<1>2. p[1] = x /\ p[2] = y /\ q[1] = x /\ q[2] = y
  OBVIOUS
<1> HIDE DEF p, q
<1>3. p = q
  BY <1>1, <1>2
<1> QED BY <1>3 DEF p, q

\* The function that Calls builds, one operation after the other.
MadeBy(s, w, part, g) ==
  g = [n \in 0..Len(part) |->
         IF n = 0 THEN <<>>
         ELSE IF Emits(s, w, part[n]) THEN Append(g[n - 1], Call(part[n]))
         ELSE g[n - 1]]

\* It is what Calls returns the last value of, if there is one.
LEMMA CallsMade ==
  ASSUME NEW s, NEW w, NEW part, NEW f, MadeBy(s, w, part, f)
  PROVE  \E g : MadeBy(s, w, part, g) /\ Calls(s, w, part) = g[Len(part)]
<1>1. MadeBy(s, w, part, CHOOSE g : MadeBy(s, w, part, g))
  BY Zenon
<1>2. Calls(s, w, part) = (CHOOSE g : MadeBy(s, w, part, g))[Len(part)]
  BY Zenon DEF Calls, MadeBy
<1> QED BY <1>1, <1>2

\* The calls of no operation, of one, and of two.
LEMMA CallsOfNone ==
  ASSUME NEW s, NEW w PROVE Calls(s, w, <<>>) = <<>>
<1> DEFINE p == <<>>
<1>1. Len(p) = 0
  OBVIOUS
<1> HIDE DEF p
<1>2. MadeBy(s, w, p, [n \in 0..0 |-> <<>>])
  BY <1>1 DEF MadeBy
<1>3. PICK g : MadeBy(s, w, p, g) /\ Calls(s, w, p) = g[Len(p)]
  BY <1>2, CallsMade
<1>4. g[0] = <<>>
  BY <1>1, <1>3 DEF MadeBy
<1> QED BY <1>1, <1>3, <1>4 DEF p

\* The call of an operation, if it makes one.
OneCall(s, w, a) == IF Emits(s, w, a) THEN <<Call(a)>> ELSE <<>>

\* The call of one operation.
LEMMA CallsOfOne ==
  ASSUME NEW s, NEW w, NEW a PROVE Calls(s, w, <<a>>) = OneCall(s, w, a)
<1> DEFINE p == <<a>>
           f == [n \in 0..1 |-> IF n = 0 THEN <<>> ELSE OneCall(s, w, a)]
<1>1. Len(p) = 1 /\ p[1] = a
  OBVIOUS
<1>2. f[0] = <<>> /\ f[1] = OneCall(s, w, a) /\ f = [n \in 0..1 |-> f[n]]
  OBVIOUS
<1>3. \A x : Append(<<>>, x) = <<x>>
  OBVIOUS
<1> HIDE DEF p, f
<1>4. MadeBy(s, w, p, f)
  <2>1. ASSUME NEW n \in 0..1
        PROVE  f[n] = IF n = 0 THEN <<>>
                      ELSE IF Emits(s, w, p[n]) THEN Append(f[n - 1], Call(p[n]))
                      ELSE f[n - 1]
    <3>1. CASE n = 0
      BY <1>2, <3>1
    <3>2. CASE n = 1
      <4>1. f[n - 1] = <<>> /\ p[n] = a /\ f[n] = OneCall(s, w, a)
        BY <1>1, <1>2, <3>2
      <4>2. Append(<<>>, Call(p[n])) = <<Call(p[n])>>
        BY <1>3
      <4> QED BY <3>2, <4>1, <4>2 DEF OneCall
    <3> QED BY <3>1, <3>2
  <2> QED BY <1>1, <1>2, <2>1 DEF MadeBy
<1>5. PICK g : MadeBy(s, w, p, g) /\ Calls(s, w, p) = g[Len(p)]
  BY <1>4, CallsMade
<1>6. g[0] = <<>>
  BY <1>1, <1>5 DEF MadeBy
<1>7. g[1] = OneCall(s, w, a)
  BY <1>1, <1>3, <1>5, <1>6 DEF MadeBy, OneCall
<1> QED BY <1>1, <1>5, <1>7 DEF p

\* The calls of two operations.
LEMMA CallsOfTwo ==
  ASSUME NEW s, NEW w, NEW a, NEW b
  PROVE  Calls(s, w, <<a, b>>) = OneCall(s, w, a) \o OneCall(s, w, b)
<1> DEFINE p == <<a, b>>
           c == OneCall(s, w, a)
           d == c \o OneCall(s, w, b)
           f == [n \in 0..2 |-> IF n = 0 THEN <<>> ELSE IF n = 1 THEN c ELSE d]
<1>1. Len(p) = 2 /\ p[1] = a /\ p[2] = b
  OBVIOUS
<1>2. f[0] = <<>> /\ f[1] = c /\ f[2] = d /\ f = [n \in 0..2 |-> f[n]]
  OBVIOUS
<1>3. \A x : Append(<<>>, x) = <<x>>
  OBVIOUS
<1>4. d = IF Emits(s, w, b) THEN Append(c, Call(b)) ELSE c
  <2>1. \A x, y : /\ <<x>> \o <<y>> = Append(<<x>>, y) /\ <<x>> \o <<>> = <<x>>
                 /\ <<>> \o <<y>> = <<y>> /\ <<>> \o <<>> = <<>>
    OBVIOUS
  <2>2. CASE Emits(s, w, a)
    BY <1>3, <2>1, <2>2 DEF OneCall
  <2>3. CASE ~Emits(s, w, a)
    BY <1>3, <2>1, <2>3 DEF OneCall
  <2> QED BY <2>2, <2>3
<1>5. c = IF Emits(s, w, a) THEN <<Call(a)>> ELSE <<>>
  BY DEF OneCall
<1> HIDE DEF p, c, d, f
<1>6. MadeBy(s, w, p, f)
  <2>1. ASSUME NEW n \in 0..2
        PROVE  f[n] = IF n = 0 THEN <<>>
                      ELSE IF Emits(s, w, p[n]) THEN Append(f[n - 1], Call(p[n]))
                      ELSE f[n - 1]
    <3>1. CASE n = 0
      BY <1>2, <3>1
    <3>2. CASE n = 1
      BY <1>1, <1>2, <1>3, <1>5, <3>2
    <3>3. CASE n = 2
      BY <1>1, <1>2, <1>4, <3>3
    <3> QED BY <3>1, <3>2, <3>3
  <2> QED BY <1>1, <1>2, <2>1 DEF MadeBy
<1>7. PICK g : MadeBy(s, w, p, g) /\ Calls(s, w, p) = g[Len(p)]
  BY <1>6, CallsMade
<1>8. g[0] = <<>>
  BY <1>1, <1>7 DEF MadeBy
<1>9. g[1] = c
  <2>1. g[1] = IF Emits(s, w, p[1]) THEN Append(g[1 - 1], Call(p[1])) ELSE g[1 - 1]
    <3>1. \A n \in 0..2 : g[n] = IF n = 0 THEN <<>>
                      ELSE IF Emits(s, w, p[n]) THEN Append(g[n - 1], Call(p[n]))
                      ELSE g[n - 1]
      BY <1>1, <1>7 DEF MadeBy
    <3>2. 1 \in 0..2 /\ 1 # 0
      OBVIOUS
    <3> QED BY <3>1, <3>2, Zenon
  <2>2. g[1 - 1] = <<>>
    BY <1>8
  <2> QED BY <1>1, <1>3, <1>5, <2>1, <2>2
<1>10. g[2] = d
  BY <1>1, <1>4, <1>7, <1>9 DEF MadeBy
<1> QED BY <1>1, <1>7, <1>10 DEF p, c, d

\* A shard adds these calls to its stream.
Tells(s, e) == stream' = [stream EXCEPT ![s] = stream[s] \o e]

\* It makes these calls, and then those of the operations it submits.
TellsAll(s, calls, ops) ==
  stream' = [stream EXCEPT ![s] = stream[s] \o calls \o Calls(s, ops, ops)]

\* All that a step submits is launched at once.
LEMMA WindowOfOne ==
  ASSUME WindowSize = 1, DInv, OInv, NEW s \in Shards,
         NEW flush, NEW marked, NEW calls \in Seq(LegionCall), NEW ops \in Seq(Op),
         WindowStep(s, flush, marked, calls, ops)
  PROVE  TellsAll(s, calls, ops)
<1>a. /\ window \in [Shards -> Seq(Op)] /\ Len(window[s]) < 1
      /\ stream \in [Shards -> Seq(LegionCall)] /\ stream[s] \in Seq(LegionCall)
  BY DEF DInv, OInv, StreamOK
<1> DEFINE pre  == IF flush THEN window[s] ELSE <<>>
           todo == (IF flush THEN <<>> ELSE window[s]) \o ops
           cut  == (Len(todo) \div WindowSize) * WindowSize
           out  == SubSeq(todo, 1, cut)
           w    == pre \o out
<1>1. window[s] = <<>>
  BY <1>a
<1>0. <<>> \o ops = ops /\ Len(ops) \in Nat
  OBVIOUS
<1>2. pre = <<>> /\ todo = ops
  BY <1>0, <1>1
<1>3. cut = Len(ops)
  <2> HIDE DEF todo
  <2> QED BY <1>0, <1>2
<1>4. out = ops
  <2> HIDE DEF todo, cut
  <2> QED BY <1>2, <1>3
<1>5. w = ops
  <2> HIDE DEF out, pre
  <2> QED BY <1>0, <1>2, <1>4
<1>6. stream' = [stream EXCEPT ![s] = stream[s] \o Calls(s, w, pre) \o calls \o Calls(s, w, out)]
  BY DEF WindowStep
<1>7. Calls(s, w, pre) = <<>>
  BY <1>2, CallsOfNone
<1>8. stream[s] \o <<>> = stream[s]
  BY <1>a
<1> HIDE DEF pre, out, w
<1> QED BY <1>4, <1>5, <1>6, <1>7, <1>8 DEF TellsAll

\* What a step tells Legion, by what it submits: nothing or one operation that
\* makes a call of its own.
LEMMA TellsOps ==
  ASSUME WindowSize = 1, DInv, OInv, NEW s \in Shards,
         NEW flush, NEW marked, NEW calls \in Seq(LegionCall), NEW ops \in Seq(Op),
         WindowStep(s, flush, marked, calls, ops)
  PROVE  /\ TellsAll(s, calls, ops)
         /\ ops = <<>> => Tells(s, calls)
         /\ \A a : ops = <<a>> /\ a.op \in {"task", "attach", "discard"} =>
                     Tells(s, calls \o <<a>>)
<1>1. /\ window \in [Shards -> Seq(Op)] /\ Len(window[s]) < 1
      /\ stream \in [Shards -> Seq(LegionCall)] /\ stream[s] \in Seq(LegionCall)
  BY DEF DInv, OInv, StreamOK
<1>2. TellsAll(s, calls, ops)
  BY WindowOfOne
<1>3. ops = <<>> => Tells(s, calls)
  <2>1. (stream[s] \o calls) \o <<>> = stream[s] \o calls
    BY <1>1
  <2> QED BY <1>2, <2>1, CallsOfNone DEF Tells, TellsAll
<1>4. ASSUME NEW a, ops = <<a>>, a.op \in {"task", "attach", "discard"}
      PROVE  Tells(s, calls \o <<a>>)
  <2>1. Calls(s, ops, ops) = <<a>>
    BY <1>4, CallsOfOne DEF OneCall, Emits, Call
  <2>2. a \in Op
    BY <1>4
  <2>3. a \in LegionCall
    BY <2>2, <1>4 DEF Op, LegionCall
  <2>4. <<a>> \in Seq(LegionCall)
    BY <2>3
  <2>5. (stream[s] \o calls) \o <<a>> = stream[s] \o (calls \o <<a>>)
    BY <1>1, <2>4, SMTT(30)
  <2> QED BY <1>2, <2>1, <2>5 DEF Tells, TellsAll
<1> QED BY <1>2, <1>3, <1>4

\* A step that leaves the window alone tells nothing.
LEMMA TellsNothing ==
  ASSUME OInv, NEW s \in Shards, UNCHANGED stream
  PROVE  Tells(s, <<>>)
<1>1. stream \in [Shards -> Seq(LegionCall)] /\ stream[s] \in Seq(LegionCall)
  BY DEF OInv, StreamOK
<1>2. stream[s] \o <<>> = stream[s]
  BY <1>1
<1>3. stream = [stream EXCEPT ![s] = stream[s]]
  BY <1>1
<1> QED BY <1>2, <1>3 DEF Tells, TellsAll

\* The next statement of a shard.
LEMMA NextStore ==
  ASSUME NEW o, NEW prog, NEW res, OrdOK(o, prog, res), ProgramOK(prog), o.pc < Len(prog)
  PROVE  o.pc \in Nat /\ o.pc + 1 \in Store /\ prog[o.pc + 1] \in Stmt
BY OrdFacts

\* The calls of the statements that make no store out of order and destroy none.
LEMMA StartTells ==
  ASSUME WindowSize = 1, IInv, RInv, DInv, OInv, NEW s \in Shards,
         BeginCreate(s) \/ BeginImport(s) \/ Query(s) \/ Task(s)
  PROVE  Tells(s, Emission(fm[s], program', result'))
<1>0. Run(s)
  BY DEF Run
<1>1. /\ fm[s].pc \in Nat /\ OrdOK(fm[s], program', result') /\ ProgramOK(program')
  BY <1>0, RunFacts
<1>2. TaskOp(fm[s].pc + 1) \in LegionCall /\ TaskOp(fm[s].pc + 1) \in Op
  BY <1>1 DEF TaskOp, LegionCall, Op
<1>3. ASSUME NEW st \in Menu, Starts(s, st)
      PROVE  Emission(fm[s], program', result') = StmtCalls(fm[s], st, program')
  BY <1>3, StartsOK DEF Emission
<1>4. CASE BeginCreate(s)
  <2>1. PICK st \in Menu :
          /\ st.op = "create" /\ Starts(s, st)
          /\ LET o == MaybeIssue(fm[s], st.key, st.op)
             IN WindowStep(s, o.ctl = "wait", {}, <<>>, <<>>)
    BY <1>4 DEF BeginCreate, Window
  <2> DEFINE flush == MaybeIssue(fm[s], st.key, st.op).ctl = "wait"
  <2>2. flush \in BOOLEAN /\ WindowStep(s, flush, {}, <<>>, <<>>)
    BY <2>1
  <2> HIDE DEF flush
  <2>3. <<>> \in Seq(LegionCall) /\ <<>> \in Seq(Op)
    OBVIOUS
  <2>4. Tells(s, <<>>)
    BY <2>2, <2>3, TellsOps
  <2>5. StmtCalls(fm[s], st, program') = <<>>
    BY <2>1 DEF StmtCalls
  <2> QED BY <1>3, <2>1, <2>4, <2>5
<1>5. CASE BeginImport(s)
  <2>1. PICK st \in Menu :
          /\ st.op = "import" /\ Starts(s, st)
          /\ WindowStep(s, TRUE, {}, <<TaskOp(fm[s].pc + 1)>>, <<>>)
    BY <1>5 DEF BeginImport, Window
  <2> DEFINE c == <<TaskOp(fm[s].pc + 1)>>
  <2>2. c \in Seq(LegionCall) /\ <<>> \in Seq(Op)
    BY <1>2
  <2>3. StmtCalls(fm[s], st, program') = c
    BY <2>1 DEF StmtCalls
  <2> HIDE DEF c
  <2>4. Tells(s, c)
    BY <2>1, <2>2, TellsOps DEF c
  <2> QED BY <1>3, <2>1, <2>3, <2>4
<1>6. CASE Query(s)
  <2>1. PICK st \in Menu : st.op = "query" /\ Starts(s, st) /\ UNCHANGED stream
    BY <1>6 DEF Query
  <2>2. StmtCalls(fm[s], st, program') = <<>>
    BY <2>1 DEF StmtCalls
  <2> QED BY <1>3, <2>1, <2>2, TellsNothing
<1>7. CASE Task(s)
  <2>1. PICK st \in Menu :
          /\ st.op = "task" /\ Starts(s, st)
          /\ WindowStep(s, FALSE, {}, <<>>, <<TaskOp(fm[s].pc + 1)>>)
    BY <1>7 DEF Task, Window
  <2> DEFINE a == TaskOp(fm[s].pc + 1)
  <2>2. <<a>> \in Seq(Op) /\ <<>> \in Seq(LegionCall) /\ a.op = "task"
    BY <1>2 DEF TaskOp
  <2>3. StmtCalls(fm[s], st, program') = <<a>>
    BY <2>1 DEF StmtCalls
  <2> HIDE DEF a
  <2>4. Tells(s, <<>> \o <<a>>)
    BY <2>1, <2>2, TellsOps DEF a
  <2>5. <<>> \o <<a>> = <<a>>
    OBVIOUS
  <2> QED BY <1>3, <2>1, <2>3, <2>4, <2>5
<1> QED BY <1>4, <1>5, <1>6, <1>7

\* The calls of the steps inside of allocate_field and process_outstanding_match_.
LEMMA InsideTells ==
  ASSUME WindowSize = 1, IInv, RInv, DInv, OInv, NEW s \in Shards,
         \/ Issue(s) \/ Bind(s) \/ AwaitMatch(s) \/ Progress(s)
         \/ FreeMatched(s) \/ EndProcess(s)
  PROVE  Tells(s, Emission(fm[s], program', result'))
<1>0. Run(s)
  BY DEF Run
<1>1. /\ fm[s].pc \in Nat /\ fm[s].matches \in Nat /\ OrdOK(fm[s], program', result')
      /\ ProgramOK(program') /\ result' \in Seq(Seq(Field))
  BY <1>0, RunFacts
<1>2. <<>> \in Seq(LegionCall) /\ <<>> \in Seq(Op)
  OBVIOUS
<1>3. ASSUME NEW c \in LegionCall, WindowStep(s, FALSE, {}, <<c>>, <<>>)
      PROVE  Tells(s, <<c>>)
  <2>1. <<c>> \in Seq(LegionCall)
    OBVIOUS
  <2> QED BY <1>2, <1>3, <2>1, TellsOps
<1>4. CASE Issue(s)
  <2> DEFINE c == [op |-> "match", id |-> fm[s].matches + 1]
  <2>1. fm[s].ctl = "issue" /\ WindowStep(s, FALSE, {}, <<c>>, <<>>)
    BY <1>4 DEF Issue, Window
  <2>2. c \in LegionCall
    BY <1>1 DEF LegionCall
  <2>3. Emission(fm[s], program', result') = <<c>>
    BY <2>1 DEF Emission
  <2> HIDE DEF c
  <2> QED BY <1>3, <2>1, <2>2, <2>3
<1>5. CASE Bind(s)
  <2>1. fm[s].ctl = "bind" /\ UNCHANGED stream
    BY <1>5 DEF Bind
  <2>2. Emission(fm[s], program', result') = <<>>
    BY <2>1 DEF Emission
  <2> QED BY <2>1, <2>2, TellsNothing
<1>6. CASE AwaitMatch(s)
  <2> DEFINE c == [op |-> "progress", id |-> fm[s].matches]
  <2>1. fm[s].ctl = "wait" /\ WindowStep(s, FALSE, {}, <<c>>, <<>>)
    BY <1>6 DEF AwaitMatch, Window
  <2>2. c \in LegionCall
    BY <1>1 DEF LegionCall
  <2>3. Emission(fm[s], program', result') = <<c>>
    BY <2>1 DEF Emission
  <2> HIDE DEF c
  <2> QED BY <1>3, <2>1, <2>2, <2>3
<1>7. CASE Progress(s)
  <2>1. fm[s].ctl = "progress" /\ UNCHANGED stream
    BY <1>7 DEF Progress
  <2>2. Emission(fm[s], program', result') = <<>>
    BY <2>1 DEF Emission
  <2> QED BY <2>1, <2>2, TellsNothing
<1>8. CASE FreeMatched(s)
  <2> DEFINE f == result[fm[s].matches][fm[s].taken + 1]
             a == DiscardOp(f)
  <2>1. /\ fm[s].ctl = "free" /\ fm[s].taken < Len(result[fm[s].matches])
        /\ WindowStep(s, FALSE, {}, <<>>, <<a>>) /\ UNCHANGED result
    BY <1>8 DEF FreeMatched, MatchOutput, Window
  <2>2. /\ fm[s].matches >= 1 /\ fm[s].matches <= Len(result)
        /\ fm[s].taken \in Nat /\ result \in Seq(Seq(Field))
    BY <1>1, <2>1 DEF OrdOK, InMatch, OrdState
  <2>3. result[fm[s].matches] \in Seq(Field)
    BY <1>1, <2>2
  <2>4. f \in Field
    BY <2>1, <2>2, <2>3
  <2>5. a \in Op /\ a.op = "discard"
    <3> HIDE DEF f
    <3> QED BY <2>4 DEF DiscardOp, Op
  <2>6. Emission(fm[s], program', result') = <<a>>
    BY <2>1 DEF Emission
  <2> HIDE DEF a
  <2>7. <<a>> \in Seq(Op) /\ <<>> \o <<a>> = <<a>>
    BY <2>5
  <2>8. Tells(s, <<>> \o <<a>>)
    BY <1>2, <2>1, <2>5, <2>7, TellsOps
  <2> QED BY <2>6, <2>7, <2>8
<1>9. CASE EndProcess(s)
  <2>1. /\ fm[s].ctl = "free" /\ fm[s].taken = Len(result[fm[s].matches])
        /\ UNCHANGED <<stream, result>>
    BY <1>9 DEF EndProcess, MatchOutput
  <2>2. Emission(fm[s], program', result') = <<>>
    <3>1. fm[s].taken \in Nat
      BY <1>1 DEF OrdOK, OrdState
    <3> QED BY <2>1, <3>1 DEF Emission
  <2> QED BY <2>1, <2>2, TellsNothing
<1> QED BY <1>4, <1>5, <1>6, <1>7, <1>8, <1>9

\* The program destroys a store: it is attached if it ever was to be.
LEMMA DropTells ==
  ASSUME WindowSize = 1, IInv, RInv, DInv, OInv, NEW s \in Shards, Drop(s)
  PROVE  Tells(s, Emission(fm[s], program', result'))
<1>1. PICK st \in Menu :
        /\ st.op = "drop" /\ Starts(s, st)
        /\ Release(s, st.store, FALSE, <<DiscardOp(fm[s].alloc[st.store])>>)
  BY DEF Drop
<1> DEFINE i == st.store
           f == fm[s].alloc[i]
           x == ReleaseOp(i, f, FALSE)
           d == DiscardOp(f)
           c == [op |-> "detach", field |-> f]
           ops == <<x>> \o <<d>>
           e == IF Attaches(program', i) THEN <<c>> ELSE <<>>
<1>2. Run(s)
  BY DEF Run
<1>3. /\ IInv' /\ RInv' /\ Goes(s) /\ ProgramOK(program')
      /\ OrdOK(fm[s], program', result') /\ fm[s].pc \in Nat
      /\ Grows(program, program')
  BY <1>2, RunFacts DEF OrderedMove
<1>4. /\ fm[s].ctl = "idle" /\ program'[fm[s].pc + 1] = st /\ fm[s].pc < Len(program')
      /\ fm[s].pc + 1 \in 1..Len(program')
  BY <1>1, <1>3, StartsOK, OrdFacts
<1>5. i \in 1..fm[s].pc /\ i \in Store /\ f \in Field
  <2>1. i \in 1..((fm[s].pc + 1) - 1) /\ program'[i].op = "create"
    BY <1>1, <1>3, <1>4 DEF ProgramOK
  <2>2. i \in 1..fm[s].pc
    BY <1>3, <2>1
  <2> QED BY <1>3, <2>1, <2>2, OrdFacts DEF Makes
<1>6. program \in Seq(Stmt) /\ fm[s].pc <= Len(program)
  BY CurrentOK DEF OrdOK
<1>7. \A j \in 1..fm[s].pc : program'[j] = program[j]
  BY <1>3, <1>6 DEF Grows
<1>8. i \notin released[s]
  <2>1. LegalProgram(program')
    BY <1>3 DEF RInv
  <2>2. ~CollectableIn(program', i)
    BY <1>1, <1>4, <2>1 DEF LegalProgram
  <2>3. \A j \in 1..((fm[s].pc + 1) - 1) : ~Drops(program', j, i)
    BY <1>1, <1>4, <2>1 DEF LegalProgram
  <2>4. \A j \in 1..fm[s].pc : ~Drops(program', j, i)
    BY <1>3, <2>3
  <2>5. ~CollectableIn(program, i) /\ \A j \in 1..fm[s].pc : ~Drops(program, j, i)
    BY <1>5, <1>7, <2>2, <2>4 DEF CollectableIn, Drops
  <2> QED BY <2>5 DEF OInv, ReleasedOK
<1>9. window[s] = <<>>
  BY DEF DInv
<1>10. att[s][i] = "attached" <=> Attaches(program', i)
  <2>1. \A name : ~In(window[s], name, i)
    BY <1>9, NothingSubmitted
  <2>2. Attaches(program', i) <=> Attaches(program, i)
    BY <1>5, <1>7 DEF Attaches
  <2>3. att[s][i] \in {"none", "attached", "detached"}
    BY <1>5 DEF IInv, LocalOK
  <2>4. att[s][i] # "detached"
    BY <1>5, <1>8 DEF OInv, ReleasedOK
  <2>5. LifeOK(s) /\ i <= fm[s].pc
    BY <1>3, <1>5 DEF DInv
  <2> QED BY <1>5, <2>1, <2>2, <2>3, <2>4, <2>5 DEF LifeOK
<1>11. WindowStep(s, FALSE, PendingMark(s, i), <<>>, ops)
  BY <1>1 DEF Release
<1>12. /\ x \in Op /\ x.op = "release" /\ x.store = i /\ x.field = f /\ x.unordered = FALSE
       /\ d \in Op /\ d.op = "discard" /\ d \in LegionCall /\ c \in LegionCall
  BY <1>5 DEF ReleaseOp, DiscardOp, Op, LegionCall
<1>13. Emission(fm[s], program', result') = e \o <<d>>
  <2>1. <<c>> \o <<d>> = <<c, d>> /\ <<>> \o <<d>> = <<d>>
    BY Pair
  <2>2. Emission(fm[s], program', result') = IF Attaches(program', i) THEN <<c, d>> ELSE <<d>>
    BY <1>1, <1>4 DEF Emission, StmtCalls
  <2> HIDE DEF c, d
  <2> QED BY <2>1, <2>2
<1> HIDE DEF x, d, f
<1>14. Submits(ops) /\ \A h : ~In(ops, "attach", h)
  <2>1. <<d>> \in Seq(Op) /\ \A j \in 1..Len(<<d>>) : <<d>>[j].op = "discard"
    BY <1>12
  <2> QED BY <1>12, <2>1, ReleaseSubmitted
<1>15. ops = <<x, d>>
  BY Pair
<1>16. OneCall(s, ops, d) = <<d>>
  BY <1>12 DEF OneCall, Emits, Call
<1>17. OneCall(s, ops, x) = e
  <2>1. Emits(s, ops, x) <=> Attaches(program', i)
    <3> HIDE DEF ops
    <3> QED BY <1>10, <1>12, <1>14 DEF Emits
  <2>2. Call(x) = c
    BY <1>12 DEF Call
  <2> HIDE DEF ops, c
  <2> QED BY <2>1, <2>2 DEF OneCall
<1>18. Calls(s, ops, ops) = e \o <<d>>
  <2>1. Calls(s, ops, <<x, d>>) = OneCall(s, ops, x) \o OneCall(s, ops, d)
    BY CallsOfTwo
  <2> HIDE DEF ops, e
  <2> QED BY <1>15, <1>16, <1>17, <2>1
<1>19. TellsAll(s, <<>>, ops)
  <2>1. <<>> \in Seq(LegionCall) /\ ops \in Seq(Op)
    BY <1>14 DEF Submits
  <2> HIDE DEF ops
  <2> QED BY <1>11, <2>1, TellsOps
<1>20. (stream[s] \o <<>>) = stream[s]
  BY DEF OInv, StreamOK
<1>21. Tells(s, e \o <<d>>)
  <2> HIDE DEF ops, e
  <2> QED BY <1>18, <1>19, <1>20 DEF TellsAll, Tells
<1> QED BY <1>13, <1>21

\* The rest of allocate_field.
LEMMA ReuseTells ==
  ASSUME WindowSize = 1, IInv, RInv, DInv, OInv, NEW s \in Shards, Reuse(s)
  PROVE  Tells(s, Emission(fm[s], program', result'))
<1> DEFINE st == Current(s)
           k  == st.key
           p  == Allocate(fm[s], k)
           i  == p.pc
           f  == p.alloc[i]
           a  == AttachOp(i, f)
           c  == [op |-> "allocate_field", field |-> f]
           ops == IF st.ext THEN <<a>> ELSE <<>>
           calls == IF CanReuse(fm[s], k) THEN <<>> ELSE <<c>>
<1>1. /\ fm[s].ctl = "reuse" /\ Ordered(s, p)
      /\ \/ p.ctl = "wait" /\ WindowStep(s, TRUE, {}, <<>>, <<>>)
         \/ /\ p.ctl = "idle" /\ CanReuse(fm[s], k)
            /\ WindowStep(s, Holder(s, f) \in pending[s], {}, <<>>, ops)
         \/ /\ p.ctl = "idle" /\ ~CanReuse(fm[s], k)
            /\ WindowStep(s, FALSE, {}, <<c>>, ops)
      /\ UNCHANGED <<program, result, local>>
  BY DEF Reuse, Window
<1>2. Run(s)
  BY DEF Run
<1>3. /\ fm[s].pc \in Nat /\ OrdOK(fm'[s], program', result')
  BY <1>2, RunFacts
<1>4. /\ OrdOK(fm[s], program, result) /\ ProgramOK(program) /\ st = program[fm[s].pc + 1]
      /\ fm[s].pc < Len(program) /\ st.op = "create"
  BY <1>1, CurrentOK DEF OrdOK, IInv, Current
<1>5. fm[s] \in OrdState /\ fm[s].pc + 1 \in Store /\ st \in Stmt /\ k \in AllKeys
  <2>1. fm[s] \in OrdState /\ fm[s].pc + 1 \in Store /\ st \in Stmt
    BY <1>4, OrdFacts
  <2> QED BY <1>4, <2>1, StmtOK
<1>6. fm'[s] = p
  BY <1>1, OrderedMoves
<1>7. \/ p.ctl = "idle" /\ p.pc = fm[s].pc + 1
      \/ p.ctl = "wait" /\ p.pc = fm[s].pc
  <2> HIDE DEF k
  <2> QED BY <1>5, AllocateTakes
<1>8. p.ctl = "idle" => f \in Field /\ i \in Store
  <2> SUFFICES ASSUME p.ctl = "idle" PROVE f \in Field /\ i \in Store
    OBVIOUS
  <2>1. i = fm[s].pc + 1
    BY <1>7
  <2>2. i \in 1..fm'[s].pc /\ Makes(program', i)
    <3>1. fm'[s].pc = i /\ program' = program
      BY <1>1, <1>6
    <3> HIDE DEF p
    <3>2. program[i].op = "create"
      BY <1>4, <2>1
    <3>3. i \in Nat \ {0}
      BY <1>3, <2>1
    <3> HIDE DEF i
    <3> QED BY <3>1, <3>2, <3>3 DEF Makes
  <2> QED BY <1>3, <1>5, <1>6, <2>1, <2>2 DEF OrdOK
<1>9. Emission(fm[s], program', result') =
        IF p.ctl = "wait" THEN <<>> ELSE calls \o ops
  BY <1>1, <1>4 DEF Emission, AllocateCalls
<1> HIDE DEF p
<1>10. CASE p.ctl = "wait"
  <2>1. <<>> \in Seq(LegionCall) /\ <<>> \in Seq(Op)
    OBVIOUS
  <2>2. Tells(s, <<>>)
    BY <1>1, <1>10, <2>1, TellsOps
  <2> QED BY <1>9, <1>10, <2>2
<1>11. CASE p.ctl = "idle"
  <2>1. f \in Field /\ i \in Store
    BY <1>8, <1>11
  <2>2. a \in Op /\ a.op = "attach" /\ a \in LegionCall /\ c \in LegionCall
    BY <2>1 DEF AttachOp, Op, LegionCall
  <2> HIDE DEF a, c
  <2>3. calls \in Seq(LegionCall) /\ ops \in Seq(Op)
    BY <2>2
  <2>4. PICK flush : WindowStep(s, flush, {}, calls, ops)
    <3>1. CASE CanReuse(fm[s], k)
      BY <1>1, <1>11, <3>1 DEF c
    <3>2. CASE ~CanReuse(fm[s], k)
      BY <1>1, <1>11, <3>2 DEF c
    <3> QED BY <3>1, <3>2
  <2>5. Tells(s, calls \o ops)
    <3>1. CASE st.ext
      <4>1. ops = <<a>>
        BY <3>1
      <4> HIDE DEF ops, calls
      <4>2. Tells(s, calls \o <<a>>)
        BY <2>2, <2>3, <2>4, <4>1, TellsOps
      <4> QED BY <4>1, <4>2
    <3>2. CASE ~st.ext
      <4>1. ops = <<>>
        BY <3>2
      <4>2. calls \o <<>> = calls
        BY <2>3
      <4> HIDE DEF ops, calls
      <4>3. Tells(s, calls)
        BY <2>3, <2>4, <4>1, TellsOps
      <4> QED BY <4>1, <4>2, <4>3
    <3> QED BY <3>1, <3>2
  <2> QED BY <1>9, <1>11, <2>5
<1> QED BY <1>7, <1>10, <1>11

\* The calls of any step of the thread of a shard.
LEMMA RunTells ==
  ASSUME WindowSize = 1, IInv, RInv, DInv, OInv, NEW s \in Shards, Run(s)
  PROVE  Tells(s, Emission(fm[s], program', result'))
BY StartTells, InsideTells, DropTells, ReuseTells DEF Run

-----------------------------------------------------------------------------
(* The calls on the way to a state are the same for every shard.           *)

\* What a step tells Legion is well formed.
LEMMA EmissionOK ==
  ASSUME NEW prog, NEW res, NEW o, NEW p, res \in Seq(Seq(Field)),
         ProgramOK(prog), OrdOK(o, prog, res), IsSucc(o, p, prog, res)
  PROVE  Emission(o, prog, res) \in Seq(LegionCall)
<1> DEFINE st == prog[o.pc + 1]
<1>1. /\ o \in OrdState /\ o.pc \in Nat /\ o.matches \in Nat /\ o.taken \in Nat
      /\ Len(prog) \in Nat
      /\ o.pc < Len(prog) => /\ st \in Stmt /\ o.pc + 1 \in Store
                             /\ o.pc + 1 \in 1..Len(prog)
  BY OrdFacts DEF OrdState
<1>2. \A f \in Field : DiscardOp(f) \in LegionCall /\ [op |-> "detach", field |-> f] \in LegionCall
                       /\ [op |-> "allocate_field", field |-> f] \in LegionCall
  BY DEF DiscardOp, LegionCall
<1>3. \A x \in LegionCall : <<x>> \in Seq(LegionCall)
  OBVIOUS
<1>4. <<>> \in Seq(LegionCall)
  OBVIOUS
<1>5. CASE o.ctl = "idle"
  <2>1. o.pc < Len(prog)
    BY <1>5 DEF IsSucc
  <2>2. CASE st.op \in {"import", "task"}
    <3>1. TaskOp(o.pc + 1) \in LegionCall
      BY <1>1 DEF TaskOp, LegionCall
    <3> QED BY <1>3, <1>5, <2>2, <3>1 DEF Emission, StmtCalls
  <2>3. CASE st.op = "drop"
    <3>1. st.store \in 1..((o.pc + 1) - 1) /\ prog[st.store].op = "create"
      BY <1>1, <2>1, <2>3 DEF ProgramOK
    <3>2. st.store \in 1..o.pc /\ Makes(prog, st.store)
      BY <1>1, <3>1 DEF Makes
    <3> DEFINE f == o.alloc[st.store]
               c == [op |-> "detach", field |-> f]
               d == DiscardOp(f)
    <3>3. f \in Field
      BY <3>2 DEF OrdOK
    <3>4. c \in LegionCall /\ d \in LegionCall
      BY <1>2, <3>3
    <3>5. Emission(o, prog, res) = IF Attaches(prog, st.store) THEN <<c, d>> ELSE <<d>>
      BY <1>5, <2>3 DEF Emission, StmtCalls
    <3> HIDE DEF c, d
    <3>6. <<c, d>> \in Seq(LegionCall) /\ <<d>> \in Seq(LegionCall)
      BY <3>4
    <3> QED BY <3>5, <3>6
  <2>4. CASE st.op \notin {"import", "task", "drop"}
    BY <1>4, <1>5, <2>4 DEF Emission, StmtCalls
  <2> QED BY <2>2, <2>3, <2>4
<1>6. CASE o.ctl = "issue"
  <2>1. [op |-> "match", id |-> o.matches + 1] \in LegionCall
    BY <1>1 DEF LegionCall
  <2> QED BY <1>3, <1>6, <2>1 DEF Emission
<1>7. CASE o.ctl = "wait"
  <2>1. [op |-> "progress", id |-> o.matches] \in LegionCall
    BY <1>1 DEF LegionCall
  <2> QED BY <1>3, <1>7, <2>1 DEF Emission
<1>8. CASE o.ctl = "free"
  <2>1. CASE o.taken < Len(res[o.matches])
    <3>1. o.matches >= 1 /\ o.matches <= Len(res)
      BY <1>1, <1>8 DEF OrdOK, InMatch
    <3>2. res[o.matches] \in Seq(Field)
      BY <1>1, <3>1
    <3>3. res[o.matches][o.taken + 1] \in Field
      BY <1>1, <2>1, <3>2
    <3>4. DiscardOp(res[o.matches][o.taken + 1]) \in LegionCall
      BY <1>2, <3>3
    <3> QED BY <1>3, <1>8, <2>1, <3>4 DEF Emission
  <2> QED BY <1>4, <1>8, <2>1 DEF Emission
<1>9. CASE o.ctl = "reuse"
  <2> DEFINE q == Allocate(o, st.key)
             f == q.alloc[q.pc]
             c == [op |-> "allocate_field", field |-> f]
             a == AttachOp(q.pc, f)
  <2>1. o.pc < Len(prog) /\ st.op = "create"
    BY <1>9 DEF OrdOK
  <2>2. p = q /\ OrdOK(p, prog, res)
    <3>1. p = q
      BY <1>9 DEF IsSucc
    <3> QED BY <3>1, SuccOK
  <2>3. st.key \in AllKeys
    BY <1>1, <2>1, StmtOK
  <2>4. \/ q.ctl = "idle" /\ q.pc = o.pc + 1
        \/ q.ctl = "wait" /\ q.pc = o.pc
    BY <1>1, <2>1, <2>3, AllocateTakes
  <2>5. Emission(o, prog, res) =
          IF q.ctl = "wait" THEN <<>>
          ELSE (IF CanReuse(o, st.key) THEN <<>> ELSE <<c>>)
               \o (IF st.ext THEN <<a>> ELSE <<>>)
    BY <1>9 DEF Emission, AllocateCalls
  <2> HIDE DEF q
  <2>6. CASE q.ctl = "idle"
    <3>1. q.pc \in 1..p.pc /\ Makes(prog, q.pc) /\ q.pc \in Store
      BY <1>1, <2>1, <2>2, <2>4, <2>6 DEF Makes
    <3>2. f \in Field
      BY <2>2, <3>1 DEF OrdOK
    <3>3. c \in LegionCall /\ a \in LegionCall
      BY <3>1, <3>2 DEF LegionCall, AttachOp
    <3> HIDE DEF c, a
    <3>4. <<c>> \in Seq(LegionCall) /\ <<a>> \in Seq(LegionCall)
      BY <3>3
    <3> QED BY <1>4, <2>5, <2>6, <3>4
  <2>7. CASE q.ctl = "wait"
    BY <1>4, <2>5, <2>7
  <2> QED BY <2>4, <2>6, <2>7
<1>10. CASE o.ctl \in {"bind", "progress"}
  BY <1>4, <1>10 DEF Emission
<1> QED BY <1>1, <1>5, <1>6, <1>7, <1>8, <1>9, <1>10 DEF OrdState

\* It stays what it is when the program and the results grow.
LEMMA EmissionStable ==
  ASSUME NEW o, NEW p, NEW prog, NEW prog2, NEW res, NEW res2,
         ProgramOK(prog), res \in Seq(Seq(Field)),
         Grows(prog, prog2), Grows(res, res2),
         OrdOK(o, prog, res), IsSucc(o, p, prog, res)
  PROVE  Emission(o, prog2, res2) = Emission(o, prog, res)
<1> DEFINE st == prog[o.pc + 1]
<1>1. /\ o \in OrdState /\ o.pc \in Nat /\ o.matches \in Nat
      /\ Len(prog) \in Nat /\ Len(res) \in Nat
      /\ o.pc < Len(prog) => o.pc + 1 \in 1..Len(prog)
      /\ \A i \in 1..o.pc : i \in 1..Len(prog)
  BY OrdFacts DEF OrdState
<1>2. o.pc < Len(prog) => prog2[o.pc + 1] = st
  BY <1>1 DEF Grows
<1>3. CASE o.ctl = "idle"
  <2>1. o.pc < Len(prog)
    BY <1>3 DEF IsSucc
  <2>2. st.op = "drop" => (Attaches(prog2, st.store) <=> Attaches(prog, st.store))
    <3> SUFFICES ASSUME st.op = "drop"
                 PROVE  Attaches(prog2, st.store) <=> Attaches(prog, st.store)
      OBVIOUS
    <3>1. st.store \in 1..((o.pc + 1) - 1)
      BY <1>1, <2>1 DEF ProgramOK
    <3>2. st.store \in 1..Len(prog)
      BY <1>1, <2>1, <3>1
    <3>3. prog2[st.store] = prog[st.store]
      BY <3>2 DEF Grows
    <3> QED BY <3>3 DEF Attaches
  <2>3. StmtCalls(o, st, prog2) = StmtCalls(o, st, prog)
    BY <2>2 DEF StmtCalls
  <2> QED BY <1>2, <1>3, <2>1, <2>3 DEF Emission
<1>4. CASE o.ctl = "reuse"
  <2>1. o.pc < Len(prog)
    BY <1>4 DEF OrdOK
  <2> QED BY <1>2, <1>4, <2>1 DEF Emission
<1>5. CASE o.ctl = "free"
  <2>1. o.matches \in 1..Len(res)
    BY <1>1, <1>5 DEF OrdOK, InMatch
  <2>2. res2[o.matches] = res[o.matches]
    BY <2>1 DEF Grows
  <2> QED BY <1>5, <2>2 DEF Emission
<1>6. CASE o.ctl \notin {"idle", "reuse", "free"}
  BY <1>6 DEF Emission
<1> QED BY <1>3, <1>4, <1>5, <1>6

\* A sequence that is continued grows.
LEMMA GrowsOn ==
  ASSUME NEW S, NEW a \in Seq(S), NEW b \in Seq(S), NEW e \in Seq(S), Grows(a, b)
  PROVE  Grows(a, b \o e) /\ b \o e \in Seq(S)
<1>1. /\ b \o e \in Seq(S) /\ Len(b \o e) = Len(b) + Len(e) /\ Len(b) \in Nat /\ Len(e) \in Nat
      /\ Len(a) \in Nat
  OBVIOUS
<1>2. \A j \in 1..Len(b) : (b \o e)[j] = b[j]
  OBVIOUS
<1>3. \A j \in 1..Len(a) : j \in 1..Len(b)
  BY <1>1 DEF Grows
<1> QED BY <1>1, <1>2, <1>3 DEF Grows

\* A step of a shard adds to its stream what leads to its next state.
LEMMA StreamStep ==
  ASSUME IInv, IInv', StreamOK, NEW s \in Shards, OrderedMove(s),
         Tells(s, Emission(fm[s], program', result'))
  PROVE  StreamOK'
<1> DEFINE L == Len(hist)
           e == Emission(fm[s], program', result')
<1>1. /\ step'[s] = step[s] + 1
      /\ \A t \in Shards \ {s} : step'[t] = step[t]
      /\ OrdOK(fm[s], program', result') /\ ProgramOK(program') /\ result' \in Seq(Seq(Field))
      /\ IsSucc(fm[s], fm'[s], program', result')
      /\ Grows(program, program') /\ Grows(result, result')
  BY MoveFacts DEF OrderedMove
<1>2. /\ hist \in Seq(OrdState) /\ L \in Nat
      /\ \A t \in Shards : /\ step[t] \in Nat /\ step[t] >= 1 /\ step[t] <= L
                           /\ fm[t] = hist[step[t]]
      /\ ProgramOK(program) /\ result \in Seq(Seq(Field))
  BY DEF IInv, HistOK
<1>3. e \in Seq(LegionCall)
  BY <1>1, EmissionOK
<1>4. stream \in [Shards -> Seq(LegionCall)] /\ \E T : Told(T)
  BY DEF StreamOK
<1>5. PICK T : Told(T)
  BY <1>4
<1>6. /\ T \in Seq(Seq(LegionCall)) /\ Len(T) = L
      /\ \A t \in Shards : stream[t] = T[step[t]]
      /\ \A n \in 1..L - 1 : T[n+1] = T[n] \o Emission(hist[n], program, result)
      /\ \A m, n \in 1..L : m <= n => Grows(T[m], T[n])
  BY <1>5 DEF Told
<1>7. \A n \in 1..L - 1 :
        Emission(hist[n], program', result') = Emission(hist[n], program, result)
  <2> SUFFICES ASSUME NEW n \in 1..L - 1
               PROVE  Emission(hist[n], program', result') = Emission(hist[n], program, result)
    OBVIOUS
  <2>1. n \in 1..L
    BY <1>2
  <2>2. OrdOK(hist[n], program, result) /\ IsSucc(hist[n], hist[n+1], program, result)
    BY <2>1 DEF IInv, HistOK
  <2> QED BY <1>1, <1>2, <2>2, EmissionStable
<1>8. \A n \in 1..L : T[n] \in Seq(LegionCall)
  BY <1>6
<1> HIDE DEF e, L
<1>9. stream' \in [Shards -> Seq(LegionCall)] /\ stream'[s] = T[step[s]] \o e
      /\ \A t \in Shards \ {s} : stream'[t] = stream[t]
  <2>1. stream' = [stream EXCEPT ![s] = stream[s] \o e]
    BY DEF Tells, e
  <2>2. stream[s] \o e \in Seq(LegionCall)
    BY <1>3, <1>4
  <2> QED BY <1>4, <1>6, <2>1, <2>2
<1>10. CASE step[s] < L
  <2>1. hist' = hist
    BY <1>2, <1>10 DEF OrderedMove, Ordered, L
  <2>2. T[step[s] + 1] = T[step[s]] \o e
    <3>1. step[s] \in 1..L - 1
      BY <1>2, <1>10
    <3>2. e = Emission(hist[step[s]], program', result')
      BY <1>2 DEF e
    <3>3. T[step[s] + 1] = T[step[s]] \o Emission(hist[step[s]], program, result)
      BY <1>6, <3>1
    <3> QED BY <1>7, <3>1, <3>2, <3>3
  <2>3. \A t \in Shards : stream'[t] = T[step'[t]]
    BY <1>1, <1>6, <1>9, <2>2
  <2>4. Told(T)'
    <3>1. \A n \in 1..Len(hist') - 1 : T[n+1] = T[n] \o Emission(hist'[n], program', result')
      BY <1>6, <1>7, <2>1 DEF L
    <3>2. /\ Len(T) = Len(hist')
          /\ \A m, n \in 1..Len(hist') : m <= n => Grows(T[m], T[n])
      BY <1>6, <2>1 DEF L
    <3> QED BY <1>6, <2>3, <3>1, <3>2 DEF Told
  <2> QED BY <1>9, <2>4 DEF StreamOK
<1>11. CASE step[s] = L
  <2>1. PICK x : x = T[L] \o e
    OBVIOUS
  <2>2. PICK U : U = Append(T, x)
    OBVIOUS
  <2>3. L \in 1..L /\ T[L] \in Seq(LegionCall) /\ x \in Seq(LegionCall)
    <3>1. L \in 1..L
      BY <1>2, <1>11
    <3>2. T[L] \in Seq(LegionCall)
      BY <1>8, <3>1
    <3> QED BY <1>3, <2>1, <3>1, <3>2
  <2>4. /\ U \in Seq(Seq(LegionCall)) /\ Len(U) = L + 1 /\ U[L + 1] = x
        /\ \A n \in 1..L : U[n] = T[n]
    BY <1>2, <1>6, <2>2, <2>3
  <2>5. PICK o : o = fm'[s]
    OBVIOUS
  <2>6. hist' = Append(hist, o)
    BY <1>11, <2>5 DEF OrderedMove, Ordered, L
  <2>7. Len(hist') = L + 1 /\ \A n \in 1..L : hist'[n] = hist[n]
    BY <1>2, <2>6 DEF L
  <2>8. \A t \in Shards : stream'[t] = U[step'[t]]
    <3>1. \A t \in Shards : step[t] \in 1..L
      BY <1>2
    <3>2. stream'[s] = U[step'[s]]
      BY <1>1, <1>9, <1>11, <2>1, <2>4
    <3>3. \A t \in Shards \ {s} : stream'[t] = U[step'[t]]
      <4> SUFFICES ASSUME NEW t \in Shards \ {s} PROVE stream'[t] = U[step'[t]]
        OBVIOUS
      <4>1. step'[t] = step[t] /\ step[t] \in 1..L
        BY <1>1, <3>1
      <4>2. stream'[t] = T[step[t]] /\ U[step[t]] = T[step[t]]
        BY <1>6, <1>9, <2>4, <4>1
      <4> QED BY <4>1, <4>2
    <3> QED BY <3>2, <3>3
  <2>9. ASSUME NEW n \in 1..L
        PROVE  U[n+1] = U[n] \o Emission(hist'[n], program', result')
    <3>1. CASE n = L
      <4>1. U[n] = T[L] /\ U[n+1] = x /\ hist'[n] = fm[s]
        BY <1>2, <1>11, <2>3, <2>4, <2>7, <3>1
      <4> QED BY <2>1, <4>1 DEF e
    <3>2. CASE n # L
      <4>1. n \in 1..L - 1 /\ n + 1 \in 1..L
        BY <1>2, <3>2
      <4>2. U[n+1] = T[n+1] /\ U[n] = T[n] /\ hist'[n] = hist[n]
        BY <2>4, <2>7, <2>9, <4>1
      <4>3. T[n+1] = T[n] \o Emission(hist[n], program', result')
        BY <1>6, <1>7, <4>1
      <4> QED BY <4>2, <4>3
    <3> QED BY <3>1, <3>2
  <2>10. ASSUME NEW m \in 1..L + 1, NEW n \in 1..L + 1, m <= n
         PROVE  Grows(U[m], U[n])
    <3>1. \A a \in Seq(LegionCall) : Grows(a, a)
      BY DEF Grows
    <3>2. CASE n \in 1..L
      <4>1. m \in 1..L
        BY <1>2, <2>10, <3>2
      <4> QED BY <1>6, <2>4, <2>10, <3>2, <4>1
    <3>3. CASE n = L + 1 /\ m \in 1..L
      <4>1. Grows(T[m], T[L])
        <5>1. m <= L
          BY <1>2, <3>3
        <5> QED BY <1>6, <2>3, <3>3, <5>1
      <4>2. T[m] \in Seq(LegionCall)
        BY <1>8, <3>3
      <4>3. Grows(T[m], T[L] \o e)
        BY <1>3, <2>3, <4>1, <4>2, GrowsOn
      <4> QED BY <2>1, <2>4, <3>3, <4>3
    <3>4. CASE n = L + 1 /\ m = L + 1
      BY <2>3, <2>4, <3>1, <3>4
    <3> QED BY <1>2, <3>2, <3>3, <3>4
  <2>11. Told(U)'
    <3>1. \A n \in 1..Len(hist') - 1 : U[n+1] = U[n] \o Emission(hist'[n], program', result')
      <4>1. 1..Len(hist') - 1 = 1..L
        BY <1>2, <2>7
      <4> QED BY <2>9, <4>1
    <3>2. /\ Len(U) = Len(hist')
          /\ \A m, n \in 1..Len(hist') : m <= n => Grows(U[m], U[n])
      BY <2>4, <2>7, <2>10
    <3> QED BY <2>4, <2>8, <3>1, <3>2 DEF Told
  <2> QED BY <1>9, <2>11 DEF StreamOK
<1> QED BY <1>2, <1>10, <1>11

-----------------------------------------------------------------------------
(* A store is released when the program destroys it.                       *)

\* What a step detaches was to be released.
LEMMA DetachedStep ==
  ASSUME IInv, DInv, NEW s \in Shards, ReleasedOK(s), released[s] \subseteq released'[s],
         NEW flush, NEW marked, NEW ops, Touches(s, flush, marked, ops),
         \A i \in Store : In(ops, "release", i) => i \in released'[s]
  PROVE  \A i \in Store : att'[s][i] = "detached" => i \in released'[s]
<1> SUFFICES ASSUME NEW i \in Store, att'[s][i] = "detached" PROVE i \in released'[s]
  OBVIOUS
<1>1. \/ att'[s][i] = att[s][i]
      \/ att'[s][i] = Launched(att[s][i], In(window[s], "attach", i),
                                          In(window[s], "release", i))
      \/ att'[s][i] = Launched(att[s][i],
                               In(window[s], "attach", i) \/ In(ops, "attach", i),
                               In(window[s], "release", i) \/ In(ops, "release", i))
  BY DEF Touches, WindowMoves
<1>2. att[s][i] = "detached" \/ In(window[s], "release", i) \/ In(ops, "release", i)
  BY <1>1 DEF Launched
<1>3. In(window[s], "release", i) => i \in released[s]
  BY DEF DInv, LifeOK
<1> QED BY <1>2, <1>3 DEF ReleasedOK

\* A step of the thread of a shard that releases nothing.
LEMMA NothingDetached ==
  ASSUME IInv, RInv, DInv, NEW s \in Shards, ReleasedOK(s), Run(s), ~Drop(s)
  PROVE  /\ released' = released
         /\ \A i \in Store : att'[s][i] = "detached" => i \in released'[s]
<1>1. ASSUME NEW flush \in BOOLEAN, NEW calls, NEW ops, released' = released,
             Submits(ops), WindowStep(s, flush, {}, calls, ops),
             \A i \in Store : ~In(ops, "release", i)
      PROVE  \A i \in Store : att'[s][i] = "detached" => i \in released'[s]
  <2>1. Touches(s, flush, {}, ops)
    BY <1>1, StepWindow
  <2> QED BY <1>1, <2>1, DetachedStep
<1>2. ASSUME NEW flush \in BOOLEAN, NEW calls, released' = released,
             WindowStep(s, flush, {}, calls, <<>>)
      PROVE  \A i \in Store : att'[s][i] = "detached" => i \in released'[s]
  BY <1>1, <1>2, NothingSubmitted
<1>3. ASSUME NEW flush \in BOOLEAN, NEW calls, NEW a \in Op, a.op # "release",
             released' = released, WindowStep(s, flush, {}, calls, <<a>>)
      PROVE  \A i \in Store : att'[s][i] = "detached" => i \in released'[s]
  <2> DEFINE ops == <<a>>
  <2>1. /\ ops \in Seq(Op) /\ Len(ops) = 1 /\ ops[1] = a
    OBVIOUS
  <2> HIDE DEF ops
  <2>2. Submits(ops) /\ \A i \in Store : ~In(ops, "release", i)
    BY <1>3, <2>1 DEF Submits, In
  <2>3. WindowStep(s, flush, {}, calls, ops)
    BY <1>3 DEF ops
  <2> QED BY <1>1, <1>3, <2>2, <2>3
<1>4. ASSUME UNCHANGED <<att, released>>
      PROVE  \A i \in Store : att'[s][i] = "detached" => i \in released'[s]
  BY <1>4 DEF ReleasedOK
<1>5. /\ fm[s].pc \in Nat /\ OrdOK(fm[s], program', result') /\ result' \in Seq(Seq(Field))
      /\ IInv'
  BY RunFacts
<1>6. TaskOp(fm[s].pc + 1) \in Op /\ TaskOp(fm[s].pc + 1).op = "task"
  BY <1>5 DEF TaskOp, Op
<1>7. CASE BeginCreate(s)
  <2>1. PICK st \in Menu :
          WindowStep(s, MaybeIssue(fm[s], st.key, st.op).ctl = "wait", {}, <<>>, <<>>)
    BY <1>7 DEF BeginCreate, Window
  <2> DEFINE flush == MaybeIssue(fm[s], st.key, st.op).ctl = "wait"
  <2>2. flush \in BOOLEAN /\ WindowStep(s, flush, {}, <<>>, <<>>)
    BY <2>1
  <2> HIDE DEF flush
  <2>3. released' = released
    BY <1>7 DEF BeginCreate, local
  <2> QED BY <1>2, <2>2, <2>3
<1>8. CASE BeginImport(s) \/ Issue(s) \/ AwaitMatch(s)
  <2>1. released' = released
    BY <1>8 DEF BeginImport, Issue, AwaitMatch, local
  <2>2. CASE BeginImport(s)
    <3>1. WindowStep(s, TRUE, {}, <<TaskOp(fm[s].pc + 1)>>, <<>>)
      BY <2>2 DEF BeginImport, Window
    <3> QED BY <1>2, <2>1, <3>1
  <2>3. CASE Issue(s)
    <3>1. WindowStep(s, FALSE, {}, <<[op |-> "match", id |-> fm[s].matches + 1]>>, <<>>)
      BY <2>3 DEF Issue, Window
    <3> QED BY <1>2, <2>1, <3>1
  <2>4. CASE AwaitMatch(s)
    <3>1. WindowStep(s, FALSE, {}, <<[op |-> "progress", id |-> fm[s].matches]>>, <<>>)
      BY <2>4 DEF AwaitMatch, Window
    <3> QED BY <1>2, <2>1, <3>1
  <2> QED BY <1>8, <2>2, <2>3, <2>4
<1>9. CASE Bind(s) \/ Progress(s) \/ EndProcess(s) \/ Query(s)
  BY <1>4, <1>9 DEF Bind, Progress, EndProcess, Query, local
<1>10. CASE Task(s)
  <2>1. WindowStep(s, FALSE, {}, <<>>, <<TaskOp(fm[s].pc + 1)>>) /\ released' = released
    BY <1>10 DEF Task, Window, local
  <2> QED BY <1>3, <1>6, <2>1
<1>11. CASE FreeMatched(s)
  <2> DEFINE f == result[fm[s].matches][fm[s].taken + 1]
  <2>1. /\ fm[s].ctl = "free" /\ fm[s].taken < Len(result[fm[s].matches])
        /\ WindowStep(s, FALSE, {}, <<>>, <<DiscardOp(f)>>) /\ UNCHANGED <<result, released>>
    BY <1>11 DEF FreeMatched, MatchOutput, Window
  <2>2. /\ fm[s].matches >= 1 /\ fm[s].matches <= Len(result) /\ fm[s].matches \in Nat
        /\ fm[s].taken \in Nat /\ result \in Seq(Seq(Field))
    BY <1>5, <2>1 DEF OrdOK, InMatch, OrdState
  <2>3. result[fm[s].matches] \in Seq(Field)
    BY <2>2
  <2>4. f \in Field
    BY <2>1, <2>2, <2>3
  <2> HIDE DEF f
  <2>5. DiscardOp(f) \in Op /\ DiscardOp(f).op = "discard"
    BY <2>4 DEF DiscardOp, Op
  <2> QED BY <1>3, <2>1, <2>5
<1>12. CASE Reuse(s)
  <2> DEFINE st == Current(s)
             p  == Allocate(fm[s], st.key)
             f  == p.alloc[p.pc]
             a  == AttachOp(p.pc, f)
             ops == IF st.ext THEN <<a>> ELSE <<>>
  <2>1. released' = released /\ fm[s].ctl = "reuse" /\ Ordered(s, p)
    BY <1>12 DEF Reuse, local
  <2>2. \/ WindowStep(s, TRUE, {}, <<>>, <<>>)
        \/ /\ p.ctl = "idle"
           /\ \E flush \in BOOLEAN : \E calls : WindowStep(s, flush, {}, calls, ops)
    <3>1. \/ WindowStep(s, TRUE, {}, <<>>, <<>>)
          \/ /\ p.ctl = "idle"
             /\ WindowStep(s, Holder(s, f) \in pending[s], {}, <<>>, ops)
          \/ /\ p.ctl = "idle"
             /\ WindowStep(s, FALSE, {}, <<[op |-> "allocate_field", field |-> f]>>, ops)
      BY <1>12 DEF Reuse, Window
    <3> HIDE DEF p, ops
    <3>2. (Holder(s, f) \in pending[s]) \in BOOLEAN
      OBVIOUS
    <3> QED BY <3>1, <3>2
  <2>3. fm'[s] = p
    BY <2>1, OrderedMoves
  <2>4. CASE WindowStep(s, TRUE, {}, <<>>, <<>>)
    BY <1>2, <2>1, <2>4
  <2>5. CASE p.ctl = "idle" /\ \E flush \in BOOLEAN : \E calls : WindowStep(s, flush, {}, calls, ops)
    <3>1. /\ OrdOK(fm[s], program, result) /\ ProgramOK(program) /\ st = program[fm[s].pc + 1]
          /\ fm[s].pc < Len(program) /\ st.op = "create" /\ program' = program
      BY <1>12, CurrentOK DEF OrdOK, IInv, Current, Reuse
    <3>2. fm[s] \in OrdState /\ fm[s].pc + 1 \in Store /\ st.key \in AllKeys
      <4>1. fm[s] \in OrdState /\ fm[s].pc + 1 \in Store /\ st \in Stmt
        BY <3>1, OrdFacts
      <4> QED BY <3>1, <4>1, StmtOK
    <3>3. p.ctl = "idle" => p.pc = fm[s].pc + 1
      BY <3>2, AllocateTakes
    <3> HIDE DEF p
    <3>4. p.pc \in 1..fm'[s].pc /\ Makes(program', p.pc) /\ p.pc \in Store
      BY <1>5, <2>3, <2>5, <3>1, <3>2, <3>3 DEF Makes
    <3>5. OrdOK(fm'[s], program', result')
      BY RunFacts
    <3>6. f \in Field
      BY <2>3, <3>4, <3>5 DEF OrdOK
    <3>7. a \in Op /\ a.op = "attach"
      BY <3>4, <3>6 DEF AttachOp, Op
    <3> HIDE DEF a
    <3>8. CASE st.ext
      BY <1>3, <2>1, <2>5, <3>7, <3>8
    <3>9. CASE ~st.ext
      BY <1>2, <2>1, <2>5, <3>9
    <3> QED BY <3>8, <3>9
  <2> QED BY <2>1, <2>2, <2>4, <2>5
<1> QED BY <1>7, <1>8, <1>9, <1>10, <1>11, <1>12 DEF Run

\* What is released stays destroyed.
LEMMA ReleasedKept ==
  ASSUME IInv, IInv', NEW t \in Shards, RInv, Grows(program, program'),
         Keeps(fm[t], fm'[t]), ReleasedOK(t)
  PROVE  \A i \in released[t] :
           CollectableIn(program', i) \/ \E j \in 1..fm'[t].pc : Drops(program', j, i)
<1>1. /\ fm[t].pc \in Nat /\ fm'[t].pc \in Nat /\ fm[t].pc <= fm'[t].pc
      /\ \A i \in 1..fm[t].pc : i \in 1..Len(program)
  <2>1. ProgramOK(program) /\ OrdOK(fm[t], program, result)
    BY CurrentOK DEF IInv
  <2>2. fm'[t].pc \in Nat
    BY DEF IInv, HistOK, OrdState
  <2> QED BY <2>1, <2>2, OrdFacts DEF Keeps
<1>2. \A i \in 1..fm[t].pc : program'[i] = program[i]
  BY <1>1 DEF Grows
<1>3. \A i \in released[t] : i \in 1..fm[t].pc
  BY DEF RInv, OwnOK
<1>4. \A j \in 1..fm[t].pc : j \in 1..fm'[t].pc
  BY <1>1
<1> QED BY <1>2, <1>3, <1>4 DEF ReleasedOK, CollectableIn, Drops

\* What is released by the other shards stays as it is.
LEMMA OthersReleased ==
  ASSUME IInv, IInv', RInv, DInv, NEW s \in Shards, Goes(s), NEW t \in Shards \ {s},
         NEW flush, NEW marked, NEW ops, Touches(s, flush, marked, ops), ReleasedOK(t)
  PROVE  ReleasedOK(t)'
<1>1. att'[t] = att[t] /\ released'[t] = released[t] /\ fm'[t] = fm[t]
  BY DEF Touches, Goes, OthersKept
<1>2. Keeps(fm[t], fm'[t])
  <2>1. fm[t] \in OrdState
    BY DEF IInv, HistOK
  <2> QED BY <1>1, <2>1 DEF Keeps, OrdState
<1> QED BY <1>1, <1>2, ReleasedKept DEF ReleasedOK, Goes

-----------------------------------------------------------------------------
(* All of the invariant.                                                   *)

\* The attachments of the other shards are left alone.
LEMMA AttKept ==
  ASSUME IInv, NEW s \in Shards, Run(s)
  PROVE  \A t \in Shards \ {s} : att'[t] = att[t]
<1>1. att \in [Shards -> [Store -> {"none", "attached", "detached"}]]
  BY DEF IInv, LocalOK
<1>2. \A flush, marked, calls, ops :
        WindowStep(s, flush, marked, calls, ops) => \A t \in Shards \ {s} : att'[t] = att[t]
  BY <1>1 DEF WindowStep
<1>3. CASE BeginCreate(s) \/ BeginImport(s) \/ Task(s)
  BY <1>2, <1>3 DEF BeginCreate, BeginImport, Task, Window
<1>4. CASE Issue(s) \/ AwaitMatch(s) \/ FreeMatched(s)
  BY <1>2, <1>4 DEF Issue, AwaitMatch, FreeMatched, Window
<1>5. CASE Bind(s) \/ Progress(s) \/ EndProcess(s) \/ Query(s)
  BY <1>5 DEF Bind, Progress, EndProcess, Query
<1>6. CASE Drop(s)
  BY <1>2, <1>6 DEF Drop, Release
<1>7. CASE Reuse(s)
  <2>1. \E flush, calls, ops : WindowStep(s, flush, {}, calls, ops)
    BY <1>7 DEF Reuse, Window
  <2> QED BY <1>2, <2>1
<1> QED BY <1>3, <1>4, <1>5, <1>6, <1>7 DEF Run

\* What the other shards have released stays so, whoever goes on.
LEMMA OthersKeepReleased ==
  ASSUME IInv, IInv', RInv, NEW s \in Shards, Goes(s), NEW t \in Shards \ {s},
         att'[t] = att[t], ReleasedOK(t)
  PROVE  ReleasedOK(t)'
<1>1. released'[t] = released[t] /\ fm'[t] = fm[t]
  BY DEF Goes, OthersKept
<1>2. Keeps(fm[t], fm'[t])
  <2>1. fm[t] \in OrdState
    BY DEF IInv, HistOK
  <2> QED BY <1>1, <2>1 DEF Keeps, OrdState
<1> QED BY <1>1, <1>2, ReleasedKept DEF ReleasedOK, Goes

\* A statement that destroys a store releases it.
LEMMA DropReleases ==
  ASSUME IInv, RInv, DInv, NEW s \in Shards, ReleasedOK(s), Drop(s)
  PROVE  ReleasedOK(s)'
<1>1. PICK st \in Menu :
        /\ st.op = "drop" /\ Starts(s, st)
        /\ released' = [released EXCEPT ![s] = @ \cup {st.store}]
        /\ Release(s, st.store, FALSE, <<DiscardOp(fm[s].alloc[st.store])>>)
  BY DEF Drop
<1> DEFINE i == st.store
           f == fm[s].alloc[i]
           x == ReleaseOp(i, f, FALSE)
           more == <<DiscardOp(f)>>
           ops == <<x>> \o more
           marked == PendingMark(s, i)
<1>2. Run(s)
  BY DEF Run
<1>3. /\ IInv' /\ RInv' /\ Goes(s) /\ ProgramOK(program')
      /\ OrdOK(fm[s], program', result') /\ fm[s].pc \in Nat
  BY <1>2, RunFacts
<1>4. /\ fm[s].ctl = "idle" /\ program'[fm[s].pc + 1] = st /\ fm[s].pc < Len(program')
      /\ fm[s].pc + 1 \in 1..Len(program')
  BY <1>1, <1>3, StartsOK, OrdFacts
<1>5. fm'[s].pc = fm[s].pc + 1
  BY <1>1, <1>2, <1>4, RunFacts, SuccShape DEF Makes
<1>6. i \in 1..fm[s].pc /\ i \in Store /\ f \in Field
  <2>1. i \in 1..((fm[s].pc + 1) - 1) /\ program'[i].op = "create"
    BY <1>1, <1>3, <1>4 DEF ProgramOK
  <2>2. i \in 1..fm[s].pc
    BY <1>3, <2>1
  <2> QED BY <1>3, <2>1, <2>2, OrdFacts DEF Makes
<1>7. released'[s] = released[s] \cup {i}
  BY <1>1 DEF IInv, LocalOK
<1>8. WindowStep(s, FALSE, marked, <<>>, ops)
  BY <1>1 DEF Release
<1>9. /\ x \in Op /\ x.op = "release" /\ x.store = i /\ more \in Seq(Op)
      /\ \A j \in 1..Len(more) : more[j].op = "discard"
  BY <1>6 DEF ReleaseOp, DiscardOp, Op
<1> HIDE DEF x, more
<1>10. /\ Submits(ops)
       /\ \A h : In(ops, "release", h) <=> h = i
  BY <1>9, ReleaseSubmitted
<1>11. marked \in SUBSET Store
  BY <1>6, MarkOK
<1> HIDE DEF ops, marked
<1>12. Touches(s, FALSE, marked, ops)
  BY <1>8, <1>10, <1>11, StepWindow
<1>13. \A h \in Store : att'[s][h] = "detached" => h \in released'[s]
  <2>1. released[s] \subseteq released'[s] /\ \A h \in Store : In(ops, "release", h) => h \in released'[s]
    BY <1>7, <1>10
  <2> QED BY <1>12, <2>1, DetachedStep
<1>14. \A h \in released[s] :
         CollectableIn(program', h) \/ \E j \in 1..fm'[s].pc : Drops(program', j, h)
  BY <1>3, ReleasedKept DEF Goes
<1>15. fm[s].pc + 1 \in 1..fm'[s].pc /\ Drops(program', fm[s].pc + 1, i)
  BY <1>1, <1>3, <1>4, <1>5 DEF Drops
<1> QED BY <1>7, <1>13, <1>14, <1>15 DEF ReleasedOK

\* A step of the thread of a shard.
LEMMA RunOInv ==
  ASSUME WindowSize = 1, IInv, RInv, DInv, OInv, NEW s \in Shards, Run(s) PROVE OInv'
<1>1. IInv' /\ OrderedMove(s) /\ Goes(s)
  BY RunFacts
<1>2. StreamOK'
  BY <1>1, RunTells, StreamStep DEF OInv
<1>3. ReleasedOK(s)'
  <2>1. ReleasedOK(s)
    BY DEF OInv
  <2>2. CASE Drop(s)
    BY <2>1, <2>2, DropReleases
  <2>3. CASE ~Drop(s)
    <3>1. /\ released' = released
          /\ \A i \in Store : att'[s][i] = "detached" => i \in released'[s]
      BY <2>1, <2>3, NothingDetached
    <3> QED BY <1>1, <2>1, <3>1, ReleasedKept DEF ReleasedOK, Goes
  <2> QED BY <2>2, <2>3
<1>4. ASSUME NEW t \in Shards \ {s} PROVE ReleasedOK(t)'
  BY <1>1, AttKept, OthersKeepReleased DEF OInv
<1> QED BY <1>2, <1>3, <1>4 DEF OInv

\* The garbage collector makes no ordered call.
LEMMA CollectOInv ==
  ASSUME WindowSize = 1, IInv, RInv, DInv, OInv, NEW s \in Shards, Collect(s) PROVE OInv'
<1>1. PICK i \in 1..fm[s].pc :
        /\ CollectableIn(program, i)
        /\ released' = [released EXCEPT ![s] = @ \cup {i}]
        /\ Release(s, i, TRUE, <<>>)
        /\ UNCHANGED <<program, result, fm, step, hist, matching, offered, progressed>>
  BY DEF Collect, Collectable, CollectableIn
<1> DEFINE f == fm[s].alloc[i]
           x == ReleaseOp(i, f, TRUE)
           ops == <<x>> \o <<>>
           marked == PendingMark(s, i)
<1>2. IInv' /\ Goes(s)
  BY CollectOK, CollectGoes
<1>3. i \in Store /\ f \in Field
  <2>1. OrdOK(fm[s], program, result) /\ ProgramOK(program)
    BY CurrentOK DEF IInv
  <2>2. Makes(program, i)
    BY <1>1 DEF CollectableIn, Makes
  <2> QED BY <2>1, <2>2, OrdFacts
<1>4. WindowStep(s, FALSE, marked, <<>>, ops)
  BY <1>1 DEF Release
<1>5. /\ x \in Op /\ x.op = "release" /\ x.store = i /\ x.unordered = TRUE
      /\ <<>> \in Seq(Op) /\ \A j \in 1..Len(<<>>) : <<>>[j].op = "discard"
  BY <1>3 DEF ReleaseOp, Op
<1> HIDE DEF x
<1>6. ops = <<x>> /\ ops \in Seq(Op)
  BY <1>5
<1>7. /\ Submits(ops)
      /\ \A h : In(ops, "release", h) <=> h = i
  BY <1>5, ReleaseSubmitted
<1>8. marked \in SUBSET Store
  BY <1>3, MarkOK
<1> HIDE DEF ops, marked
<1>9. Touches(s, FALSE, marked, ops)
  BY <1>4, <1>7, <1>8, StepWindow
<1>10. released'[s] = released[s] \cup {i}
  BY <1>1 DEF IInv, LocalOK
<1>11. ReleasedOK(s)'
  <2>1. ReleasedOK(s)
    BY DEF OInv
  <2>2. \A h \in Store : att'[s][h] = "detached" => h \in released'[s]
    <3>1. released[s] \subseteq released'[s] /\ \A h \in Store : In(ops, "release", h) => h \in released'[s]
      BY <1>7, <1>10
    <3> QED BY <1>9, <2>1, <3>1, DetachedStep
  <2> QED BY <1>1, <1>10, <2>1, <2>2 DEF ReleasedOK
<1>12. ASSUME NEW t \in Shards \ {s} PROVE ReleasedOK(t)'
  BY <1>2, <1>9, OthersReleased DEF OInv
<1>13. stream' = stream
  <2>1. stream \in [Shards -> Seq(LegionCall)] /\ stream[s] \in Seq(LegionCall)
    BY DEF OInv, StreamOK
  <2>2. <<>> \in Seq(LegionCall)
    OBVIOUS
  <2>3. TellsAll(s, <<>>, ops)
    BY <1>4, <1>6, <2>2, TellsOps
  <2>4. Calls(s, ops, ops) = <<>>
    BY <1>5, <1>6, CallsOfOne DEF OneCall, Emits
  <2>5. (stream[s] \o <<>>) \o <<>> = stream[s]
    BY <2>1
  <2> QED BY <2>1, <2>3, <2>4, <2>5 DEF TellsAll
<1>14. StreamOK'
  BY <1>1, <1>13 DEF OInv, StreamOK, Told
<1> QED BY <1>11, <1>12, <1>14 DEF OInv

\* Before the program starts nothing is released and nothing was called.
LEMMA InitOInv == Init => OInv
<1> SUFFICES ASSUME Init PROVE OInv
  OBVIOUS
<1>1. \A s \in Shards : /\ released[s] = {} /\ stream[s] = <<>> /\ step[s] = 1
                        /\ \A i \in Store : att[s][i] = "none"
  BY DEF Init
<1>2. hist = <<InitOrd>> /\ Len(hist) = 1 /\ stream \in [Shards -> Seq(LegionCall)]
  BY DEF Init
<1>3. PICK T : T = << <<>> >>
  OBVIOUS
<1>4. T \in Seq(Seq(LegionCall)) /\ Len(T) = 1 /\ T[1] = <<>>
  BY <1>3
<1>5. Told(T)
  BY <1>1, <1>2, <1>4 DEF Told, Grows
<1> QED BY <1>1, <1>2, <1>5 DEF OInv, StreamOK, ReleasedOK

\* Every step keeps the invariant.
LEMMA NextOInv ==
  WindowSize = 1 /\ IInv /\ RInv /\ DInv /\ OInv /\ [Next]_vars => OInv'
<1> SUFFICES ASSUME WindowSize = 1, IInv, RInv, DInv, OInv, [Next]_vars PROVE OInv'
  OBVIOUS
<1>1. CASE UNCHANGED vars
  <2>1. /\ program' = program /\ result' = result /\ fm' = fm /\ hist' = hist /\ step' = step
        /\ att' = att /\ released' = released /\ stream' = stream
    BY <1>1 DEF vars
  <2>2. StreamOK'
    BY <2>1 DEF OInv, StreamOK, Told
  <2>3. \A s \in Shards : ReleasedOK(s)'
    BY <2>1 DEF OInv, ReleasedOK
  <2> QED BY <2>2, <2>3 DEF OInv
<1>2. ASSUME NEW s \in Shards, Run(s) PROVE OInv'
  BY <1>2, RunOInv
<1>3. ASSUME NEW s \in Shards, Collect(s) PROVE OInv'
  BY <1>3, CollectOInv
<1>4. CASE Ended
  BY <1>1, <1>4 DEF Ended
<1> QED BY <1>1, <1>2, <1>3, <1>4 DEF Next

\* The invariant of the streams of ordered calls.
THEOREM OrderInvariance == WindowSize = 1 => (Spec => []OInv)
<1> SUFFICES ASSUME WindowSize = 1 PROVE Spec => []OInv
  OBVIOUS
<1>1. IInv /\ RInv /\ DInv /\ OInv /\ [Next]_vars => OInv'
  BY NextOInv
<1> QED BY <1>1, InitOInv, Invariance, ReuseInvariance, DetachInvariance, PTL DEF Spec

\* What a sequence has grown from is a prefix of it.
LEMMA GrownPrefix ==
  ASSUME NEW a \in Seq(LegionCall), NEW b \in Seq(LegionCall), Grows(a, b)
  PROVE  IsPrefix(a, b)
<1>1. Len(a) \in Nat /\ Len(b) \in Nat /\ Len(a) <= Len(b) /\ 1 <= Len(a) + 1
      /\ \A j \in 1..Len(a) : b[j] = a[j]
  BY DEF Grows
<1> DEFINE p == SubSeq(a, 1, Len(a))
           q == SubSeq(b, 1, Len(a))
<1>2. p = a
  BY <1>1
<1>3. /\ q \in Seq(LegionCall) /\ Len(q) = Len(a)
      /\ \A j \in 1..Len(a) : q[j] = b[j]
  BY <1>1
<1> HIDE DEF p, q
<1>4. p = q
  BY <1>1, <1>2, <1>3
<1> QED BY <1>1, <1>4 DEF IsPrefix, p, q

\* When the window has room for one operation, every shard makes the same ordered
\* calls to Legion in the same order: whatever the garbage collectors do, only
\* unordered calls depend on it.
THEOREM SameOrder == WindowSize = 1 => (Spec => []ControlDeterminism)
<1> SUFFICES ASSUME WindowSize = 1 PROVE Spec => []ControlDeterminism
  OBVIOUS
<1>1. IInv /\ OInv => ControlDeterminism
  <2> SUFFICES ASSUME IInv, OInv, NEW s \in Shards, NEW t \in Shards
               PROVE  IsPrefix(stream[s], stream[t]) \/ IsPrefix(stream[t], stream[s])
    BY DEF ControlDeterminism
  <2>1. PICK T : Told(T)
    BY DEF OInv, StreamOK
  <2>2. /\ step[s] \in 1..Len(hist) /\ step[t] \in 1..Len(hist)
        /\ step[s] \in Nat /\ step[t] \in Nat
    BY DEF IInv, HistOK
  <2>3. Grows(stream[s], stream[t]) \/ Grows(stream[t], stream[s])
    <3>1. step[s] <= step[t] \/ step[t] <= step[s]
      BY <2>2
    <3> QED BY <2>1, <2>2, <3>1 DEF Told
  <2>4. stream[s] \in Seq(LegionCall) /\ stream[t] \in Seq(LegionCall)
    BY DEF OInv, StreamOK
  <2> QED BY <2>3, <2>4, GrownPrefix
<1>2. Spec => []OInv
  BY OrderInvariance
<1> QED BY <1>1, <1>2, Invariance, PTL
=============================================================================
