----------------------- MODULE StreamingChecksProofs -----------------------
(***************************************************************************)
(* What the check of a prefix finds is what is launched: index tasks of a   *)
(* generation access a store through one partition (PointwiseStores), none  *)
(* follows a reduction of another (ReductionsLast), the partitions that     *)
(* were checked are the ones the tasks get (CheckedIsLaunched), and a       *)
(* generation has as many tasks as the mapper waits for                     *)
(* (GenerationComplete), for any fields, tasks, policies and window size.   *)
(*                                                                          *)
(* The argument: any two operations of a prefix that access one store agree *)
(* on its partition (Agree), which follows from the last accesses that the  *)
(* check keeps (LastOK).  Launching one of them sets the key partition of   *)
(* that store to the one that the other was checked with, so the other      *)
(* finds it again (StrategyKept).  For this all of them need to have one    *)
(* policy, which holds since a scope flushes the window before the policy   *)
(* changes (PolicyWaits).  So what is launched is followed by what was      *)
(* checked with it (FollowOK).                                              *)
(*                                                                          *)
(* The check also finds one launch domain for all of a prefix (DomainOK).   *)
(* So the tasks of a generation, the launched ones and those that are left  *)
(* of the prefix, are all index tasks or all single ones, and as many as    *)
(* each of them says (Group): the mapper gets all that it waits for.        *)
(*                                                                          *)
(* What is launched also reads what program order says (ReadsSurvive): what *)
(* waits is a line, the prefix and whatever interrupts it in front of the   *)
(* window (Line), and whoever reads a store finds who wrote it last in      *)
(* front of it, or launched with nobody in between (Finds).  A discard that *)
(* is moved goes past no task that uses the store (Aside).                  *)
(*                                                                          *)
(* The partition of an unbound store is what the task makes of it.  The     *)
(* check has a placeholder for it, which agrees with no partition           *)
(* (PartitionOf), so who uses the store is not checked with its maker.  The *)
(* theorems about partitions assume that no unbound store has volume 1.     *)
(***************************************************************************)
EXTENDS StreamingWindowProofs

\* Operations that partition stores
Strategic(op) == op.kind \in {"auto", "manual", "copy", "fill"}

\* An operation has what it accesses, and how, from one that the program submits.
Stems(op) ==
  Strategic(op) => \E t \in Tasks : /\ op.kind = t.kind /\ op.in = t.in /\ op.out = t.out /\ op.red = t.red
                                    /\ op.ld = t.ld /\ op.part = t.part

\* One that has not been checked yet
Unchecked(op) == op.checked = NoStrategy /\ Stems(op)

\* Operations o, then p, with the strategies s and t agree on the stores they share.
Agree(o, s, p, t) ==
  s # NoStrategy /\ t # NoStrategy =>
    \A f \in Touched(o) \cap Touched(p) : Storage(o, f) = Storage(p, f) =>
      \/ f \notin o.red /\ SamePart(s.part[f], t.part[f])
      \/ f \in Scalars /\ t.ld = "one"

\* What is left of a prefix that was found streamable
PrefixAgrees(ops) ==
  /\ \A i \in DOMAIN ops : Stems(ops[i])
  /\ \A i, j \in DOMAIN ops : i < j => Agree(ops[i], ops[i].checked, ops[j], ops[j].checked)

AgreeOK ==
  /\ \A i \in DOMAIN window : Unchecked(window[i])
  /\ \A i \in DOMAIN stack : (stack[i].c = "submit" => Unchecked(stack[i].op)) /\ PrefixAgrees(stack[i].ops)

\* No operation in w partitions stores.
Clear(w) == \A k \in DOMAIN w : ~Strategic(w[k])

\* Item x launches what partitions stores in w.
Covers(x, w) == \/ x.c \in {"flush", "stream"}
                \/ x.c = "run" /\ \A k \in DOMAIN w : k > x.n => ~Strategic(w[k])

\* The item that changes the policy leaves the factor as it is.
Stays(x) == /\ x.c = "enter" => x.pol.od = Policy.od
            /\ x.c = "leave" => scopes[Len(scopes) - 1].od = Policy.od

PolicyWaits ==
  \A i \in DOMAIN stack : stack[i].c \in {"enter", "leave"} =>
     \/ Clear(window)
     \/ \E j \in 1..(i - 1) : Covers(stack[j], window)
     \/ Len(stack) = 1 /\ Stays(stack[i])

OnePolicy ==
  /\ \A i \in DOMAIN window : Strategic(window[i]) => window[i].od = Policy.od
  /\ \A i \in DOMAIN stack : \A k \in DOMAIN stack[i].ops : Strategic(stack[i].ops[k]) => stack[i].ops[k].od = Policy.od
  /\ \A i \in DOMAIN stack : stack[i].c = "submit" /\ Strategic(stack[i].op)
       => Len(stack) = 1 /\ stack[i].op.od = Policy.od
  /\ \A i \in DOMAIN stack : stack[i].c = "run" => stack[i].n \in Nat
  /\ PolicyWaits

\* A store of volume 1 is partitioned into one piece or not at all.
ScalarsWhole ==
  \A t \in Tasks : t.kind = "manual" => \A f \in Touched(t) \cap Scalars : t.part[f] \in {"whole", "single"}

KeysOK == \A x \in DOMAIN key : x[1] \in Scalars /\ key[x] # NoKey => key[x].part = "single"

\* What is left of the prefix x was checked for the partitions that it gets.
ItemChecked(x, keys) ==
  \A k \in DOMAIN x.ops :
    /\ x.ops[k].checked = Strategy(x.ops[k], keys)
    /\ Strategic(x.ops[k]) => x.ops[k].checked # NoStrategy

CheckedOK ==
  /\ KeysOK
  /\ \A i \in DOMAIN stack : ItemChecked(stack[i], key)
  /\ CheckedIsLaunched

\* Operation p may follow what was launched as e.
Follows(e, p) ==
  \A a \in e.access : \A f \in Touched(p) : a.field = f /\ a.life = p.life[f] =>
    \/ a.mode # "REDUCE" /\ SamePart(a.part, p.checked.part[f])
    \/ f \in Scalars /\ p.checked.ld = "one"

\* So may what was launched as d.
Streamed(e, d) ==
  e.form = "index" /\ d.form = "index" =>
    \A a \in e.access, b \in d.access : a.field = b.field /\ a.life = b.life =>
      a.mode # "REDUCE" /\ SamePart(a.part, b.part)

\* What was launched of the current generation comes before what is left of it.
FollowOK ==
  /\ \A i \in DOMAIN log : log[i].gen # 0 /\ log[i].gen = gens =>
       \A j \in DOMAIN stack : \A k \in DOMAIN stack[j].ops : stack[j].ops[k].gen # 0 => Follows(log[i], stack[j].ops[k])
  /\ \A i, j \in DOMAIN log : i < j /\ log[i].gen # 0 /\ log[i].gen = log[j].gen => Streamed(log[i], log[j])

-----------------------------------------------------------------------------
(* Which partition an operation takes *)

\* An operation that is partitioned automatically has one partition.
LEMMA PartitionIs ==
  ASSUME NEW op, NEW keys
  PROVE  PartitionStores(op, keys) = [ld   |-> LaunchedBy(How(op, keys)),
                                      part |-> [f \in Touched(op) |-> PartitionOf(op, How(op, keys), f)]]
BY DEF PartitionStores

\* All its stores get it, but those that it makes.
LEMMA PartitionParts ==
  ASSUME NEW op, NEW keys
  PROVE  /\ PartitionStores(op, keys).ld = LaunchedBy(How(op, keys))
         /\ \A f \in Aligned(op) : PartitionStores(op, keys).part[f] = How(op, keys)
         /\ PartitionStores(op, keys) # NoStrategy
PROOF
<1> DEFINE s == PartitionStores(op, keys)
           h == How(op, keys)
<1>1. s = [ld |-> LaunchedBy(h), part |-> [f \in Touched(op) |-> PartitionOf(op, h, f)]]
  BY PartitionIs
<1> HIDE DEF s, h
<1>2. s.ld = LaunchedBy(h) /\ \A f \in Touched(op) : s.part[f] = PartitionOf(op, h, f)
  BY <1>1
<1>3. \A f \in Aligned(op) : f \in Touched(op) /\ PartitionOf(op, h, f) = h
  BY DEF Aligned, PartitionOf
<1>4. LaunchedBy(h) # "unset"
  BY DEF LaunchedBy
<1>5. s # NoStrategy
  BY <1>2, <1>4 DEF NoStrategy
<1> QED BY <1>2, <1>3, <1>5 DEF s, h

\* Every store has a place of its own among the arguments.
LEMMA PositionIs ==
  /\ Cardinality(Fields) \in Nat /\ Position \in [Fields -> 1..Cardinality(Fields)]
  /\ \A f, g \in Fields : Position[f] = Position[g] => f = g
PROOF
<1> DEFINE n == Cardinality(Fields)
           Apart(p) == \A f, g \in Fields : p[f] = p[g] => f = g
<1>1. IsFiniteSet(Fields)
  BY WindowAssumption
<1>2. n \in Nat /\ ExistsBijection(1..n, Fields)
  BY <1>1, FS_CardinalityType
<1> HIDE DEF n
<1>3. PICK b \in [1..n -> Fields] : \A f \in Fields : \E i \in 1..n : b[i] = f
  BY <1>2 DEF ExistsBijection, Bijection, Surjection
<1> DEFINE p == [f \in Fields |-> CHOOSE i \in 1..n : b[i] = f]
<1>4. \A f \in Fields : p[f] \in 1..n /\ b[p[f]] = f
  BY <1>3
<1>5. p \in [Fields -> 1..n]
  <2>1. p = [f \in Fields |-> p[f]]
    OBVIOUS
  <2> HIDE DEF p
  <2> QED BY <1>4, <2>1
<1>6. Apart(p)
  BY <1>4
<1> HIDE DEF p
<1>7. \E q \in [Fields -> 1..n] : Apart(q)
  BY <1>5, <1>6
<1>8. Position = CHOOSE q \in [Fields -> 1..n] : Apart(q)
  BY DEF Position, n
<1> HIDE DEF Apart
<1>9. Position \in [Fields -> 1..n] /\ Apart(Position)
  BY <1>7, <1>8
<1> QED BY <1>2, <1>9 DEF n, Apart

\* Exactly one store comes first.
LEMMA FirstOf ==
  ASSUME NEW op, NEW S \in SUBSET Fields, S # {}
  PROVE  /\ \E f \in S : \A g \in S : SortedBefore(op, f, g)
         /\ \A f, h \in S : SortedBefore(op, f, h) /\ SortedBefore(op, h, f) => f = h
PROOF
<1> DEFINE n == Cardinality(Fields)
           rank(f) == IF AccessMode(op, f) = 2 THEN Position[f]
                      ELSE IF AccessMode(op, f) = 1 THEN n + Position[f] ELSE n + n + Position[f]
           R == {rank(f) : f \in S}
<1>1. n \in Nat /\ \A f \in Fields : Position[f] \in 1..n
  BY PositionIs
<1>2. \A f, g \in Fields : Position[f] = Position[g] => f = g
  BY PositionIs
<1>3. \A f : AccessMode(op, f) \in {0, 1, 2}
  BY DEF AccessMode
<1> HIDE DEF n
<1>4. \A f \in S : rank(f) \in Nat
  BY <1>1
<1>5. \A f, g \in S : rank(f) <= rank(g) => SortedBefore(op, f, g)
  <2> TAKE f, g \in S
  <2> HAVE rank(f) <= rank(g)
  <2> DEFINE a == AccessMode(op, f)
             b == AccessMode(op, g)
  <2>1. Position[f] \in 1..n /\ Position[g] \in 1..n /\ a \in {0, 1, 2} /\ b \in {0, 1, 2}
    BY <1>1, <1>3
  <2>2. /\ rank(f) = IF a = 2 THEN Position[f] ELSE IF a = 1 THEN n + Position[f] ELSE n + n + Position[f]
        /\ rank(g) = IF b = 2 THEN Position[g] ELSE IF b = 1 THEN n + Position[g] ELSE n + n + Position[g]
    OBVIOUS
  <2>3. a > b \/ (a = b /\ Position[f] <= Position[g])
    <3> HIDE DEF a, b
    <3> DEFINE u == rank(f)
               v == rank(g)
               p == Position[f]
               q == Position[g]
    <3>1. u <= v
      OBVIOUS
    <3>2. /\ u = IF a = 2 THEN p ELSE IF a = 1 THEN n + p ELSE n + n + p
          /\ v = IF b = 2 THEN q ELSE IF b = 1 THEN n + q ELSE n + n + q
      BY <2>2
    <3>3. p \in 1..n /\ q \in 1..n
      BY <2>1
    <3> HIDE DEF u, v, p, q
    <3>4. a > b \/ (a = b /\ p <= q)
      BY <1>1, <2>1, <3>1, <3>2, <3>3
    <3> QED BY <3>4 DEF p, q
  <2> QED BY <2>3 DEF SortedBefore
<1>6. \E f \in S : \A g \in S : rank(f) <= rank(g)
  <2>1. R \in SUBSET Nat /\ R # {}
    BY <1>4
  <2>2. PICK r \in R : \A y \in R : r <= y
    <3> HIDE DEF R
    <3> QED BY <2>1, Least
  <2> QED BY <2>2
<1>7. \E f \in S : \A g \in S : SortedBefore(op, f, g)
  BY <1>5, <1>6
<1>8. ASSUME NEW f \in S, NEW h \in S, SortedBefore(op, f, h), SortedBefore(op, h, f) PROVE f = h
  <2>1. AccessMode(op, f) \in {0, 1, 2} /\ AccessMode(op, h) \in {0, 1, 2} /\ Position[f] \in Nat /\ Position[h] \in Nat
    BY <1>1, <1>3
  <2>2. AccessMode(op, f) = AccessMode(op, h) /\ Position[f] <= Position[h] /\ Position[h] <= Position[f]
    BY <1>8, <2>1 DEF SortedBefore
  <2> QED BY <1>2, <2>1, <2>2
<1> QED BY <1>7, <1>8

\* So that the key partition an operation takes is determined.
LEMMA KeyFieldIs ==
  ASSUME NEW op, Touched(op) \subseteq Fields, NEW keys, Keyed(op, keys) # {}
  PROVE  /\ KeyField(op, keys) \in Keyed(op, keys)
         /\ \A g \in Keyed(op, keys) : SortedBefore(op, KeyField(op, keys), g)
         /\ \A f \in Keyed(op, keys) : (\A g \in Keyed(op, keys) : SortedBefore(op, f, g)) => f = KeyField(op, keys)
PROOF
<1> DEFINE S == Keyed(op, keys)
           k == KeyField(op, keys)
<1>1. S \in SUBSET Fields /\ S # {}
  BY DEF Keyed, Aligned
<1>2. k = CHOOSE f \in S : \A g \in S : SortedBefore(op, f, g)
  BY DEF KeyField
<1> HIDE DEF S, k
<1>3. \E f \in S : \A g \in S : SortedBefore(op, f, g)
  BY <1>1, FirstOf
<1>4. k \in S /\ \A g \in S : SortedBefore(op, k, g)
  BY <1>2, <1>3
<1>5. \A f \in S : (\A g \in S : SortedBefore(op, f, g)) => f = k
  BY <1>1, <1>4, FirstOf
<1> QED BY <1>4, <1>5 DEF S, k

-----------------------------------------------------------------------------
(* Strategies that stay *)

\* The same accesses under the same policy
Alike(o, op) == /\ o.kind = op.kind /\ o.in = op.in /\ o.out = op.out /\ o.red = op.red /\ o.ld = op.ld
                /\ o.part = op.part /\ o.life = op.life /\ o.od = op.od

\* What an operation stems from
LEMMA StemIs ==
  ASSUME NEW op, Stems(op), Strategic(op)
  PROVE  /\ Touched(op) \subseteq Fields
         /\ op.kind # "manual" => Touched(op) \cap Scalars \in {{}, Touched(op)}
         /\ op.kind = "manual" => op.ld \in {"one", "index"}
         /\ ScalarsWhole => (op.kind = "manual" => \A f \in Touched(op) \cap Scalars : op.part[f] \in {"whole", "single"})
PROOF
<1>1. PICK t \in Tasks : /\ op.kind = t.kind /\ op.in = t.in /\ op.out = t.out /\ op.red = t.red
                         /\ op.ld = t.ld /\ op.part = t.part
  BY DEF Stems
<1>2. Touched(op) = Touched(t)
  BY <1>1 DEF Touched
<1> QED BY <1>1, <1>2, TasksAssumption DEF ScalarsWhole

\* The same strategy from another key partition
LEMMA SameHow ==
  ASSUME NEW op, NEW o, NEW keys, NEW ks, Touched(o) = Touched(op), Made(o) = Made(op), How(o, ks) = How(op, keys)
  PROVE  PartitionStores(o, ks) = PartitionStores(op, keys)
PROOF
<1> DEFINE h == How(op, keys)
<1>1. \A f : PartitionOf(o, h, f) = PartitionOf(op, h, f)
  BY DEF PartitionOf
<1>2. PartitionStores(o, ks) = [ld |-> LaunchedBy(h), part |-> [f \in Touched(op) |-> PartitionOf(o, h, f)]]
  BY PartitionIs
<1>3. PartitionStores(op, keys) = [ld |-> LaunchedBy(h), part |-> [f \in Touched(op) |-> PartitionOf(op, h, f)]]
  BY PartitionIs
<1> HIDE DEF h
<1> QED BY <1>1, <1>2, <1>3

\* What is alike is partitioned alike.
LEMMA StrategyAlike ==
  ASSUME NEW o, NEW op, Alike(o, op), Stems(op), NEW keys
  PROVE  /\ Strategy(o, keys) = Strategy(op, keys) /\ Touched(o) = Touched(op) /\ Stems(o)
         /\ (Strategic(o) <=> Strategic(op)) /\ (IsTask(o) <=> IsTask(op))
         /\ \A f : Storage(o, f) = Storage(op, f)
PROOF
<1>1. /\ Touched(o) = Touched(op) /\ (Strategic(o) <=> Strategic(op)) /\ (IsTask(o) <=> IsTask(op))
      /\ \A f : Storage(o, f) = Storage(op, f)
  BY DEF Alike, Touched, Strategic, IsTask, Storage
<1>0. Made(o) = Made(op) /\ Aligned(o) = Aligned(op)
  BY <1>1 DEF Made, Aligned, Alike
<1>2. Stems(o)
  BY DEF Stems, Alike, Strategic
<1>3. CASE op.kind \in {"auto", "copy", "fill"}
  <2>1. Touched(op) \subseteq Fields
    BY <1>3, StemIs DEF Strategic
  <2>2. Keyed(o, keys) = Keyed(op, keys)
    BY <1>0, <1>1 DEF Keyed, Alike
  <2>3. \A f, g : SortedBefore(o, f, g) <=> SortedBefore(op, f, g)
    BY DEF SortedBefore, AccessMode, Alike
  <2>4. CASE Keyed(op, keys) = {}
    <3>1. How(o, keys) = How(op, keys)
      BY <1>0, <2>2, <2>4 DEF How, Alike
    <3>2. PartitionStores(o, keys) = PartitionStores(op, keys)
      BY <1>0, <1>1, <3>1, SameHow
    <3>3. Strategy(o, keys) = Strategy(op, keys)
      BY <1>3, <3>2 DEF Strategy, Alike
    <3> QED BY <1>1, <1>2, <3>3
  <2>5. CASE Keyed(op, keys) # {}
    <3>1. KeyField(o, keys) \in Keyed(op, keys) /\ \A g \in Keyed(op, keys) : SortedBefore(op, KeyField(o, keys), g)
      BY <1>1, <2>1, <2>2, <2>3, <2>5, KeyFieldIs
    <3>2. KeyField(o, keys) = KeyField(op, keys)
      BY <2>1, <2>5, <3>1, KeyFieldIs
    <3>3. How(o, keys) = How(op, keys)
      BY <1>1, <2>2, <2>5, <3>2 DEF How
    <3>4. PartitionStores(o, keys) = PartitionStores(op, keys)
      BY <1>0, <1>1, <3>3, SameHow
    <3>5. Strategy(o, keys) = Strategy(op, keys)
      BY <1>3, <3>4 DEF Strategy, Alike
    <3> QED BY <1>1, <1>2, <3>5
  <2> QED BY <2>4, <2>5
<1>4. CASE op.kind = "manual"
  <2>1. Strategy(o, keys) = Strategy(op, keys)
    BY <1>4 DEF Strategy, Alike
  <2> QED BY <1>1, <1>2, <2>1
<1>5. CASE op.kind \notin {"auto", "copy", "fill", "manual"}
  <2>1. Strategy(o, keys) = Strategy(op, keys)
    BY <1>5 DEF Strategy, Alike
  <2> QED BY <1>1, <1>2, <2>1
<1> QED BY <1>3, <1>4, <1>5

\* Who has a strategy
LEMMA WhoPartitions ==
  ASSUME NEW op, NEW keys
  PROVE  /\ Strategy(op, keys) # NoStrategy => Strategic(op)
         /\ IsTask(op) => Strategic(op)
         /\ op.kind = "manual" => Strategy(op, keys) = [ld |-> op.ld, part |-> op.part]
         /\ op.kind \in {"auto", "copy", "fill"} => Strategy(op, keys) = PartitionStores(op, keys)
                                                     /\ Strategy(op, keys) # NoStrategy
         /\ Stems(op) /\ Strategic(op) => Strategy(op, keys) # NoStrategy
PROOF
<1>1. op.kind = "manual" => Strategy(op, keys) = [ld |-> op.ld, part |-> op.part]
  BY DEF Strategy
<1>2. op.kind \in {"auto", "copy", "fill"} => Strategy(op, keys) = PartitionStores(op, keys)
  BY DEF Strategy
<1>3. op.kind \in {"auto", "copy", "fill"} => Strategy(op, keys) # NoStrategy
  BY <1>2, PartitionParts
<1>4. ~Strategic(op) => Strategy(op, keys) = NoStrategy
  BY DEF Strategy, Strategic
<1>5. Stems(op) /\ op.kind = "manual" => Strategy(op, keys) # NoStrategy
  BY <1>1, StemIs DEF Strategic, NoStrategy
<1> QED BY <1>1, <1>2, <1>3, <1>4, <1>5 DEF Strategic, IsTask

\* Key partitions that were set in between, to what the operation was checked with, change
\* nothing for it.
LEMMA StrategyKept ==
  ASSUME NEW p, Stems(p), NEW keys, NEW ks, DOMAIN ks = DOMAIN keys,
         \A f \in Touched(p) : Strategic(p) /\ Storage(p, f) \in DOMAIN keys /\ ks[Storage(p, f)] # keys[Storage(p, f)] =>
            /\ ks[Storage(p, f)] # NoKey /\ p.od \in {ks[Storage(p, f)].od, 1}
            /\ ks[Storage(p, f)].part = Strategy(p, keys).part[f]
            /\ ks[Storage(p, f)].part # "whole"
  PROVE  Strategy(p, ks) = Strategy(p, keys)
PROOF
<1>1. CASE p.kind \in {"auto", "copy", "fill"}
  <2> DEFINE S == Keyed(p, keys)
             T == Keyed(p, ks)
             how == How(p, keys)
             C == {f \in Aligned(p) : Storage(p, f) \in DOMAIN keys /\ ks[Storage(p, f)] # keys[Storage(p, f)]}
  <2>1. Touched(p) \subseteq Fields /\ Strategic(p)
    BY <1>1, StemIs DEF Strategic
  <2>2. Strategy(p, keys) = PartitionStores(p, keys) /\ Strategy(p, ks) = PartitionStores(p, ks)
    BY <1>1, WhoPartitions
  <2>3. \A f \in Aligned(p) : f \in Touched(p) /\ Strategy(p, keys).part[f] = how
    BY <2>2, PartitionParts DEF Aligned
  <2>4. \A f \in C : /\ f \in T /\ ks[Storage(p, f)].part = how /\ how # "whole"
    BY <2>1, <2>3 DEF Keyed
  <2>5. \A f \in Aligned(p) : f \notin C => (f \in S <=> f \in T) /\ (f \in S => ks[Storage(p, f)] = keys[Storage(p, f)])
    BY DEF Keyed
  <2>6. S \subseteq Aligned(p) /\ T \subseteq Aligned(p)
    BY DEF Keyed
  <2>7. S \subseteq T
    BY <2>4, <2>5, <2>6
  <2>8. CASE T = {}
    <3>1. S = {}
      BY <2>7, <2>8
    <3>2. How(p, ks) = how
      BY <2>8, <3>1 DEF How
    <3> QED BY <2>2, <3>2, SameHow
  <2>9. CASE T # {}
    <3> DEFINE k == KeyField(p, ks)
    <3>1. k \in T /\ \A g \in T : SortedBefore(p, k, g)
      BY <2>1, <2>9, KeyFieldIs
    <3>2. How(p, ks) = ks[Storage(p, k)].part
      BY <2>9 DEF How
    <3>3. CASE k \in C
      <4>1. How(p, ks) = how
        BY <2>4, <3>2, <3>3
      <4> QED BY <2>2, <4>1, SameHow
    <3>4. CASE k \notin C
      <4> HIDE DEF S, T, C, k
      <4>1. k \in S /\ ks[Storage(p, k)] = keys[Storage(p, k)]
        BY <2>5, <2>6, <3>1, <3>4
      <4>2. \A g \in S : SortedBefore(p, k, g)
        BY <2>7, <3>1
      <4>3. S # {}
        BY <4>1
      <4>4. k = KeyField(p, keys)
        BY <2>1, <4>1, <4>2, <4>3, KeyFieldIs DEF S
      <4>5. how = keys[Storage(p, k)].part
        BY <4>3, <4>4 DEF How, S
      <4>6. How(p, ks) = how
        BY <3>2, <4>1, <4>5
      <4> QED BY <2>2, <4>6, SameHow
    <3> QED BY <3>3, <3>4
  <2> QED BY <2>8, <2>9
<1>2. CASE p.kind \notin {"auto", "copy", "fill"}
  BY <1>2 DEF Strategy
<1> QED BY <1>1, <1>2

-----------------------------------------------------------------------------
(* What the check of a prefix finds *)

\* Induction
LEMMA EveryNumber ==
  ASSUME NEW S \in SUBSET Nat, 0 \in S, \A n \in S : n + 1 \in S
  PROVE  S = Nat
PROOF
<1> DEFINE T == Nat \ S
<1>1. SUFFICES ASSUME T # {} PROVE FALSE
  OBVIOUS
<1>2. PICK x \in T : \A y \in T : x <= y
  <2>1. T \in SUBSET Nat
    OBVIOUS
  <2> HIDE DEF T
  <2> QED BY <1>1, <2>1, Least
<1>3. x \in Nat /\ x # 0 /\ x - 1 \in Nat /\ ~(x <= x - 1) /\ (x - 1) + 1 = x
  BY <1>2
<1> QED BY <1>2, <1>3

\* The storages that the operations of w access
Stored(w) == UNION {{Storage(w[i], f) : f \in Touched(w[i])} : i \in DOMAIN w}
StartOf(w) == [ok |-> TRUE, ld |-> "unset", last |-> [x \in Stored(w) |-> NoAccess]]
ChecksBy(w, m, c) == c = [n \in 0..m |-> IF n = 0 THEN StartOf(w) ELSE CheckOp(c[n - 1], w[n])]

\* Each of them
LEMMA StoredIs ==
  ASSUME NEW w PROVE \A i \in DOMAIN w : \A f \in Touched(w[i]) : Storage(w[i], f) \in Stored(w)
PROOF
<1> TAKE i \in DOMAIN w
<1> TAKE f \in Touched(w[i])
<1> DEFINE of(j) == {Storage(w[j], g) : g \in Touched(w[j])}
<1>1. Storage(w[i], f) \in of(i)
  OBVIOUS
<1>2. Stored(w) = UNION {of(j) : j \in DOMAIN w}
  BY DEF Stored
<1> HIDE DEF of
<1> QED BY <1>1, <1>2

\* There are such checks.
LEMMA ChecksExist ==
  ASSUME NEW w, NEW m \in Nat PROVE \E c : ChecksBy(w, m, c)
PROOF
<1> DEFINE S == {n \in Nat : \E c : ChecksBy(w, n, c)}
<1>1. 0 \in S
  <2> DEFINE f == [n \in 0..0 |-> StartOf(w)]
  <2>1. f = [n \in 0..0 |-> IF n = 0 THEN StartOf(w) ELSE CheckOp(f[n - 1], w[n])]
    OBVIOUS
  <2> HIDE DEF f
  <2>2. ChecksBy(w, 0, f)
    BY <2>1 DEF ChecksBy
  <2> QED BY <2>2
<1>2. ASSUME NEW n \in S PROVE n + 1 \in S
  <2>1. n \in Nat
    OBVIOUS
  <2>2. PICK f : ChecksBy(w, n, f)
    BY <1>2
  <2> DEFINE e == [k \in 0..(n + 1) |-> IF k = n + 1 THEN CheckOp(f[n], w[n + 1]) ELSE f[k]]
  <2>3. \A k \in 0..n : f[k] = IF k = 0 THEN StartOf(w) ELSE CheckOp(f[k - 1], w[k])
    BY <2>2 DEF ChecksBy
  <2>4. ASSUME NEW k \in 0..(n + 1)
        PROVE  e[k] = IF k = 0 THEN StartOf(w) ELSE CheckOp(e[k - 1], w[k])
    <3>1. CASE k = n + 1
      <4>1. k # 0 /\ k - 1 = n /\ n \in 0..(n + 1) /\ n # n + 1
        BY <2>1, <3>1
      <4>2. e[k - 1] = f[n] /\ e[k] = CheckOp(f[n], w[n + 1])
        BY <3>1, <4>1
      <4> QED BY <3>1, <4>1, <4>2
    <3>2. CASE k # n + 1
      <4>1. k \in 0..n /\ (k # 0 => k - 1 \in 0..(n + 1) /\ k - 1 # n + 1)
        BY <2>1, <3>2
      <4>2. e[k] = f[k] /\ (k # 0 => e[k - 1] = f[k - 1])
        BY <3>2, <4>1
      <4> QED BY <2>3, <4>1, <4>2
    <3> QED BY <3>1, <3>2
  <2>5. e = [k \in 0..(n + 1) |-> e[k]]
    OBVIOUS
  <2> HIDE DEF e
  <2>6. e = [k \in 0..(n + 1) |-> IF k = 0 THEN StartOf(w) ELSE CheckOp(e[k - 1], w[k])]
    BY <2>4, <2>5, Zenon
  <2>7. ChecksBy(w, n + 1, e)
    BY <2>6 DEF ChecksBy
  <2> QED BY <2>1, <2>7
<1>3. S = Nat
  <2>1. S \in SUBSET Nat
    OBVIOUS
  <2> HIDE DEF S
  <2> QED BY <1>1, <1>2, <2>1, EveryNumber
<1> QED BY <1>3

\* So the checks of a window are those.
LEMMA ChecksAre ==
  ASSUME NEW w, Len(w) \in Nat
  PROVE  /\ PrefixChecks(w)[0] = StartOf(w)
         /\ \A n \in 1..Len(w) : PrefixChecks(w)[n] = CheckOp(PrefixChecks(w)[n - 1], w[n])
PROOF
<1> DEFINE m == Len(w)
<1>1. \E c : ChecksBy(w, m, c)
  BY ChecksExist
<1>2. ChecksBy(w, m, CHOOSE c : ChecksBy(w, m, c))
  BY <1>1, Zenon
<1>3. PrefixChecks(w) = CHOOSE c : ChecksBy(w, m, c)
  BY Zenon DEF PrefixChecks, ChecksBy, StartOf, Stored
<1> DEFINE c == PrefixChecks(w)
<1>4. c = [n \in 0..m |-> IF n = 0 THEN StartOf(w) ELSE CheckOp(c[n - 1], w[n])]
  BY <1>2, <1>3 DEF ChecksBy
<1> HIDE DEF c
<1>5. \A n \in 0..m : c[n] = IF n = 0 THEN StartOf(w) ELSE CheckOp(c[n - 1], w[n])
  BY <1>4, Zenon
<1>6. 0 \in 0..m /\ \A n \in 1..m : n \in 0..m /\ n # 0
  OBVIOUS
<1>7. c[0] = StartOf(w) /\ \A n \in 1..m : c[n] = CheckOp(c[n - 1], w[n])
  BY <1>5, <1>6
<1> QED BY <1>7 DEF c

\* An operation accesses the storage x.
Meets(op, x) == x[1] \in Touched(op) /\ x = Storage(op, x[1])

\* One step of the check: it compares an access with the last one to the storage, and keeps
\* a reduction.
LEMMA StepCompares ==
  ASSUME NEW last, NEW op, NEW s, DependencyStep(last, op, s).ok,
         \A f \in Touched(op) : Storage(op, f) \in DOMAIN last
  PROVE  /\ DOMAIN DependencyStep(last, op, s).last = DOMAIN last
         /\ \A f \in Touched(op) : OutOk(last[Storage(op, f)], s.part[f]) \/ (f \in Scalars /\ s.ld = "one")
         /\ \A x \in DOMAIN last : ~Meets(op, x) => DependencyStep(last, op, s).last[x] = last[x]
         /\ \A x \in DOMAIN last : Meets(op, x) =>
              /\ DependencyStep(last, op, s).last[x].mode # "none"
              /\ DependencyStep(last, op, s).last[x].mode \in {"READ", "WRITE"} =>
                   /\ x[1] \notin op.red /\ DependencyStep(last, op, s).last[x].part = s.part[x[1]]
                   /\ OutOk(last[x], s.part[x[1]])
PROOF
<1> DEFINE X == DOMAIN last
           l1 == Recorded(last, op, s, op.in, "READ")
           l2 == Recorded(l1, op, s, op.out, "WRITE")
           l3 == Recorded(l2, op, s, op.red, "REDUCE")
<1>1. /\ DependencyStep(last, op, s).last = l3
      /\ \A f \in op.in : InOk(last[Storage(op, f)], s.part[f], f, s.ld)
      /\ \A f \in op.out : OutOk(l1[Storage(op, f)], s.part[f])
      /\ \A f \in op.red : OutOk(l2[Storage(op, f)], s.part[f])
  BY DEF DependencyStep
<1>2. \A f : Storage(op, f)[1] = f
  BY DEF Storage
<1>3. \A l, mode, set, x :
        /\ DOMAIN Recorded(l, op, s, set, mode) = DOMAIN l
        /\ x \in DOMAIN l =>
             /\ ~(x[1] \in set /\ x = Storage(op, x[1])) => Recorded(l, op, s, set, mode)[x] = l[x]
             /\ x[1] \in set /\ x = Storage(op, x[1]) =>
                  Recorded(l, op, s, set, mode)[x] = IF mode = "READ" /\ l[x].mode = "REDUCE" THEN l[x]
                                                     ELSE [mode |-> mode, part |-> s.part[x[1]]]
  BY <1>2 DEF Recorded
<1> HIDE DEF l1, l2, l3
<1>4. DOMAIN l1 = X /\ DOMAIN l2 = X /\ DOMAIN l3 = X
  BY <1>3 DEF l1, l2, l3
<1> DEFINE hit(x, set) == x[1] \in set /\ x = Storage(op, x[1])
<1>5. \A x \in X :
        /\ l1[x] = IF hit(x, op.in) /\ last[x].mode # "REDUCE" THEN [mode |-> "READ", part |-> s.part[x[1]]] ELSE last[x]
        /\ l2[x] = IF hit(x, op.out) THEN [mode |-> "WRITE", part |-> s.part[x[1]]] ELSE l1[x]
        /\ l3[x] = IF hit(x, op.red) THEN [mode |-> "REDUCE", part |-> s.part[x[1]]] ELSE l2[x]
  <2> TAKE x \in X
  <2>1. l1[x] = IF hit(x, op.in) /\ last[x].mode # "REDUCE" THEN [mode |-> "READ", part |-> s.part[x[1]]] ELSE last[x]
    BY <1>3 DEF l1
  <2>2. l2[x] = IF hit(x, op.out) THEN [mode |-> "WRITE", part |-> s.part[x[1]]] ELSE l1[x]
    BY <1>3, <1>4 DEF l2
  <2>3. l3[x] = IF hit(x, op.red) THEN [mode |-> "REDUCE", part |-> s.part[x[1]]] ELSE l2[x]
    BY <1>3, <1>4 DEF l3
  <2> QED BY <2>1, <2>2, <2>3
<1>6. ASSUME NEW f \in Touched(op)
      PROVE  OutOk(last[Storage(op, f)], s.part[f]) \/ (f \in Scalars /\ s.ld = "one")
  <2> DEFINE x == Storage(op, f)
  <2>1. x \in X /\ x[1] = f
    BY <1>2
  <2> HIDE DEF x
  <2>2. CASE f \in op.in
    <3>1. InOk(last[x], s.part[f], f, s.ld)
      BY <1>1, <2>2 DEF x
    <3> QED BY <3>1 DEF InOk, OutOk, x
  <2>3. CASE f \notin op.in /\ f \in op.out
    <3>1. OutOk(l1[x], s.part[f])
      BY <1>1, <2>3 DEF x
    <3>2. l1[x] = last[x]
      BY <1>5, <2>1, <2>3
    <3> QED BY <3>1, <3>2 DEF x
  <2>4. CASE f \notin op.in /\ f \notin op.out
    <3>1. f \in op.red
      BY <2>4 DEF Touched
    <3>2. OutOk(l2[x], s.part[f])
      BY <1>1, <3>1 DEF x
    <3>3. l2[x] = last[x]
      BY <1>5, <2>1, <2>4
    <3> QED BY <3>2, <3>3 DEF x
  <2> QED BY <2>2, <2>3, <2>4
<1>7. ASSUME NEW x \in X, ~Meets(op, x) PROVE l3[x] = last[x]
  BY <1>5, <1>7 DEF Meets, Touched
<1>8. ASSUME NEW x \in X, Meets(op, x)
      PROVE  /\ l3[x].mode # "none"
             /\ l3[x].mode \in {"READ", "WRITE"} =>
                  x[1] \notin op.red /\ l3[x].part = s.part[x[1]] /\ OutOk(last[x], s.part[x[1]])
  <2> DEFINE f == x[1]
  <2>1. x = Storage(op, f) /\ f \in op.in \cup op.out \cup op.red
    BY <1>8 DEF Meets, Touched
  <2> HIDE DEF f
  <2>2. CASE f \in op.red
    <3>1. l3[x] = [mode |-> "REDUCE", part |-> s.part[f]]
      BY <1>5, <2>1, <2>2 DEF f
    <3> QED BY <3>1
  <2>3. CASE f \notin op.red /\ f \in op.out
    <3>1. l3[x] = [mode |-> "WRITE", part |-> s.part[f]]
      BY <1>5, <2>1, <2>3 DEF f
    <3>2. OutOk(l1[x], s.part[f])
      BY <1>1, <2>1, <2>3
    <3>3. CASE f \in op.in
      <4>1. InOk(last[x], s.part[f], f, s.ld)
        BY <1>1, <2>1, <3>3
      <4>2. last[x].mode = "REDUCE" => l1[x] = last[x]
        BY <1>5
      <4> QED BY <2>3, <3>1, <3>2, <4>1, <4>2 DEF InOk, OutOk, f
    <3>4. CASE f \notin op.in
      <4>1. l1[x] = last[x]
        BY <1>5, <3>4 DEF f
      <4> QED BY <2>3, <3>1, <3>2, <4>1 DEF f
    <3> QED BY <3>3, <3>4
  <2>4. CASE f \notin op.red /\ f \notin op.out
    <3>1. f \in op.in
      BY <2>1, <2>4
    <3>2. InOk(last[x], s.part[f], f, s.ld)
      BY <1>1, <2>1, <3>1
    <3>3. l3[x] = l1[x]
      BY <1>5, <2>4 DEF f
    <3>4. l1[x] = IF last[x].mode # "REDUCE" THEN [mode |-> "READ", part |-> s.part[f]] ELSE last[x]
      BY <1>5, <2>1, <3>1 DEF f
    <3>5. CASE last[x].mode = "REDUCE"
      <4>1. l3[x].mode = "REDUCE"
        BY <3>3, <3>4, <3>5
      <4> QED BY <4>1
    <3>6. CASE last[x].mode # "REDUCE"
      <4>1. l3[x] = [mode |-> "READ", part |-> s.part[f]]
        BY <3>3, <3>4, <3>6
      <4>2. OutOk(last[x], s.part[f])
        BY <3>2, <3>6 DEF InOk, OutOk
      <4> QED BY <2>4, <4>1, <4>2 DEF f
    <3> QED BY <3>5, <3>6
  <2> QED BY <2>2, <2>3, <2>4
<1> QED BY <1>1, <1>4, <1>6, <1>7, <1>8

\* What the last accesses say about the first k operations: if a storage was read or written
\* last, then nobody reduced to it, and everybody accessed it through that partition.
LastOK(w, k, last) ==
  /\ DOMAIN last = Stored(w)
  /\ \A x \in Stored(w) : \A i \in 1..k : Strategy(w[i], key) # NoStrategy /\ Meets(w[i], x) =>
       /\ last[x].mode # "none"
       /\ last[x].mode \in {"READ", "WRITE"} =>
            x[1] \notin w[i].red /\ Strategy(w[i], key).part[x[1]] = last[x].part
AgreeUpTo(w, k) ==
  \A i, j \in 1..k : i < j => Agree(w[i], Strategy(w[i], key), w[j], Strategy(w[j], key))

\* One more operation
LEMMA CheckAgrees ==
  ASSUME NEW w, Len(w) \in Nat, DOMAIN w = 1..Len(w), NEW k \in 1..Len(w), NEW c, LastOK(w, k - 1, c.last), AgreeUpTo(w, k - 1),
         CheckOp(c, w[k]).ok
  PROVE  c.ok /\ LastOK(w, k, CheckOp(c, w[k]).last) /\ AgreeUpTo(w, k)
PROOF
<1> DEFINE op == w[k]
           s == Strategy(op, key)
           d == IF s = NoStrategy THEN [ok |-> TRUE, last |-> c.last] ELSE DependencyStep(c.last, op, s)
           counts == s # NoStrategy /\ ~Bypasses(op, s)
           ok == c.ok /\ ~Disallowed(op) /\ d.ok /\ (~counts \/ c.ld \in {"unset", s.ld})
<1>1. CheckOp(c, op) = IF ok THEN [ok |-> TRUE, last |-> d.last, ld |-> IF counts THEN s.ld ELSE c.ld]
                       ELSE [c EXCEPT !.ok = FALSE]
  BY DEF CheckOp
<1> HIDE DEF op, s, d, counts
<1>2. ok
  <2>1. ASSUME ~ok PROVE FALSE
    <3>1. CheckOp(c, op) = [c EXCEPT !.ok = FALSE]
      BY <1>1, <2>1
    <3>2. CheckOp(c, op).ok
      BY DEF op
    <3> QED BY <3>1, <3>2
  <2> QED BY <2>1
<1>3. c.ok /\ d.ok
  BY <1>2
<1>4. CheckOp(c, op).last = d.last
  BY <1>1, <1>2
<1> HIDE DEF ok
<1>5. \A i \in 1..k : i # k => i \in 1..(k - 1)
  OBVIOUS
<1>6. CASE s = NoStrategy
  <2>1. d.last = c.last
    BY <1>6 DEF d
  <2>2. LastOK(w, k, c.last)
    <3>1. DOMAIN c.last = Stored(w)
      BY DEF LastOK
    <3>2. \A i \in 1..k : Strategy(w[i], key) # NoStrategy => i \in 1..(k - 1)
      BY <1>5, <1>6 DEF s, op
    <3> QED BY <3>1, <3>2 DEF LastOK
  <2>3. AgreeUpTo(w, k)
    <3>1. ASSUME NEW i \in 1..k, NEW j \in 1..k, i < j
          PROVE  Agree(w[i], Strategy(w[i], key), w[j], Strategy(w[j], key))
      <4>1. i \in 1..(k - 1)
        BY <3>1
      <4>2. CASE j = k
        BY <1>6, <4>2 DEF Agree, s, op
      <4>3. CASE j # k
        BY <1>5, <3>1, <4>1, <4>3 DEF AgreeUpTo
      <4> QED BY <4>2, <4>3
    <3> QED BY <3>1 DEF AgreeUpTo
  <2> QED BY <1>3, <1>4, <2>1, <2>2, <2>3 DEF op
<1>7. CASE s # NoStrategy
  <2>1. d = DependencyStep(c.last, op, s)
    BY <1>7 DEF d
  <2>2. DependencyStep(c.last, op, s).ok
    BY <1>3, <2>1
  <2>3. DOMAIN c.last = Stored(w)
    BY DEF LastOK
  <2>4. \A i \in DOMAIN w : \A f \in Touched(w[i]) : Storage(w[i], f) \in Stored(w)
    BY StoredIs
  <2>5. \A f \in Touched(op) : Storage(op, f) \in DOMAIN c.last
    BY <2>3, <2>4 DEF op
  <2> DEFINE l == d.last
  <2>6. /\ DOMAIN l = Stored(w)
        /\ \A f \in Touched(op) : OutOk(c.last[Storage(op, f)], s.part[f]) \/ (f \in Scalars /\ s.ld = "one")
        /\ \A x \in Stored(w) : ~Meets(op, x) => l[x] = c.last[x]
        /\ \A x \in Stored(w) : Meets(op, x) =>
              /\ l[x].mode # "none"
              /\ l[x].mode \in {"READ", "WRITE"} =>
                   x[1] \notin op.red /\ l[x].part = s.part[x[1]] /\ OutOk(c.last[x], s.part[x[1]])
    BY <2>1, <2>2, <2>3, <2>5, StepCompares
  <2>7. \A x \in Stored(w) : \A i \in 1..(k - 1) : Strategy(w[i], key) # NoStrategy /\ Meets(w[i], x) =>
         /\ c.last[x].mode # "none"
         /\ c.last[x].mode \in {"READ", "WRITE"} =>
              x[1] \notin w[i].red /\ Strategy(w[i], key).part[x[1]] = c.last[x].part
    BY DEF LastOK
  <2> HIDE DEF l
  <2>8. LastOK(w, k, l)
    <3>1. ASSUME NEW x \in Stored(w), NEW i \in 1..k, Strategy(w[i], key) # NoStrategy, Meets(w[i], x)
          PROVE  /\ l[x].mode # "none"
                 /\ l[x].mode \in {"READ", "WRITE"} =>
                      x[1] \notin w[i].red /\ Strategy(w[i], key).part[x[1]] = l[x].part
      <4>1. CASE i = k
        BY <2>6, <3>1, <4>1 DEF op, s
      <4>2. CASE i # k /\ ~Meets(op, x)
        BY <1>5, <2>6, <2>7, <3>1, <4>2
      <4>3. CASE i # k /\ Meets(op, x)
        <5>1. c.last[x].mode # "none"
          BY <1>5, <2>7, <3>1, <4>3
        <5>2. l[x].mode # "none"
          BY <2>6, <4>3
        <5>3. ASSUME l[x].mode \in {"READ", "WRITE"}
              PROVE  x[1] \notin w[i].red /\ Strategy(w[i], key).part[x[1]] = l[x].part
          <6>1. l[x].part = s.part[x[1]] /\ OutOk(c.last[x], s.part[x[1]])
            BY <2>6, <4>3, <5>3
          <6>2. c.last[x].mode \in {"READ", "WRITE"} /\ c.last[x].part = s.part[x[1]]
            BY <5>1, <6>1 DEF OutOk, SamePart
          <6> QED BY <1>5, <2>7, <3>1, <4>3, <6>1, <6>2
        <5> QED BY <5>2, <5>3
      <4> QED BY <4>1, <4>2, <4>3
    <3> QED BY <2>6, <3>1 DEF LastOK
  <2>9. AgreeUpTo(w, k)
    <3>1. ASSUME NEW i \in 1..(k - 1), Strategy(w[i], key) # NoStrategy,
                 NEW f \in Touched(w[i]) \cap Touched(op), Storage(w[i], f) = Storage(op, f)
          PROVE  \/ f \notin w[i].red /\ SamePart(Strategy(w[i], key).part[f], s.part[f])
                 \/ f \in Scalars /\ s.ld = "one"
      <4> DEFINE x == Storage(op, f)
      <4>1. x[1] = f /\ x \in Stored(w)
        BY <2>3, <2>5 DEF Storage
      <4>2. Meets(w[i], x)
        BY <3>1, <4>1 DEF Meets
      <4>3. OutOk(c.last[x], s.part[f]) \/ (f \in Scalars /\ s.ld = "one")
        BY <2>6
      <4> HIDE DEF x
      <4>4. /\ c.last[x].mode # "none"
            /\ c.last[x].mode \in {"READ", "WRITE"} => f \notin w[i].red /\ Strategy(w[i], key).part[f] = c.last[x].part
        BY <2>7, <3>1, <4>1, <4>2
      <4> QED BY <4>3, <4>4 DEF OutOk, SamePart
    <3>2. ASSUME NEW i \in 1..k, NEW j \in 1..k, i < j
          PROVE  Agree(w[i], Strategy(w[i], key), w[j], Strategy(w[j], key))
      <4>1. i \in 1..(k - 1)
        BY <3>2
      <4>2. CASE j = k
        BY <3>1, <4>1, <4>2 DEF Agree, s, op
      <4>3. CASE j # k
        BY <1>5, <3>2, <4>1, <4>3 DEF AgreeUpTo
      <4> QED BY <4>2, <4>3
    <3> QED BY <3>2 DEF AgreeUpTo
  <2> QED BY <1>3, <1>4, <2>8, <2>9 DEF op, l
<1> QED BY <1>6, <1>7

\* A prefix is found streamable only if its operations agree.
LEMMA StreamableAgrees ==
  ASSUME NEW w, IsSeq(w)
  PROVE  /\ StreamableLen(w) \in 0..Len(w) /\ AgreeUpTo(w, StreamableLen(w))
         /\ \A j \in 1..StreamableLen(w) : PrefixChecks(w)[j].ok
PROOF
<1> DEFINE m == Len(w)
           c == PrefixChecks(w)
           OK(n) == c[n].ok
           oks == {k \in 1..m : OK(k)}
           Good(n) == n <= m /\ OK(n) => /\ \A j \in 1..n : OK(j)
                                         /\ LastOK(w, n, c[n].last) /\ AgreeUpTo(w, n)
           S == {n \in Nat : Good(n)}
<1>1. m \in Nat /\ DOMAIN w = 1..m
  BY SeqIs
<1>2. c[0] = StartOf(w) /\ \A n \in 1..m : c[n] = CheckOp(c[n - 1], w[n])
  BY <1>1, ChecksAre
<1>3. 0 \in S
  <2>1. c[0].last = [x \in Stored(w) |-> NoAccess]
    BY <1>2 DEF StartOf
  <2> HIDE DEF c
  <2>2. LastOK(w, 0, c[0].last)
    BY <2>1 DEF LastOK
  <2>3. AgreeUpTo(w, 0)
    BY DEF AgreeUpTo
  <2>4. \A j \in 1..0 : OK(j)
    OBVIOUS
  <2> QED BY <2>2, <2>3, <2>4
<1> HIDE DEF c
<1>4. ASSUME NEW n \in S PROVE n + 1 \in S
  <2>1. n \in Nat /\ Good(n)
    OBVIOUS
  <2> SUFFICES ASSUME n + 1 <= m, OK(n + 1) PROVE Good(n + 1)
    BY <2>1
  <2> DEFINE k == n + 1
  <2>2. k \in 1..m /\ k - 1 = n /\ n <= m
    BY <1>1, <2>1
  <2>3. c[k] = CheckOp(c[n], w[k])
    BY <1>2, <2>2
  <2>4. OK(n)
    <3>1. CheckOp(c[n], w[k]) = [c[n] EXCEPT !.ok = FALSE] \/ c[n].ok
      BY DEF CheckOp
    <3>2. CASE CheckOp(c[n], w[k]) = [c[n] EXCEPT !.ok = FALSE]
      <4>1. c[k] = [c[n] EXCEPT !.ok = FALSE] /\ c[k].ok
        BY <2>3, <3>2
      <4> QED BY <4>1
    <3> QED BY <3>1, <3>2
  <2>5. (\A j \in 1..n : OK(j)) /\ LastOK(w, n, c[n].last) /\ AgreeUpTo(w, n)
    BY <2>1, <2>2, <2>4
  <2>6. LastOK(w, k, c[k].last) /\ AgreeUpTo(w, k)
    <3>1. CheckOp(c[n], w[k]).ok
      BY <2>3
    <3> HIDE DEF k
    <3>2. LastOK(w, k - 1, c[n].last) /\ AgreeUpTo(w, k - 1)
      BY <2>2, <2>5
    <3> QED BY <1>1, <2>2, <2>3, <3>1, <3>2, CheckAgrees
  <2>7. \A j \in 1..k : OK(j)
    <3>1. \A j \in 1..k : j = k \/ j \in 1..n
      BY <2>1
    <3> QED BY <2>5, <3>1
  <2> QED BY <2>6, <2>7
<1> HIDE DEF S
<1>5. S = Nat
  <2>1. S \in SUBSET Nat
    BY DEF S
  <2> QED BY <1>3, <1>4, <2>1, EveryNumber
<1>6. \A n \in 1..m : OK(n) => (\A j \in 1..n : OK(j)) /\ AgreeUpTo(w, n)
  <2> TAKE n \in 1..m
  <2>1. n \in S /\ n <= m
    BY <1>1, <1>5
  <2> QED BY <2>1 DEF S
<1> DEFINE len == StreamableLen(w)
<1>7. len = Cardinality(oks)
  BY <1>1 DEF StreamableLen, c
<1> HIDE DEF OK, len
<1>8. CASE oks = {}
  <2>1. len = 0
    BY <1>7, <1>8, FS_EmptySet
  <2>2. AgreeUpTo(w, 0)
    BY DEF AgreeUpTo
  <2>3. \A j \in 1..len : OK(j)
    BY <2>1
  <2> QED BY <1>1, <2>1, <2>2, <2>3 DEF len, OK, c
<1>9. CASE oks # {}
  <2>1. PICK n \in oks : \A j \in oks : j <= n
    <3> DEFINE D == {m - j : j \in oks}
    <3>1. D \in SUBSET Nat /\ D # {}
      BY <1>1, <1>9
    <3>2. PICK y \in D : \A z \in D : y <= z
      <4> HIDE DEF D
      <4> QED BY <3>1, Least
    <3>3. PICK n \in oks : y = m - n
      BY <3>2
    <3>4. \A j \in oks : m - n <= m - j
      BY <3>2, <3>3
    <3>5. \A j \in oks : j <= n
      BY <1>1, <3>4
    <3> QED BY <3>5
  <2>2. n \in 1..m /\ OK(n)
    OBVIOUS
  <2>3. oks = 1..n
    <3>1. \A j \in 1..n : j \in 1..m /\ OK(j)
      BY <1>1, <1>6, <2>2
    <3>2. \A j \in oks : j \in 1..n
      BY <1>1, <2>1
    <3> QED BY <3>1, <3>2
  <2>4. len = n
    <3> HIDE DEF oks
    <3>1. n \in Nat
      BY <1>1, <2>2
    <3>2. Cardinality(1..n) = n
      BY <3>1, FS_Interval
    <3> QED BY <1>7, <2>3, <3>2
  <2>5. AgreeUpTo(w, n)
    BY <1>6, <2>2
  <2>6. \A j \in 1..len : OK(j)
    BY <2>3, <2>4
  <2> QED BY <1>1, <2>2, <2>4, <2>5, <2>6 DEF len, OK, c
<1> QED BY <1>8, <1>9

-----------------------------------------------------------------------------
(* What a step may put on the stack and into the window *)

\* What the runtime submits on its own: nobody reads what it writes, or holds what it discards.
Minor(op) == /\ op.kind \in {"release", "discard", "fence"} /\ Touched(op) = {} /\ op.drop = {} /\ op.id = 0
             /\ op.kind = "discard" => op.field \notin alive'

\* What a new store submits with the next id
Attaches(op) == /\ At("new") /\ op.kind = "attach" /\ op.id = ids + 1
                /\ op.in = {} /\ op.red = {} /\ op.drop = {} /\ op.out = {Top.field}

\* An item that launches nothing and submits nothing that partitions stores
Clean(x) == /\ x.ops = <<>>
            /\ x.c = "submit" => Unchecked(x.op) /\ ~Strategic(x.op) /\ (Minor(x.op) \/ Attaches(x.op))
            /\ x.c = "run" => x.n \in Nat
CleanSeq(s) == IsSeq(s) /\ \A i \in DOMAIN s : Clean(s[i])

\* Items that the runtime makes
LEMMA CleanItems ==
  /\ \A c : c # "submit" => Clean(Item(c))
  /\ \A by : Clean(Flush(by))
  /\ \A c, f : c # "submit" => Clean(ForField(c, f))
  /\ \A op : op.checked = NoStrategy /\ ~Strategic(op) /\ (Minor(op) \/ Attaches(op)) => Clean(Submit(op))
  /\ \A x : FreesOnly(x) /\ x.op.field \notin alive' => Clean(x)
PROOF
<1>1. ASSUME NEW c, c # "submit" PROVE Clean(Item(c))
  <2> DEFINE x == Item(c)
  <2>1. x.c = c /\ x.ops = <<>>
    BY ItemIs
  <2>2. x.n = 0
    BY DEF Item
  <2> HIDE DEF x
  <2> QED BY <1>1, <2>1, <2>2 DEF Clean, x
<1>2. ASSUME NEW by PROVE Clean(Flush(by))
  <2> DEFINE x == Flush(by)
  <2>1. x.c = "flush" /\ x.ops = <<>>
    BY OtherItems
  <2> HIDE DEF x
  <2> QED BY <2>1 DEF Clean, x
<1>3. ASSUME NEW c, NEW f, c # "submit" PROVE Clean(ForField(c, f))
  <2> DEFINE x == ForField(c, f)
  <2>1. x.c = c /\ x.ops = <<>>
    BY OtherItems
  <2>2. x.n = 0
    BY DEF ForField, Item
  <2> HIDE DEF x
  <2> QED BY <1>3, <2>1, <2>2 DEF Clean, x
<1>4. ASSUME NEW op, op.checked = NoStrategy, ~Strategic(op), Minor(op) \/ Attaches(op) PROVE Clean(Submit(op))
  <2> DEFINE x == Submit(op)
  <2>1. x.c = "submit" /\ x.ops = <<>> /\ x.op = op
    BY SubmitIs
  <2> HIDE DEF x
  <2>2. Clean(x)
    BY <1>4, <2>1 DEF Clean, Unchecked, Stems
  <2> QED BY <2>2 DEF x
<1>5. ASSUME NEW x, FreesOnly(x), x.op.field \notin alive' PROVE Clean(x)
  BY <1>5 DEF FreesOnly, Clean, Minor, Unchecked, Stems, Strategic
<1> QED BY <1>1, <1>2, <1>3, <1>4, <1>5

\* A fence
LEMMA CleanFence == Clean(Submit(Plain("fence"))) /\ Unchecked(Plain("fence")) /\ ~Strategic(Plain("fence"))
PROOF
<1> DEFINE o == Plain("fence")
<1>1. o.checked = NoStrategy /\ o.kind = "fence" /\ Touched(o) = {} /\ o.drop = {} /\ o.id = 0
  BY DEF Plain, Touched
<1> HIDE DEF o
<1>2. Unchecked(o) /\ ~Strategic(o) /\ Minor(o)
  BY <1>1 DEF Unchecked, Stems, Strategic, Minor
<1>3. Clean(Submit(o))
  BY <1>1, <1>2, CleanItems
<1> QED BY <1>2, <1>3 DEF o

\* None, one or two of them
LEMMA CleanShort ==
  /\ CleanSeq(<<>>)
  /\ \A x : Clean(x) => CleanSeq(<<x>>)
  /\ \A x, y : Clean(x) /\ Clean(y) => CleanSeq(<<x, y>>)
PROOF
<1>1. CleanSeq(<<>>)
  BY ShortSeqs, SeqIs DEF CleanSeq
<1>2. ASSUME NEW x, Clean(x) PROVE CleanSeq(<<x>>)
  <2>1. IsSeq(<<x>>) /\ \A i \in DOMAIN <<x>> : <<x>>[i] = x
    BY ShortSeqs
  <2> QED BY <1>2, <2>1 DEF CleanSeq
<1>3. ASSUME NEW x, NEW y, Clean(x), Clean(y) PROVE CleanSeq(<<x, y>>)
  <2>1. IsSeq(<<x, y>>) /\ \A i \in DOMAIN <<x, y>> : <<x, y>>[i] \in {x, y}
    BY ShortSeqs
  <2> QED BY <1>3, <2>1 DEF CleanSeq
<1> QED BY <1>1, <1>2, <1>3

\* Where the elements of a concatenation are from
LEMMA ConcatEach ==
  ASSUME NEW s, NEW t, IsSeq(s), IsSeq(t)
  PROVE  /\ IsSeq(s \o t)
         /\ \A i \in DOMAIN (s \o t) : \/ \E k \in DOMAIN s : (s \o t)[i] = s[k]
                                      \/ \E k \in DOMAIN t : (s \o t)[i] = t[k]
PROOF
<1> DEFINE u == s \o t
<1>1. /\ IsSeq(u) /\ Len(u) = Len(s) + Len(t) /\ \A i \in DOMAIN s : u[i] = s[i]
      /\ \A i \in DOMAIN t : u[Len(s) + i] = t[i]
      /\ \A i \in DOMAIN u : i \in DOMAIN s \/ (i - Len(s) \in DOMAIN t /\ i = Len(s) + (i - Len(s)))
  BY ConcatIs
<1> HIDE DEF u
<1>2. \A i \in DOMAIN u : (\E k \in DOMAIN s : u[i] = s[k]) \/ \E k \in DOMAIN t : u[i] = t[k]
  BY <1>1
<1> QED BY <1>1, <1>2 DEF u

\* Some in front of others
LEMMA CleanConcat ==
  ASSUME NEW s, NEW t, CleanSeq(s), CleanSeq(t) PROVE CleanSeq(s \o t)
PROOF
<1> DEFINE u == s \o t
<1>1. IsSeq(u) /\ \A i \in DOMAIN u : (\E k \in DOMAIN s : u[i] = s[k]) \/ \E k \in DOMAIN t : u[i] = t[k]
  BY ConcatEach DEF CleanSeq
<1> HIDE DEF u
<1>2. \A i \in DOMAIN u : Clean(u[i])
  BY <1>1 DEF CleanSeq
<1> QED BY <1>1, <1>2 DEF u, CleanSeq

\* And one behind them
LEMMA CleanAppend ==
  ASSUME NEW s, NEW x, CleanSeq(s), Clean(x) PROVE CleanSeq(Append(s, x))
PROOF
<1> DEFINE u == Append(s, x)
<1>1. /\ IsSeq(u) /\ u[Len(s) + 1] = x /\ DOMAIN u = DOMAIN s \cup {Len(s) + 1}
      /\ \A i \in DOMAIN s : u[i] = s[i]
  BY AppendIs DEF CleanSeq
<1> HIDE DEF u
<1>2. \A i \in DOMAIN u : Clean(u[i])
  BY <1>1 DEF CleanSeq
<1> QED BY <1>1, <1>2 DEF u, CleanSeq

\* What frees fields, changes the policy or unwinds a call is clean.
LEMMA CleanCalls ==
  /\ \A f : f \notin alive' => CleanSeq(FreeCalls(f))
  /\ \A set : IsFiniteSet(set) /\ set \cap alive' = {} => CleanSeq(FreeAll(set))
  /\ \A new, old : CleanSeq(Exchange(new, old)) /\ CleanSeq(EndCalls(new, old))
  /\ CleanSeq(Process)
PROOF
<1>1. ASSUME NEW f, f \notin alive' PROVE CleanSeq(FreeCalls(f))
  <2> DEFINE s == FreeCalls(f)
  <2>1. IsSeq(s) /\ Len(s) = 2 /\ \A i \in 1..2 : FreesOnly(s[i]) /\ s[i].op.field = f
    BY FreeCallsAre
  <2> HIDE DEF s
  <2>2. DOMAIN s = 1..2
    BY <2>1, SeqIs
  <2>3. \A i \in DOMAIN s : Clean(s[i])
    BY <1>1, <2>1, <2>2, CleanItems
  <2> QED BY <2>1, <2>3 DEF s, CleanSeq
<1>2. ASSUME NEW set, IsFiniteSet(set), set \cap alive' = {} PROVE CleanSeq(FreeAll(set))
  <2> DEFINE s == FreeAll(set)
  <2>1. IsSeq(s) /\ \A i \in DOMAIN s : FreesOnly(s[i]) /\ s[i].op.field \in set
    BY <1>2, FreeAllAre
  <2> HIDE DEF s
  <2>2. \A i \in DOMAIN s : Clean(s[i])
    BY <1>2, <2>1, CleanItems
  <2> QED BY <2>1, <2>2 DEF s, CleanSeq
<1>3. ASSUME NEW new, NEW old PROVE CleanSeq(Exchange(new, old)) /\ CleanSeq(EndCalls(old, new))
  <2> DEFINE a == <<Submit(Plain("fence")), Item("match")>>
             b == <<Flush("scope")>>
             c == IF Streaming(new) \/ Streaming(old) THEN a ELSE <<>>
             x == Exchange(new, old)
  <2>1. CleanSeq(<<>>) /\ CleanSeq(a) /\ CleanSeq(b)
    BY CleanShort, CleanFence, CleanItems
  <2> HIDE DEF a, b
  <2>2. CleanSeq(c)
    BY <2>1
  <2> HIDE DEF c
  <2>3. CleanSeq(c \o b)
    BY <2>1, <2>2, CleanConcat
  <2>4. x = IF new = old THEN <<>> ELSE c \o b
    BY DEF Exchange, a, b, c
  <2>5. CleanSeq(x)
    BY <2>1, <2>3, <2>4
  <2>6. EndCalls(old, new) = Append(x, Leave)
    BY DEF EndCalls
  <2> HIDE DEF x
  <2>7. Clean(Leave)
    BY CleanItems DEF Leave
  <2>8. CleanSeq(EndCalls(old, new))
    BY <2>5, <2>6, <2>7, CleanAppend
  <2> QED BY <2>5, <2>8 DEF x
<1>4. CleanSeq(Process)
  BY CleanShort, CleanItems DEF Process
<1> QED BY <1>1, <1>2, <1>3, <1>4

\* An exception leaves clean items.
LEMMA CleanThrow ==
  ASSUME NEW items, \A i \in DOMAIN items : items[i].c = "enter" => items[i].ops = <<>>, NEW why, Throw(why, items)
  PROVE  CleanSeq(stack') /\ window' = <<>>
PROOF
<1> DEFINE enters == {i \in DOMAIN items : items[i].c = "enter"}
           e == items[CHOOSE i \in enters : TRUE]
<1>1. CleanSeq(<<>>) /\ CleanSeq(<<Leave>>)
  BY CleanShort, CleanItems DEF Leave
<1>2. CleanSeq(Unwound(items))
  <2>1. CASE enters # {}
    <3>1. (CHOOSE i \in enters : TRUE) \in enters
      BY <2>1
    <3>2. e.c = "enter" /\ e.ops = <<>>
      BY <3>1
    <3>3. Unwound(items) = <<e>> \o EndCalls(e.pol, Policy)
      BY <2>1 DEF Unwound
    <3> HIDE DEF e
    <3>4. CleanSeq(<<e>>)
      BY <3>2, CleanShort DEF Clean
    <3>5. CleanSeq(EndCalls(e.pol, Policy))
      BY CleanCalls
    <3> QED BY <3>3, <3>4, <3>5, CleanConcat
  <2>2. CASE enters = {}
    <3>1. Unwound(items) \in {<<Leave>>, <<>>}
      BY <2>2 DEF Unwound
    <3> QED BY <1>1, <3>1
  <2> QED BY <2>1, <2>2
<1> QED BY <1>1, <1>2 DEF Throw, ClearedOnThrow

\* All items of the next stack are clean or from this one.
StackFrom == \A i \in DOMAIN stack' : Clean(stack'[i]) \/ \E j \in DOMAIN stack : stack'[i] = stack[j]

\* Clean items take the place of the running one.
LEMMA FromStack ==
  ASSUME IInv, stack # <<>>, NEW new, CleanSeq(new), stack' = new \o Rest
  PROVE  StackFrom
PROOF
<1>1. IsSeq(new) /\ IsSeq(Rest) /\ \A i \in DOMAIN Rest : Rest[i] = stack[i + 1] /\ i + 1 \in DOMAIN stack
  BY RestIs DEF IInv, StackOK, CleanSeq
<1> DEFINE u == new \o Rest
<1>2. \A i \in DOMAIN u : (\E k \in DOMAIN new : u[i] = new[k]) \/ \E k \in DOMAIN Rest : u[i] = Rest[k]
  BY <1>1, ConcatEach
<1> HIDE DEF u
<1>3. ASSUME NEW i \in DOMAIN u PROVE Clean(u[i]) \/ \E j \in DOMAIN stack : u[i] = stack[j]
  BY <1>1, <1>2 DEF CleanSeq
<1>4. stack' = u
  BY DEF u
<1> QED BY <1>3, <1>4 DEF StackFrom

\* The running item is done.
LEMMA FromRest ==
  ASSUME IInv, stack # <<>>, stack' = Rest
  PROVE  StackFrom
PROOF
<1>1. IsSeq(Rest)
  BY RestIs DEF IInv, StackOK
<1>2. stack' = <<>> \o Rest
  BY <1>1, NothingInFront
<1> QED BY <1>2, CleanShort, FromStack

\* A call begins, or ends early.
LEMMA FromClean == ASSUME CleanSeq(stack') PROVE StackFrom
BY DEF StackFrom, CleanSeq

\* Steps that neither submit what the program gives, nor flush or launch
OtherSteps ==
  \/ EndFlush \/ DoMatch \/ Reuse \/ NewStore \/ Enter \/ EndOfScope
  \/ \E f \in Fields : Create(f) \/ Drop(f)
  \/ \E p \in Policies : BeginScope(p)
  \/ EndScope \/ Catch \/ UNCHANGED vars

\* They move no operations, except that an exception clears the window.
LEMMA OthersFrom ==
  ASSUME IInv, OtherSteps
  PROVE  StackFrom /\ (window' = window \/ window' = <<>>) /\ log' = log /\ gens' = gens
PROOF
<1>1. CASE EndFlush
  <2>1. stack # <<>> /\ stack' = Rest /\ UNCHANGED <<window, log, gens>>
    BY <1>1 DEF EndFlush, At
  <2> QED BY <2>1, FromRest
<1>2. CASE DoMatch
  <2> DEFINE new == IF Freq > 0 /\ credit >= Freq THEN Process \o <<Item("issue")>> ELSE <<>>
  <2>1. /\ stack # <<>> /\ UNCHANGED <<window, log, gens>>
        /\ stack' = new \o Rest \/ stack' = Process \o Rest \/ stack' = Rest
    BY <1>2 DEF DoMatch, At
  <2>2. CleanSeq(Process) /\ CleanSeq(<<Item("issue")>>) /\ CleanSeq(<<>>)
    BY CleanCalls, CleanShort, CleanItems
  <2>3. CleanSeq(Process \o <<Item("issue")>>)
    BY <2>2, CleanConcat
  <2>4. CleanSeq(new)
    BY <2>2, <2>3
  <2> HIDE DEF new
  <2>5. StackFrom
    BY <2>1, <2>2, <2>4, FromStack, FromRest
  <2> QED BY <2>1, <2>5
<1>3. CASE Reuse
  <2> DEFINE f == Top.field
             new == IF att[f] = "pending" THEN <<Flush("reuse"), ForField("detached", f)>> ELSE <<>>
  <2>1. /\ stack # <<>> /\ UNCHANGED <<window, log, gens>>
        /\ stack' = new \o Rest \/ stack' = Rest \/ stack' = <<>>
    BY <1>3 DEF Reuse, At, Abort
  <2>2. CleanSeq(<<>>) /\ CleanSeq(<<Flush("reuse"), ForField("detached", f)>>)
    BY CleanShort, CleanItems
  <2>3. CleanSeq(new)
    BY <2>2
  <2> HIDE DEF new
  <2>4. StackFrom
    BY <2>1, <2>2, <2>3, FromStack, FromRest, FromClean
  <2> QED BY <2>1, <2>4
<1>4. CASE NewStore
  <2> DEFINE f == Top.field
             op == [Plain("attach") EXCEPT !.out = {f}, !.id = ids + 1, !.life = (f :> life[f] + 1)]
             new == IF f \in Attached THEN <<Submit(op)>> ELSE <<>>
  <2>1. stack # <<>> /\ stack' = new \o Rest /\ UNCHANGED <<window, log, gens>> /\ At("new")
    BY <1>4 DEF NewStore, At
  <2>2. op.checked = NoStrategy /\ op.kind = "attach" /\ Attaches(op)
    <3>1. /\ op.checked = NoStrategy /\ op.kind = "attach" /\ op.id = ids + 1
          /\ op.in = {} /\ op.red = {} /\ op.drop = {} /\ op.out = {f}
      BY DEF Plain
    <3> HIDE DEF op
    <3> QED BY <2>1, <3>1 DEF Attaches
  <2> HIDE DEF op
  <2>3. CleanSeq(<<>>) /\ CleanSeq(<<Submit(op)>>)
    BY <2>2, CleanShort, CleanItems DEF Strategic
  <2>4. CleanSeq(new)
    BY <2>3
  <2> HIDE DEF new
  <2> QED BY <2>1, <2>4, FromStack
<1>5. CASE Enter \/ EndOfScope
  <2>1. stack # <<>> /\ stack' = Rest /\ UNCHANGED <<window, log, gens>>
    BY <1>5 DEF Enter, EndOfScope, At
  <2> QED BY <2>1, FromRest
<1>6. ASSUME NEW f \in Fields, Create(f)
      PROVE  StackFrom /\ UNCHANGED <<window, log, gens>>
  <2> DEFINE managed == Freq > 0 /\ f \notin Unbound
             a == IF managed /\ ~Streaming(Policy) THEN <<Item("match")>> ELSE <<>>
             b == IF life[f] > 0 THEN <<ForField("reuse", f)>>
                  ELSE IF managed THEN <<Item("process")>> ELSE <<>>
             c == <<ForField("new", f)>>
  <2>1. stack' = a \o b \o c /\ UNCHANGED <<window, log, gens>>
    BY <1>6 DEF Create, Called
  <2>2. CleanSeq(<<>>) /\ CleanSeq(<<Item("match")>>) /\ CleanSeq(<<ForField("reuse", f)>>)
        /\ CleanSeq(<<Item("process")>>) /\ CleanSeq(c)
    BY CleanShort, CleanItems
  <2>3. CleanSeq(a) /\ CleanSeq(b) /\ CleanSeq(c)
    BY <2>2
  <2> HIDE DEF a, b, c
  <2> DEFINE ab == a \o b
  <2>4. CleanSeq(ab)
    BY <2>3, CleanConcat
  <2>5. stack' = ab \o c
    BY <2>1
  <2> HIDE DEF ab
  <2>6. CleanSeq(stack')
    BY <2>3, <2>4, <2>5, CleanConcat
  <2> QED BY <2>1, <2>6, FromClean
<1>7. ASSUME NEW f \in Fields, Drop(f)
      PROVE  StackFrom /\ UNCHANGED <<window, log, gens>>
  <2>1. (stack' = FreeCalls(f) \/ stack' = <<>>) /\ UNCHANGED <<window, log, gens>> /\ f \notin alive'
    BY <1>7 DEF Drop, Called
  <2>2. CleanSeq(stack')
    BY <2>1, CleanCalls, CleanShort
  <2> QED BY <2>1, <2>2, FromClean
<1>8. ASSUME NEW p \in Policies, BeginScope(p)
      PROVE  StackFrom /\ (window' = window \/ window' = <<>>) /\ log' = log /\ gens' = gens
  <2> DEFINE enter == [Item("enter") EXCEPT !.pol = p]
  <2>1. /\ UNCHANGED <<log, gens>>
        /\ \/ Throw("nesting", <<enter>>)
           \/ stack' = Append(Exchange(p, Policy), enter) /\ UNCHANGED window
    BY <1>8 DEF BeginScope
  <2>2. enter.c = "enter" /\ enter.ops = <<>>
    BY ItemIs, ItemWith
  <2> HIDE DEF enter
  <2>3. CASE Throw("nesting", <<enter>>)
    <3>1. \A i \in DOMAIN <<enter>> : <<enter>>[i] = enter
      BY ShortSeqs
    <3>2. CleanSeq(stack') /\ window' = <<>>
      BY <2>2, <2>3, <3>1, CleanThrow
    <3> QED BY <2>1, <3>2, FromClean
  <2>4. CASE stack' = Append(Exchange(p, Policy), enter) /\ UNCHANGED window
    <3>1. Clean(enter) /\ CleanSeq(Exchange(p, Policy))
      BY <2>2, CleanCalls DEF Clean
    <3>2. CleanSeq(stack')
      BY <2>4, <3>1, CleanAppend
    <3> QED BY <2>1, <2>4, <3>2, FromClean
  <2> QED BY <2>1, <2>3, <2>4
<1>9. CASE EndScope
  <2>1. stack' = EndCalls(Policy, scopes[Len(scopes) - 1]) /\ UNCHANGED <<window, log, gens>>
    BY <1>9 DEF EndScope
  <2>2. CleanSeq(stack')
    BY <2>1, CleanCalls
  <2> QED BY <2>1, <2>2, FromClean
<1>10. CASE Catch \/ UNCHANGED vars
  <2>1. UNCHANGED <<stack, window, log, gens>>
    BY <1>10 DEF Catch, vars
  <2> QED BY <2>1 DEF StackFrom
<1> QED BY <1>1, <1>2, <1>3, <1>4, <1>5, <1>6, <1>7, <1>8, <1>9, <1>10 DEF OtherSteps

\* All steps
LEMMA Steps ==
  ASSUME [Next]_vars
  PROVE  OtherSteps \/ DoSubmit \/ DoFlush \/ Extract \/ Run \/ RunPrefix \/ \E t \in Tasks : Call(t)
PROOF
<1>1. CASE Program
  BY <1>1 DEF Program, OtherSteps
<1>2. CASE Runtime
  BY <1>2 DEF Runtime, OtherSteps
<1>3. CASE UNCHANGED vars
  BY <1>3 DEF OtherSteps
<1> QED BY <1>1, <1>2, <1>3 DEF Next

\* A submission puts the operation behind the others, and may flush.
LEMMA SubmitFrom ==
  ASSUME IInv, DoSubmit
  PROVE  /\ StackFrom /\ stack # <<>> /\ Top.c = "submit" /\ Top = stack[1] /\ 1 \in DOMAIN stack
         /\ \E op : /\ window' = Append(window, op) /\ Alike(op, Top.op) /\ op.checked = Top.op.checked
                    /\ op.gen = 0 /\ op.field = Top.op.field
         /\ log' = log /\ gens' = gens /\ scopes' = scopes /\ key' = key
PROOF
<1> DEFINE o == Top.op
           i == ids + 1
           op == IF o.id # 0 THEN o ELSE [o EXCEPT !.id = i]
           new == IF op.flush \/ TooBig(window') THEN <<Flush("op")>> ELSE <<>>
<1>1. /\ stack # <<>> /\ Top.c = "submit" /\ window' = Append(window, op)
      /\ stack' = new \o Rest
      /\ log' = log /\ gens' = gens /\ scopes' = scopes /\ key' = key
  BY DEF DoSubmit, At, Queued, dataVars
<1>2. Top = stack[1] /\ 1 \in DOMAIN stack /\ ItemOK(Top, ids, gens)
  BY <1>1, RestIs, SeqIs DEF IInv, StackOK, CallOK
<1>3. Waits(o)
  BY <1>1, <1>2 DEF ItemOK
<1>4. CleanSeq(<<>>) /\ CleanSeq(<<Flush("op")>>)
  BY CleanShort, CleanItems
<1>5. Alike(op, o) /\ op.checked = o.checked /\ op.gen = 0 /\ op.field = o.field
  <2>1. o.gen = 0 /\ DOMAIN o = OpFields
    BY <1>3 DEF Waits, IsOp
  <2> HIDE DEF o, i
  <2> QED BY <2>1 DEF Alike, OpFields, Plain
<1> HIDE DEF op
<1>6. CleanSeq(new)
  BY <1>4
<1> HIDE DEF new
<1>7. StackFrom
  BY <1>1, <1>6, FromStack
<1> QED BY <1>1, <1>2, <1>5, <1>7 DEF o

\* What propagating discards leaves of the window
LEMMA PropagatedFrom ==
  ASSUME NEW w, NEW n \in Nat, QueueOK(w, n)
  PROVE  /\ IsSeq(PropagateDiscards(w))
         /\ \A j \in DOMAIN PropagateDiscards(w) : \E i \in DOMAIN w :
              Alike(PropagateDiscards(w)[j], w[i]) /\ PropagateDiscards(w)[j].checked = w[i].checked
PROOF
<1> DEFINE S == DOMAIN w \ Handled(w)
           kept == InOrder(S)
           p == PropagateDiscards(w)
<1>1. Len(w) \in Nat /\ DOMAIN w = 1..Len(w) /\ S \in SUBSET (1..Len(w))
  BY SeqIs DEF QueueOK
<1>2. DOMAIN p = DOMAIN kept /\ p = [j \in DOMAIN kept |-> [w[kept[j]] EXCEPT !.drop = HandedTo(w, kept[j])]]
  BY DEF PropagateDiscards
<1> HIDE DEF S
<1>3. DOMAIN kept = 1..Cardinality(S) /\ \A j \in 1..Cardinality(S) : kept[j] \in S
  BY <1>1, InOrderIs
<1> HIDE DEF kept
<1>4. ASSUME NEW j \in DOMAIN p PROVE \E i \in DOMAIN w : Alike(p[j], w[i]) /\ p[j].checked = w[i].checked
  <2> DEFINE i == kept[j]
             d == HandedTo(w, i)
             o == w[i]
  <2>1. i \in DOMAIN w /\ p[j] = [o EXCEPT !.drop = d]
    BY <1>2, <1>3 DEF S
  <2>2. DOMAIN o = OpFields
    BY <2>1 DEF QueueOK, Waits, IsOp
  <2> HIDE DEF d, o
  <2>3. Alike(p[j], o) /\ p[j].checked = o.checked
    BY <2>1, <2>2 DEF Alike, OpFields, Plain
  <2> QED BY <2>1, <2>3 DEF o
<1>5. IsSeq(p)
  BY PropagateIs DEF QueueOK
<1> QED BY <1>4, <1>5 DEF p

\* A flush either leaves the window, propagates discards in it, or clears it.
LEMMA FlushFrom ==
  ASSUME IInv, DoFlush
  PROVE  /\ StackFrom /\ (window' = window \/ window' = <<>> \/ window' = PropagateDiscards(window))
         /\ log' = log /\ gens' = gens /\ scopes' = scopes /\ key' = key
PROOF
<1>1. stack # <<>> /\ log' = log /\ gens' = gens /\ scopes' = scopes /\ key' = key
  BY DEF DoFlush, At, dataVars
<1>2. IsSeq(Rest) /\ ItemsOK(Rest, ids, gens, Policy)
  BY <1>1, RestIs DEF IInv, StackOK, Policy
<1>3. \A i \in DOMAIN Rest : Rest[i].c = "enter" => Rest[i].ops = <<>>
  BY <1>2 DEF ItemsOK, ItemOK
<1>4. CASE ~Streaming(Policy)
  <2> DEFINE x == [Item("run") EXCEPT !.n = Len(window)]
  <2>1. stack' = <<x>> \o Rest /\ window' = window
    BY <1>4 DEF DoFlush
  <2>2. x.c = "run" /\ x.ops = <<>> /\ x.n = Len(window)
    BY ItemIs, ItemWith
  <2>4. Len(window) \in Nat
    BY SeqIs DEF IInv, WindowOK, QueueOK
  <2> HIDE DEF x
  <2>3. CleanSeq(<<x>>)
    BY <2>2, <2>4, CleanShort DEF Clean
  <2> QED BY <1>1, <2>1, <2>3, FromStack
<1>5. CASE Streaming(Policy) /\ Policy.mode = "strict" /\ Top.by # "scope"
  <2>1. Throw(Top.by, Rest)
    BY <1>5 DEF DoFlush
  <2>2. CleanSeq(stack') /\ window' = <<>>
    BY <1>3, <2>1, CleanThrow
  <2> QED BY <1>1, <2>2, FromClean
<1>6. CASE Streaming(Policy) /\ ~(Policy.mode = "strict" /\ Top.by # "scope") /\ NoRegion(window)
  <2>1. stack' = <<>> /\ window' = window
    BY <1>6 DEF DoFlush, Abort
  <2>2. CleanSeq(stack')
    BY <2>1, CleanShort
  <2> QED BY <1>1, <2>1, <2>2, FromClean
<1>7. CASE Streaming(Policy) /\ ~(Policy.mode = "strict" /\ Top.by # "scope") /\ ~NoRegion(window)
  <2>1. stack' = <<Item("stream")>> \o Rest /\ window' = PropagateDiscards(window)
    BY <1>7 DEF DoFlush
  <2>2. CleanSeq(<<Item("stream")>>)
    BY CleanShort, CleanItems
  <2> QED BY <1>1, <2>1, <2>2, FromStack
<1> QED BY <1>4, <1>5, <1>6, <1>7

\* The same for a concatenation by name
LEMMA ConcatOf ==
  ASSUME NEW s, NEW t, NEW u, IsSeq(s), IsSeq(t), u = s \o t
  PROVE  IsSeq(u) /\ \A i \in DOMAIN u : (\E k \in DOMAIN s : u[i] = s[k]) \/ \E k \in DOMAIN t : u[i] = t[k]
PROOF
<1> DEFINE v == s \o t
<1>1. IsSeq(v) /\ \A i \in DOMAIN v : (\E k \in DOMAIN s : v[i] = s[k]) \/ \E k \in DOMAIN t : v[i] = t[k]
  BY ConcatEach
<1>2. u = v
  OBVIOUS
<1> HIDE DEF v
<1> QED BY <1>1, <1>2

\* What is launched leaves clean calls in front of the rest of the flush.
LEMMA LaunchFrom ==
  ASSUME IInv, stack # <<>>, NEW op, IsOp(op), NEW x, Launch(op, <<x>> \o Rest), alive' = alive
  PROVE  \E s : /\ CleanSeq(s) /\ (\A i \in DOMAIN s : s[i].c \in {"match", "submit"})
                /\ stack' = s \o (<<x>> \o Rest)
PROOF
<1> DEFINE a == IF (op.out \cap Unbound # {} /\ Freq > 0) /\ ~Streaming(Policy) THEN <<Item("match")>> ELSE <<>>
           b == FreeAll(Dead(op))
           s == a \o b
           OK(u) == CleanSeq(u) /\ \A i \in DOMAIN u : u[i].c \in {"match", "submit"}
<1>1. stack' = s \o (<<x>> \o Rest)
  BY DEF Launch
<1>2. OK(b)
  <2>1. IsFiniteSet(Dead(op)) /\ Dead(op) \cap alive' = {}
    BY WindowAssumption, FS_Subset DEF Dead, IsOp, Touched
  <2>2. \A i \in DOMAIN b : FreesOnly(b[i])
    BY <2>1, FreeAllAre
  <2>3. CleanSeq(b)
    BY <2>1, CleanCalls
  <2> QED BY <2>2, <2>3 DEF FreesOnly
<1>3. OK(<<>>)
  BY CleanShort DEF CleanSeq
<1>4. OK(<<Item("match")>>)
  <2> DEFINE m == Item("match")
  <2>1. Clean(m) /\ m.c = "match"
    BY CleanItems, ItemIs
  <2> HIDE DEF m
  <2>2. CleanSeq(<<m>>) /\ \A i \in DOMAIN <<m>> : <<m>>[i] = m
    BY <2>1, CleanShort, ShortSeqs
  <2>3. OK(<<m>>)
    BY <2>1, <2>2
  <2> QED BY <2>3 DEF m
<1>5. OK(a)
  BY <1>3, <1>4
<1> HIDE DEF a, b
<1>6. OK(s)
  <2>1. CleanSeq(s)
    BY <1>2, <1>5, CleanConcat
  <2>2. \A i \in DOMAIN s : (\E k \in DOMAIN a : s[i] = a[k]) \/ \E k \in DOMAIN b : s[i] = b[k]
    <3>1. IsSeq(a) /\ IsSeq(b)
      BY <1>2, <1>5 DEF CleanSeq
    <3>2. s = a \o b
      OBVIOUS
    <3> HIDE DEF s
    <3> QED BY <3>1, <3>2, ConcatOf
  <2> HIDE DEF s
  <2>3. \A i \in DOMAIN s : s[i].c \in {"match", "submit"}
    BY <1>2, <1>5, <2>2
  <2> QED BY <2>1, <2>3
<1> HIDE DEF s
<1> QED BY <1>1, <1>6

\* One item in front of others
LEMMA OneInFront ==
  ASSUME NEW x, NEW r, IsSeq(r)
  PROVE  IsSeq(<<x>> \o r) /\ \A i \in DOMAIN (<<x>> \o r) : (<<x>> \o r)[i] = x \/ \E k \in DOMAIN r : (<<x>> \o r)[i] = r[k]
PROOF
<1> DEFINE h == <<x>>
           v == h \o r
<1>1. IsSeq(h) /\ \A i \in DOMAIN h : h[i] = x
  BY ShortSeqs
<1> HIDE DEF h
<1>2. IsSeq(v) /\ \A i \in DOMAIN v : (\E k \in DOMAIN h : v[i] = h[k]) \/ \E k \in DOMAIN r : v[i] = r[k]
  BY <1>1, ConcatEach, SMTT(60)
<1> HIDE DEF v
<1>3. IsSeq(v) /\ \A i \in DOMAIN v : v[i] = x \/ \E k \in DOMAIN r : v[i] = r[k]
  BY <1>1, <1>2
<1> QED BY <1>3 DEF v, h

\* One item between others
LEMMA OneBetween ==
  ASSUME NEW s, IsSeq(s), NEW x, NEW r, IsSeq(r)
  PROVE  \A i \in DOMAIN (s \o (<<x>> \o r)) :
            \/ \E k \in DOMAIN s : (s \o (<<x>> \o r))[i] = s[k]
            \/ (s \o (<<x>> \o r))[i] = x
            \/ \E k \in DOMAIN r : (s \o (<<x>> \o r))[i] = r[k]
PROOF
<1> DEFINE v == <<x>> \o r
<1>1. IsSeq(v) /\ \A i \in DOMAIN v : v[i] = x \/ \E k \in DOMAIN r : v[i] = r[k]
  BY OneInFront
<1> HIDE DEF v
<1> DEFINE u == s \o v
<1>2. IsSeq(u) /\ \A i \in DOMAIN u : (\E k \in DOMAIN s : u[i] = s[k]) \/ \E k \in DOMAIN v : u[i] = v[k]
  <2>1. IsSeq(v) /\ IsSeq(s)
    BY <1>1
  <2> QED BY <2>1, ConcatEach, SMTT(60)
<1> HIDE DEF u
<1>3. \A i \in DOMAIN u : (\E k \in DOMAIN s : u[i] = s[k]) \/ u[i] = x \/ \E k \in DOMAIN r : u[i] = r[k]
  BY <1>1, <1>2
<1> QED BY <1>3 DEF u, v

\* All items but one are clean or from the stack.
LEMMA FromLaunch ==
  ASSUME IInv, stack # <<>>, NEW s, CleanSeq(s), NEW x, stack' = s \o (<<x>> \o Rest)
  PROVE  \A i \in DOMAIN stack' : Clean(stack'[i]) \/ stack'[i] = x \/ \E j \in DOMAIN stack : stack'[i] = stack[j]
PROOF
<1> DEFINE u == s \o (<<x>> \o Rest)
<1>1. IsSeq(s) /\ IsSeq(Rest) /\ \A i \in DOMAIN Rest : Rest[i] = stack[i + 1] /\ i + 1 \in DOMAIN stack
  BY RestIs DEF IInv, StackOK, CleanSeq
<1>2. \A i \in DOMAIN u : (\E k \in DOMAIN s : u[i] = s[k]) \/ u[i] = x \/ \E k \in DOMAIN Rest : u[i] = Rest[k]
  BY <1>1, OneBetween
<1>3. stack' = u
  OBVIOUS
<1> HIDE DEF u
<1>4. \A i \in DOMAIN u : Clean(u[i]) \/ u[i] = x \/ \E j \in DOMAIN stack : u[i] = stack[j]
  BY <1>1, <1>2 DEF CleanSeq
<1> QED BY <1>3, <1>4

\* One item takes the place of the running one.
LEMMA FromOne ==
  ASSUME IInv, stack # <<>>, NEW x, stack' = <<x>> \o Rest
  PROVE  \A i \in DOMAIN stack' : stack'[i] = x \/ \E j \in DOMAIN stack : stack'[i] = stack[j]
PROOF
<1> DEFINE v == <<x>> \o Rest
<1>1. IsSeq(Rest) /\ \A i \in DOMAIN Rest : Rest[i] = stack[i + 1] /\ i + 1 \in DOMAIN stack
  BY RestIs DEF IInv, StackOK
<1>2. \A i \in DOMAIN v : v[i] = x \/ \E k \in DOMAIN Rest : v[i] = Rest[k]
  BY <1>1, OneInFront
<1>3. stack' = v
  OBVIOUS
<1> HIDE DEF v
<1>4. \A i \in DOMAIN v : v[i] = x \/ \E j \in DOMAIN stack : v[i] = stack[j]
  BY <1>1, <1>2
<1> QED BY <1>3, <1>4

\* An operation of a prefix: a fence, or the operation of the window in its place, with the strategy
\* it was checked with
FromWindow(o, i) ==
  \/ o.checked = NoStrategy /\ ~Strategic(o)
  \/ /\ i \in DOMAIN window /\ Alike(o, window[i]) /\ o.checked = Strategy(window[i], key)
     /\ i <= StreamableLen(window) \/ i = 1

\* The operations that get their strategies
LEMMA AssignedAlike ==
  ASSUME NEW ops, NEW i \in DOMAIN ops, DOMAIN ops[i] = OpFields
  PROVE  Alike(Assigned(ops)[i], ops[i]) /\ Assigned(ops)[i].checked = Strategy(ops[i], key)
PROOF
<1> DEFINE a == Assigned(ops)
           size == Cardinality(Counted(ops))
           s == Strategy(ops[i], key)
           o == ops[i]
           c == [o EXCEPT !.checked = s]
           g == gens + 1
           t == [c EXCEPT !.gen = g, !.size = size]
<1>1. a[i] = IF i \in Counted(ops) THEN t ELSE c
  BY DEF Assigned
<1> HIDE DEF a, size, s, o, g
<1>2. DOMAIN o = OpFields
  BY DEF o
<1>3. DOMAIN c = OpFields /\ Alike(c, o) /\ c.checked = s
  BY <1>2 DEF Alike, OpFields, Plain
<1> HIDE DEF c
<1>4. Alike(t, o) /\ t.checked = s
  BY <1>3 DEF Alike, OpFields, Plain
<1> HIDE DEF t
<1> QED BY <1>1, <1>3, <1>4 DEF a, s, o

\* The tasks of ops that belong to a generation
Members(ops) == {k \in DOMAIN ops : ops[k].gen # 0}

\* Each of them knows how many they are.
Numbered(ops) ==
  \A k \in Members(ops) : IsTask(ops[k]) /\ ~IsSingleton(ops[k]) /\ ops[k].size = Cardinality(Members(ops))

\* Those are the ones that get a generation.
LEMMA AssignedNumbered ==
  ASSUME gens \in Nat, NEW ops, \A i \in DOMAIN ops : DOMAIN ops[i] = OpFields /\ ops[i].gen = 0
  PROVE  Numbered(Assigned(ops))
PROOF
<1> DEFINE a == Assigned(ops)
           size == Cardinality(Counted(ops))
<1>1. DOMAIN a = DOMAIN ops
  BY DEF Assigned
<1>2. ASSUME NEW i \in DOMAIN ops
      PROVE  /\ a[i].kind = ops[i].kind /\ a[i].ld = ops[i].ld
             /\ IF i \in Counted(ops) THEN a[i].gen # 0 /\ a[i].size = size ELSE a[i].gen = 0
  <2> DEFINE s == Strategy(ops[i], key)
             o == ops[i]
             c == [o EXCEPT !.checked = s]
             g == gens + 1
             t == [c EXCEPT !.gen = g, !.size = size]
  <2>1. a[i] = IF i \in Counted(ops) THEN t ELSE c
    BY DEF Assigned
  <2>2. DOMAIN o = OpFields /\ o.gen = 0 /\ g # 0
    OBVIOUS
  <2> HIDE DEF a, size, s, o, g
  <2>3. DOMAIN c = OpFields /\ c.gen = 0 /\ c.kind = o.kind /\ c.ld = o.ld
    BY <2>2 DEF OpFields, Plain
  <2> HIDE DEF c
  <2>4. t.gen = g /\ t.size = size /\ t.kind = o.kind /\ t.ld = o.ld
    BY <2>3 DEF OpFields, Plain
  <2> HIDE DEF t
  <2> QED BY <2>1, <2>2, <2>3, <2>4 DEF o
<1> HIDE DEF a
<1>3. Members(a) = Counted(ops)
  BY <1>1, <1>2 DEF Members, Counted
<1>4. \A k \in Counted(ops) : k \in DOMAIN ops /\ IsTask(ops[k]) /\ ~IsSingleton(ops[k])
  BY DEF Counted
<1>5. \A k \in Counted(ops) : IsTask(a[k]) /\ ~IsSingleton(a[k]) /\ a[k].size = size
  BY <1>2, <1>4 DEF IsTask, IsSingleton
<1>6. Numbered(a)
  BY <1>3, <1>5 DEF Numbered
<1> QED BY <1>6 DEF a

\* A prefix is cut off with the strategies that were checked, or a strict scope throws.
LEMMA ExtractFrom ==
  ASSUME IInv, Extract
  PROVE  /\ scopes' = scopes /\ key' = key /\ log' = log /\ stack # <<>>
         /\ \/ CleanSeq(stack') /\ window' = <<>> /\ gens' = gens
            \/ /\ gens' = gens + 1
               /\ \A i \in DOMAIN window' : \E k \in DOMAIN window : window'[i] = window[k]
               /\ \E x : /\ x.c = "stream" /\ stack' = <<x>> \o Rest /\ IsSeq(x.ops)
                         /\ \A i \in DOMAIN x.ops : FromWindow(x.ops[i], i)
                         /\ Numbered(x.ops)
PROOF
<1> DEFINE n == PrefixLen(window)
           m == StreamableLen(window)
           first == SubSeq(window, 1, n)
           ops == Fenced(first)
           x == [Top EXCEPT !.ops = Assigned(ops)]
<1>1. stack # <<>> /\ Top.c = "stream" /\ Top.ops = <<>> /\ window # <<>>
      /\ UNCHANGED <<scopes, alive, life, dataVars, log, matchVars, calls>>
  BY DEF Extract, At
<1>2. StackOK /\ QueueOK(window, ids) /\ ids \in Nat /\ gens \in Nat /\ IsSeq(window)
  BY DEF IInv, WindowOK, DataOK, QueueOK
<1>3. ItemOK(Top, ids, gens) /\ IsSeq(Rest) /\ ItemsOK(Rest, ids, gens, Policy)
  BY <1>1, <1>2, RestIs DEF StackOK, Policy
<1>4. n \in 1..Len(window) /\ Len(window) \in Nat /\ DOMAIN window = 1..Len(window)
  BY <1>1, <1>2, PrefixLenIs, SeqIs
<1>5. CASE Policy.mode = "strict" /\ n < Len(window)
  <2>1. Throw("not streamable", Rest) /\ UNCHANGED <<ids, gens>>
    BY <1>5 DEF Extract
  <2>2. \A i \in DOMAIN Rest : Rest[i].c = "enter" => Rest[i].ops = <<>>
    BY <1>3 DEF ItemsOK, ItemOK
  <2>3. CleanSeq(stack') /\ window' = <<>>
    BY <2>1, <2>2, CleanThrow
  <2> QED BY <1>1, <2>1, <2>3 DEF dataVars
<1>6. CASE ~(Policy.mode = "strict" /\ n < Len(window))
  <2>1. /\ stack' = <<x>> \o Rest /\ ids' = Max({ids, Last(ops).id}) /\ gens' = gens + 1
        /\ window' = SubSeq(window, n + 1, Len(window))
    BY <1>6 DEF Extract, Remainder
  <2>2. m \in 0..Len(window) /\ (n = m \/ (n = m + 1 /\ (m = 0 \/ window[n].kind = "fence")))
    <3>1. m \in 0..Len(window)
      BY <1>2, StreamableAgrees
    <3>2. n = IF m < Len(window) /\ (m = 0 \/ window[m + 1].kind = "fence") THEN m + 1 ELSE m
      BY DEF PrefixLen
    <3> HIDE DEF n, m
    <3> QED BY <3>1, <3>2
  <2> HIDE DEF n, m
  <2>3. /\ QueueOK(first, ids) /\ Len(first) = n
        /\ \A i \in DOMAIN first : i \in DOMAIN window /\ first[i] = window[i]
        /\ \A i \in DOMAIN window' : n + i \in DOMAIN window /\ window'[i] = window[n + i]
    <3>1. n \in 0..Len(window)
      BY <1>4
    <3> QED BY <1>2, <2>1, <3>1, CutsAre
  <2> HIDE DEF first
  <2>4. first # <<>> /\ DOMAIN first = 1..n
    BY <1>4, <2>3, ShortSeqs, SeqIs DEF QueueOK
  <2>5. /\ IsSeq(ops) /\ ops # <<>> /\ Last(ops).kind = "fence"
        /\ \A i \in DOMAIN ops : /\ Waits(ops[i]) /\ ops[i].id \in 1..ids'
                                 /\ i \in DOMAIN first => ops[i] = first[i]
                                 /\ i \notin DOMAIN first => IsFence(ops[i])
    BY <1>2, <2>1, <2>3, <2>4, FencedIs
  <2> HIDE DEF ops
  <2> DEFINE a == Assigned(ops)
  <2>6. PrefixOK(a, ids', gens + 1) /\ DOMAIN a = DOMAIN ops
    BY <1>2, <2>5, AssignedIs
  <2>7. \A i \in DOMAIN ops : Alike(a[i], ops[i]) /\ a[i].checked = Strategy(ops[i], key)
    BY <2>5, AssignedAlike DEF Waits, IsOp
  <2>13. Numbered(a)
    BY <1>2, <2>5, AssignedNumbered DEF Waits, IsOp
  <2> HIDE DEF a
  <2>8. DOMAIN x = ItemFields /\ x.c = "stream" /\ x.ops = a
    <3>1. DOMAIN Top = ItemFields
      BY <1>3 DEF ItemOK
    <3> QED BY <1>1, <3>1, ItemWith DEF a
  <2> HIDE DEF x
  <2>9. ASSUME NEW i \in DOMAIN a PROVE FromWindow(a[i], i)
    <3>1. i \in DOMAIN ops /\ Alike(a[i], ops[i]) /\ a[i].checked = Strategy(ops[i], key)
      BY <2>6, <2>7
    <3>2. ASSUME ops[i].kind = "fence" PROVE a[i].checked = NoStrategy /\ ~Strategic(a[i])
      BY <3>1, <3>2 DEF Strategy, Strategic, Alike
    <3>3. CASE i \notin DOMAIN first
      BY <2>5, <3>1, <3>2, <3>3 DEF FromWindow, IsFence
    <3>4. CASE i \in DOMAIN first
      <4>1. ops[i] = window[i] /\ i \in DOMAIN window /\ i \in 1..n
        BY <2>3, <2>4, <2>5, <3>1, <3>4
      <4>2. i <= m \/ i = 1 \/ window[i].kind = "fence"
        BY <1>4, <2>2, <4>1
      <4> QED BY <3>1, <3>2, <4>1, <4>2 DEF FromWindow, m
    <3> QED BY <3>3, <3>4
  <2>10. \A i \in DOMAIN window' : \E k \in DOMAIN window : window'[i] = window[k]
    BY <2>3
  <2>11. IsSeq(x.ops) /\ \A i \in DOMAIN x.ops : FromWindow(x.ops[i], i)
    BY <2>6, <2>8, <2>9 DEF PrefixOK
  <2>12. Numbered(x.ops)
    BY <2>8, <2>13
  <2> QED BY <1>1, <2>1, <2>8, <2>10, <2>11, <2>12 DEF dataVars
<1> QED BY <1>5, <1>6

\* An operation of the window is launched.
LEMMA RunFrom ==
  ASSUME IInv, Run
  PROVE  /\ stack # <<>> /\ window # <<>> /\ window' = Tail(window) /\ window[1] = Head(window) /\ 1 \in DOMAIN window
         /\ gens' = gens /\ scopes' = scopes /\ Waits(Head(window)) /\ Top.c = "run"
         /\ \A i \in DOMAIN window' : window'[i] = window[i + 1] /\ i + 1 \in DOMAIN window
         /\ \E x, s : /\ x.c = "run" /\ x.ops = <<>> /\ x.n = Top.n - 1 /\ Top.n > 0 /\ Launch(Head(window), <<x>> \o Rest)
                      /\ CleanSeq(s) /\ (\A i \in DOMAIN s : s[i].c \in {"match", "submit"})
                      /\ stack' = s \o (<<x>> \o Rest)
PROOF
<1> DEFINE op == Head(window)
           k == Top.n - 1
           x == [Top EXCEPT !.n = k]
<1>1. stack # <<>> /\ Top.c = "run" /\ Top.n > 0 /\ window # <<>> /\ Launch(op, <<x>> \o Rest) /\ window' = Tail(window)
      /\ UNCHANGED <<scopes, exc, progVars, gens, outstanding, ids, calls>>
  BY DEF Run, At
<1>2. StackOK /\ QueueOK(window, ids)
  BY DEF IInv, WindowOK
<1>3. IsSeq(window) /\ op = window[1] /\ 1 \in DOMAIN window
  BY <1>1, <1>2, SeqIs DEF QueueOK
<1>4. Waits(op) /\ IsOp(op)
  BY <1>2, <1>3 DEF QueueOK, Waits
<1>5. ItemOK(Top, ids, gens)
  BY <1>1, <1>2, RestIs DEF StackOK
<1>6. x.c = "run" /\ x.ops = <<>> /\ x.n = k
  <2>1. DOMAIN Top = ItemFields /\ Top.ops = <<>>
    BY <1>1, <1>5 DEF ItemOK
  <2> HIDE DEF k
  <2> QED BY <1>1, <2>1, ItemWith
<1>7. \A i \in DOMAIN window' : window'[i] = window[i + 1] /\ i + 1 \in DOMAIN window
  BY <1>1, <1>3, TailIs
<1> HIDE DEF x, op
<1>8. \E s : /\ CleanSeq(s) /\ (\A i \in DOMAIN s : s[i].c \in {"match", "submit"})
             /\ stack' = s \o (<<x>> \o Rest)
  BY <1>1, <1>4, LaunchFrom DEF progVars
<1> QED BY <1>1, <1>3, <1>4, <1>6, <1>7, <1>8 DEF op, k

\* An operation of a prefix is launched.
LEMMA RunPrefixFrom ==
  ASSUME IInv, RunPrefix
  PROVE  /\ stack # <<>> /\ window' = window /\ gens' = gens /\ scopes' = scopes
         /\ Top.c = "stream" /\ Top = stack[1] /\ 1 \in DOMAIN stack /\ IsSeq(Top.ops) /\ 1 \in DOMAIN Top.ops
         /\ Head(Top.ops) = Top.ops[1] /\ IsOp(Head(Top.ops)) /\ Head(Top.ops).gen \in {0, gens}
         /\ \E x, s : /\ x.c = "stream" /\ Launch(Head(Top.ops), <<x>> \o Rest)
                      /\ \A i \in DOMAIN x.ops : x.ops[i] = Top.ops[i + 1] /\ i + 1 \in DOMAIN Top.ops
                      /\ IsSeq(x.ops) /\ Len(x.ops) = Len(Top.ops) - 1
                      /\ CleanSeq(s) /\ (\A i \in DOMAIN s : s[i].c \in {"match", "submit"})
                      /\ stack' = s \o (<<x>> \o Rest)
PROOF
<1> DEFINE ops == Top.ops
           op == Head(ops)
           r == Tail(ops)
           x == [Top EXCEPT !.ops = r]
<1>1. stack # <<>> /\ Top.c = "stream" /\ Top.ops # <<>> /\ Launch(op, <<x>> \o Rest)
      /\ UNCHANGED <<window, scopes, exc, progVars, gens, outstanding, ids, calls>>
  BY DEF RunPrefix, At
<1>2. StackOK
  BY DEF IInv
<1>3. ItemOK(Top, ids, gens) /\ Top = stack[1] /\ 1 \in DOMAIN stack
  BY <1>1, <1>2, RestIs, SeqIs DEF StackOK, CallOK
<1>4. PrefixOK(ops, ids, gens) /\ ops # <<>>
  BY <1>1, <1>3 DEF ItemOK
<1>5. IsSeq(ops) /\ op = ops[1] /\ 1 \in DOMAIN ops
  <2>1. IsSeq(ops)
    BY <1>4 DEF PrefixOK
  <2> QED BY <1>4, <2>1, SeqIs
<1>6. IsOp(op) /\ op.gen \in {0, gens}
  BY <1>4, <1>5 DEF PrefixOK
<1>7. IsSeq(r) /\ Len(r) = Len(ops) - 1 /\ \A i \in DOMAIN r : r[i] = ops[i + 1] /\ i + 1 \in DOMAIN ops
  BY <1>4, <1>5, TailIs
<1> HIDE DEF r, op
<1>8. x.c = "stream" /\ x.ops = r
  <2>1. DOMAIN Top = ItemFields
    BY <1>3 DEF ItemOK
  <2> QED BY <1>1, <2>1, ItemWith
<1> HIDE DEF x
<1>9. \E s : /\ CleanSeq(s) /\ (\A i \in DOMAIN s : s[i].c \in {"match", "submit"})
             /\ stack' = s \o (<<x>> \o Rest)
  BY <1>1, <1>6, LaunchFrom DEF progVars
<1>10. \A i \in DOMAIN x.ops : x.ops[i] = ops[i + 1] /\ i + 1 \in DOMAIN ops
  BY <1>7, <1>8
<1>11. IsSeq(x.ops) /\ Len(x.ops) = Len(ops) - 1
  BY <1>7, <1>8
<1> QED BY <1>1, <1>3, <1>5, <1>6, <1>8, <1>9, <1>10, <1>11 DEF op

\* What the program submits has not been checked and has the current policy.
LEMMA CallFrom ==
  ASSUME IInv, NEW t \in Tasks, Call(t)
  PROVE  /\ stack = <<>> /\ window' = window /\ scopes' = scopes /\ log' = log /\ gens' = gens /\ key' = key
         /\ \E x : /\ stack' = <<x>> /\ x.c = "submit" /\ x.ops = <<>> /\ Unchecked(x.op) /\ x.op.od = Policy.od
PROOF
<1> DEFINE life0 == [f \in Touched(t) |-> life[f]]
           src == [f \in t.in \cup t.red |-> wr[f]]
           fl == t.flush \/ Touched(t) \cap Attached # {}
           od == Policy.od
           op == [t EXCEPT !.id = ids + 1, !.od = od, !.life = life0, !.src = src, !.flush = fl]
           x == Submit(op)
<1>1. /\ stack = <<>> /\ stack' = <<x>>
      /\ UNCHANGED <<scopes, window, exc, alive, life, dataVars, log, gens, matchVars, ids>>
  BY DEF Call, Ready, Idle, Called
<1>2. t = Given(t)
  BY TasksAssumption
<1>3. DOMAIN t = OpFields
  BY TaskIs
<1>4. t.checked = NoStrategy
  <2> DEFINE g == Given(t)
  <2>1. g.checked = NoStrategy
    BY DEF Given, Plain
  <2>2. t = g
    BY <1>2
  <2> HIDE DEF g
  <2> QED BY <2>1, <2>2
<1> HIDE DEF life0, src, fl, od
<1>5. /\ op.checked = t.checked /\ op.kind = t.kind /\ op.in = t.in /\ op.out = t.out /\ op.red = t.red
      /\ op.ld = t.ld /\ op.part = t.part /\ op.od = od
  BY <1>3 DEF OpFields, Plain
<1> HIDE DEF op
<1>6. Unchecked(op)
  BY <1>4, <1>5 DEF Unchecked, Stems
<1>7. x.c = "submit" /\ x.ops = <<>> /\ x.op = op
  BY SubmitIs
<1> HIDE DEF x
<1> QED BY <1>1, <1>5, <1>6, <1>7 DEF od, dataVars
-----------------------------------------------------------------------------
(* Operations of a prefix agree *)

ItemAgrees(x) == (x.c = "submit" => Unchecked(x.op)) /\ PrefixAgrees(x.ops)

\* Nothing agrees with itself.
LEMMA CleanAgrees == PrefixAgrees(<<>>) /\ \A x : Clean(x) => ItemAgrees(x)
PROOF
<1>1. DOMAIN <<>> = {}
  BY ShortSeqs, SeqIs
<1>2. PrefixAgrees(<<>>)
  BY <1>1 DEF PrefixAgrees
<1> QED BY <1>2 DEF Clean, ItemAgrees

\* What a step has to show
LEMMA AgreeFrom ==
  ASSUME AgreeOK, \A i \in DOMAIN window' : Unchecked(window'[i]),
         \A i \in DOMAIN stack' : Clean(stack'[i]) \/ ItemAgrees(stack'[i]) \/ \E j \in DOMAIN stack : stack'[i] = stack[j]
  PROVE  AgreeOK'
PROOF
<1>1. \A i \in DOMAIN stack : ItemAgrees(stack[i])
  BY DEF AgreeOK, ItemAgrees
<1>2. \A i \in DOMAIN stack' : ItemAgrees(stack'[i])
  BY <1>1, CleanAgrees
<1> QED BY <1>2 DEF AgreeOK, ItemAgrees

\* It holds at the start.
LEMMA AgreeStarts == Init => AgreeOK
PROOF
<1>1. DOMAIN <<>> = {}
  BY ShortSeqs, SeqIs
<1> QED BY <1>1 DEF Init, AgreeOK

\* What is alike stays unchecked.
LEMMA UncheckedAlike ==
  ASSUME NEW o, NEW op, Alike(o, op), o.checked = op.checked, Unchecked(op)
  PROVE  Unchecked(o) /\ Stems(o)
PROOF
<1>1. Stems(o)
  BY StrategyAlike DEF Unchecked
<1> QED BY <1>1 DEF Unchecked

\* So do operations that are alike.
LEMMA AgreeAlike ==
  ASSUME NEW o, NEW p, NEW op, NEW q, Alike(o, op), Alike(p, q), NEW s, NEW t, Agree(op, s, q, t)
  PROVE  Agree(o, s, p, t)
BY DEF Agree, Alike, Touched, Storage

\* A prefix that was cut off the window agrees.
LEMMA CutAgrees ==
  ASSUME IsSeq(window), \A i \in DOMAIN window : Unchecked(window[i]), NEW ops, IsSeq(ops),
         \A i \in DOMAIN ops : FromWindow(ops[i], i)
  PROVE  PrefixAgrees(ops)
PROOF
<1> DEFINE m == StreamableLen(window)
<1>1. m \in Nat /\ AgreeUpTo(window, m)
  BY StreamableAgrees, SeqIs
<1>2. DOMAIN ops = 1..Len(ops) /\ Len(ops) \in Nat
  BY SeqIs
<1>3. ASSUME NEW i \in DOMAIN ops PROVE Stems(ops[i])
  <2>1. CASE ~Strategic(ops[i])
    BY <2>1 DEF Stems
  <2>2. CASE Strategic(ops[i])
    <3>1. i \in DOMAIN window /\ Alike(ops[i], window[i])
      BY <2>2 DEF FromWindow
    <3> QED BY <3>1, StrategyAlike DEF Unchecked
  <2> QED BY <2>1, <2>2
<1> HIDE DEF m
<1>4. ASSUME NEW i \in DOMAIN ops, NEW j \in DOMAIN ops, i < j,
             ops[i].checked # NoStrategy, ops[j].checked # NoStrategy
      PROVE  Agree(ops[i], ops[i].checked, ops[j], ops[j].checked)
  <2>1. /\ Alike(ops[i], window[i]) /\ ops[i].checked = Strategy(window[i], key)
        /\ Alike(ops[j], window[j]) /\ ops[j].checked = Strategy(window[j], key)
        /\ j <= m \/ j = 1
    BY <1>4 DEF FromWindow, m
  <2>2. i \in 1..m /\ j \in 1..m
    BY <1>1, <1>2, <1>4, <2>1
  <2>3. Agree(window[i], Strategy(window[i], key), window[j], Strategy(window[j], key))
    BY <1>1, <1>4, <2>2 DEF AgreeUpTo
  <2> QED BY <2>1, <2>3, AgreeAlike
<1>5. \A i, j \in DOMAIN ops : i < j => Agree(ops[i], ops[i].checked, ops[j], ops[j].checked)
  BY <1>4 DEF Agree
<1> QED BY <1>3, <1>5 DEF PrefixAgrees

\* The rest of a prefix agrees.
LEMMA RestAgrees ==
  ASSUME NEW ops, IsSeq(ops), PrefixAgrees(ops), NEW r, IsSeq(r),
         \A i \in DOMAIN r : r[i] = ops[i + 1] /\ i + 1 \in DOMAIN ops
  PROVE  PrefixAgrees(r)
PROOF
<1>1. \A i \in DOMAIN r : Stems(r[i])
  BY DEF PrefixAgrees
<1>2. DOMAIN r = 1..Len(r) /\ Len(r) \in Nat
  BY SeqIs
<1>3. \A i, j \in DOMAIN r : i < j => i + 1 < j + 1
  BY <1>2
<1>4. \A i, j \in DOMAIN r : i < j => Agree(r[i], r[i].checked, r[j], r[j].checked)
  BY <1>3 DEF PrefixAgrees
<1> QED BY <1>1, <1>4 DEF PrefixAgrees

\* Every step keeps it.
LEMMA AgreeKept ==
  ASSUME IInv, AgreeOK, [Next]_vars
  PROVE  AgreeOK'
PROOF
<1>1. CASE OtherSteps
  <2>1. StackFrom /\ (window' = window \/ window' = <<>>)
    BY <1>1, OthersFrom
  <2>2. DOMAIN <<>> = {}
    BY ShortSeqs, SeqIs
  <2>3. \A i \in DOMAIN window' : Unchecked(window'[i])
    BY <2>1, <2>2 DEF AgreeOK
  <2> QED BY <2>1, <2>3, AgreeFrom DEF StackFrom
<1>2. CASE DoSubmit
  <2>1. /\ StackFrom /\ Top.c = "submit" /\ Top = stack[1] /\ 1 \in DOMAIN stack
        /\ \E op : window' = Append(window, op) /\ Alike(op, Top.op) /\ op.checked = Top.op.checked
    BY <1>2, SubmitFrom
  <2>2. PICK op : window' = Append(window, op) /\ Alike(op, Top.op) /\ op.checked = Top.op.checked
    BY <2>1
  <2>3. Unchecked(op)
    BY <2>1, <2>2, UncheckedAlike DEF AgreeOK
  <2>4. /\ window'[Len(window) + 1] = op /\ DOMAIN window' = DOMAIN window \cup {Len(window) + 1}
        /\ \A i \in DOMAIN window : window'[i] = window[i]
    BY <2>2, AppendIs DEF IInv, WindowOK, QueueOK
  <2>5. \A i \in DOMAIN window' : Unchecked(window'[i])
    BY <2>3, <2>4 DEF AgreeOK
  <2> QED BY <2>1, <2>5, AgreeFrom DEF StackFrom
<1>3. CASE DoFlush
  <2>1. StackFrom /\ (window' = window \/ window' = <<>> \/ window' = PropagateDiscards(window))
    BY <1>3, FlushFrom
  <2>2. DOMAIN <<>> = {}
    BY ShortSeqs, SeqIs
  <2>3. \A i \in DOMAIN PropagateDiscards(window) : Unchecked(PropagateDiscards(window)[i])
    <3> DEFINE p == PropagateDiscards(window)
    <3>1. \A j \in DOMAIN p : \E i \in DOMAIN window : Alike(p[j], window[i]) /\ p[j].checked = window[i].checked
      BY PropagatedFrom DEF IInv, WindowOK, DataOK
    <3> HIDE DEF p
    <3>2. \A j \in DOMAIN p : Unchecked(p[j])
      BY <3>1, UncheckedAlike DEF AgreeOK
    <3> QED BY <3>2 DEF p
  <2>4. \A i \in DOMAIN window' : Unchecked(window'[i])
    <3>1. CASE window' = window
      BY <3>1 DEF AgreeOK
    <3>2. CASE window' = <<>>
      BY <2>2, <3>2
    <3>3. CASE window' = PropagateDiscards(window)
      BY <2>3, <3>3
    <3> QED BY <2>1, <3>1, <3>2, <3>3
  <2> QED BY <2>1, <2>4, AgreeFrom DEF StackFrom
<1>4. CASE Extract
  <2>1. \/ CleanSeq(stack') /\ window' = <<>>
        \/ /\ \A i \in DOMAIN window' : \E k \in DOMAIN window : window'[i] = window[k]
           /\ \E x : /\ x.c = "stream" /\ stack' = <<x>> \o Rest /\ IsSeq(x.ops)
                     /\ \A i \in DOMAIN x.ops : FromWindow(x.ops[i], i)
    BY <1>4, ExtractFrom
  <2>2. CASE CleanSeq(stack') /\ window' = <<>>
    <3>1. DOMAIN window' = {}
      BY <2>2, ShortSeqs, SeqIs
    <3>2. \A i \in DOMAIN stack' : Clean(stack'[i])
      BY <2>2 DEF CleanSeq
    <3> QED BY <3>1, <3>2, AgreeFrom
  <2>3. CASE /\ \A i \in DOMAIN window' : \E k \in DOMAIN window : window'[i] = window[k]
             /\ \E x : /\ x.c = "stream" /\ stack' = <<x>> \o Rest /\ IsSeq(x.ops)
                       /\ \A i \in DOMAIN x.ops : FromWindow(x.ops[i], i)
    <3>1. PICK x : /\ x.c = "stream" /\ stack' = <<x>> \o Rest /\ IsSeq(x.ops)
                   /\ \A i \in DOMAIN x.ops : FromWindow(x.ops[i], i)
      BY <2>3
    <3>2. PrefixAgrees(x.ops)
      <4>1. IsSeq(window) /\ \A i \in DOMAIN window : Unchecked(window[i])
        BY DEF IInv, WindowOK, QueueOK, AgreeOK
      <4> QED BY <3>1, <4>1, CutAgrees
    <3>3. ItemAgrees(x)
      BY <3>1, <3>2 DEF ItemAgrees
    <3>4. \A i \in DOMAIN stack' : stack'[i] = x \/ \E j \in DOMAIN stack : stack'[i] = stack[j]
      BY <1>4, <3>1, FromOne, ExtractFrom
    <3>5. \A i \in DOMAIN window' : Unchecked(window'[i])
      BY <2>3 DEF AgreeOK
    <3>6. \A i \in DOMAIN stack' : ItemAgrees(stack'[i]) \/ \E j \in DOMAIN stack : stack'[i] = stack[j]
      BY <3>3, <3>4
    <3> QED BY <3>5, <3>6, AgreeFrom
  <2> QED BY <2>1, <2>2, <2>3
<1>5. CASE Run
  <2>1. /\ stack # <<>> /\ \A i \in DOMAIN window' : window'[i] = window[i + 1] /\ i + 1 \in DOMAIN window
        /\ \E x, s : /\ x.c = "run" /\ x.ops = <<>> /\ CleanSeq(s) /\ stack' = s \o (<<x>> \o Rest)
    BY <1>5, RunFrom
  <2>2. PICK x, s : x.c = "run" /\ x.ops = <<>> /\ CleanSeq(s) /\ stack' = s \o (<<x>> \o Rest)
    BY <2>1
  <2>3. \A i \in DOMAIN stack' : Clean(stack'[i]) \/ stack'[i] = x \/ \E j \in DOMAIN stack : stack'[i] = stack[j]
    BY <2>1, <2>2, FromLaunch
  <2>4. ItemAgrees(x)
    BY <2>2, CleanAgrees DEF ItemAgrees
  <2>5. \A i \in DOMAIN stack' : Clean(stack'[i]) \/ ItemAgrees(stack'[i]) \/ \E j \in DOMAIN stack : stack'[i] = stack[j]
    BY <2>3, <2>4
  <2>6. \A i \in DOMAIN window' : Unchecked(window'[i])
    BY <2>1 DEF AgreeOK
  <2> QED BY <2>5, <2>6, AgreeFrom
<1>6. CASE RunPrefix
  <2>1. /\ stack # <<>> /\ window' = window /\ Top = stack[1] /\ 1 \in DOMAIN stack /\ IsSeq(Top.ops)
        /\ \E x, s : /\ x.c = "stream" /\ IsSeq(x.ops)
                     /\ \A i \in DOMAIN x.ops : x.ops[i] = Top.ops[i + 1] /\ i + 1 \in DOMAIN Top.ops
                     /\ CleanSeq(s) /\ stack' = s \o (<<x>> \o Rest)
    BY <1>6, RunPrefixFrom
  <2>2. PICK x, s : /\ x.c = "stream" /\ IsSeq(x.ops)
                    /\ \A i \in DOMAIN x.ops : x.ops[i] = Top.ops[i + 1] /\ i + 1 \in DOMAIN Top.ops
                    /\ CleanSeq(s) /\ stack' = s \o (<<x>> \o Rest)
    BY <2>1
  <2>3. \A i \in DOMAIN stack' : Clean(stack'[i]) \/ stack'[i] = x \/ \E j \in DOMAIN stack : stack'[i] = stack[j]
    BY <2>1, <2>2, FromLaunch
  <2>4. PrefixAgrees(Top.ops)
    BY <2>1 DEF AgreeOK
  <2>5. PrefixAgrees(x.ops)
    BY <2>1, <2>2, <2>4, RestAgrees
  <2>6. ItemAgrees(x)
    BY <2>2, <2>5 DEF ItemAgrees
  <2>7. \A i \in DOMAIN stack' : Clean(stack'[i]) \/ ItemAgrees(stack'[i]) \/ \E j \in DOMAIN stack : stack'[i] = stack[j]
    BY <2>3, <2>6
  <2>8. \A i \in DOMAIN window' : Unchecked(window'[i])
    BY <2>1 DEF AgreeOK
  <2> QED BY <2>7, <2>8, AgreeFrom
<1>7. ASSUME NEW t \in Tasks, Call(t) PROVE AgreeOK'
  <2>1. /\ window' = window /\ \E x : stack' = <<x>> /\ x.c = "submit" /\ x.ops = <<>> /\ Unchecked(x.op)
    BY <1>7, CallFrom
  <2>2. PICK x : stack' = <<x>> /\ x.c = "submit" /\ x.ops = <<>> /\ Unchecked(x.op)
    BY <2>1
  <2>3. \A i \in DOMAIN <<x>> : <<x>>[i] = x
    BY ShortSeqs
  <2>4. ItemAgrees(x)
    BY <2>2, CleanAgrees DEF ItemAgrees
  <2>5. \A i \in DOMAIN stack' : ItemAgrees(stack'[i])
    BY <2>2, <2>3, <2>4
  <2>6. \A i \in DOMAIN window' : Unchecked(window'[i])
    BY <2>1 DEF AgreeOK
  <2> QED BY <2>5, <2>6, AgreeFrom
<1> QED BY <1>1, <1>2, <1>3, <1>4, <1>5, <1>6, <1>7, Steps

-----------------------------------------------------------------------------
(* All operations that wait have one policy *)

\* None of the items begins or ends a scope.
NoScope(s) == \A i \in DOMAIN s : s[i].c \notin {"enter", "leave"}

\* It has the over-decomposition of the current scope.
UnderPolicy(op) == Strategic(op) => op.od = Policy.od

\* So has what is left of a prefix.
OnePrefix(x) == x.c # "submit" /\ (\A k \in DOMAIN x.ops : UnderPolicy(x.ops[k])) /\ (x.c = "run" => x.n \in Nat)

\* An empty window waits for nothing; neither does a stack without scopes.
LEMMA WaitsEasily == Clear(<<>>) /\ (Clear(window') => PolicyWaits') /\ (NoScope(stack') => PolicyWaits')
PROOF
<1>1. DOMAIN <<>> = {}
  BY ShortSeqs, SeqIs
<1> QED BY <1>1 DEF Clear, PolicyWaits, NoScope

\* Sequences without scopes
LEMMA NoScopes ==
  /\ NoScope(<<>>)
  /\ \A x : x.c \notin {"enter", "leave"} => NoScope(<<x>>)
  /\ \A x, y : x.c \notin {"enter", "leave"} /\ y.c \notin {"enter", "leave"} => NoScope(<<x, y>>)
PROOF
<1>1. NoScope(<<>>)
  BY ShortSeqs, SeqIs DEF NoScope
<1>2. ASSUME NEW x, x.c \notin {"enter", "leave"} PROVE NoScope(<<x>>)
  <2>1. \A i \in DOMAIN <<x>> : <<x>>[i] = x
    BY ShortSeqs
  <2> QED BY <1>2, <2>1 DEF NoScope
<1>3. ASSUME NEW x, NEW y, x.c \notin {"enter", "leave"}, y.c \notin {"enter", "leave"} PROVE NoScope(<<x, y>>)
  <2>1. \A i \in DOMAIN <<x, y>> : <<x, y>>[i] \in {x, y}
    BY ShortSeqs
  <2> QED BY <1>3, <2>1 DEF NoScope
<1> QED BY <1>1, <1>2, <1>3

\* Two of them
LEMMA NoScopeConcat ==
  ASSUME NEW s, NEW t, IsSeq(s), IsSeq(t), NoScope(s), NoScope(t) PROVE IsSeq(s \o t) /\ NoScope(s \o t)
PROOF
<1> DEFINE u == s \o t
<1>1. IsSeq(u) /\ \A i \in DOMAIN u : (\E k \in DOMAIN s : u[i] = s[k]) \/ \E k \in DOMAIN t : u[i] = t[k]
  BY ConcatEach
<1> HIDE DEF u
<1>2. IsSeq(u) /\ NoScope(u)
  BY <1>1 DEF NoScope
<1> QED BY <1>2 DEF u

\* The running item is replaced by others that launch as much.
LEMMA PolicyFrom ==
  ASSUME IInv, PolicyWaits, stack # <<>>, NEW new, IsSeq(new), NoScope(new), stack' = new \o Rest,
         Clear(window) => Clear(window'),
         \A i \in DOMAIN Rest : Covers(Rest[i], window) => Covers(Rest[i], window'),
         Covers(Top, window) => Clear(window') \/ \E i \in DOMAIN new : Covers(new[i], window')
  PROVE  PolicyWaits'
PROOF
<1> DEFINE u == new \o Rest
           n == Len(new)
<1>1. /\ Top = stack[1] /\ IsSeq(Rest) /\ \A i \in DOMAIN Rest : Rest[i] = stack[i + 1] /\ i + 1 \in DOMAIN stack
  BY RestIs DEF IInv, StackOK
<1>2. /\ IsSeq(stack) /\ DOMAIN stack = 1..Len(stack) /\ Len(stack) \in Nat
      /\ Len(Rest) \in Nat /\ DOMAIN Rest = 1..Len(Rest) /\ Len(Rest) = Len(stack) - 1
  <2>1. IsSeq(stack)
    BY DEF IInv, StackOK, CallOK
  <2>2. Len(Rest) = Len(stack) - 1
    BY <2>1, TailIs DEF Rest
  <2> QED BY <1>1, <2>1, <2>2, SeqIs
<1>3. n \in Nat /\ DOMAIN new = 1..n
  BY SeqIs
<1>4. /\ IsSeq(u) /\ Len(u) = n + Len(Rest) /\ \A i \in DOMAIN new : u[i] = new[i]
      /\ \A i \in DOMAIN Rest : u[n + i] = Rest[i]
      /\ \A i \in DOMAIN u : i \in DOMAIN new \/ (i - n \in DOMAIN Rest /\ i = n + (i - n))
  BY <1>1, ConcatIs
<1>5. stack' = u
  OBVIOUS
<1> HIDE DEF u, n
<1>6. ASSUME NEW i \in DOMAIN u, u[i].c \in {"enter", "leave"}
      PROVE  Clear(window') \/ \E j \in 1..(i - 1) : Covers(u[j], window')
  <2>1. i \notin DOMAIN new
    BY <1>4, <1>6 DEF NoScope
  <2> DEFINE k == i - n
  <2>2. k \in DOMAIN Rest /\ i = n + k
    BY <1>4, <2>1
  <2> HIDE DEF k
  <2>3. u[i] = stack[k + 1] /\ k + 1 \in DOMAIN stack /\ k \in 1..Len(Rest)
    BY <1>1, <1>2, <1>4, <2>2
  <2>4. Len(stack) # 1
    BY <1>2, <2>3
  <2>5. Clear(window) \/ \E j \in 1..((k + 1) - 1) : Covers(stack[j], window)
    BY <1>6, <2>3, <2>4 DEF PolicyWaits
  <2>6. CASE Clear(window)
    BY <2>6
  <2>7. CASE \E j \in 1..((k + 1) - 1) : Covers(stack[j], window)
    <3>1. PICK j \in 1..((k + 1) - 1) : Covers(stack[j], window)
      BY <2>7
    <3>2. j \in 1..k
      BY <2>3
    <3>3. CASE j = 1
      <4>1. Clear(window') \/ \E l \in DOMAIN new : Covers(new[l], window')
        BY <1>1, <3>1, <3>3
      <4>2. \A l \in DOMAIN new : l \in 1..(i - 1) /\ u[l] = new[l]
        BY <1>2, <1>3, <1>4, <2>2, <2>3
      <4> QED BY <4>1, <4>2
    <3>4. CASE j # 1
      <4> DEFINE l == j - 1
      <4>1. l \in DOMAIN Rest /\ j = l + 1 /\ n + l \in 1..(i - 1)
        BY <1>2, <1>3, <2>2, <2>3, <3>2, <3>4
      <4> HIDE DEF l
      <4>2. stack[j] = Rest[l] /\ u[n + l] = Rest[l]
        BY <1>1, <1>4, <4>1
      <4>3. Covers(u[n + l], window')
        BY <3>1, <4>1, <4>2
      <4> QED BY <4>1, <4>3
    <3> QED BY <3>3, <3>4
  <2> QED BY <2>5, <2>6, <2>7
<1>7. \A i \in DOMAIN stack' : stack'[i].c \in {"enter", "leave"} =>
         Clear(window') \/ \E j \in 1..(i - 1) : Covers(stack'[j], window')
  BY <1>5, <1>6
<1> QED BY <1>7 DEF PolicyWaits

\* With the window as it was
LEMMA PolicySame ==
  ASSUME IInv, PolicyWaits, stack # <<>>, NEW new, IsSeq(new), NoScope(new), stack' = new \o Rest, window' = window,
         Covers(Top, window) => Clear(window) \/ \E i \in DOMAIN new : Covers(new[i], window)
  PROVE  PolicyWaits'
BY PolicyFrom

\* With nothing new
LEMMA PolicyDone ==
  ASSUME IInv, PolicyWaits, stack # <<>>, stack' = Rest, window' = window, Covers(Top, window) => Clear(window)
  PROVE  PolicyWaits'
PROOF
<1>1. IsSeq(<<>>) /\ NoScope(<<>>)
  BY ShortSeqs, NoScopes
<1>2. stack' = <<>> \o Rest
  <2>1. IsSeq(Rest)
    BY RestIs DEF IInv, StackOK
  <2> QED BY <2>1, NothingInFront
<1> QED BY <1>1, <1>2, PolicySame

\* A change of policy comes behind a flush.
LEMMA ChangeIs ==
  ASSUME NEW new, NEW old
  PROVE  /\ IsSeq(Exchange(new, old)) /\ NoScope(Exchange(new, old))
         /\ new = old => Exchange(new, old) = <<>>
         /\ new # old => \E i \in DOMAIN Exchange(new, old) : Exchange(new, old)[i].c = "flush"
PROOF
<1> DEFINE s == Submit(Plain("fence"))
           m == Item("match")
           f == Flush("scope")
           a == IF Streaming(new) \/ Streaming(old) THEN <<s, m>> ELSE <<>>
           b == <<f>>
           u == a \o b
<1>1. Exchange(new, old) = IF new = old THEN <<>> ELSE u
  BY DEF Exchange
<1>2. s.c = "submit" /\ m.c = "match" /\ f.c = "flush"
  BY SubmitIs, ItemIs, OtherItems
<1> HIDE DEF s, m, f
<1>3. IsSeq(<<s, m>>) /\ NoScope(<<s, m>>) /\ IsSeq(<<>>) /\ NoScope(<<>>)
  BY <1>2, ShortSeqs, NoScopes
<1>4. IsSeq(a) /\ NoScope(a)
  BY <1>3
<1>5. IsSeq(b) /\ NoScope(b) /\ 1 \in DOMAIN b /\ b[1] = f
  <2>1. IsSeq(b) /\ Len(b) = 1 /\ b[1] = f
    BY ShortSeqs
  <2> QED BY <1>2, <2>1, SeqIs, NoScopes
<1> HIDE DEF a, b
<1>6. IsSeq(u) /\ NoScope(u)
  BY <1>4, <1>5, NoScopeConcat
<1>7. \E i \in DOMAIN u : u[i] = f
  <2>1. /\ IsSeq(u) /\ Len(u) = Len(a) + Len(b) /\ \A i \in DOMAIN b : u[Len(a) + i] = b[i]
    BY <1>4, <1>5, ConcatIs
  <2> HIDE DEF u
  <2>2. Len(a) \in Nat /\ Len(b) \in Nat /\ DOMAIN b = 1..Len(b) /\ DOMAIN u = 1..Len(u)
    BY <1>4, <1>5, <2>1, SeqIs
  <2>3. Len(a) + 1 \in DOMAIN u
    BY <1>5, <2>1, <2>2
  <2> QED BY <1>5, <2>1, <2>3
<1> HIDE DEF u
<1> QED BY <1>1, <1>2, <1>3, <1>6, <1>7

\* A scope begins or ends.
LEMMA PolicyChanges ==
  ASSUME NEW new, NEW old, NEW y, y.c \in {"enter", "leave"}, stack' = Append(Exchange(new, old), y),
         new = old => Stays(y)'
  PROVE  PolicyWaits'
PROOF
<1> DEFINE e == Exchange(new, old)
           u == Append(e, y)
<1>1. /\ IsSeq(e) /\ NoScope(e) /\ (new = old => e = <<>>)
      /\ new # old => \E i \in DOMAIN e : e[i].c = "flush"
  BY ChangeIs
<1>2. stack' = u
  OBVIOUS
<1> HIDE DEF e
<1>3. /\ IsSeq(u) /\ Len(u) = Len(e) + 1 /\ \A i \in DOMAIN e : u[i] = e[i]
      /\ u[Len(e) + 1] = y /\ DOMAIN u = DOMAIN e \cup {Len(e) + 1}
  BY <1>1, AppendIs
<1> HIDE DEF u
<1>4. Len(e) \in Nat /\ DOMAIN e = 1..Len(e) /\ (e = <<>> <=> Len(e) = 0)
  BY <1>1, SeqIs
<1>5. ASSUME NEW i \in DOMAIN u, u[i].c \in {"enter", "leave"} PROVE i = Len(e) + 1 /\ u[i] = y
  BY <1>1, <1>3, <1>5 DEF NoScope
<1>6. CASE new = old
  <2>1. Len(u) = 1 /\ \A i \in DOMAIN u : u[i] = y
    BY <1>1, <1>3, <1>4, <1>6
  <2>2. \A i \in DOMAIN stack' : Len(stack') = 1 /\ stack'[i] = y
    BY <1>2, <2>1
  <2> QED BY <1>6, <2>2 DEF PolicyWaits
<1>7. CASE new # old
  <2>1. PICK j \in DOMAIN e : e[j].c = "flush"
    BY <1>1, <1>7
  <2>2. ASSUME NEW i \in DOMAIN u, u[i].c \in {"enter", "leave"}
        PROVE  \E k \in 1..(i - 1) : u[k].c = "flush"
    <3>1. i = Len(e) + 1
      BY <1>5, <2>2
    <3>2. j \in 1..(i - 1) /\ u[j].c = "flush"
      BY <1>3, <1>4, <2>1, <3>1
    <3> QED BY <3>2
  <2>3. \A i \in DOMAIN stack' : stack'[i].c \in {"enter", "leave"} => \E k \in 1..(i - 1) : stack'[k].c = "flush"
    BY <1>2, <2>2
  <2>4. \A i \in DOMAIN stack' : stack'[i].c \in {"enter", "leave"} => \E k \in 1..(i - 1) : Covers(stack'[k], window')
    BY <2>3 DEF Covers
  <2> QED BY <2>4 DEF PolicyWaits
<1> QED BY <1>6, <1>7

\* Steps that only make and remove items
LEMMA OthersPolicy ==
  ASSUME IInv, OnePolicy, OtherSteps
  PROVE  /\ PolicyWaits'
         /\ scopes' = scopes \/ ((Enter \/ EndOfScope) /\ stack # <<>> /\ window' = window /\ stack' = Rest)
         /\ Top.c # "submit" \/ stack = <<>> \/ UNCHANGED stack
PROOF
<1>0. PolicyWaits
  BY DEF OnePolicy
<1>1. CASE EndFlush
  <2>1. /\ stack # <<>> /\ stack' = Rest /\ window' = window /\ scopes' = scopes /\ Top.c \in {"run", "stream"}
        /\ window = <<>> \/ (Top.c = "run" /\ Top.n = 0)
    BY <1>1 DEF EndFlush, At
  <2>2. Covers(Top, window) => Clear(window)
    <3>1. CASE window = <<>>
      BY <3>1, WaitsEasily
    <3>2. CASE Top.c = "run" /\ Top.n = 0
      <4>1. \A k \in DOMAIN window : k > 0
        BY SeqIs DEF IInv, WindowOK, QueueOK
      <4> QED BY <3>2, <4>1 DEF Covers, Clear
    <3> QED BY <2>1, <3>1, <3>2
  <2> QED BY <1>0, <2>1, <2>2, PolicyDone
<1>2. CASE DoMatch
  <2> DEFINE i == Item("issue")
             new == IF Freq > 0 /\ credit >= Freq THEN Process \o <<i>> ELSE <<>>
  <2>1. /\ stack # <<>> /\ window' = window /\ scopes' = scopes /\ Top.c \in {"match", "process", "matched", "issue"}
        /\ stack' = new \o Rest \/ stack' = Process \o Rest \/ stack' = Rest
    BY <1>2 DEF DoMatch, At
  <2>2. ~Covers(Top, window)
    BY <2>1 DEF Covers
  <2>3. IsSeq(<<>>) /\ NoScope(<<>>)
    BY ShortSeqs, NoScopes
  <2>4. IsSeq(Process) /\ NoScope(Process)
    <3> DEFINE f == Flush("match")
               m == Item("matched")
    <3>1. f.c = "flush" /\ m.c = "matched"
      BY OtherItems, ItemIs
    <3>2. Process = IF outstanding THEN <<f, m>> ELSE <<>>
      BY DEF Process
    <3> HIDE DEF f, m
    <3>3. IsSeq(<<f, m>>) /\ NoScope(<<f, m>>)
      BY <3>1, ShortSeqs, NoScopes
    <3> QED BY <2>3, <3>2, <3>3
  <2>5. i.c = "issue"
    BY ItemIs
  <2> HIDE DEF i
  <2>6. IsSeq(<<i>>) /\ NoScope(<<i>>)
    BY <2>5, ShortSeqs, NoScopes
  <2>7. IsSeq(Process \o <<i>>) /\ NoScope(Process \o <<i>>)
    BY <2>4, <2>6, NoScopeConcat
  <2>8. IsSeq(new) /\ NoScope(new)
    BY <2>3, <2>7
  <2> HIDE DEF new
  <2>9. PolicyWaits'
    BY <1>0, <2>1, <2>2, <2>4, <2>8, PolicySame, PolicyDone
  <2> QED BY <2>1, <2>9
<1>3. CASE Reuse
  <2> DEFINE f == Top.field
             a == Flush("reuse")
             b == ForField("detached", f)
             new == IF att[f] = "pending" THEN <<a, b>> ELSE <<>>
  <2>1. /\ stack # <<>> /\ window' = window /\ scopes' = scopes /\ Top.c \in {"reuse", "detached"}
        /\ stack' = new \o Rest \/ stack' = Rest \/ stack' = <<>>
    BY <1>3 DEF Reuse, At, Abort
  <2>2. ~Covers(Top, window)
    BY <2>1 DEF Covers
  <2>3. IsSeq(<<>>) /\ NoScope(<<>>)
    BY ShortSeqs, NoScopes
  <2>4. a.c = "flush" /\ b.c = "detached"
    BY OtherItems
  <2> HIDE DEF a, b
  <2>5. IsSeq(new) /\ NoScope(new)
    <3>1. IsSeq(<<a, b>>) /\ NoScope(<<a, b>>)
      BY <2>4, ShortSeqs, NoScopes
    <3> QED BY <2>3, <3>1
  <2> HIDE DEF new
  <2>6. PolicyWaits'
    BY <1>0, <2>1, <2>2, <2>3, <2>5, PolicySame, PolicyDone, WaitsEasily
  <2> QED BY <2>1, <2>6
<1>4. CASE NewStore
  <2> DEFINE f == Top.field
             op == [Plain("attach") EXCEPT !.out = {f}, !.id = ids + 1, !.life = (f :> life[f] + 1)]
             x == Submit(op)
             new == IF f \in Attached THEN <<x>> ELSE <<>>
  <2>1. stack # <<>> /\ stack' = new \o Rest /\ window' = window /\ scopes' = scopes /\ Top.c = "new"
    BY <1>4 DEF NewStore, At
  <2> HIDE DEF op
  <2>2. x.c = "submit"
    BY SubmitIs
  <2> HIDE DEF x
  <2>3. IsSeq(<<>>) /\ NoScope(<<>>) /\ IsSeq(<<x>>) /\ NoScope(<<x>>)
    BY <2>2, ShortSeqs, NoScopes
  <2>4. IsSeq(new) /\ NoScope(new)
    BY <2>3
  <2> HIDE DEF new
  <2>5. ~Covers(Top, window)
    BY <2>1 DEF Covers
  <2>6. PolicyWaits'
    BY <1>0, <2>1, <2>4, <2>5, PolicySame
  <2> QED BY <2>1, <2>6
<1>5. CASE Enter \/ EndOfScope
  <2>1. stack # <<>> /\ stack' = Rest /\ window' = window /\ Top.c \in {"enter", "leave"}
    BY <1>5 DEF Enter, EndOfScope, At
  <2>2. ~Covers(Top, window)
    BY <2>1 DEF Covers
  <2> QED BY <1>0, <1>5, <2>1, <2>2, PolicyDone
<1>6. ASSUME NEW f \in Fields, Create(f)
      PROVE  PolicyWaits' /\ scopes' = scopes /\ stack = <<>>
  <2> DEFINE managed == Freq > 0 /\ f \notin Unbound
             xa == Item("match")
             xb == ForField("reuse", f)
             xp == Item("process")
             xc == ForField("new", f)
             a == IF managed /\ ~Streaming(Policy) THEN <<xa>> ELSE <<>>
             b == IF life[f] > 0 THEN <<xb>> ELSE IF managed THEN <<xp>> ELSE <<>>
             c == <<xc>>
  <2>1. stack' = a \o b \o c /\ scopes' = scopes /\ stack = <<>>
    BY <1>6 DEF Create, Called, Ready, Idle
  <2>2. xa.c = "match" /\ xb.c = "reuse" /\ xp.c = "process" /\ xc.c = "new"
    BY ItemIs, OtherItems
  <2> HIDE DEF xa, xb, xp, xc
  <2>3. /\ IsSeq(<<>>) /\ NoScope(<<>>) /\ IsSeq(<<xa>>) /\ NoScope(<<xa>>) /\ IsSeq(<<xb>>) /\ NoScope(<<xb>>)
        /\ IsSeq(<<xp>>) /\ NoScope(<<xp>>) /\ IsSeq(<<xc>>) /\ NoScope(<<xc>>)
    BY <2>2, ShortSeqs, NoScopes
  <2>4. IsSeq(a) /\ NoScope(a) /\ IsSeq(b) /\ NoScope(b) /\ IsSeq(c) /\ NoScope(c)
    BY <2>3
  <2> HIDE DEF a, b, c
  <2> DEFINE ab == a \o b
  <2>5. IsSeq(ab) /\ NoScope(ab)
    BY <2>4, NoScopeConcat
  <2>6. stack' = ab \o c
    BY <2>1
  <2> HIDE DEF ab
  <2>7. NoScope(stack')
    BY <2>4, <2>5, <2>6, NoScopeConcat
  <2> QED BY <2>1, <2>7, WaitsEasily
<1>7. ASSUME NEW f \in Fields, Drop(f)
      PROVE  PolicyWaits' /\ scopes' = scopes /\ stack = <<>>
  <2>1. (stack' = FreeCalls(f) \/ stack' = <<>>) /\ scopes' = scopes /\ stack = <<>>
    BY <1>7 DEF Drop, Called, Ready, Idle
  <2>2. NoScope(FreeCalls(f))
    <3> DEFINE s == FreeCalls(f)
    <3>1. IsSeq(s) /\ Len(s) = 2 /\ \A i \in 1..2 : FreesOnly(s[i])
      BY FreeCallsAre
    <3> HIDE DEF s
    <3>2. \A i \in DOMAIN s : i = 1 \/ i = 2
      BY <3>1, SeqIs
    <3>3. NoScope(s)
      BY <3>1, <3>2 DEF FreesOnly, NoScope
    <3> QED BY <3>3 DEF s
  <2> QED BY <2>1, <2>2, NoScopes, WaitsEasily
<1>8. ASSUME NEW p \in Policies, BeginScope(p)
      PROVE  PolicyWaits' /\ scopes' = scopes /\ stack = <<>>
  <2> DEFINE enter == [Item("enter") EXCEPT !.pol = p]
  <2>1. /\ scopes' = scopes /\ stack = <<>>
        /\ \/ Throw("nesting", <<enter>>)
           \/ stack' = Append(Exchange(p, Policy), enter)
    BY <1>8 DEF BeginScope, Ready, Idle
  <2>2. enter.c = "enter" /\ enter.ops = <<>> /\ enter.pol = p
    BY ItemIs, ItemWith
  <2> HIDE DEF enter
  <2>3. CASE Throw("nesting", <<enter>>)
    <3>1. window' = <<>>
      BY <2>3 DEF Throw, ClearedOnThrow
    <3> QED BY <2>1, <3>1, WaitsEasily
  <2>4. CASE stack' = Append(Exchange(p, Policy), enter)
    <3> DEFINE cur == Policy
    <3>1. p = cur => Stays(enter)'
      <4>1. Policy' = Policy
        BY <2>1 DEF Policy
      <4> QED BY <2>2, <4>1 DEF Stays
    <3>2. stack' = Append(Exchange(p, cur), enter)
      BY <2>4
    <3> HIDE DEF cur
    <3> QED BY <2>1, <2>2, <3>1, <3>2, PolicyChanges
  <2> QED BY <2>1, <2>3, <2>4
<1>9. CASE EndScope
  <2> DEFINE cur == Policy
             outer == scopes[Len(scopes) - 1]
  <2>1. stack' = EndCalls(cur, outer) /\ scopes' = scopes /\ stack = <<>>
    BY <1>9 DEF EndScope, Idle
  <2>2. Leave.c = "leave"
    BY ItemIs DEF Leave
  <2>3. outer = cur => Stays(Leave)'
    <3>1. Policy' = Policy
      BY <2>1 DEF Policy
    <3> QED BY <2>1, <2>2, <3>1 DEF Stays
  <2> HIDE DEF cur, outer
  <2>4. stack' = Append(Exchange(outer, cur), Leave)
    BY <2>1 DEF EndCalls
  <2> QED BY <2>1, <2>2, <2>3, <2>4, PolicyChanges
<1>10. CASE Catch \/ UNCHANGED vars
  <2>1. UNCHANGED <<stack, window, scopes>>
    BY <1>10 DEF Catch, vars
  <2> QED BY <1>0, <2>1 DEF PolicyWaits, Stays, Policy
<1> QED BY <1>1, <1>2, <1>3, <1>4, <1>5, <1>6, <1>7, <1>8, <1>9, <1>10 DEF OtherSteps

\* The running item submits an operation.
LEMMA SubmitPolicy ==
  ASSUME IInv, OnePolicy, DoSubmit
  PROVE  PolicyWaits' /\ \A i \in DOMAIN stack' : stack'[i].c = "flush" \/ \E j \in DOMAIN Rest : stack'[i] = Rest[j]
PROOF
<1> DEFINE o == Top.op
           op == IF o.id # 0 THEN o ELSE [o EXCEPT !.id = ids + 1]
           x == Flush("op")
           new == IF op.flush \/ TooBig(window') THEN <<x>> ELSE <<>>
<1>1. /\ stack # <<>> /\ Top.c = "submit" /\ stack' = new \o Rest
  BY DEF DoSubmit, At, Queued
<1> HIDE DEF op
<1>2. x.c = "flush"
  BY OtherItems
<1> HIDE DEF x
<1>3. IsSeq(<<>>) /\ NoScope(<<>>) /\ IsSeq(<<x>>) /\ NoScope(<<x>>) /\ (\A i \in DOMAIN <<>> : FALSE)
      /\ \A i \in DOMAIN <<x>> : <<x>>[i] = x
  BY <1>2, ShortSeqs, SeqIs, NoScopes
<1>4. IsSeq(new) /\ NoScope(new) /\ \A i \in DOMAIN new : new[i].c = "flush"
  BY <1>2, <1>3
<1> HIDE DEF new
<1>5. IsSeq(Rest)
  BY <1>1, RestIs DEF IInv, StackOK
<1>6. \A i \in DOMAIN stack' : stack'[i].c = "flush" \/ \E j \in DOMAIN Rest : stack'[i] = Rest[j]
  <2> DEFINE u == new \o Rest
  <2>1. \A i \in DOMAIN u : (\E k \in DOMAIN new : u[i] = new[k]) \/ \E k \in DOMAIN Rest : u[i] = Rest[k]
    <3>1. IsSeq(new) /\ IsSeq(Rest)
      BY <1>4, <1>5
    <3> QED BY <3>1, ConcatEach, SMTT(60)
  <2>2. stack' = u
    BY <1>1
  <2> HIDE DEF u
  <2> QED BY <1>4, <2>1, <2>2
<1>7. PICK p : window' = Append(window, p) /\ Alike(p, o)
  BY SubmitFrom
<1>8. Top = stack[1] /\ 1 \in DOMAIN stack
  BY SubmitFrom
<1>9. CASE Strategic(o)
  <2>1. Len(stack) = 1
    BY <1>1, <1>8, <1>9 DEF OnePolicy
  <2>2. IsSeq(stack) /\ Len(Rest) = Len(stack) - 1
    <3>1. IsSeq(stack)
      BY DEF IInv, StackOK, CallOK
    <3> QED BY <1>1, <3>1, TailIs DEF Rest
  <2>3. NoScope(Rest)
    <3>1. Rest = <<>>
      BY <1>5, <2>1, <2>2, SeqIs
    <3> QED BY <1>3, <3>1
  <2>4. NoScope(stack')
    BY <1>1, <1>4, <1>5, <2>3, NoScopeConcat
  <2> QED BY <1>6, <2>4, WaitsEasily
<1>10. CASE ~Strategic(o)
  <2>1. ~Strategic(p)
    BY <1>7, <1>10 DEF Alike, Strategic
  <2>2. \A i \in DOMAIN window' : (i \in DOMAIN window /\ window'[i] = window[i]) \/ window'[i] = p
    <3>1. IsSeq(window)
      BY DEF IInv, WindowOK, QueueOK
    <3> QED BY <1>7, <3>1, AppendIs
  <2>3. Clear(window) => Clear(window')
    BY <2>1, <2>2 DEF Clear
  <2>4. \A i \in DOMAIN Rest : Covers(Rest[i], window) => Covers(Rest[i], window')
    BY <2>1, <2>2 DEF Covers
  <2>5. ~Covers(Top, window)
    BY <1>1 DEF Covers
  <2>6. PolicyWaits
    BY DEF OnePolicy
  <2> QED BY <1>1, <1>4, <1>6, <2>3, <2>4, <2>5, <2>6, PolicyFrom
<1> QED BY <1>9, <1>10

\* It flushes the window.
LEMMA FlushPolicy ==
  ASSUME IInv, OnePolicy, DoFlush
  PROVE  PolicyWaits' /\ Top.c = "flush"
PROOF
<1>1. stack # <<>> /\ Top.c = "flush"
  BY DEF DoFlush, At
<1>2. PolicyWaits
  BY DEF OnePolicy
<1>3. StackOK
  BY DEF IInv
<1>4. CASE ~Streaming(Policy)
  <2> DEFINE x == [Item("run") EXCEPT !.n = Len(window)]
  <2>1. stack' = <<x>> \o Rest /\ window' = window
    BY <1>4 DEF DoFlush
  <2>2. x.c = "run" /\ x.n = Len(window)
    BY ItemIs, ItemWith
  <2> HIDE DEF x
  <2>3. IsSeq(<<x>>) /\ NoScope(<<x>>) /\ 1 \in DOMAIN <<x>> /\ <<x>>[1] = x
    BY <2>2, ShortSeqs, SeqIs, NoScopes
  <2>4. Covers(x, window)
    <3>1. \A k \in DOMAIN window : ~(k > Len(window))
      BY SeqIs DEF IInv, WindowOK, QueueOK
    <3> QED BY <2>2, <3>1 DEF Covers
  <2> DEFINE new == <<x>>
  <2>5. IsSeq(new) /\ NoScope(new) /\ stack' = new \o Rest /\ \E i \in DOMAIN new : Covers(new[i], window)
    BY <2>1, <2>3, <2>4
  <2> HIDE DEF new
  <2> QED BY <1>1, <1>2, <2>1, <2>5, PolicySame
<1>5. CASE Streaming(Policy) /\ Policy.mode = "strict" /\ Top.by # "scope"
  <2>1. Throw(Top.by, Rest)
    BY <1>5 DEF DoFlush
  <2>2. window' = <<>>
    BY <2>1 DEF Throw, ClearedOnThrow
  <2> QED BY <1>1, <2>2, WaitsEasily
<1>6. CASE Streaming(Policy) /\ ~(Policy.mode = "strict" /\ Top.by # "scope") /\ NoRegion(window)
  <2>1. stack' = <<>>
    BY <1>6 DEF DoFlush, Abort
  <2> QED BY <1>1, <2>1, NoScopes, WaitsEasily
<1>7. CASE Streaming(Policy) /\ ~(Policy.mode = "strict" /\ Top.by # "scope") /\ ~NoRegion(window)
  <2> DEFINE x == Item("stream")
  <2>1. stack' = <<x>> \o Rest /\ window' = PropagateDiscards(window)
    BY <1>7 DEF DoFlush
  <2>2. x.c = "stream"
    BY ItemIs
  <2> HIDE DEF x
  <2> DEFINE new == <<x>>
  <2>3. IsSeq(new) /\ NoScope(new) /\ 1 \in DOMAIN new /\ new[1] = x
    BY <2>2, ShortSeqs, SeqIs, NoScopes
  <2>4. Covers(new[1], window')
    BY <2>2, <2>3 DEF Covers
  <2>5. stack' = new \o Rest
    BY <2>1
  <2> HIDE DEF new
  <2>6. Clear(window) => Clear(window')
    <3> DEFINE p == PropagateDiscards(window)
    <3>1. \A j \in DOMAIN p : \E i \in DOMAIN window : Alike(p[j], window[i])
      BY PropagatedFrom DEF IInv, WindowOK, DataOK
    <3> HIDE DEF p
    <3>2. Clear(window) => Clear(p)
      BY <3>1 DEF Clear, Alike, Strategic
    <3> QED BY <2>1, <3>2 DEF p
  <2>7. \A i \in DOMAIN Rest : Covers(Rest[i], window) => Covers(Rest[i], window')
    <3>1. ItemsOK(Rest, ids, gens, Policy)
      BY <1>1, <1>3, RestIs DEF StackOK, Policy
    <3>2. \A i \in DOMAIN Rest : Rest[i].c # "run"
      BY <1>7, <3>1 DEF ItemsOK, Fits
    <3> QED BY <3>2 DEF Covers
  <2> QED BY <1>1, <1>2, <2>3, <2>4, <2>5, <2>6, <2>7, PolicyFrom
<1> QED BY <1>4, <1>5, <1>6, <1>7

\* It cuts off a prefix.
LEMMA ExtractPolicy ==
  ASSUME IInv, OnePolicy, Extract
  PROVE  PolicyWaits' /\ Top.c = "stream"
PROOF
<1>1. stack # <<>> /\ Top.c = "stream"
  BY DEF Extract, At
<1>2. PolicyWaits /\ StackOK
  BY DEF OnePolicy, IInv
<1>3. \/ window' = <<>>
      \/ /\ \A i \in DOMAIN window' : \E k \in DOMAIN window : window'[i] = window[k]
         /\ \E x : x.c = "stream" /\ stack' = <<x>> \o Rest
  BY ExtractFrom
<1>4. CASE window' = <<>>
  BY <1>1, <1>4, WaitsEasily
<1>5. CASE /\ \A i \in DOMAIN window' : \E k \in DOMAIN window : window'[i] = window[k]
           /\ \E x : x.c = "stream" /\ stack' = <<x>> \o Rest
  <2>1. PICK x : x.c = "stream" /\ stack' = <<x>> \o Rest
    BY <1>5
  <2> DEFINE new == <<x>>
  <2>2. IsSeq(new) /\ NoScope(new) /\ 1 \in DOMAIN new /\ new[1] = x
    BY <2>1, ShortSeqs, SeqIs, NoScopes
  <2>3. Covers(new[1], window')
    BY <2>1, <2>2 DEF Covers
  <2>4. stack' = new \o Rest
    BY <2>1
  <2> HIDE DEF new
  <2>5. Clear(window) => Clear(window')
    BY <1>5 DEF Clear
  <2>6. \A i \in DOMAIN Rest : Covers(Rest[i], window) => Covers(Rest[i], window')
    <3>1. ItemsOK(Rest, ids, gens, Policy) /\ Fits(Top, Policy)
      BY <1>1, <1>2, RestIs DEF StackOK, Policy
    <3>2. \A i \in DOMAIN Rest : Rest[i].c # "run"
      BY <1>1, <3>1 DEF ItemsOK, Fits
    <3> QED BY <3>2 DEF Covers
  <2> QED BY <1>1, <1>2, <2>2, <2>3, <2>4, <2>5, <2>6, PolicyFrom
<1> QED BY <1>3, <1>4, <1>5

\* The first item of a second sequence
LEMMA SecondStays ==
  ASSUME NEW s, NEW h, IsSeq(s), IsSeq(h), 1 \in DOMAIN h PROVE \E i \in DOMAIN (s \o h) : (s \o h)[i] = h[1]
PROOF
<1> DEFINE new == s \o h
<1>1. /\ IsSeq(new) /\ Len(new) = Len(s) + Len(h)
      /\ \A i \in DOMAIN s : new[i] = s[i]
      /\ \A i \in DOMAIN h : new[Len(s) + i] = h[i]
      /\ \A i \in DOMAIN new : i \in DOMAIN s \/ (i - Len(s) \in DOMAIN h /\ i = Len(s) + (i - Len(s)))
  BY ConcatIs
<1> HIDE DEF new
<1>2. Len(s) \in Nat /\ Len(h) \in Nat /\ DOMAIN h = 1..Len(h) /\ DOMAIN new = 1..Len(new)
  BY <1>1, SeqIs
<1>3. Len(s) + 1 \in DOMAIN new
  BY <1>1, <1>2
<1>4. \E i \in DOMAIN new : new[i] = h[1]
  BY <1>1, <1>3
<1> QED BY <1>4 DEF new

\* What is left to do launches as much as before.
RestCovers == \A i \in DOMAIN Rest : Covers(Rest[i], window) => Covers(Rest[i], window')

\* It launches something, and goes on behind what that leaves to do.
LEMMA LaunchPolicy ==
  ASSUME IInv, OnePolicy, stack # <<>>, NEW s, IsSeq(s), NoScope(s),
         NEW x, x.c \in {"run", "stream"}, stack' = s \o (<<x>> \o Rest),
         Clear(window) => Clear(window'), RestCovers,
         Covers(Top, window) => Covers(x, window')
  PROVE  PolicyWaits'
PROOF
<1> DEFINE h == <<x>>
           new == s \o h
<1>1. IsSeq(s) /\ NoScope(s)
  OBVIOUS
<1>2. IsSeq(Rest)
  BY RestIs DEF IInv, StackOK
<1>3. IsSeq(h) /\ NoScope(h) /\ Len(h) = 1 /\ h[1] = x /\ 1 \in DOMAIN h
  BY ShortSeqs, SeqIs, NoScopes
<1>4. stack' = s \o (h \o Rest)
  OBVIOUS
<1> HIDE DEF h
<1>5. IsSeq(new) /\ NoScope(new)
  BY <1>1, <1>3, NoScopeConcat
<1>6. stack' = new \o Rest
  <2>1. IsSeq(s) /\ IsSeq(h) /\ IsSeq(Rest)
    BY <1>1, <1>2, <1>3
  <2>2. (s \o h) \o Rest = s \o (h \o Rest)
    BY <2>1, ConcatTwice
  <2> QED BY <1>4, <2>2
<1>7. \E i \in DOMAIN new : new[i] = x
  <2>1. IsSeq(s) /\ IsSeq(h) /\ 1 \in DOMAIN h
    BY <1>1, <1>3
  <2>2. \E i \in DOMAIN new : new[i] = h[1]
    BY <2>1, SecondStays
  <2> QED BY <1>3, <2>2
<1> HIDE DEF new
<1>8. Covers(Top, window) => \E i \in DOMAIN new : Covers(new[i], window')
  BY <1>7
<1>9. PolicyWaits
  BY DEF OnePolicy
<1> QED BY <1>5, <1>6, <1>8, <1>9, PolicyFrom DEF RestCovers

\* An operation of the window
LEMMA RunPolicy ==
  ASSUME IInv, OnePolicy, Run
  PROVE  PolicyWaits'
PROOF
<1>1. /\ stack # <<>> /\ Top.c = "run"
      /\ \A i \in DOMAIN window' : window'[i] = window[i + 1] /\ i + 1 \in DOMAIN window
      /\ \E x, s : /\ x.c = "run" /\ x.n = Top.n - 1 /\ Top.n > 0
                   /\ CleanSeq(s) /\ (\A i \in DOMAIN s : s[i].c \in {"match", "submit"})
                   /\ stack' = s \o (<<x>> \o Rest)
  BY RunFrom
<1>2. PICK x, s : /\ x.c = "run" /\ x.n = Top.n - 1 /\ Top.n > 0
                  /\ CleanSeq(s) /\ (\A i \in DOMAIN s : s[i].c \in {"match", "submit"})
                  /\ stack' = s \o (<<x>> \o Rest)
  BY <1>1
<1>3. Clear(window) => Clear(window')
  BY <1>1 DEF Clear
<1>4. \A i \in DOMAIN window' : i \in Nat
  <2>1. IsSeq(window')
    BY RunFrom, TailIs DEF IInv, WindowOK, QueueOK
  <2> QED BY <2>1, SeqIs
<1>5. ASSUME NEW y, y.c = "run" => y.n \in Nat, Covers(y, window) PROVE Covers(y, window')
  <2>1. \A k \in DOMAIN window' : y.c = "run" => (k > y.n => k + 1 > y.n)
    BY <1>4, <1>5
  <2> QED BY <1>1, <1>5, <2>1 DEF Covers
<1>6. \A i \in DOMAIN Rest : Rest[i].c = "run" => Rest[i].n \in Nat
  BY <1>1, RestIs DEF IInv, StackOK, OnePolicy
<1>7. Top.n \in Nat
  BY <1>1, RestIs, SeqIs DEF IInv, StackOK, OnePolicy, CallOK
<1>8. Covers(Top, window) => Covers(x, window')
  <2> DEFINE n == Top.n
  <2>1. x.n = n - 1 /\ n > 0 /\ n \in Nat
    BY <1>2, <1>7
  <2> HIDE DEF n
  <2>2. \A k \in DOMAIN window' : k > x.n => k + 1 > n
    BY <1>4, <2>1
  <2> QED BY <1>1, <1>2, <2>2 DEF Covers, n
<1>9. RestCovers
  BY <1>5, <1>6 DEF RestCovers
<1>10. x.c \in {"run", "stream"} /\ stack # <<>>
  BY <1>1, <1>2
<1>11. IsSeq(s) /\ NoScope(s) /\ stack' = s \o (<<x>> \o Rest)
  BY <1>2 DEF CleanSeq, NoScope
<1> QED BY <1>3, <1>8, <1>9, <1>10, <1>11, LaunchPolicy

\* An operation of a prefix
LEMMA RunPrefixPolicy ==
  ASSUME IInv, OnePolicy, RunPrefix
  PROVE  PolicyWaits'
PROOF
<1>1. /\ stack # <<>> /\ window' = window
      /\ \E x, s : /\ x.c = "stream"
                   /\ CleanSeq(s) /\ (\A i \in DOMAIN s : s[i].c \in {"match", "submit"})
                   /\ stack' = s \o (<<x>> \o Rest)
  BY RunPrefixFrom
<1>2. PICK x, s : /\ x.c = "stream"
                  /\ CleanSeq(s) /\ (\A i \in DOMAIN s : s[i].c \in {"match", "submit"})
                  /\ stack' = s \o (<<x>> \o Rest)
  BY <1>1
<1>3. Covers(Top, window) => Covers(x, window')
  BY <1>2 DEF Covers
<1>4. x.c \in {"run", "stream"} /\ stack # <<>>
  BY <1>1, <1>2
<1>5. Clear(window) => Clear(window')
  BY <1>1
<1>6. RestCovers
  BY <1>1 DEF RestCovers
<1>7. IsSeq(s) /\ NoScope(s) /\ stack' = s \o (<<x>> \o Rest)
  BY <1>2 DEF CleanSeq, NoScope
<1> QED BY <1>3, <1>4, <1>5, <1>6, <1>7, LaunchPolicy

\* What a step leaves has the policy if what it makes has it.
LEMMA PolicyOf ==
  ASSUME OnePolicy, Policy'.od = Policy.od, PolicyWaits', Top.c # "submit" \/ stack = <<>>, Top = stack[1],
         IsSeq(stack), \A i \in DOMAIN window' : UnderPolicy(window'[i]),
         \A i \in DOMAIN stack' : Clean(stack'[i]) \/ OnePrefix(stack'[i]) \/ \E j \in DOMAIN stack : stack'[i] = stack[j]
  PROVE  OnePolicy'
PROOF
<1>1. ASSUME NEW j \in DOMAIN stack, stack[j].c = "submit", Strategic(stack[j].op) PROVE FALSE
  <2>1. Len(stack) = 1 /\ DOMAIN stack = 1..Len(stack) /\ stack # <<>>
    BY <1>1, SeqIs DEF OnePolicy
  <2>2. j = 1
    BY <2>1
  <2> QED BY <1>1, <2>1, <2>2
<1>2. \A j \in DOMAIN stack : /\ stack[j].c = "submit" => ~Strategic(stack[j].op)
                              /\ \A k \in DOMAIN stack[j].ops : UnderPolicy(stack[j].ops[k])
                              /\ stack[j].c = "run" => stack[j].n \in Nat
  BY <1>1 DEF OnePolicy, UnderPolicy
<1>3. DOMAIN <<>> = {}
  BY ShortSeqs, SeqIs
<1>4. \A i \in DOMAIN stack' : /\ stack'[i].c = "submit" => ~Strategic(stack'[i].op)
                               /\ \A k \in DOMAIN stack'[i].ops : UnderPolicy(stack'[i].ops[k])
                               /\ stack'[i].c = "run" => stack'[i].n \in Nat
  BY <1>2, <1>3 DEF Clean, OnePrefix
<1> QED BY <1>4 DEF OnePolicy, UnderPolicy

\* The policy at the start and end of a scope
LEMMA ScopeChanges ==
  ASSUME IInv, OnePolicy, Enter \/ EndOfScope, PolicyWaits', window' = window, stack # <<>>, stack' = Rest
  PROVE  OnePolicy'
PROOF
<1>1. /\ Top.c \in {"enter", "leave"} /\ ~Harmless(Top)
  BY DEF Enter, EndOfScope, At, Harmless
<1>2. /\ IsSeq(stack) /\ IsSeq(Rest) /\ Top = stack[1] /\ DOMAIN stack = 1..Len(stack) /\ 1 \in DOMAIN stack
      /\ \A i \in DOMAIN Rest : Rest[i] = stack[i + 1] /\ i + 1 \in DOMAIN stack
      /\ ItemsOK(Rest, ids, gens, Policy)
  BY RestIs, SeqIs DEF IInv, StackOK, CallOK, Policy
<1>3. \A i \in DOMAIN Rest : Rest[i].c # "stream"
  BY <1>1, LaunchingIs DEF IInv
<1>4. \A i \in DOMAIN Rest : Rest[i].ops = <<>>
  BY <1>2, <1>3 DEF ItemsOK, ItemOK
<1>5. ASSUME NEW j \in DOMAIN stack, stack[j].c = "submit", Strategic(stack[j].op) PROVE FALSE
  <2>1. Len(stack) = 1
    BY <1>5 DEF OnePolicy
  <2>2. j = 1
    BY <1>2, <2>1
  <2> QED BY <1>1, <1>2, <1>5, <2>2
<1>6. DOMAIN <<>> = {}
  BY ShortSeqs, SeqIs
<1>7. ASSUME NEW k \in DOMAIN window, Strategic(window[k]) PROVE window[k].od = Policy'.od
  <2>1. ~Clear(window)
    BY <1>7 DEF Clear
  <2>2. Stays(Top)
    <3>1. ~ \E j \in 1..(1 - 1) : Covers(stack[j], window)
      OBVIOUS
    <3> QED BY <1>1, <1>2, <2>1, <3>1 DEF OnePolicy, PolicyWaits
  <2>3. window[k].od = Policy.od
    BY <1>7 DEF OnePolicy
  <2>4. IsSeq(scopes) /\ scopes # <<>>
    BY DEF IInv, DataOK
  <2>5. CASE Enter
    <3>1. scopes' = Append(scopes, Top.pol) /\ Top.c = "enter"
      BY <2>5 DEF Enter, At
    <3>2. Policy' = Top.pol
      <4> DEFINE s == Append(scopes, Top.pol)
      <4>1. IsSeq(s) /\ Len(s) = Len(scopes) + 1 /\ s[Len(scopes) + 1] = Top.pol
        BY <2>4, AppendIs
      <4> HIDE DEF s
      <4>2. Policy' = s[Len(s)]
        BY <3>1 DEF Policy, Last, s
      <4> QED BY <4>1, <4>2
    <3> QED BY <2>2, <2>3, <3>1, <3>2 DEF Stays
  <2>6. CASE EndOfScope
    <3>1. scopes' = Front(scopes) /\ Top.c = "leave"
      BY <2>6 DEF EndOfScope, At
    <3>2. Len(scopes) > 1
      <4>1. LeavesOK(stack, scopes)
        BY DEF IInv, StackOK, CallOK
      <4>2. ~ \E j \in 1..(1 - 1) : stack[j].c = "enter"
        OBVIOUS
      <4> QED BY <1>2, <3>1, <4>1, <4>2 DEF LeavesOK
    <3>3. Policy' = scopes[Len(scopes) - 1]
      <4>1. Len(scopes) \in Nat /\ DOMAIN scopes = 1..Len(scopes) /\ scopes \in Seq(Range(scopes))
        BY <2>4, SeqIs DEF IsSeq
      <4> DEFINE s == Front(scopes)
      <4>2. Len(s) = Len(scopes) - 1 /\ \A i \in 1..(Len(scopes) - 1) : s[i] = scopes[i]
        BY <3>2, <4>1 DEF Front
      <4> HIDE DEF s
      <4>3. Policy' = s[Len(s)]
        BY <3>1 DEF Policy, Last, s
      <4> QED BY <3>2, <4>1, <4>2, <4>3
    <3> QED BY <2>2, <2>3, <3>1, <3>3 DEF Stays
  <2> QED BY <2>5, <2>6
<1>8. \A i \in DOMAIN stack' : /\ stack'[i].c = "submit" => ~Strategic(stack'[i].op)
                               /\ stack'[i].ops = <<>>
                               /\ stack'[i].c = "run" => stack'[i].n \in Nat
  BY <1>2, <1>4, <1>5 DEF OnePolicy
<1> QED BY <1>6, <1>7, <1>8 DEF OnePolicy

\* Steps that only make and remove items
LEMMA OthersOnePolicy ==
  ASSUME IInv, OnePolicy, OtherSteps
  PROVE  OnePolicy'
PROOF
<1>1. /\ StackFrom /\ (window' = window \/ window' = <<>>)
  BY OthersFrom
<1>2. /\ PolicyWaits'
      /\ scopes' = scopes \/ ((Enter \/ EndOfScope) /\ stack # <<>> /\ window' = window /\ stack' = Rest)
      /\ Top.c # "submit" \/ stack = <<>> \/ UNCHANGED stack
  BY OthersPolicy
<1>3. DOMAIN <<>> = {}
  BY ShortSeqs, SeqIs
<1>4. CASE scopes' = scopes
  <2>1. Policy' = Policy
    BY <1>4 DEF Policy
  <2>2. \A i \in DOMAIN window' : UnderPolicy(window'[i])
    BY <1>1, <1>3 DEF OnePolicy, UnderPolicy
  <2>3. CASE UNCHANGED stack
    BY <1>2, <2>1, <2>2, <2>3 DEF OnePolicy, UnderPolicy
  <2>4. CASE Top.c # "submit" \/ stack = <<>>
    <3>1. IsSeq(stack)
      BY DEF IInv, StackOK, CallOK
    <3>2. stack # <<>> => Top = stack[1]
      BY <3>1, SeqIs DEF Top
    <3>3. CASE stack = <<>>
      <4>1. \A i \in DOMAIN stack' : Clean(stack'[i])
        BY <1>1, <1>3, <3>3 DEF StackFrom
      <4> QED BY <1>2, <1>3, <2>1, <2>2, <4>1 DEF OnePolicy, UnderPolicy, Clean
    <3>4. CASE stack # <<>>
      BY <1>1, <1>2, <2>1, <2>2, <2>4, <3>1, <3>2, <3>4, PolicyOf DEF StackFrom
    <3> QED BY <3>3, <3>4
  <2> QED BY <1>2, <2>3, <2>4
<1>5. CASE (Enter \/ EndOfScope) /\ stack # <<>> /\ window' = window /\ stack' = Rest
  BY <1>2, <1>5, ScopeChanges
<1> QED BY <1>2, <1>4, <1>5

\* The running item submits an operation.
LEMMA SubmitOnePolicy ==
  ASSUME IInv, OnePolicy, DoSubmit
  PROVE  OnePolicy'
PROOF
<1>1. /\ StackFrom /\ stack # <<>> /\ Top.c = "submit" /\ Top = stack[1] /\ 1 \in DOMAIN stack /\ scopes' = scopes
      /\ \E op : window' = Append(window, op) /\ Alike(op, Top.op)
  BY SubmitFrom
<1>2. PICK p : window' = Append(window, p) /\ Alike(p, Top.op)
  BY <1>1
<1>3. PolicyWaits' /\ \A i \in DOMAIN stack' : stack'[i].c = "flush" \/ \E j \in DOMAIN Rest : stack'[i] = Rest[j]
  BY SubmitPolicy
<1>4. Policy' = Policy
  BY <1>1 DEF Policy
<1>5. UnderPolicy(p)
  BY <1>1, <1>2 DEF OnePolicy, UnderPolicy, Alike, Strategic
<1>6. \A i \in DOMAIN window' : UnderPolicy(window'[i])
  <2>1. \A i \in DOMAIN window' : (i \in DOMAIN window /\ window'[i] = window[i]) \/ window'[i] = p
    <3>1. IsSeq(window)
      BY DEF IInv, WindowOK, QueueOK
    <3> QED BY <1>2, <3>1, AppendIs
  <2> QED BY <1>5, <2>1 DEF OnePolicy, UnderPolicy
<1>7. ASSUME NEW j \in DOMAIN Rest, Rest[j].c = "submit", Strategic(Rest[j].op) PROVE FALSE
  <2>1. /\ Rest[j] = stack[j + 1] /\ j + 1 \in DOMAIN stack /\ IsSeq(Rest) /\ IsSeq(stack)
    BY <1>1, RestIs DEF IInv, StackOK, CallOK
  <2>2. Len(stack) = 1
    BY <1>7, <2>1 DEF OnePolicy
  <2>3. DOMAIN stack = 1..Len(stack) /\ DOMAIN Rest = 1..Len(Rest) /\ Len(Rest) \in Nat
    BY <2>1, SeqIs
  <2> QED BY <2>1, <2>2, <2>3
<1>8. DOMAIN <<>> = {}
  BY ShortSeqs, SeqIs
<1>9. \A i \in DOMAIN stack' : /\ \A k \in DOMAIN stack'[i].ops : UnderPolicy(stack'[i].ops[k])
                               /\ stack'[i].c = "run" => stack'[i].n \in Nat
  BY <1>1, <1>8 DEF StackFrom, OnePolicy, UnderPolicy, Clean
<1>10. \A i \in DOMAIN stack' : stack'[i].c = "submit" => ~Strategic(stack'[i].op)
  BY <1>3, <1>7
<1> QED BY <1>3, <1>4, <1>6, <1>9, <1>10 DEF OnePolicy, UnderPolicy

\* Every step keeps it.
LEMMA OnePolicyKept ==
  ASSUME IInv, OnePolicy, [Next]_vars
  PROVE  OnePolicy'
PROOF
<1> DEFINE Same == Policy'.od = Policy.od
<1>0. /\ scopes' = scopes => Same
      /\ stack # <<>> => Top = stack[1] /\ 1 \in DOMAIN stack
      /\ IsSeq(stack)
  <2>1. IsSeq(stack)
    BY DEF IInv, StackOK, CallOK
  <2> QED BY <2>1, SeqIs DEF Policy, Top
<1>a. DOMAIN <<>> = {}
  BY ShortSeqs, SeqIs
<1>1. CASE OtherSteps
  BY <1>1, OthersOnePolicy
<1>2. CASE DoSubmit
  BY <1>2, SubmitOnePolicy
<1>3. CASE DoFlush
  <2>1. StackFrom /\ (window' = window \/ window' = <<>> \/ window' = PropagateDiscards(window)) /\ scopes' = scopes
    BY <1>3, FlushFrom
  <2>2. PolicyWaits' /\ Top.c = "flush" /\ stack # <<>>
    BY <1>3, FlushPolicy DEF DoFlush, At
  <2>3. \A i \in DOMAIN PropagateDiscards(window) : UnderPolicy(PropagateDiscards(window)[i])
    <3> DEFINE p == PropagateDiscards(window)
    <3>1. \A j \in DOMAIN p : \E i \in DOMAIN window : Alike(p[j], window[i])
      BY PropagatedFrom DEF IInv, WindowOK, DataOK
    <3> HIDE DEF p
    <3>2. \A j \in DOMAIN p : UnderPolicy(p[j])
      BY <3>1 DEF OnePolicy, UnderPolicy, Alike, Strategic
    <3> QED BY <3>2 DEF p
  <2>4. \A i \in DOMAIN window' : UnderPolicy(window'[i])
    <3>1. CASE window' = window
      BY <3>1 DEF OnePolicy, UnderPolicy
    <3>2. CASE window' = <<>>
      BY <1>a, <3>2
    <3>3. CASE window' = PropagateDiscards(window)
      BY <2>3, <3>3
    <3> QED BY <2>1, <3>1, <3>2, <3>3
  <2> QED BY <1>0, <2>1, <2>2, <2>4, PolicyOf DEF StackFrom
<1>4. CASE Extract
  <2>1. /\ scopes' = scopes /\ stack # <<>>
        /\ \/ CleanSeq(stack') /\ window' = <<>>
           \/ /\ \A i \in DOMAIN window' : \E k \in DOMAIN window : window'[i] = window[k]
              /\ \E x : /\ x.c = "stream" /\ stack' = <<x>> \o Rest
                        /\ \A i \in DOMAIN x.ops : FromWindow(x.ops[i], i)
    BY <1>4, ExtractFrom
  <2>2. PolicyWaits' /\ Top.c = "stream"
    BY <1>4, ExtractPolicy
  <2>3. CASE CleanSeq(stack') /\ window' = <<>>
    BY <1>0, <1>a, <2>1, <2>2, <2>3, PolicyOf DEF CleanSeq
  <2>4. CASE /\ \A i \in DOMAIN window' : \E k \in DOMAIN window : window'[i] = window[k]
             /\ \E x : /\ x.c = "stream" /\ stack' = <<x>> \o Rest
                       /\ \A i \in DOMAIN x.ops : FromWindow(x.ops[i], i)
    <3>1. PICK x : x.c = "stream" /\ stack' = <<x>> \o Rest /\ \A i \in DOMAIN x.ops : FromWindow(x.ops[i], i)
      BY <2>4
    <3>2. \A i \in DOMAIN x.ops : UnderPolicy(x.ops[i])
      BY <3>1 DEF FromWindow, OnePolicy, UnderPolicy, Alike, Strategic
    <3>3. OnePrefix(x)
      BY <3>1, <3>2 DEF OnePrefix
    <3>4. \A i \in DOMAIN stack' : stack'[i] = x \/ \E j \in DOMAIN stack : stack'[i] = stack[j]
      BY <2>1, <3>1, FromOne
    <3>5. \A i \in DOMAIN window' : UnderPolicy(window'[i])
      BY <2>4 DEF OnePolicy, UnderPolicy
    <3>6. \A i \in DOMAIN stack' : OnePrefix(stack'[i]) \/ \E j \in DOMAIN stack : stack'[i] = stack[j]
      BY <3>3, <3>4
    <3> QED BY <1>0, <2>1, <2>2, <3>5, <3>6, PolicyOf
  <2> QED BY <2>1, <2>3, <2>4
<1>5. CASE Run
  <2>1. /\ stack # <<>> /\ \A i \in DOMAIN window' : window'[i] = window[i + 1] /\ i + 1 \in DOMAIN window
        /\ scopes' = scopes /\ Top.c = "run"
        /\ \E x, s : /\ x.c = "run" /\ x.ops = <<>> /\ x.n = Top.n - 1 /\ Top.n > 0 /\ CleanSeq(s)
                     /\ stack' = s \o (<<x>> \o Rest)
    BY <1>5, RunFrom
  <2>2. PICK x, s : /\ x.c = "run" /\ x.ops = <<>> /\ x.n = Top.n - 1 /\ Top.n > 0 /\ CleanSeq(s)
                    /\ stack' = s \o (<<x>> \o Rest)
    BY <2>1
  <2>3. \A i \in DOMAIN stack' : Clean(stack'[i]) \/ stack'[i] = x \/ \E j \in DOMAIN stack : stack'[i] = stack[j]
    BY <2>1, <2>2, FromLaunch
  <2>4. OnePrefix(x)
    <3>1. Top.n \in Nat
      BY <1>0, <2>1 DEF OnePolicy
    <3> DEFINE n == Top.n
    <3>2. n \in Nat /\ n > 0 /\ x.n = n - 1
      BY <2>2, <3>1
    <3> HIDE DEF n
    <3>3. x.n \in Nat
      BY <3>2
    <3> QED BY <1>a, <2>2, <3>3 DEF OnePrefix
  <2>5. \A i \in DOMAIN window' : UnderPolicy(window'[i])
    BY <2>1 DEF OnePolicy, UnderPolicy
  <2>6. PolicyWaits'
    BY <1>5, RunPolicy
  <2>7. \A i \in DOMAIN stack' : Clean(stack'[i]) \/ OnePrefix(stack'[i]) \/ \E j \in DOMAIN stack : stack'[i] = stack[j]
    BY <2>3, <2>4
  <2> QED BY <1>0, <2>1, <2>5, <2>6, <2>7, PolicyOf
<1>6. CASE RunPrefix
  <2>1. /\ stack # <<>> /\ window' = window /\ scopes' = scopes /\ Top.c = "stream" /\ Top = stack[1] /\ 1 \in DOMAIN stack
        /\ \E x, s : /\ x.c = "stream"
                     /\ \A i \in DOMAIN x.ops : x.ops[i] = Top.ops[i + 1] /\ i + 1 \in DOMAIN Top.ops
                     /\ CleanSeq(s) /\ stack' = s \o (<<x>> \o Rest)
    BY <1>6, RunPrefixFrom
  <2>2. PICK x, s : /\ x.c = "stream"
                    /\ \A i \in DOMAIN x.ops : x.ops[i] = Top.ops[i + 1] /\ i + 1 \in DOMAIN Top.ops
                    /\ CleanSeq(s) /\ stack' = s \o (<<x>> \o Rest)
    BY <2>1
  <2>3. \A i \in DOMAIN stack' : Clean(stack'[i]) \/ stack'[i] = x \/ \E j \in DOMAIN stack : stack'[i] = stack[j]
    BY <2>1, <2>2, FromLaunch
  <2>4. OnePrefix(x)
    BY <2>1, <2>2 DEF OnePolicy, OnePrefix, UnderPolicy
  <2>5. \A i \in DOMAIN window' : UnderPolicy(window'[i])
    BY <2>1 DEF OnePolicy, UnderPolicy
  <2>6. PolicyWaits'
    BY <1>6, RunPrefixPolicy
  <2>7. \A i \in DOMAIN stack' : Clean(stack'[i]) \/ OnePrefix(stack'[i]) \/ \E j \in DOMAIN stack : stack'[i] = stack[j]
    BY <2>3, <2>4
  <2> QED BY <1>0, <2>1, <2>5, <2>6, <2>7, PolicyOf
<1>7. ASSUME NEW t \in Tasks, Call(t) PROVE OnePolicy'
  <2>1. /\ window' = window /\ scopes' = scopes
        /\ \E x : stack' = <<x>> /\ x.c = "submit" /\ x.ops = <<>> /\ x.op.od = Policy.od
    BY <1>7, CallFrom
  <2>2. PICK x : stack' = <<x>> /\ x.c = "submit" /\ x.ops = <<>> /\ x.op.od = Policy.od
    BY <2>1
  <2>3. Len(stack') = 1 /\ \A i \in DOMAIN stack' : stack'[i] = x
    BY <2>2, ShortSeqs
  <2>4. PolicyWaits'
    <3>1. NoScope(stack')
      BY <2>2, <2>3 DEF NoScope
    <3> QED BY <3>1, WaitsEasily
  <2>5. Policy' = Policy
    BY <2>1 DEF Policy
  <2> QED BY <1>a, <2>1, <2>2, <2>3, <2>4, <2>5 DEF OnePolicy
<1> QED BY <1>1, <1>2, <1>3, <1>4, <1>5, <1>6, <1>7, Steps

\* It holds at the start.
LEMMA OnePolicyStarts == Init => OnePolicy
PROOF
<1>1. DOMAIN <<>> = {}
  BY ShortSeqs, SeqIs
<1> QED BY <1>1 DEF Init, OnePolicy, PolicyWaits

-----------------------------------------------------------------------------
(* What is launched is what was checked *)

\* A store of volume 1 is partitioned into one piece, or not at all.
LEMMA ScalarStrategy ==
  ASSUME KeysOK, ScalarsWhole, Scalars \cap Unbound = {},
         NEW op, Stems(op), Strategic(op), NEW f \in Touched(op) \cap Scalars
  PROVE  /\ Strategy(op, key).part[f] \in {"whole", "single"}
         /\ op.kind # "manual" /\ Strategy(op, key).ld = "one" => Strategy(op, key).part[f] = "single"
         /\ op.kind # "manual" => Strategy(op, key).ld # "index"
PROOF
<1>1. /\ Touched(op) \subseteq Fields
      /\ op.kind # "manual" => Touched(op) \cap Scalars \in {{}, Touched(op)}
      /\ op.kind = "manual" => \A g \in Touched(op) \cap Scalars : op.part[g] \in {"whole", "single"}
  BY StemIs
<1>2. CASE op.kind = "manual"
  <2>1. Strategy(op, key) = [ld |-> op.ld, part |-> op.part]
    BY <1>2, WhoPartitions
  <2>2. Strategy(op, key).part = op.part
    BY <2>1
  <2> QED BY <1>1, <1>2, <2>2
<1>3. CASE op.kind # "manual"
  <2>1. Strategy(op, key) = PartitionStores(op, key)
    BY <1>3, WhoPartitions DEF Strategic
  <2>2. /\ Strategy(op, key).ld = LaunchedBy(How(op, key)) /\ Strategy(op, key).part[f] = How(op, key)
    <3>1. f \in Aligned(op)
      BY DEF Aligned, Made
    <3> QED BY <2>1, <3>1, PartitionParts
  <2>3. Touched(op) \subseteq Scalars /\ Aligned(op) \subseteq Scalars
    BY <1>1, <1>3 DEF Aligned
  <2>4. How(op, key) \in {"whole", "single"}
    <3>1. CASE Keyed(op, key) = {}
      BY <2>3, <3>1 DEF How
    <3>2. CASE Keyed(op, key) # {}
      <4> DEFINE g == KeyField(op, key)
      <4>1. g \in Keyed(op, key)
        BY <1>1, <3>2, KeyFieldIs
      <4>2. g \in Scalars /\ Storage(op, g) \in DOMAIN key /\ key[Storage(op, g)] # NoKey
        BY <2>3, <4>1 DEF Keyed, Aligned
      <4>3. Storage(op, g)[1] = g
        BY DEF Storage
      <4>4. key[Storage(op, g)].part = "single"
        BY <4>2, <4>3 DEF KeysOK
      <4> QED BY <3>2, <4>4 DEF How
    <3> QED BY <3>1, <3>2
  <2> QED BY <2>2, <2>4 DEF LaunchedBy
<1> QED BY <1>2, <1>3

\* A launch sets the keys of what it keeps the partition of.
LEMMA LaunchKeys ==
  ASSUME NEW op, NEW items, Launch(op, items)
  PROVE  /\ DOMAIN key' = DOMAIN key
         /\ \A x \in DOMAIN key : key'[x] # key[x] =>
              /\ x[1] \in Touched(op) /\ x = Storage(op, x[1]) /\ KeepsPartition(op, Strategy(op, key), x[1])
              /\ key'[x] = [od |-> op.od, part |-> Strategy(op, key).part[x[1]]]
         /\ log' = Append(log, Entry(op, Strategy(op, key)))
PROOF
<1> DEFINE s == Strategy(op, key)
<1>1. /\ log' = Append(log, Entry(op, s))
      /\ key' = [x \in DOMAIN key |->
                  IF x[1] \in Touched(op) /\ x = Storage(op, x[1]) /\ KeepsPartition(op, s, x[1])
                  THEN KeyOf(op, s, x[1]) ELSE key[x]]
  BY DEF Launch
<1> HIDE DEF s
<1>2. \A f : KeyOf(op, s, f) = [od |-> op.od, part |-> s.part[f]]
  BY DEF KeyOf
<1>3. /\ DOMAIN key' = DOMAIN key
      /\ \A x \in DOMAIN key : key'[x] # key[x] =>
              /\ x[1] \in Touched(op) /\ x = Storage(op, x[1]) /\ KeepsPartition(op, s, x[1])
              /\ key'[x] = [od |-> op.od, part |-> s.part[x[1]]]
  BY <1>1, <1>2
<1> QED BY <1>1, <1>3 DEF s

\* Only what partitions stores keeps a partition.
LEMMA KeepsIs ==
  ASSUME NEW op, NEW f, KeepsPartition(op, Strategy(op, key), f)
  PROVE  Strategic(op) /\ Strategy(op, key).part[f] # "whole"
BY WhoPartitions DEF KeepsPartition

\* The keys of stores of volume 1, after a launch
LEMMA LaunchKeysOK ==
  ASSUME KeysOK, ScalarsWhole, Scalars \cap Unbound = {}, NEW op, Stems(op), NEW items, Launch(op, items)
  PROVE  KeysOK'
PROOF
<1>1. /\ DOMAIN key' = DOMAIN key
      /\ \A x \in DOMAIN key : key'[x] # key[x] =>
              /\ x[1] \in Touched(op) /\ x = Storage(op, x[1]) /\ KeepsPartition(op, Strategy(op, key), x[1])
              /\ key'[x] = [od |-> op.od, part |-> Strategy(op, key).part[x[1]]]
  BY LaunchKeys
<1>2. ASSUME NEW x \in DOMAIN key, x[1] \in Scalars, key'[x] # NoKey PROVE key'[x].part = "single"
  <2>1. CASE key'[x] = key[x]
    BY <1>2, <2>1 DEF KeysOK
  <2>2. CASE key'[x] # key[x]
    <3> DEFINE f == x[1]
    <3>1. /\ f \in Touched(op) /\ KeepsPartition(op, Strategy(op, key), f)
          /\ key'[x] = [od |-> op.od, part |-> Strategy(op, key).part[f]] /\ f \in Scalars
      BY <1>1, <1>2, <2>2
    <3> HIDE DEF f
    <3>2. Strategic(op) /\ Strategy(op, key).part[f] # "whole"
      BY <3>1, KeepsIs
    <3>3. f \in Touched(op) \cap Scalars
      BY <3>1
    <3>4. Strategy(op, key).part[f] \in {"whole", "single"}
      BY <3>2, <3>3, ScalarStrategy
    <3> QED BY <3>1, <3>2, <3>4
  <2> QED BY <2>1, <2>2
<1> QED BY <1>1, <1>2 DEF KeysOK

\* The policy has a factor.
LEMMA FactorIs == ASSUME IInv PROVE Policy.od \in Nat \ {0}
PROOF
<1>1. Last(scopes) = scopes[Len(scopes)] /\ Len(scopes) \in DOMAIN scopes
  BY SeqIs DEF IInv, DataOK, Last
<1>2. Policy \in Policies \cup {Off}
  BY <1>1 DEF IInv, DataOK, Policy
<1>3. Off.od = 1
  BY DEF Off
<1> QED BY <1>2, <1>3, PolicyAssumption

\* An operation that waits is partitioned as before, when one in front of it has been launched.
LEMMA CheckStays ==
  ASSUME IInv, KeysOK, ScalarsWhole, Scalars \cap Unbound = {}, NEW op, Stems(op), UnderPolicy(op), NEW items, Launch(op, items),
         NEW p, Stems(p), UnderPolicy(p), Agree(op, Strategy(op, key), p, Strategy(p, key))
  PROVE  Strategy(p, key') = Strategy(p, key)
PROOF
<1>1. /\ DOMAIN key' = DOMAIN key
      /\ \A x \in DOMAIN key : key'[x] # key[x] =>
              /\ x[1] \in Touched(op) /\ x = Storage(op, x[1]) /\ KeepsPartition(op, Strategy(op, key), x[1])
              /\ key'[x] = [od |-> op.od, part |-> Strategy(op, key).part[x[1]]]
  BY LaunchKeys
<1>2. CASE p.kind = "manual"
  BY <1>2, WhoPartitions
<1>3. CASE p.kind # "manual"
  <2>1. ASSUME NEW f \in Touched(p), Strategic(p), Storage(p, f) \in DOMAIN key, key'[Storage(p, f)] # key[Storage(p, f)]
        PROVE  /\ key'[Storage(p, f)] # NoKey /\ p.od \in {key'[Storage(p, f)].od, 1}
               /\ key'[Storage(p, f)].part = Strategy(p, key).part[f]
               /\ key'[Storage(p, f)].part # "whole"
    <3> DEFINE x == Storage(p, f)
               s == Strategy(op, key)
               t == Strategy(p, key)
    <3>1. x[1] = f
      BY DEF Storage
    <3>2. /\ f \in Touched(op) /\ x = Storage(op, f) /\ KeepsPartition(op, s, f)
          /\ key'[x] = [od |-> op.od, part |-> s.part[f]]
      BY <1>1, <2>1, <3>1
    <3>3. Strategic(op) /\ s.part[f] # "whole" /\ s # NoStrategy
      BY <3>2, KeepsIs DEF KeepsPartition
    <3>4. op.od = Policy.od /\ p.od = Policy.od /\ Policy.od # 0
      BY <2>1, <3>3, FactorIs DEF UnderPolicy
    <3>5. key'[x].od = op.od /\ key'[x].part = s.part[f]
      BY <3>2
    <3>6. key'[x] # NoKey
      BY <3>4, <3>5 DEF NoKey
    <3>7. t # NoStrategy
      BY <2>1, WhoPartitions
    <3> HIDE DEF s, t
    <3>8. \/ SamePart(s.part[f], t.part[f])
          \/ f \in Scalars /\ t.ld = "one"
      BY <2>1, <3>2, <3>3, <3>7 DEF Agree, s, t
    <3>9. t.part[f] = s.part[f]
      <4>1. CASE SamePart(s.part[f], t.part[f])
        BY <4>1 DEF SamePart
      <4>2. CASE f \in Scalars /\ t.ld = "one"
        <5>1. f \in Touched(op) \cap Scalars /\ f \in Touched(p) \cap Scalars
          BY <2>1, <3>2, <4>2
        <5>2. s.part[f] \in {"whole", "single"}
          BY <3>3, <5>1, ScalarStrategy DEF s
        <5>3. t.part[f] = "single"
          BY <1>3, <2>1, <4>2, <5>1, ScalarStrategy DEF t
        <5> QED BY <3>3, <5>2, <5>3
      <4> QED BY <3>8, <4>1, <4>2
    <3> QED BY <3>3, <3>4, <3>5, <3>6, <3>9 DEF t
  <2> QED BY <1>1, <2>1, StrategyKept
<1> QED BY <1>2, <1>3

\* Only the running item may launch a prefix, unless it is an operation that does not flush.
LEMMA OnlyTop ==
  ASSUME IInv, stack # <<>>, ~Harmless(Top)
  PROVE  /\ \A i \in DOMAIN Rest : Rest[i].ops = <<>>
         /\ Top.c # "stream" \/ Top.ops = <<>> => \A j \in DOMAIN stack : stack[j].ops = <<>>
PROOF
<1>1. StackOK
  BY DEF IInv
<1>2. /\ IsSeq(Rest) /\ Top = stack[1] /\ ItemOK(Top, ids, gens) /\ ItemsOK(Rest, ids, gens, Policy)
      /\ \A i \in DOMAIN Rest : Rest[i] = stack[i + 1] /\ i + 1 \in DOMAIN stack
      /\ ItemsOK(stack, ids, gens, Policy) /\ IsSeq(stack)
  BY <1>1, RestIs DEF StackOK, Policy, CallOK
<1>3. \A i \in DOMAIN Rest : Rest[i].c # "stream"
  BY <1>1, LaunchingIs
<1>4. \A i \in DOMAIN Rest : Rest[i].ops = <<>>
  BY <1>2, <1>3 DEF ItemsOK, ItemOK
<1>5. \A j \in DOMAIN stack : j = 1 \/ \E i \in DOMAIN Rest : stack[j] = Rest[i]
  <2>1. /\ DOMAIN stack = 1..Len(stack) /\ Len(stack) \in Nat /\ DOMAIN Rest = 1..Len(Rest) /\ Len(Rest) = Len(stack) - 1
    <3>1. IsSeq(stack)
      BY <1>2
    <3>2. Len(Rest) = Len(stack) - 1
      BY <3>1, TailIs DEF Rest
    <3> QED BY <1>2, <3>1, <3>2, SeqIs
  <2>2. ASSUME NEW j \in DOMAIN stack, j # 1 PROVE \E i \in DOMAIN Rest : stack[j] = Rest[i]
    <3> DEFINE i == j - 1
    <3>1. i \in DOMAIN Rest /\ j = i + 1
      BY <2>1, <2>2
    <3> HIDE DEF i
    <3> QED BY <1>2, <3>1
  <2> QED BY <2>2
<1>6. Top.c # "stream" => Top.ops = <<>>
  BY <1>2 DEF ItemOK
<1> QED BY <1>2, <1>4, <1>5, <1>6

\* What a step that launches nothing keeps
LEMMA CheckedFrom ==
  ASSUME CheckedOK, key' = key, log' = log,
         \A i \in DOMAIN stack' : Clean(stack'[i]) \/ ItemChecked(stack'[i], key) \/ \E j \in DOMAIN stack : stack'[i] = stack[j]
  PROVE  CheckedOK'
PROOF
<1>1. DOMAIN <<>> = {}
  BY ShortSeqs, SeqIs
<1>2. \A x : Clean(x) => ItemChecked(x, key)
  BY <1>1 DEF Clean, ItemChecked
<1>3. \A i \in DOMAIN stack' : ItemChecked(stack'[i], key)
  BY <1>2 DEF CheckedOK
<1>4. \A i \in DOMAIN stack' : ItemChecked(stack'[i], key')
  BY <1>3
<1>5. KeysOK'
  BY DEF CheckedOK, KeysOK
<1>6. CheckedIsLaunched => CheckedIsLaunched'
  BY DEF CheckedIsLaunched
<1> QED BY <1>4, <1>5, <1>6 DEF CheckedOK

\* No item of the stack has a prefix left.
NoPrefix(s) == \A j \in DOMAIN s : s[j].ops = <<>>

\* Nor has what a step leaves
LEMMA PrefixFrom ==
  ASSUME NoPrefix(stack), \A i \in DOMAIN stack' : Clean(stack'[i]) \/ \E j \in DOMAIN stack : stack'[i] = stack[j]
  PROVE  NoPrefix(stack')
BY DEF Clean, NoPrefix

\* Without prefixes everything in them is checked, and follows what was launched.
LEMMA NothingChecked ==
  ASSUME NoPrefix(stack') PROVE \A i \in DOMAIN stack' : DOMAIN stack'[i].ops = {} /\ ItemChecked(stack'[i], key')
PROOF
<1>1. DOMAIN <<>> = {}
  BY ShortSeqs, SeqIs
<1> QED BY <1>1 DEF NoPrefix, ItemChecked

\* A new store has no key partition yet.
LEMMA NewStoreChecked ==
  ASSUME IInv, CheckedOK, NewStore
  PROVE  CheckedOK' /\ NoPrefix(stack')
PROOF
<1>1. /\ stack # <<>> /\ Top.c = "new" /\ log' = log
      /\ \E x : key' = [y \in DOMAIN key \cup {x} |-> IF y = x THEN NoKey ELSE key[y]]
  BY DEF NewStore, At
<1>2. NoPrefix(stack)
  BY <1>1, OnlyTop DEF Harmless, NoPrefix
<1>3. StackFrom
  BY OthersFrom DEF OtherSteps
<1>4. NoPrefix(stack')
  BY <1>2, <1>3, PrefixFrom DEF StackFrom
<1>5. KeysOK'
  <2>1. PICK x : key' = [y \in DOMAIN key \cup {x} |-> IF y = x THEN NoKey ELSE key[y]]
    BY <1>1
  <2>2. \A y \in DOMAIN key' : key'[y] = NoKey \/ (y \in DOMAIN key /\ key'[y] = key[y])
    BY <2>1
  <2> QED BY <2>2 DEF CheckedOK, KeysOK
<1>6. CheckedIsLaunched => CheckedIsLaunched'
  BY <1>1 DEF CheckedIsLaunched
<1> QED BY <1>4, <1>5, <1>6, NothingChecked DEF CheckedOK

\* Of the steps that only make and remove items, only a new store concerns the keys.
LEMMA OthersKeys ==
  ASSUME OtherSteps PROVE key' = key \/ NewStore
PROOF
<1>1. CASE EndFlush
  BY <1>1 DEF EndFlush, dataVars
<1>2. CASE DoMatch
  BY <1>2 DEF DoMatch, dataVars
<1>3. CASE Reuse
  BY <1>3 DEF Reuse, dataVars
<1>4. CASE Enter \/ EndOfScope
  BY <1>4 DEF Enter, EndOfScope, dataVars
<1>5. ASSUME NEW f \in Fields, Create(f) \/ Drop(f) PROVE key' = key
  BY <1>5 DEF Create, Drop, dataVars
<1>6. ASSUME NEW p \in Policies, BeginScope(p) PROVE key' = key
  BY <1>6 DEF BeginScope, dataVars
<1>7. CASE EndScope \/ Catch \/ UNCHANGED vars
  BY <1>7 DEF EndScope, Catch, vars, dataVars
<1> QED BY <1>1, <1>2, <1>3, <1>4, <1>5, <1>6, <1>7 DEF OtherSteps

\* The entry of an operation
LEMMA EntryIs ==
  ASSUME NEW op, NEW s
  PROVE  /\ Entry(op, s).gen = op.gen /\ Entry(op, s).form = Form(op, s) /\ Entry(op, s).size = op.size
         /\ Entry(op, s).same <=> op.checked \in {NoStrategy, s}
         /\ s # NoStrategy => \A a \in Entry(op, s).access :
              /\ a.field \in Touched(op) /\ a.life = op.life[a.field] /\ a.part = s.part[a.field]
              /\ a.mode = "REDUCE" => a.field \in op.red
PROOF
<1>1. /\ Entry(op, s).gen = op.gen /\ Entry(op, s).form = Form(op, s) /\ Entry(op, s).size = op.size
      /\ Entry(op, s).same <=> op.checked \in {NoStrategy, s}
  BY DEF Entry
<1>2. ASSUME s # NoStrategy, NEW a \in Entry(op, s).access
      PROVE  /\ a.field \in Touched(op) /\ a.life = op.life[a.field] /\ a.part = s.part[a.field]
             /\ a.mode = "REDUCE" => a.field \in op.red
  <2>1. a \in Access(op, s, "READ", op.in) \cup Access(op, s, "WRITE", op.out) \cup Access(op, s, "REDUCE", op.red)
    BY <1>2 DEF Entry
  <2>2. ASSUME NEW mode, NEW set, a \in Access(op, s, mode, set)
        PROVE  /\ a.field \in set /\ a.life = op.life[a.field] /\ a.part = s.part[a.field] /\ a.mode = mode
    BY <2>2 DEF Access
  <2>3. CASE a \in Access(op, s, "READ", op.in)
    BY <2>2, <2>3 DEF Touched
  <2>4. CASE a \in Access(op, s, "WRITE", op.out)
    BY <2>2, <2>4 DEF Touched
  <2>5. CASE a \in Access(op, s, "REDUCE", op.red)
    BY <2>2, <2>5 DEF Touched
  <2> QED BY <2>1, <2>3, <2>4, <2>5
<1> QED BY <1>1, <1>2

\* The log of checks, one entry longer
LEMMA OneMoreChecked ==
  ASSUME IInv, CheckedIsLaunched, NEW op, log' = Append(log, Entry(op, Strategy(op, key))),
         op.checked \in {NoStrategy, Strategy(op, key)}
  PROVE  CheckedIsLaunched'
PROOF
<1> DEFINE e == Entry(op, Strategy(op, key))
<1>1. e.same
  BY EntryIs
<1>2. log' = Append(log, e) /\ IsSeq(log)
  BY DEF IInv, LogOK
<1> HIDE DEF e
<1>3. \A i \in DOMAIN log' : (i \in DOMAIN log /\ log'[i] = log[i]) \/ log'[i] = e
  BY <1>2, AppendIs
<1> QED BY <1>1, <1>3 DEF CheckedIsLaunched

\* An operation of the window
LEMMA RunChecked ==
  ASSUME ScalarsWhole, Scalars \cap Unbound = {}, IInv, AgreeOK, CheckedOK, Run
  PROVE  CheckedOK' /\ NoPrefix(stack') /\ log' = Append(log, Entry(window[1], Strategy(window[1], key)))
PROOF
<1>1. /\ stack # <<>> /\ window[1] = Head(window) /\ 1 \in DOMAIN window /\ Top.c = "run"
      /\ \E x, s : /\ x.c = "run" /\ x.ops = <<>> /\ Launch(Head(window), <<x>> \o Rest)
                   /\ CleanSeq(s) /\ stack' = s \o (<<x>> \o Rest)
  BY RunFrom
<1>2. PICK x, s : /\ x.c = "run" /\ x.ops = <<>> /\ Launch(Head(window), <<x>> \o Rest)
                  /\ CleanSeq(s) /\ stack' = s \o (<<x>> \o Rest)
  BY <1>1
<1> DEFINE op == window[1]
<1>3. Launch(op, <<x>> \o Rest)
  BY <1>1, <1>2
<1>4. op.checked = NoStrategy /\ Stems(op)
  BY <1>1 DEF AgreeOK, Unchecked
<1> HIDE DEF op
<1>5. NoPrefix(stack')
  <2>1. NoPrefix(stack)
    BY <1>1, OnlyTop DEF Harmless, NoPrefix
  <2>2. \A i \in DOMAIN stack' : Clean(stack'[i]) \/ stack'[i] = x \/ \E j \in DOMAIN stack : stack'[i] = stack[j]
    <3>1. stack # <<>> /\ CleanSeq(s) /\ stack' = s \o (<<x>> \o Rest)
      BY <1>1, <1>2
    <3> QED BY <3>1, FromLaunch
  <2> QED BY <1>2, <2>1, <2>2 DEF NoPrefix, Clean
<1>6. KeysOK'
  BY <1>3, <1>4, LaunchKeysOK DEF CheckedOK
<1>7. log' = Append(log, Entry(op, Strategy(op, key)))
  BY <1>3, LaunchKeys
<1>8. CheckedIsLaunched => CheckedIsLaunched'
  BY <1>4, <1>7, OneMoreChecked
<1> QED BY <1>5, <1>6, <1>7, <1>8, NothingChecked DEF CheckedOK, op

\* An operation of a prefix
LEMMA RunPrefixChecked ==
  ASSUME ScalarsWhole, Scalars \cap Unbound = {}, IInv, AgreeOK, OnePolicy, CheckedOK, RunPrefix
  PROVE  CheckedOK'
PROOF
<1>1. /\ stack # <<>> /\ Top.c = "stream" /\ Top = stack[1] /\ 1 \in DOMAIN stack /\ 1 \in DOMAIN Top.ops /\ IsSeq(Top.ops)
      /\ Head(Top.ops) = Top.ops[1]
      /\ \E x, s : /\ x.c = "stream" /\ Launch(Head(Top.ops), <<x>> \o Rest)
                   /\ \A i \in DOMAIN x.ops : x.ops[i] = Top.ops[i + 1] /\ i + 1 \in DOMAIN Top.ops
                   /\ IsSeq(x.ops) /\ CleanSeq(s) /\ stack' = s \o (<<x>> \o Rest)
  BY RunPrefixFrom
<1>2. PICK x, s : /\ x.c = "stream" /\ Launch(Head(Top.ops), <<x>> \o Rest)
                  /\ \A i \in DOMAIN x.ops : x.ops[i] = Top.ops[i + 1] /\ i + 1 \in DOMAIN Top.ops
                  /\ IsSeq(x.ops) /\ CleanSeq(s) /\ stack' = s \o (<<x>> \o Rest)
  BY <1>1
<1> DEFINE ops == Top.ops
           op == ops[1]
<1>3. Launch(op, <<x>> \o Rest)
  BY <1>1, <1>2
<1>4. PrefixAgrees(ops) /\ ItemChecked(Top, key) /\ \A k \in DOMAIN ops : UnderPolicy(ops[k])
  BY <1>1 DEF AgreeOK, CheckedOK, OnePolicy, UnderPolicy
<1>5. 1 \in DOMAIN ops /\ \A i \in DOMAIN x.ops : x.ops[i] = ops[i + 1] /\ i + 1 \in DOMAIN ops /\ 1 < i + 1
  BY <1>1, <1>2, SeqIs
<1>6. \A k \in DOMAIN ops : /\ ops[k].checked = Strategy(ops[k], key)
                            /\ Strategic(ops[k]) => ops[k].checked # NoStrategy
  BY <1>4 DEF ItemChecked
<1> HIDE DEF ops
<1>7. ItemChecked(x, key')
  <2>1. ASSUME NEW i \in DOMAIN x.ops PROVE x.ops[i].checked = Strategy(x.ops[i], key')
    <3> DEFINE p == x.ops[i]
    <3>1. p = ops[i + 1] /\ i + 1 \in DOMAIN ops /\ 1 < i + 1
      BY <1>5
    <3>2. p.checked = Strategy(p, key) /\ op.checked = Strategy(op, key) /\ Stems(p) /\ Stems(op) /\ UnderPolicy(p) /\ UnderPolicy(op)
      BY <1>4, <1>5, <1>6, <3>1 DEF PrefixAgrees
    <3>3. Agree(op, Strategy(op, key), p, Strategy(p, key))
      <4>1. Agree(op, op.checked, p, p.checked)
        BY <1>4, <1>5, <3>1 DEF PrefixAgrees
      <4> QED BY <3>2, <4>1
    <3>4. KeysOK
      BY DEF CheckedOK
    <3> HIDE DEF p, op
    <3>5. Strategy(p, key') = Strategy(p, key)
      BY <1>3, <3>2, <3>3, <3>4, CheckStays
    <3> QED BY <3>2, <3>5 DEF p
  <2>2. \A i \in DOMAIN x.ops : Strategic(x.ops[i]) => x.ops[i].checked # NoStrategy
    BY <1>5, <1>6
  <2> QED BY <2>1, <2>2 DEF ItemChecked
<1>8. Stems(op)
  BY <1>4, <1>5 DEF PrefixAgrees
<1>9. op.checked = Strategy(op, key)
  BY <1>5, <1>6
<1> HIDE DEF op
<1>10. KeysOK'
  BY <1>3, <1>8, LaunchKeysOK DEF CheckedOK
<1>11. log' = Append(log, Entry(op, Strategy(op, key)))
  BY <1>3, LaunchKeys
<1>12. CheckedIsLaunched'
  BY <1>9, <1>11, OneMoreChecked DEF CheckedOK
<1>13. \A i \in DOMAIN stack' : ItemChecked(stack'[i], key')
  <2>1. \A i \in DOMAIN stack' : (\E k \in DOMAIN s : stack'[i] = s[k]) \/ stack'[i] = x \/ \E k \in DOMAIN Rest : stack'[i] = Rest[k]
    <3>1. IsSeq(s) /\ IsSeq(Rest)
      BY <1>1, <1>2, RestIs DEF CleanSeq, IInv, StackOK
    <3>2. stack' = s \o (<<x>> \o Rest)
      BY <1>2
    <3> QED BY <3>1, <3>2, OneBetween
  <2>2. \A k \in DOMAIN Rest : Rest[k].ops = <<>>
    BY <1>1, OnlyTop DEF Harmless
  <2>3. DOMAIN <<>> = {}
    BY ShortSeqs, SeqIs
  <2>4. \A y : y.ops = <<>> => ItemChecked(y, key')
    BY <2>3 DEF ItemChecked
  <2>5. \A k \in DOMAIN s : s[k].ops = <<>>
    BY <1>2 DEF CleanSeq, Clean
  <2> QED BY <1>7, <2>1, <2>2, <2>4, <2>5
<1> QED BY <1>10, <1>12, <1>13 DEF CheckedOK

\* Every step keeps it.
LEMMA CheckedKept ==
  ASSUME ScalarsWhole, Scalars \cap Unbound = {}, IInv, AgreeOK, OnePolicy, CheckedOK, [Next]_vars
  PROVE  CheckedOK'
PROOF
<1>1. CASE OtherSteps
  <2>1. StackFrom /\ log' = log
    BY <1>1, OthersFrom
  <2>2. CASE key' = key
    BY <2>1, <2>2, CheckedFrom DEF StackFrom
  <2>3. CASE NewStore
    BY <2>3, NewStoreChecked
  <2> QED BY <1>1, <2>2, <2>3, OthersKeys
<1>2. CASE DoSubmit
  <2>1. StackFrom /\ log' = log /\ key' = key
    BY <1>2, SubmitFrom
  <2> QED BY <2>1, CheckedFrom DEF StackFrom
<1>3. CASE DoFlush
  <2>1. StackFrom /\ log' = log /\ key' = key
    BY <1>3, FlushFrom
  <2> QED BY <2>1, CheckedFrom DEF StackFrom
<1>4. CASE Extract
  <2>1. /\ key' = key /\ log' = log /\ stack # <<>>
        /\ \/ CleanSeq(stack') /\ window' = <<>>
           \/ \E x : /\ x.c = "stream" /\ stack' = <<x>> \o Rest
                     /\ \A i \in DOMAIN x.ops : FromWindow(x.ops[i], i)
    BY <1>4, ExtractFrom
  <2>2. CASE CleanSeq(stack')
    <3>1. \A i \in DOMAIN stack' : Clean(stack'[i])
      BY <2>2 DEF CleanSeq
    <3> QED BY <2>1, <3>1, CheckedFrom
  <2>3. ASSUME NEW x, x.c = "stream", stack' = <<x>> \o Rest, \A i \in DOMAIN x.ops : FromWindow(x.ops[i], i)
        PROVE  CheckedOK'
    <3>1. \A i \in DOMAIN x.ops : /\ x.ops[i].checked = Strategy(x.ops[i], key)
                                  /\ Strategic(x.ops[i]) => x.ops[i].checked # NoStrategy
      <4>1. ASSUME NEW i \in DOMAIN x.ops
            PROVE  x.ops[i].checked = Strategy(x.ops[i], key) /\ (Strategic(x.ops[i]) => x.ops[i].checked # NoStrategy)
        <5>1. CASE x.ops[i].checked = NoStrategy /\ ~Strategic(x.ops[i])
          BY <5>1, WhoPartitions
        <5>2. CASE i \in DOMAIN window /\ Alike(x.ops[i], window[i]) /\ x.ops[i].checked = Strategy(window[i], key)
          <6>1. Stems(window[i])
            BY <5>2 DEF AgreeOK, Unchecked
          <6>2. x.ops[i].checked = Strategy(x.ops[i], key) /\ Stems(x.ops[i])
            BY <5>2, <6>1, StrategyAlike
          <6> QED BY <6>2, WhoPartitions
        <5> QED BY <2>3, <4>1, <5>1, <5>2 DEF FromWindow
      <4> QED BY <4>1
    <3>2. ItemChecked(x, key)
      BY <3>1 DEF ItemChecked
    <3>3. \A i \in DOMAIN stack' : stack'[i] = x \/ \E j \in DOMAIN stack : stack'[i] = stack[j]
      BY <2>1, <2>3, FromOne
    <3>4. \A i \in DOMAIN stack' : ItemChecked(stack'[i], key) \/ \E j \in DOMAIN stack : stack'[i] = stack[j]
      BY <3>2, <3>3
    <3> QED BY <2>1, <3>4, CheckedFrom
  <2> QED BY <2>1, <2>2, <2>3
<1>5. CASE Run
  BY <1>5, RunChecked
<1>6. CASE RunPrefix
  BY <1>6, RunPrefixChecked
<1>7. ASSUME NEW t \in Tasks, Call(t) PROVE CheckedOK'
  <2>1. key' = key /\ log' = log /\ \E x : stack' = <<x>> /\ x.ops = <<>>
    BY <1>7, CallFrom
  <2>2. PICK x : stack' = <<x>> /\ x.ops = <<>>
    BY <2>1
  <2>3. \A i \in DOMAIN <<x>> : <<x>>[i] = x
    BY ShortSeqs
  <2>4. DOMAIN <<>> = {}
    BY ShortSeqs, SeqIs
  <2>5. \A i \in DOMAIN stack' : ItemChecked(stack'[i], key)
    BY <2>2, <2>3, <2>4 DEF ItemChecked
  <2> QED BY <2>1, <2>5, CheckedFrom
<1> QED BY <1>1, <1>2, <1>3, <1>4, <1>5, <1>6, <1>7, Steps

\* It holds at the start.
LEMMA CheckedStarts == Init => CheckedOK
PROOF
<1>1. DOMAIN <<>> = {}
  BY ShortSeqs, SeqIs
<1>2. Init => DOMAIN key = {}
  BY DEF Init
<1> QED BY <1>1, <1>2 DEF Init, CheckedOK, KeysOK, CheckedIsLaunched

-----------------------------------------------------------------------------
(* Tasks of a generation follow each other *)

\* What waits in a prefix may be launched behind what it follows.
LEMMA FollowerStreams ==
  ASSUME ScalarsWhole, Scalars \cap Unbound = {}, KeysOK, NEW e, NEW p, p.kind \in Kinds, Stems(p), Follows(e, p),
         p.checked = Strategy(p, key)
  PROVE  Streamed(e, Entry(p, Strategy(p, key)))
PROOF
<1> DEFINE s == Strategy(p, key)
           d == Entry(p, s)
<1>1. d.form = Form(p, s) /\ (s # NoStrategy => \A b \in d.access :
              /\ b.field \in Touched(p) /\ b.life = p.life[b.field] /\ b.part = s.part[b.field])
  BY EntryIs
<1> HIDE DEF d
<1>2. ASSUME d.form = "index", NEW a \in e.access, NEW b \in d.access, a.field = b.field, a.life = b.life
      PROVE  a.mode # "REDUCE" /\ SamePart(a.part, b.part)
  <2>1. IsTask(p) /\ s.ld = "index"
    <3>1. Form(p, s) = "index"
      BY <1>1, <1>2
    <3> QED BY <3>1 DEF Form, IsTask, Kinds
  <2>2. Strategic(p) /\ s # NoStrategy
    BY <2>1, WhoPartitions
  <2> DEFINE f == b.field
  <2>3. f \in Touched(p) /\ a.field = f /\ a.life = p.life[f] /\ b.part = s.part[f]
    BY <1>1, <1>2, <2>2
  <2>4. \/ a.mode # "REDUCE" /\ SamePart(a.part, p.checked.part[f])
        \/ f \in Scalars /\ p.checked.ld = "one"
    BY <1>2, <2>3 DEF Follows
  <2>5. ~(f \in Scalars /\ p.checked.ld = "one")
    <3>1. CASE p.kind = "manual"
      BY <2>1, <3>1
    <3>2. ASSUME p.kind # "manual", f \in Scalars PROVE FALSE
      <4>1. f \in Touched(p) \cap Scalars
        BY <2>3, <3>2
      <4> QED BY <2>1, <2>2, <3>2, <4>1, ScalarStrategy
    <3> QED BY <3>1, <3>2
  <2>6. p.checked.part[f] = b.part
    BY <2>3
  <2> HIDE DEF f, s
  <2> QED BY <2>4, <2>5, <2>6
<1>3. Streamed(e, d)
  BY <1>2 DEF Streamed
<1> QED BY <1>3 DEF d

\* What was checked together follows each other.
LEMMA AgreedFollows ==
  ASSUME NEW op, NEW p, Agree(op, op.checked, p, p.checked), IsTask(op), IsTask(p), Stems(op),
         op.checked # NoStrategy, p.checked # NoStrategy, op.checked = Strategy(op, key)
  PROVE  Follows(Entry(op, Strategy(op, key)), p)
PROOF
<1> DEFINE s == Strategy(op, key)
           e == Entry(op, s)
<1>1. s # NoStrategy
  BY WhoPartitions
<1>2. \A a \in e.access : /\ a.field \in Touched(op) /\ a.life = op.life[a.field] /\ a.part = s.part[a.field]
                          /\ a.mode = "REDUCE" => a.field \in op.red
  BY <1>1, EntryIs
<1>3. op.checked = s
  OBVIOUS
<1> HIDE DEF e, s
<1>4. ASSUME NEW a \in e.access, NEW f \in Touched(p), a.field = f, a.life = p.life[f]
      PROVE  \/ a.mode # "REDUCE" /\ SamePart(a.part, p.checked.part[f])
             \/ f \in Scalars /\ p.checked.ld = "one"
  <2>1. f \in Touched(op) /\ f \in Touched(p) /\ Storage(op, f) = Storage(p, f)
    BY <1>2, <1>4 DEF Storage
  <2>2. \/ f \notin op.red /\ SamePart(op.checked.part[f], p.checked.part[f])
        \/ f \in Scalars /\ p.checked.ld = "one"
    BY <2>1 DEF Agree
  <2>3. /\ a.mode = "REDUCE" => f \in op.red
        /\ a.part = op.checked.part[f]
    BY <1>2, <1>3, <1>4
  <2> QED BY <2>2, <2>3
<1>5. Follows(e, p)
  BY <1>4 DEF Follows
<1> QED BY <1>5 DEF e, s

\* What a step that launches nothing keeps
LEMMA FollowFrom ==
  ASSUME IInv, FollowOK, log' = log, (StackFrom /\ gens' = gens) \/ gens' = gens + 1
  PROVE  FollowOK'
PROOF
<1>1. DOMAIN <<>> = {}
  BY ShortSeqs, SeqIs
<1>2. ASSUME NEW i \in DOMAIN log', log'[i].gen # 0, log'[i].gen = gens',
             NEW j \in DOMAIN stack', NEW k \in DOMAIN stack'[j].ops, stack'[j].ops[k].gen # 0
      PROVE  Follows(log'[i], stack'[j].ops[k])
  <2>1. CASE StackFrom /\ gens' = gens
    <3>1. \E l \in DOMAIN stack : stack'[j] = stack[l]
      BY <1>1, <1>2, <2>1 DEF StackFrom, Clean
    <3> QED BY <1>2, <2>1, <3>1 DEF FollowOK
  <2>2. CASE gens' = gens + 1
    <3>1. log[i].gen \in 0..gens /\ gens \in Nat
      BY <1>2 DEF IInv, LogOK, DataOK
    <3> DEFINE g == log[i].gen
    <3>2. g \in 0..gens /\ g = gens + 1 /\ gens \in Nat
      BY <1>2, <2>2, <3>1
    <3> HIDE DEF g
    <3> QED BY <3>2
  <2> QED BY <2>1, <2>2
<1> QED BY <1>2 DEF FollowOK

\* The log, one entry longer
LEMMA FollowLonger ==
  ASSUME IInv, FollowOK, NEW e, log' = Append(log, e), gens' = gens,
         \A i \in DOMAIN log : e.gen # 0 /\ log[i].gen = e.gen => Streamed(log[i], e),
         \A j \in DOMAIN stack' : \A k \in DOMAIN stack'[j].ops : stack'[j].ops[k].gen # 0 =>
            /\ \A i \in DOMAIN log : log[i].gen # 0 /\ log[i].gen = gens => Follows(log[i], stack'[j].ops[k])
            /\ e.gen # 0 => Follows(e, stack'[j].ops[k])
  PROVE  FollowOK'
PROOF
<1>1. IsSeq(log) /\ DOMAIN log = 1..Len(log) /\ Len(log) \in Nat
  BY SeqIs DEF IInv, LogOK
<1>2. \A i \in DOMAIN log' : (i \in DOMAIN log /\ log'[i] = log[i]) \/ (i = Len(log) + 1 /\ log'[i] = e)
  BY <1>1, AppendIs
<1>3. ASSUME NEW i \in DOMAIN log', log'[i].gen # 0, log'[i].gen = gens',
             NEW j \in DOMAIN stack', NEW k \in DOMAIN stack'[j].ops, stack'[j].ops[k].gen # 0
      PROVE  Follows(log'[i], stack'[j].ops[k])
  BY <1>2, <1>3
<1>4. ASSUME NEW i \in DOMAIN log', NEW j \in DOMAIN log', i < j, log'[i].gen # 0, log'[i].gen = log'[j].gen
      PROVE  Streamed(log'[i], log'[j])
  <2>1. i \in DOMAIN log /\ log'[i] = log[i]
    <3>1. j \in 1..Len(log) \/ j = Len(log) + 1
      BY <1>1, <1>2
    <3>2. i # Len(log) + 1
      BY <1>1, <1>4, <3>1
    <3> QED BY <1>2, <3>2
  <2>2. CASE j \in DOMAIN log /\ log'[j] = log[j]
    BY <1>4, <2>1, <2>2 DEF FollowOK
  <2>3. CASE log'[j] = e
    BY <1>4, <2>1, <2>3
  <2> QED BY <1>2, <2>2, <2>3
<1> QED BY <1>3, <1>4 DEF FollowOK

\* Every step keeps it.
LEMMA FollowKept ==
  ASSUME ScalarsWhole, Scalars \cap Unbound = {}, IInv, AgreeOK, CheckedOK, FollowOK, [Next]_vars
  PROVE  FollowOK'
PROOF
<1>1. CASE OtherSteps
  BY <1>1, OthersFrom, FollowFrom
<1>2. CASE DoSubmit
  BY <1>2, SubmitFrom, FollowFrom
<1>3. CASE DoFlush
  BY <1>3, FlushFrom, FollowFrom
<1>4. CASE Extract
  <2>1. log' = log /\ (gens' = gens + 1 \/ (CleanSeq(stack') /\ gens' = gens))
    BY <1>4, ExtractFrom
  <2>2. CleanSeq(stack') => StackFrom
    BY FromClean
  <2> QED BY <2>1, <2>2, FollowFrom
<1>5. CASE Run
  <2> DEFINE e == Entry(window[1], Strategy(window[1], key))
  <2>1. log' = Append(log, e) /\ NoPrefix(stack')
    BY <1>5, RunChecked
  <2>2. gens' = gens /\ window[1].gen = 0
    BY <1>5, RunFrom DEF Waits
  <2>3. e.gen = 0
    BY <2>2, EntryIs
  <2>4. \A j \in DOMAIN stack' : DOMAIN stack'[j].ops = {}
    BY <2>1, NothingChecked
  <2> HIDE DEF e
  <2> QED BY <2>1, <2>2, <2>3, <2>4, FollowLonger
<1>6. CASE RunPrefix
  <2>1. /\ stack # <<>> /\ Top.c = "stream" /\ Top = stack[1] /\ 1 \in DOMAIN stack /\ 1 \in DOMAIN Top.ops /\ IsSeq(Top.ops)
        /\ Head(Top.ops) = Top.ops[1] /\ Head(Top.ops).gen \in {0, gens} /\ gens' = gens
        /\ \E x, s : /\ x.c = "stream" /\ Launch(Head(Top.ops), <<x>> \o Rest)
                     /\ \A i \in DOMAIN x.ops : x.ops[i] = Top.ops[i + 1] /\ i + 1 \in DOMAIN Top.ops
                     /\ IsSeq(x.ops) /\ CleanSeq(s) /\ stack' = s \o (<<x>> \o Rest)
    BY <1>6, RunPrefixFrom
  <2>2. PICK x, s : /\ x.c = "stream" /\ Launch(Head(Top.ops), <<x>> \o Rest)
                    /\ \A i \in DOMAIN x.ops : x.ops[i] = Top.ops[i + 1] /\ i + 1 \in DOMAIN Top.ops
                    /\ IsSeq(x.ops) /\ CleanSeq(s) /\ stack' = s \o (<<x>> \o Rest)
    BY <2>1
  <2> DEFINE ops == Top.ops
             op == ops[1]
             e == Entry(op, Strategy(op, key))
  <2>3. log' = Append(log, e)
    <3>1. Launch(op, <<x>> \o Rest)
      BY <2>1, <2>2
    <3> QED BY <3>1, LaunchKeys
  <2>4. /\ PrefixAgrees(ops)
        /\ \A k \in DOMAIN ops : /\ ops[k].checked = Strategy(ops[k], key)
                                 /\ Strategic(ops[k]) => ops[k].checked # NoStrategy
    BY <2>1 DEF AgreeOK, CheckedOK, ItemChecked
  <2>5. \A k \in DOMAIN ops : (ops[k].gen # 0 => IsTask(ops[k])) /\ ops[k].kind \in Kinds
    <3>1. ItemsOK(stack, ids, gens, Policy)
      BY DEF IInv, StackOK, CallOK, Policy
    <3> QED BY <2>1, <3>1 DEF ItemsOK, ItemOK, PrefixOK, IsOp
  <2>6. 1 \in DOMAIN ops /\ \A i \in DOMAIN x.ops : x.ops[i] = ops[i + 1] /\ i + 1 \in DOMAIN ops /\ 1 < i + 1
    BY <2>1, <2>2, SeqIs
  <2>7. op.gen \in {0, gens}
    BY <2>1
  <2>8. \A i \in DOMAIN log : log[i].gen # 0 /\ log[i].gen = gens => \A k \in DOMAIN ops : ops[k].gen # 0 => Follows(log[i], ops[k])
    BY <2>1 DEF FollowOK
  <2>9. e.gen = op.gen
    BY EntryIs
  <2>10. KeysOK
    BY DEF CheckedOK
  <2>11. \A j \in DOMAIN stack' : stack'[j] = x \/ DOMAIN stack'[j].ops = {}
    <3>1. \A i \in DOMAIN stack' : (\E k \in DOMAIN s : stack'[i] = s[k]) \/ stack'[i] = x \/ \E k \in DOMAIN Rest : stack'[i] = Rest[k]
      <4>1. IsSeq(s) /\ IsSeq(Rest)
        BY <2>1, <2>2, RestIs DEF CleanSeq, IInv, StackOK
      <4>2. stack' = s \o (<<x>> \o Rest)
        BY <2>2
      <4> QED BY <4>1, <4>2, OneBetween
    <3>2. \A k \in DOMAIN Rest : Rest[k].ops = <<>>
      BY <2>1, OnlyTop DEF Harmless
    <3>3. DOMAIN <<>> = {}
      BY ShortSeqs, SeqIs
    <3>4. \A k \in DOMAIN s : s[k].ops = <<>>
      BY <2>2 DEF CleanSeq, Clean
    <3> QED BY <3>1, <3>2, <3>3, <3>4
  <2> HIDE DEF ops
  <2>12. ASSUME NEW i \in DOMAIN log, e.gen # 0, log[i].gen = e.gen PROVE Streamed(log[i], e)
    <3>1. op.gen # 0 /\ log[i].gen # 0 /\ log[i].gen = gens
      BY <2>7, <2>9, <2>12
    <3>2. Follows(log[i], op)
      BY <2>6, <2>8, <3>1
    <3>3. Stems(op) /\ op.kind \in Kinds /\ op.checked = Strategy(op, key)
      BY <2>4, <2>5, <2>6 DEF PrefixAgrees
    <3> HIDE DEF op
    <3>4. Streamed(log[i], Entry(op, Strategy(op, key)))
      BY <2>10, <3>2, <3>3, FollowerStreams
    <3> QED BY <3>4 DEF e
  <2>13. ASSUME NEW k \in DOMAIN x.ops, x.ops[k].gen # 0, e.gen # 0 PROVE Follows(e, x.ops[k])
    <3> DEFINE p == x.ops[k]
    <3>1. p = ops[k + 1] /\ k + 1 \in DOMAIN ops /\ 1 < k + 1
      BY <2>6
    <3>2. IsTask(op) /\ IsTask(p)
      BY <2>5, <2>6, <2>9, <2>13, <3>1
    <3>3. /\ Agree(op, op.checked, p, p.checked) /\ Stems(op)
          /\ op.checked # NoStrategy /\ p.checked # NoStrategy
          /\ op.checked = Strategy(op, key)
      BY <2>4, <2>6, <3>1, <3>2, WhoPartitions DEF PrefixAgrees
    <3> HIDE DEF op, p
    <3>4. Follows(Entry(op, Strategy(op, key)), p)
      BY <3>2, <3>3, AgreedFollows
    <3> QED BY <3>4 DEF e, p
  <2>14. \A i \in DOMAIN log : log[i].gen # 0 /\ log[i].gen = gens =>
            \A k \in DOMAIN x.ops : x.ops[k].gen # 0 => Follows(log[i], x.ops[k])
    BY <2>6, <2>8
  <2> HIDE DEF e, op
  <2>15. \A j \in DOMAIN stack' : \A k \in DOMAIN stack'[j].ops : stack'[j].ops[k].gen # 0 =>
            /\ \A i \in DOMAIN log : log[i].gen # 0 /\ log[i].gen = gens => Follows(log[i], stack'[j].ops[k])
            /\ e.gen # 0 => Follows(e, stack'[j].ops[k])
    BY <2>11, <2>13, <2>14
  <2>16. \A i \in DOMAIN log : e.gen # 0 /\ log[i].gen = e.gen => Streamed(log[i], e)
    BY <2>12
  <2>17. gens' = gens
    BY <2>1
  <2> QED BY <2>3, <2>15, <2>16, <2>17, FollowLonger
<1>7. ASSUME NEW t \in Tasks, Call(t) PROVE FollowOK'
  <2>1. log' = log /\ gens' = gens /\ \E x : stack' = <<x>> /\ x.ops = <<>>
    BY <1>7, CallFrom
  <2>2. PICK x : stack' = <<x>> /\ x.ops = <<>>
    BY <2>1
  <2>3. (\A i \in DOMAIN <<x>> : <<x>>[i] = x) /\ DOMAIN <<>> = {}
    BY ShortSeqs, SeqIs
  <2>4. \A j \in DOMAIN stack' : DOMAIN stack'[j].ops = {}
    BY <2>2, <2>3
  <2> QED BY <2>1, <2>4 DEF FollowOK
<1> QED BY <1>1, <1>2, <1>3, <1>4, <1>5, <1>6, <1>7, Steps

\* It holds at the start.
LEMMA FollowStarts == Init => FollowOK
PROOF
<1>1. DOMAIN <<>> = {}
  BY ShortSeqs, SeqIs
<1> QED BY <1>1 DEF Init, FollowOK

-----------------------------------------------------------------------------
(* The tasks of a generation are launched, all of them *)

\* A task that is partitioned automatically has no store of volume 1: launched as a single task it
\* would not count for the check.
AutosIndexed == \A t \in Tasks : t.kind = "auto" => Touched(t) \cap Scalars = {}

\* The operations that the check compares the launch domains of
Compared(op) == Strategy(op, key) # NoStrategy /\ ~Bypasses(op, Strategy(op, key))

\* Those have a launch domain.
LEMMA DomainIs ==
  ASSUME NEW op, Stems(op), Strategic(op)
  PROVE  Strategy(op, key).ld # "unset"
PROOF
<1>1. CASE op.kind = "manual"
  <2>1. Strategy(op, key) = [ld |-> op.ld, part |-> op.part] /\ op.ld \in {"one", "index"}
    BY <1>1, WhoPartitions, StemIs
  <2> QED BY <2>1
<1>2. CASE op.kind # "manual"
  <2>1. Strategy(op, key) = PartitionStores(op, key)
    BY <1>2, WhoPartitions DEF Strategic
  <2>2. Strategy(op, key).ld = LaunchedBy(How(op, key))
    BY <2>1, PartitionParts
  <2> QED BY <2>2 DEF LaunchedBy
<1> QED BY <1>1, <1>2

\* The tasks that make a generation are among them.
LEMMA TasksCompared ==
  ASSUME AutosIndexed, NEW op, Stems(op), IsTask(op), ~IsSingleton(op)
  PROVE  Compared(op)
PROOF
<1>1. Strategy(op, key) # NoStrategy
  BY WhoPartitions
<1>2. CASE op.kind = "manual"
  <2>1. Strategy(op, key) = [ld |-> op.ld, part |-> op.part] /\ op.ld \in {"one", "index"}
    BY <1>2, WhoPartitions, StemIs
  <2>2. Strategy(op, key).ld = "index"
    BY <1>2, <2>1 DEF IsSingleton
  <2> QED BY <1>1, <2>2 DEF Compared, Bypasses
<1>3. CASE op.kind = "auto"
  <2>1. PICK t \in Tasks : op.kind = t.kind /\ op.in = t.in /\ op.out = t.out /\ op.red = t.red
    BY WhoPartitions DEF Stems
  <2>2. Touched(op) \cap Scalars = {}
    BY <1>3, <2>1 DEF AutosIndexed, Touched
  <2>3. ASSUME Bypasses(op, Strategy(op, key)) PROVE FALSE
    <3>1. Touched(op) = {} /\ Strategy(op, key).ld = "one"
      BY <2>2, <2>3 DEF Bypasses, Touched
    <3>2. Keyed(op, key) = {}
      BY <3>1 DEF Keyed, Aligned
    <3>3. How(op, key) = "whole"
      BY <3>1, <3>2 DEF How, Aligned
    <3>4. Strategy(op, key) = PartitionStores(op, key)
      BY <1>3, WhoPartitions
    <3>5. Strategy(op, key).ld = "none"
      BY <3>3, <3>4, PartitionParts DEF LaunchedBy
    <3> QED BY <3>1, <3>5
  <2> QED BY <1>1, <2>3 DEF Compared
<1> QED BY <1>2, <1>3 DEF IsTask

\* The operations that were compared so far have the launch domain that the check keeps.
DomainOK(w, k, ld) ==
  \A i \in 1..k : Compared(w[i]) => Strategy(w[i], key).ld = ld /\ ld # "unset"

\* One more operation
LEMMA DomainCompared ==
  ASSUME NEW w, NEW k \in Nat, NEW c, Stems(w[k + 1]), DomainOK(w, k, c.ld), CheckOp(c, w[k + 1]).ok
  PROVE  DomainOK(w, k + 1, CheckOp(c, w[k + 1]).ld)
PROOF
<1> DEFINE op == w[k + 1]
           s == Strategy(op, key)
           d == IF s = NoStrategy THEN [ok |-> TRUE, last |-> c.last] ELSE DependencyStep(c.last, op, s)
           counts == s # NoStrategy /\ ~Bypasses(op, s)
           ok == c.ok /\ ~Disallowed(op) /\ d.ok /\ (~counts \/ c.ld \in {"unset", s.ld})
           ld == IF counts THEN s.ld ELSE c.ld
<1>1. CheckOp(c, op) = IF ok THEN [ok |-> TRUE, last |-> d.last, ld |-> ld] ELSE [c EXCEPT !.ok = FALSE]
  BY DEF CheckOp
<1>2. counts <=> Compared(op)
  BY DEF Compared
<1>3. Strategic(op) => s.ld # "unset"
  BY DomainIs
<1>4. s # NoStrategy => Strategic(op)
  BY WhoPartitions
<1> HIDE DEF op, s, d, ok, ld
<1>5. ok
  <2>1. ASSUME ~ok PROVE FALSE
    <3>1. CheckOp(c, op) = [c EXCEPT !.ok = FALSE]
      BY <1>1, <2>1
    <3>2. CheckOp(c, op).ok
      BY DEF op
    <3> QED BY <3>1, <3>2
  <2> QED BY <2>1
<1>6. CheckOp(c, op).ld = ld
  BY <1>1, <1>5
<1>7. ~counts \/ c.ld \in {"unset", s.ld}
  BY <1>5 DEF ok
<1>8. \A i \in 1..(k + 1) : i \in 1..k \/ i = k + 1
  OBVIOUS
<1>9. DomainOK(w, k + 1, ld)
  <2>1. CASE counts
    <3>1. ld = s.ld /\ ld # "unset"
      BY <1>3, <1>4, <2>1 DEF ld
    <3>2. \A i \in 1..k : Compared(w[i]) => Strategy(w[i], key).ld = ld
      BY <1>7, <2>1, <3>1 DEF DomainOK
    <3> QED BY <1>8, <3>1, <3>2 DEF DomainOK, op, s
  <2>2. CASE ~counts
    <3>1. ld = c.ld /\ ~Compared(op)
      BY <1>2, <2>2 DEF ld
    <3> QED BY <1>8, <3>1 DEF DomainOK, op
  <2> QED BY <2>1, <2>2
<1> QED BY <1>6, <1>9 DEF op

\* A prefix is found streamable only if its operations have one launch domain.
LEMMA StreamableDomain ==
  ASSUME NEW w, IsSeq(w), \A i \in DOMAIN w : Stems(w[i])
  PROVE  \E ld : DomainOK(w, StreamableLen(w), ld)
PROOF
<1> DEFINE m == StreamableLen(w)
           c == PrefixChecks(w)
           S == {n \in Nat : n <= m => DomainOK(w, n, c[n].ld)}
<1>1. Len(w) \in Nat /\ DOMAIN w = 1..Len(w)
  BY SeqIs
<1>2. m \in 0..Len(w) /\ \A j \in 1..m : c[j].ok
  BY StreamableAgrees
<1>3. \A n \in 1..Len(w) : c[n] = CheckOp(c[n - 1], w[n])
  BY <1>1, ChecksAre
<1> HIDE DEF m, c
<1>4. 0 \in S
  BY DEF DomainOK
<1>5. ASSUME NEW n \in S PROVE n + 1 \in S
  <2> SUFFICES ASSUME n + 1 <= m PROVE DomainOK(w, n + 1, c[n + 1].ld)
    OBVIOUS
  <2>1. n \in Nat /\ n <= m /\ n + 1 \in 1..m /\ n + 1 \in 1..Len(w) /\ (n + 1) - 1 = n
    BY <1>1, <1>2
  <2>2. DomainOK(w, n, c[n].ld)
    BY <2>1
  <2>3. c[n + 1] = CheckOp(c[n], w[n + 1]) /\ c[n + 1].ok /\ Stems(w[n + 1])
    BY <1>1, <1>2, <1>3, <2>1
  <2>4. CheckOp(c[n], w[n + 1]).ok
    BY <2>3
  <2> HIDE DEF S
  <2>5. DomainOK(w, n + 1, CheckOp(c[n], w[n + 1]).ld)
    BY <2>1, <2>2, <2>3, <2>4, DomainCompared
  <2> QED BY <2>3, <2>5
<1>6. S = Nat
  <2>1. S \in SUBSET Nat
    OBVIOUS
  <2> HIDE DEF S
  <2> QED BY <1>4, <1>5, <2>1, EveryNumber
<1>7. DomainOK(w, m, c[m].ld)
  <2>1. m \in Nat /\ m <= m
    BY <1>1, <1>2
  <2> QED BY <1>6, <2>1
<1> QED BY <1>7 DEF m

\* What was launched of generation g
Launched(l, g) == {i \in DOMAIN l : l[i].gen = g}

\* The tasks of generation g, those in the log l and those still in ops, are launched in one way and
\* know how many they are.
Alone(l, g, ops, form, n) ==
  /\ \A k \in Members(ops) : Form(ops[k], ops[k].checked) = form /\ ops[k].size = n
  /\ \A i \in Launched(l, g) : l[i].form = form /\ l[i].size = n
Group(l, g, ops) ==
  \E form \in {"index", "single"} :
    Alone(l, g, ops, form, Cardinality(Members(ops)) + Cardinality(Launched(l, g)))

\* No task of a generation gets lost, none is added.
GroupsOK ==
  /\ \A g \in 1..gens : g # gens \/ NoPrefix(stack) => Group(log, g, <<>>)
  /\ \A j \in DOMAIN stack : stack[j].ops # <<>> => gens # 0 /\ Group(log, gens, stack[j].ops)

\* The sets that are counted
LEMMA CountsAre ==
  /\ Members(<<>>) = {} /\ Cardinality(Members(<<>>)) = 0
  /\ \A ops : IsSeq(ops) => IsFiniteSet(Members(ops)) /\ Cardinality(Members(ops)) \in Nat
  /\ \A l, g : IsSeq(l) => IsFiniteSet(Launched(l, g)) /\ Cardinality(Launched(l, g)) \in Nat
PROOF
<1>1. Members(<<>>) = {}
  BY ShortSeqs, SeqIs DEF Members
<1>2. ASSUME NEW s, IsSeq(s), NEW T \in SUBSET (DOMAIN s) PROVE IsFiniteSet(T) /\ Cardinality(T) \in Nat
  <2>1. DOMAIN s = 1..Len(s) /\ Len(s) \in Nat
    BY <1>2, SeqIs
  <2>2. IsFiniteSet(1..Len(s))
    BY <2>1, FS_Interval
  <2>3. IsFiniteSet(T)
    BY <2>1, <2>2, FS_Subset
  <2> QED BY <2>3, FS_CardinalityType
<1>3. \A ops : Members(ops) \in SUBSET (DOMAIN ops)
  BY DEF Members
<1>4. \A l, g : Launched(l, g) \in SUBSET (DOMAIN l)
  BY DEF Launched
<1> QED BY <1>1, <1>2, <1>3, <1>4, FS_EmptySet

\* The members of a prefix without its first operation
LEMMA MembersLeft ==
  ASSUME NEW ops, IsSeq(ops), 1 \in DOMAIN ops, NEW r, IsSeq(r), Len(r) = Len(ops) - 1,
         \A i \in DOMAIN r : r[i] = ops[i + 1] /\ i + 1 \in DOMAIN ops
  PROVE  /\ \A k \in Members(r) : k + 1 \in Members(ops) /\ r[k] = ops[k + 1]
         /\ Cardinality(Members(ops)) = Cardinality(Members(r)) + (IF ops[1].gen # 0 THEN 1 ELSE 0)
PROOF
<1> DEFINE T == Members(r)
           S == Members(ops) \ {1}
           f == [k \in T |-> k + 1]
<1>1. /\ DOMAIN ops = 1..Len(ops) /\ Len(ops) \in Nat /\ DOMAIN r = 1..Len(r) /\ Len(r) \in Nat
      /\ IsFiniteSet(T) /\ Cardinality(T) \in Nat
  BY SeqIs, CountsAre
<1>2. \A k \in T : k \in Nat /\ k # 0 /\ k + 1 \in Members(ops) /\ r[k] = ops[k + 1]
  BY <1>1 DEF Members
<1>3. ASSUME NEW y \in S PROVE \E k \in T : y = k + 1
  <2> DEFINE k == y - 1
  <2>1. y \in DOMAIN ops /\ ops[y].gen # 0 /\ y # 1
    BY DEF Members
  <2>2. k \in DOMAIN r /\ y = k + 1
    BY <1>1, <2>1
  <2> HIDE DEF k
  <2>3. r[k] = ops[y]
    BY <2>2
  <2>4. k \in T
    BY <2>1, <2>2, <2>3 DEF Members
  <2> QED BY <2>2, <2>4
<1>4. f \in Bijection(T, S)
  <2>1. \A k \in T : f[k] = k + 1 /\ k + 1 \in S
    <3>1. \A k \in T : k + 1 # 1
      BY <1>2
    <3> QED BY <1>2, <3>1
  <2>2. f \in [T -> S]
    BY <2>1
  <2>3. \A a, b \in T : f[a] = f[b] => a = b
    BY <1>2, <2>1
  <2>4. \A y \in S : \E k \in T : f[k] = y
    BY <1>3, <2>1
  <2> HIDE DEF f, S, T
  <2> QED BY <2>2, <2>3, <2>4 DEF Bijection, Injection, Surjection, IsInjective
<1>5. Cardinality(S) = Cardinality(T) /\ IsFiniteSet(S)
  <2>1. ExistsBijection(T, S)
    BY <1>4 DEF ExistsBijection
  <2> HIDE DEF S, T
  <2> QED BY <1>1, <2>1, FS_Bijection
<1>6. Members(ops) = IF ops[1].gen # 0 THEN S \cup {1} ELSE S
  BY DEF Members
<1>7. 1 \notin S
  OBVIOUS
<1> HIDE DEF S
<1>8. Cardinality(S \cup {1}) = Cardinality(S) + 1
  BY <1>5, <1>7, FS_AddElement
<1>9. Cardinality(Members(ops)) = Cardinality(T) + (IF ops[1].gen # 0 THEN 1 ELSE 0)
  BY <1>1, <1>5, <1>6, <1>8
<1> QED BY <1>2, <1>9

\* What the log k has of generation g, when e comes after the log l
Longer(k, l, e, g) ==
  /\ \A i \in Launched(k, g) : (i \in Launched(l, g) /\ k[i] = l[i]) \/ (e.gen = g /\ k[i] = e)
  /\ Cardinality(Launched(k, g)) = Cardinality(Launched(l, g)) + (IF e.gen = g THEN 1 ELSE 0)

\* The log, one entry longer
LEMMA LaunchedMore ==
  ASSUME NEW l, IsSeq(l), NEW e, NEW g
  PROVE  Longer(Append(l, e), l, e, g)
PROOF
<1> DEFINE n == Len(l) + 1
           k == Append(l, e)
<1>1. /\ DOMAIN l = 1..Len(l) /\ Len(l) \in Nat
      /\ IsFiniteSet(Launched(l, g)) /\ Cardinality(Launched(l, g)) \in Nat
  BY SeqIs, CountsAre
<1>2. (\A i \in DOMAIN l : k[i] = l[i]) /\ k[n] = e /\ DOMAIN k = DOMAIN l \cup {n}
  BY AppendIs
<1>3. n \notin DOMAIN l
  BY <1>1
<1> HIDE DEF k, n
<1>4. Launched(k, g) = IF e.gen = g THEN Launched(l, g) \cup {n} ELSE Launched(l, g)
  BY <1>2, <1>3 DEF Launched
<1>5. n \notin Launched(l, g) /\ \A i \in Launched(l, g) : i \in DOMAIN l
  BY <1>3 DEF Launched
<1>6. Cardinality(Launched(l, g) \cup {n}) = Cardinality(Launched(l, g)) + 1
  BY <1>1, <1>5, FS_AddElement
<1>7. \A i \in Launched(k, g) : (i \in Launched(l, g) /\ k[i] = l[i]) \/ (e.gen = g /\ k[i] = e)
  BY <1>2, <1>4, <1>5
<1>8. Cardinality(Launched(k, g)) = Cardinality(Launched(l, g)) + (IF e.gen = g THEN 1 ELSE 0)
  BY <1>1, <1>4, <1>6
<1> QED BY <1>7, <1>8 DEF k, Longer

\* Other generations stay as they are.
LEMMA GroupSame ==
  ASSUME NEW l, IsSeq(l), NEW e, NEW g, e.gen # g, Group(l, g, <<>>)
  PROVE  Group(Append(l, e), g, <<>>)
PROOF
<1>0. Longer(Append(l, e), l, e, g)
  BY LaunchedMore
<1> DEFINE k == Append(l, e)
<1> HIDE DEF k
<1>1. /\ \A i \in Launched(k, g) : i \in Launched(l, g) /\ k[i] = l[i]
      /\ Cardinality(Launched(k, g)) = Cardinality(Launched(l, g)) + 0
  BY <1>0 DEF k, Longer
<1>2. Cardinality(Launched(l, g)) \in Nat
  BY CountsAre
<1>3. Cardinality(Launched(k, g)) = Cardinality(Launched(l, g))
  BY <1>1, <1>2
<1>4. Group(k, g, <<>>)
  BY <1>1, <1>3 DEF Group, Alone
<1> QED BY <1>4 DEF k

\* The first operation of a prefix is launched.
LEMMA GroupNext ==
  ASSUME NEW l, IsSeq(l), NEW g, g # 0, NEW ops, IsSeq(ops), 1 \in DOMAIN ops,
         NEW r, IsSeq(r), Len(r) = Len(ops) - 1, \A i \in DOMAIN r : r[i] = ops[i + 1] /\ i + 1 \in DOMAIN ops,
         NEW e, e.gen = ops[1].gen, e.gen \in {0, g}, e.gen # 0 => e.form = Form(ops[1], ops[1].checked) /\ e.size = ops[1].size,
         Group(l, g, ops)
  PROVE  Group(Append(l, e), g, r)
PROOF
<1>0. Longer(Append(l, e), l, e, g)
  BY LaunchedMore
<1> DEFINE k == Append(l, e)
           N == Cardinality(Members(ops)) + Cardinality(Launched(l, g))
<1>1. PICK form \in {"index", "single"} : Alone(l, g, ops, form, N)
  BY DEF Group
<1>2. /\ \A i \in Members(r) : i + 1 \in Members(ops) /\ r[i] = ops[i + 1]
      /\ Cardinality(Members(ops)) = Cardinality(Members(r)) + (IF ops[1].gen # 0 THEN 1 ELSE 0)
  BY MembersLeft
<1>3. /\ \A i \in Launched(k, g) : (i \in Launched(l, g) /\ k[i] = l[i]) \/ (e.gen = g /\ k[i] = e)
      /\ Cardinality(Launched(k, g)) = Cardinality(Launched(l, g)) + (IF e.gen = g THEN 1 ELSE 0)
  BY <1>0 DEF Longer
<1>4. Cardinality(Members(r)) \in Nat /\ Cardinality(Launched(l, g)) \in Nat
  BY CountsAre
<1>5. N = Cardinality(Members(r)) + Cardinality(Launched(k, g))
  <2>1. CASE e.gen = g
    <3>1. Cardinality(Members(ops)) = Cardinality(Members(r)) + 1 /\ Cardinality(Launched(k, g)) = Cardinality(Launched(l, g)) + 1
      BY <1>2, <1>3, <2>1
    <3> HIDE DEF k
    <3> QED BY <1>4, <3>1
  <2>2. CASE e.gen # g
    <3>1. Cardinality(Members(ops)) = Cardinality(Members(r)) + 0 /\ Cardinality(Launched(k, g)) = Cardinality(Launched(l, g)) + 0
      BY <1>2, <1>3, <2>2
    <3> HIDE DEF k
    <3> QED BY <1>4, <3>1
  <2> QED BY <2>1, <2>2
<1>6. e.gen = g => 1 \in Members(ops)
  BY DEF Members
<1> HIDE DEF k, N
<1>7. \A i \in Members(r) : Form(r[i], r[i].checked) = form /\ r[i].size = N
  BY <1>1, <1>2 DEF Alone
<1>8. \A i \in Launched(k, g) : k[i].form = form /\ k[i].size = N
  BY <1>1, <1>3, <1>6 DEF Alone
<1>9. Group(k, g, r)
  BY <1>5, <1>7, <1>8 DEF Group, Alone
<1> QED BY <1>9 DEF k

\* A prefix that was cut off is a group.
LEMMA ExtractedGroup ==
  ASSUME AutosIndexed, IInv, AgreeOK, NEW ops, IsSeq(ops), Numbered(ops),
         \A i \in DOMAIN ops : FromWindow(ops[i], i)
  PROVE  Group(log, gens + 1, ops)
PROOF
<1>1. PICK ld : DomainOK(window, StreamableLen(window), ld)
  <2>1. IsSeq(window) /\ \A i \in DOMAIN window : Stems(window[i])
    BY DEF IInv, WindowOK, QueueOK, AgreeOK, Unchecked
  <2> QED BY <2>1, StreamableDomain
<1>2. StreamableLen(window) \in Nat
  <2>1. IsSeq(window) /\ Len(window) \in Nat
    BY SeqIs DEF IInv, WindowOK, QueueOK
  <2>2. StreamableLen(window) \in 0..Len(window)
    BY <2>1, StreamableAgrees
  <2> QED BY <2>1, <2>2
<1> DEFINE m == StreamableLen(window)
<1>3. ASSUME NEW k \in Members(ops)
      PROVE  /\ k = 1 \/ (k \in 1..m /\ ops[k].checked.ld = ld)
             /\ m >= 1 => ops[k].checked.ld = ld
             /\ IsTask(ops[k])
  <2> DEFINE o == ops[k]
             p == window[k]
  <2>1. k \in DOMAIN ops /\ IsTask(o) /\ ~IsSingleton(o)
    BY DEF Members, Numbered
  <2>2. FromWindow(o, k) /\ Strategic(o)
    BY <2>1, WhoPartitions
  <2>3. k \in DOMAIN window /\ Alike(o, p) /\ o.checked = Strategy(p, key) /\ (k <= m \/ k = 1)
    BY <2>2 DEF FromWindow
  <2>4. IsTask(p) /\ ~IsSingleton(p) /\ Stems(p)
    BY <2>1, <2>3 DEF Alike, IsTask, IsSingleton, AgreeOK, Unchecked
  <2>5. k \in Nat /\ k # 0
    <3>1. IsSeq(ops)
      OBVIOUS
    <3>2. DOMAIN ops = 1..Len(ops) /\ Len(ops) \in Nat
      BY <3>1, SeqIs
    <3> QED BY <2>1, <3>2
  <2> HIDE DEF o, p
  <2>6. Compared(p)
    BY <2>4, TasksCompared
  <2>7. k \in 1..m => o.checked.ld = ld
    BY <1>1, <2>3, <2>6 DEF DomainOK, p, m
  <2> HIDE DEF m
  <2>8. k \in 1..m \/ k = 1
    BY <1>2, <2>3, <2>5 DEF m
  <2>9. m >= 1 => k \in 1..m
    BY <1>2, <2>3, <2>5 DEF m
  <2> QED BY <2>1, <2>7, <2>8, <2>9 DEF o
<1> HIDE DEF m
<1>4. \A j, k \in Members(ops) : Form(ops[j], ops[j].checked) = Form(ops[k], ops[k].checked)
  <2>1. CASE m >= 1
    BY <1>3, <2>1 DEF Form
  <2>2. CASE ~(m >= 1)
    <3>1. \A k \in Members(ops) : k = 1
      BY <1>2, <1>3, <2>2 DEF m
    <3> QED BY <3>1
  <2> QED BY <2>1, <2>2
<1>5. \A k \in Members(ops) : Form(ops[k], ops[k].checked) \in {"index", "single"}
  BY <1>3 DEF Form
<1>6. PICK form \in {"index", "single"} : \A k \in Members(ops) : Form(ops[k], ops[k].checked) = form
  <2>1. CASE Members(ops) = {}
    BY <2>1
  <2>2. CASE Members(ops) # {}
    BY <1>4, <1>5, <2>2
  <2> QED BY <2>1, <2>2
<1>7. Launched(log, gens + 1) = {} /\ Cardinality(Launched(log, gens + 1)) = 0
  <2>1. \A i \in DOMAIN log : log[i].gen \in 0..gens /\ gens \in Nat
    BY DEF IInv, LogOK, DataOK
  <2>2. \A i \in DOMAIN log : log[i].gen # gens + 1
    <3> TAKE i \in DOMAIN log
    <3> DEFINE g == log[i].gen
    <3>1. g \in 0..gens /\ gens \in Nat
      BY <2>1
    <3> HIDE DEF g
    <3>2. g # gens + 1
      BY <3>1
    <3> QED BY <3>2 DEF g
  <2>3. Launched(log, gens + 1) = {}
    BY <2>2 DEF Launched
  <2> QED BY <2>3, FS_EmptySet
<1>8. Cardinality(Members(ops)) \in Nat
  BY CountsAre
<1>9. Cardinality(Members(ops)) + Cardinality(Launched(log, gens + 1)) = Cardinality(Members(ops))
  BY <1>7, <1>8
<1>10. Alone(log, gens + 1, ops, form, Cardinality(Members(ops)))
  BY <1>6, <1>7 DEF Alone, Numbered
<1> QED BY <1>9, <1>10 DEF Group


\* A sequence of items without prefixes
LEMMA RestKept ==
  ASSUME NEW s, NEW r, IsSeq(s), IsSeq(r), NoPrefix(s \o r)
  PROVE  NoPrefix(s) /\ NoPrefix(r)
PROOF
<1> DEFINE u == s \o r
<1>1. /\ IsSeq(u) /\ Len(u) = Len(s) + Len(r)
      /\ \A i \in DOMAIN s : u[i] = s[i]
      /\ \A i \in DOMAIN r : u[Len(s) + i] = r[i]
  BY ConcatIs
<1> HIDE DEF u
<1>2. /\ DOMAIN s = 1..Len(s) /\ Len(s) \in Nat /\ DOMAIN r = 1..Len(r) /\ Len(r) \in Nat
      /\ DOMAIN u = 1..Len(u)
  BY <1>1, SeqIs
<1>3. \A i \in DOMAIN s : i \in DOMAIN u
  BY <1>1, <1>2
<1>4. \A i \in DOMAIN r : Len(s) + i \in DOMAIN u
  BY <1>1, <1>2
<1>5. NoPrefix(u)
  BY DEF u
<1> QED BY <1>1, <1>3, <1>4, <1>5 DEF NoPrefix

\* One item of them
LEMMA FrontKept ==
  ASSUME NEW x, NEW r, IsSeq(r), NoPrefix(<<x>> \o r)
  PROVE  x.ops = <<>>
PROOF
<1> DEFINE h == <<x>>
<1>1. IsSeq(h) /\ 1 \in DOMAIN h /\ h[1] = x
  BY ShortSeqs, SeqIs
<1>2. NoPrefix(h \o r)
  OBVIOUS
<1> HIDE DEF h
<1>3. NoPrefix(h)
  BY <1>1, <1>2, RestKept
<1> QED BY <1>1, <1>3 DEF NoPrefix

\* Only a submission, or its own launch, may happen while a prefix is left.
LEMMA NoneLeft ==
  ASSUME IInv, OtherSteps \/ DoFlush \/ Run \/ Extract \/ \E t \in Tasks : Call(t)
  PROVE  NoPrefix(stack) \/ stack' = stack
PROOF
<1>1. ASSUME stack = <<>> PROVE NoPrefix(stack)
  BY <1>1, ShortSeqs, SeqIs DEF NoPrefix
<1>2. ASSUME stack # <<>>, Top.c # "submit", Top.c # "stream" \/ Top.ops = <<>> PROVE NoPrefix(stack)
  BY <1>2, OnlyTop DEF Harmless, NoPrefix
<1>3. CASE DoMatch \/ Reuse \/ NewStore \/ Enter \/ EndOfScope \/ DoFlush \/ Run
  <2>1. stack # <<>> /\ Top.c \in {"match", "process", "matched", "issue", "reuse", "detached", "new", "enter", "leave", "flush", "run"}
    BY <1>3 DEF DoMatch, Reuse, NewStore, Enter, EndOfScope, DoFlush, Run, At
  <2> QED BY <1>2, <2>1
<1>4. CASE EndFlush \/ Extract
  <2>1. stack # <<>> /\ (Top.c = "run" \/ (Top.c = "stream" /\ Top.ops = <<>>))
    BY <1>4 DEF EndFlush, Extract, At
  <2> QED BY <1>2, <2>1
<1>5. CASE (\E t \in Tasks : Call(t)) \/ (\E f \in Fields : Create(f) \/ Drop(f)) \/ (\E p \in Policies : BeginScope(p)) \/ EndScope \/ Catch
  <2>1. stack = <<>>
    BY <1>5 DEF Call, Create, Drop, BeginScope, EndScope, Catch, Ready, Idle
  <2> QED BY <1>1, <2>1
<1>6. CASE UNCHANGED vars
  BY <1>6 DEF vars
<1> QED BY <1>3, <1>4, <1>5, <1>6 DEF OtherSteps

\* A submission does not end a prefix.
LEMMA SubmitLeaves ==
  ASSUME IInv, DoSubmit, NoPrefix(stack')
  PROVE  NoPrefix(stack)
PROOF
<1> DEFINE op == IF Top.op.id # 0 THEN Top.op ELSE [Top.op EXCEPT !.id = ids + 1]
           new == IF op.flush \/ TooBig(window') THEN <<Flush("op")>> ELSE <<>>
<1>1. stack # <<>> /\ Top.c = "submit" /\ stack' = new \o Rest
  BY DEF DoSubmit, At
<1> HIDE DEF op
<1>2. IsSeq(new)
  BY ShortSeqs
<1> HIDE DEF new
<1>3. IsSeq(Rest) /\ Top = stack[1] /\ ItemOK(Top, ids, gens) /\ \A i \in DOMAIN Rest : Rest[i] = stack[i + 1]
  BY <1>1, RestIs DEF IInv, StackOK
<1>4. NoPrefix(Rest)
  <2>1. NoPrefix(new \o Rest)
    BY <1>1
  <2> QED BY <1>2, <1>3, <2>1, RestKept
<1>5. stack[1].ops = <<>>
  BY <1>1, <1>3 DEF ItemOK
<1>6. \A j \in DOMAIN stack : j = 1 \/ (j - 1 \in DOMAIN Rest /\ stack[j] = Rest[j - 1])
  <2>1. /\ DOMAIN stack = 1..Len(stack) /\ Len(stack) \in Nat /\ DOMAIN Rest = 1..Len(Rest) /\ Len(Rest) = Len(stack) - 1
    <3>1. IsSeq(stack)
      BY DEF IInv, StackOK, CallOK
    <3>2. Len(Rest) = Len(stack) - 1
      BY <1>1, <3>1, TailIs DEF Rest
    <3> QED BY <1>3, <3>1, <3>2, SeqIs
  <2>2. ASSUME NEW j \in DOMAIN stack, j # 1 PROVE j - 1 \in DOMAIN Rest /\ stack[j] = Rest[j - 1]
    <3> DEFINE i == j - 1
    <3>1. i \in DOMAIN Rest /\ j = i + 1
      BY <2>1, <2>2
    <3> HIDE DEF i
    <3>2. i \in DOMAIN Rest /\ stack[j] = Rest[i]
      BY <1>3, <3>1
    <3> QED BY <3>2 DEF i
  <2> QED BY <2>2
<1> QED BY <1>4, <1>5, <1>6 DEF NoPrefix

\* What a step that launches nothing and cuts nothing off keeps
LEMMA GroupsFrom ==
  ASSUME GroupsOK, log' = log, gens' = gens, StackFrom, NoPrefix(stack') => NoPrefix(stack)
  PROVE  GroupsOK'
PROOF
<1>1. ASSUME NEW j \in DOMAIN stack', stack'[j].ops # <<>> PROVE gens' # 0 /\ Group(log', gens', stack'[j].ops)
  <2>1. PICK k \in DOMAIN stack : stack'[j] = stack[k]
    BY <1>1 DEF StackFrom, Clean
  <2>2. gens # 0 /\ Group(log, gens, stack[k].ops)
    BY <1>1, <2>1 DEF GroupsOK
  <2> QED BY <2>1, <2>2
<1>2. \A g \in 1..gens' : g # gens' \/ NoPrefix(stack') => Group(log', g, <<>>)
  BY DEF GroupsOK
<1> QED BY <1>1, <1>2 DEF GroupsOK

\* A prefix is cut off.
LEMMA ExtractGroups ==
  ASSUME AutosIndexed, IInv, AgreeOK, GroupsOK, Extract
  PROVE  GroupsOK'
PROOF
<1>1. NoPrefix(stack) \/ stack' = stack
  BY NoneLeft
<1>2. stack # <<>> /\ Top.c = "stream" /\ Top.ops = <<>>
  BY DEF Extract, At
<1>3. NoPrefix(stack)
  BY <1>2, OnlyTop DEF Harmless, NoPrefix
<1>4. /\ log' = log
      /\ \/ CleanSeq(stack') /\ gens' = gens
         \/ /\ gens' = gens + 1
            /\ \E x : /\ stack' = <<x>> \o Rest /\ IsSeq(x.ops)
                      /\ \A i \in DOMAIN x.ops : FromWindow(x.ops[i], i)
                      /\ Numbered(x.ops)
  BY ExtractFrom
<1>5. CASE CleanSeq(stack') /\ gens' = gens
  BY <1>3, <1>4, <1>5, FromClean, GroupsFrom
<1>6. ASSUME gens' = gens + 1, NEW x, stack' = <<x>> \o Rest, IsSeq(x.ops), Numbered(x.ops),
             \A i \in DOMAIN x.ops : FromWindow(x.ops[i], i)
      PROVE  GroupsOK'
  <2>1. Group(log, gens + 1, x.ops)
    BY <1>6, ExtractedGroup
  <2>2. gens \in Nat
    BY DEF IInv, DataOK
  <2>3. \A i \in DOMAIN stack' : stack'[i] = x \/ \E j \in DOMAIN stack : stack'[i] = stack[j]
    BY <1>2, <1>6, FromOne
  <2>4. ASSUME NEW j \in DOMAIN stack', stack'[j].ops # <<>> PROVE gens' # 0 /\ Group(log', gens', stack'[j].ops)
    <3>1. stack'[j] = x
      BY <1>3, <2>3, <2>4 DEF NoPrefix
    <3>2. gens' # 0
      BY <1>6, <2>2
    <3> QED BY <1>4, <1>6, <2>1, <3>1, <3>2
  <2>5. ASSUME NEW g \in 1..gens', g # gens' \/ NoPrefix(stack') PROVE Group(log', g, <<>>)
    <3>1. CASE g = gens'
      <4>1. IsSeq(Rest) /\ NoPrefix(<<x>> \o Rest)
        BY <1>2, <1>6, <2>5, <3>1, RestIs DEF IInv, StackOK
      <4>2. x.ops = <<>>
        BY <4>1, FrontKept
      <4> QED BY <1>4, <1>6, <2>1, <3>1, <4>2
    <3>2. CASE g # gens'
      <4>1. g \in 1..gens
        BY <1>6, <2>2, <3>2
      <4> QED BY <1>3, <1>4, <4>1 DEF GroupsOK
    <3> QED BY <3>1, <3>2
  <2> QED BY <2>4, <2>5 DEF GroupsOK
<1> QED BY <1>4, <1>5, <1>6

\* An operation of the window belongs to no generation.
LEMMA RunGroups ==
  ASSUME ScalarsWhole, Scalars \cap Unbound = {}, IInv, AgreeOK, CheckedOK, GroupsOK, Run
  PROVE  GroupsOK'
PROOF
<1> DEFINE e == Entry(window[1], Strategy(window[1], key))
<1>1. log' = Append(log, e) /\ NoPrefix(stack')
  BY RunChecked
<1>2. gens' = gens /\ window[1].gen = 0 /\ stack # <<>> /\ Top.c = "run"
  BY RunFrom DEF Waits
<1>3. NoPrefix(stack)
  BY <1>2, OnlyTop DEF Harmless, NoPrefix
<1>4. e.gen = 0
  BY <1>2, EntryIs
<1>5. gens \in Nat /\ IsSeq(log)
  BY DEF IInv, DataOK, LogOK
<1> HIDE DEF e
<1>6. ASSUME NEW g \in 1..gens' PROVE Group(log', g, <<>>)
  <2>1. g \in 1..gens /\ e.gen # g
    BY <1>2, <1>4, <1>5
  <2>2. Group(log, g, <<>>)
    BY <1>3, <2>1 DEF GroupsOK
  <2>3. Group(Append(log, e), g, <<>>)
    BY <1>5, <2>1, <2>2, GroupSame
  <2> QED BY <1>1, <2>3
<1> QED BY <1>1, <1>6 DEF GroupsOK, NoPrefix

\* An operation of the prefix leaves it and enters the log.
LEMMA RunPrefixGroups ==
  ASSUME IInv, CheckedOK, GroupsOK, RunPrefix
  PROVE  GroupsOK'
PROOF
<1>1. /\ stack # <<>> /\ Top.c = "stream" /\ Top = stack[1] /\ 1 \in DOMAIN stack /\ 1 \in DOMAIN Top.ops /\ IsSeq(Top.ops)
      /\ Head(Top.ops) = Top.ops[1] /\ Head(Top.ops).gen \in {0, gens} /\ gens' = gens
      /\ \E x, s : /\ Launch(Head(Top.ops), <<x>> \o Rest)
                   /\ \A i \in DOMAIN x.ops : x.ops[i] = Top.ops[i + 1] /\ i + 1 \in DOMAIN Top.ops
                   /\ IsSeq(x.ops) /\ Len(x.ops) = Len(Top.ops) - 1 /\ CleanSeq(s) /\ stack' = s \o (<<x>> \o Rest)
  BY RunPrefixFrom
<1>2. PICK x, s : /\ Launch(Head(Top.ops), <<x>> \o Rest)
                  /\ \A i \in DOMAIN x.ops : x.ops[i] = Top.ops[i + 1] /\ i + 1 \in DOMAIN Top.ops
                  /\ IsSeq(x.ops) /\ Len(x.ops) = Len(Top.ops) - 1 /\ CleanSeq(s) /\ stack' = s \o (<<x>> \o Rest)
  BY <1>1
<1> DEFINE ops == Top.ops
           op == ops[1]
           e == Entry(op, Strategy(op, key))
           r == x.ops
<1>3. log' = Append(log, e)
  <2>1. Launch(op, <<x>> \o Rest)
    BY <1>1, <1>2
  <2> QED BY <2>1, LaunchKeys
<1>4. op.checked = Strategy(op, key)
  <2>1. ItemChecked(Top, key)
    BY <1>1 DEF CheckedOK
  <2> QED BY <1>1, <2>1 DEF ItemChecked
<1>5. e.gen = op.gen /\ e.form = Form(op, op.checked) /\ e.size = op.size
  BY <1>4, EntryIs
<1>6. op.gen \in {0, gens}
  BY <1>1
<1>7. gens # 0 /\ Group(log, gens, ops) /\ gens \in Nat /\ IsSeq(log) /\ ops # <<>>
  <2>1. ops # <<>>
    BY <1>1, ShortSeqs, SeqIs
  <2>2. gens # 0 /\ Group(log, gens, ops)
    BY <1>1, <2>1 DEF GroupsOK
  <2> QED BY <2>1, <2>2 DEF IInv, DataOK, LogOK
<1>8. Group(log', gens, r)
  <2>1. /\ IsSeq(ops) /\ 1 \in DOMAIN ops /\ IsSeq(r) /\ Len(r) = Len(ops) - 1
        /\ \A i \in DOMAIN r : r[i] = ops[i + 1] /\ i + 1 \in DOMAIN ops
    BY <1>1, <1>2
  <2> HIDE DEF ops, e, r
  <2>2. Group(Append(log, e), gens, r)
    BY <1>5, <1>6, <1>7, <2>1, GroupNext
  <2> QED BY <1>3, <2>2
<1> HIDE DEF e, op, ops
<1>9. IsSeq(Rest) /\ IsSeq(s) /\ IsSeq(<<x>> \o Rest)
  <2>1. IsSeq(Rest) /\ IsSeq(s)
    BY <1>1, <1>2, RestIs DEF CleanSeq, IInv, StackOK
  <2> QED BY <2>1, OneInFront
<1>10. \A i \in DOMAIN stack' : stack'[i] = x \/ stack'[i].ops = <<>>
  <2>1. \A i \in DOMAIN stack' : (\E k \in DOMAIN s : stack'[i] = s[k]) \/ stack'[i] = x \/ \E k \in DOMAIN Rest : stack'[i] = Rest[k]
    <3>1. IsSeq(s) /\ IsSeq(Rest)
      BY <1>9
    <3>2. stack' = s \o (<<x>> \o Rest)
      BY <1>2
    <3> QED BY <3>1, <3>2, OneBetween
  <2>2. \A k \in DOMAIN Rest : Rest[k].ops = <<>>
    BY <1>1, OnlyTop DEF Harmless
  <2>3. \A k \in DOMAIN s : s[k].ops = <<>>
    BY <1>2 DEF CleanSeq, Clean
  <2> QED BY <2>1, <2>2, <2>3
<1>11. NoPrefix(stack') => x.ops = <<>>
  <2> SUFFICES ASSUME NoPrefix(stack') PROVE x.ops = <<>>
    OBVIOUS
  <2> DEFINE v == <<x>> \o Rest
  <2>1. NoPrefix(s \o v) /\ IsSeq(v)
    BY <1>2, <1>9
  <2> HIDE DEF v
  <2>2. NoPrefix(v)
    BY <1>9, <2>1, RestKept
  <2>3. NoPrefix(<<x>> \o Rest)
    BY <2>2 DEF v
  <2> QED BY <1>9, <2>3, FrontKept
<1>12. ASSUME NEW g \in 1..gens', g # gens' \/ NoPrefix(stack') PROVE Group(log', g, <<>>)
  <2>1. CASE g = gens'
    BY <1>1, <1>8, <1>11, <1>12, <2>1
  <2>2. CASE g # gens'
    <3>1. g \in 1..gens /\ g # gens /\ e.gen # g
      BY <1>1, <1>5, <1>6, <1>7, <2>2
    <3>2. Group(log, g, <<>>)
      BY <3>1 DEF GroupsOK
    <3>3. Group(Append(log, e), g, <<>>)
      BY <1>7, <3>1, <3>2, GroupSame
    <3> QED BY <1>3, <3>3
  <2> QED BY <2>1, <2>2
<1>13. ASSUME NEW j \in DOMAIN stack', stack'[j].ops # <<>> PROVE gens' # 0 /\ Group(log', gens', stack'[j].ops)
  BY <1>1, <1>7, <1>8, <1>10, <1>13
<1> QED BY <1>12, <1>13 DEF GroupsOK

\* Every step keeps it.
LEMMA GroupsKept ==
  ASSUME ScalarsWhole, AutosIndexed, Scalars \cap Unbound = {}, IInv, AgreeOK, CheckedOK, GroupsOK, [Next]_vars
  PROVE  GroupsOK'
PROOF
<1>1. CASE OtherSteps
  <2>1. StackFrom /\ log' = log /\ gens' = gens
    BY <1>1, OthersFrom
  <2>2. NoPrefix(stack') => NoPrefix(stack)
    BY <1>1, NoneLeft
  <2> QED BY <2>1, <2>2, GroupsFrom
<1>2. CASE DoSubmit
  BY <1>2, SubmitFrom, SubmitLeaves, GroupsFrom
<1>3. CASE DoFlush
  <2>1. StackFrom /\ log' = log /\ gens' = gens
    BY <1>3, FlushFrom
  <2>2. NoPrefix(stack') => NoPrefix(stack)
    BY <1>3, NoneLeft
  <2> QED BY <2>1, <2>2, GroupsFrom
<1>4. CASE Extract
  BY <1>4, ExtractGroups
<1>5. CASE Run
  BY <1>5, RunGroups
<1>6. CASE RunPrefix
  BY <1>6, RunPrefixGroups
<1>7. ASSUME NEW t \in Tasks, Call(t) PROVE GroupsOK'
  <2>1. log' = log /\ gens' = gens /\ stack = <<>> /\ \E x : stack' = <<x>> /\ x.ops = <<>>
    BY <1>7, CallFrom
  <2>2. PICK x : stack' = <<x>> /\ x.ops = <<>>
    BY <2>1
  <2>3. \A i \in DOMAIN <<x>> : <<x>>[i] = x
    BY ShortSeqs
  <2>4. \A j \in DOMAIN stack' : stack'[j].ops = <<>>
    BY <2>2, <2>3
  <2>5. NoPrefix(stack)
    BY <2>1, ShortSeqs, SeqIs DEF NoPrefix
  <2> QED BY <2>1, <2>4, <2>5 DEF GroupsOK
<1> QED BY <1>1, <1>2, <1>3, <1>4, <1>5, <1>6, <1>7, Steps

\* It holds at the start.
LEMMA GroupsStart == Init => GroupsOK
PROOF
<1>1. DOMAIN <<>> = {}
  BY ShortSeqs, SeqIs
<1>2. 1..0 = {}
  OBVIOUS
<1> QED BY <1>1, <1>2 DEF Init, GroupsOK

-----------------------------------------------------------------------------
(* What is launched reads what program order says *)

\* What waits to be launched of an item
ItemLine(x) == Range(x.ops) \cup (IF x.c = "submit" /\ x.op.id # 0 THEN {x.op} ELSE {})
Behind(s) == UNION {ItemLine(s[j]) : j \in DOMAIN s}
Line == Range(window) \cup Behind(stack)

\* Operation w leaves its value in f, or changes what is there.
Leaves(w, f) == f \in w.out \cup w.red /\ f \notin w.drop /\ w.kind # "discard"
Affects(w, f) == f \in w.out \cup w.red \cup w.drop \/ (w.kind = "discard" /\ w.field = f)

\* Whoever reads f as operation n finds what v wrote, if the operations of L are launched in order: v is
\* the last of them before n, or was launched and none before n changes it.
Finds(L, m, f, v, n) ==
  \/ \E w \in L : w.id = v /\ v < n /\ Leaves(w, f) /\ \A u \in L : Affects(u, f) /\ u.id < n => u.id <= v
  \/ m[f] = v /\ \A u \in L : Affects(u, f) => u.id >= n

\* Tasks find what they should read; whoever comes next finds what was written last.
TasksFind(L, m) == \A r \in L : IsTask(r) => \A f \in r.in \cup r.red : Finds(L, m, f, r.src[f], r.id)
StoresFind(L, m, al, wrt, n) == \A f \in al : wrt[f] # 0 => Finds(L, m, f, wrt[f], n)

\* A fence gets its id when a prefix is cut off, all others when they are submitted.
Earlier(u, w) == u.kind # "fence" /\ w.kind # "fence" => u.id < w.id
Ordered(ops, w) ==
  \A k \in DOMAIN ops : /\ \A l \in DOMAIN ops : k < l => Earlier(ops[k], ops[l])
                        /\ \A i \in DOMAIN w : Earlier(ops[k], w[i])

\* A fence changes nothing, and only what the program submits reads.
Lean(op) == /\ op.kind = "fence" => op.out = {} /\ op.red = {} /\ op.drop = {}
            /\ ~Strategic(op) => op.in = {} /\ op.red = {}

\* What a destructor or a scope submits changes nothing that a store of the program has.
Idles(op, al) == /\ Lean(op) /\ ~Strategic(op) /\ Touched(op) = {} /\ op.drop = {}
                 /\ op.kind = "discard" => op.field \notin al

\* What whoever waits, and whoever is submitted next, will find
FlowOK == TasksFind(Line, mem) /\ StoresFind(Line, mem, alive, wr, ids + 2)

\* The line is in order and changes no more than it says.
LineOK == /\ \A j \in DOMAIN stack : Ordered(stack[j].ops, window)
          /\ \A u \in Line : Lean(u)
          /\ \A j \in DOMAIN stack : stack[j].c = "submit" /\ stack[j].op.id = 0 => Idles(stack[j].op, alive)

\* What was launched read what it should, unless it is a copy.
FreshOK == \A i \in DOMAIN log : \/ log[i].fresh
                                 \/ \E t \in Tasks : t.kind = log[i].form /\ ~IsTask(t) /\ t.in \cup t.red # {}

\* What is found stays there when no other operation comes to change it.
LEMMA FindsStays ==
  ASSUME NEW L, NEW K, NEW m, NEW f, NEW v, NEW n \in Nat, NEW k \in Nat, Finds(L, m, f, v, n),
         \A u \in L : u.id \in Nat, \A u \in K : u.id \in Nat,
         \A w \in L : w.id = v /\ v < n /\ Leaves(w, f) /\ (\A u \in L : Affects(u, f) /\ u.id < n => u.id <= v)
           => v < k /\ \E x \in K : x.id = v /\ Leaves(x, f),
         \A u \in K : Affects(u, f) /\ u.id < k => \E y \in L : Affects(y, f) /\ y.id < n /\ u.id <= y.id
  PROVE  Finds(K, m, f, v, k)
PROOF
<1>1. CASE \E w \in L : w.id = v /\ v < n /\ Leaves(w, f) /\ \A u \in L : Affects(u, f) /\ u.id < n => u.id <= v
  <2>1. PICK w \in L : w.id = v /\ v < n /\ Leaves(w, f) /\ \A u \in L : Affects(u, f) /\ u.id < n => u.id <= v
    BY <1>1
  <2>2. v < k /\ \E x \in K : x.id = v /\ Leaves(x, f)
    BY <2>1
  <2>3. ASSUME NEW u \in K, Affects(u, f), u.id < k PROVE u.id <= v
    <3>1. PICK y \in L : Affects(y, f) /\ y.id < n /\ u.id <= y.id
      BY <2>3
    <3>2. y.id <= v /\ u.id \in Nat /\ y.id \in Nat /\ v \in Nat
      BY <2>1, <3>1
    <3> HIDE DEF Affects
    <3> QED BY <3>1, <3>2
  <2> QED BY <2>2, <2>3 DEF Finds
<1>2. CASE m[f] = v /\ \A u \in L : Affects(u, f) => u.id >= n
  <2>1. ASSUME NEW u \in K, Affects(u, f) PROVE u.id >= k
    <3>1. SUFFICES ASSUME u.id < k PROVE FALSE
      BY <2>1
    <3>2. PICK y \in L : Affects(y, f) /\ y.id < n
      BY <2>1, <3>1
    <3>3. y.id >= n /\ y.id \in Nat
      BY <1>2, <3>2
    <3> QED BY <3>2, <3>3
  <2> QED BY <1>2, <2>1 DEF Finds
<1> QED BY <1>1, <1>2 DEF Finds

\* One more operation, behind the reader, changes nothing for it.
LEMMA FindsMore ==
  ASSUME NEW L, NEW op, NEW m, NEW f, NEW v, NEW n \in Nat, NEW k \in Nat, Finds(L, m, f, v, n),
         \A u \in L : u.id \in Nat, op.id \in Nat, Affects(op, f) => op.id >= k,
         \A u \in L : u.id < k <=> u.id < n
  PROVE  Finds(L \cup {op}, m, f, v, k)
PROOF
<1> DEFINE K == L \cup {op}
<1>1. \A u \in K : u.id \in Nat
  OBVIOUS
<1>2. \A w \in L : w.id = v /\ v < n /\ Leaves(w, f) /\ (\A u \in L : Affects(u, f) /\ u.id < n => u.id <= v)
        => v < k /\ \E x \in K : x.id = v /\ Leaves(x, f)
  OBVIOUS
<1>3. ASSUME NEW u \in K, Affects(u, f), u.id < k PROVE \E y \in L : Affects(y, f) /\ y.id < n /\ u.id <= y.id
  <2>1. u \in L
    <3>1. u = op => ~(u.id < k)
      BY <1>3
    <3> QED BY <1>3, <3>1
  <2>2. u.id < n /\ u.id <= u.id
    BY <1>3, <2>1
  <2> QED BY <1>3, <2>1, <2>2
<1> HIDE DEF K
<1>4. Finds(K, m, f, v, k)
  BY <1>1, <1>2, <1>3, FindsStays
<1> QED BY <1>4 DEF K

\* The first operation of the line is launched: whoever comes behind it finds what it should.
LEMMA FindsLaunched ==
  ASSUME NEW K, NEW op, NEW m, NEW q, NEW f, NEW v, NEW n \in Nat, Finds(K \cup {op}, m, f, v, n),
         \A u \in K : u.id \in Nat /\ Earlier(op, u) /\ (u.kind = "fence" => ~Affects(u, f)),
         op.id \in Nat, op.kind = "fence" => ~Affects(op, f), Affects(op, f) => op.id < n,
         Leaves(op, f) => q[f] = op.id, ~Affects(op, f) => q[f] = m[f]
  PROVE  Finds(K, q, f, v, n)
PROOF
<1> DEFINE L == K \cup {op}
<1>1. CASE \E w \in L : w.id = v /\ v < n /\ Leaves(w, f) /\ \A u \in L : Affects(u, f) /\ u.id < n => u.id <= v
  <2>1. PICK w \in L : w.id = v /\ v < n /\ Leaves(w, f) /\ \A u \in L : Affects(u, f) /\ u.id < n => u.id <= v
    BY <1>1
  <2>2. \A u \in K : Affects(u, f) /\ u.id < n => u.id <= v
    BY <2>1
  <2>3. CASE w \in K
    BY <2>1, <2>2, <2>3 DEF Finds
  <2>4. CASE w = op
    <3>1. q[f] = v /\ v = op.id /\ Affects(op, f) /\ op.kind # "fence"
      BY <2>1, <2>4 DEF Leaves, Affects
    <3>2. ASSUME NEW u \in K, Affects(u, f) PROVE u.id >= n
      <4>1. op.id < u.id /\ u.id \in Nat
        BY <3>1, <3>2 DEF Earlier
      <4>2. u.id < n => u.id <= v
        BY <2>2, <3>2
      <4> QED BY <3>1, <4>1, <4>2
    <3> QED BY <3>1, <3>2 DEF Finds
  <2> QED BY <2>1, <2>3, <2>4
<1>2. CASE m[f] = v /\ \A u \in L : Affects(u, f) => u.id >= n
  <2>1. ~Affects(op, f)
    <3>1. Affects(op, f) => op.id >= n
      BY <1>2
    <3> QED BY <3>1
  <2>2. q[f] = v /\ \A u \in K : Affects(u, f) => u.id >= n
    BY <1>2, <2>1
  <2> QED BY <2>2 DEF Finds
<1> QED BY <1>1, <1>2 DEF Finds

\* The first operation of the line reads what was launched.
LEMMA FirstReads ==
  ASSUME NEW K, NEW op, NEW m, NEW f, NEW v, Finds(K \cup {op}, m, f, v, op.id),
         \A u \in K : u.id \in Nat /\ Earlier(op, u) /\ (u.kind = "fence" => ~Affects(u, f)),
         op.id \in Nat, op.kind # "fence"
  PROVE  m[f] = v
PROOF
<1>1. ASSUME NEW w \in K \cup {op}, w.id < op.id, Leaves(w, f) PROVE FALSE
  <2>1. w \in K
    BY <1>1
  <2>2. Affects(w, f)
    BY <1>1 DEF Leaves, Affects
  <2>3. op.id < w.id /\ w.id \in Nat
    BY <2>1, <2>2 DEF Earlier
  <2> QED BY <1>1, <2>3
<1> QED BY <1>1 DEF Finds

\* Nothing waits behind an empty stack.
LEMMA BehindNothing == Range(<<>>) = {} /\ Behind(<<>>) = {}
PROOF
<1>1. DOMAIN <<>> = {}
  BY ShortSeqs, SeqIs
<1> QED BY <1>1 DEF Range, Behind

\* One item, and one sequence of items in front of another
LEMMA BehindOne == ASSUME NEW x PROVE Behind(<<x>>) = ItemLine(x)
PROOF
<1>1. IsSeq(<<x>>) /\ Len(<<x>>) = 1 /\ <<x>>[1] = x
  BY ShortSeqs
<1>2. DOMAIN <<x>> = {1}
  BY <1>1, SeqIs
<1> QED BY <1>1, <1>2 DEF Behind

\* What waits behind a concatenation waits behind one of its parts.
LEMMA BehindBoth ==
  ASSUME NEW s, NEW t, IsSeq(s), IsSeq(t)
  PROVE  Behind(s \o t) = Behind(s) \cup Behind(t)
PROOF
<1> DEFINE u == s \o t
<1>1. /\ IsSeq(u) /\ Len(u) = Len(s) + Len(t)
      /\ \A i \in DOMAIN s : u[i] = s[i]
      /\ \A i \in DOMAIN t : u[Len(s) + i] = t[i]
      /\ \A i \in DOMAIN u : i \in DOMAIN s \/ (i - Len(s) \in DOMAIN t /\ i = Len(s) + (i - Len(s)))
  BY ConcatIs
<1>2. /\ DOMAIN u = 1..Len(u) /\ DOMAIN s = 1..Len(s) /\ DOMAIN t = 1..Len(t)
      /\ Len(s) \in Nat /\ Len(t) \in Nat
  BY <1>1, SeqIs
<1> HIDE DEF u
<1>3. \A i \in DOMAIN u : (\E k \in DOMAIN s : u[i] = s[k]) \/ \E k \in DOMAIN t : u[i] = t[k]
  <2> TAKE i \in DOMAIN u
  <2>1. CASE i \in DOMAIN s
    BY <1>1, <2>1
  <2>2. CASE i - Len(s) \in DOMAIN t /\ i = Len(s) + (i - Len(s))
    <3> DEFINE k == i - Len(s)
    <3>1. k \in DOMAIN t /\ i = Len(s) + k
      BY <2>2
    <3> HIDE DEF k
    <3> QED BY <1>1, <3>1
  <2> QED BY <1>1, <2>1, <2>2
<1>4. \A i \in DOMAIN s : i \in DOMAIN u /\ u[i] = s[i]
  BY <1>1, <1>2
<1>5. \A i \in DOMAIN t : Len(s) + i \in DOMAIN u /\ u[Len(s) + i] = t[i]
  BY <1>1, <1>2
<1>6. Behind(u) \subseteq Behind(s) \cup Behind(t)
  BY <1>3 DEF Behind
<1>7. Behind(s) \subseteq Behind(u)
  BY <1>4 DEF Behind
<1>8. Behind(t) \subseteq Behind(u)
  BY <1>5 DEF Behind
<1>9. Behind(u) = Behind(s) \cup Behind(t)
  BY <1>6, <1>7, <1>8
<1> QED BY <1>9 DEF u

\* Clean items hold nothing of the line, except for a new store.
LEMMA BehindClean ==
  ASSUME ~At("new")
  PROVE  /\ \A x : Clean(x) => ItemLine(x) = {}
         /\ \A s : CleanSeq(s) => Behind(s) = {}
PROOF
<1>1. \A x : Clean(x) => ItemLine(x) = {}
  BY BehindNothing DEF Clean, ItemLine, Minor, Attaches
<1>2. \A s : CleanSeq(s) => Behind(s) = {}
  BY <1>1 DEF CleanSeq, Behind
<1> QED BY <1>1, <1>2

\* The running item and those behind it
LEMMA BehindTop ==
  ASSUME IInv, stack # <<>>
  PROVE  /\ Behind(stack) = ItemLine(Top) \cup Behind(Rest)
         /\ \A j \in DOMAIN stack : j = 1 \/ \E i \in DOMAIN Rest : stack[j] = Rest[i]
PROOF
<1>1. /\ IsSeq(stack) /\ IsSeq(Rest) /\ Top = stack[1]
      /\ \A i \in DOMAIN Rest : Rest[i] = stack[i + 1] /\ i + 1 \in DOMAIN stack
  BY RestIs DEF IInv, StackOK, CallOK
<1>2. /\ DOMAIN stack = 1..Len(stack) /\ Len(stack) \in Nat /\ DOMAIN Rest = 1..Len(Rest) /\ Len(Rest) = Len(stack) - 1
      /\ 1 \in DOMAIN stack
  <2>1. IsSeq(stack) /\ IsSeq(Rest)
    BY <1>1
  <2>2. Len(Rest) = Len(stack) - 1
    BY <2>1, TailIs DEF Rest
  <2> QED BY <2>1, <2>2, SeqIs
<1>3. ASSUME NEW j \in DOMAIN stack, j # 1 PROVE \E i \in DOMAIN Rest : stack[j] = Rest[i]
  <2> DEFINE i == j - 1
  <2>1. i \in DOMAIN Rest /\ j = i + 1
    BY <1>2, <1>3
  <2> HIDE DEF i
  <2> QED BY <1>1, <2>1
<1>4. Behind(stack) \subseteq ItemLine(Top) \cup Behind(Rest)
  BY <1>1, <1>3 DEF Behind
<1>5. ItemLine(Top) \cup Behind(Rest) \subseteq Behind(stack)
  BY <1>1, <1>2 DEF Behind
<1> QED BY <1>3, <1>4, <1>5

\* Behind an item that flushes or launches nothing waits.
LEMMA BehindRest ==
  ASSUME IInv, stack # <<>>, ~Harmless(Top)
  PROVE  Behind(Rest) = {}
PROOF
<1>1. \A i \in DOMAIN Rest : Rest[i].ops = <<>>
  BY OnlyTop
<1>2. \A i \in DOMAIN Rest : Before(Top, Rest[i])
  BY RestIs DEF IInv, StackOK
<1>3. \A i \in DOMAIN Rest : ItemLine(Rest[i]) = {}
  BY <1>1, <1>2, BehindNothing DEF ItemLine, Before
<1> QED BY <1>3 DEF Behind

\* Nor does it in front, unless the item launches or submits something.
LEMMA BehindIdle ==
  ASSUME IInv, stack = <<>> \/ (Top.c # "submit" /\ (Top.c # "stream" \/ Top.ops = <<>>))
  PROVE  Behind(stack) = {} /\ Line = Range(window)
PROOF
<1>1. CASE stack = <<>>
  BY <1>1, BehindNothing DEF Line
<1>2. CASE stack # <<>>
  <2>1. ~Harmless(Top)
    BY <1>2 DEF Harmless
  <2>2. Behind(Rest) = {}
    BY <1>2, <2>1, BehindRest
  <2>3. 1 \in DOMAIN stack /\ Top = stack[1]
    BY <1>2, RestIs, SeqIs DEF IInv, StackOK, CallOK
  <2>4. Top.ops = <<>>
    BY <1>2, <2>1, <2>3, OnlyTop
  <2>5. ItemLine(Top) = {}
    BY <1>2, <2>4, BehindNothing DEF ItemLine
  <2> QED BY <1>2, <2>2, <2>5, BehindTop DEF Line
<1> QED BY <1>1, <1>2

\* So after a step that adds only what is clean.
LEMMA BehindFrom ==
  ASSUME StackFrom, ~At("new"), Behind(stack) = {}
  PROVE  Behind(stack') = {}
PROOF
<1>1. \A j \in DOMAIN stack : ItemLine(stack[j]) = {}
  BY DEF Behind
<1>2. \A i \in DOMAIN stack' : ItemLine(stack'[i]) = {}
  BY <1>1, BehindClean DEF StackFrom
<1> QED BY <1>2 DEF Behind

\* Everything in the line has been created, except for what is about to be submitted.
LEMMA LineIds ==
  ASSUME IInv
  PROVE  /\ ids \in Nat
         /\ \A u \in Line : IsOp(u) /\ u.id \in 1..(ids + 1)
         /\ stack = <<>> \/ Top.c # "submit" => \A u \in Line : u.id \in 1..ids
         /\ \A u \in Range(window) : IsOp(u) /\ u.id \in 1..ids
PROOF
<1>1. ids \in Nat /\ StackOK /\ QueueOK(window, ids)
  BY DEF IInv, DataOK, WindowOK
<1>2. \A u \in Range(window) : IsOp(u) /\ u.id \in 1..ids
  BY <1>1 DEF QueueOK, Waits, Range
<1>3. ASSUME NEW j \in DOMAIN stack, NEW u \in ItemLine(stack[j])
      PROVE  IsOp(u) /\ u.id \in 1..(ids + 1) /\ (Top.c # "submit" => u.id \in 1..ids)
  <2>1. IsSeq(stack) /\ ItemOK(stack[j], ids, gens) /\ InOrderOf(stack) /\ FrontOK(stack, ids)
    BY <1>1, <1>3 DEF StackOK, CallOK, ItemsOK
  <2>2. stack # <<>> /\ DOMAIN stack = 1..Len(stack) /\ Len(stack) \in Nat
    BY <2>1, SeqIs
  <2>3. CASE u \in Range(stack[j].ops)
    <3>1. stack[j].c = "stream"
      BY <2>1, <2>3, BehindNothing DEF ItemOK
    <3>2. IsOp(u) /\ u.id \in 1..ids
      BY <2>1, <2>3, <3>1 DEF ItemOK, PrefixOK, Range
    <3> QED BY <1>1, <3>2
  <2>4. CASE stack[j].c = "submit" /\ stack[j].op.id # 0 /\ u = stack[j].op
    <3>1. j = 1
      <4>1. SUFFICES ASSUME j # 1 PROVE FALSE
        OBVIOUS
      <4>2. 1 \in 1..(j - 1)
        BY <2>2, <4>1
      <4>3. Before(stack[1], stack[j])
        BY <2>1, <4>2 DEF InOrderOf
      <4> QED BY <2>4, <4>3 DEF Before
    <3>2. IsOp(u) /\ u.id = ids + 1
      BY <2>1, <2>2, <2>4, <3>1 DEF ItemOK, Waits, FrontOK
    <3>3. Top = stack[1]
      BY <2>1, <2>2, SeqIs DEF Top
    <3> QED BY <1>1, <2>4, <3>1, <3>2, <3>3
  <2> QED BY <1>3, <2>3, <2>4 DEF ItemLine
<1>4. stack = <<>> => Behind(stack) = {}
  BY BehindNothing
<1>5. \A u \in Behind(stack) : IsOp(u) /\ u.id \in 1..(ids + 1) /\ (Top.c # "submit" => u.id \in 1..ids)
  BY <1>3 DEF Behind
<1>6. \A u \in Range(window) : u.id \in 1..(ids + 1)
  BY <1>1, <1>2
<1> QED BY <1>1, <1>2, <1>4, <1>5, <1>6 DEF Line

\* A later reader finds the same when nobody comes in between.
LEMMA FindsLater ==
  ASSUME NEW L, NEW m, NEW f, NEW v, NEW n \in Nat, NEW k \in Nat, Finds(L, m, f, v, n),
         \A u \in L : u.id \in Nat, \A u \in L : u.id < k <=> u.id < n
  PROVE  Finds(L, m, f, v, k)
PROOF
<1>1. \A w \in L : w.id = v /\ v < n /\ Leaves(w, f) /\ (\A u \in L : Affects(u, f) /\ u.id < n => u.id <= v)
        => v < k /\ \E x \in L : x.id = v /\ Leaves(x, f)
  OBVIOUS
<1>2. \A u \in L : u.id \in Nat => u.id <= u.id
  OBVIOUS
<1>3. \A u \in L : Affects(u, f) /\ u.id < k => \E y \in L : Affects(y, f) /\ y.id < n /\ u.id <= y.id
  BY <1>2
<1> QED BY <1>1, <1>3, FindsStays

\* What a step has to show about the line
LEMMA LineFrom ==
  ASSUME LineOK, ids \in Nat,
         \A i \in DOMAIN stack' : \/ Clean(stack'[i])
                                  \/ /\ stack'[i].c = "submit" => stack'[i].op.id # 0
                                     /\ Ordered(stack'[i].ops, window')
                                  \/ \E j \in DOMAIN stack : stack'[i] = stack[j],
         alive' \subseteq alive \/ \A j \in DOMAIN stack : stack[j].c # "submit",
         \A i \in DOMAIN window' : \/ \E k \in DOMAIN window : window'[i] = window[k]
                                   \/ \A j \in DOMAIN stack : \A k \in DOMAIN stack[j].ops : Earlier(stack[j].ops[k], window'[i]),
         \A u \in Line' : u \in Line \/ Lean(u)
  PROVE  LineOK'
PROOF
<1>1. DOMAIN <<>> = {}
  BY ShortSeqs, SeqIs
<1>2. \A j \in DOMAIN stack : Ordered(stack[j].ops, window')
  <2>1. ASSUME NEW j \in DOMAIN stack, NEW k \in DOMAIN stack[j].ops
        PROVE  /\ \A l \in DOMAIN stack[j].ops : k < l => Earlier(stack[j].ops[k], stack[j].ops[l])
               /\ \A i \in DOMAIN window' : Earlier(stack[j].ops[k], window'[i])
    <3>1. Ordered(stack[j].ops, window)
      BY <2>1 DEF LineOK
    <3>2. /\ \A l \in DOMAIN stack[j].ops : k < l => Earlier(stack[j].ops[k], stack[j].ops[l])
          /\ \A i \in DOMAIN window : Earlier(stack[j].ops[k], window[i])
      BY <2>1, <3>1 DEF Ordered
    <3>3. ASSUME NEW i \in DOMAIN window' PROVE Earlier(stack[j].ops[k], window'[i])
      BY <2>1, <3>2, <3>3
    <3> QED BY <3>2, <3>3
  <2> QED BY <2>1 DEF Ordered
<1>3. ASSUME NEW i \in DOMAIN stack' PROVE Ordered(stack'[i].ops, window')
  <2>1. Clean(stack'[i]) => Ordered(stack'[i].ops, window')
    BY <1>1 DEF Clean, Ordered
  <2> QED BY <1>2, <1>3, <2>1
<1>4. ASSUME NEW i \in DOMAIN stack', stack'[i].c = "submit", stack'[i].op.id = 0
      PROVE  Idles(stack'[i].op, alive')
  <2>1. CASE Clean(stack'[i])
    <3>1. ids + 1 # 0
      OBVIOUS
    <3>2. Minor(stack'[i].op)
      BY <1>4, <2>1, <3>1 DEF Clean, Attaches
    <3> QED BY <3>2 DEF Minor, Idles, Lean, Touched, Strategic
  <2>2. CASE \E j \in DOMAIN stack : stack'[i] = stack[j]
    <3>1. PICK j \in DOMAIN stack : stack'[i] = stack[j]
      BY <2>2
    <3>2. Idles(stack[j].op, alive) /\ alive' \subseteq alive
      BY <1>4, <3>1 DEF LineOK
    <3> QED BY <3>1, <3>2 DEF Idles
  <2> QED BY <1>4, <2>1, <2>2
<1>5. \A u \in Line' : Lean(u)
  BY DEF LineOK
<1> QED BY <1>3, <1>4, <1>5 DEF LineOK

\* Steps that only make and remove items leave the line and the stores, or throw everything away; and
\* nothing waits outside of the window then.
LEMMA OthersData ==
  ASSUME IInv, OtherSteps
  PROVE  \/ NewStore
         \/ UNCHANGED vars
         \/ /\ mem' = mem /\ ids' = ids /\ alive' \subseteq alive
            /\ (window' = window /\ wr' = wr) \/ (window' = <<>> /\ wr' = mem)
            /\ Behind(stack) = {} /\ Line = Range(window) /\ ~At("new")
PROOF
<1>1. CASE EndFlush
  <2>1. Top.c # "submit" /\ (Top.c # "stream" \/ Top.ops = <<>>) /\ ~At("new")
    BY <1>1 DEF EndFlush, At
  <2> QED BY <1>1, <2>1, BehindIdle DEF EndFlush, progVars, dataVars
<1>2. CASE DoMatch
  <2>1. Top.c # "submit" /\ Top.c # "stream" /\ ~At("new")
    BY <1>2 DEF DoMatch, At
  <2> QED BY <1>2, <2>1, BehindIdle DEF DoMatch, progVars, dataVars
<1>3. CASE Reuse
  <2>1. Top.c # "submit" /\ Top.c # "stream" /\ ~At("new")
    BY <1>3 DEF Reuse, At
  <2> QED BY <1>3, <2>1, BehindIdle DEF Reuse, progVars, dataVars
<1>4. CASE Enter \/ EndOfScope
  <2>1. Top.c # "submit" /\ Top.c # "stream" /\ ~At("new")
    BY <1>4 DEF Enter, EndOfScope, At
  <2> QED BY <1>4, <2>1, BehindIdle DEF Enter, EndOfScope, progVars, dataVars
<1>5. CASE \E f \in Fields : Create(f) \/ Drop(f)
  <2>1. stack = <<>> /\ ~At("new")
    BY <1>5 DEF Create, Drop, Ready, Idle, At
  <2>2. /\ mem' = mem /\ ids' = ids /\ alive' \subseteq alive /\ window' = window /\ wr' = wr
    BY <1>5 DEF Create, Drop, progVars, dataVars
  <2> QED BY <2>1, <2>2, BehindIdle
<1>6. CASE \E p \in Policies : BeginScope(p)
  <2>1. stack = <<>> /\ ~At("new")
    BY <1>6 DEF BeginScope, Ready, Idle, At
  <2>2. /\ mem' = mem /\ ids' = ids /\ alive' \subseteq alive
        /\ (window' = window /\ wr' = wr) \/ (window' = <<>> /\ wr' = mem)
    BY <1>6 DEF BeginScope, Throw, ClearedOnThrow, dataVars
  <2> QED BY <2>1, <2>2, BehindIdle
<1>7. CASE EndScope \/ Catch
  <2>1. stack = <<>> /\ ~At("new")
    BY <1>7 DEF EndScope, Catch, Idle, At
  <2>2. /\ mem' = mem /\ ids' = ids /\ alive' \subseteq alive /\ window' = window /\ wr' = wr
    BY <1>7 DEF EndScope, Catch, progVars, dataVars
  <2> QED BY <2>1, <2>2, BehindIdle
<1> QED BY <1>1, <1>2, <1>3, <1>4, <1>5, <1>6, <1>7 DEF OtherSteps

\* What is found when everything has been thrown away
LEMMA NothingFound ==
  ASSUME NEW L, L = {}, NEW m, NEW al, NEW n PROVE TasksFind(L, m) /\ StoresFind(L, m, al, m, n)
  BY DEF TasksFind, StoresFind, Finds

\* Those steps keep what is found.
LEMMA OthersReads ==
  ASSUME IInv, FlowOK, LineOK, OtherSteps, ~NewStore
  PROVE  FlowOK' /\ LineOK'
PROOF
<1>1. CASE UNCHANGED vars
  <2>1. Line' = Line
    BY <1>1 DEF vars, Line
  <2>2. mem' = mem /\ alive' = alive /\ wr' = wr /\ ids' = ids /\ stack' = stack /\ window' = window
    BY <1>1 DEF vars
  <2> QED BY <2>1, <2>2 DEF FlowOK, LineOK
<1>2. CASE /\ mem' = mem /\ ids' = ids /\ alive' \subseteq alive
           /\ (window' = window /\ wr' = wr) \/ (window' = <<>> /\ wr' = mem)
           /\ Behind(stack) = {} /\ Line = Range(window) /\ ~At("new")
  <2>1. StackFrom /\ ids \in Nat
    BY OthersFrom DEF IInv, DataOK
  <2>2. Behind(stack') = {}
    BY <1>2, <2>1, BehindFrom
  <2>3. Line' = Range(window')
    BY <2>2 DEF Line
  <2>4. DOMAIN <<>> = {} /\ Range(<<>>) = {}
    BY ShortSeqs, SeqIs, BehindNothing
  <2>5. LineOK'
    <3>1. \A i \in DOMAIN window' : \E k \in DOMAIN window : window'[i] = window[k]
      BY <1>2, <2>4
    <3>2. \A u \in Line' : u \in Line
      BY <1>2, <2>3, <2>4
    <3> QED BY <1>2, <2>1, <3>1, <3>2, LineFrom DEF StackFrom
  <2>6. CASE window' = window /\ wr' = wr
    <3>1. Line' = Line
      BY <1>2, <2>3, <2>6
    <3>2. TasksFind(Line, mem) /\ StoresFind(Line, mem, alive', wr, ids + 2)
      BY <1>2 DEF FlowOK, StoresFind
    <3>3. TasksFind(Line', mem') /\ StoresFind(Line', mem', alive', wr', ids' + 2)
      BY <1>2, <2>6, <3>1, <3>2
    <3> QED BY <2>5, <3>3 DEF FlowOK
  <2>7. CASE window' = <<>> /\ wr' = mem
    <3>1. Line' = {}
      BY <2>3, <2>4, <2>7
    <3>2. TasksFind(Line', mem') /\ StoresFind(Line', mem', alive', mem', ids' + 2)
      BY <3>1, NothingFound
    <3>3. TasksFind(Line', mem') /\ StoresFind(Line', mem', alive', wr', ids' + 2)
      BY <1>2, <2>7, <3>2
    <3> QED BY <2>5, <3>3 DEF FlowOK
  <2> QED BY <1>2, <2>6, <2>7
<1> QED BY <1>1, <1>2, OthersData

\* The elements of a longer window
LEMMA RangeLonger ==
  ASSUME NEW w, IsSeq(w), NEW op
  PROVE  /\ Range(Append(w, op)) = Range(w) \cup {op}
         /\ \A i \in DOMAIN Append(w, op) : Append(w, op)[i] = op \/ \E k \in DOMAIN w : Append(w, op)[i] = w[k]
PROOF
<1> DEFINE v == Append(w, op)
<1>1. /\ \A i \in DOMAIN w : v[i] = w[i]
      /\ v[Len(w) + 1] = op
      /\ DOMAIN v = DOMAIN w \cup {Len(w) + 1}
  BY AppendIs
<1> HIDE DEF v
<1>2. Range(v) = Range(w) \cup {op}
  BY <1>1 DEF Range
<1>3. \A i \in DOMAIN v : v[i] = op \/ \E k \in DOMAIN w : v[i] = w[k]
  BY <1>1
<1> QED BY <1>2, <1>3 DEF v

\* The operation that is submitted: one that waited for it, or one that gets its id now
LEMMA SubmitGives ==
  ASSUME IInv, DoSubmit
  PROVE  /\ stack # <<>> /\ Top.c = "submit" /\ Top = stack[1] /\ 1 \in DOMAIN stack /\ ids \in Nat /\ ids' = ids + 1
         /\ \E op : /\ op.id = ids + 1 /\ (IF Top.op.id # 0 THEN op = Top.op ELSE Alike(op, Top.op) /\ op.drop = Top.op.drop)
                    /\ op.field = Top.op.field
                    /\ Range(window') = Range(window) \cup {op}
                    /\ \A i \in DOMAIN window' : window'[i] = op \/ \E k \in DOMAIN window : window'[i] = window[k]
         /\ Behind(stack') = Behind(Rest) /\ ItemLine(Top) = IF Top.op.id # 0 THEN {Top.op} ELSE {}
         /\ mem' = mem /\ alive' = alive /\ wr' = wr /\ log' = log
PROOF
<1> DEFINE o == Top.op
           i == ids + 1
           op == IF o.id # 0 THEN o ELSE [o EXCEPT !.id = i]
           new == IF op.flush \/ TooBig(window') THEN <<Flush("op")>> ELSE <<>>
<1>1. /\ stack # <<>> /\ Top.c = "submit" /\ window' = Append(window, op) /\ ids' = Max({ids, op.id})
      /\ stack' = new \o Rest
      /\ mem' = mem /\ alive' = alive /\ wr' = wr /\ log' = log /\ ~At("new")
  BY DEF DoSubmit, At, Queued, dataVars, progVars
<1>2. Top = stack[1] /\ 1 \in DOMAIN stack /\ ItemOK(Top, ids, gens) /\ FrontOK(stack, ids) /\ IsSeq(Rest)
  BY <1>1, RestIs, SeqIs DEF IInv, StackOK, CallOK
<1>3. Waits(o) /\ o.id \in {0, ids + 1} /\ Top.ops = <<>>
  BY <1>1, <1>2 DEF ItemOK, FrontOK
<1>4. ids \in Nat /\ IsSeq(window)
  BY DEF IInv, DataOK, WindowOK, QueueOK
<1>5. op.id = i /\ (IF o.id # 0 THEN op = o ELSE Alike(op, o) /\ op.drop = o.drop) /\ op.field = o.field
  <2>1. o.gen = 0 /\ DOMAIN o = OpFields /\ o.id \in {0, i}
    BY <1>3 DEF Waits, IsOp
  <2> HIDE DEF o, i
  <2> QED BY <2>1 DEF Alike, OpFields, Plain
<1> HIDE DEF op
<1>6. ids' = ids + 1
  <2>1. op.id \in Nat /\ op.id = ids + 1
    BY <1>4, <1>5
  <2> DEFINE k == op.id
  <2>2. k \in Nat /\ k = ids + 1 /\ ids' = Max({ids, k})
    BY <1>1, <2>1
  <2> HIDE DEF k
  <2>3. Max({ids, k}) = IF ids >= k THEN ids ELSE k
    BY <1>4, <2>2, MaxIs
  <2> QED BY <1>4, <2>2, <2>3
<1>7. /\ Range(window') = Range(window) \cup {op}
      /\ \A j \in DOMAIN window' : window'[j] = op \/ \E k \in DOMAIN window : window'[j] = window[k]
  BY <1>1, <1>4, RangeLonger
<1>8. CleanSeq(new)
  BY CleanShort, CleanItems
<1> HIDE DEF new
<1>9. Behind(stack') = Behind(Rest)
  <2>1. Behind(new) = {} /\ IsSeq(new)
    BY <1>1, <1>8, BehindClean DEF CleanSeq
  <2>2. Behind(new \o Rest) = Behind(new) \cup Behind(Rest)
    BY <1>2, <2>1, BehindBoth
  <2> QED BY <1>1, <2>1, <2>2
<1>10. ItemLine(Top) = IF o.id # 0 THEN {o} ELSE {}
  BY <1>1, <1>3, BehindNothing DEF ItemLine
<1> QED BY <1>1, <1>2, <1>4, <1>5, <1>6, <1>7, <1>9, <1>10 DEF o, i

\* A submission keeps what is found: the operation waited for it, or it changes nothing.
LEMMA SubmitReads ==
  ASSUME IInv, FlowOK, LineOK, DoSubmit
  PROVE  FlowOK' /\ LineOK'
PROOF
<1>1. /\ stack # <<>> /\ Top.c = "submit" /\ Top = stack[1] /\ 1 \in DOMAIN stack /\ ids \in Nat /\ ids' = ids + 1
      /\ Behind(stack') = Behind(Rest) /\ ItemLine(Top) = IF Top.op.id # 0 THEN {Top.op} ELSE {}
      /\ mem' = mem /\ alive' = alive /\ wr' = wr
  BY SubmitGives
<1>2. PICK op : /\ op.id = ids + 1 /\ (IF Top.op.id # 0 THEN op = Top.op ELSE Alike(op, Top.op) /\ op.drop = Top.op.drop)
                /\ op.field = Top.op.field
                /\ Range(window') = Range(window) \cup {op}
                /\ \A i \in DOMAIN window' : window'[i] = op \/ \E k \in DOMAIN window : window'[i] = window[k]
  BY SubmitGives
<1>3. Behind(stack) = ItemLine(Top) \cup Behind(Rest)
  BY <1>1, BehindTop
<1>4. /\ Line' = Line \cup {op}
      /\ Top.op.id # 0 => op \in Line
  BY <1>1, <1>2, <1>3 DEF Line
<1>5. \A u \in Line : u.id \in 1..(ids + 1)
  BY LineIds
<1>6. Top.op.id = 0 => Idles(Top.op, alive)
  BY <1>1 DEF LineOK
<1>7. Lean(op)
  BY <1>2, <1>4, <1>6 DEF LineOK, Idles, Lean, Alike, Strategic
<1>8. Top.op.id = 0 => ~IsTask(op) /\ \A f \in alive : ~Affects(op, f)
  <2>1. SUFFICES ASSUME Top.op.id = 0 PROVE ~IsTask(op) /\ \A f \in alive : ~Affects(op, f)
    OBVIOUS
  <2>2. Idles(Top.op, alive) /\ Alike(op, Top.op) /\ op.drop = Top.op.drop /\ op.field = Top.op.field
    BY <1>2, <1>6, <2>1
  <2>3. ~IsTask(op)
    BY <2>2 DEF Idles, Alike, IsTask, Strategic
  <2>4. \A f \in alive : ~Affects(op, f)
    BY <2>2 DEF Idles, Affects, Alike, Touched
  <2> QED BY <2>3, <2>4
<1>9. TasksFind(Line', mem')
  <2>1. ASSUME NEW r \in Line', IsTask(r), NEW f \in r.in \cup r.red PROVE Finds(Line', mem, f, r.src[f], r.id)
    <3>1. r \in Line
      BY <1>4, <1>8, <2>1
    <3>2. Finds(Line, mem, f, r.src[f], r.id)
      BY <2>1, <3>1 DEF FlowOK, TasksFind
    <3>3. CASE Top.op.id # 0
      <4>1. Line' = Line
        BY <1>4, <3>3
      <4> QED BY <3>2, <4>1
    <3>4. CASE Top.op.id = 0
      <4>1. r.id \in Nat /\ op.id \in Nat /\ op.id >= r.id /\ \A u \in Line : u.id \in Nat
        BY <1>1, <1>2, <1>5, <3>1
      <4>2. Finds(Line \cup {op}, mem, f, r.src[f], r.id)
        BY <3>2, <4>1, FindsMore
      <4> QED BY <1>4, <4>2
    <3> QED BY <3>3, <3>4
  <2> QED BY <1>1, <2>1 DEF TasksFind
<1>10. StoresFind(Line', mem', alive', wr', ids' + 2)
  <2>1. ASSUME NEW f \in alive, wr[f] # 0 PROVE Finds(Line', mem, f, wr[f], ids + 3)
    <3>1. Finds(Line, mem, f, wr[f], ids + 2)
      BY <2>1 DEF FlowOK, StoresFind
    <3>2. /\ ids + 2 \in Nat /\ ids + 3 \in Nat /\ op.id \in Nat
          /\ \A u \in Line : u.id \in Nat /\ (u.id < ids + 3 <=> u.id < ids + 2)
      BY <1>1, <1>2, <1>5
    <3>3. CASE Top.op.id # 0
      <4>1. Line' = Line
        BY <1>4, <3>3
      <4>2. Finds(Line, mem, f, wr[f], ids + 3)
        BY <3>1, <3>2, FindsLater
      <4> QED BY <4>1, <4>2
    <3>4. CASE Top.op.id = 0
      <4>1. ~Affects(op, f)
        BY <1>8, <2>1, <3>4
      <4>2. Finds(Line \cup {op}, mem, f, wr[f], ids + 3)
        BY <3>1, <3>2, <4>1, FindsMore
      <4> QED BY <1>4, <4>2
    <3> QED BY <3>3, <3>4
  <2>2. ids' + 2 = ids + 3
    BY <1>1
  <2> QED BY <1>1, <2>1, <2>2 DEF StoresFind
<1>11. LineOK'
  <2>1. \A j \in DOMAIN stack : \A k \in DOMAIN stack[j].ops : Earlier(stack[j].ops[k], op)
    <3>1. ASSUME NEW j \in DOMAIN stack, NEW k \in DOMAIN stack[j].ops PROVE stack[j].ops[k].id \in 1..ids
      <4>1. ItemOK(stack[j], ids, gens)
        BY <3>1 DEF IInv, StackOK, CallOK, ItemsOK
      <4>2. DOMAIN <<>> = {}
        BY ShortSeqs, SeqIs
      <4> QED BY <3>1, <4>1, <4>2 DEF ItemOK, PrefixOK
    <3>2. op.id = ids + 1
      BY <1>2
    <3> QED BY <1>1, <3>1, <3>2 DEF Earlier
  <2>2. \A i \in DOMAIN window' :
          \/ \E k \in DOMAIN window : window'[i] = window[k]
          \/ \A j \in DOMAIN stack : \A k \in DOMAIN stack[j].ops : Earlier(stack[j].ops[k], window'[i])
    BY <1>2, <2>1
  <2>3. \A u \in Line' : u \in Line \/ Lean(u)
    BY <1>4, <1>7
  <2>4. StackFrom
    BY SubmitFrom
  <2> QED BY <1>1, <2>2, <2>3, <2>4, LineFrom DEF StackFrom
<1> QED BY <1>9, <1>10, <1>11 DEF FlowOK

\* An operation is created: it finds what was written last, and leaves what is found then.
LEMMA CreatedReads ==
  ASSUME IInv, FlowOK, Line = Range(window), NEW op, op.id = ids + 1, Line' = Line \cup {op}, mem' = mem, ids' = ids,
         IsTask(op) => \A f \in op.in \cup op.red : op.src[f] = wr[f] /\ f \in alive /\ wr[f] # 0,
         \A f \in alive' : wr'[f] # 0 => \/ Leaves(op, f) /\ wr'[f] = ids + 1
                                         \/ ~Affects(op, f) /\ f \in alive /\ wr'[f] = wr[f]
  PROVE  FlowOK'
PROOF
<1>1. ids \in Nat /\ \A u \in Line : u.id \in 1..ids
  BY LineIds
<1>2. ids + 1 \in Nat /\ ids + 2 \in Nat /\ op.id \in Nat /\ ids + 1 < ids + 2 /\ op.id >= ids + 1
      /\ \A u \in Line : u.id \in Nat /\ u.id < ids + 1 /\ u.id < ids + 2 /\ op.id >= u.id /\ u.id <= ids + 1
  BY <1>1
<1>3. ASSUME NEW r \in Line, IsTask(r), NEW f \in r.in \cup r.red PROVE Finds(Line \cup {op}, mem, f, r.src[f], r.id)
  <2>1. Finds(Line, mem, f, r.src[f], r.id)
    BY <1>3 DEF FlowOK, TasksFind
  <2>2. r.id \in Nat /\ op.id >= r.id
    BY <1>2, <1>3
  <2> QED BY <1>2, <2>1, <2>2, FindsMore
<1>4. ASSUME IsTask(op), NEW f \in op.in \cup op.red PROVE Finds(Line \cup {op}, mem, f, op.src[f], op.id)
  <2>1. Finds(Line, mem, f, wr[f], ids + 2) /\ op.src[f] = wr[f]
    BY <1>4 DEF FlowOK, StoresFind
  <2>2. Finds(Line \cup {op}, mem, f, wr[f], ids + 1)
    BY <1>2, <2>1, FindsMore
  <2> QED BY <2>1, <2>2
<1>5. TasksFind(Line', mem')
  <2>1. \A r \in Line \cup {op} : IsTask(r) => \A f \in r.in \cup r.red : Finds(Line \cup {op}, mem, f, r.src[f], r.id)
    BY <1>3, <1>4
  <2>2. TasksFind(Line \cup {op}, mem)
    BY <2>1 DEF TasksFind
  <2> QED BY <2>2
<1>6. ASSUME NEW f \in alive', wr'[f] # 0 PROVE Finds(Line \cup {op}, mem, f, wr'[f], ids + 2)
  <2>1. CASE Leaves(op, f) /\ wr'[f] = ids + 1
    <3>1. \A u \in Line \cup {op} : u.id <= ids + 1
      BY <1>2
    <3> QED BY <1>2, <2>1, <3>1 DEF Finds
  <2>2. CASE ~Affects(op, f) /\ f \in alive /\ wr'[f] = wr[f]
    <3>1. Finds(Line, mem, f, wr[f], ids + 2)
      BY <1>6, <2>2 DEF FlowOK, StoresFind
    <3>2. Finds(Line \cup {op}, mem, f, wr[f], ids + 2)
      BY <1>2, <2>2, <3>1, FindsMore
    <3> QED BY <2>2, <3>2
  <2> QED BY <1>6, <2>1, <2>2
<1>7. StoresFind(Line', mem', alive', wr', ids' + 2)
  <2>1. \A f \in alive' : wr'[f] # 0 => Finds(Line', mem', f, wr'[f], ids' + 2)
    BY <1>6
  <2> QED BY <2>1 DEF StoresFind
<1> QED BY <1>5, <1>7 DEF FlowOK

\* The program calls a task.
LEMMA CallReads ==
  ASSUME IInv, FlowOK, LineOK, NEW t \in Tasks, Call(t)
  PROVE  FlowOK' /\ LineOK'
PROOF
<1> DEFINE life0 == [f \in Touched(t) |-> life[f]]
           src == [f \in t.in \cup t.red |-> wr[f]]
           fl == t.flush \/ Touched(t) \cap Attached # {}
           i == ids + 1
           od == Policy.od
           op == [t EXCEPT !.id = i, !.od = od, !.life = life0, !.src = src, !.flush = fl]
           x == Submit(op)
<1>1. /\ stack = <<>> /\ stack' = <<x>> /\ window' = window /\ mem' = mem /\ ids' = ids /\ alive' = alive
      /\ Touched(t) \subseteq alive /\ \A f \in t.in \cup t.red : wr[f] # 0
  BY DEF Call, Ready, Idle, Called, dataVars
<1>2. wr' = [f \in Fields |-> IF f \in t.out \cup t.red THEN ids + 1 ELSE wr[f]]
  BY DEF Call
<1>3. DOMAIN t = OpFields /\ t.drop = {} /\ t.kind \in {"auto", "manual", "copy", "fill"} /\ Touched(t) \subseteq Fields
  <2>1. t = Given(t) /\ t.kind \in {"auto", "manual", "copy", "fill"} /\ Touched(t) \subseteq Fields
    BY TasksAssumption
  <2> DEFINE g == Given(t)
  <2>2. g.drop = {}
    BY DEF Given, Plain
  <2>3. t = g
    BY <2>1
  <2> HIDE DEF g
  <2> QED BY <2>1, <2>2, <2>3, TaskIs
<1>4. ids \in Nat /\ alive \subseteq Fields
  BY DEF IInv, DataOK
<1>5. /\ op.kind = t.kind /\ op.in = t.in /\ op.out = t.out /\ op.red = t.red /\ op.drop = t.drop
      /\ op.id = i /\ op.src = src
  <2>1. DOMAIN t = OpFields
    BY <1>3
  <2> HIDE DEF life0, src, fl, i, od
  <2>2. op.kind = t.kind /\ op.in = t.in /\ op.out = t.out /\ op.red = t.red /\ op.drop = t.drop
    BY <2>1 DEF OpFields, Plain
  <2>3. op.id = i
    BY <2>1 DEF OpFields, Plain
  <2>4. op.src = src
    BY <2>1 DEF OpFields, Plain
  <2> QED BY <2>2, <2>3, <2>4
<1>6. \A f \in t.in \cup t.red : op.src[f] = wr[f]
  BY <1>5
<1> HIDE DEF op, src
<1>7. x.c = "submit" /\ x.ops = <<>> /\ x.op = op
  BY SubmitIs
<1> HIDE DEF x
<1>8. op.id = ids + 1 /\ op.id # 0 /\ Line = Range(window) /\ Line' = Line \cup {op}
  <2>1. op.id = ids + 1 /\ op.id # 0
    BY <1>4, <1>5
  <2>2. Behind(stack) = {} /\ Line = Range(window)
    BY <1>1, BehindIdle
  <2>3. Behind(stack') = {op}
    <3>1. Behind(<<x>>) = ItemLine(x)
      BY BehindOne
    <3>2. ItemLine(x) = {op}
      BY <1>7, <2>1, BehindNothing DEF ItemLine
    <3> QED BY <1>1, <3>1, <3>2
  <2>4. Line' = Range(window') \cup Behind(stack')
    BY DEF Line
  <2> QED BY <1>1, <2>1, <2>2, <2>3, <2>4
<1>9. FlowOK'
  <2>1. IsTask(op) => \A f \in op.in \cup op.red : op.src[f] = wr[f] /\ f \in alive /\ wr[f] # 0
    BY <1>1, <1>5, <1>6 DEF Touched
  <2>2. ASSUME NEW f \in alive', wr'[f] # 0
        PROVE  \/ Leaves(op, f) /\ wr'[f] = ids + 1
               \/ ~Affects(op, f) /\ f \in alive /\ wr'[f] = wr[f]
    <3>1. f \in alive /\ f \in Fields
      BY <1>1, <1>4, <2>2
    <3>2. CASE f \in t.out \cup t.red
      <4>1. Leaves(op, f)
        BY <1>3, <1>5, <3>2 DEF Leaves
      <4>2. wr'[f] = ids + 1
        BY <1>2, <3>1, <3>2
      <4> QED BY <4>1, <4>2
    <3>3. CASE f \notin t.out \cup t.red
      <4>1. ~Affects(op, f)
        BY <1>3, <1>5, <3>3 DEF Affects
      <4>2. wr'[f] = wr[f]
        BY <1>2, <3>1, <3>3
      <4> QED BY <3>1, <4>1, <4>2
    <3> QED BY <3>2, <3>3
  <2> QED BY <1>1, <1>8, <2>1, <2>2, CreatedReads
<1>10. LineOK'
  <2>1. ASSUME NEW j \in DOMAIN stack'
        PROVE  (stack'[j].c = "submit" => stack'[j].op.id # 0) /\ Ordered(stack'[j].ops, window')
    <3>1. IsSeq(<<x>>) /\ Len(<<x>>) = 1 /\ <<x>>[1] = x /\ DOMAIN <<>> = {}
      BY ShortSeqs, SeqIs
    <3>2. j = 1 /\ stack'[j] = x
      BY <1>1, <2>1, <3>1, SeqIs
    <3>3. Ordered(<<>>, window')
      BY <3>1 DEF Ordered
    <3> QED BY <1>7, <1>8, <3>2, <3>3
  <2>2. \A j \in DOMAIN window' : \E k \in DOMAIN window : window'[j] = window[k]
    BY <1>1
  <2>3. Lean(op)
    BY <1>3, <1>5 DEF Lean, Strategic
  <2>4. \A u \in Line' : u \in Line \/ Lean(u)
    BY <1>8, <2>3
  <2> QED BY <1>1, <1>4, <2>1, <2>2, <2>4, LineFrom
<1> QED BY <1>9, <1>10

\* A new store: nothing waits behind it, and if it is attached, the attach is its first writer.
LEMMA NewStoreReads ==
  ASSUME IInv, FlowOK, LineOK, NewStore
  PROVE  FlowOK' /\ LineOK'
PROOF
<1> DEFINE f == Top.field
           op == [Plain("attach") EXCEPT !.out = {f}, !.id = ids + 1, !.life = (f :> life[f] + 1)]
           x == Submit(op)
           new == IF f \in Attached THEN <<x>> ELSE <<>>
<1>1. stack # <<>> /\ Top.c = "new"
  BY DEF NewStore, At
<1>2. /\ alive' = alive \cup {f} /\ wr' = [wr EXCEPT ![f] = IF f \in Attached THEN ids + 1 ELSE 0]
      /\ stack' = new \o Rest /\ window' = window /\ mem' = mem /\ ids' = ids
  BY DEF NewStore
<1>3. ids \in Nat /\ wr \in [Fields -> 0..(ids + 1)] /\ alive \subseteq Fields
  BY DEF IInv, DataOK
<1>4. f \in Fields
  BY <1>1, RestIs DEF IInv, StackOK, ItemOK
<1>5. op.kind = "attach" /\ op.out = {f} /\ op.in = {} /\ op.red = {} /\ op.drop = {} /\ op.id = ids + 1
  BY DEF Plain
<1> HIDE DEF op
<1>6. x.c = "submit" /\ x.ops = <<>> /\ x.op = op
  BY SubmitIs
<1> HIDE DEF x
<1>7. IsSeq(stack) /\ Top = stack[1] /\ Rest = <<>> /\ DOMAIN stack = {1}
  <2>1. /\ IsSeq(stack) /\ Top = stack[1] /\ IsSeq(Rest)
        /\ \A i \in DOMAIN Rest : Before(Top, Rest[i])
    BY <1>1, RestIs DEF IInv, StackOK, CallOK
  <2>2. \A i \in DOMAIN Rest : FALSE
    BY <1>1, <2>1 DEF Before
  <2>3. Rest = <<>>
    BY <2>1, <2>2, SeqIs
  <2>4. Len(Rest) = Len(stack) - 1
    BY <1>1, <2>1, TailIs DEF Rest
  <2>5. Len(Rest) = 0
    BY <2>3, ShortSeqs
  <2>6. Len(stack) = 1
    <3>1. Len(stack) \in Nat
      BY <2>1, SeqIs
    <3> QED BY <2>4, <2>5, <3>1
  <2> QED BY <2>1, <2>3, <2>6, SeqIs
<1>8. Behind(stack) = {} /\ Line = Range(window)
  BY <1>1, BehindIdle
<1>9. stack' = new
  <2>1. IsSeq(new)
    BY ShortSeqs
  <2> HIDE DEF new
  <2>2. new \o <<>> = new
    BY <2>1, SeqIs DEF IsSeq
  <2> QED BY <1>2, <1>7, <2>2
<1>10. \A j \in DOMAIN stack' : /\ stack'[j].c = "submit" => stack'[j].op.id # 0
                                /\ Ordered(stack'[j].ops, window')
  <2>1. /\ IsSeq(<<x>>) /\ Len(<<x>>) = 1 /\ <<x>>[1] = x /\ DOMAIN <<>> = {}
    BY ShortSeqs, SeqIs
  <2>2. DOMAIN <<x>> = {1}
    BY <2>1, SeqIs
  <2>3. Ordered(<<>>, window')
    BY <2>1 DEF Ordered
  <2>4. op.id # 0
    BY <1>3, <1>5
  <2>5. CASE f \in Attached
    <3>1. stack' = <<x>>
      BY <1>9, <2>5
    <3>2. \A j \in DOMAIN stack' : stack'[j] = x
      BY <2>1, <2>2, <3>1
    <3> QED BY <1>6, <2>3, <2>4, <3>2
  <2>6. CASE f \notin Attached
    <3>1. stack' = <<>>
      BY <1>9, <2>6
    <3> QED BY <2>1, <3>1
  <2> QED BY <2>5, <2>6
<1>11. Behind(stack') = IF f \in Attached THEN {op} ELSE {}
  <2>1. Behind(<<x>>) = ItemLine(x)
    BY BehindOne
  <2>2. ItemLine(x) = {op}
    BY <1>3, <1>5, <1>6, BehindNothing DEF ItemLine
  <2> QED BY <1>9, <2>1, <2>2, BehindNothing
<1>12. Line' = Line \cup (IF f \in Attached THEN {op} ELSE {})
  <2>1. Line' = Range(window') \cup Behind(stack')
    BY DEF Line
  <2> QED BY <1>2, <1>8, <1>11, <2>1
<1>13. LineOK'
  <2>1. \A j \in DOMAIN stack : stack[j].c # "submit"
    BY <1>1, <1>7
  <2>2. \A j \in DOMAIN window' : \E k \in DOMAIN window : window'[j] = window[k]
    BY <1>2
  <2>3. Lean(op)
    BY <1>5 DEF Lean
  <2>4. \A u \in Line' : u \in Line \/ Lean(u)
    BY <1>12, <2>3
  <2> QED BY <1>3, <1>10, <2>1, <2>2, <2>4, LineFrom
<1>14. \A g \in Fields : g # f => wr'[g] = wr[g]
  BY <1>2
<1>15. wr'[f] = IF f \in Attached THEN ids + 1 ELSE 0
  BY <1>2, <1>3, <1>4
<1> HIDE DEF new, f
<1>16. FlowOK'
  <2>1. CASE f \in Attached
    <3>1. ~IsTask(op)
      BY <1>5 DEF IsTask
    <3>2. ASSUME NEW g \in alive', wr'[g] # 0
          PROVE  \/ Leaves(op, g) /\ wr'[g] = ids + 1
                 \/ ~Affects(op, g) /\ g \in alive /\ wr'[g] = wr[g]
      <4>1. CASE g = f
        BY <1>5, <1>15, <2>1, <4>1 DEF Leaves
      <4>2. CASE g # f
        BY <1>2, <1>3, <1>5, <1>14, <3>2, <4>2 DEF Affects
      <4> QED BY <4>1, <4>2
    <3>3. Line' = Line \cup {op} /\ op.id = ids + 1
      BY <1>5, <1>12, <2>1
    <3> QED BY <1>2, <1>8, <3>1, <3>2, <3>3, CreatedReads
  <2>2. CASE f \notin Attached
    <3>1. Line' = Line
      BY <1>12, <2>2
    <3>2. TasksFind(Line, mem)
      BY DEF FlowOK
    <3>3. ASSUME NEW g \in alive', wr'[g] # 0 PROVE Finds(Line, mem, g, wr'[g], ids + 2)
      <4>1. g # f
        BY <1>15, <2>2, <3>3
      <4>2. g \in alive /\ wr'[g] = wr[g]
        BY <1>2, <1>3, <1>14, <3>3, <4>1
      <4> QED BY <3>3, <4>2 DEF FlowOK, StoresFind
    <3>4. TasksFind(Line', mem')
      BY <1>2, <3>1, <3>2
    <3>5. \A g \in alive' : wr'[g] # 0 => Finds(Line', mem', g, wr'[g], ids' + 2)
      BY <1>2, <3>1, <3>3
    <3> QED BY <3>4, <3>5 DEF FlowOK, StoresFind
  <2> QED BY <2>1, <2>2
<1> QED BY <1>13, <1>16

\* What is left of the line when the destruction of an operation frees fields
LEMMA BehindLaunch ==
  ASSUME IInv, stack # <<>>, Top.c # "submit", ~At("new"), NEW s, CleanSeq(s), NEW x, stack' = s \o (<<x>> \o Rest)
  PROVE  Behind(stack') = ItemLine(x) /\ Behind(Rest) = {}
PROOF
<1>1. IsSeq(s) /\ Behind(s) = {}
  BY BehindClean DEF CleanSeq
<1>2. Behind(Rest) = {} /\ IsSeq(Rest)
  BY BehindRest, RestIs DEF Harmless, IInv, StackOK
<1>3. IsSeq(<<x>>) /\ Behind(<<x>>) = ItemLine(x)
  BY ShortSeqs, BehindOne
<1> DEFINE r == <<x>> \o Rest
<1>4. Behind(r) = Behind(<<x>>) \cup Behind(Rest)
  BY <1>2, <1>3, BehindBoth
<1>5. IsSeq(r) /\ stack' = s \o r
  BY <1>2, OneInFront
<1> HIDE DEF r
<1>6. Behind(s \o r) = Behind(s) \cup Behind(r)
  BY <1>1, <1>5, BehindBoth
<1> QED BY <1>1, <1>2, <1>3, <1>4, <1>5, <1>6

\* The first operation of the line is launched: the others find what they should.
LEMMA LaunchReads ==
  ASSUME IInv, FlowOK, LineOK, NEW K, NEW op, Line = K \cup {op}, Line' = K, \A u \in K : Earlier(op, u),
         op.id \in 1..ids, NEW items, Launch(op, items), ids' = ids, alive' = alive, wr' = wr
  PROVE  FlowOK'
PROOF
<1>1. ids \in Nat /\ \A u \in Line : IsOp(u) /\ u.id \in 1..(ids + 1)
  BY LineIds
<1>2. \A u \in Line : Lean(u)
  BY DEF LineOK
<1>3. \A u \in Line : \A f : u.kind = "fence" => ~Affects(u, f)
  BY <1>2 DEF Lean, Affects
<1>4. \A u \in K : u.id \in Nat
  BY <1>1
<1>5. op.id \in Nat /\ op.id < ids + 2 /\ ids + 2 \in Nat
  BY <1>1
<1>6. \A f \in Fields : /\ Leaves(op, f) => mem'[f] = op.id
                        /\ ~Affects(op, f) => mem'[f] = mem[f]
  <2>1. mem' = [f \in Fields |->
                  IF f \in op.drop \/ (op.kind = "discard" /\ f = op.field) THEN 0
                  ELSE IF f \in op.out \cup op.red THEN op.id ELSE mem[f]]
    BY DEF Launch
  <2> QED BY <2>1 DEF Leaves, Affects
<1>7. ASSUME NEW r \in K, IsTask(r), NEW f \in r.in \cup r.red PROVE Finds(K, mem', f, r.src[f], r.id)
  <2>1. Finds(K \cup {op}, mem, f, r.src[f], r.id)
    BY <1>7 DEF FlowOK, TasksFind
  <2>2. f \in Fields
    BY <1>1, <1>7 DEF IsOp, Touched
  <2>3. Affects(op, f) => op.id < r.id
    BY <1>3, <1>7 DEF Earlier, IsTask
  <2>4. r.id \in Nat
    BY <1>4, <1>7
  <2>5. \A u \in K : u.id \in Nat /\ Earlier(op, u) /\ (u.kind = "fence" => ~Affects(u, f))
    BY <1>3, <1>4
  <2>6. op.kind = "fence" => ~Affects(op, f)
    BY <1>3
  <2>7. (Leaves(op, f) => mem'[f] = op.id) /\ (~Affects(op, f) => mem'[f] = mem[f])
    BY <1>6, <2>2
  <2> DEFINE q == mem'
             n == r.id
             v == r.src[f]
  <2> HIDE DEF q, n, v
  <2>8. Finds(K, q, f, v, n)
    BY <1>5, <2>1, <2>3, <2>4, <2>5, <2>6, <2>7, FindsLaunched DEF q, n, v
  <2> QED BY <2>8 DEF q, n, v
<1>8. ASSUME NEW f \in alive, wr[f] # 0 PROVE Finds(K, mem', f, wr[f], ids + 2)
  <2>1. Finds(K \cup {op}, mem, f, wr[f], ids + 2)
    BY <1>8 DEF FlowOK, StoresFind
  <2>2. f \in Fields
    BY <1>8 DEF IInv, DataOK
  <2>5. \A u \in K : u.id \in Nat /\ Earlier(op, u) /\ (u.kind = "fence" => ~Affects(u, f))
    BY <1>3, <1>4
  <2>6. op.kind = "fence" => ~Affects(op, f)
    BY <1>3
  <2>7. (Leaves(op, f) => mem'[f] = op.id) /\ (~Affects(op, f) => mem'[f] = mem[f])
    BY <1>6, <2>2
  <2> DEFINE q == mem'
             n == ids + 2
             v == wr[f]
  <2> HIDE DEF q, n, v
  <2>8. Finds(K, q, f, v, n)
    BY <1>5, <2>1, <2>5, <2>6, <2>7, FindsLaunched DEF q, n, v
  <2> QED BY <2>8 DEF q, n, v
<1>9. TasksFind(K, mem')
  BY <1>7 DEF TasksFind
<1>10. StoresFind(K, mem', alive, wr, ids + 2)
  BY <1>8 DEF StoresFind
<1>11. TasksFind(Line', mem') /\ StoresFind(Line', mem', alive', wr', ids' + 2)
  BY <1>9, <1>10
<1> QED BY <1>11 DEF FlowOK

\* It reads what it should itself, unless it is a copy.
LEMMA LaunchFresh ==
  ASSUME IInv, FlowOK, LineOK, FreshOK, NEW K, NEW op, Line = K \cup {op}, \A u \in K : Earlier(op, u), Stems(op),
         NEW items, Launch(op, items)
  PROVE  FreshOK'
PROOF
<1> DEFINE s == Strategy(op, key)
           e == Entry(op, s)
<1>1. log' = Append(log, e) /\ IsSeq(log)
  BY DEF Launch, IInv, LogOK
<1>2. e.fresh <=> \A f \in op.in \cup op.red : mem[f] = op.src[f]
  BY DEF Entry
<1>3. e.form = Form(op, s)
  BY EntryIs
<1> HIDE DEF e, s
<1>4. e.fresh \/ \E t \in Tasks : t.kind = e.form /\ ~IsTask(t) /\ t.in \cup t.red # {}
  <2>1. CASE IsTask(op)
    <3>1. ids \in Nat /\ \A u \in Line : u.id \in 1..(ids + 1)
      BY LineIds
    <3>2. \A u \in K \cup {op} : u.id \in Nat
      BY <3>1
    <3>3. \A u \in K : \A f : u.kind = "fence" => ~Affects(u, f)
      BY DEF LineOK, Lean, Affects
    <3>4. op.kind # "fence"
      BY <2>1 DEF IsTask
    <3>5. ASSUME NEW f \in op.in \cup op.red PROVE mem[f] = op.src[f]
      <4>1. Finds(K \cup {op}, mem, f, op.src[f], op.id)
        BY <2>1, <3>5 DEF FlowOK, TasksFind
      <4>2. \A u \in K : u.id \in Nat /\ Earlier(op, u) /\ (u.kind = "fence" => ~Affects(u, f))
        BY <3>2, <3>3
      <4> QED BY <3>2, <3>4, <4>1, <4>2, FirstReads
    <3> QED BY <1>2, <3>5
  <2>2. CASE ~IsTask(op) /\ Strategic(op)
    <3>1. PICK t \in Tasks : op.kind = t.kind /\ op.in = t.in /\ op.red = t.red
      BY <2>2 DEF Stems
    <3>2. e.form = op.kind
      BY <1>3, <2>2 DEF Form
    <3>3. ~IsTask(t)
      BY <2>2, <3>1 DEF IsTask
    <3> QED BY <1>2, <3>1, <3>2, <3>3
  <2>3. CASE ~Strategic(op)
    <3>1. op.in = {} /\ op.red = {}
      BY <2>3 DEF LineOK, Lean
    <3> QED BY <1>2, <3>1
  <2> QED BY <2>1, <2>2, <2>3
<1>5. /\ \A i \in DOMAIN log : Append(log, e)[i] = log[i]
      /\ Append(log, e)[Len(log) + 1] = e
      /\ DOMAIN Append(log, e) = DOMAIN log \cup {Len(log) + 1}
  BY <1>1, AppendIs
<1>6. \A i \in DOMAIN log' : log'[i] = e \/ (i \in DOMAIN log /\ log'[i] = log[i])
  BY <1>1, <1>5
<1> QED BY <1>4, <1>6 DEF FreshOK

\* An operation of the window is launched.
LEMMA RunReads ==
  ASSUME IInv, AgreeOK, FlowOK, LineOK, FreshOK, Run
  PROVE  FlowOK' /\ LineOK' /\ FreshOK'
PROOF
<1> DEFINE op == window[1]
           K == Range(window')
<1>1. /\ stack # <<>> /\ window' = Tail(window) /\ window[1] = Head(window) /\ 1 \in DOMAIN window /\ Top.c = "run"
      /\ \A i \in DOMAIN window' : window'[i] = window[i + 1] /\ i + 1 \in DOMAIN window
  BY RunFrom
<1>2. PICK x, s : /\ x.c = "run" /\ x.ops = <<>> /\ Launch(Head(window), <<x>> \o Rest)
                  /\ CleanSeq(s) /\ stack' = s \o (<<x>> \o Rest)
  BY RunFrom
<1>3. ids' = ids /\ alive' = alive /\ wr' = wr /\ ~At("new")
  BY <1>1 DEF Run, progVars, At
<1>4. QueueOK(window, ids) /\ IsSeq(window) /\ ids \in Nat
  BY DEF IInv, DataOK, WindowOK, QueueOK
<1>5. Line = Range(window)
  BY <1>1, BehindIdle
<1>6. Behind(stack') = {}
  <2>1. ItemLine(x) = {}
    BY <1>2, BehindNothing DEF ItemLine
  <2> QED BY <1>1, <1>2, <1>3, <2>1, BehindLaunch
<1>7. Line' = K
  BY <1>6 DEF Line
<1>8. DOMAIN window = 1..Len(window) /\ Len(window) \in Nat /\ DOMAIN window' = 1..Len(window') /\ Len(window') = Len(window) - 1
  <2>1. IsSeq(window') /\ Len(window') = Len(window) - 1
    <3>1. window # <<>>
      BY <1>1, <1>4, SeqIs
    <3>2. IsSeq(Tail(window)) /\ Len(Tail(window)) = Len(window) - 1
      BY <1>4, <3>1, TailIs
    <3> QED BY <1>1, <3>2
  <2> QED BY <1>4, <2>1, SeqIs
<1>9. Line = K \cup {op}
  <2>1. ASSUME NEW j \in DOMAIN window, j # 1 PROVE window[j] \in K
    <3> DEFINE i == j - 1
    <3>1. i \in DOMAIN window' /\ j = i + 1
      BY <1>8, <2>1
    <3> HIDE DEF i
    <3> QED BY <1>1, <3>1 DEF Range
  <2>2. K \cup {op} \subseteq Range(window)
    BY <1>1 DEF Range
  <2>3. Range(window) \subseteq K \cup {op}
    BY <2>1 DEF Range
  <2> QED BY <1>5, <2>2, <2>3
<1>10. \A u \in K : Earlier(op, u)
  <2>1. ASSUME NEW i \in DOMAIN window' PROVE op.id < window'[i].id
    <3>1. window'[i] = window[i + 1] /\ i + 1 \in DOMAIN window /\ 1 < i + 1
      BY <1>1, <1>8
    <3> QED BY <1>1, <1>4, <3>1 DEF QueueOK
  <2> QED BY <2>1 DEF Range, Earlier
<1>11. op.id \in 1..ids /\ Stems(op) /\ op = Head(window)
  BY <1>1, <1>4 DEF QueueOK, AgreeOK, Unchecked
<1> HIDE DEF K, op
<1>12. FlowOK'
  BY <1>2, <1>3, <1>7, <1>9, <1>10, <1>11, LaunchReads
<1>13. FreshOK'
  BY <1>2, <1>9, <1>10, <1>11, LaunchFresh
<1>14. LineOK'
  <2>1. DOMAIN <<>> = {}
    BY ShortSeqs, SeqIs
  <2>2. Ordered(x.ops, window')
    BY <1>2, <2>1 DEF Ordered
  <2>3. \A i \in DOMAIN stack' : Clean(stack'[i]) \/ stack'[i] = x \/ \E j \in DOMAIN stack : stack'[i] = stack[j]
    BY <1>1, <1>2, FromLaunch
  <2>4. \A i \in DOMAIN stack' : \/ Clean(stack'[i])
                                 \/ /\ stack'[i].c = "submit" => stack'[i].op.id # 0
                                    /\ Ordered(stack'[i].ops, window')
                                 \/ \E j \in DOMAIN stack : stack'[i] = stack[j]
    BY <1>2, <2>2, <2>3
  <2>5. \A i \in DOMAIN window' : \E k \in DOMAIN window : window'[i] = window[k]
    BY <1>1
  <2>6. \A u \in Line' : u \in Line
    BY <1>7, <1>9
  <2> QED BY <1>3, <1>4, <2>4, <2>5, <2>6, LineFrom
<1> QED BY <1>12, <1>13, <1>14

\* An operation of a prefix is launched.
LEMMA RunPrefixReads ==
  ASSUME IInv, AgreeOK, FlowOK, LineOK, FreshOK, RunPrefix
  PROVE  FlowOK' /\ LineOK' /\ FreshOK'
PROOF
<1>1. /\ stack # <<>> /\ window' = window /\ Top.c = "stream" /\ Top = stack[1] /\ 1 \in DOMAIN stack
      /\ IsSeq(Top.ops) /\ 1 \in DOMAIN Top.ops /\ Head(Top.ops) = Top.ops[1]
  BY RunPrefixFrom
<1>2. PICK x, s : /\ x.c = "stream" /\ Launch(Head(Top.ops), <<x>> \o Rest)
                  /\ \A i \in DOMAIN x.ops : x.ops[i] = Top.ops[i + 1] /\ i + 1 \in DOMAIN Top.ops
                  /\ IsSeq(x.ops) /\ Len(x.ops) = Len(Top.ops) - 1
                  /\ CleanSeq(s) /\ stack' = s \o (<<x>> \o Rest)
  BY RunPrefixFrom
<1> DEFINE ops == Top.ops
           op == ops[1]
           K == Range(window) \cup Range(x.ops)
<1>3. ids' = ids /\ alive' = alive /\ wr' = wr /\ ~At("new")
  BY <1>1 DEF RunPrefix, progVars, At
<1>4. ids \in Nat
  BY DEF IInv, DataOK
<1>5. Line = Range(window) \cup Range(ops)
  <2>1. ItemLine(Top) = Range(ops)
    BY <1>1 DEF ItemLine
  <2>2. Behind(Rest) = {}
    BY <1>1, <1>2, <1>3, BehindLaunch
  <2> QED BY <1>1, <2>1, <2>2, BehindTop DEF Line
<1>6. Line' = K
  <2>1. ItemLine(x) = Range(x.ops)
    BY <1>2 DEF ItemLine
  <2>2. Behind(stack') = ItemLine(x)
    BY <1>1, <1>2, <1>3, BehindLaunch
  <2>3. Line' = Range(window') \cup Behind(stack')
    BY DEF Line
  <2> QED BY <1>1, <2>1, <2>2, <2>3
<1>7. DOMAIN ops = 1..Len(ops) /\ Len(ops) \in Nat /\ DOMAIN x.ops = 1..Len(x.ops) /\ Len(x.ops) = Len(ops) - 1
  BY <1>1, <1>2, SeqIs
<1>8. Line = K \cup {op}
  <2>1. ASSUME NEW j \in DOMAIN ops, j # 1 PROVE ops[j] \in K
    <3> DEFINE i == j - 1
    <3>1. i \in DOMAIN x.ops /\ j = i + 1
      BY <1>7, <2>1
    <3> HIDE DEF i
    <3> QED BY <1>2, <3>1 DEF Range
  <2>2. K \cup {op} \subseteq Range(window) \cup Range(ops)
    BY <1>1, <1>2 DEF Range
  <2>3. Range(ops) \subseteq K \cup {op}
    BY <2>1 DEF Range
  <2> QED BY <1>5, <2>2, <2>3
<1>9. Ordered(ops, window)
  BY <1>1 DEF LineOK
<1>10. \A i \in DOMAIN x.ops : x.ops[i] = ops[i + 1] /\ i + 1 \in DOMAIN ops /\ 1 < i + 1
  BY <1>2, <1>7
<1>11. \A u \in K : Earlier(op, u)
  <2>1. \A i \in DOMAIN x.ops : Earlier(op, x.ops[i])
    BY <1>1, <1>9, <1>10 DEF Ordered
  <2>2. \A i \in DOMAIN window : Earlier(op, window[i])
    BY <1>1, <1>9 DEF Ordered
  <2> QED BY <2>1, <2>2 DEF Range
<1>12. op.id \in 1..ids /\ Stems(op) /\ op = Head(ops)
  <2>1. ItemOK(Top, ids, gens)
    BY <1>1, RestIs DEF IInv, StackOK
  <2>2. op.id \in 1..ids
    BY <1>1, <2>1 DEF ItemOK, PrefixOK
  <2>3. Stems(op)
    BY <1>1 DEF AgreeOK, PrefixAgrees
  <2> QED BY <1>1, <2>2, <2>3
<1>13. Ordered(x.ops, window')
  <2>1. \A k, l \in DOMAIN x.ops : k < l => k + 1 < l + 1
    BY <1>7
  <2>2. ASSUME NEW k \in DOMAIN x.ops, NEW l \in DOMAIN x.ops, k < l PROVE Earlier(x.ops[k], x.ops[l])
    BY <1>9, <1>10, <2>1, <2>2 DEF Ordered
  <2>3. ASSUME NEW k \in DOMAIN x.ops, NEW i \in DOMAIN window' PROVE Earlier(x.ops[k], window'[i])
    BY <1>1, <1>9, <1>10, <2>3 DEF Ordered
  <2> QED BY <2>2, <2>3 DEF Ordered
<1> HIDE DEF K, op
<1>14. Launch(op, <<x>> \o Rest)
  BY <1>2, <1>12
<1>15. FlowOK'
  BY <1>3, <1>6, <1>8, <1>11, <1>12, <1>14, LaunchReads
<1>16. FreshOK'
  BY <1>8, <1>11, <1>12, <1>14, LaunchFresh
<1>17. LineOK'
  <2>1. stack # <<>>
    BY <1>1
  <2>2. CleanSeq(s) /\ stack' = s \o (<<x>> \o Rest)
    BY <1>2
  <2>3. \A i \in DOMAIN stack' : Clean(stack'[i]) \/ stack'[i] = x \/ \E j \in DOMAIN stack : stack'[i] = stack[j]
    BY <2>1, <2>2, FromLaunch, SMTT(60)
  <2>4. \A i \in DOMAIN stack' : \/ Clean(stack'[i])
                                 \/ /\ stack'[i].c = "submit" => stack'[i].op.id # 0
                                    /\ Ordered(stack'[i].ops, window')
                                 \/ \E j \in DOMAIN stack : stack'[i] = stack[j]
    BY <1>2, <1>13, <2>3
  <2>5. \A i \in DOMAIN window' : \E k \in DOMAIN window : window'[i] = window[k]
    BY <1>1
  <2>6. \A u \in Line' : u \in Line
    BY <1>6, <1>8
  <2> QED BY <1>3, <1>4, <2>4, <2>5, <2>6, LineFrom
<1> QED BY <1>15, <1>16, <1>17

\* What is left alone when an operation gets its strategy, its generation or a discard
Twin(o, op) == /\ o.id = op.id /\ o.kind = op.kind /\ o.in = op.in /\ o.out = op.out /\ o.red = op.red
               /\ o.field = op.field /\ o.src = op.src
Copied(o, op) == Twin(o, op) /\ o.drop = op.drop

\* A fence of the runtime
Bare(op) == op.kind = "fence" /\ op.in = {} /\ op.out = {} /\ op.red = {} /\ op.drop = {}

\* The line with copies of its operations and with fences
LEMMA CopiesFind ==
  ASSUME FlowOK, ids \in Nat, NEW K, NEW k \in Nat, k >= ids, \A y \in Line : y.id \in 1..ids,
         \A u \in K : u.id \in Nat /\ (Bare(u) \/ \E y \in Line : Copied(u, y)),
         \A y \in Line : \E u \in K : Copied(u, y)
  PROVE  TasksFind(K, mem) /\ StoresFind(K, mem, alive, wr, k + 2)
PROOF
<1>1. ASSUME NEW f, NEW v, NEW n \in Nat, NEW m \in Nat, n <= m, n = m \/ n > ids, Finds(Line, mem, f, v, n)
      PROVE  Finds(K, mem, f, v, m)
  <2>1. ASSUME NEW w \in Line, w.id = v, v < n, Leaves(w, f) PROVE v < m /\ \E x \in K : x.id = v /\ Leaves(x, f)
    <3>1. PICK x \in K : Copied(x, w)
      BY <2>1
    <3>2. x.id = v /\ Leaves(x, f)
      BY <2>1, <3>1 DEF Copied, Twin, Leaves
    <3>3. v \in Nat
      BY <2>1
    <3> QED BY <1>1, <2>1, <3>2, <3>3
  <2>2. ASSUME NEW u \in K, Affects(u, f), u.id < m PROVE \E y \in Line : Affects(y, f) /\ y.id < n /\ u.id <= y.id
    <3>1. ~Bare(u)
      BY <2>2 DEF Bare, Affects
    <3>2. PICK y \in Line : Copied(u, y)
      BY <2>2, <3>1
    <3>3. Affects(y, f) /\ u.id = y.id
      BY <2>2, <3>2 DEF Copied, Twin, Affects
    <3>4. y.id \in Nat /\ y.id <= ids
      BY <3>2
    <3>5. y.id < n /\ u.id <= y.id
      BY <1>1, <2>2, <3>3, <3>4
    <3> QED BY <3>2, <3>3, <3>5
  <2>3. (\A u \in Line : u.id \in Nat) /\ \A u \in K : u.id \in Nat
    OBVIOUS
  <2>4. \A w \in Line : w.id = v /\ v < n /\ Leaves(w, f) /\ (\A u \in Line : Affects(u, f) /\ u.id < n => u.id <= v)
          => v < m /\ \E x \in K : x.id = v /\ Leaves(x, f)
    BY <2>1
  <2>5. \A u \in K : Affects(u, f) /\ u.id < m => \E y \in Line : Affects(y, f) /\ y.id < n /\ u.id <= y.id
    BY <2>2
  <2> QED BY <1>1, <2>3, <2>4, <2>5, FindsStays
<1>2. ASSUME NEW r \in K, IsTask(r), NEW f \in r.in \cup r.red PROVE Finds(K, mem, f, r.src[f], r.id)
  <2>1. ~Bare(r)
    BY <1>2 DEF Bare, IsTask
  <2>2. PICK y \in Line : Copied(r, y)
    BY <1>2, <2>1
  <2>3. IsTask(y) /\ f \in y.in \cup y.red /\ r.src[f] = y.src[f] /\ r.id = y.id /\ y.id \in Nat
    BY <1>2, <2>2 DEF Copied, Twin, IsTask
  <2>4. Finds(Line, mem, f, y.src[f], y.id)
    BY <2>2, <2>3 DEF FlowOK, TasksFind
  <2> DEFINE v == y.src[f]
             n == y.id
  <2>5. n \in Nat /\ n <= n /\ Finds(Line, mem, f, v, n)
    BY <2>3, <2>4
  <2> HIDE DEF v, n
  <2>6. Finds(K, mem, f, v, n)
    BY <1>1, <2>5
  <2> QED BY <2>3, <2>6 DEF v, n
<1>3. ASSUME NEW f \in alive, wr[f] # 0 PROVE Finds(K, mem, f, wr[f], k + 2)
  <2>1. Finds(Line, mem, f, wr[f], ids + 2)
    BY <1>3 DEF FlowOK, StoresFind
  <2> DEFINE n == ids + 2
             m == k + 2
             v == wr[f]
  <2>2. n \in Nat /\ m \in Nat /\ n <= m /\ n > ids /\ Finds(Line, mem, f, v, n)
    BY <2>1
  <2> HIDE DEF n, m, v
  <2>3. Finds(K, mem, f, v, m)
    BY <1>1, <2>2
  <2> QED BY <2>3 DEF v, m
<1>4. TasksFind(K, mem)
  BY <1>2 DEF TasksFind
<1>5. StoresFind(K, mem, alive, wr, k + 2)
  BY <1>3 DEF StoresFind
<1> QED BY <1>4, <1>5

\* The operations that get their strategies stay what they are.
LEMMA AssignedCopies ==
  ASSUME NEW ops, NEW i \in DOMAIN ops, DOMAIN ops[i] = OpFields
  PROVE  Copied(Assigned(ops)[i], ops[i])
PROOF
<1> DEFINE a == Assigned(ops)
           size == Cardinality(Counted(ops))
           s == Strategy(ops[i], key)
           o == ops[i]
           c == [o EXCEPT !.checked = s]
           g == gens + 1
           t == [c EXCEPT !.gen = g, !.size = size]
<1>1. a[i] = IF i \in Counted(ops) THEN t ELSE c
  BY DEF Assigned
<1> HIDE DEF a, size, s, o, g
<1>2. DOMAIN o = OpFields
  BY DEF o
<1>3. DOMAIN c = OpFields /\ Copied(c, o)
  BY <1>2 DEF Copied, Twin, OpFields, Plain
<1> HIDE DEF c
<1>4. Copied(t, o)
  BY <1>3 DEF Copied, Twin, OpFields, Plain
<1> HIDE DEF t
<1> QED BY <1>1, <1>3, <1>4 DEF a, o

\* The fence behind a prefix, when it is a new one
LEMMA FencedLast ==
  ASSUME NEW ops, IsSeq(ops)
  PROVE  /\ DOMAIN ops \subseteq DOMAIN Fenced(ops)
         /\ \A i \in DOMAIN Fenced(ops) : IF i \in DOMAIN ops THEN Fenced(ops)[i] = ops[i]
                                          ELSE Bare(Fenced(ops)[i]) /\ Fenced(ops)[i].id = ids + 1
PROOF
<1> DEFINE fence == [Plain("fence") EXCEPT !.id = ids + 1]
           all == Append(ops, fence)
<1>1. Fenced(ops) = IF Last(ops).kind = "fence" THEN ops ELSE all
  BY DEF Fenced
<1>2. Bare(fence) /\ fence.id = ids + 1
  BY DEF Bare, Plain
<1> HIDE DEF fence
<1>3. /\ DOMAIN all = DOMAIN ops \cup {Len(ops) + 1}
      /\ \A i \in DOMAIN ops : all[i] = ops[i]
      /\ all[Len(ops) + 1] = fence
  BY AppendIs
<1> HIDE DEF all
<1>4. CASE Last(ops).kind = "fence"
  BY <1>1, <1>4
<1>5. CASE Last(ops).kind # "fence"
  BY <1>1, <1>2, <1>3, <1>5
<1> QED BY <1>4, <1>5

\* A prefix is cut off: it is what stood in front of the window, in order, and the fence comes last.
LEMMA ExtractGives ==
  ASSUME IInv, Extract
  PROVE  /\ stack # <<>> /\ Top.c = "stream" /\ Top.ops = <<>> /\ log' = log /\ mem' = mem /\ alive' = alive /\ ids \in Nat
         /\ \/ CleanSeq(stack') /\ window' = <<>> /\ wr' = mem
            \/ /\ ids' \in Nat /\ ids' >= ids /\ wr' = wr
               /\ \A i \in DOMAIN window' : \E k \in DOMAIN window : window'[i] = window[k]
               /\ \E x : /\ x.c = "stream" /\ stack' = <<x>> \o Rest /\ Ordered(x.ops, window')
                         /\ \A k \in DOMAIN x.ops : /\ x.ops[k].id \in Nat
                                                    /\ Bare(x.ops[k]) \/ \E y \in Range(window) : Copied(x.ops[k], y)
                         /\ \A y \in Range(window) : \/ \E k \in DOMAIN x.ops : Copied(x.ops[k], y)
                                                     \/ y \in Range(window')
PROOF
<1> DEFINE n == PrefixLen(window)
           first == SubSeq(window, 1, n)
           ops == Fenced(first)
           x == [Top EXCEPT !.ops = Assigned(ops)]
<1>1. stack # <<>> /\ Top.c = "stream" /\ Top.ops = <<>> /\ window # <<>>
      /\ UNCHANGED <<scopes, alive, life, dataVars, log, matchVars, calls>>
  BY DEF Extract, At
<1>2. StackOK /\ QueueOK(window, ids) /\ ids \in Nat /\ gens \in Nat /\ IsSeq(window)
  BY DEF IInv, WindowOK, DataOK, QueueOK
<1>3. ItemOK(Top, ids, gens) /\ IsSeq(Rest) /\ ItemsOK(Rest, ids, gens, Policy)
  BY <1>1, <1>2, RestIs DEF StackOK, Policy
<1>4. n \in 1..Len(window) /\ Len(window) \in Nat /\ DOMAIN window = 1..Len(window)
  BY <1>1, <1>2, PrefixLenIs, SeqIs
<1>5. CASE Policy.mode = "strict" /\ n < Len(window)
  <2>1. Throw("not streamable", Rest) /\ UNCHANGED <<ids, gens>>
    BY <1>5 DEF Extract
  <2>2. \A i \in DOMAIN Rest : Rest[i].c = "enter" => Rest[i].ops = <<>>
    BY <1>3 DEF ItemsOK, ItemOK
  <2>3. CleanSeq(stack') /\ window' = <<>>
    BY <1>1, <2>1, <2>2, CleanThrow
  <2>4. wr' = mem
    BY <2>1 DEF Throw
  <2> QED BY <1>1, <1>2, <2>3, <2>4 DEF dataVars
<1>6. CASE ~(Policy.mode = "strict" /\ n < Len(window))
  <2>1. /\ stack' = <<x>> \o Rest /\ ids' = Max({ids, Last(ops).id}) /\ wr' = wr
        /\ window' = SubSeq(window, n + 1, Len(window))
    BY <1>6 DEF Extract, Remainder
  <2> HIDE DEF n
  <2>2. /\ QueueOK(first, ids) /\ Len(first) = n
        /\ \A i \in DOMAIN first : i \in DOMAIN window /\ first[i] = window[i]
        /\ QueueOK(window', ids) /\ Len(window') = Len(window) - n
        /\ \A i \in DOMAIN window' : n + i \in DOMAIN window /\ window'[i] = window[n + i]
    <3>1. n \in 0..Len(window)
      BY <1>4
    <3> QED BY <1>2, <2>1, <3>1, CutsAre
  <2> HIDE DEF first
  <2>3. first # <<>> /\ DOMAIN first = 1..n /\ IsSeq(first)
    BY <1>4, <2>2, ShortSeqs, SeqIs DEF QueueOK
  <2>4. DOMAIN window' = 1..(Len(window) - n)
    BY <2>2, SeqIs DEF QueueOK
  <2>5. /\ IsSeq(ops) /\ ops # <<>> /\ Last(ops).kind = "fence" /\ ids' \in Nat /\ ids' >= ids
        /\ \A i \in DOMAIN ops : Waits(ops[i]) /\ ops[i].id \in 1..ids'
    BY <1>2, <2>1, <2>2, <2>3, FencedIs
  <2>6. /\ DOMAIN first \subseteq DOMAIN ops
        /\ \A i \in DOMAIN ops : IF i \in DOMAIN first THEN ops[i] = first[i]
                                 ELSE Bare(ops[i]) /\ ops[i].id = ids + 1
    BY <2>3, FencedLast
  <2> HIDE DEF ops
  <2> DEFINE a == Assigned(ops)
  <2>7. DOMAIN a = DOMAIN ops
    BY DEF Assigned
  <2>8. \A i \in DOMAIN ops : Copied(a[i], ops[i])
    BY <2>5, AssignedCopies DEF Waits, IsOp
  <2> HIDE DEF a
  <2>9. x.c = "stream" /\ x.ops = a
    <3>1. DOMAIN Top = ItemFields
      BY <1>3 DEF ItemOK
    <3> QED BY <1>1, <3>1, ItemWith DEF a
  <2> HIDE DEF x
  <2>10. ASSUME NEW i \in DOMAIN a
         PROVE  \/ Bare(a[i])
                \/ i \in 1..n /\ i \in DOMAIN window /\ Copied(a[i], window[i])
    <3>1. i \in DOMAIN ops /\ Copied(a[i], ops[i])
      BY <2>7, <2>8
    <3>2. CASE i \in DOMAIN first
      BY <2>2, <2>3, <2>6, <3>1, <3>2
    <3>3. CASE i \notin DOMAIN first
      BY <2>6, <3>1, <3>3 DEF Copied, Twin, Bare
    <3> QED BY <3>2, <3>3
  <2>11. \A i \in DOMAIN a : a[i].id \in Nat
    <3>1. \A i \in DOMAIN a : a[i].id = ops[i].id /\ ops[i].id \in Nat
      BY <2>5, <2>7, <2>8 DEF Copied, Twin
    <3> QED BY <3>1
  <2>12. Ordered(a, window')
    <3>1. ASSUME NEW k \in DOMAIN a, NEW l \in DOMAIN a, k < l PROVE Earlier(a[k], a[l])
      <4>1. CASE Bare(a[k]) \/ Bare(a[l])
        BY <4>1 DEF Bare, Earlier
      <4>2. CASE ~Bare(a[k]) /\ ~Bare(a[l])
        <5>1. /\ k \in DOMAIN window /\ a[k].id = window[k].id
              /\ l \in DOMAIN window /\ a[l].id = window[l].id
          BY <2>10, <4>2 DEF Copied, Twin
        <5>2. window[k].id < window[l].id
          BY <1>2, <3>1, <5>1 DEF QueueOK
        <5> QED BY <5>1, <5>2 DEF Earlier
      <4> QED BY <4>1, <4>2
    <3>2. ASSUME NEW k \in DOMAIN a, NEW i \in DOMAIN window' PROVE Earlier(a[k], window'[i])
      <4>1. CASE Bare(a[k])
        BY <4>1 DEF Bare, Earlier
      <4>2. CASE ~Bare(a[k])
        <5>1. k \in 1..n /\ k \in DOMAIN window /\ a[k].id = window[k].id
          BY <2>10, <4>2 DEF Copied, Twin
        <5>2. n + i \in DOMAIN window /\ window'[i] = window[n + i]
          BY <2>2
        <5>3. k < n + i
          BY <1>4, <2>4, <5>1
        <5>4. window[k].id < window[n + i].id
          BY <1>2, <5>1, <5>2, <5>3 DEF QueueOK
        <5> QED BY <5>1, <5>2, <5>4 DEF Earlier
      <4> QED BY <4>1, <4>2
    <3> QED BY <3>1, <3>2 DEF Ordered
  <2>13. ASSUME NEW y \in Range(window) PROVE (\E k \in DOMAIN a : Copied(a[k], y)) \/ y \in Range(window')
    <3>1. PICK j \in DOMAIN window : y = window[j]
      BY <2>13 DEF Range
    <3>2. CASE j \in 1..n
      <4>1. j \in DOMAIN first /\ j \in DOMAIN ops
        BY <2>3, <2>6, <3>2
      <4>2. ops[j] = y /\ Copied(a[j], ops[j]) /\ j \in DOMAIN a
        BY <2>2, <2>6, <2>7, <2>8, <3>1, <4>1
      <4> QED BY <4>2
    <3>3. CASE j \notin 1..n
      <4> DEFINE i == j - n
      <4>1. i \in DOMAIN window' /\ j = n + i
        BY <1>4, <2>4, <3>3
      <4> HIDE DEF i
      <4>2. window'[i] = y
        BY <2>2, <3>1, <4>1
      <4> QED BY <4>1, <4>2 DEF Range
    <3> QED BY <3>2, <3>3
  <2>14. \A i \in DOMAIN window' : \E k \in DOMAIN window : window'[i] = window[k]
    BY <2>2
  <2>15. \A k \in DOMAIN a : Bare(a[k]) \/ \E y \in Range(window) : Copied(a[k], y)
    BY <2>10 DEF Range
  <2> QED BY <1>1, <1>2, <2>1, <2>5, <2>9, <2>11, <2>12, <2>13, <2>14, <2>15 DEF dataVars
<1> QED BY <1>5, <1>6

\* So what is found stays.
LEMMA ExtractReads ==
  ASSUME IInv, FlowOK, LineOK, Extract
  PROVE  FlowOK' /\ LineOK'
PROOF
<1>1. stack # <<>> /\ Top.c = "stream" /\ Top.ops = <<>> /\ mem' = mem /\ alive' = alive /\ ids \in Nat
  BY ExtractGives
<1>2. Line = Range(window) /\ Behind(stack) = {} /\ ~At("new")
  BY <1>1, BehindIdle DEF At
<1>3. Line' = Range(window') \cup Behind(stack')
  BY DEF Line
<1>4. CASE CleanSeq(stack') /\ window' = <<>> /\ wr' = mem
  <2>1. Line' = {}
    BY <1>2, <1>3, <1>4, BehindClean, BehindNothing
  <2>2. TasksFind(Line', mem') /\ StoresFind(Line', mem', alive', mem', ids' + 2)
    BY <2>1, NothingFound
  <2>3. DOMAIN <<>> = {}
    BY ShortSeqs, SeqIs
  <2>4. LineOK'
    <3>1. \A i \in DOMAIN stack' : Clean(stack'[i])
      BY <1>4 DEF CleanSeq
    <3>2. DOMAIN window' = {}
      BY <1>4, <2>3
    <3> QED BY <1>1, <2>1, <3>1, <3>2, LineFrom
  <2>5. TasksFind(Line', mem') /\ StoresFind(Line', mem', alive', wr', ids' + 2)
    BY <1>1, <1>4, <2>2
  <2> QED BY <2>4, <2>5 DEF FlowOK
<1>5. ASSUME ids' \in Nat, ids' >= ids, wr' = wr,
             \A i \in DOMAIN window' : \E k \in DOMAIN window : window'[i] = window[k],
             NEW x, x.c = "stream", stack' = <<x>> \o Rest, Ordered(x.ops, window'),
             \A k \in DOMAIN x.ops : x.ops[k].id \in Nat /\ (Bare(x.ops[k]) \/ \E y \in Range(window) : Copied(x.ops[k], y)),
             \A y \in Range(window) : (\E k \in DOMAIN x.ops : Copied(x.ops[k], y)) \/ y \in Range(window')
      PROVE  FlowOK' /\ LineOK'
  <2> DEFINE K == Range(window') \cup Range(x.ops)
             k == ids'
  <2>1. Behind(stack') = Range(x.ops)
    <3>1. Behind(Rest) = {} /\ IsSeq(Rest)
      BY <1>1, BehindRest, RestIs DEF Harmless, IInv, StackOK
    <3>2. IsSeq(<<x>>) /\ Behind(<<x>>) = ItemLine(x)
      BY ShortSeqs, BehindOne
    <3>3. Behind(<<x>> \o Rest) = Behind(<<x>>) \cup Behind(Rest)
      BY <3>1, <3>2, BehindBoth
    <3>4. ItemLine(x) = Range(x.ops)
      BY <1>5 DEF ItemLine
    <3> QED BY <1>5, <3>1, <3>2, <3>3, <3>4
  <2>2. Line' = K
    BY <1>3, <2>1
  <2>3. \A y \in Line : y.id \in 1..ids
    BY <1>2, LineIds
  <2>4. \A u \in Range(window') : u \in Line
    BY <1>2, <1>5 DEF Range
  <2>5. \A u \in K : u.id \in Nat /\ (Bare(u) \/ \E y \in Line : Copied(u, y))
    <3>1. ASSUME NEW u \in Range(window') PROVE u.id \in Nat /\ \E y \in Line : Copied(u, y)
      BY <1>1, <2>3, <2>4 DEF Copied, Twin
    <3>2. ASSUME NEW u \in Range(x.ops) PROVE u.id \in Nat /\ (Bare(u) \/ \E y \in Line : Copied(u, y))
      BY <1>2, <1>5, <3>2 DEF Range
    <3> QED BY <3>1, <3>2
  <2>6. \A y \in Line : \E u \in K : Copied(u, y)
    <3>1. ASSUME NEW y \in Line PROVE \E u \in K : Copied(u, y)
      <4>1. CASE \E j \in DOMAIN x.ops : Copied(x.ops[j], y)
        BY <4>1 DEF Range
      <4>2. CASE y \in Range(window')
        BY <4>2 DEF Copied, Twin
      <4> QED BY <1>2, <1>5, <4>1, <4>2
    <3> QED BY <3>1
  <2>7. k \in Nat /\ k >= ids
    BY <1>5
  <2> HIDE DEF K, k
  <2>8. TasksFind(K, mem) /\ StoresFind(K, mem, alive, wr, k + 2)
    BY <1>1, <2>3, <2>5, <2>6, <2>7, CopiesFind
  <2>9. TasksFind(Line', mem') /\ StoresFind(Line', mem', alive', wr', ids' + 2)
    BY <1>1, <1>5, <2>2, <2>8 DEF k
  <2>10. \A u \in Line' : u \in Line \/ Lean(u)
    <3>1. ASSUME NEW u \in K PROVE Lean(u)
      <4>1. CASE Bare(u)
        BY <4>1 DEF Bare, Lean
      <4>2. CASE \E y \in Line : Copied(u, y)
        <5>1. PICK y \in Line : Copied(u, y)
          BY <4>2
        <5>2. Lean(y)
          BY DEF LineOK
        <5> QED BY <5>1, <5>2 DEF Copied, Twin, Lean, Strategic
      <4> QED BY <2>5, <4>1, <4>2
    <3> QED BY <2>2, <3>1
  <2>11. \A i \in DOMAIN stack' : stack'[i] = x \/ \E j \in DOMAIN stack : stack'[i] = stack[j]
    <3>1. stack # <<>>
      BY <1>1
    <3>2. stack' = <<x>> \o Rest
      BY <1>5
    <3> QED BY <3>1, <3>2, FromOne
  <2>12. LineOK'
    <3>1. \A i \in DOMAIN stack' : \/ Clean(stack'[i])
                                   \/ /\ stack'[i].c = "submit" => stack'[i].op.id # 0
                                      /\ Ordered(stack'[i].ops, window')
                                   \/ \E j \in DOMAIN stack : stack'[i] = stack[j]
      BY <1>5, <2>11
    <3> QED BY <1>1, <1>5, <2>10, <3>1, LineFrom
  <2> QED BY <2>9, <2>12 DEF FlowOK
<1> QED BY <1>4, <1>5, ExtractGives

\* A nonempty set of numbers up to m has a greatest element.
LEMMA Greatest ==
  ASSUME NEW m \in Nat, NEW S \in SUBSET (1..m), S # {}
  PROVE  Max(S) \in S /\ \A y \in S : y <= Max(S)
PROOF
<1> DEFINE B == {k \in Nat : \A y \in S : y <= k}
<1>1. B \in SUBSET Nat /\ m \in B
  OBVIOUS
<1>2. PICK k \in B : \A j \in B : k <= j
  <2> HIDE DEF B
  <2> QED BY <1>1, Least
<1>3. k \in Nat /\ \A y \in S : y <= k
  OBVIOUS
<1>4. k \in S
  <2>1. SUFFICES ASSUME k \notin S PROVE FALSE
    OBVIOUS
  <2>2. PICK y \in S : TRUE
    OBVIOUS
  <2>3. y \in Nat /\ 1 <= y /\ y <= k
    BY <1>3
  <2>4. k - 1 \in Nat
    BY <1>3, <2>3
  <2>5. \A z \in S : z <= k - 1
    <3>1. ASSUME NEW z \in S PROVE z <= k - 1
      <4>1. z \in Nat /\ z <= k /\ z # k
        BY <1>3, <2>1
      <4> QED BY <1>3, <4>1
    <3> QED BY <3>1
  <2>6. k - 1 \in B
    BY <2>4, <2>5
  <2>7. k <= k - 1
    BY <1>2, <2>6
  <2> QED BY <1>3, <2>7
<1>5. \A y \in S : k >= y
  BY <1>3
<1>6. \E x \in S : \A y \in S : x >= y
  BY <1>4, <1>5
<1>7. Max(S) \in S /\ \A y \in S : Max(S) >= y
  BY <1>6 DEF Max
<1>8. \A y \in S : y \in Nat
  OBVIOUS
<1> QED BY <1>7, <1>8

\* All of the set are there.
LEMMA InOrderAll ==
  ASSUME NEW n \in Nat, NEW S \in SUBSET (1..n), NEW i \in S
  PROVE  \E j \in DOMAIN InOrder(S) : InOrder(S)[j] = i
PROOF
<1> DEFINE Below(x) == {k \in S : k <= x}
<1>0. \A k \in S : k \in Nat /\ 1 <= k /\ k <= n
  OBVIOUS
<1>1. IsFiniteSet(S) /\ Cardinality(S) \in Nat
  <2>1. IsFiniteSet(1..n)
    BY FS_Interval
  <2> QED BY <2>1, FS_Subset, FS_CardinalityType
<1>2. \A x \in S : /\ IsFiniteSet(Below(x)) /\ Cardinality(Below(x)) \in Nat
                   /\ Cardinality(Below(x)) <= Cardinality(S)
  <2> TAKE x \in S
  <2>1. Below(x) \in SUBSET S
    OBVIOUS
  <2> HIDE DEF Below
  <2> QED BY <1>1, <2>1, FS_Subset, FS_CardinalityType
<1>3. ASSUME NEW x \in S, NEW y \in S, x < y PROVE Cardinality(Below(x)) < Cardinality(Below(y))
  <2> DEFINE B == Below(x)
             C == Below(y)
  <2>1. y \notin B
    BY <1>0, <1>3
  <2>2. B \cup {y} \in SUBSET C
    <3>1. \A k \in B : k \in C
      BY <1>0, <1>3
    <3>2. y \in C
      BY <1>0
    <3> QED BY <3>1, <3>2
  <2>3. IsFiniteSet(B) /\ Cardinality(B) \in Nat /\ IsFiniteSet(C) /\ Cardinality(C) \in Nat
    <3> HIDE DEF Below
    <3> QED BY <1>2
  <2> HIDE DEF Below, B, C
  <2>4. Cardinality(B \cup {y}) = Cardinality(B) + 1
    BY <2>1, <2>3, FS_AddElement
  <2>5. Cardinality(B \cup {y}) <= Cardinality(C)
    BY <2>2, <2>3, FS_Subset
  <2>6. Cardinality(B) < Cardinality(C)
    BY <2>3, <2>4, <2>5
  <2> QED BY <2>6 DEF B, C
<1> DEFINE j == Cardinality(Below(i))
           x == CHOOSE y \in S : Cardinality(Below(y)) = j
<1>4. j \in 1..Cardinality(S)
  <2>1. i \in Below(i)
    BY <1>0
  <2> DEFINE B == Below(i)
  <2>2. B # {} /\ IsFiniteSet(B) /\ Cardinality(B) \in Nat /\ Cardinality(B) <= Cardinality(S)
    BY <1>2, <2>1
  <2> HIDE DEF B
  <2>3. Cardinality(B) # 0
    BY <2>2, FS_EmptySet
  <2>4. Cardinality(B) \in 1..Cardinality(S)
    BY <1>1, <2>2, <2>3
  <2> QED BY <2>4 DEF B
<1>5. DOMAIN InOrder(S) = 1..Cardinality(S) /\ InOrder(S)[j] = x
  BY <1>4 DEF InOrder
<1> HIDE DEF Below
<1>6. x \in S /\ Cardinality(Below(x)) = j
  OBVIOUS
<1> HIDE DEF x
<1>7. ~(x < i) /\ ~(i < x)
  <2>1. Cardinality(Below(x)) = Cardinality(Below(i)) /\ Cardinality(Below(i)) \in Nat
    BY <1>2, <1>6
  <2> HIDE DEF j
  <2> QED BY <1>3, <1>6, <2>1
<1>8. x = i
  BY <1>0, <1>6, <1>7
<1> QED BY <1>4, <1>5, <1>8

\* The task that a discard is handed to: the last one before it that touches the field
LEMMA HandedIs ==
  ASSUME NEW w, IsSeq(w), NEW d \in Handled(w)
  PROVE  /\ d \in DOMAIN w /\ w[d].kind = "discard" /\ LastTask(w, d, w[d].field) \in 1..(d - 1)
         /\ LastTask(w, d, w[d].field) \in DOMAIN w /\ IsTask(w[LastTask(w, d, w[d].field)])
         /\ \A j \in 1..(d - 1) : IsTask(w[j]) /\ w[d].field \in Touched(w[j]) => j <= LastTask(w, d, w[d].field)
PROOF
<1> DEFINE f == w[d].field
           ts == {j \in 1..(d - 1) : IsTask(w[j]) /\ f \in Touched(w[j])}
           b == LastTask(w, d, f)
<1>1. d \in DOMAIN w /\ w[d].kind = "discard" /\ b # 0
  BY DEF Handled
<1>2. DOMAIN w = 1..Len(w) /\ Len(w) \in Nat /\ d \in 1..Len(w)
  BY <1>1, SeqIs
<1>3. b = IF ts = {} THEN 0 ELSE Max(ts)
  BY DEF LastTask
<1>4. ts \in SUBSET (1..(d - 1)) /\ d - 1 \in Nat
  BY <1>2
<1>5. \A j \in ts : j \in 1..(d - 1) /\ IsTask(w[j])
  OBVIOUS
<1>6. \A j \in 1..(d - 1) : IsTask(w[j]) /\ f \in Touched(w[j]) => j \in ts
  OBVIOUS
<1> HIDE DEF ts, b, f
<1>7. b = Max(ts) /\ ts # {}
  BY <1>1, <1>3
<1> DEFINE m == d - 1
<1>8. m \in Nat /\ ts \in SUBSET (1..m)
  BY <1>4
<1> HIDE DEF m
<1>9. b \in ts /\ \A y \in ts : y <= b
  BY <1>7, <1>8, Greatest
<1>10. b \in 1..(d - 1) /\ b \in DOMAIN w /\ IsTask(w[b])
  BY <1>2, <1>5, <1>9
<1>11. \A j \in 1..(d - 1) : IsTask(w[j]) /\ f \in Touched(w[j]) => j <= b
  BY <1>6, <1>9
<1> QED BY <1>1, <1>10, <1>11 DEF b, f

\* What the window holds when discards have been propagated
LEMMA PropagatedAre ==
  ASSUME NEW w, NEW n \in Nat, QueueOK(w, n)
  PROVE  /\ \A u \in Range(PropagateDiscards(w)) :
              \E i \in DOMAIN w \ Handled(w) : Twin(u, w[i]) /\ u.drop = HandedTo(w, i)
         /\ \A i \in DOMAIN w \ Handled(w) :
              \E u \in Range(PropagateDiscards(w)) : Twin(u, w[i]) /\ u.drop = HandedTo(w, i)
PROOF
<1> DEFINE S == DOMAIN w \ Handled(w)
           kept == InOrder(S)
           m == Len(w)
           p == PropagateDiscards(w)
<1>1. m \in Nat /\ S \in SUBSET (1..m) /\ S \subseteq DOMAIN w
  BY SeqIs DEF QueueOK
<1>2. DOMAIN p = DOMAIN kept /\ \A j \in DOMAIN kept : p[j] = [w[kept[j]] EXCEPT !.drop = HandedTo(w, kept[j])]
  BY DEF PropagateDiscards
<1> HIDE DEF S, m
<1>3. \A j \in DOMAIN kept : kept[j] \in S
  BY <1>1, InOrderIs
<1>4. \A i \in S : \E j \in DOMAIN kept : kept[j] = i
  BY <1>1, InOrderAll
<1> HIDE DEF kept, p
<1>5. ASSUME NEW j \in DOMAIN p PROVE kept[j] \in S /\ Twin(p[j], w[kept[j]]) /\ p[j].drop = HandedTo(w, kept[j])
  <2> DEFINE o == w[kept[j]]
             h == HandedTo(w, kept[j])
  <2>1. kept[j] \in S /\ kept[j] \in DOMAIN w
    BY <1>1, <1>2, <1>3
  <2>2. DOMAIN o = OpFields
    BY <2>1 DEF QueueOK, Waits, IsOp
  <2>3. p[j] = [o EXCEPT !.drop = h]
    BY <1>2
  <2> HIDE DEF o, h
  <2>4. Twin(p[j], o) /\ p[j].drop = h
    BY <2>2, <2>3 DEF Twin, OpFields, Plain
  <2> QED BY <2>1, <2>4 DEF o, h
<1>6. \A u \in Range(p) : \E i \in S : Twin(u, w[i]) /\ u.drop = HandedTo(w, i)
  <2>1. ASSUME NEW u \in Range(p) PROVE \E i \in S : Twin(u, w[i]) /\ u.drop = HandedTo(w, i)
    <3>1. PICK j \in DOMAIN p : u = p[j]
      BY <2>1 DEF Range
    <3> QED BY <1>5, <3>1
  <2> QED BY <2>1
<1>7. \A i \in S : \E u \in Range(p) : Twin(u, w[i]) /\ u.drop = HandedTo(w, i)
  <2>1. ASSUME NEW i \in S PROVE \E u \in Range(p) : Twin(u, w[i]) /\ u.drop = HandedTo(w, i)
    <3>1. PICK j \in DOMAIN p : kept[j] = i
      BY <1>2, <1>4
    <3>2. p[j] \in Range(p)
      BY DEF Range
    <3>3. Twin(p[j], w[i]) /\ p[j].drop = HandedTo(w, i)
      BY <1>5, <3>1
    <3> QED BY <3>2, <3>3
  <2> QED BY <2>1
<1> QED BY <1>6, <1>7 DEF S, p

\* A discard that is handed over passes a reader neither way.
Aside(w, f, n) ==
  \A d \in Handled(w) : w[d].field = f => w[d].id < n \/ w[LastTask(w, d, f)].id >= n

\* So what is found stays when discards are propagated.
LEMMA PropagateFinds ==
  ASSUME NEW w, NEW k \in Nat, QueueOK(w, k), NEW m, NEW f, NEW v, NEW n \in Nat, Aside(w, f, n), Finds(Range(w), m, f, v, n)
  PROVE  Finds(Range(PropagateDiscards(w)), m, f, v, n)
PROOF
<1> DEFINE L == Range(w)
           K == Range(PropagateDiscards(w))
           S == DOMAIN w \ Handled(w)
<1>1. IsSeq(w) /\ \A i \in DOMAIN w : w[i].id \in Nat /\ w[i] \in L
  BY DEF QueueOK, Range
<1>2. /\ \A u \in K : \E i \in S : Twin(u, w[i]) /\ u.drop = HandedTo(w, i)
      /\ \A i \in S : \E u \in K : Twin(u, w[i]) /\ u.drop = HandedTo(w, i)
  BY PropagatedAre
<1>3. ASSUME NEW i \in DOMAIN w, f \in HandedTo(w, i)
      PROVE  \E d \in DOMAIN w : /\ Affects(w[d], f) /\ w[i].id < w[d].id
                                 /\ w[d].id < n \/ w[i].id >= n
  <2>1. PICK d \in Handled(w) : w[d].field = f /\ LastTask(w, d, f) = i
    BY <1>3 DEF HandedTo
  <2>2. d \in DOMAIN w /\ w[d].kind = "discard" /\ i \in 1..(d - 1)
    BY <1>1, <2>1, HandedIs
  <2>3. Affects(w[d], f)
    BY <2>1, <2>2 DEF Affects
  <2>4. w[i].id < w[d].id
    <3>1. d \in Nat
      BY <1>1, <2>2, SeqIs
    <3>2. i < d
      BY <2>2, <3>1
    <3> QED BY <2>2, <3>2 DEF QueueOK
  <2>5. w[d].id < n \/ w[i].id >= n
    BY <2>1 DEF Aside
  <2> QED BY <2>2, <2>3, <2>4, <2>5
<1>4. ASSUME NEW y \in L, y.id = v, v < n, Leaves(y, f), \A u \in L : Affects(u, f) /\ u.id < n => u.id <= v
      PROVE  v < n /\ \E x \in K : x.id = v /\ Leaves(x, f)
  <2>1. PICK i \in DOMAIN w : y = w[i]
    BY <1>4 DEF Range
  <2>2. i \in S
    BY <1>1, <1>4, <2>1, HandedIs DEF Leaves
  <2>3. PICK x \in K : Twin(x, w[i]) /\ x.drop = HandedTo(w, i)
    BY <1>2, <2>2
  <2>4. f \notin HandedTo(w, i)
    <3>1. SUFFICES ASSUME f \in HandedTo(w, i) PROVE FALSE
      OBVIOUS
    <3>2. PICK d \in DOMAIN w : Affects(w[d], f) /\ w[i].id < w[d].id /\ (w[d].id < n \/ w[i].id >= n)
      BY <1>3, <3>1
    <3>3. w[d].id \in Nat /\ w[i].id \in Nat /\ w[i].id = v /\ w[d] \in L
      BY <1>1, <1>4, <2>1
    <3>4. w[d].id < n
      BY <1>4, <3>2, <3>3
    <3>5. w[d].id <= v
      BY <1>4, <3>2, <3>3, <3>4
    <3> QED BY <3>2, <3>3, <3>5
  <2>5. x.id = v /\ Leaves(x, f)
    BY <1>4, <2>1, <2>3, <2>4 DEF Twin, Leaves
  <2> QED BY <1>4, <2>3, <2>5
<1>5. ASSUME NEW u \in K, Affects(u, f), u.id < n PROVE \E y \in L : Affects(y, f) /\ y.id < n /\ u.id <= y.id
  <2>1. PICK i \in S : Twin(u, w[i]) /\ u.drop = HandedTo(w, i)
    BY <1>2, <1>5
  <2>2. i \in DOMAIN w /\ u.id = w[i].id /\ w[i].id \in Nat
    BY <1>1, <2>1 DEF Twin
  <2>3. CASE f \in u.drop
    <3>1. PICK d \in DOMAIN w : Affects(w[d], f) /\ w[i].id < w[d].id /\ (w[d].id < n \/ w[i].id >= n)
      BY <1>3, <2>1, <2>2, <2>3
    <3>2. w[d].id \in Nat /\ w[d] \in L
      BY <1>1
    <3>3. w[d].id < n /\ u.id <= w[d].id
      BY <1>5, <2>2, <3>1, <3>2
    <3> QED BY <3>1, <3>2, <3>3
  <2>4. CASE f \notin u.drop
    <3>1. Affects(w[i], f)
      BY <1>5, <2>1, <2>4 DEF Affects, Twin
    <3>2. w[i] \in L /\ w[i].id < n /\ u.id <= w[i].id
      BY <1>1, <1>5, <2>2
    <3> QED BY <3>1, <3>2
  <2> QED BY <2>3, <2>4
<1>6. \A u \in L : u.id \in Nat
  BY <1>1 DEF Range
<1>7. \A u \in K : u.id \in Nat
  BY <1>1, <1>2 DEF Twin
<1>8. \A y \in L : y.id = v /\ v < n /\ Leaves(y, f) /\ (\A u \in L : Affects(u, f) /\ u.id < n => u.id <= v)
        => v < n /\ \E x \in K : x.id = v /\ Leaves(x, f)
  BY <1>4
<1>9. \A u \in K : Affects(u, f) /\ u.id < n => \E y \in L : Affects(y, f) /\ y.id < n /\ u.id <= y.id
  BY <1>5
<1> HIDE DEF L, K, S
<1>10. Finds(L, m, f, v, n)
  BY DEF L
<1>11. Finds(K, m, f, v, n)
  BY <1>6, <1>7, <1>8, <1>9, <1>10, FindsStays
<1> QED BY <1>11 DEF K

\* Discards are propagated past no task that touches the field, and past no store of the program.
LEMMA PropagateReads ==
  ASSUME IInv, FlowOK, LineOK, Line = Range(window)
  PROVE  /\ TasksFind(Range(PropagateDiscards(window)), mem)
         /\ StoresFind(Range(PropagateDiscards(window)), mem, alive, wr, ids + 2)
         /\ \A u \in Range(PropagateDiscards(window)) : Lean(u)
PROOF
<1> DEFINE w == window
           K == Range(PropagateDiscards(w))
           S == DOMAIN w \ Handled(w)
<1>1. QueueOK(w, ids) /\ ids \in Nat /\ IsSeq(w)
  BY DEF IInv, DataOK, WindowOK, QueueOK
<1>2. \A u \in K : \E i \in S : Twin(u, w[i]) /\ u.drop = HandedTo(w, i)
  BY <1>1, PropagatedAre
<1>3. \A i \in DOMAIN w : w[i].id \in Nat /\ w[i].id <= ids /\ w[i] \in Line
  BY <1>1 DEF QueueOK, Range
<1>4. DOMAIN w = 1..Len(w) /\ Len(w) \in Nat
  BY <1>1, SeqIs
<1> HIDE DEF w, K, S
<1>5. ASSUME NEW r \in K, IsTask(r), NEW f \in r.in \cup r.red PROVE Finds(K, mem, f, r.src[f], r.id)
  <2>1. PICK i \in S : Twin(r, w[i]) /\ r.drop = HandedTo(w, i)
    BY <1>2, <1>5
  <2>2. i \in DOMAIN w /\ IsTask(w[i]) /\ f \in w[i].in \cup w[i].red /\ r.src[f] = w[i].src[f] /\ r.id = w[i].id
        /\ f \in Touched(w[i])
    BY <1>5, <2>1 DEF S, Twin, IsTask, Touched
  <2>3. Finds(Range(w), mem, f, w[i].src[f], w[i].id)
    BY <1>3, <2>2 DEF FlowOK, TasksFind, w
  <2>4. ASSUME NEW d \in Handled(w), w[d].field = f
        PROVE  w[d].id < w[i].id \/ w[LastTask(w, d, f)].id >= w[i].id
    <3> DEFINE b == LastTask(w, d, f)
    <3>1. /\ d \in DOMAIN w /\ w[d].kind = "discard" /\ b \in 1..(d - 1) /\ b \in DOMAIN w
          /\ \A j \in 1..(d - 1) : IsTask(w[j]) /\ f \in Touched(w[j]) => j <= b
      BY <1>1, <2>4, HandedIs
    <3> HIDE DEF b
    <3>2. i # d
      BY <2>2, <3>1 DEF IsTask
    <3>3. CASE d < i
      BY <1>1, <2>2, <3>1, <3>3 DEF QueueOK
    <3>4. CASE i < d
      <4>1. i \in 1..(d - 1)
        BY <1>4, <2>2, <3>1, <3>4
      <4>2. i <= b
        BY <2>2, <3>1, <4>1
      <4>3. i = b \/ i < b
        BY <1>4, <2>2, <3>1, <4>2
      <4>4. w[i].id <= w[b].id
        <5>1. i < b => w[i].id < w[b].id
          BY <1>1, <2>2, <3>1 DEF QueueOK
        <5>2. w[i].id \in Nat /\ w[b].id \in Nat
          BY <1>3, <2>2, <3>1
        <5> QED BY <4>3, <5>1, <5>2
      <4>5. w[i].id \in Nat /\ w[b].id \in Nat
        BY <1>3, <2>2, <3>1
      <4> QED BY <4>4, <4>5 DEF b
    <3>5. d < i \/ i < d
      BY <1>4, <2>2, <3>1, <3>2
    <3> QED BY <3>3, <3>4, <3>5
  <2> DEFINE n == w[i].id
             v == w[i].src[f]
  <2>5. n \in Nat /\ Aside(w, f, n) /\ Finds(Range(w), mem, f, v, n)
    BY <1>3, <2>2, <2>3, <2>4 DEF Aside
  <2> HIDE DEF n, v
  <2>6. Finds(Range(PropagateDiscards(w)), mem, f, v, n)
    BY <1>1, <2>5, PropagateFinds
  <2> QED BY <2>2, <2>6 DEF n, v, K
<1>6. ASSUME NEW f \in alive, wr[f] # 0 PROVE Finds(K, mem, f, wr[f], ids + 2)
  <2> DEFINE n == ids + 2
             v == wr[f]
  <2>1. n \in Nat /\ \A d \in DOMAIN w : w[d].id < n
    BY <1>1, <1>3
  <2>2. Aside(w, f, n)
    BY <2>1, <1>1, HandedIs DEF Aside
  <2>3. Finds(Range(w), mem, f, v, n)
    BY <1>6 DEF FlowOK, StoresFind, w
  <2> HIDE DEF n, v
  <2>4. Finds(Range(PropagateDiscards(w)), mem, f, v, n)
    BY <1>1, <2>1, <2>2, <2>3, PropagateFinds
  <2> QED BY <2>4 DEF n, v, K
<1>7. ASSUME NEW u \in K PROVE Lean(u)
  <2>1. PICK i \in S : Twin(u, w[i]) /\ u.drop = HandedTo(w, i)
    BY <1>2
  <2>2. i \in DOMAIN w /\ Lean(w[i])
    BY <1>3 DEF S, LineOK
  <2>3. w[i].kind = "fence" => HandedTo(w, i) = {}
    <3>1. SUFFICES ASSUME w[i].kind = "fence", NEW f \in HandedTo(w, i) PROVE FALSE
      OBVIOUS
    <3>2. PICK d \in Handled(w) : LastTask(w, d, w[d].field) = i
      BY <3>1 DEF HandedTo
    <3>3. IsTask(w[i])
      BY <1>1, <3>2, HandedIs
    <3> QED BY <3>1, <3>3 DEF IsTask
  <2> QED BY <2>1, <2>2, <2>3 DEF Lean, Twin, Strategic
<1>8. TasksFind(K, mem) /\ StoresFind(K, mem, alive, wr, ids + 2)
  BY <1>5, <1>6 DEF TasksFind, StoresFind
<1> QED BY <1>7, <1>8 DEF K, w

\* A flush begins.
LEMMA FlushReads ==
  ASSUME IInv, FlowOK, LineOK, DoFlush
  PROVE  FlowOK' /\ LineOK'
PROOF
<1>1. /\ stack # <<>> /\ Top.c = "flush" /\ ~At("new") /\ mem' = mem /\ alive' = alive /\ ids' = ids
  BY DEF DoFlush, At, dataVars
<1>2. Line = Range(window) /\ Behind(stack) = {} /\ ids \in Nat
  BY <1>1, BehindIdle DEF IInv, DataOK
<1>3. StackFrom /\ (window' = window \/ window' = <<>> \/ window' = PropagateDiscards(window))
  BY FlushFrom
<1>4. Line' = Range(window')
  BY <1>1, <1>2, <1>3, BehindFrom DEF Line
<1>5. \/ wr' = wr /\ (window' = window \/ window' = PropagateDiscards(window))
      \/ wr' = mem /\ window' = <<>>
  BY DEF DoFlush, Throw, ClearedOnThrow
<1>6. \A j \in DOMAIN stack : Range(stack[j].ops) = {}
  <2>1. \A j \in DOMAIN stack : ItemLine(stack[j]) = {}
    BY <1>2 DEF Behind
  <2> QED BY <2>1 DEF ItemLine
<1>7. \A j \in DOMAIN stack : \A k \in DOMAIN stack[j].ops : FALSE
  <2>1. \A j \in DOMAIN stack : \A k \in DOMAIN stack[j].ops : stack[j].ops[k] \in Range(stack[j].ops)
    BY DEF Range
  <2> QED BY <1>6, <2>1
<1>8. ASSUME \A u \in Line' : u \in Line \/ Lean(u) PROVE LineOK'
  BY <1>1, <1>2, <1>3, <1>7, <1>8, LineFrom DEF StackFrom
<1>9. CASE wr' = wr /\ window' = window
  <2>1. Line' = Line
    BY <1>2, <1>4, <1>9
  <2>2. FlowOK'
    BY <1>1, <1>9, <2>1 DEF FlowOK
  <2> QED BY <1>8, <2>1, <2>2
<1>10. CASE wr' = wr /\ window' = PropagateDiscards(window)
  <2> DEFINE K == Range(PropagateDiscards(window))
  <2>1. Line' = K
    BY <1>4, <1>10
  <2>2. TasksFind(K, mem) /\ StoresFind(K, mem, alive, wr, ids + 2) /\ \A u \in K : Lean(u)
    BY <1>2, PropagateReads
  <2> HIDE DEF K
  <2>3. TasksFind(Line', mem') /\ StoresFind(Line', mem', alive', wr', ids' + 2)
    BY <1>1, <1>10, <2>1, <2>2
  <2> QED BY <1>8, <2>1, <2>2, <2>3 DEF FlowOK
<1>11. CASE wr' = mem /\ window' = <<>>
  <2>1. Line' = {}
    BY <1>4, <1>11, BehindNothing
  <2>2. TasksFind(Line', mem') /\ StoresFind(Line', mem', alive', mem', ids' + 2)
    BY <2>1, NothingFound
  <2>3. TasksFind(Line', mem') /\ StoresFind(Line', mem', alive', wr', ids' + 2)
    BY <1>1, <1>11, <2>2
  <2> QED BY <1>8, <2>1, <2>3 DEF FlowOK
<1> QED BY <1>5, <1>9, <1>10, <1>11

\* What is launched reads what program order says, and so it stays.
ReadsOK == FlowOK /\ LineOK /\ FreshOK

\* It is an inductive invariant.
LEMMA ReadsKept ==
  ASSUME IInv, AgreeOK, ReadsOK, [Next]_vars
  PROVE  ReadsOK'
PROOF
<1>1. FlowOK /\ LineOK /\ FreshOK
  BY DEF ReadsOK
<1>2. ASSUME log' = log, FlowOK' /\ LineOK' PROVE ReadsOK'
  BY <1>1, <1>2 DEF ReadsOK, FreshOK
<1>3. CASE OtherSteps
  <2>1. FlowOK' /\ LineOK'
    <3>1. CASE NewStore
      BY <1>1, <3>1, NewStoreReads
    <3>2. CASE ~NewStore
      BY <1>1, <1>3, <3>2, OthersReads
    <3> QED BY <3>1, <3>2
  <2> QED BY <1>2, <1>3, <2>1, OthersFrom
<1>4. CASE DoSubmit
  BY <1>1, <1>2, <1>4, SubmitReads, SubmitFrom
<1>5. CASE DoFlush
  BY <1>1, <1>2, <1>5, FlushReads, FlushFrom
<1>6. CASE Extract
  BY <1>1, <1>2, <1>6, ExtractReads, ExtractFrom
<1>7. CASE Run
  BY <1>1, <1>7, RunReads DEF ReadsOK
<1>8. CASE RunPrefix
  BY <1>1, <1>8, RunPrefixReads DEF ReadsOK
<1>9. ASSUME NEW t \in Tasks, Call(t) PROVE ReadsOK'
  BY <1>1, <1>2, <1>9, CallReads, CallFrom
<1> QED BY <1>3, <1>4, <1>5, <1>6, <1>7, <1>8, <1>9, Steps

\* Nothing waits at the start, and nothing has been launched.
LEMMA ReadsStart == Init => ReadsOK
PROOF
<1> SUFFICES ASSUME Init PROVE ReadsOK
  OBVIOUS
<1>1. DOMAIN <<>> = {} /\ stack = <<>> /\ window = <<>> /\ log = <<>> /\ alive = {}
  BY ShortSeqs, SeqIs DEF Init
<1>2. Line = {}
  BY <1>1, BehindNothing DEF Line
<1>3. FlowOK
  BY <1>1, <1>2 DEF FlowOK, TasksFind, StoresFind
<1>4. LineOK
  BY <1>1, <1>2 DEF LineOK
<1>5. FreshOK
  BY <1>1 DEF FreshOK
<1> QED BY <1>3, <1>4, <1>5 DEF ReadsOK

-----------------------------------------------------------------------------
(* Theorems *)

\* What is left of a prefix agrees on the partitions of the stores it shares, whatever calls interrupt
\* its launch (extract_streamable_prefix, DependencyChecker).
THEOREM PrefixesAgree == Spec => []AgreeOK
PROOF
<1>1. Init => AgreeOK /\ IInv
  BY AgreeStarts, Starts
<1>2. IInv /\ AgreeOK /\ [Next]_vars => IInv' /\ AgreeOK'
  BY AgreeKept, Keeps
<1> QED BY <1>1, <1>2, PTL DEF Spec

\* What waits to be launched over-decomposes as the current scope does,
\* since a scope flushes the window before the policy changes (Scope::set_parallel_policy).
THEOREM PolicyIsKept == Spec => []OnePolicy
PROOF
<1>1. Init => OnePolicy /\ IInv
  BY OnePolicyStarts, Starts
<1>2. IInv /\ OnePolicy /\ [Next]_vars => IInv' /\ OnePolicy'
  BY OnePolicyKept, Keeps
<1> QED BY <1>1, <1>2, PTL DEF Spec

\* What is checked, and what is launched of a generation
CInv == AgreeOK /\ OnePolicy /\ CheckedOK /\ FollowOK

\* It is an invariant unless an unbound store has volume 1.
THEOREM ChecksHold ==
  ASSUME ScalarsWhole, Scalars \cap Unbound = {} PROVE Spec => [](IInv /\ CInv)
PROOF
<1>1. Init => IInv /\ CInv
  BY Starts, AgreeStarts, OnePolicyStarts, CheckedStarts, FollowStarts DEF CInv
<1>2. IInv /\ CInv /\ [Next]_vars => IInv' /\ CInv'
  BY Keeps, AgreeKept, OnePolicyKept, CheckedKept, FollowKept DEF CInv
<1> QED BY <1>1, <1>2, PTL DEF Spec

\* No task of a generation reads or writes what an earlier one reduces to, even if tasks make unbound
\* stores (DependencyChecker::analyze_reductions_).
THEOREM ReductionsStayLast ==
  ASSUME ScalarsWhole, Scalars \cap Unbound = {} PROVE Spec => []ReductionsLast
PROOF
<1>1. CInv => ReductionsLast
  <2> SUFFICES ASSUME FollowOK PROVE ReductionsLast
    BY DEF CInv
  <2>1. \A g \in 1..gens : \A i \in IndexTasks(g) : i \in DOMAIN log /\ log[i].gen = g /\ g # 0 /\ log[i].form = "index"
    BY DEF IndexTasks, InGeneration
  <2>2. \A g \in 1..gens : \A i, j \in IndexTasks(g) : i < j => Streamed(log[i], log[j])
    BY <2>1 DEF FollowOK
  <2> QED BY <2>1, <2>2 DEF ReductionsLast, Streamed
<1> QED BY <1>1, ChecksHold, PTL

\* The partitions that a prefix was checked with are those it is launched with, although launching sets
\* key partitions (get_strategy, schedule_).
THEOREM LaunchedAsChecked ==
  ASSUME ScalarsWhole, Scalars \cap Unbound = {} PROVE Spec => []CheckedIsLaunched
PROOF
<1>1. CInv => CheckedIsLaunched
  BY DEF CInv, CheckedOK
<1> QED BY <1>1, ChecksHold, PTL

\* So two index tasks of a generation access a store through one partition: they depend on each other
\* point by point (DependencyChecker).
THEOREM StreamsPointwise ==
  ASSUME ScalarsWhole, Scalars \cap Unbound = {} PROVE Spec => []PointwiseStores
PROOF
<1>1. CInv => PointwiseStores
  <2> SUFFICES ASSUME FollowOK PROVE PointwiseStores
    BY DEF CInv
  <2>1. \A g \in 1..gens : \A i \in IndexTasks(g) : i \in DOMAIN log /\ log[i].gen = g /\ g # 0 /\ log[i].form = "index"
    BY DEF IndexTasks, InGeneration
  <2>2. \A g \in 1..gens : \A i, j \in IndexTasks(g) : i < j => Streamed(log[i], log[j])
    BY <2>1 DEF FollowOK
  <2> QED BY <2>1, <2>2 DEF PointwiseStores, Streamed
<1> QED BY <1>1, ChecksHold, PTL

\* A generation has as many index tasks as each of them says, so the mapper does not wait for ever,
\* if no automatic task may turn out to be a single one (process_streaming_run, get_generation_size).
THEOREM GenerationsComplete ==
  ASSUME ScalarsWhole, AutosIndexed, Scalars \cap Unbound = {} PROVE Spec => []GenerationComplete
PROOF
<1>1. Spec => [](IInv /\ CInv)
  BY ChecksHold
<1>2. Init => GroupsOK
  BY GroupsStart
<1>3. IInv /\ CInv /\ GroupsOK /\ [Next]_vars => GroupsOK'
  BY GroupsKept DEF CInv
<1>4. IInv /\ GroupsOK => GenerationComplete
  <2> SUFFICES ASSUME IInv, GroupsOK, stack = <<>>, NEW g \in 1..gens, NEW i \in IndexTasks(g)
               PROVE  Cardinality(IndexTasks(g)) = log[i].size
    BY DEF GenerationComplete
  <2>1. NoPrefix(stack)
    BY ShortSeqs, SeqIs DEF NoPrefix
  <2>2. Group(log, g, <<>>)
    BY <2>1 DEF GroupsOK
  <2>3. Launched(log, g) = InGeneration(g)
    BY DEF Launched, InGeneration
  <2>4. PICK form \in {"index", "single"} :
           \A k \in InGeneration(g) : log[k].form = form /\ log[k].size = Cardinality(Members(<<>>)) + Cardinality(InGeneration(g))
    BY <2>2, <2>3 DEF Group, Alone
  <2>5. i \in InGeneration(g) /\ log[i].form = "index"
    BY DEF IndexTasks
  <2>6. IndexTasks(g) = InGeneration(g)
    BY <2>4, <2>5 DEF IndexTasks
  <2>7. Cardinality(Members(<<>>)) = 0
    BY CountsAre
  <2>8. Cardinality(InGeneration(g)) \in Nat
    BY <2>3, CountsAre DEF IInv, LogOK
  <2> QED BY <2>4, <2>5, <2>6, <2>7, <2>8
<1> QED BY <1>1, <1>2, <1>3, <1>4, PTL DEF Spec

\* No operation but a task reads: the program copies nothing.
OnlyTasksRead == \A t \in Tasks : IsTask(t) \/ t.in \cup t.red = {}

\* What a task reads when it is launched is what was written last in program order.
TasksFresh == \A i \in DOMAIN log : log[i].form \in {"index", "single"} => log[i].fresh

\* Whoever waits to be launched will find what it should: whoever wrote it last waits in front of it, or
\* has been launched and nobody is in between (forward_propagate_discards, flush_scheduling_window).
THEOREM ReadsWait == Spec => [](IInv /\ ReadsOK)
PROOF
<1>1. Init => IInv /\ AgreeOK /\ ReadsOK
  BY Starts, AgreeStarts, ReadsStart
<1>2. IInv /\ AgreeOK /\ ReadsOK /\ [Next]_vars => IInv' /\ AgreeOK' /\ ReadsOK'
  BY Keeps, AgreeKept, ReadsKept
<1> QED BY <1>1, <1>2, PTL DEF Spec

\* So tasks read what program order says, whatever else the program does: no discard is launched before
\* a task that reads the field, nor does a prefix overtake another (forward_propagate_discards).
THEOREM TasksReadFresh == Spec => []TasksFresh
PROOF
<1>1. ReadsOK => TasksFresh
  <2> SUFFICES ASSUME FreshOK, NEW i \in DOMAIN log, log[i].form \in {"index", "single"} PROVE log[i].fresh
    BY DEF ReadsOK, TasksFresh
  <2>1. \A t \in Tasks : t.kind # log[i].form
    BY TasksAssumption
  <2> QED BY <2>1 DEF FreshOK
<1> QED BY <1>1, ReadsWait, PTL

\* If only tasks read, whatever is launched read what program order says. A copy may read too late: a
\* discard goes to the last task in front of it, which may stand in front of the copy
\* (maybe_update_task_discards).
THEOREM ReadsAreFresh == ASSUME OnlyTasksRead PROVE Spec => []ReadsSurvive
PROOF
<1>1. ReadsOK => ReadsSurvive
  BY DEF ReadsOK, FreshOK, OnlyTasksRead, ReadsSurvive
<1> QED BY <1>1, ReadsWait, PTL
=============================================================================
