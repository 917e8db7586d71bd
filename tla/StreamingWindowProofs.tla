----------------------- MODULE StreamingWindowProofs -----------------------
(***************************************************************************)
(* Generations are launched one after the other with a fence in between,   *)
(* and a strict scope streams as one group, for any fields, tasks, policies *)
(* and window size; and on a single rank no second exception is thrown      *)
(* while one passes.                                                        *)
(*                                                                          *)
(* The argument is about the stack of a call: whatever interrupts a prefix  *)
(* that is being launched only frees fields, so it neither flushes nor      *)
(* changes the policy, and no other prefix is cut off until this one is     *)
(* launched up to its fence.                                                *)
(***************************************************************************)
EXTENDS StreamingWindow, FiniteSetTheorems, WellFoundedInduction, TLAPS

IsSeq(s) == s \in Seq(Range(s))

OpFields == DOMAIN Plain("none")
ItemFields == DOMAIN Item("none")
ItemKinds == {"submit", "flush", "run", "stream", "match", "process", "matched", "issue",
              "reuse", "detached", "new", "enter", "leave"}

\* Who flushes; a strict scope names it when it throws.
Causes == {"op", "match", "reuse", "scope"}

\* An operation
IsOp(op) == DOMAIN op = OpFields /\ op.kind \in Kinds /\ Touched(op) \subseteq Fields

\* One that has no generation yet
Waits(op) == IsOp(op) /\ op.gen = 0

\* What is left of a prefix, when n operations have been created and g generations assigned
PrefixOK(ops, n, g) ==
  /\ IsSeq(ops)
  /\ \A i \in DOMAIN ops : /\ IsOp(ops[i]) /\ ops[i].id \in 1..n
                           /\ ops[i].gen \in {0, g} /\ (ops[i].gen # 0 => IsTask(ops[i]))
  /\ ops # <<>> => ops[Len(ops)].kind = "fence"

ItemOK(x, n, g) ==
  /\ DOMAIN x = ItemFields /\ x.c \in ItemKinds
  /\ x.c = "submit" => Waits(x.op)
  /\ x.c = "flush" => x.by \in Causes
  /\ x.c = "enter" => x.pol \in Policies \cup {Off}
  /\ x.c \in {"reuse", "detached", "new"} => x.field \in Fields
  /\ IF x.c = "stream" THEN PrefixOK(x.ops, n, g) ELSE x.ops = <<>>

\* What may interrupt a prefix: an operation that does not flush
Harmless(x) == x.c = "submit" /\ ~x.op.flush /\ ~IsTask(x.op)

\* Item x may be in front of y.
Before(x, y) ==
  /\ x.c # "new"
  /\ y.c = "stream" => Harmless(x)
  /\ y.c = "run" => x.c \notin {"enter", "leave"}
  /\ y.c = "leave" => x.c # "leave"
  /\ y.c = "submit" => y.op.id = 0

InOrderOf(s) == \A i \in DOMAIN s : \A j \in 1..(i - 1) : Before(s[j], s[i])

\* A flush follows the policy that it began under.
Fits(x, pol) == (x.c = "run" => ~Streaming(pol)) /\ (x.c = "stream" => Streaming(pol))

\* A scope that is ended has begun.
LeavesOK(s, scps) ==
  \A i \in DOMAIN s : s[i].c = "leave" => Len(scps) > 1 \/ \E j \in 1..(i - 1) : s[j].c = "enter"

ItemsOK(s, n, g, pol) == \A i \in DOMAIN s : ItemOK(s[i], n, g) /\ Fits(s[i], pol)

\* The item in front may have the id that comes next.
FrontOK(s, n) == s # <<>> /\ s[1].c = "submit" => s[1].op.id \in {0, n + 1}

CallOK(s, n, g, scps) ==
  /\ IsSeq(s) /\ ItemsOK(s, n, g, Last(scps)) /\ InOrderOf(s)
  /\ FrontOK(s, n) /\ LeavesOK(s, scps)

StackOK == CallOK(stack, ids, gens, scopes)

\* A prefix is being launched.
Launches(x) == x.c = "stream" /\ x.ops # <<>>
LaunchingIn(s) == \E i \in DOMAIN s : Launches(s[i])
Launching == LaunchingIn(stack)

\* What may wait in the window when n operations have been created
QueueOK(w, n) ==
  /\ IsSeq(w)
  /\ \A i \in DOMAIN w : Waits(w[i]) /\ w[i].id \in 1..n
  /\ \A i, j \in DOMAIN w : i < j => w[i].id < w[j].id

WindowOK ==
  /\ QueueOK(window, ids)
  /\ Launching /\ Policy.mode = "strict" => \A i \in DOMAIN window : ~IsTask(window[i])

LogOK ==
  /\ IsSeq(log)
  /\ FencedGenerations
  /\ \A i \in DOMAIN log : log[i].gen \in 0..gens
  /\ \A i \in DOMAIN log : log[i].gen # 0
       => (\E k \in (i + 1)..Len(log) : log[k].form = "fence") \/ (log[i].gen = gens /\ Launching)

DataOK ==
  /\ IsSeq(scopes) /\ scopes # <<>> /\ \A i \in DOMAIN scopes : scopes[i] \in Policies \cup {Off}
  /\ alive \subseteq Fields /\ region \subseteq Fields
  /\ ids \in Nat /\ gens \in Nat
  /\ wr \in [Fields -> 0..(ids + 1)] /\ mem \in [Fields -> 0..ids]
  /\ credit \in 0..Freq /\ outstanding \in BOOLEAN

IInv == DataOK /\ StackOK /\ WindowOK /\ LogOK

\* On a single rank: while an exception passes, only scopes are ended, each with a fence.
IsFence(op) == op.kind = "fence" /\ op.out = {} /\ ~op.flush

Passes(x) ==
  /\ x.c \in {"enter", "leave", "submit", "match", "flush", "run", "stream"}
  /\ x.c = "submit" => IsFence(x.op)
  /\ x.c = "stream" => \A k \in DOMAIN x.ops : IsFence(x.ops[k])

Flushes(x) == x.c \in {"flush", "stream"} \/ (x.c = "run" /\ x.n = 1)

\* Nothing that is left to do can throw: the fence of a scope's end is alone in the window,
\* and the flush that follows takes it out.
Quiet(s, w, pol) ==
  /\ \A i \in DOMAIN s : Passes(s[i])
  /\ \A i \in DOMAIN s : s[i].c = "submit"
       => /\ w = <<>> /\ \A j \in 1..(i - 1) : s[j].c = "enter"
          /\ \E k \in DOMAIN s : i < k /\ s[k].c = "flush"
  /\ \A i \in DOMAIN s : s[i].c = "flush" /\ s[i].by # "scope" => i = 1 /\ ~Streaming(pol)
  /\ Len(w) <= 1 /\ \A k \in DOMAIN w : IsFence(w[k])
  /\ w # <<>> => \E i \in DOMAIN s : Flushes(s[i])

Calm ==
  /\ exc # "terminated"
  /\ exc \in Deaths => stack = <<>>
  /\ exc \notin {"none"} \cup Deaths => Quiet(stack, window, Policy)

-----------------------------------------------------------------------------
(* Sequences *)

\* A sequence over any set is one over its own elements.
LEMMA SeqOver == ASSUME NEW S, NEW s \in Seq(S) PROVE IsSeq(s)
PROOF
<1>1. Len(s) \in Nat /\ DOMAIN s = 1..Len(s)
  OBVIOUS
<1>2. s = [i \in 1..Len(s) |-> s[i]]
  OBVIOUS
<1>3. \A i \in 1..Len(s) : s[i] \in Range(s)
  BY <1>1 DEF Range
<1>4. [i \in 1..Len(s) |-> s[i]] \in Seq(Range(s))
  BY <1>1, <1>3
<1> QED BY <1>2, <1>4 DEF IsSeq

\* What a sequence is
LEMMA SeqIs ==
  ASSUME NEW s, IsSeq(s)
  PROVE  /\ Len(s) \in Nat /\ DOMAIN s = 1..Len(s) /\ (s = <<>> <=> Len(s) = 0)
         /\ s # <<>> => Head(s) = s[1] /\ 1 \in DOMAIN s /\ Len(s) \in DOMAIN s
BY DEF IsSeq

\* A function on a beginning of the naturals is one.
LEMMA SeqMade ==
  ASSUME NEW n \in Nat, NEW s, DOMAIN s = 1..n, s = [i \in 1..n |-> s[i]]
  PROVE  IsSeq(s) /\ Len(s) = n
PROOF
<1>1. \A i \in 1..n : s[i] \in Range(s)
  BY DEF Range
<1>2. [i \in 1..n |-> s[i]] \in Seq(Range(s)) /\ Len([i \in 1..n |-> s[i]]) = n
  BY <1>1
<1> QED BY <1>2 DEF IsSeq

\* The rest of a sequence
LEMMA TailIs ==
  ASSUME NEW s, IsSeq(s), s # <<>>
  PROVE  /\ IsSeq(Tail(s)) /\ Len(Tail(s)) = Len(s) - 1
         /\ \A i \in DOMAIN Tail(s) : Tail(s)[i] = s[i + 1] /\ i + 1 \in DOMAIN s
PROOF
<1>1. Tail(s) \in Seq(Range(s)) /\ Len(Tail(s)) = Len(s) - 1
  BY DEF IsSeq
<1>2. \A i \in DOMAIN Tail(s) : Tail(s)[i] = s[i + 1] /\ i + 1 \in DOMAIN s
  BY DEF IsSeq
<1> QED BY <1>1, <1>2, SeqOver

\* One more element
LEMMA AppendIs ==
  ASSUME NEW s, IsSeq(s), NEW e
  PROVE  /\ IsSeq(Append(s, e)) /\ Len(Append(s, e)) = Len(s) + 1
         /\ \A i \in DOMAIN s : Append(s, e)[i] = s[i]
         /\ Append(s, e)[Len(s) + 1] = e
         /\ DOMAIN Append(s, e) = DOMAIN s \cup {Len(s) + 1}
PROOF
<1> DEFINE S == Range(s) \cup {e}
<1>1. s \in Seq(S)
  BY DEF IsSeq
<1>2. Append(s, e) \in Seq(S)
  BY <1>1
<1> HIDE DEF S
<1>3. IsSeq(Append(s, e))
  BY <1>2, SeqOver
<1> QED BY <1>1, <1>3, <1>2

\* One sequence in front of another
LEMMA ConcatIs ==
  ASSUME NEW s, NEW t, IsSeq(s), IsSeq(t)
  PROVE  /\ IsSeq(s \o t) /\ Len(s \o t) = Len(s) + Len(t)
         /\ \A i \in DOMAIN s : (s \o t)[i] = s[i]
         /\ \A i \in DOMAIN t : (s \o t)[Len(s) + i] = t[i]
         /\ \A i \in DOMAIN (s \o t) : i \in DOMAIN s \/ (i - Len(s) \in DOMAIN t /\ i = Len(s) + (i - Len(s)))
PROOF
<1> DEFINE S == Range(s) \cup Range(t)
<1>1. s \in Seq(S) /\ t \in Seq(S)
  BY DEF IsSeq
<1> HIDE DEF S
<1>2. s \o t \in Seq(S) /\ Len(s \o t) = Len(s) + Len(t)
  BY <1>1
<1>3. IsSeq(s \o t)
  BY <1>2, SeqOver
<1>4. \A i \in DOMAIN s : (s \o t)[i] = s[i]
  BY <1>1
<1>5. \A i \in DOMAIN t : (s \o t)[Len(s) + i] = t[i]
  BY <1>1
<1>6. \A i \in DOMAIN (s \o t) : i \in DOMAIN s \/ (i - Len(s) \in DOMAIN t /\ i = Len(s) + (i - Len(s)))
  BY <1>1, <1>2
<1> QED BY <1>2, <1>3, <1>4, <1>5, <1>6

\* A part of a sequence
LEMMA SubSeqIs ==
  ASSUME NEW s, IsSeq(s), NEW m \in 1..(Len(s) + 1), NEW n \in 0..Len(s), m <= n + 1
  PROVE  /\ IsSeq(SubSeq(s, m, n)) /\ Len(SubSeq(s, m, n)) = n - m + 1
         /\ \A i \in DOMAIN SubSeq(s, m, n) : SubSeq(s, m, n)[i] = s[m + i - 1] /\ m + i - 1 \in DOMAIN s
PROOF
<1>1. SubSeq(s, m, n) \in Seq(Range(s)) /\ Len(SubSeq(s, m, n)) = n - m + 1
  BY DEF IsSeq
<1>2. \A i \in DOMAIN SubSeq(s, m, n) : SubSeq(s, m, n)[i] = s[m + i - 1] /\ m + i - 1 \in DOMAIN s
  BY DEF IsSeq
<1> QED BY <1>1, <1>2, SeqOver

\* Short ones
LEMMA ShortSeqs ==
  /\ IsSeq(<<>>) /\ Len(<<>>) = 0
  /\ \A e : IsSeq(<<e>>) /\ Len(<<e>>) = 1 /\ <<e>>[1] = e
  /\ \A e, f : IsSeq(<<e, f>>) /\ Len(<<e, f>>) = 2 /\ <<e, f>>[1] = e /\ <<e, f>>[2] = f
PROOF
<1>1. IsSeq(<<>>) /\ Len(<<>>) = 0
  BY DEF IsSeq
<1>2. ASSUME NEW e PROVE IsSeq(<<e>>) /\ Len(<<e>>) = 1 /\ <<e>>[1] = e
  <2>1. <<e>> \in Seq({e})
    OBVIOUS
  <2> QED BY <2>1, SeqOver
<1>3. ASSUME NEW e, NEW f PROVE IsSeq(<<e, f>>) /\ Len(<<e, f>>) = 2 /\ <<e, f>>[1] = e /\ <<e, f>>[2] = f
  <2>1. <<e, f>> \in Seq({e, f})
    OBVIOUS
  <2> QED BY <2>1, SeqOver
<1> QED BY <1>1, <1>2, <1>3

-----------------------------------------------------------------------------
(* Operations and items *)

\* An operation that accesses nothing
LEMMA PlainIs ==
  ASSUME NEW kind
  PROVE  /\ DOMAIN Plain(kind) = OpFields /\ Plain(kind).kind = kind /\ Touched(Plain(kind)) = {}
         /\ Plain(kind).out = {} /\ Plain(kind).gen = 0 /\ Plain(kind).id = 0 /\ Plain(kind).flush = FALSE
BY DEF Plain, OpFields, Touched

\* The same operation, up to what its submission and its check give it
SameOp(o, op) == /\ DOMAIN o = OpFields /\ o.kind = op.kind /\ Touched(o) = Touched(op)
                 /\ o.flush = op.flush /\ o.out = op.out

\* An operation stays the same when it gets its id, its discards, its strategy or its field.
LEMMA OpWith ==
  ASSUME NEW op, DOMAIN op = OpFields, NEW x
  PROVE  /\ SameOp([op EXCEPT !.id = x], op) /\ [op EXCEPT !.id = x].gen = op.gen
         /\ [op EXCEPT !.id = x].id = x
         /\ SameOp([op EXCEPT !.drop = x], op) /\ [op EXCEPT !.drop = x].gen = op.gen
         /\ [op EXCEPT !.drop = x].id = op.id
         /\ SameOp([op EXCEPT !.checked = x], op) /\ [op EXCEPT !.checked = x].gen = op.gen
         /\ [op EXCEPT !.checked = x].id = op.id
         /\ SameOp([op EXCEPT !.field = x], op) /\ [op EXCEPT !.field = x].gen = op.gen
         /\ [op EXCEPT !.field = x].id = op.id
BY DEF OpFields, Plain, Touched, SameOp

\* What the runtime submits on its own
LEMMA FenceIs ==
  /\ Waits(Plain("fence")) /\ IsFence(Plain("fence")) /\ ~IsTask(Plain("fence"))
  /\ Plain("fence").id = 0
PROOF
<1> DEFINE o == Plain("fence")
<1>1. /\ DOMAIN o = OpFields /\ o.kind = "fence" /\ Touched(o) = {} /\ o.out = {} /\ o.gen = 0
      /\ o.id = 0 /\ o.flush = FALSE
  BY PlainIs
<1> HIDE DEF o
<1>2. Waits(o) /\ IsFence(o) /\ ~IsTask(o) /\ o.id = 0
  BY <1>1 DEF Waits, IsOp, IsFence, IsTask, Kinds
<1> QED BY <1>2 DEF o

\* Items
LEMMA ItemIs ==
  ASSUME NEW c
  PROVE  DOMAIN Item(c) = ItemFields /\ Item(c).c = c /\ Item(c).ops = <<>>
BY DEF Item, ItemFields

\* A submission
LEMMA SubmitIs ==
  ASSUME NEW op
  PROVE  DOMAIN Submit(op) = ItemFields /\ Submit(op).c = "submit" /\ Submit(op).ops = <<>> /\ Submit(op).op = op
BY DEF Submit, Item, ItemFields

\* A flush, and a step for a field
LEMMA OtherItems ==
  ASSUME NEW x, NEW f
  PROVE  /\ DOMAIN Flush(x) = ItemFields /\ Flush(x).c = "flush" /\ Flush(x).ops = <<>> /\ Flush(x).by = x
         /\ DOMAIN ForField(x, f) = ItemFields /\ ForField(x, f).c = x /\ ForField(x, f).ops = <<>>
         /\ ForField(x, f).field = f
BY DEF Flush, ForField, Item, ItemFields

\* An item that goes on
LEMMA ItemWith ==
  ASSUME NEW x, DOMAIN x = ItemFields, NEW y
  PROVE  /\ DOMAIN [x EXCEPT !.n = y] = ItemFields /\ [x EXCEPT !.n = y].c = x.c
         /\ [x EXCEPT !.n = y].ops = x.ops /\ [x EXCEPT !.n = y].n = y
         /\ DOMAIN [x EXCEPT !.pol = y] = ItemFields /\ [x EXCEPT !.pol = y].c = x.c
         /\ [x EXCEPT !.pol = y].ops = x.ops /\ [x EXCEPT !.pol = y].pol = y
         /\ DOMAIN [x EXCEPT !.ops = y] = ItemFields /\ [x EXCEPT !.ops = y].c = x.c
         /\ [x EXCEPT !.ops = y].ops = y
BY DEF Item, ItemFields

\* Freeing a field submits operations that do not flush.
FreesOnly(x) == /\ DOMAIN x = ItemFields /\ x.c = "submit" /\ x.ops = <<>> /\ Waits(x.op) /\ x.op.id = 0
                /\ ~x.op.flush /\ ~IsTask(x.op) /\ x.op.kind \in {"release", "discard"} /\ x.op.checked = NoStrategy
                /\ Touched(x.op) = {} /\ x.op.drop = {}

\* What Storage::~Storage asks the field manager to do: two calls, each of which only
\* frees fields.
LEMMA FreeCallsAre ==
  ASSUME NEW f
  PROVE  /\ \A i \in 1..2 : FreesOnly(FreeCalls(f)[i]) /\ FreeCalls(f)[i].op.field = f
         /\ IsSeq(FreeCalls(f)) /\ Len(FreeCalls(f)) = 2
PROOF
<1>1. ASSUME NEW kind \in {"release", "discard"}
      PROVE  /\ FreesOnly(Submit([Plain(kind) EXCEPT !.field = f]))
             /\ Submit([Plain(kind) EXCEPT !.field = f]).op.field = f
  <2> DEFINE p == Plain(kind)
             op == [p EXCEPT !.field = f]
  <2>1. /\ DOMAIN p = OpFields /\ p.kind = kind /\ Touched(p) = {} /\ p.gen = 0 /\ p.id = 0
        /\ p.flush = FALSE
    BY PlainIs
  <2>2. SameOp(op, p) /\ op.gen = p.gen /\ op.id = p.id
    BY PlainIs, OpWith
  <2>3. op.checked = NoStrategy /\ op.drop = {} /\ op.field = f
    BY DEF Plain
  <2>4. Submit([Plain(kind) EXCEPT !.field = f]) = Submit(op)
    OBVIOUS
  <2> HIDE DEF p, op
  <2> DEFINE x == Submit(op)
  <2>5. DOMAIN x = ItemFields /\ x.c = "submit" /\ x.ops = <<>> /\ x.op = op
    BY SubmitIs
  <2> HIDE DEF x
  <2>6. FreesOnly(x) /\ x.op.field = f
    BY <2>1, <2>2, <2>3, <2>5 DEF FreesOnly, SameOp, Waits, IsOp, IsTask, Kinds
  <2> QED BY <2>4, <2>6 DEF x
<1> DEFINE r == Submit([Plain("release") EXCEPT !.field = f])
           d == Submit([Plain("discard") EXCEPT !.field = f])
           OK(x) == FreesOnly(x) /\ x.op.field = f
<1>2. FreeCalls(f) = <<r, d>> /\ OK(r) /\ OK(d)
  BY <1>1 DEF FreeCalls
<1> HIDE DEF r, d, OK
<1>3. IsSeq(<<r, d>>) /\ Len(<<r, d>>) = 2 /\ <<r, d>>[1] = r /\ <<r, d>>[2] = d
  BY ShortSeqs
<1>4. \A i \in 1..2 : OK(<<r, d>>[i])
  BY <1>2, <1>3
<1> QED BY <1>2, <1>3, <1>4 DEF OK

\* Each element of a set comes up in its sequence.
LEMMA SetToSeqIs ==
  ASSUME NEW set, IsFiniteSet(set)
  PROVE  SetToSeq(set) \in [1..Cardinality(set) -> set]
PROOF
<1> DEFINE n == Cardinality(set)
<1>1. n \in Nat /\ ExistsBijection(1..n, set)
  BY FS_CardinalityType
<1> HIDE DEF n
<1>2. PICK b \in [1..n -> set] : \A i, j \in 1..n : b[i] = b[j] => i = j
  BY <1>1 DEF ExistsBijection, Bijection, Injection, IsInjective
<1>3. IsInjective(b)
  BY <1>2 DEF IsInjective
<1>4. SetToSeq(set) = CHOOSE f \in [1..n -> set] : IsInjective(f)
  BY DEF SetToSeq, n
<1>5. SetToSeq(set) \in [1..n -> set]
  BY <1>3, <1>4
<1> QED BY <1>5 DEF n

\* So does freeing several.
LEMMA FreeAllAre ==
  ASSUME NEW set, IsFiniteSet(set)
  PROVE  /\ IsSeq(FreeAll(set))
         /\ \A i \in DOMAIN FreeAll(set) : FreesOnly(FreeAll(set)[i]) /\ FreeAll(set)[i].op.field \in set
         /\ set = {} => FreeAll(set) = <<>>
PROOF
<1> DEFINE m == Cardinality(set)
           n == 2 * m
           fs == SetToSeq(set)
           OK(x) == FreesOnly(x) /\ x.op.field \in set
<1>1. n \in Nat /\ m \in Nat
  BY FS_CardinalityType
<1>2. FreeAll(set) = [i \in 1..n |-> FreeCalls(fs[(i + 1) \div 2])[2 - (i % 2)]]
  BY DEF FreeAll
<1>3. \A i \in 1..n : 2 - (i % 2) \in {1, 2}
  BY <1>1
<1>10. \A i \in 1..n : fs[(i + 1) \div 2] \in set
  <2>1. fs \in [1..m -> set]
    BY SetToSeqIs
  <2> HIDE DEF m, fs
  <2>2. \A i \in 1..n : (i + 1) \div 2 \in 1..m
    BY <1>1
  <2> QED BY <2>1, <2>2
<1>4. \A i \in 1..n : OK(FreeCalls(fs[(i + 1) \div 2])[2 - (i % 2)])
  <2> TAKE i \in 1..n
  <2> DEFINE f == fs[(i + 1) \div 2]
             j == 2 - (i % 2)
  <2>1. f \in set /\ j \in 1..2
    BY <1>3, <1>10
  <2> HIDE DEF f, j
  <2>2. OK(FreeCalls(f)[j])
    BY <2>1, FreeCallsAre
  <2> QED BY <2>2 DEF f, j
<1>5. set = {} => n = 0
  BY FS_EmptySet
<1> HIDE DEF m, n, fs, OK
<1>6. IsSeq(FreeAll(set)) /\ Len(FreeAll(set)) = n
  <2>1. DOMAIN FreeAll(set) = 1..n /\ FreeAll(set) = [i \in 1..n |-> FreeAll(set)[i]]
    BY <1>2
  <2> QED BY <1>1, <2>1, SeqMade
<1>7. DOMAIN FreeAll(set) = 1..n
  BY <1>2
<1>8. \A i \in DOMAIN FreeAll(set) : OK(FreeAll(set)[i])
  BY <1>2, <1>4, <1>7
<1>9. set = {} => FreeAll(set) = <<>>
  BY <1>5, <1>6, SeqIs
<1> QED BY <1>6, <1>8, <1>9 DEF OK

-----------------------------------------------------------------------------
(* Discards, prefixes and fences *)

\* A nonempty set of naturals has a least element.
LEMMA Least ==
  ASSUME NEW S \in SUBSET Nat, S # {}
  PROVE  \E x \in S : \A y \in S : x <= y
PROOF
<1> DEFINE R == OpToRel(<, Nat)
<1>1. IsWellFoundedOn(R, Nat)
  BY NatLessThanWellFounded
<1>2. \A x, y \in Nat : y < x => <<y, x>> \in R
  BY DEF OpToRel
<1> HIDE DEF R
<1>3. PICK x \in S : \A y \in S : <<y, x>> \notin R
  BY <1>1, WFMin, Zenon
<1>4. \A y \in S : ~(y < x)
  BY <1>2, <1>3
<1> QED BY <1>4

\* A set of positions in ascending order
LEMMA InOrderIs ==
  ASSUME NEW n \in Nat, NEW S \in SUBSET (1..n)
  PROVE  /\ Cardinality(S) \in 0..n /\ DOMAIN InOrder(S) = 1..Cardinality(S)
         /\ \A j \in 1..Cardinality(S) : InOrder(S)[j] \in S
         /\ \A j, k \in 1..Cardinality(S) : j < k => InOrder(S)[j] < InOrder(S)[k]
PROOF
<1> DEFINE Below(i) == {k \in S : k <= i}
           kept == InOrder(S)
<1>0. \A k \in S : k \in Nat /\ 1 <= k /\ k <= n
  OBVIOUS
<1>1. IsFiniteSet(1..n) /\ Cardinality(1..n) = n
  BY FS_Interval
<1>2. IsFiniteSet(S) /\ Cardinality(S) \in Nat /\ Cardinality(S) <= n
  BY <1>1, FS_Subset, FS_CardinalityType
<1>3. \A i \in 0..n : IsFiniteSet(Below(i)) /\ Cardinality(Below(i)) \in Nat
  <2> TAKE i \in 0..n
  <2>1. Below(i) \in SUBSET S
    OBVIOUS
  <2> HIDE DEF Below
  <2> QED BY <1>2, <2>1, FS_Subset, FS_CardinalityType
<1>4. \A i, k \in 0..n : i <= k => Cardinality(Below(i)) <= Cardinality(Below(k))
  <2> TAKE i, k \in 0..n
  <2> HAVE i <= k
  <2>1. i \in Int /\ k \in Int /\ \A x \in S : x \in Int
    BY <1>0
  <2>2. \A x \in S : x <= i => x <= k
    BY <2>1
  <2>3. Below(i) \in SUBSET Below(k)
    BY <2>2
  <2> HIDE DEF Below
  <2> QED BY <1>3, <2>3, FS_Subset
<1>5. Cardinality(Below(0)) = 0 /\ Cardinality(Below(n)) = Cardinality(S)
  <2>1. \A x \in S : ~(x <= 0) /\ x <= n
    BY <1>0
  <2>2. Below(0) = {} /\ Below(n) = S
    BY <2>1
  <2> QED BY <2>2, FS_EmptySet
<1>6. \A i \in 1..n : /\ Cardinality(Below(i)) <= Cardinality(Below(i - 1)) + 1
                      /\ i \notin S => Cardinality(Below(i)) = Cardinality(Below(i - 1))
  <2> TAKE i \in 1..n
  <2>1. i - 1 \in 0..n /\ \A k \in S : (k <= i <=> k <= i - 1 \/ k = i)
    BY <1>0
  <2>2. i \notin S => Below(i) = Below(i - 1)
    BY <2>1
  <2>3. i \in S => Below(i) = Below(i - 1) \cup {i}
    BY <2>1
  <2> DEFINE B == Below(i - 1)
  <2>4. IsFiniteSet(B) /\ Cardinality(B) \in Nat
    BY <1>3, <2>1
  <2> HIDE DEF Below, B
  <2>5. Cardinality(B \cup {i}) <= Cardinality(B) + 1
    BY <2>4, FS_AddElement
  <2>6. CASE i \in S
    BY <2>3, <2>5, <2>6 DEF B
  <2>7. CASE i \notin S
    BY <2>2, <2>4, <2>7 DEF B
  <2> QED BY <2>6, <2>7
<1>7. \A j \in 1..Cardinality(S) : \E i \in S : Cardinality(Below(i)) = j
  <2> TAKE j \in 1..Cardinality(S)
  <2> DEFINE Reached == {i \in 0..n : j <= Cardinality(Below(i))}
  <2>1. Reached \in SUBSET Nat /\ n \in Reached
    <3> HIDE DEF Below
    <3> QED BY <1>2, <1>5
  <2> HIDE DEF Reached
  <2>2. PICK i \in Reached : \A k \in Reached : i <= k
    BY <2>1, Least
  <2> HIDE DEF Below
  <2>3. i \in 0..n /\ j <= Cardinality(Below(i)) /\ i # 0
    BY <1>2, <1>5, <2>2 DEF Reached
  <2>4. i - 1 \in 0..n /\ ~(j <= Cardinality(Below(i - 1)))
    BY <2>2, <2>3 DEF Reached
  <2>5. i \in S /\ Cardinality(Below(i)) = j
    BY <1>2, <1>3, <1>6, <2>3, <2>4
  <2> QED BY <2>5
<1>8. \A j \in 1..Cardinality(S) : kept[j] = CHOOSE i \in S : Cardinality(Below(i)) = j
  BY DEF InOrder
<1>9. DOMAIN kept = 1..Cardinality(S)
  BY DEF InOrder
<1> HIDE DEF Below, kept
<1>10. \A j \in 1..Cardinality(S) : kept[j] \in S /\ Cardinality(Below(kept[j])) = j
  BY <1>7, <1>8
<1>11. ASSUME NEW j \in 1..Cardinality(S), NEW k \in 1..Cardinality(S), j < k
       PROVE  kept[j] < kept[k]
  <2>1. kept[j] \in 0..n /\ kept[k] \in 0..n /\ Cardinality(Below(kept[j])) = j /\ Cardinality(Below(kept[k])) = k
    <3>1. kept[j] \in S /\ kept[k] \in S
      BY <1>10
    <3>2. \A x \in S : x \in 0..n
      BY <1>0
    <3>3. kept[j] \in 0..n /\ kept[k] \in 0..n
      BY <3>1, <3>2
    <3> QED BY <1>10, <3>3
  <2>2. kept[k] <= kept[j] => k <= j
    BY <1>4, <2>1
  <2> QED BY <1>11, <2>1, <2>2
<1>12. /\ Cardinality(S) \in 0..n /\ DOMAIN kept = 1..Cardinality(S)
       /\ \A j \in 1..Cardinality(S) : kept[j] \in S
       /\ \A j, k \in 1..Cardinality(S) : j < k => kept[j] < kept[k]
  BY <1>2, <1>9, <1>10, <1>11
<1> QED BY <1>12 DEF kept

\* Propagating discards takes some out and leaves the others in order.
LEMMA PropagateIs ==
  ASSUME NEW w, NEW n \in Nat, QueueOK(w, n)
  PROVE  /\ QueueOK(PropagateDiscards(w), n) /\ Len(PropagateDiscards(w)) <= Len(w)
         /\ \A j \in DOMAIN PropagateDiscards(w) :
              \E i \in DOMAIN w : SameOp(PropagateDiscards(w)[j], w[i])
PROOF
<1> DEFINE S == DOMAIN w \ Handled(w)
           kept == InOrder(S)
           m == Cardinality(S)
           p == PropagateDiscards(w)
<1>1. Len(w) \in Nat /\ DOMAIN w = 1..Len(w) /\ S \in SUBSET (1..Len(w))
  BY SeqIs DEF QueueOK
<1>2. DOMAIN p = DOMAIN kept /\ p = [j \in DOMAIN kept |-> [w[kept[j]] EXCEPT !.drop = HandedTo(w, kept[j])]]
  BY DEF PropagateDiscards
<1> HIDE DEF S
<1>3. /\ m \in 0..Len(w) /\ DOMAIN kept = 1..m
      /\ \A j \in 1..m : kept[j] \in S
      /\ \A j, k \in 1..m : j < k => kept[j] < kept[k]
  BY <1>1, InOrderIs
<1> HIDE DEF kept, m, p
<1>4. m \in Nat /\ m <= Len(w)
  BY <1>1, <1>3
<1>5. IsSeq(p) /\ Len(p) = m /\ DOMAIN p = 1..m
  <2>1. p = [j \in 1..m |-> p[j]]
    BY <1>2, <1>3
  <2> QED BY <1>2, <1>3, <1>4, <2>1, SeqMade
<1>6. \A j \in 1..m : /\ kept[j] \in DOMAIN w /\ SameOp(p[j], w[kept[j]])
                      /\ p[j].gen = w[kept[j]].gen /\ p[j].id = w[kept[j]].id
  <2> TAKE j \in 1..m
  <2>1. kept[j] \in DOMAIN w /\ p[j] = [w[kept[j]] EXCEPT !.drop = HandedTo(w, kept[j])]
    BY <1>1, <1>2, <1>3
  <2>2. DOMAIN w[kept[j]] = OpFields
    BY <2>1 DEF QueueOK, Waits, IsOp
  <2> DEFINE o == w[kept[j]]
  <2>3. SameOp([o EXCEPT !.drop = HandedTo(w, kept[j])], o) /\ [o EXCEPT !.drop = HandedTo(w, kept[j])].gen = o.gen
        /\ [o EXCEPT !.drop = HandedTo(w, kept[j])].id = o.id
    BY <2>2, OpWith
  <2> QED BY <2>1, <2>3
<1>7. \A j \in 1..m : Waits(p[j]) /\ p[j].id \in 1..n
  BY <1>6 DEF QueueOK, Waits, IsOp, SameOp
<1>8. \A j, k \in 1..m : j < k => p[j].id < p[k].id
  BY <1>3, <1>6 DEF QueueOK
<1>9. QueueOK(p, n)
  BY <1>5, <1>7, <1>8 DEF QueueOK
<1>10. /\ QueueOK(p, n) /\ Len(p) <= Len(w)
       /\ \A j \in DOMAIN p : \E i \in DOMAIN w : SameOp(p[j], w[i])
  BY <1>4, <1>5, <1>6, <1>9
<1> QED BY <1>10 DEF p

\* A prefix has at least one operation.
LEMMA PrefixLenIs ==
  ASSUME NEW w, IsSeq(w), w # <<>>
  PROVE  PrefixLen(w) \in 1..Len(w)
PROOF
<1> DEFINE n == StreamableLen(w)
<1>1. Len(w) \in Nat /\ DOMAIN w = 1..Len(w) /\ Len(w) # 0
  BY SeqIs
<1>2. n \in 0..Len(w)
  <2> DEFINE checks == PrefixChecks(w)
             ok == {k \in DOMAIN w : checks[k].ok}
  <2>1. n = Cardinality(ok)
    BY DEF StreamableLen
  <2>2. ok \in SUBSET (1..Len(w))
    BY <1>1
  <2> HIDE DEF ok, n
  <2>3. IsFiniteSet(1..Len(w)) /\ Cardinality(1..Len(w)) = Len(w)
    BY <1>1, FS_Interval
  <2>4. Cardinality(ok) \in Nat /\ Cardinality(ok) <= Len(w)
    BY <2>2, <2>3, FS_Subset, FS_CardinalityType
  <2> QED BY <1>1, <2>1, <2>4
<1>3. PrefixLen(w) = IF n < Len(w) /\ (n = 0 \/ w[n + 1].kind = "fence") THEN n + 1 ELSE n
  BY DEF PrefixLen
<1> HIDE DEF n
<1> QED BY <1>1, <1>2, <1>3

\* The larger of two numbers
LEMMA MaxIs ==
  ASSUME NEW a \in Nat, NEW b \in Nat
  PROVE  Max({a, b}) = IF a >= b THEN a ELSE b
PROOF
<1>1. CASE a >= b
  <2>1. a \in {a, b} /\ \A y \in {a, b} : a >= y
    BY <1>1
  <2>2. \A x \in {a, b} : (\A y \in {a, b} : x >= y) => x = a
    BY <1>1
  <2> QED BY <1>1, <2>1, <2>2 DEF Max
<1>2. CASE ~(a >= b)
  <2>1. b \in {a, b} /\ \A y \in {a, b} : b >= y
    BY <1>2
  <2>2. \A x \in {a, b} : (\A y \in {a, b} : x >= y) => x = b
    BY <1>2
  <2> QED BY <1>2, <2>1, <2>2 DEF Max
<1> QED BY <1>1, <1>2

\* A prefix gets its fence, and the fence a new id unless it was there.
LEMMA FencedIs ==
  ASSUME NEW ops, QueueOK(ops, ids), ops # <<>>, ids \in Nat
  PROVE  /\ IsSeq(Fenced(ops)) /\ Fenced(ops) # <<>> /\ Last(Fenced(ops)).kind = "fence"
         /\ Max({ids, Last(Fenced(ops)).id}) \in Nat /\ Max({ids, Last(Fenced(ops)).id}) >= ids
         /\ \A i \in DOMAIN Fenced(ops) :
              /\ Waits(Fenced(ops)[i]) /\ Fenced(ops)[i].id \in 1..Max({ids, Last(Fenced(ops)).id})
              /\ i \in DOMAIN ops => Fenced(ops)[i] = ops[i]
              /\ i \notin DOMAIN ops => IsFence(Fenced(ops)[i])
PROOF
<1> DEFINE f == Fenced(ops)
           m == Max({ids, Last(f).id})
           Goal == /\ IsSeq(f) /\ f # <<>> /\ Last(f).kind = "fence" /\ m \in Nat /\ m >= ids
                   /\ \A i \in DOMAIN f :
                        /\ Waits(f[i]) /\ f[i].id \in 1..m
                        /\ i \in DOMAIN ops => f[i] = ops[i]
                        /\ i \notin DOMAIN ops => IsFence(f[i])
<1>1. IsSeq(ops) /\ Len(ops) \in Nat /\ DOMAIN ops = 1..Len(ops) /\ Len(ops) \in DOMAIN ops
  BY SeqIs DEF QueueOK
<1>2. CASE Last(ops).kind = "fence"
  <2>1. Fenced(ops) = ops /\ Last(ops) = ops[Len(ops)]
    BY <1>2 DEF Fenced, Last
  <2>2. ops[Len(ops)].id \in 1..ids
    BY <1>1 DEF QueueOK
  <2>3. Max({ids, Last(ops).id}) = ids
    BY <2>1, <2>2, MaxIs
  <2>4. f = ops /\ m = ids
    BY <2>1, <2>3
  <2> HIDE DEF f, m
  <2>5. Goal
    BY <1>1, <1>2, <2>4 DEF QueueOK
  <2> QED BY <2>5 DEF f, m
<1>3. CASE Last(ops).kind # "fence"
  <2> DEFINE p == Plain("fence")
             fence == [p EXCEPT !.id = ids + 1]
             all == Append(ops, fence)
  <2>1. Waits(p) /\ IsFence(p) /\ DOMAIN p = OpFields
    BY FenceIs, PlainIs
  <2>2. Fenced(ops) = all
    BY <1>3 DEF Fenced
  <2> HIDE DEF p
  <2>3. SameOp(fence, p) /\ fence.gen = p.gen /\ fence.id = ids + 1
    BY <2>1, OpWith
  <2> HIDE DEF fence
  <2>4. Waits(fence) /\ IsFence(fence) /\ fence.kind = "fence"
    BY <2>1, <2>3 DEF Waits, IsOp, SameOp, IsFence
  <2>5. /\ IsSeq(all) /\ Len(all) = Len(ops) + 1 /\ DOMAIN all = DOMAIN ops \cup {Len(ops) + 1}
        /\ \A i \in DOMAIN ops : all[i] = ops[i]
        /\ all[Len(ops) + 1] = fence
    BY <1>1, AppendIs
  <2> HIDE DEF all
  <2>6. Last(all) = fence /\ all # <<>>
    <3>1. Last(all) = all[Len(all)]
      BY DEF Last
    <3>2. Len(all) # 0
      BY <1>1, <2>5
    <3> QED BY <2>5, <3>1, <3>2, SeqIs
  <2>7. Max({ids, Last(all).id}) = ids + 1
    <3>1. ids + 1 \in Nat
      OBVIOUS
    <3> QED BY <2>3, <2>6, <3>1, MaxIs
  <2>8. \A i \in DOMAIN ops : Waits(all[i]) /\ all[i].id \in 1..(ids + 1)
    BY <2>5 DEF QueueOK
  <2>9. Waits(all[Len(ops) + 1]) /\ all[Len(ops) + 1].id \in 1..(ids + 1) /\ IsFence(all[Len(ops) + 1])
    BY <2>3, <2>4, <2>5
  <2>10. \A i \in DOMAIN all : /\ Waits(all[i]) /\ all[i].id \in 1..(ids + 1)
                               /\ i \in DOMAIN ops => all[i] = ops[i]
                               /\ i \notin DOMAIN ops => IsFence(all[i])
    BY <2>5, <2>8, <2>9
  <2>11. f = all /\ m = ids + 1
    BY <2>2, <2>7
  <2> HIDE DEF f, m
  <2>12. Goal
    <3>1. ids + 1 \in Nat /\ ids + 1 >= ids
      OBVIOUS
    <3>2. IsSeq(all) /\ all # <<>> /\ Last(all).kind = "fence"
      BY <2>4, <2>5, <2>6
    <3>3. IsSeq(f) /\ f # <<>> /\ Last(f).kind = "fence" /\ m \in Nat /\ m >= ids
      BY <2>11, <3>1, <3>2
    <3> QED BY <2>10, <2>11, <3>3
  <2> QED BY <2>12 DEF f, m
<1> QED BY <1>2, <1>3

\* Its tasks get the next generation.
LEMMA AssignedIs ==
  ASSUME NEW ops, IsSeq(ops), NEW n, gens \in Nat, \A i \in DOMAIN ops : Waits(ops[i]) /\ ops[i].id \in 1..n,
         ops # <<>>, Last(ops).kind = "fence"
  PROVE  /\ PrefixOK(Assigned(ops), n, gens + 1) /\ Len(Assigned(ops)) = Len(ops) /\ DOMAIN Assigned(ops) = DOMAIN ops
         /\ \A i \in DOMAIN ops : SameOp(Assigned(ops)[i], ops[i])
PROOF
<1> DEFINE a == Assigned(ops)
           size == Cardinality(Counted(ops))
           Checked(i) == [ops[i] EXCEPT !.checked = Strategy(ops[i], key)]
<1>1. Len(ops) \in Nat /\ DOMAIN ops = 1..Len(ops) /\ Len(ops) \in DOMAIN ops
  BY SeqIs
<1>2. /\ DOMAIN a = DOMAIN ops
      /\ \A i \in DOMAIN ops : a[i] = IF i \in Counted(ops) THEN [Checked(i) EXCEPT !.gen = gens + 1, !.size = size]
                                      ELSE Checked(i)
      /\ a = [i \in DOMAIN ops |-> a[i]]
  BY DEF Assigned
<1> HIDE DEF a, size
<1>3. IsSeq(a) /\ Len(a) = Len(ops)
  BY <1>1, <1>2, SeqMade
<1>4. ASSUME NEW i \in DOMAIN ops
      PROVE  /\ SameOp(a[i], ops[i]) /\ a[i].id = ops[i].id /\ IsOp(a[i])
             /\ a[i].gen \in {0, gens + 1} /\ (a[i].gen # 0 => IsTask(a[i]))
  <2> DEFINE s == Strategy(ops[i], key)
             o == ops[i]
             c == [o EXCEPT !.checked = s]
             t == [c EXCEPT !.gen = gens + 1, !.size = size]
  <2>1. IsOp(o) /\ DOMAIN o = OpFields /\ o.gen = 0
    BY DEF Waits, IsOp
  <2>2. a[i] = IF i \in Counted(ops) THEN t ELSE c
    BY <1>2
  <2>3. i \in Counted(ops) => IsTask(o)
    BY DEF Counted
  <2> HIDE DEF s, o
  <2>4. SameOp(c, o) /\ c.gen = 0 /\ c.id = o.id
    BY <2>1, OpWith
  <2> HIDE DEF c
  <2>5. SameOp(t, c) /\ t.gen = gens + 1 /\ t.id = c.id
    <3>1. DOMAIN c = OpFields
      BY <2>4 DEF SameOp
    <3> HIDE DEF size
    <3> QED BY <3>1 DEF SameOp, OpFields, Plain, Touched
  <2> HIDE DEF t
  <2>6. CASE i \in Counted(ops)
    <3>1. SameOp(t, o) /\ t.id = o.id /\ IsOp(t) /\ t.gen \in {0, gens + 1} /\ IsTask(t)
      BY <2>1, <2>3, <2>4, <2>5, <2>6 DEF SameOp, IsOp, IsTask
    <3> QED BY <2>2, <2>6, <3>1 DEF o
  <2>7. CASE i \notin Counted(ops)
    <3>1. SameOp(c, o) /\ c.id = o.id /\ IsOp(c) /\ c.gen = 0
      BY <2>1, <2>4 DEF SameOp, IsOp
    <3> QED BY <2>2, <2>7, <3>1 DEF o
  <2> QED BY <2>6, <2>7
<1>5. a[Len(a)].kind = "fence"
  <2>1. Last(ops) = ops[Len(ops)]
    BY DEF Last
  <2> QED BY <1>1, <1>3, <1>4, <2>1 DEF SameOp
<1>6. PrefixOK(a, n, gens + 1)
  BY <1>2, <1>3, <1>4, <1>5 DEF PrefixOK
<1>7. /\ PrefixOK(a, n, gens + 1) /\ Len(a) = Len(ops) /\ DOMAIN a = DOMAIN ops
      /\ \A i \in DOMAIN ops : SameOp(a[i], ops[i])
  BY <1>2, <1>3, <1>4, <1>6
<1> QED BY <1>7 DEF a

\* The window without its first operations, and the first ones
LEMMA CutsAre ==
  ASSUME NEW w, NEW m \in Nat, QueueOK(w, m), NEW n \in 0..Len(w)
  PROVE  /\ QueueOK(SubSeq(w, 1, n), m) /\ Len(SubSeq(w, 1, n)) = n
         /\ \A i \in DOMAIN SubSeq(w, 1, n) : i \in DOMAIN w /\ SubSeq(w, 1, n)[i] = w[i]
         /\ QueueOK(SubSeq(w, n + 1, Len(w)), m) /\ Len(SubSeq(w, n + 1, Len(w))) = Len(w) - n
         /\ \A i \in DOMAIN SubSeq(w, n + 1, Len(w)) :
              n + i \in DOMAIN w /\ SubSeq(w, n + 1, Len(w))[i] = w[n + i]
PROOF
<1> DEFINE s == SubSeq(w, 1, n)
           t == SubSeq(w, n + 1, Len(w))
<1>1. IsSeq(w) /\ Len(w) \in Nat /\ DOMAIN w = 1..Len(w)
  BY SeqIs DEF QueueOK
<1>2. IsSeq(s) /\ Len(s) = n /\ \A i \in DOMAIN s : s[i] = w[1 + i - 1] /\ 1 + i - 1 \in DOMAIN w
  <2>1. 1 \in 1..(Len(w) + 1) /\ 1 <= n + 1 /\ n - 1 + 1 = n
    BY <1>1
  <2> QED BY <1>1, <2>1, SubSeqIs
<1>3. /\ IsSeq(t) /\ Len(t) = Len(w) - n
      /\ \A i \in DOMAIN t : t[i] = w[n + 1 + i - 1] /\ n + 1 + i - 1 \in DOMAIN w
  <2>1. n + 1 \in 1..(Len(w) + 1) /\ Len(w) \in 0..Len(w) /\ n + 1 <= Len(w) + 1
        /\ Len(w) - (n + 1) + 1 = Len(w) - n
    BY <1>1
  <2> QED BY <1>1, <2>1, SubSeqIs
<1> HIDE DEF s, t
<1>4. Len(s) \in Nat /\ DOMAIN s = 1..Len(s) /\ Len(t) \in Nat /\ DOMAIN t = 1..Len(t)
  BY <1>2, <1>3, SeqIs
<1>5. \A i \in DOMAIN s : i \in DOMAIN w /\ s[i] = w[i]
  <2> TAKE i \in DOMAIN s
  <2>1. 1 + i - 1 = i
    BY <1>4
  <2> QED BY <1>2, <2>1
<1>6. \A i \in DOMAIN t : n + i \in DOMAIN w /\ t[i] = w[n + i]
  <2> TAKE i \in DOMAIN t
  <2>1. n + 1 + i - 1 = n + i
    BY <1>4
  <2> QED BY <1>3, <2>1
<1>7. QueueOK(s, m)
  BY <1>2, <1>5 DEF QueueOK
<1>8. QueueOK(t, m)
  <2>1. \A i \in DOMAIN t : Waits(t[i]) /\ t[i].id \in 1..m
    BY <1>6 DEF QueueOK
  <2>2. \A i, j \in DOMAIN t : i < j => t[i].id < t[j].id
    <3> TAKE i, j \in DOMAIN t
    <3> HAVE i < j
    <3>1. n + i < n + j
      BY <1>4
    <3> QED BY <1>6, <3>1 DEF QueueOK
  <2> QED BY <1>3, <2>1, <2>2 DEF QueueOK
<1>9. /\ QueueOK(s, m) /\ Len(s) = n /\ \A i \in DOMAIN s : i \in DOMAIN w /\ s[i] = w[i]
      /\ QueueOK(t, m) /\ Len(t) = Len(w) - n /\ \A i \in DOMAIN t : n + i \in DOMAIN w /\ t[i] = w[n + i]
  BY <1>2, <1>3, <1>5, <1>6, <1>7, <1>8
<1> QED BY <1>9 DEF s, t

\* One more operation in the window
LEMMA QueuedIs ==
  ASSUME NEW w, NEW m \in Nat, QueueOK(w, m), NEW op, Waits(op), op.id = m + 1
  PROVE  /\ QueueOK(Append(w, op), m + 1) /\ Len(Append(w, op)) = Len(w) + 1
         /\ \A i \in DOMAIN Append(w, op) : IF i \in DOMAIN w THEN Append(w, op)[i] = w[i] ELSE Append(w, op)[i] = op
PROOF
<1> DEFINE a == Append(w, op)
<1>1. IsSeq(w) /\ Len(w) \in Nat /\ DOMAIN w = 1..Len(w)
  BY SeqIs DEF QueueOK
<1>2. /\ IsSeq(a) /\ Len(a) = Len(w) + 1 /\ DOMAIN a = DOMAIN w \cup {Len(w) + 1}
      /\ \A i \in DOMAIN w : a[i] = w[i]
      /\ a[Len(w) + 1] = op
  BY <1>1, AppendIs
<1> HIDE DEF a
<1>3. \A i \in DOMAIN a : IF i \in DOMAIN w THEN a[i] = w[i] ELSE a[i] = op
  BY <1>2
<1>4. \A i \in DOMAIN a : Waits(a[i]) /\ a[i].id \in 1..(m + 1)
  <2> TAKE i \in DOMAIN a
  <2>1. CASE i \in DOMAIN w
    BY <1>2, <2>1 DEF QueueOK
  <2>2. CASE i \notin DOMAIN w
    BY <1>3, <2>2
  <2> QED BY <2>1, <2>2
<1>5. \A i, j \in DOMAIN a : i < j => a[i].id < a[j].id
  <2> TAKE i, j \in DOMAIN a
  <2> HAVE i < j
  <2>1. i \in DOMAIN w
    BY <1>1, <1>2
  <2>2. CASE j \in DOMAIN w
    BY <1>2, <2>1, <2>2 DEF QueueOK
  <2>3. CASE j \notin DOMAIN w
    <3>1. a[i].id \in 1..m /\ a[j].id = m + 1
      BY <1>2, <1>3, <2>1, <2>3 DEF QueueOK
    <3> QED BY <3>1
  <2> QED BY <2>2, <2>3
<1>6. QueueOK(a, m + 1) /\ Len(a) = Len(w) + 1 /\ \A i \in DOMAIN a : IF i \in DOMAIN w THEN a[i] = w[i] ELSE a[i] = op
  BY <1>2, <1>3, <1>4, <1>5 DEF QueueOK
<1> QED BY <1>6 DEF a

-----------------------------------------------------------------------------
(* The stack of a call *)

NoPrefixBehind == \A i \in DOMAIN Rest : Rest[i].c # "stream"

\* Item x may take the place of t: it does not change the policy, nor flush in front of a prefix.
MayReplace(x, t) == x.c \notin {"new", "enter", "leave"} /\ (Harmless(t) => Harmless(x) \/ NoPrefixBehind)

\* Then it may be in front of what t was in front of.
LEMMA BeforeAgain ==
  ASSUME NEW t, NEW x, NEW i \in DOMAIN Rest, Before(t, Rest[i]), MayReplace(x, t)
  PROVE  Before(x, Rest[i])
BY DEF Before, MayReplace, NoPrefixBehind

\* An item stays one as long as no other generation begins in front of a prefix.
LEMMA ItemLater ==
  ASSUME NEW x, NEW n \in Nat, NEW g, ItemOK(x, n, g), NEW m \in Nat, n <= m, NEW h, x.c = "stream" => g = h
  PROVE  ItemOK(x, m, h)
PROOF
<1>1. CASE x.c = "stream"
  <2>1. PrefixOK(x.ops, n, g)
    BY <1>1 DEF ItemOK
  <2>2. PrefixOK(x.ops, m, g)
    BY <2>1 DEF PrefixOK
  <2> QED BY <1>1, <2>2 DEF ItemOK
<1>2. CASE x.c # "stream"
  BY <1>2 DEF ItemOK
<1> QED BY <1>1, <1>2

\* Two sequences of items, one in front of the other
LEMMA ItemsConcat ==
  ASSUME NEW s, NEW t, IsSeq(s), IsSeq(t), InOrderOf(s), InOrderOf(t),
         \A i \in DOMAIN s : \A j \in DOMAIN t : Before(s[i], t[j]),
         NEW n, NEW g, NEW pol, ItemsOK(s, n, g, pol), ItemsOK(t, n, g, pol)
  PROVE  InOrderOf(s \o t) /\ ItemsOK(s \o t, n, g, pol)
PROOF
<1> DEFINE u == s \o t
<1>1. /\ Len(s) \in Nat /\ DOMAIN s = 1..Len(s) /\ Len(t) \in Nat /\ DOMAIN t = 1..Len(t)
  BY SeqIs
<1>2. /\ IsSeq(u) /\ Len(u) = Len(s) + Len(t)
      /\ \A i \in DOMAIN s : u[i] = s[i]
      /\ \A i \in DOMAIN t : u[Len(s) + i] = t[i]
      /\ \A i \in DOMAIN u : i \in DOMAIN s \/ (i - Len(s) \in DOMAIN t /\ i = Len(s) + (i - Len(s)))
  BY ConcatIs
<1> HIDE DEF u
<1>3. DOMAIN u = 1..Len(u)
  BY <1>2, SeqIs
<1>4. ASSUME NEW i \in DOMAIN u
      PROVE  /\ ItemOK(u[i], n, g) /\ Fits(u[i], pol)
             /\ \A j \in 1..(i - 1) : Before(u[j], u[i])
  <2>1. CASE i \in DOMAIN s
    <3>1. \A j \in 1..(i - 1) : j \in DOMAIN s
      BY <1>1, <2>1
    <3> QED BY <1>2, <2>1, <3>1 DEF InOrderOf, ItemsOK
  <2>2. CASE i \notin DOMAIN s
    <3> DEFINE k == i - Len(s)
    <3>1. k \in DOMAIN t /\ i = Len(s) + k /\ u[i] = t[k]
      BY <1>2, <2>2
    <3>2. \A j \in 1..(i - 1) : j \in DOMAIN u /\ (j \in DOMAIN s \/ (j - Len(s) \in 1..(k - 1) /\ u[j] = t[j - Len(s)]))
      <4> TAKE j \in 1..(i - 1)
      <4>1. j \in DOMAIN u
        BY <1>3
      <4>2. CASE j \in DOMAIN s
        BY <4>1, <4>2
      <4>3. CASE j \notin DOMAIN s
        <5>1. j - Len(s) \in DOMAIN t /\ j = Len(s) + (j - Len(s))
          BY <1>2, <4>1, <4>3
        <5>2. u[j] = t[j - Len(s)]
          BY <1>2, <5>1
        <5>3. j - Len(s) \in 1..(k - 1)
          BY <1>1, <3>1, <5>1
        <5> QED BY <4>1, <5>2, <5>3
      <4> QED BY <4>2, <4>3
    <3> HIDE DEF k
    <3>3. \A j \in 1..(i - 1) : Before(u[j], u[i])
      <4> TAKE j \in 1..(i - 1)
      <4>1. CASE j \in DOMAIN s
        BY <1>2, <3>1, <4>1
      <4>2. CASE j \notin DOMAIN s
        <5>1. j - Len(s) \in 1..(k - 1) /\ u[j] = t[j - Len(s)]
          BY <3>2, <4>2
        <5>2. Before(t[j - Len(s)], t[k])
          BY <3>1, <5>1 DEF InOrderOf
        <5> QED BY <3>1, <5>1, <5>2
      <4> QED BY <4>1, <4>2
    <3> QED BY <3>1, <3>3 DEF ItemsOK
  <2> QED BY <2>1, <2>2
<1>5. InOrderOf(u) /\ ItemsOK(u, n, g, pol)
  BY <1>4 DEF InOrderOf, ItemsOK
<1> QED BY <1>5 DEF u

\* What is behind the item in front
LEMMA RestIs ==
  ASSUME NEW n, NEW g, NEW scps, CallOK(stack, n, g, scps), stack # <<>>
  PROVE  /\ Top = stack[1] /\ ItemOK(Top, n, g) /\ Fits(Top, Last(scps)) /\ FrontOK(stack, n)
         /\ IsSeq(Rest) /\ ItemsOK(Rest, n, g, Last(scps)) /\ InOrderOf(Rest)
         /\ \A i \in DOMAIN Rest : Before(Top, Rest[i]) /\ Rest[i] = stack[i + 1] /\ i + 1 \in DOMAIN stack
         /\ \A m : FrontOK(Rest, m)
         /\ Top.c # "enter" => LeavesOK(Rest, scps)
PROOF
<1>1. IsSeq(stack) /\ ItemsOK(stack, n, g, Last(scps)) /\ InOrderOf(stack) /\ LeavesOK(stack, scps) /\ FrontOK(stack, n)
  BY DEF CallOK
<1>2. 1 \in DOMAIN stack /\ Top = stack[1] /\ Len(stack) \in Nat /\ DOMAIN stack = 1..Len(stack)
  BY <1>1, SeqIs DEF Top
<1> DEFINE r == Rest
<1>3. /\ IsSeq(r) /\ Len(r) = Len(stack) - 1
      /\ \A i \in DOMAIN r : r[i] = stack[i + 1] /\ i + 1 \in DOMAIN stack
  BY <1>1, TailIs DEF Rest
<1> HIDE DEF r
<1>4. Len(r) \in Nat /\ DOMAIN r = 1..Len(r) /\ (r # <<>> => 1 \in DOMAIN r)
  BY <1>3, SeqIs
<1>5. ItemsOK(r, n, g, Last(scps))
  BY <1>1, <1>3 DEF ItemsOK
<1>6. \A i \in DOMAIN r : \A j \in 1..i : Before(stack[j], r[i])
  <2> TAKE i \in DOMAIN r
  <2> TAKE j \in 1..i
  <2>1. j \in 1..((i + 1) - 1) /\ i + 1 \in DOMAIN stack /\ r[i] = stack[i + 1]
    BY <1>3, <1>4
  <2> QED BY <1>1, <2>1 DEF InOrderOf
<1>7. InOrderOf(r)
  <2> SUFFICES ASSUME NEW i \in DOMAIN r, NEW j \in 1..(i - 1) PROVE Before(r[j], r[i])
    BY DEF InOrderOf
  <2>1. j \in DOMAIN r /\ j + 1 \in 1..i
    BY <1>4
  <2> QED BY <1>3, <1>6, <2>1
<1>8. \A i \in DOMAIN r : Before(Top, r[i])
  <2> TAKE i \in DOMAIN r
  <2>1. 1 \in 1..i
    BY <1>4
  <2> QED BY <1>2, <1>6, <2>1
<1>9. \A m : FrontOK(r, m)
  BY <1>4, <1>8 DEF FrontOK, Before
<1>10. ASSUME Top.c # "enter" PROVE LeavesOK(r, scps)
  <2> SUFFICES ASSUME NEW i \in DOMAIN r, r[i].c = "leave", ~(Len(scps) > 1)
               PROVE  \E j \in 1..(i - 1) : r[j].c = "enter"
    BY DEF LeavesOK
  <2>1. PICK j \in 1..((i + 1) - 1) : stack[j].c = "enter"
    BY <1>1, <1>3 DEF LeavesOK
  <2>2. j # 1
    BY <1>2, <1>10, <2>1
  <2>3. j - 1 \in 1..(i - 1) /\ j - 1 \in DOMAIN r /\ (j - 1) + 1 = j
    BY <1>4, <2>1, <2>2
  <2>4. r[j - 1] = stack[j]
    BY <1>3, <2>3
  <2> QED BY <2>1, <2>3, <2>4
<1> QED BY <1>1, <1>2, <1>3, <1>5, <1>7, <1>8, <1>9, <1>10 DEF r, ItemsOK

\* A step puts other items in place of the one in front.
LEMMA StackStep ==
  ASSUME StackOK, stack # <<>>, ids \in Nat, NEW n \in Nat, ids <= n, NEW g, gens = g \/ ~Harmless(Top),
         NEW new, IsSeq(new), InOrderOf(new), ItemsOK(new, n, g, Policy), FrontOK(new, n),
         \A i \in DOMAIN new : MayReplace(new[i], Top), Top.c # "enter"
  PROVE  CallOK(new \o Rest, n, g, scopes)
PROOF
<1> DEFINE r == Rest
           s == new \o r
<1>1. /\ IsSeq(r) /\ ItemsOK(r, ids, gens, Policy) /\ InOrderOf(r)
      /\ \A i \in DOMAIN r : Before(Top, r[i])
      /\ \A m : FrontOK(r, m)
      /\ LeavesOK(r, scopes)
  BY RestIs DEF StackOK, Policy
<1>4. \A i \in DOMAIN new : \A j \in DOMAIN r : Before(new[i], r[j])
  BY <1>1, BeforeAgain
<1> HIDE DEF r
<1>2. /\ Len(new) \in Nat /\ DOMAIN new = 1..Len(new) /\ Len(r) \in Nat /\ DOMAIN r = 1..Len(r)
      /\ (new = <<>> <=> Len(new) = 0)
  BY <1>1, SeqIs
<1>3. ItemsOK(r, n, g, Policy)
  <2> SUFFICES ASSUME NEW i \in DOMAIN r PROVE ItemOK(r[i], n, g) /\ Fits(r[i], Policy)
    BY DEF ItemsOK
  <2>1. ItemOK(r[i], ids, gens) /\ Fits(r[i], Policy) /\ Before(Top, r[i])
    BY <1>1 DEF ItemsOK
  <2>2. r[i].c = "stream" => gens = g
    BY <2>1 DEF Before
  <2> QED BY <2>1, <2>2, ItemLater
<1>5. InOrderOf(s) /\ ItemsOK(s, n, g, Policy)
  BY <1>1, <1>3, <1>4, ItemsConcat
<1>6. /\ IsSeq(s) /\ Len(s) = Len(new) + Len(r)
      /\ \A i \in DOMAIN new : s[i] = new[i]
      /\ \A i \in DOMAIN r : s[Len(new) + i] = r[i]
      /\ \A i \in DOMAIN s : i \in DOMAIN new \/ (i - Len(new) \in DOMAIN r /\ i = Len(new) + (i - Len(new)))
  BY <1>1, ConcatIs
<1> HIDE DEF s
<1>7. DOMAIN s = 1..Len(s) /\ (s # <<>> => 1 \in DOMAIN s)
  BY <1>6, SeqIs
<1>8. FrontOK(s, n)
  <2> SUFFICES ASSUME s # <<>>, s[1].c = "submit" PROVE s[1].op.id \in {0, n + 1}
    BY DEF FrontOK
  <2>1. CASE 1 \in DOMAIN new
    BY <1>2, <1>6, <2>1 DEF FrontOK
  <2>2. CASE 1 \notin DOMAIN new
    <3>1. Len(new) = 0
      BY <1>2, <2>2
    <3>2. 1 \in DOMAIN r /\ s[1] = r[1]
      <4>1. 1 - Len(new) = 1 /\ Len(new) + 1 = 1
        BY <3>1
      <4>2. 1 \in DOMAIN r
        BY <1>6, <1>7, <2>2, <4>1
      <4> QED BY <1>6, <4>1, <4>2
    <3>3. r # <<>>
      BY <1>2, <3>2
    <3> QED BY <1>1, <3>2, <3>3 DEF FrontOK
  <2> QED BY <2>1, <2>2
<1>9. LeavesOK(s, scopes)
  <2> SUFFICES ASSUME NEW i \in DOMAIN s, s[i].c = "leave", ~(Len(scopes) > 1)
               PROVE  \E j \in 1..(i - 1) : s[j].c = "enter"
    BY DEF LeavesOK
  <2>1. i \notin DOMAIN new
    BY <1>6 DEF MayReplace
  <2> DEFINE k == i - Len(new)
  <2>2. k \in DOMAIN r /\ i = Len(new) + k
    BY <1>6, <2>1
  <2>3. s[i] = r[k]
    BY <1>6, <2>2
  <2> HIDE DEF k
  <2>4. PICK j \in 1..(k - 1) : r[j].c = "enter"
    BY <1>1, <2>2, <2>3 DEF LeavesOK
  <2>5. j \in DOMAIN r /\ Len(new) + j \in 1..(i - 1)
    BY <1>2, <2>2
  <2> QED BY <1>6, <2>4, <2>5
<1>10. CallOK(s, n, g, scopes)
  BY <1>5, <1>6, <1>8, <1>9 DEF CallOK, Policy
<1> QED BY <1>10 DEF s, r

\* A prefix is launched by the item in front or by one behind it.
LEMMA LaunchingIs ==
  ASSUME StackOK, stack # <<>>
  PROVE  /\ Launching <=> Launches(Top) \/ LaunchingIn(Rest)
         /\ ~Harmless(Top) => \A i \in DOMAIN Rest : Rest[i].c # "stream"
         /\ ~Harmless(Top) => ~LaunchingIn(Rest)
         /\ Launching => Streaming(Policy)
PROOF
<1>1. /\ Top = stack[1] /\ IsSeq(Rest)
      /\ \A i \in DOMAIN Rest : Before(Top, Rest[i]) /\ Rest[i] = stack[i + 1] /\ i + 1 \in DOMAIN stack
  BY RestIs DEF StackOK
<1>2. IsSeq(stack) /\ \A i \in DOMAIN stack : Fits(stack[i], Policy)
  BY DEF StackOK, CallOK, ItemsOK, Policy
<1>3. /\ Len(stack) \in Nat /\ DOMAIN stack = 1..Len(stack) /\ 1 \in DOMAIN stack
      /\ Len(Rest) = Len(stack) - 1 /\ DOMAIN Rest = 1..Len(Rest)
  BY <1>1, <1>2, SeqIs, TailIs DEF Rest
<1>4. ASSUME Launching PROVE Launches(Top) \/ LaunchingIn(Rest)
  <2>1. PICK i \in DOMAIN stack : Launches(stack[i])
    BY <1>4 DEF Launching, LaunchingIn
  <2>2. CASE i = 1
    BY <1>1, <2>1, <2>2
  <2>3. CASE i # 1
    <3>1. i - 1 \in DOMAIN Rest /\ (i - 1) + 1 = i
      BY <1>3, <2>3
    <3>2. Rest[i - 1] = stack[i]
      BY <1>1, <3>1
    <3> QED BY <2>1, <3>1, <3>2 DEF LaunchingIn
  <2> QED BY <2>2, <2>3
<1>5. ASSUME Launches(Top) \/ LaunchingIn(Rest) PROVE Launching
  BY <1>1, <1>3, <1>5 DEF Launching, LaunchingIn
<1>6. ~Harmless(Top) => \A i \in DOMAIN Rest : Rest[i].c # "stream"
  BY <1>1 DEF Before
<1>7. ~Harmless(Top) => ~LaunchingIn(Rest)
  BY <1>6 DEF LaunchingIn, Launches
<1>8. Launching => Streaming(Policy)
  BY <1>2 DEF Launching, LaunchingIn, Launches, Fits
<1> QED BY <1>4, <1>5, <1>6, <1>7, <1>8

\* So after new items have been put in front.
LEMMA LaunchingAfter ==
  ASSUME NEW s, NEW t, IsSeq(s), IsSeq(t)
  PROVE  LaunchingIn(s \o t) <=> LaunchingIn(s) \/ LaunchingIn(t)
PROOF
<1> DEFINE u == s \o t
<1>1. /\ IsSeq(u) /\ Len(u) = Len(s) + Len(t)
      /\ \A i \in DOMAIN s : u[i] = s[i]
      /\ \A i \in DOMAIN t : u[Len(s) + i] = t[i]
      /\ \A i \in DOMAIN u : i \in DOMAIN s \/ (i - Len(s) \in DOMAIN t /\ i = Len(s) + (i - Len(s)))
  BY ConcatIs
<1>2. /\ Len(s) \in Nat /\ DOMAIN s = 1..Len(s) /\ Len(t) \in Nat /\ DOMAIN t = 1..Len(t)
  BY SeqIs
<1> HIDE DEF u
<1>3. DOMAIN u = 1..Len(u)
  BY <1>1, SeqIs
<1>4. \A i \in DOMAIN s : i \in DOMAIN u
  BY <1>1, <1>2, <1>3
<1>5. \A i \in DOMAIN t : Len(s) + i \in DOMAIN u
  BY <1>1, <1>2, <1>3
<1>6. LaunchingIn(s) => LaunchingIn(u)
  BY <1>1, <1>4 DEF LaunchingIn
<1>7. LaunchingIn(t) => LaunchingIn(u)
  BY <1>1, <1>5 DEF LaunchingIn
<1>8. ASSUME LaunchingIn(u) PROVE LaunchingIn(s) \/ LaunchingIn(t)
  <2>1. PICK i \in DOMAIN u : Launches(u[i])
    BY <1>8 DEF LaunchingIn
  <2>2. CASE i \in DOMAIN s
    BY <1>1, <2>1, <2>2 DEF LaunchingIn
  <2>3. CASE i \notin DOMAIN s
    <3>1. i - Len(s) \in DOMAIN t /\ i = Len(s) + (i - Len(s))
      BY <1>1, <2>3
    <3>2. u[i] = t[i - Len(s)]
      BY <1>1, <3>1
    <3> QED BY <2>1, <3>1, <3>2 DEF LaunchingIn
  <2> QED BY <2>2, <2>3
<1> QED BY <1>6, <1>7, <1>8 DEF u

-----------------------------------------------------------------------------
(* Steps that launch nothing *)

\* No prefix is launched when a call begins.
LEMMA NoneLaunching == ASSUME stack = <<>> PROVE ~Launching
PROOF
<1>1. Len(stack) = 0 /\ DOMAIN stack = {}
  BY ShortSeqs
<1> QED BY <1>1 DEF Launching, LaunchingIn

\* What has been launched stays fenced unless a prefix is abandoned.
LEMMA LogSame ==
  ASSUME LogOK, log' = log, gens \in Nat, gens' \in Nat, gens <= gens', Launching => gens' = gens /\ Launching'
  PROVE  LogOK'
PROOF
<1>1. IsSeq(log') /\ FencedGenerations'
  BY DEF LogOK, FencedGenerations
<1>2. \A i \in DOMAIN log' : log'[i].gen \in 0..gens'
  BY DEF LogOK
<1>3. ASSUME NEW i \in DOMAIN log', log'[i].gen # 0
      PROVE  (\E k \in (i + 1)..Len(log') : log'[k].form = "fence") \/ (log'[i].gen = gens' /\ Launching')
  BY <1>3 DEF LogOK
<1> QED BY <1>1, <1>2, <1>3 DEF LogOK

\* A step that launches nothing, while no prefix is launched before or after it
LEMMA QuietStep ==
  ASSUME IInv, CallOK(stack', ids, gens, scopes), ~Launching, ~LaunchingIn(stack'), QueueOK(window', ids),
         UNCHANGED <<scopes, log, gens, ids>>
  PROVE  StackOK' /\ WindowOK' /\ LogOK'
PROOF
<1>1. StackOK'
  BY DEF StackOK
<1>2. ~Launching'
  BY DEF Launching
<1>3. QueueOK(window', ids')
  OBVIOUS
<1>4. WindowOK'
  BY <1>2, <1>3 DEF WindowOK
<1>5. LogOK'
  BY LogSame DEF IInv, DataOK
<1> QED BY <1>1, <1>4, <1>5

\* New items that may be in front of one another
Fresh(x) == /\ ItemOK(x, ids, gens) /\ x.c \notin {"new", "enter", "leave", "run", "stream"}
            /\ x.c = "submit" => x.op.id = 0

\* A list of operations that were just made may join the queue of calls: none has an id
\* yet, so that they are in order, hold no generation and leave no scope.
LEMMA FreshOnes ==
  ASSUME NEW s, IsSeq(s), \A i \in DOMAIN s : Fresh(s[i])
  PROVE  /\ InOrderOf(s) /\ ItemsOK(s, ids, gens, Policy) /\ FrontOK(s, ids) /\ ~LaunchingIn(s)
         /\ LeavesOK(s, scopes) /\ CallOK(s, ids, gens, scopes)
PROOF
<1>1. Len(s) \in Nat /\ DOMAIN s = 1..Len(s) /\ (s # <<>> => 1 \in DOMAIN s)
  BY SeqIs
<1>2. InOrderOf(s)
  <2> SUFFICES ASSUME NEW i \in DOMAIN s, NEW j \in 1..(i - 1) PROVE Before(s[j], s[i])
    BY DEF InOrderOf
  <2>1. j \in DOMAIN s
    BY <1>1
  <2>2. Fresh(s[i]) /\ Fresh(s[j])
    BY <2>1
  <2> QED BY <2>2 DEF Before, Fresh
<1>3. ItemsOK(s, ids, gens, Policy)
  BY DEF ItemsOK, Fresh, Fits
<1>4. FrontOK(s, ids)
  BY <1>1 DEF FrontOK, Fresh
<1>5. ~LaunchingIn(s) /\ LeavesOK(s, scopes)
  BY DEF LaunchingIn, Launches, LeavesOK, Fresh
<1> QED BY <1>2, <1>3, <1>4, <1>5 DEF CallOK, Policy

\* A step that puts new items in place of the one in front
LEMMA FreshStep ==
  ASSUME IInv, stack # <<>>, ~Harmless(Top), ~Launches(Top), Top.c # "enter",
         NEW new, IsSeq(new), \A i \in DOMAIN new : Fresh(new[i]),
         stack' = new \o Rest, QueueOK(window', ids), UNCHANGED <<scopes, log, gens, ids>>
  PROVE  StackOK' /\ WindowOK' /\ LogOK'
PROOF
<1>1. StackOK /\ ids \in Nat
  BY DEF IInv, DataOK
<1>2. InOrderOf(new) /\ ItemsOK(new, ids, gens, Policy) /\ FrontOK(new, ids) /\ ~LaunchingIn(new)
  BY FreshOnes
<1>3. \A i \in DOMAIN new : MayReplace(new[i], Top)
  BY DEF Fresh, MayReplace
<1>4. CallOK(new \o Rest, ids, gens, scopes)
  <2>1. ids <= ids
    BY <1>1
  <2> QED BY <1>1, <1>2, <1>3, <2>1, StackStep
<1>5. ~Launching /\ ~LaunchingIn(Rest) /\ IsSeq(Rest)
  BY <1>1, LaunchingIs, RestIs DEF StackOK
<1>6. ~LaunchingIn(new \o Rest)
  BY <1>2, <1>5, LaunchingAfter
<1> QED BY <1>4, <1>5, <1>6, QuietStep

\* Fresh items
LEMMA FreshItems ==
  /\ \A c \in {"match", "process", "matched", "issue"} : Fresh(Item(c))
  /\ \A by \in Causes : Fresh(Flush(by))
  /\ \A f \in Fields : \A c \in {"reuse", "detached"} : Fresh(ForField(c, f))
  /\ \A op : Waits(op) /\ op.id = 0 => Fresh(Submit(op))
  /\ \A x : FreesOnly(x) => Fresh(x) /\ Harmless(x)
PROOF
<1>1. ASSUME NEW c \in {"match", "process", "matched", "issue"} PROVE Fresh(Item(c))
  <2> DEFINE x == Item(c)
  <2>1. DOMAIN x = ItemFields /\ x.c = c /\ x.ops = <<>>
    BY ItemIs
  <2> HIDE DEF x
  <2>2. Fresh(x)
    BY <2>1 DEF Fresh, ItemOK, ItemKinds
  <2> QED BY <2>2 DEF x
<1>2. ASSUME NEW by \in Causes PROVE Fresh(Flush(by))
  <2> DEFINE x == Flush(by)
  <2>1. DOMAIN x = ItemFields /\ x.c = "flush" /\ x.ops = <<>> /\ x.by = by
    BY OtherItems
  <2> HIDE DEF x
  <2>2. Fresh(x)
    BY <2>1 DEF Fresh, ItemOK, ItemKinds
  <2> QED BY <2>2 DEF x
<1>3. ASSUME NEW f \in Fields, NEW c \in {"reuse", "detached"} PROVE Fresh(ForField(c, f))
  <2> DEFINE x == ForField(c, f)
  <2>1. DOMAIN x = ItemFields /\ x.c = c /\ x.ops = <<>> /\ x.field = f
    BY OtherItems
  <2> HIDE DEF x
  <2>2. Fresh(x)
    BY <2>1 DEF Fresh, ItemOK, ItemKinds
  <2> QED BY <2>2 DEF x
<1>4. ASSUME NEW op, Waits(op), op.id = 0 PROVE Fresh(Submit(op))
  <2> DEFINE x == Submit(op)
  <2>1. DOMAIN x = ItemFields /\ x.c = "submit" /\ x.ops = <<>> /\ x.op = op
    BY SubmitIs
  <2> HIDE DEF x
  <2>2. Fresh(x)
    BY <1>4, <2>1 DEF Fresh, ItemOK, ItemKinds
  <2> QED BY <2>2 DEF x
<1>5. ASSUME NEW x, FreesOnly(x) PROVE Fresh(x) /\ Harmless(x)
  BY <1>5 DEF FreesOnly, Fresh, ItemOK, Fits, ItemKinds, Harmless
<1> QED BY <1>1, <1>2, <1>3, <1>4, <1>5

\* Any sequence of two
LEMMA TwoOfThem ==
  ASSUME NEW s, NEW t, IsSeq(s), IsSeq(t), \A i \in DOMAIN s : Fresh(s[i]), \A i \in DOMAIN t : Fresh(t[i])
  PROVE  IsSeq(s \o t) /\ \A i \in DOMAIN (s \o t) : Fresh((s \o t)[i])
PROOF
<1> DEFINE u == s \o t
<1>1. /\ IsSeq(u) /\ \A i \in DOMAIN s : u[i] = s[i]
      /\ \A i \in DOMAIN t : u[Len(s) + i] = t[i]
      /\ \A i \in DOMAIN u : i \in DOMAIN s \/ (i - Len(s) \in DOMAIN t /\ i = Len(s) + (i - Len(s)))
  BY ConcatIs
<1> HIDE DEF u
<1>2. \A i \in DOMAIN u : Fresh(u[i])
  BY <1>1
<1> QED BY <1>1, <1>2 DEF u

\* None and one
LEMMA FreshShort ==
  /\ IsSeq(<<>>) /\ \A i \in DOMAIN <<>> : Fresh(<<>>[i])
  /\ \A x : Fresh(x) => IsSeq(<<x>>) /\ \A i \in DOMAIN <<x>> : Fresh(<<x>>[i])
  /\ \A x, y : Fresh(x) /\ Fresh(y) => IsSeq(<<x, y>>) /\ \A i \in DOMAIN <<x, y>> : Fresh(<<x, y>>[i])
PROOF
<1>1. IsSeq(<<>>) /\ \A i \in DOMAIN <<>> : Fresh(<<>>[i])
  BY ShortSeqs, SeqIs
<1>2. ASSUME NEW x, Fresh(x) PROVE IsSeq(<<x>>) /\ \A i \in DOMAIN <<x>> : Fresh(<<x>>[i])
  <2>1. IsSeq(<<x>>) /\ \A i \in DOMAIN <<x>> : <<x>>[i] = x
    BY ShortSeqs
  <2> QED BY <1>2, <2>1
<1>3. ASSUME NEW x, NEW y, Fresh(x), Fresh(y) PROVE IsSeq(<<x, y>>) /\ \A i \in DOMAIN <<x, y>> : Fresh(<<x, y>>[i])
  <2>1. IsSeq(<<x, y>>) /\ \A i \in DOMAIN <<x, y>> : <<x, y>>[i] \in {x, y}
    BY ShortSeqs
  <2> QED BY <1>3, <2>1
<1> QED BY <1>1, <1>2, <1>3

\* A single item
LEMMA OneItem ==
  ASSUME NEW x, NEW n, NEW g, NEW pol, ItemOK(x, n, g), Fits(x, pol), x.c = "submit" => x.op.id \in {0, n + 1}
  PROVE  /\ IsSeq(<<x>>) /\ InOrderOf(<<x>>) /\ ItemsOK(<<x>>, n, g, pol) /\ FrontOK(<<x>>, n)
         /\ LaunchingIn(<<x>>) <=> Launches(x)
         /\ \A i \in DOMAIN <<x>> : <<x>>[i] = x
PROOF
<1>1. IsSeq(<<x>>) /\ Len(<<x>>) = 1 /\ <<x>>[1] = x
  BY ShortSeqs
<1> DEFINE s == <<x>>
<1>2. IsSeq(s) /\ s[1] = x
  BY <1>1
<1>3. DOMAIN s = 1..1
  BY <1>1, SeqIs
<1> HIDE DEF s
<1>4. \A i \in DOMAIN s : i = 1 /\ s[i] = x
  BY <1>2, <1>3
<1>5. InOrderOf(s)
  <2> SUFFICES ASSUME NEW i \in DOMAIN s, NEW j \in 1..(i - 1) PROVE FALSE
    BY DEF InOrderOf
  <2> QED BY <1>4
<1>6. ItemsOK(s, n, g, pol) /\ FrontOK(s, n) /\ (LaunchingIn(s) <=> Launches(x))
  BY <1>2, <1>3, <1>4 DEF ItemsOK, FrontOK, LaunchingIn
<1>7. IsSeq(s) /\ InOrderOf(s) /\ ItemsOK(s, n, g, pol) /\ FrontOK(s, n) /\ (LaunchingIn(s) <=> Launches(x))
      /\ \A i \in DOMAIN s : s[i] = x
  BY <1>2, <1>4, <1>5, <1>6
<1> QED BY <1>7 DEF s

\* What a change of the policy calls
LEMMA ExchangeIs ==
  ASSUME NEW new, NEW old
  PROVE  IsSeq(Exchange(new, old)) /\ \A i \in DOMAIN Exchange(new, old) : Fresh(Exchange(new, old)[i])
PROOF
<1> DEFINE a == <<Submit(Plain("fence")), Item("match")>>
           b == <<Flush("scope")>>
           c == IF Streaming(new) \/ Streaming(old) THEN a ELSE <<>>
           OK(s) == IsSeq(s) /\ \A i \in DOMAIN s : Fresh(s[i])
<1>1. Fresh(Submit(Plain("fence"))) /\ Fresh(Item("match")) /\ Fresh(Flush("scope"))
  BY FreshItems, FenceIs DEF Causes
<1>2. OK(<<>>) /\ OK(a) /\ OK(b)
  BY <1>1, FreshShort
<1> HIDE DEF a, b
<1>3. OK(c)
  BY <1>2
<1> HIDE DEF c
<1>4. OK(c \o b)
  BY <1>2, <1>3, TwoOfThem
<1>5. Exchange(new, old) = IF new = old THEN <<>> ELSE c \o b
  BY DEF Exchange, a, b, c
<1> QED BY <1>2, <1>4, <1>5

\* One item behind fresh ones: a new store, the end of a scope that has begun, or its beginning
LEMMA ThenOne ==
  ASSUME NEW s, IsSeq(s), \A i \in DOMAIN s : Fresh(s[i]),
         NEW y, ItemOK(y, ids, gens), y.c \in {"new", "enter", "leave"}
  PROVE  /\ IsSeq(Append(s, y)) /\ InOrderOf(Append(s, y)) /\ ItemsOK(Append(s, y), ids, gens, Policy)
         /\ FrontOK(Append(s, y), ids) /\ ~LaunchingIn(Append(s, y))
         /\ \A i \in DOMAIN Append(s, y) : i # Len(s) + 1 => Fresh(Append(s, y)[i])
         /\ Append(s, y)[Len(s) + 1] = y
PROOF
<1> DEFINE a == Append(s, y)
<1>1. Len(s) \in Nat /\ DOMAIN s = 1..Len(s)
  BY SeqIs
<1>2. /\ IsSeq(a) /\ Len(a) = Len(s) + 1 /\ DOMAIN a = DOMAIN s \cup {Len(s) + 1}
      /\ \A i \in DOMAIN s : a[i] = s[i]
      /\ a[Len(s) + 1] = y
  BY AppendIs
<1> HIDE DEF a
<1>3. \A i \in DOMAIN a : i # Len(s) + 1 => Fresh(a[i])
  BY <1>2
<1>4. \A i \in DOMAIN a : a[i] = y \/ Fresh(a[i])
  BY <1>2
<1>5. InOrderOf(a)
  <2> SUFFICES ASSUME NEW i \in DOMAIN a, NEW j \in 1..(i - 1) PROVE Before(a[j], a[i])
    BY DEF InOrderOf
  <2>1. j \in DOMAIN a /\ j # Len(s) + 1
    BY <1>1, <1>2
  <2>2. Fresh(a[j])
    BY <1>3, <2>1
  <2>3. a[i] = y \/ Fresh(a[i])
    BY <1>4
  <2> QED BY <2>2, <2>3 DEF Before, Fresh
<1>6. ItemsOK(a, ids, gens, Policy)
  <2> SUFFICES ASSUME NEW i \in DOMAIN a PROVE ItemOK(a[i], ids, gens) /\ Fits(a[i], Policy)
    BY DEF ItemsOK
  <2>1. CASE a[i] = y
    BY <2>1 DEF Fits
  <2>2. CASE Fresh(a[i])
    BY <2>2 DEF Fits, Fresh
  <2> QED BY <1>4, <2>1, <2>2
<1>7. FrontOK(a, ids)
  <2> SUFFICES ASSUME a # <<>>, a[1].c = "submit" PROVE a[1].op.id \in {0, ids + 1}
    BY DEF FrontOK
  <2>1. 1 \in DOMAIN a
    BY <1>2, SeqIs
  <2>2. Fresh(a[1])
    BY <1>4, <2>1
  <2> QED BY <2>2 DEF Fresh
<1>8. ~LaunchingIn(a)
  <2> SUFFICES ASSUME NEW i \in DOMAIN a PROVE a[i].c # "stream"
    BY DEF LaunchingIn, Launches
  <2> QED BY <1>4 DEF Fresh
<1> QED BY <1>2, <1>3, <1>5, <1>6, <1>7, <1>8 DEF a

\* What ends a scope
LEMMA EndCallsIs ==
  ASSUME NEW cur, NEW outer, Len(scopes) > 1
  PROVE  CallOK(EndCalls(cur, outer), ids, gens, scopes) /\ ~LaunchingIn(EndCalls(cur, outer))
PROOF
<1> DEFINE x == Exchange(outer, cur)
           a == EndCalls(cur, outer)
<1>1. IsSeq(x) /\ \A i \in DOMAIN x : Fresh(x[i])
  BY ExchangeIs
<1>2. ItemOK(Leave, ids, gens) /\ Leave.c = "leave"
  BY ItemIs DEF Leave, ItemOK, ItemKinds
<1>3. a = Append(x, Leave)
  BY DEF EndCalls
<1> HIDE DEF x, a
<1>4. IsSeq(a) /\ InOrderOf(a) /\ ItemsOK(a, ids, gens, Policy) /\ FrontOK(a, ids) /\ ~LaunchingIn(a)
  BY <1>1, <1>2, <1>3, ThenOne
<1>5. CallOK(a, ids, gens, scopes) /\ ~LaunchingIn(a)
  BY <1>4 DEF CallOK, LeavesOK, Policy
<1> QED BY <1>5 DEF a

\* A scope that an exception finds beginning is entered and ended.
LEMMA EnterEnd ==
  ASSUME NEW e, ItemOK(e, ids, gens), e.c = "enter", NEW cur, NEW outer
  PROVE  /\ CallOK(<<e>> \o EndCalls(cur, outer), ids, gens, scopes)
         /\ ~LaunchingIn(<<e>> \o EndCalls(cur, outer))
PROOF
<1> DEFINE x == Exchange(outer, cur)
           a == EndCalls(cur, outer)
           h == <<e>>
           s == h \o a
<1>1. IsSeq(x) /\ \A i \in DOMAIN x : Fresh(x[i])
  BY ExchangeIs
<1>2. ItemOK(Leave, ids, gens) /\ Leave.c = "leave"
  BY ItemIs DEF Leave, ItemOK, ItemKinds
<1>3. a = Append(x, Leave)
  BY DEF EndCalls
<1> HIDE DEF x, a
<1>4. /\ IsSeq(a) /\ InOrderOf(a) /\ ItemsOK(a, ids, gens, Policy) /\ FrontOK(a, ids) /\ ~LaunchingIn(a)
      /\ \A i \in DOMAIN a : i # Len(x) + 1 => Fresh(a[i])
      /\ a[Len(x) + 1] = Leave
  BY <1>1, <1>2, <1>3, ThenOne
<1>5. /\ IsSeq(h) /\ InOrderOf(h) /\ ItemsOK(h, ids, gens, Policy) /\ FrontOK(h, ids)
      /\ LaunchingIn(h) <=> Launches(e)
      /\ \A i \in DOMAIN h : h[i] = e
  BY OneItem DEF Fits
<1>6. Len(h) = 1 /\ h[1] = e /\ DOMAIN h = 1..1
  BY ShortSeqs
<1> HIDE DEF h
<1>7. \A i \in DOMAIN a : Before(e, a[i])
  <2> TAKE i \in DOMAIN a
  <2>1. a[i].c = "leave" \/ Fresh(a[i])
    BY <1>2, <1>4
  <2> QED BY <2>1 DEF Before, Fresh
<1>8. InOrderOf(s) /\ ItemsOK(s, ids, gens, Policy)
  BY <1>4, <1>5, <1>7, ItemsConcat
<1>9. ~LaunchingIn(s)
  BY <1>4, <1>5, LaunchingAfter DEF Launches
<1>10. /\ IsSeq(s) /\ Len(s) = Len(h) + Len(a)
       /\ \A i \in DOMAIN h : s[i] = h[i]
  BY <1>4, <1>5, ConcatIs
<1> HIDE DEF s
<1>11. s[1] = e
  BY <1>5, <1>6, <1>10
<1>12. FrontOK(s, ids)
  BY <1>11 DEF FrontOK
<1>13. LeavesOK(s, scopes)
  <2> SUFFICES ASSUME NEW i \in DOMAIN s, s[i].c = "leave" PROVE \E j \in 1..(i - 1) : s[j].c = "enter"
    BY DEF LeavesOK
  <2>1. i # 1 /\ i \in Nat /\ 1 <= i
    BY <1>10, <1>11, SeqIs
  <2> QED BY <1>11, <2>1
<1>14. CallOK(s, ids, gens, scopes)
  BY <1>8, <1>10, <1>12, <1>13 DEF CallOK, Policy
<1> QED BY <1>9, <1>14 DEF s, h, a

\* Nothing, and the end of a scope alone
LEMMA NothingLeft ==
  /\ CallOK(<<>>, ids, gens, scopes) /\ ~LaunchingIn(<<>>) /\ QueueOK(<<>>, ids)
  /\ Len(scopes) > 1 => CallOK(<<Leave>>, ids, gens, scopes) /\ ~LaunchingIn(<<Leave>>)
PROOF
<1>1. CallOK(<<>>, ids, gens, scopes) /\ ~LaunchingIn(<<>>)
  BY FreshShort, FreshOnes
<1>2. QueueOK(<<>>, ids)
  BY ShortSeqs, SeqIs DEF QueueOK
<1>3. ASSUME Len(scopes) > 1 PROVE CallOK(<<Leave>>, ids, gens, scopes) /\ ~LaunchingIn(<<Leave>>)
  <2>1. ItemOK(Leave, ids, gens) /\ Leave.c = "leave"
    BY ItemIs DEF Leave, ItemOK, ItemKinds
  <2> DEFINE s == <<Leave>>
  <2>2. /\ IsSeq(s) /\ InOrderOf(s) /\ ItemsOK(s, ids, gens, Policy) /\ FrontOK(s, ids)
        /\ LaunchingIn(s) <=> Launches(Leave)
    BY <2>1, OneItem DEF Fits
  <2> HIDE DEF s
  <2>3. CallOK(s, ids, gens, scopes) /\ ~LaunchingIn(s)
    BY <1>3, <2>1, <2>2 DEF CallOK, LeavesOK, Policy, Launches
  <2> QED BY <2>3 DEF s
<1> QED BY <1>1, <1>2, <1>3

\* An exception leaves a call that ends the scope it was in.
LEMMA ThrowIs ==
  ASSUME NEW items, IsSeq(items), ItemsOK(items, ids, gens, Policy), LeavesOK(items, scopes), NEW why, Throw(why, items)
  PROVE  CallOK(stack', ids, gens, scopes) /\ ~LaunchingIn(stack') /\ QueueOK(window', ids) /\ wr' = mem
PROOF
<1> DEFINE enters == {i \in DOMAIN items : items[i].c = "enter"}
           e == items[CHOOSE i \in enters : TRUE]
           Good(s) == CallOK(s, ids, gens, scopes) /\ ~LaunchingIn(s)
<1>1. Good(Unwound(items))
  <2>1. CASE enters # {}
    <3>1. Unwound(items) = <<e>> \o EndCalls(e.pol, Policy)
      BY <2>1 DEF Unwound
    <3>2. (CHOOSE i \in enters : TRUE) \in enters
      BY <2>1
    <3>3. ItemOK(e, ids, gens) /\ e.c = "enter"
      BY <3>2 DEF ItemsOK
    <3> HIDE DEF e
    <3>4. Good(<<e>> \o EndCalls(e.pol, Policy))
      BY <3>3, EnterEnd
    <3> QED BY <3>1, <3>4
  <2>2. CASE enters = {} /\ \E i \in DOMAIN items : items[i].c = "leave"
    <3>1. Unwound(items) = <<Leave>>
      BY <2>2 DEF Unwound
    <3>2. PICK i \in DOMAIN items : items[i].c = "leave"
      BY <2>2
    <3>3. \A j \in 1..(i - 1) : items[j].c # "enter" \/ j \notin DOMAIN items
      BY <2>2
    <3>4. Len(scopes) > 1
      <4>1. \A j \in 1..(i - 1) : j \in DOMAIN items
        BY <3>2, SeqIs
      <4> QED BY <3>2, <3>3, <4>1 DEF LeavesOK
    <3> QED BY <3>1, <3>4, NothingLeft
  <2>3. CASE enters = {} /\ ~ \E i \in DOMAIN items : items[i].c = "leave"
    <3>1. Unwound(items) = <<>>
      BY <2>3 DEF Unwound
    <3> QED BY <3>1, NothingLeft
  <2> QED BY <2>1, <2>2, <2>3
<1>2. Good(stack')
  BY <1>1, NothingLeft DEF Throw
<1>3. QueueOK(window', ids) /\ wr' = mem
  BY NothingLeft DEF Throw, ClearedOnThrow
<1> QED BY <1>2, <1>3

-----------------------------------------------------------------------------
(* One lemma for each step of the runtime *)

\* Nothing in front of a sequence
LEMMA NothingInFront == ASSUME NEW s, IsSeq(s) PROVE <<>> \o s = s
BY DEF IsSeq

\* The item in front is done.
LEMMA ItemDone ==
  ASSUME IInv, stack # <<>>, ~Harmless(Top), ~Launches(Top), Top.c # "enter", stack' = Rest,
         UNCHANGED <<scopes, window, log, gens, ids>>
  PROVE  StackOK' /\ WindowOK' /\ LogOK'
PROOF
<1>1. IsSeq(Rest) /\ QueueOK(window', ids)
  BY RestIs DEF IInv, StackOK, WindowOK
<1>2. stack' = <<>> \o Rest
  BY <1>1, NothingInFront
<1> QED BY <1>1, <1>2, FreshShort, FreshStep

\* What is in front does not launch anything, nor free a field.
LEMMA NotHarmless == Top.c # "submit" => ~Harmless(Top)
BY DEF Harmless

\* A flush returns: its empty frame leaves the stack.
LEMMA EndFlushOK ==
  ASSUME IInv, EndFlush PROVE IInv'
PROOF
<1>1. stack # <<>> /\ Top.c \in {"run", "stream"} /\ (Top.c = "stream" => Top.ops = <<>>) /\ stack' = Rest
      /\ UNCHANGED <<window, scopes, exc, progVars, dataVars, log, gens, matchVars, ids, calls>>
  BY DEF EndFlush, At
<1>2. StackOK' /\ WindowOK' /\ LogOK'
  BY <1>1, ItemDone, NotHarmless DEF Launches
<1>3. DataOK'
  BY <1>1 DEF IInv, DataOK, progVars, dataVars, matchVars
<1> QED BY <1>2, <1>3 DEF IInv

\* issue_field_match and the match that is waited for ask for flushes and count;
\* they move no operation.
LEMMA DoMatchOK ==
  ASSUME IInv, DoMatch PROVE IInv'
PROOF
<1> DEFINE OK(s) == IsSeq(s) /\ \A i \in DOMAIN s : Fresh(s[i])
<1>1. UNCHANGED <<window, scopes, exc, progVars, dataVars, log, gens, ids, calls>>
  BY DEF DoMatch
<1>2. OK(<<>>) /\ OK(Process) /\ OK(<<Item("issue")>>)
  <2>1. Fresh(Flush("match")) /\ Fresh(Item("matched")) /\ Fresh(Item("issue"))
    BY FreshItems DEF Causes
  <2>2. OK(<<>>) /\ OK(<<Flush("match"), Item("matched")>>) /\ OK(<<Item("issue")>>)
    BY <2>1, FreshShort
  <2> QED BY <2>2 DEF Process
<1>3. QueueOK(window', ids)
  BY <1>1 DEF IInv, WindowOK
<1>4. \A new : stack # <<>> /\ Top.c \in {"match", "process"} /\ OK(new) /\ stack' = new \o Rest
               => StackOK' /\ WindowOK' /\ LogOK'
  BY <1>1, <1>3, FreshStep, NotHarmless DEF Launches
<1>5. \/ /\ At("match")
         /\ stack' = (IF Freq > 0 /\ credit >= Freq THEN Process \o <<Item("issue")>> ELSE <<>>) \o Rest
         /\ UNCHANGED matchVars
      \/ At("process") /\ stack' = Process \o Rest /\ UNCHANGED matchVars
      \/ At("matched") /\ stack' = Rest /\ outstanding' = FALSE /\ UNCHANGED credit
      \/ At("issue") /\ stack' = Rest /\ outstanding' = TRUE /\ credit' = 0
  BY DEF DoMatch
<1>6. outstanding' \in BOOLEAN /\ credit' \in 0..Freq
  <2>1. credit \in 0..Freq /\ outstanding \in BOOLEAN /\ 0 \in 0..Freq
    BY WindowAssumption DEF IInv, DataOK
  <2>2. (credit' = credit \/ credit' = 0) /\ (outstanding' = outstanding \/ outstanding' = FALSE \/ outstanding' = TRUE)
    BY <1>5 DEF matchVars
  <2> QED BY <2>1, <2>2
<1>7. DataOK'
  BY <1>1, <1>6 DEF IInv, DataOK, progVars, dataVars
<1>8. StackOK' /\ WindowOK' /\ LogOK'
  <2>1. CASE At("match") /\ stack' = (IF Freq > 0 /\ credit >= Freq THEN Process \o <<Item("issue")>> ELSE <<>>) \o Rest
    <3> DEFINE new == IF Freq > 0 /\ credit >= Freq THEN Process \o <<Item("issue")>> ELSE <<>>
    <3>1. OK(Process \o <<Item("issue")>>)
      BY <1>2, TwoOfThem
    <3>2. OK(new) /\ stack' = new \o Rest /\ stack # <<>> /\ Top.c = "match"
      BY <1>2, <2>1, <3>1 DEF At
    <3> HIDE DEF new
    <3> QED BY <1>4, <3>2
  <2>2. CASE At("process") /\ stack' = Process \o Rest
    BY <1>2, <1>4, <2>2 DEF At
  <2>3. CASE (At("matched") \/ At("issue")) /\ stack' = Rest
    <3>1. stack # <<>> /\ Top.c \in {"matched", "issue"}
      BY <2>3 DEF At
    <3> QED BY <1>1, <2>3, <3>1, ItemDone, NotHarmless DEF Launches
  <2> QED BY <1>5, <2>1, <2>2, <2>3
<1> QED BY <1>7, <1>8 DEF IInv

\* A call is broken off, or left by an exception.
LEMMA CallBroken ==
  ASSUME IInv, stack # <<>>, ~Harmless(Top), ~Launches(Top), CallOK(stack', ids, gens, scopes), ~LaunchingIn(stack'),
         QueueOK(window', ids), UNCHANGED <<scopes, log, gens, ids>>
  PROVE  StackOK' /\ WindowOK' /\ LogOK'
PROOF
<1>1. ~Launching
  BY LaunchingIs DEF IInv
<1> QED BY <1>1, QuietStep

\* try_reuse_field_ flushes for the detach of the field, or finds it missing.
LEMMA ReuseOK ==
  ASSUME IInv, Reuse PROVE IInv'
PROOF
<1>1. UNCHANGED <<window, scopes, progVars, dataVars, log, gens, matchVars, ids, calls>>
  BY DEF Reuse
<1>2. DataOK'
  BY <1>1 DEF IInv, DataOK, progVars, dataVars, matchVars
<1>3. QueueOK(window', ids)
  BY <1>1 DEF IInv, WindowOK
<1>4. stack # <<>> /\ Top.c \in {"reuse", "detached"}
  BY DEF Reuse, At
<1>5. ~Harmless(Top) /\ ~Launches(Top) /\ Top.c # "enter"
  BY <1>4, NotHarmless DEF Launches
<1>6. StackOK' /\ WindowOK' /\ LogOK'
  <2>1. CASE Top.c = "reuse"
    <3> DEFINE f == Top.field
               new == IF att[f] = "pending" THEN <<Flush("reuse"), ForField("detached", f)>> ELSE <<>>
               OK(s) == IsSeq(s) /\ \A i \in DOMAIN s : Fresh(s[i])
    <3>1. stack' = new \o Rest
      BY <2>1 DEF Reuse, At
    <3>2. f \in Fields
      BY <1>4, <2>1, RestIs DEF IInv, StackOK, ItemOK
    <3>3. Fresh(Flush("reuse")) /\ Fresh(ForField("detached", f))
      BY <3>2, FreshItems DEF Causes
    <3>4. OK(<<>>) /\ OK(<<Flush("reuse"), ForField("detached", f)>>)
      BY <3>3, FreshShort
    <3>5. OK(new)
      BY <3>4
    <3> HIDE DEF new
    <3> QED BY <1>1, <1>3, <1>4, <1>5, <3>1, <3>5, FreshStep
  <2>2. CASE Top.c = "detached" /\ stack' = Rest
    BY <1>1, <1>4, <1>5, <2>2, ItemDone
  <2>3. CASE Top.c = "detached" /\ stack' = <<>>
    <3>1. CallOK(stack', ids, gens, scopes) /\ ~LaunchingIn(stack')
      BY <2>3, NothingLeft
    <3> QED BY <1>1, <1>3, <1>4, <1>5, <3>1, CallBroken
  <2>4. Top.c = "detached" => stack' = Rest \/ stack' = <<>>
    BY DEF Reuse, At, Abort
  <2> QED BY <1>4, <2>1, <2>2, <2>3, <2>4
<1> QED BY <1>2, <1>6 DEF IInv

\* flush_scheduling_window sets out to run as many operations as there are, or, in a
\* streaming scope, to cut the window into prefixes once discards are propagated; or it throws.
LEMMA DoFlushOK ==
  ASSUME IInv, DoFlush PROVE IInv'
PROOF
<1>1. UNCHANGED <<scopes, alive, life, dataVars, log, gens, matchVars, ids, calls>>
  BY DEF DoFlush
<1>2. stack # <<>> /\ Top.c = "flush"
  BY DEF DoFlush, At
<1>3. ~Harmless(Top) /\ ~Launches(Top) /\ Top.c # "enter"
  BY <1>2, NotHarmless DEF Launches
<1>4. StackOK /\ QueueOK(window, ids) /\ ids \in Nat /\ gens \in Nat /\ wr \in [Fields -> 0..(ids + 1)]
      /\ mem \in [Fields -> 0..ids]
  BY DEF IInv, WindowOK, DataOK
<1>5. IsSeq(Rest) /\ ItemsOK(Rest, ids, gens, Policy) /\ LeavesOK(Rest, scopes) /\ ~Launching /\ ~LaunchingIn(Rest)
  BY <1>2, <1>3, <1>4, RestIs, LaunchingIs DEF StackOK, Policy
<1>6. \A x : /\ ItemOK(x, ids, gens) /\ Fits(x, Policy) /\ x.c \in {"run", "stream"} /\ x.ops = <<>>
             /\ stack' = <<x>> \o Rest
             => CallOK(stack', ids, gens, scopes) /\ ~LaunchingIn(stack')
  <2> TAKE x
  <2> HAVE /\ ItemOK(x, ids, gens) /\ Fits(x, Policy) /\ x.c \in {"run", "stream"} /\ x.ops = <<>>
           /\ stack' = <<x>> \o Rest
  <2> DEFINE s == <<x>>
  <2>1. /\ IsSeq(s) /\ InOrderOf(s) /\ ItemsOK(s, ids, gens, Policy) /\ FrontOK(s, ids)
        /\ LaunchingIn(s) <=> Launches(x)
        /\ \A i \in DOMAIN s : s[i] = x
    BY OneItem
  <2> HIDE DEF s
  <2>2. \A i \in DOMAIN s : MayReplace(s[i], Top)
    BY <1>3, <2>1 DEF MayReplace
  <2>3. CallOK(s \o Rest, ids, gens, scopes)
    <3>1. ids <= ids
      BY <1>4
    <3> QED BY <1>2, <1>3, <1>4, <2>1, <2>2, <3>1, StackStep
  <2>4. ~LaunchingIn(s \o Rest)
    BY <1>5, <2>1, LaunchingAfter DEF Launches
  <2> QED BY <2>3, <2>4 DEF s
<1>7. /\ CallOK(stack', ids, gens, scopes) /\ ~LaunchingIn(stack') /\ QueueOK(window', ids)
      /\ wr' \in [Fields -> 0..(ids + 1)]
  <2>1. CASE ~Streaming(Policy)
    <3> DEFINE x == [Item("run") EXCEPT !.n = Len(window)]
    <3>1. stack' = <<x>> \o Rest /\ UNCHANGED <<window, wr>>
      BY <2>1 DEF DoFlush
    <3>2. DOMAIN x = ItemFields /\ x.c = "run" /\ x.ops = <<>>
      BY ItemIs, ItemWith
    <3> HIDE DEF x
    <3>3. ItemOK(x, ids, gens) /\ Fits(x, Policy)
      BY <2>1, <3>2 DEF ItemOK, ItemKinds, Fits
    <3> QED BY <1>4, <1>6, <3>1, <3>2, <3>3
  <2>2. CASE Streaming(Policy) /\ Policy.mode = "strict" /\ Top.by # "scope"
    <3>1. Throw(Top.by, Rest)
      BY <2>2 DEF DoFlush
    <3>2. CallOK(stack', ids, gens, scopes) /\ ~LaunchingIn(stack') /\ QueueOK(window', ids) /\ wr' = mem
      BY <1>5, <3>1, ThrowIs
    <3> QED BY <1>4, <3>2
  <2>3. CASE Streaming(Policy) /\ ~(Policy.mode = "strict" /\ Top.by # "scope") /\ NoRegion(window)
    <3>1. stack' = <<>> /\ UNCHANGED <<window, wr>>
      BY <2>3 DEF DoFlush, Abort
    <3> QED BY <1>4, <3>1, NothingLeft
  <2>4. CASE Streaming(Policy) /\ ~(Policy.mode = "strict" /\ Top.by # "scope") /\ ~NoRegion(window)
    <3> DEFINE x == Item("stream")
    <3>1. stack' = <<x>> \o Rest /\ window' = PropagateDiscards(window) /\ UNCHANGED wr
      BY <2>4 DEF DoFlush
    <3>2. DOMAIN x = ItemFields /\ x.c = "stream" /\ x.ops = <<>>
      BY ItemIs
    <3> HIDE DEF x
    <3>3. PrefixOK(<<>>, ids, gens)
      BY ShortSeqs, SeqIs DEF PrefixOK
    <3>4. ItemOK(x, ids, gens) /\ Fits(x, Policy)
      BY <2>4, <3>2, <3>3 DEF ItemOK, ItemKinds, Fits
    <3>5. QueueOK(window', ids)
      BY <1>4, <3>1, PropagateIs
    <3> QED BY <1>4, <1>6, <3>1, <3>2, <3>4, <3>5
  <2> QED BY <2>1, <2>2, <2>3, <2>4
<1>8. StackOK' /\ WindowOK' /\ LogOK'
  BY <1>1, <1>2, <1>3, <1>7, CallBroken
<1>9. DataOK'
  BY <1>1, <1>7 DEF IInv, DataOK, dataVars, matchVars
<1> QED BY <1>8, <1>9 DEF IInv

\* An attach
LEMMA AttachIs ==
  ASSUME NEW f \in Fields, NEW l, NEW n
  PROVE  /\ Waits([Plain("attach") EXCEPT !.out = {f}, !.id = n, !.life = l])
         /\ [Plain("attach") EXCEPT !.out = {f}, !.id = n, !.life = l].id = n
BY DEF Plain, OpFields, Waits, IsOp, Kinds, Touched

\* The field backs a new store; an attached one submits its attach with the next id.
LEMMA NewStoreOK ==
  ASSUME IInv, NewStore PROVE IInv'
PROOF
<1> DEFINE f == Top.field
           op == [Plain("attach") EXCEPT !.out = {f}, !.id = ids + 1, !.life = (f :> life[f] + 1)]
           x == Submit(op)
           new == IF f \in Attached THEN <<x>> ELSE <<>>
<1>1. stack # <<>> /\ Top.c = "new"
  BY DEF NewStore, At
<1>2. /\ alive' = alive \cup {f} /\ region' = IF f \in Unbound THEN region ELSE region \cup {f}
      /\ wr' = [wr EXCEPT ![f] = IF f \in Attached THEN ids + 1 ELSE 0]
      /\ stack' = new \o Rest
      /\ UNCHANGED <<window, scopes, exc, att, mem, log, gens, matchVars, ids, calls>>
  BY DEF NewStore
<1>3. f \in Fields
  BY <1>1, RestIs DEF IInv, StackOK, ItemOK
<1>4. Waits(op) /\ op.id = ids + 1
  BY <1>3, AttachIs
<1> HIDE DEF op
<1>5. DOMAIN x = ItemFields /\ x.c = "submit" /\ x.ops = <<>> /\ x.op = op
  BY SubmitIs
<1> HIDE DEF x
<1>6. ItemOK(x, ids, gens) /\ Fits(x, Policy) /\ ~Launches(x) /\ x.op.id \in {0, ids + 1}
  BY <1>4, <1>5 DEF ItemOK, ItemKinds, Fits, Launches
<1>7. ~Harmless(Top) /\ ~Launches(Top) /\ Top.c # "enter"
  BY <1>1, NotHarmless DEF Launches
<1>8. StackOK /\ ids \in Nat /\ QueueOK(window', ids)
  BY <1>2 DEF IInv, DataOK, WindowOK
<1>9. /\ IsSeq(new) /\ InOrderOf(new) /\ ItemsOK(new, ids, gens, Policy) /\ FrontOK(new, ids) /\ ~LaunchingIn(new)
      /\ \A i \in DOMAIN new : MayReplace(new[i], Top)
  <2>1. CASE f \in Attached
    <3>1. /\ IsSeq(<<x>>) /\ InOrderOf(<<x>>) /\ ItemsOK(<<x>>, ids, gens, Policy) /\ FrontOK(<<x>>, ids)
          /\ ~LaunchingIn(<<x>>)
          /\ \A i \in DOMAIN <<x>> : <<x>>[i] = x
      BY <1>6, OneItem
    <3>2. MayReplace(x, Top)
      BY <1>5, <1>7 DEF MayReplace
    <3> QED BY <2>1, <3>1, <3>2
  <2>2. CASE f \notin Attached
    <3>1. IsSeq(<<>>) /\ \A i \in DOMAIN <<>> : Fresh(<<>>[i]) /\ MayReplace(<<>>[i], Top)
      BY ShortSeqs, SeqIs
    <3>2. InOrderOf(<<>>) /\ ItemsOK(<<>>, ids, gens, Policy) /\ FrontOK(<<>>, ids) /\ ~LaunchingIn(<<>>)
      BY <3>1, FreshOnes
    <3> QED BY <2>2, <3>1, <3>2
  <2> QED BY <2>1, <2>2
<1> HIDE DEF new
<1>10. CallOK(stack', ids, gens, scopes)
  <2>1. ids <= ids
    BY <1>8
  <2> QED BY <1>1, <1>2, <1>7, <1>8, <1>9, <2>1, StackStep
<1>11. ~LaunchingIn(stack')
  <2>1. IsSeq(Rest) /\ ~LaunchingIn(Rest)
    BY <1>1, <1>7, <1>8, RestIs, LaunchingIs DEF StackOK
  <2> QED BY <1>2, <1>9, <2>1, LaunchingAfter
<1>12. StackOK' /\ WindowOK' /\ LogOK'
  BY <1>1, <1>2, <1>7, <1>8, <1>10, <1>11, CallBroken
<1>13. wr' \in [Fields -> 0..(ids + 1)]
  <2>1. wr \in [Fields -> 0..(ids + 1)] /\ ids + 1 \in 0..(ids + 1) /\ 0 \in 0..(ids + 1)
    BY <1>8 DEF IInv, DataOK
  <2> HIDE DEF f
  <2> QED BY <1>2, <1>3, <2>1
<1>14. DataOK'
  <2>1. alive' \subseteq Fields /\ region' \subseteq Fields
    BY <1>2, <1>3 DEF IInv, DataOK
  <2> QED BY <1>2, <1>13, <2>1 DEF IInv, DataOK, matchVars
<1> QED BY <1>12, <1>14 DEF IInv

\* The policy changes when nothing is launched under it.
LEMMA PolicyStep ==
  ASSUME IInv, stack # <<>>, Top.c \in {"enter", "leave"}, stack' = Rest, Top.c = "leave" \/ Len(scopes') > 1,
         UNCHANGED <<window, log, gens, ids>>
  PROVE  StackOK' /\ WindowOK' /\ LogOK'
PROOF
<1>1. /\ IsSeq(Rest) /\ ItemsOK(Rest, ids, gens, Policy) /\ InOrderOf(Rest)
      /\ \A i \in DOMAIN Rest : Before(Top, Rest[i])
      /\ FrontOK(Rest, ids)
  BY RestIs DEF IInv, StackOK, Policy
<1>2. \A i \in DOMAIN Rest : Rest[i].c \notin {"run", "stream"} /\ (Rest[i].c = "leave" => Top.c # "leave")
  BY <1>1 DEF Before, Harmless
<1>3. ItemsOK(Rest, ids, gens, Last(scopes'))
  BY <1>1, <1>2 DEF ItemsOK, Fits
<1>4. LeavesOK(Rest, scopes')
  BY <1>2 DEF LeavesOK
<1>5. StackOK'
  BY <1>1, <1>3, <1>4 DEF StackOK, CallOK
<1>6. ~LaunchingIn(Rest)
  BY <1>2 DEF LaunchingIn, Launches
<1>7. ~Launching /\ ~Launching'
  <2>1. ~Harmless(Top) /\ ~Launches(Top)
    BY DEF Harmless, Launches
  <2> QED BY <1>6, <2>1, LaunchingIs DEF IInv, Launching
<1>8. QueueOK(window', ids')
  BY DEF IInv, WindowOK
<1>9. WindowOK'
  BY <1>7, <1>8 DEF WindowOK
<1>10. LogOK'
  BY <1>7, LogSame DEF IInv, DataOK
<1> QED BY <1>5, <1>9, <1>10

\* The Scope's policy takes effect once the flush before it has returned.
LEMMA EnterOK ==
  ASSUME IInv, Enter PROVE IInv'
PROOF
<1>1. /\ stack # <<>> /\ Top.c = "enter" /\ scopes' = Append(scopes, Top.pol) /\ stack' = Rest
      /\ UNCHANGED <<window, exc, progVars, dataVars, log, gens, matchVars, ids, calls>>
  BY DEF Enter, At
<1>2. Top.pol \in Policies \cup {Off}
  BY <1>1, RestIs DEF IInv, StackOK, ItemOK
<1> DEFINE p == Top.pol
<1>3. IsSeq(scopes) /\ scopes # <<>> /\ \A i \in DOMAIN scopes : scopes[i] \in Policies \cup {Off}
  BY DEF IInv, DataOK
<1>4. /\ IsSeq(scopes') /\ Len(scopes') = Len(scopes) + 1 /\ DOMAIN scopes' = DOMAIN scopes \cup {Len(scopes) + 1}
      /\ \A i \in DOMAIN scopes : scopes'[i] = scopes[i]
      /\ scopes'[Len(scopes) + 1] = p
  <2> HIDE DEF p
  <2>1. scopes' = Append(scopes, p)
    BY <1>1 DEF p
  <2> QED BY <1>3, <2>1, AppendIs
<1>5. Len(scopes) \in Nat /\ Len(scopes) # 0
  BY <1>3, SeqIs
<1>6. \A i \in DOMAIN scopes' : scopes'[i] \in Policies \cup {Off}
  BY <1>2, <1>3, <1>4
<1>7. scopes' # <<>> /\ Len(scopes') > 1
  BY <1>4, <1>5, SeqIs
<1>8. DataOK'
  BY <1>1, <1>4, <1>6, <1>7 DEF IInv, DataOK, progVars, dataVars, matchVars
<1>9. StackOK' /\ WindowOK' /\ LogOK'
  BY <1>1, <1>7, PolicyStep
<1> QED BY <1>8, <1>9 DEF IInv

\* The scope is left once the flush at its end has returned, also when it threw.
LEMMA EndOfScopeOK ==
  ASSUME IInv, EndOfScope PROVE IInv'
PROOF
<1>1. /\ stack # <<>> /\ Top.c = "leave" /\ scopes' = Front(scopes) /\ stack' = Rest
      /\ UNCHANGED <<window, exc, progVars, dataVars, log, gens, matchVars, ids, calls>>
  BY DEF EndOfScope, At
<1>2. IsSeq(scopes) /\ scopes # <<>> /\ \A i \in DOMAIN scopes : scopes[i] \in Policies \cup {Off}
  BY DEF IInv, DataOK
<1>3. Len(scopes) > 1
  <2>1. IsSeq(stack) /\ LeavesOK(stack, scopes) /\ Top = stack[1]
    BY <1>1, RestIs DEF IInv, StackOK, CallOK
  <2>2. 1 \in DOMAIN stack
    BY <1>1, <2>1, SeqIs
  <2> QED BY <1>1, <2>1, <2>2 DEF LeavesOK
<1>4. Len(scopes) \in Nat
  BY <1>2, SeqIs
<1> DEFINE n == Len(scopes) - 1
<1>5. scopes' = SubSeq(scopes, 1, n)
  BY <1>1 DEF Front
<1>6. /\ IsSeq(scopes') /\ Len(scopes') = n
      /\ \A i \in DOMAIN scopes' : scopes'[i] = scopes[1 + i - 1] /\ 1 + i - 1 \in DOMAIN scopes
  <2>1. 1 \in 1..(Len(scopes) + 1) /\ n \in 0..Len(scopes) /\ 1 <= n + 1 /\ n - 1 + 1 = n
    BY <1>3, <1>4
  <2> HIDE DEF n
  <2> QED BY <1>2, <1>5, <2>1, SubSeqIs
<1>7. scopes' # <<>>
  BY <1>3, <1>4, <1>6, SeqIs
<1>8. \A i \in DOMAIN scopes' : scopes'[i] \in Policies \cup {Off}
  BY <1>2, <1>6
<1>9. DataOK'
  BY <1>1, <1>6, <1>7, <1>8 DEF IInv, DataOK, progVars, dataVars, matchVars
<1>10. StackOK' /\ WindowOK' /\ LogOK'
  BY <1>1, PolicyStep
<1> QED BY <1>9, <1>10 DEF IInv

-----------------------------------------------------------------------------
(* One lemma for each call of the program *)

\* A call begins.
LEMMA CallBegins ==
  ASSUME IInv, stack = <<>>, CallOK(stack', ids, gens, scopes), ~LaunchingIn(stack'), QueueOK(window', ids),
         UNCHANGED <<scopes, log, gens, ids>>
  PROVE  StackOK' /\ WindowOK' /\ LogOK'
BY NoneLaunching, QuietStep

\* An operation that the program gives
LEMMA TaskIs ==
  ASSUME NEW t \in Tasks
  PROVE  DOMAIN t = OpFields /\ t.gen = 0 /\ t.kind \in Kinds /\ Touched(t) \subseteq Fields
PROOF
<1>1. t = Given(t) /\ t.kind \in {"auto", "manual", "copy", "fill"} /\ Touched(t) \subseteq Fields
  BY TasksAssumption
<1> DEFINE g == Given(t)
<1>2. DOMAIN g = OpFields /\ g.gen = 0
  BY DEF Given, Plain, OpFields
<1>3. t = g
  BY <1>1
<1> HIDE DEF g
<1> QED BY <1>1, <1>2, <1>3 DEF Kinds

\* The program calls a task: its stores are written and the operation is submitted.
LEMMA CallIsOK ==
  ASSUME IInv, NEW t \in Tasks, Call(t) PROVE IInv'
PROOF
<1> DEFINE life0 == [f \in Touched(t) |-> life[f]]
           src == [f \in t.in \cup t.red |-> wr[f]]
           fl == t.flush \/ Touched(t) \cap Attached # {}
           op == [t EXCEPT !.id = ids + 1, !.od = Policy.od, !.life = life0, !.src = src, !.flush = fl]
           x == Submit(op)
<1>1. /\ stack = <<>> /\ stack' = <<x>>
      /\ wr' = [f \in Fields |-> IF f \in t.out \cup t.red THEN ids + 1 ELSE wr[f]]
      /\ UNCHANGED <<scopes, window, exc, alive, life, dataVars, log, gens, matchVars, ids>>
  BY DEF Call, Ready, Idle, Called
<1>2. Waits(op) /\ op.id = ids + 1
  <2>1. DOMAIN t = OpFields /\ t.gen = 0 /\ t.kind \in Kinds /\ Touched(t) \subseteq Fields
    BY TaskIs
  <2> HIDE DEF life0, src, fl
  <2> QED BY <2>1 DEF Waits, IsOp, Touched, OpFields, Plain
<1> HIDE DEF op
<1>3. DOMAIN x = ItemFields /\ x.c = "submit" /\ x.ops = <<>> /\ x.op = op
  BY SubmitIs
<1> HIDE DEF x
<1>4. ItemOK(x, ids, gens) /\ Fits(x, Policy) /\ ~Launches(x) /\ x.op.id \in {0, ids + 1}
  BY <1>2, <1>3 DEF ItemOK, ItemKinds, Fits, Launches
<1>5. CallOK(stack', ids, gens, scopes) /\ ~LaunchingIn(stack')
  <2>1. /\ IsSeq(<<x>>) /\ InOrderOf(<<x>>) /\ ItemsOK(<<x>>, ids, gens, Policy) /\ FrontOK(<<x>>, ids)
        /\ ~LaunchingIn(<<x>>)
        /\ \A i \in DOMAIN <<x>> : <<x>>[i] = x
    BY <1>4, OneItem
  <2>2. LeavesOK(<<x>>, scopes)
    BY <1>3, <2>1 DEF LeavesOK
  <2> QED BY <1>1, <2>1, <2>2 DEF CallOK, Policy
<1>6. QueueOK(window', ids)
  BY <1>1 DEF IInv, WindowOK
<1>7. StackOK' /\ WindowOK' /\ LogOK'
  BY <1>1, <1>5, <1>6, CallBegins
<1>8. wr' \in [Fields -> 0..(ids + 1)]
  <2>1. wr \in [Fields -> 0..(ids + 1)] /\ ids + 1 \in 0..(ids + 1)
    BY DEF IInv, DataOK
  <2> QED BY <1>1, <2>1
<1>9. DataOK'
  BY <1>1, <1>8 DEF IInv, DataOK, dataVars, matchVars
<1> QED BY <1>7, <1>9 DEF IInv

\* The smaller of two numbers
LEMMA MinIs ==
  ASSUME NEW a \in Nat, NEW b \in Nat
  PROVE  Min({a, b}) = IF a <= b THEN a ELSE b
PROOF
<1>1. CASE a <= b
  <2>1. a \in {a, b} /\ \A y \in {a, b} : a <= y
    BY <1>1
  <2>2. \A x \in {a, b} : (\A y \in {a, b} : x <= y) => x = a
    BY <1>1
  <2> QED BY <1>1, <2>1, <2>2 DEF Min
<1>2. CASE ~(a <= b)
  <2>1. b \in {a, b} /\ \A y \in {a, b} : b <= y
    BY <1>2
  <2>2. \A x \in {a, b} : (\A y \in {a, b} : x <= y) => x = b
    BY <1>2
  <2> QED BY <1>2, <2>1, <2>2 DEF Min
<1> QED BY <1>1, <1>2

\* The program makes a store: calls for a match and for the field come before it.
LEMMA CreateOK ==
  ASSUME IInv, NEW f \in Fields, Create(f) PROVE IInv'
PROOF
<1> DEFINE managed == Freq > 0 /\ f \notin Unbound
           a == IF managed /\ ~Streaming(Policy) THEN <<Item("match")>> ELSE <<>>
           b == IF life[f] > 0 THEN <<ForField("reuse", f)>>
                ELSE IF managed THEN <<Item("process")>> ELSE <<>>
           c == <<ForField("new", f)>>
           OK(s) == IsSeq(s) /\ \A i \in DOMAIN s : Fresh(s[i])
<1>1. /\ stack = <<>> /\ stack' = a \o b \o c
      /\ credit' = IF managed THEN Min({Freq, credit + 1}) ELSE credit
      /\ UNCHANGED <<scopes, window, exc, progVars, dataVars, log, gens, outstanding, ids>>
  BY DEF Create, Ready, Idle, Called
<1>2. credit' \in 0..Freq
  <2>1. credit \in 0..Freq /\ Freq \in Nat /\ credit + 1 \in Nat
    BY WindowAssumption DEF IInv, DataOK
  <2>2. Min({Freq, credit + 1}) \in 0..Freq
    BY <2>1, MinIs
  <2> QED BY <1>1, <2>1, <2>2
<1>3. Fresh(Item("match")) /\ Fresh(Item("process")) /\ Fresh(ForField("reuse", f))
  BY FreshItems
<1>4. OK(<<>>) /\ OK(<<Item("match")>>) /\ OK(<<Item("process")>>) /\ OK(<<ForField("reuse", f)>>)
  BY <1>3, FreshShort
<1>5. OK(a) /\ OK(b)
  BY <1>4
<1> HIDE DEF a, b
<1> DEFINE ab == a \o b
           y == ForField("new", f)
<1>6. OK(ab)
  BY <1>5, TwoOfThem
<1>11. stack' = ab \o <<y>>
  BY <1>1
<1> HIDE DEF ab
<1>12. ItemOK(y, ids, gens) /\ y.c = "new"
  <2>1. DOMAIN y = ItemFields /\ y.c = "new" /\ y.ops = <<>> /\ y.field = f
    BY OtherItems
  <2> HIDE DEF y
  <2> QED BY <2>1 DEF ItemOK, ItemKinds
<1> HIDE DEF y
<1>13. stack' = Append(ab, y)
  BY <1>6, <1>11, AppendIs
<1>7. CallOK(stack', ids, gens, scopes) /\ ~LaunchingIn(stack')
  <2> DEFINE s == Append(ab, y)
  <2>1. /\ IsSeq(s) /\ InOrderOf(s) /\ ItemsOK(s, ids, gens, Policy) /\ FrontOK(s, ids) /\ ~LaunchingIn(s)
        /\ \A i \in DOMAIN s : i # Len(ab) + 1 => Fresh(s[i])
        /\ s[Len(ab) + 1] = y
    BY <1>6, <1>12, ThenOne
  <2>2. stack' = s
    BY <1>13
  <2> HIDE DEF s
  <2>3. LeavesOK(s, scopes)
    <3>1. \A i \in DOMAIN s : s[i].c # "leave"
      BY <1>12, <2>1 DEF Fresh
    <3> QED BY <3>1 DEF LeavesOK
  <2> QED BY <2>1, <2>2, <2>3 DEF CallOK, Policy
<1>8. QueueOK(window', ids)
  BY <1>1 DEF IInv, WindowOK
<1>9. StackOK' /\ WindowOK' /\ LogOK'
  BY <1>1, <1>7, <1>8, CallBegins
<1>10. DataOK'
  BY <1>1, <1>2 DEF IInv, DataOK, progVars, dataVars
<1> QED BY <1>9, <1>10 DEF IInv

\* Freeing a field
LEMMA FreeCallsFresh ==
  ASSUME NEW f PROVE IsSeq(FreeCalls(f)) /\ \A i \in DOMAIN FreeCalls(f) : Fresh(FreeCalls(f)[i])
PROOF
<1> DEFINE s == FreeCalls(f)
<1>1. IsSeq(s) /\ Len(s) = 2 /\ \A i \in 1..2 : FreesOnly(s[i])
  BY FreeCallsAre
<1> HIDE DEF s
<1>2. \A i \in DOMAIN s : i = 1 \/ i = 2
  BY <1>1, SeqIs
<1>3. \A i \in DOMAIN s : Fresh(s[i])
  BY <1>1, <1>2, FreshItems
<1> QED BY <1>1, <1>3 DEF s

\* The program drops a store: its field is freed.
LEMMA DropOK ==
  ASSUME IInv, NEW f \in Fields, Drop(f) PROVE IInv'
PROOF
<1>1. /\ stack = <<>> /\ alive' = alive \ {f} /\ (stack' = FreeCalls(f) \/ stack' = <<>>)
      /\ UNCHANGED <<scopes, window, exc, life, wr, region, key, mem, log, gens, matchVars, ids>>
  BY DEF Drop, Ready, Idle, Called
<1>2. CallOK(stack', ids, gens, scopes) /\ ~LaunchingIn(stack')
  BY <1>1, FreeCallsFresh, FreshOnes, NothingLeft
<1>3. QueueOK(window', ids)
  BY <1>1 DEF IInv, WindowOK
<1>4. StackOK' /\ WindowOK' /\ LogOK'
  BY <1>1, <1>2, <1>3, CallBegins
<1>5. DataOK'
  BY <1>1 DEF IInv, DataOK, matchVars
<1> QED BY <1>4, <1>5 DEF IInv

\* The program enters a Scope: the flushes its constructor asks for, then the new policy.
LEMMA BeginScopeOK ==
  ASSUME IInv, NEW p \in Policies, BeginScope(p) PROVE IInv'
PROOF
<1> DEFINE enter == [Item("enter") EXCEPT !.pol = p]
<1>1. /\ stack = <<>> /\ UNCHANGED <<scopes, alive, life, dataVars, log, gens, matchVars, ids>>
      /\ \/ Throw("nesting", <<enter>>)
         \/ stack' = Append(Exchange(p, Policy), enter) /\ UNCHANGED <<window, exc, wr>>
  BY DEF BeginScope, Ready, Idle
<1>2. DOMAIN enter = ItemFields /\ enter.c = "enter" /\ enter.ops = <<>> /\ enter.pol = p
  BY ItemIs, ItemWith
<1> HIDE DEF enter
<1>3. ItemOK(enter, ids, gens) /\ Fits(enter, Policy)
  BY <1>2 DEF ItemOK, ItemKinds, Fits
<1>4. QueueOK(window, ids) /\ ids \in Nat /\ wr \in [Fields -> 0..(ids + 1)] /\ mem \in [Fields -> 0..ids]
  BY DEF IInv, WindowOK, DataOK
<1>5. /\ CallOK(stack', ids, gens, scopes) /\ ~LaunchingIn(stack') /\ QueueOK(window', ids)
      /\ wr' \in [Fields -> 0..(ids + 1)]
  <2>1. CASE Throw("nesting", <<enter>>)
    <3>1. /\ IsSeq(<<enter>>) /\ ItemsOK(<<enter>>, ids, gens, Policy)
          /\ \A i \in DOMAIN <<enter>> : <<enter>>[i] = enter
      BY <1>2, <1>3, OneItem
    <3>2. LeavesOK(<<enter>>, scopes)
      BY <1>2, <3>1 DEF LeavesOK
    <3>3. CallOK(stack', ids, gens, scopes) /\ ~LaunchingIn(stack') /\ QueueOK(window', ids) /\ wr' = mem
      BY <2>1, <3>1, <3>2, ThrowIs
    <3> QED BY <1>4, <3>3
  <2>2. CASE stack' = Append(Exchange(p, Policy), enter) /\ UNCHANGED <<window, exc, wr>>
    <3> DEFINE s == Exchange(p, Policy)
               a == Append(s, enter)
    <3>1. IsSeq(s) /\ \A i \in DOMAIN s : Fresh(s[i])
      BY ExchangeIs
    <3> HIDE DEF s
    <3>2. /\ IsSeq(a) /\ InOrderOf(a) /\ ItemsOK(a, ids, gens, Policy) /\ FrontOK(a, ids) /\ ~LaunchingIn(a)
          /\ \A i \in DOMAIN a : i # Len(s) + 1 => Fresh(a[i])
          /\ a[Len(s) + 1] = enter
      BY <1>2, <1>3, <3>1, ThenOne
    <3> HIDE DEF a
    <3>3. LeavesOK(a, scopes)
      <4>1. \A i \in DOMAIN a : a[i] = enter \/ Fresh(a[i])
        BY <3>2
      <4> QED BY <1>2, <4>1 DEF LeavesOK, Fresh
    <3>4. CallOK(a, ids, gens, scopes) /\ ~LaunchingIn(a)
      BY <3>2, <3>3 DEF CallOK, Policy
    <3> QED BY <1>4, <2>2, <3>4 DEF a, s
  <2> QED BY <1>1, <2>1, <2>2
<1>6. StackOK' /\ WindowOK' /\ LogOK'
  BY <1>1, <1>5, CallBegins
<1>7. DataOK'
  BY <1>1, <1>5 DEF IInv, DataOK, dataVars, matchVars
<1> QED BY <1>6, <1>7 DEF IInv

\* The program leaves a Scope: the flush of the streaming window, then the old policy.
LEMMA EndScopeOK ==
  ASSUME IInv, EndScope PROVE IInv'
PROOF
<1>1. /\ stack = <<>> /\ Len(scopes) > 1 /\ stack' = EndCalls(Policy, scopes[Len(scopes) - 1])
      /\ UNCHANGED <<scopes, window, exc, progVars, dataVars, log, gens, matchVars, ids, calls>>
  BY DEF EndScope, Idle
<1>2. CallOK(stack', ids, gens, scopes) /\ ~LaunchingIn(stack')
  BY <1>1, EndCallsIs
<1>3. QueueOK(window', ids)
  BY <1>1 DEF IInv, WindowOK
<1>4. StackOK' /\ WindowOK' /\ LogOK'
  BY <1>1, <1>2, <1>3, CallBegins
<1>5. DataOK'
  BY <1>1 DEF IInv, DataOK, progVars, dataVars, matchVars
<1> QED BY <1>4, <1>5 DEF IInv

\* Nothing of it changes.
LEMMA Unchanged ==
  ASSUME IInv, UNCHANGED <<scopes, window, stack, alive, region, wr, mem, log, gens, credit, outstanding, ids>>
  PROVE  IInv'
PROOF
<1>1. DataOK'
  BY DEF IInv, DataOK
<1>2. StackOK'
  BY DEF IInv, StackOK
<1>3. Launching' = Launching /\ Policy' = Policy
  BY DEF Launching, Policy
<1>4. WindowOK'
  BY <1>3 DEF IInv, WindowOK
<1>5. LogOK'
  BY <1>3, LogSame DEF IInv, DataOK
<1> QED BY <1>1, <1>2, <1>4, <1>5 DEF IInv

\* The program catches what a flush threw; only the exception is cleared.
LEMMA CatchOK == ASSUME IInv, Catch PROVE IInv'
PROOF
<1>1. UNCHANGED <<scopes, window, stack, alive, region, wr, mem, log, gens, credit, outstanding, ids>>
  BY DEF Catch, progVars, dataVars, matchVars
<1> QED BY <1>1, Unchanged

-----------------------------------------------------------------------------
(* Submission, extraction and launch *)

\* submit: the operation gets the next id and joins the window behind all earlier ones.
LEMMA DoSubmitOK ==
  ASSUME IInv, DoSubmit PROVE IInv'
PROOF
<1> DEFINE op == IF Top.op.id # 0 THEN Top.op ELSE [Top.op EXCEPT !.id = ids + 1]
           new == IF op.flush \/ TooBig(window') THEN <<Flush("op")>> ELSE <<>>
<1>1. /\ stack # <<>> /\ Top.c = "submit" /\ ids' = Max({ids, op.id}) /\ window' = Append(window, op)
      /\ stack' = new \o Rest
      /\ UNCHANGED <<scopes, exc, progVars, dataVars, log, gens, matchVars, calls>>
  BY DEF DoSubmit, At, Queued
<1>2. StackOK /\ QueueOK(window, ids) /\ ids \in Nat /\ gens \in Nat /\ LogOK
      /\ IsSeq(scopes) /\ scopes # <<>> /\ wr \in [Fields -> 0..(ids + 1)] /\ mem \in [Fields -> 0..ids]
  BY DEF IInv, WindowOK, DataOK
<1>3. /\ ItemOK(Top, ids, gens) /\ IsSeq(Rest) /\ ItemsOK(Rest, ids, gens, Policy)
      /\ \A i \in DOMAIN Rest : Before(Top, Rest[i])
      /\ Top = stack[1] /\ FrontOK(stack, ids)
  BY <1>1, <1>2, RestIs DEF StackOK, Policy
<1>4. Waits(op) /\ op.id = ids + 1 /\ op.flush = Top.op.flush /\ op.kind = Top.op.kind
  <2> DEFINE o == Top.op
  <2>1. Waits(o) /\ o.id \in {0, ids + 1} /\ DOMAIN o = OpFields
    BY <1>1, <1>3 DEF ItemOK, FrontOK, Waits, IsOp
  <2> HIDE DEF o
  <2>2. /\ SameOp([o EXCEPT !.id = ids + 1], o) /\ [o EXCEPT !.id = ids + 1].gen = o.gen
        /\ [o EXCEPT !.id = ids + 1].id = ids + 1
    BY <2>1, OpWith
  <2>3. op = IF o.id # 0 THEN o ELSE [o EXCEPT !.id = ids + 1]
    BY DEF o
  <2> HIDE DEF op
  <2>4. Waits(op) /\ op.id = ids + 1 /\ op.flush = o.flush /\ op.kind = o.kind
    <3>1. CASE o.id # 0
      BY <2>1, <2>3, <3>1
    <3>2. CASE o.id = 0
      BY <2>1, <2>2, <2>3, <3>2 DEF Waits, IsOp, SameOp
    <3> QED BY <3>1, <3>2
  <2> QED BY <2>4 DEF o
<1> HIDE DEF op
<1>5. ids' = ids + 1
  <2>1. ids + 1 \in Nat /\ ~(ids >= ids + 1)
    BY <1>2
  <2> QED BY <1>1, <1>2, <1>4, <2>1, MaxIs
<1>6. /\ QueueOK(window', ids')
      /\ \A i \in DOMAIN window' : (i \in DOMAIN window /\ window'[i] = window[i]) \/ window'[i] = op
  BY <1>1, <1>2, <1>4, <1>5, QueuedIs
<1>7. TooBig(window') => NoPrefixBehind
  <2>1. Len(scopes) \in DOMAIN scopes /\ Policy = scopes[Len(scopes)]
    BY <1>2, SeqIs DEF Policy, Last
  <2> QED BY <1>3, <2>1 DEF TooBig, NoPrefixBehind, ItemsOK, Fits
<1>8. /\ IsSeq(new) /\ InOrderOf(new) /\ ItemsOK(new, ids', gens, Policy) /\ FrontOK(new, ids') /\ ~LaunchingIn(new)
      /\ \A i \in DOMAIN new : MayReplace(new[i], Top)
  <2>1. CASE op.flush \/ TooBig(window')
    <3> DEFINE x == Flush("op")
    <3>1. DOMAIN x = ItemFields /\ x.c = "flush" /\ x.ops = <<>> /\ x.by \in Causes
      BY OtherItems DEF Causes
    <3>2. new = <<x>>
      BY <2>1
    <3> HIDE DEF x
    <3>3. ItemOK(x, ids', gens) /\ Fits(x, Policy) /\ ~Launches(x)
      BY <3>1 DEF ItemOK, ItemKinds, Fits, Launches
    <3>4. MayReplace(x, Top)
      BY <1>4, <1>7, <2>1, <3>1 DEF MayReplace, Harmless
    <3>5. /\ IsSeq(<<x>>) /\ InOrderOf(<<x>>) /\ ItemsOK(<<x>>, ids', gens, Policy) /\ FrontOK(<<x>>, ids')
          /\ ~LaunchingIn(<<x>>)
          /\ \A i \in DOMAIN <<x>> : <<x>>[i] = x
      BY <3>1, <3>3, OneItem
    <3> HIDE DEF new
    <3> QED BY <3>2, <3>4, <3>5
  <2>2. CASE ~(op.flush \/ TooBig(window'))
    <3>1. new = <<>>
      BY <2>2
    <3>2. IsSeq(<<>>) /\ DOMAIN <<>> = {}
      BY ShortSeqs, SeqIs
    <3> HIDE DEF new
    <3> QED BY <3>1, <3>2 DEF InOrderOf, ItemsOK, FrontOK, LaunchingIn
  <2> QED BY <2>1, <2>2
<1> HIDE DEF new
<1>9. CallOK(stack', ids', gens, scopes)
  <2>1. ids' \in Nat /\ ids <= ids' /\ Top.c # "enter"
    BY <1>1, <1>2, <1>5
  <2> QED BY <1>1, <1>2, <1>8, <2>1, StackStep
<1>10. Launching' <=> Launching
  <2>1. Launching <=> LaunchingIn(Rest)
    BY <1>1, <1>2, LaunchingIs DEF Launches
  <2>2. LaunchingIn(new \o Rest) <=> LaunchingIn(Rest)
    BY <1>3, <1>8, LaunchingAfter
  <2> QED BY <1>1, <2>1, <2>2 DEF Launching
<1>11. StackOK'
  BY <1>1, <1>9 DEF StackOK
<1>12. WindowOK'
  <2>1. ASSUME Launching, Policy.mode = "strict" PROVE \A i \in DOMAIN window' : ~IsTask(window'[i])
    <3>1. Harmless(Top)
      BY <1>1, <1>2, <2>1, LaunchingIs DEF Launches
    <3>2. ~IsTask(op)
      BY <1>4, <3>1 DEF Harmless, IsTask
    <3>3. \A i \in DOMAIN window : ~IsTask(window[i])
      BY <2>1 DEF IInv, WindowOK
    <3> QED BY <1>6, <3>2, <3>3
  <2>2. Policy' = Policy
    BY <1>1 DEF Policy
  <2> QED BY <1>6, <1>10, <2>1, <2>2 DEF WindowOK
<1>13. LogOK'
  <2>1. gens' = gens /\ log' = log /\ gens <= gens
    BY <1>1, <1>2
  <2> QED BY <1>2, <1>10, <2>1, LogSame
<1>14. DataOK'
  <2>1. ids' \in Nat /\ wr \in [Fields -> 0..(ids' + 1)] /\ mem \in [Fields -> 0..ids']
    BY <1>2, <1>5
  <2> QED BY <1>1, <2>1 DEF IInv, DataOK, progVars, dataVars, matchVars
<1> QED BY <1>11, <1>12, <1>13, <1>14 DEF IInv

\* A wider range
LEMMA Wider ==
  ASSUME NEW m \in Nat, NEW n \in Nat, m <= n, NEW f \in [Fields -> 0..m]
  PROVE  f \in [Fields -> 0..n]
OBVIOUS

\* The next prefix is cut from the window and gets the next generation, its fence the
\* next id; or a strict scope throws because something is left behind.
LEMMA ExtractOK ==
  ASSUME IInv, Extract PROVE IInv'
PROOF
<1> DEFINE n == PrefixLen(window)
           first == SubSeq(window, 1, n)
           ops == Fenced(first)
           x == [Top EXCEPT !.ops = Assigned(ops)]
<1>1. stack # <<>> /\ Top.c = "stream" /\ Top.ops = <<>> /\ window # <<>>
      /\ UNCHANGED <<scopes, alive, life, dataVars, log, matchVars, calls>>
  BY DEF Extract, At
<1>2. StackOK /\ QueueOK(window, ids) /\ ids \in Nat /\ gens \in Nat /\ LogOK
      /\ wr \in [Fields -> 0..(ids + 1)] /\ mem \in [Fields -> 0..ids]
  BY DEF IInv, WindowOK, DataOK
<1>3. /\ ItemOK(Top, ids, gens) /\ Fits(Top, Policy) /\ IsSeq(Rest) /\ ItemsOK(Rest, ids, gens, Policy)
      /\ LeavesOK(Rest, scopes)
  BY <1>1, <1>2, RestIs DEF StackOK, Policy
<1>4. ~Harmless(Top) /\ ~Launches(Top) /\ Top.c # "enter"
  BY <1>1, NotHarmless DEF Launches
<1>5. ~Launching
  BY <1>1, <1>2, <1>4, LaunchingIs
<1>6. n \in 1..Len(window) /\ Len(window) \in Nat
  BY <1>1, <1>2, PrefixLenIs, SeqIs DEF QueueOK
<1>7. CASE Policy.mode = "strict" /\ n < Len(window)
  <2>1. Throw("not streamable", Rest) /\ UNCHANGED <<ids, gens>>
    BY <1>7 DEF Extract
  <2>2. CallOK(stack', ids, gens, scopes) /\ ~LaunchingIn(stack') /\ QueueOK(window', ids) /\ wr' = mem
    BY <1>3, <2>1, ThrowIs
  <2>3. StackOK' /\ WindowOK' /\ LogOK'
    BY <1>1, <1>4, <2>1, <2>2, CallBroken
  <2>4. wr' \in [Fields -> 0..(ids + 1)]
    BY <1>2, <2>2
  <2>5. DataOK'
    BY <1>1, <2>1, <2>4 DEF IInv, DataOK, dataVars, matchVars
  <2> QED BY <2>3, <2>5 DEF IInv
<1>8. CASE ~(Policy.mode = "strict" /\ n < Len(window))
  <2>1. /\ stack' = <<x>> \o Rest /\ ids' = Max({ids, Last(ops).id}) /\ gens' = gens + 1
        /\ window' = SubSeq(window, n + 1, Len(window)) /\ UNCHANGED <<exc, wr>>
    BY <1>8 DEF Extract, Remainder
  <2>2. /\ QueueOK(first, ids) /\ Len(first) = n /\ QueueOK(window', ids) /\ Len(window') = Len(window) - n
    <3>1. n \in 0..Len(window)
      BY <1>6
    <3> HIDE DEF n
    <3> QED BY <1>2, <2>1, <3>1, CutsAre
  <2> HIDE DEF n
  <2>3. first # <<>>
    BY <1>6, <2>2, ShortSeqs
  <2> HIDE DEF first
  <2>4. /\ IsSeq(ops) /\ ops # <<>> /\ Last(ops).kind = "fence" /\ ids' \in Nat /\ ids' >= ids
        /\ \A i \in DOMAIN ops : Waits(ops[i]) /\ ops[i].id \in 1..ids'
    BY <1>2, <2>1, <2>2, <2>3, FencedIs
  <2> HIDE DEF ops
  <2> DEFINE a == Assigned(ops)
  <2>5. PrefixOK(a, ids', gens + 1)
    BY <1>2, <2>4, AssignedIs
  <2> HIDE DEF a
  <2>6. DOMAIN x = ItemFields /\ x.c = "stream" /\ x.ops = a
    <3>1. DOMAIN Top = ItemFields
      BY <1>3 DEF ItemOK
    <3> QED BY <1>1, <3>1, ItemWith DEF a
  <2> HIDE DEF x
  <2>7. ItemOK(x, ids', gens + 1) /\ Fits(x, Policy)
    BY <1>1, <1>3, <2>5, <2>6 DEF ItemOK, ItemKinds, Fits
  <2> DEFINE s == <<x>>
  <2>8. /\ IsSeq(s) /\ InOrderOf(s) /\ ItemsOK(s, ids', gens + 1, Policy) /\ FrontOK(s, ids')
        /\ \A i \in DOMAIN s : s[i] = x
    BY <2>6, <2>7, OneItem
  <2> HIDE DEF s
  <2>9. \A i \in DOMAIN s : MayReplace(s[i], Top)
    BY <1>4, <2>6, <2>8 DEF MayReplace
  <2>10. CallOK(stack', ids', gens', scopes)
    <3>1. ids' \in Nat /\ ids <= ids' /\ stack' = s \o Rest
      BY <1>2, <2>1, <2>4 DEF s
    <3> QED BY <1>1, <1>2, <1>4, <2>1, <2>8, <2>9, <3>1, StackStep
  <2>11. StackOK'
    BY <1>1, <2>10 DEF StackOK
  <2>12. QueueOK(window', ids')
    BY <1>2, <2>2, <2>4 DEF QueueOK
  <2>13. WindowOK'
    <3>1. Policy' = Policy
      BY <1>1 DEF Policy
    <3>2. Policy.mode = "strict" => DOMAIN window' = {}
      <4>1. Policy.mode = "strict" => Len(window') = 0
        BY <1>6, <1>8, <2>2
      <4>2. DOMAIN window' = 1..Len(window')
        BY <2>2, SeqIs DEF QueueOK
      <4> QED BY <4>1, <4>2
    <3> QED BY <2>12, <3>1, <3>2 DEF WindowOK
  <2>14. LogOK'
    <3>1. gens' \in Nat /\ gens <= gens' /\ log' = log
      BY <1>1, <1>2, <2>1
    <3> QED BY <1>2, <1>5, <3>1, LogSame
  <2>15. DataOK'
    <3>1. wr \in [Fields -> 0..(ids' + 1)] /\ mem \in [Fields -> 0..ids'] /\ gens' \in Nat
      <4>0. ids \in Nat /\ ids' \in Nat /\ ids' >= ids
        BY <1>2, <2>4
      <4> DEFINE m == ids'
      <4>5. ids \in Nat /\ m \in Nat /\ m >= ids
        BY <4>0
      <4> HIDE DEF m
      <4>6. ids <= m /\ ids + 1 \in Nat /\ m + 1 \in Nat /\ ids + 1 <= m + 1
        BY <4>5
      <4>1. ids \in Nat /\ ids' \in Nat /\ ids <= ids' /\ ids + 1 \in Nat /\ ids' + 1 \in Nat /\ ids + 1 <= ids' + 1
        BY <4>5, <4>6 DEF m
      <4>2. wr \in [Fields -> 0..(ids' + 1)] /\ mem \in [Fields -> 0..ids']
        BY <1>2, <4>1, Wider
      <4>3. gens + 1 \in Nat
        BY <1>2
      <4> QED BY <2>1, <4>2, <4>3
    <3> QED BY <1>1, <2>1, <2>4, <3>1 DEF IInv, DataOK, dataVars, matchVars
  <2> QED BY <2>11, <2>13, <2>14, <2>15 DEF IInv
<1> QED BY <1>7, <1>8

\* One sequence in front of two others
LEMMA ConcatTwice ==
  ASSUME NEW s, NEW t, NEW u, IsSeq(s), IsSeq(t), IsSeq(u)
  PROVE  (s \o t) \o u = s \o (t \o u)
PROOF
<1> DEFINE S == Range(s) \cup Range(t) \cup Range(u)
<1>1. s \in Seq(S) /\ t \in Seq(S) /\ u \in Seq(S)
  BY DEF IsSeq
<1> HIDE DEF S
<1> QED BY <1>1

\* Only a task of the generation being launched joins a generation.
LEMMA LogGrows ==
  ASSUME LogOK, gens \in Nat, gens' = gens, NEW e, log' = Append(log, e),
         e.gen = 0 \/ (e.gen = gens /\ Launching /\ Launching'),
         Launching => Launching' \/ e.form = "fence"
  PROVE  LogOK'
PROOF
<1> DEFINE n == Len(log)
<1>1. IsSeq(log) /\ n \in Nat /\ DOMAIN log = 1..n
  BY SeqIs DEF LogOK
<1>2. /\ IsSeq(log') /\ Len(log') = n + 1 /\ DOMAIN log' = DOMAIN log \cup {n + 1}
      /\ \A i \in DOMAIN log : log'[i] = log[i]
      /\ log'[n + 1] = e
  BY <1>1, AppendIs
<1>3. \A i \in DOMAIN log : /\ log[i].gen \in 0..gens
                            /\ log[i].gen # 0 => (\E k \in (i + 1)..n : log[k].form = "fence")
                                                  \/ (log[i].gen = gens /\ Launching)
  BY DEF LogOK
<1> HIDE DEF n
<1>4. \A i \in DOMAIN log' : log'[i].gen \in 0..gens'
  BY <1>2, <1>3
<1>5. ASSUME NEW i \in DOMAIN log', NEW j \in DOMAIN log', i < j,
             log'[i].gen # log'[j].gen, log'[i].gen # 0, log'[j].gen # 0
      PROVE  log'[i].gen < log'[j].gen /\ \E k \in i..j : log'[k].form = "fence"
  <2>1. i \in DOMAIN log
    BY <1>1, <1>2, <1>5
  <2>2. CASE j \in DOMAIN log
    <3>1. log[i].gen < log[j].gen /\ \E k \in i..j : log[k].form = "fence"
      BY <1>2, <1>5, <2>1, <2>2 DEF LogOK, FencedGenerations
    <3>2. \A k \in i..j : k \in DOMAIN log
      BY <1>1, <2>1, <2>2
    <3> QED BY <1>2, <2>1, <2>2, <3>1, <3>2
  <2>3. CASE j = n + 1
    <3>1. e.gen = gens /\ log[i].gen < gens
      BY <1>2, <1>3, <1>5, <2>1, <2>3
    <3>2. PICK k \in (i + 1)..n : log[k].form = "fence"
      BY <1>2, <1>3, <1>5, <2>1, <3>1
    <3>3. k \in DOMAIN log /\ k \in i..j
      BY <1>1, <2>1, <2>3
    <3> QED BY <1>2, <2>1, <2>3, <3>1, <3>2, <3>3
  <2> QED BY <1>2, <2>2, <2>3
<1>6. FencedGenerations'
  BY <1>5 DEF FencedGenerations
<1>7. ASSUME NEW i \in DOMAIN log', log'[i].gen # 0
      PROVE  (\E k \in (i + 1)..Len(log') : log'[k].form = "fence") \/ (log'[i].gen = gens' /\ Launching')
  <2>1. CASE i = n + 1
    BY <1>2, <1>7, <2>1
  <2>2. CASE i \in DOMAIN log
    <3>1. CASE \E k \in (i + 1)..n : log[k].form = "fence"
      <4>1. PICK k \in (i + 1)..n : log[k].form = "fence"
        BY <3>1
      <4>2. k \in DOMAIN log /\ k \in (i + 1)..Len(log')
        BY <1>1, <1>2, <2>2
      <4> QED BY <1>2, <4>1, <4>2
    <3>2. CASE log[i].gen = gens /\ Launching
      <4>1. CASE e.form = "fence"
        <5>1. n + 1 \in (i + 1)..Len(log') /\ log'[n + 1].form = "fence"
          BY <1>1, <1>2, <2>2, <4>1
        <5> QED BY <5>1
      <4>2. CASE Launching'
        BY <1>2, <2>2, <3>2, <4>2
      <4> QED BY <3>2, <4>1, <4>2
    <3> QED BY <1>2, <1>3, <1>7, <2>2, <3>1, <3>2
  <2> QED BY <1>2, <2>1, <2>2
<1> QED BY <1>2, <1>4, <1>6, <1>7 DEF LogOK

\* What launching does to the data
LEMMA LaunchData ==
  ASSUME IInv, NEW op, IsOp(op), op.id \in 1..ids, NEW items, Launch(op, items),
         UNCHANGED <<scopes, progVars, gens, outstanding, ids>>
  PROVE  DataOK'
PROOF
<1>1. /\ mem' = [f \in Fields |->
                   IF f \in op.drop \/ (op.kind = "discard" /\ f = op.field) THEN 0
                   ELSE IF f \in op.out \cup op.red THEN op.id ELSE mem[f]]
      /\ region' = region \cup op.out
      /\ credit' = Freq \/ credit' = credit
  BY DEF Launch
<1>2. mem \in [Fields -> 0..ids] /\ region \subseteq Fields /\ credit \in 0..Freq /\ ids \in Nat
  BY DEF IInv, DataOK
<1>3. mem' \in [Fields -> 0..ids]
  <2>1. 0 \in 0..ids /\ op.id \in 0..ids
    BY <1>2
  <2> QED BY <1>1, <1>2, <2>1
<1>4. region' \subseteq Fields
  BY <1>1, <1>2 DEF IsOp, Touched
<1>5. credit' \in 0..Freq
  <2>1. Freq \in 0..Freq
    BY WindowAssumption
  <2> QED BY <1>1, <1>2, <2>1
<1> QED BY <1>3, <1>4, <1>5 DEF IInv, DataOK, progVars

\* What launching leaves to do: fields are freed in front of what remains of the flush.
LEMMA LaunchStack ==
  ASSUME IInv, stack # <<>>, Top.c \in {"run", "stream"}, NEW op, IsOp(op),
         NEW x, ItemOK(x, ids, gens), x.c = Top.c, Launch(op, <<x>> \o Rest)
  PROVE  CallOK(stack', ids, gens, scopes) /\ (LaunchingIn(stack') <=> Launches(x))
PROOF
<1> DEFINE a == IF (op.out \cap Unbound # {} /\ Freq > 0) /\ ~Streaming(Policy) THEN <<Item("match")>> ELSE <<>>
           b == FreeAll(Dead(op))
           s == a \o b
           t == <<x>>
           new == s \o t
           OK(u) == IsSeq(u) /\ \A i \in DOMAIN u : Fresh(u[i])
<1>1. stack' = s \o (t \o Rest)
  BY DEF Launch
<1>2. /\ StackOK /\ ids \in Nat /\ IsSeq(Rest) /\ Fits(Top, Policy) /\ ~LaunchingIn(Rest)
      /\ ~Harmless(Top) /\ Top.c # "enter"
  BY RestIs, NotHarmless, LaunchingIs DEF IInv, DataOK, StackOK, Policy
<1>3. OK(b) /\ \A i \in DOMAIN b : Harmless(b[i])
  <2>1. IsFiniteSet(Dead(op))
    BY WindowAssumption, FS_Subset DEF Dead, IsOp, Touched
  <2> QED BY <2>1, FreeAllAre, FreshItems
<1>4. OK(<<>>) /\ OK(<<Item("match")>>)
  BY FreshItems, FreshShort
<1>5. OK(a) /\ (Streaming(Policy) => a = <<>>)
  BY <1>4
<1>6. Streaming(Policy) => s = b
  BY <1>3, <1>5, NothingInFront
<1> HIDE DEF a, b
<1>7. OK(s)
  BY <1>3, <1>5, TwoOfThem
<1> HIDE DEF s
<1>8. x.c = "stream" => \A i \in DOMAIN s : Harmless(s[i])
  BY <1>2, <1>3, <1>6 DEF Fits
<1>9. InOrderOf(s) /\ ItemsOK(s, ids, gens, Policy) /\ FrontOK(s, ids) /\ ~LaunchingIn(s)
  BY <1>7, FreshOnes
<1>10. Fits(x, Policy)
  BY <1>2 DEF Fits
<1>11. /\ IsSeq(t) /\ InOrderOf(t) /\ ItemsOK(t, ids, gens, Policy) /\ FrontOK(t, ids)
       /\ LaunchingIn(t) <=> Launches(x)
       /\ \A i \in DOMAIN t : t[i] = x
  BY <1>10, OneItem
<1> HIDE DEF t
<1>12. InOrderOf(new) /\ ItemsOK(new, ids, gens, Policy)
  <2>1. \A i \in DOMAIN s : Before(s[i], x)
    BY <1>7, <1>8 DEF Before, Fresh
  <2>2. \A i \in DOMAIN s : \A j \in DOMAIN t : Before(s[i], t[j])
    BY <1>11, <2>1
  <2> QED BY <1>7, <1>9, <1>11, <2>2, ItemsConcat
<1>13. LaunchingIn(new) <=> Launches(x)
  BY <1>7, <1>9, <1>11, LaunchingAfter
<1>14. /\ IsSeq(new) /\ \A i \in DOMAIN new : Fresh(new[i]) \/ new[i] = x
  <2>1. /\ IsSeq(new)
        /\ \A i \in DOMAIN s : new[i] = s[i]
        /\ \A i \in DOMAIN t : new[Len(s) + i] = t[i]
        /\ \A i \in DOMAIN new : i \in DOMAIN s \/ (i - Len(s) \in DOMAIN t /\ i = Len(s) + (i - Len(s)))
    BY <1>7, <1>11, ConcatIs
  <2> HIDE DEF new
  <2> QED BY <1>7, <1>11, <2>1
<1>15. stack' = new \o Rest
  BY <1>1, <1>2, <1>7, <1>11, ConcatTwice
<1> HIDE DEF new
<1>16. FrontOK(new, ids) /\ \A i \in DOMAIN new : MayReplace(new[i], Top)
  <2>1. new # <<>> => 1 \in DOMAIN new
    BY <1>14, SeqIs
  <2>2. \A i \in DOMAIN new : new[i].c \notin {"new", "enter", "leave"} /\ (new[i].c = "submit" => new[i].op.id = 0)
    BY <1>14 DEF Fresh
  <2> QED BY <1>2, <2>1, <2>2 DEF FrontOK, MayReplace
<1>17. CallOK(stack', ids, gens, scopes)
  <2>1. ids <= ids
    BY <1>2
  <2> QED BY <1>2, <1>12, <1>14, <1>15, <1>16, <2>1, StackStep
<1>18. LaunchingIn(stack') <=> Launches(x)
  BY <1>2, <1>13, <1>14, <1>15, LaunchingAfter
<1> QED BY <1>17, <1>18

\* One operation of the window is launched outside of streaming; launching it may free
\* stores and so call the window again.
LEMMA RunOK ==
  ASSUME IInv, Run PROVE IInv'
PROOF
<1> DEFINE op == Head(window)
           x == [Top EXCEPT !.n = @ - 1]
<1>1. stack # <<>> /\ Top.c = "run" /\ window # <<>> /\ Launch(op, <<x>> \o Rest) /\ window' = Tail(window)
      /\ UNCHANGED <<scopes, exc, progVars, gens, outstanding, ids, calls>>
  BY DEF Run, At
<1>2. StackOK /\ QueueOK(window, ids) /\ ids \in Nat /\ gens \in Nat /\ LogOK
  BY DEF IInv, WindowOK, DataOK
<1>3. IsSeq(window) /\ Len(window) \in Nat /\ DOMAIN window = 1..Len(window) /\ op = window[1] /\ 1 \in DOMAIN window
  BY <1>1, <1>2, SeqIs DEF QueueOK
<1>4. Waits(op) /\ op.id \in 1..ids
  BY <1>2, <1>3 DEF QueueOK
<1>5. ItemOK(Top, ids, gens)
  BY <1>1, <1>2, RestIs DEF StackOK
<1>6. ItemOK(x, ids, gens) /\ x.c = "run"
  <2> DEFINE m == Top.n - 1
  <2>1. x = [Top EXCEPT !.n = m]
    OBVIOUS
  <2>2. DOMAIN Top = ItemFields /\ Top.ops = <<>>
    BY <1>1, <1>5 DEF ItemOK
  <2> HIDE DEF m
  <2>3. DOMAIN x = ItemFields /\ x.c = "run" /\ x.ops = <<>>
    BY <1>1, <2>1, <2>2, ItemWith
  <2> HIDE DEF x
  <2> QED BY <2>3 DEF ItemOK, ItemKinds
<1> HIDE DEF x, op
<1>7. CallOK(stack', ids, gens, scopes) /\ ~LaunchingIn(stack')
  <2>1. IsOp(op)
    BY <1>4 DEF Waits
  <2> QED BY <1>1, <1>6, <2>1, LaunchStack DEF Launches
<1>8. ~Launching /\ ~Launching'
  BY <1>1, <1>2, <1>7, LaunchingIs, NotHarmless DEF Launching, Launches
<1>9. StackOK'
  BY <1>1, <1>7 DEF StackOK
<1>10. WindowOK'
  <2>1. QueueOK(SubSeq(window, 1 + 1, Len(window)), ids)
    <3>1. 1 \in 0..Len(window)
      BY <1>3
    <3> QED BY <1>2, <3>1, CutsAre
  <2>2. window' = SubSeq(window, 1 + 1, Len(window))
    <3>1. Tail(window) = SubSeq(window, 2, Len(window))
      BY <1>1, <1>3 DEF IsSeq
    <3> QED BY <1>1, <3>1
  <2> QED BY <1>1, <1>8, <2>1, <2>2 DEF WindowOK
<1>11. LogOK'
  <2> DEFINE e == Entry(op, Strategy(op, key))
  <2>1. log' = Append(log, e)
    BY <1>1 DEF Launch
  <2>2. e.gen = 0
    BY <1>4 DEF Entry, Waits
  <2> HIDE DEF e
  <2> QED BY <1>1, <1>2, <1>8, <2>1, <2>2, LogGrows
<1>12. DataOK'
  BY <1>1, <1>4, LaunchData DEF Waits
<1> QED BY <1>9, <1>10, <1>11, <1>12 DEF IInv

\* One operation of a prefix is launched; later ones of the prefix stay in front of the
\* window's.
LEMMA RunPrefixOK ==
  ASSUME IInv, RunPrefix PROVE IInv'
PROOF
<1> DEFINE op == Head(Top.ops)
           x == [Top EXCEPT !.ops = Tail(@)]
<1>1. stack # <<>> /\ Top.c = "stream" /\ Top.ops # <<>> /\ Launch(op, <<x>> \o Rest)
      /\ UNCHANGED <<window, scopes, exc, progVars, gens, outstanding, ids, calls>>
  BY DEF RunPrefix, At
<1>2. StackOK /\ ids \in Nat /\ gens \in Nat /\ LogOK
  BY DEF IInv, DataOK
<1>3. ItemOK(Top, ids, gens) /\ Launching
  BY <1>1, <1>2, RestIs, LaunchingIs DEF StackOK, Launches
<1> DEFINE ops == Top.ops
<1>4. PrefixOK(ops, ids, gens) /\ ops # <<>>
  BY <1>1, <1>3 DEF ItemOK
<1>5. IsSeq(ops) /\ Len(ops) \in Nat /\ DOMAIN ops = 1..Len(ops) /\ op = ops[1] /\ 1 \in DOMAIN ops
  <2>1. IsSeq(ops)
    BY <1>4 DEF PrefixOK
  <2> QED BY <1>4, <2>1, SeqIs
<1>6. /\ IsOp(op) /\ op.id \in 1..ids /\ op.gen \in {0, gens} /\ (op.gen # 0 => IsTask(op))
      /\ ops[Len(ops)].kind = "fence"
  BY <1>4, <1>5 DEF PrefixOK
<1> DEFINE r == Tail(ops)
<1>7. IsSeq(r) /\ Len(r) = Len(ops) - 1 /\ \A i \in DOMAIN r : r[i] = ops[i + 1] /\ i + 1 \in DOMAIN ops
  BY <1>4, <1>5, TailIs
<1>8. x = [Top EXCEPT !.ops = r]
  OBVIOUS
<1> HIDE DEF r, op, ops
<1>9. DOMAIN r = 1..Len(r) /\ Len(r) \in Nat /\ (r = <<>> <=> Len(r) = 0)
  BY <1>7, SeqIs
<1>10. PrefixOK(r, ids, gens)
  <2>1. \A i \in DOMAIN r : /\ IsOp(r[i]) /\ r[i].id \in 1..ids
                            /\ r[i].gen \in {0, gens} /\ (r[i].gen # 0 => IsTask(r[i]))
    BY <1>4, <1>7 DEF PrefixOK
  <2>2. r # <<>> => r[Len(r)] = ops[Len(ops)]
    <3>1. r # <<>> => Len(r) \in DOMAIN r /\ Len(r) + 1 = Len(ops)
      BY <1>5, <1>7, <1>9
    <3> QED BY <1>7, <3>1
  <2> QED BY <1>6, <1>7, <2>1, <2>2 DEF PrefixOK
<1>11. DOMAIN x = ItemFields /\ x.c = "stream" /\ x.ops = r
  <2>1. DOMAIN Top = ItemFields
    BY <1>3 DEF ItemOK
  <2> HIDE DEF x
  <2> QED BY <1>1, <1>8, <2>1, ItemWith
<1> HIDE DEF x
<1>12. ItemOK(x, ids, gens)
  BY <1>10, <1>11 DEF ItemOK, ItemKinds
<1>13. CallOK(stack', ids, gens, scopes) /\ (Launching' <=> r # <<>>)
  <2>1. CallOK(stack', ids, gens, scopes) /\ (LaunchingIn(stack') <=> Launches(x))
    BY <1>1, <1>6, <1>11, <1>12, LaunchStack
  <2> QED BY <1>11, <2>1 DEF Launching, Launches
<1>14. StackOK'
  BY <1>1, <1>13 DEF StackOK
<1>15. WindowOK'
  <2>1. Policy' = Policy
    BY <1>1 DEF Policy
  <2> QED BY <1>1, <1>3, <2>1 DEF IInv, WindowOK
<1>16. LogOK'
  <2> DEFINE e == Entry(op, Strategy(op, key))
  <2>1. log' = Append(log, e)
    BY <1>1 DEF Launch
  <2>2. e.gen = op.gen /\ (op.kind = "fence" => e.form = "fence")
    BY DEF Entry, Form, IsTask
  <2> HIDE DEF e
  <2>3. r = <<>> => op.kind = "fence"
    <3>1. ASSUME r = <<>> PROVE Len(ops) = 1
      <4>1. Len(r) = 0 /\ Len(r) = Len(ops) - 1 /\ Len(ops) \in Nat
        BY <1>5, <1>7, <1>9, <3>1
      <4> QED BY <4>1
    <3> QED BY <1>5, <1>6, <3>1
  <2>4. op.gen # 0 => r # <<>>
    BY <1>6, <2>3 DEF IsTask
  <2> QED BY <1>1, <1>2, <1>3, <1>6, <1>13, <2>1, <2>2, <2>3, <2>4, LogGrows
<1>17. DataOK'
  BY <1>1, <1>6, LaunchData
<1> QED BY <1>14, <1>15, <1>16, <1>17 DEF IInv

-----------------------------------------------------------------------------
(* Theorems *)

\* The invariant holds at the start,
LEMMA Starts == Init => IInv
PROOF
<1> SUFFICES ASSUME Init PROVE IInv
  OBVIOUS
<1>1. stack = <<>> /\ window = <<>> /\ log = <<>> /\ ids = 0 /\ gens = 0 /\ scopes = <<Off>>
  BY DEF Init
<1>2. IsSeq(<<>>) /\ DOMAIN <<>> = {}
  BY ShortSeqs, SeqIs
<1>3. DataOK
  <2>1. IsSeq(<<Off>>) /\ <<Off>> # <<>> /\ \A i \in DOMAIN <<Off>> : <<Off>>[i] = Off
    BY ShortSeqs, SeqIs
  <2>2. \A i \in DOMAIN scopes : scopes[i] \in Policies \cup {Off}
    BY <1>1, <2>1
  <2>3. IsSeq(scopes) /\ scopes # <<>>
    BY <1>1, <2>1
  <2>4. wr \in [Fields -> 0..(ids + 1)] /\ mem \in [Fields -> 0..ids] /\ alive \subseteq Fields /\ region \subseteq Fields
    BY DEF Init
  <2>5. credit \in 0..Freq /\ outstanding \in BOOLEAN
    <3>1. Freq \in Nat
      BY WindowAssumption
    <3>2. credit = 0 /\ outstanding = FALSE
      BY DEF Init
    <3>3. 0 \in 0..Freq
      BY <3>1
    <3>4. credit \in 0..Freq
      BY <3>2, <3>3
    <3> QED BY <3>2, <3>4, Zenon
  <2> QED BY <1>1, <2>2, <2>3, <2>4, <2>5 DEF DataOK
<1>4. StackOK
  BY <1>1, NothingLeft DEF StackOK
<1>5. WindowOK
  <2>1. QueueOK(window, ids) /\ ~Launching
    BY <1>1, NothingLeft, NoneLaunching
  <2> QED BY <2>1 DEF WindowOK
<1>6. LogOK
  BY <1>1, <1>2 DEF LogOK, FencedGenerations
<1> QED BY <1>3, <1>4, <1>5, <1>6 DEF IInv

\* and every step keeps it.
LEMMA Keeps == IInv /\ [Next]_vars => IInv'
PROOF
<1> SUFFICES ASSUME IInv, [Next]_vars PROVE IInv'
  OBVIOUS
<1>1. CASE Program
  <2>1. ASSUME NEW t \in Tasks, Call(t) PROVE IInv'
    BY <2>1, CallIsOK
  <2>2. ASSUME NEW f \in Fields, Create(f) \/ Drop(f) PROVE IInv'
    BY <2>2, CreateOK, DropOK
  <2>3. ASSUME NEW p \in Policies, BeginScope(p) PROVE IInv'
    BY <2>3, BeginScopeOK
  <2>4. CASE EndScope
    BY <2>4, EndScopeOK
  <2>5. CASE Catch
    BY <2>5, CatchOK
  <2> QED BY <1>1, <2>1, <2>2, <2>3, <2>4, <2>5 DEF Program
<1>2. CASE Runtime
  <2>1. CASE DoSubmit
    BY <2>1, DoSubmitOK
  <2>2. CASE DoFlush
    BY <2>2, DoFlushOK
  <2>3. CASE Extract
    BY <2>3, ExtractOK
  <2>4. CASE Run
    BY <2>4, RunOK
  <2>5. CASE RunPrefix
    BY <2>5, RunPrefixOK
  <2>6. CASE EndFlush
    BY <2>6, EndFlushOK
  <2>7. CASE DoMatch
    BY <2>7, DoMatchOK
  <2>8. CASE Reuse
    BY <2>8, ReuseOK
  <2>9. CASE NewStore
    BY <2>9, NewStoreOK
  <2>10. CASE Enter
    BY <2>10, EnterOK
  <2>11. CASE EndOfScope
    BY <2>11, EndOfScopeOK
  <2> QED BY <1>2, <2>1, <2>2, <2>3, <2>4, <2>5, <2>6, <2>7, <2>8, <2>9, <2>10, <2>11 DEF Runtime
<1>3. CASE UNCHANGED vars
  BY <1>3, Unchanged DEF vars
<1> QED BY <1>1, <1>2, <1>3 DEF Next

\* The invariant of the window, the stack of calls and what was launched
\* (Runtime::submit, flush_scheduling_window, schedule_, process_streaming_run).
THEOREM Invariance == Spec => []IInv
PROOF
<1>1. Init => IInv
  BY Starts
<1>2. IInv /\ [Next]_vars => IInv'
  BY Keeps
<1> QED BY <1>1, <1>2, PTL DEF Spec

\* The window holds operations on fields in the order of their creation, however
\* flushes nest and discards are taken out, and every scope is one of the
\* policies (Runtime::submit, Scope).
THEOREM TypeCorrect == Spec => []TypeOK
PROOF
<1>1. IInv => TypeOK
  <2> SUFFICES ASSUME IInv PROVE TypeOK
    OBVIOUS
  <2>1. QueueOK(window, ids) /\ DataOK
    BY DEF IInv, WindowOK
  <2>2. DOMAIN window = 1..Len(window) /\ Len(window) \in Nat
    BY <2>1, SeqIs DEF QueueOK
  <2>3. ASSUME NEW i \in DOMAIN window
        PROVE  /\ window[i].kind \in Kinds /\ Touched(window[i]) \subseteq Fields
               /\ window[i].id \in 1..ids /\ window[i].gen = 0
               /\ i > 1 => window[i - 1].id < window[i].id
    <3>1. i > 1 => i - 1 \in DOMAIN window /\ i - 1 < i
      BY <2>2
    <3> QED BY <2>1, <3>1 DEF QueueOK, Waits, IsOp
  <2> QED BY <2>1, <2>3 DEF TypeOK, DataOK
<1>2. Spec => []IInv
  BY Invariance
<1> QED BY <1>1, <1>2, PTL

\* Generations are launched one after the other, and a fence is launched
\* between the tasks of two: no step cuts off another prefix while one is being
\* launched, whatever the destruction of an operation submits on the way
\* (extract_streamable_prefix_impl, process_streaming_run).
THEOREM GenerationsFenced == Spec => []FencedGenerations
PROOF
<1>1. IInv => FencedGenerations
  BY DEF IInv, LogOK
<1>2. Spec => []IInv
  BY Invariance
<1> QED BY <1>1, <1>2, PTL

\* When a strict scope launches anything, no task is left in the window, not
\* even one submitted while the prefix is being launched
\* (flush_scheduling_window, extract_streamable_prefix).
THEOREM StrictAsOne == Spec => StrictIsOneGroup
PROOF
<1> DEFINE A == Policy.mode = "strict" /\ log' # log => ~ \E i \in DOMAIN window : IsTask(window[i])
<1>1. IInv /\ [Next]_vars => [A]_vars
  <2> SUFFICES ASSUME IInv, Next, Policy.mode = "strict", log' # log
               PROVE  ~ \E i \in DOMAIN window : IsTask(window[i])
    OBVIOUS
  <2>1. Run \/ RunPrefix
    <3>1. CASE Program
      BY <3>1 DEF Program, Call, Create, Drop, BeginScope, EndScope, Catch
    <3>2. CASE Runtime
      BY <3>2 DEF Runtime, DoSubmit, DoFlush, Extract, EndFlush, DoMatch, Reuse, NewStore, Enter, EndOfScope
    <3> QED BY <3>1, <3>2 DEF Next
  <2>2. ~Run
    <3> SUFFICES ASSUME Run PROVE FALSE
      OBVIOUS
    <3>1. stack # <<>> /\ Top.c = "run"
      BY DEF Run, At
    <3>2. Fits(Top, Policy)
      BY <3>1, RestIs DEF IInv, StackOK, Policy
    <3> QED BY <3>1, <3>2 DEF Fits, Streaming
  <2>3. Launching
    <3>1. stack # <<>> /\ Launches(Top)
      BY <2>1, <2>2 DEF RunPrefix, At, Launches
    <3> QED BY <3>1, LaunchingIs DEF IInv
  <2> QED BY <2>3 DEF IInv, WindowOK
<1>2. Spec => []IInv
  BY Invariance
<1>3. Spec => [][Next]_vars
  BY PTL DEF Spec
<1>4. Spec => [][A]_vars
  BY <1>1, <1>2, <1>3, PTL
<1> QED BY <1>4 DEF StrictIsOneGroup

-----------------------------------------------------------------------------
(* No second exception on a single rank *)

\* Sequences with the same elements
LEMMA SeqSame ==
  ASSUME NEW S, NEW s \in Seq(S), NEW t \in Seq(S), Len(s) = Len(t), \A i \in 1..Len(s) : s[i] = t[i]
  PROVE  s = t
OBVIOUS

\* Short ones put together
LEMMA Joined ==
  /\ \A s, m, f : <<s, m>> \o <<f>> = <<s, m, f>>
  /\ \A f : <<>> \o <<f>> = <<f>>
  /\ \A l : Append(<<>>, l) = <<l>>
  /\ \A f, l : Append(<<f>>, l) = <<f, l>>
  /\ \A s, m, f, l : Append(<<s, m, f>>, l) = <<s, m, f, l>>
  /\ \A e, l : <<e>> \o <<l>> = <<e, l>>
  /\ \A e, f, l : <<e>> \o <<f, l>> = <<e, f, l>>
  /\ \A e, s, m, f, l : <<e>> \o <<s, m, f, l>> = <<e, s, m, f, l>>
PROOF
<1>1. ASSUME NEW s, NEW m, NEW f PROVE <<s, m>> \o <<f>> = <<s, m, f>>
  <2> DEFINE S == {s, m, f}
             a == <<s, m>> \o <<f>>
             b == <<s, m, f>>
  <2>1. a \in Seq(S) /\ b \in Seq(S) /\ Len(a) = 3 /\ Len(b) = 3 /\ \A i \in 1..3 : a[i] = b[i]
    OBVIOUS
  <2> HIDE DEF S, a, b
  <2>2. a = b
    BY <2>1, SeqSame
  <2> QED BY <2>2 DEF a, b
<1>2. ASSUME NEW f PROVE <<>> \o <<f>> = <<f>>
  <2> DEFINE S == {f}
             a == <<>> \o <<f>>
             b == <<f>>
  <2>1. a \in Seq(S) /\ b \in Seq(S) /\ Len(a) = 1 /\ Len(b) = 1 /\ \A i \in 1..1 : a[i] = b[i]
    OBVIOUS
  <2> HIDE DEF S, a, b
  <2>2. a = b
    BY <2>1, SeqSame
  <2> QED BY <2>2 DEF a, b
<1>3. ASSUME NEW l PROVE Append(<<>>, l) = <<l>>
  <2> DEFINE S == {l}
             a == Append(<<>>, l)
             b == <<l>>
  <2>1. a \in Seq(S) /\ b \in Seq(S) /\ Len(a) = 1 /\ Len(b) = 1 /\ \A i \in 1..1 : a[i] = b[i]
    OBVIOUS
  <2> HIDE DEF S, a, b
  <2>2. a = b
    BY <2>1, SeqSame
  <2> QED BY <2>2 DEF a, b
<1>4. ASSUME NEW f, NEW l PROVE Append(<<f>>, l) = <<f, l>>
  <2> DEFINE S == {f, l}
             a == Append(<<f>>, l)
             b == <<f, l>>
  <2>1. a \in Seq(S) /\ b \in Seq(S) /\ Len(a) = 2 /\ Len(b) = 2 /\ \A i \in 1..2 : a[i] = b[i]
    OBVIOUS
  <2> HIDE DEF S, a, b
  <2>2. a = b
    BY <2>1, SeqSame
  <2> QED BY <2>2 DEF a, b
<1>5. ASSUME NEW s, NEW m, NEW f, NEW l PROVE Append(<<s, m, f>>, l) = <<s, m, f, l>>
  <2> DEFINE S == {s, m, f, l}
             a == Append(<<s, m, f>>, l)
             b == <<s, m, f, l>>
  <2>1. a \in Seq(S) /\ b \in Seq(S) /\ Len(a) = 4 /\ Len(b) = 4 /\ \A i \in 1..4 : a[i] = b[i]
    OBVIOUS
  <2> HIDE DEF S, a, b
  <2>2. a = b
    BY <2>1, SeqSame
  <2> QED BY <2>2 DEF a, b
<1>6. ASSUME NEW e, NEW l PROVE <<e>> \o <<l>> = <<e, l>>
  <2> DEFINE S == {e, l}
             a == <<e>> \o <<l>>
             b == <<e, l>>
  <2>1. a \in Seq(S) /\ b \in Seq(S) /\ Len(a) = 2 /\ Len(b) = 2 /\ \A i \in 1..2 : a[i] = b[i]
    OBVIOUS
  <2> HIDE DEF S, a, b
  <2>2. a = b
    BY <2>1, SeqSame
  <2> QED BY <2>2 DEF a, b
<1>7. ASSUME NEW e, NEW f, NEW l PROVE <<e>> \o <<f, l>> = <<e, f, l>>
  <2> DEFINE S == {e, f, l}
             a == <<e>> \o <<f, l>>
             b == <<e, f, l>>
  <2>1. a \in Seq(S) /\ b \in Seq(S) /\ Len(a) = 3 /\ Len(b) = 3 /\ \A i \in 1..3 : a[i] = b[i]
    OBVIOUS
  <2> HIDE DEF S, a, b
  <2>2. a = b
    BY <2>1, SeqSame
  <2> QED BY <2>2 DEF a, b
<1>8. ASSUME NEW e, NEW s, NEW m, NEW f, NEW l PROVE <<e>> \o <<s, m, f, l>> = <<e, s, m, f, l>>
  <2> DEFINE S == {e, s, m, f, l}
             a == <<e>> \o <<s, m, f, l>>
             b == <<e, s, m, f, l>>
  <2>1. a \in Seq(S) /\ b \in Seq(S) /\ Len(a) = 5 /\ Len(b) = 5 /\ \A i \in 1..5 : a[i] = b[i]
    OBVIOUS
  <2> HIDE DEF S, a, b
  <2>2. a = b
    BY <2>1, SeqSame
  <2> QED BY <2>2 DEF a, b
<1> QED BY <1>1, <1>2, <1>3, <1>4, <1>5, <1>6, <1>7, <1>8

\* What the end of a scope calls, alone or behind its beginning, cannot throw.
LEMMA QuietEnds ==
  ASSUME NEW pol, NEW e, e.c = "enter", NEW s, s.c = "submit", IsFence(s.op), NEW m, m.c = "match",
         NEW f, f.c = "flush", f.by = "scope", NEW l, l.c = "leave"
  PROVE  /\ Quiet(<<>>, <<>>, pol)
         /\ Quiet(<<l>>, <<>>, pol) /\ Quiet(<<f, l>>, <<>>, pol) /\ Quiet(<<s, m, f, l>>, <<>>, pol)
         /\ Quiet(<<e, l>>, <<>>, pol) /\ Quiet(<<e, f, l>>, <<>>, pol) /\ Quiet(<<e, s, m, f, l>>, <<>>, pol)
PROOF
<1>1. Passes(e) /\ Passes(s) /\ Passes(m) /\ Passes(f) /\ Passes(l)
  BY DEF Passes
<1>2. Len(<<>>) = 0 /\ DOMAIN <<>> = {}
  BY ShortSeqs, SeqIs
<1>3. Quiet(<<>>, <<>>, pol)
  BY <1>2 DEF Quiet
<1>4. Quiet(<<l>>, <<>>, pol) /\ Quiet(<<f, l>>, <<>>, pol)
  BY <1>1, <1>2 DEF Quiet
<1>5. Quiet(<<e, l>>, <<>>, pol) /\ Quiet(<<e, f, l>>, <<>>, pol)
  BY <1>1, <1>2 DEF Quiet
<1>6. Quiet(<<s, m, f, l>>, <<>>, pol)
  BY <1>1, <1>2 DEF Quiet
<1>7. Quiet(<<e, s, m, f, l>>, <<>>, pol)
  BY <1>1, <1>2 DEF Quiet
<1> QED BY <1>3, <1>4, <1>5, <1>6, <1>7

\* The calls at the two ends of a scope are quiet, whatever the policies.
LEMMA EndCallsQuiet ==
  ASSUME NEW cur, NEW outer, NEW pol
  PROVE  /\ Quiet(EndCalls(cur, outer), <<>>, pol) /\ Quiet(<<Leave>>, <<>>, pol) /\ Quiet(<<>>, <<>>, pol)
         /\ \A e : e.c = "enter" => Quiet(<<e>> \o EndCalls(cur, outer), <<>>, pol)
PROOF
<1> DEFINE s == Submit(Plain("fence"))
           m == Item("match")
           f == Flush("scope")
           l == Leave
           c == EndCalls(cur, outer)
<1>1. s.c = "submit" /\ IsFence(s.op) /\ m.c = "match" /\ f.c = "flush" /\ f.by = "scope" /\ l.c = "leave"
  BY SubmitIs, FenceIs, ItemIs, OtherItems DEF Leave
<1>2. c = Append(IF outer = cur THEN <<>> ELSE (IF Streaming(outer) \/ Streaming(cur) THEN <<s, m>> ELSE <<>>) \o <<f>>, l)
  BY DEF EndCalls, Exchange
<1> HIDE DEF s, m, f, l, c
<1>3. c \in {<<l>>, <<f, l>>, <<s, m, f, l>>}
  <2>0. /\ <<s, m>> \o <<f>> = <<s, m, f>> /\ <<>> \o <<f>> = <<f>>
        /\ Append(<<>>, l) = <<l>> /\ Append(<<f>>, l) = <<f, l>> /\ Append(<<s, m, f>>, l) = <<s, m, f, l>>
    BY Joined
  <2>1. CASE outer = cur
    BY <1>2, <2>0, <2>1
  <2>2. CASE outer # cur /\ (Streaming(outer) \/ Streaming(cur))
    BY <1>2, <2>0, <2>2
  <2>3. CASE outer # cur /\ ~(Streaming(outer) \/ Streaming(cur))
    BY <1>2, <2>0, <2>3
  <2> QED BY <2>1, <2>2, <2>3
<1>4. ASSUME NEW e, e.c = "enter"
      PROVE  Quiet(<<e>> \o c, <<>>, pol)
  <2>1. <<e>> \o <<l>> = <<e, l>> /\ <<e>> \o <<f, l>> = <<e, f, l>> /\ <<e>> \o <<s, m, f, l>> = <<e, s, m, f, l>>
    BY Joined
  <2>2. Quiet(<<e, l>>, <<>>, pol) /\ Quiet(<<e, f, l>>, <<>>, pol) /\ Quiet(<<e, s, m, f, l>>, <<>>, pol)
    BY <1>1, <1>4, QuietEnds
  <2> QED BY <1>3, <2>1, <2>2
<1>5. Quiet(c, <<>>, pol) /\ Quiet(<<l>>, <<>>, pol) /\ Quiet(<<>>, <<>>, pol)
  <2> DEFINE e == Item("enter")
  <2>1. e.c = "enter"
    BY ItemIs
  <2> HIDE DEF e
  <2> QED BY <1>1, <1>3, <2>1, QuietEnds
<1> QED BY <1>4, <1>5 DEF c, l

\* Neither does anything that an exception leaves of a call.
LEMMA UnwoundQuiet ==
  ASSUME NEW items, NEW pol
  PROVE  Quiet(Unwound(items), <<>>, pol)
PROOF
<1> DEFINE enters == {i \in DOMAIN items : items[i].c = "enter"}
           e == items[CHOOSE i \in enters : TRUE]
<1>1. CASE enters # {}
  <2>1. e.c = "enter"
    BY <1>1
  <2>2. Unwound(items) = <<e>> \o EndCalls(e.pol, Policy)
    BY <1>1 DEF Unwound
  <2> HIDE DEF e
  <2> QED BY <2>1, <2>2, EndCallsQuiet
<1>2. CASE enters = {}
  <2>1. Unwound(items) \in {<<Leave>>, <<>>}
    BY <1>2 DEF Unwound
  <2> QED BY <2>1, EndCallsQuiet
<1> QED BY <1>1, <1>2

\* When nothing passes, an exception may.
LEMMA ThrowCalm ==
  ASSUME exc = "none", NEW why, why \notin Deaths \cup {"none"}, NEW items, Throw(why, items), UNCHANGED scopes
  PROVE  Calm'
PROOF
<1>1. exc' = why /\ stack' = Unwound(items) /\ window' = <<>> /\ Policy' = Policy
  BY DEF Throw, ClearedOnThrow, Policy
<1>2. Quiet(stack', window', Policy')
  BY <1>1, UnwoundQuiet
<1> QED BY <1>1, <1>2 DEF Calm, Deaths

\* The item in front is done: the others are as quiet, with no fence in the window
\* or a flush that takes it.
LEMMA QuietRest ==
  ASSUME IsSeq(stack), stack # <<>>, NEW w, NEW pol, Quiet(stack, w, pol), NEW v, NEW pol2,
         Len(v) <= 1, \A k \in DOMAIN v : IsFence(v[k]), Top.c = "enter" => v = w,
         v # <<>> => \E i \in DOMAIN Rest : Flushes(Rest[i])
  PROVE  Quiet(Rest, v, pol2)
PROOF
<1> DEFINE r == Rest
<1>1. /\ IsSeq(r) /\ Len(r) = Len(stack) - 1
      /\ \A i \in DOMAIN r : r[i] = stack[i + 1] /\ i + 1 \in DOMAIN stack
  BY TailIs DEF Rest
<1>2. Len(r) \in Nat /\ DOMAIN r = 1..Len(r) /\ Len(stack) \in Nat /\ DOMAIN stack = 1..Len(stack) /\ Top = stack[1]
  BY <1>1, SeqIs DEF Top
<1> HIDE DEF r
<1>3. \A i \in DOMAIN r : Passes(r[i])
  BY <1>1 DEF Quiet
<1>4. ASSUME NEW i \in DOMAIN r, r[i].c = "submit"
      PROVE  v = <<>> /\ (\A j \in 1..(i - 1) : r[j].c = "enter") /\ \E k \in DOMAIN r : i < k /\ r[k].c = "flush"
  <2>1. /\ w = <<>> /\ \A j \in 1..((i + 1) - 1) : stack[j].c = "enter"
        /\ \E k \in DOMAIN stack : i + 1 < k /\ stack[k].c = "flush"
    BY <1>1, <1>4 DEF Quiet
  <2>2. 1 \in 1..((i + 1) - 1)
    BY <1>2
  <2>3. v = <<>>
    BY <1>2, <2>1, <2>2
  <2>4. ASSUME NEW j \in 1..(i - 1) PROVE r[j].c = "enter"
    <3>1. j \in DOMAIN r /\ j + 1 \in 1..((i + 1) - 1)
      BY <1>2
    <3> QED BY <1>1, <2>1, <3>1
  <2>5. PICK k \in DOMAIN stack : i + 1 < k /\ stack[k].c = "flush"
    BY <2>1
  <2>6. k - 1 \in DOMAIN r /\ i < k - 1 /\ (k - 1) + 1 = k
    BY <1>1, <1>2, <2>5
  <2>7. r[k - 1].c = "flush"
    BY <1>1, <2>5, <2>6
  <2> QED BY <2>3, <2>4, <2>6, <2>7
<1>5. \A i \in DOMAIN r : r[i].c = "flush" => r[i].by = "scope"
  <2> TAKE i \in DOMAIN r
  <2>1. i + 1 # 1
    BY <1>2
  <2> QED BY <1>1, <2>1 DEF Quiet
<1>6. v # <<>> => \E i \in DOMAIN r : Flushes(r[i])
  BY DEF r
<1>7. Quiet(r, v, pol2)
  BY <1>3, <1>4, <1>5, <1>6 DEF Quiet
<1> QED BY <1>7 DEF r

\* One element in front of a sequence
LEMMA InFront ==
  ASSUME NEW x, NEW t, IsSeq(t)
  PROVE  /\ IsSeq(<<x>> \o t) /\ Len(<<x>> \o t) = 1 + Len(t) /\ (<<x>> \o t)[1] = x
         /\ \A i \in 1..Len(t) : (<<x>> \o t)[1 + i] = t[i]
PROOF
<1> DEFINE a == <<x>>
           u == a \o t
<1>1. IsSeq(a) /\ Len(a) = 1 /\ a[1] = x
  BY ShortSeqs
<1>2. DOMAIN a = 1..1
  BY <1>1, SeqIs
<1> HIDE DEF a
<1>3. /\ IsSeq(u) /\ Len(u) = Len(a) + Len(t)
      /\ \A i \in DOMAIN a : u[i] = a[i]
      /\ \A i \in DOMAIN t : u[Len(a) + i] = t[i]
      /\ \A i \in DOMAIN u : i \in DOMAIN a \/ (i - Len(a) \in DOMAIN t /\ i = Len(a) + (i - Len(a)))
  <2>1. IsSeq(a)
    BY <1>1
  <2> QED BY <2>1, ConcatIs
<1> HIDE DEF u
<1>4. /\ IsSeq(u) /\ Len(u) = 1 + Len(t) /\ u[1] = x
      /\ \A i \in 1..Len(t) : u[1 + i] = t[i]
  BY <1>1, <1>2, <1>3, SeqIs
<1> QED BY <1>4 DEF u, a

\* It is replaced by one that takes what is in the window.
LEMMA QuietWith ==
  ASSUME IsSeq(stack), stack # <<>>, NEW w, NEW pol, Quiet(stack, w, pol), NEW v,
         Len(v) <= 1, \A k \in DOMAIN v : IsFence(v[k]), Top.c # "enter",
         NEW x, Passes(x), x.c # "submit", (x.c = "flush" /\ x.by # "scope") => ~Streaming(pol),
         v # <<>> => Flushes(x) \/ \E i \in DOMAIN Rest : Flushes(Rest[i])
  PROVE  Quiet(<<x>> \o Rest, v, pol)
PROOF
<1> DEFINE r == Rest
           h == <<x>>
           s == h \o r
<1>1. /\ IsSeq(r) /\ Len(r) = Len(stack) - 1
      /\ \A i \in DOMAIN r : r[i] = stack[i + 1] /\ i + 1 \in DOMAIN stack
  BY TailIs DEF Rest
<1>2. IsSeq(h) /\ Len(h) = 1 /\ h[1] = x
  BY ShortSeqs
<1>3. /\ Len(r) \in Nat /\ DOMAIN r = 1..Len(r) /\ Len(stack) \in Nat /\ DOMAIN stack = 1..Len(stack)
      /\ Top = stack[1] /\ DOMAIN h = 1..1
  BY <1>1, <1>2, SeqIs DEF Top
<1> HIDE DEF r, h
<1>4. /\ IsSeq(s) /\ Len(s) = 1 + Len(r) /\ s[1] = x
      /\ \A i \in 1..Len(r) : s[1 + i] = r[i]
  <2> USE DEF h
  <2>1. IsSeq(r)
    BY <1>1
  <2> QED BY <2>1, InFront
<1>5. DOMAIN s = 1..(1 + Len(r))
  BY <1>4, SeqIs
<1>6. \A i \in DOMAIN r : /\ Passes(r[i]) /\ r[i].c # "submit"
                          /\ r[i].c = "flush" => r[i].by = "scope"
  <2> TAKE i \in DOMAIN r
  <2>1. i + 1 # 1 /\ 1 \in 1..((i + 1) - 1)
    BY <1>3
  <2> QED BY <1>1, <1>3, <2>1 DEF Quiet
<1>7. \A i \in DOMAIN s : (i = 1 /\ s[i] = x) \/ (i - 1 \in DOMAIN r /\ s[i] = r[i - 1] /\ i # 1)
  <2> TAKE i \in DOMAIN s
  <2>1. i = 1 \/ (i - 1 \in DOMAIN r /\ 1 + (i - 1) = i /\ i # 1)
    BY <1>3, <1>5
  <2> QED BY <1>4, <2>1
<1>8. \A i \in DOMAIN s : /\ Passes(s[i]) /\ s[i].c # "submit"
                          /\ s[i].c = "flush" /\ s[i].by # "scope" => i = 1 /\ ~Streaming(pol)
  BY <1>6, <1>7
<1>9. v # <<>> => \E i \in DOMAIN s : Flushes(s[i])
  <2> SUFFICES ASSUME v # <<>> PROVE \E i \in DOMAIN s : Flushes(s[i])
    OBVIOUS
  <2>1. CASE Flushes(x)
    <3>1. 1 \in DOMAIN s
      BY <1>3, <1>5
    <3> QED BY <1>4, <2>1, <3>1
  <2>2. CASE \E i \in DOMAIN r : Flushes(r[i])
    <3>1. PICK i \in DOMAIN r : Flushes(r[i])
      BY <2>2
    <3>2. 1 + i \in DOMAIN s
      BY <1>3, <1>5
    <3> QED BY <1>4, <3>1, <3>2
  <2> QED BY <2>1, <2>2 DEF r
<1>10. Quiet(s, v, pol)
  BY <1>8, <1>9 DEF Quiet
<1> QED BY <1>10 DEF s, h, r

\* The item in front passes, and if it takes nothing of the window, one behind it does.
LEMMA QuietTop ==
  ASSUME IInv, stack # <<>>, Quiet(stack, window, Policy)
  PROVE  /\ IsSeq(stack) /\ IsSeq(Rest) /\ IsSeq(window) /\ Passes(Top)
         /\ Top.c = "submit" => window = <<>> /\ \E i \in DOMAIN Rest : Rest[i].c = "flush"
         /\ Top.c = "flush" /\ Top.by # "scope" => ~Streaming(Policy)
         /\ ~Flushes(Top) /\ window # <<>> => \E i \in DOMAIN Rest : Flushes(Rest[i])
PROOF
<1>1. IsSeq(stack) /\ IsSeq(window)
  BY DEF IInv, StackOK, CallOK, WindowOK, QueueOK
<1> DEFINE r == Rest
<1>2. /\ IsSeq(r) /\ Len(r) = Len(stack) - 1
      /\ \A i \in DOMAIN r : r[i] = stack[i + 1] /\ i + 1 \in DOMAIN stack
  BY <1>1, TailIs DEF Rest
<1>3. /\ Len(r) \in Nat /\ DOMAIN r = 1..Len(r) /\ Len(stack) \in Nat /\ DOMAIN stack = 1..Len(stack)
      /\ Top = stack[1] /\ 1 \in DOMAIN stack
  BY <1>1, <1>2, SeqIs DEF Top
<1> HIDE DEF r
<1>4. \A k \in DOMAIN stack : 1 < k => k - 1 \in DOMAIN r /\ r[k - 1] = stack[k]
  <2> TAKE k \in DOMAIN stack
  <2> HAVE 1 < k
  <2>1. k - 1 \in DOMAIN r /\ (k - 1) + 1 = k
    BY <1>2, <1>3
  <2> QED BY <1>2, <2>1
<1>5. Passes(Top)
  BY <1>3 DEF Quiet
<1>6. ASSUME Top.c = "submit" PROVE window = <<>> /\ \E i \in DOMAIN r : r[i].c = "flush"
  <2>1. window = <<>> /\ \E k \in DOMAIN stack : 1 < k /\ stack[k].c = "flush"
    BY <1>3, <1>6 DEF Quiet
  <2> QED BY <1>4, <2>1
<1>7. Top.c = "flush" /\ Top.by # "scope" => ~Streaming(Policy)
  BY <1>3 DEF Quiet
<1>8. ASSUME ~Flushes(Top), window # <<>> PROVE \E i \in DOMAIN r : Flushes(r[i])
  <2>1. PICK k \in DOMAIN stack : Flushes(stack[k])
    BY <1>8 DEF Quiet
  <2>2. 1 < k
    BY <1>3, <1>8, <2>1
  <2> QED BY <1>4, <2>1, <2>2
<1> QED BY <1>1, <1>2, <1>5, <1>6, <1>7, <1>8 DEF r

\* At most a fence waits.
LEMMA QuietWindow ==
  ASSUME IInv, Quiet(stack, window, Policy)
  PROVE  /\ IsSeq(window) /\ Len(window) \in Nat /\ Len(window) <= 1 /\ (window # <<>> => Len(window) = 1)
         /\ \A k \in DOMAIN window : IsFence(window[k])
         /\ (stack = <<>> => window = <<>>)
PROOF
<1>1. IsSeq(window)
  BY DEF IInv, WindowOK, QueueOK
<1>2. Len(window) \in Nat /\ (window = <<>> <=> Len(window) = 0)
  BY <1>1, SeqIs
<1>3. Len(window) <= 1 /\ \A k \in DOMAIN window : IsFence(window[k])
  BY DEF Quiet
<1>4. stack = <<>> => window = <<>>
  <2>1. DOMAIN <<>> = {}
    BY ShortSeqs, SeqIs
  <2> QED BY <2>1 DEF Quiet
<1>5. window # <<>> => Len(window) = 1
  BY <1>2, <1>3
<1> QED BY <1>1, <1>2, <1>3, <1>4, <1>5

\* The item in front is done and leaves the window as it is.
LEMMA QuietDone ==
  ASSUME IInv, stack # <<>>, Quiet(stack, window, Policy), stack' = Rest, UNCHANGED window,
         ~Flushes(Top) \/ window = <<>>
  PROVE  Quiet(stack', window', Policy')
PROOF
<1>1. IsSeq(stack) /\ (window # <<>> => \E i \in DOMAIN Rest : Flushes(Rest[i]))
  BY QuietTop
<1>2. Len(window) <= 1 /\ \A k \in DOMAIN window : IsFence(window[k])
  BY DEF Quiet
<1> DEFINE pol == Policy'
<1> HIDE DEF pol
<1>3. Quiet(Rest, window, pol)
  BY <1>1, <1>2, QuietRest
<1> QED BY <1>3 DEF pol

\* The fence of a scope's end goes into the window.
LEMMA SubmitQuiet ==
  ASSUME IInv, Quiet(stack, window, Policy), DoSubmit
  PROVE  exc' = exc /\ Quiet(stack', window', Policy')
PROOF
<1> DEFINE op == IF Top.op.id # 0 THEN Top.op ELSE [Top.op EXCEPT !.id = ids + 1]
<1>1. /\ stack # <<>> /\ Top.c = "submit" /\ window' = Append(window, op)
      /\ stack' = (IF op.flush \/ TooBig(window') THEN <<Flush("op")>> ELSE <<>>) \o Rest
      /\ UNCHANGED <<scopes, exc>>
  BY DEF DoSubmit, At, Queued
<1>2. /\ IsSeq(stack) /\ IsSeq(Rest) /\ Passes(Top) /\ window = <<>>
      /\ \E i \in DOMAIN Rest : Rest[i].c = "flush"
  BY <1>1, QuietTop
<1>3. IsFence(op)
  <2>1. IsFence(Top.op) /\ DOMAIN Top.op = OpFields
    <3>1. ItemOK(Top, ids, gens)
      BY <1>1, RestIs DEF IInv, StackOK
    <3> QED BY <1>1, <1>2, <3>1 DEF Passes, ItemOK, Waits, IsOp
  <2> DEFINE o == Top.op
             n == ids + 1
  <2> HIDE DEF o, n
  <2>2. SameOp([o EXCEPT !.id = n], o)
    BY <2>1, OpWith DEF o
  <2>3. IsFence([o EXCEPT !.id = n])
    BY <2>1, <2>2 DEF o, SameOp, IsFence
  <2> QED BY <2>1, <2>3 DEF o, n
<1> HIDE DEF op
<1>4. window' = <<op>>
  BY <1>1, <1>2, Joined
<1>5. Len(<<op>>) = 1 /\ DOMAIN <<op>> = 1..1 /\ <<op>>[1] = op
  BY ShortSeqs, SeqIs
<1> DEFINE w == <<op>>
<1> HIDE DEF w
<1>6. Len(w) <= 1 /\ \A k \in DOMAIN w : IsFence(w[k])
  BY <1>3, <1>5 DEF w
<1>7. \E i \in DOMAIN Rest : Flushes(Rest[i])
  BY <1>2 DEF Flushes
<1>8. Quiet(stack', w, Policy)
  <2>1. CASE TooBig(window')
    <3> DEFINE x == Flush("op")
    <3>1. stack' = <<x>> \o Rest
      BY <1>1, <2>1
    <3>2. x.c = "flush"
      BY OtherItems
    <3> HIDE DEF x
    <3>3. Passes(x)
      BY <3>2 DEF Passes
    <3>4. ~Streaming(Policy)
      <4>1. IsSeq(scopes) /\ scopes # <<>>
        BY DEF IInv, DataOK
      <4>2. Len(scopes) \in DOMAIN scopes
        BY <4>1, SeqIs
      <4> QED BY <2>1, <4>2 DEF TooBig, Policy, Last
    <3>5. Quiet(<<x>> \o Rest, w, Policy)
      BY <1>1, <1>2, <1>6, <1>7, <3>2, <3>3, <3>4, QuietWith
    <3> QED BY <3>1, <3>5
  <2>2. CASE ~TooBig(window')
    <3>1. stack' = <<>> \o Rest
      BY <1>1, <1>3, <2>2 DEF IsFence
    <3>2. stack' = Rest
      BY <1>2, <3>1, NothingInFront
    <3>3. Quiet(Rest, w, Policy)
      BY <1>1, <1>2, <1>6, <1>7, QuietRest
    <3> QED BY <3>2, <3>3
  <2> QED BY <2>1, <2>2
<1> QED BY <1>1, <1>4, <1>8 DEF Policy, w

\* A flush goes on: a strict scope throws for others than its own end only.
LEMMA FlushQuiet ==
  ASSUME IInv, Quiet(stack, window, Policy), DoFlush
  PROVE  exc' = exc /\ Quiet(stack', window', Policy')
PROOF
<1>1. stack # <<>> /\ Top.c = "flush" /\ UNCHANGED scopes /\ Policy' = Policy
  BY DEF DoFlush, At, Policy
<1>2. IsSeq(stack) /\ IsSeq(Rest) /\ (Top.by # "scope" => ~Streaming(Policy))
  BY <1>1, QuietTop
<1>3. /\ IsSeq(window) /\ Len(window) \in Nat /\ Len(window) <= 1 /\ (window # <<>> => Len(window) = 1)
      /\ \A k \in DOMAIN window : IsFence(window[k])
  BY QuietWindow
<1>4. CASE ~Streaming(Policy)
  <2> DEFINE n == Len(window)
             x == [Item("run") EXCEPT !.n = n]
  <2>1. stack' = <<x>> \o Rest /\ UNCHANGED <<window, exc>>
    BY <1>4 DEF DoFlush
  <2> HIDE DEF n
  <2>2. x.c = "run" /\ x.n = n
    BY ItemIs, ItemWith
  <2> HIDE DEF x
  <2>3. Passes(x) /\ (window # <<>> => Flushes(x))
    BY <1>3, <2>2 DEF Passes, Flushes, n
  <2>4. Quiet(<<x>> \o Rest, window, Policy)
    <3>1. Len(window) <= 1 /\ (\A k \in DOMAIN window : IsFence(window[k]))
          /\ (window # <<>> => Flushes(x) \/ \E i \in DOMAIN Rest : Flushes(Rest[i]))
          /\ Top.c # "enter" /\ x.c # "submit" /\ ((x.c = "flush" /\ x.by # "scope") => ~Streaming(Policy))
      BY <1>1, <1>3, <2>2, <2>3
    <3> QED BY <1>1, <1>2, <2>3, <3>1, QuietWith
  <2> QED BY <1>1, <2>1, <2>4
<1>5. CASE Streaming(Policy)
  <2> DEFINE x == Item("stream")
             v == PropagateDiscards(window)
  <2>1. Top.by = "scope" /\ ~NoRegion(window)
    BY <1>2, <1>3, <1>5 DEF NoRegion, IsTask, IsFence
  <2>2. stack' = <<x>> \o Rest /\ exc' = exc /\ window' = v
    BY <1>5, <2>1 DEF DoFlush
  <2>3. x.c = "stream" /\ x.ops = <<>>
    BY ItemIs
  <2>4. /\ QueueOK(v, ids) /\ Len(v) <= Len(window)
        /\ \A j \in DOMAIN v : \E i \in DOMAIN window : SameOp(v[j], window[i])
    BY PropagateIs DEF IInv, DataOK, WindowOK
  <2> HIDE DEF x, v
  <2>5. Len(v) <= 1
    <3>1. Len(v) \in Nat /\ Len(v) <= Len(window) /\ Len(window) \in Nat /\ Len(window) <= 1
      BY <1>3, <2>4, SeqIs DEF QueueOK
    <3> QED BY <3>1
  <2>6. \A j \in DOMAIN v : IsFence(v[j])
    BY <1>3, <2>4 DEF IsFence, SameOp
  <2>7. Passes(x) /\ Flushes(x)
    <3>1. DOMAIN <<>> = {}
      BY ShortSeqs, SeqIs
    <3> QED BY <2>3, <3>1 DEF Passes, Flushes
  <2>8. Quiet(<<x>> \o Rest, v, Policy)
    BY <1>1, <1>2, <2>3, <2>5, <2>6, <2>7, QuietWith
  <2> QED BY <1>1, <2>2, <2>8
<1> QED BY <1>4, <1>5

\* A fence alone is a prefix, and nothing is left behind.
LEMMA ExtractQuiet ==
  ASSUME IInv, Quiet(stack, window, Policy), Extract
  PROVE  exc' = exc /\ Quiet(stack', window', Policy')
PROOF
<1> DEFINE n == PrefixLen(window)
           cut == SubSeq(window, 1, n)
           ops == Fenced(cut)
           a == Assigned(ops)
           x == [Top EXCEPT !.ops = a]
<1>1. stack # <<>> /\ Top.c = "stream" /\ window # <<>> /\ UNCHANGED scopes /\ Policy' = Policy
  BY DEF Extract, At, Policy
<1>2. IsSeq(stack) /\ IsSeq(Rest)
  BY <1>1, QuietTop
<1>3. IsSeq(window) /\ Len(window) = 1 /\ \A k \in DOMAIN window : IsFence(window[k])
  BY <1>1, QuietWindow
<1>4. n = 1
  BY <1>1, <1>3, PrefixLenIs
<1>5. stack' = <<x>> \o Rest /\ exc' = exc /\ window' = Remainder(n)
  <2> HIDE DEF ops, a
  <2>1. ~(Policy.mode = "strict" /\ n < Len(window))
    BY <1>3, <1>4
  <2> QED BY <2>1 DEF Extract, ops, a
<1>6. QueueOK(window, ids) /\ ids \in Nat /\ gens \in Nat /\ ItemOK(Top, ids, gens)
  BY <1>1, RestIs DEF IInv, WindowOK, DataOK, StackOK
<1>7. n \in 0..Len(window)
  BY <1>3, <1>4
<1>8. window' = <<>>
  <2> DEFINE t == SubSeq(window, n + 1, Len(window))
  <2>1. QueueOK(t, ids) /\ Len(t) = Len(window) - n
    <3> HIDE DEF n
    <3> QED BY <1>6, <1>7, CutsAre
  <2>2. window' = t
    BY <1>5 DEF Remainder
  <2> HIDE DEF t, n
  <2>3. Len(t) = 0
    BY <1>3, <1>4, <2>1
  <2> QED BY <2>1, <2>2, <2>3, SeqIs DEF QueueOK
<1>9. QueueOK(cut, ids) /\ Len(cut) = n /\ \A i \in DOMAIN cut : i \in DOMAIN window /\ cut[i] = window[i]
  <2> HIDE DEF n
  <2> QED BY <1>6, <1>7, CutsAre
<1> HIDE DEF n, cut
<1>10. cut # <<>> /\ \A i \in DOMAIN cut : IsFence(cut[i])
  <2>1. cut # <<>>
    <3>1. IsSeq(cut) /\ Len(cut) = 1
      BY <1>4, <1>9 DEF QueueOK
    <3>2. Len(cut) # 0
      BY <3>1
    <3> QED BY <3>1, <3>2, SeqIs
  <2> QED BY <1>3, <1>9, <2>1
<1>11. /\ IsSeq(ops) /\ ops # <<>> /\ Last(ops).kind = "fence"
       /\ \A i \in DOMAIN ops : /\ Waits(ops[i]) /\ ops[i].id \in 1..Max({ids, Last(ops).id})
                                /\ i \in DOMAIN cut => ops[i] = cut[i]
                                /\ i \notin DOMAIN cut => IsFence(ops[i])
  BY <1>6, <1>9, <1>10, FencedIs
<1> DEFINE m == Max({ids, Last(ops).id})
<1> HIDE DEF ops
<1>12. DOMAIN a = DOMAIN ops /\ \A i \in DOMAIN ops : SameOp(a[i], ops[i])
  <2>1. \A i \in DOMAIN ops : Waits(ops[i]) /\ ops[i].id \in 1..m
    BY <1>11
  <2> HIDE DEF m
  <2> QED BY <1>6, <1>11, <2>1, AssignedIs
<1> HIDE DEF a
<1>13. \A i \in DOMAIN a : IsFence(a[i])
  BY <1>10, <1>11, <1>12 DEF SameOp, IsFence
<1>14. x.c = "stream" /\ x.ops = a
  BY <1>1, <1>6, ItemWith DEF ItemOK
<1> HIDE DEF x
<1>15. Passes(x)
  BY <1>13, <1>14 DEF Passes
<1>16. Quiet(<<x>> \o Rest, <<>>, Policy)
  <2> DEFINE v == <<>>
  <2>1. v = <<>> /\ Len(v) <= 1 /\ \A k \in DOMAIN v : IsFence(v[k])
    <3>1. Len(<<>>) = 0 /\ DOMAIN <<>> = {}
      BY ShortSeqs, SeqIs
    <3> QED BY <3>1
  <2> HIDE DEF v
  <2>2. Quiet(<<x>> \o Rest, v, Policy)
    BY <1>1, <1>2, <1>14, <1>15, <2>1, QuietWith
  <2> QED BY <2>1, <2>2
<1> QED BY <1>1, <1>5, <1>8, <1>16

\* The launch of a fence leaves nothing to do but what remains of its flush.
LEMMA FenceLaunch ==
  ASSUME NEW op, IsFence(op), NEW items, IsSeq(items), Launch(op, items)
  PROVE  stack' = items
PROOF
<1>1. op.out \cap Unbound = {} /\ Dead(op) = {}
  BY DEF IsFence, Dead
<1>2. FreeAll({}) = <<>>
  BY FS_EmptySet, FreeAllAre
<1>3. stack' = (IF (op.out \cap Unbound # {} /\ Freq > 0) /\ ~Streaming(Policy) THEN <<Item("match")>> ELSE <<>>)
                  \o FreeAll(Dead(op)) \o items
  BY DEF Launch
<1>4. stack' = <<>> \o <<>> \o items
  BY <1>1, <1>2, <1>3
<1>5. <<>> \o <<>> = <<>>
  BY ShortSeqs, NothingInFront
<1> QED BY <1>4, <1>5, NothingInFront

\* Launching an operation of the window throws nothing while a strict scope is quiet.
LEMMA RunQuiet ==
  ASSUME IInv, Quiet(stack, window, Policy), Run
  PROVE  exc' = exc /\ Quiet(stack', window', Policy')
PROOF
<1> DEFINE op == Head(window)
           n == Top.n - 1
           x == [Top EXCEPT !.n = n]
<1>1. /\ stack # <<>> /\ Top.c = "run" /\ window # <<>> /\ Launch(op, <<x>> \o Rest) /\ window' = Tail(window)
      /\ exc' = exc /\ Policy' = Policy
  BY DEF Run, At, Policy
<1>2. IsSeq(stack) /\ IsSeq(Rest)
  BY <1>1, QuietTop
<1>3. IsSeq(window) /\ Len(window) = 1 /\ \A k \in DOMAIN window : IsFence(window[k])
  BY <1>1, QuietWindow
<1>4. IsFence(op)
  BY <1>1, <1>3, SeqIs
<1>5. x.c = "run"
  <2>1. DOMAIN Top = ItemFields
    BY <1>1, RestIs DEF IInv, StackOK, ItemOK
  <2> HIDE DEF n
  <2> QED BY <1>1, <2>1, ItemWith
<1> HIDE DEF op, x
<1>6. stack' = <<x>> \o Rest
  <2>1. IsSeq(<<x>> \o Rest)
    BY <1>2, InFront
  <2> QED BY <1>1, <1>4, <2>1, FenceLaunch
<1>7. window' = <<>>
  <2> DEFINE t == Tail(window)
  <2>1. IsSeq(t) /\ Len(t) = Len(window) - 1
    BY <1>1, <1>3, TailIs
  <2> HIDE DEF t
  <2>2. Len(t) = 0
    BY <1>3, <2>1
  <2>3. t = <<>>
    BY <2>1, <2>2, SeqIs
  <2> QED BY <1>1, <2>3 DEF t
<1>8. Passes(x)
  BY <1>5 DEF Passes
<1>9. Quiet(<<x>> \o Rest, <<>>, Policy)
  <2> DEFINE v == <<>>
  <2>1. v = <<>> /\ Len(v) <= 1 /\ \A k \in DOMAIN v : IsFence(v[k])
    <3>1. Len(<<>>) = 0 /\ DOMAIN <<>> = {}
      BY ShortSeqs, SeqIs
    <3> QED BY <3>1
  <2> HIDE DEF v
  <2>2. Quiet(<<x>> \o Rest, v, Policy)
    BY <1>1, <1>2, <1>5, <1>8, <2>1, QuietWith
  <2> QED BY <2>1, <2>2
<1> QED BY <1>1, <1>6, <1>7, <1>9

\* Launching an operation of a checked prefix throws nothing either.
LEMMA RunPrefixQuiet ==
  ASSUME IInv, Quiet(stack, window, Policy), RunPrefix
  PROVE  exc' = exc /\ Quiet(stack', window', Policy')
PROOF
<1> DEFINE op == Head(Top.ops)
           t == Tail(Top.ops)
           x == [Top EXCEPT !.ops = t]
<1>1. /\ stack # <<>> /\ Top.c = "stream" /\ Top.ops # <<>> /\ Launch(op, <<x>> \o Rest) /\ window' = window
      /\ exc' = exc /\ Policy' = Policy
  BY DEF RunPrefix, At, Policy
<1>2. IsSeq(stack) /\ IsSeq(Rest) /\ Passes(Top)
  BY <1>1, QuietTop
<1>3. Len(window) <= 1 /\ \A k \in DOMAIN window : IsFence(window[k])
  BY QuietWindow
<1>4. DOMAIN Top = ItemFields /\ IsSeq(Top.ops) /\ \A k \in DOMAIN Top.ops : IsFence(Top.ops[k])
  <2>1. ItemOK(Top, ids, gens)
    BY <1>1, RestIs DEF IInv, StackOK
  <2> QED BY <1>1, <1>2, <2>1 DEF ItemOK, PrefixOK, Passes
<1>5. IsFence(op) /\ \A k \in DOMAIN t : IsFence(t[k])
  BY <1>1, <1>4, SeqIs, TailIs
<1> HIDE DEF t
<1>6. x.c = "stream" /\ x.ops = t
  BY <1>1, <1>4, ItemWith
<1> HIDE DEF op, x
<1>7. stack' = <<x>> \o Rest
  <2>1. IsSeq(<<x>> \o Rest)
    BY <1>2, InFront
  <2> QED BY <1>1, <1>5, <2>1, FenceLaunch
<1>8. Passes(x) /\ Flushes(x)
  BY <1>5, <1>6 DEF Passes, Flushes
<1>9. Quiet(<<x>> \o Rest, window, Policy)
  BY <1>1, <1>2, <1>3, <1>6, <1>8, QuietWith
<1> QED BY <1>1, <1>7, <1>9

\* A flush that returns leaves the scope as quiet as it was.
LEMMA EndFlushQuiet ==
  ASSUME IInv, Quiet(stack, window, Policy), EndFlush
  PROVE  exc' = exc /\ Quiet(stack', window', Policy')
PROOF
<1>1. /\ stack # <<>> /\ stack' = Rest /\ UNCHANGED <<window, exc>>
      /\ Top.c = "run" \/ Top.c = "stream"
      /\ (Top.c = "run" /\ Top.n = 0) \/ window = <<>>
  BY DEF EndFlush, At
<1>2. ~Flushes(Top) \/ window = <<>>
  BY <1>1 DEF Flushes
<1> QED BY <1>1, <1>2, QuietDone

\* On a single rank nothing is exchanged.
LEMMA MatchQuiet ==
  ASSUME Freq = 0, IInv, Quiet(stack, window, Policy), DoMatch
  PROVE  exc' = exc /\ Quiet(stack', window', Policy')
PROOF
<1>1. stack # <<>> /\ Top.c \in {"match", "process", "matched", "issue"} /\ UNCHANGED <<window, exc>>
  BY DEF DoMatch, At
<1>2. Top.c = "match" /\ IsSeq(Rest)
  BY <1>1, QuietTop DEF Passes
<1>3. stack' = <<>> \o Rest
  BY <1>2 DEF DoMatch, At
<1>4. stack' = Rest
  BY <1>2, <1>3, NothingInFront
<1>5. ~Flushes(Top)
  BY <1>2 DEF Flushes
<1> QED BY <1>1, <1>4, <1>5, QuietDone

\* Entering and leaving a scope throw nothing; what they leave is quiet under the policy
\* that is then in force.
LEMMA ScopeQuiet ==
  ASSUME IInv, Quiet(stack, window, Policy), Enter \/ EndOfScope
  PROVE  exc' = exc /\ Quiet(stack', window', Policy')
PROOF
<1>1. stack # <<>> /\ Top.c \in {"enter", "leave"} /\ stack' = Rest /\ UNCHANGED <<window, exc>>
  BY DEF Enter, EndOfScope, At
<1>2. ~Flushes(Top)
  BY <1>1 DEF Flushes
<1> QED BY <1>1, <1>2, QuietDone

\* The runtime, while an exception passes
LEMMA RuntimeQuiet ==
  ASSUME Freq = 0, IInv, Quiet(stack, window, Policy), Runtime
  PROVE  exc' = exc /\ Quiet(stack', window', Policy')
PROOF
<1>1. CASE DoSubmit
  BY <1>1, SubmitQuiet
<1>2. CASE DoFlush
  BY <1>2, FlushQuiet
<1>3. CASE Extract
  BY <1>3, ExtractQuiet
<1>4. CASE Run
  BY <1>4, RunQuiet
<1>5. CASE RunPrefix
  BY <1>5, RunPrefixQuiet
<1>6. CASE EndFlush
  BY <1>6, EndFlushQuiet
<1>7. CASE DoMatch
  BY <1>7, MatchQuiet
<1>8. CASE Enter \/ EndOfScope
  BY <1>8, ScopeQuiet
<1>9. ~(Reuse \/ NewStore)
  <2> SUFFICES ASSUME Reuse \/ NewStore PROVE FALSE
    OBVIOUS
  <2>1. stack # <<>> /\ Top.c \in {"reuse", "detached", "new"}
    BY DEF Reuse, NewStore, At
  <2>2. Passes(Top)
    BY <2>1, QuietTop
  <2> QED BY <2>1, <2>2 DEF Passes
<1> QED BY <1>1, <1>2, <1>3, <1>4, <1>5, <1>6, <1>7, <1>8, <1>9 DEF Runtime

\* When nothing passes, an exception is thrown or the run ends or neither.
LEMMA FirstOne ==
  ASSUME IInv, exc = "none", Next
  PROVE  Calm'
PROOF
<1>1. exc' = "none" => Calm'
  BY DEF Calm, Deaths
<1>2. (exc' \in {"no region", "not detached"} /\ stack' = <<>>) => Calm'
  BY DEF Calm, Deaths
<1>3. CASE Program
  <2>1. (\E p \in Policies : BeginScope(p)) \/ exc' = exc
    BY <1>3 DEF Program, Call, Create, Drop, EndScope, Catch
  <2>2. ASSUME NEW p \in Policies, BeginScope(p) PROVE Calm'
    <3> DEFINE items == <<[Item("enter") EXCEPT !.pol = p]>>
    <3>1. UNCHANGED scopes /\ (Throw("nesting", items) \/ exc' = exc)
      BY <2>2 DEF BeginScope
    <3> HIDE DEF items
    <3>2. "nesting" \notin Deaths \cup {"none"}
      BY DEF Deaths
    <3> QED BY <1>1, <3>1, <3>2, ThrowCalm
  <2> QED BY <1>1, <2>1, <2>2
<1>4. CASE DoFlush
  <2>1. stack # <<>> /\ Top.c = "flush" /\ UNCHANGED scopes
    BY <1>4 DEF DoFlush, At
  <2>2. Throw(Top.by, Rest) \/ Abort("no region") \/ exc' = exc
    BY <1>4 DEF DoFlush
  <2>3. Top.by \in Causes
    BY <2>1, RestIs DEF IInv, StackOK, ItemOK
  <2>4. Top.by \notin Deaths \cup {"none"}
    BY <2>3 DEF Causes, Deaths
  <2>5. CASE Throw(Top.by, Rest)
    BY <2>1, <2>4, <2>5, ThrowCalm
  <2>6. CASE Abort("no region")
    BY <1>2, <2>6 DEF Abort
  <2> QED BY <1>1, <2>2, <2>5, <2>6
<1>5. CASE Extract
  <2>1. UNCHANGED scopes /\ (Throw("not streamable", Rest) \/ exc' = exc)
    BY <1>5 DEF Extract
  <2>2. "not streamable" \notin Deaths \cup {"none"}
    BY DEF Deaths
  <2> QED BY <1>1, <2>1, <2>2, ThrowCalm
<1>6. CASE Reuse
  BY <1>1, <1>2, <1>6 DEF Reuse, Abort
<1>7. CASE DoSubmit \/ Run \/ RunPrefix \/ EndFlush \/ DoMatch \/ NewStore \/ Enter \/ EndOfScope
  BY <1>1, <1>7 DEF DoSubmit, Run, RunPrefix, EndFlush, DoMatch, NewStore, Enter, EndOfScope
<1> QED BY <1>3, <1>4, <1>5, <1>6, <1>7 DEF Next, Runtime

\* Every step keeps the calm.
LEMMA KeepsCalm ==
  ASSUME Freq = 0, IInv, Calm, [Next]_vars
  PROVE  Calm'
PROOF
<1>1. CASE UNCHANGED vars
  BY <1>1 DEF Calm, vars, Quiet, Policy
<1>2. CASE Next /\ exc = "none"
  BY <1>2, FirstOne
<1>3. CASE Next /\ exc \in Deaths
  <2>1. stack = <<>>
    BY <1>3 DEF Calm
  <2>2. ~Program
    BY <1>3 DEF Program, Call, Create, Drop, BeginScope, EndScope, Catch, Ready, Idle
  <2>3. ~Runtime
    BY <2>1 DEF Runtime, DoSubmit, DoFlush, Extract, Run, RunPrefix, EndFlush, DoMatch, Reuse, NewStore, Enter,
                EndOfScope, At
  <2> QED BY <1>3, <2>2, <2>3 DEF Next
<1>4. CASE Next /\ exc \notin {"none"} \cup Deaths
  <2>1. Quiet(stack, window, Policy)
    BY <1>4 DEF Calm
  <2>2. CASE Runtime
    <3>1. exc' = exc /\ Quiet(stack', window', Policy')
      BY <2>1, <2>2, RuntimeQuiet
    <3> QED BY <1>4, <3>1 DEF Calm, Deaths
  <2>3. CASE Program
    <3>1. EndScope \/ Catch
      BY <1>4, <2>3 DEF Program, Call, Create, Drop, BeginScope, Ready
    <3>2. CASE EndScope
      <4>1. /\ stack = <<>> /\ stack' = EndCalls(Policy, scopes[Len(scopes) - 1])
            /\ UNCHANGED <<window, exc>>
        BY <3>2 DEF EndScope, Idle
      <4>2. window' = <<>>
        BY <2>1, <4>1, QuietWindow
      <4> DEFINE pol == Policy'
      <4> HIDE DEF pol
      <4>3. Quiet(EndCalls(Policy, scopes[Len(scopes) - 1]), <<>>, pol)
        BY EndCallsQuiet
      <4>4. Quiet(stack', window', pol)
        BY <4>1, <4>2, <4>3
      <4> QED BY <1>4, <4>1, <4>4 DEF Calm, Deaths, pol
    <3>3. CASE Catch
      BY <3>3 DEF Catch, Calm, Deaths
    <3> QED BY <3>1, <3>2, <3>3
  <2> QED BY <1>4, <2>2, <2>3 DEF Next
<1> QED BY <1>1, <1>2, <1>3, <1>4

\* On a single rank, whatever exception passes, the ends of scopes on its way
\* do not throw another one: all they submit is a mapping fence, which the window
\* takes alone and a flush takes out again (Scope::~Scope is noexcept(false)).
THEOREM OneException == ASSUME Freq = 0 PROVE Spec => []NoSecondException
PROOF
<1>1. Init => Calm
  BY DEF Init, Calm, Deaths
<1>2. IInv /\ Calm /\ [Next]_vars => Calm'
  BY KeepsCalm
<1>3. Calm => NoSecondException
  BY DEF Calm, NoSecondException
<1>4. Spec => []IInv
  BY Invariance
<1>5. Spec => []Calm
  BY <1>1, <1>2, <1>4, PTL DEF Spec
<1> QED BY <1>3, <1>5, PTL
=============================================================================
