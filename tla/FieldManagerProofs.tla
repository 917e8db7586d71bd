------------------------- MODULE FieldManagerProofs -------------------------
(***************************************************************************)
(* Type correctness of FieldManager and the agreement of all shards on     *)
(* which field every store gets, for any number of shards, keys and        *)
(* statements, any window size and any reuse frequency.                    *)
(*                                                                         *)
(* The argument: fm[s] only changes in steps that are a function of        *)
(* fm[s], the program and the match results (IsSucc), and programs and     *)
(* results only grow.  So every fm[s] is an element of the one sequence    *)
(* hist of values that the leading shard went through, and what is on      *)
(* record in an element of hist stays on record in the later ones.         *)
(***************************************************************************)
EXTENDS FieldManager, FiniteSetTheorems, TLAPS

\* p follows o in a run of the program prog with the match results res.
IsSucc(o, p, prog, res) ==
  LET st == prog[o.pc + 1]
  IN \/ /\ o.ctl = "idle" /\ o.pc < Len(prog)
        /\ \/ /\ st.op \in {"create", "import"}
              /\ p = MaybeIssue(o, st.key, st.op)
           \/ /\ st.op = "drop"
              /\ p = Finish(FreeField(o, o.alloc[st.store]), NoField)
           \/ /\ st.op = "query"
              /\ p = Finish([o EXCEPT !.ready = @ \cup {st.key}], NoField)
           \/ /\ st.op = "task"
              /\ p = Finish(o, NoField)
     \/ o.ctl = "issue" /\ p = IssueMatch(o, st.op)
     \/ o.ctl = "reuse" /\ p = Allocate(o, st.key)
     \/ o.ctl = "bind" /\ p = BindOutput(o, st.key)
     \/ /\ o.ctl = "wait" /\ o.matches <= Len(res)
        /\ p = [o EXCEPT !.ctl = "progress"]
     \/ o.ctl = "progress" /\ p = [o EXCEPT !.ctl = "free"]
     \/ /\ o.ctl = "free" /\ o.taken < Len(res[o.matches])
        /\ p = FreeItem(o, res[o.matches][o.taken + 1])
     \/ /\ o.ctl = "free" /\ o.taken = Len(res[o.matches])
        /\ p = EndMatch(o)

Makes(prog, i) == prog[i].op \in {"create", "import"}

InMatch(o) == o.ctl \in {"wait", "progress", "free"}

\* What holds of every value that fm[s] takes.
OrdOK(o, prog, res) ==
  /\ o \in OrdState
  /\ o.pc <= Len(prog)
  /\ o.ctl # "idle" => o.pc < Len(prog) /\ Makes(prog, o.pc + 1)
  /\ o.ctl = "reuse" \/ (InMatch(o) /\ o.why = "reuse")
       => prog[o.pc + 1].op = "create"
  /\ o.ctl = "bind" => prog[o.pc + 1].op = "import"
  /\ o.ctl \in {"idle", "reuse", "bind"} \/ (InMatch(o) /\ o.why = "reuse")
       => o.counter < FieldReuseFreq
  /\ o.outstanding => o.matches >= 1
  /\ InMatch(o) => o.outstanding
  /\ o.ctl = "progress" => o.taken = 0
  /\ o.ctl # "free" => o.taken = 0
  /\ o.ctl \in {"progress", "free"} => o.matches <= Len(res)
  /\ o.ctl = "free" => o.taken <= Len(res[o.matches])
  /\ \A i \in 1..o.pc : Makes(prog, i) => o.alloc[i] \in Field

\* What is on record in o is on record in p.
Keeps(o, p) == o.pc <= p.pc /\ \A i \in 1..o.pc : p.alloc[i] = o.alloc[i]

ProgramOK(prog) ==
  /\ prog \in Seq(Stmt) /\ Len(prog) <= MaxStmts
  /\ \A j \in 1..Len(prog) :
       prog[j].op = "drop" =>
         prog[j].store \in 1..(j-1) /\ prog[prog[j].store].op = "create"

HistOK ==
  /\ hist \in Seq(OrdState)
  /\ fm \in [Shards -> OrdState] /\ step \in [Shards -> Nat \ {0}]
  /\ \A s \in Shards : step[s] <= Len(hist) /\ fm[s] = hist[step[s]]
  /\ \A n \in 1..Len(hist) : OrdOK(hist[n], program, result)
  /\ \A n \in 1..Len(hist) - 1 : IsSucc(hist[n], hist[n+1], program, result)
  /\ \A m, n \in 1..Len(hist) : m <= n => Keeps(hist[m], hist[n])

LocalOK ==
  /\ unordered \in [Shards -> SUBSET Store] /\ matching \in [Shards -> SUBSET Store]
  /\ released \in [Shards -> SUBSET Store] /\ pending \in [Shards -> SUBSET Store]
  /\ offered \in [Shards -> Seq(SUBSET Field)]
  /\ progressed \in [Shards -> Seq(SUBSET Store)]
  /\ att \in [Shards -> [Store -> {"none", "attached", "detached"}]]
  /\ \A s \in Shards :
       /\ \A i \in unordered[s] \cup matching[s] : i <= fm[s].pc /\ Makes(program, i)
       /\ fm[s].matches = Len(offered[s])
       /\ \A m \in 1..Len(offered[s]) : IsFiniteSet(offered[s][m])

IInv ==
  ProgramOK(program) /\ result \in Seq(Seq(Field)) /\ HistOK /\ LocalOK

\* a is a prefix of b.
Grows(a, b) == Len(a) <= Len(b) /\ \A j \in 1..Len(a) : b[j] = a[j]

-----------------------------------------------------------------------------
(* Lemmas about the ordered part.                                          *)

\* A value of fm[s] has one successor: nothing else goes into the decision.
LEMMA SuccUnique ==
  ASSUME NEW o, NEW p, NEW q, NEW prog, NEW res,
         IsSucc(o, p, prog, res), IsSucc(o, q, prog, res)
  PROVE  p = q
BY DEF IsSucc

\* A successor stays one, and a value stays well formed, when the program and
\* the results grow.
LEMMA Stable ==
  ASSUME NEW o, NEW prog, NEW prog2, NEW res, NEW res2,
         prog \in Seq(Stmt), prog2 \in Seq(Stmt),
         res \in Seq(Seq(Field)), res2 \in Seq(Seq(Field)),
         Grows(prog, prog2), Grows(res, res2), OrdOK(o, prog, res)
  PROVE  /\ OrdOK(o, prog2, res2)
         /\ \A p : IsSucc(o, p, prog, res) => IsSucc(o, p, prog2, res2)
<1>1. o.pc \in Nat /\ o.matches \in Nat /\ o.taken \in Nat
  BY DEF OrdOK, OrdState
<1>2. /\ Len(prog) \in Nat /\ Len(res) \in Nat
      /\ Len(prog2) \in Nat /\ Len(res2) \in Nat
  OBVIOUS
<1>3. o.pc < Len(prog) => prog2[o.pc + 1] = prog[o.pc + 1] /\ o.pc < Len(prog2)
  <2>1. o.pc < Len(prog) => o.pc + 1 \in 1..Len(prog)
    BY <1>1, <1>2
  <2> QED BY <2>1, <1>1, <1>2 DEF Grows
<1>4. o.ctl # "idle" => o.pc < Len(prog)
  BY DEF OrdOK
<1>5. o.ctl \in {"progress", "free"} => res2[o.matches] = res[o.matches]
  <2>1. o.ctl \in {"progress", "free"} => o.matches \in 1..Len(res)
    BY <1>1, <1>2 DEF OrdOK, InMatch
  <2> QED BY <2>1 DEF Grows
<1>6. o.matches <= Len(res) => o.matches <= Len(res2)
  BY <1>1, <1>2 DEF Grows
<1>7. OrdOK(o, prog2, res2)
  <2>1. o.pc <= Len(prog2)
    BY <1>1, <1>2 DEF OrdOK, Grows
  <2>2. \A i \in 1..o.pc : prog2[i] = prog[i]
    BY <1>1, <1>2 DEF OrdOK, Grows
  <2> QED BY <1>3, <1>5, <1>6, <2>1, <2>2 DEF OrdOK, Makes, InMatch
<1>8. ASSUME NEW p, IsSucc(o, p, prog, res)
      PROVE  IsSucc(o, p, prog2, res2)
  BY <1>3, <1>4, <1>5, <1>6, <1>8 DEF IsSucc
<1> QED BY <1>7, <1>8

\* What two updates keep, they keep one after the other.
LEMMA KeepsTransitive ==
  ASSUME NEW o \in OrdState, NEW p \in OrdState, NEW q \in OrdState,
         Keeps(o, p), Keeps(p, q)
  PROVE  Keeps(o, q)
BY DEF Keeps, OrdState

\* What each operation on the ordered part does to it.
LEMMA FinishOK ==
  ASSUME NEW o \in OrdState, NEW f \in Field \cup {NoField}
  PROVE  /\ Finish(o, f) \in OrdState
         /\ Finish(o, f).pc = o.pc + 1 /\ Finish(o, f).ctl = "idle"
         /\ Finish(o, f).alloc = [o.alloc EXCEPT ![o.pc + 1] = f]
         /\ Finish(o, f).counter = o.counter
         /\ Finish(o, f).matches = o.matches
         /\ Finish(o, f).outstanding = o.outstanding
         /\ Finish(o, f).taken = o.taken
<1> DEFINE a  == [o.alloc EXCEPT ![o.pc + 1] = f]
           p1 == [o EXCEPT !.alloc = a]
           p2 == [p1 EXCEPT !.pc = o.pc + 1]
<1>1. a \in [Store -> Field \cup {NoField}]
  BY DEF OrdState
<1>2. p1 \in OrdState
  <2> HIDE DEF a
  <2> QED BY <1>1 DEF OrdState
<1>3. p2 \in OrdState
  <2> DEFINE n == o.pc + 1
  <2>1. n \in Nat
    BY DEF OrdState
  <2>2. [p1 EXCEPT !.pc = n] \in OrdState
    <3> HIDE DEF p1, n
    <3> QED BY <1>2, <2>1 DEF OrdState
  <2> QED BY <2>2
<1>4. Finish(o, f) \in OrdState
  <2>1. [p2 EXCEPT !.ctl = "idle"] \in OrdState
    <3> HIDE DEF p2
    <3> QED BY <1>3 DEF OrdState
  <2> QED BY <2>1 DEF Finish
<1>5. /\ Finish(o, f).pc = o.pc + 1 /\ Finish(o, f).ctl = "idle"
      /\ Finish(o, f).alloc = a
      /\ Finish(o, f).counter = o.counter
      /\ Finish(o, f).matches = o.matches
      /\ Finish(o, f).outstanding = o.outstanding
      /\ Finish(o, f).taken = o.taken
  BY DEF Finish, OrdState
<1> QED BY <1>4, <1>5

\* p differs from o in its queues of free fields and its output counts only.
Requeued(o, p) ==
  /\ p \in OrdState
  /\ p.pc = o.pc /\ p.ctl = o.ctl /\ p.why = o.why /\ p.alloc = o.alloc
  /\ p.counter = o.counter /\ p.matches = o.matches
  /\ p.outstanding = o.outstanding /\ p.taken = o.taken

\* Changing the queues keeps what a match relies on.
LEMMA RequeueOK ==
  ASSUME NEW o \in OrdState
  PROVE  /\ Requeued(o, o)
         /\ \A q \in [AllKeys -> Seq(Field)] : Requeued(o, [o EXCEPT !.free = q])
         /\ \A q \in [AllKeys -> Nat] : Requeued(o, [o EXCEPT !.fresh = q])
         /\ \A q \in SUBSET AllKeys : Requeued(o, [o EXCEPT !.ready = q])
BY DEF OrdState, Requeued

\* free_field only queues the field.
LEMMA FreeFieldOK ==
  ASSUME NEW o \in OrdState, NEW f \in Field
  PROVE  Requeued(o, FreeField(o, f))
<1> DEFINE q == [o.free EXCEPT ![f[1]] = Append(@, f)]
<1>1. q \in [AllKeys -> Seq(Field)]
  <2>1. f[1] \in AllKeys /\ o.free \in [AllKeys -> Seq(Field)]
    BY DEF Field, OrdState
  <2> QED BY <2>1
<1>2. Requeued(o, [o EXCEPT !.free = q])
  BY <1>1, RequeueOK
<1>3. CASE f[1] \in o.ready
  BY <1>2, <1>3 DEF FreeField
<1>4. CASE f[1] \notin o.ready
  BY <1>4, RequeueOK DEF FreeField
<1> QED BY <1>3, <1>4

\* After maybe_issue_field_match there is less than a match's worth of credit, or the outstanding
\* match is processed first.
LEMMA MaybeIssueOK ==
  ASSUME NEW o \in OrdState, NEW k \in AllKeys, NEW op \in {"create", "import"}
  PROVE  LET p == MaybeIssue(o, k, op)
         IN /\ p \in OrdState
            /\ p.pc = o.pc /\ p.alloc = o.alloc /\ p.matches = o.matches
            /\ p.outstanding = o.outstanding /\ p.taken = o.taken
            /\ \/ p.ctl = After(op) /\ p.counter < FieldReuseFreq
               \/ p.ctl = "wait" /\ p.why = "issue" /\ o.outstanding
               \/ p.ctl = "issue"
<1> DEFINE c   == o.counter + MatchCredit(o, k)
           due == c >= FieldReuseFreq
           ctl == IF ~due THEN After(op) ELSE IF o.outstanding THEN "wait" ELSE "issue"
           why == IF due THEN "issue" ELSE o.why
           p1  == [o EXCEPT !.counter = c]
           p2  == [p1 EXCEPT !.ctl = ctl]
<1>1. c \in Nat
  <2>1. MatchCredit(o, k) \in Nat
    BY ConstAssumption DEF MatchCredit
  <2> QED BY <2>1 DEF OrdState
<1>2. /\ ctl \in {"issue", "wait", "reuse", "bind"}
      /\ why \in {"issue", "reuse"}
  BY DEF After, OrdState
<1>3. p1 \in OrdState
  <2> HIDE DEF c
  <2> QED BY <1>1 DEF OrdState
<1>4. p2 \in OrdState
  <2> HIDE DEF p1, ctl
  <2> QED BY <1>2, <1>3 DEF OrdState
<1>5. MaybeIssue(o, k, op) = [p2 EXCEPT !.why = why]
  BY DEF MaybeIssue
<1>6. [p2 EXCEPT !.why = why] \in OrdState
  <2> HIDE DEF p2, why
  <2> QED BY <1>2, <1>4 DEF OrdState
<1>7. LET p == [[[o EXCEPT !.counter = c] EXCEPT !.ctl = ctl] EXCEPT !.why = why]
      IN /\ p.pc = o.pc /\ p.alloc = o.alloc /\ p.matches = o.matches
         /\ p.outstanding = o.outstanding /\ p.taken = o.taken
         /\ p.counter = c /\ p.ctl = ctl /\ p.why = why
  <2> HIDE DEF c, ctl, why
  <2> QED BY DEF OrdState
<1>8. \/ ctl = After(op) /\ c < FieldReuseFreq
      \/ ctl = "wait" /\ why = "issue" /\ o.outstanding
      \/ ctl = "issue"
  BY <1>1, ConstAssumption
<1> QED BY <1>5, <1>6, <1>7, <1>8

\* issue_field_match numbers the match and starts the credit again.
LEMMA IssueMatchOK ==
  ASSUME NEW o \in OrdState, NEW op \in {"create", "import"}
  PROVE  LET p == IssueMatch(o, op)
         IN /\ p \in OrdState
            /\ p.pc = o.pc /\ p.alloc = o.alloc /\ p.matches = o.matches + 1
            /\ p.outstanding = TRUE /\ p.taken = o.taken
            /\ p.counter = 0 /\ p.ctl = After(op)
<1> DEFINE m  == o.matches + 1
           p1 == [o EXCEPT !.matches = m]
           p2 == [p1 EXCEPT !.outstanding = TRUE]
           p3 == [p2 EXCEPT !.counter = 0]
           ctl == After(op)
<1>1. m \in Nat /\ ctl \in {"reuse", "bind"}
  BY DEF OrdState, After
<1>2. p1 \in OrdState
  <2> HIDE DEF m
  <2> QED BY <1>1 DEF OrdState
<1>3. p2 \in OrdState
  <2> HIDE DEF p1
  <2> QED BY <1>2 DEF OrdState
<1>4. p3 \in OrdState
  <2> HIDE DEF p2
  <2> QED BY <1>3 DEF OrdState
<1>5. [p3 EXCEPT !.ctl = ctl] \in OrdState
  <2> HIDE DEF p3, ctl
  <2> QED BY <1>1, <1>4 DEF OrdState
<1>6. IssueMatch(o, op) = [p3 EXCEPT !.ctl = ctl]
  BY DEF IssueMatch
<1>7. LET p == [[[[o EXCEPT !.matches = m] EXCEPT !.outstanding = TRUE]
                   EXCEPT !.counter = 0] EXCEPT !.ctl = ctl]
      IN /\ p.pc = o.pc /\ p.alloc = o.alloc /\ p.matches = m
         /\ p.outstanding = TRUE /\ p.taken = o.taken
         /\ p.counter = 0 /\ p.ctl = ctl
  <2> HIDE DEF m, ctl
  <2> QED BY DEF OrdState
<1> QED BY <1>5, <1>6, <1>7

\* An outstanding match that is processed is no longer outstanding.
LEMMA EndMatchOK ==
  ASSUME NEW o \in OrdState
  PROVE  LET p == EndMatch(o)
         IN /\ p \in OrdState
            /\ p.pc = o.pc /\ p.alloc = o.alloc /\ p.matches = o.matches
            /\ p.outstanding = FALSE /\ p.taken = 0
            /\ p.counter = o.counter /\ p.ctl = o.why
<1> DEFINE p1 == [o EXCEPT !.outstanding = FALSE]
           p2 == [p1 EXCEPT !.taken = 0]
           why == o.why
<1>1. why \in {"issue", "reuse"}
  BY DEF OrdState
<1>2. p1 \in OrdState
  BY DEF OrdState
<1>3. p2 \in OrdState
  <2> HIDE DEF p1
  <2> QED BY <1>2 DEF OrdState
<1>4. [p2 EXCEPT !.ctl = why] \in OrdState
  <2> HIDE DEF p2, why
  <2> QED BY <1>1, <1>3 DEF OrdState
<1>5. EndMatch(o) = [p2 EXCEPT !.ctl = why]
  BY DEF EndMatch
<1>6. LET p == [[[o EXCEPT !.outstanding = FALSE] EXCEPT !.taken = 0]
                  EXCEPT !.ctl = why]
      IN /\ p.pc = o.pc /\ p.alloc = o.alloc /\ p.matches = o.matches
         /\ p.outstanding = FALSE /\ p.taken = 0
         /\ p.counter = o.counter /\ p.ctl = why
  <2> HIDE DEF why
  <2> QED BY DEF OrdState
<1> QED BY <1>4, <1>5, <1>6

\* A field that a match returned is queued again.
LEMMA FreeItemOK ==
  ASSUME NEW o \in OrdState, NEW f \in Field
  PROVE  LET p == FreeItem(o, f)
         IN /\ p \in OrdState
            /\ p.pc = o.pc /\ p.ctl = o.ctl /\ p.why = o.why
            /\ p.alloc = o.alloc /\ p.counter = o.counter
            /\ p.matches = o.matches /\ p.outstanding = o.outstanding
            /\ p.taken = o.taken + 1
<1> DEFINE q == FreeField(o, f)
           n == q.taken + 1
<1>1. Requeued(o, q)
  BY FreeFieldOK
<1>2. FreeItem(o, f) = [q EXCEPT !.taken = n]
  BY DEF FreeItem
<1>3. LET p == [q EXCEPT !.taken = n]
      IN /\ p \in OrdState
         /\ p.pc = q.pc /\ p.ctl = q.ctl /\ p.why = q.why
         /\ p.alloc = q.alloc /\ p.counter = q.counter
         /\ p.matches = q.matches /\ p.outstanding = q.outstanding
         /\ p.taken = n
  <2>1. q \in OrdState
    BY <1>1 DEF Requeued
  <2>2. n \in Nat
    <3> HIDE DEF q
    <3> QED BY <2>1 DEF OrdState
  <2> HIDE DEF q, n
  <2> QED BY <2>1, <2>2 DEF OrdState
<1> HIDE DEF q
<1> QED BY <1>1, <1>2, <1>3 DEF Requeued

\* The output of a task gets the first field of its region.
LEMMA BindOutputOK ==
  ASSUME NEW o \in OrdState, NEW k \in AllKeys
  PROVE  \E q \in OrdState : Requeued(o, q) /\ BindOutput(o, k) = Finish(q, <<k, 0>>)
<1> DEFINE fr == [o.fresh EXCEPT ![k] = 1]
<1>1. fr \in [AllKeys -> Nat]
  BY DEF OrdState
<1>2. Requeued(o, [o EXCEPT !.fresh = fr])
  BY <1>1, RequeueOK
<1>3. BindOutput(o, k) = Finish([o EXCEPT !.fresh = fr], <<k, 0>>)
  BY DEF BindOutput
<1> QED BY <1>2, <1>3 DEF Requeued

\* The three ways on of allocate_field.
LEMMA AllocateOK ==
  ASSUME NEW o \in OrdState, NEW k \in AllKeys
  PROVE  \/ \E q \in OrdState, f \in Field :
              Requeued(o, q) /\ Allocate(o, k) = Finish(q, f)
         \/ LET p == Allocate(o, k)
            IN /\ p \in OrdState
               /\ p.pc = o.pc /\ p.alloc = o.alloc /\ p.matches = o.matches
               /\ o.outstanding /\ p.outstanding = o.outstanding
               /\ p.taken = o.taken /\ p.counter = o.counter
               /\ p.ctl = "wait" /\ p.why = "reuse"
<1>0. o.free \in [AllKeys -> Seq(Field)] /\ o.fresh \in [AllKeys -> Nat]
  BY DEF OrdState
<1>1. CASE CanReuse(o, k)
  <2> DEFINE fr == [o.free EXCEPT ![k] = Tail(@)]
             q  == [o EXCEPT !.free = fr]
  <2>1. o.free[k] \in Seq(Field) /\ o.free[k] # <<>>
    BY <1>0, <1>1 DEF CanReuse
  <2>2. Tail(o.free[k]) \in Seq(Field) /\ Head(o.free[k]) \in Field
    BY <2>1
  <2>3. fr \in [AllKeys -> Seq(Field)]
    BY <1>0, <2>2
  <2>4. Requeued(o, q)
    BY <2>3, RequeueOK
  <2>5. Allocate(o, k) = Finish(q, Head(o.free[k]))
    BY <1>1 DEF Allocate
  <2> HIDE DEF q
  <2> QED BY <2>2, <2>4, <2>5 DEF Requeued
<1>2. CASE ~CanReuse(o, k) /\ o.outstanding
  <2> DEFINE p1 == [o EXCEPT !.ctl = "wait"]
  <2>1. p1 \in OrdState
    BY DEF OrdState
  <2>2. [p1 EXCEPT !.why = "reuse"] \in OrdState
    <3> HIDE DEF p1
    <3> QED BY <2>1 DEF OrdState
  <2>3. LET p == [[o EXCEPT !.ctl = "wait"] EXCEPT !.why = "reuse"]
        IN /\ p.pc = o.pc /\ p.alloc = o.alloc /\ p.matches = o.matches
           /\ p.outstanding = o.outstanding
           /\ p.taken = o.taken /\ p.counter = o.counter
           /\ p.ctl = "wait" /\ p.why = "reuse"
    BY DEF OrdState
  <2>4. Allocate(o, k) = [p1 EXCEPT !.why = "reuse"]
    BY <1>2 DEF Allocate
  <2> QED BY <1>2, <2>2, <2>3, <2>4
<1>3. CASE ~CanReuse(o, k) /\ ~o.outstanding
  <2> DEFINE fr == [o.fresh EXCEPT ![k] = @ + 1]
             q  == [o EXCEPT !.fresh = fr]
  <2>1. fr \in [AllKeys -> Nat] /\ o.fresh[k] \in Nat
    BY <1>0
  <2>2. Requeued(o, q)
    BY <2>1, RequeueOK
  <2>3. Allocate(o, k) = Finish(q, <<k, o.fresh[k]>>)
    BY <1>3 DEF Allocate
  <2>4. <<k, o.fresh[k]>> \in Field
    BY <2>1 DEF Field
  <2> HIDE DEF q
  <2> QED BY <2>2, <2>3, <2>4 DEF Requeued
<1> QED BY <1>1, <1>2, <1>3

\* A statement of the program is one of the kinds that are modelled.
LEMMA StmtOK ==
  ASSUME NEW st \in Stmt
  PROVE  /\ st.op \in {"create", "import"} => st.key \in AllKeys
         /\ st.op = "query" => st.key \in AllKeys
         /\ st.op = "drop" => st.store \in Store
         /\ st.op \in {"create", "import", "query", "drop", "task"}
BY DEF Stmt, AllKeys, Store

\* Finishing a statement.
LEMMA FinishedOK ==
  ASSUME NEW o, NEW q, NEW f, NEW prog, NEW res,
         ProgramOK(prog), OrdOK(o, prog, res), Requeued(o, q),
         o.pc < Len(prog), o.counter < FieldReuseFreq, o.taken = 0,
         f \in Field \/ (f = NoField /\ ~Makes(prog, o.pc + 1))
  PROVE  /\ OrdOK(Finish(q, f), prog, res)
         /\ Keeps(o, Finish(q, f))
         /\ Finish(q, f).matches = o.matches
<1>1. q \in OrdState /\ o \in OrdState /\ f \in Field \cup {NoField}
  BY DEF Requeued, OrdOK
<1> DEFINE p == Finish(q, f)
<1>2. /\ p \in OrdState
      /\ p.pc = o.pc + 1 /\ p.ctl = "idle"
      /\ p.alloc = [o.alloc EXCEPT ![o.pc + 1] = f]
      /\ p.counter = o.counter /\ p.matches = o.matches
      /\ p.outstanding = o.outstanding /\ p.taken = o.taken
  BY <1>1, FinishOK DEF Requeued
<1>3. /\ o.pc \in Nat /\ Len(prog) \in Nat /\ MaxStmts \in Nat
      /\ o.alloc \in [Store -> Field \cup {NoField}]
      /\ Len(prog) <= MaxStmts
  BY <1>1, ConstAssumption DEF OrdState, ProgramOK
<1>4. o.pc + 1 \in Store /\ \A i \in 1..o.pc : i \in Store /\ i # o.pc + 1
  BY <1>3 DEF Store
<1>5. \A i \in 1..o.pc : p.alloc[i] = o.alloc[i]
  BY <1>2, <1>3, <1>4
<1>6. p.alloc[o.pc + 1] = f
  BY <1>2, <1>3, <1>4
<1>7. \A i \in 1..p.pc : Makes(prog, i) => p.alloc[i] \in Field
  <2> SUFFICES ASSUME NEW i \in 1..p.pc, Makes(prog, i)
               PROVE  p.alloc[i] \in Field
    OBVIOUS
  <2>1. i \in 1..o.pc \/ i = o.pc + 1
    BY <1>2, <1>3
  <2> QED BY <2>1, <1>5, <1>6 DEF OrdOK
<1> HIDE DEF p
<1>8. OrdOK(p, prog, res)
  <2>1. p.pc <= Len(prog)
    BY <1>2, <1>3
  <2> QED BY <1>2, <1>7, <2>1 DEF OrdOK, InMatch
<1>9. Keeps(o, p)
  BY <1>2, <1>3, <1>5 DEF Keeps
<1> QED BY <1>2, <1>8, <1>9 DEF p

\* A successor is well formed, keeps what is on record, and counts a match
\* exactly when it makes one.
LEMMA SuccOK ==
  ASSUME NEW o, NEW p, NEW prog, NEW res, res \in Seq(Seq(Field)),
         ProgramOK(prog), OrdOK(o, prog, res), IsSucc(o, p, prog, res)
  PROVE  /\ OrdOK(p, prog, res)
         /\ Keeps(o, p)
         /\ p.matches = IF o.ctl = "issue" THEN o.matches + 1 ELSE o.matches
<1> DEFINE st == prog[o.pc + 1]
<1>1. /\ o \in OrdState /\ o.pc \in Nat /\ o.matches \in Nat /\ o.taken \in Nat
      /\ o.counter \in Nat /\ o.alloc \in [Store -> Field \cup {NoField}]
      /\ o.why \in {"issue", "reuse"} /\ o.outstanding \in BOOLEAN
  BY DEF OrdOK, OrdState
<1>2. prog \in Seq(Stmt) /\ Len(prog) \in Nat /\ Len(prog) <= MaxStmts /\ MaxStmts \in Nat
  BY ConstAssumption DEF ProgramOK
<1>3. o.pc < Len(prog) => st \in Stmt /\ o.pc + 1 \in Store
  <2>1. o.pc < Len(prog) => o.pc + 1 \in 1..Len(prog)
    BY <1>1, <1>2
  <2> QED BY <2>1, <1>1, <1>2 DEF Store
<1>4. o.ctl # "idle" => o.pc < Len(prog) /\ Makes(prog, o.pc + 1)
  BY DEF OrdOK
<1>5. \* Same position, same record: only the control and the match changed.
      ASSUME p \in OrdState, p.pc = o.pc, p.alloc = o.alloc
      PROVE  /\ Keeps(o, p) /\ p.pc <= Len(prog)
             /\ \A i \in 1..p.pc : Makes(prog, i) => p.alloc[i] \in Field
  BY <1>1, <1>5 DEF Keeps, OrdOK
<1>6. CASE o.ctl = "idle" /\ o.pc < Len(prog) /\ st.op \in {"create", "import"}
           /\ p = MaybeIssue(o, st.key, st.op)
  <2>1. /\ p \in OrdState
        /\ p.pc = o.pc /\ p.alloc = o.alloc /\ p.matches = o.matches
        /\ p.outstanding = o.outstanding /\ p.taken = o.taken
        /\ \/ p.ctl = After(st.op) /\ p.counter < FieldReuseFreq
           \/ p.ctl = "wait" /\ p.why = "issue" /\ o.outstanding
           \/ p.ctl = "issue"
    BY <1>1, <1>3, <1>6, StmtOK, MaybeIssueOK
  <2>2. /\ o.taken = 0
        /\ o.outstanding => o.matches >= 1
    BY <1>6 DEF OrdOK
  <2> QED BY <1>5, <1>6, <2>1, <2>2 DEF OrdOK, InMatch, Makes, After
<1>7. CASE o.ctl = "idle" /\ o.pc < Len(prog) /\ st.op = "drop"
           /\ p = Finish(FreeField(o, o.alloc[st.store]), NoField)
  <2>1. st.store \in 1..o.pc /\ Makes(prog, st.store)
    <3>1. o.pc + 1 \in 1..Len(prog)
      BY <1>1, <1>2, <1>7
    <3>2. st.store \in 1..((o.pc + 1) - 1) /\ prog[st.store].op = "create"
      BY <3>1, <1>7 DEF ProgramOK
    <3> QED BY <3>2, <1>1 DEF Makes
  <2>2. o.alloc[st.store] \in Field
    BY <2>1 DEF OrdOK
  <2>3. Requeued(o, FreeField(o, o.alloc[st.store]))
    BY <1>1, <2>2, FreeFieldOK
  <2>9. o.taken = 0 /\ o.counter < FieldReuseFreq /\ ~Makes(prog, o.pc + 1)
    BY <1>7 DEF Makes, OrdOK
  <2> QED BY <1>7, <2>3, <2>9, FinishedOK
<1>8. CASE o.ctl = "idle" /\ o.pc < Len(prog) /\ st.op = "query"
           /\ p = Finish([o EXCEPT !.ready = @ \cup {st.key}], NoField)
  <2> DEFINE r == o.ready \cup {st.key}
             q == [o EXCEPT !.ready = r]
  <2>1. r \in SUBSET AllKeys
    BY <1>1, <1>3, <1>8, StmtOK DEF OrdState
  <2>2. Requeued(o, q)
    BY <1>1, <2>1, RequeueOK
  <2>3. p = Finish(q, NoField)
    BY <1>8
  <2> HIDE DEF r, q
  <2>9. o.taken = 0 /\ o.counter < FieldReuseFreq /\ ~Makes(prog, o.pc + 1)
    BY <1>8 DEF Makes, OrdOK
  <2>10. o.ctl = "idle" /\ o.pc < Len(prog)
    BY <1>8
  <2>11. /\ OrdOK(Finish(q, NoField), prog, res) /\ Keeps(o, Finish(q, NoField))
         /\ Finish(q, NoField).matches = o.matches
    BY <2>2, <2>9, <2>10, FinishedOK
  <2> QED BY <2>3, <2>10, <2>11
<1>9. CASE o.ctl = "idle" /\ o.pc < Len(prog) /\ st.op = "task" /\ p = Finish(o, NoField)
  <2>1. Requeued(o, o)
    BY <1>1, RequeueOK
  <2>9. o.taken = 0 /\ o.counter < FieldReuseFreq /\ ~Makes(prog, o.pc + 1)
    BY <1>9 DEF Makes, OrdOK
  <2> QED BY <1>9, <2>1, <2>9, FinishedOK
<1>10. CASE o.ctl = "issue" /\ p = IssueMatch(o, st.op)
  <2>1. /\ p \in OrdState
        /\ p.pc = o.pc /\ p.alloc = o.alloc /\ p.matches = o.matches + 1
        /\ p.outstanding = TRUE /\ p.taken = o.taken
        /\ p.counter = 0 /\ p.ctl = After(st.op)
    BY <1>1, <1>4, <1>10, IssueMatchOK DEF Makes
  <2>2. o.taken = 0 /\ 0 < FieldReuseFreq /\ o.matches + 1 >= 1
    BY <1>1, <1>10, ConstAssumption DEF OrdOK
  <2> QED BY <1>4, <1>5, <1>10, <2>1, <2>2 DEF OrdOK, InMatch, Makes, After
<1>11. CASE o.ctl = "reuse" /\ p = Allocate(o, st.key)
  <2>1. st.op = "create" /\ st.key \in AllKeys
    BY <1>3, <1>4, <1>11, StmtOK DEF OrdOK
  <2>2. o.taken = 0 /\ o.counter < FieldReuseFreq
    BY <1>11 DEF OrdOK
  <2>3. CASE \E q \in OrdState, f \in Field : Requeued(o, q) /\ p = Finish(q, f)
    <3>1. PICK q \in OrdState, f \in Field : Requeued(o, q) /\ p = Finish(q, f)
      BY <2>3
    <3>2. o.pc < Len(prog)
      BY <1>4, <1>11
    <3>3. OrdOK(Finish(q, f), prog, res) /\ Keeps(o, Finish(q, f)) /\ Finish(q, f).matches = o.matches
      BY <2>2, <3>1, <3>2, FinishedOK
    <3> QED BY <1>11, <3>1, <3>3
  <2>4. CASE /\ p \in OrdState
             /\ p.pc = o.pc /\ p.alloc = o.alloc /\ p.matches = o.matches
             /\ o.outstanding /\ p.outstanding = o.outstanding
             /\ p.taken = o.taken /\ p.counter = o.counter
             /\ p.ctl = "wait" /\ p.why = "reuse"
    BY <1>4, <1>5, <1>11, <2>1, <2>2, <2>4 DEF OrdOK, InMatch, Makes
  <2> QED BY <1>1, <1>11, <2>1, <2>3, <2>4, AllocateOK
<1>12. CASE o.ctl = "bind" /\ p = BindOutput(o, st.key)
  <2>1. st.key \in AllKeys
    BY <1>3, <1>4, <1>12, StmtOK DEF OrdOK
  <2>2. <<st.key, 0>> \in Field
    BY <2>1 DEF Field
  <2>3. PICK q \in OrdState : Requeued(o, q) /\ p = Finish(q, <<st.key, 0>>)
    BY <1>1, <1>12, <2>1, BindOutputOK
  <2>4. o.taken = 0 /\ o.counter < FieldReuseFreq
    BY <1>12 DEF OrdOK
  <2> DEFINE f == <<st.key, 0>>
  <2>5. f \in Field /\ p = Finish(q, f) /\ o.pc < Len(prog)
    BY <1>4, <1>12, <2>2, <2>3
  <2> HIDE DEF f
  <2>6. /\ OrdOK(Finish(q, f), prog, res) /\ Keeps(o, Finish(q, f))
        /\ Finish(q, f).matches = o.matches
    BY <2>3, <2>4, <2>5, FinishedOK
  <2> QED BY <1>12, <2>5, <2>6
<1>13. CASE o.ctl = "wait" /\ o.matches <= Len(res) /\ p = [o EXCEPT !.ctl = "progress"]
  <2>1. /\ p \in OrdState /\ p.pc = o.pc /\ p.alloc = o.alloc
        /\ p.matches = o.matches /\ p.outstanding = o.outstanding
        /\ p.taken = o.taken /\ p.counter = o.counter
        /\ p.ctl = "progress" /\ p.why = o.why
    BY <1>1, <1>13 DEF OrdState
  <2> QED BY <1>4, <1>5, <1>13, <2>1 DEF OrdOK, InMatch, Makes
<1>14. CASE o.ctl = "progress" /\ p = [o EXCEPT !.ctl = "free"]
  <2>1. /\ p \in OrdState /\ p.pc = o.pc /\ p.alloc = o.alloc
        /\ p.matches = o.matches /\ p.outstanding = o.outstanding
        /\ p.taken = o.taken /\ p.counter = o.counter
        /\ p.ctl = "free" /\ p.why = o.why
    BY <1>1, <1>14 DEF OrdState
  <2>2. /\ o.outstanding /\ o.matches >= 1 /\ o.matches <= Len(res) /\ o.taken = 0
    BY <1>14 DEF OrdOK, InMatch
  <2>3. Len(res[o.matches]) \in Nat
    <3>1. o.matches \in 1..Len(res)
      BY <1>1, <2>2
    <3> QED BY <3>1
  <2> QED BY <1>4, <1>5, <1>14, <2>1, <2>2, <2>3 DEF OrdOK, InMatch, Makes
<1>15. CASE o.ctl = "free" /\ o.taken < Len(res[o.matches])
            /\ p = FreeItem(o, res[o.matches][o.taken + 1])
  <2>1. /\ o.outstanding /\ o.matches >= 1 /\ o.matches <= Len(res)
    BY <1>15 DEF OrdOK, InMatch
  <2>2. o.matches \in 1..Len(res)
    BY <1>1, <2>1
  <2>3. res[o.matches] \in Seq(Field)
    BY <2>2
  <2>4. o.taken + 1 \in 1..Len(res[o.matches])
    BY <1>1, <1>15, <2>3
  <2>5. res[o.matches][o.taken + 1] \in Field
    BY <2>3, <2>4
  <2>6. /\ p \in OrdState
        /\ p.pc = o.pc /\ p.ctl = o.ctl /\ p.why = o.why
        /\ p.alloc = o.alloc /\ p.counter = o.counter
        /\ p.matches = o.matches /\ p.outstanding = o.outstanding
        /\ p.taken = o.taken + 1
    BY <1>1, <1>15, <2>5, FreeItemOK
  <2>7. p.taken <= Len(res[o.matches])
    BY <2>4, <2>6
  <2> QED BY <1>4, <1>5, <1>15, <2>1, <2>6, <2>7 DEF OrdOK, InMatch, Makes
<1>16. CASE o.ctl = "free" /\ o.taken = Len(res[o.matches]) /\ p = EndMatch(o)
  <2>1. /\ p \in OrdState
        /\ p.pc = o.pc /\ p.alloc = o.alloc /\ p.matches = o.matches
        /\ p.outstanding = FALSE /\ p.taken = 0
        /\ p.counter = o.counter /\ p.ctl = o.why
    BY <1>1, <1>16, EndMatchOK
  <2> QED BY <1>1, <1>4, <1>5, <1>16, <2>1 DEF OrdOK, InMatch, Makes
<1> QED BY <1>6, <1>7, <1>8, <1>9, <1>10, <1>11, <1>12, <1>13, <1>14, <1>15, <1>16 DEF IsSucc
-----------------------------------------------------------------------------
(* Steps.                                                                  *)

\* A step of the ordered part of shard s keeps to the history.
LEMMA OrderedStep ==
  ASSUME IInv, NEW s \in Shards, NEW o, Ordered(s, o),
         ProgramOK(program'), result' \in Seq(Seq(Field)),
         Grows(program, program'), Grows(result, result'),
         IsSucc(fm[s], o, program', result')
  PROVE  /\ HistOK'
         /\ \A t \in Shards : \A i \in Store :
              i <= fm[t].pc /\ Makes(program, i)
                => i <= fm'[t].pc /\ Makes(program', i)
         /\ fm'[s].matches = IF fm[s].ctl = "issue" THEN fm[s].matches + 1
                                                    ELSE fm[s].matches
         /\ \A t \in Shards \ {s} : fm'[t] = fm[t]
<1> DEFINE n == step[s]
<1>1. /\ hist \in Seq(OrdState) /\ Len(hist) \in Nat
      /\ fm \in [Shards -> OrdState] /\ step \in [Shards -> Nat \ {0}]
      /\ n \in Nat \ {0} /\ n <= Len(hist) /\ n \in 1..Len(hist) /\ fm[s] = hist[n]
  BY DEF IInv, HistOK
<1>2. /\ program \in Seq(Stmt) /\ program' \in Seq(Stmt) /\ result \in Seq(Seq(Field))
      /\ Len(program) \in Nat /\ Len(program') \in Nat
  BY DEF IInv, ProgramOK
<1>3. \A m \in 1..Len(hist) :
        /\ OrdOK(hist[m], program', result')
        /\ \A p : IsSucc(hist[m], p, program, result)
                    => IsSucc(hist[m], p, program', result')
  <2> TAKE m \in 1..Len(hist)
  <2>1. OrdOK(hist[m], program, result)
    BY DEF IInv, HistOK
  <2> QED BY <1>2, <2>1, Stable
<1>4. \A m \in 1..Len(hist) - 1 : IsSucc(hist[m], hist[m+1], program', result')
  <2> TAKE m \in 1..Len(hist) - 1
  <2>1. m \in 1..Len(hist)
    BY <1>1
  <2>2. IsSucc(hist[m], hist[m+1], program, result)
    BY DEF IInv, HistOK
  <2> QED BY <1>3, <2>1, <2>2
<1>5. /\ OrdOK(o, program', result') /\ Keeps(fm[s], o)
      /\ o.matches = IF fm[s].ctl = "issue" THEN fm[s].matches + 1 ELSE fm[s].matches
  <2>1. OrdOK(fm[s], program', result')
    BY <1>1, <1>3
  <2> QED BY <2>1, SuccOK
<1>6. o \in OrdState
  BY <1>5 DEF OrdOK
<1>7. /\ fm' = [fm EXCEPT ![s] = o] /\ step' = [step EXCEPT ![s] = n + 1]
      /\ fm' \in [Shards -> OrdState] /\ step' \in [Shards -> Nat \ {0}]
  BY <1>1, <1>6 DEF Ordered
<1>8. \A m1, m2 \in 1..Len(hist) : m1 <= m2 => Keeps(hist[m1], hist[m2])
  BY DEF IInv, HistOK
<1>9. HistOK'
  <2>1. CASE n < Len(hist)
    <3>1. hist' = hist
      BY <1>1, <2>1 DEF Ordered
    <3>2. IsSucc(fm[s], hist[n+1], program', result')
      BY <1>1, <1>4, <2>1
    <3>3. o = hist[n+1]
      BY <3>2, SuccUnique
    <3>4. \A t \in Shards : step'[t] <= Len(hist) /\ fm'[t] = hist[step'[t]]
      <4> TAKE t \in Shards
      <4>1. CASE t = s
        BY <1>1, <1>7, <2>1, <3>3, <4>1
      <4>2. CASE t # s
        BY <1>7, <4>2 DEF IInv, HistOK
      <4> QED BY <4>1, <4>2
    <3> QED BY <1>1, <1>3, <1>4, <1>7, <1>8, <3>1, <3>4 DEF HistOK
  <2>2. CASE n = Len(hist)
    <3>1. hist' = Append(hist, o)
      BY <2>2 DEF Ordered
    <3>2. /\ hist' \in Seq(OrdState) /\ Len(hist') = n + 1 /\ hist'[n+1] = o
          /\ \A m \in 1..n : hist'[m] = hist[m]
      BY <1>1, <1>6, <2>2, <3>1
    <3>3. \A t \in Shards : step'[t] <= Len(hist') /\ fm'[t] = hist'[step'[t]]
      <4> TAKE t \in Shards
      <4>1. CASE t = s
        BY <1>1, <1>7, <3>2, <4>1
      <4>2. CASE t # s
        <5>1. step[t] \in Nat \ {0} /\ step[t] <= n /\ fm[t] = hist[step[t]]
          BY <1>1, <2>2 DEF IInv, HistOK
        <5>2. step'[t] = step[t] /\ fm'[t] = fm[t]
          BY <1>1, <1>7, <4>2
        <5> QED BY <1>1, <3>2, <5>1, <5>2
      <4> QED BY <4>1, <4>2
    <3>4. \A m \in 1..Len(hist') : OrdOK(hist'[m], program', result')
      <4> TAKE m \in 1..Len(hist')
      <4>1. m \in 1..n \/ m = n + 1
        BY <1>1, <3>2
      <4> QED BY <1>3, <1>5, <2>2, <3>2, <4>1
    <3>5. \A m \in 1..Len(hist') - 1 : IsSucc(hist'[m], hist'[m+1], program', result')
      <4> TAKE m \in 1..Len(hist') - 1
      <4>1. CASE m = n
        BY <1>1, <3>2, <4>1
      <4>2. CASE m # n
        <5>1. m \in 1..Len(hist) - 1 /\ m \in 1..n /\ m + 1 \in 1..n
          BY <1>1, <2>2, <3>2, <4>2
        <5> QED BY <1>4, <3>2, <5>1
      <4> QED BY <4>1, <4>2
    <3>6. \A m1, m2 \in 1..Len(hist') : m1 <= m2 => Keeps(hist'[m1], hist'[m2])
      <4> SUFFICES ASSUME NEW m1 \in 1..Len(hist'), NEW m2 \in 1..Len(hist'), m1 <= m2
                   PROVE  Keeps(hist'[m1], hist'[m2])
        OBVIOUS
      <4>1. CASE m2 # n + 1
        <5>1. m1 \in 1..n /\ m2 \in 1..n
          BY <1>1, <3>2, <4>1
        <5> QED BY <1>8, <2>2, <3>2, <5>1
      <4>2. CASE m1 = n + 1
        <5>1. m2 = n + 1
          BY <1>1, <3>2, <4>2
        <5>2. Keeps(o, o)
          BY <1>6 DEF Keeps, OrdState
        <5> QED BY <3>2, <4>2, <5>1, <5>2
      <4>3. CASE m1 # n + 1 /\ m2 = n + 1
        <5>1. m1 \in 1..n
          BY <1>1, <3>2, <4>3
        <5>2. Keeps(hist[m1], hist[n])
          BY <1>1, <1>8, <2>2, <5>1
        <5>3. hist[m1] \in OrdState
          BY <1>1, <2>2, <5>1
        <5>4. Keeps(hist[m1], o)
          BY <1>1, <1>5, <1>6, <5>2, <5>3, KeepsTransitive
        <5> QED BY <3>2, <4>3, <5>1, <5>4
      <4> QED BY <4>1, <4>2, <4>3
    <3> QED BY <1>7, <3>2, <3>3, <3>4, <3>5, <3>6 DEF HistOK
  <2> QED BY <1>1, <2>1, <2>2
<1>10. ASSUME NEW t \in Shards, NEW i \in Store, i <= fm[t].pc, Makes(program, i)
       PROVE  i <= fm'[t].pc /\ Makes(program', i)
  <2>1. fm[t].pc <= fm'[t].pc /\ fm[t].pc \in Nat /\ fm'[t].pc \in Nat
    <3>1. CASE t = s
      BY <1>1, <1>5, <1>6, <1>7, <3>1 DEF Keeps, OrdState
    <3>2. CASE t # s
      BY <1>1, <1>7, <3>2 DEF OrdState
    <3> QED BY <3>1, <3>2
  <2>2. fm[t].pc <= Len(program)
    BY <1>1 DEF IInv, HistOK, OrdOK
  <2>3. i \in Nat /\ i >= 1
    BY ConstAssumption DEF Store
  <2>4. i \in 1..Len(program)
    BY <1>2, <1>10, <2>1, <2>2, <2>3
  <2>5. program'[i] = program[i]
    BY <2>4 DEF Grows
  <2> QED BY <1>10, <2>1, <2>3, <2>5 DEF Makes
<1> QED BY <1>1, <1>5, <1>7, <1>9, <1>10

\* The manager of a shard is one of the common history, so in order.
LEMMA CurrentOK ==
  ASSUME IInv, NEW s \in Shards
  PROVE  OrdOK(fm[s], program, result) /\ program \in Seq(Stmt)
<1>1. step[s] \in 1..Len(hist) /\ fm[s] = hist[step[s]]
  BY DEF IInv, HistOK
<1> QED BY <1>1 DEF IInv, HistOK, ProgramOK

\* The statement that a shard starts is the next one of the common program.
LEMMA StartsOK ==
  ASSUME IInv, NEW s \in Shards, NEW st \in Menu, Starts(s, st)
  PROVE  /\ fm[s].ctl = "idle" /\ fm[s].pc < Len(program')
         /\ program'[fm[s].pc + 1] = st
         /\ ProgramOK(program') /\ Grows(program, program')
<1>1. /\ st \in Stmt
      /\ program \in Seq(Stmt) /\ Len(program) \in Nat /\ Len(program) <= MaxStmts
      /\ MaxStmts \in Nat /\ fm[s].pc \in Nat /\ fm[s].pc <= Len(program)
  <2>1. fm[s] \in OrdState /\ OrdOK(fm[s], program, result)
    BY CurrentOK DEF OrdOK
  <2> QED BY <2>1, MenuAssumption, ConstAssumption DEF IInv, ProgramOK, OrdOK, OrdState
<1>2. CASE /\ fm[s].pc < Len(program)
           /\ st = program[fm[s].pc + 1]
           /\ UNCHANGED program
  BY <1>1, <1>2 DEF IInv, Starts, Grows
<1>3. CASE /\ fm[s].pc = Len(program) /\ Len(program) < MaxStmts
           /\ Legal(st)
           /\ program' = Append(program, st)
  <2>1. /\ program' \in Seq(Stmt) /\ Len(program') = Len(program) + 1
        /\ program'[Len(program) + 1] = st
        /\ \A j \in 1..Len(program) : program'[j] = program[j]
    BY <1>1, <1>3
  <2>2. ASSUME NEW j \in 1..Len(program'), program'[j].op = "drop"
        PROVE  /\ program'[j].store \in 1..(j-1)
               /\ program'[program'[j].store].op = "create"
    <3>1. CASE j \in 1..Len(program)
      <4>1. /\ program'[j].store \in 1..(j-1)
            /\ program[program'[j].store].op = "create"
        BY <2>1, <2>2, <3>1 DEF IInv, ProgramOK
      <4>2. program'[j].store \in 1..Len(program)
        BY <1>1, <3>1, <4>1
      <4> QED BY <2>1, <4>1, <4>2
    <3>2. CASE j = Len(program) + 1
      <4>1. st.op = "drop"
        BY <2>1, <2>2, <3>2
      <4>2. st.store <= Len(program) /\ program[st.store].op = "create"
        BY <1>3, <4>1 DEF Legal
      <4>3. st.store \in 1..MaxStmts
        BY <1>1, <4>1, StmtOK DEF Store
      <4>4. st.store \in 1..Len(program)
        BY <1>1, <4>2, <4>3
      <4> QED BY <1>1, <2>1, <3>2, <4>2, <4>4
    <3> QED BY <1>1, <2>1, <3>1, <3>2
  <2>3. ProgramOK(program')
    BY <1>1, <1>3, <2>1, <2>2 DEF ProgramOK
  <2> QED BY <1>1, <1>3, <2>1, <2>3 DEF Starts, Grows
<1> QED BY <1>2, <1>3 DEF Starts

\* The program does not move unless a statement starts.
LEMMA SameProgram ==
  ASSUME IInv, NEW s \in Shards, UNCHANGED program, fm[s].ctl # "idle"
  PROVE  /\ ProgramOK(program') /\ Grows(program, program')
         /\ Current(s) = program'[fm[s].pc + 1]
         /\ Current(s).op \in {"create", "import"}
<1>1. OrdOK(fm[s], program, result) /\ program \in Seq(Stmt)
  BY CurrentOK
<1>2. Makes(program, fm[s].pc + 1)
  BY <1>1 DEF OrdOK
<1> QED BY <1>1, <1>2 DEF IInv, Current, Makes, Grows

\* The results of matches stay as long as no match ends.
LEMMA SameResult ==
  ASSUME IInv, UNCHANGED result
  PROVE  result' \in Seq(Seq(Field)) /\ Grows(result, result')
BY DEF IInv, Grows

\* A step of the window keeps the attachments and what is pending typed.
LEMMA WindowOK ==
  ASSUME IInv, NEW s \in Shards, NEW flush, NEW marked \in SUBSET Store,
         NEW calls, NEW ops, WindowStep(s, flush, marked, calls, ops)
  PROVE  /\ att' \in [Shards -> [Store -> {"none", "attached", "detached"}]]
         /\ pending' \in [Shards -> SUBSET Store]
<1>1. /\ att \in [Shards -> [Store -> {"none", "attached", "detached"}]]
      /\ pending \in [Shards -> SUBSET Store]
  BY DEF IInv, LocalOK
<1> DEFINE pre  == IF flush THEN window[s] ELSE <<>>
           todo == (IF flush THEN <<>> ELSE window[s]) \o ops
           w    == pre \o SubSeq(todo, 1, (Len(todo) \div WindowSize) * WindowSize)
<1>2. /\ att' = [att EXCEPT ![s] = AttAfter(s, w)]
      /\ pending' = [pending EXCEPT ![s] = PendingAfter(s, w, marked)]
  BY DEF WindowStep
<1> HIDE DEF w
<1>3. AttAfter(s, w) \in [Store -> {"none", "attached", "detached"}]
  <2>1. \A i \in Store : AttAfter(s, w)[i] \in {"none", "attached", "detached"}
    BY <1>1 DEF AttAfter
  <2> QED BY <2>1 DEF AttAfter
<1>4. PendingAfter(s, w, marked) \in SUBSET Store
  BY <1>1 DEF PendingAfter
<1>5. att' \in [Shards -> [Store -> {"none", "attached", "detached"}]]
  BY <1>1, <1>2, <1>3
<1>6. pending' \in [Shards -> SUBSET Store]
  BY <1>1, <1>2, <1>4
<1> QED BY <1>5, <1>6

\* The local part of the invariant after a step of shard s that makes no offer
\* and frees nothing.
LEMMA LocalStep ==
  ASSUME IInv, NEW s \in Shards,
         fm[s].ctl # "issue",
         \A t \in Shards : \A i \in Store :
           i <= fm[t].pc /\ Makes(program, i)
             => i <= fm'[t].pc /\ Makes(program', i),
         fm'[s].matches = fm[s].matches,
         \A t \in Shards \ {s} : fm'[t] = fm[t],
         unordered' \in [Shards -> SUBSET Store], matching' \in [Shards -> SUBSET Store],
         \A t \in Shards : unordered'[t] \cup matching'[t] \subseteq unordered[t] \cup matching[t],
         released' \in [Shards -> SUBSET Store], pending' \in [Shards -> SUBSET Store],
         progressed' \in [Shards -> Seq(SUBSET Store)],
         att' \in [Shards -> [Store -> {"none", "attached", "detached"}]],
         UNCHANGED offered
  PROVE  LocalOK'
<1>1. \A t \in Shards : fm'[t].matches = fm[t].matches
  OBVIOUS
<1>2. ASSUME NEW t \in Shards, NEW i \in unordered'[t] \cup matching'[t]
      PROVE  i <= fm'[t].pc /\ Makes(program', i)
  <2>1. i \in unordered[t] \cup matching[t] /\ i \in Store
    BY <1>2 DEF IInv, LocalOK
  <2>2. i <= fm[t].pc /\ Makes(program, i)
    BY <2>1 DEF IInv, LocalOK
  <2> QED BY <2>1, <2>2
<1> QED BY <1>1, <1>2 DEF IInv, LocalOK

\* The output of a match is a sequence of fields.
LEMMA MatchResultOK ==
  ASSUME IInv, NEW s \in Shards, NEW m \in 1..Len(offered[s]),
         NEW items \in SetToSeqs({f \in offered[s][m] :
                                    \A t \in Shards : f \in offered[t][m]})
  PROVE  items \in Seq(Field)
<1> DEFINE S == {f \in offered[s][m] : \A t \in Shards : f \in offered[t][m]}
<1>1. offered[s][m] \in SUBSET Field /\ IsFiniteSet(offered[s][m])
  BY DEF IInv, LocalOK
<1>2. S \subseteq Field /\ IsFiniteSet(S)
  BY <1>1, FS_Subset
<1> HIDE DEF S
<1>3. Cardinality(S) \in Nat
  BY <1>2, FS_CardinalityType
<1>4. items \in [1..Cardinality(S) -> S]
  BY DEF SetToSeqs, S
<1> QED BY <1>2, <1>3, <1>4

\* What a shard offers is a finite set of fields.
LEMMA OfferOK ==
  ASSUME IInv, NEW s \in Shards
  PROVE  /\ {fm[s].alloc[i] : i \in unordered[s]} \subseteq Field
         /\ IsFiniteSet({fm[s].alloc[i] : i \in unordered[s]})
<1>1. unordered[s] \subseteq Store
  BY DEF IInv, LocalOK
<1>2. ASSUME NEW i \in unordered[s]
      PROVE  fm[s].alloc[i] \in Field
  <2>1. i \in 1..fm[s].pc /\ Makes(program, i)
    BY <1>1, CurrentOK, ConstAssumption DEF IInv, LocalOK, OrdOK, OrdState, Store
  <2> QED BY <2>1, CurrentOK DEF OrdOK
<1>3. IsFiniteSet(unordered[s])
  <2>1. IsFiniteSet(1..MaxStmts)
    BY ConstAssumption, FS_Interval
  <2> QED BY <1>1, <2>1, FS_Subset DEF Store
<1>4. IsFiniteSet({fm[s].alloc[i] : i \in unordered[s]})
  <2> DEFINE g == [i \in unordered[s] |-> fm[s].alloc[i]]
  <2>1. g \in Surjection(unordered[s], {fm[s].alloc[i] : i \in unordered[s]})
    BY DEF Surjection
  <2> QED BY <1>3, <2>1, FS_Surjection
<1> QED BY <1>2, <1>4

\* A step of shard s that starts a statement.
LEMMA StartStep ==
  ASSUME IInv, NEW s \in Shards, NEW st \in Menu, Starts(s, st), NEW o, Ordered(s, o),
         UNCHANGED <<result, unordered, matching, offered, progressed>>,
         released' \in [Shards -> SUBSET Store], pending' \in [Shards -> SUBSET Store],
         att' \in [Shards -> [Store -> {"none", "attached", "detached"}]],
         IsSucc(fm[s], o, program', result')
  PROVE  IInv'
<1>1. /\ fm[s].ctl = "idle"
      /\ ProgramOK(program') /\ Grows(program, program')
      /\ result' \in Seq(Seq(Field)) /\ Grows(result, result')
  BY StartsOK, SameResult
<1>2. /\ HistOK'
      /\ \A t \in Shards : \A i \in Store :
           i <= fm[t].pc /\ Makes(program, i)
             => i <= fm'[t].pc /\ Makes(program', i)
      /\ fm'[s].matches = fm[s].matches
      /\ \A t \in Shards \ {s} : fm'[t] = fm[t]
  BY <1>1, OrderedStep
<1>3. /\ unordered' \in [Shards -> SUBSET Store] /\ matching' \in [Shards -> SUBSET Store]
      /\ \A t \in Shards : unordered'[t] \cup matching'[t] \subseteq unordered[t] \cup matching[t]
      /\ progressed' \in [Shards -> Seq(SUBSET Store)]
  BY DEF IInv, LocalOK
<1>4. LocalOK'
  BY <1>1, <1>2, <1>3, LocalStep
<1> QED BY <1>1, <1>2, <1>4 DEF IInv

\* A step of shard s within a statement that makes no offer.
LEMMA InsideStep ==
  ASSUME IInv, NEW s \in Shards, NEW o, Ordered(s, o),
         fm[s].ctl \notin {"idle", "issue"}, UNCHANGED <<program, offered>>,
         result' \in Seq(Seq(Field)), Grows(result, result'),
         unordered' \in [Shards -> SUBSET Store], matching' \in [Shards -> SUBSET Store],
         \A t \in Shards : unordered'[t] \cup matching'[t] \subseteq unordered[t] \cup matching[t],
         released' \in [Shards -> SUBSET Store], pending' \in [Shards -> SUBSET Store],
         progressed' \in [Shards -> Seq(SUBSET Store)],
         att' \in [Shards -> [Store -> {"none", "attached", "detached"}]],
         IsSucc(fm[s], o, program', result')
  PROVE  IInv'
<1>1. ProgramOK(program') /\ Grows(program, program')
  BY SameProgram
<1>2. /\ HistOK'
      /\ \A t \in Shards : \A i \in Store :
           i <= fm[t].pc /\ Makes(program, i)
             => i <= fm'[t].pc /\ Makes(program', i)
      /\ fm'[s].matches = fm[s].matches
      /\ \A t \in Shards \ {s} : fm'[t] = fm[t]
  BY <1>1, OrderedStep
<1>3. LocalOK'
  BY <1>2, LocalStep
<1> QED BY <1>1, <1>2, <1>3 DEF IInv

\* Creating a store keeps the invariant.
LEMMA BeginCreateOK == ASSUME IInv, NEW s \in Shards, BeginCreate(s) PROVE IInv'
<1>1. PICK st \in Menu :
        /\ st.op = "create" /\ Starts(s, st)
        /\ Ordered(s, MaybeIssue(fm[s], st.key, st.op))
        /\ Window(s, MaybeIssue(fm[s], st.key, st.op).ctl = "wait", <<>>, <<>>)
        /\ UNCHANGED <<local, result>>
  BY DEF BeginCreate
<1> DEFINE o == MaybeIssue(fm[s], st.key, st.op)
<1>2. IsSucc(fm[s], o, program', result')
  BY <1>1, StartsOK DEF IsSucc
<1> HIDE DEF o
<1>3. /\ att' \in [Shards -> [Store -> {"none", "attached", "detached"}]]
      /\ pending' \in [Shards -> SUBSET Store]
  BY <1>1, WindowOK DEF Window
<1>4. /\ UNCHANGED <<result, unordered, matching, offered, progressed>>
      /\ released' \in [Shards -> SUBSET Store]
  BY <1>1 DEF IInv, LocalOK, local
<1> QED BY <1>1, <1>2, <1>3, <1>4, StartStep DEF o

\* Importing a field keeps the invariant.
LEMMA BeginImportOK == ASSUME IInv, NEW s \in Shards, BeginImport(s) PROVE IInv'
<1>1. PICK st \in Menu :
        /\ st.op = "import" /\ Starts(s, st)
        /\ Ordered(s, MaybeIssue(fm[s], st.key, st.op))
        /\ Window(s, TRUE, <<TaskOp(fm[s].pc + 1)>>, <<>>)
        /\ UNCHANGED <<local, result>>
  BY DEF BeginImport
<1> DEFINE o == MaybeIssue(fm[s], st.key, st.op)
<1>2. IsSucc(fm[s], o, program', result')
  BY <1>1, StartsOK DEF IsSucc
<1> HIDE DEF o
<1>3. /\ att' \in [Shards -> [Store -> {"none", "attached", "detached"}]]
      /\ pending' \in [Shards -> SUBSET Store]
  BY <1>1, WindowOK DEF Window
<1>4. /\ UNCHANGED <<result, unordered, matching, offered, progressed>>
      /\ released' \in [Shards -> SUBSET Store]
  BY <1>1 DEF IInv, LocalOK, local
<1> QED BY <1>1, <1>2, <1>3, <1>4, StartStep DEF o

\* Dropping a store, in statement order, keeps the invariant.
LEMMA DropOK == ASSUME IInv, NEW s \in Shards, Drop(s) PROVE IInv'
<1>1. PICK st \in Menu :
        /\ st.op = "drop" /\ Starts(s, st)
        /\ Ordered(s, Finish(FreeField(fm[s], fm[s].alloc[st.store]), NoField))
        /\ released' = [released EXCEPT ![s] = @ \cup {st.store}]
        /\ Release(s, st.store, FALSE, <<DiscardOp(fm[s].alloc[st.store])>>)
        /\ UNCHANGED <<result, unordered, matching, offered, progressed>>
  BY DEF Drop
<1> DEFINE o == Finish(FreeField(fm[s], fm[s].alloc[st.store]), NoField)
<1>2. IsSucc(fm[s], o, program', result')
  BY <1>1, StartsOK DEF IsSucc
<1> HIDE DEF o
<1>3. st.store \in Store
  BY <1>1, MenuAssumption, StmtOK
<1>4. /\ att' \in [Shards -> [Store -> {"none", "attached", "detached"}]]
      /\ pending' \in [Shards -> SUBSET Store]
  <2>1. PendingMark(s, st.store) \in SUBSET Store
    BY <1>3 DEF PendingMark
  <2> QED BY <1>1, <2>1, WindowOK DEF Release
<1>5. released' \in [Shards -> SUBSET Store]
  BY <1>1, <1>3 DEF IInv, LocalOK
<1> QED BY <1>1, <1>2, <1>4, <1>5, StartStep DEF o

\* A query of a store's field keeps the invariant.
LEMMA QueryOK == ASSUME IInv, NEW s \in Shards, Query(s) PROVE IInv'
<1>1. PICK st \in Menu :
        /\ st.op = "query" /\ Starts(s, st)
        /\ Ordered(s, Finish([fm[s] EXCEPT !.ready = @ \cup {st.key}], NoField))
        /\ UNCHANGED <<result, local, window, att, pending, stream>>
  BY DEF Query
<1> DEFINE o == Finish([fm[s] EXCEPT !.ready = @ \cup {st.key}], NoField)
<1>2. Ordered(s, o) /\ Starts(s, st) /\ IsSucc(fm[s], o, program', result')
  BY <1>1, StartsOK DEF IsSucc
<1> HIDE DEF o
<1>3. /\ UNCHANGED <<result, unordered, matching, offered, progressed, att, pending, released>>
  BY <1>1 DEF local
<1>4. /\ att' \in [Shards -> [Store -> {"none", "attached", "detached"}]]
      /\ pending' \in [Shards -> SUBSET Store]
      /\ released' \in [Shards -> SUBSET Store]
  BY <1>3 DEF IInv, LocalOK
<1> QED BY <1>2, <1>3, <1>4, StartStep

\* A task keeps the invariant.
LEMMA TaskOK == ASSUME IInv, NEW s \in Shards, Task(s) PROVE IInv'
<1>1. PICK st \in Menu :
        /\ st.op = "task" /\ Starts(s, st)
        /\ Ordered(s, Finish(fm[s], NoField))
        /\ Window(s, FALSE, <<>>, <<TaskOp(fm[s].pc + 1)>>)
        /\ UNCHANGED <<result, local>>
  BY DEF Task
<1> DEFINE o == Finish(fm[s], NoField)
<1>2. IsSucc(fm[s], o, program', result')
  BY <1>1, StartsOK DEF IsSucc
<1> HIDE DEF o
<1>3. /\ att' \in [Shards -> [Store -> {"none", "attached", "detached"}]]
      /\ pending' \in [Shards -> SUBSET Store]
  BY <1>1, WindowOK DEF Window
<1>4. /\ UNCHANGED <<result, unordered, matching, offered, progressed>>
      /\ released' \in [Shards -> SUBSET Store]
  BY <1>1 DEF IInv, LocalOK, local
<1> QED BY <1>1, <1>2, <1>3, <1>4, StartStep DEF o

\* What InsideStep needs of the variables that a step leaves alone.
LEMMA SameLocal ==
  ASSUME IInv
  PROVE  /\ UNCHANGED unordered => unordered' \in [Shards -> SUBSET Store]
         /\ UNCHANGED matching => matching' \in [Shards -> SUBSET Store]
         /\ UNCHANGED released => released' \in [Shards -> SUBSET Store]
         /\ UNCHANGED pending => pending' \in [Shards -> SUBSET Store]
         /\ UNCHANGED progressed => progressed' \in [Shards -> Seq(SUBSET Store)]
         /\ UNCHANGED att => att' \in [Shards -> [Store -> {"none", "attached", "detached"}]]
         /\ UNCHANGED <<unordered, matching>> =>
              \A t \in Shards : unordered'[t] \cup matching'[t]
                                  \subseteq unordered[t] \cup matching[t]
BY DEF IInv, LocalOK

\* Taking a field from the queue keeps the invariant.
LEMMA ReuseOK == ASSUME IInv, NEW s \in Shards, Reuse(s) PROVE IInv'
<1> DEFINE o == Allocate(fm[s], Current(s).key)
<1>1. fm[s].ctl = "reuse" /\ Ordered(s, o) /\ UNCHANGED <<program, result, local>>
  BY DEF Reuse
<1>2. \E flush, calls, ops : Window(s, flush, calls, ops)
  BY DEF Reuse
<1>3. /\ att' \in [Shards -> [Store -> {"none", "attached", "detached"}]]
      /\ pending' \in [Shards -> SUBSET Store]
  BY <1>2, WindowOK DEF Window
<1>4. IsSucc(fm[s], o, program', result')
  BY <1>1, SameProgram DEF IsSucc
<1> HIDE DEF o
<1>5. UNCHANGED <<program, result, unordered, matching, offered, released, progressed>>
  BY <1>1 DEF local
<1> QED BY <1>1, <1>3, <1>4, <1>5, SameLocal, SameResult, InsideStep

\* Taking the field of an output keeps the invariant.
LEMMA BindOK == ASSUME IInv, NEW s \in Shards, Bind(s) PROVE IInv'
<1> DEFINE o == BindOutput(fm[s], Current(s).key)
<1>1. /\ fm[s].ctl = "bind" /\ Ordered(s, o)
      /\ UNCHANGED <<program, result, unordered, matching, offered, released,
                     progressed, att, pending>>
  BY DEF Bind, local
<1>2. IsSucc(fm[s], o, program', result')
  BY <1>1, SameProgram DEF IsSucc
<1> HIDE DEF o
<1> QED BY <1>1, <1>2, SameLocal, SameResult, InsideStep

\* Waiting for a match keeps the invariant: its result is the common one.
LEMMA AwaitMatchOK == ASSUME IInv, NEW s \in Shards, AwaitMatch(s) PROVE IInv'
<1> DEFINE m == fm[s].matches
           o == [fm[s] EXCEPT !.ctl = "progress"]
           done == {i \in Store : att[s][i] = "detached" /\ Collectable(i)}
<1>1. /\ fm[s].ctl = "wait" /\ Ordered(s, o)
      /\ \A t \in Shards : Len(offered[t]) >= m
      /\ \/ m <= Len(result) /\ UNCHANGED result
         \/ /\ m = Len(result) + 1
            /\ \E items \in SetToSeqs({f \in offered[s][m] :
                                      \A t \in Shards : f \in offered[t][m]}) :
                 result' = Append(result, items)
      /\ progressed' = [progressed EXCEPT ![s] = Append(@, done)]
      /\ Window(s, FALSE, <<[op |-> "progress", id |-> m]>>, <<>>)
      /\ UNCHANGED <<program, unordered, matching, offered, released>>
  BY DEF AwaitMatch
<1>2. /\ OrdOK(fm[s], program, result) /\ fm[s] \in OrdState
      /\ m \in Nat /\ m >= 1
  BY <1>1, CurrentOK DEF OrdOK, InMatch, OrdState
<1>3. result \in Seq(Seq(Field)) /\ Len(result) \in Nat
  BY DEF IInv
<1>4. m \in 1..Len(offered[s])
  BY <1>1, <1>2 DEF IInv, LocalOK
<1> HIDE DEF m
<1>5. /\ result' \in Seq(Seq(Field)) /\ Grows(result, result')
      /\ m <= Len(result')
  <2>1. CASE m <= Len(result) /\ UNCHANGED result
    BY <2>1, SameResult
  <2>2. CASE /\ m = Len(result) + 1
             /\ \E items \in SetToSeqs({f \in offered[s][m] :
                                       \A t \in Shards : f \in offered[t][m]}) :
                  result' = Append(result, items)
    <3>1. PICK items \in SetToSeqs({f \in offered[s][m] :
                                      \A t \in Shards : f \in offered[t][m]}) :
            result' = Append(result, items)
      BY <2>2
    <3>2. items \in Seq(Field)
      BY <1>4, MatchResultOK
    <3> QED BY <1>3, <2>2, <3>1, <3>2 DEF Grows
  <2> QED BY <1>1, <2>1, <2>2
<1>6. IsSucc(fm[s], o, program', result')
  BY <1>1, <1>5 DEF IsSucc, m
<1>7. progressed' \in [Shards -> Seq(SUBSET Store)]
  <2>1. progressed \in [Shards -> Seq(SUBSET Store)] /\ done \in SUBSET Store
    BY DEF IInv, LocalOK
  <2> HIDE DEF done
  <2>2. Append(progressed[s], done) \in Seq(SUBSET Store)
    BY <2>1
  <2> QED BY <1>1, <2>1, <2>2
<1>8. /\ att' \in [Shards -> [Store -> {"none", "attached", "detached"}]]
      /\ pending' \in [Shards -> SUBSET Store]
  BY <1>1, WindowOK DEF Window
<1>9. /\ fm[s].ctl \notin {"idle", "issue"} /\ Ordered(s, o)
      /\ UNCHANGED <<program, unordered, matching, offered, released>>
  BY <1>1
<1> HIDE DEF o
<1> QED BY <1>5, <1>6, <1>7, <1>8, <1>9, SameLocal, InsideStep

\* The progress of a match keeps the invariant.
LEMMA ProgressOK == ASSUME IInv, NEW s \in Shards, Progress(s) PROVE IInv'
<1> DEFINE o == [fm[s] EXCEPT !.ctl = "free"]
<1>1. /\ fm[s].ctl = "progress" /\ Ordered(s, o)
      /\ UNCHANGED <<program, result, unordered, matching, offered, released,
                     progressed, att, pending>>
  BY DEF Progress, local
<1>2. IsSucc(fm[s], o, program', result')
  BY <1>1 DEF IsSucc
<1> HIDE DEF o
<1> QED BY <1>1, <1>2, SameLocal, SameResult, InsideStep

\* Freeing what a match returned keeps the invariant.
LEMMA FreeMatchedOK == ASSUME IInv, NEW s \in Shards, FreeMatched(s) PROVE IInv'
<1> DEFINE f == result[fm[s].matches][fm[s].taken + 1]
           o == FreeItem(fm[s], f)
<1>1. /\ fm[s].ctl = "free" /\ fm[s].taken < Len(result[fm[s].matches])
      /\ Ordered(s, o)
      /\ matching' = [matching EXCEPT ![s] = {i \in @ : fm[s].alloc[i] # f}]
      /\ Window(s, FALSE, <<>>, <<DiscardOp(f)>>)
      /\ UNCHANGED <<program, result, unordered, offered, released, progressed>>
  BY DEF FreeMatched, MatchOutput
<1>2. IsSucc(fm[s], o, program', result')
  BY <1>1 DEF IsSucc
<1>3. /\ matching' \in [Shards -> SUBSET Store]
      /\ \A t \in Shards : unordered'[t] \cup matching'[t] \subseteq unordered[t] \cup matching[t]
  BY <1>1 DEF IInv, LocalOK
<1>4. /\ att' \in [Shards -> [Store -> {"none", "attached", "detached"}]]
      /\ pending' \in [Shards -> SUBSET Store]
  BY <1>1, WindowOK DEF Window
<1>5. /\ fm[s].ctl \notin {"idle", "issue"} /\ Ordered(s, o)
      /\ UNCHANGED <<program, result, unordered, offered, released, progressed>>
  BY <1>1
<1> HIDE DEF o
<1> QED BY <1>2, <1>3, <1>4, <1>5, SameLocal, SameResult, InsideStep

\* The end of process_outstanding_match keeps the invariant.
LEMMA EndProcessOK == ASSUME IInv, NEW s \in Shards, EndProcess(s) PROVE IInv'
<1> DEFINE o == EndMatch(fm[s])
<1>1. /\ fm[s].ctl = "free" /\ fm[s].taken = Len(result[fm[s].matches])
      /\ Ordered(s, o)
      /\ unordered' = [unordered EXCEPT ![s] = @ \cup matching[s]]
      /\ matching' = [matching EXCEPT ![s] = {}]
      /\ UNCHANGED <<program, result, offered, released, progressed, att, pending>>
  BY DEF EndProcess, MatchOutput
<1>2. IsSucc(fm[s], o, program', result')
  BY <1>1 DEF IsSucc
<1> HIDE DEF o
<1>3. /\ unordered' \in [Shards -> SUBSET Store] /\ matching' \in [Shards -> SUBSET Store]
      /\ \A t \in Shards : unordered'[t] \cup matching'[t] \subseteq unordered[t] \cup matching[t]
  BY <1>1 DEF IInv, LocalOK
<1> QED BY <1>1, <1>2, <1>3, SameLocal, SameResult, InsideStep

\* Issuing a match keeps the invariant.
LEMMA IssueOK == ASSUME IInv, NEW s \in Shards, Issue(s) PROVE IInv'
<1> DEFINE o == IssueMatch(fm[s], Current(s).op)
           offer == {fm[s].alloc[i] : i \in unordered[s]}
<1>1. /\ fm[s].ctl = "issue" /\ Ordered(s, o)
      /\ offered' = [offered EXCEPT ![s] = Append(@, offer)]
      /\ matching' = [matching EXCEPT ![s] = unordered[s]]
      /\ unordered' = [unordered EXCEPT ![s] = {}]
      /\ Window(s, FALSE, <<[op |-> "match", id |-> fm[s].matches + 1]>>, <<>>)
      /\ UNCHANGED <<program, result, released, progressed>>
  BY DEF Issue
<1>2. /\ ProgramOK(program') /\ Grows(program, program')
      /\ result' \in Seq(Seq(Field)) /\ Grows(result, result')
      /\ IsSucc(fm[s], o, program', result')
  BY <1>1, SameProgram, SameResult DEF IsSucc
<1>3. /\ att' \in [Shards -> [Store -> {"none", "attached", "detached"}]]
      /\ pending' \in [Shards -> SUBSET Store]
  BY <1>1, WindowOK DEF Window
<1> HIDE DEF o
<1>4. /\ HistOK'
      /\ \A t \in Shards : \A i \in Store :
           i <= fm[t].pc /\ Makes(program, i)
             => i <= fm'[t].pc /\ Makes(program', i)
      /\ fm'[s].matches = fm[s].matches + 1
      /\ \A t \in Shards \ {s} : fm'[t] = fm[t]
  BY <1>1, <1>2, OrderedStep
<1>5. offer \subseteq Field /\ IsFiniteSet(offer)
  BY OfferOK
<1> HIDE DEF offer
<1>6. /\ offered \in [Shards -> Seq(SUBSET Field)]
      /\ unordered \in [Shards -> SUBSET Store] /\ matching \in [Shards -> SUBSET Store]
  BY DEF IInv, LocalOK
<1>7. /\ offered[s] \in Seq(SUBSET Field) /\ offered'[s] = Append(offered[s], offer)
      /\ offered'[s] \in Seq(SUBSET Field)
      /\ Len(offered'[s]) = Len(offered[s]) + 1
      /\ \A m \in 1..Len(offered'[s]) :
           offered'[s][m] = IF m <= Len(offered[s]) THEN offered[s][m] ELSE offer
  BY <1>1, <1>5, <1>6
<1>8. offered' \in [Shards -> Seq(SUBSET Field)]
  BY <1>1, <1>6, <1>7
<1>9. ASSUME NEW t \in Shards
      PROVE  /\ fm'[t].matches = Len(offered'[t])
             /\ \A m \in 1..Len(offered'[t]) : IsFiniteSet(offered'[t][m])
  <2>1. /\ fm[t].matches = Len(offered[t])
        /\ \A m \in 1..Len(offered[t]) : IsFiniteSet(offered[t][m])
    BY DEF IInv, LocalOK
  <2>2. CASE t = s
    <3>1. fm'[t].matches = Len(offered'[t])
      BY <1>4, <1>7, <2>1, <2>2
    <3>2. ASSUME NEW m \in 1..Len(offered'[t])
          PROVE  IsFiniteSet(offered'[t][m])
      <4>1. Len(offered[t]) \in Nat
        BY <1>7, <2>2
      <4>2. CASE m <= Len(offered[t])
        BY <1>7, <2>1, <2>2, <4>1, <4>2
      <4>3. CASE ~(m <= Len(offered[t]))
        BY <1>5, <1>7, <2>2, <4>3
      <4> QED BY <4>2, <4>3
    <3> QED BY <3>1, <3>2
  <2>3. CASE t # s
    <3>1. fm'[t] = fm[t] /\ offered'[t] = offered[t]
      BY <1>1, <1>4, <1>6, <2>3
    <3> QED BY <2>1, <3>1
  <2> QED BY <2>2, <2>3
<1>10. ASSUME NEW t \in Shards, NEW i \in unordered'[t] \cup matching'[t]
       PROVE  i <= fm'[t].pc /\ Makes(program', i)
  <2>1. i \in unordered[t] \cup matching[t]
    BY <1>1, <1>6, <1>10
  <2>2. i \in Store /\ i <= fm[t].pc /\ Makes(program, i)
    BY <2>1 DEF IInv, LocalOK
  <2> QED BY <1>4, <2>2
<1>11. unordered' \in [Shards -> SUBSET Store] /\ matching' \in [Shards -> SUBSET Store]
  BY <1>1, <1>6
<1>12. /\ released' \in [Shards -> SUBSET Store]
       /\ progressed' \in [Shards -> Seq(SUBSET Store)]
  BY <1>1, SameLocal
<1>13. LocalOK'
  BY <1>3, <1>8, <1>9, <1>10, <1>11, <1>12 DEF LocalOK
<1> QED BY <1>2, <1>4, <1>13 DEF IInv

\* A store that is collected out of order keeps the invariant.
LEMMA CollectOK == ASSUME IInv, NEW s \in Shards, Collect(s) PROVE IInv'
<1>1. PICK i \in 1..fm[s].pc :
        /\ Collectable(i)
        /\ released' = [released EXCEPT ![s] = @ \cup {i}]
        /\ unordered' = [unordered EXCEPT ![s] = @ \cup {i}]
        /\ Release(s, i, TRUE, <<>>)
        /\ UNCHANGED <<program, result, fm, step, hist, matching, offered, progressed>>
  BY DEF Collect
<1>2. i \in Store /\ i <= fm[s].pc /\ Makes(program, i)
  <2>1. /\ fm[s].pc \in Nat /\ fm[s].pc <= Len(program)
        /\ Len(program) \in Nat /\ Len(program) <= MaxStmts /\ MaxStmts \in Nat
    BY CurrentOK, ConstAssumption DEF IInv, OrdOK, OrdState, ProgramOK
  <2> QED BY <1>1, <2>1 DEF Store, Collectable, Makes
<1>3. /\ att' \in [Shards -> [Store -> {"none", "attached", "detached"}]]
      /\ pending' \in [Shards -> SUBSET Store]
  <2>1. PendingMark(s, i) \in SUBSET Store
    BY <1>2 DEF PendingMark
  <2> QED BY <1>1, <2>1, WindowOK DEF Release
<1>4. /\ unordered' \in [Shards -> SUBSET Store] /\ released' \in [Shards -> SUBSET Store]
  BY <1>1, <1>2 DEF IInv, LocalOK
<1>5. ASSUME NEW t \in Shards, NEW j \in unordered'[t] \cup matching'[t]
      PROVE  j <= fm'[t].pc /\ Makes(program', j)
  <2>1. j \in unordered[t] \cup matching[t] \/ (t = s /\ j = i)
    BY <1>1, <1>5 DEF IInv, LocalOK
  <2>2. j <= fm[t].pc /\ Makes(program, j)
    BY <1>2, <2>1 DEF IInv, LocalOK
  <2> QED BY <1>1, <2>2 DEF Makes
<1>6. LocalOK'
  BY <1>1, <1>3, <1>4, <1>5 DEF IInv, LocalOK
<1>7. HistOK' /\ ProgramOK(program')
  BY <1>1 DEF IInv, HistOK
<1> QED BY <1>1, <1>6, <1>7 DEF IInv

-----------------------------------------------------------------------------
(* The theorems.                                                           *)

\* The initial states satisfy the invariant.
LEMMA InitOK == Init => IInv
<1> SUFFICES ASSUME Init PROVE IInv
  OBVIOUS
<1>1. /\ InitOrd \in OrdState
      /\ InitOrd.pc = 0 /\ InitOrd.ctl = "idle" /\ InitOrd.counter = 0
      /\ InitOrd.taken = 0 /\ InitOrd.outstanding = FALSE /\ InitOrd.matches = 0
  BY DEF InitOrd, OrdState, AllKeys
<1>2. program = <<>> /\ result = <<>>
  BY DEF Init
<1>3. ProgramOK(program) /\ result \in Seq(Seq(Field))
  BY <1>2, ConstAssumption DEF ProgramOK
<1>4. OrdOK(InitOrd, program, result)
  <2>1. 0 < FieldReuseFreq
    BY ConstAssumption
  <2> QED BY <1>1, <1>2, <2>1 DEF OrdOK, InMatch
<1>5. /\ hist = <<InitOrd>> /\ Len(hist) = 1 /\ hist[1] = InitOrd
      /\ fm = [s \in Shards |-> InitOrd] /\ step = [s \in Shards |-> 1]
  BY DEF Init
<1>6. hist \in Seq(OrdState)
  BY <1>1, <1>5
<1>7. Keeps(InitOrd, InitOrd)
  BY <1>1 DEF Keeps
<1> HIDE DEF InitOrd
<1>8. \A s \in Shards : fm[s] = InitOrd /\ step[s] = 1
  BY <1>5
<1>9. /\ \A n \in 1..Len(hist) : n = 1
      /\ \A n \in 1..Len(hist) - 1 : FALSE
  BY <1>5
<1>10. fm \in [Shards -> OrdState] /\ step \in [Shards -> Nat \ {0}]
  BY <1>1, <1>5
<1>11. HistOK
  BY <1>4, <1>5, <1>6, <1>7, <1>8, <1>9, <1>10 DEF HistOK
<1>12. LocalOK
  BY <1>1, <1>5 DEF Init, LocalOK
<1> QED BY <1>3, <1>11, <1>12 DEF IInv

\* Every step of every shard keeps it.
LEMMA NextOK == IInv /\ [Next]_vars => IInv'
<1> SUFFICES ASSUME IInv, [Next]_vars PROVE IInv'
  OBVIOUS
<1>1. CASE UNCHANGED vars
  BY <1>1 DEF vars, IInv, HistOK, LocalOK, Makes
<1>2. ASSUME NEW s \in Shards, Run(s) PROVE IInv'
  BY <1>2, BeginCreateOK, BeginImportOK, IssueOK, ReuseOK, BindOK, AwaitMatchOK,
     ProgressOK, FreeMatchedOK, EndProcessOK, DropOK, QueryOK, TaskOK DEF Run
<1>3. ASSUME NEW s \in Shards, Collect(s) PROVE IInv'
  BY <1>3, CollectOK
<1>4. CASE Ended
  BY <1>1, <1>4 DEF Ended
<1> QED BY <1>1, <1>2, <1>3, <1>4 DEF Next

\* The managers of all shards go through the same states, at their own pace: the invariant behind
\* the theorems below.
THEOREM Invariance == Spec => []IInv
BY InitOK, NextOK, PTL DEF Spec

\* Every variable keeps its type; a shard is inside a statement only while the
\* statement is there; between statements less than a match's worth of credit
\* has been gathered; a shard has made an offer for each match it counts.
THEOREM TypeCorrect == Spec => []TypeOK
<1>1. IInv => TypeOK
  <2> SUFFICES ASSUME IInv PROVE TypeOK
    OBVIOUS
  <2>1. ASSUME NEW s \in Shards
        PROVE  /\ fm[s].ctl # "idle" => fm[s].pc < Len(program)
               /\ fm[s].ctl = "idle" => fm[s].counter < FieldReuseFreq
               /\ fm[s].matches = Len(offered[s])
    BY CurrentOK DEF OrdOK, IInv, LocalOK
  <2> QED BY <2>1 DEF IInv, ProgramOK, HistOK, LocalOK, TypeOK
<1> QED BY <1>1, Invariance, PTL

\* The shards give every store the same field: allocate_field and import_field
\* return the same on every shard, whatever its garbage collector did before.
THEOREM Agreement == Spec => []ReuseAgreement
<1>1. IInv => ReuseAgreement
  <2> SUFFICES ASSUME IInv, NEW s \in Shards, NEW t \in Shards, NEW i \in Store,
                      i <= fm[s].pc, i <= fm[t].pc
               PROVE  fm[s].alloc[i] = fm[t].alloc[i]
    BY DEF ReuseAgreement
  <2>1. /\ step[s] \in 1..Len(hist) /\ fm[s] = hist[step[s]] /\ fm[s] \in OrdState
        /\ step[t] \in 1..Len(hist) /\ fm[t] = hist[step[t]] /\ fm[t] \in OrdState
    BY DEF IInv, HistOK
  <2>2. i \in 1..fm[s].pc /\ i \in 1..fm[t].pc
    BY <2>1, ConstAssumption DEF Store, OrdState
  <2>3. CASE step[s] <= step[t]
    <3>1. Keeps(fm[s], fm[t])
      BY <2>1, <2>3 DEF IInv, HistOK
    <3> QED BY <2>2, <3>1 DEF Keeps
  <2>4. CASE step[t] <= step[s]
    <3>1. Keeps(fm[t], fm[s])
      BY <2>1, <2>4 DEF IInv, HistOK
    <3> QED BY <2>2, <3>1 DEF Keeps
  <2> QED BY <2>1, <2>3, <2>4
<1> QED BY <1>1, Invariance, PTL

-----------------------------------------------------------------------------
(***************************************************************************)
(* Who may use a field again: the items that a shard has in a match are    *)
(* distinct and its own (MatchItemsDistinct), and the field of a marked    *)
(* store is not given to another store while a shard still has the marked  *)
(* one (NoReuseWhileHeld).                                                 *)
(*                                                                         *)
(* The argument: the stores that held a field, in the order of their       *)
(* statements, have all given it up but the last (OwnOK), so a field and   *)
(* the point at which a match was issued name one store, the same on every *)
(* shard, since the history of the ordered part is one for all.  What is   *)
(* in the output of a match was offered by every shard, so every shard has *)
(* released that one store (OffersOK), and a store only gives its field up *)
(* for good when its match is over (GoneOK).                               *)
(***************************************************************************)

\* Collectable, of any program.
CollectableIn(prog, i) == \/ prog[i].op = "import"
                          \/ prog[i].op = "create" /\ prog[i].gc

Drops(prog, j, i) == prog[j].op = "drop" /\ prog[j].store = i

\* What Legal adds up to.
LegalProgram(prog) ==
  /\ \A j \in 1..Len(prog) :
       prog[j].op = "drop" => ~CollectableIn(prog, prog[j].store)
  /\ \A j \in 1..Len(prog) : \A i \in 1..(j-1) :
       prog[j].op = "drop" => ~Drops(prog, i, prog[j].store)
  /\ \A j \in 1..Len(prog) :
       prog[j].op = "create" /\ prog[j].key \notin Keys =>
         \E i \in 1..(j-1) : prog[i].op = "import" /\ prog[i].key = prog[j].key
  /\ \A j \in 1..Len(prog) : \A i \in 1..(j-1) :
       prog[j].op = "import" /\ Makes(prog, i) => prog[i].key # prog[j].key

\* In state o of the ordered part, with the stores U freed locally and not
\* matched yet and the stores R released, store i has given its field up.
Gone(prog, o, U, R, i) ==
  IF CollectableIn(prog, i) THEN i \in R \ U
  ELSE \E j \in 1..o.pc : Drops(prog, j, i)

\* The field on record for a store is of its key and was made by its region.
RecordOK(prog, o) ==
  \A i \in 1..o.pc :
    /\ Makes(prog, i) => /\ o.alloc[i][1] = prog[i].key
                         /\ o.alloc[i][2] < o.fresh[prog[i].key]
    /\ ~Makes(prog, i) => o.alloc[i] = NoField

\* A queue of free fields has each field once, and no store still has it.
QueueOK(prog, o, U, R) ==
  \A k \in AllKeys : \A n \in 1..Len(o.free[k]) :
    /\ o.free[k][n][1] = k
    /\ \E i \in 1..o.pc : Makes(prog, i) /\ o.alloc[i] = o.free[k][n]
    /\ \A i \in 1..o.pc :
         Makes(prog, i) /\ o.alloc[i] = o.free[k][n] => Gone(prog, o, U, R, i)
    /\ \A m \in 1..Len(o.free[k]) : m # n => o.free[k][m] # o.free[k][n]

\* A store whose field was given to a later one has given it up.
OnceOK(prog, o, U, R) ==
  \A j \in 1..o.pc : \A i \in 1..(j-1) :
    Makes(prog, i) /\ Makes(prog, j) /\ o.alloc[i] = o.alloc[j]
      => Gone(prog, o, U, R, i)

\* Who owns the fields in state o.
OwnOK(prog, o, U, R) ==
  /\ U \subseteq R /\ R \subseteq 1..o.pc
  /\ \A i \in U : CollectableIn(prog, i)
  /\ RecordOK(prog, o) /\ QueueOK(prog, o, U, R) /\ OnceOK(prog, o, U, R)

\* The matches that o counts, or is about to.
Counted(o) == IF o.ctl = "issue" THEN o.matches + 1 ELSE o.matches

\* hist[n] is where match m is issued.
IssuedAt(n, m) == hist[n].ctl = "issue" /\ hist[n].matches + 1 = m

\* In state o, i is the last store that held field f.
LastHolder(o, f, i) ==
  /\ i \in 1..o.pc /\ o.alloc[i] = f
  /\ \A j \in i+1..o.pc : o.alloc[j] # f

CountsOK == \A m, n \in 1..Len(hist) : m < n => Counted(hist[m]) <= hist[n].matches

\* An output has every field once, and only what every shard offered.
ResultOK ==
  \A m \in 1..Len(result) :
    /\ \A t \in Shards : m <= Len(offered[t])
    /\ \A n \in 1..Len(result[m]) :
         /\ \A t \in Shards : result[m][n] \in offered[t][m]
         /\ \A l \in 1..Len(result[m]) : l # n => result[m][l] # result[m][n]

\* The match that shard s is in.
MatchOK(s) ==
  /\ fm[s].ctl = "issue" => ~fm[s].outstanding
  /\ ~fm[s].outstanding => matching[s] = {}
  /\ unordered[s] \cap matching[s] = {}
  /\ fm[s].outstanding /\ fm[s].ctl # "free" =>
       \A f \in offered[s][fm[s].matches] : \E i \in matching[s] : fm[s].alloc[i] = f
  /\ fm[s].ctl = "free" =>
       \A n \in fm[s].taken + 1 .. Len(result[fm[s].matches]) :
         \E i \in matching[s] : fm[s].alloc[i] = result[fm[s].matches][n]
  /\ fm[s].outstanding =>
       \E n \in 1..step[s] : /\ IssuedAt(n, fm[s].matches)
                             /\ \A i \in matching[s] : i <= hist[n].pc

\* What a shard offered was last held by a store that it had released.
OffersOK ==
  \A t \in Shards : \A m \in 1..Len(offered[t]) : \A n \in 1..Len(hist) :
    IssuedAt(n, m) =>
      \A f \in offered[t][m] : \E i \in released[t] : LastHolder(hist[n], f, i)

Freed(s) == unordered[s] \cup matching[s]

\* A marked store that has given its field up on one shard is released on all.
GoneOK ==
  \A s \in Shards : \A i \in released[s] \ Freed(s) :
    CollectableIn(program, i) => \A t \in Shards : i \in released[t]

RInv ==
  /\ LegalProgram(program) /\ CountsOK /\ ResultOK /\ OffersOK /\ GoneOK
  /\ \A s \in Shards :
       OwnOK(program, fm[s], Freed(s), released[s]) /\ MatchOK(s)

-----------------------------------------------------------------------------
(* Lemmas about who owns a field.                                          *)

\* What was given up stays given up.
LEMMA GoneGrows ==
  ASSUME NEW prog, NEW o, NEW p, NEW U, NEW V, NEW R, NEW i,
         o.pc \in Nat, p.pc \in Nat, o.pc <= p.pc, V \subseteq U,
         Gone(prog, o, U, R, i)
  PROVE  Gone(prog, p, V, R, i)
BY DEF Gone

\* From o to p no store was made.
NoStore(prog, o, p) ==
  /\ p \in OrdState
  /\ \/ p.pc = o.pc
     \/ p.pc = o.pc + 1 /\ ~Makes(prog, p.pc) /\ p.alloc[p.pc] = NoField
  /\ \A i \in 1..o.pc : p.alloc[i] = o.alloc[i]
  /\ p.fresh = o.fresh

\* Steps that make no store and free none change no owner.
LEMMA OwnKept ==
  ASSUME NEW prog, NEW o \in OrdState, NEW p, NEW U, NEW R,
         OwnOK(prog, o, U, R), NoStore(prog, o, p), p.free = o.free
  PROVE  OwnOK(prog, p, U, R)
<1> USE DEF NoStore
<1>1. o.pc \in Nat /\ p.pc \in Nat /\ o.pc <= p.pc
  BY DEF OrdState
<1>2. ASSUME NEW i \in 1..p.pc, Makes(prog, i)
      PROVE  i \in 1..o.pc /\ p.alloc[i] = o.alloc[i]
  BY <1>1, <1>2
<1>3. \A i : Gone(prog, o, U, R, i) => Gone(prog, p, U, R, i)
  BY <1>1, GoneGrows
<1>4. RecordOK(prog, p)
  <2>1. \A i \in 1..p.pc : i \in 1..o.pc \/ (~Makes(prog, i) /\ p.alloc[i] = NoField)
    BY <1>1
  <2> QED BY <2>1 DEF OwnOK, RecordOK
<1>5. QueueOK(prog, p, U, R)
  <2> SUFFICES ASSUME NEW k \in AllKeys, NEW n \in 1..Len(o.free[k])
               PROVE  /\ o.free[k][n][1] = k
                      /\ \E i \in 1..p.pc : Makes(prog, i) /\ p.alloc[i] = o.free[k][n]
                      /\ \A i \in 1..p.pc :
                           Makes(prog, i) /\ p.alloc[i] = o.free[k][n] => Gone(prog, p, U, R, i)
                      /\ \A m \in 1..Len(o.free[k]) : m # n => o.free[k][m] # o.free[k][n]
    BY DEF QueueOK
  <2>1. /\ o.free[k][n][1] = k
        /\ \E i \in 1..o.pc : Makes(prog, i) /\ o.alloc[i] = o.free[k][n]
        /\ \A i \in 1..o.pc :
             Makes(prog, i) /\ o.alloc[i] = o.free[k][n] => Gone(prog, o, U, R, i)
        /\ \A m \in 1..Len(o.free[k]) : m # n => o.free[k][m] # o.free[k][n]
    BY DEF OwnOK, QueueOK
  <2>2. PICK i \in 1..o.pc : Makes(prog, i) /\ o.alloc[i] = o.free[k][n]
    BY <2>1
  <2>3. i \in 1..p.pc /\ p.alloc[i] = o.free[k][n]
    BY <1>1, <2>2
  <2>4. \A j \in 1..p.pc :
          Makes(prog, j) /\ p.alloc[j] = o.free[k][n] => Gone(prog, p, U, R, j)
    BY <1>2, <1>3, <2>1
  <2> QED BY <2>1, <2>2, <2>3, <2>4
<1>6. OnceOK(prog, p, U, R)
  <2> SUFFICES ASSUME NEW j \in 1..p.pc, NEW i \in 1..(j-1), Makes(prog, i), Makes(prog, j),
                      p.alloc[i] = p.alloc[j]
               PROVE  Gone(prog, p, U, R, i)
    BY DEF OnceOK
  <2>1. i \in 1..p.pc
    BY <1>1
  <2> QED BY <1>2, <1>3, <2>1 DEF OwnOK, OnceOK
<1>7. R \subseteq 1..p.pc
  BY <1>1 DEF OwnOK
<1> QED BY <1>4, <1>5, <1>6, <1>7 DEF OwnOK

\* Only the statements up to pc matter.
LEMMA OwnProgram ==
  ASSUME NEW prog \in Seq(Stmt), NEW prog2 \in Seq(Stmt), Grows(prog, prog2),
         NEW o \in OrdState, o.pc <= Len(prog), NEW U, NEW R,
         OwnOK(prog, o, U, R)
  PROVE  OwnOK(prog2, o, U, R)
<1>1. o.pc \in Nat /\ \A i \in 1..o.pc : prog2[i] = prog[i]
  BY DEF OrdState, Grows
<1>2. \A i \in 1..o.pc : /\ Makes(prog2, i) <=> Makes(prog, i)
                         /\ CollectableIn(prog2, i) <=> CollectableIn(prog, i)
  BY <1>1 DEF Makes, CollectableIn
<1>3. \A i \in 1..o.pc : Gone(prog, o, U, R, i) => Gone(prog2, o, U, R, i)
  <2> SUFFICES ASSUME NEW i \in 1..o.pc, Gone(prog, o, U, R, i)
               PROVE  Gone(prog2, o, U, R, i)
    OBVIOUS
  <2>1. CASE CollectableIn(prog, i)
    BY <1>2, <2>1 DEF Gone
  <2>2. CASE ~CollectableIn(prog, i)
    <3>1. PICK j \in 1..o.pc : Drops(prog, j, i)
      BY <2>2 DEF Gone
    <3>2. Drops(prog2, j, i)
      BY <1>1, <3>1 DEF Drops
    <3> QED BY <1>2, <2>2, <3>2 DEF Gone
  <2> QED BY <2>1, <2>2
<1>4. RecordOK(prog2, o)
  BY <1>1, <1>2 DEF OwnOK, RecordOK
<1>5. QueueOK(prog2, o, U, R)
  BY <1>2, <1>3 DEF OwnOK, QueueOK
<1>6. OnceOK(prog2, o, U, R)
  <2> SUFFICES ASSUME NEW j \in 1..o.pc, NEW i \in 1..(j-1), Makes(prog2, i), Makes(prog2, j),
                      o.alloc[i] = o.alloc[j]
               PROVE  Gone(prog2, o, U, R, i)
    BY DEF OnceOK
  <2>1. i \in 1..o.pc
    BY <1>1
  <2>2. Gone(prog, o, U, R, i)
    BY <1>2, <2>1 DEF OwnOK, OnceOK
  <2> QED BY <1>3, <2>1, <2>2
<1>7. \A i \in U : CollectableIn(prog2, i)
  BY <1>2 DEF OwnOK
<1> QED BY <1>4, <1>5, <1>6, <1>7 DEF OwnOK

\* From o to p a store was made that took field f; p.free has lost f if it was
\* the head of a queue of o.free.
TakesField(prog, o, p, f) ==
  /\ p \in OrdState
  /\ p.pc = o.pc + 1 /\ Makes(prog, p.pc) /\ p.alloc[p.pc] = f
  /\ \A i \in 1..o.pc : p.alloc[i] = o.alloc[i]
  /\ \A i \in 1..o.pc : Makes(prog, i) => o.alloc[i][2] < p.fresh[prog[i].key]
  /\ f[1] = prog[p.pc].key /\ f[2] < p.fresh[prog[p.pc].key]
  /\ \A k \in AllKeys : \E d \in {0, 1} :
       \A n \in 1..Len(p.free[k]) :
         /\ n + d \in 1..Len(o.free[k]) /\ p.free[k][n] = o.free[k][n + d]
         /\ p.free[k][n] # f

\* The next store takes a field that nobody has, from a queue or a new one.
LEMMA NewStore ==
  ASSUME NEW prog, NEW o \in OrdState, NEW p, NEW U, NEW R, NEW f,
         OwnOK(prog, o, U, R), TakesField(prog, o, p, f),
         \A i \in 1..o.pc : Makes(prog, i) /\ o.alloc[i] = f => Gone(prog, o, U, R, i)
  PROVE  OwnOK(prog, p, U, R)
<1> USE DEF TakesField
<1>1. o.pc \in Nat /\ p.pc \in Nat /\ o.pc <= p.pc
  BY DEF OrdState
<1>2. \A i \in 1..p.pc : i \in 1..o.pc \/ i = p.pc
  BY <1>1
<1>3. \A i : Gone(prog, o, U, R, i) => Gone(prog, p, U, R, i)
  BY <1>1, GoneGrows
<1>4. RecordOK(prog, p)
  <2> SUFFICES ASSUME NEW i \in 1..p.pc
               PROVE  /\ Makes(prog, i) => /\ p.alloc[i][1] = prog[i].key
                                           /\ p.alloc[i][2] < p.fresh[prog[i].key]
                      /\ ~Makes(prog, i) => p.alloc[i] = NoField
    BY DEF RecordOK
  <2>1. CASE i \in 1..o.pc
    BY <2>1 DEF OwnOK, RecordOK
  <2>2. CASE i = p.pc
    BY <2>2
  <2> QED BY <1>2, <2>1, <2>2
<1>5. QueueOK(prog, p, U, R)
  <2> SUFFICES ASSUME NEW k \in AllKeys, NEW n \in 1..Len(p.free[k])
               PROVE  /\ p.free[k][n][1] = k
                      /\ \E i \in 1..p.pc : Makes(prog, i) /\ p.alloc[i] = p.free[k][n]
                      /\ \A i \in 1..p.pc :
                           Makes(prog, i) /\ p.alloc[i] = p.free[k][n] => Gone(prog, p, U, R, i)
                      /\ \A m \in 1..Len(p.free[k]) : m # n => p.free[k][m] # p.free[k][n]
    BY DEF QueueOK
  <2>0. PICK d \in {0, 1} :
          \A m \in 1..Len(p.free[k]) :
             /\ m + d \in 1..Len(o.free[k]) /\ p.free[k][m] = o.free[k][m + d]
             /\ p.free[k][m] # f
    OBVIOUS
  <2> DEFINE q == n + d
  <2>1. q \in 1..Len(o.free[k]) /\ p.free[k][n] = o.free[k][q] /\ p.free[k][n] # f
    BY <2>0
  <2>2. /\ o.free[k][q][1] = k
        /\ \E i \in 1..o.pc : Makes(prog, i) /\ o.alloc[i] = o.free[k][q]
        /\ \A i \in 1..o.pc :
             Makes(prog, i) /\ o.alloc[i] = o.free[k][q] => Gone(prog, o, U, R, i)
        /\ \A m \in 1..Len(o.free[k]) : m # q => o.free[k][m] # o.free[k][q]
    BY <2>1 DEF OwnOK, QueueOK
  <2>3. ASSUME NEW m \in 1..Len(p.free[k]), m # n
        PROVE  p.free[k][m] # p.free[k][n]
    <3>1. m + d \in 1..Len(o.free[k]) /\ p.free[k][m] = o.free[k][m + d]
      BY <2>0
    <3>2. m + d # n + d
      <4>1. m \in Int /\ n \in Int /\ d \in Int
        OBVIOUS
      <4> QED BY <2>3, <4>1
    <3> QED BY <2>1, <2>2, <3>1, <3>2
  <2> HIDE DEF q
  <2>4. \E i \in 1..p.pc : Makes(prog, i) /\ p.alloc[i] = p.free[k][n]
    <3>1. PICK i \in 1..o.pc : Makes(prog, i) /\ o.alloc[i] = o.free[k][q]
      BY <2>2
    <3>2. i \in 1..p.pc /\ p.alloc[i] = p.free[k][n]
      BY <1>1, <2>1, <3>1
    <3> QED BY <3>1, <3>2
  <2>5. ASSUME NEW i \in 1..p.pc, Makes(prog, i), p.alloc[i] = p.free[k][n]
        PROVE  Gone(prog, p, U, R, i)
    <3>1. i \in 1..o.pc
      BY <1>2, <2>1, <2>5
    <3> QED BY <1>3, <2>1, <2>2, <2>5, <3>1
  <2> QED BY <2>1, <2>2, <2>3, <2>4, <2>5
<1>6. OnceOK(prog, p, U, R)
  <2> SUFFICES ASSUME NEW j \in 1..p.pc, NEW i \in 1..(j-1), Makes(prog, i), Makes(prog, j),
                      p.alloc[i] = p.alloc[j]
               PROVE  Gone(prog, p, U, R, i)
    BY DEF OnceOK
  <2>1. i \in 1..o.pc
    BY <1>1
  <2>2. CASE j \in 1..o.pc
    BY <1>3, <2>1, <2>2 DEF OwnOK, OnceOK
  <2>3. CASE j = p.pc
    BY <1>3, <2>1, <2>3
  <2> QED BY <1>2, <2>2, <2>3
<1>7. R \subseteq 1..p.pc
  BY <1>1 DEF OwnOK
<1> QED BY <1>4, <1>5, <1>6, <1>7 DEF OwnOK

\* Store i gives its field up, which enters the queue of its key if the shape
\* of that key is ready.
LEMMA GiveUp ==
  ASSUME NEW prog, NEW o \in OrdState, NEW p,
         NEW U, NEW R, NEW V, NEW S, OwnOK(prog, o, U, R),
         V \subseteq S, S \subseteq 1..p.pc, \A j \in V : CollectableIn(prog, j),
         NoStore(prog, o, p),
         NEW i \in 1..o.pc, Makes(prog, i), o.alloc[i] \in Field,
         p.free = FreeField(o, o.alloc[i]).free,
         \A j : Gone(prog, o, U, R, j) => Gone(prog, p, V, S, j),
         ~Gone(prog, o, U, R, i), Gone(prog, p, V, S, i)
  PROVE  OwnOK(prog, p, V, S)
<1> USE DEF NoStore
<1> DEFINE f == o.alloc[i]
<1>1. o.pc \in Nat /\ p.pc \in Nat /\ o.pc <= p.pc
  BY DEF OrdState
<1>2. ASSUME NEW j \in 1..p.pc, Makes(prog, j)
      PROVE  j \in 1..o.pc /\ p.alloc[j] = o.alloc[j]
  BY <1>1, <1>2
<1>3. RecordOK(prog, p)
  <2>1. \A j \in 1..p.pc : j \in 1..o.pc \/ (~Makes(prog, j) /\ p.alloc[j] = NoField)
    BY <1>1
  <2> QED BY <2>1 DEF OwnOK, RecordOK
<1>4. \* Whoever held f has given it up by now.
      ASSUME NEW j \in 1..p.pc, Makes(prog, j), p.alloc[j] = f
      PROVE  Gone(prog, p, V, S, j)
  <2>1. j \in 1..o.pc /\ o.alloc[j] = f
    BY <1>2, <1>4
  <2>2. CASE j < i
    <3>1. j \in 1..(i-1)
      BY <2>1, <2>2
    <3>2. Gone(prog, o, U, R, j)
      BY <1>4, <2>1, <3>1 DEF OwnOK, OnceOK
    <3> QED BY <3>2
  <2>3. CASE i < j
    <3>1. i \in 1..(j-1)
      BY <2>1, <2>3
    <3>2. Gone(prog, o, U, R, i)
      BY <1>4, <2>1, <3>1 DEF OwnOK, OnceOK
    <3> QED BY <3>2
  <2> QED BY <1>1, <2>1, <2>2, <2>3
<1>5. \* No queue had it.
      ASSUME NEW k \in AllKeys, NEW n \in 1..Len(o.free[k])
      PROVE  o.free[k][n] # f
  BY DEF OwnOK, QueueOK
<1> HIDE DEF f
<1>6. ASSUME NEW k \in AllKeys
      PROVE  \/ p.free[k] = o.free[k]
             \/ f[1] = k /\ p.free[k] = Append(o.free[k], f)
  <2>1. o.free \in [AllKeys -> Seq(Field)]
    BY DEF OrdState
  <2>2. CASE f[1] \in o.ready
    <3>1. p.free = [o.free EXCEPT ![f[1]] = Append(@, f)]
      BY <2>2 DEF FreeField, OrdState, f
    <3> QED BY <2>1, <3>1
  <2>3. CASE f[1] \notin o.ready
    BY <2>3 DEF FreeField, f
  <2> QED BY <2>2, <2>3
<1>7. ASSUME NEW k \in AllKeys, NEW n \in 1..Len(o.free[k])
      PROVE  /\ o.free[k][n][1] = k
             /\ \E j \in 1..p.pc : Makes(prog, j) /\ p.alloc[j] = o.free[k][n]
             /\ \A j \in 1..p.pc :
                  Makes(prog, j) /\ p.alloc[j] = o.free[k][n] => Gone(prog, p, V, S, j)
             /\ \A m \in 1..Len(o.free[k]) : m # n => o.free[k][m] # o.free[k][n]
  <2>1. /\ o.free[k][n][1] = k
        /\ \E j \in 1..o.pc : Makes(prog, j) /\ o.alloc[j] = o.free[k][n]
        /\ \A j \in 1..o.pc :
             Makes(prog, j) /\ o.alloc[j] = o.free[k][n] => Gone(prog, o, U, R, j)
        /\ \A m \in 1..Len(o.free[k]) : m # n => o.free[k][m] # o.free[k][n]
    BY DEF OwnOK, QueueOK
  <2>2. PICK j \in 1..o.pc : Makes(prog, j) /\ o.alloc[j] = o.free[k][n]
    BY <2>1
  <2>3. j \in 1..p.pc /\ p.alloc[j] = o.free[k][n]
    BY <1>1, <2>2
  <2>4. \A l \in 1..p.pc :
          Makes(prog, l) /\ p.alloc[l] = o.free[k][n] => Gone(prog, p, V, S, l)
    BY <1>2, <2>1
  <2> QED BY <2>1, <2>2, <2>3, <2>4
<1>8. QueueOK(prog, p, V, S)
  <2> SUFFICES ASSUME NEW k \in AllKeys, NEW n \in 1..Len(p.free[k])
               PROVE  /\ p.free[k][n][1] = k
                      /\ \E j \in 1..p.pc : Makes(prog, j) /\ p.alloc[j] = p.free[k][n]
                      /\ \A j \in 1..p.pc :
                           Makes(prog, j) /\ p.alloc[j] = p.free[k][n] => Gone(prog, p, V, S, j)
                      /\ \A m \in 1..Len(p.free[k]) : m # n => p.free[k][m] # p.free[k][n]
    BY DEF QueueOK
  <2>1. CASE p.free[k] = o.free[k]
    BY <1>7, <2>1
  <2>2. CASE f[1] = k /\ p.free[k] = Append(o.free[k], f)
    <3>1. o.free[k] \in Seq(Field)
      BY DEF OrdState
    <3> DEFINE q == o.free[k]
               L == Len(q)
    <3>2. /\ L \in Nat /\ Len(p.free[k]) = L + 1 /\ p.free[k][L + 1] = f
          /\ \A m \in 1..L : p.free[k][m] = q[m]
      BY <2>2, <3>1
    <3>3. \A m \in 1..Len(p.free[k]) : m \in 1..L \/ m = L + 1
      BY <3>2
    <3>4. CASE n \in 1..L
      <4>1. p.free[k][n] = q[n]
        BY <3>2, <3>4
      <4>2. ASSUME NEW m \in 1..Len(p.free[k]), m # n
            PROVE  p.free[k][m] # p.free[k][n]
        <5>1. CASE m \in 1..L
          BY <1>7, <3>2, <3>4, <4>1, <4>2, <5>1
        <5>2. CASE m = L + 1
          BY <1>5, <3>2, <3>4, <4>1, <5>2
        <5> QED BY <3>3, <5>1, <5>2
      <4> QED BY <1>7, <3>4, <4>1, <4>2
    <3>5. CASE n = L + 1
      <4>1. p.free[k][n] = f
        BY <3>2, <3>5
      <4>2. \A m \in 1..Len(p.free[k]) : m # n => p.free[k][m] # f
        BY <1>5, <3>2, <3>3, <3>5
      <4>3. i \in 1..p.pc /\ p.alloc[i] = f
        BY <1>1 DEF f
      <4> QED BY <1>4, <2>2, <4>1, <4>2, <4>3
    <3> QED BY <3>3, <3>4, <3>5
  <2> QED BY <1>6, <2>1, <2>2
<1>9. OnceOK(prog, p, V, S)
  <2> SUFFICES ASSUME NEW l \in 1..p.pc, NEW j \in 1..(l-1), Makes(prog, j), Makes(prog, l),
                      p.alloc[j] = p.alloc[l]
               PROVE  Gone(prog, p, V, S, j)
    BY DEF OnceOK
  <2>1. j \in 1..p.pc
    BY <1>1
  <2> QED BY <1>2, <2>1 DEF OwnOK, OnceOK
<1> QED BY <1>3, <1>8, <1>9 DEF OwnOK

\* The garbage collector frees store i locally: nothing is given up yet.
LEMMA OwnCollect ==
  ASSUME NEW prog, NEW o, NEW U, NEW R, OwnOK(prog, o, U, R),
         NEW i \in 1..o.pc, CollectableIn(prog, i), i \notin R
  PROVE  OwnOK(prog, o, U \cup {i}, R \cup {i})
<1>1. \A j : Gone(prog, o, U, R, j) => Gone(prog, o, U \cup {i}, R \cup {i}, j)
  BY DEF Gone
<1>2. QueueOK(prog, o, U \cup {i}, R \cup {i})
  BY <1>1 DEF OwnOK, QueueOK
<1>3. OnceOK(prog, o, U \cup {i}, R \cup {i})
  BY <1>1 DEF OwnOK, OnceOK
<1> QED BY <1>2, <1>3 DEF OwnOK

\* What the operations on the ordered part do to its queues and its regions.
LEMMA QueuesOK ==
  ASSUME NEW o \in OrdState
  PROVE  /\ \A f : Finish(o, f).free = o.free /\ Finish(o, f).fresh = o.fresh
         /\ \A k, op : MaybeIssue(o, k, op).free = o.free /\ MaybeIssue(o, k, op).fresh = o.fresh
         /\ \A op : IssueMatch(o, op).free = o.free /\ IssueMatch(o, op).fresh = o.fresh
         /\ EndMatch(o).free = o.free /\ EndMatch(o).fresh = o.fresh
         /\ \A c : [o EXCEPT !.ctl = c].free = o.free /\ [o EXCEPT !.ctl = c].fresh = o.fresh
         /\ \A r : [o EXCEPT !.ready = r].free = o.free /\ [o EXCEPT !.ready = r].fresh = o.fresh
         /\ \A f : FreeItem(o, f).free = FreeField(o, f).free /\ FreeItem(o, f).fresh = o.fresh
         /\ \A f : FreeField(o, f).fresh = o.fresh
<1>1. \A f : Finish(o, f).free = o.free /\ Finish(o, f).fresh = o.fresh
  BY DEF Finish, OrdState
<1>2. \A k, op : MaybeIssue(o, k, op).free = o.free /\ MaybeIssue(o, k, op).fresh = o.fresh
  BY DEF MaybeIssue, OrdState
<1>3. \A op : IssueMatch(o, op).free = o.free /\ IssueMatch(o, op).fresh = o.fresh
  BY DEF IssueMatch, OrdState
<1>4. EndMatch(o).free = o.free /\ EndMatch(o).fresh = o.fresh
  BY DEF EndMatch, OrdState
<1>5. /\ \A c : [o EXCEPT !.ctl = c].free = o.free /\ [o EXCEPT !.ctl = c].fresh = o.fresh
      /\ \A r : [o EXCEPT !.ready = r].free = o.free /\ [o EXCEPT !.ready = r].fresh = o.fresh
  BY DEF OrdState
<1>6. ASSUME NEW f
      PROVE  /\ FreeField(o, f).fresh = o.fresh
             /\ FreeItem(o, f).free = FreeField(o, f).free /\ FreeItem(o, f).fresh = o.fresh
  <2>1. CASE f[1] \in o.ready
    <3> DEFINE q == [o.free EXCEPT ![f[1]] = Append(@, f)]
    <3>1. FreeField(o, f) = [o EXCEPT !.free = q]
      BY <2>1 DEF FreeField
    <3> HIDE DEF q
    <3> QED BY <3>1 DEF FreeItem, OrdState
  <2>2. CASE f[1] \notin o.ready
    <3>1. FreeField(o, f) = o
      BY <2>2 DEF FreeField
    <3> QED BY <3>1 DEF FreeItem, OrdState
  <2> QED BY <2>1, <2>2
<1> QED BY <1>1, <1>2, <1>3, <1>4, <1>5, <1>6

\* What is known of field f at place n of a queue.
LEMMA QueueItem ==
  ASSUME NEW prog, NEW o, NEW U, NEW R, QueueOK(prog, o, U, R),
         NEW k \in AllKeys, NEW n \in 1..Len(o.free[k]), NEW f, f = o.free[k][n]
  PROVE  /\ f[1] = k
         /\ \E i \in 1..o.pc : Makes(prog, i) /\ o.alloc[i] = f
         /\ \A i \in 1..o.pc : Makes(prog, i) /\ o.alloc[i] = f => Gone(prog, o, U, R, i)
         /\ \A m \in 1..Len(o.free[k]) : m # n => o.free[k][m] # f
BY DEF QueueOK

\* allocate_field takes the oldest free field, waits, or makes a new field.
LEMMA OwnAllocate ==
  ASSUME NEW prog \in Seq(Stmt), NEW o \in OrdState, NEW U, NEW R,
         OwnOK(prog, o, U, R), o.pc + 1 \in Store, o.pc + 1 \in 1..Len(prog),
         \A i \in 1..o.pc : Makes(prog, i) => o.alloc[i] \in Field,
         Makes(prog, o.pc + 1)
  PROVE  OwnOK(prog, Allocate(o, prog[o.pc + 1].key), U, R)
<1> DEFINE k == prog[o.pc + 1].key
           p == Allocate(o, k)
<1>1. /\ o.pc \in Nat /\ o.alloc \in [Store -> Field \cup {NoField}]
      /\ o.free \in [AllKeys -> Seq(Field)] /\ o.fresh \in [AllKeys -> Nat]
  BY DEF OrdState
<1>2. k \in AllKeys
  BY StmtOK DEF Makes
<1>3. ASSUME NEW i \in 1..o.pc, Makes(prog, i)
      PROVE  /\ o.alloc[i] \in Field /\ prog[i].key \in AllKeys /\ i \in Store /\ i # o.pc + 1
             /\ o.alloc[i][1] = prog[i].key /\ o.alloc[i][2] < o.fresh[prog[i].key]
  <2>1. i \in 1..Len(prog) /\ i \in Store /\ i # o.pc + 1
    BY <1>1, ConstAssumption DEF Store
  <2>2. prog[i].key \in AllKeys
    BY <1>3, <2>1, StmtOK DEF Makes
  <2> QED BY <1>3, <2>1, <2>2 DEF OwnOK, RecordOK
<1>4. CASE CanReuse(o, k)
  <2> DEFINE fr == [o.free EXCEPT ![k] = Tail(@)]
             q  == [o EXCEPT !.free = fr]
             f  == Head(o.free[k])
  <2>1. o.free[k] \in Seq(Field) /\ o.free[k] # <<>>
    BY <1>1, <1>2, <1>4 DEF CanReuse
  <2>2. /\ Tail(o.free[k]) \in Seq(Field) /\ f \in Field
        /\ 1 \in 1..Len(o.free[k]) /\ f = o.free[k][1]
        /\ Len(Tail(o.free[k])) = Len(o.free[k]) - 1
        /\ \A n \in 1..Len(Tail(o.free[k])) :
             n + 1 \in 1..Len(o.free[k]) /\ Tail(o.free[k])[n] = o.free[k][n + 1]
    BY <2>1
  <2>3. fr \in [AllKeys -> Seq(Field)]
    BY <1>1, <2>2
  <2>4. Requeued(o, q) /\ q.free = fr /\ q.fresh = o.fresh
    BY <2>3, RequeueOK DEF OrdState
  <2>5. p = Finish(q, f)
    BY <1>4 DEF Allocate
  <2> HIDE DEF q, f, p
  <2>6. /\ p \in OrdState /\ p.pc = o.pc + 1
        /\ p.alloc = [o.alloc EXCEPT ![o.pc + 1] = f]
        /\ p.free = fr /\ p.fresh = o.fresh
    <3>1. q \in OrdState /\ f \in Field \cup {NoField}
      BY <2>2, <2>4 DEF Requeued
    <3>2. /\ Finish(q, f) \in OrdState /\ Finish(q, f).pc = q.pc + 1
          /\ Finish(q, f).alloc = [q.alloc EXCEPT ![q.pc + 1] = f]
      BY <3>1, FinishOK
    <3>3. Finish(q, f).free = q.free /\ Finish(q, f).fresh = q.fresh
      BY <3>1, QueuesOK
    <3> QED BY <2>4, <2>5, <3>2, <3>3 DEF Requeued
  <2>7. p.alloc[p.pc] = f /\ \A i \in 1..o.pc : p.alloc[i] = o.alloc[i]
    BY <1>1, <2>6, ConstAssumption DEF Store
  <2>8. /\ f[1] = k
        /\ \E i \in 1..o.pc : Makes(prog, i) /\ o.alloc[i] = f
        /\ \A i \in 1..o.pc : Makes(prog, i) /\ o.alloc[i] = f => Gone(prog, o, U, R, i)
        /\ \A m \in 1..Len(o.free[k]) : m # 1 => o.free[k][m] # f
    <3>1. QueueOK(prog, o, U, R)
      BY DEF OwnOK
    <3>2. 1 \in 1..Len(o.free[k]) /\ o.free[k][1] = f
      BY <2>2
    <3> HIDE DEF k
    <3>3. k \in AllKeys
      BY <1>2
    <3> QED BY <3>1, <3>2, <3>3, QueueItem
  <2>9. f[2] < o.fresh[k]
    BY <1>3, <2>8
  <2>10. ASSUME NEW l \in AllKeys
         PROVE  \E d \in {0, 1} :
                  \A n \in 1..Len(p.free[l]) :
                    /\ n + d \in 1..Len(o.free[l]) /\ p.free[l][n] = o.free[l][n + d]
                    /\ p.free[l][n] # f
    <3>1. CASE l = k
      <4>1. p.free[l] = Tail(o.free[k])
        BY <1>1, <1>2, <2>6, <3>1
      <4>2. \A n \in 1..Len(p.free[l]) :
              /\ n + 1 \in 1..Len(o.free[l]) /\ p.free[l][n] = o.free[l][n + 1]
              /\ p.free[l][n] # f
        <5>1. \A n \in 1..Len(p.free[l]) :
                n + 1 \in 1..Len(o.free[k]) /\ p.free[l][n] = o.free[k][n + 1]
          BY <2>2, <4>1
        <5>2. \A n \in 1..Len(p.free[l]) : n + 1 # 1
          OBVIOUS
        <5> QED BY <2>8, <3>1, <5>1, <5>2
      <4> QED BY <4>2
    <3>2. CASE l # k
      <4>1. p.free[l] = o.free[l]
        BY <1>1, <1>2, <2>6, <3>2
      <4>2. \A n \in 1..Len(o.free[l]) : o.free[l][n][1] = l
        BY DEF OwnOK, QueueOK
      <4>3. \A n \in 1..Len(p.free[l]) :
              /\ n + 0 \in 1..Len(o.free[l]) /\ p.free[l][n] = o.free[l][n + 0]
              /\ p.free[l][n] # f
        BY <2>8, <3>2, <4>1, <4>2
      <4> QED BY <4>3
    <3> QED BY <3>1, <3>2
  <2>11. /\ \A i \in 1..o.pc : Makes(prog, i) => o.alloc[i][2] < p.fresh[prog[i].key]
         /\ f[1] = prog[p.pc].key /\ f[2] < p.fresh[prog[p.pc].key]
    BY <1>3, <2>6, <2>8, <2>9
  <2> HIDE DEF fr, k
  <2>12. TakesField(prog, o, p, f)
    BY <2>6, <2>7, <2>10, <2>11 DEF TakesField
  <2>13. OwnOK(prog, p, U, R)
    BY <2>8, <2>12, NewStore
  <2> QED BY <2>13 DEF p, k
<1>5. CASE ~CanReuse(o, k) /\ o.outstanding
  <2>1. p = [o EXCEPT !.ctl = "wait", !.why = "reuse"]
    BY <1>5 DEF Allocate
  <2>2. p.pc = o.pc /\ p.alloc = o.alloc /\ p.free = o.free /\ p.fresh = o.fresh
    BY <2>1 DEF OrdState
  <2>3. p \in OrdState
    <3> DEFINE p1 == [o EXCEPT !.ctl = "wait"]
    <3>1. p1 \in OrdState
      BY DEF OrdState
    <3>2. [p1 EXCEPT !.why = "reuse"] \in OrdState
      <4> HIDE DEF p1
      <4> QED BY <3>1 DEF OrdState
    <3> QED BY <2>1, <3>2
  <2> HIDE DEF p
  <2>4. NoStore(prog, o, p)
    BY <2>2, <2>3 DEF NoStore
  <2>5. OwnOK(prog, p, U, R)
    BY <2>2, <2>4, OwnKept
  <2> QED BY <2>5 DEF p
<1>6. CASE ~CanReuse(o, k) /\ ~o.outstanding
  <2> DEFINE fr == [o.fresh EXCEPT ![k] = @ + 1]
             q  == [o EXCEPT !.fresh = fr]
             f  == <<k, o.fresh[k]>>
  <2>1. fr \in [AllKeys -> Nat] /\ o.fresh[k] \in Nat
    BY <1>1, <1>2
  <2>2. Requeued(o, q) /\ q.free = o.free /\ q.fresh = fr
    BY <2>1, RequeueOK DEF OrdState
  <2>3. p = Finish(q, f)
    BY <1>6 DEF Allocate
  <2>4. f \in Field /\ f[1] = k /\ f[2] = o.fresh[k]
    BY <1>2, <2>1 DEF Field
  <2> HIDE DEF q, f, p
  <2>5. /\ p \in OrdState /\ p.pc = o.pc + 1
        /\ p.alloc = [o.alloc EXCEPT ![o.pc + 1] = f]
        /\ p.free = o.free /\ p.fresh = fr
    BY <2>2, <2>3, <2>4, FinishOK, QueuesOK DEF Requeued
  <2>6. p.alloc[p.pc] = f /\ \A i \in 1..o.pc : p.alloc[i] = o.alloc[i]
    BY <1>1, <2>5, ConstAssumption DEF Store
  <2>7. \A l \in AllKeys : o.fresh[l] \in Nat /\ p.fresh[l] \in Nat /\ o.fresh[l] <= p.fresh[l]
    BY <1>1, <1>2, <2>5
  <2>8. p.fresh[k] = o.fresh[k] + 1
    BY <1>1, <1>2, <2>5
  <2>9. ASSUME NEW i \in 1..o.pc, Makes(prog, i)
        PROVE  o.alloc[i][2] < p.fresh[prog[i].key] /\ o.alloc[i] # f
    <3>1. o.alloc[i][2] \in Nat
      BY <1>3, <2>9 DEF Field
    <3>2. o.alloc[i][2] < p.fresh[prog[i].key]
      BY <1>3, <2>7, <2>9, <3>1
    <3>3. o.alloc[i] # f
      BY <1>3, <2>4, <2>7, <2>9, <3>1, SMTT(30)
    <3> QED BY <3>2, <3>3
  <2>10. ASSUME NEW l \in AllKeys, NEW n \in 1..Len(p.free[l])
         PROVE  /\ n + 0 \in 1..Len(o.free[l]) /\ p.free[l][n] = o.free[l][n + 0]
                /\ p.free[l][n] # f
    <3>1. \E i \in 1..o.pc : Makes(prog, i) /\ o.alloc[i] = o.free[l][n]
      BY <2>5 DEF OwnOK, QueueOK
    <3> QED BY <2>5, <2>9, <3>1
  <2>11. \A l \in AllKeys : \E d \in {0, 1} :
           \A n \in 1..Len(p.free[l]) :
             /\ n + d \in 1..Len(o.free[l]) /\ p.free[l][n] = o.free[l][n + d]
             /\ p.free[l][n] # f
    BY <2>10
  <2>12. f[1] = prog[p.pc].key /\ f[2] < p.fresh[prog[p.pc].key]
    BY <2>1, <2>4, <2>5, <2>8
  <2>13. \A i \in 1..o.pc : Makes(prog, i) => o.alloc[i][2] < p.fresh[prog[i].key]
    BY <2>9
  <2>14. \A i \in 1..o.pc : Makes(prog, i) /\ o.alloc[i] = f => Gone(prog, o, U, R, i)
    BY <2>9
  <2> HIDE DEF fr, k
  <2>15. TakesField(prog, o, p, f)
    BY <2>5, <2>6, <2>11, <2>12, <2>13 DEF TakesField
  <2>16. OwnOK(prog, p, U, R)
    BY <2>14, <2>15, NewStore
  <2> QED BY <2>16 DEF p, k
<1> QED BY <1>4, <1>5, <1>6

\* The output of a task arrives: no store was made with its key before.
LEMMA OwnBind ==
  ASSUME NEW prog \in Seq(Stmt), NEW o \in OrdState, NEW U, NEW R,
         OwnOK(prog, o, U, R), LegalProgram(prog),
         o.pc + 1 \in Store, o.pc + 1 \in 1..Len(prog),
         \A i \in 1..o.pc : Makes(prog, i) => o.alloc[i] \in Field,
         prog[o.pc + 1].op = "import"
  PROVE  OwnOK(prog, BindOutput(o, prog[o.pc + 1].key), U, R)
<1> DEFINE k == prog[o.pc + 1].key
           p == BindOutput(o, k)
           f == <<k, 0>>
<1>1. /\ o.pc \in Nat /\ o.alloc \in [Store -> Field \cup {NoField}]
      /\ o.free \in [AllKeys -> Seq(Field)] /\ o.fresh \in [AllKeys -> Nat]
  BY DEF OrdState
<1>2. k \in AllKeys /\ f \in Field /\ f[1] = k /\ f[2] = 0
  BY StmtOK DEF Field
<1>3. ASSUME NEW i \in 1..o.pc, Makes(prog, i)
      PROVE  /\ o.alloc[i] \in Field /\ prog[i].key \in AllKeys /\ prog[i].key # k
             /\ o.alloc[i][1] = prog[i].key /\ o.alloc[i][2] < o.fresh[prog[i].key]
  <2>1. i \in 1..Len(prog) /\ i \in 1..((o.pc + 1) - 1)
    BY <1>1
  <2>2. prog[i].key \in AllKeys
    BY <1>3, <2>1, StmtOK DEF Makes
  <2>3. prog[i].key # k
    BY <1>3, <2>1 DEF LegalProgram
  <2> QED BY <1>3, <2>1, <2>2, <2>3 DEF OwnOK, RecordOK
<1> DEFINE fr == [o.fresh EXCEPT ![k] = 1]
           q  == [o EXCEPT !.fresh = fr]
<1>4. fr \in [AllKeys -> Nat]
  BY <1>1
<1>5. Requeued(o, q) /\ q.free = o.free /\ q.fresh = fr
  BY <1>4, RequeueOK DEF OrdState
<1>6. p = Finish(q, f)
  BY DEF BindOutput
<1> HIDE DEF q, f, p
<1>7. /\ p \in OrdState /\ p.pc = o.pc + 1
      /\ p.alloc = [o.alloc EXCEPT ![o.pc + 1] = f]
      /\ p.free = o.free /\ p.fresh = fr
  BY <1>2, <1>5, <1>6, FinishOK, QueuesOK DEF Requeued
<1>8. p.alloc[p.pc] = f /\ \A i \in 1..o.pc : p.alloc[i] = o.alloc[i]
  BY <1>1, <1>7, ConstAssumption DEF Store
<1>9. ASSUME NEW i \in 1..o.pc, Makes(prog, i)
      PROVE  o.alloc[i][2] < p.fresh[prog[i].key] /\ o.alloc[i] # f
  <2>1. p.fresh[prog[i].key] = o.fresh[prog[i].key]
    BY <1>1, <1>3, <1>7, <1>9
  <2>2. o.alloc[i] # f
    BY <1>2, <1>3, <1>9
  <2> QED BY <1>3, <1>9, <2>1, <2>2
<1>10. ASSUME NEW l \in AllKeys, NEW n \in 1..Len(p.free[l])
       PROVE  /\ n + 0 \in 1..Len(o.free[l]) /\ p.free[l][n] = o.free[l][n + 0]
              /\ p.free[l][n] # f
  <2>1. \E i \in 1..o.pc : Makes(prog, i) /\ o.alloc[i] = o.free[l][n]
    BY <1>7 DEF OwnOK, QueueOK
  <2> QED BY <1>7, <1>9, <2>1
<1>11. \A l \in AllKeys : \E d \in {0, 1} :
         \A n \in 1..Len(p.free[l]) :
           /\ n + d \in 1..Len(o.free[l]) /\ p.free[l][n] = o.free[l][n + d]
           /\ p.free[l][n] # f
  BY <1>10
<1>12. f[1] = prog[p.pc].key /\ f[2] < p.fresh[prog[p.pc].key]
  BY <1>1, <1>2, <1>7
<1>13. \A i \in 1..o.pc : Makes(prog, i) => o.alloc[i][2] < p.fresh[prog[i].key]
  BY <1>9
<1>14. \A i \in 1..o.pc : Makes(prog, i) /\ o.alloc[i] = f => Gone(prog, o, U, R, i)
  BY <1>9
<1> HIDE DEF fr, k
<1>15. Makes(prog, p.pc)
  BY <1>7 DEF Makes
<1>16. TakesField(prog, o, p, f)
  BY <1>7, <1>8, <1>11, <1>12, <1>13, <1>15 DEF TakesField
<1>17. OwnOK(prog, p, U, R)
  BY <1>14, <1>16, NewStore
<1> QED BY <1>17 DEF p, k

\* Facts about a well-formed value that the next lemmas start from.
LEMMA OrdFacts ==
  ASSUME NEW prog, NEW res, NEW o, ProgramOK(prog), OrdOK(o, prog, res)
  PROVE  /\ o \in OrdState /\ o.pc \in Nat /\ Len(prog) \in Nat /\ prog \in Seq(Stmt)
         /\ o.pc < Len(prog) => /\ o.pc + 1 \in 1..Len(prog) /\ o.pc + 1 \in Store
                                /\ prog[o.pc + 1] \in Stmt
         /\ \A i \in 1..o.pc : i \in Store /\ i \in 1..Len(prog)
         /\ \A i \in 1..o.pc : Makes(prog, i) => o.alloc[i] \in Field
BY ConstAssumption DEF ProgramOK, OrdOK, OrdState, Store

\* A step that takes no field from its owner leaves every field with its owner.
LEMMA OwnSucc ==
  ASSUME NEW prog, NEW res, NEW o, NEW p, NEW U, NEW R, res \in Seq(Seq(Field)),
         ProgramOK(prog), LegalProgram(prog), OrdOK(o, prog, res),
         IsSucc(o, p, prog, res), OwnOK(prog, o, U, R),
         ~(o.ctl = "idle" /\ prog[o.pc + 1].op = "drop"),
         ~(o.ctl = "free" /\ o.taken < Len(res[o.matches]))
  PROVE  OwnOK(prog, p, U, R)
<1> DEFINE st == prog[o.pc + 1]
<1>1. /\ o \in OrdState /\ o.pc \in Nat /\ Len(prog) \in Nat /\ prog \in Seq(Stmt)
      /\ o.pc < Len(prog) => /\ o.pc + 1 \in 1..Len(prog) /\ o.pc + 1 \in Store
                             /\ st \in Stmt
      /\ \A i \in 1..o.pc : Makes(prog, i) => o.alloc[i] \in Field
  BY OrdFacts
<1>2. p \in OrdState /\ Keeps(o, p)
  BY SuccOK DEF OrdOK
<1>3. \A i \in 1..o.pc : p.alloc[i] = o.alloc[i]
  BY <1>2 DEF Keeps
<1>4. \* Nothing but the control, the credit or the match changes.
      ASSUME p.pc = o.pc, p.free = o.free, p.fresh = o.fresh
      PROVE  OwnOK(prog, p, U, R)
  <2>1. NoStore(prog, o, p)
    BY <1>2, <1>3, <1>4 DEF NoStore
  <2> QED BY <1>1, <1>4, <2>1, OwnKept
<1>5. \* A statement without a store.
      ASSUME NEW q, Requeued(o, q), q.free = o.free, q.fresh = o.fresh,
             o.pc < Len(prog), ~Makes(prog, o.pc + 1), p = Finish(q, NoField)
      PROVE  OwnOK(prog, p, U, R)
  <2>1. q \in OrdState /\ q.pc = o.pc
    BY <1>5 DEF Requeued
  <2>2. p.pc = o.pc + 1 /\ p.free = o.free /\ p.fresh = o.fresh
    <3>1. Finish(q, NoField).pc = q.pc + 1
      BY <2>1, FinishOK
    <3>2. Finish(q, NoField).free = q.free /\ Finish(q, NoField).fresh = q.fresh
      BY <2>1, QueuesOK
    <3> QED BY <1>5, <2>1, <3>1, <3>2
  <2>3. p.alloc[o.pc + 1] = NoField
    <3>1. q.alloc = o.alloc /\ Finish(q, NoField).alloc = [q.alloc EXCEPT ![q.pc + 1] = NoField]
      BY <1>5, <2>1, FinishOK DEF Requeued
    <3> QED BY <1>1, <1>5, <2>1, <3>1 DEF OrdState
  <2>4. NoStore(prog, o, p)
    BY <1>2, <1>3, <1>5, <2>2, <2>3 DEF NoStore
  <2> QED BY <1>1, <2>2, <2>4, OwnKept
<1>6. CASE o.ctl = "idle" /\ o.pc < Len(prog) /\ st.op \in {"create", "import"}
           /\ p = MaybeIssue(o, st.key, st.op)
  <2>1. st.key \in AllKeys
    BY <1>1, <1>6, StmtOK
  <2>2. p.pc = o.pc
    BY <1>1, <1>6, <2>1, MaybeIssueOK
  <2> QED BY <1>1, <1>4, <1>6, <2>2, QueuesOK
<1>7. CASE o.ctl = "idle" /\ o.pc < Len(prog) /\ st.op = "query"
           /\ p = Finish([o EXCEPT !.ready = @ \cup {st.key}], NoField)
  <2> DEFINE r == o.ready \cup {st.key}
             q == [o EXCEPT !.ready = r]
  <2>1. r \in SUBSET AllKeys
    BY <1>1, <1>7, StmtOK DEF OrdState
  <2>2. Requeued(o, q) /\ q.free = o.free /\ q.fresh = o.fresh
    BY <1>1, <2>1, RequeueOK, QueuesOK
  <2>3. p = Finish(q, NoField) /\ o.pc < Len(prog) /\ ~Makes(prog, o.pc + 1)
    BY <1>7 DEF Makes
  <2> HIDE DEF q
  <2> QED BY <1>5, <2>2, <2>3
<1>8. CASE o.ctl = "idle" /\ o.pc < Len(prog) /\ st.op = "task" /\ p = Finish(o, NoField)
  <2>1. Requeued(o, o) /\ ~Makes(prog, o.pc + 1)
    BY <1>1, <1>8, RequeueOK DEF Makes
  <2> QED BY <1>5, <1>8, <2>1
<1>9. CASE o.ctl = "issue" /\ p = IssueMatch(o, st.op)
  <2>1. st.op \in {"create", "import"}
    BY <1>9 DEF OrdOK, Makes
  <2>2. p.pc = o.pc
    BY <1>1, <1>9, <2>1, IssueMatchOK
  <2> QED BY <1>1, <1>4, <1>9, <2>2, QueuesOK
<1>10. CASE o.ctl = "reuse" /\ p = Allocate(o, st.key)
  <2>1. o.pc < Len(prog) /\ Makes(prog, o.pc + 1)
    BY <1>10 DEF OrdOK
  <2> QED BY <1>1, <1>10, <2>1, OwnAllocate
<1>11. CASE o.ctl = "bind" /\ p = BindOutput(o, st.key)
  <2>1. o.pc < Len(prog) /\ st.op = "import"
    BY <1>11 DEF OrdOK
  <2> QED BY <1>1, <1>11, <2>1, OwnBind
<1>12. CASE o.ctl = "wait" /\ p = [o EXCEPT !.ctl = "progress"]
  <2>1. p.pc = o.pc
    BY <1>1, <1>12 DEF OrdState
  <2> QED BY <1>1, <1>4, <1>12, <2>1, QueuesOK
<1>13. CASE o.ctl = "progress" /\ p = [o EXCEPT !.ctl = "free"]
  <2>1. p.pc = o.pc
    BY <1>1, <1>13 DEF OrdState
  <2> QED BY <1>1, <1>4, <1>13, <2>1, QueuesOK
<1>14. CASE o.ctl = "free" /\ p = EndMatch(o)
  <2>1. p.pc = o.pc
    BY <1>1, <1>14, EndMatchOK
  <2> QED BY <1>1, <1>4, <1>14, <2>1, QueuesOK
<1> QED BY <1>6, <1>7, <1>8, <1>9, <1>10, <1>11, <1>12, <1>13, <1>14 DEF IsSucc

\* The program destroys a store that is not marked, once.
LEMMA OwnDrop ==
  ASSUME NEW prog, NEW res, NEW o, NEW U, NEW R,
         ProgramOK(prog), LegalProgram(prog), OrdOK(o, prog, res), OwnOK(prog, o, U, R),
         o.pc < Len(prog), prog[o.pc + 1].op = "drop"
  PROVE  LET i == prog[o.pc + 1].store
         IN OwnOK(prog, Finish(FreeField(o, o.alloc[i]), NoField), U, R \cup {i})
<1> DEFINE i == prog[o.pc + 1].store
           f == o.alloc[i]
           q == FreeField(o, f)
           p == Finish(q, NoField)
<1>1. /\ o \in OrdState /\ o.pc \in Nat /\ Len(prog) \in Nat /\ prog \in Seq(Stmt)
      /\ o.pc + 1 \in 1..Len(prog) /\ o.pc + 1 \in Store
      /\ \A j \in 1..o.pc : j \in Store
      /\ \A j \in 1..o.pc : Makes(prog, j) => o.alloc[j] \in Field
  BY OrdFacts
<1>2. i \in 1..o.pc /\ Makes(prog, i) /\ f \in Field
  <2>1. i \in 1..((o.pc + 1) - 1) /\ prog[i].op = "create"
    BY <1>1 DEF ProgramOK
  <2> QED BY <1>1, <2>1 DEF Makes
<1>3. Requeued(o, q) /\ q.fresh = o.fresh
  BY <1>1, <1>2, FreeFieldOK, QueuesOK
<1> HIDE DEF q, f
<1>4. /\ p \in OrdState /\ p.pc = o.pc + 1
      /\ p.alloc = [o.alloc EXCEPT ![o.pc + 1] = NoField]
      /\ p.free = q.free /\ p.fresh = o.fresh
  <2>1. q \in OrdState /\ q.pc = o.pc /\ q.alloc = o.alloc
    BY <1>3 DEF Requeued
  <2> QED BY <1>3, <2>1, FinishOK, QueuesOK
<1> HIDE DEF p
<1>5. NoStore(prog, o, p)
  <2>1. o.alloc \in [Store -> Field \cup {NoField}]
    BY <1>1 DEF OrdState
  <2>2. p.alloc[o.pc + 1] = NoField /\ \A j \in 1..o.pc : p.alloc[j] = o.alloc[j]
    BY <1>1, <1>4, <2>1
  <2>3. ~Makes(prog, o.pc + 1)
    BY DEF Makes
  <2> QED BY <1>4, <2>2, <2>3 DEF NoStore
<1>6. ~CollectableIn(prog, i) /\ i \notin U
  BY <1>1 DEF LegalProgram, OwnOK
<1>7. ~Gone(prog, o, U, R, i)
  <2>1. \A j \in 1..o.pc : ~Drops(prog, j, i)
    <3>1. \A j \in 1..o.pc : j \in 1..((o.pc + 1) - 1)
      BY <1>1
    <3> QED BY <1>1, <3>1 DEF LegalProgram
  <2> QED BY <1>6, <2>1 DEF Gone
<1>8. Gone(prog, p, U, R \cup {i}, i)
  <2>1. Drops(prog, o.pc + 1, i) /\ o.pc + 1 \in 1..p.pc
    BY <1>1, <1>4 DEF Drops
  <2> QED BY <1>6, <2>1 DEF Gone
<1>9. ASSUME NEW j, Gone(prog, o, U, R, j)
      PROVE  Gone(prog, p, U, R \cup {i}, j)
  <2>1. Gone(prog, p, U, R, j)
    BY <1>1, <1>4, <1>9, GoneGrows
  <2> QED BY <2>1 DEF Gone
<1>10. U \subseteq R \cup {i} /\ R \cup {i} \subseteq 1..p.pc /\ \A j \in U : CollectableIn(prog, j)
  <2>1. /\ U \subseteq R /\ R \subseteq 1..o.pc
        /\ \A j \in U : CollectableIn(prog, j)
    BY DEF OwnOK
  <2>2. 1..o.pc \subseteq 1..p.pc
    BY <1>1, <1>4
  <2> HIDE DEF i
  <2> QED BY <1>2, <2>1, <2>2
<1>11. p.free = FreeField(o, o.alloc[i]).free /\ o.alloc[i] \in Field
  BY <1>2, <1>4 DEF q, f
<1> HIDE DEF i
<1>12. OwnOK(prog, p, U, R \cup {i})
  BY <1>1, <1>2, <1>5, <1>7, <1>8, <1>9, <1>10, <1>11, GiveUp
<1> QED BY <1>12 DEF p, q, f, i

\* A matched store gives its field up.
LEMMA OwnMatched ==
  ASSUME NEW prog, NEW res, NEW o, NEW U, NEW R, NEW i \in U,
         ProgramOK(prog), OrdOK(o, prog, res), OwnOK(prog, o, U, R)
  PROVE  OwnOK(prog, FreeItem(o, o.alloc[i]), U \ {i}, R)
<1> DEFINE p == FreeItem(o, o.alloc[i])
<1>1. o \in OrdState /\ o.pc \in Nat
      /\ \A j \in 1..o.pc : Makes(prog, j) => o.alloc[j] \in Field
  BY OrdFacts
<1>2. i \in 1..o.pc /\ i \in R /\ CollectableIn(prog, i) /\ Makes(prog, i)
  BY DEF OwnOK, CollectableIn, Makes
<1>3. o.alloc[i] \in Field
  BY <1>1, <1>2
<1>4. /\ p \in OrdState /\ p.pc = o.pc /\ p.alloc = o.alloc /\ p.fresh = o.fresh
      /\ p.free = FreeField(o, o.alloc[i]).free
  BY <1>1, <1>3, FreeItemOK, QueuesOK
<1> HIDE DEF p
<1>5. NoStore(prog, o, p)
  BY <1>4 DEF NoStore
<1>6. ~Gone(prog, o, U, R, i) /\ Gone(prog, p, U \ {i}, R, i)
  BY <1>2 DEF Gone
<1>7. \A j : Gone(prog, o, U, R, j) => Gone(prog, p, U \ {i}, R, j)
  BY <1>4 DEF Gone
<1>8. U \ {i} \subseteq R /\ R \subseteq 1..p.pc /\ \A j \in U \ {i} : CollectableIn(prog, j)
  BY <1>4 DEF OwnOK
<1>9. OwnOK(prog, p, U \ {i}, R)
  BY <1>1, <1>2, <1>3, <1>4, <1>5, <1>6, <1>7, <1>8, GiveUp
<1> QED BY <1>9 DEF p

\* What a step does to the match of its shard.
LEMMA SuccMatch ==
  ASSUME NEW prog, NEW res, NEW o, NEW p, res \in Seq(Seq(Field)),
         ProgramOK(prog), OrdOK(o, prog, res), IsSucc(o, p, prog, res),
         o.ctl = "issue" => ~o.outstanding
  PROVE  /\ p.ctl = "issue" => ~p.outstanding
         /\ o.ctl = "issue" => p.outstanding /\ p.ctl # "free"
         /\ o.ctl \notin {"issue", "free"} => (p.outstanding <=> o.outstanding)
         /\ p.ctl = "free" /\ o.ctl # "free" => o.ctl = "progress" /\ p.taken = 0
         /\ o.ctl = "free" =>
              \/ /\ o.taken < Len(res[o.matches]) /\ p.ctl = "free"
                 /\ p.taken = o.taken + 1 /\ p.outstanding
              \/ /\ o.taken = Len(res[o.matches]) /\ ~p.outstanding
                 /\ p.ctl \in {"issue", "reuse"}
<1> DEFINE st == prog[o.pc + 1]
<1>1. /\ o \in OrdState /\ o.pc \in Nat /\ Len(prog) \in Nat
      /\ o.pc < Len(prog) => st \in Stmt
  BY OrdFacts
<1>2. o.ctl # "idle" => o.pc < Len(prog) /\ Makes(prog, o.pc + 1)
  BY DEF OrdOK
<1>3. ASSUME NEW q, Requeued(o, q), NEW f \in Field \cup {NoField}, p = Finish(q, f)
      PROVE  p.ctl = "idle" /\ (p.outstanding <=> o.outstanding)
  BY <1>3, FinishOK DEF Requeued
<1>4. CASE o.ctl = "idle" /\ o.pc < Len(prog) /\ st.op \in {"create", "import"}
           /\ p = MaybeIssue(o, st.key, st.op)
  <2>1. st.key \in AllKeys
    BY <1>1, <1>4, StmtOK
  <2>2. /\ p.outstanding = o.outstanding
        /\ p.ctl \in {"reuse", "bind", "wait", "issue"}
    BY <1>1, <1>4, <2>1, MaybeIssueOK DEF After
  <2>3. p.ctl = "issue" => ~o.outstanding
    <3>1. p.ctl = LET c == o.counter + MatchCredit(o, st.key)
                      due == c >= FieldReuseFreq
                  IN IF ~due THEN After(st.op)
                     ELSE IF o.outstanding THEN "wait" ELSE "issue"
      BY <1>1, <1>4 DEF MaybeIssue, OrdState
    <3> QED BY <3>1, <1>4 DEF After
  <2> QED BY <1>4, <2>2, <2>3
<1>5. CASE o.ctl = "idle" /\ o.pc < Len(prog) /\ st.op = "drop"
           /\ p = Finish(FreeField(o, o.alloc[st.store]), NoField)
  <2>1. st.store \in 1..o.pc /\ Makes(prog, st.store)
    <3>1. o.pc + 1 \in 1..Len(prog)
      BY <1>1, <1>5
    <3>2. st.store \in 1..((o.pc + 1) - 1) /\ prog[st.store].op = "create"
      BY <3>1, <1>5 DEF ProgramOK
    <3> QED BY <3>2, <1>1 DEF Makes
  <2>2. o.alloc[st.store] \in Field
    BY <2>1 DEF OrdOK
  <2>3. Requeued(o, FreeField(o, o.alloc[st.store]))
    BY <1>1, <2>2, FreeFieldOK
  <2>4. p.ctl = "idle" /\ (p.outstanding <=> o.outstanding)
    BY <1>3, <1>5, <2>3
  <2> QED BY <1>5, <2>4
<1>6. CASE o.ctl = "idle" /\ o.pc < Len(prog) /\ st.op = "query"
           /\ p = Finish([o EXCEPT !.ready = @ \cup {st.key}], NoField)
  <2> DEFINE r == o.ready \cup {st.key}
             q == [o EXCEPT !.ready = r]
  <2>1. r \in SUBSET AllKeys
    BY <1>1, <1>6, StmtOK DEF OrdState
  <2>2. Requeued(o, q) /\ p = Finish(q, NoField)
    BY <1>1, <1>6, <2>1, RequeueOK
  <2> HIDE DEF q
  <2>3. p.ctl = "idle" /\ (p.outstanding <=> o.outstanding)
    BY <1>3, <2>2
  <2> QED BY <1>6, <2>3
<1>7. CASE o.ctl = "idle" /\ o.pc < Len(prog) /\ st.op = "task" /\ p = Finish(o, NoField)
  <2>1. p.ctl = "idle" /\ (p.outstanding <=> o.outstanding)
    BY <1>1, <1>3, <1>7, RequeueOK
  <2> QED BY <1>7, <2>1
<1>8. CASE o.ctl = "issue" /\ p = IssueMatch(o, st.op)
  <2>1. st.op \in {"create", "import"}
    BY <1>2, <1>8 DEF Makes
  <2>2. p.outstanding = TRUE /\ p.ctl = After(st.op)
    BY <1>1, <1>8, <2>1, IssueMatchOK
  <2> QED BY <1>8, <2>2 DEF After
<1>9. CASE o.ctl = "reuse" /\ p = Allocate(o, st.key)
  <2>1. st.key \in AllKeys
    BY <1>1, <1>2, <1>9, StmtOK DEF Makes
  <2>2. \/ p.ctl = "idle" /\ (p.outstanding <=> o.outstanding)
        \/ p.ctl = "wait" /\ (p.outstanding <=> o.outstanding)
    <3>1. CASE \E q \in OrdState, f \in Field : Requeued(o, q) /\ p = Finish(q, f)
      BY <1>3, <3>1
    <3>2. CASE p.outstanding = o.outstanding /\ p.ctl = "wait"
      BY <3>2
    <3> QED BY <1>1, <1>9, <2>1, <3>1, <3>2, AllocateOK
  <2> QED BY <1>9, <2>2
<1>10. CASE o.ctl = "bind" /\ p = BindOutput(o, st.key)
  <2>1. st.key \in AllKeys
    BY <1>1, <1>2, <1>10, StmtOK DEF Makes
  <2>2. <<st.key, 0>> \in Field
    BY <2>1 DEF Field
  <2>3. PICK q \in OrdState : Requeued(o, q) /\ p = Finish(q, <<st.key, 0>>)
    BY <1>1, <1>10, <2>1, BindOutputOK
  <2>4. p.ctl = "idle" /\ (p.outstanding <=> o.outstanding)
    BY <1>3, <2>2, <2>3
  <2> QED BY <1>10, <2>4
<1>11. CASE o.ctl = "wait" /\ p = [o EXCEPT !.ctl = "progress"]
  <2>1. p.ctl = "progress" /\ p.outstanding = o.outstanding
    BY <1>1, <1>11 DEF OrdState
  <2> QED BY <1>11, <2>1
<1>12. CASE o.ctl = "progress" /\ p = [o EXCEPT !.ctl = "free"]
  <2>1. p.ctl = "free" /\ p.outstanding = o.outstanding /\ p.taken = o.taken
    BY <1>1, <1>12 DEF OrdState
  <2>2. o.taken = 0
    BY <1>12 DEF OrdOK
  <2> QED BY <1>12, <2>1, <2>2
<1>13. CASE o.ctl = "free" /\ o.taken < Len(res[o.matches])
            /\ p = FreeItem(o, res[o.matches][o.taken + 1])
  <2>1. /\ o.outstanding /\ o.matches >= 1 /\ o.matches <= Len(res)
        /\ o.matches \in Nat /\ o.taken \in Nat
    BY <1>1, <1>13 DEF OrdOK, InMatch, OrdState
  <2>2. res[o.matches] \in Seq(Field)
    BY <2>1
  <2>3. res[o.matches][o.taken + 1] \in Field
    BY <1>13, <2>1, <2>2
  <2>4. /\ p.ctl = o.ctl /\ p.outstanding = o.outstanding /\ p.taken = o.taken + 1
    BY <1>1, <1>13, <2>3, FreeItemOK
  <2> QED BY <1>13, <2>1, <2>4
<1>14. CASE o.ctl = "free" /\ o.taken = Len(res[o.matches]) /\ p = EndMatch(o)
  <2>1. p.outstanding = FALSE /\ p.ctl = o.why
    BY <1>1, <1>14, EndMatchOK
  <2>2. o.why \in {"issue", "reuse"}
    BY <1>1 DEF OrdState
  <2> QED BY <1>14, <2>1, <2>2
<1> QED BY <1>4, <1>5, <1>6, <1>7, <1>8, <1>9, <1>10, <1>11, <1>12, <1>13, <1>14 DEF IsSucc

-----------------------------------------------------------------------------
(* Steps.                                                                  *)

\* A step of the thread of shard s moves its ordered part to a successor,
OrderedMove(s) ==
  /\ Ordered(s, fm'[s]) /\ IsSucc(fm[s], fm'[s], program', result')
  /\ Grows(program, program') /\ Grows(result, result')

\* and leaves alone what the other shards know.
OthersKept(s) ==
  \A t \in Shards \ {s} :
    /\ unordered'[t] = unordered[t] /\ matching'[t] = matching[t]
    /\ offered'[t] = offered[t] /\ released'[t] = released[t]
    /\ progressed'[t] = progressed[t]

\* What shard s does next is what its ordered part becomes.
LEMMA OrderedMoves ==
  ASSUME IInv, NEW s \in Shards, NEW o, Ordered(s, o)
  PROVE  o = fm'[s]
BY DEF IInv, HistOK, Ordered

\* The output of a match is there once a shard has waited for it, and outputs stay.
LEMMA AwaitGrows ==
  ASSUME IInv, NEW s \in Shards, AwaitMatch(s)
  PROVE  Grows(result, result') /\ fm[s].matches <= Len(result')
<1>1. result \in Seq(Seq(Field)) /\ Len(result) \in Nat
  BY DEF IInv
<1>2. CASE fm[s].matches <= Len(result) /\ UNCHANGED result
  BY <1>2, SameResult
<1>3. CASE fm[s].matches = Len(result) + 1 /\ \E items : result' = Append(result, items)
  BY <1>1, <1>3 DEF Grows
<1> QED BY <1>2, <1>3 DEF AwaitMatch

\* Every step of the thread of a shard is a step of its ordered part.
LEMMA RunMoves ==
  ASSUME IInv, NEW s \in Shards, Run(s)
  PROVE  OrderedMove(s)
<1>1. ASSUME NEW o, Ordered(s, o), IsSucc(fm[s], o, program', result'),
             Grows(program, program'), Grows(result, result')
      PROVE  OrderedMove(s)
  BY <1>1, OrderedMoves DEF OrderedMove
<1>2. ASSUME NEW st \in Menu, Starts(s, st), UNCHANGED result, NEW o, Ordered(s, o),
             IsSucc(fm[s], o, program', result')
      PROVE  OrderedMove(s)
  BY <1>1, <1>2, StartsOK, SameResult
<1>3. ASSUME UNCHANGED <<program, result>>, fm[s].ctl # "idle", NEW o, Ordered(s, o),
             IsSucc(fm[s], o, program', result')
      PROVE  OrderedMove(s)
  BY <1>1, <1>3, SameProgram, SameResult
<1>4. CASE BeginCreate(s)
  <2>1. PICK st \in Menu :
          /\ st.op = "create" /\ Starts(s, st) /\ UNCHANGED result
          /\ Ordered(s, MaybeIssue(fm[s], st.key, st.op))
    BY <1>4 DEF BeginCreate
  <2>2. IsSucc(fm[s], MaybeIssue(fm[s], st.key, st.op), program', result')
    BY <2>1, StartsOK DEF IsSucc
  <2> QED BY <1>2, <2>1, <2>2
<1>5. CASE BeginImport(s)
  <2>1. PICK st \in Menu :
          /\ st.op = "import" /\ Starts(s, st) /\ UNCHANGED result
          /\ Ordered(s, MaybeIssue(fm[s], st.key, st.op))
    BY <1>5 DEF BeginImport
  <2>2. IsSucc(fm[s], MaybeIssue(fm[s], st.key, st.op), program', result')
    BY <2>1, StartsOK DEF IsSucc
  <2> QED BY <1>2, <2>1, <2>2
<1>6. CASE Issue(s)
  <2>1. /\ UNCHANGED <<program, result>> /\ fm[s].ctl = "issue"
        /\ Ordered(s, IssueMatch(fm[s], Current(s).op))
    BY <1>6 DEF Issue
  <2>2. IsSucc(fm[s], IssueMatch(fm[s], Current(s).op), program', result')
    BY <2>1, SameProgram DEF IsSucc
  <2> QED BY <1>3, <2>1, <2>2
<1>7. CASE Reuse(s)
  <2>1. /\ UNCHANGED <<program, result>> /\ fm[s].ctl = "reuse"
        /\ Ordered(s, Allocate(fm[s], Current(s).key))
    BY <1>7 DEF Reuse
  <2>2. IsSucc(fm[s], Allocate(fm[s], Current(s).key), program', result')
    BY <2>1, SameProgram DEF IsSucc
  <2> QED BY <1>3, <2>1, <2>2
<1>8. CASE Bind(s)
  <2>1. /\ UNCHANGED <<program, result>> /\ fm[s].ctl = "bind"
        /\ Ordered(s, BindOutput(fm[s], Current(s).key))
    BY <1>8 DEF Bind
  <2>2. IsSucc(fm[s], BindOutput(fm[s], Current(s).key), program', result')
    BY <2>1, SameProgram DEF IsSucc
  <2> QED BY <1>3, <2>1, <2>2
<1>9. CASE AwaitMatch(s)
  <2>1. /\ UNCHANGED program /\ fm[s].ctl = "wait"
        /\ Ordered(s, [fm[s] EXCEPT !.ctl = "progress"])
    BY <1>9 DEF AwaitMatch
  <2>2. Grows(result, result') /\ fm[s].matches <= Len(result') /\ Grows(program, program')
    BY <1>9, <2>1, AwaitGrows, SameProgram
  <2>3. IsSucc(fm[s], [fm[s] EXCEPT !.ctl = "progress"], program', result')
    BY <2>1, <2>2 DEF IsSucc
  <2> QED BY <1>1, <2>1, <2>2, <2>3
<1>10. CASE Progress(s)
  <2>1. /\ UNCHANGED <<program, result>> /\ fm[s].ctl = "progress"
        /\ Ordered(s, [fm[s] EXCEPT !.ctl = "free"])
    BY <1>10 DEF Progress
  <2>2. IsSucc(fm[s], [fm[s] EXCEPT !.ctl = "free"], program', result')
    BY <2>1 DEF IsSucc
  <2> QED BY <1>3, <2>1, <2>2
<1>11. CASE FreeMatched(s)
  <2> DEFINE f == result[fm[s].matches][fm[s].taken + 1]
  <2>1. /\ UNCHANGED <<program, result>> /\ fm[s].ctl = "free"
        /\ fm[s].taken < Len(result[fm[s].matches])
        /\ Ordered(s, FreeItem(fm[s], f))
    BY <1>11 DEF FreeMatched, MatchOutput
  <2>2. IsSucc(fm[s], FreeItem(fm[s], f), program', result')
    BY <2>1 DEF IsSucc
  <2> HIDE DEF f
  <2> QED BY <1>3, <2>1, <2>2
<1>12. CASE EndProcess(s)
  <2>1. /\ UNCHANGED <<program, result>> /\ fm[s].ctl = "free"
        /\ fm[s].taken = Len(result[fm[s].matches])
        /\ Ordered(s, EndMatch(fm[s]))
    BY <1>12 DEF EndProcess, MatchOutput
  <2>2. IsSucc(fm[s], EndMatch(fm[s]), program', result')
    BY <2>1 DEF IsSucc
  <2> QED BY <1>3, <2>1, <2>2
<1>13. CASE Drop(s)
  <2>1. PICK st \in Menu :
          /\ st.op = "drop" /\ Starts(s, st) /\ UNCHANGED result
          /\ Ordered(s, Finish(FreeField(fm[s], fm[s].alloc[st.store]), NoField))
    BY <1>13 DEF Drop
  <2> DEFINE o == Finish(FreeField(fm[s], fm[s].alloc[st.store]), NoField)
  <2>2. IsSucc(fm[s], o, program', result')
    BY <2>1, StartsOK DEF IsSucc
  <2> HIDE DEF o
  <2> QED BY <1>2, <2>1, <2>2 DEF o
<1>14. CASE Query(s)
  <2>1. PICK st \in Menu :
          /\ st.op = "query" /\ Starts(s, st) /\ UNCHANGED result
          /\ Ordered(s, Finish([fm[s] EXCEPT !.ready = @ \cup {st.key}], NoField))
    BY <1>14 DEF Query
  <2> DEFINE o == Finish([fm[s] EXCEPT !.ready = @ \cup {st.key}], NoField)
  <2>2. Ordered(s, o) /\ IsSucc(fm[s], o, program', result')
    BY <2>1, StartsOK DEF IsSucc
  <2> HIDE DEF o
  <2> QED BY <1>2, <2>1, <2>2
<1>15. CASE Task(s)
  <2>1. PICK st \in Menu :
          /\ st.op = "task" /\ Starts(s, st) /\ UNCHANGED result
          /\ Ordered(s, Finish(fm[s], NoField))
    BY <1>15 DEF Task
  <2>2. IsSucc(fm[s], Finish(fm[s], NoField), program', result')
    BY <2>1, StartsOK DEF IsSucc
  <2> QED BY <1>2, <2>1, <2>2
<1> QED BY <1>4, <1>5, <1>6, <1>7, <1>8, <1>9, <1>10, <1>11, <1>12, <1>13, <1>14, <1>15
         DEF Run

\* No step of a shard changes the local information of another one.
LEMMA OthersStay ==
  ASSUME IInv, NEW s \in Shards, Run(s) \/ Collect(s)
  PROVE  OthersKept(s)
<1>1. /\ unordered \in [Shards -> SUBSET Store] /\ matching \in [Shards -> SUBSET Store]
      /\ released \in [Shards -> SUBSET Store]
      /\ offered \in [Shards -> Seq(SUBSET Field)]
      /\ progressed \in [Shards -> Seq(SUBSET Store)]
  BY DEF IInv, LocalOK
<1>2. CASE BeginCreate(s) \/ BeginImport(s) \/ Reuse(s) \/ Bind(s) \/ Progress(s)
           \/ Query(s) \/ Task(s)
  BY <1>2 DEF BeginCreate, BeginImport, Reuse, Bind, Progress, Query, Task, local, OthersKept
<1>3. CASE Issue(s)
  BY <1>1, <1>3 DEF Issue, OthersKept
<1>4. CASE AwaitMatch(s)
  BY <1>1, <1>4 DEF AwaitMatch, OthersKept
<1>5. CASE FreeMatched(s)
  BY <1>1, <1>5 DEF FreeMatched, OthersKept
<1>6. CASE EndProcess(s)
  BY <1>1, <1>6 DEF EndProcess, OthersKept
<1>7. CASE Drop(s)
  BY <1>1, <1>7 DEF Drop, OthersKept
<1>8. CASE Collect(s)
  BY <1>1, <1>8 DEF Collect, OthersKept
<1> QED BY <1>2, <1>3, <1>4, <1>5, <1>6, <1>7, <1>8 DEF Run

\* What OrderedMove means for the history and for every shard.
LEMMA MoveFacts ==
  ASSUME IInv, IInv', NEW s \in Shards, OrderedMove(s)
  PROVE  /\ step'[s] = step[s] + 1
         /\ \A t \in Shards \ {s} : fm'[t] = fm[t] /\ step'[t] = step[t]
         /\ Len(hist) \in Nat /\ Len(hist') \in Nat /\ Grows(hist, hist')
         /\ \A n \in 1..Len(hist') :
              \/ n \in 1..Len(hist)
              \/ n = Len(hist) + 1 /\ step[s] = Len(hist) /\ hist'[n] = fm'[s]
         /\ OrdOK(fm[s], program', result') /\ OrdOK(fm'[s], program', result')
         /\ ProgramOK(program') /\ result' \in Seq(Seq(Field))
         /\ Keeps(fm[s], fm'[s]) /\ fm'[s].matches = Counted(fm[s])
<1>1. /\ hist \in Seq(OrdState) /\ Len(hist) \in Nat
      /\ fm \in [Shards -> OrdState] /\ step \in [Shards -> Nat \ {0}]
      /\ hist' \in Seq(OrdState) /\ Len(hist') \in Nat
  BY DEF IInv, HistOK
<1>2. /\ fm' = [fm EXCEPT ![s] = fm'[s]] /\ step' = [step EXCEPT ![s] = @ + 1]
      /\ hist' = IF step[s] = Len(hist) THEN Append(hist, fm'[s]) ELSE hist
  BY DEF OrderedMove, Ordered
<1>3. /\ step'[s] = step[s] + 1
      /\ \A t \in Shards \ {s} : fm'[t] = fm[t] /\ step'[t] = step[t]
  <2>1. \A t \in Shards \ {s} : fm'[t] = fm[t]
    <3> DEFINE o == fm'[s]
    <3>1. fm' = [fm EXCEPT ![s] = o]
      BY <1>2
    <3> HIDE DEF o
    <3> QED BY <1>1, <3>1
  <2> QED BY <1>1, <1>2, <2>1
<1>4. /\ Grows(hist, hist')
      /\ \A n \in 1..Len(hist') :
           \/ n \in 1..Len(hist)
           \/ n = Len(hist) + 1 /\ step[s] = Len(hist) /\ hist'[n] = fm'[s]
  <2>1. CASE step[s] = Len(hist)
    BY <1>1, <1>2, <2>1 DEF Grows
  <2>2. CASE step[s] # Len(hist)
    BY <1>1, <1>2, <2>2 DEF Grows
  <2> QED BY <2>1, <2>2
<1>5. ProgramOK(program') /\ result' \in Seq(Seq(Field)) /\ ProgramOK(program)
      /\ result \in Seq(Seq(Field))
  BY DEF IInv
<1>6. OrdOK(fm'[s], program', result')
  <2>1. step'[s] \in 1..Len(hist') /\ fm'[s] = hist'[step'[s]]
    BY <1>1 DEF IInv, HistOK
  <2> QED BY <2>1 DEF IInv, HistOK
<1>7. OrdOK(fm[s], program', result')
  <2>1. OrdOK(fm[s], program, result)
    BY CurrentOK
  <2> QED BY <1>5, <2>1, Stable DEF OrderedMove, ProgramOK
<1>8. Keeps(fm[s], fm'[s]) /\ fm'[s].matches = Counted(fm[s])
  BY <1>5, <1>7, SuccOK DEF OrderedMove, Counted
<1> QED BY <1>1, <1>3, <1>4, <1>5, <1>6, <1>7, <1>8

\* What a shard has counted includes the matches it has issued.
LEMMA CountFacts ==
  ASSUME NEW o \in OrdState
  PROVE  o.matches \in Nat /\ Counted(o) \in Nat /\ o.matches <= Counted(o)
PROOF
<1>1. o.matches \in Nat
  BY DEF OrdState
<1> QED
  BY <1>1 DEF Counted

\* The matches are issued at different points of the history, and what a shard
\* offers in one was last held by a store that it has released.
LEMMA HistStep ==
  ASSUME IInv, IInv', NEW s \in Shards, OrderedMove(s), CountsOK, OffersOK,
         \A t \in Shards : released[t] \subseteq released'[t],
         \A t \in Shards \ {s} : offered'[t] = offered[t],
         \/ offered'[s] = offered[s]
         \/ /\ fm[s].ctl = "issue"
            /\ \E S : /\ offered'[s] = Append(offered[s], S)
                      /\ \A f \in S : \E i \in released[s] : LastHolder(fm[s], f, i)
  PROVE  CountsOK' /\ OffersOK'
<1>1. /\ Len(hist) \in Nat /\ Len(hist') \in Nat /\ Grows(hist, hist')
      /\ \A n \in 1..Len(hist') :
           \/ n \in 1..Len(hist)
           \/ n = Len(hist) + 1 /\ step[s] = Len(hist) /\ hist'[n] = fm'[s]
      /\ fm'[s].matches = Counted(fm[s])
      /\ \A t \in Shards \ {s} : fm'[t] = fm[t]
  BY MoveFacts
<1>2. /\ \A n \in 1..Len(hist) : hist[n] \in OrdState
      /\ \A n \in 1..Len(hist') : hist'[n] \in OrdState
      /\ \A t \in Shards : step[t] \in 1..Len(hist) /\ fm[t] = hist[step[t]]
      /\ \A t \in Shards : step'[t] \in 1..Len(hist') /\ fm'[t] = hist'[step'[t]]
  BY DEF IInv, HistOK
<1>3. \A n \in 1..Len(hist) : hist'[n] = hist[n]
  BY <1>1 DEF Grows
<1>4. /\ \A n \in 1..Len(hist) : hist[n].matches \in Nat /\ Counted(hist[n]) \in Nat
                                 /\ hist[n].matches <= Counted(hist[n])
      /\ \A n \in 1..Len(hist') : hist'[n].matches \in Nat /\ Counted(hist'[n]) \in Nat
                                  /\ hist'[n].matches <= Counted(hist'[n])
  BY <1>2, CountFacts
<1>5. ASSUME NEW m \in 1..Len(hist'), NEW n \in 1..Len(hist'), m < n
      PROVE  Counted(hist'[m]) <= hist'[n].matches
  <2>1. CASE n \in 1..Len(hist)
    <3>1. m \in 1..Len(hist)
      BY <1>1, <1>5, <2>1
    <3> QED BY <1>3, <1>5, <2>1, <3>1 DEF CountsOK
  <2>2. CASE n = Len(hist) + 1 /\ step[s] = Len(hist) /\ hist'[n] = fm'[s]
    <3>1. m \in 1..Len(hist)
      BY <1>1, <1>5, <2>2
    <3> DEFINE L == Len(hist)
    <3>2. L \in 1..Len(hist) /\ fm[s] = hist[L]
      BY <1>2, <2>2
    <3>3. Counted(hist[m]) <= Counted(hist[L])
      <4>1. CASE m = L
        BY <1>4, <3>2, <4>1
      <4>2. CASE m < L
        <5>1. Counted(hist[m]) <= hist[L].matches
          BY <3>1, <3>2, <4>2 DEF CountsOK
        <5> QED BY <1>4, <3>1, <3>2, <5>1, SMTT(30)
      <4> QED BY <1>1, <3>1, <4>1, <4>2
    <3> QED BY <1>1, <1>3, <2>2, <3>1, <3>2, <3>3
  <2> QED BY <1>1, <2>1, <2>2
<1>6. CountsOK'
  BY <1>5 DEF CountsOK, Counted
<1>7. ASSUME NEW t \in Shards, NEW m \in 1..Len(offered'[t]), NEW n \in 1..Len(hist'),
             IssuedAt(n, m)', NEW f \in offered'[t][m]
      PROVE  \E i \in released'[t] : LastHolder(hist'[n], f, i)
  <2>0. /\ offered[t] \in Seq(SUBSET Field) /\ Len(offered[t]) \in Nat
        /\ offered'[t] \in Seq(SUBSET Field) /\ Len(offered'[t]) \in Nat
        /\ fm[t].matches = Len(offered[t]) /\ fm'[t].matches = Len(offered'[t])
        /\ m \in Nat
    <3>1. offered[t] \in Seq(SUBSET Field) /\ fm[t].matches = Len(offered[t])
      BY DEF IInv, LocalOK
    <3>2. offered'[t] \in Seq(SUBSET Field) /\ fm'[t].matches = Len(offered'[t])
      BY DEF IInv, LocalOK
    <3> QED BY <3>1, <3>2
  <2>1. hist'[n].ctl = "issue" /\ hist'[n].matches + 1 = m
    BY <1>7 DEF IssuedAt
  <2>2. \* Shard t has gone past the point where it was issued.
        n < step'[t]
    <3>1. fm'[t].matches >= m
      BY <2>0
    <3>2. CASE step'[t] <= n
      <4>1. fm'[t].matches <= hist'[n].matches
        <5>1. CASE step'[t] = n
          BY <1>2, <1>4, <5>1
        <5>2. CASE step'[t] < n
          <6>1. Counted(hist'[step'[t]]) <= hist'[n].matches
            BY <1>2, <1>5, <5>2
          <6> QED BY <1>2, <1>4, <6>1
        <5> QED BY <1>2, <3>2, <5>1, <5>2
      <4>2. hist'[n].matches \in Nat /\ fm'[t].matches \in Nat
        BY <1>4, <2>0
      <4> QED BY <2>0, <2>1, <3>1, <4>1, <4>2
    <3> QED BY <1>2, <3>2
  <2>3. n \in 1..Len(hist) /\ hist'[n] = hist[n]
    BY <1>1, <1>2, <1>3, <2>2
  <2>4. IssuedAt(n, m)
    BY <2>1, <2>3 DEF IssuedAt
  <2>5. CASE m \in 1..Len(offered[t]) /\ offered'[t][m] = offered[t][m]
    <3>1. \E i \in released[t] : LastHolder(hist[n], f, i)
      BY <1>7, <2>3, <2>4, <2>5 DEF OffersOK
    <3> QED BY <2>3, <3>1
  <2>6. CASE ~(m \in 1..Len(offered[t]) /\ offered'[t][m] = offered[t][m])
    <3>1. t = s /\ fm[s].ctl = "issue"
      BY <2>0, <2>6
    <3>2. PICK S : /\ offered'[s] = Append(offered[s], S)
                   /\ \A g \in S : \E i \in released[s] : LastHolder(fm[s], g, i)
      BY <2>6, <3>1
    <3>3. m = Len(offered[s]) + 1 /\ offered'[s][m] = S
      BY <2>0, <2>6, <3>1, <3>2
    <3>4. PICK i \in released[s] : LastHolder(fm[s], f, i)
      BY <1>7, <3>1, <3>2, <3>3
    <3>5. hist[n].matches = fm[s].matches
      <4>1. hist[n].matches \in Nat /\ fm[s].matches \in Nat
        BY <1>4, <2>0, <2>3, <3>1
      <4>2. hist[n].matches + 1 = fm[s].matches + 1
        BY <2>0, <2>1, <2>3, <3>1, <3>3
      <4> QED BY <4>1, <4>2
    <3>6. n = step[s]
      <4>1. step[s] \in 1..Len(hist) /\ fm[s] = hist[step[s]]
        BY <1>2
      <4>2. Counted(hist[n]) = hist[n].matches + 1 /\ Counted(fm[s]) = fm[s].matches + 1
        BY <2>1, <2>3, <3>1 DEF Counted
      <4>3. CASE n < step[s]
        <5>1. Counted(hist[n]) <= hist[step[s]].matches
          BY <2>3, <4>1, <4>3 DEF CountsOK
        <5> QED BY <1>4, <2>3, <3>5, <4>1, <4>2, <5>1
      <4>4. CASE step[s] < n
        <5>1. Counted(hist[step[s]]) <= hist[n].matches
          BY <2>3, <4>1, <4>4 DEF CountsOK
        <5> QED BY <1>4, <2>3, <3>5, <4>1, <4>2, <5>1
      <4> QED BY <2>3, <4>1, <4>3, <4>4
    <3> QED BY <1>2, <2>3, <3>1, <3>4, <3>6
  <2> QED BY <2>5, <2>6
<1>8. OffersOK'
  BY <1>7 DEF OffersOK, LastHolder
<1> QED BY <1>6, <1>8

\* Nothing that the invariant says of another shard is disturbed.
LEMMA OthersOK ==
  ASSUME IInv, IInv', RInv, NEW s \in Shards, OrderedMove(s), OthersKept(s),
         NEW t \in Shards \ {s}
  PROVE  (OwnOK(program, fm[t], Freed(t), released[t]) /\ MatchOK(t))'
<1>1. /\ fm'[t] = fm[t] /\ step'[t] = step[t] /\ Grows(hist, hist')
      /\ Len(hist) \in Nat /\ Len(hist') \in Nat
  BY MoveFacts
<1>2. /\ unordered'[t] = unordered[t] /\ matching'[t] = matching[t]
      /\ offered'[t] = offered[t] /\ released'[t] = released[t]
  BY DEF OthersKept
<1>3. /\ fm[t] \in OrdState /\ fm[t].pc <= Len(program) /\ OrdOK(fm[t], program, result)
      /\ program \in Seq(Stmt) /\ program' \in Seq(Stmt)
      /\ Grows(program, program') /\ Grows(result, result')
      /\ step[t] \in 1..Len(hist)
  BY CurrentOK DEF IInv, HistOK, ProgramOK, OrdOK, OrderedMove
<1>4. OwnOK(program, fm[t], Freed(t), released[t]) /\ MatchOK(t)
  BY DEF RInv
<1>5. OwnOK(program', fm[t], Freed(t), released[t])
  BY <1>3, <1>4, OwnProgram
<1>6. OwnOK(program, fm[t], Freed(t), released[t])'
  BY <1>1, <1>2, <1>5 DEF Freed
<1>7. fm[t].ctl = "free" => result'[fm[t].matches] = result[fm[t].matches]
  <2> SUFFICES ASSUME fm[t].ctl = "free" PROVE result'[fm[t].matches] = result[fm[t].matches]
    OBVIOUS
  <2>1. fm[t].matches \in 1..Len(result)
    BY <1>3 DEF OrdOK, InMatch, OrdState
  <2> QED BY <1>3, <2>1 DEF Grows
<1>8. ASSUME fm[t].outstanding
      PROVE  \E n \in 1..step'[t] : /\ IssuedAt(n, fm[t].matches)'
                                    /\ \A i \in matching'[t] : i <= hist'[n].pc
  <2>1. PICK n \in 1..step[t] : /\ IssuedAt(n, fm[t].matches)
                                /\ \A i \in matching[t] : i <= hist[n].pc
    BY <1>4, <1>8 DEF MatchOK
  <2>2. hist'[n] = hist[n]
    BY <1>1, <1>3 DEF Grows
  <2>3. IssuedAt(n, fm[t].matches)'
    BY <1>1, <2>1, <2>2 DEF IssuedAt
  <2> QED BY <1>1, <1>2, <2>1, <2>2, <2>3
<1>9. MatchOK(t)'
  BY <1>1, <1>2, <1>4, <1>7, <1>8 DEF MatchOK
<1> QED BY <1>6, <1>9

\* The output of a match stays what it is.
LEMMA ResultKept ==
  ASSUME IInv, ResultOK, NEW s \in Shards, UNCHANGED result,
         \A t \in Shards \ {s} : offered'[t] = offered[t],
         offered'[s] = offered[s] \/ \E S : offered'[s] = Append(offered[s], S)
  PROVE  ResultOK'
<1>1. ASSUME NEW t \in Shards
      PROVE  /\ offered[t] \in Seq(SUBSET Field) /\ Len(offered[t]) \in Nat
             /\ Len(offered[t]) <= Len(offered'[t])
             /\ \A m \in 1..Len(offered[t]) : offered'[t][m] = offered[t][m]
  <2>1. offered[t] \in Seq(SUBSET Field)
    BY DEF IInv, LocalOK
  <2>2. CASE offered'[t] = offered[t]
    BY <2>1, <2>2
  <2>3. CASE t = s /\ \E S : offered'[s] = Append(offered[s], S)
    <3>1. PICK S : offered'[s] = Append(offered[s], S)
      BY <2>3
    <3> QED BY <2>1, <2>3, <3>1
  <2> QED BY <2>2, <2>3
<1>2. ASSUME NEW m \in 1..Len(result), NEW t \in Shards
      PROVE  m <= Len(offered'[t]) /\ offered'[t][m] = offered[t][m]
  <2>1. m <= Len(offered[t]) /\ m \in Nat /\ m >= 1
    BY DEF ResultOK, IInv
  <2>2. m \in 1..Len(offered[t])
    BY <1>1, <2>1
  <2>3. Len(offered'[t]) \in Int
    BY <1>1, <2>2
  <2> QED BY <1>1, <2>1, <2>2
<1> QED BY <1>2 DEF ResultOK

\* Two statements that destroy the same store are the same statement.
LEMMA DropUnique ==
  ASSUME NEW a \in Stmt, NEW b \in Stmt, a.op = "drop", b.op = "drop", a.store = b.store
  PROVE  a = b
<1>1. \A c \in Stmt : c.op = "drop" => c \in [op : {"drop"}, store : 1..MaxStmts]
  BY DEF Stmt
<1> QED BY <1>1

\* The statements that may come next keep the program legal.
LEMMA LegalStart ==
  ASSUME IInv, LegalProgram(program), NEW s \in Shards, NEW st \in Menu, Starts(s, st)
  PROVE  LegalProgram(program')
<1> DEFINE L == Len(program)
<1>1. st \in Stmt /\ program \in Seq(Stmt) /\ L \in Nat
  BY MenuAssumption DEF IInv, ProgramOK
<1>2. CASE UNCHANGED program
  BY <1>2
<1>3. CASE Legal(st) /\ program' = Append(program, st)
  <2>1. /\ Len(program') = L + 1 /\ program'[L + 1] = st
        /\ \A j \in 1..L : program'[j] = program[j]
        /\ \A j \in 1..Len(program') : j \in 1..L \/ j = L + 1
        /\ \A j \in 1..L : \A i \in 1..(j-1) : i \in 1..L
        /\ \A i \in 1..((L + 1) - 1) : i \in 1..L
        /\ \A j \in 1..L : program[j] \in Stmt
    BY <1>1, <1>3
  <2>2. \A j \in 1..L : Makes(program', j) <=> Makes(program, j)
    BY <2>1 DEF Makes
  <2>3. \A j \in 1..L : CollectableIn(program', j) <=> CollectableIn(program, j)
    BY <2>1 DEF CollectableIn
  <2>4. ASSUME NEW j \in 1..Len(program'), program'[j].op = "drop"
        PROVE  ~CollectableIn(program', program'[j].store)
    <3>1. CASE j \in 1..L
      <4>1. program[j].store \in 1..(j-1)
        BY <2>1, <2>4, <3>1 DEF IInv, ProgramOK
      <4>2. program[j].store \in 1..L
        BY <2>1, <3>1, <4>1
      <4> QED BY <2>1, <2>3, <2>4, <3>1, <4>2 DEF LegalProgram
    <3>2. CASE j = L + 1
      <4>1. st.op = "drop" /\ st.store \in 1..MaxStmts
        BY <1>1, <2>1, <2>4, <3>2, StmtOK DEF Store
      <4>2. /\ st.store <= L /\ program[st.store].op = "create" /\ ~program[st.store].gc
        BY <1>3, <4>1 DEF Legal
      <4>3. st.store \in 1..L
        BY <1>1, <4>1, <4>2, ConstAssumption
      <4>4. ~CollectableIn(program, st.store)
        BY <4>2 DEF CollectableIn
      <4> QED BY <2>1, <2>3, <3>2, <4>3, <4>4
    <3> QED BY <2>1, <3>1, <3>2
  <2>5. ASSUME NEW j \in 1..Len(program'), NEW i \in 1..(j-1), program'[j].op = "drop"
        PROVE  ~Drops(program', i, program'[j].store)
    <3>1. CASE j \in 1..L
      <4>1. i \in 1..L
        BY <2>1, <3>1
      <4>2. ~Drops(program, i, program[j].store)
        BY <2>1, <2>5, <3>1 DEF LegalProgram
      <4> QED BY <2>1, <3>1, <4>1, <4>2 DEF Drops
    <3>2. CASE j = L + 1
      <4>1. i \in 1..L /\ program'[i] = program[i] /\ program[i] \in Stmt
        BY <2>1, <3>2
      <4>2. st.op = "drop"
        BY <2>1, <2>5, <3>2
      <4>3. program[i] # st
        BY <1>3, <4>1, <4>2 DEF Legal
      <4> QED BY <1>1, <2>1, <3>2, <4>1, <4>2, <4>3, DropUnique DEF Drops
    <3> QED BY <2>1, <3>1, <3>2
  <2>6. ASSUME NEW j \in 1..Len(program'), program'[j].op = "create",
               program'[j].key \notin Keys
        PROVE  \E i \in 1..(j-1) : program'[i].op = "import" /\ program'[i].key = program'[j].key
    <3>1. CASE j \in 1..L
      <4>1. PICK i \in 1..(j-1) : program[i].op = "import" /\ program[i].key = program[j].key
        BY <2>1, <2>6, <3>1 DEF LegalProgram
      <4>2. program'[i] = program[i]
        BY <2>1, <3>1, <4>1
      <4> QED BY <2>1, <3>1, <4>1, <4>2
    <3>2. CASE j = L + 1
      <4>1. st.op = "create" /\ st.key \notin Keys
        BY <2>1, <2>6, <3>2
      <4>2. PICK i \in 1..L : program[i].op = "import" /\ program[i].key = st.key
        BY <1>3, <4>1 DEF Legal, Introduced
      <4>3. i \in 1..(j-1)
        BY <1>1, <3>2, <4>2
      <4> QED BY <2>1, <3>2, <4>2, <4>3
    <3> QED BY <2>1, <3>1, <3>2
  <2>7. ASSUME NEW j \in 1..Len(program'), NEW i \in 1..(j-1), program'[j].op = "import",
               Makes(program', i)
        PROVE  program'[i].key # program'[j].key
    <3>1. CASE j \in 1..L
      <4>1. i \in 1..L
        BY <2>1, <3>1
      <4>2. program[i].key # program[j].key
        BY <2>1, <2>2, <2>7, <3>1, <4>1 DEF LegalProgram
      <4> QED BY <2>1, <3>1, <4>1, <4>2
    <3>2. CASE j = L + 1
      <4>1. i \in 1..L /\ program'[i] = program[i] /\ Makes(program, i)
        BY <2>1, <2>2, <2>7, <3>2
      <4>2. ~Introduced(st.key)
        BY <1>3, <2>1, <2>7, <3>2 DEF Legal
      <4>3. CASE program[i].op = "import"
        BY <2>1, <3>2, <4>1, <4>2, <4>3 DEF Introduced
      <4>4. CASE program[i].op = "create"
        <5>1. CASE program[i].key \in Keys
          BY <2>1, <3>2, <4>1, <4>2, <5>1 DEF Introduced
        <5>2. CASE program[i].key \notin Keys
          <6>1. PICK l \in 1..(i-1) : program[l].op = "import" /\ program[l].key = program[i].key
            BY <4>1, <4>4, <5>2 DEF LegalProgram
          <6>2. l \in 1..L
            BY <2>1, <4>1, <6>1
          <6> QED BY <2>1, <3>2, <4>1, <4>2, <6>1, <6>2 DEF Introduced
        <5> QED BY <5>1, <5>2
      <4> QED BY <4>1, <4>3, <4>4 DEF Makes
    <3> QED BY <2>1, <3>1, <3>2
  <2> QED BY <2>4, <2>5, <2>6, <2>7 DEF LegalProgram
<1> QED BY <1>2, <1>3 DEF Starts

\* A marked store that one shard has let go of was released by all: a step of
\* shard s has to show it of the stores that it lets go of.
LEMMA GoneKept ==
  ASSUME IInv, RInv, NEW s \in Shards, Grows(program, program'), OthersKept(s),
         released[s] \subseteq released'[s],
         \A i \in (released[s] \ Freed(s))' : CollectableIn(program', i) =>
           i \in released[s] \ Freed(s) \/ \A t \in Shards : i \in released'[t]
  PROVE  GoneOK'
<1>1. \A t \in Shards : released[t] \subseteq released'[t]
  BY DEF OthersKept
<1>2. ASSUME NEW u \in Shards, NEW i \in (released[u] \ Freed(u))', CollectableIn(program', i)
      PROVE  \A t \in Shards : i \in released'[t]
  <2>1. i \in released[u] \ Freed(u) \/ \A t \in Shards : i \in released'[t]
    BY <1>2 DEF OthersKept, Freed
  <2>2. CASE i \in released[u] \ Freed(u)
    <3>1. i \in 1..fm[u].pc /\ fm[u].pc \in Nat /\ fm[u].pc <= Len(program) /\ Len(program) \in Nat
      BY <2>2, CurrentOK DEF RInv, OwnOK, OrdOK, OrdState
    <3>2. program'[i] = program[i]
      BY <3>1 DEF Grows
    <3>3. CollectableIn(program, i)
      BY <1>2, <3>2 DEF CollectableIn
    <3> QED BY <1>1, <2>2, <3>3 DEF RInv, GoneOK
  <2> QED BY <2>1, <2>2
<1> QED BY <1>2 DEF GoneOK, Freed

\* A step that neither offers, matches nor gives back.
LEMMA QuietStep ==
  ASSUME IInv, IInv', RInv, NEW s \in Shards, OrderedMove(s), OthersKept(s),
         LegalProgram(program'), ResultOK',
         UNCHANGED <<unordered, matching, offered>>,
         fm[s].ctl \notin {"issue", "free"},
         released[s] \subseteq released'[s],
         \A i \in released'[s] : i \in released[s] \/ ~CollectableIn(program', i),
         OwnOK(program, fm[s], Freed(s), released[s])'
  PROVE  RInv'
<1>1. /\ fm[s] \in OrdState /\ fm'[s] \in OrdState
      /\ ProgramOK(program') /\ result' \in Seq(Seq(Field))
      /\ OrdOK(fm[s], program', result')
      /\ Keeps(fm[s], fm'[s]) /\ fm'[s].matches = fm[s].matches
      /\ step'[s] = step[s] + 1 /\ Grows(hist, hist') /\ Len(hist) \in Nat
      /\ step[s] \in 1..Len(hist)
      /\ IsSucc(fm[s], fm'[s], program', result')
      /\ Grows(program, program')
  <2>1. /\ step[s] \in 1..Len(hist) /\ Len(hist) \in Nat /\ fm[s] \in OrdState
    BY DEF IInv, HistOK
  <2>2. fm'[s] \in OrdState
    BY DEF IInv, HistOK
  <2>3. fm'[s].matches = fm[s].matches
    BY MoveFacts DEF Counted
  <2> QED BY <2>1, <2>2, <2>3, MoveFacts DEF OrderedMove
<1>2. \A t \in Shards : released[t] \subseteq released'[t]
  BY DEF OthersKept
<1>3. CountsOK' /\ OffersOK'
  BY <1>2, HistStep DEF RInv
<1>4. GoneOK'
  <2>1. Freed(s)' = Freed(s)
    BY DEF Freed
  <2> QED BY <1>1, <2>1, GoneKept
<1>5. MatchOK(s)'
  <2>1. MatchOK(s)
    BY DEF RInv
  <2>2. /\ fm'[s].ctl = "issue" => ~fm'[s].outstanding
        /\ (fm'[s].outstanding <=> fm[s].outstanding)
        /\ fm'[s].ctl = "free" => fm[s].ctl = "progress" /\ fm'[s].taken = 0
    BY <1>1, <2>1, SuccMatch DEF MatchOK
  <2>3. \A i \in matching[s] : fm'[s].alloc[i] = fm[s].alloc[i]
    <3>1. matching[s] \subseteq 1..fm[s].pc
      BY DEF RInv, OwnOK, Freed
    <3> QED BY <1>1, <3>1 DEF Keeps
  <2>4. fm[s].outstanding =>
          \A f \in offered[s][fm[s].matches] : \E i \in matching[s] : fm'[s].alloc[i] = f
    BY <2>1, <2>3 DEF MatchOK
  <2>5. ASSUME fm'[s].ctl = "free"
        PROVE  \A n \in fm'[s].taken + 1 .. Len(result'[fm'[s].matches]) :
                 \E i \in matching'[s] : fm'[s].alloc[i] = result'[fm'[s].matches][n]
    <3>1. fm[s].ctl = "progress" /\ fm[s].outstanding
      BY <1>1, <2>2, <2>5 DEF OrdOK, InMatch
    <3>2. fm[s].matches \in 1..Len(result')
      BY <1>1, <3>1 DEF OrdOK, InMatch, OrdState
    <3>3. \A n \in 1..Len(result'[fm[s].matches]) :
            result'[fm[s].matches][n] \in offered[s][fm[s].matches]
      BY <3>2 DEF ResultOK
    <3>4. fm'[s].taken + 1 = 1
      BY <2>2, <2>5
    <3> QED BY <1>1, <2>4, <3>1, <3>3, <3>4
  <2>6. ASSUME fm[s].outstanding
        PROVE  \E n \in 1..step'[s] : /\ IssuedAt(n, fm[s].matches)'
                                      /\ \A i \in matching'[s] : i <= hist'[n].pc
    <3>1. PICK n \in 1..step[s] : /\ IssuedAt(n, fm[s].matches)
                                  /\ \A i \in matching[s] : i <= hist[n].pc
      BY <2>1, <2>6 DEF MatchOK
    <3>2. hist'[n] = hist[n] /\ n \in 1..step'[s]
      BY <1>1 DEF Grows
    <3>3. IssuedAt(n, fm[s].matches)'
      BY <1>1, <3>1, <3>2 DEF IssuedAt
    <3> QED BY <3>1, <3>2, <3>3
  <2> QED BY <1>1, <2>1, <2>2, <2>4, <2>5, <2>6 DEF MatchOK
<1>6. \A t \in Shards \ {s} : (OwnOK(program, fm[t], Freed(t), released[t]) /\ MatchOK(t))'
  BY OthersOK
<1>7. \A t \in Shards : (OwnOK(program, fm[t], Freed(t), released[t]) /\ MatchOK(t))'
  BY <1>5, <1>6
<1> QED BY <1>3, <1>4, <1>7 DEF RInv

-----------------------------------------------------------------------------
(* The steps preserve the invariant.                                       *)

\* Every step of the thread of a shard preserves the first invariant.
LEMMA RunOK == ASSUME IInv, NEW s \in Shards, Run(s) PROVE IInv'
BY BeginCreateOK, BeginImportOK, IssueOK, ReuseOK, BindOK, AwaitMatchOK,
   ProgressOK, FreeMatchedOK, EndProcessOK, DropOK, QueryOK, TaskOK DEF Run

\* What a step of the thread of a shard that takes no field from its owner does.
LEMMA KeepOwners ==
  ASSUME IInv, IInv', RInv, NEW s \in Shards, OrderedMove(s), LegalProgram(program'),
         ~(fm[s].ctl = "idle" /\ program'[fm[s].pc + 1].op = "drop"),
         ~(fm[s].ctl = "free" /\ fm[s].taken < Len(result'[fm[s].matches]))
  PROVE  OwnOK(program', fm'[s], Freed(s), released[s])
<1>1. /\ ProgramOK(program') /\ result' \in Seq(Seq(Field))
      /\ OrdOK(fm[s], program', result')
      /\ IsSucc(fm[s], fm'[s], program', result')
  BY MoveFacts DEF OrderedMove
<1>2. OwnOK(program', fm[s], Freed(s), released[s])
  <2>1. /\ OwnOK(program, fm[s], Freed(s), released[s])
        /\ fm[s] \in OrdState /\ fm[s].pc <= Len(program) /\ program \in Seq(Stmt)
        /\ program' \in Seq(Stmt) /\ Grows(program, program')
    BY <1>1, CurrentOK DEF RInv, OrdOK, ProgramOK, OrderedMove
  <2> QED BY <2>1, OwnProgram
<1> QED BY <1>1, <1>2, OwnSucc

\* A statement other than a destruction starts.
LEMMA StartRInv ==
  ASSUME IInv, RInv, NEW s \in Shards, Run(s), NEW st \in Menu, Starts(s, st),
         st.op # "drop", UNCHANGED <<result, unordered, matching, offered, released>>
  PROVE  RInv'
<1>1. IInv' /\ OrderedMove(s) /\ OthersKept(s)
  BY RunOK, RunMoves, OthersStay
<1>2. LegalProgram(program')
  BY LegalStart DEF RInv
<1>3. fm[s].ctl = "idle" /\ program'[fm[s].pc + 1] = st
  BY StartsOK
<1>4. OwnOK(program', fm'[s], Freed(s), released[s])
  BY <1>1, <1>2, <1>3, KeepOwners
<1>5. OwnOK(program, fm[s], Freed(s), released[s])'
  BY <1>4 DEF Freed
<1>6. ResultOK'
  BY ResultKept DEF RInv
<1> QED BY <1>1, <1>2, <1>3, <1>5, <1>6, QuietStep

\* A step inside a statement that is neither an offer nor a turn of the loop
\* over the output of a match.
LEMMA InsideRInv ==
  ASSUME IInv, RInv, NEW s \in Shards, Run(s), ResultOK',
         fm[s].ctl \notin {"idle", "issue", "free"},
         UNCHANGED <<program, unordered, matching, offered, released>>
  PROVE  RInv'
<1>1. IInv' /\ OrderedMove(s) /\ OthersKept(s)
  BY RunOK, RunMoves, OthersStay
<1>2. LegalProgram(program')
  BY DEF RInv
<1>3. OwnOK(program', fm'[s], Freed(s), released[s])
  BY <1>1, <1>2, KeepOwners
<1>4. OwnOK(program, fm[s], Freed(s), released[s])'
  BY <1>3 DEF Freed
<1> QED BY <1>1, <1>2, <1>4, QuietStep

\* The program destroys a store: its field enters its queue, if its shape is ready.
LEMMA DropRInv == ASSUME IInv, RInv, NEW s \in Shards, Drop(s) PROVE RInv'
<1>1. PICK st \in Menu :
        /\ st.op = "drop" /\ Starts(s, st)
        /\ Ordered(s, Finish(FreeField(fm[s], fm[s].alloc[st.store]), NoField))
        /\ released' = [released EXCEPT ![s] = @ \cup {st.store}]
        /\ UNCHANGED <<result, unordered, matching, offered>>
  BY DEF Drop
<1>2. IInv' /\ OrderedMove(s) /\ OthersKept(s)
  BY RunOK, RunMoves, OthersStay DEF Run
<1>3. LegalProgram(program')
  BY <1>1, LegalStart DEF RInv
<1>4. fm[s].ctl = "idle" /\ program'[fm[s].pc + 1] = st /\ fm[s].pc < Len(program')
  BY <1>1, StartsOK
<1>5. released'[s] = released[s] \cup {st.store}
  BY <1>1 DEF IInv, LocalOK
<1>6. fm'[s] = Finish(FreeField(fm[s], fm[s].alloc[st.store]), NoField)
  BY <1>1, OrderedMoves
<1>7. OwnOK(program, fm[s], Freed(s), released[s])'
  <2>1. ProgramOK(program') /\ OrdOK(fm[s], program', result')
    BY <1>2, MoveFacts
  <2>2. /\ OwnOK(program, fm[s], Freed(s), released[s])
        /\ fm[s] \in OrdState /\ fm[s].pc <= Len(program) /\ program \in Seq(Stmt)
        /\ program' \in Seq(Stmt) /\ Grows(program, program')
    BY <1>2, <2>1, CurrentOK DEF RInv, OrdOK, ProgramOK, OrderedMove
  <2>3. OwnOK(program', fm[s], Freed(s), released[s])
    BY <2>2, OwnProgram
  <2>4. fm[s].pc < Len(program') /\ program'[fm[s].pc + 1].op = "drop"
    BY <1>1, <1>4
  <2>5. OwnOK(program',
              Finish(FreeField(fm[s], fm[s].alloc[program'[fm[s].pc + 1].store]), NoField),
              Freed(s), released[s] \cup {program'[fm[s].pc + 1].store})
    BY <1>3, <2>1, <2>3, <2>4, OwnDrop
  <2>6. OwnOK(program', fm'[s], Freed(s), released[s] \cup {st.store})
    BY <1>4, <1>6, <2>5
  <2> QED BY <1>1, <1>5, <2>6 DEF Freed
<1>8. ~CollectableIn(program', st.store)
  <2>1. fm[s].pc + 1 \in 1..Len(program')
    <3>1. OrdOK(fm[s], program', result') /\ ProgramOK(program')
      BY <1>2, MoveFacts
    <3> QED BY <1>4, <3>1, OrdFacts
  <2> QED BY <1>1, <1>3, <1>4, <2>1 DEF LegalProgram
<1>9. ResultOK'
  BY <1>1, ResultKept DEF RInv
<1>10. \A i \in released'[s] : i \in released[s] \/ ~CollectableIn(program', i)
  BY <1>5, <1>8
<1> QED BY <1>1, <1>2, <1>3, <1>4, <1>5, <1>7, <1>9, <1>10, QuietStep

\* No two stores that a shard has freed locally have the same field.
LEMMA FreedDistinct ==
  ASSUME NEW prog, NEW o \in OrdState, NEW U, NEW R, OwnOK(prog, o, U, R)
  PROVE  \A i, j \in U : i # j => o.alloc[i] # o.alloc[j]
<1> SUFFICES ASSUME NEW i \in U, NEW j \in U, i < j, o.alloc[i] = o.alloc[j]
             PROVE  FALSE
  BY DEF OwnOK, OrdState
<1>1. i \in 1..(j-1) /\ j \in 1..o.pc
  BY DEF OwnOK, OrdState
<1>2. CollectableIn(prog, i) /\ Makes(prog, i) /\ Makes(prog, j)
  BY DEF OwnOK, CollectableIn, Makes
<1>3. Gone(prog, o, U, R, i)
  BY <1>1, <1>2 DEF OwnOK, OnceOK
<1> QED BY <1>2, <1>3 DEF Gone

\* The mark for a statement that made no store is not a field.
LEMMA NoFieldOK == NoField \notin Field
BY DEF Field, NoField

\* A store that is freed locally is the last that held its field.
LEMMA FreedLast ==
  ASSUME NEW prog, NEW res, NEW o, NEW U, NEW R, NEW i \in U,
         ProgramOK(prog), OrdOK(o, prog, res), OwnOK(prog, o, U, R)
  PROVE  LastHolder(o, o.alloc[i], i)
<1>1. /\ o \in OrdState /\ o.pc \in Nat
      /\ \A j \in 1..o.pc : Makes(prog, j) => o.alloc[j] \in Field
  BY OrdFacts
<1>2. i \in 1..o.pc /\ CollectableIn(prog, i) /\ Makes(prog, i)
  BY DEF OwnOK, CollectableIn, Makes
<1>3. ASSUME NEW j \in i+1..o.pc, o.alloc[j] = o.alloc[i]
      PROVE  FALSE
  <2>1. j \in 1..o.pc /\ i \in 1..(j-1)
    BY <1>1, <1>2
  <2>2. Makes(prog, j)
    BY <1>1, <1>2, <1>3, <2>1, NoFieldOK DEF OwnOK, RecordOK
  <2>3. Gone(prog, o, U, R, i)
    BY <1>2, <1>3, <2>1, <2>2 DEF OwnOK, OnceOK
  <2> QED BY <1>2, <2>3 DEF Gone
<1> QED BY <1>2, <1>3 DEF LastHolder

\* All that is freed locally is offered, and each field by its last holder.
LEMMA IssueRInv == ASSUME IInv, RInv, NEW s \in Shards, Issue(s) PROVE RInv'
<1> DEFINE offer == {fm[s].alloc[i] : i \in unordered[s]}
<1>1. /\ fm[s].ctl = "issue"
      /\ Ordered(s, IssueMatch(fm[s], Current(s).op))
      /\ offered' = [offered EXCEPT ![s] = Append(@, offer)]
      /\ matching' = [matching EXCEPT ![s] = unordered[s]]
      /\ unordered' = [unordered EXCEPT ![s] = {}]
      /\ UNCHANGED <<program, result, released>>
  BY DEF Issue
<1>2. IInv' /\ OrderedMove(s) /\ OthersKept(s)
  BY RunOK, RunMoves, OthersStay DEF Run
<1>3. /\ offered'[s] = Append(offered[s], offer) /\ offered[s] \in Seq(SUBSET Field)
      /\ fm[s].matches = Len(offered[s]) /\ fm[s].matches \in Nat
      /\ matching'[s] = unordered[s] /\ unordered'[s] = {}
  BY <1>1 DEF IInv, LocalOK
<1>4. /\ OwnOK(program, fm[s], Freed(s), released[s]) /\ MatchOK(s)
      /\ OrdOK(fm[s], program, result) /\ fm[s] \in OrdState /\ ProgramOK(program)
  BY CurrentOK DEF RInv, OrdOK, IInv
<1>5. matching[s] = {}
  BY <1>1, <1>4 DEF MatchOK
<1>6. Freed(s)' = Freed(s)
  BY <1>3, <1>5 DEF Freed
<1>7. CountsOK' /\ OffersOK'
  <2>1. ASSUME NEW f \in offer
        PROVE  \E i \in released[s] : LastHolder(fm[s], f, i)
    <3>1. PICK i \in unordered[s] : f = fm[s].alloc[i]
      OBVIOUS
    <3>2. i \in Freed(s) /\ i \in released[s]
      BY <1>4 DEF Freed, OwnOK
    <3> QED BY <1>4, <3>1, <3>2, FreedLast
  <2> HIDE DEF offer
  <2>2. /\ \A t \in Shards : released[t] \subseteq released'[t]
        /\ \A t \in Shards \ {s} : offered'[t] = offered[t]
    BY <1>1, <1>2 DEF OthersKept
  <2> QED BY <1>1, <1>2, <1>3, <2>1, <2>2, HistStep DEF RInv
<1>8. GoneOK'
  <2>1. Grows(program, program')
    BY <1>2 DEF OrderedMove
  <2> QED BY <1>1, <1>2, <1>6, <2>1, GoneKept
<1>9. ResultOK'
  BY <1>1, <1>2, <1>3, ResultKept DEF RInv, OthersKept
<1>10. LegalProgram(program')
  BY <1>1 DEF RInv
<1>11. OwnOK(program, fm[s], Freed(s), released[s])'
  <2>1. OwnOK(program', fm'[s], Freed(s), released[s])
    BY <1>1, <1>2, <1>10, KeepOwners
  <2> QED BY <1>1, <1>6, <2>1
<1>12. MatchOK(s)'
  <2>1. /\ ProgramOK(program') /\ result' \in Seq(Seq(Field))
        /\ OrdOK(fm[s], program', result')
        /\ Keeps(fm[s], fm'[s]) /\ fm'[s].matches = fm[s].matches + 1
        /\ step'[s] = step[s] + 1 /\ Grows(hist, hist') /\ Len(hist) \in Nat
        /\ IsSucc(fm[s], fm'[s], program', result')
    BY <1>1, <1>2, MoveFacts DEF OrderedMove, Counted
  <2>2. /\ step[s] \in 1..Len(hist) /\ fm[s] = hist[step[s]]
    BY DEF IInv, HistOK
  <2>3. fm'[s].outstanding /\ fm'[s].ctl \notin {"issue", "free"}
    <3>1. fm'[s].ctl = "issue" => ~fm'[s].outstanding
      BY <1>4, <2>1, SuccMatch DEF MatchOK
    <3>2. fm'[s].outstanding /\ fm'[s].ctl # "free"
      BY <1>1, <1>4, <2>1, SuccMatch DEF MatchOK
    <3> QED BY <3>1, <3>2
  <2>4. \A i \in unordered[s] : fm'[s].alloc[i] = fm[s].alloc[i] /\ i <= fm[s].pc
    <3>1. unordered[s] \subseteq 1..fm[s].pc
      BY <1>4 DEF OwnOK, Freed
    <3> QED BY <1>4, <2>1, <3>1 DEF Keeps, OrdState
  <2>5. offered'[s][fm'[s].matches] = offer
    BY <1>3, <2>1
  <2>6. \A f \in offered'[s][fm'[s].matches] : \E i \in matching'[s] : fm'[s].alloc[i] = f
    BY <1>3, <2>4, <2>5
  <2>7. \E n \in 1..step'[s] : /\ IssuedAt(n, fm[s].matches)'
                               /\ \A i \in matching'[s] : i <= hist'[n].pc
    <3>1. PICK n \in 1..step'[s] : hist'[n] = fm[s]
      BY <2>1, <2>2 DEF Grows
    <3>2. fm'[s].matches = hist'[n].matches + 1 /\ hist'[n].ctl = "issue"
      BY <1>1, <2>1, <3>1
    <3>3. IssuedAt(n, fm[s].matches)'
      BY <3>2 DEF IssuedAt
    <3>4. \A i \in matching'[s] : i <= hist'[n].pc
      BY <1>3, <2>4, <3>1
    <3> QED BY <3>1, <3>3, <3>4
  <2> HIDE DEF offer
  <2> QED BY <1>3, <2>3, <2>6, <2>7 DEF MatchOK
<1>13. \A t \in Shards \ {s} : (OwnOK(program, fm[t], Freed(t), released[t]) /\ MatchOK(t))'
  BY <1>2, OthersOK
<1>14. \A t \in Shards : (OwnOK(program, fm[t], Freed(t), released[t]) /\ MatchOK(t))'
  BY <1>11, <1>12, <1>13
<1> QED BY <1>7, <1>8, <1>9, <1>10, <1>14 DEF RInv

\* The store whose field comes out of a match was released by every shard: what
\* each of them offered is the store that last held the field where the match was
\* issued, and that is one store for all.
LEMMA MatchedEverywhere ==
  ASSUME IInv, RInv, NEW s \in Shards, fm[s].ctl = "free", fm[s].outstanding,
         NEW m, m = fm[s].matches, m \in 1..Len(result),
         NEW l \in 1..Len(result[m]), NEW f \in Field, f = result[m][l],
         NEW i \in matching[s], fm[s].alloc[i] = f
  PROVE  \A t \in Shards : i \in released[t]
<1>1. PICK n \in 1..step[s] : IssuedAt(n, m) /\ \A j \in matching[s] : j <= hist[n].pc
  BY DEF RInv, MatchOK
<1>2. /\ n \in 1..Len(hist) /\ hist[n] \in OrdState /\ fm[s] \in OrdState
      /\ Keeps(hist[n], fm[s])
  <2>1. /\ step[s] \in 1..Len(hist) /\ fm[s] = hist[step[s]] /\ hist \in Seq(OrdState)
    BY DEF IInv, HistOK
  <2>2. n \in 1..Len(hist) /\ n <= step[s]
    BY <2>1
  <2> QED BY <2>1, <2>2 DEF IInv, HistOK
<1>3. /\ OwnOK(program, fm[s], Freed(s), released[s]) /\ i \in Freed(s)
      /\ i \in 1..fm[s].pc /\ CollectableIn(program, i) /\ Makes(program, i)
      /\ i <= hist[n].pc
  <2>1. OwnOK(program, fm[s], Freed(s), released[s]) /\ i \in Freed(s)
    BY DEF RInv, Freed
  <2> QED BY <1>1, <2>1 DEF OwnOK, CollectableIn, Makes
<1>4. hist[n].alloc[i] = f /\ i \in 1..hist[n].pc
  BY <1>2, <1>3 DEF Keeps, OrdState
<1>5. ASSUME NEW t \in Shards PROVE i \in released[t]
  <2>1. m \in 1..Len(offered[t]) /\ f \in offered[t][m]
    <3>1. m <= Len(offered[t]) /\ Len(offered[t]) \in Nat
      BY DEF RInv, ResultOK, IInv, LocalOK
    <3> QED BY <3>1 DEF RInv, ResultOK
  <2>2. PICK j \in released[t] : LastHolder(hist[n], f, j)
    BY <1>1, <1>2, <2>1 DEF RInv, OffersOK
  <2>3. j \in 1..hist[n].pc /\ hist[n].alloc[j] = f /\ ~(j < i)
    BY <1>2, <1>4, <2>2 DEF LastHolder, OrdState
  <2>4. ~(i < j)
    <3> SUFFICES ASSUME i < j PROVE FALSE
      OBVIOUS
    <3>1. fm[s].alloc[j] = f /\ j \in 1..fm[s].pc /\ i \in 1..(j-1)
      BY <1>2, <1>3, <2>3 DEF Keeps, OrdState
    <3>2. Makes(program, j)
      BY <1>3, <3>1, NoFieldOK DEF OwnOK, RecordOK
    <3>3. Gone(program, fm[s], Freed(s), released[s], i)
      BY <1>3, <3>1, <3>2 DEF OwnOK, OnceOK
    <3> QED BY <1>3, <3>3 DEF Gone
  <2>5. i = j
    BY <1>2, <1>3, <2>3, <2>4 DEF OrdState
  <2> QED BY <2>2, <2>5
<1> QED BY <1>5

\* A field that came out of the match enters its queue.
LEMMA FreeMatchedRInv == ASSUME IInv, RInv, NEW s \in Shards, FreeMatched(s) PROVE RInv'
<1> DEFINE m == fm[s].matches
           l == fm[s].taken + 1
           f == result[m][l]
<1>1. /\ fm[s].ctl = "free" /\ fm[s].taken < Len(result[m])
      /\ Ordered(s, FreeItem(fm[s], f))
      /\ matching' = [matching EXCEPT ![s] = {i \in @ : fm[s].alloc[i] # f}]
      /\ UNCHANGED <<program, result, unordered, offered, released>>
  BY DEF FreeMatched, MatchOutput
<1>2. IInv' /\ OrderedMove(s) /\ OthersKept(s)
  BY RunOK, RunMoves, OthersStay DEF Run
<1>3. /\ OwnOK(program, fm[s], Freed(s), released[s]) /\ MatchOK(s)
      /\ OrdOK(fm[s], program, result) /\ fm[s] \in OrdState /\ ProgramOK(program)
      /\ result \in Seq(Seq(Field)) /\ fm[s].outstanding
  BY <1>1, CurrentOK DEF RInv, OrdOK, InMatch, IInv
<1>4. /\ m \in 1..Len(result) /\ m \in Nat /\ result[m] \in Seq(Field)
      /\ l \in 1..Len(result[m]) /\ f \in Field /\ l \in Nat
  <2>1. m \in 1..Len(result) /\ fm[s].taken \in Nat
    BY <1>1, <1>3 DEF OrdOK, OrdState
  <2>2. result[m] \in Seq(Field)
    BY <1>3, <2>1
  <2>3. l \in 1..Len(result[m])
    BY <1>1, <2>1, <2>2
  <2> QED BY <2>1, <2>2, <2>3
<1>5. PICK i \in matching[s] : fm[s].alloc[i] = f
  <2>1. l \in fm[s].taken + 1 .. Len(result[m])
    BY <1>4
  <2>2. \A n \in fm[s].taken + 1 .. Len(result[m]) :
          \E i \in matching[s] : fm[s].alloc[i] = result[m][n]
    BY <1>1, <1>3 DEF MatchOK
  <2> HIDE DEF l
  <2> QED BY <2>1, <2>2
<1>6. fm'[s] = FreeItem(fm[s], f)
  BY <1>1, OrderedMoves
<1>7. /\ fm'[s].ctl = "free" /\ fm'[s].alloc = fm[s].alloc
      /\ fm'[s].matches = m /\ fm'[s].outstanding /\ fm'[s].taken = l
  <2> HIDE DEF f
  <2>1. /\ fm'[s].ctl = fm[s].ctl /\ fm'[s].alloc = fm[s].alloc
        /\ fm'[s].matches = m /\ fm'[s].outstanding = fm[s].outstanding
        /\ fm'[s].taken = l
    <3>1. fm[s] \in OrdState /\ f \in Field
      BY <1>3, <1>4
    <3>2. /\ FreeItem(fm[s], f).ctl = fm[s].ctl /\ FreeItem(fm[s], f).alloc = fm[s].alloc
          /\ FreeItem(fm[s], f).matches = fm[s].matches
          /\ FreeItem(fm[s], f).outstanding = fm[s].outstanding
          /\ FreeItem(fm[s], f).taken = fm[s].taken + 1
      BY <3>1, FreeItemOK
    <3> QED BY <1>6, <3>2
  <2> QED BY <1>1, <1>3, <2>1
<1>8. \A t \in Shards : i \in released[t]
  BY <1>1, <1>3, <1>4, <1>5, MatchedEverywhere
<1>9. ResultOK'
  BY <1>1, <1>2, ResultKept DEF RInv, OthersKept
<1> HIDE DEF m, l, f
<1>10. matching'[s] = matching[s] \ {i}
  <2>1. \A j \in matching[s] : fm[s].alloc[j] = f => j = i
    BY <1>3, <1>5, FreedDistinct DEF Freed
  <2>2. matching'[s] = {j \in matching[s] : fm[s].alloc[j] # f}
    BY <1>1 DEF IInv, LocalOK
  <2> QED BY <1>5, <2>1, <2>2
<1>11. Freed(s)' = Freed(s) \ {i} /\ i \in Freed(s)
  BY <1>1, <1>3, <1>5, <1>10 DEF Freed, MatchOK
<1>12. OwnOK(program, fm[s], Freed(s), released[s])'
  <2>1. OwnOK(program, FreeItem(fm[s], fm[s].alloc[i]), Freed(s) \ {i}, released[s])
    BY <1>3, <1>11, OwnMatched
  <2> QED BY <1>1, <1>5, <1>6, <1>11, <2>1
<1>13. CountsOK' /\ OffersOK'
  BY <1>1, <1>2, HistStep DEF RInv, OthersKept
<1>14. GoneOK'
  <2>1. Grows(program, program') /\ released'[s] = released[s]
    BY <1>1, <1>2 DEF OrderedMove
  <2>2. \A j \in (released[s] \ Freed(s))' : j \in released[s] \ Freed(s) \/ j = i
    BY <1>11, <2>1
  <2> QED BY <1>1, <1>2, <1>8, <2>1, <2>2, GoneKept
<1>15. MatchOK(s)'
  <2>1. unordered'[s] \cap matching'[s] = {}
    BY <1>1, <1>3, <1>10 DEF MatchOK
  <2>2. ASSUME NEW n \in fm'[s].taken + 1 .. Len(result'[fm'[s].matches])
        PROVE  \E j \in matching'[s] : fm'[s].alloc[j] = result'[fm'[s].matches][n]
    <3>1. /\ result'[fm'[s].matches] = result[m] /\ fm'[s].taken + 1 = l + 1
          /\ Len(result[m]) \in Nat
      BY <1>1, <1>4, <1>7
    <3>2. n \in l + 1 .. Len(result[m]) /\ n \in 1..Len(result[m]) /\ n # l
      BY <1>4, <3>1
    <3>3. n \in fm[s].taken + 1 .. Len(result[m])
      BY <1>4, <3>2 DEF l
    <3>4. PICK j \in matching[s] : fm[s].alloc[j] = result[m][n]
      BY <1>1, <1>3, <3>3 DEF MatchOK, m
    <3>5. result[m][n] # f
      BY <1>4, <3>2 DEF RInv, ResultOK, f
    <3> QED BY <1>5, <1>7, <1>10, <3>1, <3>4, <3>5
  <2>3. \E n \in 1..step'[s] : /\ IssuedAt(n, fm[s].matches)'
                               /\ \A j \in matching'[s] : j <= hist'[n].pc
    <3>1. PICK n \in 1..step[s] : /\ IssuedAt(n, m)
                                  /\ \A j \in matching[s] : j <= hist[n].pc
      BY <1>3 DEF MatchOK, m
    <3>2. /\ step'[s] = step[s] + 1 /\ Grows(hist, hist') /\ Len(hist) \in Nat
          /\ step[s] \in 1..Len(hist)
      <4>1. step[s] \in 1..Len(hist)
        BY DEF IInv, HistOK
      <4> QED BY <1>2, <4>1, MoveFacts
    <3>3. hist'[n] = hist[n] /\ n \in 1..step'[s]
      BY <3>2 DEF Grows
    <3>4. IssuedAt(n, fm[s].matches)'
      BY <1>7, <3>1, <3>3 DEF IssuedAt
    <3> QED BY <1>10, <3>1, <3>3, <3>4
  <2> QED BY <1>7, <2>1, <2>2, <2>3 DEF MatchOK
<1>16. \A t \in Shards \ {s} : (OwnOK(program, fm[t], Freed(t), released[t]) /\ MatchOK(t))'
  BY <1>2, OthersOK
<1>17. \A t \in Shards : (OwnOK(program, fm[t], Freed(t), released[t]) /\ MatchOK(t))'
  BY <1>12, <1>15, <1>16
<1>18. LegalProgram(program')
  BY <1>1 DEF RInv
<1> QED BY <1>9, <1>13, <1>14, <1>17, <1>18 DEF RInv

\* What did not come out of the match goes back to the freed stores.
LEMMA EndProcessRInv == ASSUME IInv, RInv, NEW s \in Shards, EndProcess(s) PROVE RInv'
<1>1. /\ fm[s].ctl = "free" /\ fm[s].taken = Len(result[fm[s].matches])
      /\ Ordered(s, EndMatch(fm[s]))
      /\ unordered' = [unordered EXCEPT ![s] = @ \cup matching[s]]
      /\ matching' = [matching EXCEPT ![s] = {}]
      /\ UNCHANGED <<program, result, offered, released>>
  BY DEF EndProcess, MatchOutput
<1>2. IInv' /\ OrderedMove(s) /\ OthersKept(s)
  BY RunOK, RunMoves, OthersStay DEF Run
<1>3. LegalProgram(program') /\ ResultOK' /\ result' = result
  BY <1>1, <1>2, ResultKept DEF RInv, OthersKept
<1>4. unordered'[s] = unordered[s] \cup matching[s] /\ matching'[s] = {}
  BY <1>1 DEF IInv, LocalOK
<1>5. Freed(s)' = Freed(s)
  BY <1>4 DEF Freed
<1>6. OwnOK(program, fm[s], Freed(s), released[s])'
  <2>1. OwnOK(program', fm'[s], Freed(s), released[s])
    BY <1>1, <1>2, <1>3, KeepOwners
  <2> QED BY <1>1, <1>5, <2>1
<1>7. CountsOK' /\ OffersOK'
  BY <1>1, <1>2, HistStep DEF RInv, OthersKept
<1>8. GoneOK'
  <2>1. Grows(program, program')
    BY <1>2 DEF OrderedMove
  <2> QED BY <1>1, <1>2, <1>5, <2>1, GoneKept
<1>9. MatchOK(s)'
  <2>1. /\ ~fm'[s].outstanding /\ fm'[s].ctl # "free"
    <3>1. fm'[s] = EndMatch(fm[s]) /\ fm[s] \in OrdState
      BY <1>1, OrderedMoves, CurrentOK DEF OrdOK
    <3>2. fm'[s].outstanding = FALSE /\ fm'[s].ctl \in {"issue", "reuse"}
      BY <3>1, EndMatchOK DEF OrdState
    <3> QED BY <3>2
  <2> QED BY <1>4, <2>1 DEF MatchOK
<1>10. \A t \in Shards \ {s} : (OwnOK(program, fm[t], Freed(t), released[t]) /\ MatchOK(t))'
  BY <1>2, OthersOK
<1>11. \A t \in Shards : (OwnOK(program, fm[t], Freed(t), released[t]) /\ MatchOK(t))'
  BY <1>6, <1>9, <1>10
<1> QED BY <1>3, <1>7, <1>8, <1>11 DEF RInv

\* The garbage collector takes a store: it is released and freed in one step.
LEMMA CollectRInv == ASSUME IInv, RInv, NEW s \in Shards, Collect(s) PROVE RInv'
<1>1. PICK i \in 1..fm[s].pc :
        /\ CollectableIn(program, i) /\ i \notin released[s]
        /\ released' = [released EXCEPT ![s] = @ \cup {i}]
        /\ unordered' = [unordered EXCEPT ![s] = @ \cup {i}]
        /\ UNCHANGED <<program, result, fm, step, hist, matching, offered>>
  BY DEF Collect, Collectable, CollectableIn
<1>2. OthersKept(s)
  BY OthersStay
<1>3. released'[s] = released[s] \cup {i} /\ unordered'[s] = unordered[s] \cup {i}
  BY <1>1 DEF IInv, LocalOK
<1>4. Freed(s)' = Freed(s) \cup {i}
  BY <1>1, <1>3 DEF Freed
<1>5. OwnOK(program, fm[s], Freed(s), released[s]) /\ MatchOK(s)
  BY DEF RInv
<1>6. OwnOK(program, fm[s], Freed(s), released[s])'
  <2>1. OwnOK(program, fm[s], Freed(s) \cup {i}, released[s] \cup {i})
    BY <1>1, <1>5, OwnCollect
  <2> QED BY <1>1, <1>3, <1>4, <2>1
<1>7. MatchOK(s)'
  <2>1. i \notin matching[s]
    BY <1>1, <1>5 DEF OwnOK, Freed
  <2>2. unordered'[s] \cap matching'[s] = {}
    BY <1>1, <1>3, <1>5, <2>1 DEF MatchOK
  <2> QED BY <1>1, <1>5, <2>2 DEF MatchOK, IssuedAt
<1>8. ASSUME NEW t \in Shards \ {s}
      PROVE  (OwnOK(program, fm[t], Freed(t), released[t]) /\ MatchOK(t))'
  <2>1. OwnOK(program, fm[t], Freed(t), released[t]) /\ MatchOK(t)
    BY DEF RInv
  <2>2. Freed(t)' = Freed(t) /\ released'[t] = released[t] /\ unordered'[t] = unordered[t]
    BY <1>2 DEF Freed, OthersKept
  <2>3. MatchOK(t)'
    BY <1>1, <2>1, <2>2 DEF MatchOK, IssuedAt
  <2> QED BY <1>1, <2>1, <2>2, <2>3
<1>9. \A t \in Shards : released[t] \subseteq released'[t]
  BY <1>2, <1>3 DEF OthersKept
<1>10. OffersOK'
  BY <1>1, <1>9, SMTT(30) DEF RInv, OffersOK, IssuedAt, LastHolder
<1>11. GoneOK'
  <2>1. \A u \in Shards : (released[u] \ Freed(u))' \subseteq released[u] \ Freed(u)
    BY <1>2, <1>3, <1>4 DEF OthersKept, Freed
  <2> QED BY <1>1, <1>9, <2>1 DEF RInv, GoneOK
<1>12. LegalProgram(program') /\ CountsOK' /\ ResultOK'
  BY <1>1 DEF RInv, CountsOK, ResultOK, Counted
<1>13. \A t \in Shards : (OwnOK(program, fm[t], Freed(t), released[t]) /\ MatchOK(t))'
  BY <1>6, <1>7, <1>8
<1> QED BY <1>10, <1>11, <1>12, <1>13 DEF RInv

\* The first shard to get the output of a match fixes its order.
LEMMA AwaitMatchRInv == ASSUME IInv, RInv, NEW s \in Shards, AwaitMatch(s) PROVE RInv'
<1> DEFINE m == fm[s].matches
           S == {f \in offered[s][m] : \A t \in Shards : f \in offered[t][m]}
<1>1. /\ fm[s].ctl = "wait"
      /\ \A t \in Shards : Len(offered[t]) >= m
      /\ \/ UNCHANGED result
         \/ m = Len(result) + 1 /\ \E items \in SetToSeqs(S) : result' = Append(result, items)
      /\ UNCHANGED <<program, unordered, matching, offered, released>>
  BY DEF AwaitMatch
<1>2. /\ result \in Seq(Seq(Field)) /\ Len(result) \in Nat /\ ResultOK
  BY DEF IInv, RInv
<1>3. ResultOK'
  <2>1. CASE UNCHANGED result
    BY <1>1, <2>1, ResultKept DEF RInv
  <2>2. ASSUME m = Len(result) + 1, NEW items \in SetToSeqs(S), result' = Append(result, items)
        PROVE  ResultOK'
    <3>1. m \in 1..Len(offered[s])
      BY <1>1, <1>2, <2>2 DEF IInv, LocalOK
    <3> HIDE DEF m
    <3>2. items \in Seq(Field)
      BY <3>1, MatchResultOK
    <3>3. /\ \A n \in 1..Len(items) : items[n] \in S
          /\ \A n, l \in 1..Len(items) : l # n => items[l] # items[n]
      <4>1. offered[s][m] \in SUBSET Field /\ IsFiniteSet(offered[s][m])
        BY <3>1 DEF IInv, LocalOK
      <4>2. IsFiniteSet(S)
        BY <4>1, FS_Subset
      <4> HIDE DEF S
      <4>3. Cardinality(S) \in Nat
        BY <4>2, FS_CardinalityType
      <4>4. /\ items \in [1..Cardinality(S) -> S]
            /\ \A n, l \in 1..Cardinality(S) : n # l => items[n] # items[l]
        BY <2>2 DEF SetToSeqs, IsInjective
      <4>5. Len(items) = Cardinality(S)
        BY <3>2, <4>3, <4>4
      <4> QED BY <4>4, <4>5
    <3>4. /\ Len(result') = m /\ result'[m] = items
          /\ \A n \in 1..Len(result) : result'[n] = result[n]
      BY <1>2, <2>2, <3>2
    <3>5. \A n \in 1..Len(result') : n = m \/ n \in 1..Len(result)
      BY <1>2, <2>2, <3>4
    <3>6. ASSUME NEW n \in 1..Len(result')
          PROVE  /\ \A t \in Shards : n <= Len(offered'[t])
                 /\ \A l \in 1..Len(result'[n]) :
                      /\ \A t \in Shards : result'[n][l] \in offered'[t][n]
                      /\ \A k \in 1..Len(result'[n]) : k # l => result'[n][k] # result'[n][l]
      <4>1. CASE n \in 1..Len(result)
        BY <1>1, <1>2, <3>4, <4>1 DEF ResultOK
      <4>2. CASE n = m
        <5>1. \A t \in Shards : m <= Len(offered[t])
          BY <1>1, <3>1 DEF IInv, LocalOK
        <5> QED BY <1>1, <3>3, <3>4, <4>2, <5>1
      <4> QED BY <3>5, <4>1, <4>2
    <3> QED BY <3>6 DEF ResultOK
  <2> QED BY <1>1, <2>1, <2>2
<1> QED BY <1>1, <1>3, InsideRInv DEF Run

\* Every step of the thread of a shard preserves the invariant.
LEMMA RunRInv == ASSUME IInv, RInv, NEW s \in Shards, Run(s) PROVE RInv'
<1>1. CASE BeginCreate(s)
  <2>1. PICK st \in Menu : st.op = "create" /\ Starts(s, st)
    BY <1>1 DEF BeginCreate
  <2>2. UNCHANGED <<result, unordered, matching, offered, released>>
    BY <1>1 DEF BeginCreate, local
  <2> QED BY <2>1, <2>2, StartRInv
<1>2. CASE BeginImport(s)
  <2>1. PICK st \in Menu : st.op = "import" /\ Starts(s, st)
    BY <1>2 DEF BeginImport
  <2>2. UNCHANGED <<result, unordered, matching, offered, released>>
    BY <1>2 DEF BeginImport, local
  <2> QED BY <2>1, <2>2, StartRInv
<1>3. CASE Query(s)
  <2>1. PICK st \in Menu : st.op = "query" /\ Starts(s, st)
    BY <1>3 DEF Query
  <2>2. UNCHANGED <<result, unordered, matching, offered, released>>
    BY <1>3 DEF Query, local
  <2> QED BY <2>1, <2>2, StartRInv
<1>4. CASE Task(s)
  <2>1. PICK st \in Menu : st.op = "task" /\ Starts(s, st)
    BY <1>4 DEF Task
  <2>2. UNCHANGED <<result, unordered, matching, offered, released>>
    BY <1>4 DEF Task, local
  <2> QED BY <2>1, <2>2, StartRInv
<1>5. CASE Reuse(s) \/ Bind(s) \/ Progress(s)
  <2>1. /\ fm[s].ctl \notin {"idle", "issue", "free"}
        /\ UNCHANGED <<program, result, unordered, matching, offered, released>>
    BY <1>5 DEF Reuse, Bind, Progress, local
  <2>2. ResultOK'
    BY <2>1, ResultKept DEF RInv
  <2> QED BY <2>1, <2>2, InsideRInv
<1> QED BY <1>1, <1>2, <1>3, <1>4, <1>5, IssueRInv, AwaitMatchRInv, FreeMatchedRInv,
           EndProcessRInv, DropRInv DEF Run

\* At the start no field has an owner.
LEMMA InitRInv == Init => RInv
<1> SUFFICES ASSUME Init PROVE RInv
  OBVIOUS
<1>1. /\ program = <<>> /\ result = <<>> /\ hist = <<InitOrd>> /\ Len(hist) = 1
      /\ \A s \in Shards : /\ fm[s] = InitOrd /\ offered[s] = <<>>
                           /\ unordered[s] = {} /\ matching[s] = {} /\ released[s] = {}
  BY DEF Init
<1>2. /\ InitOrd.pc = 0 /\ InitOrd.ctl = "idle" /\ InitOrd.outstanding = FALSE
      /\ \A k \in AllKeys : InitOrd.free[k] = <<>>
  BY DEF InitOrd
<1>3. LegalProgram(program) /\ CountsOK /\ ResultOK /\ OffersOK /\ GoneOK
  BY <1>1 DEF LegalProgram, CountsOK, ResultOK, OffersOK, GoneOK
<1>4. ASSUME NEW s \in Shards
      PROVE  OwnOK(program, fm[s], Freed(s), released[s]) /\ MatchOK(s)
  <2>1. OwnOK(program, fm[s], Freed(s), released[s])
    BY <1>1, <1>2, <1>4 DEF OwnOK, RecordOK, QueueOK, OnceOK, Freed
  <2>2. MatchOK(s)
    BY <1>1, <1>2, <1>4 DEF MatchOK
  <2> QED BY <2>1, <2>2
<1> QED BY <1>3, <1>4 DEF RInv

\* No step breaks the invariant, the garbage collector's included.
LEMMA NextRInv == IInv /\ RInv /\ [Next]_vars => RInv'
<1> SUFFICES ASSUME IInv, RInv, [Next]_vars PROVE RInv'
  OBVIOUS
<1>1. CASE UNCHANGED vars
  <2>1. /\ program' = program /\ result' = result /\ fm' = fm /\ step' = step
        /\ hist' = hist /\ unordered' = unordered /\ matching' = matching
        /\ offered' = offered /\ released' = released
    BY <1>1 DEF vars
  <2>2. LegalProgram(program') /\ CountsOK' /\ ResultOK'
    BY <2>1 DEF RInv, CountsOK, ResultOK, Counted
  <2>3. OffersOK'
    BY <2>1 DEF RInv, OffersOK, IssuedAt, LastHolder
  <2>4. GoneOK'
    BY <2>1 DEF RInv, GoneOK, Freed
  <2>5. ASSUME NEW s \in Shards
        PROVE  (OwnOK(program, fm[s], Freed(s), released[s]) /\ MatchOK(s))'
    <3>1. OwnOK(program, fm[s], Freed(s), released[s]) /\ MatchOK(s)
      BY DEF RInv
    <3>2. OwnOK(program, fm[s], Freed(s), released[s])'
      BY <2>1, <3>1 DEF Freed
    <3>3. MatchOK(s)'
      BY <2>1, <3>1 DEF MatchOK, IssuedAt
    <3> QED BY <3>2, <3>3
  <2> QED BY <2>2, <2>3, <2>4, <2>5 DEF RInv
<1>2. ASSUME NEW s \in Shards, Run(s) PROVE RInv'
  BY <1>2, RunRInv
<1>3. ASSUME NEW s \in Shards, Collect(s) PROVE RInv'
  BY <1>3, CollectRInv
<1>4. CASE Ended
  BY <1>1, <1>4 DEF Ended
<1> QED BY <1>1, <1>2, <1>3, <1>4 DEF Next

\* Of every reachable state: who owns which field, on every shard.
THEOREM ReuseInvariance == Spec => []RInv
BY InitOK, NextOK, InitRInv, NextRInv, Invariance, PTL DEF Spec

\* The LEGATE_CHECKs of process_outstanding_match_ never fail: the fields that a
\* shard has freed locally are distinct, and each item of the output of a match is
\* one of its own.
THEOREM MatchItems == Spec => []MatchItemsDistinct
<1>1. IInv /\ RInv => MatchItemsDistinct
  <2> SUFFICES ASSUME IInv, RInv, NEW s \in Shards
               PROVE  /\ \A i, j \in Freed(s) : i # j => fm[s].alloc[i] # fm[s].alloc[j]
                      /\ fm[s].ctl = "free" =>
                           \A n \in fm[s].taken + 1 .. Len(result[fm[s].matches]) :
                             \E i \in matching[s] :
                               fm[s].alloc[i] = result[fm[s].matches][n]
    BY DEF MatchItemsDistinct, Freed
  <2>1. fm[s] \in OrdState /\ OwnOK(program, fm[s], Freed(s), released[s]) /\ MatchOK(s)
    BY CurrentOK DEF OrdOK, RInv
  <2>2. \A i, j \in Freed(s) : i # j => fm[s].alloc[i] # fm[s].alloc[j]
    BY <2>1, FreedDistinct
  <2> QED BY <2>1, <2>2 DEF MatchOK
<1> QED BY <1>1, Invariance, ReuseInvariance, PTL

\* A field that allocate_field gives to a second store is held by no shard any
\* more: every shard has released the marked store that had it before.
THEOREM ReuseIsSafe == Spec => []NoReuseWhileHeld
<1>1. IInv /\ RInv => NoReuseWhileHeld
  <2> SUFFICES ASSUME IInv, RInv, NEW s \in Shards, NEW t \in Shards,
                      NEW i \in Store, NEW j \in Store, i < j, j <= fm[s].pc,
                      fm[s].alloc[i] = fm[s].alloc[j], fm[s].alloc[i] # NoField,
                      Collectable(i)
               PROVE  i \in released[t]
    BY DEF NoReuseWhileHeld
  <2>1. /\ fm[s] \in OrdState /\ fm[s].pc \in Nat
        /\ OwnOK(program, fm[s], Freed(s), released[s])
    BY CurrentOK DEF OrdOK, OrdState, RInv
  <2>2. i \in 1..fm[s].pc /\ j \in 1..fm[s].pc /\ i \in 1..(j-1)
    BY <2>1, ConstAssumption DEF Store
  <2>3. Makes(program, i) /\ Makes(program, j)
    BY <2>1, <2>2 DEF OwnOK, RecordOK
  <2>4. CollectableIn(program, i)
    BY DEF Collectable, CollectableIn
  <2>5. Gone(program, fm[s], Freed(s), released[s], i)
    BY <2>1, <2>2, <2>3 DEF OwnOK, OnceOK
  <2>6. i \in released[s] \ Freed(s)
    BY <2>4, <2>5 DEF Gone
  <2> QED BY <2>4, <2>6 DEF RInv, GoneOK
<1> QED BY <1>1, Invariance, ReuseInvariance, PTL

=============================================================================
