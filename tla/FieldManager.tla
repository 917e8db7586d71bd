---------------------------- MODULE FieldManager ----------------------------
(***************************************************************************)
(* ConsensusMatchingFieldManager on every shard of a control-replicated    *)
(* Legate program, with the scheduling window and the part of the region   *)
(* field life cycle that it depends on.                                    *)
(*                                                                         *)
(* All shards run the same top-level program, one statement after another, *)
(* each at its own pace.  What differs between them is when the garbage    *)
(* collector of a shard destroys a store.  The field of such a store may   *)
(* only be reused once every shard has freed it, which the shards find out *)
(* with a consensus match.                                                 *)
(*                                                                         *)
(* A store is named by the number of the statement that made it.  A field  *)
(* is <<k, n>>: the n-th field of the region manager of key k, where a key *)
(* is an (index space, field size) pair.                                   *)
(***************************************************************************)
EXTENDS Naturals, Sequences, FiniteSets, SequencesExt

CONSTANTS
  Shards,          \* the control-replicated copies of the program
  Keys,            \* keys whose shape is ready from the start
  OutKeys,         \* keys of index spaces made by a task with an unbound output
  FieldBytes,      \* FieldBytes[k]: bytes of one field of key k
  FieldReuseFreq,  \* field_reuse_freq(): credit at which a match is due
  FieldReuseSize,  \* field_reuse_size(): bytes worth one unit of credit
  WindowSize,      \* scheduling_window_size()
  MaxStmts,        \* bound on the length of the program
  Menu             \* the statements that programs are made of

AllKeys == Keys \cup OutKeys

ASSUME ConstAssumption ==
  /\ Shards # {} /\ IsFiniteSet(Shards)
  /\ Keys \cap OutKeys = {}
  /\ FieldBytes \in [AllKeys -> Nat]
  /\ FieldReuseFreq \in Nat \ {0}
  /\ FieldReuseSize \in Nat \ {0}
  /\ WindowSize \in Nat \ {0}
  /\ MaxStmts \in Nat

Store   == 1..MaxStmts
Field   == AllKeys \X Nat
NoField == <<>>

(***************************************************************************)
(* Statements of the program.  "create" makes a store, `gc` says that it   *)
(* was marked with allow_out_of_order_destruction, `ext` that it attaches  *)
(* an external allocation.  "import" launches a task whose unbound output  *)
(* becomes the store (destroyed out of order).  "query" asks for the       *)
(* extents of an output, "drop" destroys an in-order store, "task"         *)
(* submits a task.                                                         *)
(***************************************************************************)
Stmt ==
  [op : {"create"}, key : AllKeys, gc : BOOLEAN, ext : BOOLEAN]
    \cup [op : {"import"}, key : OutKeys]
    \cup [op : {"query"}, key : OutKeys]
    \cup [op : {"drop"}, store : 1..MaxStmts]
    \cup [op : {"task"}]

ASSUME MenuAssumption == Menu \subseteq Stmt

VARIABLES
  program,     \* the statements met so far, the same for every shard
  result,      \* result[m]: output of the m-th consensus match, in its order
  fm,          \* fm[s]: what shard s decides from program and result alone
  step,        \* step[s]: number of values fm[s] has had
  hist,        \* history variable: the values taken by the shard that leads
  unordered,   \* unordered_free_fields_, as stores
  matching,    \* info_for_match_items_, as stores
  offered,     \* offered[s][m]: input of shard s to the m-th match
  released,    \* stores whose region field shard s has released
  window,      \* operations_, the scheduling window
  att,         \* attachment of a store: "none", "attached" or "detached"
  pending,     \* stores whose has_pending_detach_ is set
  progressed,  \* progressed[s][p]: unordered detachments emitted by shard s
               \* when it made its p-th call to progress_unordered_operations
  stream       \* ordered calls to Legion, in the order shard s made them

vars == <<program, result, fm, step, hist, unordered, matching, offered,
          released, window, att, pending, progressed, stream>>

-----------------------------------------------------------------------------
(* The part of the field manager that never looks at local information.    *)

InitOrd ==
  [pc |-> 0, ctl |-> "idle", why |-> "reuse",
   alloc |-> [i \in Store |-> NoField],
   free |-> [k \in AllKeys |-> <<>>],
   fresh |-> [k \in AllKeys |-> 0],
   ready |-> Keys,
   counter |-> 0, matches |-> 0, outstanding |-> FALSE, taken |-> 0]

\* calculate_match_credit_: a shape that is not ready counts as the worst case.
MatchCredit(o, k) ==
  IF k \notin o.ready THEN FieldReuseFreq
  ELSE IF FieldBytes[k] > FieldReuseSize
       THEN (FieldBytes[k] + FieldReuseSize - 1) \div FieldReuseSize
       ELSE 1

\* Where allocate_field and import_field go on after maybe_issue_field_match_.
After(op) == IF op = "import" THEN "bind" ELSE "reuse"

\* maybe_issue_field_match_ and the test of issue_field_match.  "wait" is
\* process_outstanding_match_ up to outstanding_match_->wait().
MaybeIssue(o, k, op) ==
  LET c == o.counter + MatchCredit(o, k)
      due == c >= FieldReuseFreq
  IN [o EXCEPT !.counter = c,
               !.ctl = IF ~due THEN After(op)
                       ELSE IF o.outstanding THEN "wait" ELSE "issue",
               !.why = IF due THEN "issue" ELSE @]

\* Mutant: the counter is not reset.
IssueMatchNoReset(o, op) ==
  [o EXCEPT !.matches = @ + 1, !.outstanding = TRUE, !.ctl = After(op)]

\* issue_field_match_, then the reset of the counter in issue_field_match.
IssueMatch(o, op) ==
  [o EXCEPT !.matches = @ + 1, !.outstanding = TRUE, !.counter = 0,
            !.ctl = After(op)]

\* FieldManager::free_field: a field whose shape is not ready is leaked.
FreeField(o, f) ==
  IF f[1] \in o.ready THEN [o EXCEPT !.free[f[1]] = Append(@, f)] ELSE o

\* The statement is over: its field, if any, is on record.
Finish(o, f) ==
  [o EXCEPT !.alloc[o.pc + 1] = f, !.pc = @ + 1, !.ctl = "idle"]

CanReuse(o, k) == k \in o.ready /\ o.free[k] # <<>>

\* allocate_field after maybe_issue_field_match_: reuse, block, or create.
Allocate(o, k) ==
  IF CanReuse(o, k)
  THEN Finish([o EXCEPT !.free[k] = Tail(@)], Head(o.free[k]))
  ELSE IF o.outstanding
  THEN [o EXCEPT !.ctl = "wait", !.why = "reuse"]
  ELSE Finish([o EXCEPT !.fresh[k] = @ + 1], <<k, o.fresh[k]>>)

\* Mutant: the field the region arrived with is not counted.
BindOutputUncounted(o, k) == Finish(o, <<k, 0>>)

\* The tail of import_field: the output region arrives with its first field.
BindOutput(o, k) ==
  Finish([o EXCEPT !.fresh[k] = 1], <<k, 0>>)

\* One turn of the loop of process_outstanding_match_ over the match result.
FreeItem(o, f) == [FreeField(o, f) EXCEPT !.taken = @ + 1]

\* The end of process_outstanding_match_, back to where it was called.
EndMatch(o) == [o EXCEPT !.outstanding = FALSE, !.taken = 0, !.ctl = o.why]

-----------------------------------------------------------------------------
(* The scheduling window.                                                  *)

In(w, name, i) == \E j \in 1..Len(w) : w[j].op = name /\ w[j].store = i

\* Mutant: detach ignores that it is unordered.
EmitsUnordered(s, w, op) ==
  \/ op.op \in {"task", "attach", "discard"}
  \/ /\ op.op = "release"
     /\ att[s][op.store] = "attached" \/ In(w, "attach", op.store)

\* Does launching `op`, one of the operations w, put an ordered call in the
\* Legion stream?  An unordered release does not, and a release has something
\* to detach only if the store was attached.
Emits(s, w, op) ==
  \/ op.op \in {"task", "attach", "discard"}
  \/ /\ op.op = "release" /\ ~op.unordered
     /\ att[s][op.store] = "attached" \/ In(w, "attach", op.store)

Call(op) == IF op.op = "release" THEN [op |-> "detach", field |-> op.field]
            ELSE op

\* The ordered calls of the operations `part`, in their order.
Calls(s, w, part) ==
  LET made[n \in 0..Len(part)] ==
        IF n = 0 THEN <<>>
        ELSE IF Emits(s, w, part[n]) THEN Append(made[n - 1], Call(part[n]))
        ELSE made[n - 1]
  IN made[Len(part)]

\* The attachments of shard s once the operations w are launched.
AttAfter(s, w) ==
  [i \in Store |->
     LET a == IF In(w, "attach", i) THEN "attached" ELSE att[s][i]
     IN IF In(w, "release", i) /\ a = "attached" THEN "detached" ELSE a]

\* deallocate_attachment of a release clears has_pending_detach_.
PendingAfter(s, w, marked) ==
  {i \in pending[s] \cup marked : ~In(w, "release", i)}

\* What shard s does to its window in one step: flush_scheduling_window if
\* `flush`, then `calls` made directly to Legion, then submit(op) for every op
\* of `ops`.  submit launches the whole window when it has grown to WindowSize.
\* `marked` are the stores for which set_has_pending_detach comes first.
WindowStep(s, flush, marked, calls, ops) ==
  LET pre  == IF flush THEN window[s] ELSE <<>>
      todo == (IF flush THEN <<>> ELSE window[s]) \o ops
      cut  == (Len(todo) \div WindowSize) * WindowSize
      out  == SubSeq(todo, 1, cut)
      w    == pre \o out
  IN /\ window' = [window EXCEPT ![s] = SubSeq(todo, cut + 1, Len(todo))]
     /\ stream' = [stream EXCEPT ![s] =
                     @ \o Calls(s, w, pre) \o calls \o Calls(s, w, out)]
     /\ att' = [att EXCEPT ![s] = AttAfter(s, w)]
     /\ pending' = [pending EXCEPT ![s] = PendingAfter(s, w, marked)]

Window(s, flush, calls, ops) == WindowStep(s, flush, {}, calls, ops)

TaskOp(i)          == [op |-> "task", id |-> i]
AttachOp(i, f)     == [op |-> "attach", store |-> i, field |-> f]
ReleaseOp(i, f, u) == [op |-> "release", store |-> i, field |-> f, unordered |-> u]
DiscardOp(f)       == [op |-> "discard", field |-> f]

\* Mutant: release_region_field forgets set_has_pending_detach.
PendingMarkForgotten(s, i) == {}

\* set_has_pending_detach: is there an attachment now?
PendingMark(s, i) == IF att[s][i] = "attached" THEN {i} ELSE {}

\* release_region_field up to free_field: the release is submitted, then `more`.
Release(s, i, u, more) ==
  WindowStep(s, FALSE, PendingMark(s, i), <<>>,
             <<ReleaseOp(i, fm[s].alloc[i], u)>> \o more)

\* What shard s does next is the value o.
Ordered(s, o) ==
  /\ fm' = [fm EXCEPT ![s] = o]
  /\ step' = [step EXCEPT ![s] = @ + 1]
  /\ hist' = IF step[s] = Len(hist) THEN Append(hist, o) ELSE hist

-----------------------------------------------------------------------------
(* Which statements may come next in a program.                            *)

Introduced(k) == k \in Keys
                   \/ \E i \in 1..Len(program) :
                        program[i].op = "import" /\ program[i].key = k

Legal(st) ==
  CASE st.op = "create" -> Introduced(st.key) /\ (st.ext => st.key \in Keys)
    [] st.op = "import" -> ~Introduced(st.key)
    [] st.op = "query"  ->
         /\ Introduced(st.key)
         /\ ~\E i \in 1..Len(program) : program[i] = st
    [] st.op = "drop"   ->
         /\ st.store <= Len(program)
         /\ program[st.store].op = "create" /\ ~program[st.store].gc
         /\ ~\E i \in 1..Len(program) : program[i] = st
    [] st.op = "task"   -> TRUE

\* Shard s is between statements and st is its next one: the shard that leads
\* picks it, the others follow.
Starts(s, st) ==
  /\ fm[s].ctl = "idle"
  /\ \/ /\ fm[s].pc < Len(program)
        /\ st = program[fm[s].pc + 1]
        /\ UNCHANGED program
     \/ /\ fm[s].pc = Len(program) /\ Len(program) < MaxStmts
        /\ Legal(st)
        /\ program' = Append(program, st)

Current(s) == program[fm[s].pc + 1]

\* Stores the garbage collector may destroy.
Collectable(i) == \/ program[i].op = "import"
                  \/ program[i].op = "create" /\ program[i].gc

\* The store of shard s that last held field f.
Holder(s, f) ==
  CHOOSE i \in 1..fm[s].pc :
    /\ fm[s].alloc[i] = f
    /\ \A j \in i+1..fm[s].pc : fm[s].alloc[j] # f

-----------------------------------------------------------------------------
(* Actions of shard s.                                                     *)

local == <<unordered, matching, offered, released, progressed>>

\* Storage(shape, ...) -> create_region_field -> allocate_field, first part.
BeginCreate(s) ==
  \E st \in Menu :
    /\ st.op = "create" /\ Starts(s, st)
    /\ LET o == MaybeIssue(fm[s], st.key, st.op)
       IN /\ Ordered(s, o)
          /\ Window(s, o.ctl = "wait", <<>>, <<>>)
    /\ UNCHANGED <<local, result>>

\* A task with an unbound output flushes the window when it is submitted, and
\* its launch imports the output region.
BeginImport(s) ==
  \E st \in Menu :
    /\ st.op = "import" /\ Starts(s, st)
    /\ Ordered(s, MaybeIssue(fm[s], st.key, st.op))
    /\ Window(s, TRUE, <<TaskOp(fm[s].pc + 1)>>, <<>>)
    /\ UNCHANGED <<local, result>>

\* Mutant: unordered_free_fields_ is not cleared.
IssueNoClear(s) ==
  /\ fm[s].ctl = "issue"
  /\ Ordered(s, IssueMatch(fm[s], Current(s).op))
  /\ offered' = [offered EXCEPT ![s] =
                   Append(@, {fm[s].alloc[i] : i \in unordered[s]})]
  /\ matching' = [matching EXCEPT ![s] = unordered[s]]
  /\ Window(s, FALSE, <<[op |-> "match", id |-> fm[s].matches + 1]>>, <<>>)
  /\ UNCHANGED <<program, result, unordered, released, progressed>>

\* Mutant: a shard with nothing to offer does not take part in the match.
IssueIfAny(s) ==
  /\ fm[s].ctl = "issue"
  /\ Ordered(s, IssueMatch(fm[s], Current(s).op))
  /\ offered' = IF unordered[s] = {} THEN offered
                ELSE [offered EXCEPT ![s] =
                        Append(@, {fm[s].alloc[i] : i \in unordered[s]})]
  /\ matching' = [matching EXCEPT ![s] = unordered[s]]
  /\ unordered' = [unordered EXCEPT ![s] = {}]
  /\ Window(s, FALSE, <<[op |-> "match", id |-> fm[s].matches + 1]>>, <<>>)
  /\ UNCHANGED <<program, result, released, progressed>>

\* issue_field_match_: everything freed here since the last match is offered.
Issue(s) ==
  /\ fm[s].ctl = "issue"
  /\ Ordered(s, IssueMatch(fm[s], Current(s).op))
  /\ offered' = [offered EXCEPT ![s] =
                   Append(@, {fm[s].alloc[i] : i \in unordered[s]})]
  /\ matching' = [matching EXCEPT ![s] = unordered[s]]
  /\ unordered' = [unordered EXCEPT ![s] = {}]
  /\ Window(s, FALSE, <<[op |-> "match", id |-> fm[s].matches + 1]>>, <<>>)
  /\ UNCHANGED <<program, result, released, progressed>>

\* The rest of allocate_field.  deallocate_attachment flushes the window when
\* the detach of the previous life of the field is still pending; a store with
\* an external allocation then submits its Attach.
Reuse(s) ==
  LET st == Current(s)
      o  == Allocate(fm[s], st.key)
      i  == o.pc
      f  == o.alloc[i]
      attach == IF st.ext THEN <<AttachOp(i, f)>> ELSE <<>>
  IN /\ fm[s].ctl = "reuse"
     /\ Ordered(s, o)
     /\ \/ /\ o.ctl = "wait"
           /\ Window(s, TRUE, <<>>, <<>>)
        \/ /\ o.ctl = "idle" /\ CanReuse(fm[s], st.key)
           /\ Window(s, Holder(s, f) \in pending[s], <<>>, attach)
        \/ /\ o.ctl = "idle" /\ ~CanReuse(fm[s], st.key)
           /\ Window(s, FALSE, <<[op |-> "allocate_field", field |-> f]>>, attach)
     /\ UNCHANGED <<program, result, local>>

\* The task's region field is made and becomes the store's.
Bind(s) ==
  /\ fm[s].ctl = "bind"
  /\ Ordered(s, BindOutput(fm[s], Current(s).key))
  /\ UNCHANGED <<program, result, local, window, att, pending, stream>>

\* outstanding_match_->wait() returns once every shard has made its offer; the
\* output is what all of them offered, in one order for all.  The shard goes on
\* to progress_unordered_operations with what it has emitted so far.
AwaitMatch(s) ==
  LET m == fm[s].matches
  IN /\ fm[s].ctl = "wait"
     /\ \A t \in Shards : Len(offered[t]) >= m
     /\ \/ m <= Len(result) /\ UNCHANGED result
        \/ /\ m = Len(result) + 1
           /\ \E items \in SetToSeqs({f \in offered[s][m] :
                                     \A t \in Shards : f \in offered[t][m]}) :
                result' = Append(result, items)
     /\ Ordered(s, [fm[s] EXCEPT !.ctl = "progress"])
     /\ progressed' = [progressed EXCEPT ![s] =
                         Append(@, {i \in Store : att[s][i] = "detached"
                                                   /\ Collectable(i)})]
     /\ Window(s, FALSE, <<[op |-> "progress", id |-> m]>>, <<>>)
     /\ UNCHANGED <<program, unordered, matching, offered, released>>

\* progress_unordered_operations returns once every shard has called it.
Progress(s) ==
  /\ fm[s].ctl = "progress"
  /\ \A t \in Shards : Len(progressed[t]) >= Len(progressed[s])
  /\ Ordered(s, [fm[s] EXCEPT !.ctl = "free"])
  /\ UNCHANGED <<program, result, local, window, att, pending, stream>>

\* Mutant: the loop runs over the input of the match.
MatchInput(s) == SetToSeq(offered[s][fm[s].matches])

\* outstanding_match_->output().
MatchOutput(s) == result[fm[s].matches]

\* A matched field is discarded and enters the ordered queue of its key.
FreeMatched(s) ==
  LET f == MatchOutput(s)[fm[s].taken + 1]
  IN /\ fm[s].ctl = "free" /\ fm[s].taken < Len(MatchOutput(s))
     /\ Ordered(s, FreeItem(fm[s], f))
     /\ matching' = [matching EXCEPT ![s] = {i \in @ : fm[s].alloc[i] # f}]
     /\ Window(s, FALSE, <<>>, <<DiscardOp(f)>>)
     /\ UNCHANGED <<program, result, unordered, offered, released, progressed>>

\* What was not matched goes back to unordered_free_fields_.
EndProcess(s) ==
  /\ fm[s].ctl = "free" /\ fm[s].taken = Len(MatchOutput(s))
  /\ Ordered(s, EndMatch(fm[s]))
  /\ unordered' = [unordered EXCEPT ![s] = @ \cup matching[s]]
  /\ matching' = [matching EXCEPT ![s] = {}]
  /\ UNCHANGED <<program, result, offered, released, progressed,
                 window, att, pending, stream>>

\* A store that is not marked is destroyed by the program: release_region_field
\* submits its release, and free_field its discard.
Drop(s) ==
  \E st \in Menu :
    /\ st.op = "drop" /\ Starts(s, st)
    /\ LET f == fm[s].alloc[st.store]
       IN /\ Ordered(s, Finish(FreeField(fm[s], f), NoField))
          /\ released' = [released EXCEPT ![s] = @ \cup {st.store}]
          /\ Release(s, st.store, FALSE, <<DiscardOp(f)>>)
    /\ UNCHANGED <<result, unordered, matching, offered, progressed>>

\* Shape::extents: the shape of the output becomes ready.
Query(s) ==
  \E st \in Menu :
    /\ st.op = "query" /\ Starts(s, st)
    /\ Ordered(s, Finish([fm[s] EXCEPT !.ready = @ \cup {st.key}], NoField))
    /\ UNCHANGED <<result, local, window, att, pending, stream>>

Task(s) ==
  \E st \in Menu :
    /\ st.op = "task" /\ Starts(s, st)
    /\ Ordered(s, Finish(fm[s], NoField))
    /\ Window(s, FALSE, <<>>, <<TaskOp(fm[s].pc + 1)>>)
    /\ UNCHANGED <<result, local>>

\* Mutant: free_field puts a field that was freed out of order in an ordered queue.
CollectInOrder(s) ==
  \E i \in 1..fm[s].pc :
    /\ fm[s].ctl = "idle"
    /\ Collectable(i) /\ i \notin released[s]
    /\ released' = [released EXCEPT ![s] = @ \cup {i}]
    /\ Ordered(s, FreeField(fm[s], fm[s].alloc[i]))
    /\ Release(s, i, TRUE, <<>>)
    /\ UNCHANGED <<program, result, unordered, matching, offered, progressed>>

\* The garbage collector of shard s destroys a marked store between two
\* statements: its release is submitted and its field is freed locally.
Collect(s) ==
  \E i \in 1..fm[s].pc :
    /\ fm[s].ctl = "idle"
    /\ Collectable(i) /\ i \notin released[s]
    /\ released' = [released EXCEPT ![s] = @ \cup {i}]
    /\ unordered' = [unordered EXCEPT ![s] = @ \cup {i}]
    /\ Release(s, i, TRUE, <<>>)
    /\ UNCHANGED <<program, result, fm, step, hist, matching, offered, progressed>>

\* The program has ended on every shard and nothing is left to collect.
Ended ==
  /\ \A s \in Shards : /\ fm[s].ctl = "idle" /\ fm[s].pc = MaxStmts
                       /\ \A i \in 1..MaxStmts : Collectable(i) => i \in released[s]
  /\ UNCHANGED vars

-----------------------------------------------------------------------------
Init ==
  /\ program = <<>> /\ result = <<>>
  /\ fm = [s \in Shards |-> InitOrd]
  /\ step = [s \in Shards |-> 1] /\ hist = <<InitOrd>>
  /\ unordered = [s \in Shards |-> {}] /\ matching = [s \in Shards |-> {}]
  /\ offered = [s \in Shards |-> <<>>] /\ progressed = [s \in Shards |-> <<>>]
  /\ released = [s \in Shards |-> {}]
  /\ window = [s \in Shards |-> <<>>] /\ stream = [s \in Shards |-> <<>>]
  /\ att = [s \in Shards |-> [i \in Store |-> "none"]]
  /\ pending = [s \in Shards |-> {}]

\* What the thread of shard s does of its own accord.
Run(s) ==
  \/ BeginCreate(s) \/ BeginImport(s) \/ Issue(s) \/ Reuse(s) \/ Bind(s)
  \/ AwaitMatch(s) \/ Progress(s) \/ FreeMatched(s) \/ EndProcess(s) \/ Drop(s) \/ Query(s) \/ Task(s)

Next == (\E s \in Shards : Run(s) \/ Collect(s)) \/ Ended

Spec == Init /\ [][Next]_vars

FairSpec == Spec /\ \A s \in Shards : WF_vars(Run(s))

-----------------------------------------------------------------------------
(* Properties.                                                             *)

OrdState ==
  [pc : Nat, ctl : {"idle", "issue", "wait", "progress", "free", "reuse", "bind"},
   why : {"issue", "reuse"},
   alloc : [Store -> Field \cup {NoField}],
   free : [AllKeys -> Seq(Field)], fresh : [AllKeys -> Nat],
   ready : SUBSET AllKeys,
   counter : Nat, matches : Nat, outstanding : BOOLEAN, taken : Nat]

TypeOK ==
  /\ program \in Seq(Stmt) /\ Len(program) <= MaxStmts
  /\ result \in Seq(Seq(Field))
  /\ fm \in [Shards -> OrdState]
  /\ step \in [Shards -> Nat \ {0}] /\ hist \in Seq(OrdState)
  /\ unordered \in [Shards -> SUBSET Store] /\ matching \in [Shards -> SUBSET Store]
  /\ released \in [Shards -> SUBSET Store] /\ pending \in [Shards -> SUBSET Store]
  /\ offered \in [Shards -> Seq(SUBSET Field)]
  /\ progressed \in [Shards -> Seq(SUBSET Store)]
  /\ att \in [Shards -> [Store -> {"none", "attached", "detached"}]]
  /\ \A s \in Shards :
       /\ fm[s].ctl # "idle" => fm[s].pc < Len(program)
       /\ fm[s].ctl = "idle" => fm[s].counter < FieldReuseFreq
       /\ fm[s].matches = Len(offered[s])

\* Statement i gets the same field on every shard that has executed it, however
\* differently their garbage collectors behave: the shards agree on every reuse.
ReuseAgreement ==
  \A s, t \in Shards : \A i \in Store :
    i <= fm[s].pc /\ i <= fm[t].pc => fm[s].alloc[i] = fm[t].alloc[i]

\* When some shard has given the field of a marked store to a later store, no
\* shard still has the marked one.
NoReuseWhileHeld ==
  \A s, t \in Shards : \A i, j \in Store :
    i < j /\ j <= fm[s].pc /\ fm[s].alloc[i] = fm[s].alloc[j]
      /\ fm[s].alloc[i] # NoField /\ Collectable(i) => i \in released[t]

\* The LEGATE_CHECKs on match items: no two locally freed stores of a shard are
\* the same item, and every item of an output is one of the shard's own.
MatchItemsDistinct ==
  \A s \in Shards :
    /\ \A i, j \in unordered[s] \cup matching[s] :
         i # j => fm[s].alloc[i] # fm[s].alloc[j]
    /\ fm[s].ctl = "free" =>
         \A n \in fm[s].taken + 1 .. Len(result[fm[s].matches]) :
           \E i \in matching[s] : fm[s].alloc[i] = result[fm[s].matches][n]

\* The unordered detachments that the p-th exchange put into the task stream.
Inserted(s, i) ==
  \E p \in 1..Len(progressed[s]) :
    \A t \in Shards : Len(progressed[t]) >= p /\ i \in progressed[t][p]

\* A field in an ordered queue can be waited for: its detach was emitted, and is
\* in the task stream if it was unordered, or is known to be still pending.
ReusableIsDetached ==
  \A s \in Shards : \A k \in AllKeys : \A n \in 1..Len(fm[s].free[k]) :
    LET i == Holder(s, fm[s].free[k][n])
    IN /\ att[s][i] = "attached" => i \in pending[s]
       /\ att[s][i] = "detached" /\ Collectable(i) => Inserted(s, i)

\* Legion never sees a field attached by two lives of it at a time.
OneAttachment ==
  \A s \in Shards : \A i, j \in Store :
    /\ i < j /\ j <= fm[s].pc /\ fm[s].alloc[i] = fm[s].alloc[j]
    /\ att[s][j] # "none"
    => \/ att[s][i] = "none"
       \/ att[s][i] = "detached" /\ (Collectable(i) => Inserted(s, i))

\* Every shard makes the same ordered calls to Legion in the same order.
ControlDeterminism ==
  \A s, t \in Shards : IsPrefix(stream[s], stream[t]) \/ IsPrefix(stream[t], stream[s])

\* A shard that blocks on a match goes on eventually.
MatchesComplete ==
  \A s \in Shards : (fm[s].ctl \in {"wait", "progress"}) ~> (fm[s].ctl = "idle")

=============================================================================
