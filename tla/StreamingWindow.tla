--------------------------- MODULE StreamingWindow ---------------------------
(***************************************************************************)
(* The scheduling window of the runtime under streaming scopes: one thread  *)
(* submits operations, opens and closes scopes and drops stores; a flush    *)
(* launches the window as it is, or cut into prefixes that stream as one    *)
(* generation, or throws and clears it.                                     *)
(*                                                                          *)
(* A call of the program is a stack of items, the running one in front: a   *)
(* launch may submit and flush again in the middle of a flush (the          *)
(* destructor of an operation frees stores).                                *)
(***************************************************************************)
EXTENDS Naturals, FiniteSets, Sequences, SequencesExt

CONSTANTS
  Fields,      \* region fields; one backs one store at a time
  Scalars,     \* fields of stores with volume 1
  Unbound,     \* fields that exist only after the task that writes them
  Attached,    \* fields whose store is attached to an allocation
  Tasks,       \* the operations the program may submit
  Policies,    \* the parallel policies it may open scopes with
  WindowSize,  \* scheduling_window_size outside of streaming scopes
  Freq,        \* field_reuse_freq; 0 on a single rank, where nothing matches
  MaxCalls     \* bound on the calls of the program

ASSUME WindowAssumption ==
  /\ Scalars \cup Unbound \cup Attached \subseteq Fields
  /\ IsFiniteSet(Fields)
  /\ WindowSize \in Nat \ {0} /\ Freq \in Nat /\ MaxCalls \in Nat

Modes == {"off", "relaxed", "strict"}
Off == [mode |-> "off", od |-> 1]
ASSUME PolicyAssumption == Policies \subseteq [mode : Modes, od : Nat \ {0}]

VARIABLES
  scopes,       \* parallel policies, the current one last
  window,       \* operations_
  stack,        \* what the current call still has to do
  exc,          \* "none", why an exception is in flight, or how the run died
  alive,        \* fields whose store the program still holds
  region,       \* fields whose region exists
  life,         \* how many stores each field has backed: its storage id
  att,          \* attachment of each field: "none", "attached", "pending" detach
  key,          \* key partition of each storage that has one
  wr,           \* last writer of each field in program order
  mem,          \* last launched writer of each field, 0 if discarded
  log,          \* what was launched, in order
  gens,         \* streaming_generation
  outstanding,  \* a consensus match is outstanding
  credit,       \* field_match_counter_
  ids,          \* operations created
  calls         \* calls of the program

progVars == <<alive, life, wr>>
dataVars == <<region, att, key, mem>>
matchVars == <<outstanding, credit>>
vars == <<scopes, window, stack, exc, alive, region, life, att, key, wr,
          mem, log, gens, outstanding, credit, ids, calls>>

-----------------------------------------------------------------------------
(* Operations *)

NoKey == [od |-> 0, part |-> "none"]
NoStrategy == [ld |-> "unset", part |-> <<>>]

\* An operation that accesses nothing.
Plain(kind) ==
  [kind |-> kind, in |-> {}, out |-> {}, red |-> {}, ld |-> "none",
   part |-> <<>>, flush |-> FALSE, field |-> "none", id |-> 0, life |-> <<>>,
   src |-> <<>>, od |-> 1, drop |-> {}, gen |-> 0, size |-> 0,
   checked |-> NoStrategy]

Touched(op) == op.in \cup op.out \cup op.red

\* Unbound outputs are made by the operation; they are aligned with none of its
\* other stores (Alignment::validate).
Made(op) == op.out \cap Unbound
Aligned(op) == Touched(op) \ Made(op)

\* The storage in which op finds f; f may back another one by now.
Storage(op, f) == <<f, op.life[f]>>

\* An operation as the program gives it
Given(op) == [Plain(op.kind) EXCEPT !.in = op.in, !.out = op.out, !.red = op.red,
                                    !.ld = op.ld, !.part = op.part, !.flush = op.flush]

ASSUME TasksAssumption ==
  \A t \in Tasks :
    /\ t = Given(t) /\ t.kind \in {"auto", "manual", "copy", "fill"}
    /\ Touched(t) \subseteq Fields
    /\ t.kind = "manual" => t.ld \in {"one", "index"}
    \* what a manual task makes has a placeholder as its partition; copies and
    \* fills refuse unbound stores
    /\ t.kind = "manual" => \A f \in Made(t) : t.part[f] = "opaque"
    /\ t.kind \in {"copy", "fill"} => Made(t) = {}
    \* aligned stores have one shape
    /\ t.kind # "manual" => Touched(t) \cap Scalars \in {{}, Touched(t)}

IsTask(op) == op.kind \in {"auto", "manual"}

\* needs_partitioning and supports_streaming
Streams(op) == \/ op.kind \in {"auto", "copy", "fill", "manual", "discard"}
               \/ op.kind = "release" /\ op.field \notin Attached

\* A store finds its key partition again under the policy it was set under;
\* its storage, which does not know of over-decomposition, under the default.
Keyed(op, keys) ==
  {f \in Aligned(op) : /\ Storage(op, f) \in DOMAIN keys
                       /\ keys[Storage(op, f)] # NoKey
                       /\ op.od \in {keys[Storage(op, f)].od, 1}}

\* The auto-partitioner's tiles are smaller when a policy over-decomposes.
Tiles(od) == IF od = 1 THEN "tiles" ELSE "small tiles"

\* Stores of one size are sorted by access mode, and stably; let all operations have
\* them as arguments in one order.
Position == CHOOSE p \in [Fields -> 1..Cardinality(Fields)] :
           \A f, g \in Fields : p[f] = p[g] => f = g
AccessMode(op, f) == IF f \in op.out THEN 2 ELSE IF f \in op.red THEN 1 ELSE 0
SortedBefore(op, f, g) ==
  \/ AccessMode(op, f) > AccessMode(op, g)
  \/ AccessMode(op, f) = AccessMode(op, g) /\ Position[f] <= Position[g]

\* The aligned stores of an operation take the key partition of the first one
\* that has one, else a fresh one.
KeyField(op, keys) ==
  CHOOSE f \in Keyed(op, keys) : \A g \in Keyed(op, keys) : SortedBefore(op, f, g)
How(op, keys) ==
  IF Keyed(op, keys) # {} THEN keys[Storage(op, KeyField(op, keys))].part
  ELSE IF Aligned(op) \subseteq Scalars THEN "whole" ELSE Tiles(op.od)

\* The launch domain comes from the partition of the aligned stores; without
\* one the launch is sequential.
LaunchedBy(how) ==
  CASE how = "whole" -> "none" [] how = "single" -> "one" [] OTHER -> "index"

\* A store that op makes has a placeholder from then on, equal to no partition,
\* unless the launch is sequential.
PartitionOf(op, how, f) ==
  IF f \in Made(op) /\ LaunchedBy(how) # "none" THEN "opaque" ELSE how

PartitionStores(op, keys) ==
  [ld   |-> LaunchedBy(How(op, keys)),
   part |-> [f \in Touched(op) |-> PartitionOf(op, How(op, keys), f)]]

Strategy(op, keys) ==
  CASE op.kind \in {"auto", "copy", "fill"} -> PartitionStores(op, keys)
    [] op.kind = "manual" -> [ld |-> op.ld, part |-> op.part]
    [] OTHER -> NoStrategy

-----------------------------------------------------------------------------
(* Discards: forward_propagate_discards and prune_handled_discard_ops *)

\* The last task before i that touches f, or 0.
LastTask(w, i, f) ==
  LET ts == {j \in 1..(i - 1) : IsTask(w[j]) /\ f \in Touched(w[j])}
  IN IF ts = {} THEN 0 ELSE Max(ts)

\* Fields that a discard behind i waits to hand over to a task at or before i.
Waiting(w, i) ==
  {f \in Fields : \E k \in (i + 1)..Len(w) :
     /\ w[k].kind = "discard" /\ w[k].field = f
     /\ LastTask(w, k, f) <= i}

\* Discards that are recorded (the last of several) and find a task.
Handled(w) ==
  {i \in DOMAIN w : /\ w[i].kind = "discard"
                    /\ w[i].field \notin Waiting(w, i)
                    /\ LastTask(w, i, w[i].field) # 0}

\* Mutant: a discard goes to the first task that touches the field.
HandedToFirst(w, i) ==
  {w[d].field : d \in {e \in Handled(w) :
     i = Min({j \in 1..(e - 1) : /\ IsTask(w[j])
                                 /\ w[e].field \in Touched(w[j])})}}

\* What the task at i discards when it is done.
HandedTo(w, i) ==
  {w[d].field : d \in {e \in Handled(w) : LastTask(w, e, w[e].field) = i}}

\* The numbers of S in ascending order
InOrder(S) ==
  [j \in 1..Cardinality(S) |-> CHOOSE i \in S : Cardinality({k \in S : k <= i}) = j]

PropagateDiscards(w) ==
  LET kept == InOrder(DOMAIN w \ Handled(w))
  IN [j \in DOMAIN kept |-> [w[kept[j]] EXCEPT !.drop = HandedTo(w, kept[j])]]

\* Tasks have inputs, outputs and reductions, in this order.
Argument(op, f) == IF f \in op.in THEN 0 ELSE IF f \in op.out THEN 1 ELSE 2
ArgumentsBefore(op, f) ==
  {g \in Touched(op) : \/ Argument(op, g) < Argument(op, f)
                       \/ Argument(op, g) = Argument(op, f) /\ Position[g] < Position[f]}

\* The scan asks a task for the region of its first argument, and of the
\* following ones as long as a discard waits.
Scanned(w, i, f) ==
  LET before == ArgumentsBefore(w[i], f)
  IN before = {} \/ ~(Waiting(w, i) \subseteq before)

NoRegion(w) ==
  \E i \in DOMAIN w : IsTask(w[i]) /\ \E f \in Touched(w[i]) \ region : Scanned(w, i, f)

-----------------------------------------------------------------------------
(* The streamable prefix *)

NoAccess == [mode |-> "none", part |-> "none"]

\* Tilings are compared; other partitions never equal anything.
SamePart(p, q) == p = q /\ p \notin {"image", "opaque"}

\* Mutant: a read is not compared with the accesses before it.
InOkUnchecked(last, p, f, ld) ==
  \/ last.mode # "REDUCE"
  \/ f \in Scalars /\ ld = "one"

\* Mutant: a read after a reduction is fine if the partitions agree.
InOkAfterReduce(last, p, f, ld) == last.mode = "none" \/ SamePart(last.part, p)

InOk(last, p, f, ld) ==
  \/ last.mode = "none"
  \/ last.mode \in {"READ", "WRITE"} /\ SamePart(last.part, p)
  \/ last.mode = "REDUCE" /\ f \in Scalars /\ ld = "one"

\* analyze_outputs_ and analyze_reductions_ compare alike.
OutOk(last, p) ==
  \/ last.mode = "none"
  \/ last.mode \in {"READ", "WRITE"} /\ SamePart(last.part, p)

\* DependencyChecker: accesses are recorded per storage.
Recorded(last, op, s, set, mode) ==
  [x \in DOMAIN last |->
     IF \E f \in set : x = Storage(op, f)
     THEN IF mode = "READ" /\ last[x].mode = "REDUCE" THEN last[x]
          ELSE [mode |-> mode, part |-> s.part[x[1]]]
     ELSE last[x]]

DependencyStep(last, op, s) ==
  LET l1 == Recorded(last, op, s, op.in, "READ")
      l2 == Recorded(l1, op, s, op.out, "WRITE")
      l3 == Recorded(l2, op, s, op.red, "REDUCE")
  IN [ok   |-> /\ \A f \in op.in : InOk(last[Storage(op, f)], s.part[f], f, s.ld)
               /\ \A f \in op.out : OutOk(l1[Storage(op, f)], s.part[f])
               /\ \A f \in op.red : OutOk(l2[Storage(op, f)], s.part[f]),
      last |-> l3]

\* LaunchDomainEquality: a single task on scalars alone does not count.
Bypasses(op, s) == s.ld = "one" /\ op.red = {} /\ op.in \cup op.out \subseteq Scalars

Disallowed(op) == op.flush \/ ~Streams(op)

\* One more operation of the window: c.ok says that all so far may stream.
CheckOp(c, op) ==
  LET s == Strategy(op, key)
      d == IF s = NoStrategy THEN [ok |-> TRUE, last |-> c.last]
           ELSE DependencyStep(c.last, op, s)
      counts == s # NoStrategy /\ ~Bypasses(op, s)
      ok == /\ c.ok /\ ~Disallowed(op) /\ d.ok
            /\ ~counts \/ c.ld \in {"unset", s.ld}
  IN IF ok THEN [ok |-> TRUE, last |-> d.last, ld |-> IF counts THEN s.ld ELSE c.ld]
     ELSE [c EXCEPT !.ok = FALSE]

\* The state of the check after each operation of w
PrefixChecks(w) ==
  LET start == [ok |-> TRUE, ld |-> "unset",
                last |-> [x \in UNION {{Storage(w[i], f) : f \in Touched(w[i])}
                                          : i \in DOMAIN w} |-> NoAccess]]
      checks[n \in 0..Len(w)] == IF n = 0 THEN start ELSE CheckOp(checks[n - 1], w[n])
  IN checks

StreamableLen(w) ==
  LET checks == PrefixChecks(w) IN Cardinality({n \in DOMAIN w : checks[n].ok})

\* The first operation is taken in any case, and a mapping fence that ends
\* the run goes with it.
PrefixLen(w) ==
  LET n == StreamableLen(w) IN
  IF n < Len(w) /\ (n = 0 \/ w[n + 1].kind = "fence") THEN n + 1 ELSE n

\* Mutant: the operation that failed the check is taken out and forgotten.
RemainderLost(n) == SubSeq(window, n + 2, Len(window))

Remainder(n) == SubSeq(window, n + 1, Len(window))

\* Mutant: no fence behind a prefix that the window size or a check cut off.
FencedAsIs(ops) == ops

Fenced(ops) ==
  IF Last(ops).kind = "fence" THEN ops
  ELSE Append(ops, [Plain("fence") EXCEPT !.id = ids + 1])

\* is_singleton_task cannot tell for an auto task.
IsSingleton(op) == op.kind = "manual" /\ op.ld = "one"

\* Mutant: every task of the run counts.
CountedAll(ops) == {i \in DOMAIN ops : IsTask(ops[i])}

\* The tasks of a run that make its generation.
Counted(ops) == {i \in DOMAIN ops : IsTask(ops[i]) /\ ~IsSingleton(ops[i])}

\* process_streaming_run
Assigned(ops) ==
  [i \in DOMAIN ops |->
     LET op == [ops[i] EXCEPT !.checked = Strategy(ops[i], key)] IN
     IF i \in Counted(ops)
     THEN [op EXCEPT !.gen = gens + 1, !.size = Cardinality(Counted(ops))]
     ELSE op]

-----------------------------------------------------------------------------
(* Calls *)

Policy == Last(scopes)
Streaming(p) == p.mode # "off"

\* Inside of a streaming scope the window grows to 1024, which no run reaches.
TooBig(w) == /\ \A i \in DOMAIN scopes : ~Streaming(scopes[i])
             /\ Len(w) >= WindowSize

Item(c) == [c |-> c, op |-> Plain("none"), n |-> 0, pol |-> Off, ops |-> <<>>,
            by |-> "none", field |-> "none"]
Submit(op) == [Item("submit") EXCEPT !.op = op]
Flush(by) == [Item("flush") EXCEPT !.by = by]
ForField(c, f) == [Item(c) EXCEPT !.field = f]

Top == Head(stack)
Rest == Tail(stack)
At(c) == stack # <<>> /\ Top.c = c
Deaths == {"terminated", "no region", "not detached"}
Idle == stack = <<>> /\ exc \notin Deaths

\* Runs free fields by a release and, when ordered, a discard.
FreeCalls(f) ==
  <<Submit([Plain("release") EXCEPT !.field = f]),
    Submit([Plain("discard") EXCEPT !.field = f])>>

\* One field after the other
FreeAll(set) ==
  LET fs == SetToSeq(set)
  IN [i \in 1..(2 * Cardinality(set)) |-> FreeCalls(fs[(i + 1) \div 2])[2 - (i % 2)]]

\* trigger_exchange_side_effects behind its checks
Exchange(new, old) ==
  IF new = old THEN <<>>
  ELSE (IF Streaming(new) \/ Streaming(old)
        THEN <<Submit(Plain("fence")), Item("match")>> ELSE <<>>)
       \o <<Flush("scope")>>

Leave == Item("leave")
EndCalls(cur, outer) == Append(Exchange(outer, cur), Leave)

\* An exception unwinds the call.  A scope that was beginning is entered and
\* then ended, one that was ending restores the policy.
Unwound(items) ==
  LET enters == {i \in DOMAIN items : items[i].c = "enter"}
      e == items[CHOOSE i \in enters : TRUE]
  IN IF enters # {} THEN <<e>> \o EndCalls(e.pol, Policy)
     ELSE IF \E i \in DOMAIN items : items[i].c = "leave" THEN <<Leave>> ELSE <<>>

\* Mutant: the exception leaves the window as it is.
KeptOnThrow == window

\* clear_scheduling_window
ClearedOnThrow == <<>>

\* Throw clears the window.  A second exception terminates.
Throw(why, items) ==
  /\ window' = ClearedOnThrow
  /\ exc' = IF exc = "none" THEN why ELSE "terminated"
  /\ stack' = IF exc = "none" THEN Unwound(items) ELSE <<>>
  /\ wr' = mem

Abort(why) == exc' = why /\ stack' = <<>>

-----------------------------------------------------------------------------
(* Steps of a call *)

\* Mutant: what was submitted is queued in front.
QueuedInFront(op) == <<op>> \o window

Queued(op) == Append(window, op)

DoSubmit ==
  LET op == IF Top.op.id # 0 THEN Top.op ELSE [Top.op EXCEPT !.id = ids + 1]
  IN /\ At("submit")
     /\ ids' = Max({ids, op.id})
     /\ window' = Queued(op)
     /\ stack' = (IF op.flush \/ TooBig(window') THEN <<Flush("op")>> ELSE <<>>) \o Rest
     /\ UNCHANGED <<scopes, exc, progVars, dataVars, log, gens, matchVars, calls>>

\* flush_scheduling_window up to its loop
DoFlush ==
  /\ At("flush")
  /\ IF ~Streaming(Policy)
     THEN /\ stack' = <<[Item("run") EXCEPT !.n = Len(window)]>> \o Rest
          /\ UNCHANGED <<window, exc, wr>>
     ELSE IF Policy.mode = "strict" /\ Top.by # "scope"
     THEN Throw(Top.by, Rest)
     ELSE IF NoRegion(window)
     THEN Abort("no region") /\ UNCHANGED <<window, wr>>
     ELSE /\ window' = PropagateDiscards(window)
          /\ stack' = <<Item("stream")>> \o Rest
          /\ UNCHANGED <<exc, wr>>
  /\ UNCHANGED <<scopes, alive, life, dataVars, log, gens, matchVars, ids, calls>>

\* Mutant: a strict scope launches its first prefix before it finds out.
ExtractAnyway ==
  LET n == PrefixLen(window) IN
  /\ At("stream") /\ Top.ops = <<>> /\ window # <<>>
  /\ LET ops == Fenced(SubSeq(window, 1, n))
     IN /\ stack' = <<[Top EXCEPT !.ops = Assigned(ops)]>> \o Rest
        /\ ids' = Max({ids, Last(ops).id})
        /\ gens' = gens + 1
  /\ window' = Remainder(n)
  /\ UNCHANGED <<exc, wr, scopes, alive, life, dataVars, log, matchVars, calls>>

\* extract_streamable_prefix; the exception of a strict scope is caught,
\* clears the window and goes on.
Extract ==
  LET n == PrefixLen(window) IN
  /\ At("stream") /\ Top.ops = <<>> /\ window # <<>>
  /\ IF Policy.mode = "strict" /\ n < Len(window)
     THEN Throw("not streamable", Rest) /\ UNCHANGED <<ids, gens>>
     ELSE /\ LET ops == Fenced(SubSeq(window, 1, n))
             IN /\ stack' = <<[Top EXCEPT !.ops = Assigned(ops)]>> \o Rest
                /\ ids' = Max({ids, Last(ops).id})
                /\ gens' = gens + 1
          /\ window' = Remainder(n)
          /\ UNCHANGED <<exc, wr>>
  /\ UNCHANGED <<scopes, alive, life, dataVars, log, matchVars, calls>>

\* How Legion gets the operation: an index launch or a single task.
Form(op, s) == IF ~IsTask(op) THEN op.kind
               ELSE IF s.ld = "index" THEN "index" ELSE "single"

Access(op, s, mode, set) ==
  {[field |-> f, life |-> op.life[f], mode |-> mode, part |-> s.part[f]] : f \in set}

\* What attaches, detaches and discards do concerns a whole field.
Fielded(op) == op.out \cup (IF \/ op.kind = "discard"
                               \/ op.kind = "release" /\ att[op.field] = "pending"
                            THEN {op.field} ELSE {})

Entry(op, s) ==
  [id |-> op.id, form |-> Form(op, s), gen |-> op.gen, size |-> op.size,
   od |-> op.od,
   access |-> IF s = NoStrategy
              THEN {[field |-> f, life |-> life[f], mode |-> "WRITE",
                     part |-> "whole"] : f \in Fielded(op)}
              ELSE Access(op, s, "READ", op.in) \cup Access(op, s, "WRITE", op.out)
                     \cup Access(op, s, "REDUCE", op.red),
   fresh |-> \A f \in op.in \cup op.red : mem[f] = op.src[f],
   same |-> op.checked \in {NoStrategy, s}]

\* Unbound outputs that nobody holds any more die with the operation.
Dead(op) == (op.out \cap Unbound) \ alive

\* No two points of the launch share a tile.
Disjoint(part, ld) == part # "image" /\ (part = "single" => ld = "one")

\* Written stores keep the partition, reduced ones if it is disjoint.
KeepsPartition(op, s, f) ==
  /\ op.kind # "copy" /\ s # NoStrategy
  /\ \/ f \in op.out
     \/ f \in op.red /\ Disjoint(s.part[f], s.ld)
  /\ s.part[f] # "whole"

\* set_key_partition; the placeholder of a store that was made stays its key.
KeyOf(op, s, f) == [od |-> op.od, part |-> s.part[f]]

\* The launch of op and its destruction, in front of `items`.
Launch(op, items) ==
  LET s == Strategy(op, key)
      imports == op.out \cap Unbound # {} /\ Freq > 0
  IN /\ log' = Append(log, Entry(op, s))
     /\ mem' = [f \in Fields |->
                  IF f \in op.drop \/ (op.kind = "discard" /\ f = op.field) THEN 0
                  ELSE IF f \in op.out \cup op.red THEN op.id ELSE mem[f]]
     /\ key' = [x \in DOMAIN key |->
                  IF x[1] \in Touched(op) /\ x = Storage(op, x[1]) /\ KeepsPartition(op, s, x[1])
                  THEN KeyOf(op, s, x[1]) ELSE key[x]]
     /\ region' = region \cup op.out
     /\ att' = [f \in Fields |->
                  IF op.kind = "attach" /\ f \in op.out THEN "attached"
                  ELSE IF op.kind = "release" /\ f = op.field THEN "none" ELSE att[f]]
     /\ credit' = IF imports THEN Freq ELSE credit
     /\ stack' = (IF imports /\ ~Streaming(Policy) THEN <<Item("match")>> ELSE <<>>)
                   \o FreeAll(Dead(op)) \o items

\* schedule_ on operations_: as many as there were, unless a flush in
\* between took them.
Run ==
  /\ At("run") /\ Top.n > 0 /\ window # <<>>
  /\ Launch(Head(window), <<[Top EXCEPT !.n = @ - 1]>> \o Rest)
  /\ window' = Tail(window)
  /\ UNCHANGED <<scopes, exc, progVars, gens, outstanding, ids, calls>>

\* schedule_ on a prefix
RunPrefix ==
  /\ At("stream") /\ Top.ops # <<>>
  /\ Launch(Head(Top.ops), <<[Top EXCEPT !.ops = Tail(@)]>> \o Rest)
  /\ UNCHANGED <<window, scopes, exc, progVars, gens, outstanding, ids, calls>>

\* Mutant: the loop counts on the operations it saw on entrance.
EndFlushCounts ==
  /\ \/ At("run") /\ Top.n = 0
     \/ At("stream") /\ Top.ops = <<>> /\ window = <<>>
  /\ stack' = Rest
  /\ UNCHANGED <<window, scopes, exc, progVars, dataVars, log, gens, matchVars, ids, calls>>

EndFlush ==
  /\ \/ At("run") /\ (Top.n = 0 \/ window = <<>>)
     \/ At("stream") /\ Top.ops = <<>> /\ window = <<>>
  /\ stack' = Rest
  /\ UNCHANGED <<window, scopes, exc, progVars, dataVars, log, gens, matchVars, ids, calls>>

\* issue_field_match and, for "process", process_outstanding_match_
Process == IF outstanding THEN <<Flush("match"), Item("matched")>> ELSE <<>>

DoMatch ==
  /\ \/ /\ At("match")
        /\ stack' = (IF Freq > 0 /\ credit >= Freq
                     THEN Process \o <<Item("issue")>> ELSE <<>>) \o Rest
        /\ UNCHANGED matchVars
     \/ /\ At("process")
        /\ stack' = Process \o Rest
        /\ UNCHANGED matchVars
     \/ /\ At("matched")
        /\ stack' = Rest /\ outstanding' = FALSE /\ UNCHANGED credit
     \/ /\ At("issue")
        /\ stack' = Rest /\ outstanding' = TRUE /\ credit' = 0
  /\ UNCHANGED <<window, scopes, exc, progVars, dataVars, log, gens, ids, calls>>

\* try_reuse_field_: deallocate_attachment(wait_on_detach)
Reuse ==
  /\ \/ /\ At("reuse")
        /\ stack' = (IF att[Top.field] = "pending"
                     THEN <<Flush("reuse"), ForField("detached", Top.field)>>
                     ELSE <<>>) \o Rest
        /\ UNCHANGED exc
     \/ /\ At("detached")
        /\ IF att[Top.field] = "pending" THEN Abort("not detached")
           ELSE stack' = Rest /\ UNCHANGED exc
  /\ UNCHANGED <<window, scopes, progVars, dataVars, log, gens, matchVars, ids, calls>>

\* The field backs a new store.
NewStore ==
  LET f == Top.field IN
  /\ At("new")
  /\ alive' = alive \cup {f}
  /\ life' = [life EXCEPT ![f] = @ + 1]
  /\ wr' = [wr EXCEPT ![f] = IF f \in Attached THEN ids + 1 ELSE 0]
  /\ LET x == <<f, life[f] + 1>>
     IN key' = [y \in DOMAIN key \cup {x} |-> IF y = x THEN NoKey ELSE key[y]]
  /\ region' = IF f \in Unbound THEN region ELSE region \cup {f}
  /\ stack' = (IF f \in Attached
               THEN <<Submit([Plain("attach") EXCEPT !.out = {f}, !.id = ids + 1,
                                               !.life = (f :> life[f] + 1)])>>
               ELSE <<>>) \o Rest
  /\ UNCHANGED <<window, scopes, exc, att, mem, log, gens, matchVars, ids, calls>>

\* exchange_parallel_policy, and back
Enter ==
  /\ At("enter")
  /\ scopes' = Append(scopes, Top.pol)
  /\ stack' = Rest
  /\ UNCHANGED <<window, exc, progVars, dataVars, log, gens, matchVars, ids, calls>>

EndOfScope ==
  /\ At("leave")
  /\ scopes' = Front(scopes)
  /\ stack' = Rest
  /\ UNCHANGED <<window, exc, progVars, dataVars, log, gens, matchVars, ids, calls>>

-----------------------------------------------------------------------------
(* The program *)

Ready == Idle /\ exc = "none" /\ calls < MaxCalls
Called(items) == stack' = items /\ calls' = calls + 1

\* A task or copy on live stores; what it reads has been written.  One operation
\* makes an unbound store, and others use it when its region exists: before, it
\* is aligned with no other store, and a task that has it as its first argument
\* is refused by the scan (NoRegion).  Tasks on an attached store flush.
Call(t) ==
  LET op == [t EXCEPT !.id = ids + 1, !.od = Policy.od,
                      !.life = [f \in Touched(t) |-> life[f]],
                      !.src = [f \in t.in \cup t.red |-> wr[f]],
                      !.flush = @ \/ Touched(t) \cap Attached # {}]
  IN /\ Ready
     /\ Touched(t) \subseteq alive
     /\ \A f \in t.in \cup t.red : wr[f] # 0
     /\ (Touched(t) \cap Unbound) \ t.out \subseteq region
     /\ \A f \in t.out \cap Unbound : wr[f] = 0
     /\ wr' = [f \in Fields |-> IF f \in t.out \cup t.red THEN ids + 1 ELSE wr[f]]
     /\ Called(<<Submit(op)>>)
     /\ UNCHANGED <<scopes, window, exc, alive, life, dataVars, log, gens, matchVars, ids>>

\* create_store and allocate_field
Create(f) ==
  /\ Ready /\ f \notin alive /\ (f \in Unbound => life[f] = 0)
  /\ LET managed == Freq > 0 /\ f \notin Unbound IN
     /\ credit' = IF managed THEN Min({Freq, credit + 1}) ELSE credit
     /\ Called((IF managed /\ ~Streaming(Policy) THEN <<Item("match")>> ELSE <<>>)
               \o (IF life[f] > 0 THEN <<ForField("reuse", f)>>
                   ELSE IF managed THEN <<Item("process")>> ELSE <<>>)
               \o <<ForField("new", f)>>)
  /\ UNCHANGED <<scopes, window, exc, progVars, dataVars, log, gens, outstanding, ids>>

\* free_early: nothing yet for a store that has no region.
Drop(f) ==
  /\ Ready /\ f \in alive
  /\ alive' = alive \ {f}
  /\ IF f \in region
     THEN /\ att' = [att EXCEPT ![f] = IF @ = "attached" THEN "pending" ELSE @]
          /\ Called(FreeCalls(f))
     ELSE Called(<<>>) /\ UNCHANGED att
  /\ UNCHANGED <<scopes, window, exc, life, wr, region, key, mem, log, gens, matchVars, ids>>

\* check_policy_change_at_scope_begin
CheckFails(outer) == outer.mode = "strict"

\* Scope::set_parallel_policy
BeginScope(p) ==
  LET enter == [Item("enter") EXCEPT !.pol = p] IN
  /\ Ready
  /\ calls' = calls + 1
  /\ IF p # Policy /\ CheckFails(Policy)
     THEN Throw("nesting", <<enter>>)
     ELSE stack' = Append(Exchange(p, Policy), enter) /\ UNCHANGED <<window, exc, wr>>
  /\ UNCHANGED <<scopes, alive, life, dataVars, log, gens, matchVars, ids>>

\* Scope::~Scope, also while an exception passes
EndScope ==
  /\ Idle /\ Len(scopes) > 1
  /\ stack' = EndCalls(Policy, scopes[Len(scopes) - 1])
  /\ UNCHANGED <<scopes, window, exc, progVars, dataVars, log, gens, matchVars, ids, calls>>

Catch ==
  /\ Idle /\ exc # "none"
  /\ exc' = "none"
  /\ UNCHANGED <<scopes, window, stack, progVars, dataVars, log, gens, matchVars, ids, calls>>

Program == \/ \E t \in Tasks : Call(t)
           \/ \E f \in Fields : Create(f) \/ Drop(f)
           \/ \E p \in Policies : BeginScope(p)
           \/ EndScope
           \/ Catch

Runtime == \/ DoSubmit \/ DoFlush \/ Extract \/ Run \/ RunPrefix \/ EndFlush
           \/ DoMatch \/ Reuse \/ NewStore \/ Enter \/ EndOfScope

Init ==
  /\ scopes = <<Off>> /\ window = <<>> /\ stack = <<>> /\ exc = "none"
  /\ alive = {} /\ region = {} /\ life = [f \in Fields |-> 0]
  /\ att = [f \in Fields |-> "none"] /\ key = [x \in {} |-> {}]
  /\ wr = [f \in Fields |-> 0] /\ mem = [f \in Fields |-> 0]
  /\ log = <<>> /\ gens = 0 /\ outstanding = FALSE /\ credit = 0
  /\ ids = 0 /\ calls = 0

Next == Program \/ Runtime

Spec == Init /\ [][Next]_vars

\* The runtime finishes what it was called to do; the program may do nothing.
FairSpec == Spec /\ WF_vars(Runtime)

-----------------------------------------------------------------------------
(* Properties *)

Kinds == {"auto", "manual", "copy", "fill", "attach", "release", "discard", "fence"}

\* The window holds operations on fields, in the order of their creation, and
\* every scope one of the policies (Runtime::operations_, Scope).
TypeOK ==
  /\ \A i \in DOMAIN window :
       /\ window[i].kind \in Kinds /\ Touched(window[i]) \subseteq Fields
       /\ window[i].id \in 1..ids /\ window[i].gen = 0
       /\ i > 1 => window[i - 1].id < window[i].id
  /\ \A i \in DOMAIN scopes : scopes[i] \in Policies \cup {Off}
  /\ alive \subseteq Fields /\ region \subseteq Fields
  /\ wr \in [Fields -> 0..(ids + 1)] /\ mem \in [Fields -> 0..ids]
  /\ credit \in 0..Freq /\ outstanding \in BOOLEAN

\* What waits to be launched: the prefix that is being launched, if any, comes
\* before the window.
Pending ==
  FoldLeft(LAMBDA acc, item : acc \o item.ops, <<>>, stack) \o window
    \o FoldLeft(LAMBDA acc, item : IF item.c = "submit" /\ item.op.id # 0
                                   THEN Append(acc, item.op) ELSE acc, <<>>, stack)
OnData(kind) == kind \notin {"fence", "discard"}
IdsOf(s) == [i \in DOMAIN s |-> s[i].id]

Stream == INSTANCE OpStream WITH
  pending <- IdsOf(SelectSeq(Pending, LAMBDA op : OnData(op.kind))),
  done <- IdsOf(SelectSeq(log, LAMBDA e : OnData(e.form))),
  failed <- CASE exc = "none" -> "no" [] exc \in Deaths -> "dead" [] OTHER -> "told"

\* However a flush is cut into prefixes, nested or broken off, operations are
\* launched in program order, none twice, and none is lost without a word
\* (flush_scheduling_window, schedule_ and extract_streamable_prefix).
KeepsStream == Stream!Spec

\* A discard is never launched, alone or with the task it was handed to,
\* before a reader: what was launched read what program order says
\* (forward_propagate_discards).
ReadsSurvive == \A i \in DOMAIN log : log[i].fresh

\* A prefix was found streamable for the partitions its tasks are then
\* launched with, although launching the first of them sets key partitions
\* (get_strategy, and partition_stores again in schedule_).
CheckedIsLaunched == \A i \in DOMAIN log : log[i].same

InGeneration(g) == {i \in DOMAIN log : log[i].gen = g}
IndexTasks(g) == {i \in InGeneration(g) : log[i].form = "index"}

\* The mapper streams a generation as a whole, so generations follow each
\* other and a fence must keep the tasks of two apart
\* (extract_streamable_prefix_impl).
FencedGenerations ==
  \A i, j \in DOMAIN log :
    /\ i < j
    /\ log[i].gen # log[j].gen /\ log[i].gen # 0 /\ log[j].gen # 0
    => log[i].gen < log[j].gen /\ \E k \in i..j : log[k].form = "fence"

\* The mapper waits for as many index tasks as the generation says it has:
\* once the flush is over they have all been launched (get_generation_size).
GenerationComplete ==
  stack = <<>> => \A g \in 1..gens : \A i \in IndexTasks(g) :
                    Cardinality(IndexTasks(g)) = log[i].size

\* Index tasks of a generation depend on each other point by point: two of
\* them access a store through the same partition (DependencyChecker).
PointwiseStores ==
  \A g \in 1..gens : \A i, j \in IndexTasks(g) : i < j =>
    \A a \in log[i].access, b \in log[j].access :
      a.field = b.field /\ a.life = b.life => SamePart(a.part, b.part)

\* No task of a generation reads or writes what an earlier one reduces to
\* (DependencyChecker), except for a single task on a scalar.
ReductionsLast ==
  \A g \in 1..gens : \A i, j \in IndexTasks(g) : i < j =>
    \A a \in log[i].access, b \in log[j].access :
      a.field = b.field /\ a.life = b.life => a.mode # "REDUCE"

\* A STRICT scope streams as one group: when the first of it is launched, no
\* task is left behind (StreamingMode::STRICT).
StrictIsOneGroup ==
  [][Policy.mode = "strict" /\ log' # log =>
       ~ \E i \in DOMAIN window : IsTask(window[i])]_vars

\* Whatever exception passes, ending a scope on the way never throws another
\* one (Scope::~Scope is noexcept(false)).
NoSecondException == exc # "terminated"

\* A STRICT scope throws only for operations that do not stream, or for a
\* scope in it (StreamingMode::STRICT).
ThrowsForOpsOnly == exc \notin {"match", "reuse"}

\* A scope that does not stream is refused in a RELAXED one, as the table of
\* check_policy_change_at_scope_begin has it.
TableHolds ==
  \A i \in 1..(Len(scopes) - 1) :
    scopes[i].mode = "relaxed" /\ scopes[i + 1].mode = "off" => exc # "none"

\* The scan for discards never meets a store without a region
\* (maybe_update_task_discards).
RegionsExist == exc # "no region"

\* A field whose detach was queued has been detached by the time it backs a
\* store again (LogicalRegionField::PhysicalState).
DetachedOnReuse == exc # "not detached"

\* Outside of scopes that over-decompose a store is cut into as many tiles as
\* there are processors, unless the program has partitioned it by hand
\* (find_key_partition, ParallelPolicy).
TilesOfPolicy ==
  \A i \in DOMAIN log : log[i].od = 1 =>
    \A x \in log[i].access : x.part # "small tiles"

\* A call of the program returns, or throws, however flushes nest.
CallsReturn == stack # <<>> ~> stack = <<>>
=============================================================================
