# Legate: TLA+ specifications

Legate runs one copy of a program on every *shard* of a machine (control replication by Legion). The
runtime library in `src/src/cpp/legate` turns operations on stores into Legion operations. This
directory holds TLA+ models of its concurrent and stateful parts, TLC configurations that check them on
small instances, and TLAPS proofs about them for all values of the constants.

Sources are named below relative to `src/src/cpp/legate`.

## 1. Inventory

| Component | Where | State | Operations | Interacts with |
|---|---|---|---|---|
| Field manager | `runtime/detail/field_manager.cc` | `ordered_free_fields_`, `unordered_free_fields_`, `outstanding_match_`, `info_for_match_items_`, `field_match_counter_` | `allocate_field`, `import_field`, `free_field`, `issue_field_match`, `drain` | window (flush), Legion (consensus match, progress of unordered operations), region managers, physical states |
| Region field life cycle | `data/detail/logical_region_field.cc`, `attachment.cc`, `operation/detail/{attach,release_region_field,discard}.cc` | attachment, `has_pending_detach_`, `released_`, `destroyed_out_of_order_` | attach, release, detach, deallocate | field manager, window |
| Scheduling window | `runtime/detail/runtime.cc:470-565` | `operations_` | `submit`, `flush_scheduling_window`, `schedule_`, `clear_scheduling_window` | every operation; launches may submit and flush re-entrantly |
| Region manager | `runtime/detail/region_manager.cc` | regions and their numbers of fields | `allocate_field`, `import_region` | Legion |
| Storage, stores, shapes | `data/detail/{storage,logical_store,shape,user_storage_tracker}.cc` | region field of a store, state of a shape (unbound, bound, ready) | construct, `free_early`, `extents` | field manager, window |
| Streaming | `runtime/detail/streaming/`, `runtime/detail/scope.cc`, `tuning/scope.cc` | scope stack, parallel policy | `extract_streamable_prefix`, propagation and pruning of discards, scope exit | window, field manager |
| Local collectives | `comm/detail/{local_network,thread_comm}.cc`, `pthread_barrier.h` | published buffers, ready flag, finalize counter, barrier | create, destroy, all-to-all(v), all-gather, all-reduce, barrier | threads of one process, by shared memory |
| MPI and UCC collectives | `comm/detail/{mpi,ucc}_network.cc` | tags, communicators | the same | MPI, UCC |
| Communicator manager | `runtime/detail/communicator_manager.cc` | cached communicators | find or create, destroy | tasks on every processor |
| Instance manager, mappers | `mapping/detail/{instance_manager,base_mapper}.cc` | instance sets, region groups, pending instances; the column of each processor, rows per column | find, record, erase; select tasks, map a task, map its stores | Legion's mapper calls, which preempt each other whenever one waits for Legion |
| Partitioner | `partitioning/detail/` | none between operations | solve the constraints of an operation | operations |
| Start and finish | `runtime/runtime.cc`, `Runtime::start` and `finish` | life-cycle state, registries | start, finish, shutdown callbacks | every destructor |
| Tasks, exceptions, returns | `operation/detail/task*.cc`, `task/detail/` | pending exceptions | launch, record, raise | window, scopes |
| Shared pointers | `utilities/internal_shared_ptr.inl` | strong, weak and user counts | copy, move, lock | all objects |

What is hard here, and what makes each part correct:

* **Field manager.** Garbage collectors destroy stores at different points on different shards. A field
  may be handed out again only when all shards have freed it, all shards have to give the same field to
  the same store, and a detach that somebody waits for must already be in Legion's task stream.
* **Window.** Operations launched from the window may submit and flush again; the point of a flush has
  to be the same on every shard; a scope that fails drops operations.
* **Streaming.** The window is cut into prefixes and discards move forward; no operation may see a store
  that was discarded before its turn. A prefix is judged by partitions that its operations do not have
  yet, and its size is promised to a mapper that will wait for exactly as many tasks.
* **Mapper.** Processors choose the column to work on independently of each other, and are asked again
  only after an event that another processor's progress has to trigger.
* **Local collectives.** Threads exchange pointers and spin on them. A rank must receive what every
  peer sent in this call and not in another, and a communicator may be destroyed only when nobody is
  inside its barrier.
* **Start and finish.** Objects that outlive the runtime must not call it.
* **Instance manager.** Regions share instances through groups that are merged, split and replaced while
  mapper calls preempt each other and Legion collects instances. No entry may promise more room than its
  instance has, survive its group, or outlive its instance for longer than a notice takes.
* **Communicator manager.** A cache that must agree with what is alive.

`PROJECT.json` lists the hazards one by one, each at its line.

## 2. Plan

1. `FieldManager` with the scheduling window and the attachment life cycle on several shards (done);
   theorems: every safety property that its runs check (done).
2. `Barrier`, `PthreadBarrier` (refines it), `Collective` and `LocalNetwork` (refines it) with the life
   cycle of `ThreadComm` (done); theorems: the barrier is implemented, a rank reads only what its peers
   sent in the same call, a communicator lives as long as it is used, and `LocalNetwork` implements
   `Collective` (done).
3. `StreamingWindow` (refines `OpStream`): the window of one shard, re-entrant flushes, STRICT and RELAXED
   scopes, exceptions that clear the window, matches that are put off; `VerticalMapper`: what a node's
   mapper does with the tasks that the window launched; `Streaming`: the two together (done);
   theorems: the safety properties of `VerticalMapper`; of `StreamingWindow`, that generations are fenced,
   that a STRICT scope streams as one group, that one exception passes at a time, and all that the checks of
   a prefix are for: what is checked is launched, generations are complete, stream point by point and have
   their reductions last; and that what is launched reads what program order says, although discards are
   moved (done).
4. `InstanceManager`: the cache of instances and the mapper calls that use it (done); theorems: type
   correctness, the sanity check, no dead entries, room for every store (done).
5. `CommunicatorManager` with several communicators at a time, `RuntimeLifecycle` (with `drain`),
   `SharedPtr`, pending exceptions.
6. Constraint solver against a reference definition, if there is room.

Modules meant for proofs declare no `RECURSIVE` operator, and state their invariants as conjunctions of
named parts.

## 3. FieldManager

### 3.1 State and actions

All shards execute one program, a sequence of statements that the shard which is ahead chooses and the
others follow. This is Legion's control replication. A statement is the creation of a store, the launch
of a task with an unbound output, a query of such an output's extents, the destruction of a store that is
destroyed in order, or a task. A field `<<k, n>>` is the `n`-th field of the region manager of key `k`
(index space and field size), a store is named by the statement that made it.

`fm[s]` holds what the field manager of shard `s` decides without looking at its garbage collector:

| Model | Code |
|---|---|
| `fm[s].free[k]` | `ordered_free_fields_` |
| `fm[s].counter` | `field_match_counter_` |
| `fm[s].outstanding`, `.matches` | `outstanding_match_` |
| `fm[s].fresh[k]` | fields allocated or imported by the region manager |
| `fm[s].ready` | keys whose `Shape` is ready |
| `fm[s].alloc[i]` | region field of store `i` |
| `fm[s].ctl`, `.why`, `.taken` | where the thread is in `allocate_field`, `import_field` and `process_outstanding_match_` |
| `unordered[s]`, `matching[s]` | `unordered_free_fields_`, `info_for_match_items_` |
| `window[s]` | `operations_` |
| `att[s]`, `pending[s]` | `attachment_`, `has_pending_detach_` of the physical state of each store |
| `offered`, `result` | inputs and outputs of the consensus matches |
| `progressed` | unordered detaches emitted when `progress_unordered_operations` was called |
| `stream[s]` | ordered calls made to Legion |

`hist` and `step` are history variables: the values that the `fm` of the leading shard went through, and
where each shard is among them. No guard reads them.

Actions: `BeginCreate` and `BeginImport` are `allocate_field` and `import_field` up to and including
`maybe_issue_field_match_` (which, if a match is outstanding, flushes the window); `AwaitMatch`,
`Progress`, `FreeMatched` and `EndProcess` are the stages of `process_outstanding_match_` between which
other shards may run; `Issue` is `issue_field_match_` with the reset of the counter; `Reuse` is the rest of
`allocate_field`, including the flush in `deallocate_attachment` and the `Attach` of a store with an
external allocation; `Bind` is the rest of `import_field`; `Drop` and `Collect` destroy a store in order
and out of order; `Query` and `Task` are the other statements. `WindowStep` is the effect of a step on the
window: an optional flush, direct Legion calls, then submissions, each of which launches the whole window
when it has grown to `WindowSize`.

`Collect` happens between statements, as a Python garbage collector would run. Legion is assumed to
compute the intersection of the offers of a match, to complete a match when all shards have issued it,
and to insert an unordered operation into the task stream when all shards have emitted it before a call
to `progress_unordered_operations` that all shards make.

### 3.2 Runs

| Run | Instance | Shows |
|---|---|---|
| `field_reuse` | 2 shards, 5 statements, window 4, match every 2 units of credit, external allocations, marked and unmarked stores | six invariants, below |
| `field_output` | 2 shards, 4 statements, window 2, an output and stores of its shape | `NoReuseWhileHeld` for imported fields and shapes that are not ready |
| `window_one` | 2 shards, 4 statements, window 1, tasks, creations and destructions, fair shards | `ControlDeterminism`, and `MatchesComplete` |
| `order_window_two` | the same with window 2, without fairness | `ControlDeterminism` fails (section 8) |

Five statements let a shard issue a match, collect more, process the match, issue another and reuse a
field, with the other shard anywhere in between; window 4 keeps a release queued across a match. Two
shards are enough for disagreement; the proofs below cover any number.

* `ReuseAgreement`: the shards give every store the same field.
* `NoReuseWhileHeld`: the field of a marked store is given to a later one only when all shards have
  released the marked one.
* `MatchItemsDistinct`: the two `LEGATE_CHECK`s on match items.
* `ReusableIsDetached`: a field in an ordered queue has a detach that is in the task stream or is known to
  be pending, so that waiting for it cannot hang.
* `OneAttachment`: Legion never sees a field attached for two of its lives at a time.
* `ControlDeterminism`: all shards make the same ordered Legion calls in the same order.
* `MatchesComplete`: a shard blocked on a match or on the exchange of unordered operations gets back to
  its program.

`window_one` assumes weak fairness of each shard's own thread (`Run(s)`): a thread whose next step
does not block takes it. Garbage collection is not fair. Deadlock is not checked in this run only: a
blocked shard is what `MatchesComplete` is about.

### 3.3 Proofs (`FieldManagerProofs`, `FieldDetachProofs`)

All theorems hold for any finite set of shards, and any keys, sizes, window, frequency, menu and program
length. They assume `ConstAssumption` and `MenuAssumption`. There are four inductive invariants, each of
which builds on those before it; TLC checked each of them on small instances first.

`FieldManagerProofs` has `TypeCorrect` and `Agreement` (`ReuseAgreement`). The latter is not inductive: two
shards that agree so far may disagree next unless they decide from the same data. The argument is that a
step of `fm[s]` is a function of `fm[s]`, the program and the match results (`IsSucc`, `SuccUnique`), none of
which is local to a shard, that programs and results only grow (`Stable`), and that a step never changes
an allocation on record (`SuccOK`, `Keeps`). The inductive invariant `IInv` says that `hist` is a chain of
`IsSucc` steps, that each `fm[s]` is the element of `hist` that `step[s]` names, that each element is well
formed (`OrdOK`), and that what the shards hold locally refers to fields that exist (`LocalOK`). A
follower's step must be the one recorded in `hist`; the leader's step extends it.

The second half of `FieldManagerProofs` has `ReuseIsSafe` (`NoReuseWhileHeld`) and `MatchItems` (`MatchItemsDistinct`). The stores that
held a field have, in the order of their statements, all given it up but the last one, and a field that
is free has been given up by all of them (`OwnOK`). That is simple for one shard that frees its own
fields. Across shards a field gets free by a match, and what a shard offers there may be stale by the
time it gets the result. So `RInv` says of every point of `hist` where a match is issued which store is
the last holder of each field that is offered (`OffersOK`): since `hist` is the same for all shards, the
field and the number of the match name one store. A field in the result was offered by every shard
(`ResultOK`), so every shard had released that one store (`MatchedEverywhere`).

`FieldDetachProofs` has `ReusableDetached` (`ReusableIsDetached`) and `AttachedOnce` (`OneAttachment`). The window is
launched as a whole or not at all (`CutWindow`, `WindowEffect`), hence a store that is released and still
attached has its release in the window, and is marked as one with a pending detach (`LifeOK`). A shard
joins the exchange of unordered operations with an empty window, so all that it offered in the match has
been detached by then (`OfferedOK`); and it takes fields out of the result only when every shard has
joined (`ExchangeOK`), so that all those detachments are in the task stream (`InsertedOK`).

The second part of `FieldDetachProofs` has `SameOrder`: `ControlDeterminism`, if `WindowSize = 1`, which is the default of the code. With
a larger window it is false (section 8). With room for one operation, the ordered calls that a step makes
are a function of the ordered part of the state, the program and the results (`Emission`). The one local
fact they could depend on is whether a store that the program destroys is attached, which the program
decides as well (`ReleasedOK`). So the stream of a shard is what the steps of `hist` up to its own emit
(`StreamOK`), and the streams of two shards are prefixes of one another.

Liveness (`MatchesComplete`) is checked by TLC only.

## 4. Local collectives

The threads of a process that has neither MPI nor UCC exchange data through `LocalNetwork`. Four modules
model it:

* `Barrier` is the abstract pthread barrier: a round ends for all when the last rank has entered it.
* `PthreadBarrier` is the barrier of `pthread_barrier.h`, for platforms without one. Each action is what a
  thread does between two operations on the mutex; `Spurious` is a wake-up without a signal. Its `bar` is
  the refinement mapping to `Barrier`: a counted thread is released once the phase differs from its
  `old_phase`.
* `Collective` is what the network promises to its callers: all ranks make the same calls, a call returns
  only when all have made it, and what a rank then holds is one item of each peer that was passed to this
  very call.
* `LocalNetwork` is `local_network.cc` with `thread_comm.cc`, on top of `Barrier`. Its `result` is the
  refinement mapping to `Collective`.

### 4.1 LocalNetwork: state and actions

| Model | Code |
|---|---|
| `prog`, `call[r]` | the collectives that the point tasks call, and how far rank `r` is |
| `pc[r]` | where rank `r` is inside of its call |
| `ready`, `entered` | `ready_flag_`, `entered_finalize_` |
| `buffers`, `displs` | `buffers_`, `displs_`; `Null` is the null pointer |
| `bar` | `barrier_` |
| `mem` | what the pointers lead to: send, receive, temporary and displacement arrays of each rank |
| `inplace[r]`, `copied[r]`, `from[r]` | `sendbuf == recvbuf`, the loop counter, the pointers loaded in this iteration |

The datum that `p` sends to `q` in call `k` is the record `Item(p, q, k)`, so what a rank receives shows
where it comes from. A slot that has been reduced into holds the sequence of the items in it. The caller
changes its buffers between two calls, so a copy that comes too late or too early shows. The
displacements of a call are the slots in order or in reverse order, by turns.

`Create`, `InitComm`, `SetReady`, `AwaitReady` are `comm_create` and `ThreadComm::init`; `Collect`,
`PublishDispls`, `Publish`, `Wait`, `Load`, `Copy`, `Delete`, `Reset` are the four collectives, which
share their structure; `Destroy`, `Finalize`, `Clear`, `Unready`, `AwaitCleared` are `comm_destroy` and
`ThreadComm::finalize`; `Arrive` and `Leave` are `barrier_local_` wherever it is called. An action is
what a thread does between two accesses to memory that others change. All these accesses are sequentially
consistent in the code: the pointers, the flag and the counter are `std::atomic`. In `clear` the arrays
are freed and then the flag falls, hence two actions.

### 4.2 Runs

| Run | Instance | Shows |
|---|---|---|
| `pthread_barrier` | 3 threads, any number of rounds, phases modulo 2 | the barrier implements `Barrier`, with its liveness |
| `local_network` | 3 threads; creation, any two collectives, destruction | `LocalNetwork` implements `Collective`, with its liveness; four invariants |

With three threads one can be fast, one slow and one in between. Two collectives in a row are what it takes
for a stale pointer or a buffer that is reused too early to show; the barriers keep ranks from being
further apart. A phase of two values is the hardest case for a comparison of phases.

* `NoLostWakeup`, `CountIsRound`: no thread sleeps through the end of its round, and the counter counts
  this round only, although threads of the last one have not left yet.
* `ReadsCurrentCall`: whatever a rank copies is what its peer passed to the same call.
* `AliveWhileUsed`, `GoneWhenDestroyed`: the communicator is there for as long as a rank uses it, and gone
  when the first rank returns from `comm_destroy`.
* `TypeOK` of `LocalNetwork` includes that the finalize counter is exact.
* `KeepsPromise`, `ImplementsBarrier`: the refinements. The liveness of `Collective` is a property of its own,
  `EveryCallReturns`: a call that all ranks have made returns to each of them.

Fairness: a thread inside of a call is scheduled (`WF_vars(Step(r))`), because point tasks of a collective
launch run concurrently; whether a task makes a call is left to it. In `PthreadBarrier` it is strong
fairness, since a thread that wants a mutex which others take and release all the time gets it only if the
platform's mutex lets nobody starve. Deadlock is checked in both runs; the only end of a program of
`local_network` is that all ranks have returned from `comm_destroy`.

### 4.3 Proofs

`PthreadBarrierProofs`, for any finite set of threads and any phase of at least two values:
`TypeCorrect`, `NoWakeupIsLost`, `CountIsExact` and `Implementation` (`ImplementsSafety`). The inductive invariant says who
owns the mutex, that nobody uses a barrier that does not exist, and that the count is that of this round.
So the thread that makes the count reach the limit finds all others waiting (`LastFindsAllWaiting`), and
they remember the phase that it changes.

`LocalNetworkProofs`, for any number of threads, any set of collectives and any number of calls:
`TypeCorrect`, `Alive`, `GoneForAll` and `Reads`. They assume `ConstAssumption`, and of the barrier
what `Barrier` says. None of these properties is inductive. The core of the invariant `IInv` is `Rounds`: all
ranks have passed the same barriers, since the last one to arrive lets all through in one step.
So when a rank copies, no rank has passed the first barrier of this call: those that have published are in
the same call, their pointers stand (`Published`, `Loaded`), and what they send is in memory (`Memory`).
`Life` ties the communicator to the progress of rank 0, and `EnteredOK` the finalize counter to the ranks
that have left the last barrier.

`Implements` (`KeepsPromise`) is the refinement: every behaviour of `LocalNetwork` is one of `Collective`, if
`result` is read off the place and the receive buffer of each rank. `ReceivedInvariance` gives what the
buffer holds: one item of each peer the loop has gone through, in the order of that loop, and for a
reduction after the rank's own. `Reads` says that each copy adds the right item, `WholeReply` that the
loop visits every peer once, so a rank outside of the network holds a reply of `Collective`. A step that
returns comes after the last barrier of the call, and by `Rounds` every rank has then entered it. All
other steps inside of a call change nothing that the user sees.

Liveness (`EveryCallReturns`, and the fairness in `ImplementsBarrier`) is checked by TLC only.

## 5. Streaming window

`StreamingWindow` is the scheduling window of one process under streaming scopes
(`runtime/detail/runtime.cc`, `runtime/detail/streaming/`, `runtime/detail/scope.cc`, `tuning/scope.cc`). It has
one thread; what is hard is that calls nest. A flush launches operations, the launch of an operation may
free stores, issue a match and flush again, and an exception may leave all of that in the middle.

### 5.1 State and actions

| Model | Code |
|---|---|
| `scopes` | the parallel policies of the nested `Scope`s, the current one last |
| `window` | `operations_` |
| `stack` | what the current call still has to do: the call stack, as items, the running one in front |
| `exc` | the exception that passes, or how the process ended |
| `alive`, `life` | which fields back a store that the program holds, and how many they have backed (the storage id) |
| `region`, `att` | whether the field has a region (an unbound store has none), its attachment |
| `key` | key partition of each storage `<<field, life>>`, with the over-decomposition it was made under |
| `gens` | `streaming_generation` |
| `outstanding`, `credit` | `outstanding_match_`, `field_match_counter_` |
| `log`, `mem`, `wr` | what was launched; the last launched and the last submitted writer of each field |

| Action | Code |
|---|---|
| `Call`, `Create`, `Drop` | submission of a task or copy, `allocate_field`, `free_early` |
| `BeginScope`, `EndScope`, `Catch` | `Scope::set_parallel_policy`, `~Scope`, the program's `catch` |
| `DoSubmit` | `Runtime::submit` |
| `DoFlush` | `flush_scheduling_window` up to its loop: off, RELAXED, or STRICT, which throws |
| `Extract` | `extract_streamable_prefix` with its checks, the fence, `process_streaming_run` |
| `Run`, `RunPrefix`, `EndFlush` | one turn of `schedule_`, on the window as it is and on a prefix |
| `DoMatch`, `Reuse`, `NewStore` | `issue_field_match`, `process_outstanding_match_`, `try_reuse_field_` with the wait for a detach, the new store and its `Attach` |
| `Enter`, `EndOfScope` | the exchange of the policy |

Pure parts are operators: `PropagateDiscards` (`forward_propagate_discards`, `prune_handled_discard_ops`),
`StreamableLen` (the checks of `extract_streamable_prefix_impl` one operation after the other, with
`DependencyChecker` and `LaunchDomainEquality`), `PartitionStores` (the partition that the aligned stores
of an operation get: `KeyField` is the store whose key partition is taken, `How` that partition or a new
one, `LaunchedBy` the launch that goes with it). A partition is a name: all that the checks ask is whether
two are equal.

Unbound stores that an operation makes (`Made`) are aligned with none of its other stores
(`Alignment::validate`, `Aligned`). They get a placeholder when the operation is partitioned, for the check as
well as for the launch (`PartitionOf`), which equals no partition; a task with no other stores has no launch
domain and is a single one. The code makes the placeholder the key partition already during the check, the
model when the task is launched. Nothing tells the two apart: `Call` lets one operation make an unbound store
and others use it only when its region exists, hence after the launch of its maker. This leaves out
programs that name the store earlier. Of these the code refuses to align it with a bound store, and the scan
for discards ends the program if its region is asked for (`NoRegion`, `StreamingUnbound` in section 8).

`OpStream` is what the window promises: operations that touch data are launched in the order of their
submission and once each, or all pending ones are given up and somebody is told. `KeepsStream` maps
`StreamingWindow` to it: pending is the prefix being launched, then the window, then what the stack is
about to submit; done is the log; fences and discards are left out, since the runtime adds the former and
merges the latter.

### 5.2 Runs

| Run | Instance | Shows |
|---|---|---|
| `streaming_scopes` | 3 fields, one of them a scalar, at most 7 calls, window 2; a program uses either RELAXED scopes (fills, index tasks that agree on partitions or not, a single task, a reduction) or STRICT ones (with over-decomposition, and a task that flushes) | the refinement and the properties below |
| `streaming_live` | 2 fields, one attached, one unbound, tasks that write, RELAXED and STRICT scopes, 5 calls, a match after every field | `CallsReturn` |

Seven calls are two scopes with operations in and between them, or two prefixes in a scope and a drop;
window 2 makes flushes happen both inside of `submit` and at the edges of scopes. Programs of the two kinds
are checked apart (constraint `OneProgram`) because their operations together exceed what TLC can do; the
scalar is for RELAXED programs, STRICT programs are a call shorter, and no scope has the policy of the one
around it. `streaming_live` assumes
`WF(Runtime)` only: the thread that is in the runtime goes on; the program may stop at any time, which is
also why deadlock is not checked in these runs.

* `KeepsStream`: see above; it covers nested flushes, prefixes and exceptions.
* `ReadsSurvive`: no discard, however it was moved, comes before a reader of the store.
* `CheckedIsLaunched`: a prefix is judged by partitions that its operations do not have yet; they get those.
* `FencedGenerations`, `GenerationComplete`, `PointwiseStores`, `ReductionsLast`: what the mapper of section
  6 relies on: generations increase and are kept apart by fences, have as many index tasks as they say, and
  their tasks depend on each other point by point.
* `StrictIsOneGroup`, `NoSecondException`: a STRICT scope streams as one group or not at all, and ending a
  scope while an exception passes never throws a second one.
* `CallsReturn`: flushes nest, but not for ever.

The copy, the unbound and attached stores in streaming scopes, the over-decomposing RELAXED scope and the
single task that is not known to be one are left out of `streaming_scopes`, because there the properties
fail, or the scan for discards ends the program, for the reasons of section 8. The theorems of section 5.3 include
unbound stores.

### 5.3 Proofs (`StreamingWindowProofs`, `StreamingChecksProofs`)

`TypeCorrect`, `GenerationsFenced` (`FencedGenerations`) and `StrictAsOne` (`StrictIsOneGroup`) hold for any finite
set of fields, and any tasks, policies, window size, match frequency and number of calls, from

* `WindowAssumption`, `PolicyAssumption`: sizes are natural numbers, fields are finitely many, and a policy is
  a mode and a number;
* `TasksAssumption`: a program submits tasks, copies and fills, of which the runtime has filled in nothing.

The argument is about the stack of a call. The launch of an operation may submit others, free stores, issue
a match or flush, and all of that comes before the rest of the launch. `Before` says what may interrupt what:
in front of a prefix that is being launched there are only operations that are no tasks and do not flush
(`Harmless`), since a store that dies in a streaming scope leaves the match for later. So the window does
not grow by a task in between, no other prefix is cut off, and the policy stays (`Fits`: a flush goes on
under the policy that it began under). A prefix ends with a fence (`PrefixOK`); hence a generation in the
log is either followed by a fence or the one that is being launched (`LogOK`). `IInv` has these parts, and
what they rest on: ids grow along the window and the item in front is the only one that may have an id
already (`FrontOK`), and a scope that is ended has begun (`LeavesOK`). `FencedGenerations` alone says nothing
of the stack, and is not inductive.

`OneException` (`NoSecondException`) needs `Freq = 0`, a single rank: with matches it is false (`StreamingUnwind`
in section 8). While an exception passes, all that is left to do is to end scopes (`Passes`): each submits a
fence, and the flush that takes it out cannot throw, since the window was cleared and the fence is alone in it
(`Quiet`). `Calm` is inductive together with `IInv`.

`StreamingChecksProofs` is about what the check of a prefix is worth by the time that the prefix is launched,
and about what moving discards and launching prefixes early leaves of program order.
`extract_streamable_prefix` decides from the partitions that the operations would get *if* all before them
were launched; then the launches set key partitions, free stores and submit operations of their own. The
argument has three parts:

* *What was checked.* The checker keeps the last access of each store only, and compares a new operation
  with that. `LastOK` says what this comparison amounts to: any two operations of a prefix that share a store
  were checked with the same partition of it (`Agree`, `PrefixesAgree`), except for single tasks on a store of volume 1.
  `DomainOK` says that all have the launch domain of the first.
* *What is launched.* An operation gets the partition that it was checked with (`StrategyKept`): if an
  operation of the prefix set the key partition of that storage meanwhile, then to the one that both were
  checked with. That holds for one policy only, and a scope flushes the window before the policy changes
  (`PolicyWaits`, `PolicyIsKept`). What interrupts a launch (`Harmless`) sets no key partition. This gives
  `CheckedOK`, and `FollowOK`: what is launched of a prefix agrees with what is left of it.
* *What the mapper sees.* The launched tasks of the last generation and the tasks left of the prefix form one
  group (`Members`, `Group`, `GroupsOK`): either all are index tasks or all are single, and they are as many as each says.

| Theorem | Property | Hypotheses |
|---|---|---|
| `ReductionsStayLast` | `ReductionsLast` | `ScalarsWhole`, no unbound store of volume 1 |
| `LaunchedAsChecked` | `CheckedIsLaunched` | `ScalarsWhole`, no unbound store of volume 1 |
| `StreamsPointwise` | `PointwiseStores` | `ScalarsWhole`, no unbound store of volume 1 |
| `GenerationsComplete` | `GenerationComplete` | `ScalarsWhole`, `AutosIndexed`, no unbound store of volume 1 |
| `ReadsAreFresh` | `ReadsSurvive` | `OnlyTasksRead` |

`ScalarsWhole`: a partition that the program makes by hand of a store with volume 1 is whole or has one
piece. There is no other tiling of one element. `AutosIndexed`: an auto task uses no scalars
(the stores of one are aligned, so it uses scalars only or none), hence is an index task; without it `GenerationComplete` is false, as
`StreamingSingle` of section 8 shows. An unbound store needs no hypothesis of its own: the partition of one
is what the task that makes it produces, which no check before its launch can know, and the check does not
guess. It has a placeholder that agrees with nothing, so no user of the store is in a prefix with its maker.

`ReadsAreFresh` needs none of the above. What waits to be launched stands in a line (`Line`): what interrupts the
prefix, the prefix, the operation that is being submitted, the window. `Finds` says of each reader in it that
whoever wrote the store last, in program order, stands in front of it, or has been launched and nobody in
the line in front of the reader changes the store. `FlowOK` says this for all that waits, and for what
the program will submit next. Every step keeps it:

* A launch takes the first of the line (`Ordered`): either the last writer of a reader is launched now, or it
  was before, and what is launched now does not change the store. So the launch finds what it should (`FreshOK`).
* A prefix is cut off the front of the window, with a fence that changes nothing (`Lean`).
* A discard moves forward to the last task in front of it that uses its store (`Aside`). It passes no task that reads
  the store, but may pass a copy that does. Hence `TasksReadFresh`: what a *task* reads is always fresh, without
  any hypothesis; `ReadsSurvive` says it of every operation, is false with copies (`StreamingCopy` in section 8), and
  holds if only tasks read (`OnlyTasksRead`).
* A destructor submits the discard or release of a store that nobody will read again (`Idles`), and a store
  is made only when nothing else is going on: no item of the stack waits behind the making (`Before`).
* An exception clears all that waits, and what was written last is then what has been launched.

`ReadsWait` is the inductive invariant. It holds together with `IInv` and `AgreeOK`.

## 6. Vertical mapper, and the composition

`VerticalMapper` is how the mapper of one node schedules streaming tasks (`select_tasks_to_map`,
`select_column`, `update_streaming_info` and `map_task` in `mapping/detail/base_mapper.cc`). A processor
that has begun a column (the point tasks with one index) selects only tasks of it, until the whole
generation is mapped there; a processor of which every ready task was refused is asked again after an
event that `map_task` triggers.

`column[p]` is `proc_streaming_info`, `info[c]` is `col_streaming_info_`, `deferred[p]` is what `p` had ready
when it got its deferral event. `Select(p)` is one call of the handler, with the ready tasks in any order;
the mapper is serialised and gives way nowhere, so a call is one step. `MapTask` is `map_task`. Legion is the
environment: it makes a point ready when what it depends on is mapped, point by point if the launches use
the same partition, and maps copies, fills and fences (`MapOther`).

`Streaming` composes the two: the log of `StreamingWindow` is the stream that the mapper is given, and the
mapper works while the program goes on.

| Run | Instance | Shows |
|---|---|---|
| `vertical_mapper` | 3 processors (two columns share one, the third column has its own, launches may go to another kind), 3 columns, a chain of two generations and a wide stream with single and other tasks | `NoGenerationLeftBehind`, `BusyWithOpenColumn`, `EverythingMapped` |
| `streaming_mapper` | 2 fields, 4 calls in a RELAXED scope, one processor with 2 columns | `NothingAwaited` |

`EverythingMapped` assumes `MapperFairness`: Legion asks every processor that has ready tasks and no
pending deferral event, and maps what was selected. `BusyWithOpenColumn` says that `column[p]` is exactly
the column that was begun and not finished on `p`; so two are never open on it, and none is forgotten.
`NothingAwaited` says that whatever the window launched can be mapped without another launch. The run
starts inside of a scope (`SpecInScope`), to spend the four calls on operations, and no field backs a
second store (`FieldsUsedOnce`), because of `StreamingReuse` in section 8. Two columns on one processor
are the smallest case in which a processor can wait for the wrong column.

### 6.1 Proofs (`VerticalMapperProofs`)

`TypeCorrect`, `NoneLeftBehind` (`NoGenerationLeftBehind`) and `BusyWithOne` (`BusyWithOpenColumn`) hold
for all processors, columns, places of points and programs, from these assumptions:

* `PlaceAssumption`, `ColsAssumption`: there are finitely many columns, and every point has a processor;
* `ProgramsAssumption`: generations increase with a fence in between, and have as many index launches as
  they say. That is what `FencedGenerations` and `GenerationComplete`, both theorems of section 5.3, say of
  the window's log; here the mapper is proved to need no more of it. TLC evaluates it for the programs of `vertical_mapper`. A program
  is a complete one; what has been launched so far may end in the middle of a generation (`Prefix`).

The argument: a point is ready only when the fence before it is mapped, and a fence only when all points of
all launches before it are (`Earlier`). So when the first row of a generation comes to a column, all rows of
the generation before have been selected there, hence counted, and the count has come to the size of the
generation, at which it starts again from zero. `IInv` says this for every column: it counts the rows of the
last generation that came to it, with the processors that took them, until the generation is complete
(`ColumnOK`); a processor maps a column exactly as long as it is among those (`TakesPart`); and everything
selected or mapped was ready, which points stay (`LegionOK`). Without the last part `IInv` would not be
inductive: `Earlier` needs that the fence itself was not mapped too early.

The handler takes the ready tasks in any order, so the step of `Select` is itself an induction over the
turns of its loop (`OutcomesOK`, with `AllNaturals` for the induction and `LoopsExist` for the recursive
function that collects what the turns may do). A turn that takes a row keeps the columns in order
(`TakesRowOK`), since the row is of the generation that the column maps or of the next one (`NextRow`).

## 7. Instance manager

`InstanceManager` is the mapper's cache of physical instances for one field in one memory, with the
mapper calls that use it (`mapping/detail/instance_manager.cc`, `mapping/detail/base_mapper.cc:770-1190`).
Legion's mapper is serialised and *reentrant*: a call runs alone until it calls the runtime, and there
another call, or the handler of collected instances, may run. So an action is what a call does between
two calls of the runtime, and `pc` says which one it waits for:

| `pc` | waiting for |
|---|---|
| `map`, `mapped` | the next store; the operation to run |
| `domain` | `get_index_space_domain` of the region |
| `search`, `search again` | `get_index_space_domains` in the middle of `find_instance` |
| `create` | `find_or_create_physical_instance`, or its failure |
| `acquire`, `acquire found` | `acquire_instance` of an instance from the cache, or from the runtime |
| `record new`, `record found` | the end of the call that created or found it |

`groups`, `instances` and `pending` are `groups_`, `instances_` and `pending_instances_` of the
`InstanceSet`. `heap` holds the `RegionGroup` objects; one is freed when nobody points to it
(`Remaining`), so that addresses are used again. `live`, `extent` and `notices` are Legion's instances, and
those of which the mapper is still to be told that they are gone. `FindGroup` is
`find_or_create_region_group` with all orders in which the maps of groups may be walked; `Record` is
`record_instance`, `NoMemory` the failure path with `remove_pending_instance` and the retry with tightened
policies, `AcquireFails` the erasure and the retry, `Handle` is `handle_instance_collection`.

The run `instance_manager` has four regions: R and S overlap so much that they share an instance, T is
the same tile as S in another partition, V crosses S in one point and is too far from it to share. Two
calls map two operations, of reads and writes that merge groups and of reads of exact instances that
split them, with two instances and six addresses (one for each region and each call: the least that
`AddressLeft` guarantees to be enough). Two calls are enough for one to change what the other has read;
two instances for one of them to be collected while the other one is created.

* `Sane` is what `dump_and_sanity_check_` checks in debug builds, here at any time and in all interleavings.
* `RoomForAll`: an instance that a store was mapped to exists and has room for its region; and no more
  than that if the policy is exact. It relates an entry of the cache to the time at which the entry was
  made: by then the group may have been merged, split or replaced.
* `DeadAreForgotten`: a dead instance is in the cache only while its notice is under way.
* `MappingReturns`: a call does not go round for ever. It assumes that Legion answers mapper calls, runs
  mapped operations and sends its notices (`WF` of `Step(c)` and `Handle(i)`).

Deadlock is not checked, since a program may end. Left out: reductions, layouts, colocated stores,
collective writes, and instances of whole fields that are not for a region group.

### 7.1 Proofs (`InstanceManagerProofs`)

`TypeCorrect`, `SanityCheck` and `NoDeadEntries` hold for all regions, boxes, jobs, calls, instances and
addresses, as long as there is an address for each region and each call (`InstanceAssumption`). The
inductive invariant is `IInv`: the cache is well formed (`CacheInv`: its tables have their types, `Sane`,
every group in use has regions, and as many calls are about to create an instance for a group as
`pending` counts), each call has what its place in the code says (`CallInv`), and the runtime's own
tables fit (`RuntimeType`). `pending` and `heap` are what makes it inductive: a group that a call has in its
hands must not be freed or lose its regions before that call records it. `AddressLeft` is a pigeonhole
argument: the groups that are pointed to are images of regions and calls, so an address is free.

`RoomForEveryStore` proves `RoomForAll`, under the further assumption that regions are finite and
rectangular (`BoxAssumption`). It needs to know of every step that it neither changes an instance that the
cache or a call refers to (`InstancesStay`), nor ends one that is held (`HeldStay`), nor changes the
regions of a group that is pointed to before and after it (`GroupsStay`): that is what a call may rely on
while it waits for the runtime. On top of that, `RoomInv` says what each piece of data promises: an entry
of the cache that its instance has room for its group, and an exact one that the group is a single region
(`EntryOK`); a call that creates an instance that its group is for its region (`GroupOK`), that what it
records has room for that group (`RecordOK`) and what it is about to acquire for the region, unless it
has been collected (`AcquireOK`); and that only calls which may use a larger instance search all groups
(`SearchOK`). An exact request never takes a shared entry because of the last three together. The lemmas
about boxes rest on the least element of a set of naturals (`Least`), which the library's
well-foundedness of `<` gives.

## 8. Findings, and further configurations

`order_window_two`: an operation submitted by an out-of-order destruction counts towards the scheduling
window (`runtime/detail/runtime.cc:559`). If the window is larger than the default of one, two shards that
destroy the same store at different points flush their windows at different points, while
`Runtime::allocate_field` and `issue_consensus_match` call Legion directly. So the order of the ordered
Legion calls differs between shards, although `data/detail/logical_store.h:175-177` says that marking the
store lets the runtime work around the non-deterministic removal of references.

`instance_throw`: `record_instance` asks for the group of every region of a group that it may prune, to
make sure that it has no remaining references (`mapping/detail/instance_manager.cc:318-323`). R and S share a
group; an exact instance of S takes S over; that instance is collected and S is erased from `groups_`; an
exact instance of R then replaces the shared group, and `groups_.at(S)` throws `std::out_of_range`.

The configurations below are kept beside the runs, for the MC module of their name (those of the window for
`MCStreamingWindow`, `StreamingReuse` for `MCStreaming`). Each states what a comment or a rule of the code says
and ends with a counterexample of a few steps.

| Configuration | Property | What the code does |
|---|---|---|
| `StreamingCopy` | `ReadsSurvive` | only tasks are asked whether they use a store (`streaming/analysis.cc:480`), so a discard passes a copy that reads it; `streaming/analysis.h:48-49` moves discards over operations that do not use the store |
| `StreamingMatch` | `ThrowsForOpsOnly` | `allocate_field` processes an outstanding match also in a STRICT scope (`field_manager.cc:175`), and the flush throws, though all operations of the scope stream (`tuning/parallel_policy.h:52-53`) |
| `StreamingUnwind` | `NoSecondException` | as before, and while this exception passes, the end of the scope issues a match (`runtime/detail/scope.cc:113`) whose flush throws a second one out of `~Scope` (`tuning/scope.cc:240`); `tuning/scope.h:270-274` counts on one |
| `StreamingNesting` | `TableHolds` | a scope without streaming is let into a RELAXED one (`runtime/detail/scope.cc:67`), which the table above it (`:45`) refuses |
| `StreamingSingle` | `GenerationComplete` | an auto task that becomes a single task is counted into the generation (`streaming/analysis.cc:179`), though singletons are not to be (`:339-341`) |
| `StreamingUnbound` | `RegionsExist` | the scan for discards asks for the region of every store (`streaming/analysis.cc:222`), also of one that is unbound (`:219-221`) |
| `StreamingDetach` | `DetachedOnReuse` | a STRICT scope that is cleared (`runtime.cc:493`) loses the release of a field, which `data/detail/logical_region_field.cc:83-87` counts on when the field is used again |
| `StreamingTiles` | `TilesOfPolicy` | the storage finds a key partition of another policy (`data/detail/storage.cc:782`); `tuning/parallel_policy.h:91-93` |
| `StreamingReuse` | `NothingAwaited` | accesses are compared per storage (`streaming/dependency_checker.cc:79`), and a new store on a reused field is another one for the checker, but the same for Legion (`streaming/dependency_checker.h:29-37`) |
| `VerticalMapperSplit` | `NoStandstill` | rows of a generation on processors of different kinds (`mapping/detail/base_mapper.cc:2243`) may begin different columns, and none of them is asked again (`:741`, `base_mapper.h:462-463`) |
| `InstanceManagerSet` | `SetOutlivesSearch` | the set is erased by another call while `find_instance` waits for domains (`mapping/detail/instance_manager.cc:83`) |
| `InstanceManagerCopy` | `RedundantNotCached` | instances of redundant copies are recorded (`mapping/detail/base_mapper.cc:1186`), though they should not be cached (`:1049-1052`) |

## 9. What is proved, what is checked, what is not modelled

Proved for all values of the constants: the theorems of sections 3.3, 4.3, 5.3, 6.1 and 7.1.
Model-checked only:

* everything about liveness (fairness is out of the prover's reach);
* `KeepsStream`: `OpStream` compares sequences that are filtered and concatenated item by item, and what
  such a fold computes for every sequence is an induction over data;
* `ReadsSurvive` with copies is false (`StreamingCopy` in section 8); of what tasks read it is proved with them
  too (`TasksReadFresh`);
* `NoSecondException` is false with matches (`Freq > 0`), and is checked and proved without;
* `EverythingMapped`, which is liveness, and `NothingAwaited` of the composition `Streaming`. The latter needs
  the theorems about generations and those of section 6.1 at once, and on top of them Legion's dependences
  between the rows of a generation and on fills and other operations in between. It is checked on
  programs of tasks.

Not modelled (see also the components of `PROJECT.json`):

* Field manager and fields: `drain()` at the end of the run, the limit on the fields of a region, the
  64-bit credit that is returned as 32 bits (`runtime/detail/field_manager.cc:224`), stores that are destroyed
  after the runtime has finished, mapping and unmapping, index attaches, sub-stores.
* Local collectives: several communicators at a time with the growth of `thread_comms_`, checks of
  arguments, element types and rounding, receive displacements, the destructor of the network. The MPI
  and UCC networks leave the matching of messages to their libraries, and are calls of those libraries for the rest.
* Streaming: stores that span several fields or regions, image partitions made by Legion, manual
  partitions changed by the program inside of a scope, task variants that do not exist.
* Mapper: slicing and sharding, which are functions of a launch; mappers of other nodes.
* The partitioner: only which key partition the aligned stores of an operation take. Its constraint
  solver is a pure computation on one operation.
* Start, finish, the communicator manager, pending exceptions and shared pointers: small state machines
  with little that interleaves, left for later.
* Types, scalars, transforms, serialization, argument parsing, HDF5, CUDA, timing, the experimental STL:
  data conversions and I/O.
