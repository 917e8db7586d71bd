---- MODULE LocalNetwork ----
(* LocalNetwork and ThreadComm (comm/detail): the CPU collectives of the threads of one process. The   *)
(* threads publish pointers to their buffers, spin until their peers have published theirs, copy, and  *)
(* meet in a barrier before and after they take their pointers back. One action is what a thread does  *)
(* between two accesses to something that other threads change; only the two pointers of one peer are  *)
(* read, and those of one's own are taken back, in one action.                                         *)
EXTENDS Integers, Sequences, FiniteSets

CONSTANTS N,        \* global_comm_size, the number of threads
          Ops,      \* the collective operations the program uses
          MaxCalls  \* bound on the number of calls, creation and destruction included

ASSUME ConstAssumption ==
  /\ N \in Nat \ {0}
  /\ Ops \subseteq {"all_to_all_v", "all_to_all", "all_gather", "all_reduce"}
  /\ MaxCalls \in Nat

Ranks == 0 .. N - 1
Null == <<>>  \* the null pointer

VARIABLES prog,     \* the calls of the program, as far as some rank has come
          call,     \* call[r]: how many calls rank r has entered
          pc,       \* where rank r is in its call
          ready,    \* ThreadComm::ready_flag_
          entered,  \* ThreadComm::entered_finalize_
          buffers,  \* ThreadComm::buffers_: pointers
          displs,   \* ThreadComm::displs_: pointers
          bar,      \* ThreadComm::barrier_
          mem,      \* the memory that pointers lead to
          inplace,  \* inplace[r]: sendbuf = recvbuf in this call
          copied,   \* copied[r]: how often rank r has gone through its loop in this call
          from      \* from[r]: the pointers rank r is about to copy through

vars == <<prog, call, pc, ready, entered, buffers, displs, bar, mem, inplace, copied, from>>

Barrier == INSTANCE Barrier

\* A pointer names an array by its kind and its owner. The content of a slot of a buffer is the
\* sequence of the items that were reduced into it; the content of a slot of a displacement array is
\* the number of a slot.
Pointer(kind, r) == <<kind, r>>
Pointers == {"send", "recv", "temp", "displs"} \X Ranks
\* The call that rank r is in, or has returned from
op(r) == IF call[r] = 0 THEN "none" ELSE prog[call[r]]

PCs == {"idle",      \* outside of the network
        "init", "flag", "await", "created",          \* comm_create
        "displs", "publish", "wait", "load", "copy", \* the collectives, up to their loop,
        "copied", "delete", "reset", "again",        \* and after it
        "destroy", "finalize", "finalizer", "unready", "leaving"} \* comm_destroy

-----------------------------------------------------------------------------------------------------
\* What the network promises to its callers: see Collective. A rank that is outside holds what the last
\* call left in its receive buffer.
result ==
  [r \in Ranks |->
     IF pc[r] # "idle" THEN <<>>
     ELSE IF op(r) \in Ops THEN IF op(r) = "all_reduce" THEN mem[Pointer("recv", r)][0]
                                                       ELSE mem[Pointer("recv", r)]
     ELSE <<0>>]

Promise == INSTANCE Collective

\* A rank returns from a call only when all ranks have made it, and then it holds what its peers passed to
\* this very call, one item of each, even if its own send buffer is the one it receives into. With
\* EveryCallReturns, Promise!Spec: the network implements the collectives.
KeepsPromise == Promise!Safe

\* A call that all ranks have made returns to each of them: no rank spins for ever for a pointer, in a
\* barrier, or for the creation or the end of the communicator.
EveryCallReturns == Promise!Answers

-----------------------------------------------------------------------------------------------------
\* What the caller passes to call k; there is no call 0
Garbage == <<Promise!Item(0, 0, 0)>>
Unwritten == [q \in Ranks |-> Garbage]
NoSlots == [q \in Ranks |-> N]

\* The displacements: the slots of one call in order, of the next in reverse order (its own inverse)
Sdispls(k) == [q \in Ranks |-> IF k % 2 = 0 THEN q ELSE N - 1 - q]

\* The data that p sends, in the slots where this call expects it
UserData(p, k, v) ==
  [s \in Ranks |-> <<Promise!Item(p, IF v = "all_to_all_v" THEN Sdispls(k)[s] ELSE s, k)>>]

\* The user's memory when rank r enters call k. The receive buffer holds nothing of use, unless it is the
\* send buffer too.
UserMemory(r, k, v, same) ==
  [mem EXCEPT
     ![Pointer("send", r)] = IF same THEN Unwritten ELSE UserData(r, k, v),
     ![Pointer("recv", r)] = IF same THEN UserData(r, k, v) ELSE Unwritten,
     ![Pointer("displs", r)] = IF v = "all_to_all_v" THEN Sdispls(k) ELSE @]

-----------------------------------------------------------------------------------------------------
Init ==
  /\ prog = <<>>
  /\ call = [r \in Ranks |-> 0]
  /\ pc = [r \in Ranks |-> "idle"]
  /\ ready = FALSE
  /\ entered = 0
  /\ buffers = [r \in Ranks |-> Null]
  /\ displs = [r \in Ranks |-> Null]
  /\ Barrier!Init
  /\ mem = [a \in Pointers |-> IF a[1] = "displs" THEN NoSlots ELSE Unwritten]
  /\ inplace = [r \in Ranks |-> FALSE]
  /\ copied = [r \in Ranks |-> 0]
  /\ from = [r \in Ranks |-> <<Null, Null>>]

\* Rank r is outside and makes its next call
Enter(r, v) ==
  /\ pc[r] = "idle"
  /\ Promise!Calls(r, v)
  /\ call[r] + 1 = MaxCalls => v = "destroy"
  /\ call' = [call EXCEPT ![r] = @ + 1]

Goto(r, l) == pc' = [pc EXCEPT ![r] = l]

-----------------------------------------------------------------------------------------------------
\* comm_create

Create(r) ==
  /\ Enter(r, "create")
  /\ Goto(r, IF r = 0 THEN "init" ELSE "await")
  /\ UNCHANGED <<ready, entered, buffers, displs, bar, mem, inplace, copied, from>>

\* ThreadComm::init, up to the store of the flag that the other threads spin on
InitComm(r) ==
  /\ pc[r] = "init"
  /\ Barrier!Create
  /\ buffers' = [q \in Ranks |-> Null]
  /\ displs' = [q \in Ranks |-> Null]
  /\ entered' = 0
  /\ Goto(r, "flag")
  /\ UNCHANGED <<prog, call, ready, mem, inplace, copied, from>>

SetReady(r) ==
  /\ pc[r] = "flag"
  /\ ready' = TRUE
  /\ Goto(r, "await")
  /\ UNCHANGED <<prog, call, entered, buffers, displs, bar, mem, inplace, copied, from>>

AwaitReady(r) ==
  /\ pc[r] = "await"
  /\ ready
  /\ Goto(r, "created")
  /\ UNCHANGED <<prog, call, ready, entered, buffers, displs, bar, mem, inplace, copied, from>>

-----------------------------------------------------------------------------------------------------
\* barrier_local_: where it is called, and where its caller goes on

AtBarrier == {"created", "copied", "again", "destroy"}

AfterBarrier(r) ==
  CASE pc[r] = "created" -> "idle"
    [] pc[r] = "copied"  -> IF inplace[r] THEN "delete" ELSE "reset"
    [] pc[r] = "again"   -> "idle"
    [] pc[r] = "destroy" -> "finalize"

Arrive(r) ==
  /\ pc[r] \in AtBarrier
  /\ Barrier!Arrive(r)
  /\ UNCHANGED <<prog, call, pc, ready, entered, buffers, displs, mem, inplace, copied, from>>

Leave(r) ==
  /\ pc[r] \in AtBarrier
  /\ Barrier!Leave(r)
  /\ Goto(r, AfterBarrier(r))
  /\ UNCHANGED <<prog, call, ready, entered, buffers, displs, mem, inplace, copied, from>>

-----------------------------------------------------------------------------------------------------
\* The collectives

\* Only these two accept sendbuf = recvbuf (coll.cc:83-86, 112-116).
InPlace == {"all_gather", "all_reduce"}

\* (mutant) no copy of a buffer that is both sent and received into
SourceShared(r, same) == IF same THEN Pointer("recv", r) ELSE Pointer("send", r)

\* sendbuf_tmp
Source(r, same) == IF same THEN Pointer("temp", r) ELSE Pointer("send", r)

\* What is in memory when rank r has made its private copies: the temporary buffer of an in-place call,
\* which has the size of one slot, and its own contribution to a reduction.
WithTemp(r, m, same) ==
  IF same THEN [m EXCEPT ![Pointer("temp", r)] = [Unwritten EXCEPT ![0] = m[Pointer("recv", r)][0]]] ELSE m

WithOwn(r, m, v, same) ==
  IF v = "all_reduce" THEN [m EXCEPT ![Pointer("recv", r)][0] = m[Source(r, same)][0]] ELSE m

\* A collective is called; nothing is published yet.
Collect(r, v, same) ==
  /\ v \in Ops
  /\ same => v \in InPlace
  /\ Enter(r, v)
  /\ mem' = WithOwn(r, WithTemp(r, UserMemory(r, call[r] + 1, v, same), same), v, same)
  /\ inplace' = [inplace EXCEPT ![r] = same]
  /\ copied' = [copied EXCEPT ![r] = 0]
  /\ Goto(r, IF v = "all_to_all_v" THEN "displs" ELSE "publish")
  /\ UNCHANGED <<ready, entered, buffers, displs, bar, from>>

PublishDispls(r) ==
  /\ pc[r] = "displs"
  /\ displs' = [displs EXCEPT ![r] = Pointer("displs", r)]
  /\ Goto(r, "publish")
  /\ UNCHANGED <<prog, call, ready, entered, buffers, bar, mem, inplace, copied, from>>

\* The order in which rank r goes through its peers: to the left around the ring from its neighbour to
\* itself, or upwards, without itself if it has reduced its own contribution already.
Peers(r) ==
  CASE op(r) \in {"all_to_all_v", "all_to_all"} -> [i \in 1 .. N |-> (r + N - i) % N]
    [] op(r) = "all_gather" -> [i \in 1 .. N |-> i - 1]
    [] op(r) = "all_reduce" -> [i \in 1 .. N - 1 |-> IF i - 1 < r THEN i - 1 ELSE i]

peer(r) == Peers(r)[copied[r] + 1]

\* The head of the loop, when rank r has copied n times
Loop(r, n) == Goto(r, IF n = Len(Peers(r)) THEN "copied" ELSE "wait")

Publish(r) ==
  /\ pc[r] = "publish"
  /\ buffers' = [buffers EXCEPT ![r] = Source(r, inplace[r])]
  /\ Loop(r, 0)
  /\ UNCHANGED <<prog, call, ready, entered, displs, bar, mem, inplace, copied, from>>

\* The spin loop ends ...
Wait(r) ==
  /\ pc[r] = "wait"
  /\ buffers[peer(r)] # Null
  /\ op(r) = "all_to_all_v" => displs[peer(r)] # Null
  /\ Goto(r, "load")
  /\ UNCHANGED <<prog, call, ready, entered, buffers, displs, bar, mem, inplace, copied, from>>

\* ... and the pointers are loaded again,
Load(r) ==
  /\ pc[r] = "load"
  /\ from' = [from EXCEPT ![r] = <<buffers[peer(r)], displs[peer(r)]>>]
  /\ Goto(r, "copy")
  /\ UNCHANGED <<prog, call, ready, entered, buffers, displs, bar, mem, inplace, copied>>

\* The slot of its peer's buffer that rank r reads
Segment(r) ==
  CASE op(r) = "all_to_all_v" -> mem[from[r][2]][r]
    [] op(r) = "all_to_all" -> r
    [] OTHER -> 0

Data(r) == mem[from[r][1]][Segment(r)]

\* then rank r copies through them, or reduces into its receive buffer.
Copy(r) ==
  /\ pc[r] = "copy"
  /\ mem' = IF op(r) = "all_reduce" THEN [mem EXCEPT ![Pointer("recv", r)][0] = @ \o Data(r)]
                                    ELSE [mem EXCEPT ![Pointer("recv", r)][peer(r)] = Data(r)]
  /\ copied' = [copied EXCEPT ![r] = @ + 1]
  /\ from' = [from EXCEPT ![r] = <<Null, Null>>]
  /\ Loop(r, copied[r] + 1)
  /\ UNCHANGED <<prog, call, ready, entered, buffers, displs, bar, inplace>>

\* delete_inplace_buffer_
Delete(r) ==
  /\ pc[r] = "delete"
  /\ mem' = [mem EXCEPT ![Pointer("temp", r)] = Unwritten]
  /\ Goto(r, "reset")
  /\ UNCHANGED <<prog, call, ready, entered, buffers, displs, bar, inplace, copied, from>>

\* (mutant) no second barrier
ResetAndReturn(r) ==
  /\ pc[r] = "reset"
  /\ buffers' = [buffers EXCEPT ![r] = Null]
  /\ displs' = [displs EXCEPT ![r] = Null]
  /\ Goto(r, "idle")
  /\ UNCHANGED <<prog, call, ready, entered, bar, mem, inplace, copied, from>>

\* reset_local_buffer_
Reset(r) ==
  /\ pc[r] = "reset"
  /\ buffers' = [buffers EXCEPT ![r] = Null]
  /\ displs' = [displs EXCEPT ![r] = Null]
  /\ Goto(r, "again")
  /\ UNCHANGED <<prog, call, ready, entered, bar, mem, inplace, copied, from>>

-----------------------------------------------------------------------------------------------------
\* comm_destroy

Destroy(r) ==
  /\ Enter(r, "destroy")
  /\ Goto(r, "destroy")
  /\ UNCHANGED <<ready, entered, buffers, displs, bar, mem, inplace, copied, from>>

\* ThreadComm::finalize
Finalize(r) ==
  /\ pc[r] = "finalize"
  /\ entered' = entered + 1
  /\ Goto(r, IF r = 0 THEN "finalizer" ELSE "leaving")
  /\ UNCHANGED <<prog, call, ready, buffers, displs, bar, mem, inplace, copied, from>>

\* (mutant) rank 0 does not wait for the others
ClearEarly(r) ==
  /\ pc[r] = "finalizer"
  /\ entered' = 0
  /\ bar' = [q \in Ranks |-> "none"]
  /\ buffers' = [q \in Ranks |-> Null]
  /\ displs' = [q \in Ranks |-> Null]
  /\ Goto(r, "unready")
  /\ UNCHANGED <<prog, call, ready, mem, inplace, copied, from>>

\* (mutant) the counter keeps its value
ClearNoReset(r) ==
  /\ pc[r] = "finalizer"
  /\ entered = N
  /\ bar' = [q \in Ranks |-> "none"]
  /\ buffers' = [q \in Ranks |-> Null]
  /\ displs' = [q \in Ranks |-> Null]
  /\ Goto(r, "unready")
  /\ UNCHANGED <<prog, call, ready, entered, mem, inplace, copied, from>>

\* Rank 0 waits for the others to have left the barrier. ThreadComm::clear up to the store of the flag
Clear(r) ==
  /\ pc[r] = "finalizer"
  /\ entered = N
  /\ entered' = 0
  /\ bar' = [q \in Ranks |-> "none"]
  /\ buffers' = [q \in Ranks |-> Null]
  /\ displs' = [q \in Ranks |-> Null]
  /\ Goto(r, "unready")
  /\ UNCHANGED <<prog, call, ready, mem, inplace, copied, from>>

\* (mutant) the flag stays up
StayReady(r) ==
  /\ pc[r] = "unready"
  /\ Goto(r, "idle")
  /\ UNCHANGED <<prog, call, ready, entered, buffers, displs, bar, mem, inplace, copied, from>>

Unready(r) ==
  /\ pc[r] = "unready"
  /\ ready' = FALSE
  /\ Goto(r, "idle")
  /\ UNCHANGED <<prog, call, entered, buffers, displs, bar, mem, inplace, copied, from>>

\* (mutant) nobody waits for rank 0
LeaveAtOnce(r) ==
  /\ pc[r] = "leaving"
  /\ Goto(r, "idle")
  /\ UNCHANGED <<prog, call, ready, entered, buffers, displs, bar, mem, inplace, copied, from>>

\* The others are not allowed to leave before.
AwaitCleared(r) ==
  /\ pc[r] = "leaving"
  /\ ~ready
  /\ Goto(r, "idle")
  /\ UNCHANGED <<prog, call, ready, entered, buffers, displs, bar, mem, inplace, copied, from>>

-----------------------------------------------------------------------------------------------------
\* What a thread does inside of a call
Step(r) ==
  \/ InitComm(r) \/ SetReady(r) \/ AwaitReady(r)
  \/ Arrive(r) \/ Leave(r)
  \/ PublishDispls(r) \/ Publish(r) \/ Wait(r) \/ Load(r) \/ Copy(r) \/ Delete(r) \/ Reset(r)
  \/ Finalize(r) \/ Clear(r) \/ Unready(r) \/ AwaitCleared(r)

Call(r) ==
  \/ Create(r)
  \/ Destroy(r)
  \/ \E v \in Ops, same \in BOOLEAN : Collect(r, v, same)

\* All ranks have returned from comm_destroy.
Terminated ==
  /\ \A r \in Ranks : pc[r] = "idle" /\ op(r) = "destroy"
  /\ UNCHANGED vars

Next == Terminated \/ \E r \in Ranks : Call(r) \/ Step(r)

Spec == Init /\ [][Next]_vars

\* A thread inside of a call is scheduled; when to make a call is up to the user's task.
FairSpec == Spec /\ \A r \in Ranks : WF_vars(Step(r))

-----------------------------------------------------------------------------------------------------
\* Properties

\* Types, and the range of the loop and of the finalize counter: the number of ranks that wait in
\* ThreadComm::finalize is counted exactly.
TypeOK ==
  /\ Len(prog) <= MaxCalls
  /\ call \in [Ranks -> 0 .. Len(prog)]
  /\ pc \in [Ranks -> PCs]
  /\ ready \in BOOLEAN
  /\ entered = Cardinality({r \in Ranks : pc[r] \in {"finalizer", "leaving"} /\ bar[r] # "none"})
  /\ buffers \in [Ranks -> Pointers \cup {Null}]
  /\ displs \in [Ranks -> Pointers \cup {Null}]
  /\ Barrier!TypeOK
  /\ inplace \in [Ranks -> BOOLEAN]
  /\ copied \in [Ranks -> 0 .. N]
  /\ from \in [Ranks -> (Pointers \cup {Null}) \X (Pointers \cup {Null})]

\* A rank that copies does so from memory that its peer passed to the same call and that still holds
\* what the peer put there: the peer may not delete its temporary buffer, return to a user who reuses
\* the send buffer, or leave the pointer of its last call behind, while somebody may look.
ReadsCurrentCall ==
  \A r \in Ranks : pc[r] = "copy" =>
    /\ from[r][1] \in Pointers
    /\ op(r) = "all_to_all_v" => from[r][2] \in Pointers
    /\ Data(r) = <<Promise!Item(peer(r), IF op(r) \in InPlace THEN 0 ELSE r, call[r])>>

\* While a rank is between the creation and the destruction of the communicator, or is still inside the
\* barrier of comm_destroy, the communicator is ready and its barrier exists; the LEGATE_CHECKs on
\* ready() in comm_create hold, and nobody hangs in a barrier that rank 0 has destroyed.
Using(r) ==
  \/ pc[r] \in PCs \ {"idle", "init", "flag", "await", "unready", "leaving"}
  \/ pc[r] = "idle" /\ op(r) \notin {"none", "destroy"}

AliveWhileUsed == \A r \in Ranks : Using(r) => ready /\ bar[r] # "none"

\* Nobody returns from comm_destroy before the communicator is gone: the user may then destroy the
\* network, whose destructor checks that no communicator is ready, and no rank is left in it that would
\* touch the barrier or the pointers that rank 0 has freed.
GoneWhenDestroyed ==
  (\E r \in Ranks : pc[r] = "idle" /\ op(r) = "destroy") =>
    /\ ~ready
    /\ entered = 0
    /\ \A r \in Ranks : ~Using(r) /\ bar[r] = "none"
====
