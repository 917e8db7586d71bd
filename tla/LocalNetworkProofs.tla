---- MODULE LocalNetworkProofs ----
(* LocalNetwork: a rank reads only what its peers passed to the call that it is in, and uses the       *)
(* communicator only while it exists, for any number of threads and any sequence of calls.             *)
(*                                                                                                     *)
(* The argument: the last rank to reach a barrier lets all ranks through at once, so all ranks have    *)
(* passed the same barriers at all times (Rounds). A rank that copies has not passed the first barrier *)
(* of its call, hence its peers have not either: they have neither taken their pointers back nor       *)
(* touched what these lead to. A pointer that is not null belongs to the call of the rank that reads   *)
(* it, because its owner has not passed the second barrier of the call before without a reset.         *)
(*                                                                                                     *)
(* From this follows what a rank holds (Received): one item of each peer that it has gone through, in  *)
(* the order of its loop. A rank that returns has passed the last barrier of its call, so all ranks    *)
(* have entered that call (Rounds), and it has gone through all its peers: the return of Collective.   *)
EXTENDS LocalNetwork, FiniteSetTheorems, TLAPS

AllCalls == Ops \cup {"create", "destroy"}

\* The program begins with the creation, and nothing follows the destruction.
ProgOK ==
  /\ prog \in Seq(AllCalls)
  /\ \A i \in 1 .. Len(prog) : /\ prog[i] = "create" <=> i = 1
                               /\ prog[i] = "destroy" => i = Len(prog)

Types ==
  /\ call \in [Ranks -> Nat]
  /\ \A r \in Ranks : call[r] <= Len(prog)
  /\ pc \in [Ranks -> PCs]
  /\ ready \in BOOLEAN
  /\ buffers \in [Ranks -> Pointers \cup {Null}]
  /\ displs \in [Ranks -> Pointers \cup {Null}]
  /\ bar \in [Ranks -> Barrier!States]
  /\ inplace \in [Ranks -> BOOLEAN]
  /\ copied \in [Ranks -> Nat]
  /\ from \in [Ranks -> (Pointers \cup {Null}) \X (Pointers \cup {Null})]

CreatePCs == {"init", "flag", "await", "created"}
CollectPCs == {"displs", "publish", "wait", "load", "copy", "copied", "delete", "reset", "again"}
DestroyPCs == {"destroy", "finalize", "finalizer", "unready", "leaving"}

\* Where a rank is fits the call that it is in.
Places ==
  \A r \in Ranks :
    /\ pc[r] # "idle" => call[r] # 0
    /\ pc[r] \in CreatePCs => op(r) = "create"
    /\ pc[r] \in CollectPCs => op(r) \in Ops
    /\ pc[r] \in DestroyPCs => op(r) = "destroy"
    /\ pc[r] = "displs" => op(r) = "all_to_all_v"
    /\ pc[r] \in CollectPCs /\ inplace[r] => op(r) \in InPlace
    /\ pc[r] \in {"init", "flag", "finalizer", "unready"} => r = 0
    /\ pc[r] = "leaving" => r # 0
    /\ bar[r] \in {"in", "released"} => pc[r] \in AtBarrier

\* Rank r has passed the last barrier of the last call that it entered.
After(r) ==
  \/ pc[r] \in {"idle", "finalize", "finalizer", "unready", "leaving"}
  \/ pc[r] \in {"created", "again", "destroy"} /\ bar[r] = "released"

\* How many calls rank r has been through, up to their last barrier
Done(r) == IF After(r) THEN call[r] ELSE call[r] - 1

\* Rank r has passed the first barrier of a collective, but not the second one.
Half(r) ==
  \/ pc[r] \in {"delete", "reset"}
  \/ pc[r] = "copied" /\ bar[r] = "released"
  \/ pc[r] = "again" /\ bar[r] # "released"

\* All ranks have passed the same barriers.
Rounds == \A r, q \in Ranks : Done(r) = Done(q) /\ (Half(r) <=> Half(q))

\* The life of the communicator follows rank 0.
Created == call[0] # 0 /\ pc[0] # "init"
Returned(r) == pc[r] = "idle" /\ op(r) = "destroy"
Gone == pc[0] = "unready" \/ Returned(0)

Life ==
  /\ \A r \in Ranks : bar[r] = "none" <=> ~Created \/ Gone
  /\ ready <=> Created /\ pc[0] # "flag" /\ ~Returned(0)
  /\ \A r \in Ranks : /\ pc[r] = "created" => ready
                      /\ Gone /\ r # 0 => pc[r] = "leaving" \/ Returned(r)
                      /\ Returned(r) => Returned(0)

\* The ranks that ThreadComm::finalize has counted
Counted == {r \in Ranks : pc[r] \in {"finalizer", "leaving"} /\ bar[r] # "none"}
EnteredOK == entered = Cardinality(Counted)

\* Rank r has published its buffer.
Out(r) == pc[r] \in {"wait", "load", "copy", "copied", "delete", "reset"}

\* The pointers that are published, and those that a rank has loaded
Published ==
  \A r \in Ranks :
    /\ buffers[r] = IF Out(r) THEN Source(r, inplace[r]) ELSE Null
    /\ displs[r] = IF op(r) = "all_to_all_v" /\ (Out(r) \/ pc[r] = "publish")
                     THEN Pointer("displs", r) ELSE Null

LoadedBy(r) ==
  /\ pc[r] \in {"displs", "publish"} => copied[r] = 0
  /\ pc[r] \in {"wait", "load", "copy"} => copied[r] < Len(Peers(r))
  /\ pc[r] \in {"load", "copy"} => Out(peer(r))
  /\ pc[r] = "copy" => /\ from[r][1] = Source(peer(r), inplace[peer(r)])
                       /\ op(r) = "all_to_all_v" => from[r][2] = Pointer("displs", peer(r))

Loaded == \A r \in Ranks : LoadedBy(r)

\* A rank that has not passed the first barrier of a collective still has in memory what it sends.
Sends(r) == pc[r] \in {"displs", "publish", "wait", "load", "copy", "copied"}

Memory ==
  /\ mem = [a \in Pointers |-> mem[a]]
  /\ \A a \in Pointers : mem[a] = [s \in Ranks |-> mem[a][s]]
  /\ \A r \in Ranks : Sends(r) =>
       /\ inplace[r] => mem[Pointer("temp", r)][0] = UserData(r, call[r], op(r))[0]
       /\ ~inplace[r] => mem[Pointer("send", r)] = UserData(r, call[r], op(r))
       /\ op(r) = "all_to_all_v" => mem[Pointer("displs", r)] = Sdispls(call[r])

IInv ==
  /\ ProgOK
  /\ Types
  /\ Places
  /\ Rounds
  /\ Life
  /\ EnteredOK
  /\ Published
  /\ Loaded
  /\ Memory

-----------------------------------------------------------------------------------------------------
\* Ranks

\* There is a rank.
LEMMA RankFacts ==
  /\ N \in Nat /\ N # 0
  /\ 0 \in Ranks
  /\ \A r \in Ranks : r \in Nat /\ r < N
  /\ IsFiniteSet(Ranks)
  /\ Cardinality(Ranks) = N
PROOF
<1>1. N \in Nat /\ N # 0 /\ 0 \in Ranks /\ \A r \in Ranks : r \in Nat /\ r < N
  BY ConstAssumption DEF Ranks
<1>2. IsFiniteSet(0 .. N - 1) /\ Cardinality(0 .. N - 1) = N
  <2>1. N - 1 \in Int /\ ~(0 > N - 1) /\ (N - 1) - 0 + 1 = N
    BY <1>1
  <2> QED
    BY <2>1, FS_Interval
<1> QED
  BY <1>1, <1>2 DEF Ranks

\* What entering a call does to the program and to the calls that the ranks are in
LEMMA EnterFacts ==
  ASSUME ProgOK, Types, NEW r \in Ranks, NEW v \in AllCalls, Enter(r, v)
  PROVE  /\ ProgOK'
         /\ pc[r] = "idle"
         /\ call' = [call EXCEPT ![r] = @ + 1]
         /\ \A q \in Ranks : call'[q] \in Nat /\ call'[q] <= Len(prog')
         /\ op(r)' = v /\ op(r) # "destroy"
         /\ \A q \in Ranks \ {r} : op(q)' = op(q)
         /\ v = "create" <=> call[r] = 0
PROOF
<1> DEFINE k == call[r] + 1
<1>1. k \in Nat \ {0} /\ call[r] \in Nat /\ call[r] <= Len(prog) /\ Len(prog) \in Nat
  BY DEF Types, ProgOK
<1>2. pc[r] = "idle" /\ call' = [call EXCEPT ![r] = @ + 1] /\ Promise!Calls(r, v)
  BY DEF Enter
<1>3. CASE call[r] < Len(prog)
  <2>1. prog' = prog /\ v = prog[k]
    BY <1>2, <1>3 DEF Promise!Calls
  <2>2. op(r) # "destroy"
    BY <1>1, <1>3 DEF op, ProgOK
  <2>3. \A q \in Ranks : call'[q] \in Nat /\ call'[q] <= Len(prog')
    BY <1>1, <1>2, <1>3, <2>1 DEF Types
  <2>4. op(r)' = v /\ \A q \in Ranks \ {r} : op(q)' = op(q)
    BY <1>1, <1>2, <2>1 DEF op, Types
  <2>5. v = "create" <=> call[r] = 0
    BY <1>1, <1>3, <2>1 DEF ProgOK
  <2>6. ProgOK'
    BY <2>1 DEF ProgOK
  <2> QED
    BY <1>2, <2>2, <2>3, <2>4, <2>5, <2>6
<1>4. CASE ~(call[r] < Len(prog))
  <2>1. prog' = Append(prog, v) /\ Promise!Callable(v, k) /\ call[r] = Len(prog)
    BY <1>1, <1>2, <1>4 DEF Promise!Calls
  <2>2. /\ prog' \in Seq(AllCalls) /\ Len(prog') = k /\ prog'[k] = v
        /\ \A i \in 1 .. Len(prog) : prog'[i] = prog[i]
    BY <2>1 DEF ProgOK
  <2>3. (k = 1 <=> v = "create") /\ (k > 1 => prog[k - 1] # "destroy")
    BY <2>1 DEF Promise!Callable
  <2>4. op(r) # "destroy"
    BY <1>1, <2>1, <2>3 DEF op
  <2>5. \A q \in Ranks : call'[q] \in Nat /\ call'[q] <= Len(prog')
    BY <1>1, <1>2, <2>1, <2>2 DEF Types
  <2>6. op(r)' = v /\ \A q \in Ranks \ {r} : op(q)' = op(q)
    BY <1>1, <1>2, <2>2 DEF op, Types
  <2>7. ProgOK'
    <3>1. \A i \in 1 .. Len(prog') : prog'[i] = "create" <=> i = 1
      BY <1>1, <2>1, <2>2, <2>3 DEF ProgOK
    <3>2. \A i \in 1 .. Len(prog') : prog'[i] = "destroy" => i = Len(prog')
      BY <1>1, <2>1, <2>2, <2>3 DEF ProgOK
    <3> QED
      BY <2>2, <3>1, <3>2 DEF ProgOK
  <2> QED
    BY <1>1, <1>2, <2>1, <2>3, <2>4, <2>5, <2>6, <2>7
<1> QED
  BY <1>3, <1>4

\* The calls of a program do not include those that only the life cycle makes.
LEMMA OpsFacts == "create" \notin Ops /\ "destroy" \notin Ops /\ "none" \notin AllCalls
PROOF
  BY ConstAssumption DEF AllCalls

\* A step inside of a call changes neither the program nor the call that a rank is in.
LEMMA SameCalls ==
  ASSUME NEW r \in Ranks, Step(r)
  PROVE  UNCHANGED <<prog, call>> /\ \A q \in Ranks : op(q)' = op(q)
PROOF
<1>1. UNCHANGED <<prog, call>>
  BY DEF Step, InitComm, SetReady, AwaitReady, Arrive, Leave, PublishDispls, Publish, Wait, Load, Copy,
         Delete, Reset, Finalize, Clear, Unready, AwaitCleared
<1> QED
  BY <1>1 DEF op

\* The program still begins with the creation and ends with the destruction.
LEMMA ProgHolds == ASSUME IInv, [Next]_vars PROVE ProgOK'
PROOF
<1>1. ASSUME NEW r \in Ranks, Call(r) PROVE ProgOK'
  BY <1>1, EnterFacts DEF IInv, Call, Create, Destroy, Collect, AllCalls
<1>2. ASSUME NEW r \in Ranks, Step(r) PROVE ProgOK'
  BY <1>2, SameCalls DEF IInv, ProgOK
<1>3. CASE UNCHANGED vars
  BY <1>3 DEF IInv, ProgOK, vars
<1> QED
  BY <1>1, <1>2, <1>3 DEF Next, Terminated

\* Going to the left around the ring
LEMMA RingFacts ==
  ASSUME NEW r \in Ranks, NEW i \in 1 .. N
  PROVE  (r + N - i) % N = IF i <= r THEN r - i ELSE r + N - i
PROOF
<1>1. N \in Nat /\ N # 0 /\ r \in Nat /\ r < N /\ i \in Nat /\ 1 <= i /\ i <= N
  BY RankFacts
<1>2. CASE i <= r
  <2>1. r + N - i = N + (r - i) /\ r - i \in 0 .. N - 1
    BY <1>1, <1>2
  <2>2. (N + (r - i)) % N = r - i
    BY <1>1, <2>1
  <2> QED
    BY <1>2, <2>1, <2>2
<1>3. CASE ~(i <= r)
  <2>1. r + N - i \in 0 .. N - 1
    BY <1>1, <1>3
  <2> QED
    BY <1>1, <1>3, <2>1
<1> QED
  BY <1>2, <1>3

\* The loop of a rank is finite.
LEMMA PeersLen ==
  ASSUME NEW r \in Ranks, op(r) \in Ops
  PROVE  Len(Peers(r)) \in Nat /\ Len(Peers(r)) <= N
PROOF
<1>1. CASE op(r) \in {"all_to_all_v", "all_to_all"}
  BY <1>1, RankFacts DEF Peers
<1>2. CASE op(r) = "all_gather"
  BY <1>2, RankFacts DEF Peers
<1>3. CASE op(r) = "all_reduce"
  <2>1. Peers(r) = [i \in 1 .. N - 1 |-> IF i - 1 < r THEN i - 1 ELSE i]
    BY <1>3 DEF Peers
  <2>2. N - 1 \in Nat
    BY RankFacts
  <2>3. Len(Peers(r)) = N - 1
    BY <2>1, <2>2
  <2> QED
    BY <2>3, RankFacts
<1> QED
  BY <1>1, <1>2, <1>3, ConstAssumption

\* The loop of a rank goes through ranks.
LEMMA PeerFacts ==
  ASSUME IInv, NEW r \in Ranks, pc[r] \in {"wait", "load", "copy"}
  PROVE  peer(r) \in Ranks
PROOF
<1>1. op(r) \in Ops /\ copied[r] \in Nat /\ copied[r] < Len(Peers(r))
  BY DEF IInv, Places, CollectPCs, Types, Loaded, LoadedBy
<1>2. CASE op(r) \in {"all_to_all_v", "all_to_all"}
  <2>1. Peers(r) = [i \in 1 .. N |-> (r + N - i) % N]
    BY <1>2 DEF Peers
  <2>2. Len(Peers(r)) = N
    BY <2>1, RankFacts
  <2>3. copied[r] + 1 \in 1 .. N
    BY <1>1, <2>2, RankFacts
  <2>4. peer(r) = (r + N - (copied[r] + 1)) % N
    BY <2>1, <2>3 DEF peer
  <2> QED
    BY <2>3, <2>4, RingFacts, RankFacts DEF Ranks
<1>3. CASE op(r) = "all_gather"
  <2>1. Peers(r) = [i \in 1 .. N |-> i - 1]
    BY <1>3 DEF Peers
  <2>2. copied[r] + 1 \in 1 .. N
    BY <1>1, <2>1, RankFacts
  <2> QED
    BY <2>1, <2>2, RankFacts DEF peer, Ranks
<1>4. CASE op(r) = "all_reduce"
  <2>1. Peers(r) = [i \in 1 .. N - 1 |-> IF i - 1 < r THEN i - 1 ELSE i]
    BY <1>4 DEF Peers
  <2>2. copied[r] + 1 \in 1 .. N - 1
    BY <1>1, <2>1, RankFacts
  <2> QED
    BY <2>1, <2>2, RankFacts DEF peer, Ranks
<1> QED
  BY <1>1, <1>2, <1>3, <1>4, ConstAssumption

-----------------------------------------------------------------------------------------------------
\* Types and places

\* What a rank publishes is a pointer.
LEMMA PointerFacts ==
  ASSUME NEW r \in Ranks, NEW same \in BOOLEAN
  PROVE  /\ Source(r, same) \in Pointers
         /\ Pointer("displs", r) \in Pointers
         /\ Pointer("send", r) \in Pointers
         /\ Pointer("recv", r) \in Pointers
         /\ Pointer("temp", r) \in Pointers
         /\ \A a \in Pointers : a # Null
PROOF
  BY DEF Source, Pointer, Pointers, Null

\* The barrier keeps its type.
LEMMA BarrierTypes ==
  ASSUME Types, NEW r \in Ranks,
         Barrier!Create \/ Barrier!Arrive(r) \/ Barrier!Leave(r) \/ bar' = [q \in Ranks |-> "none"]
  PROVE  bar' \in [Ranks -> Barrier!States]
PROOF
<1>1. CASE Barrier!Create \/ bar' = [q \in Ranks |-> "none"]
  BY <1>1 DEF Barrier!Create, Barrier!States
<1>2. CASE Barrier!Arrive(r)
  <2>1. CASE \A q \in Ranks \ {r} : bar[q] = "in"
    BY <1>2, <2>1 DEF Barrier!Arrive, Barrier!Entered, Barrier!States
  <2>2. CASE ~ \A q \in Ranks \ {r} : bar[q] = "in"
    BY <1>2, <2>2 DEF Barrier!Arrive, Barrier!Entered, Barrier!States, Types
  <2> QED
    BY <2>1, <2>2
<1>3. CASE Barrier!Leave(r)
  BY <1>3 DEF Barrier!Leave, Barrier!States, Types
<1> QED
  BY <1>1, <1>2, <1>3

\* Entering and leaving a call keeps the types.
LEMMA CallTypes ==
  ASSUME IInv, NEW r \in Ranks, Call(r)
  PROVE  Types'
PROOF
<1> USE DEF IInv
<1>1. CASE Create(r)
  BY <1>1, EnterFacts DEF Create, Goto, Types, AllCalls, PCs
<1>2. CASE Destroy(r)
  BY <1>2, EnterFacts DEF Destroy, Goto, Types, AllCalls, PCs
<1>3. ASSUME NEW v \in Ops, NEW same \in BOOLEAN, Collect(r, v, same) PROVE Types'
  BY <1>3, EnterFacts DEF Collect, Goto, Types, AllCalls, PCs
<1> QED
  BY <1>1, <1>2, <1>3 DEF Call

\* Every step of a rank keeps the types.
LEMMA StepTypes ==
  ASSUME IInv, NEW r \in Ranks, Step(r)
  PROVE  Types'
PROOF
<1> USE DEF IInv, Goto
<1>1. CASE InitComm(r)
  BY <1>1, BarrierTypes DEF InitComm, Types, PCs
<1>2. CASE SetReady(r)
  BY <1>2 DEF SetReady, Types, PCs
<1>3. CASE AwaitReady(r)
  BY <1>3 DEF AwaitReady, Types, PCs
<1>4. CASE Arrive(r)
  BY <1>4, BarrierTypes DEF Arrive, Types
<1>5. CASE Leave(r)
  <2>1. AfterBarrier(r) \in PCs
    BY <1>5 DEF Leave, AtBarrier, AfterBarrier, PCs
  <2> QED
    BY <1>5, <2>1, BarrierTypes DEF Leave, Types
<1>6. CASE PublishDispls(r)
  BY <1>6, PointerFacts DEF PublishDispls, Types, PCs
<1>7. CASE Publish(r)
  <2>1. Source(r, inplace[r]) \in Pointers
    BY PointerFacts DEF Types
  <2> QED
    BY <1>7, <2>1 DEF Publish, Loop, Types, PCs
<1>8. CASE Wait(r)
  BY <1>8 DEF Wait, Types, PCs
<1>9. CASE Load(r)
  <2>1. peer(r) \in Ranks
    BY <1>9, PeerFacts DEF Load, Loaded
  <2> QED
    BY <1>9, <2>1 DEF Load, Types, PCs
<1>10. CASE Copy(r)
  BY <1>10 DEF Copy, Loop, Types, PCs
<1>11. CASE Delete(r)
  BY <1>11 DEF Delete, Types, PCs
<1>12. CASE Reset(r)
  BY <1>12 DEF Reset, Types, PCs
<1>13. CASE Finalize(r)
  BY <1>13 DEF Finalize, Types, PCs
<1>14. CASE Clear(r)
  BY <1>14, BarrierTypes DEF Clear, Types, PCs
<1>15. CASE Unready(r)
  BY <1>15 DEF Unready, Types, PCs
<1>16. CASE AwaitCleared(r)
  BY <1>16 DEF AwaitCleared, Types, PCs
<1> QED
  BY <1>1, <1>2, <1>3, <1>4, <1>5, <1>6, <1>7, <1>8, <1>9, <1>10, <1>11, <1>12, <1>13, <1>14, <1>15,
     <1>16 DEF Step

\* The barrier shows a rank as in it, or as released, only where it is called.
LEMMA CallPlaces ==
  ASSUME IInv, NEW r \in Ranks, Call(r)
  PROVE  Places'
PROOF
<1> USE DEF IInv
<1>1. CASE Create(r)
  BY <1>1, EnterFacts, OpsFacts DEF Create, Goto, Types, Places, AllCalls, CreatePCs, CollectPCs, DestroyPCs,
     AtBarrier
<1>2. CASE Destroy(r)
  BY <1>2, EnterFacts, OpsFacts DEF Destroy, Goto, Types, Places, AllCalls, CreatePCs, CollectPCs, DestroyPCs,
     AtBarrier
<1>3. ASSUME NEW v \in Ops, NEW same \in BOOLEAN, Collect(r, v, same) PROVE Places'
  BY <1>3, EnterFacts, OpsFacts DEF Collect, Goto, Types, Places, AllCalls, CreatePCs, CollectPCs, DestroyPCs,
     AtBarrier
<1> QED
  BY <1>1, <1>2, <1>3 DEF Call

\* A step leaves every rank at a place of its call.
LEMMA StepPlaces ==
  ASSUME IInv, NEW r \in Ranks, Step(r)
  PROVE  Places'
PROOF
<1> USE SameCalls DEF IInv, Goto, Types, Places, CreatePCs, CollectPCs, DestroyPCs, AtBarrier
<1>1. CASE InitComm(r)
  BY <1>1 DEF InitComm, Barrier!Create
<1>2. CASE SetReady(r)
  BY <1>2 DEF SetReady
<1>3. CASE AwaitReady(r)
  BY <1>3 DEF AwaitReady
<1>4. CASE Arrive(r)
  BY <1>4 DEF Arrive, Barrier!Arrive, Barrier!Entered
<1>5. CASE Leave(r)
  BY <1>5, OpsFacts DEF Leave, AfterBarrier, Barrier!Leave
<1>6. CASE PublishDispls(r)
  BY <1>6 DEF PublishDispls
<1>7. CASE Publish(r)
  BY <1>7 DEF Publish, Loop
<1>8. CASE Wait(r)
  BY <1>8 DEF Wait
<1>9. CASE Load(r)
  BY <1>9 DEF Load
<1>10. CASE Copy(r)
  BY <1>10 DEF Copy, Loop
<1>11. CASE Delete(r)
  BY <1>11 DEF Delete
<1>12. CASE Reset(r)
  BY <1>12 DEF Reset
<1>13. CASE Finalize(r)
  BY <1>13 DEF Finalize
<1>14. CASE Clear(r)
  BY <1>14 DEF Clear
<1>15. CASE Unready(r)
  BY <1>15 DEF Unready
<1>16. CASE AwaitCleared(r)
  BY <1>16 DEF AwaitCleared
<1> QED
  BY <1>1, <1>2, <1>3, <1>4, <1>5, <1>6, <1>7, <1>8, <1>9, <1>10, <1>11, <1>12, <1>13, <1>14, <1>15,
     <1>16 DEF Step

-----------------------------------------------------------------------------------------------------
\* Rounds

\* Steps after which every rank has passed the same barriers as before
LEMMA SameRounds ==
  ASSUME Rounds, \A q \in Ranks : Done(q)' = Done(q) /\ (Half(q)' <=> Half(q))
  PROVE  Rounds'
PROOF
  BY DEF Rounds

\* A rank that has passed no barrier yet can only be creating the communicator.
LEMMA BeforeCreation ==
  ASSUME IInv, NEW r \in Ranks, Done(r) = 0
  PROVE  (pc[r] = "idle" /\ call[r] = 0) \/ (pc[r] \in CreatePCs /\ bar[r] # "released")
PROOF
<1> USE DEF IInv
<1>1. CASE After(r)
  <2>1. call[r] = 0
    BY <1>1 DEF Done
  <2>2. pc[r] = "idle"
    BY <2>1 DEF Places
  <2> QED
    BY <2>1, <2>2
<1>2. CASE ~After(r)
  <2>1. call[r] = 1 /\ pc[r] # "idle"
    BY <1>2 DEF Done, Types, After
  <2>2. op(r) = "create"
    BY <2>1 DEF op, ProgOK, Types
  <2>3. pc[r] \in CreatePCs
    BY <2>1, <2>2, OpsFacts DEF Places, Types, PCs, CreatePCs, CollectPCs, DestroyPCs
  <2> QED
    BY <1>2, <2>3 DEF After, Places, AtBarrier, CreatePCs
<1> QED
  BY <1>1, <1>2

\* No rank has gone through a barrier that does not exist yet.
LEMMA NotCreated ==
  ASSUME IInv, ~Created \/ pc[0] = "flag", NEW r \in Ranks
  PROVE  \/ pc[r] = "idle" /\ call[r] = 0
         \/ pc[r] = "await"
         \/ r = 0 /\ pc[r] \in {"init", "flag"}
PROOF
<1> USE DEF IInv
<1>1. 0 \in Ranks
  BY RankFacts
<1>2. Done(0) = 0
  <2>1. CASE call[0] = 0
    BY <1>1, <2>1 DEF Places, Done, After
  <2>2. CASE call[0] # 0
    <3>1. pc[0] \in {"init", "flag"}
      BY <2>2 DEF Created
    <3>2. op(0) = "create" /\ ~After(0)
      BY <1>1, <3>1 DEF Places, CreatePCs, After
    <3>3. call[0] = 1
      BY <1>1, <2>2, <3>2 DEF op, ProgOK, Types
    <3> QED
      BY <3>2, <3>3 DEF Done
  <2> QED
    BY <2>1, <2>2
<1>3. Done(r) = 0
  BY <1>1, <1>2 DEF Rounds
<1>4. pc[r] # "created"
  BY DEF Life
<1>5. pc[r] \in {"init", "flag"} => r = 0
  BY DEF Places
<1> QED
  BY <1>3, <1>4, <1>5, BeforeCreation DEF CreatePCs

\* When rank 0 is done waiting all others are waiting for it.
LEMMA AllCounted ==
  ASSUME IInv, entered = N, NEW r \in Ranks
  PROVE  pc[r] \in {"finalizer", "leaving"}
PROOF
<1>1. Counted \subseteq Ranks /\ Cardinality(Counted) = Cardinality(Ranks)
  BY RankFacts DEF Counted, IInv, EnteredOK
<1>2. Counted = Ranks
  BY <1>1, FS_Subset, RankFacts
<1> QED
  BY <1>2 DEF Counted

\* Entering a call passes no barrier.
LEMMA CallRounds ==
  ASSUME IInv, NEW r \in Ranks, Call(r)
  PROVE  Rounds'
PROOF
<1> USE DEF IInv, Goto, Types, After, Done, Half
<1>1. CASE Create(r)
  BY <1>1, EnterFacts, SameRounds DEF Create, Places, AtBarrier, AllCalls
<1>2. CASE Destroy(r)
  BY <1>2, EnterFacts, SameRounds DEF Destroy, Places, AtBarrier, AllCalls
<1>3. ASSUME NEW v \in Ops, NEW same \in BOOLEAN, Collect(r, v, same) PROVE Rounds'
  BY <1>3, EnterFacts, SameRounds DEF Collect, Places, AtBarrier, AllCalls
<1> QED
  BY <1>1, <1>2, <1>3 DEF Call

\* A rank that waits in the barrier before the same one as its peers is in the same kind of call.
LEMMA SameBarrier ==
  ASSUME IInv, NEW r \in Ranks, NEW q \in Ranks,
         pc[r] \in AtBarrier, pc[q] \in AtBarrier, bar[r] # "released", bar[q] # "released"
  PROVE  call[q] = call[r] /\ pc[q] = pc[r]
PROOF
<1> USE DEF IInv
<1>1. Done(r) = Done(q) /\ (Half(r) <=> Half(q))
  BY DEF Rounds
<1>2. call[q] = call[r]
  BY <1>1 DEF Done, After, Types, AtBarrier
<1>3. op(q) = op(r)
  BY <1>2 DEF op
<1>4. pc[q] = "again" <=> pc[r] = "again"
  BY <1>1 DEF Half, AtBarrier
<1>5. \A p \in Ranks : /\ pc[p] = "created" => op(p) = "create"
                       /\ pc[p] = "copied" => op(p) \in Ops
                       /\ pc[p] = "destroy" => op(p) = "destroy"
  BY DEF Places, CreatePCs, CollectPCs, DestroyPCs
<1> QED
  BY <1>2, <1>3, <1>4, <1>5, OpsFacts DEF AtBarrier

\* The last rank that arrives lets all ranks through the same barrier.
LEMMA ArriveRounds ==
  ASSUME IInv, NEW r \in Ranks, Arrive(r)
  PROVE  Rounds'
PROOF
<1> USE DEF IInv
<1>1. UNCHANGED <<pc, call>> /\ pc[r] \in AtBarrier /\ bar[r] = "out"
  BY DEF Arrive, Barrier!Arrive
<1>2. CASE ~ \A q \in Ranks \ {r} : bar[q] = "in"
  <2>1. bar' = [bar EXCEPT ![r] = "in"]
    BY <1>2 DEF Arrive, Barrier!Arrive, Barrier!Entered
  <2> QED
    BY <1>1, <2>1, SameRounds DEF Done, After, Half, Types
<1>3. CASE \A q \in Ranks \ {r} : bar[q] = "in"
  <2>1. \A q \in Ranks : bar'[q] = "released"
    BY <1>3 DEF Arrive, Barrier!Arrive, Barrier!Entered
  <2>2. \A q \in Ranks : pc[q] \in AtBarrier /\ bar[q] # "released"
    BY <1>1, <1>3 DEF Places
  <2>3. \A q \in Ranks : call[q] = call[r] /\ pc[q] = pc[r]
    BY <1>1, <2>2, SameBarrier
  <2>4. \A q \in Ranks : Done(q)' = Done(r)' /\ (Half(q)' <=> Half(r)')
    BY <1>1, <2>1, <2>3 DEF Done, After, Half
  <2> QED
    BY <2>4 DEF Rounds
<1> QED
  BY <1>2, <1>3

\* All ranks have passed the same barriers after a step.
LEMMA StepRounds ==
  ASSUME IInv, NEW r \in Ranks, Step(r)
  PROVE  Rounds'
PROOF
<1> USE SameCalls, SameRounds DEF IInv, Goto, Types, After, Done, Half
<1>1. CASE InitComm(r)
  <2>1. \A q \in Ranks : bar[q] # "released" /\ bar'[q] # "released"
    BY <1>1 DEF InitComm, Barrier!Create
  <2> QED
    BY <1>1, <2>1 DEF InitComm
<1>2. CASE SetReady(r)
  BY <1>2 DEF SetReady
<1>3. CASE AwaitReady(r)
  BY <1>3 DEF AwaitReady, Places, AtBarrier
<1>4. CASE Arrive(r)
  BY <1>4, ArriveRounds
<1>5. CASE Leave(r)
  BY <1>5 DEF Leave, Barrier!Leave, AfterBarrier, AtBarrier
<1>6. CASE PublishDispls(r)
  BY <1>6 DEF PublishDispls
<1>7. CASE Publish(r)
  BY <1>7 DEF Publish, Loop, Places, AtBarrier
<1>8. CASE Wait(r)
  BY <1>8 DEF Wait
<1>9. CASE Load(r)
  BY <1>9 DEF Load
<1>10. CASE Copy(r)
  BY <1>10 DEF Copy, Loop, Places, AtBarrier
<1>11. CASE Delete(r)
  BY <1>11 DEF Delete
<1>12. CASE Reset(r)
  BY <1>12 DEF Reset, Places, AtBarrier
<1>13. CASE Finalize(r)
  BY <1>13 DEF Finalize
<1>14. CASE Clear(r)
  <2>1. \A q \in Ranks : pc[q] \in {"finalizer", "leaving"}
    BY <1>14, AllCounted DEF Clear
  <2>2. \A q \in Ranks : pc'[q] \in {"unready", "finalizer", "leaving"}
    BY <1>14, <2>1 DEF Clear
  <2> QED
    BY <2>1, <2>2
<1>15. CASE Unready(r)
  BY <1>15 DEF Unready
<1>16. CASE AwaitCleared(r)
  BY <1>16 DEF AwaitCleared
<1> QED
  BY <1>1, <1>2, <1>3, <1>4, <1>5, <1>6, <1>7, <1>8, <1>9, <1>10, <1>11, <1>12, <1>13, <1>14, <1>15,
     <1>16 DEF Step

-----------------------------------------------------------------------------------------------------
\* The life cycle

\* A communicator that is gone has not been created again, and rank 0 does not destroy it while another
\* rank may be in need of it.
LEMMA CallLife ==
  ASSUME IInv, NEW r \in Ranks, Call(r)
  PROVE  Life'
PROOF
<1> USE DEF IInv
<1>1. 0 \in Ranks
  BY RankFacts
<1>2. /\ UNCHANGED <<ready, bar>>
      /\ pc[r] = "idle" /\ op(r) # "destroy" /\ call'[r] = call[r] + 1 /\ call[r] \in Nat
      /\ \A q \in Ranks \ {r} : op(q)' = op(q) /\ call'[q] = call[q] /\ pc'[q] = pc[q]
      /\ pc'[r] \in PCs \ {"idle", "created", "unready", "flag", "leaving"}
      /\ pc'[r] = "init" => r = 0
      /\ r = 0 => (pc'[r] = "init" <=> call[r] = 0)
  <2>1. CASE Create(r)
    BY <2>1, EnterFacts DEF Create, Goto, Types, AllCalls, PCs
  <2>2. CASE Destroy(r)
    BY <2>2, EnterFacts DEF Destroy, Goto, Types, AllCalls, PCs
  <2>3. ASSUME NEW v \in Ops, NEW same \in BOOLEAN, Collect(r, v, same) PROVE <1>2!:
    BY <2>3, EnterFacts, OpsFacts DEF Collect, Goto, Types, AllCalls, PCs
  <2> QED
    BY <2>1, <2>2, <2>3 DEF Call
<1>3. ~Returned(r) /\ ~Returned(r)' /\ \A q \in Ranks \ {r} : Returned(q)' = Returned(q)
  BY <1>2 DEF Returned, PCs
<1>4. (Created' <=> Created) /\ (Gone' <=> Gone) /\ (pc'[0] = "flag" <=> pc[0] = "flag")
      /\ (Returned(0)' <=> Returned(0))
  <2>1. CASE r = 0
    <3>1. pc[0] = "idle" /\ pc'[0] \notin {"idle", "flag", "unready"} /\ call'[0] # 0
      BY <1>2, <2>1
    <3>2. ~Gone /\ ~Gone'
      BY <1>3, <2>1, <3>1 DEF Gone
    <3>3. Created' <=> Created
      BY <1>2, <2>1, <3>1 DEF Created
    <3> QED
      BY <1>3, <2>1, <3>1, <3>2, <3>3
  <2>2. CASE r # 0
    BY <1>1, <1>2, <1>3, <2>2 DEF Created, Gone
  <2> QED
    BY <2>1, <2>2
<1>5. Gone => r = 0
  BY <1>2, <1>3 DEF Life
<1> QED
  BY <1>2, <1>3, <1>4, <1>5 DEF Life

\* The communicator is created before the first use and destroyed after the last.
LEMMA StepLife ==
  ASSUME IInv, NEW r \in Ranks, Step(r)
  PROVE  Life'
PROOF
<1> USE SameCalls DEF IInv, Goto, Types
<1>1. 0 \in Ranks
  BY RankFacts
<1> DEFINE Quiet == /\ UNCHANGED <<ready, call>>
                    /\ \A q \in Ranks : bar'[q] = "none" <=> bar[q] = "none"
                    /\ \A q \in Ranks \ {r} : pc'[q] = pc[q]
                    /\ pc[r] \notin {"idle", "init", "flag", "unready", "leaving"}
                    /\ pc'[r] \notin {"init", "flag", "unready", "created"}
                    /\ pc'[r] = "idle" => op(r) # "destroy"
\* Most steps do not matter to the life cycle.
<1>2. ASSUME Quiet PROVE Life'
  <2>1. \A q \in Ranks : op(q)' = op(q)
    OBVIOUS
  <2>2. \A q \in Ranks : Returned(q)' = Returned(q)
    BY <1>2, <2>1 DEF Returned
  <2>3. Created' = Created /\ Gone' = Gone /\ (pc'[0] = "flag" <=> pc[0] = "flag")
    BY <1>1, <1>2, <2>2 DEF Created, Gone
  <2>4. Gone /\ r # 0 => pc[r] = "leaving"
    BY <1>2 DEF Life, Returned
  <2> QED
    BY <1>1, <1>2, <2>2, <2>3, <2>4 DEF Life
<1>3. CASE InitComm(r)
  <2>1. r = 0 /\ pc[0] = "init" /\ pc' = [pc EXCEPT ![0] = "flag"] /\ UNCHANGED <<call, ready>>
    BY <1>3 DEF InitComm, Places
  <2>2. \A q \in Ranks : bar'[q] = "out"
    BY <1>3 DEF InitComm, Barrier!Create
  <2>3. Created' /\ ~Gone' /\ call[0] # 0
    BY <1>1, <2>1 DEF Created, Gone, Places, Returned
  <2>4. ~Created /\ ~ready
    BY <2>1 DEF Created, Life
  <2>5. \A q \in Ranks : ~Returned(q)' /\ pc'[q] # "created"
    BY <1>1, <2>1, <2>4, NotCreated DEF Returned, op
  <2> QED
    BY <1>1, <2>1, <2>2, <2>3, <2>4, <2>5 DEF Life
<1>4. CASE SetReady(r)
  <2>1. r = 0 /\ pc[0] = "flag" /\ pc' = [pc EXCEPT ![0] = "await"] /\ UNCHANGED <<call, bar>> /\ ready'
    BY <1>4 DEF SetReady, Places
  <2>2. call[0] # 0
    BY <1>1, <2>1 DEF Places
  <2>3. Created /\ Created' /\ ~Gone /\ ~Gone' /\ ~Returned(0)'
    BY <1>1, <2>1, <2>2 DEF Created, Gone, Returned
  <2>4. \A q \in Ranks : ~Returned(q)'
    BY <1>1, <2>1, NotCreated DEF Returned, op
  <2> QED
    BY <1>1, <2>1, <2>3, <2>4 DEF Life
<1>5. CASE AwaitReady(r)
  <2>1. pc[r] = "await" /\ ready /\ pc' = [pc EXCEPT ![r] = "created"] /\ UNCHANGED <<call, bar, ready>>
    BY <1>5 DEF AwaitReady
  <2>2. \A q \in Ranks : Returned(q)' = Returned(q)
    BY <2>1 DEF Returned
  <2>3. Created' = Created /\ Gone' = Gone /\ (pc'[0] = "flag" <=> pc[0] = "flag")
    BY <1>1, <2>1, <2>2 DEF Created, Gone
  <2>4. ~Gone
    <3>1. ~(Gone /\ r # 0)
      BY <2>1 DEF Life, Returned
    <3>2. r = 0 => ~Gone
      BY <2>1 DEF Gone, Returned
    <3> QED
      BY <3>1, <3>2
  <2> QED
    BY <1>1, <2>1, <2>2, <2>3, <2>4 DEF Life
<1>6. CASE Arrive(r)
  <2>1. \A q \in Ranks : bar'[q] = "none" <=> bar[q] = "none"
    <3>1. bar[r] = "out"
      BY <1>6 DEF Arrive, Barrier!Arrive
    <3>2. CASE ~ \A q \in Ranks \ {r} : bar[q] = "in"
      BY <1>6, <3>1, <3>2 DEF Arrive, Barrier!Arrive, Barrier!Entered
    <3>3. CASE \A q \in Ranks \ {r} : bar[q] = "in"
      BY <1>6, <3>1, <3>3 DEF Arrive, Barrier!Arrive, Barrier!Entered
    <3> QED
      BY <3>2, <3>3
  <2>2. UNCHANGED <<pc, call, ready>>
    BY <1>6 DEF Arrive
  <2>3. Created' = Created /\ Gone' = Gone /\ \A q \in Ranks : Returned(q)' = Returned(q)
    BY <1>1, <2>2 DEF Created, Gone, Returned
  <2> QED
    BY <1>1, <2>1, <2>2, <2>3 DEF Life
<1>7. CASE Leave(r)
  BY <1>2, <1>7, OpsFacts DEF Leave, Barrier!Leave, AtBarrier, AfterBarrier, Places, CreatePCs, CollectPCs
<1>8. CASE PublishDispls(r)
  BY <1>2, <1>8 DEF PublishDispls
<1>9. CASE Publish(r)
  BY <1>2, <1>9 DEF Publish, Loop
<1>10. CASE Wait(r)
  BY <1>2, <1>10 DEF Wait
<1>11. CASE Load(r)
  BY <1>2, <1>11 DEF Load
<1>12. CASE Copy(r)
  BY <1>2, <1>12 DEF Copy, Loop
<1>13. CASE Delete(r)
  BY <1>2, <1>13 DEF Delete
<1>14. CASE Reset(r)
  BY <1>2, <1>14 DEF Reset
<1>15. CASE Finalize(r)
  <2>1. pc[r] = "finalize" /\ UNCHANGED <<call, ready, bar>>
        /\ pc' = [pc EXCEPT ![r] = IF r = 0 THEN "finalizer" ELSE "leaving"]
    BY <1>15 DEF Finalize
  <2>2. \A q \in Ranks : Returned(q)' = Returned(q)
    BY <2>1 DEF Returned
  <2>3. Created' = Created /\ Gone' = Gone /\ (pc'[0] = "flag" <=> pc[0] = "flag")
    BY <1>1, <2>1, <2>2 DEF Created, Gone
  <2> QED
    BY <1>1, <2>1, <2>2, <2>3 DEF Life
<1>16. CASE Clear(r)
  <2>1. r = 0 /\ pc[0] = "finalizer" /\ pc' = [pc EXCEPT ![0] = "unready"] /\ UNCHANGED <<call, ready>>
        /\ \A q \in Ranks : bar'[q] = "none"
    BY <1>16 DEF Clear, Places
  <2>2. \A q \in Ranks : pc[q] \in {"finalizer", "leaving"}
    BY <1>16, AllCounted DEF Clear
  <2>3. \A q \in Ranks \ {0} : pc[q] = "leaving"
    BY <2>2 DEF Places
  <2>4. Gone' /\ ~Returned(0) /\ \A q \in Ranks : ~Returned(q)'
    BY <1>1, <2>1, <2>2 DEF Gone, Returned
  <2>5. Created /\ Created'
    BY <1>1, <2>1 DEF Created, Places
  <2> QED
    BY <1>1, <2>1, <2>3, <2>4, <2>5 DEF Life
<1>17. CASE Unready(r)
  <2>1. r = 0 /\ pc[0] = "unready" /\ pc' = [pc EXCEPT ![0] = "idle"] /\ UNCHANGED <<call, bar>> /\ ~ready'
    BY <1>17 DEF Unready, Places
  <2>2. op(0) = "destroy" /\ Gone /\ Created /\ Created' /\ Returned(0)' /\ Gone'
    BY <1>1, <2>1 DEF Places, DestroyPCs, Gone, Returned, Created
  <2>3. \A q \in Ranks \ {0} : (pc[q] = "leaving" \/ Returned(q)) /\ Returned(q)' = Returned(q)
    BY <2>1, <2>2 DEF Life, Returned
  <2> QED
    BY <1>1, <2>1, <2>2, <2>3 DEF Life, Returned
<1>18. CASE AwaitCleared(r)
  <2>1. pc[r] = "leaving" /\ ~ready /\ pc' = [pc EXCEPT ![r] = "idle"] /\ UNCHANGED <<call, bar, ready>>
    BY <1>18 DEF AwaitCleared
  <2>2. r # 0
    BY <2>1 DEF Places
  <2>3. Created /\ pc[0] # "flag"
    BY <2>1, <2>2, NotCreated
  <2>4. Returned(0)
    BY <2>1, <2>3 DEF Life
  <2>5. Returned(r)' /\ \A q \in Ranks \ {r} : Returned(q)' = Returned(q)
    BY <2>1 DEF Returned, Places, DestroyPCs
  <2>6. Created' /\ Gone' /\ Gone /\ Returned(0)' /\ pc'[0] = pc[0]
    BY <1>1, <2>1, <2>2, <2>3, <2>4, <2>5 DEF Created, Gone
  <2> QED
    BY <1>1, <2>1, <2>2, <2>3, <2>4, <2>5, <2>6 DEF Life
<1> QED
  BY <1>3, <1>4, <1>5, <1>6, <1>7, <1>8, <1>9, <1>10, <1>11, <1>12, <1>13, <1>14, <1>15, <1>16, <1>17,
     <1>18 DEF Step

-----------------------------------------------------------------------------------------------------
\* The finalize counter

\* The count of finalizing ranks stays right as long as no rank begins or ends its finalization.
LEMMA SameCounted ==
  ASSUME EnteredOK, entered' = entered,
         \A q \in Ranks : (pc'[q] \in {"finalizer", "leaving"} /\ bar'[q] # "none")
                            <=> (pc[q] \in {"finalizer", "leaving"} /\ bar[q] # "none")
  PROVE  EnteredOK'
PROOF
<1>1. Counted' = Counted
  BY DEF Counted
<1> QED
  BY <1>1 DEF EnteredOK

\* A rank that leaves comm_destroy finds the communicator gone.
LEMMA LeavesWhenGone ==
  ASSUME IInv, NEW r \in Ranks, pc[r] = "leaving", ~ready
  PROVE  Returned(0) /\ bar[r] = "none"
PROOF
<1> USE DEF IInv
<1>1. Created /\ pc[0] # "flag"
  BY NotCreated DEF Places
<1>2. Returned(0)
  BY <1>1 DEF Life
<1> QED
  BY <1>2 DEF Life, Gone

\* Entering a call leaves the count of finalizing ranks alone.
LEMMA CallEntered ==
  ASSUME IInv, NEW r \in Ranks, Call(r)
  PROVE  EnteredOK'
PROOF
<1> USE DEF IInv, Goto, Types
<1>1. CASE Create(r)
  BY <1>1, EnterFacts, SameCounted DEF Create, AllCalls
<1>2. CASE Destroy(r)
  BY <1>2, EnterFacts, SameCounted DEF Destroy, AllCalls
<1>3. ASSUME NEW v \in Ops, NEW same \in BOOLEAN, Collect(r, v, same) PROVE EnteredOK'
  BY <1>3, EnterFacts, SameCounted DEF Collect, AllCalls
<1> QED
  BY <1>1, <1>2, <1>3 DEF Call

\* After a step the counter is still the number of ranks that finalize has counted.
LEMMA StepEntered ==
  ASSUME IInv, NEW r \in Ranks, Step(r)
  PROVE  EnteredOK'
PROOF
<1> USE SameCounted DEF IInv, Goto, Types
<1>1. CASE InitComm(r)
  <2>1. r = 0 /\ pc[0] = "init" /\ pc' = [pc EXCEPT ![0] = "flag"] /\ entered' = 0
    BY <1>1 DEF InitComm, Places
  <2>2. \A q \in Ranks : pc'[q] \notin {"finalizer", "leaving"}
    BY <2>1, NotCreated DEF Created
  <2>3. Counted' = {}
    BY <2>2 DEF Counted
  <2> QED
    BY <2>1, <2>3, FS_EmptySet DEF EnteredOK
<1>2. CASE SetReady(r)
  BY <1>2 DEF SetReady
<1>3. CASE AwaitReady(r)
  BY <1>3 DEF AwaitReady
<1>4. CASE Arrive(r)
  <2>1. \A q \in Ranks : bar'[q] # "none" <=> bar[q] # "none"
    <3>1. CASE ~ \A q \in Ranks \ {r} : bar[q] = "in"
      BY <1>4, <3>1 DEF Arrive, Barrier!Arrive, Barrier!Entered
    <3>2. CASE \A q \in Ranks \ {r} : bar[q] = "in"
      BY <1>4, <3>2 DEF Arrive, Barrier!Arrive, Barrier!Entered
    <3> QED
      BY <3>1, <3>2
  <2> QED
    BY <1>4, <2>1 DEF Arrive
<1>5. CASE Leave(r)
  BY <1>5 DEF Leave, Barrier!Leave, AfterBarrier, AtBarrier
<1>6. CASE PublishDispls(r)
  BY <1>6 DEF PublishDispls
<1>7. CASE Publish(r)
  BY <1>7 DEF Publish, Loop
<1>8. CASE Wait(r)
  BY <1>8 DEF Wait
<1>9. CASE Load(r)
  BY <1>9 DEF Load
<1>10. CASE Copy(r)
  BY <1>10 DEF Copy, Loop
<1>11. CASE Delete(r)
  BY <1>11 DEF Delete
<1>12. CASE Reset(r)
  BY <1>12 DEF Reset
<1>13. CASE Finalize(r)
  <2>1. pc[r] = "finalize" /\ entered' = entered + 1 /\ UNCHANGED bar
        /\ pc' = [pc EXCEPT ![r] = IF r = 0 THEN "finalizer" ELSE "leaving"]
    BY <1>13 DEF Finalize
  <2>2. ~Gone /\ Created
    <3>1. 0 \in Ranks
      BY RankFacts
    <3>2. ~(Gone /\ r # 0)
      BY <2>1 DEF Life, Returned
    <3>3. r = 0 => ~Gone
      BY <2>1 DEF Gone, Returned
    <3>4. Created
      BY <2>1, NotCreated
    <3> QED
      BY <3>2, <3>3, <3>4
  <2>3. bar[r] # "none"
    BY <2>2 DEF Life
  <2>4. Counted' = Counted \cup {r} /\ r \notin Counted
    BY <2>1, <2>3 DEF Counted
  <2>5. Counted \subseteq Ranks
    BY DEF Counted
  <2>6. IsFiniteSet(Counted)
    BY <2>5, RankFacts, FS_Subset
  <2>7. Cardinality(Counted') = Cardinality(Counted) + 1
    BY <2>4, <2>6, FS_AddElement
  <2> QED
    BY <2>1, <2>7 DEF EnteredOK
<1>14. CASE Clear(r)
  <2>1. Counted' = {} /\ entered' = 0
    BY <1>14 DEF Clear, Counted
  <2> QED
    BY <2>1, FS_EmptySet DEF EnteredOK
<1>15. CASE Unready(r)
  BY <1>15 DEF Unready
<1>16. CASE AwaitCleared(r)
  <2>1. bar[r] = "none" /\ UNCHANGED bar
    BY <1>16, LeavesWhenGone DEF AwaitCleared
  <2> QED
    BY <1>16, <2>1 DEF AwaitCleared
<1> QED
  BY <1>1, <1>2, <1>3, <1>4, <1>5, <1>6, <1>7, <1>8, <1>9, <1>10, <1>11, <1>12, <1>13, <1>14, <1>15,
     <1>16 DEF Step

-----------------------------------------------------------------------------------------------------
\* The pointers

\* Entering a call leaves the published pointers alone.
LEMMA CallPublished ==
  ASSUME IInv, NEW r \in Ranks, Call(r)
  PROVE  Published'
PROOF
<1> USE DEF IInv, Goto, Types, Out
<1>1. CASE Create(r)
  BY <1>1, EnterFacts DEF Create, AllCalls, Published
<1>2. CASE Destroy(r)
  BY <1>2, EnterFacts DEF Destroy, AllCalls, Published
<1>3. ASSUME NEW v \in Ops, NEW same \in BOOLEAN, Collect(r, v, same) PROVE Published'
  BY <1>3, EnterFacts DEF Collect, AllCalls, Published
<1> QED
  BY <1>1, <1>2, <1>3 DEF Call

\* A pointer that is published is that of its rank's current call.
LEMMA StepPublished ==
  ASSUME IInv, NEW r \in Ranks, Step(r)
  PROVE  Published'
PROOF
<1> USE SameCalls DEF IInv, Goto, Types, Out, Published
<1>1. CASE InitComm(r)
  <2>1. r = 0 /\ pc[0] = "init" /\ pc' = [pc EXCEPT ![0] = "flag"]
    BY <1>1 DEF InitComm, Places
  <2>2. \A q \in Ranks : ~Out(q)' /\ pc'[q] # "publish"
    BY <2>1, NotCreated DEF Created
  <2> QED
    BY <1>1, <2>2 DEF InitComm
<1>2. CASE SetReady(r)
  BY <1>2 DEF SetReady
<1>3. CASE AwaitReady(r)
  BY <1>3 DEF AwaitReady
<1>4. CASE Arrive(r)
  BY <1>4 DEF Arrive
<1>5. CASE Leave(r)
  BY <1>5 DEF Leave, AfterBarrier, AtBarrier
<1>6. CASE PublishDispls(r)
  BY <1>6 DEF PublishDispls, Places
<1>7. CASE Publish(r)
  BY <1>7 DEF Publish, Loop
<1>8. CASE Wait(r)
  BY <1>8 DEF Wait
<1>9. CASE Load(r)
  BY <1>9 DEF Load
<1>10. CASE Copy(r)
  BY <1>10 DEF Copy, Loop
<1>11. CASE Delete(r)
  BY <1>11 DEF Delete
<1>12. CASE Reset(r)
  BY <1>12 DEF Reset
<1>13. CASE Finalize(r)
  BY <1>13 DEF Finalize
<1>14. CASE Clear(r)
  <2>1. \A q \in Ranks : pc[q] \in {"finalizer", "leaving"}
    BY <1>14, AllCounted DEF Clear
  <2>2. \A q \in Ranks : ~Out(q)' /\ pc'[q] # "publish"
    BY <1>14, <2>1 DEF Clear
  <2> QED
    BY <1>14, <2>2 DEF Clear
<1>15. CASE Unready(r)
  BY <1>15 DEF Unready
<1>16. CASE AwaitCleared(r)
  BY <1>16 DEF AwaitCleared
<1> QED
  BY <1>1, <1>2, <1>3, <1>4, <1>5, <1>6, <1>7, <1>8, <1>9, <1>10, <1>11, <1>12, <1>13, <1>14, <1>15,
     <1>16 DEF Step

\* What a rank has loaded stays right if its peers stay where they have published: nobody who is about
\* to take his pointer back has a peer that has not passed the first barrier.
LEMMA SameLoaded ==
  ASSUME IInv, NEW r \in Ranks,
         \A q \in Ranks \ {r} : /\ pc'[q] = pc[q] /\ copied'[q] = copied[q]
                                /\ from'[q] = from[q] /\ inplace'[q] = inplace[q],
         \A q \in Ranks \ {r} : op(q)' = op(q),
         \A q \in Ranks \ {r} : Out(r) /\ pc[q] \in {"load", "copy"} => Out(r)' /\ inplace'[r] = inplace[r],
         NEW q \in Ranks \ {r}
  PROVE  LoadedBy(q)'
PROOF
<1> USE DEF IInv
<1>1. Peers(q)' = Peers(q) /\ peer(q)' = peer(q)
  BY DEF Peers, peer
<1>2. ASSUME pc[q] \in {"load", "copy"}
      PROVE  (\A p \in Ranks : p = peer(q) => Out(p)' /\ inplace'[p] = inplace[p]) /\ peer(q) \in Ranks
  <2>1. Out(peer(q)) /\ peer(q) \in Ranks
    BY <1>2, PeerFacts DEF Loaded, LoadedBy
  <2>2. CASE peer(q) = r
    BY <1>2, <2>1, <2>2
  <2>3. CASE peer(q) # r
    BY <2>1, <2>3 DEF Out
  <2> QED
    BY <2>2, <2>3
<1> QED
  BY <1>1, <1>2 DEF Loaded, LoadedBy

\* A rank in its loop and a peer that has published are in the same call.
LEMMA SameCall ==
  ASSUME IInv, NEW r \in Ranks, NEW p \in Ranks,
         pc[r] \in {"wait", "load", "copy"}, Out(p)
  PROVE  call[p] = call[r] /\ op(p) = op(r) /\ Sends(p)
PROOF
<1> USE DEF IInv
<1>1. Done(p) = Done(r) /\ ~Half(r) /\ ~Half(p)
  BY DEF Rounds, Half
<1>2. pc[p] \in {"wait", "load", "copy", "copied"} /\ bar[p] # "released"
  BY <1>1 DEF Out, Half, Places, AtBarrier
<1>3. call[p] = call[r]
  BY <1>1, <1>2 DEF Done, After, Types
<1> QED
  BY <1>2, <1>3 DEF op, Sends

\* Entering a call loads nothing.
LEMMA CallLoaded ==
  ASSUME IInv, NEW r \in Ranks, Call(r)
  PROVE  Loaded'
PROOF
<1> USE DEF IInv, Goto, Types
<1>1. /\ pc[r] = "idle"
      /\ \A q \in Ranks \ {r} : /\ pc'[q] = pc[q] /\ copied'[q] = copied[q]
                                /\ from'[q] = from[q] /\ inplace'[q] = inplace[q]
                                /\ op(q)' = op(q)
      /\ pc'[r] \notin {"wait", "load", "copy"}
      /\ pc'[r] \in {"displs", "publish"} => copied'[r] = 0
  <2>1. CASE Create(r)
    BY <2>1, EnterFacts DEF Create, AllCalls
  <2>2. CASE Destroy(r)
    BY <2>2, EnterFacts DEF Destroy, AllCalls
  <2>3. ASSUME NEW v \in Ops, NEW same \in BOOLEAN, Collect(r, v, same) PROVE <1>1!:
    BY <2>3, EnterFacts DEF Collect, AllCalls
  <2> QED
    BY <2>1, <2>2, <2>3 DEF Call
<1>2. ~Out(r)
  BY <1>1 DEF Out
<1>3. \A q \in Ranks \ {r} : LoadedBy(q)'
  BY <1>1, <1>2, SameLoaded
<1>4. LoadedBy(r)'
  BY <1>1 DEF LoadedBy
<1> QED
  BY <1>3, <1>4 DEF Loaded

\* After a step, what a rank has loaded is still what its peer has published.
LEMMA StepLoaded ==
  ASSUME IInv, NEW r \in Ranks, Step(r)
  PROVE  Loaded'
PROOF
<1> USE DEF IInv, Goto, Types
<1> DEFINE Still == /\ \A q \in Ranks \ {r} : /\ pc'[q] = pc[q] /\ copied'[q] = copied[q]
                                              /\ from'[q] = from[q]
                    /\ inplace' = inplace
<1>1. \A q \in Ranks : op(q)' = op(q)
  BY SameCalls
\* Most steps neither begin nor end the time in which the pointers of r are published.
<1>2. ASSUME Still, Out(r) => Out(r)', LoadedBy(r)' PROVE Loaded'
  <2>1. \A q \in Ranks \ {r} : LoadedBy(q)'
    BY <1>1, <1>2, SameLoaded
  <2> QED
    BY <1>2, <2>1 DEF Loaded
<1>3. ASSUME Still, pc[r] \notin {"wait", "load", "copy", "copied", "delete", "reset"},
             pc'[r] \notin {"displs", "publish", "wait", "load", "copy"}
      PROVE  Loaded'
  BY <1>2, <1>3 DEF Out, LoadedBy
<1>4. CASE InitComm(r)
  BY <1>3, <1>4 DEF InitComm
<1>5. CASE SetReady(r)
  BY <1>3, <1>5 DEF SetReady
<1>6. CASE AwaitReady(r)
  BY <1>3, <1>6 DEF AwaitReady
<1>7. CASE Arrive(r)
  <2>1. LoadedBy(r)' /\ (Out(r) => Out(r)')
    BY <1>7 DEF Arrive, LoadedBy, Out, AtBarrier
  <2> QED
    BY <1>2, <1>7, <2>1 DEF Arrive
<1>8. CASE Leave(r)
  <2>1. LoadedBy(r)' /\ (Out(r) => Out(r)')
    BY <1>8 DEF Leave, LoadedBy, Out, AtBarrier, AfterBarrier
  <2> QED
    BY <1>2, <1>8, <2>1 DEF Leave
<1>9. CASE PublishDispls(r)
  <2>1. LoadedBy(r)' /\ (Out(r) => Out(r)')
    BY <1>9 DEF PublishDispls, LoadedBy, Loaded, Out
  <2> QED
    BY <1>2, <1>9, <2>1 DEF PublishDispls
<1>10. CASE Publish(r)
  <2>1. copied[r] = 0 /\ copied'[r] = 0
    BY <1>10 DEF Publish, Loaded, LoadedBy
  <2>2. Peers(r)' = Peers(r) /\ Len(Peers(r)) \in Nat
    BY <1>1, <1>10, PeersLen DEF Publish, Peers, Places, CollectPCs
  <2>3. pc'[r] \in {"wait", "copied"} /\ (pc'[r] = "wait" => 0 # Len(Peers(r)))
    BY <1>10 DEF Publish, Loop
  <2>4. LoadedBy(r)' /\ (Out(r) => Out(r)')
    BY <1>10, <2>1, <2>2, <2>3 DEF Publish, LoadedBy, Out
  <2> QED
    BY <1>2, <1>10, <2>4 DEF Publish, Loop
<1>11. CASE Wait(r)
  <2>1. peer(r) \in Ranks /\ Peers(r)' = Peers(r) /\ peer(r)' = peer(r)
    BY <1>1, <1>11, PeerFacts DEF Wait, Peers, peer
  <2>2. Out(peer(r))
    BY <1>11, <2>1 DEF Wait, Published
  <2>3. \A p \in Ranks : Out(p) => Out(p)'
    BY <1>11 DEF Wait, Out
  <2>4. LoadedBy(r)' /\ (Out(r) => Out(r)')
    BY <1>11, <2>1, <2>2, <2>3 DEF Wait, LoadedBy, Loaded
  <2> QED
    BY <1>2, <1>11, <2>4 DEF Wait
<1>12. CASE Load(r)
  <2>1. peer(r) \in Ranks /\ Peers(r)' = Peers(r) /\ peer(r)' = peer(r)
    BY <1>1, <1>12, PeerFacts DEF Load, Peers, peer
  <2>2. Out(peer(r))
    BY <1>12 DEF Load, Loaded, LoadedBy
  <2>3. \A p \in Ranks : Out(p) => Out(p)'
    BY <1>12 DEF Load, Out
  <2>4. /\ from'[r][1] = Source(peer(r), inplace[peer(r)])
        /\ op(r) = "all_to_all_v" => from'[r][2] = Pointer("displs", peer(r))
    <3>1. from'[r] = <<buffers[peer(r)], displs[peer(r)]>>
      BY <1>12 DEF Load
    <3>2. buffers[peer(r)] = Source(peer(r), inplace[peer(r)])
      BY <2>1, <2>2 DEF Published
    <3>3. op(r) = "all_to_all_v" => displs[peer(r)] = Pointer("displs", peer(r))
      BY <1>12, <2>1, <2>2, SameCall DEF Load, Published
    <3> QED
      BY <3>1, <3>2, <3>3
  <2>5. LoadedBy(r)' /\ (Out(r) => Out(r)')
    BY <1>1, <1>12, <2>1, <2>2, <2>3, <2>4 DEF Load, LoadedBy, Loaded
  <2> QED
    BY <1>2, <1>12, <2>5 DEF Load
<1>13. CASE Copy(r)
  <2>1. copied[r] < Len(Peers(r)) /\ copied'[r] = copied[r] + 1 /\ Peers(r)' = Peers(r)
    BY <1>1, <1>13 DEF Copy, Loaded, LoadedBy, Peers
  <2>2. pc'[r] \in {"wait", "copied"} /\ (pc'[r] = "wait" => copied[r] + 1 # Len(Peers(r)))
    BY <1>13 DEF Copy, Loop
  <2>3. Len(Peers(r)) \in Nat
    BY <1>13, PeersLen DEF Copy, Places, CollectPCs
  <2>4. LoadedBy(r)' /\ (Out(r) => Out(r)')
    BY <2>1, <2>2, <2>3 DEF LoadedBy, Out
  <2> QED
    BY <1>2, <1>13, <2>4 DEF Copy, Loop
<1>14. CASE Delete(r)
  <2>1. LoadedBy(r)' /\ (Out(r) => Out(r)')
    BY <1>14 DEF Delete, LoadedBy, Out
  <2> QED
    BY <1>2, <1>14, <2>1 DEF Delete
<1>15. CASE Reset(r)
  <2>1. Half(r)
    BY <1>15 DEF Reset, Half
  <2>2. \A q \in Ranks : Half(q)
    BY <2>1 DEF Rounds
  <2>3. \A q \in Ranks : pc[q] \notin {"displs", "publish", "wait", "load", "copy"}
    BY <2>2 DEF Half
  <2>4. \A q \in Ranks : pc'[q] \notin {"displs", "publish", "wait", "load", "copy"}
    BY <1>15, <2>3 DEF Reset
  <2> QED
    BY <2>4 DEF Loaded, LoadedBy
<1>16. CASE Finalize(r)
  BY <1>3, <1>16 DEF Finalize
<1>17. CASE Clear(r)
  BY <1>3, <1>17 DEF Clear
<1>18. CASE Unready(r)
  BY <1>3, <1>18 DEF Unready
<1>19. CASE AwaitCleared(r)
  BY <1>3, <1>19 DEF AwaitCleared
<1> QED
  BY <1>4, <1>5, <1>6, <1>7, <1>8, <1>9, <1>10, <1>11, <1>12, <1>13, <1>14, <1>15, <1>16, <1>17,
     <1>18, <1>19 DEF Step

-----------------------------------------------------------------------------------------------------
\* The memory

\* What a rank that sends has in the memory that it publishes.
LEMMA SendsFacts ==
  ASSUME IInv, NEW q \in Ranks, Sends(q)
  PROVE  /\ inplace[q] => mem[Pointer("temp", q)][0] = UserData(q, call[q], op(q))[0]
         /\ ~inplace[q] => mem[Pointer("send", q)] = UserData(q, call[q], op(q))
         /\ op(q) = "all_to_all_v" => mem[Pointer("displs", q)] = Sdispls(call[q])
PROOF
  BY DEF IInv, Memory

\* Steps that change neither the memory nor begin a collective
LEMMA SameMemory ==
  ASSUME IInv, UNCHANGED <<mem, inplace>>,
         \A q \in Ranks : Sends(q)' => Sends(q) /\ call'[q] = call[q] /\ op(q)' = op(q)
  PROVE  Memory'
PROOF
  BY DEF IInv, Memory

\* Entering a call sets up the memory of the rank.
LEMMA CallMemory ==
  ASSUME IInv, NEW r \in Ranks, Call(r)
  PROVE  Memory'
PROOF
<1> USE DEF IInv, Goto, Types
<1>1. CASE Create(r)
  BY <1>1, EnterFacts, SameMemory DEF Create, AllCalls, Sends
<1>2. CASE Destroy(r)
  BY <1>2, EnterFacts, SameMemory DEF Destroy, AllCalls, Sends
<1>3. ASSUME NEW v \in Ops, NEW same \in BOOLEAN, Collect(r, v, same) PROVE Memory'
  <2> DEFINE k == call[r] + 1
             user == UserMemory(r, k, v, same)
             temp == WithTemp(r, user, same)
             own  == WithOwn(r, temp, v, same)
             Whole(m) == /\ m = [a \in Pointers |-> m[a]]
                         /\ \A a \in Pointers : m[a] = [s \in Ranks |-> m[a][s]]
  <2>1. /\ mem' = own /\ inplace' = [inplace EXCEPT ![r] = same] /\ pc[r] = "idle"
        /\ call' = [call EXCEPT ![r] = @ + 1] /\ op(r)' = v
        /\ \A q \in Ranks \ {r} : op(q)' = op(q) /\ pc'[q] = pc[q]
    BY <1>3, EnterFacts DEF Collect, AllCalls
  <2>2. /\ Pointer("send", r) \in Pointers /\ Pointer("recv", r) \in Pointers
        /\ Pointer("displs", r) \in Pointers /\ Pointer("temp", r) \in Pointers
    BY PointerFacts
  <2>3. 0 \in Ranks
    BY RankFacts
  <2>4. Whole(mem)
    BY DEF Memory
  <2>5. Whole(user)
    BY <2>2, <2>4, ZenonT(60) DEF UserMemory, UserData, Unwritten, Sdispls
  <2>6. /\ ~same => user[Pointer("send", r)] = UserData(r, k, v)
        /\ same => user[Pointer("recv", r)] = UserData(r, k, v)
        /\ v = "all_to_all_v" => user[Pointer("displs", r)] = Sdispls(k)
    BY <2>2, <2>4 DEF UserMemory, Pointer
  <2>7. \A a \in Pointers : a[2] # r => user[a] = mem[a]
    BY <2>2, <2>4 DEF UserMemory, Pointer
  <2> HIDE DEF user
  <2>8. Whole(temp)
    BY <2>2, <2>5, ZenonT(60) DEF WithTemp, Unwritten
  <2>9. /\ ~same => temp[Pointer("send", r)] = UserData(r, k, v)
        /\ same => temp[Pointer("temp", r)][0] = UserData(r, k, v)[0]
        /\ v = "all_to_all_v" => temp[Pointer("displs", r)] = Sdispls(k)
    BY <2>2, <2>3, <2>5, <2>6 DEF WithTemp, Unwritten, Pointer
  <2>10. \A a \in Pointers : a[2] # r => temp[a] = mem[a]
    BY <2>2, <2>5, <2>7 DEF WithTemp, Pointer
  <2> HIDE DEF temp
  <2>11. Whole(own)
    BY <2>2, <2>3, <2>8, ZenonT(60) DEF WithOwn
  <2>12. \A a \in Pointers : a # Pointer("recv", r) => own[a] = temp[a]
    BY <2>2, <2>8 DEF WithOwn
  <2> HIDE DEF own
  <2>13. /\ ~same => own[Pointer("send", r)] = UserData(r, k, v)
         /\ same => own[Pointer("temp", r)][0] = UserData(r, k, v)[0]
         /\ v = "all_to_all_v" => own[Pointer("displs", r)] = Sdispls(k)
    BY <2>2, <2>9, <2>12 DEF Pointer
  <2>14. \A q \in Ranks \ {r} : /\ own[Pointer("send", q)] = mem[Pointer("send", q)]
                                /\ own[Pointer("temp", q)] = mem[Pointer("temp", q)]
                                /\ own[Pointer("displs", q)] = mem[Pointer("displs", q)]
    <3> SUFFICES ASSUME NEW q \in Ranks \ {r}, NEW a \in Pointers, a[2] = q PROVE own[a] = mem[a]
      BY PointerFacts DEF Pointer
    <3> QED
      BY <2>10, <2>12 DEF Pointer
  <2>15. \A q \in Ranks \ {r} : Sends(q)' =>
           /\ inplace'[q] => mem'[Pointer("temp", q)][0] = UserData(q, call'[q], op(q)')[0]
           /\ ~inplace'[q] => mem'[Pointer("send", q)] = UserData(q, call'[q], op(q)')
           /\ op(q)' = "all_to_all_v" => mem'[Pointer("displs", q)] = Sdispls(call'[q])
    <3> SUFFICES ASSUME NEW q \in Ranks \ {r}, Sends(q)'
                 PROVE  /\ inplace'[q] => mem'[Pointer("temp", q)][0] = UserData(q, call'[q], op(q)')[0]
                        /\ ~inplace'[q] => mem'[Pointer("send", q)] = UserData(q, call'[q], op(q)')
                        /\ op(q)' = "all_to_all_v" => mem'[Pointer("displs", q)] = Sdispls(call'[q])
      OBVIOUS
    <3>1. Sends(q) /\ inplace'[q] = inplace[q] /\ call'[q] = call[q] /\ op(q)' = op(q)
      BY <2>1 DEF Sends
    <3> QED
      BY <2>1, <2>14, <3>1, SendsFacts
  <2>16. /\ inplace'[r] => mem'[Pointer("temp", r)][0] = UserData(r, call'[r], op(r)')[0]
         /\ ~inplace'[r] => mem'[Pointer("send", r)] = UserData(r, call'[r], op(r)')
         /\ op(r)' = "all_to_all_v" => mem'[Pointer("displs", r)] = Sdispls(call'[r])
    BY <2>1, <2>13
  <2>17. /\ mem' = [a \in Pointers |-> mem'[a]]
         /\ \A a \in Pointers : mem'[a] = [s \in Ranks |-> mem'[a][s]]
    BY <2>1, <2>11
  <2>18. \A q \in Ranks : Sends(q)' =>
           /\ inplace'[q] => mem'[Pointer("temp", q)][0] = UserData(q, call'[q], op(q)')[0]
           /\ ~inplace'[q] => mem'[Pointer("send", q)] = UserData(q, call'[q], op(q)')
           /\ op(q)' = "all_to_all_v" => mem'[Pointer("displs", q)] = Sdispls(call'[q])
    BY <2>15, <2>16, Zenon
  <2> QED
    BY <2>17, <2>18, Zenon DEF Memory
<1> QED
  BY <1>1, <1>2, <1>3 DEF Call

\* Copying and deleting leave alone what the ranks that have not passed the first barrier send.
LEMMA OtherMemory ==
  ASSUME IInv, UNCHANGED <<call, inplace>>,
         mem' = [a \in Pointers |-> mem'[a]],
         \A a \in Pointers : mem'[a] = [s \in Ranks |-> mem'[a][s]],
         \A q \in Ranks : Sends(q)' =>
           /\ Sends(q) /\ op(q)' = op(q)
           /\ mem'[Pointer("send", q)] = mem[Pointer("send", q)]
           /\ mem'[Pointer("temp", q)] = mem[Pointer("temp", q)]
           /\ mem'[Pointer("displs", q)] = mem[Pointer("displs", q)]
  PROVE  Memory'
PROOF
  BY SendsFacts DEF Memory

\* The memory that a peer may read still holds what its rank sends.
LEMMA StepMemory ==
  ASSUME IInv, NEW r \in Ranks, Step(r)
  PROVE  Memory'
PROOF
<1> USE SameCalls, SameMemory DEF IInv, Goto, Types, Sends
<1>1. CASE InitComm(r)
  BY <1>1 DEF InitComm
<1>2. CASE SetReady(r)
  BY <1>2 DEF SetReady
<1>3. CASE AwaitReady(r)
  BY <1>3 DEF AwaitReady
<1>4. CASE Arrive(r)
  BY <1>4 DEF Arrive
<1>5. CASE Leave(r)
  BY <1>5 DEF Leave, AfterBarrier, AtBarrier
<1>6. CASE PublishDispls(r)
  BY <1>6 DEF PublishDispls
<1>7. CASE Publish(r)
  BY <1>7 DEF Publish, Loop
<1>8. CASE Wait(r)
  BY <1>8 DEF Wait
<1>9. CASE Load(r)
  BY <1>9 DEF Load
<1>10. CASE Copy(r)
  <2> DEFINE slot == IF op(r) = "all_reduce" THEN 0 ELSE peer(r)
             new == IF op(r) = "all_reduce" THEN mem[Pointer("recv", r)][0] \o Data(r) ELSE Data(r)
  <2>1. slot \in Ranks /\ Pointer("recv", r) \in Pointers
    BY <1>10, PeerFacts, PointerFacts, RankFacts DEF Copy
  <2>2. mem = [a \in Pointers |-> mem[a]] /\ \A a \in Pointers : mem[a] = [s \in Ranks |-> mem[a][s]]
    BY DEF Memory
  <2>3. mem' = [mem EXCEPT ![Pointer("recv", r)] = [@ EXCEPT ![slot] = new]]
    BY <1>10, <2>1, <2>2 DEF Copy
  <2> HIDE DEF slot, new
  <2>4. /\ mem' = [a \in Pointers |-> mem'[a]]
        /\ \A a \in Pointers : mem'[a] = [s \in Ranks |-> mem'[a][s]]
    BY <2>1, <2>2, <2>3
  <2>5. \A a \in Pointers : a # Pointer("recv", r) => mem'[a] = mem[a]
    BY <2>1, <2>2, <2>3
  <2>6. \A q \in Ranks : /\ mem'[Pointer("send", q)] = mem[Pointer("send", q)]
                         /\ mem'[Pointer("temp", q)] = mem[Pointer("temp", q)]
                         /\ mem'[Pointer("displs", q)] = mem[Pointer("displs", q)]
    BY <2>5, PointerFacts DEF Pointer
  <2>7. UNCHANGED <<call, inplace>> /\ \A q \in Ranks : Sends(q)' => Sends(q)
    BY <1>10 DEF Copy, Loop
  <2> QED
    BY <2>4, <2>6, <2>7, OtherMemory
<1>11. CASE Delete(r)
  <2>1. Pointer("temp", r) \in Pointers
    BY PointerFacts
  <2>2. mem = [a \in Pointers |-> mem[a]] /\ \A a \in Pointers : mem[a] = [s \in Ranks |-> mem[a][s]]
    BY DEF Memory
  <2>3. mem' = [mem EXCEPT ![Pointer("temp", r)] = Unwritten]
    BY <1>11 DEF Delete
  <2>4. /\ mem' = [a \in Pointers |-> mem'[a]]
        /\ \A a \in Pointers : mem'[a] = [s \in Ranks |-> mem'[a][s]]
    BY <2>1, <2>2, <2>3 DEF Unwritten
  <2>5. \A a \in Pointers : a # Pointer("temp", r) => mem'[a] = mem[a]
    BY <2>1, <2>2, <2>3
  <2>6. UNCHANGED <<call, inplace>> /\ \A q \in Ranks : Sends(q)' => Sends(q) /\ q # r
    BY <1>11 DEF Delete
  <2>7. \A q \in Ranks : q # r => /\ mem'[Pointer("send", q)] = mem[Pointer("send", q)]
                                  /\ mem'[Pointer("temp", q)] = mem[Pointer("temp", q)]
                                  /\ mem'[Pointer("displs", q)] = mem[Pointer("displs", q)]
    BY <2>5, PointerFacts DEF Pointer
  <2> QED
    BY <2>4, <2>6, <2>7, OtherMemory
<1>12. CASE Reset(r)
  BY <1>12 DEF Reset
<1>13. CASE Finalize(r)
  BY <1>13 DEF Finalize
<1>14. CASE Clear(r)
  BY <1>14 DEF Clear
<1>15. CASE Unready(r)
  BY <1>15 DEF Unready
<1>16. CASE AwaitCleared(r)
  BY <1>16 DEF AwaitCleared
<1> QED
  BY <1>1, <1>2, <1>3, <1>4, <1>5, <1>6, <1>7, <1>8, <1>9, <1>10, <1>11, <1>12, <1>13, <1>14, <1>15,
     <1>16 DEF Step

-----------------------------------------------------------------------------------------------------
\* The invariant holds

\* The initial states satisfy the invariant.
LEMMA InitHolds == Init => IInv
PROOF
<1> SUFFICES ASSUME Init PROVE IInv
  OBVIOUS
<1>1. ProgOK
  BY DEF Init, ProgOK
<1>2. Types /\ Places /\ Rounds
  <2>1. Types
    <3>1. call \in [Ranks -> Nat] /\ \A r \in Ranks : call[r] <= Len(prog)
      BY DEF Init
    <3>2. pc \in [Ranks -> PCs] /\ bar \in [Ranks -> Barrier!States]
      BY DEF Init, PCs, Barrier!Init, Barrier!States
    <3>3. from \in [Ranks -> (Pointers \cup {Null}) \X (Pointers \cup {Null})]
      BY DEF Init
    <3> QED
      BY <3>1, <3>2, <3>3 DEF Init, Types
  <2>2. Places
    BY DEF Init, Places, CreatePCs, CollectPCs, DestroyPCs, Barrier!Init
  <2>3. Rounds
    BY DEF Init, Rounds, Done, After, Half
  <2> QED
    BY <2>1, <2>2, <2>3
<1>3. Life
  BY <1>1, RankFacts DEF Init, Life, Created, Gone, Returned, Barrier!Init, op
<1>4. EnteredOK
  <2>1. Counted = {}
    BY DEF Counted, Init
  <2> QED
    BY <2>1, FS_EmptySet DEF EnteredOK, Init
<1>5. Published /\ Loaded
  BY DEF Init, Published, Loaded, LoadedBy, Out, op
<1>6. Memory
  BY DEF Init, Memory, Sends, Unwritten, NoSlots
<1> QED
  BY <1>1, <1>2, <1>3, <1>4, <1>5, <1>6 DEF IInv

\* It holds after a step that changes nothing.
LEMMA SameHolds == ASSUME IInv, UNCHANGED vars PROVE IInv'
PROOF
<1>1. ProgOK' /\ Types' /\ Places'
  BY DEF vars, IInv, ProgOK, Types, Places, op
<1>2. Rounds' /\ Life'
  BY DEF vars, IInv, Rounds, Done, After, Half, Life, Created, Gone, Returned, op
<1>3. EnteredOK' /\ Published'
  BY DEF vars, IInv, EnteredOK, Counted, Published, Out, op
<1>4. Loaded'
  BY ZenonT(60) DEF vars, IInv, Loaded, LoadedBy, Out, op, Peers, peer
<1>5. Memory'
  BY DEF vars, IInv, Memory, Sends, op
<1> QED
  BY <1>1, <1>2, <1>3, <1>4, <1>5 DEF IInv

\* Every step of every rank keeps it.
LEMMA StepHolds == IInv /\ [Next]_vars => IInv'
PROOF
<1> SUFFICES ASSUME IInv, [Next]_vars PROVE IInv'
  OBVIOUS
<1>1. ASSUME NEW r \in Ranks, Call(r) PROVE IInv'
  BY <1>1, ProgHolds, CallTypes, CallPlaces, CallRounds, CallLife, CallEntered, CallPublished,
     CallLoaded, CallMemory DEF IInv
<1>2. ASSUME NEW r \in Ranks, Step(r) PROVE IInv'
  BY <1>2, ProgHolds, StepTypes, StepPlaces, StepRounds, StepLife, StepEntered, StepPublished,
     StepLoaded, StepMemory DEF IInv
<1>3. CASE Terminated \/ UNCHANGED vars
  BY <1>3, SameHolds DEF Terminated
<1> QED
  BY <1>1, <1>2, <1>3 DEF Next

\* All ranks have passed the same barriers, the communicator lives as long as somebody is in it, and
\* what is published belongs to the call of whoever reads it.
THEOREM Invariance == Spec => []IInv
PROOF
<1>1. Init => IInv
  BY InitHolds
<1>2. IInv /\ [Next]_vars => IInv'
  BY StepHolds
<1> QED
  BY <1>1, <1>2, PTL DEF Spec

-----------------------------------------------------------------------------------------------------
\* The properties

\* The bounds of the program and of the loops
Bounds == Len(prog) <= MaxCalls /\ \A r \in Ranks : copied[r] <= N

\* The program makes no more calls than the bound.
LEMMA EnterBounds ==
  ASSUME IInv, Bounds, NEW r \in Ranks, NEW v \in AllCalls, Enter(r, v)
  PROVE  Len(prog') <= MaxCalls
PROOF
<1>1. Promise!Calls(r, v) /\ call[r] \in Nat /\ call[r] <= Len(prog) /\ Len(prog) \in Nat
  BY DEF Enter, IInv, Types, ProgOK
<1>2. CASE call[r] < Len(prog)
  BY <1>1, <1>2 DEF Promise!Calls, Bounds
<1>3. CASE ~(call[r] < Len(prog))
  <2>1. prog' = Append(prog, v) /\ call[r] + 1 <= MaxCalls
    BY <1>1, <1>3 DEF Promise!Calls, Promise!Callable
  <2>2. Len(prog') = call[r] + 1
    BY <1>1, <1>3, <2>1 DEF IInv, ProgOK
  <2> QED
    BY <2>1, <2>2
<1> QED
  BY <1>2, <1>3

\* No step exceeds the bounds.
LEMMA BoundsHold == ASSUME IInv, Bounds, [Next]_vars PROVE Bounds'
PROOF
<1>1. ASSUME NEW r \in Ranks, Call(r) PROVE Bounds'
  <2>1. CASE Create(r)
    BY <2>1, EnterBounds DEF Create, AllCalls, Bounds
  <2>2. CASE Destroy(r)
    BY <2>2, EnterBounds DEF Destroy, AllCalls, Bounds
  <2>3. ASSUME NEW v \in Ops, NEW same \in BOOLEAN, Collect(r, v, same) PROVE Bounds'
    <3>1. Len(prog') <= MaxCalls
      BY <2>3, EnterBounds DEF Collect, AllCalls
    <3>2. copied' = [copied EXCEPT ![r] = 0] /\ copied \in [Ranks -> Nat]
      BY <2>3 DEF Collect, IInv, Types
    <3> QED
      BY <3>1, <3>2, RankFacts DEF Bounds
  <2> QED
    BY <1>1, <2>1, <2>2, <2>3 DEF Call
<1>2. ASSUME NEW r \in Ranks, Step(r) PROVE Bounds'
  <2>1. prog' = prog
    BY <1>2, SameCalls
  <2>2. CASE Copy(r)
    <3>1. /\ op(r) \in Ops /\ copied[r] \in Nat /\ copied[r] < Len(Peers(r))
          /\ copied \in [Ranks -> Nat]
      BY <2>2 DEF Copy, IInv, Places, CollectPCs, Types, Loaded, LoadedBy
    <3>2. copied[r] + 1 <= N
      BY <3>1, PeersLen, RankFacts
    <3>3. copied' = [copied EXCEPT ![r] = @ + 1]
      BY <2>2 DEF Copy
    <3> QED
      BY <2>1, <3>1, <3>2, <3>3 DEF Bounds
  <2>3. CASE ~Copy(r)
    <3>1. copied' = copied
      BY <1>2, <2>3
         DEF Step, InitComm, SetReady, AwaitReady, Arrive, Leave, PublishDispls, Publish, Wait, Load,
             Delete, Reset, Finalize, Clear, Unready, AwaitCleared
    <3> QED
      BY <2>1, <3>1 DEF Bounds
  <2> QED
    BY <2>2, <2>3
<1>3. CASE Terminated \/ UNCHANGED vars
  BY <1>3 DEF Terminated, vars, Bounds
<1> QED
  BY <1>1, <1>2, <1>3 DEF Next

\* The types follow.
LEMMA TypesHold == IInv /\ Bounds => TypeOK
PROOF
<1> SUFFICES ASSUME IInv, Bounds PROVE TypeOK
  OBVIOUS
<1>1. Len(prog) \in Nat /\ N \in Nat
  BY RankFacts DEF IInv, ProgOK
<1>2. call \in [Ranks -> 0 .. Len(prog)] /\ copied \in [Ranks -> 0 .. N]
  BY <1>1 DEF IInv, Types, Bounds
<1>3. entered = Cardinality({r \in Ranks : pc[r] \in {"finalizer", "leaving"} /\ bar[r] # "none"})
  BY DEF IInv, EnteredOK, Counted
<1> QED
  BY <1>2, <1>3 DEF TypeOK, Bounds, IInv, Types, Barrier!TypeOK

\* Types, loops that stay within the number of threads, and a finalize counter that is exact, so that
\* rank 0 does not wait in ThreadComm::finalize for a number that is never reached, or was already.
THEOREM TypeCorrect == Spec => []TypeOK
PROOF
<1>1. Init => IInv /\ Bounds
  <2>1. Init => Bounds
    BY ConstAssumption, RankFacts DEF Init, Bounds
  <2> QED
    BY <2>1, InitHolds
<1>2. IInv /\ Bounds /\ [Next]_vars => (IInv /\ Bounds)'
  BY StepHolds, BoundsHold
<1>3. IInv /\ Bounds => TypeOK
  BY TypesHold
<1> QED
  BY <1>1, <1>2, <1>3, PTL DEF Spec

\* The communicator lives as long as it is used.
LEMMA AliveHolds == IInv => AliveWhileUsed
PROOF
<1> SUFFICES ASSUME IInv, NEW r \in Ranks, Using(r) PROVE ready /\ bar[r] # "none"
  BY DEF AliveWhileUsed
<1>1. Created /\ pc[0] # "flag"
  <2> SUFFICES ASSUME ~Created \/ pc[0] = "flag" PROVE FALSE
    OBVIOUS
  <2>1. \/ pc[r] = "idle" /\ call[r] = 0
        \/ pc[r] = "await"
        \/ r = 0 /\ pc[r] \in {"init", "flag"}
    BY NotCreated
  <2> QED
    BY <2>1 DEF Using, op
<1>2. ~Gone
  <2> SUFFICES ASSUME Gone PROVE FALSE
    OBVIOUS
  <2>1. r # 0 => pc[r] = "leaving" \/ Returned(r)
    BY DEF IInv, Life
  <2>2. r = 0 => pc[r] = "unready" \/ Returned(r)
    BY DEF Gone
  <2> QED
    BY <2>1, <2>2 DEF Using, Returned
<1> QED
  BY <1>1, <1>2 DEF IInv, Life, Gone

\* comm_create lets no thread through before the communicator is ready, and comm_destroy does not take
\* it away before all threads have left the barrier, for any number of threads and any program.
THEOREM Alive == Spec => []AliveWhileUsed
PROOF
  BY Invariance, AliveHolds, PTL

\* A communicator that every rank has destroyed is gone.
LEMMA GoneHolds == IInv => GoneWhenDestroyed
PROOF
<1> SUFFICES ASSUME IInv, NEW r \in Ranks, Returned(r)
             PROVE  ~ready /\ entered = 0 /\ \A q \in Ranks : ~Using(q) /\ bar[q] = "none"
  BY DEF GoneWhenDestroyed, Returned
<1>1. Returned(0) /\ Gone
  BY DEF IInv, Life, Gone
<1>2. ~ready /\ \A q \in Ranks : bar[q] = "none"
  BY <1>1 DEF IInv, Life
<1>3. \A q \in Ranks : ~Using(q)
  <2> SUFFICES ASSUME NEW q \in Ranks PROVE ~Using(q)
    OBVIOUS
  <2>1. pc[q] = "leaving" \/ Returned(q)
    BY <1>1 DEF IInv, Life
  <2> QED
    BY <2>1 DEF Using, Returned
<1>4. entered = 0
  <2>1. Counted = {}
    BY <1>2 DEF Counted
  <2> QED
    BY <2>1, FS_EmptySet DEF IInv, EnteredOK
<1> QED
  BY <1>2, <1>3, <1>4

\* No thread returns from comm_destroy while another one may still touch what rank 0 frees.
THEOREM GoneForAll == Spec => []GoneWhenDestroyed
PROOF
  BY Invariance, GoneHolds, PTL

\* The displacements of a call tell where the data for a rank is, in either order of the slots.
LEMMA SdisplsFacts ==
  ASSUME NEW k \in Nat, NEW r \in Ranks
  PROVE  Sdispls(k)[r] \in Ranks /\ Sdispls(k)[Sdispls(k)[r]] = r
PROOF
<1>1. r \in Nat /\ r < N /\ N \in Nat
  BY RankFacts
<1>2. N - 1 - r \in Ranks /\ N - 1 - (N - 1 - r) = r
  BY <1>1 DEF Ranks
<1>3. CASE k % 2 = 0
  BY <1>3 DEF Sdispls
<1>4. CASE k % 2 # 0
  BY <1>2, <1>4 DEF Sdispls
<1> QED
  BY <1>3, <1>4

\* A rank reads what its peers sent in the same call.
LEMMA ReadsHolds == IInv => ReadsCurrentCall
PROOF
<1> SUFFICES ASSUME IInv, NEW r \in Ranks, pc[r] = "copy"
             PROVE  /\ from[r][1] \in Pointers
                    /\ op(r) = "all_to_all_v" => from[r][2] \in Pointers
                    /\ Data(r) = <<Promise!Item(peer(r), IF op(r) \in InPlace THEN 0 ELSE r, call[r])>>
  BY DEF ReadsCurrentCall
<1> DEFINE p == peer(r)
           to == IF op(r) \in InPlace THEN 0 ELSE r
<1>1. p \in Ranks /\ 0 \in Ranks
  BY PeerFacts, RankFacts
<1>2. /\ Out(p)
      /\ from[r][1] = Source(p, inplace[p])
      /\ op(r) = "all_to_all_v" => from[r][2] = Pointer("displs", p)
  BY DEF IInv, Loaded, LoadedBy
<1>3. /\ call[p] = call[r] /\ op(p) = op(r) /\ Sends(p)
      /\ call[r] \in Nat /\ inplace[p] \in BOOLEAN
      /\ op(r) \in Ops
      /\ inplace[p] => op(r) \in InPlace
  <2>1. call[p] = call[r] /\ op(p) = op(r) /\ Sends(p)
    BY <1>1, <1>2, SameCall
  <2>2. call[r] \in Nat /\ inplace[p] \in BOOLEAN
    BY <1>1 DEF IInv, Types
  <2>3. op(r) \in Ops
    BY DEF IInv, Places, CollectPCs
  <2>4. inplace[p] => op(p) \in InPlace
    BY <1>1, <2>1 DEF IInv, Places, CollectPCs, Sends
  <2> QED
    BY <2>1, <2>2, <2>3, <2>4
<1>4. /\ from[r][1] \in Pointers
      /\ op(r) = "all_to_all_v" => from[r][2] \in Pointers
  BY <1>1, <1>2, <1>3, PointerFacts
<1>5. /\ inplace[p] => mem[Pointer("temp", p)][0] = UserData(p, call[r], op(r))[0]
      /\ ~inplace[p] => mem[Pointer("send", p)] = UserData(p, call[r], op(r))
      /\ op(r) = "all_to_all_v" => mem[Pointer("displs", p)] = Sdispls(call[r])
  BY <1>1, <1>3, SendsFacts
<1> HIDE DEF p
<1>6. CASE op(r) = "all_to_all_v"
  <2>1. Segment(r) = Sdispls(call[r])[r]
    BY <1>2, <1>5, <1>6 DEF Segment
  <2>2. ~inplace[p] /\ to = r
    BY <1>3, <1>6 DEF InPlace
  <2>3. Data(r) = UserData(p, call[r], op(r))[Sdispls(call[r])[r]]
    BY <1>2, <1>5, <2>1, <2>2 DEF Data, Source
  <2>4. Sdispls(call[r])[r] \in Ranks /\ Sdispls(call[r])[Sdispls(call[r])[r]] = r
    BY <1>3, SdisplsFacts
  <2>5. Data(r) = <<Promise!Item(p, r, call[r])>>
    BY <1>6, <2>3, <2>4 DEF UserData
  <2> QED
    BY <1>4, <2>2, <2>5 DEF p
<1>7. CASE op(r) = "all_to_all"
  <2>1. Segment(r) = r /\ ~inplace[p] /\ to = r
    BY <1>3, <1>7 DEF Segment, InPlace
  <2>2. Data(r) = UserData(p, call[r], op(r))[r]
    BY <1>2, <1>5, <2>1 DEF Data, Source
  <2>3. Data(r) = <<Promise!Item(p, r, call[r])>>
    BY <1>7, <2>2 DEF UserData
  <2> QED
    BY <1>4, <2>1, <2>3 DEF p
<1>8. CASE op(r) \in InPlace
  <2>1. Segment(r) = 0 /\ to = 0
    BY <1>8 DEF Segment, InPlace
  <2>2. Data(r) = UserData(p, call[r], op(r))[0]
    BY <1>2, <1>3, <1>5, <2>1 DEF Data, Source
  <2>3. Data(r) = <<Promise!Item(p, 0, call[r])>>
    BY <1>1, <1>8, <2>2 DEF UserData, InPlace
  <2> QED
    BY <1>4, <2>1, <2>3 DEF p
<1> QED
  BY <1>3, <1>6, <1>7, <1>8, ConstAssumption DEF InPlace

\* Whatever a thread copies in a collective is what its peer passed to this very call, in memory that
\* the peer has neither deleted nor given back to its user, for any number of threads and any sequence
\* of collectives, in place or not.
THEOREM Reads == Spec => []ReadsCurrentCall
PROOF
  BY Invariance, ReadsHolds, PTL

-----------------------------------------------------------------------------------------------------
\* What a rank receives

\* The ranks in the order in which rank r reduces what they send, itself first
Order(r) == [i \in 1 .. N |-> IF i = 1 THEN r ELSE Peers(r)[i - 1]]

\* What rank r has received when it has gone through its loop copied[r] times
ReceivedBy(r) ==
  /\ IF op(r) = "all_reduce"
       THEN mem[Pointer("recv", r)][0]
              = [i \in 1 .. copied[r] + 1 |-> Promise!Item(Order(r)[i], 0, call[r])]
       ELSE \A i \in 1 .. copied[r] :
              mem[Pointer("recv", r)][Peers(r)[i]]
                = <<Promise!Item(Peers(r)[i], IF op(r) = "all_gather" THEN 0 ELSE r, call[r])>>
  /\ pc[r] \in {"idle", "copied", "delete", "reset", "again"} => copied[r] = Len(Peers(r))

Received == \A r \in Ranks : op(r) \in Ops => ReceivedBy(r)

\* The loop goes through every rank, or through every rank but the one that has its own data already.
LEMMA PeersAll ==
  ASSUME NEW r \in Ranks, op(r) \in Ops \ {"all_reduce"}
  PROVE  /\ Len(Peers(r)) = N
         /\ \A p \in Ranks : \E i \in 1 .. N : Peers(r)[i] = p
PROOF
<1>1. N \in Nat /\ N # 0 /\ r \in Nat /\ r < N /\ \A p \in Ranks : p \in Nat /\ p < N
  BY RankFacts
<1>2. CASE op(r) \in {"all_to_all_v", "all_to_all"}
  <2>1. Peers(r) = [i \in 1 .. N |-> (r + N - i) % N]
    BY <1>2 DEF Peers
  <2>2. Len(Peers(r)) = N
    BY <1>1, <2>1
  <2>3. ASSUME NEW p \in Ranks PROVE \E i \in 1 .. N : Peers(r)[i] = p
    <3>1. CASE p < r
      <4>1. r - p \in 1 .. N /\ r - p <= r /\ r - (r - p) = p
        BY <1>1, <3>1
      <4>2. Peers(r)[r - p] = p
        BY <2>1, <4>1, RingFacts
      <4> QED
        BY <4>1, <4>2
    <3>2. CASE ~(p < r)
      <4>1. r + N - p \in 1 .. N /\ ~(r + N - p <= r) /\ r + N - (r + N - p) = p
        BY <1>1, <3>2
      <4>2. Peers(r)[r + N - p] = p
        BY <2>1, <4>1, RingFacts
      <4> QED
        BY <4>1, <4>2
    <3> QED
      BY <3>1, <3>2
  <2> QED
    BY <2>2, <2>3
<1>3. CASE op(r) = "all_gather"
  <2>1. Peers(r) = [i \in 1 .. N |-> i - 1]
    BY <1>3 DEF Peers
  <2>2. \A p \in Ranks : p + 1 \in 1 .. N /\ (p + 1) - 1 = p
    BY <1>1
  <2> QED
    BY <1>1, <2>1, <2>2
<1> QED
  BY <1>2, <1>3, ConstAssumption

\* The loop goes through ranks only.
LEMMA PeersRanks ==
  ASSUME NEW r \in Ranks, op(r) \in Ops \ {"all_reduce"}, NEW i \in 1 .. Len(Peers(r))
  PROVE  Peers(r)[i] \in Ranks
PROOF
<1>1. N \in Nat /\ N # 0 /\ r \in Nat /\ r < N /\ i \in 1 .. N
  BY RankFacts, PeersAll
<1>2. CASE op(r) \in {"all_to_all_v", "all_to_all"}
  <2>1. Peers(r)[i] = (r + N - i) % N
    BY <1>1, <1>2 DEF Peers
  <2> QED
    BY <1>1, <2>1, RingFacts DEF Ranks
<1>3. CASE op(r) = "all_gather"
  BY <1>1, <1>3 DEF Peers, Ranks
<1> QED
  BY <1>2, <1>3, ConstAssumption

\* A reduction takes every rank once.
LEMMA OrderFacts ==
  ASSUME NEW r \in Ranks, op(r) = "all_reduce"
  PROVE  /\ Len(Peers(r)) = N - 1
         /\ Order(r) \in Promise!Orders
         /\ Order(r)[1] = r
         /\ \A i \in 1 .. N - 1 : Order(r)[i + 1] = Peers(r)[i]
PROOF
<1>1. N \in Nat /\ N # 0 /\ r \in Nat /\ r < N /\ N - 1 \in Nat
  BY RankFacts
<1>2. Peers(r) = [i \in 1 .. N - 1 |-> IF i - 1 < r THEN i - 1 ELSE i]
  BY DEF Peers
<1>3. Len(Peers(r)) = N - 1
  BY <1>1, <1>2
<1>4. Order(r) = [i \in 1 .. N |-> IF i = 1 THEN r ELSE IF i - 2 < r THEN i - 2 ELSE i - 1]
  <2>1. \A i \in 1 .. N : i # 1 => i - 1 \in 1 .. N - 1 /\ (i - 1) - 1 = i - 2
    BY <1>1
  <2> QED
    BY <1>2, <2>1 DEF Order
<1>5. \A i \in 1 .. N : Order(r)[i] \in Ranks
  BY <1>1, <1>4 DEF Ranks
<1>6. \A i, j \in 1 .. N : i # j => Order(r)[i] # Order(r)[j]
  BY <1>1, <1>4
<1>7. \A i \in 1 .. N - 1 : i + 1 \in 1 .. N /\ i + 1 # 1 /\ (i + 1) - 1 = i
  BY <1>1
<1>8. Order(r) \in [1 .. N -> Ranks]
  BY <1>4, <1>5
<1>9. 1 \in 1 .. N
  BY <1>1
<1>10. Order(r) \in Promise!Orders
  BY <1>6, <1>8 DEF Promise!Orders, Promise!Ranks, Ranks
<1> QED
  BY <1>3, <1>7, <1>9, <1>10 DEF Order

\* What a rank holds when it has gone through its loop is a reply that it may get.
LEMMA WholeReply ==
  ASSUME IInv, Received, NEW r \in Ranks, op(r) \in Ops, copied[r] = Len(Peers(r))
  PROVE  (IF op(r) = "all_reduce" THEN mem[Pointer("recv", r)][0] ELSE mem[Pointer("recv", r)])
           \in Promise!Replies(op(r), r, call[r])
PROOF
<1> DEFINE k == call[r]
           m == mem[Pointer("recv", r)]
<1>1. m = [p \in Ranks |-> m[p]] /\ ReceivedBy(r) /\ N \in Nat
  BY PointerFacts, RankFacts DEF IInv, Memory, Received
<1>2. CASE op(r) = "all_reduce"
  <2>1. copied[r] + 1 = N /\ Order(r) \in Promise!Orders
    BY <1>1, <1>2, OrderFacts
  <2>2. m[0] = [i \in 1 .. N |-> Promise!Item(Order(r)[i], 0, k)]
    BY <1>1, <1>2, <2>1 DEF ReceivedBy
  <2> QED
    BY <1>2, <2>1, <2>2 DEF Promise!Replies
<1>3. CASE op(r) # "all_reduce"
  <2> DEFINE to == IF op(r) = "all_gather" THEN 0 ELSE r
  <2>1. ASSUME NEW p \in Ranks PROVE m[p] = <<Promise!Item(p, to, k)>>
    <3>1. PICK i \in 1 .. N : Peers(r)[i] = p
      BY <1>3, PeersAll
    <3>2. i \in 1 .. copied[r]
      BY <1>3, PeersAll
    <3> QED
      BY <1>1, <1>3, <3>1, <3>2 DEF ReceivedBy
  <2>2. m = [p \in Ranks |-> <<Promise!Item(p, to, k)>>]
    BY <1>1, <2>1
  <2>3. Promise!Ranks = Ranks
    BY DEF Promise!Ranks, Ranks
  <2>4. CASE op(r) = "all_gather"
    BY <2>2, <2>3, <2>4 DEF Promise!Replies
  <2>5. CASE op(r) \in {"all_to_all_v", "all_to_all"}
    BY <2>2, <2>3, <2>5 DEF Promise!Replies
  <2> QED
    BY <1>3, <2>4, <2>5, ConstAssumption
<1> QED
  BY <1>2, <1>3

\* No reply looks like being inside of a call.
LEMMA ReplyFacts ==
  ASSUME NEW r, NEW k, NEW v \in AllCalls, NEW x \in Promise!Replies(v, r, k)
  PROVE  x # Promise!Inside
PROOF
<1>1. N \in Nat /\ N # 0 /\ 0 \in Ranks /\ Promise!Ranks = Ranks /\ 1 \in 1 .. N
  BY RankFacts DEF Promise!Ranks, Ranks
<1>2. DOMAIN Promise!Inside = {}
  BY DEF Promise!Inside
<1>3. CASE v \in {"all_to_all_v", "all_to_all", "all_gather"}
  <2>1. DOMAIN x = Ranks
    BY <1>1, <1>3 DEF Promise!Replies
  <2> QED
    BY <1>1, <1>2, <2>1
<1>4. CASE v = "all_reduce"
  <2>1. DOMAIN x = 1 .. N
    BY <1>4 DEF Promise!Replies
  <2> QED
    BY <1>1, <1>2, <2>1
<1>5. CASE v \in {"create", "destroy"}
  BY <1>5 DEF Promise!Replies, Promise!Nothing, Promise!Inside
<1> QED
  BY <1>3, <1>4, <1>5, ConstAssumption DEF AllCalls

\* What has been received stays, as long as the rank does not copy or make another call.
LEMMA SameReceived ==
  ASSUME NEW q \in Ranks, op(q) \in Ops => ReceivedBy(q),
         op(q)' = op(q), call'[q] = call[q], copied'[q] = copied[q],
         mem'[Pointer("recv", q)] = mem[Pointer("recv", q)],
         pc'[q] \in {"idle", "copied", "delete", "reset", "again"} =>
           copied[q] = Len(Peers(q)) \/ op(q) \notin Ops
  PROVE  (op(q) \in Ops => ReceivedBy(q))'
PROOF
<1>1. Peers(q)' = Peers(q)
  BY DEF Peers
<1>2. Order(q)' = Order(q)
  BY <1>1 DEF Order
<1> QED
  BY <1>1, <1>2 DEF ReceivedBy

\* A call writes into the receive buffer of the rank that makes it only.
LEMMA CollectWrites ==
  ASSUME IInv, NEW r \in Ranks, NEW v \in Ops, NEW same \in BOOLEAN, Collect(r, v, same)
  PROVE  /\ \A q \in Ranks \ {r} : mem'[Pointer("recv", q)] = mem[Pointer("recv", q)]
         /\ v = "all_reduce" => mem'[Pointer("recv", r)][0] = <<Promise!Item(r, 0, call[r] + 1)>>
PROOF
<1> DEFINE k == call[r] + 1
           user == UserMemory(r, k, v, same)
           temp == WithTemp(r, user, same)
           own  == WithOwn(r, temp, v, same)
           Full(m) == /\ m = [a \in Pointers |-> m[a]]
                      /\ \A a \in Pointers : m[a] = [s \in Ranks |-> m[a][s]]
<1>1. mem' = own
  BY DEF Collect
<1>2. /\ Pointer("send", r) \in Pointers /\ Pointer("recv", r) \in Pointers
      /\ Pointer("displs", r) \in Pointers /\ Pointer("temp", r) \in Pointers
      /\ Source(r, same) \in Pointers
  BY PointerFacts
<1>3. 0 \in Ranks
  BY RankFacts
<1>4. Full(mem)
  BY DEF IInv, Memory
<1>5. Full(user)
  BY <1>2, <1>4 DEF UserMemory, UserData, Unwritten, Sdispls
<1>6. /\ ~same => user[Pointer("send", r)] = UserData(r, k, v)
      /\ same => user[Pointer("recv", r)] = UserData(r, k, v)
  BY <1>2, <1>4 DEF UserMemory, Pointer
<1>7. \A a \in Pointers : a[2] # r => user[a] = mem[a]
  BY <1>2, <1>4 DEF UserMemory, Pointer
<1> HIDE DEF user
<1>8. Full(temp)
  BY <1>2, <1>5 DEF WithTemp, Unwritten
<1>9. /\ ~same => temp[Pointer("send", r)] = UserData(r, k, v)
      /\ same => temp[Pointer("temp", r)][0] = UserData(r, k, v)[0]
  BY <1>2, <1>3, <1>5, <1>6 DEF WithTemp, Unwritten, Pointer
<1>10. \A a \in Pointers : a[2] # r => temp[a] = mem[a]
  BY <1>2, <1>5, <1>7 DEF WithTemp, Pointer
<1> HIDE DEF temp
<1>11. \A a \in Pointers : a # Pointer("recv", r) => own[a] = temp[a]
  BY <1>2, <1>8 DEF WithOwn
<1>12. v = "all_reduce" => own[Pointer("recv", r)][0] = temp[Source(r, same)][0]
  BY <1>2, <1>3, <1>8 DEF WithOwn
<1>13. temp[Source(r, same)][0] = UserData(r, k, v)[0]
  BY <1>9 DEF Source
<1> HIDE DEF own
<1>14. v = "all_reduce" => mem'[Pointer("recv", r)][0] = <<Promise!Item(r, 0, k)>>
  BY <1>1, <1>3, <1>12, <1>13 DEF UserData
<1>15. ASSUME NEW q \in Ranks \ {r}
       PROVE  mem'[Pointer("recv", q)] = mem[Pointer("recv", q)]
  <2>1. /\ Pointer("recv", q) \in Pointers /\ Pointer("recv", q)[2] # r
        /\ Pointer("recv", q) # Pointer("recv", r)
    BY PointerFacts DEF Pointer
  <2> QED
    BY <1>1, <1>10, <1>11, <2>1
<1> QED
  BY <1>14, <1>15

\* A rank that makes a call has received nothing in it yet, and the others keep what they have.
LEMMA CallReceived ==
  ASSUME IInv, Received, NEW r \in Ranks, Call(r)
  PROVE  Received'
PROOF
<1> USE DEF Goto
<1>0. /\ call \in [Ranks -> Nat] /\ pc \in [Ranks -> PCs] /\ copied \in [Ranks -> Nat]
      /\ \A q \in Ranks : op(q) \in Ops => ReceivedBy(q)
  BY DEF IInv, Types, Received
<1>1. CASE Create(r) \/ Destroy(r)
  <2>1. /\ op(r)' \in {"create", "destroy"} /\ UNCHANGED <<mem, copied>>
        /\ \A q \in Ranks \ {r} : op(q)' = op(q) /\ call'[q] = call[q] /\ pc'[q] = pc[q]
    BY <1>0, <1>1, EnterFacts DEF Create, Destroy, AllCalls, IInv
  <2>2. \A q \in Ranks \ {r} : (op(q) \in Ops => ReceivedBy(q))'
    BY <1>0, <2>1, SameReceived DEF ReceivedBy
  <2> QED
    BY <2>1, <2>2, OpsFacts DEF Received
<1>2. ASSUME NEW v \in Ops, NEW same \in BOOLEAN, Collect(r, v, same) PROVE Received'
  <2>1. /\ copied' = [copied EXCEPT ![r] = 0] /\ op(r)' = v
        /\ call' = [call EXCEPT ![r] = @ + 1] /\ pc'[r] \in {"displs", "publish"}
        /\ \A q \in Ranks \ {r} : op(q)' = op(q) /\ pc'[q] = pc[q]
    BY <1>0, <1>2, EnterFacts DEF Collect, AllCalls, IInv
  <2>2. ASSUME NEW q \in Ranks \ {r} PROVE (op(q) \in Ops => ReceivedBy(q))'
    <3>1. mem'[Pointer("recv", q)] = mem[Pointer("recv", q)]
      BY <1>2, CollectWrites
    <3>2. op(q)' = op(q) /\ call'[q] = call[q] /\ copied'[q] = copied[q] /\ pc'[q] = pc[q]
      BY <1>0, <2>1
    <3> QED
      BY <1>0, <3>1, <3>2, SameReceived DEF ReceivedBy
  <2>3. copied'[r] = 0 /\ call'[r] = call[r] + 1
    BY <1>0, <2>1
  <2>4. CASE v = "all_reduce"
    <3>1. mem'[Pointer("recv", r)][0] = <<Promise!Item(r, 0, call[r] + 1)>>
      BY <1>2, <2>4, CollectWrites
    <3>2. Order(r)'[1] = r
      <4>1. 1 \in 1 .. N
        BY RankFacts
      <4> QED
        BY <4>1 DEF Order
    <3>3. [i \in 1 .. copied'[r] + 1 |-> Promise!Item(Order(r)'[i], 0, call'[r])]
            = <<Promise!Item(r, 0, call[r] + 1)>>
      BY <2>3, <3>2
    <3> QED
      <4>1. ReceivedBy(r)'
        BY <2>1, <2>4, <3>1, <3>3 DEF ReceivedBy
      <4> QED
        BY <2>2, <4>1 DEF Received
  <2>5. CASE v # "all_reduce"
    BY <2>1, <2>2, <2>3, <2>5 DEF Received, ReceivedBy
  <2> QED
    BY <2>4, <2>5
<1> QED
  BY <1>1, <1>2 DEF Call

\* A rank that copies receives what its peer sends it in this call.
LEMMA CopyReceived ==
  ASSUME IInv, Received, NEW r \in Ranks, Copy(r)
  PROVE  ReceivedBy(r)' /\ \A q \in Ranks \ {r} : mem'[Pointer("recv", q)] = mem[Pointer("recv", q)]
PROOF
<1> DEFINE n == copied[r]
           a == Pointer("recv", r)
           to == IF op(r) \in InPlace THEN 0 ELSE r
           item == Promise!Item(peer(r), to, call[r])
<1>1. /\ pc[r] = "copy" /\ op(r) \in Ops /\ n \in Nat /\ n < Len(Peers(r)) /\ Len(Peers(r)) \in Nat
      /\ copied \in [Ranks -> Nat] /\ pc \in [Ranks -> PCs] /\ ReceivedBy(r)
      /\ peer(r) \in Ranks /\ peer(r) = Peers(r)[n + 1]
  <2>1. pc[r] = "copy"
    BY DEF Copy
  <2>2. op(r) \in Ops
    BY <2>1 DEF IInv, Places, CollectPCs
  <2> QED
    BY <2>1, <2>2, PeerFacts, PeersLen DEF IInv, Types, Loaded, LoadedBy, Received, peer
<1>2. Data(r) = <<item>>
  BY <1>1, ReadsHolds DEF ReadsCurrentCall
<1>3. a \in Pointers /\ 0 \in Ranks /\ \A q \in Ranks \ {r} : Pointer("recv", q) \in Pointers \ {a}
  BY PointerFacts, RankFacts DEF Pointer
<1>4. /\ mem = [b \in Pointers |-> mem[b]] /\ \A b \in Pointers : mem[b] = [s \in Ranks |-> mem[b][s]]
  BY DEF IInv, Memory
<1>5. /\ copied'[r] = n + 1 /\ UNCHANGED <<prog, call>> /\ op(r)' = op(r)
      /\ pc'[r] = IF n + 1 = Len(Peers(r)) THEN "copied" ELSE "wait"
  <2>1. Step(r)
    BY DEF Step
  <2> QED
    BY <1>1, <2>1, SameCalls DEF Copy, Loop, Goto
<1>6. Peers(r)' = Peers(r) /\ Order(r)' = Order(r)
  BY <1>5 DEF Peers, Order
<1>7. CASE op(r) = "all_reduce"
  <2> DEFINE new == mem[a][0] \o Data(r)
  <2>1. mem' = [mem EXCEPT ![a] = [mem[a] EXCEPT ![0] = new]]
    BY <1>3, <1>4, <1>7 DEF Copy
  <2>2. mem'[a][0] = mem[a][0] \o <<item>>
    <3> HIDE DEF new
    <3>1. mem'[a][0] = new
      BY <1>3, <1>4, <2>1
    <3> QED
      BY <1>2, <3>1 DEF new
  <2>3. \A q \in Ranks \ {r} : mem'[Pointer("recv", q)] = mem[Pointer("recv", q)]
    <3> HIDE DEF new, a
    <3> QED
      BY <1>3, <1>4, <2>1
  <2>4. to = 0
    BY <1>7 DEF InPlace
  <2>5. Order(r)[n + 2] = peer(r)
    <3>1. n + 1 \in 1 .. N - 1 /\ (n + 1) + 1 = n + 2
      BY <1>1, <1>7, OrderFacts, RankFacts
    <3> QED
      BY <1>1, <1>7, <3>1, OrderFacts
  <2>6. mem[a][0] = [i \in 1 .. n + 1 |-> Promise!Item(Order(r)[i], 0, call[r])]
    BY <1>1, <1>7 DEF ReceivedBy
  <2> DEFINE f == [i \in 1 .. n + 1 |-> Promise!Item(Order(r)[i], 0, call[r])]
             g == [i \in 1 .. (n + 1) + 1 |-> Promise!Item(Order(r)[i], 0, call[r])]
             S == {Promise!Item(Order(r)[i], 0, call[r]) : i \in 1 .. n + 2}
  <2>7. f \o <<item>> = g
    <3>1. \A i \in 1 .. n + 1 : f[i] = g[i] /\ i \in 1 .. n + 2
      BY <1>1
    <3>2. g[n + 2] = item /\ n + 2 = (n + 1) + 1 /\ n + 2 \in 1 .. n + 2
      BY <1>1, <2>4, <2>5
    <3>3. \A i \in 1 .. n + 2 : Promise!Item(Order(r)[i], 0, call[r]) \in S
      OBVIOUS
    <3>4. n + 1 \in Nat /\ n + 2 \in Nat
      BY <1>1
    <3>5. f \in Seq(S) /\ Len(f) = n + 1
      <4>1. \A i \in 1 .. n + 1 : Promise!Item(Order(r)[i], 0, call[r]) \in S
        BY <3>1, <3>3
      <4> HIDE DEF S, n
      <4> QED
        BY <3>4, <4>1
    <3>6. g \in Seq(S) /\ Len(g) = n + 2
      <4> HIDE DEF S
      <4> QED
        BY <3>2, <3>3, <3>4
    <3>7. item \in S
      BY <2>4, <2>5, <3>2, <3>3
    <3> HIDE DEF f, g, item, n, S
    <3> QED
      BY <3>1, <3>2, <3>4, <3>5, <3>6, <3>7
  <2>8. mem'[a][0] = [i \in 1 .. copied'[r] + 1 |-> Promise!Item(Order(r)'[i], 0, call'[r])]
    BY <1>5, <1>6, <2>2, <2>6, <2>7
  <2> QED
    BY <1>1, <1>5, <1>6, <1>7, <2>3, <2>8 DEF ReceivedBy
<1>8. CASE op(r) # "all_reduce"
  <2>1. mem' = [mem EXCEPT ![a] = [@ EXCEPT ![peer(r)] = <<item>>]]
    BY <1>1, <1>2, <1>3, <1>4, <1>8 DEF Copy
  <2>2. mem'[a] = [mem[a] EXCEPT ![peer(r)] = <<item>>]
    BY <1>3, <1>4, <2>1
  <2>3. \A q \in Ranks \ {r} : mem'[Pointer("recv", q)] = mem[Pointer("recv", q)]
    BY <1>3, <1>4, <2>1
  <2>4. to = IF op(r) = "all_gather" THEN 0 ELSE r
    BY <1>8 DEF InPlace
  <2>5. mem'[a][peer(r)] = <<item>> /\ \A p \in Ranks : p # peer(r) => mem'[a][p] = mem[a][p]
    BY <1>1, <1>3, <1>4, <2>2
  <2>6. \A i \in 1 .. n + 1 : i \in 1 .. n \/ i = n + 1
    BY <1>1
  <2>7. \A i \in 1 .. n : Peers(r)[i] \in Ranks
    <3>1. \A i \in 1 .. n : i \in 1 .. Len(Peers(r))
      BY <1>1
    <3> QED
      BY <1>1, <1>8, <3>1, PeersRanks
  <2>8. \A i \in 1 .. n + 1 : mem'[a][Peers(r)[i]] = <<Promise!Item(Peers(r)[i], to, call[r])>>
    <3>1. \A i \in 1 .. n : mem[a][Peers(r)[i]] = <<Promise!Item(Peers(r)[i], to, call[r])>>
      BY <1>1, <1>8, <2>4 DEF ReceivedBy
    <3> QED
      BY <1>1, <2>5, <2>6, <2>7, <3>1
  <2> QED
    BY <1>1, <1>5, <1>6, <1>8, <2>3, <2>4, <2>8 DEF ReceivedBy
<1> QED
  BY <1>7, <1>8

\* A step inside of a call keeps what all ranks have received: a copy adds an item, and the rest leave the
\* receive buffers alone or belong to calls that deliver nothing.
LEMMA StepReceived ==
  ASSUME IInv, Received, NEW r \in Ranks, Step(r)
  PROVE  Received'
PROOF
<1> USE DEF Goto
<1>0. /\ call \in [Ranks -> Nat] /\ pc \in [Ranks -> PCs] /\ copied \in [Ranks -> Nat]
      /\ \A q \in Ranks : op(q) \in Ops => ReceivedBy(q)
      /\ \A q \in Ranks : op(q)' = op(q) /\ call'[q] = call[q]
  BY SameCalls DEF IInv, Types, Received
<1>1. CASE Copy(r)
  <2>1. copied' = [copied EXCEPT ![r] = @ + 1] /\ \A q \in Ranks \ {r} : pc'[q] = pc[q]
    BY <1>0, <1>1 DEF Copy, Loop
  <2>2. ReceivedBy(r)'
    BY <1>1, CopyReceived
  <2>3. ASSUME NEW q \in Ranks \ {r} PROVE (op(q) \in Ops => ReceivedBy(q))'
    <3>1. mem'[Pointer("recv", q)] = mem[Pointer("recv", q)] /\ copied'[q] = copied[q] /\ pc'[q] = pc[q]
      BY <1>0, <1>1, <2>1, CopyReceived
    <3> QED
      BY <1>0, <3>1, SameReceived DEF ReceivedBy
  <2> QED
    BY <2>2, <2>3 DEF Received
<1>2. CASE ~Copy(r)
  <2> DEFINE Ends == {"idle", "copied", "delete", "reset", "again"}
  <2>1. copied' = copied
    BY <1>2 DEF Step, InitComm, SetReady, AwaitReady, Arrive, Leave, PublishDispls, Publish, Wait, Load,
             Delete, Reset, Finalize, Clear, Unready, AwaitCleared
  <2>2. \A q \in Ranks : mem'[Pointer("recv", q)] = mem[Pointer("recv", q)]
    <3>1. CASE Delete(r)
      <4>1. mem' = [mem EXCEPT ![Pointer("temp", r)] = Unwritten]
        BY <3>1 DEF Delete
      <4>2. mem = [a \in Pointers |-> mem[a]]
        BY DEF IInv, Memory
      <4>3. \A q \in Ranks : Pointer("recv", q) \in Pointers /\ Pointer("recv", q) # Pointer("temp", r)
        BY PointerFacts DEF Pointer
      <4> QED
        BY <4>1, <4>2, <4>3
    <3>2. CASE ~Delete(r)
      BY <1>2, <3>2 DEF Step, InitComm, SetReady, AwaitReady, Arrive, Leave, PublishDispls, Publish, Wait,
             Load, Reset, Finalize, Clear, Unready, AwaitCleared
    <3> QED
      BY <3>1, <3>2
  <2>3. \A q \in Ranks \ {r} : pc'[q] = pc[q]
    BY <1>0, <1>2 DEF Step, InitComm, SetReady, AwaitReady, Arrive, Leave, PublishDispls, Publish, Wait,
             Load, Loop, Delete, Reset, Finalize, Clear, Unready, AwaitCleared
  <2>4. op(r) \in Ops /\ pc'[r] \in Ends => copied[r] = Len(Peers(r))
    <3>1. CASE Publish(r)
      <4>1. copied[r] = 0
        BY <3>1 DEF Publish, IInv, Loaded, LoadedBy
      <4>2. pc'[r] = IF 0 = Len(Peers(r)) THEN "copied" ELSE "wait"
        BY <1>0, <3>1 DEF Publish, Loop
      <4> QED
        BY <4>1, <4>2
    <3>2. CASE InitComm(r) \/ SetReady(r) \/ AwaitReady(r) \/ Finalize(r) \/ Clear(r) \/ Unready(r)
                 \/ AwaitCleared(r)
      <4>1. pc[r] \in CreatePCs \cup DestroyPCs
        BY <3>2 DEF InitComm, SetReady, AwaitReady, Finalize, Clear, Unready, AwaitCleared,
                    CreatePCs, DestroyPCs
      <4>2. op(r) \in {"create", "destroy"}
        BY <4>1 DEF IInv, Places
      <4> QED
        BY <4>2, OpsFacts
    <3>3. CASE PublishDispls(r) \/ Wait(r) \/ Load(r)
      BY <1>0, <3>3 DEF PublishDispls, Wait, Load
    <3>4. CASE Delete(r) \/ Reset(r)
      BY <1>0, <3>4 DEF Delete, Reset, ReceivedBy
    <3>5. CASE Arrive(r) \/ Leave(r)
      <4>1. pc[r] \in AtBarrier
        BY <3>5 DEF Arrive, Leave
      <4>2. op(r) \in Ops => pc[r] \in Ends
        <5>1. pc[r] = "created" => op(r) = "create"
          BY DEF IInv, Places, CreatePCs
        <5>2. pc[r] = "destroy" => op(r) = "destroy"
          BY DEF IInv, Places, DestroyPCs
        <5> QED
          BY <4>1, <5>1, <5>2, OpsFacts DEF AtBarrier
      <4> QED
        BY <1>0, <4>2 DEF ReceivedBy
    <3> QED
      BY <1>2, <3>1, <3>2, <3>3, <3>4, <3>5 DEF Step
  <2>5. ASSUME NEW q \in Ranks PROVE (op(q) \in Ops => ReceivedBy(q))'
    <3>1. op(q) \in Ops /\ pc'[q] \in Ends => copied[q] = Len(Peers(q))
      BY <1>0, <2>3, <2>4 DEF ReceivedBy
    <3> QED
      BY <1>0, <2>1, <2>2, <3>1, SameReceived
  <2> QED
    BY <2>5 DEF Received
<1> QED
  BY <1>1, <1>2

\* What the ranks have received stays as described over every step of the network.
LEMMA ReceivedHolds == IInv /\ Received /\ [Next]_vars => Received'
PROOF
<1> SUFFICES ASSUME IInv, Received, [Next]_vars PROVE Received'
  OBVIOUS
<1>1. CASE Terminated \/ UNCHANGED vars
  <2>1. UNCHANGED vars
    BY <1>1 DEF Terminated
  <2>2. \A q \in Ranks : op(q)' = op(q)
    BY <2>1 DEF vars, op
  <2>3. ASSUME NEW q \in Ranks PROVE (op(q) \in Ops => ReceivedBy(q))'
    <3>1. op(q) \in Ops => ReceivedBy(q)
      BY DEF Received
    <3>2. /\ call'[q] = call[q] /\ copied'[q] = copied[q] /\ pc'[q] = pc[q]
          /\ mem'[Pointer("recv", q)] = mem[Pointer("recv", q)]
      BY <2>1 DEF vars
    <3> QED
      BY <2>2, <3>1, <3>2, SameReceived DEF ReceivedBy
  <2> QED
    BY <2>3 DEF Received
<1> QED
  BY <1>1, CallReceived, StepReceived DEF Next

\* A rank has received, of the ranks that it has copied from, what they sent it in its current call.
THEOREM ReceivedInvariance == Spec => []Received
PROOF
<1>1. Init => Received
  BY OpsFacts DEF Init, Received, op, AllCalls
<1> QED
  BY <1>1, ReceivedHolds, Invariance, PTL DEF Spec

-----------------------------------------------------------------------------------------------------
\* The promise

\* A rank that is outside of its calls has what its last call delivers.
LEMMA HoldsReply ==
  ASSUME IInv, Received, NEW r \in Ranks, pc[r] = "idle", call[r] # 0
  PROVE  result[r] \in Promise!Replies(op(r), r, call[r])
PROOF
<1>1. op(r) = prog[call[r]] /\ op(r) \in AllCalls
  <2>1. call[r] \in 1 .. Len(prog)
    BY DEF IInv, Types, ProgOK
  <2> QED
    BY <2>1 DEF op, IInv, ProgOK
<1>2. CASE op(r) \in Ops
  <2>1. copied[r] = Len(Peers(r))
    BY <1>2 DEF Received, ReceivedBy
  <2> QED
    BY <1>2, <2>1, WholeReply DEF result
<1>3. CASE op(r) \notin Ops
  BY <1>1, <1>3 DEF result, AllCalls, Promise!Replies, Promise!Nothing
<1> QED
  BY <1>2, <1>3

Answered == \A r \in Ranks : pc[r] = "idle" /\ call[r] # 0 => result[r] \in Promise!Replies(op(r), r, call[r])

\* All ranks that are outside of their calls have what their last calls deliver, before a step and after it.
LEMMA HoldReplies == IInv /\ Received => Answered
BY HoldsReply DEF Answered

\* A rank is inside of a call to the eyes of its user when it is for the network.
LEMMA InsideFacts ==
  ASSUME IInv, Received, NEW r \in Ranks
  PROVE  result[r] = Promise!Inside <=> pc[r] # "idle"
PROOF
<1>1. CASE pc[r] # "idle"
  BY <1>1 DEF result, Promise!Inside
<1>2. CASE pc[r] = "idle" /\ call[r] # 0
  <2>1. op(r) \in AllCalls
    <3>1. call[r] \in 1 .. Len(prog)
      BY <1>2 DEF IInv, Types, ProgOK
    <3> QED
      BY <1>2, <3>1 DEF op, IInv, ProgOK
  <2> QED
    BY <1>2, <2>1, HoldsReply, ReplyFacts
<1>3. CASE pc[r] = "idle" /\ call[r] = 0
  <2>1. op(r) \notin Ops
    BY <1>3, OpsFacts DEF op, AllCalls
  <2> QED
    BY <1>3, <2>1 DEF result, Promise!Inside
<1> QED
  BY <1>1, <1>2, <1>3

\* A rank whose place, call and receive buffer stay the same holds the same.
LEMMA SameResult ==
  ASSUME NEW q \in Ranks, op(q)' = op(q), (pc'[q] = "idle") <=> (pc[q] = "idle"),
         pc[q] = "idle" => mem'[Pointer("recv", q)] = mem[Pointer("recv", q)]
  PROVE  result'[q] = result[q]
PROOF
<1>1. CASE pc[q] # "idle"
  BY <1>1 DEF result
<1>2. CASE pc[q] = "idle"
  BY <1>2 DEF result
<1> QED
  BY <1>1, <1>2

\* Making a call is making it to the eyes of the user.
LEMMA CallBegins ==
  ASSUME IInv, Received, NEW r \in Ranks, Call(r)
  PROVE  \E v \in Ops \cup {"create", "destroy"} : Promise!Begin(r, v)
PROOF
<1>1. ASSUME NEW v \in AllCalls, Enter(r, v), pc' = [pc EXCEPT ![r] = pc'[r]], pc'[r] # "idle",
             \A q \in Ranks \ {r} : mem'[Pointer("recv", q)] = mem[Pointer("recv", q)]
      PROVE  Promise!Begin(r, v)
  <2>1. pc[r] = "idle" /\ \A q \in Ranks \ {r} : op(q)' = op(q)
    BY <1>1, EnterFacts DEF IInv
  <2>2. result[r] # Promise!Inside
    BY <2>1, InsideFacts
  <2>3. Promise!Calls(r, v) /\ call' = [call EXCEPT ![r] = @ + 1]
    BY <1>1 DEF Enter
  <2>4. pc \in [Ranks -> PCs]
    BY DEF IInv, Types
  <2>5. \A q \in Ranks \ {r} : result'[q] = result[q]
    BY <1>1, <2>1, <2>4, SameResult
  <2>6. result'[r] = Promise!Inside
    BY <1>1 DEF result, Promise!Inside
  <2>7. result = [q \in Ranks |-> result[q]] /\ result' = [q \in Ranks |-> result'[q]]
    BY DEF result
  <2>8. result' = [result EXCEPT ![r] = Promise!Inside]
    BY <2>5, <2>6, <2>7
  <2> QED
    BY <2>2, <2>3, <2>8 DEF Promise!Begin
<1>2. pc \in [Ranks -> PCs]
  BY DEF IInv, Types
<1>3. CASE Create(r)
  <2>1. /\ Enter(r, "create") /\ UNCHANGED mem
        /\ pc' = [pc EXCEPT ![r] = IF r = 0 THEN "init" ELSE "await"]
    BY <1>3 DEF Create, Goto
  <2>2. pc' = [pc EXCEPT ![r] = pc'[r]] /\ pc'[r] # "idle" /\ "create" \in AllCalls
    BY <1>2, <2>1 DEF AllCalls
  <2> QED
    BY <1>1, <2>1, <2>2
<1>4. CASE Destroy(r)
  <2>1. Enter(r, "destroy") /\ UNCHANGED mem /\ pc' = [pc EXCEPT ![r] = "destroy"]
    BY <1>4 DEF Destroy, Goto
  <2>2. pc' = [pc EXCEPT ![r] = pc'[r]] /\ pc'[r] # "idle" /\ "destroy" \in AllCalls
    BY <1>2, <2>1 DEF AllCalls
  <2> QED
    BY <1>1, <2>1, <2>2
<1>5. ASSUME NEW v \in Ops, NEW same \in BOOLEAN, Collect(r, v, same)
      PROVE  Promise!Begin(r, v)
  <2>1. Enter(r, v) /\ pc' = [pc EXCEPT ![r] = IF v = "all_to_all_v" THEN "displs" ELSE "publish"]
    BY <1>5 DEF Collect, Goto
  <2>2. pc' = [pc EXCEPT ![r] = pc'[r]] /\ pc'[r] # "idle" /\ v \in AllCalls
    BY <1>2, <2>1 DEF AllCalls
  <2> QED
    BY <1>1, <1>5, <2>1, <2>2, CollectWrites
<1> QED
  BY <1>3, <1>4, <1>5 DEF Call

\* A call returns when all ranks have entered it, because its rank has passed its last barrier.
LEMMA AllEntered ==
  ASSUME IInv, NEW r \in Ranks, After(r)
  PROVE  \A q \in Ranks : call[q] >= call[r]
PROOF
<1>1. \A q \in Ranks : call[q] \in Nat
  BY DEF IInv, Types
<1> QED
  BY <1>1 DEF IInv, Rounds, Done

\* What a step inside of a call is to the eyes of the user: nothing, or the return.
LEMMA StepReturns ==
  ASSUME IInv, IInv', Received, Received', NEW r \in Ranks, Step(r)
  PROVE  Promise!Return(r) \/ UNCHANGED <<prog, call, result>>
PROOF
<1> USE DEF Goto
<1>1. /\ UNCHANGED <<prog, call>> /\ \A q \in Ranks : op(q)' = op(q)
      /\ pc \in [Ranks -> PCs] /\ call \in [Ranks -> Nat]
  BY SameCalls DEF IInv, Types
<1>2. result = [q \in Ranks |-> result[q]] /\ result' = [q \in Ranks |-> result'[q]]
  BY DEF result
<1>3. pc[r] # "idle" /\ \A q \in Ranks \ {r} : pc'[q] = pc[q]
  BY <1>1 DEF Step, InitComm, SetReady, AwaitReady, Arrive, Leave, PublishDispls, Publish, Wait, Load, Copy,
             Loop, Delete, Reset, Finalize, Clear, Unready, AwaitCleared, AtBarrier
<1>4. \A q \in Ranks \ {r} : mem'[Pointer("recv", q)] = mem[Pointer("recv", q)]
  <2>1. CASE Copy(r)
    BY <2>1, CopyReceived
  <2>2. CASE Delete(r)
    <3>1. mem' = [mem EXCEPT ![Pointer("temp", r)] = Unwritten]
      BY <2>2 DEF Delete
    <3>2. mem = [a \in Pointers |-> mem[a]]
      BY DEF IInv, Memory
    <3>3. \A q \in Ranks : Pointer("recv", q) \in Pointers /\ Pointer("recv", q) # Pointer("temp", r)
      BY PointerFacts DEF Pointer
    <3> QED
      BY <3>1, <3>2, <3>3
  <2>3. CASE ~Copy(r) /\ ~Delete(r)
    BY <2>3 DEF Step, InitComm, SetReady, AwaitReady, Arrive, Leave, PublishDispls, Publish, Wait,
             Load, Reset, Finalize, Clear, Unready, AwaitCleared
  <2> QED
    BY <2>1, <2>2, <2>3
<1>5. \A q \in Ranks \ {r} : result'[q] = result[q]
  BY <1>1, <1>3, <1>4, SameResult
<1>6. CASE pc'[r] # "idle"
  <2>1. result'[r] = result[r]
    BY <1>1, <1>3, <1>6, SameResult
  <2>2. result' = result
    BY <1>2, <1>5, <2>1
  <2> QED
    BY <1>1, <2>2
<1>7. CASE pc'[r] = "idle"
  <2>1. After(r)
    <3>1. \/ pc[r] \in {"unready", "leaving"}
          \/ pc[r] \in {"created", "again"} /\ bar[r] = "released"
      BY <1>1, <1>3, <1>7 DEF Step, InitComm, SetReady, AwaitReady, Arrive, Leave, PublishDispls, Publish,
             Wait, Load, Copy, Loop, Delete, Reset, Finalize, Clear, Unready, AwaitCleared, AtBarrier,
             AfterBarrier, Barrier!Leave
    <3> QED
      BY <3>1 DEF After
  <2>2. \A q \in Ranks : call[q] >= call[r]
    BY <2>1, AllEntered
  <2>3. call[r] # 0 /\ op(r) = prog[call[r]]
    BY <1>3 DEF IInv, Places, op
  <2>4. result'[r] \in Promise!Replies(op(r), r, call[r])
    <3>1. (result[r] \in Promise!Replies(op(r), r, call[r]))'
      <4>1. call'[r] # 0
        BY <1>1, <2>3
      <4>2. Answered'
        BY HoldReplies, PTL
      <4> QED
        BY <1>7, <4>1, <4>2 DEF Answered
    <3>2. Promise!Replies(op(r), r, call[r])' = Promise!Replies(op(r), r, call[r])
      BY <1>1 DEF Promise!Replies
    <3> QED
      BY <3>1, <3>2
  <2>5. result[r] = Promise!Inside
    BY <1>3 DEF result, Promise!Inside
  <2>6. result' = [result EXCEPT ![r] = result'[r]]
    BY <1>2, <1>5
  <2> HIDE DEF result
  <2> QED
    BY <1>1, <2>2, <2>3, <2>4, <2>5, <2>6 DEF Promise!Return, Promise!Ranks, Ranks
<1> QED
  BY <1>6, <1>7

\* The network implements the collective operations as their users see them: a rank returns from a call
\* only when all ranks have made it, with one item of every rank that was meant for it in this very
\* call, each reduced once, for any number of threads and any sequence of calls.
THEOREM Implements == Spec => KeepsPromise
PROOF
<1>1. Init => Promise!Init
  <2> SUFFICES ASSUME Init PROVE Promise!Init
    OBVIOUS
  <2>1. prog = <<>> /\ call = [r \in Ranks |-> 0] /\ Promise!Ranks = Ranks
    BY DEF Init, Promise!Ranks, Ranks
  <2>2. \A r \in Ranks : op(r) \notin Ops
    BY <2>1, OpsFacts DEF op, AllCalls
  <2>3. result = [r \in Ranks |-> <<0>>]
    BY <2>2 DEF Init, result
  <2> QED
    BY <2>1, <2>3 DEF Promise!Init, Promise!Nothing
<1>2. IInv /\ IInv' /\ Received /\ Received' /\ [Next]_vars => [Promise!Next]_(Promise!vars)
  <2> SUFFICES ASSUME IInv, IInv', Received, Received', [Next]_vars
               PROVE  [Promise!Next]_(Promise!vars)
    OBVIOUS
  <2>1. Promise!Ranks = Ranks
    BY DEF Promise!Ranks, Ranks
  <2>2. ASSUME NEW r \in Ranks, Call(r) PROVE Promise!Next
    BY <2>1, <2>2, CallBegins DEF Promise!Next
  <2>3. ASSUME NEW r \in Ranks, Step(r) PROVE Promise!Next \/ UNCHANGED Promise!vars
    <3>1. CASE Promise!Return(r)
      BY <2>1, <3>1 DEF Promise!Next
    <3>2. CASE UNCHANGED <<prog, call, result>>
      BY <3>2 DEF Promise!vars
    <3> QED
      BY <2>3, <3>1, <3>2, StepReturns
  <2>4. CASE Terminated \/ UNCHANGED vars
    <3>1. UNCHANGED vars
      BY <2>4 DEF Terminated
    <3> QED
      BY <3>1 DEF vars, result, op, Promise!vars
  <2> QED
    BY <2>2, <2>3, <2>4 DEF Next
<1> QED
  BY <1>1, <1>2, Invariance, ReceivedInvariance, PTL DEF Spec, KeepsPromise, Promise!Safe
====
