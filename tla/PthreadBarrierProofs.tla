---- MODULE PthreadBarrierProofs ----
(* PthreadBarrier implements Barrier, for any number of threads and any width of the phase.            *)
(*                                                                                                     *)
(* The argument: the count is the number of ranks that wait in the current round (CountIsRound), so    *)
(* the rank that makes it reach the limit finds all the others waiting. It changes the phase while     *)
(* they all remember the old one, and the next change needs every rank, so one bit of phase would do.  *)
EXTENDS PthreadBarrier, FiniteSetTheorems, TLAPS

Waiting == {r \in Ranks : InRound(r)}

\* Who owns the mutex is where only its owner can be.
Owned == \A r \in Ranks : pc[r] \in {"count", "test", "unlock"} <=> mutex = r

\* A barrier that does not exist is not used.
Unused == ~live => \A r \in Ranks : pc[r] = "out"

IInv ==
  /\ TypeOK
  /\ Owned
  /\ Unused
  /\ NoLostWakeup
  /\ CountIsRound

\* The limit is a positive number and the set of ranks that wait has a cardinality.
LEMMA Finite ==
  /\ limit \in Nat \ {0}
  /\ IsFiniteSet(Waiting)
  /\ Cardinality(Waiting) \in Nat
PROOF
<1>1. limit \in Nat /\ limit # 0
  BY ConstAssumption, FS_CardinalityType, FS_EmptySet DEF limit
<1>2. IsFiniteSet(Waiting)
  <2>1. Waiting \subseteq Ranks
    BY DEF Waiting
  <2> QED
    BY <2>1, FS_Subset, ConstAssumption
<1>3. Cardinality(Waiting) \in Nat
  BY <1>2, FS_CardinalityType
<1> QED
  BY <1>1, <1>2, <1>3

\* A rank that is about to count itself completes the limit exactly if all others wait in its round.
LEMMA LastFindsAllWaiting ==
  ASSUME IInv, NEW r \in Ranks, pc[r] = "count"
  PROVE  count + 1 = limit <=> \A q \in Ranks \ {r} : InRound(q)
PROOF
<1> DEFINE Others == Ranks \ {r}
<1>1. IsFiniteSet(Others) /\ Cardinality(Others) = limit - 1
  BY FS_RemoveElement, ConstAssumption DEF limit
<1>2. Waiting \subseteq Others
  BY DEF Waiting, InRound
<1>3. count = Cardinality(Waiting)
  BY DEF IInv, CountIsRound, Waiting
<1>4. Cardinality(Waiting) = Cardinality(Others) => Waiting = Others
  BY <1>1, <1>2, FS_Subset
<1>5. count + 1 = limit <=> Cardinality(Waiting) = Cardinality(Others)
  BY <1>1, <1>3, Finite
<1>6. Waiting = Others <=> \A q \in Ranks \ {r} : InRound(q)
  BY <1>2 DEF Waiting
<1> QED
  BY <1>4, <1>5, <1>6

\* The next phase differs from the current one.
LEMMA PhaseChanges ==
  ASSUME TypeOK
  PROVE  /\ (phase + 1) % PhaseMod \in 0 .. PhaseMod - 1
         /\ (phase + 1) % PhaseMod # phase
PROOF
<1>1. CASE phase + 1 = PhaseMod
  BY <1>1, ConstAssumption DEF TypeOK
<1>2. CASE phase + 1 # PhaseMod
  <2>1. phase + 1 \in 0 .. PhaseMod - 1
    BY <1>2, ConstAssumption DEF TypeOK
  <2>2. (phase + 1) % PhaseMod = phase + 1
    BY <2>1, ConstAssumption
  <2> QED
    BY <2>1, <2>2, ConstAssumption DEF TypeOK
<1> QED
  BY <1>1, <1>2

\* The barrier is created with its invariant.
LEMMA InitHolds == Init => IInv
PROOF
<1> SUFFICES ASSUME Init PROVE IInv
  OBVIOUS
<1>1. Waiting = {}
  BY DEF Waiting, InRound, Init
<1>2. TypeOK
  <2>1. 0 \in 0 .. limit - 1 /\ 0 \in 0 .. PhaseMod - 1
    BY Finite, ConstAssumption
  <2> QED
    BY <2>1 DEF TypeOK, Init, PCs
<1>3. CountIsRound
  BY <1>1, FS_EmptySet DEF CountIsRound, Waiting, Init
<1> QED
  BY <1>2, <1>3, ConstAssumption DEF IInv, Owned, Unused, NoLostWakeup, Init

\* Steps that leave the count, and the set of those who wait, as they are
LEMMA SameRound ==
  ASSUME CountIsRound, count' = count, \A r \in Ranks : InRound(r)' <=> InRound(r)
  PROVE  CountIsRound'
PROOF
<1>1. {r \in Ranks : InRound(r)}' = {r \in Ranks : InRound(r)}
  OBVIOUS
<1> QED
  BY <1>1 DEF CountIsRound

\* Every step of every thread keeps it.
LEMMA StepHolds == IInv /\ [Next]_vars => IInv'
PROOF
<1> SUFFICES ASSUME IInv, [Next]_vars PROVE IInv'
  OBVIOUS
<1> USE DEF IInv
<1>1. CASE Create
  <2>1. \A r \in Ranks : ~InRound(r) /\ ~InRound(r)'
    BY <1>1 DEF Create, Unused, InRound
  <2>2. Waiting = {}
    BY <2>1 DEF Waiting
  <2>3. count = 0
    BY <2>2, FS_EmptySet DEF CountIsRound, Waiting
  <2>4. CountIsRound'
    BY <1>1, <2>1, <2>3, SameRound DEF Create
  <2>5. TypeOK'
    BY <1>1, Finite, ConstAssumption DEF Create, TypeOK
  <2> QED
    BY <1>1, <2>4, <2>5 DEF Create, Owned, Unused, NoLostWakeup
<1>2. CASE Destroy
  <2>1. CountIsRound'
    BY <1>2, SameRound DEF Destroy, InRound
  <2> QED
    BY <1>2, <2>1 DEF Destroy, TypeOK, Owned, Unused, NoLostWakeup
<1>3. ASSUME NEW r \in Ranks, Enter(r) PROVE IInv'
  <2>1. CountIsRound'
    BY <1>3, SameRound DEF Enter, InRound, TypeOK
  <2> QED
    BY <1>3, <2>1 DEF Enter, TypeOK, PCs, Owned, Unused, NoLostWakeup
<1>4. ASSUME NEW r \in Ranks, Spurious(r) PROVE IInv'
  <2>1. CountIsRound'
    BY <1>4, SameRound DEF Spurious, InRound, TypeOK
  <2> QED
    BY <1>4, <2>1 DEF Spurious, TypeOK, PCs, Owned, Unused, NoLostWakeup
<1>5. ASSUME NEW r \in Ranks, Lock(r) PROVE IInv'
  <2>1. CountIsRound'
    BY <1>5, SameRound DEF Lock, InRound, TypeOK
  <2> QED
    BY <1>5, <2>1, ConstAssumption DEF Lock, TypeOK, PCs, Owned, Unused, NoLostWakeup
<1>6. ASSUME NEW r \in Ranks, CountLast(r) PROVE IInv'
  <2>1. \A q \in Ranks \ {r} : InRound(q)
    BY <1>6, LastFindsAllWaiting DEF CountLast
  <2>2. phase' \in 0 .. PhaseMod - 1 /\ phase' # phase
    BY <1>6, PhaseChanges DEF CountLast
  <2>3. \A q \in Ranks : pc'[q] = IF q = r THEN "unlock" ELSE Woken(pc)[q]
    BY <1>6 DEF CountLast, TypeOK, Woken
  <2>4. \A q \in Ranks : ~InRound(q)'
    BY <1>6, <2>1, <2>2, <2>3 DEF CountLast, InRound
  <2>5. Waiting' = {}
    BY <2>4 DEF Waiting
  <2>6. CountIsRound'
    BY <1>6, <2>5, FS_EmptySet DEF CountLast, CountIsRound, Waiting
  <2>7. TypeOK'
    <3>1. pc' \in [Ranks -> PCs]
      BY <1>6 DEF CountLast, TypeOK, PCs, Woken
    <3> QED
      BY <1>6, <2>2, <3>1, Finite DEF CountLast, TypeOK
  <2>8. Owned'
    BY <1>6, <2>1, <2>3 DEF CountLast, Owned, InRound, Woken, TypeOK
  <2>9. Unused'
    BY <1>6 DEF CountLast, Unused
  <2>10. NoLostWakeup'
    BY <2>3 DEF NoLostWakeup, Woken
  <2> QED
    BY <2>6, <2>7, <2>8, <2>9, <2>10
<1>7. ASSUME NEW r \in Ranks, CountWait(r) PROVE IInv'
  <2>1. pc' = [pc EXCEPT ![r] = "sleep"] /\ old' = [old EXCEPT ![r] = phase] /\ phase' = phase
    BY <1>7 DEF CountWait
  <2>2. r \notin Waiting
    BY <1>7 DEF CountWait, Waiting, InRound
  <2>3. Waiting' = Waiting \cup {r}
    BY <2>1 DEF Waiting, InRound, TypeOK
  <2>4. CountIsRound'
    <3>1. Cardinality(Waiting') = Cardinality(Waiting) + 1
      BY <2>2, <2>3, Finite, FS_AddElement
    <3> QED
      BY <1>7, <3>1 DEF CountWait, CountIsRound, Waiting
  <2>5. TypeOK'
    BY <1>7, Finite DEF CountWait, TypeOK, PCs
  <2> QED
    BY <1>7, <2>4, <2>5, ConstAssumption DEF CountWait, TypeOK, Owned, Unused, NoLostWakeup
<1>8. ASSUME NEW r \in Ranks, Relock(r) PROVE IInv'
  <2>1. CountIsRound'
    BY <1>8, SameRound DEF Relock, InRound, TypeOK
  <2> QED
    BY <1>8, <2>1, ConstAssumption DEF Relock, TypeOK, PCs, Owned, Unused, NoLostWakeup
<1>9. ASSUME NEW r \in Ranks, TestSame(r) PROVE IInv'
  <2>1. CountIsRound'
    BY <1>9, SameRound DEF TestSame, InRound, TypeOK
  <2> QED
    BY <1>9, <2>1, ConstAssumption DEF TestSame, TypeOK, PCs, Owned, Unused, NoLostWakeup
<1>10. ASSUME NEW r \in Ranks, TestDone(r) PROVE IInv'
  <2>1. CountIsRound'
    BY <1>10, SameRound DEF TestDone, InRound, TypeOK
  <2> QED
    BY <1>10, <2>1 DEF TestDone, TypeOK, PCs, Owned, Unused, NoLostWakeup
<1>11. ASSUME NEW r \in Ranks, Unlock(r) PROVE IInv'
  <2>1. CountIsRound'
    BY <1>11, SameRound DEF Unlock, InRound, TypeOK
  <2> QED
    BY <1>11, <2>1, ConstAssumption DEF Unlock, TypeOK, PCs, Owned, Unused, NoLostWakeup
<1>12. CASE UNCHANGED vars
  <2>1. CountIsRound'
    BY <1>12, SameRound DEF vars, InRound
  <2> QED
    BY <1>12, <2>1 DEF vars, TypeOK, Owned, Unused, NoLostWakeup
<1> QED
  BY <1>1, <1>2, <1>3, <1>4, <1>5, <1>6, <1>7, <1>8, <1>9, <1>10, <1>11, <1>12 DEF Next, Step

\* The inductive invariant of pthread_barrier_wait: the mutex is owned by whoever is between locking and
\* unlocking it, the count is that of the current round, and whoever sleeps does so for this round.
THEOREM Invariance == Spec => []IInv
PROOF
  BY InitHolds, StepHolds, PTL DEF Spec

\* The counter stays below the limit and the phase in its range, whatever the
\* order in which threads count, wake up and enter again (pthread_barrier_wait).
THEOREM TypeCorrect == Spec => []TypeOK
PROOF
<1>1. IInv => TypeOK
  BY DEF IInv
<1> QED
  BY <1>1, Invariance, PTL

\* No rank sleeps through the broadcast that ends its round.
THEOREM NoWakeupIsLost == Spec => []NoLostWakeup
PROOF
<1>1. IInv => NoLostWakeup
  BY DEF IInv
<1> QED
  BY <1>1, Invariance, PTL

\* barrier->count counts the ranks that wait in the current round and none of an earlier one.
THEOREM CountIsExact == Spec => []CountIsRound
PROOF
<1>1. IInv => CountIsRound
  BY DEF IInv
<1> QED
  BY <1>1, Invariance, PTL

-----------------------------------------------------------------------------------------------------
\* The implementation of Barrier

\* The initial states are those of the abstract barrier.
LEMMA InitRefines == Init => B!Init
PROOF
  BY DEF Init, B!Init, bar

\* What each rank shows of the barrier
Shows(r) ==
  IF ~live THEN "none"
  ELSE IF pc[r] \in {"out", "lock", "count"} THEN "out"
  ELSE IF InRound(r) THEN "in"
  ELSE "released"

\* What the abstract barrier sees of a thread
LEMMA BarShows == bar = [r \in Ranks |-> Shows(r)]
PROOF
  BY DEF bar, Shows

\* and sees of it after a step
LEMMA BarShowsNext == bar' = [r \in Ranks |-> Shows(r)']
PROOF
  BY DEF bar, Shows

\* A step after which every rank shows the same
LEMMA Stutters ==
  ASSUME \A r \in Ranks : Shows(r)' = Shows(r)
  PROVE  UNCHANGED bar
PROOF
  BY BarShows, BarShowsNext

\* Every step is one of the abstract barrier, or changes nothing there.
LEMMA StepRefines == IInv /\ [Next]_vars => [B!Next]_bar
PROOF
<1> SUFFICES ASSUME IInv, [Next]_vars PROVE [B!Next]_bar
  OBVIOUS
<1> USE DEF IInv
<1>1. CASE Create
  <2>1. \A r \in Ranks : Shows(r) = "none" /\ Shows(r)' = "out"
    BY <1>1 DEF Create, Unused, Shows
  <2>2. B!Create
    BY <2>1, BarShows, BarShowsNext DEF B!Create
  <2> QED
    BY <2>2 DEF B!Next
<1>2. CASE Destroy
  <2>1. \A r \in Ranks : Shows(r) = "out" /\ Shows(r)' = "none"
    BY <1>2 DEF Destroy, Shows
  <2>2. B!Destroy
    BY <2>1, BarShows, BarShowsNext DEF B!Destroy
  <2> QED
    BY <2>2 DEF B!Next
<1>3. ASSUME NEW r \in Ranks,
             Enter(r) \/ Lock(r) \/ Spurious(r) \/ Relock(r) \/ TestSame(r) \/ TestDone(r)
      PROVE  UNCHANGED bar
  <2>1. CASE Enter(r)
    BY <2>1, Stutters DEF Enter, Shows, InRound, TypeOK
  <2>2. CASE Lock(r)
    BY <2>2, Stutters DEF Lock, Shows, InRound, TypeOK
  <2>3. CASE Spurious(r)
    BY <2>3, Stutters DEF Spurious, Shows, InRound, TypeOK
  <2>4. CASE Relock(r)
    BY <2>4, Stutters DEF Relock, Shows, InRound, TypeOK
  <2>5. CASE TestSame(r)
    BY <2>5, Stutters DEF TestSame, Shows, InRound, TypeOK
  <2>6. CASE TestDone(r)
    BY <2>6, Stutters DEF TestDone, Shows, InRound, TypeOK
  <2> QED
    BY <1>3, <2>1, <2>2, <2>3, <2>4, <2>5, <2>6
<1>4. ASSUME NEW r \in Ranks, CountLast(r) PROVE B!Arrive(r)
  <2>1. \A q \in Ranks \ {r} : InRound(q)
    BY <1>4, LastFindsAllWaiting DEF CountLast
  <2>2. live /\ live'
    BY <1>4 DEF CountLast, Unused
  <2>3. phase' # phase
    BY <1>4, PhaseChanges DEF CountLast
  <2>4. Shows(r) = "out" /\ \A q \in Ranks \ {r} : Shows(q) = "in"
    BY <1>4, <2>1, <2>2 DEF CountLast, Shows, InRound
  <2>5. \A q \in Ranks : pc'[q] \in {"relock", "test", "unlock"} /\ (q # r => old'[q] # phase')
    BY <1>4, <2>1, <2>3 DEF CountLast, InRound, Woken, TypeOK
  <2>6. pc'[r] = "unlock"
    BY <1>4 DEF CountLast, Woken, TypeOK
  <2>7. \A q \in Ranks : Shows(q)' = "released"
    BY <2>2, <2>5, <2>6 DEF Shows, InRound
  <2>8. bar[r] = "out" /\ (\A q \in Ranks \ {r} : bar[q] = "in") /\ bar' = [q \in Ranks |-> "released"]
    BY <2>4, <2>7, BarShows, BarShowsNext
  <2> QED
    BY <2>8 DEF B!Arrive, B!Entered
<1>5. ASSUME NEW r \in Ranks, CountWait(r) PROVE B!Arrive(r)
  <2>1. ~ \A q \in Ranks \ {r} : InRound(q)
    BY <1>5, LastFindsAllWaiting DEF CountWait
  <2>2. live /\ live'
    BY <1>5 DEF CountWait, Unused
  <2>3. ~ \A q \in Ranks \ {r} : bar[q] = "in"
    BY <2>1, <2>2, BarShows DEF Shows
  <2>4. bar[r] = "out"
    BY <1>5, <2>2, BarShows DEF CountWait, Shows
  <2>5. Shows(r)' = "in" /\ \A q \in Ranks \ {r} : Shows(q)' = Shows(q)
    BY <1>5, <2>2 DEF CountWait, Shows, InRound, TypeOK
  <2>6. bar' = [bar EXCEPT ![r] = "in"]
    BY <2>5, BarShows, BarShowsNext
  <2> QED
    BY <2>3, <2>4, <2>6 DEF B!Arrive, B!Entered
<1>6. ASSUME NEW r \in Ranks, Unlock(r) PROVE B!Leave(r)
  <2>1. live /\ live'
    BY <1>6 DEF Unlock, Unused
  <2>2. Shows(r) = "released" /\ Shows(r)' = "out"
    BY <1>6, <2>1 DEF Unlock, Shows, InRound, TypeOK
  <2>3. \A q \in Ranks \ {r} : Shows(q)' = Shows(q)
    BY <1>6 DEF Unlock, Shows, InRound, TypeOK
  <2>4. bar[r] = "released" /\ bar' = [bar EXCEPT ![r] = "out"]
    BY <2>2, <2>3, BarShows, BarShowsNext
  <2> QED
    BY <2>4 DEF B!Leave
<1>7. CASE UNCHANGED vars
  BY <1>7, Stutters DEF vars, Shows, InRound
<1> QED
  BY <1>1, <1>2, <1>3, <1>4, <1>5, <1>6, <1>7 DEF Next, Step, B!Next

\* pthread_barrier_wait implements the barrier that ThreadComm relies on, as far as safety goes.
THEOREM Implementation == Spec => ImplementsSafety
PROOF
  BY InitRefines, StepRefines, Invariance, PTL DEF Spec, ImplementsSafety, B!Safe
====
