---- MODULE PthreadBarrier ----
(* The pthread barrier that comm/detail/pthread_barrier.h provides where the platform has none: a      *)
(* mutex, a condition variable, a count of the threads in the round and a phase that tells one round   *)
(* from the next. One action is what a thread does between two operations on the mutex.                *)
EXTENDS Integers, FiniteSets

CONSTANTS Ranks,     \* the threads, barrier->limit of them
          PhaseMod,  \* the phase is an unsigned int: 2^32 in the code, any value above one is enough
          NoOne      \* the mutex is free

ASSUME ConstAssumption ==
  /\ IsFiniteSet(Ranks)
  /\ Ranks # {}
  /\ PhaseMod \in Nat \ {0, 1}
  /\ NoOne \notin Ranks

VARIABLES live,   \* between pthread_barrier_init and pthread_barrier_destroy
          mutex,  \* its owner or NoOne
          count,  \* barrier->count
          phase,  \* barrier->phase
          old,    \* old[r]: the local old_phase of r
          pc      \* where r is in pthread_barrier_wait

vars == <<live, mutex, count, phase, old, pc>>

limit == Cardinality(Ranks)

PCs == {"out",      \* not in pthread_barrier_wait
        "lock",     \* in pthread_mutex_lock, at the start
        "count",    \* owns the mutex, has not counted itself yet
        "sleep",    \* in pthread_cond_wait, without the mutex
        "relock",   \* woken in pthread_cond_wait, needs the mutex to return from it
        "test",     \* owns the mutex, about to compare the phases
        "unlock"}   \* owns the mutex, about to unlock it and to return

TypeOK ==
  /\ live \in BOOLEAN
  /\ mutex \in Ranks \cup {NoOne}
  /\ count \in 0 .. limit - 1
  /\ phase \in 0 .. PhaseMod - 1
  /\ old \in [Ranks -> 0 .. PhaseMod - 1]
  /\ pc \in [Ranks -> PCs]

Init ==
  /\ live = FALSE
  /\ mutex = NoOne
  /\ count = 0
  /\ phase = 0
  /\ old = [r \in Ranks |-> 0]
  /\ pc = [r \in Ranks |-> "out"]

\* pthread_barrier_init
Create ==
  /\ ~live
  /\ live' = TRUE
  /\ count' = 0
  /\ phase' = 0
  /\ UNCHANGED <<mutex, old, pc>>

\* pthread_barrier_destroy, called as ThreadComm::finalize calls it (see LocalNetwork)
Destroy ==
  /\ live
  /\ \A r \in Ranks : pc[r] = "out"
  /\ live' = FALSE
  /\ UNCHANGED <<mutex, count, phase, old, pc>>

Enter(r) ==
  /\ live
  /\ pc[r] = "out"
  /\ pc' = [pc EXCEPT ![r] = "lock"]
  /\ UNCHANGED <<live, mutex, count, phase, old>>

\* pthread_mutex_lock at the start of the call
Lock(r) ==
  /\ pc[r] = "lock"
  /\ mutex = NoOne
  /\ mutex' = r
  /\ pc' = [pc EXCEPT ![r] = "count"]
  /\ UNCHANGED <<live, count, phase, old>>

\* (mutant) pthread_cond_signal: one sleeper wakes up
WokenOne(p) ==
  IF \E q \in Ranks : p[q] = "sleep"
    THEN [p EXCEPT ![CHOOSE q \in Ranks : p[q] = "sleep"] = "relock"] ELSE p

\* pthread_cond_broadcast
Woken(p) == [q \in Ranks |-> IF p[q] = "sleep" THEN "relock" ELSE p[q]]

\* (mutant) the count is not reset
CountLastNoReset(r) ==
  /\ pc[r] = "count"
  /\ count + 1 = limit
  /\ count' = count + 1
  /\ phase' = (phase + 1) % PhaseMod
  /\ pc' = [Woken(pc) EXCEPT ![r] = "unlock"]
  /\ UNCHANGED <<live, mutex, old>>

\* (mutant) the phase is not advanced: a waiter could only be told by the count
CountLastNoPhase(r) ==
  /\ pc[r] = "count"
  /\ count + 1 = limit
  /\ count' = 0
  /\ pc' = [Woken(pc) EXCEPT ![r] = "unlock"]
  /\ UNCHANGED <<live, mutex, phase, old>>

\* The last rank of the round starts the next one and wakes the others.
CountLast(r) ==
  /\ pc[r] = "count"
  /\ count + 1 = limit
  /\ count' = 0
  /\ phase' = (phase + 1) % PhaseMod
  /\ pc' = [Woken(pc) EXCEPT ![r] = "unlock"]
  /\ UNCHANGED <<live, mutex, old>>

\* The others remember the phase and wait; pthread_cond_wait releases the mutex while it sleeps.
CountWait(r) ==
  /\ pc[r] = "count"
  /\ count + 1 # limit
  /\ count' = count + 1
  /\ old' = [old EXCEPT ![r] = phase]
  /\ mutex' = NoOne
  /\ pc' = [pc EXCEPT ![r] = "sleep"]
  /\ UNCHANGED <<live, phase>>

\* pthread_cond_wait may return although nobody has signalled.
Spurious(r) ==
  /\ pc[r] = "sleep"
  /\ pc' = [pc EXCEPT ![r] = "relock"]
  /\ UNCHANGED <<live, mutex, count, phase, old>>

\* pthread_cond_wait acquires the mutex again before it returns.
Relock(r) ==
  /\ pc[r] = "relock"
  /\ mutex = NoOne
  /\ mutex' = r
  /\ pc' = [pc EXCEPT ![r] = "test"]
  /\ UNCHANGED <<live, count, phase, old>>

\* while (old_phase == phase): the round is not over and the rank sleeps again ...
TestSame(r) ==
  /\ pc[r] = "test"
  /\ old[r] = phase
  /\ mutex' = NoOne
  /\ pc' = [pc EXCEPT ![r] = "sleep"]
  /\ UNCHANGED <<live, count, phase, old>>

\* (mutant) no loop around pthread_cond_wait: any wake-up ends the wait
TestOnce(r) ==
  /\ pc[r] = "test"
  /\ pc' = [pc EXCEPT ![r] = "unlock"]
  /\ UNCHANGED <<live, mutex, count, phase, old>>

\* ... or the loop ends
TestDone(r) ==
  /\ pc[r] = "test"
  /\ old[r] # phase
  /\ pc' = [pc EXCEPT ![r] = "unlock"]
  /\ UNCHANGED <<live, mutex, count, phase, old>>

Unlock(r) ==
  /\ pc[r] = "unlock"
  /\ mutex' = NoOne
  /\ pc' = [pc EXCEPT ![r] = "out"]
  /\ UNCHANGED <<live, count, phase, old>>

\* What the thread does by itself once it has called pthread_barrier_wait
Step(r) ==
  \/ Lock(r) \/ CountLast(r) \/ CountWait(r)
  \/ Relock(r) \/ TestSame(r) \/ TestDone(r) \/ Unlock(r)

Next ==
  \/ Create
  \/ Destroy
  \/ \E r \in Ranks : Enter(r) \/ Spurious(r) \/ Step(r)

Spec == Init /\ [][Next]_vars

\* A running thread goes on; a thread that wants the mutex gets it if it is free again and again, which
\* is what the scheduler of the platform is trusted for. Callers and spurious wake-ups are not fair.
FairSpec == Spec /\ \A r \in Ranks : SF_vars(Step(r))

-----------------------------------------------------------------------------------------------------
\* How the states of this barrier show those of the abstract one: a rank that was counted is released
\* as soon as the phase differs from the one that it remembers.
InRound(r) == pc[r] \in {"sleep", "relock", "test"} /\ old[r] = phase

bar == [r \in Ranks |->
          IF ~live THEN "none"
          ELSE IF pc[r] \in {"out", "lock", "count"} THEN "out"
          ELSE IF InRound(r) THEN "in"
          ELSE "released"]

B == INSTANCE Barrier

\* pthread_barrier_wait with its counter and its phase implements the barrier that ThreadComm relies on:
\* no rank returns before all ranks of its round have entered, although fast ranks re-enter while slow
\* ones are still waking up, although threads wake up spuriously, and although the phase wraps around. And
\* a rank that has been released does get out.
ImplementsBarrier == B!Spec

\* The safety part of it
ImplementsSafety == B!Safe

\* A rank that sleeps on the condition variable sleeps for the current round: no rank misses the
\* broadcast that ends its round (it would sleep on in the next one, and forever if there is none).
NoLostWakeup == \A r \in Ranks : pc[r] = "sleep" => old[r] = phase

\* The count is the number of ranks that wait in the current round, also while ranks of the previous
\* round still have to leave the loop (the counter is reset before they do).
CountIsRound == count = Cardinality({r \in Ranks : InRound(r)})

====
