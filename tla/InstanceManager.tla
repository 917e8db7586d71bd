-------------------------- MODULE InstanceManager --------------------------
(***************************************************************************)
(* The mapper's cache of physical instances, for the stores of one field in *)
(* one memory: the InstanceSet and the mapper calls that map stores with it.*)
(*                                                                          *)
(* The mapper is serialised and reentrant: a mapper call runs alone until   *)
(* it calls the runtime, and then another call, or the handler of collected *)
(* instances, may run before it goes on.  An action is what a call does     *)
(* between two calls of the runtime.                                        *)
(***************************************************************************)
EXTENDS Naturals, FiniteSets, Sequences, SequencesExt

CONSTANTS
  Regions,  \* logical regions of one region tree
  Box,      \* Box[r]: the points of r, a rectangle
  Jobs,     \* sequences of stores to map that an operation may have
  Calls,    \* mapper calls that may be under way at once
  MaxJobs,  \* bound on the operations
  Addr,     \* addresses of region groups
  Insts,    \* physical instances
  None

\* A store to map: its region, its mapping policy (a redundant copy is not
\* looked up in the cache) and whether it is written.
Request == [region : Regions, exact : BOOLEAN, write : BOOLEAN, redundant : BOOLEAN]

ASSUME InstanceAssumption ==
  /\ None \notin Addr \cup Insts
  /\ Box \in [Regions -> (SUBSET (Nat \X Nat)) \ {{}}]
  /\ Jobs \subseteq Seq(Request) \ {<<>>}
  /\ MaxJobs \in Nat
  /\ IsFiniteSet(Regions) /\ IsFiniteSet(Calls) /\ IsFiniteSet(Addr)
  /\ Cardinality(Addr) >= Cardinality(Regions) + Cardinality(Calls)

VARIABLES
  groups,     \* groups_: the group of each region
  instances,  \* instances_: the instance of each group, and if it is exact
  pending,    \* pending_instances_: calls that create an instance for a group
  heap,       \* the regions of each group that somebody points to
  pc,         \* where each mapper call is
  job,        \* what it maps: the stores, the instances it has acquired for
              \* the first of them, whether it retries with tightened policies
  group,      \* the group it creates an instance for
  result,     \* the instance it has found or created
  lost,       \* calls that search a set which has been erased
  live,       \* the instances that exist
  extent,     \* the regions each of them was created for
  notices,    \* collected instances that the mapper is still to be told of
  begun,      \* operations so far
  fault       \* "none", or why the process has ended

cacheVars == <<groups, instances, pending, heap, group>>
callVars == <<job, result>>
runtimeVars == <<live, extent, notices>>
vars == <<cacheVars, pc, callVars, lost, runtimeVars, begun, fault>>

NoSpec == [inst |-> None, exact |-> FALSE]
NoJob == [stores |-> <<>>, got |-> <<>>, tight |-> FALSE]

-----------------------------------------------------------------------------
(* Rectangles *)

\* union_bbox
Hull(points) ==
  LET xs == {q[1] : q \in points}  ys == {q[2] : q \in points}
  IN (Min(xs)..Max(xs)) \X (Min(ys)..Max(ys))

\* Regions are finite and rectangular.
ASSUME BoxAssumption ==
  \A r \in Regions : IsFiniteSet(Box[r]) /\ Hull(Box[r]) = Box[r]

\* The bounding box of a group, and the room that an instance for it has.
BoxOf == [rs \in (SUBSET Regions) \ {{}} |-> Hull(UNION {Box[r] : r \in rs})]

\* The points that nobody asked for outnumber those that are shared.
BloatTooBig(box, next) ==
  Cardinality(Hull(box \cup next)) - Cardinality(box \cup next)
    > Cardinality(box \cap next)

CanCombine == [rs, next \in (SUBSET Regions) \ {{}} |->
  BoxOf[rs] \cap BoxOf[next] # {} /\ ~BloatTooBig(BoxOf[rs], BoxOf[next])]

-----------------------------------------------------------------------------
(* What a mapper call looks for *)

Req(c) == job[c].stores[Len(job[c].got) + 1]
Exact(c) == Req(c).exact \/ (job[c].tight /\ Req(c).write)

Cached(a) == instances[a].inst # None
SetExists == \E a \in Addr : Cached(a) \/ pending[a] > 0

Valid(c, a) == Cached(a) /\ (instances[a].exact \/ ~Exact(c))

\* Groups in groups_ whose instance has room for the region and is valid.
Covering(c) ==
  {a \in Addr : /\ \E r \in Regions : groups[r] = a
                /\ Box[Req(c).region] \subseteq BoxOf[heap[a]]
                /\ Valid(c, a)}

-----------------------------------------------------------------------------
(* Which group a region goes to *)

\* Groups that an instance exists for, and then those it is pending for, are
\* united with the region's group one after the other, each list in any order,
\* as long as the growing box overlaps them enough.
Combine(self, base, seq) ==
  LET Unite(acc, h) ==
        IF h # self /\ CanCombine[acc.all, heap[h]]
          THEN [all |-> acc.all \cup heap[h], with |-> acc.with \cup {h}] ELSE acc
  IN FoldLeft(Unite, [all |-> base, with |-> {}], seq)

Combinations(self, base) ==
  LET cached == {a \in Addr : Cached(a)}  waiting == {a \in Addr : pending[a] > 0}
      orders == {s \o t : s \in SetToSeqs(cached), t \in SetToSeqs(waiting)}
  IN {Combine(self, base, seq).with : seq \in orders} \cap SUBSET (cached \cup waiting)

FreeAddr == CHOOSE a \in Addr : heap[a] = {}
Fresh(regions) == [at |-> FreeAddr, regions |-> regions]
Old(a) == [at |-> a, regions |-> heap[a]]

\* Mutant: an exact request takes the group of the region as it is.
ExactGroupAny(r) == IF groups[r] # None THEN Old(groups[r]) ELSE Fresh({r})

\* find_or_create_region_group
ExactGroup(r) ==
  IF groups[r] # None /\ Cardinality(heap[groups[r]]) = 1
    THEN Old(groups[r]) ELSE Fresh({r})

SharedGroups(r) ==
  LET self == IF groups[r] # None THEN Old(groups[r]) ELSE Fresh({r})
      For(with) ==
        LET all == self.regions \cup UNION {heap[h] : h \in with}
            same == {h \in with : heap[h] = all}
        IN IF all = self.regions THEN {self}
           ELSE IF same # {} THEN {Old(h) : h \in same} ELSE {Fresh(all)}
  IN UNION {For(with) : with \in Combinations(groups[r], self.regions)}

GroupsFor(c) ==
  IF Exact(c) THEN {ExactGroup(Req(c).region)} ELSE SharedGroups(Req(c).region)

-----------------------------------------------------------------------------
(* The cache *)

\* A group lives as long as groups_, pending_instances_ or a call points to it.
Remaining(h, gs, ps, cs) ==
  [a \in Addr |-> IF \/ \E r \in Regions : gs[r] = a
                     \/ ps[a] > 0
                     \/ \E c \in Calls : cs[c] = a
                    THEN h[a] ELSE {}]

\* A set without instances and pending ones is erased, under whoever waits for
\* the runtime in the middle of a search.
EraseEmpty(instancesNow, pendingNow) ==
  lost' = IF SetExists /\ \A a \in Addr : instancesNow[a].inst = None /\ pendingNow[a] = 0
            THEN lost \cup {c \in Calls : pc[c] \in {"search", "search again"}}
            ELSE lost

\* Mutant: the search for entries stops at the first one.
ErasedFirst(i) ==
  LET all == {a \in Addr : instances[a].inst = i}
  IN IF all = {} THEN {} ELSE {CHOOSE a \in all : TRUE}

\* erase, of a set and of the manager
Erased(i) == {a \in Addr : instances[a].inst = i}

Erase(i) ==
  /\ instances' = [a \in Addr |-> IF a \in Erased(i) THEN NoSpec ELSE instances[a]]
  /\ groups' = [r \in Regions |-> IF groups[r] \in Erased(i) THEN None ELSE groups[r]]
  /\ UNCHANGED <<pending, group>>
  /\ heap' = Remaining(heap, groups', pending, group)
  /\ EraseEmpty(instances', pending)

\* Mutant: a group that an instance is already pending for is not counted again.
OneMoreIfNew(a) == [pending EXCEPT ![a] = 1]

\* record_pending_instance_creation, remove_pending_instance
OneMore(a) == [pending EXCEPT ![a] = @ + 1]
OneLess(a) == [pending EXCEPT ![a] = @ - 1]

\* record_instance: the group takes over its regions, and groups that have no
\* region left lose their instance.
Taken(a) == [r \in Regions |-> IF r \in heap[a] THEN a ELSE groups[r]]
Replaced(a) == {groups[r] : r \in heap[a]} \ {a, None}

\* Mutant: a group that lost one region loses its instance.
ObsoleteAll(a) == Replaced(a)

Obsolete(a) ==
  {b \in Replaced(a) : \A r \in heap[b] : Taken(a)[r] # b}

\* groups_.at(rg) for a region that is in no group any more
Unknown(a) ==
  {b \in Replaced(a) : \E r \in heap[b] : Taken(a)[r] = None}

RecordInstance(c) ==
  LET a == group[c] IN
  /\ groups' = Taken(a)
  /\ instances' = [b \in Addr |->
       IF b = a THEN [inst |-> result[c], exact |-> Exact(c)]
       ELSE IF b \in Obsolete(a) THEN NoSpec ELSE instances[b]]
  /\ pending' = OneLess(a)
  /\ group' = [group EXCEPT ![c] = None]
  /\ heap' = Remaining(heap, groups', pending', group')

-----------------------------------------------------------------------------
(* Mapper calls *)

At(c, places) == fault = "none" /\ pc[c] \in places
Goto(c, place) == pc' = [pc EXCEPT ![c] = place]

\* An operation is to be mapped.
Begin(c) ==
  /\ At(c, {"idle"}) /\ begun < MaxJobs
  /\ \E stores \in Jobs :
       job' = [job EXCEPT ![c] = [stores |-> stores, got |-> <<>>, tight |-> FALSE]]
  /\ Goto(c, "map") /\ begun' = begun + 1
  /\ UNCHANGED <<cacheVars, result, lost, runtimeVars, fault>>

\* A group is found or created for the region and an instance is asked for.
FindGroup(c) ==
  \E g \in GroupsFor(c) :
    /\ pending' = OneMore(g.at)
    /\ group' = [group EXCEPT ![c] = g.at]
    /\ heap' = [heap EXCEPT ![g.at] = g.regions]
    /\ Goto(c, "create")
    /\ UNCHANGED <<groups, instances, result>>

Hit(c, a) ==
  /\ result' = [result EXCEPT ![c] = instances[a].inst]
  /\ Goto(c, "acquire") /\ UNCHANGED cacheVars

Miss(c, wait) == Goto(c, wait) /\ UNCHANGED <<cacheVars, result>>

\* The region's own group is looked at first; after it, unless the instance
\* must be exact, the call waits for the domain of the region to search all.
FindOwn(c, search, Otherwise) ==
  LET own == groups[Req(c).region] IN
  CASE Req(c).redundant -> Otherwise
    [] ~Req(c).redundant /\ own # None /\ Valid(c, own) -> Hit(c, own)
    [] OTHER -> IF ~Exact(c) /\ SetExists THEN Miss(c, search) ELSE Otherwise

Map(c) ==
  /\ At(c, {"map"})
  /\ FindOwn(c, "search", Miss(c, "domain"))
  /\ UNCHANGED <<job, lost, runtimeVars, begun, fault>>

\* get_index_space_domain has returned: the cache is looked at again.
MapAgain(c) ==
  /\ At(c, {"domain"})
  /\ FindOwn(c, "search again", FindGroup(c))
  /\ UNCHANGED <<job, lost, runtimeVars, begun, fault>>

\* get_index_space_domains has returned.
SearchAll(c) ==
  /\ At(c, {"search", "search again"}) /\ c \notin lost
  /\ \/ \E a \in Covering(c) : Hit(c, a)
     \/ /\ Covering(c) = {}
        /\ IF pc[c] = "search" THEN Miss(c, "domain") ELSE FindGroup(c)
  /\ UNCHANGED <<job, lost, runtimeVars, begun, fault>>

\* The same in a set that has been erased: undefined.  The memory may still
\* look like an empty set.
SearchLost(c) ==
  /\ At(c, {"search", "search again"}) /\ c \in lost
  /\ \/ /\ IF pc[c] = "search" THEN Miss(c, "domain") ELSE FindGroup(c)
        /\ lost' = lost \ {c} /\ UNCHANGED fault
     \/ /\ fault' = "freed set" /\ UNCHANGED <<cacheVars, pc, result, lost>>
  /\ UNCHANGED <<job, runtimeVars, begun>>

\* What the operation holds, and what a call holds that is not recorded yet.
Held(c) ==
  Range(job[c].got) \cup
    IF pc[c] \in {"record new", "record found", "acquire found"} THEN {result[c]} ELSE {}

Unused(i) ==
  /\ i \notin live \cup notices
  /\ \A a \in Addr : instances[a].inst # i
  /\ \A c \in Calls : result[c] # i /\ i \notin Range(job[c].got)

\* The runtime finds an instance with room for the regions of the group, or
\* creates one, and acquires it for the call.
RuntimeFinds(c) ==
  LET room == BoxOf[heap[group[c]]] IN
  /\ At(c, {"create"})
  /\ \E i \in live :
       /\ IF Exact(c) THEN BoxOf[extent[i]] = room ELSE room \subseteq BoxOf[extent[i]]
       /\ result' = [result EXCEPT ![c] = i]
  /\ Goto(c, "record found")
  /\ UNCHANGED <<cacheVars, job, lost, runtimeVars, begun, fault>>

RuntimeCreates(c) ==
  /\ At(c, {"create"}) /\ \E i \in Insts : Unused(i)
  /\ LET i == CHOOSE i \in Insts : Unused(i) IN
       /\ live' = live \cup {i}
       /\ extent' = [extent EXCEPT ![i] = heap[group[c]]]
       /\ result' = [result EXCEPT ![c] = i]
  /\ Goto(c, "record new")
  /\ UNCHANGED <<cacheVars, job, lost, notices, begun, fault>>

\* The store is mapped; the next one follows.
Got(c) ==
  /\ job' = [job EXCEPT ![c].got = Append(@, result[c])]
  /\ result' = [result EXCEPT ![c] = None]
  /\ Goto(c, IF Len(job'[c].got) = Len(job[c].stores) THEN "mapped" ELSE "map")

\* record_instance; a new instance needs no acquire_instance.
Record(c) ==
  /\ At(c, {"record new", "record found"})
  /\ Unknown(group[c]) \cap Obsolete(group[c]) = {}
  /\ RecordInstance(c)
  /\ IF pc[c] = "record new" THEN Got(c)
     ELSE Goto(c, "acquire found") /\ UNCHANGED <<job, result>>
  /\ UNCHANGED <<lost, runtimeVars, begun, fault>>

\* groups_.at(rg) comes to a region that is in no group before it comes to one
\* that is still in the old group.
RecordThrows(c) ==
  /\ At(c, {"record new", "record found"}) /\ Unknown(group[c]) # {}
  /\ fault' = "out_of_range"
  /\ UNCHANGED <<cacheVars, pc, callVars, lost, runtimeVars, begun>>

\* The runtime cannot create an instance: the operation starts again with
\* tighter policies, or is given up.
NoMemory(c) ==
  /\ At(c, {"create"})
  /\ pending' = OneLess(group[c])
  /\ group' = [group EXCEPT ![c] = None]
  /\ heap' = Remaining(heap, groups, pending', group')
  /\ EraseEmpty(instances, pending')
  /\ IF ~job[c].tight /\ \E s \in Range(job[c].stores) : ~s.exact
       THEN /\ job' = [job EXCEPT ![c] = [stores |-> @.stores, got |-> <<>>, tight |-> TRUE]]
            /\ UNCHANGED fault
       ELSE fault' = "out of memory" /\ UNCHANGED job
  /\ Goto(c, "map")
  /\ UNCHANGED <<groups, instances, result, runtimeVars, begun>>

Acquire(c) ==
  /\ At(c, {"acquire", "acquire found"}) /\ result[c] \in live
  /\ Got(c)
  /\ UNCHANGED <<cacheVars, lost, runtimeVars, begun, fault>>

\* Mutant: the entry is left to the notice.
AcquireFailsOnly(c) ==
  /\ At(c, {"acquire"}) /\ result[c] \notin live
  /\ result' = [result EXCEPT ![c] = None]
  /\ Goto(c, "map")
  /\ notices' \in {notices, notices \ {result[c]}}
  /\ UNCHANGED <<cacheVars, lost, job, live, extent, begun, fault>>

\* The instance has been collected: it is erased from the cache, and the call
\* starts again for this store.  The notice may be under way.
AcquireFails(c) ==
  /\ At(c, {"acquire"}) /\ result[c] \notin live
  /\ Erase(result[c])
  /\ result' = [result EXCEPT ![c] = None]
  /\ Goto(c, "map")
  /\ notices' \in {notices, notices \ {result[c]}}
  /\ UNCHANGED <<job, live, extent, begun, fault>>

\* The operation has run.
Finish(c) ==
  /\ At(c, {"mapped"})
  /\ job' = [job EXCEPT ![c] = NoJob]
  /\ Goto(c, "idle")
  /\ UNCHANGED <<cacheVars, result, lost, runtimeVars, begun, fault>>

-----------------------------------------------------------------------------
(* Collection of instances *)

\* The runtime collects an instance that nobody holds.
Collect(i) ==
  /\ fault = "none" /\ i \in live /\ \A c \in Calls : i \notin Held(c)
  /\ live' = live \ {i}
  /\ notices' = notices \cup {i}
  /\ extent' = [extent EXCEPT ![i] = {}]
  /\ UNCHANGED <<cacheVars, pc, callVars, lost, begun, fault>>

\* handle_instance_collection
Handle(i) ==
  /\ fault = "none" /\ i \in notices
  /\ Erase(i)
  /\ notices' = notices \ {i}
  /\ UNCHANGED <<pc, callVars, live, extent, begun, fault>>

-----------------------------------------------------------------------------

Init ==
  /\ groups = [r \in Regions |-> None]
  /\ instances = [a \in Addr |-> NoSpec]
  /\ pending = [a \in Addr |-> 0]
  /\ heap = [a \in Addr |-> {}]
  /\ pc = [c \in Calls |-> "idle"]
  /\ job = [c \in Calls |-> NoJob]
  /\ group = [c \in Calls |-> None]
  /\ result = [c \in Calls |-> None]
  /\ lost = {} /\ live = {} /\ notices = {}
  /\ extent = [i \in Insts |-> {}]
  /\ begun = 0 /\ fault = "none"

Step(c) ==
  \/ Map(c) \/ MapAgain(c) \/ SearchAll(c) \/ SearchLost(c)
  \/ RuntimeFinds(c) \/ RuntimeCreates(c) \/ NoMemory(c)
  \/ Record(c) \/ RecordThrows(c)
  \/ Acquire(c) \/ AcquireFails(c) \/ Finish(c)

Next ==
  \/ \E c \in Calls : Begin(c) \/ Step(c)
  \/ \E i \in Insts : Collect(i) \/ Handle(i)

Spec == Init /\ [][Next]_vars

\* Legion answers mapper calls, runs mapped operations and sends its notices.
Fairness ==
  /\ \A c \in Calls : WF_vars(Step(c))
  /\ \A i \in Insts : WF_vars(Handle(i))

FairSpec == Spec /\ Fairness

-----------------------------------------------------------------------------
(* Properties *)

Job == [stores : Jobs \cup {<<>>}, got : Seq(Insts), tight : BOOLEAN]
PCs == {"idle", "map", "domain", "search", "search again", "create", "record new",
        "record found", "acquire", "acquire found", "mapped"}

\* The tables of the cache and the state of the calls.
TypeOK ==
  /\ groups \in [Regions -> Addr \cup {None}]
  /\ instances \in [Addr -> [inst : Insts \cup {None}, exact : BOOLEAN]]
  /\ pending \in [Addr -> Nat]
  /\ heap \in [Addr -> SUBSET Regions]
  /\ pc \in [Calls -> PCs]
  /\ job \in [Calls -> Job]
  /\ group \in [Calls -> Addr \cup {None}]
  /\ result \in [Calls -> Insts \cup {None}]
  /\ lost \in SUBSET Calls /\ live \in SUBSET Insts /\ notices \in SUBSET Insts
  /\ extent \in [Insts -> SUBSET Regions]
  /\ begun \in Nat
  /\ fault \in {"none", "out_of_range", "freed set", "out of memory"}

\* What dump_and_sanity_check_ checks in debug builds, at any time and in all
\* interleavings: regions are in the group that groups_ gives them, such a
\* group has an instance, and every group that has an instance is still in
\* groups_, so that instances_ holds no pointer to a freed group.
Sane ==
  /\ \A r \in Regions : groups[r] # None =>
       r \in heap[groups[r]] /\ Cached(groups[r])
  /\ \A a \in Addr : Cached(a) => \E r \in Regions : groups[r] = a

\* Every instance that an operation is mapped to exists and has room for the
\* region, and no more than that if the policy (or its tightening) is exact:
\* groups that are merged, split and replaced never leave an entry behind that
\* promises more than the instance is.
RoomForAll ==
  \A c \in Calls : \A k \in DOMAIN job[c].got :
    LET s == job[c].stores[k]  i == job[c].got[k] IN
    /\ i \in live
    /\ Box[s.region] \subseteq BoxOf[extent[i]]
    /\ s.exact \/ (job[c].tight /\ s.write) => BoxOf[extent[i]] = Box[s.region]

\* A collected instance is in the cache only as long as its notice is under
\* way, whichever of the notice and a failing acquire_instance comes first and
\* however many groups it was recorded for.
DeadAreForgotten ==
  \A a \in Addr : Cached(a) => instances[a].inst \in live \cup notices

\* Every operation is mapped, or the process ends: a call does not go round
\* for ever with an instance that cannot be acquired.
MappingReturns ==
  \A c \in Calls : pc[c] # "idle" ~> (pc[c] = "idle" \/ fault # "none")

\* record_instance makes sure "that it has no remaining references" before it
\* prunes a group: the question has an answer for every region of the group.
NoThrow == fault # "out_of_range"

\* A set that is being searched exists, although the mapper may wait for the
\* runtime in the middle of find_instance.
SetOutlivesSearch == fault # "freed set"

\* "Redundant copies get invalidated immediately after this operation so they
\* shouldn't be cached": no call is about to record the instance of one.
RedundantNotCached ==
  \A c \in Calls : pc[c] = "record new" => ~Req(c).redundant
=============================================================================
