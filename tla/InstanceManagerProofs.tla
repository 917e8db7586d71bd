----------------------- MODULE InstanceManagerProofs -----------------------
(***************************************************************************)
(* The sanity check of the instance cache holds in every interleaving of    *)
(* mapper calls and notices, for any regions, operations and calls.         *)
(*                                                                          *)
(* Sane is not inductive: record_instance needs the groups that calls hold  *)
(* to have regions, and a new group needs an address that nobody refers to. *)
(*                                                                          *)
(* Every store is mapped to an instance with room for its region, and to    *)
(* one of exactly that size if it must be, because an entry promises the    *)
(* box of its group, regions of a group never change while somebody points  *)
(* to it, and a call that is about to record an instance has one for the    *)
(* group it holds.                                                          *)
(***************************************************************************)
EXTENDS InstanceManager, FiniteSetTheorems, WellFoundedInduction, TLAPS

Creating == {"create", "record new", "record found"}
WithResult == {"record new", "record found", "acquire", "acquire found"}

CacheType ==
  /\ groups \in [Regions -> Addr \cup {None}]
  /\ instances \in [Addr -> [inst : Insts \cup {None}, exact : BOOLEAN]]
  /\ pending \in [Addr -> Nat]
  /\ heap \in [Addr -> SUBSET Regions]
  /\ group \in [Calls -> Addr \cup {None}]

\* A group has regions exactly as long as somebody points to it.
InTable(a) == \E r \in Regions : groups[r] = a
Creators(a) == {c \in Calls : group[c] = a}
HeapOK == \A a \in Addr : heap[a] # {} <=> (InTable(a) \/ Creators(a) # {})

PendingOK == \A a \in Addr : pending[a] = Cardinality(Creators(a))

CacheInv == CacheType /\ Sane /\ HeapOK /\ PendingOK

CallOK(c) ==
  /\ pc[c] \in Creating <=> group[c] # None
  /\ pc[c] \in WithResult => result[c] # None
  /\ pc[c] \notin {"idle", "mapped"} => Len(job[c].got) < Len(job[c].stores)

CallInv ==
  /\ pc \in [Calls -> PCs]
  /\ job \in [Calls -> Job]
  /\ result \in [Calls -> Insts \cup {None}]
  /\ \A c \in Calls : CallOK(c)

RuntimeType ==
  /\ lost \in SUBSET Calls /\ live \in SUBSET Insts /\ notices \in SUBSET Insts
  /\ extent \in [Insts -> SUBSET Regions]
  /\ begun \in Nat
  /\ fault \in {"none", "out_of_range", "freed set", "out of memory"}

IInv == CacheInv /\ CallInv /\ RuntimeType

-----------------------------------------------------------------------------
(* Addresses *)

\* The values of a function are no more than its arguments.
LEMMA ImageBound ==
  ASSUME NEW D, IsFiniteSet(D), NEW f
  PROVE  /\ IsFiniteSet({f[x] : x \in D})
         /\ Cardinality({f[x] : x \in D}) <= Cardinality(D)
<1> DEFINE V == {f[x] : x \in D}
           g == [x \in D |-> f[x]]
<1>1. g \in Surjection(D, V)
  BY DEF Surjection
<1> QED BY <1>1, FS_Surjection

\* A call that creates nothing finds an address for a new group.
LEMMA AddressLeft ==
  ASSUME CacheInv, NEW c \in Calls, group[c] = None
  PROVE  FreeAddr \in Addr /\ heap[FreeAddr] = {}
<1> DEFINE G == {groups[r] : r \in Regions}
           O == Calls \ {c}
           H == {group[d] : d \in O}
<1>1. SUFFICES ASSUME \A a \in Addr : heap[a] # {} PROVE FALSE
  BY DEF FreeAddr
<1>2. Addr \subseteq G \cup H
  <2>1. SUFFICES ASSUME NEW a \in Addr PROVE a \in G \cup H
    OBVIOUS
  <2>2. InTable(a) \/ Creators(a) # {}
    BY <1>1 DEF CacheInv, HeapOK
  <2>3. a # None
    BY InstanceAssumption
  <2> QED BY <2>2, <2>3 DEF InTable, Creators
<1>3. /\ IsFiniteSet(Regions) /\ IsFiniteSet(Calls) /\ IsFiniteSet(Addr)
      /\ Cardinality(Addr) >= Cardinality(Regions) + Cardinality(Calls)
  BY InstanceAssumption
<1>4. IsFiniteSet(G) /\ Cardinality(G) <= Cardinality(Regions)
  BY <1>3, ImageBound
<1>5. IsFiniteSet(O) /\ Cardinality(O) = Cardinality(Calls) - 1
  BY <1>3, FS_RemoveElement
<1>6. IsFiniteSet(H) /\ Cardinality(H) <= Cardinality(O)
  BY <1>5, ImageBound
<1>7. /\ IsFiniteSet(G \cup H)
      /\ Cardinality(G \cup H) = Cardinality(G) + Cardinality(H) - Cardinality(G \cap H)
  BY <1>4, <1>6, FS_Union
<1>8. Cardinality(Addr) <= Cardinality(G \cup H)
  BY <1>2, <1>7, FS_Subset
<1>9. /\ Cardinality(G) \in Nat /\ Cardinality(H) \in Nat /\ Cardinality(O) \in Nat
      /\ Cardinality(Addr) \in Nat /\ Cardinality(Regions) \in Nat
      /\ Cardinality(Calls) \in Nat /\ Cardinality(G \cup H) \in Nat
  BY <1>3, <1>4, <1>5, <1>6, <1>7, FS_CardinalityType
<1>10. IsFiniteSet(G \cap H)
  BY <1>4, FS_Subset
<1>11. Cardinality(G \cap H) \in Nat
  BY <1>10, FS_CardinalityType
<1> HIDE DEF G, H, O
<1> QED BY <1>3, <1>4, <1>5, <1>6, <1>7, <1>8, <1>9, <1>11

\* Counting: one call more, one call less, none.
LEMMA Counts ==
  ASSUME CacheInv, NEW a \in Addr
  PROVE  /\ IsFiniteSet(Creators(a))
         /\ pending[a] > 0 <=> Creators(a) # {}
<1>1. IsFiniteSet(Creators(a))
  <2>1. Creators(a) \in SUBSET Calls
    BY DEF Creators
  <2> QED BY <2>1, InstanceAssumption, FS_Subset
<1>2. pending[a] = Cardinality(Creators(a)) /\ pending[a] \in Nat
  BY DEF CacheInv, PendingOK, CacheType
<1>3. Cardinality(Creators(a)) = 0 <=> Creators(a) = {}
  BY <1>1, FS_EmptySet
<1> QED BY <1>1, <1>2, <1>3

\* What is left of the heap when groups are let go.
LEMMA HeapAfter ==
  ASSUME HeapOK, heap \in [Addr -> SUBSET Regions],
         groups' \in [Regions -> Addr \cup {None}],
         group' \in [Calls -> Addr \cup {None}],
         \A a \in Addr : pending'[a] > 0 <=> Creators(a)' # {},
         \A a \in Addr : InTable(a)' \/ Creators(a)' # {} => heap[a] # {},
         heap' = Remaining(heap, groups', pending', group')
  PROVE  /\ heap' \in [Addr -> SUBSET Regions]
         /\ HeapOK'
         /\ \A a \in Addr : heap'[a] # {} => heap'[a] = heap[a]
<1>1. heap' \in [Addr -> SUBSET Regions]
  BY DEF Remaining
<1>2. ASSUME NEW a \in Addr
      PROVE  heap'[a] = IF InTable(a)' \/ Creators(a)' # {} THEN heap[a] ELSE {}
  <2>1. (\E c \in Calls : group'[c] = a) <=> Creators(a)' # {}
    BY DEF Creators
  <2>2. (\E r \in Regions : groups'[r] = a) <=> InTable(a)'
    BY DEF InTable
  <2> QED BY <2>1, <2>2 DEF Remaining
<1>3. \A a \in Addr : heap'[a] # {} <=> (InTable(a)' \/ Creators(a)' # {})
  BY <1>2
<1> QED BY <1>1, <1>2, <1>3 DEF HeapOK

\* The two halves of Sane, for a given group.
LEMMA SaneFrom ==
  ASSUME groups' \in [Regions -> Addr \cup {None}],
         \A r \in Regions, a \in Addr :
           groups'[r] = a => r \in heap'[a] /\ Cached(a)',
         \A a \in Addr : Cached(a)' => \E r \in Regions : groups'[r] = a
  PROVE  Sane'
  BY DEF Sane, Cached

\* Erasing the entries of an instance.
LEMMA EraseKeeps ==
  ASSUME CacheInv, NEW i \in Insts, Erase(i)
  PROVE  CacheInv'
<1> USE DEF CacheInv
<1>1. /\ instances' \in [Addr -> [inst : Insts \cup {None}, exact : BOOLEAN]]
      /\ groups' \in [Regions -> Addr \cup {None}]
      /\ pending' \in [Addr -> Nat]
      /\ group' \in [Calls -> Addr \cup {None}]
  BY DEF Erase, CacheType, NoSpec
<1>2. \A a \in Addr : Creators(a)' = Creators(a) /\ pending'[a] = pending[a]
  BY DEF Erase, Creators
<1>3. \A a \in Addr : InTable(a)' => InTable(a)
  BY InstanceAssumption DEF InTable, Erase, CacheType
<1>4. \A a \in Addr : pending'[a] > 0 <=> Creators(a)' # {}
  BY <1>2, Counts
<1>5. \A a \in Addr : InTable(a)' \/ Creators(a)' # {} => heap[a] # {}
  BY <1>2, <1>3 DEF HeapOK
<1>6. heap' = Remaining(heap, groups', pending', group')
  BY DEF Erase
<1>7. /\ heap' \in [Addr -> SUBSET Regions]
      /\ HeapOK'
      /\ \A a \in Addr : heap'[a] # {} => heap'[a] = heap[a]
  BY <1>1, <1>4, <1>5, <1>6, HeapAfter DEF CacheType
<1>8. CacheType'
  BY <1>1, <1>7 DEF CacheType
<1>9. PendingOK'
  BY <1>2 DEF PendingOK
<1>10. \A a \in Addr : Cached(a)' <=> Cached(a) /\ a \notin Erased(i)
  BY InstanceAssumption DEF Cached, Erase, Erased, NoSpec
<1>11. ASSUME NEW r \in Regions, NEW a \in Addr, groups'[r] = a
       PROVE  r \in heap'[a] /\ Cached(a)'
  <2>1. groups[r] = a /\ a \notin Erased(i)
    BY <1>11, InstanceAssumption DEF Erase, CacheType
  <2>2. r \in heap[a] /\ Cached(a)
    BY <2>1, InstanceAssumption DEF Sane
  <2>3. InTable(a)'
    BY <1>11 DEF InTable
  <2>4. heap'[a] = heap[a]
    BY <2>3, <1>7 DEF HeapOK
  <2> QED BY <2>1, <2>2, <2>4, <1>10
<1>12. ASSUME NEW a \in Addr, Cached(a)'
       PROVE  \E r \in Regions : groups'[r] = a
  <2>1. Cached(a) /\ a \notin Erased(i)
    BY <1>12, <1>10
  <2>2. PICK r \in Regions : groups[r] = a
    BY <2>1 DEF Sane
  <2> QED BY <2>1, <2>2 DEF Erase
<1>13. Sane'
  BY <1>1, <1>11, <1>12, SaneFrom
<1> QED BY <1>7, <1>8, <1>9, <1>13

\* A call lets go of its group.
LEMMA OneCreatorLess ==
  ASSUME CacheInv, NEW c \in Calls, NEW a \in Addr, group[c] = a,
         pending' = OneLess(a), group' = [group EXCEPT ![c] = None]
  PROVE  /\ group' \in [Calls -> Addr \cup {None}]
         /\ pending' \in [Addr -> Nat]
         /\ PendingOK'
         /\ \A b \in Addr : pending'[b] > 0 <=> Creators(b)' # {}
         /\ \A b \in Addr : Creators(b)' \subseteq Creators(b)
<1> USE DEF CacheInv
<1>1. group' \in [Calls -> Addr \cup {None}]
  BY DEF CacheType
<1>2. Creators(a)' = Creators(a) \ {c} /\ c \in Creators(a)
  BY InstanceAssumption DEF CacheType, Creators
<1>3. \A b \in Addr : b # a => Creators(b)' = Creators(b) /\ pending'[b] = pending[b]
  BY InstanceAssumption DEF CacheType, Creators, OneLess
<1>4. IsFiniteSet(Creators(a)) /\ Cardinality(Creators(a)) \in Nat
  BY Counts, FS_CardinalityType
<1>5. /\ IsFiniteSet(Creators(a)')
      /\ Cardinality(Creators(a)') = Cardinality(Creators(a)) - 1
  BY <1>2, <1>4, FS_RemoveElement
<1>6. pending'[a] = Cardinality(Creators(a)')
  BY <1>5 DEF OneLess, CacheType, PendingOK
<1>7. PendingOK'
  BY <1>3, <1>6 DEF PendingOK
<1>8. \A b \in Addr : IsFiniteSet(Creators(b)')
  BY <1>3, <1>5, Counts
<1>9. \A b \in Addr : pending'[b] = Cardinality(Creators(b)') /\ pending'[b] \in Nat
  BY <1>7, <1>8, FS_CardinalityType DEF PendingOK
<1>10. pending' \in [Addr -> Nat]
  BY <1>9 DEF OneLess, CacheType
<1>11. \A b \in Addr : pending'[b] > 0 <=> Creators(b)' # {}
  <2> TAKE b \in Addr
  <2>1. Cardinality(Creators(b)') = 0 <=> Creators(b)' = {}
    BY <1>8, FS_EmptySet
  <2> QED BY <2>1, <1>9
<1> QED BY <1>1, <1>2, <1>3, <1>7, <1>10, <1>11

\* The instance could not be created.
LEMMA GiveUpKeeps ==
  ASSUME CacheInv, NEW c \in Calls, group[c] # None, NoMemory(c)
  PROVE  CacheInv'
<1> USE DEF CacheInv
<1> DEFINE a == group[c]
<1>1. /\ pending' = OneLess(a) /\ group' = [group EXCEPT ![c] = None]
      /\ heap' = Remaining(heap, groups, pending', group')
      /\ UNCHANGED <<groups, instances>>
  BY DEF NoMemory
<1>2. a \in Addr
  BY DEF CacheType
<1>3. /\ group' \in [Calls -> Addr \cup {None}]
      /\ pending' \in [Addr -> Nat]
      /\ PendingOK'
      /\ \A b \in Addr : pending'[b] > 0 <=> Creators(b)' # {}
      /\ \A b \in Addr : Creators(b)' \subseteq Creators(b)
  BY <1>1, <1>2, OneCreatorLess
<1>4. \A b \in Addr : InTable(b)' <=> InTable(b)
  BY <1>1 DEF InTable
<1>5. \A b \in Addr : InTable(b)' \/ Creators(b)' # {} => heap[b] # {}
  BY <1>3, <1>4 DEF HeapOK
<1>6. /\ heap' \in [Addr -> SUBSET Regions]
      /\ HeapOK'
      /\ \A b \in Addr : heap'[b] # {} => heap'[b] = heap[b]
  BY <1>1, <1>3, <1>5, HeapAfter DEF CacheType
<1>7. CacheType'
  BY <1>1, <1>3, <1>6 DEF CacheType
<1>8. Sane'
  <2>1. \A r \in Regions : groups[r] # None => heap'[groups[r]] = heap[groups[r]]
    BY <1>1, <1>6 DEF HeapOK, InTable, CacheType
  <2>2. \A b \in Addr : Cached(b)' <=> Cached(b)
    BY <1>1 DEF Cached
  <2> QED BY <1>1, <2>1, <2>2 DEF Sane, CacheType
<1> QED BY <1>3, <1>6, <1>7, <1>8

\* The group takes over its regions, and those that lost all of theirs lose
\* their instance.
LEMMA RecordKeeps ==
  ASSUME CacheInv, NEW c \in Calls, group[c] # None, result[c] \in Insts, RecordInstance(c)
  PROVE  CacheInv'
<1> USE DEF CacheInv
<1> DEFINE a == group[c]
<1>1. /\ pending' = OneLess(a) /\ group' = [group EXCEPT ![c] = None]
      /\ groups' = Taken(a)
      /\ heap' = Remaining(heap, groups', pending', group')
  BY DEF RecordInstance
<1>2. a \in Addr /\ a # None /\ heap[a] # {}
  BY InstanceAssumption DEF CacheType, HeapOK, Creators
<1>3. /\ group' \in [Calls -> Addr \cup {None}]
      /\ pending' \in [Addr -> Nat]
      /\ PendingOK'
      /\ \A b \in Addr : pending'[b] > 0 <=> Creators(b)' # {}
      /\ \A b \in Addr : Creators(b)' \subseteq Creators(b)
  BY <1>1, <1>2, OneCreatorLess
<1>4. \A r \in Regions : groups'[r] = IF r \in heap[a] THEN a ELSE groups[r]
  BY <1>1 DEF Taken
<1>5. groups' \in [Regions -> Addr \cup {None}]
  BY <1>1, <1>2 DEF Taken, CacheType
<1>6. \A b \in Addr : InTable(b)' => InTable(b) \/ b = a
  BY <1>4 DEF InTable
<1>7. \A b \in Addr : InTable(b)' \/ Creators(b)' # {} => heap[b] # {}
  BY <1>2, <1>3, <1>6 DEF HeapOK
<1>8. /\ heap' \in [Addr -> SUBSET Regions]
      /\ HeapOK'
      /\ \A b \in Addr : heap'[b] # {} => heap'[b] = heap[b]
  BY <1>1, <1>3, <1>5, <1>7, HeapAfter DEF CacheType
<1>9. instances' \in [Addr -> [inst : Insts \cup {None}, exact : BOOLEAN]]
  <2>1. [inst |-> result[c], exact |-> Exact(c)] \in [inst : Insts \cup {None}, exact : BOOLEAN]
    <3>1. Exact(c) \in BOOLEAN
      BY DEF Exact
    <3> QED BY <3>1
  <2>2. NoSpec \in [inst : Insts \cup {None}, exact : BOOLEAN]
    BY DEF NoSpec
  <2> QED BY <2>1, <2>2 DEF RecordInstance, CacheType
<1>10. CacheType'
  BY <1>3, <1>5, <1>8, <1>9 DEF CacheType
<1>11. /\ \A b \in Addr : b = a => instances'[b].inst # None
       /\ \A b \in Addr : b # a => (Cached(b)' <=> Cached(b) /\ b \notin Obsolete(a))
  <2>1. instances'[a].inst = result[c]
    BY <1>2 DEF RecordInstance
  <2>2. \A b \in Addr : b # a =>
          instances'[b] = IF b \in Obsolete(a) THEN NoSpec ELSE instances[b]
    BY DEF RecordInstance
  <2> QED BY <2>1, <2>2, InstanceAssumption DEF Cached, NoSpec
<1>12. ASSUME NEW r \in Regions, NEW b \in Addr, groups'[r] = b
       PROVE  r \in heap'[b] /\ Cached(b)'
  <2>1. InTable(b)'
    BY <1>12 DEF InTable
  <2>2. heap'[b] = heap[b]
    BY <2>1, <1>8 DEF HeapOK
  <2>3. CASE b = a
    <3>1. r \in heap[a]
      BY <2>3, <1>2, <1>4, <1>12 DEF Sane
    <3>2. instances'[b].inst # None /\ r \in heap'[b]
      BY <2>2, <2>3, <3>1, <1>11
    <3> QED BY <3>2 DEF Cached
  <2>4. CASE b # a
    <3>1. groups[r] = b /\ r \notin heap[a]
      BY <2>4, <1>4, <1>12
    <3>2. r \in heap[b] /\ Cached(b)
      BY <3>1, InstanceAssumption DEF Sane
    <3>3. b \notin Obsolete(a)
      BY <3>1, <3>2 DEF Obsolete, Taken, CacheType
    <3> QED BY <2>2, <2>4, <3>2, <3>3, <1>11
  <2> QED BY <2>3, <2>4
<1>13. ASSUME NEW b \in Addr, Cached(b)'
       PROVE  \E r \in Regions : groups'[r] = b
  <2>1. CASE b = a
    <3>1. PICK r \in Regions : r \in heap[a]
      BY <1>2 DEF CacheType
    <3> QED BY <2>1, <3>1, <1>4
  <2>2. CASE b # a
    <3>1. Cached(b) /\ b \notin Obsolete(a)
      BY <2>2, <1>11, <1>13
    <3>2. PICK r \in Regions : groups[r] = b
      BY <3>1 DEF Sane
    <3>3. CASE r \in heap[a]
      <4>1. b \in Replaced(a)
        BY <2>2, <3>2, <3>3, InstanceAssumption DEF Replaced
      <4>2. PICK q \in heap[b] : Taken(a)[q] = b
        BY <3>1, <4>1 DEF Obsolete
      <4> QED BY <4>2, <1>1 DEF CacheType
    <3>4. CASE r \notin heap[a]
      BY <3>2, <3>4, <1>4
    <3> QED BY <3>3, <3>4
  <2> QED BY <2>1, <2>2
<1>14. Sane'
  BY <1>5, <1>12, <1>13, SaneFrom
<1> QED BY <1>3, <1>8, <1>10, <1>14

-----------------------------------------------------------------------------
(* Groups *)

\* Whatever groups are united, the group that a call gets is one that exists,
\* or a new one with regions at an address that nobody refers to.
LEMMA GroupFound ==
  ASSUME CacheInv, NEW c \in Calls, group[c] = None, Req(c).region \in Regions,
         NEW g \in GroupsFor(c)
  PROVE  /\ g.at \in Addr
         /\ g.regions \in SUBSET Regions /\ g.regions # {}
         /\ heap[g.at] = {} \/ heap[g.at] = g.regions
<1> USE DEF CacheInv
<1> DEFINE r == Req(c).region
           Right(h) == /\ h.at \in Addr
                       /\ h.regions \in SUBSET Regions /\ h.regions # {}
                       /\ heap[h.at] = {} \/ heap[h.at] = h.regions
<1>1. ASSUME NEW a \in Addr, heap[a] # {} PROVE Right(Old(a))
  BY <1>1 DEF Old, CacheType
<1>2. ASSUME NEW rs \in SUBSET Regions, rs # {} PROVE Right(Fresh(rs))
  BY <1>2, AddressLeft DEF Fresh
<1>3. groups[r] # None => groups[r] \in Addr /\ heap[groups[r]] # {}
  BY DEF CacheType, HeapOK, InTable
<1> HIDE DEF Right
<1>4. CASE g = ExactGroup(r)
  <2>1. Right(Fresh({r}))
    BY <1>2
  <2> QED BY <1>1, <1>3, <1>4, <2>1 DEF ExactGroup, Right
<1>5. CASE g \in SharedGroups(r)
  <2> DEFINE self == IF groups[r] # None THEN Old(groups[r]) ELSE Fresh({r})
             All(with) == self.regions \cup UNION {heap[h] : h \in with}
             Same(with) == {h \in with : heap[h] = All(with)}
             For(with) == IF All(with) = self.regions THEN {self}
                          ELSE IF Same(with) # {} THEN {Old(h) : h \in Same(with)}
                          ELSE {Fresh(All(with))}
  <2>1. Right(self)
    BY <1>1, <1>2, <1>3
  <2>2. PICK with \in Combinations(groups[r], self.regions) : g \in For(with)
    BY <1>5 DEF SharedGroups
  <2>3. with \subseteq Addr
    BY DEF Combinations
  <2>4. All(with) \in SUBSET Regions /\ All(with) # {}
    <3>1. self.regions \in SUBSET Regions /\ self.regions # {}
      BY <2>1 DEF Right
    <3>2. \A h \in with : heap[h] \in SUBSET Regions
      BY <2>3 DEF CacheType
    <3> HIDE DEF self
    <3> QED BY <3>1, <3>2
  <2>5. Right(Fresh(All(with)))
    BY <2>4, <1>2
  <2>6. \A h \in Same(with) : Right(Old(h))
    BY <2>3, <2>4, <1>1
  <2> HIDE DEF self, All, Same
  <2>7. Right(g)
    BY <2>1, <2>2, <2>5, <2>6
  <2> QED BY <2>7 DEF Right
<1> QED BY <1>4, <1>5 DEF GroupsFor

\* A call asks for an instance for a group.
LEMMA FindKeeps ==
  ASSUME CacheInv, NEW c \in Calls, group[c] = None, Req(c).region \in Regions,
         FindGroup(c)
  PROVE  CacheInv' /\ group' = [group EXCEPT ![c] = group'[c]] /\ group'[c] # None
<1> USE DEF CacheInv
<1>1. PICK g \in GroupsFor(c) :
        /\ pending' = OneMore(g.at)
        /\ group' = [group EXCEPT ![c] = g.at]
        /\ heap' = [heap EXCEPT ![g.at] = g.regions]
        /\ UNCHANGED <<groups, instances>>
  BY DEF FindGroup
<1>2. /\ g.at \in Addr
      /\ g.regions \in SUBSET Regions /\ g.regions # {}
      /\ heap[g.at] = {} \/ heap[g.at] = g.regions
  BY GroupFound
<1> DEFINE a == g.at
<1>3. CacheType'
  BY <1>1, <1>2 DEF CacheType, OneMore
<1>4. Creators(a)' = Creators(a) \cup {c} /\ c \notin Creators(a)
  BY <1>1, <1>2, InstanceAssumption DEF Creators, CacheType
<1>5. \A b \in Addr : b # a =>
        Creators(b)' = Creators(b) /\ pending'[b] = pending[b] /\ heap'[b] = heap[b]
  BY <1>1, <1>2, InstanceAssumption DEF Creators, CacheType, OneMore
<1>6. Cardinality(Creators(a)') = Cardinality(Creators(a)) + 1
  BY <1>2, <1>4, Counts, FS_AddElement
<1>7. PendingOK'
  <2>1. pending'[a] = pending[a] + 1
    BY <1>1, <1>2 DEF OneMore, CacheType
  <2> QED BY <1>2, <1>5, <1>6, <2>1 DEF PendingOK
<1>8. \A b \in Addr : InTable(b)' <=> InTable(b)
  BY <1>1 DEF InTable
<1>9. heap'[a] = g.regions /\ (\A b \in Addr : heap[b] # {} => heap'[b] = heap[b])
  BY <1>1, <1>2, <1>5 DEF CacheType
<1>10. HeapOK'
  BY <1>2, <1>4, <1>5, <1>8, <1>9 DEF HeapOK
<1>11. Sane'
  <2>1. \A r \in Regions, b \in Addr : groups'[r] = b => r \in heap'[b] /\ Cached(b)'
    BY <1>1, <1>9, InstanceAssumption DEF Sane, Cached
  <2>2. \A b \in Addr : Cached(b)' => \E r \in Regions : groups'[r] = b
    BY <1>1 DEF Sane, Cached
  <2> QED BY <1>3, <2>1, <2>2, SaneFrom DEF CacheType
<1> QED BY <1>1, <1>2, <1>3, <1>7, <1>10, <1>11, InstanceAssumption DEF CacheType

-----------------------------------------------------------------------------
(* Calls *)

\* A call that is under way has a store to map.
LEMMA Requested ==
  ASSUME CallInv, NEW c \in Calls, pc[c] \notin {"idle", "mapped"}
  PROVE  Req(c) \in Request
<1> DEFINE stores == job[c].stores  n == Len(job[c].got)
<1>1. stores \in Jobs \cup {<<>>} /\ job[c].got \in Seq(Insts) /\ n < Len(stores)
  BY DEF CallInv, CallOK, Job
<1>2. stores \in Seq(Request) /\ n \in Nat
  BY <1>1, InstanceAssumption
<1>3. n + 1 \in 1..Len(stores)
  BY <1>1, <1>2
<1> QED BY <1>2, <1>3 DEF Req

\* A step of one call leaves the others as they are.
LEMMA OneCall ==
  ASSUME CallInv, NEW c \in Calls, NEW place \in PCs, Goto(c, place),
         job' \in [Calls -> Job], result' \in [Calls -> Insts \cup {None}],
         \A d \in Calls : d # c => /\ job'[d] = job[d] /\ result'[d] = result[d]
                                   /\ group'[d] = group[d],
         CallOK(c)'
  PROVE  CallInv'
<1>1. pc' = [pc EXCEPT ![c] = place] /\ pc' \in [Calls -> PCs]
  BY DEF Goto, CallInv
<1>2. ASSUME NEW d \in Calls, d # c PROVE CallOK(d)'
  <2>1. pc'[d] = pc[d] /\ job'[d] = job[d] /\ result'[d] = result[d] /\ group'[d] = group[d]
    BY <1>1, <1>2 DEF CallInv
  <2> QED BY <2>1 DEF CallInv, CallOK
<1> QED BY <1>1, <1>2 DEF CallInv

\* A call that only moves on.
LEMMA Moves ==
  ASSUME CallInv, CacheInv, NEW c \in Calls, NEW from \in PCs, NEW place \in PCs,
         pc[c] = from, Goto(c, place), UNCHANGED <<job, group>>,
         from \notin {"idle", "mapped"}, from \notin Creating \/ place \in Creating,
         from \in Creating \/ place \notin Creating,
         \/ result' = result /\ (place \notin WithResult \/ from \in WithResult)
         \/ \E i \in Insts : result' = [result EXCEPT ![c] = i]
  PROVE  CallInv'
<1>1. pc'[c] = place /\ job' = job /\ group' = group
  BY DEF Goto, CallInv
<1>2. result' \in [Calls -> Insts \cup {None}] /\ (place \in WithResult => result'[c] # None)
  BY InstanceAssumption DEF CallInv, CallOK
<1>3. \A d \in Calls : d # c => result'[d] = result[d]
  BY DEF CallInv
<1>4. CallOK(c)'
  BY <1>1, <1>2 DEF CallInv, CallOK
<1> QED BY <1>1, <1>2, <1>3, <1>4, OneCall DEF CallInv

\* A hit in the cache.
LEMMA HitMoves ==
  ASSUME CallInv, CacheInv, NEW c \in Calls, NEW a \in Addr, Valid(c, a), Hit(c, a),
         pc[c] \in {"map", "domain", "search", "search again"}, UNCHANGED job
  PROVE  CallInv' /\ UNCHANGED cacheVars
<1>1. instances[a].inst \in Insts
  BY DEF Valid, Cached, CacheInv, CacheType
<1>2. /\ Goto(c, "acquire") /\ UNCHANGED cacheVars
      /\ result' = [result EXCEPT ![c] = instances[a].inst]
  BY DEF Hit
<1>3. group' = group
  BY <1>2 DEF cacheVars
<1> QED BY <1>1, <1>2, <1>3, Moves DEF Creating, WithResult, PCs

\* A lookup that misses takes the call to its next question, or lets it create.
LEMMA MissMoves ==
  ASSUME CallInv, CacheInv, NEW c \in Calls,
         NEW place \in {"domain", "search", "search again"}, Miss(c, place),
         pc[c] \in {"map", "domain", "search", "search again"}, UNCHANGED job
  PROVE  CallInv' /\ UNCHANGED cacheVars
<1>1. Goto(c, place) /\ UNCHANGED cacheVars /\ result' = result /\ group' = group
  BY DEF Miss, cacheVars
<1> QED BY <1>1, Moves DEF Creating, WithResult, PCs

\* The call waits for an instance for its group.
LEMMA FindMoves ==
  ASSUME CallInv, CacheInv, NEW c \in Calls, FindGroup(c),
         pc[c] \in {"map", "domain", "search", "search again"}, UNCHANGED job
  PROVE  CallInv' /\ CacheInv'
<1>1. group[c] = None
  BY DEF CallInv, CallOK, Creating
<1>2. Req(c).region \in Regions
  BY Requested DEF Request
<1>3. /\ CacheInv'
      /\ group' = [group EXCEPT ![c] = group'[c]] /\ group'[c] # None
  BY <1>1, <1>2, FindKeeps
<1>4. Goto(c, "create") /\ result' = result /\ job' = job
  BY DEF FindGroup
<1>5. pc'[c] = "create"
  BY <1>4 DEF Goto, CallInv
<1>6. \A d \in Calls : d # c => group'[d] = group[d]
  BY <1>3 DEF CacheInv, CacheType
<1>7. CallOK(c)'
  BY <1>3, <1>4, <1>5 DEF CallOK, CallInv, Creating, WithResult
<1>8. "create" \in PCs
  BY DEF PCs
<1> QED BY <1>3, <1>4, <1>6, <1>7, <1>8, OneCall DEF CallInv

\* Nothing of the cache changes.
LEMMA CacheSame ==
  ASSUME CacheInv, UNCHANGED cacheVars
  PROVE  CacheInv'
<1>1. \A a \in Addr : Creators(a)' = Creators(a) /\ (InTable(a)' <=> InTable(a))
  BY DEF cacheVars, Creators, InTable
<1>2. CacheType' /\ Sane'
  BY DEF cacheVars, CacheInv, CacheType, Sane, Cached
<1>3. HeapOK' /\ PendingOK'
  BY <1>1 DEF cacheVars, CacheInv, HeapOK, PendingOK
<1> QED BY <1>2, <1>3 DEF CacheInv

\* A mapper call begins.
LEMMA BeginKeeps ==
  ASSUME IInv, NEW c \in Calls, Begin(c)
  PROVE  IInv'
<1> USE DEF IInv
<1>1. CacheInv'
  BY CacheSame DEF Begin
<1>2. PICK stores \in Jobs :
        job' = [job EXCEPT ![c] = [stores |-> stores, got |-> <<>>, tight |-> FALSE]]
  BY DEF Begin
<1>3. pc[c] = "idle" /\ Goto(c, "map") /\ result' = result /\ group' = group
  BY DEF Begin, At, cacheVars
<1>4. [stores |-> stores, got |-> <<>>, tight |-> FALSE] \in Job
  BY DEF Job
<1>5. job' \in [Calls -> Job]
  BY <1>2, <1>4 DEF CallInv
<1>6. Len(stores) > 0
  BY InstanceAssumption
<1>7. CallOK(c)'
  <2>1. pc'[c] = "map" /\ Len(job'[c].got) = 0 /\ job'[c].stores = stores
    BY <1>2, <1>3 DEF Goto, CallInv
  <2>2. group[c] = None
    BY <1>3 DEF CallInv, CallOK, Creating
  <2> QED BY <1>3, <1>6, <2>1, <2>2 DEF CallOK, Creating, WithResult
<1>8. CallInv'
  <2>1. "map" \in PCs
    BY DEF PCs
  <2> QED BY <1>2, <1>3, <1>5, <1>7, <2>1, OneCall DEF CallInv
<1>9. RuntimeType'
  <2>1. /\ begun' = begun + 1 /\ lost' = lost /\ fault' = fault
        /\ live' = live /\ extent' = extent /\ notices' = notices
    BY DEF Begin, runtimeVars
  <2>2. RuntimeType
    OBVIOUS
  <2>3. begun \in Nat
    BY <2>2 DEF RuntimeType
  <2>4. begun' \in Nat
    BY <2>1, <2>3
  <2> QED BY <2>1, <2>2, <2>4 DEF RuntimeType
<1> QED BY <1>1, <1>8, <1>9

\* The runtime's tables fit as long as the runtime does nothing.
LEMMA RuntimeSame ==
  ASSUME RuntimeType, UNCHANGED <<lost, runtimeVars, begun, fault>>
  PROVE  RuntimeType'
BY DEF RuntimeType, runtimeVars

\* Looking at the region's own group: a hit, or a search of all groups.
LEMMA OwnMoves ==
  ASSUME CallInv, CacheInv, NEW c \in Calls, pc[c] \in {"map", "domain"}, UNCHANGED job,
         NEW own, own = groups[Req(c).region],
         NEW search \in {"search", "search again"},
         \/ own # None /\ Valid(c, own) /\ Hit(c, own)
         \/ Miss(c, search)
  PROVE  CallInv' /\ CacheInv'
<1>1. Req(c).region \in Regions
  BY Requested DEF Request
<1>2. own \in Addr \cup {None}
  BY <1>1 DEF CacheInv, CacheType
<1>3. CASE own # None /\ Valid(c, own) /\ Hit(c, own)
  BY <1>2, <1>3, HitMoves, CacheSame
<1>4. CASE Miss(c, search)
  BY <1>4, MissMoves, CacheSame
<1> QED BY <1>3, <1>4

\* The first look at a region keeps the invariant, whether it hits, asks or creates.
LEMMA MapKeeps ==
  ASSUME IInv, NEW c \in Calls, Map(c)
  PROVE  IInv'
<1> DEFINE own == groups[Req(c).region]
<1>1. /\ pc[c] = "map" /\ FindOwn(c, "search", Miss(c, "domain"))
      /\ UNCHANGED job /\ UNCHANGED <<lost, runtimeVars, begun, fault>>
  BY DEF Map, At
<1>2. \/ own # None /\ Valid(c, own) /\ Hit(c, own)
      \/ Miss(c, "search")
      \/ Miss(c, "domain")
  BY <1>1 DEF FindOwn
<1>3. CASE (own # None /\ Valid(c, own) /\ Hit(c, own)) \/ Miss(c, "search")
  BY <1>1, <1>3, OwnMoves, RuntimeSame DEF IInv
<1>4. CASE Miss(c, "domain")
  BY <1>1, <1>4, MissMoves, CacheSame, RuntimeSame DEF IInv
<1> QED BY <1>2, <1>3, <1>4

\* So does the look after the domain of the region is known.
LEMMA MapAgainKeeps ==
  ASSUME IInv, NEW c \in Calls, MapAgain(c)
  PROVE  IInv'
<1> DEFINE own == groups[Req(c).region]
<1>1. /\ pc[c] = "domain" /\ FindOwn(c, "search again", FindGroup(c))
      /\ UNCHANGED job /\ UNCHANGED <<lost, runtimeVars, begun, fault>>
  BY DEF MapAgain, At
<1>2. \/ own # None /\ Valid(c, own) /\ Hit(c, own)
      \/ Miss(c, "search again")
      \/ FindGroup(c)
  BY <1>1 DEF FindOwn
<1>3. CASE (own # None /\ Valid(c, own) /\ Hit(c, own)) \/ Miss(c, "search again")
  BY <1>1, <1>3, OwnMoves, RuntimeSame DEF IInv
<1>4. CASE FindGroup(c)
  BY <1>1, <1>4, FindMoves, RuntimeSame DEF IInv
<1> QED BY <1>2, <1>3, <1>4

\* The search of all groups ends in a hit, a miss or a new instance.
LEMMA SearchKeeps ==
  ASSUME IInv, NEW c \in Calls, SearchAll(c) \/ SearchLost(c)
  PROVE  IInv'
<1>1. pc[c] \in {"search", "search again"} /\ UNCHANGED job
      /\ UNCHANGED <<runtimeVars, begun>>
  BY DEF SearchAll, SearchLost, At
<1>2. /\ lost' \in SUBSET Calls
      /\ fault' \in {"none", "out_of_range", "freed set", "out of memory"}
  BY DEF SearchAll, SearchLost, IInv, RuntimeType
<1>3. RuntimeType'
  BY <1>1, <1>2 DEF IInv, RuntimeType, runtimeVars
<1>4. \/ \E a \in Covering(c) : Hit(c, a)
      \/ Miss(c, "domain")
      \/ FindGroup(c)
      \/ UNCHANGED <<cacheVars, pc, result>>
  BY DEF SearchAll, SearchLost
<1>5. CASE \E a \in Covering(c) : Hit(c, a)
  <2>1. PICK a \in Addr : Valid(c, a) /\ Hit(c, a)
    BY <1>5 DEF Covering
  <2> QED BY <1>1, <1>3, <2>1, HitMoves, CacheSame DEF IInv
<1>6. CASE Miss(c, "domain")
  BY <1>1, <1>3, <1>6, MissMoves, CacheSame DEF IInv
<1>7. CASE FindGroup(c)
  BY <1>1, <1>3, <1>7, FindMoves DEF IInv
<1>8. CASE UNCHANGED <<cacheVars, pc, result>>
  <2>1. CallInv'
    BY <1>1, <1>8 DEF IInv, CallInv, CallOK, cacheVars
  <2> QED BY <1>3, <1>8, <2>1, CacheSame DEF IInv
<1> QED BY <1>4, <1>5, <1>6, <1>7, <1>8

\* The runtime has found or created an instance.
LEMMA RuntimeKeeps ==
  ASSUME IInv, NEW c \in Calls, RuntimeFinds(c) \/ RuntimeCreates(c)
  PROVE  IInv'
<1>1. /\ pc[c] = "create" /\ UNCHANGED <<job, cacheVars>> /\ UNCHANGED <<lost, begun, fault>>
      /\ Goto(c, "record found") \/ Goto(c, "record new")
  BY DEF RuntimeFinds, RuntimeCreates, At
<1>2. group' = group
  BY <1>1 DEF cacheVars
<1>3. PICK i \in Insts :
        /\ result' = [result EXCEPT ![c] = i]
        /\ live' \in {live, live \cup {i}} /\ notices' = notices
        /\ extent' = extent \/ extent' = [extent EXCEPT ![i] = heap[group[c]]]
  <2>1. CASE RuntimeFinds(c)
    BY <2>1 DEF RuntimeFinds, runtimeVars, IInv, RuntimeType
  <2>2. CASE RuntimeCreates(c)
    <3> DEFINE i == CHOOSE i \in Insts : Unused(i)
    <3>1. i \in Insts
      BY <2>2 DEF RuntimeCreates
    <3>2. /\ result' = [result EXCEPT ![c] = i]
          /\ live' = live \cup {i} /\ notices' = notices
          /\ extent' = [extent EXCEPT ![i] = heap[group[c]]]
      BY <2>2 DEF RuntimeCreates
    <3> HIDE DEF i
    <3> QED BY <3>1, <3>2
  <2> QED BY <2>1, <2>2
<1>4. CallInv'
  BY <1>1, <1>2, <1>3, Moves DEF IInv, Creating, WithResult, PCs
<1>5. heap[group[c]] \in SUBSET Regions
  BY <1>1 DEF IInv, CallInv, CallOK, Creating, CacheInv, CacheType
<1>6. RuntimeType'
  BY <1>1, <1>3, <1>5 DEF IInv, RuntimeType
<1> QED BY <1>1, <1>4, <1>6, CacheSame DEF IInv

\* The store is mapped.
LEMMA GotMoves ==
  ASSUME CallInv, NEW c \in Calls, pc[c] \in WithResult, Got(c),
         group'[c] = None, \A d \in Calls : d # c => group'[d] = group[d]
  PROVE  CallInv'
<1> DEFINE got == Append(job[c].got, result[c])
           place == IF Len(got) = Len(job[c].stores) THEN "mapped" ELSE "map"
<1>1. result[c] \in Insts
  BY DEF CallInv, CallOK
<1>2. /\ job[c].got \in Seq(Insts) /\ job[c] \in Job
      /\ Len(job[c].got) < Len(job[c].stores)
  BY DEF CallInv, CallOK, Job, WithResult
<1>3. got \in Seq(Insts) /\ Len(got) = Len(job[c].got) + 1
  BY <1>1, <1>2
<1> HIDE DEF got
<1>4. job' = [job EXCEPT ![c].got = got]
  BY DEF Got, got
<1>5. job'[c].got = got /\ job'[c].stores = job[c].stores /\ job' \in [Calls -> Job]
  BY <1>2, <1>3, <1>4 DEF CallInv, Job
<1>6. Goto(c, place) /\ result' = [result EXCEPT ![c] = None]
  BY <1>5 DEF Got
<1>7. Len(job[c].stores) \in Nat /\ Len(job[c].got) \in Nat
  <2>1. job[c].stores = <<>> \/ job[c].stores \in Seq(Request)
    BY <1>2, InstanceAssumption DEF Job
  <2> QED BY <1>2, <2>1
<1>8. CallOK(c)'
  <2>1. pc'[c] = place
    BY <1>6 DEF Goto, CallInv
  <2>2. place \in {"map", "mapped"} /\ (place = "map" => Len(got) < Len(job[c].stores))
    BY <1>2, <1>3, <1>7
  <2> HIDE DEF place
  <2> QED BY <1>5, <2>1, <2>2 DEF CallOK, Creating, WithResult
<1>9. place \in PCs /\ result' \in [Calls -> Insts \cup {None}]
      /\ \A d \in Calls : d # c => job'[d] = job[d] /\ result'[d] = result[d]
  BY <1>4, <1>6 DEF CallInv, PCs
<1> HIDE DEF place
<1> QED BY <1>5, <1>6, <1>8, <1>9, OneCall

\* record_instance, at the end of a call, keeps the invariant.
LEMMA RecordCallKeeps ==
  ASSUME IInv, NEW c \in Calls, Record(c)
  PROVE  IInv'
<1>1. /\ pc[c] \in {"record new", "record found"} /\ RecordInstance(c)
      /\ UNCHANGED <<lost, runtimeVars, begun, fault>>
      /\ Got(c) \/ (Goto(c, "acquire found") /\ UNCHANGED <<job, result>>)
  BY DEF Record, At
<1>2. group[c] # None /\ result[c] \in Insts
  BY <1>1 DEF IInv, CallInv, CallOK, Creating, WithResult
<1>3. CacheInv'
  BY <1>1, <1>2, RecordKeeps DEF IInv
<1>4. group'[c] = None /\ (\A d \in Calls : d # c => group'[d] = group[d])
  BY <1>1 DEF RecordInstance, IInv, CacheInv, CacheType
<1>5. CASE Got(c)
  BY <1>1, <1>3, <1>4, <1>5, GotMoves, RuntimeSame DEF IInv, WithResult
<1>6. CASE Goto(c, "acquire found") /\ UNCHANGED <<job, result>>
  <2>1. pc'[c] = "acquire found" /\ "acquire found" \in PCs
    BY <1>6 DEF IInv, CallInv, Goto, PCs
  <2>2. CallOK(c)'
    BY <1>1, <1>2, <1>4, <1>6, <2>1, InstanceAssumption
    DEF CallOK, Creating, WithResult, IInv, CallInv
  <2>3. CallInv'
    BY <1>4, <1>6, <2>1, <2>2, OneCall DEF IInv, CallInv
  <2> QED BY <1>1, <1>3, <2>3, RuntimeSame DEF IInv
<1> QED BY <1>1, <1>5, <1>6

\* Calls that stay where they are keep what their place says.
LEMMA CallSame ==
  ASSUME CallInv, UNCHANGED <<cacheVars, pc, callVars>>
  PROVE  CallInv'
BY DEF CallInv, CallOK, cacheVars, callVars

\* A record_instance that throws has changed nothing.
LEMMA RecordThrowsKeeps ==
  ASSUME IInv, NEW c \in Calls, RecordThrows(c)
  PROVE  IInv'
<1>1. UNCHANGED <<cacheVars, pc, callVars>> /\ UNCHANGED <<lost, runtimeVars, begun>>
      /\ fault' = "out_of_range"
  BY DEF RecordThrows
<1>2. RuntimeType'
  BY <1>1 DEF IInv, RuntimeType, runtimeVars
<1> QED BY <1>1, <1>2, CacheSame, CallSame DEF IInv

\* The failure path takes the pending count back and retries with the stores it had.
LEMMA NoMemoryKeeps ==
  ASSUME IInv, NEW c \in Calls, NoMemory(c)
  PROVE  IInv'
<1>1. pc[c] = "create" /\ group' = [group EXCEPT ![c] = None] /\ result' = result
      /\ Goto(c, "map")
  BY DEF NoMemory, At
<1>2. group[c] # None
  BY <1>1 DEF IInv, CallInv, CallOK, Creating
<1>3. CacheInv'
  BY <1>2, GiveUpKeeps DEF IInv
<1>4. lost' \in SUBSET Calls
  BY DEF NoMemory, EraseEmpty, IInv, RuntimeType
<1>5. group'[c] = None /\ (\A d \in Calls : d # c => group'[d] = group[d])
  BY <1>1 DEF IInv, CacheInv, CacheType
<1>6. CASE /\ job' = [job EXCEPT ![c] = [stores |-> @.stores, got |-> <<>>, tight |-> TRUE]]
           /\ UNCHANGED fault
  <2>1. job[c] \in Job /\ Len(job[c].got) < Len(job[c].stores) /\ job[c].got \in Seq(Insts)
    BY <1>1 DEF IInv, CallInv, CallOK, Job
  <2> DEFINE again == [stores |-> job[c].stores, got |-> <<>>, tight |-> TRUE]
  <2>2. again \in Job /\ again.stores = job[c].stores /\ again.got = <<>>
    BY <2>1 DEF Job
  <2>3. Len(again.got) < Len(again.stores)
    <3>1. Len(job[c].stores) \in Nat /\ Len(job[c].got) \in Nat
      <4>1. job[c].stores = <<>> \/ job[c].stores \in Seq(Request)
        BY <2>1, InstanceAssumption DEF Job
      <4> QED BY <2>1, <4>1
    <3>2. Len(<<>>) = 0
      OBVIOUS
    <3> QED BY <2>1, <2>2, <3>1, <3>2
  <2>4. job' = [job EXCEPT ![c] = again]
    BY <1>6
  <2> HIDE DEF again
  <2>5. job'[c] = again /\ job' \in [Calls -> Job]
        /\ \A d \in Calls : d # c => job'[d] = job[d]
    BY <2>2, <2>4 DEF IInv, CallInv
  <2>6. pc'[c] = "map" /\ "map" \in PCs
    BY <1>1 DEF IInv, CallInv, Goto, PCs
  <2>7. CallOK(c)'
    BY <1>5, <2>3, <2>5, <2>6 DEF CallOK, Creating, WithResult
  <2>8. CallInv'
    BY <1>1, <1>5, <2>5, <2>6, <2>7, OneCall DEF IInv, CallInv
  <2>9. RuntimeType'
    <3>1. begun' = begun /\ live' = live /\ extent' = extent /\ notices' = notices
      BY DEF NoMemory, runtimeVars
    <3> QED BY <1>4, <1>6, <3>1 DEF IInv, RuntimeType
  <2> QED BY <1>3, <2>8, <2>9 DEF IInv
<1>7. CASE fault' = "out of memory" /\ job' = job
  <2>1. RuntimeType'
    <3>1. begun' = begun /\ live' = live /\ extent' = extent /\ notices' = notices
      BY DEF NoMemory, runtimeVars
    <3> QED BY <1>4, <1>7, <3>1 DEF IInv, RuntimeType
  <2>2. pc'[c] = "map" /\ "map" \in PCs
    BY <1>1 DEF IInv, CallInv, Goto, PCs
  <2>3. CallOK(c)'
    BY <1>1, <1>5, <1>7, <2>2 DEF CallOK, Creating, WithResult, IInv, CallInv
  <2>4. CallInv'
    BY <1>1, <1>5, <1>7, <2>2, <2>3, OneCall DEF IInv, CallInv
  <2> QED BY <1>3, <2>1, <2>4 DEF IInv
<1> QED BY <1>6, <1>7 DEF NoMemory

\* An acquired instance is one more that the call has got.
LEMMA AcquireKeeps ==
  ASSUME IInv, NEW c \in Calls, Acquire(c)
  PROVE  IInv'
<1>1. /\ pc[c] \in {"acquire", "acquire found"} /\ Got(c)
      /\ UNCHANGED cacheVars /\ UNCHANGED <<lost, runtimeVars, begun, fault>>
  BY DEF Acquire, At
<1>2. group' = group /\ group[c] = None
  BY <1>1 DEF IInv, CallInv, CallOK, Creating, cacheVars
<1>3. CallInv'
  BY <1>1, <1>2, GotMoves DEF IInv, WithResult
<1> QED BY <1>1, <1>3, CacheSame, RuntimeSame DEF IInv

\* Erasing takes no call out of the searches that are lost.
LEMMA EraseType ==
  ASSUME RuntimeType, NEW i, Erase(i)
  PROVE  lost' \in SUBSET Calls /\ group' = group
BY DEF Erase, EraseEmpty, RuntimeType

\* An instance that is gone is erased, and the call looks again.
LEMMA AcquireFailsKeeps ==
  ASSUME IInv, NEW c \in Calls, AcquireFails(c)
  PROVE  IInv'
<1>1. /\ pc[c] = "acquire" /\ Erase(result[c]) /\ Goto(c, "map")
      /\ result' = [result EXCEPT ![c] = None]
      /\ job' = job
      /\ live' = live /\ extent' = extent /\ begun' = begun /\ fault' = fault
      /\ notices' \in {notices, notices \ {result[c]}}
  BY DEF AcquireFails, At
<1>2. result[c] \in Insts
  BY <1>1 DEF IInv, CallInv, CallOK, WithResult
<1>3. CacheInv'
  BY <1>1, <1>2, EraseKeeps DEF IInv
<1>4. lost' \in SUBSET Calls /\ group' = group
  BY <1>1, EraseType DEF IInv
<1>5. notices' \in SUBSET Insts
  BY <1>1 DEF IInv, RuntimeType
<1>6. RuntimeType'
  BY <1>1, <1>4, <1>5 DEF IInv, RuntimeType
<1>7. CallInv'
  <2>1. pc'[c] = "map" /\ "map" \in PCs
    BY <1>1 DEF IInv, CallInv, Goto, PCs
  <2>2. CallOK(c)'
    BY <1>1, <1>4, <2>1 DEF CallOK, Creating, WithResult, IInv, CallInv
  <2>3. result' \in [Calls -> Insts \cup {None}]
        /\ \A d \in Calls : d # c => result'[d] = result[d]
    BY <1>1 DEF IInv, CallInv
  <2> QED BY <1>1, <1>4, <2>1, <2>2, <2>3, OneCall DEF IInv, CallInv
<1> QED BY <1>3, <1>6, <1>7 DEF IInv

\* The operation has run, and releases its instances.
LEMMA FinishKeeps ==
  ASSUME IInv, NEW c \in Calls, Finish(c)
  PROVE  IInv'
<1>1. /\ pc[c] = "mapped" /\ Goto(c, "idle") /\ job' = [job EXCEPT ![c] = NoJob]
      /\ UNCHANGED cacheVars /\ result' = result
      /\ UNCHANGED <<lost, runtimeVars, begun, fault>>
  BY DEF Finish, At
<1>2. NoJob \in Job
  BY DEF NoJob, Job
<1>3. job' \in [Calls -> Job] /\ (\A d \in Calls : d # c => job'[d] = job[d])
  BY <1>1, <1>2 DEF IInv, CallInv
<1>4. pc'[c] = "idle" /\ "idle" \in PCs
  BY <1>1 DEF IInv, CallInv, Goto, PCs
<1>5. group' = group
  BY <1>1 DEF cacheVars
<1>6. CallOK(c)'
  BY <1>1, <1>4, <1>5 DEF CallOK, Creating, WithResult, IInv, CallInv
<1>7. CallInv'
  BY <1>1, <1>3, <1>4, <1>5, <1>6, OneCall DEF IInv, CallInv
<1> QED BY <1>1, <1>7, CacheSame, RuntimeSame DEF IInv

\* Legion collects an instance behind the mapper's back.
LEMMA CollectKeeps ==
  ASSUME IInv, NEW i \in Insts, Collect(i)
  PROVE  IInv'
<1>1. /\ UNCHANGED <<cacheVars, pc, callVars>> /\ UNCHANGED cacheVars
      /\ lost' = lost /\ begun' = begun /\ fault' = fault
      /\ live' = live \ {i} /\ notices' = notices \cup {i}
      /\ extent' = [extent EXCEPT ![i] = {}]
  BY DEF Collect
<1>2. live' \in SUBSET Insts /\ notices' \in SUBSET Insts
      /\ extent' \in [Insts -> SUBSET Regions]
  BY <1>1 DEF IInv, RuntimeType
<1>3. RuntimeType'
  BY <1>1, <1>2 DEF IInv, RuntimeType
<1> QED BY <1>1, <1>3, CacheSame, CallSame DEF IInv

\* The notice of a collected instance erases it from the cache.
LEMMA HandleKeeps ==
  ASSUME IInv, NEW i \in Insts, Handle(i)
  PROVE  IInv'
<1>1. /\ Erase(i) /\ pc' = pc /\ job' = job /\ result' = result
      /\ live' = live /\ extent' = extent /\ begun' = begun /\ fault' = fault
      /\ notices' = notices \ {i}
  BY DEF Handle, callVars
<1>2. lost' \in SUBSET Calls /\ group' = group
  BY <1>1, EraseType DEF IInv
<1>3. CallInv'
  BY <1>1, <1>2 DEF IInv, CallInv, CallOK
<1>4. notices' \in SUBSET Insts
  BY <1>1 DEF IInv, RuntimeType
<1>5. RuntimeType'
  BY <1>1, <1>2, <1>4 DEF IInv, RuntimeType
<1> QED BY <1>1, <1>3, <1>5, EraseKeeps DEF IInv

-----------------------------------------------------------------------------
(* The theorems *)

\* The empty cache satisfies the invariant.
LEMMA InitIInv == Init => IInv
<1> SUFFICES ASSUME Init PROVE IInv
  OBVIOUS
<1>1. CacheType
  BY DEF Init, CacheType, NoSpec
<1>2. \A a \in Addr : Creators(a) = {} /\ ~InTable(a)
  BY InstanceAssumption DEF Init, Creators, InTable
<1>3. HeapOK
  BY <1>2 DEF Init, HeapOK
<1>4. PendingOK
  BY <1>2, FS_EmptySet DEF Init, PendingOK
<1>5. Sane
  BY DEF Init, Sane, Cached, NoSpec
<1>6. CallInv
  <2>1. NoJob \in Job
    BY DEF NoJob, Job
  <2>2. "idle" \in PCs
    BY DEF PCs
  <2>3. \A c \in Calls : CallOK(c)
    BY DEF Init, CallOK, Creating, WithResult
  <2> QED BY <2>1, <2>2, <2>3 DEF Init, CallInv
<1>7. RuntimeType
  BY DEF Init, RuntimeType
<1> QED BY <1>1, <1>3, <1>4, <1>5, <1>6, <1>7 DEF IInv, CacheInv

\* Every step of a call, of the runtime and of a notice keeps it.
LEMMA StepIInv == IInv /\ [Next]_vars => IInv'
<1> SUFFICES ASSUME IInv, [Next]_vars PROVE IInv'
  OBVIOUS
<1>1. ASSUME NEW c \in Calls, Begin(c) PROVE IInv'
  BY <1>1, BeginKeeps
<1>2. ASSUME NEW c \in Calls, Step(c) PROVE IInv'
  BY <1>2, MapKeeps, MapAgainKeeps, SearchKeeps, RuntimeKeeps, NoMemoryKeeps, RecordCallKeeps,
     RecordThrowsKeeps, AcquireKeeps, AcquireFailsKeeps, FinishKeeps DEF Step
<1>3. ASSUME NEW i \in Insts, Collect(i) \/ Handle(i) PROVE IInv'
  BY <1>3, CollectKeeps, HandleKeeps
<1>4. CASE UNCHANGED vars
  BY <1>4, CacheSame, CallSame, RuntimeSame
  DEF vars, IInv, cacheVars, callVars, runtimeVars
<1> QED BY <1>1, <1>2, <1>3, <1>4 DEF Next

\* So it holds in every interleaving.
LEMMA Invariant == Spec => []IInv
BY InitIInv, StepIInv, PTL DEF Spec

\* The tables of the cache and of the calls have their types: in particular
\* no counter of pending instances goes below zero, however the calls of
\* record_instance and remove_pending_instance interleave.
THEOREM TypeCorrect == Spec => []TypeOK
<1>1. IInv => TypeOK
  BY DEF IInv, CacheInv, CacheType, CallInv, RuntimeType, TypeOK
<1> QED BY <1>1, Invariant, PTL

\* dump_and_sanity_check_ finds nothing wrong, whatever groups are united,
\* replaced and erased, and in whatever order mapper calls and notices of
\* collected instances run: regions are in their groups, groups in the table
\* have an instance, and no group with an instance has left the table.
THEOREM SanityCheck == Spec => []Sane
<1>1. IInv => Sane
  BY DEF IInv, CacheInv
<1> QED BY <1>1, Invariant, PTL

-----------------------------------------------------------------------------
(* Collected instances *)

Holding == {"record new", "record found", "acquire found"}

\* What a call records exists, because the call holds it.
HeldLive == \A c \in Calls : pc[c] \in Holding => result[c] \in live

DeadInv == DeadAreForgotten /\ HeldLive

\* Steps of a call that neither record nor erase, and do not start to hold.
LEMMA DeadQuiet ==
  ASSUME IInv, DeadInv, NEW c \in Calls, NEW place, place \notin Holding,
         Goto(c, place), instances' = instances, UNCHANGED <<live, notices>>,
         \A d \in Calls : d # c => result'[d] = result[d]
  PROVE  DeadInv'
<1>1. pc'[c] = place /\ (\A d \in Calls : d # c => pc'[d] = pc[d])
  BY DEF Goto, IInv, CallInv
<1>2. HeldLive'
  BY <1>1 DEF DeadInv, HeldLive
<1>3. DeadAreForgotten'
  BY DEF DeadInv, DeadAreForgotten, Cached
<1> QED BY <1>2, <1>3 DEF DeadInv

\* An erased instance is in no entry.
LEMMA DeadErased ==
  ASSUME DeadInv, NEW i, Erase(i), live' = live, notices \ {i} \subseteq notices'
  PROVE  DeadAreForgotten'
<1>1. \A a \in Addr : Cached(a)' => Cached(a) /\ instances'[a] = instances[a]
                                    /\ instances[a].inst # i
  BY DEF Erase, Erased, Cached, NoSpec
<1> QED BY <1>1 DEF DeadInv, DeadAreForgotten

\* Looking up and asking for an instance.
LEMMA DeadLookup ==
  ASSUME IInv, DeadInv, NEW c \in Calls,
         Begin(c) \/ Map(c) \/ MapAgain(c) \/ SearchAll(c) \/ SearchLost(c) \/ NoMemory(c)
  PROVE  DeadInv'
<1>1. /\ instances' = instances /\ UNCHANGED <<live, notices>>
      /\ \/ \E place \in {"map", "domain", "search", "search again", "create", "acquire"} :
              Goto(c, place)
         \/ pc' = pc /\ result' = result
      /\ result' = result \/ (\E x : result' = [result EXCEPT ![c] = x])
  <2>1. CASE Begin(c)
    BY <2>1 DEF Begin, cacheVars, runtimeVars
  <2>2. CASE NoMemory(c)
    BY <2>2 DEF NoMemory, runtimeVars
  <2> DEFINE Looks == \/ \E a : Hit(c, a)
                      \/ Miss(c, "domain") \/ Miss(c, "search") \/ Miss(c, "search again")
                      \/ FindGroup(c)
                      \/ UNCHANGED <<cacheVars, pc, result>>
  <2>3. CASE Map(c) \/ MapAgain(c) \/ SearchAll(c) \/ SearchLost(c)
    <3>1. UNCHANGED <<live, notices>>
      BY <2>3 DEF Map, MapAgain, SearchAll, SearchLost, runtimeVars
    <3>2. Looks
      <4>1. CASE Map(c)
        BY <4>1, Zenon DEF Map, FindOwn
      <4>2. CASE MapAgain(c)
        BY <4>2, Zenon DEF MapAgain, FindOwn
      <4>3. CASE SearchAll(c) \/ SearchLost(c)
        BY <4>3 DEF SearchAll, SearchLost
      <4> QED BY <2>3, <4>1, <4>2, <4>3
    <3> QED BY <3>1, <3>2 DEF Hit, Miss, FindGroup, cacheVars
  <2> QED BY <2>1, <2>2, <2>3
<1>2. \A d \in Calls : d # c => result'[d] = result[d]
  BY <1>1 DEF IInv, CallInv
<1>3. CASE pc' = pc /\ result' = result
  BY <1>1, <1>3 DEF DeadInv, DeadAreForgotten, HeldLive, Cached
<1>4. CASE \E place \in {"map", "domain", "search", "search again", "create", "acquire"} :
              Goto(c, place)
  BY <1>1, <1>2, <1>4, DeadQuiet DEF Holding
<1> QED BY <1>1, <1>3, <1>4

\* Only a live instance is recorded.
LEMMA DeadRecord ==
  ASSUME IInv, DeadInv, NEW c \in Calls, Record(c)
  PROVE  DeadInv'
<1>1. /\ pc[c] \in {"record new", "record found"} /\ RecordInstance(c)
      /\ UNCHANGED <<live, notices>>
  BY DEF Record, At, runtimeVars
<1>2. result[c] \in live
  BY <1>1 DEF DeadInv, HeldLive, Holding
<1>3. \A a \in Addr : instances'[a].inst \in {result[c], None, instances[a].inst}
  BY <1>1 DEF RecordInstance, NoSpec
<1>4. DeadAreForgotten'
  BY <1>1, <1>2, <1>3 DEF DeadInv, DeadAreForgotten, Cached
<1>5. \A d \in Calls : d # c => pc'[d] = pc[d] /\ result'[d] = result[d]
  BY DEF Record, Got, Goto, IInv, CallInv
<1>6. pc'[c] \in Holding => result'[c] = result[c]
  <2>1. CASE Got(c)
    <3>1. pc'[c] \in {"mapped", "map"}
      BY <2>1 DEF Got, Goto, IInv, CallInv
    <3> QED BY <3>1 DEF Holding
  <2>2. CASE UNCHANGED <<job, result>>
    BY <2>2
  <2> QED BY <2>1, <2>2 DEF Record
<1>7. HeldLive'
  BY <1>1, <1>2, <1>5, <1>6 DEF DeadInv, HeldLive
<1> QED BY <1>4, <1>7 DEF DeadInv

\* The runtime finds or creates live instances.
LEMMA DeadRuntime ==
  ASSUME IInv, DeadInv, NEW c \in Calls, RuntimeFinds(c) \/ RuntimeCreates(c)
  PROVE  DeadInv'
<1>1. /\ live \subseteq live' /\ notices' = notices /\ instances' = instances
      /\ \E i \in live' : result' = [result EXCEPT ![c] = i]
  <2>1. CASE RuntimeFinds(c)
    BY <2>1 DEF RuntimeFinds, cacheVars, runtimeVars
  <2>2. CASE RuntimeCreates(c)
    <3> DEFINE i == CHOOSE i \in Insts : Unused(i)
    <3>1. /\ result' = [result EXCEPT ![c] = i] /\ live' = live \cup {i}
          /\ notices' = notices /\ instances' = instances
      BY <2>2 DEF RuntimeCreates, cacheVars
    <3> HIDE DEF i
    <3> QED BY <3>1
  <2> QED BY <2>1, <2>2
<1>2. DeadAreForgotten'
  BY <1>1 DEF DeadInv, DeadAreForgotten, Cached
<1>3. \A d \in Calls : d # c => pc'[d] = pc[d] /\ result'[d] = result[d]
  BY DEF RuntimeFinds, RuntimeCreates, Goto, IInv, CallInv
<1>4. result'[c] \in live'
  BY <1>1 DEF IInv, CallInv
<1>5. HeldLive'
  BY <1>1, <1>3, <1>4 DEF DeadInv, HeldLive
<1> QED BY <1>2, <1>5 DEF DeadInv

\* An instance that is collected has its notice under way.
LEMMA DeadCollect ==
  ASSUME IInv, DeadInv, NEW i \in Insts, Collect(i)
  PROVE  DeadInv'
<1>1. /\ live' = live \ {i} /\ notices' = notices \cup {i} /\ instances' = instances
      /\ pc' = pc /\ result' = result /\ (\A c \in Calls : i \notin Held(c))
  BY DEF Collect, cacheVars, callVars
<1>2. \A c \in Calls : pc[c] \in Holding => result[c] # i
  BY <1>1 DEF Held, Holding
<1> QED BY <1>1, <1>2 DEF DeadInv, DeadAreForgotten, HeldLive, Cached

\* After a notice, or a failed acquire, the dead instance is in no entry.
LEMMA DeadErase ==
  ASSUME IInv, DeadInv,
         (\E c \in Calls : AcquireFails(c)) \/ (\E i \in Insts : Handle(i))
  PROVE  DeadInv'
<1>1. ASSUME NEW c \in Calls, AcquireFails(c) PROVE DeadInv'
  <2>1. /\ Erase(result[c]) /\ live' = live /\ Goto(c, "map")
        /\ notices \ {result[c]} \subseteq notices'
        /\ result' = [result EXCEPT ![c] = None]
    BY <1>1 DEF AcquireFails
  <2>2. DeadAreForgotten'
    BY <2>1, DeadErased
  <2>3. HeldLive'
    BY <2>1 DEF DeadInv, HeldLive, Holding, Goto, IInv, CallInv
  <2> QED BY <2>2, <2>3 DEF DeadInv
<1>2. ASSUME NEW i \in Insts, Handle(i) PROVE DeadInv'
  <2>1. /\ Erase(i) /\ live' = live /\ notices' = notices \ {i}
        /\ pc' = pc /\ result' = result
    BY <1>2 DEF Handle, callVars
  <2>2. DeadAreForgotten'
    BY <2>1, DeadErased
  <2> QED BY <2>1, <2>2 DEF DeadInv, HeldLive
<1> QED BY <1>1, <1>2

\* No step leaves a dead instance in the cache without a notice to come.
LEMMA DeadStep == IInv /\ DeadInv /\ [Next]_vars => DeadInv'
<1> SUFFICES ASSUME IInv, DeadInv, [Next]_vars PROVE DeadInv'
  OBVIOUS
<1>1. ASSUME NEW c \in Calls, Acquire(c) \/ Finish(c) PROVE DeadInv'
  <2>1. /\ instances' = instances /\ UNCHANGED <<live, notices>>
        /\ \E place \in {"map", "mapped", "idle"} : Goto(c, place)
        /\ result' = result \/ result' = [result EXCEPT ![c] = None]
    BY <1>1 DEF Acquire, Finish, Got, cacheVars, runtimeVars
  <2>2. \A d \in Calls : d # c => result'[d] = result[d]
    BY <2>1 DEF IInv, CallInv
  <2> QED BY <2>1, <2>2, DeadQuiet DEF Holding
<1>2. ASSUME NEW c \in Calls, RecordThrows(c) PROVE DeadInv'
  BY <1>2 DEF RecordThrows, cacheVars, callVars, runtimeVars, DeadInv, DeadAreForgotten,
     HeldLive, Cached
<1>3. ASSUME NEW c \in Calls, Begin(c) \/ Step(c) PROVE DeadInv'
  BY <1>1, <1>2, <1>3, DeadLookup, DeadRecord, DeadRuntime, DeadErase DEF Step
<1>4. ASSUME NEW i \in Insts, Collect(i) \/ Handle(i) PROVE DeadInv'
  BY <1>4, DeadCollect, DeadErase
<1>5. CASE UNCHANGED vars
  BY <1>5 DEF vars, cacheVars, callVars, runtimeVars, DeadInv, DeadAreForgotten, HeldLive, Cached
<1> QED BY <1>3, <1>4, <1>5 DEF Next

\* An instance that is in the cache exists, or the notice of its collection is
\* under way: whichever of handle_instance_collection and a failing
\* acquire_instance comes first, all of its entries are gone with it.
THEOREM NoDeadEntries == Spec => []DeadAreForgotten
<1>1. Init => DeadInv
  BY DEF Init, DeadInv, DeadAreForgotten, HeldLive, Cached, NoSpec, Holding
<1>2. DeadInv => DeadAreForgotten
  BY DEF DeadInv
<1> QED BY <1>1, <1>2, DeadStep, Invariant, PTL DEF Spec

-----------------------------------------------------------------------------
(* Boxes *)

\* The naturals are well-founded.
LEMMA Least ==
  ASSUME NEW S \in SUBSET Nat, S # {}
  PROVE  \E x \in S : \A y \in S : x <= y
<1> DEFINE R == OpToRel(<, Nat)
<1>1. IsWellFoundedOn(R, Nat)
  BY NatLessThanWellFounded
<1>2. \A x, y \in Nat : y < x => <<y, x>> \in R
  BY DEF OpToRel
<1> HIDE DEF R
<1>3. PICK x \in S : \A y \in S : <<y, x>> \notin R
  BY <1>1, WFMin, Zenon
<1>4. \A y \in S : ~(y < x)
  BY <1>2, <1>3
<1> QED BY <1>4

\* A smallest set without a bound would have a smaller one.
LEMMA Bounded ==
  ASSUME NEW S \in SUBSET Nat, IsFiniteSet(S)
  PROVE  \E b \in Nat : \A y \in S : y <= b
<1> DEFINE Free(T) == T \subseteq Nat /\ IsFiniteSet(T) /\ \A b \in Nat : \E y \in T : ~(y <= b)
           N == {n \in Nat : \E T \in SUBSET S : Free(T) /\ Cardinality(T) = n}
<1>1. SUFFICES ASSUME Free(S) PROVE FALSE
  OBVIOUS
<1>2. Cardinality(S) \in N
  BY <1>1, FS_CardinalityType
<1>3. PICK n \in N : \A m \in N : n <= m
  BY <1>2, Least
<1>4. PICK T \in SUBSET S : Free(T) /\ Cardinality(T) = n
  BY <1>3
<1>5. PICK x \in T : x \in Nat
  BY <1>4
<1>6. /\ IsFiniteSet(T \ {x}) /\ Cardinality(T \ {x}) = n - 1
      /\ Cardinality(T \ {x}) \in Nat
  BY <1>4, <1>5, FS_RemoveElement, FS_CardinalityType
<1>7. ~Free(T \ {x})
  BY <1>3, <1>6
<1>8. PICK b \in Nat : \A y \in T \ {x} : y <= b
  BY <1>4, <1>6, <1>7
<1>9. \A y \in T : y <= b + x
  BY <1>4, <1>5, <1>8
<1>10. b + x \in Nat
  BY <1>5, <1>8
<1> QED BY <1>4, <1>9, <1>10

\* The least and the greatest of finitely many numbers.
LEMMA MinMax ==
  ASSUME NEW S \in SUBSET Nat, S # {}, IsFiniteSet(S)
  PROVE  /\ Min(S) \in S /\ Max(S) \in S
         /\ \A x \in S : Min(S) <= x /\ x <= Max(S)
<1>1. PICK l \in S : \A y \in S : l <= y
  BY Least
<1>2. Min(S) \in S /\ \A y \in S : Min(S) <= y
  BY <1>1 DEF Min
<1> DEFINE U == {b \in Nat : \A y \in S : y <= b}
<1>3. U # {}
  BY Bounded
<1>4. PICK u \in U : \A v \in U : u <= v
  BY <1>3, Least
<1>5. u \in S
  <2>1. SUFFICES ASSUME u \notin S PROVE FALSE
    OBVIOUS
  <2>2. \A y \in S : y < u
    BY <1>4, <2>1
  <2>3. u - 1 \in U
    BY <2>2
  <2> QED BY <1>4, <2>3
<1>6. Max(S) \in S /\ \A y \in S : Max(S) >= y
  BY <1>4, <1>5 DEF Max
<1> QED BY <1>2, <1>6

\* The hull of a set of points has all of them.
LEMMA HullContains ==
  ASSUME NEW P \in SUBSET (Nat \X Nat), IsFiniteSet(P)
  PROVE  P \subseteq Hull(P)
<1> DEFINE f == [q \in P |-> q[1]]
           g == [q \in P |-> q[2]]
           xs == {q[1] : q \in P}
           ys == {q[2] : q \in P}
<1>1. xs = {f[q] : q \in P} /\ ys = {g[q] : q \in P}
  OBVIOUS
<1>2. IsFiniteSet(xs) /\ IsFiniteSet(ys)
  <2> HIDE DEF f, g, xs, ys
  <2> QED BY <1>1, ImageBound
<1>3. SUFFICES ASSUME NEW q \in P PROVE q \in Hull(P)
  OBVIOUS
<1>4. /\ xs \in SUBSET Nat /\ ys \in SUBSET Nat
      /\ q[1] \in xs /\ q[2] \in ys
  OBVIOUS
<1>5. Hull(P) = (Min(xs)..Max(xs)) \X (Min(ys)..Max(ys))
  BY DEF Hull
<1> HIDE DEF xs, ys
<1>6. /\ Min(xs) \in Nat /\ Max(xs) \in Nat /\ Min(xs) <= q[1] /\ q[1] <= Max(xs)
      /\ Min(ys) \in Nat /\ Max(ys) \in Nat /\ Min(ys) <= q[2] /\ q[2] <= Max(ys)
  BY <1>2, <1>4, MinMax
<1>7. q[1] \in Min(xs)..Max(xs) /\ q[2] \in Min(ys)..Max(ys) /\ q = <<q[1], q[2]>>
  BY <1>6
<1> QED BY <1>5, <1>7

\* An instance for a group has room for each of its regions, and one for a
\* single region has no more than that.
LEMMA RegionInBox ==
  ASSUME NEW rs \in SUBSET Regions, NEW r \in rs
  PROVE  /\ Box[r] \subseteq BoxOf[rs]
         /\ rs = {r} => BoxOf[rs] = Box[r]
<1> DEFINE boxes == {Box[q] : q \in rs}
<1>1. IsFiniteSet(rs)
  BY InstanceAssumption, FS_Subset
<1>2. IsFiniteSet(boxes)
  BY <1>1, ImageBound
<1>3. IsFiniteSet(UNION boxes)
  BY <1>2, BoxAssumption, FS_UNION
<1>4. UNION boxes \in SUBSET (Nat \X Nat)
  BY InstanceAssumption
<1>5. UNION boxes \subseteq Hull(UNION boxes)
  <2> HIDE DEF boxes
  <2> QED BY <1>3, <1>4, HullContains
<1>6. BoxOf[rs] = Hull(UNION boxes)
  BY DEF BoxOf
<1>7. Box[r] \subseteq UNION boxes
  OBVIOUS
<1>8. rs = {r} => UNION boxes = Box[r]
  OBVIOUS
<1>9. Hull(Box[r]) = Box[r]
  BY BoxAssumption
<1> HIDE DEF boxes
<1> QED BY <1>5, <1>6, <1>7, <1>8, <1>9

-----------------------------------------------------------------------------
(* The invariant *)

Fits(i, r, exact) ==
  /\ Box[r] \subseteq BoxOf[extent[i]]
  /\ exact => BoxOf[extent[i]] = Box[r]

\* An entry promises the box of its group.
EntryOK(a) ==
  Cached(a) /\ instances[a].inst \in live =>
    /\ BoxOf[heap[a]] \subseteq BoxOf[extent[instances[a].inst]]
    /\ instances[a].exact =>
         /\ BoxOf[extent[instances[a].inst]] = BoxOf[heap[a]]
         /\ \E r \in Regions : heap[a] = {r}

IsExact(c, s) == s.exact \/ (job[c].tight /\ s.write)

GotOK(c) ==
  \A k \in DOMAIN job[c].got :
    /\ job[c].got[k] \in live
    /\ Fits(job[c].got[k], job[c].stores[k].region, IsExact(c, job[c].stores[k]))

\* The group is for the region, and for it alone if the instance is exact.
GroupOK(c) ==
  pc[c] \in Creating =>
    /\ Req(c).region \in heap[group[c]]
    /\ Exact(c) => heap[group[c]] = {Req(c).region}

\* What is about to be recorded has room for the group.
RecordOK(c) ==
  pc[c] \in {"record new", "record found"} =>
    /\ BoxOf[heap[group[c]]] \subseteq BoxOf[extent[result[c]]]
    /\ Exact(c) => BoxOf[extent[result[c]]] = BoxOf[heap[group[c]]]

AcquireOK(c) ==
  \/ pc[c] = "acquire" /\ result[c] \in live
  \/ pc[c] = "acquire found"
  => Fits(result[c], Req(c).region, Exact(c))

\* Only calls that may use a larger instance search all groups.
SearchOK(c) == pc[c] \in {"search", "search again"} => ~Exact(c)

CallRoom(c) == GotOK(c) /\ GroupOK(c) /\ RecordOK(c) /\ AcquireOK(c) /\ SearchOK(c)

RoomInv == (\A a \in Addr : EntryOK(a)) /\ (\A c \in Calls : CallRoom(c))

Known == IInv /\ DeadInv

-----------------------------------------------------------------------------
(* Where a call looks for an instance *)

Looks == {"map", "domain", "search", "search again"}

\* The group of a hit is the region's own, or one that covers it.
HitOf(c, a) ==
  /\ Valid(c, a) /\ Hit(c, a)
  /\ \/ Req(c).region \in heap[a]
     \/ pc[c] \in {"search", "search again"} /\ Box[Req(c).region] \subseteq BoxOf[heap[a]]

\* What map_store_to_inst_ does before it asks for an instance: a hit, a wait
\* for the runtime, or a group to create an instance for.
LEMMA Looking ==
  ASSUME IInv, NEW c \in Calls, Map(c) \/ MapAgain(c) \/ SearchAll(c) \/ SearchLost(c)
  PROVE  /\ pc[c] \in Looks /\ UNCHANGED <<job, live, extent>>
         /\ \/ \E a \in Addr : HitOf(c, a)
            \/ Miss(c, "domain")
            \/ \E place \in {"search", "search again"} : Miss(c, place) /\ ~Exact(c)
            \/ FindGroup(c)
            \/ UNCHANGED <<cacheVars, pc, result>>
<1> DEFINE own == groups[Req(c).region]
<1>1. pc[c] \in Looks /\ UNCHANGED <<job, live, extent>>
  BY DEF Map, MapAgain, SearchAll, SearchLost, At, Looks, runtimeVars
<1>2. Req(c).region \in Regions
  BY <1>1, Requested DEF IInv, Looks, Request
<1>3. own # None /\ Valid(c, own) /\ Hit(c, own) => own \in Addr /\ HitOf(c, own)
  <2>1. own # None => own \in Addr /\ Req(c).region \in heap[own]
    BY <1>2 DEF IInv, CacheInv, CacheType, Sane
  <2> QED BY <2>1 DEF HitOf
<1>4. CASE Map(c)
  <2>1. FindOwn(c, "search", Miss(c, "domain"))
    BY <1>4 DEF Map
  <2>2. \/ own # None /\ Valid(c, own) /\ Hit(c, own)
        \/ ~Exact(c) /\ Miss(c, "search")
        \/ Miss(c, "domain")
    BY <2>1 DEF FindOwn
  <2> QED BY <1>1, <1>3, <2>2
<1>5. CASE MapAgain(c)
  <2>1. FindOwn(c, "search again", FindGroup(c))
    BY <1>5 DEF MapAgain
  <2>2. \/ own # None /\ Valid(c, own) /\ Hit(c, own)
        \/ ~Exact(c) /\ Miss(c, "search again")
        \/ FindGroup(c)
    BY <2>1 DEF FindOwn
  <2> QED BY <1>1, <1>3, <2>2
<1>6. CASE SearchAll(c) \/ SearchLost(c)
  <2>1. /\ pc[c] \in {"search", "search again"}
        /\ \/ \E a \in Covering(c) : Hit(c, a)
           \/ Miss(c, "domain")
           \/ FindGroup(c)
           \/ UNCHANGED <<cacheVars, pc, result>>
    BY <1>6 DEF SearchAll, SearchLost, At
  <2>2. \A a \in Covering(c) : Hit(c, a) => a \in Addr /\ HitOf(c, a)
    BY <2>1 DEF Covering, HitOf
  <2> QED BY <1>1, <2>1, <2>2
<1> QED BY <1>4, <1>5, <1>6

-----------------------------------------------------------------------------
(* What no step changes *)

\* Instances that the cache or a call refers to.
Referred(i) ==
  \/ \E a \in Addr : instances[a].inst = i
  \/ \E c \in Calls : result[c] = i \/ i \in Range(job[c].got)

\* Such an instance does not come back and does not change its size.
InstancesStay ==
  \A i \in Insts : Referred(i) => (i \in live' => i \in live /\ extent'[i] = extent[i])

\* Only RuntimeCreates gives an instance its size, and it takes an unused one.
LEMMA SizesStay == IInv /\ [Next]_vars => InstancesStay
<1> SUFFICES ASSUME IInv, [Next]_vars PROVE InstancesStay
  OBVIOUS
<1>1. CASE live' = live /\ extent' = extent
  BY <1>1 DEF InstancesStay
<1>2. ASSUME NEW c \in Calls, RuntimeCreates(c) PROVE InstancesStay
  <2> DEFINE i == CHOOSE i \in Insts : Unused(i)
  <2>1. /\ live' = live \cup {i} /\ extent' = [extent EXCEPT ![i] = heap[group[c]]]
        /\ \E j \in Insts : Unused(j)
    BY <1>2 DEF RuntimeCreates
  <2>2. Unused(i)
    BY <2>1
  <2> HIDE DEF i
  <2>3. ~Referred(i)
    BY <2>2 DEF Unused, Referred
  <2>4. \A j \in Insts : j # i => extent'[j] = extent[j]
    BY <2>1 DEF IInv, RuntimeType
  <2> QED BY <2>1, <2>3, <2>4 DEF InstancesStay
<1>3. ASSUME NEW i \in Insts, Collect(i) PROVE InstancesStay
  <2>1. live' = live \ {i} /\ extent' = [extent EXCEPT ![i] = {}]
    BY <1>3 DEF Collect
  <2>2. \A j \in Insts : j # i => extent'[j] = extent[j]
    BY <2>1 DEF IInv, RuntimeType
  <2> QED BY <2>1, <2>2 DEF InstancesStay
<1>4. ASSUME NEW c \in Calls, Begin(c) \/ Step(c), ~RuntimeCreates(c)
      PROVE  live' = live /\ extent' = extent
  BY <1>4 DEF Step, Begin, Map, MapAgain, SearchAll, SearchLost, RuntimeFinds, NoMemory,
     Record, RecordThrows, Acquire, AcquireFails, Finish, runtimeVars
<1>5. ASSUME NEW i \in Insts, Handle(i) PROVE live' = live /\ extent' = extent
  BY <1>5 DEF Handle
<1>6. CASE UNCHANGED vars
  BY <1>6, <1>1 DEF vars, runtimeVars
<1> QED BY <1>1, <1>2, <1>3, <1>4, <1>5, <1>6 DEF Next

HeldStay == \A c \in Calls : \A i \in Held(c) : i \in live => i \in live'

\* Only Collect ends an instance, and not one that is held.
LEMMA HeldKept == [Next]_vars => HeldStay
<1> SUFFICES ASSUME [Next]_vars PROVE HeldStay
  OBVIOUS
<1>1. ASSUME NEW i \in Insts, Collect(i) PROVE HeldStay
  BY <1>1 DEF Collect, HeldStay
<1>2. ASSUME NEW c \in Calls, Begin(c) \/ Step(c)
      PROVE  live \subseteq live'
  <2>1. CASE RuntimeCreates(c)
    <3> DEFINE i == CHOOSE i \in Insts : Unused(i)
    <3>1. live' = live \cup {i}
      BY <2>1 DEF RuntimeCreates
    <3> HIDE DEF i
    <3> QED BY <3>1
  <2>2. CASE ~RuntimeCreates(c)
    BY <1>2, <2>2 DEF Step, Begin, Map, MapAgain, SearchAll, SearchLost, RuntimeFinds,
       NoMemory, Record, RecordThrows, Acquire, AcquireFails, Finish, runtimeVars
  <2> QED BY <2>1, <2>2
<1>3. ASSUME NEW i \in Insts, Handle(i) PROVE live' = live
  BY <1>3 DEF Handle
<1>4. CASE UNCHANGED vars
  BY <1>4 DEF vars, runtimeVars, HeldStay
<1> QED BY <1>1, <1>2, <1>3, <1>4 DEF Next, HeldStay

\* The regions of a group do not change as long as somebody points to it.
GroupsStay == \A a \in Addr : heap[a] # {} /\ heap'[a] # {} => heap'[a] = heap[a]

\* Groups are let go or created, never changed.
LEMMA RegionsStay == IInv /\ [Next]_vars => GroupsStay
<1> SUFFICES ASSUME IInv, [Next]_vars PROVE GroupsStay
  OBVIOUS
<1>1. ASSUME NEW gs, NEW ps, NEW cs, heap' = Remaining(heap, gs, ps, cs)
      PROVE  GroupsStay
  BY <1>1 DEF Remaining, GroupsStay
<1>2. CASE heap' = heap
  BY <1>2 DEF GroupsStay
<1>3. ASSUME NEW c \in Calls, FindGroup(c), pc[c] \in Looks
      PROVE  GroupsStay
  <2>1. group[c] = None /\ Req(c).region \in Regions
    BY <1>3, Requested DEF IInv, CallInv, CallOK, Creating, Looks, Request
  <2>2. PICK g \in GroupsFor(c) : heap' = [heap EXCEPT ![g.at] = g.regions]
    BY <1>3 DEF FindGroup
  <2>3. g.at \in Addr /\ (heap[g.at] = {} \/ heap[g.at] = g.regions)
    BY <2>1, <2>2, GroupFound DEF IInv
  <2>4. heap \in [Addr -> SUBSET Regions]
    BY DEF IInv, CacheInv, CacheType
  <2>5. heap' = [b \in Addr |-> IF b = g.at THEN g.regions ELSE heap[b]]
    BY <2>2, <2>3, <2>4
  <2> QED BY <2>3, <2>5 DEF GroupsStay
<1>4. ASSUME NEW c \in Calls, Map(c) \/ MapAgain(c) \/ SearchAll(c) \/ SearchLost(c)
      PROVE  GroupsStay
  <2>1. heap' = heap \/ (FindGroup(c) /\ pc[c] \in Looks)
    BY <1>4, Looking DEF HitOf, Hit, Miss, cacheVars
  <2> QED BY <2>1, <1>2, <1>3
<1>5. ASSUME NEW c \in Calls, NoMemory(c) \/ Record(c) \/ AcquireFails(c)
      PROVE  GroupsStay
  BY <1>1, <1>5 DEF NoMemory, Record, RecordInstance, AcquireFails, Erase
<1>6. ASSUME NEW c \in Calls,
             \/ Begin(c) \/ RuntimeFinds(c) \/ RuntimeCreates(c) \/ RecordThrows(c)
             \/ Acquire(c) \/ Finish(c)
      PROVE  heap' = heap
  BY <1>6 DEF Begin, RuntimeFinds, RuntimeCreates, RecordThrows, Acquire, Finish, cacheVars
<1>7. ASSUME NEW i \in Insts, Collect(i) \/ Handle(i) PROVE GroupsStay
  <2>1. CASE Collect(i)
    BY <2>1, <1>2 DEF Collect, cacheVars
  <2>2. CASE Handle(i)
    BY <2>2, <1>1 DEF Handle, Erase
  <2> QED BY <1>7, <2>1, <2>2
<1>8. CASE UNCHANGED vars
  BY <1>2, <1>8 DEF vars, cacheVars
<1> QED BY <1>2, <1>4, <1>5, <1>6, <1>7, <1>8 DEF Next, Step

-----------------------------------------------------------------------------
(* Calls and entries that a step does not touch *)

Quiet == InstancesStay /\ HeldStay /\ GroupsStay

\* All three, of every step.
LEMMA AlwaysQuiet == IInv /\ [Next]_vars => Quiet
BY SizesStay, HeldKept, RegionsStay DEF Quiet

\* A group that is pointed to before and after a step.
LEMMA GroupSame ==
  ASSUME IInv, IInv', Quiet, NEW a \in Addr,
         Cached(a) \/ Creators(a) # {}, Cached(a)' \/ Creators(a)' # {}
  PROVE  heap'[a] = heap[a] /\ heap[a] # {}
<1>1. heap[a] # {}
  BY DEF IInv, CacheInv, HeapOK, Sane, InTable
<1>2. heap'[a] # {}
  BY DEF IInv, CacheInv, HeapOK, Sane, InTable
<1> QED BY <1>1, <1>2 DEF Quiet, GroupsStay

\* An entry that is not recorded anew keeps its promise.
LEMMA EntryStays ==
  ASSUME Known, Known', Quiet, NEW a \in Addr, EntryOK(a),
         instances'[a] \in {instances[a], NoSpec}
  PROVE  EntryOK(a)'
<1>1. SUFFICES ASSUME Cached(a)', instances'[a].inst \in live' PROVE EntryOK(a)'
  BY DEF EntryOK
<1>2. instances'[a] = instances[a] /\ Cached(a)
  BY <1>1 DEF Cached, NoSpec
<1>3. heap'[a] = heap[a]
  BY <1>1, <1>2, GroupSame DEF Known
<1>4. instances[a].inst \in Insts
  BY <1>2 DEF Known, IInv, CacheInv, CacheType, Cached
<1>5. /\ instances[a].inst \in live
      /\ extent'[instances[a].inst] = extent[instances[a].inst]
  BY <1>1, <1>2, <1>4 DEF Quiet, InstancesStay, Referred
<1> QED BY <1>2, <1>3, <1>5 DEF EntryOK

\* The same for a step that records nothing.
LEMMA EntriesStay ==
  ASSUME Known, Known', Quiet, RoomInv,
         \A a \in Addr : instances'[a] \in {instances[a], NoSpec}
  PROVE  \A a \in Addr : EntryOK(a)'
BY EntryStays DEF RoomInv

\* What a call has acquired stays as it is.
LEMMA GotStays ==
  ASSUME IInv, Quiet, NEW c \in Calls, GotOK(c), NEW k \in DOMAIN job[c].got
  PROVE  /\ job[c].got[k] \in live'
         /\ extent'[job[c].got[k]] = extent[job[c].got[k]]
<1> DEFINE i == job[c].got[k]
<1>1. i \in live /\ i \in Range(job[c].got)
  BY DEF GotOK, Range
<1>2. i \in Insts
  BY <1>1 DEF IInv, RuntimeType
<1>3. i \in live'
  BY <1>1 DEF Held, Quiet, HeldStay
<1>4. extent'[i] = extent[i]
  BY <1>1, <1>2, <1>3 DEF Quiet, InstancesStay, Referred
<1> QED BY <1>3, <1>4

\* The same for all that it has acquired.
LEMMA GotSame ==
  ASSUME IInv, Quiet, NEW c \in Calls, GotOK(c), job'[c] = job[c]
  PROVE  GotOK(c)'
<1>1. ASSUME NEW k \in DOMAIN job[c].got
      PROVE  /\ job[c].got[k] \in live'
             /\ Box[job[c].stores[k].region] \subseteq BoxOf[extent'[job[c].got[k]]]
             /\ job[c].stores[k].exact \/ (job[c].tight /\ job[c].stores[k].write) =>
                  BoxOf[extent'[job[c].got[k]]] = Box[job[c].stores[k].region]
  <2>1. /\ job[c].got[k] \in live'
        /\ extent'[job[c].got[k]] = extent[job[c].got[k]]
    BY GotStays
  <2>2. /\ Box[job[c].stores[k].region] \subseteq BoxOf[extent[job[c].got[k]]]
        /\ job[c].stores[k].exact \/ (job[c].tight /\ job[c].stores[k].write) =>
             BoxOf[extent[job[c].got[k]]] = Box[job[c].stores[k].region]
    BY DEF GotOK, Fits, IsExact
  <2> QED BY <2>1, <2>2
<1> QED BY <1>1 DEF GotOK, Fits, IsExact

\* The instance that a call has found or created stays as it is.
LEMMA ResultStays ==
  ASSUME IInv, DeadInv, Quiet, NEW c \in Calls, pc[c] \in WithResult,
         pc[c] \in Holding \/ result[c] \in live'
  PROVE  /\ result[c] \in live /\ result[c] \in live'
         /\ extent'[result[c]] = extent[result[c]]
<1>1. result[c] \in Insts
  BY DEF IInv, CallInv, CallOK
<1>2. pc[c] \in Holding => result[c] \in live /\ result[c] \in Held(c)
  BY DEF DeadInv, HeldLive, Held, Holding
<1>3. result[c] \in live'
  BY <1>2 DEF Quiet, HeldStay
<1> QED BY <1>1, <1>3 DEF Quiet, InstancesStay, Referred

\* A call keeps its room while others run.
LEMMA OtherCall ==
  ASSUME Known, Known', Quiet, NEW d \in Calls, CallRoom(d),
         pc'[d] = pc[d], job'[d] = job[d], result'[d] = result[d], group'[d] = group[d]
  PROVE  CallRoom(d)'
<1> USE DEF Known, CallRoom
<1>1. GotOK(d)'
  BY GotSame
<1>2. Req(d)' = Req(d) /\ (Exact(d)' <=> Exact(d))
  BY DEF Req, Exact
<1>3. pc[d] \in Creating => heap'[group[d]] = heap[group[d]]
  <2>1. SUFFICES ASSUME pc[d] \in Creating PROVE heap'[group[d]] = heap[group[d]]
    OBVIOUS
  <2>2. group[d] \in Addr
    BY <2>1 DEF IInv, CallInv, CallOK, CacheInv, CacheType
  <2>3. d \in Creators(group[d]) /\ d \in {e \in Calls : group'[e] = group[d]}
    BY DEF Creators
  <2>4. {e \in Calls : group'[e] = group[d]} # {} /\ Creators(group[d]) # {}
    BY <2>3
  <2>5. heap[group[d]] # {}
    BY <2>2, <2>4 DEF IInv, CacheInv, HeapOK
  <2>6. heap'[group[d]] # {}
    BY <2>2, <2>4 DEF IInv, CacheInv, HeapOK, Creators
  <2> QED BY <2>2, <2>5, <2>6 DEF Quiet, GroupsStay
<1>4. GroupOK(d)'
  BY <1>2, <1>3 DEF GroupOK
<1>5. RecordOK(d)'
  <2>1. SUFFICES ASSUME pc[d] \in {"record new", "record found"} PROVE RecordOK(d)'
    BY DEF RecordOK
  <2>2. extent'[result[d]] = extent[result[d]] /\ heap'[group[d]] = heap[group[d]]
    BY <2>1, <1>3, ResultStays DEF WithResult, Holding, Creating
  <2> QED BY <2>2, <1>2 DEF RecordOK
<1>6. AcquireOK(d)'
  <2>1. SUFFICES ASSUME \/ pc[d] = "acquire" /\ result[d] \in live'
                        \/ pc[d] = "acquire found"
                 PROVE  AcquireOK(d)'
    BY DEF AcquireOK
  <2>2. result[d] \in live /\ extent'[result[d]] = extent[result[d]]
    BY <2>1, ResultStays DEF WithResult, Holding
  <2>3. Fits(result[d], Req(d).region, Exact(d))
    BY <2>1, <2>2 DEF AcquireOK
  <2> QED BY <2>2, <2>3, <1>2 DEF AcquireOK, Fits
<1>7. SearchOK(d)'
  BY <1>2 DEF SearchOK
<1> QED BY <1>1, <1>4, <1>5, <1>6, <1>7

\* A step of one call: the others have their room.
LEMMA OneRoom ==
  ASSUME Known, Known', Quiet, RoomInv, NEW c \in Calls,
         \A d \in Calls : d # c => /\ pc'[d] = pc[d] /\ job'[d] = job[d]
                                   /\ result'[d] = result[d] /\ group'[d] = group[d],
         CallRoom(c)', \A a \in Addr : EntryOK(a)'
  PROVE  RoomInv'
<1>1. \A d \in Calls : d # c => CallRoom(d)'
  BY OtherCall DEF RoomInv
<1> QED BY <1>1 DEF RoomInv

-----------------------------------------------------------------------------
(* The steps of a call *)

\* The group that a call finds is for its region, and for no other if the
\* instance must be exact.
LEMMA RegionInGroup ==
  ASSUME CacheInv, NEW c \in Calls, Req(c).region \in Regions, NEW g \in GroupsFor(c)
  PROVE  /\ Req(c).region \in g.regions
         /\ Exact(c) => g.regions = {Req(c).region}
<1> DEFINE r == Req(c).region
           self == IF groups[r] # None THEN Old(groups[r]) ELSE Fresh({r})
<1>1. groups[r] # None => groups[r] \in Addr /\ r \in heap[groups[r]]
  BY DEF CacheInv, CacheType, Sane
<1>2. r \in self.regions
  BY <1>1 DEF Old, Fresh
<1>3. CASE Exact(c)
  <2>1. g = ExactGroup(r)
    BY <1>3 DEF GroupsFor
  <2>2. CASE groups[r] # None /\ Cardinality(heap[groups[r]]) = 1
    <3>1. g.regions = heap[groups[r]]
      BY <2>1, <2>2 DEF ExactGroup, Old
    <3>2. heap[groups[r]] \in SUBSET Regions
      BY <1>1, <2>2 DEF CacheInv, CacheType
    <3>3. IsFiniteSet(heap[groups[r]])
      BY <3>2, InstanceAssumption, FS_Subset
    <3>4. PICK q : heap[groups[r]] = {q}
      BY <2>2, <3>3, FS_Singleton
    <3> QED BY <1>1, <2>2, <3>1, <3>4
  <2>3. CASE ~(groups[r] # None /\ Cardinality(heap[groups[r]]) = 1)
    BY <2>1, <2>3 DEF ExactGroup, Fresh
  <2> QED BY <2>2, <2>3
<1>4. CASE ~Exact(c)
  <2>1. g \in SharedGroups(r)
    BY <1>4 DEF GroupsFor
  <2>2. PICK with \in Combinations(groups[r], self.regions) :
          LET all == self.regions \cup UNION {heap[h] : h \in with}
              same == {h \in with : heap[h] = all}
          IN g \in IF all = self.regions THEN {self}
                   ELSE IF same # {} THEN {Old(h) : h \in same} ELSE {Fresh(all)}
    BY <2>1 DEF SharedGroups
  <2> HIDE DEF self
  <2>3. self.regions \subseteq g.regions
    BY <2>2 DEF Old, Fresh
  <2> QED BY <1>2, <1>4, <2>3
<1> QED BY <1>3, <1>4

\* A call at a place where it has neither a group nor an instance.
LEMMA NothingInHand ==
  ASSUME NEW c \in Calls, GotOK(c)', pc'[c] \in {"idle", "map", "domain", "mapped"}
  PROVE  CallRoom(c)'
BY DEF CallRoom, GroupOK, RecordOK, AcquireOK, SearchOK, Creating

\* Nothing is acquired.
LEMMA NothingGot ==
  ASSUME NEW c \in Calls, job'[c].got = <<>>
  PROVE  GotOK(c)'
BY DEF GotOK

\* What is recorded has room for the region, because it has for the group.
LEMMA ForTheRegion ==
  ASSUME Known, NEW c \in Calls, CallRoom(c), pc[c] \in {"record new", "record found"}
  PROVE  Fits(result[c], Req(c).region, Exact(c))
<1> DEFINE r == Req(c).region  rs == heap[group[c]]
<1>1. r \in rs /\ (Exact(c) => rs = {r})
  BY DEF CallRoom, GroupOK, Creating
<1>2. /\ BoxOf[rs] \subseteq BoxOf[extent[result[c]]]
      /\ Exact(c) => BoxOf[extent[result[c]]] = BoxOf[rs]
  BY DEF CallRoom, RecordOK
<1>3. rs \in SUBSET Regions
  <2>1. group[c] \in Addr
    BY DEF Known, IInv, CallInv, CallOK, CacheInv, CacheType, Creating
  <2> QED BY <2>1 DEF Known, IInv, CacheInv, CacheType
<1>4. Box[r] \subseteq BoxOf[rs] /\ (rs = {r} => BoxOf[rs] = Box[r])
  <2> HIDE DEF r, rs
  <2> QED BY <1>1, <1>3, RegionInBox
<1> HIDE DEF r, rs
<1>5. Fits(result[c], r, Exact(c))
  BY <1>1, <1>2, <1>4 DEF Fits
<1> QED BY <1>5 DEF r

\* The instance that the call has is the next one it has acquired.
LEMMA GotOneMore ==
  ASSUME IInv, NEW c \in Calls, Got(c), pc[c] \in WithResult, GotOK(c),
         result[c] \in live, Fits(result[c], Req(c).region, Exact(c)),
         live' = live, extent' = extent
  PROVE  CallRoom(c)'
<1> DEFINE got == job[c].got  more == Append(job[c].got, result[c])
           stores == job[c].stores  tight == job[c].tight
<1>1. got \in Seq(Insts) /\ job[c] \in Job /\ result[c] \in Insts
  BY DEF IInv, CallInv, CallOK, Job
<1>2. /\ more \in Seq(Insts) /\ Len(more) = Len(got) + 1 /\ Len(got) \in Nat
      /\ \A k \in 1..Len(got) : more[k] = got[k]
      /\ more[Len(got) + 1] = result[c]
  BY <1>1
<1>3. job' = [job EXCEPT ![c].got = more]
  BY DEF Got
<1> HIDE DEF more
<1>4. job'[c].got = more /\ job'[c].stores = stores /\ job'[c].tight = tight
  BY <1>1, <1>3 DEF IInv, CallInv, Job
<1>5. ASSUME NEW k \in DOMAIN more
      PROVE  /\ more[k] \in live
             /\ Box[stores[k].region] \subseteq BoxOf[extent[more[k]]]
             /\ stores[k].exact \/ (tight /\ stores[k].write) =>
                  BoxOf[extent[more[k]]] = Box[stores[k].region]
  <2>1. k \in 1..Len(got) \/ k = Len(got) + 1
    BY <1>2
  <2>2. CASE k \in 1..Len(got)
    <3>1. k \in DOMAIN got /\ more[k] = got[k]
      BY <1>1, <1>2, <2>2
    <3> QED BY <3>1 DEF GotOK, Fits, IsExact
  <2>3. CASE k = Len(got) + 1
    <3>1. more[k] = result[c] /\ stores[k] = Req(c)
      BY <1>2, <2>3 DEF Req
    <3> QED BY <3>1 DEF Fits, Exact
  <2> QED BY <2>1, <2>2, <2>3
<1>6. GotOK(c)'
  <2> HIDE DEF got, stores, tight
  <2> QED BY <1>4, <1>5 DEF GotOK, Fits, IsExact
<1>7. pc'[c] \in {"mapped", "map"}
  BY DEF Got, Goto, IInv, CallInv
<1> QED BY <1>6, <1>7, NothingInHand

-----------------------------------------------------------------------------
(* Every action keeps the room *)

\* What the actions of a call have in common.
LEMMA Alone ==
  ASSUME IInv, NEW c \in Calls, Begin(c) \/ Step(c)
  PROVE  \A d \in Calls : d # c => /\ pc'[d] = pc[d] /\ job'[d] = job[d]
                                   /\ result'[d] = result[d] /\ group'[d] = group[d]
<1> SUFFICES ASSUME NEW d \in Calls, d # c
             PROVE  /\ pc'[d] = pc[d] /\ job'[d] = job[d]
                    /\ result'[d] = result[d] /\ group'[d] = group[d]
  OBVIOUS
<1> USE DEF IInv, CallInv, CacheInv, CacheType, Goto
<1>1. CASE Map(c) \/ MapAgain(c) \/ SearchAll(c) \/ SearchLost(c)
  <2>1. job' = job
    BY <1>1, Looking
  <2>2. \/ \E a \in Addr : Hit(c, a)
        \/ \E place \in {"domain", "search", "search again"} : Miss(c, place)
        \/ FindGroup(c)
        \/ UNCHANGED <<cacheVars, pc, result>>
    BY <1>1, Looking DEF HitOf
  <2> QED BY <2>1, <2>2 DEF Hit, Miss, FindGroup, cacheVars
<1>2. CASE Begin(c) \/ Finish(c)
  BY <1>2 DEF Begin, Finish, cacheVars
<1>3. CASE RuntimeFinds(c)
  BY <1>3 DEF RuntimeFinds, cacheVars
<1>4. CASE RuntimeCreates(c)
  BY <1>4 DEF RuntimeCreates, cacheVars
<1>5. CASE Record(c)
  BY <1>5 DEF Record, RecordInstance, Got
<1>6. CASE RecordThrows(c)
  BY <1>6 DEF RecordThrows, cacheVars, callVars
<1>7. CASE NoMemory(c)
  BY <1>7 DEF NoMemory
<1>8. CASE Acquire(c)
  BY <1>8 DEF Acquire, Got, cacheVars
<1>9. CASE AcquireFails(c)
  BY <1>9 DEF AcquireFails, Erase
<1> QED BY <1>1, <1>2, <1>3, <1>4, <1>5, <1>6, <1>7, <1>8, <1>9 DEF Step

\* A hit: what the entry promises, the call gets.
LEMMA HitRoom ==
  ASSUME Known, RoomInv, NEW c \in Calls, NEW a \in Addr, HitOf(c, a), pc[c] \in Looks,
         UNCHANGED <<job, live, extent>>
  PROVE  CallRoom(c)'
<1> DEFINE r == Req(c).region  i == instances[a].inst
<1>1. CallRoom(c) /\ EntryOK(a)
  BY DEF RoomInv
<1>2. /\ result'[c] = i /\ pc'[c] = "acquire"
      /\ Cached(a) /\ (Exact(c) => instances[a].exact)
  BY DEF HitOf, Hit, Valid, Goto, Known, IInv, CallInv
<1>3. heap[a] \in SUBSET Regions
  BY DEF Known, IInv, CacheInv, CacheType
<1>4. r \in heap[a] => Box[r] \subseteq BoxOf[heap[a]] /\ (heap[a] = {r} => BoxOf[heap[a]] = Box[r])
  <2> HIDE DEF r
  <2> QED BY <1>3, RegionInBox
<1>5. Box[r] \subseteq BoxOf[heap[a]]
  BY <1>4 DEF HitOf
<1>6. Exact(c) => r \in heap[a]
  BY <1>1 DEF HitOf, CallRoom, SearchOK
<1>7. i \in live => Fits(i, r, Exact(c))
  <2>1. SUFFICES ASSUME i \in live PROVE Fits(i, r, Exact(c))
    OBVIOUS
  <2>2. /\ BoxOf[heap[a]] \subseteq BoxOf[extent[i]]
        /\ instances[a].exact => /\ BoxOf[extent[i]] = BoxOf[heap[a]]
                                 /\ \E q \in Regions : heap[a] = {q}
    BY <1>1, <1>2, <2>1 DEF EntryOK
  <2>3. Exact(c) => heap[a] = {r}
    BY <1>2, <1>6, <2>2
  <2> HIDE DEF r, i
  <2> QED BY <1>2, <1>4, <1>5, <1>6, <2>2, <2>3 DEF Fits
<1>8. Req(c)' = Req(c) /\ (Exact(c)' <=> Exact(c))
  BY DEF Req, Exact
<1>9. AcquireOK(c)'
  BY <1>2, <1>7, <1>8 DEF AcquireOK, Fits
<1>10. GotOK(c)'
  BY <1>1 DEF CallRoom, GotOK, Fits, IsExact
<1> QED BY <1>2, <1>9, <1>10 DEF CallRoom, GroupOK, RecordOK, SearchOK, Creating

\* The call asks for an instance for the group it has found.
LEMMA FindRoom ==
  ASSUME Known, RoomInv, NEW c \in Calls, FindGroup(c), pc[c] \in Looks,
         UNCHANGED <<job, live, extent>>
  PROVE  CallRoom(c)'
<1> USE DEF Known
<1>1. Req(c).region \in Regions /\ group[c] = None
  BY Requested DEF IInv, CallInv, CallOK, Looks, Creating, Request
<1>2. PICK g \in GroupsFor(c) : /\ group' = [group EXCEPT ![c] = g.at]
                                /\ heap' = [heap EXCEPT ![g.at] = g.regions]
                                /\ Goto(c, "create")
  BY DEF FindGroup
<1>3. g.at \in Addr
  BY <1>1, <1>2, GroupFound DEF IInv
<1>4. group'[c] = g.at /\ pc'[c] = "create" /\ heap'[g.at] = g.regions
  BY <1>2, <1>3 DEF IInv, CacheInv, CacheType, Goto, CallInv
<1>5. Req(c).region \in g.regions /\ (Exact(c) => g.regions = {Req(c).region})
  BY <1>1, RegionInGroup DEF IInv
<1>6. Req(c)' = Req(c) /\ (Exact(c)' <=> Exact(c))
  BY DEF Req, Exact
<1>7. GroupOK(c)'
  BY <1>4, <1>5, <1>6 DEF GroupOK
<1>8. GotOK(c)'
  BY DEF RoomInv, CallRoom, GotOK, Fits, IsExact
<1> QED BY <1>4, <1>7, <1>8 DEF CallRoom, RecordOK, AcquireOK, SearchOK

\* Looking for an instance.
LEMMA LookRoom ==
  ASSUME Known, Quiet, RoomInv, NEW c \in Calls,
         Map(c) \/ MapAgain(c) \/ SearchAll(c) \/ SearchLost(c)
  PROVE  CallRoom(c)' /\ instances' = instances
<1>1. /\ pc[c] \in Looks /\ UNCHANGED <<job, live, extent>>
      /\ \/ \E a \in Addr : HitOf(c, a)
         \/ Miss(c, "domain")
         \/ \E place \in {"search", "search again"} : Miss(c, place) /\ ~Exact(c)
         \/ FindGroup(c)
         \/ UNCHANGED <<cacheVars, pc, result>>
  BY Looking DEF Known
<1>2. CallRoom(c)
  BY DEF RoomInv
<1>3. GotOK(c)'
  BY <1>1, <1>2 DEF CallRoom, GotOK, Fits, IsExact
<1>4. CASE \E a \in Addr : HitOf(c, a)
  BY <1>1, <1>4, HitRoom DEF HitOf, Hit, cacheVars
<1>5. CASE Miss(c, "domain")
  <2>1. pc'[c] = "domain" /\ instances' = instances
    BY <1>5 DEF Miss, Goto, cacheVars, Known, IInv, CallInv
  <2> QED BY <1>3, <2>1, NothingInHand
<1>6. CASE \E place \in {"search", "search again"} : Miss(c, place) /\ ~Exact(c)
  <2>1. pc'[c] \in {"search", "search again"} /\ instances' = instances /\ ~Exact(c)
    BY <1>6 DEF Miss, Goto, cacheVars, Known, IInv, CallInv
  <2>2. Exact(c)' <=> Exact(c)
    BY <1>1 DEF Req, Exact
  <2> QED BY <1>3, <2>1, <2>2 DEF CallRoom, GroupOK, RecordOK, AcquireOK, SearchOK, Creating
<1>7. CASE FindGroup(c)
  BY <1>1, <1>7, FindRoom DEF FindGroup
<1>8. CASE UNCHANGED <<cacheVars, pc, result>>
  <2>1. /\ Req(c)' = Req(c) /\ (Exact(c)' <=> Exact(c)) /\ pc'[c] = pc[c]
        /\ instances' = instances
    BY <1>1, <1>8 DEF Req, Exact, cacheVars
  <2> QED BY <1>1, <1>2, <1>3, <2>1
          DEF CallRoom, GroupOK, RecordOK, AcquireOK, SearchOK, Looks, Creating
<1> QED BY <1>1, <1>4, <1>5, <1>6, <1>7, <1>8

\* What the runtime finds or creates has room for the group.
LEMMA RuntimeRoom ==
  ASSUME Known, Known', Quiet, RoomInv, NEW c \in Calls, RuntimeFinds(c) \/ RuntimeCreates(c)
  PROVE  CallRoom(c)' /\ instances' = instances
<1> USE DEF Known, IInv, CallInv
<1> DEFINE rs == heap[group[c]]
<1>1. CallRoom(c) /\ pc[c] = "create" /\ job' = job /\ instances' = instances
      /\ group' = group /\ heap' = heap
  BY DEF RoomInv, RuntimeFinds, RuntimeCreates, At, cacheVars
<1>2. GotOK(c)'
  BY <1>1, GotSame DEF CallRoom
<1>3. Req(c)' = Req(c) /\ (Exact(c)' <=> Exact(c))
  BY <1>1 DEF Req, Exact
<1>4. pc'[c] \in {"record new", "record found"}
  BY DEF RuntimeFinds, RuntimeCreates, Goto
<1>5. GroupOK(c)'
  BY <1>1, <1>3, <1>4 DEF CallRoom, GroupOK, Creating
<1>6. /\ BoxOf[rs] \subseteq BoxOf[extent'[result'[c]]]
      /\ Exact(c) => BoxOf[extent'[result'[c]]] = BoxOf[rs]
  <2>1. CASE RuntimeFinds(c)
    <3>1. PICK i \in live :
            /\ IF Exact(c) THEN BoxOf[extent[i]] = BoxOf[rs] ELSE BoxOf[rs] \subseteq BoxOf[extent[i]]
            /\ result' = [result EXCEPT ![c] = i]
      BY <2>1 DEF RuntimeFinds
    <3>2. extent' = extent /\ result'[c] = i
      BY <2>1, <3>1 DEF RuntimeFinds, runtimeVars
    <3> HIDE DEF rs
    <3> QED BY <3>1, <3>2
  <2>2. CASE RuntimeCreates(c)
    <3> DEFINE i == CHOOSE i \in Insts : Unused(i)
    <3>1. /\ \E j \in Insts : Unused(j)
          /\ extent' = [extent EXCEPT ![i] = rs] /\ result' = [result EXCEPT ![c] = i]
      BY <2>2 DEF RuntimeCreates
    <3>2. i \in Insts
      BY <3>1
    <3> HIDE DEF i, rs
    <3>3. extent'[i] = rs /\ result'[c] = i
      BY <3>1, <3>2 DEF RuntimeType
    <3> QED BY <3>3
  <2> QED BY <2>1, <2>2
<1>7. RecordOK(c)'
  BY <1>1, <1>3, <1>6 DEF RecordOK
<1> QED BY <1>1, <1>2, <1>4, <1>5, <1>7 DEF CallRoom, AcquireOK, SearchOK

\* The entry of a recorded instance.
LEMMA RecordedEntry ==
  ASSUME Known, Known', Quiet, NEW c \in Calls, CallRoom(c), RecordInstance(c),
         pc[c] \in {"record new", "record found"}, UNCHANGED <<live, extent>>,
         result[c] \in Insts, NEW a \in Addr, a = group[c], Req(c).region \in Regions
  PROVE  EntryOK(a)'
<1>1. instances'[a].inst = result[c]
  BY DEF RecordInstance
<1>2. instances'[a].exact <=> Exact(c)
  BY DEF RecordInstance
<1>3. Cached(a)' /\ c \in Creators(a)
  BY <1>1, InstanceAssumption DEF Cached, Creators
<1>4. heap'[a] = heap[a]
  BY <1>3, GroupSame DEF Known
<1>5. /\ BoxOf[heap[a]] \subseteq BoxOf[extent[result[c]]]
      /\ Exact(c) => /\ BoxOf[extent[result[c]]] = BoxOf[heap[a]]
                     /\ heap[a] = {Req(c).region}
  BY DEF CallRoom, RecordOK, GroupOK, Creating
<1> QED BY <1>1, <1>2, <1>4, <1>5 DEF EntryOK

\* The entry that is recorded promises no more than the instance is, and the
\* call goes on with an instance for its region.
LEMMA RecordRoom ==
  ASSUME Known, Known', Quiet, RoomInv, NEW c \in Calls, Record(c)
  PROVE  CallRoom(c)' /\ (\A b \in Addr : EntryOK(b)')
<1> DEFINE a == group[c]  i == result[c]  r == Req(c).region
<1>1. /\ pc[c] \in {"record new", "record found"} /\ RecordInstance(c)
      /\ live' = live /\ extent' = extent
      /\ Got(c) \/ (Goto(c, "acquire found") /\ UNCHANGED <<job, result>>)
  BY DEF Record, At, runtimeVars
<1>2. CallRoom(c)
  BY DEF RoomInv
<1>3. a \in Addr /\ i \in Insts /\ i \in live /\ r \in Regions
  <2>1. a # None /\ i # None /\ i \in live
    BY <1>1 DEF Known, IInv, CallInv, CallOK, DeadInv, HeldLive, Holding, Creating, WithResult
  <2>2. Req(c) \in Request
    BY <1>1, Requested DEF Known, IInv
  <2> QED BY <2>1, <2>2 DEF Known, IInv, CacheInv, CacheType, CallInv, Request
<1>4. Fits(i, r, Exact(c))
  BY <1>1, <1>2, ForTheRegion
<1>5. CallRoom(c)'
  <2>1. CASE Got(c)
    BY <1>1, <1>2, <1>3, <1>4, <2>1, GotOneMore DEF Known, CallRoom, WithResult
  <2>2. CASE Goto(c, "acquire found") /\ UNCHANGED <<job, result>>
    <3>1. pc'[c] = "acquire found" /\ Req(c)' = Req(c) /\ (Exact(c)' <=> Exact(c))
      BY <2>2 DEF Goto, Req, Exact, Known, IInv, CallInv
    <3>2. AcquireOK(c)'
      BY <1>1, <1>4, <2>2, <3>1 DEF AcquireOK, Fits
    <3>3. GotOK(c)'
      BY <1>2, <2>2, GotSame DEF CallRoom, Known
    <3> QED BY <3>1, <3>2, <3>3 DEF CallRoom, GroupOK, RecordOK, SearchOK, Creating
  <2> QED BY <1>1, <2>1, <2>2
<1>6. ASSUME NEW b \in Addr, b # group[c] PROVE EntryOK(b)'
  <2>1. instances'[b] \in {instances[b], NoSpec}
    BY <1>1, <1>6 DEF RecordInstance
  <2> QED BY <2>1, EntryStays DEF RoomInv
<1>7. ASSUME NEW b \in Addr, b = group[c] PROVE EntryOK(b)'
  BY <1>1, <1>2, <1>3, <1>7, RecordedEntry
<1> QED BY <1>5, <1>6, <1>7

\* Beginning, finishing, failing and acquiring.
LEMMA OtherRoom ==
  ASSUME Known, Known', Quiet, RoomInv, NEW c \in Calls,
         Begin(c) \/ Finish(c) \/ RecordThrows(c) \/ NoMemory(c) \/ Acquire(c) \/ AcquireFails(c)
  PROVE  CallRoom(c)' /\ (\A a \in Addr : instances'[a] \in {instances[a], NoSpec})
<1> USE DEF Known, IInv, CallInv
<1>1. CallRoom(c)
  BY DEF RoomInv
<1>2. CASE Begin(c) \/ Finish(c)
  <2>1. pc'[c] \in {"map", "idle"} /\ instances' = instances
    BY <1>2 DEF Begin, Finish, Goto, cacheVars
  <2>2. job'[c].got = <<>>
    BY <1>2 DEF Begin, Finish, NoJob
  <2> QED BY <2>1, <2>2, NothingGot, NothingInHand
<1>3. CASE RecordThrows(c)
  BY <1>1, <1>3, OtherCall DEF RecordThrows, cacheVars, callVars
<1>4. CASE NoMemory(c)
  <2>1. pc'[c] = "map" /\ instances' = instances
    BY <1>4 DEF NoMemory, Goto
  <2>2. GotOK(c)'
    <3>1. CASE job' = job
      BY <1>1, <3>1, GotSame DEF CallRoom
    <3>2. CASE job' = [job EXCEPT ![c] = [stores |-> @.stores, got |-> <<>>, tight |-> TRUE]]
      BY <3>2, NothingGot
    <3> QED BY <1>4, <3>1, <3>2 DEF NoMemory
  <2> QED BY <2>1, <2>2, NothingInHand
<1>5. CASE Acquire(c)
  <2>1. /\ pc[c] \in {"acquire", "acquire found"} /\ result[c] \in live /\ Got(c)
        /\ instances' = instances /\ live' = live /\ extent' = extent
    BY <1>5 DEF Acquire, At, cacheVars, runtimeVars
  <2>2. Fits(result[c], Req(c).region, Exact(c))
    BY <1>1, <2>1 DEF CallRoom, AcquireOK
  <2> QED BY <1>1, <2>1, <2>2, GotOneMore DEF CallRoom, WithResult
<1>6. CASE AcquireFails(c)
  <2>1. /\ pc'[c] = "map" /\ job' = job
        /\ \A a \in Addr : instances'[a] \in {instances[a], NoSpec}
    BY <1>6 DEF AcquireFails, Erase, Goto
  <2> QED BY <1>1, <2>1, GotSame, NothingInHand DEF CallRoom
<1> QED BY <1>2, <1>3, <1>4, <1>5, <1>6

\* The runtime and its notices leave the calls alone.
LEMMA NoticeRoom ==
  ASSUME Known, Known', Quiet, RoomInv, NEW i \in Insts, Collect(i) \/ Handle(i)
  PROVE  RoomInv'
<1>1. /\ \A a \in Addr : instances'[a] \in {instances[a], NoSpec}
      /\ UNCHANGED <<pc, job, result, group>>
  BY DEF Collect, Handle, Erase, cacheVars, callVars
<1>2. \A c \in Calls : CallRoom(c)'
  BY <1>1, OtherCall DEF RoomInv
<1> QED BY <1>1, <1>2, EntriesStay DEF RoomInv

\* Every step keeps the room.
LEMMA RoomStep == Known /\ Known' /\ RoomInv /\ [Next]_vars => RoomInv'
<1> SUFFICES ASSUME Known, Known', RoomInv, [Next]_vars PROVE RoomInv'
  OBVIOUS
<1>1. Quiet
  BY AlwaysQuiet DEF Known
<1>2. ASSUME NEW c \in Calls, Begin(c) \/ Step(c) PROVE RoomInv'
  <2>1. CASE Record(c)
    <3>1. CallRoom(c)' /\ (\A a \in Addr : EntryOK(a)')
      BY <1>1, <2>1, RecordRoom
    <3> QED BY <1>1, <1>2, <3>1, Alone, OneRoom DEF Known
  <2>2. CASE ~Record(c)
    <3>1. CallRoom(c)' /\ (\A a \in Addr : instances'[a] \in {instances[a], NoSpec})
      BY <1>1, <1>2, <2>2, LookRoom, RuntimeRoom, OtherRoom DEF Step
    <3>2. \A a \in Addr : EntryOK(a)'
      BY <1>1, <3>1, EntriesStay
    <3> QED BY <1>1, <1>2, <3>1, <3>2, Alone, OneRoom DEF Known
  <2> QED BY <2>1, <2>2
<1>3. ASSUME NEW i \in Insts, Collect(i) \/ Handle(i) PROVE RoomInv'
  BY <1>1, <1>3, NoticeRoom
<1>4. CASE UNCHANGED vars
  <2>1. /\ UNCHANGED <<pc, job, result, group>>
        /\ \A a \in Addr : instances'[a] \in {instances[a], NoSpec}
    BY <1>4 DEF vars, cacheVars, callVars
  <2>2. \A c \in Calls : CallRoom(c)'
    BY <1>1, <2>1, OtherCall DEF RoomInv
  <2> QED BY <1>1, <2>1, <2>2, EntriesStay DEF RoomInv
<1> QED BY <1>2, <1>3, <1>4 DEF Next

\* Whatever find_instance, find_or_create_region_group, record_instance and
\* erase do to the groups, and however mapper calls and collections
\* interleave, every instance that an operation is mapped to exists and has
\* room for the region of its store, and no more than that if the policy of
\* the store, or its tightening after a failure, is exact.
THEOREM RoomForEveryStore == Spec => []RoomForAll
<1>1. Init => DeadInv
  BY DEF Init, DeadInv, DeadAreForgotten, HeldLive, Cached, NoSpec, Holding
<1>2. Init => RoomInv
  BY DEF Init, RoomInv, EntryOK, CallRoom, GotOK, GroupOK, RecordOK, AcquireOK, SearchOK,
     Cached, NoSpec, NoJob, Creating
<1>3. RoomInv => RoomForAll
  BY DEF RoomInv, CallRoom, GotOK, Fits, IsExact, RoomForAll
<1>4. Known <=> IInv /\ DeadInv
  BY DEF Known
<1> QED BY <1>1, <1>2, <1>3, <1>4, DeadStep, RoomStep, Invariant, PTL DEF Spec
=============================================================================
