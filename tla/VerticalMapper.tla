--------------------------- MODULE VerticalMapper ---------------------------
(***************************************************************************)
(* How the mapper of a node schedules streaming tasks: of the point tasks   *)
(* that are ready on a processor it selects those of one column, the points *)
(* with one index, until the whole generation is mapped there.              *)
(*                                                                          *)
(* Legion is the environment: it makes a point ready when what it depends   *)
(* on is mapped, asks select_tasks_to_map for each processor that has ready *)
(* points, again after a deferral event or when another point gets ready,   *)
(* and maps what was selected.  The handler is one action: the mapper is    *)
(* serialised and it gives way nowhere.                                     *)
(***************************************************************************)
EXTENDS Naturals, FiniteSets, Sequences, SequencesExt

CONSTANTS
  Procs,     \* the processors of the node
  Cols,      \* index points of every index launch that the node maps
  Place,     \* Place[t][c]: the processor of point c of a launch with target t
  Programs   \* sequences of launches

ASSUME PlaceAssumption ==
  /\ IsFiniteSet(Cols)
  /\ \A t \in DOMAIN Place : Place[t] \in [Cols -> Procs]

\* The index launches of a generation
RowsOf(s, g) == {i \in DOMAIN s : s[i].form = "index" /\ s[i].gen = g}

\* What a flush of the window launches (FencedGenerations and GenerationComplete of StreamingWindow):
\* generations follow each other with a fence in between, and have as many index launches as they say.
ASSUME ProgramsAssumption == \A s \in Programs :
  /\ s \in Seq(Range(s))
  /\ \A i \in DOMAIN s : s[i].gen \in Nat /\ s[i].size \in Nat /\ s[i].target \in DOMAIN Place
  /\ \A i, j \in DOMAIN s : i < j /\ s[i].gen # s[j].gen /\ s[i].gen # 0 /\ s[j].gen # 0
       => s[i].gen < s[j].gen /\ \E k \in i..j : s[k].form = "fence"
  /\ \A i \in DOMAIN s : s[i].form = "index" /\ s[i].gen # 0
       => Cardinality(RowsOf(s, s[i].gen)) = s[i].size

VARIABLES
  stream,    \* launches so far
  column,    \* proc_streaming_info: the column each processor is mapping
  info,      \* col_streaming_info_ of each column
  selected,  \* point tasks selected for mapping
  mapped,    \* point tasks that are mapped
  deferred,  \* what each processor had ready when no task was selected, {} if
             \* its deferral event has been triggered
  failed     \* the check of select_column failed

mapperVars == <<column, info, selected, mapped, deferred, failed>>
vars == <<stream, mapperVars>>

NoCol == 0
ASSUME ColsAssumption == Cols \subseteq Nat \ {NoCol}

-----------------------------------------------------------------------------
(* Legion *)

IsTaskForm(e) == e.form \in {"index", "single"}

\* Point tasks: index of the launch and column, if it is an index launch.
Points(i) == IF stream[i].form = "index" THEN {<<i, c>> : c \in Cols}
             ELSE {<<i, NoCol>>}

Proc(t) == LET place == Place[stream[t[1]].target]
           IN IF t[2] = NoCol THEN place[CHOOSE c \in Cols : TRUE] ELSE place[t[2]]

Conflict(x, y) == /\ x.field = y.field
                  /\ ~(x.mode = "READ" /\ y.mode = "READ")
                  /\ ~(x.mode = "REDUCE" /\ y.mode = "REDUCE")

\* Points of launch j that point t of a later launch must be mapped after.
DependsOn(t, j) ==
  LET e == stream[t[1]]
      f == stream[j]
      conflicts == {xy \in f.access \X e.access : Conflict(xy[1], xy[2])}
  IN IF e.form = "fence" \/ f.form = "fence" THEN Points(j)
     ELSE IF conflicts = {} THEN {}
     ELSE IF /\ e.form = "index" /\ f.form = "index"
             /\ \A xy \in conflicts : xy[1].part = xy[2].part
     THEN {<<j, t[2]>>}
     ELSE Points(j)

IsReady(t) == \A j \in 1..(t[1] - 1) : DependsOn(t, j) \subseteq mapped

ReadyAt(p) == {t \in UNION {Points(i) : i \in DOMAIN stream} :
                 /\ IsTaskForm(stream[t[1]]) /\ Proc(t) = p
                 /\ t \notin selected /\ IsReady(t)}

-----------------------------------------------------------------------------
(* select_tasks_to_map *)

\* Mutant: only the processor of the last task forgets the column.
FreedLast(h, p, c) == [h.column EXCEPT ![p] = NoCol]

\* What the processors map when all rows of column c are mapped.
Freed(h, p, c) == [q \in Procs |-> IF q \in h.info[c].procs \cup {p} THEN NoCol
                                   ELSE h.column[q]]

\* Mutant: the rows of a column are not counted from zero again.
RowsKept(h, c) == h.info[c].rows + 1

RowsDone(h, c) == 0

\* update_streaming_info
Count(h, t, p) ==
  LET c == t[2]
      rows == h.info[c].rows + 1
  IN IF rows = stream[t[1]].size
     THEN [h EXCEPT !.info[c].rows = RowsDone(h, c), !.info[c].procs = {},
                    !.column = Freed(h, p, c)]
     ELSE [h EXCEPT !.info[c].rows = rows, !.info[c].procs = @ \cup {p}]

\* select_column
SelectColumn(h, t, p) ==
  LET c == t[2]
      new == h.info[c].gen # stream[t[1]].gen
  IN [h EXCEPT !.failed = @ \/ (new /\ h.info[c].rows # 0),
               !.info[c].gen = stream[t[1]].gen,
               !.column[p] = c]

Take(h, t) == [h EXCEPT !.take = @ \cup {t}]

\* Mutant: a ready point of another column is taken as well.
MatchesAny(h, t, p) == TRUE

\* task_matches_processing_column
Matches(h, t, p) == h.column[p] = t[2]

\* Single tasks and tasks that do not stream are always taken.
AtOnce(t) == t[2] = NoCol \/ stream[t[1]].gen = 0

\* One of the ready tasks that stream.
Consider(h, t, p) ==
  IF h.column[p] = NoCol THEN Count(SelectColumn(Take(h, t), t, p), t, p)
  ELSE IF Matches(h, t, p) THEN Count(Take(h, t), t, p)
  ELSE h

\* One more of the ready tasks in every way that the loop got so far
ConsiderNext(loops, p) ==
  UNION {{[h |-> Consider(l.h, t, p), todo |-> l.todo \ {t}] : t \in l.todo} : l \in loops}

\* What the handler may do to the tasks of `ready`, which come in any order.
Outcomes(ready, p) ==
  LET rest == {t \in ready : ~AtOnce(t)}
      h == [column |-> column, info |-> info, failed |-> FALSE, take |-> ready \ rest]
      loops[n \in 0..Cardinality(rest)] ==
        IF n = 0 THEN {[h |-> h, todo |-> rest]} ELSE ConsiderNext(loops[n - 1], p)
  IN {l.h : l \in loops[Cardinality(rest)]}

Select(p) ==
  LET ready == ReadyAt(p) IN
  /\ ~failed /\ ready # {}
  /\ deferred[p] = {} \/ ~(ready \subseteq deferred[p])
  /\ \E h \in Outcomes(ready, p) :
       /\ column' = h.column /\ info' = h.info /\ failed' = h.failed
       /\ selected' = selected \cup h.take
       /\ deferred' = [deferred EXCEPT ![p] = IF h.take = {} THEN ready ELSE {}]
  /\ UNCHANGED <<stream, mapped>>

\* Mutant: mapping a task triggers the event of its own processor.
TriggeredOwn(t) == [deferred EXCEPT ![Proc(t)] = {}]

\* map_task triggers every deferral event.
Triggered(t) == [p \in Procs |-> {}]

MapTask ==
  \E t \in selected \ mapped :
    /\ mapped' = mapped \cup {t}
    /\ deferred' = Triggered(t)
    /\ UNCHANGED <<stream, column, info, selected, failed>>

\* What is not a task: copies, fills, fences and discards.
MapOther ==
  \E i \in DOMAIN stream : \E t \in Points(i) :
    /\ ~IsTaskForm(stream[i]) /\ t \notin mapped /\ IsReady(t)
    /\ mapped' = mapped \cup {t}
    /\ UNCHANGED <<stream, column, info, selected, deferred, failed>>

-----------------------------------------------------------------------------
(* The specification *)

\* The program launches another operation of one of the sequences.
Launch ==
  /\ \E s \in Programs : /\ Len(s) > Len(stream)
                         /\ SubSeq(s, 1, Len(stream)) = stream
                         /\ stream' = SubSeq(s, 1, Len(stream) + 1)
  /\ UNCHANGED mapperVars

InitMapper ==
  /\ column = [p \in Procs |-> NoCol]
  /\ info = [c \in Cols |-> [gen |-> 0, rows |-> 0, procs |-> {}]]
  /\ selected = {} /\ mapped = {}
  /\ deferred = [p \in Procs |-> {}]
  /\ failed = FALSE

Init == stream = <<>> /\ InitMapper

MapperNext == (\E p \in Procs : Select(p)) \/ MapTask \/ MapOther

Next == Launch \/ MapperNext

\* Legion asks every processor with ready tasks and maps what was selected.
MapperFairness ==
  (\A p \in Procs : WF_vars(Select(p))) /\ WF_vars(MapTask) /\ WF_vars(MapOther)

Spec == Init /\ [][Next]_vars

FairSpec == Spec /\ WF_vars(Launch) /\ MapperFairness

-----------------------------------------------------------------------------
(* Properties *)

AllPoints == UNION {Points(i) : i \in DOMAIN stream}

\* A column counts rows exactly while it is mapped on some processor
\* (StreamingInfo).
TypeOK ==
  /\ column \in [Procs -> Cols \cup {NoCol}]
  /\ \A c \in Cols : /\ info[c].rows \in Nat /\ info[c].procs \subseteq Procs
                     /\ info[c].rows = 0 <=> info[c].procs = {}
  /\ mapped \subseteq AllPoints /\ selected \subseteq AllPoints
  /\ \A p \in Procs : deferred[p] \subseteq AllPoints
  /\ failed \in BOOLEAN

\* A generation is mapped completely before the mapper sees the next one
\* (LEGATE_CHECK in select_column).
NoGenerationLeftBehind == ~failed

Rows(g, c) == {i \in RowsOf(stream, g) : <<i, c>> \in selected}

\* Column c of generation g is begun and not finished.
Open(g, c) == LET rows == Rows(g, c) IN
  rows # {} /\ \A i \in rows : Cardinality(rows) < stream[i].size

Generations == {stream[i].gen : i \in DOMAIN stream} \ {0}

\* A processor works on one column at a time, the one that it says: it is free
\* for another one as soon as that is finished, and not before
\* (configurations 1 to 3 of StreamingInfo).
BusyWithOpenColumn ==
  \A p \in Procs :
    {c \in Cols : \E g \in Generations :
        Open(g, c) /\ \E i \in Rows(g, c) : Proc(<<i, c>>) = p}
      = {column[p]} \ {NoCol}

\* Everything is mapped, or Legion has a task to map or a processor to ask.
Moving ==
  \/ AllPoints \subseteq mapped \/ failed
  \/ selected \ mapped # {}
  \/ (\E p \in Procs : ~(ReadyAt(p) \subseteq deferred[p]))
  \/ \E t \in AllPoints \ mapped : ~IsTaskForm(stream[t[1]]) /\ IsReady(t)

\* While points of complete generations wait, somebody has something to do
\* (map_task triggers the deferral events).
NoStandstill == (stream # <<>> /\ Last(stream).form = "fence") => Moving

\* Every launch is mapped, on all of its points.
EverythingMapped == <>[](AllPoints \subseteq mapped)
=============================================================================
