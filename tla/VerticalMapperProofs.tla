----------------------- MODULE VerticalMapperProofs -----------------------
(***************************************************************************)
(* The mapper finishes a generation before it sees the next one, and every  *)
(* processor is busy with the one column that it has begun, for any         *)
(* processors and columns and any program that launches what the window     *)
(* promises.                                                                *)
(*                                                                          *)
(* The argument: a point of a generation is ready only when the fence       *)
(* before it is mapped, and the fence only when all points of all earlier   *)
(* generations are.  So the rows of the generation before are all selected  *)
(* in every column, hence counted, and the count has reached its size.      *)
(***************************************************************************)
EXTENDS VerticalMapper, FiniteSetTheorems, WellFoundedInduction, TLAPS

ColInfo == [gen : Nat, rows : Nat, procs : SUBSET Procs]

TaskPoints == {t \in AllPoints : IsTaskForm(stream[t[1]])}

\* The stream is the beginning of a program.
Prefix ==
  /\ stream = [i \in 1..Len(stream) |-> stream[i]] /\ Len(stream) \in Nat
  /\ \/ stream = <<>>
     \/ \E s \in Programs : /\ Len(stream) <= Len(s)
                            /\ \A i \in 1..Len(stream) : stream[i] = s[i]

\* What that says of it, which is all that the mapper needs.
StreamOK ==
  /\ \A i \in DOMAIN stream : /\ stream[i].gen \in Nat /\ stream[i].size \in Nat
                              /\ stream[i].target \in DOMAIN Place
  /\ \A i, j \in DOMAIN stream :
       i < j /\ stream[i].gen # stream[j].gen /\ stream[i].gen # 0 /\ stream[j].gen # 0
         => stream[i].gen < stream[j].gen /\ \E k \in i..j : stream[k].form = "fence"
  /\ \A g \in Nat \ {0} : \A i \in RowsOf(stream, g) :
       /\ IsFiniteSet(RowsOf(stream, g)) /\ Cardinality(RowsOf(stream, g)) <= stream[i].size
       /\ \A j \in RowsOf(stream, g) : stream[j].size = stream[i].size
       /\ (\E h \in Nat : g < h /\ RowsOf(stream, h) # {})
            => Cardinality(RowsOf(stream, g)) = stream[i].size

\* The rows of generation g in column c that are in sel
Begun(sel, g, c) == {i \in RowsOf(stream, g) : <<i, c>> \in sel}

\* Column c counts the rows of the last generation that came to it, and who mapped them, until that is
\* complete.
ColumnOK(inf, sel, c) ==
  LET g == inf[c].gen
      rows == Begun(sel, g, c)
  IN /\ \A h \in Nat \ {0} : Begun(sel, h, c) # {} => h <= g
     /\ g = 0 => inf[c].rows = 0 /\ inf[c].procs = {}
     /\ g # 0 => /\ rows # {}
                 /\ \A i \in rows :
                      IF Cardinality(rows) = stream[i].size
                        THEN inf[c].rows = 0 /\ inf[c].procs = {}
                        ELSE /\ inf[c].rows = Cardinality(rows)
                             /\ inf[c].procs = {Proc(<<k, c>>) : k \in rows}

\* A processor maps the column that it takes part in.
TakesPart(col, inf) ==
  /\ \A q \in Procs : col[q] # NoCol => q \in inf[col[q]].procs
  /\ \A q \in Procs : \A c \in Cols : q \in inf[c].procs => col[q] = c

ColumnsOK(col, inf, sel) == (\A c \in Cols : ColumnOK(inf, sel, c)) /\ TakesPart(col, inf)

\* Legion's part: what is selected or mapped was ready.
LegionOK ==
  /\ mapped \subseteq AllPoints /\ selected \subseteq TaskPoints
  /\ \A q \in Procs : deferred[q] \subseteq AllPoints
  /\ deferred = [q \in Procs |-> deferred[q]]
  /\ \A t \in selected \cup mapped : IsReady(t)
  /\ mapped \cap TaskPoints \subseteq selected

IInv ==
  /\ Prefix
  /\ column \in [Procs -> Cols \cup {NoCol}] /\ info \in [Cols -> ColInfo]
  /\ LegionOK
  /\ ColumnsOK(column, info, selected)
  /\ failed = FALSE

-----------------------------------------------------------------------------
(* The stream *)

\* The points of a launch
LEMMA PointFacts ==
  ASSUME NEW i
  PROVE  /\ \A t \in Points(i) : t[1] = i
         /\ stream[i].form = "index" => \A c \in Cols : <<i, c>> \in Points(i)
         /\ stream[i].form = "fence" => Points(i) = {<<i, NoCol>>}
         /\ \A t \in Points(i) : t = <<i, t[2]>> /\ t[2] \in Cols \cup {NoCol}
         /\ \A t \in Points(i) : t[2] # NoCol => stream[i].form = "index" /\ t[2] \in Cols
         /\ \A t \in Points(i) : stream[i].form = "index" => t[2] \in Cols
BY DEF Points

\* A column is not NoCol.
LEMMA ColFacts == NoCol \notin Cols /\ Cols \subseteq Nat
BY ColsAssumption

\* The beginning of a program has what its mapper needs.
LEMMA PrefixOK == Prefix => StreamOK
PROOF
<1> SUFFICES ASSUME Prefix PROVE StreamOK
  OBVIOUS
<1>1. DOMAIN stream = 1..Len(stream) /\ Len(stream) \in Nat
  BY DEF Prefix
<1>2. CASE stream = <<>>
  <2>1. DOMAIN stream = {}
    BY <1>2
  <2>2. \A g : RowsOf(stream, g) = {}
    BY <2>1 DEF RowsOf
  <2> QED BY <2>1, <2>2 DEF StreamOK
<1>3. CASE stream # <<>>
  <2>1. PICK s \in Programs : /\ Len(stream) <= Len(s)
                              /\ \A i \in 1..Len(stream) : stream[i] = s[i]
    BY <1>3 DEF Prefix
  <2>2. s \in Seq(Range(s))
    BY ProgramsAssumption
  <2>3. DOMAIN s = 1..Len(s) /\ Len(s) \in Nat
    BY <2>2
  <2>4. DOMAIN stream \subseteq DOMAIN s /\ \A i \in DOMAIN stream : i \in Nat /\ stream[i] = s[i]
    BY <1>1, <2>1, <2>3
  <2>5. \A i \in DOMAIN s : s[i].gen \in Nat /\ s[i].size \in Nat /\ s[i].target \in DOMAIN Place
    BY ProgramsAssumption
  <2>6. \A i, j \in DOMAIN s : i < j /\ s[i].gen # s[j].gen /\ s[i].gen # 0 /\ s[j].gen # 0
          => s[i].gen < s[j].gen /\ \E k \in i..j : s[k].form = "fence"
    BY ProgramsAssumption
  <2>7. \A i \in DOMAIN s : s[i].form = "index" /\ s[i].gen # 0
          => Cardinality(RowsOf(s, s[i].gen)) = s[i].size
    BY ProgramsAssumption
  <2>8. \A i, j \in DOMAIN stream :
          i < j /\ stream[i].gen # stream[j].gen /\ stream[i].gen # 0 /\ stream[j].gen # 0
            => stream[i].gen < stream[j].gen /\ \E k \in i..j : stream[k].form = "fence"
    <3>1. SUFFICES ASSUME NEW i \in DOMAIN stream, NEW j \in DOMAIN stream, i < j,
                          stream[i].gen # stream[j].gen, stream[i].gen # 0, stream[j].gen # 0
                   PROVE  stream[i].gen < stream[j].gen /\ \E k \in i..j : stream[k].form = "fence"
      OBVIOUS
    <3>2. s[i].gen < s[j].gen /\ \E k \in i..j : s[k].form = "fence"
      BY <2>4, <2>6, <3>1
    <3>3. \A k \in i..j : k \in DOMAIN stream
      BY <1>1, <3>1
    <3> QED BY <2>4, <3>2, <3>3
  <2>9. ASSUME NEW g \in Nat \ {0}, NEW i \in RowsOf(stream, g)
        PROVE  /\ IsFiniteSet(RowsOf(stream, g)) /\ Cardinality(RowsOf(stream, g)) <= stream[i].size
               /\ \A j \in RowsOf(stream, g) : stream[j].size = stream[i].size
               /\ (\E h \in Nat : g < h /\ RowsOf(stream, h) # {})
                    => Cardinality(RowsOf(stream, g)) = stream[i].size
    <3>1. RowsOf(stream, g) \subseteq RowsOf(s, g) /\ RowsOf(s, g) \subseteq 1..Len(s)
      BY <2>3, <2>4 DEF RowsOf
    <3>2. IsFiniteSet(RowsOf(s, g))
      <4>1. IsFiniteSet(1..Len(s))
        BY <2>3, FS_Interval
      <4> QED BY <3>1, <4>1, FS_Subset
    <3>3. /\ IsFiniteSet(RowsOf(stream, g))
          /\ Cardinality(RowsOf(stream, g)) <= Cardinality(RowsOf(s, g))
      BY <3>1, <3>2, FS_Subset
    <3>4. \A j \in RowsOf(stream, g) : stream[j].size = Cardinality(RowsOf(s, g))
      <4>1. ASSUME NEW j \in RowsOf(stream, g) PROVE stream[j].size = Cardinality(RowsOf(s, g))
        <5>1. j \in DOMAIN stream /\ s[j].form = "index" /\ s[j].gen = g /\ j \in DOMAIN s
          BY <2>4 DEF RowsOf
        <5>2. Cardinality(RowsOf(s, s[j].gen)) = s[j].size
          BY <2>7, <5>1
        <5> QED BY <2>4, <5>1, <5>2
      <4> QED BY <4>1
    <3>5. ASSUME NEW h \in Nat, g < h, RowsOf(stream, h) # {} PROVE RowsOf(s, g) \subseteq RowsOf(stream, g)
      <4>1. PICK j \in RowsOf(stream, h) : TRUE
        BY <3>5
      <4>2. j \in DOMAIN stream /\ j \in DOMAIN s /\ s[j].gen = h
        BY <2>4 DEF RowsOf
      <4>3. SUFFICES ASSUME NEW k \in RowsOf(s, g) PROVE k \in RowsOf(stream, g)
        OBVIOUS
      <4>4. k \in DOMAIN s /\ s[k].gen = g /\ s[k].form = "index" /\ k \in 1..Len(s)
        BY <3>1, <4>3 DEF RowsOf
      <4>5. ~(j < k)
        BY <2>6, <3>5, <4>2, <4>4
      <4>6. k \in DOMAIN stream
        BY <1>1, <4>2, <4>4, <4>5
      <4> QED BY <2>4, <4>4, <4>6 DEF RowsOf
    <3>6. (\E h \in Nat : g < h /\ RowsOf(stream, h) # {}) => RowsOf(stream, g) = RowsOf(s, g)
      BY <3>1, <3>5
    <3> QED BY <3>3, <3>4, <3>6
  <2>10. \A i \in DOMAIN stream : /\ stream[i].gen \in Nat /\ stream[i].size \in Nat
                                  /\ stream[i].target \in DOMAIN Place
    BY <2>4, <2>5
  <2> QED BY <2>8, <2>9, <2>10 DEF StreamOK
<1> QED BY <1>2, <1>3

\* All points of the generations before that of a ready row have been mapped, and so selected.
LEMMA Earlier ==
  ASSUME Prefix, StreamOK, LegionOK, NEW g \in Nat \ {0}, NEW i \in RowsOf(stream, g), NEW c \in Cols,
         IsReady(<<i, c>>), NEW h \in Nat \ {0}, h < g, NEW k \in RowsOf(stream, h), NEW d \in Cols
  PROVE  <<k, d>> \in selected
PROOF
<1>1. /\ i \in DOMAIN stream /\ stream[i].form = "index" /\ stream[i].gen = g
      /\ k \in DOMAIN stream /\ stream[k].form = "index" /\ stream[k].gen = h
  BY DEF RowsOf
<1>2. DOMAIN stream = 1..Len(stream) /\ Len(stream) \in Nat
  BY DEF Prefix
<1>3. k < i
  <2>1. i # k /\ ~(i < k)
    BY <1>1 DEF StreamOK
  <2> QED BY <1>1, <1>2, <2>1
<1>4. PICK m \in k..i : stream[m].form = "fence"
  BY <1>1, <1>3 DEF StreamOK
<1>5. m \in DOMAIN stream /\ k < m /\ m < i /\ k >= 1
  BY <1>1, <1>2, <1>4
<1>6. <<m, NoCol>> \in mapped
  <2>1. DependsOn(<<i, c>>, m) = Points(m)
    BY <1>4 DEF DependsOn
  <2>2. m \in 1..(<<i, c>>[1] - 1)
    BY <1>1, <1>2, <1>5
  <2>3. Points(m) \subseteq mapped
    BY <2>1, <2>2 DEF IsReady
  <2> QED BY <1>4, <2>3, PointFacts
<1>7. IsReady(<<m, NoCol>>)
  BY <1>6 DEF LegionOK
<1>8. Points(k) \subseteq mapped
  <2>1. DependsOn(<<m, NoCol>>, k) = Points(k)
    BY <1>4 DEF DependsOn
  <2>2. k \in 1..(<<m, NoCol>>[1] - 1)
    BY <1>1, <1>2, <1>5
  <2> QED BY <1>7, <2>1, <2>2 DEF IsReady
<1>9. <<k, d>> \in mapped /\ <<k, d>> \in AllPoints
  BY <1>1, <1>8, PointFacts DEF AllPoints
<1>10. <<k, d>> \in TaskPoints
  BY <1>1, <1>9 DEF TaskPoints, IsTaskForm
<1> QED BY <1>9, <1>10 DEF LegionOK

-----------------------------------------------------------------------------
(* A column *)

\* What has been taken so far was ready, and includes what was selected before.
TakenOK(sel) == selected \subseteq sel /\ \A t \in sel : IsReady(t)

\* A row that is ready and was not taken is of the generation that its column maps, which then has rows to
\* come, or of the next one, and then its column is done.
LEMMA NextRow ==
  ASSUME Prefix, StreamOK, LegionOK, NEW sel, TakenOK(sel),
         NEW inf \in [Cols -> ColInfo], NEW c \in Cols, ColumnOK(inf, sel, c),
         NEW g \in Nat \ {0}, NEW i \in RowsOf(stream, g), IsReady(<<i, c>>), <<i, c>> \notin sel
  PROVE  /\ inf[c].gen <= g
         /\ \A h \in Nat \ {0} : Begun(sel, h, c) # {} => h <= g
         /\ inf[c].gen # g => inf[c].rows = 0 /\ inf[c].procs = {} /\ Begun(sel, g, c) = {}
         /\ inf[c].gen = g => /\ inf[c].rows = Cardinality(Begun(sel, g, c))
                              /\ inf[c].procs = {Proc(<<k, c>>) : k \in Begun(sel, g, c)}
                              /\ Begun(sel, g, c) # {}
         /\ IsFiniteSet(Begun(sel, g, c)) /\ Cardinality(Begun(sel, g, c)) \in Nat
         /\ Cardinality(Begun(sel, g, c)) < stream[i].size
PROOF
<1> DEFINE f == inf[c].gen
<1>1. f \in Nat /\ inf[c].rows \in Nat /\ inf[c].procs \subseteq Procs
  BY DEF ColInfo
<1>2. \A h \in Nat \ {0} : Begun(sel, h, c) # {} => h <= g
  <2>1. SUFFICES ASSUME NEW h \in Nat \ {0}, NEW k \in Begun(sel, h, c), g < h PROVE FALSE
    OBVIOUS
  <2>2. k \in RowsOf(stream, h) /\ <<k, c>> \in sel /\ IsReady(<<k, c>>)
    BY <2>1 DEF Begun, TakenOK
  <2>3. <<i, c>> \in selected
    BY <2>1, <2>2, Earlier
  <2> QED BY <2>3 DEF TakenOK
<1>3. f # 0 => Begun(sel, f, c) # {}
  BY DEF ColumnOK
<1>4. f <= g
  BY <1>1, <1>2, <1>3
<1>5. ASSUME f # g PROVE Begun(sel, g, c) = {}
  <2>1. f < g
    BY <1>1, <1>4, <1>5
  <2>2. Begun(sel, g, c) # {} => g <= f
    BY DEF ColumnOK
  <2> QED BY <1>1, <2>1, <2>2
<1>6. ASSUME f # g PROVE inf[c].rows = 0 /\ inf[c].procs = {}
  <2>1. CASE f = 0
    BY <2>1 DEF ColumnOK
  <2>2. CASE f # 0
    <3>1. f \in Nat \ {0} /\ f < g
      BY <1>1, <1>4, <1>6, <2>2
    <3>2. PICK k \in Begun(sel, f, c) : TRUE
      BY <1>3, <2>2
    <3>3. k \in RowsOf(stream, f)
      BY DEF Begun
    <3>4. \A l \in RowsOf(stream, f) : <<l, c>> \in sel
      BY <3>1, Earlier DEF TakenOK
    <3>5. Begun(sel, f, c) = RowsOf(stream, f)
      BY <3>4 DEF Begun
    <3>6. Cardinality(RowsOf(stream, f)) = stream[k].size
      BY <3>1, <3>3 DEF StreamOK
    <3> QED BY <2>2, <3>2, <3>5, <3>6 DEF ColumnOK
  <2> QED BY <2>1, <2>2
<1>7. Begun(sel, g, c) \subseteq RowsOf(stream, g) /\ i \notin Begun(sel, g, c)
  BY DEF Begun
<1>8. /\ IsFiniteSet(Begun(sel, g, c)) /\ Cardinality(Begun(sel, g, c)) \in Nat
      /\ Cardinality(Begun(sel, g, c)) < stream[i].size
  <2>1. /\ IsFiniteSet(RowsOf(stream, g)) /\ Cardinality(RowsOf(stream, g)) <= stream[i].size
        /\ stream[i].size \in Nat
    BY DEF StreamOK, RowsOf
  <2>2. IsFiniteSet(Begun(sel, g, c)) /\ Cardinality(Begun(sel, g, c)) \in Nat
    BY <1>7, <2>1, FS_Subset, FS_CardinalityType
  <2>3. Cardinality(Begun(sel, g, c)) < Cardinality(RowsOf(stream, g))
    BY <1>7, <2>1, FS_Subset, FS_CardinalityType
  <2>4. Cardinality(RowsOf(stream, g)) \in Nat
    BY <2>1, FS_CardinalityType
  <2> QED BY <2>1, <2>2, <2>3, <2>4
<1>9. ASSUME f = g PROVE /\ inf[c].rows = Cardinality(Begun(sel, g, c))
                         /\ inf[c].procs = {Proc(<<k, c>>) : k \in Begun(sel, g, c)}
                         /\ Begun(sel, g, c) # {}
  <2>1. PICK k \in Begun(sel, g, c) : TRUE
    BY <1>3, <1>9
  <2>2. k \in RowsOf(stream, g)
    BY DEF Begun
  <2>3. stream[k].size = stream[i].size
    BY <2>2 DEF StreamOK
  <2>4. Cardinality(Begun(sel, g, c)) # stream[k].size
    BY <1>8, <2>3
  <2> QED BY <1>9, <2>1, <2>4 DEF ColumnOK
<1> QED BY <1>2, <1>4, <1>5, <1>6, <1>8, <1>9

\* Another row of a column: what is begun afterwards
LEMMA BegunWith ==
  ASSUME NEW sel, NEW i, NEW c, NEW g, i \in RowsOf(stream, g)
  PROVE  /\ Begun(sel \cup {<<i, c>>}, g, c) = Begun(sel, g, c) \cup {i}
         /\ \A h, d : (h # g \/ d # c) => Begun(sel \cup {<<i, c>>}, h, d) = Begun(sel, h, d)
BY DEF Begun, RowsOf

\* Processor p takes row i of column c, counts it, and frees the column with the last one.
TakesRow(col, inf, i, c, p, col2, inf2) ==
  /\ inf2[c].gen = stream[i].gen
  /\ \A d \in Cols \ {c} : inf2[d] = inf[d]
  /\ IF inf[c].rows + 1 = stream[i].size
       THEN /\ inf2[c].rows = 0 /\ inf2[c].procs = {}
            /\ \A q \in Procs : col2[q] = IF q \in inf[c].procs \cup {p} THEN NoCol ELSE col[q]
       ELSE /\ inf2[c].rows = inf[c].rows + 1 /\ inf2[c].procs = inf[c].procs \cup {p}
            /\ \A q \in Procs : col2[q] = IF q = p THEN c ELSE col[q]

\* The columns are in order when the processor of the next row was free or already in that column.
LEMMA TakesRowOK ==
  ASSUME Prefix, StreamOK, LegionOK, NEW sel, TakenOK(sel),
         NEW col \in [Procs -> Cols \cup {NoCol}], NEW inf \in [Cols -> ColInfo],
         ColumnsOK(col, inf, sel), NEW c \in Cols, NEW p \in Procs,
         NEW g \in Nat \ {0}, NEW i \in RowsOf(stream, g), IsReady(<<i, c>>), <<i, c>> \notin sel,
         Proc(<<i, c>>) = p, col[p] \in {NoCol, c},
         NEW col2, NEW inf2, TakesRow(col, inf, i, c, p, col2, inf2)
  PROVE  ColumnsOK(col2, inf2, sel \cup {<<i, c>>})
PROOF
<1> DEFINE sel2 == sel \cup {<<i, c>>}
           n == Cardinality(Begun(sel, g, c))
<1>1. /\ i \in DOMAIN stream /\ stream[i].gen = g /\ stream[i].size \in Nat
      /\ inf[c].gen \in Nat /\ inf[c].rows \in Nat /\ inf[c].procs \subseteq Procs
  BY DEF RowsOf, StreamOK, ColInfo
<1>2. ColumnOK(inf, sel, c) /\ TakesPart(col, inf)
  BY DEF ColumnsOK
<1>3. /\ inf[c].gen <= g
      /\ \A h \in Nat \ {0} : Begun(sel, h, c) # {} => h <= g
      /\ inf[c].gen # g => inf[c].rows = 0 /\ inf[c].procs = {} /\ Begun(sel, g, c) = {}
      /\ inf[c].gen = g => /\ inf[c].rows = n
                           /\ inf[c].procs = {Proc(<<k, c>>) : k \in Begun(sel, g, c)}
                           /\ Begun(sel, g, c) # {}
      /\ IsFiniteSet(Begun(sel, g, c)) /\ n \in Nat /\ n < stream[i].size
  BY <1>2, NextRow
<1>4. inf[c].rows = n /\ inf[c].procs = {Proc(<<k, c>>) : k \in Begun(sel, g, c)}
  <2>1. CASE inf[c].gen = g
    BY <1>3, <2>1
  <2>2. CASE inf[c].gen # g
    BY <1>3, <2>2, FS_EmptySet
  <2> QED BY <2>1, <2>2
<1>5. /\ Begun(sel2, g, c) = Begun(sel, g, c) \cup {i}
      /\ \A h, d : (h # g \/ d # c) => Begun(sel2, h, d) = Begun(sel, h, d)
  BY BegunWith
<1>6. i \notin Begun(sel, g, c)
  BY DEF Begun
<1>7. Cardinality(Begun(sel2, g, c)) = n + 1
  BY <1>3, <1>5, <1>6, FS_AddElement
<1>8. {Proc(<<k, c>>) : k \in Begun(sel2, g, c)} = inf[c].procs \cup {p}
  BY <1>4, <1>5
<1> HIDE DEF sel2, n
<1>9. ColumnOK(inf2, sel2, c)
  <2>1. inf2[c].gen = g
    BY <1>1 DEF TakesRow
  <2>2. \A h \in Nat \ {0} : Begun(sel2, h, c) # {} => h <= g
    BY <1>3, <1>5
  <2>3. Begun(sel2, g, c) # {} /\ g # 0
    BY <1>5
  <2>4. \A k \in Begun(sel2, g, c) : stream[k].size = stream[i].size
    <3>1. Begun(sel2, g, c) \subseteq RowsOf(stream, g)
      BY DEF Begun
    <3> QED BY <3>1 DEF StreamOK
  <2>5. IF Cardinality(Begun(sel2, g, c)) = stream[i].size
          THEN inf2[c].rows = 0 /\ inf2[c].procs = {}
          ELSE /\ inf2[c].rows = Cardinality(Begun(sel2, g, c))
               /\ inf2[c].procs = {Proc(<<k, c>>) : k \in Begun(sel2, g, c)}
    BY <1>4, <1>7, <1>8 DEF TakesRow
  <2> QED BY <2>1, <2>2, <2>3, <2>4, <2>5 DEF ColumnOK
<1>10. ASSUME NEW d \in Cols \ {c} PROVE ColumnOK(inf2, sel2, d)
  <2>1. ColumnOK(inf, sel, d) /\ inf2[d] = inf[d]
    BY DEF ColumnsOK, TakesRow
  <2>2. \A h : Begun(sel2, h, d) = Begun(sel, h, d)
    BY <1>5
  <2> QED BY <2>1, <2>2 DEF ColumnOK
<1>11. c # NoCol /\ NoCol \notin Cols
  BY ColFacts
<1>12. TakesPart(col2, inf2)
  <2>1. CASE inf[c].rows + 1 = stream[i].size
    <3>1. /\ inf2[c].procs = {} /\ \A d \in Cols \ {c} : inf2[d] = inf[d]
          /\ \A q \in Procs : col2[q] = IF q \in inf[c].procs \cup {p} THEN NoCol ELSE col[q]
      BY <2>1 DEF TakesRow
    <3>2. ASSUME NEW q \in Procs, col2[q] # NoCol PROVE q \in inf2[col2[q]].procs
      <4>1. q \notin inf[c].procs /\ q # p /\ col2[q] = col[q]
        BY <3>1, <3>2
      <4>2. q \in inf[col[q]].procs /\ col[q] \in Cols
        BY <1>2, <3>2, <4>1 DEF TakesPart
      <4> QED BY <3>1, <4>1, <4>2
    <3>3. ASSUME NEW q \in Procs, NEW d \in Cols, q \in inf2[d].procs PROVE col2[q] = d
      <4>1. d # c /\ q \in inf[d].procs
        BY <3>1, <3>3
      <4>2. col[q] = d
        BY <1>2, <4>1 DEF TakesPart
      <4>3. q \notin inf[c].procs
        BY <1>2, <4>1, <4>2 DEF TakesPart
      <4>4. q # p
        BY <1>11, <4>1, <4>2
      <4> QED BY <3>1, <4>2, <4>3, <4>4
    <3> QED BY <3>2, <3>3 DEF TakesPart
  <2>2. CASE inf[c].rows + 1 # stream[i].size
    <3>1. /\ inf2[c].procs = inf[c].procs \cup {p} /\ \A d \in Cols \ {c} : inf2[d] = inf[d]
          /\ \A q \in Procs : col2[q] = IF q = p THEN c ELSE col[q]
      BY <2>2 DEF TakesRow
    <3>2. ASSUME NEW q \in Procs, col2[q] # NoCol PROVE q \in inf2[col2[q]].procs
      <4>1. CASE q = p
        BY <3>1, <4>1
      <4>2. CASE q # p
        <5>1. col2[q] = col[q] /\ q \in inf[col[q]].procs /\ col[q] \in Cols
          BY <1>2, <3>1, <3>2, <4>2 DEF TakesPart
        <5> QED BY <3>1, <5>1
      <4> QED BY <4>1, <4>2
    <3>3. ASSUME NEW q \in Procs, NEW d \in Cols, q \in inf2[d].procs PROVE col2[q] = d
      <4>1. CASE q = p
        <5>1. d # c => col[p] = d
          BY <1>2, <3>1, <3>3, <4>1 DEF TakesPart
        <5> QED BY <1>11, <3>1, <4>1, <5>1
      <4>2. CASE q # p
        <5>1. q \in inf[d].procs
          BY <3>1, <3>3, <4>2
        <5> QED BY <1>2, <3>1, <4>2, <5>1 DEF TakesPart
      <4> QED BY <4>1, <4>2
    <3> QED BY <3>2, <3>3 DEF TakesPart
  <2> QED BY <2>1, <2>2
<1> QED BY <1>9, <1>10, <1>12 DEF ColumnsOK, sel2

-----------------------------------------------------------------------------
(* The handler *)

\* What the loop of the handler works on, when the tasks of R are ready
HState(R) == [column : [Procs -> Cols \cup {NoCol}], info : [Cols -> ColInfo],
              failed : BOOLEAN, take : SUBSET R]

\* select_column
LEMMA SelectFacts ==
  ASSUME NEW R, NEW h \in HState(R), NEW i \in DOMAIN stream, NEW c \in Cols, NEW p \in Procs,
         stream[i].gen \in Nat
  PROVE  LET s == SelectColumn(h, <<i, c>>, p) IN
         /\ s \in HState(R) /\ s.take = h.take
         /\ s.failed = (h.failed \/ (h.info[c].gen # stream[i].gen /\ h.info[c].rows # 0))
         /\ s.info[c].gen = stream[i].gen /\ s.info[c].rows = h.info[c].rows
         /\ s.info[c].procs = h.info[c].procs
         /\ \A d \in Cols \ {c} : s.info[d] = h.info[d]
         /\ \A q \in Procs : s.column[q] = IF q = p THEN c ELSE h.column[q]
PROOF
<1> DEFINE j == [h.info[c] EXCEPT !.gen = stream[i].gen]
           f == [h.info EXCEPT ![c] = j]
           l == [h.column EXCEPT ![p] = c]
           b == (h.failed \/ (h.info[c].gen # stream[i].gen /\ h.info[c].rows # 0))
           s == SelectColumn(h, <<i, c>>, p)
<1>1. h.info \in [Cols -> ColInfo] /\ h.info[c] \in ColInfo /\ h.column \in [Procs -> Cols \cup {NoCol}]
      /\ h.take \in SUBSET R
  BY DEF HState
<1>2. /\ j \in ColInfo /\ j.gen = stream[i].gen
      /\ j.rows = h.info[c].rows /\ j.procs = h.info[c].procs
  BY <1>1 DEF ColInfo
<1>3. s = [h EXCEPT !.failed = b, !.info = f, !.column = l]
  BY DEF SelectColumn
<1> HIDE DEF j, b, s
<1>4. f \in [Cols -> ColInfo] /\ f[c] = j /\ \A d \in Cols \ {c} : f[d] = h.info[d]
  BY <1>1, <1>2
<1>5. l \in [Procs -> Cols \cup {NoCol}] /\ \A q \in Procs : l[q] = IF q = p THEN c ELSE h.column[q]
  BY <1>1
<1>6. b \in BOOLEAN
  BY DEF b
<1> HIDE DEF f, l
<1>7. s \in HState(R) /\ s.take = h.take /\ s.failed = b /\ s.info = f /\ s.column = l
  BY <1>1, <1>3, <1>4, <1>5, <1>6 DEF HState
<1> QED BY <1>2, <1>4, <1>5, <1>7 DEF s, b

\* update_streaming_info
LEMMA CountFacts ==
  ASSUME NEW R, NEW h \in HState(R), NEW i \in DOMAIN stream, NEW c \in Cols, NEW p \in Procs,
         h.info[c].gen = stream[i].gen, h.column[p] = c
  PROVE  LET s == Count(h, <<i, c>>, p) IN
         /\ s \in HState(R) /\ s.take = h.take /\ s.failed = h.failed
         /\ TakesRow(h.column, h.info, i, c, p, s.column, s.info)
PROOF
<1>1. /\ h.info \in [Cols -> ColInfo] /\ h.info[c] \in ColInfo /\ h.column \in [Procs -> Cols \cup {NoCol}]
      /\ h.info[c].rows \in Nat /\ h.info[c].procs \subseteq Procs
  BY DEF HState, ColInfo
<1> DEFINE s == Count(h, <<i, c>>, p)
<1>2. CASE h.info[c].rows + 1 = stream[i].size
  <2> DEFINE j1 == [h.info[c] EXCEPT !.rows = 0]
             j == [j1 EXCEPT !.procs = {}]
             f1 == [h.info EXCEPT ![c] = j1]
             f == [f1 EXCEPT ![c] = j]
             l == Freed(h, p, c)
  <2>1. j1 \in ColInfo /\ j \in ColInfo /\ j.gen = h.info[c].gen /\ j.rows = 0 /\ j.procs = {}
    BY <1>1 DEF ColInfo
  <2>2. s = [h EXCEPT !.info[c].rows = 0, !.info[c].procs = {}, !.column = l]
    BY <1>2 DEF Count, RowsDone
  <2> HIDE DEF j1, s, l
  <2>3. f1 \in [Cols -> ColInfo] /\ f1[c] = j1 /\ \A d \in Cols \ {c} : f1[d] = h.info[d]
    BY <1>1, <2>1
  <2>4. s = [[h EXCEPT !.info = f1] EXCEPT !.info = f, !.column = l]
    BY <2>2, <2>3, <1>1 DEF j1, HState
  <2> HIDE DEF j, f1
  <2>5. f \in [Cols -> ColInfo] /\ f[c] = j /\ \A d \in Cols \ {c} : f[d] = h.info[d]
    BY <2>1, <2>3
  <2>6. /\ l \in [Procs -> Cols \cup {NoCol}]
        /\ \A q \in Procs : l[q] = IF q \in h.info[c].procs \cup {p} THEN NoCol ELSE h.column[q]
    BY <1>1 DEF l, Freed
  <2> HIDE DEF f
  <2>7. s \in HState(R) /\ s.take = h.take /\ s.failed = h.failed /\ s.info = f /\ s.column = l
    BY <2>4, <2>5, <2>6 DEF HState
  <2>8. TakesRow(h.column, h.info, i, c, p, l, f)
    BY <1>2, <2>1, <2>5, <2>6 DEF TakesRow
  <2> QED BY <2>7, <2>8 DEF s
<1>3. CASE h.info[c].rows + 1 # stream[i].size
  <2> DEFINE n == h.info[c].rows + 1
             j1 == [h.info[c] EXCEPT !.rows = n]
             m == h.info[c].procs \cup {p}
             j == [j1 EXCEPT !.procs = m]
             f1 == [h.info EXCEPT ![c] = j1]
             f == [f1 EXCEPT ![c] = j]
  <2>1. /\ j1 \in ColInfo /\ j \in ColInfo /\ j.gen = h.info[c].gen /\ j.rows = n
        /\ j.procs = m /\ j1.procs = h.info[c].procs
    <3>1. m \in SUBSET Procs /\ n \in Nat
      BY <1>1
    <3> HIDE DEF m, n
    <3>2. /\ j1 \in ColInfo /\ j1.gen = h.info[c].gen /\ j1.rows = n
          /\ j1.procs = h.info[c].procs
      BY <1>1, <3>1 DEF ColInfo
    <3> HIDE DEF j1
    <3> QED BY <3>1, <3>2 DEF ColInfo
  <2>2. s = [h EXCEPT !.info[c].rows = n, !.info[c].procs = @ \cup {p}]
    BY <1>3 DEF Count
  <2> HIDE DEF j1, s, n
  <2>3. f1 \in [Cols -> ColInfo] /\ f1[c] = j1 /\ \A d \in Cols \ {c} : f1[d] = h.info[d]
    BY <1>1, <2>1
  <2>4. s = [[h EXCEPT !.info = f1] EXCEPT !.info = f]
    <3>1. h.info[c].procs = f1[c].procs
      BY <2>1, <2>3
    <3>2. [h EXCEPT !.info[c].rows = n, !.info[c].procs = @ \cup {p}]
             = [[h EXCEPT !.info = f1] EXCEPT !.info[c].procs = @ \cup {p}]
      BY DEF j1, HState
    <3>3. [[h EXCEPT !.info = f1] EXCEPT !.info[c].procs = @ \cup {p}]
             = [[h EXCEPT !.info = f1] EXCEPT !.info = [f1 EXCEPT ![c] = [f1[c] EXCEPT !.procs = f1[c].procs \cup {p}]]]
      BY <1>1 DEF HState
    <3> QED BY <2>2, <2>3, <3>1, <3>2, <3>3
  <2> HIDE DEF j, f1
  <2>5. f \in [Cols -> ColInfo] /\ f[c] = j /\ \A d \in Cols \ {c} : f[d] = h.info[d]
    BY <2>1, <2>3
  <2> HIDE DEF f
  <2>7. s \in HState(R) /\ s.take = h.take /\ s.failed = h.failed /\ s.info = f /\ s.column = h.column
    BY <2>4, <2>5 DEF HState
  <2>8. TakesRow(h.column, h.info, i, c, p, h.column, f)
    <3>1. f[c].gen = stream[i].gen /\ f[c].rows = h.info[c].rows + 1
      BY <2>1, <2>5 DEF n
    <3>2. f[c].procs = h.info[c].procs \cup {p}
      BY <2>1, <2>5
    <3>3. \A q \in Procs : h.column[q] = IF q = p THEN c ELSE h.column[q]
      OBVIOUS
    <3> QED BY <1>3, <2>5, <3>1, <3>2, <3>3 DEF TakesRow
  <2> QED BY <2>7, <2>8 DEF s
<1> QED BY <1>2, <1>3

\* Taking a task
LEMMA TakeFacts ==
  ASSUME NEW R, NEW h \in HState(R), NEW t \in R
  PROVE  /\ Take(h, t) \in HState(R) /\ Take(h, t).take = h.take \cup {t}
         /\ Take(h, t).column = h.column /\ Take(h, t).info = h.info /\ Take(h, t).failed = h.failed
BY DEF Take, HState

\* Between two turns of its loop, the handler for processor p has the columns in order.
HandlerOK(p, h) ==
  /\ h \in HState(ReadyAt(p))
  /\ h.failed = FALSE
  /\ ColumnsOK(h.column, h.info, selected \cup h.take)

\* What a ready task that streams is
LEMMA ReadyFacts ==
  ASSUME IInv, NEW p \in Procs, NEW t \in ReadyAt(p)
  PROVE  /\ t \in TaskPoints /\ t \notin selected /\ IsReady(t) /\ Proc(t) = p
         /\ ~AtOnce(t) => \E g \in Nat \ {0} : \E i \in RowsOf(stream, g) : \E c \in Cols : t = <<i, c>>
PROOF
<1>1. PICK i \in DOMAIN stream : t \in Points(i)
  BY DEF ReadyAt
<1>2. t[1] = i /\ t = <<i, t[2]>> /\ (t[2] # NoCol => stream[i].form = "index" /\ t[2] \in Cols)
  BY <1>1, PointFacts
<1>3. t \in TaskPoints /\ t \notin selected /\ IsReady(t) /\ Proc(t) = p
  BY <1>1 DEF ReadyAt, TaskPoints, AllPoints
<1>4. ASSUME ~AtOnce(t)
      PROVE  \E g \in Nat \ {0} : \E j \in RowsOf(stream, g) : \E c \in Cols : t = <<j, c>>
  <2>1. t[2] # NoCol /\ stream[i].gen # 0
    BY <1>2, <1>4 DEF AtOnce
  <2>2. stream[i].gen \in Nat \ {0}
    BY <2>1, PrefixOK DEF IInv, StreamOK
  <2>3. i \in RowsOf(stream, stream[i].gen)
    BY <1>1, <1>2, <2>1 DEF RowsOf
  <2> QED BY <1>2, <2>1, <2>2, <2>3
<1> QED BY <1>3, <1>4

\* One turn of the loop keeps them in order, and the check of select_column holds.
LEMMA ConsiderOK ==
  ASSUME IInv, NEW p \in Procs, NEW h, HandlerOK(p, h),
         NEW t \in ReadyAt(p), ~AtOnce(t), t \notin h.take
  PROVE  HandlerOK(p, Consider(h, t, p)) /\ Consider(h, t, p).take \subseteq h.take \cup {t}
PROOF
<1> DEFINE R == ReadyAt(p)
           sel == selected \cup h.take
<1>g. PICK g \in Nat \ {0} : \E i \in RowsOf(stream, g) : \E c \in Cols : t = <<i, c>>
  BY ReadyFacts
<1>i. PICK i \in RowsOf(stream, g) : \E c \in Cols : t = <<i, c>>
  BY <1>g
<1>1. PICK c \in Cols : t = <<i, c>>
  BY <1>i
<1>2. /\ i \in DOMAIN stream /\ stream[i].gen = g /\ stream[i].size \in Nat
      /\ IsReady(<<i, c>>) /\ Proc(<<i, c>>) = p /\ <<i, c>> \notin sel /\ t[1] = i /\ t[2] = c
  BY <1>1, ReadyFacts, PrefixOK DEF RowsOf, IInv, StreamOK
<1>3. /\ h \in HState(R) /\ h.failed = FALSE /\ ColumnsOK(h.column, h.info, sel)
      /\ h.column \in [Procs -> Cols \cup {NoCol}] /\ h.info \in [Cols -> ColInfo] /\ h.take \subseteq R
  BY DEF HandlerOK, HState
<1>4. TakenOK(sel)
  BY <1>3, ReadyFacts DEF TakenOK, IInv, LegionOK
<1>5. Prefix /\ StreamOK /\ LegionOK
  BY PrefixOK DEF IInv
<1>6. /\ h.info[c].gen # g => h.info[c].rows = 0 /\ h.info[c].procs = {}
  <2>1. ColumnOK(h.info, sel, c)
    BY <1>3 DEF ColumnsOK
  <2> HIDE DEF sel
  <2> QED BY <1>1, <1>2, <1>3, <1>4, <1>5, <2>1, NextRow
<1>7. c # NoCol
  BY ColFacts
<1> DEFINE k == Take(h, t)
<1>8. /\ k \in HState(R) /\ k.take = h.take \cup {t}
      /\ k.column = h.column /\ k.info = h.info /\ k.failed = h.failed
  BY <1>3, TakeFacts
<1> HIDE DEF k, R
<1>9. ASSUME NEW s, s \in HState(R), s.take = k.take, s.failed = FALSE, h.column[p] \in {NoCol, c},
             TakesRow(h.column, h.info, i, c, p, s.column, s.info)
      PROVE  HandlerOK(p, s) /\ s.take \subseteq h.take \cup {t}
  <2>1. ColumnsOK(s.column, s.info, sel \cup {<<i, c>>})
    <3> HIDE DEF sel
    <3> QED BY <1>2, <1>3, <1>4, <1>5, <1>9, TakesRowOK
  <2>2. sel \cup {<<i, c>>} = selected \cup s.take
    BY <1>1, <1>8, <1>9
  <2> QED BY <1>8, <1>9, <2>1, <2>2 DEF HandlerOK, R
<1>10. CASE h.column[p] = NoCol
  <2> DEFINE s == SelectColumn(k, <<i, c>>, p)
             u == Count(s, <<i, c>>, p)
  <2>1. /\ s \in HState(R) /\ s.take = k.take
        /\ s.failed = (k.failed \/ (k.info[c].gen # stream[i].gen /\ k.info[c].rows # 0))
        /\ s.info[c].gen = stream[i].gen /\ s.info[c].rows = k.info[c].rows
        /\ s.info[c].procs = k.info[c].procs
        /\ \A d \in Cols \ {c} : s.info[d] = k.info[d]
        /\ \A q \in Procs : s.column[q] = IF q = p THEN c ELSE k.column[q]
    BY <1>2, <1>8, SelectFacts, SMTT(30)
  <2>2. s.failed = FALSE
    BY <1>2, <1>3, <1>6, <1>8, <2>1
  <2> HIDE DEF s
  <2>3. /\ u \in HState(R) /\ u.take = s.take /\ u.failed = s.failed
        /\ TakesRow(s.column, s.info, i, c, p, u.column, u.info)
    BY <1>2, <2>1, CountFacts
  <2> HIDE DEF u
  <2>4. TakesRow(h.column, h.info, i, c, p, u.column, u.info)
    BY <1>8, <2>1, <2>3 DEF TakesRow
  <2>5. Consider(h, t, p) = u
    BY <1>1, <1>10 DEF Consider, k, s, u
  <2> QED BY <1>9, <1>10, <2>1, <2>2, <2>3, <2>4, <2>5
<1>11. CASE h.column[p] = c
  <2> DEFINE u == Count(k, <<i, c>>, p)
  <2>1. h.info[c].gen = g
    <3>1. p \in h.info[c].procs
      BY <1>3, <1>7, <1>11 DEF ColumnsOK, TakesPart
    <3> QED BY <1>6, <3>1
  <2>2. /\ u \in HState(R) /\ u.take = k.take /\ u.failed = k.failed
        /\ TakesRow(k.column, k.info, i, c, p, u.column, u.info)
    BY <1>2, <1>8, <1>11, <2>1, CountFacts
  <2> HIDE DEF u
  <2>3. Consider(h, t, p) = u
    BY <1>1, <1>2, <1>7, <1>11 DEF Consider, Matches, k, u
  <2> QED BY <1>3, <1>8, <1>9, <1>11, <2>2, <2>3
<1>12. CASE h.column[p] \notin {NoCol, c}
  <2>1. Consider(h, t, p) = h
    BY <1>2, <1>12 DEF Consider, Matches
  <2> QED BY <2>1
<1> QED BY <1>10, <1>11, <1>12

\* A set of naturals that has 0 and all successors has them all.
LEMMA AllNaturals ==
  ASSUME NEW S \in SUBSET Nat, 0 \in S, \A n \in S : n + 1 \in S
  PROVE  S = Nat
PROOF
<1> DEFINE R == OpToRel(<, Nat)
           T == Nat \ S
<1>1. IsWellFoundedOn(R, Nat)
  BY NatLessThanWellFounded
<1>2. \A x, y \in Nat : y < x => <<y, x>> \in R
  BY DEF OpToRel
<1>3. SUFFICES ASSUME T # {} PROVE FALSE
  OBVIOUS
<1> HIDE DEF R
<1>4. PICK x \in T : \A y \in T : <<y, x>> \notin R
  <2>1. T \subseteq Nat
    OBVIOUS
  <2> HIDE DEF T
  <2> QED BY <1>1, <1>3, <2>1, WFMin, Zenon
<1>5. x \in Nat /\ x # 0 /\ x - 1 \in Nat /\ x - 1 < x
  BY <1>4
<1>6. x - 1 \in S
  BY <1>2, <1>4, <1>5
<1>7. (x - 1) + 1 = x
  BY <1>5
<1> QED BY <1>4, <1>6, <1>7

\* What the loop starts with
Start(ready) ==
  LET rest == {t \in ready : ~AtOnce(t)}
  IN [h |-> [column |-> column, info |-> info, failed |-> FALSE, take |-> ready \ rest], todo |-> rest]

\* f[n] is the loop after n turns.
LoopsBy(ready, p, m, f) ==
  f = [n \in 0..m |-> IF n = 0 THEN {Start(ready)} ELSE ConsiderNext(f[n - 1], p)]

\* There is such an f for every number of turns.
LEMMA LoopsExist ==
  ASSUME NEW ready, NEW p, NEW m \in Nat PROVE \E f : LoopsBy(ready, p, m, f)
PROOF
<1> DEFINE S == {n \in Nat : \E f : LoopsBy(ready, p, n, f)}
<1>1. 0 \in S
  <2> DEFINE f == [n \in 0..0 |-> {Start(ready)}]
  <2>1. f = [n \in 0..0 |-> IF n = 0 THEN {Start(ready)} ELSE ConsiderNext(f[n - 1], p)]
    OBVIOUS
  <2> HIDE DEF f
  <2>2. LoopsBy(ready, p, 0, f)
    BY <2>1 DEF LoopsBy
  <2> QED BY <2>2
<1>2. ASSUME NEW n \in S PROVE n + 1 \in S
  <2>1. n \in Nat
    OBVIOUS
  <2>2. PICK f : LoopsBy(ready, p, n, f)
    BY <1>2
  <2> DEFINE e == [k \in 0..(n + 1) |-> IF k = n + 1 THEN ConsiderNext(f[n], p) ELSE f[k]]
  <2>3. \A k \in 0..n : f[k] = IF k = 0 THEN {Start(ready)} ELSE ConsiderNext(f[k - 1], p)
    BY <2>2 DEF LoopsBy
  <2>4. ASSUME NEW k \in 0..(n + 1)
        PROVE  e[k] = IF k = 0 THEN {Start(ready)} ELSE ConsiderNext(e[k - 1], p)
    <3>1. CASE k = n + 1
      <4>1. k # 0 /\ k - 1 = n /\ n \in 0..(n + 1) /\ n # n + 1
        BY <2>1, <3>1
      <4>2. e[k - 1] = f[n] /\ e[k] = ConsiderNext(f[n], p)
        BY <3>1, <4>1
      <4> QED BY <4>1, <4>2
    <3>2. CASE k # n + 1
      <4>1. k \in 0..n /\ (k # 0 => k - 1 \in 0..(n + 1) /\ k - 1 # n + 1)
        BY <2>1, <3>2
      <4>2. e[k] = f[k] /\ (k # 0 => e[k - 1] = f[k - 1])
        BY <3>2, <4>1
      <4> QED BY <2>3, <4>1, <4>2
    <3> QED BY <3>1, <3>2
  <2>5. e = [k \in 0..(n + 1) |-> e[k]]
    OBVIOUS
  <2> HIDE DEF e
  <2>6. e = [k \in 0..(n + 1) |-> IF k = 0 THEN {Start(ready)} ELSE ConsiderNext(e[k - 1], p)]
    BY <2>4, <2>5, Zenon
  <2>7. LoopsBy(ready, p, n + 1, e)
    BY <2>6 DEF LoopsBy
  <2> QED BY <2>1, <2>7
<1>3. S = Nat
  <2>1. S \in SUBSET Nat
    OBVIOUS
  <2> HIDE DEF S
  <2> QED BY <1>1, <1>2, <2>1, AllNaturals
<1> QED BY <1>3

\* The outcomes are those of such an f.
LEMMA OutcomesMade ==
  ASSUME NEW ready, NEW p, NEW m \in Nat, m = Cardinality({t \in ready : ~AtOnce(t)})
  PROVE  \E f : LoopsBy(ready, p, m, f) /\ Outcomes(ready, p) = {l.h : l \in f[m]}
PROOF
<1>1. \E f : LoopsBy(ready, p, m, f)
  BY LoopsExist
<1>2. LoopsBy(ready, p, m, CHOOSE f : LoopsBy(ready, p, m, f))
  BY <1>1, Zenon
<1>3. Outcomes(ready, p) = {l.h : l \in (CHOOSE f : LoopsBy(ready, p, m, f))[m]}
  BY Zenon DEF Outcomes, LoopsBy, Start
<1> QED BY <1>2, <1>3

\* In every way through the loop, a turn takes one of the tasks that are left.
LoopOK(p, l) ==
  /\ HandlerOK(p, l.h)
  /\ l.todo \subseteq {t \in ReadyAt(p) : ~AtOnce(t)}
  /\ l.todo \cap l.h.take = {}

\* Finitely many tasks are ready.
LEMMA FiniteReady ==
  ASSUME IInv, NEW p \in Procs
  PROVE  Cardinality({t \in ReadyAt(p) : ~AtOnce(t)}) \in Nat
PROOF
<1> DEFINE S == {t \in ReadyAt(p) : ~AtOnce(t)}
<1>1. Len(stream) \in Nat /\ DOMAIN stream = 1..Len(stream)
  BY DEF IInv, Prefix
<1>2. S \subseteq (1..Len(stream)) \X Cols
  <2>1. SUFFICES ASSUME NEW t \in S PROVE t \in (1..Len(stream)) \X Cols
    OBVIOUS
  <2>g. PICK g \in Nat \ {0} : \E i \in RowsOf(stream, g) : \E c \in Cols : t = <<i, c>>
    BY ReadyFacts
  <2>2. PICK i \in RowsOf(stream, g) : \E c \in Cols : t = <<i, c>>
    BY <2>g
  <2> QED BY <1>1, <2>2 DEF RowsOf
<1>3. IsFiniteSet((1..Len(stream)) \X Cols)
  <2>1. IsFiniteSet(1..Len(stream))
    BY <1>1, FS_Interval
  <2> QED BY <2>1, FS_Product, PlaceAssumption
<1>4. IsFiniteSet(S)
  BY <1>2, <1>3, FS_Subset
<1> QED BY <1>4, FS_CardinalityType

\* The tasks that are taken at once leave the columns alone.
LEMMA StartOK ==
  ASSUME IInv, NEW p \in Procs PROVE LoopOK(p, Start(ReadyAt(p)))
PROOF
<1> DEFINE R == ReadyAt(p)
           rest == {t \in R : ~AtOnce(t)}
           h == [column |-> column, info |-> info, failed |-> FALSE, take |-> R \ rest]
<1>1. h \in HState(R) /\ h.failed = FALSE
  BY DEF HState, IInv
<1>2. \A g \in Nat \ {0} : \A c \in Cols : Begun(selected \cup (R \ rest), g, c) = Begun(selected, g, c)
  <2>1. SUFFICES ASSUME NEW g \in Nat \ {0}, NEW c \in Cols, NEW i \in RowsOf(stream, g),
                        <<i, c>> \in R \ rest
                 PROVE  FALSE
    BY DEF Begun
  <2>2. AtOnce(<<i, c>>)
    BY <2>1
  <2>3. c # NoCol /\ stream[i].gen = g
    BY ColFacts DEF RowsOf
  <2> QED BY <2>2, <2>3 DEF AtOnce
<1>3. ColumnsOK(column, info, selected)
  BY DEF IInv
<1>4. ColumnsOK(column, info, selected \cup (R \ rest))
  <2>1. ASSUME NEW c \in Cols PROVE ColumnOK(info, selected \cup (R \ rest), c)
    <3>1. ColumnOK(info, selected, c) /\ info[c].gen \in Nat
      BY <1>3 DEF ColumnsOK, IInv, ColInfo
    <3> HIDE DEF R, rest
    <3> QED BY <1>2, <3>1 DEF ColumnOK
  <2> QED BY <1>3, <2>1 DEF ColumnsOK
<1>5. HandlerOK(p, h)
  BY <1>1, <1>4 DEF HandlerOK
<1> HIDE DEF R
<1>6. Start(R) = [h |-> h, todo |-> rest]
  BY DEF Start
<1>7. Start(R).h = h /\ Start(R).todo = rest /\ h.take \cap rest = {}
  BY <1>6
<1> QED BY <1>5, <1>7 DEF LoopOK, R

\* All that the handler may do keeps the columns in order.
LEMMA OutcomesOK ==
  ASSUME IInv, NEW p \in Procs, NEW h \in Outcomes(ReadyAt(p), p) PROVE HandlerOK(p, h)
PROOF
<1> DEFINE m == Cardinality({t \in ReadyAt(p) : ~AtOnce(t)})
<1>1. m \in Nat
  BY FiniteReady
<1> HIDE DEF m
<1>2. PICK f : LoopsBy(ReadyAt(p), p, m, f) /\ Outcomes(ReadyAt(p), p) = {l.h : l \in f[m]}
  BY <1>1, OutcomesMade DEF m
<1> DEFINE S == {n \in Nat : n \in 0..m => \A l \in f[n] : LoopOK(p, l)}
<1>3. \A n \in 0..m : f[n] = IF n = 0 THEN {Start(ReadyAt(p))} ELSE ConsiderNext(f[n - 1], p)
  BY <1>2 DEF LoopsBy
<1>4. 0 \in S
  <2>1. 0 \in 0..m
    BY <1>1
  <2>2. f[0] = {Start(ReadyAt(p))}
    BY <1>3, <2>1
  <2> QED BY <2>2, StartOK
<1>5. ASSUME NEW n \in S PROVE n + 1 \in S
  <2>1. SUFFICES ASSUME n + 1 \in 0..m PROVE \A l \in f[n + 1] : LoopOK(p, l)
    OBVIOUS
  <2>2. n \in Nat /\ n \in 0..m /\ n + 1 # 0 /\ (n + 1) - 1 = n
    BY <1>1, <2>1
  <2>3. f[n + 1] = ConsiderNext(f[n], p)
    BY <1>3, <2>1, <2>2
  <2>4. \A l \in f[n] : LoopOK(p, l)
    BY <1>5, <2>2
  <2>5. ASSUME NEW l \in f[n], NEW t \in l.todo
        PROVE  LoopOK(p, [h |-> Consider(l.h, t, p), todo |-> l.todo \ {t}])
    <3>1. /\ HandlerOK(p, l.h) /\ l.todo \subseteq {u \in ReadyAt(p) : ~AtOnce(u)}
          /\ l.todo \cap l.h.take = {}
      BY <2>4 DEF LoopOK
    <3>2. t \in ReadyAt(p) /\ ~AtOnce(t) /\ t \notin l.h.take
      BY <3>1
    <3>3. /\ HandlerOK(p, Consider(l.h, t, p))
          /\ Consider(l.h, t, p).take \subseteq l.h.take \cup {t}
      BY <3>1, <3>2, ConsiderOK
    <3> DEFINE k == Consider(l.h, t, p)
    <3> HIDE DEF k
    <3>4. HandlerOK(p, k) /\ k.take \subseteq l.h.take \cup {t}
      BY <3>3 DEF k
    <3>5. LoopOK(p, [h |-> k, todo |-> l.todo \ {t}])
      BY <3>1, <3>4 DEF LoopOK
    <3> QED BY <3>5 DEF k
  <2> QED BY <2>3, <2>5 DEF ConsiderNext
<1>6. S = Nat
  <2>1. S \in SUBSET Nat
    OBVIOUS
  <2> HIDE DEF S
  <2> QED BY <1>4, <1>5, <2>1, AllNaturals
<1>7. \A l \in f[m] : LoopOK(p, l)
  BY <1>1, <1>6
<1>8. PICK l \in f[m] : h = l.h
  BY <1>2
<1> QED BY <1>7, <1>8 DEF LoopOK


-----------------------------------------------------------------------------
(* The invariant *)

\* The initial states are in order.
LEMMA InitOK == Init => IInv
PROOF
<1> SUFFICES ASSUME Init PROVE IInv
  OBVIOUS
<1>1. /\ stream = <<>> /\ column = [p \in Procs |-> NoCol]
      /\ info = [c \in Cols |-> [gen |-> 0, rows |-> 0, procs |-> {}]]
      /\ selected = {} /\ mapped = {} /\ deferred = [p \in Procs |-> {}] /\ failed = FALSE
  BY DEF Init, InitMapper
<1>2. Prefix
  BY <1>1 DEF Prefix
<1>3. column \in [Procs -> Cols \cup {NoCol}] /\ info \in [Cols -> ColInfo]
  BY <1>1 DEF ColInfo
<1>4. LegionOK
  BY <1>1 DEF LegionOK
<1>5. \A c \in Cols : info[c].gen = 0 /\ info[c].rows = 0 /\ info[c].procs = {}
  BY <1>1
<1>6. \A g, c : Begun(selected, g, c) = {}
  BY <1>1 DEF Begun
<1>7. \A c \in Cols : ColumnOK(info, selected, c)
  BY <1>5, <1>6 DEF ColumnOK
<1>8. TakesPart(column, info)
  BY <1>1, <1>5 DEF TakesPart
<1> QED BY <1>1, <1>2, <1>3, <1>4, <1>7, <1>8 DEF IInv, ColumnsOK

\* As long as nothing is launched, points stay what they are, and ready.
LEMMA SameStream ==
  ASSUME stream' = stream, mapped \subseteq mapped'
  PROVE  /\ AllPoints' = AllPoints /\ TaskPoints' = TaskPoints
         /\ \A i : Points(i)' = Points(i)
         /\ \A t : IsReady(t) => IsReady(t)'
         /\ Prefix => Prefix'
PROOF
<1>1. \A i : Points(i)' = Points(i)
  BY DEF Points
<1>2. AllPoints' = AllPoints /\ TaskPoints' = TaskPoints
  BY <1>1 DEF AllPoints, TaskPoints, IsTaskForm
<1>3. \A t, j : DependsOn(t, j)' = DependsOn(t, j)
  BY <1>1 DEF DependsOn
<1>4. \A t : IsReady(t) => IsReady(t)'
  BY <1>3 DEF IsReady
<1>5. Prefix => Prefix'
  BY DEF Prefix
<1> QED BY <1>1, <1>2, <1>4, <1>5

\* Nor do the columns change but by the handler.
LEMMA SameColumns ==
  ASSUME stream' = stream, ColumnsOK(column', info', selected')
  PROVE  ColumnsOK(column, info, selected)'
PROOF
<1>1. \A g, c : Begun(selected, g, c)' = Begun(selected', g, c)
  BY DEF Begun, RowsOf
<1>2. \A t : Proc(t)' = Proc(t)
  BY DEF Proc
<1>3. ASSUME NEW c \in Cols PROVE ColumnOK(info, selected, c)'
  <2>1. ColumnOK(info', selected', c)
    BY DEF ColumnsOK
  <2> QED BY <1>1, <1>2, <2>1 DEF ColumnOK
<1>4. TakesPart(column, info)'
  BY DEF ColumnsOK, TakesPart
<1> QED BY <1>3, <1>4 DEF ColumnsOK

\* What select_tasks_to_map selects was ready, and the columns stay in order.
LEMMA SelectOK ==
  ASSUME IInv, NEW p \in Procs, Select(p) PROVE IInv'
PROOF
<1>1. PICK h \in Outcomes(ReadyAt(p), p) :
        /\ column' = h.column /\ info' = h.info /\ failed' = h.failed
        /\ selected' = selected \cup h.take
        /\ deferred' = [deferred EXCEPT ![p] = IF h.take = {} THEN ReadyAt(p) ELSE {}]
  BY DEF Select
<1>2. stream' = stream /\ mapped' = mapped
  BY DEF Select
<1>3. /\ h \in HState(ReadyAt(p)) /\ h.failed = FALSE
      /\ ColumnsOK(h.column, h.info, selected \cup h.take)
  BY OutcomesOK DEF HandlerOK
<1>4. /\ h.column \in [Procs -> Cols \cup {NoCol}] /\ h.info \in [Cols -> ColInfo]
      /\ h.take \subseteq ReadyAt(p)
  BY <1>3 DEF HState
<1>5. /\ AllPoints' = AllPoints /\ TaskPoints' = TaskPoints /\ Prefix'
      /\ \A t : IsReady(t) => IsReady(t)'
  BY <1>2, SameStream DEF IInv
<1>6. ColumnsOK(column, info, selected)'
  <2>1. ColumnsOK(column', info', selected')
    BY <1>1, <1>3
  <2> QED BY <1>2, <2>1, SameColumns
<1>7. \A t \in ReadyAt(p) : t \in TaskPoints /\ IsReady(t)
  BY ReadyFacts
<1>8. LegionOK'
  <2>1. LegionOK
    BY DEF IInv
  <2>2. mapped' \subseteq AllPoints' /\ selected' \subseteq TaskPoints'
    BY <1>1, <1>2, <1>4, <1>5, <1>7, <2>1 DEF LegionOK
  <2>3. (\A q \in Procs : deferred[q] \subseteq AllPoints)' /\ (deferred = [q \in Procs |-> deferred[q]])'
    <3>1. ReadyAt(p) \subseteq AllPoints
      BY <1>7 DEF TaskPoints
    <3> HIDE DEF ReadyAt
    <3>2. \A q \in Procs : deferred'[q] = IF q = p THEN (IF h.take = {} THEN ReadyAt(p) ELSE {})
                                          ELSE deferred[q]
      BY <1>1, <2>1 DEF LegionOK
    <3>3. \A q \in Procs : deferred'[q] \subseteq AllPoints'
      BY <1>5, <2>1, <3>1, <3>2 DEF LegionOK
    <3>4. deferred' = [q \in Procs |-> deferred'[q]]
      BY <1>1, <2>1 DEF LegionOK
    <3> QED BY <3>3, <3>4
  <2>4. (\A t \in selected \cup mapped : IsReady(t))'
    BY <1>1, <1>2, <1>4, <1>5, <1>7, <2>1 DEF LegionOK
  <2>5. mapped' \cap TaskPoints' \subseteq selected'
    BY <1>1, <1>2, <1>5, <2>1 DEF LegionOK
  <2> QED BY <2>2, <2>3, <2>4, <2>5 DEF LegionOK
<1> QED BY <1>1, <1>3, <1>4, <1>5, <1>6, <1>8 DEF IInv

\* Mapping what is ready, and a task only when it was selected, keeps everything in order.
LEMMA MapOK ==
  ASSUME IInv, NEW t \in AllPoints, IsReady(t), t \in TaskPoints => t \in selected,
         mapped' = mapped \cup {t}, UNCHANGED <<stream, column, info, selected, failed>>,
         deferred' = deferred \/ deferred' = [q \in Procs |-> {}]
  PROVE  IInv'
PROOF
<1>1. /\ AllPoints' = AllPoints /\ TaskPoints' = TaskPoints /\ Prefix'
      /\ \A u : IsReady(u) => IsReady(u)'
  BY SameStream DEF IInv
<1>2. ColumnsOK(column, info, selected)'
  <2>1. ColumnsOK(column', info', selected')
    BY DEF IInv
  <2> QED BY <2>1, SameColumns
<1>3. LegionOK'
  <2>1. LegionOK
    BY DEF IInv
  <2>2. mapped' \subseteq AllPoints' /\ selected' \subseteq TaskPoints'
    BY <1>1, <2>1 DEF LegionOK
  <2>3. (\A q \in Procs : deferred[q] \subseteq AllPoints)' /\ (deferred = [q \in Procs |-> deferred[q]])'
    BY <1>1, <2>1 DEF LegionOK
  <2>4. (\A u \in selected \cup mapped : IsReady(u))'
    BY <1>1, <2>1 DEF LegionOK
  <2>5. mapped' \cap TaskPoints' \subseteq selected'
    BY <1>1, <2>1 DEF LegionOK
  <2> QED BY <2>2, <2>3, <2>4, <2>5 DEF LegionOK
<1> QED BY <1>1, <1>2, <1>3 DEF IInv

\* A launch leaves the points of the earlier ones alone.
LEMMA LaunchOK == ASSUME IInv, Launch PROVE IInv'
PROOF
<1>1. PICK s \in Programs : /\ Len(s) > Len(stream)
                            /\ stream' = SubSeq(s, 1, Len(stream) + 1)
                            /\ SubSeq(s, 1, Len(stream)) = stream
  BY DEF Launch
<1> DEFINE n == Len(stream)
<1>2. n \in Nat /\ DOMAIN stream = 1..n
  BY DEF IInv, Prefix
<1>3. s \in Seq(Range(s))
  BY ProgramsAssumption
<1>4. /\ Len(stream') = n + 1 /\ DOMAIN stream' = 1..(n + 1)
      /\ stream' = [i \in 1..Len(stream') |-> stream'[i]]
      /\ \A i \in 1..(n + 1) : stream'[i] = s[i]
      /\ \A i \in 1..n : stream[i] = s[i]
      /\ n + 1 <= Len(s)
  BY <1>1, <1>2, <1>3
<1> HIDE DEF n
<1>5. /\ \A i \in DOMAIN stream : stream'[i] = stream[i] /\ i \in DOMAIN stream'
      /\ \A i \in DOMAIN stream : \A j \in 1..i : j \in DOMAIN stream
  BY <1>2, <1>4
<1>6. Prefix'
  BY <1>2, <1>4 DEF Prefix
<1>7. UNCHANGED <<column, info, selected, mapped, deferred, failed>>
  BY DEF Launch, mapperVars
<1>8. \A i \in DOMAIN stream : Points(i)' = Points(i)
  BY <1>5 DEF Points
<1>9. \A t \in AllPoints : t[1] \in DOMAIN stream
  BY PointFacts DEF AllPoints
<1>10. AllPoints \subseteq AllPoints'
  BY <1>5, <1>8 DEF AllPoints
<1>11. \A t \in AllPoints : t \in TaskPoints <=> t \in TaskPoints'
  BY <1>5, <1>9, <1>10 DEF TaskPoints, IsTaskForm
<1>12. ASSUME NEW t \in AllPoints, IsReady(t) PROVE IsReady(t)'
  <2>1. SUFFICES ASSUME NEW j \in 1..(t[1] - 1) PROVE DependsOn(t, j)' \subseteq mapped
    BY <1>7 DEF IsReady
  <2>2. t[1] \in DOMAIN stream /\ j \in DOMAIN stream
    BY <1>2, <1>9
  <2>3. DependsOn(t, j)' = DependsOn(t, j)
    <3>1. stream'[t[1]] = stream[t[1]] /\ stream'[j] = stream[j] /\ Points(j)' = Points(j)
      BY <1>5, <1>8, <2>2
    <3> QED BY <3>1 DEF DependsOn
  <2> QED BY <1>12, <2>3 DEF IsReady
<1>13. LegionOK /\ selected \subseteq AllPoints
  BY DEF IInv, LegionOK, TaskPoints
<1>14. LegionOK'
  <2>1. mapped' \subseteq AllPoints' /\ selected' \subseteq TaskPoints'
    BY <1>7, <1>10, <1>11, <1>13 DEF LegionOK
  <2>2. (\A q \in Procs : deferred[q] \subseteq AllPoints)' /\ (deferred = [q \in Procs |-> deferred[q]])'
    BY <1>7, <1>10, <1>13 DEF LegionOK
  <2>3. (\A t \in selected \cup mapped : IsReady(t))'
    BY <1>7, <1>12, <1>13 DEF LegionOK
  <2>4. mapped' \cap TaskPoints' \subseteq selected'
    BY <1>7, <1>11, <1>13 DEF LegionOK
  <2> QED BY <2>1, <2>2, <2>3, <2>4 DEF LegionOK
<1>15. \A g, c : Begun(selected, g, c)' = Begun(selected, g, c)
  <2>1. \A i, c : <<i, c>> \in selected => i \in DOMAIN stream
    BY <1>9, <1>13
  <2> QED BY <1>5, <1>7, <2>1 DEF Begun, RowsOf
<1>16. \A g, c : \A i \in Begun(selected, g, c) :
         stream'[i] = stream[i] /\ Proc(<<i, c>>)' = Proc(<<i, c>>)
  BY <1>5 DEF Begun, RowsOf, Proc
<1>17. ColumnsOK(column, info, selected)'
  <2>1. ColumnsOK(column, info, selected)
    BY DEF IInv
  <2>2. ASSUME NEW c \in Cols PROVE ColumnOK(info, selected, c)'
    <3>1. ColumnOK(info, selected, c)
      BY <2>1 DEF ColumnsOK
    <3>2. {Proc(<<k, c>>)' : k \in Begun(selected, info[c].gen, c)}
            = {Proc(<<k, c>>) : k \in Begun(selected, info[c].gen, c)}
      BY <1>16
    <3> DEFINE g == info[c].gen
               rows == Begun(selected, g, c)
    <3>3. /\ info' = info /\ (info[c].gen)' = g /\ Begun(selected, info[c].gen, c)' = rows
          /\ {Proc(<<k, c>>) : k \in Begun(selected, info[c].gen, c)}' = {Proc(<<k, c>>) : k \in rows}
      BY <1>7, <1>15, <3>2
    <3>4. \A h \in Nat \ {0} : Begun(selected, h, c)' # {} => h <= g
      BY <1>15, <3>1 DEF ColumnOK
    <3>5. ASSUME g # 0, NEW i \in rows
          PROVE  IF Cardinality(rows) = stream'[i].size
                   THEN info[c].rows = 0 /\ info[c].procs = {}
                   ELSE /\ info[c].rows = Cardinality(rows)
                        /\ info[c].procs = {Proc(<<k, c>>) : k \in rows}
      <4>1. IF Cardinality(rows) = stream[i].size
              THEN info[c].rows = 0 /\ info[c].procs = {}
              ELSE /\ info[c].rows = Cardinality(rows)
                   /\ info[c].procs = {Proc(<<k, c>>) : k \in rows}
        BY <3>1, <3>5 DEF ColumnOK
      <4>2. stream'[i] = stream[i]
        BY <1>16, <3>5
      <4> QED BY <4>1, <4>2
    <3>6. g = 0 => info[c].rows = 0 /\ info[c].procs = {}
      BY <3>1 DEF ColumnOK
    <3>7. g # 0 => rows # {}
      BY <3>1 DEF ColumnOK
    <3> QED BY <3>3, <3>4, <3>5, <3>6, <3>7 DEF ColumnOK
  <2>3. TakesPart(column, info)'
    BY <1>7, <2>1 DEF ColumnsOK, TakesPart
  <2> QED BY <2>2, <2>3 DEF ColumnsOK
<1> QED BY <1>6, <1>7, <1>14, <1>17 DEF IInv

\* The columns are in order, and the mapper has finished every generation before the next, in every state.
THEOREM Invariance == Spec => []IInv
PROOF
<1>1. Init => IInv
  BY InitOK
<1>2. IInv /\ [Next]_vars => IInv'
  <2> SUFFICES ASSUME IInv, [Next]_vars PROVE IInv'
    OBVIOUS
  <2>1. CASE Launch
    BY <2>1, LaunchOK
  <2>2. ASSUME NEW p \in Procs, Select(p) PROVE IInv'
    BY <2>2, SelectOK
  <2>3. CASE MapTask
    <3>1. PICK t \in selected \ mapped : mapped' = mapped \cup {t} /\ deferred' = Triggered(t)
      BY <2>3 DEF MapTask
    <3>2. UNCHANGED <<stream, column, info, selected, failed>>
      BY <2>3 DEF MapTask
    <3>3. t \in AllPoints /\ IsReady(t)
      BY DEF IInv, LegionOK, TaskPoints
    <3>4. deferred' = [q \in Procs |-> {}]
      BY <3>1 DEF Triggered
    <3> QED BY <3>1, <3>2, <3>3, <3>4, MapOK
  <2>4. CASE MapOther
    <3>1. PICK i \in DOMAIN stream : \E t \in Points(i) :
            /\ ~IsTaskForm(stream[i]) /\ IsReady(t) /\ mapped' = mapped \cup {t}
            /\ UNCHANGED <<stream, column, info, selected, deferred, failed>>
      BY <2>4 DEF MapOther
    <3>2. PICK t \in Points(i) :
            /\ ~IsTaskForm(stream[i]) /\ IsReady(t) /\ mapped' = mapped \cup {t}
            /\ UNCHANGED <<stream, column, info, selected, deferred, failed>>
      BY <3>1
    <3>3. t \in AllPoints /\ t \notin TaskPoints
      <4>1. t[1] = i
        BY PointFacts
      <4> QED BY <3>2, <4>1 DEF AllPoints, TaskPoints
    <3> QED BY <3>2, <3>3, MapOK
  <2>5. CASE UNCHANGED vars
    <3>1. UNCHANGED <<stream, column, info, selected, mapped, deferred, failed>>
      BY <2>5 DEF vars, mapperVars
    <3>2. /\ AllPoints' = AllPoints /\ TaskPoints' = TaskPoints /\ Prefix'
          /\ \A u : IsReady(u) => IsReady(u)'
      BY <3>1, SameStream DEF IInv
    <3>3. ColumnsOK(column, info, selected)'
      <4>1. ColumnsOK(column', info', selected')
        BY <3>1 DEF IInv
      <4> QED BY <3>1, <4>1, SameColumns
    <3>4. LegionOK'
      BY <3>1, <3>2 DEF IInv, LegionOK
    <3> QED BY <3>1, <3>2, <3>3, <3>4 DEF IInv
  <2> QED BY <2>1, <2>2, <2>3, <2>4, <2>5 DEF Next, MapperNext
<1> QED BY <1>1, <1>2, PTL DEF Spec

-----------------------------------------------------------------------------
(* What follows *)

\* A column counts rows exactly while it is mapped on some processor (StreamingInfo).
THEOREM TypeCorrect == Spec => []TypeOK
PROOF
<1>1. IInv => TypeOK
  <2> SUFFICES ASSUME IInv PROVE TypeOK
    OBVIOUS
  <2>1. ASSUME NEW c \in Cols
        PROVE  /\ info[c].rows \in Nat /\ info[c].procs \subseteq Procs
               /\ info[c].rows = 0 <=> info[c].procs = {}
    <3>1. ColumnOK(info, selected, c) /\ info[c] \in ColInfo
      BY DEF IInv, ColumnsOK
    <3>2. info[c].gen \in Nat /\ info[c].rows \in Nat /\ info[c].procs \subseteq Procs
      BY <3>1 DEF ColInfo
    <3>3. CASE info[c].gen = 0
      BY <3>1, <3>2, <3>3 DEF ColumnOK
    <3>4. CASE info[c].gen # 0
      <4> DEFINE g == info[c].gen
                 rows == Begun(selected, g, c)
      <4>1. rows # {} /\ g \in Nat \ {0}
        BY <3>1, <3>2, <3>4 DEF ColumnOK
      <4>2. PICK i \in rows : TRUE
        BY <4>1
      <4>3. IsFiniteSet(rows)
        <5>1. i \in RowsOf(stream, g) /\ rows \subseteq RowsOf(stream, g)
          BY DEF Begun
        <5>2. IsFiniteSet(RowsOf(stream, g))
          BY <4>1, <5>1, PrefixOK DEF IInv, StreamOK
        <5> QED BY <5>1, <5>2, FS_Subset
      <4>4. Cardinality(rows) # 0
        BY <4>1, <4>3, FS_EmptySet
      <4>5. IF Cardinality(rows) = stream[i].size
              THEN info[c].rows = 0 /\ info[c].procs = {}
              ELSE /\ info[c].rows = Cardinality(rows)
                   /\ info[c].procs = {Proc(<<k, c>>) : k \in rows}
        BY <3>1, <3>4 DEF ColumnOK
      <4>6. Proc(<<i, c>>) \in {Proc(<<k, c>>) : k \in rows}
        OBVIOUS
      <4> QED BY <3>2, <4>4, <4>5, <4>6
    <3> QED BY <3>3, <3>4
  <2>2. selected \subseteq AllPoints
    BY DEF IInv, LegionOK, TaskPoints
  <2> QED BY <2>1, <2>2 DEF IInv, LegionOK, TypeOK
<1> QED BY <1>1, Invariance, PTL

\* The check of select_column never fails: a column is not given to another generation before the rows of
\* the one before have all been taken there.
THEOREM NoneLeftBehind == Spec => []NoGenerationLeftBehind
PROOF
<1>1. IInv => NoGenerationLeftBehind
  BY DEF IInv, NoGenerationLeftBehind
<1> QED BY <1>1, Invariance, PTL

\* Every processor is busy with the column that it has begun and not finished, which is the one it says.
THEOREM BusyWithOne == Spec => []BusyWithOpenColumn
PROOF
<1>1. IInv => BusyWithOpenColumn
  <2> SUFFICES ASSUME IInv, NEW p \in Procs
               PROVE  {c \in Cols : \E g \in Generations :
                          Open(g, c) /\ \E i \in Rows(g, c) : Proc(<<i, c>>) = p}
                        = {column[p]} \ {NoCol}
    BY DEF BusyWithOpenColumn
  <2>1. StreamOK /\ Prefix /\ LegionOK /\ TakesPart(column, info) /\ column[p] \in Cols \cup {NoCol}
    BY PrefixOK DEF IInv, ColumnsOK
  <2>2. \A g, c : Rows(g, c) = Begun(selected, g, c)
    BY DEF Rows, Begun
  <2>3. ASSUME NEW g \in Generations
        PROVE  g \in Nat \ {0}
    BY <2>1 DEF Generations, StreamOK
  <2>4. ASSUME NEW c \in Cols
        PROVE  (\E g \in Generations : Open(g, c) /\ \E i \in Rows(g, c) : Proc(<<i, c>>) = p)
                 <=> p \in info[c].procs
    <3> DEFINE f == info[c].gen
    <3>1. ColumnOK(info, selected, c) /\ f \in Nat
      BY DEF IInv, ColumnsOK, ColInfo
    <3>2. ASSUME NEW g \in Generations, Open(g, c), NEW i \in Rows(g, c), Proc(<<i, c>>) = p
          PROVE  p \in info[c].procs
      <4>1. g \in Nat \ {0} /\ i \in Begun(selected, g, c)
        BY <2>2, <2>3
      <4>2. i \in RowsOf(stream, g) /\ Cardinality(Begun(selected, g, c)) < stream[i].size
        BY <2>2, <3>2 DEF Open, Begun
      <4>3. stream[i].size \in Nat
        BY <2>1, <4>2 DEF StreamOK, RowsOf
      <4>4. /\ IsFiniteSet(RowsOf(stream, g)) /\ Cardinality(RowsOf(stream, g)) \in Nat
            /\ Cardinality(Begun(selected, g, c)) \in Nat
        <5>1. IsFiniteSet(RowsOf(stream, g))
          BY <2>1, <4>1, <4>2 DEF StreamOK
        <5>2. IsFiniteSet(Begun(selected, g, c))
          BY <5>1, FS_Subset DEF Begun
        <5> QED BY <5>1, <5>2, FS_CardinalityType
      <4>5. g = f
        <5>1. SUFFICES ASSUME g # f PROVE FALSE
          OBVIOUS
        <5>2. g < f
          BY <3>1, <4>1, <5>1 DEF ColumnOK
        <5>3. PICK k \in Begun(selected, f, c) : TRUE
          BY <3>1, <4>1, <5>2 DEF ColumnOK
        <5>4. k \in RowsOf(stream, f) /\ <<k, c>> \in selected
          BY DEF Begun
        <5>5. IsReady(<<k, c>>)
          BY <2>1, <5>4 DEF LegionOK
        <5>6. \A j \in RowsOf(stream, g) : <<j, c>> \in selected
          <6>1. SUFFICES ASSUME NEW j \in RowsOf(stream, g) PROVE <<j, c>> \in selected
            OBVIOUS
          <6>2. f \in Nat \ {0}
            BY <3>1, <4>1, <5>2
          <6> HIDE DEF f
          <6> QED BY <2>1, <4>1, <5>2, <5>4, <5>5, <6>2, Earlier
        <5>7. Begun(selected, g, c) = RowsOf(stream, g)
          BY <5>6 DEF Begun
        <5>8. Cardinality(RowsOf(stream, g)) = stream[i].size
          BY <2>1, <3>1, <4>1, <4>2, <5>2, <5>4 DEF StreamOK
        <5> QED BY <4>2, <4>3, <4>4, <5>7, <5>8
      <4>6. info[c].procs = {Proc(<<k, c>>) : k \in Begun(selected, g, c)}
        BY <3>1, <4>1, <4>2, <4>3, <4>4, <4>5 DEF ColumnOK
      <4> QED BY <3>2, <4>1, <4>6
    <3>3. ASSUME p \in info[c].procs
          PROVE  \E g \in Generations : Open(g, c) /\ \E i \in Rows(g, c) : Proc(<<i, c>>) = p
      <4> DEFINE rows == Begun(selected, f, c)
      <4>1. f # 0 /\ rows # {}
        BY <3>1, <3>3 DEF ColumnOK
      <4>2. \A i \in rows : /\ Cardinality(rows) # stream[i].size
                            /\ info[c].procs = {Proc(<<k, c>>) : k \in rows}
        BY <3>1, <3>3, <4>1 DEF ColumnOK
      <4>3. PICK i \in rows : Proc(<<i, c>>) = p
        BY <3>3, <4>1, <4>2
      <4>4. f \in Generations
        BY <4>1, <4>3 DEF Generations, Begun, RowsOf
      <4>5. ASSUME NEW j \in rows PROVE Cardinality(rows) < stream[j].size
        <5>1. j \in RowsOf(stream, f) /\ rows \subseteq RowsOf(stream, f) /\ f \in Nat \ {0}
          BY <3>1, <4>1 DEF Begun
        <5>2. /\ IsFiniteSet(RowsOf(stream, f)) /\ Cardinality(RowsOf(stream, f)) <= stream[j].size
              /\ stream[j].size \in Nat
          BY <2>1, <5>1 DEF StreamOK, RowsOf
        <5>3. /\ Cardinality(rows) \in Nat /\ Cardinality(RowsOf(stream, f)) \in Nat
              /\ Cardinality(rows) <= Cardinality(RowsOf(stream, f))
          BY <5>1, <5>2, FS_Subset, FS_CardinalityType
        <5> QED BY <4>2, <5>2, <5>3
      <4>6. Open(f, c)
        BY <2>2, <4>1, <4>5 DEF Open
      <4> QED BY <2>2, <4>3, <4>4, <4>6
    <3> QED BY <3>2, <3>3
  <2>5. \A c \in Cols : p \in info[c].procs <=> column[p] = c
    BY <2>1, ColFacts DEF TakesPart
  <2> QED BY <2>1, <2>4, <2>5, ColFacts
<1> QED BY <1>1, Invariance, PTL
=============================================================================
