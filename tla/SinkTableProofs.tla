-------------------------- MODULE SinkTableProofs ---------------------------
(***************************************************************************)
(* ShowsPrefix of Sink, for every log whose batches have all changes of a  *)
(* row in one group, and every environment.                                *)
(***************************************************************************)
EXTENDS SinkProofs, Extremes

(* The PostgreSQL table *)

\* A row of PostgreSQL has all columns.
IsRow(row) ==
  row.present => row.data = [col \in Columns |-> row.data[col]]

EmptySource == [k \in Keys |-> NoRow]

\* h is the history of the table up to message n.
History(h, n) ==
  h = [m \in 0..n |-> IF m = 0 THEN EmptySource
                               ELSE ApplyToSource(h[m - 1], Log[m])]

\* SourceAt is defined by recursion over the log: it exists.
LEMMA HistoryExists == \E h : History(h, Len(Log))
<1> USE SizeAssumption
<1> DEFINE T == {n \in 0..Len(Log) : ~\E h : History(h, n)}
<1> SUFFICES ASSUME T # {} PROVE FALSE
  OBVIOUS
<1>1. PICK n \in T : \A m \in T : n =< m
  <2>1. T \in SUBSET (0..Len(Log))
    OBVIOUS
  <2> HIDE DEF T
  <2> QED
    BY <2>1, Least
<1>2. n # 0
  <2>1. History([m \in 0..0 |-> EmptySource], 0)
    BY DEF History
  <2> QED
    BY <2>1
<1>3. PICK h : History(h, n - 1)
  BY <1>1, <1>2
<1> DEFINE g == [m \in 0..n |-> IF m = n THEN ApplyToSource(h[n - 1], Log[n]) ELSE h[m]]
<1>4. ASSUME NEW m \in 0..n
      PROVE  g[m] = IF m = 0 THEN EmptySource ELSE ApplyToSource(g[m - 1], Log[m])
  <2>1. CASE m = n
    BY <1>2, <2>1
  <2>2. CASE m # n
    <3>1. m \in 0..(n - 1)
      BY <2>2
    <3>2. h[m] = IF m = 0 THEN EmptySource ELSE ApplyToSource(h[m - 1], Log[m])
      BY <1>3, <3>1 DEF History
    <3>3. m # 0 => g[m - 1] = h[m - 1]
      BY <2>2
    <3> QED
      BY <2>2, <3>2, <3>3
  <2> QED
    BY <2>1, <2>2
<1>5. History(g, n)
  BY <1>4 DEF History
<1> QED
  BY <1>5

LEMMA SourceSteps ==
  /\ SourceAt[0] = EmptySource
  /\ \A n \in 1..Len(Log) : SourceAt[n] = ApplyToSource(SourceAt[n - 1], Log[n])
<1> USE SizeAssumption
<1>1. History(SourceAt, Len(Log))
  BY HistoryExists DEF SourceAt, History, EmptySource
<1>2. \A m \in 0..Len(Log) :
        SourceAt[m] = IF m = 0 THEN EmptySource
                               ELSE ApplyToSource(SourceAt[m - 1], Log[m])
  BY <1>1 DEF History
<1> QED
  BY <1>2

\* What the log says of a row change.
LEMMA LogFacts ==
  ASSUME NEW n \in 1..Len(Log), IsRowChange(Log[n])
  PROVE  /\ Log[n].from \in Keys /\ Log[n].key \in Keys
         /\ Log[n].toast \subseteq Columns
         /\ Log[n].row = [col \in Columns |-> Log[n].row[col]]
         /\ Log[n].op = "update" =>
              /\ SourceAt[n - 1][Log[n].from].present
              /\ \A col \in Log[n].toast :
                   Log[n].row[col] = SourceAt[n - 1][Log[n].from].data[col]
         /\ Log[n].op # "update" => Log[n].toast = {} /\ Log[n].from = Log[n].key
BY LogAssumption

IsTable(source) ==
  /\ source = [k \in Keys |-> source[k]]
  /\ \A k \in Keys : IsRow(source[k])

\* What message n leaves of row k: nothing new, the row it carries, or none.
LEMMA StepRows ==
  ASSUME NEW n \in 1..Len(Log), NEW source, IsTable(source)
  PROVE  LET next == ApplyToSource(source, Log[n]) IN
         /\ IsTable(next)
         /\ \A k \in Keys :
              /\ ~TouchesRow(n, k) => next[k] = source[k]
              /\ Changes(n, k) /\ Log[n].key = k =>
                   next[k] = IF Log[n].op = "delete" THEN NoRow ELSE Row(Log[n].row)
              /\ Changes(n, k) /\ Log[n].key # k => next[k] = NoRow
              /\ Truncates(n, k) => next[k] = NoRow
<1> DEFINE c == Log[n]
           next == ApplyToSource(source, c)
<1>1. CASE ~IsRowChange(c) /\ c.op # "truncate"
  <2>1. next = source
    BY <1>1 DEF ApplyToSource, IsRowChange
  <2> QED
    BY <1>1, <2>1 DEF TouchesRow, Changes, Truncates
<1>2. CASE IsRowChange(c)
  <2>0. c.from \in Keys /\ c.key \in Keys /\ (c.op # "update" => c.from = c.key)
    BY <1>2, LogFacts
  <2>1. source = [k \in Keys |-> source[k]]
    BY DEF IsTable
  <2>2. /\ next = [k \in Keys |-> next[k]]
        /\ \A k \in Keys :
             next[k] = IF k = c.key
                       THEN IF c.op = "delete" THEN NoRow ELSE Row(c.row)
                       ELSE IF k = c.from THEN NoRow ELSE source[k]
    <3>1. CASE c.op = "insert"
      <4>1. next = [source EXCEPT ![c.key] = Row(c.row)]
        BY <3>1 DEF ApplyToSource
      <4> QED
        BY <2>0, <2>1, <3>1, <4>1
    <3>2. CASE c.op = "update"
      <4>1. next = [source EXCEPT ![c.from] = NoRow, ![c.key] = Row(c.row)]
        BY <3>2 DEF ApplyToSource
      <4> QED
        BY <2>0, <2>1, <3>2, <4>1
    <3>3. CASE c.op = "delete"
      <4>1. next = [source EXCEPT ![c.key] = NoRow]
        BY <3>3 DEF ApplyToSource
      <4> QED
        BY <2>0, <2>1, <3>3, <4>1
    <3> QED
      BY <1>2, <3>1, <3>2, <3>3 DEF IsRowChange
  <2>3. IsRow(NoRow) /\ IsRow(Row(c.row))
    BY <1>2, LogFacts DEF IsRow, NoRow, Row
  <2>4. \A k \in Keys : IsRow(source[k])
    BY DEF IsTable
  <2>5. IsTable(next)
    <3>1. \A k \in Keys : IsRow(next[k])
      <4> HIDE DEF next
      <4> QED
        BY <2>2, <2>3, <2>4
    <3> QED
      BY <2>2, <3>1 DEF IsTable
  <2>6. c.op # "truncate"
    BY <1>2 DEF IsRowChange
  <2> QED
    BY <1>2, <2>0, <2>2, <2>5, <2>6 DEF TouchesRow, Changes, Truncates
<1>3. CASE c.op = "truncate"
  <2>1. next = [k \in Keys |-> IF k \in c.emptied THEN NoRow ELSE source[k]]
    BY <1>3 DEF ApplyToSource
  <2>2. ~IsRowChange(c)
    BY <1>3 DEF IsRowChange
  <2>3. IsTable(next)
    BY <2>1 DEF IsTable, IsRow, NoRow
  <2> QED
    BY <1>3, <2>1, <2>2, <2>3 DEF TouchesRow, Changes, Truncates
<1> QED
  BY <1>1, <1>2, <1>3

LEMMA SourceIsTable == \A n \in 0..Len(Log) : IsTable(SourceAt[n])
<1> USE SizeAssumption
<1> DEFINE T == {n \in 0..Len(Log) : ~IsTable(SourceAt[n])}
<1> SUFFICES ASSUME T # {} PROVE FALSE
  OBVIOUS
<1>1. PICK n \in T : \A m \in T : n =< m
  <2>1. T \in SUBSET (0..Len(Log))
    OBVIOUS
  <2> HIDE DEF T
  <2> QED
    BY <2>1, Least
<1>2. CASE n = 0
  BY <1>2, SourceSteps DEF IsTable, EmptySource, IsRow, NoRow
<1>3. CASE n # 0
  <2>1. n \in 1..Len(Log) /\ n - 1 \in 0..Len(Log) /\ n - 1 \notin T
    BY <1>1, <1>3
  <2> QED
    BY <2>1, SourceSteps, StepRows
<1> QED
  BY <1>2, <1>3

\* Row k after message n, by what the message does to it.
LEMMA SourceStep ==
  ASSUME NEW n \in 1..Len(Log), NEW k \in Keys
  PROVE  /\ ~TouchesRow(n, k) => SourceAt[n][k] = SourceAt[n - 1][k]
         /\ Changes(n, k) /\ Log[n].key = k =>
              SourceAt[n][k] = IF Log[n].op = "delete" THEN NoRow ELSE Row(Log[n].row)
         /\ Changes(n, k) /\ Log[n].key # k => SourceAt[n][k] = NoRow
         /\ Truncates(n, k) => SourceAt[n][k] = NoRow
<1>1. n - 1 \in 0..Len(Log) /\ IsTable(SourceAt[n - 1])
  BY SizeAssumption, SourceIsTable
<1>2. SourceAt[n] = ApplyToSource(SourceAt[n - 1], Log[n])
  BY SourceSteps
<1> QED
  BY <1>1, <1>2, StepRows

SameCell(a, b, col) ==
  /\ a.present <=> b.present
  /\ a.present => a.data[col] = b.data[col]

\* A message that does not settle a cell leaves it as it is.
LEMMA UnsettledStep ==
  ASSUME NEW n \in 1..Len(Log), NEW k \in Keys, NEW col \in Columns,
         ~Settles(n, k, col)
  PROVE  SameCell(SourceAt[n - 1][k], SourceAt[n][k], col)
<1>1. CASE ~TouchesRow(n, k)
  BY <1>1, SourceStep DEF SameCell
<1>2. CASE TouchesRow(n, k)
  <2>1. IsRowChange(Log[n]) /\ Log[n].from = k /\ Log[n].key = k /\ col \in Log[n].toast
    BY <1>2 DEF Settles, TouchesRow, Changes, Truncates, IsRowChange
  <2>2. Log[n].op = "update"
    BY <2>1, LogFacts
  <2>3. SourceAt[n][k] = Row(Log[n].row)
    BY <2>1, <2>2, SourceStep DEF Changes
  <2>4. /\ SourceAt[n - 1][k].present
        /\ Log[n].row[col] = SourceAt[n - 1][k].data[col]
    <3>1. Log[n].op = "update" =>
            /\ SourceAt[n - 1][Log[n].from].present
            /\ \A d \in Log[n].toast :
                 Log[n].row[d] = SourceAt[n - 1][Log[n].from].data[d]
      BY <2>1, LogFacts
    <3> QED
      BY <2>1, <2>2, <3>1
  <2> QED
    BY <2>3, <2>4 DEF SameCell, Row
<1> QED
  BY <1>1, <1>2

\* Nor do several.
LEMMA Unsettled ==
  ASSUME NEW p \in 0..Len(Log), NEW q \in p..Len(Log),
         NEW k \in Keys, NEW col \in Columns,
         \A n \in (p + 1)..q : ~Settles(n, k, col)
  PROVE  SameCell(SourceAt[p][k], SourceAt[q][k], col)
<1> USE SizeAssumption
<1> DEFINE T == {n \in p..q : ~SameCell(SourceAt[p][k], SourceAt[n][k], col)}
<1> SUFFICES ASSUME T # {} PROVE FALSE
  OBVIOUS
<1>1. PICK n \in T : \A m \in T : n =< m
  <2>1. T \in SUBSET (0..Len(Log))
    OBVIOUS
  <2> HIDE DEF T
  <2> QED
    BY <2>1, Least
<1>2. n # p
  BY DEF SameCell
<1>3. n \in (p + 1)..q /\ n \in 1..Len(Log) /\ n - 1 \in p..q /\ n - 1 \notin T
  BY <1>1, <1>2
<1>4. SameCell(SourceAt[p][k], SourceAt[n - 1][k], col)
  BY <1>3
<1>5. SameCell(SourceAt[n - 1][k], SourceAt[n][k], col)
  BY <1>3, UnsettledStep
<1> QED
  BY <1>4, <1>5 DEF SameCell

\* A row that no message touches stays the same.
LEMMA Untouched ==
  ASSUME NEW p \in 0..Len(Log), NEW q \in p..Len(Log), NEW k \in Keys,
         \A n \in (p + 1)..q : ~TouchesRow(n, k)
  PROVE  SourceAt[q][k] = SourceAt[p][k]
<1> USE SizeAssumption
<1> DEFINE T == {n \in p..q : SourceAt[n][k] # SourceAt[p][k]}
<1> SUFFICES ASSUME T # {} PROVE FALSE
  OBVIOUS
<1>1. PICK n \in T : \A m \in T : n =< m
  <2>1. T \in SUBSET (0..Len(Log))
    OBVIOUS
  <2> HIDE DEF T
  <2> QED
    BY <2>1, Least
<1>2. n # p
  OBVIOUS
<1>3. n \in (p + 1)..q /\ n \in 1..Len(Log) /\ n - 1 \in p..q /\ n - 1 \notin T
  BY <1>1, <1>2
<1> QED
  BY <1>3, SourceStep

-----------------------------------------------------------------------------
(* Single cells *)

\* CellMatches and Shown, of any table.
RowMatches(r, row, col) ==
  /\ (r.present /\ ~r.deleted) <=> row.present
  /\ r.present /\ ~r.deleted => r.data[col] = row.data[col]

ShownIn(t, r, k, col, p) ==
  \/ RowMatches(t[k], SourceAt[p][k], col)
  \/ \E n \in (p + 1)..r : Settles(n, k, col)

LEMMA ShownIsShownIn ==
  \A k, col, p : Shown(k, col, p) <=> ShownIn(table, reached, k, col, p)
BY DEF Shown, ShownIn, CellMatches, RowMatches, Active

LEMMA SameMatches ==
  ASSUME NEW r, NEW a, NEW b, NEW col, SameCell(a, b, col), RowMatches(r, a, col)
  PROVE  RowMatches(r, b, col)
BY DEF SameCell, RowMatches

\* What is shown up to a message is shown up to an earlier one.
LEMMA ShownEarlier ==
  ASSUME NEW t, NEW r \in Nat, NEW k \in Keys, NEW col \in Columns,
         NEW p \in 0..Len(Log), NEW q \in p..Len(Log), q =< r,
         ShownIn(t, r, k, col, q)
  PROVE  ShownIn(t, r, k, col, p)
<1> USE SizeAssumption
<1>1. CASE \E n \in (p + 1)..r : Settles(n, k, col)
  BY <1>1 DEF ShownIn
<1>2. CASE ~\E n \in (p + 1)..r : Settles(n, k, col)
  <2>1. RowMatches(t[k], SourceAt[q][k], col)
    BY <1>2 DEF ShownIn
  <2>2. SameCell(SourceAt[p][k], SourceAt[q][k], col)
    BY <1>2, Unsettled
  <2>3. SameCell(SourceAt[q][k], SourceAt[p][k], col)
    BY <2>2 DEF SameCell
  <2> QED
    BY <2>1, <2>3, SameMatches DEF ShownIn
<1> QED
  BY <1>1, <1>2

\* ... and up to a later one, if nothing between them settles the cell.
LEMMA ShownLater ==
  ASSUME NEW t, NEW r \in Nat, NEW k \in Keys, NEW col \in Columns,
         NEW p \in 0..Len(Log), NEW q \in p..Len(Log),
         \A n \in (p + 1)..q : ~Settles(n, k, col),
         ShownIn(t, r, k, col, p)
  PROVE  ShownIn(t, r, k, col, q)
<1> USE SizeAssumption
<1>1. CASE \E n \in (p + 1)..r : Settles(n, k, col)
  <2>1. PICK n \in (p + 1)..r : Settles(n, k, col)
    BY <1>1
  <2>2. n \in (q + 1)..r
    BY <2>1
  <2> QED
    BY <2>1, <2>2 DEF ShownIn
<1>2. CASE RowMatches(t[k], SourceAt[p][k], col)
  <2>1. SameCell(SourceAt[p][k], SourceAt[q][k], col)
    BY Unsettled
  <2> QED
    BY <1>2, <2>1, SameMatches DEF ShownIn
<1> QED
  BY <1>1, <1>2 DEF ShownIn

-----------------------------------------------------------------------------
(* Single rows of a load *)

\* The load carries for message n exactly the columns PostgreSQL sent, and
\* where it did not send all of them the row keeps its key.
Complete(n, cols) ==
  /\ cols = Columns \ Log[n].toast
  /\ Log[n].toast # {} => Log[n].from = Log[n].key

LEMMA NotIncomplete == \A n, cols : ~Incomplete(n, cols) <=> Complete(n, cols)
BY DEF Incomplete, Complete, Moves

\* A complete row writes the columns sent and keeps the others.
LEMMA UpsertCells ==
  ASSUME NEW n \in 1..Len(Log), IsRowChange(Log[n]),
         NEW cols, Complete(n, cols), NEW old, NEW col \in Columns
  PROVE  LET r == Upsert(old, Log[n], cols) IN
         /\ r.present
         /\ r.deleted <=> Log[n].op = "delete"
         /\ col \notin Log[n].toast => r.data[col] = Log[n].row[col]
         /\ col \in Log[n].toast /\ old.present => r.data[col] = old.data[col]
<1> DEFINE c == Log[n]
           r == Upsert(old, c, cols)
<1>1. /\ r.present
      /\ r.deleted = (c.op = "delete")
      /\ r.data[col] = IF col \notin cols
                       THEN (IF old.present THEN old.data ELSE EmptyRow)[col]
                       ELSE IF col \in Included(c) THEN Cell(c, col) ELSE Null
  BY DEF Upsert
<1>2. col \in cols <=> col \notin c.toast
  BY DEF Complete
<1>3. col \notin c.toast => col \in Included(c) /\ Cell(c, col) = c.row[col]
  BY DEF Included, Cell
<1> QED
  BY <1>1, <1>2, <1>3

\* If the source has row k as message n left it, the row shows that once it
\* is loaded: in the columns sent, and in the others if it did before.
LEMMA LoadMatches ==
  ASSUME NEW n \in 1..Len(Log), IsRowChange(Log[n]), Log[n].key \in Keys,
         NEW cols, Complete(n, cols), NEW old, NEW col \in Columns,
         NEW row, row = SourceAt[n][Log[n].key],
         col \in Log[n].toast => RowMatches(old, row, col)
  PROVE  RowMatches(Upsert(old, Log[n], cols), row, col)
<1> DEFINE r == Upsert(old, Log[n], cols)
<1>1. row = IF Log[n].op = "delete" THEN NoRow ELSE Row(Log[n].row)
  BY SourceStep DEF Changes
<1>2. /\ r.present
      /\ r.deleted <=> Log[n].op = "delete"
      /\ col \notin Log[n].toast => r.data[col] = Log[n].row[col]
      /\ col \in Log[n].toast /\ old.present => r.data[col] = old.data[col]
  BY UpsertCells
<1>3. col \in Log[n].toast => Log[n].op = "update"
  BY LogFacts
<1> SUFFICES RowMatches(r, row, col)
  OBVIOUS
<1> HIDE DEF r
<1>4. CASE Log[n].op = "delete"
  BY <1>1, <1>2, <1>3, <1>4 DEF RowMatches, NoRow
<1>5. CASE Log[n].op # "delete" /\ col \notin Log[n].toast
  BY <1>1, <1>2, <1>5 DEF RowMatches, Row
<1>6. CASE Log[n].op # "delete" /\ col \in Log[n].toast
  BY <1>1, <1>2, <1>6 DEF RowMatches, Row
<1> QED
  BY <1>4, <1>5, <1>6

\* Of several rows with key k a load leaves the last one, n.
Leaves(t, rows, cols, k, n) ==
  /\ n \in rows /\ Log[n].key = k
  /\ \A m \in rows : Log[m].key = k => m =< n
  /\ Loaded(t, rows, cols)[k] = Upsert(t[k], Log[n], cols)

LEMMA LoadedRow ==
  ASSUME NEW t, NEW rows \in SUBSET (1..Len(Log)), NEW cols, NEW k \in Keys
  PROVE  /\ (\A n \in rows : Log[n].key # k) => Loaded(t, rows, cols)[k] = t[k]
         /\ (\E n \in rows : Log[n].key = k) => \E n : Leaves(t, rows, cols, k, n)
<1> USE SizeAssumption
<1> DEFINE own == {n \in rows : Log[n].key = k}
           greatest == CHOOSE n \in own : \A m \in own : m =< n
<1>1. Loaded(t, rows, cols)[k] =
        IF own = {} THEN t[k] ELSE Upsert(t[k], Log[greatest], cols)
  BY DEF Loaded
<1>2. CASE own = {}
  BY <1>1, <1>2
<1>3. CASE own # {}
  <2>1. \E l \in own : \A m \in own : m =< l
    <3>1. own \in SUBSET (0..Len(Log))
      <4>1. 1..Len(Log) \subseteq 0..Len(Log)
        OBVIOUS
      <4>2. own \subseteq rows
        OBVIOUS
      <4> QED
        BY <4>1, <4>2
    <3> HIDE DEF own
    <3> QED
      BY <1>3, <3>1, Greatest
  <2>2. greatest \in own /\ \A m \in own : m =< greatest
    <3> HIDE DEF own
    <3> QED
      BY <2>1
  <2>3. Loaded(t, rows, cols)[k] = Upsert(t[k], Log[greatest], cols)
    BY <1>1, <1>3
  <2>4. /\ greatest \in rows /\ Log[greatest].key = k
        /\ \A m \in rows : Log[m].key = k => m =< greatest
    BY <2>2
  <2> HIDE DEF greatest
  <2>5. Leaves(t, rows, cols, k, greatest)
    BY <2>3, <2>4 DEF Leaves
  <2> QED
    BY <1>3, <2>5
<1> QED
  BY <1>2, <1>3

-----------------------------------------------------------------------------
(* A load *)

ShowInv ==
  /\ TypeInv
  /\ BatchInv
  /\ TruncatedInv
  /\ RowsInv
  /\ LateInv

\* The bounds that TypeOK gives, in the form arithmetic wants them.
LEMMA Bounds ==
  ASSUME TypeOK
  PROVE  /\ pos \in 0..Len(Log) /\ last \in pos..Len(Log) /\ reached \in last..Len(Log)
         /\ pos \in Nat /\ last \in Nat /\ reached \in Nat
         /\ Batch = (pos + 1)..last /\ Batch \subseteq 1..Len(Log)
         /\ \A k : Upto(k) \in pos..last
BY SizeAssumption DEF TypeOK, Batch, Upto

\* Another row than those of the group is left alone.
LEMMA OtherRow ==
  ASSUME TypeOK, NEW F \in SUBSET Members(group), Takes(group, F),
         NEW k \in Keys, k \notin spoiled',
         \A b \in Members(group) : ~Changes(b, k)
  PROVE  table'[k] = table[k] /\ k \notin spoiled
<1> DEFINE rows == Members(group) \ F
           cols == ColumnsOf(group)
<1>1. /\ rows \in SUBSET (1..Len(Log))
      /\ \A b \in Members(group) : IsRowChange(Log[b])
  BY MembersInBatch
<1>2. \A b \in rows : Log[b].key # k
  BY <1>1 DEF Changes
<1>3. table'[k] = table[k]
  <2>1. table' = Loaded(table, rows, cols)
    BY DEF Takes
  <2> HIDE DEF rows, cols
  <2> QED
    BY <1>1, <1>2, <2>1, LoadedRow
<1>4. k \notin Repairs(rows, cols)
  BY <1>2 DEF Repairs
<1>5. k \notin spoiled
  BY <1>4 DEF Takes
<1> QED
  BY <1>3, <1>5

\* The batch has all changes of a row of the group in the group, they were
\* loaded completely, and the last of them is what the row was given.
LEMMA GroupRow ==
  ASSUME GroupsApart, TypeOK, BatchInv,
         NEW F \in SUBSET Members(group), Takes(group, F),
         NEW k \in Keys, k \notin spoiled',
         NEW b \in Members(group), Changes(b, k)
  PROVE  /\ \A m \in Batch : Changes(m, k) =>
              /\ m \in Members(group) \ F
              /\ BatchKey(Log[m]) = group
              /\ Log[m].key = k
              /\ Complete(m, ColumnsOf(group))
         /\ \E n \in Batch :
              /\ Changes(n, k)
              /\ \A m \in Batch : Changes(m, k) => m =< n
              /\ table'[k] = Upsert(table[k], Log[n], ColumnsOf(group))
<1> DEFINE rows == Members(group) \ F
           cols == ColumnsOf(group)
<1>1. /\ Members(group) \subseteq Batch
      /\ Batch \subseteq 1..Len(Log)
      /\ rows \in SUBSET (1..Len(Log))
      /\ \A m \in Members(group) : IsRowChange(Log[m]) /\ BatchKey(Log[m]) = group
  BY MembersInBatch DEF Members
<1>2. k \notin Spoils(rows, cols, F)
  BY DEF Takes
<1>3. ASSUME NEW m \in Batch, Changes(m, k)
      PROVE  /\ m \in rows
             /\ BatchKey(Log[m]) = group
             /\ Log[m].key = k
             /\ Complete(m, cols)
  <2>1. BatchKey(Log[m]) = BatchKey(Log[b])
    <3>1. m - b < MaxBatch /\ b - m < MaxBatch
      BY <1>1, Bounds, SizeAssumption DEF BatchInv
    <3>2. m \in 1..Len(Log) /\ b \in 1..Len(Log)
      BY <1>1
    <3> QED
      BY <1>3, <3>1, <3>2 DEF GroupsApart
  <2>2. BatchKey(Log[m]) = group
    BY <1>1, <2>1
  <2>3. m \in Members(group)
    BY <1>3, <2>2 DEF Members, Changes
  <2>4. m \notin F
    BY <1>2, <1>3 DEF Spoils, Touched, Changes
  <2>5. Log[m].key = k
    BY <1>2, <1>3, <2>3, <2>4 DEF Spoils, Moves, Changes
  <2>6. ~Incomplete(m, cols)
    BY <1>2, <2>3, <2>4, <2>5 DEF Spoils
  <2> QED
    BY <2>2, <2>3, <2>4, <2>5, <2>6, NotIncomplete
<1>4. \E n : Leaves(table, rows, cols, k, n)
  <2>1. b \in rows /\ Log[b].key = k
    BY <1>1, <1>3
  <2> HIDE DEF rows, cols
  <2> QED
    BY <1>1, <2>1, LoadedRow
<1>5. PICK n \in rows :
        /\ Log[n].key = k
        /\ \A m \in rows : Log[m].key = k => m =< n
        /\ Loaded(table, rows, cols)[k] = Upsert(table[k], Log[n], cols)
  BY <1>4 DEF Leaves
<1>6. /\ n \in Batch /\ Changes(n, k)
      /\ table'[k] = Upsert(table[k], Log[n], cols)
  BY <1>1, <1>5 DEF Takes, Changes
<1>7. \A m \in Batch : Changes(m, k) => m =< n
  BY <1>3, <1>5
<1> HIDE DEF rows, cols
<1> QED
  BY <1>3, <1>6, <1>7 DEF rows, cols

\* What a batch empties and a load shows all the same, the batch has filled again.
LEMMA RefilledAfter ==
  ASSUME TypeOK, TruncatedInv, NEW F \in SUBSET Members(group), Takes(group, F),
         NEW k \in Keys, k \notin spoiled', NEW t \in Batch, Truncates(t, k)
  PROVE  \E m \in Batch :
           /\ m > t
           /\ IsRowChange(Log[m]) /\ Log[m].key = k /\ Log[m].toast = {}
<1> DEFINE rows == Members(group) \ F
           cols == ColumnsOf(group)
<1>1. CASE k \notin spoiled
  BY <1>1 DEF TruncatedInv
<1>2. CASE k \in spoiled
  <2>1. k \in Repairs(rows, cols)
    BY <1>2 DEF Takes
  <2>2. PICK m \in rows :
          /\ Log[m].key = k /\ Log[m].toast = {}
          /\ ~\E l \in (m + 1)..last : Truncates(l, k)
    BY <2>1 DEF Repairs
  <2>3. m \in Batch /\ IsRowChange(Log[m])
    BY MembersInBatch
  <2>4. m # t
    BY <2>3 DEF Truncates, IsRowChange
  <2>5. /\ m \in Nat /\ t \in Nat /\ last \in Nat
        /\ m =< last /\ t =< last
    BY <2>3, Bounds
  <2>6. ~(t \in (m + 1)..last)
    BY <2>2
  <2>7. m > t
    BY <2>4, <2>5, <2>6
  <2> QED
    BY <2>2, <2>3, <2>7
<1> QED
  BY <1>1, <1>2

\* A row that was loaded shows the source: after the batch if its group is
\* done, and, up to what will be loaded again, before it if not.
LEMMA GroupRowShown ==
  ASSUME GroupsApart, ShowInv, group \in pending,
         NEW F \in SUBSET Members(group), Takes(group, F),
         NEW k \in Keys, k \notin spoiled',
         NEW b \in Members(group), Changes(b, k),
         NEW col \in Columns
  PROVE  /\ ShownIn(table', reached, k, col, pos)
         /\ ShownIn(table', reached, k, col, last)
<1> DEFINE cols == ColumnsOf(group)
<1>1. TypeOK /\ BatchInv /\ TruncatedInv
  BY DEF ShowInv, TypeInv
<1>2. \A m \in Batch : Changes(m, k) =>
        BatchKey(Log[m]) = group /\ Log[m].key = k /\ Complete(m, cols)
  BY <1>1, GroupRow
<1>3. PICK n \in Batch :
        /\ Changes(n, k)
        /\ \A m \in Batch : Changes(m, k) => m =< n
        /\ table'[k] = Upsert(table[k], Log[n], cols)
  BY <1>1, GroupRow
<1>4. /\ pos \in 0..Len(Log) /\ last \in pos..Len(Log) /\ reached \in last..Len(Log)
      /\ pos \in Nat /\ last \in Nat /\ reached \in Nat /\ last \in 0..Len(Log)
      /\ Batch = (pos + 1)..last
      /\ n \in 1..Len(Log) /\ n \in (pos + 1)..last /\ n \in (pos + 1)..Len(Log)
      /\ n \in 0..Len(Log) /\ last \in n..Len(Log)
  BY <1>1, Bounds, SizeAssumption
<1>5. IsRowChange(Log[n]) /\ Log[n].key = k /\ Complete(n, cols)
  BY <1>2, <1>3 DEF Changes
<1>6. SourceAt[last][k] = SourceAt[n][k]
  <2>1. \A m \in (n + 1)..last : ~Changes(m, k)
    BY <1>3, <1>4
  <2>2. \A m \in (n + 1)..last : ~Truncates(m, k)
    <3> SUFFICES ASSUME NEW t \in (n + 1)..last, Truncates(t, k) PROVE FALSE
      OBVIOUS
    <3>1. t \in Batch /\ t \in Nat
      BY <1>4
    <3>2. PICK m \in Batch : m > t /\ Changes(m, k)
      BY <1>1, <3>1, RefilledAfter DEF Changes
    <3>3. m \in (n + 1)..last
      BY <1>4, <3>2
    <3> QED
      BY <2>1, <3>2, <3>3
  <2> QED
    BY <1>4, <2>1, <2>2, Untouched DEF TouchesRow
\* Where the cell is not among those sent, it showed the source before.
<1>7. ASSUME col \in Log[n].toast
      PROVE  /\ \A m \in (pos + 1)..last : ~Settles(m, k, col)
             /\ ShownIn(table, reached, k, col, pos)
  <2>1. ASSUME NEW m \in (pos + 1)..last PROVE ~Settles(m, k, col)
    <3>1. CASE ~TouchesRow(m, k)
      BY <3>1 DEF Settles
    <3>2. CASE Changes(m, k)
      <4>1. Complete(m, cols)
        BY <1>2, <1>4, <3>2
      <4>2. col \in Log[m].toast
        BY <1>5, <1>7, <4>1 DEF Complete
      <4> QED
        BY <3>2, <4>1, <4>2 DEF Complete, Settles, Changes
    <3>3. ~Truncates(m, k)
      <4> SUFFICES ASSUME Truncates(m, k) PROVE FALSE
        OBVIOUS
      <4>1. PICK l \in Batch : Changes(l, k) /\ Log[l].toast = {}
        BY <1>1, <1>4, RefilledAfter DEF Changes
      <4>2. cols = Columns
        BY <1>2, <4>1 DEF Complete
      <4> QED
        BY <1>5, <1>7, <4>2 DEF Complete
    <3> QED
      BY <3>1, <3>2, <3>3 DEF TouchesRow
  <2>2. k \notin spoiled
    <3>1. cols # Columns
      BY <1>5, <1>7 DEF Complete
    <3> QED
      BY <3>1 DEF Takes, Repairs
  <2>3. Upto(k) = pos
    <3>1. n \in Batch /\ BatchKey(Log[n]) = group
      BY <1>2, <1>3
    <3> QED
      BY <1>3, <3>1 DEF Upto, Loading
  <2>4. Shown(k, col, pos)
    BY <2>2, <2>3 DEF ShowInv, RowsInv
  <2> QED
    BY <2>1, <2>4, ShownIsShownIn
<1>8. ShownIn(table', reached, k, col, last)
  <2>1. CASE \E m \in (last + 1)..reached : Settles(m, k, col)
    BY <2>1 DEF ShownIn
  <2>2. CASE ~\E m \in (last + 1)..reached : Settles(m, k, col)
    <3>1. ASSUME col \in Log[n].toast
          PROVE  RowMatches(table[k], SourceAt[last][k], col)
      <4>1. ShownIn(table, reached, k, col, last)
        BY <1>4, <1>7, <3>1, ShownLater
      <4> QED
        BY <2>2, <4>1 DEF ShownIn
    <3>2. RowMatches(Upsert(table[k], Log[n], cols), SourceAt[last][k], col)
      BY <1>4, <1>5, <1>6, <3>1, LoadMatches
    <3> QED
      BY <1>3, <3>2 DEF ShownIn
  <2> QED
    BY <2>1, <2>2
<1>9. ShownIn(table', reached, k, col, pos)
  BY <1>4, <1>8, ShownEarlier
<1> QED
  BY <1>8, <1>9

\* A late load has the fields it started with, and rows with keys.
LEMMA LateFacts ==
  ASSUME TypeOK, NEW load \in late
  PROVE  /\ load = [rows |-> load.rows, cols |-> load.cols, over |-> load.over]
         /\ load.rows \in SUBSET (1..Len(Log)) /\ load.rows \subseteq 1..reached
         /\ \A n \in load.rows : IsRowChange(Log[n]) /\ Log[n].key \in Keys
<1>1. load \in Loads
  BY TypeSplit DEF EffectsOK
<1>2. load.rows \subseteq {n \in 1..reached : IsRowChange(Log[n])}
  BY <1>1 DEF Loads
<1>3. 1..reached \subseteq 1..Len(Log)
  BY Bounds, SizeAssumption
<1> QED
  BY <1>1, <1>2, <1>3, LogFacts DEF Loads

\* A load that takes effect: all rows are right again, and late loads are
\* overtaken where they are older.
LEMMA TakesKeeps ==
  ASSUME GroupsApart, ShowInv, group \in pending,
         NEW F \in SUBSET Members(group), Takes(group, F),
         pos' = pos, last' = last, reached' = reached,
         pending' \in {pending, pending \ {group}}
  PROVE  TruncatedInv' /\ RowsInv' /\ LateInv'
<1> DEFINE rows == Members(group) \ F
<1>1. TypeOK /\ BatchInv /\ TruncatedInv
  BY DEF ShowInv, TypeInv
<1>2. /\ pos \in 0..Len(Log) /\ last \in pos..Len(Log)
      /\ pos \in Nat /\ last \in Nat
      /\ Batch = (pos + 1)..last /\ Batch' = Batch
  BY <1>1, Bounds DEF Batch
<1>3. late' = {[l EXCEPT !.over = @ \cup Overtaken(l.rows, rows)] : l \in late}
  BY DEF Takes
<1>4. TruncatedInv'
  <2> SUFFICES ASSUME NEW k \in Keys, k \notin spoiled', NEW t \in Batch', Truncates(t, k)
               PROVE  \E m \in Batch' :
                        /\ m > t
                        /\ IsRowChange(Log[m]) /\ Log[m].key = k /\ Log[m].toast = {}
    BY DEF TruncatedInv
  <2>1. t \in Batch
    BY <1>2
  <2>2. \E m \in Batch :
          /\ m > t
          /\ IsRowChange(Log[m]) /\ Log[m].key = k /\ Log[m].toast = {}
    BY <1>1, <2>1, RefilledAfter
  <2> QED
    BY <1>2, <2>2
\* The group is the row's or it is not.
<1>5. ASSUME NEW k \in Keys, k \notin spoiled',
             \A b \in Members(group) : ~Changes(b, k)
      PROVE  table'[k] = table[k] /\ k \notin spoiled /\ Upto(k)' = Upto(k)
  <2>1. \A n \in Batch : Changes(n, k) => BatchKey(Log[n]) # group
    BY <1>5 DEF Members, Changes
  <2>2. Loading(k)' <=> Loading(k)
    BY <1>2, <2>1 DEF Loading
  <2>3. Upto(k)' = Upto(k)
    BY <2>2 DEF Upto
  <2> QED
    BY <1>1, <1>5, <2>3, OtherRow
<1>6. RowsInv'
  <2> SUFFICES ASSUME NEW k \in Keys, k \notin spoiled', NEW col \in Columns
               PROVE  Shown(k, col, Upto(k))'
    BY DEF RowsInv
  <2>1. Shown(k, col, Upto(k))' <=> ShownIn(table', reached, k, col, Upto(k)')
    BY DEF Shown, ShownIn, CellMatches, RowMatches, Active
  <2>2. CASE \A b \in Members(group) : ~Changes(b, k)
    <3>1. table'[k] = table[k] /\ k \notin spoiled /\ Upto(k)' = Upto(k)
      BY <1>5, <2>2
    <3>2. ShownIn(table, reached, k, col, Upto(k))
      BY <3>1, ShownIsShownIn DEF ShowInv, RowsInv
    <3> QED
      BY <2>1, <3>1, <3>2 DEF ShownIn
  <2>3. CASE \E b \in Members(group) : Changes(b, k)
    <3>1. /\ ShownIn(table', reached, k, col, pos)
          /\ ShownIn(table', reached, k, col, last)
      BY <2>3, GroupRowShown
    <3>2. Upto(k)' = pos \/ Upto(k)' = last
      BY DEF Upto
    <3> QED
      BY <2>1, <3>1, <3>2
  <2> QED
    BY <2>2, <2>3
<1>7. ASSUME NEW load \in late, NEW m \in load.rows, NEW k \in Keys, k = Log[m].key,
             k \notin spoiled', k \notin load.over, k \notin Overtaken(load.rows, rows),
             NEW n \in (m + 1)..Upto(k)', TouchesRow(n, k)
      PROVE  FALSE
  <2>1. CASE \A b \in Members(group) : ~Changes(b, k)
    <3>1. k \notin spoiled \cup load.over /\ Upto(k)' = Upto(k)
      BY <1>5, <1>7, <2>1
    <3> QED
      BY <1>7, <3>1 DEF ShowInv, LateInv
  <2>2. CASE \E b \in Members(group) : Changes(b, k)
    <3>1. \A l \in Batch : Changes(l, k) =>
            l \in rows /\ BatchKey(Log[l]) = group /\ Log[l].key = k
      BY <1>1, <1>7, <2>2, GroupRow
    <3>2. PICK b \in Batch : Changes(b, k)
      BY <1>1, <2>2, MembersInBatch
    <3>3. \A l \in Batch : Changes(l, k) => ~(l > m)
      BY <1>7, <3>1 DEF Overtaken
    <3>4. Upto(k)' = pos \/ Upto(k)' = last
      BY DEF Upto
    <3>5. m \in Nat /\ b \in (pos + 1)..last /\ ~(b > m)
      <4>1. m \in Nat
        BY <1>1, <1>7, LateFacts
      <4> QED
        BY <1>2, <3>2, <3>3, <4>1
    <3>6. n \in (pos + 1)..last /\ n > m
      BY <1>2, <1>7, <3>4, <3>5
    <3>7. CASE Changes(n, k)
      BY <1>2, <3>3, <3>6, <3>7
    <3>8. CASE Truncates(n, k)
      <4>1. PICK l \in Batch : l > n /\ Changes(l, k)
        BY <1>1, <1>2, <1>7, <3>6, <3>8, RefilledAfter DEF Changes
      <4>2. l > m
        BY <1>2, <3>5, <3>6, <4>1
      <4> QED
        BY <3>3, <4>1, <4>2
    <3> QED
      BY <1>7, <3>7, <3>8 DEF TouchesRow
  <2> QED
    BY <2>1, <2>2
<1>8. LateInv'
  <2> SUFFICES ASSUME NEW later \in late', NEW m \in later.rows,
                      Log[m].key \notin spoiled', Log[m].key \notin later.over,
                      NEW n \in (m + 1)..Upto(Log[m].key)', TouchesRow(n, Log[m].key)
               PROVE  FALSE
    BY DEF LateInv
  <2>1. PICK load \in late :
          later = [load EXCEPT !.over = @ \cup Overtaken(load.rows, rows)]
    BY <1>3
  <2>2. load = [rows |-> load.rows, cols |-> load.cols, over |-> load.over]
    BY <1>1, LateFacts
  <2>3. later.rows = load.rows /\ later.over = load.over \cup Overtaken(load.rows, rows)
    BY <2>1, <2>2
  <2>4. Log[m].key \in Keys
    BY <1>1, <2>3, LateFacts
  <2> QED
    BY <1>7, <2>3, <2>4
<1> QED
  BY <1>4, <1>6, <1>8

\* A load that commits late.
LEMMA LateKeeps ==
  ASSUME ShowInv, NEW load \in late, table' = Loaded(table, load.rows, load.cols),
         spoiled' = spoiled \cup load.over \cup Spoils(load.rows, load.cols, {}),
         UNCHANGED cursors
  PROVE  RowsInv'
<1> DEFINE cols == load.cols
<1>1. TypeOK
  BY DEF ShowInv, TypeInv
<1>2. load.rows \in SUBSET (1..Len(Log)) /\ \A n \in load.rows : IsRowChange(Log[n])
  BY <1>1, LateFacts
<1> SUFFICES ASSUME NEW k \in Keys, k \notin spoiled', NEW col \in Columns
             PROVE  Shown(k, col, Upto(k))'
  BY DEF RowsInv
<1> DEFINE q == Upto(k)
<1>3. Upto(k)' = q /\ reached' = reached
  BY DEF cursors, Upto, Loading, Batch
<1>4. Shown(k, col, Upto(k))' <=> ShownIn(table', reached, k, col, q)
  BY <1>3 DEF Shown, ShownIn, CellMatches, RowMatches, Active
<1>5. ShownIn(table, reached, k, col, q)
  BY ShownIsShownIn DEF ShowInv, RowsInv
<1>6. q \in 0..Len(Log) /\ reached \in q..Len(Log) /\ reached \in Nat /\ q \in Nat
  BY <1>1, Bounds
<1> HIDE DEF q
<1>7. CASE \A n \in load.rows : Log[n].key # k
  <2>1. Loaded(table, load.rows, load.cols)[k] = table[k]
    BY <1>7 DEF Loaded
  <2>2. table'[k] = table[k]
    BY <2>1
  <2> QED
    BY <1>4, <1>5, <2>2 DEF ShownIn
<1>8. CASE \E m \in (q + 1)..reached : Settles(m, k, col)
  BY <1>4, <1>8 DEF ShownIn
<1>9. CASE /\ \E n \in load.rows : Log[n].key = k
           /\ ~\E m \in (q + 1)..reached : Settles(m, k, col)
  <2>1. PICK n \in load.rows :
          Log[n].key = k /\ table'[k] = Upsert(table[k], Log[n], cols)
    <3>1. PICK n : Leaves(table, load.rows, load.cols, k, n)
      BY <1>2, <1>9, LoadedRow
    <3> QED
      BY <3>1 DEF Leaves
  <2>2. Complete(n, cols)
    <3>1. ~Incomplete(n, cols)
      BY <2>1 DEF Spoils
    <3> QED
      BY <3>1, NotIncomplete
  <2>3. /\ n \in 1..Len(Log) /\ IsRowChange(Log[n]) /\ n \in 0..Len(Log) /\ n \in Nat
        /\ n =< reached
    BY <1>1, <1>2, <1>6, LateFacts
  <2>4. RowMatches(table[k], SourceAt[q][k], col)
    BY <1>5, <1>9 DEF ShownIn
  <2>5. CASE n =< q
    <3>1. SourceAt[q][k] = SourceAt[n][k]
      <4>1. k \notin spoiled \cup load.over
        OBVIOUS
      <4>2. \A m \in (n + 1)..q : ~TouchesRow(m, k)
        BY <2>1, <4>1 DEF ShowInv, LateInv, q
      <4>3. q \in n..Len(Log)
        BY <1>6, <2>3, <2>5
      <4> QED
        BY <2>3, <4>2, <4>3, Untouched
    <3>2. RowMatches(Upsert(table[k], Log[n], cols), SourceAt[q][k], col)
      BY <2>1, <2>2, <2>3, <2>4, <3>1, LoadMatches
    <3> QED
      BY <1>4, <2>1, <3>2 DEF ShownIn
  <2>6. CASE n > q
    <3>1. n \in q..Len(Log) /\ \A m \in (q + 1)..n : ~Settles(m, k, col)
      BY <1>6, <1>9, <2>3, <2>6
    <3>2. SameCell(SourceAt[q][k], SourceAt[n][k], col)
      BY <1>6, <3>1, Unsettled
    <3>3. RowMatches(table[k], SourceAt[n][k], col)
      BY <2>4, <3>2, SameMatches
    <3>4. RowMatches(Upsert(table[k], Log[n], cols), SourceAt[n][k], col)
      BY <2>1, <2>2, <2>3, <3>3, LoadMatches
    <3>5. ShownIn(table', reached, k, col, n)
      BY <2>1, <3>4 DEF ShownIn
    <3> QED
      BY <1>4, <1>6, <2>3, <3>1, <3>5, ShownEarlier
  <2> QED
    BY <1>6, <2>3, <2>5, <2>6
<1> QED
  BY <1>7, <1>8, <1>9

-----------------------------------------------------------------------------
(* Steps without a load *)

\* Positions move, rows do not: what has been passed did not touch the row,
\* or the row is excused.
LEMMA CursorsMove ==
  ASSUME ShowInv, TypeInv', table' = table, spoiled \subseteq spoiled',
         reached' >= reached,
         \A k \in Keys \ spoiled' :
           \A n \in (Upto(k) + 1)..Upto(k)' : ~TouchesRow(n, k)
  PROVE  RowsInv'
<1>1. TypeOK /\ TypeOK'
  BY DEF ShowInv, TypeInv
<1>2. /\ reached \in Nat
      /\ pos \in Nat /\ last \in Nat /\ last =< Len(Log) /\ last =< reached
      /\ \A k : Upto(k) \in pos..last
  BY <1>1, Bounds, SizeAssumption
<1>3. /\ pos' \in Nat /\ last' \in Nat /\ last' =< Len(Log) /\ reached' \in Nat
      /\ \A k : Upto(k)' = pos' \/ Upto(k)' = last'
  BY <1>1, SizeAssumption DEF TypeOK, Upto
<1>4. pos' =< last'
  BY <1>1, <1>3 DEF TypeOK
<1>5. RowsInv'
  <2> SUFFICES ASSUME NEW k \in Keys, k \notin spoiled', NEW col \in Columns
               PROVE  Shown(k, col, Upto(k))'
    BY DEF RowsInv
  <2> DEFINE p == Upto(k)
             q == Upto(k)'
  <2>1. Shown(k, col, Upto(k))' <=> ShownIn(table, reached', k, col, q)
    BY DEF Shown, ShownIn, CellMatches, RowMatches, Active
  <2>2. ShownIn(table, reached, k, col, p)
    BY ShownIsShownIn DEF ShowInv, RowsInv
  <2>3. /\ p \in Nat /\ p =< reached /\ p =< Len(Log)
        /\ q \in Nat /\ q =< Len(Log) /\ Len(Log) \in Nat
    <3>1. p \in pos..last /\ (q = pos' \/ q = last')
      BY <1>2, <1>3
    <3> HIDE DEF p, q
    <3> QED
      BY <1>2, <1>3, <1>4, <3>1, SizeAssumption
  <2>4. \A n \in (p + 1)..q : ~TouchesRow(n, k)
    OBVIOUS
  <2> HIDE DEF p, q
  <2>5. ShownIn(table, reached', k, col, p)
    BY <1>2, <1>3, <2>2, <2>3 DEF ShownIn
  <2>6. CASE q =< p
    <3>1. q \in 0..Len(Log) /\ p \in q..Len(Log) /\ p =< reached'
      BY <1>2, <1>3, <2>3, <2>6
    <3> QED
      BY <1>2, <1>3, <2>1, <2>5, <3>1, ShownEarlier
  <2>7. CASE p =< q
    <3>1. p \in 0..Len(Log) /\ q \in p..Len(Log)
      BY <2>3, <2>7
    <3>2. \A n \in (p + 1)..q : ~Settles(n, k, col)
      BY <2>4 DEF Settles
    <3> QED
      BY <1>2, <1>3, <2>1, <2>5, <3>1, <3>2, ShownLater
  <2> QED
    BY <2>3, <2>6, <2>7
<1> QED
  BY <1>5

\* Nor are the late loads older than the rows then, those that are left.
LEMMA LateStays ==
  ASSUME ShowInv, TypeOK', spoiled \subseteq spoiled', late' \subseteq late,
         \A k \in Keys \ spoiled' :
           \A n \in (Upto(k) + 1)..Upto(k)' : ~TouchesRow(n, k)
  PROVE  LateInv'
<1>1. TypeOK
  BY DEF ShowInv, TypeInv
<1>2. /\ \A k : Upto(k) \in Nat /\ Upto(k)' \in Nat
      /\ \A load \in late : \A m \in load.rows : m \in Nat /\ Log[m].key \in Keys
  <2>1. \A k : Upto(k) \in Nat /\ Upto(k)' \in Nat
    BY <1>1, SizeAssumption DEF TypeOK, Upto
  <2>2. ASSUME NEW load \in late, NEW m \in load.rows
        PROVE  m \in Nat /\ Log[m].key \in Keys
    BY <1>1, <2>2, LateFacts
  <2> QED
    BY <2>1, <2>2
<1> SUFFICES ASSUME NEW load \in late, NEW m \in load.rows,
                    NEW k \in Keys, k = Log[m].key,
                    k \notin spoiled', k \notin load.over,
                    NEW n \in (m + 1)..Upto(k)', TouchesRow(n, k)
             PROVE  FALSE
  BY <1>2 DEF LateInv
<1>3. ~(n \in (Upto(k) + 1)..Upto(k)')
  OBVIOUS
<1>4. n \in (m + 1)..Upto(k)
  <2>1. m \in Nat /\ Upto(k) \in Nat /\ Upto(k)' \in Nat
    BY <1>2
  <2> QED
    BY <1>3, <2>1
<1> QED
  BY <1>4 DEF ShowInv, LateInv

\* A batch keeps its truncations.
LEMMA TruncatedStays ==
  ASSUME TruncatedInv, spoiled \subseteq spoiled', Batch' = Batch
  PROVE  TruncatedInv'
BY DEF TruncatedInv

\* A load that lingers is newer than the rows it will write are known to be.
LEMMA LingersKeeps ==
  ASSUME ShowInv, TypeOK', Lingers(group),
         \A k : ~\E n \in (Upto(k) + 1)..Upto(k)' : TRUE,
         \A m \in Members(group) : Upto(Log[m].key)' =< pos
  PROVE  LateInv'
<1> DEFINE new == [rows |-> Members(group), cols |-> ColumnsOf(group), over |-> {}]
<1>1. TypeOK
  BY DEF ShowInv, TypeInv
<1>2. late' = late \cup {new} /\ spoiled' = spoiled
  BY DEF Lingers
<1>3. ASSUME NEW m \in Members(group), NEW n \in (m + 1)..Upto(Log[m].key)'
      PROVE  FALSE
  <2>1. m \in (pos + 1)..last /\ pos \in Nat /\ last \in Nat
    BY <1>1, MembersInBatch, Bounds
  <2>2. Upto(Log[m].key)' \in Nat /\ Upto(Log[m].key)' =< pos
    BY SizeAssumption DEF TypeOK, Upto
  <2> QED
    BY <1>3, <2>1, <2>2
<1>4. ASSUME NEW load \in late, NEW m \in load.rows,
             Log[m].key \notin spoiled \cup load.over,
             NEW n \in (m + 1)..Upto(Log[m].key)'
      PROVE  ~TouchesRow(n, Log[m].key)
  <2> DEFINE k == Log[m].key
  <2>1. m \in Nat
    BY <1>1, <1>4, LateFacts
  <2>2. Upto(k) \in Nat /\ Upto(k)' \in Nat /\ ~(n \in (Upto(k) + 1)..Upto(k)')
    <3> HIDE DEF k
    <3>1. Upto(k) \in Nat /\ Upto(k)' \in Nat
      BY <1>1, SizeAssumption DEF TypeOK, Upto
    <3> QED
      BY <3>1
  <2>3. n \in (m + 1)..Upto(k)
    <3> HIDE DEF k
    <3>1. n \in (m + 1)..Upto(k)'
      BY <1>4 DEF k
    <3> QED
      BY <2>1, <2>2, <3>1
  <2> QED
    BY <1>4, <2>3 DEF ShowInv, LateInv
<1> QED
  BY <1>2, <1>3, <1>4 DEF LateInv

-----------------------------------------------------------------------------
(* The invariant *)

LEMMA ShowInit == Init => ShowInv
<1> SUFFICES ASSUME Init PROVE ShowInv
  OBVIOUS
<1>1. TypeInv
  BY TypeInit
<1>2. BatchInv
  BY SizeAssumption DEF Init, BatchInv
<1>3. LateInv /\ TruncatedInv
  BY DEF Init, LateInv, TruncatedInv, Batch
<1>4. \A k \in Keys : \A col \in Columns : Shown(k, col, Upto(k))
  <2>1. \A k : Upto(k) = 0
    BY DEF Init, Upto
  <2>2. \A k \in Keys : SourceAt[0][k] = NoRow /\ table[k] = NoRow
    BY SourceSteps DEF Init, EmptySource
  <2> QED
    BY <2>1, <2>2 DEF Shown, CellMatches, Active, NoRow
<1> QED
  BY <1>1, <1>2, <1>3, <1>4 DEF ShowInv, RowsInv

\* Only a load that has taken effect gets an answer that is accepted.
LEMMA OnlyApplied ==
  ASSUME NEW fate \in DOMAIN Answers, \E a \in Answers[fate] : Accepts(a) = TRUE
  PROVE  fate = "applied"
<1>1. fate \in {"applied", "refused", "lingers"}
  BY DEF Answers
<1>2. fate # "refused"
  <2>1. Answers["refused"] = {"Fail", "Unknown", "none"}
    BY DEF Answers
  <2> QED
    BY <2>1 DEF Accepts
<1>3. fate # "lingers"
  <2>1. Answers["lingers"] = {"Unknown", "none"}
    BY DEF Answers
  <2> QED
    BY <2>1 DEF Accepts
<1> QED
  BY <1>1, <1>2, <1>3

LEMMA ShowNext == GroupsApart /\ ShowInv /\ [Next]_vars => ShowInv'
<1> SUFFICES ASSUME GroupsApart, ShowInv, [Next]_vars PROVE ShowInv'
  OBVIOUS
<1> USE SizeAssumption
<1>a. TypeInv' /\ TypeOK /\ TypeOK' /\ BatchInv /\ TruncatedInv
  BY TypeNext DEF ShowInv, TypeInv
<1>b. /\ pos \in Nat /\ last \in Nat /\ reached \in Nat /\ reached' \in Nat
      /\ pos =< last /\ Batch = (pos + 1)..last
      /\ \A k : Upto(k) = pos \/ Upto(k) = last
      /\ \A k : Upto(k)' = pos' \/ Upto(k)' = last'
  BY <1>a DEF TypeOK, Batch, Upto
<1>c. SUFFICES RowsInv' /\ LateInv' /\ TruncatedInv' /\ BatchInv'
  BY <1>a DEF ShowInv
<1>d. Batch' = {} => TruncatedInv'
  BY DEF TruncatedInv
<1>1. CASE PushBatch
  <2>1. PICK size \in 1..MaxBatch :
          /\ last' = pos + size
          /\ reached' = IF reached < last' THEN last' ELSE reached
          /\ pending' = GroupsOf((pos + 1)..last')
          /\ spoiled' = spoiled \cup Truncated((pos + 1)..last')
    BY <1>1 DEF PushBatch, Feed!Take
  <2>2. pos' = pos /\ pos = last /\ pc' = "send" /\ UNCHANGED <<table, late>>
    BY <1>1 DEF PushBatch, Feed!Take
  <2>3. BatchInv'
    BY <1>b, <2>1, <2>2 DEF BatchInv
  <2>4. Batch' = (pos + 1)..(pos + size) /\ pending' = GroupsOf(Batch')
    BY <2>1, <2>2 DEF Batch
  <2>5. TruncatedInv'
    BY <2>1, <2>2, <2>4 DEF TruncatedInv, Truncated
  <2>6. ASSUME NEW k \in Keys, k \notin spoiled',
               NEW n \in (Upto(k) + 1)..Upto(k)', TouchesRow(n, k)
        PROVE  FALSE
    <3>1. Upto(k) = pos
      BY <1>b, <2>2
    <3>2. Upto(k)' = last' /\ n \in Batch'
      BY <1>b, <2>1, <2>2, <2>4, <2>6, <3>1
    <3>3. Changes(n, k)
      BY <2>1, <2>4, <2>6, <3>2 DEF TouchesRow, Truncated
    <3>4. BatchKey(Log[n]) \in pending'
      BY <2>4, <3>2, <3>3 DEF GroupsOf, Changes
    <3>5. Upto(k)' = pos'
      BY <3>2, <3>3, <3>4 DEF Upto, Loading
    <3> QED
      BY <1>b, <2>1, <2>2, <3>2, <3>5
  <2>7. RowsInv' /\ LateInv'
    BY <1>a, <1>b, <2>1, <2>2, <2>6, CursorsMove, LateStays
  <2> QED
    BY <2>3, <2>5, <2>7
<1>2. CASE SendGroup
  <2>1. /\ pos' = pos /\ last' = last /\ pending' = pending /\ reached' = reached
        /\ pc' = "load" /\ UNCHANGED effects
    BY <1>2 DEF SendGroup
  <2>2. Batch' = Batch /\ \A k : Upto(k)' = Upto(k)
    BY <2>1 DEF Upto, Loading, Batch
  <2>3. BatchInv' /\ TruncatedInv'
    BY <1>a, <2>1, <2>2, TruncatedStays DEF BatchInv, effects
  <2> QED
    BY <1>a, <1>b, <2>1, <2>2, <2>3, CursorsMove, LateStays DEF effects
<1>3. CASE LoadOk
  <2>1. /\ pos' = pos /\ last' = last /\ pending' = pending \ {group}
        /\ reached' = reached /\ pc' = "send" /\ pc = "load"
    BY <1>3 DEF LoadOk, Answered
  <2>2. PICK F \in Drops(group) : Takes(group, F)
    <3>1. PICK fate \in DOMAIN Answers :
            /\ \E a \in Answers[fate] : Accepts(a) = TRUE
            /\ Becomes(fate)
      BY <1>3 DEF LoadOk, Answered
    <3>2. fate = "applied"
      BY <3>1, OnlyApplied
    <3> QED
      BY <3>1, <3>2 DEF Becomes
  <2>3. F \in SUBSET Members(group) /\ group \in pending
    BY <1>a, <2>1 DEF Drops, TypeOK
  <2>4. BatchInv'
    BY <1>a, <2>1 DEF BatchInv
  <2> QED
    BY <2>1, <2>2, <2>3, <2>4, TakesKeeps
<1>4. CASE LoadFails
  <2>1. /\ pos' = pos /\ last' = last /\ pending' = pending
        /\ reached' = reached /\ pc' \in {"load", "failed"} /\ pc = "load"
    BY <1>4 DEF LoadFails, Answered
  <2>2. group \in pending
    BY <1>a, <2>1 DEF TypeOK
  <2>3. BatchInv'
    BY <1>a, <2>1 DEF BatchInv
  <2>4. Batch' = Batch /\ \A k : Upto(k)' = Upto(k)
    BY <2>1 DEF Upto, Loading, Batch
  <2>5. PICK fate \in DOMAIN Answers : Becomes(fate)
    BY <1>4 DEF LoadFails, Answered
  <2>6. CASE fate = "applied"
    <3>1. PICK F \in Drops(group) : Takes(group, F)
      BY <2>5, <2>6 DEF Becomes
    <3>2. F \in SUBSET Members(group)
      BY DEF Drops
    <3> QED
      BY <2>1, <2>2, <2>3, <3>1, <3>2, TakesKeeps
  <2>7. CASE fate = "refused"
    <3>1. UNCHANGED effects
      BY <2>5, <2>7 DEF Becomes
    <3> QED
      BY <1>a, <1>b, <2>1, <2>3, <2>4, <3>1, CursorsMove, LateStays, TruncatedStays
         DEF effects
  <2>8. CASE fate = "lingers"
    <3>1. Lingers(group)
      BY <2>5, <2>8 DEF Becomes
    <3>2. RowsInv'
      <4>1. table' = table /\ spoiled' = spoiled
        BY <3>1 DEF Lingers
      <4>2. \A k : \A n \in (Upto(k) + 1)..Upto(k)' : ~TouchesRow(n, k)
        BY <1>b, <2>4
      <4> QED
        BY <1>a, <1>b, <2>1, <4>1, <4>2, CursorsMove
    <3>3. ASSUME NEW m \in Members(group) PROVE Upto(Log[m].key)' =< pos
      <4>1. Loading(Log[m].key)
        BY <2>2 DEF Members, Loading, Changes
      <4> QED
        BY <1>b, <2>4, <4>1 DEF Upto
    <3>4. TruncatedInv'
      BY <1>a, <2>4, <3>1, TruncatedStays DEF Lingers
    <3>5. LateInv'
      BY <1>a, <1>b, <2>4, <3>1, <3>3, LingersKeeps
    <3> QED
      BY <2>3, <3>2, <3>4, <3>5
  <2> QED
    BY <2>6, <2>7, <2>8 DEF Answers
<1>5. CASE PushFail
  <2>1. /\ pos' = last /\ last' = last /\ reached' = reached
        /\ table' = table /\ late' = late
        /\ spoiled' = spoiled \cup Touched({n \in Batch : IsRowChange(Log[n])})
    BY <1>5 DEF PushFail, Feed!Pass
  <2>2. BatchInv'
    BY <1>b, <2>1 DEF BatchInv
  <2>3. ASSUME NEW k \in Keys, k \notin spoiled',
               NEW n \in (Upto(k) + 1)..Upto(k)', TouchesRow(n, k)
        PROVE  FALSE
    <3>1. n \in Batch
      BY <1>b, <2>1, <2>3
    <3>2. PICK m \in Batch : Changes(m, k)
      BY <1>a, <2>1, <2>3, <3>1 DEF TouchesRow, TruncatedInv, Changes
    <3> QED
      BY <2>1, <2>3, <3>2 DEF Touched, Changes
  <2>4. TruncatedInv'
    BY <1>b, <1>d, <2>1 DEF Batch
  <2> QED
    BY <1>a, <1>b, <2>1, <2>2, <2>3, <2>4, CursorsMove, LateStays
<1>6. CASE PushOk
  <2>1. /\ pos' = last /\ last' = last /\ reached' = reached /\ pending = {}
        /\ UNCHANGED effects
    BY <1>6 DEF PushOk, Feed!Pass
  <2>2. BatchInv'
    BY <1>b, <2>1 DEF BatchInv
  <2>3. \A k : Upto(k) = last /\ Upto(k)' = last
    BY <1>b, <2>1 DEF Upto, Loading
  <2>4. TruncatedInv'
    BY <1>b, <1>d, <2>1 DEF Batch
  <2> QED
    BY <1>a, <1>b, <2>1, <2>2, <2>3, <2>4, CursorsMove, LateStays DEF effects
<1>7. CASE LateLoadEnds
  <2>1. /\ pos' = pos /\ last' = last /\ pending' = pending
        /\ reached' = reached /\ pc' = pc
    BY <1>7 DEF LateLoadEnds, cursors
  <2>2. BatchInv' /\ Batch' = Batch /\ \A k : Upto(k)' = Upto(k)
    BY <1>a, <2>1 DEF BatchInv, Upto, Loading, Batch
  <2>3. spoiled \subseteq spoiled' /\ late' \subseteq late
    BY <1>7 DEF LateLoadEnds
  <2>4. TruncatedInv' /\ LateInv'
    BY <1>a, <1>b, <2>2, <2>3, TruncatedStays, LateStays
  <2>5. RowsInv'
    <3>1. CASE UNCHANGED <<table, spoiled>>
      BY <1>a, <1>b, <2>1, <2>2, <3>1, CursorsMove
    <3>2. ASSUME NEW load \in late,
                 table' = Loaded(table, load.rows, load.cols),
                 spoiled' = spoiled \cup load.over \cup Spoils(load.rows, load.cols, {})
          PROVE  RowsInv'
      BY <1>7, <3>2, LateKeeps DEF LateLoadEnds
    <3> QED
      BY <1>7, <3>1, <3>2 DEF LateLoadEnds
  <2> QED
    BY <2>2, <2>4, <2>5
<1>8. CASE Restart
  <2>1. /\ pos' \in 0..pos /\ last' = pos' /\ reached' = reached
        /\ table' = table /\ spoiled' = spoiled
        /\ late' = late \/ Lingers(group)
    BY <1>8, <1>a DEF Restart, Feed!Restart, Boundaries, TypeOK, effects, Lingers
  <2>2. BatchInv'
    <3>1. PICK p \in 0..pos : pos' = p /\ last' = p
      BY <2>1
    <3>2. p - p =< MaxBatch
      BY <1>b
    <3> QED
      BY <3>1, <3>2 DEF BatchInv
  <2>3. \A k : Upto(k)' =< pos /\ Upto(k)' =< Upto(k)
    BY <1>b, <2>1
  <2>4. \A k : ~\E n \in (Upto(k) + 1)..Upto(k)' : TRUE
    BY <1>b, <2>1, <2>3
  <2>5. RowsInv'
    BY <1>a, <1>b, <2>1, <2>4, CursorsMove
  <2>6. TruncatedInv'
    <3>1. PICK p \in 0..pos : pos' = p /\ last' = p
      BY <2>1
    <3>2. Batch' = (p + 1)..p /\ p \in Nat
      BY <1>b, <3>1 DEF Batch
    <3>3. (p + 1)..p = {}
      BY <3>2
    <3> QED
      BY <1>d, <3>2, <3>3
  <2>7. LateInv'
    <3>1. CASE late' = late
      BY <1>a, <2>1, <2>4, <3>1, LateStays
    <3>2. CASE Lingers(group)
      BY <1>a, <2>3, <2>4, <3>2, LingersKeeps
    <3> QED
      BY <2>1, <3>1, <3>2
  <2> QED
    BY <2>2, <2>5, <2>6, <2>7
<1>9. CASE Idle \/ UNCHANGED vars
  <2>1. UNCHANGED <<cursors, effects>>
    BY <1>9 DEF Idle, vars
  <2>2. Batch' = Batch /\ \A k : Upto(k)' = Upto(k)
    BY <2>1 DEF cursors, Upto, Loading, Batch
  <2>3. BatchInv' /\ TruncatedInv'
    BY <1>a, <2>1, <2>2, TruncatedStays DEF BatchInv, cursors, effects
  <2> QED
    BY <1>a, <1>b, <2>1, <2>2, <2>3, CursorsMove, LateStays DEF cursors, effects
<1> QED
  BY <1>1, <1>2, <1>3, <1>4, <1>5, <1>6, <1>7, <1>8, <1>9 DEF Next

\* A table whose cells are shown up to the last message shows the source.
LEMMA ShowsRows == ShowInv => ShowsPrefix
<1> SUFFICES ASSUME ShowInv, pc = "idle", pos = reached,
                    NEW k \in Keys, k \notin spoiled
             PROVE  Matches(k, SourceAt[pos][k])
  BY DEF ShowsPrefix
<1> USE SizeAssumption
<1> DEFINE row == SourceAt[pos][k]
<1>1. TypeOK /\ BatchInv
  BY DEF ShowInv, TypeInv
<1>2. pos \in 0..Len(Log) /\ pos \in Nat /\ Upto(k) = pos
  BY <1>1 DEF TypeOK, BatchInv, Upto
<1>3. \A col \in Columns : CellMatches(k, col, row)
  <2>1. \A col \in Columns : Shown(k, col, pos)
    BY <1>2 DEF ShowInv, RowsInv
  <2> QED
    BY <1>2, <2>1 DEF Shown
<1>4. Active(k) <=> row.present
  BY <1>3 DEF CellMatches
<1>5. ASSUME Active(k) PROVE table[k].data = row.data
  <2>1. table[k].data = [col \in Columns |-> table[k].data[col]]
    BY <1>1, <1>5 DEF TypeOK, Active
  <2>2. row.data = [col \in Columns |-> row.data[col]]
    <3>1. IsRow(row)
      BY <1>2, SourceIsTable DEF IsTable
    <3> QED
      BY <1>4, <1>5, <3>1 DEF IsRow
  <2>3. \A col \in Columns : table[k].data[col] = row.data[col]
    BY <1>3, <1>5 DEF CellMatches
  <2> HIDE DEF row
  <2> QED
    BY <2>1, <2>2, <2>3
<1> QED
  BY <1>4, <1>5 DEF Matches

\* Between two batches, and with nothing to deliver a second time, every row
\* that is not spoiled matches PostgreSQL's, in whatever order the groups were
\* sent, however often loads were repeated, whenever they took effect and
\* wherever the process was restarted: as long as no batch has changes of one
\* row in two groups.
THEOREM TableShowsPrefix == ASSUME GroupsApart PROVE Spec => []ShowsPrefix
<1>1. ShowInv /\ [Next]_vars => ShowInv'
  BY ShowNext
<1> QED
  BY <1>1, ShowInit, ShowsRows, PTL DEF Spec

\* Where PostgreSQL leaves out no value that the bitmap tracks, all loads are
\* full rows, a batch has one group per table, and what GroupsApart asks for
\* is only that a key belongs to one table.
THEOREM FullRowsShowPrefix ==
  ASSUME \A n \in 1..Len(Log) : IsRowChange(Log[n]) => ~HasToast(Log[n]),
         \A m, n \in 1..Len(Log), k \in Keys :
           Changes(m, k) /\ Changes(n, k) => Log[m].rel = Log[n].rel
  PROVE  Spec => []ShowsPrefix
<1>1. GroupsApart
  BY DEF GroupsApart, Changes, BatchKey
<1> QED
  BY <1>1, TableShowsPrefix

=============================================================================
