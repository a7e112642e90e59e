----------------------------- MODULE SinkProofs -----------------------------
(***************************************************************************)
(* Type correctness of Sink, for every log, any number of keys, columns    *)
(* and attempts, and every environment.                                    *)
(***************************************************************************)
EXTENDS Sink, TLAPS

\* TypeOK, and that no group is chosen between two loads.
TypeInv ==
  /\ TypeOK
  /\ pc \in {"idle", "send"} => group = <<>>

\* A group is told from none.
LEMMA GroupsAreRecords == \A B : <<>> \notin GroupsOf(B)
<1>1. \A c : DOMAIN BatchKey(c) = {"rel", "toast_bitmap"}
  BY DEF BatchKey
<1>2. DOMAIN <<>> = {}
  OBVIOUS
<1> QED
  BY <1>1, <1>2 DEF GroupsOf

\* The rows of a group are messages of the batch, with keys and columns.
LEMMA MembersInBatch ==
  ASSUME TypeOK, NEW g
  PROVE  /\ Members(g) \subseteq Batch
         /\ Batch \subseteq 1..reached /\ Batch \subseteq 1..Len(Log)
         /\ \A n \in Members(g) : IsRowChange(Log[n])
BY SizeAssumption DEF TypeOK, Members, Batch

LEMMA TouchedAreKeys ==
  ASSUME NEW rows \in SUBSET (1..Len(Log)), \A n \in rows : IsRowChange(Log[n])
  PROVE  Touched(rows) \subseteq Keys
BY LogAssumption DEF Touched

LEMMA ColumnsOfGroup == \A g : ColumnsOf(g) \subseteq Columns
BY DEF ColumnsOf, Included

\* The rows of a table have all columns.
RowsOK(t) ==
  \A k \in Keys : t[k].present => t[k].data = [col \in Columns |-> t[k].data[col]]

LEMMA LoadedRows ==
  ASSUME NEW t, RowsOK(t), NEW rows, NEW cols
  PROVE  RowsOK(Loaded(t, rows, cols))
<1> SUFFICES ASSUME NEW k \in Keys, Loaded(t, rows, cols)[k].present
             PROVE  LET data == Loaded(t, rows, cols)[k].data IN
                    data = [col \in Columns |-> data[col]]
  BY DEF RowsOK
<1> DEFINE own == {n \in rows : Log[n].key = k}
           n == CHOOSE n \in own : \A m \in own : m =< n
<1>1. CASE own = {}
  BY <1>1 DEF Loaded, RowsOK
<1>2. CASE own # {}
  <2>1. Loaded(t, rows, cols)[k] = Upsert(t[k], Log[n], cols)
    BY <1>2 DEF Loaded
  <2>2. LET data == Upsert(t[k], Log[n], cols).data IN
        data = [col \in Columns |-> data[col]]
    BY DEF Upsert
  <2> QED
    BY <2>1, <2>2
<1> QED
  BY <1>1, <1>2

\* The loads there can be of the messages delivered.
Loads ==
  [rows : SUBSET {n \in 1..reached : IsRowChange(Log[n])},
   cols : SUBSET Columns, over : SUBSET Keys]

\* What becomes of a load leaves the effects well-typed.
EffectsOK ==
  /\ late \subseteq Loads
  /\ spoiled \subseteq Keys
  /\ RowsOK(table)

LEMMA TypeSplit ==
  TypeOK <=> /\ pc \in {"idle", "send", "load", "failed"}
             /\ pos \in 0..Len(Log) /\ last \in pos..Len(Log)
             /\ pending \subseteq GroupsOf(Batch)
             /\ pc \in {"load", "failed"} <=> group \in pending
             /\ attempt \in 0..MaxRetries /\ (pc = "failed" <=> attempt = MaxRetries)
             /\ reached \in last..Len(Log)
             /\ EffectsOK
BY DEF TypeOK, EffectsOK, Loads, RowsOK

LEMMA TakesTyped ==
  ASSUME TypeOK, NEW F \in SUBSET Members(group), Takes(group, F), reached' = reached
  PROVE  EffectsOK'
<1> DEFINE rows == Members(group) \ F
           cols == ColumnsOf(group)
<1>1. /\ rows \in SUBSET (1..Len(Log)) /\ F \in SUBSET (1..Len(Log))
      /\ \A n \in Members(group) : IsRowChange(Log[n])
  BY MembersInBatch
<1>2. RowsOK(table')
  <2>1. RowsOK(table)
    BY DEF TypeOK, RowsOK
  <2>2. table' = Loaded(table, rows, cols)
    BY DEF Takes
  <2> QED
    BY <2>1, <2>2, LoadedRows
<1>3. spoiled' \subseteq Keys
  <2>1. Touched(F) \subseteq Keys /\ Touched(rows) \subseteq Keys
    BY <1>1, TouchedAreKeys
  <2>2. Spoils(rows, cols, F) \subseteq Touched(F) \cup Touched(rows)
    BY DEF Spoils, Touched
  <2> QED
    BY <2>1, <2>2 DEF Takes, TypeOK
<1>4. late' \subseteq Loads'
  <2>1. late \subseteq Loads /\ Loads' = Loads
    BY TypeSplit DEF EffectsOK, Loads
  <2>2. ASSUME NEW load \in Loads
        PROVE  [load EXCEPT !.over = @ \cup Overtaken(load.rows, rows)] \in Loads
    <3>1. load.rows \in SUBSET (1..Len(Log)) /\ \A n \in load.rows : IsRowChange(Log[n])
      BY <2>2, SizeAssumption DEF Loads, TypeOK
    <3>2. Overtaken(load.rows, rows) \subseteq Keys
      BY <3>1, LogAssumption DEF Overtaken
    <3> QED
      BY <2>2, <3>2 DEF Loads
  <2> QED
    BY <2>1, <2>2 DEF Takes
<1> QED
  BY <1>2, <1>3, <1>4 DEF EffectsOK

LEMMA LingersTyped ==
  ASSUME TypeOK, Lingers(group), reached' = reached
  PROVE  EffectsOK'
<1>1. /\ late' = late \cup {[rows |-> Members(group), cols |-> ColumnsOf(group), over |-> {}]}
      /\ UNCHANGED <<table, spoiled>>
  BY DEF Lingers
<1>2. EffectsOK /\ Loads' = Loads
  BY TypeSplit DEF Loads
<1>3. [rows |-> Members(group), cols |-> ColumnsOf(group), over |-> {}] \in Loads
  BY MembersInBatch, ColumnsOfGroup DEF Loads
<1> QED
  BY <1>1, <1>2, <1>3 DEF EffectsOK, RowsOK

LEMMA BecomesTyped ==
  ASSUME TypeOK, NEW fate \in DOMAIN Answers, Becomes(fate), reached' = reached
  PROVE  EffectsOK'
<1>1. CASE fate = "applied"
  <2>1. PICK F \in Drops(group) : Takes(group, F)
    BY <1>1 DEF Becomes
  <2>2. F \in SUBSET Members(group)
    BY DEF Drops
  <2> QED
    BY <2>1, <2>2, TakesTyped
<1>2. CASE fate = "refused"
  <2>1. UNCHANGED effects /\ Loads' = Loads
    BY <1>2 DEF Becomes, Loads
  <2> QED
    BY <2>1, TypeSplit DEF effects, EffectsOK, RowsOK
<1>3. CASE fate = "lingers"
  BY <1>3, LingersTyped DEF Becomes
<1> QED
  BY <1>1, <1>2, <1>3 DEF Answers

LEMMA AnsweredTyped ==
  ASSUME TypeOK, NEW ok, Answered(ok), reached' = reached
  PROVE  pc = "load" /\ EffectsOK'
BY BecomesTyped DEF Answered

LEMMA TypeInit == Init => TypeInv
<1> SUFFICES ASSUME Init PROVE TypeInv
  OBVIOUS
<1>1. EffectsOK
  BY DEF Init, EffectsOK, NoRow, RowsOK
<1> QED
  BY <1>1, TypeSplit, SizeAssumption DEF Init, TypeInv

LEMMA TypeNext == TypeInv /\ [Next]_vars => TypeInv'
<1> SUFFICES ASSUME TypeInv, [Next]_vars PROVE TypeInv'
  OBVIOUS
<1> USE SizeAssumption
<1>0. TypeOK /\ EffectsOK
  BY TypeSplit DEF TypeInv
<1> DEFINE Cursors ==
      /\ pc \in {"idle", "send", "load", "failed"}
      /\ pos \in 0..Len(Log) /\ last \in pos..Len(Log)
      /\ pending \subseteq GroupsOf(Batch)
      /\ pc \in {"load", "failed"} <=> group \in pending
      /\ attempt \in 0..MaxRetries /\ (pc = "failed" <=> attempt = MaxRetries)
      /\ reached \in last..Len(Log)
      /\ pc \in {"idle", "send"} => group = <<>>
<1>a. Cursors
  BY TypeSplit DEF TypeInv
<1>b. Cursors' /\ EffectsOK' => TypeInv'
  BY TypeSplit, PTL DEF TypeInv
<1>c. UNCHANGED effects /\ reached' >= reached /\ reached' \in Nat => EffectsOK'
  <2>1. reached' >= reached /\ reached' \in Nat => Loads \subseteq Loads'
    BY <1>a DEF Loads
  <2> QED
    BY <1>0, <2>1 DEF EffectsOK, effects, RowsOK
<1>1. CASE PushBatch
  <2>1. PICK n \in 1..MaxBatch :
          /\ pos + n =< Len(Log) /\ last' = pos + n /\ pos' = pos
          /\ reached' = IF reached < last' THEN last' ELSE reached
          /\ pending' = GroupsOf((pos + 1)..last')
    BY <1>1 DEF PushBatch, Feed!Take
  <2>2. pending' = GroupsOf(Batch')
    BY <2>1 DEF Batch
  <2>3. Cursors'
    BY <1>1, <1>a, <2>1, <2>2, GroupsAreRecords DEF PushBatch
  <2>4. EffectsOK'
    <3>1. Loads \subseteq Loads'
      BY <1>a, <2>1 DEF Loads
    <3>2. spoiled' = spoiled \cup Truncated((pos + 1)..last') /\ UNCHANGED <<table, late>>
      BY <1>1 DEF PushBatch
    <3>3. Truncated((pos + 1)..last') \subseteq Keys
      BY DEF Truncated
    <3> QED
      BY <1>0, <3>1, <3>2, <3>3 DEF EffectsOK, RowsOK
  <2> QED
    BY <1>b, <2>3, <2>4
<1>2. CASE SendGroup
  <2>1. Cursors'
    BY <1>2, <1>a DEF SendGroup, Batch
  <2> QED
    BY <1>2, <1>a, <1>b, <1>c, <2>1 DEF SendGroup
<1>3. CASE LoadOk
  <2>1. EffectsOK' /\ pc = "load"
    BY <1>0, <1>3, AnsweredTyped DEF LoadOk
  <2>2. <<>> \notin pending'
    BY <1>3, <1>a, GroupsAreRecords DEF LoadOk
  <2>3. Cursors'
    BY <1>3, <1>a, <2>1, <2>2 DEF LoadOk, Batch
  <2> QED
    BY <1>b, <2>1, <2>3
<1>4. CASE LoadFails
  <2>1. EffectsOK' /\ pc = "load"
    BY <1>0, <1>4, AnsweredTyped DEF LoadFails
  <2>2. Cursors'
    BY <1>4, <1>a, <2>1 DEF LoadFails, Batch
  <2> QED
    BY <1>b, <2>1, <2>2
<1>5. CASE PushFail
  <2>1. Cursors'
    BY <1>5, <1>a DEF PushFail, Feed!Pass, Batch
  <2>2. Touched({n \in Batch : IsRowChange(Log[n])}) \subseteq Keys
    <3>1. {n \in Batch : IsRowChange(Log[n])} \in SUBSET (1..Len(Log))
      BY <1>a DEF Batch
    <3> QED
      BY <3>1, TouchedAreKeys
  <2>3. EffectsOK'
    <3>1. Loads' = Loads
      BY <1>5 DEF PushFail, Loads
    <3> QED
      BY <1>5, <1>0, <2>2, <3>1 DEF PushFail, EffectsOK, RowsOK
  <2> QED
    BY <1>b, <2>1, <2>3
<1>6. CASE PushOk
  <2>1. Cursors'
    BY <1>6, <1>a DEF PushOk, Feed!Pass, Batch
  <2> QED
    BY <1>6, <1>a, <1>b, <1>c, <2>1 DEF PushOk
<1>7. CASE LateLoadEnds
  <2>1. Cursors'
    BY <1>7, <1>a DEF LateLoadEnds, cursors, Batch
  <2>2. /\ late' \subseteq late /\ Loads' = Loads
        /\ \/ UNCHANGED <<table, spoiled>>
           \/ \E load \in late :
                /\ table' = Loaded(table, load.rows, load.cols)
                /\ spoiled' = spoiled \cup load.over \cup Spoils(load.rows, load.cols, {})
    BY <1>7 DEF LateLoadEnds, cursors, Loads
  <2>3. RowsOK(table') /\ spoiled' \subseteq Keys
    <3>1. CASE UNCHANGED <<table, spoiled>>
      BY <1>0, <3>1 DEF EffectsOK
    <3>2. ASSUME NEW load \in late,
                 table' = Loaded(table, load.rows, load.cols),
                 spoiled' = spoiled \cup load.over \cup Spoils(load.rows, load.cols, {})
          PROVE  RowsOK(table') /\ spoiled' \subseteq Keys
      <4>1. load \in Loads
        BY <1>0 DEF EffectsOK
      <4>2. /\ load.rows \in SUBSET (1..Len(Log)) /\ load.over \subseteq Keys
            /\ \A n \in load.rows : IsRowChange(Log[n])
        BY <1>a, <4>1 DEF Loads
      <4>3. Touched(load.rows) \subseteq Keys
        BY <4>2, TouchedAreKeys
      <4>4. Spoils(load.rows, load.cols, {}) \subseteq Touched(load.rows)
        BY DEF Spoils, Touched
      <4>5. RowsOK(table')
        BY <1>0, <3>2, LoadedRows DEF EffectsOK
      <4> QED
        BY <1>0, <3>2, <4>2, <4>3, <4>4, <4>5 DEF EffectsOK
    <3> QED
      BY <2>2, <3>1, <3>2
  <2>4. EffectsOK'
    BY <1>0, <2>2, <2>3 DEF EffectsOK, RowsOK
  <2> QED
    BY <1>b, <2>1, <2>4
<1>8. CASE Restart
  <2>1. EffectsOK'
    BY <1>8, <1>0, <1>a, <1>c, LingersTyped DEF Restart
  <2>2. pos' \in 0..pos /\ last' = pos'
    BY <1>8, <1>a DEF Restart, Feed!Restart, Boundaries
  <2>3. Cursors'
    BY <1>8, <1>a, <2>2 DEF Restart
  <2> QED
    BY <1>b, <2>1, <2>3
<1>9. CASE Idle \/ UNCHANGED vars
  <2>1. Cursors'
    BY <1>9, <1>a DEF Idle, vars, cursors, Batch
  <2> QED
    BY <1>9, <1>a, <1>b, <1>c, <2>1 DEF Idle, vars, cursors
<1> QED
  BY <1>1, <1>2, <1>3, <1>4, <1>5, <1>6, <1>7, <1>8, <1>9 DEF Next

\* The cursors, the groups and the attempts stay in range whatever StarRocks
\* answers, drops, or carries out late.
THEOREM SinkTypeCorrectness == Spec => []TypeOK
<1>1. TypeInv => TypeOK
  BY DEF TypeInv
<1> QED
  BY <1>1, TypeInit, TypeNext, PTL DEF Spec

=============================================================================
