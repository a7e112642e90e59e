---------------------------- MODULE SchemaProofs ----------------------------
(* Proofs about Schema, for every sequence of changes and batch size. *)
EXTENDS Schema, Extremes, TLAPS

\* What the cache and the session can be told is a part of AllColumns.
LEMMA ColumnsKnown ==
  /\ \A n \in 1..Len(Changes) : Names(Columns(n)) \subseteq AllColumns
  /\ Names(NoColumns) = {}
<1>1. \A n \in 1..Len(Changes) : Names(Columns(n)) \subseteq AllColumns
  BY DEF AllColumns
<1>2. DOMAIN NoColumns = {}
  BY DEF NoColumns
<1> QED
  BY <1>1, <1>2 DEF Names

\* A message that joins the batch fills it exactly when the limit is reached.
LEMMA MessageFits ==
  ASSUME size \in Nat, size < FlushSize
  PROVE  /\ AfterMessage \in {"top", "push"}
         /\ size + 1 =< FlushSize
         /\ AfterMessage # "push" => size + 1 < FlushSize
BY FlushAssumption DEF AfterMessage

LEMMA TypeInit == Init => TypeOK
<1> SUFFICES ASSUME Init PROVE TypeOK
  OBVIOUS
<1>1. Names(Columns(1)) \subseteq AllColumns /\ Names(NoColumns) = {}
  BY ColumnsKnown, ChangesAssumption
<1> QED
  BY <1>1, ChangesAssumption, FlushAssumption DEF Init, TypeOK

LEMMA TypeNext == TypeOK /\ [Next]_vars => TypeOK'
<1> SUFFICES ASSUME TypeOK, [Next]_vars PROVE TypeOK'
  OBVIOUS
<1> USE ChangesAssumption, FlushAssumption
<1>1. CASE ReceiveRelation
  <2> DEFINE cols == Columns(taken + 1)
  <2>1. Names(cols) \subseteq AllColumns
    BY <1>1, ColumnsKnown DEF ReceiveRelation, TypeOK
  <2>2. size \in Nat /\ size < FlushSize
    BY <1>1 DEF ReceiveRelation, TypeOK
  <2>3. Added(cols) \subseteq AllColumns
    BY <2>1 DEF Added
  <2>4. /\ announced' = cols /\ cache' = cols /\ alter' = Added(cols)
        /\ untried' \subseteq AllColumns
    BY <1>1, <2>1 DEF ReceiveRelation, Cached, TypeOK
  <2>5. CASE Added(cols) # {}
    BY <1>1, <2>1, <2>2, <2>3, <2>4, <2>5 DEF ReceiveRelation, TypeOK
  <2>6. CASE Added(cols) = {}
    BY <1>1, <2>1, <2>2, <2>3, <2>4, <2>6, MessageFits DEF ReceiveRelation, TypeOK
  <2> QED
    BY <2>5, <2>6
<1>2. CASE AlterOk
  <2>1. size \in Nat /\ size < FlushSize
    BY <1>2 DEF AlterOk, TypeOK
  <2> QED
    BY <1>2, <2>1, MessageFits DEF AlterOk, Remaining, TypeOK
<1>3. CASE AlterErr
  <2>1. size \in Nat /\ size < FlushSize
    BY <1>3 DEF AlterErr, TypeOK
  <2> QED
    BY <1>3, <2>1, MessageFits DEF AlterErr, TypeOK
<1>4. CASE ReceiveChange
  <2>1. size \in Nat /\ size < FlushSize
    BY <1>4 DEF ReceiveChange, TypeOK
  <2> QED
    BY <1>4, <2>1, MessageFits DEF ReceiveChange, TypeOK
<1>5. CASE FlushTick
  BY <1>5 DEF FlushTick, TypeOK
<1>6. CASE PushOk
  BY <1>6 DEF PushOk, TypeOK
<1>7. CASE PushErr
  <2>1. \A n \in Batch : Key(n) \in Keys
    BY DEF TypeOK, Batch, Keys
  <2> QED
    BY <1>7, <2>1 DEF PushErr, TypeOK
<1>8. CASE Restart
  BY <1>8, ColumnsKnown DEF Restart, TypeOK
<1>9. CASE Idle \/ UNCHANGED vars
  BY <1>9 DEF Idle, vars, streamVars, TypeOK
<1> QED
  BY <1>1, <1>2, <1>3, <1>4, <1>5, <1>6, <1>7, <1>8, <1>9 DEF Next

\* Cursors, batch and columns stay in range, whatever is added, fails or
\* restarts.
THEOREM SchemaTypeCorrectness == Spec => []TypeOK
<1> QED
  BY TypeInit, TypeNext, PTL DEF Spec

-----------------------------------------------------------------------------

LEMMA DeltaInit == Init => DeltaInv
<1>1. Names(NoColumns) = {}
  BY ColumnsKnown
<1> QED
  BY <1>1 DEF Init, DeltaInv

\* A new description puts each column that is missing on record: in the delta
\* or, with an empty cache, among the untried ones.
LEMMA DeltaNext == TypeOK /\ DeltaInv /\ [Next]_vars => DeltaInv'
<1> SUFFICES ASSUME TypeOK, DeltaInv, [Next]_vars PROVE DeltaInv'
  OBVIOUS
<1>1. CASE ReceiveRelation
  <2> DEFINE cols == Columns(taken + 1)
  <2>1. /\ cache' = cols /\ alter' = Added(cols) /\ UNCHANGED target
        /\ untried' = IF cache = NoColumns THEN untried \cup (Names(cols) \ target)
                                           ELSE untried
    BY <1>1 DEF ReceiveRelation, Cached
  <2>2. alter = {}
    BY <1>1 DEF ReceiveRelation, TypeOK
  <2>3. CASE cache = NoColumns
    BY <2>1, <2>3 DEF DeltaInv
  <2>4. CASE cache # NoColumns
    BY <2>1, <2>2, <2>4 DEF DeltaInv, Added
  <2> QED
    BY <2>3, <2>4
<1>2. CASE AlterOk
  BY <1>2 DEF AlterOk, Remaining, DeltaInv
<1>3. CASE AlterErr
  BY <1>3 DEF AlterErr, DeltaInv
<1>4. CASE Restart
  <2>1. Names(cache') = {}
    BY <1>4, ColumnsKnown DEF Restart
  <2> QED
    BY <2>1 DEF DeltaInv
<1>5. CASE ReceiveChange \/ FlushTick \/ PushOk \/ PushErr \/ Idle \/ UNCHANGED vars
  BY <1>5 DEF ReceiveChange, FlushTick, PushOk, PushErr, Idle, vars, streamVars,
     DeltaInv
<1> QED
  BY <1>1, <1>2, <1>3, <1>4, <1>5 DEF Next

\* For every sequence of changes: a column that the cache knows and StarRocks
\* lacks is one whose ALTER TABLE failed or that was first seen with an empty
\* cache.
THEOREM ColumnAccounting == Spec => []ColumnsAccountedFor
<1>1. TypeOK /\ DeltaInv => ColumnsAccountedFor
  BY DEF TypeOK, DeltaInv, ColumnsAccountedFor
<1> QED
  BY <1>1, TypeInit, TypeNext, DeltaInit, DeltaNext, PTL DEF Spec

-----------------------------------------------------------------------------
(* The cells of the table *)

\* LastIn is the last of the changes of a row, whichever set it is looked for
\* in.
LEMMA LastInIs ==
  ASSUME NEW k, NEW a \in Nat, NEW b \in Nat,
         NEW n \in a..b, Key(n) = k
  PROVE  LET m == LastIn(a..b, k) IN
         m \in a..b /\ Key(m) = k /\ \A l \in a..b : Key(l) = k => l =< m
<1> DEFINE S == {l \in a..b : Key(l) = k}
<1>1. \E m \in S : \A l \in S : l =< m
  <2>1. S \in SUBSET (0..b) /\ S # {}
    OBVIOUS
  <2> HIDE DEF S
  <2> QED
    BY <2>1, Greatest
<1>2. \E m \in a..b : Key(m) = k /\ \A l \in a..b : Key(l) = k => l =< m
  BY <1>1
<1> QED
  BY <1>2 DEF LastIn

\* What PostgreSQL shows of a row changes only with a change of the row.
LEMMA SameCell ==
  ASSUME NEW k, NEW c, NEW a \in Nat, NEW b \in Nat, a =< b,
         \A n \in (a + 1)..b : Key(n) # k
  PROVE  SourceCell(k, c, a) = SourceCell(k, c, b)
<1>1. \A n \in 1..b : Key(n) = k <=> n \in 1..a /\ Key(n) = k
  OBVIOUS
<1>2. (\E n \in 1..a : Key(n) = k) <=> (\E n \in 1..b : Key(n) = k)
  BY <1>1
<1>3. LastIn(1..a, k) = LastIn(1..b, k)
  <2>1. \A n : (n \in 1..a /\ Key(n) = k /\ \A m \in 1..a : Key(m) = k => m =< n)
               <=> (n \in 1..b /\ Key(n) = k /\ \A m \in 1..b : Key(m) = k => m =< n)
    BY <1>1
  <2> QED
    BY <2>1 DEF LastIn
<1> QED
  BY <1>2, <1>3 DEF SourceCell

\* The names of two descriptions: the earlier one's are among the later one's.
LEMMA NamesGrow ==
  ASSUME NEW n \in 1..Len(Changes), NEW m \in 1..n
  PROVE  Names(Columns(m)) \subseteq Names(Columns(n))
<1>1. /\ Columns(m) \in Seq(Names(Columns(m))) /\ Columns(n) \in Seq(Names(Columns(n)))
      /\ Len(Columns(m)) =< Len(Columns(n))
      /\ \A i \in 1..Len(Columns(m)) : Columns(m)[i] = Columns(n)[i]
  BY ChangesAssumption
<1>2. /\ DOMAIN Columns(m) = 1..Len(Columns(m)) /\ DOMAIN Columns(n) = 1..Len(Columns(n))
      /\ Len(Columns(m)) \in Nat /\ Len(Columns(n)) \in Nat
  BY <1>1
<1> QED
  BY <1>1, <1>2 DEF Names

\* A change converted with its own or a later description has all its values
\* in their columns.
LEMMA JsonCells ==
  ASSUME NEW j \in 1..Len(Changes), NEW n \in 1..j, cache = Columns(j)
  PROVE  /\ DOMAIN Json(n) = Names(Columns(n))
         /\ \A c \in Names(Columns(n)) : Json(n)[c] = Value(c, n)
<1> DEFINE P == Len(Columns(n))
<1>1. /\ cache \in Seq(Names(cache)) /\ Columns(n) \in Seq(Names(Columns(n)))
      /\ P =< Len(cache)
      /\ \A i \in 1..P : Columns(n)[i] = cache[i]
      /\ \A i, l \in DOMAIN cache : i # l => cache[i] # cache[l]
  BY ChangesAssumption
<1>2. /\ DOMAIN cache = 1..Len(cache) /\ DOMAIN Columns(n) = 1..P
      /\ P \in Nat /\ Len(cache) \in Nat
  BY <1>1
<1>3. ~(Len(cache) < P)
  BY <1>1, <1>2
<1>4. {cache[i] : i \in 1..P} = Names(Columns(n))
  BY <1>1, <1>2 DEF Names
<1>5. Json(n) = [c \in Names(Columns(n)) |->
                  Value(Columns(n)[CHOOSE l \in DOMAIN cache : cache[l] = c], n)]
  BY <1>3, <1>4 DEF Json
<1>6. ASSUME NEW c \in Names(Columns(n))
      PROVE  Columns(n)[CHOOSE l \in DOMAIN cache : cache[l] = c] = c
  <2>1. PICK i \in 1..P : cache[i] = c
    BY <1>4
  <2>2. (CHOOSE l \in DOMAIN cache : cache[l] = c) = i
    BY <1>1, <1>2, <2>1
  <2> QED
    BY <1>1, <2>1, <2>2
<1> QED
  BY <1>5, <1>6

\* The row of a key after a push: that of its last change in the batch, or
\* what it was.
LEMMA PushedRow ==
  ASSUME TypeOK, CacheInv, NEW k \in Keys, NEW c \in AllColumns
  PROVE  /\ (\A n \in Batch : Key(n) # k) => Pushed[k] = table[k]
         /\ c \notin target =>
              Pushed[k][c] = IF \E n \in Batch : Key(n) = k THEN Null ELSE table[k][c]
         /\ c \in target /\ (\E n \in Batch : Key(n) = k)
              => Pushed[k][c] = SourceCell(k, c, taken)
<1>1. /\ taken \in 0..Len(Changes) /\ cleared \in 0..taken /\ Len(Changes) \in Nat
  BY ChangesAssumption DEF TypeOK
<1>2. (\A n \in Batch : Key(n) # k) => Pushed[k] = table[k]
  BY DEF Pushed
<1>3. ASSUME \E n \in Batch : Key(n) = k
      PROVE  Pushed[k] = Upsert(LastIn(Batch, k))
  BY <1>3 DEF Pushed
<1>4. c \notin target =>
        Pushed[k][c] = IF \E n \in Batch : Key(n) = k THEN Null ELSE table[k][c]
  BY <1>2, <1>3 DEF Upsert
<1>5. ASSUME c \in target, NEW n \in Batch, Key(n) = k
      PROVE  Pushed[k][c] = SourceCell(k, c, taken)
  <2> DEFINE m == LastIn(Batch, k)
  <2>1. m \in Batch /\ Key(m) = k /\ \A l \in Batch : Key(l) = k => l =< m
    BY <1>1, <1>5, LastInIs DEF Batch
  <2>2. n \in 1..taken
    BY <1>1, <1>5 DEF Batch
  <2>3. LET l == LastIn(1..taken, k) IN
        l \in 1..taken /\ Key(l) = k /\ \A i \in 1..taken : Key(i) = k => i =< l
    BY <1>1, <1>5, <2>2, LastInIs
  <2>4. m = LastIn(1..taken, k)
    BY <1>1, <1>5, <2>1, <2>3 DEF Batch
  <2>5. SourceCell(k, c, taken) = IF c \in Names(Columns(m)) THEN Value(c, m) ELSE Null
    BY <1>5, <2>2, <2>4 DEF SourceCell
  <2>6. Pushed[k][c] = IF c \in DOMAIN Json(m) THEN Json(m)[c] ELSE Null
    BY <1>3, <1>5 DEF Upsert
  <2>7. PICK j \in 1..Len(Changes) : taken =< j /\ cache = Columns(j)
    <3>1. cleared # taken
      BY <1>1, <1>5 DEF Batch
    <3> QED
      BY <3>1 DEF CacheInv
  <2>8. m \in 1..j
    BY <1>1, <2>1, <2>7 DEF Batch
  <2>9. DOMAIN Json(m) = Names(Columns(m))
        /\ \A d \in Names(Columns(m)) : Json(m)[d] = Value(d, m)
    BY <2>7, <2>8, JsonCells
  <2> QED
    BY <2>5, <2>6, <2>9
<1> QED
  BY <1>2, <1>4, <1>5

-----------------------------------------------------------------------------
(* The invariant of the cells *)

CellInvs == CacheInv /\ AlterInv /\ NullInv /\ CellsInv

LEMMA CellInit == Init => CellInvs
<1> SUFFICES ASSUME Init PROVE CellInvs
  OBVIOUS
<1>1. CacheInv /\ AlterInv
  BY DEF Init, CacheInv, AlterInv
<1>2. \A k \in Keys, c \in AllColumns : table[k][c] = Null
  BY DEF Init
<1>3. Names(Columns(1)) \subseteq AllColumns
  BY ColumnsKnown, ChangesAssumption
<1>4. \A k \in Keys, c \in AllColumns : SourceCell(k, c, 0) = Null
  BY DEF SourceCell
<1> QED
  BY <1>1, <1>2, <1>3, <1>4 DEF Init, CellInvs, NullInv, CellsInv

\* The cache follows the session, and is filled before the first change.
LEMMA CacheNext == TypeOK /\ CacheInv /\ [Next]_vars => CacheInv'
<1> SUFFICES ASSUME TypeOK, CacheInv, [Next]_vars PROVE CacheInv'
  OBVIOUS
<1> USE ChangesAssumption
<1>1. /\ taken \in 0..Len(Changes) /\ cleared \in 0..taken /\ Len(Changes) \in Nat
  BY DEF TypeOK
<1>2. \A n \in 1..Len(Changes) : Columns(n) # NoColumns
  BY DEF NoColumns
<1>3. CASE ReceiveRelation
  <2>1. /\ taken + 1 \in 1..Len(Changes) /\ taken' = taken /\ taken =< taken + 1
        /\ announced' = Columns(taken + 1) /\ cache' = Columns(taken + 1)
    BY <1>1, <1>3 DEF ReceiveRelation, Cached
  <2> QED
    BY <1>2, <2>1 DEF CacheInv
<1>4. CASE ReceiveChange
  <2>1. /\ taken + 1 \in 1..Len(Changes) /\ taken' = taken + 1 /\ taken + 1 =< taken + 1
        /\ announced = Columns(taken + 1) /\ UNCHANGED <<announced, cache>>
    BY <1>1, <1>4 DEF ReceiveChange
  <2> QED
    BY <1>2, <2>1 DEF CacheInv
<1>5. CASE PushOk \/ PushErr
  BY <1>5 DEF PushOk, PushErr, CacheInv
<1>6. CASE Restart
  BY <1>6 DEF Restart, CacheInv
<1>7. CASE AlterOk \/ AlterErr \/ FlushTick \/ Idle \/ UNCHANGED vars
  BY <1>7 DEF AlterOk, AlterErr, FlushTick, Idle, vars, streamVars, CacheInv
<1> QED
  BY <1>3, <1>4, <1>5, <1>6, <1>7 DEF Next

\* A delta holds only columns that no change received so far has.
LEMMA AlterNext == TypeOK /\ CacheInv /\ AlterInv /\ [Next]_vars => AlterInv'
<1> SUFFICES ASSUME TypeOK, CacheInv, AlterInv, [Next]_vars PROVE AlterInv'
  OBVIOUS
<1>1. /\ taken \in 0..Len(Changes) /\ Len(Changes) \in Nat
  BY ChangesAssumption DEF TypeOK
<1>2. CASE ReceiveRelation
  <2> DEFINE cols == Columns(taken + 1)
  <2>1. alter' = Added(cols) /\ taken' = taken
    BY <1>2 DEF ReceiveRelation
  <2>2. ASSUME cache # NoColumns, NEW n \in 1..taken
        PROVE  Names(Columns(n)) \subseteq Names(cache)
    <3>1. PICK j \in 1..Len(Changes) : taken =< j /\ cache = Columns(j)
      BY <2>2 DEF CacheInv
    <3>2. n \in 1..j
      BY <1>1, <3>1
    <3> QED
      BY <3>1, <3>2, NamesGrow
  <2> QED
    BY <2>1, <2>2 DEF Added, AlterInv
<1>3. CASE ReceiveChange
  <2>1. alter = {} /\ alter' = alter
    BY <1>3 DEF ReceiveChange, TypeOK
  <2> QED
    BY <2>1 DEF AlterInv
<1>4. CASE AlterOk
  BY <1>4 DEF AlterOk, Remaining, AlterInv
<1>5. CASE AlterErr \/ Restart
  BY <1>5 DEF AlterErr, Restart, AlterInv
<1>6. CASE FlushTick \/ PushOk \/ PushErr \/ Idle \/ UNCHANGED vars
  BY <1>6 DEF FlushTick, PushOk, PushErr, Idle, vars, streamVars, AlterInv
<1> QED
  BY <1>2, <1>3, <1>4, <1>5, <1>6 DEF Next

\* A push writes nothing into a column that StarRocks lacks, and no column is
\* taken away.
LEMMA NullNext == TypeOK /\ CacheInv /\ NullInv /\ [Next]_vars => NullInv'
<1> SUFFICES ASSUME TypeOK, CacheInv, NullInv, [Next]_vars PROVE NullInv'
  OBVIOUS
<1>1. \A k \in Keys, c \in AllColumns \ target : Pushed[k][c] = Null
  BY PushedRow DEF NullInv
<1>2. target \subseteq target'
  BY DEF Next, ReceiveRelation, AlterOk, AlterErr, ReceiveChange, FlushTick, PushOk,
     PushErr, Restart, Idle, vars
<1>3. table' \in {table, Pushed}
  BY DEF Next, ReceiveRelation, AlterOk, AlterErr, ReceiveChange, FlushTick, PushOk,
     PushErr, Restart, Idle, vars
<1> QED
  BY <1>1, <1>2, <1>3 DEF NullInv

\* The changes that may be redelivered, and those that a batch or a restart
\* moves the cursor over, are one interval.
LEMMA RowRightAfter ==
  ASSUME TypeOK, CellsInv, NEW k \in Keys \ gap, NEW c \in target,
         NEW low \in 0..cleared,
         \A n \in (low + 1)..reached : Key(n) # k
  PROVE  table[k][c] = SourceCell(k, c, low)
<1>1. /\ taken \in Nat /\ cleared \in 0..taken /\ reached \in Nat /\ taken =< reached
  BY ChangesAssumption DEF TypeOK
<1>2. ~Redelivered(k)
  BY <1>1 DEF Redelivered
<1>3. SourceCell(k, c, low) = SourceCell(k, c, cleared)
  <2>1. \A n \in (low + 1)..cleared : Key(n) # k
    BY <1>1
  <2> QED
    BY <1>1, <2>1, SameCell
<1> QED
  BY <1>2, <1>3 DEF CellsInv

LEMMA CellsNext == TypeOK /\ CellInvs /\ [Next]_vars => CellsInv'
<1> SUFFICES ASSUME TypeOK, CellInvs, [Next]_vars PROVE CellsInv'
  OBVIOUS
<1> USE DEF CellInvs
<1>1. /\ taken \in 0..Len(Changes) /\ cleared \in 0..taken /\ Len(Changes) \in Nat
      /\ reached \in taken..Len(Changes)
  BY ChangesAssumption DEF TypeOK
<1>3. CASE ReceiveRelation \/ FlushTick \/ Idle \/ UNCHANGED vars
  BY <1>3 DEF ReceiveRelation, FlushTick, Idle, vars, streamVars, CellsInv, Redelivered,
     SourceCell
\* A new column is Null in every row, and so it is in PostgreSQL.
<1>4. ASSUME target' \subseteq target \cup alter,
             UNCHANGED <<cleared, reached, table, gap>>
      PROVE  CellsInv'
  <2> SUFFICES ASSUME NEW k \in Keys \ gap, NEW c \in target', ~Redelivered(k)
               PROVE  table[k][c] = SourceCell(k, c, cleared)
    BY <1>4 DEF CellsInv, Redelivered, SourceCell
  <2>1. CASE c \in target
    BY <2>1 DEF CellsInv
  <2>2. CASE c \in alter \ target
    <3>1. c \in AllColumns
      BY <2>2 DEF TypeOK
    <3>2. table[k][c] = Null
      BY <2>2, <3>1 DEF NullInv
    <3>3. \A n \in 1..cleared : c \notin Names(Columns(n))
      BY <1>1, <2>2 DEF AlterInv
    <3>4. ASSUME \E n \in 1..cleared : Key(n) = k
          PROVE  LastIn(1..cleared, k) \in 1..cleared
      BY <1>1, <3>4, LastInIs
    <3> QED
      BY <3>2, <3>3, <3>4 DEF SourceCell
  <2> QED
    BY <1>4, <2>1, <2>2
<1>5. CASE AlterOk \/ AlterErr
  BY <1>4, <1>5 DEF AlterOk, AlterErr
<1>6. CASE ReceiveChange
  <2> SUFFICES ASSUME NEW k \in Keys \ gap, NEW c \in target, ~Redelivered(k)'
               PROVE  table[k][c] = SourceCell(k, c, cleared)
    BY <1>6 DEF ReceiveChange, CellsInv, SourceCell
  <2>1. \A n \in (cleared + 1)..reached : Key(n) # k
    BY <1>1, <1>6 DEF ReceiveChange, Redelivered
  <2> QED
    BY <1>1, <2>1, RowRightAfter
<1>7. CASE PushOk \/ PushErr
  <2> SUFFICES ASSUME NEW k \in Keys \ gap', NEW c \in target,
                      \A n \in (taken + 1)..reached : Key(n) # k
               PROVE  table'[k][c] = SourceCell(k, c, taken)
    BY <1>7 DEF PushOk, PushErr, CellsInv, Redelivered, SourceCell
  <2>1. c \in AllColumns /\ k \in Keys \ gap
    BY <1>7 DEF TypeOK, PushOk, PushErr
  <2>2. CASE \E n \in Batch : Key(n) = k
    <3>1. PushOk
      BY <1>7, <2>2 DEF PushErr
    <3> QED
      BY <2>1, <2>2, <3>1, PushedRow DEF PushOk
  <2>3. CASE \A n \in Batch : Key(n) # k
    <3>1. table'[k] = table[k]
      BY <1>7, <2>1, <2>3, PushedRow DEF PushOk, PushErr
    <3>2. \A n \in (cleared + 1)..reached : Key(n) # k
      BY <1>1, <2>3 DEF Batch
    <3>3. table[k][c] = SourceCell(k, c, cleared)
      BY <1>1, <2>1, <3>2, RowRightAfter
    <3>4. SourceCell(k, c, cleared) = SourceCell(k, c, taken)
      BY <1>1, <2>3, SameCell DEF Batch
    <3> QED
      BY <3>1, <3>3, <3>4
  <2> QED
    BY <2>2, <2>3
<1>8. CASE Restart
  <2> SUFFICES ASSUME NEW k \in Keys \ gap, NEW c \in target',
                      \A n \in (taken' + 1)..reached : Key(n) # k
               PROVE  table'[k][c] = SourceCell(k, c, taken')
    BY <1>8 DEF Restart, CellsInv, Redelivered, SourceCell
  <2>1. taken' \in 0..cleared
    BY <1>8 DEF Restart
  <2>2. c \in AllColumns /\ c \in target \cup alter
    BY <1>8 DEF TypeOK, Restart
  <2>3. \A n \in Batch : Key(n) # k
    <3>1. ASSUME NEW low \in 0..cleared, NEW n \in Batch
          PROVE  n \in (low + 1)..reached
      BY <1>1 DEF Batch
    <3> QED
      BY <2>1, <3>1
  <2>4. table'[k] = table[k]
    BY <1>8, <2>2, <2>3, PushedRow DEF Restart
  <2>5. CASE c \in target
    BY <2>1, <2>4, <2>5, RowRightAfter
  <2>6. CASE c \in alter \ target
    <3>1. table[k][c] = Null
      BY <2>2, <2>6 DEF NullInv
    <3>2. \A n \in 1..taken' : c \notin Names(Columns(n))
      BY <1>1, <2>1, <2>6 DEF AlterInv
    <3>3. ASSUME \E n \in 1..taken' : Key(n) = k
          PROVE  LastIn(1..taken', k) \in 1..taken'
      BY <1>1, <2>1, <3>3, LastInIs
    <3> QED
      BY <2>4, <3>1, <3>2, <3>3 DEF SourceCell
  <2> QED
    BY <2>2, <2>5, <2>6
<1> QED
  BY <1>3, <1>5, <1>6, <1>7, <1>8 DEF Next

\* For every sequence of changes, batch size and course of failures and
\* restarts: with nothing left to deliver a second time, the columns that
\* StarRocks has show PostgreSQL's values, but for rows of a failed push.
THEOREM ColumnsShown == Spec => []ShowsColumns
<1>1. TypeOK /\ CellsInv => ShowsColumns
  <2> SUFFICES ASSUME TypeOK, CellsInv, pc = "top", size = 0, taken = reached,
                      NEW k \in Keys \ gap, NEW c \in target
               PROVE  table[k][c] = SourceCell(k, c, taken)
    BY DEF ShowsColumns
  <2>1. cleared = taken /\ cleared \in Nat
    BY ChangesAssumption DEF TypeOK
  <2>2. ~Redelivered(k)
    BY <2>1 DEF Redelivered
  <2> QED
    BY <2>1, <2>2 DEF CellsInv
<1>2. TypeOK /\ CellInvs /\ [Next]_vars => CellInvs'
  BY CacheNext, AlterNext, NullNext, CellsNext DEF CellInvs
<1>3. CellInvs => CellsInv
  BY DEF CellInvs
<1> QED
  BY <1>1, <1>2, <1>3, TypeInit, TypeNext, CellInit, PTL DEF Spec

=============================================================================
