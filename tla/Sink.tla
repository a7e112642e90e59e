-------------------------------- MODULE Sink --------------------------------
(***************************************************************************)
(* StarRocksSink::push_batch (src/sink/starrocks.rs) over Stream Load      *)
(* (src/sink/curl_loader.rs), and what it makes of a StarRocks primary-key *)
(* table when loads are retried, given up, delivered again, take effect    *)
(* after their timeout, or drop rows.                                      *)
(*                                                                         *)
(* A batch is split into groups of rows of one table and one TOAST bitmap. *)
(* Each group is one Stream Load, a transaction of StarRocks; the groups   *)
(* come out of a hash map, in any order.  Rows are upserts: a full row, or *)
(* a partial update without the columns PostgreSQL did not send.  The      *)
(* frontend redirects a request to a backend: one request here, which ends *)
(* with the answer of the last server asked.                               *)
(***************************************************************************)
EXTENDS Naturals, Sequences, FiniteSets

CONSTANTS
  Log,           \* the row changes of the slot, in stream order
  Keys,          \* primary keys
  Columns,       \* column positions, from 0
  Null,
  BitmapWidth,   \* columns the TOAST bitmap tracks (64 in the code)
  MaxBatch,      \* events per batch
  MaxRetries,    \* attempts per Stream Load (3 in the code)
  MaxLate,       \* bound for TLC: different loads that are late at a time
  FilterRatio,   \* of so many rows a load may drop one (max_filter_ratio 0.2: 5)
  Env            \* what may happen: "load" fails, "late" load, "filter"ed
                 \* rows, "crash" of the process

IsRowChange(c) == c.op \in {"insert", "update", "delete"}

(***************************************************************************)
(* A change carries the row it leaves (a delete: the row it removes, since *)
(* setup makes replica identity FULL), the columns sent as "unchanged      *)
(* TOAST" and, like every message, the position of its transaction's       *)
(* commit.  An update may move a row to another key.  A TRUNCATE empties   *)
(* tables, those with the keys in "emptied"; the publication has it, since *)
(* it publishes all that PostgreSQL does by default, and the parser knows  *)
(* no such message.  "none" is any other message.                          *)
(***************************************************************************)
NoRow == [present |-> FALSE]
Row(data) == [present |-> TRUE, data |-> data]

ApplyToSource(source, c) ==
  CASE c.op = "insert" -> [source EXCEPT ![c.key] = Row(c.row)]
    [] c.op = "update" -> [source EXCEPT ![c.from] = NoRow, ![c.key] = Row(c.row)]
    [] c.op = "delete" -> [source EXCEPT ![c.key] = NoRow]
    [] c.op = "truncate" ->
         [k \in Keys |-> IF k \in c.emptied THEN NoRow ELSE source[k]]
    [] OTHER           -> source

\* The PostgreSQL table after the first n messages.
SourceAt[n \in 0..Len(Log)] ==
  IF n = 0 THEN [k \in Keys |-> NoRow] ELSE ApplyToSource(SourceAt[n - 1], Log[n])

\* The log is one PostgreSQL writes: a row has all columns, and a column is
\* sent as unchanged only if the row has it unchanged, and only by an update.
ASSUME LogAssumption ==
  \A n \in 1..Len(Log) :
    LET c == Log[n] IN
    IsRowChange(c) =>
      /\ {c.from, c.key} \subseteq Keys /\ c.toast \subseteq Columns
      /\ c.row = [col \in Columns |-> c.row[col]]
      /\ c.op = "update" =>
           /\ SourceAt[n - 1][c.from].present
           /\ \A col \in c.toast : c.row[col] = SourceAt[n - 1][c.from].data[col]
      /\ c.op # "update" => c.toast = {} /\ c.from = c.key

ASSUME SizeAssumption ==
  /\ Len(Log) \in Nat
  /\ MaxBatch \in Nat \ {0} /\ MaxRetries \in Nat \ {0}
  /\ Columns # {}

VARIABLES
  table,     \* the StarRocks table, by primary key
  pc,        \* "idle", "send" (between two loads), "load" (one is out), "failed"
  pos,       \* messages before the batch
  last,      \* the last message of the batch
  pending,   \* groups still to be sent
  group,     \* the group being sent
  attempt,   \* failed attempts for it
  late,      \* loads whose client has given up, and StarRocks has not
  reached,   \* history: the last message of any batch so far
  spoiled    \* history: keys whose row something named below has spoiled

cursors == <<pc, pos, last, pending, group, attempt, reached>>
effects == <<table, late, spoiled>>
vars == <<cursors, effects>>

Batch == (pos + 1)..last

\* PostgreSQL streams whole transactions again, from wherever the last
\* position that was saved or confirmed lies.
Boundaries ==
  {p \in 0..Len(Log) : p = 0 \/ p = Len(Log) \/ Log[p].commit < Log[p + 1].commit}

\* What the pipeline hands over, and again after a restart.
Feed == INSTANCE BatchFeed WITH Length <- Len(Log)

-----------------------------------------------------------------------------
(* From messages to rows *)

\* read_tuple sets a bit only for the columns a u64 has room for.
ToastBitmap(c) == {col \in c.toast : col < BitmapWidth}

\* Only updates are looked at.
HasToast(c) == c.op = "update" /\ ToastBitmap(c) # {}

\* The columns of the JSON row: an update with a tracked TOAST column leaves
\* out every TOAST column, any other row has them all.
Included(c) == IF HasToast(c) THEN Columns \ c.toast ELSE Columns

\* A TOAST column that is not left out is written as null.
Cell(c, col) == IF col \in c.toast THEN Null ELSE c.row[col]

\* Inserts and deletes are full rows.
BatchKey(c) ==
  [rel |-> c.rel, toast_bitmap |-> IF HasToast(c) THEN ToastBitmap(c) ELSE {}]

GroupsOf(B) == {BatchKey(Log[n]) : n \in {m \in B : IsRowChange(Log[m])}}

Members(g) == {n \in Batch : IsRowChange(Log[n]) /\ BatchKey(Log[n]) = g}

\* The column list of a partial update comes from the first row of its group.
ColumnsOf(g) ==
  Included(Log[CHOOSE n \in Members(g) : \A m \in Members(g) : n =< m])

-----------------------------------------------------------------------------
(* StarRocks *)

EmptyRow == [col \in Columns |-> Null]

\* One row of a load with these columns: columns not listed keep their
\* values, or are null in a new row.
Upsert(row, c, cols) ==
  LET old == IF row.present THEN row.data ELSE EmptyRow
      cell(col) == IF col \notin cols THEN old[col]
                   ELSE IF col \in Included(c) THEN Cell(c, col) ELSE Null
  IN  [present |-> TRUE,
       data    |-> [col \in Columns |-> cell(col)],
       deleted |-> (c.op = "delete")]

\* All rows of a load have the same columns: the last row of a key wins.
Loaded(t, rows, cols) ==
  [k \in Keys |->
     LET own == {n \in rows : Log[n].key = k}
     IN  IF own = {} THEN t[k]
         ELSE Upsert(t[k], Log[CHOOSE n \in own : \A m \in own : m =< n], cols)]

\* What StarRocks may drop of a load and still call it a success.
Drops(g) ==
  LET rows == Members(g)
  IN  IF "filter" \in Env
      THEN {F \in SUBSET rows : Cardinality(F) * FilterRatio =< Cardinality(rows)}
      ELSE {{}}

(***************************************************************************)
(* Why a row may differ from PostgreSQL's although its load succeeded: it  *)
(* was dropped; it left its key, where the sink never looks; its table was *)
(* emptied, which the sink skips; the columns of its load, which the first *)
(* row of the group decides, are not those PostgreSQL sent, for the bitmap *)
(* has no bit for one of them; the new key has no row to keep the others   *)
(* in.  A full row makes good again, if it is newer than the TRUNCATE.     *)
(***************************************************************************)
Touched(rows) == {Log[n].key : n \in rows} \cup {Log[n].from : n \in rows}

Truncates(n, k) == Log[n].op = "truncate" /\ k \in Log[n].emptied

Truncated(B) == {k \in Keys : \E n \in B : Truncates(n, k)}

Moves(n) == Log[n].from # Log[n].key

Incomplete(n, cols) ==
  \/ cols # Columns \ Log[n].toast
  \/ Moves(n) /\ Log[n].toast # {}

Spoils(rows, cols, dropped) ==
  Touched(dropped)
    \cup {Log[n].from : n \in {m \in rows : Moves(m)}}
    \cup {Log[n].key : n \in {m \in rows : Incomplete(m, cols)}}

Repairs(rows, cols) ==
  {Log[n].key : n \in {m \in rows :
     /\ cols = Columns /\ Log[m].toast = {}
     /\ ~\E t \in (m + 1)..last : Truncates(t, Log[m].key)}}

\* The rows of a late load that a newer load has meanwhile written.
Overtaken(rows, newer) ==
  {Log[n].key : n \in {m \in rows :
     \E l \in newer : l > m /\ Log[l].key = Log[m].key}}

\* A load takes effect, but for the rows it drops.
Takes(g, dropped) ==
  LET rows == Members(g) \ dropped
      cols == ColumnsOf(g)
  IN  /\ table' = Loaded(table, rows, cols)
      /\ spoiled' = (spoiled \ Repairs(rows, cols)) \cup Spoils(rows, cols, dropped)
      /\ late' = {[l EXCEPT !.over = @ \cup Overtaken(l.rows, rows)] : l \in late}

\* Nobody waits for the load any more.  It is one of those with the same rows
\* that are late already, or a new one.
Lingers(g) ==
  /\ "late" \in Env
  /\ late' = late \cup {[rows |-> Members(g), cols |-> ColumnsOf(g), over |-> {}]}
  /\ Cardinality(late') =< MaxLate
  /\ UNCHANGED <<table, spoiled>>

(***************************************************************************)
(* What may have become of a load when its request ends, and the answers   *)
(* that leave this open: the Status of the JSON body, "Unknown" if there   *)
(* is none to be read, "none" after 30 s, a broken connection or an HTTP   *)
(* status from 400 on.                                                     *)
(***************************************************************************)
Answers ==
  [applied |-> {"Success", "Publish Timeout", "Unknown", "none"},
   refused |-> {"Fail", "Unknown", "none"},
   lingers |-> {"Unknown", "none"}]

\* Mutant: an answer that cannot be read is taken for a success.
AcceptsUnknown(a) == a \in {"Success", "Publish Timeout", "Unknown"}

Accepts(a) == a \in {"Success", "Publish Timeout"}

Becomes(fate) ==
  CASE fate = "applied" -> \E F \in Drops(group) : Takes(group, F)
    [] fate = "refused" -> UNCHANGED effects
    [] fate = "lingers" -> Lingers(group)

-----------------------------------------------------------------------------

Init ==
  /\ table = [k \in Keys |-> NoRow]
  /\ pc = "idle" /\ pos = 0 /\ last = 0
  /\ pending = {} /\ group = <<>> /\ attempt = 0
  /\ late = {}
  /\ reached = 0 /\ spoiled = {}

\* The pipeline flushes by size, by time or before a pause: batches of any
\* size up to the limit.  No group has the messages that are no row changes.
PushBatch ==
  /\ pc = "idle"
  /\ Feed!Take
  /\ reached' = IF reached < last' THEN last' ELSE reached
  /\ pending' = GroupsOf((pos + 1)..last')
  /\ spoiled' = spoiled \cup Truncated((pos + 1)..last')
  /\ pc' = "send"
  /\ UNCHANGED <<group, attempt, table, late>>

SendGroup ==
  /\ pc = "send"
  /\ \E g \in pending : group' = g
  /\ attempt' = 0
  /\ pc' = "load"
  /\ UNCHANGED <<pos, last, pending, reached, effects>>

\* The request ends, and its answer is accepted or not.
Answered(ok) ==
  /\ pc = "load"
  /\ \E fate \in {f \in DOMAIN Answers : \E a \in Answers[f] : Accepts(a) = ok} :
       Becomes(fate)

LoadOk ==
  /\ Answered(TRUE)
  /\ pending' = pending \ {group}
  /\ group' = <<>>
  /\ pc' = "send"
  /\ UNCHANGED <<pos, last, attempt, reached>>

\* Mutant: one attempt too many.
LoadFailsLate ==
  /\ Answered(FALSE)
  /\ attempt' = attempt + 1
  /\ pc' = IF attempt =< MaxRetries THEN "load" ELSE "failed"
  /\ UNCHANGED <<pos, last, pending, group, reached>>

\* send_body_with_retry sends it again, whatever has become of it.
LoadFails ==
  /\ "load" \in Env
  /\ Answered(FALSE)
  /\ attempt' = attempt + 1
  /\ pc' = IF attempt' < MaxRetries THEN "load" ELSE "failed"
  /\ UNCHANGED <<pos, last, pending, group, reached>>

\* The last attempt failed: the other groups are not sent, and the pipeline
\* goes on behind the batch.
PushFail ==
  /\ pc = "failed"
  /\ spoiled' = spoiled \cup Touched({n \in Batch : IsRowChange(Log[n])})
  /\ Feed!Pass
  /\ pending' = {} /\ group' = <<>> /\ attempt' = 0
  /\ pc' = "idle"
  /\ UNCHANGED <<table, late, reached>>

PushOk ==
  /\ pc = "send"
  /\ pending = {}
  /\ Feed!Pass
  /\ attempt' = 0
  /\ pc' = "idle"
  /\ UNCHANGED <<pending, group, reached, effects>>

\* A late load commits after all, over whatever was loaded meanwhile, or
\* StarRocks drops it.  Others with the same rows may still be late.
LateLoadEnds ==
  /\ \E load \in late :
       /\ late' \in {late, late \ {load}}
       /\ \/ /\ table' = Loaded(table, load.rows, load.cols)
             /\ spoiled' = spoiled \cup load.over \cup Spoils(load.rows, load.cols, {})
          \/ UNCHANGED <<table, spoiled>>
  /\ UNCHANGED cursors

\* The process is gone, and its push with it.
Restart ==
  /\ "crash" \in Env
  /\ UNCHANGED effects \/ (pc = "load" /\ Lingers(group))
  /\ Feed!Restart
  /\ pending' = {} /\ group' = <<>> /\ attempt' = 0
  /\ pc' = "idle"
  /\ UNCHANGED reached

\* All of the log is delivered: the model stops here.
CaughtUp == pc = "idle" /\ pos = Len(Log)

Idle == CaughtUp /\ UNCHANGED vars

Next ==
  \/ PushBatch \/ SendGroup
  \/ LoadOk \/ LoadFails \/ PushFail \/ PushOk
  \/ LateLoadEnds \/ Restart \/ Idle

Spec == Init /\ [][Next]_vars

-----------------------------------------------------------------------------
(* Properties *)

Active(k) == table[k].present /\ ~table[k].deleted

\* Row k of StarRocks shows a row of PostgreSQL.
Matches(k, row) ==
  /\ Active(k) <=> row.present
  /\ Active(k) => table[k].data = row.data

\* The cursors, the groups and the attempts stay in range, and a group is
\* chosen exactly while its load is out.
TypeOK ==
  /\ pc \in {"idle", "send", "load", "failed"}
  /\ pos \in 0..Len(Log) /\ last \in pos..Len(Log)
  /\ pending \subseteq GroupsOf(Batch)
  /\ pc \in {"load", "failed"} <=> group \in pending
  /\ attempt \in 0..MaxRetries /\ (pc = "failed" <=> attempt = MaxRetries)
  /\ late \subseteq [rows : SUBSET {n \in 1..reached : IsRowChange(Log[n])},
                    cols : SUBSET Columns, over : SUBSET Keys]
  /\ reached \in last..Len(Log)
  /\ spoiled \subseteq Keys
  /\ \A k \in Keys : table[k].present =>
       table[k].data = [col \in Columns |-> table[k].data[col]]

\* Between two batches, and with nothing to deliver a second time, every
\* row matches what PostgreSQL had after the messages delivered: the order of
\* the groups, loads applied twice, loads applied although they failed or
\* long after it, a batch cut off in the middle and redelivery from any
\* earlier transaction leave no trace.  A row may differ only if, since its
\* last full row, a batch with a change of it was given up, a load dropped
\* it, a late load committed over a newer one, its table was emptied, it left
\* its key, its load wrote other columns than PostgreSQL had sent, or it moved
\* to a new key without all of its values.
ShowsPrefix ==
  pc = "idle" /\ pos = reached =>
    LET source == SourceAt[pos]
    IN  \A k \in Keys \ spoiled : Matches(k, source[k])

(***************************************************************************)
(* Why ShowsPrefix holds.  It is a matter of single cells: a row is put    *)
(* together from loads of different columns.                               *)
(***************************************************************************)
Changes(n, k) == IsRowChange(Log[n]) /\ k \in {Log[n].from, Log[n].key}

TouchesRow(n, k) == Changes(n, k) \/ Truncates(n, k)

\* A batch has all changes of a row in one group.
GroupsApart ==
  \A m, n \in 1..Len(Log) :
    /\ m < n /\ n - m < MaxBatch
    /\ \E k \in Keys : Changes(m, k) /\ Changes(n, k)
    => BatchKey(Log[m]) = BatchKey(Log[n])

\* Delivering message n settles column col of row k: whatever is there now,
\* it is written, or the row is spoiled.  Only an update that leaves the row
\* at its key and does not carry the column builds on what is there.
Settles(n, k, col) ==
  /\ TouchesRow(n, k)
  /\ IsRowChange(Log[n]) /\ Log[n].from = Log[n].key => col \notin Log[n].toast

CellMatches(k, col, row) ==
  /\ Active(k) <=> row.present
  /\ Active(k) => table[k].data[col] = row.data[col]

\* The cell shows the source after p messages, or it will be settled when
\* what was delivered beyond p is delivered again.
Shown(k, col, p) ==
  \/ CellMatches(k, col, SourceAt[p][k])
  \/ \E n \in (p + 1)..reached : Settles(n, k, col)

\* The message up to which row k is known to be loaded.
Loading(k) == \E n \in Batch : Changes(n, k) /\ BatchKey(Log[n]) \in pending

Upto(k) == IF Loading(k) THEN pos ELSE last

RowsInv ==
  \A k \in Keys \ spoiled : \A col \in Columns : Shown(k, col, Upto(k))

\* A late load that nothing has overtaken is no older than the row it writes.
LateInv ==
  \A load \in late : \A m \in load.rows :
    Log[m].key \notin spoiled \cup load.over =>
      \A n \in (m + 1)..Upto(Log[m].key) : ~TouchesRow(n, Log[m].key)

\* A row whose table the batch empties is spoiled, until a full row that
\* comes after has been loaded.
TruncatedInv ==
  \A k \in Keys \ spoiled : \A t \in Batch :
    Truncates(t, k) =>
      \E m \in Batch :
        /\ m > t
        /\ IsRowChange(Log[m]) /\ Log[m].key = k /\ Log[m].toast = {}

BatchInv ==
  /\ last - pos =< MaxBatch
  /\ pc = "idle" => pos = last

=============================================================================
