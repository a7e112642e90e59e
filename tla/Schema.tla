------------------------------- MODULE Schema -------------------------------
(***************************************************************************)
(* Schema evolution: SchemaCache (src/pipeline/schema_cache.rs), the half  *)
(* of Pipeline::run that feeds it (src/pipeline/mod.rs) and                *)
(* StarRocksSink::apply_schema_delta (src/sink/starrocks.rs), for one      *)
(* table to which columns are added while it is replicated.                *)
(*                                                                         *)
(* PostgreSQL describes the table in a Relation message before its first   *)
(* change of a session and before the first change after an ALTER TABLE.   *)
(* The cache keeps the last description, in memory only.  The pipeline     *)
(* compares, updates the cache, alters the StarRocks table and goes on;    *)
(* the rows of a batch are converted when it is flushed, with the          *)
(* description of that moment.                                             *)
(***************************************************************************)
EXTENDS Integers, Sequences

CONSTANTS
  Changes,       \* the changes of the table, in stream order
  Null,
  FlushSize,     \* Config.flush_size: messages per batch
  Env            \* "ddl": ALTER TABLE may fail; "load": a push may fail;
                 \* "crash": the process may be restarted

\* A change writes the row `key`; `columns` is the table as it was then, in
\* column order.
Columns(n) == Changes[n].columns
Key(n)     == Changes[n].key
Names(cols) == {cols[i] : i \in DOMAIN cols}

\* ALTER TABLE ADD COLUMN puts the new column last.
ASSUME ChangesAssumption ==
  /\ Len(Changes) \in Nat \ {0}
  /\ \A n \in 1..Len(Changes) :
       /\ Columns(n) \in Seq(Names(Columns(n)))
       /\ Len(Columns(n)) > 0
       /\ \A i, j \in DOMAIN Columns(n) : i # j => Columns(n)[i] # Columns(n)[j]
       /\ \A m \in 1..n :
            /\ Len(Columns(m)) =< Len(Columns(n))
            /\ \A i \in 1..Len(Columns(m)) : Columns(m)[i] = Columns(n)[i]

ASSUME FlushAssumption == FlushSize \in Nat \ {0}

Keys       == {Key(n) : n \in 1..Len(Changes)}
AllColumns == UNION {Names(Columns(n)) : n \in 1..Len(Changes)}

VARIABLES
  announced,   \* the columns PostgreSQL last described in this session
  cache,       \* SchemaCache: the same, as the pipeline knows it
  pc,          \* Pipeline::run: "top", "alter" or "push"
  alter,       \* columns of the delta still to be added
  size,        \* messages in the batch, descriptions included
  taken,       \* the last change received
  cleared,     \* the last change no longer in the batch
  target,      \* the columns of the StarRocks table (durable)
  table,       \* its rows (durable)
  reached,     \* history: the last change ever received
  gap,         \* history: rows in a batch whose push failed
  untried      \* history: columns no ALTER TABLE of which ended well

streamVars  == <<announced, cache, pc, alter, size, taken, cleared>>
vars == <<streamVars, target, table, reached, gap, untried>>

NoColumns == <<>>
Batch == (cleared + 1)..taken

-----------------------------------------------------------------------------
(* From rows to cells *)

\* The value that change n gives to column c.
Value(c, n) == <<c, n>>

\* A tuple has its values in the order the columns had when it was written;
\* tuple_to_json zips it with the columns of the cache, to the shorter end.
Json(n) ==
  [c \in {cache[i] : i \in 1..(IF Len(cache) < Len(Columns(n))
                               THEN Len(cache) ELSE Len(Columns(n)))}
     |-> LET i == CHOOSE j \in DOMAIN cache : cache[j] = c
         IN  Value(Columns(n)[i], n)]

\* StarRocks passes over fields that are no columns of the table and fills
\* the columns without a field.
Upsert(n) ==
  [c \in AllColumns |-> IF c \in target /\ c \in DOMAIN Json(n) THEN Json(n)[c]
                                                                ELSE Null]

LastIn(B, k) ==
  CHOOSE n \in B : Key(n) = k /\ \A m \in B : Key(m) = k => m =< n

Pushed ==
  [k \in Keys |-> IF \E n \in Batch : Key(n) = k THEN Upsert(LastIn(Batch, k))
                                                 ELSE table[k]]

-----------------------------------------------------------------------------

Init ==
  /\ announced = NoColumns /\ cache = NoColumns
  /\ pc = "top" /\ alter = {} /\ size = 0 /\ taken = 0 /\ cleared = 0
  /\ target = Names(Columns(1))
  /\ table = [k \in Keys |-> [c \in AllColumns |-> Null]]
  /\ reached = 0 /\ gap = {} /\ untried = {}

\* Mutant: one message too many in a batch.
AfterMessageOffByOne == IF size >= FlushSize THEN "push" ELSE "top"

AfterMessage == IF size + 1 >= FlushSize THEN "push" ELSE "top"

\* The columns of the description that the cache does not have: none when
\* the table is seen for the first time.
Added(cols) == IF cache = NoColumns THEN {} ELSE Names(cols) \ Names(cache)

\* Mutant: the first description of a table is kept.
CachedFirst(cols) == IF cache = NoColumns THEN cols ELSE cache

Cached(cols) == cols

\* The cache is updated before the table is altered, and the message joins
\* the batch afterwards.
ReceiveRelation ==
  /\ pc = "top"
  /\ taken < Len(Changes)
  /\ LET cols == Columns(taken + 1) IN
       /\ announced # cols
       /\ announced' = cols
       /\ cache' = Cached(cols)
       /\ alter' = Added(cols)
       /\ IF Added(cols) # {} THEN pc' = "alter" /\ UNCHANGED size
                              ELSE pc' = AfterMessage /\ size' = size + 1
       /\ untried' = IF cache = NoColumns THEN untried \cup (Names(cols) \ target)
                                          ELSE untried
  /\ UNCHANGED <<taken, cleared, target, table, reached, gap>>

\* Mutant: only the first column of a delta is added.
OnlyOne(c) == {}

\* What is left of the delta.  The order in which a delta's columns are added
\* makes no difference and is left open.
Remaining(c) == alter \ {c}

\* "Duplicate column" counts as success.
AlterOk ==
  /\ pc = "alter"
  /\ \E c \in alter :
       /\ target' = target \cup {c}
       /\ untried' = untried \ {c}
       /\ alter' = Remaining(c)
  /\ IF alter' = {} THEN pc' = AfterMessage /\ size' = size + 1
                    ELSE UNCHANGED <<pc, size>>
  /\ UNCHANGED <<announced, cache, taken, cleared, table, reached, gap>>

\* apply_schema_delta returns at the first error, which may be a lost
\* answer; the pipeline logs it and goes on.
AlterErr ==
  /\ "ddl" \in Env
  /\ pc = "alter"
  /\ \E c \in alter : target' \in {target, target \cup {c}}
  /\ untried' = untried \cup alter
  /\ alter' = {}
  /\ pc' = AfterMessage /\ size' = size + 1
  /\ UNCHANGED <<announced, cache, taken, cleared, table, reached, gap>>

ReceiveChange ==
  /\ pc = "top"
  /\ taken < Len(Changes)
  /\ announced = Columns(taken + 1)
  /\ taken' = taken + 1
  /\ reached' = IF reached < taken + 1 THEN taken + 1 ELSE reached
  /\ size' = size + 1
  /\ pc' = AfterMessage
  /\ UNCHANGED <<announced, cache, alter, cleared, target, table, gap, untried>>

FlushTick ==
  /\ pc = "top"
  /\ size > 0
  /\ pc' = "push"
  /\ UNCHANGED <<announced, cache, alter, size, taken, cleared, target, table,
                 reached, gap, untried>>

PushOk ==
  /\ pc = "push"
  /\ table' = Pushed
  /\ cleared' = taken /\ size' = 0 /\ pc' = "top"
  /\ UNCHANGED <<announced, cache, alter, taken, target, reached, gap, untried>>

\* Applied or not, the batch is cleared and will be passed over.
PushErr ==
  /\ "load" \in Env
  /\ pc = "push"
  /\ table' \in {table, Pushed}
  /\ gap' = gap \cup {Key(n) : n \in Batch}
  /\ cleared' = taken /\ size' = 0 /\ pc' = "top"
  /\ UNCHANGED <<announced, cache, alter, taken, target, reached, untried>>

\* A new process, a new session, and an empty cache.  The stream starts
\* again behind any change that was pushed; the ALTER TABLE or the push that
\* was under way may be made.
Restart ==
  /\ "crash" \in Env
  /\ announced' = NoColumns /\ cache' = NoColumns
  /\ pc' = "top" /\ alter' = {} /\ size' = 0
  /\ taken' \in 0..cleared
  /\ cleared' = taken'
  /\ target' \in {target} \cup {target \cup {c} : c \in alter}
  /\ table'  \in {table} \cup (IF pc = "push" THEN {Pushed} ELSE {})
  /\ UNCHANGED <<reached, gap, untried>>

CaughtUp == pc = "top" /\ size = 0 /\ taken = Len(Changes)

Idle == CaughtUp /\ UNCHANGED vars

Next ==
  \/ ReceiveRelation \/ AlterOk \/ AlterErr
  \/ ReceiveChange \/ FlushTick \/ PushOk \/ PushErr
  \/ Restart \/ Idle

Spec == Init /\ [][Next]_vars

-----------------------------------------------------------------------------
(* Properties *)

\* The cursors stay in order, a batch within flush_size, and columns are only
\* pending while the table is being altered.
TypeOK ==
  /\ pc \in {"top", "alter", "push"}
  /\ pc = "alter" <=> alter # {}
  /\ alter \subseteq AllColumns
  /\ taken \in 0..Len(Changes) /\ cleared \in 0..taken
  /\ reached \in taken..Len(Changes)
  /\ size \in (taken - cleared)..FlushSize
  /\ pc # "push" => size < FlushSize
  /\ Names(announced) \subseteq AllColumns /\ Names(cache) \subseteq AllColumns
  /\ target \subseteq AllColumns
  /\ gap \subseteq Keys /\ untried \subseteq AllColumns

\* What PostgreSQL shows in column c of row k after n changes.
SourceCell(k, c, n) ==
  IF \E m \in 1..n : Key(m) = k
  THEN LET m == LastIn(1..n, k) IN IF c \in Names(Columns(m)) THEN Value(c, m) ELSE Null
  ELSE Null

\* With nothing left to deliver a second time, every column that StarRocks
\* has shows PostgreSQL's values, although the rows of a batch are converted
\* with a later description than theirs, columns come to exist at different
\* times on either side and deliveries repeat.  Rows in a batch whose push
\* failed may differ.
ShowsColumns ==
  pc = "top" /\ size = 0 /\ taken = reached =>
    \A k \in Keys \ gap, c \in target : table[k][c] = SourceCell(k, c, taken)

\* Why: what the session was told is what the cache holds, it describes
\* every change received, a column that is being added is in none of them, and
\* a column that StarRocks lacks is in no row.
CacheInv ==
  /\ cache = announced
  /\ IF cache = NoColumns
     THEN cleared = taken
     ELSE \E n \in 1..Len(Changes) : taken =< n /\ cache = Columns(n)

AlterInv == \A c \in alter, n \in 1..taken : c \notin Names(Columns(n))

NullInv == \A k \in Keys, c \in AllColumns \ target : table[k][c] = Null

\* A row of which no change is still to be delivered again is right.
Redelivered(k) == \E n \in (cleared + 1)..reached : Key(n) = k

CellsInv ==
  \A k \in Keys \ gap, c \in target :
    Redelivered(k) \/ table[k][c] = SourceCell(k, c, cleared)

\* Between two messages, a column that the cache knows and StarRocks lacks is
\* one whose ALTER TABLE failed, or that the process first saw after a
\* restart: no delta is dropped half-way otherwise.
ColumnsAccountedFor == pc # "alter" => Names(cache) \ target \subseteq untried

\* Why: a column is accounted for while it waits in the delta, too.
DeltaInv == Names(cache) \ target \subseteq untried \cup alter

\* New columns are detected and added (CHANGELOG.md:29): when everything is
\* delivered, StarRocks has the columns of PostgreSQL.
NewColumnsReplicated == CaughtUp => AllColumns \subseteq target

=============================================================================
