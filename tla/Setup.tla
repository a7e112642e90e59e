------------------------------- MODULE Setup --------------------------------
(***************************************************************************)
(* SetupManager (src/engine/setup/): what dbmazz prepares in PostgreSQL    *)
(* and StarRocks before it replicates.                                     *)
(*                                                                         *)
(* Every query and every DDL statement is a call of its own, outside any   *)
(* transaction.  A step reads what is there, decides which statements are  *)
(* missing and makes them one by one.  The process may be killed, or a     *)
(* call may fail, between any two; and the server may go on with a         *)
(* statement whose client is gone (pg_create_logical_replication_slot      *)
(* waits for open transactions, ALTER TABLE for locks), so that it takes   *)
(* effect at any later time: a leftover.                                   *)
(*                                                                         *)
(* What exists is a set of facts, which only grows.  The module has no     *)
(* next-state relation of its own: Lifecycle composes it with the engine   *)
(* that runs it and the health check that reports on it.                   *)
(***************************************************************************)
EXTENDS Naturals

CONSTANTS
  Tables,        \* Config.tables
  AuditColumns,  \* AUDIT_COLUMNS
  Prepared,      \* the sets of facts that may be there before the first start
  MaxFaults      \* bound: failed calls and kills in one behavior

PgTable(t)     == [what |-> "table in PostgreSQL", of |-> <<t>>]
SrTable(t)     == [what |-> "table in StarRocks", of |-> <<t>>]
Identity(t)    == [what |-> "replica identity full", of |-> <<t>>]
Publication    == [what |-> "publication", of |-> <<>>]
Published(t)   == [what |-> "in publication", of |-> <<t>>]
Slot           == [what |-> "slot", of |-> <<>>]
Column(t, c)   == [what |-> "audit column", of |-> <<t, c>>]

PgTables   == {PgTable(t) : t \in Tables}
SrTables   == {SrTable(t) : t \in Tables}
Identities == {Identity(t) : t \in Tables}
Members    == {Publication} \cup {Published(t) : t \in Tables}
ColumnsOf(t) == {Column(t, c) : c \in AuditColumns}
Columns    == UNION {ColumnsOf(t) : t \in Tables}

\* What a setup is to leave behind; the tables themselves are the operator's.
Goal  == Identities \cup Members \cup {Slot} \cup Columns
Facts == PgTables \cup SrTables \cup Goal

ASSUME PreparedAssumption ==
  \A S \in Prepared :
    /\ S \subseteq Facts
    /\ (\E t \in Tables : Published(t) \in S) => Publication \in S

ASSUME FaultsAssumption == MaxFaults \in Nat

\* A statement that creates something is refused if it is already there; to
\* set the replica identity twice is no error.
AlterIdentity(t)  == [makes |-> {Identity(t)}, strict |-> FALSE]
CreatePublication == [makes |-> Members, strict |-> TRUE]
AddTable(t)       == [makes |-> {Published(t)}, strict |-> TRUE]
CreateSlot        == [makes |-> {Slot}, strict |-> TRUE]
AddColumn(t, c)   == [makes |-> {Column(t, c)}, strict |-> TRUE]

Statements ==
  {AlterIdentity(t) : t \in Tables} \cup {CreatePublication, CreateSlot}
    \cup {AddTable(t) : t \in Tables}
    \cup UNION {{AddColumn(t, c) : c \in AuditColumns} : t \in Tables}

VARIABLES
  made,          \* the facts that hold (durable)
  leftover,      \* statements a server still runs for a client that is gone
  step,          \* what SetupManager::run does next
  visit,         \* tables the loop of this step has still to look at
  todo,          \* statements decided on and not yet made
  faults,        \* failed calls and kills so far
  byLeftover     \* history: what leftovers brought about

setupVars == <<made, leftover, step, visit, todo, faults, byLeftover>>

SetupStep == {"off", "tables", "identity", "publication", "missing", "slot",
              "starrocks", "columns", "done", "error"}

SetupInit ==
  /\ made \in Prepared
  /\ leftover = {} /\ step = "off" /\ visit = {} /\ todo = {}
  /\ faults = 0 /\ byLeftover = {}

-----------------------------------------------------------------------------
(* PostgresSetup *)

\* The steps below go on when the statements of the one before are made.
At(s) == step = s /\ todo = {}

Goto(s, visits, statements) ==
  /\ step' = s
  /\ visit' = visits
  /\ todo' = statements
  /\ UNCHANGED <<made, leftover, faults, byLeftover>>

VerifyPgTables ==
  /\ At("tables")
  /\ IF PgTables \subseteq made THEN Goto("identity", Tables, {})
                                ELSE Goto("error", {}, {})

VisitIdentity ==
  /\ At("identity")
  /\ \E t \in visit :
       Goto("identity", visit \ {t},
            IF Identity(t) \in made THEN {} ELSE {AlterIdentity(t)})

\* Mutant: the slot before the publication.
PublicationSkipped == At("identity") /\ visit = {} /\ Goto("slot", {}, {})

IdentityDone ==
  /\ At("identity")
  /\ visit = {}
  /\ Goto("publication", {}, {})

\* Mutant: the publication is created without a look.
CreatesPublicationBlindly == At("publication") /\ Goto("slot", {}, {CreatePublication})

ReadPublication ==
  /\ At("publication")
  /\ IF Publication \in made THEN Goto("missing", {}, {})
                             ELSE Goto("slot", {}, {CreatePublication})

\* Mutant: a publication that exists is left as it is.
TrustsPublication == At("missing") /\ Goto("slot", {}, {})

ReadMissingTables ==
  /\ At("missing")
  /\ Goto("slot", {}, {AddTable(t) : t \in {u \in Tables : Published(u) \notin made}})

ReadSlot ==
  /\ At("slot")
  /\ Goto("starrocks", {}, IF Slot \in made THEN {} ELSE {CreateSlot})

-----------------------------------------------------------------------------
(* StarRocksSetup *)

VerifyStarRocks ==
  /\ At("starrocks")
  /\ IF SrTables \subseteq made THEN Goto("columns", Tables, {})
                                ELSE Goto("error", {}, {})

\* Mutant: the columns of the table are not looked up.
AddsEveryColumn ==
  /\ At("columns")
  /\ \E t \in visit :
       Goto("columns", visit \ {t}, {AddColumn(t, c) : c \in AuditColumns})

\* The columns of a table are read once, before the first is added.
VisitColumns ==
  /\ At("columns")
  /\ \E t \in visit :
       Goto("columns", visit \ {t},
            {AddColumn(t, c) : c \in {d \in AuditColumns : Column(t, d) \notin made}})

ColumnsDone ==
  /\ At("columns")
  /\ visit = {}
  /\ Goto("done", {}, {})

-----------------------------------------------------------------------------
(* Statements.  In which order a loop makes them is left open. *)

Refused(s) == s.strict /\ s.makes \cap made # {}

Execute ==
  \E s \in todo :
    /\ ~Refused(s)
    /\ made' = made \cup s.makes
    /\ todo' = todo \ {s}
    /\ UNCHANGED <<leftover, step, visit, faults, byLeftover>>

\* The first error ends the setup.
ExecuteRefused ==
  /\ \E s \in todo : Refused(s)
  /\ Goto("error", {}, {})

\* Of a call that fails or is cut off the statement may be left running.
Abandon ==
  /\ faults < MaxFaults
  /\ faults' = faults + 1
  /\ leftover' \in {leftover} \cup {leftover \cup {s} : s \in todo}
  /\ visit' = {} /\ todo' = {}
  /\ UNCHANGED <<made, byLeftover>>

CallFails ==
  /\ step \notin {"off", "done", "error"}
  /\ step' = "error"
  /\ Abandon

LeftoverEnds ==
  \E s \in leftover :
    /\ leftover' = leftover \ {s}
    /\ \/ /\ ~Refused(s)
          /\ made' = made \cup s.makes
          /\ byLeftover' = byLeftover \cup s.makes
       \/ UNCHANGED <<made, byLeftover>>
    /\ UNCHANGED <<step, visit, todo, faults>>

\* The operator creates the table on either side.
CreateTable ==
  /\ \E f \in PgTables \cup SrTables :
       f \notin made /\ made' = made \cup {f}
  /\ UNCHANGED <<leftover, step, visit, todo, faults, byLeftover>>

SetupWork ==
  \/ VerifyPgTables \/ VisitIdentity \/ IdentityDone
  \/ ReadPublication \/ ReadMissingTables \/ ReadSlot
  \/ VerifyStarRocks \/ VisitColumns \/ ColumnsDone
  \/ Execute \/ ExecuteRefused

=============================================================================
