---------------------------- MODULE MCLifecycle -----------------------------
(* Values of the constants of Lifecycle for TLC. *)
EXTENDS Lifecycle, FiniteSets

CONSTANTS t1, t2

\* Nothing but the first table; a publication of the first table and one of
\* its audit columns, as a setup for fewer tables leaves them; all of it.
MCPrepared ==
  { {PgTable(t1), SrTable(t1)},
    PgTables \cup SrTables
      \cup {Identity(t1), Publication, Published(t1), Slot}
      \cup {Column(t1, c) : c \in {CHOOSE d \in AuditColumns : TRUE}},
    Facts }

=============================================================================
