--------------------------- MODULE MCReplication ----------------------------
(* Values of the constants of Replication for TLC. *)
EXTENDS Replication

\* One transaction after the other.
Serial ==
  << [lsn |-> 1, commit |-> 2], [lsn |-> 3, commit |-> 2],
     [lsn |-> 4, commit |-> 5], [lsn |-> 6, commit |-> 5] >>

\* The second transaction to commit wrote its change before the first did.
InterleavedWal ==
  << [lsn |-> 2, commit |-> 3], [lsn |-> 4, commit |-> 3],
     [lsn |-> 1, commit |-> 5], [lsn |-> 6, commit |-> 5] >>

\* TLC evaluates the definition given for a constant at every use, and a
\* definition it uses only once.
Interleaved == InterleavedWal

\* The same in three messages.
OverlappingWal ==
  << [lsn |-> 2, commit |-> 3], [lsn |-> 4, commit |-> 3], [lsn |-> 1, commit |-> 5] >>

Overlapping == OverlappingWal

\* A transaction of two messages, and a single-transaction log long enough to
\* fill both channels.
Short == << [lsn |-> 1, commit |-> 2], [lsn |-> 3, commit |-> 2] >>

Long == [i \in 1..5 |-> [lsn |-> i, commit |-> 5]]

\* The rows of a COPY share a WAL record, and so their position.
Copied == [i \in 1..5 |-> [lsn |-> 1, commit |-> 2]]

=============================================================================
