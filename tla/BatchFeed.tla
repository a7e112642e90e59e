----------------------------- MODULE BatchFeed ------------------------------
(***************************************************************************)
(* The batches that a pipeline hands to its sink, without the channels and *)
(* positions they come from: consecutive messages, one batch at a time.    *)
(* When push_batch returns, well or not, its batch has been passed.  A     *)
(* process that is restarted reads again from the start of a transaction,  *)
(* and never from behind a message that was not passed.                    *)
(*                                                                         *)
(* Sink is fed by this module; Replication is shown to implement it.       *)
(***************************************************************************)
EXTENDS Naturals

CONSTANTS
  Length,       \* messages in the stream
  Boundaries,   \* how many messages lie before a transaction, or before the end
  MaxBatch      \* messages per batch

VARIABLES
  pos,          \* messages passed in this process, or skipped at its start
  last          \* the last message of the batch, or pos

vars == <<pos, last>>

Init == pos = 0 /\ last = 0

Take ==
  /\ pos = last
  /\ \E n \in 1..MaxBatch :
       /\ pos + n =< Length
       /\ last' = pos + n
  /\ UNCHANGED pos

Pass ==
  /\ pos' = last
  /\ UNCHANGED last

Restart ==
  /\ pos' \in {p \in Boundaries : p =< pos}
  /\ last' = pos'

Next == Take \/ Pass \/ Restart

Spec == Init /\ [][Next]_vars

=============================================================================
