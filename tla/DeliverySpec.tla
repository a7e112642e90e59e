---------------------------- MODULE DeliverySpec ----------------------------
(***************************************************************************)
(* What dbmazz promises, without the way it keeps the promise: events of a *)
(* stream are delivered, again if need be, and a record is kept of those   *)
(* that will not be read a second time.  The record may fall back at any   *)
(* time, but it only ever names events that have been delivered before.    *)
(***************************************************************************)

CONSTANT Events

VARIABLES
  delivered,    \* the events the sink has applied
  skipped       \* the events a restart would not read again

vars == <<delivered, skipped>>

Init == delivered = {} /\ skipped = {}

Deliver ==
  /\ \E S \in SUBSET Events : delivered' = delivered \cup S
  /\ UNCHANGED skipped

Remember ==
  /\ \E S \in SUBSET delivered : skipped' = S
  /\ UNCHANGED delivered

Next == Deliver \/ Remember

Spec == Init /\ [][Next]_vars

=============================================================================
