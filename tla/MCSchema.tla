------------------------------ MODULE MCSchema ------------------------------
(* Values of the constants of Schema for TLC. *)
EXTENDS Schema

Change(key, columns) == [key |-> key, columns |-> columns]

\* Two columns are added at once, then a third; both rows are written with
\* the old and with a new description.
Growing ==
  << Change(1, <<"id">>), Change(2, <<"id">>),
     Change(1, <<"id", "a", "b">>), Change(2, <<"id", "a", "b">>),
     Change(1, <<"id", "a", "b", "c">>) >>

\* One column is added.
GrowingOnce == << Change(1, <<"id">>), Change(1, <<"id", "a">>) >>

=============================================================================
