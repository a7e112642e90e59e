------------------------------- MODULE MCSink -------------------------------
(* Values of the constants of Sink for TLC: a table of three columns. *)
EXTENDS Sink

MCColumns == {0, 1, 2}

Data(a, b, c) == [col \in MCColumns |-> CASE col = 0 -> a [] col = 1 -> b [] col = 2 -> c]

Chg(op, rel, from, key, data, toast, commit) ==
  [op |-> op, rel |-> rel, from |-> from, key |-> key, row |-> data,
   toast |-> toast, commit |-> commit]

Ins(k, d, commit)        == Chg("insert", 1, k, k, d, {}, commit)
Upd(k, d, toast, commit) == Chg("update", 1, k, k, d, toast, commit)
Move(j, k, d, toast, commit) == Chg("update", 1, j, k, d, toast, commit)

Truncate(emptied, commit) == [op |-> "truncate", emptied |-> emptied, commit |-> commit]

\* Row 1 gets a partial update and row 2 another key, in one group whose columns
\* the first decides; row 1 an update without a value that the bitmap has no
\* room for; and the table is emptied.
\* A second table would be one more reason for another group.
MixedChanges ==
  << Ins(1, Data(1, 5, 7), 3), Ins(2, Data(2, 5, 7), 3),
     Upd(1, Data(3, 5, 7), {1, 2}, 5), Move(2, 3, Data(2, 5, 8), {1}, 5),
     Upd(1, Data(4, 5, 7), {2}, 7), Truncate({1, 2, 3}, 9) >>

\* TLC evaluates the definition given for a constant at every use, and a
\* definition it uses only once.
Mixed == MixedChanges

\* Two neighbours change the same row only where they are in one group: what
\* the theorem about ShowsPrefix assumes.
ASSUME MixedAssumption == Log = Mixed => GroupsApart

\* A row inserted and updated in one transaction.
ToastTogether == << Ins(1, Data(1, 5, 5), 3), Upd(1, Data(2, 5, 5), {1}, 3) >>

=============================================================================
