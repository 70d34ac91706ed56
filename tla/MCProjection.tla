----------------------------- MODULE MCProjection -----------------------------
(* One person who enters a trial, is active and goes quiet, one hand edit, and *)
(* another engine store.                                                       *)
EXTENDS Projection

Version(source, id, revision, effective, value, retracted) ==
  [source |-> source, id |-> id, revision |-> revision, person |-> "ann",
   effective |-> effective, value |-> value, retracted |-> retracted]

SomeVersions ==
  {Version("profile",  "a", 1, 0, "trial", FALSE),
   Version("activity", "a", 1, 0, "qualified", FALSE)}

SomeAssertions ==
  {[revision |-> 1, after |-> 0, through |-> 1, retracted |-> FALSE]}

SomeRules ==
  {[engaged_window |-> 2, minimum_events |-> 1, quiet_window |-> 1]}

\* Another store's first bundle, and one that would follow the first of this store.
SomeForeign ==
  {[lineage |-> "other", generation |-> n, parent |-> n - 1, valid_at |-> 1,
    before |-> {}, after |-> {<<"engaged_trial", "ann">>},
    changes |-> {[op |-> "add", member |-> <<"engaged_trial", "ann">>, decided_at |-> 1]}] :
   n \in 1..2}

SomePhantoms == {<<"quiet_trial", "ann">>}
===============================================================================
