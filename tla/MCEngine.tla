------------------------------- MODULE MCEngine -------------------------------
(* Two persons: a trial with an event of the window, corrected late and then    *)
(* withdrawn; a second one whose trial begins later.                            *)
EXTENDS Engine

Version(source, id, revision, person, effective, value, retracted) ==
  [source |-> source, id |-> id, revision |-> revision, person |-> person,
   effective |-> effective, value |-> value, retracted |-> retracted]

SomeVersions ==
  {Version("profile",  "a", 1, "ann", 0, "trial", FALSE),
   Version("profile",  "b", 1, "bob", 2, "trial", FALSE),
   Version("activity", "a", 1, "ann", 1, "qualified", FALSE),
   Version("activity", "a", 2, "ann", 0, "qualified", TRUE)}

SomeAssertions ==
  {[revision |-> 1, after |-> 0, through |-> 1, retracted |-> FALSE],
   [revision |-> 2, after |-> 0, through |-> 3, retracted |-> TRUE]}

SomeRules ==
  {[engaged_window |-> 2, minimum_events |-> 1, quiet_window |-> 1],
   [engaged_window |-> 1, minimum_events |-> 1, quiet_window |-> 2]}
===============================================================================
