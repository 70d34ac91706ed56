------------------------------- MODULE MCOracle -------------------------------
(* The store of one person's facts: a profile that is corrected, an ambiguous *)
(* second profile, two events, one of them moved and then retracted.          *)
EXTENDS Oracle

Version(source, id, revision, effective, value, retracted) ==
  [source |-> source, id |-> id, revision |-> revision, person |-> "ann",
   effective |-> effective, value |-> value, retracted |-> retracted]

SomeVersions ==
  {Version("profile",  "a", 1, 1, "trial", FALSE),
   Version("profile",  "a", 2, 2, "paid",  FALSE),
   Version("profile",  "b", 1, 1, "paid",  FALSE),
   Version("profile",  "b", 2, 1, "paid",  TRUE),
   Version("activity", "a", 1, 2, "qualified", FALSE),
   Version("activity", "a", 2, 3, "qualified", FALSE),
   Version("activity", "a", 3, 3, "qualified", TRUE),
   Version("activity", "b", 1, 2, "qualified", FALSE),
   Version("activity", "b", 1, 2, "noise", FALSE)}

SomeAssertions ==
  {[revision |-> 1, after |-> 0, through |-> 3, retracted |-> FALSE],
   [revision |-> 2, after |-> 1, through |-> 4, retracted |-> FALSE],
   [revision |-> 2, after |-> 0, through |-> 1, retracted |-> TRUE],
   [revision |-> 3, after |-> 2, through |-> 3, retracted |-> FALSE]}

SomeRules ==
  {[engaged_window |-> 3, minimum_events |-> 1, quiet_window |-> 1],
   [engaged_window |-> 1, minimum_events |-> 2, quiet_window |-> 2]}
===============================================================================
