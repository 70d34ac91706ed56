------------------------------- MODULE MCBridge -------------------------------
(* One person whose trial is stated again, is active and loses the event, with *)
(* coverage that is taken back.                                                *)
EXTENDS Bridge

Version(source, revision, effective, value, retracted) ==
  [source |-> source, id |-> "a", revision |-> revision, person |-> "ann",
   effective |-> effective, value |-> value, retracted |-> retracted]

SomeVersions ==
  {Version("profile",  1, 0, "trial", FALSE),
   Version("activity", 1, 1, "qualified", FALSE),
   Version("activity", 2, 0, "qualified", TRUE)}

SomeAssertions ==
  {[revision |-> 1, after |-> 0, through |-> 1, retracted |-> FALSE],
   [revision |-> 2, after |-> 0, through |-> 2, retracted |-> TRUE]}

TheRules == [engaged_window |-> 2, minimum_events |-> 1, quiet_window |-> 1]

SomeTerms ==
  {[allowed |-> TRUE, suppressed |-> FALSE, validFrom |-> 1, expires |-> 2]}
===============================================================================
