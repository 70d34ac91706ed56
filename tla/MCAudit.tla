-------------------------------- MODULE MCAudit --------------------------------
(* One person, on trial and active, whose event is lost again.  Times, rules and *)
(* terms are such that eligibility needs every part of the journal.              *)
EXTENDS Audit

Version(source, revision, effective, value, retracted) ==
  [source |-> source, id |-> "a", revision |-> revision, person |-> "ann",
   effective |-> effective, value |-> value, retracted |-> retracted]

SomeVersions ==
  {Version("profile",  1, 0, "trial", FALSE),
   Version("activity", 1, 0, "qualified", FALSE),
   Version("activity", 2, 0, "qualified", TRUE)}

TheRules == [engaged_window |-> 2, minimum_events |-> 1, quiet_window |-> 1]

SomeTerms == {[allowed |-> TRUE, suppressed |-> FALSE, validFrom |-> 0, expires |-> 1]}
===============================================================================
