--------------------------------- MODULE Scope ---------------------------------
(***************************************************************************)
(* What both databases are keyed by: a person registered with the brand,   *)
(* and an audience.  Channel and purpose have one supported value each     *)
(* (email, trial_help), so they are left out of the key.                   *)
(***************************************************************************)
CONSTANTS
  Person,     \* the brand's registered subjects
  Segment     \* the declared audiences

Key == Person \X Segment
PersonOf(k) == k[1]
===============================================================================
