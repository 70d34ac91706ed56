------------------------------- MODULE MCPolicy -------------------------------
(* The policy journal by itself, from an empty brand. *)
EXTENDS Policy

\* A permission that lapses at 1, one that starts at 1, and a withdrawal.
SomeTerms ==
  {[allowed |-> TRUE,  suppressed |-> FALSE, validFrom |-> 0, expires |-> 1],
   [allowed |-> TRUE,  suppressed |-> FALSE, validFrom |-> 1, expires |-> 9],
   [allowed |-> FALSE, suppressed |-> FALSE, validFrom |-> 0, expires |-> 9]}
===============================================================================
