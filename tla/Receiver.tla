------------------------------- MODULE Receiver -------------------------------
(***************************************************************************)
(* The destination (src/audience_ops/receiver.py): immutable effects and   *)
(* one ordered membership row per key, in a database of its own.  do_POST  *)
(* runs under the receiver's brand lock in one transaction, so handling a  *)
(* request is one atomic action.  An effect is identified by its key and   *)
(* sequence, as the sender's UNIQUE(key, seq) makes the digest of its      *)
(* payload; the receipt and the business record are written with it and    *)
(* say the same thing.                                                     *)
(*                                                                         *)
(* The wire carries requests whose sender no longer waits: each may be     *)
(* handled at any later time, in any order, or never.                      *)
(***************************************************************************)
EXTENDS Scope, Naturals

CONSTANTS
  MaxSeq,      \* bound on effect sequences
  DriftSeq     \* the sequences an out-of-band membership row may carry

ASSUME ReceiverAssumption == MaxSeq \in Nat \ {0} /\ DriftSeq \subseteq Nat \ {0}

Effect == Key \X (1..MaxSeq)
KeyOf(e) == e[1]
SeqOf(e) == e[2]

VARIABLES
  effects,      \* the effects committed
  membership,   \* the membership row of each key; seq 0 is no row
  late          \* per effect, requests on the wire that nobody waits for

receiverVars == <<effects, membership, late>>

NoMember == [seq |-> 0, active |-> FALSE]

ReceiverInit ==
  /\ effects = {}
  /\ membership = [k \in Key |-> NoMember]
  /\ late = [e \in Effect |-> 0]

\* Mutant: any effect that is not a duplicate is applied.
FreshAnySequence(e) == e \notin effects

\* Whether e is news: neither a duplicate nor behind its key's row.
Fresh(e) == e \notin effects /\ membership[KeyOf(e)].seq < SeqOf(e)

\* do_POST past the fault switch: a duplicate returns the stored receipt, a stale
\* sequence is refused, anything else is committed and moves the key's row.
Handle(e, desired) ==
  IF Fresh(e)
  THEN /\ effects' = effects \union {e}
       /\ membership' =
            [membership EXCEPT ![KeyOf(e)] = [seq |-> SeqOf(e), active |-> desired]]
  ELSE UNCHANGED <<effects, membership>>

\* Whether the reply to e is the 200 with a receipt, given the state it was handled in.
Accepted(e) == e \in effects \/ Fresh(e)

\* A row written at the destination by someone else (the drift of the acceptance run).
Drift(k, seq) ==
  /\ membership[k].seq = 0
  /\ membership' = [membership EXCEPT ![k] = [seq |-> seq, active |-> TRUE]]
  /\ UNCHANGED <<effects, late>>

-------------------------------------------------------------------------------
ReceiverTypeOK ==
  /\ effects \subseteq Effect
  /\ membership \in [Key -> [seq: Nat, active: BOOLEAN]]
  /\ late \in [Effect -> Nat]

\* No effect of a key is ahead of its membership row: whatever the order and the
\* number of times the requests arrive in, the row is at least as new as every
\* effect the receiver gave a receipt for (receiver.py:99-111).
MembershipIsNewest ==
  \A e \in effects : SeqOf(e) <= membership[KeyOf(e)].seq

\* A membership row changes only to a strictly newer sequence: no late, repeated
\* or reordered request resurrects a member that was removed (receiver.py:102).
MembershipMovesForward ==
  [][\A k \in Key : membership'[k] # membership[k]
                       => membership'[k].seq > membership[k].seq]_receiverVars
===============================================================================
