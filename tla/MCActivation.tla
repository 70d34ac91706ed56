----------------------------- MODULE MCActivation -----------------------------
(***************************************************************************)
(* Activation from a brand that is set up: a first batch is admitted, a    *)
(* first current publication has every person a member, and every person   *)
(* has a permission.  PolicyNext reaches this state from PolicyInit.       *)
(***************************************************************************)
EXTENDS Activation, TLC

Granted   == [allowed |-> TRUE,  suppressed |-> FALSE, validFrom |-> 0, expires |-> 1]
Withdrawn == [allowed |-> FALSE, suppressed |-> FALSE, validFrom |-> 0, expires |-> 1]
SomeTerms == {Granted, Withdrawn}

OnePerson == CHOOSE p \in Person : TRUE

SetUp ==
  /\ inbox = <<Person>>
  /\ clock = 0
  /\ publications = <<[mode |-> "current", clock |-> 0, known |-> 1,
                       member |-> Key, coverage |-> TRUE]>>
  /\ active = 1
  /\ permissions = <<[person |-> OnePerson, revision |-> 1, terms |-> Granted]>>

MCInit ==
  /\ SetUp /\ ReceiverInit
  /\ intents = [e \in Effect |-> NoIntent]
  /\ heads = [k \in Key |-> 0]
  /\ pc = [w \in Worker |-> "idle"]
  /\ job = [w \in Worker |-> NoJob]
  /\ poster = NoWorker
  /\ sent = [e \in Effect |-> 0]
  /\ observed = membership /\ todo = {} /\ stage = "idle"
  /\ crashes = 0 /\ overruns = 0

\* Without reconciliation; and with it.
DeliverySpec == MCInit /\ [][DeliveryNext]_vars
RepairSpec == MCInit /\ [][Next]_vars

FairDeliverySpec == DeliverySpec /\ DispatchFairness
FairRepairSpec == RepairSpec /\ RepairFairness

\* No property tells one worker from another.
Workers == Permutations(Worker)
===============================================================================
