----------------------------- MODULE AtLeastOnce -----------------------------
(***************************************************************************)
(* What the outbox promises: a message that was accepted is handed to the  *)
(* broker once or more often, and is settled only after it was.  No        *)
(* batches, no locks, no threads.  Module OutboxRelay implements it.       *)
(***************************************************************************)
EXTENDS Naturals

CONSTANT Message

VARIABLES accepted,          \* the messages committed with their application
          settled,           \* those that will not be sent again
          sent               \* how often the broker got each

vars == <<accepted, settled, sent>>

Init == /\ accepted = {} /\ settled = {}
        /\ sent = [m \in Message |-> 0]

Accept(m) == /\ m \notin accepted
             /\ accepted' = accepted \cup {m}
             /\ UNCHANGED <<settled, sent>>

Deliver(m) == /\ m \in accepted \ settled
              /\ sent' = [sent EXCEPT ![m] = @ + 1]
              /\ UNCHANGED <<accepted, settled>>

(* A batch is settled at once. *)
Settle(batch) == /\ batch \subseteq accepted \ settled
                 /\ \A m \in batch : sent[m] > 0
                 /\ settled' = settled \cup batch
                 /\ UNCHANGED <<accepted, sent>>

Next == \/ \E m \in Message : Accept(m) \/ Deliver(m)
        \/ \E batch \in SUBSET Message : Settle(batch)

Spec == Init /\ [][Next]_vars
=============================================================================
