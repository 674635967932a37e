------------------------ MODULE ApplicationLifecycle ------------------------
(***************************************************************************)
(* What AuditLend promises of one row of loan_applications, whatever the   *)
(* workers, the broker and the outbox do: the (status, decision) pair is a *)
(* small state machine.  LoanPipeline implements it.                       *)
(*                                                                         *)
(*   ABSENT -> PENDING -> PROCESSING -> COMPLETED (APPROVE or DECLINE)     *)
(*                              |   \-> MANUAL_REVIEW (NEEDS_REVIEW)       *)
(*   and any existing row may be escalated to MANUAL_REVIEW.               *)
(***************************************************************************)
CONSTANT App                 \* the applications that may be submitted

VARIABLES status,            \* loan_applications.status
          decision           \* loan_applications.decision

Status   == {"ABSENT", "PENDING", "PROCESSING", "COMPLETED", "MANUAL_REVIEW"}
Terminal == {"COMPLETED", "MANUAL_REVIEW"}
Decision == {"APPROVE", "DECLINE", "NEEDS_REVIEW"}
NoDecision == "NONE"         \* the column is NULL

(* Mutant: the decision itself is stored as the status. *)
DecisionAsStatus(d) == d

(* The status a decision is stored with. *)
StatusForDecision(d) == IF d = "NEEDS_REVIEW" THEN "MANUAL_REVIEW" ELSE "COMPLETED"

Init == /\ status = [a \in App |-> "ABSENT"]
        /\ decision = [a \in App |-> NoDecision]

Submit(a) == /\ status[a] = "ABSENT"
             /\ status' = [status EXCEPT ![a] = "PENDING"]
             /\ UNCHANGED decision

Start(a) == /\ status[a] = "PENDING"
            /\ status' = [status EXCEPT ![a] = "PROCESSING"]
            /\ UNCHANGED decision

Conclude(a, d) == /\ status[a] = "PROCESSING"
                  /\ status' = [status EXCEPT ![a] = StatusForDecision(d)]
                  /\ decision' = [decision EXCEPT ![a] = d]

(* A system error sends the row to a human, whatever it said before. *)
Escalate(a) == /\ status[a] # "ABSENT"
               /\ status' = [status EXCEPT ![a] = "MANUAL_REVIEW"]
               /\ decision' = [decision EXCEPT ![a] = "NEEDS_REVIEW"]

Next == \E a \in App : \/ Submit(a) \/ Start(a) \/ Escalate(a)
                       \/ \E d \in Decision : Conclude(a, d)

Spec == Init /\ [][Next]_<<status, decision>>
=============================================================================
