----------------------------- MODULE OutboxRelay -----------------------------
(***************************************************************************)
(* The outbox poller threads, one in each Celery worker process, which     *)
(* share the table outbox.                                                 *)
(*                                                                         *)
(* A poll is one transaction: it locks a batch of outstanding rows, the    *)
(* oldest first, and skips those another poll has locked; sends a task for *)
(* each; and commits all the new row statuses together.  Nothing catches a *)
(* database error between the poll and the thread, and nothing starts a    *)
(* second thread in the same process.                                      *)
(*                                                                         *)
(* Rows are numbered in the order of the query, (created_at, id); they may *)
(* become visible in any order, since created_at is when their transaction *)
(* began.                                                                  *)
(***************************************************************************)
EXTENDS Naturals, FiniteSets

CONSTANTS Poller,            \* worker processes, each with its thread
          Rows,              \* bound: rows of the table
          Limit,             \* rows one poll takes
          Rejected,          \* rows whose sends may fail for ever
          MaxFaults          \* bound: faults, in all

Row == 1..Rows

ASSUME RelayAssumption == Rows \in Nat /\ Limit \in Nat \ {0} /\ MaxFaults \in Nat
ASSUME RejectedAssumption == Rejected \subseteq Row

VARIABLES
  row,                       \* outbox.status
  thread,                    \* of each poller: asleep, in a poll, or ended
  batch,                     \* what each poller's open transaction holds
  sent,                      \* how often the broker got each row's message
  faults

vars == <<row, thread, batch, sent, faults>>

Init == /\ row = [m \in Row |-> "ABSENT"]
        /\ thread = [p \in Poller |-> "asleep"]
        /\ batch = [p \in Poller |-> [m \in Row |-> "out"]]
        /\ sent = [m \in Row |-> 0]
        /\ faults = 0

Fault == faults < MaxFaults /\ faults' = faults + 1

(* The API's transaction commits the row with its application. *)
Insert(m) ==
  /\ row[m] = "ABSENT"
  /\ row' = [row EXCEPT ![m] = "PENDING"]
  /\ UNCHANGED <<thread, batch, sent, faults>>

-----------------------------------------------------------------------------
(* One poll.                                                               *)

(* Mutant: a message whose send failed is not looked for again. *)
OutstandingWhenPending(m) == row[m] = "PENDING"

Outstanding(m) == row[m] \in {"PENDING", "FAILED"}

(* Mutant: no row lock. *)
FreeThoughLocked == {m \in Row : Outstanding(m)}

(* FOR UPDATE SKIP LOCKED *)
Free == {m \in Row : Outstanding(m) /\ \A p \in Poller : batch[p][m] = "out"}

(* ORDER BY created_at, id LIMIT *)
Oldest(rows) == {m \in rows : Cardinality({k \in rows : k < m}) < Limit}

Select(p) ==
  /\ thread[p] = "asleep" /\ Free # {}
  /\ thread' = [thread EXCEPT ![p] = "sending"]
  /\ batch' = [batch EXCEPT ![p] = [m \in Row |->
                 IF m \in Oldest(Free) THEN "selected" ELSE "out"]]
  /\ UNCHANGED <<row, sent, faults>>

(* The loop has come to row m of the batch. *)
Sending(p, m) ==
  /\ thread[p] = "sending" /\ batch[p][m] = "selected"
  /\ \A k \in Row : batch[p][k] = "selected" => m <= k

Mark(p, m, state) == batch' = [batch EXCEPT ![p][m] = state]

Send(p, m) ==
  /\ Sending(p, m)
  /\ Mark(p, m, "sent")
  /\ sent' = [sent EXCEPT ![m] = @ + 1]
  /\ UNCHANGED <<row, thread, faults>>

(* send_task raises: the broker is away, as often and as long as it is. *)
SendFails(p, m) ==
  /\ Sending(p, m)
  /\ Mark(p, m, "failed")
  /\ UNCHANGED <<row, thread, sent, faults>>

(* It raises although the broker has the message. *)
SendUnheard(p, m) ==
  /\ Sending(p, m) /\ Fault
  /\ Mark(p, m, "failed")
  /\ sent' = [sent EXCEPT ![m] = @ + 1]
  /\ UNCHANGED <<row, thread>>

(* Mutants: a failed send counts as done, or the row is left as it was     *)
(* marked in the batch.                                                    *)
RowAfterIgnoringErrors(p, m) == IF batch[p][m] = "out" THEN row[m] ELSE "PROCESSED"
RowAfterUntranslated(p, m) == IF batch[p][m] = "out" THEN row[m] ELSE batch[p][m]

(* What the commit makes of a row, by how its send went. *)
RowAfter(p, m) == CASE batch[p][m] = "sent"   -> "PROCESSED"
                    [] batch[p][m] = "failed" -> "FAILED"
                    [] OTHER                  -> row[m]

BatchDone(p) == thread[p] = "sending" /\ \A m \in Row : batch[p][m] # "selected"

(* The transaction of p is over, and its row locks are gone. *)
EndPoll(p, state) ==
  /\ thread' = [thread EXCEPT ![p] = state]
  /\ batch' = [batch EXCEPT ![p] = [m \in Row |-> "out"]]

Commit(p) ==
  /\ BatchDone(p)
  /\ row' = [m \in Row |-> RowAfter(p, m)]
  /\ EndPoll(p, "asleep")
  /\ UNCHANGED <<sent, faults>>

-----------------------------------------------------------------------------
(* Faults.                                                                 *)

(* The select or the commit raises: the transaction rolls back, and the    *)
(* exception ends poll_outbox, for as long as the process lives.           *)
ThreadDies(p) ==
  /\ thread[p] = "asleep" \/ BatchDone(p)
  /\ Fault
  /\ EndPoll(p, "dead")
  /\ UNCHANGED <<row, sent>>

(* The commit raises although the database has committed. *)
CommitUnheard(p) ==
  /\ BatchDone(p) /\ Fault
  /\ row' = [m \in Row |-> RowAfter(p, m)]
  /\ EndPoll(p, "dead")
  /\ UNCHANGED sent

(* The worker process dies, wherever its thread is, and is started again. *)
ProcessRestarts(p) ==
  /\ Fault
  /\ EndPoll(p, "asleep")
  /\ UNCHANGED <<row, sent>>

-----------------------------------------------------------------------------
PollStep(p) == \/ Select(p) \/ Commit(p)
               \/ \E m \in Row : Send(p, m) \/ SendFails(p, m)

PollFault(p) == \/ ThreadDies(p) \/ CommitUnheard(p) \/ ProcessRestarts(p)
                \/ \E m \in Row : SendUnheard(p, m)

AllDead == \A p \in Poller : thread[p] = "dead"

(* Every row is inserted and sent; or no thread is left to send one. *)
Quiet == /\ \A m \in Row : row[m] # "ABSENT"
         /\ AllDead \/ \A m \in Row : row[m] = "PROCESSED"
         /\ UNCHANGED vars

Next == \/ \E m \in Row : Insert(m)
        \/ \E p \in Poller : PollStep(p) \/ PollFault(p)
        \/ Quiet

Spec == Init /\ [][Next]_vars

(* A thread that lives polls on, whenever it finds an outstanding row no   *)
(* other poll has locked; and of the rows that can be sent at all, the     *)
(* broker does not reject every send.                                      *)
FairSpec == /\ Spec
            /\ \A p \in Poller : /\ WF_vars(PollStep(p))
                                 /\ SF_vars(\E m \in Row \ Rejected : Send(p, m))

-----------------------------------------------------------------------------
(* Properties.                                                             *)

RowState == {"ABSENT", "PENDING", "FAILED", "PROCESSED"}
BatchState == {"out", "selected", "sent", "failed"}

TypeOK == /\ row \in [Row -> RowState]
          /\ thread \in [Poller -> {"asleep", "sending", "dead"}]
          /\ batch \in [Poller -> [Row -> BatchState]]
          /\ sent \in [Row -> Nat]
          /\ faults \in 0..MaxFaults

(* Pollers that race for rows send nothing twice: without a fault a        *)
(* message is sent at most once, and a fault repeats one at most once.     *)
DuplicatesAreBounded == \A m \in Row : sent[m] <= 1 + faults

(* The polls, their locks, rollbacks and dying threads implement delivery  *)
(* at least once: what is settled was sent, what is not is sent again.     *)
Promise == INSTANCE AtLeastOnce WITH
             Message <- Row,
             accepted <- {m \in Row : row[m] # "ABSENT"},
             settled <- {m \in Row : row[m] = "PROCESSED"}
ImplementsAtLeastOnce == Promise!Spec

(* Every committed row that can be sent is sent in the end, although fewer *)
(* than Limit older rows fail at every poll, and although threads die with *)
(* rows locked or sent but uncommitted, unless the last thread dies too:   *)
(* nothing but a poll sends a row.                                         *)
EveryRowIsSent ==
  Cardinality(Rejected) < Limit =>
    \A m \in Row \ Rejected : Outstanding(m) ~> (row[m] = "PROCESSED" \/ AllDead)
=============================================================================
