-------------------------- MODULE OutboxRelayProofs --------------------------
(* The outbox relay, for every number of pollers, rows and faults and for  *)
(* every limit of a poll.                                                  *)
EXTENDS OutboxRelay, TLAPS

(* A row is in one open batch at most, and while it is, it is outstanding: *)
(* only the poll that holds its lock can change it.                        *)
LockInv ==
  /\ \A p, q \in Poller, m \in Row :
       batch[p][m] # "out" /\ batch[q][m] # "out" => p = q
  /\ \A p \in Poller, m \in Row :
       batch[p][m] # "out" => thread[p] = "sending" /\ Outstanding(m)

(* A delivery that no fault accounts for is the one that the row, or the   *)
(* batch that holds it, knows of.                                          *)
KnownSent(m) == row[m] = "PROCESSED" \/ \E p \in Poller : batch[p][m] = "sent"

CountInv == \A m \in Row :
  /\ sent[m] <= 1 + faults
  /\ ~KnownSent(m) => sent[m] <= faults
  /\ KnownSent(m) => sent[m] > 0

RelayInv == TypeOK /\ LockInv /\ CountInv

LEMMA RelayInit == Init => RelayInv
<1> SUFFICES ASSUME Init PROVE RelayInv
  OBVIOUS
<1>1. TypeOK
  BY RelayAssumption DEF Init, TypeOK, RowState, BatchState
<1>2. LockInv
  BY DEF Init, LockInv
<1>3. CountInv
  BY DEF Init, CountInv, KnownSent
<1> QED
  BY <1>1, <1>2, <1>3 DEF RelayInv

(* What Mark does to the batches. *)
LEMMA MarkEffect ==
  ASSUME TypeOK, NEW p \in Poller, NEW m \in Row, NEW state \in BatchState,
         Mark(p, m, state)
  PROVE  /\ batch' \in [Poller -> [Row -> BatchState]]
         /\ \A q \in Poller, k \in Row :
              batch'[q][k] = IF q = p /\ k = m THEN state ELSE batch[q][k]
BY DEF Mark, TypeOK

LEMMA EndPollEffect ==
  ASSUME TypeOK, NEW p \in Poller, NEW state \in {"asleep", "dead"}, EndPoll(p, state)
  PROVE  /\ batch' \in [Poller -> [Row -> BatchState]]
         /\ thread' \in [Poller -> {"asleep", "sending", "dead"}]
         /\ \A q \in Poller, k \in Row :
              batch'[q][k] = IF q = p THEN "out" ELSE batch[q][k]
         /\ \A q \in Poller : thread'[q] = IF q = p THEN state ELSE thread[q]
BY DEF EndPoll, TypeOK, BatchState

LEMMA FaultEffect ==
  ASSUME TypeOK, Fault
  PROVE  faults \in Nat /\ faults' = faults + 1 /\ faults' \in 0..MaxFaults
BY RelayAssumption DEF TypeOK, Fault

LEMMA RowAfterTyped ==
  ASSUME TypeOK, NEW p \in Poller, NEW m \in Row
  PROVE  RowAfter(p, m) \in RowState
BY DEF TypeOK, RowAfter, RowState, BatchState

LEMMA InsertKeeps ==
  ASSUME RelayInv, NEW m \in Row, Insert(m)
  PROVE  RelayInv'
<1> USE DEF RelayInv
<1>1. /\ row' \in [Row -> RowState]
      /\ \A k \in Row : row'[k] = IF k = m THEN "PENDING" ELSE row[k]
      /\ row[m] = "ABSENT" /\ UNCHANGED <<thread, batch, sent, faults>>
  BY DEF Insert, TypeOK, RowState
<1>2. TypeOK'
  BY <1>1 DEF TypeOK
<1>3. LockInv'
  BY <1>1 DEF LockInv, Outstanding
<1>4. CountInv'
  BY <1>1 DEF CountInv, KnownSent
<1> QED
  BY <1>2, <1>3, <1>4

LEMMA SelectKeeps ==
  ASSUME RelayInv, NEW p \in Poller, Select(p)
  PROVE  RelayInv'
<1> USE DEF RelayInv
<1>1. /\ thread[p] = "asleep" /\ UNCHANGED <<row, sent, faults>>
      /\ thread' \in [Poller -> {"asleep", "sending", "dead"}]
      /\ \A q \in Poller : thread'[q] = IF q = p THEN "sending" ELSE thread[q]
  BY DEF Select, TypeOK
<1>2. /\ batch' \in [Poller -> [Row -> BatchState]]
      /\ \A q \in Poller, k \in Row :
           batch'[q][k] = IF q = p THEN (IF k \in Oldest(Free) THEN "selected" ELSE "out")
                          ELSE batch[q][k]
  BY DEF Select, TypeOK, BatchState
<1>3. \A k \in Oldest(Free) : Outstanding(k) /\ \A q \in Poller : batch[q][k] = "out"
  BY DEF Oldest, Free
<1>4. TypeOK'
  BY <1>1, <1>2 DEF TypeOK
<1>5. LockInv'
  BY <1>1, <1>2, <1>3, SMTT(30) DEF LockInv, Outstanding
<1>6. \A k \in Row : KnownSent(k)' <=> KnownSent(k)
  <2>1. \A k \in Row : batch[p][k] # "sent"
    BY <1>1 DEF LockInv
  <2> QED
    BY <1>1, <1>2, <2>1 DEF KnownSent
<1>7. CountInv'
  BY <1>1, <1>6 DEF CountInv
<1> QED
  BY <1>4, <1>5, <1>7

(* Marking a row in the batch that holds it. *)
LEMMA MarkKeepsLocks ==
  ASSUME RelayInv, NEW p \in Poller, NEW m \in Row, NEW state \in {"sent", "failed"},
         Sending(p, m), Mark(p, m, state), UNCHANGED <<row, thread>>
  PROVE  /\ LockInv'
         /\ ~KnownSent(m) /\ (KnownSent(m)' <=> state = "sent")
         /\ \A k \in Row : k # m => (KnownSent(k)' <=> KnownSent(k))
<1> USE DEF RelayInv
<1>1. \A q \in Poller, k \in Row :
        batch'[q][k] = IF q = p /\ k = m THEN state ELSE batch[q][k]
  BY MarkEffect DEF BatchState
<1>2. batch[p][m] = "selected"
  BY DEF Sending
<1>3. LockInv'
  BY <1>1, <1>2 DEF LockInv, Outstanding
<1>4. Outstanding(m) /\ \A q \in Poller : q # p => batch[q][m] = "out"
  BY <1>2 DEF LockInv
<1>5. ~KnownSent(m)
  BY <1>2, <1>4 DEF KnownSent, Outstanding
<1>6. KnownSent(m)' <=> state = "sent"
  BY <1>1, <1>4 DEF KnownSent, Outstanding
<1>7. \A k \in Row : k # m => (KnownSent(k)' <=> KnownSent(k))
  BY <1>1 DEF KnownSent
<1> QED
  BY <1>3, <1>5, <1>6, <1>7

LEMMA SentEffect ==
  ASSUME TypeOK, NEW m \in Row, sent' = [sent EXCEPT ![m] = @ + 1]
  PROVE  /\ sent' \in [Row -> Nat]
         /\ \A k \in Row : sent'[k] = IF k = m THEN sent[k] + 1 ELSE sent[k]
BY DEF TypeOK

LEMMA SendKeeps ==
  ASSUME RelayInv, NEW p \in Poller, NEW m \in Row,
         Send(p, m) \/ SendFails(p, m) \/ SendUnheard(p, m)
  PROVE  RelayInv'
<1> USE DEF RelayInv
<1>0. faults \in Nat /\ \A k \in Row : sent[k] \in Nat
  BY RelayAssumption DEF TypeOK
<1>1. CASE Send(p, m)
  <2>1. /\ Sending(p, m) /\ Mark(p, m, "sent") /\ UNCHANGED <<row, thread, faults>>
        /\ sent' = [sent EXCEPT ![m] = @ + 1]
    BY <1>1 DEF Send
  <2>2. LockInv' /\ TypeOK'
    BY <2>1, MarkKeepsLocks, MarkEffect, SentEffect DEF TypeOK, BatchState
  <2>3. /\ ~KnownSent(m) /\ KnownSent(m)'
        /\ \A k \in Row : k # m => (KnownSent(k)' <=> KnownSent(k))
    BY <2>1, MarkKeepsLocks
  <2>4. \A k \in Row : sent'[k] = IF k = m THEN sent[k] + 1 ELSE sent[k]
    BY <2>1, SentEffect
  <2>5. CountInv'
    BY <1>0, <2>1, <2>3, <2>4 DEF CountInv
  <2> QED
    BY <2>2, <2>5
<1>2. CASE SendFails(p, m)
  <2>1. /\ Sending(p, m) /\ Mark(p, m, "failed") /\ UNCHANGED <<row, thread, faults, sent>>
    BY <1>2 DEF SendFails
  <2>2. LockInv' /\ TypeOK'
    BY <2>1, MarkKeepsLocks, MarkEffect DEF TypeOK, BatchState
  <2>3. \A k \in Row : KnownSent(k)' <=> KnownSent(k)
    BY <2>1, MarkKeepsLocks
  <2>4. CountInv'
    BY <2>1, <2>3 DEF CountInv
  <2> QED
    BY <2>2, <2>4
<1>3. CASE SendUnheard(p, m)
  <2>1. /\ Sending(p, m) /\ Mark(p, m, "failed") /\ UNCHANGED <<row, thread>> /\ Fault
        /\ sent' = [sent EXCEPT ![m] = @ + 1]
    BY <1>3 DEF SendUnheard
  <2>2. LockInv' /\ TypeOK'
    BY <2>1, MarkKeepsLocks, MarkEffect, SentEffect, FaultEffect DEF TypeOK, BatchState
  <2>3. /\ ~KnownSent(m) /\ ~KnownSent(m)'
        /\ \A k \in Row : k # m => (KnownSent(k)' <=> KnownSent(k))
    BY <2>1, MarkKeepsLocks
  <2>4. /\ \A k \in Row : sent'[k] = IF k = m THEN sent[k] + 1 ELSE sent[k]
        /\ faults' = faults + 1
    BY <2>1, SentEffect, FaultEffect
  <2>5. CountInv'
    BY <1>0, <2>3, <2>4 DEF CountInv
  <2> QED
    BY <2>2, <2>5
<1> QED
  BY <1>1, <1>2, <1>3

(* A transaction that ends without a commit, at the cost of a fault. *)
LEMMA RollbackKeeps ==
  ASSUME RelayInv, NEW p \in Poller, NEW state \in {"asleep", "dead"},
         EndPoll(p, state), Fault, UNCHANGED <<row, sent>>
  PROVE  RelayInv'
<1> USE DEF RelayInv
<1>1. \A q \in Poller, k \in Row : batch'[q][k] = IF q = p THEN "out" ELSE batch[q][k]
  BY EndPollEffect
<1>2. TypeOK'
  BY EndPollEffect, FaultEffect DEF TypeOK
<1>3. LockInv'
  <2>1. \A q \in Poller : thread'[q] = IF q = p THEN state ELSE thread[q]
    BY EndPollEffect
  <2> QED
    BY <1>1, <2>1 DEF LockInv, Outstanding
<1>4. \A k \in Row : KnownSent(k)' => KnownSent(k)
  BY <1>1 DEF KnownSent
<1>5. faults \in Nat /\ faults' = faults + 1 /\ \A k \in Row : sent[k] \in Nat
  BY FaultEffect DEF TypeOK
<1>6. CountInv'
  BY <1>4, <1>5 DEF CountInv
<1> QED
  BY <1>2, <1>3, <1>6

(* A commit, heard of or not. *)
LEMMA CommitKeeps ==
  ASSUME RelayInv, NEW p \in Poller, NEW state \in {"asleep", "dead"},
         BatchDone(p), row' = [m \in Row |-> RowAfter(p, m)], EndPoll(p, state),
         faults' = faults \/ Fault, UNCHANGED sent
  PROVE  RelayInv'
<1> USE DEF RelayInv
<1>1. /\ \A q \in Poller, k \in Row : batch'[q][k] = IF q = p THEN "out" ELSE batch[q][k]
      /\ \A q \in Poller : thread'[q] = IF q = p THEN state ELSE thread[q]
  BY EndPollEffect
<1>2. \A k \in Row : row'[k] = RowAfter(p, k)
  OBVIOUS
<1>3. faults' \in 0..MaxFaults /\ (faults' = faults \/ faults' = faults + 1)
  BY FaultEffect DEF TypeOK
<1>4. TypeOK'
  BY <1>3, EndPollEffect, RowAfterTyped DEF TypeOK
<1>5. \A k \in Row : batch[p][k] = "out" => row'[k] = row[k]
  BY <1>2 DEF RowAfter
<1>6. LockInv'
  BY <1>1, <1>5 DEF LockInv, Outstanding
<1>7. \A k \in Row : KnownSent(k)' <=> KnownSent(k)
  <2> SUFFICES ASSUME NEW k \in Row PROVE KnownSent(k)' <=> KnownSent(k)
    OBVIOUS
  <2>1. CASE batch[p][k] = "out"
    BY <1>1, <1>5, <2>1 DEF KnownSent
  <2>2. CASE batch[p][k] # "out"
    <3>1. row[k] # "PROCESSED" /\ \A q \in Poller : q # p => batch[q][k] = "out"
      BY <2>2 DEF LockInv, Outstanding
    <3>2. row'[k] = "PROCESSED" <=> batch[p][k] = "sent"
      BY <1>2, <3>1 DEF RowAfter
    <3> QED
      BY <1>1, <3>1, <3>2 DEF KnownSent
  <2> QED
    BY <2>1, <2>2
<1>8. CountInv'
  BY <1>3, <1>7, RelayAssumption DEF CountInv, TypeOK
<1> QED
  BY <1>4, <1>6, <1>8

LEMMA RelayStep ==
  ASSUME RelayInv, [Next]_vars
  PROVE  RelayInv'
<1>1. ASSUME NEW p \in Poller, Commit(p) PROVE RelayInv'
  BY <1>1, CommitKeeps DEF Commit
<1>2. ASSUME NEW p \in Poller, CommitUnheard(p) PROVE RelayInv'
  BY <1>2, CommitKeeps DEF CommitUnheard
<1>3. ASSUME NEW p \in Poller, ThreadDies(p) \/ ProcessRestarts(p) PROVE RelayInv'
  BY <1>3, RollbackKeeps DEF ThreadDies, ProcessRestarts
<1>4. CASE UNCHANGED vars
  BY <1>4 DEF vars, RelayInv, TypeOK, LockInv, CountInv, KnownSent, Outstanding
<1> QED
  BY <1>1, <1>2, <1>3, <1>4, InsertKeeps, SelectKeeps, SendKeeps
     DEF Next, PollStep, PollFault, Quiet

THEOREM RelayInvariant == Spec => []RelayInv
BY RelayInit, RelayStep, PTL DEF Spec

(* poll_outbox_once: rows, threads, batches and counters keep their form.  *)
THEOREM RelayTypes == Spec => []TypeOK
BY RelayInvariant, PTL DEF RelayInv

(* poll_outbox_once: any number of processes polling at once send a        *)
(* message at most once more often than there were faults.                 *)
THEOREM FewDuplicates == Spec => []DuplicatesAreBounded
<1>1. RelayInv => DuplicatesAreBounded
  BY DEF RelayInv, CountInv, DuplicatesAreBounded
<1> QED
  BY <1>1, RelayInvariant, PTL

-----------------------------------------------------------------------------
(* The refinement of AtLeastOnce.                                          *)

LEMMA DeliverStep ==
  ASSUME RelayInv, NEW p \in Poller, NEW m \in Row, Sending(p, m),
         sent' = [sent EXCEPT ![m] = @ + 1], UNCHANGED row
  PROVE  Promise!Next
<1>1. Outstanding(m)
  BY DEF RelayInv, LockInv, Sending
<1>2. Promise!Deliver(m)
  BY <1>1 DEF Promise!Deliver, Outstanding
<1> QED
  BY <1>2 DEF Promise!Next

LEMMA SettleStep ==
  ASSUME RelayInv, NEW p \in Poller, row' = [m \in Row |-> RowAfter(p, m)], UNCHANGED sent
  PROVE  Promise!Next
<1> DEFINE done == {m \in Row : batch[p][m] = "sent"}
<1>1. \A m \in done : Outstanding(m) /\ sent[m] > 0
  BY DEF RelayInv, LockInv, CountInv, KnownSent
<1>2. \A m \in Row : row'[m] = RowAfter(p, m)
  OBVIOUS
<1>3. \A m \in Row : batch[p][m] # "out" => Outstanding(m)
  BY DEF RelayInv, LockInv
<1>4. \A m \in Row : row'[m] = "ABSENT" <=> row[m] = "ABSENT"
  BY <1>2, <1>3 DEF RowAfter, Outstanding
<1>5. \A m \in Row : row'[m] = "PROCESSED" <=> row[m] = "PROCESSED" \/ m \in done
  BY <1>2, <1>3 DEF RowAfter, Outstanding
<1>6. done \subseteq {m \in Row : row[m] # "ABSENT"} \ {m \in Row : row[m] = "PROCESSED"}
  BY <1>1 DEF Outstanding
<1>7. {m \in Row : row'[m] # "ABSENT"} = {m \in Row : row[m] # "ABSENT"}
  BY <1>4
<1>8. {m \in Row : row'[m] = "PROCESSED"} = {m \in Row : row[m] = "PROCESSED"} \cup done
  BY <1>5
<1>9. PICK settling \in SUBSET Row : settling = done
  OBVIOUS
<1>10. Promise!Settle(settling)
  BY <1>1, <1>6, <1>7, <1>8, <1>9 DEF Promise!Settle
<1> QED
  BY <1>10 DEF Promise!Next

LEMMA AcceptStep ==
  ASSUME TypeOK, NEW m \in Row, Insert(m)
  PROVE  Promise!Next
<1>1. \A k \in Row : row'[k] = IF k = m THEN "PENDING" ELSE row[k]
  BY DEF Insert, TypeOK
<1>2. row[m] = "ABSENT" /\ UNCHANGED sent
  BY DEF Insert
<1>3. {k \in Row : row'[k] # "ABSENT"} = {k \in Row : row[k] # "ABSENT"} \cup {m}
  BY <1>1
<1>4. {k \in Row : row'[k] = "PROCESSED"} = {k \in Row : row[k] = "PROCESSED"}
  BY <1>1, <1>2
<1>5. Promise!Accept(m)
  BY <1>2, <1>3, <1>4 DEF Promise!Accept
<1> QED
  BY <1>5 DEF Promise!Next

LEMMA PromiseStep ==
  ASSUME RelayInv, [Next]_vars
  PROVE  [Promise!Next]_(Promise!vars)
<1>1. ASSUME NEW p \in Poller, NEW m \in Row, Send(p, m) \/ SendUnheard(p, m)
      PROVE  Promise!Next
  BY <1>1, DeliverStep DEF Send, SendUnheard
<1>2. ASSUME NEW p \in Poller, Commit(p) \/ CommitUnheard(p) PROVE Promise!Next
  BY <1>2, SettleStep DEF Commit, CommitUnheard
<1>3. ASSUME NEW m \in Row, Insert(m) PROVE Promise!Next
  BY <1>3, AcceptStep DEF RelayInv
<1>4. ASSUME UNCHANGED <<row, sent>> PROVE UNCHANGED Promise!vars
  BY <1>4 DEF Promise!vars
<1> QED
  BY <1>1, <1>2, <1>3, <1>4 DEF Next, PollStep, PollFault, Select, SendFails,
     ThreadDies, ProcessRestarts, Quiet, vars

(* outbox_poller.py: a row is settled only after its task was sent, all    *)
(* rows of a poll at once, and every other row stays to be sent again.     *)
THEOREM RelayImplements == Spec => ImplementsAtLeastOnce
<1>1. Init => Promise!Init
  BY DEF Init, Promise!Init
<1> QED
  BY <1>1, PromiseStep, RelayInvariant, PTL DEF Spec, ImplementsAtLeastOnce, Promise!Spec
=============================================================================
