------------------------------- MODULE ReadApi -------------------------------
(***************************************************************************)
(* What a client learns of an application while the workers process it:    *)
(* GET /status, GET /decision and GET /explanation.  The last two read the *)
(* row and then, in a second statement that sees what was committed in     *)
(* between, the audit log.                                                 *)
(*                                                                         *)
(* One client sends one request at a time; another's requests would change *)
(* nothing for it, as no endpoint writes.                                  *)
(***************************************************************************)
EXTENDS LoanPipeline, ExplanationBuilder

CONSTANTS Clean              \* the results without a failure

VARIABLES reading,           \* the request that has read its row
          told               \* what the answers so far said, by application

readVars == <<reading, told>>

ASSUME CleanAssumption == Clean \subseteq Result
ASSUME ResultAssumption == "NONE" \notin Result \ Clean

Endpoint == {"decision", "explanation"}
NotReading == [app |-> NoApp]

(* phase: the last answer was none, a 404, a 202, or about a decided row.  *)
(* decision, factors: the last decision shown, and the decision whose      *)
(* factors were shown.                                                     *)
Untold == [phase |-> "nothing", decision |-> NoDecision, factors |-> NoDecision]

ReadInit == Init /\ reading = NotReading /\ told = [a \in App |-> Untold]

(* Mutant: an application in PROCESSING is taken for a decided one. *)
NotYetStarted(a) == status[a] = "PENDING"

NotYetDecided(a) == status[a] \in {"PENDING", "PROCESSING"} \/ decision[a] = NoDecision

Phase(a) == CASE status[a] = "ABSENT"     -> "absent"
              [] status[a] \in Terminal   -> "decided"
              [] OTHER                    -> "undecided"

(* get_status: one statement. *)
GetStatus(a) ==
  /\ reading = NotReading
  /\ told' = [told EXCEPT ![a].phase = Phase(a)]
  /\ UNCHANGED reading

(* get_decision and get_explanation up to their early returns: 404, 202.   *)
NoAnswerYet(a) ==
  /\ reading = NotReading
  /\ status[a] = "ABSENT" \/ NotYetDecided(a)
  /\ told' = [told EXCEPT ![a].phase = IF status[a] = "ABSENT" THEN "absent" ELSE "undecided"]
  /\ UNCHANGED reading

(* The row they go on with.  The confidence column belongs to the decision *)
(* that was recorded when it was written, and no escalation resets it.     *)
ReadRow(endpoint, a) ==
  /\ reading = NotReading
  /\ status[a] # "ABSENT" /\ ~NotYetDecided(a)
  /\ reading' = [app |-> a, endpoint |-> endpoint,
                 decision |-> decision[a], confidenceOf |-> recorded[a]]
  /\ UNCHANGED told

(* The audit log of an application, by what a summary reads of it. *)
FetchEntries(a) ==
  {Entry(s, IF external[a][s] \in Clean THEN "NONE" ELSE external[a][s], FALSE)
     : s \in {t \in Source : Stored(a, t)}}
DecisionEntries(a) ==
  {Entry("DECISION_CALCULATION", "NONE", FALSE) : d \in {recorded[a]} \ {NoDecision}}
    \cup {Entry("MANUAL_REVIEW_OVERRIDE", "NONE", TRUE) : d \in {recorded[a]} \cap {"NEEDS_REVIEW"}}
ErrorEntries(a) ==
  {Entry("SYSTEM_ERROR", "SYSTEM_ERROR", TRUE) : n \in {audit[a]["SYSTEM_ERROR"]} \ {0}}

(* Mutant: the error handler leaves no entry. *)
LogWithoutErrors(a) == FetchEntries(a) \cup DecisionEntries(a)

LogOf(a) == FetchEntries(a) \cup DecisionEntries(a) \cup ErrorEntries(a)

(* _decision_output, _final_decision_output: the last DECISION_CALCULATION *)
(* entry, which is the only one; without it there are no factors.          *)
DecisionOutput(a) == recorded[a]

Explanation(a) == Summary(DecisionOutput(a), DecisionOutput(a) = "NEEDS_REVIEW", LogOf(a))

(* The second statement, and the answer. *)
AnswerDecision ==
  /\ reading # NotReading /\ reading.endpoint = "decision"
  /\ told' = [told EXCEPT ![reading.app] =
                [phase |-> "decided", decision |-> reading.decision,
                 factors |-> DecisionOutput(reading.app)]]
  /\ reading' = NotReading

AnswerExplanation ==
  /\ reading # NotReading /\ reading.endpoint = "explanation"
  /\ told' = [told EXCEPT ![reading.app] =
                [phase |-> "decided", decision |-> @.decision,
                 factors |-> DecisionOutput(reading.app)]]
  /\ reading' = NotReading

ReadStep == \/ \E a \in App : \/ GetStatus(a) \/ NoAnswerYet(a)
                              \/ \E e \in Endpoint : ReadRow(e, a)
            \/ AnswerDecision \/ AnswerExplanation

ReadNext == \/ Next /\ UNCHANGED readVars
            \/ ReadStep /\ UNCHANGED vars

ReadSpec == ReadInit /\ [][ReadNext]_<<vars, readVars>>
-----------------------------------------------------------------------------
(* Properties. *)

ReadTypeOK ==
  /\ reading = NotReading \/ reading \in [app : App, endpoint : Endpoint, decision : Decision,
                                          confidenceOf : Decision \cup {NoDecision}]
  /\ told \in [App -> [phase : {"nothing", "absent", "undecided", "decided"},
                       decision : Decision \cup {NoDecision},
                       factors : Decision \cup {NoDecision}]]

(* GET /decision never mixes two decisions, though it reads them in two    *)
(* statements: whenever the second one runs, its factors belong to the     *)
(* confidence, and to the decision too unless that was escalated to a      *)
(* human, with an error in the log to say so.                              *)
DecisionAnswersAgree ==
  reading # NotReading =>
    LET a == reading.app
    IN  /\ DecisionOutput(a) = reading.confidenceOf
        /\ DecisionOutput(a) # reading.decision =>
             reading.decision = "NEEDS_REVIEW" /\ audit[a]["SYSTEM_ERROR"] > 0

(* GET /explanation explains what the row says, whenever the log is read:  *)
(* when it explains another decision it names the system error, and it     *)
(* claims verified sources only of the decision the row has, made from     *)
(* results without a failure.                                              *)
ExplanationsFitDecision ==
  reading # NotReading =>
    LET a == reading.app
    IN  /\ DecisionOutput(a) # reading.decision =>
             [step |-> "SYSTEM_ERROR", status |-> "SYSTEM_ERROR"] \in Explanation(a).causes
        /\ Explanation(a).kind = "verified" =>
             /\ reading.decision = DecisionOutput(a)
             /\ \A s \in Source : external[a][s] \in Clean

Progress(phase) == CASE phase = "nothing" -> 0 [] phase = "absent" -> 1
                     [] phase = "undecided" -> 2 [] phase = "decided" -> 3

(* What the client was told is not taken back by a later answer, of the    *)
(* same endpoint or another: no 404 after the application was seen, no 202 *)
(* after a decision, no other decision than the first except a review, and *)
(* no other factors.                                                       *)
NoAnswerIsTakenBack == [][\A a \in App :
  /\ Progress(told'[a].phase) >= Progress(told[a].phase)
  /\ told[a].decision # NoDecision => told'[a].decision \in {told[a].decision, "NEEDS_REVIEW"}
  /\ told[a].factors # NoDecision => told'[a].factors = told[a].factors]_<<vars, readVars>>
=============================================================================
