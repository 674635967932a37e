------------------------------ MODULE Submission ------------------------------
(***************************************************************************)
(* What POST /apply-loan promises: each idempotency key is a register that *)
(* is written once, by the request whose application it names, and every   *)
(* answer but 500 is what that register says at one moment.  No cache, no  *)
(* locks, no steps in between.  Module Intake implements it.               *)
(***************************************************************************)
CONSTANTS Request, Key, Payload, Nothing

VARIABLES
  input,                     \* what each request sends
  accepted,                  \* by key: the application, and the hash it is for
  reply                      \* the HTTP answer

vars == <<input, accepted, reply>>

KeyOf(r) == input[r].key
HashOf(r) == <<KeyOf(r), input[r].payload>>

Init == /\ input \in [Request -> [key : Key, payload : Payload]]
        /\ accepted = [k \in Key |-> Nothing]
        /\ reply = [r \in Request |-> Nothing]

(* The first request of a key that commits has its application accepted. *)
Accept(r) ==
  /\ accepted[KeyOf(r)] = Nothing
  /\ accepted' = [accepted EXCEPT ![KeyOf(r)] = [application |-> r, hash |-> HashOf(r)]]

(* 201 for the request that created the application, 200 for one that      *)
(* repeats it, 409 for one that reuses its key.                            *)
Verdict(r, stored) ==
  IF stored.hash # HashOf(r) THEN [code |-> 409, application |-> Nothing]
  ELSE [code |-> IF stored.application = r THEN 201 ELSE 200,
        application |-> stored.application]

Tell(r) ==
  /\ reply[r] = Nothing /\ accepted[KeyOf(r)] # Nothing
  /\ reply' = [reply EXCEPT ![r] = Verdict(r, accepted[KeyOf(r)])]

(* A server error promises nothing: the application may be accepted. *)
Fail(r) ==
  /\ reply[r] = Nothing
  /\ reply' = [reply EXCEPT ![r] = [code |-> 500, application |-> Nothing]]

Next == /\ \E r \in Request : \/ Accept(r) /\ UNCHANGED reply
                              \/ Tell(r) /\ UNCHANGED accepted
                              \/ Fail(r) /\ (Accept(r) \/ UNCHANGED accepted)
        /\ UNCHANGED input

Spec == Init /\ [][Next]_vars
=============================================================================
