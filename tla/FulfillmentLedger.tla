------------------------- MODULE FulfillmentLedger -------------------------
(***************************************************************************)
(* What the request service promises about fulfillment, whatever calls     *)
(* overlap and whatever fails: an asset leaves only after the approval     *)
(* engine has approved the request; a request goes through the stages      *)
(* Processing (0), Shipped (1), Delivered (2) and complete (3) in order,   *)
(* once; and the asset data is recorded once, by the step that ships.      *)
(***************************************************************************)
EXTENDS Integers

CONSTANTS Requests, Legacy, Payloads, None

VARIABLES
  verdict,   \* the engine's: "open", "approved" or "rejected"
  stage,     \* -1 while fulfillment has not started
  asset      \* the recorded asset data

ledger == <<verdict, stage, asset>>

Init ==
  /\ verdict = [r \in Requests |-> IF r \in Legacy THEN "approved" ELSE "open"]
  /\ stage = [r \in Requests |-> -1]
  /\ asset = [r \in Requests |-> None]

Rule(r, outcome) ==
  /\ verdict[r] = "open"
  /\ outcome \in {"approved", "rejected"}
  /\ verdict' = [verdict EXCEPT ![r] = outcome]
  /\ UNCHANGED <<stage, asset>>

Process(r) ==
  /\ verdict[r] = "approved"
  /\ stage[r] = -1
  /\ stage' = [stage EXCEPT ![r] = 0]
  /\ UNCHANGED <<verdict, asset>>

Ship(r, payload) ==
  /\ verdict[r] = "approved"
  /\ stage[r] \in {-1, 0}
  /\ stage' = [stage EXCEPT ![r] = 1]
  /\ asset' = [asset EXCEPT ![r] = payload]
  /\ UNCHANGED verdict

Advance(r) ==
  /\ stage[r] \in {1, 2}
  /\ stage' = [stage EXCEPT ![r] = @ + 1]
  /\ UNCHANGED <<verdict, asset>>

Next ==
  \E r \in Requests :
    \/ \E outcome \in {"approved", "rejected"} : Rule(r, outcome)
    \/ Process(r)
    \/ \E payload \in Payloads : Ship(r, payload)
    \/ Advance(r)

Spec == Init /\ [][Next]_ledger
=============================================================================
