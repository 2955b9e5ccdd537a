-------------------------- MODULE RequestLifecycle --------------------------
(***************************************************************************)
(* The life of a request as its status tells it when calls are served one  *)
(* at a time: created waiting, then approved or rejected for good, then in *)
(* fulfillment, then completed, and never back.                            *)
(***************************************************************************)
CONSTANTS Requests, Legacy

VARIABLE status

Init == status = [r \in Requests |-> IF r \in Legacy THEN "APPROVED" ELSE ""]

Move(r, from, to) == status[r] = from /\ status' = [status EXCEPT ![r] = to]

Next ==
  \E r \in Requests :
    \/ Move(r, "", "WAITING_APPROVAL")
    \/ Move(r, "WAITING_APPROVAL", "APPROVED")
    \/ Move(r, "WAITING_APPROVAL", "REJECTED")
    \/ Move(r, "APPROVED", "FULFILLMENT")
    \/ Move(r, "FULFILLMENT", "COMPLETED")

Spec == Init /\ [][Next]_status
=============================================================================
