----------------------- MODULE AssetRequestsProperties -----------------------
(***************************************************************************)
(* What makes the request service correct: safety under every overlap of   *)
(* calls and every fault, what it promises to implement, and what must     *)
(* eventually happen when requests keep being viewed and cron keeps        *)
(* running.                                                                *)
(***************************************************************************)
EXTENDS AssetRequests

(* A request's status never runs ahead of the approval engine, through any *)
(* number of stale answers written back late: approved (or later) locally  *)
(* only if the engine approved it, rejected only if it rejected it, and no *)
(* fulfillment stage or asset data without the engine's approval.          *)
EngineBacksStatus ==
  \A r \in Requests :
    LET row == requests[r] IN
    /\ \/ row.status \in PastApproval \cup {"APPROVED"}
       \/ row.fulfillment_step # Unset
       \/ row.fulfillment_data # None
       => engine[r].status = "approved"
    /\ row.status = "REJECTED" => engine[r].status = "rejected"

(* The stage, the status and the asset data of a row agree although three  *)
(* unsynchronised statements write them: data is there exactly from        *)
(* Shipped on, and a status of fulfillment means a stage of fulfillment.   *)
StageMatchesData ==
  \A r \in Requests :
    LET row == requests[r] IN
    /\ row.fulfillment_data # None <=> row.fulfillment_step >= 1
    /\ row.status = "FULFILLMENT" => row.fulfillment_step \in {1, 2}
    /\ row.status = "COMPLETED" => row.fulfillment_step = 3

(* The audit trail, written a step after what it reports, reports nothing  *)
(* that did not happen: a stage it names was reached, a request it says    *)
(* was turned down was rejected by the engine and was turned down once,    *)
(* either for revision or for good.                                        *)
HistoryIsTrue ==
  \A r \in Requests :
    /\ "Shipped" \in history[r] => requests[r].fulfillment_step >= 1
    /\ "Delivered" \in history[r] => requests[r].fulfillment_step >= 2
    /\ "Completed" \in history[r] => requests[r].fulfillment_step = 3
    /\ history[r] \cap {"Requested revision", "Rejected"} # {}
         => engine[r].status = "rejected"
    /\ ~({"Requested revision", "Rejected"} \subseteq history[r])

(* The cached chain lags behind the engine but never leads it: a step it   *)
(* shows approved was approved, and it shows a step turned down only when  *)
(* the engine turned down the request at that step.                        *)
ChainNeverLeads ==
  \A r \in Requests :
    \A i \in DOMAIN chain[r] :
      /\ chain[r][i] = "approved"
           => engine[r].status = "approved" \/ i < engine[r].order
      /\ chain[r][i] \in {"rejected", "revision"}
           => engine[r].status = "rejected" /\ i = engine[r].order

(* A request without an engine id is in the retry queue, or a call is      *)
(* still registering it.  This is what ErrApprovalNotSynced says of it,    *)
(* and what makes the retry find every request the engine lacks.           *)
Registering(r) ==
  \E w \in Workers :
    calls[w].id = r /\ calls[w].at \in {"register", "saveRef", "markPending"}

UnsyncedIsQueued ==
  \A r \in Requests :
    requests[r].status # Absent /\ ~requests[r].approval_request_id
      => requests[r].approval_status = ApprovalSyncPending \/ Registering(r)

(* Nothing brings a request whose fulfillment has started back to an       *)
(* approval-stage status ("never let a late or out-of-order webhook drag a *)
(* request that has already moved on back to an approval-stage status").   *)
PastApprovalStays ==
  [][\A r \in Requests :
       requests[r].status \in PastApproval => requests'[r].status \in PastApproval]_requests

---------------------------------------------------------------------------
(* The inductive invariant.  EngineBacksStatus survives a late write only  *)
(* because the answer being written, old as it may be, was final when the  *)
(* engine gave it: that is AnswersAreTrue.                                 *)

(* A call names a request and carries the argument its location needs,     *)
(* and asks the engine only about requests the engine has.                 *)
WellFormed(call, eng) ==
  /\ call.at \notin {"idle", "nextRetry"} => call.id \in Requests
  /\ call.at \in {"decide", "record", "decisionChain"} => call.arg \in ApprovalAction
  /\ call.at = "save" => call.arg \in Payloads
  /\ call.at \in {"syncChain", "log"} => call.arg \in HistoryAction
  /\ call.at \in {"saveRef", "readHistory", "refresh"} => Registered(eng[call.id])

CallsAreWellFormed == \A w \in Workers : WellFormed(calls[w], engine)

(* A recorded engine id is the id of a request the engine has.             *)
RefIsRegistered ==
  \A r \in Requests : requests[r].approval_request_id => Registered(engine[r])

(* A final answer in flight is still the engine's state.                   *)
AnswerIsTrue(call, eng) ==
  call.answer.status # "pending"
    => /\ call.id \in Requests
       /\ eng[call.id].status = call.answer.status

AnswersAreTrue == \A w \in Workers : AnswerIsTrue(calls[w], engine)

IInv ==
  /\ TypeOK
  /\ CallsAreWellFormed
  /\ RefIsRegistered
  /\ AnswersAreTrue
  /\ EngineBacksStatus
  /\ StageMatchesData

---------------------------------------------------------------------------
(* Refinement.                                                             *)

VerdictOf(e) == IF e.status \in {"approved", "rejected"} THEN e.status ELSE "open"

Ledger == INSTANCE FulfillmentLedger WITH
  verdict <- [r \in Requests |-> VerdictOf(engine[r])],
  stage <- [r \in Requests |-> requests[r].fulfillment_step],
  asset <- [r \in Requests |-> requests[r].fulfillment_data]

(* The service implements the fulfillment ledger: approval before any      *)
(* stage, stages in order and once, asset data written once, by two saves  *)
(* racing each other at most one of which succeeds.                        *)
ImplementsLedger == Ledger!Spec

Lifecycle == INSTANCE RequestLifecycle WITH
  status <- [r \in Requests |-> requests[r].status]

(* With one call at a time the status only moves forward, whatever engine  *)
(* calls and database statements fail and wherever the process crashes.    *)
ImplementsLifecycle == Lifecycle!Spec

---------------------------------------------------------------------------
(* Liveness.                                                               *)

(* Goroutines are scheduled: a call in progress goes on.  Cron starts a    *)
(* retry again and again, a request is viewed again and again, and an      *)
(* engine call or a write that is tried forever succeeds at last.          *)
Scheduled == \A w \in Workers : WF_vars(Step(w))
CronRuns == SF_vars(\E w \in Workers : Retry(w))
RequestsAreViewed == \A r \in Requests : SF_vars(\E w \in Workers : Detail(w, r))
RegistrationsAreAnswered ==
  \A r \in Requests : SF_vars(\E w \in Workers : calls[w].id = r /\ RegisterAnswered(w))
RefreshesAreAnswered ==
  \A r \in Requests : SF_vars(\E w \in Workers : calls[w].id = r /\ RefreshAnswered(w))

RetrySpec == Spec /\ Scheduled /\ CronRuns /\ RegistrationsAreAnswered
ViewedSpec == Spec /\ Scheduled /\ RequestsAreViewed /\ RefreshesAreAnswered

(* A request queued for registration is registered at last, and its engine *)
(* id is recorded, through refused calls and lost answers.                 *)
QueuedIsRegistered ==
  \A r \in Requests :
    requests[r].approval_status = ApprovalSyncPending
      ~> requests[r].approval_request_id

(* The engine's approval reaches the request and stays, whichever stale    *)
(* answers are still to be written back.                                   *)
ApprovalArrives ==
  \A r \in Requests :
    engine[r].status = "approved" /\ requests[r].approval_request_id
      ~> [](requests[r].status \in PastApproval \cup {"APPROVED"})

(* A revision somebody recorded is shown as one, at last and for good,     *)
(* although overlapping refreshes that read the history before it was      *)
(* written cache the chain as plainly rejected.                            *)
RevisionIsShown ==
  \A r \in Requests :
    "Requested revision" \in history[r]
      ~> [](\E i \in DOMAIN chain[r] : chain[r][i] = "revision")
=============================================================================
