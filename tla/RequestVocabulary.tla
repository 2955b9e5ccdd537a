------------------------- MODULE RequestVocabulary -------------------------
(***************************************************************************)
(* The words the request service is written in, and the pure functions     *)
(* that translate the Approval Engine's view of a request into them.       *)
(*                                                                         *)
(* A NULL column reads as the empty string (scanAssetRequest), so NULL is  *)
(* "" for a text column here; a NULL fulfillment_step is Unset.  An engine *)
(* answer is a record [status, order, steps]: the request's status and     *)
(* current_step_order, and whether the answer carries its step list, whose *)
(* steps are numbered and named 1 .. NSteps.                               *)
(***************************************************************************)
EXTENDS Integers, FiniteSets

CONSTANT NSteps   \* length of the approval chain the engine builds

ASSUME NStepsAssumption == NSteps \in Nat \ {0}

Steps == 1 .. NSteps

(* asset_requests.status: "" stands for a row that does not exist.         *)
Absent == ""
RequestStatus ==
  {Absent, "WAITING_APPROVAL", "APPROVED", "REJECTED", "FULFILLMENT", "COMPLETED"}

(* A request whose approval is behind it: its fulfillment has started.     *)
PastApproval == {"FULFILLMENT", "COMPLETED"}

ApprovalSyncPending == "PENDING_ENGINE_SYNC"
EngineStatus == {"pending", "approved", "rejected"}
ApprovalStatus == EngineStatus \cup {"", ApprovalSyncPending}

ApprovalAction == {"approve", "revision", "reject"}

StepStatus == {"approved", "current", "pending", "rejected", "revision"}

(* The history entries the service writes, by what they say.  The three    *)
(* fulfillment entries are "Data aset dicatat - Shipped", "Barang diterima *)
(* - Delivered" and "Fulfillment selesai - Completed" in the code.         *)
HistoryAction ==
  {"Submitted", "Approved", "Requested revision", "Rejected",
   "Shipped", "Delivered", "Completed"}

Unset == -1
FulfillmentStep == Unset .. 3
Coalesce(step) == IF step = Unset THEN 0 ELSE step

---------------------------------------------------------------------------
(* The local status that mirrors an engine status.  The mutant keeps a     *)
(* rejected request in the queue as if it had been approved.               *)
LocalStatusMutant(status) ==
  IF status = "pending" THEN "WAITING_APPROVAL" ELSE "APPROVED"

LocalStatusForEngineStatus(status) ==
  IF status = "approved" THEN "APPROVED"
  ELSE IF status = "rejected" THEN "REJECTED"
  ELSE "WAITING_APPROVAL"

(* "revision" is a rejection to the engine, which has no third decision.   *)
ApprovalEngineDecision(action) ==
  IF action = "approve" THEN "approved" ELSE "rejected"

(* The history entry of an approval action.                                *)
ActionLabel(action) ==
  IF action = "approve" THEN "Approved"
  ELSE IF action = "revision" THEN "Requested revision"
  ELSE "Rejected"

(* The number of the step the answer calls current; 0 when there is none.  *)
CurrentStepName(answer) ==
  IF answer.steps /\ answer.order \in Steps THEN answer.order ELSE 0

(* The chain shown for an answer.  The mutant ignores that the current     *)
(* step of a rejected request was sent back for revision.                  *)
StepItemsMutant(answer, actionWasRevision) ==
  [i \in Steps |->
     IF answer.status = "approved" \/ i =< answer.order THEN "approved"
     ELSE "pending"]

MapEngineStepsToItems(answer, actionWasRevision) ==
  [i \in Steps |->
     IF answer.status = "approved" \/ i < answer.order THEN "approved"
     ELSE IF i # answer.order THEN "pending"
     ELSE IF answer.status # "rejected" THEN "current"
     ELSE IF actionWasRevision THEN "revision"
     ELSE "rejected"]

(* A request that waits for its asset data: approved and not picked up, or *)
(* in fulfillment at Processing.                                           *)
ReadyForFulfillmentData(row) ==
  \/ row.status = "APPROVED" /\ Coalesce(row.fulfillment_step) = 0
  \/ row.status = "FULFILLMENT" /\ row.fulfillment_step = 0
=============================================================================
