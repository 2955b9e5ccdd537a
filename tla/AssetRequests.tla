--------------------------- MODULE AssetRequests ---------------------------
(***************************************************************************)
(* The request service (internal/pkg/service/request_service.go) over its  *)
(* repository, with the Approval Engine it registers requests with and     *)
(* mirrors, under concurrent calls.                                        *)
(*                                                                         *)
(* A worker is one goroutine serving one call: an HTTP handler, a webhook  *)
(* delivery or a run of cmd/retrypendingsync, on any of the deployed       *)
(* instances.  Every SQL statement (or transaction) and every engine call  *)
(* is one step, so the steps of concurrent calls interleave between them.  *)
(* What a call has read and what the engine answered it stay in its        *)
(* record, however stale they become.                                      *)
(***************************************************************************)
EXTENDS RequestVocabulary

CONSTANTS
  Requests,     \* the requests there may ever be
  Legacy,       \* those approved before the Processing step existed
  Unmapped,     \* those whose category no engine doc_type governs
  Payloads,     \* valid fulfillment data
  Workers,      \* the calls in progress at one moment
  None,         \* no request, no payload, no argument
  FinalOrder,   \* current_step_order of a request the engine has approved
  AnswerSteps,  \* whether the engine's answers carry steps: a set of BOOLEANs
  Operations,   \* the calls clients, cron and engine make
  Faults        \* what may go wrong, see Fault

Operation ==
  {"create", "retry", "detail", "webhook", "decide", "save", "advance"}

(* "refused": a call is not carried out by the engine (unreachable, 4xx).  *)
(* "lost": it is, but the answer never arrives (the client's 15s timeout). *)
(* "database": a statement or transaction fails.  "crash": the call's      *)
(* process dies or its context is cancelled between two steps.             *)
Fault == {"refused", "lost", "database", "crash"}

ASSUME ConstantsAssumption ==
  /\ Legacy \subseteq Requests
  /\ Unmapped \subseteq Requests
  /\ None \notin Requests \cup Payloads
  /\ Payloads \cap (ApprovalAction \cup HistoryAction \cup {"detail", "webhook"}) = {}
  /\ FinalOrder \in Nat \ {0}
  /\ AnswerSteps \subseteq BOOLEAN /\ AnswerSteps # {}
  /\ Operations \subseteq Operation
  /\ Faults \subseteq Fault

VARIABLES
  requests,   \* asset_requests, a row per request
  chain,      \* request_approval_steps, the cached approval chain
  history,    \* request_history, as the set of entries written
  engine,     \* the Approval Engine's own requests (external)
  calls       \* the call each worker is serving

vars == <<requests, chain, history, engine, calls>>

Row ==
  [status : RequestStatus,
   current_step : Nat,
   current_step_name : 0 .. NSteps,
   fulfillment_step : FulfillmentStep,
   fulfillment_data : Payloads \cup {None},
   approval_request_id : BOOLEAN,       \* the engine's id is recorded
   approval_status : ApprovalStatus]

(* The row of a request nobody has created, and the row of one approved    *)
(* before approval started the fulfillment at Processing.                  *)
NoRow ==
  [status |-> Absent, current_step |-> 0, current_step_name |-> 0,
   fulfillment_step |-> Unset, fulfillment_data |-> None,
   approval_request_id |-> FALSE, approval_status |-> ""]

LegacyRow ==
  [NoRow EXCEPT
     !.status = "APPROVED",
     !.current_step = FinalOrder,
     !.current_step_name = CurrentStepName([order |-> FinalOrder, steps |-> TRUE]),
     !.approval_request_id = TRUE,
     !.approval_status = "approved"]

(* An engine request: no status before it is registered.                   *)
EngineRequest == [status : EngineStatus \cup {""}, order : Nat]
Answer == [status : EngineStatus, order : Nat, steps : BOOLEAN]
NoAnswer == [status |-> "pending", order |-> 0, steps |-> FALSE]

Location ==
  {"idle", "register", "markPending", "saveRef", "syncChain", "nextRetry",
   "detail", "readHistory", "refresh", "mirror", "mirrorChain",
   "decide", "record", "decisionChain", "save", "advance", "log"}

Argument ==
  ApprovalAction \cup HistoryAction \cup {"detail", "webhook", None} \cup Payloads

Call ==
  [at : Location,
   id : Requests \cup {None},
   arg : Argument,                \* the action, the payload or the label to log
   seen : Row,                    \* the row as this call read it
   revised : BOOLEAN,             \* the history it read has a revision
   answer : Answer,               \* what the engine last answered it
   backlog : SUBSET Requests]     \* what a retry run still has to do

Idle ==
  [at |-> "idle", id |-> None, arg |-> None, seen |-> NoRow,
   revised |-> FALSE, answer |-> NoAnswer, backlog |-> {}]

TypeOK ==
  /\ requests \in [Requests -> Row]
  /\ chain \in [Requests -> [Steps -> StepStatus] \cup {<<>>}]
  /\ history \in [Requests -> SUBSET HistoryAction]
  /\ engine \in [Requests -> EngineRequest]
  /\ calls \in [Workers -> Call]

Init ==
  /\ requests = [r \in Requests |-> IF r \in Legacy THEN LegacyRow ELSE NoRow]
  /\ chain = [r \in Requests |-> <<>>]
  /\ history = [r \in Requests |-> {}]
  /\ engine = [r \in Requests |->
                 IF r \in Legacy THEN [status |-> "approved", order |-> FinalOrder]
                 ELSE [status |-> "", order |-> 0]]
  /\ calls = [w \in Workers |-> Idle]

At(w, location) == calls[w].at = location
Continue(w, call) == calls' = [calls EXCEPT ![w] = call]
Goto(w, location) == Continue(w, [calls[w] EXCEPT !.at = location])
Return(w) == Continue(w, Idle)
Begin(w, operation, call) ==
  /\ operation \in Operations
  /\ At(w, "idle")
  /\ Continue(w, call)

CallOn(r, location, arg) == [Idle EXCEPT !.at = location, !.id = r, !.arg = arg]

---------------------------------------------------------------------------
(* The statements of the repository.                                       *)

SetApprovalEngineRef(r, answer) ==
  requests' = [requests EXCEPT
    ![r].approval_request_id = TRUE,
    ![r].approval_status = answer.status,
    ![r].current_step_name = CurrentStepName(answer)]

(* The mutant marks the request as if the engine were already deciding it. *)
SetApprovalSyncPendingMutant(r) ==
  requests' = [requests EXCEPT ![r].approval_status = "pending"]
SetApprovalSyncPending(r) ==
  requests' = [requests EXCEPT ![r].approval_status = ApprovalSyncPending]

(* An approved request starts its fulfillment at Processing; one that has  *)
(* started keeps its stage.  The mutant restarts it.                       *)
StageOnApprovalMutant(step) == 0
StageOnApproval(step) == Coalesce(step)

SetApprovalDecisionResult(r, answer) ==
  LET status == LocalStatusForEngineStatus(answer.status)
      row == requests[r]
  IN requests' = [requests EXCEPT ![r] =
       [row EXCEPT
          !.status = status,
          !.current_step = answer.order,
          !.approval_status = answer.status,
          !.current_step_name = CurrentStepName(answer),
          !.fulfillment_step = IF status = "APPROVED"
                               THEN StageOnApproval(row.fulfillment_step)
                               ELSE row.fulfillment_step]]

(* The WHERE clause of saveFulfillmentDataSQL.  One mutant trusts the check *)
(* the service made on the row it read earlier; the other forgets that an  *)
(* approved request may be past Processing.                                *)
TakesFulfillmentDataMutant(row) == row.status # Absent
TakesFulfillmentDataAnyStage(row) == row.status \in {"APPROVED", "FULFILLMENT"}
TakesFulfillmentData(row) ==
  \/ row.status = "APPROVED" /\ Coalesce(row.fulfillment_step) = 0
  \/ row.status = "FULFILLMENT" /\ row.fulfillment_step = 0

RecordFulfillmentData(r, payload) ==
  requests' = [requests EXCEPT
    ![r].fulfillment_data = payload,
    ![r].fulfillment_step = 1,
    ![r].status = "FULFILLMENT"]

(* The WHERE clause of advanceFulfillmentSQL; the mutant advances any row. *)
AdvancesMutant(row) == row.status # Absent
Advances(row) == row.status = "FULFILLMENT" /\ row.fulfillment_step \in {1, 2}

AdvanceStage(r) ==
  LET step == requests[r].fulfillment_step + 1
  IN requests' = [requests EXCEPT
       ![r].fulfillment_step = step,
       ![r].status = IF step >= 3 THEN "COMPLETED" ELSE "FULFILLMENT"]

SaveApprovalSteps(r, answer, revised) ==
  chain' = [chain EXCEPT ![r] = MapEngineStepsToItems(answer, revised)]

AddHistory(r, action) == history' = [history EXCEPT ![r] = @ \cup {action}]

---------------------------------------------------------------------------
(* The Approval Engine, from how the service uses it: registering is       *)
(* idempotent per request, a decision acts on the step that is current,    *)
(* and a request that is approved or rejected is decided for good.         *)

Registered(e) == e.status # ""
Registration(e) == IF Registered(e) THEN e ELSE [status |-> "pending", order |-> 1]

(* A step approved by one of several assignees stays current; the last     *)
(* step approves the request.                                              *)
Decided(e, decision) ==
  IF decision = "rejected" THEN {[e EXCEPT !.status = "rejected"]}
  ELSE {e, IF e.order < NSteps THEN [e EXCEPT !.order = @ + 1]
           ELSE [status |-> "approved", order |-> FinalOrder]}

Answers(e) ==
  {[status |-> e.status, order |-> e.order, steps |-> steps] : steps \in AnswerSteps}

(* An approver decides in the engine's own inbox.                          *)
InboxDecision(r) ==
  /\ engine[r].status = "pending"
  /\ \E decision \in {"approved", "rejected"} :
       \E e \in Decided(engine[r], decision) : engine' = [engine EXCEPT ![r] = e]
  /\ UNCHANGED <<requests, chain, history, calls>>

---------------------------------------------------------------------------
(* Create, and the registration that Create and the retry share.           *)

(* repo.Create of a valid input: the row appears as a whole.               *)
Create(w, r) ==
  /\ requests[r].status = Absent
  /\ Begin(w, "create", CallOn(r, "register", None))
  /\ requests' = [requests EXCEPT ![r].status = "WAITING_APPROVAL"]
  /\ UNCHANGED <<chain, history, engine>>

(* syncToApprovalEngine's engine call, answered.                           *)
RegisterAnswered(w) ==
  LET r == calls[w].id IN
  /\ At(w, "register")
  /\ r \notin Unmapped
  /\ engine' = [engine EXCEPT ![r] = Registration(@)]
  /\ \E answer \in Answers(engine'[r]) :
       Continue(w, [calls[w] EXCEPT !.at = "saveRef", !.answer = answer])
  /\ UNCHANGED <<requests, chain, history>>

(* No doc_type, or the call failed, with or without effect on the engine.  *)
RegisterFailed(w) ==
  LET r == calls[w].id IN
  /\ At(w, "register")
  /\ \/ /\ r \in Unmapped \/ "refused" \in Faults
        /\ UNCHANGED engine
     \/ /\ r \notin Unmapped /\ "lost" \in Faults
        /\ engine' = [engine EXCEPT ![r] = Registration(@)]
  /\ Goto(w, "markPending")
  /\ UNCHANGED <<requests, chain, history>>

MarkSyncPending(w) ==
  /\ At(w, "markPending")
  /\ \/ SetApprovalSyncPending(calls[w].id)
     \/ "database" \in Faults /\ UNCHANGED requests
  /\ Goto(w, "nextRetry")
  /\ UNCHANGED <<chain, history, engine>>

SaveEngineRef(w) ==
  LET call == calls[w] IN
  /\ At(w, "saveRef")
  /\ \/ SetApprovalEngineRef(call.id, call.answer)
     \/ "database" \in Faults /\ UNCHANGED requests
  /\ Continue(w, [call EXCEPT !.at = IF call.answer.steps THEN "syncChain" ELSE "log",
                              !.arg = "Submitted"])
  /\ UNCHANGED <<chain, history, engine>>

(* RetryPendingApprovalSync: the rows are listed once and then retried one *)
(* by one, whatever happens to them meanwhile.                             *)
(* The mutant looks for requests nothing has been recorded of.              *)
ListPendingMutant ==
  {r \in Requests :
     requests[r].status = "WAITING_APPROVAL" /\ requests[r].approval_status = ""}
ListPendingApprovalSync ==
  {r \in Requests : requests[r].approval_status = ApprovalSyncPending}

Retry(w) ==
  /\ ListPendingApprovalSync # {}
  /\ Begin(w, "retry",
           [Idle EXCEPT !.at = "nextRetry", !.backlog = ListPendingApprovalSync])
  /\ UNCHANGED <<requests, chain, history, engine>>

(* The next listed row: its requester is looked up, and the row is skipped *)
(* when that fails.  A Create, and a retry with nothing left, return.      *)
RetryNext(w) ==
  LET backlog == calls[w].backlog IN
  /\ At(w, "nextRetry")
  /\ IF backlog = {} THEN Return(w)
     ELSE \E r \in backlog :
            \/ Continue(w, [CallOn(r, "register", None) EXCEPT !.backlog = backlog \ {r}])
            \/ /\ "database" \in Faults
               /\ Continue(w, [Idle EXCEPT !.at = "nextRetry", !.backlog = backlog \ {r}])
  /\ UNCHANGED <<requests, chain, history, engine>>

---------------------------------------------------------------------------
(* Detail and the webhook: refresh from the engine and mirror its state.   *)

Detail(w, r) ==
  /\ requests[r].status # Absent
  /\ Begin(w, "detail", CallOn(r, "detail", "detail"))
  /\ UNCHANGED <<requests, chain, history, engine>>

(* A delivery about r: at any time once the engine knows r, any number of  *)
(* times, in any order; it says only which request changed.                *)
Webhook(w, r) ==
  /\ Registered(engine[r])
  /\ Begin(w, "webhook", CallOn(r, "detail", "webhook"))
  /\ UNCHANGED <<requests, chain, history, engine>>

(* Whether the row, as read, is worth asking the engine about.  The mutant *)
(* refreshes requests whose fulfillment has started.                       *)
NeedsRefreshMutant(row) == row.approval_request_id
NeedsRefresh(row) == row.approval_request_id /\ row.status \notin PastApproval

ReadRow(w) ==
  LET row == requests[calls[w].id] IN
  /\ At(w, "detail")
  /\ IF NeedsRefresh(row)
     THEN Continue(w, [calls[w] EXCEPT !.at = "readHistory", !.seen = row])
     ELSE Return(w)
  /\ UNCHANGED <<requests, chain, history, engine>>

(* GetHistory, for one question: was a revision requested?  A history that *)
(* cannot be read is taken to be empty.  The mutant never asks, as the     *)
(* registration does not.                                                  *)
ReadHistoryMutant(w) ==
  /\ At(w, "readHistory")
  /\ Goto(w, "refresh")
  /\ UNCHANGED <<requests, chain, history, engine>>

ReadHistory(w) ==
  /\ At(w, "readHistory")
  /\ \/ Continue(w, [calls[w] EXCEPT
            !.at = "refresh",
            !.revised = "Requested revision" \in history[calls[w].id]])
     \/ "database" \in Faults /\ Goto(w, "refresh")
  /\ UNCHANGED <<requests, chain, history, engine>>

(* Whether mirroring the answer would change the row, as read.  The mutant *)
(* looks at the current step only, which an approval need not move.        *)
DiffersMutant(row, answer) == row.current_step # answer.order
Differs(row, answer) ==
  \/ row.status # LocalStatusForEngineStatus(answer.status)
  \/ row.approval_status # answer.status
  \/ row.current_step # answer.order
  \/ row.current_step_name # CurrentStepName(answer)

(* GetRequest, answered: Detail makes nothing of an answer without steps.  *)
RefreshAnswered(w) ==
  LET call == calls[w]
      Mirror(answer) ==
        [call EXCEPT !.at = IF Differs(call.seen, answer) THEN "mirror" ELSE "mirrorChain",
                     !.seen = NoRow, !.answer = answer]
  IN
  /\ At(w, "refresh")
  /\ \E answer \in Answers(engine[call.id]) :
       CASE ~answer.steps /\ call.arg = "detail" -> Return(w)
         [] ~answer.steps /\ ~Differs(call.seen, answer) -> Return(w)
         [] OTHER -> Continue(w, Mirror(answer))
  /\ UNCHANGED <<requests, chain, history, engine>>

RefreshFailed(w) ==
  /\ At(w, "refresh")
  /\ Faults \cap {"refused", "lost"} # {}
  /\ Return(w)
  /\ UNCHANGED <<requests, chain, history, engine>>

MirrorStatus(w) ==
  LET call == calls[w] IN
  /\ At(w, "mirror")
  /\ SetApprovalDecisionResult(call.id, call.answer)
  /\ IF call.answer.steps THEN Goto(w, "mirrorChain") ELSE Return(w)
  /\ UNCHANGED <<chain, history, engine>>

(* A status that cannot be mirrored ends the refresh, one that cannot be   *)
(* recorded ends the approval action: the engine keeps the decision.       *)
StatusWriteFailed(w) ==
  /\ At(w, "mirror") \/ At(w, "record")
  /\ "database" \in Faults
  /\ Return(w)
  /\ UNCHANGED <<requests, chain, history, engine>>

---------------------------------------------------------------------------
(* The chain and the history, written after the status by the operations   *)
(* above and below.  A failure to write them is ignored.                   *)

ChainWrite == {"mirrorChain", "syncChain", "decisionChain"}

AfterChain(call) ==
  CASE call.at = "mirrorChain" -> Idle
    [] call.at = "syncChain" -> [call EXCEPT !.at = "log"]
    [] call.at = "decisionChain" -> [call EXCEPT !.at = "log", !.arg = ActionLabel(@)]

(* SaveApprovalSteps deletes the old chain and inserts the new one in a    *)
(* transaction.  Of transactions on one request that overlap, the first to *)
(* commit may make the others fail on UNIQUE (request_id, step_order): a   *)
(* DELETE does not see the rows it inserted.                               *)
Overlapping(w) ==
  {v \in Workers \ {w} : calls[v].id = calls[w].id /\ calls[v].at \in ChainWrite}

SaveChain(w) ==
  LET call == calls[w] IN
  /\ call.at \in ChainWrite
  /\ \/ /\ SaveApprovalSteps(call.id, call.answer,
             CASE call.at = "mirrorChain" -> call.revised
               [] call.at = "syncChain" -> FALSE
               [] call.at = "decisionChain" -> call.arg = "revision")
        /\ \E failed \in SUBSET Overlapping(w) :
             calls' = [v \in Workers |->
                         IF v \in failed \cup {w} THEN AfterChain(calls[v]) ELSE calls[v]]
     \/ /\ "database" \in Faults
        /\ UNCHANGED chain
        /\ Continue(w, AfterChain(call))
  /\ UNCHANGED <<requests, history, engine>>

(* A registration goes on to the next pending row, any other operation to  *)
(* the Detail it answers with.                                             *)
LogEvent(w) ==
  LET call == calls[w] IN
  /\ At(w, "log")
  /\ \/ AddHistory(call.id, call.arg)
     \/ "database" \in Faults /\ UNCHANGED history
  /\ IF call.arg = "Submitted"
     THEN Continue(w, [Idle EXCEPT !.at = "nextRetry", !.backlog = call.backlog])
     ELSE Continue(w, CallOn(call.id, "detail", "detail"))
  /\ UNCHANGED <<requests, chain, engine>>

---------------------------------------------------------------------------
(* ApprovalAction.                                                         *)

Decide(w, r, action) ==
  /\ requests[r].approval_request_id
  /\ Begin(w, "decide", CallOn(r, "decide", action))
  /\ UNCHANGED <<requests, chain, history, engine>>

DecideAnswered(w) ==
  LET call == calls[w]
      r == call.id IN
  /\ At(w, "decide")
  /\ engine[r].status = "pending"
  /\ \E e \in Decided(engine[r], ApprovalEngineDecision(call.arg)) :
       /\ engine' = [engine EXCEPT ![r] = e]
       /\ \E answer \in Answers(e) :
            Continue(w, [call EXCEPT !.at = "record", !.answer = answer])
  /\ UNCHANGED <<requests, chain, history>>

(* The engine refuses a decision on a decided request; a decision whose    *)
(* answer is lost was made all the same.                                   *)
DecideFailed(w) ==
  LET call == calls[w]
      r == call.id IN
  /\ At(w, "decide")
  /\ \/ /\ "refused" \in Faults \/ engine[r].status # "pending"
        /\ UNCHANGED engine
     \/ /\ "lost" \in Faults /\ engine[r].status = "pending"
        /\ \E e \in Decided(engine[r], ApprovalEngineDecision(call.arg)) :
             engine' = [engine EXCEPT ![r] = e]
  /\ Return(w)
  /\ UNCHANGED <<requests, chain, history>>

RecordDecision(w) ==
  LET call == calls[w] IN
  /\ At(w, "record")
  /\ SetApprovalDecisionResult(call.id, call.answer)
  /\ Continue(w, IF call.answer.steps THEN [call EXCEPT !.at = "decisionChain"]
                 ELSE [call EXCEPT !.at = "log", !.arg = ActionLabel(@)])
  /\ UNCHANGED <<chain, history, engine>>

---------------------------------------------------------------------------
(* SaveFulfillmentData and AdvanceFulfillment.                             *)

Save(w, r, payload) ==
  /\ ReadyForFulfillmentData(requests[r])
  /\ Begin(w, "save", CallOn(r, "save", payload))
  /\ UNCHANGED <<requests, chain, history, engine>>

SaveFulfillmentData(w) ==
  LET call == calls[w]
      r == call.id IN
  /\ At(w, "save")
  /\ IF TakesFulfillmentData(requests[r])
     THEN /\ RecordFulfillmentData(r, call.arg)
          /\ Continue(w, [call EXCEPT !.at = "log", !.arg = "Shipped"])
     ELSE UNCHANGED requests /\ Return(w)
  /\ UNCHANGED <<chain, history, engine>>

Advance(w, r) ==
  /\ requests[r].status # Absent
  /\ Begin(w, "advance", CallOn(r, "advance", None))
  /\ UNCHANGED <<requests, chain, history, engine>>

AdvanceFulfillment(w) ==
  LET call == calls[w]
      r == call.id IN
  /\ At(w, "advance")
  /\ IF Advances(requests[r])
     THEN /\ AdvanceStage(r)
          /\ Continue(w, [call EXCEPT
               !.at = "log",
               !.arg = IF requests[r].fulfillment_step + 1 >= 3
                       THEN "Completed" ELSE "Delivered"])
     ELSE UNCHANGED requests /\ Return(w)
  /\ UNCHANGED <<chain, history, engine>>

FulfillmentWriteFailed(w) ==
  /\ At(w, "save") \/ At(w, "advance")
  /\ "database" \in Faults
  /\ Return(w)
  /\ UNCHANGED <<requests, chain, history, engine>>

---------------------------------------------------------------------------
Crash(w) ==
  /\ "crash" \in Faults
  /\ ~At(w, "idle")
  /\ Return(w)
  /\ UNCHANGED <<requests, chain, history, engine>>

Start(w) ==
  \/ Retry(w)
  \/ \E r \in Requests :
       \/ Create(w, r)
       \/ Detail(w, r)
       \/ Webhook(w, r)
       \/ \E action \in ApprovalAction : Decide(w, r, action)
       \/ \E payload \in Payloads : Save(w, r, payload)
       \/ Advance(w, r)

Step(w) ==
  \/ RegisterAnswered(w) \/ RegisterFailed(w)
  \/ MarkSyncPending(w) \/ SaveEngineRef(w) \/ RetryNext(w)
  \/ ReadRow(w) \/ ReadHistory(w)
  \/ RefreshAnswered(w) \/ RefreshFailed(w)
  \/ MirrorStatus(w) \/ StatusWriteFailed(w)
  \/ SaveChain(w) \/ LogEvent(w)
  \/ DecideAnswered(w) \/ DecideFailed(w) \/ RecordDecision(w)
  \/ SaveFulfillmentData(w) \/ AdvanceFulfillment(w) \/ FulfillmentWriteFailed(w)

Next ==
  \/ \E w \in Workers : Start(w) \/ Step(w) \/ Crash(w)
  \/ \E r \in Requests : InboxDecision(r)

Spec == Init /\ [][Next]_vars
=============================================================================
