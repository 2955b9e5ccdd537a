------------------------- MODULE RequestQueueProofs -------------------------
(***************************************************************************)
(* Proofs that a request the Approval Engine may lack is never forgotten,  *)
(* for any number of requests, calls and retry runs, as long as statements *)
(* do not fail and processes do not die between two of them.               *)
(***************************************************************************)
EXTENDS AssetRequestsProofs

(* No statement fails and no process dies between two of them: whatever    *)
(* happens to the calls of the engine.                                     *)
Reliable == Faults \cap {"database", "crash"} = {}

RegisteringAt == {"register", "saveRef", "markPending"}

(* Where a call is about to ask the engine of a request, or to write down  *)
(* what it answered.                                                       *)
MirroringAt == {"readHistory", "refresh", "mirror", "decide", "record"}

(* The engine is asked only of requests whose id is recorded, so that      *)
(* writing its answer down takes no request out of the retry queue.        *)
MirroredAreSynced ==
  \A w \in Workers :
    calls[w].at \in MirroringAt => requests[calls[w].id].approval_request_id

QueueInv == Typing /\ MirroredAreSynced /\ UnsyncedIsQueued

---------------------------------------------------------------------------
(* A call that goes on as call leaves every request accounted for: synced, *)
(* queued, being registered by it, or as before and none of its business.  *)
AccountsFor(w, call, r) ==
  \/ requests'[r].approval_request_id
  \/ requests'[r].approval_status = ApprovalSyncPending
  \/ call.id = r /\ call.at \in RegisteringAt
  \/ /\ ~(calls[w].id = r /\ calls[w].at \in RegisteringAt)
     /\ requests'[r].approval_status = requests[r].approval_status
     /\ requests[r].status = Absent => requests'[r].status = Absent

Accounts(w, call) ==
  /\ Continue(w, call)
  /\ call.at \in MirroringAt => requests'[call.id].approval_request_id
  /\ \A r \in Requests :
       /\ requests[r].approval_request_id => requests'[r].approval_request_id
       /\ AccountsFor(w, call, r)

(* Such a step keeps what the queue is for.                                *)
LEMMA QueueIsKept ==
  ASSUME QueueInv, Typing', NEW w \in Workers, NEW call, Accounts(w, call)
  PROVE  MirroredAreSynced' /\ UnsyncedIsQueued'
<1>1. calls'[w] = call /\ \A v \in Workers \ {w} : calls'[v] = calls[v]
  BY DEF Accounts, Continue, QueueInv, Typing, TypeOK
<1>2. MirroredAreSynced'
  <2>1. ASSUME NEW v \in Workers, v # w, calls[v].at \in MirroringAt
        PROVE  requests'[calls[v].id].approval_request_id
    <3>1. calls[v].id \in Requests
      BY <2>1, CallTyped DEF QueueInv, WellFormed, MirroringAt
    <3>2. QED
      BY <2>1, <3>1 DEF QueueInv, MirroredAreSynced, Accounts
  <2>2. QED
    BY <1>1, <2>1 DEF MirroredAreSynced, Accounts
<1>3. ASSUME NEW r \in Requests, requests'[r].status # Absent,
             ~requests'[r].approval_request_id,
             requests'[r].approval_status # ApprovalSyncPending
      PROVE  Registering(r)'
  <2>1. AccountsFor(w, call, r) /\ ~requests[r].approval_request_id
    BY <1>3 DEF Accounts
  <2>2. CASE call.id = r /\ call.at \in RegisteringAt
    BY <1>1, <2>2 DEF Registering, RegisteringAt
  <2>3. CASE /\ ~(calls[w].id = r /\ calls[w].at \in RegisteringAt)
             /\ requests'[r].approval_status = requests[r].approval_status
             /\ requests[r].status = Absent => requests'[r].status = Absent
    <3>1. Registering(r)
      BY <1>3, <2>1, <2>3 DEF QueueInv, UnsyncedIsQueued
    <3>2. PICK v \in Workers : calls[v].id = r /\ calls[v].at \in RegisteringAt
      BY <3>1 DEF Registering, RegisteringAt
    <3>3. calls'[v] = calls[v]
      BY <1>1, <2>3, <3>2
    <3>4. QED
      BY <3>2, <3>3 DEF Registering, RegisteringAt
  <2>4. QED
    BY <1>3, <2>1, <2>2, <2>3 DEF AccountsFor
<1>4. QED
  BY <1>2, <1>3 DEF UnsyncedIsQueued

(* A call that writes no row, and is not registering or goes on with it.   *)
LEMMA RowsLeftAlone ==
  ASSUME NEW w \in Workers, NEW call, Continue(w, call), UNCHANGED requests,
         calls[w].at \in RegisteringAt
           => call.id = calls[w].id /\ call.at \in RegisteringAt,
         call.at \in MirroringAt => requests[call.id].approval_request_id
  PROVE  Accounts(w, call)
BY DEF Accounts, AccountsFor

(* One that writes a row, and was not registering.                         *)
LEMMA RowWritten ==
  ASSUME NEW w \in Workers, NEW call, Continue(w, call), NEW r \in Requests,
         \A s \in Requests \ {r} : requests'[s] = requests[s],
         requests'[r].approval_request_id = requests[r].approval_request_id,
         \/ requests'[r].approval_request_id
         \/ call.id = r /\ call.at \in RegisteringAt
         \/ /\ requests'[r].approval_status = requests[r].approval_status
            /\ requests[r].status # Absent,
         calls[w].at \notin RegisteringAt, call.at \notin MirroringAt
  PROVE  Accounts(w, call)
BY DEF Accounts, AccountsFor

---------------------------------------------------------------------------
(* A call that starts.                                                     *)
LEMMA StartAccounts ==
  ASSUME Typing, NEW w \in Workers, Start(w)
  PROVE  \E call : Accounts(w, call)
<1>1. calls[w].at \notin RegisteringAt
  BY DEF Start, Retry, Create, Detail, Webhook, Decide, Save, Advance, Begin, At,
         RegisteringAt
<1>2. ASSUME NEW r \in Requests, Create(w, r)
      PROVE  \E call : Accounts(w, call)
  <2> DEFINE call == CallOn(r, "register", None)
  <2>1. Continue(w, call) /\ call.id = r /\ call.at = "register"
    BY <1>2 DEF Create, Begin, CallOn, Idle
  <2>2. /\ \A s \in Requests \ {r} : requests'[s] = requests[s]
        /\ requests'[r].approval_request_id = requests[r].approval_request_id
    BY <1>2 DEF Create, Typing, TypeOK, Row
  <2> HIDE DEF call
  <2>3. QED
    BY <1>1, <2>1, <2>2, RowWritten DEF RegisteringAt, MirroringAt
<1>3. CASE Retry(w)
  <2> DEFINE call == [Idle EXCEPT !.at = "nextRetry", !.backlog = ListPendingApprovalSync]
  <2>1. Continue(w, call) /\ UNCHANGED requests /\ call.at = "nextRetry"
    BY <1>3 DEF Retry, Begin, Idle
  <2> HIDE DEF call
  <2>2. QED
    BY <1>1, <2>1, RowsLeftAlone DEF MirroringAt
<1>4. ASSUME NEW r \in Requests, NEW at, NEW arg, Continue(w, CallOn(r, at, arg)),
             UNCHANGED requests, at \in MirroringAt => requests[r].approval_request_id
      PROVE  \E call : Accounts(w, call)
  <2> DEFINE call == CallOn(r, at, arg)
  <2>1. Continue(w, call) /\ call.id = r /\ call.at = at
    BY <1>4 DEF CallOn, Idle
  <2> HIDE DEF call
  <2>2. QED
    BY <1>1, <1>4, <2>1, RowsLeftAlone
<1>5. ASSUME NEW r \in Requests,
             \/ Detail(w, r) \/ Webhook(w, r) \/ Advance(w, r)
             \/ \E action \in ApprovalAction : Decide(w, r, action)
             \/ \E payload \in Payloads : Save(w, r, payload)
      PROVE  \E call : Accounts(w, call)
  BY <1>4, <1>5 DEF Detail, Webhook, Decide, Save, Advance, Begin, MirroringAt
<1>6. QED
  BY <1>2, <1>3, <1>5 DEF Start

(* A call that registers with the engine, until the outcome is recorded.   *)
LEMMA RegistrationAccounts ==
  ASSUME Typing, Reliable, NEW w \in Workers,
         RegisterAnswered(w) \/ RegisterFailed(w) \/ MarkSyncPending(w) \/ SaveEngineRef(w)
  PROVE  \E call : Accounts(w, call)
<1> DEFINE old == calls[w]
           r == old.id
<1>1. old \in Call /\ r \in Requests /\ r = old.id
  BY CallTyped
  DEF RegisterAnswered, RegisterFailed, MarkSyncPending, SaveEngineRef, At, WellFormed
<1>2. ASSUME NEW call, Continue(w, call), UNCHANGED requests, call.id = r,
             call.at \in RegisteringAt
      PROVE  Accounts(w, call)
  BY <1>2, RowsLeftAlone DEF RegisteringAt, MirroringAt
<1>3. CASE RegisterAnswered(w)
  <2>1. PICK answer : Continue(w, [old EXCEPT !.at = "saveRef", !.answer = answer])
    BY <1>3 DEF RegisterAnswered
  <2> DEFINE call == [old EXCEPT !.at = "saveRef", !.answer = answer]
  <2>2. call.at = "saveRef" /\ call.id = r /\ Continue(w, call) /\ UNCHANGED requests
    BY <1>1, <1>3, <2>1 DEF Call, RegisterAnswered
  <2> HIDE DEF call
  <2>3. QED
    BY <1>2, <2>2 DEF RegisteringAt
<1>4. CASE RegisterFailed(w)
  <2> DEFINE call == [old EXCEPT !.at = "markPending"]
  <2>1. call.at = "markPending" /\ call.id = r /\ Continue(w, call) /\ UNCHANGED requests
    BY <1>1, <1>4 DEF Call, RegisterFailed, Goto
  <2> HIDE DEF call
  <2>2. QED
    BY <1>2, <2>1 DEF RegisteringAt
<1>5. ASSUME NEW call, Continue(w, call), call.at \notin MirroringAt,
             \A s \in Requests \ {r} : requests'[s] = requests[s],
             requests[r].approval_request_id => requests'[r].approval_request_id,
             \/ requests'[r].approval_request_id
             \/ requests'[r].approval_status = ApprovalSyncPending
      PROVE  Accounts(w, call)
  BY <1>5 DEF Accounts, AccountsFor
<1>6. CASE MarkSyncPending(w)
  <2> DEFINE call == [old EXCEPT !.at = "nextRetry"]
  <2>1. call.at = "nextRetry" /\ Continue(w, call) /\ SetApprovalSyncPending(r)
    BY <1>1, <1>6 DEF Call, MarkSyncPending, Goto, Reliable
  <2> HIDE DEF call
  <2>2. /\ \A s \in Requests \ {r} : requests'[s] = requests[s]
        /\ requests'[r].approval_request_id = requests[r].approval_request_id
        /\ requests'[r].approval_status = ApprovalSyncPending
    BY <1>1, <2>1 DEF SetApprovalSyncPending, Typing, TypeOK, Row
  <2>3. QED
    BY <1>5, <2>1, <2>2 DEF MirroringAt
<1>7. CASE SaveEngineRef(w)
  <2> DEFINE at == IF old.answer.steps THEN "syncChain" ELSE "log"
             call == [old EXCEPT !.at = at, !.arg = "Submitted"]
  <2>1. call.at \in {"syncChain", "log"} /\ Continue(w, call)
        /\ SetApprovalEngineRef(r, old.answer)
    BY <1>1, <1>7 DEF Call, SaveEngineRef, Reliable
  <2> HIDE DEF call
  <2>2. /\ \A s \in Requests \ {r} : requests'[s] = requests[s]
        /\ requests'[r].approval_request_id
    BY <1>1, <2>1 DEF SetApprovalEngineRef, Typing, TypeOK, Row
  <2>3. QED
    BY <1>5, <2>1, <2>2 DEF MirroringAt
<1>8. QED
  BY <1>3, <1>4, <1>6, <1>7

(* A call that asks the engine of a request, and writes its answer down.   *)
LEMMA MirroringAccounts ==
  ASSUME Typing, Reliable, MirroredAreSynced, NEW w \in Workers,
         \/ ReadRow(w) \/ ReadHistory(w) \/ RefreshAnswered(w) \/ RefreshFailed(w)
         \/ MirrorStatus(w) \/ StatusWriteFailed(w)
         \/ DecideAnswered(w) \/ DecideFailed(w) \/ RecordDecision(w)
  PROVE  \E call : Accounts(w, call)
<1> DEFINE old == calls[w]
           r == old.id
<1>1. old \in Call /\ r \in Requests /\ old.at \notin RegisteringAt
  BY CallTyped
  DEF ReadRow, ReadHistory, RefreshAnswered, RefreshFailed, MirrorStatus,
      StatusWriteFailed, DecideAnswered, DecideFailed, RecordDecision, At, WellFormed,
      RegisteringAt
<1>2. old.at \in MirroringAt => requests[r].approval_request_id
  BY DEF MirroredAreSynced
<1>3. ASSUME NEW call, Continue(w, call), UNCHANGED requests,
             call.at \in MirroringAt => call.id = r /\ requests[r].approval_request_id
      PROVE  Accounts(w, call)
  BY <1>1, <1>3, RowsLeftAlone
<1>4. CASE Return(w) /\ UNCHANGED requests
  <2>1. Idle.at \notin MirroringAt
    BY DEF Idle, MirroringAt
  <2>2. QED
    BY <1>3, <1>4, <2>1 DEF Return
<1>5. CASE ReadRow(w)
  <2> DEFINE call == [old EXCEPT !.at = "readHistory", !.seen = requests[r]]
  <2>1. call.id = r
    BY <1>1 DEF Call
  <2>2. (Continue(w, call) /\ requests[r].approval_request_id) \/ Return(w)
    BY <1>5 DEF ReadRow, NeedsRefresh
  <2>3. UNCHANGED requests
    BY <1>5 DEF ReadRow
  <2> HIDE DEF call
  <2>4. QED
    BY <1>3, <1>4, <2>1, <2>2, <2>3
<1>6. CASE ReadHistory(w)
  <2> DEFINE revised == "Requested revision" \in history[r]
             call == [old EXCEPT !.at = "refresh", !.revised = revised]
  <2>1. Continue(w, call) /\ UNCHANGED requests
    BY <1>6 DEF ReadHistory, Reliable
  <2>2. call.id = r
    BY <1>1 DEF Call
  <2>3. requests[r].approval_request_id
    BY <1>2, <1>6 DEF ReadHistory, At, MirroringAt
  <2> HIDE DEF call
  <2>4. QED
    BY <1>3, <2>1, <2>2, <2>3
<1>7. CASE RefreshAnswered(w)
  <2>1. requests[r].approval_request_id /\ UNCHANGED requests
    BY <1>2, <1>7 DEF RefreshAnswered, At, MirroringAt
  <2>2. ASSUME NEW answer, NEW at,
               Continue(w, [old EXCEPT !.at = at, !.seen = NoRow, !.answer = answer])
        PROVE  \E call : Accounts(w, call)
    <3> DEFINE call == [old EXCEPT !.at = at, !.seen = NoRow, !.answer = answer]
    <3>1. call.id = r /\ Continue(w, call)
      BY <1>1, <2>2 DEF Call
    <3> HIDE DEF call
    <3>2. QED
      BY <1>3, <2>1, <3>1
  <2>3. QED
    BY <1>4, <1>7, <2>1, <2>2, RefreshOutcome
<1>8. CASE RefreshFailed(w) \/ DecideFailed(w)
  BY <1>4, <1>8 DEF RefreshFailed, DecideFailed
<1>9. CASE StatusWriteFailed(w)
  BY <1>9 DEF StatusWriteFailed, Reliable
<1>10. CASE DecideAnswered(w)
  <2>1. PICK answer : Continue(w, [old EXCEPT !.at = "record", !.answer = answer])
    BY <1>10 DEF DecideAnswered
  <2> DEFINE call == [old EXCEPT !.at = "record", !.answer = answer]
  <2>2. call.id = r /\ Continue(w, call)
    BY <1>1, <2>1 DEF Call
  <2>3. UNCHANGED requests /\ requests[r].approval_request_id
    BY <1>2, <1>10 DEF DecideAnswered, At, MirroringAt
  <2> HIDE DEF call
  <2>4. QED
    BY <1>3, <2>2, <2>3
<1>11. ASSUME NEW call, Continue(w, call), call.at \notin MirroringAt,
              old.at \in MirroringAt, SetApprovalDecisionResult(r, old.answer)
       PROVE  Accounts(w, call)
  <2>1. old.answer \in Answer
    BY <1>1 DEF Call
  <2>2. /\ \A s \in Requests \ {r} : requests'[s] = requests[s]
        /\ requests'[r].approval_request_id = requests[r].approval_request_id
    BY <1>1, <1>11, <2>1, DecisionResult DEF Typing
  <2>3. QED
    BY <1>1, <1>2, <1>11, <2>2, RowWritten
<1>12. CASE MirrorStatus(w)
  <2>1. PICK call \in {Idle, [old EXCEPT !.at = "mirrorChain"]} : Continue(w, call)
    BY <1>12 DEF MirrorStatus, Goto, Return
  <2>2. call.at \in {"idle", "mirrorChain"}
    BY <1>1 DEF Call, Idle
  <2>3. SetApprovalDecisionResult(r, old.answer) /\ old.at = "mirror"
    BY <1>12 DEF MirrorStatus, At
  <2>4. QED
    BY <1>11, <2>1, <2>2, <2>3 DEF MirroringAt
<1>13. CASE RecordDecision(w)
  <2>1. PICK call \in {[old EXCEPT !.at = "decisionChain"],
                       [old EXCEPT !.at = "log", !.arg = ActionLabel(old.arg)]} :
          Continue(w, call)
    BY <1>13 DEF RecordDecision
  <2>2. call.at \in {"decisionChain", "log"}
    BY <1>1 DEF Call
  <2>3. SetApprovalDecisionResult(r, old.answer) /\ old.at = "record"
    BY <1>13 DEF RecordDecision, At
  <2>4. QED
    BY <1>11, <2>1, <2>2, <2>3 DEF MirroringAt
<1>14. QED
  BY <1>5, <1>6, <1>7, <1>8, <1>9, <1>10, <1>12, <1>13

(* A retry run, the history, and the fulfillment.                          *)
LEMMA RemainingAccounts ==
  ASSUME Typing, Reliable, NEW w \in Workers,
         \/ RetryNext(w) \/ LogEvent(w)
         \/ SaveFulfillmentData(w) \/ AdvanceFulfillment(w) \/ FulfillmentWriteFailed(w)
  PROVE  \E call : Accounts(w, call)
<1> DEFINE old == calls[w]
           r == old.id
<1>1. old \in Call /\ old.at \notin RegisteringAt
  BY CallTyped
  DEF RetryNext, LogEvent, SaveFulfillmentData, AdvanceFulfillment,
      FulfillmentWriteFailed, At, RegisteringAt
<1>2. ASSUME NEW call, Continue(w, call), UNCHANGED requests, call.at \notin MirroringAt
      PROVE  Accounts(w, call)
  BY <1>1, <1>2, RowsLeftAlone
<1>3. CASE Return(w) /\ UNCHANGED requests
  BY <1>2, <1>3 DEF Return, Idle, MirroringAt
<1>4. CASE RetryNext(w)
  <2>1. UNCHANGED requests
    BY <1>4 DEF RetryNext
  <2>2. ASSUME NEW s, NEW backlog,
               Continue(w, [CallOn(s, "register", None) EXCEPT !.backlog = backlog])
        PROVE  \E call : Accounts(w, call)
    <3>1. [CallOn(s, "register", None) EXCEPT !.backlog = backlog].at \notin MirroringAt
      BY DEF CallOn, Idle, MirroringAt
    <3>2. QED
      BY <1>2, <2>1, <2>2, <3>1
  <2>3. QED
    BY <1>3, <1>4, <2>1, <2>2 DEF RetryNext, Reliable
<1>5. CASE LogEvent(w)
  <2>1. PICK call \in {[Idle EXCEPT !.at = "nextRetry", !.backlog = old.backlog],
                       CallOn(r, "detail", "detail")} : Continue(w, call)
    BY <1>5 DEF LogEvent
  <2>2. call.at \in {"nextRetry", "detail"}
    BY DEF CallOn, Idle
  <2>3. QED
    BY <1>2, <1>5, <2>1, <2>2 DEF LogEvent, MirroringAt
<1>6. CASE FulfillmentWriteFailed(w)
  BY <1>6 DEF FulfillmentWriteFailed, Reliable
<1>7. ASSUME r \in Requests, NEW label,
             Continue(w, [old EXCEPT !.at = "log", !.arg = label]),
             requests[r].status # Absent,
             \A s \in Requests \ {r} : requests'[s] = requests[s],
             requests'[r].approval_request_id = requests[r].approval_request_id,
             requests'[r].approval_status = requests[r].approval_status
      PROVE  \E call : Accounts(w, call)
  <2> DEFINE call == [old EXCEPT !.at = "log", !.arg = label]
  <2>1. Continue(w, call) /\ call.at = "log"
    BY <1>1, <1>7 DEF Call
  <2> HIDE DEF call
  <2>2. QED
    BY <1>1, <1>7, <2>1, RowWritten DEF MirroringAt
<1>8. CASE SaveFulfillmentData(w) /\ ~Return(w)
  <2>1. /\ r \in Requests /\ TakesFulfillmentData(requests[r])
        /\ RecordFulfillmentData(r, old.arg)
        /\ Continue(w, [old EXCEPT !.at = "log", !.arg = "Shipped"])
    BY <1>8, CallTyped DEF SaveFulfillmentData, At, WellFormed
  <2>2. /\ \A s \in Requests \ {r} : requests'[s] = requests[s]
        /\ requests'[r].approval_request_id = requests[r].approval_request_id
        /\ requests'[r].approval_status = requests[r].approval_status
    BY <2>1 DEF RecordFulfillmentData, Typing, TypeOK, Row
  <2>3. requests[r].status # Absent
    BY <2>1 DEF TakesFulfillmentData, Absent
  <2>4. QED
    BY <1>7, <2>1, <2>2, <2>3
<1>9. CASE AdvanceFulfillment(w) /\ ~Return(w)
  <2>1. /\ r \in Requests /\ Advances(requests[r]) /\ AdvanceStage(r)
        /\ \E label : Continue(w, [old EXCEPT !.at = "log", !.arg = label])
    BY <1>9, CallTyped DEF AdvanceFulfillment, At, WellFormed
  <2>2. /\ \A s \in Requests \ {r} : requests'[s] = requests[s]
        /\ requests'[r].approval_request_id = requests[r].approval_request_id
        /\ requests'[r].approval_status = requests[r].approval_status
    BY <2>1 DEF AdvanceStage, Typing, TypeOK, Row
  <2>3. requests[r].status # Absent
    BY <2>1 DEF Advances, Absent
  <2>4. QED
    BY <1>7, <2>1, <2>2, <2>3
<1>10. CASE (SaveFulfillmentData(w) \/ AdvanceFulfillment(w)) /\ Return(w)
  <2>1. CASE UNCHANGED requests
    BY <1>3, <1>10, <2>1
  <2>2. CASE requests' # requests
    <3>1. PICK label : Continue(w, [old EXCEPT !.at = "log", !.arg = label])
      BY <1>10, <2>2 DEF SaveFulfillmentData, AdvanceFulfillment
    <3>2. Idle = [old EXCEPT !.at = "log", !.arg = label]
      BY <1>10, <3>1 DEF Return, Continue, Typing, TypeOK
    <3>3. FALSE
      BY <1>1, <3>2 DEF Idle, Call
    <3>4. QED
      BY <3>3
  <2>3. QED
    BY <2>1, <2>2
<1>11. QED
  BY <1>4, <1>5, <1>6, <1>8, <1>9, <1>10

(* Chains are written where nothing is registered or mirrored.             *)
LEMMA ChainAccounts ==
  ASSUME QueueInv, NEW w \in Workers, SaveChain(w)
  PROVE  MirroredAreSynced' /\ UnsyncedIsQueued'
<1>1. PICK done \in SUBSET {v \in Workers : calls[v].at \in ChainWrite} :
        calls' = [v \in Workers |-> IF v \in done THEN AfterChain(calls[v]) ELSE calls[v]]
  BY SaveChainCalls DEF QueueInv
<1>2. UNCHANGED requests
  BY DEF SaveChain
<1>3. ASSUME NEW v \in done
      PROVE  AfterChain(calls[v]).at \notin MirroringAt /\ calls[v].at \notin RegisteringAt
  <2>1. calls[v] \in Call /\ calls[v].at \in ChainWrite
    BY CallTyped DEF QueueInv
  <2>2. AfterChain(calls[v]).at \in {"idle", "log"}
    BY <2>1 DEF AfterChain, ChainWrite, Idle, Call
  <2>3. QED
    BY <2>1, <2>2 DEF MirroringAt, RegisteringAt, ChainWrite
<1>4. MirroredAreSynced'
  BY <1>1, <1>2, <1>3 DEF QueueInv, MirroredAreSynced
<1>5. ASSUME NEW r, Registering(r)
      PROVE  Registering(r)'
  BY <1>1, <1>3, <1>5 DEF Registering, RegisteringAt
<1>6. QED
  BY <1>2, <1>4, <1>5 DEF QueueInv, UnsyncedIsQueued

---------------------------------------------------------------------------
(* Nothing is in the queue at first, and nothing has to be.               *)
LEMMA InitQueue == Init => QueueInv
<1> SUFFICES ASSUME Init PROVE QueueInv
  OBVIOUS
<1>1. MirroredAreSynced
  BY DEF Init, MirroredAreSynced, Idle, MirroringAt
<1>2. UnsyncedIsQueued
  <2>1. ASSUME NEW r \in Requests
        PROVE  requests[r].status = Absent \/ requests[r].approval_request_id
    BY DEF Init, NoRow, LegacyRow
  <2>2. QED
    BY <2>1 DEF UnsyncedIsQueued
<1>3. QED
  BY <1>1, <1>2, InitTyping DEF QueueInv

(* Reliable steps keep every request accounted for.                        *)
LEMMA NextQueue ==
  ASSUME QueueInv, Reliable, [Next]_vars
  PROVE  QueueInv'
<1>1. Typing'
  BY NextTyping DEF QueueInv
<1>2. CASE UNCHANGED <<calls, requests>>
  BY <1>1, <1>2 DEF QueueInv, MirroredAreSynced, UnsyncedIsQueued, Registering
<1>3. ASSUME NEW w \in Workers, Start(w) \/ Step(w), ~SaveChain(w)
      PROVE  QueueInv'
  <2>1. \E call : Accounts(w, call)
    BY <1>3, StartAccounts, RegistrationAccounts, MirroringAccounts, RemainingAccounts
    DEF Step, QueueInv
  <2>2. QED
    BY <1>1, <2>1, QueueIsKept DEF QueueInv
<1>4. ASSUME NEW w \in Workers, SaveChain(w)
      PROVE  QueueInv'
  BY <1>1, <1>4, ChainAccounts DEF QueueInv
<1>5. ASSUME NEW w \in Workers, Crash(w)
      PROVE  FALSE
  BY <1>5 DEF Crash, Reliable
<1>6. QED
  BY <1>2, <1>3, <1>4, <1>5 DEF Next, vars, InboxDecision

(* However registrations, retry runs and refreshes overlap, and whatever   *)
(* engine calls are refused or lost, a request without an engine id is in  *)
(* the retry queue (ErrApprovalNotSynced), or a call is registering it.    *)
THEOREM UnsyncedIsQueuedAlways ==
  ASSUME Reliable
  PROVE  Spec => []UnsyncedIsQueued
<1>1. QueueInv /\ [Next]_vars => QueueInv'
  BY NextQueue
<1>2. QueueInv => UnsyncedIsQueued
  BY DEF QueueInv
<1>3. QED
  BY <1>1, <1>2, InitQueue, PTL DEF Spec
=============================================================================
