------------------------ MODULE RequestCountersProofs ------------------------
(***************************************************************************)
(* Proofs about what users are told of the requests, for any number of     *)
(* requests, workers and chain steps: under any overlap of calls that no   *)
(* turn is shown before it has come, and, when calls are served one at a   *)
(* time, that the units counted as registered are those whose asset data   *)
(* is there and that a request's status only moves forward.                *)
(***************************************************************************)
EXTENDS RequestCounters, RequestTrailProofs

---------------------------------------------------------------------------
(* The step a row names.                                                   *)

(* It is one the engine has reached, or 0, however old the answer it was   *)
(* taken from.                                                             *)
NamesLag == \A r \in Requests : Reached(r, requests[r].current_step_name)

(* A step once reached stays behind the engine.                            *)
LEMMA ReachedIsKept ==
  ASSUME Typing, Typing', EngineGrows, EngineAdvances,
         NEW r \in Requests, NEW i \in Nat, Reached(r, i)
  PROVE  Reached(r, i)'
<1>1. engine[r].order \in Nat /\ engine'[r].order \in Nat
  BY DEF Typing, TypeOK, EngineRequest
<1>2. CASE engine[r].status = "approved"
  BY <1>2 DEF EngineGrows, Reached
<1>3. CASE engine[r].status # "approved" /\ engine'[r].status # "approved"
  BY <1>1, <1>3 DEF EngineAdvances, Reached
<1>4. QED
  BY <1>2, <1>3 DEF Reached

(* The step an answer in flight names is one the engine has reached.       *)
LEMMA AnswersNameReached ==
  ASSUME Typing, AnswersLag, AnswersAreTrue, NEW w \in Workers, calls[w].id \in Requests
  PROVE  Reached(calls[w].id, CurrentStepName(calls[w].answer))
<1> DEFINE answer == calls[w].answer
           e == engine[calls[w].id]
<1>1. answer \in Answer /\ e \in EngineRequest
  BY CallTyped DEF Call, Typing, TypeOK
<1>2. answer.order \in Nat /\ e.order \in Nat /\ answer.status \in EngineStatus
  BY <1>1 DEF Answer, EngineRequest
<1>3. Lags(answer, e) /\ (answer.status = "approved" => e.status = "approved")
  BY DEF AnswersLag, AnswersAreTrue, AnswerIsTrue
<1>4. CurrentStepName(answer) \in {0, answer.order}
  BY DEF CurrentStepName
<1> HIDE DEF answer, e
<1>5. e.status = "approved" \/ answer.order =< e.order
  BY <1>2, <1>3 DEF Lags, EngineStatus
<1> USE DEF e, answer
<1>6. QED
  BY <1>2, <1>4, <1>5 DEF Reached

(* No statement but the two that write an answer to a row names a step.    *)
LEMMA NextNames ==
  ASSUME Typing, [Next]_vars, NEW r \in Requests
  PROVE  \/ requests'[r].current_step_name = requests[r].current_step_name
         \/ \E w \in Workers :
              /\ calls[w].id = r
              /\ requests'[r].current_step_name = CurrentStepName(calls[w].answer)
<1>1. requests[r] \in Row /\ requests \in [Requests -> Row]
  BY DEF Typing, TypeOK
<1>2. ASSUME NEW w \in Workers, SetApprovalEngineRef(calls[w].id, calls[w].answer)
      PROVE  \/ requests'[r].current_step_name = requests[r].current_step_name
             \/ /\ calls[w].id = r
                /\ requests'[r].current_step_name = CurrentStepName(calls[w].answer)
  BY <1>1, <1>2 DEF SetApprovalEngineRef, Row
<1>3. ASSUME NEW w \in Workers, SetApprovalDecisionResult(calls[w].id, calls[w].answer)
      PROVE  \/ requests'[r].current_step_name = requests[r].current_step_name
             \/ /\ calls[w].id = r
                /\ requests'[r].current_step_name = CurrentStepName(calls[w].answer)
  <2>1. CASE calls[w].id = r
    <3>1. requests'[r].current_step_name = CurrentStepName(calls[w].answer)
      BY <1>1, <1>3, <2>1 DEF SetApprovalDecisionResult, Row
    <3>2. QED
      BY <2>1, <3>1
  <2>2. CASE calls[w].id # r
    BY <1>1, <1>3, <2>2 DEF SetApprovalDecisionResult
  <2>3. QED
    BY <2>1, <2>2
<1>4. ASSUME NEW s, NEW payload,
             SetApprovalSyncPending(s) \/ RecordFulfillmentData(s, payload) \/ AdvanceStage(s)
             \/ requests' = [requests EXCEPT ![s].status = "WAITING_APPROVAL"]
      PROVE  requests'[r].current_step_name = requests[r].current_step_name
  BY <1>1, <1>4 DEF SetApprovalSyncPending, RecordFulfillmentData, AdvanceStage, Row
<1>5. CASE UNCHANGED requests
  BY <1>5
<1>6. ASSUME NEW w \in Workers, Start(w), ~UNCHANGED requests
      PROVE  requests'[r].current_step_name = requests[r].current_step_name
  BY <1>4, <1>6 DEF Start, Retry, Create, Detail, Webhook, Decide, Save, Advance
<1>7. ASSUME NEW w \in Workers, Step(w) \/ Crash(w), ~UNCHANGED requests
      PROVE  \/ requests'[r].current_step_name = requests[r].current_step_name
             \/ /\ calls[w].id = r
                /\ requests'[r].current_step_name = CurrentStepName(calls[w].answer)
  BY <1>2, <1>3, <1>4, <1>7
  DEF Crash, Step, RegisterAnswered, RegisterFailed, MarkSyncPending, SaveEngineRef,
      RetryNext, ReadRow, ReadHistory, RefreshAnswered, RefreshFailed, MirrorStatus,
      StatusWriteFailed, SaveChain, LogEvent, DecideAnswered, DecideFailed,
      RecordDecision, SaveFulfillmentData, AdvanceFulfillment, FulfillmentWriteFailed
<1>8. QED
  BY <1>5, <1>6, <1>7 DEF Next, vars, InboxDecision

(* So a row never names a step that has not come.                          *)
LEMMA NextNamesLag ==
  ASSUME TrailInv, NamesLag, [Next]_vars
  PROVE  NamesLag'
<1>1. Typing /\ AnswersAreTrue /\ AnswersLag /\ UnknownAreUntouched
  BY DEF TrailInv, IInv, Typing
<1>2. Typing' /\ EngineGrows /\ EngineAdvances
  BY <1>1, NextTyping, NextAdvances
<1>3. ASSUME NEW r \in Requests
      PROVE  Reached(r, requests'[r].current_step_name)
  <2>1. Reached(r, requests[r].current_step_name)
    BY DEF NamesLag
  <2>2. QED
    BY <1>1, <2>1, NextNames, AnswersNameReached
<1>4. ASSUME NEW r \in Requests
      PROVE  Reached(r, requests[r].current_step_name)'
  <2> DEFINE name == requests'[r].current_step_name
  <2>1. name \in Nat
    BY <1>2, NStepsAssumption DEF Typing, TypeOK, Row
  <2>2. \A i \in Nat : Reached(r, i) => engine'[r].status = "approved" \/ i =< engine'[r].order
    BY <1>1, <1>2, ReachedIsKept DEF Reached
  <2>3. QED
    BY <1>3, <2>1, <2>2 DEF Reached
<1>5. QED
  BY <1>4 DEF NamesLag

(* Nor does it at first.                                                   *)
LEMMA InitNamesLag == Init => NamesLag
<1> SUFFICES ASSUME Init, NEW r \in Requests
             PROVE  Reached(r, requests[r].current_step_name)
  BY DEF NamesLag
<1>1. CASE r \in Legacy
  BY <1>1 DEF Init, Reached
<1>2. CASE r \notin Legacy
  <2>1. requests[r].current_step_name = 0 /\ engine[r].order = 0
    BY <1>2 DEF Init, NoRow
  <2>2. QED
    BY <2>1 DEF Reached
<1>3. QED
  BY <1>1, <1>2

---------------------------------------------------------------------------
(* What the lists and the sidebar show.                                    *)

(* The kind of a tag and what it names.                                    *)
LEMMA Tags ==
  \A kind, names : Tag(kind, names).kind = kind /\ Tag(kind, names).names = names
BY DEF Tag

(* The step a request was sent back from is the engine's.                  *)
LEMMA RevisionNames ==
  ASSUME Typing, ChainShowsTruly, NEW r \in Requests
  PROVE  revisionTag(r).kind = "Revision" /\ revisionTag(r).names \in {0, engine[r].order}
<1> DEFINE sentBack == StepsWith(r, "revision")
           order == engine[r].order
           first == CHOOSE i \in sentBack : \A j \in sentBack : i =< j
<1>1. order \in Nat
  BY DEF Typing, TypeOK, EngineRequest
<1>2. \A i \in sentBack : i = order
  BY DEF StepsWith, ChainShowsTruly, IsShownTruly
<1>3. revisionTag(r) = Tag("Revision", IF sentBack = {} THEN 0 ELSE first)
  BY DEF revisionTag
<1>4. ASSUME sentBack # {}
      PROVE  first = order
  <2>1. order \in sentBack /\ \A j \in sentBack : order =< j
    BY <1>1, <1>2, <1>4
  <2> HIDE DEF sentBack, order
  <2>2. first \in sentBack
    BY <2>1
  <2>3. QED
    BY <1>2, <2>2
<1> HIDE DEF sentBack, first
<1>5. QED
  BY <1>3, <1>4, Tags

(* What the invariants say of a row is all its tag tells.                  *)
LEMMA TagsLag ==
  ASSUME IInv, ChainShowsTruly, NamesLag, NEW r \in Requests, requests[r].status # Absent
  PROVE  LET tag == computeStatusTag(r) IN
         /\ tag.kind = "Waiting" => Reached(r, tag.names)
         /\ tag.kind = "Revision"
              => engine[r].status = "rejected" /\ tag.names \in {0, engine[r].order}
         /\ tag.kind = "Rejected" => engine[r].status = "rejected"
         /\ tag.kind \in {"Fulfillment", "Completed", "Approved"}
              => engine[r].status = "approved"
         /\ tag.kind = "Fulfillment" => tag.names =< Coalesce(requests[r].fulfillment_step)
<1> DEFINE row == requests[r]
           tag == computeStatusTag(r)
           stage == Stage(row.fulfillment_step)
<1>1. /\ row.status \in RequestStatus /\ row.fulfillment_step \in FulfillmentStep
      /\ row.status \in PastApproval \cup {"APPROVED"} => engine[r].status = "approved"
      /\ row.status = "REJECTED" => engine[r].status = "rejected"
  BY DEF IInv, TypeOK, Row, EngineBacksStatus
<1>2. Typing
  BY DEF IInv, Typing
<1>3. stage =< Coalesce(row.fulfillment_step)
  BY <1>1 DEF Stage, Coalesce, FulfillmentStep, Unset
<1>4. Reached(r, row.current_step_name)
  BY DEF NamesLag
<1> USE Tags
<1> HIDE DEF stage
<1>5. CASE row.status = "COMPLETED"
  <2>1. tag = Tag("Completed", 0)
    BY <1>5 DEF computeStatusTag
  <2>2. tag.kind = "Completed"
    BY <2>1
  <2> HIDE DEF tag
  <2>3. QED
    BY <1>1, <1>5, <2>2 DEF PastApproval, tag
<1>6. CASE row.status = "REJECTED"
  <2>1. tag = revisionTag(r) \/ tag = Tag("Rejected", 0)
    BY <1>6 DEF computeStatusTag
  <2>2. tag.kind = "Rejected" \/ (tag.kind = "Revision" /\ tag.names \in {0, engine[r].order})
    BY <1>2, <2>1, RevisionNames
  <2> HIDE DEF tag
  <2>3. QED
    BY <1>1, <1>6, <2>2 DEF tag
<1>7. CASE row.status \in {"FULFILLMENT", "APPROVED"}
  <2>1. tag = Tag("Fulfillment", stage) \/ tag = Tag("Approved", 0)
    BY <1>7 DEF computeStatusTag, stage
  <2>2. tag.kind = "Approved" \/ (tag.kind = "Fulfillment" /\ tag.names = stage)
    BY <2>1
  <2> HIDE DEF tag
  <2>3. QED
    BY <1>1, <1>3, <1>7, <2>2 DEF PastApproval, tag
<1>8. CASE row.status = "WAITING_APPROVAL"
  <2>1. tag = Tag("Syncing", 0) \/ tag = Tag("Waiting", row.current_step_name)
    BY <1>8 DEF computeStatusTag
  <2>2. tag.kind = "Syncing" \/ (tag.kind = "Waiting" /\ tag.names = row.current_step_name)
    BY <2>1
  <2> HIDE DEF tag
  <2>3. QED
    BY <1>4, <2>2 DEF tag
<1>9. QED
  BY <1>1, <1>5, <1>6, <1>7, <1>8 DEF RequestStatus

(* CountWaitingForRoles and computeStatusTag, which ask the engine         *)
(* nothing, tell users of no turn and no verdict that has not come,        *)
(* however many refreshes overlap and however late they write.             *)
THEOREM ShownStepsLagAlways == Spec => []ShownStepsLag
<1>1. Spec => [](TrailInv /\ NamesLag)
  <2>1. TrailInv /\ NamesLag /\ [Next]_vars => TrailInv' /\ NamesLag'
    BY NextTrail, NextNamesLag
  <2>2. QED
    BY <2>1, InitTrail, InitNamesLag, PTL DEF Spec
<1>2. TrailInv /\ NamesLag => ShownStepsLag
  <2> SUFFICES ASSUME TrailInv, NamesLag, NEW r \in Requests
               PROVE  /\ \A i \in Steps : r \in WaitingForStep(i) => Reached(r, i)
                      /\ requests[r].status # Absent =>
                           LET tag == computeStatusTag(r) IN
                           /\ tag.kind = "Waiting" => Reached(r, tag.names)
                           /\ tag.kind = "Revision" => /\ engine[r].status = "rejected"
                                                       /\ tag.names \in {0, engine[r].order}
                           /\ tag.kind = "Rejected" => engine[r].status = "rejected"
                           /\ tag.kind \in {"Fulfillment", "Completed", "Approved"}
                                => engine[r].status = "approved"
                           /\ tag.kind = "Fulfillment"
                                => tag.names =< Coalesce(requests[r].fulfillment_step)
    BY DEF ShownStepsLag
  <2>1. \A i \in Steps : r \in WaitingForStep(i) => Reached(r, i)
    BY DEF WaitingForStep, StepsWith, TrailInv, ChainShowsTruly, IsShownTruly, Reached
  <2>2. IInv /\ ChainShowsTruly
    BY DEF TrailInv
  <2>3. QED
    BY <2>1, <2>2, TagsLag
<1>3. QED
  BY <1>1, <1>2, PTL

---------------------------------------------------------------------------
(* Calls one at a time.                                                    *)
Alone == \A v, w \in Workers : v = w

(* Nothing is recorded of a request nobody has created.                    *)
AbsentAreUnknown ==
  \A r \in Requests :
    requests[r].status = Absent =>
      /\ ~requests[r].approval_request_id
      /\ requests[r].approval_status # ApprovalSyncPending
      /\ ~Registered(engine[r])

(* A call serves requests there are; one that mirrors the engine does so   *)
(* before the fulfillment starts, and its answer does not contradict the   *)
(* row it is about to write.                                               *)
Mirroring == {"readHistory", "refresh", "mirror", "record"}

IsRight(call, rows) ==
  /\ call.at \notin {"idle", "nextRetry"} => rows[call.id].status # Absent
  /\ \A r \in call.backlog : rows[r].status # Absent
  /\ call.at \in Mirroring => rows[call.id].status \notin PastApproval
  /\ call.at \in {"mirror", "record"} =>
       /\ rows[call.id].status = "APPROVED" => call.answer.status = "approved"
       /\ rows[call.id].status = "REJECTED" => call.answer.status = "rejected"

CallsAreRight == \A w \in Workers : IsRight(calls[w], requests)

(* A request that has shipped is past its approval.                        *)
ShippedArePast ==
  \A r \in Requests :
    requests[r].fulfillment_step >= 1 => requests[r].status \in PastApproval

AloneInv == IInv /\ AbsentAreUnknown /\ CallsAreRight /\ ShippedArePast

(* A call at rest is right.                                                *)
LEMMA IdleIsRight == \A rows : IsRight(Idle, rows)
BY DEF IsRight, Idle, Mirroring

(* No request disappears.                                                  *)
LEMMA RowsStay ==
  ASSUME Typing, AnswersAreTrue, [Next]_vars
  PROVE  \A r \in Requests : requests[r].status # Absent => requests'[r].status # Absent
<1>1. ASSUME NEW r \in Requests, Same(r) \/ Moved(r), requests[r].status # Absent
      PROVE  requests'[r].status # Absent
  BY <1>1
  DEF Same, Moved, Created, Mirrored, Shipped, Advanced, Absent,
      LocalStatusForEngineStatus
<1>2. QED
  BY <1>1, NextMoves DEF OneMoves, EngineMoves

(* A request nobody has created is left alone, by the calls and by the     *)
(* engine.                                                                 *)
LEMMA AbsentAreUntouched ==
  ASSUME Typing, AbsentAreUnknown, CallsAreRight, [Next]_vars,
         NEW r \in Requests, requests[r].status = Absent, requests'[r].status = Absent
  PROVE  requests'[r] = requests[r] /\ engine'[r] = engine[r]
<1>1. requests \in [Requests -> Row] /\ engine \in [Requests -> EngineRequest]
  BY DEF Typing, TypeOK
<1>2. ASSUME NEW w \in Workers, calls[w].at \notin {"idle", "nextRetry"}
      PROVE  calls[w].id # r
  BY <1>2 DEF CallsAreRight, IsRight
<1>3. ASSUME NEW w \in Workers, calls[w].at \notin {"idle", "nextRetry"},
             \/ SetApprovalEngineRef(calls[w].id, calls[w].answer)
             \/ SetApprovalDecisionResult(calls[w].id, calls[w].answer)
             \/ SetApprovalSyncPending(calls[w].id)
             \/ RecordFulfillmentData(calls[w].id, calls[w].arg)
             \/ AdvanceStage(calls[w].id)
      PROVE  requests'[r] = requests[r]
  BY <1>1, <1>2, <1>3
  DEF SetApprovalEngineRef, SetApprovalDecisionResult, SetApprovalSyncPending,
      RecordFulfillmentData, AdvanceStage
<1>4. ASSUME NEW w \in Workers, calls[w].at \notin {"idle", "nextRetry"}, NEW e,
             engine' = [engine EXCEPT ![calls[w].id] = e]
      PROVE  engine'[r] = engine[r]
  BY <1>1, <1>2, <1>4
<1>5. ASSUME NEW w \in Workers, Start(w)
      PROVE  requests'[r] = requests[r] /\ engine'[r] = engine[r]
  <2>1. ASSUME NEW s \in Requests, Create(w, s)
        PROVE  requests'[r] = requests[r] /\ engine'[r] = engine[r]
    <3>1. requests' = [requests EXCEPT ![s].status = "WAITING_APPROVAL"]
          /\ engine' = engine
      BY <2>1 DEF Create
    <3>2. s # r
      BY <1>1, <3>1 DEF Row, Absent
    <3>3. QED
      BY <1>1, <3>1, <3>2
  <2>2. QED
    BY <1>5, <2>1 DEF Start, Retry, Detail, Webhook, Decide, Save, Advance
<1>6. ASSUME NEW w \in Workers,
             \/ RegisterAnswered(w) \/ RegisterFailed(w)
             \/ DecideAnswered(w) \/ DecideFailed(w)
      PROVE  requests'[r] = requests[r] /\ engine'[r] = engine[r]
  <2>1. calls[w].at \notin {"idle", "nextRetry"} /\ UNCHANGED requests
    BY <1>6 DEF RegisterAnswered, RegisterFailed, DecideAnswered, DecideFailed, At
  <2>2. UNCHANGED engine \/ \E e : engine' = [engine EXCEPT ![calls[w].id] = e]
    BY <1>6 DEF RegisterAnswered, RegisterFailed, DecideAnswered, DecideFailed
  <2>3. QED
    BY <1>4, <2>1, <2>2
<1>7. ASSUME NEW w \in Workers,
             \/ MarkSyncPending(w) \/ SaveEngineRef(w) \/ MirrorStatus(w)
             \/ RecordDecision(w) \/ SaveFulfillmentData(w) \/ AdvanceFulfillment(w)
      PROVE  requests'[r] = requests[r] /\ engine'[r] = engine[r]
  BY <1>3, <1>7
  DEF MarkSyncPending, SaveEngineRef, MirrorStatus, RecordDecision,
      SaveFulfillmentData, AdvanceFulfillment, At
<1>8. ASSUME NEW w \in Workers,
             \/ RetryNext(w) \/ ReadRow(w) \/ ReadHistory(w) \/ RefreshAnswered(w)
             \/ RefreshFailed(w) \/ StatusWriteFailed(w) \/ SaveChain(w) \/ LogEvent(w)
             \/ FulfillmentWriteFailed(w) \/ Crash(w)
      PROVE  UNCHANGED <<requests, engine>>
  BY <1>8
  DEF RetryNext, ReadRow, ReadHistory, RefreshAnswered, RefreshFailed,
      StatusWriteFailed, SaveChain, LogEvent, FulfillmentWriteFailed, Crash
<1>9. ASSUME NEW s \in Requests, InboxDecision(s)
      PROVE  requests'[r] = requests[r] /\ engine'[r] = engine[r]
  <2>1. s # r
    BY <1>9 DEF InboxDecision, AbsentAreUnknown, Registered
  <2>2. UNCHANGED requests /\ \E e : engine' = [engine EXCEPT ![s] = e]
    BY <1>9 DEF InboxDecision
  <2>3. QED
    BY <1>1, <2>1, <2>2
<1>10. QED
  BY <1>5, <1>6, <1>7, <1>8, <1>9 DEF Next, Step, vars

(* A call that begins is right about the request it names.                 *)
LEMMA StartIsRight ==
  ASSUME AloneInv, NEW w \in Workers, Start(w)
  PROVE  \E call : Continue(w, call) /\ IsRight(call, requests')
<1>1. CASE Retry(w)
  <2> DEFINE call == [Idle EXCEPT !.at = "nextRetry", !.backlog = ListPendingApprovalSync]
  <2>1. Continue(w, call) /\ UNCHANGED requests
    BY <1>1 DEF Retry, Begin
  <2>2. call.at = "nextRetry" /\ call.backlog = ListPendingApprovalSync
    BY DEF Idle
  <2>3. \A r \in ListPendingApprovalSync : requests[r].status # Absent
    BY DEF ListPendingApprovalSync, AloneInv, AbsentAreUnknown
  <2> HIDE DEF call
  <2>4. QED
    BY <2>1, <2>2, <2>3 DEF IsRight, Mirroring
<1>2. ASSUME NEW r \in Requests, NEW at \in {"register", "detail", "decide", "save", "advance"},
             NEW arg, Continue(w, CallOn(r, at, arg)), requests'[r].status # Absent
      PROVE  \E call : Continue(w, call) /\ IsRight(call, requests')
  <2> DEFINE call == CallOn(r, at, arg)
  <2>1. call.at = at /\ call.id = r /\ call.backlog = {}
    BY DEF CallOn, Idle
  <2>2. Continue(w, call)
    BY <1>2
  <2> HIDE DEF call
  <2>3. QED
    BY <1>2, <2>1, <2>2 DEF IsRight, Mirroring
<1>3. ASSUME NEW r \in Requests, Create(w, r)
      PROVE  requests'[r].status # Absent /\ Continue(w, CallOn(r, "register", None))
  BY <1>3 DEF Create, Begin, AloneInv, IInv, TypeOK, Row, Absent
<1>4. ASSUME NEW r \in Requests, NEW action \in ApprovalAction, Decide(w, r, action)
      PROVE  requests'[r].status # Absent /\ Continue(w, CallOn(r, "decide", action))
  BY <1>4 DEF Decide, Begin, AloneInv, AbsentAreUnknown
<1>5. ASSUME NEW r \in Requests, NEW payload \in Payloads, Save(w, r, payload)
      PROVE  requests'[r].status # Absent /\ Continue(w, CallOn(r, "save", payload))
  BY <1>5 DEF Save, Begin, ReadyForFulfillmentData, Absent
<1>6. ASSUME NEW r \in Requests, Detail(w, r)
      PROVE  requests'[r].status # Absent /\ Continue(w, CallOn(r, "detail", "detail"))
  BY <1>6 DEF Detail, Begin
<1>7. ASSUME NEW r \in Requests, Webhook(w, r)
      PROVE  requests'[r].status # Absent /\ Continue(w, CallOn(r, "detail", "webhook"))
  BY <1>7 DEF Webhook, Begin, AloneInv, AbsentAreUnknown
<1>8. ASSUME NEW r \in Requests, Advance(w, r)
      PROVE  requests'[r].status # Absent /\ Continue(w, CallOn(r, "advance", None))
  BY <1>8 DEF Advance, Begin
<1>9. QED
  BY <1>1, <1>2, <1>3, <1>4, <1>5, <1>6, <1>7, <1>8 DEF Start

(* A call that goes on with its request, but not to mirror the engine.     *)
LEMMA GoesOnRight ==
  ASSUME AloneInv, NEW w \in Workers, NEW call, Continue(w, call),
         calls[w].at \notin {"idle", "nextRetry"},
         call.id = calls[w].id, call.backlog = calls[w].backlog, call.at \notin Mirroring,
         \A r \in Requests : requests[r].status # Absent => requests'[r].status # Absent
  PROVE  Continue(w, call) /\ IsRight(call, requests')
<1>1. Typing /\ IsRight(calls[w], requests)
  BY DEF AloneInv, IInv, Typing, CallsAreRight
<1>2. calls[w].id \in Requests /\ calls[w].backlog \subseteq Requests
  BY <1>1, CallTyped DEF WellFormed, Call
<1>3. QED
  BY <1>1, <1>2 DEF IsRight, Mirroring

(* Registering and retrying.                                               *)
LEMMA RegistrationIsRight ==
  ASSUME AloneInv, [Next]_vars, NEW w \in Workers,
         \/ RegisterAnswered(w) \/ RegisterFailed(w)
         \/ MarkSyncPending(w) \/ SaveEngineRef(w) \/ RetryNext(w)
  PROVE  \E call : Continue(w, call) /\ IsRight(call, requests')
<1> DEFINE old == calls[w]
<1>1. Typing /\ AnswersAreTrue /\ IsRight(old, requests)
  BY DEF AloneInv, IInv, Typing, CallsAreRight
<1>2. old \in Call
  BY <1>1, CallTyped
<1>3. \A r \in Requests : requests[r].status # Absent => requests'[r].status # Absent
  BY <1>1, RowsStay
<1>4. ASSUME NEW call, Continue(w, call), call.id = old.id, call.backlog = old.backlog,
             call.at \in {"saveRef", "markPending", "nextRetry", "syncChain", "log"},
             old.at \notin {"idle", "nextRetry"}
      PROVE  \E c : Continue(w, c) /\ IsRight(c, requests')
  <2>1. call.at \notin Mirroring
    BY <1>4 DEF Mirroring
  <2>2. QED
    BY <1>3, <1>4, <2>1, GoesOnRight
<1>5. ASSUME NEW at \in {"markPending", "nextRetry"}, Goto(w, at),
             old.at \notin {"idle", "nextRetry"}
      PROVE  \E call : Continue(w, call) /\ IsRight(call, requests')
  <2> DEFINE call == [old EXCEPT !.at = at]
  <2>1. call.at = at /\ call.id = old.id /\ call.backlog = old.backlog
    BY <1>2 DEF Call
  <2>2. Continue(w, call)
    BY <1>5 DEF Goto
  <2> HIDE DEF call
  <2>3. QED
    BY <1>4, <1>5, <2>1, <2>2
<1>6. CASE RegisterAnswered(w)
  <2>1. PICK answer : Continue(w, [old EXCEPT !.at = "saveRef", !.answer = answer])
    BY <1>6 DEF RegisterAnswered
  <2> DEFINE call == [old EXCEPT !.at = "saveRef", !.answer = answer]
  <2>2. call.at = "saveRef" /\ call.id = old.id /\ call.backlog = old.backlog
    BY <1>2 DEF Call
  <2>3. Continue(w, call) /\ old.at = "register"
    BY <1>6, <2>1 DEF RegisterAnswered, At
  <2> HIDE DEF call
  <2>4. QED
    BY <1>4, <2>2, <2>3
<1>7. CASE RegisterFailed(w) \/ MarkSyncPending(w)
  BY <1>5, <1>7 DEF RegisterFailed, MarkSyncPending, At
<1>8. CASE SaveEngineRef(w)
  <2>1. PICK at \in {"syncChain", "log"} :
          Continue(w, [old EXCEPT !.at = at, !.arg = "Submitted"])
    BY <1>8 DEF SaveEngineRef
  <2> DEFINE call == [old EXCEPT !.at = at, !.arg = "Submitted"]
  <2>2. call.at = at /\ call.id = old.id /\ call.backlog = old.backlog
    BY <1>2 DEF Call
  <2>3. Continue(w, call) /\ old.at = "saveRef"
    BY <1>8, <2>1 DEF SaveEngineRef, At
  <2> HIDE DEF call
  <2>4. QED
    BY <1>4, <2>2, <2>3
<1>9. CASE RetryNext(w)
  <2>1. CASE Return(w)
    BY <2>1, IdleIsRight DEF Return
  <2>2. ASSUME NEW r \in old.backlog, NEW call, Continue(w, call),
               \/ call = [CallOn(r, "register", None) EXCEPT !.backlog = old.backlog \ {r}]
               \/ call = [Idle EXCEPT !.at = "nextRetry", !.backlog = old.backlog \ {r}]
        PROVE  Continue(w, call) /\ IsRight(call, requests')
    <3>1. \/ call.at = "register" /\ call.id = r
          \/ call.at = "nextRetry"
      BY <2>2 DEF CallOn, Idle
    <3>2. call.backlog = old.backlog \ {r}
      BY <2>2 DEF CallOn, Idle
    <3>3. \A s \in old.backlog : requests'[s].status # Absent
      BY <1>1, <1>2, <1>3 DEF IsRight, Call
    <3>4. QED
      BY <2>2, <3>1, <3>2, <3>3 DEF IsRight, Mirroring
  <2>3. QED
    BY <1>9, <2>1, <2>2 DEF RetryNext
<1>10. QED
  BY <1>6, <1>7, <1>8, <1>9

(* Refreshing a request from the engine: the row is not past its approval, *)
(* and as a row is approved, or rejected, only when the engine is, so is   *)
(* the answer.                                                             *)
LEMMA RefreshIsRight ==
  ASSUME AloneInv, NEW w \in Workers,
         ReadRow(w) \/ ReadHistory(w) \/ RefreshAnswered(w) \/ RefreshFailed(w)
  PROVE  \E call : Continue(w, call) /\ IsRight(call, requests')
<1> DEFINE old == calls[w]
           row == requests[old.id]
<1>1. Typing /\ IsRight(old, requests) /\ EngineBacksStatus
  BY DEF AloneInv, IInv, Typing, CallsAreRight
<1>2. old \in Call /\ old.id \in Requests /\ UNCHANGED requests
  BY <1>1, CallTyped
  DEF WellFormed, ReadRow, ReadHistory, RefreshAnswered, RefreshFailed, At
<1>3. row.status # Absent /\ \A r \in old.backlog : requests[r].status # Absent
  BY <1>1 DEF IsRight, ReadRow, ReadHistory, RefreshAnswered, RefreshFailed, At
<1>4. CASE Return(w)
  BY <1>4, IdleIsRight DEF Return
<1>5. ASSUME NEW call, Continue(w, call), call.id = old.id, call.backlog = old.backlog,
             call.at \in {"readHistory", "refresh", "mirror", "mirrorChain"},
             row.status \notin PastApproval,
             call.at = "mirror" => call.answer.status = engine[old.id].status
      PROVE  Continue(w, call) /\ IsRight(call, requests')
  <2>1. call.at = "mirror" =>
          /\ row.status = "APPROVED" => call.answer.status = "approved"
          /\ row.status = "REJECTED" => call.answer.status = "rejected"
    BY <1>1, <1>2, <1>5 DEF EngineBacksStatus
  <2>2. QED
    BY <1>2, <1>3, <1>5, <2>1 DEF IsRight
<1>6. CASE ReadRow(w) /\ ~Return(w)
  <2> DEFINE call == [old EXCEPT !.at = "readHistory", !.seen = row]
  <2>1. Continue(w, call) /\ row.status \notin PastApproval
    BY <1>6 DEF ReadRow, NeedsRefresh
  <2>2. call.id = old.id /\ call.backlog = old.backlog /\ call.at = "readHistory"
    BY <1>2 DEF Call
  <2> HIDE DEF call
  <2>3. QED
    BY <1>5, <2>1, <2>2
<1>7. CASE ReadHistory(w)
  <2>1. PICK revised : Continue(w, [old EXCEPT !.at = "refresh", !.revised = revised])
    <3>1. [old EXCEPT !.at = "refresh"]
            = [old EXCEPT !.at = "refresh", !.revised = old.revised]
      BY <1>2 DEF Call
    <3>2. QED
      BY <1>7, <3>1 DEF ReadHistory, Goto
  <2> DEFINE call == [old EXCEPT !.at = "refresh", !.revised = revised]
  <2>2. call.id = old.id /\ call.backlog = old.backlog /\ call.at = "refresh"
    BY <1>2 DEF Call
  <2>3. Continue(w, call) /\ row.status \notin PastApproval
    BY <1>1, <1>7, <2>1 DEF IsRight, Mirroring, ReadHistory, At
  <2> HIDE DEF call
  <2>4. QED
    BY <1>5, <2>2, <2>3
<1>8. CASE RefreshAnswered(w) /\ ~Return(w)
  <2>1. PICK answer \in Answers(engine[old.id]), at \in {"mirror", "mirrorChain"} :
          Continue(w, [old EXCEPT !.at = at, !.seen = NoRow, !.answer = answer])
    BY <1>1, <1>8, RefreshOutcome
  <2> DEFINE call == [old EXCEPT !.at = at, !.seen = NoRow, !.answer = answer]
  <2>2. /\ call.id = old.id /\ call.backlog = old.backlog
        /\ call.at = at /\ call.answer = answer
    BY <1>2 DEF Call
  <2>3. Continue(w, call) /\ row.status \notin PastApproval
    BY <1>1, <1>8, <2>1 DEF IsRight, Mirroring, RefreshAnswered, At
  <2>4. answer.status = engine[old.id].status
    BY <2>1 DEF Answers
  <2> HIDE DEF call
  <2>5. QED
    BY <1>5, <2>1, <2>2, <2>3, <2>4
<1>9. QED
  BY <1>4, <1>6, <1>7, <1>8 DEF RefreshFailed

(* Deciding: the engine decides on pending requests only, whose rows are   *)
(* still waiting.                                                          *)
LEMMA DecideIsRight ==
  ASSUME AloneInv, NEW w \in Workers, DecideAnswered(w)
  PROVE  \E call : Continue(w, call) /\ IsRight(call, requests')
<1> DEFINE old == calls[w]
           row == requests[old.id]
<1>1. Typing /\ IsRight(old, requests) /\ EngineBacksStatus
  BY DEF AloneInv, IInv, Typing, CallsAreRight
<1>2. old \in Call /\ old.id \in Requests /\ UNCHANGED requests
  BY <1>1, CallTyped DEF WellFormed, DecideAnswered, At
<1>3. row.status # Absent /\ \A r \in old.backlog : requests[r].status # Absent
  BY <1>1 DEF IsRight, DecideAnswered, At
<1>4. row.status \notin PastApproval \cup {"APPROVED", "REJECTED"}
  BY <1>1, <1>2 DEF DecideAnswered, EngineBacksStatus
<1>5. PICK answer : Continue(w, [old EXCEPT !.at = "record", !.answer = answer])
  BY DEF DecideAnswered
<1> DEFINE call == [old EXCEPT !.at = "record", !.answer = answer]
<1>6. call.id = old.id /\ call.backlog = old.backlog /\ call.at = "record"
  BY <1>2 DEF Call
<1>7. Continue(w, call)
  BY <1>5
<1> HIDE DEF call
<1>8. QED
  BY <1>2, <1>3, <1>4, <1>6, <1>7 DEF IsRight

(* Every other step but the write of a chain.                              *)
LEMMA WritesAreRight ==
  ASSUME AloneInv, [Next]_vars, NEW w \in Workers,
         \/ MirrorStatus(w) \/ StatusWriteFailed(w) \/ LogEvent(w)
         \/ DecideFailed(w) \/ RecordDecision(w)
         \/ SaveFulfillmentData(w) \/ AdvanceFulfillment(w) \/ FulfillmentWriteFailed(w)
         \/ Crash(w)
  PROVE  \E call : Continue(w, call) /\ IsRight(call, requests')
<1> DEFINE old == calls[w]
<1>1. Typing /\ AnswersAreTrue /\ IsRight(old, requests)
  BY DEF AloneInv, IInv, Typing, CallsAreRight
<1>2. old \in Call
  BY <1>1, CallTyped
<1>3. \A r \in Requests : requests[r].status # Absent => requests'[r].status # Absent
  BY <1>1, RowsStay
<1>4. CASE Return(w)
  BY <1>4, IdleIsRight DEF Return
<1>5. ASSUME NEW at \in {"mirrorChain", "decisionChain", "log"}, NEW arg,
             Continue(w, [old EXCEPT !.at = at, !.arg = arg]),
             old.at \notin {"idle", "nextRetry"}
      PROVE  \E call : Continue(w, call) /\ IsRight(call, requests')
  <2> DEFINE call == [old EXCEPT !.at = at, !.arg = arg]
  <2>1. call.at = at /\ call.id = old.id /\ call.backlog = old.backlog
    BY <1>2 DEF Call
  <2>2. Continue(w, call)
    BY <1>5
  <2> HIDE DEF call
  <2>3. call.at \notin Mirroring
    BY <2>1 DEF Mirroring
  <2>4. QED
    BY <1>3, <1>5, <2>1, <2>2, <2>3, GoesOnRight
<1>6. \A at : [old EXCEPT !.at = at] = [old EXCEPT !.at = at, !.arg = old.arg]
  BY <1>2 DEF Call
<1>7. CASE MirrorStatus(w) /\ ~Return(w)
  BY <1>5, <1>6, <1>7 DEF MirrorStatus, Goto, At
<1>8. CASE RecordDecision(w)
  BY <1>5, <1>6, <1>8 DEF RecordDecision, At
<1>9. CASE (SaveFulfillmentData(w) \/ AdvanceFulfillment(w)) /\ ~Return(w)
  BY <1>5, <1>9 DEF SaveFulfillmentData, AdvanceFulfillment, At
<1>10. CASE LogEvent(w)
  <2>1. PICK call \in {[Idle EXCEPT !.at = "nextRetry", !.backlog = old.backlog],
                       CallOn(old.id, "detail", "detail")} : Continue(w, call)
    BY <1>10 DEF LogEvent
  <2>2. \/ call.at = "nextRetry" /\ call.backlog = old.backlog
        \/ call.at = "detail" /\ call.id = old.id /\ call.backlog = {}
    BY <2>1 DEF CallOn, Idle
  <2>3. old.id \in Requests /\ old.backlog \subseteq Requests /\ old.at = "log"
    BY <1>1, <1>2, <1>10, CallTyped DEF LogEvent, At, WellFormed, Call
  <2>4. requests'[old.id].status # Absent
        /\ \A r \in old.backlog : requests'[r].status # Absent
    BY <1>1, <1>3, <2>3 DEF IsRight
  <2>5. QED
    BY <2>1, <2>2, <2>4 DEF IsRight, Mirroring
<1>11. QED
  BY <1>4, <1>7, <1>8, <1>9, <1>10
  DEF StatusWriteFailed, DecideFailed, FulfillmentWriteFailed, Crash

(* Writing a chain changes no row, and leads to no mirroring.              *)
LEMMA ChainIsRight ==
  ASSUME Alone, AloneInv, NEW w \in Workers, SaveChain(w)
  PROVE  CallsAreRight'
<1>1. Typing /\ UNCHANGED requests
  BY DEF AloneInv, IInv, Typing, SaveChain
<1>2. PICK done \in SUBSET {v \in Workers : calls[v].at \in ChainWrite} :
        calls' = [v \in Workers |-> IF v \in done THEN AfterChain(calls[v]) ELSE calls[v]]
  BY <1>1, SaveChainCalls
<1>3. ASSUME NEW v \in Workers, calls[v].at \in ChainWrite
      PROVE  IsRight(AfterChain(calls[v]), requests)
  <2> DEFINE old == calls[v]
             call == AfterChain(old)
  <2>1. old \in Call /\ IsRight(old, requests)
    BY <1>1, CallTyped DEF AloneInv, CallsAreRight
  <2>2. CASE old.at = "mirrorChain"
    BY <2>2, IdleIsRight DEF AfterChain
  <2>3. CASE old.at # "mirrorChain"
    <3>1. call.at = "log" /\ call.id = old.id /\ call.backlog = old.backlog
      BY <1>3, <2>1, <2>3 DEF AfterChain, ChainWrite, Call
    <3> HIDE DEF call
    <3>2. IsRight(call, requests)
      BY <1>3, <2>1, <3>1 DEF IsRight, Mirroring, ChainWrite
    <3>3. QED
      BY <3>2 DEF call
  <2>4. QED
    BY <2>2, <2>3
<1>4. ASSUME NEW v \in Workers
      PROVE  IsRight(calls'[v], requests)
  BY <1>2, <1>3 DEF AloneInv, CallsAreRight
<1>5. QED
  BY <1>1, <1>4 DEF CallsAreRight, IsRight

(* Every step leaves the only call right.                                  *)
LEMMA NextRight ==
  ASSUME Alone, AloneInv, [Next]_vars
  PROVE  CallsAreRight'
<1>1. CASE UNCHANGED <<requests, calls>>
  BY <1>1 DEF AloneInv, CallsAreRight, IsRight
<1>2. ASSUME NEW w \in Workers, \E call : Continue(w, call) /\ IsRight(call, requests')
      PROVE  CallsAreRight'
  <2>1. PICK call : Continue(w, call) /\ IsRight(call, requests')
    BY <1>2
  <2>2. calls'[w] = call
    BY <2>1 DEF Continue, AloneInv, IInv, TypeOK
  <2>3. \A v \in Workers : calls'[v] = call
    BY <2>2 DEF Alone
  <2>4. QED
    BY <2>1, <2>3 DEF CallsAreRight, IsRight
<1>3. ASSUME NEW w \in Workers, Start(w) \/ Step(w) \/ Crash(w), ~SaveChain(w)
      PROVE  \E call : Continue(w, call) /\ IsRight(call, requests')
  BY <1>3, StartIsRight, RegistrationIsRight, RefreshIsRight, DecideIsRight, WritesAreRight
  DEF Step
<1>4. QED
  BY <1>1, <1>2, <1>3, ChainIsRight DEF Next, vars, InboxDecision

(* A request then takes at most one step of its life, and a stage only     *)
(* once its approval is behind it.                                         *)
Forward(from, to) ==
  \/ to = from
  \/ from = Absent /\ to = "WAITING_APPROVAL"
  \/ from = "WAITING_APPROVAL" /\ to \in {"APPROVED", "REJECTED"}
  \/ from = "APPROVED" /\ to = "FULFILLMENT"
  \/ from = "FULFILLMENT" /\ to = "COMPLETED"

(* This is so of whatever a step does to a row.                            *)
LEMMA MovesForward ==
  ASSUME AloneInv, NEW r \in Requests, Same(r) \/ Moved(r)
  PROVE  /\ Forward(requests[r].status, requests'[r].status)
         /\ requests'[r].fulfillment_step >= 1 => requests'[r].status \in PastApproval
<1> DEFINE from == requests[r].status
           to == requests'[r].status
           was == requests[r].fulfillment_step
           is == requests'[r].fulfillment_step
<1>1. from \in RequestStatus /\ was \in FulfillmentStep /\ (was >= 1 => from \in PastApproval)
  BY DEF AloneInv, IInv, TypeOK, Row, ShippedArePast
<1>2. was \in -1 .. 3
  BY <1>1 DEF FulfillmentStep, Unset
<1>3. CASE Same(r)
  BY <1>1, <1>3 DEF Same, Forward
<1>4. CASE Created(r)
  BY <1>1, <1>4 DEF Created, Forward, Absent, PastApproval
<1>5. CASE Mirrored(r)
  <2>1. PICK status \in EngineStatus, w \in Workers :
          /\ calls[w].id = r /\ calls[w].at \in {"mirror", "record"}
          /\ calls[w].answer.status = status
          /\ to = LocalStatusForEngineStatus(status)
          /\ is = IF status = "approved" THEN Coalesce(was) ELSE was
    BY <1>5 DEF Mirrored
  <2>2. IsRight(calls[w], requests)
    BY DEF AloneInv, CallsAreRight
  <2>3. /\ from # Absent /\ from \notin PastApproval
        /\ from = "APPROVED" => status = "approved"
        /\ from = "REJECTED" => status = "rejected"
    BY <2>1, <2>2 DEF IsRight, Mirroring
  <2>4. from \in {"WAITING_APPROVAL", "APPROVED", "REJECTED"} /\ was < 1
    BY <1>1, <1>2, <2>3 DEF RequestStatus, PastApproval
  <2> HIDE DEF from, to, was, is
  <2>5. Forward(from, to)
    BY <2>1, <2>3, <2>4 DEF Forward, LocalStatusForEngineStatus, EngineStatus
  <2>6. is < 1
    BY <1>2, <2>1, <2>4 DEF Coalesce, Unset
  <2>7. is \in Int
    BY <1>2, <2>1 DEF Coalesce
  <2>8. QED
    BY <2>5, <2>6, <2>7 DEF from, to, is
<1>6. CASE Shipped(r)
  BY <1>6 DEF Shipped, TakesFulfillmentData, Forward, PastApproval
<1>7. CASE Advanced(r)
  BY <1>7 DEF Advanced, Advances, Forward, PastApproval
<1>8. QED
  BY <1>3, <1>4, <1>5, <1>6, <1>7 DEF Moved

(* Every step of calls served one at a time keeps what makes them right.   *)
LEMMA AloneNext ==
  ASSUME Alone, AloneInv, [Next]_vars
  PROVE  AloneInv'
<1>1. Typing /\ AnswersAreTrue /\ IInv
  BY DEF AloneInv, IInv, Typing
<1>2. IInv' /\ CallsAreRight'
  BY <1>1, NextInv, NextRight
<1>3. AbsentAreUnknown'
  <2> SUFFICES ASSUME NEW r \in Requests, requests'[r].status = Absent
               PROVE  /\ ~requests'[r].approval_request_id
                      /\ requests'[r].approval_status # ApprovalSyncPending
                      /\ ~Registered(engine'[r])
    BY DEF AbsentAreUnknown, Registered
  <2>1. requests[r].status = Absent
    BY <1>1, RowsStay
  <2>2. requests'[r] = requests[r] /\ engine'[r] = engine[r]
    BY <1>1, <2>1, AbsentAreUntouched DEF AloneInv
  <2>3. QED
    BY <2>1, <2>2 DEF AloneInv, AbsentAreUnknown
<1>4. ShippedArePast'
  <2>1. ASSUME NEW r \in Requests
        PROVE  Same(r) \/ Moved(r)
    BY <1>1, NextMoves DEF OneMoves, EngineMoves, Same
  <2>2. QED
    BY <2>1, MovesForward DEF ShippedArePast
<1>5. QED
  BY <1>2, <1>3, <1>4 DEF AloneInv

(* At first there are only the requests approved long ago.                 *)
LEMMA AloneInit == Init => AloneInv
<1> SUFFICES ASSUME Init PROVE AloneInv
  OBVIOUS
<1>1. IInv
  BY InitInv
<1>2. AbsentAreUnknown
  <2> SUFFICES ASSUME NEW r \in Requests, requests[r].status = Absent
               PROVE  /\ ~requests[r].approval_request_id
                      /\ requests[r].approval_status # ApprovalSyncPending
                      /\ ~Registered(engine[r])
    BY DEF AbsentAreUnknown
  <2>1. r \notin Legacy
    BY DEF Init, LegacyRow, NoRow, Absent
  <2>2. requests[r] = NoRow /\ engine[r] = [status |-> "", order |-> 0]
    BY <2>1 DEF Init
  <2>3. NoRow.approval_request_id = FALSE /\ NoRow.approval_status = ""
    BY DEF NoRow
  <2>4. engine[r].status = ""
    BY <2>1 DEF Init
  <2>5. QED
    BY <2>2, <2>3, <2>4 DEF Registered, ApprovalSyncPending
<1>3. CallsAreRight
  BY IdleIsRight DEF Init, CallsAreRight
<1>4. ShippedArePast
  <2> SUFFICES ASSUME NEW r \in Requests
               PROVE  ~(requests[r].fulfillment_step >= 1)
    BY DEF ShippedArePast
  <2>1. requests[r].fulfillment_step = -1
    BY DEF Init, LegacyRow, NoRow, Unset
  <2>2. QED
    BY <2>1
<1>5. QED
  BY <1>1, <1>2, <1>3, <1>4 DEF AloneInv

(* They hold at every moment.                                              *)
THEOREM AloneInvariance ==
  ASSUME Alone
  PROVE  Spec => []AloneInv
<1>1. AloneInv /\ [Next]_vars => AloneInv'
  BY AloneNext
<1>2. QED
  BY <1>1, AloneInit, PTL DEF Spec

(* When calls are served one at a time, the dashboard counts the units of  *)
(* exactly the requests whose asset data has been recorded, whichever      *)
(* calls fail or stop half way.                                            *)
THEOREM AssetsAreRegisteredAlone ==
  ASSUME Alone
  PROVE  Spec => []AssetsAreRegistered
<1>1. AloneInv => AssetsAreRegistered
  <2> SUFFICES ASSUME AloneInv, NEW r \in Requests
               PROVE  r \in RegisteredRows <=> requests[r].fulfillment_data # None
    BY DEF AssetsAreRegistered, RegisteredRows
  <2> DEFINE row == requests[r]
  <2>1. /\ row.fulfillment_data # None <=> row.fulfillment_step >= 1
        /\ row.status = "FULFILLMENT" => row.fulfillment_step \in {1, 2}
        /\ row.status = "COMPLETED" => row.fulfillment_step = 3
        /\ row.fulfillment_step >= 1 => row.status \in PastApproval
    BY DEF AloneInv, IInv, StageMatchesData, ShippedArePast
  <2>2. r \in RegisteredRows <=>
          \/ row.status = "COMPLETED"
          \/ row.status = "FULFILLMENT" /\ Coalesce(row.fulfillment_step) >= 1
    BY DEF RegisteredRows
  <2>3. row.fulfillment_step \in -1 .. 3
    BY DEF AloneInv, IInv, TypeOK, Row, FulfillmentStep, Unset
  <2> HIDE DEF row
  <2>4. r \in RegisteredRows <=> row.fulfillment_data # None
    BY <2>1, <2>2, <2>3 DEF PastApproval, Coalesce, Unset
  <2>5. QED
    BY <2>4 DEF row
<1>2. QED
  BY <1>1, AloneInvariance, PTL

(* When calls are served one at a time, the status of a request only moves *)
(* forward, one step of its life at a time, whatever engine calls and      *)
(* statements fail and wherever the process stops.                         *)
THEOREM LifecycleIsImplementedAlone ==
  ASSUME Alone
  PROVE  Spec => ImplementsLifecycle
<1> DEFINE statusOf == [r \in Requests |-> requests[r].status]
<1>1. Init => Lifecycle!Init
  <2> SUFFICES ASSUME Init PROVE Lifecycle!Init
    OBVIOUS
  <2>1. ASSUME NEW r \in Requests
        PROVE  requests[r].status = IF r \in Legacy THEN "APPROVED" ELSE ""
    BY DEF Init, LegacyRow, NoRow, Absent
  <2>2. QED
    BY <2>1 DEF Lifecycle!Init
<1>2. AloneInv /\ [Next]_vars => [Lifecycle!Next]_statusOf
  <2> SUFFICES ASSUME AloneInv, [Next]_vars, statusOf' # statusOf
               PROVE  Lifecycle!Next
    OBVIOUS
  <2>1. Typing /\ AnswersAreTrue
    BY DEF AloneInv, IInv, Typing
  <2>2. statusOf' = [r \in Requests |-> requests'[r].status]
    OBVIOUS
  <2>3. PICK r \in Requests : (Moved(r) \/ Same(r)) /\ \A s \in Requests \ {r} : Same(s)
    <3>1. ~(\A s \in Requests : Same(s))
      BY <2>2 DEF Same
    <3>2. QED
      BY <2>1, <3>1, NextMoves DEF OneMoves, EngineMoves, Same
  <2> DEFINE from == requests[r].status
             to == requests'[r].status
  <2>4. /\ statusOf[r] = from
        /\ statusOf' = [statusOf EXCEPT ![r] = to]
        /\ statusOf = [statusOf EXCEPT ![r] = from]
    BY <2>2, <2>3 DEF Same
  <2>5. Forward(from, to)
    BY <2>3, MovesForward
  <2> HIDE DEF statusOf, from, to
  <2>6. from # to
    BY <2>4
  <2>7. \E a, b : /\ Forward(a, b) /\ a # b
                  /\ statusOf[r] = a /\ statusOf' = [statusOf EXCEPT ![r] = b]
    BY <2>4, <2>5, <2>6
  <2>8. QED
    BY <2>7 DEF Forward, Lifecycle!Next, Lifecycle!Move, statusOf, Absent
<1>3. QED
  BY <1>1, <1>2, AloneInvariance, PTL DEF Spec, ImplementsLifecycle, Lifecycle!Spec
=============================================================================
