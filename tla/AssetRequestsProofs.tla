------------------------- MODULE AssetRequestsProofs -------------------------
(***************************************************************************)
(* Proofs about AssetRequests for any number of requests, workers and      *)
(* chain steps, any payloads, operations and faults.                       *)
(***************************************************************************)
EXTENDS AssetRequestsProperties, TLAPS

---------------------------------------------------------------------------
(* What the statements of the repository do to a row.                      *)

(* The words and the rows of the vocabulary are of their types.            *)
LEMMA Vocabulary ==
  /\ NSteps \in Nat \ {0}
  /\ FinalOrder \in Nat
  /\ AnswerSteps \subseteq BOOLEAN
  /\ None \notin Requests \cup Payloads
  /\ NoRow \in Row
  /\ LegacyRow \in Row
  /\ NoAnswer \in Answer
  /\ Idle \in Call
<1>1. NSteps \in Nat \ {0} /\ FinalOrder \in Nat /\ AnswerSteps \subseteq BOOLEAN
  BY NStepsAssumption, ConstantsAssumption
<1>2. None \notin Requests \cup Payloads
  BY ConstantsAssumption
<1>3. NoRow \in Row
  BY <1>1 DEF NoRow, Row, RequestStatus, Absent, FulfillmentStep, Unset, ApprovalStatus
<1>4. CurrentStepName([order |-> FinalOrder, steps |-> TRUE]) \in 0 .. NSteps
  BY <1>1 DEF CurrentStepName, Steps
<1>5. LegacyRow \in Row
  BY <1>1, <1>3, <1>4
  DEF LegacyRow, NoRow, Row, RequestStatus, Absent, FulfillmentStep, Unset,
      ApprovalStatus, EngineStatus
<1>6. NoAnswer \in Answer
  BY DEF NoAnswer, Answer, EngineStatus
<1>7. Idle \in Call
  BY <1>3, <1>6 DEF Idle, Call, Location, Argument
<1>8. QED
  BY <1>1, <1>2, <1>3, <1>5, <1>6, <1>7

(* The translations from the engine's vocabulary stay in the service's.    *)
LEMMA Translations ==
  ASSUME NEW answer \in Answer, NEW revised \in BOOLEAN
  PROVE  /\ LocalStatusForEngineStatus(answer.status) \in RequestStatus
         /\ CurrentStepName(answer) \in 0 .. NSteps
         /\ MapEngineStepsToItems(answer, revised) \in [Steps -> StepStatus]
<1>1. LocalStatusForEngineStatus(answer.status) \in RequestStatus
  BY DEF LocalStatusForEngineStatus, RequestStatus
<1>2. CurrentStepName(answer) \in 0 .. NSteps
  BY NStepsAssumption DEF CurrentStepName, Steps
<1>3. MapEngineStepsToItems(answer, revised) \in [Steps -> StepStatus]
  BY DEF MapEngineStepsToItems, StepStatus
<1>4. QED
  BY <1>1, <1>2, <1>3

(* Mirroring an answer replaces the status and starts, never moves, the    *)
(* fulfillment stage; it leaves the data and the engine id alone.          *)
LEMMA DecisionResult ==
  ASSUME TypeOK, NEW r \in Requests, NEW answer \in Answer,
         SetApprovalDecisionResult(r, answer)
  PROVE  /\ requests' \in [Requests -> Row]
         /\ \A s \in Requests \ {r} : requests'[s] = requests[s]
         /\ requests'[r].status = LocalStatusForEngineStatus(answer.status)
         /\ requests'[r].fulfillment_data = requests[r].fulfillment_data
         /\ requests'[r].approval_request_id = requests[r].approval_request_id
         /\ requests'[r].fulfillment_step =
              IF answer.status = "approved" THEN Coalesce(requests[r].fulfillment_step)
              ELSE requests[r].fulfillment_step
<1> DEFINE status == LocalStatusForEngineStatus(answer.status)
           row == requests[r]
           stage == IF status = "APPROVED" THEN StageOnApproval(row.fulfillment_step)
                    ELSE row.fulfillment_step
           new == [row EXCEPT
                     !.status = status,
                     !.current_step = answer.order,
                     !.approval_status = answer.status,
                     !.current_step_name = CurrentStepName(answer),
                     !.fulfillment_step = stage]
<1>1. row \in Row
  BY DEF TypeOK
<1>2. status \in RequestStatus /\ CurrentStepName(answer) \in 0 .. NSteps
  BY Translations
<1>3. status = "APPROVED" <=> answer.status = "approved"
  BY DEF LocalStatusForEngineStatus
<1>4. stage \in FulfillmentStep
  BY <1>1 DEF StageOnApproval, Coalesce, FulfillmentStep, Unset, Row
<1>5. answer.order \in Nat /\ answer.status \in ApprovalStatus
  BY DEF Answer, ApprovalStatus
<1> HIDE DEF status, stage
<1>6. new \in Row
  BY <1>1, <1>2, <1>4, <1>5 DEF Row
<1>7. /\ new.status = status
      /\ new.fulfillment_step = stage
      /\ new.fulfillment_data = row.fulfillment_data
      /\ new.approval_request_id = row.approval_request_id
  BY <1>1 DEF Row
<1>8. requests' = [requests EXCEPT ![r] = new]
  BY DEF SetApprovalDecisionResult, status, stage
<1>9. stage = IF answer.status = "approved" THEN Coalesce(row.fulfillment_step)
              ELSE row.fulfillment_step
  BY <1>3 DEF stage, StageOnApproval
<1> HIDE DEF new
<1>10. QED
  BY <1>6, <1>7, <1>8, <1>9 DEF TypeOK, status

(* The columns the other statements leave alone, and the ones they write.  *)
LEMMA EngineRef ==
  ASSUME TypeOK, NEW r \in Requests, NEW answer \in Answer,
         SetApprovalEngineRef(r, answer)
  PROVE  /\ requests' \in [Requests -> Row]
         /\ \A s \in Requests \ {r} : requests'[s] = requests[s]
         /\ requests'[r].status = requests[r].status
         /\ requests'[r].fulfillment_step = requests[r].fulfillment_step
         /\ requests'[r].fulfillment_data = requests[r].fulfillment_data
<1>1. CurrentStepName(answer) \in 0 .. NSteps
  BY Translations
<1>2. answer.status \in ApprovalStatus
  BY DEF Answer, ApprovalStatus
<1>3. QED
  BY <1>1, <1>2 DEF TypeOK, SetApprovalEngineRef, Row

(* Marking a request for the retry touches nothing but its approval status. *)
LEMMA SyncPending ==
  ASSUME TypeOK, NEW r \in Requests, SetApprovalSyncPending(r)
  PROVE  /\ requests' \in [Requests -> Row]
         /\ \A s \in Requests \ {r} : requests'[s] = requests[s]
         /\ requests'[r].status = requests[r].status
         /\ requests'[r].approval_request_id = requests[r].approval_request_id
         /\ requests'[r].fulfillment_step = requests[r].fulfillment_step
         /\ requests'[r].fulfillment_data = requests[r].fulfillment_data
BY DEF TypeOK, SetApprovalSyncPending, Row, ApprovalStatus, ApprovalSyncPending

(* Recording the asset data ships the request.                             *)
LEMMA FulfillmentData ==
  ASSUME TypeOK, NEW r \in Requests, NEW payload \in Payloads,
         RecordFulfillmentData(r, payload)
  PROVE  /\ requests' \in [Requests -> Row]
         /\ \A s \in Requests \ {r} : requests'[s] = requests[s]
         /\ requests'[r].status = "FULFILLMENT"
         /\ requests'[r].approval_request_id = requests[r].approval_request_id
         /\ requests'[r].fulfillment_step = 1
         /\ requests'[r].fulfillment_data = payload
<1>1. 1 \in FulfillmentStep /\ "FULFILLMENT" \in RequestStatus
  BY DEF FulfillmentStep, Unset, RequestStatus
<1>2. QED
  BY <1>1 DEF TypeOK, RecordFulfillmentData, Row

(* Advancing a shipped or delivered request moves it one stage on.         *)
LEMMA NextStage ==
  ASSUME TypeOK, NEW r \in Requests, Advances(requests[r]), AdvanceStage(r)
  PROVE  /\ requests' \in [Requests -> Row]
         /\ \A s \in Requests \ {r} : requests'[s] = requests[s]
         /\ requests'[r].status =
              IF requests[r].fulfillment_step = 2 THEN "COMPLETED" ELSE "FULFILLMENT"
         /\ requests'[r].approval_request_id = requests[r].approval_request_id
         /\ requests'[r].fulfillment_step = requests[r].fulfillment_step + 1
         /\ requests'[r].fulfillment_data = requests[r].fulfillment_data
<1> DEFINE step == requests[r].fulfillment_step + 1
           status == IF step >= 3 THEN "COMPLETED" ELSE "FULFILLMENT"
<1>1. requests[r].fulfillment_step \in {1, 2}
  BY DEF Advances
<1>2. step \in FulfillmentStep /\ status \in RequestStatus
  BY <1>1 DEF FulfillmentStep, Unset, RequestStatus
<1>3. status = IF requests[r].fulfillment_step = 2 THEN "COMPLETED" ELSE "FULFILLMENT"
  BY <1>1
<1>4. requests' = [requests EXCEPT ![r].fulfillment_step = step, ![r].status = status]
  BY DEF AdvanceStage
<1> HIDE DEF step, status
<1>5. /\ requests' \in [Requests -> Row]
      /\ \A s \in Requests \ {r} : requests'[s] = requests[s]
      /\ requests'[r].status = status
      /\ requests'[r].approval_request_id = requests[r].approval_request_id
      /\ requests'[r].fulfillment_step = step
      /\ requests'[r].fulfillment_data = requests[r].fulfillment_data
  BY <1>2, <1>4 DEF TypeOK, Row
<1>6. QED
  BY <1>3, <1>5 DEF step

---------------------------------------------------------------------------
(* What a step does to the engine and to the calls.                        *)

(* The engine never forgets a request, and never revises a final status.   *)
EngineGrows ==
  /\ engine' \in [Requests -> EngineRequest]
  /\ \A r \in Requests :
       /\ Registered(engine[r]) => Registered(engine'[r])
       /\ engine[r].status \in {"approved", "rejected"} => engine'[r].status = engine[r].status

(* An engine that does nothing keeps its promises.                         *)
LEMMA EngineStutters ==
  ASSUME TypeOK, UNCHANGED engine
  PROVE  EngineGrows
BY DEF EngineGrows, TypeOK

(* The engine answers with the state it is in.                             *)
LEMMA AnswersAreTyped ==
  ASSUME NEW e \in EngineRequest, Registered(e)
  PROVE  /\ Answers(e) \subseteq Answer
         /\ \A answer \in Answers(e) : answer.status = e.status
<1>1. SUFFICES ASSUME NEW answer \in Answers(e)
               PROVE  answer \in Answer /\ answer.status = e.status
  OBVIOUS
<1>2. PICK steps \in AnswerSteps :
        answer = [status |-> e.status, order |-> e.order, steps |-> steps]
  BY DEF Answers
<1>3. e.status \in EngineStatus /\ e.order \in Nat /\ steps \in BOOLEAN
  BY Vocabulary DEF EngineRequest, Registered
<1>4. QED
  BY <1>2, <1>3 DEF Answer

(* Registering a request, again or for the first time, keeps the promises. *)
LEMMA RegistrationGrows ==
  ASSUME TypeOK, NEW r \in Requests,
         engine' = [engine EXCEPT ![r] = Registration(@)]
  PROVE  EngineGrows /\ Registered(engine'[r]) /\ Answers(engine'[r]) \subseteq Answer
<1> DEFINE new == Registration(engine[r])
<1>1. engine[r] \in EngineRequest
  BY DEF TypeOK
<1>2. /\ new \in EngineRequest
      /\ Registered(new)
      /\ Registered(engine[r]) => new = engine[r]
  BY <1>1 DEF Registration, Registered, EngineRequest, EngineStatus
<1>3. engine' = [engine EXCEPT ![r] = new]
  OBVIOUS
<1>4. engine[r].status \in {"approved", "rejected"} => Registered(engine[r])
  BY DEF Registered
<1> HIDE DEF new
<1>5. engine' \in [Requests -> EngineRequest] /\ engine'[r] = new
  BY <1>2, <1>3 DEF TypeOK
<1>6. \A s \in Requests \ {r} : engine'[s] = engine[s]
  BY <1>3 DEF TypeOK
<1>7. EngineGrows
  BY <1>2, <1>4, <1>5, <1>6 DEF EngineGrows
<1>8. Answers(new) \subseteq Answer
  BY <1>2, AnswersAreTyped
<1>9. QED
  BY <1>2, <1>5, <1>7, <1>8

(* So does deciding on a pending request.                                  *)
LEMMA DecisionGrows ==
  ASSUME TypeOK, NEW r \in Requests, NEW decision \in {"approved", "rejected"},
         engine[r].status = "pending",
         NEW e \in Decided(engine[r], decision),
         engine' = [engine EXCEPT ![r] = e]
  PROVE  EngineGrows /\ Answers(e) \subseteq Answer /\ engine'[r] = e
<1>1. engine[r] \in EngineRequest
  BY DEF TypeOK
<1>2. e \in EngineRequest /\ Registered(e)
  <2>1. CASE decision = "rejected"
    <3>1. e = [engine[r] EXCEPT !.status = "rejected"]
      BY <2>1 DEF Decided
    <3>2. QED
      BY <1>1, <3>1 DEF EngineRequest, EngineStatus, Registered
  <2>2. CASE decision = "approved"
    <3>1. \/ e = engine[r]
          \/ e = [engine[r] EXCEPT !.order = @ + 1]
          \/ e = [status |-> "approved", order |-> FinalOrder]
      BY <2>2 DEF Decided
    <3>2. engine[r].order + 1 \in Nat /\ FinalOrder \in Nat
      <4>1. engine[r].order \in Nat
        BY <1>1 DEF EngineRequest
      <4>2. QED
        BY <4>1, ConstantsAssumption
    <3>3. CASE e = engine[r]
      BY <1>1, <3>3 DEF Registered
    <3>4. CASE e = [engine[r] EXCEPT !.order = @ + 1]
      BY <1>1, <3>2, <3>4 DEF EngineRequest, Registered
    <3>5. CASE e = [status |-> "approved", order |-> FinalOrder]
      <4>1. "approved" \in EngineStatus
        BY DEF EngineStatus
      <4>2. QED
        BY <3>2, <3>5, <4>1 DEF EngineRequest, Registered
    <3>6. QED
      BY <3>1, <3>3, <3>4, <3>5
  <2>3. QED
    BY <2>1, <2>2
<1>3. engine' \in [Requests -> EngineRequest] /\ engine'[r] = e
  BY <1>2 DEF TypeOK
<1>4. \A s \in Requests \ {r} : engine'[s] = engine[s]
  BY DEF TypeOK
<1>5. EngineGrows
  BY <1>2, <1>3, <1>4 DEF EngineGrows
<1>6. Answers(e) \subseteq Answer
  BY <1>2, AnswersAreTyped
<1>7. QED
  BY <1>3, <1>5, <1>6

(* A worker goes on with a well-formed call; the other calls stay so.      *)
LEMMA CallStep ==
  ASSUME TypeOK, CallsAreWellFormed, EngineGrows,
         NEW w \in Workers, NEW call \in Call,
         Continue(w, call), WellFormed(call, engine')
  PROVE  calls' \in [Workers -> Call] /\ CallsAreWellFormed'
<1>1. calls' \in [Workers -> Call] /\ calls'[w] = call
  BY DEF Continue, TypeOK
<1>2. ASSUME NEW v \in Workers
      PROVE  WellFormed(calls'[v], engine')
  <2>1. CASE v = w
    BY <1>1, <2>1
  <2>2. CASE v # w
    <3>1. calls'[v] = calls[v]
      BY <2>2 DEF Continue, TypeOK
    <3>2. WellFormed(calls[v], engine)
      BY DEF CallsAreWellFormed
    <3>3. QED
      BY <3>1, <3>2 DEF WellFormed, EngineGrows
  <2>3. QED
    BY <2>1, <2>2
<1>3. QED
  BY <1>1, <1>2 DEF CallsAreWellFormed

(* A call to an idle worker's record, and an idle record, are calls.       *)
LEMMA NewCalls ==
  /\ \A eng : WellFormed(Idle, eng)
  /\ \A r \in Requests, at \in Location, arg \in Argument :
       CallOn(r, at, arg) \in Call
  /\ \A r \in Requests, at \in Location, arg \in Argument :
       /\ CallOn(r, at, arg).id = r
       /\ CallOn(r, at, arg).at = at
       /\ CallOn(r, at, arg).arg = arg
<1>1. \A eng : WellFormed(Idle, eng)
  BY DEF WellFormed, Idle
<1>2. \A r \in Requests, at \in Location, arg \in Argument :
        /\ CallOn(r, at, arg) \in Call
        /\ CallOn(r, at, arg).id = r
        /\ CallOn(r, at, arg).at = at
        /\ CallOn(r, at, arg).arg = arg
  BY Vocabulary DEF CallOn, Call, Idle
<1>3. QED
  BY <1>1, <1>2

---------------------------------------------------------------------------
(* Types: the states of the service are the ones it was written for.       *)

Typing == TypeOK /\ CallsAreWellFormed /\ RefIsRegistered

(* The initial state is typed.                                             *)
LEMMA InitTyping == Init => Typing
<1> SUFFICES ASSUME Init PROVE Typing
  OBVIOUS
<1> USE Vocabulary
<1>1. requests \in [Requests -> Row] /\ calls \in [Workers -> Call]
  BY DEF Init
<1>2. engine \in [Requests -> EngineRequest]
  <2>1. [status |-> "approved", order |-> FinalOrder] \in EngineRequest
    BY DEF EngineRequest, EngineStatus
  <2>2. [status |-> "", order |-> 0] \in EngineRequest
    BY DEF EngineRequest
  <2>3. QED
    BY <2>1, <2>2 DEF Init
<1>3. TypeOK
  BY <1>1, <1>2 DEF Init, TypeOK
<1>4. CallsAreWellFormed
  BY NewCalls DEF Init, CallsAreWellFormed
<1>5. RefIsRegistered
  <2>1. SUFFICES ASSUME NEW r \in Requests, requests[r].approval_request_id
                 PROVE  Registered(engine[r])
    BY DEF RefIsRegistered
  <2>2. r \in Legacy
    BY <2>1 DEF Init, NoRow
  <2>3. QED
    BY <2>2 DEF Init, Registered
<1>6. QED
  BY <1>3, <1>4, <1>5 DEF Typing

(* Steps that only move a call, start one, or end one.                     *)
LEMMA CallOnlyTyping ==
  ASSUME Typing, NEW w \in Workers, NEW call \in Call,
         Continue(w, call), WellFormed(call, engine),
         UNCHANGED <<requests, chain, history, engine>>
  PROVE  Typing' /\ EngineGrows
<1>1. EngineGrows
  BY EngineStutters DEF Typing
<1>2. calls' \in [Workers -> Call] /\ CallsAreWellFormed'
  BY <1>1, CallStep DEF Typing
<1>3. QED
  BY <1>1, <1>2 DEF Typing, TypeOK, RefIsRegistered

(* A call that moves to a location that makes no demands is well formed.   *)
LEMMA ReturnTyping ==
  ASSUME Typing, NEW w \in Workers, Return(w),
         UNCHANGED <<requests, chain, history, engine>>
  PROVE  Typing' /\ EngineGrows
BY CallOnlyTyping, NewCalls, Vocabulary DEF Return

(* What a typed state says of one call.                                    *)
LEMMA CallTyped ==
  ASSUME Typing, NEW w \in Workers
  PROVE  /\ calls[w] \in Call
         /\ WellFormed(calls[w], engine)
BY DEF Typing, TypeOK, CallsAreWellFormed

(* Starting a call keeps the types.                                        *)
LEMMA StartTyping ==
  ASSUME Typing, NEW w \in Workers, Start(w)
  PROVE  Typing' /\ EngineGrows
<1>1. CASE Retry(w)
  <2> DEFINE call == [Idle EXCEPT !.at = "nextRetry", !.backlog = ListPendingApprovalSync]
  <2>1. call \in Call /\ WellFormed(call, engine)
    BY Vocabulary DEF Call, Location, WellFormed, ListPendingApprovalSync
  <2>2. Continue(w, call)
    BY <1>1 DEF Retry, Begin
  <2> HIDE DEF call
  <2>3. QED
    BY <1>1, <2>1, <2>2, CallOnlyTyping DEF Retry
<1>2. ASSUME NEW r \in Requests, Create(w, r)
      PROVE  Typing' /\ EngineGrows
  <2>1. EngineGrows
    BY <1>2, EngineStutters DEF Typing, Create
  <2>2. CallOn(r, "register", None) \in Call
    BY NewCalls DEF Location, Argument
  <2>3. WellFormed(CallOn(r, "register", None), engine')
    BY NewCalls DEF WellFormed, Location, Argument
  <2>4. calls' \in [Workers -> Call] /\ CallsAreWellFormed'
    BY <1>2, <2>1, <2>2, <2>3, CallStep DEF Typing, Create, Begin
  <2>5. requests' \in [Requests -> Row]
    BY <1>2 DEF Create, Typing, TypeOK, Row, RequestStatus
  <2>6. \A s \in Requests :
          requests'[s].approval_request_id = requests[s].approval_request_id
    BY <1>2 DEF Create, Typing, TypeOK, Row
  <2>7. QED
    BY <1>2, <2>1, <2>4, <2>5, <2>6 DEF Create, Typing, TypeOK, RefIsRegistered
<1>3. ASSUME NEW r \in Requests, Detail(w, r)
      PROVE  Typing' /\ EngineGrows
  <2>1. CallOn(r, "detail", "detail") \in Call
    BY NewCalls DEF Location, Argument
  <2>2. WellFormed(CallOn(r, "detail", "detail"), engine)
    BY NewCalls DEF WellFormed, Location, Argument
  <2>3. QED
    BY <1>3, <2>1, <2>2, CallOnlyTyping DEF Detail, Begin
<1>4. ASSUME NEW r \in Requests, Webhook(w, r)
      PROVE  Typing' /\ EngineGrows
  <2>1. CallOn(r, "detail", "webhook") \in Call
    BY NewCalls DEF Location, Argument
  <2>2. WellFormed(CallOn(r, "detail", "webhook"), engine)
    BY NewCalls DEF WellFormed, Location, Argument
  <2>3. QED
    BY <1>4, <2>1, <2>2, CallOnlyTyping DEF Webhook, Begin
<1>5. ASSUME NEW r \in Requests, NEW action \in ApprovalAction, Decide(w, r, action)
      PROVE  Typing' /\ EngineGrows
  <2>1. CallOn(r, "decide", action) \in Call
    BY NewCalls DEF Location, Argument
  <2>2. WellFormed(CallOn(r, "decide", action), engine)
    BY NewCalls DEF WellFormed, Location, Argument
  <2>3. QED
    BY <1>5, <2>1, <2>2, CallOnlyTyping DEF Decide, Begin
<1>6. ASSUME NEW r \in Requests, NEW payload \in Payloads, Save(w, r, payload)
      PROVE  Typing' /\ EngineGrows
  <2>1. CallOn(r, "save", payload) \in Call
    BY NewCalls DEF Location, Argument
  <2>2. WellFormed(CallOn(r, "save", payload), engine)
    BY NewCalls DEF WellFormed, Location, Argument
  <2>3. QED
    BY <1>6, <2>1, <2>2, CallOnlyTyping DEF Save, Begin
<1>7. ASSUME NEW r \in Requests, Advance(w, r)
      PROVE  Typing' /\ EngineGrows
  <2>1. CallOn(r, "advance", None) \in Call
    BY NewCalls DEF Location, Argument
  <2>2. WellFormed(CallOn(r, "advance", None), engine)
    BY NewCalls DEF WellFormed, Location, Argument
  <2>3. QED
    BY <1>7, <2>1, <2>2, CallOnlyTyping DEF Advance, Begin
<1>8. QED
  BY <1>1, <1>2, <1>3, <1>4, <1>5, <1>6, <1>7 DEF Start

(* A row written for the call's own request keeps the types when the row   *)
(* is typed and has no engine id the engine does not know.                 *)
LEMMA RowStep ==
  ASSUME Typing, EngineGrows, NEW r \in Requests,
         requests' \in [Requests -> Row],
         \A s \in Requests \ {r} : requests'[s] = requests[s],
         \/ requests'[r].approval_request_id = requests[r].approval_request_id
         \/ Registered(engine'[r])
  PROVE  RefIsRegistered'
BY DEF Typing, RefIsRegistered, EngineGrows

(* Registering with the engine keeps them.                                 *)
LEMMA RegisterTyping ==
  ASSUME Typing, NEW w \in Workers, RegisterAnswered(w) \/ RegisterFailed(w)
  PROVE  Typing' /\ EngineGrows
<1> DEFINE r == calls[w].id
<1>1. calls[w] \in Call /\ r \in Requests
  BY CallTyped DEF RegisterAnswered, RegisterFailed, At, WellFormed
<1>2. UNCHANGED <<requests, chain, history>>
  BY DEF RegisterAnswered, RegisterFailed
<1>3. CASE RegisterAnswered(w)
  <2>1. engine' = [engine EXCEPT ![r] = Registration(@)]
    BY <1>3 DEF RegisterAnswered
  <2>2. EngineGrows /\ Registered(engine'[r]) /\ Answers(engine'[r]) \subseteq Answer
    BY <1>1, <2>1, RegistrationGrows DEF Typing
  <2>3. PICK answer \in Answers(engine'[r]) :
          Continue(w, [calls[w] EXCEPT !.at = "saveRef", !.answer = answer])
    BY <1>3 DEF RegisterAnswered
  <2> DEFINE call == [calls[w] EXCEPT !.at = "saveRef", !.answer = answer]
  <2>4. call \in Call /\ call.at = "saveRef" /\ call.id = r
    BY <1>1, <2>2, <2>3 DEF Call, Location
  <2> HIDE DEF call
  <2>5. WellFormed(call, engine')
    BY <1>1, <2>2, <2>4 DEF WellFormed
  <2>6. Continue(w, call)
    BY <2>3 DEF call
  <2>7. calls' \in [Workers -> Call] /\ CallsAreWellFormed'
    BY <2>2, <2>4, <2>5, <2>6, CallStep DEF Typing
  <2>8. QED
    BY <1>2, <2>2, <2>7 DEF Typing, TypeOK, RefIsRegistered, EngineGrows
<1>4. CASE RegisterFailed(w)
  <2>1. \/ UNCHANGED engine
        \/ engine' = [engine EXCEPT ![r] = Registration(@)]
    BY <1>4 DEF RegisterFailed
  <2>2. EngineGrows
    BY <1>1, <2>1, RegistrationGrows, EngineStutters DEF Typing
  <2> DEFINE call == [calls[w] EXCEPT !.at = "markPending"]
  <2>3. call \in Call /\ call.at = "markPending" /\ call.id = r
    BY <1>1 DEF Call, Location
  <2>4. Continue(w, call)
    BY <1>4 DEF RegisterFailed, Goto
  <2> HIDE DEF call
  <2>5. WellFormed(call, engine')
    BY <1>1, <2>3 DEF WellFormed
  <2>6. calls' \in [Workers -> Call] /\ CallsAreWellFormed'
    BY <2>2, <2>3, <2>4, <2>5, CallStep DEF Typing
  <2>7. QED
    BY <1>2, <2>2, <2>6 DEF Typing, TypeOK, RefIsRegistered, EngineGrows
<1>5. QED
  BY <1>3, <1>4

(* Steps that write a row and leave the engine alone.                      *)
LEMMA RowWriteTyping ==
  ASSUME Typing, NEW w \in Workers, NEW r \in Requests, NEW call \in Call,
         Continue(w, call), WellFormed(call, engine),
         requests' \in [Requests -> Row],
         \A s \in Requests \ {r} : requests'[s] = requests[s],
         \/ requests'[r].approval_request_id = requests[r].approval_request_id
         \/ Registered(engine[r]),
         UNCHANGED <<chain, history, engine>>
  PROVE  Typing' /\ EngineGrows
<1>1. EngineGrows
  BY EngineStutters DEF Typing
<1>2. calls' \in [Workers -> Call] /\ CallsAreWellFormed'
  BY <1>1, CallStep DEF Typing
<1>3. RefIsRegistered'
  BY <1>1, RowStep
<1>4. QED
  BY <1>1, <1>2, <1>3 DEF Typing, TypeOK

(* Marking a request for the retry keeps them.                             *)
LEMMA MarkSyncPendingTyping ==
  ASSUME Typing, NEW w \in Workers, MarkSyncPending(w)
  PROVE  Typing' /\ EngineGrows
<1> DEFINE call == [calls[w] EXCEPT !.at = "nextRetry"]
           r == calls[w].id
<1>1. calls[w] \in Call /\ r \in Requests
  BY CallTyped DEF MarkSyncPending, At, WellFormed
<1>2. call \in Call /\ call.at = "nextRetry"
  BY <1>1 DEF Call, Location
<1>3. Continue(w, call) /\ UNCHANGED <<chain, history, engine>>
  BY DEF MarkSyncPending, Goto
<1>4. SetApprovalSyncPending(r) \/ UNCHANGED requests
  BY DEF MarkSyncPending
<1> HIDE DEF call
<1>5. WellFormed(call, engine)
  BY <1>2 DEF WellFormed
<1>6. CASE SetApprovalSyncPending(r)
  BY <1>1, <1>2, <1>3, <1>5, <1>6, SyncPending, RowWriteTyping DEF Typing
<1>7. CASE UNCHANGED requests
  BY <1>2, <1>3, <1>5, <1>7, CallOnlyTyping
<1>8. QED
  BY <1>4, <1>6, <1>7

(* Saving the engine's id keeps them: the engine has the request.          *)
LEMMA SaveEngineRefTyping ==
  ASSUME Typing, NEW w \in Workers, SaveEngineRef(w)
  PROVE  Typing' /\ EngineGrows
<1> DEFINE r == calls[w].id
           answer == calls[w].answer
           at == IF answer.steps THEN "syncChain" ELSE "log"
           call == [calls[w] EXCEPT !.at = at, !.arg = "Submitted"]
<1>1. calls[w] \in Call /\ r \in Requests /\ Registered(engine[r])
  BY CallTyped DEF SaveEngineRef, At, WellFormed
<1>2. answer \in Answer
  BY <1>1 DEF Call
<1>3. at \in {"syncChain", "log"}
  OBVIOUS
<1>4. Continue(w, call) /\ UNCHANGED <<chain, history, engine>>
  BY DEF SaveEngineRef
<1>5. SetApprovalEngineRef(r, answer) \/ UNCHANGED requests
  BY DEF SaveEngineRef
<1> HIDE DEF at
<1>6. call \in Call /\ call.at = at /\ call.arg = "Submitted" /\ call.id = r
  BY <1>1, <1>3 DEF Call, Location, Argument, HistoryAction
<1> HIDE DEF call
<1>7. WellFormed(call, engine)
  BY <1>1, <1>3, <1>6 DEF WellFormed, HistoryAction
<1>8. CASE SetApprovalEngineRef(r, answer)
  BY <1>1, <1>2, <1>4, <1>6, <1>7, <1>8, EngineRef, RowWriteTyping DEF Typing
<1>9. CASE UNCHANGED requests
  BY <1>4, <1>6, <1>7, <1>9, CallOnlyTyping
<1>10. QED
  BY <1>5, <1>8, <1>9

(* Going on to the next request of a retry run keeps them.                 *)
LEMMA RetryNextTyping ==
  ASSUME Typing, NEW w \in Workers, RetryNext(w)
  PROVE  Typing' /\ EngineGrows
<1> DEFINE backlog == calls[w].backlog
<1>1. backlog \subseteq Requests
  BY CallTyped DEF Call
<1>2. UNCHANGED <<requests, chain, history, engine>>
  BY DEF RetryNext
<1>3. CASE Return(w)
  BY <1>2, <1>3, ReturnTyping
<1>4. ASSUME NEW r \in backlog,
             Continue(w, [CallOn(r, "register", None) EXCEPT !.backlog = backlog \ {r}])
      PROVE  Typing' /\ EngineGrows
  <2> DEFINE call == [CallOn(r, "register", None) EXCEPT !.backlog = backlog \ {r}]
  <2>1. CallOn(r, "register", None) \in Call /\ CallOn(r, "register", None).id = r
    BY <1>1, NewCalls DEF Location, Argument
  <2>2. CallOn(r, "register", None).at = "register"
    BY <1>1, NewCalls DEF Location, Argument
  <2>3. call \in Call /\ call.at = "register" /\ call.id = r
    BY <1>1, <2>1, <2>2 DEF Call
  <2> HIDE DEF call
  <2>4. WellFormed(call, engine)
    BY <1>1, <2>3 DEF WellFormed
  <2>5. Continue(w, call)
    BY <1>4 DEF call
  <2>6. QED
    BY <1>2, <2>3, <2>4, <2>5, CallOnlyTyping
<1>5. ASSUME NEW r \in backlog,
             Continue(w, [Idle EXCEPT !.at = "nextRetry", !.backlog = backlog \ {r}])
      PROVE  Typing' /\ EngineGrows
  <2> DEFINE call == [Idle EXCEPT !.at = "nextRetry", !.backlog = backlog \ {r}]
  <2>1. call \in Call /\ call.at = "nextRetry"
    BY <1>1, Vocabulary DEF Call, Location
  <2> HIDE DEF call
  <2>2. WellFormed(call, engine)
    BY <2>1 DEF WellFormed
  <2>3. Continue(w, call)
    BY <1>5 DEF call
  <2>4. QED
    BY <1>2, <2>1, <2>2, <2>3, CallOnlyTyping
<1>6. QED
  BY <1>3, <1>4, <1>5 DEF RetryNext

(* Reading a row and its history keeps them.                               *)
LEMMA ReadTyping ==
  ASSUME Typing, NEW w \in Workers, ReadRow(w) \/ ReadHistory(w)
  PROVE  Typing' /\ EngineGrows
<1> DEFINE r == calls[w].id
<1>1. calls[w] \in Call /\ r \in Requests
  BY CallTyped DEF ReadRow, ReadHistory, At, WellFormed
<1>2. UNCHANGED <<requests, chain, history, engine>>
  BY DEF ReadRow, ReadHistory
<1>3. CASE ReadRow(w)
  <2>1. CASE NeedsRefresh(requests[r])
    <3> DEFINE call == [calls[w] EXCEPT !.at = "readHistory", !.seen = requests[r]]
    <3>1. requests[r] \in Row /\ Registered(engine[r])
      BY <1>1, <2>1 DEF Typing, TypeOK, NeedsRefresh, RefIsRegistered
    <3>2. call \in Call /\ call.at = "readHistory" /\ call.id = r
      BY <1>1, <3>1 DEF Call, Location
    <3>3. Continue(w, call)
      BY <1>3, <2>1 DEF ReadRow
    <3> HIDE DEF call
    <3>4. WellFormed(call, engine)
      BY <1>1, <3>1, <3>2 DEF WellFormed
    <3>5. QED
      BY <1>2, <3>2, <3>3, <3>4, CallOnlyTyping
  <2>2. CASE ~NeedsRefresh(requests[r])
    BY <1>2, <1>3, <2>2, ReturnTyping DEF ReadRow
  <2>3. QED
    BY <2>1, <2>2
<1>4. CASE ReadHistory(w)
  <2>1. Registered(engine[r])
    BY <1>4, CallTyped DEF ReadHistory, At, WellFormed
  <2>2. PICK revised \in BOOLEAN :
          \/ Continue(w, [calls[w] EXCEPT !.at = "refresh", !.revised = revised])
          \/ Continue(w, [calls[w] EXCEPT !.at = "refresh"])
    <3> DEFINE revised == "Requested revision" \in history[r]
    <3>1. revised \in BOOLEAN
      OBVIOUS
    <3>2. \/ Continue(w, [calls[w] EXCEPT !.at = "refresh", !.revised = revised])
          \/ Continue(w, [calls[w] EXCEPT !.at = "refresh"])
      BY <1>4 DEF ReadHistory, Goto
    <3> HIDE DEF revised
    <3>3. QED
      BY <3>1, <3>2
  <2>3. PICK call \in {[calls[w] EXCEPT !.at = "refresh", !.revised = revised],
                       [calls[w] EXCEPT !.at = "refresh"]} : Continue(w, call)
    BY <2>2
  <2>4. call \in Call /\ call.at = "refresh" /\ call.id = r
    BY <1>1, <2>2, <2>3 DEF Call, Location
  <2>5. WellFormed(call, engine)
    BY <1>1, <2>1, <2>4 DEF WellFormed
  <2>6. QED
    BY <1>2, <2>3, <2>4, <2>5, CallOnlyTyping
<1>5. QED
  BY <1>3, <1>4

(* A refresh returns, or goes on to mirror what the engine answered.       *)
LEMMA RefreshOutcome ==
  ASSUME Typing, NEW w \in Workers, RefreshAnswered(w)
  PROVE  \/ Return(w)
         \/ \E answer \in Answers(engine[calls[w].id]),
               at \in {"mirror", "mirrorChain"} :
              Continue(w, [calls[w] EXCEPT !.at = at, !.seen = NoRow, !.answer = answer])
<1> DEFINE call == calls[w]
           at(answer) == IF Differs(call.seen, answer) THEN "mirror" ELSE "mirrorChain"
           Mirror(answer) ==
             [call EXCEPT !.at = at(answer), !.seen = NoRow, !.answer = answer]
<1>1. PICK answer \in Answers(engine[call.id]) :
        Return(w) \/ Continue(w, Mirror(answer))
  BY DEF RefreshAnswered
<1>2. at(answer) \in {"mirror", "mirrorChain"}
  OBVIOUS
<1>3. QED
  BY <1>1, <1>2

(* Asking the engine about a request keeps them.                           *)
LEMMA RefreshTyping ==
  ASSUME Typing, NEW w \in Workers, RefreshAnswered(w) \/ RefreshFailed(w)
  PROVE  Typing' /\ EngineGrows
<1> DEFINE r == calls[w].id
<1>1. calls[w] \in Call /\ r \in Requests /\ Registered(engine[r])
  BY CallTyped DEF RefreshAnswered, RefreshFailed, At, WellFormed
<1>2. UNCHANGED <<requests, chain, history, engine>>
  BY DEF RefreshAnswered, RefreshFailed
<1>3. Answers(engine[r]) \subseteq Answer
  BY <1>1, AnswersAreTyped DEF Typing, TypeOK
<1>4. CASE Return(w)
  BY <1>2, <1>4, ReturnTyping
<1>5. ASSUME NEW answer \in Answers(engine[r]), NEW at \in {"mirror", "mirrorChain"},
             Continue(w, [calls[w] EXCEPT !.at = at, !.seen = NoRow, !.answer = answer])
      PROVE  Typing' /\ EngineGrows
  <2> DEFINE call == [calls[w] EXCEPT !.at = at, !.seen = NoRow, !.answer = answer]
  <2>1. call \in Call /\ call.at = at /\ call.id = r
    BY <1>1, <1>3, Vocabulary DEF Call, Location
  <2> HIDE DEF call
  <2>2. WellFormed(call, engine)
    BY <1>1, <2>1 DEF WellFormed
  <2>3. Continue(w, call)
    BY <1>5 DEF call
  <2>4. QED
    BY <1>2, <2>1, <2>2, <2>3, CallOnlyTyping
<1>6. QED
  BY <1>4, <1>5, RefreshOutcome DEF RefreshFailed

(* Mirroring the engine's status keeps them.                               *)
LEMMA MirrorStatusTyping ==
  ASSUME Typing, NEW w \in Workers, MirrorStatus(w)
  PROVE  Typing' /\ EngineGrows
<1> DEFINE r == calls[w].id
           answer == calls[w].answer
<1>1. calls[w] \in Call /\ r \in Requests
  BY CallTyped DEF MirrorStatus, At, WellFormed
<1>2. answer \in Answer
  BY <1>1 DEF Call
<1>3. SetApprovalDecisionResult(r, answer) /\ UNCHANGED <<chain, history, engine>>
  BY DEF MirrorStatus
<1>4. PICK call \in {Idle, [calls[w] EXCEPT !.at = "mirrorChain"]} : Continue(w, call)
  BY DEF MirrorStatus, Goto, Return
<1>5. call \in Call /\ WellFormed(call, engine)
  <2>1. CASE call = Idle
    BY <2>1, NewCalls, Vocabulary
  <2>2. CASE call = [calls[w] EXCEPT !.at = "mirrorChain"]
    <3>1. call \in Call /\ call.at = "mirrorChain" /\ call.id = r
      BY <1>1, <2>2 DEF Call, Location
    <3>2. QED
      BY <1>1, <3>1 DEF WellFormed
  <2>3. QED
    BY <2>1, <2>2
<1>6. QED
  BY <1>1, <1>2, <1>3, <1>4, <1>5, DecisionResult, RowWriteTyping DEF Typing

(* A failed statement and a crash keep them.                               *)
LEMMA FailedTyping ==
  ASSUME Typing, NEW w \in Workers,
         StatusWriteFailed(w) \/ FulfillmentWriteFailed(w) \/ Crash(w)
  PROVE  Typing' /\ EngineGrows
BY ReturnTyping DEF StatusWriteFailed, FulfillmentWriteFailed, Crash

(* The entry of an approval action is one the history knows.               *)
LEMMA ActionLabels ==
  \A action \in ApprovalAction : ActionLabel(action) \in HistoryAction
BY DEF ApprovalAction, ActionLabel, HistoryAction

(* A call that has written the chain, or failed to, goes on.               *)
LEMMA ChainWritten ==
  ASSUME Typing, NEW w \in Workers, calls[w].at \in ChainWrite
  PROVE  AfterChain(calls[w]) \in Call /\ WellFormed(AfterChain(calls[w]), engine)
<1> DEFINE old == calls[w]
           r == old.id
<1>1. old \in Call /\ r \in Requests /\ WellFormed(old, engine)
  BY CallTyped DEF ChainWrite, WellFormed
<1>2. CASE old.at = "mirrorChain"
  BY <1>2, NewCalls, Vocabulary DEF AfterChain
<1>3. CASE old.at = "syncChain"
  <2> DEFINE call == [old EXCEPT !.at = "log"]
  <2>1. call \in Call /\ call.at = "log" /\ call.id = r /\ call.arg = old.arg
    BY <1>1 DEF Call, Location
  <2> HIDE DEF call
  <2>2. QED
    BY <1>1, <1>3, <2>1 DEF AfterChain, WellFormed, call
<1>4. CASE old.at = "decisionChain"
  <2> DEFINE call == [old EXCEPT !.at = "log", !.arg = ActionLabel(old.arg)]
  <2>1. ActionLabel(old.arg) \in HistoryAction
    BY <1>1, <1>4, ActionLabels DEF WellFormed
  <2>2. /\ call \in Call /\ call.at = "log" /\ call.id = r
        /\ call.arg = ActionLabel(old.arg)
    BY <1>1, <2>1 DEF Call, Location, Argument
  <2>3. AfterChain(old) = call
    BY <1>4 DEF AfterChain
  <2> HIDE DEF call
  <2>4. QED
    BY <1>1, <2>1, <2>2, <2>3 DEF WellFormed
<1>5. QED
  BY <1>2, <1>3, <1>4 DEF ChainWrite

(* Writing the chain, calls go on from there or stay where they are.       *)
LEMMA SaveChainCalls ==
  ASSUME Typing, NEW w \in Workers, SaveChain(w)
  PROVE  \E done \in SUBSET {v \in Workers : calls[v].at \in ChainWrite} :
           calls' = [v \in Workers |->
                       IF v \in done THEN AfterChain(calls[v]) ELSE calls[v]]
<1>1. calls[w].at \in ChainWrite
  BY DEF SaveChain
<1>2. CASE Continue(w, AfterChain(calls[w]))
  <2>1. calls' = [v \in Workers |-> IF v \in {w} THEN AfterChain(calls[v]) ELSE calls[v]]
    BY <1>2 DEF Continue, Typing, TypeOK
  <2>2. QED
    BY <1>1, <2>1
<1>3. ASSUME NEW failed \in SUBSET Overlapping(w),
             calls' = [v \in Workers |->
                         IF v \in failed \cup {w} THEN AfterChain(calls[v]) ELSE calls[v]]
      PROVE  \E done \in SUBSET {v \in Workers : calls[v].at \in ChainWrite} :
               calls' = [v \in Workers |->
                           IF v \in done THEN AfterChain(calls[v]) ELSE calls[v]]
  <2>1. failed \cup {w} \in SUBSET {v \in Workers : calls[v].at \in ChainWrite}
    BY <1>1 DEF Overlapping
  <2>2. QED
    BY <1>3, <2>1
<1>4. QED
  BY <1>2, <1>3 DEF SaveChain

(* Writing the chain keeps the types.                                      *)
LEMMA SaveChainTyping ==
  ASSUME Typing, NEW w \in Workers, SaveChain(w)
  PROVE  Typing' /\ EngineGrows
<1> DEFINE old == calls[w]
           r == old.id
           revised == CASE old.at = "mirrorChain" -> old.revised
                        [] old.at = "syncChain" -> FALSE
                        [] old.at = "decisionChain" -> old.arg = "revision"
<1>1. old \in Call /\ r \in Requests /\ WellFormed(old, engine)
  BY CallTyped DEF SaveChain, ChainWrite, WellFormed
<1>2. old.answer \in Answer /\ old.at \in {"mirrorChain", "syncChain", "decisionChain"}
  BY <1>1 DEF Call, SaveChain, ChainWrite
<1>3. revised \in BOOLEAN
  BY <1>1, <1>2 DEF Call
<1>4. UNCHANGED <<requests, history, engine>>
  BY DEF SaveChain
<1>5. chain' \in [Requests -> [Steps -> StepStatus] \cup {<<>>}]
  <2>1. SaveApprovalSteps(r, old.answer, revised) \/ UNCHANGED chain
    BY DEF SaveChain
  <2> HIDE DEF revised
  <2>2. MapEngineStepsToItems(old.answer, revised) \in [Steps -> StepStatus]
    BY <1>2, <1>3, Translations
  <2>3. QED
    BY <1>1, <2>1, <2>2 DEF SaveApprovalSteps, Typing, TypeOK
<1>6. EngineGrows
  BY <1>4, EngineStutters DEF Typing
<1>7. PICK done \in SUBSET {v \in Workers : calls[v].at \in ChainWrite} :
        calls' = [v \in Workers |-> IF v \in done THEN AfterChain(calls[v]) ELSE calls[v]]
  BY SaveChainCalls
<1>8. ASSUME NEW v \in Workers
      PROVE  calls'[v] \in Call /\ WellFormed(calls'[v], engine)
  <2>1. CASE v \in done
    BY <1>7, <2>1, ChainWritten
  <2>2. CASE v \notin done
    BY <1>7, <2>2, CallTyped
  <2>3. QED
    BY <2>1, <2>2
<1>9. calls' \in [Workers -> Call]
  BY <1>7, <1>8
<1>10. QED
  BY <1>4, <1>5, <1>6, <1>8, <1>9
  DEF Typing, TypeOK, RefIsRegistered, CallsAreWellFormed

(* Writing the history keeps them.                                         *)
LEMMA LogEventTyping ==
  ASSUME Typing, NEW w \in Workers, LogEvent(w)
  PROVE  Typing' /\ EngineGrows
<1> DEFINE old == calls[w]
           r == old.id
<1>1. old \in Call /\ r \in Requests /\ old.arg \in HistoryAction
  BY CallTyped DEF LogEvent, At, WellFormed
<1>2. UNCHANGED <<requests, chain, engine>>
  BY DEF LogEvent
<1>3. history' \in [Requests -> SUBSET HistoryAction]
  BY <1>1 DEF LogEvent, AddHistory, Typing, TypeOK
<1>4. PICK call \in {[Idle EXCEPT !.at = "nextRetry", !.backlog = old.backlog],
                     CallOn(r, "detail", "detail")} : Continue(w, call)
  BY DEF LogEvent
<1>5. call \in Call /\ WellFormed(call, engine)
  <2>1. CASE call = [Idle EXCEPT !.at = "nextRetry", !.backlog = old.backlog]
    <3>1. call \in Call /\ call.at = "nextRetry"
      BY <1>1, <2>1, Vocabulary DEF Call, Location
    <3>2. QED
      BY <3>1 DEF WellFormed
  <2>2. CASE call = CallOn(r, "detail", "detail")
    <3>1. call \in Call /\ call.at = "detail" /\ call.id = r
      BY <1>1, <2>2, NewCalls DEF Location, Argument
    <3>2. QED
      BY <1>1, <3>1 DEF WellFormed
  <2>3. QED
    BY <2>1, <2>2
<1>6. EngineGrows
  BY <1>2, EngineStutters DEF Typing
<1>7. calls' \in [Workers -> Call] /\ CallsAreWellFormed'
  BY <1>2, <1>4, <1>5, <1>6, CallStep DEF Typing
<1>8. QED
  BY <1>2, <1>3, <1>6, <1>7 DEF Typing, TypeOK, RefIsRegistered

(* Every approval action is one of the engine's two decisions.             *)
LEMMA EngineDecisions ==
  \A action : ApprovalEngineDecision(action) \in {"approved", "rejected"}
BY DEF ApprovalEngineDecision

(* Relaying a decision to the engine keeps the types.                      *)
LEMMA DecideTyping ==
  ASSUME Typing, NEW w \in Workers, DecideAnswered(w) \/ DecideFailed(w)
  PROVE  Typing' /\ EngineGrows
<1> DEFINE old == calls[w]
           r == old.id
           decision == ApprovalEngineDecision(old.arg)
<1>1. old \in Call /\ r \in Requests /\ old.arg \in ApprovalAction
  BY CallTyped DEF DecideAnswered, DecideFailed, At, WellFormed
<1>2. UNCHANGED <<requests, chain, history>>
  BY DEF DecideAnswered, DecideFailed
<1>3. CASE DecideAnswered(w)
  <2>1. engine[r].status = "pending"
    BY <1>3 DEF DecideAnswered
  <2>2. PICK e \in Decided(engine[r], decision) :
          /\ engine' = [engine EXCEPT ![r] = e]
          /\ \E answer \in Answers(e) :
               Continue(w, [old EXCEPT !.at = "record", !.answer = answer])
    BY <1>3 DEF DecideAnswered
  <2>3. EngineGrows /\ Answers(e) \subseteq Answer
    BY <1>1, <2>1, <2>2, EngineDecisions, DecisionGrows DEF Typing
  <2>4. PICK answer \in Answers(e) :
          Continue(w, [old EXCEPT !.at = "record", !.answer = answer])
    BY <2>2
  <2> DEFINE call == [old EXCEPT !.at = "record", !.answer = answer]
  <2>5. call \in Call /\ call.at = "record" /\ call.id = r /\ call.arg = old.arg
    BY <1>1, <2>3 DEF Call, Location
  <2>6. Continue(w, call)
    BY <2>4
  <2> HIDE DEF call
  <2>7. WellFormed(call, engine')
    BY <1>1, <2>5 DEF WellFormed
  <2>8. calls' \in [Workers -> Call] /\ CallsAreWellFormed'
    BY <2>3, <2>5, <2>6, <2>7, CallStep DEF Typing
  <2>9. QED
    BY <1>2, <2>3, <2>8 DEF Typing, TypeOK, RefIsRegistered, EngineGrows
<1>4. CASE DecideFailed(w)
  <2>1. EngineGrows
    <3>1. CASE UNCHANGED engine
      BY <3>1, EngineStutters DEF Typing
    <3>2. ASSUME engine[r].status = "pending",
                 NEW e \in Decided(engine[r], decision),
                 engine' = [engine EXCEPT ![r] = e]
          PROVE  EngineGrows
      BY <1>1, <3>2, EngineDecisions, DecisionGrows DEF Typing
    <3>3. QED
      BY <1>4, <3>1, <3>2 DEF DecideFailed
  <2>2. calls' \in [Workers -> Call] /\ CallsAreWellFormed'
    BY <1>4, <2>1, NewCalls, Vocabulary, CallStep DEF Typing, DecideFailed, Return
  <2>3. QED
    BY <1>2, <2>1, <2>2 DEF Typing, TypeOK, RefIsRegistered, EngineGrows
<1>5. QED
  BY <1>3, <1>4

(* Recording the decision's outcome keeps them.                            *)
LEMMA RecordDecisionTyping ==
  ASSUME Typing, NEW w \in Workers, RecordDecision(w)
  PROVE  Typing' /\ EngineGrows
<1> DEFINE old == calls[w]
           r == old.id
           inChain == [old EXCEPT !.at = "decisionChain"]
           inLog == [old EXCEPT !.at = "log", !.arg = ActionLabel(old.arg)]
<1>1. old \in Call /\ r \in Requests /\ old.arg \in ApprovalAction
  BY CallTyped DEF RecordDecision, At, WellFormed
<1>2. old.answer \in Answer
  BY <1>1 DEF Call
<1>3. SetApprovalDecisionResult(r, old.answer) /\ UNCHANGED <<chain, history, engine>>
  BY DEF RecordDecision
<1>4. Continue(w, inChain) \/ Continue(w, inLog)
  BY DEF RecordDecision
<1>5. inChain \in Call /\ WellFormed(inChain, engine)
  <2>1. /\ inChain \in Call /\ inChain.at = "decisionChain"
        /\ inChain.id = r /\ inChain.arg = old.arg
    BY <1>1 DEF Call, Location
  <2> HIDE DEF inChain
  <2>2. QED
    BY <1>1, <2>1 DEF WellFormed
<1>6. inLog \in Call /\ WellFormed(inLog, engine)
  <2>1. ActionLabel(old.arg) \in HistoryAction
    BY <1>1, ActionLabels
  <2>2. /\ inLog \in Call /\ inLog.at = "log"
        /\ inLog.id = r /\ inLog.arg = ActionLabel(old.arg)
    BY <1>1, <2>1 DEF Call, Location, Argument
  <2> HIDE DEF inLog
  <2>3. QED
    BY <1>1, <2>1, <2>2 DEF WellFormed
<1> HIDE DEF inChain, inLog
<1>7. QED
  BY <1>1, <1>2, <1>3, <1>4, <1>5, <1>6, DecisionResult, RowWriteTyping DEF Typing

(* Shipping and advancing keep them.                                       *)
LEMMA FulfillmentTyping ==
  ASSUME Typing, NEW w \in Workers, SaveFulfillmentData(w) \/ AdvanceFulfillment(w)
  PROVE  Typing' /\ EngineGrows
<1> DEFINE old == calls[w]
           r == old.id
<1>1. old \in Call /\ r \in Requests
  BY CallTyped DEF SaveFulfillmentData, AdvanceFulfillment, At, WellFormed
<1>2. UNCHANGED <<chain, history, engine>>
  BY DEF SaveFulfillmentData, AdvanceFulfillment
<1>3. ASSUME NEW label \in {"Shipped", "Delivered", "Completed"}
      PROVE  LET call == [old EXCEPT !.at = "log", !.arg = label]
             IN call \in Call /\ WellFormed(call, engine)
  <2> DEFINE call == [old EXCEPT !.at = "log", !.arg = label]
  <2>1. call \in Call /\ call.at = "log" /\ call.id = r /\ call.arg = label
    BY <1>1 DEF Call, Location, Argument, HistoryAction
  <2> HIDE DEF call
  <2>2. call \in Call /\ WellFormed(call, engine)
    BY <1>1, <2>1 DEF WellFormed, HistoryAction
  <2>3. QED
    BY <2>2 DEF call
<1>4. CASE Return(w) /\ UNCHANGED requests
  BY <1>2, <1>4, ReturnTyping
<1>5. CASE /\ SaveFulfillmentData(w)
           /\ RecordFulfillmentData(r, old.arg)
           /\ Continue(w, [old EXCEPT !.at = "log", !.arg = "Shipped"])
  <2>1. old.arg \in Payloads
    BY <1>5, CallTyped DEF SaveFulfillmentData, At, WellFormed
  <2>2. QED
    BY <1>1, <1>2, <1>3, <1>5, <2>1, FulfillmentData, RowWriteTyping DEF Typing
<1>6. CASE /\ Advances(requests[r])
           /\ AdvanceStage(r)
           /\ \E label \in {"Delivered", "Completed"} :
                Continue(w, [old EXCEPT !.at = "log", !.arg = label])
  <2>1. PICK label \in {"Delivered", "Completed"} :
          Continue(w, [old EXCEPT !.at = "log", !.arg = label])
    BY <1>6
  <2>2. QED
    BY <1>1, <1>2, <1>3, <1>6, <2>1, NextStage, RowWriteTyping DEF Typing
<1>7. CASE SaveFulfillmentData(w)
  BY <1>4, <1>5, <1>7 DEF SaveFulfillmentData
<1>8. CASE AdvanceFulfillment(w)
  <2> DEFINE label == IF requests[r].fulfillment_step + 1 >= 3
                      THEN "Completed" ELSE "Delivered"
  <2>1. label \in {"Delivered", "Completed"}
    OBVIOUS
  <2>2. CASE Advances(requests[r])
    <3>1. AdvanceStage(r) /\ Continue(w, [old EXCEPT !.at = "log", !.arg = label])
      BY <1>8, <2>2 DEF AdvanceFulfillment
    <3> HIDE DEF label
    <3>2. QED
      BY <1>6, <2>1, <2>2, <3>1
  <2>3. CASE ~Advances(requests[r])
    BY <1>4, <1>8, <2>3 DEF AdvanceFulfillment
  <2>4. QED
    BY <2>2, <2>3
<1>9. QED
  BY <1>7, <1>8

(* A decision in the engine's inbox keeps them.                            *)
LEMMA InboxTyping ==
  ASSUME Typing, NEW r \in Requests, InboxDecision(r)
  PROVE  Typing' /\ EngineGrows
<1>1. PICK decision \in {"approved", "rejected"} :
        \E e \in Decided(engine[r], decision) : engine' = [engine EXCEPT ![r] = e]
  BY DEF InboxDecision
<1>2. PICK e \in Decided(engine[r], decision) : engine' = [engine EXCEPT ![r] = e]
  BY <1>1
<1>3. EngineGrows
  BY <1>2, DecisionGrows DEF Typing, InboxDecision
<1>4. UNCHANGED <<requests, chain, history, calls>>
  BY DEF InboxDecision
<1>5. CallsAreWellFormed'
  BY <1>3, <1>4 DEF Typing, CallsAreWellFormed, WellFormed, EngineGrows
<1>6. QED
  BY <1>3, <1>4, <1>5 DEF Typing, TypeOK, RefIsRegistered, EngineGrows

(* Every step keeps the types, and the engine its promises.                *)
LEMMA NextTyping ==
  ASSUME Typing, [Next]_vars
  PROVE  Typing' /\ EngineGrows
<1>1. CASE UNCHANGED vars
  BY <1>1, EngineStutters
  DEF vars, Typing, TypeOK, CallsAreWellFormed, RefIsRegistered
<1>2. ASSUME NEW w \in Workers, Start(w) \/ Step(w) \/ Crash(w)
      PROVE  Typing' /\ EngineGrows
  BY <1>2, StartTyping, RegisterTyping, MarkSyncPendingTyping, SaveEngineRefTyping,
     RetryNextTyping, ReadTyping, RefreshTyping, MirrorStatusTyping, FailedTyping,
     SaveChainTyping, LogEventTyping, DecideTyping, RecordDecisionTyping,
     FulfillmentTyping
  DEF Step
<1>3. ASSUME NEW r \in Requests, InboxDecision(r)
      PROVE  Typing' /\ EngineGrows
  BY <1>3, InboxTyping
<1>4. QED
  BY <1>1, <1>2, <1>3 DEF Next

(* The service only ever holds the rows, chains, histories and calls it    *)
(* was written for.                                                        *)
THEOREM TypesAreKept == Spec => []TypeOK
<1>1. Typing /\ [Next]_vars => Typing'
  BY NextTyping
<1>2. Typing => TypeOK
  BY DEF Typing
<1>3. QED
  BY <1>1, <1>2, InitTyping, PTL DEF Spec

---------------------------------------------------------------------------
(* Final answers stay true, however late they are written back.            *)

(* The answer of a call is none, the one it had, or the engine's present   *)
(* one.                                                                    *)
TrueNext(w, call) ==
  \/ call.answer = NoAnswer
  \/ call.id = calls[w].id /\ call.answer = calls[w].answer
  \/ /\ call.id \in Requests
     /\ call.answer.status = engine'[call.id].status
     /\ call.answer.order = engine'[call.id].order

(* The engine's growth leaves every true final answer true.                *)
LEMMA TruthIsKept ==
  ASSUME EngineGrows, NEW call \in Call, AnswerIsTrue(call, engine)
  PROVE  AnswerIsTrue(call, engine')
<1>1. SUFFICES ASSUME call.answer.status # "pending"
               PROVE  call.id \in Requests /\ engine'[call.id].status = call.answer.status
  BY DEF AnswerIsTrue
<1>2. call.id \in Requests /\ engine[call.id].status = call.answer.status
  BY <1>1 DEF AnswerIsTrue
<1>3. call.answer.status \in {"approved", "rejected"}
  BY <1>1 DEF Call, Answer, EngineStatus
<1>4. QED
  BY <1>2, <1>3 DEF EngineGrows

(* A call that goes on with such an answer keeps all final answers true.   *)
LEMMA TruthStep ==
  ASSUME Typing, AnswersAreTrue, EngineGrows, NEW w \in Workers, NEW call,
         Continue(w, call), TrueNext(w, call)
  PROVE  AnswersAreTrue'
<1>1. SUFFICES ASSUME NEW v \in Workers
               PROVE  AnswerIsTrue(calls'[v], engine')
  BY DEF AnswersAreTrue
<1>2. AnswerIsTrue(calls[w], engine') /\ AnswerIsTrue(calls[v], engine')
  BY TruthIsKept, CallTyped DEF AnswersAreTrue
<1>3. CASE v = w
  <2>1. calls'[v] = call
    BY <1>3 DEF Continue, Typing, TypeOK
  <2>2. QED
    BY <1>2, <2>1 DEF TrueNext, AnswerIsTrue, NoAnswer
<1>4. CASE v # w
  <2>1. calls'[v] = calls[v]
    BY <1>4 DEF Continue, Typing, TypeOK
  <2>2. QED
    BY <1>2, <2>1
<1>5. QED
  BY <1>3, <1>4

(* Every step of a call, but writing the chain, goes on with such an       *)
(* answer.                                                                 *)
LEMMA StepsAreTrue ==
  ASSUME Typing, EngineGrows, NEW w \in Workers, Start(w) \/ Step(w) \/ Crash(w),
         ~SaveChain(w)
  PROVE  \E call : Continue(w, call) /\ TrueNext(w, call)
<1> DEFINE old == calls[w]
<1>1. old \in Call /\ WellFormed(old, engine)
  BY CallTyped
<1>2. Idle.answer = NoAnswer
      /\ \A r, at, arg : CallOn(r, at, arg).answer = NoAnswer
  BY DEF Idle, CallOn
<1>3. CASE Return(w)
  BY <1>2, <1>3 DEF Return, TrueNext
<1>4. CASE Start(w)
  <2>1. CASE Retry(w)
    <3> DEFINE call == [Idle EXCEPT !.at = "nextRetry", !.backlog = ListPendingApprovalSync]
    <3>1. Continue(w, call)
      BY <2>1 DEF Retry, Begin
    <3>2. call.answer = NoAnswer
      BY DEF Idle
    <3> HIDE DEF call
    <3>3. QED
      BY <3>1, <3>2 DEF TrueNext
  <2>2. ASSUME NEW r, NEW at, NEW arg, Continue(w, CallOn(r, at, arg))
        PROVE  \E call : Continue(w, call) /\ TrueNext(w, call)
    BY <1>2, <2>2 DEF TrueNext
  <2>3. QED
    BY <1>4, <2>1, <2>2 DEF Start, Create, Detail, Webhook, Decide, Save, Advance, Begin
<1>5. ASSUME NEW call, Continue(w, call), call.id = old.id, call.answer = old.answer
      PROVE  \E c : Continue(w, c) /\ TrueNext(w, c)
  BY <1>5 DEF TrueNext
<1>6. ASSUME NEW at, Continue(w, [old EXCEPT !.at = at])
      PROVE  \E c : Continue(w, c) /\ TrueNext(w, c)
  <2>1. [old EXCEPT !.at = at].id = old.id /\ [old EXCEPT !.at = at].answer = old.answer
    BY <1>1 DEF Call
  <2>2. QED
    BY <1>5, <1>6, <2>1
<1>7. ASSUME NEW at, NEW arg, Continue(w, [old EXCEPT !.at = at, !.arg = arg])
      PROVE  \E c : Continue(w, c) /\ TrueNext(w, c)
  <2>1. /\ [old EXCEPT !.at = at, !.arg = arg].id = old.id
        /\ [old EXCEPT !.at = at, !.arg = arg].answer = old.answer
    BY <1>1 DEF Call
  <2>2. QED
    BY <1>5, <1>7, <2>1
<1>8. CASE RegisterAnswered(w)
  <2>1. PICK answer \in Answers(engine'[old.id]) :
          Continue(w, [old EXCEPT !.at = "saveRef", !.answer = answer])
    BY <1>8 DEF RegisterAnswered
  <2>2. old.id \in Requests
    BY <1>1, <1>8 DEF RegisterAnswered, At, WellFormed
  <2>3. answer.status = engine'[old.id].status /\ answer.order = engine'[old.id].order
    BY <2>1 DEF Answers
  <2> DEFINE call == [old EXCEPT !.at = "saveRef", !.answer = answer]
  <2>4. call.id = old.id /\ call.answer = answer
    BY <1>1 DEF Call
  <2>5. Continue(w, call)
    BY <2>1
  <2> HIDE DEF call
  <2>6. QED
    BY <2>2, <2>3, <2>4, <2>5 DEF TrueNext
<1>9. CASE RegisterFailed(w) \/ MarkSyncPending(w)
  BY <1>6, <1>9 DEF RegisterFailed, MarkSyncPending, Goto
<1>10. CASE SaveEngineRef(w)
  BY <1>7, <1>10 DEF SaveEngineRef
<1>11. CASE RetryNext(w)
  <2>1. ASSUME NEW call, NEW backlog, NEW r, Continue(w, call),
               \/ call = [CallOn(r, "register", None) EXCEPT !.backlog = backlog]
               \/ call = [Idle EXCEPT !.at = "nextRetry", !.backlog = backlog]
        PROVE  \E c : Continue(w, c) /\ TrueNext(w, c)
    <3>1. call.answer = NoAnswer
      BY <2>1 DEF CallOn, Idle
    <3>2. QED
      BY <2>1, <3>1 DEF TrueNext
  <2>2. QED
    BY <1>3, <1>11, <2>1 DEF RetryNext
<1>12. CASE ReadRow(w)
  <2> DEFINE call == [old EXCEPT !.at = "readHistory", !.seen = requests[old.id]]
  <2>1. call.id = old.id /\ call.answer = old.answer
    BY <1>1 DEF Call
  <2>2. Return(w) \/ Continue(w, call)
    BY <1>12 DEF ReadRow
  <2> HIDE DEF call
  <2>3. QED
    BY <1>3, <1>5, <2>1, <2>2
<1>13. CASE ReadHistory(w)
  <2> DEFINE revised == "Requested revision" \in history[old.id]
             call == [old EXCEPT !.at = "refresh", !.revised = revised]
  <2>1. Continue(w, call) \/ Goto(w, "refresh")
    BY <1>13 DEF ReadHistory
  <2> HIDE DEF revised
  <2>2. call.id = old.id /\ call.answer = old.answer
    BY <1>1 DEF Call
  <2> HIDE DEF call
  <2>3. QED
    BY <1>5, <1>6, <2>1, <2>2 DEF Goto
<1>14. CASE RefreshAnswered(w)
  <2>1. ASSUME NEW answer \in Answers(engine[old.id]), NEW at \in {"mirror", "mirrorChain"},
               Continue(w, [old EXCEPT !.at = at, !.seen = NoRow, !.answer = answer])
        PROVE  \E c : Continue(w, c) /\ TrueNext(w, c)
    <3>1. old.id \in Requests
      BY <1>1, <1>14 DEF RefreshAnswered, At, WellFormed
    <3>2. answer.status = engine'[old.id].status /\ answer.order = engine'[old.id].order
      BY <1>14 DEF Answers, RefreshAnswered
    <3> DEFINE call == [old EXCEPT !.at = at, !.seen = NoRow, !.answer = answer]
    <3>3. call.id = old.id /\ call.answer = answer
      BY <1>1 DEF Call
    <3>4. Continue(w, call)
      BY <2>1
    <3> HIDE DEF call
    <3>5. QED
      BY <3>1, <3>2, <3>3, <3>4 DEF TrueNext
  <2>2. QED
    BY <1>3, <1>14, <2>1, RefreshOutcome
<1>15. CASE MirrorStatus(w)
  BY <1>3, <1>6, <1>15 DEF MirrorStatus, Goto
<1>16. CASE LogEvent(w)
  <2>1. PICK call \in {[Idle EXCEPT !.at = "nextRetry", !.backlog = old.backlog],
                       CallOn(old.id, "detail", "detail")} : Continue(w, call)
    BY <1>16 DEF LogEvent
  <2>2. call.answer = NoAnswer
    BY <1>2 DEF Idle
  <2>3. QED
    BY <2>1, <2>2 DEF TrueNext
<1>17. CASE DecideAnswered(w)
  <2>1. old.id \in Requests
    BY <1>1, <1>17 DEF DecideAnswered, At, WellFormed
  <2>2. PICK e \in Decided(engine[old.id], ApprovalEngineDecision(old.arg)) :
          /\ engine' = [engine EXCEPT ![old.id] = e]
          /\ \E answer \in Answers(e) :
               Continue(w, [old EXCEPT !.at = "record", !.answer = answer])
    BY <1>17 DEF DecideAnswered
  <2>3. PICK answer \in Answers(e) :
          Continue(w, [old EXCEPT !.at = "record", !.answer = answer])
    BY <2>2
  <2>4. answer.status = engine'[old.id].status /\ answer.order = engine'[old.id].order
    BY <2>1, <2>2, <2>3 DEF Answers, Typing, TypeOK
  <2> DEFINE call == [old EXCEPT !.at = "record", !.answer = answer]
  <2>5. call.id = old.id /\ call.answer = answer
    BY <1>1 DEF Call
  <2>6. Continue(w, call)
    BY <2>3
  <2> HIDE DEF call
  <2>7. QED
    BY <2>1, <2>4, <2>5, <2>6 DEF TrueNext
<1>18. CASE RecordDecision(w)
  BY <1>6, <1>7, <1>18 DEF RecordDecision
<1>19. CASE SaveFulfillmentData(w) \/ AdvanceFulfillment(w)
  BY <1>3, <1>7, <1>19 DEF SaveFulfillmentData, AdvanceFulfillment
<1>20. CASE \/ RefreshFailed(w) \/ StatusWriteFailed(w) \/ DecideFailed(w)
            \/ FulfillmentWriteFailed(w) \/ Crash(w)
  BY <1>3, <1>20
  DEF RefreshFailed, StatusWriteFailed, DecideFailed, FulfillmentWriteFailed, Crash
<1>21. QED
  BY <1>4, <1>8, <1>9, <1>10, <1>11, <1>12, <1>13, <1>14, <1>15, <1>16,
     <1>17, <1>18, <1>19, <1>20 DEF Step

(* Writing the chain changes no answer, or forgets it.                     *)
LEMMA ChainIsTrue ==
  ASSUME Typing, AnswersAreTrue, NEW w \in Workers, SaveChain(w)
  PROVE  AnswersAreTrue'
<1>1. UNCHANGED engine
  BY DEF SaveChain
<1>2. PICK done \in SUBSET {v \in Workers : calls[v].at \in ChainWrite} :
        calls' = [v \in Workers |-> IF v \in done THEN AfterChain(calls[v]) ELSE calls[v]]
  BY SaveChainCalls
<1>3. ASSUME NEW v \in Workers, v \in done
      PROVE  AnswerIsTrue(AfterChain(calls[v]), engine)
  <2> DEFINE old == calls[v]
  <2>1. old \in Call /\ AnswerIsTrue(old, engine) /\ old.at \in ChainWrite
    BY <1>3, CallTyped DEF AnswersAreTrue
  <2>2. CASE old.at = "mirrorChain"
    BY <2>2 DEF AfterChain, AnswerIsTrue, Idle, NoAnswer
  <2>3. CASE old.at # "mirrorChain"
    <3>1. AfterChain(old).id = old.id /\ AfterChain(old).answer = old.answer
      BY <2>1, <2>3 DEF AfterChain, ChainWrite, Call
    <3>2. QED
      BY <2>1, <3>1 DEF AnswerIsTrue
  <2>4. QED
    BY <2>2, <2>3
<1>4. ASSUME NEW v \in Workers
      PROVE  AnswerIsTrue(calls'[v], engine)
  BY <1>2, <1>3 DEF AnswersAreTrue
<1>5. QED
  BY <1>1, <1>4 DEF AnswersAreTrue, AnswerIsTrue

(* So no step makes a final answer untrue.                                 *)
LEMMA NextTruth ==
  ASSUME Typing, AnswersAreTrue, [Next]_vars
  PROVE  AnswersAreTrue'
<1>1. EngineGrows
  BY NextTyping
<1>2. CASE \E w \in Workers : Start(w) \/ Step(w) \/ Crash(w)
  BY <1>1, <1>2, StepsAreTrue, TruthStep, ChainIsTrue
<1>3. CASE UNCHANGED calls
  BY <1>1, <1>3, TruthIsKept, CallTyped DEF AnswersAreTrue
<1>4. QED
  BY <1>2, <1>3 DEF Next, vars, InboxDecision

---------------------------------------------------------------------------
(* What a step does to the progress of a request: its status, stage and    *)
(* asset data.                                                             *)

Same(r) ==
  /\ requests'[r].status = requests[r].status
  /\ requests'[r].fulfillment_step = requests[r].fulfillment_step
  /\ requests'[r].fulfillment_data = requests[r].fulfillment_data

Created(r) ==
  /\ requests[r].status = Absent
  /\ requests'[r].status = "WAITING_APPROVAL"
  /\ requests'[r].fulfillment_step = requests[r].fulfillment_step
  /\ requests'[r].fulfillment_data = requests[r].fulfillment_data

(* Mirrored from the answer of a call, by whose verdict the engine still   *)
(* stands.                                                                 *)
Mirrored(r) ==
  \E status \in EngineStatus :
    /\ \E w \in Workers :
         /\ calls[w].id = r
         /\ calls[w].at \in {"mirror", "record"}
         /\ calls[w].answer.status = status
    /\ status # "pending" => engine[r].status = status
    /\ requests'[r].status = LocalStatusForEngineStatus(status)
    /\ requests'[r].fulfillment_step =
         IF status = "approved" THEN Coalesce(requests[r].fulfillment_step)
         ELSE requests[r].fulfillment_step
    /\ requests'[r].fulfillment_data = requests[r].fulfillment_data

Shipped(r) ==
  /\ TakesFulfillmentData(requests[r])
  /\ requests'[r].status = "FULFILLMENT"
  /\ requests'[r].fulfillment_step = 1
  /\ requests'[r].fulfillment_data \in Payloads

Advanced(r) ==
  /\ Advances(requests[r])
  /\ requests'[r].status =
       IF requests[r].fulfillment_step = 2 THEN "COMPLETED" ELSE "FULFILLMENT"
  /\ requests'[r].fulfillment_step = requests[r].fulfillment_step + 1
  /\ requests'[r].fulfillment_data = requests[r].fulfillment_data

Moved(r) == Created(r) \/ Mirrored(r) \/ Shipped(r) \/ Advanced(r)

(* Either one request progresses, or the engine does, or neither.          *)
OneMoves ==
  \E r \in Requests :
    /\ Moved(r) \/ Same(r)
    /\ \A s \in Requests \ {r} : Same(s)
    /\ UNCHANGED engine

EngineMoves ==
  \E r \in Requests :
    /\ \A s \in Requests : Same(s)
    /\ engine' \in [Requests -> EngineRequest]
    /\ \A s \in Requests \ {r} : engine'[s] = engine[s]

(* A row written by a call is that of a request that moves.                *)
LEMMA WritesMove ==
  ASSUME Typing, AnswersAreTrue, NEW w \in Workers, calls[w].id \in Requests,
         LET call == calls[w] IN
         \/ SetApprovalEngineRef(call.id, call.answer)
         \/ SetApprovalSyncPending(call.id)
         \/ /\ call.at \in {"mirror", "record"}
            /\ SetApprovalDecisionResult(call.id, call.answer)
         \/ /\ call.arg \in Payloads
            /\ TakesFulfillmentData(requests[call.id])
            /\ RecordFulfillmentData(call.id, call.arg)
         \/ Advances(requests[call.id]) /\ AdvanceStage(call.id),
         UNCHANGED engine
  PROVE  OneMoves
<1> DEFINE r == calls[w].id
           answer == calls[w].answer
<1>1. answer \in Answer
  BY CallTyped DEF Call
<1>2. answer.status \in EngineStatus
  BY <1>1 DEF Answer
<1>3. SUFFICES (Moved(r) \/ Same(r)) /\ \A s \in Requests \ {r} : requests'[s] = requests[s]
  BY DEF OneMoves, Same
<1>4. CASE SetApprovalEngineRef(r, answer)
  BY <1>1, <1>4, EngineRef DEF Typing, Same
<1>5. CASE SetApprovalSyncPending(r)
  BY <1>5, SyncPending DEF Typing, Same
<1>6. CASE calls[w].at \in {"mirror", "record"} /\ SetApprovalDecisionResult(r, answer)
  <2>1. /\ answer.status # "pending" => engine[r].status = answer.status
        /\ \E v \in Workers :
             /\ calls[v].id = r
             /\ calls[v].at \in {"mirror", "record"}
             /\ calls[v].answer.status = answer.status
    BY <1>6 DEF AnswersAreTrue, AnswerIsTrue
  <2> HIDE DEF answer
  <2>2. /\ \A s \in Requests \ {r} : requests'[s] = requests[s]
        /\ requests'[r].status = LocalStatusForEngineStatus(answer.status)
        /\ requests'[r].fulfillment_data = requests[r].fulfillment_data
        /\ requests'[r].fulfillment_step =
             IF answer.status = "approved" THEN Coalesce(requests[r].fulfillment_step)
             ELSE requests[r].fulfillment_step
    BY <1>1, <1>6, DecisionResult DEF Typing
  <2>3. Mirrored(r)
    BY <1>2, <2>1, <2>2 DEF Mirrored
  <2>4. QED
    BY <2>2, <2>3 DEF Moved
<1>7. CASE /\ calls[w].arg \in Payloads
           /\ TakesFulfillmentData(requests[r])
           /\ RecordFulfillmentData(r, calls[w].arg)
  BY <1>7, FulfillmentData DEF Typing, Moved, Shipped
<1>8. CASE Advances(requests[r]) /\ AdvanceStage(r)
  BY <1>8, NextStage DEF Typing, Moved, Advanced
<1>9. QED
  BY <1>4, <1>5, <1>6, <1>7, <1>8

(* Every step moves one request, or the engine.                            *)
LEMMA NextMoves ==
  ASSUME Typing, AnswersAreTrue, [Next]_vars
  PROVE  OneMoves \/ EngineMoves \/ UNCHANGED <<requests, engine>>
<1>1. Typing'
  BY NextTyping
<1>2. ASSUME NEW r \in Requests, engine' = [engine EXCEPT ![r] = engine'[r]],
             UNCHANGED requests
      PROVE  EngineMoves
  BY <1>1, <1>2 DEF EngineMoves, Same, Typing, TypeOK
<1>3. ASSUME NEW w \in Workers, NEW r \in Requests, Create(w, r)
      PROVE  OneMoves
  <2>1. Created(r) /\ \A s \in Requests \ {r} : Same(s)
    BY <1>3 DEF Create, Created, Same, Typing, TypeOK, Row
  <2>2. QED
    BY <1>3, <2>1 DEF OneMoves, Moved, Create
<1>4. ASSUME NEW w \in Workers, Start(w)
      PROVE  OneMoves \/ UNCHANGED <<requests, engine>>
  BY <1>3, <1>4 DEF Start, Retry, Detail, Webhook, Decide, Save, Advance
<1>5. ASSUME NEW w \in Workers,
             \/ RegisterAnswered(w) \/ RegisterFailed(w)
             \/ DecideAnswered(w) \/ DecideFailed(w)
      PROVE  EngineMoves \/ UNCHANGED <<requests, engine>>
  <2> DEFINE r == calls[w].id
  <2>1. r \in Requests
    BY <1>5, CallTyped
    DEF RegisterAnswered, RegisterFailed, DecideAnswered, DecideFailed, At, WellFormed
  <2>2. UNCHANGED requests
    BY <1>5 DEF RegisterAnswered, RegisterFailed, DecideAnswered, DecideFailed
  <2>3. UNCHANGED engine \/ \E e : engine' = [engine EXCEPT ![r] = e]
    BY <1>5 DEF RegisterAnswered, RegisterFailed, DecideAnswered, DecideFailed
  <2>4. UNCHANGED engine \/ engine' = [engine EXCEPT ![r] = engine'[r]]
    BY <2>1, <2>3 DEF Typing, TypeOK
  <2>5. QED
    BY <1>2, <2>1, <2>2, <2>4
<1>6. ASSUME NEW r \in Requests, InboxDecision(r)
      PROVE  EngineMoves
  <2>1. UNCHANGED requests /\ \E e : engine' = [engine EXCEPT ![r] = e]
    BY <1>6 DEF InboxDecision
  <2>2. engine' = [engine EXCEPT ![r] = engine'[r]]
    BY <2>1 DEF Typing, TypeOK
  <2>3. QED
    BY <1>2, <2>1, <2>2
<1>7. ASSUME NEW w \in Workers,
             \/ MarkSyncPending(w) \/ SaveEngineRef(w) \/ MirrorStatus(w)
             \/ RecordDecision(w) \/ SaveFulfillmentData(w) \/ AdvanceFulfillment(w)
      PROVE  OneMoves \/ UNCHANGED <<requests, engine>>
  <2>1. calls[w].id \in Requests /\ (At(w, "save") => calls[w].arg \in Payloads)
    BY <1>7, CallTyped
    DEF MarkSyncPending, SaveEngineRef, MirrorStatus, RecordDecision,
        SaveFulfillmentData, AdvanceFulfillment, At, WellFormed
  <2>2. CASE MarkSyncPending(w) \/ SaveEngineRef(w) \/ MirrorStatus(w) \/ RecordDecision(w)
    BY <2>1, <2>2, WritesMove
    DEF MarkSyncPending, SaveEngineRef, MirrorStatus, RecordDecision, At
  <2>3. CASE SaveFulfillmentData(w) \/ AdvanceFulfillment(w)
    BY <2>1, <2>3, WritesMove DEF SaveFulfillmentData, AdvanceFulfillment
  <2>4. QED
    BY <1>7, <2>2, <2>3
<1>8. ASSUME NEW w \in Workers,
             \/ RetryNext(w) \/ ReadRow(w) \/ ReadHistory(w) \/ RefreshAnswered(w)
             \/ RefreshFailed(w) \/ StatusWriteFailed(w) \/ SaveChain(w) \/ LogEvent(w)
             \/ FulfillmentWriteFailed(w) \/ Crash(w)
      PROVE  UNCHANGED <<requests, engine>>
  BY <1>8
  DEF RetryNext, ReadRow, ReadHistory, RefreshAnswered, RefreshFailed,
      StatusWriteFailed, SaveChain, LogEvent, FulfillmentWriteFailed, Crash
<1>9. QED
  BY <1>4, <1>5, <1>6, <1>7, <1>8 DEF Next, Step, vars

---------------------------------------------------------------------------
(* Safety: the engine backs every status, and stage and data agree.        *)

(* A move leaves each request's status, stage and data backed and agreed.  *)
LEMMA MovesAreSafe ==
  ASSUME IInv, Typing', EngineGrows, NEW r \in Requests, Same(r) \/ Moved(r)
  PROVE  LET row == requests'[r] IN
         /\ \/ row.status \in PastApproval \cup {"APPROVED"}
            \/ row.fulfillment_step # Unset
            \/ row.fulfillment_data # None
            => engine'[r].status = "approved"
         /\ row.status = "REJECTED" => engine'[r].status = "rejected"
         /\ row.fulfillment_data # None <=> row.fulfillment_step >= 1
         /\ row.status = "FULFILLMENT" => row.fulfillment_step \in {1, 2}
         /\ row.status = "COMPLETED" => row.fulfillment_step = 3
<1> DEFINE old == requests[r]
           row == requests'[r]
<1>1. /\ \/ old.status \in PastApproval \cup {"APPROVED"}
         \/ old.fulfillment_step # Unset
         \/ old.fulfillment_data # None
         => engine[r].status = "approved"
      /\ old.status = "REJECTED" => engine[r].status = "rejected"
  BY DEF IInv, EngineBacksStatus
<1>2. /\ old.fulfillment_data # None <=> old.fulfillment_step >= 1
      /\ old.status = "FULFILLMENT" => old.fulfillment_step \in {1, 2}
      /\ old.status = "COMPLETED" => old.fulfillment_step = 3
  BY DEF IInv, StageMatchesData
<1>3. /\ engine[r].status = "approved" => engine'[r].status = "approved"
      /\ engine[r].status = "rejected" => engine'[r].status = "rejected"
  BY DEF EngineGrows
<1>4. old.fulfillment_step \in FulfillmentStep
  BY DEF IInv, TypeOK, Row
<1>5. CASE Same(r) \/ Created(r)
  BY <1>1, <1>2, <1>3, <1>5 DEF Same, Created, PastApproval
<1>6. CASE Mirrored(r)
  <2>1. PICK status \in EngineStatus :
          /\ status # "pending" => engine[r].status = status
          /\ row.status = LocalStatusForEngineStatus(status)
          /\ row.fulfillment_step =
               IF status = "approved" THEN Coalesce(old.fulfillment_step)
               ELSE old.fulfillment_step
          /\ row.fulfillment_data = old.fulfillment_data
    BY <1>6 DEF Mirrored
  <2>2. CASE status = "approved"
    BY <1>1, <1>2, <1>3, <1>4, <2>1, <2>2
    DEF LocalStatusForEngineStatus, Coalesce, FulfillmentStep, Unset, PastApproval
  <2>3. CASE status # "approved"
    <3>1. row.status \in {"WAITING_APPROVAL", "REJECTED"}
          /\ (row.status = "REJECTED" => status = "rejected")
      BY <2>1, <2>3 DEF LocalStatusForEngineStatus
    <3>2. QED
      BY <1>1, <1>2, <1>3, <2>1, <2>3, <3>1 DEF PastApproval
  <2>4. QED
    BY <2>2, <2>3
<1>7. CASE Shipped(r)
  <2>1. engine'[r].status = "approved"
    BY <1>1, <1>3, <1>7 DEF Shipped, TakesFulfillmentData, PastApproval
  <2>2. row.fulfillment_data # None
    BY <1>7, Vocabulary DEF Shipped
  <2>3. QED
    BY <1>7, <2>1, <2>2 DEF Shipped
<1>8. CASE Advanced(r)
  <2>1. engine'[r].status = "approved" /\ old.fulfillment_step \in {1, 2}
    BY <1>1, <1>3, <1>8 DEF Advanced, Advances, PastApproval
  <2>2. QED
    BY <1>2, <1>8, <2>1 DEF Advanced
<1>9. QED
  BY <1>5, <1>6, <1>7, <1>8 DEF Moved

(* The invariant holds at first.                                           *)
LEMMA InitInv == Init => IInv
<1> SUFFICES ASSUME Init PROVE IInv
  OBVIOUS
<1>1. Typing
  BY InitTyping
<1>2. AnswersAreTrue
  BY DEF Init, AnswersAreTrue, AnswerIsTrue, Idle, NoAnswer
<1>3. ASSUME NEW r \in Requests
      PROVE  /\ requests[r].fulfillment_step = Unset
             /\ requests[r].fulfillment_data = None
             /\ requests[r].status \in {Absent, "APPROVED"}
             /\ requests[r].status = "APPROVED" => engine[r].status = "approved"
  <2>1. CASE r \in Legacy
    BY <2>1 DEF Init, LegacyRow, NoRow
  <2>2. CASE r \notin Legacy
    BY <2>2 DEF Init, NoRow, Absent
  <2>3. QED
    BY <2>1, <2>2
<1>4. EngineBacksStatus
  BY <1>3 DEF EngineBacksStatus, PastApproval, Absent
<1>5. StageMatchesData
  <2>1. ASSUME NEW r \in Requests
        PROVE  /\ ~(requests[r].fulfillment_step >= 1)
               /\ requests[r].fulfillment_data = None
               /\ requests[r].status \notin {"FULFILLMENT", "COMPLETED"}
    <3>1. ~(Unset >= 1)
      BY DEF Unset
    <3>2. requests[r].status \in {Absent, "APPROVED"}
      BY <1>3
    <3>3. requests[r].status \notin {"FULFILLMENT", "COMPLETED"}
      BY <3>2 DEF Absent
    <3>4. QED
      BY <1>3, <3>1, <3>3
  <2>2. QED
    BY <2>1 DEF StageMatchesData
<1>6. QED
  BY <1>1, <1>2, <1>4, <1>5 DEF IInv, Typing

(* Every step keeps it.                                                    *)
LEMMA NextInv ==
  ASSUME IInv, [Next]_vars
  PROVE  IInv'
<1>1. Typing /\ AnswersAreTrue
  BY DEF IInv, Typing
<1>2. Typing' /\ EngineGrows /\ AnswersAreTrue'
  BY <1>1, NextTyping, NextTruth
<1>3. \A r \in Requests : Same(r) \/ Moved(r)
  BY <1>1, NextMoves DEF OneMoves, EngineMoves, Same
<1>4. EngineBacksStatus'
  BY <1>2, <1>3, MovesAreSafe DEF EngineBacksStatus
<1>5. StageMatchesData'
  BY <1>2, <1>3, MovesAreSafe DEF StageMatchesData
<1>6. QED
  BY <1>2, <1>4, <1>5 DEF IInv, Typing

(* The inductive invariant holds throughout.                               *)
THEOREM Invariance == Spec => []IInv
<1>1. IInv /\ [Next]_vars => IInv'
  BY NextInv
<1>2. QED
  BY <1>1, InitInv, PTL DEF Spec

(* No overlap of calls, stale answer, failed write or crash ever lets a    *)
(* request's status or fulfillment run ahead of the engine's verdict.      *)
THEOREM EngineBacksStatusAlways == Spec => []EngineBacksStatus
<1>1. IInv => EngineBacksStatus
  BY DEF IInv
<1>2. QED
  BY <1>1, Invariance, PTL

(* The three statements that write status, stage and asset data keep them  *)
(* in agreement.                                                           *)
THEOREM StageMatchesDataAlways == Spec => []StageMatchesData
<1>1. IInv => StageMatchesData
  BY DEF IInv
<1>2. QED
  BY <1>1, Invariance, PTL

---------------------------------------------------------------------------
(* Refinement: the service implements the fulfillment ledger.              *)

(* Verdict, stage and asset of the ledger, as functions.                   *)
verdictOf == [r \in Requests |-> VerdictOf(engine[r])]
stageOf == [r \in Requests |-> requests[r].fulfillment_step]
assetOf == [r \in Requests |-> requests[r].fulfillment_data]

(* A request that moves takes at most a step of the ledger.                *)
LEMMA MoveImplements ==
  ASSUME IInv, OneMoves
  PROVE  Ledger!Next \/ UNCHANGED <<verdictOf, stageOf, assetOf>>
<1>1. PICK r \in Requests : (Moved(r) \/ Same(r)) /\ \A s \in Requests \ {r} : Same(s)
  BY DEF OneMoves
<1>2. UNCHANGED engine
  BY DEF OneMoves
<1>3. UNCHANGED verdictOf
  BY <1>2 DEF verdictOf, VerdictOf
<1>4. stageOf' = [stageOf EXCEPT ![r] = requests'[r].fulfillment_step]
  BY <1>1 DEF stageOf, Same
<1>5. assetOf' = [assetOf EXCEPT ![r] = requests'[r].fulfillment_data]
  BY <1>1 DEF assetOf, Same
<1>6. /\ stageOf[r] = requests[r].fulfillment_step
      /\ assetOf[r] = requests[r].fulfillment_data
      /\ verdictOf[r] = VerdictOf(engine[r])
      /\ stageOf = [stageOf EXCEPT ![r] = stageOf[r]]
      /\ assetOf = [assetOf EXCEPT ![r] = assetOf[r]]
  BY DEF stageOf, assetOf, verdictOf
<1>7. requests[r].fulfillment_step \in FulfillmentStep
  BY DEF IInv, TypeOK, Row
<1>8. CASE Same(r) \/ Created(r)
  BY <1>3, <1>4, <1>5, <1>6, <1>8 DEF Same, Created
<1>9. CASE Mirrored(r)
  <2>1. PICK status \in EngineStatus :
          /\ status # "pending" => engine[r].status = status
          /\ requests'[r].fulfillment_step =
               IF status = "approved" THEN Coalesce(requests[r].fulfillment_step)
               ELSE requests[r].fulfillment_step
          /\ requests'[r].fulfillment_data = requests[r].fulfillment_data
    BY <1>9 DEF Mirrored
  <2>2. UNCHANGED assetOf
    BY <1>5, <1>6, <2>1
  <2>3. CASE status = "approved" /\ requests[r].fulfillment_step = -1
    <3>1. requests'[r].fulfillment_step = 0
      BY <2>1, <2>3 DEF Coalesce, Unset
    <3>2. verdictOf[r] = "approved"
      BY <1>6, <2>1, <2>3 DEF VerdictOf
    <3>3. Ledger!Process(r)
      BY <1>3, <1>4, <1>6, <2>2, <2>3, <3>1, <3>2
      DEF Ledger!Process, stageOf, assetOf, verdictOf
    <3>4. QED
      BY <3>3 DEF Ledger!Next
  <2>4. CASE ~(status = "approved" /\ requests[r].fulfillment_step = -1)
    <3>1. requests'[r].fulfillment_step = requests[r].fulfillment_step
      BY <2>1, <2>4 DEF Coalesce, Unset
    <3>2. QED
      BY <1>3, <1>4, <1>6, <2>2, <3>1
  <2>5. QED
    BY <2>3, <2>4
<1>10. CASE Shipped(r)
  <2>1. engine[r].status = "approved" /\ requests[r].fulfillment_step \in {-1, 0}
    BY <1>7, <1>10
    DEF Shipped, TakesFulfillmentData, IInv, EngineBacksStatus, PastApproval,
        Coalesce, FulfillmentStep, Unset
  <2>2. PICK payload \in Payloads : payload = requests'[r].fulfillment_data
    BY <1>10 DEF Shipped
  <2>3. Ledger!Ship(r, payload)
    BY <1>3, <1>4, <1>5, <1>6, <1>10, <2>1, <2>2
    DEF Ledger!Ship, Shipped, VerdictOf, stageOf, assetOf, verdictOf
  <2>4. QED
    BY <2>3 DEF Ledger!Next
<1>11. CASE Advanced(r)
  <2>1. requests[r].fulfillment_step \in {1, 2}
    BY <1>11 DEF Advanced, Advances
  <2>2. UNCHANGED assetOf
    BY <1>5, <1>6, <1>11 DEF Advanced
  <2>3. Ledger!Advance(r)
    BY <1>3, <1>4, <1>6, <1>11, <2>1, <2>2
    DEF Ledger!Advance, Advanced, stageOf, assetOf, verdictOf
  <2>4. QED
    BY <2>3 DEF Ledger!Next
<1>12. QED
  BY <1>1, <1>8, <1>9, <1>10, <1>11 DEF Moved

(* An engine that moves rules on at most one request, once.                *)
LEMMA RulingImplements ==
  ASSUME IInv, EngineGrows, EngineMoves
  PROVE  Ledger!Next \/ UNCHANGED <<verdictOf, stageOf, assetOf>>
<1>1. PICK r \in Requests : \A s \in Requests \ {r} : engine'[s] = engine[s]
  BY DEF EngineMoves
<1>2. UNCHANGED <<stageOf, assetOf>>
  BY DEF EngineMoves, Same, stageOf, assetOf
<1>3. verdictOf' = [verdictOf EXCEPT ![r] = VerdictOf(engine'[r])]
  BY <1>1 DEF verdictOf, VerdictOf
<1>4. verdictOf[r] = VerdictOf(engine[r]) /\ verdictOf = [verdictOf EXCEPT ![r] = verdictOf[r]]
  BY DEF verdictOf
<1>5. VerdictOf(engine'[r]) \in {"open", "approved", "rejected"}
  BY DEF VerdictOf
<1>6. VerdictOf(engine[r]) # "open" => VerdictOf(engine'[r]) = VerdictOf(engine[r])
  BY DEF VerdictOf, EngineGrows
<1>7. CASE VerdictOf(engine'[r]) = VerdictOf(engine[r])
  BY <1>2, <1>3, <1>4, <1>7
<1>8. CASE VerdictOf(engine'[r]) # VerdictOf(engine[r])
  <2>1. VerdictOf(engine[r]) = "open" /\ VerdictOf(engine'[r]) \in {"approved", "rejected"}
    BY <1>5, <1>6, <1>8
  <2>2. Ledger!Rule(r, VerdictOf(engine'[r]))
    BY <1>2, <1>3, <1>4, <2>1 DEF Ledger!Rule, stageOf, assetOf, verdictOf
  <2>3. QED
    BY <2>1, <2>2 DEF Ledger!Next
<1>9. QED
  BY <1>7, <1>8

(* Whatever calls overlap and whatever fails, an asset leaves only after   *)
(* the engine approved the request, the stages come in order and once, and *)
(* the asset data is recorded once.                                        *)
THEOREM LedgerIsImplemented == Spec => ImplementsLedger
<1>1. Init => Ledger!Init
  <2> SUFFICES ASSUME Init PROVE Ledger!Init
    OBVIOUS
  <2>1. ASSUME NEW r \in Requests
        PROVE  /\ VerdictOf(engine[r]) = IF r \in Legacy THEN "approved" ELSE "open"
               /\ requests[r].fulfillment_step = -1
               /\ requests[r].fulfillment_data = None
    BY DEF Init, VerdictOf, LegacyRow, NoRow, Unset
  <2>2. QED
    BY <2>1 DEF Ledger!Init
<1>2. IInv /\ [Next]_vars => [Ledger!Next]_(Ledger!ledger)
  <2> SUFFICES ASSUME IInv, [Next]_vars
               PROVE  Ledger!Next \/ UNCHANGED <<verdictOf, stageOf, assetOf>>
    BY DEF Ledger!ledger, verdictOf, stageOf, assetOf
  <2>1. Typing /\ AnswersAreTrue
    BY DEF IInv, Typing
  <2>2. EngineGrows /\ (OneMoves \/ EngineMoves \/ UNCHANGED <<requests, engine>>)
    BY <2>1, NextTyping, NextMoves
  <2>3. CASE UNCHANGED <<requests, engine>>
    BY <2>3 DEF verdictOf, stageOf, assetOf, VerdictOf
  <2>4. QED
    BY <2>2, <2>3, MoveImplements, RulingImplements
<1>3. QED
  BY <1>1, <1>2, Invariance, PTL DEF Spec, ImplementsLedger, Ledger!Spec
=============================================================================
