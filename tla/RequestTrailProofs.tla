------------------------- MODULE RequestTrailProofs -------------------------
(***************************************************************************)
(* Proofs that what AssetRequests keeps of the past, the cached approval   *)
(* chain and the audit trail, is true, for any number of requests, workers *)
(* and chain steps, any payloads, operations and faults.                   *)
(***************************************************************************)
EXTENDS AssetRequestsProofs

---------------------------------------------------------------------------
(* The engine's current step moves forward until the request is approved,  *)
(* and stays where a request was rejected.                                 *)
EngineAdvances ==
  \A r \in Requests :
    \/ engine'[r].status = "approved"
    \/ /\ engine[r].order =< engine'[r].order
       /\ engine[r].status = "rejected" => engine'[r].order = engine[r].order

(* A request the engine does not know is at no step.                       *)
UnknownAreUntouched == \A r \in Requests : ~Registered(engine[r]) => engine[r].order = 0

(* A decision moves a pending request on, or leaves it where it is.        *)
LEMMA DecisionAdvances ==
  ASSUME NEW e \in EngineRequest, e.status = "pending",
         NEW decision \in {"approved", "rejected"}, NEW f \in Decided(e, decision)
  PROVE  Registered(f) /\ (f.status = "approved" \/ e.order =< f.order)
<1>1. e.order \in Nat
  BY DEF EngineRequest
<1>2. CASE f = [e EXCEPT !.status = "rejected"]
  <2>1. f.status = "rejected" /\ f.order = e.order
    BY <1>2 DEF EngineRequest
  <2>2. QED
    BY <1>1, <2>1 DEF Registered
<1>3. CASE f = e
  <2>1. f.status = "pending" /\ f.order = e.order
    BY <1>3
  <2>2. QED
    BY <1>1, <2>1 DEF Registered
<1>4. CASE f = [e EXCEPT !.order = @ + 1]
  <2>1. f.status = "pending" /\ f.order = e.order + 1
    BY <1>4 DEF EngineRequest
  <2>2. QED
    BY <1>1, <2>1 DEF Registered
<1>5. CASE f = [status |-> "approved", order |-> FinalOrder]
  BY <1>5 DEF Registered
<1>6. CASE decision = "rejected"
  BY <1>2, <1>6 DEF Decided
<1>7. CASE decision = "approved"
  <2>1. \/ f = e
        \/ f = [e EXCEPT !.order = @ + 1]
        \/ f = [status |-> "approved", order |-> FinalOrder]
    BY <1>7 DEF Decided
  <2>2. QED
    BY <1>3, <1>4, <1>5, <2>1
<1>8. QED
  BY <1>6, <1>7

(* So every step of the service or the engine lets the engine advance.     *)
LEMMA NextAdvances ==
  ASSUME Typing, UnknownAreUntouched, [Next]_vars
  PROVE  EngineAdvances /\ UnknownAreUntouched'
<1>1. \A r \in Requests : engine[r] \in EngineRequest /\ engine[r].order \in Nat
  BY DEF Typing, TypeOK, EngineRequest
<1>2. CASE UNCHANGED engine
  BY <1>1, <1>2 DEF EngineAdvances, UnknownAreUntouched
<1>3. ASSUME NEW r \in Requests, NEW e,
             engine' = [engine EXCEPT ![r] = e],
             Registered(e),
             \/ e.status = "approved"
             \/ /\ engine[r].order =< e.order
                /\ engine[r].status = "rejected" => e.order = engine[r].order
      PROVE  EngineAdvances /\ UnknownAreUntouched'
  <2>1. engine'[r] = e /\ \A s \in Requests \ {r} : engine'[s] = engine[s]
    BY <1>3 DEF Typing, TypeOK
  <2>2. QED
    BY <1>1, <1>3, <2>1 DEF EngineAdvances, UnknownAreUntouched
<1>4. ASSUME NEW r \in Requests, engine' = [engine EXCEPT ![r] = Registration(@)]
      PROVE  EngineAdvances /\ UnknownAreUntouched'
  <2> DEFINE e == Registration(engine[r])
  <2>0. engine' = [engine EXCEPT ![r] = e]
    BY <1>4
  <2>1. CASE Registered(engine[r])
    <3>1. e = engine[r]
      BY <2>1 DEF Registration
    <3> HIDE DEF e
    <3>2. engine[r].order =< e.order /\ e.order = engine[r].order /\ Registered(e)
      BY <1>1, <2>1, <3>1
    <3>3. QED
      BY <1>3, <2>0, <3>2
  <2>2. CASE ~Registered(engine[r])
    <3>1. e = [status |-> "pending", order |-> 1] /\ engine[r].order = 0
      BY <2>2 DEF Registration, UnknownAreUntouched
    <3> HIDE DEF e
    <3>2. Registered(e) /\ engine[r].status # "rejected"
      BY <2>2, <3>1 DEF Registered
    <3>3. engine[r].order =< e.order
      BY <3>1
    <3>4. QED
      BY <1>3, <2>0, <3>2, <3>3
  <2>3. QED
    BY <2>1, <2>2
<1>5. ASSUME NEW r \in Requests, NEW decision \in {"approved", "rejected"},
             engine[r].status = "pending",
             NEW e \in Decided(engine[r], decision), engine' = [engine EXCEPT ![r] = e]
      PROVE  EngineAdvances /\ UnknownAreUntouched'
  BY <1>1, <1>3, <1>5, DecisionAdvances
<1>6. ASSUME NEW r \in Requests, InboxDecision(r)
      PROVE  EngineAdvances /\ UnknownAreUntouched'
  BY <1>5, <1>6 DEF InboxDecision
<1>7. ASSUME NEW w \in Workers, RegisterAnswered(w) \/ RegisterFailed(w)
      PROVE  EngineAdvances /\ UnknownAreUntouched'
  <2>1. calls[w].id \in Requests
    BY <1>7, CallTyped DEF RegisterAnswered, RegisterFailed, At, WellFormed
  <2>2. QED
    BY <1>2, <1>4, <1>7, <2>1 DEF RegisterAnswered, RegisterFailed
<1>8. ASSUME NEW w \in Workers, DecideAnswered(w) \/ DecideFailed(w)
      PROVE  EngineAdvances /\ UnknownAreUntouched'
  <2>1. calls[w].id \in Requests
    BY <1>8, CallTyped DEF DecideAnswered, DecideFailed, At, WellFormed
  <2>2. ApprovalEngineDecision(calls[w].arg) \in {"approved", "rejected"}
    BY DEF ApprovalEngineDecision
  <2>3. QED
    BY <1>2, <1>5, <1>8, <2>1, <2>2 DEF DecideAnswered, DecideFailed
<1>9. ASSUME NEW w \in Workers, Start(w) \/ Crash(w)
      PROVE  UNCHANGED engine
  BY <1>9 DEF Start, Retry, Create, Detail, Webhook, Decide, Save, Advance, Crash
<1>10. ASSUME NEW w \in Workers, Step(w),
              ~(RegisterAnswered(w) \/ RegisterFailed(w)),
              ~(DecideAnswered(w) \/ DecideFailed(w))
       PROVE  UNCHANGED engine
  BY <1>10
  DEF Step, MarkSyncPending, SaveEngineRef, RetryNext, ReadRow, ReadHistory,
      RefreshAnswered, RefreshFailed, MirrorStatus, StatusWriteFailed, SaveChain,
      LogEvent, RecordDecision, SaveFulfillmentData, AdvanceFulfillment,
      FulfillmentWriteFailed
<1>11. CASE UNCHANGED vars
  BY <1>2, <1>11 DEF vars
<1>12. QED
  BY <1>2, <1>6, <1>7, <1>8, <1>9, <1>10, <1>11 DEF Next

---------------------------------------------------------------------------
(* The cached chain.                                                       *)

(* An answer lags behind the engine: a rejection is of the step the engine *)
(* still stands at, and a step it calls current has been reached.          *)
Lags(answer, e) ==
  /\ answer.status = "rejected" => e.status = "rejected" /\ answer.order = e.order
  /\ answer.status = "pending" => e.status = "approved" \/ answer.order =< e.order

AnswersLag ==
  \A w \in Workers : calls[w].id \in Requests => Lags(calls[w].answer, engine[calls[w].id])

(* However long it is held, it goes on lagging.                            *)
LEMMA LagIsKept ==
  ASSUME Typing, Typing', EngineGrows, EngineAdvances, NEW r \in Requests,
         NEW answer \in Answer, Lags(answer, engine[r])
  PROVE  Lags(answer, engine'[r])
<1>1. /\ answer.order \in Nat
      /\ engine[r].order \in Nat /\ engine'[r].order \in Nat
  BY DEF Typing, TypeOK, EngineRequest, Answer
<1>2. CASE answer.status = "rejected"
  <2>1. engine'[r].status = "rejected"
    BY <1>2 DEF Lags, EngineGrows
  <2>2. engine'[r].order = engine[r].order
    BY <1>2, <2>1 DEF Lags, EngineAdvances
  <2>3. QED
    BY <1>2, <2>1, <2>2 DEF Lags
<1>3. CASE answer.status = "pending" /\ engine[r].status = "approved"
  BY <1>3 DEF Lags, EngineGrows
<1>4. CASE answer.status = "pending" /\ engine[r].status # "approved"
  BY <1>1, <1>4 DEF Lags, EngineAdvances
<1>5. CASE answer.status = "approved"
  BY <1>5 DEF Lags
<1>6. QED
  BY <1>2, <1>3, <1>4, <1>5 DEF Answer, EngineStatus

(* So do the answers of all calls.                                         *)
LEMMA NextLag ==
  ASSUME Typing, Typing', EngineGrows, EngineAdvances, AnswersLag, [Next]_vars
  PROVE  AnswersLag'
<1>1. ASSUME NEW v \in Workers, calls[v].id \in Requests
      PROVE  Lags(calls[v].answer, engine'[calls[v].id])
  <2>1. calls[v].answer \in Answer
    BY CallTyped DEF Call
  <2>2. QED
    BY <1>1, <2>1, LagIsKept DEF AnswersLag
<1>2. CASE UNCHANGED calls
  BY <1>1, <1>2 DEF AnswersLag
<1>3. ASSUME NEW w \in Workers, NEW call, Continue(w, call), TrueNext(w, call)
      PROVE  AnswersLag'
  <2>1. calls'[w] = call /\ \A v \in Workers \ {w} : calls'[v] = calls[v]
    BY <1>3 DEF Continue, Typing, TypeOK
  <2>2. ASSUME call.id \in Requests
        PROVE  Lags(call.answer, engine'[call.id])
    <3>1. engine'[call.id].order \in Nat
      BY <2>2 DEF Typing, TypeOK, EngineRequest
    <3>2. CASE call.answer = NoAnswer
      BY <3>1, <3>2 DEF Lags, NoAnswer
    <3>3. CASE call.id = calls[w].id /\ call.answer = calls[w].answer
      BY <1>1, <2>2, <3>3
    <3>4. CASE /\ call.answer.status = engine'[call.id].status
               /\ call.answer.order = engine'[call.id].order
      BY <3>1, <3>4 DEF Lags
    <3>5. QED
      BY <1>3, <3>2, <3>3, <3>4 DEF TrueNext
  <2>3. QED
    BY <1>1, <2>1, <2>2 DEF AnswersLag
<1>4. ASSUME NEW w \in Workers, SaveChain(w)
      PROVE  AnswersLag'
  <2>1. PICK done \in SUBSET {v \in Workers : calls[v].at \in ChainWrite} :
          calls' = [v \in Workers |-> IF v \in done THEN AfterChain(calls[v]) ELSE calls[v]]
    BY <1>4, SaveChainCalls
  <2>2. ASSUME NEW v \in done, AfterChain(calls[v]).id \in Requests
        PROVE  /\ AfterChain(calls[v]).id = calls[v].id
               /\ AfterChain(calls[v]).answer = calls[v].answer
    <3>1. calls[v] \in Call /\ calls[v].at \in ChainWrite
      BY CallTyped
    <3>2. CASE calls[v].at = "mirrorChain"
      BY <2>2, <3>2, Vocabulary DEF AfterChain, Idle
    <3>3. CASE calls[v].at # "mirrorChain"
      BY <3>1, <3>3 DEF AfterChain, ChainWrite, Call
    <3>4. QED
      BY <3>2, <3>3
  <2>3. ASSUME NEW v \in Workers, calls'[v].id \in Requests
        PROVE  Lags(calls'[v].answer, engine'[calls'[v].id])
    <3>1. CASE v \in done
      BY <1>1, <2>1, <2>2, <2>3, <3>1
    <3>2. CASE v \notin done
      BY <1>1, <2>1, <2>3, <3>2
    <3>3. QED
      BY <3>1, <3>2
  <2>4. QED
    BY <2>3 DEF AnswersLag
<1>5. CASE \E w \in Workers : Start(w) \/ Step(w) \/ Crash(w)
  BY <1>3, <1>4, <1>5, StepsAreTrue
<1>6. QED
  BY <1>2, <1>5 DEF Next, vars, InboxDecision

(* Steps are numbers.                                                      *)
LEMMA StepsAreNumbers == \A i \in Steps : i \in Int
BY NStepsAssumption DEF Steps

(* What the chain may show of a step.                                      *)
IsShownTruly(shown, i, e) ==
  /\ shown = "approved" => e.status = "approved" \/ i < e.order
  /\ shown = "current" => e.status = "approved" \/ i =< e.order
  /\ shown \in {"rejected", "revision"} => e.status = "rejected" /\ i = e.order

(* All it shows, of every request, is shown truly.                         *)
ChainShowsTruly ==
  \A r \in Requests : \A i \in DOMAIN chain[r] : IsShownTruly(chain[r][i], i, engine[r])

(* The chain made of an answer that lags leads nowhere.                    *)
LEMMA ChainOfAnswer ==
  ASSUME NEW e \in EngineRequest, NEW answer \in Answer, NEW revised \in BOOLEAN,
         Lags(answer, e), answer.status = "approved" => e.status = "approved",
         NEW i \in Steps
  PROVE  IsShownTruly(MapEngineStepsToItems(answer, revised)[i], i, e)
<1> DEFINE shown == MapEngineStepsToItems(answer, revised)[i]
<1>1. i \in Int /\ answer.order \in Nat /\ e.order \in Nat
  BY StepsAreNumbers DEF Answer, EngineRequest
<1>2. answer.status \in {"pending", "approved", "rejected"}
  BY DEF Answer, EngineStatus
<1>3. shown = IF answer.status = "approved" \/ i < answer.order THEN "approved"
              ELSE IF i # answer.order THEN "pending"
              ELSE IF answer.status # "rejected" THEN "current"
              ELSE IF revised THEN "revision" ELSE "rejected"
  BY DEF MapEngineStepsToItems
<1> SUFFICES IsShownTruly(shown, i, e)
  OBVIOUS
<1> HIDE DEF shown
<1>4. CASE answer.status = "approved" \/ i < answer.order
  BY <1>1, <1>2, <1>3, <1>4 DEF Lags, IsShownTruly
<1>5. CASE ~(answer.status = "approved" \/ i < answer.order)
  BY <1>1, <1>2, <1>3, <1>5 DEF Lags, IsShownTruly
<1>6. QED
  BY <1>4, <1>5

(* What is shown truly stays so while the engine advances.                 *)
LEMMA ShownTrulyIsKept ==
  ASSUME Typing, Typing', EngineGrows, EngineAdvances, NEW r \in Requests,
         NEW shown, NEW i \in Steps, IsShownTruly(shown, i, engine[r])
  PROVE  IsShownTruly(shown, i, engine'[r])
<1>1. i \in Int /\ engine[r].order \in Nat /\ engine'[r].order \in Nat
  BY StepsAreNumbers DEF Typing, TypeOK, EngineRequest
<1>2. CASE shown = "approved"
  BY <1>1, <1>2 DEF IsShownTruly, EngineGrows, EngineAdvances
<1>3. CASE shown \in {"rejected", "revision"}
  BY <1>3 DEF IsShownTruly, EngineGrows, EngineAdvances
<1>4. CASE shown = "current"
  BY <1>1, <1>4 DEF IsShownTruly, EngineGrows, EngineAdvances
<1>5. CASE shown \notin {"approved", "current", "rejected", "revision"}
  BY <1>5 DEF IsShownTruly
<1>6. QED
  BY <1>2, <1>3, <1>4, <1>5

(* A chain is cached of no request, or shows every step.                   *)
LEMMA ChainShows ==
  ASSUME Typing, NEW r \in Requests
  PROVE  DOMAIN chain[r] \subseteq Steps
<1>1. chain[r] = <<>> \/ chain[r] \in [Steps -> StepStatus]
  BY DEF Typing, TypeOK
<1>2. CASE chain[r] = <<>>
  <2>1. DOMAIN chain[r] = {}
    BY <1>2
  <2>2. QED
    BY <2>1
<1>3. QED
  BY <1>1, <1>2

(* So no step lets the cached chain lead the engine.                       *)
LEMMA NextChain ==
  ASSUME Typing, Typing', AnswersAreTrue, EngineGrows, EngineAdvances, AnswersLag,
         ChainShowsTruly, [Next]_vars
  PROVE  ChainShowsTruly'
<1>1. ASSUME NEW r \in Requests, NEW i \in DOMAIN chain[r]
      PROVE  IsShownTruly(chain[r][i], i, engine'[r])
  <2>1. i \in Steps
    BY ChainShows
  <2>2. IsShownTruly(chain[r][i], i, engine[r])
    BY DEF ChainShowsTruly
  <2>3. QED
    BY <2>1, <2>2, ShownTrulyIsKept
<1>2. CASE UNCHANGED chain
  BY <1>1, <1>2 DEF ChainShowsTruly
<1>3. ASSUME NEW w \in Workers, SaveChain(w), chain' # chain
      PROVE  ChainShowsTruly'
  <2> DEFINE call == calls[w]
             r == call.id
  <2>1. call \in Call /\ r \in Requests /\ call.answer \in Answer
    <3>1. call \in Call /\ WellFormed(call, engine) /\ call.at \in ChainWrite
      BY <1>3, CallTyped DEF SaveChain
    <3>2. QED
      BY <3>1 DEF WellFormed, ChainWrite, Call
  <2>2. PICK revised \in BOOLEAN :
          chain' = [chain EXCEPT ![r] = MapEngineStepsToItems(call.answer, revised)]
    <3>1. CASE call.at = "mirrorChain"
      <4>1. call.revised \in BOOLEAN
        BY <2>1 DEF Call
      <4>2. QED
        BY <1>3, <3>1, <4>1 DEF SaveChain, SaveApprovalSteps
    <3>2. CASE call.at = "syncChain"
      BY <1>3, <3>2 DEF SaveChain, SaveApprovalSteps
    <3>3. CASE call.at = "decisionChain"
      <4>1. (call.arg = "revision") \in BOOLEAN
        OBVIOUS
      <4>2. QED
        BY <1>3, <3>3, <4>1 DEF SaveChain, SaveApprovalSteps
    <3>4. QED
      BY <1>3, <3>1, <3>2, <3>3 DEF SaveChain, ChainWrite
  <2>3. chain'[r] = MapEngineStepsToItems(call.answer, revised)
        /\ \A s \in Requests \ {r} : chain'[s] = chain[s]
    BY <2>1, <2>2 DEF Typing, TypeOK
  <2>4. DOMAIN chain'[r] = Steps
    BY <2>3 DEF MapEngineStepsToItems
  <2>5. UNCHANGED engine /\ engine[r] \in EngineRequest
    BY <1>3, <2>1 DEF SaveChain, Typing, TypeOK
  <2>6. Lags(call.answer, engine[r])
        /\ (call.answer.status = "approved" => engine[r].status = "approved")
    BY <2>1 DEF AnswersLag, AnswersAreTrue, AnswerIsTrue
  <2>7. ASSUME NEW i \in DOMAIN chain'[r]
        PROVE  IsShownTruly(chain'[r][i], i, engine'[r])
    BY <2>1, <2>3, <2>4, <2>5, <2>6, ChainOfAnswer
  <2>8. ASSUME NEW s \in Requests, NEW i \in DOMAIN chain'[s]
        PROVE  IsShownTruly(chain'[s][i], i, engine'[s])
    <3>1. CASE s = r
      BY <2>7, <3>1
    <3>2. CASE s # r
      BY <1>1, <2>3, <3>2
    <3>3. QED
      BY <3>1, <3>2
  <2>9. QED
    BY <2>8 DEF ChainShowsTruly
<1>4. ASSUME NEW w \in Workers, Start(w) \/ Step(w) \/ Crash(w), ~SaveChain(w)
      PROVE  UNCHANGED chain
  BY <1>4
  DEF Start, Retry, Create, Detail, Webhook, Decide, Save, Advance, Crash, Step,
      RegisterAnswered, RegisterFailed, MarkSyncPending, SaveEngineRef, RetryNext,
      ReadRow, ReadHistory, RefreshAnswered, RefreshFailed, MirrorStatus,
      StatusWriteFailed, LogEvent, DecideAnswered, DecideFailed, RecordDecision,
      SaveFulfillmentData, AdvanceFulfillment, FulfillmentWriteFailed
<1>5. QED
  BY <1>2, <1>3, <1>4 DEF Next, vars, InboxDecision

---------------------------------------------------------------------------
(* The audit trail.                                                        *)

(* Stages only ever move forward.                                          *)
StagesAdvance ==
  \A r \in Requests : requests[r].fulfillment_step =< requests'[r].fulfillment_step

(* As no statement that writes one moves it back.                          *)
LEMMA NextStages ==
  ASSUME Typing, AnswersAreTrue, [Next]_vars
  PROVE  StagesAdvance
<1>1. ASSUME NEW r \in Requests, Same(r) \/ Moved(r)
      PROVE  requests[r].fulfillment_step =< requests'[r].fulfillment_step
  <2> DEFINE old == requests[r].fulfillment_step
             new == requests'[r].fulfillment_step
  <2>1. old \in -1 .. 3
    BY DEF Typing, TypeOK, Row, FulfillmentStep, Unset
  <2>2. \/ new = old
        \/ new = IF old = -1 THEN 0 ELSE old
        \/ old \in {-1, 0} /\ new = 1
        \/ new = old + 1
    <3>1. CASE Same(r) \/ Created(r)
      BY <3>1 DEF Same, Created
    <3>2. CASE Mirrored(r)
      BY <3>2 DEF Mirrored, Coalesce, Unset
    <3>3. CASE Shipped(r)
      <4>1. new = 1 /\ (old = 0 \/ (IF old = -1 THEN 0 ELSE old) = 0)
        BY <3>3 DEF Shipped, TakesFulfillmentData, Coalesce, Unset
      <4>2. QED
        BY <2>1, <4>1
    <3>4. CASE Advanced(r)
      BY <3>4 DEF Advanced
    <3>5. QED
      BY <1>1, <3>1, <3>2, <3>3, <3>4 DEF Moved
  <2> HIDE DEF old, new
  <2>3. old =< new
    BY <2>1, <2>2
  <2>4. QED
    BY <2>3 DEF old, new
<1>2. \A r \in Requests : Same(r) \/ Moved(r)
  BY NextMoves DEF OneMoves, EngineMoves, Same
<1>3. QED
  BY <1>1, <1>2 DEF StagesAdvance

(* The entry a call is about to write, and has not written yet: an action  *)
(* that was decided, a stage that was reached, a registration.             *)
Carries(call, r, label) ==
  /\ call.id = r
  /\ \/ call.at \in {"log", "syncChain"} /\ label = call.arg
     \/ call.at \in {"record", "decisionChain"} /\ label = ActionLabel(call.arg)

(* The entries of a request, with those still to be written.               *)
Entries(r) ==
  history[r] \cup {label \in HistoryAction : \E w \in Workers : Carries(calls[w], r, label)}

(* HistoryIsTrue already holds of them.                                    *)
AreTrue(entries, row, e) ==
  /\ "Shipped" \in entries => row.fulfillment_step >= 1
  /\ "Delivered" \in entries => row.fulfillment_step >= 2
  /\ "Completed" \in entries => row.fulfillment_step = 3
  /\ entries \cap {"Requested revision", "Rejected"} # {} => e.status = "rejected"
  /\ ~({"Requested revision", "Rejected"} \subseteq entries)

EntriesAreTrue == \A r \in Requests : AreTrue(Entries(r), requests[r], engine[r])

(* What a step that decides or reports may add to the entries of a         *)
(* request.                                                                *)
IsNews(r, label) ==
  \/ label \in {"Submitted", "Approved"}
  \/ label = "Shipped" /\ requests'[r].fulfillment_step = 1
  \/ label = "Delivered" /\ requests'[r].fulfillment_step = 2
  \/ label = "Completed" /\ requests'[r].fulfillment_step = 3
  \/ /\ label \in {"Requested revision", "Rejected"}
     /\ engine[r].status = "pending" /\ engine'[r].status = "rejected"

EntriesGrow ==
  \A r \in Requests :
    \/ Entries(r)' \subseteq Entries(r)
    \/ \E label : IsNews(r, label) /\ Entries(r)' \subseteq Entries(r) \cup {label}

(* News, and what was true before, is true.                                *)
LEMMA NewsIsTrue ==
  ASSUME Typing, Typing', EngineGrows, StagesAdvance, EntriesAreTrue, EntriesGrow
  PROVE  EntriesAreTrue'
<1>1. SUFFICES ASSUME NEW r \in Requests
               PROVE  AreTrue(Entries(r)', requests'[r], engine'[r])
  BY DEF EntriesAreTrue
<1> DEFINE old == Entries(r)
           new == Entries(r)'
           was == requests[r].fulfillment_step
           is == requests'[r].fulfillment_step
<1>2. AreTrue(old, requests[r], engine[r])
  BY DEF EntriesAreTrue
<1>3. was \in -1 .. 3 /\ is \in -1 .. 3 /\ was =< is
  BY DEF Typing, TypeOK, Row, FulfillmentStep, Unset, StagesAdvance
<1>4. engine[r].status = "rejected" => engine'[r].status = "rejected"
  BY DEF EngineGrows
<1>5. \/ new \subseteq old
      \/ \E label : IsNews(r, label) /\ new \subseteq old \cup {label}
  BY DEF EntriesGrow
<1> SUFFICES AreTrue(new, requests'[r], engine'[r])
  OBVIOUS
<1> HIDE DEF old, new
<1>6. AreTrue(old, requests'[r], engine'[r])
  <2>1. /\ was >= 1 => is >= 1
        /\ was >= 2 => is >= 2
        /\ was = 3 => is = 3
    BY <1>3
  <2>2. QED
    BY <1>2, <1>4, <2>1 DEF AreTrue
<1>7. CASE new \subseteq old
  <2>1. \A label : label \in new => label \in old
    BY <1>7
  <2>2. new \cap {"Requested revision", "Rejected"} # {}
          => old \cap {"Requested revision", "Rejected"} # {}
    BY <2>1
  <2>3. {"Requested revision", "Rejected"} \subseteq new
          => {"Requested revision", "Rejected"} \subseteq old
    BY <2>1
  <2>4. QED
    BY <1>6, <2>1, <2>2, <2>3 DEF AreTrue
<1>8. ASSUME NEW label, IsNews(r, label), new \subseteq old \cup {label}
      PROVE  AreTrue(new, requests'[r], engine'[r])
  <2>1. CASE label \in {"Requested revision", "Rejected"}
    <3>1. old \cap {"Requested revision", "Rejected"} = {} /\ engine'[r].status = "rejected"
      BY <1>2, <1>8, <2>1 DEF IsNews, AreTrue
    <3>2. QED
      BY <1>6, <1>8, <2>1, <3>1 DEF AreTrue
  <2>2. CASE label \notin {"Requested revision", "Rejected"}
    <3>1. /\ label = "Shipped" => is = 1
          /\ label = "Delivered" => is = 2
          /\ label = "Completed" => is = 3
      BY <1>8, <2>2 DEF IsNews
    <3>2. /\ label = "Shipped" => is >= 1
          /\ label = "Delivered" => is >= 2
      BY <3>1
    <3>3. QED
      BY <1>6, <1>8, <2>2, <3>1, <3>2 DEF AreTrue
  <2>3. QED
    BY <2>1, <2>2
<1>9. QED
  BY <1>5, <1>7, <1>8

(* A call that goes on with what it carried, or one entry more.            *)
LEMMA EntriesOfCall ==
  ASSUME Typing, NEW w \in Workers, NEW call, Continue(w, call), UNCHANGED history,
         NEW r \in Requests, NEW news,
         \A label \in HistoryAction :
           Carries(call, r, label) => Carries(calls[w], r, label) \/ label \in news
  PROVE  Entries(r)' \subseteq Entries(r) \cup news
<1>1. calls'[w] = call /\ \A v \in Workers \ {w} : calls'[v] = calls[v]
  BY DEF Continue, Typing, TypeOK
<1>2. ASSUME NEW label \in HistoryAction, NEW v \in Workers, Carries(calls'[v], r, label)
      PROVE  (\E u \in Workers : Carries(calls[u], r, label)) \/ label \in news
  <2>1. CASE v = w
    BY <1>1, <1>2, <2>1
  <2>2. CASE v # w
    BY <1>1, <1>2, <2>2
  <2>3. QED
    BY <2>1, <2>2
<1>3. QED
  BY <1>2 DEF Entries

(* Where a call carries an entry.                                          *)
Telling == {"log", "syncChain", "record", "decisionChain"}

(* Most steps go on where there is nothing to write.                       *)
LEMMA SilentSteps ==
  ASSUME Typing, NEW w \in Workers,
         \/ Start(w) \/ Crash(w)
         \/ RegisterAnswered(w) \/ RegisterFailed(w) \/ MarkSyncPending(w) \/ RetryNext(w)
         \/ ReadRow(w) \/ ReadHistory(w) \/ RefreshAnswered(w) \/ RefreshFailed(w)
         \/ MirrorStatus(w) \/ StatusWriteFailed(w) \/ LogEvent(w)
         \/ DecideFailed(w) \/ FulfillmentWriteFailed(w)
  PROVE  \E call : Continue(w, call) /\ call.at \notin Telling
<1> DEFINE old == calls[w]
<1>1. old \in Call
  BY CallTyped
<1>2. CASE Return(w)
  <2>1. Idle.at \notin Telling
    BY DEF Idle, Telling
  <2>2. QED
    BY <1>2, <2>1 DEF Return
<1>3. ASSUME NEW r, NEW at, NEW arg, at \notin Telling, Continue(w, CallOn(r, at, arg))
      PROVE  \E call : Continue(w, call) /\ call.at \notin Telling
  <2>1. CallOn(r, at, arg).at = at
    BY DEF CallOn, Idle
  <2>2. QED
    BY <1>3, <2>1
<1>4. ASSUME NEW at, at \notin Telling, Goto(w, at)
      PROVE  \E call : Continue(w, call) /\ call.at \notin Telling
  <2>1. [old EXCEPT !.at = at].at = at
    BY <1>1 DEF Call
  <2>2. QED
    BY <1>4, <2>1 DEF Goto
<1>5. ASSUME NEW backlog, Continue(w, [Idle EXCEPT !.at = "nextRetry", !.backlog = backlog])
      PROVE  \E call : Continue(w, call) /\ call.at \notin Telling
  <2>1. [Idle EXCEPT !.at = "nextRetry", !.backlog = backlog].at \notin Telling
    BY DEF Idle, Telling
  <2>2. QED
    BY <1>5, <2>1
<1>6. CASE Start(w)
  <2>1. CASE Retry(w)
    BY <1>5, <2>1 DEF Retry, Begin
  <2>2. CASE ~Retry(w)
    <3>1. \E r, at, arg : at \notin Telling /\ Continue(w, CallOn(r, at, arg))
      BY <1>6, <2>2
      DEF Start, Create, Detail, Webhook, Decide, Save, Advance, Begin, Telling
    <3>2. QED
      BY <1>3, <3>1
  <2>3. QED
    BY <2>1, <2>2
<1>7. CASE RegisterAnswered(w)
  <2>1. PICK answer : Continue(w, [old EXCEPT !.at = "saveRef", !.answer = answer])
    BY <1>7 DEF RegisterAnswered
  <2>2. [old EXCEPT !.at = "saveRef", !.answer = answer].at \notin Telling
    BY <1>1 DEF Call, Telling
  <2>3. QED
    BY <2>1, <2>2
<1>8. CASE RegisterFailed(w) \/ MarkSyncPending(w)
  BY <1>4, <1>8 DEF RegisterFailed, MarkSyncPending, Telling
<1>9. CASE RetryNext(w)
  <2>1. ASSUME NEW r, NEW backlog,
               Continue(w, [CallOn(r, "register", None) EXCEPT !.backlog = backlog])
        PROVE  \E call : Continue(w, call) /\ call.at \notin Telling
    <3>1. [CallOn(r, "register", None) EXCEPT !.backlog = backlog].at \notin Telling
      BY DEF CallOn, Idle, Telling
    <3>2. QED
      BY <2>1, <3>1
  <2>2. QED
    BY <1>2, <1>5, <1>9, <2>1 DEF RetryNext
<1>10. CASE ReadRow(w)
  <2>1. [old EXCEPT !.at = "readHistory", !.seen = requests[old.id]].at \notin Telling
    BY <1>1 DEF Call, Telling
  <2>2. QED
    BY <1>2, <1>10, <2>1 DEF ReadRow
<1>11. CASE ReadHistory(w)
  <2> DEFINE revised == "Requested revision" \in history[old.id]
  <2>1. \/ Continue(w, [old EXCEPT !.at = "refresh", !.revised = revised])
        \/ Goto(w, "refresh")
    BY <1>11 DEF ReadHistory
  <2> HIDE DEF revised
  <2>2. [old EXCEPT !.at = "refresh", !.revised = revised].at \notin Telling
    BY <1>1 DEF Call, Telling
  <2>3. "refresh" \notin Telling
    BY DEF Telling
  <2>4. QED
    BY <1>4, <2>1, <2>2, <2>3
<1>12. CASE RefreshAnswered(w)
  <2>1. ASSUME NEW answer, NEW at \in {"mirror", "mirrorChain"},
               Continue(w, [old EXCEPT !.at = at, !.seen = NoRow, !.answer = answer])
        PROVE  \E call : Continue(w, call) /\ call.at \notin Telling
    <3>1. [old EXCEPT !.at = at, !.seen = NoRow, !.answer = answer].at \notin Telling
      BY <1>1 DEF Call, Telling
    <3>2. QED
      BY <2>1, <3>1
  <2>2. QED
    BY <1>2, <1>12, <2>1, RefreshOutcome
<1>13. CASE MirrorStatus(w)
  <2>1. "mirrorChain" \notin Telling
    BY DEF Telling
  <2>2. QED
    BY <1>2, <1>4, <1>13, <2>1 DEF MirrorStatus
<1>14. CASE LogEvent(w)
  <2>1. "detail" \notin Telling
    BY DEF Telling
  <2>2. QED
    BY <1>3, <1>5, <1>14, <2>1 DEF LogEvent
<1>15. CASE \/ Crash(w) \/ RefreshFailed(w) \/ StatusWriteFailed(w)
            \/ DecideFailed(w) \/ FulfillmentWriteFailed(w)
  BY <1>2, <1>15
  DEF Crash, RefreshFailed, StatusWriteFailed, DecideFailed, FulfillmentWriteFailed
<1>16. QED
  BY <1>6, <1>7, <1>8, <1>9, <1>10, <1>11, <1>12, <1>13, <1>14, <1>15

(* Writing an entry moves it from the call to the history.                 *)
LEMMA LoggedEntries ==
  ASSUME Typing, NEW w \in Workers, LogEvent(w), NEW r \in Requests
  PROVE  Entries(r)' \subseteq Entries(r)
<1> DEFINE old == calls[w]
<1>1. PICK call : Continue(w, call) /\ call.at \notin Telling
  BY SilentSteps
<1>2. calls'[w] = call /\ \A v \in Workers \ {w} : calls'[v] = calls[v]
  BY <1>1 DEF Continue, Typing, TypeOK
<1>3. ASSUME NEW label, NEW v \in Workers, Carries(calls'[v], r, label)
      PROVE  Carries(calls[v], r, label)
  BY <1>1, <1>2, <1>3 DEF Carries, Telling
<1>4. ASSUME NEW label \in history'[r], label \notin history[r]
      PROVE  label \in HistoryAction /\ Carries(old, r, label)
  <2>1. old.at = "log" /\ old.id \in Requests /\ old.arg \in HistoryAction
    BY CallTyped DEF LogEvent, At, WellFormed
  <2>2. history' = [history EXCEPT ![old.id] = @ \cup {old.arg}]
    BY <1>4 DEF LogEvent, AddHistory
  <2>3. old.id = r /\ label = old.arg
    BY <1>4, <2>1, <2>2 DEF Typing, TypeOK
  <2>4. QED
    BY <2>1, <2>3 DEF Carries
<1>5. QED
  BY <1>3, <1>4 DEF Entries

(* Writing the chain, or being refused to, changes nothing of them.        *)
LEMMA ChainEntries ==
  ASSUME Typing, NEW w \in Workers, SaveChain(w), NEW r \in Requests
  PROVE  Entries(r)' \subseteq Entries(r)
<1>1. PICK done \in SUBSET {v \in Workers : calls[v].at \in ChainWrite} :
        calls' = [v \in Workers |-> IF v \in done THEN AfterChain(calls[v]) ELSE calls[v]]
  BY SaveChainCalls
<1>2. ASSUME NEW v \in done, NEW label, Carries(AfterChain(calls[v]), r, label)
      PROVE  Carries(calls[v], r, label)
  <2> DEFINE old == calls[v]
  <2>1. old \in Call /\ old.at \in ChainWrite
    BY CallTyped
  <2>2. CASE old.at = "mirrorChain"
    BY <1>2, <2>2 DEF AfterChain, Carries, Idle
  <2>3. CASE old.at = "syncChain"
    <3>1. /\ AfterChain(old).at = "log" /\ AfterChain(old).id = old.id
          /\ AfterChain(old).arg = old.arg
      BY <2>1, <2>3 DEF AfterChain, Call
    <3>2. QED
      BY <1>2, <2>3, <3>1 DEF Carries
  <2>4. CASE old.at = "decisionChain"
    <3>1. /\ AfterChain(old).at = "log" /\ AfterChain(old).id = old.id
          /\ AfterChain(old).arg = ActionLabel(old.arg)
      BY <2>1, <2>4 DEF AfterChain, Call
    <3>2. QED
      BY <1>2, <2>4, <3>1 DEF Carries
  <2>5. QED
    BY <2>1, <2>2, <2>3, <2>4 DEF ChainWrite
<1>3. UNCHANGED history
  BY DEF SaveChain
<1>4. ASSUME NEW v \in Workers, NEW label, Carries(calls'[v], r, label)
      PROVE  Carries(calls[v], r, label)
  BY <1>1, <1>2, <1>4
<1>5. QED
  BY <1>3, <1>4 DEF Entries

(* A call that goes on with what it carried, or with true news.            *)
LEMMA CallTells ==
  ASSUME Typing, NEW w \in Workers, NEW call, Continue(w, call), UNCHANGED history,
         NEW told,
         \A r \in Requests, label \in HistoryAction :
           Carries(call, r, label) =>
             Carries(calls[w], r, label) \/ (label = told /\ IsNews(r, told))
  PROVE  EntriesGrow
<1>1. SUFFICES ASSUME NEW r \in Requests
               PROVE  \/ Entries(r)' \subseteq Entries(r)
                      \/ \E label : IsNews(r, label) /\ Entries(r)' \subseteq Entries(r) \cup {label}
  BY DEF EntriesGrow
<1>2. CASE IsNews(r, told)
  <2>1. Entries(r)' \subseteq Entries(r) \cup {told}
    BY EntriesOfCall
  <2>2. QED
    BY <1>2, <2>1
<1>3. CASE ~IsNews(r, told)
  <2>1. \A label \in HistoryAction :
          Carries(call, r, label) => Carries(calls[w], r, label) \/ label \in {}
    BY <1>3
  <2>2. Entries(r)' \subseteq Entries(r) \cup {}
    BY <2>1, EntriesOfCall
  <2>3. QED
    BY <2>2
<1>4. QED
  BY <1>2, <1>3

(* A registration is reported once the engine has the request.             *)
LEMMA SubmittedEntries ==
  ASSUME Typing, NEW w \in Workers, SaveEngineRef(w)
  PROVE  EntriesGrow
<1> DEFINE old == calls[w]
           at == IF old.answer.steps THEN "syncChain" ELSE "log"
           call == [old EXCEPT !.at = at, !.arg = "Submitted"]
<1>1. Continue(w, call) /\ UNCHANGED history
  BY DEF SaveEngineRef
<1>2. call.at \in {"syncChain", "log"} /\ call.arg = "Submitted"
  BY CallTyped DEF Call
<1> HIDE DEF call
<1>3. ASSUME NEW r \in Requests, NEW label, Carries(call, r, label)
      PROVE  label = "Submitted" /\ IsNews(r, "Submitted")
  BY <1>2, <1>3 DEF Carries, IsNews
<1>4. QED
  BY <1>1, <1>3, CallTells

(* A decision the engine took is reported as what it was.                  *)
LEMMA DecidedEntries ==
  ASSUME Typing, NEW w \in Workers, DecideAnswered(w)
  PROVE  EntriesGrow
<1> DEFINE old == calls[w]
           id == old.id
           told == ActionLabel(old.arg)
<1>1. old \in Call /\ id \in Requests /\ old.arg \in ApprovalAction
  BY CallTyped DEF DecideAnswered, At, WellFormed
<1>2. PICK e \in Decided(engine[id], ApprovalEngineDecision(old.arg)) :
        /\ engine' = [engine EXCEPT ![id] = e]
        /\ \E answer \in Answers(e) :
             Continue(w, [old EXCEPT !.at = "record", !.answer = answer])
  BY DEF DecideAnswered
<1>3. PICK answer : Continue(w, [old EXCEPT !.at = "record", !.answer = answer])
  BY <1>2
<1> DEFINE call == [old EXCEPT !.at = "record", !.answer = answer]
<1>4. call.at = "record" /\ call.id = id /\ call.arg = old.arg
  BY <1>1 DEF Call
<1>5. Continue(w, call) /\ UNCHANGED history /\ engine[id].status = "pending"
  BY <1>3 DEF DecideAnswered
<1> HIDE DEF call
<1>6. IsNews(id, told)
  <2>1. CASE old.arg = "approve"
    BY <2>1 DEF ActionLabel, IsNews
  <2>2. CASE old.arg # "approve"
    <3>1. e = [engine[id] EXCEPT !.status = "rejected"]
      BY <1>2, <2>2 DEF Decided, ApprovalEngineDecision
    <3>2. engine[id] \in EngineRequest /\ engine'[id] = e
      BY <1>1, <1>2 DEF Typing, TypeOK
    <3>3. engine'[id].status = "rejected"
      BY <3>1, <3>2 DEF EngineRequest
    <3>4. told \in {"Requested revision", "Rejected"}
      BY <2>2 DEF ActionLabel
    <3>5. QED
      BY <1>5, <3>3, <3>4 DEF IsNews
  <2>3. QED
    BY <2>1, <2>2
<1>7. ASSUME NEW r \in Requests, NEW label, Carries(call, r, label)
      PROVE  label = told /\ IsNews(r, told)
  <2>1. r = id /\ label = told
    BY <1>4, <1>7 DEF Carries
  <2>2. QED
    BY <1>6, <2>1
<1>8. QED
  BY <1>5, <1>7, CallTells

(* Recording its outcome changes nothing of that.                          *)
LEMMA RecordedEntries ==
  ASSUME Typing, NEW w \in Workers, RecordDecision(w)
  PROVE  EntriesGrow
<1> DEFINE old == calls[w]
           inChain == [old EXCEPT !.at = "decisionChain"]
           inLog == [old EXCEPT !.at = "log", !.arg = ActionLabel(old.arg)]
<1>1. old \in Call /\ old.at = "record"
  BY CallTyped DEF RecordDecision, At
<1>2. UNCHANGED history /\ (Continue(w, inChain) \/ Continue(w, inLog))
  BY DEF RecordDecision
<1>3. inChain.at = "decisionChain" /\ inChain.id = old.id /\ inChain.arg = old.arg
  BY <1>1 DEF Call
<1>4. inLog.at = "log" /\ inLog.id = old.id /\ inLog.arg = ActionLabel(old.arg)
  BY <1>1 DEF Call
<1> HIDE DEF inChain, inLog
<1>5. ASSUME NEW r \in Requests, NEW label,
             Carries(inChain, r, label) \/ Carries(inLog, r, label)
      PROVE  Carries(old, r, label)
  BY <1>1, <1>3, <1>4, <1>5 DEF Carries
<1>6. QED
  BY <1>2, <1>5, CallTells

(* A stage is reported once the row has reached it.                        *)
LEMMA FulfillmentEntries ==
  ASSUME Typing, NEW w \in Workers, SaveFulfillmentData(w) \/ AdvanceFulfillment(w)
  PROVE  EntriesGrow
<1> DEFINE old == calls[w]
           id == old.id
<1>1. old \in Call /\ id \in Requests /\ UNCHANGED history
  BY CallTyped DEF SaveFulfillmentData, AdvanceFulfillment, At, WellFormed
<1>2. CASE Return(w)
  <2>1. \A r \in Requests : \A label : ~Carries(Idle, r, label)
    BY DEF Carries, Idle
  <2>2. QED
    BY <1>1, <1>2, <2>1, CallTells DEF Return
<1>3. ASSUME NEW told, IsNews(id, told),
             Continue(w, [old EXCEPT !.at = "log", !.arg = told])
      PROVE  EntriesGrow
  <2> DEFINE call == [old EXCEPT !.at = "log", !.arg = told]
  <2>1. call.at = "log" /\ call.id = id /\ call.arg = told
    BY <1>1 DEF Call
  <2>2. Continue(w, call)
    BY <1>3
  <2> HIDE DEF call
  <2>3. ASSUME NEW r \in Requests, NEW label, Carries(call, r, label)
        PROVE  label = told /\ IsNews(r, told)
    BY <1>3, <2>1, <2>3 DEF Carries
  <2>4. QED
    BY <1>1, <2>2, <2>3, CallTells
<1>4. CASE SaveFulfillmentData(w) /\ ~Return(w)
  <2>1. RecordFulfillmentData(id, old.arg) /\ old.arg \in Payloads
        /\ Continue(w, [old EXCEPT !.at = "log", !.arg = "Shipped"])
    BY <1>4, CallTyped DEF SaveFulfillmentData, At, WellFormed
  <2>2. requests'[id].fulfillment_step = 1
    BY <1>1, <2>1, FulfillmentData DEF Typing
  <2>3. IsNews(id, "Shipped")
    BY <2>2 DEF IsNews
  <2>4. QED
    BY <1>3, <2>1, <2>3
<1>5. CASE AdvanceFulfillment(w) /\ ~Return(w)
  <2> DEFINE step == requests[id].fulfillment_step
             told == IF step + 1 >= 3 THEN "Completed" ELSE "Delivered"
  <2>1. Advances(requests[id]) /\ AdvanceStage(id)
        /\ Continue(w, [old EXCEPT !.at = "log", !.arg = told])
    BY <1>5 DEF AdvanceFulfillment
  <2>2. requests'[id].fulfillment_step = step + 1
    BY <1>1, <2>1, NextStage DEF Typing
  <2>3. step \in {1, 2}
    BY <2>1 DEF Advances
  <2>4. IsNews(id, told)
    BY <2>2, <2>3 DEF IsNews
  <2> HIDE DEF told
  <2>5. QED
    BY <1>3, <2>1, <2>4
<1>6. QED
  BY <1>2, <1>4, <1>5

(* So a step adds at most one entry, and that one is news.                 *)
LEMMA NextEntries ==
  ASSUME Typing, [Next]_vars
  PROVE  EntriesGrow
<1>1. CASE UNCHANGED <<calls, history>>
  BY <1>1 DEF EntriesGrow, Entries
<1>2. ASSUME NEW w \in Workers, LogEvent(w) \/ SaveChain(w)
      PROVE  EntriesGrow
  BY <1>2, LoggedEntries, ChainEntries DEF EntriesGrow
<1>3. ASSUME NEW w \in Workers, Start(w) \/ Step(w) \/ Crash(w),
             ~LogEvent(w), ~SaveChain(w), ~SaveEngineRef(w), ~DecideAnswered(w),
             ~RecordDecision(w), ~SaveFulfillmentData(w), ~AdvanceFulfillment(w)
      PROVE  EntriesGrow
  <2>1. PICK call : Continue(w, call) /\ call.at \notin Telling
    BY <1>3, SilentSteps DEF Step
  <2>2. UNCHANGED history
    BY <1>3
    DEF Start, Retry, Create, Detail, Webhook, Decide, Save, Advance, Crash, Step,
        RegisterAnswered, RegisterFailed, MarkSyncPending, RetryNext, ReadRow,
        ReadHistory, RefreshAnswered, RefreshFailed, MirrorStatus,
        StatusWriteFailed, DecideFailed, FulfillmentWriteFailed
  <2>3. \A r \in Requests : \A label : ~Carries(call, r, label)
    BY <2>1 DEF Carries, Telling
  <2>4. QED
    BY <2>1, <2>2, <2>3, CallTells
<1>4. ASSUME NEW w \in Workers, Start(w) \/ Step(w) \/ Crash(w)
      PROVE  EntriesGrow
  BY <1>2, <1>3, <1>4, SubmittedEntries, DecidedEntries, RecordedEntries,
     FulfillmentEntries
<1>5. QED
  BY <1>1, <1>4 DEF Next, vars, InboxDecision

---------------------------------------------------------------------------
(* The inductive invariant: with what AssetRequestsProofs keeps, what the  *)
(* answers in flight and the entries still to be written say.              *)
TrailInv ==
  /\ IInv
  /\ UnknownAreUntouched
  /\ AnswersLag
  /\ ChainShowsTruly
  /\ EntriesAreTrue

(* Nothing is written at first, and nothing is shown.                      *)
LEMMA InitTrail == Init => TrailInv
<1> SUFFICES ASSUME Init PROVE TrailInv
  OBVIOUS
<1>1. UnknownAreUntouched
  BY DEF Init, UnknownAreUntouched, Registered
<1>2. AnswersLag
  BY Vocabulary DEF Init, AnswersLag, Idle
<1>3. ChainShowsTruly
  <2>1. \A r \in Requests : chain[r] = <<>>
    BY DEF Init
  <2>2. DOMAIN <<>> = {}
    OBVIOUS
  <2>3. QED
    BY <2>1, <2>2 DEF ChainShowsTruly
<1>4. EntriesAreTrue
  <2>1. ASSUME NEW r \in Requests
        PROVE  Entries(r) = {}
    BY DEF Init, Entries, Carries, Idle
  <2>2. QED
    BY <2>1 DEF EntriesAreTrue, AreTrue
<1>5. QED
  BY <1>1, <1>2, <1>3, <1>4, InitInv DEF TrailInv

(* Each step keeps it: the lemmas above, put together.                     *)
LEMMA NextTrail ==
  ASSUME TrailInv, [Next]_vars
  PROVE  TrailInv'
<1>1. Typing /\ AnswersAreTrue
  BY DEF TrailInv, IInv, Typing
<1>2. Typing' /\ EngineGrows /\ IInv'
  BY <1>1, NextTyping, NextInv DEF TrailInv
<1>3. EngineAdvances /\ UnknownAreUntouched'
  BY <1>1, NextAdvances DEF TrailInv
<1>4. AnswersLag' /\ ChainShowsTruly'
  BY <1>1, <1>2, <1>3, NextLag, NextChain DEF TrailInv
<1>5. EntriesAreTrue'
  BY <1>1, <1>2, NextStages, NextEntries, NewsIsTrue DEF TrailInv
<1>6. QED
  BY <1>2, <1>3, <1>4, <1>5 DEF TrailInv

(* The inductive invariant holds throughout.                               *)
THEOREM TrailInvariance == Spec => []TrailInv
<1>1. TrailInv /\ [Next]_vars => TrailInv'
  BY NextTrail
<1>2. QED
  BY <1>1, InitTrail, PTL DEF Spec

(* However late SaveApprovalSteps caches an answer, and whichever of       *)
(* several callers wins, a step the chain shows approved was approved, and *)
(* one it shows turned down is where the engine turned the request down.   *)
THEOREM ChainNeverLeadsAlways == Spec => []ChainNeverLeads
<1>1. TrailInv => ChainNeverLeads
  BY DEF TrailInv, ChainShowsTruly, IsShownTruly, ChainNeverLeads
<1>2. QED
  BY <1>1, TrailInvariance, PTL

(* AddHistory, called a step or more after what it reports, by any number  *)
(* of concurrent calls, writes nothing that did not happen.                *)
THEOREM HistoryIsTrueAlways == Spec => []HistoryIsTrue
<1>1. TrailInv => HistoryIsTrue
  <2> SUFFICES ASSUME TrailInv, NEW r \in Requests
               PROVE  AreTrue(history[r], requests[r], engine[r])
    BY DEF HistoryIsTrue, AreTrue
  <2> DEFINE all == Entries(r)
  <2>1. AreTrue(all, requests[r], engine[r])
    BY DEF TrailInv, EntriesAreTrue
  <2>2. \A label : label \in history[r] => label \in all
    BY DEF Entries
  <2> HIDE DEF all
  <2>3. /\ history[r] \cap {"Requested revision", "Rejected"} # {}
             => all \cap {"Requested revision", "Rejected"} # {}
        /\ {"Requested revision", "Rejected"} \subseteq history[r]
             => {"Requested revision", "Rejected"} \subseteq all
    BY <2>2
  <2>4. QED
    BY <2>1, <2>2, <2>3 DEF AreTrue
<1>2. QED
  BY <1>1, TrailInvariance, PTL
=============================================================================
