--------------------------- MODULE RequestCounters ---------------------------
(***************************************************************************)
(* What users are told of the requests from the rows as they are: the tag  *)
(* of a request in the lists (request_mapper.go), the counter of an        *)
(* approver's turns in the sidebar (navigation_repository.go) and the      *)
(* units registered on the dashboard (dashboard_repository.go).            *)
(***************************************************************************)
EXTENDS AssetRequestsProperties

---------------------------------------------------------------------------
(* computeStatusTag, as a kind of tag and the step or stage it names, None *)
(* when it names none.                                                     *)
Tag(kind, names) == [kind |-> kind, names |-> names]

StepsWith(r, status) == {i \in DOMAIN chain[r] : chain[r][i] = status}

revisionTag(r) ==
  LET sentBack == StepsWith(r, "revision") IN
  Tag("Revision", IF sentBack = {} THEN 0 ELSE CHOOSE i \in sentBack : \A j \in sentBack : i =< j)

Stage(step) == IF step \in 0 .. 2 THEN step ELSE 0

computeStatusTag(r) ==
  LET row == requests[r] IN
  CASE row.status = "COMPLETED" -> Tag("Completed", 0)
    [] row.status = "REJECTED" ->
         IF "Requested revision" \in history[r] THEN revisionTag(r) ELSE Tag("Rejected", 0)
    [] row.status = "FULFILLMENT" -> Tag("Fulfillment", Stage(row.fulfillment_step))
    [] row.status = "APPROVED" ->
         IF row.fulfillment_step # Unset THEN Tag("Fulfillment", Stage(row.fulfillment_step))
         ELSE Tag("Approved", 0)
    [] OTHER ->
         IF row.approval_status = ApprovalSyncPending THEN Tag("Syncing", 0)
         ELSE Tag("Waiting", row.current_step_name)

---------------------------------------------------------------------------
(* CountWaitingForRoles, of the role the i-th step is for: the requests it *)
(* counts.  The mutant counts every step that is not approved yet.         *)
WaitingForStepMutant(i) ==
  {r \in Requests :
     requests[r].status = "WAITING_APPROVAL" /\ i \in StepsWith(r, "current") \cup StepsWith(r, "pending")}

WaitingForStep(i) ==
  {r \in Requests : requests[r].status = "WAITING_APPROVAL" /\ i \in StepsWith(r, "current")}

(* The rows whose quantities add up to AssetsRegistered.  The mutant takes *)
(* a request for registered as soon as it is approved.                     *)
RegisteredRowsMutant ==
  {r \in Requests : requests[r].status \in {"COMPLETED", "FULFILLMENT", "APPROVED"}}

RegisteredRows ==
  {r \in Requests :
     \/ requests[r].status = "COMPLETED"
     \/ requests[r].status = "FULFILLMENT" /\ Coalesce(requests[r].fulfillment_step) >= 1}

---------------------------------------------------------------------------
(* However old the copy of the engine's state is, users are told of no     *)
(* turn that has not come: a request is counted for an approver only if    *)
(* the engine has reached that approver's step, its tag names only steps   *)
(* the engine has reached, and a tag that speaks of a verdict, or of a     *)
(* stage, speaks of one there is ("this is an approximation of it that     *)
(* costs no call to the engine").                                          *)
Reached(r, i) == engine[r].status = "approved" \/ i =< engine[r].order

ShownStepsLag ==
  \A r \in Requests :
    /\ \A i \in Steps : r \in WaitingForStep(i) => Reached(r, i)
    /\ requests[r].status # Absent =>
         LET tag == computeStatusTag(r) IN
         /\ tag.kind = "Waiting" => Reached(r, tag.names)
         /\ tag.kind = "Revision"
              => engine[r].status = "rejected" /\ tag.names \in {0, engine[r].order}
         /\ tag.kind = "Rejected" => engine[r].status = "rejected"
         /\ tag.kind \in {"Fulfillment", "Completed", "Approved"}
              => engine[r].status = "approved"
         /\ tag.kind = "Fulfillment" => tag.names =< Coalesce(requests[r].fulfillment_step)

(* With one call at a time the units registered are those of exactly the   *)
(* requests whose asset data is there, whichever calls fail or stop half   *)
(* way ("units on requests whose asset data has been recorded").           *)
AssetsAreRegistered ==
  RegisteredRows = {r \in Requests : requests[r].fulfillment_data # None}
=============================================================================
