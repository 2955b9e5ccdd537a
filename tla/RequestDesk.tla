---------------------------- MODULE RequestDesk ----------------------------
(***************************************************************************)
(* One request from the form to its asset data: Create of the request      *)
(* service with the form's checks, the row it stores, what the Approval    *)
(* Engine is told of it at once or by a retry that reads the row back, and *)
(* SaveFulfillmentData with the checks on the data.                        *)
(*                                                                         *)
(* The calls are made one after the other on the master data they find     *)
(* (MasterData has them race), and between them the master data and the    *)
(* users are edited; AssetRequests has the rest of the state of a request. *)
(***************************************************************************)
EXTENDS RequestForm, FulfillmentData

CONSTANTS
  MasterData,     \* the master data there may be
  Inputs,         \* the submissions made
  Counts,         \* the numbers of units that are filled in
  AssetData,      \* the asset data sent
  DistributorName,   \* the name of each distributor
  People,         \* the registered persons, as a sequence ordered by id
  Later,          \* what is edited of what the request refers to
  Fold,           \* a person's name or address in one spelling of its case
  Submitters      \* who may be signed in, indices of People, 0 for nobody known

DeskAssumption ==
  /\ \A data \in MasterData :
       /\ data.distributors \in Seq([id : DOMAIN DistributorName, name : STRING,
                                    outlets : SUBSET DOMAIN OutletName])
       /\ \A d \in ToSet(data.distributors) : d.name = DistributorName[d.id] /\ d.name # ""
  /\ TooLong # ""
  /\ Inputs \subseteq Input
  /\ AssetData \subseteq Data
  /\ Counts \subseteq Nat
  /\ People \in Seq([employeeNo : Nat, name : STRING, email : STRING, rank : Nat])

VARIABLES
  stage,    \* "form", "refused", "registered", "approved" or "recorded"
  master,   \* the master data
  row,      \* the stored request
  joined,   \* what the rows hold that it refers to
  sent,     \* what Create tells the engine, told to it when joined was this
  resent,   \* and what the last retry does
  asset     \* fulfillment_data

vars == <<stage, master, row, joined, sent, resent, asset>>

NoRow == [category |-> ""]
NoData == [codes |-> <<>>, units |-> <<>>, specs |-> ""]
Unsent == [when |-> NoRow]

Init ==
  /\ stage = "form"
  /\ master \in MasterData
  /\ row = NoRow /\ joined = NoRow
  /\ sent = Unsent /\ resent = Unsent
  /\ asset = NoData

(* ResolveRequester: the first person of that very name or address.  The   *)
(* name is free text: when it is nobody's, the submitter stands in.  The   *)
(* mutant always takes the submitter.                                      *)
FirstNamed(name) == SelectInSeq(People, LAMBDA p : name \in {p.name, p.email})

ResolveRequesterMutant(name, submitter) == submitter
ResolveRequester(name, submitter) ==
  IF FirstNamed(name) # 0 THEN FirstNamed(name) ELSE submitter

(* The joins of a request to its category, outlet, distributor and         *)
(* requester, whose rank is that of the primary role.                      *)
OneOf(set) == CHOOSE x \in set : TRUE

Joined(r) ==
  [category |-> r.category,
   outlet |-> OutletName[OneOf(r.outlet)],
   distributor |-> IF r.distributor = {} THEN r.distributorManual
                   ELSE DistributorName[OneOf(r.distributor)],
   employeeNo |-> People[r.requester].employeeNo,
   name |-> People[r.requester].name,
   email |-> People[r.requester].email,
   rank |-> People[r.requester].rank]

(* The name typed is not the requester's own, in whatever case.            *)
standsIn(typed, requester) == Fold[typed] \notin {Fold[requester.name], Fold[requester.email]}

(* approvalEngineDocType: the engine's workflow for a category, if any.    *)
DocType(category) ==
  IF category = "Barcode" THEN "barcode"
  ELSE IF category \in {"Android", "Server", "Mobile Printer"} THEN "field_device"
  ELSE ""

(* syncToApprovalEngine: the payload, and the remark in the history for    *)
(* whom the requester stands in.                                           *)
distributorLabel(in) ==
  IF in.distributorManual # "" THEN in.distributorManual ELSE in.distributor

Registration(in, requester) ==
  [docType |-> DocType(in.category),
   resourceRequester |-> requester.employeeNo, requesterApprovalRank |-> requester.rank,
   category |-> in.category, outlet |-> in.outlet, distributor |-> distributorLabel(in),
   salesDivision |-> in.salesDivision, reqType |-> in.reqType,
   requesterRole |-> in.requesterRole, qty |-> in.qty, priority |-> in.priority,
   remark |-> IF standsIn(in.requesterName, requester) THEN in.requesterName ELSE ""]

(* What RetryPendingApprovalSync sends for a row read back with what it is *)
(* joined to.  The mutant sends the distributor only where the form does   *)
(* when it is chosen from the list.                                        *)
CreateRequestInput(r, names, distributor) ==
  [category |-> names.category, outlet |-> names.outlet,
   distributor |-> distributor, distributorManual |-> "",
   salesDivision |-> r.salesDivision, reqType |-> r.reqType,
   requesterRole |-> r.requesterRole, requesterName |-> r.requesterName,
   qty |-> r.qty, priority |-> r.priority]

ResentInputMutant(r, names) ==
  CreateRequestInput(r, names, IF r.distributor = {} THEN "" ELSE names.distributor)

ResentInput(r, names) == CreateRequestInput(r, names, names.distributor)

---------------------------------------------------------------------------
Create(in, submitter) ==
  LET i == ResolveRequester(in.requesterName, submitter)
      stored == Normalised(in, master, i)
  IN
  /\ IF WrongField(in, master) # "" \/ i = 0
     THEN stage' = "refused" /\ UNCHANGED <<row, joined, sent>>
     ELSE /\ stage' = "registered"
          /\ row' = stored
          /\ joined' = Joined(stored)
          /\ sent' = [told |-> Registration([in EXCEPT !.reqType = stored.reqType,
                                                       !.priority = stored.priority],
                                            People[i]),
                      when |-> Joined(stored)]
  /\ UNCHANGED <<master, resent, asset>>

(* The first registration did not reach the engine; the row is sent again, *)
(* unless its category is by now none the engine has a workflow for.       *)
Retry ==
  /\ stage = "registered"
  /\ DocType(joined.category) # ""
  /\ resent' = [told |-> Registration(ResentInput(row, joined), joined), when |-> joined]
  /\ UNCHANGED <<stage, master, row, joined, sent, asset>>

Approved ==
  /\ stage = "registered"
  /\ stage' = "approved"
  /\ UNCHANGED <<master, row, joined, sent, resent, asset>>

(* SaveFulfillmentData; refused data changes nothing.                      *)
SaveFulfillmentData(data) ==
  /\ stage = "approved"
  /\ IsValid(joined.category, row.qty, data)
  /\ stage' = "recorded"
  /\ asset' = Stored(joined.category, data)
  /\ UNCHANGED <<master, row, joined, sent, resent>>

(* Meanwhile what the request refers to is edited; it may even be given    *)
(* the code or the name of something else.                                 *)
Edit(names) ==
  /\ stage \in {"registered", "approved"}
  /\ joined' = names
  /\ UNCHANGED <<stage, master, row, sent, resent, asset>>

UpdateAssetType(code) == Edit([joined EXCEPT !.category = code])
UpdateOutlet(outlet) == Edit([joined EXCEPT !.outlet = outlet])

UpdateDistributor(distributor) ==
  /\ Edit([joined EXCEPT !.distributor = distributor])
  /\ row.distributor # {}

(* With a role of another rank, perhaps.                                   *)
UpdateUser(person) ==
  Edit([joined EXCEPT !.employeeNo = person.employeeNo, !.name = person.name,
                      !.email = person.email, !.rank = person.rank])

Next ==
  \/ /\ stage = "form"
     /\ \E in \in Inputs, submitter \in Submitters : Create(in, submitter)
  \/ Retry \/ Approved
  \/ \E data \in AssetData : SaveFulfillmentData(data)
  \/ \E code \in Later.category : UpdateAssetType(code)
  \/ \E outlet \in Later.outlet : UpdateOutlet(outlet)
  \/ \E distributor \in Later.distributor : UpdateDistributor(distributor)
  \/ \E person \in Later.person : UpdateUser(person)

Spec == Init /\ [][Next]_vars

---------------------------------------------------------------------------
(* Whatever the form lets its user fill in is accepted, on whatever master *)
(* data: any category with any role it lists for it, any distributor and   *)
(* outlet of its lists that are the only ones of their name, any division  *)
(* and priority, any type where it asks for one, and any number of units,  *)
(* by reason where it asks for them, if there is one at all.               *)
Distinct(names) == IsInjective(names)

NamedOnce(o, outlets) == \A p \in outlets : OutletName[p] = OutletName[o] => p = o

ByReason(counts) ==
  [i \in DOMAIN barcodeKinds |-> [kind |-> barcodeKinds[i], quantity |-> counts[i]]]

TypesAsked(category) == IF category = "Android" THEN requestTypes ELSE {""}

UnitsAsked(category) ==
  IF category = "Barcode"
  THEN {[breakdown |-> ByReason(counts), qty |-> Total(ByReason(counts))] :
          counts \in [DOMAIN barcodeKinds -> Counts]}
  ELSE [breakdown : {<<>>}, qty : Counts]

FilledIn(category, role, d, o, division, type, typed, units, priority) ==
  [category |-> category, distributor |-> d.name, distributorManual |-> "",
   outlet |-> OutletName[o], salesDivision |-> division, reqType |-> type,
   requesterRole |-> role, requesterName |-> typed,
   qty |-> units.qty, breakdown |-> units.breakdown, priority |-> priority]

OfferedIsAccepted ==
  /\ stage = "form"
  /\ Distinct([i \in DOMAIN master.distributors |-> master.distributors[i].name])
  => \A category \in requestCategories, d \in ToSet(master.distributors),
        division \in master.divisions, priority \in requestPriorities \cup {""},
        typed \in DOMAIN Fold \ {""} :
     \A role \in requesterRolesByCategory[category], o \in OfferedOutlets(d, master),
        type \in TypesAsked(category), units \in UnitsAsked(category) :
       NamedOnce(o, OfferedOutlets(d, master)) /\ units.qty > 0
         => WrongField(FilledIn(category, role, d, o, division, type, typed, units, priority),
                       master) = ""

(* And nothing else is stored: the distributor and the outlet of a request *)
(* are offered together, whatever names were typed, or the distributor is  *)
(* typed in and the outlet active; and division, role, type, priority and  *)
(* reasons are of the lists, the role and the type of those of the         *)
(* category.                                                               *)
StoredIsOffered ==
  stage \notin {"form", "refused"}
    => /\ \E o \in row.outlet :
            IF row.distributor = {}
            THEN row.distributorManual # "" /\ o \in master.outlets
            ELSE \E d \in ToSet(master.distributors) :
                   row.distributor = {d.id} /\ o \in OfferedOutlets(d, master)
       /\ row.category \in requestCategories
       /\ row.requesterRole \in requesterRolesByCategory[row.category]
       /\ row.reqType \in TypesAsked(row.category)
       /\ row.salesDivision \in master.divisions /\ row.priority \in requestPriorities
       /\ row.qty > 0
       /\ \A item \in row.breakdown :
            /\ row.category = "Barcode"
            /\ item.kind \in ToSet(barcodeKinds) /\ item.quantity > 0

(* A request recorded as delivered unit by unit has as many different      *)
(* codes, serial numbers or IMEIs as units were asked for, whatever its    *)
(* category is called by then, and a Barcode request asked for the units   *)
(* its reasons add up to.                                                  *)
Identifiers == Range(asset.codes) \cup Range(Imeis(asset.units))

OneIdentifierPerUnit ==
  stage = "recorded"
    => /\ asset.specs = "" => Cardinality(Identifiers) = row.qty
       /\ row.category = "Barcode" => Units(row.breakdown) = row.qty

(* A retry tells the engine what the submission told it, though it starts  *)
(* from the stored row ("cmd/retrypendingsync round-tripping through the   *)
(* DB, unlike the synchronous create path"): a field is another only if    *)
(* what it stands for has been edited in between, the others stay even     *)
(* then.  Which workflow and which step of it the engine routes the        *)
(* request to may so change by an edit of the category or of the           *)
(* requester, but by nothing else.                                         *)
SourcesOf(field) ==
  CASE field \in {"docType", "category"} -> {"category"}
    [] field \in {"outlet", "distributor"} -> {field}
    [] field = "resourceRequester" -> {"employeeNo"}
    [] field = "requesterApprovalRank" -> {"rank"}
    [] field = "remark" -> {"name", "email"}
    [] OTHER -> {}

RetrySendsTheSame ==
  resent # Unsent
    => \A field \in DOMAIN sent.told :
         resent.told[field] # sent.told[field]
           => \E source \in SourcesOf(field) : resent.when[source] # sent.when[source]

(* The request is made in the name typed when somebody bears it; otherwise *)
(* a remark is left of it, unless it is another spelling of the name of    *)
(* who stands in ("The typed name matches a registered person: that        *)
(* person, as always").  Of who bears the name, still, at a retry, no      *)
(* remark is left.                                                         *)
RequesterIsNamed ==
  LET typed == row.requesterName
      named == {i \in DOMAIN People : typed \in {People[i].name, People[i].email}}
  IN  \A registration \in {sent, resent} \ {Unsent} :
        LET remark == registration.told.remark
            person == registration.when
        IN  IF named = {}
            THEN remark = typed \/ Fold[typed] \in {Fold[person.name], Fold[person.email]}
            ELSE /\ row.requester \in named
                 /\ typed \in {person.name, person.email} => remark = ""
=============================================================================
