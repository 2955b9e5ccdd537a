----------------------------- MODULE MasterData -----------------------------
(***************************************************************************)
(* Outlets, distributors and asset types: master_data_service.go over      *)
(* master_data_repository.go, and the requests registered on them          *)
(* (request_form.go, request_repository.go), under concurrent calls.       *)
(*                                                                         *)
(* Every SQL statement is a step.  A distributor is saved in a transaction *)
(* of several: its row, its mapping and the commit, before which nobody    *)
(* sees any of it; the rows it has written are locked meanwhile.  Names,   *)
(* regions and the codes of outlets and distributors are left out; the     *)
(* code of an asset type is the category requests are made under.  Nothing *)
(* is ever deleted.  A call the service refuses without writing ends       *)
(* there.                                                                  *)
(***************************************************************************)
CONSTANTS
  Outlets, Distributors, Types,
  Categories,   \* the codes an asset type may have
  Offered,      \* the categories the form offers, fixed in the source
  Requests,
  Workers,      \* the calls in progress at one moment
  None

Rows == Outlets \cup Distributors \cup Types

ASSUME MasterDataAssumption ==
  /\ Outlets \cap Distributors = {}
  /\ Types \cap (Outlets \cup Distributors) = {}
  /\ Offered \subseteq Categories
  /\ None \notin Rows \cup Categories \cup Requests

VARIABLES
  active,     \* is_active of each row, "" for a row that does not exist
  code,       \* asset_types.code
  servedBy,   \* distributor_outlets: the distributor of each outlet
  requests,   \* what each request refers to, and whether it is unfinished
  calls       \* the call each worker is serving

tables == <<active, code, servedBy, requests>>
vars == <<tables, calls>>

Flag == {"active", "inactive"}

(* A distributor typed in by hand is None.                                 *)
Request ==
  [status : {"", "unfinished", "finished"},
   outlet : Outlets \cup {None},
   distributor : Distributors \cup {None},
   type : Types \cup {None}]

NoRequest == [status |-> "", outlet |-> None, distributor |-> None, type |-> None]

Call ==
  [at : {"idle", "checkMapping", "inUse", "write", "map",
         "readOutlets", "findType", "insert"},
   row : Rows \cup {None},               \* the row to save
   is_active : Flag \cup {""},           \* "" is nil
   seen : Flag \cup {""},                \* the row's flag as read, "" for a new row
   outlets : SUBSET Outlets,             \* outlet_ids, or the chosen distributor's
   mapped : SUBSET Outlets,              \* those the open transaction has mapped
   code : Categories \cup {None},        \* the code to save, or the category asked for
   request : Requests \cup {None},       \* the request to register
   outlet : Outlets \cup {None},
   distributor : Distributors \cup {None},
   type : Types \cup {None},
   before : SUBSET Requests,    \* history: the unfinished requests at its start
   overtaken : BOOLEAN]         \* history: a row it read for the request was saved since

Idle ==
  [at |-> "idle", row |-> None, is_active |-> "", seen |-> "", outlets |-> {},
   mapped |-> {}, code |-> None, request |-> None, outlet |-> None, distributor |-> None,
   type |-> None, before |-> {}, overtaken |-> FALSE]

TypeOK ==
  /\ active \in [Rows -> Flag \cup {""}]
  /\ code \in [Types -> Categories \cup {None}]
  /\ servedBy \in [Outlets -> Distributors \cup {None}]
  /\ requests \in [Requests -> Request]
  /\ calls \in [Workers -> Call]

Exists(row) == active[row] # ""
Unfinished == {r \in Requests : requests[r].status = "unfinished"}

(* Any master data, no request yet.                                        *)
Init ==
  /\ active \in [Rows -> Flag \cup {""}]
  /\ code \in [Types -> Categories \cup {None}]
  /\ \A t \in Types : code[t] = None <=> ~Exists(t)
  /\ \A t, u \in Types : Exists(t) /\ code[t] = code[u] => t = u
  /\ servedBy \in [Outlets -> Distributors \cup {None}]
  /\ \A o \in Outlets : servedBy[o] # None => Exists(o) /\ Exists(servedBy[o])
  /\ requests = [r \in Requests |-> NoRequest]
  /\ calls = [w \in Workers |-> Idle]

At(w, location) == calls[w].at = location
Continue(w, call) == calls' = [calls EXCEPT ![w] = call]
Return(w) == Continue(w, Idle)

Begin(w, call) == Continue(w, [call EXCEPT !.before = Unfinished])

(* The call of w ends and its row is as it wrote it.  Whoever has read     *)
(* that row for a request is overtaken.                                    *)
HasRead(call, row) ==
  row \in {call.distributor, call.type}
    \cup (IF call.at = "readOutlets" THEN {} ELSE {call.outlet})

ReturnSaved(w) ==
  calls' = [v \in Workers |->
    IF v = w THEN Idle
    ELSE [calls[v] EXCEPT !.overtaken = @ \/ HasRead(calls[v], calls[w].row)]]

---------------------------------------------------------------------------
(* CreateOutlet and CreateAssetType: one INSERT, whose unique code may     *)
(* refuse it.                                                              *)
CreateOutlet(o, flag) ==
  /\ ~Exists(o)
  /\ active' = [active EXCEPT ![o] = flag]
  /\ UNCHANGED <<code, servedBy, requests, calls>>

CodeIsFree(t, c) == \A u \in Types \ {t} : code[u] # c

CreateAssetType(t, c, flag) ==
  /\ ~Exists(t) /\ CodeIsFree(t, c)
  /\ active' = [active EXCEPT ![t] = flag]
  /\ code' = [code EXCEPT ![t] = c]
  /\ UNCHANGED <<servedBy, requests, calls>>

(* resolveActive.  The mutant takes a row that is asked to be inactive for *)
(* unused without asking.                                                  *)
IsActiveToWrite(call) ==
  IF call.is_active # "" THEN call.is_active
  ELSE IF call.seen # "" THEN call.seen
  ELSE "active"

AsksIfInUseMutant(call) == call.seen = "active" /\ call.is_active = ""
AsksIfInUse(call) == call.seen = "active" /\ call.is_active = "inactive"

Resolve(call) == [call EXCEPT !.at = IF AsksIfInUse(call) THEN "inUse" ELSE "write"]

(* checkOutletMapping is next for a distributor that names outlets.        *)
Check(call) ==
  IF call.outlets # {} THEN [call EXCEPT !.at = "checkMapping"] ELSE Resolve(call)

(* CreateDistributor; the new id is its own.                               *)
CreateDistributor(w, d, flag, outlets) ==
  /\ At(w, "idle")
  /\ ~Exists(d) /\ \A v \in Workers : calls[v].row # d
  /\ Begin(w, Check([Idle EXCEPT !.row = d, !.is_active = flag, !.outlets = outlets]))
  /\ UNCHANGED tables

(* UpdateOutlet, UpdateDistributor and UpdateAssetType read the row first. *)
Update(w, row, flag) ==
  [Idle EXCEPT !.row = row, !.is_active = flag, !.seen = active[row]]

UpdateOutlet(w, o, flag) ==
  /\ At(w, "idle") /\ Exists(o)
  /\ Begin(w, Resolve(Update(w, o, flag)))
  /\ UNCHANGED tables

UpdateDistributor(w, d, flag, outlets) ==
  /\ At(w, "idle") /\ Exists(d)
  /\ Begin(w, Check([Update(w, d, flag) EXCEPT !.outlets = outlets]))
  /\ UNCHANGED tables

UpdateAssetType(w, t, flag, c) ==
  /\ At(w, "idle") /\ Exists(t)
  /\ Begin(w, Resolve([Update(w, t, flag) EXCEPT !.code = c]))
  /\ UNCHANGED tables

(* MissingOutlets and OutletsMappedElsewhere; an outlet found stays, so    *)
(* the two are one step.                                                   *)
MappedElsewhere(d, outlets) == {o \in outlets : servedBy[o] \notin {None, d}}

CheckOutletMapping(w) ==
  LET call == calls[w] IN
  /\ At(w, "checkMapping")
  /\ IF (\A o \in call.outlets : Exists(o)) /\ MappedElsewhere(call.row, call.outlets) = {}
     THEN Continue(w, Resolve(call))
     ELSE Return(w)
  /\ UNCHANGED tables

RefersTo(request, row) == row \in {request.outlet, request.distributor, request.type}

InUse(w) ==
  /\ At(w, "inUse")
  /\ IF \E r \in Unfinished : RefersTo(requests[r], calls[w].row)
     THEN Return(w)
     ELSE Continue(w, [calls[w] EXCEPT !.at = "write"])
  /\ UNCHANGED tables

(* The UPDATE of one row; a code that is not unique is refused.            *)
Write(w) ==
  LET call == calls[w] IN
  /\ At(w, "write") /\ call.row \notin Distributors
  /\ IF call.row \in Types => CodeIsFree(call.row, call.code)
     THEN /\ active' = [active EXCEPT ![call.row] = IsActiveToWrite(call)]
          /\ code' = IF call.row \in Types
                     THEN [code EXCEPT ![call.row] = call.code] ELSE code
          /\ ReturnSaved(w)
     ELSE Return(w) /\ UNCHANGED <<active, code>>
  /\ UNCHANGED <<servedBy, requests>>

(* The transaction of a distributor begins: the UPDATE or INSERT of its    *)
(* row waits for another transaction on that row, and the DELETE of its    *)
(* mapping is of rows no other transaction writes.                         *)
WriteDistributor(w) ==
  LET call == calls[w] IN
  /\ At(w, "write") /\ call.row \in Distributors
  /\ \A v \in Workers : At(v, "map") => calls[v].row # call.row
  /\ Continue(w, [call EXCEPT !.at = "map", !.mapped = {}])
  /\ UNCHANGED tables

(* mapOutlets, an INSERT per outlet: it waits for a transaction that has   *)
(* mapped the outlet or deleted its mapping, and the primary key outlet_id *)
(* refuses an outlet another distributor serves by now, which rolls        *)
(* everything back.  The mutant relies on the check made before.           *)
MappedBy(v) == {o \in Outlets : o \in calls[v].mapped \/ servedBy[o] = calls[v].row}

RefusedByKeyMutant(d, o) == FALSE
RefusedByKey(d, o) == servedBy[o] \notin {None, d}

MapOutlet(w, o) ==
  /\ At(w, "map") /\ o \in calls[w].outlets \ calls[w].mapped
  /\ \A v \in Workers \ {w} : At(v, "map") => o \notin MappedBy(v)
  /\ IF RefusedByKey(calls[w].row, o)
     THEN Return(w)
     ELSE Continue(w, [calls[w] EXCEPT !.mapped = @ \cup {o}])
  /\ UNCHANGED tables

(* What the transaction has written is there for everyone.  The mutant     *)
(* goes on without the outlets that were refused.                          *)
IsMappedMutant(call) == \A o \in call.outlets \ call.mapped : RefusedByKey(call.row, o)
IsMapped(call) == call.mapped = call.outlets

Mapping(d, outlets) ==
  [o \in Outlets |-> IF o \in outlets THEN d
                     ELSE IF servedBy[o] = d THEN None
                     ELSE servedBy[o]]

Commit(w) ==
  LET call == calls[w] IN
  /\ At(w, "map") /\ IsMapped(call)
  /\ active' = [active EXCEPT ![call.row] = IsActiveToWrite(call)]
  /\ servedBy' = Mapping(call.row, call.mapped)
  /\ ReturnSaved(w)
  /\ UNCHANGED <<code, requests>>

---------------------------------------------------------------------------
(* Create of the request service: FormMasterData reads the active          *)
(* distributors with all their outlets, and then the active outlets.       *)
Create(w, r, c, d, o) ==
  /\ At(w, "idle")
  /\ requests[r].status = "" /\ \A v \in Workers : calls[v].request # r
  /\ d # None => active[d] = "active"
  /\ Begin(w, [Idle EXCEPT !.at = "readOutlets", !.request = r, !.code = c,
                 !.distributor = d, !.outlet = o,
                 !.outlets = IF d = None THEN Outlets
                             ELSE {p \in Outlets : servedBy[p] = d}])
  /\ UNCHANGED tables

(* The outlets validateCreate matches the name with.  The mutant offers    *)
(* those of the chosen distributor, deactivated or not.                    *)
CandidatesMutant(call) == {o \in call.outlets : Exists(o)}
Candidates(call) == {o \in call.outlets : active[o] = "active"}

ReadOutlets(w) ==
  /\ At(w, "readOutlets")
  /\ IF calls[w].outlet \in Candidates(calls[w])
     THEN Continue(w, [calls[w] EXCEPT !.at = "findType"])
     ELSE Return(w)
  /\ UNCHANGED tables

(* The asset type of the category, looked up by code alone.                *)
FindType(w) ==
  LET call == calls[w]
      found == {t \in Types : Exists(t) /\ code[t] = call.code}
  IN
  /\ At(w, "findType")
  /\ IF found = {} THEN Return(w)
     ELSE \E t \in found : Continue(w, [call EXCEPT !.at = "insert", !.type = t])
  /\ UNCHANGED tables

Insert(w) ==
  LET call == calls[w] IN
  /\ At(w, "insert")
  /\ requests' = [requests EXCEPT ![call.request] =
       [status |-> "unfinished", outlet |-> call.outlet,
        distributor |-> call.distributor, type |-> call.type]]
  /\ Return(w)
  /\ UNCHANGED <<active, code, servedBy>>

(* The request is completed or rejected.                                   *)
Finish(r) ==
  /\ requests[r].status = "unfinished"
  /\ requests' = [requests EXCEPT ![r].status = "finished"]
  /\ UNCHANGED <<active, code, servedBy, calls>>

(* A statement fails, the process dies, or the database ends a             *)
(* transaction that waits for another and is waited for: nothing is        *)
(* written.                                                                *)
Abandon(w) ==
  /\ ~At(w, "idle")
  /\ Return(w)
  /\ UNCHANGED tables

---------------------------------------------------------------------------
Maintain(w, flag) ==
  \/ \E o \in Outlets : UpdateOutlet(w, o, flag)
  \/ \E d \in Distributors, outlets \in SUBSET Outlets : UpdateDistributor(w, d, flag, outlets)
  \/ \E t \in Types, c \in Categories : UpdateAssetType(w, t, flag, c)

Start(w) ==
  \/ \E flag \in Flag \cup {""} : Maintain(w, flag)
  \/ \E d \in Distributors, flag \in Flag, outlets \in SUBSET Outlets :
       CreateDistributor(w, d, flag, outlets)
  \/ \E r \in Requests, c \in Offered, d \in Distributors \cup {None}, o \in Outlets :
       Create(w, r, c, d, o)

Step(w) ==
  \/ CheckOutletMapping(w) \/ InUse(w) \/ Write(w)
  \/ WriteDistributor(w) \/ (\E o \in Outlets : MapOutlet(w, o)) \/ Commit(w)
  \/ ReadOutlets(w) \/ FindType(w) \/ Insert(w)

Next ==
  \/ \E o \in Outlets, flag \in Flag : CreateOutlet(o, flag)
  \/ \E t \in Types, c \in Categories, flag \in Flag : CreateAssetType(t, c, flag)
  \/ \E r \in Requests : Finish(r)
  \/ \E w \in Workers : Start(w) \/ Step(w) \/ Abandon(w)

Spec == Init /\ [][Next]_vars

---------------------------------------------------------------------------
(* Deactivating something an unfinished request refers to is refused       *)
(* ("refused with 409 while an unfinished request uses the outlet"),       *)
(* whatever else is saved or registered meanwhile: when an active row that *)
(* such a request uses becomes inactive, either the request was not there  *)
(* when the call began, or the call had not found the row active then and  *)
(* writes back what it read.                                               *)
RefusedWhileInUse ==
  [][\A w \in Workers :
       LET call == calls[w]
           isDeactivated ==
             /\ Write(w) \/ Commit(w)
             /\ active[call.row] = "active" /\ active'[call.row] = "inactive"
           isInUse == \E r \in call.before \cap Unfinished : RefersTo(requests[r], call.row)
       IN  isDeactivated /\ isInUse => call.seen # "active"]_vars

(* An outlet passes from one distributor to another only through nobody:   *)
(* of two calls that claim it at once one is refused ("an outlet already   *)
(* mapped to a distributor").                                              *)
OutletsAreNotTaken ==
  [][\A o \in Outlets :
       servedBy[o] # None /\ servedBy'[o] # servedBy[o] => servedBy'[o] = None]_vars

Serves(d) == {o \in Outlets : servedBy[o] = d}

(* A distributor is saved whole or not at all: whenever its flag or its    *)
(* outlets change, they are what one call that ends well asked for, though *)
(* its row and each outlet are written one by one, other calls write       *)
(* between and any statement may fail ("outlet_ids replaces the whole      *)
(* outlet mapping").                                                       *)
SavedWhole ==
  [][\A d \in Distributors :
       active'[d] # active[d] \/ Serves(d)' # Serves(d)
         => \E w \in Workers :
              /\ calls[w].row = d /\ calls'[w] = Idle
              /\ active'[d] = IsActiveToWrite(calls[w])
              /\ Serves(d)' = calls[w].outlets]_vars

(* The distributor, the outlet and the type of a request are read one      *)
(* after another and none again when it is inserted.  Still, whatever      *)
(* other calls save between, it is made on an active outlet, its           *)
(* distributor is active and serves that outlet, and its type has the      *)
(* category asked for, unless one of the three was itself saved after it   *)
(* was read.                                                               *)
RegistersSound ==
  [][\A w \in Workers :
       LET call == calls[w] IN
       Insert(w) /\ ~call.overtaken
         => /\ active[call.outlet] = "active"
            /\ code[call.type] = call.code
            /\ call.distributor # None
                 => /\ active[call.distributor] = "active"
                    /\ servedBy[call.outlet] = call.distributor]_vars
=============================================================================
