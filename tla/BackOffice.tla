----------------------------- MODULE BackOffice -----------------------------
(***************************************************************************)
(* The parts of the service that share no state with each other, put       *)
(* together: each behaviour is a behaviour of one of them, and the         *)
(* variables of the others hold nothing.  So the states are those of the   *)
(* parts together, not their product.                                      *)
(***************************************************************************)
EXTENDS Integers, Sequences

CONSTANTS
  MasterData, Inputs, Counts, AssetData, OutletName, DistributorName,
  People, Later, Fold, Submitters, TooLong, Digits, Codes,         \* RequestDesk
  Brands, Models, Names, Editors, None,                            \* PhoneCatalog
  TACs, Devices, Files, ChunkSize, Importers, Unknown,             \* ImeiReference
  Ids,                                                             \* Router
  TTL, Expiry, MaxDelay, Submitted,                                \* Sessions
  NSteps, Categories, MonthTicks, YearMonths, Zone,
  MinYear, MaxYear, LastTick, Limit,                               \* Dashboard
  Requests                                                         \* both of these

VARIABLES
  component,
  stage, master, row, joined, sent, resent, asset,   \* RequestDesk
  name, active, brandOf, edits,               \* PhoneCatalog
  table, imports,                             \* ImeiReference
  caller, method, path, position, outcome,    \* Router
  facts, age, login, token, request,          \* Sessions
  now, requests, page                         \* Dashboard

desk == <<stage, master, row, joined, sent, resent, asset>>
phones == <<name, active, brandOf, edits>>
imeis == <<table, imports>>
routes == <<caller, method, path, position, outcome>>
sessions == <<facts, age, login, token, request>>
dashboard == <<now, requests, page>>

Desk == INSTANCE RequestDesk
Phone == INSTANCE PhoneCatalog
Imei == INSTANCE ImeiReference
Access == INSTANCE Router
Session == INSTANCE Sessions
Board == INSTANCE Dashboard

ASSUME BackOfficeAssumption ==
  /\ Desk!DigitsAssumption /\ Desk!DeskAssumption
  /\ Phone!PhoneAssumption
  /\ Imei!ImeiAssumption
  /\ Session!SessionsAssumption
  /\ Board!DashboardAssumption /\ Board!TimeAssumption

---------------------------------------------------------------------------
Nothing == "nothing"

Init ==
  /\ component \in {"desk", "phones", "imeis", "routes", "sessions", "dashboard"}
  /\ IF component = "desk" THEN Desk!Init
     ELSE /\ stage = Nothing /\ master = Nothing /\ row = Nothing /\ joined = Nothing
          /\ sent = Nothing /\ resent = Nothing /\ asset = Nothing
  /\ IF component = "phones" THEN Phone!Init
     ELSE name = Nothing /\ active = Nothing /\ brandOf = Nothing /\ edits = Nothing
  /\ IF component = "imeis" THEN Imei!Init
     ELSE table = Nothing /\ imports = Nothing
  /\ IF component = "routes" THEN Access!Init
     ELSE /\ caller = Nothing /\ method = Nothing /\ path = Nothing
          /\ position = Nothing /\ outcome = Nothing
  /\ IF component = "sessions" THEN Session!Init
     ELSE /\ facts = Nothing /\ age = Nothing /\ login = Nothing
          /\ token = Nothing /\ request = Nothing
  /\ IF component = "dashboard" THEN Board!Init
     ELSE now = Nothing /\ requests = Nothing /\ page = Nothing

Next ==
  /\ UNCHANGED component
  /\ \/ /\ component = "desk" /\ Desk!Next
        /\ UNCHANGED <<phones, imeis, routes, sessions, dashboard>>
     \/ /\ component = "phones" /\ Phone!Next
        /\ UNCHANGED <<desk, imeis, routes, sessions, dashboard>>
     \/ /\ component = "imeis" /\ Imei!Next
        /\ UNCHANGED <<desk, phones, routes, sessions, dashboard>>
     \/ /\ component = "routes" /\ Access!Next
        /\ UNCHANGED <<desk, phones, imeis, sessions, dashboard>>
     \/ /\ component = "sessions" /\ Session!Next
        /\ UNCHANGED <<desk, phones, imeis, routes, dashboard>>
     \/ /\ component = "dashboard" /\ Board!Next
        /\ UNCHANGED <<desk, phones, imeis, routes, sessions>>

Spec == Init /\ [][Next]_<<component, desk, phones, imeis, routes, sessions, dashboard>>

---------------------------------------------------------------------------
(* What the form offers is accepted (RequestDesk, of validateCreate).       *)
OfferedIsAccepted == component = "desk" => Desk!OfferedIsAccepted

(* What is stored was offered (RequestDesk, of validateCreate).             *)
StoredIsOffered == component = "desk" => Desk!StoredIsOffered

(* A unit asked for, a unit identified (RequestDesk, of the checks on the   *)
(* asset data).                                                             *)
OneIdentifierPerUnit == component = "desk" => Desk!OneIdentifierPerUnit

(* A retry repeats the submission (RequestDesk, of                          *)
(* RetryPendingApprovalSync).                                               *)
RetrySendsTheSame == component = "desk" => Desk!RetrySendsTheSame

(* A request is made in the name typed (RequestDesk, of ResolveRequester).  *)
RequesterIsNamed == component = "desk" => Desk!RequesterIsNamed

(* The phone catalogue shown is all there is to choose from (PhoneCatalog,  *)
(* of loadBrands).                                                          *)
CatalogIsWhole == component = "phones" => Phone!CatalogIsWhole

(* Imports take effect by whole files (ImeiReference, of                    *)
(* ImportImeiReference).                                                    *)
WholeFiles == Imei!WholeFiles

(* A request reaches the handler declared for it (Router, of                *)
(* registerAPIRoutes).                                                      *)
ServedAsDeclared == component = "routes" => Access!ServedAsDeclared

(* The roles open the modules the matrix gives them (Router, of the groups  *)
(* and the seeded permissions).                                             *)
MatrixIsFollowed == component = "routes" => Access!MatrixIsFollowed

(* A change of role applies within the time to live (Sessions, of Require). *)
RoleChangesApply == component = "sessions" => Session!RoleChangesApply

(* A master's rights end with the token (Sessions, of JWTAuth).             *)
MastersEnd == component = "sessions" => Session!MastersEnd

(* Requests are shown to those they belong to (Sessions, of List).          *)
ShownIsTheirs == component = "sessions" => Session!ShownIsTheirs

(* The parts of the dashboard agree (Dashboard, of Overview).               *)
PageAgrees == component = "dashboard" => Board!PageAgrees

(* The chart counts each request once (Dashboard, of CategoryMonthCounts).  *)
EachInOneBar == component = "dashboard" => Board!EachInOneBar
=============================================================================
