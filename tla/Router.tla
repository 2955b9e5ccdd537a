------------------------------- MODULE Router -------------------------------
(***************************************************************************)
(* Which handler a request reaches, and who is let through to it: the      *)
(* routes of router.go in the order they are registered, the middleware    *)
(* before them (JWTAuth, PermissionGuard.Require, VerifyWebhookSignature), *)
(* the permissions the roles are seeded with (migration.go), and the       *)
(* counters of navigation_service.go.                                      *)
(*                                                                         *)
(* A request walks the registrations in order: one that matches its path   *)
(* either lets it go on (middleware) or serves it (a route).  What the     *)
(* resolver answers is here what the caller's role has; PermissionCache    *)
(* has how old it may be.  Paths are written without /api/v1.              *)
(***************************************************************************)
EXTENDS Integers, Sequences, FiniteSets, SequencesExt

CONSTANTS Ids   \* the values an id in a path has, "form-options" among them

---------------------------------------------------------------------------
(* registerAPIRoutes.                                                      *)

Route(method, path, guards, handler) ==
  [method |-> method, path |-> path, guards |-> guards, handler |-> handler]

(* A group with middleware: it stands before every later route under its   *)
(* path, whichever group declared that.                                    *)
Group(path, guards) == Route("use", path, guards, "")

PublicRoutes == <<
  Route("POST", <<"auth", "login">>, <<>>, "Login"),
  Group(<<"webhooks">>, <<"signature">>),
  Route("POST", <<"webhooks", "approval-engine">>, <<>>, "ApprovalEngine"),
  Group(<<>>, <<"token">>) >>

(* FormOptions is registered before the group that would take it for an id *)
(* ("whose /:id route would otherwise take \"form-options\" for an id");   *)
(* the mutant registers it after.                                          *)
FormOptionsRoute ==
  << Route("GET", <<"requests", "form-options">>, <<"request:create">>, "FormOptions") >>

RequestRoutes == <<
  Group(<<"requests">>, <<"request:read">>),
  Route("GET", <<"requests">>, <<>>, "List"),
  Route("GET", <<"requests", ":id">>, <<>>, "Detail"),
  Route("POST", <<"requests">>, <<"request:create">>, "Create"),
  Group(<<"approvals">>, <<"approvals:read">>),
  Route("GET", <<"approvals">>, <<>>, "Approvals"),
  Route("GET", <<"approvals", ":id">>, <<>>, "ApprovalDetail"),
  Route("POST", <<"approvals", ":id", "action">>, <<"request:approve">>, "ApprovalAction"),
  Group(<<"fulfillment">>, <<"fulfillment:read">>),
  Route("GET", <<"fulfillment">>, <<>>, "Fulfillment"),
  Route("GET", <<"fulfillment", ":id">>, <<>>, "FulfillmentDetail"),
  Route("POST", <<"fulfillment", ":id", "data">>, <<"fulfillment:process">>, "SaveFulfillmentData"),
  Route("POST", <<"fulfillment", ":id", "advance">>, <<"fulfillment:process">>, "AdvanceFulfillment") >>

FormRoutesMutant == RequestRoutes \o FormOptionsRoute
FormRoutes == FormOptionsRoute \o RequestRoutes

CatalogRoutes == <<
  Route("GET", <<"fulfillment", "phone-catalog">>, <<"fulfillment:read">>, "Catalog"),
  Route("POST", <<"settings", "phone-brands">>, <<"settings:manage">>, "CreateBrand"),
  Route("PUT", <<"settings", "phone-brands", ":id">>, <<"settings:manage">>, "UpdateBrand"),
  Route("POST", <<"settings", "phone-models">>, <<"settings:manage">>, "CreateModel"),
  Route("PUT", <<"settings", "phone-models", ":id">>, <<"settings:manage">>, "UpdateModel"),
  Route("GET", <<"fulfillment", "imei-lookup", ":imei">>, <<"fulfillment:read">>, "Lookup") >>

(* List, create and update of one kind of setting.                         *)
SettingRoutes(kind, permission, list, create, update) == <<
  Route("GET", <<"settings", kind>>, <<permission>>, list),
  Route("POST", <<"settings", kind>>, <<permission>>, create),
  Route("PUT", <<"settings", kind, ":id">>, <<permission>>, update) >>

AdminRoutes == <<
  Route("GET", <<"me">>, <<>>, "GetMe"),
  Route("PUT", <<"me", "settings">>, <<>>, "UpdateUserSettings"),
  Route("GET", <<"roles">>, <<"role:manage">>, "GetRoles"),
  Route("POST", <<"roles">>, <<"role:manage">>, "CreateRole"),
  Route("POST", <<"roles", ":id", "permissions">>, <<"role:manage">>, "AssignRolePermissions"),
  Route("GET", <<"permissions">>, <<"role:manage">>, "GetPermissions"),
  Route("GET", <<"users">>, <<"user:read">>, "GetUsers"),
  Route("POST", <<"users">>, <<"user:write">>, "CreateUser"),
  Route("PUT", <<"users", ":id">>, <<"user:write">>, "UpdateUser"),
  Route("POST", <<"users", ":id", "master">>, <<"user:master">>, "SetMasterUser"),
  Route("POST", <<"users", ":id", "roles">>, <<"role:manage">>, "AssignUserRoles") >>

Routes ==
  PublicRoutes \o CatalogRoutes \o FormRoutes
  \o << Route("GET", <<"navigation", "badges">>, <<>>, "Badges"),
        Route("GET", <<"dashboard", "overview">>, <<"dashboard:read">>, "Overview") >>
  \o SettingRoutes("outlets", "masterdata:manage", "Outlets", "CreateOutlet", "UpdateOutlet")
  \o SettingRoutes("distributors", "masterdata:manage", "Distributors", "CreateDistributor", "UpdateDistributor")
  \o SettingRoutes("types", "settings:manage", "Types", "CreateType", "UpdateType")
  \o AdminRoutes

---------------------------------------------------------------------------
(* The seeded matrix of permissions, those some route asks for.            *)
SeedPermissions == [
  MASTER_ADMIN |-> {"user:read", "user:write", "user:master", "role:manage", "request:create",
    "request:read", "request:approve", "fulfillment:process", "fulfillment:read",
    "settings:manage", "dashboard:read", "approvals:read", "masterdata:manage"},
  ASSET_MANAGER |-> {"user:read", "request:create", "request:read", "request:approve",
    "fulfillment:process", "fulfillment:read", "dashboard:read", "masterdata:manage"},
  DEPARTMENT_APPROVER |-> {"user:read", "request:create", "request:read", "request:approve",
    "approvals:read"},
  FIELD_STAFF |-> {"user:read", "fulfillment:process", "fulfillment:read"},
  REGULAR_USER |-> {"user:read", "request:create", "request:read"},
  SA |-> {"request:create", "request:read"},
  SS |-> {"request:approve", "approvals:read"},
  RSM |-> {"request:approve", "approvals:read"},
  GRSM |-> {"request:approve", "approvals:read"},
  NSM |-> {"request:approve", "approvals:read"},
  SD |-> {"request:approve", "approvals:read"},
  Cabang |-> {}]

(* A caller: the engine with its signature, somebody with neither that nor *)
(* a token, or a user of some role, perhaps with a master token.           *)
Callers ==
  [kind : {"engine", "nobody"}, role : {"Cabang"}, is_master : {FALSE}]
    \cup [kind : {"user"}, role : DOMAIN SeedPermissions, is_master : BOOLEAN]

Permissions(caller) == SeedPermissions[caller.role]

(* What each of the middleware asks.  Require lets a master user through.  *)
Passes(caller, guard) ==
  CASE guard = "signature" -> caller.kind = "engine"
    [] guard = "token" -> caller.kind = "user"
    [] OTHER -> caller.is_master \/ guard \in Permissions(caller)

---------------------------------------------------------------------------
VARIABLES
  caller,
  method, path,   \* what is asked for
  position,       \* the registration reached
  outcome         \* "" on the way, then what the caller gets

vars == <<caller, method, path, position, outcome>>

(* Every path the routes are for, with every value of an id.               *)
IsParameter(segment) == segment \in {":id", ":imei"}

Concrete(pattern) ==
  {p \in [DOMAIN pattern -> Ids \cup ToSet(pattern)] :
     \A i \in DOMAIN pattern :
       IF IsParameter(pattern[i]) THEN p[i] \in Ids ELSE p[i] = pattern[i]}

Init ==
  /\ caller \in Callers
  /\ \E i \in DOMAIN Routes :
       /\ Routes[i].method # "use"
       /\ method = Routes[i].method
       /\ path \in Concrete(Routes[i].path)
  /\ position = 1
  /\ outcome = ""

Fits(pattern, p) ==
  /\ Len(pattern) =< Len(p)
  /\ \A i \in DOMAIN pattern : IsParameter(pattern[i]) \/ pattern[i] = p[i]

(* The mutant takes a group's middleware to stand before its own path only.*)
MatchesMutant(route) ==
  /\ Fits(route.path, path) /\ Len(route.path) = Len(path)
  /\ route.method \in {"use", method}

Matches(route) ==
  /\ Fits(route.path, path)
  /\ \/ route.method = "use"
     \/ route.method = method /\ Len(route.path) = Len(path)

Refused(route) == \E guard \in ToSet(route.guards) : ~Passes(caller, guard)

(* The next registration: refuse, serve, or go on.                         *)
Step ==
  LET route == Routes[position] IN
  /\ outcome = "" /\ position \in DOMAIN Routes
  /\ IF Matches(route) /\ Refused(route)
     THEN outcome' = "refused" /\ UNCHANGED position
     ELSE IF Matches(route) /\ route.method # "use"
     THEN outcome' = route.handler /\ UNCHANGED position
     ELSE position' = position + 1 /\ UNCHANGED outcome
  /\ UNCHANGED <<caller, method, path>>

Next == Step

Spec == Init /\ [][Next]_vars

---------------------------------------------------------------------------
(* Badges: a module the caller cannot open gets no counter.                *)
hasPermission(c, code) == c.is_master \/ code \in Permissions(c)

Badges(c) ==
  (IF hasPermission(c, "fulfillment:read") THEN {"fulfillment"} ELSE {})
    \cup (IF hasPermission(c, "approvals:read") THEN {"approvals"} ELSE {})

---------------------------------------------------------------------------
(* A request is answered by the handler declared for its very path, if     *)
(* there is one, and no handler of another path that has a parameter in    *)
(* its place, in whatever order the groups are declared.                   *)
Declared ==
  {i \in DOMAIN Routes :
     /\ Routes[i].method = method
     /\ Len(Routes[i].path) = Len(path) /\ Fits(Routes[i].path, path)}

MostSpecific ==
  {i \in Declared : \A j \in Declared :
     Cardinality({k \in DOMAIN path : IsParameter(Routes[i].path[k])})
       =< Cardinality({k \in DOMAIN path : IsParameter(Routes[j].path[k])})}

ServedAsDeclared ==
  outcome \notin {"", "refused"} => \E i \in MostSpecific : outcome = Routes[i].handler

(* The matrix of the requirement document, by module: who opens it.        *)
Matrix == [
  Overview |-> {"MASTER_ADMIN", "ASSET_MANAGER"},
  List |-> {"MASTER_ADMIN", "ASSET_MANAGER", "SA"},
  FormOptions |-> {"MASTER_ADMIN", "ASSET_MANAGER", "SA"},
  Create |-> {"MASTER_ADMIN", "ASSET_MANAGER", "SA"},
  Approvals |-> {"MASTER_ADMIN", "SS", "RSM", "GRSM", "NSM", "SD"},
  ApprovalAction |-> {"MASTER_ADMIN", "SS", "RSM", "GRSM", "NSM", "SD"},
  Fulfillment |-> {"MASTER_ADMIN", "ASSET_MANAGER"},
  Outlets |-> {"MASTER_ADMIN", "ASSET_MANAGER"},
  Distributors |-> {"MASTER_ADMIN", "ASSET_MANAGER"},
  Types |-> {"MASTER_ADMIN"}]

InMatrix ==
  {"MASTER_ADMIN", "ASSET_MANAGER", "SA", "SS", "RSM", "GRSM", "NSM", "SD", "Cabang"}

(* A user of a role of the matrix who asks for a module gets it exactly if *)
(* the matrix says so, through all the groups on the way ("The module      *)
(* access matrix of the requirement document"; "every approver can still   *)
(* act on a request"), and has a counter in the sidebar for exactly those  *)
(* modules that open; nobody else gets anything but what is public.        *)
Asked == {Routes[i].handler : i \in MostSpecific}

MatrixIsFollowed ==
  outcome # "" =>
    /\ caller.kind = "user" /\ caller.role \in InMatrix /\ ~caller.is_master
         => \A module \in Asked \cap DOMAIN Matrix :
              outcome # "refused" <=> caller.role \in Matrix[module]
    /\ caller.kind = "user"
         => /\ Asked = {"Approvals"}
                 => (outcome = "Approvals" <=> "approvals" \in Badges(caller))
            /\ Asked = {"Fulfillment"}
                 => (outcome = "Fulfillment" <=> "fulfillment" \in Badges(caller))
    /\ caller.kind # "user"
         => outcome \in {"refused", "Login"}
              \cup IF caller.kind = "engine" THEN {"ApprovalEngine"} ELSE {}
=============================================================================
