----------------------------- MODULE UserAdmin -----------------------------
(***************************************************************************)
(* User and role maintenance: user_service.go over                         *)
(* user_admin_repository.go, and AssignPermissionsToRole of                *)
(* auth_repository.go, under concurrent calls.                             *)
(*                                                                         *)
(* Every SQL statement outside a transaction is a step.  The transaction   *)
(* of UpdateUser locks the user's row with its first statement and is one  *)
(* step; the one of AssignPermissionsToRole locks nothing it shares, so    *)
(* its DELETE and its commit are two.  A start of the API seeds roles and  *)
(* demo accounts again (MigrateAndSeed) while other instances serve: the   *)
(* first seeding ended between its two parts, or counting the users failed *)
(* and, as the error is dropped, counts as none.                           *)
(* The roles a user may hold are seeded and nothing in the program changes *)
(* them; names, addresses and passwords of users are left out.             *)
(***************************************************************************)
CONSTANTS
  Users,        \* the accounts there may ever be
  Roles,
  StandardRoles,    \* the roles a user may be given
  AdminRole,        \* MASTER_ADMIN
  Permissions,
  SeedRole,         \* the seeded accounts and their roles
  SeedPermissions,  \* the seeded permission matrix
  Workers,      \* the calls in progress at one moment
  Updaters,     \* those of them that may be updates of users
  None

ASSUME AdminAssumption ==
  /\ AdminRole \in StandardRoles
  /\ StandardRoles \subseteq Roles
  /\ DOMAIN SeedRole \subseteq Users
  /\ SeedRole \in [DOMAIN SeedRole -> Roles]
  /\ SeedPermissions \in [Roles -> SUBSET Permissions]
  /\ Updaters \subseteq Workers
  /\ None \notin Users \cup Roles

VARIABLES
  status,        \* users.status, "" for an account that does not exist
  role,          \* user_roles, the roles each user holds
  permissions,   \* role_permissions, the permissions of each role
  calls          \* the call each worker is serving

tables == <<status, role, permissions>>
vars == <<tables, calls>>

UserStatus == {"ACTIVE", "INACTIVE"}

(* is_active of the input as the status it asks for, "" when it is nil.    *)
Call ==
  [at : {"idle", "readRoles", "count", "write", "replace"},
   user : Users \cup {None},
   role : Roles \cup {None},           \* the role to give, or to edit
   is_active : UserStatus \cup {""},
   seenStatus : UserStatus \cup {""},  \* the user, as this call read it
   seenRoles : SUBSET Roles,
   wanted : SUBSET Permissions,        \* what the edited role shall have
   deleted : SUBSET Permissions,       \* the rows its DELETE removes
   since : SUBSET Permissions]         \* history: those given to the role since by others

Idle ==
  [at |-> "idle", user |-> None, role |-> None, is_active |-> "", seenStatus |-> "",
   seenRoles |-> {}, wanted |-> {}, deleted |-> {}, since |-> {}]

TypeOK ==
  /\ status \in [Users -> UserStatus \cup {""}]
  /\ role \in [Users -> SUBSET Roles]
  /\ permissions \in [Roles -> SUBSET Permissions]
  /\ calls \in [Workers -> Call]

Admins == {u \in Users : AdminRole \in role[u]}
ActiveAdmins == {u \in Admins : status[u] = "ACTIVE"}

(* The seeded accounts and any others, whatever has become of them, and    *)
(* any permission matrix, with an active administrator.                    *)
Init ==
  /\ status \in [Users -> UserStatus \cup {""}]
  /\ role \in [Users -> SUBSET Roles]
  /\ \A u \in Users :
       role[u] \in IF status[u] = "" THEN {{}} ELSE {{c} : c \in Roles}
  /\ \A u \in DOMAIN SeedRole : status[u] # ""
  /\ permissions \in [Roles -> SUBSET Permissions]
  /\ ActiveAdmins # {}
  /\ calls = [w \in Workers |-> Idle]

At(w, location) == calls[w].at = location
Continue(w, call) == calls' = [calls EXCEPT ![w] = call]
Return(w) == Continue(w, Idle)

(* CreateUser, one transaction; its role is checked against seeded rows.   *)
CreateUser(u, code, active) ==
  /\ status[u] = ""
  /\ status' = [status EXCEPT ![u] = active]
  /\ role' = [role EXCEPT ![u] = {code}]
  /\ UNCHANGED <<permissions, calls>>

---------------------------------------------------------------------------
(* UpdateUser, and AssignRoles, which is UpdateUser with is_active nil.    *)

(* GetUser reads the account and then, in a second statement, its roles.   *)
Update(w, u, code, active) ==
  /\ At(w, "idle")
  /\ status[u] # ""
  /\ Continue(w, [Idle EXCEPT !.at = "readRoles", !.user = u, !.role = code,
                              !.is_active = active, !.seenStatus = status[u]])
  /\ UNCHANGED tables

(* What is_active nil writes is the status as it was read.                 *)
StatusToWrite(call) == IF call.is_active = "" THEN call.seenStatus ELSE call.is_active

(* The mutant of StaysAdmin looks at the role only, not at a deactivation. *)
WasAdmin(call) == call.seenStatus = "ACTIVE" /\ AdminRole \in call.seenRoles
StaysAdminMutant(call) == call.role = AdminRole
StaysAdmin(call) == StatusToWrite(call) = "ACTIVE" /\ call.role = AdminRole

ReadRoles(w) ==
  LET call == [calls[w] EXCEPT !.seenRoles = role[calls[w].user]] IN
  /\ At(w, "readRoles")
  /\ Continue(w, [call EXCEPT
       !.at = IF WasAdmin(call) /\ ~StaysAdmin(call) THEN "count" ELSE "write"])
  /\ UNCHANGED tables

(* The administrators CountOtherActiveAdmins counts.  The mutant counts    *)
(* the deactivated ones too.                                               *)
OtherActiveAdminsMutant(u) == Admins \ {u}
OtherActiveAdmins(u) == ActiveAdmins \ {u}

CountAdmins(w) ==
  /\ At(w, "count")
  /\ IF OtherActiveAdmins(calls[w].user) = {} THEN Return(w)
     ELSE Continue(w, [calls[w] EXCEPT !.at = "write"])
  /\ UNCHANGED tables

WriteUser(w) ==
  LET call == calls[w] IN
  /\ At(w, "write")
  /\ status' = [status EXCEPT ![call.user] = StatusToWrite(call)]
  /\ role' = [role EXCEPT ![call.user] = {call.role}]
  /\ Return(w)
  /\ UNCHANGED permissions

---------------------------------------------------------------------------
(* AssignPermissionsToRole.                                                *)

(* The DELETE of its transaction, which sees what is committed by now.     *)
(* The mutant deletes only what it is about to insert.                     *)
DeletePermissionsMutant(w, code, wanted) ==
  /\ At(w, "idle")
  /\ Continue(w, [Idle EXCEPT !.at = "replace", !.role = code, !.wanted = wanted,
                              !.deleted = permissions[code] \cap wanted])
  /\ UNCHANGED tables

DeletePermissions(w, code, wanted) ==
  /\ At(w, "idle")
  /\ Continue(w, [Idle EXCEPT !.at = "replace", !.role = code, !.wanted = wanted,
                              !.deleted = permissions[code]])
  /\ UNCHANGED tables

(* Its INSERTs and its commit.  Of two transactions that delete the same   *)
(* row the later one finds it gone; a row that one inserted after the      *)
(* other's DELETE stays, and inserting it again violates the primary key.  *)
Edits(v, w) == v # w /\ calls[v].at = "replace" /\ calls[v].role = calls[w].role

ReplacePermissions(w) ==
  LET call == calls[w]
      kept == permissions[call.role] \ call.deleted
  IN
  /\ At(w, "replace")
  /\ IF kept \cap call.wanted # {}
     THEN Return(w) /\ UNCHANGED permissions
     ELSE /\ permissions' = [permissions EXCEPT ![call.role] = kept \cup call.wanted]
          /\ calls' = [v \in Workers |->
               IF v = w THEN Idle
               ELSE IF Edits(v, w)
                    THEN [calls[v] EXCEPT !.deleted = @ \ call.deleted,
                                          !.since = @ \cup call.wanted]
               ELSE calls[v]]
  /\ UNCHANGED <<status, role>>

---------------------------------------------------------------------------
(* MigrateAndSeed.                                                         *)

(* The static rows, in one statement: permissions that were taken from a   *)
(* role come back.  It waits for a transaction that has deleted one.       *)
SeedMatrix ==
  /\ \A w \in Workers :
       At(w, "replace") => calls[w].deleted \cap SeedPermissions[calls[w].role] = {}
  /\ permissions' = [code \in Roles |-> permissions[code] \cup SeedPermissions[code]]
  /\ calls' = [w \in Workers |->
       IF At(w, "replace")
       THEN [calls[w] EXCEPT
               !.since = @ \cup (SeedPermissions[calls[w].role] \ permissions[calls[w].role])]
       ELSE calls[w]]
  /\ UNCHANGED <<status, role>>

(* The demo accounts, in one transaction.  An account that exists keeps    *)
(* its status; its seeded role is inserted unless the row of the first     *)
(* seeding is still there, and setSingleRole has replaced that row.        *)
SeedUsers ==
  /\ role' = [u \in Users |-> role[u] \cup
                IF u \in DOMAIN SeedRole THEN {SeedRole[u]} ELSE {}]
  /\ UNCHANGED <<status, permissions, calls>>

---------------------------------------------------------------------------
(* A statement fails or the process dies: nothing is written.              *)
Abandon(w) ==
  /\ ~At(w, "idle")
  /\ Return(w)
  /\ UNCHANGED tables

Start(w) ==
  \/ /\ w \in Updaters
     /\ \E u \in Users, code \in StandardRoles, active \in UserStatus \cup {""} :
          Update(w, u, code, active)
  \/ \E code \in Roles, wanted \in SUBSET Permissions : DeletePermissions(w, code, wanted)

Step(w) == ReadRoles(w) \/ CountAdmins(w) \/ WriteUser(w) \/ ReplacePermissions(w)

Next ==
  \/ \E u \in Users, code \in StandardRoles, active \in UserStatus :
       CreateUser(u, code, active)
  \/ SeedMatrix \/ SeedUsers
  \/ \E w \in Workers : Start(w) \/ Step(w) \/ Abandon(w)

Spec == Init /\ [][Next]_vars

---------------------------------------------------------------------------
(* An active administrator remains ("the role whose last active holder     *)
(* must always remain"), through demotions, deactivations, lookups made in *)
(* two statements and calls that end half way, as long as updates do not   *)
(* overlap.                                                                *)
LastAdminRemains == ActiveAdmins # {}

(* However many edits of a role overlap, and whatever is seeded meanwhile: *)
(* an edit that succeeds has given the role all it was asked to, and       *)
(* nothing the role had before is left, unless somebody else has given it  *)
(* to the role since the edit began.                                       *)
OldPermissionsGo ==
  [][\A w \in Workers :
       LET call == calls[w]
           now == permissions'[call.role]
       IN  ReplacePermissions(w) /\ permissions' # permissions
             => call.wanted \subseteq now /\ now \ call.wanted \subseteq call.since]_vars

(* An update names a user who exists and a role, an edit of permissions a  *)
(* role.                                                                   *)
Updating == {"readRoles", "count", "write"}

HasArguments(call) ==
  /\ call.at \in Updating =>
       call.user \in Users /\ call.role \in Roles /\ call.seenStatus # ""
  /\ call.at = "replace" => call.role \in Roles

CallsHaveArguments == \A w \in Workers : HasArguments(calls[w])

OnlyUpdatersUpdate == \A w \in Workers : calls[w].at \in Updating => w \in Updaters

(* An update that no other overlaps is right about the status it has read, *)
(* and when it is to write, either the user stays an administrator or      *)
(* there is another; seeding in between may only add one.                  *)
IsCurrent(call) ==
  /\ call.at = "readRoles" => call.seenStatus = status[call.user]
  /\ call.at = "write" => StaysAdmin(call) \/ OtherActiveAdmins(call.user) # {}

CallsAreCurrent == \A w \in Workers : IsCurrent(calls[w])

Inv ==
  /\ TypeOK
  /\ CallsHaveArguments
  /\ OnlyUpdatersUpdate
  /\ LastAdminRemains
  /\ CallsAreCurrent
=============================================================================
