------------------------------ MODULE Sessions ------------------------------
(***************************************************************************)
(* One user's access from sign-in to sign-in: Login (auth_service.go), the *)
(* token it issues (jwt.go), the guard that admits a request (JWTAuth and  *)
(* Require of auth_middleware.go), and the two ways requests are shown to  *)
(* the user admitted, List and Detail (request_handler.go,                 *)
(* request_service.go, request_repository.go).                             *)
(*                                                                         *)
(* The account changes at any moment.  The resolver appears as what        *)
(* PermissionCache promises of it (AnswersAreFresh): an answer holds no    *)
(* permission, and is about no account, that was lost more than TTL before *)
(* it was asked for.  Times are ages, counted up to where they no longer   *)
(* matter; a call takes at most MaxDelay.                                  *)
(***************************************************************************)
EXTENDS Integers, Sequences, FiniteSetsExt

CONSTANTS
  TTL,        \* how long the resolver keeps an answer
  Expiry,     \* how long a token is valid
  MaxDelay,
  Submitted,  \* whether the user submitted, or is the requester of, each request
  Requests

SessionsAssumption ==
  /\ {TTL, Expiry, MaxDelay} \subseteq Nat
  /\ Submitted \in [Requests -> BOOLEAN]

Read == "request:read"
ReadAll == "request:read_all"
Create == "request:create"
Permissions == {Read, ReadAll, Create}
Facts == {"ACTIVE", "is_master"} \cup Permissions

VARIABLES
  facts,    \* what is so of the account now
  age,      \* how long each fact has not been so
  login,    \* the sign-in in progress
  token,    \* the claims of the token the client uses
  request   \* the request in progress

vars == <<facts, age, login, token, request>>

(* Older than this, an age tells nothing.                                  *)
Old(fact) ==
  IF fact \in {"is_master", "ACTIVE"} THEN Max({Expiry, TTL}) + 2 * MaxDelay + 1
  ELSE TTL + MaxDelay + 1

NoLogin == [at |-> "idle", elapsed |-> 0, is_master |-> FALSE]
NoToken == [life |-> 0, is_master |-> FALSE]
NoRequest ==
  [at |-> "idle", elapsed |-> 0, is_master |-> FALSE, asks |-> <<>>, left |-> <<>>, shown |-> {}]

Init ==
  /\ facts \in SUBSET Facts
  /\ age = [f \in Facts |-> IF f \in facts THEN 0 ELSE Old(f)]
  /\ login = NoLogin
  /\ token = NoToken
  /\ request = NoRequest

(* UpdateUser, SetMasterUser, AssignPermissionsToRole: one fact changes.   *)
Administer(f) ==
  /\ facts' = IF f \in facts THEN facts \ {f} ELSE facts \cup {f}
  /\ age' = [age EXCEPT ![f] = 0]
  /\ UNCHANGED <<login, token, request>>

Delayed(call) ==
  IF call.at = "idle" THEN call ELSE [call EXCEPT !.elapsed = @ + 1]

Tick ==
  /\ login.elapsed < MaxDelay /\ request.elapsed < MaxDelay
  /\ age' = [f \in Facts |-> IF f \in facts THEN 0 ELSE Min({age[f] + 1, Old(f)})]
  /\ login' = Delayed(login)
  /\ request' = Delayed(request)
  /\ token' = [token EXCEPT !.life = Max({@ - 1, 0})]
  /\ UNCHANGED facts

---------------------------------------------------------------------------
(* Login with the right password: the account is read, then its roles,     *)
(* permissions and settings, and a token is issued.  The permissions in    *)
(* the token decide nothing, as the guard always has a resolver.           *)
GetUser ==
  /\ login.at = "idle"
  /\ "ACTIVE" \in facts
  /\ login' = [NoLogin EXCEPT !.at = "generate", !.is_master = "is_master" \in facts]
  /\ UNCHANGED <<facts, age, token, request>>

GenerateToken ==
  /\ login.at = "generate"
  /\ token' = [life |-> Expiry, is_master |-> login.is_master]
  /\ login' = NoLogin
  /\ UNCHANGED <<facts, age, request>>

(* The sign-in fails half way.                                             *)
AbandonLogin ==
  /\ login.at # "idle"
  /\ login' = NoLogin
  /\ UNCHANGED <<facts, age, token, request>>

---------------------------------------------------------------------------
(* JWTAuth: the token is valid until it expires.  The mutant does not look *)
(* at the time.                                                            *)
ValidateTokenMutant(t) == t # NoToken
ValidateToken(t) == t.life > 0

(* The permissions the routes of requests ask for, group first (router.go).*)
Guards == {<<Read>>, <<Read, Create>>}

JWTAuth(guards) ==
  /\ request.at = "idle"
  /\ ValidateToken(token)
  /\ request' = [NoRequest EXCEPT !.at = "guard", !.is_master = token.is_master,
                   !.asks = guards, !.left = guards]
  /\ UNCHANGED <<facts, age, login, token>>

(* What the resolver may answer, asked since the request began.            *)
IsFresh(fact) == age[fact] =< request.elapsed + TTL

Answers ==
  {[known |-> FALSE, held |-> {}]}
    \cup IF IsFresh("ACTIVE")
         THEN [known : {TRUE}, held : SUBSET {p \in Permissions : IsFresh(p)}] ELSE {}

(* Require.  The mutant is content with any permission.                    *)
GrantsMutant(permission) == {answer.held # {} : answer \in Answers}
Grants(permission) == {(permission \in answer.held) : answer \in Answers}
Passes(permission) == IF request.is_master THEN {TRUE} ELSE Grants(permission)

Refuse == request' = NoRequest

Require ==
  /\ request.at = "guard"
  /\ IF request.left = <<>> THEN request' = [request EXCEPT !.at = "handler"]
     ELSE \E passes \in Passes(Head(request.left)) :
            IF passes THEN request' = [request EXCEPT !.left = Tail(@)] ELSE Refuse
  /\ UNCHANGED <<facts, age, login, token>>

---------------------------------------------------------------------------
(* ViewerFor: who the caller is, and how much the caller may see.          *)
Viewers ==
  {[known |-> answer.known, canReadAll |-> request.is_master \/ ReadAll \in answer.held] :
     answer \in Answers}

(* What the statement of List selects; no user to filter by is no filter.  *)
Selected(known) == IF known THEN {r \in Requests : Submitted[r]} ELSE Requests

(* The mutant leaves it to the statement that nobody's requests are none.  *)
ListedMutant(viewer) == IF viewer.canReadAll THEN Requests ELSE Selected(viewer.known)

Listed(viewer) ==
  IF viewer.canReadAll THEN Selected(FALSE)
  ELSE IF ~viewer.known THEN {}
  ELSE Selected(TRUE)

canSee(viewer, r) == viewer.canReadAll \/ (viewer.known /\ Submitted[r])

List ==
  /\ request.at = "handler"
  /\ \E viewer \in Viewers :
       request' = [request EXCEPT !.at = "served", !.shown = Listed(viewer)]
  /\ UNCHANGED <<facts, age, login, token>>

Detail(r) ==
  /\ request.at = "handler"
  /\ \E viewer \in Viewers :
       request' = [request EXCEPT !.at = "served",
                     !.shown = IF canSee(viewer, r) THEN {r} ELSE {}]
  /\ UNCHANGED <<facts, age, login, token>>

(* The answer is sent, or the call failed.                                 *)
Return ==
  /\ request.at # "idle"
  /\ Refuse
  /\ UNCHANGED <<facts, age, login, token>>

Next ==
  \/ Tick \/ (\E f \in Facts : Administer(f))
  \/ GetUser \/ GenerateToken \/ AbandonLogin
  \/ \E guards \in Guards : JWTAuth(guards)
  \/ Require \/ List \/ (\E r \in Requests : Detail(r)) \/ Return

Spec == Init /\ [][Next]_vars

---------------------------------------------------------------------------
(* A user who is not a master is let through only with permissions held,   *)
(* by an active account, at some time since TTL before the request came,   *)
(* whatever the token says ("a database-issued token freezes the           *)
(* permissions as of login"; "applies a role change within the cache       *)
(* TTL"), though a route asks the resolver more than once.                 *)
Admitted == request.at \in {"handler", "served"}

RoleChangesApply ==
  Admitted /\ ~request.is_master
    => \A f \in {"ACTIVE"} \cup {request.asks[i] : i \in DOMAIN request.asks} :
         age[f] =< request.elapsed + TTL

(* "Master users automatically pass permission checks", by their token: of *)
(* one who lost the flag, or was deactivated, that is true until a token   *)
(* expires that was being issued then, and no longer.                      *)
MastersEnd ==
  Admitted /\ request.is_master
    => \A f \in {"ACTIVE", "is_master"} :
         age[f] =< MaxDelay + Expiry + request.elapsed

(* "Everyone else sees only the requests they submitted or are the         *)
(* requester of": the list shows the same requests that open one by one,   *)
(* and others' only to who held request:read_all within the time to live,  *)
(* though the account may be gone between the guard and the list.          *)
ShownIsTheirs ==
  /\ request.at = "served" /\ ~request.is_master /\ (\E r \in request.shown : ~Submitted[r])
       => age[ReadAll] =< request.elapsed + TTL
  /\ Admitted => \A viewer \in Viewers : Listed(viewer) = {r \in Requests : canSee(viewer, r)}
=============================================================================
