-------------------------- MODULE PermissionCache --------------------------
(***************************************************************************)
(* PermissionResolver (permission_resolver.go) of one running instance:    *)
(* what a caller may do, looked up in the tables that UserAdmin maintains  *)
(* and kept for a time to live.  Those tables appear as what the two       *)
(* lookups read of them: the status of an account and the permissions it   *)
(* has through its role.                                                   *)
(*                                                                         *)
(* A resolver is one goroutine in resolve.  A lookup reads the clock, then *)
(* the cache under its mutex, then the user and the user's permissions in  *)
(* statements of their own, and stores what it found under the mutex       *)
(* again; lookups of the same caller overlap freely.                       *)
(***************************************************************************)
EXTENDS Integers, FiniteSets, Sequences

CONSTANTS
  Users,
  Permissions,
  None,
  Claims,        \* the callers, told apart as the cache key does
  UserId,        \* the identifiers in the claims, None where empty
  Email,
  EmployeeNo,
  Bears,         \* the accounts that may come to bear an identifier
  Resolvers,     \* the lookups in progress at one moment
  TTL,
  MaxEntries,    \* maxCachedPermissionEntries
  MaxTime        \* how far the clock goes

ASSUME CacheAssumption ==
  /\ None \notin Users \cup Claims
  /\ {UserId, Email, EmployeeNo} \subseteq [Claims -> DOMAIN Bears \cup {None}]
  /\ Bears \in [DOMAIN Bears -> SUBSET Users]
  /\ TTL \in Nat
  /\ MaxEntries \in Nat
  /\ MaxTime \in Nat

VARIABLES
  status,       \* users.status
  permissions,  \* what GetUserPermissions finds for each user
  clock,
  cache,        \* the cached results, a function on the callers it holds
  lookups,      \* the lookup each resolver is doing
  lastActive,   \* when each user was last active
  lastHeld      \* when each user last held exactly a set of permissions

tables == <<status, permissions>>
cached == <<cache, lookups>>
observed == <<lastActive, lastHeld>>
vars == <<tables, clock, cached, observed>>

Entry == [user : Users \cup {None}, held : SUBSET Permissions, expires : Nat]

Lookup ==
  [at : {"idle", "check", "find", "permissions", "store", "answered"},
   claims : Claims \cup {None},
   now : Nat,                      \* the time it began
   left : Seq(DOMAIN Bears),       \* the identifiers it has still to try
   user : Users \cup {None},       \* what it has found
   held : SUBSET Permissions]

Idle ==
  [at |-> "idle", claims |-> None, now |-> 0, left |-> <<>>, user |-> None, held |-> {}]

Time == Nat \cup {-1}

UserStatus == {"ACTIVE", "INACTIVE"}

TypeOK ==
  /\ status \in [Users -> UserStatus]
  /\ permissions \in [Users -> SUBSET Permissions]
  /\ clock \in Nat
  /\ DOMAIN cache \subseteq Claims
  /\ cache \in [DOMAIN cache -> Entry]
  /\ lookups \in [Resolvers -> Lookup]
  /\ lastActive \in [Users -> Time]
  /\ lastHeld \in [Users -> [SUBSET Permissions -> Time]]

Init ==
  /\ status \in [Users -> UserStatus]
  /\ permissions \in [Users -> SUBSET Permissions]
  /\ clock = 0
  /\ cache = <<>>
  /\ lookups = [g \in Resolvers |-> Idle]
  /\ lastActive = [u \in Users |-> IF status[u] = "ACTIVE" THEN 0 ELSE -1]
  /\ lastHeld = [u \in Users |-> [held \in SUBSET Permissions |->
                                    IF held = permissions[u] THEN 0 ELSE -1]]

(* What is the case after this step is the case at its time.               *)
Observe ==
  /\ lastActive' = [u \in Users |-> IF status'[u] = "ACTIVE" THEN clock'
                                    ELSE lastActive[u]]
  /\ lastHeld' = [u \in Users |-> [lastHeld[u] EXCEPT ![permissions'[u]] = clock']]

Tick ==
  /\ clock < MaxTime
  /\ clock' = clock + 1
  /\ UNCHANGED <<tables, cached>>
  /\ Observe

(* Accounts are edited, and a role's permissions, which may be those of    *)
(* several users.                                                          *)
Administer ==
  /\ status' \in [Users -> UserStatus]
  /\ permissions' \in [Users -> SUBSET Permissions]
  /\ UNCHANGED <<clock, cached>>
  /\ Observe

---------------------------------------------------------------------------
At(g, location) == lookups[g].at = location
Continue(g, lookup) == lookups' = [lookups EXCEPT ![g] = lookup]
Untouched == UNCHANGED <<tables, clock, observed>>

(* resolve, up to the lock: the time is read first.                        *)
Resolve(g, k) ==
  /\ At(g, "idle")
  /\ Continue(g, [Idle EXCEPT !.at = "check", !.claims = k, !.now = clock])
  /\ UNCHANGED cache
  /\ Untouched

(* The identifiers to try, in order.  The mutant falls back to an employee *)
(* number although the claims carry an address.                            *)
Given(i) == IF i = None THEN <<>> ELSE <<i>>
IdentifiersMutant(k) == Given(UserId[k]) \o Given(Email[k]) \o Given(EmployeeNo[k])
Identifiers(k) ==
  Given(UserId[k]) \o (IF Email[k] = None THEN Given(EmployeeNo[k]) ELSE Given(Email[k]))

(* An entry answers until it expires; the mutant lets it answer for ever.  *)
HitMutant(k, now) == k \in DOMAIN cache
Hit(k, now) == k \in DOMAIN cache /\ now < cache[k].expires

Check(g) ==
  LET lookup == lookups[g]
      k == lookup.claims
  IN
  /\ At(g, "check")
  /\ Continue(g,
       IF Hit(k, lookup.now)
       THEN [lookup EXCEPT !.at = "answered", !.user = cache[k].user, !.held = cache[k].held]
       ELSE [lookup EXCEPT !.at = "find", !.left = Identifiers(k)])
  /\ UNCHANGED cache
  /\ Untouched

(* GetUserByID with the next identifier.  Which account bears it, and      *)
(* whether one does, is up to the account data that UserAdmin leaves out.  *)
FindUser(g) ==
  LET lookup == lookups[g] IN
  /\ At(g, "find")
  /\ \/ /\ lookup.left = <<>>
        /\ Continue(g, [lookup EXCEPT !.at = "store"])
     \/ /\ lookup.left # <<>>
        /\ Continue(g, [lookup EXCEPT !.left = Tail(@)])
     \/ /\ lookup.left # <<>>
        /\ \E u \in Bears[Head(lookup.left)] :
             /\ Continue(g,
                  IF status[u] = "ACTIVE"
                  THEN [lookup EXCEPT !.at = "permissions", !.user = u, !.left = <<>>]
                  ELSE [lookup EXCEPT !.at = "store", !.left = <<>>])
  /\ UNCHANGED cache
  /\ Untouched

ReadPermissions(g) ==
  /\ At(g, "permissions")
  /\ Continue(g, [lookups[g] EXCEPT !.at = "store", !.held = permissions[lookups[g].user]])
  /\ UNCHANGED cache
  /\ Untouched

(* A result expires a time to live after the lookup began.  The mutant     *)
(* counts from the moment it is stored.                                    *)
ExpiresMutant(lookup) == clock + TTL
Expires(lookup) == lookup.now + TTL

(* A full cache drops the entries that had expired when the lookup began.  *)
(* The mutant takes a cache to be full when it holds too many.             *)
RemainingMutant(now) ==
  IF Cardinality(DOMAIN cache) > MaxEntries
  THEN {k \in DOMAIN cache : now < cache[k].expires}
  ELSE DOMAIN cache

Remaining(now) ==
  IF Cardinality(DOMAIN cache) >= MaxEntries
  THEN {k \in DOMAIN cache : now < cache[k].expires}
  ELSE DOMAIN cache

Store(g) ==
  LET lookup == lookups[g]
      entry == [user |-> lookup.user, held |-> lookup.held, expires |-> Expires(lookup)]
  IN
  /\ At(g, "store")
  /\ cache' = [k \in Remaining(lookup.now) \cup {lookup.claims} |->
                 IF k = lookup.claims THEN entry ELSE cache[k]]
  /\ Continue(g, [lookup EXCEPT !.at = "answered"])
  /\ Untouched

(* The caller takes the answer, or a statement failed and the caller gets  *)
(* an error: nothing is cached then.                                       *)
Return(g) ==
  /\ lookups[g].at \in {"find", "permissions", "answered"}
  /\ Continue(g, Idle)
  /\ UNCHANGED cache
  /\ Untouched

Step(g) ==
  \/ \E k \in Claims : Resolve(g, k)
  \/ Check(g) \/ FindUser(g) \/ ReadPermissions(g) \/ Store(g) \/ Return(g)

Next == Tick \/ Administer \/ \E g \in Resolvers : Step(g)

Spec == Init /\ [][Next]_vars

---------------------------------------------------------------------------
(* An answer is never older than the time to live ("applies a role change  *)
(* within the cache TTL"): the user was active, and held exactly these     *)
(* permissions, at some time since TTL before the lookup began, although   *)
(* lookups overlap, are slow, and overwrite each other's results.          *)
FreshSince(user, held, time) ==
  user # None => lastActive[user] >= time /\ lastHeld[user][held] >= time

AnswersAreFresh ==
  \A g \in Resolvers :
    At(g, "answered") =>
      FreshSince(lookups[g].user, lookups[g].held, lookups[g].now - TTL)

(* A caller is answered with an account that bears the caller's user id or *)
(* address, and one bearing the employee number only for a caller without  *)
(* an address ("could hand someone else's permissions to the caller").     *)
Rightful(k) ==
  UNION {Bears[i] : i \in {UserId[k], IF Email[k] = None THEN EmployeeNo[k]
                                      ELSE Email[k]} \ {None}}

AnswersAreRightful ==
  \A g \in Resolvers :
    At(g, "answered") => lookups[g].user \in Rightful(lookups[g].claims) \cup {None}

(* The cache only outgrows its bound by entries that could still answer    *)
(* when the lookup that is stored began, and loses no other ("bounds the   *)
(* cache; expired entries are dropped when it is reached"): by how many    *)
(* callers there are within a time to live, and the time of a lookup.      *)
FullCacheIsLive ==
  [][\A g \in Resolvers :
       Store(g) =>
         LET now == lookups[g].now
             others == DOMAIN cache \ {lookups[g].claims}
         IN
         /\ \A k \in others \ DOMAIN cache' : cache[k].expires =< now
         /\ Cardinality(DOMAIN cache') > MaxEntries
              => \A k \in others \cap DOMAIN cache' : now < cache[k].expires]_vars

(* What a lookup holds, and what is cached, was so when the lookup began   *)
(* or later, and the present is on record.                                 *)
LookupIsFresh(lookup) ==
  /\ lookup.now =< clock
  /\ lookup.at # "idle" => lookup.claims \in Claims
  /\ lookup.at \in {"check", "find"} => lookup.user = None
  /\ lookup.at = "permissions" =>
       lookup.user # None /\ lastActive[lookup.user] >= lookup.now
  /\ lookup.at = "store" => FreshSince(lookup.user, lookup.held, lookup.now)

PresentIsObserved ==
  \A u \in Users :
    /\ status[u] = "ACTIVE" => lastActive[u] = clock
    /\ lastHeld[u][permissions[u]] = clock
    /\ lastActive[u] =< clock
    /\ \A held \in SUBSET Permissions : lastHeld[u][held] =< clock

LookupsAreFresh == \A g \in Resolvers : LookupIsFresh(lookups[g])

CacheIsFresh ==
  \A k \in DOMAIN cache :
    FreshSince(cache[k].user, cache[k].held, cache[k].expires - TTL)

Inv ==
  /\ TypeOK
  /\ PresentIsObserved
  /\ LookupsAreFresh
  /\ CacheIsFresh
  /\ AnswersAreFresh
=============================================================================
