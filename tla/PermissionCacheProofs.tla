----------------------- MODULE PermissionCacheProofs -----------------------
(***************************************************************************)
(* Proof that PermissionCache answers nothing older than its time to live, *)
(* for any callers, accounts and permissions, any number of overlapping    *)
(* lookups, any time to live and any limit on the cache.                   *)
(***************************************************************************)
EXTENDS PermissionCache, FiniteSetTheorems, SequenceTheorems, TLAPS

(* What was observed is observed later or still.                           *)
Grows ==
  \A u \in Users :
    /\ lastActive'[u] >= lastActive[u]
    /\ \A held \in SUBSET Permissions : lastHeld'[u][held] >= lastHeld[u][held]

(* Observing what the tables hold at a time that has not gone back keeps   *)
(* the record of observations true and lets it only grow.                  *)
LEMMA ObserveIsSound ==
  ASSUME TypeOK, PresentIsObserved, Observe,
         status' \in [Users -> UserStatus],
         permissions' \in [Users -> SUBSET Permissions],
         clock' \in Nat, clock' >= clock
  PROVE  /\ lastActive' \in [Users -> Time]
         /\ lastHeld' \in [Users -> [SUBSET Permissions -> Time]]
         /\ PresentIsObserved'
         /\ Grows
<1>1. lastActive' \in [Users -> Time]
  BY DEF TypeOK, Observe, Time
<1>2. ASSUME NEW u \in Users
      PROVE  /\ lastActive'[u] =< clock'
             /\ lastActive'[u] >= lastActive[u]
             /\ status'[u] = "ACTIVE" => lastActive'[u] = clock'
  <2>1. lastActive[u] \in Time /\ lastActive[u] =< clock /\ clock \in Nat
    BY DEF TypeOK, PresentIsObserved
  <2>2. lastActive'[u] = IF status'[u] = "ACTIVE" THEN clock' ELSE lastActive[u]
    BY DEF Observe
  <2>3. QED
    BY <2>1, <2>2 DEF Time
<1>3. ASSUME NEW u \in Users
      PROVE  /\ lastHeld'[u] \in [SUBSET Permissions -> Time]
             /\ lastHeld'[u][permissions'[u]] = clock'
             /\ \A held \in SUBSET Permissions :
                  lastHeld'[u][held] =< clock' /\ lastHeld'[u][held] >= lastHeld[u][held]
  <2>1. /\ lastHeld[u] \in [SUBSET Permissions -> Time]
        /\ permissions'[u] \in SUBSET Permissions
        /\ \A held \in SUBSET Permissions : lastHeld[u][held] =< clock
    BY DEF TypeOK, PresentIsObserved
  <2>2. lastHeld'[u] = [lastHeld[u] EXCEPT ![permissions'[u]] = clock']
    BY DEF Observe
  <2>3. lastHeld'[u] \in [SUBSET Permissions -> Time]
    BY <2>1, <2>2 DEF Time
  <2>4. lastHeld'[u][permissions'[u]] = clock'
    BY <2>1, <2>2
  <2>5. ASSUME NEW held \in SUBSET Permissions
        PROVE  lastHeld'[u][held] =< clock' /\ lastHeld'[u][held] >= lastHeld[u][held]
    <3>1. lastHeld'[u][held] = IF held = permissions'[u] THEN clock' ELSE lastHeld[u][held]
      BY <2>1, <2>2
    <3>2. lastHeld[u][held] \in Time /\ lastHeld[u][held] =< clock /\ clock \in Nat
      BY <2>1 DEF TypeOK
    <3>3. QED
      BY <3>1, <3>2 DEF Time
  <2>6. QED
    BY <2>3, <2>4, <2>5
<1>4. lastHeld' \in [Users -> [SUBSET Permissions -> Time]]
  <2>1. lastHeld' = [u \in Users |-> lastHeld'[u]]
    BY DEF Observe
  <2>2. QED
    BY <1>3, <2>1
<1>5. PresentIsObserved'
  BY <1>2, <1>3 DEF PresentIsObserved
<1>6. QED
  BY <1>1, <1>2, <1>3, <1>4, <1>5 DEF Grows

(* FreshSince of values of this state, judged in the next.                 *)
StaysFresh(user, held, time) ==
  user # None => lastActive'[user] >= time /\ lastHeld'[user][held] >= time

(* What was fresh stays so as observations grow.                           *)
LEMMA FreshStays ==
  ASSUME TypeOK, TypeOK', Grows
  PROVE  \A user \in Users \cup {None}, held \in SUBSET Permissions, time \in Int :
           FreshSince(user, held, time) => StaysFresh(user, held, time)
<1> SUFFICES ASSUME NEW user \in Users \cup {None}, NEW held \in SUBSET Permissions,
                    NEW time \in Int, FreshSince(user, held, time), user # None
             PROVE  lastActive'[user] >= time /\ lastHeld'[user][held] >= time
  BY DEF StaysFresh
<1>1. user \in Users
  OBVIOUS
<1>2. /\ lastActive[user] \in Int /\ lastActive'[user] \in Int
      /\ lastHeld[user][held] \in Int /\ lastHeld'[user][held] \in Int
  BY <1>1 DEF TypeOK, Time
<1>3. QED
  BY <1>1, <1>2 DEF FreshSince, Grows

(* The values of a lookup and of an entry are of their types.              *)
LEMMA LookupTyped ==
  ASSUME TypeOK, NEW g \in Resolvers
  PROVE  /\ lookups[g] \in Lookup
         /\ lookups[g].user \in Users \cup {None}
         /\ lookups[g].held \in SUBSET Permissions
         /\ lookups[g].now \in Nat
         /\ TTL \in Nat
BY CacheAssumption DEF TypeOK, Lookup

(* The same of a cached entry.                                             *)
LEMMA EntryTyped ==
  ASSUME TypeOK, NEW k \in DOMAIN cache
  PROVE  /\ cache[k] \in Entry
         /\ cache[k].user \in Users \cup {None}
         /\ cache[k].held \in SUBSET Permissions
         /\ cache[k].expires \in Nat
         /\ TTL \in Nat
BY CacheAssumption DEF TypeOK, Entry

(* A step that only observes leaves every lookup and entry fresh.          *)
LEMMA ObservingKeepsFresh ==
  ASSUME Inv, TypeOK', PresentIsObserved', Grows, clock' >= clock, UNCHANGED cached
  PROVE  Inv'
<1>1. TypeOK /\ lookups' = lookups /\ cache' = cache
  BY DEF Inv, cached
<1>2. \A user \in Users \cup {None}, held \in SUBSET Permissions, time \in Int :
        FreshSince(user, held, time) => StaysFresh(user, held, time)
  BY <1>1, FreshStays
<1>3. ASSUME NEW g \in Resolvers
      PROVE  LookupIsFresh(lookups[g])'
  <2> DEFINE lookup == lookups[g]
  <2>1. LookupIsFresh(lookup)
    BY DEF Inv, LookupsAreFresh
  <2>2. /\ lookup.user \in Users \cup {None}
        /\ lookup.held \in SUBSET Permissions
        /\ lookup.now \in Nat
    BY <1>1, LookupTyped
  <2>3. lookup.now =< clock'
    BY <1>1, <2>1, <2>2 DEF LookupIsFresh, TypeOK
  <2>4. lookup.at = "permissions" => lookup.user # None /\ lastActive'[lookup.user] >= lookup.now
    <3>1. CASE lookup.at = "permissions"
      <4>1. lookup.user # None /\ lastActive[lookup.user] >= lookup.now
        BY <2>1, <3>1 DEF LookupIsFresh
      <4>2. lookup.user \in Users
        BY <2>2, <4>1
      <4>3. lastActive'[lookup.user] >= lastActive[lookup.user]
        BY <4>2 DEF Grows
      <4>4. lastActive'[lookup.user] \in Int /\ lastActive[lookup.user] \in Int
        BY <1>1, <4>2 DEF TypeOK, Time
      <4>5. QED
        BY <2>2, <4>1, <4>3, <4>4
    <3>2. QED
      BY <3>1
  <2>5. lookup.at = "store" => StaysFresh(lookup.user, lookup.held, lookup.now)
    BY <1>2, <2>1, <2>2 DEF LookupIsFresh
  <2>6. QED
    BY <1>1, <2>1, <2>3, <2>4, <2>5 DEF LookupIsFresh, FreshSince, StaysFresh
<1>4. CacheIsFresh'
  <2>1. ASSUME NEW k \in DOMAIN cache
        PROVE  StaysFresh(cache[k].user, cache[k].held, cache[k].expires - TTL)
    <3>1. /\ cache[k].user \in Users \cup {None}
          /\ cache[k].held \in SUBSET Permissions
          /\ cache[k].expires - TTL \in Int
      BY <1>1, EntryTyped
    <3>2. FreshSince(cache[k].user, cache[k].held, cache[k].expires - TTL)
      BY DEF Inv, CacheIsFresh
    <3>3. QED
      BY <1>2, <3>1, <3>2
  <2>2. QED
    BY <1>1, <2>1 DEF CacheIsFresh, FreshSince, StaysFresh
<1>5. AnswersAreFresh'
  <2>1. ASSUME NEW g \in Resolvers, At(g, "answered")
        PROVE  StaysFresh(lookups[g].user, lookups[g].held, lookups[g].now - TTL)
    <3>1. /\ lookups[g].user \in Users \cup {None}
          /\ lookups[g].held \in SUBSET Permissions
          /\ lookups[g].now - TTL \in Int
      BY <1>1, LookupTyped
    <3>2. FreshSince(lookups[g].user, lookups[g].held, lookups[g].now - TTL)
      BY <2>1 DEF Inv, AnswersAreFresh
    <3>3. QED
      BY <1>2, <3>1, <3>2
  <2>2. QED
    BY <1>1, <2>1 DEF AnswersAreFresh, At, FreshSince, StaysFresh
<1>6. QED
  BY <1>3, <1>4, <1>5 DEF Inv, LookupsAreFresh

(* Time and the administration of accounts only observe.                   *)
LEMMA ObservingKeepsInv ==
  ASSUME Inv, Tick \/ Administer
  PROVE  Inv'
<1>1. /\ status' \in [Users -> UserStatus]
      /\ permissions' \in [Users -> SUBSET Permissions]
      /\ clock' \in Nat
      /\ clock' >= clock
      /\ Observe
      /\ lookups' = lookups /\ cache' = cache
  BY DEF Inv, TypeOK, Tick, Administer, tables, cached
<1>2. /\ lastActive' \in [Users -> Time]
      /\ lastHeld' \in [Users -> [SUBSET Permissions -> Time]]
      /\ PresentIsObserved'
      /\ Grows
  BY <1>1, ObserveIsSound DEF Inv
<1>3. TypeOK'
  BY <1>1, <1>2 DEF Inv, TypeOK
<1>4. QED
  BY <1>1, <1>2, <1>3, ObservingKeepsFresh DEF cached

---------------------------------------------------------------------------
(* A lookup's step that leaves the lookup and the cache typed and fresh    *)
(* keeps the invariant.                                                    *)
LEMMA LookupStep ==
  ASSUME Inv, NEW g \in Resolvers, NEW lookup \in Lookup,
         Continue(g, lookup), Untouched, LookupIsFresh(lookup),
         lookup.at = "answered" => FreshSince(lookup.user, lookup.held, lookup.now - TTL),
         DOMAIN cache' \subseteq Claims,
         cache' \in [DOMAIN cache' -> Entry],
         \A k \in DOMAIN cache' :
           FreshSince(cache'[k].user, cache'[k].held, cache'[k].expires - TTL)
  PROVE  Inv'
<1>1. /\ lookups' = [lookups EXCEPT ![g] = lookup]
      /\ status' = status /\ permissions' = permissions /\ clock' = clock
      /\ lastActive' = lastActive /\ lastHeld' = lastHeld
  BY DEF Continue, Untouched, tables, observed
<1>2. /\ lookups' \in [Resolvers -> Lookup]
      /\ lookups'[g] = lookup
      /\ \A h \in Resolvers \ {g} : lookups'[h] = lookups[h]
  BY <1>1 DEF Inv, TypeOK
<1>3. TypeOK'
  BY <1>1, <1>2 DEF Inv, TypeOK
<1>4. PresentIsObserved'
  BY <1>1 DEF Inv, PresentIsObserved
<1>5. LookupsAreFresh'
  BY <1>1, <1>2 DEF Inv, LookupsAreFresh, LookupIsFresh, FreshSince
<1>6. CacheIsFresh'
  BY <1>1 DEF CacheIsFresh, FreshSince
<1>7. AnswersAreFresh'
  BY <1>1, <1>2 DEF Inv, AnswersAreFresh, At, FreshSince
<1>8. QED
  BY <1>3, <1>4, <1>5, <1>6, <1>7 DEF Inv

(* The cache as it is satisfies what LookupStep asks of it.                *)
LEMMA CacheUnchanged ==
  ASSUME Inv, UNCHANGED cache
  PROVE  /\ DOMAIN cache' \subseteq Claims
         /\ cache' \in [DOMAIN cache' -> Entry]
         /\ \A k \in DOMAIN cache' :
              FreshSince(cache'[k].user, cache'[k].held, cache'[k].expires - TTL)
BY DEF Inv, TypeOK, CacheIsFresh

(* The identifiers a lookup tries.                                         *)
LEMMA IdentifiersTyped ==
  ASSUME NEW k \in Claims
  PROVE  Identifiers(k) \in Seq(DOMAIN Bears)
<1>1. ASSUME NEW i \in DOMAIN Bears \cup {None}
      PROVE  Given(i) \in Seq(DOMAIN Bears)
  <2>1. <<>> \in Seq(DOMAIN Bears)
    OBVIOUS
  <2>2. i # None => <<i>> \in Seq(DOMAIN Bears)
    OBVIOUS
  <2>3. CASE i = None
    BY <2>1, <2>3, Zenon DEF Given
  <2>4. CASE i # None
    BY <2>2, <2>4, Zenon DEF Given
  <2>5. QED
    BY <2>3, <2>4
<1>2. /\ UserId[k] \in DOMAIN Bears \cup {None}
      /\ Email[k] \in DOMAIN Bears \cup {None}
      /\ EmployeeNo[k] \in DOMAIN Bears \cup {None}
  BY CacheAssumption
<1>3. QED
  BY <1>1, <1>2 DEF Identifiers

(* A resolver at rest.                                                     *)
LEMMA IdleIsFresh ==
  ASSUME TypeOK
  PROVE  Idle \in Lookup /\ LookupIsFresh(Idle)
<1>1. Idle \in Lookup
  <2>1. <<>> \in Seq(DOMAIN Bears)
    OBVIOUS
  <2>2. QED
    BY <2>1 DEF Idle, Lookup
<1>2. LookupIsFresh(Idle)
  BY DEF Idle, LookupIsFresh, TypeOK
<1>3. QED
  BY <1>1, <1>2

(* Every step of a lookup keeps the invariant.                             *)
LEMMA ResolveKeepsInv ==
  ASSUME Inv, NEW g \in Resolvers, NEW k \in Claims, Resolve(g, k)
  PROVE  Inv'
<1> DEFINE lookup == [Idle EXCEPT !.at = "check", !.claims = k, !.now = clock]
<1>1. lookup \in Lookup
  <2>1. Idle \in Lookup /\ clock \in Nat
    BY IdleIsFresh DEF Inv, TypeOK
  <2>2. QED
    BY <2>1 DEF Lookup
<1>2. LookupIsFresh(lookup) /\ lookup.at # "answered"
  BY DEF Idle, LookupIsFresh, Inv, TypeOK
<1>3. Continue(g, lookup) /\ Untouched /\ UNCHANGED cache
  BY DEF Resolve
<1> HIDE DEF lookup
<1>4. QED
  BY <1>1, <1>2, <1>3, LookupStep, CacheUnchanged

(* A hit is as fresh as its entry, which has not expired.                  *)
LEMMA CheckKeepsInv ==
  ASSUME Inv, NEW g \in Resolvers, Check(g)
  PROVE  Inv'
<1> DEFINE lookup == lookups[g]
           k == lookup.claims
           hit == [lookup EXCEPT !.at = "answered", !.user = cache[k].user,
                                 !.held = cache[k].held]
           miss == [lookup EXCEPT !.at = "find", !.left = Identifiers(k)]
<1>1. lookup \in Lookup /\ lookup.at = "check" /\ LookupIsFresh(lookup) /\ TypeOK
  BY DEF Check, At, Inv, TypeOK, LookupsAreFresh
<1>2. k \in Claims /\ lookup.now \in Nat /\ TTL \in Nat
  BY <1>1, CacheAssumption DEF LookupIsFresh, Lookup
<1>3. Untouched /\ UNCHANGED cache /\ Continue(g, IF Hit(k, lookup.now) THEN hit ELSE miss)
  BY DEF Check
<1>4. CASE Hit(k, lookup.now)
  <2>1. /\ k \in DOMAIN cache
        /\ lookup.now < cache[k].expires
        /\ cache[k].user \in Users \cup {None}
        /\ cache[k].held \in SUBSET Permissions
        /\ cache[k].expires \in Nat
        /\ FreshSince(cache[k].user, cache[k].held, cache[k].expires - TTL)
    BY <1>1, <1>4, EntryTyped DEF Hit, Inv, CacheIsFresh
  <2>2. hit \in Lookup
    BY <1>1, <2>1 DEF Lookup
  <2>3. LookupIsFresh(hit)
    BY <1>1 DEF LookupIsFresh, Lookup
  <2>4. /\ hit.user = cache[k].user
        /\ hit.held = cache[k].held
        /\ hit.now = lookup.now
    BY <1>1 DEF Lookup
  <2>5. CASE cache[k].user = None
    <3>1. FreshSince(hit.user, hit.held, hit.now - TTL)
      BY <2>4, <2>5 DEF FreshSince
    <3> HIDE DEF hit
    <3>2. QED
      BY <1>3, <1>4, <2>2, <2>3, <3>1, LookupStep, CacheUnchanged
  <2>6. CASE cache[k].user # None
    <3>1. /\ lastActive[cache[k].user] \in Int
          /\ lastHeld[cache[k].user][cache[k].held] \in Int
      BY <1>1, <2>1, <2>6 DEF TypeOK, Time
    <3>2. FreshSince(cache[k].user, cache[k].held, lookup.now - TTL)
      BY <1>2, <2>1, <2>6, <3>1 DEF FreshSince
    <3>3. FreshSince(hit.user, hit.held, hit.now - TTL)
      BY <2>4, <3>2
    <3> HIDE DEF hit
    <3>4. QED
      BY <1>3, <1>4, <2>2, <2>3, <3>3, LookupStep, CacheUnchanged
  <2>7. QED
    BY <2>5, <2>6
<1>5. CASE ~Hit(k, lookup.now)
  <2>1. miss \in Lookup
    BY <1>1, <1>2, IdentifiersTyped DEF Lookup
  <2>2. LookupIsFresh(miss) /\ miss.at # "answered"
    BY <1>1 DEF LookupIsFresh, Lookup
  <2> HIDE DEF miss
  <2>3. QED
    BY <1>3, <1>5, <2>1, <2>2, LookupStep, CacheUnchanged
<1>6. QED
  BY <1>4, <1>5

(* The user it finds active is active now.                                 *)
LEMMA FindUserKeepsInv ==
  ASSUME Inv, NEW g \in Resolvers, FindUser(g)
  PROVE  Inv'
<1> DEFINE lookup == lookups[g]
           none == [lookup EXCEPT !.at = "store"]
           next == [lookup EXCEPT !.left = Tail(@)]
           found(u) == [lookup EXCEPT !.at = "permissions", !.user = u, !.left = <<>>]
           inactive == [lookup EXCEPT !.at = "store", !.left = <<>>]
<1>1. lookup \in Lookup /\ lookup.at = "find" /\ LookupIsFresh(lookup) /\ TypeOK
  BY DEF FindUser, At, Inv, TypeOK, LookupsAreFresh
<1>2. /\ lookup.claims \in Claims
      /\ lookup.user = None
      /\ lookup.now \in Nat /\ clock \in Nat /\ lookup.now =< clock
      /\ lookup.left \in Seq(DOMAIN Bears)
  BY <1>1 DEF LookupIsFresh, Lookup, TypeOK
<1>3. Untouched /\ UNCHANGED cache
  BY DEF FindUser
<1>4. <<>> \in Seq(DOMAIN Bears)
  OBVIOUS
<1>5. CASE Continue(g, none)
  <2>1. none \in Lookup
    BY <1>1 DEF Lookup
  <2>2. LookupIsFresh(none) /\ none.at # "answered"
    BY <1>1, <1>2 DEF LookupIsFresh, FreshSince, Lookup
  <2> HIDE DEF none
  <2>3. QED
    BY <1>3, <1>5, <2>1, <2>2, LookupStep, CacheUnchanged
<1>6. CASE lookup.left # <<>> /\ Continue(g, next)
  <2>1. Tail(lookup.left) \in Seq(DOMAIN Bears)
    <3>1. lookup.left \in Seq(DOMAIN Bears) /\ lookup.left # <<>>
      BY <1>2, <1>6
    <3>2. QED
      BY ONLY <3>1, HeadTailProperties
  <2>2. next \in Lookup
    BY <1>1, <2>1 DEF Lookup
  <2>3. LookupIsFresh(next) /\ next.at # "answered"
    BY <1>1, <1>2 DEF LookupIsFresh, FreshSince, Lookup
  <2> HIDE DEF next
  <2>4. QED
    BY <1>3, <1>6, <2>2, <2>3, LookupStep, CacheUnchanged
<1>7. ASSUME NEW u \in Users, status[u] = "ACTIVE", Continue(g, found(u))
      PROVE  Inv'
  <2>1. u # None /\ lastActive[u] = clock
    BY <1>7, CacheAssumption DEF Inv, PresentIsObserved
  <2>2. found(u) \in Lookup
    BY <1>1, <1>4 DEF Lookup
  <2>3. LookupIsFresh(found(u)) /\ found(u).at # "answered"
    BY <1>1, <1>2, <2>1 DEF LookupIsFresh, Lookup
  <2> HIDE DEF found
  <2>4. QED
    BY <1>3, <1>7, <2>2, <2>3, LookupStep, CacheUnchanged
<1>8. CASE Continue(g, inactive)
  <2>1. inactive \in Lookup
    BY <1>1, <1>4 DEF Lookup
  <2>2. LookupIsFresh(inactive) /\ inactive.at # "answered"
    BY <1>1, <1>2 DEF LookupIsFresh, FreshSince, Lookup
  <2> HIDE DEF inactive
  <2>3. QED
    BY <1>3, <1>8, <2>1, <2>2, LookupStep, CacheUnchanged
<1>9. CASE lookup.left # <<>> /\ \E u \in Bears[Head(lookup.left)] :
             Continue(g, IF status[u] = "ACTIVE" THEN found(u) ELSE inactive)
  <2>1. PICK u \in Bears[Head(lookup.left)] :
          Continue(g, IF status[u] = "ACTIVE" THEN found(u) ELSE inactive)
    BY <1>9
  <2>2. Head(lookup.left) \in DOMAIN Bears
    BY <1>2, <1>9
  <2>3. u \in Users
    BY <2>1, <2>2, CacheAssumption
  <2> HIDE DEF found, inactive
  <2>4. QED
    BY <1>7, <1>8, <2>1, <2>3
<1>10. \/ Continue(g, none)
       \/ lookup.left # <<>> /\ Continue(g, next)
       \/ lookup.left # <<>> /\ \E u \in Bears[Head(lookup.left)] :
            Continue(g, IF status[u] = "ACTIVE" THEN found(u) ELSE inactive)
  BY DEF FindUser
<1> HIDE DEF none, next, found, inactive
<1>11. QED
  BY <1>5, <1>6, <1>9, <1>10

(* The permissions read are those held now.                                *)
LEMMA ReadPermissionsKeepsInv ==
  ASSUME Inv, NEW g \in Resolvers, ReadPermissions(g)
  PROVE  Inv'
<1> DEFINE lookup == lookups[g]
           u == lookup.user
           read == [lookup EXCEPT !.at = "store", !.held = permissions[u]]
<1>1. lookup \in Lookup /\ lookup.at = "permissions" /\ LookupIsFresh(lookup) /\ TypeOK
  BY DEF ReadPermissions, At, Inv, TypeOK, LookupsAreFresh
<1>2. /\ u \in Users
      /\ lookup.claims \in Claims
      /\ lastActive[u] >= lookup.now
      /\ lookup.now \in Nat /\ clock \in Nat /\ lookup.now =< clock
  BY <1>1 DEF LookupIsFresh, Lookup, TypeOK
<1>3. permissions[u] \in SUBSET Permissions /\ lastHeld[u][permissions[u]] = clock
  BY <1>1, <1>2 DEF Inv, TypeOK, PresentIsObserved
<1>4. read \in Lookup
  BY <1>1, <1>3 DEF Lookup
<1>5. /\ read.user = u /\ read.held = permissions[u] /\ read.now = lookup.now
      /\ read.claims = lookup.claims /\ read.at = "store"
  BY <1>1 DEF Lookup
<1>6. FreshSince(read.user, read.held, read.now)
  BY <1>2, <1>3, <1>5 DEF FreshSince
<1>7. LookupIsFresh(read) /\ read.at # "answered"
  BY <1>2, <1>5, <1>6 DEF LookupIsFresh
<1>8. Continue(g, read) /\ Untouched /\ UNCHANGED cache
  BY DEF ReadPermissions
<1> HIDE DEF read
<1>9. QED
  BY <1>4, <1>7, <1>8, LookupStep, CacheUnchanged

(* A stored result is as fresh as its lookup says, and the entries that    *)
(* remain are what they were.                                              *)
LEMMA StoreKeepsInv ==
  ASSUME Inv, NEW g \in Resolvers, Store(g)
  PROVE  Inv'
<1> DEFINE lookup == lookups[g]
           k == lookup.claims
           entry == [user |-> lookup.user, held |-> lookup.held, expires |-> Expires(lookup)]
           answered == [lookup EXCEPT !.at = "answered"]
<1>1. lookup \in Lookup /\ lookup.at = "store" /\ LookupIsFresh(lookup) /\ TypeOK
  BY DEF Store, At, Inv, TypeOK, LookupsAreFresh
<1>2. /\ k \in Claims
      /\ lookup.user \in Users \cup {None}
      /\ lookup.held \in SUBSET Permissions
      /\ lookup.now \in Nat /\ lookup.now =< clock
      /\ TTL \in Nat
      /\ FreshSince(lookup.user, lookup.held, lookup.now)
  BY <1>1, CacheAssumption DEF LookupIsFresh, Lookup
<1>3. /\ cache' = [c \in Remaining(lookup.now) \cup {k} |-> IF c = k THEN entry ELSE cache[c]]
      /\ Continue(g, answered)
      /\ Untouched
  BY DEF Store
<1>4. Remaining(lookup.now) \subseteq DOMAIN cache
  BY DEF Remaining
<1>5. entry \in Entry
  BY <1>2 DEF Entry, Expires
<1>6. /\ DOMAIN cache' \subseteq Claims
      /\ cache' \in [DOMAIN cache' -> Entry]
  <2>1. DOMAIN cache' = Remaining(lookup.now) \cup {k}
    BY <1>3
  <2>2. \A c \in DOMAIN cache' : (IF c = k THEN entry ELSE cache[c]) \in Entry
    BY <1>1, <1>4, <1>5, <2>1 DEF TypeOK
  <2> HIDE DEF entry
  <2>3. cache' \in [DOMAIN cache' -> Entry]
    BY <1>3, <2>1, <2>2
  <2>4. QED
    BY <1>1, <1>2, <1>4, <2>1, <2>3 DEF TypeOK
<1>7. ASSUME NEW c \in DOMAIN cache'
      PROVE  FreshSince(cache'[c].user, cache'[c].held, cache'[c].expires - TTL)
  <2>1. CASE c = k
    <3>1. cache'[c] = entry
      BY <1>3, <2>1
    <3>2. entry.expires - TTL = lookup.now
      BY <1>2 DEF Expires
    <3>3. FreshSince(entry.user, entry.held, entry.expires - TTL)
      BY <1>2, <3>2
    <3> HIDE DEF entry
    <3>4. QED
      BY <3>1, <3>3
  <2>2. CASE c # k
    <3>1. c \in DOMAIN cache /\ cache'[c] = cache[c]
      BY <1>3, <1>4, <2>2
    <3>2. QED
      BY <3>1 DEF Inv, CacheIsFresh
  <2>3. QED
    BY <2>1, <2>2
<1>8. answered \in Lookup
  BY <1>1 DEF Lookup
<1>9. /\ LookupIsFresh(answered)
      /\ answered.user = lookup.user /\ answered.held = lookup.held
      /\ answered.now = lookup.now
  BY <1>1, <1>2 DEF LookupIsFresh, Lookup
<1>10. FreshSince(lookup.user, lookup.held, lookup.now - TTL)
  <2>1. CASE lookup.user = None
    BY <2>1 DEF FreshSince
  <2>2. CASE lookup.user # None
    <3>1. lookup.user \in Users
      BY <1>2, <2>2
    <3>2. lastActive[lookup.user] \in Int /\ lastHeld[lookup.user][lookup.held] \in Int
      BY <1>1, <1>2, <3>1 DEF TypeOK, Time
    <3>3. QED
      BY <1>2, <3>2 DEF FreshSince
  <2>3. QED
    BY <2>1, <2>2
<1>11. FreshSince(answered.user, answered.held, answered.now - TTL)
  BY <1>9, <1>10
<1> HIDE DEF answered
<1>12. QED
  BY <1>3, <1>6, <1>7, <1>8, <1>9, <1>11, LookupStep

(* A resolver that has answered or failed is at rest.                      *)
LEMMA ReturnKeepsInv ==
  ASSUME Inv, NEW g \in Resolvers, Return(g)
  PROVE  Inv'
<1>1. Idle \in Lookup /\ LookupIsFresh(Idle) /\ Idle.at # "answered"
  BY IdleIsFresh DEF Inv, Idle
<1>2. Continue(g, Idle) /\ Untouched /\ UNCHANGED cache
  BY DEF Return
<1>3. QED
  BY <1>1, <1>2, LookupStep, CacheUnchanged

---------------------------------------------------------------------------
(* The invariant holds at the start.                                       *)
LEMMA InitInv == Init => Inv
<1> SUFFICES ASSUME Init PROVE Inv
  OBVIOUS
<1>1. lastHeld = [u \in Users |-> [held \in SUBSET Permissions |->
                                     IF held = permissions[u] THEN 0 ELSE -1]]
  BY DEF Init
<1>2. lastHeld \in [Users -> [SUBSET Permissions -> Time]]
  BY <1>1 DEF Time
<1>3. lastActive \in [Users -> Time]
  BY DEF Init, Time
<1>4. /\ clock = 0
      /\ DOMAIN cache = {}
      /\ cache \in [DOMAIN cache -> Entry]
      /\ status \in [Users -> UserStatus]
      /\ permissions \in [Users -> SUBSET Permissions]
  BY DEF Init
<1>5. Idle \in Lookup
  <2>1. <<>> \in Seq(DOMAIN Bears)
    OBVIOUS
  <2>2. QED
    BY <2>1 DEF Idle, Lookup
<1>6. TypeOK
  <2>1. lookups \in [Resolvers -> Lookup]
    BY <1>5 DEF Init
  <2>2. clock \in Nat /\ DOMAIN cache \subseteq Claims
    BY <1>4
  <2>3. QED
    BY <1>2, <1>3, <1>4, <2>1, <2>2 DEF TypeOK
<1>7. PresentIsObserved
  <2>1. ASSUME NEW u \in Users
        PROVE  /\ status[u] = "ACTIVE" => lastActive[u] = 0
               /\ lastActive[u] =< 0
    BY DEF Init
  <2>2. ASSUME NEW u \in Users
        PROVE  /\ lastHeld[u][permissions[u]] = 0
               /\ \A held \in SUBSET Permissions : lastHeld[u][held] =< 0
    BY <1>1, <1>4
  <2>3. QED
    BY <1>4, <2>1, <2>2 DEF PresentIsObserved
<1>8. LookupsAreFresh
  BY <1>6, IdleIsFresh DEF Init, LookupsAreFresh
<1>9. CacheIsFresh
  BY <1>4 DEF CacheIsFresh
<1>10. AnswersAreFresh
  BY DEF Init, AnswersAreFresh, At, Idle
<1>11. QED
  BY <1>6, <1>7, <1>8, <1>9, <1>10 DEF Inv

(* The invariant is kept by every step.                                    *)
LEMMA NextInv == Inv /\ [Next]_vars => Inv'
<1> SUFFICES ASSUME Inv, [Next]_vars PROVE Inv'
  OBVIOUS
<1>1. CASE Tick
  BY <1>1, ObservingKeepsInv
<1>2. CASE Administer
  BY <1>2, ObservingKeepsInv
<1>3. ASSUME NEW g \in Resolvers, NEW k \in Claims, Resolve(g, k)
      PROVE  Inv'
  BY <1>3, ResolveKeepsInv
<1>4. ASSUME NEW g \in Resolvers,
             Check(g) \/ FindUser(g) \/ ReadPermissions(g) \/ Store(g) \/ Return(g)
      PROVE  Inv'
  BY <1>4, CheckKeepsInv, FindUserKeepsInv, ReadPermissionsKeepsInv, StoreKeepsInv,
     ReturnKeepsInv
<1>5. CASE UNCHANGED vars
  BY <1>5 DEF Inv, TypeOK, PresentIsObserved, LookupsAreFresh, LookupIsFresh, CacheIsFresh,
              AnswersAreFresh, At, FreshSince, vars, tables, cached, observed
<1>6. QED
  BY <1>1, <1>2, <1>3, <1>4, <1>5 DEF Next, Step

(* The inductive invariant holds in every reachable state, for any number  *)
(* of overlapping lookups.                                                 *)
THEOREM Invariance == Spec => []Inv
BY InitInv, NextInv, PTL DEF Spec

(* No answer is older than the time to live, whatever is edited meanwhile  *)
(* and whichever lookup's result is cached last.                           *)
THEOREM AnswersAreAlwaysFresh == Spec => []AnswersAreFresh
<1>1. Inv => AnswersAreFresh
  BY DEF Inv
<1>2. QED
  BY <1>1, Invariance, PTL

---------------------------------------------------------------------------
(* The identifiers of a caller an account may be found by.                 *)
IdentifiersOf(k) ==
  {UserId[k], IF Email[k] = None THEN EmployeeNo[k] ELSE Email[k]} \ {None}

(* A lookup tries no other identifier, and what it has found, or what is   *)
(* cached, bears one of them.                                              *)
LookupIsRightful(lookup) ==
  /\ lookup.at = "find" => lookup.left \in Seq(IdentifiersOf(lookup.claims))
  /\ lookup.at \in {"permissions", "store", "answered"}
       => lookup.user \in Rightful(lookup.claims) \cup {None}

AllIsRightful ==
  /\ \A g \in Resolvers : LookupIsRightful(lookups[g])
  /\ \A k \in DOMAIN cache : cache[k].user \in Rightful(k) \cup {None}

(* The list of identifiers to try holds the caller's only.                 *)
LEMMA IdentifiersAreTheCallers ==
  ASSUME NEW k \in Claims
  PROVE  Identifiers(k) \in Seq(IdentifiersOf(k))
<1> DEFINE S == IdentifiersOf(k)
<1>1. ASSUME NEW i, i # None => i \in S
      PROVE  Given(i) \in Seq(S)
  <2> HIDE DEF S
  <2>1. <<>> \in Seq(S)
    OBVIOUS
  <2>2. i # None => <<i>> \in Seq(S)
    BY <1>1
  <2>3. CASE i = None
    BY <2>1, <2>3, Zenon DEF Given
  <2>4. CASE i # None
    BY <2>2, <2>4, Zenon DEF Given
  <2>5. QED
    BY <2>3, <2>4
<1>2. UserId[k] # None => UserId[k] \in S
  BY DEF IdentifiersOf
<1>3. CASE Email[k] = None
  <2>1. EmployeeNo[k] # None => EmployeeNo[k] \in S
    BY <1>3 DEF IdentifiersOf
  <2>2. Given(UserId[k]) \in Seq(S) /\ Given(EmployeeNo[k]) \in Seq(S)
    BY <1>1, <1>2, <2>1
  <2> HIDE DEF S
  <2>3. Given(UserId[k]) \o Given(EmployeeNo[k]) \in Seq(S)
    BY <2>2
  <2>4. QED
    BY <1>3, <2>3 DEF Identifiers, S
<1>4. CASE Email[k] # None
  <2>1. Email[k] # None => Email[k] \in S
    BY <1>4 DEF IdentifiersOf
  <2>2. Given(UserId[k]) \in Seq(S) /\ Given(Email[k]) \in Seq(S)
    BY <1>1, <1>2, <2>1
  <2> HIDE DEF S
  <2>3. Given(UserId[k]) \o Given(Email[k]) \in Seq(S)
    BY <2>2
  <2>4. QED
    BY <1>4, <2>3 DEF Identifiers, S
<1>5. QED
  BY <1>3, <1>4

(* A lookup's step that leaves the lookup and the cache rightful.          *)
LEMMA RightfulStep ==
  ASSUME TypeOK, AllIsRightful, NEW g \in Resolvers, NEW lookup, Continue(g, lookup),
         LookupIsRightful(lookup),
         \A k \in DOMAIN cache' : cache'[k].user \in Rightful(k) \cup {None}
  PROVE  AllIsRightful'
<1>1. lookups'[g] = lookup /\ \A h \in Resolvers \ {g} : lookups'[h] = lookups[h]
  BY DEF TypeOK, Continue
<1>2. \A h \in Resolvers : LookupIsRightful(lookups'[h])
  BY <1>1 DEF AllIsRightful
<1>3. QED
  BY <1>2 DEF AllIsRightful, LookupIsRightful

(* What FindUser finds bears the identifier it has tried.                  *)
LEMMA FindUserIsRightful ==
  ASSUME Inv, AllIsRightful, NEW g \in Resolvers, FindUser(g)
  PROVE  AllIsRightful'
<1> DEFINE lookup == lookups[g]
           S == IdentifiersOf(lookup.claims)
<1>1. lookup \in Lookup /\ lookup.at = "find" /\ lookup.left \in Seq(S) /\ lookup.user = None
  BY DEF Inv, TypeOK, LookupsAreFresh, LookupIsFresh, FindUser, At, AllIsRightful, LookupIsRightful
<1>2. TypeOK /\ \A k \in DOMAIN cache' : cache'[k].user \in Rightful(k) \cup {None}
  BY DEF Inv, FindUser, AllIsRightful
<1>3. ASSUME NEW next, Continue(g, next), next.claims = lookup.claims,
             \/ next.at = "store" /\ next.user = None
             \/ next.at = "find" /\ next.left \in Seq(S)
             \/ next.at = "permissions" /\ next.user \in Rightful(lookup.claims)
      PROVE  AllIsRightful'
  <2>1. LookupIsRightful(next)
    BY <1>3 DEF LookupIsRightful
  <2>2. QED
    BY <1>2, <1>3, <2>1, RightfulStep
<1>4. CASE lookup.left = <<>> /\ Continue(g, [lookup EXCEPT !.at = "store"])
  <2>1. /\ [lookup EXCEPT !.at = "store"].claims = lookup.claims
        /\ [lookup EXCEPT !.at = "store"].at = "store"
        /\ [lookup EXCEPT !.at = "store"].user = None
    BY <1>1 DEF Lookup
  <2>2. QED
    BY <1>3, <1>4, <2>1
<1>5. CASE lookup.left # <<>> /\ Continue(g, [lookup EXCEPT !.left = Tail(@)])
  <2>1. /\ [lookup EXCEPT !.left = Tail(@)].claims = lookup.claims
        /\ [lookup EXCEPT !.left = Tail(@)].at = "find"
        /\ [lookup EXCEPT !.left = Tail(@)].left = Tail(lookup.left)
    BY <1>1 DEF Lookup
  <2>2. Tail(lookup.left) \in Seq(S)
    <3> HIDE DEF S
    <3> QED
      BY <1>1, <1>5
  <2>3. QED
    BY <1>3, <1>5, <2>1, <2>2
<1>6. ASSUME lookup.left # <<>>, NEW u \in Bears[Head(lookup.left)],
             Continue(g, IF status[u] = "ACTIVE"
                         THEN [lookup EXCEPT !.at = "permissions", !.user = u, !.left = <<>>]
                         ELSE [lookup EXCEPT !.at = "store", !.left = <<>>])
      PROVE  AllIsRightful'
  <2>1. Head(lookup.left) \in S
    <3> HIDE DEF S
    <3> QED
      BY <1>1, <1>6
  <2>2. u \in Rightful(lookup.claims)
    BY <1>6, <2>1 DEF Rightful, IdentifiersOf
  <2> DEFINE found == [lookup EXCEPT !.at = "permissions", !.user = u, !.left = <<>>]
             none == [lookup EXCEPT !.at = "store", !.left = <<>>]
  <2>3. found.claims = lookup.claims /\ found.at = "permissions" /\ found.user = u
    BY <1>1 DEF Lookup
  <2>4. none.claims = lookup.claims /\ none.at = "store" /\ none.user = None
    BY <1>1 DEF Lookup
  <2>5. Continue(g, found) \/ Continue(g, none)
    BY <1>6
  <2> HIDE DEF found, none
  <2>6. QED
    BY <1>3, <2>2, <2>3, <2>4, <2>5
<1>7. QED
  BY <1>4, <1>5, <1>6 DEF FindUser

(* Every other step passes on what was found.                              *)
LEMMA StepIsRightful ==
  ASSUME Inv, AllIsRightful, NEW g \in Resolvers, Step(g)
  PROVE  AllIsRightful'
<1> DEFINE lookup == lookups[g]
<1>1. TypeOK /\ lookup \in Lookup /\ LookupIsRightful(lookup) /\ LookupIsFresh(lookup)
  BY DEF Inv, TypeOK, LookupsAreFresh, AllIsRightful
<1>2. \A k \in DOMAIN cache : cache[k].user \in Rightful(k) \cup {None}
  BY DEF AllIsRightful
<1>3. ASSUME NEW k \in Claims, Resolve(g, k) PROVE AllIsRightful'
  <2> DEFINE begun == [Idle EXCEPT !.at = "check", !.claims = k, !.now = clock]
  <2>1. Continue(g, begun) /\ UNCHANGED cache /\ begun.at = "check"
    BY <1>3 DEF Resolve, Idle
  <2> HIDE DEF begun
  <2>2. LookupIsRightful(begun)
    BY <2>1 DEF LookupIsRightful
  <2>3. QED
    BY <1>1, <1>2, <2>1, <2>2, RightfulStep
<1>4. CASE Check(g)
  <2> DEFINE k == lookup.claims
             hit == [lookup EXCEPT !.at = "answered", !.user = cache[k].user,
                                   !.held = cache[k].held]
             miss == [lookup EXCEPT !.at = "find", !.left = Identifiers(k)]
  <2>1. k \in Claims /\ UNCHANGED cache
    BY <1>1, <1>4 DEF LookupIsFresh, Check, At
  <2>2. CASE Hit(k, lookup.now)
    <3>1. cache[k].user \in Rightful(k) \cup {None}
      BY <1>2, <2>2 DEF Hit
    <3>2. hit.at = "answered" /\ hit.user = cache[k].user /\ hit.claims = k
      BY <1>1 DEF Lookup
    <3>3. Continue(g, hit)
      BY <1>4, <2>2 DEF Check
    <3> HIDE DEF hit
    <3>4. LookupIsRightful(hit)
      BY <3>1, <3>2 DEF LookupIsRightful
    <3>5. QED
      BY <1>1, <1>2, <2>1, <3>3, <3>4, RightfulStep
  <2>3. CASE ~Hit(k, lookup.now)
    <3>1. miss.at = "find" /\ miss.left = Identifiers(k) /\ miss.claims = k
      BY <1>1 DEF Lookup
    <3>2. Continue(g, miss)
      BY <1>4, <2>3 DEF Check
    <3> HIDE DEF miss
    <3>3. LookupIsRightful(miss)
      BY <2>1, <3>1, IdentifiersAreTheCallers DEF LookupIsRightful
    <3>4. QED
      BY <1>1, <1>2, <2>1, <3>2, <3>3, RightfulStep
  <2>4. QED
    BY <2>2, <2>3
<1>5. CASE FindUser(g)
  BY <1>5, FindUserIsRightful
<1>6. CASE ReadPermissions(g)
  <2> DEFINE read == [lookup EXCEPT !.at = "store", !.held = permissions[lookup.user]]
  <2>1. read.at = "store" /\ read.user = lookup.user /\ read.claims = lookup.claims
    BY <1>1 DEF Lookup
  <2>2. Continue(g, read) /\ UNCHANGED cache /\ lookup.at = "permissions"
    BY <1>6 DEF ReadPermissions, At
  <2> HIDE DEF read
  <2>3. LookupIsRightful(read)
    BY <1>1, <2>1, <2>2 DEF LookupIsRightful
  <2>4. QED
    BY <1>1, <1>2, <2>2, <2>3, RightfulStep
<1>7. CASE Store(g)
  <2> DEFINE answered == [lookup EXCEPT !.at = "answered"]
  <2>1. answered.at = "answered" /\ answered.user = lookup.user /\ answered.claims = lookup.claims
    BY <1>1 DEF Lookup
  <2>2. Continue(g, answered) /\ lookup.user \in Rightful(lookup.claims) \cup {None}
    BY <1>1, <1>7 DEF Store, At, LookupIsRightful
  <2>3. \A k \in DOMAIN cache' : cache'[k].user \in Rightful(k) \cup {None}
    BY <1>2, <1>7, <2>2 DEF Store, Remaining
  <2> HIDE DEF answered
  <2>4. LookupIsRightful(answered)
    BY <2>1, <2>2 DEF LookupIsRightful
  <2>5. QED
    BY <1>1, <2>2, <2>3, <2>4, RightfulStep
<1>8. CASE Return(g)
  <2>1. LookupIsRightful(Idle)
    BY DEF LookupIsRightful, Idle
  <2>2. QED
    BY <1>1, <1>2, <1>8, <2>1, RightfulStep DEF Return
<1>9. QED
  BY <1>3, <1>4, <1>5, <1>6, <1>7, <1>8 DEF Step

(* Nobody is answered with an account that bears neither the user id nor   *)
(* the address of the caller, for any assignment of identifiers.           *)
THEOREM AnswersAreAlwaysRightful == Spec => []AnswersAreRightful
<1>1. Init => AllIsRightful
  BY DEF Init, AllIsRightful, LookupIsRightful, Idle
<1>2. Inv /\ AllIsRightful /\ [Next]_vars => AllIsRightful'
  <2> SUFFICES ASSUME Inv, AllIsRightful, [Next]_vars PROVE AllIsRightful'
    OBVIOUS
  <2>1. CASE UNCHANGED cached
    BY <2>1 DEF cached, AllIsRightful, LookupIsRightful
  <2>2. ASSUME NEW g \in Resolvers, Step(g) PROVE AllIsRightful'
    BY <2>2, StepIsRightful
  <2>3. QED
    BY <2>1, <2>2 DEF Next, Tick, Administer, vars
<1>3. AllIsRightful => AnswersAreRightful
  BY DEF AllIsRightful, LookupIsRightful, AnswersAreRightful, At
<1>4. QED
  BY <1>1, <1>2, <1>3, Invariance, PTL DEF Spec

---------------------------------------------------------------------------
(* The cache is finite, so that it can be full.                            *)
CacheIsFinite == IsFiniteSet(DOMAIN cache)

(* Every step leaves finitely many entries.                                *)
LEMMA CacheStaysFinite == CacheIsFinite /\ [Next]_vars => CacheIsFinite'
<1> SUFFICES ASSUME CacheIsFinite, [Next]_vars PROVE CacheIsFinite'
  OBVIOUS
<1>1. CASE UNCHANGED cache
  BY <1>1 DEF CacheIsFinite
<1>2. ASSUME NEW g \in Resolvers, Store(g) PROVE CacheIsFinite'
  <2>1. DOMAIN cache' = Remaining(lookups[g].now) \cup {lookups[g].claims}
    BY <1>2 DEF Store
  <2>2. Remaining(lookups[g].now) \subseteq DOMAIN cache
    BY DEF Remaining
  <2>3. IsFiniteSet(Remaining(lookups[g].now))
    BY <2>2, FS_Subset DEF CacheIsFinite
  <2>4. QED
    BY <2>1, <2>3, FS_AddElement DEF CacheIsFinite
<1>3. QED
  BY <1>1, <1>2 DEF Next, Step, Tick, Administer, Resolve, Check, FindUser, ReadPermissions,
                    Return, vars, cached

(* A cache larger than its maximum holds only entries that could still     *)
(* answer when the lookup stored last began, and none of those is lost.    *)
THEOREM FullCacheIsAlwaysLive == Spec => FullCacheIsLive
<1>1. Init => CacheIsFinite
  <2>1. DOMAIN <<>> = {}
    OBVIOUS
  <2>2. QED
    BY <2>1, FS_EmptySet DEF Init, CacheIsFinite
<1>2. Inv /\ CacheIsFinite /\ [Next]_vars
        => [\A g \in Resolvers :
              Store(g) =>
                LET now == lookups[g].now
                    others == DOMAIN cache \ {lookups[g].claims}
                IN
                /\ \A k \in others \ DOMAIN cache' : cache[k].expires =< now
                /\ Cardinality(DOMAIN cache') > MaxEntries
                     => \A k \in others \cap DOMAIN cache' : now < cache[k].expires]_vars
  <2> SUFFICES ASSUME Inv, CacheIsFinite, NEW g \in Resolvers, Store(g)
               PROVE  /\ \A k \in (DOMAIN cache \ {lookups[g].claims}) \ DOMAIN cache' :
                           cache[k].expires =< lookups[g].now
                      /\ Cardinality(DOMAIN cache') > MaxEntries
                           => \A k \in (DOMAIN cache \ {lookups[g].claims}) \cap DOMAIN cache' :
                                lookups[g].now < cache[k].expires
    OBVIOUS
  <2> DEFINE now == lookups[g].now
  <2>1. now \in Nat /\ (\A k \in DOMAIN cache : cache[k].expires \in Nat) /\ MaxEntries \in Nat
    BY LookupTyped, EntryTyped, CacheAssumption DEF Inv
  <2>2. DOMAIN cache' = Remaining(now) \cup {lookups[g].claims}
    BY DEF Store
  <2>3. ASSUME NEW k \in (DOMAIN cache \ {lookups[g].claims}) \ DOMAIN cache'
        PROVE  cache[k].expires =< now
    BY <2>1, <2>2, <2>3 DEF Remaining
  <2>4. CASE Cardinality(DOMAIN cache) >= MaxEntries
    BY <2>2, <2>3, <2>4 DEF Remaining
  <2>5. CASE ~(Cardinality(DOMAIN cache) >= MaxEntries)
    <3>1. DOMAIN cache' = DOMAIN cache \cup {lookups[g].claims}
      BY <2>2, <2>5 DEF Remaining
    <3>2. /\ Cardinality(DOMAIN cache) \in Nat
          /\ \/ Cardinality(DOMAIN cache') = Cardinality(DOMAIN cache)
             \/ Cardinality(DOMAIN cache') = Cardinality(DOMAIN cache) + 1
      BY <3>1, FS_AddElement, FS_CardinalityType DEF CacheIsFinite
    <3>3. ~(Cardinality(DOMAIN cache') > MaxEntries)
      BY <2>1, <2>5, <3>2
    <3>4. QED
      BY <2>3, <3>3
  <2>6. QED
    BY <2>4, <2>5
<1>3. QED
  BY <1>1, <1>2, CacheStaysFinite, Invariance, PTL DEF Spec, FullCacheIsLive
=============================================================================
