-------------------------- MODULE UserAdminProofs --------------------------
(***************************************************************************)
(* Proofs about UserAdmin for any accounts, roles and permissions: types   *)
(* and what edits of permissions leave, under any number of concurrent     *)
(* calls, and, when updates of users come one at a time, the rule about    *)
(* the last administrator.                                                 *)
(***************************************************************************)
EXTENDS UserAdmin, TLAPS

(* The roles a user may be given are roles.                                *)
LEMMA StandardAreRoles == StandardRoles \subseteq Roles
BY AdminAssumption

(* A worker at rest.                                                       *)
LEMMA IdleTyped == Idle \in Call /\ Idle.at = "idle"
BY DEF Idle, Call

(* The calls a seeding leaves, and what it adds to a role.                 *)
LEMMA SeedMoves ==
  ASSUME TypeOK, CallsHaveArguments, SeedMatrix, NEW w \in Workers
  PROVE  LET added == SeedPermissions[calls[w].role] \ permissions[calls[w].role] IN
         /\ calls'[w] \in Call /\ HasArguments(calls'[w])
         /\ calls'[w].at = calls[w].at /\ calls'[w].user = calls[w].user
         /\ calls'[w].role = calls[w].role
         /\ calls'[w].is_active = calls[w].is_active
         /\ calls'[w].seenStatus = calls[w].seenStatus
         /\ calls'[w].deleted = calls[w].deleted
         /\ calls[w].at = "replace" =>
              /\ calls'[w].since = calls[w].since \cup added
              /\ permissions'[calls[w].role] = permissions[calls[w].role] \cup added
<1> DEFINE call == calls[w]
           added == SeedPermissions[call.role] \ permissions[call.role]
           since == call.since \cup added
<1>1. call \in Call /\ HasArguments(call)
  BY DEF TypeOK, CallsHaveArguments
<1>2. CASE call.at = "replace"
  <2>1. call.role \in Roles
    BY <1>1, <1>2 DEF HasArguments
  <2>2. added \in SUBSET Permissions
    BY <2>1, AdminAssumption
  <2>3. since \in SUBSET Permissions /\ call.deleted \in SUBSET Permissions
    BY <1>1, <2>2 DEF Call
  <2>4. calls'[w] = [call EXCEPT !.since = since]
    BY <1>2 DEF SeedMatrix, At
  <2>5. permissions'[call.role] = permissions[call.role] \cup added
    BY <2>1 DEF SeedMatrix
  <2> HIDE DEF call, added, since
  <2>6. /\ calls'[w] \in Call
        /\ calls'[w].at = call.at /\ calls'[w].user = call.user
        /\ calls'[w].role = call.role
        /\ calls'[w].is_active = call.is_active /\ calls'[w].seenStatus = call.seenStatus
        /\ calls'[w].deleted = call.deleted /\ calls'[w].since = since
    BY <1>1, <2>3, <2>4 DEF Call
  <2>7. HasArguments(calls'[w])
    BY <1>1, <2>6 DEF HasArguments
  <2>8. QED
    BY <1>2, <2>5, <2>6, <2>7 DEF since, call, added
<1>3. CASE call.at # "replace"
  <2>1. calls'[w] = call
    BY <1>3 DEF SeedMatrix, At
  <2>2. QED
    BY <1>1, <1>3, <2>1
<1>4. QED
  BY <1>2, <1>3

(* A call that is of its type leaves the calls of theirs.                  *)
LEMMA CallTyped ==
  ASSUME TypeOK, NEW w \in Workers, NEW call \in Call, Continue(w, call)
  PROVE  /\ calls' \in [Workers -> Call]
         /\ calls'[w] = call
         /\ \A v \in Workers \ {w} : calls'[v] = calls[v]
BY DEF TypeOK, Continue

(* A call that goes on with arguments keeps every call typed.              *)
LEMMA CallStep ==
  ASSUME TypeOK, CallsHaveArguments, NEW w \in Workers, NEW call \in Call,
         HasArguments(call), Continue(w, call),
         status' \in [Users -> UserStatus \cup {""}],
         role' \in [Users -> SUBSET Roles],
         permissions' \in [Roles -> SUBSET Permissions]
  PROVE  TypeOK' /\ CallsHaveArguments'
<1>1. /\ calls' \in [Workers -> Call]
      /\ calls'[w] = call
      /\ \A v \in Workers \ {w} : calls'[v] = calls[v]
  BY CallTyped
<1>2. CallsHaveArguments'
  BY <1>1 DEF CallsHaveArguments, HasArguments
<1>3. QED
  BY <1>1, <1>2 DEF TypeOK

(* A call that ends, or one that writes nothing.                           *)
LEMMA ReturnStep ==
  ASSUME TypeOK, CallsHaveArguments, NEW w \in Workers, Return(w),
         status' \in [Users -> UserStatus \cup {""}],
         role' \in [Users -> SUBSET Roles],
         permissions' \in [Roles -> SUBSET Permissions]
  PROVE  TypeOK' /\ CallsHaveArguments'
<1>1. Idle \in Call /\ HasArguments(Idle)
  BY IdleTyped DEF Idle, HasArguments, Updating
<1>2. Continue(w, Idle)
  BY DEF Return
<1>3. QED
  BY <1>1, <1>2, CallStep

(* Every step keeps the types, and every call its arguments.  First the    *)
(* calls that begin.                                                       *)
LEMMA StartTyping ==
  ASSUME TypeOK, CallsHaveArguments, NEW w \in Workers, Start(w)
  PROVE  TypeOK' /\ CallsHaveArguments'
<1>1. UNCHANGED tables
  BY DEF Start, Update, DeletePermissions
<1>2. /\ status' \in [Users -> UserStatus \cup {""}]
      /\ role' \in [Users -> SUBSET Roles]
      /\ permissions' \in [Roles -> SUBSET Permissions]
  BY <1>1 DEF TypeOK, tables
<1>3. ASSUME NEW u \in Users, NEW code \in Roles, NEW active \in UserStatus \cup {""},
             Update(w, u, code, active)
      PROVE  TypeOK' /\ CallsHaveArguments'
  <2> DEFINE call == [Idle EXCEPT !.at = "readRoles", !.user = u, !.role = code,
                                  !.is_active = active, !.seenStatus = status[u]]
  <2>1. call \in Call
    BY IdleTyped DEF Call, TypeOK
  <2>2. Continue(w, call) /\ status[u] # ""
    BY <1>3 DEF Update
  <2>3. HasArguments(call)
    BY <2>2 DEF HasArguments, Idle
  <2> HIDE DEF call
  <2>4. QED
    BY <1>2, <2>1, <2>2, <2>3, CallStep
<1>4. ASSUME NEW code \in Roles, NEW wanted \in SUBSET Permissions,
             DeletePermissions(w, code, wanted)
      PROVE  TypeOK' /\ CallsHaveArguments'
  <2> DEFINE call == [Idle EXCEPT !.at = "replace", !.role = code, !.wanted = wanted,
                                  !.deleted = permissions[code]]
  <2>1. call \in Call
    BY IdleTyped DEF Call, TypeOK
  <2>2. Continue(w, call)
    BY <1>4 DEF DeletePermissions
  <2>3. HasArguments(call)
    BY DEF HasArguments, Idle, Updating
  <2> HIDE DEF call
  <2>4. QED
    BY <1>2, <2>1, <2>2, <2>3, CallStep
<1>5. QED
  BY <1>3, <1>4, StandardAreRoles DEF Start

(* Reading the roles and counting the administrators.                      *)
LEMMA LookupTyping ==
  ASSUME TypeOK, CallsHaveArguments, NEW w \in Workers, ReadRoles(w) \/ CountAdmins(w)
  PROVE  TypeOK' /\ CallsHaveArguments'
<1>1. /\ status' \in [Users -> UserStatus \cup {""}]
      /\ role' \in [Users -> SUBSET Roles]
      /\ permissions' \in [Roles -> SUBSET Permissions]
  BY DEF TypeOK, tables, ReadRoles, CountAdmins
<1>2. calls[w] \in Call /\ HasArguments(calls[w])
  BY DEF TypeOK, CallsHaveArguments
<1>3. CASE ReadRoles(w)
  <2> DEFINE read == [calls[w] EXCEPT !.seenRoles = role[calls[w].user]]
             call == [read EXCEPT !.at = IF WasAdmin(read) /\ ~StaysAdmin(read)
                                         THEN "count" ELSE "write"]
  <2>1. calls[w].at = "readRoles" /\ Continue(w, call)
    BY <1>3 DEF ReadRoles, At
  <2>2. role[calls[w].user] \in SUBSET Roles
    BY <1>2, <2>1 DEF HasArguments, Updating, TypeOK
  <2>3. read \in Call
    BY <1>2, <2>2 DEF Call
  <2>4. /\ read.user = calls[w].user /\ read.role = calls[w].role
        /\ read.seenStatus = calls[w].seenStatus
    BY <1>2 DEF Call
  <2> HIDE DEF read
  <2>5. call \in Call
    BY <2>3 DEF Call
  <2>6. HasArguments(call)
    BY <1>2, <2>1, <2>3, <2>4 DEF HasArguments, Call, Updating
  <2> HIDE DEF call
  <2>7. QED
    BY <1>1, <2>1, <2>5, <2>6, CallStep
<1>4. CASE CountAdmins(w) /\ Return(w)
  BY <1>1, <1>4, ReturnStep
<1>5. CASE CountAdmins(w) /\ Continue(w, [calls[w] EXCEPT !.at = "write"])
  <2> DEFINE call == [calls[w] EXCEPT !.at = "write"]
  <2>1. call \in Call
    BY <1>2 DEF Call
  <2>2. HasArguments(call)
    BY <1>2, <1>5 DEF HasArguments, Call, Updating, CountAdmins, At
  <2>3. Continue(w, call)
    BY <1>5
  <2> HIDE DEF call
  <2>4. QED
    BY <1>1, <2>1, <2>2, <2>3, CallStep
<1>6. QED
  BY <1>3, <1>4, <1>5 DEF CountAdmins

(* Writing an account.                                                     *)
LEMMA WriteUserTyping ==
  ASSUME TypeOK, CallsHaveArguments, NEW w \in Workers, WriteUser(w)
  PROVE  TypeOK' /\ CallsHaveArguments'
<1> DEFINE call == calls[w]
<1>1. /\ call \in Call
      /\ call.user \in Users /\ call.role \in Roles
      /\ call.at = "write"
  BY DEF WriteUser, At, TypeOK, CallsHaveArguments, HasArguments, Updating
<1>2. StatusToWrite(call) \in UserStatus \cup {""}
  BY <1>1 DEF StatusToWrite, Call
<1>3. /\ status' = [status EXCEPT ![call.user] = StatusToWrite(call)]
      /\ role' = [role EXCEPT ![call.user] = {call.role}]
      /\ permissions' = permissions
      /\ Return(w)
  BY DEF WriteUser
<1> HIDE DEF call
<1>4. /\ status' \in [Users -> UserStatus \cup {""}]
      /\ role' \in [Users -> SUBSET Roles]
      /\ permissions' \in [Roles -> SUBSET Permissions]
  BY <1>1, <1>2, <1>3 DEF TypeOK
<1>5. QED
  BY <1>3, <1>4, ReturnStep

(* Creating an account.                                                    *)
LEMMA CreateUserTyping ==
  ASSUME TypeOK, CallsHaveArguments,
         NEW u \in Users, NEW code \in Roles, NEW active \in UserStatus,
         CreateUser(u, code, active)
  PROVE  TypeOK' /\ CallsHaveArguments'
BY DEF TypeOK, CallsHaveArguments, CreateUser

(* Replacing a role's permissions, which also takes from the calls that    *)
(* would have deleted the same rows.                                       *)
LEMMA ReplaceTyping ==
  ASSUME TypeOK, CallsHaveArguments, NEW w \in Workers, ReplacePermissions(w)
  PROVE  TypeOK' /\ CallsHaveArguments'
<1> DEFINE call == calls[w]
           kept == permissions[call.role] \ call.deleted
           others(v) == IF v = w THEN Idle
                        ELSE IF Edits(v, w)
                             THEN [calls[v] EXCEPT !.deleted = @ \ call.deleted,
                                                   !.since = @ \cup call.wanted]
                        ELSE calls[v]
<1>1. call \in Call /\ call.role \in Roles
  BY DEF ReplacePermissions, At, TypeOK, CallsHaveArguments, HasArguments
<1>2. kept \cup call.wanted \in SUBSET Permissions
  BY <1>1 DEF TypeOK, Call
<1>3. status' = status /\ role' = role
  BY DEF ReplacePermissions
<1>4. CASE Return(w) /\ UNCHANGED permissions
  BY <1>3, <1>4, ReturnStep DEF TypeOK
<1>5. CASE /\ permissions' = [permissions EXCEPT ![call.role] = kept \cup call.wanted]
           /\ calls' = [v \in Workers |-> others(v)]
  <2>1. permissions' \in [Roles -> SUBSET Permissions]
    BY <1>1, <1>2, <1>5 DEF TypeOK
  <2>2. ASSUME NEW v \in Workers
        PROVE  others(v) \in Call /\ HasArguments(others(v))
    <3>1. calls[v] \in Call /\ HasArguments(calls[v])
      BY DEF TypeOK, CallsHaveArguments
    <3>2. CASE v = w
      BY <3>2, IdleTyped DEF Idle, HasArguments, Updating
    <3>3. CASE v # w /\ Edits(v, w)
      <4> DEFINE deleted == calls[v].deleted \ call.deleted
                 since == calls[v].since \cup call.wanted
      <4>1. deleted \in SUBSET Permissions /\ since \in SUBSET Permissions
        BY <1>1, <3>1 DEF Call
      <4>2. others(v) = [calls[v] EXCEPT !.deleted = deleted, !.since = since]
        BY <3>3
      <4> HIDE DEF deleted, since, others
      <4>3. /\ others(v) \in Call
            /\ others(v).at = calls[v].at /\ others(v).user = calls[v].user
            /\ others(v).role = calls[v].role
            /\ others(v).seenStatus = calls[v].seenStatus
        BY <3>1, <4>1, <4>2 DEF Call
      <4>4. HasArguments(others(v))
        BY <3>1, <4>3 DEF HasArguments
      <4>5. QED
        BY <4>3, <4>4
    <3>4. CASE v # w /\ ~Edits(v, w)
      BY <3>1, <3>4
    <3>5. QED
      BY <3>2, <3>3, <3>4
  <2> HIDE DEF others
  <2>3. calls' \in [Workers -> Call] /\ CallsHaveArguments'
    BY <1>5, <2>2 DEF CallsHaveArguments
  <2>4. QED
    BY <1>3, <2>1, <2>3 DEF TypeOK
<1>6. QED
  BY <1>4, <1>5 DEF ReplacePermissions

(* A call that ends half way.                                              *)
LEMMA AbandonTyping ==
  ASSUME TypeOK, CallsHaveArguments, NEW w \in Workers, Abandon(w)
  PROVE  TypeOK' /\ CallsHaveArguments'
BY ReturnStep DEF TypeOK, Abandon, tables

(* Seeding again.                                                          *)
LEMMA SeedTyping ==
  ASSUME TypeOK, CallsHaveArguments, SeedMatrix \/ SeedUsers
  PROVE  TypeOK' /\ CallsHaveArguments'
<1>1. status' = status
  BY DEF SeedMatrix, SeedUsers
<1>2. CASE SeedMatrix
  <2>1. permissions' \in [Roles -> SUBSET Permissions] /\ role' = role
    BY <1>2, AdminAssumption DEF SeedMatrix, TypeOK
  <2>2. \A w \in Workers : calls'[w] \in Call /\ HasArguments(calls'[w])
    BY <1>2, SeedMoves
  <2>3. calls' = [w \in Workers |-> calls'[w]]
    BY <1>2 DEF SeedMatrix
  <2>4. calls' \in [Workers -> Call] /\ CallsHaveArguments'
    BY <2>2, <2>3 DEF CallsHaveArguments, HasArguments
  <2>5. QED
    BY <1>1, <2>1, <2>4 DEF TypeOK
<1>3. CASE SeedUsers
  <2>1. /\ role' \in [Users -> SUBSET Roles] /\ permissions' = permissions
        /\ calls' = calls
    BY <1>3, AdminAssumption DEF SeedUsers, TypeOK
  <2>2. QED
    BY <1>1, <2>1 DEF TypeOK, CallsHaveArguments, HasArguments
<1>4. QED
  BY <1>2, <1>3

(* All steps together.                                                     *)
LEMMA NextTyping ==
  TypeOK /\ CallsHaveArguments /\ [Next]_vars => TypeOK' /\ CallsHaveArguments'
<1> SUFFICES ASSUME TypeOK, CallsHaveArguments, [Next]_vars
             PROVE  TypeOK' /\ CallsHaveArguments'
  OBVIOUS
<1>1. CASE UNCHANGED vars
  BY <1>1 DEF TypeOK, CallsHaveArguments, vars, tables
<1>2. ASSUME NEW w \in Workers, Start(w) \/ Step(w) \/ Abandon(w)
      PROVE  TypeOK' /\ CallsHaveArguments'
  BY <1>2, StartTyping, LookupTyping, WriteUserTyping, ReplaceTyping, AbandonTyping DEF Step
<1>3. QED
  BY <1>1, <1>2, CreateUserTyping, SeedTyping, StandardAreRoles DEF Next

(* The start.                                                              *)
LEMMA InitTyping == Init => TypeOK /\ CallsHaveArguments
<1>1. HasArguments(Idle)
  BY DEF HasArguments, Idle, Updating
<1>2. QED
  BY <1>1, IdleTyped DEF Init, TypeOK, CallsHaveArguments

(* Accounts, roles, permissions and calls keep their types under any       *)
(* number of concurrent calls.                                             *)
THEOREM TypesAreKept == Spec => []TypeOK
<1>1. Spec => [](TypeOK /\ CallsHaveArguments)
  BY InitTyping, NextTyping, PTL DEF Spec
<1>2. QED
  BY <1>1, PTL

---------------------------------------------------------------------------
(* Updates of users one at a time, beside any number of edits of roles.    *)
Alone == \A v, w \in Updaters : v = w

(* Who updates a user is an updater: of the calls of a step, the one that  *)
(* starts an update is, and no other becomes an update.                    *)
LEMMA UpdatersStep ==
  ASSUME TypeOK, CallsHaveArguments, OnlyUpdatersUpdate, [Next]_vars
  PROVE  OnlyUpdatersUpdate'
<1> SUFFICES ASSUME NEW v \in Workers, calls'[v].at \in Updating, calls[v].at \notin Updating
             PROVE  v \in Updaters
  BY DEF OnlyUpdatersUpdate
<1>1. ASSUME NEW w \in Workers, NEW call, call.at \notin Updating, Continue(w, call)
      PROVE  FALSE
  BY <1>1 DEF Continue, TypeOK
<1>2. ASSUME NEW w \in Workers, Return(w) PROVE FALSE
  BY <1>1, <1>2, IdleTyped DEF Return, Updating
<1>3. ASSUME NEW w \in Workers, NEW u, NEW code, NEW active, w \in Updaters,
             Update(w, u, code, active)
      PROVE  v \in Updaters
  BY <1>3 DEF Update, Continue, TypeOK
<1>4. ASSUME NEW w \in Workers, NEW code, NEW wanted, DeletePermissions(w, code, wanted)
      PROVE  FALSE
  <2> DEFINE call == [Idle EXCEPT !.at = "replace", !.role = code, !.wanted = wanted,
                                  !.deleted = permissions[code]]
  <2>1. call.at = "replace" /\ Continue(w, call)
    BY <1>4 DEF DeletePermissions, Idle
  <2> HIDE DEF call
  <2>2. QED
    BY <1>1, <2>1 DEF Updating
<1>5. ASSUME NEW w \in Workers, ReadRoles(w) \/ CountAdmins(w) \/ WriteUser(w) PROVE FALSE
  <2>1. calls[w].at \in Updating
    BY <1>5 DEF ReadRoles, CountAdmins, WriteUser, At, Updating
  <2>2. v # w
    BY <2>1
  <2>3. calls'[v] = calls[v]
    BY <1>5, <2>2 DEF ReadRoles, CountAdmins, WriteUser, Return, Continue, TypeOK
  <2>4. QED
    BY <2>3
<1>6. ASSUME NEW w \in Workers, ReplacePermissions(w) PROVE FALSE
  <2>1. ASSUME calls' = [u \in Workers |->
                 IF u = w THEN Idle
                 ELSE IF Edits(u, w)
                      THEN [calls[u] EXCEPT !.deleted = @ \ calls[w].deleted,
                                            !.since = @ \cup calls[w].wanted]
                 ELSE calls[u]]
        PROVE  FALSE
    <3>1. CASE v = w
      BY <2>1, <3>1, IdleTyped DEF Updating
    <3>2. CASE v # w /\ Edits(v, w)
      <4>1. calls'[v].at = calls[v].at
        BY <2>1, <3>2 DEF TypeOK, Call
      <4>2. QED
        BY <4>1
    <3>3. CASE v # w /\ ~Edits(v, w)
      BY <2>1, <3>3
    <3>4. QED
      BY <3>1, <3>2, <3>3
  <2>2. QED
    BY <1>2, <1>6, <2>1 DEF ReplacePermissions
<1>7. SeedMatrix => FALSE
  BY SeedMoves
<1>8. CASE UNCHANGED calls
  BY <1>8
<1>9. QED
  BY <1>2, <1>3, <1>4, <1>5, <1>6, <1>7, <1>8
     DEF Next, Start, Step, Abandon, CreateUser, SeedUsers, vars

(* A call that goes on, in a step that changes no account.                 *)
LEMMA AloneStep ==
  ASSUME Inv, TypeOK', CallsHaveArguments', OnlyUpdatersUpdate',
         NEW w \in Workers, NEW call \in Call,
         Continue(w, call), IsCurrent(call), status' = status, role' = role
  PROVE  Inv'
<1>1. LastAdminRemains'
  BY DEF Inv, LastAdminRemains, ActiveAdmins, Admins
<1>2. calls'[w] = call /\ \A v \in Workers \ {w} : calls'[v] = calls[v]
  BY CallTyped DEF Inv
<1>3. \A v \in Workers : IsCurrent(calls'[v])
  BY <1>2 DEF Inv, CallsAreCurrent
<1>4. CallsAreCurrent'
  BY <1>3 DEF CallsAreCurrent, IsCurrent, OtherActiveAdmins, ActiveAdmins, Admins
<1>5. QED
  BY <1>1, <1>4 DEF Inv

(* A call that ends without writing an account.                            *)
LEMMA AloneReturn ==
  ASSUME Inv, TypeOK', CallsHaveArguments', OnlyUpdatersUpdate',
         NEW w \in Workers,
         Return(w), status' = status, role' = role
  PROVE  Inv'
<1>1. Idle \in Call /\ IsCurrent(Idle)
  BY IdleTyped DEF IsCurrent, Idle, Updating
<1>2. Continue(w, Idle)
  BY DEF Return
<1>3. QED
  BY <1>1, <1>2, AloneStep

(* Creating an account takes no administrator away.                        *)
LEMMA AloneCreate ==
  ASSUME Inv, TypeOK', CallsHaveArguments', OnlyUpdatersUpdate',
         NEW u \in Users, NEW code \in Roles, NEW active \in UserStatus,
         CreateUser(u, code, active)
  PROVE  Inv'
<1>1. /\ status[u] = ""
      /\ \A v \in Users \ {u} : status'[v] = status[v] /\ role'[v] = role[v]
      /\ calls' = calls
  BY DEF CreateUser, Inv, TypeOK
<1>2. ActiveAdmins \subseteq ActiveAdmins'
  BY <1>1 DEF ActiveAdmins, Admins
<1>3. LastAdminRemains'
  BY <1>2 DEF Inv, LastAdminRemains
<1>4. ASSUME NEW w \in Workers
      PROVE  IsCurrent(calls[w])'
  <2>1. IsCurrent(calls[w]) /\ HasArguments(calls[w])
    BY DEF Inv, CallsAreCurrent, CallsHaveArguments
  <2>2. calls[w].at = "readRoles" => calls[w].user \in Users \ {u}
    BY <1>1, <2>1 DEF IsCurrent, HasArguments, Updating
  <2>3. OtherActiveAdmins(calls[w].user) \subseteq OtherActiveAdmins(calls[w].user)'
    BY <1>1, <1>2 DEF OtherActiveAdmins
  <2>4. calls'[w] = calls[w]
    BY <1>1
  <2>5. QED
    BY <1>1, <2>1, <2>2, <2>3, <2>4
    DEF IsCurrent, Updating, StaysAdmin, StatusToWrite
<1>5. QED
  BY <1>3, <1>4 DEF Inv, CallsAreCurrent

(* Seeding takes no administrator away either.                             *)
LEMMA AloneSeeds ==
  ASSUME Inv, TypeOK', CallsHaveArguments', OnlyUpdatersUpdate', SeedMatrix \/ SeedUsers
  PROVE  Inv'
<1>1. /\ status' = status
      /\ \A u \in Users : role[u] \subseteq role'[u]
  BY DEF SeedMatrix, SeedUsers
<1>2. ActiveAdmins \subseteq ActiveAdmins'
  BY <1>1 DEF ActiveAdmins, Admins
<1>3. LastAdminRemains'
  BY <1>2 DEF Inv, LastAdminRemains
<1>4. ASSUME NEW w \in Workers
      PROVE  IsCurrent(calls[w])'
  <2>1. IsCurrent(calls[w])
    BY DEF Inv, CallsAreCurrent
  <2>3. /\ calls'[w].at = calls[w].at /\ calls'[w].user = calls[w].user
        /\ calls'[w].role = calls[w].role /\ calls'[w].is_active = calls[w].is_active
        /\ calls'[w].seenStatus = calls[w].seenStatus
    <3>1. CASE SeedMatrix
      BY <3>1, SeedMoves DEF Inv
    <3>2. CASE SeedUsers
      BY <3>2 DEF SeedUsers
    <3>3. QED
      BY <3>1, <3>2
  <2>4. OtherActiveAdmins(calls[w].user) \subseteq OtherActiveAdmins(calls[w].user)'
    BY <1>2, <2>3 DEF OtherActiveAdmins
  <2>5. QED
    BY <1>1, <2>1, <2>3, <2>4 DEF IsCurrent, StaysAdmin, StatusToWrite
<1>5. QED
  BY <1>3, <1>4 DEF Inv, CallsAreCurrent

(* An update that begins, reads and counts is right about its user.        *)
LEMMA AloneUpdate ==
  ASSUME Inv, TypeOK', CallsHaveArguments', OnlyUpdatersUpdate',
         NEW w \in Workers,
         NEW u \in Users, NEW code \in Roles, NEW active \in UserStatus \cup {""},
         Update(w, u, code, active)
  PROVE  Inv'
<1> DEFINE call == [Idle EXCEPT !.at = "readRoles", !.user = u, !.role = code,
                                !.is_active = active, !.seenStatus = status[u]]
<1>1. call \in Call
  BY IdleTyped DEF Call, Inv, TypeOK
<1>2. IsCurrent(call)
  BY DEF IsCurrent, Idle, Updating
<1>3. Continue(w, call) /\ status' = status /\ role' = role
  BY DEF Update, tables
<1> HIDE DEF call
<1>4. QED
  BY <1>1, <1>2, <1>3, AloneStep

(* Reading the roles in the second statement.                              *)
LEMMA AloneReads ==
  ASSUME Inv, TypeOK', CallsHaveArguments', OnlyUpdatersUpdate',
         NEW w \in Workers, ReadRoles(w)
  PROVE  Inv'
<1> DEFINE read == [calls[w] EXCEPT !.seenRoles = role[calls[w].user]]
           call == [read EXCEPT !.at = IF WasAdmin(read) /\ ~StaysAdmin(read)
                                       THEN "count" ELSE "write"]
<1>1. /\ calls[w] \in Call
      /\ calls[w].at = "readRoles"
      /\ calls[w].user \in Users
      /\ calls[w].seenStatus = status[calls[w].user]
  BY DEF ReadRoles, At, Inv, TypeOK, CallsHaveArguments, HasArguments, Updating,
         CallsAreCurrent, IsCurrent
<1>2. read \in Call /\ read.user = calls[w].user /\ read.seenStatus = calls[w].seenStatus
      /\ read.seenRoles = role[read.user]
  BY <1>1 DEF Call, Inv, TypeOK
<1>3. Continue(w, call) /\ status' = status /\ role' = role
  BY DEF ReadRoles, tables
<1> HIDE DEF read
<1>4. /\ call \in Call
      /\ call.user = read.user
      /\ call.seenStatus = read.seenStatus
      /\ call.seenRoles = read.seenRoles
      /\ call.at = IF WasAdmin(read) /\ ~StaysAdmin(read) THEN "count" ELSE "write"
      /\ WasAdmin(call) = WasAdmin(read) /\ StaysAdmin(call) = StaysAdmin(read)
  BY <1>2 DEF Call, WasAdmin, StaysAdmin, StatusToWrite
<1> HIDE DEF call
<1>5. IsCurrent(call)
  <2>1. ASSUME ~WasAdmin(read)
        PROVE  OtherActiveAdmins(read.user) # {}
    <3>1. read.user \notin ActiveAdmins
      BY <1>1, <1>2, <2>1 DEF WasAdmin, ActiveAdmins, Admins
    <3>2. QED
      BY <3>1 DEF OtherActiveAdmins, Inv, LastAdminRemains
  <2>2. QED
    BY <1>4, <2>1 DEF IsCurrent
<1>6. QED
  BY <1>3, <1>4, <1>5, AloneStep

(* Counting, on which the write then relies.                               *)
LEMMA AloneCounts ==
  ASSUME Inv, TypeOK', CallsHaveArguments', OnlyUpdatersUpdate',
         NEW w \in Workers, CountAdmins(w)
  PROVE  Inv'
<1> DEFINE call == [calls[w] EXCEPT !.at = "write"]
<1>1. /\ calls[w] \in Call
      /\ calls[w].at = "count"
  BY DEF CountAdmins, At, Inv, TypeOK
<1>2. status' = status /\ role' = role
  BY DEF CountAdmins, tables
<1>3. CASE Return(w)
  BY <1>2, <1>3, AloneReturn
<1>4. CASE OtherActiveAdmins(calls[w].user) # {} /\ Continue(w, call)
  <2>1. call \in Call
    BY <1>1 DEF Call
  <2>2. IsCurrent(call)
    BY <1>1, <1>4 DEF IsCurrent, Call
  <2> HIDE DEF call
  <2>3. QED
    BY <1>2, <1>4, <2>1, <2>2, AloneStep
<1>5. QED
  BY <1>3, <1>4 DEF CountAdmins

(* A write leaves the user an administrator, or another one.               *)
LEMMA AloneWrites ==
  ASSUME Inv, TypeOK', CallsHaveArguments', OnlyUpdatersUpdate', Alone,
         NEW w \in Workers, WriteUser(w)
  PROVE  Inv'
<1> DEFINE call == calls[w]
<1>1. /\ call.user \in Users /\ call.role \in Roles
      /\ StaysAdmin(call) \/ OtherActiveAdmins(call.user) # {}
  BY DEF WriteUser, At, Inv, CallsHaveArguments, HasArguments, Updating,
         CallsAreCurrent, IsCurrent
<1>2. /\ status'[call.user] = StatusToWrite(call)
      /\ role'[call.user] = {call.role}
      /\ \A v \in Users \ {call.user} : status'[v] = status[v] /\ role'[v] = role[v]
  BY <1>1 DEF WriteUser, Inv, TypeOK
<1>3. calls'[w] = Idle
  BY IdleTyped, CallTyped DEF WriteUser, Return, Inv
<1> HIDE DEF call
<1>4. OtherActiveAdmins(call.user) \subseteq ActiveAdmins'
  BY <1>2 DEF OtherActiveAdmins, ActiveAdmins, Admins
<1>5. ASSUME StaysAdmin(call)
      PROVE  call.user \in ActiveAdmins'
  BY <1>1, <1>2, <1>5 DEF StaysAdmin, ActiveAdmins, Admins
<1>6. LastAdminRemains'
  BY <1>1, <1>4, <1>5 DEF LastAdminRemains
<1>7. CallsAreCurrent'
  <2>1. calls'[w].at = "idle"
    BY <1>3, IdleTyped
  <2>2. w \in Updaters
    BY DEF Inv, OnlyUpdatersUpdate, WriteUser, At, Updating
  <2>3. ASSUME NEW v \in Workers \ {w} PROVE calls'[v].at \notin Updating
    <3>1. calls[v].at \notin Updating
      BY <2>2 DEF Alone, Inv, OnlyUpdatersUpdate
    <3>2. calls'[v] = calls[v]
      BY DEF WriteUser, Return, Continue, Inv, TypeOK
    <3>3. QED
      BY <3>1, <3>2
  <2>4. QED
    BY <2>1, <2>3 DEF CallsAreCurrent, IsCurrent, Updating
<1>8. QED
  BY <1>6, <1>7 DEF Inv

(* Editing the permissions of a role concerns no account, and no update.   *)
LEMMA AloneEdits ==
  ASSUME Inv, TypeOK', CallsHaveArguments', OnlyUpdatersUpdate',
         NEW w \in Workers, ReplacePermissions(w)
  PROVE  Inv'
<1>1. status' = status /\ role' = role
  BY DEF ReplacePermissions
<1>2. CASE Return(w)
  BY <1>1, <1>2, AloneReturn
<1>3. CASE calls' = [v \in Workers |->
             IF v = w THEN Idle
             ELSE IF Edits(v, w)
                  THEN [calls[v] EXCEPT !.deleted = @ \ calls[w].deleted,
                                        !.since = @ \cup calls[w].wanted]
             ELSE calls[v]]
  <2>1. LastAdminRemains'
    BY <1>1 DEF Inv, LastAdminRemains, ActiveAdmins, Admins
  <2>2. ASSUME NEW v \in Workers PROVE IsCurrent(calls'[v])
    <3>1. CASE v = w
      BY <1>3, <3>1, IdleTyped DEF IsCurrent
    <3>2. CASE v # w /\ Edits(v, w)
      <4>1. calls[v] \in Call /\ calls[v].at = "replace"
        BY <3>2 DEF Inv, TypeOK, Edits
      <4>2. calls'[v].at = calls[v].at
        BY <1>3, <3>2, <4>1 DEF Call
      <4>3. QED
        BY <4>1, <4>2 DEF IsCurrent
    <3>3. CASE v # w /\ ~Edits(v, w)
      BY <1>3, <3>3 DEF Inv, CallsAreCurrent
    <3>4. QED
      BY <3>1, <3>2, <3>3
  <2>3. CallsAreCurrent'
    BY <1>1, <2>2 DEF CallsAreCurrent, IsCurrent, OtherActiveAdmins, ActiveAdmins, Admins
  <2>4. QED
    BY <2>1, <2>3 DEF Inv
<1>4. QED
  BY <1>2, <1>3 DEF ReplacePermissions

(* Nor does an edit that begins.                                           *)
LEMMA AloneDeletes ==
  ASSUME Inv, TypeOK', CallsHaveArguments', OnlyUpdatersUpdate',
         NEW w \in Workers, NEW code \in Roles, NEW wanted \in SUBSET Permissions,
         DeletePermissions(w, code, wanted)
  PROVE  Inv'
<1> DEFINE call == [Idle EXCEPT !.at = "replace", !.role = code, !.wanted = wanted,
                                !.deleted = permissions[code]]
<1>1. call \in Call
  BY IdleTyped DEF Call, Inv, TypeOK
<1>2. IsCurrent(call)
  BY DEF IsCurrent, Idle
<1>3. Continue(w, call) /\ status' = status /\ role' = role
  BY DEF DeletePermissions, tables
<1> HIDE DEF call
<1>4. QED
  BY <1>1, <1>2, <1>3, AloneStep

(* The start.                                                              *)
LEMMA AloneInit == Init => Inv
<1> SUFFICES ASSUME Init PROVE Inv
  OBVIOUS
<1>1. CallsAreCurrent
  BY DEF Init, CallsAreCurrent, IsCurrent, Idle, Updating
<1>2. OnlyUpdatersUpdate
  BY DEF Init, OnlyUpdatersUpdate, Idle, Updating
<1>3. QED
  BY <1>1, <1>2, InitTyping DEF Init, Inv, LastAdminRemains

(* All steps together.                                                     *)
LEMMA AloneNext ==
  ASSUME Alone
  PROVE  Inv /\ [Next]_vars => Inv'
<1> SUFFICES ASSUME Inv, [Next]_vars PROVE Inv'
  OBVIOUS
<1>1. TypeOK' /\ CallsHaveArguments' /\ OnlyUpdatersUpdate'
  BY NextTyping, UpdatersStep DEF Inv
<1>2. CASE UNCHANGED vars
  BY <1>2 DEF Inv, TypeOK, CallsHaveArguments, HasArguments, OnlyUpdatersUpdate, LastAdminRemains,
     CallsAreCurrent, IsCurrent, OtherActiveAdmins, ActiveAdmins, Admins, vars, tables
<1>3. ASSUME NEW w \in Workers, Start(w)
      PROVE  Inv'
  BY <1>1, <1>3, AloneUpdate, AloneDeletes, StandardAreRoles DEF Start
<1>4. ASSUME NEW w \in Workers, Step(w)
      PROVE  Inv'
  BY <1>1, <1>4, AloneReads, AloneCounts, AloneWrites, AloneEdits DEF Step
<1>5. ASSUME NEW w \in Workers, Abandon(w)
      PROVE  Inv'
  BY <1>1, <1>5, AloneReturn DEF Abandon, tables
<1>6. QED
  BY <1>1, <1>2, <1>3, <1>4, <1>5, AloneCreate, AloneSeeds, StandardAreRoles DEF Next

(* When updates of users come one at a time, an active administrator       *)
(* always remains, however many edits of permissions are going on.         *)
THEOREM AnAdminRemains ==
  ASSUME Alone
  PROVE  Spec => []LastAdminRemains
<1>1. Inv /\ [Next]_vars => Inv'
  BY AloneNext
<1>2. Inv => LastAdminRemains
  BY DEF Inv
<1>3. QED
  BY <1>1, <1>2, AloneInit, PTL DEF Spec

(* The whole inductive invariant holds too.                                *)
THEOREM CallsAloneAreRight ==
  ASSUME Alone
  PROVE  Spec => []Inv
<1>1. Inv /\ [Next]_vars => Inv'
  BY AloneNext
<1>2. QED
  BY <1>1, AloneInit, PTL DEF Spec

---------------------------------------------------------------------------
(* Overlapping edits of permissions.  Of what a role has now, an edit in   *)
(* progress will delete all but what has been given to the role since its  *)
(* DELETE.                                                                 *)
HasNoted(call) ==
  call.at = "replace" => permissions[call.role] \ call.deleted \subseteq call.since

EditsHaveNoted == \A w \in Workers : HasNoted(calls[w])

(* A call that is not, or not yet, an edit; or one that has just deleted.  *)
LEMMA NotedStep ==
  ASSUME TypeOK, EditsHaveNoted, NEW w \in Workers, NEW call \in Call,
         Continue(w, call), UNCHANGED permissions, HasNoted(call)
  PROVE  EditsHaveNoted'
<1>1. calls'[w] = call /\ \A v \in Workers \ {w} : calls'[v] = calls[v]
  BY CallTyped
<1>2. QED
  BY <1>1 DEF EditsHaveNoted, HasNoted

(* A call that ends has nothing to note.                                   *)
LEMMA NotedReturn ==
  ASSUME TypeOK, EditsHaveNoted, NEW w \in Workers, Return(w), UNCHANGED permissions
  PROVE  EditsHaveNoted'
BY IdleTyped, NotedStep DEF HasNoted, Return

(* Of two edits of one role the second to commit keeps what the first has  *)
(* inserted, and no more.                                                  *)
LEMMA NotedReplace ==
  ASSUME TypeOK, CallsHaveArguments, EditsHaveNoted, NEW w \in Workers,
         ReplacePermissions(w)
  PROVE  EditsHaveNoted'
<1> DEFINE call == calls[w]
<1>1. call \in Call /\ call.role \in Roles
  BY DEF ReplacePermissions, At, TypeOK, CallsHaveArguments, HasArguments
<1>2. CASE Return(w) /\ UNCHANGED permissions
  BY <1>2, NotedReturn
<1>3. CASE /\ permissions' = [permissions EXCEPT
                                ![call.role] = (@ \ call.deleted) \cup call.wanted]
           /\ calls' = [v \in Workers |->
                IF v = w THEN Idle
                ELSE IF Edits(v, w)
                     THEN [calls[v] EXCEPT !.deleted = @ \ call.deleted,
                                           !.since = @ \cup call.wanted]
                ELSE calls[v]]
  <2> SUFFICES ASSUME NEW v \in Workers PROVE HasNoted(calls[v])'
    BY DEF EditsHaveNoted
  <2>1. /\ calls[v] \in Call /\ HasNoted(calls[v]) /\ HasArguments(calls[v])
    BY DEF TypeOK, EditsHaveNoted, CallsHaveArguments
  <2>2. CASE v = w
    <3>1. calls'[v] = Idle
      BY <1>3, <2>2
    <3>2. QED
      BY <3>1, IdleTyped DEF HasNoted
  <2>3. CASE v # w /\ Edits(v, w)
    <3> DEFINE deleted == calls[v].deleted \ call.deleted
               since == calls[v].since \cup call.wanted
    <3>1. calls'[v] = [calls[v] EXCEPT !.deleted = deleted, !.since = since]
      BY <1>3, <2>3
    <3>2. deleted \in SUBSET Permissions /\ since \in SUBSET Permissions
      BY <1>1, <2>1 DEF Call
    <3>3. /\ permissions'[call.role] = (permissions[call.role] \ call.deleted) \cup call.wanted
          /\ calls[v].role = call.role /\ calls[v].at = "replace"
      BY <1>1, <1>3, <2>3 DEF TypeOK, Edits
    <3>4. /\ calls'[v].role = calls[v].role
          /\ calls'[v].deleted = deleted /\ calls'[v].since = since
      <4> HIDE DEF deleted, since
      <4>1. QED
        BY <2>1, <3>1, <3>2 DEF Call
    <3>5. permissions[call.role] \ calls[v].deleted \subseteq calls[v].since
      BY <2>1, <3>3 DEF HasNoted
    <3> HIDE DEF call
    <3>6. permissions'[call.role] \ deleted \subseteq since
      BY <3>3, <3>5
    <3>7. QED
      BY <3>3, <3>4, <3>6 DEF HasNoted
  <2>4. CASE v # w /\ ~Edits(v, w)
    <3>1. calls'[v] = calls[v]
      BY <1>3, <2>4
    <3>2. calls[v].at = "replace" =>
            /\ calls[v].role \in Roles /\ calls[v].role # call.role
            /\ permissions'[calls[v].role] = permissions[calls[v].role]
      BY <1>1, <1>3, <2>1, <2>4 DEF Edits, HasArguments, TypeOK
    <3>3. QED
      BY <2>1, <3>1, <3>2 DEF HasNoted
  <2>5. QED
    BY <2>2, <2>3, <2>4
<1>4. QED
  BY <1>2, <1>3 DEF ReplacePermissions

(* Steps that write no permissions, and seeding, which notes what it adds. *)
LEMMA NotedLookups ==
  ASSUME TypeOK, CallsHaveArguments, EditsHaveNoted, NEW w \in Workers,
         ReadRoles(w) \/ CountAdmins(w) \/ WriteUser(w) \/ Abandon(w)
  PROVE  EditsHaveNoted'
<1>1. UNCHANGED permissions
  BY DEF ReadRoles, CountAdmins, WriteUser, Abandon, tables
<1>2. CASE Return(w)
  BY <1>1, <1>2, NotedReturn
<1>3. ASSUME NEW at \in {"count", "write"}, calls'[w].at = at,
             \A v \in Workers \ {w} : calls'[v] = calls[v]
      PROVE  EditsHaveNoted'
  BY <1>1, <1>3 DEF EditsHaveNoted, HasNoted
<1>4. CASE ReadRoles(w)
  BY <1>3, <1>4 DEF ReadRoles, Continue, TypeOK, Call
<1>5. CASE Continue(w, [calls[w] EXCEPT !.at = "write"])
  BY <1>3, <1>5 DEF Continue, TypeOK, Call
<1>6. QED
  BY <1>2, <1>4, <1>5 DEF CountAdmins, WriteUser, Abandon

(* An edit that starts will delete all there is.                           *)
LEMMA NotedStart ==
  ASSUME TypeOK, CallsHaveArguments, EditsHaveNoted, NEW w \in Workers, Start(w)
  PROVE  EditsHaveNoted'
<1>1. UNCHANGED permissions
  BY DEF Start, Update, DeletePermissions, tables
<1>2. ASSUME NEW u \in Users, NEW code \in Roles, NEW active \in UserStatus \cup {""},
             Update(w, u, code, active)
      PROVE  EditsHaveNoted'
  <2> DEFINE call == [Idle EXCEPT !.at = "readRoles", !.user = u, !.role = code,
                                  !.is_active = active, !.seenStatus = status[u]]
  <2>1. call \in Call
    BY IdleTyped DEF Call, TypeOK
  <2>2. Continue(w, call) /\ HasNoted(call)
    BY <1>2 DEF Update, HasNoted, Idle
  <2> HIDE DEF call
  <2>3. QED
    BY <1>1, <2>1, <2>2, NotedStep
<1>3. ASSUME NEW code \in Roles, NEW wanted \in SUBSET Permissions,
             DeletePermissions(w, code, wanted)
      PROVE  EditsHaveNoted'
  <2> DEFINE call == [Idle EXCEPT !.at = "replace", !.role = code, !.wanted = wanted,
                                  !.deleted = permissions[code]]
  <2>1. call \in Call
    BY IdleTyped DEF Call, TypeOK
  <2>2. Continue(w, call)
    BY <1>3 DEF DeletePermissions
  <2>3. HasNoted(call)
    BY DEF HasNoted, Idle
  <2> HIDE DEF call
  <2>4. QED
    BY <1>1, <2>1, <2>2, <2>3, NotedStep
<1>4. QED
  BY <1>2, <1>3, StandardAreRoles DEF Start

(* Seeding is noted by every edit in progress.                             *)
LEMMA NotedSeed ==
  ASSUME TypeOK, CallsHaveArguments, EditsHaveNoted, SeedMatrix
  PROVE  EditsHaveNoted'
<1> SUFFICES ASSUME NEW w \in Workers PROVE HasNoted(calls[w])'
  BY DEF EditsHaveNoted
<1> DEFINE added == SeedPermissions[calls[w].role] \ permissions[calls[w].role]
<1>1. /\ calls'[w].at = calls[w].at /\ calls'[w].role = calls[w].role
      /\ calls'[w].deleted = calls[w].deleted
      /\ calls[w].at = "replace" =>
           /\ calls'[w].since = calls[w].since \cup added
           /\ permissions'[calls[w].role] = permissions[calls[w].role] \cup added
  BY SeedMoves
<1>2. HasNoted(calls[w])
  BY DEF EditsHaveNoted
<1> HIDE DEF added
<1>3. QED
  BY <1>1, <1>2 DEF HasNoted

(* All steps together.                                                     *)
LEMMA NotedNext ==
  ASSUME TypeOK, CallsHaveArguments, EditsHaveNoted, [Next]_vars
  PROVE  EditsHaveNoted'
<1>1. CASE UNCHANGED <<permissions, calls>>
  BY <1>1 DEF EditsHaveNoted, HasNoted
<1>2. ASSUME NEW u \in Users, NEW code \in StandardRoles, NEW active \in UserStatus,
             CreateUser(u, code, active)
      PROVE  UNCHANGED <<permissions, calls>>
  BY <1>2 DEF CreateUser
<1>3. SeedUsers => UNCHANGED <<permissions, calls>>
  BY DEF SeedUsers
<1>4. QED
  BY <1>1, <1>2, <1>3, NotedSeed, NotedStart, NotedLookups, NotedReplace
  DEF Next, Step, vars, tables

(* Every edit in progress knows what has been given to its role since it   *)
(* began, for any number of calls at once.                                 *)
THEOREM EditsAreNoted == Spec => [](TypeOK /\ CallsHaveArguments /\ EditsHaveNoted)
<1> DEFINE I == TypeOK /\ CallsHaveArguments /\ EditsHaveNoted
<1>1. Init => I
  <2>1. Init => EditsHaveNoted
    BY IdleTyped DEF Init, EditsHaveNoted, HasNoted
  <2>2. QED
    BY <2>1, InitTyping
<1>2. I /\ [Next]_vars => I'
  BY NextTyping, NotedNext
<1>3. QED
  BY <1>1, <1>2, PTL DEF Spec

(* However many edits of a role overlap, one that succeeds leaves of what  *)
(* the role had before nothing but what was given to it again meanwhile.   *)
THEOREM OldPermissionsAreGone == Spec => OldPermissionsGo
<1> DEFINE Gone == \A w \in Workers :
             LET call == calls[w]
                 now == permissions'[call.role]
             IN  ReplacePermissions(w) /\ permissions' # permissions
                   => call.wanted \subseteq now /\ now \ call.wanted \subseteq call.since
<1>1. TypeOK /\ CallsHaveArguments /\ EditsHaveNoted => Gone
  <2> SUFFICES ASSUME TypeOK, CallsHaveArguments, EditsHaveNoted, NEW w \in Workers,
                      ReplacePermissions(w), permissions' # permissions
               PROVE  /\ calls[w].wanted \subseteq permissions'[calls[w].role]
                      /\ permissions'[calls[w].role] \ calls[w].wanted
                           \subseteq calls[w].since
    OBVIOUS
  <2> DEFINE code == calls[w].role
             kept == permissions[code] \ calls[w].deleted
  <2>1. code \in Roles /\ kept \subseteq calls[w].since
    BY DEF CallsHaveArguments, HasArguments, EditsHaveNoted, HasNoted,
           ReplacePermissions, At
  <2>2. permissions' = [permissions EXCEPT ![code] = kept \cup calls[w].wanted]
    BY DEF ReplacePermissions
  <2>3. permissions'[code] = kept \cup calls[w].wanted
    BY <2>1, <2>2 DEF TypeOK
  <2>4. QED
    BY <2>1, <2>3
<1> HIDE DEF Gone
<1>2. Spec => [][Gone]_vars
  BY <1>1, EditsAreNoted, PTL
<1>3. QED
  BY <1>2 DEF Gone, OldPermissionsGo
=============================================================================
