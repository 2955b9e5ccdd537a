-------------------------- MODULE BackOfficeProofs --------------------------
(***************************************************************************)
(* Proofs about the parts of the service that share no state with each     *)
(* other: the phone catalogue, one user's sessions, the desk where a       *)
(* request is filled in and answered, the import of the IMEI reference,    *)
(* the dashboard, and the router; each of them by itself, and at last      *)
(* together.                                                               *)
(***************************************************************************)
EXTENDS BackOffice, FiniteSetTheorems, WellFoundedInduction, TLAPS

---------------------------------------------------------------------------
(* The phone catalogue.                                                    *)

(* What the tables hold.                                                   *)
CatalogTyping ==
  /\ name \in [Phone!Items -> Names \cup {None}]
  /\ active \in [Phone!Items -> {"active", "inactive"}]
  /\ brandOf \in [Models -> Brands \cup {None}]

(* What is not there is not active.                                        *)
AbsentAreInactive == \A x \in Phone!Items : ~Phone!Exists(x) => active[x] = "inactive"

(* The unique indexes: brands by name, models by brand and name.           *)
BrandsDiffer ==
  \A b, c \in Brands : Phone!Exists(b) /\ name[b] = name[c] => b = c

ModelsDiffer ==
  \A m, n \in Models :
    Phone!Exists(m) /\ name[m] = name[n] /\ brandOf[m] = brandOf[n] => m = n

(* What the calls in progress are about to write.                          *)
Edit ==
  [at : {"write", "checkModelInput"}, item : Phone!Items, name : Names,
   brand : Brands \cup {None}, is_active : {"active", "inactive"}]

EditsTyping ==
  /\ edits \in [Editors -> Edit \cup {Phone!Idle}]
  /\ \A e \in Editors : edits[e].item \in Models => edits[e].brand \in Brands

CatalogInv ==
  CatalogTyping /\ AbsentAreInactive /\ BrandsDiffer /\ ModelsDiffer /\ EditsTyping

(* A call that is not idle carries what is to be written.                  *)
LEMMA EditTyped ==
  ASSUME EditsTyping, NEW e \in Editors, edits[e].at # "idle"
  PROVE  edits[e] \in Edit
<1>1. Phone!Idle.at = "idle"
  BY DEF Phone!Idle
<1>2. edits[e] \in Edit \cup {Phone!Idle}
  BY DEF EditsTyping
<1>3. QED
  BY <1>1, <1>2

(* In a state of the invariant the catalogue of active items maps each     *)
(* active brand to its active models.                                      *)
LEMMA CatalogMaps ==
  ASSUME Phone!PhoneAssumption, CatalogTyping
  PROVE  LET catalog == Phone!Catalog(FALSE) IN
         /\ DOMAIN catalog = Phone!ShownBrands(FALSE)
         /\ \A b \in DOMAIN catalog : catalog[b] = Phone!ShownModels(b, FALSE)
<1> DEFINE rows == Phone!Joined(FALSE)
           brands == {pair[1] : pair \in rows}
           models(b) == {pair[2] : pair \in {r \in rows : r[1] = b}} \ {None}
           shown == Phone!ShownBrands(FALSE)
           of(b) == Phone!ShownModels(b, FALSE)
<1>1. rows = {pair \in shown \X (Models \cup {None}) :
                IF of(pair[1]) = {} THEN pair[2] = None ELSE pair[2] \in of(pair[1])}
  BY DEF Phone!Joined
<1>2. \A b : of(b) \subseteq Models
  BY DEF Phone!ShownModels
<1>3. None \notin Models
  BY DEF Phone!PhoneAssumption
<1> HIDE DEF rows, shown, of
<1>4. \A b \in shown : \E m \in Models \cup {None} : <<b, m>> \in rows
  BY <1>1, <1>2
<1>5. brands = shown
  <2>1. \A pair \in rows : pair[1] \in shown
    BY <1>1
  <2>2. \A b \in shown : \E pair \in rows : pair[1] = b
    BY <1>4
  <2>3. QED
    BY <2>1, <2>2
<1>6. ASSUME NEW b \in shown PROVE models(b) = of(b)
  <2>1. \A m : <<b, m>> \in rows /\ m # None => m \in of(b)
    BY <1>1
  <2>2. \A m \in of(b) : <<b, m>> \in rows /\ m # None
    BY <1>1, <1>2, <1>3
  <2>3. \A pair \in rows : pair = <<pair[1], pair[2]>>
    BY <1>1
  <2>4. QED
    BY <2>1, <2>2, <2>3
<1>7. Phone!Catalog(FALSE) = [b \in brands |-> models(b)]
  BY DEF Phone!Catalog, rows
<1> HIDE DEF brands, models
<1>8. QED
  BY <1>5, <1>6, <1>7 DEF shown, of

(* The invariant says of the catalogue what the form needs.                *)
LEMMA CatalogInvImpliesWhole ==
  ASSUME Phone!PhoneAssumption, CatalogInv
  PROVE  Phone!CatalogIsWhole
<1> DEFINE catalog == Phone!Catalog(FALSE)
<1>0. CatalogTyping /\ AbsentAreInactive /\ BrandsDiffer /\ ModelsDiffer
  BY DEF CatalogInv
<1>1. /\ DOMAIN catalog = Phone!ShownBrands(FALSE)
      /\ \A b \in DOMAIN catalog : catalog[b] = Phone!ShownModels(b, FALSE)
  BY <1>0, CatalogMaps
<1> HIDE DEF catalog
<1>2. DOMAIN catalog = {b \in Brands : Phone!Exists(b) /\ active[b] = "active"}
  BY <1>1 DEF Phone!ShownBrands
<1>3. Phone!NamesDiffer(DOMAIN catalog)
  BY <1>0, <1>2 DEF Phone!NamesDiffer, BrandsDiffer
<1>4. ASSUME NEW b \in DOMAIN catalog PROVE Phone!NamesDiffer(catalog[b])
  <2>1. \A m \in catalog[b] : m \in Models /\ brandOf[m] = b /\ active[m] = "active"
    BY <1>1 DEF Phone!ShownModels
  <2>2. \A m \in catalog[b] : Phone!Exists(m)
    BY <1>0, <2>1 DEF AbsentAreInactive, Phone!Items
  <2>3. QED
    BY <1>0, <2>1, <2>2 DEF Phone!NamesDiffer, ModelsDiffer
<1>5. ASSUME NEW m \in Models
      PROVE  {b \in DOMAIN catalog : m \in catalog[b]}
               = {b \in {brandOf[m]} \ {None} : active[b] = "active" /\ active[m] = "active"}
  <2>1. brandOf[m] \in Brands \cup {None} /\ None \notin Brands
    BY <1>0 DEF CatalogTyping, Phone!PhoneAssumption
  <2>2. \A b \in Brands : active[b] = "active" => b \in DOMAIN catalog
    BY <1>0, <1>2 DEF AbsentAreInactive, Phone!Items
  <2>3. \A b \in DOMAIN catalog :
          m \in catalog[b] <=> brandOf[m] = b /\ active[m] = "active"
    BY <1>1 DEF Phone!ShownModels
  <2>4. \A b \in DOMAIN catalog : b \in Brands /\ active[b] = "active"
    BY <1>2
  <2>5. QED
    BY <2>1, <2>2, <2>3, <2>4
<1>6. QED
  BY <1>2, <1>3, <1>4, <1>5 DEF Phone!CatalogIsWhole, catalog

(* The catalogue as it is found.                                           *)
LEMMA InitCatalog ==
  ASSUME Phone!PhoneAssumption, Phone!Init
  PROVE  CatalogInv
<1>1. CatalogTyping /\ AbsentAreInactive
  BY DEF Phone!Init, CatalogTyping, AbsentAreInactive
<1>2. BrandsDiffer /\ ModelsDiffer
  BY DEF Phone!Init, BrandsDiffer, ModelsDiffer, Phone!PhoneAssumption, Phone!Items
<1>3. EditsTyping
  <2>1. edits = [e \in Editors |-> Phone!Idle]
    BY DEF Phone!Init
  <2>2. Phone!Idle.item = None /\ None \notin Models
    BY DEF Phone!Idle, Phone!PhoneAssumption
  <2>3. QED
    BY <2>1, <2>2 DEF EditsTyping
<1>4. QED
  BY <1>1, <1>2, <1>3 DEF CatalogInv

(* A call goes on with something it may write, or returns.                 *)
LEMMA EditsStayTyped ==
  ASSUME EditsTyping, NEW e \in Editors, NEW edit, Phone!Continue(e, edit),
         edit \in Edit \cup {Phone!Idle},
         edit.item \in Models => edit.brand \in Brands
  PROVE  EditsTyping'
<1>1. edits' = [edits EXCEPT ![e] = edit]
  BY DEF Phone!Continue
<1>2. \A f \in Editors : edits'[f] = IF f = e THEN edit ELSE edits[f]
  BY <1>1 DEF EditsTyping
<1>3. edits' \in [Editors -> Edit \cup {Phone!Idle}]
  BY <1>1 DEF EditsTyping
<1>4. QED
  BY <1>2, <1>3 DEF EditsTyping, Phone!Idle, Edit, Phone!Items

(* A call that returns is idle.                                            *)
LEMMA ReturnsAreTyped ==
  ASSUME Phone!PhoneAssumption, EditsTyping, NEW e \in Editors, Phone!Return(e)
  PROVE  EditsTyping'
<1>1. Phone!Idle.item = None /\ None \notin Models
  BY DEF Phone!Idle, Phone!PhoneAssumption
<1>2. Phone!Continue(e, Phone!Idle)
  BY DEF Phone!Return
<1>3. QED
  BY <1>1, <1>2, EditsStayTyped

(* A statement that writes what the unique indexes let through keeps them. *)
LEMMA WriteKeeps ==
  ASSUME Phone!PhoneAssumption, CatalogInv, NEW e \in Editors, Phone!Write(e)
  PROVE  CatalogInv'
<1> DEFINE edit == edits[e]
<1>0. CatalogTyping /\ AbsentAreInactive /\ BrandsDiffer /\ ModelsDiffer /\ EditsTyping
  BY DEF CatalogInv
<1>1. edit \in Edit /\ (edit.item \in Models => edit.brand \in Brands)
  BY <1>0, EditTyped DEF Phone!Write, Phone!At, EditsTyping
<1>2. /\ edit.item \in Phone!Items /\ edit.name \in Names
      /\ edit.is_active \in {"active", "inactive"}
  BY <1>1 DEF Edit
<1>3. EditsTyping'
  BY <1>0, ReturnsAreTyped DEF Phone!Write
<1>4. CASE Phone!NameIsTaken(edit)
  <2>1. UNCHANGED Phone!tables
    BY <1>4 DEF Phone!Write
  <2>2. QED
    BY <1>0, <1>3, <2>1
    DEF CatalogInv, CatalogTyping, AbsentAreInactive, BrandsDiffer, ModelsDiffer,
        Phone!tables, Phone!Exists
<1>5. CASE ~Phone!NameIsTaken(edit)
  <2>1. /\ name' = [name EXCEPT ![edit.item] = edit.name]
        /\ active' = [active EXCEPT ![edit.item] = edit.is_active]
        /\ brandOf' = IF edit.item \in Models
                      THEN [brandOf EXCEPT ![edit.item] = edit.brand] ELSE brandOf
    BY <1>5 DEF Phone!Write
  <2>2. None \notin Names /\ Brands \cap Models = {}
    BY DEF Phone!PhoneAssumption
  <2>3. /\ edit.item \in Brands =>
             \A b \in Brands \ {edit.item} : name[b] # edit.name
        /\ edit.item \notin Brands =>
             \A m \in Models \ {edit.item} : ~(name[m] = edit.name /\ brandOf[m] = edit.brand)
    BY <1>5 DEF Phone!NameIsTaken
  <2> HIDE DEF edit
  <2>4. CatalogTyping'
    BY <1>0, <1>1, <1>2, <2>1 DEF CatalogTyping
  <2>5. \A x \in Phone!Items :
          /\ name'[x] = IF x = edit.item THEN edit.name ELSE name[x]
          /\ active'[x] = IF x = edit.item THEN edit.is_active ELSE active[x]
    BY <1>0, <2>1 DEF CatalogTyping
  <2>6. \A m \in Models : brandOf'[m] = IF m = edit.item THEN edit.brand ELSE brandOf[m]
    BY <1>0, <2>1 DEF CatalogTyping
  <2>7. AbsentAreInactive'
    BY <1>0, <1>2, <2>2, <2>5 DEF AbsentAreInactive, Phone!Exists
  <2>8. BrandsDiffer'
    BY <1>0, <1>2, <2>2, <2>3, <2>5 DEF BrandsDiffer, Phone!Exists, Phone!Items
  <2>9. ModelsDiffer'
    BY <1>0, <1>2, <2>2, <2>3, <2>5, <2>6 DEF ModelsDiffer, Phone!Exists, Phone!Items
  <2>10. QED
    BY <1>3, <2>4, <2>7, <2>8, <2>9 DEF CatalogInv
<1>6. QED
  BY <1>4, <1>5

(* Steps that write nothing keep what the tables hold.                     *)
LEMMA TablesKept ==
  ASSUME CatalogInv, UNCHANGED Phone!tables, EditsTyping'
  PROVE  CatalogInv'
BY DEF CatalogInv, CatalogTyping, AbsentAreInactive, BrandsDiffer, ModelsDiffer,
       Phone!tables, Phone!Exists

(* Every step keeps the invariant.                                         *)
LEMMA NextCatalog ==
  ASSUME Phone!PhoneAssumption, CatalogInv, [Phone!Next]_(Phone!vars)
  PROVE  CatalogInv'
<1>0. CatalogTyping /\ EditsTyping
  BY DEF CatalogInv
<1>1. ASSUME NEW x \in Phone!Items, NEW flag \in {"active", "inactive", ""}
      PROVE  Phone!IsActive(x, flag) \in {"active", "inactive"}
  BY <1>0 DEF CatalogTyping, Phone!IsActive
<1>2. ASSUME NEW e \in Editors, NEW n \in Names, NEW flag \in {"active", "inactive", ""},
             NEW b \in Brands, Phone!SaveBrand(e, b, n, flag)
      PROVE  CatalogInv'
  <2> DEFINE edit == [at |-> "write", item |-> b, name |-> n, brand |-> None,
                      is_active |-> Phone!IsActive(b, flag)]
  <2>1. edit \in Edit /\ edit.item = b
    BY <1>1 DEF Edit, Phone!Items
  <2>2. Phone!Continue(e, edit) /\ UNCHANGED Phone!tables
    BY <1>2 DEF Phone!SaveBrand
  <2>3. b \notin Models
    BY DEF Phone!PhoneAssumption
  <2> HIDE DEF edit
  <2>4. EditsTyping'
    BY <1>0, <2>1, <2>2, <2>3, EditsStayTyped
  <2>5. QED
    BY <2>2, <2>4, TablesKept
<1>3. ASSUME NEW e \in Editors, NEW n \in Names, NEW flag \in {"active", "inactive", ""},
             NEW m \in Models, NEW b \in Brands, Phone!SaveModel(e, m, n, b, flag)
      PROVE  CatalogInv'
  <2> DEFINE edit == [at |-> "checkModelInput", item |-> m, name |-> n, brand |-> b,
                      is_active |-> Phone!IsActive(m, flag)]
  <2>1. edit \in Edit /\ edit.brand = b
    BY <1>1 DEF Edit, Phone!Items
  <2>2. Phone!Continue(e, edit) /\ UNCHANGED Phone!tables
    BY <1>3 DEF Phone!SaveModel
  <2> HIDE DEF edit
  <2>3. EditsTyping'
    BY <1>0, <2>1, <2>2, EditsStayTyped
  <2>4. QED
    BY <2>2, <2>3, TablesKept
<1>4. ASSUME NEW e \in Editors, Phone!checkModelInput(e)
      PROVE  CatalogInv'
  <2>1. edits[e] \in Edit /\ (edits[e].item \in Models => edits[e].brand \in Brands)
    BY <1>0, <1>4, EditTyped DEF Phone!checkModelInput, Phone!At, EditsTyping
  <2> DEFINE edit == [edits[e] EXCEPT !.at = "write"]
  <2>2. edit \in Edit /\ edit.item = edits[e].item /\ edit.brand = edits[e].brand
    BY <2>1 DEF Edit
  <2>3. Phone!Continue(e, edit) \/ Phone!Return(e)
    BY <1>4 DEF Phone!checkModelInput
  <2> HIDE DEF edit
  <2>4. EditsTyping'
    BY <1>0, <2>1, <2>2, <2>3, EditsStayTyped, ReturnsAreTyped
  <2>5. QED
    BY <1>4, <2>4, TablesKept DEF Phone!checkModelInput
<1>5. ASSUME NEW e \in Editors, Phone!Abandon(e)
      PROVE  CatalogInv'
  BY <1>0, <1>5, ReturnsAreTyped, TablesKept DEF Phone!Abandon
<1>6. CASE UNCHANGED Phone!vars
  <2>1. edits' = edits /\ UNCHANGED Phone!tables
    BY <1>6 DEF Phone!vars
  <2>2. EditsTyping'
    BY <1>0, <2>1 DEF EditsTyping
  <2>3. QED
    BY <2>1, <2>2, TablesKept
<1>7. QED
  BY <1>2, <1>3, <1>4, <1>5, <1>6, WriteKeeps DEF Phone!Next

(* So the catalogue is whole, of the phone catalogue by itself.            *)
LEMMA CatalogIsWholeByItself ==
  ASSUME Phone!PhoneAssumption
  PROVE  Phone!Spec => []Phone!CatalogIsWhole
<1>1. Phone!Init => CatalogInv
  BY InitCatalog
<1>2. CatalogInv /\ [Phone!Next]_(Phone!vars) => CatalogInv'
  BY NextCatalog
<1>3. CatalogInv => Phone!CatalogIsWhole
  BY CatalogInvImpliesWhole
<1>4. QED
  BY <1>1, <1>2, <1>3, PTL DEF Phone!Spec
---------------------------------------------------------------------------
(* One user's sessions.                                                    *)

(* What makes a user a master who is let in.                               *)
MasterFacts == {"ACTIVE", "is_master"}

(* What the three calls carry.                                             *)
SignIn == [at : {"idle", "generate"}, elapsed : 0 .. MaxDelay, is_master : BOOLEAN]

(* What a token says.                                                      *)
Claims == [life : Nat, is_master : BOOLEAN]

Call ==
  [at : {"idle", "guard", "handler", "served"}, elapsed : Nat, is_master : BOOLEAN,
   asks : {<<>>} \cup Session!Guards, left : {<<>>, <<Session!Create>>} \cup Session!Guards,
   shown : SUBSET Requests]

SessionsTyping ==
  /\ facts \in SUBSET Session!Facts
  /\ age \in [Session!Facts -> Nat]
  /\ login \in SignIn /\ token \in Claims /\ request \in Call

(* What is so has been so until now.                                       *)
HeldAreYoung == \A f \in facts : age[f] = 0

(* What a sign-in read of a master was so when it read it.                 *)
LoginIsRecent ==
  login.at = "generate" /\ login.is_master
    => \A f \in MasterFacts : age[f] =< login.elapsed

(* So was what a token says, a sign-in and the token's age ago.            *)
TokenIsRecent ==
  token.life > 0 /\ token.is_master
    => \A f \in MasterFacts : age[f] + token.life =< MaxDelay + Expiry

(* And what a request was admitted with, its own duration before that.     *)
MasterIsRecent ==
  request.at # "idle" /\ request.is_master
    => \A f \in MasterFacts : age[f] =< MaxDelay + Expiry + request.elapsed

(* The permissions asked for so far were held within the time to live.     *)
Held(f) == age[f] =< request.elapsed + TTL

GuardsHeld ==
  request.at # "idle" =>
    /\ request.asks \in Session!Guards
    /\ request.at # "guard" => request.left = <<>>
    /\ ~request.is_master =>
         \/ request.left = request.asks
         \/ /\ request.asks = <<Session!Read, Session!Create>>
            /\ request.left = <<Session!Create>>
            /\ Held("ACTIVE") /\ Held(Session!Read)
         \/ /\ request.left = <<>>
            /\ Held("ACTIVE")
            /\ \A i \in DOMAIN request.asks : Held(request.asks[i])

(* Others' requests were shown by request:read_all.                        *)
OthersAreShownRightly ==
  request.at = "served" /\ ~request.is_master /\ (\E r \in request.shown : ~Submitted[r])
    => Held(Session!ReadAll)

SessionsInv ==
  /\ SessionsTyping /\ HeldAreYoung
  /\ LoginIsRecent /\ TokenIsRecent /\ MasterIsRecent
  /\ GuardsHeld /\ OthersAreShownRightly

(* The permissions and facts are different names.                          *)
LEMMA FactsNamed ==
  /\ Session!Facts = {"ACTIVE", "is_master", "request:read", "request:read_all", "request:create"}
  /\ Session!Permissions = {"request:read", "request:read_all", "request:create"}
  /\ Session!Read = "request:read" /\ Session!ReadAll = "request:read_all"
  /\ Session!Create = "request:create"
  /\ Session!Guards = {<<"request:read">>, <<"request:read", "request:create">>}
BY DEF Session!Facts, Session!Permissions, Session!Read, Session!ReadAll, Session!Create,
       Session!Guards

(* The smaller and the larger of two numbers.                              *)
LEMMA MinOfTwo ==
  ASSUME NEW a \in Nat, NEW b \in Nat
  PROVE  Session!Min({a, b}) \in Nat /\ Session!Min({a, b}) =< a
<1> DEFINE P(x) == \A y \in {a, b} : x =< y
<1>1. \E x \in {a, b} : P(x)
  <2>1. a =< b \/ b =< a
    OBVIOUS
  <2>2. a =< a /\ b =< b
    OBVIOUS
  <2>3. QED
    BY <2>1, <2>2
<1>2. Session!Min({a, b}) = CHOOSE x \in {a, b} : P(x)
  BY DEF Session!Min
<1>3. Session!Min({a, b}) \in {a, b} /\ P(Session!Min({a, b}))
  BY <1>1, <1>2
<1>4. QED
  BY <1>3

(* And the larger of two.                                                  *)
LEMMA MaxOfTwo ==
  ASSUME NEW a \in Int, NEW b \in Int
  PROVE  /\ Session!Max({a, b}) \in {a, b}
         /\ Session!Max({a, b}) >= a /\ Session!Max({a, b}) >= b
<1> DEFINE P(x) == \A y \in {a, b} : x >= y
<1>1. \E x \in {a, b} : P(x)
  <2>1. a >= b \/ b >= a
    OBVIOUS
  <2>2. a >= a /\ b >= b
    OBVIOUS
  <2>3. QED
    BY <2>1, <2>2
<1>2. Session!Max({a, b}) = CHOOSE x \in {a, b} : P(x)
  BY DEF Session!Max
<1>3. Session!Max({a, b}) \in {a, b} /\ P(Session!Max({a, b}))
  BY <1>1, <1>2
<1>4. QED
  BY <1>3

(* The cap on ages is a number.                                            *)
LEMMA OldIsNat ==
  ASSUME Session!SessionsAssumption, NEW f
  PROVE  Session!Old(f) \in Nat
<1>1. TTL \in Nat /\ Expiry \in Nat /\ MaxDelay \in Nat
  BY DEF Session!SessionsAssumption
<1>2. Session!Max({Expiry, TTL}) \in Nat
  BY <1>1, MaxOfTwo
<1>3. Session!Max({Expiry, TTL}) + 2 * MaxDelay + 1 \in Nat /\ TTL + MaxDelay + 1 \in Nat
  BY <1>1, <1>2
<1>4. QED
  BY <1>3 DEF Session!Old

(* The invariant says what the runs check.                                 *)
LEMMA SessionsInvImplies ==
  ASSUME Session!SessionsAssumption, SessionsInv
  PROVE  Session!RoleChangesApply /\ Session!MastersEnd /\ Session!ShownIsTheirs
<1>0. SessionsTyping /\ MasterIsRecent /\ GuardsHeld /\ OthersAreShownRightly
  BY DEF SessionsInv
<1>1. Session!RoleChangesApply
  <2> SUFFICES ASSUME Session!Admitted, ~request.is_master
               PROVE  \A f \in {"ACTIVE"} \cup {request.asks[i] : i \in DOMAIN request.asks} :
                        age[f] =< request.elapsed + TTL
    BY DEF Session!RoleChangesApply
  <2>1. request.at # "idle" /\ request.at # "guard"
    BY DEF Session!Admitted
  <2>2. request.asks \in Session!Guards /\ request.left = <<>>
    BY <1>0, <2>1 DEF GuardsHeld
  <2>3. request.asks # <<>> /\ <<Session!Create>> # <<>>
    BY <2>2 DEF Session!Guards
  <2>4. Held("ACTIVE") /\ \A i \in DOMAIN request.asks : Held(request.asks[i])
    BY <1>0, <2>1, <2>2, <2>3 DEF GuardsHeld
  <2>5. QED
    BY <2>4 DEF Held
<1>2. Session!MastersEnd
  BY <1>0 DEF Session!MastersEnd, Session!Admitted, MasterIsRecent, MasterFacts
<1>3. ASSUME NEW viewer \in Session!Viewers
      PROVE  Session!Listed(viewer) = {r \in Requests : Session!canSee(viewer, r)}
  BY DEF Session!Listed, Session!canSee, Session!Selected
<1>4. Session!ShownIsTheirs
  BY <1>0, <1>3 DEF Session!ShownIsTheirs, OthersAreShownRightly, Held
<1>5. QED
  BY <1>1, <1>2, <1>4

(* Nobody is signed in at first, and what is not so never was.             *)
LEMMA InitSessions ==
  ASSUME Session!SessionsAssumption, Session!Init
  PROVE  SessionsInv
<1>1. /\ facts \in SUBSET Session!Facts
      /\ age = [f \in Session!Facts |-> IF f \in facts THEN 0 ELSE Session!Old(f)]
  BY DEF Session!Init
<1>2. age \in [Session!Facts -> Nat]
  BY <1>1, OldIsNat
<1>3. HeldAreYoung
  BY <1>1 DEF HeldAreYoung
<1>4. /\ login = [at |-> "idle", elapsed |-> 0, is_master |-> FALSE]
      /\ token = [life |-> 0, is_master |-> FALSE]
      /\ request = [at |-> "idle", elapsed |-> 0, is_master |-> FALSE, asks |-> <<>>,
                    left |-> <<>>, shown |-> {}]
  BY DEF Session!Init, Session!NoLogin, Session!NoToken, Session!NoRequest
<1>5. 0 \in 0 .. MaxDelay
  BY DEF Session!SessionsAssumption
<1>6. SessionsTyping
  BY <1>1, <1>2, <1>4, <1>5 DEF SessionsTyping, SignIn, Claims, Call
<1>7. LoginIsRecent /\ TokenIsRecent /\ MasterIsRecent
  BY <1>4 DEF LoginIsRecent, TokenIsRecent, MasterIsRecent
<1>8. GuardsHeld /\ OthersAreShownRightly
  BY <1>4 DEF GuardsHeld, OthersAreShownRightly
<1>9. QED
  BY <1>3, <1>6, <1>7, <1>8 DEF SessionsInv

(* What is held at a step stays held by a request that only waits.         *)
LEMMA GuardsStayHeld ==
  ASSUME SessionsTyping, GuardsHeld, OthersAreShownRightly,
         request'.at = request.at, request'.is_master = request.is_master,
         request'.asks = request.asks, request'.left = request.left,
         request'.shown = request.shown,
         \A f \in Session!Facts : request.at # "idle" /\ Held(f) => Held(f)'
  PROVE  GuardsHeld' /\ OthersAreShownRightly'
<1>1. /\ "ACTIVE" \in Session!Facts /\ Session!Read \in Session!Facts
      /\ Session!ReadAll \in Session!Facts
  BY FactsNamed
<1>2. ASSUME request.asks \in Session!Guards, NEW i \in DOMAIN request.asks
      PROVE  request.asks[i] \in Session!Facts
  <2>1. request.asks \in {<<"request:read">>, <<"request:read", "request:create">>}
    BY <1>2, FactsNamed
  <2>2. request.asks[i] \in {"request:read", "request:create"}
    BY <1>2, <2>1
  <2>3. QED
    BY <2>2, FactsNamed
<1>3. OthersAreShownRightly'
  BY <1>1 DEF OthersAreShownRightly
<1>4. GuardsHeld'
  BY <1>1, <1>2 DEF GuardsHeld
<1>5. QED
  BY <1>3, <1>4

(* Ages that only shrink disturb nothing that was recent.                  *)
LEMMA AdministerKeeps ==
  ASSUME Session!SessionsAssumption, SessionsInv, NEW f \in Session!Facts,
         Session!Administer(f)
  PROVE  SessionsInv'
<1>0. /\ SessionsTyping /\ HeldAreYoung /\ LoginIsRecent /\ TokenIsRecent
      /\ MasterIsRecent /\ GuardsHeld /\ OthersAreShownRightly
  BY DEF SessionsInv
<1>1. /\ facts' = IF f \in facts THEN facts \ {f} ELSE facts \cup {f}
      /\ age' = [age EXCEPT ![f] = 0]
      /\ login' = login /\ token' = token /\ request' = request
  BY DEF Session!Administer
<1>2. SessionsTyping'
  BY <1>0, <1>1 DEF SessionsTyping
<1>3. \A g \in Session!Facts : age'[g] = IF g = f THEN 0 ELSE age[g]
  BY <1>0, <1>1 DEF SessionsTyping
<1>4. \A g \in Session!Facts : age[g] \in Nat /\ age'[g] \in Nat /\ age'[g] =< age[g]
  BY <1>0, <1>2, <1>3 DEF SessionsTyping
<1>5. HeldAreYoung'
  BY <1>0, <1>1, <1>3 DEF HeldAreYoung, SessionsTyping
<1>6. /\ MasterFacts \subseteq Session!Facts
      /\ "ACTIVE" \in Session!Facts /\ Session!Read \in Session!Facts
      /\ Session!ReadAll \in Session!Facts
  BY FactsNamed DEF MasterFacts
<1>7. /\ request.elapsed \in Nat /\ login.elapsed \in Nat /\ token.life \in Nat
      /\ TTL \in Nat /\ Expiry \in Nat /\ MaxDelay \in Nat
  BY <1>0 DEF SessionsTyping, SignIn, Claims, Call, Session!SessionsAssumption
<1>8. LoginIsRecent'
  BY <1>0, <1>1, <1>4, <1>6, <1>7 DEF LoginIsRecent
<1>9. TokenIsRecent'
  BY <1>0, <1>1, <1>4, <1>6, <1>7 DEF TokenIsRecent
<1>10. MasterIsRecent'
  BY <1>0, <1>1, <1>4, <1>6, <1>7 DEF MasterIsRecent
<1>11. \A g \in Session!Facts : Held(g) => Held(g)'
  BY <1>1, <1>4, <1>7 DEF Held
<1>12. QED
  <2>1. GuardsHeld' /\ OthersAreShownRightly'
    BY <1>0, <1>1, <1>11, GuardsStayHeld
  <2>2. QED
    BY <1>2, <1>5, <1>8, <1>9, <1>10, <2>1 DEF SessionsInv

(* Time goes by for the request as it does for the ages.                   *)
LEMMA TickKeeps ==
  ASSUME Session!SessionsAssumption, SessionsInv, Session!Tick
  PROVE  SessionsInv'
<1>0. /\ SessionsTyping /\ HeldAreYoung /\ LoginIsRecent /\ TokenIsRecent
      /\ MasterIsRecent /\ GuardsHeld /\ OthersAreShownRightly
  BY DEF SessionsInv
<1>1. /\ login.elapsed < MaxDelay
      /\ age' = [f \in Session!Facts |->
                   IF f \in facts THEN 0 ELSE Session!Min({age[f] + 1, Session!Old(f)})]
      /\ login' = Session!Delayed(login) /\ request' = Session!Delayed(request)
      /\ token' = [token EXCEPT !.life = Session!Max({token.life - 1, 0})]
      /\ facts' = facts
  BY DEF Session!Tick
<1>2. /\ request.elapsed \in Nat /\ login.elapsed \in 0 .. MaxDelay /\ token.life \in Nat
      /\ TTL \in Nat /\ Expiry \in Nat /\ MaxDelay \in Nat
  BY <1>0 DEF SessionsTyping, SignIn, Claims, Call, Session!SessionsAssumption
<1>3. ASSUME NEW f \in Session!Facts
      PROVE  age'[f] \in Nat /\ age[f] \in Nat /\ age'[f] =< age[f] + 1
  <2>1. age[f] \in Nat /\ age[f] + 1 \in Nat /\ Session!Old(f) \in Nat
    BY <1>0, OldIsNat DEF SessionsTyping
  <2>2. age'[f] = IF f \in facts THEN 0 ELSE Session!Min({age[f] + 1, Session!Old(f)})
    BY <1>1
  <2>3. QED
    BY <2>1, <2>2, MinOfTwo
<1>4. age' \in [Session!Facts -> Nat]
  BY <1>1, <1>3
<1>5. /\ login'.at = login.at /\ login'.is_master = login.is_master
      /\ login.at # "idle" => login'.elapsed = login.elapsed + 1
      /\ login' \in SignIn
  BY <1>0, <1>1, <1>2 DEF Session!Delayed, SessionsTyping, SignIn
<1>6. /\ request'.at = request.at /\ request'.is_master = request.is_master
      /\ request'.asks = request.asks /\ request'.left = request.left
      /\ request'.shown = request.shown
      /\ request.at # "idle" => request'.elapsed = request.elapsed + 1
      /\ request' \in Call
  <2>1. request \in Call
    BY <1>0 DEF SessionsTyping
  <2>2. CASE request.at = "idle"
    BY <1>1, <2>1, <2>2 DEF Session!Delayed
  <2>3. CASE request.at # "idle"
    <3>1. request' = [request EXCEPT !.elapsed = request.elapsed + 1]
      BY <1>1, <2>3 DEF Session!Delayed
    <3>2. request.elapsed + 1 \in Nat
      BY <1>2
    <3>3. QED
      BY <2>1, <3>1, <3>2 DEF Call
  <2>4. QED
    BY <2>2, <2>3
<1>7. /\ token'.is_master = token.is_master
      /\ token'.life \in Nat
      /\ token'.life > 0 => token'.life = token.life - 1
      /\ token' \in Claims
  <2>1. token.life - 1 \in Int /\ 0 \in Int
    BY <1>2
  <2>2. /\ Session!Max({token.life - 1, 0}) \in {token.life - 1, 0}
        /\ Session!Max({token.life - 1, 0}) >= 0
    BY <2>1, MaxOfTwo
  <2>3. token'.life = Session!Max({token.life - 1, 0}) /\ token'.is_master = token.is_master
    BY <1>0, <1>1 DEF SessionsTyping
  <2>4. Session!Max({token.life - 1, 0}) \in Nat
    BY <1>2, <2>2
  <2>5. token' \in Claims
    BY <1>0, <1>1, <2>4 DEF SessionsTyping, Claims
  <2>6. QED
    BY <1>2, <2>2, <2>3, <2>4, <2>5
<1>8. SessionsTyping'
  BY <1>0, <1>1, <1>4, <1>5, <1>6, <1>7 DEF SessionsTyping
<1>9. HeldAreYoung'
  BY <1>0, <1>1 DEF HeldAreYoung, SessionsTyping
<1>10. MasterFacts \subseteq Session!Facts
  BY FactsNamed DEF MasterFacts
<1>11. LoginIsRecent'
  BY <1>0, <1>2, <1>3, <1>5, <1>10 DEF LoginIsRecent
<1>12. TokenIsRecent'
  <2>1. SUFFICES ASSUME token'.life > 0, token'.is_master, NEW f \in MasterFacts
                 PROVE  age'[f] + token'.life =< MaxDelay + Expiry
    BY DEF TokenIsRecent
  <2>2. token.life > 0 /\ token.is_master /\ token'.life = token.life - 1
    BY <1>2, <1>7, <2>1
  <2>3. age[f] + token.life =< MaxDelay + Expiry
    BY <1>0, <2>2 DEF TokenIsRecent
  <2>4. age'[f] \in Nat /\ age[f] \in Nat /\ age'[f] =< age[f] + 1
    BY <1>3, <1>10
  <2>5. QED
    BY <1>2, <2>2, <2>3, <2>4
<1>13. MasterIsRecent'
  BY <1>0, <1>2, <1>3, <1>6, <1>10 DEF MasterIsRecent
<1>14. \A f \in Session!Facts : request.at # "idle" /\ Held(f) => Held(f)'
  BY <1>2, <1>3, <1>6 DEF Held
<1>15. GuardsHeld' /\ OthersAreShownRightly'
  BY <1>0, <1>6, <1>14, GuardsStayHeld
<1>16. QED
  BY <1>8, <1>9, <1>11, <1>12, <1>13, <1>15 DEF SessionsInv

(* A sign-in reads and issues what is so of the account.                   *)
LEMMA LoginKeeps ==
  ASSUME Session!SessionsAssumption, SessionsInv,
         Session!GetUser \/ Session!GenerateToken \/ Session!AbandonLogin
  PROVE  SessionsInv'
<1>0. /\ SessionsTyping /\ HeldAreYoung /\ LoginIsRecent /\ TokenIsRecent
      /\ MasterIsRecent /\ GuardsHeld /\ OthersAreShownRightly
  BY DEF SessionsInv
<1>1. facts' = facts /\ age' = age /\ request' = request
  BY DEF Session!GetUser, Session!GenerateToken, Session!AbandonLogin
<1>2. /\ HeldAreYoung' /\ MasterIsRecent' /\ GuardsHeld' /\ OthersAreShownRightly'
  BY <1>0, <1>1
  DEF HeldAreYoung, MasterIsRecent, GuardsHeld, OthersAreShownRightly, Held
<1>3. /\ login.elapsed \in 0 .. MaxDelay /\ token.life \in Nat
      /\ TTL \in Nat /\ Expiry \in Nat /\ MaxDelay \in Nat
      /\ \A f \in MasterFacts : age[f] \in Nat
  BY <1>0, FactsNamed DEF SessionsTyping, SignIn, Claims, Session!SessionsAssumption, MasterFacts
<1>4. CASE Session!GetUser
  <2>1. /\ login' = [at |-> "generate", elapsed |-> 0, is_master |-> "is_master" \in facts]
        /\ "ACTIVE" \in facts /\ token' = token
    BY <1>4 DEF Session!GetUser, Session!NoLogin
  <2>2. 0 \in 0 .. MaxDelay
    BY <1>3
  <2>3. SessionsTyping'
    BY <1>0, <1>1, <2>1, <2>2 DEF SessionsTyping, SignIn
  <2>4. LoginIsRecent'
    <3>1. SUFFICES ASSUME login'.is_master, NEW f \in MasterFacts
                   PROVE  age'[f] =< login'.elapsed
      BY DEF LoginIsRecent
    <3>2. f \in facts
      BY <2>1, <3>1 DEF MasterFacts
    <3>3. QED
      BY <1>0, <1>1, <2>1, <3>2 DEF HeldAreYoung
  <2>5. TokenIsRecent'
    BY <1>0, <1>1, <2>1 DEF TokenIsRecent
  <2>6. QED
    BY <1>2, <2>3, <2>4, <2>5 DEF SessionsInv
<1>5. CASE Session!GenerateToken
  <2>1. /\ login.at = "generate"
        /\ token' = [life |-> Expiry, is_master |-> login.is_master]
        /\ login' = [at |-> "idle", elapsed |-> 0, is_master |-> FALSE]
    BY <1>5 DEF Session!GenerateToken, Session!NoLogin
  <2>2. 0 \in 0 .. MaxDelay
    BY <1>3
  <2>3. SessionsTyping'
    BY <1>0, <1>1, <1>3, <2>1, <2>2 DEF SessionsTyping, SignIn, Claims
  <2>4. LoginIsRecent'
    BY <2>1 DEF LoginIsRecent
  <2>5. login.is_master => \A f \in MasterFacts : age[f] =< MaxDelay
    BY <1>0, <1>3, <2>1 DEF LoginIsRecent
  <2>6. TokenIsRecent'
    BY <1>1, <1>3, <2>1, <2>5 DEF TokenIsRecent
  <2>7. QED
    BY <1>2, <2>3, <2>4, <2>6 DEF SessionsInv
<1>6. CASE Session!AbandonLogin
  <2>1. /\ login' = [at |-> "idle", elapsed |-> 0, is_master |-> FALSE]
        /\ token' = token
    BY <1>6 DEF Session!AbandonLogin, Session!NoLogin
  <2>2. 0 \in 0 .. MaxDelay
    BY <1>3
  <2>3. SessionsTyping'
    BY <1>0, <1>1, <2>1, <2>2 DEF SessionsTyping, SignIn
  <2>4. LoginIsRecent' /\ TokenIsRecent'
    BY <1>0, <1>1, <2>1 DEF LoginIsRecent, TokenIsRecent
  <2>5. QED
    BY <1>2, <2>3, <2>4 DEF SessionsInv
<1>7. QED
  BY <1>4, <1>5, <1>6

(* A step of the request alone needs to keep what is said of the request.  *)
LEMMA RequestMoves ==
  ASSUME SessionsInv, UNCHANGED <<facts, age, login, token>>,
         request' \in Call,
         MasterIsRecent', GuardsHeld', OthersAreShownRightly'
  PROVE  SessionsInv'
<1>1. SessionsTyping /\ HeldAreYoung /\ LoginIsRecent /\ TokenIsRecent
  BY DEF SessionsInv
<1>2. SessionsTyping' /\ HeldAreYoung' /\ LoginIsRecent' /\ TokenIsRecent'
  BY <1>1 DEF SessionsTyping, HeldAreYoung, LoginIsRecent, TokenIsRecent
<1>3. QED
  BY <1>2 DEF SessionsInv

(* A request that comes to its end says nothing any more.                  *)
LEMMA RefuseKeeps ==
  ASSUME SessionsInv, UNCHANGED <<facts, age, login, token>>, Session!Refuse
  PROVE  SessionsInv'
<1>1. request' = [at |-> "idle", elapsed |-> 0, is_master |-> FALSE, asks |-> <<>>,
                  left |-> <<>>, shown |-> {}]
  BY DEF Session!Refuse, Session!NoRequest
<1>2. MasterIsRecent' /\ GuardsHeld' /\ OthersAreShownRightly'
  BY <1>1 DEF MasterIsRecent, GuardsHeld, OthersAreShownRightly
<1>3. request' \in Call
  BY <1>1 DEF Call
<1>4. QED
  BY <1>2, <1>3, RequestMoves

(* JWTAuth admits by a token that has not expired.                         *)
LEMMA JWTAuthKeeps ==
  ASSUME Session!SessionsAssumption, SessionsInv, NEW guards \in Session!Guards,
         Session!JWTAuth(guards)
  PROVE  SessionsInv'
<1>0. SessionsTyping /\ TokenIsRecent
  BY DEF SessionsInv
<1>1. /\ token.life > 0
      /\ request' = [at |-> "guard", elapsed |-> 0, is_master |-> token.is_master,
                     asks |-> guards, left |-> guards, shown |-> {}]
      /\ UNCHANGED <<facts, age, login, token>>
  BY DEF Session!JWTAuth, Session!ValidateToken, Session!NoRequest
<1>2. /\ token.life \in Nat /\ Expiry \in Nat /\ MaxDelay \in Nat
      /\ \A f \in MasterFacts : age[f] \in Nat
      /\ token.is_master \in BOOLEAN
  BY <1>0, FactsNamed DEF SessionsTyping, Claims, Session!SessionsAssumption, MasterFacts
<1>3. token.is_master => \A f \in MasterFacts : age[f] =< MaxDelay + Expiry + 0
  BY <1>0, <1>1, <1>2 DEF TokenIsRecent
<1>4. MasterIsRecent'
  BY <1>1, <1>3 DEF MasterIsRecent
<1>5. GuardsHeld' /\ OthersAreShownRightly'
  BY <1>1 DEF GuardsHeld, OthersAreShownRightly
<1>6. request' \in Call
  BY <1>1, <1>2 DEF Call
<1>7. QED
  BY <1>1, <1>4, <1>5, <1>6, RequestMoves

(* What the resolver answers, it says was so within the time to live.      *)
LEMMA AnswersAreHeld ==
  ASSUME NEW answer \in Session!Answers, NEW p \in answer.held
  PROVE  Held("ACTIVE") /\ Held(p)
<1>1. CASE Session!IsFresh("ACTIVE")
  <2>1. \/ answer = [known |-> FALSE, held |-> {}]
        \/ answer \in [known : {TRUE},
                       held : SUBSET {q \in Session!Permissions : Session!IsFresh(q)}]
    BY <1>1 DEF Session!Answers
  <2>2. answer # [known |-> FALSE, held |-> {}]
    OBVIOUS
  <2> DEFINE fresh == {q \in Session!Permissions : Session!IsFresh(q)}
  <2> HIDE DEF fresh
  <2>3. answer \in [known : {TRUE}, held : SUBSET fresh]
    BY <2>1, <2>2 DEF fresh
  <2>4. answer.held \subseteq fresh
    BY <2>3
  <2>5. Session!IsFresh(p)
    BY <2>4 DEF fresh
  <2>6. QED
    BY <1>1, <2>5 DEF Held, Session!IsFresh
<1>2. CASE ~Session!IsFresh("ACTIVE")
  <2>1. answer = [known |-> FALSE, held |-> {}]
    BY <1>2 DEF Session!Answers
  <2>2. QED
    BY <2>1
<1>3. QED
  BY <1>1, <1>2

(* Require passes over one permission, refuses, or is done.                *)
LEMMA RequireKeeps ==
  ASSUME SessionsInv, Session!Require
  PROVE  SessionsInv'
<1>0. SessionsTyping /\ MasterIsRecent /\ GuardsHeld
  BY DEF SessionsInv
<1>1. request.at = "guard" /\ UNCHANGED <<facts, age, login, token>>
  BY DEF Session!Require
<1>2. CASE request.left = <<>>
  <2>1. request' = [request EXCEPT !.at = "handler"]
    BY <1>2 DEF Session!Require
  <2>2. /\ request'.at = "handler" /\ request'.elapsed = request.elapsed
        /\ request'.is_master = request.is_master /\ request'.asks = request.asks
        /\ request'.left = request.left
        /\ request' \in Call
    BY <1>0, <2>1 DEF SessionsTyping, Call
  <2>3. MasterIsRecent' /\ OthersAreShownRightly'
    BY <1>0, <1>1, <2>2 DEF MasterIsRecent, OthersAreShownRightly
  <2>4. GuardsHeld'
    BY <1>0, <1>1, <1>2, <2>2 DEF GuardsHeld, Held
  <2>5. QED
    BY <1>1, <2>2, <2>3, <2>4, RequestMoves
<1>3. CASE request.left # <<>> /\ Session!Refuse
  BY <1>1, <1>3, RefuseKeeps
<1>4. CASE /\ request.left # <<>>
           /\ TRUE \in Session!Passes(Head(request.left))
           /\ request' = [request EXCEPT !.left = Tail(request.left)]
  <2> DEFINE head == Head(request.left)
  <2>1. ~request.is_master => Held("ACTIVE") /\ Held(head)
    <3>1. SUFFICES ASSUME ~request.is_master PROVE Held("ACTIVE") /\ Held(head)
      OBVIOUS
    <3>2. TRUE \in {(head \in answer.held) : answer \in Session!Answers}
      BY <1>4, <3>1 DEF Session!Passes, Session!Grants
    <3>3. PICK answer \in Session!Answers : head \in answer.held
      BY <3>2
    <3>4. QED
      BY <3>3, AnswersAreHeld
  <2> HIDE DEF head
  <2>2. request.asks \in Session!Guards
    BY <1>0, <1>1 DEF GuardsHeld
  <2>3. \/ request.left = <<"request:read">> /\ head = "request:read"
           /\ Tail(request.left) = <<>>
        \/ request.left = <<"request:create">> /\ head = "request:create"
           /\ Tail(request.left) = <<>>
        \/ request.left = <<"request:read", "request:create">> /\ head = "request:read"
           /\ Tail(request.left) = <<"request:create">>
    <3>1. request.left \in {<<"request:read">>, <<"request:create">>,
                            <<"request:read", "request:create">>}
      BY <1>0, <1>4, FactsNamed DEF SessionsTyping, Call
    <3>2. CASE request.left = <<"request:read">>
      BY <3>2 DEF head
    <3>3. CASE request.left = <<"request:create">>
      BY <3>3 DEF head
    <3>4. CASE request.left = <<"request:read", "request:create">>
      BY <3>4 DEF head
    <3>5. QED
      BY <3>1, <3>2, <3>3, <3>4
  <2>4. /\ request'.at = request.at /\ request'.elapsed = request.elapsed
        /\ request'.is_master = request.is_master /\ request'.asks = request.asks
        /\ request'.left = Tail(request.left) /\ request'.shown = request.shown
    BY <1>0, <1>4 DEF SessionsTyping
  <2>5. Tail(request.left) \in {<<>>, <<Session!Create>>} \cup Session!Guards
    BY <2>3, FactsNamed
  <2>6. request' \in Call
    BY <1>0, <1>4, <2>5 DEF SessionsTyping, Call
  <2>7. MasterIsRecent' /\ OthersAreShownRightly'
    BY <1>0, <1>1, <2>4 DEF MasterIsRecent, OthersAreShownRightly
  <2>8. \A f : Held(f) => Held(f)'
    BY <1>1, <2>4 DEF Held
  <2>9. ~request.is_master =>
          \/ /\ request.asks = <<Session!Read, Session!Create>>
             /\ Tail(request.left) = <<Session!Create>>
             /\ Held("ACTIVE") /\ Held(Session!Read)
          \/ /\ Tail(request.left) = <<>>
             /\ Held("ACTIVE")
             /\ \A i \in DOMAIN request.asks : Held(request.asks[i])
    <3>1. SUFFICES ASSUME ~request.is_master
                   PROVE  \/ /\ request.asks = <<Session!Read, Session!Create>>
                             /\ Tail(request.left) = <<Session!Create>>
                             /\ Held("ACTIVE") /\ Held(Session!Read)
                          \/ /\ Tail(request.left) = <<>>
                             /\ Held("ACTIVE")
                             /\ \A i \in DOMAIN request.asks : Held(request.asks[i])
      OBVIOUS
    <3>2. \/ request.left = request.asks
          \/ /\ request.asks = <<Session!Read, Session!Create>>
             /\ request.left = <<Session!Create>>
             /\ Held("ACTIVE") /\ Held(Session!Read)
      BY <1>0, <1>1, <1>4, <3>1 DEF GuardsHeld
    <3>3. Held("ACTIVE") /\ Held(head)
      BY <2>1, <3>1
    <3>4. /\ Session!Read = "request:read" /\ Session!Create = "request:create"
          /\ request.asks \in {<<"request:read">>, <<"request:read", "request:create">>}
      BY <2>2, FactsNamed
    <3>5. CASE request.asks = <<"request:read">>
      BY <2>3, <3>2, <3>3, <3>4, <3>5
    <3>6. CASE request.asks = <<"request:read", "request:create">>
      BY <2>3, <3>2, <3>3, <3>4, <3>6
    <3>7. QED
      BY <3>4, <3>5, <3>6
  <2>10. GuardsHeld'
    BY <1>1, <2>2, <2>4, <2>8, <2>9 DEF GuardsHeld
  <2>11. QED
    BY <1>1, <2>6, <2>7, <2>10, RequestMoves
<1>5. QED
  BY <1>2, <1>3, <1>4 DEF Session!Require

(* What is shown depends on what the viewer may see.                       *)
LEMMA ShowKeeps ==
  ASSUME SessionsInv, NEW viewer \in Session!Viewers, NEW shown \in SUBSET Requests,
         UNCHANGED <<facts, age, login, token>>, request.at = "handler",
         request' = [request EXCEPT !.at = "served", !.shown = shown],
         ~viewer.canReadAll => \A r \in shown : Submitted[r]
  PROVE  SessionsInv'
<1>0. SessionsTyping /\ MasterIsRecent /\ GuardsHeld
  BY DEF SessionsInv
<1>1. /\ request'.at = "served" /\ request'.elapsed = request.elapsed
      /\ request'.is_master = request.is_master /\ request'.asks = request.asks
      /\ request'.left = request.left /\ request'.shown = shown
      /\ request' \in Call
  BY <1>0 DEF SessionsTyping, Call
<1>2. MasterIsRecent'
  BY <1>0, <1>1 DEF MasterIsRecent
<1>3. GuardsHeld'
  BY <1>0, <1>1 DEF GuardsHeld, Held
<1>4. ~request.is_master /\ viewer.canReadAll => Held(Session!ReadAll)
  <2>1. PICK answer \in Session!Answers :
          viewer.canReadAll = (request.is_master \/ Session!ReadAll \in answer.held)
    BY DEF Session!Viewers
  <2>2. QED
    BY <2>1, AnswersAreHeld
<1>5. OthersAreShownRightly'
  BY <1>1, <1>4 DEF OthersAreShownRightly, Held
<1>6. QED
  BY <1>1, <1>2, <1>3, <1>5, RequestMoves

(* Every step keeps the invariant.                                         *)
LEMMA NextSessions ==
  ASSUME Session!SessionsAssumption, SessionsInv, [Session!Next]_(Session!vars)
  PROVE  SessionsInv'
<1>1. CASE Session!List
  <2>1. PICK viewer \in Session!Viewers :
          request' = [request EXCEPT !.at = "served", !.shown = Session!Listed(viewer)]
    BY <1>1 DEF Session!List
  <2>2. Session!Listed(viewer) \in SUBSET Requests
    BY DEF Session!Listed, Session!Selected
  <2>3. ~viewer.canReadAll => \A r \in Session!Listed(viewer) : Submitted[r]
    BY DEF Session!Listed, Session!Selected
  <2>4. request.at = "handler" /\ UNCHANGED <<facts, age, login, token>>
    BY <1>1 DEF Session!List
  <2>5. QED
    BY <2>1, <2>2, <2>3, <2>4, ShowKeeps
<1>2. ASSUME NEW r \in Requests, Session!Detail(r)
      PROVE  SessionsInv'
  <2>1. PICK viewer \in Session!Viewers :
          request' = [request EXCEPT !.at = "served",
                        !.shown = IF Session!canSee(viewer, r) THEN {r} ELSE {}]
    BY <1>2 DEF Session!Detail
  <2>2. ~viewer.canReadAll =>
          \A q \in IF Session!canSee(viewer, r) THEN {r} ELSE {} : Submitted[q]
    BY DEF Session!canSee
  <2>3. request.at = "handler" /\ UNCHANGED <<facts, age, login, token>>
    BY <1>2 DEF Session!Detail
  <2>4. (IF Session!canSee(viewer, r) THEN {r} ELSE {}) \in SUBSET Requests
    OBVIOUS
  <2>5. QED
    BY <2>1, <2>2, <2>3, <2>4, ShowKeeps
<1>3. CASE Session!Return
  BY <1>3, RefuseKeeps DEF Session!Return
<1>4. CASE UNCHANGED Session!vars
  BY <1>4
  DEF Session!vars, SessionsInv, SessionsTyping, HeldAreYoung, LoginIsRecent, TokenIsRecent,
      MasterIsRecent, GuardsHeld, OthersAreShownRightly, Held
<1>5. QED
  BY <1>1, <1>2, <1>3, <1>4, AdministerKeeps, TickKeeps, LoginKeeps, JWTAuthKeeps, RequireKeeps
  DEF Session!Next

(* The invariant holds in every state.                                     *)
LEMMA SessionsInvariance ==
  ASSUME Session!SessionsAssumption
  PROVE  Session!Spec => []SessionsInv
<1>1. Session!Init => SessionsInv
  BY InitSessions
<1>2. SessionsInv /\ [Session!Next]_(Session!vars) => SessionsInv'
  BY NextSessions
<1>3. QED
  BY <1>1, <1>2, PTL DEF Session!Spec

(* So a change of role applies, of the sessions by themselves.             *)
LEMMA RoleChangesApplyByItself ==
  ASSUME Session!SessionsAssumption
  PROVE  Session!Spec => []Session!RoleChangesApply
<1>1. SessionsInv => Session!RoleChangesApply
  BY SessionsInvImplies
<1>2. QED
  BY <1>1, SessionsInvariance, PTL

(* And a master's rights end.                                              *)
LEMMA MastersEndByItself ==
  ASSUME Session!SessionsAssumption
  PROVE  Session!Spec => []Session!MastersEnd
<1>1. SessionsInv => Session!MastersEnd
  BY SessionsInvImplies
<1>2. QED
  BY <1>1, SessionsInvariance, PTL

(* And requests are shown to those they belong to.                         *)
LEMMA ShownIsTheirsByItself ==
  ASSUME Session!SessionsAssumption
  PROVE  Session!Spec => []Session!ShownIsTheirs
<1>1. SessionsInv => Session!ShownIsTheirs
  BY SessionsInvImplies
<1>2. QED
  BY <1>1, SessionsInvariance, PTL

---------------------------------------------------------------------------
(* One request from the form to its asset data.                            *)

(* What the form asks of a submission, all of it.                          *)
IsRight(in, data) ==
  /\ in.category \in Desk!requestCategories
  /\ (in.distributor = "") # (in.distributorManual = "")
  /\ in.distributorManual # TooLong
  /\ in.distributor # "" => Desk!ChosenDistributor(in, data) # {}
  /\ Desk!Cardinality(Desk!MatchingOutlets(in, data)) = 1
  /\ in.salesDivision \in data.divisions
  /\ in.category = "Android" => in.reqType \in Desk!requestTypes
  /\ in.category \in Desk!requestCategories
       => in.requesterRole \in Desk!requesterRolesByCategory[in.category]
  /\ in.requesterName # ""
  /\ in.category = "Barcode"
       => Desk!BreakdownIsValid(in.breakdown) /\ Desk!Total(in.breakdown) > 0
  /\ Desk!QuantityIsRight(in)
  /\ in.priority \in Desk!requestPriorities \cup {""}

(* A row is what an accepted submission leaves, for whom it names.         *)
RowIsAccepted ==
  \E in \in Inputs, submitter \in Submitters :
    /\ Desk!WrongField(in, master) = ""
    /\ row = Desk!Normalised(in, master, Desk!ResolveRequester(in.requesterName, submitter))

(* What is told of the row when what it refers to holds these names.       *)
Told(names) == Desk!Registration(Desk!ResentInput(row, names), names)

(* The engine was told what the row says.                                  *)
EngineWasTold == sent = [told |-> Told(Desk!Joined(row)), when |-> Desk!Joined(row)]

(* And so it was by the last retry, with the names there were then.        *)
RetryTold == resent = Desk!Unsent \/ resent = [told |-> Told(resent.when), when |-> resent.when]

(* The asset data recorded was found right for what the category was then  *)
(* called.                                                                 *)
AssetFits ==
  \E data \in AssetData : \E category :
    Desk!IsValid(category, row.qty, data) /\ asset = Desk!Stored(category, data)

DeskInv ==
  /\ stage \in {"form", "refused", "registered", "approved", "recorded"}
  /\ master \in MasterData
  /\ stage \in {"form", "refused"} => sent = Desk!Unsent /\ resent = Desk!Unsent
  /\ stage \notin {"form", "refused"} => RowIsAccepted /\ EngineWasTold /\ RetryTold
  /\ stage = "recorded" => AssetFits

(* The desk counts as everybody does.                                      *)
LEMMA DeskCounts ==
  ASSUME NEW S
  PROVE  Desk!Cardinality(S) = Cardinality(S)
BY DEF Desk!Cardinality, Cardinality

(* A set of numbers has a smallest one.                                    *)
LEMMA MinIsIn ==
  ASSUME NEW I \in SUBSET Nat, I # {}
  PROVE  Desk!Min(I) \in I
<1>1. PICK x \in I : \A y \in I : ~(<<y, x>> \in OpToRel(<, Nat))
  BY NatLessThanWellFounded, WFMin
<1>2. \A y \in I : <<y, x>> \in Nat \X Nat
  OBVIOUS
<1>3. OpToRel(<, Nat) = {ss \in Nat \X Nat : ss[1] < ss[2]}
  BY DEF OpToRel
<1>4. \A y \in I : ~(y < x)
  BY <1>1, <1>2, <1>3
<1>5. \A y \in I : x =< y
  BY <1>4
<1>6. QED
  BY <1>5 DEF Desk!Min

(* The first of the positions in a sequence is one of them.                *)
LEMMA FirstIsIn ==
  ASSUME NEW n \in Nat, NEW I, I \subseteq 1 .. n, I # {}
  PROVE  Desk!Min(I) \in I /\ Desk!Min(I) \in 1 .. n /\ Desk!Min(I) # 0
<1>1. I \in SUBSET Nat
  OBVIOUS
<1>2. Desk!Min(I) \in I
  BY <1>1, MinIsIn
<1>3. \A x \in 1 .. n : x # 0
  OBVIOUS
<1>4. QED
  BY <1>2, <1>3, Zenon

(* A sequence that names nothing twice names as many things as it is long. *)
LEMMA CountOfInjective ==
  ASSUME NEW n \in Nat, NEW s, DOMAIN s = 1 .. n, Desk!IsInjective(s)
  PROVE  Cardinality(Desk!Range(s)) = n
<1> DEFINE T == Desk!Range(s)
           f == [i \in 1 .. n |-> s[i]]
<1>1. T = {s[i] : i \in 1 .. n}
  BY DEF Desk!Range
<1>2. \A i, j \in 1 .. n : s[i] = s[j] => i = j
  BY DEF Desk!IsInjective
<1> HIDE DEF T
<1>3. f \in Bijection(1 .. n, T)
  <2>1. f \in [1 .. n -> T] /\ \A t \in T : \E i \in 1 .. n : f[i] = t
    BY <1>1
  <2>2. \A i, j \in 1 .. n : f[i] = f[j] => i = j
    BY <1>2
  <2>3. QED
    BY <2>1, <2>2 DEF Bijection, Injection, Surjection, IsInjective
<1>4. ExistsBijection(1 .. n, T)
  BY <1>3 DEF ExistsBijection
<1>5. IsFiniteSet(1 .. n) /\ Cardinality(1 .. n) = n
  <2>1. 1 \in Int /\ n \in Int
    OBVIOUS
  <2>2. IsFiniteSet(1 .. n) /\ Cardinality(1 .. n) = IF 1 > n THEN 0 ELSE n - 1 + 1
    BY <2>1, FS_Interval
  <2>3. QED
    BY <2>2
<1>6. Cardinality(T) = n
  BY <1>4, <1>5, FS_Bijection
<1>7. QED
  BY <1>6 DEF T

(* validateCreate accepts what passes each of its checks.                  *)
LEMMA AcceptedIsRight ==
  ASSUME NEW in, NEW data
  PROVE  Desk!WrongField(in, data) = "" <=> IsRight(in, data)
<1> DEFINE barcode == in.category = "Barcode"
           c1 == Desk!Check("category", in.category \in Desk!requestCategories)
           c2 == Desk!Check("distributor", (in.distributor = "") # (in.distributorManual = ""))
           c3 == Desk!Check("distributorManual", in.distributorManual # TooLong)
           c4 == Desk!Check("distributor",
                   in.distributor # "" => Desk!ChosenDistributor(in, data) # {})
           c5 == Desk!Check("outlet", Desk!Cardinality(Desk!MatchingOutlets(in, data)) = 1)
           c6 == Desk!Check("salesDivision", in.salesDivision \in data.divisions)
           c7 == Desk!Check("reqType", in.category = "Android" => in.reqType \in Desk!requestTypes)
           c8 == Desk!Check("requesterRole",
                   in.category \in Desk!requestCategories
                     => in.requesterRole \in Desk!requesterRolesByCategory[in.category])
           c9 == Desk!Check("requesterName", in.requesterName # "")
           c10 == Desk!Check("breakdown",
                    barcode => Desk!BreakdownIsValid(in.breakdown)
                                 /\ Desk!Total(in.breakdown) > 0)
           c11 == Desk!Check("qty", Desk!QuantityIsRight(in))
           c12 == Desk!Check("priority", in.priority \in Desk!requestPriorities \cup {""})
           checks == Desk!Checks(in, data)
           wrong == {i \in 1 .. Len(checks) : ~checks[i].ok}
           first == IF wrong # {} THEN Desk!Min(wrong) ELSE 0
<1>1. checks = <<c1, c2, c3, c4, c5, c6, c7, c8, c9, c10, c11, c12>>
  BY DEF Desk!Checks
<1>2. /\ c1.field # "" /\ c2.field # "" /\ c3.field # "" /\ c4.field # "" /\ c5.field # ""
      /\ c6.field # "" /\ c7.field # "" /\ c8.field # "" /\ c9.field # "" /\ c10.field # ""
      /\ c11.field # "" /\ c12.field # ""
  BY DEF Desk!Check
<1>3. IsRight(in, data) <=>
        /\ c1.ok /\ c2.ok /\ c3.ok /\ c4.ok /\ c5.ok /\ c6.ok
        /\ c7.ok /\ c8.ok /\ c9.ok /\ c10.ok /\ c11.ok /\ c12.ok
  BY DEF IsRight, Desk!Check
<1>4. Desk!WrongField(in, data) = IF first = 0 THEN "" ELSE checks[first].field
  BY DEF Desk!WrongField, Desk!SelectInSeq
<1> HIDE DEF checks, c1, c2, c3, c4, c5, c6, c7, c8, c9, c10, c11, c12
<1>5. /\ Len(checks) = 12
      /\ \A i \in 1 .. 12 : checks[i].field # ""
      /\ IsRight(in, data) <=> \A i \in 1 .. 12 : checks[i].ok
  <2>0. Len(checks) = 12
    BY <1>1
  <2>1. /\ checks[1] = c1 /\ checks[2] = c2 /\ checks[3] = c3 /\ checks[4] = c4
        /\ checks[5] = c5 /\ checks[6] = c6 /\ checks[7] = c7 /\ checks[8] = c8
        /\ checks[9] = c9 /\ checks[10] = c10 /\ checks[11] = c11 /\ checks[12] = c12
    BY <1>1
  <2>2. \A i \in 1 .. 12 :
          \/ i = 1 \/ i = 2 \/ i = 3 \/ i = 4 \/ i = 5 \/ i = 6
          \/ i = 7 \/ i = 8 \/ i = 9 \/ i = 10 \/ i = 11 \/ i = 12
    OBVIOUS
  <2>3. /\ 1 \in 1 .. 12 /\ 2 \in 1 .. 12 /\ 3 \in 1 .. 12 /\ 4 \in 1 .. 12 /\ 5 \in 1 .. 12
        /\ 6 \in 1 .. 12 /\ 7 \in 1 .. 12 /\ 8 \in 1 .. 12 /\ 9 \in 1 .. 12 /\ 10 \in 1 .. 12
        /\ 11 \in 1 .. 12 /\ 12 \in 1 .. 12
    OBVIOUS
  <2>4. \A i \in 1 .. 12 : checks[i].field # ""
    BY <1>2, <2>1, <2>2
  <2>5. QED
    BY <1>3, <2>0, <2>1, <2>2, <2>3, <2>4
<1>7. wrong \subseteq 1 .. 12
  <2>1. wrong \subseteq 1 .. Len(checks)
    OBVIOUS
  <2>2. QED
    BY <1>5, <2>1
<1>8. wrong # {} => first \in 1 .. 12 /\ first # 0
  <2> HIDE DEF wrong
  <2>1. 12 \in Nat
    OBVIOUS
  <2>2. QED
    BY <1>7, <2>1, FirstIsIn
<1>9. Desk!WrongField(in, data) = "" <=> wrong = {}
  BY <1>4, <1>5, <1>8
<1>10. wrong = {} <=> \A i \in 1 .. 12 : checks[i].ok
  BY <1>5
<1>11. QED
  BY <1>5, <1>9, <1>10

(* The position of the first element of a name, as SelectInSeq finds it.   *)
Named(ds, key) == {i \in 1 .. Len(ds) : ds[i].name = key}

FirstOf(ds, key) == IF Named(ds, key) # {} THEN Desk!Min(Named(ds, key)) ELSE 0

(* It is one of them, or there is none.                                    *)
LEMMA FirstOfName ==
  ASSUME NEW n \in Nat, NEW ds, Len(ds) = n, NEW key
  PROVE  \/ FirstOf(ds, key) = 0 /\ \A i \in 1 .. n : ds[i].name # key
         \/ /\ FirstOf(ds, key) # 0 /\ FirstOf(ds, key) \in 1 .. n
            /\ ds[FirstOf(ds, key)].name = key
<1> DEFINE I == Named(ds, key)
           first == FirstOf(ds, key)
<1>1. I \subseteq 1 .. n /\ \A i \in 1 .. n : i \in I <=> ds[i].name = key
  BY DEF Named
<1>2. first = IF I # {} THEN Desk!Min(I) ELSE 0
  BY DEF FirstOf
<1> HIDE DEF I, first
<1>3. CASE I = {}
  BY <1>1, <1>2, <1>3 DEF first
<1>4. CASE I # {}
  <2>1. first \in I /\ first \in 1 .. n /\ first # 0
    BY <1>1, <1>2, <1>4, FirstIsIn
  <2>2. ds[first].name = key
    BY <1>1, <2>1
  <2>3. QED
    BY <2>1, <2>2 DEF first
<1>5. QED
  BY <1>3, <1>4

(* The distributor a submission chooses is the first in the list that      *)
(* bears the name.                                                         *)
LEMMA ChosenIsFirst ==
  ASSUME NEW in, NEW data, NEW n \in Nat, Len(data.distributors) = n,
         in.distributor # ""
  PROVE  \/ /\ Desk!ChosenDistributor(in, data) = {}
            /\ \A i \in 1 .. n : data.distributors[i].name # in.distributor
         \/ \E i \in 1 .. n :
              /\ data.distributors[i].name = in.distributor
              /\ Desk!ChosenDistributor(in, data) = {data.distributors[i]}
<1> DEFINE ds == data.distributors
           first == FirstOf(ds, in.distributor)
<1>1. Desk!ChosenDistributor(in, data) = IF first = 0 THEN {} ELSE {ds[first]}
  BY DEF Desk!ChosenDistributor, Desk!SelectInSeq, FirstOf, Named
<1>2. \/ first = 0 /\ \A i \in 1 .. n : ds[i].name # in.distributor
      \/ first # 0 /\ first \in 1 .. n /\ ds[first].name = in.distributor
  BY FirstOfName
<1> HIDE DEF first
<1>3. QED
  BY <1>1, <1>2

(* The person a name is found for bears it, and none does when none is     *)
(* found.                                                                  *)
LEMMA FirstNamedBearsIt ==
  ASSUME Desk!DeskAssumption, NEW name_
  PROVE  LET named == {i \in DOMAIN People : name_ \in {People[i].name, People[i].email}} IN
         IF named = {} THEN Desk!FirstNamed(name_) = 0
         ELSE Desk!FirstNamed(name_) # 0 /\ Desk!FirstNamed(name_) \in named
<1> DEFINE named == {i \in DOMAIN People : name_ \in {People[i].name, People[i].email}}
           I == {i \in 1 .. Len(People) : name_ \in {People[i].name, People[i].email}}
<1>1. DOMAIN People = 1 .. Len(People) /\ Len(People) \in Nat
  <2> DEFINE S == [employeeNo : Nat, name : STRING, email : STRING, rank : Nat]
  <2>1. People \in Seq(S)
    BY DEF Desk!DeskAssumption
  <2> HIDE DEF S
  <2>2. QED
    BY <2>1
<1>2. Desk!FirstNamed(name_) = IF I # {} THEN Desk!Min(I) ELSE 0
  BY DEF Desk!FirstNamed, Desk!SelectInSeq
<1>3. named = I /\ I \in SUBSET Nat /\ 0 \notin I
  BY <1>1
<1> HIDE DEF named, I
<1>4. QED
  BY <1>2, <1>3, MinIsIn DEF named

(* The positions of a sequence.                                            *)
LEMMA SeqShape ==
  ASSUME NEW S, NEW s \in Seq(S)
  PROVE  Len(s) \in Nat /\ DOMAIN s = 1 .. Len(s)
OBVIOUS

(* What the constants are, one by one.                                     *)
LEMMA DeskConstants ==
  ASSUME Desk!DeskAssumption
  PROVE  /\ \A data \in MasterData :
              /\ Len(data.distributors) \in Nat
              /\ DOMAIN data.distributors = 1 .. Len(data.distributors)
              /\ \A i \in DOMAIN data.distributors :
                   /\ data.distributors[i].name = DistributorName[data.distributors[i].id]
                   /\ data.distributors[i].name # ""
         /\ TooLong # ""
         /\ Inputs \subseteq Desk!Input /\ AssetData \subseteq Desk!Data
         /\ Counts \subseteq Nat
<1>1. ASSUME NEW data \in MasterData
      PROVE  /\ Len(data.distributors) \in Nat
             /\ DOMAIN data.distributors = 1 .. Len(data.distributors)
             /\ \A i \in DOMAIN data.distributors :
                  /\ data.distributors[i].name = DistributorName[data.distributors[i].id]
                  /\ data.distributors[i].name # ""
  <2> DEFINE S == [id : DOMAIN DistributorName, name : STRING, outlets : SUBSET DOMAIN OutletName]
  <2>1. /\ data.distributors \in Seq(S)
        /\ \A d \in Desk!ToSet(data.distributors) : d.name = DistributorName[d.id] /\ d.name # ""
    BY DEF Desk!DeskAssumption
  <2>2. /\ Len(data.distributors) \in Nat
        /\ DOMAIN data.distributors = 1 .. Len(data.distributors)
    BY <2>1, SeqShape
  <2>3. \A i \in DOMAIN data.distributors :
          data.distributors[i] \in Desk!ToSet(data.distributors)
    BY DEF Desk!ToSet
  <2>4. QED
    BY <2>1, <2>2, <2>3
<1>2. /\ TooLong # "" /\ Inputs \subseteq Desk!Input /\ AssetData \subseteq Desk!Data
      /\ Counts \subseteq Nat
  BY DEF Desk!DeskAssumption
<1>3. QED
  BY <1>1, <1>2

(* The distributor of an accepted submission, if it names one, is in the   *)
(* list under that name.                                                   *)
LEMMA ChosenIsListed ==
  ASSUME Desk!DeskAssumption, NEW data \in MasterData, NEW in, IsRight(in, data),
         in.distributor # ""
  PROVE  \E i \in DOMAIN data.distributors :
           /\ data.distributors[i].name = in.distributor
           /\ Desk!ChosenDistributor(in, data) = {data.distributors[i]}
<1>1. /\ Len(data.distributors) \in Nat
      /\ DOMAIN data.distributors = 1 .. Len(data.distributors)
  BY DeskConstants
<1>2. Desk!ChosenDistributor(in, data) # {}
  BY DEF IsRight
<1>3. QED
  BY <1>1, <1>2, ChosenIsFirst

(* An accepted submission has one outlet, one of those it may name.        *)
LEMMA OutletIsMatched ==
  ASSUME NEW data, NEW in, IsRight(in, data)
  PROVE  /\ Desk!MatchingOutlets(in, data) # {}
         /\ \A o \in Desk!MatchingOutlets(in, data) :
              o \in Desk!Candidates(in, data) /\ OutletName[o] = in.outlet
<1>1. Cardinality(Desk!MatchingOutlets(in, data)) = 1
  BY DeskCounts DEF IsRight
<1>2. Desk!MatchingOutlets(in, data) # {}
  BY <1>1, FS_EmptySet
<1>3. QED
  BY <1>2 DEF Desk!MatchingOutlets

(* What Create registers of a submission it stores.                        *)
Given(in, stored) ==
  [in EXCEPT !.reqType = stored.reqType, !.priority = stored.priority]

(* The row read back with the names it was made with says what the         *)
(* submission said.                                                        *)
LEMMA ResentIsTheSame ==
  ASSUME Desk!DeskAssumption, NEW data \in MasterData, NEW in \in Inputs,
         Desk!WrongField(in, data) = "", NEW i
  PROVE  LET stored == Desk!Normalised(in, data, i)
             names == Desk!Joined(stored)
         IN  Desk!Registration(Desk!ResentInput(stored, names), names)
               = Desk!Registration(Given(in, stored), People[i])
<1> DEFINE stored == Desk!Normalised(in, data, i)
           names == Desk!Joined(stored)
           given == Given(in, stored)
           again == Desk!ResentInput(stored, names)
<1>1. in \in Desk!Input /\ IsRight(in, data)
  BY DeskConstants, AcceptedIsRight
<1>2. /\ stored.requester = i /\ stored.category = in.category
      /\ stored.distributor = {d.id : d \in Desk!ChosenDistributor(in, data)}
      /\ stored.distributorManual = in.distributorManual
      /\ stored.outlet = Desk!MatchingOutlets(in, data)
      /\ stored.salesDivision = in.salesDivision
      /\ stored.requesterRole = in.requesterRole
      /\ stored.requesterName = in.requesterName
      /\ stored.qty = in.qty
  BY DEF Desk!Normalised
<1>3. /\ given.category = in.category /\ given.outlet = in.outlet
      /\ given.distributor = in.distributor
      /\ given.distributorManual = in.distributorManual
      /\ given.salesDivision = in.salesDivision /\ given.reqType = stored.reqType
      /\ given.requesterRole = in.requesterRole /\ given.requesterName = in.requesterName
      /\ given.qty = in.qty /\ given.priority = stored.priority
  BY <1>1 DEF Desk!Input, Given
<1> HIDE DEF stored
<1>4. /\ names.category = stored.category
      /\ names.outlet = OutletName[Desk!OneOf(stored.outlet)]
      /\ names.distributor = IF stored.distributor = {} THEN stored.distributorManual
                             ELSE DistributorName[Desk!OneOf(stored.distributor)]
      /\ names.employeeNo = People[stored.requester].employeeNo
      /\ names.name = People[stored.requester].name
      /\ names.email = People[stored.requester].email
      /\ names.rank = People[stored.requester].rank
  BY DEF Desk!Joined
<1> HIDE DEF given, names
<1>5. /\ again.category = names.category /\ again.outlet = names.outlet
      /\ again.distributor = names.distributor
      /\ again.distributorManual = ""
      /\ again.salesDivision = stored.salesDivision /\ again.reqType = stored.reqType
      /\ again.requesterRole = stored.requesterRole
      /\ again.requesterName = stored.requesterName
      /\ again.qty = stored.qty /\ again.priority = stored.priority
  BY DEF Desk!ResentInput, Desk!CreateRequestInput
<1> HIDE DEF again
<1>6. again.outlet = given.outlet
  <2>1. \A S : S # {} => Desk!OneOf(S) \in S
    BY DEF Desk!OneOf
  <2>2. /\ Desk!OneOf(stored.outlet) \in Desk!MatchingOutlets(in, data)
        /\ \A o \in Desk!MatchingOutlets(in, data) : OutletName[o] = in.outlet
    BY <1>1, <1>2, <2>1, OutletIsMatched
  <2>3. QED
    BY <1>3, <1>4, <1>5, <2>2
<1>7. Desk!distributorLabel(again) = Desk!distributorLabel(given)
  <2>1. Desk!distributorLabel(again) = names.distributor
    BY <1>5 DEF Desk!distributorLabel
  <2>2. CASE in.distributor = ""
    <3>1. stored.distributor = {}
      BY <1>2, <2>2 DEF Desk!ChosenDistributor
    <3>2. in.distributorManual # ""
      BY <1>1, <2>2 DEF IsRight
    <3>3. QED
      BY <1>2, <1>3, <1>4, <2>1, <3>1, <3>2 DEF Desk!distributorLabel
  <2>3. CASE in.distributor # ""
    <3>1. PICK k \in DOMAIN data.distributors :
            /\ data.distributors[k].name = in.distributor
            /\ Desk!ChosenDistributor(in, data) = {data.distributors[k]}
      BY <1>1, <2>3, ChosenIsListed
    <3>2. stored.distributor = {data.distributors[k].id}
      BY <1>2, <3>1
    <3>3. Desk!OneOf(stored.distributor) = data.distributors[k].id
      BY <3>2 DEF Desk!OneOf
    <3>4. DistributorName[data.distributors[k].id] = in.distributor
      BY <3>1, DeskConstants
    <3>5. in.distributorManual = ""
      BY <1>1, <2>3 DEF IsRight
    <3>6. names.distributor = in.distributor
      BY <1>4, <3>2, <3>3, <3>4
    <3>7. QED
      BY <1>3, <2>1, <3>5, <3>6 DEF Desk!distributorLabel
  <2>4. QED
    BY <2>2, <2>3
<1>8. Desk!standsIn(again.requesterName, names) = Desk!standsIn(given.requesterName, People[i])
  BY <1>2, <1>3, <1>4, <1>5 DEF Desk!standsIn
<1>9. Desk!Registration(again, names) = Desk!Registration(given, People[i])
  BY <1>2, <1>3, <1>4, <1>5, <1>6, <1>7, <1>8 DEF Desk!Registration
<1>10. QED
  BY <1>9 DEF stored, names, given, again

(* Every step keeps the invariant.                                         *)
LEMMA NextDesk ==
  ASSUME Desk!DeskAssumption, DeskInv, [Desk!Next]_(Desk!vars)
  PROVE  DeskInv'
<1>1. ASSUME NEW in \in Inputs, NEW submitter \in Submitters, stage = "form",
             Desk!Create(in, submitter)
      PROVE  DeskInv'
  <2> DEFINE i == Desk!ResolveRequester(in.requesterName, submitter)
             stored == Desk!Normalised(in, master, i)
             given == Given(in, stored)
  <2>1. /\ master' = master /\ asset' = asset /\ resent' = resent /\ master \in MasterData
        /\ sent = Desk!Unsent /\ resent = Desk!Unsent
    BY <1>1 DEF Desk!Create, DeskInv
  <2>2. CASE stage' = "refused" /\ UNCHANGED <<row, joined, sent>>
    BY <2>1, <2>2 DEF DeskInv, Desk!Unsent
  <2>3. CASE /\ Desk!WrongField(in, master) = "" /\ stage' = "registered" /\ row' = stored
             /\ sent' = [told |-> Desk!Registration(given, People[i]),
                         when |-> Desk!Joined(stored)]
    <3>1. RowIsAccepted'
      BY <2>1, <2>3 DEF RowIsAccepted
    <3>2. master \in MasterData /\ Desk!WrongField(in, master) = ""
      BY <2>1, <2>3
    <3> HIDE DEF i
    <3>3. Desk!Registration(Desk!ResentInput(stored, Desk!Joined(stored)), Desk!Joined(stored))
            = Desk!Registration(given, People[i])
      BY <3>2, ResentIsTheSame, Zenon
    <3> HIDE DEF stored, given
    <3>4. EngineWasTold'
      BY <2>3, <3>3 DEF EngineWasTold, Told
    <3>5. RetryTold'
      BY <2>1 DEF RetryTold, Desk!Unsent
    <3>6. QED
      BY <2>1, <2>3, <3>1, <3>4, <3>5 DEF DeskInv
  <2>4. QED
    BY <1>1, <2>2, <2>3 DEF Desk!Create, Given
<1>2. CASE Desk!Retry
  <2>1. /\ stage = "registered" /\ UNCHANGED <<stage, master, row, sent, asset>>
        /\ resent' = [told |-> Told(joined), when |-> joined]
    BY <1>2 DEF Desk!Retry, Told
  <2>2. RowIsAccepted' /\ EngineWasTold'
    BY <2>1 DEF DeskInv, RowIsAccepted, EngineWasTold, Told
  <2>3. RetryTold'
    BY <2>1 DEF RetryTold, Told
  <2>4. QED
    BY <2>1, <2>2, <2>3 DEF DeskInv
<1>3. ASSUME stage \in {"registered", "approved"},
             stage' \in {"registered", "approved", "recorded"},
             stage' = "recorded" => AssetFits',
             UNCHANGED <<master, row, sent, resent>>
      PROVE  DeskInv'
  <2>1. RowIsAccepted' /\ EngineWasTold' /\ RetryTold'
    BY <1>3 DEF DeskInv, RowIsAccepted, EngineWasTold, RetryTold, Told, Desk!Unsent
  <2>2. QED
    BY <1>3, <2>1 DEF DeskInv
<1>4. CASE Desk!Approved
  BY <1>3, <1>4 DEF Desk!Approved
<1>5. ASSUME NEW data \in AssetData, Desk!SaveFulfillmentData(data)
      PROVE  DeskInv'
  <2>1. /\ stage = "approved" /\ stage' = "recorded" /\ UNCHANGED <<master, row, sent, resent>>
        /\ Desk!IsValid(joined.category, row.qty, data)
        /\ asset' = Desk!Stored(joined.category, data)
    BY <1>5 DEF Desk!SaveFulfillmentData
  <2>2. AssetFits'
    BY <2>1 DEF AssetFits
  <2>3. QED
    BY <1>3, <2>1, <2>2
<1>6. ASSUME NEW names, Desk!Edit(names)
      PROVE  DeskInv'
  BY <1>3, <1>6 DEF Desk!Edit
<1>7. CASE \/ \E code \in Later.category : Desk!UpdateAssetType(code)
           \/ \E outlet \in Later.outlet : Desk!UpdateOutlet(outlet)
           \/ \E distributor \in Later.distributor : Desk!UpdateDistributor(distributor)
           \/ \E person \in Later.person : Desk!UpdateUser(person)
  BY <1>6, <1>7
  DEF Desk!UpdateAssetType, Desk!UpdateOutlet, Desk!UpdateDistributor, Desk!UpdateUser
<1>8. CASE UNCHANGED Desk!vars
  BY <1>8 DEF Desk!vars, DeskInv, RowIsAccepted, EngineWasTold, RetryTold, Told, AssetFits,
    Desk!Unsent
<1>9. QED
  BY <1>1, <1>2, <1>4, <1>5, <1>7, <1>8 DEF Desk!Next

(* The invariant holds in every state.                                     *)
LEMMA DeskInvariance ==
  ASSUME Desk!DeskAssumption
  PROVE  Desk!Spec => []DeskInv
<1>1. Desk!Init => DeskInv
  BY DEF Desk!Init, DeskInv
<1>2. DeskInv /\ [Desk!Next]_(Desk!vars) => DeskInv'
  BY NextDesk
<1>3. QED
  BY <1>1, <1>2, PTL DEF Desk!Spec

(* A number above zero is one at least.                                    *)
LEMMA PositiveIsOne == \A n \in Nat : n > 0 => n >= 1
  OBVIOUS

(* A registration, field by field.                                         *)
HasFields(t, in, requester) ==
  /\ DOMAIN t
       = {"docType", "resourceRequester", "requesterApprovalRank", "category", "outlet",
          "distributor", "salesDivision", "reqType", "requesterRole", "qty", "priority",
          "remark"}
  /\ t.docType = Desk!DocType(in.category)
  /\ t.resourceRequester = requester.employeeNo
  /\ t.requesterApprovalRank = requester.rank
  /\ t.category = in.category /\ t.outlet = in.outlet
  /\ t.distributor = Desk!distributorLabel(in)
  /\ t.salesDivision = in.salesDivision /\ t.reqType = in.reqType
  /\ t.requesterRole = in.requesterRole
  /\ t.qty = in.qty /\ t.priority = in.priority
  /\ t.remark = IF Desk!standsIn(in.requesterName, requester) THEN in.requesterName ELSE ""

(* A registration has these fields.                                        *)
LEMMA RegistrationFields ==
  ASSUME NEW in, NEW requester
  PROVE  HasFields(Desk!Registration(in, requester), in, requester)
<1> DEFINE t == Desk!Registration(in, requester)
<1> DEFINE docType == Desk!DocType(in.category)
           label == Desk!distributorLabel(in)
           remark == IF Desk!standsIn(in.requesterName, requester)
                     THEN in.requesterName ELSE ""
<1>1. t = [docType |-> docType,
           resourceRequester |-> requester.employeeNo,
           requesterApprovalRank |-> requester.rank,
           category |-> in.category, outlet |-> in.outlet, distributor |-> label,
           salesDivision |-> in.salesDivision, reqType |-> in.reqType,
           requesterRole |-> in.requesterRole, qty |-> in.qty, priority |-> in.priority,
           remark |-> remark]
  BY Zenon DEF Desk!Registration
<1> HIDE DEF t, docType, label, remark
<1>2. /\ DOMAIN t
           = {"docType", "resourceRequester", "requesterApprovalRank", "category", "outlet",
              "distributor", "salesDivision", "reqType", "requesterRole", "qty", "priority",
              "remark"}
      /\ t.docType = docType /\ t.distributor = label /\ t.remark = remark
      /\ t.resourceRequester = requester.employeeNo
      /\ t.requesterApprovalRank = requester.rank
      /\ t.category = in.category /\ t.outlet = in.outlet
      /\ t.salesDivision = in.salesDivision /\ t.reqType = in.reqType
      /\ t.requesterRole = in.requesterRole
      /\ t.qty = in.qty /\ t.priority = in.priority
  BY <1>1
<1>3. HasFields(t, in, requester)
  BY <1>2, Zenon DEF HasFields, docType, label, remark
<1>4. QED
  BY <1>3, Zenon DEF t

(* What is told of the row, field by field.                                *)
LEMMA ToldFields ==
  ASSUME NEW names
  PROVE  /\ DOMAIN Told(names)
              = {"docType", "resourceRequester", "requesterApprovalRank", "category", "outlet",
                 "distributor", "salesDivision", "reqType", "requesterRole", "qty", "priority",
                 "remark"}
         /\ Told(names).docType = Desk!DocType(names.category)
         /\ Told(names).category = names.category
         /\ Told(names).outlet = names.outlet
         /\ Told(names).distributor = names.distributor
         /\ Told(names).resourceRequester = names.employeeNo
         /\ Told(names).requesterApprovalRank = names.rank
         /\ Told(names).salesDivision = row.salesDivision
         /\ Told(names).reqType = row.reqType
         /\ Told(names).requesterRole = row.requesterRole
         /\ Told(names).qty = row.qty /\ Told(names).priority = row.priority
         /\ Told(names).remark
              = IF Fold[row.requesterName] \notin {Fold[names.name], Fold[names.email]}
                THEN row.requesterName ELSE ""
<1> DEFINE again == Desk!ResentInput(row, names)
           t == Told(names)
<1>1. /\ again.category = names.category /\ again.outlet = names.outlet
      /\ again.distributor = names.distributor
      /\ again.distributorManual = ""
      /\ again.salesDivision = row.salesDivision /\ again.reqType = row.reqType
      /\ again.requesterRole = row.requesterRole
      /\ again.requesterName = row.requesterName
      /\ again.qty = row.qty /\ again.priority = row.priority
  BY DEF Desk!ResentInput, Desk!CreateRequestInput
<1>2. t = Desk!Registration(again, names)
  BY DEF Told
<1> HIDE DEF again, t
<1>3. Desk!distributorLabel(again) = names.distributor
  BY <1>1 DEF Desk!distributorLabel
<1>4. Desk!standsIn(again.requesterName, names)
        <=> Fold[row.requesterName] \notin {Fold[names.name], Fold[names.email]}
  BY <1>1 DEF Desk!standsIn
<1>5. HasFields(t, again, names)
  BY <1>2, RegistrationFields, Zenon
<1>6. /\ t.docType = Desk!DocType(names.category)
      /\ t.category = names.category /\ t.outlet = names.outlet
      /\ t.distributor = names.distributor
      /\ t.salesDivision = row.salesDivision /\ t.reqType = row.reqType
      /\ t.requesterRole = row.requesterRole
      /\ t.qty = row.qty /\ t.priority = row.priority
  <2>1. again.category = names.category /\ t.docType = Desk!DocType(again.category)
    BY <1>1, <1>5 DEF HasFields
  <2>2. t.docType = Desk!DocType(names.category)
    BY <2>1, Zenon
  <2>3. t.category = names.category /\ t.outlet = names.outlet
    BY <1>1, <1>5 DEF HasFields
  <2>4. t.distributor = names.distributor
    BY <1>3, <1>5 DEF HasFields
  <2>5. /\ t.salesDivision = row.salesDivision /\ t.reqType = row.reqType
        /\ t.requesterRole = row.requesterRole
    BY <1>1, <1>5 DEF HasFields
  <2>6. t.qty = row.qty /\ t.priority = row.priority
    BY <1>1, <1>5 DEF HasFields
  <2>7. QED
    BY <2>2, <2>3, <2>4, <2>5, <2>6
<1>7. t.remark = IF Fold[row.requesterName] \notin {Fold[names.name], Fold[names.email]}
                 THEN row.requesterName ELSE ""
  <2>1. again.requesterName = row.requesterName
    BY <1>1
  <2>2. t.remark = IF Desk!standsIn(again.requesterName, names)
                   THEN again.requesterName ELSE ""
    BY <1>5 DEF HasFields
  <2>3. QED
    BY <1>4, <2>1, <2>2, Zenon
<1>8. QED
  <2>1. /\ DOMAIN t
             = {"docType", "resourceRequester", "requesterApprovalRank", "category", "outlet",
                "distributor", "salesDivision", "reqType", "requesterRole", "qty", "priority",
                "remark"}
        /\ t.resourceRequester = names.employeeNo
        /\ t.requesterApprovalRank = names.rank
    BY <1>5, Zenon DEF HasFields
  <2>2. QED
    BY <1>6, <1>7, <2>1, Zenon DEF t

(* So a retry sends the same, of the request desk by itself.               *)
LEMMA RetrySendsTheSameByItself ==
  ASSUME Desk!DeskAssumption
  PROVE  Desk!Spec => []Desk!RetrySendsTheSame
<1>1. ASSUME DeskInv PROVE Desk!RetrySendsTheSame
  <2> SUFFICES ASSUME resent # Desk!Unsent, NEW field \in DOMAIN sent.told,
                      \A source \in Desk!SourcesOf(field) : resent.when[source] = sent.when[source]
               PROVE  resent.told[field] = sent.told[field]
    BY DEF Desk!RetrySendsTheSame
  <2> DEFINE first == sent.when
             last == resent.when
  <2>1. EngineWasTold /\ RetryTold
    BY <1>1 DEF DeskInv
  <2>2. sent.told = Told(first) /\ resent.told = Told(last)
    BY <2>1 DEF EngineWasTold, RetryTold
  <2> HIDE DEF first, last
  <2>3. \A source \in Desk!SourcesOf(field) : last[source] = first[source]
    BY DEF first, last
  <2>4. field \in {"docType", "resourceRequester", "requesterApprovalRank", "category", "outlet",
                  "distributor", "salesDivision", "reqType", "requesterRole", "qty", "priority",
                  "remark"}
    <3>1. DOMAIN Told(first)
            = {"docType", "resourceRequester", "requesterApprovalRank", "category", "outlet",
               "distributor", "salesDivision", "reqType", "requesterRole", "qty", "priority",
               "remark"}
      BY ToldFields, Zenon
    <3>2. field \in DOMAIN sent.told
      OBVIOUS
    <3>3. sent.told = Told(first)
      BY <2>2
    <3>4. DOMAIN sent.told = DOMAIN Told(first)
      BY <3>3
    <3>5. QED
      BY <3>1, <3>2, <3>4
  <2> DEFINE t1 == Told(first)
             t2 == Told(last)
  <2>5. /\ t1.docType = Desk!DocType(first.category) /\ t2.docType = Desk!DocType(last.category)
        /\ t1.category = first.category /\ t2.category = last.category
        /\ t1.outlet = first.outlet /\ t2.outlet = last.outlet
        /\ t1.distributor = first.distributor /\ t2.distributor = last.distributor
        /\ t1.resourceRequester = first.employeeNo /\ t2.resourceRequester = last.employeeNo
        /\ t1.requesterApprovalRank = first.rank /\ t2.requesterApprovalRank = last.rank
    BY ToldFields
  <2>6. /\ t1.salesDivision = t2.salesDivision /\ t1.reqType = t2.reqType
        /\ t1.requesterRole = t2.requesterRole
        /\ t1.qty = t2.qty /\ t1.priority = t2.priority
    BY ToldFields
  <2>a. t1.remark
          = IF Fold[row.requesterName] \notin {Fold[first.name], Fold[first.email]}
            THEN row.requesterName ELSE ""
    BY ToldFields
  <2>b. t2.remark
          = IF Fold[row.requesterName] \notin {Fold[last.name], Fold[last.email]}
            THEN row.requesterName ELSE ""
    BY ToldFields
  <2>7. ASSUME last.name = first.name, last.email = first.email
        PROVE  t1.remark = t2.remark
    BY <2>7, <2>a, <2>b, Zenon
  <2> HIDE DEF t1, t2
  <2>8. CASE field \in {"docType", "category"}
    <3>1. last.category = first.category
      BY <2>3, <2>8 DEF Desk!SourcesOf
    <3>2. t2.docType = t1.docType /\ t2.category = t1.category
      BY <2>5, <3>1
    <3>3. t2[field] = t1[field]
      BY <2>8, <3>2
    <3>4. QED
      BY <2>2, <3>3 DEF t1, t2
  <2>9. CASE field \in {"outlet", "distributor"}
    <3>1. last[field] = first[field]
      BY <2>3, <2>9 DEF Desk!SourcesOf
    <3>2. t2[field] = t1[field]
      BY <2>5, <2>9, <3>1
    <3>3. QED
      BY <2>2, <3>2 DEF t1, t2
  <2>10. CASE field = "resourceRequester"
    <3>1. last.employeeNo = first.employeeNo
      BY <2>3, <2>10 DEF Desk!SourcesOf
    <3>2. t2[field] = t1[field]
      BY <2>5, <2>10, <3>1
    <3>3. QED
      BY <2>2, <3>2 DEF t1, t2
  <2>11. CASE field = "requesterApprovalRank"
    <3>1. last.rank = first.rank
      BY <2>3, <2>11 DEF Desk!SourcesOf
    <3>2. t2[field] = t1[field]
      BY <2>5, <2>11, <3>1
    <3>3. QED
      BY <2>2, <3>2 DEF t1, t2
  <2>12. CASE field = "remark"
    <3>1. last.name = first.name /\ last.email = first.email
      BY <2>3, <2>12 DEF Desk!SourcesOf
    <3>2. t2[field] = t1[field]
      BY <2>7, <2>12, <3>1
    <3>3. QED
      BY <2>2, <3>2 DEF t1, t2
  <2>13. CASE field \in {"salesDivision", "reqType", "requesterRole", "qty", "priority"}
    <3>1. t2[field] = t1[field]
      BY <2>6, <2>13
    <3>2. QED
      BY <2>2, <3>1 DEF t1, t2
  <2>14. QED
    BY <2>4, <2>8, <2>9, <2>10, <2>11, <2>12, <2>13
<1>2. QED
  BY <1>1, DeskInvariance, PTL

(* What is stored was offered.                                             *)
LEMMA StoredIsOfferedByItself ==
  ASSUME Desk!DeskAssumption
  PROVE  Desk!Spec => []Desk!StoredIsOffered
<1>1. ASSUME DeskInv PROVE Desk!StoredIsOffered
  <2> DEFINE Together(o) ==
               IF row.distributor = {}
               THEN row.distributorManual # "" /\ o \in master.outlets
               ELSE \E d \in Desk!ToSet(master.distributors) :
                      row.distributor = {d.id} /\ o \in Desk!OfferedOutlets(d, master)
  <2> SUFFICES ASSUME stage \notin {"form", "refused"}
               PROVE  /\ \E o \in row.outlet : Together(o)
                      /\ row.category \in Desk!requestCategories
                      /\ row.requesterRole \in Desk!requesterRolesByCategory[row.category]
                      /\ row.reqType \in Desk!TypesAsked(row.category)
                      /\ row.salesDivision \in master.divisions
                      /\ row.priority \in Desk!requestPriorities
                      /\ row.qty > 0
                      /\ \A item \in row.breakdown :
                           /\ row.category = "Barcode"
                           /\ item.kind \in Desk!ToSet(Desk!barcodeKinds) /\ item.quantity > 0
    BY DEF Desk!StoredIsOffered
  <2>1. RowIsAccepted /\ master \in MasterData
    BY <1>1 DEF DeskInv
  <2>2. PICK in \in Inputs, submitter \in Submitters :
          /\ Desk!WrongField(in, master) = ""
          /\ row = Desk!Normalised(in, master, Desk!ResolveRequester(in.requesterName, submitter))
    BY <2>1 DEF RowIsAccepted
  <2>3. /\ row.distributor = {d.id : d \in Desk!ChosenDistributor(in, master)}
        /\ row.distributorManual = in.distributorManual
        /\ row.outlet = Desk!MatchingOutlets(in, master)
    BY <2>2 DEF Desk!Normalised
  <2>4. IsRight(in, master)
    BY <2>2, AcceptedIsRight
  <2>5. PICK o \in row.outlet : o \in Desk!Candidates(in, master)
    BY <2>3, <2>4, OutletIsMatched
  <2>6. ASSUME in.distributor = ""
        PROVE  Together(o)
    <3>1. row.distributor = {}
      BY <2>3, <2>6 DEF Desk!ChosenDistributor
    <3>2. row.distributorManual # ""
      BY <2>3, <2>4, <2>6 DEF IsRight
    <3>3. o \in master.outlets
      BY <2>5, <2>6 DEF Desk!Candidates
    <3>4. QED
      BY <3>1, <3>2, <3>3
  <2>7. ASSUME in.distributor # ""
        PROVE  Together(o)
    <3>1. PICK k \in DOMAIN master.distributors :
            Desk!ChosenDistributor(in, master) = {master.distributors[k]}
      BY <2>1, <2>4, <2>7, ChosenIsListed
    <3> DEFINE d == master.distributors[k]
    <3>2. d \in Desk!ToSet(master.distributors)
      BY DEF Desk!ToSet
    <3>3. row.distributor = {d.id}
      BY <2>3, <3>1
    <3>4. o \in Desk!OfferedOutlets(d, master)
      BY <2>5, <2>7, <3>1 DEF Desk!Candidates, Desk!OfferedOutlets
    <3>5. row.distributor # {}
      BY <3>3
    <3> HIDE DEF d
    <3>6. QED
      BY <3>2, <3>3, <3>4, <3>5
  <2>8. \E oo \in row.outlet : Together(oo)
    BY <2>6, <2>7
  <2>9. /\ row.category = in.category /\ row.requesterRole = in.requesterRole
        /\ row.reqType = IF in.category = "Android" THEN in.reqType ELSE ""
        /\ row.salesDivision = in.salesDivision /\ row.qty = in.qty
        /\ row.priority = IF in.priority = "" THEN "normal" ELSE in.priority
        /\ row.breakdown = IF in.category = "Barcode" THEN Desk!Kept(in.breakdown) ELSE {}
    BY <2>2 DEF Desk!Normalised
  <2>10. /\ row.category \in Desk!requestCategories
         /\ row.requesterRole \in Desk!requesterRolesByCategory[row.category]
         /\ row.reqType \in Desk!TypesAsked(row.category)
         /\ row.salesDivision \in master.divisions
    BY <2>4, <2>9 DEF IsRight, Desk!TypesAsked
  <2>11. row.priority \in Desk!requestPriorities
    BY <2>4, <2>9 DEF IsRight, Desk!requestPriorities
  <2>12. row.qty > 0
    <3>1. in.qty \in Int
      BY DeskConstants DEF Desk!Input
    <3>2. in.category # "Barcode" => in.qty >= 1
      BY <2>4 DEF IsRight, Desk!QuantityIsRight
    <3>3. in.category = "Barcode" => in.qty > 0
      BY <2>4 DEF IsRight, Desk!QuantityIsRight
    <3>4. in.qty >= 1 => in.qty > 0
      BY <3>1
    <3>5. in.qty > 0
      BY <3>2, <3>3, <3>4
    <3>6. row.qty = in.qty
      BY <2>9
    <3>7. QED
      BY <3>5, <3>6
  <2>13. ASSUME NEW item \in row.breakdown
         PROVE  /\ row.category = "Barcode"
                /\ item.kind \in Desk!ToSet(Desk!barcodeKinds) /\ item.quantity > 0
    <3>1. in.category = "Barcode" /\ item \in Desk!Kept(in.breakdown)
      BY <2>9, <2>13
    <3>2. item.quantity > 0 /\ \E k \in DOMAIN in.breakdown : item = in.breakdown[k]
      BY <3>1 DEF Desk!Kept, Desk!ToSet
    <3>3. \A k \in DOMAIN in.breakdown : in.breakdown[k].kind \in Desk!ToSet(Desk!barcodeKinds)
      BY <2>4, <3>1 DEF IsRight, Desk!BreakdownIsValid
    <3>4. QED
      BY <2>9, <3>1, <3>2, <3>3
  <2> HIDE DEF Together
  <2>14. QED
    BY <2>8, <2>10, <2>11, <2>12, <2>13
<1>2. QED
  BY <1>1, DeskInvariance, PTL

(* The requester is the one named.                                         *)
LEMMA RequesterIsNamedByItself ==
  ASSUME Desk!DeskAssumption
  PROVE  Desk!Spec => []Desk!RequesterIsNamed
<1>1. ASSUME DeskInv PROVE Desk!RequesterIsNamed
  <2> DEFINE key == row.requesterName
             named == {i \in DOMAIN People : key \in {People[i].name, People[i].email}}
  <2> SUFFICES ASSUME NEW registration \in {sent, resent} \ {Desk!Unsent}
               PROVE  IF named = {}
                      THEN \/ registration.told.remark = key
                           \/ Fold[key] \in {Fold[registration.when.name],
                                             Fold[registration.when.email]}
                      ELSE /\ row.requester \in named
                           /\ key \in {registration.when.name, registration.when.email}
                                => registration.told.remark = ""
    BY DEF Desk!RequesterIsNamed
  <2>1. RowIsAccepted /\ EngineWasTold /\ RetryTold
    BY <1>1 DEF DeskInv
  <2>2. PICK in \in Inputs, submitter \in Submitters :
          row = Desk!Normalised(in, master, Desk!ResolveRequester(in.requesterName, submitter))
    BY <2>1 DEF RowIsAccepted
  <2>3. /\ key = in.requesterName
        /\ row.requester = Desk!ResolveRequester(key, submitter)
    BY <2>2 DEF Desk!Normalised
  <2> DEFINE person == registration.when
  <2>4. registration.told = Told(person)
    BY <2>1 DEF EngineWasTold, RetryTold
  <2> HIDE DEF person
  <2>5. registration.told.remark
          = IF Fold[key] \notin {Fold[person.name], Fold[person.email]} THEN key ELSE ""
    BY <2>4, ToldFields
  <2>6. IF named = {} THEN Desk!FirstNamed(key) = 0
        ELSE Desk!FirstNamed(key) # 0 /\ Desk!FirstNamed(key) \in named
    BY FirstNamedBearsIt
  <2>7. CASE named = {}
    BY <2>5, <2>7 DEF person
  <2>8. CASE named # {}
    <3>1. row.requester \in named
      BY <2>3, <2>6, <2>8 DEF Desk!ResolveRequester
    <3>2. key \in {person.name, person.email} => registration.told.remark = ""
      BY <2>5
    <3>3. QED
      BY <2>8, <3>1, <3>2 DEF person
  <2>9. QED
    BY <2>7, <2>8
<1>2. QED
  BY <1>1, DeskInvariance, PTL

(* A unit has an identifier of its own.                                    *)
LEMMA OneIdentifierPerUnitByItself ==
  ASSUME Desk!DeskAssumption
  PROVE  Desk!Spec => []Desk!OneIdentifierPerUnit
<1>1. ASSUME DeskInv PROVE Desk!OneIdentifierPerUnit
  <2> SUFFICES ASSUME stage = "recorded"
               PROVE  /\ asset.specs = "" => Desk!Cardinality(Desk!Identifiers) = row.qty
                      /\ row.category = "Barcode" => Desk!Units(row.breakdown) = row.qty
    BY DEF Desk!OneIdentifierPerUnit
  <2>1. RowIsAccepted /\ AssetFits
    BY <1>1 DEF DeskInv
  <2>2. PICK in \in Inputs, submitter \in Submitters :
          /\ Desk!WrongField(in, master) = ""
          /\ row = Desk!Normalised(in, master, Desk!ResolveRequester(in.requesterName, submitter))
    BY <2>1 DEF RowIsAccepted
  <2>3. /\ row.category = in.category /\ row.qty = in.qty
        /\ row.breakdown = IF in.category = "Barcode" THEN Desk!Kept(in.breakdown) ELSE {}
    BY <2>2 DEF Desk!Normalised
  <2>4. IsRight(in, master)
    BY <2>2, AcceptedIsRight
  <2>fits. PICK data \in AssetData : \E category :
          Desk!IsValid(category, row.qty, data) /\ asset = Desk!Stored(category, data)
    BY <2>1 DEF AssetFits
  <2>5. PICK category :
          Desk!IsValid(category, row.qty, data) /\ asset = Desk!Stored(category, data)
    BY <2>fits
  <2>6. /\ data.codes \in Seq(STRING) /\ data.units \in Seq(Desk!Unit)
        /\ data \in [codes : Seq(STRING), units : Seq(Desk!Unit), specs : STRING]
    BY DeskConstants DEF Desk!Data
  <2>7. ASSUME category \in {"Barcode", "Mobile Printer"}
        PROVE  Desk!Cardinality(Desk!Identifiers) = row.qty
    <3>1. Desk!CleanUnitCodes(data.codes, row.qty)
      BY <2>5, <2>7 DEF Desk!IsValid
    <3>2. /\ Len(data.codes) \in Nat /\ DOMAIN data.codes = 1 .. Len(data.codes)
          /\ Len(data.codes) = row.qty /\ Desk!IsInjective(data.codes)
      BY <2>6, <3>1, SeqShape DEF Desk!CleanUnitCodes
    <3>3. asset = [data EXCEPT !.units = <<>>, !.specs = ""]
      BY <2>5, <2>7 DEF Desk!Stored
    <3>4. asset.codes = data.codes /\ asset.units = <<>>
      BY <2>6, <3>3
    <3>5. Desk!Range(Desk!Imeis(asset.units)) = {}
      BY <3>4 DEF Desk!Imeis, Desk!Range
    <3>6. Desk!Identifiers = Desk!Range(data.codes)
      BY <3>4, <3>5 DEF Desk!Identifiers
    <3>7. Cardinality(Desk!Range(data.codes)) = Len(data.codes)
      BY <3>2, CountOfInjective
    <3>8. QED
      BY <3>2, <3>6, <3>7, DeskCounts
  <2>8. ASSUME category = "Android"
        PROVE  Desk!Cardinality(Desk!Identifiers) = row.qty
    <3>1. Desk!AndroidDataIsValid(data.units, row.qty)
      BY <2>5, <2>8 DEF Desk!IsValid
    <3>2. /\ Len(data.units) \in Nat /\ DOMAIN data.units = 1 .. Len(data.units)
          /\ Len(data.units) = row.qty /\ Desk!IsInjective(Desk!Imeis(data.units))
      BY <2>6, <3>1, SeqShape DEF Desk!AndroidDataIsValid
    <3>3. asset = [data EXCEPT !.codes = <<>>, !.specs = ""]
      BY <2>5, <2>8 DEF Desk!Stored
    <3>4. asset.units = data.units /\ asset.codes = <<>>
      BY <2>6, <3>3
    <3>5. Desk!Range(asset.codes) = {}
      BY <3>4 DEF Desk!Range
    <3>6. Desk!Identifiers = Desk!Range(Desk!Imeis(data.units))
      BY <3>4, <3>5 DEF Desk!Identifiers
    <3>7. DOMAIN Desk!Imeis(data.units) = 1 .. Len(data.units)
      BY <3>2 DEF Desk!Imeis
    <3>8. Cardinality(Desk!Range(Desk!Imeis(data.units))) = Len(data.units)
      BY <3>2, <3>7, CountOfInjective
    <3>9. QED
      BY <3>2, <3>6, <3>8, DeskCounts
  <2>9. asset.specs = "" => category \in {"Barcode", "Mobile Printer", "Android"}
    <3> SUFFICES ASSUME category \notin {"Barcode", "Mobile Printer", "Android"}
                 PROVE  asset.specs # ""
      OBVIOUS
    <3>1. category = "Server" /\ data.specs # ""
      BY <2>5 DEF Desk!IsValid
    <3>2. asset = [data EXCEPT !.codes = <<>>, !.units = <<>>]
      BY <2>5, <3>1 DEF Desk!Stored
    <3>3. QED
      BY <2>6, <3>1, <3>2
  <2>10. asset.specs = "" => Desk!Cardinality(Desk!Identifiers) = row.qty
    BY <2>7, <2>8, <2>9
  <2>11. row.category = "Barcode" => Desk!Units(row.breakdown) = row.qty
    BY <2>3, <2>4 DEF IsRight, Desk!QuantityIsRight, Desk!Total
  <2>12. QED
    BY <2>10, <2>11
<1>2. QED
  BY <1>1, DeskInvariance, PTL

(* Counts filled in by reason are what is asked for.                       *)
LEMMA ReasonsAreValid ==
  ASSUME Counts \subseteq Nat, NEW counts \in [DOMAIN Desk!barcodeKinds -> Counts]
  PROVE  Desk!BreakdownIsValid(Desk!ByReason(counts))
<1> DEFINE items == Desk!ByReason(counts)
<1>1. DOMAIN Desk!barcodeKinds = 1 .. 4
  BY DEF Desk!barcodeKinds
<1>2. \A i, j \in 1 .. 4 : Desk!barcodeKinds[i] = Desk!barcodeKinds[j] => i = j
  <2>1. /\ Desk!barcodeKinds[1] = "Rusak" /\ Desk!barcodeKinds[2] = "Hilang"
        /\ Desk!barcodeKinds[3] = "NOO" /\ Desk!barcodeKinds[4] = "Buffer Stock"
    BY DEF Desk!barcodeKinds
  <2>2. \A i \in 1 .. 4 : i = 1 \/ i = 2 \/ i = 3 \/ i = 4
    OBVIOUS
  <2>3. QED
    BY <2>1, <2>2
<1>3. \A i \in 1 .. 4 : Desk!barcodeKinds[i] \in Desk!ToSet(Desk!barcodeKinds)
  BY <1>1 DEF Desk!ToSet
<1>4. DOMAIN items = 1 .. 4
  BY <1>1 DEF Desk!ByReason
<1>5. \A i \in 1 .. 4 : items[i].kind = Desk!barcodeKinds[i] /\ items[i].quantity = counts[i]
  BY <1>1 DEF Desk!ByReason
<1>6. \A i \in 1 .. 4 : counts[i] \in Nat
  BY <1>1
<1>7. \A i \in 1 .. 4 : counts[i] >= 0
  BY <1>6
<1> HIDE DEF items
<1>8. QED
  BY <1>2, <1>3, <1>4, <1>5, <1>7 DEF Desk!BreakdownIsValid, items

(* Where no two distributors share a name, the name chosen is the          *)
(* distributor meant.                                                      *)
LEMMA ChosenIsMeant ==
  ASSUME NEW data, Len(data.distributors) \in Nat,
         DOMAIN data.distributors = 1 .. Len(data.distributors),
         Desk!Distinct([i \in DOMAIN data.distributors |-> data.distributors[i].name]),
         NEW d \in Desk!ToSet(data.distributors), d.name # "",
         NEW in, in.distributor = d.name
  PROVE  Desk!ChosenDistributor(in, data) = {d}
<1> DEFINE ds == data.distributors
           I == 1 .. Len(ds)
<1>1. PICK k \in DOMAIN ds : d = ds[k]
  BY DEF Desk!ToSet
<1>2. \A i, j \in DOMAIN ds : ds[i].name = ds[j].name => i = j
  BY DEF Desk!Distinct, Desk!IsInjective
<1>3. \/ /\ Desk!ChosenDistributor(in, data) = {}
         /\ \A i \in I : ds[i].name # in.distributor
      \/ \E i \in I : /\ ds[i].name = in.distributor
                      /\ Desk!ChosenDistributor(in, data) = {ds[i]}
  BY ChosenIsFirst
<1>4. DOMAIN ds = I
  OBVIOUS
<1> HIDE DEF I, ds
<1>5. PICK i \in I : ds[i].name = in.distributor
                     /\ Desk!ChosenDistributor(in, data) = {ds[i]}
  BY <1>1, <1>3, <1>4
<1>6. QED
  BY <1>1, <1>2, <1>4, <1>5

(* What is offered is accepted.                                            *)
LEMMA OfferedIsAcceptedByItself ==
  ASSUME Desk!DeskAssumption
  PROVE  Desk!Spec => []Desk!OfferedIsAccepted
<1>1. ASSUME DeskInv PROVE Desk!OfferedIsAccepted
  <2> SUFFICES
        ASSUME Desk!Distinct([i \in DOMAIN master.distributors |-> master.distributors[i].name])
        PROVE  \A category \in Desk!requestCategories, d \in Desk!ToSet(master.distributors),
                  division \in master.divisions, priority \in Desk!requestPriorities \cup {""},
                  typed \in DOMAIN Fold \ {""} :
               \A role_ \in Desk!requesterRolesByCategory[category],
                  o \in Desk!OfferedOutlets(d, master),
                  type \in Desk!TypesAsked(category), units \in Desk!UnitsAsked(category) :
                 Desk!NamedOnce(o, Desk!OfferedOutlets(d, master)) /\ units.qty > 0
                   => Desk!WrongField(Desk!FilledIn(category, role_, d, o, division, type, typed,
                                                    units, priority), master) = ""
    BY DEF Desk!OfferedIsAccepted
  <2> TAKE category \in Desk!requestCategories, d \in Desk!ToSet(master.distributors),
           division \in master.divisions, priority \in Desk!requestPriorities \cup {""},
           typed \in DOMAIN Fold \ {""}
  <2> TAKE role_ \in Desk!requesterRolesByCategory[category],
           o \in Desk!OfferedOutlets(d, master),
           type \in Desk!TypesAsked(category), units \in Desk!UnitsAsked(category)
  <2> HAVE Desk!NamedOnce(o, Desk!OfferedOutlets(d, master)) /\ units.qty > 0
  <2> DEFINE ds == master.distributors
  <2> DEFINE in == Desk!FilledIn(category, role_, d, o, division, type, typed, units, priority)
  <2>1. /\ Len(ds) \in Nat /\ DOMAIN ds = 1 .. Len(ds) /\ d.name # "" /\ TooLong # ""
        /\ Counts \subseteq Nat
    BY <1>1, DeskConstants DEF DeskInv, Desk!ToSet
  <2>2. /\ in.category = category /\ in.distributor = d.name /\ in.distributorManual = ""
        /\ in.outlet = OutletName[o] /\ in.salesDivision = division
        /\ in.reqType = type /\ in.requesterRole = role_ /\ in.requesterName = typed
        /\ in.qty = units.qty /\ in.breakdown = units.breakdown /\ in.priority = priority
    BY DEF Desk!FilledIn
  <2> HIDE DEF in
  <2>3. Desk!ChosenDistributor(in, master) = {d}
    BY <2>1, <2>2, ChosenIsMeant
  <2>4. Desk!Candidates(in, master) = Desk!OfferedOutlets(d, master)
    BY <2>1, <2>2, <2>3 DEF Desk!Candidates, Desk!OfferedOutlets
  <2>5. Desk!MatchingOutlets(in, master) = {o}
    BY <2>2, <2>4 DEF Desk!MatchingOutlets, Desk!NamedOnce
  <2>6. Desk!Cardinality(Desk!MatchingOutlets(in, master)) = 1
    BY <2>5, DeskCounts, FS_Singleton
  <2>7. /\ category = "Barcode" =>
             /\ Desk!BreakdownIsValid(units.breakdown)
             /\ units.qty = Desk!Total(units.breakdown)
        /\ category # "Barcode" => units.qty \in Nat
    <3>1. CASE category = "Barcode"
      <4>1. PICK counts \in [DOMAIN Desk!barcodeKinds -> Counts] :
              units = [breakdown |-> Desk!ByReason(counts),
                       qty |-> Desk!Total(Desk!ByReason(counts))]
        BY <3>1 DEF Desk!UnitsAsked
      <4>2. /\ units.breakdown = Desk!ByReason(counts)
            /\ units.qty = Desk!Total(Desk!ByReason(counts))
        BY <4>1
      <4>3. QED
        BY <2>1, <3>1, <4>2, ReasonsAreValid
    <3>2. CASE category # "Barcode"
      BY <2>1, <3>2 DEF Desk!UnitsAsked
    <3>3. QED
      BY <3>1, <3>2
  <2>8. Desk!QuantityIsRight(in)
    <3>1. units.qty \in Nat => units.qty >= 1
      BY PositiveIsOne, Zenon
    <3>2. QED
      BY <2>2, <2>7, <3>1, Zenon DEF Desk!QuantityIsRight
  <2>9. category = "Barcode" => Desk!Total(in.breakdown) > 0
    BY <2>2, <2>7, Zenon
  <2>10. category = "Android" => type \in Desk!requestTypes
    BY DEF Desk!TypesAsked
  <2>11. IsRight(in, master)
    BY <2>1, <2>2, <2>3, <2>6, <2>7, <2>8, <2>9, <2>10, Zenon DEF IsRight
  <2>12. QED
    BY <2>11, AcceptedIsRight DEF in
<1>2. QED
  BY <1>1, DeskInvariance, PTL

---------------------------------------------------------------------------
(* Counting along an order.                                                *)

(* What comes before x in S.                                               *)
Below(S, R, x) == {y \in S : <<y, x>> \in R}

(* R puts the elements of S in a row.                                      *)
IsRow(S, R) ==
  /\ \A x \in S : <<x, x>> \notin R
  /\ \A x, y, z \in S : <<x, y>> \in R /\ <<y, z>> \in R => <<x, z>> \in R
  /\ \A x, y \in S : x # y => <<x, y>> \in R \/ <<y, x>> \in R

(* Fewer come before an element than there are, and more come before a     *)
(* later one.                                                              *)
LEMMA RankIsBelow ==
  ASSUME NEW S, IsFiniteSet(S), NEW R, IsRow(S, R)
  PROVE  /\ \A x \in S : Cardinality(Below(S, R, x)) \in 0 .. Cardinality(S) - 1
         /\ \A x, y \in S : <<x, y>> \in R =>
              Cardinality(Below(S, R, x)) < Cardinality(Below(S, R, y))
<1>1. \A T \in SUBSET S : IsFiniteSet(T) /\ Cardinality(T) \in Nat
  BY FS_Subset, FS_CardinalityType
<1>2. S \in SUBSET S /\ \A x \in S : Below(S, R, x) \in SUBSET S
  BY DEF Below
<1>3. ASSUME NEW T \in SUBSET S, NEW U \in SUBSET S, T \subseteq U, T # U
      PROVE  Cardinality(T) < Cardinality(U)
  <2>1. IsFiniteSet(U) /\ T \in SUBSET U
    BY <1>1, <1>3
  <2>2. Cardinality(T) <= Cardinality(U) /\ Cardinality(T) # Cardinality(U)
    BY <1>3, <2>1, FS_Subset
  <2>3. Cardinality(T) \in Nat /\ Cardinality(U) \in Nat
    BY <1>1
  <2>4. QED
    BY <2>2, <2>3
<1>4. ASSUME NEW x \in S PROVE Cardinality(Below(S, R, x)) \in 0 .. Cardinality(S) - 1
  <2>1. x \notin Below(S, R, x)
    BY DEF Below, IsRow
  <2>2. Cardinality(Below(S, R, x)) < Cardinality(S)
    BY <1>2, <1>3, <2>1
  <2>3. Cardinality(Below(S, R, x)) \in Nat /\ Cardinality(S) \in Nat
    BY <1>1, <1>2
  <2>4. QED
    BY <2>2, <2>3
<1>5. ASSUME NEW x \in S, NEW y \in S, <<x, y>> \in R
      PROVE  Cardinality(Below(S, R, x)) < Cardinality(Below(S, R, y))
  <2>1. Below(S, R, x) \subseteq Below(S, R, y)
    BY <1>5 DEF Below, IsRow
  <2>2. x \in Below(S, R, y) /\ x \notin Below(S, R, x)
    BY <1>5 DEF Below, IsRow
  <2>3. QED
    BY <1>2, <1>3, <2>1, <2>2
<1>6. QED
  BY <1>4, <1>5

(* So each element of a finite row has a number of its own, and no number  *)
(* is left out.                                                            *)
LEMMA RankIsBijection ==
  ASSUME NEW S, IsFiniteSet(S), NEW R, IsRow(S, R)
  PROVE  /\ \A x, y \in S :
              Cardinality(Below(S, R, x)) = Cardinality(Below(S, R, y)) => x = y
         /\ \A k \in 0 .. Cardinality(S) - 1 : \E x \in S : Cardinality(Below(S, R, x)) = k
<1> DEFINE n == Cardinality(S)
           I == 0 .. n - 1
           rank == [x \in S |-> Cardinality(Below(S, R, x))]
<1>1. n \in Nat
  BY FS_CardinalityType
<1>2. \A x \in S : rank[x] = Cardinality(Below(S, R, x)) /\ rank[x] \in I
  BY RankIsBelow
<1>3. \A x, y \in S : rank[x] = rank[y] => x = y
  <2>1. \A x, y \in S : <<x, y>> \in R => rank[x] < rank[y]
    BY RankIsBelow
  <2>2. \A x \in S : rank[x] \in Int
    BY <1>1, <1>2
  <2> HIDE DEF rank
  <2>3. \A x, y \in S : <<x, y>> \in R => rank[x] # rank[y]
    BY <2>1, <2>2
  <2>4. QED
    BY <2>3 DEF IsRow
<1>4. IsFiniteSet(I) /\ Cardinality(I) = n
  <2>1. 0 \in Int /\ n - 1 \in Int
    BY <1>1
  <2>2. IsFiniteSet(I) /\ Cardinality(I) = IF 0 > n - 1 THEN 0 ELSE n - 1 - 0 + 1
    BY <2>1, FS_Interval
  <2>3. QED
    BY <1>1, <2>2
<1>5. rank \in Injection(S, I)
  <2>1. rank \in [S -> I]
    BY <1>2
  <2> HIDE DEF rank, I
  <2>2. QED
    BY <1>3, <2>1 DEF Injection, IsInjective
<1>6. rank \in Surjection(S, I)
  <2> HIDE DEF rank, I
  <2>1. QED
    BY <1>4, <1>5, FS_Injection DEF n
<1>7. \A k \in I : \E x \in S : rank[x] = k
  <2> HIDE DEF rank, I
  <2>1. QED
    BY <1>6 DEF Surjection
<1>8. QED
  <2> HIDE DEF rank
  <2>1. QED
    BY <1>2, <1>3, <1>7

---------------------------------------------------------------------------
(* The import of the IMEI reference.                                       *)

(* What a file is made of.                                                *)
Line == [kind : Imei!LineKind, tac : TACs, device : Devices]

(* The import counts as everybody does.                                    *)
LEMMA ImeiCounts ==
  ASSUME NEW S
  PROVE  Imei!Cardinality(S) = Cardinality(S)
BY DEF Imei!Cardinality, Cardinality

Preceding == {pair \in Nat \X Nat : pair[1] < pair[2]}

(* The rows of a file are its lines that are rows, all of them, and no     *)
(* line of a valid file has the TAC of another.                            *)
LEMMA RowsAreLines ==
  ASSUME NEW file \in Seq(Line)
  PROVE  LET rows == Imei!Rows(file)
             lines == Imei!RowLines(file)
             n == Cardinality(lines)
         IN  /\ n \in Nat /\ rows \in Seq(Line) /\ Len(rows) = n
             /\ \A i \in lines : \E k \in 1 .. n : rows[k] = file[i]
             /\ \A k \in 1 .. n : \E i \in lines : rows[k] = file[i]
             /\ \A k, l \in 1 .. n : k # l =>
                  \E i, j \in lines : i # j /\ rows[k] = file[i] /\ rows[l] = file[j]
<1> DEFINE lines == Imei!RowLines(file)
           n == Cardinality(lines)
           rows == Imei!Rows(file)
           place(k) == CHOOSE i \in lines : Cardinality(Below(lines, Preceding, i)) = k - 1
<1>1. Len(file) \in Nat /\ DOMAIN file = 1 .. Len(file)
  BY SeqShape
<1>2. lines \in SUBSET (1 .. Len(file)) /\ \A i \in lines : i \in Nat /\ file[i] \in Line
  BY <1>1 DEF Imei!RowLines
<1>3. IsFiniteSet(lines) /\ n \in Nat
  <2>1. IsFiniteSet(1 .. Len(file))
    BY <1>1, FS_Interval
  <2>2. QED
    BY <1>2, <2>1, FS_Subset, FS_CardinalityType
<1>4. IsRow(lines, Preceding)
  BY <1>2 DEF IsRow, Preceding
<1>5. \A i \in lines : Below(lines, Preceding, i) = {j \in lines : j < i}
  BY <1>2 DEF Below, Preceding
<1>6. rows = [k \in 1 .. n |-> file[place(k)]]
  <2> DEFINE chosen(k) == CHOOSE i \in lines : Imei!Cardinality({j \in lines : j < i}) = k - 1
  <2>1. rows = [k \in 1 .. Imei!Cardinality(lines) |-> file[chosen(k)]]
    BY DEF Imei!Rows
  <2> HIDE DEF lines
  <2>2. \A k \in 1 .. n :
          place(k) = CHOOSE i \in lines : Cardinality({j \in lines : j < i}) = k - 1
    BY <1>5
  <2>3. /\ Imei!Cardinality(lines) = n
        /\ \A i \in lines :
             Imei!Cardinality({j \in lines : j < i}) = Cardinality({j \in lines : j < i})
    BY ImeiCounts
  <2>4. \A k \in 1 .. n : place(k) = chosen(k)
    BY <2>2, <2>3
  <2> HIDE DEF place, chosen, rows
  <2>5. QED
    BY <2>1, <2>3, <2>4
<1>7. \A k \in 1 .. n : place(k) \in lines /\ Cardinality(Below(lines, Preceding, place(k))) = k - 1
  <2> HIDE DEF lines
  <2> TAKE k \in 1 .. n
  <2>1. k - 1 \in 0 .. Cardinality(lines) - 1
    BY <1>3
  <2>2. \E i \in lines : Cardinality(Below(lines, Preceding, i)) = k - 1
    BY <1>3, <1>4, <2>1, RankIsBijection
  <2>3. QED
    BY <2>2
<1>8. \A i \in lines : \E k \in 1 .. n : place(k) = i
  <2> HIDE DEF lines
  <2> TAKE i \in lines
  <2> DEFINE k == Cardinality(Below(lines, Preceding, i)) + 1
  <2>1. Cardinality(Below(lines, Preceding, i)) \in 0 .. n - 1
    BY <1>3, <1>4, RankIsBelow
  <2>2. k \in 1 .. n /\ k - 1 = Cardinality(Below(lines, Preceding, i))
    BY <1>3, <2>1
  <2> HIDE DEF k
  <2>3. place(k) \in lines
        /\ Cardinality(Below(lines, Preceding, place(k))) = Cardinality(Below(lines, Preceding, i))
    BY <1>7, <2>2
  <2>4. place(k) = i
    BY <1>3, <1>4, <2>3, RankIsBijection
  <2>5. QED
    BY <2>2, <2>4
<1>9. \A k, l \in 1 .. n : k # l => place(k) # place(l)
  <2> HIDE DEF lines
  <2> SUFFICES ASSUME NEW k \in 1 .. n, NEW l \in 1 .. n, place(k) = place(l)
               PROVE  k = l
    OBVIOUS
  <2>1. k - 1 = l - 1
    BY <1>7
  <2>2. QED
    BY <2>1, <1>3
<1> HIDE DEF lines, place
<1>10. \A k \in 1 .. n : rows[k] = file[place(k)]
  BY <1>6
<1>11. rows \in Seq(Line) /\ Len(rows) = n
  <2> HIDE DEF rows
  <2>1. rows \in [1 .. n -> Line]
    BY <1>2, <1>6, <1>7
  <2>2. QED
    BY <1>3, <2>1
<1> HIDE DEF rows
<1>12. QED
  <2>1. \A i \in lines : \E k \in 1 .. n : rows[k] = file[i]
    BY <1>8, <1>10
  <2>2. \A k \in 1 .. n : \E i \in lines : rows[k] = file[i]
    BY <1>7, <1>10
  <2>3. \A k, l \in 1 .. n : k # l =>
          \E i, j \in lines : i # j /\ rows[k] = file[i] /\ rows[l] = file[j]
    BY <1>7, <1>9, <1>10
  <2>4. QED
    BY <1>3, <1>11, <2>1, <2>2, <2>3 DEF rows, lines

(* No two rows of a valid file are for one TAC.                            *)
LEMMA RowsDiffer ==
  ASSUME Imei!ImeiAssumption, NEW file \in Files, Imei!IsValidFile(file)
  PROVE  /\ Imei!Rows(file) \in Seq(Line)
         /\ \A k, l \in 1 .. Len(Imei!Rows(file)) :
              k # l => Imei!Rows(file)[k].tac # Imei!Rows(file)[l].tac
<1> DEFINE rows == Imei!Rows(file)
           lines == Imei!RowLines(file)
<1>1. file \in Seq(Line)
  BY DEF Imei!ImeiAssumption, Line
<1>2. Len(file) \in Nat /\ DOMAIN file = 1 .. Len(file)
  BY <1>1, SeqShape
<1>3. \A i \in lines : i \in 1 .. Len(file) /\ file[i].kind = "row"
  BY <1>2 DEF Imei!RowLines
<1>4. \A i \in DOMAIN file : ~Imei!IsProblem(file, i)
  BY DEF Imei!IsValidFile
<1>5. ASSUME NEW i \in lines, NEW j \in lines, i < j PROVE file[i].tac # file[j].tac
  <2>1. Imei!IsData(file, j)
    BY <1>3 DEF Imei!IsData
  <2>2. i \in 1 .. j - 1
    BY <1>3, <1>5
  <2>3. ~Imei!IsProblem(file, j)
    BY <1>2, <1>3, <1>4
  <2>4. QED
    BY <1>3, <2>1, <2>2, <2>3 DEF Imei!IsProblem
<1>6. \A i, j \in lines : i # j => file[i].tac # file[j].tac
  BY <1>3, <1>5
<1>7. /\ rows \in Seq(Line) /\ Len(rows) = Cardinality(lines)
      /\ \A k, l \in 1 .. Cardinality(lines) : k # l =>
           \E i, j \in lines : i # j /\ rows[k] = file[i] /\ rows[l] = file[j]
  BY <1>1, RowsAreLines
<1> HIDE DEF rows, lines
<1>8. \A k, l \in 1 .. Len(rows) : k # l => rows[k].tac # rows[l].tac
  BY <1>6, <1>7
<1>9. QED
  BY <1>7, <1>8 DEF rows

(* The first n rows of the file have been written, the chunk is what comes *)
(* next, and nothing else has been written.                                *)
IsAt(import, file, n) ==
  /\ import.rows = Imei!Rows(file)
  /\ import.start \in Nat
  /\ import.chunk \in Seq(Line)
  /\ n + Len(import.chunk)
       = IF import.start < Len(import.rows) THEN import.start ELSE Len(import.rows)
  /\ \A k \in 1 .. Len(import.chunk) : import.chunk[k] = import.rows[n + k]
  /\ DOMAIN import.written = {import.rows[k].tac : k \in 1 .. n}
  /\ \A k \in 1 .. n : import.written[import.rows[k].tac] = import.rows[k].device

IsOnItsWay(import) ==
  /\ import.at = "import"
  /\ \E file \in Files, n \in Nat : Imei!IsValidFile(file) /\ IsAt(import, file, n)

ImportIsRight(import) ==
  /\ DOMAIN import = {"at", "rows", "start", "chunk", "written"}
  /\ \/ import.at = "idle" /\ import.chunk = <<>>
     \/ IsOnItsWay(import)

ImeiInv ==
  /\ DOMAIN imports = Importers
  /\ \A i \in Importers : ImportIsRight(imports[i])

(* An import that is over, or has not begun.                               *)
LEMMA IdleIsRight ==
  ImportIsRight(Imei!Idle)
BY DEF ImportIsRight, Imei!Idle

(* An import that begins has written nothing.                              *)
LEMMA BegunIsRight ==
  ASSUME Imei!ImeiAssumption, NEW file \in Files, Imei!IsValidFile(file),
         NEW import, import = [Imei!Idle EXCEPT !.at = "import", !.rows = Imei!Rows(file)]
  PROVE  ImportIsRight(import)
<1>1. /\ DOMAIN import = {"at", "rows", "start", "chunk", "written"}
      /\ import.at = "import" /\ import.rows = Imei!Rows(file) /\ import.start = 0
      /\ import.chunk = <<>> /\ import.written = Imei!Nothing
  BY DEF Imei!Idle
<1>2. Len(import.rows) \in Nat
  BY <1>1, RowsDiffer, SeqShape
<1>3. /\ import.chunk \in Seq(Line) /\ Len(import.chunk) = 0
      /\ DOMAIN import.written = {}
  <2>1. <<>> \in Seq(Line) /\ Len(<<>>) = 0
    OBVIOUS
  <2>2. DOMAIN Imei!Nothing = {}
    BY DEF Imei!Nothing
  <2>3. QED
    BY <1>1, <2>1, <2>2
<1>4. 0 + 0 = IF import.start < Len(import.rows) THEN import.start ELSE Len(import.rows)
  BY <1>1, <1>2
<1>5. 1 .. 0 = {} /\ 0 \in Nat
  OBVIOUS
<1>6. IsAt(import, file, 0)
  BY <1>1, <1>3, <1>4, <1>5 DEF IsAt
<1>7. QED
  BY <1>1, <1>5, <1>6 DEF ImportIsRight, IsOnItsWay

(* The smaller of two numbers.                                             *)
LEMMA ImeiMin ==
  ASSUME NEW a \in Nat, NEW b \in Nat
  PROVE  Imei!Min({a, b}) = IF a < b THEN a ELSE b
<1>1. \A x \in {a, b} : (\A y \in {a, b} : x =< y) <=> x = IF a < b THEN a ELSE b
  OBVIOUS
<1>2. Imei!Min({a, b}) = CHOOSE x \in {a, b} : \A y \in {a, b} : x =< y
  BY DEF Imei!Min
<1>3. (IF a < b THEN a ELSE b) \in {a, b}
  OBVIOUS
<1>4. QED
  BY <1>1, <1>2, <1>3

(* Taking up the next chunk writes nothing.                                *)
LEMMA SentIsRight ==
  ASSUME Imei!ImeiAssumption, NEW import, ImportIsRight(import),
         import.at = "import", import.chunk = <<>>, import.start < Len(import.rows),
         NEW next,
         next = [import EXCEPT !.chunk = Imei!Chunk(import.rows, import.start),
                               !.start = @ + ChunkSize]
  PROVE  ImportIsRight(next)
<1> DEFINE rows == import.rows
           start == import.start
           end == IF start + ChunkSize < Len(rows) THEN start + ChunkSize ELSE Len(rows)
<1>1. PICK file \in Files, n \in Nat : Imei!IsValidFile(file) /\ IsAt(import, file, n)
  BY DEF ImportIsRight, IsOnItsWay
<1>2. /\ DOMAIN next = {"at", "rows", "start", "chunk", "written"}
      /\ next.at = "import" /\ next.rows = rows /\ next.written = import.written
      /\ next.chunk = Imei!Chunk(rows, start) /\ next.start = start + ChunkSize
  BY DEF ImportIsRight
<1>3. /\ rows = Imei!Rows(file) /\ rows \in Seq(Line) /\ Len(rows) \in Nat
      /\ start \in Nat /\ ChunkSize \in Nat \ {0} /\ start < Len(rows)
  BY <1>1, RowsDiffer, SeqShape DEF IsAt, Imei!ImeiAssumption
<1>4. n = start
  <2>1. Len(import.chunk) = 0
    OBVIOUS
  <2>2. n + 0 = start
    BY <1>1, <2>1 DEF IsAt
  <2>3. QED
    BY <2>2
<1>5. next.chunk = SubSeq(rows, start + 1, end)
  <2>1. start + ChunkSize \in Nat
    BY <1>3
  <2>2. Imei!Min({start + ChunkSize, Len(rows)}) = end
    BY <1>3, <2>1, ImeiMin
  <2> HIDE DEF end
  <2>3. QED
    BY <1>2, <2>2 DEF Imei!Chunk
<1>6. end \in Nat /\ start + 1 =< end + 1 /\ end =< Len(rows) /\ start < end
      /\ end = IF next.start < Len(rows) THEN next.start ELSE Len(rows)
  BY <1>2, <1>3
<1> HIDE DEF rows, start, end
<1>7. /\ next.chunk \in Seq(Line) /\ Len(next.chunk) = end - start
      /\ \A k \in 1 .. end - start : next.chunk[k] = rows[start + k]
  <2>1. start + 1 \in Nat /\ start + 1 \in 1 .. Len(rows) /\ end \in 1 .. Len(rows)
    BY <1>3, <1>6
  <2>2. SubSeq(rows, start + 1, end) \in Seq(Line)
    BY <1>3, <2>1
  <2>3. Len(SubSeq(rows, start + 1, end)) = end - start
    BY <1>3, <1>6, <2>1
  <2>4. \A k \in 1 .. end - start : SubSeq(rows, start + 1, end)[k] = rows[start + k]
    BY <1>3, <1>6, <2>1
  <2>5. QED
    BY <1>5, <2>2, <2>3, <2>4
<1>8. n + Len(next.chunk) = IF next.start < Len(next.rows) THEN next.start ELSE Len(next.rows)
  BY <1>2, <1>3, <1>4, <1>6, <1>7
<1>9. next.start \in Nat
  BY <1>2, <1>3
<1>10. IsAt(next, file, n)
  <2>1. \A k \in 1 .. Len(next.chunk) : next.chunk[k] = next.rows[n + k]
    BY <1>2, <1>4, <1>7
  <2>2. /\ DOMAIN import.written = {rows[k].tac : k \in 1 .. n}
        /\ \A k \in 1 .. n : import.written[rows[k].tac] = rows[k].device
    BY <1>1 DEF IsAt, rows
  <2>3. QED
    BY <1>2, <1>3, <1>7, <1>8, <1>9, <2>1, <2>2 DEF IsAt
<1>11. QED
  BY <1>1, <1>2, <1>10 DEF ImportIsRight, IsOnItsWay

(* Writing the next row of the chunk, of a TAC not yet written.            *)
LEMMA WrittenIsRight ==
  ASSUME Imei!ImeiAssumption, NEW import, ImportIsRight(import), import.chunk # <<>>,
         NEW next,
         next = [import EXCEPT
                   !.chunk = Tail(@),
                   !.written = [tac \in DOMAIN @ \cup {Head(import.chunk).tac} |->
                                  IF tac = Head(import.chunk).tac
                                  THEN Head(import.chunk).device ELSE @[tac]]]
  PROVE  ImportIsRight(next)
<1> DEFINE rows == import.rows
           chunk == import.chunk
           written == import.written
           line == Head(import.chunk)
<1>1. PICK file \in Files, n \in Nat : Imei!IsValidFile(file) /\ IsAt(import, file, n)
  BY DEF ImportIsRight, IsOnItsWay
<1>2. import.at = "import"
  BY DEF ImportIsRight, IsOnItsWay
<1>3. /\ DOMAIN next = {"at", "rows", "start", "chunk", "written"}
      /\ next.at = "import" /\ next.rows = rows /\ next.start = import.start
      /\ next.chunk = Tail(chunk)
      /\ next.written = [tac \in DOMAIN written \cup {line.tac} |->
                           IF tac = line.tac THEN line.device ELSE written[tac]]
  BY <1>2 DEF ImportIsRight
<1>4. /\ rows = Imei!Rows(file) /\ rows \in Seq(Line) /\ Len(rows) \in Nat
      /\ \A k, l \in 1 .. Len(rows) : k # l => rows[k].tac # rows[l].tac
      /\ import.start \in Nat /\ chunk \in Seq(Line) /\ chunk # <<>>
      /\ n + Len(chunk) = IF import.start < Len(rows) THEN import.start ELSE Len(rows)
      /\ \A k \in 1 .. Len(chunk) : chunk[k] = rows[n + k]
      /\ DOMAIN written = {rows[k].tac : k \in 1 .. n}
      /\ \A k \in 1 .. n : written[rows[k].tac] = rows[k].device
  BY <1>1, RowsDiffer, SeqShape DEF IsAt
<1> HIDE DEF rows, chunk, written
<1>5. Len(chunk) \in Nat /\ Len(chunk) >= 1 /\ line = chunk[1]
  BY <1>4 DEF chunk
<1>6. /\ Tail(chunk) \in Seq(Line) /\ Len(Tail(chunk)) = Len(chunk) - 1
      /\ \A k \in 1 .. Len(chunk) - 1 : Tail(chunk)[k] = chunk[k + 1]
  BY <1>4, <1>5
<1> HIDE DEF line
<1>7. n + 1 \in 1 .. Len(rows) /\ line = rows[n + 1]
  <2>1. 1 \in 1 .. Len(chunk) /\ n + 1 =< Len(rows)
    BY <1>4, <1>5
  <2>2. QED
    BY <1>4, <1>5, <2>1
<1>8. \A k \in 1 .. n + 1 : k \in 1 .. Len(rows) /\ (k \in 1 .. n \/ k = n + 1)
  BY <1>4, <1>7
<1>9. n + 1 \in 1 .. n + 1 /\ \A k \in 1 .. n : k \in 1 .. n + 1 /\ k # n + 1
  OBVIOUS
<1>10. DOMAIN next.written = {rows[k].tac : k \in 1 .. n + 1}
  <2>1. DOMAIN next.written = DOMAIN written \cup {line.tac}
    BY <1>3
  <2>2. QED
    BY <1>4, <1>7, <1>8, <1>9, <2>1
<1>11. ASSUME NEW k \in 1 .. n + 1 PROVE next.written[rows[k].tac] = rows[k].device
  <2>1. rows[k].tac \in DOMAIN next.written
    BY <1>10
  <2>2. CASE k = n + 1
    BY <1>3, <1>7, <2>1, <2>2
  <2>3. CASE k # n + 1
    <3>1. k \in 1 .. n /\ rows[k].tac # line.tac
      BY <1>4, <1>7, <1>8, <2>3
    <3>2. rows[k].tac \in DOMAIN written \cup {line.tac}
      BY <1>4, <3>1
    <3>3. next.written[rows[k].tac] = written[rows[k].tac]
      BY <1>3, <3>1, <3>2
    <3>4. QED
      BY <1>4, <3>1, <3>3
  <2>4. QED
    BY <2>2, <2>3
<1>12. n + 1 + Len(Tail(chunk))
         = IF import.start < Len(rows) THEN import.start ELSE Len(rows)
  BY <1>4, <1>5, <1>6
<1>13. \A k \in 1 .. Len(Tail(chunk)) : Tail(chunk)[k] = rows[n + 1 + k]
  <2>1. \A k \in 1 .. Len(chunk) - 1 : k + 1 \in 1 .. Len(chunk) /\ n + (k + 1) = n + 1 + k
    BY <1>5
  <2>2. QED
    BY <1>4, <1>6, <2>1
<1>14. IsAt(next, file, n + 1)
  <2>1. next.rows = Imei!Rows(file) /\ next.start \in Nat /\ next.chunk \in Seq(Line)
    BY <1>3, <1>4, <1>6
  <2>2. n + 1 + Len(next.chunk)
          = IF next.start < Len(next.rows) THEN next.start ELSE Len(next.rows)
    BY <1>3, <1>12
  <2>3. \A k \in 1 .. Len(next.chunk) : next.chunk[k] = next.rows[n + 1 + k]
    BY <1>3, <1>13
  <2>4. /\ DOMAIN next.written = {next.rows[k].tac : k \in 1 .. n + 1}
        /\ \A k \in 1 .. n + 1 : next.written[next.rows[k].tac] = next.rows[k].device
    <3>1. next.rows = rows
      BY <1>3
    <3>2. QED
      BY <1>10, <1>11, <3>1, Zenon
  <2>5. QED
    BY <2>1, <2>2, <2>3, <2>4 DEF IsAt
<1>15. n + 1 \in Nat
  OBVIOUS
<1>16. QED
  BY <1>1, <1>3, <1>14, <1>15 DEF ImportIsRight, IsOnItsWay

(* Every step keeps the invariant.                                         *)
LEMMA NextImei ==
  ASSUME Imei!ImeiAssumption, ImeiInv, [Imei!Next]_(Imei!vars)
  PROVE  ImeiInv'
<1>1. ASSUME NEW i \in Importers, NEW import, ImportIsRight(import), Imei!Continue(i, import)
      PROVE  ImeiInv'
  BY <1>1 DEF ImeiInv, Imei!Continue
<1>2. ASSUME NEW i \in Importers, NEW file \in Files, Imei!Begin(i, file)
      PROVE  ImeiInv'
  <2> DEFINE import == [Imei!Idle EXCEPT !.at = "import", !.rows = Imei!Rows(file)]
  <2>1. Imei!IsValidFile(file) /\ Imei!Continue(i, import)
    BY <1>2 DEF Imei!Begin
  <2>2. ImportIsRight(import)
    BY <2>1, BegunIsRight
  <2>3. QED
    BY <1>1, <2>1, <2>2
<1>3. ASSUME NEW i \in Importers, Imei!SendChunk(i)
      PROVE  ImeiInv'
  <2> DEFINE import == imports[i]
             next == [import EXCEPT !.chunk = Imei!Chunk(import.rows, import.start),
                                    !.start = @ + ChunkSize]
  <2>1. /\ import.at = "import" /\ import.chunk = <<>> /\ import.start < Len(import.rows)
        /\ Imei!Continue(i, next)
    BY <1>3 DEF Imei!SendChunk
  <2>2. ImportIsRight(next)
    BY <2>1, SentIsRight DEF ImeiInv
  <2> HIDE DEF next
  <2>3. QED
    BY <1>1, <2>1, <2>2
<1>4. ASSUME NEW i \in Importers, Imei!UpsertRow(i)
      PROVE  ImeiInv'
  <2> DEFINE import == imports[i]
             line == Head(import.chunk)
             next == [import EXCEPT
                        !.chunk = Tail(@),
                        !.written = [tac \in DOMAIN @ \cup {line.tac} |->
                                       IF tac = line.tac THEN line.device ELSE @[tac]]]
  <2>1. import.chunk # <<>> /\ (Imei!Continue(i, Imei!Idle) \/ Imei!Continue(i, next))
    BY <1>4 DEF Imei!UpsertRow
  <2>2. ImportIsRight(next)
    BY <2>1, WrittenIsRight DEF ImeiInv
  <2> HIDE DEF next
  <2>3. QED
    BY <1>1, <2>1, <2>2, IdleIsRight
<1>5. ASSUME NEW i \in Importers, Imei!Commit(i) \/ Imei!Rollback(i)
      PROVE  ImeiInv'
  BY <1>1, <1>5, IdleIsRight DEF Imei!Commit, Imei!Rollback
<1>6. CASE UNCHANGED Imei!vars
  BY <1>6 DEF Imei!vars, ImeiInv
<1>7. QED
  BY <1>2, <1>3, <1>4, <1>5, <1>6 DEF Imei!Next

(* The invariant holds in every state.                                     *)
LEMMA ImeiInvariance ==
  ASSUME Imei!ImeiAssumption
  PROVE  Imei!Spec => []ImeiInv
<1>1. Imei!Init => ImeiInv
  BY IdleIsRight DEF Imei!Init, ImeiInv
<1>2. ImeiInv /\ [Imei!Next]_(Imei!vars) => ImeiInv'
  BY NextImei
<1>3. QED
  BY <1>1, <1>2, PTL DEF Imei!Spec

(* An import that commits has written its file.                            *)
LEMMA CommittedIsApplied ==
  ASSUME Imei!ImeiAssumption, ImeiInv, NEW i \in Importers, Imei!Commit(i)
  PROVE  \E file \in Files : Imei!Applied(file)
<1> DEFINE import == imports[i]
           rows == import.rows
           written == import.written
<1>1. /\ import.at = "import" /\ import.chunk = <<>> /\ import.start >= Len(rows)
      /\ table' = [tac \in TACs |-> IF tac \in DOMAIN written THEN written[tac] ELSE table[tac]]
  BY DEF Imei!Commit
<1>2. PICK file \in Files, n \in Nat : Imei!IsValidFile(file) /\ IsAt(import, file, n)
  BY <1>1 DEF ImeiInv, ImportIsRight, IsOnItsWay
<1> DEFINE lines == Imei!RowLines(file)
<1>3. /\ rows = Imei!Rows(file) /\ rows \in Seq(Line) /\ Len(rows) \in Nat
      /\ import.start \in Nat
      /\ n + Len(import.chunk) = IF import.start < Len(rows) THEN import.start ELSE Len(rows)
      /\ DOMAIN written = {rows[k].tac : k \in 1 .. n}
      /\ \A k \in 1 .. n : written[rows[k].tac] = rows[k].device
  BY <1>2, RowsDiffer, SeqShape DEF IsAt
<1>4. n = Len(rows)
  <2>1. Len(import.chunk) = 0
    BY <1>1
  <2>2. n + 0 = Len(rows)
    BY <1>1, <1>3, <2>1
  <2>3. QED
    BY <2>2
<1>5. file \in Seq(Line)
  BY DEF Imei!ImeiAssumption, Line
<1>6. /\ \A j \in lines : file[j] \in Line
      /\ \A j \in lines : \E k \in 1 .. n : rows[k] = file[j]
      /\ \A k \in 1 .. n : \E j \in lines : rows[k] = file[j]
  <2>1. Cardinality(lines) = n
    BY <1>3, <1>4, <1>5, RowsAreLines
  <2>2. \A j \in lines : file[j] \in Line
    BY <1>5 DEF Imei!RowLines
  <2> HIDE DEF rows, written
  <2>3. /\ \A j \in lines : \E k \in 1 .. Cardinality(lines) : rows[k] = file[j]
        /\ \A k \in 1 .. Cardinality(lines) : \E j \in lines : rows[k] = file[j]
    BY <1>3, <1>5, RowsAreLines
  <2> HIDE DEF lines
  <2>4. QED
    BY <2>1, <2>2, <2>3
<1> HIDE DEF rows, written, lines
<1>7. \A j \in lines : /\ file[j].tac \in DOMAIN written
                       /\ written[file[j].tac] = file[j].device
                       /\ file[j].device \in Devices
  <2> SUFFICES ASSUME NEW j \in lines
               PROVE  /\ file[j].tac \in DOMAIN written
                      /\ written[file[j].tac] = file[j].device
                      /\ file[j].device \in Devices
    OBVIOUS
  <2>1. file[j].device \in Devices
    BY <1>6 DEF Line
  <2>2. PICK k \in 1 .. n : rows[k] = file[j]
    BY <1>6
  <2>3. rows[k].tac \in DOMAIN written /\ written[rows[k].tac] = rows[k].device
    BY <1>3
  <2>4. QED
    BY <2>1, <2>2, <2>3
<1>8. \A tac \in DOMAIN written : \E j \in lines : file[j].tac = tac
  BY <1>3, <1>6
<1>9. \A d \in Devices : d # Unknown
  BY DEF Imei!ImeiAssumption
<1>10. ASSUME NEW tac \in TACs, {j \in lines : file[j].tac = tac} = {}
       PROVE  Imei!Lookup(15, tac)' = Imei!Lookup(15, tac)
  <2>1. table'[tac] = table[tac]
    BY <1>1, <1>8, <1>10
  <2>2. QED
    BY <2>1 DEF Imei!Lookup
<1>11. ASSUME NEW tac \in TACs, NEW j \in lines, file[j].tac = tac
       PROVE  Imei!Lookup(15, tac)' = file[j].device
  <2>1. table'[tac] = file[j].device /\ file[j].device # Unknown
    BY <1>1, <1>7, <1>9, <1>11
  <2>2. QED
    BY <2>1 DEF Imei!Lookup
<1>12. Imei!Applied(file)
  BY <1>10, <1>11 DEF Imei!Applied, lines
<1>13. QED
  BY <1>12

(* So files take effect as a whole, of the import by itself.               *)
LEMMA WholeFilesByItself ==
  ASSUME Imei!ImeiAssumption
  PROVE  Imei!Spec => Imei!WholeFiles
<1>1. ASSUME ImeiInv, Imei!Next
      PROVE  table' = table \/ \E file \in Files : Imei!Applied(file)
  <2>1. ASSUME NEW i \in Importers, NEW file \in Files, Imei!Begin(i, file)
        PROVE  table' = table
    BY <2>1 DEF Imei!Begin
  <2>2. ASSUME NEW i \in Importers, Imei!SendChunk(i) \/ Imei!UpsertRow(i) \/ Imei!Rollback(i)
        PROVE  table' = table
    BY <2>2 DEF Imei!SendChunk, Imei!UpsertRow, Imei!Rollback
  <2>3. ASSUME NEW i \in Importers, Imei!Commit(i)
        PROVE  \E file \in Files : Imei!Applied(file)
    BY <1>1, <2>3, CommittedIsApplied
  <2>4. QED
    BY <1>1, <2>1, <2>2, <2>3 DEF Imei!Next
<1>2. ImeiInv /\ [Imei!Next]_(Imei!vars)
        => [table' = table \/ \E file \in Files : Imei!Applied(file)]_(Imei!vars)
  BY <1>1
<1>3. QED
  BY <1>2, ImeiInvariance, PTL DEF Imei!Spec, Imei!WholeFiles

---------------------------------------------------------------------------
(* Multiples and quotients.                                                *)
LEMMA Distributes ==
  ASSUME NEW a \in Int, NEW b \in Int, NEW c \in Int
  PROVE  /\ (a + b) * c = a * c + b * c
         /\ (a - b) * c = a * c - b * c
         /\ a * b \in Int /\ a * b = b * a
         /\ a * (b * c) = (a * b) * c
OBVIOUS

(* Multiples of a positive number are in the order of what is multiplied.  *)
LEMMA MultiplesKeepOrder ==
  ASSUME NEW a \in Int, NEW b \in Int, NEW c \in Nat \ {0}
  PROVE  a =< b <=> a * c =< b * c
OBVIOUS

(* A number lies between two neighbouring multiples, its rest above the    *)
(* lower.                                                                  *)
LEMMA QuotientBounds ==
  ASSUME NEW a \in Nat, NEW b \in Nat \ {0}
  PROVE  /\ a \div b \in Nat
         /\ (a \div b) * b =< a
         /\ a < (a \div b) * b + b
         /\ a % b \in 0 .. b - 1
         /\ a = (a \div b) * b + (a % b)
<1>1. a = b * (a \div b) + (a % b)
  OBVIOUS
<1>2. a % b \in 0 .. b - 1
  OBVIOUS
<1>3. a \div b \in Int
  OBVIOUS
<1>4. a \div b >= 0
  OBVIOUS
<1>5. b * (a \div b) = (a \div b) * b
  BY <1>3
<1>6. QED
  BY <1>1, <1>2, <1>3, <1>4, <1>5

(* A quotient is the largest of the multiples that do not go beyond.       *)
LEMMA QuotientOrder ==
  ASSUME NEW a \in Nat, NEW b \in Nat \ {0}, NEW c \in Int
  PROVE  c * b =< a <=> c =< a \div b
<1> DEFINE q == a \div b
<1>1. q \in Nat /\ q * b =< a /\ a < q * b + b
  BY QuotientBounds
<1> HIDE DEF q
<1>2. q + 1 \in Int /\ (q + 1) * b = q * b + b
  BY <1>1, Distributes
<1>3. q * b \in Int /\ c * b \in Int /\ b \in Nat
  BY <1>1, Distributes
<1>4. ASSUME c =< q PROVE c * b =< a
  <2>1. c * b =< q * b
    BY <1>1, <1>4, MultiplesKeepOrder
  <2>2. QED
    BY <1>1, <1>3, <2>1
<1>5. ASSUME c * b =< a PROVE c =< q
  <2>1. ~((q + 1) * b =< c * b)
    BY <1>1, <1>2, <1>3, <1>5
  <2>2. ~(q + 1 =< c)
    BY <1>2, <2>1, MultiplesKeepOrder
  <2>3. QED
    BY <1>1, <2>2
<1>6. QED
  BY <1>4, <1>5 DEF q

---------------------------------------------------------------------------
(* The dashboard.                                                          *)

(* What the constants are, one by one.                                     *)
LEMMA BoardConstants ==
  ASSUME Board!DashboardAssumption
  PROVE  /\ Requests \subseteq Nat
         /\ MonthTicks \in Nat \ {0} /\ YearMonths \in Nat \ {0} /\ MinYear \in Nat \ {0}
         /\ Limit \in Nat \ {0}
         /\ Zone \in Nat /\ LastTick \in Nat /\ MaxYear \in Nat
BY DEF Board!DashboardAssumption

(* Months and years are numbered, and follow time.                         *)
LEMMA CalendarTyped ==
  ASSUME Board!DashboardAssumption, NEW t \in Nat
  PROVE  /\ t + Zone \in Nat /\ Board!MonthNumber(t) \in Nat
         /\ Board!MonthNumber(t) \div YearMonths \in Nat
         /\ Board!MonthNumber(t) % YearMonths \in 0 .. YearMonths - 1
         /\ Board!Year(t) \in Nat /\ Board!Year(t) >= MinYear
         /\ Board!Month(t) \in 1 .. YearMonths
<1>1. t + Zone \in Nat /\ MonthTicks \in Nat \ {0} /\ YearMonths \in Nat \ {0} /\ MinYear \in Nat
  BY BoardConstants
<1>2. Board!MonthNumber(t) \in Nat
  BY <1>1, QuotientBounds DEF Board!MonthNumber
<1>3. /\ Board!MonthNumber(t) \div YearMonths \in Nat
      /\ Board!MonthNumber(t) % YearMonths \in 0 .. YearMonths - 1
  BY <1>1, <1>2, QuotientBounds
<1> DEFINE q == Board!MonthNumber(t) \div YearMonths
           p == Board!MonthNumber(t) % YearMonths
<1>4. Board!Year(t) = MinYear + q /\ Board!Month(t) = 1 + p
  BY DEF Board!Year, Board!Month
<1> HIDE DEF q, p
<1>5. q \in Nat /\ p \in 0 .. YearMonths - 1
  BY <1>3 DEF q, p
<1>6. QED
  BY <1>1, <1>2, <1>3, <1>4, <1>5

(* A month begins and ends where its number does.                          *)
LEMMA MonthRange ==
  ASSUME Board!DashboardAssumption, NEW t \in Nat, NEW u \in Nat
  PROVE  Board!monthStart(t) =< u /\ u < Board!monthStart(t) + MonthTicks
           <=> Board!MonthNumber(u) = Board!MonthNumber(t)
<1> DEFINE m == Board!MonthNumber(t)
           n == Board!MonthNumber(u)
<1>1. /\ m \in Nat /\ n \in Nat /\ m + 1 \in Int /\ u + Zone \in Nat
      /\ MonthTicks \in Nat \ {0} /\ Zone \in Nat
  BY BoardConstants, CalendarTyped
<1>2. n = (u + Zone) \div MonthTicks
  BY DEF Board!MonthNumber
<1>3. Board!monthStart(t) = m * MonthTicks - Zone
  BY DEF Board!monthStart
<1> HIDE DEF m, n
<1>4. m * MonthTicks =< u + Zone <=> m =< n
  BY <1>1, <1>2, QuotientOrder
<1>5. (m + 1) * MonthTicks =< u + Zone <=> m + 1 =< n
  BY <1>1, <1>2, QuotientOrder
<1>6. (m + 1) * MonthTicks = m * MonthTicks + MonthTicks /\ m * MonthTicks \in Int
  BY <1>1, Distributes
<1>7. QED
  BY <1>1, <1>3, <1>4, <1>5, <1>6 DEF m, n

(* And so does a year.                                                     *)
LEMMA YearRange ==
  ASSUME Board!DashboardAssumption, NEW year \in Int, NEW u \in Nat
  PROVE  Board!yearStart(year) =< u /\ u < Board!yearStart(year + 1) <=> year = Board!Year(u)
<1> DEFINE n == Board!MonthNumber(u)
           q == n \div YearMonths
           k == year - MinYear
<1>1. /\ n \in Nat /\ u + Zone \in Nat /\ q \in Nat
      /\ MonthTicks \in Nat \ {0} /\ YearMonths \in Nat \ {0} /\ Zone \in Nat /\ MinYear \in Nat
  BY BoardConstants, CalendarTyped
<1>2. n = (u + Zone) \div MonthTicks
  BY DEF Board!MonthNumber
<1>3. Board!yearStart(year) = (k * YearMonths) * MonthTicks - Zone
      /\ Board!yearStart(year + 1) = (((year + 1) - MinYear) * YearMonths) * MonthTicks - Zone
      /\ Board!Year(u) = MinYear + q
  <2>1. Board!yearStart(year) = (k * YearMonths) * MonthTicks - Zone
    BY Zenon DEF Board!yearStart
  <2>2. Board!yearStart(year + 1) = (((year + 1) - MinYear) * YearMonths) * MonthTicks - Zone
    BY Zenon DEF Board!yearStart
  <2>3. Board!Year(u) = MinYear + q
    BY Zenon DEF Board!Year
  <2>4. QED
    BY <2>1, <2>2, <2>3, Zenon
<1>4. k \in Int /\ k + 1 \in Int /\ (year + 1) - MinYear = k + 1
  BY <1>1
<1> HIDE DEF n, k
<1>5. /\ k * YearMonths \in Int /\ (k + 1) * YearMonths \in Int
      /\ (k * YearMonths) * MonthTicks \in Int /\ ((k + 1) * YearMonths) * MonthTicks \in Int
  BY <1>1, <1>4, Distributes
<1>6. /\ (k * YearMonths) * MonthTicks =< u + Zone <=> k * YearMonths =< n
      /\ k * YearMonths =< n <=> k =< q
  BY <1>1, <1>2, <1>4, <1>5, QuotientOrder
<1>7. /\ ((k + 1) * YearMonths) * MonthTicks =< u + Zone <=> (k + 1) * YearMonths =< n
      /\ (k + 1) * YearMonths =< n <=> k + 1 =< q
  BY <1>1, <1>2, <1>4, <1>5, QuotientOrder
<1> HIDE DEF q
<1>8. Board!yearStart(year) =< u /\ u < Board!yearStart(year + 1) <=> k =< q /\ q < k + 1
  <2> DEFINE from == (k * YearMonths) * MonthTicks
             to == ((k + 1) * YearMonths) * MonthTicks
  <2>1. /\ Board!yearStart(year) = from - Zone /\ Board!yearStart(year + 1) = to - Zone
        /\ from \in Int /\ to \in Int
    BY <1>3, <1>4, <1>5
  <2>2. (from =< u + Zone <=> k =< q) /\ (to =< u + Zone <=> k + 1 =< q)
    BY <1>6, <1>7
  <2> HIDE DEF from, to
  <2>3. QED
    BY <1>1, <1>4, <2>1, <2>2
<1>9. k = year - MinYear
  BY DEF k
<1>10. QED
  BY <1>1, <1>3, <1>8, <1>9, <1>4

(* A month of a year has one number.                                       *)
LEMMA MonthOfYear ==
  ASSUME Board!DashboardAssumption, NEW t \in Nat, NEW u \in Nat
  PROVE  Board!MonthNumber(u) = Board!MonthNumber(t)
           <=> Board!Year(u) = Board!Year(t) /\ Board!Month(u) = Board!Month(t)
<1> DEFINE m == Board!MonthNumber(t)
           n == Board!MonthNumber(u)
<1>1. m \in Nat /\ n \in Nat /\ MinYear \in Nat /\ YearMonths \in Nat \ {0}
  BY BoardConstants, CalendarTyped
<1>2. /\ Board!Year(u) = MinYear + (n \div YearMonths)
      /\ Board!Month(u) = 1 + (n % YearMonths)
      /\ Board!Year(t) = MinYear + (m \div YearMonths)
      /\ Board!Month(t) = 1 + (m % YearMonths)
  BY DEF Board!Year, Board!Month
<1>3. /\ m \div YearMonths \in Nat /\ n \div YearMonths \in Nat
      /\ m % YearMonths \in Int /\ n % YearMonths \in Int
      /\ m = (m \div YearMonths) * YearMonths + (m % YearMonths)
      /\ n = (n \div YearMonths) * YearMonths + (n % YearMonths)
  <2> HIDE DEF m, n
  <2>1. \A x \in 0 .. YearMonths - 1 : x \in Int
    OBVIOUS
  <2>2. QED
    BY <1>1, <2>1, QuotientBounds
<1> DEFINE mq == m \div YearMonths
           mr == m % YearMonths
           nq == n \div YearMonths
           nr == n % YearMonths
<1>4. /\ Board!Year(u) = Board!Year(t) <=> nq = mq
      /\ Board!Month(u) = Board!Month(t) <=> nr = mr
  <2>1. mq \in Nat /\ nq \in Nat /\ mr \in Int /\ nr \in Int
    BY <1>3
  <2> HIDE DEF m, n, mq, nq, mr, nr
  <2>2. QED
    BY <1>1, <1>2, <2>1 DEF mq, nq, mr, nr
<1> HIDE DEF m, n
<1>5. nq = mq /\ nr = mr => n = m
  BY <1>3
<1>6. n = m => nq = mq /\ nr = mr
  OBVIOUS
<1> HIDE DEF mq, nq, mr, nr
<1>7. QED
  BY <1>4, <1>5, <1>6 DEF m, n

(* Time does not run backwards through months and years.                   *)
LEMMA CalendarOrder ==
  ASSUME Board!DashboardAssumption, NEW t \in Nat, NEW u \in Nat, u =< t
  PROVE  /\ Board!Year(u) =< Board!Year(t)
         /\ Board!Year(u) = Board!Year(t) => Board!Month(u) =< Board!Month(t)
<1> DEFINE m == Board!MonthNumber(t)
           n == Board!MonthNumber(u)
           mq == m \div YearMonths
           nq == n \div YearMonths
           mr == m % YearMonths
           nr == n % YearMonths
<1>1. /\ m \in Nat /\ n \in Nat /\ MinYear \in Nat /\ YearMonths \in Nat \ {0}
      /\ MonthTicks \in Nat \ {0} /\ Zone \in Nat /\ t + Zone \in Nat /\ u + Zone \in Nat
  BY BoardConstants, CalendarTyped
<1>2. n =< m
  <2>1. n = (u + Zone) \div MonthTicks /\ m = (t + Zone) \div MonthTicks
    BY DEF Board!MonthNumber
  <2> HIDE DEF m, n
  <2>2. n * MonthTicks =< u + Zone
    BY <1>1, <2>1, QuotientBounds
  <2>3. n * MonthTicks \in Int
    BY <1>1, Distributes
  <2>4. n * MonthTicks =< t + Zone
    BY <1>1, <2>2, <2>3
  <2>5. QED
    BY <1>1, <2>1, <2>4, QuotientOrder
<1>3. /\ Board!Year(u) = MinYear + nq /\ Board!Month(u) = 1 + nr
      /\ Board!Year(t) = MinYear + mq /\ Board!Month(t) = 1 + mr
  BY DEF Board!Year, Board!Month
<1> HIDE DEF m, n
<1>4. /\ mq \in Nat /\ nq \in Nat /\ mr \in Int /\ nr \in Int
      /\ m = mq * YearMonths + mr /\ n = nq * YearMonths + nr
      /\ nq * YearMonths =< n
  <2>1. \A x \in 0 .. YearMonths - 1 : x \in Int
    OBVIOUS
  <2>2. QED
    BY <1>1, <2>1, QuotientBounds
<1>5. nq =< mq
  <2>1. nq * YearMonths \in Int
    BY <1>1, <1>4, Distributes
  <2>2. nq * YearMonths =< m
    BY <1>1, <1>2, <1>4, <2>1
  <2>3. QED
    BY <1>1, <1>4, <2>2, QuotientOrder
<1>6. mq * YearMonths \in Int
  BY <1>1, <1>4, Distributes
<1> HIDE DEF mq, nq, mr, nr
<1>7. QED
  BY <1>1, <1>2, <1>3, <1>4, <1>5, <1>6

(* The dashboard counts as everybody does.                                 *)
LEMMA BoardCounts ==
  /\ \A S : Board!Cardinality(S) = Cardinality(S)
  /\ \A S : Board!IsFiniteSet(S) <=> IsFiniteSet(S)
BY DEF Board!Cardinality, Cardinality, Board!IsFiniteSet, IsFiniteSet

(* Requests are made at times that were, in the words there are.           *)
Priority == {"urgent", ""}

BoardRequest ==
  [status : Board!RequestStatus, created : Nat, category : Categories \cup {Board!Absent},
   priority : Priority]

(* None of them is made in the future.                                     *)
BoardTyping ==
  /\ now \in Nat /\ now =< LastTick
  /\ requests \in [Requests -> BoardRequest]
  /\ \A r \in Requests : requests[r].created =< now

(* Each step keeps to that.                                                *)
LEMMA NextBoardTyping ==
  ASSUME Board!DashboardAssumption, BoardTyping, [Board!Next]_(Board!vars)
  PROVE  BoardTyping'
<1>1. CASE Board!Tick
  <2>1. now < LastTick /\ now' = now + 1 /\ requests' = requests
    BY <1>1 DEF Board!Tick
  <2>2. LastTick \in Nat /\ now' \in Nat /\ now' =< LastTick /\ now =< now'
    BY <2>1, BoardConstants DEF BoardTyping
  <2>3. \A r \in Requests : requests[r].created \in Nat /\ requests[r].created =< now
    BY DEF BoardTyping, BoardRequest
  <2>4. \A r \in Requests : requests[r].created =< now'
    BY <2>1, <2>3 DEF BoardTyping
  <2>5. QED
    BY <2>1, <2>2, <2>4 DEF BoardTyping
<1>2. ASSUME NEW r \in Requests, NEW category \in Categories, NEW priority \in Priority,
             Board!Submit(r, category, priority)
      PROVE  BoardTyping'
  <2> DEFINE made == [status |-> "WAITING_APPROVAL", created |-> now,
                      category |-> category, priority |-> priority]
  <2>1. now' = now /\ requests' = [requests EXCEPT ![r] = made]
    BY <1>2 DEF Board!Submit
  <2>2. made \in BoardRequest /\ made.created = now
    BY DEF BoardRequest, BoardTyping, Board!RequestStatus
  <2> HIDE DEF made
  <2>3. QED
    BY <2>1, <2>2 DEF BoardTyping
<1>3. ASSUME NEW r \in Requests, Board!MoveOn(r)
      PROVE  BoardTyping'
  <2>1. PICK status \in Board!Following[requests[r].status] :
          now' = now /\ requests' = [requests EXCEPT ![r].status = status]
    BY <1>3 DEF Board!MoveOn
  <2>2. requests[r] \in BoardRequest
    BY DEF BoardTyping
  <2>3. status \in Board!RequestStatus
    BY <2>1, <2>2 DEF BoardRequest, Board!Following, Board!RequestStatus, Board!Absent
  <2>4. QED
    BY <2>1, <2>3 DEF BoardTyping, BoardRequest
<1>4. ASSUME NEW year, Board!Open(year) PROVE BoardTyping'
  BY <1>4 DEF Board!Open, BoardTyping
<1>5. CASE Board!ReadStats \/ Board!ReadCounts \/ Board!ReadAttention \/ Board!Close
  BY <1>5 DEF Board!ReadStats, Board!ReadCounts, Board!ReadAttention, Board!Read, Board!Close,
              BoardTyping
<1>6. CASE UNCHANGED Board!vars
  BY <1>6 DEF Board!vars, BoardTyping
<1>7. QED
  BY <1>1, <1>2, <1>3, <1>4, <1>5, <1>6 DEF Board!Next, Priority

(* There are none to begin with.                                           *)
LEMMA InitBoardTyping ==
  ASSUME Board!DashboardAssumption, Board!Init
  PROVE  BoardTyping
<1>1. LastTick \in Nat
  BY BoardConstants
<1>2. Board!NoRequest \in BoardRequest /\ Board!NoRequest.created = 0
  BY DEF Board!NoRequest, BoardRequest, Board!RequestStatus, Board!Absent, Priority
<1>3. QED
  BY <1>1, <1>2 DEF Board!Init, BoardTyping

(* A bar counts the requests of its year, month and category.              *)
LEMMA InBarMeans ==
  ASSUME Board!DashboardAssumption, BoardTyping,
         NEW r \in Requests, NEW year \in Int, NEW month, NEW category
  PROVE  Board!InBar(r, year, month, category)
           <=> /\ r \in Board!Existing
               /\ year = Board!Year(requests[r].created)
               /\ Board!Month(requests[r].created) = month
               /\ requests[r].category = category
<1>1. requests[r].created \in Nat
  BY DEF BoardTyping, BoardRequest
<1>2. Board!yearStart(year) =< requests[r].created
        /\ requests[r].created < Board!yearStart(year + 1)
        <=> year = Board!Year(requests[r].created)
  BY <1>1, YearRange
<1>3. QED
  BY <1>2 DEF Board!InBar, Board!CreatedIn

(* So each request is in one bar, of the dashboard by itself: its year can *)
(* be chosen, and its month is shown.                                      *)
LEMMA EachInOneBarByItself ==
  ASSUME Board!DashboardAssumption, Board!TimeAssumption
  PROVE  Board!Spec => []Board!EachInOneBar
<1>1. ASSUME BoardTyping PROVE Board!EachInOneBar
  <2> SUFFICES ASSUME NEW r \in Board!Existing, requests[r].category \in Board!Charted
               PROVE  Board!BarsWith(r) = {<<Board!Year(requests[r].created),
                                            Board!Month(requests[r].created)>>}
    BY DEF Board!EachInOneBar
  <2> DEFINE t == requests[r].created
  <2>1. /\ r \in Requests /\ t \in Nat /\ t =< now
        /\ now \in Nat /\ now =< LastTick /\ LastTick \in Nat
    BY <1>1, BoardConstants DEF Board!Existing, BoardTyping, BoardRequest
  <2> HIDE DEF t
  <2>2. /\ Board!Year(t) =< Board!Year(now) /\ Board!Year(now) =< Board!Year(LastTick)
        /\ Board!Year(t) = Board!Year(now) => Board!Month(t) =< Board!Month(now)
    BY <2>1, CalendarOrder
  <2>3. /\ Board!Year(t) \in Nat /\ Board!Year(now) \in Nat /\ Board!Year(LastTick) \in Nat
        /\ Board!Year(t) >= MinYear /\ Board!Month(t) \in 1 .. YearMonths
        /\ MinYear \in Nat /\ MaxYear \in Nat /\ YearMonths \in Nat
    BY <2>1, CalendarTyped, BoardConstants
  <2>4. Board!Year(t) \in MinYear .. MaxYear
    BY <2>2, <2>3 DEF Board!TimeAssumption
  <2>5. Board!Month(t) =< Board!monthsToShow(Board!Year(t), now)
    BY <2>2, <2>3 DEF Board!monthsToShow
  <2>6. \A year \in MinYear .. MaxYear, month \in 1 .. YearMonths :
          (\E c \in Board!Charted : Board!InBar(r, year, month, c))
             <=> year = Board!Year(t) /\ Board!Month(t) = month
    <3>1. \A year \in MinYear .. MaxYear : year \in Int
      BY <2>3
    <3>2. QED
      BY <1>1, <2>1, <3>1, InBarMeans DEF t
  <2>7. ASSUME NEW bar \in (MinYear .. MaxYear) \X (1 .. YearMonths)
        PROVE  bar \in Board!BarsWith(r) <=> bar = <<Board!Year(t), Board!Month(t)>>
    <3>1. bar \in Board!BarsWith(r)
            <=> /\ bar[2] =< Board!monthsToShow(bar[1], now)
                /\ \E c \in Board!Charted : Board!InBar(r, bar[1], bar[2], c)
      BY DEF Board!BarsWith
    <3>2. bar[1] \in MinYear .. MaxYear /\ bar[2] \in 1 .. YearMonths
          /\ bar = <<bar[1], bar[2]>>
      OBVIOUS
    <3>3. bar \in Board!BarsWith(r) <=> bar[1] = Board!Year(t) /\ bar[2] = Board!Month(t)
      BY <2>5, <2>6, <3>1, <3>2
    <3>4. QED
      BY <3>2, <3>3
  <2>8. Board!BarsWith(r) \subseteq (MinYear .. MaxYear) \X (1 .. YearMonths)
    BY DEF Board!BarsWith
  <2>9. <<Board!Year(t), Board!Month(t)>> \in (MinYear .. MaxYear) \X (1 .. YearMonths)
    BY <2>3, <2>4
  <2>10. QED
    BY <2>7, <2>8, <2>9 DEF t
<1>2. Board!Init => BoardTyping
  BY InitBoardTyping
<1>3. BoardTyping /\ [Board!Next]_(Board!vars) => BoardTyping'
  BY NextBoardTyping
<1>4. QED
  BY <1>1, <1>2, <1>3, PTL DEF Board!Spec

(* The first few of a row are as many as there are, or as asked for.       *)
LEMMA FirstFew ==
  ASSUME NEW S, IsFiniteSet(S), NEW R, IsRow(S, R), NEW few \in Nat
  PROVE  Cardinality({x \in S : Cardinality(Below(S, R, x)) < few})
           = IF few < Cardinality(S) THEN few ELSE Cardinality(S)
<1> DEFINE n == Cardinality(S)
           end == IF few < n THEN few ELSE n
           First == {x \in S : Cardinality(Below(S, R, x)) < few}
           I == 0 .. end - 1
           rank == [x \in First |-> Cardinality(Below(S, R, x))]
<1>1. n \in Nat
  BY FS_CardinalityType
<1>2. /\ \A x \in S : Cardinality(Below(S, R, x)) \in 0 .. n - 1
      /\ \A x, y \in S :
           Cardinality(Below(S, R, x)) = Cardinality(Below(S, R, y)) => x = y
      /\ \A k \in 0 .. n - 1 : \E x \in S : Cardinality(Below(S, R, x)) = k
  BY RankIsBelow, RankIsBijection
<1>3. /\ end \in Nat /\ I \subseteq 0 .. n - 1
      /\ \A k \in I : k < few
      /\ \A k \in 0 .. n - 1 : k < few => k \in I
  BY <1>1
<1>4. First \in SUBSET S /\ IsFiniteSet(First)
  BY FS_Subset
<1> HIDE DEF end, I
<1>5. \A x \in First : rank[x] = Cardinality(Below(S, R, x)) /\ rank[x] \in I
  <2>1. \A x \in First : x \in S /\ Cardinality(Below(S, R, x)) < few
    OBVIOUS
  <2>2. \A x \in First : Cardinality(Below(S, R, x)) \in I
    BY <1>2, <1>3, <2>1
  <2> HIDE DEF First
  <2>3. QED
    BY <2>2
<1>6. \A x, y \in First : rank[x] = rank[y] => x = y
  BY <1>2
<1>7. \A k \in I : \E x \in First : rank[x] = k
  <2> TAKE k \in I
  <2>1. PICK x \in S : Cardinality(Below(S, R, x)) = k
    BY <1>2, <1>3
  <2>2. x \in First
    BY <1>3, <2>1
  <2>3. QED
    BY <1>5, <2>1, <2>2
<1>8. rank \in [First -> I]
  BY <1>5
<1> HIDE DEF First, rank
<1>9. ExistsBijection(First, I)
  BY <1>6, <1>7, <1>8 DEF ExistsBijection, Bijection, Injection, Surjection, IsInjective
<1>10. Cardinality(First) = Cardinality(I)
  BY <1>4, <1>9, FS_Bijection
<1>11. Cardinality(I) = end
  <2>1. 0 \in Int /\ end - 1 \in Int
    BY <1>3
  <2>2. Cardinality(I) = IF 0 > end - 1 THEN 0 ELSE end - 1 - 0 + 1
    BY <2>1, FS_Interval DEF I
  <2>3. QED
    BY <1>3, <2>2
<1>12. QED
  BY <1>10, <1>11 DEF First, end

(* The sum over the categories of the chart, spelled out.                  *)
Share(g, s, c) == IF c \in s THEN g[c] ELSE 0

Total(g, s) ==
  Share(g, s, "Barcode") + Share(g, s, "Android") + Share(g, s, "Server")
    + Share(g, s, "Mobile Printer")

(* Taking a category away takes its share away.                            *)
LEMMA TotalOfLess ==
  ASSUME NEW g \in [Board!Charted -> Nat], NEW s \in SUBSET Board!Charted, NEW x \in s
  PROVE  Total(g, s) = g[x] + Total(g, s \ {x})
<1>1. x \in {"Barcode", "Android", "Server", "Mobile Printer"}
  BY DEF Board!Charted
<1>2. \A c \in Board!Charted :
        /\ Share(g, s, c) \in Nat /\ Share(g, s \ {x}, c) \in Nat /\ g[x] \in Nat
        /\ Share(g, s, c) = IF c = x THEN g[x] + Share(g, s \ {x}, c) ELSE Share(g, s \ {x}, c)
        /\ Share(g, s \ {x}, x) = 0
  BY DEF Share
<1>3. "Barcode" \in Board!Charted /\ "Android" \in Board!Charted /\ "Server" \in Board!Charted
      /\ "Mobile Printer" \in Board!Charted
  BY DEF Board!Charted
<1> DEFINE b == Share(g, s \ {x}, "Barcode")
           a == Share(g, s \ {x}, "Android")
           v == Share(g, s \ {x}, "Server")
           m == Share(g, s \ {x}, "Mobile Printer")
<1>4. /\ Total(g, s \ {x}) = b + a + v + m
      /\ b \in Nat /\ a \in Nat /\ v \in Nat /\ m \in Nat /\ g[x] \in Nat
  BY <1>2, <1>3 DEF Total
<1> DEFINE bb == Share(g, s, "Barcode")
           aa == Share(g, s, "Android")
           vv == Share(g, s, "Server")
           mm == Share(g, s, "Mobile Printer")
<1>5. Total(g, s) = bb + aa + vv + mm
  BY DEF Total
<1>6. \/ bb = g[x] + b /\ aa = a /\ vv = v /\ mm = m
      \/ bb = b /\ aa = g[x] + a /\ vv = v /\ mm = m
      \/ bb = b /\ aa = a /\ vv = g[x] + v /\ mm = m
      \/ bb = b /\ aa = a /\ vv = v /\ mm = g[x] + m
  <2>1. CASE x = "Barcode"
    BY <1>2, <1>3, <2>1
  <2>2. CASE x = "Android"
    BY <1>2, <1>3, <2>2
  <2>3. CASE x = "Server"
    BY <1>2, <1>3, <2>3
  <2>4. CASE x = "Mobile Printer"
    BY <1>2, <1>3, <2>4
  <2>5. QED
    BY <1>1, <2>1, <2>2, <2>3, <2>4
<1> HIDE DEF a, b, v, m, aa, bb, vv, mm
<1>7. QED
  BY <1>4, <1>5, <1>6

(* It is a number, and tells how many there are when each counts one.      *)
LEMMA TotalTyped ==
  ASSUME NEW g \in [Board!Charted -> Nat], NEW s \in SUBSET Board!Charted
  PROVE  /\ Total(g, s) \in Nat
         /\ (\A c \in Board!Charted : g[c] = 1) => Total(g, s) =< 4 /\ (Total(g, s) = 0 => s = {})
<1> DEFINE b == Share(g, s, "Barcode")
           a == Share(g, s, "Android")
           v == Share(g, s, "Server")
           m == Share(g, s, "Mobile Printer")
<1>1. \A c \in Board!Charted :
        /\ Share(g, s, c) \in Nat
        /\ g[c] = 1 => Share(g, s, c) \in {0, 1} /\ (Share(g, s, c) = 0 => c \notin s)
  BY DEF Share
<1>2. "Barcode" \in Board!Charted /\ "Android" \in Board!Charted /\ "Server" \in Board!Charted
      /\ "Mobile Printer" \in Board!Charted
  BY DEF Board!Charted
<1>3. /\ Total(g, s) = b + a + v + m
      /\ b \in Nat /\ a \in Nat /\ v \in Nat /\ m \in Nat
  BY <1>1, <1>2 DEF Total
<1>4. (\A c \in Board!Charted : g[c] = 1)
        => b \in {0, 1} /\ a \in {0, 1} /\ v \in {0, 1} /\ m \in {0, 1}
  BY <1>1, <1>2
<1>5. ASSUME \A c \in Board!Charted : g[c] = 1, b = 0, a = 0, v = 0, m = 0
      PROVE  s = {}
  <2>1. \A c \in {"Barcode", "Android", "Server", "Mobile Printer"} : c \notin s
    BY <1>1, <1>2, <1>5, Zenon
  <2>2. QED
    BY <2>1, Zenon DEF Board!Charted
<1> HIDE DEF b, a, v, m
<1>6. QED
  BY <1>3, <1>4, <1>5

(* The sum over the categories of the chart has four terms.                *)
LEMMA SumOfFour ==
  ASSUME NEW g \in [Board!Charted -> Nat]
  PROVE  Board!MapThenSumSet(LAMBDA c : g[c], Board!Charted)
           = g["Barcode"] + g["Android"] + g["Server"] + g["Mobile Printer"]
<1> DEFINE All == Board!Charted
           first(s) == CHOOSE x \in s : TRUE
           Step(f) == [s \in SUBSET All |->
                         IF s = {} THEN 0 ELSE g[first(s)] + f[s \ {first(s)}]]
           iter == CHOOSE f : f = Step(f)
           total == [s \in SUBSET All |-> Total(g, s)]
           one == [c \in All |-> 1]
           size(s) == Total(one, s)
<1>1. Board!MapThenSumSet(LAMBDA c : g[c], Board!Charted) = iter[All]
  BY DEF Board!MapThenSumSet, Board!MapThenFoldSet
<1>2. \A s \in SUBSET All : s # {} => first(s) \in s /\ s \ {first(s)} \in SUBSET All
  OBVIOUS
<1> HIDE DEF first
<1>3. Total(g, {}) = 0
  BY DEF Total, Share
<1>4. \A s \in SUBSET All : s # {} => Total(g, s) = g[first(s)] + Total(g, s \ {first(s)})
  BY <1>2, TotalOfLess
<1>5. total = Step(total)
  <2>1. \A s \in SUBSET All : Step(total)[s] = total[s]
    BY <1>2, <1>3, <1>4
  <2>2. QED
    BY <2>1
<1>6. iter = Step(iter)
  <2> HIDE DEF total, Step
  <2>1. \E f : f = Step(f)
    BY <1>5
  <2>2. QED
    BY <2>1
<1>7. \A s \in SUBSET All :
        /\ s = {} => iter[s] = 0
        /\ s # {} => iter[s] = g[first(s)] + iter[s \ {first(s)}]
  <2>1. \A s \in SUBSET All :
          Step(iter)[s] = IF s = {} THEN 0 ELSE g[first(s)] + iter[s \ {first(s)}]
    OBVIOUS
  <2> HIDE DEF Step, iter
  <2>2. QED
    BY <1>6, <2>1
<1> HIDE DEF iter, Step, total
<1>8. \A s \in SUBSET All :
        /\ size(s) \in Nat /\ size(s) =< 4
        /\ size(s) = 0 => s = {}
        /\ s # {} => size(s \ {first(s)}) + 1 = size(s)
  <2>1. one \in [All -> Nat]
    OBVIOUS
  <2>2. ASSUME NEW s \in SUBSET All, s # {}
        PROVE  size(s) = 1 + size(s \ {first(s)}) /\ size(s \ {first(s)}) \in Nat
    <3>1. size(s) = one[first(s)] + size(s \ {first(s)}) /\ one[first(s)] = 1
      BY <1>2, <2>1, <2>2, TotalOfLess
    <3>2. size(s \ {first(s)}) \in Nat
      BY <1>2, <2>1, <2>2, TotalTyped
    <3>3. QED
      BY <3>1, <3>2
  <2>3. QED
    BY <2>1, <2>2, TotalTyped
<1> HIDE DEF one, size
<1> DEFINE Upto(k) == \A s \in SUBSET All : size(s) =< k => iter[s] = Total(g, s)
<1>9. Upto(0)
  <2> SUFFICES ASSUME NEW s \in SUBSET All, size(s) =< 0
               PROVE  iter[s] = Total(g, s)
    OBVIOUS
  <2>1. size(s) = 0
    <3> DEFINE all == size(s)
    <3>1. all \in Nat /\ all =< 0
      BY <1>8
    <3> HIDE DEF all
    <3>2. all = 0
      BY <3>1
    <3>3. QED
      BY <3>2 DEF all
  <2>2. s = {}
    BY <1>8, <2>1
  <2>3. QED
    BY <1>3, <1>7, <2>2
<1>10. ASSUME NEW k \in Nat, Upto(k) PROVE Upto(k + 1)
  <2> SUFFICES ASSUME NEW s \in SUBSET All, size(s) =< k + 1
               PROVE  iter[s] = Total(g, s)
    OBVIOUS
  <2>1. CASE s = {}
    BY <1>3, <1>7, <2>1
  <2>2. CASE s # {}
    <3>1. size(s \ {first(s)}) =< k
      <4> DEFINE few == size(s \ {first(s)})
                 all == size(s)
      <4>1. few + 1 = all /\ few \in Nat /\ all =< k + 1
        BY <1>2, <1>8, <2>2
      <4> HIDE DEF few, all
      <4>2. few =< k
        BY <4>1
      <4>3. QED
        BY <4>2 DEF few
    <3>2. iter[s \ {first(s)}] = Total(g, s \ {first(s)})
      BY <1>2, <1>10, <2>2, <3>1
    <3>3. QED
      BY <1>4, <1>7, <2>2, <3>2
  <2>3. QED
    BY <2>1, <2>2
<1> HIDE DEF Upto
<1>11. Upto(4)
  <2>1. Upto(0 + 1)
    BY <1>9, <1>10
  <2>2. Upto(1)
    BY <2>1
  <2>3. Upto(1 + 1)
    BY <2>2, <1>10
  <2>4. Upto(2)
    BY <2>3
  <2>5. Upto(2 + 1)
    BY <2>4, <1>10
  <2>6. Upto(3)
    BY <2>5
  <2>7. Upto(3 + 1)
    BY <2>6, <1>10
  <2>8. QED
    BY <2>7
<1>12. iter[All] = Total(g, All)
  <2>1. All \in SUBSET All /\ size(All) =< 4
    BY <1>8
  <2>2. QED
    BY <1>11, <2>1 DEF Upto
<1>13. Total(g, All) = g["Barcode"] + g["Android"] + g["Server"] + g["Mobile Printer"]
  BY DEF Total, Share, Board!Charted
<1>14. QED
  BY <1>1, <1>12, <1>13

---------------------------------------------------------------------------
(* The dashboard's page.                                                   *)

(* What has been read of a page is what is read of the requests now: none  *)
(* of them has changed since.                                              *)
PageIsRight ==
  /\ page.year \in Int /\ page.now \in Nat
  /\ "Stats" \notin page.left => page.stats = Board!Stats(page.now)
  /\ "CategoryMonthCounts" \notin page.left =>
       page.bars = Board!foldMonths(page.year, Board!monthsToShow(page.year, page.now))
  /\ "AttentionRequests" \notin page.left => page.attention = Board!AttentionRequests

(* A page that is not being read holds nothing, and one that is, what is   *)
(* right.                                                                  *)
PageInv ==
  /\ page = [at |-> page.at, now |-> page.now, year |-> page.year, left |-> page.left,
             stats |-> page.stats, bars |-> page.bars, attention |-> page.attention]
  /\ page.at # "reading" => page.left = Board!Reads
  /\ page.at = "reading" => PageIsRight

(* What is read depends on nothing but the requests.                       *)
LEMMA SameReads ==
  ASSUME requests' = requests
  PROVE  /\ \A t : Board!Stats(t)' = Board!Stats(t)
         /\ \A year, n : Board!foldMonths(year, n)' = Board!foldMonths(year, n)
         /\ Board!AttentionRequests' = Board!AttentionRequests
<1>1. Board!Existing' = Board!Existing
  BY DEF Board!Existing
<1>2. \A statuses : Board!WithStatus(statuses)' = Board!WithStatus(statuses)
  BY <1>1 DEF Board!WithStatus
<1>3. \A from, to : Board!CreatedIn(from, to)' = Board!CreatedIn(from, to)
  BY <1>1 DEF Board!CreatedIn
<1>4. \A t : Board!Stats(t)' = Board!Stats(t)
  BY <1>2, <1>3 DEF Board!Stats
<1>5. \A r, year, month, category :
        Board!InBar(r, year, month, category)' = Board!InBar(r, year, month, category)
  BY <1>3 DEF Board!InBar
<1>6. \A year, n : Board!foldMonths(year, n)' = Board!foldMonths(year, n)
  BY <1>5 DEF Board!foldMonths
<1>7. \A r, s : Board!Before(r, s)' = Board!Before(r, s)
  BY DEF Board!Before
<1>8. Board!AttentionRequests' = Board!AttentionRequests
  BY <1>2, <1>7 DEF Board!AttentionRequests
<1>9. QED
  BY <1>4, <1>6, <1>8

(* No page is open to begin with.                                          *)
LEMMA InitPage ==
  ASSUME Board!Init
  PROVE  PageInv
BY DEF Board!Init, Board!NoPage, PageInv

(* A read reads what is there; a change of a request closes the page or    *)
(* tears it.                                                               *)
LEMMA NextPage ==
  ASSUME Board!DashboardAssumption, BoardTyping, PageInv, [Board!Next]_(Board!vars)
  PROVE  PageInv'
<1>1. CASE UNCHANGED <<requests, page>>
  BY <1>1, SameReads DEF PageInv, PageIsRight
<1>2. CASE Board!Disturbed
  BY <1>2 DEF Board!Disturbed, Board!NoPage, PageInv
<1>3. ASSUME NEW year, Board!Open(year) PROVE PageInv'
  <2>1. PICK asked \in MinYear .. MaxYear :
          page' = [Board!NoPage EXCEPT !.at = "reading", !.now = now, !.year = asked]
    BY <1>3 DEF Board!Open
  <2>2. MinYear \in Nat /\ MaxYear \in Nat /\ now \in Nat
    BY BoardConstants DEF BoardTyping
  <2>3. page'.at = "reading" /\ page'.now = now /\ page'.year = asked /\ page'.left = Board!Reads
        /\ page' = [at |-> page'.at, now |-> page'.now, year |-> page'.year, left |-> page'.left,
             stats |-> page'.stats, bars |-> page'.bars, attention |-> page'.attention]
    BY <2>1 DEF Board!NoPage
  <2>4. PageIsRight'
    BY <2>2, <2>3 DEF PageIsRight, Board!Reads
  <2>5. QED
    BY <2>3, <2>4 DEF PageInv
<1>4. CASE Board!ReadStats
  <2>1. page.at = "reading" /\ requests' = requests
        /\ page' = [page EXCEPT !.left = @ \ {"Stats"}, !.stats = Board!Stats(page.now)]
    BY <1>4 DEF Board!ReadStats, Board!Read
  <2>2. PageIsRight
    BY <2>1 DEF PageInv
  <2>3. page' = [at |-> page.at, now |-> page.now, year |-> page.year,
                 left |-> page.left \ {"Stats"}, stats |-> Board!Stats(page.now),
                 bars |-> page.bars, attention |-> page.attention]
    BY <2>1 DEF PageInv
  <2>4. PageIsRight'
    BY <2>1, <2>2, <2>3, SameReads DEF PageIsRight
  <2>5. QED
    BY <2>1, <2>3, <2>4 DEF PageInv
<1>5. CASE Board!ReadCounts
  <2> DEFINE bars == Board!foldMonths(page.year, Board!monthsToShow(page.year, page.now))
  <2>1. page.at = "reading" /\ requests' = requests
        /\ page' = [page EXCEPT !.left = @ \ {"CategoryMonthCounts"}, !.bars = bars]
    BY <1>5 DEF Board!ReadCounts, Board!Read
  <2>2. PageIsRight
    BY <2>1 DEF PageInv
  <2>3. page' = [at |-> page.at, now |-> page.now, year |-> page.year,
                 left |-> page.left \ {"CategoryMonthCounts"}, stats |-> page.stats,
                 bars |-> bars, attention |-> page.attention]
    BY <2>1 DEF PageInv
  <2>4. PageIsRight'
    BY <2>1, <2>2, <2>3, SameReads DEF PageIsRight
  <2>5. QED
    BY <2>1, <2>3, <2>4 DEF PageInv
<1>6. CASE Board!ReadAttention
  <2>1. page.at = "reading" /\ requests' = requests
        /\ page' = [page EXCEPT !.left = @ \ {"AttentionRequests"},
                                !.attention = Board!AttentionRequests]
    BY <1>6 DEF Board!ReadAttention, Board!Read
  <2>2. PageIsRight
    BY <2>1 DEF PageInv
  <2>3. page' = [at |-> page.at, now |-> page.now, year |-> page.year,
                 left |-> page.left \ {"AttentionRequests"}, stats |-> page.stats,
                 bars |-> page.bars, attention |-> Board!AttentionRequests]
    BY <2>1 DEF PageInv
  <2>4. PageIsRight'
    BY <2>1, <2>2, <2>3, SameReads DEF PageIsRight
  <2>5. QED
    BY <2>1, <2>3, <2>4 DEF PageInv
<1>7. CASE Board!Close
  BY <1>7 DEF Board!Close, Board!NoPage, PageInv
<1>8. CASE Board!Tick \/ UNCHANGED Board!vars
  BY <1>1, <1>8 DEF Board!Tick, Board!vars
<1>9. ASSUME NEW r \in Requests, NEW category \in Categories, NEW priority \in Priority,
             Board!Submit(r, category, priority)
      PROVE  PageInv'
  BY <1>2, <1>9 DEF Board!Submit
<1>10. ASSUME NEW r \in Requests, Board!MoveOn(r) PROVE PageInv'
  BY <1>2, <1>10 DEF Board!MoveOn
<1>11. QED
  BY <1>3, <1>4, <1>5, <1>6, <1>7, <1>8, <1>9, <1>10 DEF Board!Next, Priority

(* The smaller of two numbers.                                             *)
LEMMA BoardMin ==
  ASSUME NEW a \in Nat, NEW b \in Nat
  PROVE  Board!Min({a, b}) = IF a < b THEN a ELSE b
<1>1. \A x \in {a, b} : (\A y \in {a, b} : x =< y) <=> x = IF a < b THEN a ELSE b
  OBVIOUS
<1>2. Board!Min({a, b}) = CHOOSE x \in {a, b} : \A y \in {a, b} : x =< y
  BY DEF Board!Min
<1>3. (IF a < b THEN a ELSE b) \in {a, b}
  OBVIOUS
<1>4. QED
  BY <1>1, <1>2, <1>3

(* A request is urgent, or ranks behind those that are.                    *)
LEMMA RankOfPriority ==
  ASSUME NEW priority \in Priority
  PROVE  /\ Board!Rank(priority) \in {0, 2}
         /\ Board!Rank(priority) = 0 <=> priority = "urgent"
<1>1. CASE priority = "urgent"
  BY <1>1 DEF Board!Rank
<1>2. CASE priority # "urgent"
  <2>1. priority # "high"
    BY <1>2, Zenon DEF Priority
  <2>2. Board!Rank(priority) = 2
    BY <1>2, <2>1 DEF Board!Rank
  <2>3. QED
    BY <1>2, <2>2
<1>3. QED
  BY <1>1, <1>2

(* What has to be done first stands in a row.                              *)
Order(S) == {pair \in S \X S : Board!Before(pair[1], pair[2])}

(* Whoever waits stands in that row: no two have the same place in it.     *)
LEMMA WaitingInARow ==
  ASSUME Board!DashboardAssumption, BoardTyping, NEW S \in SUBSET Requests
  PROVE  /\ IsRow(S, Order(S)) /\ IsFiniteSet(S)
         /\ \A r \in S : Below(S, Order(S), r) = {s \in S : Board!Before(s, r)}
<1>1. IsFiniteSet(S)
  <2>1. IsFiniteSet(Requests)
    BY BoardCounts DEF Board!DashboardAssumption
  <2>2. QED
    BY <2>1, FS_Subset
<1>2. \A r, s \in S : <<r, s>> \in Order(S) <=> Board!Before(r, s)
  BY DEF Order
<1> DEFINE p == [r \in S |-> Board!Rank(requests[r].priority)]
           t == [r \in S |-> requests[r].created]
<1>3. \A r \in S : r \in Nat /\ p[r] \in Int /\ t[r] \in Nat
  <2>1. \A r \in S : /\ r \in Requests
                    /\ requests[r].priority \in Priority /\ requests[r].created \in Nat
    BY DEF BoardTyping, BoardRequest
  <2>2. \A r \in S : p[r] \in {0, 2}
    BY <2>1, RankOfPriority
  <2>3. \A r \in S : t[r] \in Nat /\ r \in Nat
    BY <2>1, BoardConstants
  <2> HIDE DEF p, t
  <2>4. QED
    BY <2>2, <2>3
<1>4. \A r, s \in S : Board!Before(r, s)
        <=> p[r] < p[s] \/ (p[r] = p[s] /\ (t[r] < t[s] \/ (t[r] = t[s] /\ r < s)))
  BY DEF Board!Before
<1> HIDE DEF p, t
<1>5. \A r \in S : ~Board!Before(r, r)
  BY <1>3, <1>4
<1>6. \A r, s, u \in S : Board!Before(r, s) /\ Board!Before(s, u) => Board!Before(r, u)
  BY <1>3, <1>4
<1>7. \A r, s \in S : r # s => Board!Before(r, s) \/ Board!Before(s, r)
  BY <1>3, <1>4
<1>8. IsRow(S, Order(S))
  BY <1>2, <1>5, <1>6, <1>7 DEF IsRow
<1>9. \A r \in S : Below(S, Order(S), r) = {s \in S : Board!Before(s, r)}
  BY <1>2 DEF Below
<1>10. QED
  BY <1>1, <1>8, <1>9

(* The table has room for the first few who wait, the urgent before the    *)
(* others.                                                                 *)
LEMMA AttentionIsRight ==
  ASSUME Board!DashboardAssumption, BoardTyping
  PROVE  /\ Cardinality(Board!AttentionRequests)
              = Board!Min({Limit, Cardinality(Board!WithStatus({"WAITING_APPROVAL"}))})
         /\ (\E r \in Board!WithStatus({"WAITING_APPROVAL"}) : requests[r].priority = "urgent")
              => \E r \in Board!AttentionRequests : requests[r].priority = "urgent"
<1> DEFINE W == Board!WithStatus({"WAITING_APPROVAL"})
           R == Order(W)
<1>1. W \in SUBSET Requests
  BY DEF Board!WithStatus, Board!Existing
<1>2. Board!AttentionRequests
        = {r \in W : Board!Cardinality({s \in W : Board!Before(s, r)}) < Limit}
  BY DEF Board!AttentionRequests
<1> HIDE DEF W
<1>3. IsRow(W, R) /\ IsFiniteSet(W)
      /\ \A r \in W : Below(W, R, r) = {s \in W : Board!Before(s, r)}
  BY <1>1, WaitingInARow
<1> HIDE DEF R
<1>4. Limit \in Nat \ {0} /\ Cardinality(W) \in Nat
  BY <1>3, BoardConstants, FS_CardinalityType
<1>5. Board!AttentionRequests = {r \in W : Cardinality(Below(W, R, r)) < Limit}
  BY <1>2, <1>3, BoardCounts
<1>6. Cardinality(Board!AttentionRequests) = Board!Min({Limit, Cardinality(W)})
  BY <1>3, <1>4, <1>5, FirstFew, BoardMin
<1>7. ASSUME NEW r \in W, requests[r].priority = "urgent"
      PROVE  \E x \in Board!AttentionRequests : requests[x].priority = "urgent"
  <2>1. 0 \in 0 .. Cardinality(W) - 1
    <3>1. Cardinality(W) # 0
      BY <1>3, FS_EmptySet
    <3>2. QED
      BY <1>4, <3>1
  <2>2. PICK x \in W : Cardinality(Below(W, R, x)) = 0
    BY <1>3, <2>1, RankIsBijection
  <2>3. x \in Board!AttentionRequests
    BY <1>4, <1>5, <2>2
  <2>4. Below(W, R, x) = {}
    <3>1. IsFiniteSet(Below(W, R, x))
      BY <1>3, FS_Subset DEF Below
    <3>2. QED
      BY <2>2, <3>1, FS_EmptySet
  <2>5. ~Board!Before(r, x)
    BY <1>3, <2>4
  <2>6. requests[r].priority \in Priority /\ requests[x].priority \in Priority
    BY <1>1 DEF BoardTyping, BoardRequest
  <2>7. Board!Rank(requests[r].priority) = 0 /\ Board!Rank(requests[x].priority) \in {0, 2}
        /\ (Board!Rank(requests[x].priority) = 0 <=> requests[x].priority = "urgent")
    BY <1>7, <2>6, RankOfPriority
  <2>8. ~(Board!Rank(requests[r].priority) < Board!Rank(requests[x].priority))
    BY <2>5 DEF Board!Before
  <2>9. requests[x].priority = "urgent"
    BY <2>7, <2>8
  <2>10. QED
    BY <2>3, <2>9
<1>8. QED
  BY <1>6, <1>7 DEF W

(* The filters of the list share the requests out.                         *)
LEMMA OneFilter ==
  ASSUME BoardTyping, NEW r \in Board!Existing
  PROVE  Board!Cardinality({f \in DOMAIN Board!statusesForFilter : r \in Board!Listed(f)}) = 1
<1> DEFINE Filters == {"Waiting", "InProgress", "Completed", "Rejected", "Revision"}
           status == requests[r].status
           F == {f \in DOMAIN Board!statusesForFilter : r \in Board!Listed(f)}
<1>1. DOMAIN Board!statusesForFilter = Filters
  BY DEF Board!statusesForFilter
<1>2. status \in {"WAITING_APPROVAL", "APPROVED", "REJECTED", "FULFILLMENT", "COMPLETED"}
  BY DEF BoardTyping, BoardRequest, Board!Existing, Board!RequestStatus
<1>3. \A f \in Filters : r \in Board!Listed(f) <=> status \in Board!statusesForFilter[f]
  BY DEF Board!Listed, Board!WithStatus
<1> HIDE DEF status
<1>4. \E g : F = {g}
  <2>1. CASE status = "WAITING_APPROVAL"
    <3>1. F = {"Waiting"}
      BY <1>1, <1>3, <2>1 DEF Board!statusesForFilter
    <3>2. QED
      BY <3>1
  <2>2. CASE status \in {"APPROVED", "FULFILLMENT"}
    <3>1. F = {"InProgress"}
      BY <1>1, <1>3, <2>2 DEF Board!statusesForFilter
    <3>2. QED
      BY <3>1
  <2>3. CASE status = "COMPLETED"
    <3>1. F = {"Completed"}
      BY <1>1, <1>3, <2>3 DEF Board!statusesForFilter
    <3>2. QED
      BY <3>1
  <2>4. CASE status = "REJECTED"
    <3>1. F = {"Rejected"}
      BY <1>1, <1>3, <2>4 DEF Board!statusesForFilter
    <3>2. QED
      BY <3>1
  <2>5. QED
    BY <1>2, <2>1, <2>2, <2>3, <2>4
<1> HIDE DEF F
<1>5. Cardinality(F) = 1
  BY <1>4, FS_Singleton
<1>6. QED
  BY <1>5, BoardCounts DEF F

(* Four sets that share nothing, put together.                             *)
LEMMA FourSets ==
  ASSUME NEW S1, NEW S2, NEW S3, NEW S4,
         IsFiniteSet(S1), IsFiniteSet(S2), IsFiniteSet(S3), IsFiniteSet(S4),
         S1 \cap S2 = {}, (S1 \cup S2) \cap S3 = {}, (S1 \cup S2 \cup S3) \cap S4 = {}
  PROVE  Cardinality(S1 \cup S2 \cup S3 \cup S4)
           = Cardinality(S1) + Cardinality(S2) + Cardinality(S3) + Cardinality(S4)
<1> DEFINE S12 == S1 \cup S2
           S123 == S12 \cup S3
<1>1. Cardinality({}) = 0
  BY FS_EmptySet
<1>2. IsFiniteSet(S12) /\ Cardinality(S12) = Cardinality(S1) + Cardinality(S2) - 0
  BY <1>1, FS_Union
<1>3. IsFiniteSet(S123) /\ Cardinality(S123) = Cardinality(S12) + Cardinality(S3) - 0
  BY <1>1, <1>2, FS_Union
<1>4. Cardinality(S123 \cup S4) = Cardinality(S123) + Cardinality(S4) - 0
  BY <1>1, <1>3, FS_Union
<1>5. /\ Cardinality(S1) \in Nat /\ Cardinality(S2) \in Nat
      /\ Cardinality(S3) \in Nat /\ Cardinality(S4) \in Nat
      /\ Cardinality(S12) \in Nat /\ Cardinality(S123) \in Nat
  BY <1>2, <1>3, FS_CardinalityType
<1>6. Cardinality(S123 \cup S4)
        = Cardinality(S1) + Cardinality(S2) + Cardinality(S3) + Cardinality(S4)
  <2> HIDE DEF S12, S123
  <2>1. QED
    BY <1>2, <1>3, <1>4, <1>5
<1>7. QED
  BY <1>6

(* If all requests are of categories on the chart, this month's bars of    *)
(* this year add up to the month's tile.                                   *)
LEMMA BarsAddUp ==
  ASSUME Board!DashboardAssumption, BoardTyping, NEW t \in Nat, NEW bars,
         bars = Board!foldMonths(Board!Year(t), Board!monthsToShow(Board!Year(t), t)),
         \A r \in Board!Existing : requests[r].category \in Board!Charted
  PROVE  /\ bars[Board!Month(t)] \in [Board!Charted -> Nat]
         /\ Board!Stats(t).thisMonth
              = bars[Board!Month(t)]["Barcode"] + bars[Board!Month(t)]["Android"]
                  + bars[Board!Month(t)]["Server"] + bars[Board!Month(t)]["Mobile Printer"]
<1> DEFINE B(c) == {r \in Requests : Board!InBar(r, Board!Year(t), Board!Month(t), c)}
           T == Board!CreatedIn(Board!monthStart(t), Board!monthStart(t) + MonthTicks)
           g == [c \in Board!Charted |-> Board!Cardinality(B(c))]
<1>1. bars[Board!Month(t)] = g
  <2>1. Board!Year(t) \in Nat /\ Board!Month(t) \in 1 .. YearMonths /\ YearMonths \in Nat
    BY CalendarTyped, BoardConstants
  <2>2. Board!monthsToShow(Board!Year(t), t) = Board!Month(t)
    BY <2>1 DEF Board!monthsToShow
  <2>3. Board!Month(t) \in 1 .. Board!Month(t)
    BY <2>1
  <2>4. QED
    BY <2>2, <2>3 DEF Board!foldMonths
<1>2. /\ T \in SUBSET Requests /\ \A c \in Board!Charted : B(c) \in SUBSET Requests
      /\ IsFiniteSet(Requests)
  BY BoardCounts DEF Board!CreatedIn, Board!Existing, Board!DashboardAssumption
<1>3. \A c \in Board!Charted : IsFiniteSet(B(c)) /\ Cardinality(B(c)) \in Nat
  BY <1>2, FS_Subset, FS_CardinalityType
<1>4. g \in [Board!Charted -> Nat] /\ \A c \in Board!Charted : g[c] = Cardinality(B(c))
  BY <1>3, BoardCounts
<1>5. ASSUME NEW r \in Requests
      PROVE  /\ r \in T <=> \E c \in Board!Charted : r \in B(c)
             /\ \A c \in Board!Charted : r \in B(c) => requests[r].category = c
  <2> DEFINE u == requests[r].created
  <2>1. u \in Nat
    BY DEF BoardTyping, BoardRequest
  <2>2. Board!Year(t) \in Int
    BY CalendarTyped
  <2>3. r \in T <=> r \in Board!Existing /\ Board!MonthNumber(u) = Board!MonthNumber(t)
    BY <2>1, MonthRange DEF Board!CreatedIn
  <2>4. r \in T <=> /\ r \in Board!Existing
                    /\ Board!Year(u) = Board!Year(t) /\ Board!Month(u) = Board!Month(t)
    BY <2>1, <2>3, MonthOfYear
  <2>5. \A c : r \in B(c) <=> /\ r \in Board!Existing
                              /\ Board!Year(t) = Board!Year(u) /\ Board!Month(u) = Board!Month(t)
                              /\ requests[r].category = c
    BY <2>2, InBarMeans
  <2> HIDE DEF T, B, u
  <2>6. QED
    BY <2>4, <2>5
<1> HIDE DEF B, T
<1>6. "Barcode" \in Board!Charted /\ "Android" \in Board!Charted /\ "Server" \in Board!Charted
      /\ "Mobile Printer" \in Board!Charted
  BY DEF Board!Charted
<1>7. T = B("Barcode") \cup B("Android") \cup B("Server") \cup B("Mobile Printer")
  <2>1. \A r : r \in T <=> r \in Requests /\ \E c \in Board!Charted : r \in B(c)
    BY <1>2, <1>5
  <2>2. \A r : r \in T <=> \E c \in Board!Charted : r \in B(c)
    BY <1>2, <2>1
  <2>3. \A c \in Board!Charted : \/ c = "Barcode" \/ c = "Android" \/ c = "Server"
                                 \/ c = "Mobile Printer"
    BY Zenon DEF Board!Charted
  <2>4. QED
    BY <1>6, <2>2, <2>3, Zenon
<1>8. \A c, d \in Board!Charted : c # d => B(c) \cap B(d) = {}
  BY <1>2, <1>5
<1>9. Cardinality(T) = Cardinality(B("Barcode")) + Cardinality(B("Android"))
                         + Cardinality(B("Server")) + Cardinality(B("Mobile Printer"))
  <2>1. /\ B("Barcode") \cap B("Android") = {} /\ B("Barcode") \cap B("Server") = {}
        /\ B("Android") \cap B("Server") = {} /\ B("Barcode") \cap B("Mobile Printer") = {}
        /\ B("Android") \cap B("Mobile Printer") = {} /\ B("Server") \cap B("Mobile Printer") = {}
    BY <1>6, <1>8, Zenon
  <2>2. /\ IsFiniteSet(B("Barcode")) /\ IsFiniteSet(B("Android"))
        /\ IsFiniteSet(B("Server")) /\ IsFiniteSet(B("Mobile Printer"))
    BY <1>3, <1>6, Zenon
  <2> DEFINE S1 == B("Barcode")
             S2 == B("Android")
             S3 == B("Server")
             S4 == B("Mobile Printer")
  <2>3. /\ IsFiniteSet(S1) /\ IsFiniteSet(S2) /\ IsFiniteSet(S3) /\ IsFiniteSet(S4)
        /\ T = S1 \cup S2 \cup S3 \cup S4
        /\ S1 \cap S2 = {} /\ S1 \cap S3 = {} /\ S2 \cap S3 = {}
        /\ S1 \cap S4 = {} /\ S2 \cap S4 = {} /\ S3 \cap S4 = {}
    BY <1>7, <2>1, <2>2, Zenon
  <2> HIDE DEF S1, S2, S3, S4
  <2>4. (S1 \cup S2) \cap S3 = {} /\ (S1 \cup S2 \cup S3) \cap S4 = {}
    BY <2>3
  <2>5. Cardinality(T) = Cardinality(S1) + Cardinality(S2) + Cardinality(S3) + Cardinality(S4)
    BY <2>3, <2>4, FourSets
  <2>6. QED
    BY <2>5, Zenon DEF S1, S2, S3, S4
<1>10. Board!Stats(t).thisMonth = Cardinality(T)
  BY BoardCounts DEF Board!Stats, T
<1> DEFINE h == bars[Board!Month(t)]
<1> HIDE DEF g
<1>11. /\ h \in [Board!Charted -> Nat]
       /\ h["Barcode"] = Cardinality(B("Barcode")) /\ h["Android"] = Cardinality(B("Android"))
       /\ h["Server"] = Cardinality(B("Server"))
       /\ h["Mobile Printer"] = Cardinality(B("Mobile Printer"))
  BY <1>1, <1>4, <1>6, Zenon
<1>12. QED
  BY <1>9, <1>10, <1>11, Zenon

(* And the parts of a page agree.                                          *)
LEMMA PageAgreesByItself ==
  ASSUME Board!DashboardAssumption
  PROVE  Board!Spec => []Board!PageAgrees
<1>1. ASSUME BoardTyping, PageInv PROVE Board!PageAgrees
  <2> SUFFICES ASSUME page.left = {} PROVE Board!PageAgrees
    BY DEF Board!PageAgrees
  <2>1. page.at = "reading"
    BY <1>1 DEF PageInv, Board!Reads
  <2>2. PageIsRight
    BY <1>1, <2>1 DEF PageInv
  <2>3. /\ page.now \in Nat /\ page.stats = Board!Stats(page.now)
        /\ page.bars = Board!foldMonths(page.year, Board!monthsToShow(page.year, page.now))
        /\ page.attention = Board!AttentionRequests
    BY <2>2 DEF PageIsRight
  <2>4. ASSUME page.year = Board!Year(page.now),
               \A r \in Board!Existing : requests[r].category \in Board!Charted
        PROVE  page.stats.thisMonth
                 = Board!MapThenSumSet(LAMBDA c : page.bars[Board!Month(page.now)][c],
                                       Board!Charted)
    <3> DEFINE h == page.bars[Board!Month(page.now)]
               few == h["Barcode"] + h["Android"] + h["Server"] + h["Mobile Printer"]
    <3>1. page.bars = Board!foldMonths(Board!Year(page.now),
                                       Board!monthsToShow(Board!Year(page.now), page.now))
      BY <2>3, <2>4, Zenon
    <3>2. h \in [Board!Charted -> Nat] /\ Board!Stats(page.now).thisMonth = few
      BY <1>1, <2>3, <2>4, <3>1, BarsAddUp, Zenon
    <3>3. Board!MapThenSumSet(LAMBDA c : h[c], Board!Charted) = few
      BY <3>2, SumOfFour
    <3>4. QED
      BY <2>3, <3>2, <3>3, Zenon
  <2>5. /\ page.stats.pending = Board!Cardinality(Board!WithStatus({"WAITING_APPROVAL"}))
        /\ page.stats.inProgress
             = Board!Cardinality(Board!WithStatus({"APPROVED", "FULFILLMENT"}))
    BY <2>3 DEF Board!Stats
  <2>6. /\ Board!Listed("Waiting") = Board!WithStatus({"WAITING_APPROVAL"})
        /\ Board!Listed("InProgress") = Board!WithStatus({"APPROVED", "FULFILLMENT"})
    BY DEF Board!Listed, Board!statusesForFilter
  <2>7. /\ page.stats.pending = Board!CountWaitingApproval
        /\ page.stats.inProgress = Board!CountInProgress
    BY <2>5 DEF Board!CountWaitingApproval, Board!CountInProgress
  <2>8. /\ Board!Cardinality(page.attention) = Board!Min({Limit, page.stats.pending})
        /\ (\E r \in Board!Listed("Waiting") : requests[r].priority = "urgent")
             => \E r \in page.attention : requests[r].priority = "urgent"
    BY <1>1, <2>3, <2>5, <2>6, AttentionIsRight, BoardCounts
  <2>9. \A r \in Board!Existing :
          Board!Cardinality({f \in DOMAIN Board!statusesForFilter : r \in Board!Listed(f)}) = 1
    BY <1>1, OneFilter
  <2>10. QED
    BY <2>4, <2>5, <2>6, <2>7, <2>8, <2>9 DEF Board!PageAgrees
<1>2. Board!Init => BoardTyping /\ PageInv
  BY InitBoardTyping, InitPage
<1>3. BoardTyping /\ PageInv /\ [Board!Next]_(Board!vars) => BoardTyping' /\ PageInv'
  BY NextBoardTyping, NextPage
<1>4. QED
  BY <1>1, <1>2, <1>3, PTL DEF Board!Spec

---------------------------------------------------------------------------
(* Router.                                                                 *)

(* The method and the length of the path asked for.                        *)
Asks(m, n) == method = m /\ Len(path) = n

(* A row of the table: for which requests, with which permission, by whom. *)
Row(route, matches, guard, handler) ==
  /\ Access!Matches(route) <=> matches
  /\ Access!Refused(route) <=> guard # "" /\ ~Access!Passes(caller, guard)
  /\ route.handler = handler
  /\ route.method = "use" <=> handler = ""

(* What stands before the token, and the token itself.                     *)
LEMMA PublicRows ==
  /\ Row(Access!PublicRoutes[1], Asks("POST", 2) /\ path[1] = "auth" /\ path[2] = "login",
             "", "Login")
  /\ Row(Access!PublicRoutes[2], Len(path) >= 1 /\ path[1] = "webhooks",
             "signature", "")
  /\ Row(Access!PublicRoutes[3], Asks("POST", 2) /\ path[1] = "webhooks" /\ path[2] = "approval-engine",
             "", "ApprovalEngine")
  /\ Row(Access!PublicRoutes[4], TRUE,
             "token", "")
<1>1. Row(Access!PublicRoutes[1], Asks("POST", 2) /\ path[1] = "auth" /\ path[2] = "login",
             "", "Login")
  BY DEF Access!PublicRoutes, Row, Asks, Access!Route, Access!Matches, Access!Fits,
       Access!IsParameter, Access!Refused, Access!ToSet
<1>2. Row(Access!PublicRoutes[2], Len(path) >= 1 /\ path[1] = "webhooks",
             "signature", "")
  <2> DEFINE group == Access!Group(<<"webhooks">>, <<"signature">>)
  <2>1. Access!Matches(group) <=> Len(path) >= 1 /\ path[1] = "webhooks"
    <3>1. DOMAIN <<"webhooks">> = {1} /\ Len(<<"webhooks">>) = 1
      OBVIOUS
    <3>2. Access!Fits(<<"webhooks">>, path) <=> Len(path) >= 1 /\ path[1] = "webhooks"
      BY <3>1 DEF Access!Fits, Access!IsParameter
    <3>3. QED
      BY <3>2 DEF Access!Group, Access!Route, Access!Matches
  <2>2. Access!Refused(group) <=> ~Access!Passes(caller, "signature")
    BY DEF Access!Group, Access!Route, Access!Refused, Access!ToSet
  <2>3. group.handler = "" /\ group.method = "use"
    BY DEF Access!Group, Access!Route
  <2>4. QED
    BY <2>1, <2>2, <2>3 DEF Row, Access!PublicRoutes
<1>3. Row(Access!PublicRoutes[3], Asks("POST", 2) /\ path[1] = "webhooks" /\ path[2] = "approval-engine",
             "", "ApprovalEngine")
  BY DEF Access!PublicRoutes, Row, Asks, Access!Route, Access!Matches, Access!Fits,
       Access!IsParameter, Access!Refused, Access!ToSet
<1>4. Row(Access!PublicRoutes[4], TRUE,
             "token", "")
  <2> DEFINE group == Access!Group(<<>>, <<"token">>)
  <2>1. Access!Matches(group)
    <3>1. Access!Fits(<<>>, path)
      BY DEF Access!Fits
    <3>2. QED
      BY <3>1 DEF Access!Group, Access!Route, Access!Matches
  <2>2. Access!Refused(group) <=> ~Access!Passes(caller, "token")
    BY DEF Access!Group, Access!Route, Access!Refused, Access!ToSet
  <2>3. group.handler = "" /\ group.method = "use"
    BY DEF Access!Group, Access!Route
  <2>4. QED
    BY <2>1, <2>2, <2>3 DEF Row, Access!PublicRoutes
<1>5. QED
  BY <1>1, <1>2, <1>3, <1>4

(* The phone catalogue and the IMEI reference.                             *)
LEMMA CatalogRows ==
  /\ Row(Access!CatalogRoutes[1], Asks("GET", 2) /\ path[1] = "fulfillment" /\ path[2] = "phone-catalog",
             "fulfillment:read", "Catalog")
  /\ Row(Access!CatalogRoutes[2], Asks("POST", 2) /\ path[1] = "settings" /\ path[2] = "phone-brands",
             "settings:manage", "CreateBrand")
  /\ Row(Access!CatalogRoutes[3], Asks("PUT", 3) /\ path[1] = "settings" /\ path[2] = "phone-brands",
             "settings:manage", "UpdateBrand")
  /\ Row(Access!CatalogRoutes[4], Asks("POST", 2) /\ path[1] = "settings" /\ path[2] = "phone-models",
             "settings:manage", "CreateModel")
  /\ Row(Access!CatalogRoutes[5], Asks("PUT", 3) /\ path[1] = "settings" /\ path[2] = "phone-models",
             "settings:manage", "UpdateModel")
  /\ Row(Access!CatalogRoutes[6], Asks("GET", 3) /\ path[1] = "fulfillment" /\ path[2] = "imei-lookup",
             "fulfillment:read", "Lookup")
<1>1. Row(Access!CatalogRoutes[1], Asks("GET", 2) /\ path[1] = "fulfillment" /\ path[2] = "phone-catalog",
             "fulfillment:read", "Catalog")
  BY DEF Access!CatalogRoutes, Row, Asks, Access!Route, Access!Matches, Access!Fits,
       Access!IsParameter, Access!Refused, Access!ToSet
<1>2. Row(Access!CatalogRoutes[2], Asks("POST", 2) /\ path[1] = "settings" /\ path[2] = "phone-brands",
             "settings:manage", "CreateBrand")
  BY DEF Access!CatalogRoutes, Row, Asks, Access!Route, Access!Matches, Access!Fits,
       Access!IsParameter, Access!Refused, Access!ToSet
<1>3. Row(Access!CatalogRoutes[3], Asks("PUT", 3) /\ path[1] = "settings" /\ path[2] = "phone-brands",
             "settings:manage", "UpdateBrand")
  BY DEF Access!CatalogRoutes, Row, Asks, Access!Route, Access!Matches, Access!Fits,
       Access!IsParameter, Access!Refused, Access!ToSet
<1>4. Row(Access!CatalogRoutes[4], Asks("POST", 2) /\ path[1] = "settings" /\ path[2] = "phone-models",
             "settings:manage", "CreateModel")
  BY DEF Access!CatalogRoutes, Row, Asks, Access!Route, Access!Matches, Access!Fits,
       Access!IsParameter, Access!Refused, Access!ToSet
<1>5. Row(Access!CatalogRoutes[5], Asks("PUT", 3) /\ path[1] = "settings" /\ path[2] = "phone-models",
             "settings:manage", "UpdateModel")
  BY DEF Access!CatalogRoutes, Row, Asks, Access!Route, Access!Matches, Access!Fits,
       Access!IsParameter, Access!Refused, Access!ToSet
<1>6. Row(Access!CatalogRoutes[6], Asks("GET", 3) /\ path[1] = "fulfillment" /\ path[2] = "imei-lookup",
             "fulfillment:read", "Lookup")
  BY DEF Access!CatalogRoutes, Row, Asks, Access!Route, Access!Matches, Access!Fits,
       Access!IsParameter, Access!Refused, Access!ToSet
<1>7. QED
  BY <1>1, <1>2, <1>3, <1>4, <1>5, <1>6

(* The options of the form.                                                *)
LEMMA FormOptionsRows ==
  /\ Row(Access!FormOptionsRoute[1], Asks("GET", 2) /\ path[1] = "requests" /\ path[2] = "form-options",
             "request:create", "FormOptions")
<1>1. Row(Access!FormOptionsRoute[1], Asks("GET", 2) /\ path[1] = "requests" /\ path[2] = "form-options",
             "request:create", "FormOptions")
  BY DEF Access!FormOptionsRoute, Row, Asks, Access!Route, Access!Matches, Access!Fits,
       Access!IsParameter, Access!Refused, Access!ToSet
<1>2. QED
  BY <1>1

(* Requests, approvals and fulfillment, each behind its group.             *)
LEMMA RequestRows ==
  /\ Row(Access!RequestRoutes[1], Len(path) >= 1 /\ path[1] = "requests",
             "request:read", "")
  /\ Row(Access!RequestRoutes[2], Asks("GET", 1) /\ path[1] = "requests",
             "", "List")
  /\ Row(Access!RequestRoutes[3], Asks("GET", 2) /\ path[1] = "requests",
             "", "Detail")
  /\ Row(Access!RequestRoutes[4], Asks("POST", 1) /\ path[1] = "requests",
             "request:create", "Create")
  /\ Row(Access!RequestRoutes[5], Len(path) >= 1 /\ path[1] = "approvals",
             "approvals:read", "")
  /\ Row(Access!RequestRoutes[6], Asks("GET", 1) /\ path[1] = "approvals",
             "", "Approvals")
  /\ Row(Access!RequestRoutes[7], Asks("GET", 2) /\ path[1] = "approvals",
             "", "ApprovalDetail")
  /\ Row(Access!RequestRoutes[8], Asks("POST", 3) /\ path[1] = "approvals" /\ path[3] = "action",
             "request:approve", "ApprovalAction")
  /\ Row(Access!RequestRoutes[9], Len(path) >= 1 /\ path[1] = "fulfillment",
             "fulfillment:read", "")
  /\ Row(Access!RequestRoutes[10], Asks("GET", 1) /\ path[1] = "fulfillment",
             "", "Fulfillment")
  /\ Row(Access!RequestRoutes[11], Asks("GET", 2) /\ path[1] = "fulfillment",
             "", "FulfillmentDetail")
  /\ Row(Access!RequestRoutes[12], Asks("POST", 3) /\ path[1] = "fulfillment" /\ path[3] = "data",
             "fulfillment:process", "SaveFulfillmentData")
  /\ Row(Access!RequestRoutes[13], Asks("POST", 3) /\ path[1] = "fulfillment" /\ path[3] = "advance",
             "fulfillment:process", "AdvanceFulfillment")
<1>1. Row(Access!RequestRoutes[1], Len(path) >= 1 /\ path[1] = "requests",
             "request:read", "")
  <2> DEFINE group == Access!Group(<<"requests">>, <<"request:read">>)
  <2>1. Access!Matches(group) <=> Len(path) >= 1 /\ path[1] = "requests"
    <3>1. DOMAIN <<"requests">> = {1} /\ Len(<<"requests">>) = 1
      OBVIOUS
    <3>2. Access!Fits(<<"requests">>, path) <=> Len(path) >= 1 /\ path[1] = "requests"
      BY <3>1 DEF Access!Fits, Access!IsParameter
    <3>3. QED
      BY <3>2 DEF Access!Group, Access!Route, Access!Matches
  <2>2. Access!Refused(group) <=> ~Access!Passes(caller, "request:read")
    BY DEF Access!Group, Access!Route, Access!Refused, Access!ToSet
  <2>3. group.handler = "" /\ group.method = "use"
    BY DEF Access!Group, Access!Route
  <2>4. QED
    BY <2>1, <2>2, <2>3 DEF Row, Access!RequestRoutes
<1>2. Row(Access!RequestRoutes[2], Asks("GET", 1) /\ path[1] = "requests",
             "", "List")
  BY DEF Access!RequestRoutes, Row, Asks, Access!Route, Access!Matches, Access!Fits,
       Access!IsParameter, Access!Refused, Access!ToSet
<1>3. Row(Access!RequestRoutes[3], Asks("GET", 2) /\ path[1] = "requests",
             "", "Detail")
  BY DEF Access!RequestRoutes, Row, Asks, Access!Route, Access!Matches, Access!Fits,
       Access!IsParameter, Access!Refused, Access!ToSet
<1>4. Row(Access!RequestRoutes[4], Asks("POST", 1) /\ path[1] = "requests",
             "request:create", "Create")
  BY DEF Access!RequestRoutes, Row, Asks, Access!Route, Access!Matches, Access!Fits,
       Access!IsParameter, Access!Refused, Access!ToSet
<1>5. Row(Access!RequestRoutes[5], Len(path) >= 1 /\ path[1] = "approvals",
             "approvals:read", "")
  <2> DEFINE group == Access!Group(<<"approvals">>, <<"approvals:read">>)
  <2>1. Access!Matches(group) <=> Len(path) >= 1 /\ path[1] = "approvals"
    <3>1. DOMAIN <<"approvals">> = {1} /\ Len(<<"approvals">>) = 1
      OBVIOUS
    <3>2. Access!Fits(<<"approvals">>, path) <=> Len(path) >= 1 /\ path[1] = "approvals"
      BY <3>1 DEF Access!Fits, Access!IsParameter
    <3>3. QED
      BY <3>2 DEF Access!Group, Access!Route, Access!Matches
  <2>2. Access!Refused(group) <=> ~Access!Passes(caller, "approvals:read")
    BY DEF Access!Group, Access!Route, Access!Refused, Access!ToSet
  <2>3. group.handler = "" /\ group.method = "use"
    BY DEF Access!Group, Access!Route
  <2>4. QED
    BY <2>1, <2>2, <2>3 DEF Row, Access!RequestRoutes
<1>6. Row(Access!RequestRoutes[6], Asks("GET", 1) /\ path[1] = "approvals",
             "", "Approvals")
  BY DEF Access!RequestRoutes, Row, Asks, Access!Route, Access!Matches, Access!Fits,
       Access!IsParameter, Access!Refused, Access!ToSet
<1>7. Row(Access!RequestRoutes[7], Asks("GET", 2) /\ path[1] = "approvals",
             "", "ApprovalDetail")
  BY DEF Access!RequestRoutes, Row, Asks, Access!Route, Access!Matches, Access!Fits,
       Access!IsParameter, Access!Refused, Access!ToSet
<1>8. Row(Access!RequestRoutes[8], Asks("POST", 3) /\ path[1] = "approvals" /\ path[3] = "action",
             "request:approve", "ApprovalAction")
  BY DEF Access!RequestRoutes, Row, Asks, Access!Route, Access!Matches, Access!Fits,
       Access!IsParameter, Access!Refused, Access!ToSet
<1>9. Row(Access!RequestRoutes[9], Len(path) >= 1 /\ path[1] = "fulfillment",
             "fulfillment:read", "")
  <2> DEFINE group == Access!Group(<<"fulfillment">>, <<"fulfillment:read">>)
  <2>1. Access!Matches(group) <=> Len(path) >= 1 /\ path[1] = "fulfillment"
    <3>1. DOMAIN <<"fulfillment">> = {1} /\ Len(<<"fulfillment">>) = 1
      OBVIOUS
    <3>2. Access!Fits(<<"fulfillment">>, path) <=> Len(path) >= 1 /\ path[1] = "fulfillment"
      BY <3>1 DEF Access!Fits, Access!IsParameter
    <3>3. QED
      BY <3>2 DEF Access!Group, Access!Route, Access!Matches
  <2>2. Access!Refused(group) <=> ~Access!Passes(caller, "fulfillment:read")
    BY DEF Access!Group, Access!Route, Access!Refused, Access!ToSet
  <2>3. group.handler = "" /\ group.method = "use"
    BY DEF Access!Group, Access!Route
  <2>4. QED
    BY <2>1, <2>2, <2>3 DEF Row, Access!RequestRoutes
<1>10. Row(Access!RequestRoutes[10], Asks("GET", 1) /\ path[1] = "fulfillment",
             "", "Fulfillment")
  BY DEF Access!RequestRoutes, Row, Asks, Access!Route, Access!Matches, Access!Fits,
       Access!IsParameter, Access!Refused, Access!ToSet
<1>11. Row(Access!RequestRoutes[11], Asks("GET", 2) /\ path[1] = "fulfillment",
             "", "FulfillmentDetail")
  BY DEF Access!RequestRoutes, Row, Asks, Access!Route, Access!Matches, Access!Fits,
       Access!IsParameter, Access!Refused, Access!ToSet
<1>12. Row(Access!RequestRoutes[12], Asks("POST", 3) /\ path[1] = "fulfillment" /\ path[3] = "data",
             "fulfillment:process", "SaveFulfillmentData")
  BY DEF Access!RequestRoutes, Row, Asks, Access!Route, Access!Matches, Access!Fits,
       Access!IsParameter, Access!Refused, Access!ToSet
<1>13. Row(Access!RequestRoutes[13], Asks("POST", 3) /\ path[1] = "fulfillment" /\ path[3] = "advance",
             "fulfillment:process", "AdvanceFulfillment")
  BY DEF Access!RequestRoutes, Row, Asks, Access!Route, Access!Matches, Access!Fits,
       Access!IsParameter, Access!Refused, Access!ToSet
<1>14. QED
  BY <1>1, <1>2, <1>3, <1>4, <1>5, <1>6, <1>7, <1>8, <1>9, <1>10, <1>11, <1>12, <1>13

(* The pages of the sidebar and the dashboard.                             *)
PageRoutes ==
  << Access!Route("GET", <<"navigation", "badges">>, <<>>, "Badges"),
     Access!Route("GET", <<"dashboard", "overview">>, <<"dashboard:read">>, "Overview") >>

(* The two pages, row by row.                                              *)
LEMMA PageRows ==
  /\ Row(PageRoutes[1], Asks("GET", 2) /\ path[1] = "navigation" /\ path[2] = "badges",
             "", "Badges")
  /\ Row(PageRoutes[2], Asks("GET", 2) /\ path[1] = "dashboard" /\ path[2] = "overview",
             "dashboard:read", "Overview")
<1>1. Row(PageRoutes[1], Asks("GET", 2) /\ path[1] = "navigation" /\ path[2] = "badges",
             "", "Badges")
  BY DEF PageRoutes, Row, Asks, Access!Route, Access!Matches, Access!Fits,
       Access!IsParameter, Access!Refused, Access!ToSet
<1>2. Row(PageRoutes[2], Asks("GET", 2) /\ path[1] = "dashboard" /\ path[2] = "overview",
             "dashboard:read", "Overview")
  BY DEF PageRoutes, Row, Asks, Access!Route, Access!Matches, Access!Fits,
       Access!IsParameter, Access!Refused, Access!ToSet
<1>3. QED
  BY <1>1, <1>2

(* The settings, kind by kind.                                             *)
OutletRoutes ==
  Access!SettingRoutes("outlets", "masterdata:manage",
                       "Outlets", "CreateOutlet", "UpdateOutlet")

(* The outlets, row by row.                                                *)
LEMMA OutletRows ==
  /\ Row(OutletRoutes[1], Asks("GET", 2) /\ path[1] = "settings" /\ path[2] = "outlets",
             "masterdata:manage", "Outlets")
  /\ Row(OutletRoutes[2], Asks("POST", 2) /\ path[1] = "settings" /\ path[2] = "outlets",
             "masterdata:manage", "CreateOutlet")
  /\ Row(OutletRoutes[3], Asks("PUT", 3) /\ path[1] = "settings" /\ path[2] = "outlets",
             "masterdata:manage", "UpdateOutlet")
<1>1. Row(OutletRoutes[1], Asks("GET", 2) /\ path[1] = "settings" /\ path[2] = "outlets",
             "masterdata:manage", "Outlets")
  BY DEF OutletRoutes, Access!SettingRoutes, Row, Asks, Access!Route, Access!Matches, Access!Fits,
       Access!IsParameter, Access!Refused, Access!ToSet
<1>2. Row(OutletRoutes[2], Asks("POST", 2) /\ path[1] = "settings" /\ path[2] = "outlets",
             "masterdata:manage", "CreateOutlet")
  BY DEF OutletRoutes, Access!SettingRoutes, Row, Asks, Access!Route, Access!Matches, Access!Fits,
       Access!IsParameter, Access!Refused, Access!ToSet
<1>3. Row(OutletRoutes[3], Asks("PUT", 3) /\ path[1] = "settings" /\ path[2] = "outlets",
             "masterdata:manage", "UpdateOutlet")
  BY DEF OutletRoutes, Access!SettingRoutes, Row, Asks, Access!Route, Access!Matches, Access!Fits,
       Access!IsParameter, Access!Refused, Access!ToSet
<1>4. QED
  BY <1>1, <1>2, <1>3

(* The same of the distributors.                                           *)
DistributorRoutes ==
  Access!SettingRoutes("distributors", "masterdata:manage",
                       "Distributors", "CreateDistributor", "UpdateDistributor")

(* The distributors, row by row.                                           *)
LEMMA DistributorRows ==
  /\ Row(DistributorRoutes[1], Asks("GET", 2) /\ path[1] = "settings" /\ path[2] = "distributors",
             "masterdata:manage", "Distributors")
  /\ Row(DistributorRoutes[2], Asks("POST", 2) /\ path[1] = "settings" /\ path[2] = "distributors",
             "masterdata:manage", "CreateDistributor")
  /\ Row(DistributorRoutes[3], Asks("PUT", 3) /\ path[1] = "settings" /\ path[2] = "distributors",
             "masterdata:manage", "UpdateDistributor")
<1>1. Row(DistributorRoutes[1], Asks("GET", 2) /\ path[1] = "settings" /\ path[2] = "distributors",
             "masterdata:manage", "Distributors")
  BY DEF DistributorRoutes, Access!SettingRoutes, Row, Asks, Access!Route, Access!Matches, Access!Fits,
       Access!IsParameter, Access!Refused, Access!ToSet
<1>2. Row(DistributorRoutes[2], Asks("POST", 2) /\ path[1] = "settings" /\ path[2] = "distributors",
             "masterdata:manage", "CreateDistributor")
  BY DEF DistributorRoutes, Access!SettingRoutes, Row, Asks, Access!Route, Access!Matches, Access!Fits,
       Access!IsParameter, Access!Refused, Access!ToSet
<1>3. Row(DistributorRoutes[3], Asks("PUT", 3) /\ path[1] = "settings" /\ path[2] = "distributors",
             "masterdata:manage", "UpdateDistributor")
  BY DEF DistributorRoutes, Access!SettingRoutes, Row, Asks, Access!Route, Access!Matches, Access!Fits,
       Access!IsParameter, Access!Refused, Access!ToSet
<1>4. QED
  BY <1>1, <1>2, <1>3

(* The same of the types.                                                  *)
TypeRoutes ==
  Access!SettingRoutes("types", "settings:manage",
                       "Types", "CreateType", "UpdateType")

(* The types, row by row.                                                  *)
LEMMA TypeRows ==
  /\ Row(TypeRoutes[1], Asks("GET", 2) /\ path[1] = "settings" /\ path[2] = "types",
             "settings:manage", "Types")
  /\ Row(TypeRoutes[2], Asks("POST", 2) /\ path[1] = "settings" /\ path[2] = "types",
             "settings:manage", "CreateType")
  /\ Row(TypeRoutes[3], Asks("PUT", 3) /\ path[1] = "settings" /\ path[2] = "types",
             "settings:manage", "UpdateType")
<1>1. Row(TypeRoutes[1], Asks("GET", 2) /\ path[1] = "settings" /\ path[2] = "types",
             "settings:manage", "Types")
  BY DEF TypeRoutes, Access!SettingRoutes, Row, Asks, Access!Route, Access!Matches, Access!Fits,
       Access!IsParameter, Access!Refused, Access!ToSet
<1>2. Row(TypeRoutes[2], Asks("POST", 2) /\ path[1] = "settings" /\ path[2] = "types",
             "settings:manage", "CreateType")
  BY DEF TypeRoutes, Access!SettingRoutes, Row, Asks, Access!Route, Access!Matches, Access!Fits,
       Access!IsParameter, Access!Refused, Access!ToSet
<1>3. Row(TypeRoutes[3], Asks("PUT", 3) /\ path[1] = "settings" /\ path[2] = "types",
             "settings:manage", "UpdateType")
  BY DEF TypeRoutes, Access!SettingRoutes, Row, Asks, Access!Route, Access!Matches, Access!Fits,
       Access!IsParameter, Access!Refused, Access!ToSet
<1>4. QED
  BY <1>1, <1>2, <1>3

(* Users, roles and permissions.                                           *)
LEMMA AdminRows ==
  /\ Row(Access!AdminRoutes[1], Asks("GET", 1) /\ path[1] = "me",
             "", "GetMe")
  /\ Row(Access!AdminRoutes[2], Asks("PUT", 2) /\ path[1] = "me" /\ path[2] = "settings",
             "", "UpdateUserSettings")
  /\ Row(Access!AdminRoutes[3], Asks("GET", 1) /\ path[1] = "roles",
             "role:manage", "GetRoles")
  /\ Row(Access!AdminRoutes[4], Asks("POST", 1) /\ path[1] = "roles",
             "role:manage", "CreateRole")
  /\ Row(Access!AdminRoutes[5], Asks("POST", 3) /\ path[1] = "roles" /\ path[3] = "permissions",
             "role:manage", "AssignRolePermissions")
  /\ Row(Access!AdminRoutes[6], Asks("GET", 1) /\ path[1] = "permissions",
             "role:manage", "GetPermissions")
  /\ Row(Access!AdminRoutes[7], Asks("GET", 1) /\ path[1] = "users",
             "user:read", "GetUsers")
  /\ Row(Access!AdminRoutes[8], Asks("POST", 1) /\ path[1] = "users",
             "user:write", "CreateUser")
  /\ Row(Access!AdminRoutes[9], Asks("PUT", 2) /\ path[1] = "users",
             "user:write", "UpdateUser")
  /\ Row(Access!AdminRoutes[10], Asks("POST", 3) /\ path[1] = "users" /\ path[3] = "master",
             "user:master", "SetMasterUser")
  /\ Row(Access!AdminRoutes[11], Asks("POST", 3) /\ path[1] = "users" /\ path[3] = "roles",
             "role:manage", "AssignUserRoles")
<1>1. Row(Access!AdminRoutes[1], Asks("GET", 1) /\ path[1] = "me",
             "", "GetMe")
  BY DEF Access!AdminRoutes, Row, Asks, Access!Route, Access!Matches, Access!Fits,
       Access!IsParameter, Access!Refused, Access!ToSet
<1>2. Row(Access!AdminRoutes[2], Asks("PUT", 2) /\ path[1] = "me" /\ path[2] = "settings",
             "", "UpdateUserSettings")
  BY DEF Access!AdminRoutes, Row, Asks, Access!Route, Access!Matches, Access!Fits,
       Access!IsParameter, Access!Refused, Access!ToSet
<1>3. Row(Access!AdminRoutes[3], Asks("GET", 1) /\ path[1] = "roles",
             "role:manage", "GetRoles")
  BY DEF Access!AdminRoutes, Row, Asks, Access!Route, Access!Matches, Access!Fits,
       Access!IsParameter, Access!Refused, Access!ToSet
<1>4. Row(Access!AdminRoutes[4], Asks("POST", 1) /\ path[1] = "roles",
             "role:manage", "CreateRole")
  BY DEF Access!AdminRoutes, Row, Asks, Access!Route, Access!Matches, Access!Fits,
       Access!IsParameter, Access!Refused, Access!ToSet
<1>5. Row(Access!AdminRoutes[5], Asks("POST", 3) /\ path[1] = "roles" /\ path[3] = "permissions",
             "role:manage", "AssignRolePermissions")
  BY DEF Access!AdminRoutes, Row, Asks, Access!Route, Access!Matches, Access!Fits,
       Access!IsParameter, Access!Refused, Access!ToSet
<1>6. Row(Access!AdminRoutes[6], Asks("GET", 1) /\ path[1] = "permissions",
             "role:manage", "GetPermissions")
  BY DEF Access!AdminRoutes, Row, Asks, Access!Route, Access!Matches, Access!Fits,
       Access!IsParameter, Access!Refused, Access!ToSet
<1>7. Row(Access!AdminRoutes[7], Asks("GET", 1) /\ path[1] = "users",
             "user:read", "GetUsers")
  BY DEF Access!AdminRoutes, Row, Asks, Access!Route, Access!Matches, Access!Fits,
       Access!IsParameter, Access!Refused, Access!ToSet
<1>8. Row(Access!AdminRoutes[8], Asks("POST", 1) /\ path[1] = "users",
             "user:write", "CreateUser")
  BY DEF Access!AdminRoutes, Row, Asks, Access!Route, Access!Matches, Access!Fits,
       Access!IsParameter, Access!Refused, Access!ToSet
<1>9. Row(Access!AdminRoutes[9], Asks("PUT", 2) /\ path[1] = "users",
             "user:write", "UpdateUser")
  BY DEF Access!AdminRoutes, Row, Asks, Access!Route, Access!Matches, Access!Fits,
       Access!IsParameter, Access!Refused, Access!ToSet
<1>10. Row(Access!AdminRoutes[10], Asks("POST", 3) /\ path[1] = "users" /\ path[3] = "master",
             "user:master", "SetMasterUser")
  BY DEF Access!AdminRoutes, Row, Asks, Access!Route, Access!Matches, Access!Fits,
       Access!IsParameter, Access!Refused, Access!ToSet
<1>11. Row(Access!AdminRoutes[11], Asks("POST", 3) /\ path[1] = "users" /\ path[3] = "roles",
             "role:manage", "AssignUserRoles")
  BY DEF Access!AdminRoutes, Row, Asks, Access!Route, Access!Matches, Access!Fits,
       Access!IsParameter, Access!Refused, Access!ToSet
<1>12. QED
  BY <1>1, <1>2, <1>3, <1>4, <1>5, <1>6, <1>7, <1>8, <1>9, <1>10, <1>11

(* A list of n rows.                                                       *)
IsList(s, n) == s \in Seq({s[k] : k \in DOMAIN s}) /\ Len(s) = n

(* Two lists, one after the other.                                         *)
Joined(st, l, s, m, t, n) ==
  /\ IsList(st, l)
  /\ \A k \in 1 .. m : st[k] = s[k]
  /\ \A k \in 1 .. n : st[m + k] = t[k]

(* Joining lists.                                                          *)
LEMMA ListsJoin ==
  ASSUME NEW s, NEW t, NEW m \in Nat, NEW n \in Nat, NEW l \in Nat,
         IsList(s, m), IsList(t, n), l = m + n
  PROVE  Joined(s \o t, l, s, m, t, n)
<1> DEFINE S == {s[k] : k \in DOMAIN s}
           T == {t[k] : k \in DOMAIN t}
           st == s \o t
<1>1. s \in Seq(S \cup T) /\ t \in Seq(S \cup T) /\ Len(s) = m /\ Len(t) = n
  BY DEF IsList
<1> HIDE DEF S, T
<1>2. /\ st \in Seq(S \cup T) /\ Len(st) = l
      /\ \A k \in 1 .. m : st[k] = s[k]
      /\ \A k \in 1 .. n : st[m + k] = t[k]
  BY <1>1
<1>3. DOMAIN st = 1 .. l
  BY <1>2
<1> DEFINE U == {st[k] : k \in DOMAIN st}
<1>4. \A k \in 1 .. l : st[k] \in U
  BY <1>3
<1> HIDE DEF U, st
<1>5. st \in Seq(U)
  BY <1>2, <1>3, <1>4
<1> USE DEF U, st
<1>6. QED
  BY <1>2, <1>5 DEF IsList, Joined

(* The routes, section by section.                                         *)
LEMMA Sections ==
  /\ IsList(Access!PublicRoutes, 4)
  /\ IsList(Access!CatalogRoutes, 6)
  /\ IsList(Access!FormOptionsRoute, 1)
  /\ IsList(Access!RequestRoutes, 13)
  /\ IsList(PageRoutes, 2)
  /\ IsList(OutletRoutes, 3)
  /\ IsList(DistributorRoutes, 3)
  /\ IsList(TypeRoutes, 3)
  /\ IsList(Access!AdminRoutes, 11)
<1>1. IsList(Access!PublicRoutes, 4)
  BY DEF IsList, Access!PublicRoutes
<1>2. IsList(Access!CatalogRoutes, 6)
  BY DEF IsList, Access!CatalogRoutes
<1>3. IsList(Access!FormOptionsRoute, 1)
  BY DEF IsList, Access!FormOptionsRoute
<1>4. IsList(Access!RequestRoutes, 13)
  BY DEF IsList, Access!RequestRoutes
<1>5. IsList(PageRoutes, 2)
  BY DEF IsList, PageRoutes
<1>6. IsList(OutletRoutes, 3)
  BY DEF IsList, OutletRoutes, Access!SettingRoutes
<1>7. IsList(DistributorRoutes, 3)
  BY DEF IsList, DistributorRoutes, Access!SettingRoutes
<1>8. IsList(TypeRoutes, 3)
  BY DEF IsList, TypeRoutes, Access!SettingRoutes
<1>9. IsList(Access!AdminRoutes, 11)
  BY DEF IsList, Access!AdminRoutes
<1>10. QED
  BY <1>1, <1>2, <1>3, <1>4, <1>5, <1>6, <1>7, <1>8, <1>9

(* Where each section is in the list of all the routes.                    *)
LEMMA Places ==
  /\ DOMAIN Access!Routes = 1 .. 46
  /\ \A k \in 1 .. 4 : Access!Routes[0 + k] = Access!PublicRoutes[k]
  /\ \A k \in 1 .. 6 : Access!Routes[4 + k] = Access!CatalogRoutes[k]
  /\ \A k \in 1 .. 1 : Access!Routes[10 + k] = Access!FormOptionsRoute[k]
  /\ \A k \in 1 .. 13 : Access!Routes[11 + k] = Access!RequestRoutes[k]
  /\ \A k \in 1 .. 2 : Access!Routes[24 + k] = PageRoutes[k]
  /\ \A k \in 1 .. 3 : Access!Routes[26 + k] = OutletRoutes[k]
  /\ \A k \in 1 .. 3 : Access!Routes[29 + k] = DistributorRoutes[k]
  /\ \A k \in 1 .. 3 : Access!Routes[32 + k] = TypeRoutes[k]
  /\ \A k \in 1 .. 11 : Access!Routes[35 + k] = Access!AdminRoutes[k]
<1> DEFINE r2 == Access!PublicRoutes \o Access!CatalogRoutes
           form == Access!FormOptionsRoute \o Access!RequestRoutes
           r4 == r2 \o form
           r5 == r4 \o PageRoutes
           r6 == r5 \o OutletRoutes
           r7 == r6 \o DistributorRoutes
           r8 == r7 \o TypeRoutes
<1>1. Access!Routes = r8 \o Access!AdminRoutes
  BY DEF Access!Routes, Access!FormRoutes, PageRoutes, OutletRoutes, DistributorRoutes, TypeRoutes
<1> HIDE DEF r2, form, r4, r5, r6, r7, r8
<1>2. Joined(r2, 10, Access!PublicRoutes, 4, Access!CatalogRoutes, 6)
  <2>1. IsList(Access!PublicRoutes, 4) /\ IsList(Access!CatalogRoutes, 6) /\ 10 = 4 + 6
    BY Sections
  <2>2. QED
    BY <2>1, ListsJoin DEF r2
<1>3. Joined(form, 14, Access!FormOptionsRoute, 1, Access!RequestRoutes, 13)
  <2>1. IsList(Access!FormOptionsRoute, 1) /\ IsList(Access!RequestRoutes, 13) /\ 14 = 1 + 13
    BY Sections
  <2>2. QED
    BY <2>1, ListsJoin DEF form
<1>4. Joined(r4, 24, r2, 10, form, 14)
  <2>1. IsList(r2, 10) /\ IsList(form, 14) /\ 24 = 10 + 14
    BY <1>2, <1>3, Sections DEF Joined
  <2>2. QED
    BY <2>1, ListsJoin DEF r4
<1>5. Joined(r5, 26, r4, 24, PageRoutes, 2)
  <2>1. IsList(r4, 24) /\ IsList(PageRoutes, 2) /\ 26 = 24 + 2
    BY <1>4, Sections DEF Joined
  <2>2. QED
    BY <2>1, ListsJoin DEF r5
<1>6. Joined(r6, 29, r5, 26, OutletRoutes, 3)
  <2>1. IsList(r5, 26) /\ IsList(OutletRoutes, 3) /\ 29 = 26 + 3
    BY <1>5, Sections DEF Joined
  <2>2. QED
    BY <2>1, ListsJoin DEF r6
<1>7. Joined(r7, 32, r6, 29, DistributorRoutes, 3)
  <2>1. IsList(r6, 29) /\ IsList(DistributorRoutes, 3) /\ 32 = 29 + 3
    BY <1>6, Sections DEF Joined
  <2>2. QED
    BY <2>1, ListsJoin DEF r7
<1>8. Joined(r8, 35, r7, 32, TypeRoutes, 3)
  <2>1. IsList(r7, 32) /\ IsList(TypeRoutes, 3) /\ 35 = 32 + 3
    BY <1>7, Sections DEF Joined
  <2>2. QED
    BY <2>1, ListsJoin DEF r8
<1>9. Joined(Access!Routes, 46, r8, 35, Access!AdminRoutes, 11)
  <2>1. IsList(r8, 35) /\ IsList(Access!AdminRoutes, 11) /\ 46 = 35 + 11
    BY <1>1, <1>8, Sections DEF Joined
  <2>2. QED
    BY <2>1, ListsJoin, <1>1
<1>10. \A k \in 1 .. 4 : Access!Routes[0 + k] = Access!PublicRoutes[k]
  BY <1>2, <1>4, <1>5, <1>6, <1>7, <1>8, <1>9 DEF Joined
<1>11. \A k \in 1 .. 6 : Access!Routes[4 + k] = Access!CatalogRoutes[k]
  BY <1>2, <1>4, <1>5, <1>6, <1>7, <1>8, <1>9 DEF Joined
<1>12. \A k \in 1 .. 1 : Access!Routes[10 + k] = Access!FormOptionsRoute[k]
  BY <1>3, <1>4, <1>5, <1>6, <1>7, <1>8, <1>9 DEF Joined
<1>13. \A k \in 1 .. 13 : Access!Routes[11 + k] = Access!RequestRoutes[k]
  <2>1. \A k \in 1 .. 13 : 1 + k \in 1 .. 14 /\ 11 + k = 10 + (1 + k) /\ 11 + k \in 1 .. 24
    OBVIOUS
  <2>2. \A k \in 1 .. 13 : r4[11 + k] = form[1 + k]
    BY <2>1, <1>4 DEF Joined
  <2>3. QED
    BY <2>1, <2>2, <1>3, <1>4, <1>5, <1>6, <1>7, <1>8, <1>9 DEF Joined
<1>14. \A k \in 1 .. 2 : Access!Routes[24 + k] = PageRoutes[k]
  BY <1>5, <1>6, <1>7, <1>8, <1>9 DEF Joined
<1>15. \A k \in 1 .. 3 : Access!Routes[26 + k] = OutletRoutes[k]
  BY <1>6, <1>7, <1>8, <1>9 DEF Joined
<1>16. \A k \in 1 .. 3 : Access!Routes[29 + k] = DistributorRoutes[k]
  BY <1>7, <1>8, <1>9 DEF Joined
<1>17. \A k \in 1 .. 3 : Access!Routes[32 + k] = TypeRoutes[k]
  BY <1>8, <1>9 DEF Joined
<1>18. \A k \in 1 .. 11 : Access!Routes[35 + k] = Access!AdminRoutes[k]
  BY <1>9 DEF Joined
<1>19. DOMAIN Access!Routes = 1 .. 46
  BY <1>9 DEF IsList, Joined
<1>20. QED
  BY <1>10, <1>11, <1>12, <1>13, <1>14, <1>15, <1>16, <1>17, <1>18, <1>19

(* All the routes, in their order.                                         *)
LEMMA Table ==
  /\ Row(Access!Routes[1], Asks("POST", 2) /\ path[1] = "auth" /\ path[2] = "login", "", "Login")
  /\ Row(Access!Routes[2], Len(path) >= 1 /\ path[1] = "webhooks", "signature", "")
  /\ Row(Access!Routes[3], Asks("POST", 2) /\ path[1] = "webhooks" /\ path[2] = "approval-engine", "", "ApprovalEngine")
  /\ Row(Access!Routes[4], TRUE, "token", "")
  /\ Row(Access!Routes[5], Asks("GET", 2) /\ path[1] = "fulfillment" /\ path[2] = "phone-catalog", "fulfillment:read", "Catalog")
  /\ Row(Access!Routes[6], Asks("POST", 2) /\ path[1] = "settings" /\ path[2] = "phone-brands", "settings:manage", "CreateBrand")
  /\ Row(Access!Routes[7], Asks("PUT", 3) /\ path[1] = "settings" /\ path[2] = "phone-brands", "settings:manage", "UpdateBrand")
  /\ Row(Access!Routes[8], Asks("POST", 2) /\ path[1] = "settings" /\ path[2] = "phone-models", "settings:manage", "CreateModel")
  /\ Row(Access!Routes[9], Asks("PUT", 3) /\ path[1] = "settings" /\ path[2] = "phone-models", "settings:manage", "UpdateModel")
  /\ Row(Access!Routes[10], Asks("GET", 3) /\ path[1] = "fulfillment" /\ path[2] = "imei-lookup", "fulfillment:read", "Lookup")
  /\ Row(Access!Routes[11], Asks("GET", 2) /\ path[1] = "requests" /\ path[2] = "form-options", "request:create", "FormOptions")
  /\ Row(Access!Routes[12], Len(path) >= 1 /\ path[1] = "requests", "request:read", "")
  /\ Row(Access!Routes[13], Asks("GET", 1) /\ path[1] = "requests", "", "List")
  /\ Row(Access!Routes[14], Asks("GET", 2) /\ path[1] = "requests", "", "Detail")
  /\ Row(Access!Routes[15], Asks("POST", 1) /\ path[1] = "requests", "request:create", "Create")
  /\ Row(Access!Routes[16], Len(path) >= 1 /\ path[1] = "approvals", "approvals:read", "")
  /\ Row(Access!Routes[17], Asks("GET", 1) /\ path[1] = "approvals", "", "Approvals")
  /\ Row(Access!Routes[18], Asks("GET", 2) /\ path[1] = "approvals", "", "ApprovalDetail")
  /\ Row(Access!Routes[19], Asks("POST", 3) /\ path[1] = "approvals" /\ path[3] = "action", "request:approve", "ApprovalAction")
  /\ Row(Access!Routes[20], Len(path) >= 1 /\ path[1] = "fulfillment", "fulfillment:read", "")
  /\ Row(Access!Routes[21], Asks("GET", 1) /\ path[1] = "fulfillment", "", "Fulfillment")
  /\ Row(Access!Routes[22], Asks("GET", 2) /\ path[1] = "fulfillment", "", "FulfillmentDetail")
  /\ Row(Access!Routes[23], Asks("POST", 3) /\ path[1] = "fulfillment" /\ path[3] = "data", "fulfillment:process", "SaveFulfillmentData")
  /\ Row(Access!Routes[24], Asks("POST", 3) /\ path[1] = "fulfillment" /\ path[3] = "advance", "fulfillment:process", "AdvanceFulfillment")
  /\ Row(Access!Routes[25], Asks("GET", 2) /\ path[1] = "navigation" /\ path[2] = "badges", "", "Badges")
  /\ Row(Access!Routes[26], Asks("GET", 2) /\ path[1] = "dashboard" /\ path[2] = "overview", "dashboard:read", "Overview")
  /\ Row(Access!Routes[27], Asks("GET", 2) /\ path[1] = "settings" /\ path[2] = "outlets", "masterdata:manage", "Outlets")
  /\ Row(Access!Routes[28], Asks("POST", 2) /\ path[1] = "settings" /\ path[2] = "outlets", "masterdata:manage", "CreateOutlet")
  /\ Row(Access!Routes[29], Asks("PUT", 3) /\ path[1] = "settings" /\ path[2] = "outlets", "masterdata:manage", "UpdateOutlet")
  /\ Row(Access!Routes[30], Asks("GET", 2) /\ path[1] = "settings" /\ path[2] = "distributors", "masterdata:manage", "Distributors")
  /\ Row(Access!Routes[31], Asks("POST", 2) /\ path[1] = "settings" /\ path[2] = "distributors", "masterdata:manage", "CreateDistributor")
  /\ Row(Access!Routes[32], Asks("PUT", 3) /\ path[1] = "settings" /\ path[2] = "distributors", "masterdata:manage", "UpdateDistributor")
  /\ Row(Access!Routes[33], Asks("GET", 2) /\ path[1] = "settings" /\ path[2] = "types", "settings:manage", "Types")
  /\ Row(Access!Routes[34], Asks("POST", 2) /\ path[1] = "settings" /\ path[2] = "types", "settings:manage", "CreateType")
  /\ Row(Access!Routes[35], Asks("PUT", 3) /\ path[1] = "settings" /\ path[2] = "types", "settings:manage", "UpdateType")
  /\ Row(Access!Routes[36], Asks("GET", 1) /\ path[1] = "me", "", "GetMe")
  /\ Row(Access!Routes[37], Asks("PUT", 2) /\ path[1] = "me" /\ path[2] = "settings", "", "UpdateUserSettings")
  /\ Row(Access!Routes[38], Asks("GET", 1) /\ path[1] = "roles", "role:manage", "GetRoles")
  /\ Row(Access!Routes[39], Asks("POST", 1) /\ path[1] = "roles", "role:manage", "CreateRole")
  /\ Row(Access!Routes[40], Asks("POST", 3) /\ path[1] = "roles" /\ path[3] = "permissions", "role:manage", "AssignRolePermissions")
  /\ Row(Access!Routes[41], Asks("GET", 1) /\ path[1] = "permissions", "role:manage", "GetPermissions")
  /\ Row(Access!Routes[42], Asks("GET", 1) /\ path[1] = "users", "user:read", "GetUsers")
  /\ Row(Access!Routes[43], Asks("POST", 1) /\ path[1] = "users", "user:write", "CreateUser")
  /\ Row(Access!Routes[44], Asks("PUT", 2) /\ path[1] = "users", "user:write", "UpdateUser")
  /\ Row(Access!Routes[45], Asks("POST", 3) /\ path[1] = "users" /\ path[3] = "master", "user:master", "SetMasterUser")
  /\ Row(Access!Routes[46], Asks("POST", 3) /\ path[1] = "users" /\ path[3] = "roles", "role:manage", "AssignUserRoles")
<1>1. /\ Row(Access!Routes[1], Asks("POST", 2) /\ path[1] = "auth" /\ path[2] = "login", "", "Login")
      /\ Row(Access!Routes[2], Len(path) >= 1 /\ path[1] = "webhooks", "signature", "")
      /\ Row(Access!Routes[3], Asks("POST", 2) /\ path[1] = "webhooks" /\ path[2] = "approval-engine", "", "ApprovalEngine")
      /\ Row(Access!Routes[4], TRUE, "token", "")
  <2>1. /\ Access!Routes[1] = Access!PublicRoutes[1]
        /\ Access!Routes[2] = Access!PublicRoutes[2]
        /\ Access!Routes[3] = Access!PublicRoutes[3]
        /\ Access!Routes[4] = Access!PublicRoutes[4]
    BY Places, 0 + 1 = 1, 0 + 2 = 2, 0 + 3 = 3, 0 + 4 = 4
  <2>2. QED
    BY <2>1, PublicRows
<1>2. /\ Row(Access!Routes[5], Asks("GET", 2) /\ path[1] = "fulfillment" /\ path[2] = "phone-catalog", "fulfillment:read", "Catalog")
      /\ Row(Access!Routes[6], Asks("POST", 2) /\ path[1] = "settings" /\ path[2] = "phone-brands", "settings:manage", "CreateBrand")
      /\ Row(Access!Routes[7], Asks("PUT", 3) /\ path[1] = "settings" /\ path[2] = "phone-brands", "settings:manage", "UpdateBrand")
      /\ Row(Access!Routes[8], Asks("POST", 2) /\ path[1] = "settings" /\ path[2] = "phone-models", "settings:manage", "CreateModel")
      /\ Row(Access!Routes[9], Asks("PUT", 3) /\ path[1] = "settings" /\ path[2] = "phone-models", "settings:manage", "UpdateModel")
      /\ Row(Access!Routes[10], Asks("GET", 3) /\ path[1] = "fulfillment" /\ path[2] = "imei-lookup", "fulfillment:read", "Lookup")
  <2>1. /\ Access!Routes[5] = Access!CatalogRoutes[1]
        /\ Access!Routes[6] = Access!CatalogRoutes[2]
        /\ Access!Routes[7] = Access!CatalogRoutes[3]
        /\ Access!Routes[8] = Access!CatalogRoutes[4]
        /\ Access!Routes[9] = Access!CatalogRoutes[5]
        /\ Access!Routes[10] = Access!CatalogRoutes[6]
    BY Places, 4 + 1 = 5, 4 + 2 = 6, 4 + 3 = 7, 4 + 4 = 8, 4 + 5 = 9, 4 + 6 = 10
  <2>2. QED
    BY <2>1, CatalogRows
<1>3. /\ Row(Access!Routes[11], Asks("GET", 2) /\ path[1] = "requests" /\ path[2] = "form-options", "request:create", "FormOptions")
  <2>1. /\ Access!Routes[11] = Access!FormOptionsRoute[1]
    BY Places, 10 + 1 = 11
  <2>2. QED
    BY <2>1, FormOptionsRows
<1>4. /\ Row(Access!Routes[12], Len(path) >= 1 /\ path[1] = "requests", "request:read", "")
      /\ Row(Access!Routes[13], Asks("GET", 1) /\ path[1] = "requests", "", "List")
      /\ Row(Access!Routes[14], Asks("GET", 2) /\ path[1] = "requests", "", "Detail")
      /\ Row(Access!Routes[15], Asks("POST", 1) /\ path[1] = "requests", "request:create", "Create")
      /\ Row(Access!Routes[16], Len(path) >= 1 /\ path[1] = "approvals", "approvals:read", "")
      /\ Row(Access!Routes[17], Asks("GET", 1) /\ path[1] = "approvals", "", "Approvals")
      /\ Row(Access!Routes[18], Asks("GET", 2) /\ path[1] = "approvals", "", "ApprovalDetail")
      /\ Row(Access!Routes[19], Asks("POST", 3) /\ path[1] = "approvals" /\ path[3] = "action", "request:approve", "ApprovalAction")
      /\ Row(Access!Routes[20], Len(path) >= 1 /\ path[1] = "fulfillment", "fulfillment:read", "")
      /\ Row(Access!Routes[21], Asks("GET", 1) /\ path[1] = "fulfillment", "", "Fulfillment")
      /\ Row(Access!Routes[22], Asks("GET", 2) /\ path[1] = "fulfillment", "", "FulfillmentDetail")
      /\ Row(Access!Routes[23], Asks("POST", 3) /\ path[1] = "fulfillment" /\ path[3] = "data", "fulfillment:process", "SaveFulfillmentData")
      /\ Row(Access!Routes[24], Asks("POST", 3) /\ path[1] = "fulfillment" /\ path[3] = "advance", "fulfillment:process", "AdvanceFulfillment")
  <2>1. /\ Access!Routes[12] = Access!RequestRoutes[1]
        /\ Access!Routes[13] = Access!RequestRoutes[2]
        /\ Access!Routes[14] = Access!RequestRoutes[3]
        /\ Access!Routes[15] = Access!RequestRoutes[4]
        /\ Access!Routes[16] = Access!RequestRoutes[5]
        /\ Access!Routes[17] = Access!RequestRoutes[6]
        /\ Access!Routes[18] = Access!RequestRoutes[7]
        /\ Access!Routes[19] = Access!RequestRoutes[8]
        /\ Access!Routes[20] = Access!RequestRoutes[9]
        /\ Access!Routes[21] = Access!RequestRoutes[10]
        /\ Access!Routes[22] = Access!RequestRoutes[11]
        /\ Access!Routes[23] = Access!RequestRoutes[12]
        /\ Access!Routes[24] = Access!RequestRoutes[13]
    BY Places, 11 + 1 = 12, 11 + 2 = 13, 11 + 3 = 14, 11 + 4 = 15, 11 + 5 = 16, 11 + 6 = 17, 11 + 7 = 18, 11 + 8 = 19, 11 + 9 = 20, 11 + 10 = 21, 11 + 11 = 22, 11 + 12 = 23, 11 + 13 = 24
  <2>2. QED
    BY <2>1, RequestRows
<1>5. /\ Row(Access!Routes[25], Asks("GET", 2) /\ path[1] = "navigation" /\ path[2] = "badges", "", "Badges")
      /\ Row(Access!Routes[26], Asks("GET", 2) /\ path[1] = "dashboard" /\ path[2] = "overview", "dashboard:read", "Overview")
  <2>1. /\ Access!Routes[25] = PageRoutes[1]
        /\ Access!Routes[26] = PageRoutes[2]
    BY Places, 24 + 1 = 25, 24 + 2 = 26
  <2>2. QED
    BY <2>1, PageRows
<1>6. /\ Row(Access!Routes[27], Asks("GET", 2) /\ path[1] = "settings" /\ path[2] = "outlets", "masterdata:manage", "Outlets")
      /\ Row(Access!Routes[28], Asks("POST", 2) /\ path[1] = "settings" /\ path[2] = "outlets", "masterdata:manage", "CreateOutlet")
      /\ Row(Access!Routes[29], Asks("PUT", 3) /\ path[1] = "settings" /\ path[2] = "outlets", "masterdata:manage", "UpdateOutlet")
  <2>1. /\ Access!Routes[27] = OutletRoutes[1]
        /\ Access!Routes[28] = OutletRoutes[2]
        /\ Access!Routes[29] = OutletRoutes[3]
    BY Places, 26 + 1 = 27, 26 + 2 = 28, 26 + 3 = 29
  <2>2. QED
    BY <2>1, OutletRows
<1>7. /\ Row(Access!Routes[30], Asks("GET", 2) /\ path[1] = "settings" /\ path[2] = "distributors", "masterdata:manage", "Distributors")
      /\ Row(Access!Routes[31], Asks("POST", 2) /\ path[1] = "settings" /\ path[2] = "distributors", "masterdata:manage", "CreateDistributor")
      /\ Row(Access!Routes[32], Asks("PUT", 3) /\ path[1] = "settings" /\ path[2] = "distributors", "masterdata:manage", "UpdateDistributor")
  <2>1. /\ Access!Routes[30] = DistributorRoutes[1]
        /\ Access!Routes[31] = DistributorRoutes[2]
        /\ Access!Routes[32] = DistributorRoutes[3]
    BY Places, 29 + 1 = 30, 29 + 2 = 31, 29 + 3 = 32
  <2>2. QED
    BY <2>1, DistributorRows
<1>8. /\ Row(Access!Routes[33], Asks("GET", 2) /\ path[1] = "settings" /\ path[2] = "types", "settings:manage", "Types")
      /\ Row(Access!Routes[34], Asks("POST", 2) /\ path[1] = "settings" /\ path[2] = "types", "settings:manage", "CreateType")
      /\ Row(Access!Routes[35], Asks("PUT", 3) /\ path[1] = "settings" /\ path[2] = "types", "settings:manage", "UpdateType")
  <2>1. /\ Access!Routes[33] = TypeRoutes[1]
        /\ Access!Routes[34] = TypeRoutes[2]
        /\ Access!Routes[35] = TypeRoutes[3]
    BY Places, 32 + 1 = 33, 32 + 2 = 34, 32 + 3 = 35
  <2>2. QED
    BY <2>1, TypeRows
<1>9. /\ Row(Access!Routes[36], Asks("GET", 1) /\ path[1] = "me", "", "GetMe")
      /\ Row(Access!Routes[37], Asks("PUT", 2) /\ path[1] = "me" /\ path[2] = "settings", "", "UpdateUserSettings")
      /\ Row(Access!Routes[38], Asks("GET", 1) /\ path[1] = "roles", "role:manage", "GetRoles")
      /\ Row(Access!Routes[39], Asks("POST", 1) /\ path[1] = "roles", "role:manage", "CreateRole")
      /\ Row(Access!Routes[40], Asks("POST", 3) /\ path[1] = "roles" /\ path[3] = "permissions", "role:manage", "AssignRolePermissions")
      /\ Row(Access!Routes[41], Asks("GET", 1) /\ path[1] = "permissions", "role:manage", "GetPermissions")
      /\ Row(Access!Routes[42], Asks("GET", 1) /\ path[1] = "users", "user:read", "GetUsers")
      /\ Row(Access!Routes[43], Asks("POST", 1) /\ path[1] = "users", "user:write", "CreateUser")
      /\ Row(Access!Routes[44], Asks("PUT", 2) /\ path[1] = "users", "user:write", "UpdateUser")
      /\ Row(Access!Routes[45], Asks("POST", 3) /\ path[1] = "users" /\ path[3] = "master", "user:master", "SetMasterUser")
      /\ Row(Access!Routes[46], Asks("POST", 3) /\ path[1] = "users" /\ path[3] = "roles", "role:manage", "AssignUserRoles")
  <2>1. /\ Access!Routes[36] = Access!AdminRoutes[1]
        /\ Access!Routes[37] = Access!AdminRoutes[2]
        /\ Access!Routes[38] = Access!AdminRoutes[3]
        /\ Access!Routes[39] = Access!AdminRoutes[4]
        /\ Access!Routes[40] = Access!AdminRoutes[5]
        /\ Access!Routes[41] = Access!AdminRoutes[6]
        /\ Access!Routes[42] = Access!AdminRoutes[7]
        /\ Access!Routes[43] = Access!AdminRoutes[8]
        /\ Access!Routes[44] = Access!AdminRoutes[9]
        /\ Access!Routes[45] = Access!AdminRoutes[10]
        /\ Access!Routes[46] = Access!AdminRoutes[11]
    BY Places, 35 + 1 = 36, 35 + 2 = 37, 35 + 3 = 38, 35 + 4 = 39, 35 + 5 = 40, 35 + 6 = 41, 35 + 7 = 42, 35 + 8 = 43, 35 + 9 = 44, 35 + 10 = 45, 35 + 11 = 46
  <2>2. QED
    BY <2>1, AdminRows
<1>10. QED
  BY <1>1, <1>2, <1>3, <1>4, <1>5, <1>6, <1>7, <1>8, <1>9

(* A pattern is a sequence.                                                *)
IsPattern(pattern) == Len(pattern) \in Nat /\ DOMAIN pattern = 1 .. Len(pattern)

(* So is that of every route.                                              *)
LEMMA Patterns ==
  ASSUME NEW k \in DOMAIN Access!Routes, Access!Routes[k].method # "use"
  PROVE  IsPattern(Access!Routes[k].path)
<1>1. \A j \in 1 .. 4 : Access!PublicRoutes[j].method # "use" => IsPattern(Access!PublicRoutes[j].path)
  <2>1. IsPattern(Access!PublicRoutes[1].path)
    BY DEF Access!PublicRoutes, Access!Group, Access!Route, IsPattern
  <2>2. Access!PublicRoutes[2].method = "use"
    BY DEF Access!PublicRoutes, Access!Group, Access!Route
  <2>3. IsPattern(Access!PublicRoutes[3].path)
    BY DEF Access!PublicRoutes, Access!Group, Access!Route, IsPattern
  <2>4. Access!PublicRoutes[4].method = "use"
    BY DEF Access!PublicRoutes, Access!Group, Access!Route
  <2>5. QED
    BY <2>1, <2>2, <2>3, <2>4
<1>2. \A j \in 1 .. 6 : Access!CatalogRoutes[j].method # "use" => IsPattern(Access!CatalogRoutes[j].path)
  <2>1. IsPattern(Access!CatalogRoutes[1].path)
    BY DEF Access!CatalogRoutes, Access!Route, IsPattern
  <2>2. IsPattern(Access!CatalogRoutes[2].path)
    BY DEF Access!CatalogRoutes, Access!Route, IsPattern
  <2>3. IsPattern(Access!CatalogRoutes[3].path)
    BY DEF Access!CatalogRoutes, Access!Route, IsPattern
  <2>4. IsPattern(Access!CatalogRoutes[4].path)
    BY DEF Access!CatalogRoutes, Access!Route, IsPattern
  <2>5. IsPattern(Access!CatalogRoutes[5].path)
    BY DEF Access!CatalogRoutes, Access!Route, IsPattern
  <2>6. IsPattern(Access!CatalogRoutes[6].path)
    BY DEF Access!CatalogRoutes, Access!Route, IsPattern
  <2>7. QED
    BY <2>1, <2>2, <2>3, <2>4, <2>5, <2>6
<1>3. \A j \in 1 .. 1 : Access!FormOptionsRoute[j].method # "use" => IsPattern(Access!FormOptionsRoute[j].path)
  <2>1. IsPattern(Access!FormOptionsRoute[1].path)
    BY DEF Access!FormOptionsRoute, Access!Route, IsPattern
  <2>2. QED
    BY <2>1
<1>4. \A j \in 1 .. 13 : Access!RequestRoutes[j].method # "use" => IsPattern(Access!RequestRoutes[j].path)
  <2>1. Access!RequestRoutes[1].method = "use"
    BY DEF Access!RequestRoutes, Access!Group, Access!Route
  <2>2. IsPattern(Access!RequestRoutes[2].path)
    BY DEF Access!RequestRoutes, Access!Group, Access!Route, IsPattern
  <2>3. IsPattern(Access!RequestRoutes[3].path)
    BY DEF Access!RequestRoutes, Access!Group, Access!Route, IsPattern
  <2>4. IsPattern(Access!RequestRoutes[4].path)
    BY DEF Access!RequestRoutes, Access!Group, Access!Route, IsPattern
  <2>5. Access!RequestRoutes[5].method = "use"
    BY DEF Access!RequestRoutes, Access!Group, Access!Route
  <2>6. IsPattern(Access!RequestRoutes[6].path)
    BY DEF Access!RequestRoutes, Access!Group, Access!Route, IsPattern
  <2>7. IsPattern(Access!RequestRoutes[7].path)
    BY DEF Access!RequestRoutes, Access!Group, Access!Route, IsPattern
  <2>8. IsPattern(Access!RequestRoutes[8].path)
    BY DEF Access!RequestRoutes, Access!Group, Access!Route, IsPattern
  <2>9. Access!RequestRoutes[9].method = "use"
    BY DEF Access!RequestRoutes, Access!Group, Access!Route
  <2>10. IsPattern(Access!RequestRoutes[10].path)
    BY DEF Access!RequestRoutes, Access!Group, Access!Route, IsPattern
  <2>11. IsPattern(Access!RequestRoutes[11].path)
    BY DEF Access!RequestRoutes, Access!Group, Access!Route, IsPattern
  <2>12. IsPattern(Access!RequestRoutes[12].path)
    BY DEF Access!RequestRoutes, Access!Group, Access!Route, IsPattern
  <2>13. IsPattern(Access!RequestRoutes[13].path)
    BY DEF Access!RequestRoutes, Access!Group, Access!Route, IsPattern
  <2>14. QED
    BY <2>1, <2>2, <2>3, <2>4, <2>5, <2>6, <2>7, <2>8, <2>9, <2>10, <2>11, <2>12, <2>13
<1>5. \A j \in 1 .. 2 : PageRoutes[j].method # "use" => IsPattern(PageRoutes[j].path)
  <2>1. IsPattern(PageRoutes[1].path)
    BY DEF PageRoutes, Access!Route, IsPattern
  <2>2. IsPattern(PageRoutes[2].path)
    BY DEF PageRoutes, Access!Route, IsPattern
  <2>3. QED
    BY <2>1, <2>2
<1>6. \A j \in 1 .. 3 : OutletRoutes[j].method # "use" => IsPattern(OutletRoutes[j].path)
  <2>1. IsPattern(OutletRoutes[1].path)
    BY DEF OutletRoutes, Access!SettingRoutes, Access!Route, IsPattern
  <2>2. IsPattern(OutletRoutes[2].path)
    BY DEF OutletRoutes, Access!SettingRoutes, Access!Route, IsPattern
  <2>3. IsPattern(OutletRoutes[3].path)
    BY DEF OutletRoutes, Access!SettingRoutes, Access!Route, IsPattern
  <2>4. QED
    BY <2>1, <2>2, <2>3
<1>7. \A j \in 1 .. 3 : DistributorRoutes[j].method # "use" => IsPattern(DistributorRoutes[j].path)
  <2>1. IsPattern(DistributorRoutes[1].path)
    BY DEF DistributorRoutes, Access!SettingRoutes, Access!Route, IsPattern
  <2>2. IsPattern(DistributorRoutes[2].path)
    BY DEF DistributorRoutes, Access!SettingRoutes, Access!Route, IsPattern
  <2>3. IsPattern(DistributorRoutes[3].path)
    BY DEF DistributorRoutes, Access!SettingRoutes, Access!Route, IsPattern
  <2>4. QED
    BY <2>1, <2>2, <2>3
<1>8. \A j \in 1 .. 3 : TypeRoutes[j].method # "use" => IsPattern(TypeRoutes[j].path)
  <2>1. IsPattern(TypeRoutes[1].path)
    BY DEF TypeRoutes, Access!SettingRoutes, Access!Route, IsPattern
  <2>2. IsPattern(TypeRoutes[2].path)
    BY DEF TypeRoutes, Access!SettingRoutes, Access!Route, IsPattern
  <2>3. IsPattern(TypeRoutes[3].path)
    BY DEF TypeRoutes, Access!SettingRoutes, Access!Route, IsPattern
  <2>4. QED
    BY <2>1, <2>2, <2>3
<1>9. \A j \in 1 .. 11 : Access!AdminRoutes[j].method # "use" => IsPattern(Access!AdminRoutes[j].path)
  <2>1. IsPattern(Access!AdminRoutes[1].path)
    BY DEF Access!AdminRoutes, Access!Route, IsPattern
  <2>2. IsPattern(Access!AdminRoutes[2].path)
    BY DEF Access!AdminRoutes, Access!Route, IsPattern
  <2>3. IsPattern(Access!AdminRoutes[3].path)
    BY DEF Access!AdminRoutes, Access!Route, IsPattern
  <2>4. IsPattern(Access!AdminRoutes[4].path)
    BY DEF Access!AdminRoutes, Access!Route, IsPattern
  <2>5. IsPattern(Access!AdminRoutes[5].path)
    BY DEF Access!AdminRoutes, Access!Route, IsPattern
  <2>6. IsPattern(Access!AdminRoutes[6].path)
    BY DEF Access!AdminRoutes, Access!Route, IsPattern
  <2>7. IsPattern(Access!AdminRoutes[7].path)
    BY DEF Access!AdminRoutes, Access!Route, IsPattern
  <2>8. IsPattern(Access!AdminRoutes[8].path)
    BY DEF Access!AdminRoutes, Access!Route, IsPattern
  <2>9. IsPattern(Access!AdminRoutes[9].path)
    BY DEF Access!AdminRoutes, Access!Route, IsPattern
  <2>10. IsPattern(Access!AdminRoutes[10].path)
    BY DEF Access!AdminRoutes, Access!Route, IsPattern
  <2>11. IsPattern(Access!AdminRoutes[11].path)
    BY DEF Access!AdminRoutes, Access!Route, IsPattern
  <2>12. QED
    BY <2>1, <2>2, <2>3, <2>4, <2>5, <2>6, <2>7, <2>8, <2>9, <2>10, <2>11
<1>10. k \in 1 .. 46
  BY Places
<1>11. \/ k \in 1 .. 4
       \/ k \in 5 .. 10
       \/ k \in 11 .. 11
       \/ k \in 12 .. 24
       \/ k \in 25 .. 26
       \/ k \in 27 .. 29
       \/ k \in 30 .. 32
       \/ k \in 33 .. 35
       \/ k \in 36 .. 46
  BY <1>10
<1>12. ASSUME k \in 1 .. 4 PROVE IsPattern(Access!Routes[k].path)
  <2>1. k - 0 \in 1 .. 4 /\ k = 0 + (k - 0)
    BY <1>12
  <2>2. QED
    BY <2>1, <1>1, Places
<1>13. ASSUME k \in 5 .. 10 PROVE IsPattern(Access!Routes[k].path)
  <2>1. k - 4 \in 1 .. 6 /\ k = 4 + (k - 4)
    BY <1>13
  <2>2. QED
    BY <2>1, <1>2, Places
<1>14. ASSUME k \in 11 .. 11 PROVE IsPattern(Access!Routes[k].path)
  <2>1. k - 10 \in 1 .. 1 /\ k = 10 + (k - 10)
    BY <1>14
  <2>2. QED
    BY <2>1, <1>3, Places
<1>15. ASSUME k \in 12 .. 24 PROVE IsPattern(Access!Routes[k].path)
  <2>1. k - 11 \in 1 .. 13 /\ k = 11 + (k - 11)
    BY <1>15
  <2>2. QED
    BY <2>1, <1>4, Places
<1>16. ASSUME k \in 25 .. 26 PROVE IsPattern(Access!Routes[k].path)
  <2>1. k - 24 \in 1 .. 2 /\ k = 24 + (k - 24)
    BY <1>16
  <2>2. QED
    BY <2>1, <1>5, Places
<1>17. ASSUME k \in 27 .. 29 PROVE IsPattern(Access!Routes[k].path)
  <2>1. k - 26 \in 1 .. 3 /\ k = 26 + (k - 26)
    BY <1>17
  <2>2. QED
    BY <2>1, <1>6, Places
<1>18. ASSUME k \in 30 .. 32 PROVE IsPattern(Access!Routes[k].path)
  <2>1. k - 29 \in 1 .. 3 /\ k = 29 + (k - 29)
    BY <1>18
  <2>2. QED
    BY <2>1, <1>7, Places
<1>19. ASSUME k \in 33 .. 35 PROVE IsPattern(Access!Routes[k].path)
  <2>1. k - 32 \in 1 .. 3 /\ k = 32 + (k - 32)
    BY <1>19
  <2>2. QED
    BY <2>1, <1>8, Places
<1>20. ASSUME k \in 36 .. 46 PROVE IsPattern(Access!Routes[k].path)
  <2>1. k - 35 \in 1 .. 11 /\ k = 35 + (k - 35)
    BY <1>20
  <2>2. QED
    BY <2>1, <1>9, Places
<1>21. IsPattern(Access!Routes[k].path)
  BY <1>11, <1>12, <1>13, <1>14, <1>15, <1>16, <1>17, <1>18, <1>19, <1>20
<1>22. QED
  BY <1>21

(* A route for the very path asked for.                                    *)
Hit(k) == Access!Matches(Access!Routes[k]) /\ Access!Routes[k].method # "use"

(* Which requests each route is for.                                       *)
LEMMA Hits ==
  /\ Hit(1) <=> Asks("POST", 2) /\ path[1] = "auth" /\ path[2] = "login"
  /\ ~Hit(2)
  /\ Hit(3) <=> Asks("POST", 2) /\ path[1] = "webhooks" /\ path[2] = "approval-engine"
  /\ ~Hit(4)
  /\ Hit(5) <=> Asks("GET", 2) /\ path[1] = "fulfillment" /\ path[2] = "phone-catalog"
  /\ Hit(6) <=> Asks("POST", 2) /\ path[1] = "settings" /\ path[2] = "phone-brands"
  /\ Hit(7) <=> Asks("PUT", 3) /\ path[1] = "settings" /\ path[2] = "phone-brands"
  /\ Hit(8) <=> Asks("POST", 2) /\ path[1] = "settings" /\ path[2] = "phone-models"
  /\ Hit(9) <=> Asks("PUT", 3) /\ path[1] = "settings" /\ path[2] = "phone-models"
  /\ Hit(10) <=> Asks("GET", 3) /\ path[1] = "fulfillment" /\ path[2] = "imei-lookup"
  /\ Hit(11) <=> Asks("GET", 2) /\ path[1] = "requests" /\ path[2] = "form-options"
  /\ ~Hit(12)
  /\ Hit(13) <=> Asks("GET", 1) /\ path[1] = "requests"
  /\ Hit(14) <=> Asks("GET", 2) /\ path[1] = "requests"
  /\ Hit(15) <=> Asks("POST", 1) /\ path[1] = "requests"
  /\ ~Hit(16)
  /\ Hit(17) <=> Asks("GET", 1) /\ path[1] = "approvals"
  /\ Hit(18) <=> Asks("GET", 2) /\ path[1] = "approvals"
  /\ Hit(19) <=> Asks("POST", 3) /\ path[1] = "approvals" /\ path[3] = "action"
  /\ ~Hit(20)
  /\ Hit(21) <=> Asks("GET", 1) /\ path[1] = "fulfillment"
  /\ Hit(22) <=> Asks("GET", 2) /\ path[1] = "fulfillment"
  /\ Hit(23) <=> Asks("POST", 3) /\ path[1] = "fulfillment" /\ path[3] = "data"
  /\ Hit(24) <=> Asks("POST", 3) /\ path[1] = "fulfillment" /\ path[3] = "advance"
  /\ Hit(25) <=> Asks("GET", 2) /\ path[1] = "navigation" /\ path[2] = "badges"
  /\ Hit(26) <=> Asks("GET", 2) /\ path[1] = "dashboard" /\ path[2] = "overview"
  /\ Hit(27) <=> Asks("GET", 2) /\ path[1] = "settings" /\ path[2] = "outlets"
  /\ Hit(28) <=> Asks("POST", 2) /\ path[1] = "settings" /\ path[2] = "outlets"
  /\ Hit(29) <=> Asks("PUT", 3) /\ path[1] = "settings" /\ path[2] = "outlets"
  /\ Hit(30) <=> Asks("GET", 2) /\ path[1] = "settings" /\ path[2] = "distributors"
  /\ Hit(31) <=> Asks("POST", 2) /\ path[1] = "settings" /\ path[2] = "distributors"
  /\ Hit(32) <=> Asks("PUT", 3) /\ path[1] = "settings" /\ path[2] = "distributors"
  /\ Hit(33) <=> Asks("GET", 2) /\ path[1] = "settings" /\ path[2] = "types"
  /\ Hit(34) <=> Asks("POST", 2) /\ path[1] = "settings" /\ path[2] = "types"
  /\ Hit(35) <=> Asks("PUT", 3) /\ path[1] = "settings" /\ path[2] = "types"
  /\ Hit(36) <=> Asks("GET", 1) /\ path[1] = "me"
  /\ Hit(37) <=> Asks("PUT", 2) /\ path[1] = "me" /\ path[2] = "settings"
  /\ Hit(38) <=> Asks("GET", 1) /\ path[1] = "roles"
  /\ Hit(39) <=> Asks("POST", 1) /\ path[1] = "roles"
  /\ Hit(40) <=> Asks("POST", 3) /\ path[1] = "roles" /\ path[3] = "permissions"
  /\ Hit(41) <=> Asks("GET", 1) /\ path[1] = "permissions"
  /\ Hit(42) <=> Asks("GET", 1) /\ path[1] = "users"
  /\ Hit(43) <=> Asks("POST", 1) /\ path[1] = "users"
  /\ Hit(44) <=> Asks("PUT", 2) /\ path[1] = "users"
  /\ Hit(45) <=> Asks("POST", 3) /\ path[1] = "users" /\ path[3] = "master"
  /\ Hit(46) <=> Asks("POST", 3) /\ path[1] = "users" /\ path[3] = "roles"
<1>1. /\ Hit(1) <=> Asks("POST", 2) /\ path[1] = "auth" /\ path[2] = "login"
      /\ ~Hit(2)
      /\ Hit(3) <=> Asks("POST", 2) /\ path[1] = "webhooks" /\ path[2] = "approval-engine"
      /\ ~Hit(4)
      /\ Hit(5) <=> Asks("GET", 2) /\ path[1] = "fulfillment" /\ path[2] = "phone-catalog"
      /\ Hit(6) <=> Asks("POST", 2) /\ path[1] = "settings" /\ path[2] = "phone-brands"
      /\ Hit(7) <=> Asks("PUT", 3) /\ path[1] = "settings" /\ path[2] = "phone-brands"
      /\ Hit(8) <=> Asks("POST", 2) /\ path[1] = "settings" /\ path[2] = "phone-models"
      /\ Hit(9) <=> Asks("PUT", 3) /\ path[1] = "settings" /\ path[2] = "phone-models"
      /\ Hit(10) <=> Asks("GET", 3) /\ path[1] = "fulfillment" /\ path[2] = "imei-lookup"
  <2>1. /\ Row(Access!Routes[1], Asks("POST", 2) /\ path[1] = "auth" /\ path[2] = "login", "", "Login")
        /\ Row(Access!Routes[2], Len(path) >= 1 /\ path[1] = "webhooks", "signature", "")
        /\ Row(Access!Routes[3], Asks("POST", 2) /\ path[1] = "webhooks" /\ path[2] = "approval-engine", "", "ApprovalEngine")
        /\ Row(Access!Routes[4], TRUE, "token", "")
        /\ Row(Access!Routes[5], Asks("GET", 2) /\ path[1] = "fulfillment" /\ path[2] = "phone-catalog", "fulfillment:read", "Catalog")
        /\ Row(Access!Routes[6], Asks("POST", 2) /\ path[1] = "settings" /\ path[2] = "phone-brands", "settings:manage", "CreateBrand")
        /\ Row(Access!Routes[7], Asks("PUT", 3) /\ path[1] = "settings" /\ path[2] = "phone-brands", "settings:manage", "UpdateBrand")
        /\ Row(Access!Routes[8], Asks("POST", 2) /\ path[1] = "settings" /\ path[2] = "phone-models", "settings:manage", "CreateModel")
        /\ Row(Access!Routes[9], Asks("PUT", 3) /\ path[1] = "settings" /\ path[2] = "phone-models", "settings:manage", "UpdateModel")
        /\ Row(Access!Routes[10], Asks("GET", 3) /\ path[1] = "fulfillment" /\ path[2] = "imei-lookup", "fulfillment:read", "Lookup")
    BY Table
  <2>2. QED
    BY <2>1 DEF Hit, Row
<1>2. /\ Hit(11) <=> Asks("GET", 2) /\ path[1] = "requests" /\ path[2] = "form-options"
      /\ ~Hit(12)
      /\ Hit(13) <=> Asks("GET", 1) /\ path[1] = "requests"
      /\ Hit(14) <=> Asks("GET", 2) /\ path[1] = "requests"
      /\ Hit(15) <=> Asks("POST", 1) /\ path[1] = "requests"
      /\ ~Hit(16)
      /\ Hit(17) <=> Asks("GET", 1) /\ path[1] = "approvals"
      /\ Hit(18) <=> Asks("GET", 2) /\ path[1] = "approvals"
  <2>1. /\ Row(Access!Routes[11], Asks("GET", 2) /\ path[1] = "requests" /\ path[2] = "form-options", "request:create", "FormOptions")
        /\ Row(Access!Routes[12], Len(path) >= 1 /\ path[1] = "requests", "request:read", "")
        /\ Row(Access!Routes[13], Asks("GET", 1) /\ path[1] = "requests", "", "List")
        /\ Row(Access!Routes[14], Asks("GET", 2) /\ path[1] = "requests", "", "Detail")
        /\ Row(Access!Routes[15], Asks("POST", 1) /\ path[1] = "requests", "request:create", "Create")
        /\ Row(Access!Routes[16], Len(path) >= 1 /\ path[1] = "approvals", "approvals:read", "")
        /\ Row(Access!Routes[17], Asks("GET", 1) /\ path[1] = "approvals", "", "Approvals")
        /\ Row(Access!Routes[18], Asks("GET", 2) /\ path[1] = "approvals", "", "ApprovalDetail")
    BY Table
  <2>2. QED
    BY <2>1 DEF Hit, Row
<1>3. /\ Hit(19) <=> Asks("POST", 3) /\ path[1] = "approvals" /\ path[3] = "action"
      /\ ~Hit(20)
      /\ Hit(21) <=> Asks("GET", 1) /\ path[1] = "fulfillment"
      /\ Hit(22) <=> Asks("GET", 2) /\ path[1] = "fulfillment"
      /\ Hit(23) <=> Asks("POST", 3) /\ path[1] = "fulfillment" /\ path[3] = "data"
      /\ Hit(24) <=> Asks("POST", 3) /\ path[1] = "fulfillment" /\ path[3] = "advance"
      /\ Hit(25) <=> Asks("GET", 2) /\ path[1] = "navigation" /\ path[2] = "badges"
      /\ Hit(26) <=> Asks("GET", 2) /\ path[1] = "dashboard" /\ path[2] = "overview"
  <2>1. /\ Row(Access!Routes[19], Asks("POST", 3) /\ path[1] = "approvals" /\ path[3] = "action", "request:approve", "ApprovalAction")
        /\ Row(Access!Routes[20], Len(path) >= 1 /\ path[1] = "fulfillment", "fulfillment:read", "")
        /\ Row(Access!Routes[21], Asks("GET", 1) /\ path[1] = "fulfillment", "", "Fulfillment")
        /\ Row(Access!Routes[22], Asks("GET", 2) /\ path[1] = "fulfillment", "", "FulfillmentDetail")
        /\ Row(Access!Routes[23], Asks("POST", 3) /\ path[1] = "fulfillment" /\ path[3] = "data", "fulfillment:process", "SaveFulfillmentData")
        /\ Row(Access!Routes[24], Asks("POST", 3) /\ path[1] = "fulfillment" /\ path[3] = "advance", "fulfillment:process", "AdvanceFulfillment")
        /\ Row(Access!Routes[25], Asks("GET", 2) /\ path[1] = "navigation" /\ path[2] = "badges", "", "Badges")
        /\ Row(Access!Routes[26], Asks("GET", 2) /\ path[1] = "dashboard" /\ path[2] = "overview", "dashboard:read", "Overview")
    BY Table
  <2>2. QED
    BY <2>1 DEF Hit, Row
<1>4. /\ Hit(27) <=> Asks("GET", 2) /\ path[1] = "settings" /\ path[2] = "outlets"
      /\ Hit(28) <=> Asks("POST", 2) /\ path[1] = "settings" /\ path[2] = "outlets"
      /\ Hit(29) <=> Asks("PUT", 3) /\ path[1] = "settings" /\ path[2] = "outlets"
      /\ Hit(30) <=> Asks("GET", 2) /\ path[1] = "settings" /\ path[2] = "distributors"
      /\ Hit(31) <=> Asks("POST", 2) /\ path[1] = "settings" /\ path[2] = "distributors"
      /\ Hit(32) <=> Asks("PUT", 3) /\ path[1] = "settings" /\ path[2] = "distributors"
      /\ Hit(33) <=> Asks("GET", 2) /\ path[1] = "settings" /\ path[2] = "types"
      /\ Hit(34) <=> Asks("POST", 2) /\ path[1] = "settings" /\ path[2] = "types"
      /\ Hit(35) <=> Asks("PUT", 3) /\ path[1] = "settings" /\ path[2] = "types"
  <2>1. /\ Row(Access!Routes[27], Asks("GET", 2) /\ path[1] = "settings" /\ path[2] = "outlets", "masterdata:manage", "Outlets")
        /\ Row(Access!Routes[28], Asks("POST", 2) /\ path[1] = "settings" /\ path[2] = "outlets", "masterdata:manage", "CreateOutlet")
        /\ Row(Access!Routes[29], Asks("PUT", 3) /\ path[1] = "settings" /\ path[2] = "outlets", "masterdata:manage", "UpdateOutlet")
        /\ Row(Access!Routes[30], Asks("GET", 2) /\ path[1] = "settings" /\ path[2] = "distributors", "masterdata:manage", "Distributors")
        /\ Row(Access!Routes[31], Asks("POST", 2) /\ path[1] = "settings" /\ path[2] = "distributors", "masterdata:manage", "CreateDistributor")
        /\ Row(Access!Routes[32], Asks("PUT", 3) /\ path[1] = "settings" /\ path[2] = "distributors", "masterdata:manage", "UpdateDistributor")
        /\ Row(Access!Routes[33], Asks("GET", 2) /\ path[1] = "settings" /\ path[2] = "types", "settings:manage", "Types")
        /\ Row(Access!Routes[34], Asks("POST", 2) /\ path[1] = "settings" /\ path[2] = "types", "settings:manage", "CreateType")
        /\ Row(Access!Routes[35], Asks("PUT", 3) /\ path[1] = "settings" /\ path[2] = "types", "settings:manage", "UpdateType")
    BY Table
  <2>2. QED
    BY <2>1 DEF Hit, Row
<1>5. /\ Hit(36) <=> Asks("GET", 1) /\ path[1] = "me"
      /\ Hit(37) <=> Asks("PUT", 2) /\ path[1] = "me" /\ path[2] = "settings"
      /\ Hit(38) <=> Asks("GET", 1) /\ path[1] = "roles"
      /\ Hit(39) <=> Asks("POST", 1) /\ path[1] = "roles"
      /\ Hit(40) <=> Asks("POST", 3) /\ path[1] = "roles" /\ path[3] = "permissions"
      /\ Hit(41) <=> Asks("GET", 1) /\ path[1] = "permissions"
      /\ Hit(42) <=> Asks("GET", 1) /\ path[1] = "users"
      /\ Hit(43) <=> Asks("POST", 1) /\ path[1] = "users"
      /\ Hit(44) <=> Asks("PUT", 2) /\ path[1] = "users"
      /\ Hit(45) <=> Asks("POST", 3) /\ path[1] = "users" /\ path[3] = "master"
      /\ Hit(46) <=> Asks("POST", 3) /\ path[1] = "users" /\ path[3] = "roles"
  <2>1. /\ Row(Access!Routes[36], Asks("GET", 1) /\ path[1] = "me", "", "GetMe")
        /\ Row(Access!Routes[37], Asks("PUT", 2) /\ path[1] = "me" /\ path[2] = "settings", "", "UpdateUserSettings")
        /\ Row(Access!Routes[38], Asks("GET", 1) /\ path[1] = "roles", "role:manage", "GetRoles")
        /\ Row(Access!Routes[39], Asks("POST", 1) /\ path[1] = "roles", "role:manage", "CreateRole")
        /\ Row(Access!Routes[40], Asks("POST", 3) /\ path[1] = "roles" /\ path[3] = "permissions", "role:manage", "AssignRolePermissions")
        /\ Row(Access!Routes[41], Asks("GET", 1) /\ path[1] = "permissions", "role:manage", "GetPermissions")
        /\ Row(Access!Routes[42], Asks("GET", 1) /\ path[1] = "users", "user:read", "GetUsers")
        /\ Row(Access!Routes[43], Asks("POST", 1) /\ path[1] = "users", "user:write", "CreateUser")
        /\ Row(Access!Routes[44], Asks("PUT", 2) /\ path[1] = "users", "user:write", "UpdateUser")
        /\ Row(Access!Routes[45], Asks("POST", 3) /\ path[1] = "users" /\ path[3] = "master", "user:master", "SetMasterUser")
        /\ Row(Access!Routes[46], Asks("POST", 3) /\ path[1] = "users" /\ path[3] = "roles", "role:manage", "AssignUserRoles")
    BY Table
  <2>2. QED
    BY <2>1 DEF Hit, Row
<1>6. QED
  BY <1>1, <1>2, <1>3, <1>4, <1>5

(* A request has one route, save the two fixed paths that a route with an  *)
(* id is for too; and these two stand first.                               *)
LEMMA Pairs ==
  ASSUME NEW i \in 1 .. 46, NEW j \in 1 .. 46, i < j, Hit(i), Hit(j)
  PROVE  (i = 5 /\ j = 22) \/ (i = 11 /\ j = 14)
<1>1. CASE i = 1
  BY <1>1, Hits DEF Asks
<1>2. CASE i = 2
  BY <1>2, Hits DEF Asks
<1>3. CASE i = 3
  BY <1>3, Hits DEF Asks
<1>4. CASE i = 4
  BY <1>4, Hits DEF Asks
<1>5. CASE i = 5
  <2>1. ASSUME j # 22 PROVE FALSE
    BY Hits, <1>5, <2>1 DEF Asks
  <2>2. QED
    BY <1>5, <2>1
<1>6. CASE i = 6
  BY <1>6, Hits DEF Asks
<1>7. CASE i = 7
  BY <1>7, Hits DEF Asks
<1>8. CASE i = 8
  BY <1>8, Hits DEF Asks
<1>9. CASE i = 9
  BY <1>9, Hits DEF Asks
<1>10. CASE i = 10
  BY <1>10, Hits DEF Asks
<1>11. CASE i = 11
  <2>1. ASSUME j # 14 PROVE FALSE
    BY Hits, <1>11, <2>1 DEF Asks
  <2>2. QED
    BY <1>11, <2>1
<1>12. CASE i = 12
  BY <1>12, Hits DEF Asks
<1>13. CASE i = 13
  BY <1>13, Hits DEF Asks
<1>14. CASE i = 14
  BY <1>14, Hits DEF Asks
<1>15. CASE i = 15
  BY <1>15, Hits DEF Asks
<1>16. CASE i = 16
  BY <1>16, Hits DEF Asks
<1>17. CASE i = 17
  BY <1>17, Hits DEF Asks
<1>18. CASE i = 18
  BY <1>18, Hits DEF Asks
<1>19. CASE i = 19
  BY <1>19, Hits DEF Asks
<1>20. CASE i = 20
  BY <1>20, Hits DEF Asks
<1>21. CASE i = 21
  BY <1>21, Hits DEF Asks
<1>22. CASE i = 22
  BY <1>22, Hits DEF Asks
<1>23. CASE i = 23
  BY <1>23, Hits DEF Asks
<1>24. CASE i = 24
  BY <1>24, Hits DEF Asks
<1>25. CASE i = 25
  BY <1>25, Hits DEF Asks
<1>26. CASE i = 26
  BY <1>26, Hits DEF Asks
<1>27. CASE i = 27
  BY <1>27, Hits DEF Asks
<1>28. CASE i = 28
  BY <1>28, Hits DEF Asks
<1>29. CASE i = 29
  BY <1>29, Hits DEF Asks
<1>30. CASE i = 30
  BY <1>30, Hits DEF Asks
<1>31. CASE i = 31
  BY <1>31, Hits DEF Asks
<1>32. CASE i = 32
  BY <1>32, Hits DEF Asks
<1>33. CASE i = 33
  BY <1>33, Hits DEF Asks
<1>34. CASE i = 34
  BY <1>34, Hits DEF Asks
<1>35. CASE i = 35
  BY <1>35, Hits DEF Asks
<1>36. CASE i = 36
  BY <1>36, Hits DEF Asks
<1>37. CASE i = 37
  BY <1>37, Hits DEF Asks
<1>38. CASE i = 38
  BY <1>38, Hits DEF Asks
<1>39. CASE i = 39
  BY <1>39, Hits DEF Asks
<1>40. CASE i = 40
  BY <1>40, Hits DEF Asks
<1>41. CASE i = 41
  BY <1>41, Hits DEF Asks
<1>42. CASE i = 42
  BY <1>42, Hits DEF Asks
<1>43. CASE i = 43
  BY <1>43, Hits DEF Asks
<1>44. CASE i = 44
  BY <1>44, Hits DEF Asks
<1>45. CASE i = 45
  BY <1>45, Hits DEF Asks
<1>46. CASE i = 46
  BY <1>46, Hits DEF Asks
<1>47. QED
  BY <1>1, <1>2, <1>3, <1>4, <1>5, <1>6, <1>7, <1>8, <1>9, <1>10, <1>11, <1>12,
     <1>13, <1>14, <1>15, <1>16, <1>17, <1>18, <1>19, <1>20, <1>21, <1>22,
     <1>23, <1>24, <1>25, <1>26, <1>27, <1>28, <1>29, <1>30, <1>31, <1>32,
     <1>33, <1>34, <1>35, <1>36, <1>37, <1>38, <1>39, <1>40, <1>41, <1>42,
     <1>43, <1>44, <1>45, <1>46

(* A path is a sequence.                                                   *)
IsPath == \E S : path \in Seq(S)

(* The registrations passed let the request by, the one reached gives the  *)
(* outcome.                                                                *)
RouterInv ==
  /\ caller \in Access!Callers /\ IsPath /\ method # "use"
  /\ position \in 1 .. 47
  /\ \A k \in 1 .. position - 1 :
       Access!Matches(Access!Routes[k])
         => Access!Routes[k].method = "use" /\ ~Access!Refused(Access!Routes[k])
  /\ outcome # "" =>
       LET route == Access!Routes[position] IN
       /\ position \in 1 .. 46 /\ Access!Matches(route)
       /\ \/ outcome = "refused" /\ Access!Refused(route)
          \/ /\ outcome = route.handler
             /\ route.method # "use" /\ ~Access!Refused(route)

(* A request on its way in has passed nothing yet, and its path is a       *)
(* sequence.                                                               *)
LEMMA RouterInit ==
  ASSUME Access!Init
  PROVE  RouterInv
<1>1. PICK i \in DOMAIN Access!Routes :
        /\ Access!Routes[i].method # "use"
        /\ method = Access!Routes[i].method
        /\ path \in Access!Concrete(Access!Routes[i].path)
  BY DEF Access!Init
<1> DEFINE pattern == Access!Routes[i].path
           S == Ids \cup Access!ToSet(pattern)
<1>2. IsPattern(pattern)
  BY <1>1, Patterns
<1>3. path \in [DOMAIN pattern -> S]
  BY <1>1 DEF Access!Concrete
<1> HIDE DEF pattern, S
<1>4. path \in Seq(S)
  BY <1>2, <1>3 DEF IsPattern
<1>5. IsPath
  BY <1>4 DEF IsPath
<1>6. caller \in Access!Callers /\ method # "use"
  BY <1>1 DEF Access!Init
<1>7. position = 1
  BY DEF Access!Init
<1>8. position \in 1 .. 47 /\ \A k \in 1 .. position - 1 : FALSE
  BY <1>7
<1>9. outcome = ""
  BY DEF Access!Init
<1>10. QED
  BY <1>5, <1>6, <1>8, <1>9 DEF RouterInv

(* Each registration refuses, serves or lets the request by.               *)
LEMMA RouterStep ==
  ASSUME RouterInv, [Access!Next]_Access!vars
  PROVE  RouterInv'
<1>1. CASE UNCHANGED Access!vars
  BY <1>1 DEF RouterInv, Access!vars, IsPath, Access!Matches, Access!Refused, Access!Passes
<1>2. CASE Access!Next
  <2> DEFINE route == Access!Routes[position]
             M(r) == Access!Matches(r)
             R(r) == Access!Refused(r)
  <2>1. position \in 1 .. 46 /\ caller' = caller /\ method' = method /\ path' = path
    BY <1>2, Places DEF Access!Next, Access!Step
  <2>2. \A r : (M(r)' <=> M(r)) /\ (R(r)' <=> R(r))
    BY <2>1 DEF Access!Matches, Access!Refused, Access!Passes
  <2>3. /\ caller' \in Access!Callers /\ IsPath' /\ method' # "use"
    BY <2>1 DEF RouterInv, IsPath
  <2>4. \/ M(route) /\ R(route) /\ outcome' = "refused" /\ position' = position
        \/ /\ M(route) /\ ~R(route) /\ route.method # "use"
           /\ outcome' = route.handler /\ position' = position
        \/ /\ M(route) => ~R(route) /\ route.method = "use"
           /\ position' = position + 1 /\ outcome' = ""
    BY <1>2, <2>1 DEF Access!Next, Access!Step
  <2> HIDE DEF M, R
  <2>5. \A k \in 1 .. position - 1 : M(Access!Routes[k]) => Access!Routes[k].method = "use" /\ ~R(Access!Routes[k])
    BY DEF RouterInv, M, R
  <2>6. \A k \in 1 .. position' - 1 : M(Access!Routes[k]) => Access!Routes[k].method = "use" /\ ~R(Access!Routes[k])
    <3>1. CASE position' = position
      BY <2>5, <3>1
    <3>2. CASE position' = position + 1
      <4>1. \A k \in 1 .. position' - 1 : k \in 1 .. position - 1 \/ k = position
        BY <2>1, <3>2
      <4>2. position' # position
        BY <2>1, <3>2
      <4>3. M(route) => ~R(route) /\ route.method = "use"
        BY <2>4, <4>2
      <4>4. QED
        BY <2>5, <4>1, <4>3
    <3>3. QED
      BY <2>4, <3>1, <3>2
  <2>7. outcome' # "" =>
         LET r == Access!Routes[position'] IN
         /\ position' \in 1 .. 46 /\ M(r)
         /\ \/ outcome' = "refused" /\ R(r)
            \/ outcome' = r.handler /\ r.method # "use" /\ ~R(r)
    BY <2>1, <2>4
  <2>8. position' \in 1 .. 47
    <3>1. position' = position \/ position' = position + 1
      BY <2>4
    <3>2. QED
      BY <2>1, <3>1
  <2>9. QED
    BY <2>2, <2>3, <2>6, <2>7, <2>8 DEF RouterInv, M, R
<1>3. QED
  BY <1>1, <1>2

(* A route is declared for a request exactly if it is a hit.               *)
LEMMA DeclaredAreHits ==
  ASSUME RouterInv
  PROVE  Access!Declared = {k \in 1 .. 46 : Hit(k)}
BY Places DEF RouterInv, Access!Declared, Hit, Access!Matches

(* Router counts as FiniteSets does.                                       *)
LEMMA RouterCounts ==
  ASSUME NEW S
  PROVE  Access!Cardinality(S) = Cardinality(S)
BY DEF Access!Cardinality, Cardinality

(* The route that serves is the most specific one, though it is the first. *)
LEMMA FirstIsMostSpecific ==
  ASSUME RouterInv, NEW i \in 1 .. 46, Hit(i), \A k \in 1 .. i - 1 : ~Hit(k)
  PROVE  i \in Access!MostSpecific
<1> DEFINE Parameters(k) == {n \in DOMAIN path : Access!IsParameter(Access!Routes[k].path[n])}
<1>1. \A k : IsFiniteSet(Parameters(k)) /\ Cardinality(Parameters(k)) \in Nat
  <2>1. PICK S : path \in Seq(S)
    BY DEF RouterInv, IsPath
  <2>2. Len(path) \in Nat /\ DOMAIN path = 1 .. Len(path)
    BY <2>1
  <2>3. IsFiniteSet(DOMAIN path)
    BY <2>2, FS_Interval
  <2>4. QED
    BY <2>3, FS_Subset, FS_CardinalityType
<1>2. ASSUME NEW j \in 1 .. 46, Hit(j)
      PROVE  Cardinality(Parameters(i)) =< Cardinality(Parameters(j))
  <2>1. CASE i = j
    <3>1. Cardinality(Parameters(i)) = Cardinality(Parameters(j))
      BY <2>1
    <3>2. Cardinality(Parameters(i)) \in Nat /\ Cardinality(Parameters(j)) \in Nat
      BY <1>1
    <3> HIDE DEF Parameters
    <3>3. QED
      BY <3>1, <3>2
  <2>2. CASE i # j
    <3>1. i < j
      BY <1>2, <2>2
    <3>2. i \in {5, 11}
      BY <1>2, <3>1, Pairs
    <3>3. Parameters(i) = {}
      <4>1. Access!Routes[5].path = <<"fulfillment", "phone-catalog">>
        <5>1. Access!Routes[5] = Access!CatalogRoutes[1]
          BY Places, 4 + 1 = 5
        <5>2. QED
          BY <5>1 DEF Access!CatalogRoutes, Access!Route
      <4>2. Access!Routes[11].path = <<"requests", "form-options">>
        <5>1. Access!Routes[11] = Access!FormOptionsRoute[1]
          BY Places, 10 + 1 = 11
        <5>2. QED
          BY <5>1 DEF Access!FormOptionsRoute, Access!Route
      <4>3. DOMAIN path = 1 .. 2
        <5>1. Len(path) = 2
          BY <3>2, Hits DEF Asks
        <5>2. QED
          <6>1. PICK S : path \in Seq(S)
            BY DEF RouterInv, IsPath
          <6>2. QED
            BY <5>1, <6>1
      <4>4. QED
        BY <3>2, <4>1, <4>2, <4>3 DEF Access!IsParameter
    <3>4. Cardinality(Parameters(i)) = 0
      BY <3>3, FS_EmptySet
    <3>5. QED
      BY <3>4, <1>1
  <2>3. QED
    BY <2>1, <2>2
<1>3. i \in Access!Declared /\ \A j \in Access!Declared : j \in 1 .. 46 /\ Hit(j)
  BY DeclaredAreHits
<1>4. \A j \in Access!Declared : Cardinality(Parameters(i)) =< Cardinality(Parameters(j))
  BY <1>2, <1>3
<1>5. QED
  BY <1>3, <1>4, RouterCounts DEF Access!MostSpecific

(* What serves is what is declared.                                        *)
LEMMA ServedByItself ==
  ASSUME RouterInv
  PROVE  Access!ServedAsDeclared
<1> SUFFICES ASSUME outcome \notin {"", "refused"}
             PROVE  \E i \in Access!MostSpecific : outcome = Access!Routes[i].handler
  BY DEF Access!ServedAsDeclared
<1>1. /\ position \in 1 .. 46 /\ outcome = Access!Routes[position].handler
      /\ Hit(position)
  BY DEF RouterInv, Hit
<1>2. \A k \in 1 .. position - 1 : ~Hit(k)
  BY DEF RouterInv, Hit
<1>3. QED
  BY <1>1, <1>2, FirstIsMostSpecific

(* The handler of each route.                                              *)
LEMMA Handlers ==
  /\ Access!Routes[1].handler = "Login"
  /\ Access!Routes[2].handler = ""
  /\ Access!Routes[3].handler = "ApprovalEngine"
  /\ Access!Routes[4].handler = ""
  /\ Access!Routes[5].handler = "Catalog"
  /\ Access!Routes[6].handler = "CreateBrand"
  /\ Access!Routes[7].handler = "UpdateBrand"
  /\ Access!Routes[8].handler = "CreateModel"
  /\ Access!Routes[9].handler = "UpdateModel"
  /\ Access!Routes[10].handler = "Lookup"
  /\ Access!Routes[11].handler = "FormOptions"
  /\ Access!Routes[12].handler = ""
  /\ Access!Routes[13].handler = "List"
  /\ Access!Routes[14].handler = "Detail"
  /\ Access!Routes[15].handler = "Create"
  /\ Access!Routes[16].handler = ""
  /\ Access!Routes[17].handler = "Approvals"
  /\ Access!Routes[18].handler = "ApprovalDetail"
  /\ Access!Routes[19].handler = "ApprovalAction"
  /\ Access!Routes[20].handler = ""
  /\ Access!Routes[21].handler = "Fulfillment"
  /\ Access!Routes[22].handler = "FulfillmentDetail"
  /\ Access!Routes[23].handler = "SaveFulfillmentData"
  /\ Access!Routes[24].handler = "AdvanceFulfillment"
  /\ Access!Routes[25].handler = "Badges"
  /\ Access!Routes[26].handler = "Overview"
  /\ Access!Routes[27].handler = "Outlets"
  /\ Access!Routes[28].handler = "CreateOutlet"
  /\ Access!Routes[29].handler = "UpdateOutlet"
  /\ Access!Routes[30].handler = "Distributors"
  /\ Access!Routes[31].handler = "CreateDistributor"
  /\ Access!Routes[32].handler = "UpdateDistributor"
  /\ Access!Routes[33].handler = "Types"
  /\ Access!Routes[34].handler = "CreateType"
  /\ Access!Routes[35].handler = "UpdateType"
  /\ Access!Routes[36].handler = "GetMe"
  /\ Access!Routes[37].handler = "UpdateUserSettings"
  /\ Access!Routes[38].handler = "GetRoles"
  /\ Access!Routes[39].handler = "CreateRole"
  /\ Access!Routes[40].handler = "AssignRolePermissions"
  /\ Access!Routes[41].handler = "GetPermissions"
  /\ Access!Routes[42].handler = "GetUsers"
  /\ Access!Routes[43].handler = "CreateUser"
  /\ Access!Routes[44].handler = "UpdateUser"
  /\ Access!Routes[45].handler = "SetMasterUser"
  /\ Access!Routes[46].handler = "AssignUserRoles"
BY Table DEF Row

(* A module of the matrix has one route; and no handler is a refusal.      *)
LEMMA ModulePlaces ==
  ASSUME NEW i \in 1 .. 46
  PROVE  /\ Access!Routes[i].handler = "Overview" => i = 26
         /\ Access!Routes[i].handler = "List" => i = 13
         /\ Access!Routes[i].handler = "FormOptions" => i = 11
         /\ Access!Routes[i].handler = "Create" => i = 15
         /\ Access!Routes[i].handler = "Approvals" => i = 17
         /\ Access!Routes[i].handler = "ApprovalAction" => i = 19
         /\ Access!Routes[i].handler = "Fulfillment" => i = 21
         /\ Access!Routes[i].handler = "Outlets" => i = 27
         /\ Access!Routes[i].handler = "Distributors" => i = 30
         /\ Access!Routes[i].handler = "Types" => i = 33
         /\ Access!Routes[i].handler # "refused"
<1>1. CASE i = 1
  <2>1. Access!Routes[i].handler = "Login"
    BY <1>1, Handlers
  <2>2. QED
    BY <1>1, <2>1
<1>2. CASE i = 2
  <2>1. Access!Routes[i].handler = ""
    BY <1>2, Handlers
  <2>2. QED
    BY <1>2, <2>1
<1>3. CASE i = 3
  <2>1. Access!Routes[i].handler = "ApprovalEngine"
    BY <1>3, Handlers
  <2>2. QED
    BY <1>3, <2>1
<1>4. CASE i = 4
  <2>1. Access!Routes[i].handler = ""
    BY <1>4, Handlers
  <2>2. QED
    BY <1>4, <2>1
<1>5. CASE i = 5
  <2>1. Access!Routes[i].handler = "Catalog"
    BY <1>5, Handlers
  <2>2. QED
    BY <1>5, <2>1
<1>6. CASE i = 6
  <2>1. Access!Routes[i].handler = "CreateBrand"
    BY <1>6, Handlers
  <2>2. QED
    BY <1>6, <2>1
<1>7. CASE i = 7
  <2>1. Access!Routes[i].handler = "UpdateBrand"
    BY <1>7, Handlers
  <2>2. QED
    BY <1>7, <2>1
<1>8. CASE i = 8
  <2>1. Access!Routes[i].handler = "CreateModel"
    BY <1>8, Handlers
  <2>2. QED
    BY <1>8, <2>1
<1>9. CASE i = 9
  <2>1. Access!Routes[i].handler = "UpdateModel"
    BY <1>9, Handlers
  <2>2. QED
    BY <1>9, <2>1
<1>10. CASE i = 10
  <2>1. Access!Routes[i].handler = "Lookup"
    BY <1>10, Handlers
  <2>2. QED
    BY <1>10, <2>1
<1>11. CASE i = 11
  <2>1. Access!Routes[i].handler = "FormOptions"
    BY <1>11, Handlers
  <2>2. QED
    BY <1>11, <2>1
<1>12. CASE i = 12
  <2>1. Access!Routes[i].handler = ""
    BY <1>12, Handlers
  <2>2. QED
    BY <1>12, <2>1
<1>13. CASE i = 13
  <2>1. Access!Routes[i].handler = "List"
    BY <1>13, Handlers
  <2>2. QED
    BY <1>13, <2>1
<1>14. CASE i = 14
  <2>1. Access!Routes[i].handler = "Detail"
    BY <1>14, Handlers
  <2>2. QED
    BY <1>14, <2>1
<1>15. CASE i = 15
  <2>1. Access!Routes[i].handler = "Create"
    BY <1>15, Handlers
  <2>2. QED
    BY <1>15, <2>1
<1>16. CASE i = 16
  <2>1. Access!Routes[i].handler = ""
    BY <1>16, Handlers
  <2>2. QED
    BY <1>16, <2>1
<1>17. CASE i = 17
  <2>1. Access!Routes[i].handler = "Approvals"
    BY <1>17, Handlers
  <2>2. QED
    BY <1>17, <2>1
<1>18. CASE i = 18
  <2>1. Access!Routes[i].handler = "ApprovalDetail"
    BY <1>18, Handlers
  <2>2. QED
    BY <1>18, <2>1
<1>19. CASE i = 19
  <2>1. Access!Routes[i].handler = "ApprovalAction"
    BY <1>19, Handlers
  <2>2. QED
    BY <1>19, <2>1
<1>20. CASE i = 20
  <2>1. Access!Routes[i].handler = ""
    BY <1>20, Handlers
  <2>2. QED
    BY <1>20, <2>1
<1>21. CASE i = 21
  <2>1. Access!Routes[i].handler = "Fulfillment"
    BY <1>21, Handlers
  <2>2. QED
    BY <1>21, <2>1
<1>22. CASE i = 22
  <2>1. Access!Routes[i].handler = "FulfillmentDetail"
    BY <1>22, Handlers
  <2>2. QED
    BY <1>22, <2>1
<1>23. CASE i = 23
  <2>1. Access!Routes[i].handler = "SaveFulfillmentData"
    BY <1>23, Handlers
  <2>2. QED
    BY <1>23, <2>1
<1>24. CASE i = 24
  <2>1. Access!Routes[i].handler = "AdvanceFulfillment"
    BY <1>24, Handlers
  <2>2. QED
    BY <1>24, <2>1
<1>25. CASE i = 25
  <2>1. Access!Routes[i].handler = "Badges"
    BY <1>25, Handlers
  <2>2. QED
    BY <1>25, <2>1
<1>26. CASE i = 26
  <2>1. Access!Routes[i].handler = "Overview"
    BY <1>26, Handlers
  <2>2. QED
    BY <1>26, <2>1
<1>27. CASE i = 27
  <2>1. Access!Routes[i].handler = "Outlets"
    BY <1>27, Handlers
  <2>2. QED
    BY <1>27, <2>1
<1>28. CASE i = 28
  <2>1. Access!Routes[i].handler = "CreateOutlet"
    BY <1>28, Handlers
  <2>2. QED
    BY <1>28, <2>1
<1>29. CASE i = 29
  <2>1. Access!Routes[i].handler = "UpdateOutlet"
    BY <1>29, Handlers
  <2>2. QED
    BY <1>29, <2>1
<1>30. CASE i = 30
  <2>1. Access!Routes[i].handler = "Distributors"
    BY <1>30, Handlers
  <2>2. QED
    BY <1>30, <2>1
<1>31. CASE i = 31
  <2>1. Access!Routes[i].handler = "CreateDistributor"
    BY <1>31, Handlers
  <2>2. QED
    BY <1>31, <2>1
<1>32. CASE i = 32
  <2>1. Access!Routes[i].handler = "UpdateDistributor"
    BY <1>32, Handlers
  <2>2. QED
    BY <1>32, <2>1
<1>33. CASE i = 33
  <2>1. Access!Routes[i].handler = "Types"
    BY <1>33, Handlers
  <2>2. QED
    BY <1>33, <2>1
<1>34. CASE i = 34
  <2>1. Access!Routes[i].handler = "CreateType"
    BY <1>34, Handlers
  <2>2. QED
    BY <1>34, <2>1
<1>35. CASE i = 35
  <2>1. Access!Routes[i].handler = "UpdateType"
    BY <1>35, Handlers
  <2>2. QED
    BY <1>35, <2>1
<1>36. CASE i = 36
  <2>1. Access!Routes[i].handler = "GetMe"
    BY <1>36, Handlers
  <2>2. QED
    BY <1>36, <2>1
<1>37. CASE i = 37
  <2>1. Access!Routes[i].handler = "UpdateUserSettings"
    BY <1>37, Handlers
  <2>2. QED
    BY <1>37, <2>1
<1>38. CASE i = 38
  <2>1. Access!Routes[i].handler = "GetRoles"
    BY <1>38, Handlers
  <2>2. QED
    BY <1>38, <2>1
<1>39. CASE i = 39
  <2>1. Access!Routes[i].handler = "CreateRole"
    BY <1>39, Handlers
  <2>2. QED
    BY <1>39, <2>1
<1>40. CASE i = 40
  <2>1. Access!Routes[i].handler = "AssignRolePermissions"
    BY <1>40, Handlers
  <2>2. QED
    BY <1>40, <2>1
<1>41. CASE i = 41
  <2>1. Access!Routes[i].handler = "GetPermissions"
    BY <1>41, Handlers
  <2>2. QED
    BY <1>41, <2>1
<1>42. CASE i = 42
  <2>1. Access!Routes[i].handler = "GetUsers"
    BY <1>42, Handlers
  <2>2. QED
    BY <1>42, <2>1
<1>43. CASE i = 43
  <2>1. Access!Routes[i].handler = "CreateUser"
    BY <1>43, Handlers
  <2>2. QED
    BY <1>43, <2>1
<1>44. CASE i = 44
  <2>1. Access!Routes[i].handler = "UpdateUser"
    BY <1>44, Handlers
  <2>2. QED
    BY <1>44, <2>1
<1>45. CASE i = 45
  <2>1. Access!Routes[i].handler = "SetMasterUser"
    BY <1>45, Handlers
  <2>2. QED
    BY <1>45, <2>1
<1>46. CASE i = 46
  <2>1. Access!Routes[i].handler = "AssignUserRoles"
    BY <1>46, Handlers
  <2>2. QED
    BY <1>46, <2>1
<1>47. QED
  BY <1>1, <1>2, <1>3, <1>4, <1>5, <1>6, <1>7, <1>8, <1>9, <1>10, <1>11, <1>12,
     <1>13, <1>14, <1>15, <1>16, <1>17, <1>18, <1>19, <1>20, <1>21, <1>22, <1>23, <1>24,
     <1>25, <1>26, <1>27, <1>28, <1>29, <1>30, <1>31, <1>32, <1>33, <1>34, <1>35, <1>36,
     <1>37, <1>38, <1>39, <1>40, <1>41, <1>42, <1>43, <1>44, <1>45, <1>46

(* Only middleware lets a request by, and there are five groups of it.     *)
LEMMA Middleware ==
  ASSUME NEW k \in 1 .. 46, Access!Matches(Access!Routes[k]), ~Hit(k)
  PROVE  k \in {2, 4, 12, 16, 20}
<1>1. Access!Routes[k].method = "use"
  BY DEF Hit
<1>2. k \notin {2, 4, 12, 16, 20} => Access!Routes[k].method # "use"
  <2>1. /\ Access!Routes[1].method # "use"
        /\ Access!Routes[3].method # "use"
        /\ Access!Routes[5].method # "use"
        /\ Access!Routes[6].method # "use"
        /\ Access!Routes[7].method # "use"
        /\ Access!Routes[8].method # "use"
        /\ Access!Routes[9].method # "use"
        /\ Access!Routes[10].method # "use"
        /\ Access!Routes[11].method # "use"
        /\ Access!Routes[13].method # "use"
        /\ Access!Routes[14].method # "use"
        /\ Access!Routes[15].method # "use"
        /\ Access!Routes[17].method # "use"
        /\ Access!Routes[18].method # "use"
        /\ Access!Routes[19].method # "use"
        /\ Access!Routes[21].method # "use"
        /\ Access!Routes[22].method # "use"
        /\ Access!Routes[23].method # "use"
        /\ Access!Routes[24].method # "use"
        /\ Access!Routes[25].method # "use"
        /\ Access!Routes[26].method # "use"
        /\ Access!Routes[27].method # "use"
        /\ Access!Routes[28].method # "use"
        /\ Access!Routes[29].method # "use"
        /\ Access!Routes[30].method # "use"
        /\ Access!Routes[31].method # "use"
        /\ Access!Routes[32].method # "use"
        /\ Access!Routes[33].method # "use"
        /\ Access!Routes[34].method # "use"
        /\ Access!Routes[35].method # "use"
        /\ Access!Routes[36].method # "use"
        /\ Access!Routes[37].method # "use"
        /\ Access!Routes[38].method # "use"
        /\ Access!Routes[39].method # "use"
        /\ Access!Routes[40].method # "use"
        /\ Access!Routes[41].method # "use"
        /\ Access!Routes[42].method # "use"
        /\ Access!Routes[43].method # "use"
        /\ Access!Routes[44].method # "use"
        /\ Access!Routes[45].method # "use"
        /\ Access!Routes[46].method # "use"
    BY Table DEF Row
  <2>2. QED
    BY <2>1
<1>3. QED
  BY <1>1, <1>2

(* What the groups are for, and what they ask.                             *)
LEMMA Groups ==
  /\ Access!Matches(Access!Routes[2]) <=> Len(path) >= 1 /\ path[1] = "webhooks"
  /\ Access!Matches(Access!Routes[4])
  /\ Access!Matches(Access!Routes[12]) <=> Len(path) >= 1 /\ path[1] = "requests"
  /\ Access!Matches(Access!Routes[16]) <=> Len(path) >= 1 /\ path[1] = "approvals"
  /\ Access!Matches(Access!Routes[20]) <=> Len(path) >= 1 /\ path[1] = "fulfillment"
  /\ Access!Refused(Access!Routes[2]) <=> ~Access!Passes(caller, "signature")
  /\ Access!Refused(Access!Routes[4]) <=> ~Access!Passes(caller, "token")
  /\ Access!Refused(Access!Routes[12]) <=> ~Access!Passes(caller, "request:read")
  /\ Access!Refused(Access!Routes[16]) <=> ~Access!Passes(caller, "approvals:read")
  /\ Access!Refused(Access!Routes[20]) <=> ~Access!Passes(caller, "fulfillment:read")
<1>1. /\ Row(Access!Routes[2], Len(path) >= 1 /\ path[1] = "webhooks", "signature", "")
      /\ Row(Access!Routes[4], TRUE, "token", "")
      /\ Row(Access!Routes[12], Len(path) >= 1 /\ path[1] = "requests", "request:read", "")
      /\ Row(Access!Routes[16], Len(path) >= 1 /\ path[1] = "approvals", "approvals:read", "")
      /\ Row(Access!Routes[20], Len(path) >= 1 /\ path[1] = "fulfillment", "fulfillment:read", "")
  BY Table
<1>2. QED
  BY <1>1 DEF Row

(* The request has its answer.                                             *)
Answered == outcome # ""
Refusal == outcome = "refused"

(* A registration that refuses it.                                         *)
Stops(k) == Access!Matches(Access!Routes[k]) /\ Access!Refused(Access!Routes[k])

(* The answer to a request for the route i, unless a more specific route   *)
(* may take it: refused exactly if it or middleware before it refuses.     *)
LEMMA Answer ==
  ASSUME RouterInv, Answered, NEW i \in 1 .. 46, Hit(i), i # 14, i # 22
  PROVE  /\ Refusal \/ outcome = Access!Routes[i].handler
         /\ Refusal <=> \E k \in {2, 4, 12, 16, 20} \cup {i} : k =< i /\ Stops(k)
<1> DEFINE Before == {k \in {2, 4, 12, 16, 20} \cup {i} : k =< i}
<1>1. \A k \in 1 .. i - 1 : ~Hit(k)
  <2>1. \A k \in 1 .. i - 1 : k \in 1 .. 46 /\ k < i
    OBVIOUS
  <2>2. QED
    BY <2>1, Pairs
<1>2. position \in 1 .. 46 /\ Access!Matches(Access!Routes[position])
  BY DEF RouterInv, Answered
<1>3. position =< i
  <2>1. SUFFICES ASSUME i < position
                 PROVE  FALSE
    BY <1>2
  <2>2. i \in 1 .. position - 1
    BY <1>2, <2>1
  <2>3. QED
    BY <2>2 DEF RouterInv, Hit
<1>4. position \in Before
  <2>1. CASE Hit(position)
    <3>1. position = i
      BY <1>1, <1>2, <1>3, <2>1
    <3>2. QED
      BY <3>1
  <2>2. CASE ~Hit(position)
    <3>1. position \in {2, 4, 12, 16, 20}
      BY <1>2, <2>2, Middleware
    <3>2. QED
      BY <1>3, <3>1
  <2>3. QED
    BY <2>1, <2>2
<1>5. CASE Refusal
  <2>1. Access!Refused(Access!Routes[position])
    BY <1>2, <1>5, ModulePlaces DEF RouterInv, Refusal
  <2>2. \E k \in Before : Stops(k)
    BY <1>2, <1>4, <2>1 DEF Stops
  <2>3. QED
    BY <1>5, <2>2
<1>6. CASE ~Refusal
  <2>1. Hit(position) /\ ~Access!Refused(Access!Routes[position])
        /\ outcome = Access!Routes[position].handler
    BY <1>2, <1>6 DEF RouterInv, Hit, Answered, Refusal
  <2>2. position = i
    BY <1>1, <1>2, <1>3, <2>1
  <2>3. \A k \in 1 .. i - 1 : ~Stops(k)
    BY <2>2 DEF RouterInv, Stops
  <2>4. \A k \in Before : k = i \/ k \in 1 .. i - 1
    OBVIOUS
  <2>5. ~Stops(i)
    BY <2>1, <2>2 DEF Stops
  <2>6. ~\E k \in Before : Stops(k)
    BY <2>3, <2>4, <2>5
  <2>7. QED
    BY <1>6, <2>1, <2>2, <2>6
<1>7. QED
  BY <1>5, <1>6

(* What a user needs for a permission to be granted.                       *)
Holds(code) == caller.is_master \/ code \in Access!Permissions(caller)

(* The middleware asks a user for permissions alone.                       *)
LEMMA UserPasses ==
  ASSUME caller.kind = "user"
  PROVE  /\ Access!Passes(caller, "token")
         /\ Access!Passes(caller, "dashboard:read") <=> Holds("dashboard:read")
         /\ Access!Passes(caller, "request:read") <=> Holds("request:read")
         /\ Access!Passes(caller, "request:create") <=> Holds("request:create")
         /\ Access!Passes(caller, "approvals:read") <=> Holds("approvals:read")
         /\ Access!Passes(caller, "request:approve") <=> Holds("request:approve")
         /\ Access!Passes(caller, "fulfillment:read") <=> Holds("fulfillment:read")
         /\ Access!Passes(caller, "masterdata:manage") <=> Holds("masterdata:manage")
         /\ Access!Passes(caller, "settings:manage") <=> Holds("settings:manage")
BY DEF Access!Passes, Holds

(* What stops a user before a route.                                       *)
LEMMA GroupStops ==
  ASSUME caller.kind = "user", Len(path) >= 1
  PROVE  /\ Stops(2) => path[1] = "webhooks"
         /\ ~Stops(4)
         /\ Stops(12) <=> path[1] = "requests" /\ ~Holds("request:read")
         /\ Stops(16) <=> path[1] = "approvals" /\ ~Holds("approvals:read")
         /\ Stops(20) <=> path[1] = "fulfillment" /\ ~Holds("fulfillment:read")
<1>1. Stops(2) => path[1] = "webhooks"
  BY Groups DEF Stops
<1>2. ~Stops(4)
  BY Groups, UserPasses DEF Stops
<1>3. Stops(12) <=> path[1] = "requests" /\ ~Holds("request:read")
  BY Groups, UserPasses DEF Stops
<1>4. Stops(16) <=> path[1] = "approvals" /\ ~Holds("approvals:read")
  BY Groups, UserPasses DEF Stops
<1>5. Stops(20) <=> path[1] = "fulfillment" /\ ~Holds("fulfillment:read")
  BY Groups, UserPasses DEF Stops
<1>6. QED
  BY <1>1, <1>2, <1>3, <1>4, <1>5

(* The permissions each module takes, of the group before it and its own.  *)
LEMMA ModuleAnswers ==
  ASSUME RouterInv, Answered, caller.kind = "user"
  PROVE  /\ Hit(26) => (~Refusal <=> Holds("dashboard:read"))
         /\ Hit(13) => (~Refusal <=> Holds("request:read"))
         /\ Hit(11) => (~Refusal <=> Holds("request:create"))
         /\ Hit(15) => (~Refusal <=> Holds("request:read") /\ Holds("request:create"))
         /\ Hit(17) => (~Refusal <=> Holds("approvals:read"))
         /\ Hit(19) => (~Refusal <=> Holds("approvals:read") /\ Holds("request:approve"))
         /\ Hit(21) => (~Refusal <=> Holds("fulfillment:read"))
         /\ Hit(27) => (~Refusal <=> Holds("masterdata:manage"))
         /\ Hit(30) => (~Refusal <=> Holds("masterdata:manage"))
         /\ Hit(33) => (~Refusal <=> Holds("settings:manage"))
<1>1. ASSUME Hit(26)
      PROVE  ~Refusal <=> Holds("dashboard:read")
  <2>1. path[1] = "dashboard" /\ Len(path) >= 1
    <3>1. Hit(26) <=> Asks("GET", 2) /\ path[1] = "dashboard" /\ path[2] = "overview"
      BY Hits
    <3>2. QED
      BY <1>1, <3>1 DEF Asks
  <2>2. ~Stops(4) /\ ~Stops(2) /\ ~Stops(12) /\ ~Stops(16) /\ ~Stops(20)
    BY <2>1, GroupStops
  <2>3. Stops(26) <=> ~Holds("dashboard:read")
    <3>1. Row(Access!Routes[26], Asks("GET", 2) /\ path[1] = "dashboard" /\ path[2] = "overview", "dashboard:read", "Overview")
      BY Table
    <3>2. Access!Matches(Access!Routes[26])
      BY <1>1 DEF Hit
    <3>3. QED
      BY <3>1, <3>2, UserPasses DEF Row, Stops
  <2>4. Refusal <=> \E k \in {2, 4, 12, 16, 20} \cup {26} : k =< 26 /\ Stops(k)
    <3>1. 26 \in 1 .. 46 /\ 26 # 14 /\ 26 # 22
      OBVIOUS
    <3>2. QED
      BY <1>1, <3>1, Answer
  <2>5. QED
    BY <2>2, <2>3, <2>4
<1>2. ASSUME Hit(13)
      PROVE  ~Refusal <=> Holds("request:read")
  <2>1. path[1] = "requests" /\ Len(path) >= 1
    <3>1. Hit(13) <=> Asks("GET", 1) /\ path[1] = "requests"
      BY Hits
    <3>2. QED
      BY <1>2, <3>1 DEF Asks
  <2>2. ~Stops(4) /\ ~Stops(2) /\ (Stops(12) <=> ~Holds("request:read")) /\ ~Stops(16) /\ ~Stops(20)
    BY <2>1, GroupStops
  <2>3. ~Stops(13)
    <3>1. Row(Access!Routes[13], Asks("GET", 1) /\ path[1] = "requests", "", "List")
      BY Table
    <3>2. QED
      BY <3>1 DEF Row, Stops
  <2>4. Refusal <=> \E k \in {2, 4, 12, 16, 20} \cup {13} : k =< 13 /\ Stops(k)
    <3>1. 13 \in 1 .. 46 /\ 13 # 14 /\ 13 # 22
      OBVIOUS
    <3>2. QED
      BY <1>2, <3>1, Answer
  <2>5. QED
    BY <2>2, <2>3, <2>4
<1>3. ASSUME Hit(11)
      PROVE  ~Refusal <=> Holds("request:create")
  <2>1. path[1] = "requests" /\ Len(path) >= 1
    <3>1. Hit(11) <=> Asks("GET", 2) /\ path[1] = "requests" /\ path[2] = "form-options"
      BY Hits
    <3>2. QED
      BY <1>3, <3>1 DEF Asks
  <2>2. ~Stops(4) /\ ~Stops(2) /\ (Stops(12) <=> ~Holds("request:read")) /\ ~Stops(16) /\ ~Stops(20)
    BY <2>1, GroupStops
  <2>3. Stops(11) <=> ~Holds("request:create")
    <3>1. Row(Access!Routes[11], Asks("GET", 2) /\ path[1] = "requests" /\ path[2] = "form-options", "request:create", "FormOptions")
      BY Table
    <3>2. Access!Matches(Access!Routes[11])
      BY <1>3 DEF Hit
    <3>3. QED
      BY <3>1, <3>2, UserPasses DEF Row, Stops
  <2>4. Refusal <=> \E k \in {2, 4, 12, 16, 20} \cup {11} : k =< 11 /\ Stops(k)
    <3>1. 11 \in 1 .. 46 /\ 11 # 14 /\ 11 # 22
      OBVIOUS
    <3>2. QED
      BY <1>3, <3>1, Answer
  <2>5. QED
    BY <2>2, <2>3, <2>4
<1>4. ASSUME Hit(15)
      PROVE  ~Refusal <=> Holds("request:read") /\ Holds("request:create")
  <2>1. path[1] = "requests" /\ Len(path) >= 1
    <3>1. Hit(15) <=> Asks("POST", 1) /\ path[1] = "requests"
      BY Hits
    <3>2. QED
      BY <1>4, <3>1 DEF Asks
  <2>2. ~Stops(4) /\ ~Stops(2) /\ (Stops(12) <=> ~Holds("request:read")) /\ ~Stops(16) /\ ~Stops(20)
    BY <2>1, GroupStops
  <2>3. Stops(15) <=> ~Holds("request:create")
    <3>1. Row(Access!Routes[15], Asks("POST", 1) /\ path[1] = "requests", "request:create", "Create")
      BY Table
    <3>2. Access!Matches(Access!Routes[15])
      BY <1>4 DEF Hit
    <3>3. QED
      BY <3>1, <3>2, UserPasses DEF Row, Stops
  <2>4. Refusal <=> \E k \in {2, 4, 12, 16, 20} \cup {15} : k =< 15 /\ Stops(k)
    <3>1. 15 \in 1 .. 46 /\ 15 # 14 /\ 15 # 22
      OBVIOUS
    <3>2. QED
      BY <1>4, <3>1, Answer
  <2>5. QED
    BY <2>2, <2>3, <2>4
<1>5. ASSUME Hit(17)
      PROVE  ~Refusal <=> Holds("approvals:read")
  <2>1. path[1] = "approvals" /\ Len(path) >= 1
    <3>1. Hit(17) <=> Asks("GET", 1) /\ path[1] = "approvals"
      BY Hits
    <3>2. QED
      BY <1>5, <3>1 DEF Asks
  <2>2. ~Stops(4) /\ ~Stops(2) /\ ~Stops(12) /\ (Stops(16) <=> ~Holds("approvals:read")) /\ ~Stops(20)
    BY <2>1, GroupStops
  <2>3. ~Stops(17)
    <3>1. Row(Access!Routes[17], Asks("GET", 1) /\ path[1] = "approvals", "", "Approvals")
      BY Table
    <3>2. QED
      BY <3>1 DEF Row, Stops
  <2>4. Refusal <=> \E k \in {2, 4, 12, 16, 20} \cup {17} : k =< 17 /\ Stops(k)
    <3>1. 17 \in 1 .. 46 /\ 17 # 14 /\ 17 # 22
      OBVIOUS
    <3>2. QED
      BY <1>5, <3>1, Answer
  <2>5. QED
    BY <2>2, <2>3, <2>4
<1>6. ASSUME Hit(19)
      PROVE  ~Refusal <=> Holds("approvals:read") /\ Holds("request:approve")
  <2>1. path[1] = "approvals" /\ Len(path) >= 1
    <3>1. Hit(19) <=> Asks("POST", 3) /\ path[1] = "approvals" /\ path[3] = "action"
      BY Hits
    <3>2. QED
      BY <1>6, <3>1 DEF Asks
  <2>2. ~Stops(4) /\ ~Stops(2) /\ ~Stops(12) /\ (Stops(16) <=> ~Holds("approvals:read")) /\ ~Stops(20)
    BY <2>1, GroupStops
  <2>3. Stops(19) <=> ~Holds("request:approve")
    <3>1. Row(Access!Routes[19], Asks("POST", 3) /\ path[1] = "approvals" /\ path[3] = "action", "request:approve", "ApprovalAction")
      BY Table
    <3>2. Access!Matches(Access!Routes[19])
      BY <1>6 DEF Hit
    <3>3. QED
      BY <3>1, <3>2, UserPasses DEF Row, Stops
  <2>4. Refusal <=> \E k \in {2, 4, 12, 16, 20} \cup {19} : k =< 19 /\ Stops(k)
    <3>1. 19 \in 1 .. 46 /\ 19 # 14 /\ 19 # 22
      OBVIOUS
    <3>2. QED
      BY <1>6, <3>1, Answer
  <2>5. QED
    BY <2>2, <2>3, <2>4
<1>7. ASSUME Hit(21)
      PROVE  ~Refusal <=> Holds("fulfillment:read")
  <2>1. path[1] = "fulfillment" /\ Len(path) >= 1
    <3>1. Hit(21) <=> Asks("GET", 1) /\ path[1] = "fulfillment"
      BY Hits
    <3>2. QED
      BY <1>7, <3>1 DEF Asks
  <2>2. ~Stops(4) /\ ~Stops(2) /\ ~Stops(12) /\ ~Stops(16) /\ (Stops(20) <=> ~Holds("fulfillment:read"))
    BY <2>1, GroupStops
  <2>3. ~Stops(21)
    <3>1. Row(Access!Routes[21], Asks("GET", 1) /\ path[1] = "fulfillment", "", "Fulfillment")
      BY Table
    <3>2. QED
      BY <3>1 DEF Row, Stops
  <2>4. Refusal <=> \E k \in {2, 4, 12, 16, 20} \cup {21} : k =< 21 /\ Stops(k)
    <3>1. 21 \in 1 .. 46 /\ 21 # 14 /\ 21 # 22
      OBVIOUS
    <3>2. QED
      BY <1>7, <3>1, Answer
  <2>5. QED
    BY <2>2, <2>3, <2>4
<1>8. ASSUME Hit(27)
      PROVE  ~Refusal <=> Holds("masterdata:manage")
  <2>1. path[1] = "settings" /\ Len(path) >= 1
    <3>1. Hit(27) <=> Asks("GET", 2) /\ path[1] = "settings" /\ path[2] = "outlets"
      BY Hits
    <3>2. QED
      BY <1>8, <3>1 DEF Asks
  <2>2. ~Stops(4) /\ ~Stops(2) /\ ~Stops(12) /\ ~Stops(16) /\ ~Stops(20)
    BY <2>1, GroupStops
  <2>3. Stops(27) <=> ~Holds("masterdata:manage")
    <3>1. Row(Access!Routes[27], Asks("GET", 2) /\ path[1] = "settings" /\ path[2] = "outlets", "masterdata:manage", "Outlets")
      BY Table
    <3>2. Access!Matches(Access!Routes[27])
      BY <1>8 DEF Hit
    <3>3. QED
      BY <3>1, <3>2, UserPasses DEF Row, Stops
  <2>4. Refusal <=> \E k \in {2, 4, 12, 16, 20} \cup {27} : k =< 27 /\ Stops(k)
    <3>1. 27 \in 1 .. 46 /\ 27 # 14 /\ 27 # 22
      OBVIOUS
    <3>2. QED
      BY <1>8, <3>1, Answer
  <2>5. QED
    BY <2>2, <2>3, <2>4
<1>9. ASSUME Hit(30)
      PROVE  ~Refusal <=> Holds("masterdata:manage")
  <2>1. path[1] = "settings" /\ Len(path) >= 1
    <3>1. Hit(30) <=> Asks("GET", 2) /\ path[1] = "settings" /\ path[2] = "distributors"
      BY Hits
    <3>2. QED
      BY <1>9, <3>1 DEF Asks
  <2>2. ~Stops(4) /\ ~Stops(2) /\ ~Stops(12) /\ ~Stops(16) /\ ~Stops(20)
    BY <2>1, GroupStops
  <2>3. Stops(30) <=> ~Holds("masterdata:manage")
    <3>1. Row(Access!Routes[30], Asks("GET", 2) /\ path[1] = "settings" /\ path[2] = "distributors", "masterdata:manage", "Distributors")
      BY Table
    <3>2. Access!Matches(Access!Routes[30])
      BY <1>9 DEF Hit
    <3>3. QED
      BY <3>1, <3>2, UserPasses DEF Row, Stops
  <2>4. Refusal <=> \E k \in {2, 4, 12, 16, 20} \cup {30} : k =< 30 /\ Stops(k)
    <3>1. 30 \in 1 .. 46 /\ 30 # 14 /\ 30 # 22
      OBVIOUS
    <3>2. QED
      BY <1>9, <3>1, Answer
  <2>5. QED
    BY <2>2, <2>3, <2>4
<1>10. ASSUME Hit(33)
      PROVE  ~Refusal <=> Holds("settings:manage")
  <2>1. path[1] = "settings" /\ Len(path) >= 1
    <3>1. Hit(33) <=> Asks("GET", 2) /\ path[1] = "settings" /\ path[2] = "types"
      BY Hits
    <3>2. QED
      BY <1>10, <3>1 DEF Asks
  <2>2. ~Stops(4) /\ ~Stops(2) /\ ~Stops(12) /\ ~Stops(16) /\ ~Stops(20)
    BY <2>1, GroupStops
  <2>3. Stops(33) <=> ~Holds("settings:manage")
    <3>1. Row(Access!Routes[33], Asks("GET", 2) /\ path[1] = "settings" /\ path[2] = "types", "settings:manage", "Types")
      BY Table
    <3>2. Access!Matches(Access!Routes[33])
      BY <1>10 DEF Hit
    <3>3. QED
      BY <3>1, <3>2, UserPasses DEF Row, Stops
  <2>4. Refusal <=> \E k \in {2, 4, 12, 16, 20} \cup {33} : k =< 33 /\ Stops(k)
    <3>1. 33 \in 1 .. 46 /\ 33 # 14 /\ 33 # 22
      OBVIOUS
    <3>2. QED
      BY <1>10, <3>1, Answer
  <2>5. QED
    BY <2>2, <2>3, <2>4
<1>11. QED
  BY <1>1, <1>2, <1>3, <1>4, <1>5, <1>6, <1>7, <1>8, <1>9, <1>10

(* What the seeded roles of the matrix are granted.                        *)
LEMMA Grants ==
  ASSUME NEW role \in Access!InMatrix
  PROVE  /\ "dashboard:read" \in Access!SeedPermissions[role] <=>
              role \in {"MASTER_ADMIN", "ASSET_MANAGER"}
         /\ "request:read" \in Access!SeedPermissions[role] <=>
              role \in {"MASTER_ADMIN", "ASSET_MANAGER", "SA"}
         /\ "request:create" \in Access!SeedPermissions[role] <=>
              role \in {"MASTER_ADMIN", "ASSET_MANAGER", "SA"}
         /\ "approvals:read" \in Access!SeedPermissions[role] <=>
              role \in {"MASTER_ADMIN", "SS", "RSM", "GRSM", "NSM", "SD"}
         /\ "request:approve" \in Access!SeedPermissions[role] <=>
              role \in {"MASTER_ADMIN", "ASSET_MANAGER", "SS", "RSM", "GRSM", "NSM", "SD"}
         /\ "fulfillment:read" \in Access!SeedPermissions[role] <=>
              role \in {"MASTER_ADMIN", "ASSET_MANAGER"}
         /\ "masterdata:manage" \in Access!SeedPermissions[role] <=>
              role \in {"MASTER_ADMIN", "ASSET_MANAGER"}
         /\ "settings:manage" \in Access!SeedPermissions[role] <=>
              role \in {"MASTER_ADMIN"}
<1>1. CASE role = "MASTER_ADMIN"
  BY <1>1 DEF Access!SeedPermissions
<1>2. CASE role = "ASSET_MANAGER"
  BY <1>2 DEF Access!SeedPermissions
<1>3. CASE role = "SA"
  BY <1>3 DEF Access!SeedPermissions
<1>4. CASE role = "SS"
  BY <1>4 DEF Access!SeedPermissions
<1>5. CASE role = "RSM"
  BY <1>5 DEF Access!SeedPermissions
<1>6. CASE role = "GRSM"
  BY <1>6 DEF Access!SeedPermissions
<1>7. CASE role = "NSM"
  BY <1>7 DEF Access!SeedPermissions
<1>8. CASE role = "SD"
  BY <1>8 DEF Access!SeedPermissions
<1>9. CASE role = "Cabang"
  BY <1>9 DEF Access!SeedPermissions
<1>10. QED
  BY <1>1, <1>2, <1>3, <1>4, <1>5, <1>6, <1>7, <1>8, <1>9 DEF Access!InMatrix

(* The matrix, module by module.                                           *)
LEMMA MatrixRows ==
  /\ DOMAIN Access!Matrix = {"Overview", "List", "FormOptions", "Create", "Approvals", "ApprovalAction",
                             "Fulfillment", "Outlets", "Distributors", "Types"}
  /\ Access!Matrix["Overview"] = {"MASTER_ADMIN", "ASSET_MANAGER"}
  /\ Access!Matrix["List"] = {"MASTER_ADMIN", "ASSET_MANAGER", "SA"}
  /\ Access!Matrix["FormOptions"] = {"MASTER_ADMIN", "ASSET_MANAGER", "SA"}
  /\ Access!Matrix["Create"] = {"MASTER_ADMIN", "ASSET_MANAGER", "SA"}
  /\ Access!Matrix["Approvals"] = {"MASTER_ADMIN", "SS", "RSM", "GRSM", "NSM", "SD"}
  /\ Access!Matrix["ApprovalAction"] = {"MASTER_ADMIN", "SS", "RSM", "GRSM", "NSM", "SD"}
  /\ Access!Matrix["Fulfillment"] = {"MASTER_ADMIN", "ASSET_MANAGER"}
  /\ Access!Matrix["Outlets"] = {"MASTER_ADMIN", "ASSET_MANAGER"}
  /\ Access!Matrix["Distributors"] = {"MASTER_ADMIN", "ASSET_MANAGER"}
  /\ Access!Matrix["Types"] = {"MASTER_ADMIN"}
BY DEF Access!Matrix

(* A user of a role of the matrix opens the modules of the matrix.         *)
LEMMA OpensAsInMatrix ==
  ASSUME RouterInv, Answered, caller.kind = "user", caller.role \in Access!InMatrix, ~caller.is_master
  PROVE  /\ Hit(26) => (~Refusal <=> caller.role \in Access!Matrix["Overview"])
         /\ Hit(13) => (~Refusal <=> caller.role \in Access!Matrix["List"])
         /\ Hit(11) => (~Refusal <=> caller.role \in Access!Matrix["FormOptions"])
         /\ Hit(15) => (~Refusal <=> caller.role \in Access!Matrix["Create"])
         /\ Hit(17) => (~Refusal <=> caller.role \in Access!Matrix["Approvals"])
         /\ Hit(19) => (~Refusal <=> caller.role \in Access!Matrix["ApprovalAction"])
         /\ Hit(21) => (~Refusal <=> caller.role \in Access!Matrix["Fulfillment"])
         /\ Hit(27) => (~Refusal <=> caller.role \in Access!Matrix["Outlets"])
         /\ Hit(30) => (~Refusal <=> caller.role \in Access!Matrix["Distributors"])
         /\ Hit(33) => (~Refusal <=> caller.role \in Access!Matrix["Types"])
<1>1. \A code : Holds(code) <=> code \in Access!SeedPermissions[caller.role]
  BY DEF Holds, Access!Permissions
<1>2. Hit(26) => (~Refusal <=> caller.role \in Access!Matrix["Overview"])
  <2>1. Hit(26) => (~Refusal <=> Holds("dashboard:read"))
    BY ModuleAnswers
  <2>2. Holds("dashboard:read") <=> caller.role \in {"MASTER_ADMIN", "ASSET_MANAGER"}
    BY <1>1, Grants
  <2>3. Access!Matrix["Overview"] = {"MASTER_ADMIN", "ASSET_MANAGER"}
    BY MatrixRows
  <2>4. QED
    BY <2>1, <2>2, <2>3
<1>3. Hit(13) => (~Refusal <=> caller.role \in Access!Matrix["List"])
  <2>1. Hit(13) => (~Refusal <=> Holds("request:read"))
    BY ModuleAnswers
  <2>2. Holds("request:read") <=> caller.role \in {"MASTER_ADMIN", "ASSET_MANAGER", "SA"}
    BY <1>1, Grants
  <2>3. Access!Matrix["List"] = {"MASTER_ADMIN", "ASSET_MANAGER", "SA"}
    BY MatrixRows
  <2>4. QED
    BY <2>1, <2>2, <2>3
<1>4. Hit(11) => (~Refusal <=> caller.role \in Access!Matrix["FormOptions"])
  <2>1. Hit(11) => (~Refusal <=> Holds("request:create"))
    BY ModuleAnswers
  <2>2. Holds("request:create") <=> caller.role \in {"MASTER_ADMIN", "ASSET_MANAGER", "SA"}
    BY <1>1, Grants
  <2>3. Access!Matrix["FormOptions"] = {"MASTER_ADMIN", "ASSET_MANAGER", "SA"}
    BY MatrixRows
  <2>4. QED
    BY <2>1, <2>2, <2>3
<1>5. Hit(15) => (~Refusal <=> caller.role \in Access!Matrix["Create"])
  <2>1. Hit(15) => (~Refusal <=> Holds("request:read") /\ Holds("request:create"))
    BY ModuleAnswers
  <2>2. Holds("request:read") <=> caller.role \in {"MASTER_ADMIN", "ASSET_MANAGER", "SA"}
    BY <1>1, Grants
  <2>3. Holds("request:create") <=> caller.role \in {"MASTER_ADMIN", "ASSET_MANAGER", "SA"}
    BY <1>1, Grants
  <2>4. Access!Matrix["Create"] = {"MASTER_ADMIN", "ASSET_MANAGER", "SA"}
    BY MatrixRows
  <2>5. QED
    BY <2>1, <2>2, <2>3, <2>4
<1>6. Hit(17) => (~Refusal <=> caller.role \in Access!Matrix["Approvals"])
  <2>1. Hit(17) => (~Refusal <=> Holds("approvals:read"))
    BY ModuleAnswers
  <2>2. Holds("approvals:read") <=> caller.role \in {"MASTER_ADMIN", "SS", "RSM", "GRSM", "NSM", "SD"}
    BY <1>1, Grants
  <2>3. Access!Matrix["Approvals"] = {"MASTER_ADMIN", "SS", "RSM", "GRSM", "NSM", "SD"}
    BY MatrixRows
  <2>4. QED
    BY <2>1, <2>2, <2>3
<1>7. Hit(19) => (~Refusal <=> caller.role \in Access!Matrix["ApprovalAction"])
  <2>1. Hit(19) => (~Refusal <=> Holds("approvals:read") /\ Holds("request:approve"))
    BY ModuleAnswers
  <2>2. Holds("approvals:read") <=> caller.role \in {"MASTER_ADMIN", "SS", "RSM", "GRSM", "NSM", "SD"}
    BY <1>1, Grants
  <2>3. Holds("request:approve") <=> caller.role \in {"MASTER_ADMIN", "ASSET_MANAGER", "SS", "RSM", "GRSM", "NSM", "SD"}
    BY <1>1, Grants
  <2>4. Access!Matrix["ApprovalAction"] = {"MASTER_ADMIN", "SS", "RSM", "GRSM", "NSM", "SD"}
    BY MatrixRows
  <2>5. QED
    BY <2>1, <2>2, <2>3, <2>4
<1>8. Hit(21) => (~Refusal <=> caller.role \in Access!Matrix["Fulfillment"])
  <2>1. Hit(21) => (~Refusal <=> Holds("fulfillment:read"))
    BY ModuleAnswers
  <2>2. Holds("fulfillment:read") <=> caller.role \in {"MASTER_ADMIN", "ASSET_MANAGER"}
    BY <1>1, Grants
  <2>3. Access!Matrix["Fulfillment"] = {"MASTER_ADMIN", "ASSET_MANAGER"}
    BY MatrixRows
  <2>4. QED
    BY <2>1, <2>2, <2>3
<1>9. Hit(27) => (~Refusal <=> caller.role \in Access!Matrix["Outlets"])
  <2>1. Hit(27) => (~Refusal <=> Holds("masterdata:manage"))
    BY ModuleAnswers
  <2>2. Holds("masterdata:manage") <=> caller.role \in {"MASTER_ADMIN", "ASSET_MANAGER"}
    BY <1>1, Grants
  <2>3. Access!Matrix["Outlets"] = {"MASTER_ADMIN", "ASSET_MANAGER"}
    BY MatrixRows
  <2>4. QED
    BY <2>1, <2>2, <2>3
<1>10. Hit(30) => (~Refusal <=> caller.role \in Access!Matrix["Distributors"])
  <2>1. Hit(30) => (~Refusal <=> Holds("masterdata:manage"))
    BY ModuleAnswers
  <2>2. Holds("masterdata:manage") <=> caller.role \in {"MASTER_ADMIN", "ASSET_MANAGER"}
    BY <1>1, Grants
  <2>3. Access!Matrix["Distributors"] = {"MASTER_ADMIN", "ASSET_MANAGER"}
    BY MatrixRows
  <2>4. QED
    BY <2>1, <2>2, <2>3
<1>11. Hit(33) => (~Refusal <=> caller.role \in Access!Matrix["Types"])
  <2>1. Hit(33) => (~Refusal <=> Holds("settings:manage"))
    BY ModuleAnswers
  <2>2. Holds("settings:manage") <=> caller.role \in {"MASTER_ADMIN"}
    BY <1>1, Grants
  <2>3. Access!Matrix["Types"] = {"MASTER_ADMIN"}
    BY MatrixRows
  <2>4. QED
    BY <2>1, <2>2, <2>3
<1>12. QED
  BY <1>2, <1>3, <1>4, <1>5, <1>6, <1>7, <1>8, <1>9, <1>10, <1>11

(* Those who are no users get what is public.                              *)
LEMMA OthersStayOut ==
  ASSUME RouterInv, Answered, caller.kind # "user"
  PROVE  outcome \in {"refused", "Login"}
           \cup IF caller.kind = "engine" THEN {"ApprovalEngine"} ELSE {}
<1>1. Stops(4)
  <2>1. ~Access!Passes(caller, "token")
    BY DEF Access!Passes
  <2>2. QED
    BY <2>1, Groups DEF Stops
<1>2. position \in 1 .. 4
  <2>1. position \in 1 .. 46
    BY DEF RouterInv, Answered
  <2>2. ~(4 < position)
    <3>1. ASSUME 4 < position
          PROVE  4 \in 1 .. position - 1
      BY <2>1, <3>1
    <3>2. QED
      BY <1>1, <3>1 DEF RouterInv, Stops
  <2>3. QED
    BY <2>1, <2>2
<1>3. CASE Refusal
  BY <1>3 DEF Refusal
<1>4. CASE ~Refusal
  <2>1. Hit(position) /\ outcome = Access!Routes[position].handler
        /\ ~Access!Refused(Access!Routes[position])
    BY <1>4 DEF RouterInv, Answered, Refusal, Hit
  <2>2. position = 1 \/ position = 3
    <3>1. ~Hit(2) /\ ~Hit(4)
      BY Hits
    <3>2. QED
      BY <1>2, <2>1, <3>1
  <2>3. CASE position = 1
    <3>1. outcome = "Login"
      BY <2>1, <2>3, Handlers
    <3>2. QED
      BY <3>1
  <2>4. CASE position = 3
    <3>1. outcome = "ApprovalEngine"
      BY <2>1, <2>4, Handlers
    <3>2. Len(path) >= 1 /\ path[1] = "webhooks"
      <4>1. Hit(3) <=> Asks("POST", 2) /\ path[1] = "webhooks" /\ path[2] = "approval-engine"
        BY Hits
      <4>2. QED
        BY <2>1, <2>4, <4>1 DEF Asks
    <3>3. Access!Matches(Access!Routes[2])
      BY <3>2, Groups
    <3>4. ~Access!Refused(Access!Routes[2])
      <4>1. 2 \in 1 .. position - 1
        BY <2>4
      <4>2. QED
        BY <3>3, <4>1 DEF RouterInv
    <3>5. caller.kind = "engine"
      BY <3>4, Groups DEF Access!Passes
    <3>6. QED
      BY <3>1, <3>5
  <2>5. QED
    BY <2>2, <2>3, <2>4
<1>5. QED
  BY <1>3, <1>4

(* The matrix is followed.                                                 *)
LEMMA FollowedByItself ==
  ASSUME RouterInv
  PROVE  Access!MatrixIsFollowed
<1> DEFINE handler(i) == Access!Routes[i].handler
<1>1. \A i \in Access!MostSpecific : i \in 1 .. 46 /\ Hit(i)
  BY DeclaredAreHits DEF Access!MostSpecific
<1>2. ASSUME Answered, caller.kind = "user", caller.role \in Access!InMatrix, ~caller.is_master,
             NEW i \in Access!MostSpecific, handler(i) \in DOMAIN Access!Matrix
      PROVE  ~Refusal <=> caller.role \in Access!Matrix[handler(i)]
  <2>1. CASE handler(i) = "Overview"
    <3>1. Hit(26)
      BY <1>1, <2>1, ModulePlaces
    <3>2. ~Refusal <=> caller.role \in Access!Matrix["Overview"]
      BY <1>2, <3>1, OpensAsInMatrix
    <3>3. QED
      BY <2>1, <3>2
  <2>2. CASE handler(i) = "List"
    <3>1. Hit(13)
      BY <1>1, <2>2, ModulePlaces
    <3>2. ~Refusal <=> caller.role \in Access!Matrix["List"]
      BY <1>2, <3>1, OpensAsInMatrix
    <3>3. QED
      BY <2>2, <3>2
  <2>3. CASE handler(i) = "FormOptions"
    <3>1. Hit(11)
      BY <1>1, <2>3, ModulePlaces
    <3>2. ~Refusal <=> caller.role \in Access!Matrix["FormOptions"]
      BY <1>2, <3>1, OpensAsInMatrix
    <3>3. QED
      BY <2>3, <3>2
  <2>4. CASE handler(i) = "Create"
    <3>1. Hit(15)
      BY <1>1, <2>4, ModulePlaces
    <3>2. ~Refusal <=> caller.role \in Access!Matrix["Create"]
      BY <1>2, <3>1, OpensAsInMatrix
    <3>3. QED
      BY <2>4, <3>2
  <2>5. CASE handler(i) = "Approvals"
    <3>1. Hit(17)
      BY <1>1, <2>5, ModulePlaces
    <3>2. ~Refusal <=> caller.role \in Access!Matrix["Approvals"]
      BY <1>2, <3>1, OpensAsInMatrix
    <3>3. QED
      BY <2>5, <3>2
  <2>6. CASE handler(i) = "ApprovalAction"
    <3>1. Hit(19)
      BY <1>1, <2>6, ModulePlaces
    <3>2. ~Refusal <=> caller.role \in Access!Matrix["ApprovalAction"]
      BY <1>2, <3>1, OpensAsInMatrix
    <3>3. QED
      BY <2>6, <3>2
  <2>7. CASE handler(i) = "Fulfillment"
    <3>1. Hit(21)
      BY <1>1, <2>7, ModulePlaces
    <3>2. ~Refusal <=> caller.role \in Access!Matrix["Fulfillment"]
      BY <1>2, <3>1, OpensAsInMatrix
    <3>3. QED
      BY <2>7, <3>2
  <2>8. CASE handler(i) = "Outlets"
    <3>1. Hit(27)
      BY <1>1, <2>8, ModulePlaces
    <3>2. ~Refusal <=> caller.role \in Access!Matrix["Outlets"]
      BY <1>2, <3>1, OpensAsInMatrix
    <3>3. QED
      BY <2>8, <3>2
  <2>9. CASE handler(i) = "Distributors"
    <3>1. Hit(30)
      BY <1>1, <2>9, ModulePlaces
    <3>2. ~Refusal <=> caller.role \in Access!Matrix["Distributors"]
      BY <1>2, <3>1, OpensAsInMatrix
    <3>3. QED
      BY <2>9, <3>2
  <2>10. CASE handler(i) = "Types"
    <3>1. Hit(33)
      BY <1>1, <2>10, ModulePlaces
    <3>2. ~Refusal <=> caller.role \in Access!Matrix["Types"]
      BY <1>2, <3>1, OpensAsInMatrix
    <3>3. QED
      BY <2>10, <3>2
  <2>11. QED
    BY <1>2, <2>1, <2>2, <2>3, <2>4, <2>5, <2>6, <2>7, <2>8, <2>9, <2>10, MatrixRows
<1>3. ASSUME Answered, caller.kind = "user", Access!Asked = {"Approvals"}
      PROVE  outcome = "Approvals" <=> "approvals" \in Access!Badges(caller)
  <2>1. PICK i \in Access!MostSpecific : handler(i) = "Approvals"
    BY <1>3 DEF Access!Asked
  <2>2. i = 17 /\ Hit(17)
    BY <1>1, <2>1, ModulePlaces
  <2>3. ~Refusal <=> Holds("approvals:read")
    BY <1>3, <2>2, ModuleAnswers
  <2>4. Refusal \/ outcome = "Approvals"
    <3>1. 17 \in 1 .. 46 /\ 17 # 14 /\ 17 # 22
      OBVIOUS
    <3>2. Refusal \/ outcome = handler(17)
      BY <1>3, <2>2, <3>1, Answer
    <3>3. QED
      BY <2>1, <2>2, <3>2
  <2>5. ~Refusal <=> outcome = "Approvals"
    BY <2>4 DEF Refusal
  <2>6. "approvals" \in Access!Badges(caller) <=> Holds("approvals:read")
    BY DEF Access!Badges, Access!hasPermission, Holds
  <2>7. QED
    BY <2>3, <2>5, <2>6
<1>4. ASSUME Answered, caller.kind = "user", Access!Asked = {"Fulfillment"}
      PROVE  outcome = "Fulfillment" <=> "fulfillment" \in Access!Badges(caller)
  <2>1. PICK i \in Access!MostSpecific : handler(i) = "Fulfillment"
    BY <1>4 DEF Access!Asked
  <2>2. i = 21 /\ Hit(21)
    BY <1>1, <2>1, ModulePlaces
  <2>3. ~Refusal <=> Holds("fulfillment:read")
    BY <1>4, <2>2, ModuleAnswers
  <2>4. Refusal \/ outcome = "Fulfillment"
    <3>1. 21 \in 1 .. 46 /\ 21 # 14 /\ 21 # 22
      OBVIOUS
    <3>2. Refusal \/ outcome = handler(21)
      BY <1>4, <2>2, <3>1, Answer
    <3>3. QED
      BY <2>1, <2>2, <3>2
  <2>5. ~Refusal <=> outcome = "Fulfillment"
    BY <2>4 DEF Refusal
  <2>6. "fulfillment" \in Access!Badges(caller) <=> Holds("fulfillment:read")
    BY DEF Access!Badges, Access!hasPermission, Holds
  <2>7. QED
    BY <2>3, <2>5, <2>6
<1>5. ASSUME Answered, caller.kind = "user", caller.role \in Access!InMatrix, ~caller.is_master,
             NEW module \in Access!Asked \cap DOMAIN Access!Matrix
      PROVE  outcome # "refused" <=> caller.role \in Access!Matrix[module]
  <2>1. PICK i \in Access!MostSpecific : module = handler(i)
    BY <1>5 DEF Access!Asked
  <2>2. ~Refusal <=> caller.role \in Access!Matrix[handler(i)]
    BY <1>2, <1>5, <2>1
  <2>3. QED
    BY <2>1, <2>2 DEF Refusal
<1> HIDE DEF handler
<1>6. QED
  BY <1>3, <1>4, <1>5, OthersStayOut DEF Access!MatrixIsFollowed, Answered

(* The two properties of the router, for any values of an id.              *)
LEMMA RouterRuns == Access!Spec => [](Access!ServedAsDeclared /\ Access!MatrixIsFollowed)
<1>1. Access!Init => RouterInv
  BY RouterInit
<1>2. RouterInv /\ [Access!Next]_(Access!vars) => RouterInv'
  BY RouterStep
<1>3. RouterInv => Access!ServedAsDeclared /\ Access!MatrixIsFollowed
  BY ServedByItself, FollowedByItself
<1>4. QED
  BY <1>1, <1>2, <1>3, PTL DEF Access!Spec

---------------------------------------------------------------------------
(* The parts together.                                                     *)

(* What a step may change.                                                 *)
everything == <<component, desk, phones, imeis, routes, sessions, dashboard>>

(* A behaviour of the service is a behaviour of the phone catalogue        *)
(* throughout, or never.                                                   *)
LEMMA PhonesApart ==
  Spec => [](component # "phones") \/ Phone!Spec
<1> DEFINE Here == component = "phones"
<1>1. Init /\ Here => Phone!Init
  BY DEF Init
<1>2. Here /\ [Next]_everything => Here' /\ [Phone!Next]_(Phone!vars)
  BY DEF Next, everything, phones, Phone!vars, Phone!tables
<1>3. ~Here /\ [Next]_everything => ~Here'
  BY DEF Next, everything
<1>4. Spec => Init /\ [][Next]_everything
  BY DEF Spec, everything
<1>5. ~Here => component # "phones"
  OBVIOUS
<1> HIDE DEF Here
<1>6. QED
  BY <1>1, <1>2, <1>3, <1>4, <1>5, PTL DEF Phone!Spec

(* For any number of brands and models and any number of calls at once,    *)
(* the catalogue the form is given is whole: loadBrands with its filters   *)
(* in the join, over tables whose unique indexes and checkModelInput the   *)
(* writes of other calls go through.                                       *)
THEOREM CatalogIsWholeAlways == Spec => []CatalogIsWhole
<1>1. Phone!Spec => []Phone!CatalogIsWhole
  BY BackOfficeAssumption, CatalogIsWholeByItself
<1>2. Phone!CatalogIsWhole \/ component # "phones" => CatalogIsWhole
  BY DEF CatalogIsWhole
<1>3. QED
  BY <1>1, <1>2, PhonesApart, PTL

(* A behaviour of the service is a behaviour of one user's sessions        *)
(* throughout, or never.                                                   *)
LEMMA SessionsApart ==
  Spec => [](component # "sessions") \/ Session!Spec
<1> DEFINE Here == component = "sessions"
<1>1. Init /\ Here => Session!Init
  BY DEF Init
<1>2. Here /\ [Next]_everything => Here' /\ [Session!Next]_(Session!vars)
  BY DEF Next, everything, sessions, Session!vars
<1>3. ~Here /\ [Next]_everything => ~Here'
  BY DEF Next, everything
<1>4. Spec => Init /\ [][Next]_everything
  BY DEF Spec, everything
<1>5. ~Here => component # "sessions"
  OBVIOUS
<1> HIDE DEF Here
<1>6. QED
  BY <1>1, <1>2, <1>3, <1>4, <1>5, PTL DEF Session!Spec

(* Whatever the time to live, the validity of tokens and the duration of   *)
(* calls, a user who is no master passes Require only with permissions     *)
(* held, by an active account, within the time to live before the request. *)
THEOREM RoleChangesApplyAlways == Spec => []RoleChangesApply
<1>1. Session!Spec => []Session!RoleChangesApply
  BY BackOfficeAssumption, RoleChangesApplyByItself
<1>2. Session!RoleChangesApply \/ component # "sessions" => RoleChangesApply
  BY DEF RoleChangesApply
<1>3. QED
  BY <1>1, <1>2, SessionsApart, PTL

(* And a master who was demoted or deactivated passes no longer than a     *)
(* token lives that was being issued then (JWTAuth, Login).                *)
THEOREM MastersEndAlways == Spec => []MastersEnd
<1>1. Session!Spec => []Session!MastersEnd
  BY BackOfficeAssumption, MastersEndByItself
<1>2. Session!MastersEnd \/ component # "sessions" => MastersEnd
  BY DEF MastersEnd
<1>3. QED
  BY <1>1, <1>2, SessionsApart, PTL

(* And for any requests, the list and the detail show the same ones, and   *)
(* others' only by request:read_all within the time to live (ViewerFor,    *)
(* List, canSee).                                                          *)
THEOREM ShownIsTheirsAlways == Spec => []ShownIsTheirs
<1>1. Session!Spec => []Session!ShownIsTheirs
  BY BackOfficeAssumption, ShownIsTheirsByItself
<1>2. Session!ShownIsTheirs \/ component # "sessions" => ShownIsTheirs
  BY DEF ShownIsTheirs
<1>3. QED
  BY <1>1, <1>2, SessionsApart, PTL

(* A behaviour of the service is a behaviour of the request desk           *)
(* throughout, or never.                                                   *)
LEMMA DeskApart ==
  Spec => [](component # "desk") \/ Desk!Spec
<1> DEFINE Here == component = "desk"
<1>1. Init /\ Here => Desk!Init
  BY DEF Init
<1>2. Here /\ [Next]_everything => Here' /\ [Desk!Next]_(Desk!vars)
  BY DEF Next, everything, desk, Desk!vars
<1>3. ~Here /\ [Next]_everything => ~Here'
  BY DEF Next, everything
<1>4. Spec => Init /\ [][Next]_everything
  BY DEF Spec, everything
<1>5. ~Here => component # "desk"
  OBVIOUS
<1> HIDE DEF Here
<1>6. QED
  BY <1>1, <1>2, <1>3, <1>4, <1>5, PTL DEF Desk!Spec

(* For any master data, submissions and persons, what RetryPendingApproval-*)
(* Sync tells the engine of the row it reads back is what Create told it.  *)
THEOREM RetrySendsTheSameAlways == Spec => []RetrySendsTheSame
<1>1. Desk!Spec => []Desk!RetrySendsTheSame
  BY BackOfficeAssumption, RetrySendsTheSameByItself
<1>2. Desk!RetrySendsTheSame \/ component # "desk" => RetrySendsTheSame
  BY DEF RetrySendsTheSame
<1>3. QED
  BY <1>1, <1>2, DeskApart, PTL

(* And the distributor and the outlet of every request stored were offered *)
(* together (validateCreate against the master data the submission found). *)
THEOREM StoredIsOfferedAlways == Spec => []StoredIsOffered
<1>1. Desk!Spec => []Desk!StoredIsOffered
  BY BackOfficeAssumption, StoredIsOfferedByItself
<1>2. Desk!StoredIsOffered \/ component # "desk" => StoredIsOffered
  BY DEF StoredIsOffered
<1>3. QED
  BY <1>1, <1>2, DeskApart, PTL

(* And a request is made in the name typed when somebody bears it, with a  *)
(* remark of the name otherwise (ResolveRequester, resolveRequester).      *)
THEOREM RequesterIsNamedAlways == Spec => []RequesterIsNamed
<1>1. Desk!Spec => []Desk!RequesterIsNamed
  BY BackOfficeAssumption, RequesterIsNamedByItself
<1>2. Desk!RequesterIsNamed \/ component # "desk" => RequesterIsNamed
  BY DEF RequesterIsNamed
<1>3. QED
  BY <1>1, <1>2, DeskApart, PTL

(* And asset data is recorded with an identifier for each unit asked for   *)
(* (cleanUnitCodes, validateAndroidData, normalizeBreakdown).              *)
THEOREM OneIdentifierPerUnitAlways == Spec => []OneIdentifierPerUnit
<1>1. Desk!Spec => []Desk!OneIdentifierPerUnit
  BY BackOfficeAssumption, OneIdentifierPerUnitByItself
<1>2. Desk!OneIdentifierPerUnit \/ component # "desk" => OneIdentifierPerUnit
  BY DEF OneIdentifierPerUnit
<1>3. QED
  BY <1>1, <1>2, DeskApart, PTL

(* And whatever the form offers on that master data is accepted, provided  *)
(* no two of its distributors share a name (FormOptions, validateCreate).  *)
THEOREM OfferedIsAcceptedAlways == Spec => []OfferedIsAccepted
<1>1. Desk!Spec => []Desk!OfferedIsAccepted
  BY BackOfficeAssumption, OfferedIsAcceptedByItself
<1>2. Desk!OfferedIsAccepted \/ component # "desk" => OfferedIsAccepted
  BY DEF OfferedIsAccepted
<1>3. QED
  BY <1>1, <1>2, DeskApart, PTL

(* A behaviour of the service is a behaviour of the IMEI reference         *)
(* throughout, or never.                                                   *)
LEMMA ImeisApart ==
  Spec => [](component # "imeis") \/ Imei!Spec
<1> DEFINE Here == component = "imeis"
<1>1. Init /\ Here => Imei!Init
  BY DEF Init
<1>2. Here /\ [Next]_everything => Here' /\ [Imei!Next]_(Imei!vars)
  BY DEF Next, everything, imeis, Imei!vars
<1>3. ~Here /\ [Next]_everything => ~Here'
  BY DEF Next, everything
<1>4. Spec => Init /\ [][Next]_everything
  BY DEF Spec, everything
<1>5. ~Here => component # "imeis"
  OBVIOUS
<1> HIDE DEF Here
<1>6. QED
  BY <1>1, <1>2, <1>3, <1>4, <1>5, PTL DEF Imei!Spec

(* For any files, chunk size and number of imports at once, the table only *)
(* changes by a whole file (ImportImeiReference: "Either every row is      *)
(* imported or none is").                                                  *)
THEOREM WholeFilesAlways == Spec => WholeFiles
<1>1. Imei!Spec => WholeFiles
  BY BackOfficeAssumption, WholeFilesByItself DEF WholeFiles
<1>2. component # "imeis" /\ [Next]_everything => UNCHANGED Imei!vars
  BY DEF Next, everything, imeis, Imei!vars
<1>3. Spec /\ [](component # "imeis") => WholeFiles
  BY <1>2, PTL DEF Spec, everything, WholeFiles, Imei!WholeFiles
<1>4. QED
  BY <1>1, <1>3, ImeisApart, PTL

(* A behaviour of the service is a behaviour of the dashboard throughout,  *)
(* or never.                                                               *)
LEMMA DashboardApart ==
  Spec => [](component # "dashboard") \/ Board!Spec
<1> DEFINE Here == component = "dashboard"
<1>1. Init /\ Here => Board!Init
  BY DEF Init
<1>2. Here /\ [Next]_everything => Here' /\ [Board!Next]_(Board!vars)
  BY DEF Next, everything, dashboard, Board!vars
<1>3. ~Here /\ [Next]_everything => ~Here'
  BY DEF Next, everything
<1>4. Spec => Init /\ [][Next]_everything
  BY DEF Spec, everything
<1>5. ~Here => component # "dashboard"
  OBVIOUS
<1> HIDE DEF Here
<1>6. QED
  BY <1>1, <1>2, <1>3, <1>4, <1>5, PTL DEF Board!Spec

(* For any calendar, zone and requests, the chart of the years there are   *)
(* to choose counts each request of its categories once, in the month it   *)
(* was made in (CategoryMonthCounts, foldMonths, monthsToShow).            *)
THEOREM EachInOneBarAlways == Spec => []EachInOneBar
<1>1. Board!Spec => []Board!EachInOneBar
  BY BackOfficeAssumption, EachInOneBarByItself
<1>2. Board!EachInOneBar \/ component # "dashboard" => EachInOneBar
  BY DEF EachInOneBar
<1>3. QED
  BY <1>1, <1>2, DashboardApart, PTL

(* For any calendar, zone, limit and requests, the parts of an overview    *)
(* agree with each other, and with the sidebar and the list, if no request *)
(* changed between its reads (Overview, over SQL statements of their own). *)
THEOREM PageAgreesAlways == Spec => []PageAgrees
<1>1. Board!Spec => []Board!PageAgrees
  BY BackOfficeAssumption, PageAgreesByItself
<1>2. Board!PageAgrees \/ component # "dashboard" => PageAgrees
  BY DEF PageAgrees
<1>3. QED
  BY <1>1, <1>2, DashboardApart, PTL

(* A behaviour of the service is a behaviour of the router throughout, or  *)
(* never.                                                                  *)
LEMMA RoutesApart ==
  Spec => [](component # "routes") \/ Access!Spec
<1> DEFINE Here == component = "routes"
<1>1. Init /\ Here => Access!Init
  BY DEF Init
<1>2. Here /\ [Next]_everything => Here' /\ [Access!Next]_(Access!vars)
  BY DEF Next, everything, routes, Access!vars
<1>3. ~Here /\ [Next]_everything => ~Here'
  BY DEF Next, everything
<1>4. Spec => Init /\ [][Next]_everything
  BY DEF Spec, everything
<1>5. ~Here => component # "routes"
  OBVIOUS
<1> HIDE DEF Here
<1>6. QED
  BY <1>1, <1>2, <1>3, <1>4, <1>5, PTL DEF Access!Spec

(* Whatever values an id may have, the names of the fixed paths among      *)
(* them, the handler that answers is that of the most specific route for   *)
(* the path, in the order registerAPIRoutes declares the routes.           *)
THEOREM ServedAsDeclaredAlways == Spec => []ServedAsDeclared
<1>1. Access!Spec => []Access!ServedAsDeclared
  BY RouterRuns, PTL
<1>2. Access!ServedAsDeclared \/ component # "routes" => ServedAsDeclared
  BY DEF ServedAsDeclared
<1>3. QED
  BY <1>1, <1>2, RoutesApart, PTL

(* Whatever values an id may have, a user of a role of the matrix opens a  *)
(* module exactly if the matrix says so, whatever groups stand before it;  *)
(* a counter of the sidebar is there exactly if its module opens; and      *)
(* without a token only the login and the signed webhook answer            *)
(* (registerAPIRoutes, Require, Badges, and the seeded permissions).       *)
THEOREM MatrixIsFollowedAlways == Spec => []MatrixIsFollowed
<1>1. Access!Spec => []Access!MatrixIsFollowed
  BY RouterRuns, PTL
<1>2. Access!MatrixIsFollowed \/ component # "routes" => MatrixIsFollowed
  BY DEF MatrixIsFollowed
<1>3. QED
  BY <1>1, <1>2, RoutesApart, PTL
=============================================================================
