---------------------------- MODULE PhoneCatalog ----------------------------
(***************************************************************************)
(* Phone brands and their models: phone_catalog_service.go over            *)
(* phone_catalog_repository.go, under concurrent calls.  Every SQL         *)
(* statement is a step.  Names are compared as the unique indexes compare  *)
(* them, ignoring case.  Nothing is ever deleted.                          *)
(***************************************************************************)
CONSTANTS
  Brands, Models, Names,
  Editors,    \* the calls in progress at one moment
  None

PhoneAssumption ==
  Brands \cap Models = {} /\ None \notin Brands \cup Models \cup Names

VARIABLES
  name,      \* the name of each brand and model, None for one that is not there
  active,    \* is_active
  brandOf,   \* phone_models.brand_id
  edits      \* the call each editor is making

tables == <<name, active, brandOf>>
vars == <<tables, edits>>

Items == Brands \cup Models
Exists(x) == name[x] # None

Idle == [at |-> "idle", item |-> None, name |-> None, brand |-> None, is_active |-> ""]

Init ==
  /\ name \in [Items -> Names \cup {None}]
  /\ active \in [Items -> {"active", "inactive"}]
  /\ brandOf \in [Models -> Brands \cup {None}]
  /\ \A x \in Items : ~Exists(x) => active[x] = "inactive"
  /\ \A m \in Models : IF Exists(m) THEN brandOf[m] # None /\ Exists(brandOf[m])
                       ELSE brandOf[m] = None
  /\ \A x, y \in Items : Exists(x) /\ name[x] = name[y] /\ x # y
       => \/ x \in Brands /\ y \in Models
          \/ x \in Models /\ y \in Brands
          \/ x \in Models /\ y \in Models /\ brandOf[x] # brandOf[y]
  /\ edits = [e \in Editors |-> Idle]

At(e, location) == edits[e].at = location
Continue(e, edit) == edits' = [edits EXCEPT ![e] = edit]
Return(e) == Continue(e, Idle)

---------------------------------------------------------------------------
(* The flag a call will write: nil keeps the one the update read, and      *)
(* makes a new item active.                                                *)
IsActive(x, flag) ==
  IF flag # "" THEN flag ELSE IF Exists(x) THEN active[x] ELSE "active"

(* The id of a new item is its own.                                        *)
CanBeSaved(x) == Exists(x) \/ \A f \in Editors : edits[f].item # x

(* CreateBrand and UpdateBrand; an update reads the brand first, which     *)
(* must exist.                                                             *)
SaveBrand(e, b, n, flag) ==
  /\ At(e, "idle") /\ CanBeSaved(b)
  /\ Continue(e, [at |-> "write", item |-> b, name |-> n, brand |-> None,
                  is_active |-> IsActive(b, flag)])
  /\ UNCHANGED tables

(* UpdateModel reads the model, CreateModel nothing; both then look for    *)
(* the brand it shall have.                                                *)
SaveModel(e, m, n, b, flag) ==
  /\ At(e, "idle") /\ CanBeSaved(m)
  /\ Continue(e, [at |-> "checkModelInput", item |-> m, name |-> n, brand |-> b,
                  is_active |-> IsActive(m, flag)])
  /\ UNCHANGED tables

checkModelInput(e) ==
  /\ At(e, "checkModelInput")
  /\ IF Exists(edits[e].brand) THEN Continue(e, [edits[e] EXCEPT !.at = "write"])
     ELSE Return(e)
  /\ UNCHANGED tables

(* The unique indexes: brands by name, models by brand and name.           *)
NameIsTaken(edit) ==
  IF edit.item \in Brands
  THEN \E b \in Brands \ {edit.item} : name[b] = edit.name
  ELSE \E m \in Models \ {edit.item} : name[m] = edit.name /\ brandOf[m] = edit.brand

Write(e) ==
  LET edit == edits[e] IN
  /\ At(e, "write")
  /\ IF NameIsTaken(edit) THEN UNCHANGED tables
     ELSE /\ name' = [name EXCEPT ![edit.item] = edit.name]
          /\ active' = [active EXCEPT ![edit.item] = edit.is_active]
          /\ brandOf' = IF edit.item \in Models
                        THEN [brandOf EXCEPT ![edit.item] = edit.brand] ELSE brandOf
  /\ Return(e)

(* A statement fails or the process dies: nothing is written.              *)
Abandon(e) ==
  /\ ~At(e, "idle")
  /\ Return(e)
  /\ UNCHANGED tables

Next ==
  \E e \in Editors :
    \/ \E n \in Names, flag \in {"active", "inactive", ""} :
         \/ \E b \in Brands : SaveBrand(e, b, n, flag)
         \/ \E m \in Models, b \in Brands : SaveModel(e, m, n, b, flag)
    \/ checkModelInput(e) \/ Write(e) \/ Abandon(e)

Spec == Init /\ [][Next]_vars

---------------------------------------------------------------------------
(* loadBrands: each brand is joined with its models, or with None when it  *)
(* has none the caller asked for.  The mutant filters the models after     *)
(* they are joined.                                                        *)
ShownModels(b, includeInactive) ==
  {m \in Models : brandOf[m] = b /\ (includeInactive \/ active[m] = "active")}

ShownBrands(includeInactive) ==
  {b \in Brands : Exists(b) /\ (includeInactive \/ active[b] = "active")}

JoinedMutant(includeInactive) ==
  {row \in ShownBrands(includeInactive) \X Models :
     row[2] \in ShownModels(row[1], includeInactive)}

Joined(includeInactive) ==
  {row \in ShownBrands(includeInactive) \X (Models \cup {None}) :
     IF ShownModels(row[1], includeInactive) = {} THEN row[2] = None
     ELSE row[2] \in ShownModels(row[1], includeInactive)}

(* The catalogue the rows make: each brand once, with its models.          *)
Catalog(includeInactive) ==
  LET rows == Joined(includeInactive) IN
  [b \in {row[1] : row \in rows} |-> {row[2] : row \in {r \in rows : r[1] = b}} \ {None}]

(* Whatever was renamed, moved or hidden meanwhile, the form shows every   *)
(* active brand ("an active brand without active models is still           *)
(* returned"), offers each active model of those under its brand only, and *)
(* never two choices of one name in a list.                                *)
NamesDiffer(items) == \A x, y \in items : name[x] = name[y] => x = y

CatalogIsWhole ==
  LET catalog == Catalog(FALSE) IN
  /\ DOMAIN catalog = {b \in Brands : Exists(b) /\ active[b] = "active"}
  /\ NamesDiffer(DOMAIN catalog)
  /\ \A b \in DOMAIN catalog : NamesDiffer(catalog[b])
  /\ \A m \in Models :
       {b \in DOMAIN catalog : m \in catalog[b]}
         = {b \in {brandOf[m]} \ {None} : active[b] = "active" /\ active[m] = "active"}
=============================================================================
