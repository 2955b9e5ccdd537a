---------------------------- MODULE RequestForm ----------------------------
(***************************************************************************)
(* The New Request form: what it offers, what a submission must satisfy    *)
(* and what is stored of it (request_form.go).                             *)
(*                                                                         *)
(* Texts are compared as the code compares them, trimmed and ignoring      *)
(* case, so two spellings of one name are one value here; "" is blank.     *)
(* The master data is a record [distributors, outlets, divisions]: the     *)
(* active distributors in the order listed, each a record of its id, name  *)
(* and outlets (active or not), the active outlets, and the active sales   *)
(* divisions.                                                              *)
(***************************************************************************)
EXTENDS Integers, FiniteSets, FiniteSetsExt, SequencesExt

CONSTANTS
  OutletName,   \* the name of each outlet
  TooLong       \* a name of more than maxManualDistributorLength characters

Input ==
  [category : STRING, distributor : STRING, distributorManual : STRING, outlet : STRING,
   salesDivision : STRING, reqType : STRING, requesterRole : STRING, requesterName : STRING,
   qty : Int, priority : STRING, breakdown : Seq([kind : STRING, quantity : Int])]

requestCategories == {"Barcode", "Android", "Server", "Mobile Printer"}
barcodeKinds == <<"Rusak", "Hilang", "NOO", "Buffer Stock">>
requestTypes == {"Baru", "Peremajaan"}
requestPriorities == {"normal", "high", "urgent"}

requesterRolesByCategory ==
  [category \in requestCategories |->
     IF category = "Barcode" THEN {"SA", "SS", "RSM", "GRSM", "NSM", "SD"}
     ELSE {"Cabang", "SD"}]

---------------------------------------------------------------------------
(* FormOptions: the distributors keep the outlets that are active.  The    *)
(* mutant offers all of them.                                              *)
OfferedOutletsMutant(distributor, data) == distributor.outlets
OfferedOutlets(distributor, data) == distributor.outlets \cap data.outlets

(* The distributor a submission names: the first of that name, if any.     *)
ChosenDistributor(in, data) ==
  LET i == SelectInSeq(data.distributors, LAMBDA d : d.name = in.distributor)
  IN  IF in.distributor = "" \/ i = 0 THEN {} ELSE {data.distributors[i]}

(* The outlets a submission may name: those of its distributor that are    *)
(* active, or all of them when the distributor is typed in.  The mutant    *)
(* forgets that the distributor's may have been deactivated.               *)
CandidatesMutant(in, data) ==
  IF in.distributor = "" THEN data.outlets
  ELSE UNION {d.outlets : d \in ChosenDistributor(in, data)}

Candidates(in, data) ==
  IF in.distributor = "" THEN data.outlets
  ELSE UNION {d.outlets \cap data.outlets : d \in ChosenDistributor(in, data)}

MatchingOutlets(in, data) ==
  {o \in Candidates(in, data) : OutletName[o] = in.outlet}

---------------------------------------------------------------------------
(* normalizeBreakdown: the units of a Barcode request by reason.           *)

BreakdownIsValid(items) ==
  /\ \A i \in DOMAIN items : items[i].kind \in ToSet(barcodeKinds) /\ items[i].quantity >= 0
  /\ \A i, j \in DOMAIN items : items[i].kind = items[j].kind => i = j

(* The kinds with a count above zero.                                      *)
Kept(items) == {item \in ToSet(items) : item.quantity > 0}

Units(items) == MapThenSumSet(LAMBDA item : item.quantity, items)

Total(items) == Units(Kept(items))

---------------------------------------------------------------------------
(* validateCreate: its checks, in the order of the form.                   *)

(* The units asked for are what the breakdown says, or at least one.       *)
QuantityIsRight(in) ==
  IF in.category = "Barcode" THEN in.qty = Total(in.breakdown) ELSE in.qty >= 1

Check(field, ok) == [field |-> field, ok |-> ok]

Checks(in, data) ==
  LET barcode == in.category = "Barcode" IN
  << Check("category", in.category \in requestCategories),
     Check("distributor", (in.distributor = "") # (in.distributorManual = "")),
     Check("distributorManual", in.distributorManual # TooLong),
     Check("distributor", in.distributor # "" => ChosenDistributor(in, data) # {}),
     Check("outlet", Cardinality(MatchingOutlets(in, data)) = 1),
     Check("salesDivision", in.salesDivision \in data.divisions),
     Check("reqType", in.category = "Android" => in.reqType \in requestTypes),
     Check("requesterRole",
           in.category \in requestCategories
             => in.requesterRole \in requesterRolesByCategory[in.category]),
     Check("requesterName", in.requesterName # ""),
     Check("breakdown",
           barcode => BreakdownIsValid(in.breakdown) /\ Total(in.breakdown) > 0),
     Check("qty", QuantityIsRight(in)),
     Check("priority", in.priority \in requestPriorities \cup {""}) >>

(* The field the error names, "" when the submission is accepted.          *)
WrongField(in, data) ==
  LET i == SelectInSeq(Checks(in, data), LAMBDA check : ~check.ok)
  IN  IF i = 0 THEN "" ELSE Checks(in, data)[i].field

(* The submission as it is stored for its requester: ids instead of names, *)
(* what the category does not ask for dropped, a blank priority made       *)
(* normal.                                                                 *)
Normalised(in, data, requester) ==
  [requester |-> requester,
   category |-> in.category,
   distributor |-> {d.id : d \in ChosenDistributor(in, data)},
   distributorManual |-> in.distributorManual,
   outlet |-> MatchingOutlets(in, data),
   salesDivision |-> in.salesDivision,
   reqType |-> IF in.category = "Android" THEN in.reqType ELSE "",
   requesterRole |-> in.requesterRole,
   requesterName |-> in.requesterName,
   breakdown |-> IF in.category = "Barcode" THEN Kept(in.breakdown) ELSE {},
   qty |-> in.qty,
   priority |-> IF in.priority = "" THEN "normal" ELSE in.priority]
=============================================================================
