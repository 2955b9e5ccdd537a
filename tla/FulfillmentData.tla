-------------------------- MODULE FulfillmentData --------------------------
(***************************************************************************)
(* The asset data recorded for an approved request: what it must be for    *)
(* the request's category and quantity (fulfillment_data.go).              *)
(*                                                                         *)
(* The data is a record of the three shapes the code decodes, codes (of    *)
(* barcodes, or serial numbers), units and specs; decoded data lacks the   *)
(* ones its JSON does not have.  Texts are trimmed, "" is blank.           *)
(***************************************************************************)
EXTENDS Integers, Sequences, Functions

CONSTANTS
  Digits,   \* the number of digits of a text, 0 when it is not all digits
  Codes     \* the codes, serial numbers, IMEIs, years and names there are

DigitsAssumption == Digits \in [Codes \cup {""} -> Nat] /\ Digits[""] = 0

Unit ==
  [imei : STRING, brand : STRING, model : STRING, releaseYear : STRING, regYear : STRING]

Data == [codes : Seq(STRING), units : Seq(Unit), specs : STRING]

IsImei(text) == Digits[text] \in 14 .. 16
isFourDigitYear(text) == Digits[text] = 4

(* cleanUnitCodes.  The mutant does not look for codes entered twice.      *)
CleanUnitCodesMutant(codes, qty) ==
  Len(codes) = qty /\ \A i \in DOMAIN codes : codes[i] # ""

CleanUnitCodes(codes, qty) ==
  /\ Len(codes) = qty
  /\ \A i \in DOMAIN codes : codes[i] # ""
  /\ IsInjective(codes)

UnitIsComplete(unit) ==
  /\ IsImei(unit.imei)
  /\ unit.brand # "" /\ unit.model # ""
  /\ isFourDigitYear(unit.releaseYear) /\ isFourDigitYear(unit.regYear)

Imeis(units) == [i \in DOMAIN units |-> units[i].imei]

AndroidDataIsValid(units, qty) ==
  /\ Len(units) = qty
  /\ \A i \in DOMAIN units : UnitIsComplete(units[i])
  /\ IsInjective(Imeis(units))

(* validateFulfillmentData.                                                *)
IsValid(category, qty, data) ==
  CASE category \in {"Barcode", "Mobile Printer"} -> CleanUnitCodes(data.codes, qty)
    [] category = "Android" -> AndroidDataIsValid(data.units, qty)
    [] category = "Server" -> data.specs # ""
    [] OTHER -> FALSE

(* What is stored: the shape of the category, and nothing else sent.       *)
Stored(category, data) ==
  CASE category \in {"Barcode", "Mobile Printer"} -> [data EXCEPT !.units = <<>>, !.specs = ""]
    [] category = "Android" -> [data EXCEPT !.codes = <<>>, !.specs = ""]
    [] OTHER -> [data EXCEPT !.codes = <<>>, !.units = <<>>]
=============================================================================
