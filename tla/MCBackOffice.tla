---------------------------- MODULE MCBackOffice ----------------------------
(* An instance of BackOffice: what its constants are, where they are more   *)
(* than a number or a few names.                                            *)
EXTENDS BackOffice

(* RequestDesk: two distributors that may share outlets of one name, three  *)
(* persons two of whom share theirs, and nobody known among the submitters. *)
MCOutletName == [o1 |-> "North", o2 |-> "South", o3 |-> "North"]
MCDistributorName == [d1 |-> "Utama", d2 |-> "Raya"]

Distributor(d, outlets) == [id |-> d, name |-> MCDistributorName[d], outlets |-> outlets]

MCMasterData ==
  {[distributors |-> ds, outlets |-> outlets, divisions |-> {"M3"}] :
     ds \in { << >>,
              << Distributor("d1", {"o1", "o3"}) >>,
              << Distributor("d1", {"o1"}), Distributor("d2", {"o2", "o3"}) >>,
              << Distributor("d2", {"o1", "o2"}), Distributor("d1", {}) >> },
     outlets \in { {"o1", "o2"}, {"o1", "o2", "o3"}, {"o3"} }}

Reasons == { << >>,
             << [kind |-> "Rusak", quantity |-> 2] >>,
             << [kind |-> "Rusak", quantity |-> 1], [kind |-> "NOO", quantity |-> 1],
                [kind |-> "Hilang", quantity |-> 0] >>,
             << [kind |-> "NOO", quantity |-> 1], [kind |-> "NOO", quantity |-> 1] >>,
             << [kind |-> "Lain", quantity |-> 1] >> }

(* What is checked against something else in every combination, and what    *)
(* is checked by itself, once right and once wrong.                         *)
MCInputs ==
  [category : {"Barcode", "Android", "Server", "Mobile Printer", "Laptop"},
   distributor : {"", "Utama", "Raya"}, distributorManual : {"", "Toko", "TooLong"},
   outlet : {"North", "South", ""}, salesDivision : {"M3"},
   reqType : {"Baru"}, requesterRole : {"SA", "Cabang"},
   requesterName : {"", "Ani", "Toko Ani"}, qty : {0, 1, 2},
   breakdown : Reasons, priority : {""}]
  \cup
  [category : {"Barcode", "Android"},
   distributor : {"Utama"}, distributorManual : {""},
   outlet : {"North"}, salesDivision : {"M3", "M9"},
   reqType : {"", "Baru"}, requesterRole : {"SA", "Cabang"},
   requesterName : {"Ani", "budi"}, qty : {2},
   breakdown : Reasons, priority : {"", "high", "soon"}]

MCPeople == << [employeeNo |-> 1, name |-> "Ani", email |-> "ani@x", rank |-> 1],
               [employeeNo |-> 2, name |-> "Budi", email |-> "budi@x", rank |-> 2],
               [employeeNo |-> 3, name |-> "Ani", email |-> "ani2@x", rank |-> 0] >>

(* The category given the code of another or one of no workflow, the outlet *)
(* and the distributor new names, and the requester another role, or the    *)
(* name of the shop.                                                        *)
MCLater ==
  [category |-> {"Android", "Laptop"}, outlet |-> {"West"}, distributor |-> {"Maju"},
   person |-> {[MCPeople[1] EXCEPT !.rank = 3],
               [MCPeople[2] EXCEPT !.name = "Toko Ani", !.employeeNo = 4]}]

Texts == {"Ani", "Budi", "budi", "Toko Ani", "ani@x", "ani2@x", "budi@x"}
MCFold == [text \in Texts |-> IF text = "budi" THEN "Budi" ELSE text]

MCCodes == {"a", "b", "imei1", "imei2", "2020", "20"}
MCDigits == [c \in MCCodes \cup {""} |->
  CASE c \in {"imei1", "imei2"} -> 15 [] c = "2020" -> 4 [] c = "20" -> 2 [] OTHER -> 0]

Unit(imei, year) ==
  [imei |-> imei, brand |-> "a", model |-> "b", releaseYear |-> year, regYear |-> "2020"]

MCAssetData ==
  {[codes |-> codes, units |-> units, specs |-> specs] :
     codes \in { << >>, <<"a">>, <<"a", "b">>, <<"a", "a">>, <<"a", "">> },
     units \in { << >>, <<Unit("imei1", "2020")>>, <<Unit("imei1", "2020"), Unit("imei2", "2020")>>,
                 <<Unit("imei1", "2020"), Unit("imei1", "2020")>>,
                 <<Unit("imei1", "20"), Unit("2020", "2020")>> },
     specs \in {"", "a"}}

---------------------------------------------------------------------------
(* ImeiReference: files that are taken, one of them longer than a chunk,    *)
(* and files with each thing that is refused.                               *)
Row(tac, device) == [kind |-> "row", tac |-> tac, device |-> device]
Line(kind) == [kind |-> kind, tac |-> "t1", device |-> "A"]

MCFiles ==
  { << Line("header"), Row("t1", "A"), Row("t2", "A"), Line("blank"), Row("t3", "A") >>,
    << Line("blank"), Line("header"), Row("t3", "B"), Row("t2", "B"), Row("t1", "B") >>,
    << Row("t2", "A"), Row("t2", "B") >>,
    << Row("t1", "B"), Line("header") >>,
    << Line("malformed"), Row("t1", "A") >>,
    << Line("header"), Line("blank") >>,
    << >> }

---------------------------------------------------------------------------
(* Of two requests one is the user's (Sessions).                            *)
MCSubmitted == <<TRUE, FALSE>>
=============================================================================
