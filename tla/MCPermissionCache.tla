------------------------- MODULE MCPermissionCache -------------------------
(* An instance of PermissionCache for TLC.  One caller has an identifier    *)
(* and an address that no account bears, and the employee number that u1    *)
(* has here; the other is u1, with a token that has the number only.        *)
EXTENDS PermissionCache, TLC

CONSTANTS u1, k1, k2, g1, g2

MCUserId == [k \in Claims |-> IF k = k1 THEN "id" ELSE None]
MCEmail == [k \in Claims |-> IF k = k1 THEN "address" ELSE None]
MCEmployeeNo == [k \in Claims |-> "number"]
MCBears == [i \in {"id", "address", "number"} |-> IF i = "number" THEN {u1} ELSE {}]

(* Lookups are interchangeable.                                             *)
Symmetry == Permutations({g1, g2})
=============================================================================
