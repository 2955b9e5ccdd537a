---------------------------- MODULE MCUserAdmin ----------------------------
(* Instances of UserAdmin: an administrator and a member of the team are   *)
(* seeded, the third account is created later or not at all.               *)
EXTENDS UserAdmin

CONSTANTS u1, u2, team, p1

MCSeedRole == [u \in {u1, u2} |-> IF u = u1 THEN AdminRole ELSE team]
MCSeedPermissions == [code \in Roles |-> IF code = team THEN {} ELSE {p1} \cap Permissions]
=============================================================================
