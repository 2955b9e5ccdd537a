---------------------------- MODULE MCMasterData ----------------------------
(* Instances of MasterData for TLC.                                         *)
EXTENDS MasterData, TLC

CONSTANTS o1, o2, d1, d2, w1, w2

(* Two outlets, so that a distributor can be saved in part, or one outlet   *)
(* and requests made on it.                                                 *)
InPlay ==
  {o \in Outlets : Exists(o) \/ \E w \in Workers :
                     \/ o = calls[w].outlet
                     \/ calls[w].row # None /\ o \in calls[w].outlets}

Bound ==
  \/ \A o, p \in InPlay : o = p
  \/ /\ \A t \in Types : ~Exists(t)
     /\ \A w \in Workers : calls[w].request = None

(* Outlets, distributors and workers are interchangeable.  Used with safety *)
(* properties only.                                                         *)
Symmetry ==
  Permutations({o1, o2}) \cup Permutations({d1, d2}) \cup Permutations({w1, w2})
=============================================================================
