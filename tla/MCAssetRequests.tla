--------------------------- MODULE MCAssetRequests ---------------------------
(* Instances of AssetRequests for TLC.                                      *)
EXTENDS RequestCounters, TLC

CONSTANTS w1, w2, w3, p1, p2

(* Workers are interchangeable, and so are payloads: calls and rows only    *)
(* compare them.  Used with safety properties only.                         *)
Symmetry == Permutations({w1, w2, w3}) \cup Permutations({p1, p2})
=============================================================================
