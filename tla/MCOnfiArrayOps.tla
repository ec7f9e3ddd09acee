--------------------------- MODULE MCOnfiArrayOps ---------------------------
(***************************************************************************)
(* OnfiArrayOps on small instances.  The .cfg files choose the function    *)
(* families that share a session, the interface type and the operations    *)
(* whose R/B# may fall late.                                               *)
(***************************************************************************)
EXTENDS OnfiArrayOpsStore, OnfiArrayOpsInv, TLC

CONSTANTS b1, b2, p1, p2, d1, d2

OneBlock  == {b1}
TwoBlocks == {b1, b2}
OnePage   == {p1}
TwoPages  == {p1, p2}
OneDatum  == {d1}
TwoData   == {d1, d2}

(* Pages and payloads are only compared, never ordered. *)
Symmetry == Permutations({p1, p2}) \cup Permutations({d1, d2})
=============================================================================
