--------------------------- MODULE MCReconciliation ---------------------------
(* Instances of Reconciliation for TLC.                                    *)
EXTENDS Reconciliation, TLC

CONSTANTS
    r1, r2,        \* requests
    a1, a2, a3,    \* rows of pending_actions
    k1, k2         \* checks

(* The first request may save two rows. *)
TwoAndOne == a1 :> r1 @@ a2 :> r1 @@ a3 :> r2
Alone == a1 :> r1

CheckSymmetry == Permutations(Checkers)

=============================================================================
