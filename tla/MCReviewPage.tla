---------------------------- MODULE MCReviewPage -----------------------------
(* A manager and an HR partner: each can decide on the other's requests.   *)
EXTENDS ReviewPage

CONSTANTS bob, lau, short, long

=============================================================================
