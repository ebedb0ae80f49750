---------------------------- MODULE MCPolicyIndex ----------------------------
(* Instances of PolicyIndex for TLC.                                       *)
EXTENDS PolicyIndex

CONSTANTS
    first, second,           \* two searches
    vacation, expenses,      \* two policies
    leave, carry, meals,     \* three chunk ids
    march, june              \* two versions

ThePolicies == (leave :> vacation) @@ (carry :> vacation) @@ (meals :> expenses)

(* The vacation policy changes and loses a heading, and may change back.   *)
TheCorpora == {
    (leave :> march) @@ (carry :> march) @@ (meals :> march),
    (leave :> june) @@ (meals :> march)}

Twins == Permutations({first, second})

=============================================================================
