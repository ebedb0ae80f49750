----------------------------- MODULE MCSeedFiles -----------------------------
(* A policy in two texts: one heading gets the text of another, which is   *)
(* replaced by a new heading with a new text.                              *)
EXTENDS SeedFiles, TLC

CONSTANTS s1, s2, old, new, a, b, c, x, y, z

TheChunks == (old :> (a :> x @@ b :> y)) @@ (new :> (a :> y @@ c :> z))

Symmetry == Permutations(Seeds)

=============================================================================
