------------------------- MODULE MCMediaLifecycle -------------------------
(* MediaLifecycle with names for its model values. *)
EXTENDS MediaLifecycle, TLC

CONSTANTS m1, m2, m3, c1, r1, q1, q2, w1, w2

MediaSymmetry == Permutations(Media) \cup Permutations(Requests) \cup Permutations(Workers)
=============================================================================
