----------------------------- MODULE MCLruCache -----------------------------
(* Three keys of model values.  The sizes include 0 (rejected), one that   *)
(* needs an eviction and one that can never fit; the ttls a negative one,  *)
(* a short one, and one that is above maxTtl and above what setTimeout     *)
(* can wait.                                                               *)
EXTENDS LruCache

CONSTANTS k1, k2, k3

MCTtl == {-1, 1, 4}
KeySymmetry == Permutations({k1, k2, k3})
=============================================================================
