--------------------------- MODULE MCDiskStorage ---------------------------
(* Two or three uploads of one or two names, a load and a read; the sizes  *)
(* include the empty chunk, and with the first chunk counted twice one     *)
(* upload fits the index, another evicts, a third never fits.              *)
EXTENDS DiskStorage

CONSTANTS k1, k2, s1, s2, s3, l1, r1

MCSymmetry == Permutations({s1, s2, s3})
PairSymmetry == Permutations({s1, s2})
=============================================================================
