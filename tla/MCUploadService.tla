-------------------------- MODULE MCUploadService --------------------------
(* Two sessions of up to two chunks that may use one request id or two.    *)
EXTENDS UploadService, TLC

CONSTANTS u1, u2, i1, i2

MCSymmetry == Permutations({u1, u2}) \cup Permutations({i1, i2})
=============================================================================
