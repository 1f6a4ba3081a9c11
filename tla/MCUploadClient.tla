-------------------------- MODULE MCUploadClient ---------------------------
(* One call of uploadFile beside one arbitrary session, under one request  *)
(* id or two.                                                              *)
EXTENDS UploadClient

CONSTANTS u1, u2, i1, i2
=============================================================================
