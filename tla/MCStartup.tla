----------------------------- MODULE MCStartup -----------------------------
(* Two uploads of one name and one restart: the second process finds on    *)
(* the disk whatever the first has left there.                             *)
EXTENDS Startup

CONSTANTS k1, s1, s2
=============================================================================
