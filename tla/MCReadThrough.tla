--------------------------- MODULE MCReadThrough ---------------------------
(* Two downloads of a name that is uploaded once; a file is one or two     *)
(* chunks long, depending on the chunk size the download asks for.         *)
EXTENDS ReadThrough

CONSTANTS k1, d1, d2

MCRequested == {-1, 1}
=============================================================================
