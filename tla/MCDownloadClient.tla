------------------------- MODULE MCDownloadClient --------------------------
(* One call of downloadFile beside one arbitrary download, of a name that  *)
(* is uploaded once (liveness) or twice (safety); the file is one or two   *)
(* chunks long, depending on the chunk size that is asked for.             *)
EXTENDS DownloadClient

CONSTANTS k1, d1, d2

MCRequested == {-1, 1}
=============================================================================
