--------------------------- MODULE MCDownloadPool ---------------------------
(* A small instance of DownloadPool for TLC: more files than workers.       *)
EXTENDS DownloadPool
=============================================================================
