----------------------------- MODULE MCPatchFiles -----------------------------
(* A small instance of PatchFiles for TLC: two workers and two archives, one  *)
(* of which SEGA replaces; runs with a backup path and runs without.          *)
EXTENDS PatchFiles

CONSTANTS a1, a2

BothArchives == {a1, a2}
WithAndWithout == {TRUE, FALSE}
Revisions == [a \in BothArchives |-> IF a = a1 THEN 2 ELSE 1]

\* Bounds: runs without a backup path come first, if there are any; no fetch of the
\* archive that is not replaced is cut off.
Bounds == (backups => backups') /\ game'[a2].form # "cut"
MCSpec == Init /\ [][Next /\ Bounds]_vars /\ Fairness
==============================================================================
