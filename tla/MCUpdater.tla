------------------------------ MODULE MCUpdater ------------------------------
(* A small instance of Updater for TLC.  "a" changes in version 2; "b" is    *)
(* named by the old list only.                                               *)
EXTENDS Updater

MCFiles == {"a", "b"}
MCTranslatable == {"a"}
MCListed == <<[a |-> 1], [a |-> 2]>>
MCListedOld == <<[b |-> 1], [b |-> 1]>>

\* An ordinary launch; a check with garbage collection; a full revert; the
\* documented way to remove what wastes space.
Launch == {"d", "t", "b"}
CheckAndClean == {"c", "d", "g"}
Revert == {"a", "h", "d"}
Refresh == {"u", "g"}

UsesWithoutRefresh == {Launch, CheckAndClean, Revert}
LaunchAndRevert == {Launch, Revert}
LaunchOnly == {Launch}
LaunchAndRefresh == {Launch, Refresh}
==============================================================================
