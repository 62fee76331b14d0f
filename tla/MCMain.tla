------------------------------- MODULE MCMain -------------------------------
(* The two halves of pso2-download's main, which share no state: runs update  *)
(* the game (Updater), or launchers start it (Launcher).  The updates are     *)
(* taken in two parts, each bounded where the other is not.                   *)
EXTENDS MCUpdater, Launcher

\* Nothing is injected, a key is, or SEGA's is dumped.
CommandLine(pubkey, dump) == [item |-> FALSE, pubkey |-> pubkey, dump |-> dump]
MCCommandLines == {CommandLine("", ""), CommandLine("blob", ""), CommandLine("", "blob")}

VARIABLE part  \* the part at work

MCInit == part \in {"update", "english", "launch"} /\ Init /\ LaunchInit

\* Bound of "update": the first run fetches english.db, and no new one is published;
\* of the downloads that end in as many bytes as they should, only those of a may be
\* corrupted.
UpdateBound ==
    /\ disk'["b"].form # "corrupt"
    /\ ~PublishEnglish
    /\ pc = "english" /\ english = "none" => pc' # "load"
    /\ pc = "englishCopy" => english' = "current"

\* Bound of "english": the game is launched, and nothing else asked for.
Launches == flags' \in {{}, Launch}

MCNext ==
    /\ UNCHANGED part
    /\ \/ part = "update" /\ Next /\ UpdateBound /\ UNCHANGED launchVars
       \/ part = "english" /\ Next /\ Launches /\ UNCHANGED launchVars
       \/ part = "launch" /\ LaunchNext /\ UNCHANGED vars
MCSpec == MCInit /\ [][MCNext]_<<vars, launchVars, part>>
=============================================================================
