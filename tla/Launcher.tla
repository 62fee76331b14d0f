------------------------------ MODULE Launcher ------------------------------
(***************************************************************************)
(* The -l part of pso2-download's main (cmd/pso2-download/download.go) and  *)
(* translation.cfg (download/cmd/config.go): launchers that configure and   *)
(* inject ddraw.dll, start the game and remove the DLL once the game has    *)
(* ended.  A launcher may be killed anywhere, and its game goes on; the     *)
(* next one is started while others still wait for their games.            *)
(*                                                                         *)
(* The game is outside src/: it loads a DLL that lies beside it, and that   *)
(* reads translation.cfg, where a key that is missing is an empty one.      *)
(***************************************************************************)
EXTENDS Integers

CONSTANTS Launchers,
          CommandLines,   \* [item, pubkey, dump]: -i, and the paths of -pubkey and -dumppubkey
          NoDll           \* what a game finds that loads no DLL

ASSUME CommandLinesAssumption == CommandLines # {}

VARIABLES
    cfg,      \* on disk: the keys of translation.cfg and their values
    dll,      \* on disk: ddraw.dll is "missing", "torn" or "whole"
    launcher, \* where in main each launcher is; "off": it does not run
    line,     \* its command line
    config,   \* its config, as it is to be saved; empty when that is done
    game,     \* its game: "none", "starting" or "running"
    found,    \* the settings its running game has found
    excused,  \* history: its error in reading or saving translation.cfg was dropped,
              \* or another launcher has rewritten the file while its game started
    behind    \* history: ddraw.dll was left behind, by a kill or a failed Remove

launchVars == <<cfg, dll, launcher, line, config, game, found, excused, behind>>

ConfigKeys == {"TranslationPath", "PublicKeyPath", "PublicKeyDump"}
Settings(args) ==
    [TranslationPath |-> IF args.item THEN "translation.bin" ELSE "",
     PublicKeyPath   |-> IF args.dump # "" THEN args.dump ELSE args.pubkey,
     PublicKeyDump   |-> IF args.dump # "" THEN "1" ELSE ""]
LoadDll(args) == args.item \/ args.pubkey # "" \/ args.dump # ""

NoKeys == [k \in {} |-> ""]
Value(c, k) == IF k \in DOMAIN c THEN c[k] ELSE ""

LaunchInit ==
    /\ cfg = NoKeys /\ dll = "missing" /\ behind = FALSE
    /\ launcher = [l \in Launchers |-> "off"]
    /\ line \in [Launchers -> {CHOOSE args \in CommandLines : TRUE}]
    /\ config = [l \in Launchers |-> NoKeys]
    /\ game = [l \in Launchers |-> "none"]
    /\ found = [l \in Launchers |-> NoDll]
    /\ excused = [l \in Launchers |-> FALSE]

Goes(l, from, to) == launcher[l] = from /\ launcher' = [launcher EXCEPT ![l] = to]

-----------------------------------------------------------------------------
(* translation.cfg.                                                        *)

Configuring == {"read", "create", "write", "launch"}

\* Nobody starts a launcher in the moment in which another one configures.
StartLauncher(l) ==
    /\ game[l] = "none" /\ \A o \in Launchers : launcher[o] \notin Configuring
    /\ Goes(l, "off", "read")
    /\ \E args \in CommandLines : line' = [line EXCEPT ![l] = args]
    /\ excused' = [excused EXCEPT ![l] = FALSE]
    /\ UNCHANGED <<cfg, dll, config, game, found, behind>>

\* Mutant of Configured: a setting that was not asked for is left as it is.
ConfiguredIfAsked(c, args) ==
    [k \in {i \in ConfigKeys : i \in DOMAIN c \/ Settings(args)[i] # ""} |->
        IF Settings(args)[k] # "" THEN Settings(args)[k] ELSE Value(c, k)]

\* The config after the setConfigs.  A value that was read keeps its line feed, so
\* that it differs from what it is set to and is always set anew.
Configured(c, args) ==
    [k \in {i \in ConfigKeys : i \in DOMAIN c \/ Settings(args)[i] # ""} |-> Settings(args)[k]]

\* When nothing is set, the file is left alone.
Configure(l, c) ==
    /\ config' = [config EXCEPT ![l] = Configured(c, line[l])]
    /\ Goes(l, "read", IF DOMAIN config'[l] = {} THEN "launch" ELSE "create")
    /\ UNCHANGED <<cfg, dll, line, game, found, behind>>

ReadConfig(l) == Configure(l, cfg) /\ UNCHANGED excused

Excuse(ls) == excused' = [l \in Launchers |-> excused[l] \/ l \in ls]

ReadConfigFails(l) == Configure(l, NoKeys) /\ Excuse({l})

CreateConfig(l) ==
    /\ Goes(l, "create", "write") /\ cfg' = NoKeys
    /\ Excuse({o \in Launchers : game[o] = "starting"})
    /\ UNCHANGED <<dll, line, config, game, found, behind>>

\* The order of a map's keys is any.
WriteLine(l) ==
    /\ launcher[l] = "write"
    /\ \E k \in DOMAIN config[l] \ DOMAIN cfg :
          cfg' = [i \in DOMAIN cfg \cup {k} |-> IF i = k THEN config[l][k] ELSE cfg[i]]
    /\ UNCHANGED <<dll, launcher, line, config, game, found, excused, behind>>

Discarded(l) == config' = [config EXCEPT ![l] = NoKeys]

Saved(l) ==
    /\ DOMAIN config[l] \subseteq DOMAIN cfg /\ Goes(l, "write", "launch") /\ Discarded(l)
    /\ UNCHANGED <<cfg, dll, line, game, found, excused, behind>>

SaveFails(l) ==
    /\ Goes(l, "create", "launch") \/ Goes(l, "write", "launch")
    /\ Excuse({l}) /\ Discarded(l)
    /\ UNCHANGED <<cfg, dll, line, game, found, behind>>

-----------------------------------------------------------------------------
(* The game and its DLL.                                                   *)

LaunchGame(l) ==
    /\ Goes(l, "launch", IF LoadDll(line[l]) THEN "dll" ELSE "wait")
    /\ game' = [game EXCEPT ![l] = "starting"]
    /\ UNCHANGED <<cfg, dll, line, config, found, excused, behind>>

LaunchGameFails(l) ==
    /\ Goes(l, "launch", "off") /\ excused' = [excused EXCEPT ![l] = FALSE]
    /\ UNCHANGED <<cfg, dll, line, config, game, found, behind>>

CreateDll(l) ==
    /\ Goes(l, "dll", "write dll") /\ dll' = "torn"
    /\ UNCHANGED <<cfg, line, config, game, found, excused, behind>>

WriteDll(l) ==
    /\ Goes(l, "write dll", "wait") /\ dll' = "whole"
    /\ UNCHANGED <<cfg, line, config, game, found, excused, behind>>

DllFails(l) ==
    /\ Goes(l, "dll", "wait") \/ Goes(l, "write dll", "wait")
    /\ UNCHANGED <<cfg, dll, line, config, game, found, excused, behind>>

\* Mutant of Wait: a DLL that was only injected for a key is forgotten.
WaitForItems(l) ==
    /\ game[l] = "none" /\ Goes(l, "wait", IF line[l].item THEN "remove" ELSE "off")
    /\ UNCHANGED <<cfg, dll, line, config, game, found, excused, behind>>

Wait(l) ==
    /\ game[l] = "none" /\ Goes(l, "wait", IF LoadDll(line[l]) THEN "remove" ELSE "off")
    /\ UNCHANGED <<cfg, dll, line, config, game, found, excused, behind>>

\* Fifteen seconds later.
RemoveDll(l) ==
    /\ Goes(l, "remove", "off") /\ dll' = "missing" /\ behind' = FALSE
    /\ UNCHANGED <<cfg, line, config, game, found, excused>>

RemoveDllFails(l) ==
    /\ Goes(l, "remove", "off") /\ behind' = (behind \/ dll # "missing")
    /\ UNCHANGED <<cfg, dll, line, config, game, found, excused>>

Injecting(l) == LoadDll(line[l]) /\ launcher[l] \in {"write dll", "wait", "remove"}

KillLauncher(l) ==
    /\ launcher[l] # "off" /\ launcher' = [launcher EXCEPT ![l] = "off"]
    /\ behind' = (behind \/ (dll # "missing" /\ Injecting(l))) /\ Discarded(l)
    /\ excused' = [excused EXCEPT ![l] = @ /\ game[l] # "none"]
    /\ UNCHANGED <<cfg, dll, line, game, found>>

GameLoads(l) ==
    /\ game[l] = "starting" /\ game' = [game EXCEPT ![l] = "running"]
    /\ found' = [found EXCEPT ![l] =
          IF dll = "whole" THEN [k \in ConfigKeys |-> Value(cfg, k)] ELSE NoDll]
    /\ UNCHANGED <<cfg, dll, launcher, line, config, excused, behind>>

GameEnds(l) ==
    /\ game[l] # "none" /\ game' = [game EXCEPT ![l] = "none"]
    /\ found' = [found EXCEPT ![l] = NoDll] /\ excused' = [excused EXCEPT ![l] = FALSE]
    /\ UNCHANGED <<cfg, dll, launcher, line, config, behind>>

Main(l) ==
    \/ StartLauncher(l) \/ ReadConfig(l) \/ ReadConfigFails(l)
    \/ CreateConfig(l) \/ WriteLine(l) \/ Saved(l) \/ SaveFails(l)
    \/ LaunchGame(l) \/ LaunchGameFails(l)
    \/ CreateDll(l) \/ WriteDll(l) \/ DllFails(l)
    \/ Wait(l) \/ RemoveDll(l) \/ RemoveDllFails(l) \/ KillLauncher(l)

LaunchNext == \E l \in Launchers : Main(l) \/ GameLoads(l) \/ GameEnds(l)

LaunchSpec == LaunchInit /\ [][LaunchNext]_launchVars

-----------------------------------------------------------------------------
(* Correctness.                                                            *)

\* A game that finds a DLL, even one that was left behind for another command line,
\* finds the settings of its own command line.
FoundIsAsked ==
    \A l \in Launchers :
        game[l] = "running" /\ ~excused[l] => found[l] \in {NoDll, Settings(line[l])}

\* ddraw.dll, which other programs that start the game would load, is only there while
\* a launcher waits that has asked for it, or is left behind.
DllIsWanted == dll = "missing" \/ behind \/ \E l \in Launchers : Injecting(l)

-----------------------------------------------------------------------------
(* The inductive invariant.                                                *)

SettingsIn == {""} \cup UNION {{Settings(args)[k] : k \in ConfigKeys} : args \in CommandLines}
Configs == UNION {[S -> SettingsIn] : S \in SUBSET ConfigKeys}
Stages == Configuring \cup {"off", "dll", "write dll", "wait", "remove"}
LaunchTypeOK ==
    /\ cfg \in Configs /\ dll \in {"missing", "torn", "whole"} /\ behind \in BOOLEAN
    /\ launcher \in [Launchers -> Stages]
    /\ line \in [Launchers -> CommandLines]
    /\ config \in [Launchers -> Configs]
    /\ game \in [Launchers -> {"none", "starting", "running"}]
    /\ found \in [Launchers -> [ConfigKeys -> SettingsIn] \cup {NoDll}]
    /\ excused \in [Launchers -> BOOLEAN]

\* The file, or what is to be saved, says what a command line asks for.
Says(c, args) == \A k \in ConfigKeys : Value(c, k) = Settings(args)[k]

\* One launcher configures at a time, before it has a game, and what it saves is what
\* it asks for; a game that starts finds that, unless it is excused.
LauncherFits(l) ==
    /\ launcher[l] \in Configuring =>
          /\ game[l] = "none"
          /\ \A o \in Launchers \ {l} : launcher[o] \notin Configuring
    /\ launcher[l] \in {"create", "write"} => Says(config[l], line[l])
    /\ launcher[l] = "write" =>
          /\ \A k \in DOMAIN cfg : k \in DOMAIN config[l] /\ cfg[k] = config[l][k]
          /\ \A o \in Launchers : game[o] = "starting" => excused[o]
    /\ (launcher[l] = "launch" \/ game[l] = "starting") /\ ~excused[l] => Says(cfg, line[l])
    /\ launcher[l] \in {"dll", "write dll", "remove"} => LoadDll(line[l])

LaunchInv ==
    /\ LaunchTypeOK
    /\ \A l \in Launchers : LauncherFits(l)
    /\ FoundIsAsked /\ DllIsWanted
=============================================================================
