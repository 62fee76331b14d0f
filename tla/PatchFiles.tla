----------------------------- MODULE PatchFiles -----------------------------
(***************************************************************************)
(* PatchFiles of trans/cmd/trans.go: how the archives of the game that a   *)
(* translation touches are rewritten.  The main goroutine hands archives   *)
(* to a pool of workers, as in DownloadPool.  A worker builds the new      *)
(* archive in a temporary file, moves the original to the backup path and  *)
(* the temporary file to its place.  A rename that fails (another volume,  *)
(* a file that Windows holds open) is replaced by a copy, which truncates  *)
(* the destination first.  The process may be killed anywhere and be run   *)
(* again; between runs DownloadChanges may fetch archives, whole or not.    *)
(*                                                                         *)
(* The output path is the game's own, as in pso2-download.  The archive    *)
(* format is outside src/: NewArchive may open an archive that is cut off, *)
(* and IsModified tells the archives that were rewritten from the others,  *)
(* cut off or not.                                                         *)
(***************************************************************************)
EXTENDS Integers, FiniteSets

CONSTANTS Archives,    \* the archives that the translation has strings for
          Parallel,    \* the size of the pool
          BackupModes, \* whether runs are given a backup path
          MaxRev,      \* bound: how many revisions of an archive are fetched
          NoArchive    \* the job of an idle worker

ASSUME ArchivesAssumption == IsFiniteSet(Archives) /\ NoArchive \notin Archives
ASSUME ParallelAssumption == Parallel \in Nat \ {0}
ASSUME BackupModesAssumption == BackupModes \subseteq BOOLEAN
ASSUME MaxRevAssumption == MaxRev \in [Archives -> Nat \ {0}]

Workers == 1 .. Parallel

VARIABLES
    \* Files, by archive: data/win32, the backup path, ioutil.TempFile.
    game, backup, temp,
    \* PatchFiles: its pc, its flag, the queue and the results.
    main, backups, unsent, joined, errs,
    worker, job,
    \* History: the revision fetched last; archives that were patched without a
    \* backup; archives whose original a failed fetch has cost; archives that were
    \* cut off before this run, or whose error this run has dropped.
    rev, unsaved, lost, excused

files == <<game, backup, temp>>
pool == <<main, backups, unsent, joined, worker, job>>
history == <<rev, unsaved, lost>>
vars == <<files, pool, errs, history, excused>>

\* An archive is SEGA's or patched, and either may be cut off: "cut" and "part".
NoFile == [rev |-> 0, form |-> "none"]
File == [rev : Nat, form : {"none", "original", "cut", "patched", "part"}]
Original(a) == [rev |-> rev[a], form |-> "original"]
Cut(a) == [rev |-> rev[a], form |-> "cut"]
CutOff(a) == game[a].form \in {"cut", "part"}

Stages == {"open", "temp", "write", "backup", "copyBackup", "install",
           "copyInstall", "remove"}

FilesOK ==
    /\ game \in [Archives -> File]
    /\ backup \in [Archives -> File]
    /\ temp \in [Archives -> File]
    /\ rev \in [Archives -> Nat]

WorkersOK ==
    /\ main \in {"off", "sending", "joining", "returned"}
    /\ backups \in BOOLEAN
    /\ unsent \subseteq Archives
    /\ worker \in [Workers -> Stages \cup {"idle", "left"}]
    /\ job \in [Workers -> Archives \cup {NoArchive}]

\* Every variable has its type: no more dones are received than there are workers.
TypeOK ==
    /\ FilesOK /\ WorkersOK
    /\ \A a \in Archives : rev[a] \in 1 .. MaxRev[a]
    /\ joined \in 0 .. Parallel
    /\ errs \cup unsaved \cup lost \cup excused \subseteq Archives

Init ==
    /\ rev = [a \in Archives |-> 1]
    /\ game = [a \in Archives |-> Original(a)]
    /\ backup = [a \in Archives |-> NoFile]
    /\ temp = [a \in Archives |-> NoFile]
    /\ main = "off" /\ backups \in BackupModes
    /\ unsent = {} /\ joined = 0
    /\ worker = [w \in Workers |-> "left"]
    /\ job = [w \in Workers |-> NoArchive]
    /\ errs = {} /\ unsaved = {} /\ lost = {} /\ excused = {}

-----------------------------------------------------------------------------
(* Between and around the runs.                                            *)

Stopped == main \in {"off", "returned"}

Start ==
    /\ Stopped /\ main' = "sending"
    /\ backups' \in BackupModes
    /\ unsent' = Archives /\ joined' = 0 /\ errs' = {}
    /\ worker' = [w \in Workers |-> "idle"]
    /\ job' = [w \in Workers |-> NoArchive]
    /\ excused' = {a \in Archives : CutOff(a)}
    /\ UNCHANGED <<files, history>>

\* Killed, or a panic in one worker (trans.go:127 when a string is nil).
\* Temporary files stay behind, and nobody looks for them.
Kill ==
    /\ ~Stopped /\ main' = "off"
    /\ unsent' = {} /\ joined' = 0
    /\ worker' = [w \in Workers |-> "left"]
    /\ job' = [w \in Workers |-> NoArchive]
    /\ temp' = [a \in Archives |-> NoFile]
    /\ errs' = {} /\ excused' = {}
    /\ UNCHANGED <<game, backup, backups, history>>

\* DownloadChanges fetches an archive, in a new revision or again, over what is there:
\* os.Create, then the copy, which may fail, be killed or not be what was listed.
Download(a) ==
    /\ Stopped
    /\ \E r \in {rev[a], rev[a] + 1} \cap 1 .. MaxRev[a], form \in {"original", "cut"} :
          /\ rev' = [rev EXCEPT ![a] = r]
          /\ game' = [game EXCEPT ![a] = [rev |-> r, form |-> form]]
          /\ lost' = IF form = "cut" /\ backup[a] # [rev |-> r, form |-> "original"]
                     THEN lost \cup {a} ELSE lost \ {a}
    /\ unsaved' = unsaved \ {a}
    /\ main' = "off" /\ joined' = 0 /\ errs' = {} /\ excused' = {}
    /\ UNCHANGED <<backup, temp, backups, unsent, worker, job>>

-----------------------------------------------------------------------------
(* A worker at an archive.                                                 *)

Go(w, from, to) ==
    /\ worker[w] = from
    /\ worker' = [worker EXCEPT ![w] = to]
    /\ job' = [job EXCEPT ![w] = IF to = "idle" THEN NoArchive ELSE @]

Complain(w) == errs' = errs \cup {job[w]}

rest == <<main, backups, unsent, joined, rev>>

\* A backup of what is cut off replaces the last original.
Overwritten(w) == lost' = IF game[job[w]].form = "cut" THEN lost \cup {job[w]} ELSE lost

Take(w, a) ==
    /\ main = "sending" /\ a \in unsent
    /\ worker[w] = "idle"
    /\ worker' = [worker EXCEPT ![w] = "open"]
    /\ job' = [job EXCEPT ![w] = a]
    /\ unsent' = unsent \ {a}
    /\ UNCHANGED <<files, main, backups, joined, errs, history, excused>>

\* Mutant of OpenFails: the worker leaves the pool without a done.
OpenFailsReturns(w) ==
    /\ Go(w, "open", "left")
    /\ Complain(w)
    /\ UNCHANGED <<files, rest, unsaved, lost, excused>>

\* OpenFile, NewArchive or QueryFiles.
OpenFails(w) ==
    /\ Go(w, "open", "idle")
    /\ Complain(w)
    /\ UNCHANGED <<files, rest, unsaved, lost, excused>>

\* The text files of the archive are translated in memory; one that cannot be
\* is complained about and left out.  No difference: nothing is written.
Translate(w) ==
    /\ \E to \in {"idle", "temp"} : Go(w, "open", to)
    /\ game[job[w]] # NoFile
    /\ Complain(w) \/ UNCHANGED errs
    /\ UNCHANGED <<files, rest, unsaved, lost, excused>>

CreateTemp(w) ==
    /\ Go(w, "temp", "write")
    /\ temp' = [temp EXCEPT ![job[w]] = [game[job[w]] EXCEPT !.form = "part"]]
    /\ UNCHANGED <<game, backup, rest, errs, unsaved, lost, excused>>

CreateTempFails(w) ==
    /\ Go(w, "temp", "idle")
    /\ Complain(w)
    /\ UNCHANGED <<files, rest, unsaved, lost, excused>>

IsModified(a) == game[a].form \in {"patched", "part"}

\* Mutant of BackingUp: archives that were patched before are backed up, too.
BackingUpAlways(a) == backups

BackingUp(a) == backups /\ ~IsModified(a)

AfterWrite(a) == IF BackingUp(a) THEN "backup" ELSE "install"

Write(w) ==
    /\ worker[w] = "write"
    /\ Go(w, "write", AfterWrite(job[w]))
    /\ temp' = [temp EXCEPT ![job[w]].form =
                   IF CutOff(job[w]) THEN "part" ELSE "patched"]
    /\ UNCHANGED <<game, backup, rest, errs, unsaved, lost, excused>>

\* archive.Write fails, and there is nothing to back up.
WriteFails(w) ==
    /\ Go(w, "write", "remove")
    /\ ~BackingUp(job[w])
    /\ Complain(w)
    /\ UNCHANGED <<files, rest, unsaved, lost, excused>>

\* The error of writer.Flush is dropped, and the one of archive.Write is
\* overwritten by the outcome of the backup.
WriteFailsUnnoticed(w) ==
    /\ worker[w] = "write"
    /\ Go(w, "write", AfterWrite(job[w]))
    /\ excused' = excused \cup {job[w]}
    /\ UNCHANGED <<files, rest, errs, unsaved, lost>>

RenameToBackup(w) ==
    /\ Go(w, "backup", "install")
    /\ backup' = [backup EXCEPT ![job[w]] = game[job[w]]]
    /\ game' = [game EXCEPT ![job[w]] = NoFile]
    /\ Overwritten(w)
    /\ UNCHANGED <<temp, rest, errs, unsaved, excused>>

\* CopyFile instead: os.Create, then the copy.
CreateBackup(w) ==
    /\ Go(w, "backup", "copyBackup")
    /\ backup' = [backup EXCEPT ![job[w]] = [game[job[w]] EXCEPT !.form = "cut"]]
    /\ Overwritten(w)
    /\ UNCHANGED <<game, temp, rest, errs, unsaved, excused>>

CopyToBackup(w) ==
    /\ Go(w, "copyBackup", "install")
    /\ backup' = [backup EXCEPT ![job[w]] = game[job[w]]]
    /\ UNCHANGED <<game, temp, rest, errs, unsaved, lost, excused>>

BackupFails(w) ==
    /\ Go(w, "backup", "remove") \/ Go(w, "copyBackup", "remove")
    /\ Complain(w)
    /\ UNCHANGED <<files, rest, unsaved, lost, excused>>

\* From here on the archive is patched, with or without a backup.
Patch(w, contents) ==
    /\ game' = [game EXCEPT ![job[w]] = contents]
    /\ unsaved' = IF ~backups /\ game[job[w]].form = "original" THEN unsaved \cup {job[w]}
                  ELSE unsaved

RenameToGame(w) ==
    /\ Go(w, "install", "idle")
    /\ Patch(w, temp[job[w]])
    /\ temp' = [temp EXCEPT ![job[w]] = NoFile]
    /\ UNCHANGED <<backup, rest, errs, lost, excused>>

CreateGame(w) ==
    /\ Go(w, "install", "copyInstall")
    /\ Patch(w, [temp[job[w]] EXCEPT !.form = "part"])
    /\ UNCHANGED <<backup, temp, rest, errs, lost, excused>>

CopyToGame(w) ==
    /\ Go(w, "copyInstall", "remove")
    /\ game' = [game EXCEPT ![job[w]] = temp[job[w]]]
    /\ UNCHANGED <<backup, temp, rest, errs, unsaved, lost, excused>>

\* Mutant of InstallFails: the error of the copy is not looked at.
InstallFailsUnnoticed(w) ==
    /\ Go(w, "install", "remove") \/ Go(w, "copyInstall", "remove")
    /\ UNCHANGED <<files, rest, errs, unsaved, lost, excused>>

InstallFails(w) ==
    /\ Go(w, "install", "remove") \/ Go(w, "copyInstall", "remove")
    /\ Complain(w)
    /\ UNCHANGED <<files, rest, unsaved, lost, excused>>

RemoveTemp(w) ==
    /\ Go(w, "remove", "idle")
    /\ temp' = [temp EXCEPT ![job[w]] = NoFile]
    /\ UNCHANGED <<game, backup, rest, errs, unsaved, lost, excused>>

-----------------------------------------------------------------------------
(* The end of the pool.                                                    *)

CloseQueue ==
    /\ main = "sending" /\ unsent = {}
    /\ main' = "joining"
    /\ UNCHANGED <<files, backups, unsent, joined, worker, job, errs, history, excused>>

\* Mutant of Join: a worker does not stop after its done.
JoinAgain(w) ==
    /\ main = "joining"
    /\ Go(w, "idle", "idle")
    /\ joined' = joined + 1
    /\ UNCHANGED <<files, main, backups, unsent, errs, history, excused>>

\* The worker finds the queue closed, and main receives its done.
Join(w) ==
    /\ main = "joining"
    /\ Go(w, "idle", "left")
    /\ joined' = joined + 1
    /\ UNCHANGED <<files, main, backups, unsent, errs, history, excused>>

Return ==
    /\ main = "joining" /\ joined = Parallel
    /\ main' = "returned"
    /\ UNCHANGED <<files, backups, unsent, joined, worker, job, errs, history, excused>>

Work(w) ==
    \/ \E a \in Archives : Take(w, a)
    \/ OpenFails(w) \/ Translate(w)
    \/ CreateTemp(w) \/ CreateTempFails(w)
    \/ Write(w) \/ WriteFails(w) \/ WriteFailsUnnoticed(w)
    \/ RenameToBackup(w) \/ CreateBackup(w) \/ CopyToBackup(w) \/ BackupFails(w)
    \/ RenameToGame(w) \/ CreateGame(w) \/ CopyToGame(w) \/ InstallFails(w)
    \/ RemoveTemp(w) \/ Join(w)

Next ==
    \/ Start \/ Kill \/ CloseQueue \/ Return
    \/ \E a \in Archives : Download(a)
    \/ \E w \in Workers : Work(w)

Fairness ==
    /\ WF_vars(CloseQueue) /\ WF_vars(Return)
    /\ \A w \in Workers : WF_vars(Work(w))

Spec == Init /\ [][Next]_vars /\ Fairness

-----------------------------------------------------------------------------
(* Correctness.                                                            *)

\* "Back up any files before patching them": whatever fails, and wherever a run
\* is killed, the archive as SEGA gave it last is in the game's directory or in
\* the backup path.  The exceptions: it was patched in a run without a backup; its
\* last fetch was cut off when no copy was in the backup path, or what was cut off
\* was then backed up over the copy.  Nor does an archive ever vanish from the game
\* without what it was being in the backup path.
Restorable ==
    \A a \in Archives :
        /\ a \in unsaved \cup lost \/ Original(a) \in {game[a], backup[a]}
        /\ game[a] = NoFile =>
              /\ backup[a] \in {Original(a), Cut(a)}
              /\ backup[a] = Original(a) \/ a \in lost

\* What SEGA gave is in the revision that was fetched last.
Fetched(a) ==
    /\ game[a].form \in {"original", "cut"} => game[a].rev = rev[a]
    /\ game[a].form = "none" => game[a] = NoFile

\* What a worker knows of the files of its archive, by where it stands.
AtWork(w) == worker[w] \in Stages
StageInv(w) ==
    /\ job[w] \in Archives \ unsent
    /\ worker[w] \in {"temp", "write", "backup", "copyBackup"} =>
          game[job[w]] # NoFile
    /\ worker[w] \in Stages \ {"open", "temp", "remove"} =>
          temp[job[w]].form \in {"patched", "part"}
    /\ worker[w] \in {"backup", "copyBackup"} => game[job[w]].form \in {"original", "cut"}
    /\ worker[w] = "copyBackup" => game[job[w]].form = "original" \/ job[w] \in lost
    /\ worker[w] = "install" /\ backups /\ game[job[w]].form = "original" =>
          backup[job[w]] = Original(job[w])
    /\ worker[w] = "copyInstall" => game[job[w]].form = "part"

\* The inductive invariant behind Restorable: an archive has one worker at most,
\* it touches the original only when a complete copy is elsewhere, and the pool
\* returns only when all its workers have left.
Left == {w \in Workers : worker[w] = "left"}
CrashSafe ==
    /\ FilesOK /\ WorkersOK /\ Restorable
    /\ \A a \in Archives : Fetched(a)
    /\ \A w \in Workers : AtWork(w) => StageInv(w)
    /\ \A v, w \in Workers : v # w /\ AtWork(v) /\ AtWork(w) => job[v] # job[w]
    /\ IF Stopped THEN \A w \in Workers : ~AtWork(w) ELSE joined = Cardinality(Left)

\* A run leaves the archives it does not complain about whole, and no temporary
\* file.  (Not the archives that were cut off before, which it may open and find
\* nothing to do for, and those whose write error it drops.)
WholeUnlessReported ==
    main = "returned" => \A a \in Archives :
        /\ temp[a] = NoFile
        /\ a \in errs \cup excused \/ game[a].form \in {"original", "patched"}

\* Whether an archive need not be looked at, or may be left as it is.
Excepted(a) == a \in errs \cup excused
WholeGame(a) == Excepted(a) \/ game[a].form \in {"original", "patched"}
WholeTemp(a) == Excepted(a) \/ temp[a].form = "patched"

\* What a worker has seen to, by where it stands.
SeenTo(w) ==
    /\ worker[w] \in {"open", "temp"} => temp[job[w]] = NoFile
    /\ worker[w] = "open" => Excepted(job[w]) \/ ~CutOff(job[w])
    /\ worker[w] \in {"temp", "write", "remove"} => WholeGame(job[w])
    /\ worker[w] \in {"backup", "copyBackup", "install", "copyInstall"} => WholeTemp(job[w])

\* The inductive invariant behind WholeUnlessReported: an archive that no worker
\* is at was handed out and is whole, or waits and is not cut off.
WholeInv ==
    /\ TypeOK /\ WholeUnlessReported
    /\ main = "joining" => unsent = {}
    /\ Stopped => \A a \in Archives : temp[a] = NoFile
    /\ \A w \in Workers : AtWork(w) => SeenTo(w)
    /\ ~Stopped => \A a \in Archives :
          \/ \E w \in Workers : AtWork(w) /\ job[w] = a
          \/ /\ temp[a] = NoFile
             /\ IF a \in unsent THEN Excepted(a) \/ ~CutOff(a) ELSE WholeGame(a)

\* PatchFiles returns: unlike DownloadChanges' workers, these leave the pool
\* only when the queue is closed.
Returns == main = "sending" ~> main \in {"returned", "off"}
=============================================================================
