------------------------------- MODULE Updater -------------------------------
(***************************************************************************)
(* Runs of pso2-download, one after the other, over the files they leave   *)
(* on disk (cmd/pso2-download/download.go, download/cmd/download.go,       *)
(* download/patchlist.go).  A run can be killed between any two steps, any *)
(* request can fail, and SEGA and the translators publish while it runs.   *)
(*                                                                         *)
(* A patch list is a function from files to revisions: its EntryMap.  A    *)
(* file's revision stands for the pair of size and MD5 that its entry      *)
(* holds; different revisions have different sizes.  The pool of workers   *)
(* is DownloadPool; here a change is downloaded or fails, one at a time.   *)
(* The workers of PatchFiles (module PatchFiles) take the steps that change *)
(* data/win32, in any order; the translations of -t are taken as one.      *)
(* The version-installed.ver copy is only ever printed, and the launcher   *)
(* list names files outside data/win32: neither is modelled.               *)
(***************************************************************************)
EXTENDS Naturals, FiniteSets

CONSTANTS
    Files,          \* the files of data/win32
    Translatable,   \* those that the english patches modify
    Listed,         \* patches/patchlist.txt of each published version
    ListedOld,      \* patches_old/patchlist.txt of each published version
    FlagSets,       \* the command lines in use, each a set of flags
    NoList          \* Go's nil *PatchList, or a file that does not exist

Versions == DOMAIN Listed
Revisions == UNION { {Listed[v][f] : f \in DOMAIN Listed[v]} \cup
                     {ListedOld[v][f] : f \in DOMAIN ListedOld[v]} : v \in Versions }
PatchLists == UNION {[S -> Revisions] : S \in SUBSET Files}
Flags == {"a", "b", "c", "h", "d", "u", "g", "t"}

MergeOld(p, po) ==   \* an entry of p shadows the old one
    [f \in DOMAIN p \cup DOMAIN po |-> IF f \in DOMAIN p THEN p[f] ELSE po[f]]

Published == [v \in Versions |-> MergeOld(Listed[v], ListedOld[v])]

\* A list of version v gives file f revision r.
Gives(v, f, r) ==
    \/ f \in DOMAIN Listed[v] /\ Listed[v][f] = r
    \/ f \in DOMAIN ListedOld[v] /\ ListedOld[v][f] = r

ASSUME FlagsAssumption == FlagSets \subseteq SUBSET Flags
ASSUME TranslatableAssumption == Translatable \subseteq Files
ASSUME ListsAssumption ==
    /\ Cardinality(Versions) \in Nat \ {0} /\ Versions = 1 .. Cardinality(Versions)
    /\ DOMAIN ListedOld = Versions
    /\ \A v \in Versions : Listed[v] \in PatchLists /\ ListedOld[v] \in PatchLists
    /\ NoList \notin PatchLists

\* SEGA publishes no revision again that it has withdrawn, and no file that was
\* in an old list gets a new revision in a main one.
ASSUME PublishingAssumption ==
    \A u, v \in Versions, f \in Files : u <= v =>
        /\ \A w \in Versions : v <= w /\ f \in DOMAIN Published[w] /\ Gives(u, f, Published[w][f]) =>
              f \in DOMAIN Published[v] /\ Published[v][f] = Published[w][f]
        /\ f \in DOMAIN ListedOld[u] \cap DOMAIN Listed[v] => ListedOld[u][f] = Listed[v][f]

NoVersion == 0   \* the empty string

VARIABLES
    \* The world: what is published, and what english.db on disk is compared
    \* with the published one.
    server, english,
    \* Files in pso2_bin/download, and the game's own.
    patchFile, oldFile, version, instFile, disk,
    \* The current run: its pc and the variables of main.
    pc, flags, netVersion, needsTranslation, patchlist, patchlistOld,
    installed, changes, failed,
    \* PatchFiles: the archives that are not dealt with yet, and what was built of
    \* them in temporary files.
    unpatched, temp,
    \* History: this run has met no failure and nothing was published during
    \* it; the game files carry the translations of english.db; files pruned
    \* although the published list names them; files that a failed download
    \* has spoiled in a run with -a, and no later one has fetched; archives that
    \* PatchFiles has left missing or cut off (or has not installed yet), and no
    \* later download has touched.
    clean, patched, lost, damaged, spoiled

world == <<server, english>>
lists == <<patchFile, oldFile, version, instFile>>
locals == <<flags, netVersion, needsTranslation, patchlist, patchlistOld,
            installed, changes, failed>>
gameFiles == <<disk, unpatched, temp>>
history == <<clean, patched, lost, damaged, spoiled>>
vars == <<world, lists, gameFiles, pc, locals, history>>

Forms == {"intact", "translated", "short", "corrupt", "missing"}
Missing == [rev |-> 0, form |-> "missing"]
Whole(file) == file.form \notin {"missing", "short"}
FileStates == [rev : Revisions, form : Forms \ {"missing"}] \cup {Missing}
PCs == {"off", "version", "english", "englishCopy", "load",
        "fetchList", "fetchOld", "writeList", "writeOld", "writeVersion",
        "diff", "download", "commit", "committing", "prune", "translate", "patch", "done"}

\* Every variable has its type: the lists on disk name files and revisions that were
\* published, and a file is in one of its forms.
TypeOK ==
    /\ server \in Versions
    /\ english \in {"none", "current", "outdated", "broken"}
    /\ {patchFile, oldFile, instFile} \subseteq PatchLists \cup {NoList}
    /\ version \in Versions \cup {NoVersion}
    /\ disk \in [Files -> FileStates]
    /\ pc \in PCs
    /\ flags \in FlagSets \cup {{}}
    /\ netVersion \in Versions \cup {NoVersion}
    /\ {needsTranslation, failed, clean, patched} \subseteq BOOLEAN
    /\ {patchlist, patchlistOld, installed} \subseteq PatchLists \cup {NoList}
    /\ changes \subseteq Files
    /\ unpatched \subseteq Files /\ temp \in [Files -> FileStates]
    /\ lost \subseteq Files /\ damaged \subseteq Files /\ spoiled \subseteq Files

-----------------------------------------------------------------------------
(* Patch lists.                                                            *)

\* A list in a file that is being written, or was being written when the run
\* was killed: any part of it (the parser skips a torn line).
Torn(l) == {[f \in S |-> l[f]] : S \in SUBSET DOMAIN l}

Diff(p, po) ==
    IF po = NoList THEN DOMAIN p
    ELSE {f \in DOMAIN p : f \notin DOMAIN po \/ p[f] # po[f]}

-----------------------------------------------------------------------------
ResetLocals ==
    /\ flags' = {} /\ netVersion' = NoVersion /\ needsTranslation' = FALSE
    /\ patchlist' = NoList /\ patchlistOld' = NoList /\ installed' = NoList
    /\ changes' = {} /\ failed' = FALSE
    /\ unpatched' = {} /\ temp' = [f \in Files |-> Missing]

Init ==
    /\ server = 1 /\ english = "none"
    /\ patchFile = NoList /\ oldFile = NoList /\ version = NoVersion
    /\ instFile = NoList
    /\ disk = [f \in Files |-> Missing]
    /\ pc = "off"
    /\ flags = {} /\ netVersion = NoVersion /\ needsTranslation = FALSE
    /\ patchlist = NoList /\ patchlistOld = NoList /\ installed = NoList
    /\ changes = {} /\ failed = FALSE
    /\ unpatched = {} /\ temp = [f \in Files |-> Missing]
    /\ clean = TRUE /\ patched = FALSE /\ lost = {} /\ damaged = {} /\ spoiled = {}

Go(from, to) == pc = from /\ pc' = to

Start ==
    /\ pc \in {"off", "done"} /\ pc' = "version"
    /\ \E fl \in FlagSets : flags' = fl
    /\ netVersion' = NoVersion /\ needsTranslation' = FALSE
    /\ patchlist' = NoList /\ patchlistOld' = NoList /\ installed' = NoList
    /\ changes' = {} /\ failed' = FALSE
    /\ clean' = TRUE
    /\ UNCHANGED <<world, lists, gameFiles, patched, lost, damaged, spoiled>>

\* The run is killed, or ends in ragequit.
Stop ==
    /\ pc \notin {"off", "done"} /\ pc' = "off"
    /\ ResetLocals
    /\ UNCHANGED <<world, lists, disk, history>>

FetchVersion ==
    /\ Go("version", "english")
    /\ netVersion' = server
    /\ UNCHANGED <<world, lists, gameFiles, flags, needsTranslation, patchlist,
                   patchlistOld, installed, changes, failed, history>>

\* complain, and go on without it.
FetchVersionFails ==
    /\ Go("version", "english")
    /\ clean' = FALSE
    /\ UNCHANGED <<world, lists, gameFiles, locals, patched, lost, damaged, spoiled>>

\* DownloadEnglishFiles: english.db is fetched when there is none or when its
\* modification time is older than the published timestamp.
EnglishUpToDate ==
    /\ english \in {"current", "broken"}
    /\ Go("english", "load")
    /\ UNCHANGED <<world, lists, gameFiles, locals, history>>

EnglishFails ==
    /\ Go("english", "load")
    /\ clean' = FALSE
    /\ UNCHANGED <<world, lists, gameFiles, locals, patched, lost, damaged, spoiled>>

\* os.Create: from now on the file is newer than the timestamp.
EnglishCreate ==
    /\ english \in {"none", "outdated"}
    /\ Go("english", "englishCopy")
    /\ english' = "broken" /\ patched' = FALSE
    /\ UNCHANGED <<server, lists, gameFiles, locals, clean, lost, damaged, spoiled>>

\* translationChanged is true even if the copy, or one of the two other files
\* that are fetched the same way, fails.
EnglishCopy ==
    /\ Go("englishCopy", "load")
    /\ needsTranslation' = TRUE
    /\ english' \in {"current", "broken"}
    /\ clean' \in {clean /\ english' = "current", FALSE}
    /\ UNCHANGED <<server, lists, gameFiles, flags, netVersion, patchlist,
                   patchlistOld, installed, changes, failed, patched, lost, damaged, spoiled>>

\* Mutant of LoadPatchlist: the old list is never merged in.
LoadPatchlistUnmerged == patchFile

\* LoadPatchlist gives the list unmerged if patchlist-old.txt does not exist,
\* and main looks at the list only.
LoadPatchlist ==
    IF patchFile = NoList \/ oldFile = NoList THEN patchFile
    ELSE MergeOld(patchFile, oldFile)

\* Mutant of MustFetch: the version of the lists on disk is not compared.
MustFetchOnce == "u" \in flags \/ LoadPatchlist = NoList

MustFetch ==
    \/ "u" \in flags
    \/ netVersion \notin {NoVersion, version}
    \/ LoadPatchlist = NoList

Load ==
    /\ Go("load", IF MustFetch THEN "fetchList" ELSE "diff")
    /\ patchlist' = LoadPatchlist
    /\ installed' = IF "a" \in flags THEN NoList ELSE instFile
    /\ needsTranslation' = (needsTranslation \/ "a" \in flags)
    /\ UNCHANGED <<world, lists, gameFiles, flags, netVersion, patchlistOld,
                   changes, failed, history>>

-----------------------------------------------------------------------------
(* DownloadPatchlist.  A failed request is ragequit: Stop.                 *)

\* Mutant of FetchList: version.ver is written before the lists are.
FetchListVersioned ==
    /\ Go("fetchList", "fetchOld")
    /\ patchlist' = Listed[server]
    /\ version' = netVersion
    /\ UNCHANGED <<world, patchFile, oldFile, instFile, gameFiles, flags, netVersion,
                   needsTranslation, patchlistOld, installed, changes, failed, history>>

FetchList ==
    /\ Go("fetchList", "fetchOld")
    /\ patchlist' = Listed[server]
    /\ UNCHANGED <<world, lists, gameFiles, flags, netVersion, needsTranslation,
                   patchlistOld, installed, changes, failed, history>>

FetchOld ==
    /\ Go("fetchOld", "writeList")
    /\ patchlistOld' = ListedOld[server]
    /\ patchFile' \in Torn(patchlist)
    /\ UNCHANGED <<world, oldFile, version, instFile, gameFiles, flags, netVersion,
                   needsTranslation, patchlist, installed, changes, failed,
                   history>>

WriteList ==
    /\ Go("writeList", "writeOld")
    /\ patchFile' = patchlist
    /\ oldFile' \in Torn(patchlistOld)
    /\ UNCHANGED <<world, version, instFile, gameFiles, locals, history>>

WriteOld ==
    /\ Go("writeOld", "writeVersion")
    /\ oldFile' = patchlistOld
    /\ patchlist' = MergeOld(patchlist, patchlistOld)
    /\ patchlistOld' = NoList
    /\ version' = NoVersion
    /\ UNCHANGED <<world, patchFile, instFile, gameFiles, flags, netVersion,
                   needsTranslation, installed, changes, failed, history>>

WriteVersion ==
    /\ Go("writeVersion", "diff")
    /\ version' = netVersion
    /\ UNCHANGED <<world, patchFile, oldFile, instFile, gameFiles, locals, history>>

-----------------------------------------------------------------------------
(* Which files to download.                                                *)

SameSize(f, r) == disk[f].rev = r /\ disk[f].form \in {"intact", "corrupt"}
SameHash(f, r) == disk[f] = [rev |-> r, form |-> "intact"]

\* Mutant of CheckFiles: -h is forgotten.
CheckFilesBySize(fs) == {f \in fs : ~SameSize(f, patchlist[f])}

CheckFiles(fs) ==
    {f \in fs : \/ ~SameSize(f, patchlist[f])
                \/ "h" \in flags /\ ~SameHash(f, patchlist[f])}

\* -h implies -c, and so does the lack of an installed list.
Checking == flags \cap {"c", "h"} # {} \/ installed = NoList

FindChanges ==
    /\ pc = "diff"
    /\ LET diff == Diff(patchlist, installed)
           check == Checking /\ diff # {}
           found == IF check THEN CheckFiles(diff) ELSE diff
       IN  /\ changes' = IF "d" \in flags THEN found ELSE {}
           /\ pc' = IF check /\ found = {} THEN "commit"
                    ELSE IF "d" \in flags /\ found # {} THEN "download"
                    ELSE "prune"
    /\ UNCHANGED <<world, lists, gameFiles, flags, netVersion, needsTranslation,
                       patchlist, patchlistOld, installed, failed, history>>

-----------------------------------------------------------------------------
(* DownloadChanges, an entry at a time, and CommitInstalled.               *)

Available(f) ==
    f \in DOMAIN Published[server] /\ Published[server][f] = patchlist[f]

Download(f) ==
    /\ pc = "download" /\ f \in changes /\ Available(f)
    /\ disk' = [disk EXCEPT ![f] = [rev |-> patchlist[f], form |-> "intact"]]
    /\ changes' = changes \ {f}
    /\ patched' = FALSE
    /\ lost' = lost \ {f} /\ damaged' = damaged \ {f} /\ spoiled' = spoiled \ {f}
    /\ UNCHANGED <<world, lists, pc, flags, netVersion, needsTranslation,
                   patchlist, patchlistOld, installed, failed, unpatched, temp, clean>>

\* Refused before the file is touched, or written but cut off, corrupted or of
\* another revision than the list says: its hash does not match.
DownloadFails(f) ==
    /\ pc = "download" /\ f \in changes
    /\ \/ UNCHANGED <<disk, patched, damaged, spoiled>>
       \/ /\ f \in DOMAIN Published[server]
          /\ \E form \in {"intact", "short", "corrupt"} :
                /\ form = "intact" => ~Available(f)
                /\ disk' = [disk EXCEPT ![f] = [rev |-> Published[server][f],
                                               form |-> form]]
          /\ damaged' = IF "a" \in flags THEN damaged \cup {f} ELSE damaged
          /\ spoiled' = spoiled \ {f}
          /\ patched' = FALSE
    /\ changes' = changes \ {f}
    /\ failed' = TRUE /\ clean' = FALSE
    /\ UNCHANGED <<world, lists, pc, flags, netVersion, needsTranslation,
                   patchlist, patchlistOld, installed, unpatched, temp, lost>>

\* Mutant of DownloadDone: the list is committed although a download failed.
DownloadDoneAnyway ==
    /\ changes = {}
    /\ Go("download", "commit")
    /\ needsTranslation' = TRUE
    /\ UNCHANGED <<world, lists, gameFiles, flags, netVersion, patchlist,
                   patchlistOld, installed, changes, failed, history>>

DownloadDone ==
    /\ changes = {}
    /\ Go("download", IF failed THEN "prune" ELSE "commit")
    /\ needsTranslation' = (needsTranslation \/ ~failed)
    /\ UNCHANGED <<world, lists, gameFiles, flags, netVersion, patchlist,
                   patchlistOld, installed, changes, failed, history>>

CommitCreate ==
    /\ Go("commit", "committing")
    /\ instFile' \in Torn(patchlist)
    /\ UNCHANGED <<world, patchFile, oldFile, version, gameFiles, locals, history>>

CommitWrite ==
    /\ Go("committing", "prune")
    /\ instFile' = patchlist
    /\ UNCHANGED <<world, patchFile, oldFile, version, gameFiles, locals, history>>

\* Nobody looks at the error.
CommitFails ==
    /\ \/ Go("commit", "prune") \/ Go("committing", "prune")
    /\ clean' = FALSE
    /\ UNCHANGED <<world, lists, gameFiles, locals, patched, lost, damaged, spoiled>>

-----------------------------------------------------------------------------
(* PruneFiles and the translation.                                         *)

Prune(f) ==
    /\ pc = "prune" /\ "g" \in flags
    /\ disk[f] # Missing /\ f \notin DOMAIN patchlist
    /\ disk' = [disk EXCEPT ![f] = Missing]
    /\ lost' = IF f \in DOMAIN Published[server] THEN lost \cup {f} ELSE lost
    /\ UNCHANGED <<world, lists, pc, locals, unpatched, temp, clean, patched, damaged, spoiled>>

PruneDone ==
    /\ pc = "prune"
    /\ "g" \in flags => \A f \in Files : disk[f] = Missing \/ f \in DOMAIN patchlist
    /\ pc' = IF needsTranslation /\ "t" \in flags THEN "translate" ELSE "done"
    /\ UNCHANGED <<world, lists, gameFiles, locals, history>>

\* A directory that cannot be read or a file that cannot be removed ends it.
PruneFails ==
    /\ pc = "prune" /\ "g" \in flags
    /\ pc' = IF needsTranslation /\ "t" \in flags THEN "translate" ELSE "done"
    /\ clean' = FALSE
    /\ UNCHANGED <<world, lists, gameFiles, locals, patched, lost, damaged, spoiled>>

QueryArchives ==
    /\ english \in {"current", "outdated"}
    /\ Go("translate", "patch")
    /\ unpatched' = Translatable
    /\ UNCHANGED <<world, lists, disk, temp, locals, history>>

InHand(f) == pc = "patch" /\ f \in unpatched

\* A worker builds the translated archive.  One that was cut off stays so, and a write
\* whose error is dropped cuts it off.
Translate(f) ==
    /\ InHand(f) /\ disk[f] # Missing /\ temp[f] = Missing
    /\ \E form \in IF Whole(disk[f]) THEN {"translated", "short"} ELSE {"short"} :
          temp' = [temp EXCEPT ![f] = [rev |-> disk[f].rev, form |-> form]]
    /\ UNCHANGED <<world, lists, disk, pc, locals, unpatched, history>>

\* It finds nothing to translate.
Skip(f) ==
    /\ InHand(f) /\ temp[f] = Missing
    /\ disk[f].form \in {"translated", "corrupt", "short"}
    /\ unpatched' = unpatched \ {f}
    /\ UNCHANGED <<world, lists, disk, pc, locals, temp, history>>

Put(f, file) ==
    /\ disk' = [disk EXCEPT ![f] = file]
    /\ spoiled' = IF Whole(file) THEN spoiled \ {f}
                  ELSE IF Whole(disk[f]) THEN spoiled \cup {f} ELSE spoiled
    /\ UNCHANGED <<world, lists, pc, locals, clean, patched, lost, damaged>>

\* With -b an archive that was not modified is renamed to the backup path (or copied,
\* which leaves it where it is).
MoveToBackup(f) ==
    /\ InHand(f) /\ temp[f] # Missing
    /\ "b" \in flags /\ disk[f].form \in {"intact", "corrupt", "short"}
    /\ Put(f, Missing)
    /\ UNCHANGED <<unpatched, temp>>

\* CopyFile, when the temporary file cannot be renamed: os.Create.
Truncate(f) ==
    /\ InHand(f) /\ temp[f] # Missing
    /\ Put(f, [rev |-> temp[f].rev, form |-> "short"])
    /\ UNCHANGED <<unpatched, temp>>

\* The rename, or the end of the copy.
Install(f) ==
    /\ InHand(f) /\ temp[f] # Missing
    /\ Put(f, temp[f])
    /\ unpatched' = unpatched \ {f}
    /\ temp' = [temp EXCEPT ![f] = Missing]

TranslateDone ==
    /\ Go("patch", "done") /\ unpatched = {}
    /\ patched' = TRUE
    /\ UNCHANGED <<world, lists, gameFiles, locals, clean, lost, damaged, spoiled>>

\* MkdirAll or a query, or what the workers complain about: each archive that is not
\* dealt with stays as its worker has left it, and one that is may lack some texts.
TranslateFails ==
    /\ \/ Go("translate", "done") /\ english \in {"current", "outdated"}
       \/ Go("patch", "done")
    /\ unpatched' = {} /\ temp' = [f \in Files |-> Missing]
    /\ clean' = FALSE
    /\ UNCHANGED <<world, lists, disk, locals, patched, lost, damaged, spoiled>>

\* No english.db, or one that holds no such translation: NewDatabase creates
\* the file if there is none, and nothing is translated.
TranslateWithout ==
    /\ english \in {"none", "broken"}
    /\ Go("translate", "done")
    /\ english' = "broken"
    /\ clean' = FALSE
    /\ UNCHANGED <<server, lists, gameFiles, locals, patched, lost, damaged, spoiled>>

-----------------------------------------------------------------------------
(* The world.                                                              *)

Publish ==
    /\ server + 1 \in Versions
    /\ server' = server + 1
    /\ clean' = FALSE
    /\ UNCHANGED <<english, lists, gameFiles, pc, locals, patched, lost, damaged, spoiled>>

PublishEnglish ==
    /\ english \in {"current", "broken"}
    /\ english' = "outdated"
    /\ clean' = FALSE
    /\ UNCHANGED <<server, lists, gameFiles, pc, locals, patched, lost, damaged, spoiled>>

Next ==
    \/ Start \/ Stop
    \/ FetchVersion \/ FetchVersionFails
    \/ EnglishUpToDate \/ EnglishFails \/ EnglishCreate \/ EnglishCopy
    \/ Load \/ FetchList \/ FetchOld \/ WriteList \/ WriteOld \/ WriteVersion
    \/ FindChanges
    \/ \E f \in Files : Download(f) \/ DownloadFails(f) \/ Prune(f)
    \/ DownloadDone \/ CommitCreate \/ CommitWrite \/ CommitFails
    \/ PruneDone \/ PruneFails \/ QueryArchives
    \/ \E f \in Files : Translate(f) \/ Skip(f) \/ MoveToBackup(f) \/ Truncate(f) \/ Install(f)
    \/ TranslateDone \/ TranslateFails \/ TranslateWithout
    \/ Publish \/ PublishEnglish

Spec == Init /\ [][Next]_vars

-----------------------------------------------------------------------------
(* Correctness.                                                            *)

\* The published revision, at least by size: what the quick check accepts.
UpToDate(f) ==
    disk[f].rev = Published[server][f] /\ Whole(disk[f])

\* The installed list vouches for no file that is missing, cut off or of
\* another revision, unless the next Diff will name it: whatever failed or was
\* cut short, the next run sees what is left to do.  (Three exceptions: files
\* pruned by mistake, files damaged in a run with -a, and archives that PatchFiles
\* has left missing or cut off, which it does without withdrawing the list.)
InstalledIsHonest ==
    instFile # NoList =>
        \A f \in (DOMAIN instFile \cap DOMAIN Published[server]) \ (lost \cup damaged \cup spoiled) :
            instFile[f] = Published[server][f] => UpToDate(f)

\* A run with -d that meets no failure brings the game up to date, after any
\* number of runs that failed or were killed anywhere.  (Same exceptions.)
CleanRunUpdates ==
    pc = "done" /\ clean /\ "d" \in flags =>
        \A f \in DOMAIN Published[server] \ (lost \cup damaged \cup spoiled) : UpToDate(f)

\* "Revert your pso2 installation to an original, unpatched state": -h -a -d
\* restores every published file, whatever was on disk before.
RevertRestores ==
    pc = "done" /\ clean /\ {"a", "h", "d"} \subseteq flags /\ "t" \notin flags =>
        \A f \in DOMAIN Published[server] :
            disk[f] = [rev |-> Published[server][f], form |-> "intact"]

\* A run that meets no failure prunes no file that the game needs.
CleanPruneIsSafe == [][clean /\ pc = "prune" => lost' \subseteq lost]_vars

\* CleanRunUpdates without the exception for files damaged in a run with -a.
CleanRunRepairs ==
    pc = "done" /\ clean /\ "d" \in flags =>
        \A f \in DOMAIN Published[server] \ (lost \cup spoiled) : UpToDate(f)

\* A run with -d and -t that meets no failure leaves the game translated with
\* the english.db it has.
PatchesKeptUpToDate ==
    pc = "done" /\ clean /\ {"d", "t"} \subseteq flags => patched

-----------------------------------------------------------------------------
(* The inductive invariant.                                                *)

Names(l) == IF l = NoList THEN {} ELSE DOMAIN l

\* List l gives file f the revision that is published as of version v, or another one.
Fresh(l, f, v) ==
    f \in Names(l) \cap DOMAIN Published[v] /\ l[f] = Published[v][f]
Stale(l, f, v) == f \in Names(l) /\ ~Fresh(l, f, v)

\* Where the entries of a list come from that was fetched up to version v.
FromMain(l, v) ==
    \A f \in Names(l) : \E u \in Versions :
        u <= v /\ f \in DOMAIN Listed[u] /\ l[f] = Listed[u][f]
FromOld(l, v) ==
    \A f \in Names(l) : \E u \in Versions :
        u <= v /\ f \in DOMAIN ListedOld[u] /\ l[f] = ListedOld[u][f]
FromEither(l, v) ==
    \A f \in Names(l) : \E u \in Versions : u <= v /\ Gives(u, f, l[f])
Sources ==
    /\ FromMain(patchFile, server) /\ FromOld(oldFile, server)
    /\ FromOld(patchlistOld, server)
    /\ FromEither(patchlist, server) /\ FromEither(instFile, server)

\* No list is behind the installed one: what that gives a file is replaced in the
\* others only by what was published later.
InstalledNotAhead ==
    \A f \in Files : Fresh(instFile, f, server) =>
        /\ ~Stale(patchFile, f, server) /\ ~Stale(oldFile, f, server)
        /\ ~Stale(patchlist, f, server) /\ ~Stale(patchlistOld, f, server)

Fetching == {"fetchList", "fetchOld", "writeList", "writeOld", "writeVersion"}
Deciding == {"diff", "download", "commit", "committing"}
Ending == {"prune", "translate", "patch", "done"}

\* What the variables of main hold, by where it stands.
LocalsFit ==
    /\ pc \in {"fetchOld", "writeList", "writeOld"} =>
          patchlist # NoList /\ FromMain(patchlist, server)
    /\ IF pc \in {"writeList", "writeOld"} THEN patchlistOld # NoList ELSE patchlistOld = NoList
    /\ pc = "writeOld" => patchFile = patchlist
    /\ pc \in {"writeVersion"} \cup Deciding \cup Ending =>
          patchlist # NoList /\ patchlist = LoadPatchlist
    /\ pc \in Fetching \cup {"diff", "download"} =>
          installed = IF "a" \in flags THEN NoList ELSE instFile
    /\ pc = "download" => changes \subseteq Diff(patchlist, installed)
    /\ pc # "download" => changes = {}

\* What was compared or downloaded is as the list in memory says.
Settled ==
    \A f \in Names(patchlist) \ (lost \cup damaged \cup spoiled \cup changes) :
        Fresh(patchlist, f, server) => UpToDate(f)

\* What PatchFiles has built of a file that list l is right about is of its revision.
BuiltFrom(l) ==
    \A f \in Names(l) \ (lost \cup damaged) :
        Fresh(l, f, server) /\ Whole(temp[f]) => temp[f].rev = Published[server][f]

\* A temporary file is that of an archive at work, and what is spoiled is not whole.
WorkersFit ==
    \A f \in Files :
        /\ temp[f] # Missing => pc = "patch" /\ f \in unpatched
        /\ f \in spoiled => ~Whole(disk[f])

\* The inductive invariant behind InstalledIsHonest.
HonestInv ==
    /\ TypeOK /\ InstalledIsHonest /\ BuiltFrom(instFile)
    /\ WorkersFit
    /\ Sources /\ InstalledNotAhead /\ LocalsFit
    /\ (pc = "download" /\ ~failed) \/ pc \in {"commit", "committing"} => Settled

\* version.ver vouches for the lists on disk, and what main fetches meanwhile is of the
\* version it has asked for, unless another one was published since.
VersionsFit ==
    /\ version <= server /\ netVersion <= server
    /\ netVersion # NoVersion => version <= netVersion
    /\ version = server => patchFile = Listed[server] /\ oldFile = ListedOld[server]
    /\ pc \in Fetching => version # server
    /\ netVersion = server =>
          /\ pc \in {"fetchOld", "writeList", "writeOld"} => patchlist = Listed[server]
          /\ pc \in {"writeList", "writeOld"} => patchlistOld = ListedOld[server]
          /\ pc = "writeVersion" => patchFile = Listed[server] /\ oldFile = ListedOld[server]
          /\ pc \in Deciding \cup Ending => patchlist = Published[server]

\* What a run that has met no failure has seen to.
Compared == {"download", "commit", "committing"} \cup Ending
CleanFits ==
    /\ pc \notin {"off", "version"} => netVersion = server
    /\ ~failed
    /\ "d" \in flags /\ pc \in Compared => Settled /\ BuiltFrom(patchlist)
    /\ {"a", "h", "d"} \subseteq flags /\ pc \in Compared =>
          \/ "t" \in flags
          \/ \A f \in Names(patchlist) \ changes : SameHash(f, patchlist[f])

\* The inductive invariant behind CleanRunUpdates, RevertRestores and CleanPruneIsSafe,
\* of runs without -u.
CleanInv ==
    /\ HonestInv /\ VersionsFit
    /\ pc \in {"translate", "patch"} => "t" \in flags
    /\ clean => CleanFits
=============================================================================
