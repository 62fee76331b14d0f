-------------------------- MODULE PatchFilesProofs --------------------------
(* Proofs about PatchFiles, for every set of archives, size of the pool and *)
(* number of revisions.                                                     *)
EXTENDS PatchFiles, FiniteSetTheorems, TLAPS

LEMMA LeftFinite ==
    /\ IsFiniteSet(Workers) /\ Cardinality(Workers) = Parallel
    /\ IsFiniteSet(Left) /\ Cardinality(Left) \in Nat
  <1>1. IsFiniteSet(Workers) /\ Cardinality(Workers) = Parallel
    BY ParallelAssumption, FS_Interval DEF Workers
  <1>2. Left \subseteq Workers
    BY DEF Left
  <1> QED
    BY <1>1, <1>2, FS_Subset, FS_CardinalityType

LEMMA InitEstablishes == Init => CrashSafe
  <1> SUFFICES ASSUME Init PROVE CrashSafe
    OBVIOUS
  <1>1. FilesOK /\ WorkersOK
    BY BackupModesAssumption DEF Init, FilesOK, WorkersOK, File, NoFile, Original
  <1>2. \A a \in Archives : game[a] = Original(a) /\ game[a] # NoFile
    BY DEF Init, Original, NoFile
  <1>3. \A w \in Workers : ~AtWork(w)
    BY DEF Init, AtWork, Stages
  <1> QED
    BY <1>1, <1>2, <1>3 DEF CrashSafe, Restorable, Fetched, Original, Cut, Init, Stopped

-----------------------------------------------------------------------------
(* One step of worker w at its archive leaves those of the others alone.   *)

OnlyOwn(w) ==
    /\ \A a \in Archives \ {job[w]} :
          /\ game'[a] = game[a] /\ backup'[a] = backup[a] /\ temp'[a] = temp[a]
          /\ a \in unsaved' <=> a \in unsaved
          /\ a \in lost' <=> a \in lost
    /\ \A v \in Workers \ {w} : worker'[v] = worker[v] /\ job'[v] = job[v]
    /\ worker'[w] # "left"
    /\ UNCHANGED <<rev, backups, unsent, main, joined>>

(* What CrashSafe says of an archive.                                      *)
ArchiveInv(a) ==
    /\ a \in unsaved \cup lost \/ Original(a) \in {game[a], backup[a]}
    /\ game[a] = NoFile =>
          /\ backup[a] \in {Original(a), Cut(a)}
          /\ backup[a] = Original(a) \/ a \in lost
    /\ Fetched(a)

(* Only the archive of w and its own position remain to be looked at.      *)
LEMMA OwnStepSuffices ==
    ASSUME CrashSafe, NEW w \in Workers, AtWork(w), NEW a \in Archives, job[w] = a,
           OnlyOwn(w), FilesOK', WorkersOK', ArchiveInv(a)',
           AtWork(w)' => job'[w] = a /\ StageInv(w)'
    PROVE  CrashSafe'
  <1> USE DEF CrashSafe
  <1>1. Restorable' /\ \A b \in Archives : Fetched(b)'
    <2>1. ASSUME NEW b \in Archives, b # a PROVE ArchiveInv(b)'
      <3>1. /\ game'[b] = game[b] /\ backup'[b] = backup[b] /\ rev' = rev
            /\ b \in lost' <=> b \in lost
            /\ b \in unsaved' <=> b \in unsaved
        BY <2>1 DEF OnlyOwn
      <3>2. Original(b)' = Original(b) /\ Cut(b)' = Cut(b) /\ Fetched(b)'
        BY <3>1 DEF Original, Cut, Fetched
      <3> QED
        BY <3>1, <3>2 DEF Restorable, ArchiveInv
    <2> QED
      BY <2>1 DEF Restorable, ArchiveInv
  <1>2. ASSUME NEW v \in Workers, v # w, AtWork(v)'
        PROVE  StageInv(v)' /\ job'[v] # a
    <2>1. AtWork(v) /\ StageInv(v) /\ job[v] # a /\ job[v] \in Archives
      BY <1>2 DEF OnlyOwn, AtWork, StageInv
    <2> QED
      BY <1>2, <2>1 DEF OnlyOwn, StageInv, Original
  <1>3. \A u, v \in Workers : u # v /\ AtWork(u)' /\ AtWork(v)' => job'[u] # job'[v]
    BY <1>2 DEF OnlyOwn, AtWork
  <1>4. ~Stopped' /\ joined' = Cardinality(Left)'
    <2>1. Left' = Left
      BY DEF OnlyOwn, Left, AtWork, Stages
    <2> QED
      BY <2>1 DEF OnlyOwn, Stopped
  <1> QED
    BY <1>1, <1>2, <1>3, <1>4

(* The steps that leave every file alone: errors, and looking at an        *)
(* archive.                                                                *)
LEMMA FilesAlone ==
    ASSUME CrashSafe, NEW w \in Workers,
           \/ OpenFails(w) \/ Translate(w) \/ CreateTempFails(w) \/ WriteFails(w)
           \/ BackupFails(w) \/ InstallFails(w)
    PROVE  CrashSafe'
  <1>1. AtWork(w) /\ StageInv(w)
    BY DEF CrashSafe, AtWork, Stages, Go, OpenFails, Translate, CreateTempFails,
           WriteFails, BackupFails, InstallFails
  <1>2. PICK a \in Archives : job[w] = a /\ ArchiveInv(a)
    BY <1>1 DEF StageInv, CrashSafe, Restorable, ArchiveInv
  <1>3. UNCHANGED <<files, rest, unsaved, lost>> /\ \E from, to : Go(w, from, to)
    BY DEF OpenFails, Translate, CreateTempFails, WriteFails, BackupFails, InstallFails
  <1>4. FilesOK' /\ WorkersOK' /\ OnlyOwn(w) /\ ArchiveInv(a)'
    <2>1. worker'[w] \in {"idle", "temp", "remove"}
      BY DEF CrashSafe, WorkersOK, Go, OpenFails, Translate, CreateTempFails, WriteFails,
             BackupFails, InstallFails
    <2>2. FilesOK' /\ ArchiveInv(a)'
      BY <1>2, <1>3 DEF CrashSafe, FilesOK, files, rest, ArchiveInv, Fetched, Original, Cut
    <2>3. OnlyOwn(w)
      BY <1>3, <2>1 DEF OnlyOwn, Go, files, rest, CrashSafe, WorkersOK
    <2>4. WorkersOK'
      BY <1>2, <1>3, <2>1 DEF CrashSafe, WorkersOK, Go, rest, Stages
    <2> QED
      BY <2>2, <2>3, <2>4
  <1>5. AtWork(w)' => job'[w] = a /\ StageInv(w)'
    <2>1. CASE Translate(w)
      BY <1>1, <1>2, <2>1 DEF CrashSafe, WorkersOK, AtWork, Stages, StageInv, files, rest,
             Go, Translate
    <2>2. CASE OpenFails(w) \/ CreateTempFails(w)
      BY <2>2 DEF CrashSafe, WorkersOK, AtWork, Stages, Go, OpenFails, CreateTempFails
    <2>3. CASE WriteFails(w) \/ BackupFails(w) \/ InstallFails(w)
      <3>1. worker'[w] = "remove" /\ job'[w] = job[w] /\ UNCHANGED unsent
        BY <2>3 DEF CrashSafe, WorkersOK, Go, WriteFails, BackupFails, InstallFails, rest
      <3> QED
        BY <1>1, <1>2, <3>1 DEF StageInv, Stages
    <2> QED
      BY <2>1, <2>2, <2>3
  <1> QED
    BY <1>1, <1>2, <1>4, <1>5, OwnStepSuffices

(* The steps that write the temporary file.                                *)
LEMMA TempWritten ==
    ASSUME CrashSafe, NEW w \in Workers,
           CreateTemp(w) \/ Write(w) \/ WriteFailsUnnoticed(w) \/ RemoveTemp(w)
    PROVE  CrashSafe'
  <1>1. AtWork(w) /\ StageInv(w)
    BY DEF CrashSafe, AtWork, Stages, Go, CreateTemp, Write, WriteFailsUnnoticed, RemoveTemp
  <1>2. PICK a \in Archives : job[w] = a /\ ArchiveInv(a)
    BY <1>1 DEF StageInv, CrashSafe, Restorable, ArchiveInv
  <1>3. UNCHANGED <<game, backup, rest, unsaved, lost>>
    BY DEF CreateTemp, Write, WriteFailsUnnoticed, RemoveTemp, files
  <1>4. /\ temp' \in [Archives -> File]
        /\ \A b \in Archives \ {a} : temp'[b] = temp[b]
    <2>1. PICK t \in File : temp' = [temp EXCEPT ![a] = t]
      <3>1. game[a] \in File /\ temp[a] \in File /\ temp = [temp EXCEPT ![a] = temp[a]]
        BY <1>2 DEF CrashSafe, FilesOK
      <3>2. ASSUME NEW r \in File, NEW f \in {"part", "patched"}
            PROVE  [r EXCEPT !.form = f] \in File
        BY DEF File
      <3> QED
        BY <1>2, <3>1, <3>2 DEF CreateTemp, Write, WriteFailsUnnoticed, RemoveTemp, files,
               File, NoFile
    <2> QED
      BY <1>2, <2>1 DEF CrashSafe, FilesOK
  <1>5. AtWork(w)' => job'[w] = a /\ StageInv(w)'
    <2>1. CASE CreateTemp(w)
      BY <1>1, <1>2, <1>3, <2>1 DEF CreateTemp, CrashSafe, WorkersOK, FilesOK, File, AtWork,
             Stages, StageInv, rest, Go
    <2>2. CASE Write(w)
      BY <1>1, <1>2, <1>3, <2>2 DEF ArchiveInv, Fetched, NoFile, Write, CrashSafe, WorkersOK, FilesOK, File, AtWork,
             Stages, StageInv, rest, Go, AfterWrite, BackingUp, IsModified
    <2>3. CASE WriteFailsUnnoticed(w)
      BY <1>1, <1>2, <1>3, <2>3 DEF ArchiveInv, Fetched, NoFile, WriteFailsUnnoticed, CrashSafe, WorkersOK, FilesOK, File,
             AtWork, Stages, StageInv, rest, files, Go, AfterWrite, BackingUp, IsModified
    <2>4. CASE RemoveTemp(w)
      BY <2>4 DEF RemoveTemp, CrashSafe, WorkersOK, AtWork, Stages, Go
    <2> QED
      BY <2>1, <2>2, <2>3, <2>4
  <1>6. \E from \in Stages, to \in {"write", "backup", "install", "idle"} : Go(w, from, to)
    BY DEF CreateTemp, Write, WriteFailsUnnoticed, RemoveTemp, AfterWrite, Stages
  <1>7. FilesOK' /\ ArchiveInv(a)'
    BY <1>2, <1>3, <1>4 DEF CrashSafe, FilesOK, ArchiveInv, Fetched, Original, Cut, rest
  <1>8. WorkersOK'
    BY <1>2, <1>3, <1>6 DEF CrashSafe, WorkersOK, Go, rest, Stages
  <1>9. OnlyOwn(w)
    BY <1>2, <1>3, <1>4, <1>6 DEF OnlyOwn, Go, rest, CrashSafe, WorkersOK
  <1> QED
    BY <1>1, <1>2, <1>5, <1>7, <1>8, <1>9, OwnStepSuffices

(* The steps that write the backup.                                        *)
LEMMA BackupWritten ==
    ASSUME CrashSafe, NEW w \in Workers,
           RenameToBackup(w) \/ CreateBackup(w) \/ CopyToBackup(w)
    PROVE  CrashSafe'
  <1>1. AtWork(w) /\ StageInv(w) /\ worker[w] \in {"backup", "copyBackup"}
    BY DEF CrashSafe, AtWork, Stages, Go, RenameToBackup, CreateBackup, CopyToBackup
  <1>2. PICK a \in Archives : job[w] = a /\ ArchiveInv(a) /\ game[a] \in File
    BY <1>1 DEF StageInv, CrashSafe, FilesOK, Restorable, ArchiveInv
  <1>3. /\ UNCHANGED <<temp, rest, unsaved>> /\ lost' \in {lost, lost \cup {a}}
        /\ game[a] \in {Original(a), Cut(a)} /\ (game[a] = Cut(a) => a \in lost')
    <2>1. UNCHANGED <<temp, rest, unsaved>>
      BY DEF RenameToBackup, CreateBackup, CopyToBackup
    <2>2. game[a].form \in {"original", "cut"} /\ game[a].rev = rev[a]
      BY <1>1, <1>2 DEF StageInv, ArchiveInv, Fetched
    <2>3. game[a] = [rev |-> game[a].rev, form |-> game[a].form]
      BY <1>2 DEF File
    <2>4. game[a] \in {Original(a), Cut(a)}
      BY <2>2, <2>3 DEF Original, Cut
    <2>5. lost' \in {lost, lost \cup {a}} /\ (game[a].form = "cut" => a \in lost')
      <3>1. CASE RenameToBackup(w) \/ CreateBackup(w)
        BY <1>2, <3>1 DEF RenameToBackup, CreateBackup, Overwritten
      <3>2. CASE CopyToBackup(w)
        <4>1. worker[w] = "copyBackup" /\ lost' = lost
          BY <3>2 DEF CopyToBackup, Go
        <4>. QED  BY <1>1, <1>2, <4>1 DEF StageInv
      <3>. QED  BY <3>1, <3>2
    <2>6. Cut(a).form = "cut"
      BY DEF Cut
    <2>. QED  BY <2>1, <2>4, <2>5, <2>6
  <1>4. PICK b \in File :
           /\ backup' = [backup EXCEPT ![a] = b]
           /\ \/ game' = game
              \/ game' = [game EXCEPT ![a] = NoFile] /\ b = game[a]
           /\ worker'[w] = "install" => b = game[a]
    <2>1. [game[a] EXCEPT !.form = "cut"] \in File
      BY <1>2 DEF File
    <2>2. CASE RenameToBackup(w)
      BY <1>2, <2>2 DEF RenameToBackup
    <2>3. CASE CreateBackup(w)
      <3>1. worker'[w] # "install"
        BY <2>3 DEF CreateBackup, Go, CrashSafe, WorkersOK
      <3>2. game' = game /\ backup' = [backup EXCEPT ![a] = [game[a] EXCEPT !.form = "cut"]]
        BY <1>2, <2>3 DEF CreateBackup
      <3>. QED  BY <2>1, <3>1, <3>2
    <2>4. CASE CopyToBackup(w)
      BY <1>2, <2>4 DEF CopyToBackup
    <2>. QED  BY <2>2, <2>3, <2>4
  <1>5. \E from \in Stages, to \in {"copyBackup", "install"} : Go(w, from, to)
    BY DEF RenameToBackup, CreateBackup, CopyToBackup, Stages
  <1>6. FilesOK' /\ ArchiveInv(a)'
    <2>1. NoFile \in File /\ NoFile.form = "none" /\ UNCHANGED <<temp, rev>>
      BY <1>3 DEF NoFile, File, rest
    <2>2. FilesOK'
      BY <1>3, <1>4, <2>1 DEF CrashSafe, FilesOK
    <2>3. game'[a] \in {game[a], NoFile} /\ backup'[a] = b /\ (game'[a] = NoFile => b = game[a])
      <3>1. game[a] # NoFile
        BY <1>3, <2>1 DEF Original, Cut
      <3>. QED  BY <1>2, <1>4, <3>1 DEF CrashSafe, FilesOK
    <2>4. Original(a)' = Original(a) /\ Cut(a)' = Cut(a)
      BY <2>1 DEF Original, Cut
    <2>5. Fetched(a)'
      BY <1>2, <2>1, <2>3 DEF ArchiveInv, Fetched
    <2>6. a \in unsaved' \cup lost' \/ Original(a)' \in {game'[a], backup'[a]}
      BY <1>3, <2>3, <2>4
    <2>7. game'[a] = NoFile => /\ backup'[a] \in {Original(a)', Cut(a)'}
                               /\ backup'[a] = Original(a)' \/ a \in lost'
      BY <1>3, <2>3, <2>4
    <2>. QED  BY <2>2, <2>5, <2>6, <2>7 DEF ArchiveInv
  <1>7. WorkersOK'
    BY <1>2, <1>3, <1>5 DEF CrashSafe, WorkersOK, Go, rest, Stages
  <1>8. OnlyOwn(w)
    BY <1>2, <1>3, <1>4, <1>5 DEF OnlyOwn, Go, rest, CrashSafe, WorkersOK, FilesOK
  <1>9. job'[w] = a /\ StageInv(w)'
    <2>1. job'[w] = a /\ UNCHANGED <<unsent, temp, rev>> /\ worker'[w] \in {"copyBackup", "install"}
      BY <1>2, <1>3, <1>5 DEF Go, CrashSafe, WorkersOK, rest
    <2>2. temp[a].form \in {"patched", "part"} /\ a \in Archives \ unsent
      BY <1>1, <1>2 DEF StageInv, Stages
    <2>3. CASE worker'[w] = "install"
      <3>1. game'[a].form = "original" => game'[a] = Original(a) /\ backup'[a] = Original(a)
        <4>1. game'[a] \in {game[a], NoFile} /\ backup'[a] = game[a]
          BY <1>2, <1>4, <2>3 DEF CrashSafe, FilesOK
        <4>2. Cut(a).form # "original" /\ NoFile.form # "original"
          BY DEF Cut, NoFile
        <4>. QED  BY <1>3, <4>1, <4>2
      <3>. QED  BY <2>1, <2>2, <2>3, <3>1 DEF StageInv, Original
    <2>4. CASE worker'[w] = "copyBackup"
      <3>1. CreateBackup(w)
        BY <1>1, <2>4 DEF RenameToBackup, CreateBackup, CopyToBackup, Go, CrashSafe, WorkersOK
      <3>2. game' = game
        BY <3>1 DEF CreateBackup
      <3>3. game[a] # NoFile /\ game[a].form \in {"original", "cut"}
        BY <1>3 DEF Original, Cut, NoFile
      <3>4. game[a].form = "original" \/ a \in lost'
        BY <1>3 DEF Original, Cut
      <3> QED
        BY <2>1, <2>2, <2>4, <3>2, <3>3, <3>4 DEF StageInv
    <2> QED
      BY <2>1, <2>3, <2>4
  <1> QED
    BY <1>1, <1>2, <1>6, <1>7, <1>8, <1>9, OwnStepSuffices

(* The steps that write the game's archive: its original is in the backup  *)
(* path, or nobody wanted a backup.                                        *)
LEMMA GameWritten ==
    ASSUME CrashSafe, NEW w \in Workers,
           RenameToGame(w) \/ CreateGame(w) \/ CopyToGame(w)
    PROVE  CrashSafe'
  <1>1. AtWork(w) /\ StageInv(w) /\ worker[w] \in {"install", "copyInstall"}
    BY DEF CrashSafe, AtWork, Stages, Go, RenameToGame, CreateGame, CopyToGame
  <1>2. PICK a \in Archives : job[w] = a /\ ArchiveInv(a)
    BY <1>1 DEF StageInv, CrashSafe, Restorable, ArchiveInv
  <1>3. UNCHANGED <<backup, rest, lost>>
    BY DEF RenameToGame, CreateGame, CopyToGame
  <1>4. PICK g \in File, t \in File :
           /\ game' = [game EXCEPT ![a] = g]
           /\ temp' = [temp EXCEPT ![a] = t]
           /\ g.form \in {"patched", "part"}
           /\ worker'[w] = "copyInstall" => g.form = "part" /\ t.form \in {"patched", "part"}
    <2>1. temp[a] \in File /\ temp[a].form \in {"patched", "part"} /\ temp = [temp EXCEPT ![a] = temp[a]]
      BY <1>1, <1>2 DEF CrashSafe, FilesOK, StageInv, Stages
    <2>2. NoFile \in File
      BY DEF NoFile, File
    <2>3. /\ [temp[a] EXCEPT !.form = "part"] \in File
          /\ [temp[a] EXCEPT !.form = "part"].form = "part"
      BY <2>1 DEF File
    <2> QED
      BY <1>2, <2>1, <2>2, <2>3 DEF RenameToGame, CreateGame, CopyToGame, Patch, Go, CrashSafe, WorkersOK
  <1>5. /\ a \in unsaved' \cup lost \/ backup[a] = Original(a)
        /\ \A b \in Archives \ {a} : b \in unsaved' <=> b \in unsaved
    <2>1. CASE CopyToGame(w)
      <3>1. game[a].form = "part" /\ Original(a).form = "original"
        BY <1>1, <1>2, <2>1 DEF CopyToGame, Go, StageInv, Original
      <3> QED
        BY <1>2, <2>1, <3>1 DEF CopyToGame, ArchiveInv
    <2>2. CASE RenameToGame(w) \/ CreateGame(w)
      <3>1. worker[w] = "install"
        BY <2>2 DEF RenameToGame, CreateGame, Go
      <3>2. unsaved' = IF ~backups /\ game[a].form = "original" THEN unsaved \cup {a} ELSE unsaved
        BY <1>2, <2>2 DEF RenameToGame, CreateGame, Patch
      <3>3. CASE ~backups /\ game[a].form = "original"
        BY <3>2, <3>3
      <3>4. CASE game[a].form # "original"
        BY <1>2, <3>2, <3>4 DEF ArchiveInv, Original
      <3>5. CASE backups /\ game[a].form = "original"
        BY <1>1, <1>2, <3>1, <3>2, <3>5 DEF StageInv
      <3> QED
        BY <3>3, <3>4, <3>5
    <2> QED
      BY <2>1, <2>2
  <1>6. \E from \in Stages, to \in {"copyInstall", "remove", "idle"} : Go(w, from, to)
    BY DEF RenameToGame, CreateGame, CopyToGame, Stages
  <1>7. FilesOK' /\ ArchiveInv(a)'
    BY <1>2, <1>3, <1>4, <1>5 DEF CrashSafe, FilesOK, ArchiveInv, Fetched, Original, Cut, NoFile, rest
  <1>8. WorkersOK'
    BY <1>2, <1>3, <1>6 DEF CrashSafe, WorkersOK, Go, rest, Stages
  <1>9. OnlyOwn(w)
    BY <1>2, <1>3, <1>4, <1>5, <1>6 DEF OnlyOwn, Go, rest, CrashSafe, WorkersOK, FilesOK
  <1>10. AtWork(w)' => job'[w] = a /\ StageInv(w)'
    <2>1. worker'[w] \in {"copyInstall", "remove"} =>
             job'[w] = a /\ a \in Archives \ unsent' /\ game'[a] \in File
      BY <1>1, <1>2, <1>3, <1>4, <1>6 DEF Go, StageInv, CrashSafe, WorkersOK, FilesOK, rest
    <2>2. CASE worker'[w] = "copyInstall"
      BY <1>4, <2>1, <2>2 DEF StageInv, CrashSafe, FilesOK
    <2>3. CASE worker'[w] = "remove"
      BY <2>1, <2>3 DEF StageInv, Stages
    <2>4. worker'[w] \in {"copyInstall", "remove", "idle"}
      BY <1>6 DEF Go, CrashSafe, WorkersOK
    <2> QED
      BY <2>1, <2>2, <2>3, <2>4 DEF AtWork, Stages
  <1> QED
    BY <1>1, <1>2, <1>7, <1>8, <1>9, <1>10, OwnStepSuffices

-----------------------------------------------------------------------------
(* The pool and the world.                                                 *)
LEMMA TakePreserves ==
    ASSUME CrashSafe, NEW w \in Workers, NEW a \in Archives, Take(w, a)
    PROVE  CrashSafe'
  <1> USE DEF CrashSafe
  <1>1. /\ FilesOK' /\ Restorable'
        /\ \A b \in Archives : Fetched(b)'
    BY DEF Take, files, history, FilesOK, Restorable, Original, Cut, Fetched
  <1>2. WorkersOK' /\ ~Stopped' /\ joined' = Cardinality(Left)'
    <2>1. Left' = Left
      BY DEF Take, Left, WorkersOK
    <2> QED
      BY <2>1 DEF Take, WorkersOK, Stages, Stopped
  <1>3. AtWork(w)' /\ job'[w] = a /\ StageInv(w)'
    BY DEF Take, WorkersOK, AtWork, StageInv, Stages
  <1>4. ASSUME NEW v \in Workers, v # w, AtWork(v)'
        PROVE  AtWork(v) /\ job'[v] = job[v] /\ job[v] # a /\ StageInv(v)'
    BY <1>4 DEF Take, AtWork, StageInv, files, history, Original
  <1> QED
    BY <1>1, <1>2, <1>3, <1>4

LEMMA MainPreserves ==
    ASSUME CrashSafe, Start \/ Kill \/ CloseQueue \/ Return \/ \E w \in Workers : Join(w)
    PROVE  CrashSafe'
  <1> USE DEF CrashSafe
  <1>1. /\ UNCHANGED <<game, backup, rev, unsaved, lost>> /\ temp' \in [Archives -> File]
        /\ FilesOK'
    BY DEF Start, Kill, CloseQueue, Return, Join, files, history, FilesOK, NoFile, File
  <1>2. /\ Restorable'
        /\ \A b \in Archives : Fetched(b)'
    BY <1>1 DEF Restorable, Original, Cut, Fetched
  <1>3. WorkersOK'
    BY BackupModesAssumption DEF Start, Kill, CloseQueue, Return, Join, Go, WorkersOK, Stages
  <1>4. ASSUME NEW w \in Workers, AtWork(w)'
        PROVE  AtWork(w) /\ job'[w] = job[w] /\ StageInv(w)' /\ ~Stopped'
    <2>1. CASE Start \/ Kill
      BY <1>4, <2>1 DEF Start, Kill, AtWork, Stages
    <2>2. CASE CloseQueue
      BY <1>4, <2>2 DEF CloseQueue, AtWork, StageInv, files, history, Original,
             Stopped
    <2>3. CASE Return
      <3>1. Left \subseteq Workers /\ Cardinality(Left) = Cardinality(Workers)
        BY <2>3, LeftFinite DEF Return, Left, Stopped
      <3>2. Left = Workers
        BY <3>1, LeftFinite, FS_Subset
      <3> QED
        BY <1>4, <2>3, <3>2 DEF Return, AtWork, Left, Stages
    <2>4. CASE \E v \in Workers : Join(v)
      BY <1>4, <2>4 DEF Join, Go, AtWork, StageInv, Stages, files, history, Original,
             Stopped, WorkersOK
    <2> QED
      BY <2>1, <2>2, <2>3, <2>4
  <1>5. ~Stopped' => joined' = Cardinality(Left)'
    <2>1. CASE Start
      <3>1. Left' = {} /\ joined' = 0
        BY <2>1 DEF Start, Left
      <3> QED
        BY <3>1, FS_EmptySet
    <2>2. CASE Kill \/ Return
      BY <2>2 DEF Kill, Return, Stopped
    <2>3. CASE CloseQueue
      BY <2>3 DEF CloseQueue, Stopped, Left
    <2>4. ASSUME NEW v \in Workers, Join(v) PROVE joined' = Cardinality(Left)'
      <3>1. Left' = Left \cup {v} /\ v \notin Left
        BY <2>4 DEF Join, Go, Left, WorkersOK
      <3>2. Cardinality(Left)' = Cardinality(Left) + 1
        BY <3>1, LeftFinite, FS_AddElement
      <3> QED
        BY <2>4, <3>2 DEF Join, Stopped
    <2> QED
      BY <2>1, <2>2, <2>3, <2>4
  <1> QED
    BY <1>1, <1>2, <1>3, <1>4, <1>5

LEMMA DownloadPreserves ==
    ASSUME CrashSafe, NEW a \in Archives, Download(a)
    PROVE  CrashSafe'
  <1> USE DEF CrashSafe
  <1>1. PICK r \in Nat, form \in {"original", "cut"} :
           /\ rev' = [rev EXCEPT ![a] = r]
           /\ game' = [game EXCEPT ![a] = [rev |-> r, form |-> form]]
           /\ lost' = IF form = "cut" /\ backup[a] # [rev |-> r, form |-> "original"]
                      THEN lost \cup {a} ELSE lost \ {a}
    <2>1. rev[a] \in Nat /\ rev[a] + 1 \in Nat
      BY DEF FilesOK
    <2> QED
      BY <2>1 DEF Download
  <1>2. /\ FilesOK' /\ game'[a] = [rev |-> r, form |-> form] /\ backup'[a] = backup[a]
        /\ Original(a)' = [rev |-> r, form |-> "original"] /\ rev'[a] = r
    BY <1>1 DEF Download, FilesOK, Original, File
  <1>3. ASSUME NEW b \in Archives, b # a
        PROVE  /\ game'[b] = game[b] /\ backup'[b] = backup[b] /\ rev'[b] = rev[b]
               /\ Original(b)' = Original(b) /\ Cut(b)' = Cut(b)
               /\ b \in lost' <=> b \in lost
               /\ b \in unsaved' <=> b \in unsaved
    BY <1>1, <1>3 DEF Download, FilesOK, Original, Cut
  <1>4. Restorable' /\ \A b \in Archives : Fetched(b)'
    <2>1. /\ a \in lost' \/ Original(a)' \in {game'[a], backup'[a]}
          /\ game'[a] # NoFile /\ Fetched(a)'
      BY <1>1, <1>2 DEF Fetched, NoFile
    <2>2. ASSUME NEW b \in Archives, b # a PROVE ArchiveInv(b)'
      BY <1>3, <2>2 DEF Restorable, ArchiveInv, Fetched
    <2> QED
      BY <2>1, <2>2 DEF Restorable, ArchiveInv
  <1>5. WorkersOK' /\ Stopped' /\ \A w \in Workers : ~AtWork(w)'
    BY DEF Download, WorkersOK, Stopped, AtWork
  <1> QED
    BY <1>2, <1>4, <1>5

LEMMA StepPreserves == CrashSafe /\ [Next]_vars => CrashSafe'
  <1> SUFFICES ASSUME CrashSafe, [Next]_vars PROVE CrashSafe'
    OBVIOUS
  <1>1. CASE Start \/ Kill \/ CloseQueue \/ Return
    BY <1>1, MainPreserves
  <1>2. CASE \E a \in Archives : Download(a)
    BY <1>2, DownloadPreserves
  <1>3. CASE \E w \in Workers : Work(w)
    BY <1>3, FilesAlone, TempWritten, BackupWritten, GameWritten, TakePreserves, MainPreserves
       DEF Work
  <1>4. CASE UNCHANGED vars
    BY <1>4 DEF vars, history, files, pool, CrashSafe, FilesOK, WorkersOK, Restorable, Original, Cut, Left,
           AtWork, StageInv, Fetched, Stopped
  <1> QED
    BY <1>1, <1>2, <1>3, <1>4 DEF Next

-----------------------------------------------------------------------------
(* The invariant of the files and of the workers.                          *)
THEOREM CrashSafety == Spec => []CrashSafe
  BY InitEstablishes, StepPreserves, PTL DEF Spec

(* Whatever fails and wherever runs are killed, the original of an archive *)
(* that was always backed up can be found, unless its last fetch was cut    *)
(* off when there was no backup, or what was cut off was then backed up.    *)
THEOREM AlwaysRestorable == Spec => []Restorable
  <1>1. CrashSafe => Restorable
    BY DEF CrashSafe
  <1> QED
    BY <1>1, CrashSafety, PTL

-----------------------------------------------------------------------------
(* Archives that nobody complains about.                                   *)

(* The steps of a worker at its archive.                                   *)
Handle(w) ==
    \/ OpenFails(w) \/ Translate(w)
    \/ CreateTemp(w) \/ CreateTempFails(w)
    \/ Write(w) \/ WriteFails(w) \/ WriteFailsUnnoticed(w)
    \/ RenameToBackup(w) \/ CreateBackup(w) \/ CopyToBackup(w) \/ BackupFails(w)
    \/ RenameToGame(w) \/ CreateGame(w) \/ CopyToGame(w) \/ InstallFails(w)
    \/ RemoveTemp(w)

(* Bounds: no more dones than workers, no revision that was not fetched.    *)
LEMMA TypeStep ==
    ASSUME TypeOK, CrashSafe, CrashSafe', [Next]_vars
    PROVE  TypeOK'
  <1>1. FilesOK' /\ WorkersOK'
    BY DEF CrashSafe
  <1>2. rev' = rev \/ \E a \in Archives : Download(a)
    BY DEF Next, Start, Kill, CloseQueue, Return, Work, Take, OpenFails, Translate, CreateTemp,
       CreateTempFails, Write, WriteFails, WriteFailsUnnoticed, RenameToBackup, CreateBackup,
       CopyToBackup, BackupFails, RenameToGame, CreateGame, CopyToGame, InstallFails, RemoveTemp,
       Join, rest, history, vars
  <1>3. \A a \in Archives : rev'[a] \in 1 .. MaxRev[a]
    <2>1. ASSUME NEW b \in Archives, Download(b)
          PROVE  \A a \in Archives : rev'[a] \in 1 .. MaxRev[a]
      BY <2>1 DEF Download, TypeOK, FilesOK
    <2> QED
      BY <1>2, <2>1 DEF TypeOK
  <1>4. joined' \in 0 .. Parallel
    <2>1. CASE ~Stopped'
      <3>1. joined' = Cardinality(Left')
        BY <2>1 DEF CrashSafe
      <3>2. Left' \subseteq Workers
        BY DEF Left
      <3>3. Cardinality(Left') <= Cardinality(Workers) /\ IsFiniteSet(Left')
        BY <3>2, LeftFinite, FS_Subset
      <3> QED
        BY <3>1, <3>3, LeftFinite, FS_CardinalityType
    <2>2. CASE Stopped'
      <3>1. joined' = joined \/ joined' = 0
        BY <2>2, ParallelAssumption DEF Next, Start, Kill, CloseQueue, Return, Work, Take,
           OpenFails, Translate, CreateTemp, CreateTempFails, Write, WriteFails,
           WriteFailsUnnoticed, RenameToBackup, CreateBackup, CopyToBackup, BackupFails,
           RenameToGame, CreateGame, CopyToGame, InstallFails, RemoveTemp, Join, rest, history, vars, pool,
           Download, Stopped
      <3> QED
        BY <3>1, ParallelAssumption DEF TypeOK
    <2> QED
      BY <2>1, <2>2
  <1>5. errs' \cup unsaved' \cup lost' \cup excused' \subseteq Archives
    <2>1. CASE Start \/ Kill \/ CloseQueue \/ Return \/ UNCHANGED vars
      BY <2>1 DEF TypeOK, Start, Kill, CloseQueue, Return, vars, history
    <2>2. CASE \E a \in Archives : Download(a)
      BY <2>2 DEF TypeOK, Download
    <2>3. ASSUME NEW w \in Workers, Work(w) PROVE errs' \cup unsaved' \cup lost' \cup excused' \subseteq Archives
      <3>1. CASE Join(w) \/ \E a \in Archives : Take(w, a)
        BY <3>1 DEF TypeOK, Join, Take, history
      <3>2. CASE Handle(w)
        <4>1. AtWork(w)
          BY <3>2 DEF Handle, AtWork, Stages, Go, OpenFails, Translate, CreateTemp, CreateTempFails,
             Write, WriteFails, WriteFailsUnnoticed, RenameToBackup, CreateBackup, CopyToBackup,
             BackupFails, RenameToGame, CreateGame, CopyToGame, InstallFails, RemoveTemp
        <4>2. job[w] \in Archives
          BY <4>1 DEF CrashSafe, StageInv
        <4>3. /\ errs' \subseteq errs \cup {job[w]}
              /\ unsaved' \subseteq unsaved \cup {job[w]} /\ lost' \subseteq lost \cup {job[w]}
              /\ excused' \subseteq excused \cup {job[w]}
          BY <3>2 DEF Handle, Complain, Patch, Overwritten, OpenFails, Translate, CreateTemp, CreateTempFails,
             Write, WriteFails, WriteFailsUnnoticed, RenameToBackup, CreateBackup, CopyToBackup,
             BackupFails, RenameToGame, CreateGame, CopyToGame, InstallFails, RemoveTemp
        <4> QED
          BY <4>2, <4>3 DEF TypeOK
      <3> QED
        BY <2>3, <3>1, <3>2 DEF Work, Handle
    <2> QED
      BY <2>1, <2>2, <2>3 DEF Next
  <1> QED
    BY <1>1, <1>3, <1>4, <1>5 DEF TypeOK

(* The part of a step of worker w that other archives could notice.        *)
OthersKeep(w, a) ==
    /\ \A b \in Archives \ {a} : game'[b] = game[b] /\ temp'[b] = temp[b]
    /\ \A v \in Workers \ {w} : worker'[v] = worker[v] /\ job'[v] = job[v]
    /\ errs \subseteq errs' /\ excused \subseteq excused'
    /\ UNCHANGED <<main, unsent>>

(* What remains to be shown of the archive of w.                           *)
Leaves(w, a) ==
    IF worker'[w] \in Stages THEN job'[w] = a /\ SeenTo(w)'
    ELSE temp'[a] = NoFile /\ WholeGame(a)'

LEMMA OwnWholeSuffices ==
    ASSUME CrashSafe, CrashSafe', WholeInv, TypeOK', NEW w \in Workers, AtWork(w),
           NEW a \in Archives, job[w] = a, OthersKeep(w, a), Leaves(w, a)
    PROVE  WholeInv'
  <1>1. main \notin {"off", "returned"} /\ ~Stopped' /\ ~Stopped /\ a \notin unsent
    BY DEF CrashSafe, Stopped, OthersKeep, StageInv
  <1>2. WholeUnlessReported' /\ (main' = "joining" => unsent' = {})
    BY <1>1 DEF WholeUnlessReported, OthersKeep, WholeInv
  <1>4. \A b \in Archives : Excepted(b) => Excepted(b)'
    BY DEF OthersKeep, Excepted
  <1>5. ASSUME NEW v \in Workers, AtWork(v)' PROVE SeenTo(v)'
    <2>1. CASE v = w
      BY <1>5, <2>1 DEF Leaves, AtWork
    <2>2. CASE v # w
      <3>1. /\ AtWork(v) /\ worker'[v] = worker[v] /\ job'[v] = job[v] /\ job[v] # a
            /\ job[v] \in Archives
        BY <1>5, <2>2 DEF OthersKeep, AtWork, CrashSafe, StageInv
      <3>2. game'[job[v]] = game[job[v]] /\ temp'[job[v]] = temp[job[v]] /\ SeenTo(v)
        BY <3>1 DEF OthersKeep, WholeInv
      <3> QED
        BY <3>1, <3>2, <1>4 DEF SeenTo, WholeGame, WholeTemp, CutOff
    <2> QED
      BY <2>1, <2>2
  <1>6. ASSUME NEW b \in Archives, ~\E v \in Workers : AtWork(v)' /\ job'[v] = b
        PROVE  /\ temp'[b] = NoFile
               /\ IF b \in unsent' THEN Excepted(b)' \/ ~CutOff(b)' ELSE WholeGame(b)'
    <2>1. CASE b = a
      <3>1. worker'[w] \notin Stages
        BY <1>6, <2>1 DEF Leaves, AtWork
      <3> QED
        BY <2>1, <3>1, <1>1 DEF Leaves, OthersKeep
    <2>2. CASE b # a
      <3>1. ~\E v \in Workers : AtWork(v) /\ job[v] = b
        <4>1. SUFFICES ASSUME NEW v \in Workers, AtWork(v), job[v] = b PROVE FALSE
          OBVIOUS
        <4>2. v # w
          BY <4>1, <2>2
        <4> QED
          BY <4>1, <4>2, <1>6 DEF OthersKeep, AtWork
      <3>2. /\ temp[b] = NoFile
            /\ IF b \in unsent THEN Excepted(b) \/ ~CutOff(b) ELSE WholeGame(b)
        BY <3>1, <1>1 DEF WholeInv
      <3>3. game'[b] = game[b] /\ temp'[b] = temp[b] /\ unsent' = unsent
        BY <2>2 DEF OthersKeep
      <3> QED
        BY <3>2, <3>3, <1>4 DEF WholeGame, CutOff
    <2> QED
      BY <2>1, <2>2
  <1> QED
    BY <1>1, <1>2, <1>5, <1>6 DEF WholeInv

(* What the invariants say of the archive of a worker.                     *)
LEMMA OwnArchive ==
    ASSUME CrashSafe, WholeInv, NEW w \in Workers, Handle(w)
    PROVE  /\ AtWork(w) /\ SeenTo(w) /\ StageInv(w)
           /\ job[w] \in Archives /\ game[job[w]] \in File /\ temp[job[w]] \in File
           /\ game[job[w]].form = "none" => game[job[w]] = NoFile
  <1>1. AtWork(w)
    BY DEF Handle, AtWork, Stages, Go, OpenFails, Translate, CreateTemp, CreateTempFails,
       Write, WriteFails, WriteFailsUnnoticed, RenameToBackup, CreateBackup, CopyToBackup,
       BackupFails, RenameToGame, CreateGame, CopyToGame, InstallFails, RemoveTemp
  <1>2. StageInv(w) /\ job[w] \in Archives
    BY <1>1 DEF CrashSafe, StageInv
  <1> QED
    BY <1>1, <1>2 DEF CrashSafe, WholeInv, FilesOK, Fetched

(* What Go changes of worker w, which is at archive a.                      *)
LEMMA GoSets ==
    ASSUME WorkersOK, NEW w \in Workers, NEW a \in Archives, job[w] = a,
           NEW s, NEW t, Go(w, s, t)
    PROVE  /\ worker[w] = s /\ worker'[w] = t
           /\ t # "idle" => job'[w] = a
  BY DEF Go, WorkersOK

(* The archive of w, when its worker leaves it or goes on, from what the     *)
(* step made of its two files.                                             *)
LEMMA LeavesFrom ==
    ASSUME NEW w \in Workers, NEW a \in Archives, NEW s,
           worker'[w] = s, s # "idle" => job'[w] = a, s \in Stages \cup {"idle"},
           s \in {"open", "temp", "idle"} => temp'[a] = NoFile,
           s # "open",
           s \in {"temp", "write", "remove", "idle"} => WholeGame(a)',
           s \in {"backup", "copyBackup", "install", "copyInstall"} => WholeTemp(a)'
    PROVE  Leaves(w, a)
  <1>1. CASE s = "idle"
    BY <1>1 DEF Leaves, Stages
  <1>2. CASE s # "idle"
    <2>1. worker'[w] \in Stages /\ job'[w] = a
      BY <1>2
    <2>2. SeenTo(w)'
      BY <2>1 DEF SeenTo, WholeGame, WholeTemp, Excepted, CutOff
    <2> QED
      BY <2>1, <2>2 DEF Leaves
  <1> QED
    BY <1>1, <1>2

(* Each step of a worker.                                                  *)
LEMMA HandleLeaves ==
    ASSUME CrashSafe, WholeInv, NEW w \in Workers, Handle(w), NEW a \in Archives, job[w] = a
    PROVE  OthersKeep(w, a) /\ Leaves(w, a)
  <1>1. /\ SeenTo(w) /\ StageInv(w)
        /\ game[a] \in File /\ temp[a] \in File
        /\ game[a].form = "none" => game[a] = NoFile
    BY OwnArchive
  <1>2. /\ WorkersOK
        /\ worker \in [Workers -> Stages \cup {"idle", "left"}]
        /\ job \in [Workers -> Archives \cup {NoArchive}]
        /\ game \in [Archives -> File] /\ temp \in [Archives -> File]
    BY DEF CrashSafe, FilesOK, WorkersOK
  <1>3. OthersKeep(w, a)
    BY <1>2 DEF Handle, OthersKeep, Go, rest, Complain, Patch, files, OpenFails, Translate,
       CreateTemp, CreateTempFails, Write, WriteFails, WriteFailsUnnoticed, RenameToBackup,
       CreateBackup, CopyToBackup, BackupFails, RenameToGame, CreateGame, CopyToGame,
       InstallFails, RemoveTemp
  <1>4. CASE OpenFails(w) \/ CreateTempFails(w)
    <2>1. PICK s \in {"open", "temp"} : Go(w, s, "idle")
      BY <1>4 DEF OpenFails, CreateTempFails
    <2>2. worker[w] \in {"open", "temp"} /\ worker'[w] = "idle"
      BY <1>2, <2>1, GoSets
    <2>3. game'[a] = game[a] /\ temp'[a] = temp[a] /\ a \in errs'
      BY <1>4 DEF OpenFails, CreateTempFails, Complain, files
    <2>4. temp[a] = NoFile
      BY <1>1, <2>2 DEF SeenTo
    <2>5. WholeGame(a)'
      BY <2>3 DEF WholeGame, Excepted
    <2> QED
      BY <1>1, <1>3, <2>2, <2>3, <2>4, <2>5, LeavesFrom
  <1>5. CASE Translate(w)
    <2>1. PICK s \in {"idle", "temp"} : Go(w, "open", s)
      BY <1>5 DEF Translate
    <2>2. worker[w] = "open" /\ worker'[w] = s /\ (s # "idle" => job'[w] = a)
      BY <1>2, <2>1, GoSets
    <2>3. game[a] # NoFile /\ game'[a] = game[a] /\ temp'[a] = temp[a]
      BY <1>5 DEF Translate, files
    <2>4. temp[a] = NoFile /\ (Excepted(a) \/ ~CutOff(a))
      BY <1>1, <2>2 DEF SeenTo
    <2>5. Excepted(a) => Excepted(a)'
      BY <1>3 DEF OthersKeep, Excepted
    <2>6. ~CutOff(a) => game[a].form \in {"original", "patched"}
      BY <1>1, <2>3 DEF File, CutOff, NoFile
    <2>7. WholeGame(a)'
      BY <2>3, <2>4, <2>5, <2>6 DEF WholeGame
    <2>8. s \in Stages \cup {"idle"}
      BY DEF Stages
    <2> QED
      BY <1>1, <1>3, <2>2, <2>3, <2>4, <2>7, <2>8, LeavesFrom
  <1>6. CASE CreateTemp(w)
    <2>1. worker[w] = "temp" /\ worker'[w] = "write" /\ job'[w] = a
      BY <1>2, <1>6, GoSets DEF CreateTemp
    <2>2. game'[a] = game[a] /\ errs' = errs /\ excused' = excused
      BY <1>6 DEF CreateTemp
    <2>3. WholeGame(a)'
      BY <1>1, <2>1, <2>2 DEF SeenTo, WholeGame, Excepted
    <2>4. "write" \in Stages
      BY DEF Stages
    <2> QED
      BY <1>1, <1>3, <2>1, <2>2, <2>3, <2>4, LeavesFrom
  <1>7. CASE Write(w) \/ WriteFailsUnnoticed(w)
    <2>1. Go(w, "write", AfterWrite(a)) /\ AfterWrite(a) \in {"backup", "install"}
      BY <1>7 DEF Write, WriteFailsUnnoticed, AfterWrite
    <2>2. worker[w] = "write" /\ worker'[w] = AfterWrite(a) /\ job'[w] = a
      BY <1>2, <2>1, GoSets
    <2>3. game'[a] = game[a]
      BY <1>7 DEF Write, WriteFailsUnnoticed, files
    <2>4. WholeTemp(a)'
      <3>1. CASE Write(w)
        <4>1. Excepted(a) \/ ~CutOff(a)
          BY <1>1, <2>2 DEF SeenTo, WholeGame, CutOff
        <4>2. ~CutOff(a) => temp'[a].form = "patched"
          BY <1>2, <3>1 DEF Write, File, CutOff
        <4>3. Excepted(a) => Excepted(a)'
          BY <3>1 DEF Write, Excepted
        <4> QED
          BY <4>1, <4>2, <4>3 DEF WholeTemp
      <3>2. CASE WriteFailsUnnoticed(w)
        BY <3>2 DEF WriteFailsUnnoticed, WholeTemp, Excepted, CutOff
      <3> QED
        BY <1>7, <3>1, <3>2
    <2>5. AfterWrite(a) \in Stages /\ AfterWrite(a) \notin {"open", "temp", "idle", "write", "remove"}
      BY <2>1 DEF Stages
    <2> QED
      BY <1>1, <1>3, <2>2, <2>3, <2>4, <2>5, LeavesFrom
  <1>8. CASE WriteFails(w) \/ BackupFails(w) \/ InstallFails(w)
    <2>1. PICK s \in Stages : Go(w, s, "remove")
      BY <1>8 DEF WriteFails, BackupFails, InstallFails, Stages
    <2>2. worker'[w] = "remove" /\ job'[w] = a
      BY <1>2, <2>1, GoSets
    <2>3. game'[a] = game[a] /\ a \in errs'
      BY <1>8 DEF WriteFails, BackupFails, InstallFails, Complain, files
    <2>4. WholeGame(a)' /\ "remove" \in Stages
      BY <2>3 DEF WholeGame, Excepted, Stages
    <2> QED
      BY <1>1, <1>3, <2>2, <2>3, <2>4, LeavesFrom
  <1>9. CASE RenameToBackup(w) \/ CreateBackup(w) \/ CopyToBackup(w)
    <2>1. PICK s \in {"backup", "copyBackup"}, t \in {"copyBackup", "install"} : Go(w, s, t)
      BY <1>9 DEF RenameToBackup, CreateBackup, CopyToBackup
    <2>2. worker[w] = s /\ worker'[w] = t /\ job'[w] = a /\ t \in Stages
      BY <1>2, <2>1, GoSets DEF Stages
    <2>3. game'[a] \in {game[a], NoFile}
      BY <1>2, <1>9 DEF RenameToBackup, CreateBackup, CopyToBackup
    <2>4. UNCHANGED <<temp, errs, excused>>
      BY <1>9 DEF RenameToBackup, CreateBackup, CopyToBackup
    <2>5. WholeTemp(a)'
      BY <1>1, <2>1, <2>2, <2>4 DEF SeenTo, WholeTemp, Excepted, CutOff
    <2> QED
      BY <1>1, <1>3, <2>1, <2>2, <2>3, <2>5, LeavesFrom
  <1>10. CASE RenameToGame(w)
    <2>1. worker[w] = "install" /\ worker'[w] = "idle"
      BY <1>2, <1>10, GoSets DEF RenameToGame
    <2>2. game'[a] = temp[a] /\ temp'[a] = NoFile /\ errs' = errs /\ excused' = excused
      BY <1>2, <1>10 DEF RenameToGame, Patch
    <2>3. temp[a].form \in {"patched", "part"} /\ WholeTemp(a)
      BY <1>1, <2>1 DEF SeenTo, StageInv, Stages
    <2>4. WholeGame(a)'
      BY <2>2, <2>3 DEF WholeTemp, WholeGame, Excepted
    <2> QED
      BY <1>3, <2>1, <2>2, <2>3, <2>4, LeavesFrom
  <1>11. CASE CreateGame(w)
    <2>1. worker[w] = "install" /\ worker'[w] = "copyInstall" /\ job'[w] = a
      BY <1>2, <1>11, GoSets DEF CreateGame
    <2>2. game'[a].form = "part" /\ UNCHANGED <<temp, errs, excused>>
      BY <1>1, <1>2, <1>11 DEF CreateGame, Patch, File
    <2>3. WholeTemp(a)' /\ "copyInstall" \in Stages
      BY <1>1, <2>1, <2>2 DEF SeenTo, WholeTemp, Excepted, CutOff, Stages
    <2> QED
      BY <1>3, <2>1, <2>2, <2>3, LeavesFrom
  <1>12. CASE CopyToGame(w)
    <2>1. worker[w] = "copyInstall" /\ worker'[w] = "remove" /\ job'[w] = a
      BY <1>2, <1>12, GoSets DEF CopyToGame
    <2>2. game'[a] = temp[a] /\ UNCHANGED <<temp, errs, excused>>
      BY <1>2, <1>12 DEF CopyToGame
    <2>3. temp[a].form \in {"patched", "part"} /\ WholeTemp(a)
      BY <1>1, <2>1 DEF SeenTo, StageInv, Stages
    <2>4. WholeGame(a)' /\ "remove" \in Stages
      BY <2>2, <2>3 DEF WholeTemp, WholeGame, Excepted, Stages
    <2> QED
      BY <1>3, <2>1, <2>2, <2>3, <2>4, LeavesFrom
  <1>13. CASE RemoveTemp(w)
    <2>1. worker[w] = "remove" /\ worker'[w] = "idle"
      BY <1>2, <1>13, GoSets DEF RemoveTemp
    <2>2. game'[a] = game[a] /\ temp'[a] = NoFile /\ errs' = errs /\ excused' = excused
      BY <1>2, <1>13 DEF RemoveTemp
    <2>3. WholeGame(a)'
      BY <1>1, <2>1, <2>2 DEF SeenTo, WholeGame, Excepted
    <2> QED
      BY <1>1, <1>3, <2>1, <2>2, <2>3, LeavesFrom
  <1> QED
    BY <1>3, <1>4, <1>5, <1>6, <1>7, <1>8, <1>9, <1>10, <1>11, <1>12, <1>13 DEF Handle

(* The steps of the pool and around the runs.                              *)
LEMMA PoolKeepsWhole ==
    ASSUME CrashSafe, CrashSafe', WholeInv, TypeOK',
           \/ Start \/ Kill \/ CloseQueue \/ Return \/ UNCHANGED vars
           \/ \E w \in Workers : Join(w)
           \/ \E w \in Workers, a \in Archives : Take(w, a)
           \/ \E a \in Archives : Download(a)
    PROVE  WholeInv'
  <1>1. CASE Start
    <2>1. \A a \in Archives : temp'[a] = NoFile /\ game'[a] = game[a] /\ a \in unsent'
          /\ (CutOff(a) => a \in excused')
      BY <1>1 DEF Start, files, WholeInv
    <2>2. /\ \A w \in Workers : ~AtWork(w)'
          /\ main' = "sending" /\ ~Stopped'
      BY <1>1 DEF Start, AtWork, Stages, Stopped
    <2> QED
      BY <2>1, <2>2 DEF WholeInv, WholeUnlessReported, Excepted, CutOff
  <1>2. CASE Kill
    <2>1. /\ \A w \in Workers : ~AtWork(w)'
          /\ main' = "off" /\ Stopped' /\ UNCHANGED game
          /\ \A a \in Archives : temp'[a] = NoFile
      BY <1>2 DEF Kill, AtWork, Stages, Stopped
    <2> QED
      BY <2>1 DEF WholeInv, WholeUnlessReported
  <1>3. ASSUME NEW a \in Archives, Download(a) PROVE WholeInv'
    <2>1. /\ main' = "off" /\ Stopped /\ Stopped' /\ UNCHANGED <<temp, worker, job>>
      BY <1>3 DEF Download, Stopped
    <2>3. \A w \in Workers : ~AtWork(w)'
      BY <2>1 DEF CrashSafe, AtWork
    <2> QED
      BY <2>1, <2>3 DEF WholeInv, WholeUnlessReported
  <1>4. CASE CloseQueue
    <2>1. UNCHANGED <<files, worker, job, errs, excused, unsent>> /\ unsent = {}
          /\ main = "sending" /\ main' = "joining" /\ ~Stopped /\ ~Stopped'
      BY <1>4 DEF CloseQueue, Stopped
    <2> QED
      BY <2>1 DEF WholeInv, WholeUnlessReported, files, AtWork, SeenTo, WholeGame, WholeTemp, Excepted, CutOff
  <1>5. CASE Return
    <2>1. UNCHANGED <<files, worker, job, errs, excused, unsent>> /\ unsent = {}
          /\ main = "joining" /\ main' = "returned" /\ ~Stopped /\ Stopped'
      BY <1>5 DEF Return, Stopped, WholeInv
    <2>2. \A w \in Workers : ~AtWork(w) /\ ~AtWork(w)'
      BY <2>1 DEF CrashSafe, AtWork
    <2>3. \A a \in Archives : temp[a] = NoFile /\ WholeGame(a)
      BY <2>1, <2>2 DEF WholeInv
    <2>4. WholeUnlessReported'
      BY <2>1, <2>3 DEF WholeUnlessReported, files, WholeGame, Excepted
    <2> QED
      BY <2>1, <2>2, <2>3, <2>4 DEF WholeInv, files
  <1>6. ASSUME NEW w \in Workers, Join(w) PROVE WholeInv'
    <2>1. UNCHANGED <<files, errs, excused, unsent, main>> /\ main = "joining"
          /\ worker[w] = "idle" /\ worker'[w] = "left" /\ ~Stopped /\ ~Stopped'
          /\ \A v \in Workers \ {w} : worker'[v] = worker[v] /\ job'[v] = job[v]
      BY <1>6 DEF Join, Go, Stopped, CrashSafe, WorkersOK
    <2>2. \A v \in Workers : /\ AtWork(v)' <=> AtWork(v)
                             /\ AtWork(v) => job'[v] = job[v] /\ worker'[v] = worker[v]
      BY <2>1 DEF AtWork, Stages
    <2> QED
      BY <2>1, <2>2 DEF WholeInv, WholeUnlessReported, files, SeenTo, WholeGame, WholeTemp, Excepted, CutOff
  <1>7. ASSUME NEW w \in Workers, NEW a \in Archives, Take(w, a) PROVE WholeInv'
    <2>1. /\ UNCHANGED <<files, errs, excused, main>> /\ main = "sending"
          /\ a \in unsent /\ unsent' = unsent \ {a}
          /\ worker[w] = "idle" /\ worker'[w] = "open" /\ job'[w] = a /\ ~Stopped /\ ~Stopped'
          /\ \A v \in Workers \ {w} : worker'[v] = worker[v] /\ job'[v] = job[v]
      BY <1>7 DEF Take, Stopped, CrashSafe, WorkersOK
    <2>2. ~AtWork(w) /\ AtWork(w)'
      BY <2>1 DEF AtWork, Stages
    <2>3. \A v \in Workers \ {w} : AtWork(v)' <=> AtWork(v)
      BY <2>1 DEF AtWork
    <2>4. \A v \in Workers : AtWork(v) => job[v] # a
      BY <2>1 DEF CrashSafe, StageInv
    <2>5. temp[a] = NoFile /\ (Excepted(a) \/ ~CutOff(a))
      BY <2>1, <2>4 DEF WholeInv
    <2>6. SeenTo(w)'
      BY <2>1, <2>5 DEF SeenTo, files, Excepted, CutOff
    <2>7. ASSUME NEW v \in Workers, v # w, AtWork(v)' PROVE SeenTo(v)'
      BY <2>1, <2>3, <2>7 DEF WholeInv, SeenTo, files, Excepted, CutOff, WholeGame, WholeTemp
    <2>8. ASSUME NEW b \in Archives, ~\E v \in Workers : AtWork(v)' /\ job'[v] = b
          PROVE  /\ temp'[b] = NoFile
                 /\ IF b \in unsent' THEN Excepted(b)' \/ ~CutOff(b)' ELSE WholeGame(b)'
      <3>1. b # a
        BY <2>1, <2>2, <2>8
      <3>2. ~\E v \in Workers : AtWork(v) /\ job[v] = b
        BY <2>1, <2>2, <2>3, <2>8
      <3>3. /\ temp[b] = NoFile
            /\ IF b \in unsent THEN Excepted(b) \/ ~CutOff(b) ELSE WholeGame(b)
        BY <2>1, <3>2 DEF WholeInv
      <3> QED
        BY <2>1, <3>1, <3>3 DEF files, Excepted, CutOff, WholeGame
    <2> QED
      BY <2>1, <2>6, <2>7, <2>8 DEF WholeInv, WholeUnlessReported
  <1>8. CASE UNCHANGED vars
    BY <1>8 DEF vars, history, files, pool, WholeInv, WholeUnlessReported, AtWork, SeenTo, WholeGame,
       WholeTemp, Excepted, CutOff, Stopped
  <1> QED
    BY <1>1, <1>2, <1>3, <1>4, <1>5, <1>6, <1>7, <1>8

(* At first every archive is whole and nobody is at work.                  *)
LEMMA InitWhole == Init => WholeInv
  <1> SUFFICES ASSUME Init PROVE WholeInv
    OBVIOUS
  <1>1. TypeOK
    BY InitEstablishes, ParallelAssumption, MaxRevAssumption DEF Init, TypeOK, CrashSafe
  <1>2. \A w \in Workers : ~AtWork(w)
    BY DEF Init, AtWork, Stages
  <1> QED
    BY <1>1, <1>2 DEF Init, WholeInv, WholeUnlessReported, Stopped, Original

(* Where each archive and its temporary file stand, for every stage of a     *)
(* worker of PatchFiles (trans.go:59-254).                                 *)
THEOREM WholeInvariant == Spec => []WholeInv
  <1>1. CrashSafe /\ CrashSafe' /\ WholeInv /\ [Next]_vars => WholeInv'
    <2> SUFFICES ASSUME CrashSafe, CrashSafe', WholeInv, [Next]_vars PROVE WholeInv'
      OBVIOUS
    <2>1. TypeOK'
      BY TypeStep DEF WholeInv
    <2>2. ASSUME NEW w \in Workers, Handle(w) PROVE WholeInv'
      <3>1. PICK a \in Archives : job[w] = a
        BY <2>2, OwnArchive
      <3>2. AtWork(w)
        BY <2>2, OwnArchive
      <3>3. OthersKeep(w, a) /\ Leaves(w, a)
        BY <2>2, <3>1, HandleLeaves
      <3> QED
        BY <2>1, <3>1, <3>2, <3>3, OwnWholeSuffices
    <2>3. CASE \/ Start \/ Kill \/ CloseQueue \/ Return \/ UNCHANGED vars
               \/ \E w \in Workers : Join(w)
               \/ \E w \in Workers, a \in Archives : Take(w, a)
               \/ \E a \in Archives : Download(a)
      BY <2>1, <2>3, PoolKeepsWhole
    <2> QED
      BY <2>2, <2>3 DEF Next, Work, Handle
  <1> QED
    BY InitWhole, <1>1, CrashSafety, PTL DEF Spec

(* When PatchFiles returns, every archive that it has not complained about is  *)
(* an original or patched to its end, and no temporary file is left, but for   *)
(* those it found cut off or whose write error it dropped (trans.go:183-238).  *)
THEOREM ReturnsWhole == Spec => []WholeUnlessReported
  <1>1. WholeInv => WholeUnlessReported
    BY DEF WholeInv
  <1> QED
    BY <1>1, WholeInvariant, PTL
=============================================================================
