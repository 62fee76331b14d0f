----------------------------- MODULE MainProofs -----------------------------
(***************************************************************************)
(* Proofs about the two halves of pso2-download's main: Updater, for any    *)
(* files, versions and command lines, and Launcher, for any launchers and   *)
(* command lines.                                                          *)
(*                                                                         *)
(* The installed list vouches for nothing that is not on disk, and a run    *)
(* that meets no failure updates, restores and prunes as it should, however *)
(* the runs before it ended; a game that finds a DLL finds the settings of  *)
(* its own command line, and the DLL is there for somebody or was left     *)
(* behind.                                                                 *)
(***************************************************************************)
EXTENDS Updater, Launcher, TLAPS

-----------------------------------------------------------------------------
(* Updater: patch lists.                                                   *)

(* Versions are numbered from 1.                                           *)
LEMMA VersionsAreNumbers ==
    /\ Versions \subseteq Nat \ {0} /\ 1 \in Versions
    /\ \A v \in Versions : Listed[v] \in PatchLists /\ ListedOld[v] \in PatchLists
  BY ListsAssumption

(* What a patch list is.                                                   *)
LEMMA PatchListShape ==
    ASSUME NEW l
    PROVE  l \in PatchLists <=>
              /\ l = [f \in DOMAIN l |-> l[f]] /\ DOMAIN l \subseteq Files
              /\ \A f \in DOMAIN l : l[f] \in Revisions
  <1>1. ASSUME l \in PatchLists
        PROVE  /\ l = [f \in DOMAIN l |-> l[f]] /\ DOMAIN l \subseteq Files
               /\ \A f \in DOMAIN l : l[f] \in Revisions
    <2>1. PICK S \in SUBSET Files : l \in [S -> Revisions]
      BY <1>1 DEF PatchLists
    <2> QED
      BY <2>1
  <1>2. ASSUME l = [f \in DOMAIN l |-> l[f]], DOMAIN l \subseteq Files,
               \A f \in DOMAIN l : l[f] \in Revisions
        PROVE  l \in PatchLists
    <2>1. l \in [DOMAIN l -> Revisions]
      BY <1>2
    <2> QED
      BY <1>2, <2>1 DEF PatchLists
  <1> QED
    BY <1>1, <1>2

(* A list that is torn, and two lists merged, are lists.                   *)
LEMMA TornShape ==
    ASSUME NEW l \in PatchLists, NEW t \in Torn(l)
    PROVE  /\ t \in PatchLists /\ t # NoList /\ l # NoList
           /\ DOMAIN t \subseteq DOMAIN l /\ \A f \in DOMAIN t : t[f] = l[f]
  <1>1. PICK S \in SUBSET DOMAIN l : t = [f \in S |-> l[f]]
    BY DEF Torn
  <1>2. /\ DOMAIN l \subseteq Files
        /\ \A f \in DOMAIN l : l[f] \in Revisions
    BY PatchListShape
  <1>3. /\ DOMAIN t \subseteq DOMAIN l /\ \A f \in DOMAIN t : t[f] = l[f]
        /\ t = [f \in DOMAIN t |-> t[f]]
    BY <1>1
  <1>4. t \in PatchLists
    BY <1>2, <1>3, PatchListShape
  <1> QED
    BY <1>3, <1>4, ListsAssumption

LEMMA MergeShape ==
    ASSUME NEW p \in PatchLists, NEW po \in PatchLists
    PROVE  /\ MergeOld(p, po) \in PatchLists /\ MergeOld(p, po) # NoList
           /\ p # NoList /\ po # NoList
           /\ DOMAIN MergeOld(p, po) = DOMAIN p \cup DOMAIN po
           /\ \A f \in DOMAIN p : MergeOld(p, po)[f] = p[f]
           /\ \A f \in DOMAIN po \ DOMAIN p : MergeOld(p, po)[f] = po[f]
  <1>1. /\ DOMAIN p \subseteq Files /\ \A f \in DOMAIN p : p[f] \in Revisions
        /\ DOMAIN po \subseteq Files /\ \A f \in DOMAIN po : po[f] \in Revisions
    BY PatchListShape
  <1>2. /\ DOMAIN MergeOld(p, po) = DOMAIN p \cup DOMAIN po
        /\ \A f \in DOMAIN p : MergeOld(p, po)[f] = p[f]
        /\ \A f \in DOMAIN po \ DOMAIN p : MergeOld(p, po)[f] = po[f]
        /\ MergeOld(p, po) = [f \in DOMAIN MergeOld(p, po) |-> MergeOld(p, po)[f]]
    BY DEF MergeOld
  <1>3. MergeOld(p, po) \in PatchLists
    <2>1. \A f \in DOMAIN MergeOld(p, po) : MergeOld(p, po)[f] \in Revisions
      BY <1>1, <1>2
    <2>2. DOMAIN MergeOld(p, po) \subseteq Files
      BY <1>1, <1>2
    <2> QED
      BY <1>2, <2>1, <2>2, PatchListShape
  <1> QED
    BY <1>2, <1>3, ListsAssumption

LEMMA MergeNames ==
    ASSUME NEW p \in PatchLists, NEW po \in PatchLists
    PROVE  /\ Names(p) = DOMAIN p /\ Names(po) = DOMAIN po
           /\ Names(MergeOld(p, po)) = DOMAIN p \cup DOMAIN po
           /\ \A f \in DOMAIN p : MergeOld(p, po)[f] = p[f]
           /\ \A f \in DOMAIN po \ DOMAIN p : MergeOld(p, po)[f] = po[f]
  <1>1. p # NoList /\ po # NoList /\ MergeOld(p, po) # NoList
    BY MergeShape
  <1>2. DOMAIN MergeOld(p, po) = DOMAIN p \cup DOMAIN po
    BY DEF MergeOld
  <1>3. /\ \A f \in DOMAIN p : MergeOld(p, po)[f] = p[f]
        /\ \A f \in DOMAIN po \ DOMAIN p : MergeOld(p, po)[f] = po[f]
    BY DEF MergeOld
  <1> QED
    BY <1>1, <1>2, <1>3 DEF Names

LEMMA PublishedShape ==
    ASSUME NEW v \in Versions
    PROVE  /\ Published[v] \in PatchLists
           /\ DOMAIN Published[v] \subseteq Files
           /\ \A f \in DOMAIN Published[v] : Published[v][f] \in Revisions
           /\ DOMAIN Published[v] = DOMAIN Listed[v] \cup DOMAIN ListedOld[v]
           /\ \A f \in DOMAIN Listed[v] : Published[v][f] = Listed[v][f]
           /\ \A f \in DOMAIN ListedOld[v] \ DOMAIN Listed[v] : Published[v][f] = ListedOld[v][f]
  <1>1. Listed[v] \in PatchLists /\ ListedOld[v] \in PatchLists
    BY VersionsAreNumbers
  <1>2. Published[v] = MergeOld(Listed[v], ListedOld[v])
    BY DEF Published
  <1>3. Published[v] \in PatchLists
    BY <1>1, <1>2, MergeShape
  <1>4. /\ DOMAIN Published[v] \subseteq Files
        /\ \A f \in DOMAIN Published[v] : Published[v][f] \in Revisions
    BY <1>3, PatchListShape
  <1>5. /\ DOMAIN Published[v] = DOMAIN Listed[v] \cup DOMAIN ListedOld[v]
        /\ \A f \in DOMAIN Listed[v] : Published[v][f] = Listed[v][f]
        /\ \A f \in DOMAIN ListedOld[v] \ DOMAIN Listed[v] : Published[v][f] = ListedOld[v][f]
    BY DEF Published, MergeOld
  <1> QED
    BY <1>3, <1>4, <1>5

-----------------------------------------------------------------------------
(* Lists and what they are behind.                                         *)

(* A list is from the versions up to any later one, too.                   *)
LEMMA SourcesGrow ==
    ASSUME NEW l, NEW v \in Versions, NEW w \in Versions, v <= w
    PROVE  /\ FromMain(l, v) => FromMain(l, w)
           /\ FromOld(l, v) => FromOld(l, w)
           /\ FromEither(l, v) => FromEither(l, w)
  <1>1. \A u \in Versions : u <= v => u <= w
    BY VersionsAreNumbers
  <1>2. FromMain(l, v) => FromMain(l, w)
    BY <1>1 DEF FromMain
  <1>3. FromOld(l, v) => FromOld(l, w)
    BY <1>1 DEF FromOld
  <1>4. FromEither(l, v) => FromEither(l, w)
    BY <1>1 DEF FromEither
  <1> QED
    BY <1>2, <1>3, <1>4

LEMMA MainOrOldIsEither ==
    ASSUME NEW l, NEW v
    PROVE  /\ FromMain(l, v) => FromEither(l, v)
           /\ FromOld(l, v) => FromEither(l, v)
  BY DEF FromMain, FromOld, FromEither, Gives

LEMMA TornFrom ==
    ASSUME NEW l \in PatchLists, NEW t \in Torn(l), NEW v
    PROVE  /\ FromMain(l, v) => FromMain(t, v)
           /\ FromOld(l, v) => FromOld(t, v)
           /\ FromEither(l, v) => FromEither(t, v)
  BY TornShape DEF FromMain, FromOld, FromEither, Names

LEMMA MergeFrom ==
    ASSUME NEW p \in PatchLists, NEW po \in PatchLists, NEW v, FromMain(p, v), FromOld(po, v)
    PROVE  FromEither(MergeOld(p, po), v)
  <1> SUFFICES ASSUME NEW f \in Names(MergeOld(p, po))
               PROVE  \E u \in Versions : u <= v /\ Gives(u, f, MergeOld(p, po)[f])
    BY DEF FromEither
  <1>1. /\ f \in DOMAIN p \/ f \in DOMAIN po \ DOMAIN p
        /\ Names(p) = DOMAIN p /\ Names(po) = DOMAIN po
        /\ f \in DOMAIN p => MergeOld(p, po)[f] = p[f]
        /\ f \in DOMAIN po \ DOMAIN p => MergeOld(p, po)[f] = po[f]
    BY MergeNames
  <1>2. CASE f \in DOMAIN p
    BY <1>1, <1>2 DEF FromMain, Gives
  <1>3. CASE f \in DOMAIN po \ DOMAIN p
    BY <1>1, <1>3 DEF FromOld, Gives
  <1> QED
    BY <1>1, <1>2, <1>3

LEMMA FetchedFrom ==
    ASSUME NEW v \in Versions
    PROVE  /\ FromMain(Listed[v], v) /\ FromOld(ListedOld[v], v)
           /\ Listed[v] # NoList /\ ListedOld[v] # NoList
           /\ \A f \in Files : ~Stale(Listed[v], f, v) /\ ~Stale(ListedOld[v], f, v)
  <1>1. Listed[v] # NoList /\ ListedOld[v] # NoList
    BY VersionsAreNumbers, ListsAssumption
  <1>2. FromMain(Listed[v], v) /\ FromOld(ListedOld[v], v)
    BY <1>1, VersionsAreNumbers DEF FromMain, FromOld, Names
  <1>3. ASSUME NEW f \in Files PROVE ~Stale(Listed[v], f, v)
    BY <1>1, PublishedShape DEF Stale, Fresh, Names
  <1>4. ASSUME NEW f \in Files PROVE ~Stale(ListedOld[v], f, v)
    <2>1. v <= v
      BY VersionsAreNumbers
    <2>2. f \in DOMAIN ListedOld[v] \cap DOMAIN Listed[v] => ListedOld[v][f] = Listed[v][f]
      BY <2>1, PublishingAssumption
    <2> QED
      BY <1>1, <2>2, PublishedShape DEF Stale, Fresh, Names
  <1> QED
    BY <1>1, <1>2, <1>3, <1>4

(* A revision of a list that is published next was published before.       *)
LEMMA FreshBefore ==
    ASSUME NEW l, NEW v \in Versions, NEW w \in Versions, v <= w, NEW f \in Files,
           FromEither(l, v), Fresh(l, f, w)
    PROVE  /\ Fresh(l, f, v)
           /\ f \in DOMAIN Published[v] /\ Published[v][f] = Published[w][f]
  <1>1. PICK u \in Versions : u <= v /\ Gives(u, f, l[f])
    BY DEF FromEither, Fresh
  <1>2. f \in DOMAIN Published[w] /\ l[f] = Published[w][f] /\ f \in Names(l)
    BY DEF Fresh
  <1>3. Gives(u, f, Published[w][f])
    BY <1>1, <1>2
  <1>4. f \in DOMAIN Published[v] /\ Published[v][f] = Published[w][f]
    BY <1>1, <1>2, <1>3, PublishingAssumption
  <1> QED
    BY <1>2, <1>4 DEF Fresh

LEMMA StaleBefore ==
    ASSUME NEW l, NEW v, NEW w, NEW f, Stale(l, f, w),
           f \in DOMAIN Published[v], Published[v][f] = Published[w][f],
           f \in DOMAIN Published[w]
    PROVE  Stale(l, f, v)
  BY DEF Stale, Fresh

(* No list from old lists is behind one from main lists.                   *)
LEMMA OldNotBehindMain ==
    ASSUME NEW p, NEW po, NEW v \in Versions, NEW f \in Files,
           FromMain(p, v), FromOld(po, v), Fresh(p, f, v)
    PROVE  ~Stale(po, f, v)
  <1>1. SUFFICES ASSUME f \in Names(po) PROVE po[f] = Published[v][f]
    BY DEF Stale, Fresh
  <1>2. f \in DOMAIN Published[v] /\ p[f] = Published[v][f] /\ f \in Names(p)
    BY DEF Fresh
  <1>3. PICK u \in Versions : u <= v /\ f \in DOMAIN Listed[u] /\ p[f] = Listed[u][f]
    BY <1>2 DEF FromMain
  <1>4. PICK w \in Versions : w <= v /\ f \in DOMAIN ListedOld[w] /\ po[f] = ListedOld[w][f]
    BY <1>1 DEF FromOld
  <1>5. CASE w <= u
    <2>1. ListedOld[w][f] = Listed[u][f]
      BY <1>3, <1>4, <1>5, PublishingAssumption
    <2> QED
      BY <1>2, <1>3, <1>4, <2>1
  <1>6. CASE u <= w
    <2>1. Gives(u, f, Published[v][f])
      BY <1>2, <1>3 DEF Gives
    <2>2. f \in DOMAIN Published[w] /\ Published[w][f] = Published[v][f]
      BY <1>2, <1>4, <1>6, <2>1, PublishingAssumption
    <2>3. ListedOld[w][f] = Published[w][f]
      BY FetchedFrom, <1>4 DEF Stale, Fresh, Names
    <2> QED
      BY <1>4, <2>2, <2>3
  <1>7. w <= u \/ u <= w
    BY VersionsAreNumbers
  <1> QED
    BY <1>5, <1>6, <1>7

LEMMA TornNotAhead ==
    ASSUME NEW l \in PatchLists, NEW t \in Torn(l), NEW f, NEW v
    PROVE  /\ Fresh(t, f, v) => Fresh(l, f, v)
           /\ Stale(t, f, v) => Stale(l, f, v)
  <1>1. f \in Names(t) => f \in Names(l) /\ t[f] = l[f]
    BY TornShape DEF Names
  <1> QED
    BY <1>1 DEF Fresh, Stale

LEMMA MergeNotAhead ==
    ASSUME NEW p \in PatchLists, NEW po \in PatchLists, NEW f, NEW v
    PROVE  /\ Fresh(MergeOld(p, po), f, v) => Fresh(p, f, v) \/ (Fresh(po, f, v) /\ f \notin Names(p))
           /\ Stale(MergeOld(p, po), f, v) => Stale(p, f, v) \/ Stale(po, f, v)
  <1>1. /\ f \in Names(MergeOld(p, po)) => f \in Names(p) \/ (f \in Names(po) /\ f \notin Names(p))
        /\ f \in Names(p) => MergeOld(p, po)[f] = p[f]
        /\ f \in Names(po) /\ f \notin Names(p) => MergeOld(p, po)[f] = po[f]
    BY MergeNames
  <1> QED
    BY <1>1 DEF Fresh, Stale

-----------------------------------------------------------------------------
(* Types.                                                                  *)

LEMMA LoadShape ==
    ASSUME TypeOK
    PROVE  /\ LoadPatchlist \in PatchLists \cup {NoList}
           /\ LoadPatchlist = NoList <=> patchFile = NoList
  <1>1. patchFile \in PatchLists \cup {NoList} /\ oldFile \in PatchLists \cup {NoList}
    BY DEF TypeOK
  <1>2. CASE patchFile = NoList \/ oldFile = NoList
    BY <1>1, <1>2 DEF LoadPatchlist
  <1>3. CASE patchFile # NoList /\ oldFile # NoList
    <2>1. patchFile \in PatchLists /\ oldFile \in PatchLists
      BY <1>1, <1>3
    <2>2. MergeOld(patchFile, oldFile) \in PatchLists /\ MergeOld(patchFile, oldFile) # NoList
      BY <2>1, MergeShape
    <2> QED
      BY <1>3, <2>2 DEF LoadPatchlist
  <1> QED
    BY <1>2, <1>3

(* The list in memory is a list when it is used.                           *)
LEMMA MemoryShape ==
    ASSUME TypeOK, LocalsFit,
           pc \in {"fetchOld", "writeList", "writeOld", "writeVersion"} \cup Deciding \cup Ending
    PROVE  /\ patchlist \in PatchLists /\ patchlist # NoList
           /\ DOMAIN patchlist \subseteq Files /\ Names(patchlist) = DOMAIN patchlist
           /\ \A f \in DOMAIN patchlist : patchlist[f] \in Revisions
  <1>1. patchlist \in PatchLists /\ patchlist # NoList
    BY DEF TypeOK, LocalsFit
  <1> QED
    BY <1>1, PatchListShape DEF Names

(* The steps of PatchFiles that meet no failure, and what they leave alone. *)
PatchSteps ==
    \/ QueryArchives \/ TranslateDone
    \/ \E f \in Files : Translate(f) \/ Skip(f) \/ MoveToBackup(f) \/ Truncate(f) \/ Install(f)

LEMMA PatchStepsKeep ==
    PatchSteps =>
        /\ UNCHANGED <<server, english, lists, locals, clean, lost, damaged>>
        /\ \/ pc = "translate" /\ pc' = "patch"
           \/ pc = "patch" /\ pc' = "patch"
           \/ pc = "patch" /\ pc' = "done"
  <1> SUFFICES ASSUME PatchSteps
               PROVE  /\ UNCHANGED <<server, english, lists, locals, clean, lost, damaged>>
                      /\ \/ pc = "translate" /\ pc' = "patch"
                         \/ pc = "patch" /\ pc' = "patch"
                         \/ pc = "patch" /\ pc' = "done"
    OBVIOUS
  <1>1. CASE QueryArchives \/ TranslateDone
    BY <1>1 DEF QueryArchives, TranslateDone, Go, world, gameFiles, history
  <1>2. CASE \E f \in Files : Translate(f) \/ Skip(f)
    BY <1>2 DEF Translate, Skip, InHand, world, history
  <1>3. CASE \E f \in Files : MoveToBackup(f) \/ Truncate(f) \/ Install(f)
    BY <1>3 DEF MoveToBackup, Truncate, Install, InHand, Put, world
  <1> QED
    BY <1>1, <1>2, <1>3 DEF PatchSteps

(* A worker puts nothing in an archive's place, a file cut off, or what it  *)
(* has built; every other step of PatchFiles leaves the game's files alone. *)
Puts(f) ==
    \/ Put(f, Missing) /\ temp' = temp
    \/ Put(f, [rev |-> temp[f].rev, form |-> "short"]) /\ temp' = temp
    \/ Put(f, temp[f]) /\ temp' = [temp EXCEPT ![f] = Missing]

LEMMA PatchStepsPut ==
    PatchSteps =>
        \/ UNCHANGED <<disk, spoiled>>
        \/ \E f \in Files : Puts(f) /\ temp[f] # Missing
  BY DEF PatchSteps, QueryArchives, TranslateDone, Translate, Skip, MoveToBackup, Truncate, Install,
     Puts, InHand, gameFiles, history

LEMMA FileShape ==
    ASSUME TypeOK, NEW f \in Files
    PROVE  /\ disk[f] \in FileStates /\ temp[f] \in FileStates
           /\ ~Whole(Missing) /\ Missing \in FileStates
           /\ \A file \in FileStates \ {Missing}, form \in Forms \ {"missing"} :
                 /\ file \in [rev : Revisions, form : Forms \ {"missing"}]
                 /\ [rev |-> file.rev, form |-> form] \in FileStates
  BY DEF TypeOK, FileStates, Whole, Missing

LEMMA PatchTypes ==
    ASSUME TypeOK, PatchSteps
    PROVE  /\ disk' \in [Files -> FileStates] /\ temp' \in [Files -> FileStates]
           /\ spoiled' \subseteq Files /\ unpatched' \subseteq Files
           /\ patched' \in BOOLEAN
  <1>1. /\ disk \in [Files -> FileStates] /\ temp \in [Files -> FileStates]
        /\ spoiled \subseteq Files /\ unpatched \subseteq Files /\ patched \in BOOLEAN
    BY DEF TypeOK
  <1>2. CASE QueryArchives \/ TranslateDone
    BY <1>1, <1>2, TranslatableAssumption DEF QueryArchives, TranslateDone, gameFiles, history
  <1>3. ASSUME NEW f \in Files, Translate(f)
        PROVE  temp' \in [Files -> FileStates] /\ UNCHANGED <<disk, spoiled, unpatched, patched>>
    <2>1. PICK form \in {"translated", "short"} :
             temp' = [temp EXCEPT ![f] = [rev |-> disk[f].rev, form |-> form]]
      BY <1>3 DEF Translate
    <2>2. [rev |-> disk[f].rev, form |-> form] \in FileStates
      <3>1. disk[f] \in FileStates \ {Missing} /\ form \in Forms \ {"missing"}
        BY <1>1, <1>3 DEF Translate, Forms
      <3> QED
        BY <3>1, FileShape
    <2> QED
      BY <1>1, <1>3, <2>1, <2>2 DEF Translate, history
  <1>4. ASSUME NEW f \in Files, Skip(f)
        PROVE  unpatched' \subseteq Files /\ UNCHANGED <<disk, temp, spoiled, patched>>
    BY <1>1, <1>4 DEF Skip, history
  <1>5. ASSUME NEW f \in Files, NEW file \in FileStates, Put(f, file)
        PROVE  disk' \in [Files -> FileStates] /\ spoiled' \subseteq Files /\ patched' = patched
    BY <1>1, <1>5 DEF Put
  <1>6. ASSUME NEW f \in Files, MoveToBackup(f) \/ Truncate(f) \/ Install(f)
        PROVE  /\ disk' \in [Files -> FileStates] /\ temp' \in [Files -> FileStates]
               /\ spoiled' \subseteq Files /\ unpatched' \subseteq Files
               /\ patched' \in BOOLEAN
    <2>1. temp[f] \in FileStates /\ temp[f] # Missing /\ Missing \in FileStates
      BY <1>6, FileShape DEF MoveToBackup, Truncate, Install
    <2>2. [rev |-> temp[f].rev, form |-> "short"] \in FileStates
      BY <2>1, FileShape DEF Forms
    <2>3. CASE MoveToBackup(f)
      BY <1>1, <1>5, <2>1, <2>3 DEF MoveToBackup
    <2>4. CASE Truncate(f)
      BY <1>1, <1>5, <2>2, <2>4 DEF Truncate
    <2>5. CASE Install(f)
      <3>1. unpatched' \subseteq Files /\ temp' \in [Files -> FileStates]
        BY <1>1, <2>1, <2>5 DEF Install
      <3> QED
        BY <1>1, <1>5, <2>1, <2>5, <3>1 DEF Install
    <2> QED
      BY <1>6, <2>3, <2>4, <2>5
  <1> QED
    BY <1>1, <1>2, <1>3, <1>4, <1>6 DEF PatchSteps

LEMMA TypeStep ==
    ASSUME TypeOK, LocalsFit, [Next]_vars
    PROVE  TypeOK'
  <1> USE DEF world, lists, gameFiles, locals, history
  <1>1. CASE Start \/ Stop \/ UNCHANGED vars
    BY <1>1 DEF TypeOK, Start, Stop, ResetLocals, vars, PCs, FileStates
  <1>2. CASE FetchVersion \/ FetchVersionFails
    BY <1>2 DEF TypeOK, FetchVersion, FetchVersionFails, Go, PCs
  <1>3. CASE EnglishUpToDate \/ EnglishFails \/ EnglishCreate \/ EnglishCopy
    BY <1>3 DEF TypeOK, EnglishUpToDate, EnglishFails, EnglishCreate, EnglishCopy, Go, PCs
  <1>4. CASE Load
    BY <1>4, LoadShape DEF TypeOK, Load, Go, PCs
  <1>5. CASE FetchList
    <2>1. patchlist' \in PatchLists
      BY <1>5, VersionsAreNumbers DEF TypeOK, FetchList
    <2> QED
      BY <1>5, <2>1 DEF TypeOK, FetchList, Go, PCs
  <1>6. CASE FetchOld
    <2>1. patchlist \in PatchLists
      BY <1>6, MemoryShape DEF FetchOld, Go
    <2>2. patchFile' \in PatchLists /\ patchlistOld' \in PatchLists
      BY <1>6, <2>1, TornShape, VersionsAreNumbers DEF TypeOK, FetchOld
    <2> QED
      BY <1>6, <2>2 DEF TypeOK, FetchOld, Go, PCs
  <1>7. CASE WriteList
    <2>1. patchlistOld \in PatchLists
      BY <1>7 DEF TypeOK, LocalsFit, WriteList, Go
    <2>2. oldFile' \in PatchLists
      BY <1>7, <2>1, TornShape DEF WriteList
    <2> QED
      BY <1>7, <2>2 DEF TypeOK, WriteList, Go, PCs
  <1>8. CASE WriteOld
    <2>1. patchlistOld \in PatchLists /\ patchlist \in PatchLists
      BY <1>8 DEF TypeOK, LocalsFit, WriteOld, Go
    <2>2. patchlist' \in PatchLists
      BY <1>8, <2>1, MergeShape DEF WriteOld
    <2> QED
      BY <1>8, <2>1, <2>2 DEF TypeOK, WriteOld, Go, PCs
  <1>9. CASE WriteVersion \/ CommitWrite \/ CommitFails
    BY <1>9 DEF TypeOK, WriteVersion, CommitWrite, CommitFails, Go, PCs
  <1>10. CASE FindChanges
    <2>1. patchlist \in PatchLists /\ DOMAIN patchlist \subseteq Files
      BY <1>10, MemoryShape DEF FindChanges, Deciding
    <2>2. Diff(patchlist, installed) \subseteq Files
      BY <2>1 DEF Diff
    <2>3. changes' \subseteq Files
      BY <1>10, <2>2 DEF FindChanges, CheckFiles
    <2>4. pc' \in {"commit", "download", "prune"}
      BY <1>10 DEF FindChanges
    <2> QED
      BY <1>10, <2>3, <2>4 DEF TypeOK, FindChanges, PCs
  <1>11. ASSUME NEW f \in Files, Download(f) PROVE TypeOK'
    <2>1. patchlist[f] \in Revisions
      BY <1>11, PublishedShape DEF TypeOK, Download, Available
    <2>2. disk' \in [Files -> FileStates]
      BY <1>11, <2>1 DEF TypeOK, Download, FileStates, Forms
    <2> QED
      BY <1>11, <2>2 DEF TypeOK, Download
  <1>12. ASSUME NEW f \in Files, DownloadFails(f) PROVE TypeOK'
    <2>1. disk' \in [Files -> FileStates]
      <3>1. CASE UNCHANGED disk
        BY <3>1 DEF TypeOK
      <3>2. ASSUME NEW form \in {"intact", "short", "corrupt"}, f \in DOMAIN Published[server],
                   disk' = [disk EXCEPT ![f] = [rev |-> Published[server][f], form |-> form]]
            PROVE  disk' \in [Files -> FileStates]
        <4>1. Published[server][f] \in Revisions
          BY <3>2, PublishedShape DEF TypeOK
        <4> QED
          BY <3>2, <4>1 DEF TypeOK, FileStates, Forms
      <3> QED
        BY <1>12, <3>1, <3>2 DEF DownloadFails
    <2>2. damaged' \subseteq Files /\ patched' \in BOOLEAN /\ changes' \subseteq Files
      BY <1>12 DEF TypeOK, DownloadFails
    <2> QED
      BY <1>12, <2>1, <2>2 DEF TypeOK, DownloadFails
  <1>13. ASSUME NEW f \in Files, Prune(f) PROVE TypeOK'
    BY <1>13 DEF TypeOK, Prune, FileStates
  <1>14. CASE DownloadDone \/ PruneDone \/ PruneFails
    BY <1>14 DEF TypeOK, DownloadDone, PruneDone, PruneFails, Go, PCs
  <1>15. CASE CommitCreate
    <2>1. patchlist \in PatchLists
      BY <1>15, MemoryShape DEF CommitCreate, Go, Deciding
    <2>2. instFile' \in PatchLists
      BY <1>15, <2>1, TornShape DEF CommitCreate
    <2> QED
      BY <1>15, <2>2 DEF TypeOK, CommitCreate, Go, PCs
  <1>16. CASE PatchSteps \/ TranslateFails \/ TranslateWithout
    <2>1. CASE PatchSteps
      <3>1. UNCHANGED <<server, english, lists, locals, clean, lost, damaged>>
        BY <2>1, PatchStepsKeep
      <3>2. pc' \in PCs
        BY <2>1, PatchStepsKeep DEF PCs
      <3> QED
        BY <2>1, <3>1, <3>2, PatchTypes DEF TypeOK
    <2>2. CASE TranslateFails \/ TranslateWithout
      BY <2>2 DEF TypeOK, TranslateFails, TranslateWithout, Go, PCs, FileStates
    <2> QED
      BY <1>16, <2>1, <2>2
  <1>17. CASE Publish \/ PublishEnglish
    BY <1>17 DEF TypeOK, Publish, PublishEnglish
  <1> QED
    BY <1>1, <1>2, <1>3, <1>4, <1>5, <1>6, <1>7, <1>8, <1>9, <1>10, <1>11, <1>12, <1>13, <1>14,
       <1>15, <1>16, <1>17 DEF Next, PatchSteps

-----------------------------------------------------------------------------
(* Where lists come from.                                                  *)

(* The steps that change a list or what is published.                      *)
ListSteps ==
    \/ Start \/ Stop \/ Load \/ FetchList \/ FetchOld \/ WriteList \/ WriteOld
    \/ CommitCreate \/ CommitWrite \/ Publish

LEMMA OtherStepsKeepLists ==
    ASSUME [Next]_vars, ~ListSteps
    PROVE  UNCHANGED <<server, patchFile, oldFile, instFile, patchlist, patchlistOld>>
  BY PatchStepsKeep DEF Next, vars, world, lists, gameFiles, locals, history, ListSteps,
     FetchVersion, FetchVersionFails, EnglishUpToDate, EnglishFails, EnglishCreate, EnglishCopy,
     WriteVersion, FindChanges, Download, DownloadFails, Prune, DownloadDone, CommitFails,
     PruneDone, PruneFails, PatchSteps, TranslateFails, TranslateWithout, PublishEnglish

LEMMA LoadedFrom ==
    ASSUME TypeOK, Sources
    PROVE  FromEither(LoadPatchlist, server)
  <1>1. patchFile \in PatchLists \cup {NoList} /\ oldFile \in PatchLists \cup {NoList}
    BY DEF TypeOK
  <1>2. FromMain(patchFile, server) /\ FromOld(oldFile, server)
    BY DEF Sources
  <1>3. CASE patchFile = NoList \/ oldFile = NoList
    BY <1>2, <1>3, MainOrOldIsEither DEF LoadPatchlist
  <1>4. CASE patchFile # NoList /\ oldFile # NoList
    <2>1. patchFile \in PatchLists /\ oldFile \in PatchLists
      BY <1>1, <1>4
    <2>2. FromEither(MergeOld(patchFile, oldFile), server)
      BY <1>2, <2>1, MergeFrom
    <2> QED
      BY <1>4, <2>2 DEF LoadPatchlist
  <1> QED
    BY <1>3, <1>4

LEMMA NothingFromAnywhere ==
    ASSUME NEW v PROVE FromMain(NoList, v) /\ FromOld(NoList, v) /\ FromEither(NoList, v)
  BY DEF FromMain, FromOld, FromEither, Names

LEMMA SourcesStep ==
    ASSUME TypeOK, Sources, LocalsFit, [Next]_vars
    PROVE  Sources'
  <1>1. /\ FromMain(patchFile, server) /\ FromOld(oldFile, server)
        /\ FromOld(patchlistOld, server)
        /\ FromEither(patchlist, server) /\ FromEither(instFile, server)
    BY DEF Sources
  <1>2. server \in Versions
    BY DEF TypeOK
  <1>3. CASE ~ListSteps
    BY <1>1, <1>3, OtherStepsKeepLists DEF Sources
  <1>4. CASE Start \/ Stop
    <2>1. UNCHANGED <<server, patchFile, oldFile, instFile>> /\ patchlist' = NoList /\ patchlistOld' = NoList
      BY <1>4 DEF Start, Stop, ResetLocals, lists, world
    <2> QED
      BY <1>1, <2>1, NothingFromAnywhere DEF Sources
  <1>5. CASE Load
    <2>1. UNCHANGED <<server, patchFile, oldFile, instFile, patchlistOld>> /\ patchlist' = LoadPatchlist
      BY <1>5 DEF Load, lists, world
    <2> QED
      BY <1>1, <2>1, LoadedFrom DEF Sources
  <1>6. CASE FetchList
    <2>1. UNCHANGED <<server, patchFile, oldFile, instFile, patchlistOld>> /\ patchlist' = Listed[server]
      BY <1>6 DEF FetchList, lists, world
    <2>2. FromEither(Listed[server], server)
      BY <1>2, FetchedFrom, MainOrOldIsEither
    <2> QED
      BY <1>1, <2>1, <2>2 DEF Sources
  <1>7. CASE FetchOld
    <2>1. /\ UNCHANGED <<server, oldFile, instFile, patchlist>>
          /\ patchlistOld' = ListedOld[server] /\ patchFile' \in Torn(patchlist)
      BY <1>7 DEF FetchOld, world
    <2>2. patchlist \in PatchLists /\ FromMain(patchlist, server)
      BY <1>7, MemoryShape DEF LocalsFit, FetchOld, Go
    <2>3. FromMain(patchFile', server)
      BY <2>1, <2>2, TornFrom
    <2>4. FromOld(ListedOld[server], server)
      BY <1>2, FetchedFrom
    <2> QED
      BY <1>1, <2>1, <2>3, <2>4 DEF Sources
  <1>8. CASE WriteList
    <2>1. /\ UNCHANGED <<server, instFile, patchlist, patchlistOld>>
          /\ patchFile' = patchlist /\ oldFile' \in Torn(patchlistOld)
      BY <1>8 DEF WriteList, world, locals
    <2>2. patchlistOld \in PatchLists /\ FromMain(patchlist, server)
      BY <1>8 DEF LocalsFit, TypeOK, WriteList, Go
    <2>3. FromOld(oldFile', server)
      BY <1>1, <2>1, <2>2, TornFrom
    <2> QED
      BY <1>1, <2>1, <2>2, <2>3 DEF Sources
  <1>9. CASE WriteOld
    <2>1. /\ UNCHANGED <<server, instFile, patchFile>>
          /\ oldFile' = patchlistOld /\ patchlist' = MergeOld(patchlist, patchlistOld)
          /\ patchlistOld' = NoList
      BY <1>9 DEF WriteOld, world
    <2>2. patchlistOld \in PatchLists /\ patchlist \in PatchLists /\ FromMain(patchlist, server)
      BY <1>9 DEF LocalsFit, TypeOK, WriteOld, Go
    <2>3. FromEither(MergeOld(patchlist, patchlistOld), server)
      BY <1>1, <2>2, MergeFrom
    <2> QED
      BY <1>1, <2>1, <2>3, NothingFromAnywhere DEF Sources
  <1>10. CASE CommitCreate \/ CommitWrite
    <2>1. UNCHANGED <<server, patchFile, oldFile, patchlist, patchlistOld>>
          /\ (instFile' = patchlist \/ instFile' \in Torn(patchlist))
      BY <1>10 DEF CommitCreate, CommitWrite, world, locals
    <2>2. patchlist \in PatchLists
      BY <1>10, MemoryShape DEF CommitCreate, CommitWrite, Go, Deciding
    <2>3. FromEither(instFile', server)
      BY <1>1, <2>1, <2>2, TornFrom
    <2> QED
      BY <1>1, <2>1, <2>3 DEF Sources
  <1>11. CASE Publish
    <2>1. UNCHANGED <<patchFile, oldFile, instFile, patchlist, patchlistOld>>
          /\ server' \in Versions /\ server <= server'
      BY <1>2, <1>11, VersionsAreNumbers DEF Publish, lists, locals
    <2>2. /\ FromMain(patchFile, server') /\ FromOld(oldFile, server')
          /\ FromOld(patchlistOld, server')
          /\ FromEither(patchlist, server') /\ FromEither(instFile, server')
      BY <1>1, <1>2, <2>1, SourcesGrow
    <2> QED
      BY <2>1, <2>2 DEF Sources
  <1> QED
    BY <1>3, <1>4, <1>5, <1>6, <1>7, <1>8, <1>9, <1>10, <1>11 DEF ListSteps

(* What the list in memory says of a file no list on disk is behind.       *)
LEMMA LoadedNotAhead ==
    ASSUME TypeOK, Sources, NEW f \in Files
    PROVE  /\ Fresh(LoadPatchlist, f, server) =>
                 ~Stale(patchFile, f, server) /\ ~Stale(oldFile, f, server)
           /\ Stale(LoadPatchlist, f, server) =>
                 Stale(patchFile, f, server) \/ Stale(oldFile, f, server)
  <1>1. patchFile \in PatchLists \cup {NoList} /\ oldFile \in PatchLists \cup {NoList} /\ server \in Versions
    BY DEF TypeOK
  <1>2. FromMain(patchFile, server) /\ FromOld(oldFile, server)
    BY DEF Sources
  <1>3. Fresh(patchFile, f, server) => ~Stale(oldFile, f, server) /\ ~Stale(patchFile, f, server)
    BY <1>1, <1>2, OldNotBehindMain DEF Stale
  <1>4. CASE patchFile = NoList \/ oldFile = NoList
    BY <1>3, <1>4 DEF LoadPatchlist, Fresh, Stale, Names
  <1>5. CASE patchFile # NoList /\ oldFile # NoList
    <2>1. patchFile \in PatchLists /\ oldFile \in PatchLists
      BY <1>1, <1>5
    <2>2. /\ Fresh(MergeOld(patchFile, oldFile), f, server) =>
                Fresh(patchFile, f, server) \/ (Fresh(oldFile, f, server) /\ f \notin Names(patchFile))
          /\ Stale(MergeOld(patchFile, oldFile), f, server) =>
                Stale(patchFile, f, server) \/ Stale(oldFile, f, server)
      BY <2>1, MergeNotAhead
    <2>3. /\ f \notin Names(patchFile) => ~Stale(patchFile, f, server)
          /\ Fresh(oldFile, f, server) => ~Stale(oldFile, f, server)
      BY DEF Stale
    <2> QED
      BY <1>3, <1>5, <2>2, <2>3 DEF LoadPatchlist
  <1> QED
    BY <1>4, <1>5

LEMMA NothingStale == ASSUME NEW f, NEW v PROVE ~Stale(NoList, f, v) /\ ~Fresh(NoList, f, v)
  BY DEF Stale, Fresh, Names

LEMMA NotAheadStep ==
    ASSUME TypeOK, Sources, LocalsFit, InstalledNotAhead, [Next]_vars
    PROVE  InstalledNotAhead'
  <1>1. server \in Versions
    BY DEF TypeOK
  <1>2. \A f \in Files : Fresh(instFile, f, server) =>
          /\ ~Stale(patchFile, f, server) /\ ~Stale(oldFile, f, server)
          /\ ~Stale(patchlist, f, server) /\ ~Stale(patchlistOld, f, server)
    BY DEF InstalledNotAhead
  <1>3. SUFFICES ASSUME NEW f \in Files, Fresh(instFile', f, server')
        PROVE  /\ ~Stale(patchFile', f, server') /\ ~Stale(oldFile', f, server')
               /\ ~Stale(patchlist', f, server') /\ ~Stale(patchlistOld', f, server')
    BY DEF InstalledNotAhead
  <1>4. CASE ~ListSteps
    BY <1>2, <1>3, <1>4, OtherStepsKeepLists
  <1>5. CASE Start \/ Stop
    <2>1. UNCHANGED <<server, patchFile, oldFile, instFile>> /\ patchlist' = NoList /\ patchlistOld' = NoList
      BY <1>5 DEF Start, Stop, ResetLocals, lists, world
    <2> QED
      BY <1>2, <1>3, <2>1, NothingStale
  <1>6. CASE Load
    <2>1. UNCHANGED <<server, patchFile, oldFile, instFile, patchlistOld>> /\ patchlist' = LoadPatchlist
      BY <1>6 DEF Load, lists, world
    <2> QED
      BY <1>2, <1>3, <2>1, LoadedNotAhead
  <1>7. CASE FetchList
    <2>1. UNCHANGED <<server, patchFile, oldFile, instFile, patchlistOld>> /\ patchlist' = Listed[server]
      BY <1>7 DEF FetchList, lists, world
    <2> QED
      BY <1>1, <1>2, <1>3, <2>1, FetchedFrom
  <1>8. CASE FetchOld
    <2>1. /\ UNCHANGED <<server, oldFile, instFile, patchlist>>
          /\ patchlistOld' = ListedOld[server] /\ patchFile' \in Torn(patchlist)
      BY <1>8 DEF FetchOld, world
    <2>2. patchlist \in PatchLists
      BY <1>8, MemoryShape DEF FetchOld, Go
    <2>3. Stale(patchFile', f, server) => Stale(patchlist, f, server)
      BY <2>1, <2>2, TornNotAhead
    <2> QED
      BY <1>1, <1>2, <1>3, <2>1, <2>3, FetchedFrom
  <1>9. CASE WriteList
    <2>1. /\ UNCHANGED <<server, instFile, patchlist, patchlistOld>>
          /\ patchFile' = patchlist /\ oldFile' \in Torn(patchlistOld)
      BY <1>9 DEF WriteList, world, locals
    <2>2. patchlistOld \in PatchLists
      BY <1>9 DEF LocalsFit, TypeOK, WriteList, Go
    <2>3. Stale(oldFile', f, server) => Stale(patchlistOld, f, server)
      BY <2>1, <2>2, TornNotAhead
    <2> QED
      BY <1>2, <1>3, <2>1, <2>3
  <1>10. CASE WriteOld
    <2>1. /\ UNCHANGED <<server, instFile, patchFile>>
          /\ oldFile' = patchlistOld /\ patchlist' = MergeOld(patchlist, patchlistOld)
          /\ patchlistOld' = NoList
      BY <1>10 DEF WriteOld, world
    <2>2. patchlistOld \in PatchLists /\ patchlist \in PatchLists
      BY <1>10 DEF LocalsFit, TypeOK, WriteOld, Go
    <2>3. Stale(patchlist', f, server) =>
             Stale(patchlist, f, server) \/ Stale(patchlistOld, f, server)
      BY <2>1, <2>2, MergeNotAhead
    <2> QED
      BY <1>2, <1>3, <2>1, <2>3, NothingStale
  <1>11. CASE CommitCreate \/ CommitWrite
    <2>1. UNCHANGED <<server, patchFile, oldFile, patchlist, patchlistOld>>
          /\ (instFile' = patchlist \/ instFile' \in Torn(patchlist))
      BY <1>11 DEF CommitCreate, CommitWrite, world, locals
    <2>2. patchlist \in PatchLists
      BY <1>11, MemoryShape DEF CommitCreate, CommitWrite, Go, Deciding
    <2>3. patchlist = LoadPatchlist /\ patchlistOld = NoList
      BY <1>11 DEF LocalsFit, CommitCreate, CommitWrite, Go, Deciding
    <2>4. Fresh(patchlist, f, server)
      BY <1>3, <2>1, <2>2, TornNotAhead
    <2>5. ~Stale(patchlist, f, server)
      BY <2>4 DEF Stale
    <2>6. ~Stale(patchFile, f, server) /\ ~Stale(oldFile, f, server)
      BY <2>3, <2>4, LoadedNotAhead
    <2> QED
      BY <2>1, <2>3, <2>5, <2>6, NothingStale
  <1>12. CASE Publish
    <2>1. UNCHANGED <<patchFile, oldFile, instFile, patchlist, patchlistOld>>
          /\ server' \in Versions /\ server <= server'
      BY <1>1, <1>12, VersionsAreNumbers DEF Publish, lists, locals
    <2>2. FromEither(instFile, server)
      BY DEF Sources
    <2>3. /\ Fresh(instFile, f, server)
          /\ f \in DOMAIN Published[server] /\ Published[server][f] = Published[server'][f]
      BY <1>1, <1>3, <2>1, <2>2, FreshBefore
    <2>4. f \in DOMAIN Published[server']
      BY <1>3 DEF Fresh
    <2>5. \A l : Stale(l, f, server') => Stale(l, f, server)
      BY <2>3, <2>4, StaleBefore
    <2> QED
      BY <1>2, <2>1, <2>3, <2>5
  <1> QED
    BY <1>4, <1>5, <1>6, <1>7, <1>8, <1>9, <1>10, <1>11, <1>12 DEF ListSteps

(* What the variables of main hold.                                        *)
LEMMA LocalsStep ==
    ASSUME TypeOK, Sources, Sources', LocalsFit, [Next]_vars
    PROVE  LocalsFit'
  <1> USE DEF Fetching, Deciding, Ending
  <1>1. CASE UNCHANGED vars \/ PublishEnglish
    BY <1>1 DEF LocalsFit, vars, PublishEnglish, world, lists, locals, LoadPatchlist, Diff
  <1>2. CASE Start \/ Stop
    BY <1>2 DEF LocalsFit, Start, Stop, ResetLocals
  <1>3. CASE FetchVersion \/ FetchVersionFails \/ EnglishUpToDate \/ EnglishFails \/ EnglishCreate
             \/ EnglishCopy
    BY <1>3 DEF LocalsFit, FetchVersion, FetchVersionFails, EnglishUpToDate, EnglishFails,
       EnglishCreate, EnglishCopy, locals, Go
  <1>4. CASE Load
    <2>1. MustFetch \/ LoadPatchlist # NoList
      BY DEF MustFetch
    <2>2. /\ pc = "load" /\ pc' = IF MustFetch THEN "fetchList" ELSE "diff"
          /\ UNCHANGED <<patchFile, oldFile, instFile, flags, patchlistOld, changes>>
          /\ patchlist' = LoadPatchlist /\ installed' = IF "a" \in flags THEN NoList ELSE instFile
      BY <1>4 DEF Load, Go, lists
    <2> QED
      BY <2>1, <2>2 DEF LocalsFit, LoadPatchlist
  <1>5. CASE FetchList
    <2>1. /\ pc = "fetchList" /\ pc' = "fetchOld"
          /\ UNCHANGED <<server, instFile, flags, installed, patchlistOld, changes>>
          /\ patchlist' = Listed[server]
      BY <1>5 DEF FetchList, Go, lists, world
    <2>2. Listed[server] # NoList /\ FromMain(Listed[server], server)
      BY FetchedFrom DEF TypeOK
    <2> QED
      BY <2>1, <2>2 DEF LocalsFit
  <1>6. CASE FetchOld
    <2>1. /\ pc = "fetchOld" /\ pc' = "writeList"
          /\ UNCHANGED <<server, instFile, flags, installed, patchlist, changes>>
          /\ patchlistOld' = ListedOld[server]
      BY <1>6 DEF FetchOld, Go, world
    <2>2. ListedOld[server] # NoList
      BY FetchedFrom DEF TypeOK
    <2> QED
      BY <2>1, <2>2 DEF LocalsFit
  <1>7. CASE WriteList
    BY <1>7 DEF WriteList, Go, world, locals, LocalsFit
  <1>8. CASE WriteOld
    <2>1. /\ pc = "writeOld" /\ pc' = "writeVersion"
          /\ UNCHANGED <<instFile, flags, installed, changes, patchFile>>
          /\ oldFile' = patchlistOld /\ patchlist' = MergeOld(patchlist, patchlistOld)
          /\ patchlistOld' = NoList
      BY <1>8 DEF WriteOld, Go, world
    <2>2. patchlistOld \in PatchLists /\ patchlist \in PatchLists /\ patchFile = patchlist
      BY <1>8 DEF LocalsFit, TypeOK, WriteOld, Go
    <2>3. MergeOld(patchlist, patchlistOld) # NoList /\ patchlistOld # NoList /\ patchlist # NoList
      BY <2>2, MergeShape
    <2> QED
      BY <2>1, <2>2, <2>3 DEF LocalsFit, LoadPatchlist
  <1>9. CASE WriteVersion
    BY <1>9 DEF WriteVersion, Go, locals, LocalsFit, LoadPatchlist
  <1>10. CASE FindChanges
    <2>1. /\ pc = "diff" /\ pc' \in {"commit", "download", "prune"}
          /\ UNCHANGED <<patchFile, oldFile, instFile, flags, patchlist, patchlistOld, installed>>
      BY <1>10 DEF FindChanges, lists
    <2>2. changes' \subseteq Diff(patchlist, installed) /\ (pc' # "download" => changes' = {})
      BY <1>10 DEF FindChanges, CheckFiles
    <2> QED
      BY <2>1, <2>2 DEF LocalsFit, LoadPatchlist, Diff
  <1>11. ASSUME NEW f \in Files, Download(f) \/ DownloadFails(f) PROVE LocalsFit'
    BY <1>11 DEF Download, DownloadFails, lists, LocalsFit, LoadPatchlist, Diff
  <1>12. CASE DownloadDone
    BY <1>12 DEF DownloadDone, Go, lists, LocalsFit, LoadPatchlist
  <1>13. CASE CommitCreate \/ CommitWrite \/ CommitFails
    BY <1>13 DEF CommitCreate, CommitWrite, CommitFails, Go, lists, locals, LocalsFit, LoadPatchlist
  <1>14. ASSUME NEW f \in Files, Prune(f) PROVE LocalsFit'
    BY <1>14 DEF Prune, lists, locals, LocalsFit, LoadPatchlist
  <1>15. CASE PruneDone \/ PruneFails \/ PatchSteps \/ TranslateFails \/ TranslateWithout
    BY <1>15, PatchStepsKeep DEF PruneDone, PruneFails, TranslateFails, TranslateWithout, Go, lists, locals,
       LocalsFit, LoadPatchlist
  <1>16. CASE Publish
    <2>1. /\ UNCHANGED <<lists, locals, pc>>
          /\ server' \in Versions /\ server \in Versions /\ server <= server'
      BY <1>16, VersionsAreNumbers DEF Publish, TypeOK
    <2>2. FromMain(patchlist, server) => FromMain(patchlist, server')
      BY <2>1, SourcesGrow
    <2> QED
      BY <2>1, <2>2 DEF LocalsFit, lists, locals, LoadPatchlist, Diff
  <1> QED
    BY <1>1, <1>2, <1>3, <1>4, <1>5, <1>6, <1>7, <1>8, <1>9, <1>10, <1>11, <1>12, <1>13, <1>14,
       <1>15, <1>16 DEF Next, PatchSteps

-----------------------------------------------------------------------------
(* The game's files.                                                       *)

(* UpToDate, of a file on disk d as of version v.                           *)
UpToDateAt(d, f, v) == d[f].rev = Published[v][f] /\ Whole(d[f])

(* List l is right about the files on disk d, but for some excused.         *)
RightAbout(l, some, d, v) ==
    \A f \in Names(l) \ some : Fresh(l, f, v) => UpToDateAt(d, f, v)

LEMMA HonestIsRight ==
    /\ InstalledIsHonest <=> RightAbout(instFile, lost \cup damaged \cup spoiled, disk, server)
    /\ Settled <=> RightAbout(patchlist, lost \cup damaged \cup spoiled \cup changes, disk, server)
    /\ \A f : UpToDate(f) <=> UpToDateAt(disk, f, server)
  BY DEF InstalledIsHonest, Settled, RightAbout, UpToDate, UpToDateAt, Fresh, Names

LEMMA HonestIsRightNext ==
    /\ InstalledIsHonest' <=> RightAbout(instFile', lost' \cup damaged' \cup spoiled', disk', server')
    /\ Settled' <=> RightAbout(patchlist', lost' \cup damaged' \cup spoiled' \cup changes', disk', server')
  BY DEF InstalledIsHonest, Settled, RightAbout, UpToDate, UpToDateAt, Fresh, Names

(* The steps that change the game's files or what is excused.              *)
DiskSteps ==
    \/ \E f \in Files : Download(f) \/ DownloadFails(f) \/ Prune(f)
    \/ PatchSteps \/ Publish

LEMMA OtherStepsKeepDisk ==
    ASSUME [Next]_vars, ~DiskSteps
    PROVE  UNCHANGED <<server, disk, lost, damaged, spoiled>>
  BY DEF Next, PatchSteps, TranslateFails, vars, world, lists, gameFiles, locals, history, DiskSteps, Start, Stop, ResetLocals,
     FetchVersion, FetchVersionFails, EnglishUpToDate, EnglishFails, EnglishCreate, EnglishCopy,
     Load, FetchList, FetchOld, WriteList, WriteOld, CommitCreate, CommitWrite,
     WriteVersion, FindChanges, DownloadDone, CommitFails,
     PruneDone, PruneFails, TranslateWithout, PublishEnglish

(* A file that is up to date stays so, but for a download that fails: if it *)
(* is touched by anything else, it is up to date after it, or excused.      *)
LEMMA FileKeeps ==
    ASSUME TypeOK, [Next]_vars, NEW f \in Files, NEW l, FromEither(l, server),
           Fresh(l, f, server'), f \notin lost' \cup damaged' \cup spoiled', ~DownloadFails(f),
           f \notin lost \cup damaged \cup spoiled /\ Fresh(l, f, server) => UpToDateAt(disk, f, server),
           f \notin lost \cup damaged /\ Fresh(l, f, server) /\ Whole(temp[f]) =>
              temp[f].rev = Published[server][f]
    PROVE  UpToDateAt(disk', f, server')
  <1>1. server \in Versions /\ disk \in [Files -> FileStates]
    BY DEF TypeOK
  <1>2. CASE ~DiskSteps
    BY <1>2, OtherStepsKeepDisk
  <1>3. CASE Publish
    <2>1. server' \in Versions /\ server <= server' /\ UNCHANGED <<disk, lost, damaged, spoiled>>
      BY <1>1, <1>3, VersionsAreNumbers DEF Publish, gameFiles
    <2>2. Fresh(l, f, server) /\ Published[server][f] = Published[server'][f]
      BY <1>1, <2>1, FreshBefore
    <2> QED
      BY <2>1, <2>2 DEF UpToDateAt
  <1>4. CASE PatchSteps
    <2>1. UNCHANGED <<server, lost, damaged>> /\ Fresh(l, f, server)
      BY <1>4, PatchStepsKeep
    <2>2. CASE UNCHANGED <<disk, spoiled>>
      BY <2>1, <2>2
    <2>3. ASSUME NEW g \in Files, Puts(g) PROVE UpToDateAt(disk', f, server')
      <3>1. PICK file : Put(g, file) /\ (Whole(file) => file = temp[g])
        BY <2>3 DEF Puts, Whole, Missing
      <3>2. CASE f # g
        <4>1. disk'[f] = disk[f] /\ (f \in spoiled => f \in spoiled')
          BY <1>1, <3>1, <3>2 DEF Put
        <4>2. UpToDateAt(disk, f, server)
          BY <2>1, <4>1
        <4> QED
          BY <2>1, <4>1, <4>2 DEF UpToDateAt
      <3>3. CASE f = g
        <4>1. disk'[f] = file /\ spoiled' = IF Whole(file) THEN spoiled \ {f}
                  ELSE IF Whole(disk[f]) THEN spoiled \cup {f} ELSE spoiled
          BY <1>1, <3>1, <3>3 DEF Put
        <4>2. CASE Whole(file)
          BY <2>1, <3>1, <3>3, <4>1, <4>2 DEF UpToDateAt
        <4>3. CASE ~Whole(file)
          <5>1. ~Whole(disk[f]) /\ f \notin spoiled
            BY <4>1, <4>3
          <5> QED
            BY <2>1, <5>1 DEF UpToDateAt
        <4> QED
          BY <4>2, <4>3
      <3> QED
        BY <3>2, <3>3
    <2> QED
      BY <1>4, <2>2, <2>3, PatchStepsPut
  <1>5. ASSUME NEW g \in Files, Download(g) PROVE UpToDateAt(disk', f, server')
    <2>1. /\ disk' = [disk EXCEPT ![g] = [rev |-> patchlist[g], form |-> "intact"]]
          /\ UNCHANGED server /\ lost' = lost \ {g} /\ damaged' = damaged \ {g}
          /\ spoiled' = spoiled \ {g} /\ Published[server][g] = patchlist[g]
      BY <1>5 DEF Download, Available, world
    <2>2. CASE f = g
      BY <1>1, <2>1, <2>2 DEF UpToDateAt, Whole
    <2>3. CASE f # g
      <3>1. disk'[f] = disk[f] /\ UpToDateAt(disk, f, server)
        BY <1>1, <2>1, <2>3
      <3> QED
        BY <2>1, <3>1 DEF UpToDateAt
    <2> QED
      BY <2>2, <2>3
  <1>6. ASSUME NEW g \in Files, DownloadFails(g) \/ Prune(g), f # g
        PROVE  UpToDateAt(disk', f, server')
    <2>1. disk'[f] = disk[f] /\ UNCHANGED server /\ lost \subseteq lost' /\ damaged \subseteq damaged'
          /\ spoiled \subseteq spoiled' \cup {g}
      BY <1>1, <1>6 DEF DownloadFails, Prune, world
    <2>2. UpToDateAt(disk, f, server)
      BY <1>6, <2>1
    <2> QED
      BY <2>1, <2>2 DEF UpToDateAt
  <1>7. CASE Prune(f)
    <2>1. f \in DOMAIN Published[server]
      BY <1>7 DEF Fresh, Prune, world
    <2> QED
      BY <1>7, <2>1 DEF Prune
  <1> QED
    BY <1>2, <1>3, <1>4, <1>5, <1>6, <1>7 DEF DiskSteps

(* Outside PatchFiles nothing is built; a worker builds from what is right. *)
LEMMA WorkersStep ==
    ASSUME TypeOK, WorkersFit, [Next]_vars
    PROVE  WorkersFit'
  <1>1. \A f \in Files : /\ temp[f] # Missing => pc = "patch" /\ f \in unpatched
                         /\ f \in spoiled => ~Whole(disk[f])
    BY DEF WorkersFit
  <1>2. /\ disk \in [Files -> FileStates] /\ temp \in [Files -> FileStates]
        /\ ~Whole(Missing)
    BY FileShape DEF TypeOK, Whole, Missing
  <1>3. SUFFICES ASSUME NEW f \in Files
                 PROVE  /\ temp'[f] # Missing => pc' = "patch" /\ f \in unpatched'
                        /\ f \in spoiled' => ~Whole(disk'[f])
    BY DEF WorkersFit
  <1>4. CASE Stop \/ TranslateFails
    BY <1>1, <1>3, <1>4 DEF Stop, TranslateFails, ResetLocals, history
  <1>5. CASE QueryArchives \/ TranslateDone
    BY <1>1, <1>3, <1>5 DEF QueryArchives, TranslateDone, Go, gameFiles, history
  <1>6. ASSUME NEW g \in Files, Translate(g) \/ Skip(g)
        PROVE  /\ temp'[f] # Missing => pc' = "patch" /\ f \in unpatched'
               /\ f \in spoiled' => ~Whole(disk'[f])
    BY <1>1, <1>3, <1>2, <1>6 DEF Translate, Skip, InHand, history
  <1>7. ASSUME NEW g \in Files, MoveToBackup(g) \/ Truncate(g) \/ Install(g)
        PROVE  /\ temp'[f] # Missing => pc' = "patch" /\ f \in unpatched'
               /\ f \in spoiled' => ~Whole(disk'[f])
    <2>1. PICK file : Put(g, file)
      BY <1>7 DEF MoveToBackup, Truncate, Install
    <2>2. f \in spoiled' => ~Whole(disk'[f])
      BY <1>1, <1>3, <1>2, <2>1 DEF Put
    <2>3. temp'[f] # Missing => f \in unpatched'
      BY <1>1, <1>3, <1>2, <1>7 DEF MoveToBackup, Truncate, Install
    <2>4. pc' = "patch"
      BY <1>7, <2>1 DEF MoveToBackup, Truncate, Install, InHand, Put
    <2> QED
      BY <2>2, <2>3, <2>4
  <1>8. ASSUME NEW g \in Files, Download(g) \/ DownloadFails(g) \/ Prune(g)
        PROVE  /\ temp'[f] # Missing => pc' = "patch" /\ f \in unpatched'
               /\ f \in spoiled' => ~Whole(disk'[f])
    <2>1. pc # "patch" /\ temp' = temp /\ pc' = pc
      BY <1>8 DEF Download, DownloadFails, Prune
    <2>2. f \in spoiled' => f \in spoiled /\ (f = g => ~Whole(disk'[f]))
      BY <1>1, <1>3, <1>2, <1>8 DEF Download, DownloadFails, Prune
    <2>3. f # g => disk'[f] = disk[f]
      BY <1>2, <1>8 DEF Download, DownloadFails, Prune
    <2> QED
      BY <1>1, <1>3, <2>1, <2>2, <2>3
  <1>9. CASE Publish \/ PublishEnglish \/ UNCHANGED vars
    BY <1>1, <1>3, <1>9 DEF Publish, PublishEnglish, vars, gameFiles, history
  <1>10. CASE /\ UNCHANGED gameFiles /\ spoiled' = spoiled /\ pc # "patch"
    BY <1>1, <1>3, <1>10 DEF gameFiles
  <1>11. ASSUME ~(Stop \/ TranslateFails \/ PatchSteps \/ Publish \/ PublishEnglish \/ UNCHANGED vars),
                ~\E g \in Files : Download(g) \/ DownloadFails(g) \/ Prune(g)
         PROVE  UNCHANGED gameFiles /\ spoiled' = spoiled /\ pc # "patch"
    BY <1>11 DEF Next, PatchSteps, history, Go, Start, Load, FetchList, FetchOld, WriteList, WriteOld,
       FetchVersion, FetchVersionFails, EnglishUpToDate, EnglishFails, EnglishCreate, EnglishCopy,
       WriteVersion, FindChanges, DownloadDone, CommitCreate, CommitWrite, CommitFails, PruneDone,
       PruneFails, TranslateWithout
  <1> QED
    BY <1>4, <1>5, <1>6, <1>7, <1>8, <1>9, <1>10, <1>11 DEF PatchSteps

(* BuiltFrom, of what is built in t, as of version v.                       *)
BuiltAt(l, some, t, v) ==
    \A f \in Names(l) \ some : Fresh(l, f, v) /\ Whole(t[f]) => t[f].rev = Published[v][f]

LEMMA BuiltIsBuilt ==
    /\ BuiltFrom(instFile) <=> BuiltAt(instFile, lost \cup damaged, temp, server)
    /\ BuiltFrom(patchlist) <=> BuiltAt(patchlist, lost \cup damaged, temp, server)
  BY DEF BuiltFrom, BuiltAt

LEMMA BuiltIsBuiltNext ==
    /\ BuiltFrom(instFile)' <=> BuiltAt(instFile', lost' \cup damaged', temp', server')
    /\ BuiltFrom(patchlist)' <=> BuiltAt(patchlist', lost' \cup damaged', temp', server')
  BY DEF BuiltFrom, BuiltAt, Fresh, Names

LEMMA NothingBuilt ==
    ASSUME NEW l \in PatchLists \cup {NoList}, NEW t, NEW some, NEW v, \A f \in Files : t[f] = Missing
    PROVE  BuiltAt(l, some, t, v)
  <1>1. Names(l) \subseteq Files
    BY PatchListShape DEF Names
  <1> QED
    BY <1>1 DEF BuiltAt, Whole, Missing

LEMMA BuiltStep ==
    ASSUME TypeOK, WorkersFit, [Next]_vars, NEW l \in PatchLists \cup {NoList}, FromEither(l, server),
           RightAbout(l, lost \cup damaged \cup spoiled, disk, server),
           BuiltAt(l, lost \cup damaged, temp, server)
    PROVE  BuiltAt(l, lost' \cup damaged', temp', server')
  <1>1. /\ server \in Versions /\ temp \in [Files -> FileStates] /\ ~Whole(Missing)
        /\ Names(l) \subseteq Files
    BY PatchListShape DEF TypeOK, Names, Whole, Missing
  <1>2. ASSUME \A f \in Files : temp'[f] = Missing
        PROVE  BuiltAt(l, lost' \cup damaged', temp', server')
    BY <1>2, NothingBuilt
  <1>3. CASE pc # "patch" /\ ~\E f \in Files : Translate(f) \/ MoveToBackup(f) \/ Truncate(f) \/ Install(f)
    <2>1. \A f \in Files : temp[f] = Missing
      BY <1>3 DEF WorkersFit
    <2>2. \A f \in Files : temp'[f] = Missing
      BY <1>3, <2>1 DEF Next, vars, gameFiles, Start, Stop, ResetLocals, Load, FetchList, FetchOld,
         WriteList, WriteOld, FetchVersion, FetchVersionFails, EnglishUpToDate, EnglishFails,
         EnglishCreate, EnglishCopy, WriteVersion, FindChanges, Download, DownloadFails, Prune,
         DownloadDone, CommitCreate, CommitWrite, CommitFails, PruneDone, PruneFails, QueryArchives,
         Skip, TranslateDone, TranslateFails, TranslateWithout, Publish, PublishEnglish
    <2> QED
      BY <1>2, <2>2
  <1>4. CASE Stop \/ TranslateFails
    BY <1>2, <1>4 DEF Stop, TranslateFails, ResetLocals
  <1>5. CASE Publish
    <2>1. /\ server' \in Versions /\ server <= server' /\ UNCHANGED <<temp, lost, damaged>>
      BY <1>1, <1>5, VersionsAreNumbers DEF Publish, gameFiles
    <2>2. SUFFICES ASSUME NEW f \in Names(l) \ (lost \cup damaged), Fresh(l, f, server'), Whole(temp[f])
                   PROVE  temp[f].rev = Published[server'][f]
      BY <2>1 DEF BuiltAt
    <2>3. Fresh(l, f, server) /\ Published[server][f] = Published[server'][f]
      BY <1>1, <2>1, <2>2, FreshBefore
    <2> QED
      BY <2>2, <2>3 DEF BuiltAt
  <1>6. CASE PatchSteps
    <2>1. UNCHANGED <<server, lost, damaged>>
      BY <1>6, PatchStepsKeep
    <2>2. SUFFICES ASSUME NEW f \in Names(l) \ (lost \cup damaged), Fresh(l, f, server), Whole(temp'[f])
                   PROVE  temp'[f].rev = Published[server][f]
      BY <2>1 DEF BuiltAt
    <2>3. CASE temp'[f] = temp[f]
      BY <2>2, <2>3 DEF BuiltAt
    <2>4. ASSUME NEW g \in Files, Translate(g), temp'[f] # temp[f]
          PROVE  temp'[f].rev = Published[server][f]
      <3>1. g = f /\ temp'[f].rev = disk[f].rev /\ Whole(disk[f])
        BY <1>1, <2>2, <2>4 DEF Translate, Whole
      <3>2. f \notin spoiled
        BY <1>1, <2>2, <3>1 DEF WorkersFit
      <3> QED
        BY <2>2, <3>1, <3>2 DEF RightAbout, UpToDateAt
    <2>5. temp'[f] = temp[f] \/ temp'[f] = Missing \/ \E g \in Files : Translate(g)
      BY <1>1, <1>6 DEF PatchSteps, QueryArchives, TranslateDone, Skip, MoveToBackup, Truncate, Install, gameFiles
    <2> QED
      BY <1>1, <2>2, <2>3, <2>4, <2>5
  <1>7. CASE PublishEnglish \/ UNCHANGED vars
    BY <1>7 DEF PublishEnglish, vars, world, gameFiles, history
  <1>8. ASSUME pc = "patch"
        PROVE  Stop \/ TranslateFails \/ Publish \/ PatchSteps \/ PublishEnglish \/ UNCHANGED vars
    BY <1>8 DEF Next, PatchSteps, Go, Start, Load, FetchList, FetchOld, WriteList, WriteOld,
       FetchVersion, FetchVersionFails, EnglishUpToDate, EnglishFails, EnglishCreate, EnglishCopy,
       WriteVersion, FindChanges, Download, DownloadFails, Prune, DownloadDone, CommitCreate,
       CommitWrite, CommitFails, PruneDone, PruneFails, TranslateWithout
  <1> QED
    BY <1>3, <1>4, <1>5, <1>6, <1>7, <1>8 DEF PatchSteps

(* The installed list, too, survives a download that fails: it does not vouch *)
(* for what is in memory to be downloaded.                                 *)
LEMMA HonestStep ==
    ASSUME HonestInv, [Next]_vars
    PROVE  InstalledIsHonest'
  <1>1. /\ TypeOK /\ LocalsFit /\ Sources /\ InstalledNotAhead
        /\ RightAbout(instFile, lost \cup damaged \cup spoiled, disk, server)
        /\ server \in Versions /\ FromEither(instFile, server)
        /\ instFile \in PatchLists \cup {NoList} /\ disk \in [Files -> FileStates]
        /\ BuiltFrom(instFile)
    BY HonestIsRight DEF HonestInv, Sources, TypeOK
  <1>2. SUFFICES ASSUME NEW f \in Names(instFile') \ (lost' \cup damaged' \cup spoiled'), Fresh(instFile', f, server')
        PROVE  UpToDateAt(disk', f, server')
    BY HonestIsRightNext DEF RightAbout
  <1>3. CASE CommitCreate \/ CommitWrite
    <2>1. UNCHANGED <<server, disk, lost, damaged, spoiled, patchlist>> /\ patchlist \in PatchLists
          /\ (instFile' = patchlist \/ instFile' \in Torn(patchlist))
          /\ changes = {} /\ Settled
      <3>1. pc \in {"commit", "committing"}
        BY <1>3 DEF CommitCreate, CommitWrite, Go
      <3>2. patchlist \in PatchLists
        BY <1>1, <3>1, MemoryShape DEF Deciding
      <3>3. changes = {} /\ Settled
        BY <1>1, <3>1 DEF HonestInv, LocalsFit
      <3> QED
        BY <1>3, <3>2, <3>3 DEF CommitCreate, CommitWrite, world, locals, gameFiles, history
    <2>2. Fresh(patchlist, f, server)
      BY <1>2, <2>1, TornNotAhead
    <2>3. RightAbout(patchlist, lost \cup damaged \cup spoiled \cup changes, disk, server)
      BY <2>1, HonestIsRight
    <2>4. f \in Names(patchlist) \ (lost \cup damaged \cup spoiled \cup changes)
      BY <1>2, <2>1, <2>2 DEF Fresh
    <2>5. UpToDateAt(disk, f, server)
      BY <2>2, <2>3, <2>4 DEF RightAbout
    <2> QED
      BY <2>1, <2>5
  <1>4. CASE ~(CommitCreate \/ CommitWrite)
    <2>1. instFile' = instFile
      BY <1>4, PatchStepsKeep
         DEF Next, vars, world, lists, gameFiles, locals, history, Start, Stop, Load, FetchList, FetchOld,
         WriteList, WriteOld, FetchVersion, FetchVersionFails, EnglishUpToDate, EnglishFails,
         EnglishCreate, EnglishCopy, WriteVersion, FindChanges, Download, DownloadFails, Prune,
         DownloadDone, CommitFails, PruneDone, PruneFails, PatchSteps, TranslateFails,
         TranslateWithout, Publish, PublishEnglish
    <2>2. f \in Files
      BY <1>1, <1>2, <2>1, PatchListShape DEF Names
    <2>3. f \notin lost \cup damaged \cup spoiled /\ Fresh(instFile, f, server) => UpToDateAt(disk, f, server)
      BY <1>1, <1>2, <2>1 DEF RightAbout
    <2>4. CASE ~DownloadFails(f)
      <3>1. f \notin lost \cup damaged /\ Fresh(instFile, f, server) /\ Whole(temp[f]) =>
               temp[f].rev = Published[server][f]
        BY <1>1, <1>2, <2>1 DEF BuiltFrom
      <3> QED
        BY <1>1, <1>2, <2>1, <2>2, <2>3, <2>4, <3>1, FileKeeps
    <2>5. CASE DownloadFails(f)
      <3>1. UNCHANGED <<server, lost>> /\ Fresh(instFile, f, server)
        BY <1>2, <2>1, <2>5 DEF DownloadFails, world
      <3>2. CASE UNCHANGED <<disk, damaged, spoiled>>
        BY <1>2, <2>3, <3>1, <3>2
      <3>3. CASE damaged' = IF "a" \in flags THEN damaged \cup {f} ELSE damaged
        <4>1. "a" \notin flags
          BY <1>2, <3>3
        <4>2. pc = "download" /\ f \in changes
          BY <2>5 DEF DownloadFails
        <4>3. f \in Diff(patchlist, instFile)
          BY <1>1, <4>1, <4>2 DEF LocalsFit
        <4>4. f \in DOMAIN patchlist /\ patchlist[f] # instFile[f] /\ patchlist # NoList
          BY <1>1, <3>1, <4>2, <4>3 DEF Diff, Fresh, Names, LocalsFit, Deciding
        <4>5. Stale(patchlist, f, server)
          BY <3>1, <4>4 DEF Stale, Fresh, Names
        <4> QED
          BY <1>1, <2>2, <3>1, <4>5 DEF InstalledNotAhead
      <3> QED
        BY <2>5, <3>2, <3>3 DEF DownloadFails
    <2> QED
      BY <2>4, <2>5
  <1> QED
    BY <1>3, <1>4

(* What main has compared or downloaded stays as the list in memory says.   *)
LEMMA SettledKept ==
    ASSUME HonestInv, [Next]_vars, Settled, BuiltFrom(patchlist), patchlist' = patchlist,
           pc \in Compared,
           ~\E f \in Files : DownloadFails(f)
    PROVE  Settled'
  <1>1. /\ TypeOK /\ LocalsFit /\ FromEither(patchlist, server)
        /\ RightAbout(patchlist, lost \cup damaged \cup spoiled \cup changes, disk, server)
        /\ disk \in [Files -> FileStates]
    BY HonestIsRight DEF HonestInv, Sources, TypeOK
  <1>2. patchlist # NoList /\ Names(patchlist) \subseteq Files
    BY <1>1, MemoryShape DEF Compared, Deciding, Ending
  <1>3. SUFFICES ASSUME NEW f \in Names(patchlist) \ (lost' \cup damaged' \cup spoiled' \cup changes'),
                        Fresh(patchlist, f, server')
        PROVE  UpToDateAt(disk', f, server')
    BY HonestIsRightNext DEF RightAbout
  <1>4. CASE f \notin changes
    <2>1. f \notin lost \cup damaged \cup spoiled /\ Fresh(patchlist, f, server) => UpToDateAt(disk, f, server)
      BY <1>1, <1>3, <1>4 DEF RightAbout
    <2>2. f \notin lost \cup damaged /\ Fresh(patchlist, f, server) /\ Whole(temp[f]) =>
             temp[f].rev = Published[server][f]
      BY <1>3 DEF BuiltFrom
    <2> QED
      BY <1>1, <1>2, <1>3, <2>1, <2>2, FileKeeps
  <1>5. CASE f \in changes
    <2>1. changes' = changes \/ \E g \in Files : Download(g)
      <3>1. pc \notin {"diff", "off"}
        BY DEF Compared, Ending
      <3>2. ~(Start \/ Stop)
        BY <1>2 DEF Start, Stop, ResetLocals
      <3> QED
        BY <3>1, <3>2, PatchStepsKeep
           DEF Next, vars, world, lists, gameFiles, locals, history, Load, FetchList, FetchOld,
           WriteList, WriteOld, FetchVersion, FetchVersionFails, EnglishUpToDate, EnglishFails,
           EnglishCreate, EnglishCopy, WriteVersion, FindChanges, Prune, CommitCreate, CommitWrite,
           DownloadDone, CommitFails, PruneDone, PruneFails, PatchSteps, TranslateFails,
           TranslateWithout, Publish, PublishEnglish
    <2>2. PICK g \in Files : Download(g)
      BY <1>3, <1>5, <2>1
    <2>3. g = f
      BY <1>3, <1>5, <2>2 DEF Download
    <2> QED
      BY <1>1, <1>2, <2>2, <2>3 DEF Download, Available, UpToDateAt, Whole, world
  <1> QED
    BY <1>4, <1>5

(* What FindChanges leaves out of the changes is as the list in memory says. *)
LEMMA SettledFound ==
    ASSUME HonestInv, FindChanges, "d" \in flags \/ pc' \in {"download", "commit"}
    PROVE  Settled'
  <1>1. /\ TypeOK /\ LocalsFit
        /\ RightAbout(instFile, lost \cup damaged \cup spoiled, disk, server)
    BY HonestIsRight DEF HonestInv
  <1>2. UNCHANGED <<server, disk, lost, damaged, spoiled, patchlist>> /\ pc = "diff"
    BY DEF FindChanges, world, gameFiles, history
  <1>3. Names(patchlist) = DOMAIN patchlist
    BY <1>1, <1>2, MemoryShape DEF Deciding
  <1>4. SUFFICES ASSUME NEW f \in Names(patchlist) \ (lost \cup damaged \cup spoiled \cup changes'),
                        Fresh(patchlist, f, server)
        PROVE  UpToDateAt(disk, f, server)
    BY <1>2, HonestIsRightNext DEF RightAbout
  <1>5. patchlist[f] = Published[server][f]
    BY <1>4 DEF Fresh
  <1>6. CASE f \notin Diff(patchlist, installed)
    <2>1. installed # NoList /\ f \in DOMAIN installed /\ installed[f] = patchlist[f]
      BY <1>3, <1>4, <1>6 DEF Diff
    <2>2. installed = instFile
      BY <1>1, <1>2, <2>1 DEF LocalsFit
    <2>3. f \in Names(instFile) /\ Fresh(instFile, f, server)
      BY <1>4, <2>1, <2>2 DEF Fresh, Names
    <2> QED
      BY <1>1, <1>4, <2>3 DEF RightAbout
  <1>7. CASE f \in Diff(patchlist, installed)
    <2>1. SameSize(f, patchlist[f])
      <3>1. f \in Diff(patchlist, installed) /\ f \notin changes'
        BY <1>4, <1>7
      <3> QED
        BY <3>1 DEF FindChanges, CheckFiles
    <2> QED
      BY <1>5, <2>1 DEF SameSize, UpToDateAt, Whole
  <1> QED
    BY <1>6, <1>7

LEMMA SettledStep ==
    ASSUME HonestInv, [Next]_vars,
           (pc' = "download" /\ ~failed') \/ pc' \in {"commit", "committing"}
    PROVE  Settled'
  <1>1. (pc = "download" /\ ~failed) \/ pc \in {"commit", "committing"} => Settled
    BY DEF HonestInv
  <1>2. CASE FindChanges
    <2>1. pc' \in {"download", "commit"}
      BY <1>2 DEF FindChanges
    <2> QED
      BY <1>2, <2>1, SettledFound
  <1>3. CASE ~FindChanges
    <2>1. ~\E f \in Files : DownloadFails(f)
      BY DEF DownloadFails
    <2>2. /\ (pc = "download" /\ ~failed) \/ pc \in {"commit", "committing"}
          /\ patchlist' = patchlist
      <3>1. CASE UNCHANGED vars \/ Publish \/ PublishEnglish
        BY <3>1 DEF vars, locals, Publish, PublishEnglish
      <3>2. CASE \E f \in Files : Download(f) \/ Prune(f)
        BY <3>2 DEF Download, Prune, locals
      <3>3. CASE DownloadDone \/ CommitCreate
        BY <3>3 DEF DownloadDone, CommitCreate, locals, Go
      <3>4. ~ \/ Start \/ Stop \/ FetchVersion \/ FetchVersionFails \/ EnglishUpToDate
              \/ EnglishFails \/ EnglishCreate \/ EnglishCopy \/ Load \/ FetchList \/ FetchOld
              \/ WriteList \/ WriteOld \/ WriteVersion \/ CommitWrite \/ CommitFails
              \/ PruneDone \/ PruneFails \/ PatchSteps \/ TranslateFails \/ TranslateWithout
        BY PatchStepsKeep
           DEF Start, Stop, FetchVersion, FetchVersionFails, EnglishUpToDate, EnglishFails,
           EnglishCreate, EnglishCopy, Load, FetchList, FetchOld, WriteList, WriteOld,
           WriteVersion, CommitWrite, CommitFails, PruneDone, PruneFails,
           TranslateFails, TranslateWithout, Go
      <3> QED
        BY <1>3, <2>1, <3>1, <3>2, <3>3, <3>4 DEF Next, PatchSteps
    <2> QED
      <3>1. BuiltFrom(patchlist)
        <4>1. /\ \A f \in Files : temp[f] = Missing
              /\ patchlist \in PatchLists \cup {NoList}
          BY <2>2 DEF HonestInv, WorkersFit, TypeOK
        <4> QED
          BY <4>1, NothingBuilt, BuiltIsBuilt
      <3> QED
        BY <1>1, <2>1, <2>2, <3>1, SettledKept DEF Compared
  <1> QED
    BY <1>2, <1>3

LEMMA HonestInit == ASSUME Init PROVE HonestInv
  <1>1. server \in Versions
    BY VersionsAreNumbers DEF Init
  <1>2. TypeOK
    BY <1>1 DEF Init, TypeOK, PCs, FileStates
  <1>3. LocalsFit /\ InstalledIsHonest /\ BuiltFrom(instFile) /\ WorkersFit
    BY DEF Init, LocalsFit, InstalledIsHonest, Fetching, Deciding, Ending, BuiltFrom, Names, WorkersFit
  <1>4. Sources /\ InstalledNotAhead
    BY NothingFromAnywhere, NothingStale DEF Init, Sources, InstalledNotAhead
  <1> QED
    BY <1>2, <1>3, <1>4 DEF HonestInv, Init

LEMMA HonestNext == ASSUME HonestInv, [Next]_vars PROVE HonestInv'
  <1>1. TypeOK /\ Sources /\ LocalsFit /\ InstalledNotAhead
    BY DEF HonestInv
  <1>2. Sources' /\ TypeOK' /\ InstalledNotAhead'
    BY <1>1, TypeStep, SourcesStep, NotAheadStep
  <1>3. LocalsFit'
    BY <1>1, <1>2, LocalsStep
  <1>4. InstalledIsHonest'
    BY HonestStep
  <1>5. ((pc = "download" /\ ~failed) \/ pc \in {"commit", "committing"} => Settled)'
    BY SettledStep
  <1>6. WorkersFit'
    BY WorkersStep DEF HonestInv
  <1>7. BuiltFrom(instFile)'
    <2>1. instFile \in PatchLists \cup {NoList} /\ instFile' \in PatchLists \cup {NoList}
      BY <1>1, <1>2 DEF TypeOK
    <2>2. CASE instFile' = instFile
      <3>1. /\ BuiltAt(instFile, lost \cup damaged, temp, server) /\ FromEither(instFile, server)
            /\ RightAbout(instFile, lost \cup damaged \cup spoiled, disk, server) /\ WorkersFit
        BY HonestIsRight, BuiltIsBuilt DEF HonestInv, Sources
      <3>2. BuiltAt(instFile, lost' \cup damaged', temp', server')
        BY <1>1, <2>1, <3>1, BuiltStep
      <3> QED
        BY <2>2, <3>2, BuiltIsBuiltNext
    <2>3. CASE CommitCreate \/ CommitWrite
      <3>1. pc # "patch" /\ temp' = temp
        BY <2>3 DEF CommitCreate, CommitWrite, Go, gameFiles
      <3>2. \A f \in Files : temp'[f] = Missing
        BY <3>1 DEF HonestInv, WorkersFit
      <3> QED
        BY <2>1, <3>2, NothingBuilt, BuiltIsBuiltNext
    <2>4. instFile' = instFile \/ CommitCreate \/ CommitWrite
      BY PatchStepsKeep
         DEF Next, PatchSteps, vars, world, lists, locals, Start, Stop, Load, FetchList, FetchOld,
         WriteList, WriteOld, FetchVersion, FetchVersionFails, EnglishUpToDate, EnglishFails,
         EnglishCreate, EnglishCopy, WriteVersion, FindChanges, Download, DownloadFails, Prune,
         DownloadDone, CommitFails, PruneDone, PruneFails, TranslateFails,
         TranslateWithout, Publish, PublishEnglish
    <2> QED
      BY <2>2, <2>3, <2>4
  <1> QED
    BY <1>2, <1>3, <1>4, <1>5, <1>6, <1>7 DEF HonestInv

(* What the installed list vouches for is on disk, through runs that fail or *)
(* are killed at any step and whatever is published meanwhile: for any     *)
(* files, versions and command lines.                                      *)
THEOREM InstalledAlwaysHonest == Spec => []InstalledIsHonest
  <1>1. HonestInv => InstalledIsHonest
    BY DEF HonestInv
  <1> QED
    BY HonestInit, HonestNext, <1>1, PTL DEF Spec

-----------------------------------------------------------------------------
(* Versions: what a run fetches that meets no failure, without -u.          *)

NoRefresh == \A fl \in FlagSets : "u" \notin fl

LEMMA VersionNumbers ==
    ASSUME TypeOK
    PROVE  server \in Nat \ {0} /\ server # NoVersion /\ version \in Nat /\ netVersion \in Nat
  BY VersionsAreNumbers DEF TypeOK, NoVersion

LEMMA PublishedLoads ==
    ASSUME NEW v \in Versions, patchFile = Listed[v], oldFile = ListedOld[v]
    PROVE  LoadPatchlist = Published[v]
  BY FetchedFrom DEF LoadPatchlist, Published

(* The steps that change what VersionsFit is about.                        *)
VersionSteps ==
    \/ Start \/ Stop \/ FetchVersion \/ Load \/ FetchList \/ FetchOld \/ WriteList \/ WriteOld
    \/ WriteVersion \/ Publish

LEMMA OtherStepsKeepVersions ==
    ASSUME [Next]_vars, ~VersionSteps
    PROVE  /\ UNCHANGED <<server, patchFile, oldFile, version, netVersion, patchlist, patchlistOld>>
           /\ \/ pc' = pc
              \/ pc' \notin Fetching \cup Deciding \cup Ending
              \/ pc \in Deciding \cup Ending /\ pc' \in Deciding \cup Ending
  <1> USE DEF Fetching, Deciding, Ending
  <1>1. CASE UNCHANGED vars \/ PublishEnglish \/ \E f \in Files : Download(f) \/ DownloadFails(f) \/ Prune(f)
    BY <1>1 DEF vars, world, lists, locals, PublishEnglish, Download, DownloadFails, Prune
  <1>2. CASE FetchVersionFails \/ EnglishUpToDate \/ EnglishFails \/ EnglishCreate \/ EnglishCopy
    BY <1>2 DEF world, lists, locals, Go, FetchVersionFails, EnglishUpToDate, EnglishFails,
       EnglishCreate, EnglishCopy
  <1>3. CASE FindChanges
    <2>1. pc = "diff" /\ pc' \in {"commit", "download", "prune"}
      BY <1>3 DEF FindChanges
    <2> QED
      BY <1>3, <2>1 DEF FindChanges, world, lists
  <1>4. CASE DownloadDone \/ CommitCreate \/ CommitWrite \/ CommitFails
    BY <1>4 DEF world, lists, locals, Go, DownloadDone, CommitCreate, CommitWrite, CommitFails
  <1>5. CASE PruneDone \/ PruneFails \/ PatchSteps \/ TranslateFails \/ TranslateWithout
    BY <1>5, PatchStepsKeep DEF world, lists, locals, Go, PruneDone, PruneFails, TranslateFails,
       TranslateWithout
  <1> QED
    BY <1>1, <1>2, <1>3, <1>4, <1>5 DEF Next, VersionSteps, PatchSteps

LEMMA VersionsStep ==
    ASSUME NoRefresh, HonestInv, VersionsFit, [Next]_vars
    PROVE  VersionsFit'
  <1>1. /\ TypeOK /\ LocalsFit
        /\ server \in Nat \ {0} /\ server # NoVersion /\ version \in Nat /\ netVersion \in Nat
        /\ server \in Versions
    BY VersionNumbers DEF HonestInv, TypeOK
  <1>2. /\ version <= server /\ netVersion <= server
        /\ netVersion # NoVersion => version <= netVersion
        /\ version = server => patchFile = Listed[server] /\ oldFile = ListedOld[server]
        /\ pc \in Fetching => version # server
        /\ netVersion = server =>
              /\ pc \in {"fetchOld", "writeList", "writeOld"} => patchlist = Listed[server]
              /\ pc \in {"writeList", "writeOld"} => patchlistOld = ListedOld[server]
              /\ pc = "writeVersion" => patchFile = Listed[server] /\ oldFile = ListedOld[server]
              /\ pc \in Deciding \cup Ending => patchlist = Published[server]
    BY DEF VersionsFit
  <1> USE DEF Fetching, Deciding, Ending
  <1>3. CASE ~VersionSteps
    BY <1>2, <1>3, OtherStepsKeepVersions DEF VersionsFit
  <1>4. CASE Start
    <2>1. /\ UNCHANGED <<server, version, patchFile, oldFile>> /\ netVersion' = NoVersion
          /\ pc' = "version"
      BY <1>4 DEF Start, world, lists
    <2>2. NoVersion <= server
      BY <1>1 DEF NoVersion
    <2> QED
      BY <1>1, <1>2, <2>1, <2>2 DEF VersionsFit
  <1>5. CASE Stop
    <2>1. /\ UNCHANGED <<server, version, patchFile, oldFile>> /\ netVersion' = NoVersion
          /\ pc' = "off"
      BY <1>5 DEF Stop, ResetLocals, world, lists
    <2>2. NoVersion <= server
      BY <1>1 DEF NoVersion
    <2> QED
      BY <1>1, <1>2, <2>1, <2>2 DEF VersionsFit
  <1>6. CASE FetchVersion
    <2>1. /\ UNCHANGED <<server, version, patchFile, oldFile>> /\ netVersion' = server
          /\ pc' = "english" /\ server <= server
      BY <1>1, <1>6 DEF FetchVersion, Go, world, lists
    <2> QED
      BY <1>1, <1>2, <2>1 DEF VersionsFit
  <1>7. CASE Load
    <2>1. /\ UNCHANGED <<server, version, patchFile, oldFile, netVersion>>
          /\ patchlist' = LoadPatchlist /\ pc' = IF MustFetch THEN "fetchList" ELSE "diff"
      BY <1>7 DEF Load, Go, world, lists
    <2>2. CASE MustFetch
      <3>1. netVersion \notin {NoVersion, version} \/ LoadPatchlist = NoList
        <4>1. flags = {} \/ flags \in FlagSets
          BY <1>1 DEF TypeOK
        <4> QED
          BY <2>2, <4>1 DEF MustFetch, NoRefresh
      <3>2. version # server
        <4>1. CASE netVersion \notin {NoVersion, version}
          BY <1>1, <1>2, <4>1
        <4>2. CASE LoadPatchlist = NoList
          BY <1>1, <1>2, <4>2, LoadShape, FetchedFrom
        <4> QED
          BY <3>1, <4>1, <4>2
      <3> QED
        BY <1>2, <2>1, <2>2, <3>2 DEF VersionsFit
    <2>3. CASE ~MustFetch
      <3>1. netVersion = server => version = server
        BY <1>1, <2>3 DEF MustFetch
      <3>2. netVersion = server => LoadPatchlist = Published[server]
        BY <1>1, <1>2, <3>1, PublishedLoads
      <3> QED
        BY <1>2, <2>1, <2>3, <3>2 DEF VersionsFit
    <2> QED
      BY <2>2, <2>3
  <1>8. CASE FetchList
    <2>1. /\ UNCHANGED <<server, version, patchFile, oldFile, netVersion>>
          /\ patchlist' = Listed[server] /\ pc = "fetchList" /\ pc' = "fetchOld"
      BY <1>8 DEF FetchList, Go, world, lists
    <2> QED
      BY <1>2, <2>1 DEF VersionsFit
  <1>9. CASE FetchOld
    <2>1. /\ UNCHANGED <<server, version, netVersion, patchlist>>
          /\ patchlistOld' = ListedOld[server] /\ pc = "fetchOld" /\ pc' = "writeList"
      BY <1>9 DEF FetchOld, Go, world
    <2> QED
      BY <1>2, <2>1 DEF VersionsFit
  <1>10. CASE WriteList
    <2>1. /\ UNCHANGED <<server, version, netVersion, patchlist, patchlistOld>>
          /\ pc = "writeList" /\ pc' = "writeOld"
      BY <1>10 DEF WriteList, Go, world, locals
    <2> QED
      BY <1>2, <2>1 DEF VersionsFit
  <1>11. CASE WriteOld
    <2>1. /\ UNCHANGED <<server, patchFile, netVersion>> /\ oldFile' = patchlistOld
          /\ version' = NoVersion /\ pc = "writeOld" /\ pc' = "writeVersion"
      BY <1>11 DEF WriteOld, Go, world
    <2>2. patchFile = patchlist
      BY <1>1, <2>1 DEF LocalsFit
    <2>3. NoVersion <= server /\ NoVersion <= netVersion
      BY <1>1 DEF NoVersion
    <2> QED
      BY <1>1, <1>2, <2>1, <2>2, <2>3 DEF VersionsFit
  <1>12. CASE WriteVersion
    <2>1. /\ UNCHANGED <<server, patchFile, oldFile, netVersion, patchlist>> /\ version' = netVersion
          /\ pc = "writeVersion" /\ pc' = "diff"
      BY <1>12 DEF WriteVersion, Go, world, locals
    <2>2. netVersion <= netVersion
      BY <1>1
    <2>3. netVersion = server => patchlist = Published[server]
      BY <1>1, <1>2, <2>1, PublishedLoads DEF LocalsFit
    <2> QED
      BY <1>1, <1>2, <2>1, <2>2, <2>3 DEF VersionsFit
  <1>13. CASE Publish
    <2>1. UNCHANGED <<lists, locals, pc>> /\ server' = server + 1
      BY <1>13 DEF Publish
    <2>2. /\ version <= server' /\ netVersion <= server' /\ version # server' /\ netVersion # server'
      BY <1>1, <1>2, <2>1
    <2> QED
      BY <1>2, <2>1, <2>2 DEF VersionsFit, lists, locals
  <1> QED
    BY <1>3, <1>4, <1>5, <1>6, <1>7, <1>8, <1>9, <1>10, <1>11, <1>12, <1>13 DEF VersionSteps

-----------------------------------------------------------------------------
(* Runs that meet no failure.                                              *)

(* The steps such a run takes before it has compared the lists, and after.  *)
EarlySteps ==
    \/ EnglishUpToDate \/ EnglishCreate \/ EnglishCopy \/ Load \/ FetchList \/ FetchOld
    \/ WriteList \/ WriteOld \/ WriteVersion
LateSteps ==
    \/ \E f \in Files : Download(f) \/ Prune(f)
    \/ DownloadDone \/ CommitCreate \/ CommitWrite \/ PruneDone \/ PatchSteps

LEMMA CleanBefore ==
    ASSUME [Next]_vars, clean', ~Start
    PROVE  /\ clean
           /\ Stop \/ FetchVersion \/ EarlySteps \/ FindChanges \/ LateSteps \/ UNCHANGED vars
  <1>1. ~ \/ FetchVersionFails \/ EnglishFails \/ CommitFails \/ PruneFails \/ TranslateFails
          \/ TranslateWithout \/ Publish \/ PublishEnglish \/ \E f \in Files : DownloadFails(f)
    BY DEF FetchVersionFails, EnglishFails, CommitFails, PruneFails, TranslateFails,
       TranslateWithout, Publish, PublishEnglish, DownloadFails
  <1>2. Stop \/ FetchVersion \/ EarlySteps \/ FindChanges \/ LateSteps \/ UNCHANGED vars
    BY <1>1 DEF Next, EarlySteps, LateSteps, PatchSteps
  <1>3. CASE EnglishCopy
    <2>1. clean' = (clean /\ english' = "current") \/ clean' = FALSE
      BY <1>3 DEF EnglishCopy
    <2> QED
      BY <1>2, <2>1
  <1>4. CASE ~EnglishCopy
    <2>1. clean' = clean
      BY <1>2, <1>4, PatchStepsKeep
         DEF Stop, FetchVersion, EarlySteps, FindChanges, LateSteps, vars, history,
         EnglishUpToDate, EnglishCreate, Load, FetchList, FetchOld, WriteList, WriteOld,
         WriteVersion, Download, Prune, DownloadDone, CommitCreate, CommitWrite, PruneDone
    <2> QED
      BY <1>2, <2>1
  <1> QED
    BY <1>3, <1>4

LEMMA EarlyStepsKeep ==
    ASSUME EarlySteps
    PROVE  /\ UNCHANGED <<server, netVersion, flags, failed>>
           /\ pc \notin {"off", "version"} /\ pc' \notin Compared
  BY DEF EarlySteps, EnglishUpToDate, EnglishCreate, EnglishCopy, Load, FetchList, FetchOld,
     WriteList, WriteOld, WriteVersion, Go, world, locals, Compared, Ending

LEMMA LateStepsKeep ==
    ASSUME LateSteps
    PROVE  /\ UNCHANGED <<server, netVersion, flags, failed, patchlist>>
           /\ pc \in Compared
           /\ pc \in {"translate", "patch"} <=> PatchSteps
  <1> USE DEF Compared, Ending
  <1>1. CASE \E f \in Files : Download(f) \/ Prune(f)
    BY <1>1, PatchStepsKeep DEF Download, Prune, Go, world, locals
  <1>2. CASE DownloadDone \/ CommitCreate \/ CommitWrite
    BY <1>2, PatchStepsKeep DEF DownloadDone, CommitCreate, CommitWrite, Go, world, locals
  <1>3. CASE PruneDone \/ PatchSteps
    BY <1>3, PatchStepsKeep DEF PruneDone, Go, world, locals
  <1> QED
    BY <1>1, <1>2, <1>3 DEF LateSteps

(* A comparison by hash, of all files.                                     *)
AllSame ==
    \A f \in Names(patchlist) \ changes : SameHash(f, patchlist[f])

LEMMA SameFound ==
    ASSUME HonestInv, FindChanges, {"a", "h", "d"} \subseteq flags
    PROVE  AllSame'
  <1>1. /\ pc = "diff" /\ UNCHANGED <<patchlist, disk>>
        /\ patchlist # NoList /\ installed = NoList
    BY DEF HonestInv, LocalsFit, FindChanges, gameFiles, Fetching, Deciding
  <1>2. Diff(patchlist, installed) = DOMAIN patchlist /\ Names(patchlist) = DOMAIN patchlist
    BY <1>1 DEF Diff, Names
  <1>3. Checking
    BY <1>1 DEF Checking
  <1>4. ASSUME NEW f \in DOMAIN patchlist, f \notin changes' PROVE SameHash(f, patchlist[f])
    <2>1. changes' = CheckFiles(Diff(patchlist, installed))
      BY <1>2, <1>3, <1>4 DEF FindChanges
    <2> QED
      BY <1>2, <1>4, <2>1 DEF CheckFiles
  <1> QED
    BY <1>1, <1>2, <1>4 DEF AllSame, SameHash, Names

LEMMA SameKept ==
    ASSUME TypeOK, AllSame, LateSteps, ~PatchSteps
    PROVE  AllSame'
  <1>1. patchlist' = patchlist /\ disk \in [Files -> FileStates]
    BY LateStepsKeep DEF TypeOK
  <1>2. \A f \in Names(patchlist) \ changes : disk[f] = [rev |-> patchlist[f], form |-> "intact"]
    BY DEF AllSame, SameHash
  <1>3. SUFFICES ASSUME NEW f \in Names(patchlist) \ changes'
                 PROVE  disk'[f] = [rev |-> patchlist[f], form |-> "intact"]
    BY <1>1 DEF AllSame, SameHash, Names
  <1>4. CASE DownloadDone \/ CommitCreate \/ CommitWrite \/ PruneDone
    BY <1>2, <1>4 DEF DownloadDone, CommitCreate, CommitWrite, PruneDone, locals, gameFiles
  <1>5. ASSUME NEW g \in Files, Download(g) PROVE disk'[f] = [rev |-> patchlist[f], form |-> "intact"]
    BY <1>1, <1>2, <1>5 DEF Download
  <1>6. ASSUME NEW g \in Files, Prune(g) PROVE disk'[f] = [rev |-> patchlist[f], form |-> "intact"]
    BY <1>1, <1>2, <1>6 DEF Prune, locals, Names
  <1> QED
    BY <1>4, <1>5, <1>6 DEF LateSteps

LEMMA CleanStep ==
    ASSUME HonestInv, VersionsFit, pc \in {"translate", "patch"} => "t" \in flags,
           clean => CleanFits,
           [Next]_vars, clean'
    PROVE  CleanFits'
  <1>1. CASE Start
    BY <1>1 DEF Start, CleanFits, Compared, Ending
  <1>2. CASE ~Start
    <2>1. /\ clean
          /\ Stop \/ FetchVersion \/ EarlySteps \/ FindChanges \/ LateSteps \/ UNCHANGED vars
      BY <1>2, CleanBefore
    <2>2. /\ pc \notin {"off", "version"} => netVersion = server
          /\ ~failed
          /\ "d" \in flags /\ pc \in Compared => Settled /\ BuiltFrom(patchlist)
          /\ {"a", "h", "d"} \subseteq flags /\ pc \in Compared => "t" \in flags \/ AllSame
      BY <2>1 DEF CleanFits, AllSame
    <2>3. SUFFICES /\ pc' \notin {"off", "version"} => netVersion' = server'
                   /\ ~failed'
                   /\ "d" \in flags' /\ pc' \in Compared => Settled' /\ BuiltFrom(patchlist)'
                   /\ {"a", "h", "d"} \subseteq flags' /\ pc' \in Compared =>
                         "t" \in flags' \/ AllSame'
      BY DEF CleanFits, AllSame
    <2>4. CASE Stop
      BY <2>4 DEF Stop, ResetLocals, Compared, Ending
    <2>5. CASE FetchVersion
      BY <2>2, <2>5 DEF FetchVersion, Go, world, Compared, Ending
    <2>6. CASE EarlySteps
      BY <2>2, <2>6, EarlyStepsKeep
    <2>7. CASE FindChanges
      <3>1. UNCHANGED <<server, netVersion, failed, flags>> /\ pc = "diff"
        BY <2>7 DEF FindChanges, world
      <3>2. BuiltFrom(patchlist)'
        <4>1. \A f \in Files : temp'[f] = Missing
          BY <2>7, <3>1 DEF FindChanges, gameFiles, HonestInv, WorkersFit
        <4>2. patchlist' \in PatchLists \cup {NoList}
          BY <2>7 DEF FindChanges, HonestInv, TypeOK
        <4> QED
          BY <4>1, <4>2, NothingBuilt, BuiltIsBuiltNext
      <3> QED
        BY <2>2, <2>7, <3>1, <3>2, SettledFound, SameFound
    <2>8. CASE LateSteps
      <3>1. UNCHANGED <<server, netVersion, flags, failed, patchlist>> /\ pc \in Compared
            /\ (pc \in {"translate", "patch"} <=> PatchSteps)
        BY <2>8, LateStepsKeep
      <3>2. pc \notin {"off", "version"}
        BY <3>1 DEF Compared, Ending
      <3>3. ~\E f \in Files : DownloadFails(f)
        BY DEF DownloadFails
      <3>4. "d" \in flags => Settled'
        BY <2>2, <3>1, <3>3, SettledKept
      <3>5. {"a", "h", "d"} \subseteq flags => "t" \in flags \/ AllSame'
        BY <2>2, <2>8, <3>1, SameKept DEF HonestInv
      <3>6. "d" \in flags => BuiltFrom(patchlist)'
        <4> SUFFICES ASSUME "d" \in flags PROVE BuiltFrom(patchlist)'
          OBVIOUS
        <4>2. CASE pc = "download"
          <5>1. /\ \A f \in Files : temp'[f] = Missing
                /\ patchlist' \in PatchLists \cup {NoList}
            <6>1. ~PatchSteps /\ \A f \in Files : temp[f] = Missing
              BY <3>1, <4>2 DEF HonestInv, WorkersFit
            <6>2. temp' = temp
              BY <2>8, <6>1 DEF LateSteps, Download, Prune, DownloadDone, CommitCreate, CommitWrite,
                 PruneDone, gameFiles
            <6> QED
              BY <3>1, <6>1, <6>2 DEF HonestInv, TypeOK
          <5> QED
            BY <5>1, NothingBuilt, BuiltIsBuiltNext
        <4>3. CASE pc # "download"
          <5>1. /\ RightAbout(patchlist, lost \cup damaged \cup spoiled, disk, server)
                /\ BuiltAt(patchlist, lost \cup damaged, temp, server)
                /\ patchlist \in PatchLists \cup {NoList} /\ FromEither(patchlist, server)
                /\ TypeOK /\ WorkersFit
            <6>1. changes = {} /\ Settled /\ BuiltFrom(patchlist)
              BY <2>2, <3>1, <4>3 DEF HonestInv, LocalsFit
            <6> QED
              BY <6>1, HonestIsRight, BuiltIsBuilt DEF HonestInv, TypeOK, Sources
          <5>2. BuiltAt(patchlist, lost' \cup damaged', temp', server')
            BY <5>1, BuiltStep
          <5> QED
            BY <3>1, <5>2, BuiltIsBuiltNext
        <4> QED
          BY <4>2, <4>3
      <3> QED
        BY <2>2, <3>1, <3>2, <3>4, <3>5, <3>6
    <2>9. CASE UNCHANGED vars
      <3>1. UNCHANGED <<server, disk, temp, netVersion, flags, failed, patchlist, pc, changes, lost,
                        damaged, spoiled>>
        BY <2>9 DEF vars, world, locals, gameFiles, history
      <3>2. Settled' <=> Settled
        BY <3>1, HonestIsRight, HonestIsRightNext
      <3>4. BuiltFrom(patchlist)' <=> BuiltFrom(patchlist)
        BY <3>1, BuiltIsBuilt, BuiltIsBuiltNext
      <3>3. AllSame' <=> AllSame
        BY <3>1 DEF AllSame, SameHash, Names
      <3> QED
        BY <2>2, <3>1, <3>2, <3>3, <3>4
    <2> QED
      BY <2>1, <2>4, <2>5, <2>6, <2>7, <2>8, <2>9
  <1> QED
    BY <1>1, <1>2

LEMMA TranslateStep ==
    ASSUME pc \in {"translate", "patch"} => "t" \in flags, [Next]_vars
    PROVE  pc' \in {"translate", "patch"} => "t" \in flags'
  <1>1. CASE UNCHANGED vars \/ Publish \/ PublishEnglish \/ \E f \in Files : Download(f) \/ DownloadFails(f) \/ Prune(f)
    BY <1>1 DEF vars, locals, Publish, PublishEnglish, Download, DownloadFails, Prune
  <1>2. CASE PruneDone \/ PruneFails
    BY <1>2 DEF PruneDone, PruneFails, locals
  <1>5. CASE PatchSteps
    <2>1. pc \in {"translate", "patch"} /\ flags' = flags
      BY <1>5, PatchStepsKeep DEF locals
    <2> QED
      BY <2>1
  <1>3. CASE FindChanges
    <2>1. pc' \in {"commit", "download", "prune"}
      BY <1>3 DEF FindChanges
    <2> QED
      BY <2>1
  <1>4. CASE ~ \/ UNCHANGED vars \/ Publish \/ PublishEnglish \/ PruneDone \/ PruneFails \/ FindChanges \/ PatchSteps
               \/ \E f \in Files : Download(f) \/ DownloadFails(f) \/ Prune(f)
    BY <1>4, PatchStepsKeep
       DEF Next, Go, Start, Stop, Load, FetchList, FetchOld, WriteList, WriteOld, FetchVersion,
       FetchVersionFails, EnglishUpToDate, EnglishFails, EnglishCreate, EnglishCopy, WriteVersion,
       DownloadDone, CommitCreate, CommitWrite, CommitFails, PatchSteps, TranslateFails,
       TranslateWithout
  <1> QED
    BY <1>1, <1>2, <1>3, <1>4, <1>5

(* Without -u, the lists that a run has compared are the published ones if it *)
(* has met no failure, and it leaves nothing of them undone.                *)
THEOREM CleanInvariant == ASSUME NoRefresh PROVE Spec => []CleanInv
  <1>1. Init => CleanInv
    <2> SUFFICES ASSUME Init PROVE CleanInv
      OBVIOUS
    <2>1. HonestInv
      BY HonestInit
    <2>2. VersionsFit
      <3>1. /\ NoVersion <= 1 /\ NoVersion # 1
        BY DEF NoVersion
      <3> QED
        BY <3>1 DEF Init, VersionsFit, Fetching, Deciding, Ending
    <2> QED
      BY <2>1, <2>2 DEF Init, CleanInv, CleanFits, Compared, Ending
  <1>2. CleanInv /\ [Next]_vars => CleanInv'
    <2> SUFFICES ASSUME CleanInv, [Next]_vars PROVE CleanInv'
      OBVIOUS
    <2>1. HonestInv /\ VersionsFit /\ (pc \in {"translate", "patch"} => "t" \in flags) /\ (clean => CleanFits)
      BY DEF CleanInv
    <2>2. HonestInv' /\ VersionsFit' /\ (pc' \in {"translate", "patch"} => "t" \in flags')
      BY <2>1, HonestNext, VersionsStep, TranslateStep
    <2>3. clean' => CleanFits'
      BY <2>1, CleanStep
    <2> QED
      BY <2>2, <2>3 DEF CleanInv
  <1> QED
    BY <1>1, <1>2, PTL DEF Spec

LEMMA CleanLists ==
    ASSUME CleanInv, clean, pc \in Ending
    PROVE  /\ patchlist = Published[server] /\ patchlist # NoList /\ changes = {}
           /\ Names(patchlist) = DOMAIN Published[server]
  <1>1. netVersion = server
    BY DEF CleanInv, CleanFits, Ending
  <1>2. patchlist = Published[server]
    BY <1>1 DEF CleanInv, VersionsFit
  <1>3. patchlist # NoList /\ changes = {}
    BY DEF CleanInv, HonestInv, LocalsFit, Ending
  <1> QED
    BY <1>2, <1>3 DEF Names

(* A run with -d that meets no failure brings every published file up to date, *)
(* whatever the runs before it left undone: without -u, and but for the three*)
(* exceptions.                                                              *)
THEOREM CleanRunAlwaysUpdates == ASSUME NoRefresh PROVE Spec => []CleanRunUpdates
  <1>1. CleanInv => CleanRunUpdates
    <2> SUFFICES ASSUME CleanInv, pc = "done", clean, "d" \in flags,
                        NEW f \in DOMAIN Published[server] \ (lost \cup damaged \cup spoiled)
                 PROVE  UpToDate(f)
      BY DEF CleanRunUpdates
    <2>1. Settled
      BY DEF CleanInv, CleanFits, Compared, Ending
    <2>2. /\ f \in Names(patchlist) \ (lost \cup damaged \cup spoiled \cup changes)
          /\ Fresh(patchlist, f, server)
      BY CleanLists DEF Ending, Fresh
    <2> QED
      BY <2>1, <2>2 DEF Settled
  <1> QED
    BY CleanInvariant, <1>1, PTL

(* -h -a -d restores every published file, whatever was on disk before.     *)
THEOREM RevertAlwaysRestores == ASSUME NoRefresh PROVE Spec => []RevertRestores
  <1>1. CleanInv => RevertRestores
    <2> SUFFICES ASSUME CleanInv, pc = "done", clean, {"a", "h", "d"} \subseteq flags,
                        "t" \notin flags, NEW f \in DOMAIN Published[server]
                 PROVE  disk[f] = [rev |-> Published[server][f], form |-> "intact"]
      BY DEF RevertRestores
    <2>1. \A g \in Names(patchlist) \ changes : SameHash(g, patchlist[g])
      BY DEF CleanInv, CleanFits, Compared, Ending
    <2> QED
      BY <2>1, CleanLists DEF Ending, SameHash
  <1> QED
    BY CleanInvariant, <1>1, PTL

(* A run that meets no failure prunes no published file: the list it prunes by *)
(* is whole, however the runs before it were cut short while writing it.    *)
THEOREM CleanPruneIsAlwaysSafe == ASSUME NoRefresh PROVE Spec => CleanPruneIsSafe
  <1>1. CleanInv /\ [Next]_vars => [clean /\ pc = "prune" => lost' \subseteq lost]_vars
    <2> SUFFICES ASSUME CleanInv, Next, clean, pc = "prune" PROVE lost' \subseteq lost
      BY DEF vars, history
    <2>1. ASSUME NEW f \in Files, Prune(f) PROVE lost' \subseteq lost
      BY <2>1, CleanLists DEF Prune, Ending
    <2>2. CASE ~\E f \in Files : Prune(f)
      BY <2>2, PatchStepsKeep
         DEF Next, history, Go, Start, Stop, Load, FetchList, FetchOld, WriteList, WriteOld,
         FetchVersion, FetchVersionFails, EnglishUpToDate, EnglishFails, EnglishCreate,
         EnglishCopy, WriteVersion, FindChanges, Download, DownloadFails, DownloadDone,
         CommitCreate, CommitWrite, CommitFails, PruneDone, PruneFails, PatchSteps,
         TranslateFails, TranslateWithout, Publish, PublishEnglish
    <2> QED
      BY <2>1, <2>2
  <1> QED
    BY CleanInvariant, <1>1, PTL DEF Spec, CleanPruneIsSafe

-----------------------------------------------------------------------------
(* Launcher: settings.                                                     *)

LEMMA SettingsTyped ==
    ASSUME NEW args \in CommandLines
    PROVE  \A k \in ConfigKeys : Settings(args)[k] \in SettingsIn
  <1> TAKE k \in ConfigKeys
  <1>1. Settings(args)[k] \in {Settings(args)[j] : j \in ConfigKeys}
    OBVIOUS
  <1> QED
    BY <1>1 DEF SettingsIn

(* What a launcher saves says what its command line asks for; when there is *)
(* nothing to save, what it has read says so already.                       *)
LEMMA ConfiguredSays ==
    ASSUME NEW c \in Configs, NEW args \in CommandLines
    PROVE  /\ Configured(c, args) \in Configs
           /\ Says(Configured(c, args), args)
           /\ DOMAIN Configured(c, args) = {} => Says(c, args)
  <1> DEFINE S == {i \in ConfigKeys : i \in DOMAIN c \/ Settings(args)[i] # ""}
  <1>1. Configured(c, args) = [k \in S |-> Settings(args)[k]]
    BY DEF Configured
  <1>2. Configured(c, args) \in Configs
    <2>1. Configured(c, args) \in [S -> SettingsIn]
      BY <1>1, SettingsTyped
    <2>2. S \in SUBSET ConfigKeys
      OBVIOUS
    <2> QED
      BY <2>1, <2>2 DEF Configs
  <1>3. \A k \in ConfigKeys \ S : k \notin DOMAIN c /\ Settings(args)[k] = ""
    OBVIOUS
  <1>4. DOMAIN Configured(c, args) = S
    BY <1>1
  <1>5. Says(Configured(c, args), args)
    BY <1>1, <1>3, <1>4 DEF Says, Value
  <1>6. S = {} => Says(c, args)
    BY <1>3 DEF Says, Value
  <1> QED
    BY <1>2, <1>4, <1>5, <1>6

LEMMA ConfigShape ==
    ASSUME NEW c \in Configs
    PROVE  \E S \in SUBSET ConfigKeys : c \in [S -> SettingsIn]
  BY DEF Configs

LEMMA NoKeysTyped == NoKeys \in Configs /\ DOMAIN NoKeys = {}
  <1>1. NoKeys \in [{} -> SettingsIn] /\ {} \in SUBSET ConfigKeys
    BY DEF NoKeys
  <1> QED
    BY <1>1 DEF Configs, NoKeys

LEMMA ValueTyped ==
    ASSUME NEW c \in Configs
    PROVE  [k \in ConfigKeys |-> Value(c, k)] \in [ConfigKeys -> SettingsIn]
  <1>1. PICK S \in SUBSET ConfigKeys : c \in [S -> SettingsIn]
    BY DEF Configs
  <1>2. "" \in SettingsIn
    BY DEF SettingsIn
  <1> QED
    BY <1>1, <1>2 DEF Value

-----------------------------------------------------------------------------
(* The type invariant.                                                     *)

LEMMA TypeInit == LaunchInit => LaunchTypeOK
  <1> SUFFICES ASSUME LaunchInit PROVE LaunchTypeOK
    OBVIOUS
  <1>1. line \in [Launchers -> CommandLines]
    BY CommandLinesAssumption DEF LaunchInit
  <1> QED
    BY <1>1, NoKeysTyped DEF LaunchInit, LaunchTypeOK, Stages

LEMMA TypeNext ==
    ASSUME LaunchTypeOK, NEW l \in Launchers, Main(l) \/ GameLoads(l) \/ GameEnds(l)
    PROVE  LaunchTypeOK'
  <1> USE DEF LaunchTypeOK, Goes, Stages, Configuring
  <1>1. CASE StartLauncher(l)
    BY <1>1 DEF StartLauncher
  <1>2. CASE \E c \in Configs : Configure(l, c) /\ excused' \in [Launchers -> BOOLEAN]
    <2>1. PICK c \in Configs : Configure(l, c) /\ excused' \in [Launchers -> BOOLEAN]
      BY <1>2
    <2>2. Configured(c, line[l]) \in Configs
      BY ConfiguredSays
    <2>3. config' \in [Launchers -> Configs]
      BY <2>1, <2>2 DEF Configure
    <2>4. launcher' \in [Launchers -> Stages]
      <3>1. PICK to \in Stages : launcher' = [launcher EXCEPT ![l] = to]
        BY <2>1 DEF Configure
      <3> QED
        BY <3>1
    <2> QED
      BY <2>1, <2>3, <2>4 DEF Configure
  <1>3. CASE ReadConfig(l)
    BY <1>2, <1>3 DEF ReadConfig
  <1>4. CASE ReadConfigFails(l)
    BY <1>2, <1>4, NoKeysTyped DEF ReadConfigFails, Excuse
  <1>5. CASE CreateConfig(l)
    BY <1>5, NoKeysTyped DEF CreateConfig, Excuse
  <1>6. CASE WriteLine(l)
    <2>1. PICK k \in DOMAIN config[l] :
            cfg' = [i \in DOMAIN cfg \cup {k} |-> IF i = k THEN config[l][k] ELSE cfg[i]]
      BY <1>6 DEF WriteLine
    <2>2. cfg \in Configs /\ config[l] \in Configs
      OBVIOUS
    <2>3. PICK S \in SUBSET ConfigKeys : cfg \in [S -> SettingsIn]
      BY <2>2, ConfigShape
    <2>4. PICK T \in SUBSET ConfigKeys : config[l] \in [T -> SettingsIn]
      BY <2>2, ConfigShape
    <2>5. /\ DOMAIN cfg = S /\ \A i \in S : cfg[i] \in SettingsIn
          /\ k \in T /\ config[l][k] \in SettingsIn
      BY <2>3, <2>4
    <2>6. cfg' \in [S \cup {k} -> SettingsIn] /\ S \cup {k} \in SUBSET ConfigKeys
      BY <2>1, <2>5
    <2>7. cfg' \in Configs
      BY <2>6 DEF Configs
    <2> QED
      BY <1>6, <2>7 DEF WriteLine
  <1>7. CASE Saved(l) \/ SaveFails(l)
    <2>1. config' \in [Launchers -> Configs]
      BY <1>7, NoKeysTyped DEF Saved, SaveFails, Discarded
    <2>2. launcher' \in [Launchers -> Stages]
      BY <1>7 DEF Saved, SaveFails
    <2>3. excused' \in [Launchers -> BOOLEAN]
      BY <1>7 DEF Saved, SaveFails, Excuse
    <2> QED
      BY <1>7, <2>1, <2>2, <2>3 DEF Saved, SaveFails
  <1>8. CASE LaunchGame(l) \/ LaunchGameFails(l)
    BY <1>8 DEF LaunchGame, LaunchGameFails
  <1>9. CASE CreateDll(l) \/ WriteDll(l) \/ DllFails(l)
    BY <1>9 DEF CreateDll, WriteDll, DllFails
  <1>13. CASE Wait(l) \/ RemoveDll(l) \/ RemoveDllFails(l)
    BY <1>13 DEF Wait, RemoveDll, RemoveDllFails
  <1>10. CASE KillLauncher(l)
    BY <1>10, NoKeysTyped DEF KillLauncher, Discarded
  <1>11. CASE GameLoads(l)
    BY <1>11, ValueTyped DEF GameLoads
  <1>12. CASE GameEnds(l)
    BY <1>12 DEF GameEnds
  <1> QED
    BY <1>1, <1>3, <1>4, <1>5, <1>6, <1>7, <1>8, <1>9, <1>10, <1>11, <1>12, <1>13 DEF Main

-----------------------------------------------------------------------------
(* LauncherFits, action by action.                                         *)

Fit == \A o \in Launchers : LauncherFits(o)

LEMMA StartingSays ==
    ASSUME Fit, NEW o \in Launchers, game[o] = "starting" \/ launcher[o] = "launch", ~excused[o]
    PROVE  Says(cfg, line[o])
  BY DEF Fit, LauncherFits

LEMMA FitStart ==
    ASSUME LaunchTypeOK, Fit, NEW l \in Launchers, StartLauncher(l)
    PROVE  Fit'
  <1> SUFFICES ASSUME NEW o \in Launchers PROVE LauncherFits(o)'
    BY DEF Fit
  <1>1. CASE o = l
    BY <1>1 DEF LaunchTypeOK, StartLauncher, Goes, LauncherFits, Configuring
  <1>2. CASE o # l
    <2>1. launcher'[o] = launcher[o] /\ line'[o] = line[o] /\ excused'[o] = excused[o]
      BY <1>2 DEF LaunchTypeOK, StartLauncher, Goes
    <2>2. launcher[o] \notin Configuring /\ UNCHANGED <<cfg, game>>
      BY DEF StartLauncher
    <2>3. game'[o] = "starting" /\ ~excused'[o] => Says(cfg, line[o])'
      BY <2>1, <2>2, StartingSays DEF Says, Value
    <2>4. launcher'[o] \in {"dll", "write dll", "remove"} => LoadDll(line[o])'
      BY <2>1 DEF Fit, LauncherFits, LoadDll
    <2> QED
      BY <2>1, <2>2, <2>3, <2>4 DEF LauncherFits, Configuring
  <1> QED
    BY <1>1, <1>2

(* Only the launcher that configures is anywhere near translation.cfg.      *)
LEMMA Alone ==
    ASSUME Fit, NEW l \in Launchers, launcher[l] \in Configuring
    PROVE  game[l] = "none" /\ \A o \in Launchers \ {l} : launcher[o] \notin Configuring
  BY DEF Fit, LauncherFits

(* What a step of a launcher that configures leaves true of another one.     *)
LEMMA FitOther ==
    ASSUME LaunchTypeOK, Fit, NEW l \in Launchers, launcher[l] \in Configuring,
           NEW to, launcher' = [launcher EXCEPT ![l] = to],
           NEW o \in Launchers, o # l, game'[o] = game[o], UNCHANGED line,
           game[o] = "starting" /\ ~excused'[o] => ~excused[o] /\ UNCHANGED cfg
    PROVE  LauncherFits(o)'
  <1>1. launcher'[o] = launcher[o] /\ launcher[o] \notin Configuring
    BY Alone DEF LaunchTypeOK
  <1>2. game'[o] = "starting" /\ ~excused'[o] => Says(cfg, line[o])'
    BY DEF Fit, LauncherFits, Says, Value
  <1>3. launcher[o] \in {"dll", "write dll", "remove"} => LoadDll(line[o])'
    BY DEF Fit, LauncherFits, LoadDll
  <1> QED
    BY <1>1, <1>2, <1>3 DEF LauncherFits, Configuring

LEMMA FitConfigure ==
    ASSUME LaunchTypeOK, Fit, NEW l \in Launchers, ReadConfig(l) \/ ReadConfigFails(l)
    PROVE  Fit'
  <1>1. PICK new \in Configs :
            /\ Configure(l, new)
            /\ new = cfg \/ excused'[l]
            /\ \A o \in Launchers : excused[o] => excused'[o]
            /\ excused' \in [Launchers -> BOOLEAN]
    BY NoKeysTyped DEF ReadConfig, ReadConfigFails, Excuse, LaunchTypeOK
  <1>2. /\ launcher[l] = "read" /\ UNCHANGED <<cfg, line, game>>
        /\ config'[l] = Configured(new, line[l])
        /\ launcher' = [launcher EXCEPT ![l] = IF DOMAIN config'[l] = {} THEN "launch" ELSE "create"]
    BY <1>1 DEF Configure, Goes, LaunchTypeOK
  <1>3. /\ Says(Configured(new, line[l]), line[l])
        /\ DOMAIN Configured(new, line[l]) = {} => Says(new, line[l])
    BY ConfiguredSays DEF LaunchTypeOK
  <1>4. game[l] = "none" /\ \A o \in Launchers \ {l} : launcher[o] \notin Configuring
    BY <1>2, Alone DEF Configuring
  <1>5. LauncherFits(l)'
    <2>1. launcher'[l] \in {"create", "launch"}
      BY <1>2 DEF LaunchTypeOK
    <2>2. \A o \in Launchers \ {l} : launcher'[o] \notin Configuring
      BY <1>2, <1>4 DEF LaunchTypeOK
    <2>3. Says(config[l], line[l])'
      BY <1>2, <1>3 DEF Says, Value
    <2>4. launcher'[l] = "launch" /\ ~excused'[l] => Says(cfg, line[l])'
      BY <1>1, <1>2, <1>3 DEF Says, Value, LaunchTypeOK
    <2> QED
      BY <2>1, <2>2, <2>3, <2>4, <1>2, <1>4 DEF LauncherFits, Configuring
  <1>6. ASSUME NEW o \in Launchers, o # l PROVE LauncherFits(o)'
    <2>1. launcher[l] \in Configuring
      BY <1>2 DEF Configuring
    <2> QED
      BY <1>1, <1>2, <1>6, <2>1, FitOther
  <1> QED
    BY <1>5, <1>6 DEF Fit

LEMMA FitCreate ==
    ASSUME LaunchTypeOK, Fit, NEW l \in Launchers, CreateConfig(l)
    PROVE  Fit'
  <1>1. /\ launcher[l] = "create" /\ launcher' = [launcher EXCEPT ![l] = "write"]
        /\ cfg' = NoKeys /\ UNCHANGED <<line, config, game>>
        /\ \A o \in Launchers : (excused[o] \/ game[o] = "starting") <=> excused'[o]
    BY DEF CreateConfig, Goes, Excuse, LaunchTypeOK
  <1>2. game[l] = "none" /\ \A o \in Launchers \ {l} : launcher[o] \notin Configuring
    BY <1>1, Alone DEF Configuring
  <1>3. LauncherFits(l)'
    <2>1. launcher'[l] = "write" /\ \A o \in Launchers \ {l} : launcher'[o] \notin Configuring
      BY <1>1, <1>2 DEF LaunchTypeOK
    <2>2. Says(config[l], line[l])'
      BY <1>1 DEF Fit, LauncherFits, Says, Value
    <2> QED
      BY <2>1, <2>2, <1>1, <1>2, NoKeysTyped DEF LauncherFits
  <1>4. ASSUME NEW o \in Launchers, o # l PROVE LauncherFits(o)'
    <2>1. launcher[l] \in Configuring
      BY <1>1 DEF Configuring
    <2> QED
      BY <1>1, <1>4, <2>1, FitOther
  <1> QED
    BY <1>3, <1>4 DEF Fit

LEMMA FitWriteLine ==
    ASSUME LaunchTypeOK, Fit, NEW l \in Launchers, WriteLine(l)
    PROVE  Fit'
  <1>1. launcher[l] = "write" /\ UNCHANGED <<launcher, line, config, game, excused>>
    BY DEF WriteLine
  <1>2. PICK k \in DOMAIN config[l] :
            cfg' = [i \in DOMAIN cfg \cup {k} |-> IF i = k THEN config[l][k] ELSE cfg[i]]
    BY DEF WriteLine
  <1>3. \A i \in DOMAIN cfg' : i \in DOMAIN config[l] /\ cfg'[i] = config[l][i]
    <2>1. \A i \in DOMAIN cfg : i \in DOMAIN config[l] /\ cfg[i] = config[l][i]
      BY <1>1 DEF Fit, LauncherFits
    <2> QED
      BY <1>2, <2>1
  <1>4. \A o \in Launchers : game[o] = "starting" => excused[o]
    BY <1>1 DEF Fit, LauncherFits
  <1>5. game[l] = "none" /\ \A o \in Launchers \ {l} : launcher[o] \notin Configuring
    BY <1>1, Alone DEF Configuring
  <1>6. LauncherFits(l)'
    <2>1. Says(config[l], line[l])'
      BY <1>1 DEF Fit, LauncherFits, Says, Value
    <2> QED
      BY <2>1, <1>1, <1>3, <1>4, <1>5 DEF LauncherFits
  <1>7. ASSUME NEW o \in Launchers, o # l PROVE LauncherFits(o)'
    <2>1. launcher[l] \in Configuring /\ launcher' = [launcher EXCEPT ![l] = "write"]
      BY <1>1 DEF Configuring, LaunchTypeOK
    <2> QED
      BY <1>1, <1>4, <1>7, <2>1, FitOther
  <1> QED
    BY <1>6, <1>7 DEF Fit

LEMMA FitSave ==
    ASSUME LaunchTypeOK, Fit, NEW l \in Launchers, Saved(l) \/ SaveFails(l)
    PROVE  Fit'
  <1>1. /\ launcher[l] \in {"create", "write"}
        /\ launcher' = [launcher EXCEPT ![l] = "launch"]
        /\ UNCHANGED <<cfg, line, game>>
        /\ \A o \in Launchers : excused[o] => excused'[o]
    BY DEF Saved, SaveFails, Goes, Excuse, LaunchTypeOK
  <1>2. game[l] = "none" /\ \A o \in Launchers \ {l} : launcher[o] \notin Configuring
    BY <1>1, Alone DEF Configuring
  <1>3. excused'[l] \/ Says(cfg, line[l])'
    <2>1. CASE Saved(l)
      <3>1. Says(config[l], line[l]) /\ DOMAIN config[l] \subseteq DOMAIN cfg
        BY <2>1, <1>1 DEF Saved, Fit, LauncherFits
      <3>2. \A k \in DOMAIN cfg : k \in DOMAIN config[l] /\ cfg[k] = config[l][k]
        BY <2>1 DEF Saved, Goes, Fit, LauncherFits
      <3> QED
        BY <3>1, <3>2, <1>1 DEF Says, Value
    <2>2. CASE SaveFails(l)
      BY <2>2 DEF SaveFails, Excuse
    <2> QED
      BY <2>1, <2>2
  <1>4. LauncherFits(l)'
    <2>1. launcher'[l] = "launch" /\ \A o \in Launchers \ {l} : launcher'[o] \notin Configuring
      BY <1>1, <1>2 DEF LaunchTypeOK
    <2> QED
      BY <2>1, <1>1, <1>2, <1>3 DEF LauncherFits
  <1>5. ASSUME NEW o \in Launchers, o # l PROVE LauncherFits(o)'
    <2>1. launcher[l] \in Configuring
      BY <1>1 DEF Configuring
    <2> QED
      BY <1>1, <1>5, <2>1, FitOther
  <1> QED
    BY <1>4, <1>5 DEF Fit

LEMMA FitLaunch ==
    ASSUME LaunchTypeOK, Fit, NEW l \in Launchers, LaunchGame(l) \/ LaunchGameFails(l)
    PROVE  Fit'
  <1>1. PICK to \in {"off", "dll", "wait"} :
            /\ launcher[l] = "launch" /\ launcher' = [launcher EXCEPT ![l] = to]
            /\ to = "dll" => LoadDll(line[l])
            /\ to = "off" => game' = game
            /\ to # "off" => excused' = excused
    BY DEF LaunchGame, LaunchGameFails, Goes
  <1>2. /\ UNCHANGED <<cfg, line>>
        /\ \A o \in Launchers \ {l} : game'[o] = game[o] /\ excused'[o] = excused[o]
    BY DEF LaunchGame, LaunchGameFails, LaunchTypeOK
  <1>3. game[l] = "none" /\ (~excused[l] => Says(cfg, line[l]))
    BY <1>1, Alone DEF Configuring, Fit, LauncherFits
  <1>4. LauncherFits(l)'
    <2>1. launcher'[l] = to
      BY <1>1 DEF LaunchTypeOK
    <2>2. game'[l] = "starting" /\ ~excused'[l] => Says(cfg, line[l])'
      BY <1>1, <1>2, <1>3 DEF Says, Value
    <2>3. to = "dll" => LoadDll(line[l])'
      BY <1>1, <1>2 DEF LoadDll
    <2> QED
      BY <2>1, <2>2, <2>3 DEF LauncherFits, Configuring
  <1>5. ASSUME NEW o \in Launchers, o # l PROVE LauncherFits(o)'
    <2>1. launcher[l] \in Configuring
      BY <1>1 DEF Configuring
    <2> QED
      BY <1>1, <1>2, <1>5, <2>1, FitOther
  <1> QED
    BY <1>4, <1>5 DEF Fit

(* A launcher that is past configuring, or is killed, leaves the settings     *)
(* alone.                                                                    *)
Past == {"off", "write dll", "wait", "remove"}
LEMMA FitPast ==
    ASSUME LaunchTypeOK, Fit, NEW l \in Launchers, NEW to \in Past,
           launcher' = [launcher EXCEPT ![l] = to],
           to \in {"write dll", "remove"} => LoadDll(line[l]),
           UNCHANGED <<cfg, line, game>>,
           \A o \in Launchers \ {l} : config'[o] = config[o],
           \A o \in Launchers : game[o] # "none" \/ o # l => excused'[o] = excused[o]
    PROVE  Fit'
  <1> SUFFICES ASSUME NEW o \in Launchers PROVE LauncherFits(o)'
    BY DEF Fit
  <1>1. \A p \in Launchers : launcher'[p] \in Configuring => p # l /\ launcher'[p] = launcher[p]
    BY DEF LaunchTypeOK, Past, Configuring
  <1>2. launcher'[o] \in Configuring =>
            /\ game'[o] = "none"
            /\ \A p \in Launchers \ {o} : launcher'[p] \notin Configuring
    BY <1>1, Alone
  <1>3. launcher'[o] \in {"create", "write"} => Says(config[o], line[o])'
    <2> SUFFICES ASSUME launcher'[o] \in {"create", "write"} PROVE Says(config[o], line[o])'
      OBVIOUS
    <2>1. o # l /\ launcher'[o] = launcher[o]
      BY <1>1 DEF Configuring
    <2>2. Says(config[o], line[o]) /\ config'[o] = config[o]
      BY <2>1 DEF Fit, LauncherFits
    <2> QED
      BY <2>2 DEF Says, Value
  <1>4. launcher'[o] = "write" =>
            /\ \A k \in DOMAIN cfg' : k \in DOMAIN config'[o] /\ cfg'[k] = config'[o][k]
            /\ \A p \in Launchers : game'[p] = "starting" => excused'[p]
    <2> SUFFICES ASSUME launcher'[o] = "write"
                 PROVE  /\ \A k \in DOMAIN cfg' : k \in DOMAIN config'[o] /\ cfg'[k] = config'[o][k]
                        /\ \A p \in Launchers : game'[p] = "starting" => excused'[p]
      OBVIOUS
    <2>1. o # l /\ launcher[o] = "write" /\ config'[o] = config[o]
      BY <1>1 DEF Configuring
    <2>2. /\ \A k \in DOMAIN cfg : k \in DOMAIN config[o] /\ cfg[k] = config[o][k]
          /\ \A p \in Launchers : game[p] = "starting" => excused[p]
      BY <2>1 DEF Fit, LauncherFits
    <2> QED
      BY <2>1, <2>2
  <1>5. (launcher'[o] = "launch" \/ game'[o] = "starting") /\ ~excused'[o] => Says(cfg, line[o])'
    <2>1. launcher'[o] = "launch" => o # l /\ launcher[o] = "launch"
      BY <1>1 DEF Configuring
    <2> QED
      BY <2>1, StartingSays DEF Says, Value
  <1>6. launcher'[o] \in {"dll", "write dll", "remove"} => LoadDll(line[o])'
    <2>1. CASE o = l
      BY <2>1 DEF LaunchTypeOK, Past, LoadDll
    <2>2. CASE o # l
      BY <2>2 DEF LaunchTypeOK, LoadDll, Fit, LauncherFits
    <2> QED
      BY <2>1, <2>2
  <1> QED
    BY <1>2, <1>3, <1>4, <1>5, <1>6 DEF LauncherFits

LEMMA FitDll ==
    ASSUME LaunchTypeOK, Fit, NEW l \in Launchers,
           \/ CreateDll(l) \/ WriteDll(l) \/ DllFails(l)
           \/ Wait(l) \/ RemoveDll(l) \/ RemoveDllFails(l)
    PROVE  Fit'
  <1>1. launcher[l] = "dll" => LoadDll(line[l])
    BY DEF Fit, LauncherFits
  <1>2. PICK to \in Past :
            /\ launcher' = [launcher EXCEPT ![l] = to]
            /\ to \in {"write dll", "remove"} => LoadDll(line[l])
    BY <1>1 DEF CreateDll, WriteDll, DllFails, Wait, RemoveDll, RemoveDllFails, Goes, Past
  <1>3. UNCHANGED <<cfg, line, config, game, excused>>
    BY DEF CreateDll, WriteDll, DllFails, Wait, RemoveDll, RemoveDllFails
  <1> QED
    BY <1>2, <1>3, FitPast

LEMMA FitKill ==
    ASSUME LaunchTypeOK, Fit, NEW l \in Launchers, KillLauncher(l)
    PROVE  Fit'
  <1>1. /\ launcher' = [launcher EXCEPT ![l] = "off"] /\ UNCHANGED <<cfg, line, game>>
        /\ \A o \in Launchers \ {l} : config'[o] = config[o]
    BY DEF KillLauncher, Discarded, LaunchTypeOK
  <1>2. \A o \in Launchers : game[o] # "none" \/ o # l => excused'[o] = excused[o]
    BY DEF KillLauncher, LaunchTypeOK
  <1> QED
    BY <1>1, <1>2, FitPast DEF Past

(* A game that loads or ends was started by a launcher that is past          *)
(* configuring.                                                             *)
LEMMA FitGame ==
    ASSUME LaunchTypeOK, Fit, NEW l \in Launchers, GameLoads(l) \/ GameEnds(l)
    PROVE  Fit'
  <1> SUFFICES ASSUME NEW o \in Launchers PROVE LauncherFits(o)'
    BY DEF Fit
  <1>1. /\ game[l] # "none" /\ game'[l] # "starting"
        /\ \A p \in Launchers \ {l} : game'[p] = game[p] /\ excused'[p] = excused[p]
        /\ UNCHANGED <<cfg, launcher, line, config>>
    BY DEF GameLoads, GameEnds, LaunchTypeOK
  <1>2. launcher[l] \notin Configuring
    BY <1>1 DEF Fit, LauncherFits
  <1>3. LauncherFits(o)
    BY DEF Fit
  <1>4. launcher'[o] \in {"create", "write"} => Says(config[o], line[o])'
    BY <1>1, <1>3 DEF LauncherFits, Says, Value
  <1>5. (launcher'[o] = "launch" \/ game'[o] = "starting") /\ ~excused'[o] => Says(cfg, line[o])'
    <2>1. launcher'[o] = "launch" => o # l
      BY <1>1, <1>2 DEF Configuring
    <2> QED
      BY <2>1, <1>1, StartingSays DEF Says, Value
  <1>6. launcher'[o] \in Configuring => o # l
    BY <1>1, <1>2
  <1>7. launcher'[o] = "write" =>
            /\ \A k \in DOMAIN cfg' : k \in DOMAIN config'[o] /\ cfg'[k] = config'[o][k]
            /\ \A p \in Launchers : game'[p] = "starting" => excused'[p]
    BY <1>1, <1>3 DEF LauncherFits
  <1>8. launcher'[o] \in {"dll", "write dll", "remove"} => LoadDll(line[o])'
    BY <1>1, <1>3 DEF LauncherFits, LoadDll
  <1>9. launcher'[o] \in Configuring =>
            game'[o] = "none" /\ \A p \in Launchers \ {o} : launcher'[p] \notin Configuring
    BY <1>1, <1>3, <1>6 DEF LauncherFits
  <1> QED
    BY <1>4, <1>5, <1>7, <1>8, <1>9 DEF LauncherFits

LEMMA FitNext ==
    ASSUME LaunchTypeOK, Fit, NEW l \in Launchers, Main(l) \/ GameLoads(l) \/ GameEnds(l)
    PROVE  Fit'
  BY FitStart, FitConfigure, FitCreate, FitWriteLine, FitSave, FitLaunch, FitDll, FitKill, FitGame
  DEF Main

-----------------------------------------------------------------------------
(* What a game finds.                                                      *)

LEMMA FoundNext ==
    ASSUME LaunchTypeOK, Fit, FoundIsAsked,
           NEW l \in Launchers, Main(l) \/ GameLoads(l) \/ GameEnds(l)
    PROVE  FoundIsAsked'
  <1> SUFFICES ASSUME NEW o \in Launchers, game'[o] = "running", ~excused'[o]
               PROVE  found'[o] \in {NoDll, Settings(line'[o])}
    BY DEF FoundIsAsked
  <1>1. CASE GameLoads(l) /\ o = l
    <2>1. /\ game[l] = "starting" /\ ~excused[l] /\ UNCHANGED <<line, excused>>
          /\ found'[l] = IF dll = "whole" THEN [k \in ConfigKeys |-> Value(cfg, k)] ELSE NoDll
      BY <1>1 DEF GameLoads, LaunchTypeOK
    <2>2. Says(cfg, line[l])
      BY <2>1, StartingSays
    <2>3. [k \in ConfigKeys |-> Value(cfg, k)] = Settings(line[l])
      BY <2>2 DEF Says, Settings, ConfigKeys
    <2> QED
      BY <2>1, <2>3, <1>1
  <1>2. CASE ~(GameLoads(l) /\ o = l)
    <2>1. game[o] = "running" /\ found'[o] = found[o] /\ line'[o] = line[o] /\ ~excused[o]
      <3>1. CASE StartLauncher(l)
        BY <3>1 DEF StartLauncher, Goes, LaunchTypeOK
      <3>2. CASE ReadConfig(l) \/ ReadConfigFails(l)
        BY <3>2 DEF ReadConfig, ReadConfigFails, Configure, Excuse, LaunchTypeOK
      <3>3. CASE CreateConfig(l) \/ WriteLine(l) \/ Saved(l) \/ SaveFails(l)
        BY <3>3 DEF CreateConfig, WriteLine, Saved, SaveFails, Excuse, LaunchTypeOK
      <3>4. CASE LaunchGame(l) \/ LaunchGameFails(l)
        <4>1. launcher[l] = "launch"
          BY <3>4 DEF LaunchGame, LaunchGameFails, Goes
        <4>2. game[l] = "none"
          BY <4>1, Alone DEF Configuring
        <4> QED
          BY <3>4, <4>2 DEF LaunchGame, LaunchGameFails, LaunchTypeOK
      <3>5. CASE \/ CreateDll(l) \/ WriteDll(l) \/ DllFails(l)
                 \/ Wait(l) \/ RemoveDll(l) \/ RemoveDllFails(l)
        BY <3>5 DEF CreateDll, WriteDll, DllFails, Wait, RemoveDll, RemoveDllFails
      <3>6. CASE KillLauncher(l)
        BY <3>6 DEF KillLauncher, LaunchTypeOK
      <3>7. CASE GameLoads(l)
        BY <1>2, <3>7 DEF GameLoads, LaunchTypeOK
      <3>8. CASE GameEnds(l)
        BY <3>8 DEF GameEnds, LaunchTypeOK
      <3> QED
        BY <3>1, <3>2, <3>3, <3>4, <3>5, <3>6, <3>7, <3>8 DEF Main
    <2> QED
      BY <2>1 DEF FoundIsAsked, Settings
  <1> QED
    BY <1>1, <1>2

-----------------------------------------------------------------------------
(* Whom ddraw.dll is there for.                                            *)

(* A launcher that still injects after a step of another one.               *)
LEMMA StillInjecting ==
    ASSUME NEW o \in Launchers, Injecting(o), launcher'[o] = launcher[o], line'[o] = line[o]
    PROVE  Injecting(o)'
  BY DEF Injecting, LoadDll

LEMMA DllNext ==
    ASSUME LaunchTypeOK, Fit, DllIsWanted,
           NEW l \in Launchers, Main(l) \/ GameLoads(l) \/ GameEnds(l)
    PROVE  DllIsWanted'
  <1>1. CASE CreateDll(l) \/ WriteDll(l)
    <2>1. launcher[l] \in {"dll", "write dll"} /\ UNCHANGED line
      BY <1>1 DEF CreateDll, WriteDll, Goes
    <2>2. launcher'[l] \in {"write dll", "wait"}
      BY <1>1 DEF CreateDll, WriteDll, Goes, LaunchTypeOK
    <2>3. LoadDll(line[l])'
      BY <2>1 DEF Fit, LauncherFits, LoadDll
    <2> QED
      BY <2>2, <2>3 DEF DllIsWanted, Injecting
  <1>2. CASE RemoveDll(l)
    BY <1>2 DEF RemoveDll, DllIsWanted
  <1>3. CASE /\ UNCHANGED <<dll, behind>>
             /\ \A o \in Launchers \ {l} : launcher'[o] = launcher[o] /\ line'[o] = line[o]
             /\ Injecting(l) => Injecting(l)'
    <2>1. CASE dll = "missing" \/ behind
      BY <1>3, <2>1 DEF DllIsWanted
    <2>2. CASE \E o \in Launchers : Injecting(o)
      <3>1. PICK o \in Launchers : Injecting(o)
        BY <2>2
      <3>2. Injecting(o)'
        BY <1>3, <3>1, StillInjecting
      <3> QED
        BY <3>2 DEF DllIsWanted
    <2> QED
      BY <2>1, <2>2 DEF DllIsWanted
  <1>4. CASE RemoveDllFails(l) \/ KillLauncher(l)
    <2>1. CASE dll = "missing" \/ behind'
      BY <1>4, <2>1 DEF RemoveDllFails, KillLauncher, DllIsWanted
    <2>2. CASE dll # "missing" /\ ~behind'
      <3>1. ~behind
        BY <1>4, <2>2 DEF RemoveDllFails, KillLauncher
      <3>2. PICK o \in Launchers : Injecting(o)
        BY <2>2, <3>1 DEF DllIsWanted
      <3>3. o # l
        BY <1>4, <2>2, <3>2 DEF RemoveDllFails, KillLauncher
      <3>4. launcher'[o] = launcher[o] /\ line'[o] = line[o]
        BY <1>4, <3>3 DEF RemoveDllFails, KillLauncher, Goes, LaunchTypeOK
      <3> QED
        BY <3>2, <3>4, StillInjecting DEF DllIsWanted
    <2> QED
      BY <2>1, <2>2
  <1>5. CASE StartLauncher(l)
    <2>1. /\ UNCHANGED <<dll, behind>> /\ ~Injecting(l)
          /\ \A o \in Launchers \ {l} : launcher'[o] = launcher[o] /\ line'[o] = line[o]
      BY <1>5 DEF StartLauncher, Goes, LaunchTypeOK, Injecting
    <2> QED
      BY <2>1, <1>3
  <1>6. CASE ReadConfig(l) \/ ReadConfigFails(l) \/ CreateConfig(l) \/ Saved(l) \/ SaveFails(l)
    <2>1. /\ UNCHANGED <<dll, behind>> /\ ~Injecting(l)
          /\ \A o \in Launchers \ {l} : launcher'[o] = launcher[o] /\ line'[o] = line[o]
      BY <1>6 DEF ReadConfig, ReadConfigFails, Configure, CreateConfig, Saved, SaveFails, Goes,
                  LaunchTypeOK, Injecting
    <2> QED
      BY <2>1, <1>3
  <1>7. CASE LaunchGame(l) \/ LaunchGameFails(l)
    <2>1. /\ UNCHANGED <<dll, behind>> /\ ~Injecting(l)
          /\ \A o \in Launchers \ {l} : launcher'[o] = launcher[o] /\ line'[o] = line[o]
      BY <1>7 DEF LaunchGame, LaunchGameFails, Goes, LaunchTypeOK, Injecting
    <2> QED
      BY <2>1, <1>3
  <1>8. CASE WriteLine(l) \/ GameLoads(l) \/ GameEnds(l)
    <2>1. UNCHANGED <<dll, behind, launcher, line>>
      BY <1>8 DEF WriteLine, GameLoads, GameEnds
    <2>2. Injecting(l) => Injecting(l)'
      BY <2>1 DEF Injecting, LoadDll
    <2> QED
      BY <2>1, <2>2, <1>3
  <1>9. CASE DllFails(l) \/ Wait(l)
    <2>1. /\ UNCHANGED <<dll, behind, line>>
          /\ \A o \in Launchers \ {l} : launcher'[o] = launcher[o]
      BY <1>9 DEF DllFails, Wait, Goes, LaunchTypeOK
    <2>2. Injecting(l) => Injecting(l)'
      <3>1. LoadDll(line[l]) => launcher'[l] \in {"wait", "remove"}
        BY <1>9 DEF DllFails, Wait, Goes, LaunchTypeOK
      <3> QED
        BY <2>1, <3>1 DEF Injecting, LoadDll
    <2> QED
      BY <2>1, <2>2, <1>3
  <1> QED
    BY <1>1, <1>2, <1>4, <1>5, <1>6, <1>7, <1>8, <1>9 DEF Main

-----------------------------------------------------------------------------
(* The theorems.                                                           *)

(* LaunchInv, for any launchers and command lines: one configures at a time,  *)
(* and a game that starts will find what its command line asks for.          *)
THEOREM LaunchInvariant == LaunchSpec => []LaunchInv
  <1>1. LaunchInit => LaunchInv
    <2> SUFFICES ASSUME LaunchInit PROVE LaunchInv
      OBVIOUS
    <2>1. LaunchTypeOK
      BY TypeInit
    <2>2. \A l \in Launchers : LauncherFits(l)
      BY DEF LaunchInit, LauncherFits, Configuring
    <2>3. FoundIsAsked
      BY DEF LaunchInit, FoundIsAsked
    <2>4. DllIsWanted
      BY DEF LaunchInit, DllIsWanted
    <2> QED
      BY <2>1, <2>2, <2>3, <2>4 DEF LaunchInv
  <1>2. LaunchInv /\ [LaunchNext]_launchVars => LaunchInv'
    <2> SUFFICES ASSUME LaunchInv, [LaunchNext]_launchVars PROVE LaunchInv'
      OBVIOUS
    <2>1. LaunchTypeOK /\ Fit /\ FoundIsAsked /\ DllIsWanted
      BY DEF LaunchInv, Fit
    <2>2. ASSUME NEW l \in Launchers, Main(l) \/ GameLoads(l) \/ GameEnds(l) PROVE LaunchInv'
      <3>1. LaunchTypeOK'
        BY <2>1, <2>2, TypeNext
      <3>2. Fit'
        BY <2>1, <2>2, FitNext
      <3>3. FoundIsAsked'
        BY <2>1, <2>2, FoundNext
      <3>4. DllIsWanted'
        BY <2>1, <2>2, DllNext
      <3> QED
        BY <3>1, <3>2, <3>3, <3>4 DEF LaunchInv, Fit
    <2>3. CASE UNCHANGED launchVars
      <3>1. UNCHANGED <<cfg, dll, launcher, line, config, game, found, excused, behind>>
        BY <2>3 DEF launchVars
      <3>2. LaunchTypeOK'
        BY <2>1, <3>1 DEF LaunchTypeOK
      <3>3. Fit'
        <4> SUFFICES ASSUME NEW o \in Launchers PROVE LauncherFits(o)'
          BY DEF Fit
        <4>1. LauncherFits(o)
          BY <2>1 DEF Fit
        <4>2. /\ Says(cfg, line[o])' <=> Says(cfg, line[o])
              /\ Says(config[o], line[o])' <=> Says(config[o], line[o])
              /\ LoadDll(line[o])' <=> LoadDll(line[o])
          BY <3>1 DEF Says, Value, LoadDll
        <4> QED
          BY <4>1, <4>2, <3>1 DEF LauncherFits
      <3>4. FoundIsAsked'
        BY <2>1, <3>1 DEF FoundIsAsked, Settings
      <3>5. DllIsWanted'
        BY <2>1, <3>1 DEF DllIsWanted, Injecting, LoadDll
      <3> QED
        BY <3>2, <3>3, <3>4, <3>5 DEF LaunchInv, Fit
    <2> QED
      BY <2>2, <2>3 DEF LaunchNext
  <1> QED
    BY <1>1, <1>2, PTL DEF LaunchSpec

(* A game that finds a DLL finds the settings of its own command line.       *)
THEOREM GamesFindWhatIsAsked == LaunchSpec => []FoundIsAsked
  <1>1. LaunchInv => FoundIsAsked
    BY DEF LaunchInv
  <1> QED
    BY <1>1, LaunchInvariant, PTL

(* ddraw.dll is only there for a launcher that injects, or left behind.       *)
THEOREM DllAlwaysWanted == LaunchSpec => []DllIsWanted
  <1>1. LaunchInv => DllIsWanted
    BY DEF LaunchInv
  <1> QED
    BY <1>1, LaunchInvariant, PTL
=============================================================================
