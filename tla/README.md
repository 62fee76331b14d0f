# A verification project for pso2-go

pso2-go is a set of Go libraries and command line tools for the game PSO2: a
proxy that relays the game's traffic, an updater and launcher, a patcher that
puts translated texts into the game's archives, and readers for the file
formats involved. The modules here model the parts that keep state, TLC checks
small instances of them, and TLAPS proves the most important invariants for
every value of the constants. `PROJECT.json` maps each definition to the source
lines that it stands for and lists the hazards the properties are aimed at.

To check a module: `tlc -config MCEndpoints.cfg MCEndpoints`; to check proofs:
`tlapm EndpointsProofs.tla`.

## The system

| Part | State | Operations | What is hard |
|---|---|---|---|
| **Proxy sessions** `net/proxy.go`, `net/connection.go` | the map `connections`, two descriptors and three goroutines per session | accept, dial, publish, route, collect errors, close, unpublish | goroutines blocked in Read or Write when the session ends; handlers that dereference a map entry another goroutine deletes |
| **Packet relay and encryption** `net/connection.go`, `net/handlers.go`, `net/routing.go`, `net/proxy.go` | the ciphers of both connections, the packet being handled | ReadPacket, the handlers in priority order, WritePacket, SetCipher | two goroutines share the ciphers without a lock; a stream cipher never recovers from one packet read under the wrong one |
| **Endpoints** `net/proxy.go`, `cmd/pso2-net/net.go` | the endpoint map, `ClientEndpoint` of every proxy | insert and start proxies, rewrite addresses, announce, dial | map and endpoints are shared by all sessions and by main, unlocked |
| **Parallel download** `download/cmd/download.go` | an unbuffered queue, the workers, `errs` | take, request, create, copy, complain, join | workers that leave, failures that leave no error, a file overwritten in place |
| **Updater** `cmd/pso2-download`, `download`, `trans/cmd/trans.go` | on disk: three patch lists, `version.ver`, `english.db`, the game's files; in memory: main's variables | one run of main for a set of flags | kills between any two writes or renames; requests that fail; lists of different versions; flags that skip steps |
| **Archive patching** `trans/cmd/trans.go`, `util/copyfile.go` | the archive in the game, in the backup path and in a temporary file | open, write, back up, install, remove; a pool as above | kills between the rename to the backup and the one from the temporary file; renames that become copies; patching what is patched already, or what a download has cut off |
| **PRS streams** `ice/prsreader.go` | a sliding window and the positions in it | Read, Seek | calls that end in the middle of a command, compaction of the window, ends of three kinds |
| **Text files** `text/textfile.go` | entries and pairs; in the file: words, NOF0 offsets, texts | NewTextFile, edits, Write | two loops that must agree on the place of every text; texts that conversions cannot carry |
| **Readers** `util/bufreader.go`, `util/readerat.go`, `text/tagfile.go` | the file's position, what is buffered, where BufReader takes itself to be, the bounds of sections | Read, Seek, ReadAt, open a section | everybody shares one position; seeks and reads that fail |
| **Translation database** `trans/db.go`, `cmd/pso2-trans` | five SQL tables, an open transaction, the loops of an import | import an archive or a table, strip, query | kills and failures inside and outside of transactions; lookups whose error is dropped; row ids that are given again; counting equal identifiers the same way in three places |
| **Launcher** `cmd/pso2-download`, `download/cmd/config.go` | `translation.cfg` and `ddraw.dll` on disk, a launcher and a game per start | read, set and save the configuration, start, write the DLL, wait, remove it | launchers that overlap; kills that leave the DLL or a torn configuration for the next game |
| Models, animations, keys, logging, `pso2-ice` | - | - | parsers, conversions and a main over an archive type that is not in the repository; not modelled |

How they meet: `cmd/pso2-net` starts one proxy per port, and these run sessions
(Proxy sessions) whose goroutines handle packets (Packet relay) and announce
addresses to other proxies (Endpoints). `cmd/pso2-download` runs the Updater,
which calls DownloadChanges (Parallel download) and then PatchFiles (Archive
patching), and at last is the Launcher. PatchFiles rewrites Text files that it
reads out of archives and looks their strings up in the Translation database,
which `pso2-trans` fills out of the same archives. All parsers stand on the
Readers.

## The modules

**ProxySession** - one `net.Proxy` and any number of sessions. `main[s]` is the
goroutine that `Start` creates for a connection and follows `Proxy` line by
line; `route[c]` is the goroutine that runs RoutePackets on connection `c`
(`Twin(c)` is the other one). The peers may send, stop reading or leave at any
point. Packets are only counted. The properties say that a handler's
`Destination` is never nil, that a session that has ended has left no open
descriptor, map entry or goroutine, and that every error and every loss of a
peer ends its session.

**CipherHandshake**, with the abstract **Relay** - one proxied block connection
and the key exchange on it. A goroutine per direction reads header and body
(looking at the cipher twice, as the code does), runs the handlers in order of
priority, writes and arms. `framed[d]` says whether its reads are still in step
with the sender's keystream. Relay says what a direction promises; `Uplink` and
`Downlink` are the refinement mappings. The game's packets are relayed; the
other direction is not (see Findings).

**Endpoints** - all proxies of `cmd/pso2-net`, which main is still inserting and
starting, and the games that connect to them. A game's connection receives a
packet that names addresses, announces them one by one, rewrites the packet and
forwards it. `told` is what a game heard of each port. A map read during
main's insert may end the process (`FatalError`), as Go's runtime does; an
announcement for a port that is not in the map yet is refused (`missed`).
`ClientEndpoint` belongs to the port and not to a game, so where PSO2 serves one
port at two addresses, the address announced last counts for everybody:
FollowsAnnouncement claims more only for ports with one server, and EndpointInv
that the address dialed is at least one meant for the port.

**DownloadPool**, with the abstract **WorkPool** - DownloadChanges: the feeding
goroutine, the workers, and every failure of every stage. WorkPool says that
each item is begun once and ended once and that the pool returns after that.

**Updater** - runs of `pso2-download`, one after the other, over the files on
disk. `pc` follows main; `Stop` kills a run anywhere; writing a file is a
truncation and a later write, so a kill leaves it torn. A file is its revision
and a form (intact, translated, short, corrupt, missing). History variables
record whether the current run met no failure (`clean`), what was pruned although
it is needed (`lost`) and what a failed download of a run with `-a` damaged
(`damaged`). The download pool is not repeated here: a change is downloaded or fails.
PatchFiles is: `unpatched` are the archives its workers have not dealt with, `temp` what
they have built in temporary files, and a worker moves the archive to the backup path
(`MoveToBackup`, with `-b`), truncates it when a rename became a copy (`Truncate`) and
puts the new one there (`Install`). Between these steps the run may be killed, any of
them may fail (`TranslateFails`), and what was built may be cut off, since the errors of
writing it are dropped (`trans/cmd/trans.go:173-179`). The workers' stages and the backups
themselves are PatchFiles' part.

PatchFiles thus leaves archives missing or cut off, and nothing withdraws
`patchlist-installed.txt`, which goes on vouching for them: later runs compare lists
and find nothing to do, and only `-a` makes them look at the files. That is how the
code is, and `spoiled` names those archives: a file enters it when a step of PatchFiles
turns it from whole into missing or cut off (also on the way to a successful
`Install`), and leaves it when it becomes whole or is downloaded. InstalledIsHonest and
CleanRunUpdates except it, as they do `lost` and `damaged`, and claim every other file.
RevertRestores excepts nothing: `-h -a -d` repairs all of these.

PublishingAssumption says what the code relies on of SEGA: no revision of a file
that was withdrawn is published again, and a file that was in an old list gets no
new revision in a main one. With a file of revisions 1, 2, 1 in three versions, a
run that fails after it has fetched revision 2 leaves the installed list vouching
for 1, and the run after version 3 fetches nothing.

**Launcher** - what main does with `-l`, by any number of launchers. Each reads
`translation.cfg`, sets and saves what its command line asks for, starts its game,
writes `ddraw.dll` into the game's directory, waits for the game and removes the
DLL; each of these may fail, and a launcher may be killed anywhere, which leaves
its game running. `found[l]` is what the game of `l` found when it loaded the DLL.
A game may start before the DLL is there, or find half of it (`NoDll`): that is
what the code does. The properties say what it must not find. Launchers overlap from the
moment the game is started on: that two configure at one time, which takes
somebody who starts both within milliseconds, is left out (`StartLauncher`).

**PatchFiles** - the pool that patches archives, over several runs, kills and
updates of the game in between. Each archive has three files (game, backup,
temporary); renames fail and become copies, which truncate first. An update
(`Download`) writes the archive in place, in a new revision or the same again, and may
fail or be killed half way: what is SEGA's and cut off has the form "cut", what is
patched and cut off the form "part". `ice.Archive.IsModified` tells patched from not
patched, and not whole from cut off, so an original that a download has cut off is
moved to the backup path over the good one that may be there. `lost` names the archives
that such a download has cost: cut off when the backup path held no good copy, or when
it was overwritten then. `unsaved` are those patched in a run without a backup path.

**PrsReader** - the reader at the level of commands: literals, copies (byte by
byte, as they fill the buffer) and the two ends. The stream is chosen at first;
`buffer`, `outputBufferPosition`, `outputPosition`, `position` and `err` are the
fields. Read's and Seek's loops are steps. Note that a reader never returns
`io.EOF`: at the declared size it returns `io.ErrUnexpectedEOF`, as the code does.

**TextFile** - Write's three loops and the loop of parse, one entry a step. A text
has a length in code points and one in UTF-8 bytes, and is read back as itself
unless a conversion cannot carry it (`Lossless`): identifiers are written as
UTF-8 and read byte by byte, strings keep 16 bits of a code point. The place of a
text is the first word of its entry's `value`; `file` is what was written, and what
parse reads. `intended` remembers the TextFile that was written last.

**TransDatabase**, with the abstract **TransDictionary** - the five tables as
functions from row ids to rows, and runs of `pso2-trans`: the loop over the text
files of an archive, with a transaction for each file, the loop over the lines of
one of AIDA's tables, and Strip. A run may be killed anywhere, and SQLite then restores
what BEGIN found; it also does so by itself when certain statements fail (`RollsBack`),
after which the loop goes on outside of a transaction, with its local variables as they
were. A statement may fail anywhere. Some of these errors are dropped: a translation
or a file that is there is then not found and is inserted again, which no unique
index forbids (`Lookup`; `QueryTranslation` at `cmd/pso2-trans/trans.go:114, 276`, and
what `db.go` drops with its rows), or a string is said not to exist (`MissPair`).

TransDictionary knows neither rows nor ids: a translation is a function from entries of
text files to texts. `flaw` records what went wrong with the import at hand: nothing,
something that was reported, or something that went unnoticed; TransDictionary's `whole`
is that there was nothing. `mishaps` records for good that a second row of a file or of a
translation was inserted, or that texts were put in for a translation that a rollback has
taken away (`translation` at line 220 outlives it). Of rows that are there twice queries
find the first, in order of their ids, and so does the refinement mapping. `PatchedText`
is the lookup that PatchFiles makes, occurrence by occurrence. One process at a time
uses the database.

**SharedReader**, with the abstract **SectionReaders** - BufReader over a file, a
ReaderAt over BufReader and sections of that, all of which move one position:
`buf.raw` is the file's own, `buf.buffered` how much of what precedes it is still
held, `buf.position` where BufReader takes itself to be. Short reads, reads
and seeks that fail are steps. SectionReaders says that a section is read as if
nobody else read the file. `astray` marks a seek that has failed.

MC modules and configurations give the constants their values. Three of them hold
parts that do not meet, so that a behaviour is one of a single part while the
others keep an initial state: MCParts (PrsReader, TextFile, TransDatabase),
MCMain (Updater, Launcher) and MCEndpoints (Endpoints, SharedReader). That joins
their state spaces side by side; it composes nothing.

## What the runs check

| Run | Instance | Shows |
|---|---|---|
| proxy_session | one session, two packets of buffer per connection | DestinationKnown, NothingLeaks, the invariant MapOutlivesRoutes, ErrorEndsSession, PeerLossEndsSession |
| cipher_handshake | four packets each way | the invariant CipherInv, PeersInStep, GarbledOnlyAfterMisreading, KeyDelivered, and that the uplink implements Relay |
| download_pool | three files, two workers | ErrorsAreComplete, PoolInv, that it implements WorkPool, ReturnsUnlessDeserted |
| updater | Updater: two files, one of which is translated, two versions, launch with backups / check with pruning / revert, in two parts (see below). Launcher: two launchers, command lines that inject nothing, a key, or dump SEGA's | InstalledIsHonest, CleanRunUpdates, RevertRestores, CleanPruneIsSafe and their invariant CleanInv; FoundIsAsked, DllIsWanted |
| patch_files | two archives, one of which is published twice and may be cut off by a download; two workers; with and without backup | Restorable and its invariant CrashSafe, WholeUnlessReported and its invariant WholeInv, Returns |
| endpoints | Endpoints: two games, four ports, one of them with two servers. SharedReader: two sections of a file of four bytes, a buffer of three | FollowsAnnouncement, EndpointInv; ReaderInv, and that sections implement SectionReaders |
| formats | streams of up to six commands over a window of 3 bytes in 7; text files of up to eight entries; two archives, three contents of them, a table of three lines and two translations in up to three runs | ReadsPlaintext, CallsComplete, WindowInv, Returns; TextLayoutHolds, TextRoundTrip and their invariant TextInv; the invariant DatabaseInv (Integrity, ImportFollowed), PatchesFollowDictionary, and that the database implements TransDictionary |
| cipher_downlink, download_deserted, updater_refresh, updater_damage, updater_translation | as above; cipher_downlink with three packets | the findings below: TLC finds the property violated |

Why the bounds are enough to meet the interesting cases. Sessions share only the
map, whose entries are their own, so one session shows what several do, and the
theorems hold for any set of them. Two packets fill a TCP buffer and block a
writer. With four packets each way packets are read before, during and after
the arming of a connection. Three files and two workers make workers come back,
leave, and leave the main goroutine alone. One file that changes between two
versions and one that only the old list names give every way lists can differ
from each other and from the disk. A window of three bytes moves several times
in twelve bytes of text, in the middle of Reads and Seeks. In updater the command lines are taken
together while english.db is fetched once and only the file that changes may come
corrupted (`UpdateBound`), and english.db is
published again at any time while only launches are asked for (`Launches`). In
patch_files the archive that has one revision is never cut off by a download, and runs without a backup path come before those with one (`MCSpec`), which is
the order in which a backup may miss what was patched before; the theorems hold for
every order and for downloads of every archive. Reads of
the buffered file ask for four bytes, which is more than a section and the buffer
hold. Texts that are equal,
equal across statuses, empty, not ASCII and beyond 16 bits meet in one file.
Ports lead to one another as in the game: a ship to its block selection, to a
block, to another block. A buffer smaller than its file makes seeks inside the
buffer and below it. Two launchers overlap in every way, and one that was killed
is started again. Three runs of pso2-trans suffice to import SEGA's texts, strip
them (the ids of deleted rows are free then) and import another version that has an
entry more, or to import two archives and the table's translation of both; every
lookup may miss and every transaction be rolled back on the way; an identifier that
occurs twice in a file is counted by archives and by the table. Longer histories, as
translating, stripping and importing again, are the theorems' part.

Deadlock checking is off where the system may stop: a session that has
ended, a crashed process, a pool that has returned, a handshake whose
packets are used up. It is on in updater, patch_files and formats,
where the MC module lets nobody run pso2-trans after the last run.

## Fairness

- ProxySession, CipherHandshake: every goroutine that can take a step does,
  which is the Go scheduler's promise, and a Read or Write that can return
  returns. Nothing is assumed of the peers in ProxySession (they may stall for
  ever; PeerLossEndsSession names the one case in which that blocks a session).
  In CipherHandshake the receivers go on taking packets, for KeyDelivered.
- DownloadPool, PatchFiles: workers and the main goroutine take steps; a request
  is answered or fails. The HTTP client has no timeout (`download/download.go:20`),
  so a server that neither answers nor hangs up is outside of this; see hazards.
- PrsReader: a call that was begun goes on. Nothing makes anybody call.
- Updater, Launcher, Endpoints, SharedReader, TextFile, TransDatabase: safety only,
  no fairness.

## What is proved

All proofs are for every value of the constants that the named assumptions
allow. Each inductive invariant is also an invariant of a run.

- **ProxySessionProofs**: `MapInvariant` (MapOutlivesRoutes is inductive), and from it
  `TypeCorrect`, `DestinationAlwaysKnown`, `SessionsLeaveNothing`. That a handler
  finds its destination is not inductive by itself: it needs that both routing
  goroutines have reported before the map is changed, which needs the count of
  errors received to be the number of goroutines that have returned. Assumes:
  NoConn is no connection; Window is positive.
- **CipherHandshakeProofs**: `CipherInvariant` (CipherInv), and from it
  `PeersStayInStep`, `NothingGarbledBefore`, and `UplinkIsRelay`, the step simulation
  from the uplink to Relay. The invariant says how many packets a direction has
  read and written by where its goroutine stands and while its reads are in step
  (`HoldsWhatItRead`), which connection is armed at each of the up goroutine's steps
  (`KeyInPlace`), that what waits continues what was read (`ArrivesInOrder`), and that
  the PSO2 server sends nothing but its hello before it has the key
  (`PeersTakeTurns`). Without these PeersInStep is not inductive. Assumes: some
  bound on the packets; UplinkIsRelay assumes besides that SEGA's public key fits
  (`PublicKeyFits`), without which the PSO2 server gets a key it cannot read.
- **DownloadPoolProofs**: `PoolInvariant` (PoolInv), `TypeCorrect`, `ErrorsComplete`,
  and `ImplementsPool`, the step simulation to WorkPool. The invariant says where
  every entry is and that as many dones were received as workers have left; so
  none is at work when the last is received. Assumes: finitely many files.
- **PatchFilesProofs**: `CrashSafety` (CrashSafe) and `AlwaysRestorable`;
  `WholeInvariant` (WholeInv) and `ReturnsWhole`. Restorable needs to know, for every
  stage of a worker, which copies are complete, that no two workers have one
  archive, and that what is not patched in the game's directory is of the revision
  fetched last, whole or cut off. WholeUnlessReported needs, besides, what each stage has already seen to,
  and where every archive stands that no worker has: waiting, and not cut off
  unless excused, or left whole or reported. Assumes: a pool of at least one
  worker, as every caller asks for.
- **EndpointsProofs**: `EndpointInvariant` (EndpointInv), `TypeCorrect`,
  `AnnouncementsFollowed`. The invariant relates what a game was told, what is
  still to be announced and the endpoint of the port. Assumes: a port that the
  game knows by itself is served at main's default address.
- **ReaderProofs**, on PrsReader: `WindowHolds` (WindowInv with ReadsPlaintext),
  `TypeCorrect`, `PlaintextRead`, `CallsAreComplete`. The invariant says that the
  buffer is the end of what was produced and that the reader's position is where the
  part not taken begins; flushing keeps it because what is kept reaches as far back
  as copies do. `CallInv` adds what a call has counted: the bytes handed out and those
  still asked for are what was asked, and a Seek's goal stays ahead of the position.
  Assumes: the longest copy fits both into what is kept and above the threshold;
  streams do not copy from before their start.
- **ReaderProofs**, on SharedReader: `ReaderInvariant` (ReaderInv) and
  `SectionsReadAlone`, the step simulation to SectionReaders. The invariant relates
  the three positions: what BufReader takes to be its position is the file's less what
  is buffered, until a seek has failed. Assumes: sizes are numbers, the buffer holds a
  byte, reads ask for one.
- **ReaderProofs**, on TextFile: `TextInvHolds` (TextInv), and from it `TextTyped`,
  `TextLayout`, `TextRoundTrips`. What Write leaves out is defined without its
  bookkeeping: an entry is `Fresh` unless the last entry before it with its text has
  its status. `Remembered` says that the map of either loop holds the last entry of
  each text, so that both loops find the same entries fresh (`ReusableIsMet`); every
  fresh text begins where the one before it ends (`SizeIs`), and there is only one
  such place (`SizeUnique`), so that what the first loop puts into an entry is where
  the third loop is when it comes to it. The second loop moves an entry with a text
  and no other, and since every entry has a word, the places in NOF0 rise and
  tell the entries apart (`ValueWritten`). For the way back, `Parsed` describes entries
  as parse makes them, from marks and from identifiers that wait for a string
  (`Waiting`); edits and Write keep it. parse then goes in step with what was intended:
  the words agree where they are no places, so the modes agree, so an identifier
  waits in the one where it waits in the other (`ReadsAs`, `Paired`), and a text is
  read where its entry points because no two texts begin at one place. Assumes: lengths
  of texts are numbers, no text has fewer bytes than code points
  (`TextAssumption`); NOF0 of the game's own files lists whole words in order, the
  last entry has two, and no single word is an end mark, which parse would take for
  the place of a text (`FilesAssumption`).
- **TransDatabaseProofs**: `DatabaseInvariant` (DatabaseInv), `PatchesRight`, and
  `DictionaryKept`, the step simulation from five tables with row ids to
  TransDictionary. DatabaseInv has two parts. `Integrity` says of the tables, and of
  those that a rollback would restore, that rows refer to rows that are there and that
  no two rows stand for one thing, unless `mishaps` names the cause (`NoneTwice`), and
  that nothing is translated in a file that no lookup finds; `RunFits` says that the
  ids a run holds in its variables are still the rows it looked up, or that the import
  has a flaw (`OffCourse`). Since ids of deleted rows are given
  again, this is what keeps a reference from meaning another row; that NewId finds an
  id at all needs finite tables and that numbers are well-ordered (`Smallest`).
  `ImportFollowed` says that inside of a transaction the tables stand for the
  dictionary at BEGIN with the part of the import that was passed, which is all of it
  unless something failed; END then is one step of TransDictionary, and a rollback
  none. A statement that commits by itself after a rollback is one, too. Of Strip's statements the first two are steps of TransDictionary (Clear and
  Forget), the other two drop only what nothing refers to. Assumes: the parsers give
  contents and tables their types (`InputsAssumption`); what stands for no text and
  for no name is none (`NoStringAssumption`, `NoNameAssumption`).
- **MainProofs**, on Updater: `InstalledAlwaysHonest`, over the invariant HonestInv;
  `CleanInvariant` (CleanInv, which contains it), `CleanRunAlwaysUpdates`,
  `RevertAlwaysRestores`, `CleanPruneIsAlwaysSafe`. A failed download damages a file
  that the installed list must not vouch for then; it does not, since the file is a
  change: the list in memory gives it another revision than the installed one, and
  no list on disk or in memory is ever behind the installed list
  (`InstalledNotAhead`). That in turn needs to know which versions the entries of
  each list come from (`Sources`), torn or merged as they are, and what main's
  variables hold at each stage (`LocalsFit`). What is committed was compared or
  downloaded (`Settled`). What PatchFiles has built of a file the installed list is right
  about is of its revision (`BuiltFrom`), so that installing it does no harm unless it is
  cut off; and only files that are not whole are `spoiled` (`WorkersFit`). For the rest, `VersionsFit` says that `version.ver` names
  the newest version only with whole lists of it beside it, and `CleanFits` what a run
  has seen to that met no failure. Assumes: versions are numbered from 1; the
  archives that translations modify are files of the game;
  PublishingAssumption; all but InstalledAlwaysHonest assume besides that no command
  line has `-u` (`NoRefresh`; finding 3 shows why).
- **MainProofs**, on Launcher: `LaunchInvariant` (LaunchInv), `GamesFindWhatIsAsked`,
  `DllAlwaysWanted`. LaunchInv says that what a launcher is about to save is what its
  command line asks for, that a file being written holds part of that, and that the
  file says it as long as the game is starting, unless that one is excused. Assumes:
  there is some command line.

Only model-checked: everything under fairness (ErrorEndsSession,
PeerLossEndsSession, KeyDelivered, ReturnsUnlessDeserted, both Returns), which is
beyond the prover. Every safety invariant and every action property of the passing
runs is a theorem.

## Findings

1. **cipher_downlink** - the key leaves for the PSO2 server before the client
   connection is armed (`net/proxy.go:313`), and ReadPacket looks at the cipher
   twice (`net/connection.go:62, 85`). An answer that is faster than SetCipher is
   forwarded garbled.
2. **download_deserted** - a worker whose MkdirAll fails leaves the pool
   (`download/cmd/download.go:355`); when all have, DownloadChanges blocks.
3. **updater_refresh** - with `-u` the lists are rewritten under an unchanged
   `version.ver`; a kill in between leaves a torn list that later runs trust.
   The passing run `updater` has no `-u` among its command lines.
4. **updater_damage** - a failed download of a run with `-a` damages a file that the
   installed list vouches for; ordinary runs do not fetch it again.
5. **updater_translation** - that patches are due is known only to the run that
   fetched `english.db`.

`spoiled`, `lost` of PatchFiles and the `mishaps` of TransDatabase are defects of the code
as well, of the same kind as findings 3 and 4: no run is spent on them, since they stand
as exceptions in properties of the passing runs, and hazards in `PROJECT.json` name
their lines.

Exceptions that passing properties state in their definitions: `missed` (an
announcement refused while main starts proxies), `lost`, `damaged` and `spoiled` of
Updater (files pruned by mistake, damaged by a download under `-a`, or left missing or
cut off by PatchFiles), `excused` of PatchFiles (archives cut off before
the run, or whose write error the code drops), `unsaved` (patched in a run without
backup), `lost` of PatchFiles (a download that was cut off has cost the last original),
`Deserted`, `Stuck`, `Lossless`; `flaw = "unnoticed"` of TransDatabase (an error was
dropped, or SQLite rolled back by itself) and its `mishaps`, `astray` (a seek has failed, after which BufReader
takes itself to be at 0), `excused` of Launcher (an error in reading or saving
`translation.cfg` was dropped, or another launcher rewrote it while the game
started), `behind` (a DLL left by a kill or a failed Remove, which stays until a
launcher that injects has ended) and `NoDll`.

## What is not modelled

The content of packets beyond cipher and addresses, and their dumps; a public key
of the wrong size (`PublicKeyFits` is TRUE in the runs: SetKey's dropped error is
listed as a hazard); duplicate base names in patch lists; a line of
`translation.cfg` that is torn in its middle; the DLL's bytes; the bits of PRS
control bytes and the PRS writer, whose own comment calls it incorrect; PRS
streams that copy from before their start; damaged text files, and text files on a reader that is no
ReaderAt, which no caller has; the database's
versions table, which no query reads, and two processes on one database; several `-t`
translations in one run of the updater, which are taken as one; seekerWrapper,
which nobody seeks; the archive format, SQL, RC4 and RSA, which are not in the
repository or come from libraries; parsers that only print.

## Plan

1. PRS at the level of bits: control bytes against commands, and the writer against it.
2. Patch lists as sequences with duplicate base names: MergeOld, Diff.
3. Damaged text files: what parse returns of a file that ends early, and what
   PatchFiles writes back of it.
