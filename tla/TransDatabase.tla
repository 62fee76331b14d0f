---------------------------- MODULE TransDatabase ----------------------------
(***************************************************************************)
(* The translation database: its tables and queries (trans/db.go), and the *)
(* runs of pso2-trans that fill it (cmd/pso2-trans/trans.go) and strip it   *)
(* (StripDatabase of trans/cmd/trans.go).  A run imports archives, SEGA's   *)
(* own or translated ones, or a table of AIDA's; it may be killed anywhere. *)
(* Statements may fail: some errors are reported, some are taken for a row  *)
(* that is not there or are dropped, and SQLite may take the transaction    *)
(* back.  PatchedText is what PatchFiles looks up.                          *)
(*                                                                         *)
(* A table is a function from row ids to rows.  SQL, and SQLite's rollback  *)
(* journal, choice of row ids and order of rows, are outside src/, and one  *)
(* process at a time uses the database.  Versions, which no query reads,    *)
(* are left out.  A run that strips goes on with the copy; what is done to  *)
(* the original is what a run does that does not strip.                     *)
(***************************************************************************)
EXTENDS Integers, Sequences, FiniteSets

CONSTANTS Archives, FileNames, Identifiers,
          Texts,
          Names,      \* of translations
          Contents,   \* [archive, texts]: archives that may be imported, with their
                      \* text files, each a [name, pairs]
          Tables,     \* AIDA's tables, sequences of [archive, name, identifier, text]
          Empty,      \* the value of a stripped string
          NoString,
          NoName,     \* no -t flag
          MaxRuns     \* bound: how many runs there are

\* Archives and tables have the types their parsers give them.
ASSUME InputsAssumption ==
    /\ \A c \in Contents :
          /\ c.archive \in Archives
          /\ c.texts \in Seq([name : FileNames,
                              pairs : Seq([identifier : Identifiers, text : Texts])])
    /\ Tables \subseteq Seq([archive : Archives, name : FileNames,
                             identifier : Identifiers, text : Texts])
ASSUME NoNameAssumption == NoName \notin Names
ASSUME NoStringAssumption == NoString \notin Texts \cup {Empty}

VARIABLES
    \* The database's tables.
    archives, files, strings, translations, translated,
    \* The tables as they were at BEGIN, while a transaction is open.
    journal,
    \* A run: what it does, flagTrans, the archive's name, the text files or
    \* lines it has before it, the local variables a, f and translation (0 is
    \* nil), and what went wrong since BEGIN.
    stage, name, input, todo, at, archiveId, fileId, translationId, flaw,
    \* History: how many runs there were, and what has happened that nobody was told.
    runs, mishaps

tables == <<archives, files, strings, translations, translated>>
run == <<stage, name, input, todo, at, archiveId, fileId, translationId, flaw>>
databaseVars == <<tables, journal, run, runs, mishaps>>

EmptyTable == [i \in {} |-> 0]
NoJournal == [strings |-> EmptyTable, translations |-> EmptyTable,
              translated |-> EmptyTable, open |-> FALSE]

-----------------------------------------------------------------------------
(* Tables.                                                                 *)

\* The id SQLite gives a new row.
NewId(table) ==
    CHOOSE n \in {1} \cup {i + 1 : i \in DOMAIN table} : \A i \in DOMAIN table : i < n

Put(table, i, row) ==
    [j \in DOMAIN table \cup {i} |-> IF j = i THEN row ELSE table[j]]

Keep(table, ids) == [i \in DOMAIN table \cap ids |-> table[i]]

\* Queries that look for one row: the id of the first one, or 0.
Found(ids) == IF ids = {} THEN 0 ELSE CHOOSE i \in ids : \A j \in ids : i <= j
QueryArchive(a) == Found({i \in DOMAIN archives : archives[i] = a})
QueryFile(a, f) == Found({i \in DOMAIN files : files[i] = [archive |-> a, name |-> f]})
QueryTranslation(n) == Found({i \in DOMAIN translations : translations[i] = n})

QueryString(f, c, id) ==
    Found({i \in DOMAIN strings :
        /\ strings[i].file = f /\ strings[i].collision = c
        /\ strings[i].identifier = id})

\* A lookup gives the row that is there, or nothing if it fails: errors that come with
\* the rows are dropped in db.go, and QueryTranslation's in both imports.  What is not
\* found is inserted.
Lookup(there) == {there, 0}
RowFor(found, table) == IF found # 0 THEN found ELSE NewId(table)
Note(mishap, happens) == mishaps' = IF happens THEN mishaps \cup {mishap} ELSE mishaps

\* InsertTranslationString, or UpdateTranslationString if there is one already.
PutTranslationString(i, text) ==
    /\ translated' = Put(translated, <<translationId, i>>, text)
    /\ Note("orphans", translationId \notin DOMAIN translations)

\* A run has a second row for its translation, or one that has been taken back.
Astray == translationId # 0 /\ translationId # QueryTranslation(name)

\* How many of the lines before line k are for the same identifier (and file).
Occurrence(lines, k) ==
    Cardinality({j \in 1 .. k - 1 : [lines[j] EXCEPT !.text = lines[k].text] = lines[k]})

DatabaseInit ==
    /\ archives = EmptyTable /\ files = EmptyTable /\ strings = EmptyTable
    /\ translations = EmptyTable /\ translated = EmptyTable
    /\ journal = NoJournal
    /\ stage = "off" /\ name = NoName /\ input = NoName /\ todo = <<>> /\ at = 0
    /\ archiveId = 0 /\ fileId = 0 /\ translationId = 0 /\ flaw = "none"
    /\ runs = 0 /\ mishaps = {}

-----------------------------------------------------------------------------
(* Transactions.                                                           *)

BeginWith(trs) ==
    journal' = [strings |-> strings, translations |-> trs,
                translated |-> translated, open |-> TRUE]

\* Mutant of Begin: every statement commits by itself.
NoBegin == journal' = NoJournal

Begin == BeginWith(translations)

End == journal' = NoJournal

\* The process ends; SQLite rolls an open transaction back.
Rollback ==
    /\ UNCHANGED <<archives, files>>
    /\ IF journal.open
       THEN /\ strings' = journal.strings /\ translations' = journal.translations
            /\ translated' = journal.translated
       ELSE UNCHANGED <<strings, translations, translated>>
    /\ journal' = NoJournal

Idle ==
    /\ stage' = "off" /\ name' = NoName /\ input' = NoName /\ todo' = <<>> /\ at' = 0
    /\ archiveId' = 0 /\ fileId' = 0 /\ translationId' = 0 /\ flaw' = "none"

\* Killed; or ragequit, at a table's line whose archive is not in the list of
\* skits, or that is malformed.
Kill == stage # "off" /\ Rollback /\ Idle /\ UNCHANGED mishaps

\* SQLite takes the transaction back when a statement fails for want of space or
\* memory, or does not begin or end it.  If that error is reported, a step that fails
\* follows; if not, the import goes on, every statement committing by itself.
RollsBack ==
    /\ journal.open /\ Rollback
    /\ flaw' = "unnoticed"
    /\ UNCHANGED <<stage, name, input, todo, at, archiveId, fileId, translationId, mishaps>>

-----------------------------------------------------------------------------
(* Importing an archive: SEGA's texts, or with -t a translation.           *)

OpenArchive(content, n) ==
    /\ stage = "off"
    /\ stage' = "file" /\ name' = n
    /\ input' = content.archive /\ todo' = content.texts
    /\ UNCHANGED <<tables, journal, at, archiveId, fileId, translationId, flaw, mishaps>>

\* NewTextFile fails, or a query or insertion before BEGIN.
SkipFile ==
    /\ stage \in {"file", "lookup"} /\ todo # <<>>
    /\ stage' = "file" /\ todo' = Tail(todo)
    /\ UNCHANGED <<tables, journal, name, input, at, archiveId, fileId, translationId, flaw,
                   mishaps>>

FindArchive ==
    /\ stage = "file" /\ todo # <<>>
    /\ LET found == IF archiveId # 0 THEN archiveId ELSE QueryArchive(input) IN
       /\ archiveId' = IF found # 0 THEN found ELSE NewId(archives)
       /\ archives' = Put(archives, archiveId', input)
    /\ stage' = "lookup"
    /\ UNCHANGED <<files, strings, translations, translated, journal, name, input, todo,
                   at, fileId, translationId, flaw, mishaps>>

FindFile ==
    /\ stage = "lookup"
    /\ LET row == [archive |-> archiveId, name |-> Head(todo).name]
           there == QueryFile(archiveId, Head(todo).name) IN
       \E found \in Lookup(there) :
          /\ fileId' = RowFor(found, files) /\ files' = Put(files, fileId', row)
          /\ Note("second file", found # there)
          /\ flaw' = IF found # there \/ Astray THEN "unnoticed" ELSE "none"
    /\ stage' = "pairs" /\ at' = 1
    /\ Begin
    /\ UNCHANGED <<archives, strings, translations, translated, name, input, todo,
                   archiveId, translationId>>

textPairs == Head(todo).pairs
AtPair == stage = "pairs" /\ at <= Len(textPairs)
PairString == QueryString(fileId, Occurrence(textPairs, at), textPairs[at].identifier)
Differs == PairString # 0 /\ strings[PairString].value # textPairs[at].text

NextPair ==
    /\ at' = at + 1
    /\ UNCHANGED <<archives, files, journal, stage, name, input, todo, archiveId, fileId>>

PutString(i) ==
    /\ strings' = Put(strings, i, [file |-> fileId, collision |-> Occurrence(textPairs, at),
                                   identifier |-> textPairs[at].identifier,
                                   value |-> textPairs[at].text])
    /\ UNCHANGED <<translations, translated, mishaps>>

\* InsertString, or UpdateString of a text that SEGA has changed.
ImportOriginal ==
    /\ AtPair /\ name = NoName
    /\ \/ PairString = 0 /\ PutString(NewId(strings))
       \/ Differs /\ PutString(PairString)
    /\ NextPair
    /\ UNCHANGED <<translationId, flaw>>

FindTranslation ==
    /\ AtPair /\ name # NoName /\ Differs /\ translationId = 0
    /\ \E found \in Lookup(QueryTranslation(name)) :
          /\ translationId' = RowFor(found, translations)
          /\ Note("second translation", found # QueryTranslation(name))
          /\ flaw' = IF found # QueryTranslation(name) THEN "unnoticed" ELSE flaw
    /\ translations' = Put(translations, translationId', name)
    /\ UNCHANGED <<archives, files, strings, translated, journal, stage, name, input,
                   todo, at, archiveId, fileId>>

ImportTranslated ==
    /\ AtPair /\ name # NoName /\ Differs /\ translationId # 0
    /\ PutTranslationString(PairString, textPairs[at].text)
    /\ NextPair
    /\ UNCHANGED <<strings, translations, translationId, flaw>>

\* The text is the original's, or the identifier does not exist.
PassPair ==
    /\ AtPair /\ ~Differs
    /\ PairString # 0 \/ name # NoName
    /\ NextPair
    /\ UNCHANGED <<strings, translations, translated, translationId, flaw, mishaps>>

\* Its string is looked for and missed, and the identifier is said not to exist.
MissPair ==
    /\ AtPair /\ name # NoName /\ Differs
    /\ flaw' = "reported" /\ NextPair
    /\ UNCHANGED <<strings, translations, translated, translationId, mishaps>>

EndFile ==
    /\ stage' = "file" /\ todo' = Tail(todo) /\ fileId' = 0 /\ at' = 0
    /\ End
    /\ UNCHANGED <<tables, name, input, archiveId, translationId, mishaps>>

\* A statement fails: what was imported so far, and was not taken back, is committed.
PairFails == AtPair /\ flaw' = "reported" /\ EndFile

AllPairs == stage = "pairs" /\ at > Len(textPairs) /\ EndFile /\ UNCHANGED flaw

Finish ==
    /\ stage = "file" /\ todo = <<>> /\ Idle
    /\ UNCHANGED <<tables, journal, mishaps>>

-----------------------------------------------------------------------------
(* Importing a table of AIDA's.                                            *)

OpenTable(lines, n) ==
    /\ stage = "off"
    /\ stage' = "table" /\ name' = n /\ todo' = lines /\ at' = 1
    /\ \E found \in Lookup(QueryTranslation(n)) :
          /\ translationId' = RowFor(found, translations)
          /\ Note("second translation", found # QueryTranslation(n))
          /\ flaw' = IF found # QueryTranslation(n) THEN "unnoticed" ELSE "none"
    /\ translations' = Put(translations, translationId', n)
    /\ BeginWith(translations')
    /\ UNCHANGED <<archives, files, strings, translated, input, archiveId, fileId>>

AtLine == stage = "table" /\ at <= Len(todo)

\* The string of the line at hand, or 0.
LineString ==
    LET line == todo[at] IN
    QueryString(QueryFile(QueryArchive(line.archive), line.name),
                Occurrence(todo, at), line.identifier)

NextLine ==
    /\ at' = at + 1
    /\ UNCHANGED <<archives, files, strings, translations, journal, stage, name, input,
                   todo, archiveId, fileId, translationId>>

ImportLine ==
    /\ AtLine /\ LineString # 0 /\ strings[LineString].value # todo[at].text
    /\ PutTranslationString(LineString, todo[at].text)
    /\ NextLine /\ UNCHANGED flaw

PassLine ==
    /\ AtLine
    /\ LineString # 0 => strings[LineString].value = todo[at].text
    /\ NextLine /\ UNCHANGED <<translated, flaw, mishaps>>

\* A query fails and is reported, or the statement that writes fails and is not.
LineFails ==
    /\ AtLine
    /\ \/ flaw' = "reported"
       \/ LineString # 0 /\ strings[LineString].value # todo[at].text /\ flaw' = "unnoticed"
    /\ NextLine /\ UNCHANGED <<translated, mishaps>>

EndTable ==
    /\ stage = "table" /\ at > Len(todo)
    /\ End /\ stage' = "file" /\ todo' = <<>> /\ at' = 0
    /\ UNCHANGED <<tables, name, input, archiveId, fileId, translationId, flaw, mishaps>>

-----------------------------------------------------------------------------
(* Strip, on a copy of the database: each statement commits by itself.     *)

Strip(from, to) ==
    /\ stage = from /\ stage' = to
    /\ UNCHANGED <<translations, translated, journal, name, input, todo, at, archiveId,
                   fileId, translationId, flaw, mishaps>>

ClearValues ==
    /\ Strip("off", "cleared")
    /\ strings' = [i \in DOMAIN strings |-> [strings[i] EXCEPT !.value = Empty]]
    /\ UNCHANGED <<archives, files>>

\* Mutant of TranslatedIds: the wrong column is selected.
TranslationIds == {r[1] : r \in DOMAIN translated}

TranslatedIds == {r[2] : r \in DOMAIN translated}

DropStrings ==
    /\ Strip("cleared", "strings")
    /\ strings' = Keep(strings, TranslatedIds)
    /\ UNCHANGED <<archives, files>>

DropFiles ==
    /\ Strip("strings", "files")
    /\ files' = Keep(files, {strings[i].file : i \in DOMAIN strings})
    /\ UNCHANGED <<archives, strings>>

DropArchives ==
    /\ Strip("files", "off")
    /\ archives' = Keep(archives, {files[i].archive : i \in DOMAIN files})
    /\ UNCHANGED <<files, strings>>

DatabaseStep ==
    \/ SkipFile \/ FindArchive \/ FindFile
    \/ ImportOriginal \/ FindTranslation \/ ImportTranslated \/ PassPair \/ MissPair
    \/ RollsBack \/ PairFails \/ AllPairs \/ Finish
    \/ ImportLine \/ PassLine \/ LineFails \/ EndTable
    \/ DropStrings \/ DropFiles \/ DropArchives

Run ==
    /\ runs < MaxRuns /\ runs' = runs + 1
    /\ \/ \E content \in Contents, n \in Names \cup {NoName} : OpenArchive(content, n)
       \/ \E lines \in Tables, n \in Names : OpenTable(lines, n)
       \/ ClearValues

DatabaseNext ==
    \/ Run
    \/ (Kill \/ DatabaseStep) /\ UNCHANGED runs

DatabaseSpec == DatabaseInit /\ [][DatabaseNext]_databaseVars

-----------------------------------------------------------------------------
(* What PatchFiles makes of a text file.                                   *)

QueryArchivesTranslation(t) ==
    {files[strings[r[2]].file].archive : r \in {q \in DOMAIN translated : q[1] = t}}

QueryFiles(a, f) == {i \in DOMAIN files : files[i] = [archive |-> a, name |-> f]}

QueryTranslationStringsFile(t, f) ==
    {r \in DOMAIN translated : r[1] = t /\ strings[r[2]].file = f}

\* Mutant of TranslationOf: the collision is not looked at.
TranslationOfAnyCollision(rows, given, k) ==
    {r \in rows : strings[r[2]].identifier = given[k].identifier}

TranslationOf(rows, given, k) ==
    {r \in rows : /\ strings[r[2]].identifier = given[k].identifier
                  /\ strings[r[2]].collision = Occurrence(given, k)}

PatchedText(n, a, f, given) ==
    LET t == QueryTranslation(n)
        rows == UNION {QueryTranslationStringsFile(t, i) : i \in QueryFiles(QueryArchive(a), f)}
        of(k) == TranslationOf(rows, given, k)
    IN  IF QueryArchive(a) \notin QueryArchivesTranslation(t) THEN given
        ELSE [k \in DOMAIN given |->
                IF of(k) = {} THEN given[k]
                ELSE [given[k] EXCEPT !.text = translated[CHOOSE r \in of(k) : TRUE]]]

-----------------------------------------------------------------------------
(* Correctness.                                                            *)

\* The tables as a crash would leave them.
Committed(table, saved) == IF journal.open THEN saved ELSE table
savedStrings == Committed(strings, journal.strings)
savedTranslations == Committed(translations, journal.translations)
savedTranslated == Committed(translated, journal.translated)

Stages == {"off", "file", "lookup", "pairs", "table", "cleared", "strings", "files"}

\* Every variable of a run has its type; a transaction is open only while pairs or
\* lines are imported.
RunTypeOK ==
    /\ stage \in Stages /\ name \in Names \cup {NoName}
    /\ flaw \in {"none", "reported", "unnoticed"}
    /\ mishaps \subseteq {"second file", "second translation", "orphans"}
    /\ at \in Nat /\ archiveId \in Nat /\ fileId \in Nat /\ translationId \in Nat
    /\ journal.open => stage \in {"pairs", "table"}

\* Row ids are positive, and a row is found by what is unique of it, or should be.
IsTable(table) == DOMAIN table \subseteq Nat \ {0} /\ IsFiniteSet(DOMAIN table)
Place(string) == <<string.file, string.collision, string.identifier>>
StringRow(fileIds) ==
    [file : fileIds, collision : Nat, identifier : Identifiers, value : Texts \cup {Empty}]
IsFirst(table, i) == \A j \in DOMAIN table : table[j] = table[i] => i <= j
Once(table) == \A i, j \in DOMAIN table : table[i] = table[j] => i = j

FilesLinked(archs, fs) ==
    /\ IsTable(archs) /\ IsTable(fs)
    /\ \A i \in DOMAIN archs : archs[i] \in Archives
    /\ \A i \in DOMAIN fs : fs[i] \in [archive : DOMAIN archs, name : FileNames]
    /\ Once(archs)

\* The tables of strings and of translations, as they are or as a crash would leave
\* them: what is translated is where a lookup of its file leads.
TextsLinked(fs, strs, trs, trd) ==
    /\ IsTable(strs) /\ IsTable(trs)
    /\ \A i \in DOMAIN strs : strs[i] \in StringRow(DOMAIN fs)
    /\ \A i, j \in DOMAIN strs : Place(strs[i]) = Place(strs[j]) => i = j
    /\ \A i \in DOMAIN trs : trs[i] \in Names
    /\ DOMAIN trd \subseteq (Nat \ {0}) \X (DOMAIN strs)
    /\ \A r \in DOMAIN trd : trd[r] \in Texts /\ IsFirst(fs, strs[r[2]].file)

\* No translation of what is not there, and nothing twice.
NoOrphans(trs, trd) == \A r \in DOMAIN trd : r[1] \in DOMAIN trs
NoneTwice ==
    /\ "second file" \in mishaps \/ Once(files)
    /\ "second translation" \in mishaps \/ Once(translations)
    /\ "orphans" \in mishaps \/ /\ NoOrphans(translations, translated)
                                /\ NoOrphans(savedTranslations, savedTranslated)

\* The text files before a run are those of an archive.
FromArchive ==
    \E c \in Contents : input = c.archive /\ todo \in Seq({c.texts[k] : k \in DOMAIN c.texts})

\* What a run puts into the tables is not what was asked for.
OffCourse ==
    \/ stage = "pairs" /\ ~IsFirst(files, fileId)
    \/ Astray
    \/ ~journal.open

\* What a run holds of the tables in its variables, by what it does.
RunFits ==
    /\ stage \in {"off", "cleared", "strings", "files"} => archiveId = 0 /\ translationId = 0
    /\ stage = "strings" => DOMAIN strings \subseteq TranslatedIds
    /\ stage \in {"file", "lookup", "pairs"} => todo = <<>> \/ FromArchive
    /\ stage \in {"lookup", "pairs"} => todo # <<>> /\ archiveId # 0
    /\ stage = "pairs" =>
          /\ at # 0 /\ fileId \in DOMAIN files
          /\ files[fileId] = [archive |-> archiveId, name |-> Head(todo).name]
          /\ name # NoName /\ ~IsFirst(files, fileId) =>
                \A i \in DOMAIN strings : strings[i].file # fileId
    /\ stage = "table" => /\ todo \in Tables /\ at # 0 /\ translationId \in DOMAIN translations
                          /\ savedTranslations = translations
    /\ archiveId # 0 => archiveId \in DOMAIN archives /\ archives[archiveId] = input
    /\ translationId # 0 =>
          /\ name \in Names
          /\ translationId \in DOMAIN translations => translations[translationId] = name
    /\ stage \in {"pairs", "table"} /\ OffCourse => flaw # "none"

\* What a crash would leave of what a run only adds to, or does not change.
SavedFits ==
    /\ \A i \in DOMAIN savedTranslations :
          i \in DOMAIN translations /\ translations[i] = savedTranslations[i]
    /\ name # NoName => savedStrings = strings

\* Every row refers to rows that exist, though row ids are given again and no
\* foreign key is enforced, unless a run went on with a translation that SQLite took
\* back; and nothing is in the database twice, though files and translations have no
\* unique index, unless a lookup failed and nobody was told.
Integrity ==
    /\ RunTypeOK /\ RunFits /\ SavedFits /\ NoneTwice
    /\ FilesLinked(archives, files)
    /\ TextsLinked(files, strings, translations, translated)
    /\ TextsLinked(files, savedStrings, savedTranslations, savedTranslated)

\* A text file, or a table, as the entries it has a text for.
TextEntry(a, text, k) == <<a, text.name, text.pairs[k].identifier, Occurrence(text.pairs, k)>>
FileEntries(a, text) ==
    [e \in {TextEntry(a, text, k) : k \in DOMAIN text.pairs} |->
        text.pairs[CHOOSE k \in DOMAIN text.pairs : TextEntry(a, text, k) = e].text]
LineEntry(lines, k) ==
    <<lines[k].archive, lines[k].name, lines[k].identifier, Occurrence(lines, k)>>
TableEntries(lines) ==
    [e \in {LineEntry(lines, k) : k \in DOMAIN lines} |->
        lines[CHOOSE k \in DOMAIN lines : LineEntry(lines, k) = e].text]

Imports ==
    {TableEntries(lines) : lines \in Tables} \cup
    UNION {{FileEntries(c.archive, c.texts[k]) : k \in DOMAIN c.texts} : c \in Contents}
Keys == UNION {DOMAIN new : new \in Imports}

\* The dictionary that tables stand for, and that the committed ones do: of rows that
\* are there twice, what the first ones say.
StringsOf(archs, fs, strs, e) ==
    {i \in DOMAIN strs :
        LET f == fs[strs[i].file] IN
        /\ IsFirst(fs, strs[i].file)
        /\ e = <<archs[f.archive], f.name, strs[i].identifier, strs[i].collision>>}
SourceIn(archs, fs, strs) == [e \in Keys |->
    LET s == StringsOf(archs, fs, strs, e) IN
    IF s = {} THEN NoString ELSE strs[CHOOSE i \in s : TRUE].value]
RowsOf(archs, fs, strs, trs, trd, n, e) ==
    {r \in DOMAIN trd : /\ r[1] \in DOMAIN trs /\ trs[r[1]] = n /\ IsFirst(trs, r[1])
                        /\ r[2] \in StringsOf(archs, fs, strs, e)}
TargetIn(archs, fs, strs, trs, trd) == [n \in Names |-> [e \in Keys |->
    LET rows == RowsOf(archs, fs, strs, trs, trd, n, e) IN
    IF rows = {} THEN NoString ELSE trd[CHOOSE r \in rows : TRUE]]]
source == SourceIn(archives, files, savedStrings)
target == TargetIn(archives, files, savedStrings, savedTranslations, savedTranslated)

Dict == INSTANCE TransDictionary WITH whole <- flaw = "none"

\* Whatever is killed or fails, an import takes effect as a whole or not at all,
\* or tells what it left out (or is excused: a write error, a lookup's or SQLite's
\* taking back went unnoticed), and stripping takes out only what no translation
\* needs; until texts are put in for a translation that SQLite took back, which may
\* be found under another name later.
DictionaryImplemented ==
    Dict!DictInit /\ [][Dict!DictNext \/ ("orphans" \in mishaps)']_(Dict!dictionary)

\* Inside of a transaction the tables stand for the dictionary as it was and the
\* part of the import that has been done, which is all of it so far if nothing failed.
New == IF stage = "table" THEN TableEntries(todo) ELSE FileEntries(input, Head(todo))
Passed ==
    IF stage = "table" THEN {LineEntry(todo, k) : k \in {j \in DOMAIN todo : j < at}}
    ELSE {TextEntry(input, Head(todo), k) : k \in {j \in DOMAIN textPairs : j < at}}
Follows(part) ==
    IF name = NoName
    THEN /\ SourceIn(archives, files, strings) = Dict!Taken(source, New, part)
         /\ TargetIn(archives, files, strings, translations, translated) = target
    ELSE TargetIn(archives, files, strings, translations, translated) =
            [target EXCEPT ![name] = Dict!Taken(@, New, part \cap Dict!Differing(New, source))]
ImportFollowed ==
    journal.open /\ "orphans" \notin mishaps =>
        \E part \in IF flaw = "none" THEN {Passed} ELSE SUBSET Passed : Follows(part)

\* The inductive invariant.
DatabaseInv == Integrity /\ ImportFollowed

\* Whatever was imported, stripped or killed, PatchFiles finds the translations of
\* a file's entries, and no others, wherever in the file equal identifiers are.
PatchesFollowDictionary ==
    stage = "off" =>
        \A c \in Contents, n \in Names : \A k \in DOMAIN c.texts :
            LET text == c.texts[k]
                patched == [text EXCEPT !.pairs = PatchedText(n, c.archive, text.name, @)]
            IN  FileEntries(c.archive, patched) = Dict!Patch(n, FileEntries(c.archive, text))
=============================================================================
