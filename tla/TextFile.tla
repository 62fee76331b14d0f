------------------------------ MODULE TextFile -------------------------------
(***************************************************************************)
(* text/textfile.go: a text file of the game is read (NewTextFile), strings *)
(* of it are replaced by translations (trans/cmd/trans.go, cmd/pso2-text), *)
(* it is written (Write) and read again.  Write decides in one loop where  *)
(* every text will be and writes the texts in another; both leave out a    *)
(* text that was met before, each by its own bookkeeping.                  *)
(*                                                                         *)
(* A text is its name, its length in code points and in UTF-8, and whether *)
(* some code point needs more than 16 bits.  The area for texts is the set *)
(* of what was written into it and where.  Files stay below 4 GB.          *)
(***************************************************************************)
EXTENDS Integers, Sequences

CONSTANTS
    Files,         \* the game's own files
    Translations   \* the texts that strings are replaced by

StartMark == -1    \* 0xffffffff: pairs of an identifier and a string follow
EndMark == 20      \* 0x14: no more pairs
NoText == [name |-> "", runes |-> 0, bytes |-> 0, astral |-> FALSE]
Garbled == [name |-> "garbled", runes |-> 2, bytes |-> 4, astral |-> FALSE]   \* by the conversions
Misread == [name |-> "misread", runes |-> 2, bytes |-> 4, astral |-> FALSE]   \* from a wrong place

-----------------------------------------------------------------------------
(* Texts and files.                                                         *)

Status == {"None", "Identifier", "String"}
IsText(t) == t.runes \in Nat /\ t.bytes \in Nat /\ t.bytes >= t.runes /\ t.astral \in BOOLEAN
TextValues == {NoText, Garbled, Misread} \cup Translations
              \cup {s.text : s \in UNION {f.strings : f \in Files}}

\* The words of an entry end where the next one begins; the last one has two.
Value(f, k) ==
    LET words == IF k < Len(f.nof0) THEN (f.nof0[k + 1] - f.nof0[k]) \div 4 ELSE 2
        from == (f.nof0[k] - f.nof0[1]) \div 4
    IN  SubSeq(f.words, from + 1, from + words)

\* What parse takes for a file: NOF0 lists whole words of REL0 in order, the last entry
\* has two, and a single word that is no mark points to a text.
FileContent ==
    [rel0 : Int, words : Seq(Int), nof0 : Seq(Nat), size : Nat, announced : Nat,
     strings : SUBSET [at : Int, text : TextValues, status : Status]]
IsFile(f) ==
    /\ f \in FileContent /\ f.nof0 # <<>>
    /\ \A j, k \in DOMAIN f.nof0 :
          j < k => f.nof0[j] < f.nof0[k] /\ ((f.nof0[k] - f.nof0[j]) % 4) = 0
    /\ 4 * Len(f.words) = f.nof0[Len(f.nof0)] - f.nof0[1] + 8
    /\ \A k \in DOMAIN f.nof0 : Value(f, k) # <<EndMark>>

ASSUME TextAssumption == \A t \in TextValues : IsText(t)
ASSUME FilesAssumption == \A f \in Files : IsFile(f)

-----------------------------------------------------------------------------
VARIABLES
    phase,   \* the loop that is under way, or what was done
    index,     \* the entry it is at
    entries, pairs,          \* TextFile
    reuse, entrySize, stringSize,   \* locals of Write; reuse maps a text to its entry
    file,    \* REL0 and NOF0 as written so far, or as they are read
    pairMode, pair,          \* locals of parse; pair is an entry or 0
    intended \* history: the TextFile that was written last, until the next edit

NoFile == [entries |-> <<>>, pairs |-> <<>>]
textVars == <<phase, index, entries, pairs, reuse, entrySize, stringSize, file, pairMode, pair, intended>>

TextInit ==
    /\ phase = "Parse" /\ index = 1
    /\ entries = <<>> /\ pairs = <<>>
    /\ reuse = <<>> /\ entrySize = 0 /\ stringSize = 0
    /\ file \in Files
    /\ pairMode = FALSE /\ pair = 0
    /\ intended = NoFile

\* The loop's next entry, or what comes after the loop.
Advance(length, next) ==
    IF index < length THEN index' = index + 1 /\ UNCHANGED phase ELSE index' = 1 /\ phase' = next

-----------------------------------------------------------------------------
(* What becomes of a text that is written and read.                        *)

\* Identifiers are written as UTF-8 and read byte by byte; of a code point of a
\* string only 16 bits are written.
Lossless(text, status) ==
    IF status = "Identifier" THEN text.bytes = text.runes ELSE ~text.astral

ReadString(at, status) ==
    LET found == {s \in file.strings : s.at = at /\ s.status = status} IN
    IF found = {} THEN Misread
    ELSE LET s == CHOOSE s \in found : TRUE IN
         IF Lossless(s.text, status) THEN s.text ELSE Garbled

Size(text, status) ==
    IF status = "String" THEN 2 * (text.runes + 1) ELSE text.bytes + 1

Pointing(es, k, at) == [es EXCEPT ![k].value[1] = at]

Reusable(entry) == entry.text \in DOMAIN reuse /\ reuse[entry.text].status = entry.status
Remember(entry, at) ==
    reuse' = [t \in DOMAIN reuse \union {entry.text} |->
                IF t = entry.text THEN [status |-> entry.status, at |-> at] ELSE reuse[t]]

-----------------------------------------------------------------------------
(* Editing and Write.                                                      *)

Edit ==
    /\ phase = "Loaded"
    /\ \E k \in DOMAIN pairs, t \in Translations :
          /\ t # pairs[k].string
          /\ entries' = [entries EXCEPT ![pairs[k].stringIndex].text = t]
    /\ intended' = NoFile
    /\ UNCHANGED <<phase, index, pairs, reuse, entrySize, stringSize, file, pairMode, pair>>

Write ==
    /\ phase = "Loaded"
    /\ phase' = "Layout" /\ index' = 1
    /\ reuse' = <<>> /\ entrySize' = 0 /\ stringSize' = 0
    /\ intended' = [entries |-> entries, pairs |-> pairs]
    /\ UNCHANGED <<entries, pairs, file, pairMode, pair>>

\* Mutant of LayOut: texts are not aligned.
LayOutUnaligned ==
    /\ phase = "Layout"
    /\ LET entry == entries[index] IN
       /\ entrySize' = entrySize + 4 * Len(entry.value)
       /\ IF entry.status = "None"
          THEN UNCHANGED <<entries, stringSize, reuse>>
          ELSE IF Reusable(entry)
          THEN /\ entries' = Pointing(entries, index, reuse[entry.text].at)
               /\ UNCHANGED <<stringSize, reuse>>
          ELSE /\ entries' = Pointing(entries, index, stringSize)
               /\ stringSize' = stringSize + Size(entry.text, entry.status)
               /\ Remember(entry, stringSize)
    /\ Advance(Len(entries), "Headers")
    /\ UNCHANGED <<pairs, file, pairMode, pair, intended>>

\* The first loop: where the text of an entry will be.
LayOut ==
    /\ phase = "Layout"
    /\ LET entry == entries[index] IN
       /\ entrySize' = entrySize + 4 * Len(entry.value)
       /\ IF entry.status = "None"
          THEN UNCHANGED <<entries, stringSize, reuse>>
          ELSE IF Reusable(entry)
          THEN /\ entries' = Pointing(entries, index, reuse[entry.text].at)
               /\ UNCHANGED <<stringSize, reuse>>
          ELSE /\ entries' = Pointing(entries, index, stringSize)
               /\ stringSize' = ((stringSize + Size(entry.text, entry.status) + 3) \div 4) * 4
               /\ Remember(entry, stringSize)
    /\ Advance(Len(entries), "Headers")
    /\ UNCHANGED <<pairs, file, pairMode, pair, intended>>

WriteHeaders ==
    /\ phase = "Headers"
    /\ file' = [rel0 |-> entrySize + 8, words |-> <<>>, strings |-> {}, size |-> 0,
                announced |-> stringSize, nof0 |-> <<>>]
    /\ reuse' = <<>>
    /\ phase' = "Values"
    /\ UNCHANGED <<index, entries, pairs, entrySize, stringSize, pairMode, pair, intended>>

\* Mutant of WriteValue: marks are moved like pointers.
WriteValueAlways ==
    /\ phase = "Values"
    /\ entries' = Pointing(entries, index, entries[index].value[1] + entrySize + 16)
    /\ file' = [file EXCEPT !.words = @ \o entries'[index].value,
                            !.nof0 = Append(@, 16 + 4 * Len(file.words))]
    /\ Advance(Len(entries), "Strings")
    /\ UNCHANGED <<pairs, reuse, entrySize, stringSize, pairMode, pair, intended>>

\* The second loop, and NOF0: it lists where in REL0 each entry begins.
WriteValue ==
    /\ phase = "Values"
    /\ entries' = IF entries[index].status = "None" THEN entries
                  ELSE Pointing(entries, index, entries[index].value[1] + entrySize + 16)
    /\ file' = [file EXCEPT !.words = @ \o entries'[index].value,
                            !.nof0 = Append(@, 16 + 4 * Len(file.words))]
    /\ Advance(Len(entries), "Strings")
    /\ UNCHANGED <<pairs, reuse, entrySize, stringSize, pairMode, pair, intended>>

\* Mutant of WriteString: a text is left out wherever it was met before.
WriteStringOnce ==
    /\ phase = "Strings"
    /\ LET entry == entries[index]
           strlen == Size(entry.text, entry.status)
       IN  IF entry.status = "None" \/ entry.text \in DOMAIN reuse
           THEN UNCHANGED <<file, reuse>>
           ELSE /\ file' = [file EXCEPT
                     !.strings = @ \union {[at |-> file.size, text |-> entry.text,
                                            status |-> entry.status]},
                     !.size = @ + strlen + ((4 - (strlen % 4)) % 4)]
                /\ Remember(entry, file.size)
    /\ Advance(Len(entries), "Written")
    /\ UNCHANGED <<entries, pairs, entrySize, stringSize, pairMode, pair, intended>>

\* The third loop: a text goes where the area ends, and is padded.
WriteString ==
    /\ phase = "Strings"
    /\ LET entry == entries[index]
           strlen == Size(entry.text, entry.status)
       IN  IF entry.status = "None" \/ Reusable(entry)
           THEN UNCHANGED <<file, reuse>>
           ELSE /\ file' = [file EXCEPT
                     !.strings = @ \union {[at |-> file.size, text |-> entry.text,
                                            status |-> entry.status]},
                     !.size = @ + strlen + ((4 - (strlen % 4)) % 4)]
                /\ Remember(entry, file.size)
    /\ Advance(Len(entries), "Written")
    /\ UNCHANGED <<entries, pairs, entrySize, stringSize, pairMode, pair, intended>>

-----------------------------------------------------------------------------
(* parse.                                                                  *)

NewTextFile ==
    /\ phase = "Written" /\ file.size = file.announced   \* or no NOF0 is found
    /\ phase' = "Parse" /\ index' = 1
    /\ entries' = <<>> /\ pairs' = <<>> /\ pairMode' = FALSE /\ pair' = 0
    /\ UNCHANGED <<reuse, entrySize, stringSize, file, intended>>

\* A mark sets or resets pairMode; EndMark also forgets an identifier without string.
Mode(value) ==
    CASE value[1] = StartMark -> [pairMode |-> TRUE, pair |-> pair]
      [] value[1] = EndMark -> [pairMode |-> FALSE, pair |-> 0]
      [] OTHER -> [pairMode |-> pairMode, pair |-> pair]

ParseEntry ==
    /\ phase = "Parse"
    /\ LET value == Value(file, index)
           mode == Mode(value)
           status == IF Len(value) # 1 \/ value[1] = StartMark THEN "None"
                     ELSE IF mode.pair # 0 THEN "String" ELSE "Identifier"
           text == IF status = "None" THEN NoText
                   ELSE ReadString(value[1] - file.rel0 - 8, status)
       IN  /\ entries' = Append(entries, [value |-> value, text |-> text, status |-> status])
           /\ pairMode' = mode.pairMode
           /\ pair' = CASE status = "String" -> 0
                        [] status = "Identifier" /\ mode.pairMode -> index
                        [] OTHER -> mode.pair
           /\ pairs' = IF status # "String" THEN pairs
                       ELSE Append(pairs, [identifier |-> entries[mode.pair].text, string |-> text,
                                           identifierIndex |-> mode.pair, stringIndex |-> index])
    /\ Advance(Len(file.nof0), "Loaded")
    /\ UNCHANGED <<reuse, entrySize, stringSize, file, intended>>

TextNext == Edit \/ Write \/ LayOut \/ WriteHeaders \/ WriteValue \/ WriteString
        \/ NewTextFile \/ ParseEntry
TextSpec == TextInit /\ [][TextNext]_textVars

-----------------------------------------------------------------------------
(* Correctness.                                                            *)

Loops == {"Parse", "Layout", "Values", "Strings"}
Writing == {"Layout", "Headers", "Values", "Strings", "Written"}
FileEntry == [value : Seq(Int) \ {<<>>}, text : TextValues, status : Status]
FilePair == [identifier : TextValues, string : TextValues,
             identifierIndex : Nat \ {0}, stringIndex : Nat \ {0}]
\* Every variable has its type: the places of texts are multiples of four.
TextTypeOK ==
    /\ phase \in Loops \cup {"Loaded", "Headers", "Written"}
    /\ index \in Nat \ {0}
    /\ phase \notin Loops => index = 1
    /\ phase = "Parse" => index <= Len(file.nof0) /\ Len(entries) = index - 1
    /\ phase # "Parse" => index <= Len(entries)
    /\ entries \in Seq(FileEntry) /\ pairs \in Seq(FilePair)
    /\ \A t \in DOMAIN reuse : reuse[t] \in [status : Status \ {"None"}, at : Nat]
    /\ entrySize \in Nat /\ stringSize \in Nat /\ (stringSize % 4) = 0
    /\ file \in FileContent
    /\ pairMode \in BOOLEAN /\ pair \in 0 .. Len(entries)

\* The first loop and the third agree: a text is where the entries point that have
\* it, whatever was left out before, and what follows is where the headers say.
TextLayoutHolds ==
    /\ phase \in {"Strings", "Written"} =>
          \A k \in DOMAIN entries :
             (phase = "Written" \/ k < index) /\ entries[k].status # "None" =>
                \E s \in file.strings : /\ s.at + entrySize + 16 = entries[k].value[1]
                                         /\ s.text = entries[k].text
                                         /\ s.status = entries[k].status
    /\ phase = "Written" => file.size = file.announced /\ file.rel0 = 4 * Len(file.words) + 8

\* A file that was written reads as what was written: the same pairs of the same
\* entries, the same words where they point to no text, and every text, except
\* one that a conversion cannot carry.
TextRoundTrip ==
    phase = "Loaded" /\ intended # NoFile =>
        /\ Len(entries) = Len(intended.entries)
        /\ \A k \in DOMAIN entries :
              LET before == intended.entries[k] IN
              /\ entries[k].status = before.status
              /\ entries[k].status = "None" => entries[k].value = before.value
              /\ Lossless(before.text, before.status) => entries[k].text = before.text
        /\ Len(pairs) = Len(intended.pairs)
        /\ \A k \in DOMAIN pairs :
              /\ pairs[k].identifierIndex = intended.pairs[k].identifierIndex
              /\ pairs[k].stringIndex = intended.pairs[k].stringIndex
              /\ pairs[k].string = entries[pairs[k].stringIndex].text

-----------------------------------------------------------------------------
(* The inductive invariant.                                                *)

\* How many words precede each entry, and the end.
WordsBefore(lengths) ==
    LET before[k \in 1 .. Len(lengths) + 1] ==
            IF k = 1 THEN 0 ELSE before[k - 1] + lengths[k - 1]
    IN  before
Lengths(es) == [k \in DOMAIN es |-> Len(es[k].value)]
Before == WordsBefore(Lengths(entries))

\* The entry before k in which its text was met last, and the texts that Write writes:
\* those that were not met, or last with another status.
HasText(es, k) == es[k].status # "None"
Alike(es, j, k) == HasText(es, j) /\ HasText(es, k) /\ es[j].text = es[k].text
MetAt(es, j, k) ==
    j \in 1 .. k - 1 /\ Alike(es, j, k) /\ \A m \in j + 1 .. k - 1 : ~Alike(es, m, k)
Fresh(es, k) ==
    HasText(es, k) /\ \A j \in 1 .. k - 1 : MetAt(es, j, k) => es[j].status # es[k].status

\* What the texts written before entry i take.
Padded(size) == size + ((4 - (size % 4)) % 4)
SizeIs(es, at, i, size) ==
    \/ size = 0 /\ \A j \in 1 .. i - 1 : ~Fresh(es, j)
    \/ \E j \in 1 .. i - 1 :
          /\ Fresh(es, j) /\ \A m \in j + 1 .. i - 1 : ~Fresh(es, m)
          /\ size = at[j] + Padded(Size(es[j].text, es[j].status))

\* Of the entries before i: each written text begins where the one before it ends, and
\* the others are where they were met.
LaidOut(es, at, i) ==
    \A k \in 1 .. i - 1 : HasText(es, k) =>
        /\ at[k] \in Nat
        /\ Fresh(es, k) => SizeIs(es, at, k, at[k])
        /\ ~Fresh(es, k) => \A j \in 1 .. k - 1 : MetAt(es, j, k) => at[k] = at[j]

\* The bookkeeping of both loops: the last entry of each text.
Remembered(es, at, i, known) ==
    /\ \A t \in DOMAIN known : \E j \in 1 .. i - 1 : HasText(es, j) /\ es[j].text = t
    /\ \A j \in 1 .. i - 1 :
          HasText(es, j) /\ (\A m \in j + 1 .. i - 1 : ~Alike(es, j, m)) =>
             /\ es[j].text \in DOMAIN known
             /\ known[es[j].text] = [status |-> es[j].status, at |-> at[j]]

\* How far a loop has come.
Reached(loop) == IF phase = loop THEN index ELSE Len(entries) + 1
Moved(k) ==
    HasText(entries, k) /\ (phase \in {"Strings", "Written"} \/ (phase = "Values" /\ k < index))
Offsets == [k \in DOMAIN entries |->
              entries[k].value[1] - (IF Moved(k) THEN entrySize + 16 ELSE 0)]

Laid ==
    phase \in Writing =>
        LET i == Reached("Layout") IN
        /\ entrySize = 4 * Before[i]
        /\ SizeIs(entries, Offsets, i, stringSize)
        /\ LaidOut(entries, Offsets, i)
        /\ phase = "Layout" => Remembered(entries, Offsets, i, reuse)

ValuesWritten ==
    phase \in {"Values", "Strings", "Written"} =>
        LET i == Reached("Values") IN
        /\ file.rel0 = entrySize + 8 /\ file.announced = stringSize
        /\ Len(file.nof0) = i - 1 /\ Len(file.words) = Before[i]
        /\ \A k \in 1 .. i - 1 :
              /\ file.nof0[k] = 16 + 4 * Before[k]
              /\ \A w \in DOMAIN entries[k].value :
                    file.words[Before[k] + w] = entries[k].value[w]
        /\ phase = "Values" => reuse = <<>> /\ file.size = 0 /\ file.strings = {}

StringsWritten ==
    phase \in {"Strings", "Written"} =>
        LET i == Reached("Strings") IN
        /\ SizeIs(entries, Offsets, i, file.size)
        /\ phase = "Strings" => Remembered(entries, Offsets, i, reuse)
        /\ \A k \in 1 .. i - 1 : HasText(entries, k) =>
              [at |-> Offsets[k], text |-> entries[k].text, status |-> entries[k].status]
                  \in file.strings
        /\ \A s, t \in file.strings : s.at < file.size /\ (s.at = t.at => s = t)

\* The entries before i as parse makes them of marks and pointers: a string follows an
\* identifier that waits for it.
IsMark(es, k, mark) == es[k].status = "None" /\ es[k].value[1] = mark
PairModeAt(es, i) ==
    \E j \in 1 .. i - 1 : IsMark(es, j, StartMark) /\ \A m \in j + 1 .. i - 1 : ~IsMark(es, m, EndMark)
Waiting(es, j, i) ==
    /\ j \in 1 .. i - 1 /\ es[j].status = "Identifier" /\ PairModeAt(es, j)
    /\ \A m \in j + 1 .. i - 1 : ~HasText(es, m) /\ ~IsMark(es, m, EndMark)
Parsed(es, i) ==
    \A k \in 1 .. i - 1 :
        /\ HasText(es, k) => Len(es[k].value) = 1
        /\ ~HasText(es, k) => es[k].text = NoText /\ (Len(es[k].value) # 1 \/ es[k].value[1] = StartMark)
        /\ es[k].status = "String" => \E j \in 1 .. k - 1 : Waiting(es, j, k)
        /\ es[k].status = "Identifier" => \A j \in 1 .. k - 1 : ~Waiting(es, j, k)
Paired(es, ps, i) ==
    /\ \A q \in DOMAIN ps :
          /\ ps[q].stringIndex \in 1 .. i - 1 /\ es[ps[q].stringIndex].status = "String"
          /\ Waiting(es, ps[q].identifierIndex, ps[q].stringIndex)
          /\ \A r \in DOMAIN ps : q < r => ps[q].stringIndex < ps[r].stringIndex
    /\ \A k \in 1 .. i - 1 :
          es[k].status = "String" => \E q \in DOMAIN ps : ps[q].stringIndex = k

Parsing ==
    /\ Parsed(entries, Len(entries) + 1) /\ Paired(entries, pairs, Len(entries) + 1)
    /\ phase = "Parse" =>
          /\ IsFile(file)
          /\ pairMode = PairModeAt(entries, index)
          /\ pair # 0 => Waiting(entries, pair, index)
          /\ pair = 0 => \A j \in 1 .. index - 1 : ~Waiting(entries, j, index)
          /\ \A k \in DOMAIN entries : Len(entries[k].value) = Len(Value(file, k))
    /\ phase = "Parse" \/ (phase = "Loaded" /\ intended # NoFile) =>
          \A q \in DOMAIN pairs : pairs[q].string = entries[pairs[q].stringIndex].text
    /\ phase # "Parse" => entries # <<>> /\ Len(entries[Len(entries)].value) = 2

\* What a file says when entries have been written into it.
Encodes(f, es) ==
    /\ Len(f.nof0) = Len(es)
    /\ \A k \in DOMAIN es :
          /\ ~HasText(es, k) => Value(f, k) = es[k].value
          /\ HasText(es, k) =>
                /\ Len(Value(f, k)) = 1 /\ Value(f, k)[1] \notin {StartMark, EndMark}
                /\ [at |-> Value(f, k)[1] - f.rel0 - 8, text |-> es[k].text,
                    status |-> es[k].status] \in f.strings
    /\ \A s, t \in f.strings : s.at = t.at => s = t

\* The entries before i are those of es but for what no conversion carries.
ReadsAs(es, i) ==
    \A k \in 1 .. i - 1 :
        /\ entries[k].status = es[k].status
        /\ ~HasText(es, k) => entries[k].value = es[k].value
        /\ Lossless(es[k].text, es[k].status) => entries[k].text = es[k].text

Intended ==
    /\ phase \in Writing =>
          /\ intended.pairs = pairs /\ Len(intended.entries) = Len(entries)
          /\ Lengths(intended.entries) = Lengths(entries)
          /\ ReadsAs(intended.entries, Len(entries) + 1)
          /\ \A k \in DOMAIN entries : entries[k].text = intended.entries[k].text
    /\ intended # NoFile =>
          LET es == intended.entries
              ps == intended.pairs
          IN  /\ es \in Seq(FileEntry) /\ ps \in Seq(FilePair)
              /\ Parsed(es, Len(es) + 1) /\ Paired(es, ps, Len(es) + 1)
              /\ phase = "Parse" => Encodes(file, es)
              /\ phase \in {"Parse", "Loaded"} =>
                    /\ phase = "Loaded" => Len(entries) = Len(es)
                    /\ ReadsAs(es, Len(entries) + 1)
                    /\ Len(pairs) <= Len(ps)
                    /\ \A q \in DOMAIN ps :
                          IF q <= Len(pairs)
                          THEN /\ pairs[q].identifierIndex = ps[q].identifierIndex
                               /\ pairs[q].stringIndex = ps[q].stringIndex
                          ELSE ps[q].stringIndex > Len(entries)

TextInv == TextTypeOK /\ Laid /\ ValuesWritten /\ StringsWritten /\ Parsing /\ Intended
==============================================================================
