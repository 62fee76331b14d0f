---------------------------- MODULE SharedReader ----------------------------
(***************************************************************************)
(* The readers that the parsers are built on: BufReader (util/bufreader.go) *)
(* over a file, ReaderAt (util/readerat.go) over BufReader, and sections of *)
(* that (io.SectionReader, as TagRead and the archives open them).  They    *)
(* all share the position of one file, as do the parsers that read it       *)
(* directly.  Reads and seeks of the file may fail.                         *)
(***************************************************************************)
EXTENDS Integers

CONSTANTS Sections, Whole,
          FileSize,
          HeldSize,      \* how much the bufio.Reader can hold
          ReadSizes,     \* how much a Read may ask for
          SectionSizes

ASSUME SizesAssumption ==
    /\ FileSize \in Nat /\ HeldSize \in Nat \ {0}
    /\ ReadSizes \subseteq Nat \ {0} /\ SectionSizes \subseteq Nat
ASSUME WholeAssumption == Whole \notin Sections

VARIABLES
    buf,      \* raw: the file's own position; buffered: how many bytes before it the
              \* bufio.Reader holds; position: where BufReader takes itself to be
    section,  \* of every section: base, limit and off; base is -1 until it is opened
    given,    \* history: the last bytes given: to whom, from where in the file, how many
    astray    \* history: a Seek of the file has failed, and none succeeded since

readerVars == <<buf, section, given, astray>>

Smaller(m, n) == IF m < n THEN m ELSE n

Closed == [base |-> -1, limit |-> -1, off |-> -1]

ReaderInit ==
    /\ buf = [raw |-> 0, buffered |-> 0, position |-> 0]
    /\ section = [s \in Sections |-> Closed]
    /\ given = [by |-> Whole, first |-> 0, count |-> 0]
    /\ astray = FALSE

-----------------------------------------------------------------------------
(* BufReader.                                                              *)

\* What is left of b when count of the bytes it holds are given.
Consumed(b, raw, buffered, count) ==
    [raw |-> raw, buffered |-> buffered - count, position |-> b.position + count]

\* bufio gives what it holds; else it reads the file once, past its buffer if that is
\* smaller than n.  Nothing is given at the end, or on an error.
BufRead(b, n) ==
    IF b.buffered > 0
    THEN {[count |-> Smaller(n, b.buffered),
           buf |-> Consumed(b, b.raw, b.buffered, Smaller(n, b.buffered))]}
    ELSE {[count |-> Smaller(n, k), buf |-> Consumed(b, b.raw + k, k, Smaller(n, k))] :
            k \in {0} \cup 1 .. Smaller(FileSize - b.raw, IF n < HeldSize THEN HeldSize ELSE n)}

\* Mutant of SeekBelow: the bufio.Reader is not reset.
SeekBelowUnreset(b, to) == [raw |-> to, buffered |-> b.buffered, position |-> to]

\* The file's Seek, and the Reset of the bufio.Reader after it.
SeekBelow(b, to) == [raw |-> to, buffered |-> 0, position |-> to]

\* A Seek that fails returns 0, which BufReader takes for its position.
SeekBelowFails(b) == [raw |-> b.raw, buffered |-> 0, position |-> 0]

\* Mutant of Discard: BufReader's position stays behind.
DiscardUncounted(b, relative) == [b EXCEPT !.buffered = @ - relative]

Discard(b, relative) == Consumed(b, b.raw, b.buffered, relative)

\* Seek to the place that offset and whence mean; from the end, the place is not known.
BufSeek(b, to, fromEnd) ==
    LET relative == IF fromEnd THEN -1 ELSE to - b.position IN
    CASE relative = 0 -> {[ok |-> TRUE, below |-> FALSE, buf |-> b]}
      [] relative \in 1 .. b.buffered - 1 ->
            {[ok |-> TRUE, below |-> FALSE, buf |-> Discard(b, relative)]}
      [] OTHER ->
            {[ok |-> FALSE, below |-> TRUE, buf |-> SeekBelowFails(b)],
             [ok |-> TRUE, below |-> TRUE, buf |-> SeekBelow(b, to)]}

Astray(seek) == IF seek.below THEN ~seek.ok ELSE astray

-----------------------------------------------------------------------------
(* The whole file.                                                         *)

\* Where the next byte is read.
NextByte(b) == b.raw - b.buffered
Given(r, b, count) == IF count = 0 THEN given ELSE [by |-> r, first |-> NextByte(b), count |-> count]

ReadWhole(n) ==
    /\ \E read \in BufRead(buf, n) : buf' = read.buf /\ given' = Given(Whole, buf, read.count)
    /\ UNCHANGED <<section, astray>>

SeekWhole(to, fromEnd) ==
    /\ \E seek \in BufSeek(buf, to, fromEnd) : buf' = seek.buf /\ astray' = Astray(seek)
    /\ UNCHANGED <<section, given>>

-----------------------------------------------------------------------------
(* Sections.                                                               *)

\* TagRead, once it has read the tag: a section starts where r.Seek(0, 1) says.
OpenSection(s) ==
    /\ \E size \in SectionSizes :
          section' = [section EXCEPT ![s] = [base |-> buf.position, off |-> buf.position,
                                             limit |-> buf.position + size]]
    /\ UNCHANGED <<buf, given, astray>>

Opened(s) == section[s].base >= 0

\* ReadAt seeks, and reads once.
ReadSection(s, n) ==
    /\ Opened(s) /\ section[s].off < section[s].limit
    /\ \E seek \in BufSeek(buf, section[s].off, FALSE) :
          /\ astray' = Astray(seek)
          /\ \/ /\ ~seek.ok
                /\ buf' = seek.buf /\ UNCHANGED <<section, given>>
             \/ /\ seek.ok
                /\ \E read \in BufRead(seek.buf, Smaller(n, section[s].limit - section[s].off)) :
                      /\ buf' = read.buf
                      /\ given' = Given(s, seek.buf, read.count)
                      /\ section' = [section EXCEPT ![s].off = @ + read.count]

SeekSection(s, to) ==
    /\ Opened(s) /\ to >= section[s].base
    /\ section' = [section EXCEPT ![s].off = to]
    /\ UNCHANGED <<buf, given, astray>>

Places == 0 .. FileSize + 1 \* bound: nobody seeks farther past the end
ReaderNext ==
    \/ \E n \in ReadSizes : ReadWhole(n)
    \/ \E to \in Places, fromEnd \in BOOLEAN : SeekWhole(to, fromEnd)
    \/ \E s \in Sections :
          \/ OpenSection(s)
          \/ \E n \in ReadSizes : ReadSection(s, n)
          \/ \E to \in Places : SeekSection(s, to)

ReaderSpec == ReaderInit /\ [][ReaderNext]_readerVars

-----------------------------------------------------------------------------
(* Correctness.                                                            *)

Section == [base : Nat, limit : Nat, off : Nat]
ReaderTypeOK ==
    /\ buf \in [raw : Nat, buffered : Nat, position : Nat]
    /\ section \in [Sections -> Section \cup {Closed}]
    /\ given \in [by : Sections \cup {Whole}, first : Int, count : Nat]
    /\ astray \in BOOLEAN

\* Where BufReader takes itself to be is where it reads, and its buffer holds bytes of
\* the file, unless a seek has led it astray; no section is read past its end.
ReaderInv ==
    /\ ReaderTypeOK
    /\ buf.buffered <= buf.raw
    /\ ~astray => buf.position = NextByte(buf)
    /\ \A s \in Sections : section[s].base <= section[s].limit

places == [r \in Sections \cup {Whole} |-> IF r = Whole THEN buf.position ELSE section[r].off]
ends == [s \in Sections |-> section[s].limit]
Plain == INSTANCE SectionReaders WITH place <- places, end <- ends, sound <- ~astray

\* Every reader is given the bytes at its own place, and a section's place is moved by
\* nobody else, however reads and seeks of the sections and of the file below take turns.
SectionsImplemented == Plain!PlainSpec
=============================================================================
