--------------------------- MODULE SectionReaders ---------------------------
(***************************************************************************)
(* What readers of a file and of sections of it promise, whatever they      *)
(* share underneath: a section is read as if nobody else read the file.     *)
(* Only the reader of the whole file is moved by what is read elsewhere.    *)
(***************************************************************************)
EXTENDS Integers

CONSTANTS Sections, Whole

VARIABLES place,  \* of every reader, where in the file it stands; -1: not opened
          end,    \* of every section, where it ends
          given,  \* the last bytes given: to whom, from where in the file, how many
          sound   \* no seek that failed has left the readers astray

plain == <<place, end, given, sound>>

PlainInit ==
    /\ place = [r \in Sections \cup {Whole} |-> IF r = Whole THEN 0 ELSE -1]
    /\ end = [s \in Sections |-> -1]
    /\ given = [by |-> Whole, first |-> 0, count |-> 0]
    /\ sound = TRUE

Undisturbed(ss) == \A s \in ss : place'[s] = place[s] /\ end'[s] = end[s]

Open(s) ==
    /\ place'[s] = place[Whole] /\ end'[s] >= place'[s]
    /\ place'[Whole] = place[Whole]
    /\ Undisturbed(Sections \ {s})
    /\ UNCHANGED <<given, sound>>

Give(r) ==
    /\ given'.by = r /\ given'.count > 0
    /\ sound' => given'.first = place[r]
    /\ place'[r] = place[r] + given'.count
    /\ r # Whole => place'[r] <= end[r] /\ end'[r] = end[r]
    /\ Undisturbed(Sections \ {r})

Seek(r) ==
    /\ place'[r] >= 0
    /\ Undisturbed(Sections \ {r})
    /\ UNCHANGED <<end, given>>

PlainNext ==
    \/ \E s \in Sections : Open(s)
    \/ \E r \in Sections \cup {Whole} : Give(r) \/ Seek(r)

PlainSpec == PlainInit /\ [][PlainNext]_plain
=============================================================================
