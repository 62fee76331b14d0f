------------------------------- MODULE MCParts -------------------------------
(* Parts of the system that do not meet, each checked by itself in one run:   *)
(* a PRS stream is read (PrsReader), a text file is written and read          *)
(* (TextFile), or a translation database is filled and stripped               *)
(* (TransDatabase).                                                            *)
EXTENDS PrsReader, TextFile, TransDatabase

-----------------------------------------------------------------------------
(* A window of three bytes in a buffer of seven, and streams long enough to  *)
(* move it several times.                                                     *)

Lit(b) == [back |-> 0, size |-> 1, byte |-> b]
Cpy(back, size) == [back |-> back, size |-> size, byte |-> 0]
MCCommands ==
    {<<Lit(1), Lit(2), Lit(3)>> \o c : c \in {<<>>} \cup
        {<<x, Cpy(3, 3), y>> : x \in {Lit(4), Cpy(3, 3)}, y \in {Cpy(1, 2), Cpy(3, 3)}}}

\* The text of a list of commands, one byte after the other.
StartsOf(cs) ==
    LET f[i \in 1 .. Len(cs) + 1] == IF i = 1 THEN 0 ELSE f[i - 1] + cs[i - 1].size IN f
TextOf(cs, start) ==
    LET of(k) == CHOOSE i \in DOMAIN cs : start[i] < k /\ k <= start[i + 1]
        t[k \in 1 .. start[Len(cs) + 1]] ==
            LET c == cs[of(k)] IN IF c.back = 0 THEN c.byte ELSE t[k - c.back]
    IN  [k \in 1 .. start[Len(cs) + 1] |-> t[k]]
StreamsOf(cs) ==
    LET start == StartsOf(cs)
        text == TextOf(cs, start)
    IN  {[commands |-> [i \in DOMAIN cs |-> [back |-> cs[i].back, size |-> cs[i].size]],
          text |-> text, start |-> start, tail |-> tail, size |-> Len(text) + more] :
            tail \in {"prsEOF", "EOF"}, more \in {-1, 0, 2}}
MCStreams == UNION {StreamsOf(cs) : cs \in MCCommands}

-----------------------------------------------------------------------------
(* Text files of three shapes, with texts that are equal, empty, not ASCII    *)
(* and beyond 16 bits.                                                         *)

Text(label, runes, bytes, astral) == [name |-> label, runes |-> runes, bytes |-> bytes, astral |-> astral]
empty == Text("", 0, 0, FALSE)
plain == Text("plain", 3, 3, FALSE)
wide == Text("wide", 2, 6, FALSE)
rare == Text("rare", 1, 4, TRUE)

Mark(word) == [value |-> <<word>>, status |-> "None", text |-> empty]
Words(value) == [value |-> value, status |-> "None", text |-> empty]
Identifier(t) == [value |-> <<0>>, status |-> "Identifier", text |-> t]
String(t) == [value |-> <<0>>, status |-> "String", text |-> t]
Last == Words(<<20, 7>>)
Labels == {plain, wide}
Strings == {plain, wide, empty}
Shapes ==
    {<<Identifier(plain), Mark(-1), Identifier(b), String(s), Identifier(c), String(t), Last>> :
        b \in Labels, c \in Labels, s \in Strings, t \in Strings}
    \union {<<Mark(-1), Identifier(a), Words(<<5, 6>>), String(s), Identifier(b), Last>> :
        a \in Labels, b \in Labels, s \in Strings}
    \union {<<Mark(-1), Identifier(plain), Words(<<20, 1, 2>>), Identifier(b), Mark(-1),
             Identifier(plain), String(s), Last>> : b \in Labels, s \in Strings}

\* The game's file for a list of entries: every text on its own, 16 bytes apart.
FileOf(es) ==
    LET before[k \in 1 .. Len(es) + 1] ==
            IF k = 1 THEN 0 ELSE before[k - 1] + Len(es[k - 1].value)
        words == before[Len(es) + 1]
        texts == {k \in DOMAIN es : es[k].status # "None"}
        entryOf(w) == CHOOSE k \in DOMAIN es : before[k] < w /\ w <= before[k + 1]
    IN  [rel0 |-> 4 * words + 8,
         words |-> [w \in 1 .. words |->
                      LET k == entryOf(w) IN
                      IF k \in texts THEN 16 * k + 4 * words + 16
                      ELSE es[k].value[w - before[k]]],
         strings |-> {[at |-> 16 * k, text |-> es[k].text, status |-> es[k].status] : k \in texts},
         size |-> 16 * (Len(es) + 1), announced |-> 16 * (Len(es) + 1),
         nof0 |-> [k \in 1 .. Len(es) |-> 16 + 4 * before[k]]]
MCFiles == {FileOf(es) : es \in Shapes}
MCFile == CHOOSE f \in MCFiles : \A g \in MCFiles : Len(f.nof0) <= Len(g.nof0)
MCTranslations == {plain, wide, rare}

-----------------------------------------------------------------------------
(* Two archives; a file in two versions: in one an identifier occurs twice,   *)
(* and an empty second file comes with it.                                    *)

Entry(t) == [identifier |-> "i", text |-> t]
Line(a, t) == [archive |-> a, name |-> "f", identifier |-> "i", text |-> t]
MCContents ==
    {[archive |-> "a", texts |-> <<[name |-> "f", pairs |-> <<Entry("p")>>]>>],
     [archive |-> "a", texts |-> <<[name |-> "f", pairs |-> <<Entry("o"), Entry("p")>>],
                                   [name |-> "g", pairs |-> <<>>]>>],
     [archive |-> "b", texts |-> <<[name |-> "f", pairs |-> <<Entry("o")>>]>>]}
MCTables == {<<Line("b", "p"), Line("a", "p"), Line("a", "o")>>}

-----------------------------------------------------------------------------
\* Which of the parts is at work; the others stay as one of their initial states.
VARIABLE subject

MCInit ==
    /\ Init /\ TextInit /\ DatabaseInit
    /\ subject \in {"stream", "text file", "database"}
    /\ subject = "stream" \/ stream = CHOOSE s \in MCStreams : TRUE
    /\ subject = "text file" \/ file = MCFile

Only(part, others) == subject = part /\ UNCHANGED <<others, subject>>

StreamNext == Only("stream", <<textVars, databaseVars>>) /\ Step
MCNext ==
    \/ Only("stream", <<textVars, databaseVars>>) /\ Next
    \/ Only("text file", <<vars, databaseVars>>) /\ TextNext
    \/ Only("database", <<vars, textVars>>) /\ DatabaseNext
    \/ /\ stage = "off" /\ runs = MaxRuns \* nobody runs pso2-trans again
       /\ UNCHANGED <<vars, textVars, databaseVars, subject>>
allVars == <<vars, textVars, databaseVars, subject>>
MCSpec == MCInit /\ [][MCNext]_allVars /\ WF_allVars(StreamNext)
=============================================================================
