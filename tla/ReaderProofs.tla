---------------------------- MODULE ReaderProofs ----------------------------
(***************************************************************************)
(* Proofs about the readers of files.  PrsReader, for all streams and all    *)
(* window sizes in which a copy fits: its window holds what was produced,    *)
(* Reads give the text and calls get what they ask for.  SharedReader, for   *)
(* every file, buffer, number of sections and sizes of reads: BufReader's    *)
(* position is where it reads unless a seek has failed, and every section    *)
(* reads as SectionReaders promises.  TextFile, for all files that parse     *)
(* takes for one and all texts: what Write lays out it writes, and parse     *)
(* reads it back.                                                            *)
(***************************************************************************)
EXTENDS PrsReader, SharedReader, TextFile, SequenceTheorems, WellFoundedInduction, TLAPS

(* What the format says of the command that is due.                         *)
LEMMA StreamFacts ==
    ASSUME IsStream(stream), consumed \in 0 .. Len(stream.commands)
    PROVE  /\ stream.text \in Seq(Nat) /\ Len(stream.text) \in Nat
           /\ Len(stream.commands) \in Nat
           /\ stream.start[consumed + 1] \in Nat
           /\ stream.start[consumed + 1] <= Len(stream.text)
           /\ consumed = Len(stream.commands) =>
                 stream.start[consumed + 1] = Len(stream.text)
           /\ consumed < Len(stream.commands) =>
                 /\ Command.back \in 0 .. Lookbehind /\ Command.size \in 1 .. MaxCopy
                 /\ stream.start[consumed + 2] = stream.start[consumed + 1] + Command.size
                 /\ stream.start[consumed + 2] <= Len(stream.text)
                 /\ Command.back <= stream.start[consumed + 1]
                 /\ Command.back = 0 => Command.size = 1
                 /\ Command.back > 0 =>
                      \A k \in stream.start[consumed + 1] + 1 .. stream.start[consumed + 2] :
                         stream.text[k] = stream.text[k - Command.back]
  <1>1. Len(stream.commands) \in Nat /\ Len(stream.text) \in Nat /\ stream.text \in Seq(Nat)
    BY DEF IsStream
  <1>2. stream.start[consumed + 1] \in Nat
    <2>1. stream.start \in [1 .. Len(stream.commands) + 1 -> Nat]
      BY DEF IsStream
    <2>2. consumed + 1 \in 1 .. Len(stream.commands) + 1
      BY <1>1
    <2> QED
      BY <2>1, <2>2
  <1>3. stream.start[consumed + 1] <= Len(stream.text)
    <2>1. CASE consumed = 0
      BY <1>1, <2>1 DEF IsStream
    <2>2. CASE consumed > 0
      <3>1. consumed \in 1 .. Len(stream.commands)
        BY <1>1, <2>2
      <3>2. \A i \in 1 .. Len(stream.commands) : stream.start[i + 1] <= Len(stream.text)
        BY DEF IsStream
      <3> QED
        BY <3>1, <3>2
    <2> QED
      BY <1>1, <2>1, <2>2
  <1>4. ASSUME consumed < Len(stream.commands)
        PROVE  /\ Command.back \in 0 .. Lookbehind /\ Command.size \in 1 .. MaxCopy
               /\ stream.start[consumed + 2] = stream.start[consumed + 1] + Command.size
               /\ stream.start[consumed + 2] <= Len(stream.text)
               /\ Command.back <= stream.start[consumed + 1]
               /\ Command.back = 0 => Command.size = 1
               /\ Command.back > 0 =>
                    \A k \in stream.start[consumed + 1] + 1 .. stream.start[consumed + 2] :
                       stream.text[k] = stream.text[k - Command.back]
    <2>1. consumed + 1 \in 1 .. Len(stream.commands) /\ (consumed + 1) + 1 = consumed + 2
      BY <1>1, <1>4
    <2>2. Command \in [back : 0 .. Lookbehind, size : 1 .. MaxCopy]
      <3>1. stream.commands \in Seq([back : 0 .. Lookbehind, size : 1 .. MaxCopy])
        BY DEF IsStream
      <3> QED
        BY <2>1, <3>1, ElementOfSeq DEF Command
    <2>3. Command.back \in 0 .. Lookbehind /\ Command.size \in 1 .. MaxCopy
      BY <2>2
    <2>4. \A i \in 1 .. Len(stream.commands) :
          /\ stream.start[i + 1] = stream.start[i] + stream.commands[i].size
          /\ stream.commands[i].back <= stream.start[i]
          /\ stream.commands[i].back = 0 => stream.commands[i].size = 1
          /\ stream.start[i + 1] <= Len(stream.text)
          /\ stream.commands[i].back > 0 =>
                \A k \in stream.start[i] + 1 .. stream.start[i + 1] :
                   stream.text[k] = stream.text[k - stream.commands[i].back]
      BY DEF IsStream
    <2> QED
      BY <2>1, <2>3, <2>4 DEF Command
  <1>5. consumed = Len(stream.commands) => stream.start[consumed + 1] = Len(stream.text)
    BY DEF IsStream
  <1> QED
    BY <1>1, <1>2, <1>3, <1>4, <1>5

LEMMA ProducedFacts ==
    ASSUME WindowInv
    PROVE  /\ Produced \in Nat /\ Produced <= Len(stream.text)
           /\ left > 0 => Produced < Len(stream.text)
  <1> USE StreamFacts DEF WindowInv, TypeOK, Produced
  <1>1. CASE left = 0
    BY <1>1
  <1>2. CASE left > 0
    <2>1. consumed < Len(stream.commands) /\ left <= Command.size /\ left \in Nat
      BY <1>2
    <2>2. Command.size \in Nat /\ stream.start[consumed + 1] + Command.size <= Len(stream.text)
      <3>1. /\ Command.size \in 1 .. MaxCopy /\ stream.start[consumed + 2] <= Len(stream.text)
            /\ stream.start[consumed + 2] = stream.start[consumed + 1] + Command.size
        BY <2>1
      <3>2. MaxCopy \in Nat
        BY WindowAssumption
      <3> HIDE StreamFacts DEF WindowInv, TypeOK, Produced
      <3> QED
        BY <3>1, <3>2
    <2>3. Produced = stream.start[consumed + 1] + (Command.size - left)
      BY <1>2
    <2>4. stream.start[consumed + 1] \in Nat /\ Len(stream.text) \in Nat
      OBVIOUS
    <2> HIDE StreamFacts DEF WindowInv, TypeOK, Produced
    <2> QED
      BY <1>2, <2>1, <2>2, <2>3, <2>4
  <1> QED
    BY <1>1, <1>2

(* queueOutput stores the next byte of the text behind the window.          *)
LEMMA QueuedKeepsWindow ==
    ASSUME buffer \in [0 .. BufferSize - 1 -> Nat], NEW q \in 0 .. BufferSize - 1,
           NEW p \in Nat, Window(buffer, q, p), NEW v \in Nat, v = stream.text[p + 1]
    PROVE  /\ [buffer EXCEPT ![q] = v] \in [0 .. BufferSize - 1 -> Nat]
           /\ Window([buffer EXCEPT ![q] = v], q + 1, p + 1)
  <1> DEFINE b == [buffer EXCEPT ![q] = v]
  <1>1. BufferSize \in Nat
    BY WindowAssumption
  <1>2. b \in [0 .. BufferSize - 1 -> Nat]
    OBVIOUS
  <1>3. ASSUME NEW i \in 0 .. q PROVE b[i] = stream.text[p - q + i + 1]
    <2>1. CASE i = q
      <3>1. b[i] = v
        BY <2>1
      <3>2. p - q + i + 1 = p + 1
        BY <2>1
      <3> QED
        BY <3>1, <3>2
    <2>2. CASE i # q
      <3>1. i \in 0 .. q - 1 /\ b[i] = buffer[i]
        BY <1>1, <2>2
      <3> QED
        BY <3>1 DEF Window
    <2> QED
      BY <2>1, <2>2
  <1>4. q + 1 <= p + 1 /\ (q + 1 = p + 1 \/ Lookbehind <= q + 1)
    BY WindowAssumption DEF Window
  <1>5. (q + 1) - 1 = q /\ (p + 1) - (q + 1) = p - q
    OBVIOUS
  <1> HIDE DEF b
  <1>6. Window(b, q + 1, p + 1)
    BY <1>3, <1>4, <1>5 DEF Window
  <1> QED
    BY <1>2, <1>6 DEF b

(* flushOutput drops only what no copy can reach, and moves what is kept.   *)
LEMMA FlushedKeepsWindow ==
    ASSUME NEW b \in [0 .. BufferSize - 1 -> Nat], NEW queued \in 0 .. BufferSize,
           NEW p \in Nat, Window(b, queued, p), UNCHANGED stream,
           outputPosition \in Nat, outputPosition <= queued,
           queued - outputPosition <= Lookbehind,
           Flushed(b, queued)
    PROVE  /\ buffer' \in [0 .. BufferSize - 1 -> Nat]
           /\ outputBufferPosition' \in 0 .. BufferSize
           /\ outputBufferPosition' <= Threshold
           /\ outputPosition' \in Nat /\ outputPosition' <= outputBufferPosition'
           /\ outputBufferPosition' - outputPosition' = queued - outputPosition
           /\ Window(buffer, outputBufferPosition, p)'
  <1>1. CASE queued <= Threshold
    <2>1. buffer' = b /\ outputBufferPosition' = queued /\ outputPosition' = outputPosition
      BY <1>1 DEF Flushed
    <2> QED
      BY <1>1, <2>1 DEF Window
  <1>2. CASE queued > Threshold
    <2> DEFINE diff == queued - Lookbehind
    <2>1. /\ buffer' = [i \in 0 .. BufferSize - 1 |->
                         IF i < Lookbehind /\ i + diff < BufferSize THEN b[i + diff] ELSE b[i]]
          /\ outputBufferPosition' = Lookbehind
          /\ outputPosition' = outputPosition - diff
      BY <1>2, WindowAssumption DEF Flushed
    <2>2. /\ diff \in Nat /\ diff + Lookbehind = queued /\ Lookbehind \in Nat
          /\ Lookbehind <= Threshold /\ Lookbehind <= BufferSize /\ BufferSize \in Nat
          /\ diff <= outputPosition
      BY <1>2, WindowAssumption
    <2> HIDE DEF diff
    <2>3. buffer' \in [0 .. BufferSize - 1 -> Nat]
      BY <2>1, <2>2
    <2>4. ASSUME NEW i \in 0 .. Lookbehind - 1
          PROVE  buffer'[i] = stream.text[p - Lookbehind + i + 1]
      <3>1. i + diff \in 0 .. queued - 1 /\ i + diff < BufferSize /\ i < Lookbehind
        BY <2>2
      <3>2. buffer'[i] = b[i + diff]
        BY <2>1, <2>2, <3>1
      <3>3. b[i + diff] = stream.text[p - queued + (i + diff) + 1]
        BY <3>1 DEF Window
      <3>4. p - queued + (i + diff) + 1 = p - Lookbehind + i + 1
        BY <2>2
      <3> QED
        BY <3>2, <3>3, <3>4
    <2>5. Lookbehind <= p
      BY <2>2 DEF Window
    <2>6. Window(buffer', Lookbehind, p)
      BY <2>2, <2>4, <2>5 DEF Window
    <2>7. Window(buffer, outputBufferPosition, p)'
      BY <2>1, <2>6 DEF Window
    <2>8. outputPosition' \in Nat /\ outputPosition' <= Lookbehind
      BY <2>1, <2>2
    <2>9. Lookbehind - outputPosition' = queued - outputPosition
      BY <2>1, <2>2
    <2> QED
      BY <2>1, <2>2, <2>3, <2>7, <2>8, <2>9
  <1>3. queued <= Threshold \/ queued > Threshold
    BY WindowAssumption
  <1> QED
    BY <1>1, <1>2, <1>3

LEMMA Appended ==
    ASSUME NEW s \in Seq(Nat), NEW n \in Nat, NEW f \in [1 .. n -> Nat]
    PROVE  /\ s \o f \in Seq(Nat) /\ Len(s \o f) = Len(s) + n
           /\ \A k \in 1 .. Len(s) : (s \o f)[k] = s[k]
           /\ \A k \in Len(s) + 1 .. Len(s) + n : (s \o f)[k] = f[k - Len(s)]
  <1>1. f \in Seq(Nat) /\ Len(f) = n
    OBVIOUS
  <1>2. /\ s \o f \in Seq(Nat) /\ Len(s \o f) = Len(s) + Len(f)
        /\ \A i \in 1 .. Len(s) + Len(f) :
              (s \o f)[i] = IF i <= Len(s) THEN s[i] ELSE f[i - Len(s)]
    BY <1>1, ConcatProperties, Zenon
  <1>3. Len(s) \in Nat
    OBVIOUS
  <1> QED
    BY <1>1, <1>2, <1>3

Inv == WindowInv /\ ReadsPlaintext

LEMMA InitEstablishes == Init => Inv
  <1> SUFFICES ASSUME Init PROVE Inv
    OBVIOUS
  <1> USE WindowAssumption DEF Init
  <1>1. IsStream(stream)
    BY StreamAssumption
  <1>2. TypeOK
    BY <1>1 DEF TypeOK, IsStream, NoResult
  <1>3. Produced = 0
    BY <1>1 DEF Produced, IsStream
  <1> QED
    BY <1>2, <1>3 DEF Inv, WindowInv, ReadsPlaintext, Window


-----------------------------------------------------------------------------
(* The commands.                                                            *)

(* The last byte of a command is queued and the buffer flushed.             *)
LEMMA CommandDone ==
    ASSUME Inv, consumed < Len(stream.commands), err = "none",
           NEW p \in Nat, p = stream.start[consumed + 2],
           NEW b \in [0 .. BufferSize - 1 -> Nat], NEW q \in 0 .. BufferSize,
           Window(b, q, p), Flushed(b, q),
           outputPosition <= q, q - outputPosition <= Lookbehind,
           position = p - (q - outputPosition),
           consumed' = consumed + 1, left' = 0,
           UNCHANGED <<stream, position, err, call, room, out, offset, result>>
    PROVE  Inv'
  <1>1. TypeOK
    BY DEF Inv, WindowInv
  <1>2. /\ buffer' \in [0 .. BufferSize - 1 -> Nat]
        /\ outputBufferPosition' \in 0 .. BufferSize
        /\ outputBufferPosition' <= Threshold
        /\ outputPosition' \in Nat /\ outputPosition' <= outputBufferPosition'
        /\ outputBufferPosition' - outputPosition' = q - outputPosition
        /\ Window(buffer, outputBufferPosition, p)'
    BY <1>1, FlushedKeepsWindow DEF TypeOK
  <1>3. Len(stream.commands) \in Nat /\ consumed \in Nat
    BY <1>1, StreamFacts DEF TypeOK
  <1>4. consumed' \in 0 .. Len(stream.commands)
    BY <1>3
  <1>5. TypeOK'
    <2>1. left' \in 0 .. MaxCopy
      BY WindowAssumption
    <2>2. IsStream(stream)' /\ consumed' \in 0 .. Len(stream'.commands)
      BY <1>1, <1>4 DEF TypeOK
    <2> QED
      BY <1>1, <1>2, <2>1, <2>2 DEF TypeOK
  <1>6. Produced' = p
    <2>1. (consumed + 1) + 1 = consumed + 2
      BY <1>3
    <2> QED
      BY <2>1 DEF Produced
  <1>7. position' = Produced' - (outputBufferPosition' - outputPosition')
    BY <1>2, <1>6
  <1>8. WindowInv'
    BY <1>2, <1>5, <1>6, <1>7 DEF WindowInv
  <1> QED
    BY <1>8 DEF Inv, ReadsPlaintext, Expected

LEMMA LiteralPreserves == Inv /\ Literal => Inv'
  <1> SUFFICES ASSUME Inv, Literal PROVE Inv'
    OBVIOUS
  <1>1. /\ TypeOK /\ left = 0 /\ consumed < Len(stream.commands) /\ Command.back = 0
        /\ err = "none" /\ outputBufferPosition <= outputPosition
        /\ outputPosition <= outputBufferPosition
        /\ outputBufferPosition <= Threshold /\ Window(buffer, outputBufferPosition, Produced)
        /\ \/ position = Produced - (outputBufferPosition - outputPosition)
           \/ err # "none" /\ position >= Len(stream.text)
    BY DEF Inv, WindowInv, Literal, Decompressing, Reading
  <1>2. IsStream(stream) /\ consumed \in 0 .. Len(stream.commands)
    BY <1>1 DEF TypeOK
  <1>3. /\ Produced = stream.start[consumed + 1] /\ stream.text \in Seq(Nat)
        /\ Len(stream.text) \in Nat
        /\ stream.start[consumed + 1] \in Nat
        /\ stream.start[consumed + 2] = stream.start[consumed + 1] + 1
        /\ stream.start[consumed + 2] <= Len(stream.text)
    BY <1>1, <1>2, StreamFacts DEF Produced
  <1>4. PICK p \in Nat : p = Produced
    BY <1>3
  <1>5. p + 1 \in 1 .. Len(stream.text) /\ p + 1 = stream.start[consumed + 2] /\ p + 1 \in Nat
    BY <1>3, <1>4
  <1>6. PICK v \in Nat : v = stream.text[p + 1]
    BY <1>3, <1>5, ElementOfSeq
  <1>7. PICK q \in Nat : q = outputBufferPosition
    BY <1>1 DEF TypeOK
  <1>8. q = outputPosition /\ position = p
    BY <1>1, <1>4, <1>7 DEF TypeOK
  <1>9. /\ q \in 0 .. BufferSize - 1 /\ q + 1 \in 0 .. BufferSize
        /\ outputPosition <= q + 1 /\ (q + 1) - outputPosition <= Lookbehind
        /\ position = (p + 1) - ((q + 1) - outputPosition)
    BY <1>1, <1>7, <1>8, WindowAssumption
  <1>10. PICK b \in [0 .. BufferSize - 1 -> Nat] :
            b = [buffer EXCEPT ![q] = v] /\ Window(b, q + 1, p + 1)
    BY <1>1, <1>4, <1>6, <1>7, <1>9, QueuedKeepsWindow DEF TypeOK
  <1>11. Flushed(b, q + 1)
    BY <1>3, <1>4, <1>6, <1>7, <1>10 DEF Literal
  <1>12. /\ consumed' = consumed + 1 /\ left' = 0
         /\ UNCHANGED <<stream, position, err, call, room, out, offset, result>>
    BY <1>1 DEF Literal
  <1> QED
    BY <1>1, <1>5, <1>9, <1>10, <1>11, <1>12, CommandDone

LEMMA BeginCopyPreserves == Inv /\ BeginCopy => Inv'
  <1> SUFFICES ASSUME Inv, BeginCopy PROVE Inv'
    OBVIOUS
  <1>1. /\ TypeOK /\ left = 0 /\ consumed < Len(stream.commands) /\ Command.back > 0
        /\ err = "none" /\ outputBufferPosition <= outputPosition
        /\ outputPosition <= outputBufferPosition
        /\ outputBufferPosition <= Threshold /\ Window(buffer, outputBufferPosition, Produced)
        /\ \/ position = Produced - (outputBufferPosition - outputPosition)
           \/ err # "none" /\ position >= Len(stream.text)
    BY DEF Inv, WindowInv, BeginCopy, Decompressing, Reading
  <1>2. Command.size \in 1 .. MaxCopy /\ Command' = Command /\ left' = Command.size
    BY <1>1, StreamFacts DEF TypeOK, BeginCopy, Command
  <1>3. /\ UNCHANGED <<stream, consumed, buffer, outputBufferPosition, outputPosition>>
        /\ UNCHANGED <<position, err, call, room, out, offset, result>>
        /\ call \notin {"none", "Seek"}
    BY DEF BeginCopy, Decompressing, Reading
  <1>4. stream.start[consumed + 1] \in Nat
    BY <1>1, StreamFacts DEF TypeOK
  <1>5. Produced' = Produced /\ Produced = stream.start[consumed + 1]
    BY <1>1, <1>2, <1>3, <1>4, WindowAssumption DEF Produced
  <1>6. TypeOK'
    BY <1>1, <1>2, <1>3, WindowAssumption DEF TypeOK
  <1>7. outputBufferPosition = outputPosition
    BY <1>1 DEF TypeOK
  <1>8. Window(buffer, outputBufferPosition, Produced)'
    BY <1>1, <1>3, <1>5 DEF Window
  <1>9. /\ outputBufferPosition' + left' <= Threshold + Command.size
        /\ outputBufferPosition' - outputPosition' = Command.size - left'
        /\ left' > 0 /\ left' <= Command.size
    <2>1. /\ outputBufferPosition' = outputBufferPosition /\ outputPosition' = outputBufferPosition
          /\ outputBufferPosition \in Nat /\ Command.size \in Nat /\ Command.size > 0
      BY <1>1, <1>2, <1>3, <1>7, WindowAssumption DEF TypeOK
    <2> QED
      BY <1>1, <1>2, <2>1, WindowAssumption
  <1>10. WindowInv'
    BY <1>1, <1>2, <1>3, <1>5, <1>6, <1>8, <1>9 DEF WindowInv
  <1> QED
    BY <1>3, <1>10 DEF Inv, ReadsPlaintext, Expected

LEMMA CopyPreserves == Inv /\ Copy => Inv'
  <1> SUFFICES ASSUME Inv, Copy PROVE Inv'
    OBVIOUS
  <1>1. /\ TypeOK /\ left > 0 /\ consumed < Len(stream.commands) /\ Command.back > 0
        /\ err = "none" /\ left <= Command.size
        /\ outputPosition <= outputBufferPosition
        /\ outputBufferPosition + left <= Threshold + Command.size
        /\ outputBufferPosition - outputPosition = Command.size - left
        /\ Window(buffer, outputBufferPosition, Produced)
        /\ \/ position = Produced - (outputBufferPosition - outputPosition)
           \/ err # "none" /\ position >= Len(stream.text)
    BY DEF Inv, WindowInv, Copy, Reading
  <1>2. IsStream(stream) /\ consumed \in 0 .. Len(stream.commands)
    BY <1>1 DEF TypeOK
  <1>3. /\ stream.text \in Seq(Nat) /\ Len(stream.text) \in Nat
        /\ stream.start[consumed + 1] \in Nat
        /\ Command.back \in 1 .. Lookbehind /\ Command.size \in 1 .. MaxCopy
        /\ stream.start[consumed + 2] = stream.start[consumed + 1] + Command.size
        /\ stream.start[consumed + 2] <= Len(stream.text)
        /\ Command.back <= stream.start[consumed + 1]
        /\ \A k \in stream.start[consumed + 1] + 1 .. stream.start[consumed + 2] :
              stream.text[k] = stream.text[k - Command.back]
    <2>1. Command.back \in 0 .. Lookbehind /\ Command.back > 0
      BY <1>1, <1>2, StreamFacts
    <2>2. Command.back \in 1 .. Lookbehind
      BY <2>1, WindowAssumption
    <2> QED
      BY <1>1, <1>2, <2>2, StreamFacts
  <1>4. PICK back \in Nat, size \in Nat : back = Command.back /\ size = Command.size
    BY <1>3, WindowAssumption
  <1>5. PICK s \in Nat : s = stream.start[consumed + 1]
    BY <1>3
  <1>6. PICK q \in Nat, todo \in Nat : q = outputBufferPosition /\ todo = left
    BY <1>1 DEF TypeOK
  <1>7. PICK p \in Nat : p = Produced /\ p = s + (size - todo)
    BY <1>1, <1>4, <1>5, <1>6 DEF Produced
  <1>8. /\ back \in 1 .. Lookbehind /\ size \in 1 .. MaxCopy /\ todo \in 1 .. size
        /\ q + todo <= Threshold + size /\ back <= s
    BY <1>1, <1>3, <1>4, <1>5, <1>6
  <1>9. /\ q \in 0 .. BufferSize - 1 /\ q + 1 \in 0 .. BufferSize
        /\ outputPosition <= q + 1 /\ q - outputPosition = size - todo
    <2>1. q < BufferSize
      BY <1>8, WindowAssumption
    <2>2. outputPosition \in Nat /\ outputPosition <= q /\ q - outputPosition = size - todo
      BY <1>1, <1>4, <1>6 DEF TypeOK
    <2> QED
      BY <2>1, <2>2, WindowAssumption
  <1>10. Window(buffer, q, p)
    BY <1>1, <1>6, <1>7
  <1>11. q - back \in 0 .. q - 1 /\ p + 1 \in s + 1 .. s + size
    BY <1>7, <1>8, <1>10, WindowAssumption DEF Window
  <1>12. PICK v \in Nat : v = stream.text[p + 1]
    <2>1. s + size <= Len(stream.text) /\ Len(stream.text) \in Nat
      BY <1>3, <1>4, <1>5
    <2>2. p + 1 \in 1 .. Len(stream.text)
      BY <1>11, <2>1
    <2> QED
      BY <1>3, <2>2, ElementOfSeq
  <1>13. buffer[q - back] = v
    <2>1. buffer[q - back] = stream.text[p - q + (q - back) + 1]
      BY <1>10, <1>11 DEF Window
    <2>2. p - q + (q - back) + 1 = (p + 1) - back
      BY <1>8
    <2>3. stream.text[p + 1] = stream.text[(p + 1) - back]
      BY <1>3, <1>4, <1>5, <1>11
    <2> QED
      BY <1>12, <2>1, <2>2, <2>3
  <1>14. PICK b \in [0 .. BufferSize - 1 -> Nat] :
            b = [buffer EXCEPT ![q] = v] /\ Window(b, q + 1, p + 1)
    BY <1>1, <1>9, <1>10, <1>12, QueuedKeepsWindow DEF TypeOK
  <1>15. b = [buffer EXCEPT ![outputBufferPosition] = buffer[outputBufferPosition - Command.back]]
    BY <1>4, <1>6, <1>13, <1>14
  <1>16. /\ left' = todo - 1 /\ call \notin {"none", "Seek"}
         /\ UNCHANGED <<stream, position, err, call, room, out, offset, result>>
    BY <1>6 DEF Copy, Reading
  <1>17. position = p - (q - outputPosition)
    BY <1>1, <1>6, <1>7
  <1>18. CASE left = 1
    <2>1. /\ Flushed(b, q + 1) /\ consumed' = consumed + 1 /\ left' = 0
      BY <1>6, <1>15, <1>16, <1>18 DEF Copy
    <2>2. p + 1 = stream.start[consumed + 2] /\ p + 1 \in Nat
      <3>1. p + 1 = s + size
        BY <1>6, <1>7, <1>18
      <3> QED
        BY <1>3, <1>4, <1>5, <3>1
    <2>3. (q + 1) - outputPosition <= Lookbehind
      BY <1>1, <1>6, <1>8, <1>9, <1>18, WindowAssumption DEF TypeOK
    <2>4. position = (p + 1) - ((q + 1) - outputPosition)
      BY <1>1, <1>17 DEF TypeOK
    <2> QED
      BY <1>1, <1>9, <1>14, <1>16, <2>1, <2>2, <2>3, <2>4, CommandDone
  <1>19. CASE left # 1
    <2>1. /\ buffer' = b /\ outputBufferPosition' = q + 1
          /\ outputPosition' = outputPosition /\ consumed' = consumed
      BY <1>6, <1>15, <1>19 DEF Copy
    <2>2. Command' = Command /\ left' > 0 /\ left' \in 0 .. MaxCopy
      <3>1. Command' = Command
        BY <1>16, <2>1 DEF Command
      <3>2. todo - 1 \in 1 .. MaxCopy
        BY <1>6, <1>8, <1>19, WindowAssumption
      <3> QED
        BY <1>16, <3>1, <3>2, WindowAssumption
    <2>3. Produced' = p + 1
      <3>1. Produced' = s + (size - (todo - 1))
        BY <1>4, <1>5, <1>6, <1>16, <2>1, <2>2 DEF Produced
      <3> QED
        BY <1>7, <1>8, <3>1
    <2>4. TypeOK'
      BY <1>1, <1>9, <1>16, <2>1, <2>2 DEF TypeOK
    <2>5. Window(buffer, outputBufferPosition, Produced)'
      BY <1>14, <1>16, <2>1, <2>3 DEF Window
    <2>6. /\ left' <= Command'.size /\ outputBufferPosition' + left' <= Threshold + Command'.size
          /\ outputBufferPosition' - outputPosition' = Command'.size - left'
      <3>1. Command'.size = size /\ left' = todo - 1 /\ outputBufferPosition' = q + 1
            /\ outputPosition' = outputPosition /\ outputPosition \in Nat
        BY <1>1, <1>4, <1>16, <2>1, <2>2 DEF TypeOK
      <3>2. todo - 1 <= size /\ (q + 1) + (todo - 1) <= Threshold + size
        BY <1>8, WindowAssumption
      <3>3. (q + 1) - outputPosition = size - (todo - 1)
        BY <1>8, <1>9, <3>1
      <3> QED
        BY <3>1, <3>2, <3>3
    <2>7. /\ position' = Produced' - (outputBufferPosition' - outputPosition')
          /\ outputPosition' <= outputBufferPosition'
      BY <1>1, <1>9, <1>16, <1>17, <2>1, <2>3 DEF TypeOK
    <2>8. WindowInv'
      BY <1>1, <1>16, <2>1, <2>2, <2>4, <2>5, <2>6, <2>7 DEF WindowInv
    <2> QED
      BY <1>16, <2>8 DEF Inv, ReadsPlaintext, Expected
  <1> QED
    BY <1>18, <1>19

-----------------------------------------------------------------------------
(* Read and Seek.                                                           *)

LEMMA EndingPreserves == Inv /\ Ending => Inv'
  <1> SUFFICES ASSUME Inv, Ending PROVE Inv'
    OBVIOUS
  <1> USE DEF Inv, WindowInv, Ending, Decompressing, Reading
  <1>1. Produced = Len(stream.text) /\ Len(stream.text) \in Nat
    BY StreamFacts DEF TypeOK, Produced
  <1>2. stream.tail \in {"prsEOF", "EOF"}
    BY DEF TypeOK, IsStream
  <1>3. position >= Len(stream.text)
    BY <1>1 DEF TypeOK
  <1>4. TypeOK'
    BY <1>2 DEF TypeOK
  <1>5. Produced' = Produced /\ Command' = Command
    BY DEF Produced, Command
  <1>6. WindowInv'
    BY <1>1, <1>3, <1>4, <1>5 DEF Window
  <1> QED
    BY <1>6 DEF ReadsPlaintext, Expected

(* Bytes that are what the text says next may be appended to p.             *)
LEMMA Delivered ==
    ASSUME ReadsPlaintext, out \in Seq(Nat), position \in Nat, NEW n \in Nat,
           NEW f \in [1 .. n -> Nat], \A k \in 1 .. n : f[k] = Expected(position + k - 1),
           out' = out \o f, position' = position + n, UNCHANGED stream
    PROVE  out' \in Seq(Nat) /\ ReadsPlaintext'
  <1>1. /\ out' \in Seq(Nat) /\ Len(out') = Len(out) + n
        /\ \A k \in 1 .. Len(out) : out'[k] = out[k]
        /\ \A k \in Len(out) + 1 .. Len(out) + n : out'[k] = f[k - Len(out)]
    BY Appended
  <1>2. Len(out) \in Nat /\ position' - Len(out') = position - Len(out)
    BY <1>1
  <1> DEFINE E(p) == IF p < Len(stream.text) THEN stream.text[p + 1] ELSE 0
  <1>3. ASSUME NEW k \in 1 .. Len(out) + n
        PROVE  out'[k] = E(position - Len(out) + k - 1)
    <2>1. CASE k \in 1 .. Len(out)
      BY <1>1, <2>1 DEF ReadsPlaintext, Expected
    <2>2. CASE k \in Len(out) + 1 .. Len(out) + n
      <3>1. k - Len(out) \in 1 .. n
        BY <1>2, <2>2
      <3>2. position + (k - Len(out)) - 1 = position - Len(out) + k - 1
        BY <1>2
      <3>3. f[k - Len(out)] = E(position + (k - Len(out)) - 1)
        BY <3>1 DEF Expected
      <3> HIDE DEF E
      <3> QED
        BY <1>1, <2>2, <3>2, <3>3
    <2> QED
      BY <1>2, <2>1, <2>2
  <1>4. \A k \in 1 .. Len(out') : out'[k] = E(position' - Len(out') + k - 1)
    <2> HIDE DEF E
    <2> QED
      BY <1>1, <1>2, <1>3
  <1> QED
    BY <1>1, <1>4 DEF ReadsPlaintext, Expected

LEMMA LeastFacts ==
    ASSUME NEW a \in Nat, NEW b \in Nat
    PROVE  Least(a, b) \in Nat /\ Least(a, b) <= a /\ Least(a, b) <= b
  BY DEF Least

LEMMA TakePreserves == Inv /\ Take => Inv'
  <1> SUFFICES ASSUME Inv, Take PROVE Inv'
    OBVIOUS
  <1>1. /\ TypeOK /\ left = 0 /\ err = "none" /\ outputPosition < outputBufferPosition
        /\ room > 0 /\ outputBufferPosition <= Threshold /\ call \notin {"none", "Seek"}
        /\ Window(buffer, outputBufferPosition, Produced)
        /\ position = Produced - (outputBufferPosition - outputPosition)
    BY DEF Inv, WindowInv, Take, Reading
  <1>2. /\ room \in Nat /\ position \in Nat /\ stream.size \in Nat
        /\ stream.size - position \in Nat
        /\ outputPosition \in Nat /\ outputBufferPosition \in Nat
        /\ outputBufferPosition - outputPosition \in Nat
    <2>1. /\ room \in Nat /\ position \in 0 .. stream.size /\ stream.size \in Nat
          /\ outputPosition \in Nat /\ outputBufferPosition \in 0 .. BufferSize
      BY <1>1 DEF TypeOK, IsStream
    <2> QED
      BY <1>1, <2>1, WindowAssumption
  <1>3. PICK length \in Nat : length = Least(room, stream.size - position)
                             /\ length <= stream.size - position
    BY <1>2, LeastFacts
  <1>4. PICK read \in Nat : /\ read = Least(length, outputBufferPosition - outputPosition)
                            /\ read <= length /\ read <= outputBufferPosition - outputPosition
    BY <1>2, LeastFacts
  <1> DEFINE f == [k \in 1 .. read |-> buffer[outputPosition + k - 1]]
  <1>5. /\ out' = out \o f /\ outputPosition' = outputPosition + read
        /\ position' = position + read /\ room' = length - read
    BY <1>3, <1>4 DEF Take
  <1>6. UNCHANGED <<stream, consumed, left, buffer, outputBufferPosition, err, call, offset, result>>
    BY DEF Take
  <1>7. ASSUME NEW k \in 1 .. read
        PROVE  /\ outputPosition + k - 1 \in 0 .. outputBufferPosition - 1
               /\ outputPosition + k - 1 \in 0 .. BufferSize - 1
    BY <1>1, <1>2, <1>4, WindowAssumption
  <1>8. f \in [1 .. read -> Nat]
    BY <1>1, <1>7 DEF TypeOK
  <1>9. ASSUME NEW k \in 1 .. read
        PROVE  f[k] = Expected(position + k - 1)
    <2>1. f[k] = stream.text[Produced - outputBufferPosition + (outputPosition + k - 1) + 1]
      BY <1>1, <1>7 DEF Window
    <2>2. Produced \in Nat /\ Produced <= Len(stream.text) /\ Len(stream.text) \in Nat
      BY <1>1, ProducedFacts, StreamFacts DEF Inv, TypeOK
    <2>3. /\ Produced - outputBufferPosition + (outputPosition + k - 1) + 1 = (position + k - 1) + 1
          /\ position + k - 1 < Len(stream.text)
      BY <1>1, <1>2, <1>4, <2>2
    <2> QED
      BY <2>1, <2>3 DEF Expected
  <1> HIDE DEF f
  <1>10. out' \in Seq(Nat) /\ ReadsPlaintext'
    BY <1>1, <1>2, <1>5, <1>6, <1>8, <1>9, Delivered DEF Inv, TypeOK
  <1>11. room' \in Nat /\ outputPosition' \in Nat /\ position' \in 0 .. stream.size
    <2>1. /\ length - read \in Nat /\ outputPosition + read \in Nat
          /\ position + read \in Nat
      BY <1>2, <1>4
    <2>2. read <= stream.size - position
      BY <1>2, <1>3, <1>4
    <2>3. position + read <= stream.size
      BY <1>2, <2>2
    <2> QED
      BY <1>2, <1>5, <2>1, <2>3
  <1>12. TypeOK'
    BY <1>1, <1>6, <1>10, <1>11 DEF TypeOK
  <1>13. Produced' = Produced /\ Window(buffer, outputBufferPosition, Produced)'
    BY <1>1, <1>6 DEF Produced, Window
  <1>14. /\ outputPosition' <= outputBufferPosition
         /\ position' = Produced - (outputBufferPosition - outputPosition')
    <2>1. Produced \in Nat
      BY <1>1, ProducedFacts DEF Inv, WindowInv
    <2>2. outputPosition + read <= outputBufferPosition
      BY <1>2, <1>4
    <2>3. position + read = Produced - (outputBufferPosition - (outputPosition + read))
      BY <1>1, <1>2, <2>1
    <2> QED
      BY <1>5, <2>2, <2>3
  <1>15. WindowInv'
    BY <1>1, <1>6, <1>12, <1>13, <1>14 DEF WindowInv
  <1> QED
    BY <1>10, <1>15 DEF Inv

(* Zeros are put into p only behind the text.                               *)
LEMMA FillFacts ==
    ASSUME Inv, Fill, UNCHANGED stream
    PROVE  /\ out' \in Seq(Nat) /\ position' \in 0 .. stream.size /\ ReadsPlaintext'
           /\ position' # position => err = "prsEOF" /\ position' >= Len(stream.text)
  <1>1. /\ TypeOK /\ out \in Seq(Nat) /\ position \in 0 .. stream.size /\ stream.size \in Nat
        /\ room \in Nat /\ Len(stream.text) \in Nat
    <2>1. TypeOK
      BY DEF Inv, WindowInv
    <2>2. stream.size \in Nat /\ stream.text \in Seq(Nat)
      BY <2>1 DEF TypeOK, IsStream
    <2>3. out \in Seq(Nat) /\ position \in 0 .. stream.size /\ room \in Nat
      BY <2>1 DEF TypeOK
    <2> QED
      BY <2>1, <2>2, <2>3
  <1>2. CASE ~(err = "prsEOF" /\ position < stream.size)
    BY <1>1, <1>2 DEF Fill, Inv, ReadsPlaintext, Expected
  <1>3. CASE err = "prsEOF" /\ position < stream.size
    <2>1. position \in Nat /\ stream.size - position \in Nat /\ position >= Len(stream.text)
      BY <1>1, <1>3 DEF Inv, WindowInv
    <2>2. PICK read \in Nat : read = Least(room, stream.size - position)
                             /\ read <= stream.size - position
      BY <1>1, <2>1, LeastFacts
    <2> DEFINE f == [k \in 1 .. read |-> 0]
    <2>3. out' = out \o f /\ position' = position + read
      BY <1>3, <2>2 DEF Fill
    <2>4. f \in [1 .. read -> Nat] /\ \A k \in 1 .. read : f[k] = 0
      OBVIOUS
    <2> HIDE DEF f
    <2>5. \A k \in 1 .. read : f[k] = Expected(position + k - 1)
      <3> SUFFICES ASSUME NEW k \in 1 .. read PROVE Expected(position + k - 1) = 0
        BY <2>4
      <3>1. ~(position + k - 1 < Len(stream.text))
        BY <1>1, <2>1
      <3> QED
        BY <3>1 DEF Expected
    <2>6. out' \in Seq(Nat) /\ ReadsPlaintext'
      BY <1>1, <2>1, <2>3, <2>4, <2>5, Delivered DEF Inv
    <2>7. position' \in 0 .. stream.size /\ position' >= Len(stream.text)
      BY <1>1, <2>1, <2>2, <2>3
    <2> QED
      BY <1>3, <2>6, <2>7
  <1> QED
    BY <1>2, <1>3

LEMMA ReturnsPreserve == Inv /\ (ReadReturns \/ SeekReadReturns) => Inv'
  <1> SUFFICES ASSUME Inv, ReadReturns \/ SeekReadReturns PROVE Inv'
    OBVIOUS
  <1>1. /\ Fill /\ left = 0
        /\ UNCHANGED <<stream, consumed, left, buffer, outputBufferPosition, outputPosition,
                       err, room, offset>>
    BY DEF ReadReturns, SeekReadReturns, Done
  <1>2. /\ out' \in Seq(Nat) /\ position' \in 0 .. stream.size /\ ReadsPlaintext'
        /\ position' # position => err = "prsEOF" /\ position' >= Len(stream.text)
    BY <1>1, FillFacts
  <1>3. ReadError \in {"none", "EOF", "ErrUnexpectedEOF"}
    BY DEF ReadError
  <1>4. /\ call' \in {"none", "Read", "Seek", "SeekRead"}
        /\ result' \in [call : {"none", "Read", "Seek"}, asked : Int,
                         err : {"none", "EOF", "ErrUnexpectedEOF"}]
    BY <1>3 DEF Inv, WindowInv, TypeOK, ReadReturns, SeekReadReturns
  <1>5. TypeOK'
    BY <1>1, <1>2, <1>4 DEF Inv, WindowInv, TypeOK
  <1>6. Produced' = Produced /\ Window(buffer, outputBufferPosition, Produced)'
    BY <1>1 DEF Inv, WindowInv, Produced, Window
  <1>7. WindowInv'
    BY <1>1, <1>2, <1>5, <1>6 DEF Inv, WindowInv
  <1> QED
    BY <1>2, <1>7 DEF Inv

(* A call begins: nothing is read yet, and at the declared size no more     *)
(* will be.                                                                 *)
LEMMA EnterPreserves == Inv /\ (Read \/ SeekReads) => Inv'
  <1> SUFFICES ASSUME Inv, Read \/ SeekReads PROVE Inv'
    OBVIOUS
  <1>1. /\ left = 0
        /\ UNCHANGED <<stream, consumed, left, buffer, outputBufferPosition, outputPosition,
                       position, offset>>
    BY DEF Inv, WindowInv, Read, SeekReads
  <1>2. PICK n \in Nat : Enter(n)
    <2>1. CASE Read
      BY <2>1, WindowAssumption DEF Read
    <2>2. CASE SeekReads
      <3>1. Least(offset - position, SeekChunk) \in Nat
        BY <2>2, WindowAssumption DEF SeekReads, Inv, WindowInv, TypeOK, Least, IsStream
      <3> QED
        BY <2>2, <3>1 DEF SeekReads
    <2> QED
      BY <2>1, <2>2
  <1>3. /\ room' \in Nat /\ out' = <<>> /\ err' \in {err, "EOF"}
        /\ err' \in {"none", "EOF", "prsEOF"} /\ (err # "none" => err' # "none")
    BY <1>2 DEF Enter, Inv, WindowInv, TypeOK
  <1>4. /\ call' \in {"Read", "SeekRead"}
        /\ result' \in [call : {"none", "Read", "Seek"}, asked : Int,
                         err : {"none", "EOF", "ErrUnexpectedEOF"}]
    <2>1. CASE Read
      <3>1. PICK m \in 0 .. MaxRead : result' = [NoResult EXCEPT !.asked = m]
        BY <2>1 DEF Read
      <3>2. m \in Int
        BY <3>1
      <3> QED
        BY <2>1, <3>1, <3>2 DEF Read, NoResult
    <2>2. CASE SeekReads
      BY <2>2 DEF SeekReads, Inv, WindowInv, TypeOK
    <2> QED
      BY <2>1, <2>2
  <1>5. TypeOK'
    BY <1>1, <1>3, <1>4 DEF Inv, WindowInv, TypeOK
  <1>6. Produced' = Produced /\ Window(buffer, outputBufferPosition, Produced)'
    BY <1>1 DEF Inv, WindowInv, Produced, Window
  <1>7. WindowInv'
    BY <1>1, <1>3, <1>4, <1>5, <1>6 DEF Inv, WindowInv
  <1>8. ReadsPlaintext'
    BY <1>3 DEF ReadsPlaintext
  <1> QED
    BY <1>7, <1>8 DEF Inv

LEMMA SeekPreserves == Inv /\ Seek => Inv'
  <1> SUFFICES ASSUME Inv, Seek PROVE Inv'
    OBVIOUS
  <1>1. TypeOK /\ left = 0
    BY DEF Inv, WindowInv, Seek
  <1>2. /\ call' = "Seek" /\ room' = 0 /\ out' = <<>> /\ UNCHANGED <<stream, left, buffer>>
        /\ offset' \in Int
        /\ result' \in [call : {"none", "Read", "Seek"}, asked : Int,
                         err : {"none", "EOF", "ErrUnexpectedEOF"}]
    BY <1>1 DEF Seek, NoResult, TypeOK, IsStream
  <1>3. ReadsPlaintext'
    BY <1>2 DEF ReadsPlaintext
  <1>4. CASE Rewind
    <2>1. /\ consumed' = 0 /\ position' = 0 /\ err' = "none" /\ outputBufferPosition' = 0
          /\ outputPosition' = 0
      BY <1>4 DEF Rewind
    <2>2. /\ stream.start[1] = 0 /\ Len(stream.commands) \in Nat /\ stream.size \in Nat
      BY <1>1 DEF TypeOK, IsStream
    <2>3. Produced' = 0
      BY <1>1, <1>2, <2>1, <2>2 DEF Produced
    <2>4. TypeOK'
      BY <1>1, <1>2, <2>1, <2>2, WindowAssumption DEF TypeOK
    <2>5. Window(buffer, outputBufferPosition, Produced)'
      BY <2>1, <2>3 DEF Window
    <2>6. WindowInv'
      BY <1>1, <1>2, <2>1, <2>3, <2>4, <2>5, WindowAssumption DEF WindowInv
    <2> QED
      BY <1>3, <2>6 DEF Inv
  <1>5. CASE UNCHANGED <<consumed, position, err, outputBufferPosition, outputPosition>>
    <2>1. TypeOK'
      BY <1>1, <1>2, <1>5 DEF TypeOK
    <2>2. Produced' = Produced /\ Window(buffer, outputBufferPosition, Produced)'
      BY <1>1, <1>2, <1>5 DEF Inv, WindowInv, Produced, Window
    <2>3. WindowInv'
      BY <1>1, <1>2, <1>5, <2>1, <2>2 DEF Inv, WindowInv
    <2> QED
      BY <1>3, <2>3 DEF Inv
  <1> QED
    BY <1>4, <1>5 DEF Seek

LEMMA NextPreserves == Inv /\ [Next]_vars => Inv'
  <1> SUFFICES ASSUME Inv, [Next]_vars PROVE Inv'
    OBVIOUS
  <1>1. CASE SeekReturns
    <2>1. /\ left = 0 /\ UNCHANGED <<stream, window, room, out, offset>> /\ call' = "none"
          /\ result' \in [call : {"none", "Read", "Seek"}, asked : Int,
                           err : {"none", "EOF", "ErrUnexpectedEOF"}]
      BY <1>1 DEF SeekReturns, Inv, WindowInv, TypeOK
    <2>2. TypeOK'
      BY <2>1 DEF Inv, WindowInv, TypeOK, window
    <2>3. Produced' = Produced /\ Window(buffer, outputBufferPosition, Produced)'
      BY <2>1 DEF Inv, WindowInv, Produced, Window, window
    <2>4. WindowInv'
      BY <2>1, <2>2, <2>3 DEF Inv, WindowInv, window
    <2> QED
      BY <2>1, <2>4 DEF Inv, ReadsPlaintext, Expected, window
  <1>2. CASE UNCHANGED vars
    BY <1>2 DEF vars, window, Inv, WindowInv, TypeOK, Produced, Command, Window,
                ReadsPlaintext, Expected
  <1> QED
    BY <1>1, <1>2, LiteralPreserves, BeginCopyPreserves, CopyPreserves, EndingPreserves,
       TakePreserves, ReturnsPreserve, EnterPreserves, SeekPreserves DEF Next, Step

(* The inductive invariant and what Read promises with it: the window ends  *)
(* with what was produced (queueOutput, flushOutput, decompress).           *)
LEMMA InvHolds == Spec => []Inv
  BY InitEstablishes, NextPreserves, PTL DEF Spec

(* The window always holds the last bytes of the text, as many as a copy    *)
(* can reach, and the buffer never overflows, for every stream and every    *)
(* window size in which a copy fits.                                        *)
THEOREM WindowHolds == Spec => []WindowInv
  <1>1. Inv => WindowInv
    BY DEF Inv
  <1> QED
    BY <1>1, InvHolds, PTL

(* Every variable of PrsReader keeps its type.                              *)
THEOREM TypeCorrect == Spec => []TypeOK
  <1>1. Inv => TypeOK
    BY DEF Inv, WindowInv
  <1> QED
    BY <1>1, InvHolds, PTL

(* Whatever is read and sought, in any order and in pieces of any size, the *)
(* bytes that Read delivers are the text at the position it stood at.       *)
THEOREM PlaintextRead == Spec => []ReadsPlaintext
  <1>1. Inv => ReadsPlaintext
    BY DEF Inv
  <1> QED
    BY <1>1, InvHolds, PTL

(* A call gets what it asks for.                                            *)

(* While a call is served: what it was asked for is what it has and has room
   for, unless that ends with the text; a Seek does not read past its goal. *)
CallInv ==
    /\ call = "Read" => Len(out) + room = result.asked \/ position + room = stream.size
    /\ call = "Seek" => position <= offset \/ offset < 0
    /\ call = "SeekRead" => position + room <= offset
    /\ CallsComplete

(* What Fill puts into p is counted once.                                   *)
LEMMA FillCounts ==
    ASSUME Inv, Fill
    PROVE  /\ position' \in Nat /\ Len(out') \in Nat
           /\ position' <= position + room
           /\ ~(err = "prsEOF" /\ position < stream.size) => UNCHANGED <<out, position>>
           /\ err = "prsEOF" /\ position < stream.size =>
                 \/ position' = stream.size
                 \/ position' = position + room /\ Len(out') = Len(out) + room
  <1>1. TypeOK
    BY DEF Inv, WindowInv
  <1>2. out \in Seq(Nat) /\ position \in 0 .. stream.size /\ room \in Nat
    BY <1>1 DEF TypeOK
  <1>3. stream.size \in Nat
    BY <1>1 DEF TypeOK, IsStream
  <1>4. CASE ~(err = "prsEOF" /\ position < stream.size)
    BY <1>2, <1>3, <1>4 DEF Fill
  <1>5. CASE err = "prsEOF" /\ position < stream.size
    <2> DEFINE read == Least(room, stream.size - position)
               zeros == [k \in 1 .. read |-> 0]
    <2>1. /\ read \in Nat /\ read <= room
          /\ read = room \/ read = stream.size - position
      BY <1>2, <1>3, <1>5 DEF Least
    <2>2. out' = out \o zeros /\ position' = position + read
      BY <1>5 DEF Fill
    <2>3. zeros \in Seq(Nat) /\ Len(zeros) = read
      <3> HIDE DEF read
      <3> QED
        BY <2>1
    <2> HIDE DEF read, zeros
    <2>4. Len(out') = Len(out) + read
      BY <1>2, <2>2, <2>3, ConcatProperties, Zenon
    <2>5. Len(out) \in Nat
      BY <1>2
    <2>6. position' \in Nat /\ Len(out') \in Nat /\ position' <= position + room
      <3>1. position \in Nat
        BY <1>2, <1>3
      <3> QED
        BY <1>2, <2>1, <2>2, <2>4, <2>5, <3>1
    <2>7. \/ position' = stream.size
          \/ position' = position + room /\ Len(out') = Len(out) + room
      <3>1. CASE read = room
        BY <2>2, <2>4, <3>1
      <3>2. CASE read = stream.size - position
        <4>1. position \in Nat
          BY <1>2, <1>3
        <4> QED
          BY <1>3, <2>2, <3>2, <4>1
      <3> QED
        BY <2>1, <3>1, <3>2
    <2> QED
      BY <1>5, <2>6, <2>7
  <1> QED
    BY <1>4, <1>5

LEMMA TakeCounts ==
    ASSUME Inv, Take
    PROVE  /\ \/ Len(out') + room' = Len(out) + room /\ position' + room' = position + room
              \/ position' + room' = stream.size
           /\ position' + room' <= position + room
  <1>1. TypeOK /\ outputPosition <= outputBufferPosition
    BY DEF Inv, WindowInv
  <1>2. /\ out \in Seq(Nat) /\ position \in 0 .. stream.size /\ room \in Nat
        /\ outputPosition \in Nat /\ outputBufferPosition \in Nat
        /\ buffer \in [0 .. BufferSize - 1 -> Nat] /\ outputBufferPosition <= BufferSize
    BY <1>1, WindowAssumption DEF TypeOK
  <1>3. stream.size \in Nat
    BY <1>1 DEF TypeOK, IsStream
  <1> DEFINE length == Least(room, stream.size - position)
             read == Least(length, outputBufferPosition - outputPosition)
             bytes == [k \in 1 .. read |-> buffer[outputPosition + k - 1]]
  <1>4. /\ read \in Nat /\ length \in Nat
        /\ length <= room /\ (length = room \/ length = stream.size - position)
    BY <1>1, <1>2, <1>3 DEF Least
  <1>5. out' = out \o bytes /\ position' = position + read /\ room' = length - read
    BY DEF Take
  <1>6. bytes \in Seq(Nat) /\ Len(bytes) = read
    <2>1. \A k \in 1 .. read : buffer[outputPosition + k - 1] \in Nat
      <3>1. read <= outputBufferPosition - outputPosition
        BY <1>1, <1>2, <1>4 DEF Least
      <3> HIDE DEF read
      <3>2. \A k \in 1 .. read : outputPosition + k - 1 \in 0 .. BufferSize - 1
        BY <1>2, <1>4, <3>1, WindowAssumption
      <3> QED
        BY <1>2, <3>2
    <2> HIDE DEF read
    <2> QED
      BY <1>4, <2>1
  <1> HIDE DEF read, bytes, length
  <1>7. Len(out') = Len(out) + read /\ Len(out) \in Nat
    <2>1. Len(out') = Len(out) + read
      BY <1>2, <1>5, <1>6, ConcatProperties, Zenon
    <2> QED
      BY <1>2, <2>1
  <1>8. position \in Nat
    BY <1>2, <1>3
  <1>9. CASE length = room
    <2>1. position' + room' = position + room
      BY <1>2, <1>4, <1>5, <1>8, <1>9
    <2>2. Len(out') + room' = Len(out) + room
      BY <1>2, <1>4, <1>5, <1>7, <1>9
    <2> QED
      BY <1>2, <1>8, <2>1, <2>2
  <1>10. CASE length = stream.size - position
    <2>1. position' + room' = stream.size
      BY <1>3, <1>4, <1>5, <1>8, <1>10
    <2>2. position' + room' <= position + room
      BY <1>2, <1>4, <1>5, <1>8
    <2> QED
      BY <2>1, <2>2
  <1> QED
    BY <1>4, <1>9, <1>10

LEMMA CallsPreserved == Inv /\ CallInv /\ [Next]_vars => CallInv'
  <1> SUFFICES ASSUME Inv, CallInv, [Next]_vars PROVE CallInv'
    OBVIOUS
  <1>1. TypeOK
    BY DEF Inv, WindowInv
  <1>2. /\ out \in Seq(Nat) /\ position \in 0 .. stream.size /\ room \in Nat
        /\ offset \in Int /\ result.asked \in Int
    BY <1>1 DEF TypeOK
  <1>3. stream.size \in Nat /\ Len(out) \in Nat
    BY <1>1, <1>2 DEF TypeOK, IsStream
  <1>4. CASE Read
    <2>1. /\ call = "none" /\ call' = "Read" /\ room' \in 0 .. MaxRead /\ out' = <<>>
          /\ result' = [NoResult EXCEPT !.asked = room']
      BY <1>4 DEF Read, Enter
    <2>2. result'.asked = room'
      BY <2>1 DEF NoResult
    <2> QED
      BY <2>1, <2>2, WindowAssumption DEF CallInv, CallsComplete
  <1>5. CASE Seek
    <2>1. /\ call' = "Seek" /\ offset' \in -1 .. stream.size + 1
          /\ position' = IF offset' < position THEN 0 ELSE position
      BY <1>5 DEF Seek, Rewind
    <2>2. position' <= offset' \/ offset' < 0
      BY <1>2, <1>3, <2>1
    <2> QED
      BY <2>1, <2>2 DEF CallInv, CallsComplete
  <1>6. CASE Literal \/ BeginCopy \/ Copy \/ Ending
    BY <1>6 DEF Literal, BeginCopy, Copy, Ending, CallInv, CallsComplete
  <1>7. CASE Take
    <2>1. call' = call /\ call \in {"Read", "SeekRead"} /\ UNCHANGED <<stream, offset, result>>
      BY <1>7 DEF Take, Reading
    <2> QED
      BY <1>2, <1>3, <1>7, <2>1, TakeCounts DEF CallInv, CallsComplete
  <1>8. CASE ReadReturns
    <2>1. /\ call = "Read" /\ call' = "none" /\ (room = 0 \/ err # "none")
          /\ Fill /\ UNCHANGED <<stream, offset>>
          /\ result' = [result EXCEPT !.call = "Read", !.err = ReadError]
      BY <1>8 DEF ReadReturns, Done
    <2>2. result'.asked = result.asked /\ result'.err = ReadError /\ result'.call = "Read"
      BY <1>1, <2>1 DEF TypeOK
    <2>3. ASSUME ReadError = "none" PROVE Len(out') = result.asked \/ position' = stream.size
      <3>1. err \in {"none", "EOF", "prsEOF"}
        BY <1>1 DEF TypeOK
      <3>2. err # "EOF" /\ (err = "prsEOF" => position < stream.size)
        BY <1>2, <1>3, <2>3 DEF ReadError
      <3>3. Len(out) + room = result.asked \/ position + room = stream.size
        BY <2>1 DEF CallInv
      <3>4. CASE err = "none"
        BY <1>2, <1>3, <2>1, <3>3, <3>4, FillCounts
      <3>5. CASE err = "prsEOF" /\ position < stream.size
        BY <1>2, <1>3, <2>1, <3>3, <3>5, FillCounts
      <3> QED
        BY <3>1, <3>2, <3>4, <3>5
    <2> QED
      BY <2>1, <2>2, <2>3 DEF CallInv, CallsComplete
  <1>9. CASE SeekReads
    <2>1. /\ call' = "SeekRead" /\ room' = Least(offset - position, SeekChunk)
          /\ UNCHANGED <<position, offset>>
      BY <1>9 DEF SeekReads, Enter
    <2>2. position' + room' <= offset'
      BY <1>2, <1>3, <2>1, WindowAssumption DEF Least
    <2> QED
      BY <2>1, <2>2 DEF CallInv, CallsComplete
  <1>10. CASE SeekReadReturns
    <2>1. /\ call = "SeekRead" /\ Fill /\ UNCHANGED <<stream, offset>>
          /\ \/ call' = "Seek"
             \/ /\ call' = "none" /\ ReadError # "none"
                /\ result' = [result EXCEPT !.call = "Seek", !.err = ReadError]
      BY <1>10 DEF SeekReadReturns, Done
    <2>2. position' <= offset'
      BY <1>2, <1>3, <2>1, FillCounts DEF CallInv
    <2>3. CASE call' = "Seek"
      BY <2>2, <2>3 DEF CallInv, CallsComplete
    <2>4. CASE call' = "none"
      <3>1. result'.err # "none"
        BY <1>1, <2>1, <2>4 DEF TypeOK
      <3> QED
        BY <2>4, <3>1 DEF CallInv, CallsComplete
    <2> QED
      BY <2>1, <2>3, <2>4
  <1>11. CASE SeekReturns
    <2>1. /\ call = "Seek" /\ offset <= position /\ call' = "none"
          /\ UNCHANGED <<stream, position, offset, out>>
          /\ result' = [result EXCEPT !.call = "Seek"]
      BY <1>11 DEF SeekReturns, window
    <2>2. position = offset \/ offset < 0
      BY <1>2, <1>3, <2>1 DEF CallInv
    <2>3. result'.call = "Seek"
      BY <1>1, <2>1 DEF TypeOK
    <2> QED
      BY <2>1, <2>2, <2>3 DEF CallInv, CallsComplete
  <1>12. CASE UNCHANGED vars
    BY <1>12 DEF vars, window, CallInv, CallsComplete
  <1> QED
    BY <1>4, <1>5, <1>6, <1>7, <1>8, <1>9, <1>10, <1>11, <1>12 DEF Next, Step

(* A Read that returns no error has what it was asked for or the end of the
   text; a Seek that returns none is where it was to go.                    *)
THEOREM CallsAreComplete == Spec => []CallsComplete
  <1>1. Init => CallInv
    BY DEF Init, NoResult, CallInv, CallsComplete
  <1>2. CallInv => CallsComplete
    BY DEF CallInv
  <1> QED
    BY <1>1, <1>2, InvHolds, CallsPreserved, PTL DEF Spec

-----------------------------------------------------------------------------
(* What the operations on BufReader return.                                *)

(* The states of a BufReader: what it holds was read from the file.         *)
Sane(b) == b \in [raw : Nat, buffered : Nat, position : Nat] /\ b.buffered <= b.raw
InPlace(b) == b.position = NextByte(b)

(* A read gives at most what was asked for, and moves both the position and *)
(* the place that is read next by what it gave.                             *)
LEMMA ReadMoves ==
    ASSUME NEW b, Sane(b), NEW n \in Nat, NEW read \in BufRead(b, n)
    PROVE  /\ read.count \in Nat /\ read.count <= n
           /\ Sane(read.buf)
           /\ read.buf.position = b.position + read.count
           /\ InPlace(b) => InPlace(read.buf)
  <1>1. CASE b.buffered > 0
    <2>1. read = [count |-> Smaller(n, b.buffered),
                  buf |-> Consumed(b, b.raw, b.buffered, Smaller(n, b.buffered))]
      BY <1>1 DEF BufRead
    <2> QED
      BY <2>1, <1>1 DEF Sane, Consumed, Smaller, InPlace, NextByte
  <1>2. CASE ~(b.buffered > 0)
    <2>1. PICK k \in Nat :
            read = [count |-> Smaller(n, k), buf |-> Consumed(b, b.raw + k, k, Smaller(n, k))]
      BY <1>2 DEF BufRead
    <2>2. b.buffered = 0
      BY <1>2 DEF Sane
    <2> QED
      BY <2>1, <2>2 DEF Sane, Consumed, Smaller, InPlace, NextByte
  <1> QED
    BY <1>1, <1>2

(* A seek that succeeds is at the place it was asked for, if that is known.  *)
LEMMA SeekMoves ==
    ASSUME NEW b, Sane(b), NEW to \in Nat, NEW fromEnd \in BOOLEAN,
           NEW seek \in BufSeek(b, to, fromEnd)
    PROVE  /\ seek.ok \in BOOLEAN /\ seek.below \in BOOLEAN
           /\ Sane(seek.buf)
           /\ seek.ok /\ (InPlace(b) \/ seek.below) => InPlace(seek.buf)
           /\ seek.ok /\ ~fromEnd => seek.buf.position = to
           /\ seek.ok \/ seek.below
  <1> DEFINE relative == IF fromEnd THEN -1 ELSE to - b.position
  <1>0. relative \in Int
    BY DEF Sane
  <1>1. CASE relative = 0
    <2>1. seek = [ok |-> TRUE, below |-> FALSE, buf |-> b]
      BY <1>1 DEF BufSeek
    <2> QED
      BY <2>1, <1>1 DEF Sane
  <1>2. CASE relative \in 1 .. b.buffered - 1
    <2>1. seek = [ok |-> TRUE, below |-> FALSE, buf |-> Discard(b, relative)]
      BY <1>2 DEF BufSeek
    <2>2. relative = to - b.position
      BY <1>2
    <2> QED
      BY <2>1, <1>2, <2>2 DEF Sane, Discard, Consumed, InPlace, NextByte
  <1>3. CASE relative # 0 /\ relative \notin 1 .. b.buffered - 1
    <2>1. \/ seek = [ok |-> FALSE, below |-> TRUE, buf |-> SeekBelowFails(b)]
          \/ seek = [ok |-> TRUE, below |-> TRUE, buf |-> SeekBelow(b, to)]
      BY <1>3 DEF BufSeek
    <2>2. CASE seek = [ok |-> FALSE, below |-> TRUE, buf |-> SeekBelowFails(b)]
      BY <2>2 DEF Sane, SeekBelowFails
    <2>3. CASE seek = [ok |-> TRUE, below |-> TRUE, buf |-> SeekBelow(b, to)]
      BY <2>3 DEF Sane, SeekBelow, InPlace, NextByte
    <2> QED
      BY <2>1, <2>2, <2>3
  <1> QED
    BY <1>1, <1>2, <1>3

-----------------------------------------------------------------------------
(* The invariant.                                                          *)

(* What ReaderInv says of the BufReader, and of a section.                  *)
BufInv == Sane(buf) /\ astray \in BOOLEAN /\ (~astray => InPlace(buf))
SectionInv == section \in [Sections -> Section \cup {Closed}] /\
              \A s \in Sections : section[s].base <= section[s].limit
GivenInv == given \in [by : Sections \cup {Whole}, first : Int, count : Nat]

LEMMA InvParts == ReaderInv <=> BufInv /\ SectionInv /\ GivenInv
  BY DEF ReaderInv, ReaderTypeOK, BufInv, SectionInv, GivenInv, Sane, InPlace

LEMMA OpenedSection ==
    ASSUME SectionInv, NEW s \in Sections, Opened(s)
    PROVE  section[s] \in Section
  BY DEF SectionInv, Opened, Closed, Section

(* A seek keeps what the invariant says of the BufReader.                   *)
LEMMA SeekKeeps ==
    ASSUME BufInv, NEW to \in Nat, NEW fromEnd \in BOOLEAN,
           NEW seek \in BufSeek(buf, to, fromEnd)
    PROVE  /\ Astray(seek) \in BOOLEAN
           /\ Sane(seek.buf)
           /\ ~Astray(seek) => InPlace(seek.buf)
           /\ ~seek.ok => Astray(seek)
  <1>1. Sane(buf) /\ astray \in BOOLEAN /\ (~astray => InPlace(buf))
    BY DEF BufInv
  <1>2. /\ seek.ok \in BOOLEAN /\ seek.below \in BOOLEAN
        /\ Sane(seek.buf)
        /\ seek.ok /\ (InPlace(buf) \/ seek.below) => InPlace(seek.buf)
        /\ seek.ok \/ seek.below
    BY <1>1, SeekMoves
  <1> QED
    BY <1>1, <1>2 DEF Astray

LEMMA GivenTyped ==
    ASSUME GivenInv, NEW b, Sane(b), NEW r \in Sections \cup {Whole}, NEW count \in Nat
    PROVE  Given(r, b, count) \in [by : Sections \cup {Whole}, first : Int, count : Nat]
  <1>1. NextByte(b) \in Int
    BY DEF Sane, NextByte
  <1> QED
    BY <1>1 DEF Given, GivenInv

LEMMA ReadWholeKeeps ==
    ASSUME ReaderInv, NEW n \in ReadSizes, ReadWhole(n)
    PROVE  ReaderInv'
  <1>1. BufInv /\ SectionInv /\ GivenInv
    BY InvParts
  <1>2. PICK read \in BufRead(buf, n) : buf' = read.buf /\ given' = Given(Whole, buf, read.count)
    BY DEF ReadWhole
  <1>3. UNCHANGED <<section, astray>>
    BY DEF ReadWhole
  <1>4. n \in Nat /\ Sane(buf)
    BY <1>1, SizesAssumption DEF BufInv
  <1>5. read.count \in Nat /\ Sane(read.buf) /\ (InPlace(buf) => InPlace(read.buf))
    BY <1>4, ReadMoves
  <1>6. BufInv'
    <2>1. Sane(buf)' /\ (InPlace(buf) => InPlace(buf)')
      BY <1>2, <1>5 DEF Sane, InPlace, NextByte
    <2> QED
      BY <2>1, <1>1, <1>3 DEF BufInv
  <1>7. GivenInv'
    BY <1>1, <1>2, <1>4, <1>5, GivenTyped DEF GivenInv
  <1>8. SectionInv'
    BY <1>1, <1>3 DEF SectionInv
  <1> QED
    BY <1>6, <1>7, <1>8 DEF ReaderInv, ReaderTypeOK, BufInv, SectionInv, GivenInv, Sane, InPlace

LEMMA SeekWholeKeeps ==
    ASSUME ReaderInv, NEW to \in Places, NEW fromEnd \in BOOLEAN, SeekWhole(to, fromEnd)
    PROVE  ReaderInv'
  <1>1. BufInv /\ SectionInv /\ GivenInv
    BY InvParts
  <1>2. PICK seek \in BufSeek(buf, to, fromEnd) : buf' = seek.buf /\ astray' = Astray(seek)
    BY DEF SeekWhole
  <1>3. UNCHANGED <<section, given>>
    BY DEF SeekWhole
  <1>4. to \in Nat
    BY SizesAssumption DEF Places
  <1>5. Astray(seek) \in BOOLEAN /\ Sane(seek.buf) /\ (~Astray(seek) => InPlace(seek.buf))
    BY <1>1, <1>4, SeekKeeps
  <1>6. BufInv'
    BY <1>2, <1>5 DEF BufInv, Sane, InPlace, NextByte
  <1>7. SectionInv' /\ GivenInv'
    BY <1>1, <1>3 DEF SectionInv, GivenInv
  <1> QED
    BY <1>6, <1>7 DEF ReaderInv, ReaderTypeOK, BufInv, SectionInv, GivenInv, Sane, InPlace

(* What ReadAt does for a section: its seek fails and leads BufReader        *)
(* astray, or it gives count bytes of the section from where it stands.      *)
LEMMA SectionRead ==
    ASSUME ReaderInv, NEW s \in Sections, NEW n \in ReadSizes, ReadSection(s, n)
    PROVE  /\ BufInv'
           /\ \/ astray' /\ UNCHANGED <<section, given>>
              \/ \E b : \E count \in Nat :
                    /\ Sane(b) /\ (~astray' => NextByte(b) = section[s].off)
                    /\ count <= section[s].limit - section[s].off
                    /\ given' = Given(s, b, count)
                    /\ section' = [section EXCEPT ![s].off = @ + count]
  <1> DEFINE off == section[s].off
             rest == Smaller(n, section[s].limit - off)
  <1>1. BufInv /\ SectionInv /\ GivenInv
    BY InvParts
  <1>2. section[s] \in Section /\ off < section[s].limit
    BY <1>1, OpenedSection DEF ReadSection
  <1>3. off \in Nat /\ rest \in Nat /\ rest <= section[s].limit - off
    <2>1. n \in Nat
      BY SizesAssumption
    <2> QED
      BY <1>2, <2>1 DEF Section, Smaller
  <1>4. PICK seek \in BufSeek(buf, off, FALSE) :
            /\ astray' = Astray(seek)
            /\ \/ /\ ~seek.ok
                  /\ buf' = seek.buf /\ UNCHANGED <<section, given>>
               \/ /\ seek.ok
                  /\ \E read \in BufRead(seek.buf, rest) :
                        /\ buf' = read.buf
                        /\ given' = Given(s, seek.buf, read.count)
                        /\ section' = [section EXCEPT ![s].off = @ + read.count]
    BY DEF ReadSection
  <1>5. /\ Astray(seek) \in BOOLEAN /\ Sane(seek.buf)
        /\ ~Astray(seek) => InPlace(seek.buf)
        /\ ~seek.ok => Astray(seek)
    BY <1>1, <1>3, SeekKeeps
  <1>6. seek.ok => seek.buf.position = off
    BY <1>1, <1>3, SeekMoves DEF BufInv
  <1>7. CASE ~seek.ok
    <2>1. buf' = seek.buf /\ UNCHANGED <<section, given>>
      BY <1>4, <1>7
    <2>2. astray'
      BY <1>4, <1>5, <1>7
    <2>3. BufInv'
      BY <1>4, <1>5, <2>1, <2>2 DEF BufInv, Sane
    <2> QED
      BY <2>1, <2>2, <2>3
  <1>8. CASE seek.ok
    <2>1. PICK read \in BufRead(seek.buf, rest) :
            /\ buf' = read.buf
            /\ given' = Given(s, seek.buf, read.count)
            /\ section' = [section EXCEPT ![s].off = @ + read.count]
      BY <1>4, <1>8
    <2>2. /\ read.count \in Nat /\ read.count <= rest
          /\ Sane(read.buf) /\ (InPlace(seek.buf) => InPlace(read.buf))
      BY <1>3, <1>5, ReadMoves
    <2>3. BufInv'
      <3>1. Sane(buf)' /\ (InPlace(seek.buf) => InPlace(buf)')
        BY <2>1, <2>2 DEF Sane, InPlace, NextByte
      <3> QED
        BY <3>1, <1>4, <1>5 DEF BufInv
    <2>4. ~astray' => NextByte(seek.buf) = off
      BY <1>4, <1>5, <1>6, <1>8 DEF InPlace
    <2>5. read.count <= section[s].limit - off
      BY <2>2, <1>2, <1>3 DEF Section
    <2> QED
      BY <2>1, <2>2, <2>3, <2>4, <2>5, <1>5
  <1> QED
    BY <1>5, <1>7, <1>8

LEMMA ReadSectionKeeps ==
    ASSUME ReaderInv, NEW s \in Sections, NEW n \in ReadSizes, ReadSection(s, n)
    PROVE  ReaderInv'
  <1>1. BufInv /\ SectionInv /\ GivenInv
    BY InvParts
  <1>2. BufInv'
    BY SectionRead
  <1>3. SectionInv' /\ GivenInv'
    <2>1. CASE UNCHANGED <<section, given>>
      BY <2>1, <1>1 DEF SectionInv, GivenInv
    <2>2. CASE \E b : \E count \in Nat :
                  /\ Sane(b)
                  /\ given' = Given(s, b, count)
                  /\ section' = [section EXCEPT ![s].off = @ + count]
      <3>1. PICK b, count :
                  /\ count \in Nat /\ Sane(b)
                  /\ given' = Given(s, b, count)
                  /\ section' = [section EXCEPT ![s].off = @ + count]
        BY <2>2
      <3>2. GivenInv'
        BY <3>1, <1>1, GivenTyped DEF GivenInv
      <3>3. section[s] \in Section
        BY <1>1, OpenedSection DEF ReadSection
      <3>4. SectionInv'
        BY <3>1, <3>3, <1>1 DEF SectionInv, Section
      <3> QED
        BY <3>2, <3>4
    <2> QED
      BY <2>1, <2>2, SectionRead
  <1> QED
    BY <1>2, <1>3 DEF ReaderInv, ReaderTypeOK, BufInv, SectionInv, GivenInv, Sane, InPlace

LEMMA SectionsKeep ==
    ASSUME ReaderInv, NEW s \in Sections,
           OpenSection(s) \/ \E to \in Places : SeekSection(s, to)
    PROVE  ReaderInv'
  <1>1. BufInv /\ SectionInv /\ GivenInv
    BY InvParts
  <1>2. UNCHANGED <<buf, given, astray>>
    BY DEF OpenSection, SeekSection
  <1>3. SectionInv'
    <2>1. CASE OpenSection(s)
      <3>1. PICK size \in SectionSizes :
              section' = [section EXCEPT ![s] = [base |-> buf.position, off |-> buf.position,
                                                 limit |-> buf.position + size]]
        BY <2>1 DEF OpenSection
      <3>2. size \in Nat /\ buf.position \in Nat
        BY <1>1, SizesAssumption DEF BufInv, Sane
      <3> QED
        BY <3>1, <3>2, <1>1 DEF SectionInv, Section
    <2>2. ASSUME NEW to \in Places, SeekSection(s, to) PROVE SectionInv'
      <3>1. section[s] \in Section /\ section' = [section EXCEPT ![s].off = to]
        BY <2>2, <1>1, OpenedSection DEF SeekSection
      <3>2. to \in Nat
        BY SizesAssumption DEF Places
      <3> QED
        BY <3>1, <3>2, <1>1 DEF SectionInv, Section
    <2> QED
      BY <2>1, <2>2
  <1> QED
    BY <1>1, <1>2, <1>3 DEF ReaderInv, ReaderTypeOK, BufInv, SectionInv, GivenInv, Sane, InPlace,
                            NextByte

(* ReaderInv, for every file, buffer, set of sections and sizes of reads:    *)
(* a BufReader that no seek has led astray knows where it reads.            *)
THEOREM ReaderInvariant == ReaderSpec => []ReaderInv
  <1>1. ReaderInit => ReaderInv
    <2> SUFFICES ASSUME ReaderInit PROVE ReaderInv
      OBVIOUS
    <2>1. BufInv
      <3>1. Sane(buf) /\ InPlace(buf)
        BY DEF ReaderInit, Sane, InPlace, NextByte
      <3>2. astray \in BOOLEAN
        BY DEF ReaderInit
      <3> QED
        BY <3>1, <3>2 DEF BufInv
    <2>2. GivenInv
      BY DEF ReaderInit, GivenInv
    <2>3. SectionInv
      BY DEF ReaderInit, SectionInv, Closed
    <2> QED
      BY <2>1, <2>2, <2>3, InvParts
  <1>2. ReaderInv /\ [ReaderNext]_readerVars => ReaderInv'
    <2> SUFFICES ASSUME ReaderInv, [ReaderNext]_readerVars PROVE ReaderInv'
      OBVIOUS
    <2>1. CASE UNCHANGED readerVars
      BY <2>1 DEF readerVars, ReaderInv, ReaderTypeOK, NextByte
    <2>2. CASE \E n \in ReadSizes : ReadWhole(n)
      BY <2>2, ReadWholeKeeps
    <2>3. CASE \E to \in Places, fromEnd \in BOOLEAN : SeekWhole(to, fromEnd)
      BY <2>3, SeekWholeKeeps
    <2>4. ASSUME NEW s \in Sections, \E n \in ReadSizes : ReadSection(s, n)
          PROVE  ReaderInv'
      BY <2>4, ReadSectionKeeps
    <2>5. ASSUME NEW s \in Sections, OpenSection(s) \/ \E to \in Places : SeekSection(s, to)
          PROVE  ReaderInv'
      BY <2>5, SectionsKeep
    <2> QED
      BY <2>1, <2>2, <2>3, <2>4, <2>5 DEF ReaderNext
  <1> QED
    BY <1>1, <1>2, PTL DEF ReaderSpec

-----------------------------------------------------------------------------
(* Sections are read as SectionReaders promises.                           *)

LEMMA SamePlaces ==
    ASSUME UNCHANGED <<buf, section>>
    PROVE  UNCHANGED <<places, ends>>
  BY DEF places, ends

LEMMA PlaceOf ==
    /\ places[Whole] = buf.position
    /\ \A s \in Sections : places[s] = section[s].off /\ ends[s] = section[s].limit
  BY WholeAssumption DEF places, ends

LEMMA PlaceOfNext ==
    /\ places'[Whole] = buf'.position
    /\ \A s \in Sections : places'[s] = section'[s].off /\ ends'[s] = section'[s].limit
  BY WholeAssumption DEF places, ends

(* Who does not move a section leaves it undisturbed.                       *)
LEMMA OthersUndisturbed ==
    ASSUME NEW ss \in SUBSET Sections, \A s \in ss : section'[s] = section[s]
    PROVE  Plain!Undisturbed(ss)
  BY PlaceOf, PlaceOfNext DEF Plain!Undisturbed

LEMMA WholeImplements ==
    ASSUME ReaderInv, ReaderInv',
           \/ \E n \in ReadSizes : ReadWhole(n)
           \/ \E to \in Places, fromEnd \in BOOLEAN : SeekWhole(to, fromEnd)
    PROVE  Plain!Give(Whole) \/ Plain!Seek(Whole)
  <1>0. UNCHANGED <<section, ends>>
    BY DEF ReadWhole, SeekWhole, ends
  <1>1. Plain!Undisturbed(Sections \ {Whole})
    BY <1>0, OthersUndisturbed
  <1>2. places'[Whole] >= 0
    BY PlaceOfNext, ReaderInv' DEF ReaderInv, ReaderTypeOK
  <1>3. ASSUME NEW n \in ReadSizes, ReadWhole(n)
        PROVE  Plain!Give(Whole) \/ Plain!Seek(Whole)
    <2>1. PICK read \in BufRead(buf, n) : buf' = read.buf /\ given' = Given(Whole, buf, read.count)
      BY <1>3 DEF ReadWhole
    <2>2. /\ Sane(buf) /\ (~astray => InPlace(buf)) /\ UNCHANGED astray
          /\ n \in Nat
      BY <1>3, InvParts, SizesAssumption DEF BufInv, ReadWhole
    <2>3. read.count \in Nat /\ read.buf.position = buf.position + read.count
      BY <2>2, ReadMoves
    <2>4. CASE read.count = 0
      BY <2>1, <2>4, <1>0, <1>1, <1>2 DEF Given, Plain!Seek
    <2>5. CASE read.count # 0
      <3>1. given' = [by |-> Whole, first |-> NextByte(buf), count |-> read.count]
        BY <2>1, <2>5 DEF Given
      <3>2. places'[Whole] = places[Whole] + given'.count
        BY <2>1, <2>3, <3>1, PlaceOf, PlaceOfNext
      <3>3. ~astray' => given'.first = places[Whole]
        BY <2>2, <3>1, PlaceOf DEF InPlace
      <3> QED
        BY <3>1, <3>2, <3>3, <2>3, <2>5, <1>1 DEF Plain!Give
    <2> QED
      BY <2>4, <2>5
  <1>4. ASSUME NEW to \in Places, NEW fromEnd \in BOOLEAN, SeekWhole(to, fromEnd)
        PROVE  Plain!Seek(Whole)
    BY <1>4, <1>0, <1>1, <1>2 DEF SeekWhole, Plain!Seek
  <1> QED
    BY <1>3, <1>4

LEMMA SectionImplements ==
    ASSUME ReaderInv, ReaderInv', NEW s \in Sections,
           \/ OpenSection(s)
           \/ \E n \in ReadSizes : ReadSection(s, n)
           \/ \E to \in Places : SeekSection(s, to)
    PROVE  Plain!Open(s) \/ Plain!Give(s) \/ Plain!Seek(s) \/ Plain!Seek(Whole)
  <1>0. BufInv /\ SectionInv /\ GivenInv
    BY InvParts
  <1>1. places'[Whole] >= 0
    BY PlaceOfNext, ReaderInv' DEF ReaderInv, ReaderTypeOK
  <1>2. CASE OpenSection(s)
    <2>1. PICK size \in SectionSizes :
            section' = [section EXCEPT ![s] = [base |-> buf.position, off |-> buf.position,
                                               limit |-> buf.position + size]]
      BY <1>2 DEF OpenSection
    <2>2. /\ section'[s].off = buf.position /\ section'[s].limit = buf.position + size
          /\ \A o \in Sections \ {s} : section'[o] = section[o]
      BY <2>1, <1>0 DEF SectionInv
    <2>3. size \in Nat /\ buf.position \in Nat /\ UNCHANGED <<buf, given, astray>>
      BY <1>2, <1>0, SizesAssumption DEF BufInv, Sane, OpenSection
    <2>4. /\ places'[s] = places[Whole] /\ places'[Whole] = places[Whole]
          /\ ends'[s] >= places'[s]
      BY <2>2, <2>3, PlaceOf, PlaceOfNext
    <2>5. Plain!Undisturbed(Sections \ {s})
      BY <2>2, OthersUndisturbed
    <2> QED
      BY <2>3, <2>4, <2>5 DEF Plain!Open
  <1>3. ASSUME NEW to \in Places, SeekSection(s, to) PROVE Plain!Seek(s)
    <2>1. section[s] \in Section /\ section' = [section EXCEPT ![s].off = to]
      BY <1>3, <1>0, OpenedSection DEF SeekSection
    <2>2. /\ section'[s].off = to /\ section'[s].limit = section[s].limit
          /\ \A o \in Sections \ {s} : section'[o] = section[o]
      BY <2>1, <1>0 DEF SectionInv, Section
    <2>3. UNCHANGED ends
      BY <2>2 DEF ends
    <2>4. places'[s] >= 0
      BY <2>2, PlaceOfNext, SizesAssumption DEF Places
    <2>5. Plain!Undisturbed(Sections \ {s})
      BY <2>2, OthersUndisturbed
    <2> QED
      BY <1>3, <2>3, <2>4, <2>5 DEF SeekSection, Plain!Seek
  <1>4. ASSUME NEW n \in ReadSizes, ReadSection(s, n)
        PROVE  Plain!Give(s) \/ Plain!Seek(Whole)
    <2>1. CASE UNCHANGED <<section, given>>
      <3>1. UNCHANGED ends /\ Plain!Undisturbed(Sections \ {Whole})
        BY <2>1, OthersUndisturbed DEF ends
      <3> QED
        BY <2>1, <3>1, <1>1 DEF Plain!Seek
    <2>2. ASSUME NEW b, NEW count \in Nat,
                 /\ Sane(b) /\ (~astray' => NextByte(b) = section[s].off)
                 /\ count <= section[s].limit - section[s].off
                 /\ given' = Given(s, b, count)
                 /\ section' = [section EXCEPT ![s].off = @ + count]
          PROVE  Plain!Give(s) \/ Plain!Seek(Whole)
      <3>1. section[s] \in Section
        BY <1>4, <1>0, OpenedSection DEF ReadSection
      <3>2. /\ section'[s].off = section[s].off + count
            /\ section'[s].limit = section[s].limit
            /\ \A o \in Sections \ {s} : section'[o] = section[o]
        BY <2>2, <3>1, <1>0 DEF SectionInv, Section
      <3>3. CASE count = 0
        <4>1. section'[s] = section[s]
          BY <2>2, <3>1, <3>3, <1>0 DEF SectionInv, Section
        <4>2. UNCHANGED ends /\ Plain!Undisturbed(Sections \ {Whole})
          BY <4>1, <3>2, OthersUndisturbed DEF ends
        <4>3. UNCHANGED given
          BY <2>2, <3>3 DEF Given
        <4> QED
          BY <4>2, <4>3, <1>1 DEF Plain!Seek
      <3>4. CASE count # 0
        <4>1. given' = [by |-> s, first |-> NextByte(b), count |-> count]
          BY <2>2, <3>4 DEF Given
        <4>2. /\ places'[s] = places[s] + given'.count
              /\ ~astray' => given'.first = places[s]
              /\ places'[s] <= ends[s] /\ ends'[s] = ends[s]
          BY <4>1, <3>1, <3>2, <2>2, PlaceOf, PlaceOfNext DEF Section
        <4>3. Plain!Undisturbed(Sections \ {s})
          BY <3>2, OthersUndisturbed
        <4> QED
          BY <4>1, <4>2, <4>3, <3>4 DEF Plain!Give
      <3> QED
        BY <3>3, <3>4
    <2> QED
      BY <2>1, <2>2, <1>4, SectionRead
  <1> QED
    BY <1>2, <1>3, <1>4

(* For every file and any sections of it that are open at once, a section is  *)
(* read as if nobody else read the file.                                     *)
THEOREM SectionsReadAlone == ReaderSpec => SectionsImplemented
  <1>1. ReaderInit => Plain!PlainInit
    BY WholeAssumption DEF ReaderInit, Plain!PlainInit, places, ends, Closed
  <1>2. ReaderInv /\ ReaderInv' /\ [ReaderNext]_readerVars
            => [Plain!PlainNext]_<<places, ends, given, ~astray>>
    <2> SUFFICES ASSUME ReaderInv, ReaderInv', [ReaderNext]_readerVars
                 PROVE  Plain!PlainNext \/ UNCHANGED <<places, ends, given, ~astray>>
      OBVIOUS
    <2>1. CASE UNCHANGED readerVars
      BY <2>1, SamePlaces DEF readerVars
    <2>2. CASE \/ \E n \in ReadSizes : ReadWhole(n)
               \/ \E to \in Places, fromEnd \in BOOLEAN : SeekWhole(to, fromEnd)
      BY <2>2, WholeImplements DEF Plain!PlainNext
    <2>3. ASSUME NEW s \in Sections,
                 \/ OpenSection(s)
                 \/ \E n \in ReadSizes : ReadSection(s, n)
                 \/ \E to \in Places : SeekSection(s, to)
          PROVE  Plain!PlainNext
      BY <2>3, SectionImplements DEF Plain!PlainNext
    <2> QED
      BY <2>1, <2>2, <2>3 DEF ReaderNext
  <1>3. Plain!PlainSpec <=>
            Plain!PlainInit /\ [][Plain!PlainNext]_<<places, ends, given, ~astray>>
    BY DEF Plain!PlainSpec, Plain!plain
  <1> QED
    BY <1>1, <1>2, <1>3, ReaderInvariant, PTL DEF ReaderSpec, SectionsImplemented

-----------------------------------------------------------------------------
(* TextFile: sums, and the last of several entries.                         *)

LEMMA Smallest ==
    ASSUME NEW S, S \subseteq Nat, S # {}
    PROVE  \E m \in S : \A n \in S : m <= n
<1>. DEFINE Less == {ss \in Nat \X Nat : ss[1] < ss[2]}
<1>1. IsWellFoundedOn(Less, Nat)
  BY NatLessThanWellFounded, Zenon DEF OpToRel
<1>2. \A m, n \in Nat : n < m => <<n, m>> \in Less
  OBVIOUS
<1>. HIDE DEF Less
<1>3. PICK m \in S : \A n \in S : ~(<<n, m>> \in Less)
  BY <1>1, WFMin
<1>4. ASSUME NEW n \in S PROVE m <= n
  <2>1. m \in Nat /\ n \in Nat
    OBVIOUS
  <2>2. ~(n < m)
    BY <1>2, <1>3, <2>1
  <2>. QED  BY <2>1, <2>2
<1>. QED  BY <1>4

LEMMA Largest ==
    ASSUME NEW i \in Nat, NEW S, S \subseteq 1 .. i - 1, S # {}
    PROVE  \E m \in S : \A n \in S : n <= m
<1>. DEFINE Down == {i - n : n \in S}
<1>1. Down \subseteq Nat /\ Down # {}
  OBVIOUS
<1>2. PICK d \in Down : \A e \in Down : d <= e
  BY <1>1, Smallest
<1>3. PICK m \in S : d = i - m
  OBVIOUS
<1>4. ASSUME NEW n \in S PROVE n <= m
  <2>1. d <= i - n
    BY <1>2
  <2>2. m \in Nat /\ n \in Nat
    OBVIOUS
  <2>. QED  BY <1>3, <2>1, <2>2
<1>. QED  BY <1>4

LEMMA SumsExist ==
    ASSUME NEW l \in Seq(Nat \ {0})
    PROVE  \E B : B = [k \in 1 .. Len(l) + 1 |-> IF k = 1 THEN 0 ELSE B[k - 1] + l[k - 1]]
<1>. DEFINE Sums(B, m) == B = [k \in 1 .. m + 1 |-> IF k = 1 THEN 0 ELSE B[k - 1] + l[k - 1]]
            Bad == {m \in Nat : ~\E B : Sums(B, m)}
<1>1. SUFFICES ASSUME Bad # {} PROVE FALSE
  BY LenProperties
<1>2. PICK m \in Bad : \A n \in Bad : m <= n
  <2>. HIDE DEF Sums
  <2>. QED  BY <1>1, Smallest
<1>3. m \in Nat /\ ~\E B : Sums(B, m)
  <2>. HIDE DEF Sums
  <2>. QED  BY <1>2
<1>4. m # 0
  <2>1. Sums([k \in 1 .. 1 |-> 0], 0)
    OBVIOUS
  <2>. HIDE DEF Sums
  <2>. QED  BY <1>3, <2>1
<1>5. m - 1 \in Nat /\ ~(m - 1 \in Bad)
  <2>. HIDE DEF Sums
  <2>. QED  BY <1>2, <1>3, <1>4
<1>6. PICK B : Sums(B, m - 1)
  <2>. HIDE DEF Sums
  <2>. QED  BY <1>5
<1>. DEFINE C == [k \in 1 .. m + 1 |-> IF k = 1 THEN 0 ELSE B[k - 1] + l[k - 1]]
<1>7. ASSUME NEW k \in 1 .. m PROVE C[k] = B[k]
  BY <1>3, <1>6
<1>8. ASSUME NEW k \in 1 .. m + 1, k # 1 PROVE B[k - 1] = C[k - 1]
  <2>1. k - 1 \in 1 .. m
    BY <1>3, <1>8
  <2>. HIDE DEF C
  <2>. QED  BY <1>7, <2>1
<1>9. Sums(C, m)
  <2>1. \A k \in 1 .. m + 1 : (IF k = 1 THEN 0 ELSE B[k - 1] + l[k - 1])
                                = (IF k = 1 THEN 0 ELSE C[k - 1] + l[k - 1])
    BY <1>8
  <2>. QED  BY <2>1
<1>. HIDE DEF Sums, C
<1>. QED  BY <1>3, <1>9

\* The sums are what the recursion says, and grow.
LEMMA WordsBeforeFacts ==
    ASSUME NEW l \in Seq(Nat \ {0})
    PROVE  /\ WordsBefore(l) \in [1 .. Len(l) + 1 -> Nat]
           /\ WordsBefore(l)[1] = 0
           /\ \A k \in 1 .. Len(l) : WordsBefore(l)[k + 1] = WordsBefore(l)[k] + l[k]
           /\ \A j, k \in 1 .. Len(l) + 1 : j < k => WordsBefore(l)[j] < WordsBefore(l)[k]
<1>. DEFINE B == WordsBefore(l)
            n == Len(l) + 1
<1>1. B = [k \in 1 .. n |-> IF k = 1 THEN 0 ELSE B[k - 1] + l[k - 1]]
  BY SumsExist DEF WordsBefore
<1>2. n \in Nat /\ n >= 1 /\ Len(l) \in Nat
  BY LenProperties
<1>3. \A k \in 1 .. Len(l) : l[k] \in Nat /\ l[k] > 0
  BY ElementOfSeq
<1>. HIDE DEF B
<1>4. B[1] = 0 /\ \A k \in 1 .. Len(l) : B[k + 1] = B[k] + l[k]
  <2>1. B[1] = 0
    BY <1>1, <1>2
  <2>2. ASSUME NEW k \in 1 .. Len(l) PROVE B[k + 1] = B[k] + l[k]
    <3>1. k + 1 \in 1 .. n /\ k + 1 # 1 /\ (k + 1) - 1 = k
      BY <1>2
    <3>. QED  BY <1>1, <3>1
  <2>. QED  BY <2>1, <2>2
<1>. DEFINE Good(k) == B[k] \in Nat /\ \A j \in 1 .. k - 1 : B[j] < B[k]
            Bad == {k \in 1 .. n : ~Good(k)}
<1>5. Bad = {}
  <2>1. SUFFICES ASSUME Bad # {} PROVE FALSE
    OBVIOUS
  <2>2. PICK k \in Bad : \A j \in Bad : k <= j
    <3>. Bad \subseteq Nat
      OBVIOUS
    <3>. QED  BY <2>1, Smallest
  <2>3. k # 1
    BY <1>4
  <2>4. k - 1 \in 1 .. Len(l) /\ k - 1 \in 1 .. n /\ k \in Nat
    BY <1>2, <2>3
  <2>5. Good(k - 1)
    BY <2>2, <2>4
  <2>6. B[k] = B[k - 1] + l[k - 1]
    BY <1>4, <2>4
  <2>7. B[k] \in Nat /\ B[k - 1] < B[k] /\ B[k - 1] \in Nat
    BY <1>3, <2>4, <2>5, <2>6
  <2>8. ASSUME NEW j \in 1 .. k - 1 PROVE B[j] < B[k]
    <3>1. CASE j = k - 1
      BY <2>7, <3>1
    <3>2. CASE j # k - 1
      <4>1. j \in 1 .. (k - 1) - 1 /\ j \in 1 .. n /\ B[j] < B[k - 1]
        BY <2>4, <2>5, <3>2
      <4>2. B[j] \in Nat
        <5>1. Good(j)
          BY <2>2, <2>4, <4>1
        <5>. QED  BY <5>1
      <4>. QED  BY <2>7, <4>1, <4>2
    <3>. QED  BY <3>1, <3>2
  <2>9. Good(k)
    BY <2>7, <2>8
  <2>. HIDE DEF Good
  <2>. QED  BY <2>2, <2>9
<1>6. \A k \in 1 .. n : B[k] \in Nat /\ \A j \in 1 .. k - 1 : B[j] < B[k]
  BY <1>5
<1>7. B \in [1 .. n -> Nat]
  BY <1>1, <1>6
<1>8. ASSUME NEW j \in 1 .. n, NEW k \in 1 .. n, j < k PROVE B[j] < B[k]
  <2>1. j \in 1 .. k - 1
    BY <1>2, <1>8
  <2>. QED  BY <1>6, <2>1
<1>9. \A j, k \in 1 .. n : j < k => B[j] < B[k]
  BY <1>8
<1>. QED  BY <1>4, <1>7, <1>9, Zenon DEF B

-----------------------------------------------------------------------------
(* TextFile: the texts that Write writes, and where.                        *)

\* A text that was met before was met last somewhere, and at one place only.
LEMMA MetSomewhere ==
    ASSUME NEW es, NEW k \in Nat, NEW j \in 1 .. k - 1, Alike(es, j, k)
    PROVE  \E m \in 1 .. k - 1 : MetAt(es, m, k)
<1>. DEFINE S == {m \in 1 .. k - 1 : Alike(es, m, k)}
<1>1. PICK m \in S : \A n \in S : n <= m
  <2>1. S \subseteq 1 .. k - 1 /\ S # {}
    OBVIOUS
  <2>. HIDE DEF S
  <2>. QED  BY <2>1, Largest
<1>2. ASSUME NEW n \in m + 1 .. k - 1 PROVE ~Alike(es, n, k)
  <2>1. n \in 1 .. k - 1 /\ ~(n <= m)
    OBVIOUS
  <2>. QED  BY <1>1, <2>1
<1>. QED  BY <1>2 DEF MetAt

LEMMA MetOnce ==
    ASSUME NEW es, NEW k \in Nat, NEW j, NEW m, MetAt(es, j, k), MetAt(es, m, k)
    PROVE  j = m
<1>1. j \in 1 .. k - 1 /\ m \in 1 .. k - 1 /\ Alike(es, j, k) /\ Alike(es, m, k)
  BY DEF MetAt
<1>2. ~(j < m)
  <2>1. SUFFICES ASSUME j < m PROVE FALSE
    OBVIOUS
  <2>2. m \in j + 1 .. k - 1
    BY <1>1, <2>1
  <2>. QED  BY <1>1, <2>2 DEF MetAt
<1>3. ~(m < j)
  <2>1. SUFFICES ASSUME m < j PROVE FALSE
    OBVIOUS
  <2>2. j \in m + 1 .. k - 1
    BY <1>1, <2>1
  <2>. QED  BY <1>1, <2>2 DEF MetAt
<1>. QED  BY <1>1, <1>2, <1>3

\* What is said of the entries before i depends on their texts and places only.
LEMMA FreshTransfers ==
    ASSUME NEW es, NEW fs, NEW i \in Nat,
           \A k \in 1 .. i - 1 : es[k].text = fs[k].text /\ es[k].status = fs[k].status
    PROVE  /\ \A j, k \in 1 .. i - 1 : Alike(es, j, k) <=> Alike(fs, j, k)
           /\ \A k \in 1 .. i - 1 : HasText(es, k) <=> HasText(fs, k)
           /\ \A j, k \in 1 .. i - 1 : MetAt(es, j, k) <=> MetAt(fs, j, k)
           /\ \A k \in 1 .. i - 1 : Fresh(es, k) <=> Fresh(fs, k)
<1>1. /\ \A j, k \in 1 .. i - 1 : Alike(es, j, k) <=> Alike(fs, j, k)
      /\ \A k \in 1 .. i - 1 : HasText(es, k) <=> HasText(fs, k)
  BY DEF Alike, HasText
<1>2. ASSUME NEW j \in 1 .. i - 1, NEW k \in 1 .. i - 1 PROVE MetAt(es, j, k) <=> MetAt(fs, j, k)
  <2>1. \A m \in j + 1 .. k - 1 : m \in 1 .. i - 1
    OBVIOUS
  <2>. QED  BY <1>1, <2>1 DEF MetAt
<1>3. ASSUME NEW k \in 1 .. i - 1 PROVE Fresh(es, k) <=> Fresh(fs, k)
  <2>1. \A j \in 1 .. k - 1 : j \in 1 .. i - 1
    OBVIOUS
  <2>. QED  BY <1>1, <1>2, <2>1 DEF Fresh
<1>. QED  BY <1>1, <1>2, <1>3

LEMMA SizeTransfers ==
    ASSUME NEW es, NEW fs, NEW at, NEW bt, NEW i \in Nat,
           \A k \in 1 .. i - 1 : es[k].text = fs[k].text /\ es[k].status = fs[k].status,
           \A k \in 1 .. i - 1 : at[k] = bt[k],
           NEW k \in 1 .. i, NEW size, SizeIs(es, at, k, size)
    PROVE  SizeIs(fs, bt, k, size)
<1>1. \A j \in 1 .. k - 1 : j \in 1 .. i - 1
  OBVIOUS
<1>2. \A j \in 1 .. k - 1 : Fresh(es, j) <=> Fresh(fs, j)
  BY <1>1, FreshTransfers
<1>3. CASE size = 0 /\ \A j \in 1 .. k - 1 : ~Fresh(es, j)
  BY <1>2, <1>3 DEF SizeIs
<1>4. ASSUME NEW j \in 1 .. k - 1, Fresh(es, j), \A m \in j + 1 .. k - 1 : ~Fresh(es, m),
             size = at[j] + Padded(Size(es[j].text, es[j].status))
      PROVE  SizeIs(fs, bt, k, size)
  <2>1. \A m \in j + 1 .. k - 1 : m \in 1 .. k - 1
    OBVIOUS
  <2>2. Fresh(fs, j) /\ \A m \in j + 1 .. k - 1 : ~Fresh(fs, m)
    BY <1>2, <1>4, <2>1
  <2>3. size = bt[j] + Padded(Size(fs[j].text, fs[j].status))
    BY <1>1, <1>4
  <2>. QED  BY <2>2, <2>3 DEF SizeIs
<1>. QED  BY <1>3, <1>4 DEF SizeIs

LEMMA LaidOutTransfers ==
    ASSUME NEW es, NEW fs, NEW at, NEW bt, NEW i \in Nat,
           \A k \in 1 .. i - 1 : es[k].text = fs[k].text /\ es[k].status = fs[k].status,
           \A k \in 1 .. i - 1 : at[k] = bt[k], LaidOut(es, at, i)
    PROVE  LaidOut(fs, bt, i)
<1>. SUFFICES ASSUME NEW k \in 1 .. i - 1, HasText(fs, k)
              PROVE  /\ bt[k] \in Nat
                     /\ Fresh(fs, k) => SizeIs(fs, bt, k, bt[k])
                     /\ ~Fresh(fs, k) => \A j \in 1 .. k - 1 : MetAt(fs, j, k) => bt[k] = bt[j]
  BY DEF LaidOut
<1>1. HasText(es, k) /\ (Fresh(es, k) <=> Fresh(fs, k)) /\ k \in 1 .. i
  <2>1. k \in 1 .. i
    OBVIOUS
  <2>2. /\ \A m \in 1 .. i - 1 : HasText(es, m) <=> HasText(fs, m)
        /\ \A m \in 1 .. i - 1 : Fresh(es, m) <=> Fresh(fs, m)
    BY FreshTransfers
  <2>. QED  BY <2>1, <2>2
<1>2. bt[k] \in Nat /\ bt[k] = at[k]
  BY <1>1 DEF LaidOut
<1>3. Fresh(fs, k) => SizeIs(fs, bt, k, bt[k])
  <2>1. SUFFICES ASSUME SizeIs(es, at, k, bt[k]) PROVE SizeIs(fs, bt, k, bt[k])
    BY <1>1, <1>2 DEF LaidOut
  <2>. QED  BY <1>1, <2>1, SizeTransfers
<1>4. ASSUME ~Fresh(fs, k), NEW j \in 1 .. k - 1, MetAt(fs, j, k) PROVE bt[k] = bt[j]
  <2>1. j \in 1 .. i - 1
    OBVIOUS
  <2>2. MetAt(es, j, k)
    BY <1>4, <2>1, FreshTransfers
  <2>3. at[k] = at[j]
    BY <1>1, <1>4, <2>2 DEF LaidOut
  <2>. QED  BY <1>2, <2>1, <2>3
<1>. QED  BY <1>2, <1>3, <1>4

LEMMA RememberedTransfers ==
    ASSUME NEW es, NEW fs, NEW at, NEW bt, NEW i \in Nat, NEW known,
           \A k \in 1 .. i - 1 : es[k].text = fs[k].text /\ es[k].status = fs[k].status,
           \A k \in 1 .. i - 1 : at[k] = bt[k], Remembered(es, at, i, known)
    PROVE  Remembered(fs, bt, i, known)
<1>1. /\ \A j, k \in 1 .. i - 1 : Alike(es, j, k) <=> Alike(fs, j, k)
      /\ \A k \in 1 .. i - 1 : HasText(es, k) <=> HasText(fs, k)
  BY FreshTransfers
<1>2. \A t \in DOMAIN known : \E j \in 1 .. i - 1 : HasText(fs, j) /\ fs[j].text = t
  BY <1>1 DEF Remembered
<1>3. ASSUME NEW j \in 1 .. i - 1, HasText(fs, j), \A m \in j + 1 .. i - 1 : ~Alike(fs, j, m)
      PROVE  /\ fs[j].text \in DOMAIN known
             /\ known[fs[j].text] = [status |-> fs[j].status, at |-> bt[j]]
  <2>1. \A m \in j + 1 .. i - 1 : m \in 1 .. i - 1
    OBVIOUS
  <2>2. HasText(es, j) /\ \A m \in j + 1 .. i - 1 : ~Alike(es, j, m)
    BY <1>1, <1>3, <2>1
  <2>. QED  BY <2>2 DEF Remembered
<1>. QED  BY <1>2, <1>3 DEF Remembered

\* The area for texts grows by those that are written.
LEMMA SizeGrows ==
    ASSUME NEW es, NEW at, NEW i \in Nat \ {0}, NEW size, Fresh(es, i), at[i] = size
    PROVE  SizeIs(es, at, i + 1, size + Padded(Size(es[i].text, es[i].status)))
<1>1. i \in 1 .. (i + 1) - 1 /\ \A m \in i + 1 .. (i + 1) - 1 : FALSE
  OBVIOUS
<1>. QED  BY <1>1 DEF SizeIs

LEMMA SizeStays ==
    ASSUME NEW es, NEW at, NEW i \in Nat \ {0}, NEW size, ~Fresh(es, i), SizeIs(es, at, i, size)
    PROVE  SizeIs(es, at, i + 1, size)
<1>1. CASE size = 0 /\ \A j \in 1 .. i - 1 : ~Fresh(es, j)
  <2>1. \A j \in 1 .. (i + 1) - 1 : j = i \/ j \in 1 .. i - 1
    OBVIOUS
  <2>. QED  BY <1>1, <2>1 DEF SizeIs
<1>2. ASSUME NEW j \in 1 .. i - 1, Fresh(es, j), \A m \in j + 1 .. i - 1 : ~Fresh(es, m),
             size = at[j] + Padded(Size(es[j].text, es[j].status))
      PROVE  SizeIs(es, at, i + 1, size)
  <2>1. j \in 1 .. (i + 1) - 1 /\ \A m \in j + 1 .. (i + 1) - 1 : m = i \/ m \in j + 1 .. i - 1
    OBVIOUS
  <2>. QED  BY <1>2, <2>1 DEF SizeIs
<1>. QED  BY <1>1, <1>2 DEF SizeIs

LEMMA SizeUnique ==
    ASSUME NEW es, NEW at, NEW i \in Nat, NEW a, NEW b, SizeIs(es, at, i, a), SizeIs(es, at, i, b)
    PROVE  a = b
<1>1. CASE \A j \in 1 .. i - 1 : ~Fresh(es, j)
  BY <1>1 DEF SizeIs
<1>2. CASE ~\A j \in 1 .. i - 1 : ~Fresh(es, j)
  <2>1. PICK j \in 1 .. i - 1 : /\ Fresh(es, j) /\ \A m \in j + 1 .. i - 1 : ~Fresh(es, m)
                                /\ a = at[j] + Padded(Size(es[j].text, es[j].status))
    BY <1>2 DEF SizeIs
  <2>2. PICK k \in 1 .. i - 1 : /\ Fresh(es, k) /\ \A m \in k + 1 .. i - 1 : ~Fresh(es, m)
                                /\ b = at[k] + Padded(Size(es[k].text, es[k].status))
    BY <1>2 DEF SizeIs
  <2>3. ~(j < k)
    <3>1. j < k => k \in j + 1 .. i - 1
      OBVIOUS
    <3>. QED  BY <2>1, <2>2, <3>1
  <2>4. ~(k < j)
    <3>1. k < j => j \in k + 1 .. i - 1
      OBVIOUS
    <3>. QED  BY <2>1, <2>2, <3>1
  <2>5. j = k
    BY <2>3, <2>4
  <2>. QED  BY <2>1, <2>2, <2>5
<1>. QED  BY <1>1, <1>2

\* Both loops' bookkeeping: a text can be reused just when it is not to be written,
\* and then where it was met last.
\* What the bookkeeping says of entry i: it is reused when its text was met last with its
\* status, and then it is where that entry is.
ReusedIfMet(es, at, i, known) ==
    /\ Fresh(es, i) <=> ~(es[i].text \in DOMAIN known /\ known[es[i].text].status = es[i].status)
    /\ ~Fresh(es, i) => \E j \in 1 .. i - 1 :
          MetAt(es, j, i) /\ es[j].status = es[i].status /\ known[es[i].text].at = at[j]

LEMMA ReusableIsMet ==
    ASSUME NEW es, NEW at, NEW i \in Nat, NEW known, Remembered(es, at, i, known), HasText(es, i)
    PROVE  ReusedIfMet(es, at, i, known)
<1>1. ASSUME NEW j \in 1 .. i - 1, MetAt(es, j, i)
      PROVE  /\ es[i].text \in DOMAIN known
             /\ known[es[i].text] = [status |-> es[j].status, at |-> at[j]]
  <2>1. HasText(es, j) /\ es[j].text = es[i].text /\ \A m \in j + 1 .. i - 1 : ~Alike(es, m, i)
    BY <1>1 DEF MetAt, Alike
  <2>2. \A m \in j + 1 .. i - 1 : ~Alike(es, j, m)
    BY <2>1 DEF Alike
  <2>. QED  BY <2>1, <2>2 DEF Remembered
<1>2. ASSUME NEW j \in 1 .. i - 1, MetAt(es, j, i)
      PROVE  /\ es[i].text \in DOMAIN known /\ known[es[i].text].status = es[j].status
             /\ known[es[i].text].at = at[j]
  <2>. DEFINE row == [status |-> es[j].status, at |-> at[j]]
  <2>1. row.status = es[j].status /\ row.at = at[j]
    OBVIOUS
  <2>2. es[i].text \in DOMAIN known /\ known[es[i].text] = row
    BY <1>1, <1>2
  <2>. HIDE DEF row
  <2>. QED  BY <2>1, <2>2
<1>3. ASSUME es[i].text \in DOMAIN known PROVE \E j \in 1 .. i - 1 : MetAt(es, j, i)
  <2>1. PICK j \in 1 .. i - 1 : HasText(es, j) /\ es[j].text = es[i].text
    BY <1>3 DEF Remembered
  <2>. QED  BY <2>1, MetSomewhere DEF Alike
<1>4. ASSUME ~Fresh(es, i)
      PROVE  /\ es[i].text \in DOMAIN known /\ known[es[i].text].status = es[i].status
             /\ \E j \in 1 .. i - 1 :
                   MetAt(es, j, i) /\ es[j].status = es[i].status /\ known[es[i].text].at = at[j]
  <2>1. PICK j \in 1 .. i - 1 : MetAt(es, j, i) /\ es[j].status = es[i].status
    BY <1>4 DEF Fresh
  <2>. QED  BY <1>2, <2>1
<1>5. ASSUME Fresh(es, i), es[i].text \in DOMAIN known PROVE known[es[i].text].status # es[i].status
  <2>1. PICK j \in 1 .. i - 1 : MetAt(es, j, i)
    BY <1>3, <1>5
  <2>. QED  BY <1>2, <1>5, <2>1 DEF Fresh
<1>. QED  BY <1>4, <1>5 DEF ReusedIfMet

LEMMA RememberedGrows ==
    ASSUME NEW es, NEW at, NEW i \in Nat \ {0}, NEW known, Remembered(es, at, i, known), HasText(es, i),
           NEW more, DOMAIN more = DOMAIN known \cup {es[i].text},
           more[es[i].text] = [status |-> es[i].status, at |-> at[i]],
           \A t \in DOMAIN known : t # es[i].text => more[t] = known[t]
    PROVE  Remembered(es, at, i + 1, more)
<1>1. ASSUME NEW t \in DOMAIN more PROVE \E j \in 1 .. (i + 1) - 1 : HasText(es, j) /\ es[j].text = t
  <2>1. CASE t = es[i].text
    <3>1. i \in 1 .. (i + 1) - 1
      OBVIOUS
    <3>. QED  BY <2>1, <3>1
  <2>2. CASE t # es[i].text
    <3>1. PICK j \in 1 .. i - 1 : HasText(es, j) /\ es[j].text = t
      BY <2>2 DEF Remembered
    <3>2. j \in 1 .. (i + 1) - 1
      OBVIOUS
    <3>. QED  BY <3>1, <3>2
  <2>. QED  BY <2>1, <2>2
<1>2. ASSUME NEW j \in 1 .. (i + 1) - 1, HasText(es, j),
             \A m \in j + 1 .. (i + 1) - 1 : ~Alike(es, j, m)
      PROVE  /\ es[j].text \in DOMAIN more
             /\ more[es[j].text] = [status |-> es[j].status, at |-> at[j]]
  <2>1. CASE j = i
    BY <2>1
  <2>2. CASE j # i
    <3>1. j \in 1 .. i - 1 /\ i \in j + 1 .. (i + 1) - 1
          /\ \A m \in j + 1 .. i - 1 : m \in j + 1 .. (i + 1) - 1
      BY <2>2
    <3>2. es[j].text # es[i].text
      BY <1>2, <3>1 DEF Alike
    <3>3. /\ es[j].text \in DOMAIN known
          /\ known[es[j].text] = [status |-> es[j].status, at |-> at[j]]
      BY <1>2, <3>1 DEF Remembered
    <3>. QED  BY <3>2, <3>3
  <2>. QED  BY <2>1, <2>2
<1>. QED  BY <1>1, <1>2 DEF Remembered

LEMMA RememberedStays ==
    ASSUME NEW es, NEW at, NEW i \in Nat \ {0}, NEW known, Remembered(es, at, i, known), ~HasText(es, i)
    PROVE  Remembered(es, at, i + 1, known)
<1>1. ASSUME NEW t \in DOMAIN known PROVE \E j \in 1 .. (i + 1) - 1 : HasText(es, j) /\ es[j].text = t
  <2>1. PICK j \in 1 .. i - 1 : HasText(es, j) /\ es[j].text = t
    BY DEF Remembered
  <2>2. j \in 1 .. (i + 1) - 1
    OBVIOUS
  <2>. QED  BY <2>1, <2>2
<1>2. ASSUME NEW j \in 1 .. (i + 1) - 1, HasText(es, j),
             \A m \in j + 1 .. (i + 1) - 1 : ~Alike(es, j, m)
      PROVE  /\ es[j].text \in DOMAIN known
             /\ known[es[j].text] = [status |-> es[j].status, at |-> at[j]]
  <2>1. j \in 1 .. i - 1 /\ \A m \in j + 1 .. i - 1 : m \in j + 1 .. (i + 1) - 1
    <3>1. j # i
      BY <1>2
    <3>. QED  BY <3>1
  <2>. QED  BY <1>2, <2>1 DEF Remembered
<1>. QED  BY <1>1, <1>2 DEF Remembered

-----------------------------------------------------------------------------
(* TextFile: types of what the steps make.                                  *)

LEMMA SizeFacts ==
    ASSUME NEW text \in TextValues, NEW status
    PROVE  /\ Size(text, status) \in Nat \ {0}
           /\ text.bytes \in Nat /\ text.runes \in Nat /\ text.astral \in BOOLEAN
<1>1. text.bytes \in Nat /\ text.runes \in Nat /\ text.astral \in BOOLEAN
  BY TextAssumption DEF IsText
<1>. QED  BY <1>1 DEF Size

\* The two loops' roundings are one.
LEMMA PaddedFacts ==
    ASSUME NEW size \in Nat
    PROVE  /\ Padded(size) \in Nat /\ Padded(size) >= size
           /\ \A a \in Nat : (a % 4) = 0 =>
                 /\ ((a + size + 3) \div 4) * 4 = a + Padded(size)
                 /\ ((a + Padded(size)) % 4) = 0
<1>1. size % 4 \in 0 .. 3
  OBVIOUS
<1>2. Padded(size) \in Nat /\ Padded(size) >= size
  BY <1>1 DEF Padded
<1>3. ASSUME NEW a \in Nat, (a % 4) = 0
      PROVE  /\ ((a + size + 3) \div 4) * 4 = a + Padded(size)
             /\ ((a + Padded(size)) % 4) = 0
  BY <1>1, <1>3 DEF Padded
<1>. QED  BY <1>2, <1>3

LEMMA EntryFacts ==
    ASSUME NEW es \in Seq(FileEntry), NEW k \in 1 .. Len(es)
    PROVE  /\ es[k] \in FileEntry
           /\ es[k].value \in Seq(Int) /\ Len(es[k].value) \in Nat \ {0}
           /\ es[k].value[1] \in Int /\ es[k].text \in TextValues /\ es[k].status \in Status
<1>1. es[k] \in FileEntry
  BY ElementOfSeq
<1>2. es[k].value \in Seq(Int) /\ es[k].value # <<>> /\ es[k].text \in TextValues /\ es[k].status \in Status
  BY <1>1 DEF FileEntry
<1>3. ASSUME NEW v \in Seq(Int), v # <<>> PROVE Len(v) \in Nat \ {0} /\ v[1] \in Int
  BY <1>3, EmptySeq, LenProperties
<1>. QED  BY <1>1, <1>2, <1>3

LEMMA LengthsFacts ==
    ASSUME NEW es \in Seq(FileEntry)
    PROVE  /\ Lengths(es) \in Seq(Nat \ {0}) /\ Len(Lengths(es)) = Len(es)
           /\ \A k \in 1 .. Len(es) : Lengths(es)[k] = Len(es[k].value)
<1>1. DOMAIN es = 1 .. Len(es) /\ Len(es) \in Nat
  BY LenProperties
<1>2. \A k \in 1 .. Len(es) : Len(es[k].value) \in Nat \ {0}
  BY EntryFacts
<1>. DEFINE len(k) == Len(es[k].value)
<1>3. Lengths(es) = [k \in 1 .. Len(es) |-> len(k)]
  BY <1>1 DEF Lengths
<1>4. \A k \in 1 .. Len(es) : len(k) \in Nat \ {0}
  BY <1>2
<1>. HIDE DEF len
<1>5. Lengths(es) \in [1 .. Len(es) -> Nat \ {0}]
  BY <1>3, <1>4
<1>6. \A k \in 1 .. Len(es) : Lengths(es)[k] = len(k)
  BY <1>3
<1>. QED  BY <1>1, <1>5, <1>6, LenProperties, IsASeq DEF len

\* An entry that points elsewhere is otherwise what it was.
LEMMA PointingFacts ==
    ASSUME NEW es \in Seq(FileEntry), NEW k \in 1 .. Len(es), NEW at \in Int
    PROVE  /\ Pointing(es, k, at) \in Seq(FileEntry)
           /\ Len(Pointing(es, k, at)) = Len(es)
           /\ \A m \in 1 .. Len(es) :
                 /\ Pointing(es, k, at)[m].text = es[m].text
                 /\ Pointing(es, k, at)[m].status = es[m].status
                 /\ m # k => Pointing(es, k, at)[m] = es[m]
                 /\ Len(Pointing(es, k, at)[m].value) = Len(es[m].value)
           /\ Pointing(es, k, at)[k].value[1] = at
           /\ \A w \in 2 .. Len(es[k].value) : Pointing(es, k, at)[k].value[w] = es[k].value[w]
           /\ Lengths(Pointing(es, k, at)) = Lengths(es)
<1>. DEFINE old == es[k]
            value == [old.value EXCEPT ![1] = at]
            new == [old EXCEPT !.value = value]
            ps == [es EXCEPT ![k] = new]
<1>1. Pointing(es, k, at) = ps
  BY Zenon DEF Pointing
<1>2. old \in FileEntry /\ Len(old.value) \in Nat \ {0} /\ old.value \in Seq(Int)
  BY EntryFacts
<1>3. /\ value \in Seq(Int) /\ Len(value) = Len(old.value) /\ value[1] = at
      /\ \A w \in 2 .. Len(old.value) : value[w] = old.value[w]
  <2>. DEFINE v == old.value
  <2>1. v \in Seq(Int) /\ 1 \in 1 .. Len(v) /\ Len(v) \in Nat
    BY <1>2
  <2>. HIDE DEF v
  <2>2. [v EXCEPT ![1] = at] \in Seq(Int) /\ Len([v EXCEPT ![1] = at]) = Len(v)
        /\ \A w \in 1 .. Len(v) : [v EXCEPT ![1] = at][w] = IF w = 1 THEN at ELSE v[w]
    BY <2>1, ExceptSeq
  <2>. QED  BY <2>1, <2>2 DEF v
<1>4. value # <<>>
  BY <1>2, <1>3, LenProperties
<1>. HIDE DEF value
<1>5. new \in FileEntry /\ new.value = value /\ new.text = old.text /\ new.status = old.status
  BY <1>2, <1>3, <1>4 DEF FileEntry
<1>. HIDE DEF new
<1>6. /\ ps \in Seq(FileEntry) /\ Len(ps) = Len(es)
      /\ \A m \in 1 .. Len(es) : ps[m] = IF m = k THEN new ELSE es[m]
  BY <1>5, ExceptSeq
<1>. HIDE DEF ps
<1>7. ASSUME NEW m \in 1 .. Len(es)
      PROVE  /\ ps[m].text = es[m].text /\ ps[m].status = es[m].status
             /\ m # k => ps[m] = es[m]
             /\ Len(ps[m].value) = Len(es[m].value)
  <2>1. CASE m = k
    BY <1>3, <1>5, <1>6, <2>1
  <2>2. CASE m # k
    BY <1>6, <2>2
  <2>. QED  BY <2>1, <2>2
<1>8. ps[k] = new
  BY <1>6
<1>9. /\ ps[k].value[1] = at
      /\ \A w \in 2 .. Len(es[k].value) : ps[k].value[w] = es[k].value[w]
  BY <1>3, <1>5, <1>8
<1>10. Lengths(ps) = Lengths(es)
  <2>1. DOMAIN ps = 1 .. Len(es) /\ DOMAIN es = 1 .. Len(es)
    BY <1>6, LenProperties
  <2>. DEFINE len(m) == Len(es[m].value)
              plen(m) == Len(ps[m].value)
  <2>2. \A m \in 1 .. Len(es) : plen(m) = len(m)
    BY <1>7
  <2>3. Lengths(ps) = [m \in 1 .. Len(es) |-> plen(m)] /\ Lengths(es) = [m \in 1 .. Len(es) |-> len(m)]
    BY <2>1 DEF Lengths
  <2>. HIDE DEF len, plen
  <2>. QED  BY <2>2, <2>3
<1>. QED  BY <1>1, <1>6, <1>7, <1>9, <1>10

LEMMA ContentFacts ==
    ASSUME NEW f \in FileContent
    PROVE  /\ f.rel0 \in Int /\ f.words \in Seq(Int) /\ f.nof0 \in Seq(Nat)
           /\ f.size \in Nat /\ f.announced \in Nat
           /\ \A s \in f.strings : s.at \in Int /\ s.text \in TextValues /\ s.status \in Status
  BY DEF FileContent

LEMMA WordsAdded ==
    ASSUME NEW f \in FileContent, NEW words \in Seq(Int), NEW nof0 \in Seq(Nat), NEW g,
           g = [f EXCEPT !.words = words, !.nof0 = nof0]
    PROVE  /\ g \in FileContent /\ g.words = words /\ g.nof0 = nof0
           /\ g.rel0 = f.rel0 /\ g.size = f.size /\ g.announced = f.announced /\ g.strings = f.strings
  BY DEF FileContent

LEMMA StringsAdded ==
    ASSUME NEW f \in FileContent, NEW size \in Nat,
           NEW strings \in SUBSET [at : Int, text : TextValues, status : Status], NEW g,
           g = [f EXCEPT !.strings = strings, !.size = size]
    PROVE  /\ g \in FileContent /\ g.words = f.words /\ g.nof0 = f.nof0
           /\ g.rel0 = f.rel0 /\ g.size = size /\ g.announced = f.announced /\ g.strings = strings
  BY DEF FileContent

-----------------------------------------------------------------------------
(* TextFile: what parse makes of marks and pointers depends on them only.   *)

LEMMA ParsedTransfers ==
    ASSUME NEW es, NEW fs, NEW i \in Nat,
           \A k \in 1 .. i - 1 : /\ es[k].status = fs[k].status
                                 /\ ~HasText(es, k) => es[k].value = fs[k].value
    PROVE  /\ \A k \in 1 .. i : PairModeAt(es, k) <=> PairModeAt(fs, k)
           /\ \A k \in 1 .. i : \A j : Waiting(es, j, k) <=> Waiting(fs, j, k)
           /\ \A k \in 1 .. i : \A ps : Paired(es, ps, k) => Paired(fs, ps, k)
<1>1. /\ \A k \in 1 .. i - 1 : HasText(es, k) <=> HasText(fs, k)
      /\ \A k \in 1 .. i - 1 : \A mark : IsMark(es, k, mark) <=> IsMark(fs, k, mark)
  BY DEF HasText, IsMark
<1>2. ASSUME NEW k \in 1 .. i PROVE PairModeAt(es, k) <=> PairModeAt(fs, k)
  <2>1. \A j \in 1 .. k - 1 : j \in 1 .. i - 1 /\ \A m \in j + 1 .. k - 1 : m \in 1 .. i - 1
    OBVIOUS
  <2>. QED  BY <1>1, <2>1 DEF PairModeAt
<1>3. ASSUME NEW k \in 1 .. i, NEW j PROVE Waiting(es, j, k) <=> Waiting(fs, j, k)
  <2>1. SUFFICES ASSUME j \in 1 .. k - 1 PROVE Waiting(es, j, k) <=> Waiting(fs, j, k)
    BY DEF Waiting
  <2>2. j \in 1 .. i - 1 /\ j \in 1 .. i /\ \A m \in j + 1 .. k - 1 : m \in 1 .. i - 1
    BY <2>1
  <2>3. PairModeAt(es, j) <=> PairModeAt(fs, j)
    BY <1>2, <2>2
  <2>4. es[j].status = fs[j].status
    BY <2>2
  <2>. QED  BY <1>1, <2>2, <2>3, <2>4 DEF Waiting
<1>4. ASSUME NEW k \in 1 .. i, NEW ps, Paired(es, ps, k) PROVE Paired(fs, ps, k)
  <2>1. \A m \in 1 .. k - 1 : m \in 1 .. i - 1 /\ m \in 1 .. i
    OBVIOUS
  <2>2. ASSUME NEW q \in DOMAIN ps
        PROVE  /\ ps[q].stringIndex \in 1 .. k - 1 /\ fs[ps[q].stringIndex].status = "String"
               /\ Waiting(fs, ps[q].identifierIndex, ps[q].stringIndex)
               /\ \A r \in DOMAIN ps : q < r => ps[q].stringIndex < ps[r].stringIndex
    <3>1. /\ ps[q].stringIndex \in 1 .. k - 1 /\ es[ps[q].stringIndex].status = "String"
          /\ Waiting(es, ps[q].identifierIndex, ps[q].stringIndex)
          /\ \A r \in DOMAIN ps : q < r => ps[q].stringIndex < ps[r].stringIndex
      BY <1>4 DEF Paired
    <3>2. ps[q].stringIndex \in 1 .. i - 1 /\ ps[q].stringIndex \in 1 .. i
      BY <2>1, <3>1
    <3>3. Waiting(fs, ps[q].identifierIndex, ps[q].stringIndex)
      BY <1>3, <3>1, <3>2
    <3>4. fs[ps[q].stringIndex].status = "String"
      BY <3>1, <3>2
    <3>. QED  BY <3>1, <3>3, <3>4
  <2>3. ASSUME NEW m \in 1 .. k - 1, fs[m].status = "String" PROVE \E q \in DOMAIN ps : ps[q].stringIndex = m
    BY <1>4, <2>1, <2>3 DEF Paired
  <2>. QED  BY <2>2, <2>3 DEF Paired
<1>. QED  BY <1>2, <1>3, <1>4

LEMMA ParseTransfers ==
    ASSUME NEW es, NEW fs, NEW i \in Nat,
           \A k \in 1 .. i - 1 : /\ es[k].status = fs[k].status
                                 /\ ~HasText(es, k) => es[k].value = fs[k].value /\ es[k].text = fs[k].text
                                 /\ HasText(es, k) => Len(es[k].value) = Len(fs[k].value),
           Parsed(es, i)
    PROVE  Parsed(fs, i)
<1>1. \A k \in 1 .. i - 1 : HasText(es, k) <=> HasText(fs, k)
  BY DEF HasText
<1>2. \A k \in 1 .. i : \A j : Waiting(es, j, k) <=> Waiting(fs, j, k)
  BY ParsedTransfers
<1>. SUFFICES ASSUME NEW k \in 1 .. i - 1
              PROVE  /\ HasText(fs, k) => Len(fs[k].value) = 1
                     /\ ~HasText(fs, k) => fs[k].text = NoText
                          /\ (Len(fs[k].value) # 1 \/ fs[k].value[1] = StartMark)
                     /\ fs[k].status = "String" => \E j \in 1 .. k - 1 : Waiting(fs, j, k)
                     /\ fs[k].status = "Identifier" => \A j \in 1 .. k - 1 : ~Waiting(fs, j, k)
  BY Zenon DEF Parsed
<1>3. k \in 1 .. i
  OBVIOUS
<1>4. /\ HasText(es, k) => Len(es[k].value) = 1
      /\ ~HasText(es, k) => es[k].text = NoText
           /\ (Len(es[k].value) # 1 \/ es[k].value[1] = StartMark)
      /\ es[k].status = "String" => \E j \in 1 .. k - 1 : Waiting(es, j, k)
      /\ es[k].status = "Identifier" => \A j \in 1 .. k - 1 : ~Waiting(es, j, k)
  BY Zenon DEF Parsed
<1>5. HasText(fs, k) => Len(fs[k].value) = 1
  BY <1>1, <1>4
<1>6. ~HasText(fs, k) => fs[k].text = NoText /\ (Len(fs[k].value) # 1 \/ fs[k].value[1] = StartMark)
  BY <1>1, <1>4
<1>. QED  BY <1>2, <1>3, <1>4, <1>5, <1>6

LEMMA BeforeFacts ==
    ASSUME NEW es \in Seq(FileEntry), NEW B, B = WordsBefore(Lengths(es))
    PROVE  /\ B \in [1 .. Len(es) + 1 -> Nat] /\ B[1] = 0
           /\ \A k \in 1 .. Len(es) : B[k + 1] = B[k] + Len(es[k].value)
           /\ \A j, k \in 1 .. Len(es) + 1 : j < k => B[j] < B[k]
<1>1. /\ Lengths(es) \in Seq(Nat \ {0}) /\ Len(Lengths(es)) = Len(es)
      /\ \A k \in 1 .. Len(es) : Lengths(es)[k] = Len(es[k].value)
  BY LengthsFacts
<1>2. /\ B \in [1 .. Len(Lengths(es)) + 1 -> Nat] /\ B[1] = 0
      /\ \A k \in 1 .. Len(Lengths(es)) : B[k + 1] = B[k] + Lengths(es)[k]
      /\ \A j, k \in 1 .. Len(Lengths(es)) + 1 : j < k => B[j] < B[k]
  BY <1>1, WordsBeforeFacts
<1>. QED  BY <1>1, <1>2

-----------------------------------------------------------------------------
(* TextFile: each action keeps the invariant.                               *)

LEMMA TextInitInv == TextInit => TextInv
<1>. SUFFICES ASSUME TextInit PROVE TextInv
  OBVIOUS
<1>1. /\ phase = "Parse" /\ index = 1 /\ entries = <<>> /\ pairs = <<>> /\ reuse = <<>>
      /\ entrySize = 0 /\ stringSize = 0 /\ pairMode = FALSE /\ pair = 0 /\ intended = NoFile
  BY DEF TextInit
<1>2. IsFile(file)
  BY FilesAssumption DEF TextInit
<1>3. file \in FileContent /\ Len(file.nof0) \in Nat \ {0}
  <2>1. file \in FileContent /\ file.nof0 # <<>> /\ file.nof0 \in Seq(Nat)
    BY <1>2, ContentFacts DEF IsFile
  <2>2. \A v \in Seq(Nat) : v # <<>> => Len(v) \in Nat \ {0}
    BY EmptySeq, LenProperties
  <2>. QED  BY <2>1, <2>2
<1>4. Len(entries) = 0 /\ DOMAIN entries = {} /\ DOMAIN pairs = {} /\ DOMAIN reuse = {}
  BY <1>1
<1>5. TextTypeOK
  <2>1. entries \in Seq(FileEntry) /\ pairs \in Seq(FilePair)
    BY <1>1, EmptySeq
  <2>2. entrySize \in Nat /\ stringSize \in Nat /\ (stringSize % 4) = 0 /\ index \in Nat \ {0}
    BY <1>1
  <2>3. pair \in 0 .. Len(entries) /\ index <= Len(file.nof0) /\ Len(entries) = index - 1
    BY <1>1, <1>3, <1>4
  <2>4. pairMode \in BOOLEAN /\ phase \in Loops /\ phase = "Parse"
    BY <1>1 DEF Loops
  <2>. QED  BY <1>3, <1>4, <2>1, <2>2, <2>3, <2>4 DEF TextTypeOK
<1>6. Laid /\ ValuesWritten /\ StringsWritten
  BY <1>1 DEF Laid, ValuesWritten, StringsWritten, Writing
<1>7. Parsing
  <2>1. Parsed(entries, Len(entries) + 1) /\ Paired(entries, pairs, Len(entries) + 1)
    BY <1>4 DEF Parsed, Paired
  <2>2. ~PairModeAt(entries, index)
    BY <1>1 DEF PairModeAt
  <2>3. pairMode = PairModeAt(entries, index)
    BY <1>1, <2>2, Zenon DEF PairModeAt
  <2>. QED  BY <1>1, <1>2, <1>4, <2>1, <2>3 DEF Parsing
<1>8. Intended
  BY <1>1 DEF Intended, Writing
<1>. QED  BY <1>5, <1>6, <1>7, <1>8 DEF TextInv

\* What is parsed is so after an edit of a string's text.
LEMMA EditKeeps == ASSUME TextInv, Edit PROVE TextInv'
<1>1. PICK q \in DOMAIN pairs, t \in Translations :
         entries' = [entries EXCEPT ![pairs[q].stringIndex].text = t]
  BY DEF Edit
<1>2. /\ phase = "Loaded" /\ intended' = NoFile
      /\ UNCHANGED <<phase, index, pairs, reuse, entrySize, stringSize, file, pairMode, pair>>
  BY DEF Edit
<1>. DEFINE i == pairs[q].stringIndex
            old == entries[i]
            new == [old EXCEPT !.text = t]
<1>3. entries \in Seq(FileEntry) /\ Len(entries) \in Nat
  BY LenProperties DEF TextInv, TextTypeOK
<1>4. i \in 1 .. Len(entries) /\ entries[i].status = "String"
  <2>1. Paired(entries, pairs, Len(entries) + 1)
    BY DEF TextInv, Parsing
  <2>. QED  BY <1>3, <2>1 DEF Paired
<1>5. entries' = [entries EXCEPT ![i] = new]
  BY <1>1
<1>6. new \in FileEntry /\ new.value = old.value /\ new.status = old.status
  <2>1. old \in FileEntry
    BY <1>3, <1>4, EntryFacts
  <2>2. t \in TextValues
    BY DEF TextValues
  <2>. QED  BY <2>1, <2>2 DEF FileEntry
<1>. HIDE DEF new
<1>7. /\ entries' \in Seq(FileEntry) /\ Len(entries') = Len(entries)
      /\ \A k \in 1 .. Len(entries) : entries'[k] = IF k = i THEN new ELSE entries[k]
  <2>. HIDE DEF i
  <2>. QED  BY <1>3, <1>4, <1>5, <1>6, ExceptSeq
<1>8. ASSUME NEW k \in 1 .. Len(entries)
      PROVE  /\ entries[k].status = entries'[k].status /\ entries[k].value = entries'[k].value
             /\ ~HasText(entries, k) => entries[k] = entries'[k]
  BY <1>4, <1>6, <1>7 DEF HasText
<1>9. TextTypeOK'
  BY <1>2, <1>7 DEF TextInv, TextTypeOK, Loops
<1>10. Laid' /\ ValuesWritten' /\ StringsWritten'
  BY <1>2 DEF Laid, ValuesWritten, StringsWritten, Writing
<1>11. Parsing'
  <2>. DEFINE n == Len(entries) + 1
  <2>1. n \in Nat /\ \A k \in 1 .. n - 1 : k \in 1 .. Len(entries)
    BY <1>3
  <2>2. Parsed(entries, n) /\ Paired(entries, pairs, n)
    BY DEF TextInv, Parsing
  <2>3. \A k \in 1 .. n - 1 :
           /\ entries[k].status = entries'[k].status
           /\ ~HasText(entries, k) => entries[k].value = entries'[k].value /\ entries[k].text = entries'[k].text
           /\ HasText(entries, k) => Len(entries[k].value) = Len(entries'[k].value)
    BY <1>8, <2>1
  <2>4. Parsed(entries', n)
    <3>. HIDE DEF n
    <3>. QED  BY <2>1, <2>2, <2>3, ParseTransfers
  <2>5. Paired(entries', pairs, n)
    <3>1. \A k \in 1 .. n : \A ps : Paired(entries, ps, k) => Paired(entries', ps, k)
      <4>. HIDE DEF n
      <4>. QED  BY <2>1, <2>3, ParsedTransfers
    <3>2. n \in 1 .. n
      BY <2>1
    <3>. QED  BY <2>2, <3>1, <3>2
  <2>6. entries # <<>> /\ Len(entries[Len(entries)].value) = 2
    BY <1>2 DEF TextInv, Parsing
  <2>7. Len(entries) \in 1 .. Len(entries)
    BY <1>3, <2>6, EmptySeq
  <2>8. entries' # <<>> /\ Len(entries'[Len(entries')].value) = 2
    BY <1>3, <1>7, <1>8, <2>6, <2>7, EmptySeq
  <2>9. (Parsed(entries, Len(entries) + 1) /\ Paired(entries, pairs, Len(entries) + 1))'
    BY <1>2, <1>7, <2>4, <2>5
  <2>. QED  BY <1>2, <2>8, <2>9 DEF Parsing
<1>12. Intended'
  BY <1>2 DEF Intended, Writing
<1>. QED  BY <1>9, <1>10, <1>11, <1>12 DEF TextInv

\* What the loops of Write may do to the entries: texts point elsewhere.
Repointed(es, fs) ==
    /\ fs \in Seq(FileEntry) /\ Len(fs) = Len(es)
    /\ \A k \in 1 .. Len(es) :
          /\ fs[k].text = es[k].text /\ fs[k].status = es[k].status
          /\ Len(fs[k].value) = Len(es[k].value)
          /\ ~HasText(es, k) => fs[k] = es[k]

LEMMA RepointedFacts ==
    ASSUME NEW es \in Seq(FileEntry)
    PROVE  /\ Repointed(es, es)
           /\ \A k \in 1 .. Len(es), at \in Int : HasText(es, k) => Repointed(es, Pointing(es, k, at))
<1>1. Repointed(es, es)
  BY DEF Repointed
<1>2. ASSUME NEW k \in 1 .. Len(es), NEW at \in Int, HasText(es, k)
      PROVE  Repointed(es, Pointing(es, k, at))
  <2>1. /\ Pointing(es, k, at) \in Seq(FileEntry)
        /\ Len(Pointing(es, k, at)) = Len(es)
        /\ \A m \in 1 .. Len(es) :
                 /\ Pointing(es, k, at)[m].text = es[m].text
                 /\ Pointing(es, k, at)[m].status = es[m].status
                 /\ m # k => Pointing(es, k, at)[m] = es[m]
                 /\ Len(Pointing(es, k, at)[m].value) = Len(es[m].value)
    BY PointingFacts
  <2>. QED  BY <1>2, <2>1 DEF Repointed
<1>. QED  BY <1>1, <1>2

LEMMA RepointedLengths ==
    ASSUME NEW es \in Seq(FileEntry), NEW fs, Repointed(es, fs)
    PROVE  Lengths(fs) = Lengths(es)
<1>1. DOMAIN fs = 1 .. Len(es) /\ DOMAIN es = 1 .. Len(es)
  BY LenProperties DEF Repointed
<1>. DEFINE len(m) == Len(es[m].value)
            plen(m) == Len(fs[m].value)
<1>2. \A m \in 1 .. Len(es) : plen(m) = len(m)
  BY DEF Repointed
<1>3. Lengths(fs) = [m \in 1 .. Len(es) |-> plen(m)] /\ Lengths(es) = [m \in 1 .. Len(es) |-> len(m)]
  BY <1>1 DEF Lengths
<1>. HIDE DEF len, plen
<1>. QED  BY <1>2, <1>3

\* So what was parsed, and what is to be written, stays.
LEMMA ParsingStays ==
    ASSUME TextInv, phase # "Parse", phase' \notin {"Parse", "Loaded"}, pairs' = pairs,
           Repointed(entries, entries')
    PROVE  Parsing'
<1>. DEFINE n == Len(entries) + 1
<1>1. /\ entries \in Seq(FileEntry) /\ Len(entries) \in Nat /\ n \in Nat /\ n \in 1 .. n
      /\ Len(entries') = Len(entries) /\ entries' \in Seq(FileEntry)
  BY LenProperties DEF TextInv, TextTypeOK, Repointed
<1>2. Parsed(entries, n) /\ Paired(entries, pairs, n)
  BY DEF TextInv, Parsing
<1>3. \A k \in 1 .. n - 1 :
         /\ entries[k].status = entries'[k].status
         /\ ~HasText(entries, k) => entries[k].value = entries'[k].value /\ entries[k].text = entries'[k].text
         /\ HasText(entries, k) => Len(entries[k].value) = Len(entries'[k].value)
  BY <1>1 DEF Repointed
<1>4. Parsed(entries', n)
  <2>. HIDE DEF n
  <2>. QED  BY <1>1, <1>2, <1>3, ParseTransfers
<1>5. \A k \in 1 .. n : \A ps : Paired(entries, ps, k) => Paired(entries', ps, k)
  <2>. HIDE DEF n
  <2>. QED  BY <1>1, <1>3, ParsedTransfers
<1>6. Paired(entries', pairs, n)
  BY <1>1, <1>2, <1>5
<1>7. entries # <<>> /\ Len(entries[Len(entries)].value) = 2
  BY DEF TextInv, Parsing
<1>8. Len(entries) \in 1 .. Len(entries)
  BY <1>1, <1>7, EmptySeq
<1>9. entries' # <<>> /\ Len(entries'[Len(entries')].value) = 2
  BY <1>1, <1>7, <1>8, EmptySeq DEF Repointed
<1>10. (Parsed(entries, Len(entries) + 1) /\ Paired(entries, pairs, Len(entries) + 1))'
  BY <1>1, <1>4, <1>6
<1>. QED  BY <1>9, <1>10 DEF Parsing

LEMMA IntendedStays ==
    ASSUME TextInv, phase \in Writing, phase' \in Writing, pairs' = pairs, intended' = intended,
           Repointed(entries, entries')
    PROVE  Intended'
<1>1. /\ entries \in Seq(FileEntry) /\ Len(entries) \in Nat /\ DOMAIN entries = 1 .. Len(entries)
      /\ Len(entries') = Len(entries) /\ DOMAIN entries' = 1 .. Len(entries)
  BY LenProperties DEF TextInv, TextTypeOK, Repointed
<1>2. /\ intended.pairs = pairs /\ Len(intended.entries) = Len(entries)
      /\ Lengths(intended.entries) = Lengths(entries)
      /\ ReadsAs(intended.entries, Len(entries) + 1)
      /\ \A k \in DOMAIN entries : entries[k].text = intended.entries[k].text
  BY DEF TextInv, Intended
<1>3. Lengths(entries') = Lengths(entries)
  BY <1>1, RepointedLengths
<1>4. ReadsAs(intended.entries, Len(entries) + 1)'
  <2>. SUFFICES ASSUME NEW k \in 1 .. (Len(entries) + 1) - 1
                PROVE  /\ entries'[k].status = intended.entries[k].status
                       /\ ~HasText(intended.entries, k) => entries'[k].value = intended.entries[k].value
                       /\ Lossless(intended.entries[k].text, intended.entries[k].status) =>
                             entries'[k].text = intended.entries[k].text
    BY <1>1 DEF ReadsAs
  <2>1. k \in 1 .. Len(entries)
    BY <1>1
  <2>2. /\ entries[k].status = intended.entries[k].status
        /\ ~HasText(intended.entries, k) => entries[k].value = intended.entries[k].value
        /\ Lossless(intended.entries[k].text, intended.entries[k].status) =>
              entries[k].text = intended.entries[k].text
    BY <1>2 DEF ReadsAs
  <2>3. entries'[k].status = entries[k].status /\ entries'[k].text = entries[k].text
    BY <2>1 DEF Repointed
  <2>4. ~HasText(intended.entries, k) => entries'[k] = entries[k]
    BY <2>1, <2>2 DEF HasText, Repointed
  <2>. QED  BY <2>2, <2>3, <2>4
<1>5. \A k \in DOMAIN entries' : entries'[k].text = intended.entries[k].text
  BY <1>1, <1>2 DEF Repointed
<1>6. phase' \notin {"Parse", "Loaded"}
  BY DEF Writing
<1>. QED  BY <1>1, <1>2, <1>3, <1>4, <1>5, <1>6 DEF Intended, TextInv

\* The loops advance by one entry.
LEMMA AdvanceFacts ==
    ASSUME NEW loop, NEW next, NEW n \in Nat, phase = loop, next # loop, Len(entries) = n, Len(entries') = n,
           index \in 1 .. n, Advance(n, next)
    PROVE  /\ Reached(loop) = index /\ Reached(loop)' = index + 1
           /\ \/ index < n /\ phase' = loop /\ index' = index + 1
              \/ index = n /\ phase' = next /\ index' = 1
<1>1. CASE index < n
  BY <1>1 DEF Advance, Reached
<1>2. CASE ~(index < n)
  BY <1>2 DEF Advance, Reached
<1>. QED  BY <1>1, <1>2

\* What Write sees before it begins.
LEMMA WriteKeeps == ASSUME TextInv, Write PROVE TextInv'
<1>1. /\ phase = "Loaded" /\ phase' = "Layout" /\ index' = 1 /\ reuse' = <<>>
      /\ entrySize' = 0 /\ stringSize' = 0 /\ intended' = [entries |-> entries, pairs |-> pairs]
      /\ UNCHANGED <<entries, pairs, file, pairMode, pair>>
  BY DEF Write
<1>2. /\ entries \in Seq(FileEntry) /\ Len(entries) \in Nat /\ index <= Len(entries) /\ index = 1
      /\ pairs \in Seq(FilePair)
  BY <1>1, LenProperties DEF TextInv, TextTypeOK, Loops
<1>3. DOMAIN reuse' = {}
  BY <1>1
<1>4. TextTypeOK'
  <2>1. entrySize' \in Nat /\ stringSize' \in Nat /\ (stringSize' % 4) = 0 /\ index' \in Nat \ {0}
    BY <1>1
  <2>. QED  BY <1>1, <1>2, <1>3, <2>1 DEF TextInv, TextTypeOK, Loops
<1>5. Laid'
  <2>1. WordsBefore(Lengths(entries))[1] = 0
    BY <1>2, BeforeFacts
  <2>2. (Reached("Layout") = 1)'
    BY <1>1 DEF Reached
  <2>3. \A at : SizeIs(entries, at, 1, 0) /\ LaidOut(entries, at, 1) /\ Remembered(entries, at, 1, <<>>)
    BY DEF SizeIs, LaidOut, Remembered
  <2>4. Before'[1] = 0
    BY <1>1, <2>1 DEF Before
  <2>5. SizeIs(entries', Offsets', 1, 0) /\ LaidOut(entries', Offsets', 1)
        /\ Remembered(entries', Offsets', 1, <<>>)
    BY <1>1, <2>3
  <2>. QED  BY <1>1, <2>2, <2>4, <2>5 DEF Laid
<1>6. ValuesWritten' /\ StringsWritten'
  BY <1>1 DEF ValuesWritten, StringsWritten
<1>7. Repointed(entries, entries')
  BY <1>1, <1>2, RepointedFacts
<1>8. Parsing'
  BY <1>1, <1>7, ParsingStays
<1>9. Intended'
  <2>1. intended'.entries = entries /\ intended'.pairs = pairs
    BY <1>1
  <2>2. Parsed(entries, Len(entries) + 1) /\ Paired(entries, pairs, Len(entries) + 1)
    BY DEF TextInv, Parsing
  <2>3. ReadsAs(entries, Len(entries) + 1)
    BY DEF ReadsAs
  <2>4. ReadsAs(entries, Len(entries) + 1)'
    BY <1>1, <2>3 DEF ReadsAs
  <2>. QED  BY <1>1, <1>2, <2>1, <2>2, <2>4 DEF Intended
<1>. QED  BY <1>4, <1>5, <1>6, <1>8, <1>9 DEF TextInv

LEMMA LaidOutGrows ==
    ASSUME NEW es, NEW at, NEW i \in Nat \ {0}, LaidOut(es, at, i),
           HasText(es, i) =>
              /\ at[i] \in Nat
              /\ Fresh(es, i) => SizeIs(es, at, i, at[i])
              /\ ~Fresh(es, i) => \A j \in 1 .. i - 1 : MetAt(es, j, i) => at[i] = at[j]
    PROVE  LaidOut(es, at, i + 1)
<1>1. \A k \in 1 .. (i + 1) - 1 : k = i \/ k \in 1 .. i - 1
  OBVIOUS
<1>. QED  BY <1>1 DEF LaidOut

LEMMA RememberFacts ==
    ASSUME NEW entry, NEW at, Remember(entry, at)
    PROVE  /\ DOMAIN reuse' = DOMAIN reuse \cup {entry.text}
           /\ reuse'[entry.text] = [status |-> entry.status, at |-> at]
           /\ \A t \in DOMAIN reuse : t # entry.text => reuse'[t] = reuse[t]
  BY DEF Remember

LEMMA RememberTyped ==
    ASSUME NEW entry, NEW at \in Nat, Remember(entry, at), entry.status \in Status \ {"None"},
           \A t \in DOMAIN reuse : reuse[t] \in [status : Status \ {"None"}, at : Nat]
    PROVE  \A t \in DOMAIN reuse' : reuse'[t] \in [status : Status \ {"None"}, at : Nat]
<1>1. [status |-> entry.status, at |-> at] \in [status : Status \ {"None"}, at : Nat]
  OBVIOUS
<1>2. /\ DOMAIN reuse' = DOMAIN reuse \cup {entry.text}
      /\ reuse'[entry.text] = [status |-> entry.status, at |-> at]
      /\ \A t \in DOMAIN reuse : t # entry.text => reuse'[t] = reuse[t]
  BY RememberFacts
<1>3. ASSUME NEW t \in DOMAIN reuse' PROVE reuse'[t] \in [status : Status \ {"None"}, at : Nat]
  <2>1. CASE t = entry.text
    BY <1>1, <1>2, <2>1
  <2>2. CASE t # entry.text
    <3>1. t \in DOMAIN reuse /\ reuse'[t] = reuse[t]
      BY <1>2, <2>2
    <3>. QED  BY <3>1
  <2>. QED  BY <2>1, <2>2
<1>. QED  BY <1>3

\* The first loop: what it says of the entries before index it says of the next.
LEMMA LayOutKeeps == ASSUME TextInv, LayOut PROVE TextInv'
<1>. DEFINE i == index
            n == Len(entries)
            entry == entries[i]
            at == Offsets
            bt == Offsets'
            size == Size(entry.text, entry.status)
<1>1. /\ phase = "Layout" /\ Advance(n, "Headers") /\ entrySize' = entrySize + 4 * Len(entry.value)
      /\ UNCHANGED <<pairs, file, pairMode, pair, intended>>
  BY DEF LayOut
<1>2. /\ entries \in Seq(FileEntry) /\ n \in Nat /\ i \in 1 .. n /\ i \in Nat \ {0}
      /\ DOMAIN entries = 1 .. n
      /\ entrySize \in Nat /\ stringSize \in Nat /\ (stringSize % 4) = 0
      /\ \A t \in DOMAIN reuse : reuse[t] \in [status : Status \ {"None"}, at : Nat]
  BY <1>1, LenProperties DEF TextInv, TextTypeOK
<1>3. entry \in FileEntry /\ entry.text \in TextValues /\ entry.status \in Status
      /\ Len(entry.value) \in Nat \ {0} /\ size \in Nat \ {0}
  BY <1>2, EntryFacts, SizeFacts
<1>4. \/ /\ ~HasText(entries, i) /\ UNCHANGED <<entries, stringSize, reuse>>
      \/ /\ HasText(entries, i) /\ Reusable(entry) /\ UNCHANGED <<stringSize, reuse>>
         /\ entries' = Pointing(entries, i, reuse[entry.text].at)
      \/ /\ HasText(entries, i) /\ ~Reusable(entry)
         /\ entries' = Pointing(entries, i, stringSize)
         /\ stringSize' = ((stringSize + size + 3) \div 4) * 4
         /\ Remember(entry, stringSize)
  BY DEF LayOut, HasText
<1>5. Reusable(entry) => reuse[entry.text].at \in Nat
  BY <1>2 DEF Reusable
<1>6. Repointed(entries, entries')
  <2>1. reuse[entry.text].at \in Nat => reuse[entry.text].at \in Int
    OBVIOUS
  <2>2. stringSize \in Int
    BY <1>2
  <2>. HIDE DEF entry, i
  <2>. QED  BY <1>2, <1>4, <1>5, <2>1, <2>2, RepointedFacts
<1>7. \A k \in 1 .. n : k # i => entries'[k] = entries[k]
  <2>1. ASSUME NEW a \in Int, NEW k \in 1 .. n, k # i PROVE Pointing(entries, i, a)[k] = entries[k]
    <3>. HIDE DEF i, n
    <3>. QED  BY <1>2, <2>1, PointingFacts DEF n
  <2>2. stringSize \in Int /\ (Reusable(entry) => reuse[entry.text].at \in Int)
    BY <1>2, <1>5
  <2>. HIDE DEF entry, i
  <2>. QED  BY <1>4, <2>1, <2>2
<1>8. HasText(entries, i) =>
         entries'[i].value[1] = IF Reusable(entry) THEN reuse[entry.text].at ELSE stringSize
  <2>1. ASSUME NEW a \in Int PROVE Pointing(entries, i, a)[i].value[1] = a
    <3>. HIDE DEF i, n
    <3>. QED  BY <1>2, PointingFacts DEF n
  <2>2. stringSize \in Int /\ (Reusable(entry) => reuse[entry.text].at \in Int)
    BY <1>2, <1>5
  <2>. HIDE DEF entry, i
  <2>. QED  BY <1>4, <2>1, <2>2
<1>9. Len(entries') = n /\ entries' \in Seq(FileEntry) /\ DOMAIN entries' = 1 .. n
  BY <1>2, <1>6, LenProperties DEF Repointed
<1>10. /\ Reached("Layout") = i /\ Reached("Layout")' = i + 1
       /\ \/ i < n /\ phase' = "Layout" /\ index' = i + 1
          \/ i = n /\ phase' = "Headers" /\ index' = 1
  <2>1. /\ phase = "Layout" /\ n \in Nat /\ Len(entries) = n /\ Len(entries') = n
        /\ index \in 1 .. n /\ Advance(n, "Headers")
    BY <1>1, <1>2, <1>9
  <2>. HIDE DEF n
  <2>. QED  BY <2>1, AdvanceFacts
<1>11. /\ \A k \in 1 .. n : at[k] = entries[k].value[1] - 0
       /\ \A k \in 1 .. n : bt[k] = entries'[k].value[1] - 0
  <2>1. \A k : ~Moved(k)
    BY <1>1 DEF Moved
  <2>2. \A k : ~Moved(k)'
    BY <1>10 DEF Moved
  <2>. QED  BY <1>2, <1>9, <2>1, <2>2 DEF Offsets
<1>12. /\ entries[i].text = entries'[i].text /\ entries[i].status = entries'[i].status
       /\ \A k \in 1 .. i - 1 : entries[k].text = entries'[k].text /\ entries[k].status = entries'[k].status
       /\ \A k \in 1 .. i - 1 : at[k] = bt[k]
  <2>1. \A k \in 1 .. i - 1 : k \in 1 .. n /\ k # i
    BY <1>2
  <2>2. \A k \in 1 .. i - 1 : entries'[k] = entries[k]
    BY <1>7, <2>1
  <2>. QED  BY <1>2, <1>6, <1>11, <2>1, <2>2 DEF Repointed
<1>13. /\ entrySize = 4 * Before[i] /\ SizeIs(entries, at, i, stringSize) /\ LaidOut(entries, at, i)
       /\ Remembered(entries, at, i, reuse)
  BY <1>1, <1>10 DEF TextInv, Laid, Writing
<1>14. /\ SizeIs(entries', bt, i, stringSize) /\ LaidOut(entries', bt, i)
       /\ Remembered(entries', bt, i, reuse)
  <2>1. i \in Nat /\ i \in 1 .. i
    BY <1>2
  <2>. HIDE DEF i, at, bt
  <2>2. SizeIs(entries', bt, i, stringSize)
    BY <1>12, <1>13, <2>1, SizeTransfers
  <2>3. LaidOut(entries', bt, i)
    BY <1>12, <1>13, <2>1, LaidOutTransfers
  <2>4. Remembered(entries', bt, i, reuse)
    BY <1>12, <1>13, <2>1, RememberedTransfers
  <2>. QED  BY <2>2, <2>3, <2>4
<1>15. HasText(entries', i) <=> HasText(entries, i)
  BY <1>12 DEF HasText
<1>16. HasText(entries, i) =>
          /\ Fresh(entries', i) <=> ~Reusable(entry)
          /\ ~Fresh(entries', i) => \E j \in 1 .. i - 1 :
                MetAt(entries', j, i) /\ entries'[j].status = entries'[i].status
                /\ reuse[entry.text].at = bt[j]
  <2>1. SUFFICES ASSUME HasText(entries', i)
                 PROVE  /\ Fresh(entries', i) <=> ~Reusable(entry)
                        /\ ~Fresh(entries', i) => \E j \in 1 .. i - 1 :
                              MetAt(entries', j, i) /\ entries'[j].status = entries'[i].status
                              /\ reuse[entry.text].at = bt[j]
    BY <1>15
  <2>2. entry.text = entries'[i].text /\ entry.status = entries'[i].status
    BY <1>12
  <2>3. i \in Nat
    BY <1>2
  <2>4. ReusedIfMet(entries', bt, i, reuse)
    <3>1. Remembered(entries', bt, i, reuse)
      BY <1>14
    <3>. HIDE DEF i, bt, at, n, entry, size
    <3>. QED  BY <2>1, <2>3, <3>1, ReusableIsMet
  <2>. HIDE DEF i, bt, entry
  <2>. QED  BY <2>2, <2>4 DEF Reusable, ReusedIfMet
<1>17. ~HasText(entries, i) => ~Fresh(entries', i)
  BY <1>15 DEF Fresh
<1>18. LaidOut(entries', bt, i + 1)
  <2>1. ASSUME HasText(entries', i), Fresh(entries', i)
        PROVE  bt[i] \in Nat /\ SizeIs(entries', bt, i, bt[i])
    <3>1. bt[i] = stringSize
      BY <1>2, <1>8, <1>11, <1>15, <1>16, <2>1
    <3>. QED  BY <1>2, <1>14, <3>1
  <2>2. ASSUME HasText(entries', i), ~Fresh(entries', i)
        PROVE  bt[i] \in Nat /\ \A j \in 1 .. i - 1 : MetAt(entries', j, i) => bt[i] = bt[j]
    <3>1. bt[i] = reuse[entry.text].at /\ bt[i] \in Nat
      BY <1>2, <1>5, <1>8, <1>11, <1>15, <1>16, <2>2
    <3>2. PICK m \in 1 .. i - 1 : MetAt(entries', m, i) /\ reuse[entry.text].at = bt[m]
      BY <1>15, <1>16, <2>2
    <3>3. ASSUME NEW j \in 1 .. i - 1, MetAt(entries', j, i) PROVE j = m
      <4>1. i \in Nat
        BY <1>2
      <4>. HIDE DEF i
      <4>. QED  BY <3>2, <3>3, <4>1, MetOnce
    <3>. QED  BY <3>1, <3>2, <3>3
  <2>. HIDE DEF i, bt
  <2>. QED  BY <1>2, <1>14, <2>1, <2>2, LaidOutGrows
<1>19. SizeIs(entries', bt, i + 1, stringSize') /\ stringSize' \in Nat /\ (stringSize' % 4) = 0
  <2>1. CASE Fresh(entries', i)
    <3>1. HasText(entries, i) /\ ~Reusable(entry)
      BY <1>16, <1>17, <2>1
    <3>2. stringSize' = ((stringSize + size + 3) \div 4) * 4
      <4>. HIDE DEF i, entry, size
      <4>. QED  BY <1>4, <3>1
    <3>3. /\ stringSize' = stringSize + Padded(size) /\ ((stringSize + Padded(size)) % 4) = 0
          /\ Padded(size) \in Nat
      <4>1. size \in Nat
        BY <1>3
      <4>. HIDE DEF size
      <4>. QED  BY <1>2, <3>2, <4>1, PaddedFacts
    <3>4. bt[i] = stringSize /\ size = Size(entries'[i].text, entries'[i].status)
      <4>1. bt[i] = stringSize
        BY <1>2, <1>8, <1>11, <3>1
      <4>. QED  BY <1>12, <4>1
    <3>5. SizeIs(entries', bt, i + 1, stringSize + Padded(Size(entries'[i].text, entries'[i].status)))
      <4>. HIDE DEF i, bt
      <4>. QED  BY <1>2, <2>1, <3>4, SizeGrows
    <3>. QED  BY <1>2, <3>3, <3>4, <3>5
  <2>2. CASE ~Fresh(entries', i)
    <3>1. stringSize' = stringSize
      <4>. HIDE DEF i, entry, size
      <4>. QED  BY <1>4, <1>16, <2>2
    <3>2. SizeIs(entries', bt, i + 1, stringSize)
      <4>. HIDE DEF i, bt
      <4>. QED  BY <1>2, <1>14, <2>2, SizeStays
    <3>. QED  BY <1>2, <3>1, <3>2
  <2>. QED  BY <2>1, <2>2
<1>20. Remembered(entries', bt, i + 1, reuse')
  <2>1. CASE ~HasText(entries, i)
    <3>1. reuse' = reuse
      BY <1>4, <2>1
    <3>2. Remembered(entries', bt, i + 1, reuse)
      <4>. HIDE DEF i, bt
      <4>. QED  BY <1>2, <1>14, <1>15, <2>1, RememberedStays
    <3>. QED  BY <3>1, <3>2
  <2>2. CASE HasText(entries, i)
    <3>. DEFINE row == [status |-> entries'[i].status, at |-> bt[i]]
    <3>1. /\ DOMAIN reuse' = DOMAIN reuse \cup {entries'[i].text}
          /\ reuse'[entries'[i].text] = row
          /\ \A t \in DOMAIN reuse : t # entries'[i].text => reuse'[t] = reuse[t]
      <4>1. CASE Reusable(entry)
        <5>1. reuse' = reuse /\ entry.text \in DOMAIN reuse /\ reuse[entry.text].status = entry.status
          BY <1>4, <4>1, Zenon DEF Reusable
        <5>2. reuse[entry.text] = [status |-> entry.status, at |-> reuse[entry.text].at]
          <6>1. reuse[entry.text] \in [status : Status \ {"None"}, at : Nat]
            BY <1>2, <5>1
          <6>. HIDE DEF entry
          <6>. QED  BY <5>1, <6>1
        <5>3. reuse[entry.text].at = bt[i]
          BY <1>2, <1>5, <1>8, <1>11, <2>2, <4>1
        <5>. QED  BY <1>12, <5>1, <5>2, <5>3
      <4>2. CASE ~Reusable(entry)
        <5>1. Remember(entry, stringSize)
          BY <1>4, <2>2, <4>2
        <5>2. /\ DOMAIN reuse' = DOMAIN reuse \cup {entry.text}
              /\ reuse'[entry.text] = [status |-> entry.status, at |-> stringSize]
              /\ \A t \in DOMAIN reuse : t # entry.text => reuse'[t] = reuse[t]
          BY <5>1, RememberFacts
        <5>3. bt[i] = stringSize
          BY <1>2, <1>8, <1>11, <2>2, <4>2
        <5>. QED  BY <1>12, <5>2, <5>3
      <4>. QED  BY <4>1, <4>2
    <3>2. HasText(entries', i)
      BY <1>15, <2>2
    <3>. HIDE DEF i, bt
    <3>. QED  BY <1>2, <1>14, <3>1, <3>2, RememberedGrows
  <2>. QED  BY <2>1, <2>2
<1>21. entrySize' = 4 * Before'[i + 1] /\ entrySize' \in Nat
  <2>1. Before' = Before
    <3>1. Lengths(entries') = Lengths(entries)
      BY <1>2, <1>6, RepointedLengths
    <3>. QED  BY <3>1 DEF Before
  <2>2. Before[i + 1] = Before[i] + Len(entry.value) /\ Before[i] \in Nat /\ i + 1 \in 1 .. n + 1
    <3>1. /\ Before \in [1 .. Len(entries) + 1 -> Nat]
          /\ \A k \in 1 .. Len(entries) : Before[k + 1] = Before[k] + Len(entries[k].value)
      BY <1>2, BeforeFacts DEF Before
    <3>2. i \in 1 .. Len(entries) + 1
      BY <1>2
    <3>. QED  BY <1>2, <3>1, <3>2
  <2>3. entrySize = 4 * Before[i] /\ entrySize' = entrySize + 4 * Len(entry.value)
        /\ Len(entry.value) \in Nat
    BY <1>1, <1>3, <1>13
  <2>4. entrySize' = 4 * Before[i + 1] /\ entrySize' \in Nat
    <3>. DEFINE x == Before[i]
                y == Before[i + 1]
                z == Len(entry.value)
    <3>1. entrySize = 4 * x /\ entrySize' = entrySize + 4 * z /\ z \in Nat /\ x \in Nat /\ y = x + z
      BY <2>2, <2>3
    <3>. HIDE DEF x, y, z
    <3>2. entrySize' = 4 * y /\ entrySize' \in Nat
      BY <3>1
    <3>. QED  BY <3>2 DEF y
  <2>. QED  BY <2>1, <2>4
<1>22. Laid'
  BY <1>10, <1>18, <1>19, <1>20, <1>21 DEF Laid
<1>23. ValuesWritten' /\ StringsWritten'
  BY <1>10 DEF ValuesWritten, StringsWritten
<1>24. phase' \in Writing /\ phase \in Writing /\ phase # "Parse" /\ phase' \notin {"Parse", "Loaded"}
  BY <1>1, <1>10 DEF Writing
<1>25. Parsing' /\ Intended'
  BY <1>1, <1>6, <1>24, ParsingStays, IntendedStays
<1>26. \A t \in DOMAIN reuse' : reuse'[t] \in [status : Status \ {"None"}, at : Nat]
  <2>1. CASE reuse' = reuse
    BY <1>2, <2>1
  <2>2. CASE Remember(entry, stringSize) /\ HasText(entries, i)
    <3>1. entry.status \in Status \ {"None"}
      BY <1>3, <2>2 DEF HasText
    <3>. HIDE DEF entry
    <3>. QED  BY <1>2, <2>2, <3>1, RememberTyped
  <2>. QED  BY <1>4, <2>1, <2>2
<1>27. TextTypeOK'
  <2>1. index' \in Nat \ {0} /\ index' <= n /\ phase' \in Loops \cup {"Headers"}
        /\ (phase' \notin Loops => index' = 1) /\ phase' # "Parse"
    <3>1. CASE i < n /\ phase' = "Layout" /\ index' = i + 1
      BY <1>2, <3>1 DEF Loops
    <3>2. CASE i = n /\ phase' = "Headers" /\ index' = 1
      BY <1>2, <3>2 DEF Loops
    <3>. QED  BY <1>10, <3>1, <3>2
  <2>2. /\ pairs' \in Seq(FilePair) /\ file' \in FileContent /\ pairMode' \in BOOLEAN
        /\ pair' \in 0 .. Len(entries')
    BY <1>1, <1>9 DEF TextInv, TextTypeOK
  <2>. QED  BY <1>9, <1>19, <1>21, <1>26, <2>1, <2>2 DEF TextTypeOK
<1>. QED  BY <1>22, <1>23, <1>25, <1>27 DEF TextInv

LEMMA WriteHeadersKeeps == ASSUME TextInv, WriteHeaders PROVE TextInv'
<1>. DEFINE n == Len(entries)
<1>1. /\ phase = "Headers" /\ phase' = "Values" /\ reuse' = <<>>
      /\ file' = [rel0 |-> entrySize + 8, words |-> <<>>, strings |-> {}, size |-> 0,
                  announced |-> stringSize, nof0 |-> <<>>]
      /\ UNCHANGED <<index, entries, pairs, entrySize, stringSize, pairMode, pair, intended>>
  BY DEF WriteHeaders
<1>2. /\ entries \in Seq(FileEntry) /\ n \in Nat /\ DOMAIN entries = 1 .. n /\ index = 1
      /\ entrySize \in Nat /\ stringSize \in Nat
  BY <1>1, LenProperties DEF TextInv, TextTypeOK, Loops
<1>3. file' \in FileContent
  BY <1>1, <1>2, EmptySeq DEF FileContent
<1>4. TextTypeOK'
  <2>1. DOMAIN reuse' = {}
    BY <1>1
  <2>. QED  BY <1>1, <1>2, <1>3, <2>1 DEF TextInv, TextTypeOK, Loops
<1>5. Laid'
  <2>1. (Reached("Layout") = n + 1)' /\ Reached("Layout") = n + 1
    BY <1>1 DEF Reached
  <2>2. Offsets' = Offsets
    BY <1>1, <1>2 DEF Offsets, Moved
  <2>3. entrySize = 4 * Before[n + 1] /\ SizeIs(entries, Offsets, n + 1, stringSize)
        /\ LaidOut(entries, Offsets, n + 1)
    BY <1>1, <2>1 DEF TextInv, Laid, Writing
  <2>4. Before' = Before
    BY <1>1 DEF Before
  <2>. QED  BY <1>1, <2>1, <2>2, <2>3, <2>4 DEF Laid
<1>6. ValuesWritten'
  <2>1. (Reached("Values"))' = 1
    BY <1>1, <1>2 DEF Reached
  <2>2. /\ file'.rel0 = entrySize' + 8 /\ file'.announced = stringSize'
        /\ Len(file'.nof0) = 0 /\ Len(file'.words) = 0 /\ file'.size = 0 /\ file'.strings = {}
    BY <1>1
  <2>3. Before'[1] = 0
    BY <1>1, <1>2, BeforeFacts DEF Before
  <2>. QED  BY <1>1, <2>1, <2>2, <2>3 DEF ValuesWritten
<1>7. StringsWritten'
  BY <1>1 DEF StringsWritten
<1>8. Parsing' /\ Intended'
  <2>1. Repointed(entries, entries')
    BY <1>1, <1>2, RepointedFacts
  <2>2. phase' \in Writing /\ phase \in Writing /\ phase # "Parse" /\ phase' \notin {"Parse", "Loaded"}
    BY <1>1 DEF Writing
  <2>. QED  BY <1>1, <2>1, <2>2, ParsingStays, IntendedStays
<1>. QED  BY <1>4, <1>5, <1>6, <1>7, <1>8 DEF TextInv

\* What Laid says is kept by a step that only moves the pointers.
LEMMA LaidStays ==
    ASSUME TextInv, phase \in Writing, phase # "Layout", phase' \in Writing, phase' # "Layout",
           Repointed(entries, entries'), entrySize' = entrySize, stringSize' = stringSize,
           \A k \in 1 .. Len(entries) : Offsets'[k] = Offsets[k]
    PROVE  Laid'
<1>. DEFINE n == Len(entries)
            at == Offsets
            bt == Offsets'
<1>1. entries \in Seq(FileEntry) /\ n \in Nat /\ Len(entries') = n
  BY LenProperties DEF TextInv, TextTypeOK, Repointed
<1>2. Reached("Layout") = n + 1 /\ Reached("Layout")' = n + 1
  BY <1>1 DEF Reached
<1>3. entrySize = 4 * Before[n + 1] /\ SizeIs(entries, at, n + 1, stringSize)
      /\ LaidOut(entries, at, n + 1)
  BY <1>2 DEF TextInv, Laid
<1>4. Before' = Before
  <2>1. Lengths(entries') = Lengths(entries)
    BY <1>1, RepointedLengths
  <2>. QED  BY <2>1 DEF Before
<1>5. SizeIs(entries', bt, n + 1, stringSize) /\ LaidOut(entries', bt, n + 1)
  <2>. DEFINE m == n + 1
  <2>1. /\ \A k \in 1 .. m - 1 : entries[k].text = entries'[k].text /\ entries[k].status = entries'[k].status
        /\ \A k \in 1 .. m - 1 : at[k] = bt[k]
        /\ m \in Nat /\ m \in 1 .. m /\ SizeIs(entries, at, m, stringSize) /\ LaidOut(entries, at, m)
    BY <1>1, <1>3 DEF Repointed
  <2>. HIDE DEF m, at, bt
  <2>2. SizeIs(entries', bt, m, stringSize)
    BY <2>1, SizeTransfers
  <2>3. LaidOut(entries', bt, m)
    BY <2>1, LaidOutTransfers
  <2>. QED  BY <2>2, <2>3 DEF m
<1>. QED  BY <1>2, <1>3, <1>4, <1>5 DEF Laid

LEMMA WriteValueKeeps == ASSUME TextInv, WriteValue PROVE TextInv'
<1>. DEFINE i == index
            n == Len(entries)
            value == entries'[i].value
            words == file.words \o value
            nof0 == Append(file.nof0, 16 + 4 * Len(file.words))
<1>1. /\ phase = "Values" /\ Advance(n, "Strings")
      /\ UNCHANGED <<pairs, reuse, entrySize, stringSize, pairMode, pair, intended>>
      /\ file' = [file EXCEPT !.words = words, !.nof0 = nof0]
      /\ entries' = IF ~HasText(entries, i) THEN entries
                    ELSE Pointing(entries, i, entries[i].value[1] + entrySize + 16)
  BY Zenon DEF WriteValue, HasText
<1>2. /\ entries \in Seq(FileEntry) /\ n \in Nat /\ i \in 1 .. n /\ i \in Nat \ {0}
      /\ DOMAIN entries = 1 .. n /\ entrySize \in Nat /\ stringSize \in Nat /\ file \in FileContent
  BY <1>1, LenProperties DEF TextInv, TextTypeOK
<1>3. \A k \in 1 .. n : entries[k].value[1] \in Int /\ Len(entries[k].value) \in Nat \ {0}
  BY <1>2, EntryFacts
<1>. DEFINE place == entries[i].value[1] + entrySize + 16
<1>4. place \in Int
  BY <1>2, <1>3
<1>5. Repointed(entries, entries')
  <2>. HIDE DEF place, i
  <2>. QED  BY <1>1, <1>2, <1>4, RepointedFacts DEF place
<1>6. \A k \in 1 .. n : k # i => entries'[k] = entries[k]
  <2>1. ASSUME NEW k \in 1 .. n, k # i PROVE Pointing(entries, i, place)[k] = entries[k]
    <3>. HIDE DEF i, n, place
    <3>. QED  BY <1>2, <1>4, <2>1, PointingFacts DEF n
  <2>. QED  BY <1>1, <2>1
<1>7. HasText(entries, i) => entries'[i].value[1] = place
  <2>1. Pointing(entries, i, place)[i].value[1] = place
    <3>. HIDE DEF i, n, place
    <3>. QED  BY <1>2, <1>4, PointingFacts DEF n
  <2>. QED  BY <1>1, <2>1
<1>8. /\ Len(entries') = n /\ entries' \in Seq(FileEntry) /\ DOMAIN entries' = 1 .. n
      /\ \A k \in 1 .. n : HasText(entries', k) <=> HasText(entries, k)
  BY <1>2, <1>5, LenProperties DEF Repointed, HasText
<1>9. /\ Reached("Values") = i /\ Reached("Values")' = i + 1
      /\ \/ i < n /\ phase' = "Values" /\ index' = i + 1
         \/ i = n /\ phase' = "Strings" /\ index' = 1
  BY <1>1, <1>2, <1>8, AdvanceFacts
<1>10. \A k \in 1 .. n : Offsets'[k] = Offsets[k]
  <2>1. \A k \in 1 .. n : Moved(k) <=> HasText(entries, k) /\ k < i
    BY <1>1 DEF Moved
  <2>2. \A k \in 1 .. n : Moved(k)' <=> HasText(entries, k) /\ k < i + 1
    <3>1. CASE i < n /\ phase' = "Values" /\ index' = i + 1
      BY <1>8, <3>1 DEF Moved
    <3>2. CASE i = n /\ phase' = "Strings"
      BY <1>2, <1>8, <3>2 DEF Moved
    <3>. QED  BY <1>9, <3>1, <3>2
  <2>3. \A k \in 1 .. n : Offsets[k] = entries[k].value[1] - (IF Moved(k) THEN entrySize + 16 ELSE 0)
    BY <1>2 DEF Offsets
  <2>4. \A k \in 1 .. n : Offsets'[k] = entries'[k].value[1] - (IF Moved(k)' THEN entrySize + 16 ELSE 0)
    BY <1>1, <1>8 DEF Offsets
  <2>5. ASSUME NEW k \in 1 .. n, k # i PROVE Offsets'[k] = Offsets[k]
    <3>1. entries'[k] = entries[k]
      BY <1>6, <2>5
    <3>2. k < i <=> k < i + 1
      BY <1>2, <2>5
    <3>. QED  BY <2>1, <2>2, <2>3, <2>4, <3>1, <3>2
  <2>6. CASE HasText(entries, i)
    <3>1. Offsets[i] = entries[i].value[1] - 0 /\ Offsets'[i] = place - (entrySize + 16)
      BY <1>2, <1>7, <2>1, <2>2, <2>3, <2>4, <2>6
    <3>2. Offsets'[i] = Offsets[i]
      <4>. DEFINE v == entries[i].value[1]
      <4>1. v \in Int /\ Offsets[i] = v - 0 /\ Offsets'[i] = (v + entrySize + 16) - (entrySize + 16)
        BY <1>2, <1>3, <3>1
      <4>. HIDE DEF v, i
      <4>. QED  BY <1>2, <4>1
    <3>. QED  BY <2>5, <3>2
  <2>7. CASE ~HasText(entries, i)
    <3>1. entries'[i] = entries[i]
      BY <1>1, <2>7
    <3>. QED  BY <1>2, <2>1, <2>2, <2>3, <2>4, <2>5, <2>7, <3>1
  <2>. QED  BY <2>6, <2>7
<1>11. phase \in Writing /\ phase # "Layout" /\ phase' \in Writing /\ phase' # "Layout"
       /\ phase # "Parse" /\ phase' \notin {"Parse", "Loaded"}
  BY <1>1, <1>9 DEF Writing
<1>12. Laid'
  <2>. HIDE DEF i, n
  <2>. QED  BY <1>1, <1>5, <1>10, <1>11, LaidStays DEF n
<1>13. Parsing' /\ Intended'
  BY <1>1, <1>5, <1>11, ParsingStays, IntendedStays
<1>14. /\ file.rel0 = entrySize + 8 /\ file.announced = stringSize
       /\ Len(file.nof0) = i - 1 /\ Len(file.words) = Before[i]
       /\ \A k \in 1 .. i - 1 :
             /\ file.nof0[k] = 16 + 4 * Before[k]
             /\ \A w \in DOMAIN entries[k].value : file.words[Before[k] + w] = entries[k].value[w]
       /\ reuse = <<>> /\ file.size = 0 /\ file.strings = {}
  BY <1>1, <1>9 DEF TextInv, ValuesWritten
<1>15. /\ value \in Seq(Int) /\ Len(value) = Len(entries[i].value)
       /\ file.words \in Seq(Int) /\ file.nof0 \in Seq(Nat)
  BY <1>2, <1>5, <1>8, EntryFacts, ContentFacts DEF Repointed
<1>16. /\ words \in Seq(Int) /\ Len(words) = Len(file.words) + Len(value)
       /\ \A w \in 1 .. Len(file.words) + Len(value) :
             words[w] = IF w <= Len(file.words) THEN file.words[w] ELSE value[w - Len(file.words)]
  <2>. HIDE DEF value
  <2>. QED  BY <1>15, ConcatProperties
<1>17. /\ nof0 \in Seq(Nat) /\ Len(nof0) = Len(file.nof0) + 1
       /\ \A k \in 1 .. Len(file.nof0) : nof0[k] = file.nof0[k]
       /\ nof0[Len(file.nof0) + 1] = 16 + 4 * Len(file.words)
  <2>1. 16 + 4 * Len(file.words) \in Nat
    BY <1>15, LenProperties
  <2>. QED  BY <1>15, <2>1, AppendProperties
<1>18. /\ file' \in FileContent /\ file'.words = words /\ file'.nof0 = nof0
       /\ file'.rel0 = file.rel0 /\ file'.size = file.size /\ file'.announced = file.announced
       /\ file'.strings = file.strings
  <2>1. words \in Seq(Int) /\ nof0 \in Seq(Nat) /\ file \in FileContent
        /\ file' = [file EXCEPT !.words = words, !.nof0 = nof0]
    BY <1>1, <1>2, <1>16, <1>17
  <2>. HIDE DEF words, nof0
  <2>. QED  BY <2>1 DEF FileContent
<1>19. Before' = Before
  <2>1. Lengths(entries') = Lengths(entries)
    BY <1>2, <1>5, RepointedLengths
  <2>. QED  BY <2>1 DEF Before
<1>20. /\ Before \in [1 .. n + 1 -> Nat] /\ Before[i + 1] = Before[i] + Len(value)
       /\ \A k \in 1 .. n : Before[k + 1] = Before[k] + Len(entries[k].value)
       /\ \A j, k \in 1 .. n + 1 : j < k => Before[j] < Before[k]
  <2>1. /\ Before \in [1 .. Len(entries) + 1 -> Nat]
        /\ \A k \in 1 .. Len(entries) : Before[k + 1] = Before[k] + Len(entries[k].value)
        /\ \A j, k \in 1 .. Len(entries) + 1 : j < k => Before[j] < Before[k]
    BY <1>2, BeforeFacts DEF Before
  <2>2. Before[i + 1] = Before[i] + Len(value)
    BY <1>2, <1>15, <2>1
  <2>. QED  BY <2>1, <2>2
<1>21. ASSUME NEW k \in 1 .. i
       PROVE  /\ nof0[k] = 16 + 4 * Before[k]
              /\ \A w \in DOMAIN entries'[k].value : words[Before[k] + w] = entries'[k].value[w]
  <2>1. CASE k = i
    <3>1. nof0[k] = 16 + 4 * Before[k]
      BY <1>2, <1>14, <1>17, <2>1
    <3>2. ASSUME NEW w \in DOMAIN value PROVE words[Before[i] + w] = value[w]
      <4>. DEFINE b == Before[i]
                  m == Len(value)
      <4>1. w \in 1 .. m /\ m \in Nat /\ b \in Nat /\ b = Len(file.words)
        <5>1. i \in 1 .. n + 1
          BY <1>2
        <5>. QED  BY <1>14, <1>15, <1>20, <3>2, <5>1, LenProperties
      <4>. HIDE DEF b, m
      <4>2. b + w \in 1 .. b + m /\ ~(b + w <= b) /\ (b + w) - b = w
        BY <4>1
      <4>. HIDE DEF value, words
      <4>3. words[b + w] = value[w]
        BY <1>16, <4>1, <4>2 DEF m
      <4>. QED  BY <4>3 DEF b
    <3>. QED  BY <2>1, <3>1, <3>2
  <2>2. CASE k # i
    <3>1. k \in 1 .. i - 1 /\ k \in 1 .. n /\ i \in 1 .. n + 1 /\ k + 1 \in 1 .. n + 1 /\ k \in 1 .. n + 1
          /\ (k + 1 = i \/ k + 1 < i)
      BY <1>2, <2>2
    <3>2. entries'[k] = entries[k]
      BY <1>6, <2>2, <3>1
    <3>3. nof0[k] = 16 + 4 * Before[k]
      BY <1>14, <1>17, <3>1
    <3>4. ASSUME NEW w \in DOMAIN entries[k].value PROVE words[Before[k] + w] = entries[k].value[w]
      <4>. DEFINE b == Before[k]
                  c == Before[i]
                  d == Before[k + 1]
                  m == Len(entries[k].value)
      <4>1. w \in 1 .. m /\ m \in Nat
        <5>1. entries[k].value \in Seq(Int)
          BY <1>2, <3>1, EntryFacts
        <5>. QED  BY <3>4, <5>1, LenProperties
      <4>2. b \in Nat /\ c \in Nat /\ d = b + m /\ d <= c /\ c = Len(file.words)
        <5>1. c = d \/ d < c
          BY <1>20, <3>1
        <5>2. b \in Nat /\ c \in Nat /\ d = b + m /\ d \in Nat
          BY <1>20, <3>1
        <5>3. c = Len(file.words)
          BY <1>14
        <5>. HIDE DEF b, c, d, m
        <5>. QED  BY <5>1, <5>2, <5>3
      <4>3. Len(value) \in Nat
        BY <1>15, LenProperties
      <4>4. words[b + w] = file.words[b + w]
        <5>. HIDE DEF b, c, d, m, value, words
        <5>1. b + w \in 1 .. c + Len(value) /\ b + w <= c
          BY <4>1, <4>2, <4>3
        <5>. QED  BY <1>16, <4>2, <5>1
      <4>5. file.words[b + w] = entries[k].value[w]
        BY <1>14, <3>1, <3>4
      <4>. QED  BY <4>4, <4>5
    <3>. QED  BY <3>2, <3>3, <3>4
  <2>. QED  BY <2>1, <2>2
<1>22. ValuesWritten'
  <2>1. file'.rel0 = entrySize' + 8 /\ file'.announced = stringSize'
    BY <1>1, <1>14, <1>18
  <2>2. Len(nof0) = (i + 1) - 1 /\ Len(words) = Before'[i + 1]
    BY <1>2, <1>14, <1>16, <1>17, <1>19, <1>20
  <2>3. \A k \in 1 .. (i + 1) - 1 :
           /\ nof0[k] = 16 + 4 * Before'[k]
           /\ \A w \in DOMAIN entries'[k].value : words[Before'[k] + w] = entries'[k].value[w]
    <3>1. \A k \in 1 .. (i + 1) - 1 : k \in 1 .. i
      BY <1>2
    <3>. QED  BY <1>19, <1>21, <3>1
  <2>4. phase' = "Values" => reuse' = <<>> /\ file'.size = 0 /\ file'.strings = {}
    BY <1>1, <1>14, <1>18
  <2>. HIDE DEF words, nof0, i
  <2>. QED  BY <1>9, <1>18, <2>1, <2>2, <2>3, <2>4 DEF ValuesWritten
<1>23. StringsWritten'
  <2>1. CASE phase' = "Values"
    BY <2>1 DEF StringsWritten
  <2>2. CASE phase' = "Strings" /\ index' = 1
    <3>1. Reached("Strings")' = 1
      BY <2>2 DEF Reached
    <3>2. SizeIs(entries', Offsets', 1, 0) /\ Remembered(entries', Offsets', 1, <<>>)
      BY DEF SizeIs, Remembered
    <3>3. file'.size = 0 /\ reuse' = <<>> /\ file'.strings = {}
      BY <1>1, <1>14, <1>18
    <3>. QED  BY <2>2, <3>1, <3>2, <3>3 DEF StringsWritten
  <2>. QED  BY <1>9, <2>1, <2>2
<1>24. TextTypeOK'
  <2>1. index' \in Nat \ {0} /\ index' <= n /\ phase' \in Loops /\ phase' # "Parse"
    <3>1. CASE i < n /\ phase' = "Values" /\ index' = i + 1
      BY <1>2, <3>1 DEF Loops
    <3>2. CASE i = n /\ phase' = "Strings" /\ index' = 1
      BY <1>2, <3>2 DEF Loops
    <3>. QED  BY <1>9, <3>1, <3>2
  <2>2. /\ pairs' \in Seq(FilePair) /\ pairMode' \in BOOLEAN /\ pair' \in 0 .. Len(entries')
        /\ \A t \in DOMAIN reuse' : reuse'[t] \in [status : Status \ {"None"}, at : Nat]
        /\ entrySize' \in Nat /\ stringSize' \in Nat /\ (stringSize' % 4) = 0
    BY <1>1, <1>8 DEF TextInv, TextTypeOK
  <2>. QED  BY <1>8, <1>18, <2>1, <2>2 DEF TextTypeOK
<1>. QED  BY <1>12, <1>13, <1>22, <1>23, <1>24 DEF TextInv

\* The third loop finds the area at each text that it writes where the first one put it.
LEMMA WriteStringKeeps == ASSUME TextInv, WriteString PROVE TextInv'
<1>. DEFINE i == index
            n == Len(entries)
            entry == entries[i]
            at == Offsets
            size == Size(entry.text, entry.status)
            row == [at |-> file.size, text |-> entry.text, status |-> entry.status]
<1>1. /\ phase = "Strings" /\ Advance(n, "Written")
      /\ UNCHANGED <<entries, pairs, entrySize, stringSize, pairMode, pair, intended>>
      /\ \/ (~HasText(entries, i) \/ Reusable(entry)) /\ UNCHANGED <<file, reuse>>
         \/ /\ HasText(entries, i) /\ ~Reusable(entry)
            /\ file' = [file EXCEPT !.strings = @ \union {row}, !.size = @ + size + ((4 - (size % 4)) % 4)]
            /\ Remember(entry, file.size)
  BY Zenon DEF WriteString, HasText
<1>2. /\ entries \in Seq(FileEntry) /\ n \in Nat /\ i \in 1 .. n /\ i \in Nat \ {0}
      /\ DOMAIN entries = 1 .. n /\ file \in FileContent
      /\ \A t \in DOMAIN reuse : reuse[t] \in [status : Status \ {"None"}, at : Nat]
  BY <1>1, LenProperties DEF TextInv, TextTypeOK
<1>3. entry \in FileEntry /\ entry.text \in TextValues /\ entry.status \in Status
      /\ size \in Nat \ {0} /\ file.size \in Nat
  BY <1>2, EntryFacts, SizeFacts, ContentFacts
<1>4. /\ Reached("Strings") = i /\ Reached("Strings")' = i + 1
      /\ \/ i < n /\ phase' = "Strings" /\ index' = i + 1
         \/ i = n /\ phase' = "Written" /\ index' = 1
  BY <1>1, <1>2, AdvanceFacts
<1>5. phase \in Writing /\ phase # "Layout" /\ phase' \in Writing /\ phase' # "Layout"
      /\ phase # "Parse" /\ phase' \notin {"Parse", "Loaded"} /\ phase' \in {"Strings", "Written"}
  BY <1>1, <1>4 DEF Writing
<1>6. Repointed(entries, entries')
  BY <1>1, <1>2, RepointedFacts
<1>7. Offsets' = at
  <2>1. \A k : Moved(k)' <=> Moved(k)
    BY <1>1, <1>5 DEF Moved
  <2>. QED  BY <1>1, <2>1 DEF Offsets
<1>8. Laid'
  <2>. HIDE DEF i
  <2>. QED  BY <1>1, <1>5, <1>6, <1>7, LaidStays
<1>9. Parsing' /\ Intended'
  BY <1>1, <1>5, <1>6, ParsingStays, IntendedStays
<1>10. /\ SizeIs(entries, at, i, file.size) /\ Remembered(entries, at, i, reuse)
       /\ \A k \in 1 .. i - 1 : HasText(entries, k) =>
             [at |-> at[k], text |-> entries[k].text, status |-> entries[k].status] \in file.strings
       /\ \A s, t \in file.strings : s.at < file.size /\ (s.at = t.at => s = t)
  BY <1>1, <1>4 DEF TextInv, StringsWritten
<1>11. HasText(entries, i) =>
          /\ Fresh(entries, i) => SizeIs(entries, at, i, at[i])
          /\ ~Fresh(entries, i) => \A j \in 1 .. i - 1 : MetAt(entries, j, i) => at[i] = at[j]
  <2>1. Reached("Layout") = n + 1
    BY <1>1 DEF Reached
  <2>2. LaidOut(entries, at, n + 1)
    BY <1>5, <2>1 DEF TextInv, Laid
  <2>3. i \in 1 .. (n + 1) - 1
    BY <1>2
  <2>. HIDE DEF i, at, n
  <2>. QED  BY <2>2, <2>3 DEF LaidOut
<1>12. HasText(entries, i) =>
          /\ Fresh(entries, i) <=> ~Reusable(entry)
          /\ ~Fresh(entries, i) => \E j \in 1 .. i - 1 :
                MetAt(entries, j, i) /\ entries[j].status = entry.status /\ reuse[entry.text].at = at[j]
  <2>1. SUFFICES ASSUME HasText(entries, i)
                 PROVE  /\ Fresh(entries, i) <=> ~Reusable(entry)
                        /\ ~Fresh(entries, i) => \E j \in 1 .. i - 1 :
                              MetAt(entries, j, i) /\ entries[j].status = entry.status
                              /\ reuse[entry.text].at = at[j]
    OBVIOUS
  <2>2. i \in Nat /\ Remembered(entries, at, i, reuse)
    BY <1>2, <1>10
  <2>3. ReusedIfMet(entries, at, i, reuse)
    <3>. HIDE DEF i, at, n, entry, size, row
    <3>. QED  BY <2>1, <2>2, ReusableIsMet
  <2>. HIDE DEF i, at
  <2>. QED  BY <2>3 DEF Reusable, ReusedIfMet
\* What is said of the file and of the entries, in each of the three cases.
<1>. DEFINE Kept == /\ file' \in FileContent /\ file'.words = file.words /\ file'.nof0 = file.nof0
                    /\ file'.rel0 = file.rel0 /\ file'.announced = file.announced
                    /\ SizeIs(entries, at, i + 1, file'.size) /\ Remembered(entries, at, i + 1, reuse')
                    /\ \A k \in 1 .. i : HasText(entries, k) =>
                          [at |-> at[k], text |-> entries[k].text, status |-> entries[k].status]
                             \in file'.strings
                    /\ \A s, t \in file'.strings : s.at < file'.size /\ (s.at = t.at => s = t)
                    /\ \A t \in DOMAIN reuse' : reuse'[t] \in [status : Status \ {"None"}, at : Nat]
<1>13. \A k \in 1 .. i : k = i \/ k \in 1 .. i - 1
  BY <1>2
<1>14. ASSUME ~HasText(entries, i) PROVE Kept
  <2>1. UNCHANGED <<file, reuse>>
    BY <1>1, <1>14
  <2>2. SizeIs(entries, at, i + 1, file.size) /\ Remembered(entries, at, i + 1, reuse)
    <3>1. ~Fresh(entries, i)
      BY <1>14 DEF Fresh
    <3>. HIDE DEF i, at
    <3>. QED  BY <1>2, <1>10, <1>14, <3>1, SizeStays, RememberedStays
  <2>. QED  BY <1>2, <1>10, <1>13, <1>14, <2>1, <2>2
<1>15. ASSUME HasText(entries, i), ~Fresh(entries, i) PROVE Kept
  <2>1. UNCHANGED <<file, reuse>> /\ Reusable(entry)
    BY <1>1, <1>12, <1>15, Zenon
  <2>2. PICK j \in 1 .. i - 1 : MetAt(entries, j, i) /\ entries[j].status = entry.status
                                 /\ reuse[entry.text].at = at[j]
    BY <1>12, <1>15
  <2>3. at[i] = at[j]
    BY <1>11, <1>15, <2>2
  <2>4. HasText(entries, j) /\ entries[j].text = entry.text
    BY <2>2 DEF MetAt, Alike
  <2>5. [at |-> at[i], text |-> entries[i].text, status |-> entries[i].status] \in file.strings
    <3>1. [at |-> at[j], text |-> entries[j].text, status |-> entries[j].status] \in file.strings
      BY <1>10, <2>4
    <3>. HIDE DEF at
    <3>. QED  BY <2>2, <2>3, <2>4, <3>1
  <2>6. entry.text \in DOMAIN reuse /\ reuse[entry.text] = [status |-> entry.status, at |-> at[i]]
    <3>1. entry.text \in DOMAIN reuse /\ reuse[entry.text].status = entry.status
      BY <2>1 DEF Reusable
    <3>2. reuse[entry.text] \in [status : Status \ {"None"}, at : Nat]
      BY <1>2, <3>1
    <3>. HIDE DEF entry, at, i
    <3>. QED  BY <2>2, <2>3, <3>1, <3>2
  <2>7. SizeIs(entries, at, i + 1, file.size)
    <3>. HIDE DEF i, at
    <3>. QED  BY <1>2, <1>10, <1>15, SizeStays
  <2>8. Remembered(entries, at, i + 1, reuse)
    <3>1. DOMAIN reuse = DOMAIN reuse \cup {entries[i].text}
      BY <2>6
    <3>. HIDE DEF i, at
    <3>. QED  BY <1>2, <1>10, <1>15, <2>6, <3>1, RememberedGrows
  <2>9. \A k \in 1 .. i : HasText(entries, k) =>
           [at |-> at[k], text |-> entries[k].text, status |-> entries[k].status] \in file.strings
    <3>. HIDE DEF i, at
    <3>. QED  BY <1>10, <1>13, <2>5
  <2>. HIDE DEF at, entry
  <2>. QED  BY <1>2, <1>10, <2>1, <2>7, <2>8, <2>9
<1>16. ASSUME Fresh(entries, i) PROVE Kept
  <2>1. /\ HasText(entries, i) /\ ~Reusable(entry) /\ Remember(entry, file.size)
        /\ file' = [file EXCEPT !.strings = @ \union {row}, !.size = @ + size + ((4 - (size % 4)) % 4)]
    <3>1. HasText(entries, i)
      BY <1>16 DEF Fresh
    <3>2. ~Reusable(entry)
      BY <1>12, <1>16, <3>1
    <3>. QED  BY <1>1, <3>1, <3>2, Zenon
  <2>2. at[i] = file.size
    <3>1. SizeIs(entries, at, i, at[i]) /\ i \in Nat
      BY <1>2, <1>11, <1>16, <2>1
    <3>. HIDE DEF at, i
    <3>. QED  BY <1>10, <3>1, SizeUnique
  <2>3. Padded(size) \in Nat /\ Padded(size) > 0
    <3>1. size \in Nat /\ size > 0
      BY <1>3
    <3>2. Padded(size) \in Nat /\ Padded(size) >= size
      <4>. HIDE DEF size
      <4>. QED  BY <3>1, PaddedFacts
    <3>. HIDE DEF size
    <3>. QED  BY <3>1, <3>2
  <2>. DEFINE strings == file.strings \union {row}
              total == file.size + Padded(size)
  <2>4. file.size + size + ((4 - (size % 4)) % 4) = total
    <3>1. size \in Nat /\ file.size \in Nat /\ (4 - (size % 4)) % 4 \in Nat
      BY <1>3
    <3>. HIDE DEF size
    <3>. QED  BY <3>1 DEF Padded
  <2>5. strings \in SUBSET [at : Int, text : TextValues, status : Status]
    <3>1. row \in [at : Int, text : TextValues, status : Status]
      BY <1>3
    <3>2. file.strings \subseteq [at : Int, text : TextValues, status : Status]
      BY <1>2 DEF FileContent
    <3>. HIDE DEF row
    <3>. QED  BY <3>1, <3>2
  <2>6. total \in Nat /\ total > file.size
    <3>. HIDE DEF size
    <3>. QED  BY <1>3, <2>3
  <2>7. /\ file' \in FileContent /\ file'.words = file.words /\ file'.nof0 = file.nof0
        /\ file'.rel0 = file.rel0 /\ file'.announced = file.announced
        /\ file'.size = total /\ file'.strings = strings
    <3>1. file' = [file EXCEPT !.strings = strings, !.size = total]
      BY <2>1, <2>4
    <3>. HIDE DEF strings, total
    <3>. QED  BY <1>2, <2>5, <2>6, <3>1 DEF FileContent
  <2>8. SizeIs(entries, at, i + 1, total)
    <3>1. SizeIs(entries, at, i + 1, file.size + Padded(Size(entries[i].text, entries[i].status)))
      <4>. HIDE DEF i, at
      <4>. QED  BY <1>2, <1>16, <2>2, SizeGrows
    <3>. QED  BY <3>1
  <2>9. /\ DOMAIN reuse' = DOMAIN reuse \cup {entry.text}
        /\ reuse'[entry.text] = [status |-> entry.status, at |-> file.size]
        /\ \A t \in DOMAIN reuse : t # entry.text => reuse'[t] = reuse[t]
    <3>. HIDE DEF entry
    <3>. QED  BY <2>1, RememberFacts
  <2>10. Remembered(entries, at, i + 1, reuse')
    <3>1. reuse'[entries[i].text] = [status |-> entries[i].status, at |-> at[i]]
      BY <2>2, <2>9
    <3>. HIDE DEF i, at
    <3>. QED  BY <1>2, <1>10, <2>1, <2>9, <3>1, RememberedGrows
  <2>11. \A t \in DOMAIN reuse' : reuse'[t] \in [status : Status \ {"None"}, at : Nat]
    <3>1. entry.status \in Status \ {"None"}
      BY <1>3, <2>1 DEF HasText
    <3>. HIDE DEF entry
    <3>. QED  BY <1>2, <1>3, <2>1, <3>1, RememberTyped
  <2>12. \A k \in 1 .. i : HasText(entries, k) =>
            [at |-> at[k], text |-> entries[k].text, status |-> entries[k].status] \in strings
    <3>1. [at |-> at[i], text |-> entries[i].text, status |-> entries[i].status] \in strings
      BY <2>2
    <3>. HIDE DEF i, at, row
    <3>. QED  BY <1>10, <1>13, <3>1
  <2>13. \A s, t \in strings : s.at < total /\ (s.at = t.at => s = t)
    <3>1. row.at = file.size
      OBVIOUS
    <3>2. \A s \in file.strings : s.at \in Int
      BY <1>2, ContentFacts
    <3>3. \A s \in strings : s.at \in Int /\ s.at <= file.size /\ (s.at = file.size => s = row)
      <4>. HIDE DEF row
      <4>. QED  BY <1>3, <1>10, <3>1, <3>2
    <3>4. ASSUME NEW s \in strings, NEW t \in strings PROVE s.at < total /\ (s.at = t.at => s = t)
      <4>1. s.at < total
        <5>. HIDE DEF total, strings
        <5>. QED  BY <1>3, <2>6, <3>3
      <4>2. ASSUME s.at = t.at PROVE s = t
        <5>1. CASE s.at = file.size
          <6>. HIDE DEF strings, row
          <6>. QED  BY <3>3, <4>2, <5>1
        <5>2. CASE s.at # file.size
          <6>1. s \in file.strings /\ t \in file.strings
            <7>. HIDE DEF row
            <7>. QED  BY <3>1, <4>2, <5>2
          <6>. QED  BY <1>10, <4>2, <6>1
        <5>. QED  BY <5>1, <5>2
      <4>. QED  BY <4>1, <4>2
    <3>. HIDE DEF strings, total
    <3>. QED  BY <3>4
  <2>. HIDE DEF strings, total, at, entry, row
  <2>. QED  BY <2>7, <2>8, <2>10, <2>11, <2>12, <2>13
<1>17. Kept
  <2>1. Fresh(entries, i) => HasText(entries, i)
    BY DEF Fresh
  <2>. HIDE DEF Kept
  <2>. QED  BY <1>14, <1>15, <1>16, <2>1
<1>18. ValuesWritten'
  <2>1. Reached("Values") = n + 1 /\ Reached("Values")' = n + 1
    BY <1>1, <1>5 DEF Reached
  <2>2. Before' = Before /\ phase' # "Values" /\ phase # "Values"
    BY <1>1, <1>5 DEF Before
  <2>3. /\ file.rel0 = entrySize + 8 /\ file.announced = stringSize
        /\ Len(file.nof0) = (n + 1) - 1 /\ Len(file.words) = Before[n + 1]
        /\ \A k \in 1 .. (n + 1) - 1 :
              /\ file.nof0[k] = 16 + 4 * Before[k]
              /\ \A w \in DOMAIN entries[k].value : file.words[Before[k] + w] = entries[k].value[w]
    BY <1>1, <2>1 DEF TextInv, ValuesWritten
  <2>4. /\ file'.words = file.words /\ file'.nof0 = file.nof0
        /\ file'.rel0 = file.rel0 /\ file'.announced = file.announced
    BY <1>17
  <2>. HIDE DEF n, Kept
  <2>. QED  BY <1>1, <2>1, <2>2, <2>3, <2>4 DEF ValuesWritten
<1>19. StringsWritten'
  <2>1. \A k \in 1 .. (i + 1) - 1 : k \in 1 .. i
    BY <1>2
  <2>2. /\ SizeIs(entries', Offsets', i + 1, file'.size)
        /\ Remembered(entries', Offsets', i + 1, reuse')
        /\ \A k \in 1 .. (i + 1) - 1 : HasText(entries', k) =>
              [at |-> Offsets'[k], text |-> entries'[k].text, status |-> entries'[k].status] \in file'.strings
        /\ \A s, t \in file'.strings : s.at < file'.size /\ (s.at = t.at => s = t)
    <3>. HIDE DEF at, i
    <3>. QED  BY <1>1, <1>7, <1>17, <2>1
  <2>. HIDE DEF i
  <2>. QED  BY <1>4, <2>2 DEF StringsWritten
<1>20. TextTypeOK'
  <2>1. index' \in Nat \ {0} /\ index' <= n /\ phase' \in Loops \cup {"Written"}
        /\ (phase' \notin Loops => index' = 1) /\ phase' # "Parse"
    <3>1. CASE i < n /\ phase' = "Strings" /\ index' = i + 1
      BY <1>2, <3>1 DEF Loops
    <3>2. CASE i = n /\ phase' = "Written" /\ index' = 1
      BY <1>2, <3>2 DEF Loops
    <3>. QED  BY <1>4, <3>1, <3>2
  <2>2. /\ pairs' \in Seq(FilePair) /\ pairMode' \in BOOLEAN /\ pair' \in 0 .. Len(entries')
        /\ entrySize' \in Nat /\ stringSize' \in Nat /\ (stringSize' % 4) = 0
        /\ entries' \in Seq(FileEntry) /\ Len(entries') = n
    BY <1>1 DEF TextInv, TextTypeOK
  <2>3. file' \in FileContent
        /\ \A t \in DOMAIN reuse' : reuse'[t] \in [status : Status \ {"None"}, at : Nat]
    BY <1>17
  <2>. QED  BY <2>1, <2>2, <2>3 DEF TextTypeOK
<1>. QED  BY <1>8, <1>9, <1>18, <1>19, <1>20 DEF TextInv

\* Each entry's words are read from where they were written.
\* The words of es are in f, and NOF0 says where; before is their WordsBefore.
Holds(f, es, before) ==
    /\ Len(f.nof0) = Len(es) /\ Len(f.words) = before[Len(es) + 1]
    /\ \A k \in 1 .. Len(es) : f.nof0[k] = 16 + 4 * before[k]
    /\ \A k \in 1 .. Len(es) : \A w \in DOMAIN es[k].value :
          f.words[before[k] + w] = es[k].value[w]

LEMMA ValueWritten ==
    ASSUME NEW es \in Seq(FileEntry), es # <<>>, Len(es[Len(es)].value) = 2,
           NEW f \in FileContent, Holds(f, es, WordsBefore(Lengths(es))), NEW k \in 1 .. Len(es)
    PROVE  Value(f, k) = es[k].value
<1>. DEFINE B == WordsBefore(Lengths(es))
<1>a. /\ Len(f.nof0) = Len(es) /\ Len(f.words) = B[Len(es) + 1]
      /\ \A j \in 1 .. Len(es) : f.nof0[j] = 16 + 4 * B[j]
      /\ \A j \in 1 .. Len(es) : \A w \in DOMAIN es[j].value : f.words[B[j] + w] = es[j].value[w]
  BY Zenon DEF Holds
<1>b. /\ B \in [1 .. Len(es) + 1 -> Nat] /\ B[1] = 0
      /\ \A j \in 1 .. Len(es) : B[j + 1] = B[j] + Len(es[j].value)
      /\ \A a, c \in 1 .. Len(es) + 1 : a < c => B[a] < B[c]
  BY BeforeFacts
<1>. HIDE DEF B
<1>. DEFINE n == Len(es)
            value == es[k].value
            b == B[k]
            m == Len(value)
<1>1. /\ B \in [1 .. n + 1 -> Nat] /\ B[1] = 0
      /\ \A j \in 1 .. n : B[j + 1] = B[j] + Len(es[j].value)
      /\ \A a, c \in 1 .. n + 1 : a < c => B[a] < B[c]
  BY <1>b
<1>2. n \in Nat /\ value \in Seq(Int) /\ m \in Nat \ {0} /\ f.words \in Seq(Int) /\ DOMAIN value = 1 .. m
  BY EntryFacts, ContentFacts, LenProperties
<1>3. k \in Nat /\ k \in 1 .. n + 1 /\ k + 1 \in 1 .. n + 1 /\ n + 1 \in 1 .. n + 1 /\ 1 \in 1 .. n
      /\ (k + 1 = n + 1 \/ k + 1 < n + 1)
  BY <1>2
<1>4. b \in Nat /\ B[k + 1] = b + m /\ B[n + 1] \in Nat /\ b + m <= Len(f.words)
  <2>1. b \in Nat /\ B[k + 1] = b + m /\ B[n + 1] \in Nat /\ B[k + 1] \in Nat
    BY <1>1, <1>3
  <2>2. B[k + 1] = B[n + 1] \/ B[k + 1] < B[n + 1]
    BY <1>1, <1>3
  <2>3. Len(f.words) = B[n + 1]
    BY <1>a
  <2>. HIDE DEF b, m, n
  <2>. QED  BY <2>1, <2>2, <2>3
<1>5. (f.nof0[k] - f.nof0[1]) \div 4 = b
  <2>1. f.nof0[k] = 16 + 4 * b /\ f.nof0[1] = 16 + 4 * 0
    BY <1>1, <1>3, <1>a
  <2>. HIDE DEF b
  <2>. QED  BY <1>4, <2>1
<1>6. (IF k < Len(f.nof0) THEN (f.nof0[k + 1] - f.nof0[k]) \div 4 ELSE 2) = m
  <2>1. CASE k < n
    <3>1. k + 1 \in 1 .. n
      BY <1>2, <1>3, <2>1
    <3>2. f.nof0[k] = 16 + 4 * b /\ f.nof0[k + 1] = 16 + 4 * (b + m)
      BY <1>4, <1>a, <3>1
    <3>3. (f.nof0[k + 1] - f.nof0[k]) \div 4 = m
      <4>. HIDE DEF b, m
      <4>. QED  BY <1>2, <1>4, <3>2
    <3>. QED  BY <1>a, <2>1, <3>3
  <2>2. CASE ~(k < n)
    <3>1. k = n
      BY <1>2, <2>2
    <3>. QED  BY <1>a, <2>2, <3>1
  <2>. QED  BY <2>1, <2>2
<1>7. Value(f, k) = SubSeq(f.words, b + 1, b + m)
  <2>. HIDE DEF b, m
  <2>. QED  BY <1>5, <1>6 DEF Value
<1>. HIDE DEF b, m
<1>8. \A w \in b + 1 .. b + m : f.words[w] \in Int
  <2>1. \A w \in b + 1 .. b + m : w \in 1 .. Len(f.words)
    BY <1>2, <1>4, LenProperties
  <2>. QED  BY <1>2, <2>1, ElementOfSeq
<1>9. /\ SubSeq(f.words, b + 1, b + m) \in Seq(Int)
      /\ Len(SubSeq(f.words, b + 1, b + m)) = m
      /\ \A w \in 1 .. m : SubSeq(f.words, b + 1, b + m)[w] = f.words[b + w]
  <2>1. b + 1 \in Int /\ b + m \in Int /\ b + 1 <= b + m /\ (b + m) - (b + 1) + 1 = m
        /\ \A w \in 1 .. m : (b + 1) + w - 1 = b + w
    <3>1. b \in Nat /\ m \in Nat /\ m # 0
      BY <1>2, <1>4
    <3>. QED  BY <3>1
  <2>. DEFINE lo == b + 1
              hi == b + m
  <2>2. /\ SubSeq(f.words, lo, hi) \in Seq(Int)
        /\ Len(SubSeq(f.words, lo, hi)) = IF lo <= hi THEN hi - lo + 1 ELSE 0
        /\ \A w \in 1 .. hi - lo + 1 : SubSeq(f.words, lo, hi)[w] = f.words[lo + w - 1]
    <3>1. lo \in Int /\ hi \in Int /\ \A w \in lo .. hi : f.words[w] \in Int
      BY <1>8, <2>1
    <3>. HIDE DEF lo, hi
    <3>. QED  BY <3>1, SubSeqProperties
  <2>. QED  BY <2>1, <2>2
<1>10. \A w \in 1 .. m : f.words[b + w] = value[w]
  BY <1>2, <1>a DEF b
<1>. DEFINE part == SubSeq(f.words, b + 1, b + m)
<1>11. \A w \in 1 .. m : part[w] = value[w]
  BY <1>9, <1>10
<1>12. Len(value) = m
  BY DEF m
<1>13. part \in Seq(Int) /\ Len(part) = m
  BY <1>9
<1>14. part = value
  <2>. HIDE DEF part, value
  <2>. QED  BY <1>2, <1>11, <1>12, <1>13, SeqEqual
<1>. QED  BY <1>7, <1>14

\* What was written is a file, and says what was intended.
LEMMA NewTextFileKeeps == ASSUME TextInv, NewTextFile PROVE TextInv'
<1>. DEFINE n == Len(entries)
            es == intended.entries
            ps == intended.pairs
<1>1. /\ phase = "Written" /\ phase' = "Parse" /\ index' = 1
      /\ entries' = <<>> /\ pairs' = <<>> /\ pairMode' = FALSE /\ pair' = 0
      /\ UNCHANGED <<reuse, entrySize, stringSize, file, intended>>
  BY DEF NewTextFile
<1>2. /\ entries \in Seq(FileEntry) /\ n \in Nat \ {0} /\ DOMAIN entries = 1 .. n
      /\ file \in FileContent /\ entrySize \in Nat /\ entries # <<>>
      /\ Len(entries[n].value) = 2 /\ n \in 1 .. n
  <2>1. entries # <<>> /\ Len(entries[n].value) = 2
    BY <1>1 DEF TextInv, Parsing
  <2>2. entries \in Seq(FileEntry) /\ n \in Nat /\ DOMAIN entries = 1 .. n
        /\ file \in FileContent /\ entrySize \in Nat
    BY <1>1, LenProperties DEF TextInv, TextTypeOK
  <2>3. n # 0
    BY <2>1, <2>2, EmptySeq
  <2>. QED  BY <2>1, <2>2, <2>3
<1>3. /\ file.rel0 = entrySize + 8
      /\ Len(file.nof0) = n /\ Len(file.words) = Before[n + 1]
      /\ \A k \in 1 .. n : /\ file.nof0[k] = 16 + 4 * Before[k]
                           /\ \A w \in DOMAIN entries[k].value :
                                 file.words[Before[k] + w] = entries[k].value[w]
  <2>1. Reached("Values") = n + 1 /\ (n + 1) - 1 = n
    BY <1>1, <1>2 DEF Reached
  <2>. QED  BY <1>1, <2>1 DEF TextInv, ValuesWritten
<1>4. /\ \A k \in 1 .. n : HasText(entries, k) =>
            [at |-> Offsets[k], text |-> entries[k].text, status |-> entries[k].status] \in file.strings
      /\ \A s, t \in file.strings : s.at = t.at => s = t
  <2>1. Reached("Strings") = n + 1 /\ (n + 1) - 1 = n
    BY <1>1, <1>2 DEF Reached
  <2>. QED  BY <1>1, <2>1 DEF TextInv, StringsWritten
<1>5. entrySize = 4 * Before[n + 1] /\ \A k \in 1 .. n : HasText(entries, k) => Offsets[k] \in Nat
  <2>1. Reached("Layout") = n + 1 /\ (n + 1) - 1 = n
    BY <1>1, <1>2 DEF Reached
  <2>2. entrySize = 4 * Before[n + 1] /\ LaidOut(entries, Offsets, n + 1)
    BY <1>1, <2>1 DEF TextInv, Laid, Writing
  <2>. QED  BY <2>1, <2>2 DEF LaidOut
<1>6. /\ Before \in [1 .. n + 1 -> Nat] /\ Before[1] = 0
      /\ \A k \in 1 .. n : Before[k + 1] = Before[k] + Len(entries[k].value)
      /\ \A j, k \in 1 .. n + 1 : j < k => Before[j] < Before[k]
  BY <1>2, BeforeFacts DEF Before
<1>7. Before[n + 1] = Before[n] + 2 /\ Before[n] \in Nat
  <2>1. n \in 1 .. n + 1
    BY <1>2
  <2>. QED  BY <1>2, <1>6, <2>1
<1>8. ASSUME NEW k \in 1 .. n PROVE Value(file, k) = entries[k].value
  <2>. DEFINE B == Before
  <2>1. B = WordsBefore(Lengths(entries))
    BY DEF Before
  <2>2. /\ Len(file.nof0) = Len(entries) /\ Len(file.words) = B[Len(entries) + 1]
        /\ \A j \in 1 .. Len(entries) : file.nof0[j] = 16 + 4 * B[j]
        /\ \A j \in 1 .. Len(entries) : \A w \in DOMAIN entries[j].value :
              file.words[B[j] + w] = entries[j].value[w]
        /\ Len(entries[Len(entries)].value) = 2 /\ k \in 1 .. Len(entries)
    BY <1>2, <1>3
  <2>3. entries \in Seq(FileEntry) /\ entries # <<>> /\ file \in FileContent
    BY <1>2
  <2>. HIDE DEF B, n
  <2>4. Holds(file, entries, WordsBefore(Lengths(entries)))
    BY <2>1, <2>2, Zenon DEF Holds
  <2>5. Len(entries[Len(entries)].value) = 2 /\ k \in 1 .. Len(entries)
    BY <2>2
  <2>. QED  BY <2>3, <2>4, <2>5, ValueWritten
<1>9. ASSUME NEW k \in 1 .. n, HasText(entries, k)
      PROVE  /\ Len(entries[k].value) = 1 /\ entries[k].value[1] \notin {StartMark, EndMark}
             /\ entries[k].value[1] - file.rel0 - 8 = Offsets[k]
  <2>1. Moved(k)
    BY <1>1, <1>9 DEF Moved
  <2>2. Offsets[k] = entries[k].value[1] - (entrySize + 16)
    BY <1>2, <2>1 DEF Offsets
  <2>3. entries[k].value[1] \in Int
    BY <1>2, EntryFacts
  <2>4. Offsets[k] \in Nat /\ entrySize >= 8
    BY <1>2, <1>5, <1>7, <1>9
  <2>5. entries[k].value[1] >= 24 /\ entries[k].value[1] - file.rel0 - 8 = Offsets[k]
    <3>. DEFINE v == entries[k].value[1]
                o == Offsets[k]
                r == file.rel0
    <3>1. v \in Int /\ o \in Nat /\ o = v - (entrySize + 16) /\ r = entrySize + 8
      BY <1>3, <2>2, <2>3, <2>4
    <3>. HIDE DEF v, o, r
    <3>2. v >= 24 /\ v - r - 8 = o
      BY <1>2, <2>4, <3>1
    <3>. QED  BY <3>2 DEF v, o, r
  <2>6. entries[k].value[1] \notin {StartMark, EndMark}
    BY <2>3, <2>5 DEF StartMark, EndMark
  <2>7. Len(entries[k].value) = 1
    <3>1. Parsed(entries, n + 1) /\ k \in 1 .. (n + 1) - 1
      BY <1>2 DEF TextInv, Parsing
    <3>. HIDE DEF n
    <3>. QED  BY <1>9, <3>1 DEF Parsed
  <2>. QED  BY <2>5, <2>6, <2>7
<1>10. IsFile(file)
  <2>1. file.nof0 # <<>>
    <3>1. Len(file.nof0) # 0
      BY <1>2, <1>3
    <3>. QED  BY <3>1
  <2>2. ASSUME NEW j \in DOMAIN file.nof0, NEW k \in DOMAIN file.nof0, j < k
        PROVE  file.nof0[j] < file.nof0[k] /\ ((file.nof0[k] - file.nof0[j]) % 4) = 0
    <3>1. j \in 1 .. n /\ k \in 1 .. n
      BY <1>2, <1>3, ContentFacts, LenProperties
    <3>. DEFINE b == Before[j]
                c == Before[k]
    <3>2. j \in 1 .. n + 1 /\ k \in 1 .. n + 1
      BY <1>2, <3>1
    <3>3. b \in Nat /\ c \in Nat /\ b < c
      BY <1>6, <2>2, <3>2
    <3>4. file.nof0[j] = 16 + 4 * b /\ file.nof0[k] = 16 + 4 * c
      BY <1>3, <3>1
    <3>. HIDE DEF b, c
    <3>5. file.nof0[k] - file.nof0[j] = 4 * (c - b) /\ c - b \in Nat
      BY <3>3, <3>4
    <3>. QED  BY <3>3, <3>4, <3>5
  <2>3. 4 * Len(file.words) = file.nof0[Len(file.nof0)] - file.nof0[1] + 8
    <3>1. Len(file.words) = Before[n] + 2 /\ file.nof0[n] = 16 + 4 * Before[n]
          /\ file.nof0[1] = 16 + 4 * 0 /\ Len(file.nof0) = n
      BY <1>2, <1>3, <1>6, <1>7
    <3>2. file.nof0[Len(file.nof0)] = 16 + 4 * Before[n] /\ Before[n] \in Nat
      BY <1>7, <3>1
    <3>. DEFINE b == Before[n]
    <3>3. Len(file.words) = b + 2 /\ file.nof0[Len(file.nof0)] = 16 + 4 * b /\ file.nof0[1] = 16 /\ b \in Nat
      BY <3>1, <3>2
    <3>. HIDE DEF b
    <3>. QED  BY ONLY <3>3
  <2>4. ASSUME NEW k \in DOMAIN file.nof0 PROVE Value(file, k) # <<EndMark>>
    <3>1. k \in 1 .. n
      BY <1>2, <1>3, ContentFacts, LenProperties
    <3>2. Value(file, k) = entries[k].value
      BY <1>8, <3>1
    <3>3. Len(entries[k].value) # 1 \/ entries[k].value[1] # EndMark
      <4>1. CASE HasText(entries, k)
        BY <1>9, <3>1, <4>1
      <4>2. CASE ~HasText(entries, k)
        <5>1. Parsed(entries, n + 1) /\ k \in 1 .. (n + 1) - 1
          BY <1>2, <3>1 DEF TextInv, Parsing
        <5>2. Len(entries[k].value) # 1 \/ entries[k].value[1] = StartMark
          <6>. HIDE DEF n
          <6>. QED  BY <4>2, <5>1 DEF Parsed
        <5>. QED  BY <5>2 DEF StartMark, EndMark
      <4>. QED  BY <4>1, <4>2
    <3>4. Len(<<EndMark>>) = 1 /\ <<EndMark>>[1] = EndMark
      OBVIOUS
    <3>. QED  BY <3>2, <3>3, <3>4
  <2>. QED  BY <1>2, <2>1, <2>2, <2>3, <2>4 DEF IsFile
<1>11. TextTypeOK'
  <2>1. entries' \in Seq(FileEntry) /\ pairs' \in Seq(FilePair) /\ Len(entries') = 0
    BY <1>1, EmptySeq
  <2>2. index' \in Nat \ {0} /\ index' <= Len(file'.nof0) /\ Len(entries') = index' - 1
        /\ pair' \in 0 .. Len(entries') /\ pairMode' \in BOOLEAN
    <3>1. index' = 1 /\ pair' = 0 /\ pairMode' = FALSE /\ file' = file
      BY <1>1
    <3>2. Len(file'.nof0) = n
      BY <1>3, <3>1
    <3>. HIDE DEF n
    <3>3. n \in Nat /\ n >= 1
      BY <1>2
    <3>4. index' \in Nat \ {0} /\ index' <= n /\ Len(entries') = index' - 1 /\ pair' \in 0 .. Len(entries')
      BY <2>1, <3>1, <3>3
    <3>5. pairMode' \in BOOLEAN
      BY <1>1
    <3>. QED  BY <3>2, <3>4, <3>5
  <2>3. /\ \A t \in DOMAIN reuse' : reuse'[t] \in [status : Status \ {"None"}, at : Nat]
        /\ entrySize' \in Nat /\ stringSize' \in Nat /\ (stringSize' % 4) = 0 /\ file' \in FileContent
    BY <1>1 DEF TextInv, TextTypeOK
  <2>. QED  BY <1>1, <2>1, <2>2, <2>3 DEF TextTypeOK, Loops
<1>12. Laid' /\ ValuesWritten' /\ StringsWritten'
  BY <1>1 DEF Laid, ValuesWritten, StringsWritten, Writing
<1>13. Len(entries') = 0 /\ DOMAIN entries' = {} /\ DOMAIN pairs' = {} /\ Len(pairs') = 0
  BY <1>1
<1>14. Parsing'
  <2>1. Parsed(entries', Len(entries') + 1) /\ Paired(entries', pairs', Len(entries') + 1)
    BY <1>13 DEF Parsed, Paired
  <2>2. ~PairModeAt(entries', index')
    BY <1>1 DEF PairModeAt
  <2>3. pairMode' = PairModeAt(entries', index')
    BY <1>1, <2>2, Zenon DEF PairModeAt
  <2>4. IsFile(file')
    BY <1>1, <1>10
  <2>. QED  BY <1>1, <1>13, <2>1, <2>3, <2>4 DEF Parsing
<1>15. Intended'
  <2>. SUFFICES ASSUME intended # NoFile PROVE Intended'
    BY <1>1 DEF Intended, Writing
  <2>1. /\ ps = pairs /\ Len(es) = n
        /\ ReadsAs(es, n + 1) /\ \A k \in DOMAIN entries : entries[k].text = es[k].text
        /\ es \in Seq(FileEntry) /\ ps \in Seq(FilePair)
        /\ Parsed(es, Len(es) + 1) /\ Paired(es, ps, Len(es) + 1)
    BY <1>1 DEF TextInv, Intended, Writing
  <2>2. ASSUME NEW k \in 1 .. n
        PROVE  /\ entries[k].status = es[k].status /\ entries[k].text = es[k].text
               /\ HasText(entries, k) <=> HasText(es, k)
               /\ ~HasText(es, k) => entries[k].value = es[k].value
    <3>1. k \in 1 .. (n + 1) - 1
      BY <1>2
    <3>2. entries[k].status = es[k].status /\ (~HasText(es, k) => entries[k].value = es[k].value)
      <4>. HIDE DEF n, es
      <4>. QED  BY <2>1, <3>1 DEF ReadsAs
    <3>. QED  BY <1>2, <2>1, <3>2 DEF HasText
  <2>3. Encodes(file, es)
    <3>1. DOMAIN es = 1 .. n
      BY <2>1, LenProperties
    <3>2. ASSUME NEW k \in DOMAIN es, ~HasText(es, k) PROVE Value(file, k) = es[k].value
      BY <1>8, <2>2, <3>1, <3>2
    <3>3. ASSUME NEW k \in DOMAIN es, HasText(es, k)
          PROVE  /\ Len(Value(file, k)) = 1 /\ Value(file, k)[1] \notin {StartMark, EndMark}
                 /\ [at |-> Value(file, k)[1] - file.rel0 - 8, text |-> es[k].text,
                     status |-> es[k].status] \in file.strings
      <4>1. k \in 1 .. n /\ HasText(entries, k)
        BY <2>2, <3>1, <3>3
      <4>2. Value(file, k) = entries[k].value
        BY <1>8, <4>1
      <4>3. Len(Value(file, k)) = 1 /\ Value(file, k)[1] \notin {StartMark, EndMark}
            /\ Value(file, k)[1] - file.rel0 - 8 = Offsets[k]
        BY <1>9, <4>1, <4>2
      <4>4. [at |-> Offsets[k], text |-> entries[k].text, status |-> entries[k].status] \in file.strings
        BY <1>4, <4>1
      <4>5. entries[k].text = es[k].text /\ entries[k].status = es[k].status
        BY <2>2, <4>1
      <4>. HIDE DEF es
      <4>. QED  BY <4>3, <4>4, <4>5
    <3>4. Len(file.nof0) = Len(es)
      BY <1>3, <2>1
    <3>. HIDE DEF es
    <3>. QED  BY <1>4, <3>2, <3>3, <3>4 DEF Encodes
  <2>4. ReadsAs(es, Len(entries) + 1)'
    BY <1>1, <1>13 DEF ReadsAs
  <2>5. \A q \in DOMAIN ps : ps[q].stringIndex > 0
    <3>1. \A q \in 1 .. Len(ps) : ps[q] \in FilePair
      BY <2>1, ElementOfSeq
    <3>2. DOMAIN ps = 1 .. Len(ps)
      BY <2>1, LenProperties
    <3>3. \A p \in FilePair : p.stringIndex > 0
      BY DEF FilePair
    <3>. QED  BY <3>1, <3>2, <3>3
  <2>6. Len(ps) \in Nat /\ DOMAIN ps = 1 .. Len(ps)
    BY <2>1, LenProperties
  <2>. QED  BY <1>1, <1>13, <2>1, <2>3, <2>4, <2>5, <2>6 DEF Intended, Writing
<1>. QED  BY <1>11, <1>12, <1>14, <1>15 DEF TextInv

-----------------------------------------------------------------------------
(* TextFile: what parse makes of the next entry.                            *)

LEMMA FilesFacts ==
    ASSUME NEW f, IsFile(f), NEW n, n = Len(f.nof0)
    PROVE  /\ f \in FileContent /\ n \in Nat \ {0} /\ f.words \in Seq(Int) /\ DOMAIN f.nof0 = 1 .. n
           /\ \A k \in 1 .. n : f.nof0[k] \in Nat
           /\ \A j, k \in 1 .. n : j < k =>
                 f.nof0[j] < f.nof0[k] /\ ((f.nof0[k] - f.nof0[j]) % 4) = 0
           /\ 4 * Len(f.words) = f.nof0[n] - f.nof0[1] + 8
           /\ \A k \in 1 .. n : Value(f, k) # <<EndMark>>
<1>1. f \in FileContent /\ f.nof0 # <<>>
  BY DEF IsFile
<1>2. f.nof0 \in Seq(Nat) /\ f.words \in Seq(Int)
  BY <1>1, ContentFacts
<1>3. \A v \in Seq(Nat) : v # <<>> => Len(v) \in Nat \ {0} /\ DOMAIN v = 1 .. Len(v)
  BY EmptySeq, LenProperties
<1>4. n \in Nat \ {0} /\ DOMAIN f.nof0 = 1 .. n
  BY <1>1, <1>2, <1>3
<1>5. \A k \in 1 .. n : f.nof0[k] \in Nat
  BY <1>2, ElementOfSeq
<1>. QED  BY <1>1, <1>2, <1>4, <1>5, Zenon DEF IsFile

\* Each entry has a word; the last one has two.
LEMMA ValueTyped ==
    ASSUME NEW f, IsFile(f), NEW k \in 1 .. Len(f.nof0)
    PROVE  /\ Value(f, k) \in Seq(Int) \ {<<>>} /\ Len(Value(f, k)) \in Nat \ {0}
           /\ Value(f, k)[1] \in Int
           /\ k = Len(f.nof0) => Len(Value(f, k)) = 2
<1>. DEFINE n == Len(f.nof0)
            words == IF k < Len(f.nof0) THEN (f.nof0[k + 1] - f.nof0[k]) \div 4 ELSE 2
            from == (f.nof0[k] - f.nof0[1]) \div 4
<1>1. /\ n \in Nat \ {0} /\ f.words \in Seq(Int)
      /\ \A j \in 1 .. n : f.nof0[j] \in Nat
      /\ \A i, j \in 1 .. n : i < j =>
            f.nof0[i] < f.nof0[j] /\ ((f.nof0[j] - f.nof0[i]) % 4) = 0
      /\ 4 * Len(f.words) = f.nof0[n] - f.nof0[1] + 8
  BY FilesFacts
<1>. DEFINE a == f.nof0[1]
            b == f.nof0[k]
            c == f.nof0[k + 1]
            d == f.nof0[n]
            total == Len(f.words)
<1>2. k \in 1 .. n /\ 1 \in 1 .. n /\ n \in 1 .. n /\ k \in Nat /\ (k = 1 \/ 1 < k) /\ (k = n \/ k < n)
      /\ (k < n => k + 1 \in 1 .. n /\ k < k + 1 /\ (k + 1 = n \/ k + 1 < n))
  BY <1>1
<1>3. a \in Nat /\ b \in Nat /\ d \in Nat /\ (k < n => c \in Nat) /\ total \in Nat /\ 4 * total = d - a + 8
  BY <1>1, <1>2, LenProperties
<1>4. (b = a \/ a < b) /\ ((b - a) % 4) = 0
  <2>1. CASE k = 1
    <3>1. b = a
      BY <2>1
    <3>. HIDE DEF a, b
    <3>. QED  BY <1>3, <3>1
  <2>2. CASE 1 < k
    BY <1>1, <1>2, <2>2
  <2>. QED  BY <1>2, <2>1, <2>2
<1>5. k < n => b < c /\ ((c - b) % 4) = 0 /\ (c = d \/ c < d)
  BY <1>1, <1>2
<1>6. k = n => b = d
  OBVIOUS
<1>7. /\ words \in Nat \ {0} /\ from \in Nat /\ from + words <= total
      /\ (k = n => words = 2)
  <2>1. CASE k < n
    <3>1. words = (c - b) \div 4
      BY <2>1
    <3>. HIDE DEF a, b, c, d, total, words, n
    <3>2. from = (b - a) \div 4
      BY DEF a, b
    <3>. HIDE DEF from
    <3>3. b - a = 4 * from /\ from \in Nat
      BY <1>3, <1>4, <3>2
    <3>4. c - b = 4 * words /\ words \in Nat \ {0}
      BY <1>3, <1>5, <2>1, <3>1
    <3>5. c <= d
      BY <1>3, <1>5, <2>1
    <3>6. k # n
      BY <1>1, <1>2, <2>1
    <3>. QED  BY <1>3, <2>1, <3>3, <3>4, <3>5, <3>6
  <2>2. CASE k = n
    <3>1. words = 2
      BY <1>1, <2>2
    <3>. HIDE DEF a, b, c, d, total, words, n
    <3>2. from = (b - a) \div 4
      BY DEF a, b
    <3>. HIDE DEF from
    <3>3. b - a = 4 * from /\ from \in Nat
      BY <1>3, <1>4, <3>2
    <3>4. b = d
      BY <1>6, <2>2
    <3>. QED  BY <1>3, <3>1, <3>3, <3>4
  <2>. QED  BY <1>2, <2>1, <2>2
<1>8. Value(f, k) = SubSeq(f.words, from + 1, from + words)
  BY DEF Value
<1>. HIDE DEF from, words, total
<1>9. /\ SubSeq(f.words, from + 1, from + words) \in Seq(Int)
      /\ Len(SubSeq(f.words, from + 1, from + words)) = words
  <2>. DEFINE lo == from + 1
              hi == from + words
  <2>1. lo \in Int /\ hi \in Int /\ lo <= hi /\ hi - lo + 1 = words
    BY <1>7
  <2>2. \A w \in lo .. hi : w \in 1 .. Len(f.words)
    BY <1>3, <1>7 DEF total
  <2>3. \A w \in lo .. hi : f.words[w] \in Int
    BY <1>1, <2>2, ElementOfSeq
  <2>. HIDE DEF lo, hi
  <2>4. /\ SubSeq(f.words, lo, hi) \in Seq(Int)
        /\ Len(SubSeq(f.words, lo, hi)) = IF lo <= hi THEN hi - lo + 1 ELSE 0
    BY <2>1, <2>3, SubSeqProperties
  <2>. QED  BY <2>1, <2>4 DEF lo, hi
<1>10. ASSUME NEW v \in Seq(Int), Len(v) \in Nat \ {0} PROVE v # <<>> /\ v[1] \in Int
  BY <1>10, EmptySeq, LenProperties
<1>. QED  BY <1>7, <1>8, <1>9, <1>10

LEMMA PairModeStep ==
    ASSUME NEW es, NEW i \in Nat \ {0}
    PROVE  PairModeAt(es, i + 1) <=>
              IsMark(es, i, StartMark) \/ (PairModeAt(es, i) /\ ~IsMark(es, i, EndMark))
<1>1. ASSUME IsMark(es, i, StartMark) PROVE PairModeAt(es, i + 1)
  <2>1. i \in 1 .. (i + 1) - 1 /\ \A m \in i + 1 .. (i + 1) - 1 : FALSE
    OBVIOUS
  <2>. QED  BY <1>1, <2>1 DEF PairModeAt
<1>2. ASSUME PairModeAt(es, i), ~IsMark(es, i, EndMark) PROVE PairModeAt(es, i + 1)
  <2>1. PICK j \in 1 .. i - 1 : /\ IsMark(es, j, StartMark)
                                /\ \A m \in j + 1 .. i - 1 : ~IsMark(es, m, EndMark)
    BY <1>2 DEF PairModeAt
  <2>2. j \in 1 .. (i + 1) - 1 /\ \A m \in j + 1 .. (i + 1) - 1 : m = i \/ m \in j + 1 .. i - 1
    OBVIOUS
  <2>. QED  BY <1>2, <2>1, <2>2 DEF PairModeAt
<1>3. ASSUME PairModeAt(es, i + 1), ~IsMark(es, i, StartMark)
      PROVE  PairModeAt(es, i) /\ ~IsMark(es, i, EndMark)
  <2>1. PICK j \in 1 .. (i + 1) - 1 : /\ IsMark(es, j, StartMark)
                                      /\ \A m \in j + 1 .. (i + 1) - 1 : ~IsMark(es, m, EndMark)
    BY <1>3 DEF PairModeAt
  <2>2. j # i
    BY <1>3, <2>1
  <2>3. j \in 1 .. i - 1 /\ i \in j + 1 .. (i + 1) - 1
        /\ \A m \in j + 1 .. i - 1 : m \in j + 1 .. (i + 1) - 1
    BY <2>2
  <2>. QED  BY <2>1, <2>3 DEF PairModeAt
<1>. QED  BY <1>1, <1>2, <1>3

LEMMA WaitingStep ==
    ASSUME NEW es, NEW i \in Nat \ {0}, NEW j
    PROVE  Waiting(es, j, i + 1) <=>
              \/ j = i /\ es[i].status = "Identifier" /\ PairModeAt(es, i)
              \/ Waiting(es, j, i) /\ ~HasText(es, i) /\ ~IsMark(es, i, EndMark)
<1>1. ASSUME j = i, es[i].status = "Identifier", PairModeAt(es, i) PROVE Waiting(es, j, i + 1)
  <2>1. i \in 1 .. (i + 1) - 1 /\ \A m \in i + 1 .. (i + 1) - 1 : FALSE
    OBVIOUS
  <2>. QED  BY <1>1, <2>1 DEF Waiting
<1>2. ASSUME Waiting(es, j, i), ~HasText(es, i), ~IsMark(es, i, EndMark) PROVE Waiting(es, j, i + 1)
  <2>1. /\ j \in 1 .. i - 1 /\ es[j].status = "Identifier" /\ PairModeAt(es, j)
        /\ \A m \in j + 1 .. i - 1 : ~HasText(es, m) /\ ~IsMark(es, m, EndMark)
    BY <1>2 DEF Waiting
  <2>2. j \in 1 .. (i + 1) - 1 /\ \A m \in j + 1 .. (i + 1) - 1 : m = i \/ m \in j + 1 .. i - 1
    BY <2>1
  <2>. QED  BY <1>2, <2>1, <2>2 DEF Waiting
<1>3. ASSUME Waiting(es, j, i + 1)
      PROVE  \/ j = i /\ es[i].status = "Identifier" /\ PairModeAt(es, i)
             \/ Waiting(es, j, i) /\ ~HasText(es, i) /\ ~IsMark(es, i, EndMark)
  <2>1. /\ j \in 1 .. (i + 1) - 1 /\ es[j].status = "Identifier" /\ PairModeAt(es, j)
        /\ \A m \in j + 1 .. (i + 1) - 1 : ~HasText(es, m) /\ ~IsMark(es, m, EndMark)
    BY <1>3 DEF Waiting
  <2>2. CASE j = i
    BY <2>1, <2>2
  <2>3. CASE j # i
    <3>1. j \in 1 .. i - 1 /\ i \in j + 1 .. (i + 1) - 1
          /\ \A m \in j + 1 .. i - 1 : m \in j + 1 .. (i + 1) - 1
      BY <2>1, <2>3
    <3>. QED  BY <2>1, <3>1 DEF Waiting
  <2>. QED  BY <2>2, <2>3
<1>. QED  BY <1>1, <1>2, <1>3

\* One identifier waits at a time.
LEMMA WaitingOnce ==
    ASSUME NEW es, NEW i \in Nat, NEW j, NEW k, Waiting(es, j, i), Waiting(es, k, i)
    PROVE  j = k
<1>1. j \in 1 .. i - 1 /\ k \in 1 .. i - 1 /\ HasText(es, j) /\ HasText(es, k)
  BY DEF Waiting, HasText
<1>2. ~(j < k)
  <2>1. j < k => k \in j + 1 .. i - 1
    BY <1>1
  <2>. QED  BY <1>1, <2>1 DEF Waiting
<1>3. ~(k < j)
  <2>1. k < j => j \in k + 1 .. i - 1
    BY <1>1
  <2>. QED  BY <1>1, <2>1 DEF Waiting
<1>. QED  BY <1>1, <1>2, <1>3

\* A string is read from where it is, unless it is not there or is not carried.
LEMMA ReadStringFacts ==
    ASSUME NEW at, NEW status, file \in FileContent
    PROVE  /\ ReadString(at, status) \in TextValues
           /\ \A text : /\ [at |-> at, text |-> text, status |-> status] \in file.strings
                        /\ \A s, t \in file.strings : s.at = t.at => s = t
                        /\ Lossless(text, status)
                        => ReadString(at, status) = text
<1>. DEFINE found == {s \in file.strings : s.at = at /\ s.status = status}
            chosen == CHOOSE s \in found : TRUE
<1>1. ReadString(at, status) = IF found = {} THEN Misread
                               ELSE IF Lossless(chosen.text, status) THEN chosen.text ELSE Garbled
  BY Zenon DEF ReadString
<1>2. found # {} => chosen \in found
  OBVIOUS
<1>3. Misread \in TextValues /\ Garbled \in TextValues
  BY DEF TextValues
<1>4. \A s \in found : s.text \in TextValues
  BY ContentFacts
<1>5. ReadString(at, status) \in TextValues
  <2>. HIDE DEF found, chosen
  <2>. QED  BY <1>1, <1>2, <1>3, <1>4
<1>6. ASSUME NEW text, [at |-> at, text |-> text, status |-> status] \in file.strings,
             \A s, t \in file.strings : s.at = t.at => s = t, Lossless(text, status)
      PROVE  ReadString(at, status) = text
  <2>. DEFINE row == [at |-> at, text |-> text, status |-> status]
  <2>1. row.at = at /\ row.text = text /\ row.status = status
    OBVIOUS
  <2>. HIDE DEF row
  <2>2. row \in found
    BY <1>6, <2>1 DEF row
  <2>3. chosen = row
    <3>1. chosen \in found
      BY <1>2, <2>2
    <3>2. chosen \in file.strings /\ chosen.at = row.at /\ row \in file.strings
      <4>. HIDE DEF chosen
      <4>. QED  BY <2>1, <2>2, <3>1
    <3>. HIDE DEF chosen, found
    <3>. QED  BY <1>6, <3>2
  <2>. HIDE DEF chosen, found
  <2>. QED  BY <1>1, <1>6, <2>1, <2>2, <2>3
<1>. QED  BY <1>5, <1>6

\* The pair that a string closes.
PairOf(es, identifier, i) ==
    [identifier |-> es[identifier].text, string |-> es[i].text,
     identifierIndex |-> identifier, stringIndex |-> i]

\* The next entry has the words of the file: a mark, words that are none, a string, or
\* an identifier.
LEMMA ParseEntryFacts ==
    ASSUME TextInv, ParseEntry, NEW i, i = index, NEW n, n = Len(file.nof0)
    PROVE  /\ phase = "Parse" /\ IsFile(file) /\ n \in Nat \ {0} /\ i \in 1 .. n /\ Len(entries) = i - 1
           /\ entries' \in Seq(FileEntry) /\ Len(entries') = i
           /\ \A k \in 1 .. i - 1 : entries'[k] = entries[k]
           /\ entries'[i].value = Value(file, i)
           /\ ~HasText(entries', i) =>
                 /\ entries'[i].text = NoText
                 /\ Len(entries'[i].value) # 1 \/ entries'[i].value[1] = StartMark
           /\ HasText(entries', i) =>
                 /\ Len(entries'[i].value) = 1 /\ entries'[i].value[1] \notin {StartMark, EndMark}
                 /\ entries'[i].text = ReadString(entries'[i].value[1] - file.rel0 - 8, entries'[i].status)
           /\ \/ IsMark(entries', i, StartMark) /\ pairMode' = TRUE /\ pair' = pair /\ pairs' = pairs
              \/ IsMark(entries', i, EndMark) /\ pairMode' = FALSE /\ pair' = 0 /\ pairs' = pairs
              \/ /\ ~HasText(entries', i) /\ ~IsMark(entries', i, StartMark) /\ ~IsMark(entries', i, EndMark)
                 /\ pairMode' = pairMode /\ pair' = pair /\ pairs' = pairs
              \/ /\ entries'[i].status = "String" /\ pair # 0 /\ pairMode' = pairMode /\ pair' = 0
                 /\ pairs' = Append(pairs, PairOf(entries', pair, i))
              \/ /\ entries'[i].status = "Identifier" /\ pair = 0 /\ pairMode' = pairMode
                 /\ (pairMode => pair' = i) /\ (~pairMode => pair' = 0) /\ pairs' = pairs
<1>. DEFINE value == Value(file, i)
            first == value[1]
            mode == Mode(value)
            status == IF Len(value) # 1 \/ first = StartMark THEN "None"
                      ELSE IF mode.pair # 0 THEN "String" ELSE "Identifier"
            text == IF status = "None" THEN NoText ELSE ReadString(first - file.rel0 - 8, status)
            e == [value |-> value, text |-> text, status |-> status]
<1>1. /\ phase = "Parse" /\ entries' = Append(entries, e) /\ pairMode' = mode.pairMode
      /\ pair' = CASE status = "String" -> 0
                   [] status = "Identifier" /\ mode.pairMode -> i
                   [] OTHER -> mode.pair
      /\ pairs' = IF status # "String" THEN pairs
                  ELSE Append(pairs, [identifier |-> entries[mode.pair].text, string |-> text,
                                      identifierIndex |-> mode.pair, stringIndex |-> i])
  BY DEF ParseEntry
<1>2. IsFile(file)
  BY <1>1 DEF TextInv, Parsing
<1>3. /\ entries \in Seq(FileEntry) /\ Len(entries) = i - 1 /\ i \in 1 .. n /\ n \in Nat \ {0}
      /\ pairMode \in BOOLEAN /\ pair \in 0 .. i - 1 /\ file \in FileContent
  <2>1. n \in Nat \ {0}
    BY <1>2, FilesFacts
  <2>. QED  BY <1>1, <2>1 DEF TextInv, TextTypeOK
<1>4. value \in Seq(Int) \ {<<>>} /\ Len(value) \in Nat \ {0} /\ first \in Int /\ value # <<EndMark>>
  <2>1. i \in 1 .. Len(file.nof0) /\ i \in 1 .. n
    BY <1>3
  <2>2. value # <<EndMark>>
    <3>. HIDE DEF value
    <3>. QED  BY <1>2, <2>1, FilesFacts DEF value
  <2>. QED  BY <1>2, <2>1, <2>2, ValueTyped
<1>5. Len(value) = 1 => first # EndMark
  <2>1. ASSUME NEW v \in Seq(Int), Len(v) = 1, v[1] = EndMark PROVE v = <<EndMark>>
    <3>1. <<EndMark>> \in Seq(Int) /\ Len(<<EndMark>>) = 1 /\ <<EndMark>>[1] = EndMark
      BY DEF EndMark
    <3>. QED  BY <2>1, <3>1, SeqEqual
  <2>. HIDE DEF value
  <2>. QED  BY <1>4, <2>1
<1>6. StartMark # EndMark
  BY DEF StartMark, EndMark
<1>7. /\ first = StartMark => mode.pairMode = TRUE /\ mode.pair = pair
      /\ first = EndMark => mode.pairMode = FALSE /\ mode.pair = 0
      /\ first \notin {StartMark, EndMark} => mode.pairMode = pairMode /\ mode.pair = pair
  <2>. HIDE DEF value
  <2>. QED  BY <1>6 DEF Mode
<1>. HIDE DEF mode
<1>8. /\ status \in Status /\ (status = "None" <=> Len(value) # 1 \/ first = StartMark)
      /\ status = "String" => Len(value) = 1 /\ first # StartMark /\ mode.pair # 0
      /\ status = "Identifier" => Len(value) = 1 /\ first # StartMark /\ mode.pair = 0
  BY DEF Status
<1>. HIDE DEF status
<1>9. text \in TextValues /\ (status = "None" => text = NoText)
      /\ (status # "None" => text = ReadString(first - file.rel0 - 8, status))
  <2>1. NoText \in TextValues
    BY DEF TextValues
  <2>. QED  BY <1>3, <2>1, ReadStringFacts
<1>. HIDE DEF text, value
<1>10. e \in FileEntry /\ e.value = value /\ e.text = text /\ e.status = status
  BY <1>4, <1>8, <1>9 DEF FileEntry
<1>. HIDE DEF e
<1>11. /\ entries' \in Seq(FileEntry) /\ Len(entries') = i /\ entries'[i] = e
       /\ \A k \in 1 .. i - 1 : entries'[k] = entries[k]
  <2>1. /\ Append(entries, e) \in Seq(FileEntry) /\ Len(Append(entries, e)) = Len(entries) + 1
        /\ \A k \in 1 .. Len(entries) : Append(entries, e)[k] = entries[k]
        /\ Append(entries, e)[Len(entries) + 1] = e
    BY <1>3, <1>10, AppendProperties
  <2>2. (i - 1) + 1 = i
    BY <1>3
  <2>. QED  BY <1>1, <1>3, <2>1, <2>2
<1>12. entries'[i].value = value /\ entries'[i].text = text /\ entries'[i].status = status
  BY <1>10, <1>11
<1>13. /\ HasText(entries', i) <=> status # "None"
       /\ \A mark : IsMark(entries', i, mark) <=> status = "None" /\ first = mark
  BY <1>12 DEF HasText, IsMark
<1>14. /\ ~HasText(entries', i) => text = NoText /\ (Len(value) # 1 \/ first = StartMark)
       /\ HasText(entries', i) =>
             /\ Len(value) = 1 /\ first \notin {StartMark, EndMark}
             /\ text = ReadString(first - file.rel0 - 8, status)
  BY <1>5, <1>8, <1>9, <1>13
<1>15. CASE status = "None"
  <2>1. pairs' = pairs /\ pair' = mode.pair
    BY <1>1, <1>15
  <2>2. CASE first = StartMark
    <3>1. IsMark(entries', i, StartMark) /\ pairMode' = TRUE /\ pair' = pair
      BY <1>1, <1>7, <1>13, <1>15, <2>1, <2>2
    <3>. QED  BY <1>1, <1>2, <1>3, <1>11, <1>12, <1>14, <2>1, <3>1, Zenon DEF value
  <2>3. CASE first = EndMark
    <3>1. IsMark(entries', i, EndMark) /\ pairMode' = FALSE /\ pair' = 0
      BY <1>1, <1>7, <1>13, <1>15, <2>1, <2>3
    <3>. QED  BY <1>1, <1>2, <1>3, <1>11, <1>12, <1>14, <2>1, <3>1, Zenon DEF value
  <2>4. CASE first \notin {StartMark, EndMark}
    <3>1. ~HasText(entries', i) /\ ~IsMark(entries', i, StartMark) /\ ~IsMark(entries', i, EndMark)
      BY <1>13, <1>15, <2>4
    <3>2. pairMode' = pairMode /\ pair' = pair
      BY <1>1, <1>7, <2>1, <2>4, Zenon
    <3>. QED  BY <1>1, <1>2, <1>3, <1>11, <1>12, <1>14, <2>1, <3>1, <3>2, Zenon DEF value
  <2>. QED  BY <2>2, <2>3, <2>4
<1>16. CASE status # "None"
  <2>1. first \notin {StartMark, EndMark} /\ mode.pair = pair /\ pairMode' = pairMode
        /\ mode.pairMode = pairMode
    <3>1. first \notin {StartMark, EndMark}
      BY <1>13, <1>14, <1>16
    <3>. QED  BY <1>1, <1>7, <3>1, Zenon
  <2>2. CASE status = "String"
    <3>1. pair # 0 /\ pair' = 0
      BY <1>1, <1>8, <2>1, <2>2
    <3>2. entries'[pair] = entries[pair]
      BY <1>3, <1>11, <3>1
    <3>3. pairs' = Append(pairs, PairOf(entries', pair, i))
      BY <1>1, <1>12, <2>1, <2>2, <3>2 DEF PairOf
    <3>. QED  BY <1>1, <1>2, <1>3, <1>11, <1>12, <1>14, <2>1, <2>2, <3>1, <3>3, Zenon DEF value
  <2>3. CASE status = "Identifier"
    <3>1. pair = 0 /\ pairs' = pairs
      BY <1>1, <1>8, <2>1, <2>3
    <3>2. (pairMode => pair' = i) /\ (~pairMode => pair' = 0)
      <4>1. pair' = IF mode.pairMode THEN i ELSE mode.pair
        BY <1>1, <2>3
      <4>2. mode.pairMode = pairMode /\ mode.pair = 0
        BY <2>1, <3>1, Zenon
      <4>. QED  BY <4>1, <4>2, Zenon
    <3>. QED  BY <1>1, <1>2, <1>3, <1>11, <1>12, <1>14, <2>1, <2>3, <3>1, <3>2, Zenon DEF value
  <2>. QED  BY <1>8, <1>16, <2>2, <2>3 DEF Status
<1>. QED  BY <1>15, <1>16

LEMMA ParsedGrows ==
    ASSUME NEW es, NEW i \in Nat \ {0}, Parsed(es, i),
           HasText(es, i) => Len(es[i].value) = 1,
           ~HasText(es, i) => es[i].text = NoText /\ (Len(es[i].value) # 1 \/ es[i].value[1] = StartMark),
           es[i].status = "String" => \E j \in 1 .. i - 1 : Waiting(es, j, i),
           es[i].status = "Identifier" => \A j \in 1 .. i - 1 : ~Waiting(es, j, i)
    PROVE  Parsed(es, i + 1)
<1>1. \A k \in 1 .. (i + 1) - 1 : k = i \/ k \in 1 .. i - 1
  OBVIOUS
<1>. QED  BY <1>1 DEF Parsed

LEMMA PairedStays ==
    ASSUME NEW es, NEW ps, NEW i \in Nat \ {0}, Paired(es, ps, i), es[i].status # "String"
    PROVE  Paired(es, ps, i + 1)
<1>1. \A k \in 1 .. (i + 1) - 1 : k = i \/ k \in 1 .. i - 1
  OBVIOUS
<1>2. \A k \in 1 .. i - 1 : k \in 1 .. (i + 1) - 1
  OBVIOUS
<1>. QED  BY <1>1, <1>2 DEF Paired

LEMMA PairedGrows ==
    ASSUME NEW es, NEW ps \in Seq(FilePair), NEW i \in Nat \ {0}, Paired(es, ps, i),
           es[i].status = "String", NEW p \in FilePair, p.stringIndex = i,
           Waiting(es, p.identifierIndex, i)
    PROVE  Paired(es, Append(ps, p), i + 1)
<1>. DEFINE more == Append(ps, p)
            l == Len(ps)
            at(q) == ps[q].stringIndex
            atMore(q) == more[q].stringIndex
<1>1. /\ more \in Seq(FilePair) /\ Len(more) = l + 1 /\ \A q \in 1 .. l : more[q] = ps[q]
      /\ more[l + 1] = p
  BY AppendProperties
<1>2. l \in Nat /\ DOMAIN ps = 1 .. l /\ DOMAIN more = 1 .. l + 1
  BY <1>1, LenProperties
<1>. HIDE DEF more, l
<1>3. /\ \A q \in 1 .. l : /\ ps[q].stringIndex \in 1 .. i - 1 /\ es[ps[q].stringIndex].status = "String"
                            /\ Waiting(es, ps[q].identifierIndex, ps[q].stringIndex)
                            /\ \A r \in 1 .. l : q < r => ps[q].stringIndex < ps[r].stringIndex
      /\ \A k \in 1 .. i - 1 : es[k].status = "String" => \E q \in 1 .. l : ps[q].stringIndex = k
  BY <1>2, Zenon DEF Paired
<1>4. \A q \in 1 .. l + 1 : q = l + 1 \/ (q \in 1 .. l /\ q < l + 1)
  BY <1>2
<1>5. \A k \in 1 .. i - 1 : k \in 1 .. (i + 1) - 1 /\ k < i
  OBVIOUS
<1>6. i \in 1 .. (i + 1) - 1 /\ l + 1 \in 1 .. l + 1 /\ \A q \in 1 .. l : q \in 1 .. l + 1 /\ ~(l + 1 < q)
  BY <1>2
<1>7. ASSUME NEW q \in 1 .. l + 1
      PROVE  /\ more[q].stringIndex \in 1 .. (i + 1) - 1 /\ es[more[q].stringIndex].status = "String"
             /\ Waiting(es, more[q].identifierIndex, more[q].stringIndex)
  <2>1. CASE q = l + 1
    <3>1. more[q] = p
      BY <1>1, <2>1
    <3>. QED  BY <1>6, <3>1
  <2>2. CASE q \in 1 .. l
    <3>1. more[q] = ps[q]
      BY <1>1, <2>2
    <3>2. /\ ps[q].stringIndex \in 1 .. i - 1 /\ es[ps[q].stringIndex].status = "String"
          /\ Waiting(es, ps[q].identifierIndex, ps[q].stringIndex)
      BY <1>3, <2>2
    <3>. QED  BY <1>5, <3>1, <3>2
  <2>. QED  BY <1>4, <2>1, <2>2
<1>8. ASSUME NEW q \in 1 .. l + 1, NEW r \in 1 .. l + 1, q < r
      PROVE  more[q].stringIndex < more[r].stringIndex
  <2>1. q \in 1 .. l
    BY <1>2, <1>8
  <2>2. more[q] = ps[q] /\ ps[q].stringIndex \in 1 .. i - 1
    BY <1>1, <1>3, <2>1
  <2>3. CASE r = l + 1
    <3>1. more[r].stringIndex = i
      BY <1>1, <2>3
    <3>. QED  BY <1>5, <2>2, <3>1
  <2>4. CASE r \in 1 .. l
    <3>1. more[r] = ps[r] /\ ps[q].stringIndex < ps[r].stringIndex
      BY <1>1, <1>3, <1>8, <2>1, <2>4
    <3>. QED  BY <2>2, <3>1
  <2>. QED  BY <1>4, <2>3, <2>4
<1>9. ASSUME NEW k \in 1 .. (i + 1) - 1, es[k].status = "String"
      PROVE  \E q \in 1 .. l + 1 : more[q].stringIndex = k
  <2>1. CASE k = i
    BY <1>1, <1>6, <2>1
  <2>2. CASE k # i
    <3>1. k \in 1 .. i - 1
      BY <2>2
    <3>2. PICK q \in 1 .. l : ps[q].stringIndex = k
      BY <1>3, <1>9, <3>1
    <3>3. q \in 1 .. l + 1 /\ more[q] = ps[q]
      BY <1>1, <1>6
    <3>. QED  BY <3>2, <3>3
  <2>. QED  BY <2>1, <2>2
<1>10. Paired(es, more, i + 1)
  BY <1>2, <1>7, <1>8, <1>9, Zenon DEF Paired
<1>. QED  BY <1>10 DEF more

\* The pairs that were read so far are the first ones that were written, and the others'
\* strings come later.
Follows(got, ps, i) ==
    /\ Len(got) <= Len(ps)
    /\ \A q \in DOMAIN ps :
          IF q <= Len(got)
          THEN /\ got[q].identifierIndex = ps[q].identifierIndex
               /\ got[q].stringIndex = ps[q].stringIndex
          ELSE ps[q].stringIndex > i

LEMMA FollowsStays ==
    ASSUME NEW es, NEW ps \in Seq(FilePair), NEW got \in Seq(FilePair), NEW n \in Nat, NEW i \in 1 .. n,
           Paired(es, ps, n + 1), es[i].status # "String", Follows(got, ps, i - 1)
    PROVE  Follows(got, ps, i)
<1>1. DOMAIN ps = 1 .. Len(ps) /\ Len(ps) \in Nat /\ Len(got) \in Nat
  BY LenProperties
<1>2. \A q \in DOMAIN ps : ps[q].stringIndex \in 1 .. (n + 1) - 1 /\ es[ps[q].stringIndex].status = "String"
  BY Zenon DEF Paired
<1>3. ASSUME NEW q \in DOMAIN ps, ~(q <= Len(got)) PROVE ps[q].stringIndex > i
  <2>1. ps[q].stringIndex > i - 1
    BY <1>3 DEF Follows
  <2>2. ps[q].stringIndex # i /\ ps[q].stringIndex \in Nat
    BY <1>2
  <2>. QED  BY <2>1, <2>2
<1>. QED  BY <1>3 DEF Follows

LEMMA FollowsGrows ==
    ASSUME NEW es, NEW ps \in Seq(FilePair), NEW got \in Seq(FilePair), NEW n \in Nat, NEW i \in 1 .. n,
           Paired(es, ps, n + 1), es[i].status = "String", Follows(got, ps, i - 1),
           \A q \in DOMAIN got : got[q].stringIndex \in 1 .. i - 1,
           NEW p \in FilePair, p.stringIndex = i, Waiting(es, p.identifierIndex, i)
    PROVE  Follows(Append(got, p), ps, i)
<1>. DEFINE more == Append(got, p)
            l == Len(got)
            z == Len(ps)
<1>1. /\ more \in Seq(FilePair) /\ Len(more) = l + 1 /\ \A q \in 1 .. l : more[q] = got[q]
      /\ more[l + 1] = p
  BY AppendProperties
<1>2. l \in Nat /\ z \in Nat /\ DOMAIN ps = 1 .. z /\ DOMAIN got = 1 .. l
  BY LenProperties
<1>3. l <= z /\ \A q \in 1 .. z : IF q <= l
                                   THEN /\ got[q].identifierIndex = ps[q].identifierIndex
                                        /\ got[q].stringIndex = ps[q].stringIndex
                                   ELSE ps[q].stringIndex > i - 1
  BY <1>2, Zenon DEF Follows
<1>. HIDE DEF more, l, z
<1>4. /\ \A q \in 1 .. z : /\ ps[q].stringIndex \in 1 .. (n + 1) - 1
                            /\ Waiting(es, ps[q].identifierIndex, ps[q].stringIndex)
                            /\ \A r \in 1 .. z : q < r => ps[q].stringIndex < ps[r].stringIndex
      /\ \A k \in 1 .. (n + 1) - 1 : es[k].status = "String" => \E q \in 1 .. z : ps[q].stringIndex = k
  BY <1>2, Zenon DEF Paired
<1>5. PICK m \in 1 .. z : ps[m].stringIndex = i
  <2>1. i \in 1 .. (n + 1) - 1
    OBVIOUS
  <2>. QED  BY <1>4, <2>1
<1>6. ~(m <= l)
  <2>1. SUFFICES ASSUME m <= l PROVE FALSE
    OBVIOUS
  <2>2. m \in 1 .. l
    BY <1>2, <2>1
  <2>3. got[m].stringIndex = i /\ got[m].stringIndex \in 1 .. i - 1
    BY <1>2, <1>3, <1>5, <2>1, <2>2
  <2>4. ~(i \in 1 .. i - 1)
    OBVIOUS
  <2>. QED  BY <2>3, <2>4
<1>7. ~(l + 1 < m)
  <2>1. SUFFICES ASSUME l + 1 < m PROVE FALSE
    OBVIOUS
  <2>2. l + 1 \in 1 .. z /\ ~(l + 1 <= l)
    BY <1>2, <2>1
  <2>. DEFINE v == ps[l + 1].stringIndex
  <2>3. v > i - 1 /\ v < i /\ v \in 1 .. (n + 1) - 1
    BY <1>3, <1>4, <1>5, <2>1, <2>2
  <2>. HIDE DEF v
  <2>. QED  BY <2>3
<1>8. m = l + 1
  BY <1>2, <1>6, <1>7
<1>9. ps[m].identifierIndex = p.identifierIndex
  <2>1. Waiting(es, ps[m].identifierIndex, i) /\ i \in Nat
    BY <1>4, <1>5
  <2>. QED  BY <2>1, WaitingOnce
<1>10. ASSUME NEW q \in 1 .. z
       PROVE  IF q <= l + 1
              THEN /\ more[q].identifierIndex = ps[q].identifierIndex
                   /\ more[q].stringIndex = ps[q].stringIndex
              ELSE ps[q].stringIndex > i
  <2>1. CASE q = m
    <3>1. more[q] = p /\ q <= l + 1
      BY <1>1, <1>2, <1>8, <2>1
    <3>. QED  BY <1>5, <1>9, <2>1, <3>1
  <2>2. CASE q <= l
    <3>1. q \in 1 .. l /\ q <= l + 1
      BY <1>2, <2>2
    <3>2. more[q] = got[q]
      BY <1>1, <3>1
    <3>. QED  BY <1>3, <2>2, <3>1, <3>2
  <2>3. CASE m < q
    <3>1. ~(q <= l + 1)
      BY <1>2, <1>8, <2>3
    <3>2. i < ps[q].stringIndex /\ ps[q].stringIndex \in 1 .. (n + 1) - 1
      BY <1>4, <1>5, <2>3
    <3>. QED  BY <3>1, <3>2
  <2>4. q = m \/ q <= l \/ m < q
    BY <1>2, <1>8
  <2>. QED  BY <2>1, <2>2, <2>3, <2>4
<1>11. l + 1 <= z
  BY <1>2, <1>8
<1>12. Follows(more, ps, i)
  <2>1. Len(more) = l + 1 /\ Len(ps) = z /\ DOMAIN ps = 1 .. z
    BY <1>1, <1>2 DEF z
  <2>2. Len(more) <= Len(ps)
    BY <1>11, <2>1
  <2>3. ASSUME NEW q \in DOMAIN ps
        PROVE  IF q <= Len(more)
               THEN /\ more[q].identifierIndex = ps[q].identifierIndex
                    /\ more[q].stringIndex = ps[q].stringIndex
               ELSE ps[q].stringIndex > i
    BY <1>10, <2>1
  <2>. QED  BY <2>2, <2>3, Zenon DEF Follows
<1>. QED  BY <1>12 DEF more

LEMMA ParseEntryKeeps == ASSUME TextInv, ParseEntry PROVE TextInv'
<1>. DEFINE i == index
            n == Len(file.nof0)
            new == entries'
            value == Value(file, i)
            closed == PairOf(new, pair, i)
            Marked == IsMark(new, i, StartMark) /\ pairMode' = TRUE /\ pair' = pair /\ pairs' = pairs
            Ended == IsMark(new, i, EndMark) /\ pairMode' = FALSE /\ pair' = 0 /\ pairs' = pairs
            Pointless == /\ ~HasText(new, i) /\ ~IsMark(new, i, StartMark) /\ ~IsMark(new, i, EndMark)
                     /\ pairMode' = pairMode /\ pair' = pair /\ pairs' = pairs
            AString == /\ new[i].status = "String" /\ pair # 0 /\ pairMode' = pairMode /\ pair' = 0
                       /\ pairs' = Append(pairs, closed)
            AnIdentifier == /\ new[i].status = "Identifier" /\ pair = 0 /\ pairMode' = pairMode
                            /\ (pairMode => pair' = i) /\ (~pairMode => pair' = 0) /\ pairs' = pairs
<1>1. /\ phase = "Parse" /\ IsFile(file) /\ n \in Nat \ {0} /\ i \in 1 .. n /\ Len(entries) = i - 1
      /\ new \in Seq(FileEntry) /\ Len(new) = i
      /\ \A k \in 1 .. i - 1 : new[k] = entries[k]
      /\ new[i].value = value
      /\ ~HasText(new, i) => new[i].text = NoText /\ (Len(new[i].value) # 1 \/ new[i].value[1] = StartMark)
      /\ HasText(new, i) =>
            /\ Len(new[i].value) = 1 /\ new[i].value[1] \notin {StartMark, EndMark}
            /\ new[i].text = ReadString(new[i].value[1] - file.rel0 - 8, new[i].status)
      /\ Marked \/ Ended \/ Pointless \/ AString \/ AnIdentifier
  BY ParseEntryFacts, Zenon
<1>2. Advance(n, "Loaded") /\ UNCHANGED <<reuse, entrySize, stringSize, file, intended>>
  BY DEF ParseEntry
<1>3. \/ i < n /\ phase' = "Parse" /\ index' = i + 1
      \/ i = n /\ phase' = "Loaded" /\ index' = 1
  <2>1. CASE i < n
    BY <1>1, <1>2, <2>1 DEF Advance
  <2>2. CASE ~(i < n)
    BY <1>1, <1>2, <2>2 DEF Advance
  <2>. QED  BY <2>1, <2>2
<1>4. /\ i \in Nat \ {0} /\ i \in 1 .. i /\ entries \in Seq(FileEntry) /\ pairs \in Seq(FilePair)
      /\ pairMode \in BOOLEAN /\ pair \in 0 .. i - 1 /\ DOMAIN new = 1 .. i /\ DOMAIN entries = 1 .. i - 1
      /\ Len(entries) + 1 = i /\ DOMAIN pairs = 1 .. Len(pairs) /\ Len(pairs) \in Nat
  <2>1. entries \in Seq(FileEntry) /\ pairs \in Seq(FilePair) /\ pairMode \in BOOLEAN
        /\ pair \in 0 .. Len(entries)
    BY DEF TextInv, TextTypeOK
  <2>2. DOMAIN new = 1 .. Len(new) /\ DOMAIN entries = 1 .. Len(entries)
        /\ DOMAIN pairs = 1 .. Len(pairs) /\ Len(pairs) \in Nat
    BY <1>1, <2>1, LenProperties
  <2>3. i \in Nat \ {0} /\ i \in 1 .. i /\ Len(entries) + 1 = i
    BY <1>1
  <2>. QED  BY <1>1, <2>1, <2>2, <2>3
<1>5. /\ Parsed(entries, i) /\ Paired(entries, pairs, i)
      /\ pairMode = PairModeAt(entries, i)
      /\ pair # 0 => Waiting(entries, pair, i)
      /\ pair = 0 => \A j \in 1 .. i - 1 : ~Waiting(entries, j, i)
      /\ \A k \in 1 .. i - 1 : Len(entries[k].value) = Len(Value(file, k))
      /\ \A q \in DOMAIN pairs : pairs[q].string = entries[pairs[q].stringIndex].text
  BY <1>1, <1>4, Zenon DEF TextInv, Parsing
<1>. HIDE DEF i, n, new
\* The entries before the new one are what they were.
<1>6. /\ PairModeAt(entries, i) <=> PairModeAt(new, i)
      /\ \A j : Waiting(entries, j, i) <=> Waiting(new, j, i)
      /\ Paired(new, pairs, i)
  <2>1. \A k \in 1 .. i - 1 : /\ entries[k].status = new[k].status
                              /\ ~HasText(entries, k) => entries[k].value = new[k].value
    BY <1>1
  <2>2. /\ \A k \in 1 .. i : PairModeAt(entries, k) <=> PairModeAt(new, k)
        /\ \A k \in 1 .. i : \A j : Waiting(entries, j, k) <=> Waiting(new, j, k)
        /\ \A k \in 1 .. i : \A ps : Paired(entries, ps, k) => Paired(new, ps, k)
    BY <1>4, <2>1, ParsedTransfers
  <2>. QED  BY <1>4, <1>5, <2>2
<1>7. Parsed(new, i)
  <2>1. \A k \in 1 .. i - 1 :
           /\ entries[k].status = new[k].status
           /\ ~HasText(entries, k) => entries[k].value = new[k].value /\ entries[k].text = new[k].text
           /\ HasText(entries, k) => Len(entries[k].value) = Len(new[k].value)
    BY <1>1
  <2>. QED  BY <1>4, <1>5, <2>1, ParseTransfers
<1>8. /\ Marked \/ Ended \/ Pointless => ~HasText(new, i)
      /\ AString \/ AnIdentifier => HasText(new, i) /\ \A mark : ~IsMark(new, i, mark)
      /\ Marked => ~IsMark(new, i, EndMark)
      /\ Ended => ~IsMark(new, i, StartMark)
  BY DEF HasText, IsMark, StartMark, EndMark
<1>9. AString => closed.stringIndex = i /\ closed.identifierIndex = pair /\ closed.string = new[i].text
                 /\ closed \in FilePair /\ Waiting(new, pair, i)
  <2>1. SUFFICES ASSUME AString
                 PROVE  closed.stringIndex = i /\ closed.identifierIndex = pair /\ closed.string = new[i].text
                        /\ closed \in FilePair /\ Waiting(new, pair, i)
    OBVIOUS
  <2>2. pair \in 1 .. i - 1 /\ pair \in 1 .. i /\ pair \in Nat \ {0}
    BY <1>4, <2>1
  <2>3. Waiting(new, pair, i)
    BY <1>5, <1>6, <2>1
  <2>4. new[pair].text \in TextValues /\ new[i].text \in TextValues
    BY <1>1, <1>4, <2>2, EntryFacts
  <2>. QED  BY <1>4, <2>2, <2>3, <2>4 DEF PairOf, FilePair
<1>10. pairMode' = PairModeAt(new, i + 1)
  <2>1. PairModeAt(new, i + 1) <=>
           IsMark(new, i, StartMark) \/ (PairModeAt(new, i) /\ ~IsMark(new, i, EndMark))
    BY <1>4, PairModeStep
  <2>2. pairMode' \in BOOLEAN /\ (pairMode' <=> PairModeAt(new, i + 1))
    <3>1. pairMode <=> PairModeAt(new, i)
      BY <1>5, <1>6, Zenon
    <3>2. CASE Marked
      BY <2>1, <3>2, Zenon
    <3>3. CASE Ended
      BY <1>8, <2>1, <3>3, Zenon
    <3>4. CASE Pointless
      BY <1>4, <2>1, <3>1, <3>4, Zenon
    <3>5. CASE AString \/ AnIdentifier
      <4>1. pairMode' = pairMode
        BY <3>5, Zenon
      <4>2. ~IsMark(new, i, StartMark) /\ ~IsMark(new, i, EndMark)
        BY <1>8, <3>5
      <4>. QED  BY <1>4, <2>1, <3>1, <4>1, <4>2, Zenon
    <3>6. Marked \/ Ended \/ Pointless \/ AString \/ AnIdentifier
      BY <1>1
    <3>. HIDE DEF Marked, Ended, Pointless, AString, AnIdentifier
    <3>. QED  BY <3>2, <3>3, <3>4, <3>5, <3>6
  <2>3. PairModeAt(new, i + 1) \in BOOLEAN
    BY Zenon DEF PairModeAt
  <2>4. \A a, b \in BOOLEAN : (a <=> b) => a = b
    OBVIOUS
  <2>. QED  BY <2>2, <2>3, <2>4, Zenon
<1>11. /\ pair' \in 0 .. i
       /\ pair' # 0 => Waiting(new, pair', i + 1)
       /\ pair' = 0 => \A j : ~Waiting(new, j, i + 1)
  <2>1. \A j : Waiting(new, j, i + 1) <=>
                  \/ j = i /\ new[i].status = "Identifier" /\ PairModeAt(new, i)
                  \/ Waiting(new, j, i) /\ ~HasText(new, i) /\ ~IsMark(new, i, EndMark)
    BY <1>4, WaitingStep
  <2>2. pair # 0 => Waiting(new, pair, i)
    BY <1>5, <1>6
  <2>3. pair = 0 => \A j : ~Waiting(new, j, i)
    <3>1. \A j : Waiting(new, j, i) => j \in 1 .. i - 1
      BY DEF Waiting
    <3>. QED  BY <1>5, <1>6, <3>1
  <2>4. CASE Marked \/ Pointless
    <3>1. \A j : Waiting(new, j, i + 1) <=> Waiting(new, j, i)
      <4>1. ~HasText(new, i) /\ ~IsMark(new, i, EndMark) /\ new[i].status # "Identifier"
        BY <1>8, <2>4 DEF HasText
      <4>. QED  BY <2>1, <4>1
    <3>2. pair' = pair
      BY <2>4
    <3>3. pair' \in 0 .. i
      BY <1>4, <3>2
    <3>. QED  BY <2>2, <2>3, <3>1, <3>2, <3>3
  <2>5. CASE Ended \/ AString
    <3>1. new[i].status # "Identifier" /\ (HasText(new, i) \/ IsMark(new, i, EndMark)) /\ pair' = 0
      BY <1>8, <2>5 DEF HasText
    <3>2. \A j : ~Waiting(new, j, i + 1)
      BY <2>1, <3>1
    <3>. QED  BY <1>4, <3>1, <3>2
  <2>6. CASE AnIdentifier
    <3>1. \A j : Waiting(new, j, i + 1) <=> j = i /\ PairModeAt(new, i)
      BY <1>8, <2>1, <2>6
    <3>2. pairMode <=> PairModeAt(new, i)
      BY <1>5, <1>6, Zenon
    <3>3. CASE pairMode
      BY <1>4, <2>6, <3>1, <3>2, <3>3
    <3>4. CASE ~pairMode
      BY <1>4, <2>6, <3>1, <3>2, <3>4
    <3>. QED  BY <3>3, <3>4
  <2>. QED  BY <1>1, <2>4, <2>5, <2>6
<1>12. Parsed(new, i + 1)
  <2>1. new[i].status = "String" => \E j \in 1 .. i - 1 : Waiting(new, j, i)
    <3>1. SUFFICES ASSUME new[i].status = "String" PROVE Waiting(new, pair, i)
      BY DEF Waiting
    <3>2. AString
      BY <1>1, <1>8, <3>1 DEF HasText
    <3>. QED  BY <1>9, <3>2
  <2>2. new[i].status = "Identifier" => \A j \in 1 .. i - 1 : ~Waiting(new, j, i)
    <3>1. SUFFICES ASSUME new[i].status = "Identifier" PROVE \A j \in 1 .. i - 1 : ~Waiting(new, j, i)
      OBVIOUS
    <3>2. AnIdentifier
      BY <1>1, <1>8, <3>1 DEF HasText
    <3>. QED  BY <1>5, <1>6, <3>2
  <2>. QED  BY <1>1, <1>4, <1>7, <2>1, <2>2, ParsedGrows
<1>13. Paired(new, pairs', i + 1) /\ pairs' \in Seq(FilePair)
       /\ \A q \in DOMAIN pairs' : pairs'[q].string = new[pairs'[q].stringIndex].text
  <2>1. \A q \in DOMAIN pairs : pairs[q].stringIndex \in 1 .. i - 1
    BY <1>6, Zenon DEF Paired
  <2>2. \A q \in DOMAIN pairs : pairs[q].string = new[pairs[q].stringIndex].text
    BY <1>1, <1>5, <2>1
  <2>3. CASE Marked \/ Ended \/ Pointless \/ AnIdentifier
    <3>1. pairs' = pairs /\ new[i].status # "String"
      BY <1>8, <2>3 DEF HasText
    <3>2. Paired(new, pairs, i + 1)
      BY <1>4, <1>6, <3>1, PairedStays
    <3>. QED  BY <1>4, <2>2, <3>1, <3>2
  <2>4. CASE AString
    <3>. DEFINE more == Append(pairs, closed)
                l == Len(pairs)
    <3>1. pairs' = more
      BY <2>4
    <3>2. closed \in FilePair /\ closed.stringIndex = i /\ closed.identifierIndex = pair
          /\ closed.string = new[i].text /\ Waiting(new, pair, i)
      BY <1>9, <2>4
    <3>. HIDE DEF closed
    <3>3. Paired(new, more, i + 1)
      BY <1>4, <1>6, <2>4, <3>2, PairedGrows
    <3>4. /\ more \in Seq(FilePair) /\ Len(more) = l + 1 /\ \A q \in 1 .. l : more[q] = pairs[q]
          /\ more[l + 1] = closed
      BY <1>4, <3>2, AppendProperties
    <3>5. DOMAIN more = 1 .. l + 1
      BY <3>4, LenProperties
    <3>. HIDE DEF more, l
    <3>6. \A q \in 1 .. l + 1 : q = l + 1 \/ q \in 1 .. l
      BY <1>4 DEF l
    <3>7. DOMAIN pairs = 1 .. l
      BY <1>4 DEF l
    <3>8. ASSUME NEW q \in DOMAIN more PROVE more[q].string = new[more[q].stringIndex].text
      <4>1. CASE q = l + 1
        BY <3>2, <3>4, <4>1
      <4>2. CASE q \in 1 .. l
        BY <2>2, <3>4, <3>7, <4>2
      <4>. QED  BY <3>5, <3>6, <4>1, <4>2
    <3>. QED  BY <3>1, <3>3, <3>4, <3>8
  <2>. QED  BY <1>1, <2>3, <2>4
<1>14. Len(value) \in Nat \ {0} /\ (i = n => Len(value) = 2)
  <2>1. i \in 1 .. Len(file.nof0)
    BY <1>1 DEF n
  <2>. HIDE DEF value
  <2>. QED  BY <1>1, <2>1, ValueTyped DEF n, value
<1>15. Parsing'
  <2>1. Parsed(entries', Len(entries') + 1) /\ Paired(entries', pairs', Len(entries') + 1)
    BY <1>1, <1>12, <1>13 DEF new
  <2>2. IsFile(file')
    BY <1>1, <1>2
  <2>3. phase' = "Parse" => index' = i + 1
    BY <1>3
  <2>4. \A k \in DOMAIN entries' : Len(entries'[k].value) = Len(Value(file', k))
    <3>1. \A k \in 1 .. i : k = i \/ k \in 1 .. i - 1
      BY <1>4
    <3>2. file' = file
      BY <1>2
    <3>3. \A k \in 1 .. i : Len(new[k].value) = Len(Value(file, k))
      BY <1>1, <1>5, <3>1
    <3>. QED  BY <1>4, <3>2, <3>3 DEF new
  <2>5. phase' # "Parse" => entries' # <<>> /\ Len(entries'[Len(entries')].value) = 2
    <3>1. phase' # "Parse" => i = n
      BY <1>3
    <3>2. new # <<>>
      BY <1>1, <1>4
    <3>. QED  BY <1>1, <1>14, <3>1, <3>2 DEF new
  <2>6. phase' = "Parse" =>
           /\ pairMode' = PairModeAt(entries', index')
           /\ pair' # 0 => Waiting(entries', pair', index')
           /\ pair' = 0 => \A j \in 1 .. index' - 1 : ~Waiting(entries', j, index')
    BY <1>10, <1>11, <2>3, Zenon DEF new
  <2>7. \A q \in DOMAIN pairs' : pairs'[q].string = entries'[pairs'[q].stringIndex].text
    BY <1>13 DEF new
  <2>. QED  BY <2>1, <2>2, <2>4, <2>5, <2>6, <2>7, Zenon DEF Parsing
<1>16. TextTypeOK'
  <2>1. /\ index' \in Nat \ {0} /\ phase' \in {"Parse", "Loaded"} /\ (phase' = "Loaded" => index' = 1)
        /\ phase' = "Parse" => index' <= n /\ i = index' - 1
        /\ phase' # "Parse" => index' <= i
    <3>1. CASE i < n /\ phase' = "Parse" /\ index' = i + 1
      BY <1>1, <1>4, <3>1
    <3>2. CASE i = n /\ phase' = "Loaded" /\ index' = 1
      BY <1>1, <1>4, <3>2
    <3>. QED  BY <1>3, <3>1, <3>2
  <2>2. Len(file'.nof0) = n /\ Len(entries') = i /\ entries' \in Seq(FileEntry)
    BY <1>1, <1>2 DEF n, new
  <2>3. pairMode' \in BOOLEAN
    BY <1>10, Zenon DEF PairModeAt
  <2>4. /\ \A t \in DOMAIN reuse' : reuse'[t] \in [status : Status \ {"None"}, at : Nat]
        /\ entrySize' \in Nat /\ stringSize' \in Nat /\ (stringSize' % 4) = 0 /\ file' \in FileContent
    BY <1>2 DEF TextInv, TextTypeOK
  <2>5. pair' \in 0 .. Len(entries') /\ pairs' \in Seq(FilePair)
    BY <1>11, <1>13, <2>2
  <2>6. phase' \in Loops \cup {"Loaded", "Headers", "Written"} /\ (phase' \notin Loops => index' = 1)
        /\ (phase' = "Parse" => index' <= Len(file'.nof0) /\ Len(entries') = index' - 1)
        /\ (phase' # "Parse" => index' <= Len(entries'))
    BY <2>1, <2>2 DEF Loops
  <2>. QED  BY <2>1, <2>2, <2>3, <2>4, <2>5, <2>6 DEF TextTypeOK
<1>17. Laid' /\ ValuesWritten' /\ StringsWritten'
  <2>1. phase' \in {"Parse", "Loaded"}
    BY <1>3
  <2>. QED  BY <2>1 DEF Laid, ValuesWritten, StringsWritten, Writing
\* If the file was written, what is read is what was intended.
<1>. DEFINE es == intended.entries
            ps == intended.pairs
            m == Len(es)
<1>18. ASSUME intended # NoFile
       PROVE  /\ es \in Seq(FileEntry) /\ ps \in Seq(FilePair) /\ m = n
              /\ Parsed(es, m + 1) /\ Paired(es, ps, m + 1) /\ Encodes(file, es)
              /\ ReadsAs(es, i) /\ Follows(pairs, ps, i - 1)
  <2>1. /\ es \in Seq(FileEntry) /\ ps \in Seq(FilePair)
        /\ Parsed(es, m + 1) /\ Paired(es, ps, m + 1) /\ Encodes(file, es)
        /\ ReadsAs(es, Len(entries) + 1)
        /\ Len(pairs) <= Len(ps)
        /\ \A q \in DOMAIN ps :
              IF q <= Len(pairs)
              THEN /\ pairs[q].identifierIndex = ps[q].identifierIndex
                   /\ pairs[q].stringIndex = ps[q].stringIndex
              ELSE ps[q].stringIndex > Len(entries)
    BY <1>1, <1>18, Zenon DEF TextInv, Intended
  <2>2. m = n
    BY <2>1 DEF Encodes, n
  <2>3. Follows(pairs, ps, i - 1)
    BY <1>1, <2>1, Zenon DEF Follows
  <2>. HIDE DEF es, ps
  <2>. QED  BY <1>4, <2>1, <2>2, <2>3
<1>19. ASSUME intended # NoFile
       PROVE  /\ new[i].status = es[i].status
              /\ ~HasText(es, i) => new[i].value = es[i].value
              /\ Lossless(es[i].text, es[i].status) => new[i].text = es[i].text
  <2>. HIDE DEF es, ps, value
  <2>0. m \in Nat /\ i \in 1 .. m /\ i \in 1 .. (m + 1) - 1 /\ DOMAIN es = 1 .. m
    BY <1>1, <1>18, <1>19, LenProperties
  <2>1. /\ HasText(es, i) => Len(es[i].value) = 1
        /\ ~HasText(es, i) => es[i].text = NoText /\ (Len(es[i].value) # 1 \/ es[i].value[1] = StartMark)
        /\ es[i].status = "String" => \E j \in 1 .. i - 1 : Waiting(es, j, i)
        /\ es[i].status = "Identifier" => \A j \in 1 .. i - 1 : ~Waiting(es, j, i)
    <3>. HIDE DEF m
    <3>. QED  BY <1>18, <1>19, <2>0, Zenon DEF Parsed
  <2>2. /\ ~HasText(es, i) => value = es[i].value
        /\ HasText(es, i) =>
              /\ Len(value) = 1 /\ value[1] \notin {StartMark, EndMark}
              /\ [at |-> value[1] - file.rel0 - 8, text |-> es[i].text, status |-> es[i].status]
                    \in file.strings
        /\ \A s, t \in file.strings : s.at = t.at => s = t
    BY <1>18, <1>19, <2>0, Zenon DEF Encodes, value
  <2>3. \A j : Waiting(entries, j, i) <=> Waiting(es, j, i)
    <3>1. \A k \in 1 .. i - 1 : /\ entries[k].status = es[k].status
                                /\ ~HasText(entries, k) => entries[k].value = es[k].value
      BY <1>18, <1>19 DEF ReadsAs, HasText
    <3>2. \A k \in 1 .. i : \A j : Waiting(entries, j, k) <=> Waiting(es, j, k)
      BY <1>4, <3>1, ParsedTransfers
    <3>. QED  BY <1>4, <3>2
  <2>4. es[i].status \in Status /\ (HasText(es, i) <=> es[i].status # "None")
    BY <1>18, <1>19, <2>0, EntryFacts DEF HasText
  <2>5. CASE ~HasText(es, i)
    <3>1. Len(value) # 1 \/ value[1] = StartMark
      BY <2>1, <2>2, <2>5
    <3>2. ~HasText(new, i)
      BY <1>1, <3>1
    <3>3. new[i].status = "None" /\ es[i].status = "None"
      BY <2>4, <2>5, <3>2 DEF HasText
    <3>. QED  BY <1>1, <2>1, <2>2, <2>5, <3>2, <3>3
  <2>6. CASE HasText(es, i)
    <3>1. HasText(new, i)
      BY <1>1, <2>2, <2>6 DEF StartMark
    <3>2. AString \/ AnIdentifier
      BY <1>1, <1>8, <3>1
    <3>3. new[i].status = es[i].status
      <4>1. es[i].status = "String" <=> pair # 0
        <5>1. CASE es[i].status = "String"
          BY <1>5, <2>1, <2>3, <5>1
        <5>2. CASE es[i].status = "Identifier"
          <6>1. Waiting(es, pair, i) => pair \in 1 .. i - 1
            BY DEF Waiting
          <6>. QED  BY <1>5, <2>1, <2>3, <5>2, <6>1
        <5>. QED  BY <2>4, <2>6, <5>1, <5>2 DEF Status
      <4>2. es[i].status \in {"String", "Identifier"}
        BY <2>4, <2>6 DEF Status
      <4>. QED  BY <3>2, <4>1, <4>2
    <3>4. new[i].text = ReadString(value[1] - file.rel0 - 8, es[i].status)
      BY <1>1, <3>1, <3>3
    <3>5. ASSUME Lossless(es[i].text, es[i].status) PROVE new[i].text = es[i].text
      <4>1. file \in FileContent
        BY <1>1 DEF IsFile
      <4>. DEFINE a == value[1] - file.rel0 - 8
                  st == es[i].status
                  tx == es[i].text
      <4>2. /\ [at |-> a, text |-> tx, status |-> st] \in file.strings
            /\ \A s, t \in file.strings : s.at = t.at => s = t
            /\ Lossless(tx, st)
        BY <2>2, <2>6, <3>5
      <4>. HIDE DEF a, st, tx
      <4>3. ReadString(a, st) = tx
        BY <4>1, <4>2, ReadStringFacts
      <4>. QED  BY <3>4, <4>3 DEF a, st, tx
    <3>. QED  BY <2>6, <3>3, <3>5
  <2>. QED  BY <2>5, <2>6
<1>20. ASSUME intended # NoFile PROVE Follows(pairs', ps, i)
  <2>. HIDE DEF es, ps, value
  <2>0. m \in Nat /\ i \in 1 .. m
    BY <1>1, <1>18, <1>20, LenProperties
  <2>1. /\ ps \in Seq(FilePair) /\ Paired(es, ps, m + 1) /\ Follows(pairs, ps, i - 1)
        /\ new[i].status = es[i].status
    BY <1>18, <1>19, <1>20
  <2>. HIDE DEF m
  <2>2. CASE Marked \/ Ended \/ Pointless \/ AnIdentifier
    <3>1. pairs' = pairs /\ es[i].status # "String"
      BY <1>8, <2>1, <2>2 DEF HasText
    <3>. QED  BY <1>4, <2>0, <2>1, <3>1, FollowsStays
  <2>3. CASE AString
    <3>1. pairs' = Append(pairs, closed) /\ es[i].status = "String"
      BY <2>1, <2>3
    <3>2. closed \in FilePair /\ closed.stringIndex = i /\ closed.identifierIndex = pair
      BY <1>9, <2>3
    <3>3. Waiting(es, closed.identifierIndex, i)
      <4>1. \A k \in 1 .. i - 1 : /\ entries[k].status = es[k].status
                                  /\ ~HasText(entries, k) => entries[k].value = es[k].value
        BY <1>18, <1>20 DEF ReadsAs, HasText
      <4>2. \A k \in 1 .. i : \A j : Waiting(entries, j, k) <=> Waiting(es, j, k)
        BY <1>4, <4>1, ParsedTransfers
      <4>3. Waiting(entries, pair, i)
        BY <1>5, <2>3
      <4>. QED  BY <1>4, <3>2, <4>2, <4>3
    <3>4. \A q \in DOMAIN pairs : pairs[q].stringIndex \in 1 .. i - 1
      BY <1>6, Zenon DEF Paired
    <3>. HIDE DEF closed
    <3>. QED  BY <1>4, <2>0, <2>1, <3>1, <3>2, <3>3, <3>4, FollowsGrows
  <2>. QED  BY <1>1, <2>2, <2>3
<1>21. ASSUME intended # NoFile PROVE ReadsAs(es, Len(entries) + 1)'
  <2>1. \A k \in 1 .. (Len(entries') + 1) - 1 : k = i \/ k \in 1 .. i - 1
    BY <1>1, <1>4 DEF new
  <2>2. ASSUME NEW k \in 1 .. (Len(entries') + 1) - 1
        PROVE  /\ new[k].status = es[k].status
               /\ ~HasText(es, k) => new[k].value = es[k].value
               /\ Lossless(es[k].text, es[k].status) => new[k].text = es[k].text
    <3>1. CASE k = i
      BY <1>19, <1>21, <3>1
    <3>2. CASE k \in 1 .. i - 1
      <4>1. ReadsAs(es, i)
        BY <1>18, <1>21
      <4>. HIDE DEF es
      <4>2. new[k] = entries[k]
        BY <1>1, <3>2
      <4>. QED  BY <3>2, <4>1, <4>2 DEF ReadsAs
    <3>. QED  BY <2>1, <3>1, <3>2
  <2>3. intended' = intended
    BY <1>2
  <2>. QED  BY <2>2, <2>3 DEF ReadsAs, new
<1>22. Intended'
  <2>1. intended' = intended /\ file' = file /\ phase' \notin Writing
    BY <1>2, <1>3 DEF Writing
  <2>2. CASE intended = NoFile
    BY <2>1, <2>2 DEF Intended
  <2>3. CASE intended # NoFile
    <3>1. /\ es \in Seq(FileEntry) /\ ps \in Seq(FilePair) /\ m = n
          /\ Parsed(es, m + 1) /\ Paired(es, ps, m + 1) /\ Encodes(file, es)
      BY <1>18, <2>3
    <3>2. /\ Len(pairs') <= Len(ps)
          /\ \A q \in DOMAIN ps :
                IF q <= Len(pairs')
                THEN /\ pairs'[q].identifierIndex = ps[q].identifierIndex
                     /\ pairs'[q].stringIndex = ps[q].stringIndex
                ELSE ps[q].stringIndex > Len(entries')
      BY <1>1, <1>20, <2>3, Zenon DEF Follows, new
    <3>3. phase' = "Loaded" => Len(entries') = Len(es)
      BY <1>1, <1>3, <3>1 DEF new
    <3>4. ReadsAs(es, Len(entries) + 1)'
      BY <1>21, <2>3
    <3>. QED  BY <2>1, <3>1, <3>2, <3>3, <3>4, Zenon DEF Intended
  <2>. QED  BY <2>2, <2>3
<1>. QED  BY <1>15, <1>16, <1>17, <1>22 DEF TextInv

LEMMA TextStutters == ASSUME TextInv, UNCHANGED textVars PROVE TextInv'
<1>1. UNCHANGED <<phase, index, entries, pairs, reuse, entrySize, stringSize, file, pairMode, pair, intended>>
  BY DEF textVars
<1>2. TextTypeOK'
  BY <1>1 DEF TextInv, TextTypeOK
<1>3. Before' = Before /\ \A loop : Reached(loop)' = Reached(loop)
  BY <1>1 DEF Before, Reached
<1>4. Offsets' = Offsets
  BY <1>1 DEF Offsets, Moved
<1>5. Laid'
  BY <1>1, <1>3, <1>4 DEF TextInv, Laid
<1>6. ValuesWritten'
  BY <1>1, <1>3 DEF TextInv, ValuesWritten
<1>7. StringsWritten'
  BY <1>1, <1>3, <1>4 DEF TextInv, StringsWritten
<1>8. Parsing'
  BY <1>1 DEF TextInv, Parsing
<1>9. Intended'
  BY <1>1 DEF TextInv, Intended, ReadsAs
<1>. QED  BY <1>2, <1>5, <1>6, <1>7, <1>8, <1>9 DEF TextInv

\* Whatever the files and the translations are: the places of the two loops, what was
\* written so far and what parse knows so far are what the invariant says.
THEOREM TextInvHolds == TextSpec => []TextInv
<1>1. TextInit => TextInv
  BY TextInitInv
<1>2. TextInv /\ [TextNext]_textVars => TextInv'
  <2>. SUFFICES ASSUME TextInv, [TextNext]_textVars PROVE TextInv'
    OBVIOUS
  <2>1. CASE Edit
    BY <2>1, EditKeeps
  <2>2. CASE Write
    BY <2>2, WriteKeeps
  <2>3. CASE LayOut
    BY <2>3, LayOutKeeps
  <2>4. CASE WriteHeaders
    BY <2>4, WriteHeadersKeeps
  <2>5. CASE WriteValue
    BY <2>5, WriteValueKeeps
  <2>6. CASE WriteString
    BY <2>6, WriteStringKeeps
  <2>7. CASE NewTextFile
    BY <2>7, NewTextFileKeeps
  <2>8. CASE ParseEntry
    BY <2>8, ParseEntryKeeps
  <2>9. CASE UNCHANGED textVars
    BY <2>9, TextStutters
  <2>. QED  BY <2>1, <2>2, <2>3, <2>4, <2>5, <2>6, <2>7, <2>8, <2>9 DEF TextNext
<1>. QED  BY <1>1, <1>2, PTL DEF TextSpec

\* Every variable of a text file that is edited, written and parsed has its type.
THEOREM TextTyped == TextSpec => []TextTypeOK
<1>1. TextInv => TextTypeOK
  BY DEF TextInv
<1>. QED  BY <1>1, TextInvHolds, PTL

\* Every entry that has a text points to it in a file that was written, whichever texts
\* Write left out, and the sizes in the headers are those of what follows.
THEOREM TextLayout == TextSpec => []TextLayoutHolds
<1>1. TextInv => TextLayoutHolds
  <2>. SUFFICES ASSUME TextInv PROVE TextLayoutHolds
    OBVIOUS
  <2>. DEFINE n == Len(entries)
  <2>1. /\ entries \in Seq(FileEntry) /\ n \in Nat /\ DOMAIN entries = 1 .. n /\ index \in Nat
        /\ entrySize \in Nat /\ (phase # "Parse" => index <= n)
    BY LenProperties DEF TextInv, TextTypeOK
  <2>2. ASSUME phase \in {"Strings", "Written"}, NEW k \in DOMAIN entries,
               phase = "Written" \/ k < index, entries[k].status # "None"
        PROVE  \E s \in file.strings : /\ s.at + entrySize + 16 = entries[k].value[1]
                                        /\ s.text = entries[k].text /\ s.status = entries[k].status
    <3>. DEFINE row == [at |-> Offsets[k], text |-> entries[k].text, status |-> entries[k].status]
                v == entries[k].value[1]
    <3>1. k \in 1 .. Reached("Strings") - 1
      <4>1. CASE phase = "Written"
        BY <2>1, <4>1 DEF Reached
      <4>2. CASE phase = "Strings"
        BY <2>1, <2>2, <4>2 DEF Reached
      <4>. QED  BY <2>2, <4>1, <4>2
    <3>2. row \in file.strings
      BY <2>2, <3>1 DEF TextInv, StringsWritten, HasText
    <3>3. Offsets[k] = v - (entrySize + 16)
      BY <2>1, <2>2 DEF Offsets, Moved, HasText
    <3>4. v \in Int
      BY <2>1, EntryFacts
    <3>5. row.at + entrySize + 16 = v
      <4>. HIDE DEF v
      <4>. QED  BY <2>1, <3>3, <3>4
    <3>6. row.text = entries[k].text /\ row.status = entries[k].status
      OBVIOUS
    <3>. HIDE DEF row
    <3>. QED  BY <3>2, <3>5, <3>6
  <2>3. ASSUME phase = "Written" PROVE file.size = file.announced /\ file.rel0 = 4 * Len(file.words) + 8
    <3>1. Reached("Strings") = n + 1 /\ Reached("Layout") = n + 1 /\ Reached("Values") = n + 1
      BY <2>3 DEF Reached
    <3>2. SizeIs(entries, Offsets, n + 1, file.size)
      BY <2>3, <3>1 DEF TextInv, StringsWritten
    <3>3. entrySize = 4 * Before[n + 1] /\ SizeIs(entries, Offsets, n + 1, stringSize)
      BY <2>3, <3>1 DEF TextInv, Laid, Writing
    <3>4. file.rel0 = entrySize + 8 /\ file.announced = stringSize /\ Len(file.words) = Before[n + 1]
      BY <2>3, <3>1 DEF TextInv, ValuesWritten
    <3>5. file.size = stringSize
      <4>. DEFINE m == n + 1
      <4>1. m \in Nat /\ SizeIs(entries, Offsets, m, file.size) /\ SizeIs(entries, Offsets, m, stringSize)
        BY <2>1, <3>2, <3>3
      <4>. HIDE DEF m
      <4>. QED  BY <4>1, SizeUnique
    <3>. QED  BY <3>3, <3>4, <3>5
  <2>. QED  BY <2>2, <2>3 DEF TextLayoutHolds
<1>. QED  BY <1>1, TextInvHolds, PTL

\* Whatever file was edited and written reads as what was written: its entries, its pairs
\* and every text that the conversions carry.
THEOREM TextRoundTrips == TextSpec => []TextRoundTrip
<1>1. TextInv => TextRoundTrip
  <2>. SUFFICES ASSUME TextInv, phase = "Loaded", intended # NoFile
                PROVE  /\ Len(entries) = Len(intended.entries)
                       /\ \A k \in DOMAIN entries :
                             /\ entries[k].status = intended.entries[k].status
                             /\ entries[k].status = "None" => entries[k].value = intended.entries[k].value
                             /\ Lossless(intended.entries[k].text, intended.entries[k].status)
                                   => entries[k].text = intended.entries[k].text
                       /\ Len(pairs) = Len(intended.pairs)
                       /\ \A k \in DOMAIN pairs :
                             /\ pairs[k].identifierIndex = intended.pairs[k].identifierIndex
                             /\ pairs[k].stringIndex = intended.pairs[k].stringIndex
                             /\ pairs[k].string = entries[pairs[k].stringIndex].text
    BY Zenon DEF TextRoundTrip
  <2>. DEFINE es == intended.entries
              ps == intended.pairs
              n == Len(entries)
              l == Len(pairs)
              z == Len(ps)
  <2>1. /\ es \in Seq(FileEntry) /\ ps \in Seq(FilePair) /\ Paired(es, ps, Len(es) + 1)
        /\ n = Len(es) /\ ReadsAs(es, n + 1)
        /\ l <= z
        /\ \A q \in DOMAIN ps :
              IF q <= l THEN /\ pairs[q].identifierIndex = ps[q].identifierIndex
                             /\ pairs[q].stringIndex = ps[q].stringIndex
              ELSE ps[q].stringIndex > n
    BY Zenon DEF TextInv, Intended
  <2>2. \A q \in DOMAIN pairs : pairs[q].string = entries[pairs[q].stringIndex].text
    BY DEF TextInv, Parsing
  <2>3. /\ n \in Nat /\ DOMAIN entries = 1 .. n /\ l \in Nat /\ DOMAIN pairs = 1 .. l
        /\ z \in Nat /\ DOMAIN ps = 1 .. z
    BY <2>1, LenProperties DEF TextInv, TextTypeOK
  <2>. HIDE DEF es, ps, n, l, z
  <2>4. ASSUME NEW k \in 1 .. n
        PROVE  /\ entries[k].status = es[k].status
               /\ entries[k].status = "None" => entries[k].value = es[k].value
               /\ Lossless(es[k].text, es[k].status) => entries[k].text = es[k].text
    <3>1. k \in 1 .. (n + 1) - 1
      BY <2>3
    <3>. QED  BY <2>1, <3>1 DEF ReadsAs, HasText
  <2>5. l = z
    <3>1. SUFFICES ASSUME l < z PROVE FALSE
      BY <2>1, <2>3
    <3>2. l + 1 \in 1 .. z /\ ~(l + 1 <= l)
      BY <2>3, <3>1
    <3>3. ps[l + 1].stringIndex > n
      BY <2>1, <2>3, <3>2
    <3>4. ps[l + 1].stringIndex \in 1 .. (n + 1) - 1
      <4>1. \A q \in DOMAIN ps : ps[q].stringIndex \in 1 .. (n + 1) - 1
        BY <2>1, Zenon DEF Paired
      <4>. QED  BY <2>3, <3>2, <4>1
    <3>. DEFINE v == ps[l + 1].stringIndex
    <3>5. v > n /\ v \in 1 .. (n + 1) - 1
      BY <3>3, <3>4
    <3>. HIDE DEF v
    <3>. QED  BY <2>3, <3>5
  <2>6. \A q \in 1 .. l : /\ pairs[q].identifierIndex = ps[q].identifierIndex
                          /\ pairs[q].stringIndex = ps[q].stringIndex
    <3>1. \A q \in 1 .. l : q \in 1 .. z /\ q <= l
      BY <2>3, <2>5
    <3>. QED  BY <2>1, <2>3, <3>1
  <2>7. n = Len(es)
    BY <2>1
  <2>. QED  BY <2>2, <2>3, <2>4, <2>5, <2>6, <2>7, Zenon DEF es, ps, n, l, z
<1>. QED  BY <1>1, TextInvHolds, PTL
=============================================================================
