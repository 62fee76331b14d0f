------------------------------ MODULE PrsReader ------------------------------
(***************************************************************************)
(* ice/prsreader.go: an io.ReadSeeker over PRS compressed data.  The text  *)
(* is produced into a buffer that also serves as the window for copies     *)
(* from earlier output; when the buffer fills up, all but the last         *)
(* Lookbehind bytes are dropped.  Seeking back starts from the beginning.  *)
(*                                                                         *)
(* The compressed stream is taken as its commands: what the bits of the    *)
(* control bytes say is not followed.  One goroutine uses a reader; the    *)
(* steps of a call are those of its loops.                                 *)
(***************************************************************************)
EXTENDS Integers, Sequences

CONSTANTS
    Streams,    \* the compressed streams considered
    BufferSize, Threshold, Lookbehind,
    MaxCopy,    \* the longest copy
    MaxRead,    \* bound: the bytes asked for in one Read, and SeekChunk
    SeekChunk   \* the length of Seek's own buffer

\* A stream: its commands, the text they stand for, the offset in it at which
\* each command starts, whether the end marker follows or the data is cut off,
\* and the size that the archive declares for the text.
\* A copy repeats what is "back" bytes before, byte by byte.
IsStream(s) ==
    /\ s.text \in Seq(Nat) /\ s.size \in Nat /\ s.tail \in {"prsEOF", "EOF"}
    /\ s.commands \in Seq([back : 0 .. Lookbehind, size : 1 .. MaxCopy])
    /\ s.start \in [1 .. Len(s.commands) + 1 -> Nat]
    /\ s.start[1] = 0 /\ s.start[Len(s.commands) + 1] = Len(s.text)
    /\ \A i \in 1 .. Len(s.commands) :
          /\ s.start[i + 1] = s.start[i] + s.commands[i].size
          /\ s.commands[i].back <= s.start[i]
          /\ s.commands[i].back = 0 => s.commands[i].size = 1
          /\ s.start[i + 1] <= Len(s.text)
          /\ s.commands[i].back > 0 =>
                \A k \in s.start[i] + 1 .. s.start[i + 1] :
                   s.text[k] = s.text[k - s.commands[i].back]
ASSUME StreamAssumption == \A s \in Streams : IsStream(s)
ASSUME WindowAssumption ==
    /\ BufferSize \in Nat /\ Threshold \in Nat /\ Lookbehind \in Nat
    /\ MaxCopy \in Nat \ {0} /\ MaxRead \in Nat /\ SeekChunk \in Nat \ {0}
    /\ MaxCopy <= Lookbehind /\ Lookbehind <= Threshold
    /\ Threshold + MaxCopy <= BufferSize

VARIABLES
    stream,    \* what the reader was made for
    \* prsReader: commands read so far, bytes of the current copy still to be
    \* queued, and the fields.
    consumed, left, buffer, outputBufferPosition, outputPosition, position, err,
    \* The call being served: what it is, the bytes Read still has room for, what
    \* it has put into p, and where Seek is to go.
    call, room, out, offset,
    result     \* the last call: what it was, what it returned, what it was asked

window == <<consumed, left, buffer, outputBufferPosition, outputPosition, position, err>>
vars == <<stream, window, call, room, out, offset, result>>

NoResult == [call |-> "none", err |-> "none", asked |-> 0]

\* Every variable has its type: nothing is written behind the buffer's end, and no
\* Read passes the declared size.
TypeOK ==
    /\ IsStream(stream)
    /\ consumed \in 0 .. Len(stream.commands)
    /\ left \in 0 .. MaxCopy
    /\ buffer \in [0 .. BufferSize - 1 -> Nat]
    /\ outputBufferPosition \in 0 .. BufferSize
    /\ outputPosition \in Nat
    /\ position \in 0 .. stream.size
    /\ err \in {"none", "EOF", "prsEOF"}
    /\ call \in {"none", "Read", "Seek", "SeekRead"}
    /\ room \in Nat /\ out \in Seq(Nat) /\ offset \in Int
    /\ result \in [call : {"none", "Read", "Seek"}, asked : Int,
                   err : {"none", "EOF", "ErrUnexpectedEOF"}]

Init ==
    /\ stream \in Streams
    /\ consumed = 0 /\ left = 0
    /\ buffer = [i \in 0 .. BufferSize - 1 |-> 0]
    /\ outputBufferPosition = 0 /\ outputPosition = 0 /\ position = 0 /\ err = "none"
    /\ call = "none" /\ room = 0 /\ out = <<>> /\ offset = 0
    /\ result = NoResult

Least(a, b) == IF a < b THEN a ELSE b

-----------------------------------------------------------------------------
(* Read.                                                                   *)

\* Read is entered: at or past the declared size nothing is produced any more.
Enter(length) ==
    /\ room' = length /\ out' = <<>>
    /\ err' = IF position >= stream.size THEN "EOF" ELSE err

Read ==
    /\ call = "none"
    /\ \E n \in 0 .. MaxRead : Enter(n) /\ result' = [NoResult EXCEPT !.asked = n]
    /\ call' = "Read"
    /\ UNCHANGED <<stream, consumed, left, buffer, outputBufferPosition, outputPosition,
                   position, offset>>

Reading == call \in {"Read", "SeekRead"} /\ room > 0 /\ err = "none"
Decompressing == Reading /\ outputBufferPosition <= outputPosition /\ left = 0
Command == stream.commands[consumed + 1]

\* Mutant of Flushed: the dropped part is one byte too long.
FlushedTooMuch(b, queued) ==
    IF queued <= Threshold
    THEN buffer' = b /\ outputBufferPosition' = queued /\ UNCHANGED outputPosition
    ELSE LET diff == queued - Lookbehind IN
         /\ buffer' = [i \in 0 .. BufferSize - 1 |->
                         IF i < Lookbehind /\ i + diff + 1 < BufferSize THEN b[i + diff + 1] ELSE b[i]]
         /\ outputBufferPosition' = Lookbehind
         /\ outputPosition' = outputPosition - diff

\* queueOutput's store and flushOutput.
Flushed(b, queued) ==
    IF queued <= Threshold
    THEN buffer' = b /\ outputBufferPosition' = queued /\ UNCHANGED outputPosition
    ELSE LET diff == queued - Lookbehind IN
         /\ buffer' = [i \in 0 .. BufferSize - 1 |->
                         IF i < Lookbehind /\ i + diff < BufferSize THEN b[i + diff] ELSE b[i]]
         /\ outputBufferPosition' = Lookbehind
         /\ outputPosition' = outputPosition - diff

Literal ==
    /\ Decompressing /\ consumed < Len(stream.commands) /\ Command.back = 0
    /\ Flushed([buffer EXCEPT ![outputBufferPosition] = stream.text[stream.start[consumed + 1] + 1]],
               outputBufferPosition + 1)
    /\ consumed' = consumed + 1
    /\ UNCHANGED <<stream, left, position, err, call, room, out, offset, result>>

BeginCopy ==
    /\ Decompressing /\ consumed < Len(stream.commands) /\ Command.back > 0
    /\ left' = Command.size
    /\ UNCHANGED <<stream, consumed, buffer, outputBufferPosition, outputPosition,
                   position, err, call, room, out, offset, result>>

\* One byte of a copy; the buffer is flushed after the last one only.
Copy ==
    /\ Reading /\ left > 0
    /\ LET b == [buffer EXCEPT ![outputBufferPosition] =
                    buffer[outputBufferPosition - Command.back]]
       IN  IF left = 1
           THEN Flushed(b, outputBufferPosition + 1) /\ consumed' = consumed + 1
           ELSE /\ buffer' = b /\ outputBufferPosition' = outputBufferPosition + 1
                /\ UNCHANGED <<outputPosition, consumed>>
    /\ left' = left - 1
    /\ UNCHANGED <<stream, position, err, call, room, out, offset, result>>

\* The end marker, or the end of the data where a command should be.
Ending ==
    /\ Decompressing /\ consumed = Len(stream.commands)
    /\ err' = stream.tail
    /\ UNCHANGED <<stream, consumed, left, buffer, outputBufferPosition, outputPosition,
                   position, call, room, out, offset, result>>

\* Mutant of Take: Read is content with what was in the buffer.
TakeOnce ==
    /\ Reading /\ left = 0 /\ outputPosition < outputBufferPosition
    /\ LET read == Least(Least(room, stream.size - position), outputBufferPosition - outputPosition)
       IN  /\ out' = out \o [k \in 1 .. read |-> buffer[outputPosition + k - 1]]
           /\ outputPosition' = outputPosition + read
           /\ position' = position + read
    /\ room' = 0
    /\ UNCHANGED <<stream, consumed, left, buffer, outputBufferPosition, err, call,
                   offset, result>>

\* What is decompressed goes to p, which is cut to the declared size.
Take ==
    /\ Reading /\ left = 0 /\ outputPosition < outputBufferPosition
    /\ LET length == Least(room, stream.size - position)
           read == Least(length, outputBufferPosition - outputPosition)
       IN  /\ out' = out \o [k \in 1 .. read |-> buffer[outputPosition + k - 1]]
           /\ outputPosition' = outputPosition + read
           /\ position' = position + read
           /\ room' = length - read
    /\ UNCHANGED <<stream, consumed, left, buffer, outputBufferPosition, err, call,
                   offset, result>>

\* After the end marker the text is zeros up to the declared size.
Fill ==
    IF err = "prsEOF" /\ position < stream.size
    THEN LET read == Least(room, stream.size - position) IN
         out' = out \o [k \in 1 .. read |-> 0] /\ position' = position + read
    ELSE UNCHANGED <<out, position>>

\* The error that Read returns.
ReadError ==
    CASE err = "EOF" -> "ErrUnexpectedEOF"
      [] err = "prsEOF" /\ position >= stream.size -> "EOF"
      [] OTHER -> "none"

Done == call \in {"Read", "SeekRead"} /\ left = 0 /\ (room = 0 \/ err # "none")

ReadReturns ==
    /\ Done /\ call = "Read"
    /\ Fill
    /\ call' = "none"
    /\ result' = [result EXCEPT !.call = "Read", !.err = ReadError]
    /\ UNCHANGED <<stream, consumed, left, buffer, outputBufferPosition, outputPosition,
                   err, room, offset>>

-----------------------------------------------------------------------------
(* Seek.                                                                   *)

\* Mutant of Rewind: what is buffered is kept.
RewindKeepsOutput ==
    /\ consumed' = 0 /\ position' = 0 /\ err' = "none" /\ outputPosition' = 0
    /\ UNCHANGED outputBufferPosition

Rewind ==
    /\ consumed' = 0 /\ position' = 0 /\ err' = "none"
    /\ outputBufferPosition' = 0 /\ outputPosition' = 0

Seek ==
    /\ call = "none"
    /\ \E to \in -1 .. stream.size + 1 :   \* bound: from before the start to past the end
          /\ offset' = to /\ result' = [NoResult EXCEPT !.asked = to]
          /\ IF to < position THEN Rewind
             ELSE UNCHANGED <<consumed, position, err, outputBufferPosition, outputPosition>>
    /\ call' = "Seek" /\ room' = 0 /\ out' = <<>>
    /\ UNCHANGED <<stream, left, buffer>>

SeekReads ==
    /\ call = "Seek" /\ offset > position
    /\ Enter(Least(offset - position, SeekChunk))
    /\ call' = "SeekRead"
    /\ UNCHANGED <<stream, consumed, left, buffer, outputBufferPosition, outputPosition,
                   position, offset, result>>

\* Mutant of SeekReadReturns: an error of Read does not end the loop.
SeekReadReturnsAnyway ==
    /\ Done /\ call = "SeekRead"
    /\ Fill /\ call' = "Seek"
    /\ UNCHANGED <<stream, consumed, left, buffer, outputBufferPosition, outputPosition,
                   err, room, offset, result>>

SeekReadReturns ==
    /\ Done /\ call = "SeekRead"
    /\ Fill
    /\ IF ReadError = "none"
       THEN call' = "Seek" /\ UNCHANGED result
       ELSE call' = "none" /\ result' = [result EXCEPT !.call = "Seek", !.err = ReadError]
    /\ UNCHANGED <<stream, consumed, left, buffer, outputBufferPosition, outputPosition,
                   err, room, offset>>

SeekReturns ==
    /\ call = "Seek" /\ offset <= position
    /\ call' = "none" /\ result' = [result EXCEPT !.call = "Seek"]
    /\ UNCHANGED <<stream, window, room, out, offset>>

Step == Literal \/ BeginCopy \/ Copy \/ Ending \/ Take \/ ReadReturns
        \/ SeekReads \/ SeekReadReturns \/ SeekReturns
Next == Read \/ Seek \/ Step
Spec == Init /\ [][Next]_vars /\ WF_vars(Step)

-----------------------------------------------------------------------------
(* Correctness.                                                            *)

\* What the archive declares: the text, filled up with zeros.
Expected(p) == IF p < Len(stream.text) THEN stream.text[p + 1] ELSE 0

\* Whatever was read and sought before, and however often the window moved: the
\* bytes a Read puts into p are the text at the position it started from.
ReadsPlaintext ==
    \A k \in 1 .. Len(out) : out[k] = Expected(position - Len(out) + k - 1)

\* A Read returns all it was asked for unless it reaches the declared size or
\* returns an error; a Seek that returns no error is where it was to go.
CallsComplete ==
    call = "none" /\ result.err = "none" =>
        /\ result.call = "Read" => Len(out) = result.asked \/ position = stream.size
        /\ result.call = "Seek" => position = offset \/ offset < 0

\* Every call returns.
Returns == call # "none" ~> call = "none"

\* The inductive invariant: the window ends with what has been produced, and what
\* has not been taken of it starts at the reader's position.
Produced == stream.start[consumed + 1] + (IF left = 0 THEN 0 ELSE Command.size - left)
Window(b, queued, produced) ==
    /\ queued <= produced
    /\ queued = produced \/ Lookbehind <= queued
    /\ \A i \in 0 .. queued - 1 : b[i] = stream.text[produced - queued + i + 1]
WindowInv ==
    /\ TypeOK
    /\ outputPosition <= outputBufferPosition
    /\ call \in {"none", "Seek"} => left = 0
    /\ left = 0 => outputBufferPosition <= Threshold
    /\ left > 0 => /\ consumed < Len(stream.commands) /\ Command.back > 0
                   /\ left <= Command.size
                   /\ outputBufferPosition + left <= Threshold + Command.size
                   /\ outputBufferPosition - outputPosition = Command.size - left
    /\ Window(buffer, outputBufferPosition, Produced)
    /\ \/ position = Produced - (outputBufferPosition - outputPosition)
       \/ err # "none" /\ position >= Len(stream.text)
    /\ err = "prsEOF" => position >= Len(stream.text)
==============================================================================
