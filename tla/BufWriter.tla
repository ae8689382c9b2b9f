----------------------------- MODULE BufWriter -----------------------------
(* The buffered writer of bufio.v1 (Writer of bufio.go). The bytes that it  *)
(* accepts are numbered from 1.                                             *)
EXTENDS Naturals, Sequences

CONSTANTS Size,       \* length of the buffer
          MaxBytes,   \* bound on the bytes of all calls
          SinkReads   \* BOOLEAN: the writer below is an io.ReaderFrom

UTFMax == 2

VARIABLES w,          \* the Writer
          sink,       \* bytes that the writer below has taken
          accepted,   \* bytes of which the caller was told that they are written
          call,       \* the call in progress, and the bytes it has left
          out         \* what the last call returned

vars == <<w, sink, accepted, call, out>>

Idle == [op |-> "none", left |-> 0]
Available == Size - w.n
Least(m, n) == IF m <= n THEN m ELSE n
Fresh(n) == [i \in 1..n |-> accepted + i]

Init ==
    /\ w = [buf |-> [i \in 1..Size |-> 0], n |-> 0, err |-> ""]
    /\ sink = <<>> /\ accepted = 0 /\ call = Idle /\ out = [op |-> "none", err |-> ""]

----------------------------------------------------------------------------
(* Faulty variants, used by no specification. *)

\* What the writer below has not taken stays where it is.
RestInPlace(i, m) == w.buf[i]

----------------------------------------------------------------------------
\* What the writer below makes of n bytes: how many it takes, and its error.
Writes(n) == (0..n) \X {"", "fail"}

\* Where the byte at i is from, after the first m were taken.
Rest(i, m) == IF i + m <= w.n THEN w.buf[i + m] ELSE w.buf[i]

ShortWrite(m, e) == IF e = "" /\ m < w.n THEN "short" ELSE e

\* flush; an empty buffer, or an error before, makes it do nothing.
FlushBuf ==
    \E write \in Writes(w.n) :
        LET m == write[1]
            err == ShortWrite(m, write[2])
        IN /\ sink' = sink \o SubSeq(w.buf, 1, m)
           /\ w' = IF err = "" THEN [w EXCEPT !.n = 0]
                   ELSE [w EXCEPT !.buf = [i \in 1..Size |-> Rest(i, m)], !.n = @ - m, !.err = err]

Copied(n) == [w EXCEPT !.buf = [i \in 1..Size |-> IF i \in w.n + 1 .. w.n + n THEN accepted + i - w.n
                                                   ELSE @[i]],
                       !.n = @ + n]

Start(op, n) ==
    /\ call = Idle /\ accepted + n <= MaxBytes
    /\ call' = [op |-> op, left |-> n]
    /\ out' = [op |-> "none", err |-> ""]
    /\ UNCHANGED <<w, sink, accepted>>

Return(err) == call' = Idle /\ out' = [op |-> call.op, err |-> err]

Writing == call.op \in {"Write", "WriteString", "WriteRune"}
TooLong == Writing /\ call.left > Available /\ w.err = ""

\* Write passes by an empty buffer.
WriteDirect ==
    /\ TooLong /\ call.op = "Write" /\ w.n = 0
    /\ \E write \in Writes(call.left) :
          /\ sink' = sink \o Fresh(write[1])
          /\ accepted' = accepted + write[1]
          /\ call' = [call EXCEPT !.left = @ - write[1]]
          /\ w' = [w EXCEPT !.err = write[2]]
    /\ UNCHANGED out

\* The buffer is filled, and then flushed.
WriteFills ==
    /\ TooLong /\ Available > 0
    /\ call.op = "Write" => w.n > 0
    /\ call.op = "WriteRune" => w.n = 0
    /\ w' = Copied(Available)
    /\ accepted' = accepted + Available
    /\ call' = [call EXCEPT !.left = @ - Available]
    /\ UNCHANGED <<sink, out>>

\* The flush of a full buffer, and of one without the room of any rune.
WriteFlushes ==
    /\ Writing /\ w.err = "" /\ w.n > 0
    /\ Available = 0 \/ (call.op = "WriteRune" /\ Available < UTFMax)
    /\ FlushBuf
    /\ UNCHANGED <<accepted, call, out>>

\* A rune that does not fit the empty buffer is written as a string.
WriteEnds ==
    /\ Writing
    /\ \/ w.err # "" /\ Return(w.err) /\ UNCHANGED <<w, accepted>>
       \/ /\ w.err = "" /\ call.left <= Available
          /\ call.op = "WriteRune" => Available >= UTFMax \/ w.n = 0
          /\ w' = Copied(call.left)
          /\ accepted' = accepted + call.left
          /\ Return("")
    /\ UNCHANGED sink

----------------------------------------------------------------------------
Flush ==
    /\ call.op = "Flush"
    /\ IF w.err # "" \/ w.n = 0 THEN Return(w.err) /\ UNCHANGED <<w, sink>>
       ELSE FlushBuf /\ Return(w'.err)
    /\ UNCHANGED accepted

\* ReadFrom hands over to the writer below when nothing is buffered; neither
\* there nor when it reads is b.err looked at.
ReadFromBelow ==
    /\ call.op = "ReadFrom" /\ SinkReads /\ w.n = 0
    /\ \E n \in 0..call.left, err \in {"", "fail"} :
          /\ sink' = sink \o Fresh(n)
          /\ accepted' = accepted + n
          /\ Return(err)
    /\ UNCHANGED w

\* Once it reads by itself, it goes on so.
ReadFromFlushes ==
    /\ call.op \in {"ReadFrom", "reading"} /\ Available = 0
    /\ IF w.err # "" THEN Return(w.err) /\ UNCHANGED <<w, sink>>
       ELSE /\ FlushBuf
            /\ IF w'.err # "" THEN Return(w'.err)
               ELSE call' = [call EXCEPT !.op = "reading"] /\ UNCHANGED out
    /\ UNCHANGED accepted

\* The source gives bytes, an error (a hundred times nothing is one), or the
\* end, which is none.
ReadFromReads ==
    /\ call.op \in {"ReadFrom", "reading"} /\ Available > 0
    /\ call.op = "ReadFrom" => ~(SinkReads /\ w.n = 0)
    /\ \E m \in 0..Least(Available, call.left), e \in {"", "fail", "EOF"} :
          /\ m > 0 \/ e # ""
          /\ w' = Copied(m)
          /\ accepted' = accepted + m
          /\ CASE e = "" -> call' = [op |-> "reading", left |-> call.left - m] /\ UNCHANGED out
               [] e = "fail" -> Return("source")
               [] e = "EOF" /\ m < Available -> Return("")
               [] OTHER -> call' = [op |-> "Flush", left |-> 0] /\ UNCHANGED out
    /\ UNCHANGED sink

Next ==
    \/ \E n \in 1..Size + 2 : Start("Write", n) \/ Start("WriteString", n) \/ Start("ReadFrom", n)
    \/ Start("WriteString", 1) \/ Start("WriteRune", UTFMax) \/ Start("Flush", 0)
    \/ WriteDirect \/ WriteFills \/ WriteFlushes \/ WriteEnds \/ Flush
    \/ ReadFromBelow \/ ReadFromFlushes \/ ReadFromReads

Spec == Init /\ [][Next]_vars

----------------------------------------------------------------------------
\* The bytes that the callers were told are written are below or in the
\* buffer, each once and in order, whatever the writer below has taken of a
\* flush (Writer).
WrittenInOrder == sink \o SubSeq(w.buf, 1, w.n) = [i \in 1..accepted |-> i]

\* When Flush gives no error, all the bytes are below; and after an error
\* nothing goes below any more, but by the ReadFrom of the writer below.
FlushForwards ==
    /\ call.op = "Flush" /\ call' = Idle /\ out'.err = "" => sink' = [i \in 1..accepted' |-> i]
    /\ w.err # "" /\ call.op # "ReadFrom" => sink' = sink
=============================================================================
