----------------------------- MODULE BufReader -----------------------------
(* The buffered reader below the redis client (Reader of bufio.go). The     *)
(* bytes of the source are numbered from 1; Text gives the class of each.   *)
EXTENDS Integers, Sequences

CONSTANTS Text,       \* "a", "n" a newline, "c" a carriage return, "U" and "u" a rune of two bytes
          Size        \* length of the buffer, UTFMax or more

UTFMax == 2
Delim == "n"

VARIABLES b,          \* the Reader
          taken,      \* bytes that the source has given
          call,       \* the call in progress
          out,        \* what the last call gave, or a WriteTo so far
          spoiled     \* history: a byte was put back that is not the one before

vars == <<b, taken, call, out, spoiled>>

Idle == [op |-> "none", n |-> 0, got |-> <<>>]
Out(op, bytes, err) == [op |-> op, bytes |-> bytes, err |-> err, prefix |-> FALSE]

Least(m, n) == IF m <= n THEN m ELSE n
Last(s) == s[Len(s)]

Buffered == b.w - b.r
Bytes == SubSeq(b.buf, b.r + 1, b.w)
Front(n) == SubSeq(b.buf, b.r + 1, b.r + n)

\* The byte that the caller was given last.
Pos == taken - Buffered - Len(call.got)

Init ==
    /\ b = [buf |-> [i \in 1..Size |-> 0], r |-> 0, w |-> 0, err |-> "",
            lastByte |-> -1, lastRuneSize |-> -1]
    /\ taken = 0 /\ call = Idle /\ out = Out("none", <<>>, "") /\ spoiled = FALSE

----------------------------------------------------------------------------
(* Faulty variants, used by no specification. *)

\* The bytes are left where they are.
SlideNothing(i) == b.buf[i]

----------------------------------------------------------------------------
\* What a Read of the source may give into a room of n bytes.
Reads(n) ==
    {read \in (0..Least(n, Len(Text) - taken)) \X {"", "fail", "EOF"} :
        read[2] = "EOF" => read[1] = Len(Text) - taken}

\* The byte that fill copies to i.
Slide(i) == b.buf[i + b.r]

\* fill: a hundred reads of nothing are an error.
Fill ==
    \E read \in Reads(Size - Buffered) :
        /\ taken' = taken + read[1]
        /\ b' = [b EXCEPT
             !.buf = [i \in 1..Size |->
                        CASE i <= Buffered -> Slide(i)
                          [] i \in Buffered + 1 .. Buffered + read[1] -> taken + i - Buffered
                          [] OTHER -> b.buf[i]],
             !.r = 0, !.w = Buffered + read[1],
             !.err = IF read[2] # "" THEN read[2] ELSE IF read[1] = 0 THEN "NoProgress" ELSE @]

\* The place of the first delimiter in the buffer, or 0.
IndexByte ==
    LET at == {i \in 1..Buffered : Text[Bytes[i]] = Delim}
    IN IF at = {} THEN 0 ELSE CHOOSE i \in at : \A j \in at : i <= j

\* utf8.FullRune and DecodeRune: an incomplete rune is one wrong byte.
FullRune == Buffered >= 1 /\ (Text[Bytes[1]] = "U" => Buffered >= 2)
RuneSize == IF Buffered >= 2 /\ Text[Bytes[1]] = "U" /\ Text[Bytes[2]] = "u" THEN 2 ELSE 1

\* The loop conditions, apart from that on b.err.
Wants ==
    CASE call.op = "Peek" -> Buffered < call.n
      [] call.op = "Read" -> Buffered = 0 /\ call.n < Size
      [] call.op = "ReadByte" -> Buffered = 0
      [] call.op = "ReadRune" -> Buffered < UTFMax /\ ~FullRune
      [] call.op = "ReadN" -> Buffered < call.n /\ Buffered < Size
      [] call.op \in {"ReadSlice", "ReadLine", "ReadBytes"} -> IndexByte = 0 /\ Buffered < Size
      [] OTHER -> FALSE

FillForCall ==
    /\ Wants /\ b.err = ""
    /\ Fill
    /\ UNCHANGED <<call, out, spoiled>>

----------------------------------------------------------------------------
Start(op, n) ==
    /\ call = Idle
    /\ call' = [Idle EXCEPT !.op = op, !.n = n]
    /\ out' = Out("none", <<>>, "")
    /\ UNCHANGED <<b, taken, spoiled>>

Ready(op) == call.op = op /\ (~Wants \/ b.err # "")

Return(now, result) ==
    /\ b' = now /\ out' = result /\ call' = Idle
    /\ UNCHANGED <<taken, spoiled>>

\* What the reader is after n bytes of the buffer were read.
Read1(n) == [b EXCEPT !.r = @ + n, !.lastByte = Last(Front(n)), !.lastRuneSize = -1]

\* No byte, and the pending error.
Nothing(op) == Return([b EXCEPT !.err = ""], Out(op, <<>>, b.err))

Peek ==
    /\ Ready("Peek")
    /\ IF Buffered >= call.n THEN Return(b, Out("Peek", Front(call.n), ""))
       ELSE Return([b EXCEPT !.err = ""], Out("Peek", Bytes, b.err))

Read ==
    /\ Ready("Read") /\ (Buffered > 0 \/ b.err # "")
    /\ IF Buffered = 0 THEN Nothing("Read")
       ELSE LET n == Least(Buffered, call.n) IN Return(Read1(n), Out("Read", Front(n), ""))

\* A large slice is read around the empty buffer.
ReadDirect ==
    /\ Ready("Read") /\ Buffered = 0 /\ b.err = ""
    /\ \E read \in Reads(call.n) :
          LET p == [i \in 1..read[1] |-> taken + i] IN
          /\ taken' = taken + read[1]
          /\ out' = Out("Read", p, read[2])
          /\ b' = IF p = <<>> THEN b ELSE [b EXCEPT !.lastByte = Last(p), !.lastRuneSize = -1]
    /\ call' = Idle
    /\ UNCHANGED spoiled

ReadByte ==
    /\ Ready("ReadByte")
    /\ IF Buffered = 0 THEN Return([b EXCEPT !.err = "", !.lastRuneSize = -1], Out("ReadByte", <<>>, b.err))
       ELSE Return(Read1(1), Out("ReadByte", Front(1), ""))

ReadRune ==
    /\ Ready("ReadRune")
    /\ IF Buffered = 0 THEN Return([b EXCEPT !.err = "", !.lastRuneSize = -1], Out("ReadRune", <<>>, b.err))
       ELSE Return([Read1(RuneSize) EXCEPT !.lastRuneSize = RuneSize], Out("ReadRune", Front(RuneSize), ""))

\* ReadN sets no lastByte.
ReadN ==
    /\ Ready("ReadN")
    /\ IF Buffered >= call.n THEN Return([b EXCEPT !.r = @ + call.n], Out("ReadN", Front(call.n), ""))
       ELSE IF b.err # "" THEN Return([b EXCEPT !.r = b.w, !.err = ""], Out("ReadN", Bytes, b.err))
       ELSE Return([b EXCEPT !.r = b.w], Out("ReadN", Bytes, "full"))

----------------------------------------------------------------------------
\* ReadSlice: the line, the error, and the reader after it.
SliceEnd == IF IndexByte # 0 THEN IndexByte ELSE Buffered
SliceErr == IF IndexByte # 0 THEN "" ELSE IF b.err # "" THEN b.err ELSE "full"
Sliced ==
    [b EXCEPT !.r = @ + SliceEnd,
              !.err = IF IndexByte = 0 THEN "" ELSE @,
              !.lastByte = IF SliceEnd = 0 THEN @ ELSE Last(Front(SliceEnd))]

ReadSlice == Ready("ReadSlice") /\ Return(Sliced, Out("ReadSlice", Front(SliceEnd), SliceErr))

\* The carriage return that ReadLine puts back, for its newline may follow.
Straddles(line) == Text[Last(line)] = "c"

LineEnd(line) ==
    CASE Text[Last(line)] # "n" -> 0
      [] Text[Last(line)] = "n" /\ Len(line) > 1 /\ Text[line[Len(line) - 1]] = "c" -> 2
      [] OTHER -> 1

\* ReadLine: an error after the first byte of a line is lost.
ReadLine ==
    /\ Ready("ReadLine")
    /\ LET line == Front(SliceEnd)
           Cut(n) == SubSeq(line, 1, Len(line) - n)
       IN CASE line = <<>> -> Return(Sliced, Out("ReadLine", line, SliceErr))
            [] SliceErr = "full" ->
                 LET back == IF Straddles(line) THEN 1 ELSE 0
                 IN Return([Sliced EXCEPT !.r = @ - back],
                           [Out("ReadLine", Cut(back), "") EXCEPT !.prefix = TRUE])
            [] OTHER -> Return(Sliced, Out("ReadLine", Cut(LineEnd(line)), ""))

\* ReadBytes: full buffers are set aside until the last fragment.
ReadFragment ==
    /\ Ready("ReadBytes") /\ SliceErr = "full"
    /\ b' = Sliced
    /\ call' = [call EXCEPT !.got = @ \o Front(SliceEnd)]
    /\ UNCHANGED <<taken, out, spoiled>>

ReadBytes ==
    /\ Ready("ReadBytes") /\ SliceErr # "full"
    /\ Return(Sliced, Out("ReadBytes", call.got \o Front(SliceEnd), SliceErr))

----------------------------------------------------------------------------
\* UnreadByte writes lastByte before what is buffered, whatever was there.
UnreadByte ==
    /\ call = Idle
    /\ b.lastByte # -1 /\ (b.r > 0 \/ b.w = 0)
    /\ LET r == IF b.r > 0 THEN b.r - 1 ELSE 0
       IN b' = [b EXCEPT !.r = r, !.w = IF b.r = 0 THEN 1 ELSE @, !.buf[r + 1] = b.lastByte,
                         !.lastByte = -1, !.lastRuneSize = -1]
    /\ spoiled' = (spoiled \/ b.lastByte # Pos)
    /\ out' = Out("UnreadByte", <<>>, "")
    /\ UNCHANGED <<taken, call>>

UnreadRune ==
    /\ call = Idle
    /\ b.lastRuneSize >= 0 /\ b.r >= b.lastRuneSize
    /\ b' = [b EXCEPT !.r = @ - b.lastRuneSize, !.lastByte = -1, !.lastRuneSize = -1]
    /\ out' = Out("UnreadRune", <<>>, "")
    /\ UNCHANGED <<taken, call, spoiled>>

\* writeBuf of a WriteTo, to a writer that takes a part only with an error;
\* n counts the writes.
WriteBuf ==
    /\ call.op = "WriteTo" /\ (call.n = 0 \/ Buffered > 0)
    /\ \E m \in 0..Buffered :
          /\ b' = [b EXCEPT !.r = @ + m]
          /\ out' = Out("WriteTo", Front(m), IF m < Buffered THEN "write" ELSE "")
          /\ call' = IF m < Buffered THEN Idle ELSE [call EXCEPT !.n = 1]
    /\ UNCHANGED <<taken, spoiled>>

\* The fill does not look at a pending error.
FillForWriteTo ==
    /\ call.op = "WriteTo" /\ call.n = 1 /\ Buffered = 0
    /\ Fill
    /\ call' = [call EXCEPT !.n = 2]
    /\ out' = Out("WriteTo", <<>>, "")
    /\ UNCHANGED spoiled

WriteToEnds ==
    /\ call.op = "WriteTo" /\ call.n = 2 /\ Buffered = 0
    /\ Return([b EXCEPT !.err = ""], Out("WriteTo", <<>>, IF b.err = "EOF" THEN "" ELSE b.err))

Next ==
    \/ \E n \in 1..Size : Start("Peek", n)
    \/ \E op \in {"Read", "ReadN"}, n \in 1..Size + 1 : Start(op, n)
    \/ \E op \in {"ReadByte", "ReadRune", "ReadSlice", "ReadLine", "ReadBytes", "WriteTo"} : Start(op, 0)
    \/ FillForCall \/ Peek \/ Read \/ ReadDirect \/ ReadByte \/ ReadRune \/ ReadN
    \/ ReadSlice \/ ReadLine \/ ReadFragment \/ ReadBytes
    \/ UnreadByte \/ UnreadRune \/ WriteBuf \/ FillForWriteTo \/ WriteToEnds

Spec == Init /\ [][Next]_vars

----------------------------------------------------------------------------
\* Whatever the calls, and however the source cuts its bytes, the bytes given
\* to the caller are those that follow the ones given before, none lost and
\* none twice, but for the end of a line (Reader, until a byte was put back
\* that is not the last one).
GivesNext ==
    call # Idle /\ call' # call /\ ~spoiled =>
        /\ \A i \in DOMAIN out'.bytes : out'.bytes[i] = Pos + i
        /\ Pos' - Pos \in
             CASE out'.op = "Peek" -> {0}
               [] out'.op = "ReadLine" -> {Len(out'.bytes) + n : n \in 0..2}
               [] OTHER -> {Len(out'.bytes)}

\* Wherever the buffer cuts a line, ReadLine gives no byte of the line's end,
\* not even the carriage return that a full buffer parts from its newline;
\* and a line that ends without one is all that the source has given.
LinesWhole ==
    out.op = "ReadLine" /\ out.bytes # <<>> /\ ~spoiled =>
        /\ \A i \in DOMAIN out.bytes : Text[out.bytes[i]] # "n"
        /\ out.prefix => ~(Text[Pos] = "c" /\ Pos < Len(Text) /\ Text[Pos + 1] = "n")
        /\ out.prefix \/ Text[Pos] = "n" \/ Pos = taken
=============================================================================
