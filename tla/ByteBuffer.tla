----------------------------- MODULE ByteBuffer -----------------------------
(* The byte buffer of bufio.v1 (buffer.go), from which the parser's tests   *)
(* read. The bytes written are numbered from 1; Text gives the class of     *)
(* each, "a" or, for a rune of two bytes, "U" and "u".                      *)
EXTENDS Naturals, Sequences

CONSTANTS Text,       \* the bytes that are written, in this order
          Bootstrap,  \* length of the first buffer
          MinRead     \* room that ReadFrom makes for a read

VARIABLES b,          \* the Buffer: buf to its capacity, the len of buf, off, lastRead
          written,    \* bytes written so far
          reading,    \* BOOLEAN: a ReadFrom is in its loop
          given,      \* the bytes that were read last, <<>> once there was a write
          split       \* history: UnreadRune has met a rune of which only the end was read

vars == <<b, written, reading, given, split>>

Contents == SubSeq(b.buf, b.off + 1, b.len)
Len0 == b.len - b.off
Cap == Len(b.buf)
Least(m, n) == IF m <= n THEN m ELSE n

Init ==
    /\ b = [buf |-> <<>>, len |-> 0, off |-> 0, lastRead |-> "Invalid"]
    /\ written = 0 /\ reading = FALSE /\ given = <<>> /\ split = FALSE

----------------------------------------------------------------------------
\* The byte that is copied to i when the contents go to the front.
Slide(i) == IF i <= Len0 THEN b.buf[b.off + i] ELSE 0

\* The buffer with its contents in front of a capacity of n.
AtFront(n) == [b EXCEPT !.buf = [i \in 1..n |-> IF i <= Len0 THEN Slide(i) ELSE 0],
                        !.len = Len0, !.off = 0]

\* grow(n): room for n more, in the buffer, in the one that Buffer holds, by
\* sliding, or in a new one. An empty buffer begins again.
Grown(n) ==
    LET cleared == IF Len0 = 0 THEN [b EXCEPT !.off = 0, !.len = 0] ELSE b
    IN CASE cleared.len + n <= Cap -> cleared
         [] cleared.len + n > Cap /\ Cap = 0 /\ n <= Bootstrap -> AtFront(Bootstrap)
         [] cleared.len + n > Cap /\ Cap > 0 /\ Len0 + n <= Cap \div 2 -> AtFront(Cap)
         [] OTHER -> AtFront(2 * Cap + n)

\* The next n bytes after what old contains.
Put(old, n) ==
    [old EXCEPT !.buf = [i \in DOMAIN @ |-> IF i \in old.len + 1 .. old.len + n
                                            THEN written + i - old.len ELSE @[i]],
                !.len = @ + n, !.lastRead = "Invalid"]

\* Write, WriteString, WriteByte and WriteRune.
Write(n) ==
    /\ ~reading /\ written + n <= Len(Text)
    /\ b' = Put(Grown(n), n)
    /\ written' = written + n
    /\ given' = <<>>
    /\ UNCHANGED <<reading, split>>

\* Grow does not touch lastRead, but clearing an empty buffer does.
Grow(n) ==
    /\ ~reading
    /\ b' = [Grown(n) EXCEPT !.lastRead = IF Len0 = 0 /\ b.off # 0 THEN "Invalid" ELSE @]
    /\ UNCHANGED <<written, reading, given, split>>

Emptied == [b EXCEPT !.off = 0, !.len = 0, !.lastRead = "Invalid"]

Truncate(n) ==
    /\ ~reading /\ n <= Len0
    /\ b' = IF n = 0 THEN Emptied ELSE [b EXCEPT !.len = b.off + n, !.lastRead = "Invalid"]
    /\ given' = <<>>
    /\ UNCHANGED <<written, reading, split>>

----------------------------------------------------------------------------
\* ReadFrom makes room, reads, and ends with the source's error or end.
StartReadFrom ==
    /\ ~reading /\ written < Len(Text)
    /\ reading' = TRUE
    /\ b' = IF Len0 = 0 THEN Emptied ELSE [b EXCEPT !.lastRead = "Invalid"]
    /\ given' = <<>>
    /\ UNCHANGED <<written, split>>

ReadFrom ==
    /\ reading
    /\ LET free == Cap - b.len
           room == CASE free >= MinRead -> b
                     [] free < MinRead /\ b.off + free >= MinRead -> AtFront(Cap)
                     [] OTHER -> AtFront(2 * Cap + MinRead)
       IN \E m \in 0..Least(Len(room.buf) - room.len, Len(Text) - written), ends \in BOOLEAN :
             /\ b' = Put(room, m)
             /\ written' = written + m
             /\ reading' = ~ends
    /\ UNCHANGED <<given, split>>

\* WriteTo, to a writer that takes m bytes; less than all ends it.
WriteTo(m) ==
    /\ ~reading /\ m <= Len0
    /\ b' = IF m = Len0 THEN Emptied ELSE [b EXCEPT !.off = @ + m, !.lastRead = "Invalid"]
    /\ given' = SubSeq(Contents, 1, m)
    /\ UNCHANGED <<written, reading, split>>

----------------------------------------------------------------------------
\* What a read of n bytes makes of lastRead.
AfterRead(n) == IF n > 0 THEN "Read" ELSE "Invalid"

Take(n, op) ==
    /\ b' = [b EXCEPT !.off = @ + n, !.lastRead = op]
    /\ given' = IF n = 0 THEN given ELSE SubSeq(Contents, 1, n)
    /\ UNCHANGED <<written, reading, split>>

Empty ==
    /\ b' = Emptied
    /\ given' = <<>>
    /\ UNCHANGED <<written, reading, split>>

\* Read and ReadByte.
Read(n) ==
    /\ ~reading
    /\ IF Len0 = 0 THEN Empty ELSE Take(Least(n, Len0), AfterRead(n))

\* Next leaves an empty buffer as it is.
NextBytes(n) ==
    /\ ~reading
    /\ Take(Least(n, Len0), AfterRead(Least(n, Len0)))

\* readSlice, here up to the end of the buffer or to a delimiter "a"; even a
\* slice of nothing is a read.
ReadSlice ==
    /\ ~reading
    /\ LET at == {i \in 1..Len0 : Text[Contents[i]] = "a"}
           n == IF at = {} THEN Len0 ELSE CHOOSE i \in at : \A j \in at : i <= j
       IN Take(n, "Read")

IsRune(i) == i >= 1 /\ i < b.len /\ Text[b.buf[i]] = "U" /\ Text[b.buf[i + 1]] = "u"

ReadRune ==
    /\ ~reading
    /\ IF Len0 = 0 THEN Empty ELSE Take(IF IsRune(b.off + 1) THEN 2 ELSE 1, "ReadRune")

\* UnreadRune looks for the rune that ends at off, and may find more than was read.
UnreadRune ==
    /\ ~reading /\ b.lastRead = "ReadRune"
    /\ LET n == IF b.off >= 2 /\ IsRune(b.off - 1) THEN 2 ELSE Least(1, b.off)
       IN /\ b' = [b EXCEPT !.off = @ - n, !.lastRead = "Invalid"]
          /\ split' = (split \/ n > Len(given))
    /\ UNCHANGED <<written, reading, given>>

UnreadByte ==
    /\ ~reading /\ b.lastRead \in {"ReadRune", "Read"}
    /\ b' = [b EXCEPT !.off = IF @ > 0 THEN @ - 1 ELSE @, !.lastRead = "Invalid"]
    /\ UNCHANGED <<written, reading, given, split>>

Next ==
    \/ \E n \in 0..Bootstrap + 1 : Write(n) \/ Grow(n) \/ Truncate(n) \/ WriteTo(n) \/ Read(n) \/ NextBytes(n)
    \/ StartReadFrom \/ ReadFrom \/ ReadSlice \/ ReadRune \/ UnreadRune \/ UnreadByte

Spec == Init /\ [][Next]_vars

----------------------------------------------------------------------------
\* Wherever the bytes lie, the buffer is a queue: a call appends the bytes
\* written, takes bytes from the front and gives them to the caller, drops
\* the end, or puts back in front what the caller was given last
\* (the doc comments of Buffer, but for the rune of UnreadRune).
QueueStep ==
    \/ split'
    \/ Contents' = Contents \o [i \in 1..(written' - written) |-> written + i]
    \/ /\ written' = written
       /\ \/ \E n \in 0..Len0 : /\ Contents' = SubSeq(Contents, n + 1, Len0)
                                /\ given' \in {SubSeq(Contents, 1, n), <<>>}
                                /\ given' = <<>> => n = Len0 \/ n = 0
          \/ \E n \in 0..Len0 : Contents' = SubSeq(Contents, 1, n) /\ given' = <<>>
          \/ \E n \in 1..Len(given) :
                Contents' = SubSeq(given, n, Len(given)) \o Contents
=============================================================================
