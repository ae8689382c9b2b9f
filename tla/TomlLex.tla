------------------------------ MODULE TomlLex ------------------------------
(* The lexer of the configuration's language (lex.go of BurntSushi/toml),   *)
(* and what its parser makes of the order of the items (parse.go). A        *)
(* document comes one class of characters at a time and has no bound.       *)
(* Three lengths are cut: a year has two digits, \u takes one, and what     *)
(* follows a year, or the first letter of true and false, is a few "0", "t".*)
EXTENDS Naturals, Sequences

CONSTANT MaxDepth     \* bound on the arrays within arrays

VARIABLES ahead,      \* characters from lx.pos on, as far as they are known
          closed,     \* BOOLEAN: there are no others
          state,      \* lx.state; "nil" at the end
          stack,      \* lx.stack, the top first
          digits,     \* digits of the number in progress
          parser,     \* what the parser waits for, and the arrays it is in
          behind      \* the last two bytes before lx.pos

vars == <<ahead, closed, state, stack, digits, parser, behind>>

NL == {"nl"}
WS == {"ws"}
Width == [W2 |-> 2, W3 |-> 3, W4 |-> 4]     \* k is any other one, of one byte
Wide == DOMAIN Width
Chars == NL \cup WS \cup Wide \cup
         {"k", "t", "u", "0", "=", "[", "]", ".", ",", "#", "Q", "'", "\\", "-", "NUL"}
YearLen == 2
DateRest == <<"0", "t">>
ConstRest == <<"t">>

\* next() gives eof at the end, and for a NUL.
r == IF ahead = <<>> THEN "eof" ELSE ahead[1]
EOF == {"eof", "NUL"}

Init ==
    /\ ahead = <<>> /\ closed = FALSE
    /\ state = "Top" /\ stack = <<>> /\ digits = 0
    /\ parser = [wait |-> "top", depth |-> 0] /\ behind = <<>>

----------------------------------------------------------------------------
AnyQuote == {"Q", "'", "open"}

\* The characters that the state looks at.
Sees ==
    CASE state \in {"Value", "MultilineString", "MultilineRawString"} /\ r \in AnyQuote ->
           IF Len(ahead) > 1 /\ ahead[2] \in AnyQuote THEN 3 ELSE 2
      [] state \in {"MultilineStringEscape", "DateAfterYear"} -> 2
      [] state \in {"TableEnd", "CommentStart"} -> 0
      [] OTHER -> 1

Asks == ~closed /\ Len(ahead) < Sees

\* The next character of the document; lex() adds a newline to its end.
Type ==
    /\ state # "nil" /\ Asks
    /\ \/ \E c \in Chars :
             /\ c = "[" /\ state \in {"Value", "ArrayValue"} => parser.depth < MaxDepth
             /\ ahead' = Append(ahead, c)
             /\ UNCHANGED closed
       \/ ahead' = Append(ahead, "nl") /\ closed' = TRUE
    /\ UNCHANGED <<state, stack, digits, parser, behind>>

----------------------------------------------------------------------------
(* The parser: topLevel and value (parse.go), by the type of the next item. *)
Primitives == {"String", "RawString", "MultilineString", "RawMultilineString", "Bool", "Integer",
               "Float", "Datetime"}

\* Where the parser is after a value or a comment.
Back(p) == [p EXCEPT !.wait = IF @ = "bug" THEN @ ELSE IF p.depth > 0 THEN "element" ELSE "top"]

ParseValue(p, typ) ==
    CASE typ \in Primitives -> Back(p)
      [] typ = "Array" -> [wait |-> "element", depth |-> p.depth + 1]
      [] OTHER -> [p EXCEPT !.wait = "bug"]

ParseItem(p, typ) ==
    CASE p.wait = "top" ->
           [p EXCEPT !.wait = CASE typ = "CommentStart" -> "comment"
                                [] typ \in {"TableStart", "ArrayTableStart"} -> typ
                                [] typ = "KeyStart" -> "key"
                                [] typ = "EOF" -> "done"
                                [] OTHER -> "bug"]
      [] typ = "Text" /\ p.wait = "comment" -> Back(p)
      [] typ = "Text" /\ p.wait = "key" -> [p EXCEPT !.wait = "value"]
      [] typ = "Text" /\ p.wait \in {"TableStart", "TableEnd"} -> [p EXCEPT !.wait = "TableEnd"]
      [] typ = "Text" /\ p.wait \in {"ArrayTableStart", "ArrayTableEnd"} -> [p EXCEPT !.wait = "ArrayTableEnd"]
      [] typ \in {"TableEnd", "ArrayTableEnd"} /\ p.wait = typ -> Back(p)
      [] p.wait = "value" -> ParseValue(p, typ)
      [] p.wait = "element" /\ typ = "ArrayEnd" -> Back([p EXCEPT !.depth = @ - 1])
      [] p.wait = "element" /\ typ = "CommentStart" -> [p EXCEPT !.wait = "comment"]
      [] p.wait = "element" /\ typ \notin {"ArrayEnd", "CommentStart"} -> ParseValue(p, typ)
      [] OTHER -> [p EXCEPT !.wait = "bug"]

\* next of the parser: an item of an error is one of the document, wherever it
\* comes.
Parse(p, typ) == IF typ = "Error" THEN [p EXCEPT !.wait = "error"] ELSE ParseItem(p, typ)

----------------------------------------------------------------------------
Least(m, n) == IF m <= n THEN m ELSE n

\* What tells apart the bytes of a character that are read again; the opening
\* quotes of a string of several lines are "open".
Bytes(c) ==
    CASE c \in Wide -> <<"k", "k">>
      [] c \in {"Q", "'", "\\", "nl", ",", "open"} -> <<c>>
      [] OTHER -> <<"k">>

Recent(s) == SubSeq(s, Len(s) - Least(2, Len(s)) + 1, Len(s))

Past(n) == IF n = 0 THEN behind
           ELSE Recent((IF n = 1 THEN behind ELSE Bytes(ahead[n - 1])) \o Bytes(ahead[n]))

Skip(n) == ahead' = SubSeq(ahead, n + 1, Len(ahead)) /\ UNCHANGED <<closed, digits>>
Consume(n) == Skip(n) /\ behind' = Past(Least(n, Len(ahead)))

Go(n, to) == Consume(n) /\ state' = to /\ UNCHANGED <<stack, parser>>
Push(n, to, back) == Consume(n) /\ state' = to /\ stack' = <<back>> \o stack /\ UNCHANGED parser
Emit(typ, n, to) == Consume(n) /\ state' = to /\ parser' = Parse(parser, typ) /\ UNCHANGED stack
Error == Emit("Error", 0, "nil")

\* The process ends, or parse returns an error.
Stop(why) == state' = "nil" /\ parser' = [parser EXCEPT !.wait = why] /\ UNCHANGED stack

\* Texts that the lexer takes and value does not: a number out of range is an
\* error, a date that is none and a backslash that is escaped before a "u" (of
\* which replaceUnicode makes an escape) end the process.
Misread == [Integer |-> "error", Float |-> "error", Datetime |-> "unreadable",
            String |-> "unreadable", MultilineString |-> "unreadable"]

\* emit and pop; pop gives an error when there is nothing to pop.
EmitPop(typ, n) ==
    /\ Consume(n)
    /\ \/ /\ parser' = Parse(parser, IF stack = <<>> THEN "Error" ELSE typ)
          /\ state' = IF stack = <<>> THEN "no states to pop" ELSE Head(stack)
          /\ stack' = IF stack = <<>> THEN stack ELSE Tail(stack)
       \/ typ \in DOMAIN Misread /\ Stop(Misread[typ])

\* Two quotes come next, and one more or c.
TwoThen(quote, c) ==
    /\ Len(ahead) >= 3
    /\ {ahead[1], ahead[2]} \subseteq {quote, "open"}
    /\ ahead[3] = c

\* Of two quotes before a character that is no third, the second is put back by
\* the width of that character, as the character itself: lx.pos is so many
\* bytes before the first.
Regress(n, to) ==
    /\ ahead' = SubSeq(behind, Len(behind) - n + 1, Len(behind)) \o ahead
    /\ behind' = SubSeq(behind, 1, Len(behind) - n)
    /\ state' = to
    /\ UNCHANGED <<closed, stack, digits, parser>>

In(name) == state = name /\ (closed \/ Len(ahead) >= Sees)

----------------------------------------------------------------------------
(* Faulty variants, used by no specification. *)

\* A comment in an array is followed by the top.
CommentInArrayToTop == "Top"

\* A key goes on over the ends of lines.
KeyEndsAtSep == {"="}

----------------------------------------------------------------------------
(* The state functions at the top: comments, tables and keys. *)
Top ==
    /\ In("Top")
    /\ CASE r \in WS \cup NL -> Go(1, "Top")
         [] r = "#" -> Push(1, "CommentStart", "Top")
         [] r = "[" -> Go(1, "TableStart")
         [] r = "NUL" -> Error
         [] r = "eof" -> Emit("EOF", 0, "nil")
         [] OTHER -> Push(0, "KeyStart", "TopEnd")

TopEnd ==
    /\ In("TopEnd")
    /\ CASE r = "#" -> Push(1, "CommentStart", "Top")
         [] r \in WS -> Go(1, "TopEnd")
         [] r \in NL \cup EOF -> Go(1, "Top")
         [] OTHER -> Error

TableStart ==
    /\ In("TableStart")
    /\ Consume(IF r = "[" THEN 1 ELSE 0) /\ state' = "TableNameStart"
    /\ IF r = "["
       THEN stack' = <<"ArrayTableEnd">> \o stack /\ parser' = Parse(parser, "ArrayTableStart")
       ELSE stack' = <<"TableEnd">> \o stack /\ parser' = Parse(parser, "TableStart")

TableEnd == In("TableEnd") /\ Emit("TableEnd", 0, "TopEnd")

ArrayTableEnd == In("ArrayTableEnd") /\ IF r = "]" THEN Emit("ArrayTableEnd", 1, "TopEnd") ELSE Error

TableNameStart ==
    /\ In("TableNameStart")
    /\ IF r \in {"]", "."} \cup EOF THEN Error ELSE Go(1, "TableName")

TableName ==
    /\ In("TableName")
    /\ CASE r \in {"["} \cup EOF -> Error
         [] r = "]" -> EmitPop("Text", 1)
         [] r = "." -> Emit("Text", 1, "TableNameStart")
         [] OTHER -> Go(1, "TableName")

KeyStart ==
    /\ In("KeyStart")
    /\ CASE r = "=" -> Error
         [] r \in WS \cup NL -> Go(1, "KeyStart")
         [] OTHER -> Emit("KeyStart", 1, "Key")

\* What ends a key.
KeyEnds == NL \cup {"="}

Key ==
    /\ In("Key")
    /\ CASE r = "#" -> Error
         [] r \in KeyEnds -> Emit("Text", 0, "KeyEnd")
         [] OTHER -> Go(1, "Key")

KeyEnd == In("KeyEnd") /\ IF r = "=" THEN Go(1, "Value") ELSE Error

CommentStart == In("CommentStart") /\ Emit("CommentStart", 0, "Comment")

Comment == In("Comment") /\ IF r \in NL \cup EOF THEN EmitPop("Text", 0) ELSE Go(1, "Comment")

----------------------------------------------------------------------------
(* Values and arrays. *)

\* A quote, and two more for a string of several lines.
OpenString(quote, one, many) ==
    CASE TwoThen(quote, quote) ->
           /\ Skip(3) /\ behind' = <<"open", "open">>
           /\ state' = many /\ UNCHANGED <<stack, parser>>
      [] \E c \in Wide : TwoThen(quote, c) -> Regress(Width[ahead[3]] - 2, one)
      [] OTHER -> Go(1, one)

Value ==
    /\ In("Value")
    /\ CASE r \in WS -> Go(1, "Value")
         [] r = "[" -> Emit("Array", 1, "ArrayValue")
         [] r = "Q" -> OpenString("Q", "String", "MultilineString")
         [] r = "'" -> OpenString("'", "RawString", "MultilineRawString")
         [] r = "t" -> Go(1, "Const")
         [] r = "-" -> Go(1, "NumberStart")
         [] r = "0" -> /\ ahead' = Tail(ahead) /\ digits' = 1 /\ state' = "NumberOrDate"
                       /\ behind' = Past(1) /\ UNCHANGED <<closed, stack, parser>>
         [] OTHER -> Error

\* What follows a comment among the values of an array.
AfterComment == state

ArrayValue ==
    /\ In("ArrayValue")
    /\ CASE r \in WS \cup NL -> Go(1, "ArrayValue")
         [] r = "#" -> Push(1, "CommentStart", AfterComment)
         [] r = "," -> Error
         [] r = "]" -> EmitPop("ArrayEnd", 1)
         [] OTHER -> Push(0, "Value", "ArrayValueEnd")

ArrayValueEnd ==
    /\ In("ArrayValueEnd")
    /\ CASE r \in WS \cup NL -> Go(1, "ArrayValueEnd")
         [] r = "#" -> Push(1, "CommentStart", AfterComment)
         [] r = "," -> Go(1, "ArrayValue")
         [] r = "]" -> EmitPop("ArrayEnd", 1)
         [] OTHER -> Error

----------------------------------------------------------------------------
(* Strings. The letters of an escape are among k, t, u and 0. *)
String ==
    /\ In("String")
    /\ CASE r \in NL -> Error
         [] r = "\\" -> Go(1, "StringEscape")
         [] r = "Q" -> EmitPop("String", 1)
         [] OTHER -> Go(1, "String")

RawString ==
    /\ In("RawString")
    /\ CASE r \in NL -> Error
         [] r = "'" -> EmitPop("RawString", 1)
         [] OTHER -> Go(1, "RawString")

\* A letter is one of an escape, or not.
Escape(to, unicode) ==
    \/ r \in {"Q", "\\", "t", "k"} /\ Go(1, to)
    \/ r = "u" /\ Go(1, unicode)
    \/ r \notin {"Q", "\\", "t", "u"} /\ Error

StringEscape == In("StringEscape") /\ Escape("String", "StringUnicode")

\* The newline after a backslash takes the next character with it.
MultilineStringEscape ==
    /\ In("MultilineStringEscape")
    /\ IF r \in NL THEN Go(2, "MultilineString") ELSE Escape("MultilineString", "MultilineStringUnicode")

Unicode(name, to) == In(name) /\ IF r = "0" THEN Go(1, to) ELSE Error
StringUnicode == Unicode("StringUnicode", "String")
MultilineStringUnicode == Unicode("MultilineStringUnicode", "MultilineString")

\* The end of a string of several lines: three quotes. When lx.pos has gone
\* back to the opening ones, current() cuts a text that ends before it begins.
Multiline(name, typ, quote) ==
    /\ In(name)
    /\ CASE TwoThen(quote, quote) /\ r = "open" -> Consume(3) /\ Stop("panic")
         [] TwoThen(quote, quote) /\ r # "open" -> EmitPop(typ, 3)
         [] \E c \in Wide : TwoThen(quote, c) -> Regress(Width[ahead[3]] - 2, name)
         [] quote = "Q" /\ r = "\\" -> Go(1, "MultilineStringEscape")
         [] OTHER -> Go(1, name)

MultilineString == Multiline("MultilineString", "MultilineString", "Q")
MultilineRawString == Multiline("MultilineRawString", "RawMultilineString", "'")

----------------------------------------------------------------------------
(* Numbers, dates and booleans. *)
NumberOrDate ==
    /\ In("NumberOrDate")
    /\ CASE r = "-" -> IF digits = YearLen THEN Go(1, "DateAfterYear") ELSE Error
         [] r = "0" -> /\ ahead' = Tail(ahead) /\ digits' = Least(digits + 1, YearLen + 1)
                       /\ behind' = Past(1) /\ UNCHANGED <<closed, state, stack, parser>>
         [] r = "." -> Go(1, "FloatStart")
         [] OTHER -> EmitPop("Integer", 0)

DateAfterYear ==
    /\ In("DateAfterYear")
    /\ IF SubSeq(ahead, 1, Least(Len(ahead), Len(DateRest))) = DateRest
       THEN EmitPop("Datetime", Len(DateRest)) ELSE Error

NumberStart == In("NumberStart") /\ IF r = "0" THEN Go(1, "Number") ELSE Error

Number ==
    /\ In("Number")
    /\ CASE r = "0" -> Go(1, "Number")
         [] r = "." -> Go(1, "FloatStart")
         [] OTHER -> EmitPop("Integer", 0)

FloatStart == In("FloatStart") /\ IF r = "0" THEN Go(1, "Float") ELSE Error
Float == In("Float") /\ IF r = "0" THEN Go(1, "Float") ELSE EmitPop("Float", 0)

\* lexTrue and lexFalse.
Const == In("Const") /\ IF r = ConstRest[1] THEN EmitPop("Bool", 1) ELSE Error

Lex ==
    \/ Top \/ TopEnd \/ TableStart \/ TableEnd \/ ArrayTableEnd \/ TableNameStart \/ TableName
    \/ KeyStart \/ Key \/ KeyEnd \/ CommentStart \/ Comment
    \/ Value \/ ArrayValue \/ ArrayValueEnd
    \/ String \/ RawString \/ StringEscape \/ MultilineStringEscape \/ StringUnicode
    \/ MultilineStringUnicode
    \/ MultilineString \/ MultilineRawString
    \/ NumberOrDate \/ DateAfterYear \/ NumberStart \/ Number \/ FloatStart \/ Float \/ Const

Next == Type \/ Lex

\* The parser asks for the next item until the end.
Spec == Init /\ [][Next]_vars /\ WF_vars(Lex)

----------------------------------------------------------------------------
\* Whatever the document, the parser never gets an item that may not come where
\* it comes (which it takes for a bug of the lexer, and ends the process), no
\* state is popped from an empty stack, and a document ends with every array
\* and table closed. This says nothing of the texts of the items: those the
\* lexer should have refused ("unreadable") end the process, and so does
\* current() where lx.pos has gone back too far ("panic").
ItemsFit ==
    /\ parser.wait # "bug" /\ state # "no states to pop"
    /\ parser.wait = "done" => stack = <<>> /\ parser.depth = 0

\* An array in which a string and a comma come before two quotes and a rune of
\* four bytes: lx.pos goes back to the end of the first string, for ever.
Repeats ==
    /\ state = "Value"
    /\ \E quote \in {"Q", "'"} : behind = <<quote, ",">> /\ TwoThen(quote, "W4")

\* The lexer always comes to need a character more, as long as there are more,
\* or to the end or an error; but for a document that leaves a string of several
\* lines open, or has two quotes before a rune of several bytes in one, or in an
\* array as above.
Over == state \in {"nil", "MultilineString", "MultilineRawString"} \/ Repeats
=============================================================================
