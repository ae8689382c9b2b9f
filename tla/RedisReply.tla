----------------------------- MODULE RedisReply -----------------------------
(* How the redis client reads a reply (parser.go, command.go). A reply is a *)
(* sequence of tokens: "+" a status, ":" an integer, "$" a bulk string, "#" *)
(* a bulk string that is a number, "nil", "-" an error, and "*" with the    *)
(* number of elements that follow. A token knows the command it answers. Of *)
(* a line of which the front was read before, "tail" is left, or "lf"; the  *)
(* front is a "tail" too when no token begins so, and "*?" when only the    *)
(* number is missing.                                                       *)
EXTENDS Naturals, Sequences, FiniteSets

Token(id, t, n) == [id |-> id, t |-> t, n |-> n]
Simple(id, t) == <<Token(id, t, 0)>>
Array(id, elems) ==
    <<Token(id, "*", Len(elems))>> \o [i \in DOMAIN elems |-> Token(id, elems[i], 0)]

Str == {"+", "$", "#"}    \* tokens read as a Go string

\* What a parser returns: the tokens it has used, an error, the type it got.
\* Of the errors "nil" and "redis" are redisErrors; "more" is one of the
\* reader, "bad" one of the parser; "panic" is none.
Result(used, err, got) == [used |-> used, err |-> err, got |-> got]
RedisErrors == {"nil", "redis"}

----------------------------------------------------------------------------
\* The tokens that element i of a multi-bulk reply may be for its parser.
Fits(p, i) ==
    CASE p = "slice" -> Str \cup {":", "slice"}
      [] p = "strings" -> Str
      [] p = "bools" -> {":"}
      [] p = "map" -> Str
      [] p = "intmap" -> IF i % 2 = 1 THEN Str ELSE {":", "#"}
      [] p = "zslice" -> IF i % 2 = 1 THEN Str ELSE {"#"}
      [] OTHER -> {}

(* Faulty variant, used by no specification. *)

\* A missing element ends a slice like any other parser's.
NilEndsSlice(s, p, k) ==
    CASE s[k].t = "-" -> "redis"
      [] s[k].t \in {"tail", "*?"} -> "bad"
      [] s[k].t = "lf" -> "panic"
      [] s[k].t = "nil" -> "nil"
      [] s[k].t = "*" -> IF p = "slice" \/ (k = 1 /\ p # "none") THEN "" ELSE "panic"
      [] OTHER -> IF k > 1 /\ s[k].t \notin Fits(p, k - 1) THEN "bad" ELSE ""

\* The member after token k of an array has no place in the slice.
Unplaced(s, p, k) ==
    IF p = "zslice" /\ s[1].t = "*" /\ s[1].n % 2 = 1 /\ k = s[1].n THEN "panic" ELSE ""

\* What token k of a reply is to the parser p. Only parseSlice lets an element
\* be an array, and only it keeps an element that is nil. A command without a
\* multi-bulk parser ("none") calls a nil function when it meets an array, and
\* line[0] of an empty line panics. parseZSlice has no place for the last
\* member of an odd number and panics before it reads it.
TokenErr(s, p, k) ==
    LET t == s[k].t
        element == k > 1
    IN CASE t = "-" -> "redis"
         [] t \in {"tail", "*?"} -> "bad"
         [] t = "lf" -> "panic"
         [] t = "nil" -> IF element /\ p = "slice" THEN "" ELSE "nil"
         [] t = "*" -> IF p # "slice" /\ (element \/ p = "none") THEN "panic" ELSE Unplaced(s, p, k)
         [] OTHER -> IF element /\ t \notin Fits(p, k - 1) THEN "bad" ELSE Unplaced(s, p, k)

\* The replies that the parser of an array of n reads: the maps and the
\* sorted sets go by pairs, so with an odd n they read one more.
Pairs == {"map", "intmap", "zslice"}
Elements(n, p) == IF p \in Pairs THEN n + (n % 2) ELSE n

\* The replies that are still expected when k tokens are read: one at first,
\* and the elements of every array that was opened.
Expected(s, p) ==
    LET open[k \in 0..Len(s)] == IF k = 0 THEN 1 ELSE open[k - 1] - 1 + Elements(s[k].n, p)
    IN open

\* parseReply with the multi-bulk parser p: it reads token by token until none
\* is expected or the first error, wherever the reply ends. RedisParser has
\* the calls that this is the reading of.
ParseReply(s, p) ==
    LET ends == {k \in 1..Len(s) : TokenErr(s, p, k) # "" \/ Expected(s, p)[k] = 0}
        last == CHOOSE k \in ends : \A j \in ends : k <= j
        err == TokenErr(s, p, last)
    IN IF ends = {} THEN Result(Len(s), "more", "")
       ELSE Result(last, err, IF err # "" THEN "" ELSE IF s[1].t = "*" THEN p ELSE s[1].t)

----------------------------------------------------------------------------
\* Cmd, SliceCmd and ScanCmd parse with parseSlice, the commands that return
\* one value without a multi-bulk parser.
ParserOf(kind) ==
    CASE kind \in {"Cmd", "Slice", "Scan"} -> "slice"
      [] kind = "StringSlice" -> "strings"
      [] kind = "BoolSlice" -> "bools"
      [] kind = "StringStringMap" -> "map"
      [] kind = "StringIntMap" -> "intmap"
      [] kind = "ZSlice" -> "zslice"
      [] OTHER -> "none"

\* The types that the assertion on the parsed value lets pass.
Want(kind) ==
    CASE kind \in {"Status", "String", "Float"} -> Str
      [] kind \in {"Int", "Duration", "Bool"} -> {":"}
      [] kind = "Cmd" -> Str \cup {":", "slice"}
      [] OTHER -> {ParserOf(kind)}

(* Faulty variant, used by no specification. *)

\* The assertion comes before the look at the error.
AssertFirst(kind, s) ==
    LET r == ParseReply(s, ParserOf(kind))
    IN IF r.err # "more" /\ r.got \notin Want(kind) THEN [r EXCEPT !.err = "panic"] ELSE r

\* parseReply of a command: an assertion that fails panics.
Parse(kind, s) ==
    LET r == ParseReply(s, ParserOf(kind))
    IN CASE r.err = "" /\ r.got \notin Want(kind) -> [r EXCEPT !.err = "panic"]
         [] kind = "Float" /\ r.err = "" /\ r.got \in Str \ {"#"} -> [r EXCEPT !.err = "bad"]
         [] OTHER -> r

----------------------------------------------------------------------------
\* The replies of a redis server, by the type its command reference gives;
\* any command may be answered with an error.
Replies(type, id) ==
    {Simple(id, "-")} \cup
    CASE type = "status" -> {Simple(id, "+")}
      [] type = "integer" -> {Simple(id, ":")}
      [] type = "bulk" -> {Simple(id, "$"), Simple(id, "nil")}
      [] type = "rank" -> {Simple(id, ":"), Simple(id, "nil")}
      [] type = "number" -> {Simple(id, "#"), Simple(id, "nil")}
      [] type = "strings" -> {Array(id, <<>>), Array(id, <<"$", "$">>), Simple(id, "nil")}
      [] type = "optional strings" -> {Array(id, <<"$", "nil">>), Array(id, <<"nil", "$">>)}
      [] type = "integers" -> {Array(id, <<":", ":">>)}
      [] type = "counts" -> {Array(id, <<>>), Array(id, <<"$", ":">>)}
      [] type = "scored" -> {Array(id, <<>>), Array(id, <<"$", "#">>)}
      [] type = "cursor" -> {<<Token(id, "*", 2), Token(id, "#", 0)>> \o Array(id, <<"$", "$">>)}
      [] type = "any" -> {Simple(id, ":"), Simple(id, "$"), Simple(id, "nil"),
                          Array(id, <<"$", "nil">>), Array(id, <<"-", "$">>)}
      [] type = "sorted" -> {Array(id, <<"$", "$">>), Array(id, <<"$", "nil">>), Simple(id, ":")}
=============================================================================
