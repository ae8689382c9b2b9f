---------------------------- MODULE RedisParser ----------------------------
(* The parser of the redis client as parser.go has it: parseReply and the    *)
(* multi-bulk parsers call one another. RedisReply has what they read of a   *)
(* reply, token by token, which proofs can be about.                         *)
EXTENDS RedisReply

\* What the error of an element is to the reply: only parseSlice keeps nil.
ElementErr(p, i, r) ==
    CASE r.err = "nil" /\ p = "slice" -> ""
      [] r.err = "" /\ r.got \notin Fits(p, i) -> "bad"
      [] OTHER -> r.err

RECURSIVE CallReply(_, _), CallElements(_, _, _, _)

\* parseReply: an array is left to the parser p.
CallReply(s, p) ==
    IF s = <<>> THEN Result(0, "more", "")
    ELSE CASE s[1].t = "-" -> Result(1, "redis", "")
           [] s[1].t = "nil" -> Result(1, "nil", "")
           [] s[1].t \in {"tail", "*?"} -> Result(1, "bad", "")
           [] s[1].t = "lf" -> Result(1, "panic", "")
           [] s[1].t = "*" /\ p = "none" -> Result(1, "panic", "")
           [] s[1].t = "*" /\ p # "none" ->
                LET r == CallElements(Tail(s), s[1].n, p, 1) IN [r EXCEPT !.used = @ + 1]
           [] OTHER -> Result(1, "", s[1].t)

\* The loop of the multi-bulk parsers: the replies from the i-th on, until the
\* first error. Three of the loops take two replies at a time, and that of
\* parseZSlice begins with the place of a member among n/2.
CallElements(s, n, p, i) ==
    IF i > n /\ (p \notin {"map", "intmap", "zslice"} \/ i % 2 = 1) THEN Result(0, "", p)
    ELSE IF p = "zslice" /\ i % 2 = 1 /\ i \div 2 >= n \div 2 THEN Result(0, "panic", "")
    ELSE LET r == CallReply(s, IF p = "slice" THEN p ELSE "none")
             err == ElementErr(p, i, r)
         IN IF err # "" THEN Result(r.used, err, "")
            ELSE LET rest == CallElements(SubSeq(s, r.used + 1, Len(s)), n, p, i + 1)
                 IN [rest EXCEPT !.used = @ + r.used]

\* The parsers read, return and refuse what ParseReply says.
ParsedAlike(p, s) == ParseReply(s, p) = CallReply(s, p)
=============================================================================
