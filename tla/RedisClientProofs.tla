-------------------------- MODULE RedisClientProofs -------------------------
(***************************************************************************)
(* What RedisClient promises, for any number of goroutines, connections    *)
(* and commands: whatever the server answers, cut and delayed as the       *)
(* network may, a command reads its own reply.  The proof goes from the    *)
(* scan of one reply (RedisReply) over the replies that the server may     *)
(* give to each method (RedisCommands) to the connections that goroutines  *)
(* take from the pool and give back to it.                                 *)
(***************************************************************************)
EXTENDS RedisClient, SequenceTheorems, WellFoundedInduction, TLAPS

Tags   == Str \cup {":", "nil", "-", "*", "*?", "tail", "lf"}
Tokens == [id : Nat \X Nat, t : Tags, n : Nat]

-----------------------------------------------------------------------------
(* What ParseReply reads: the least end, and the count of expected replies. *)

LEMMA LeastExists ==
  ASSUME NEW S, S \subseteq Nat, S # {}
  PROVE  \E k \in S : \A j \in S : k <= j
<1>1. PICK k \in S : \A j \in S : ~ (<<j, k>> \in OpToRel(<, Nat))
  BY NatLessThanWellFounded, WFMin
<1>2. ASSUME NEW j \in S PROVE k <= j
  <2>1. j \in Nat /\ k \in Nat
    BY <1>2
  <2>2. ~ (j < k)
    BY <1>1, <1>2, <2>1 DEF OpToRel
  <2> QED BY <2>1, <2>2
<1> QED BY <1>2

LEMMA LeastIs ==
  ASSUME NEW S, S \subseteq Nat, NEW k \in S, \A j \in S : k <= j
  PROVE  (CHOOSE i \in S : \A j \in S : i <= j) = k
<1>1. ASSUME NEW i \in S, \A j \in S : i <= j PROVE i = k
  <2>1. i <= k /\ k <= i /\ i \in Nat /\ k \in Nat
    BY <1>1
  <2> QED BY <2>1
<1> QED BY <1>1

LEMMA ElementsIs ==
  ASSUME NEW n \in Nat, NEW p
  PROVE  Elements(n, p) \in Nat /\ (p \notin Pairs \/ n \in {0, 2} => Elements(n, p) = n)
<1>1. n % 2 \in Nat /\ (n \in {0, 2} => n % 2 = 0)
  OBVIOUS
<1> QED BY <1>1 DEF Elements

\* The equation of Expected.
Counts(s, p, f, n) ==
  f = [k \in 0..n |-> IF k = 0 THEN 1 ELSE f[k - 1] - 1 + Elements(s[k].n, p)]

LEMMA CountsExists ==
  ASSUME NEW s \in Seq(Tokens), NEW p
  PROVE  \E f : Counts(s, p, f, Len(s))
<1> DEFINE Bad == {n \in 0..Len(s) : ~ \E f : Counts(s, p, f, n)}
<1>1. Len(s) \in Nat
  OBVIOUS
<1>2. SUFFICES ASSUME Bad # {} PROVE FALSE
  BY <1>1
<1>3. PICK n \in Bad : \A j \in Bad : n <= j
  <2>1. Bad \subseteq Nat
    BY <1>1
  <2> HIDE DEF Bad
  <2> QED BY <1>2, <2>1, LeastExists
<1>4. n \in 0..Len(s) /\ n \in Nat
  BY <1>1
<1>5. CASE n = 0
  <2>1. Counts(s, p, [k \in 0..0 |-> 1], n)
    BY <1>5 DEF Counts
  <2> QED BY <1>3, <2>1
<1>6. CASE n # 0
  <2>1. n - 1 \in 0..Len(s) /\ ~(n <= n - 1)
    BY <1>1, <1>4, <1>6
  <2>2. PICK f : Counts(s, p, f, n - 1)
    BY <1>3, <2>1
  <2> DEFINE g == [k \in 0..n |-> IF k = n THEN f[n - 1] - 1 + Elements(s[n].n, p) ELSE f[k]]
  <2>3. ASSUME NEW k \in 0..n
        PROVE  g[k] = IF k = 0 THEN 1 ELSE g[k - 1] - 1 + Elements(s[k].n, p)
    <3>1. CASE k = n
      <4>1. k # 0 /\ k - 1 # n /\ k - 1 \in 0..n
        BY <1>4, <1>6, <3>1
      <4>2. g[k] = f[n - 1] - 1 + Elements(s[n].n, p) /\ g[k - 1] = f[n - 1]
        BY <3>1, <4>1
      <4> QED BY <3>1, <4>1, <4>2
    <3>2. CASE k # n
      <4>1. k \in 0..n - 1
        BY <1>4, <2>3, <3>2
      <4>2. f[k] = IF k = 0 THEN 1 ELSE f[k - 1] - 1 + Elements(s[k].n, p)
        BY <2>2, <4>1 DEF Counts
      <4>3. g[k] = f[k]
        BY <3>2
      <4>4. k # 0 => k - 1 \in 0..n /\ k - 1 # n /\ g[k - 1] = f[k - 1]
        BY <1>4, <4>1
      <4> QED BY <4>2, <4>3, <4>4
    <3> QED BY <3>1, <3>2
  <2>4. Counts(s, p, g, n)
    BY <2>3 DEF Counts
  <2> QED BY <1>3, <2>4
<1> QED BY <1>5, <1>6

LEMMA ExpectedIs ==
  ASSUME NEW s \in Seq(Tokens), NEW p
  PROVE  /\ Expected(s, p)[0] = 1
         /\ \A k \in 1..Len(s) : Expected(s, p)[k] = Expected(s, p)[k - 1] - 1 + Elements(s[k].n, p)
<1>1. Counts(s, p, Expected(s, p), Len(s))
  <2>1. Expected(s, p) = CHOOSE f : Counts(s, p, f, Len(s))
    BY DEF Expected, Counts
  <2> QED BY <2>1, CountsExists
<1>2. Len(s) \in Nat
  OBVIOUS
<1> HIDE DEF Expected
<1>3. 0 \in 0..Len(s) /\ \A k \in 1..Len(s) : k \in 0..Len(s) /\ k # 0
  BY <1>2
<1> QED BY <1>1, <1>3 DEF Counts

LEMMA ExpectedType ==
  ASSUME NEW s \in Seq(Tokens), NEW p
  PROVE  \A k \in 0..Len(s) : Expected(s, p)[k] \in Int
<1> DEFINE Bad == {n \in 0..Len(s) : Expected(s, p)[n] \notin Int}
<1>1. Len(s) \in Nat
  OBVIOUS
<1>2. SUFFICES ASSUME Bad # {} PROVE FALSE
  OBVIOUS
<1>3. PICK n \in Bad : \A j \in Bad : n <= j
  <2>1. Bad \subseteq Nat
    BY <1>1
  <2> HIDE DEF Bad
  <2> QED BY <1>2, <2>1, LeastExists
<1>4. n \in 0..Len(s) /\ n \in Nat
  BY <1>1
<1>5. CASE n = 0
  BY <1>3, <1>5, ExpectedIs
<1>6. CASE n # 0
  <2>1. n - 1 \in 0..Len(s) /\ ~(n <= n - 1) /\ n \in 1..Len(s)
    BY <1>1, <1>4, <1>6
  <2>2. Expected(s, p)[n - 1] \in Int
    BY <1>3, <2>1
  <2>3. Elements(s[n].n, p) \in Nat
    <3>1. s[n] \in Tokens
      BY <2>1
    <3>2. s[n].n \in Nat
      BY <3>1 DEF Tokens
    <3> QED BY <3>2, ElementsIs
  <2>4. Expected(s, p)[n] = Expected(s, p)[n - 1] - 1 + Elements(s[n].n, p)
    BY <2>1, ExpectedIs
  <2> QED BY <1>3, <2>2, <2>3, <2>4
<1> QED BY <1>5, <1>6

\* It counts on what has been read alone.
LEMMA ExpectedAgrees ==
  ASSUME NEW s \in Seq(Tokens), NEW u \in Seq(Tokens), NEW p, NEW m \in Nat, m <= Len(s), m <= Len(u),
         \A i \in 1..m : s[i] = u[i]
  PROVE  \A k \in 0..m : Expected(s, p)[k] = Expected(u, p)[k]
<1> DEFINE Bad == {n \in 0..m : Expected(s, p)[n] # Expected(u, p)[n]}
<1>1. Len(s) \in Nat /\ Len(u) \in Nat
  OBVIOUS
<1>2. SUFFICES ASSUME Bad # {} PROVE FALSE
  OBVIOUS
<1>3. PICK n \in Bad : \A j \in Bad : n <= j
  <2>1. Bad \subseteq Nat
    BY <1>1
  <2> HIDE DEF Bad
  <2> QED BY <1>2, <2>1, LeastExists
<1>4. n \in 0..m /\ n \in Nat
  BY <1>1
<1>5. CASE n = 0
  BY <1>3, <1>5, ExpectedIs
<1>6. CASE n # 0
  <2>1. n - 1 \in 0..m /\ ~(n <= n - 1) /\ n \in 1..Len(s) /\ n \in 1..Len(u) /\ n \in 1..m
    BY <1>1, <1>4, <1>6
  <2>2. Expected(s, p)[n - 1] = Expected(u, p)[n - 1] /\ s[n] = u[n]
    BY <1>3, <2>1
  <2>3. /\ Expected(s, p)[n] = Expected(s, p)[n - 1] - 1 + Elements(s[n].n, p)
        /\ Expected(u, p)[n] = Expected(u, p)[n - 1] - 1 + Elements(u[n].n, p)
    BY <2>1, ExpectedIs
  <2> QED BY <1>3, <2>2, <2>3
<1> QED BY <1>5, <1>6

-----------------------------------------------------------------------------
(* A parser and a reply: it never reads past the reply's end. *)

Ends(s, p, k) == TokenErr(s, p, k) # "" \/ Expected(s, p)[k] = 0
Got(s, p, k)  == IF TokenErr(s, p, k) # "" THEN "" ELSE IF s[1].t = "*" THEN p ELSE s[1].t

LEMMA ParseEnds ==
  ASSUME NEW s \in Seq(Tokens), NEW p, NEW k \in 1..Len(s), Ends(s, p, k),
         \A j \in 1..k - 1 : ~ Ends(s, p, j)
  PROVE  ParseReply(s, p) = Result(k, TokenErr(s, p, k), Got(s, p, k))
<1> DEFINE S == {i \in 1..Len(s) : TokenErr(s, p, i) # "" \/ Expected(s, p)[i] = 0}
<1>1. Len(s) \in Nat /\ k \in Nat
  OBVIOUS
<1>2. S \subseteq 1..Len(s) /\ 1..Len(s) \subseteq Nat
  <2>1. ASSUME NEW j \in S PROVE j \in 1..Len(s)
    BY Zenon
  <2> HIDE DEF S
  <2> QED BY <1>1, <2>1
<1>3. k \in S
  BY Zenon DEF Ends
<1>4. ASSUME NEW j \in S PROVE k <= j
  <2>1. Ends(s, p, j)
    BY Zenon DEF Ends
  <2> HIDE DEF S
  <2>2. j \in 1..Len(s) /\ j \notin 1..k - 1
    BY <1>2, <2>1
  <2> QED BY <1>1, <2>2
<1>5. (CHOOSE i \in S : \A j \in S : i <= j) = k
  <2> HIDE DEF S
  <2> QED BY <1>2, <1>3, <1>4, LeastIs
<1>6. S # {}
  BY <1>3
<1> QED BY <1>5, <1>6, Zenon DEF ParseReply, Got

LEMMA ParseCut ==
  ASSUME NEW s \in Seq(Tokens), NEW p, \A j \in 1..Len(s) : ~ Ends(s, p, j)
  PROVE  ParseReply(s, p) = Result(Len(s), "more", "")
<1>1. {i \in 1..Len(s) : TokenErr(s, p, i) # "" \/ Expected(s, p)[i] = 0} = {}
  BY DEF Ends
<1> QED BY <1>1, Zenon DEF ParseReply

\* The array, if it is one, and its elements: nothing is expected after it.
Whole(r, p) ==
  /\ r \in Seq(Tokens) /\ r # <<>>
  /\ \A k \in 1..Len(r) : Expected(r, p)[k] = 0 <=> k = Len(r)

\* What has arrived of a stream that starts with the reply r.
Begins(s, r) == \A i \in 1..Len(s) : i <= Len(r) => s[i] = r[i]

\* What a parser makes of it.
Parsed(r, p, res) ==
  \E k \in 1..Len(r) :
    /\ \A j \in 1..k - 1 : TokenErr(r, p, j) = ""
    /\ TokenErr(r, p, k) = "" => k = Len(r)
    /\ res = Result(k, TokenErr(r, p, k), Got(r, p, k))

LEMMA NeverBeyond ==
  ASSUME NEW p, NEW r, Whole(r, p), NEW s \in Seq(Tokens), Begins(s, r)
  PROVE  \/ Parsed(r, p, ParseReply(s, p)) /\ ParseReply(s, p).used <= Len(s)
         \/ /\ Len(s) < Len(r) /\ ParseReply(s, p) = Result(Len(s), "more", "")
            /\ \A j \in 1..Len(s) : TokenErr(r, p, j) = ""
<1>1. r \in Seq(Tokens) /\ Len(r) \in Nat \ {0} /\ Len(s) \in Nat
  BY DEF Whole
<1>2. ASSUME NEW k \in 1..Len(s), k <= Len(r)
      PROVE  /\ TokenErr(s, p, k) = TokenErr(r, p, k)
             /\ Expected(s, p)[k] = 0 <=> k = Len(r)
             /\ Got(s, p, k) = Got(r, p, k)
  <2>1. s[k] = r[k] /\ s[1] = r[1] /\ k \in 1..Len(r)
    BY <1>1, <1>2 DEF Begins
  <2>2. TokenErr(s, p, k) = TokenErr(r, p, k)
    BY <2>1, Zenon DEF TokenErr, Unplaced
  <2>3. Expected(s, p)[k] = Expected(r, p)[k]
    <3>1. k \in Nat /\ k <= Len(s) /\ k \in 0..k
      BY <1>1
    <3>2. \A i \in 1..k : s[i] = r[i]
      BY <1>1, <1>2 DEF Begins
    <3> QED BY <1>1, <1>2, <3>1, <3>2, ExpectedAgrees
  <2> QED BY <2>1, <2>2, <2>3, Zenon DEF Got, Whole
<1>3. CASE \E k \in 1..Len(s) : Ends(s, p, k)
  <2> DEFINE S == {k \in 1..Len(s) : Ends(s, p, k)}
  <2>1. S \subseteq Nat /\ S # {}
    BY <1>1, <1>3
  <2>2. PICK k \in S : \A j \in S : k <= j
    <3> HIDE DEF S
    <3> QED BY <2>1, LeastExists
  <2>3. k \in 1..Len(s) /\ k \in Nat /\ Ends(s, p, k)
    BY <1>1
  <2>4. ASSUME NEW j \in 1..k - 1 PROVE j \in 1..Len(s) /\ ~ Ends(s, p, j)
    <3>1. j \in 1..Len(s) /\ ~(k <= j)
      BY <1>1, <2>3
    <3> QED BY <2>2, <3>1
  <2>5. ParseReply(s, p) = Result(k, TokenErr(s, p, k), Got(s, p, k))
    BY <2>3, <2>4, ParseEnds
  <2>6. k <= Len(r)
    <3>1. SUFFICES ASSUME ~(k <= Len(r)) PROVE FALSE
      OBVIOUS
    <3>2. Len(r) \in 1..k - 1 /\ Len(r) \in 1..Len(s)
      BY <1>1, <2>3, <3>1
    <3>3. Expected(s, p)[Len(r)] = 0
      BY <1>1, <1>2, <3>2
    <3> QED BY <2>4, <3>2, <3>3 DEF Ends
  <2>7. k \in 1..Len(r)
    BY <1>1, <2>3, <2>6
  <2>8. ASSUME NEW j \in 1..k - 1 PROVE TokenErr(r, p, j) = ""
    <3>1. j \in 1..Len(s) /\ j <= Len(r)
      BY <1>1, <2>3, <2>6
    <3>2. TokenErr(s, p, j) = ""
      BY <2>4, Zenon DEF Ends
    <3> QED BY <1>2, <3>1, <3>2
  <2>9. TokenErr(r, p, k) = "" => k = Len(r)
    BY <1>2, <2>3, <2>6 DEF Ends
  <2>10. ParseReply(s, p) = Result(k, TokenErr(r, p, k), Got(r, p, k))
    BY <1>2, <2>3, <2>5, <2>6
  <2>11. ParseReply(s, p).used <= Len(s)
    BY <1>1, <2>3, <2>5 DEF Result
  <2> QED BY <2>7, <2>8, <2>9, <2>10, <2>11 DEF Parsed
<1>4. CASE \A k \in 1..Len(s) : ~ Ends(s, p, k)
  <2>1. ParseReply(s, p) = Result(Len(s), "more", "")
    BY <1>4, ParseCut
  <2>2. Len(s) < Len(r)
    <3>1. SUFFICES ASSUME Len(r) <= Len(s) PROVE FALSE
      BY <1>1
    <3>2. Len(r) \in 1..Len(s)
      BY <1>1, <3>1
    <3>3. Expected(s, p)[Len(r)] = 0
      BY <1>1, <1>2, <3>2
    <3> QED BY <1>4, <3>2, <3>3, Zenon DEF Ends
  <2>3. ASSUME NEW j \in 1..Len(s) PROVE TokenErr(r, p, j) = ""
    <3>1. j <= Len(r)
      BY <1>1, <2>2
    <3>2. TokenErr(s, p, j) = ""
      BY <1>4, Zenon DEF Ends
    <3> QED BY <1>2, <3>1, <3>2
  <2> QED BY <2>1, <2>2, <2>3
<1> QED BY <1>3, <1>4

-----------------------------------------------------------------------------
(* The replies of the server. *)

Ids == Nat \X Nat

LEMMA TokenIs ==
  ASSUME NEW id, NEW t, NEW n
  PROVE  Token(id, t, n).id = id /\ Token(id, t, n).t = t /\ Token(id, t, n).n = n
BY DEF Token

LEMMA SimpleIs ==
  ASSUME NEW id \in Ids, NEW t \in Tags, NEW p
  PROVE  /\ Whole(Simple(id, t), p) /\ Len(Simple(id, t)) = 1
         /\ Simple(id, t)[1] = Token(id, t, 0)
<1> DEFINE r == Simple(id, t)
<1>1. Token(id, t, 0) \in Tokens /\ Token(id, t, 0).n = 0
  BY DEF Token, Tokens, Ids
<1>2. r \in Seq(Tokens) /\ r # <<>> /\ Len(r) = 1 /\ r[1] = Token(id, t, 0)
  BY <1>1 DEF Simple
<1>3. Expected(r, p)[1] = 0
  <2> HIDE DEF r
  <2>1. Expected(r, p)[0] = 1 /\ Expected(r, p)[1] = Expected(r, p)[1 - 1] - 1 + Elements(r[1].n, p)
    BY <1>2, ExpectedIs
  <2>2. Elements(r[1].n, p) = 0
    BY <1>1, <1>2, ElementsIs
  <2> QED BY <2>1, <2>2
<1> HIDE DEF r
<1>4. \A k \in 1..Len(r) : Expected(r, p)[k] = 0 <=> k = Len(r)
  BY <1>2, <1>3
<1>5. Whole(r, p)
  BY <1>2, <1>4 DEF Whole
<1> QED BY <1>2, <1>5 DEF r

LEMMA ArrayIs ==
  ASSUME NEW id \in Ids, NEW elems \in Seq(Tags), NEW p, p \notin Pairs \/ Len(elems) \in {0, 2}
  PROVE  LET r == Array(id, elems) IN
         /\ Whole(r, p) /\ Len(r) = Len(elems) + 1 /\ r[1] = Token(id, "*", Len(elems))
         /\ \A i \in 1..Len(elems) : r[i + 1] = Token(id, elems[i], 0)
<1> DEFINE r == Array(id, elems)
           l == Len(elems)
           es == [i \in 1..l |-> Token(id, elems[i], 0)]
<1>1. l \in Nat /\ DOMAIN elems = 1..l
  OBVIOUS
<1>2. Token(id, "*", l) \in Tokens
  BY <1>1 DEF Token, Tokens, Ids, Tags
<1>3. \A i \in 1..l : Token(id, elems[i], 0) \in Tokens
  BY DEF Token, Tokens, Ids
<1>4. es \in Seq(Tokens) /\ Len(es) = l /\ \A i \in 1..l : es[i] = Token(id, elems[i], 0)
  BY <1>1, <1>3
<1>5. r = <<Token(id, "*", l)>> \o es
  BY <1>1, Zenon DEF Array
<1> HIDE DEF es, l, r
<1>6. /\ r \in Seq(Tokens) /\ Len(r) = l + 1 /\ r[1] = Token(id, "*", l)
      /\ \A i \in 1..l : r[i + 1] = es[i]
  BY <1>1, <1>2, <1>4, <1>5
<1>7. \A i \in 1..l : r[i + 1] = Token(id, elems[i], 0)
  BY <1>4, <1>6
<1>8. Elements(r[1].n, p) = l /\ \A i \in 1..l : Elements(r[i + 1].n, p) = 0
  <2>1. r[1].n = l /\ \A i \in 1..l : r[i + 1].n = 0
    BY <1>6, <1>7, TokenIs
  <2>2. Elements(l, p) = l /\ Elements(0, p) = 0
    <3>1. p \notin Pairs \/ l \in {0, 2}
      BY DEF l
    <3> QED BY <1>1, <3>1, ElementsIs
  <2> QED BY <2>1, <2>2
<1>9. \A k \in 1..l + 1 : Expected(r, p)[k] = l + 1 - k
  <2> DEFINE Bad == {k \in 1..l + 1 : Expected(r, p)[k] # l + 1 - k}
  <2>1. SUFFICES ASSUME Bad # {} PROVE FALSE
    OBVIOUS
  <2>2. Bad \subseteq Nat
    BY <1>1
  <2>3. PICK n \in Bad : \A j \in Bad : n <= j
    <3> HIDE DEF Bad
    <3> QED BY <2>1, <2>2, LeastExists
  <2>4. n \in 1..l + 1 /\ n \in Nat /\ Expected(r, p)[n] # l + 1 - n
    BY <1>1
  <2>5. /\ Expected(r, p)[0] = 1
        /\ Expected(r, p)[n] = Expected(r, p)[n - 1] - 1 + Elements(r[n].n, p)
    BY <1>6, <2>4, ExpectedIs
  <2>6. CASE n = 1
    BY <1>1, <1>8, <2>4, <2>5, <2>6
  <2>7. CASE n # 1
    <3>1. n - 1 \in 1..l + 1 /\ n - 1 \in 1..l /\ ~(n <= n - 1) /\ (n - 1) + 1 = n
      BY <1>1, <2>4, <2>7
    <3>2. Expected(r, p)[n - 1] = l + 1 - (n - 1) /\ Elements(r[n].n, p) = 0
      BY <1>8, <2>3, <3>1
    <3> QED BY <1>1, <2>4, <2>5, <3>1, <3>2
  <2> QED BY <2>6, <2>7
<1>10. \A k \in 1..Len(r) : Expected(r, p)[k] = 0 <=> k = Len(r)
  BY <1>1, <1>6, <1>9
<1>11. r # <<>>
  BY <1>1, <1>6
<1>12. Whole(r, p)
  BY <1>6, <1>10, <1>11 DEF Whole
<1> QED BY <1>6, <1>7, <1>12 DEF r, l

\* The reply of SCAN: a cursor and an array.
Cursor(id) == <<Token(id, "*", 2), Token(id, "#", 0)>> \o Array(id, <<"$", "$">>)

LEMMA CursorIs ==
  ASSUME NEW id \in Ids, NEW p
  PROVE  LET r == Cursor(id) IN
         /\ Whole(r, p) /\ Len(r) = 5 /\ r[1] = Token(id, "*", 2) /\ r[2] = Token(id, "#", 0)
         /\ r[3] = Token(id, "*", 2) /\ r[4] = Token(id, "$", 0) /\ r[5] = Token(id, "$", 0)
<1> DEFINE r == Cursor(id)
           a == Array(id, <<"$", "$">>)
           h == <<Token(id, "*", 2), Token(id, "#", 0)>>
<1>1. /\ a \in Seq(Tokens) /\ Len(a) = 3 /\ a[1] = Token(id, "*", 2)
      /\ a[2] = Token(id, "$", 0) /\ a[3] = Token(id, "$", 0)
  <2> DEFINE e == <<"$", "$">>
  <2>1. e \in Seq(Tags) /\ Len(e) = 2 /\ e[1] = "$" /\ e[2] = "$"
    BY DEF Tags, Str
  <2> HIDE DEF e
  <2>2. /\ Whole(Array(id, e), p) /\ Len(Array(id, e)) = 2 + 1 /\ Array(id, e)[1] = Token(id, "*", 2)
        /\ \A i \in 1..2 : Array(id, e)[i + 1] = Token(id, e[i], 0)
    BY <2>1, ArrayIs
  <2>3. Array(id, e)[1 + 1] = Token(id, "$", 0) /\ Array(id, e)[2 + 1] = Token(id, "$", 0)
    BY <2>1, <2>2
  <2> QED BY <2>2, <2>3 DEF Whole, e
<1>2. Token(id, "*", 2) \in Tokens /\ Token(id, "#", 0) \in Tokens
  BY DEF Token, Tokens, Ids, Tags, Str
<1>3. h \in Seq(Tokens) /\ Len(h) = 2 /\ h[1] = Token(id, "*", 2) /\ h[2] = Token(id, "#", 0)
  BY <1>2
<1>4. r = h \o a
  BY DEF Cursor
<1> HIDE DEF a, h, r
<1>5. /\ r \in Seq(Tokens) /\ Len(r) = 5 /\ r[1] = Token(id, "*", 2) /\ r[2] = Token(id, "#", 0)
      /\ r[3] = Token(id, "*", 2) /\ r[4] = Token(id, "$", 0) /\ r[5] = Token(id, "$", 0)
  <2>1. h \in Seq(Tokens) /\ a \in Seq(Tokens) /\ Len(h) = 2 /\ Len(a) = 3
    BY <1>1, <1>3
  <2>2. /\ r \in Seq(Tokens) /\ Len(r) = 5 /\ r[1] = h[1] /\ r[2] = h[2]
        /\ r[3] = a[1] /\ r[4] = a[2] /\ r[5] = a[3]
    <3>1. /\ h \o a \in Seq(Tokens) /\ Len(h \o a) = Len(h) + Len(a)
          /\ \A i \in 1..Len(h) + Len(a) :
               (h \o a)[i] = IF i <= Len(h) THEN h[i] ELSE a[i - Len(h)]
      BY <2>1, ConcatProperties, Zenon
    <3>2. /\ r \in Seq(Tokens) /\ Len(r) = 2 + 3
          /\ \A i \in 1..2 + 3 : r[i] = IF i <= 2 THEN h[i] ELSE a[i - 2]
      BY <1>4, <2>1, <3>1, Zenon
    <3> QED BY <3>2
  <2> QED BY <1>1, <1>3, <2>2, Zenon
<1>6. /\ Elements(r[1].n, p) = 2 /\ Elements(r[2].n, p) = 0 /\ Elements(r[3].n, p) = 2
      /\ Elements(r[4].n, p) = 0 /\ Elements(r[5].n, p) = 0
  <2>1. r[1].n = 2 /\ r[2].n = 0 /\ r[3].n = 2 /\ r[4].n = 0 /\ r[5].n = 0
    BY <1>5 DEF Token
  <2>2. Elements(2, p) = 2 /\ Elements(0, p) = 0
    BY ElementsIs
  <2> QED BY <2>1, <2>2
<1>7. /\ Expected(r, p)[0] = 1
      /\ \A k \in 1..5 : Expected(r, p)[k] = Expected(r, p)[k - 1] - 1 + Elements(r[k].n, p)
  BY <1>5, ExpectedIs
<1>8. Expected(r, p)[1] = 2
  BY <1>6, <1>7
<1>9. Expected(r, p)[2] = 1
  BY <1>6, <1>7, <1>8
<1>10. Expected(r, p)[3] = 2
  BY <1>6, <1>7, <1>9
<1>11. Expected(r, p)[4] = 1
  BY <1>6, <1>7, <1>10
<1>12. Expected(r, p)[5] = 0
  BY <1>6, <1>7, <1>11
<1>13. \A k \in 1..5 : Expected(r, p)[k] = 0 <=> k = 5
  <2>1. \A k \in 1..5 : k = 1 \/ k = 2 \/ k = 3 \/ k = 4 \/ k = 5
    OBVIOUS
  <2> QED BY <1>8, <1>9, <1>10, <1>11, <1>12, <2>1
<1>14. r # <<>>
  <2>1. Len(r) = 5
    BY <1>5
  <2> QED BY <2>1
<1>15. Whole(r, p)
  BY <1>5, <1>13, <1>14 DEF Whole
<1> QED BY <1>5, <1>15 DEF r

\* A reply that belongs to one command, and in which its parser finds nothing
\* that makes it panic.
Proper(kind, id, r) ==
  /\ Whole(r, ParserOf(kind))
  /\ \A i \in 1..Len(r) : r[i].id = id /\ TokenErr(r, ParserOf(kind), i) # "panic"

\* The assertion on its value holds.
Served(kind, r) ==
  LET p == ParserOf(kind)
  IN TokenErr(r, p, 1) # "" \/ (IF r[1].t = "*" THEN p ELSE r[1].t) \in Want(kind)

\* The parser gets to the end of it.
Smooth(kind, r) ==
  (\A i \in 2..Len(r) : r[i].t # "-")
    => \A i \in 1..Len(r) - 1 : TokenErr(r, ParserOf(kind), i) = ""

LEMMA SimpleAnswer ==
  ASSUME NEW id \in Ids, NEW kind, NEW t \in {"-", "nil", "+", ":", "$", "#"}
  PROVE  /\ Proper(kind, id, Simple(id, t)) /\ Smooth(kind, Simple(id, t))
         /\ t \in {"-", "nil"} \cup Want(kind) => Served(kind, Simple(id, t))
<1> DEFINE r == Simple(id, t)
           p == ParserOf(kind)
<1>1. Whole(r, p) /\ Len(r) = 1 /\ r[1] = Token(id, t, 0)
  <2>1. t \in Tags
    BY DEF Tags, Str
  <2> QED BY <2>1, SimpleIs
<1> HIDE DEF r, p
<1>2. r[1].id = id /\ r[1].t = t
  BY <1>1, TokenIs
<1>3. TokenErr(r, p, 1) = IF t = "-" THEN "redis" ELSE IF t = "nil" THEN "nil" ELSE ""
  <2>1. ~(1 > 1)
    OBVIOUS
  <2>2. t \notin {"tail", "*?", "lf", "*"}
    OBVIOUS
  <2> QED BY <1>2, <2>1, <2>2, Zenon DEF TokenErr, Unplaced
<1>4. Proper(kind, id, r)
  <2>1. TokenErr(r, p, 1) # "panic"
    BY <1>3
  <2>2. \A i \in 1..Len(r) : i = 1
    BY <1>1
  <2> QED BY <1>1, <1>2, <2>1, <2>2 DEF Proper, p
<1>5. Smooth(kind, r)
  <2>1. \A i \in 1..Len(r) - 1 : FALSE
    BY <1>1
  <2> QED BY <2>1, Zenon DEF Smooth
<1>6. ASSUME t \in {"-", "nil"} \cup Want(kind) PROVE Served(kind, r)
  <2>1. CASE t \in {"-", "nil"}
    BY <1>3, <2>1 DEF Served, p
  <2>2. CASE t \in Want(kind)
    <3>1. r[1].t # "*"
      BY <1>2
    <3> QED BY <1>2, <2>2, <3>1, Zenon DEF Served, p
  <2> QED BY <1>6, <2>1, <2>2
<1> QED BY <1>4, <1>5, <1>6 DEF r

LEMMA ArrayAnswer ==
  ASSUME NEW id \in Ids, NEW kind, NEW elems \in Seq(Str \cup {":", "nil", "-"}),
         ParserOf(kind) # "none", Len(elems) \in {0, 2},
         \A i \in 1..Len(elems) : elems[i] \in Fits(ParserOf(kind), i) \cup {"nil", "-"}
  PROVE  /\ Proper(kind, id, Array(id, elems))
         /\ ParserOf(kind) \in Want(kind) => Served(kind, Array(id, elems))
         /\ (ParserOf(kind) = "slice" \/ \A i \in 1..Len(elems) : elems[i] # "nil")
              => Smooth(kind, Array(id, elems))
<1> DEFINE r == Array(id, elems)
           p == ParserOf(kind)
           l == Len(elems)
<1>1. /\ l \in Nat /\ Whole(r, p) /\ Len(r) = l + 1 /\ r[1] = Token(id, "*", l)
      /\ \A i \in 1..l : r[i + 1] = Token(id, elems[i], 0)
  <2>1. elems \in Seq(Tags)
    BY DEF Tags
  <2> QED BY <2>1, ArrayIs
<1>2. \A i \in 1..l : elems[i] \in Str \cup {":", "nil", "-"}
  OBVIOUS
<1>3. p # "none" /\ \A i \in 1..l : elems[i] \in Fits(p, i) \cup {"nil", "-"}
  OBVIOUS
<1>11. l \in {0, 2}
  OBVIOUS
<1> HIDE DEF r, p, l
<1>4. r[1].id = id /\ r[1].t = "*" /\ \A i \in 1..l : r[i + 1].id = id /\ r[i + 1].t = elems[i]
  BY <1>1, TokenIs
<1>12. \A k : Unplaced(r, p, k) = ""
  <2>1. r[1].n % 2 # 1
    <3>1. r[1].n = l
      BY <1>1, TokenIs
    <3>2. 0 % 2 # 1 /\ 2 % 2 # 1
      OBVIOUS
    <3>3. l = 0 \/ l = 2
      BY <1>11
    <3> QED BY <3>1, <3>2, <3>3, Zenon
  <2> QED BY <2>1, Zenon DEF Unplaced
<1>5. TokenErr(r, p, 1) = ""
  <2>1. ~(1 > 1) /\ "*" \notin {"tail", "*?"}
    OBVIOUS
  <2> QED BY <1>3, <1>4, <1>12, <2>1, Zenon DEF TokenErr
<1>6. ASSUME NEW i \in 1..l
      PROVE  TokenErr(r, p, i + 1) = CASE elems[i] = "-" -> "redis"
                                       [] elems[i] = "nil" -> IF p = "slice" THEN "" ELSE "nil"
                                       [] OTHER -> ""
  <2>1. i + 1 > 1 /\ (i + 1) - 1 = i
    BY <1>1
  <2>2. CASE elems[i] \in {"nil", "-"}
    BY <1>4, <2>1, <2>2 DEF TokenErr
  <2>3. CASE elems[i] \notin {"nil", "-"}
    <3>1. elems[i] \in Fits(p, (i + 1) - 1) /\ elems[i] \notin {"-", "nil", "*", "*?", "tail", "lf"}
      <4>1. elems[i] \in Fits(p, i)
        BY <1>3, <2>3
      <4>2. elems[i] \notin {"-", "nil", "*", "*?", "tail", "lf"}
        BY <1>2, <2>3 DEF Str
      <4> QED BY <2>1, <4>1, <4>2
    <3>2. TokenErr(r, p, i + 1) = ""
      BY <1>4, <1>12, <2>1, <3>1 DEF TokenErr
    <3> QED BY <2>3, <3>2
  <2> QED BY <2>2, <2>3
<1>7. \A k \in 1..Len(r) : k = 1 \/ \E i \in 1..l : k = i + 1
  <2>1. ASSUME NEW k \in 1..Len(r), k # 1 PROVE k - 1 \in 1..l /\ k = (k - 1) + 1
    BY <1>1, <2>1
  <2> QED BY <2>1
<1>8. Proper(kind, id, r)
  <2>1. ASSUME NEW k \in 1..Len(r) PROVE r[k].id = id /\ TokenErr(r, p, k) # "panic"
    <3>1. CASE k = 1
      BY <1>4, <1>5, <3>1
    <3>2. ASSUME NEW i \in 1..l, k = i + 1 PROVE r[k].id = id /\ TokenErr(r, p, k) # "panic"
      BY <1>4, <1>6, <3>2
    <3> QED BY <1>7, <3>1, <3>2
  <2> QED BY <1>1, <2>1 DEF Proper, p
<1>9. ASSUME p \in Want(kind) PROVE Served(kind, r)
  BY <1>4, <1>9, Zenon DEF Served, p
<1>10. ASSUME p = "slice" \/ \A i \in 1..l : elems[i] # "nil" PROVE Smooth(kind, r)
  <2>1. SUFFICES ASSUME \A k \in 2..Len(r) : r[k].t # "-", NEW k \in 1..Len(r) - 1
                 PROVE  TokenErr(r, p, k) = ""
    BY DEF Smooth, p
  <2>2. k \in 1..Len(r)
    BY <1>1
  <2>3. ASSUME NEW i \in 1..l, k = i + 1 PROVE TokenErr(r, p, k) = ""
    <3>1. k \in 2..Len(r)
      BY <1>1, <2>3
    <3>2. elems[i] # "-"
      BY <1>4, <2>1, <2>3, <3>1
    <3> QED BY <1>6, <1>10, <2>3, <3>2
  <2> QED BY <1>5, <1>7, <2>2, <2>3
<1> QED BY <1>8, <1>9, <1>10 DEF r, p, l

LEMMA CursorAnswer ==
  ASSUME NEW id \in Ids
  PROVE  LET r == Cursor(id) IN Proper("Scan", id, r) /\ Served("Scan", r) /\ Smooth("Scan", r)
<1> DEFINE r == Cursor(id)
<1>1. /\ Whole(r, "slice") /\ Len(r) = 5 /\ r[1] = Token(id, "*", 2) /\ r[2] = Token(id, "#", 0)
      /\ r[3] = Token(id, "*", 2) /\ r[4] = Token(id, "$", 0) /\ r[5] = Token(id, "$", 0)
  BY CursorIs
<1>2. ParserOf("Scan") = "slice" /\ "slice" \in Want("Scan")
  BY DEF ParserOf, Want
<1> HIDE DEF r
<1>3. \A k \in 1..5 : k = 1 \/ k = 2 \/ k = 3 \/ k = 4 \/ k = 5
  OBVIOUS
<1>4. ASSUME NEW k \in 1..5 PROVE r[k].id = id /\ r[k].t \in {"*", "$", "#"}
  <2>1. \E t \in {"*", "$", "#"}, n \in {0, 2} : r[k] = Token(id, t, n)
    BY <1>1, <1>3
  <2> QED BY <2>1, TokenIs
<1>5. ASSUME NEW k \in 1..5 PROVE TokenErr(r, "slice", k) = ""
  <2>1. "$" \in Fits("slice", k - 1) /\ "#" \in Fits("slice", k - 1)
    BY DEF Fits, Str
  <2> QED BY <1>4, <2>1 DEF TokenErr, Unplaced
<1>6. Proper("Scan", id, r)
  BY <1>1, <1>2, <1>4, <1>5 DEF Proper
<1>7. Served("Scan", r)
  <2>1. r[1].t = "*"
    BY <1>1, TokenIs
  <2> QED BY <1>2, <2>1 DEF Served
<1>8. Smooth("Scan", r)
  <2>1. \A k \in 1..Len(r) - 1 : k \in 1..5
    BY <1>1
  <2> QED BY <1>2, <1>5, <2>1, Zenon DEF Smooth
<1> QED BY <1>6, <1>7, <1>8 DEF r

LEMMA EmptyAnswer ==
  ASSUME NEW id \in Ids, NEW kind, ParserOf(kind) # "none", ParserOf(kind) \in Want(kind)
  PROVE  LET r == Array(id, <<>>) IN Proper(kind, id, r) /\ Served(kind, r) /\ Smooth(kind, r)
<1> DEFINE e == <<>>
<1>1. e \in Seq(Str \cup {":", "nil", "-"}) /\ Len(e) = 0 /\ \A i \in 1..Len(e) : FALSE
  OBVIOUS
<1> HIDE DEF e
<1>2. \A i \in 1..Len(e) : e[i] \in Fits(ParserOf(kind), i) \cup {"nil", "-"} /\ e[i] # "nil"
  BY <1>1
<1>3. Proper(kind, id, Array(id, e)) /\ Served(kind, Array(id, e)) /\ Smooth(kind, Array(id, e))
  BY <1>1, <1>2, ArrayAnswer
<1> QED BY <1>3 DEF e

LEMMA PairAnswer ==
  ASSUME NEW id \in Ids, NEW kind, NEW a \in Str \cup {":", "nil", "-"}, NEW b \in Str \cup {":", "nil", "-"},
         ParserOf(kind) # "none", ParserOf(kind) \in Want(kind),
         a \in Fits(ParserOf(kind), 1) \cup {"nil", "-"}, b \in Fits(ParserOf(kind), 2) \cup {"nil", "-"}
  PROVE  LET r == Array(id, <<a, b>>) IN
         /\ Proper(kind, id, r) /\ Served(kind, r)
         /\ ParserOf(kind) = "slice" \/ (a # "nil" /\ b # "nil") => Smooth(kind, r)
<1> DEFINE e == <<a, b>>
<1>1. e \in Seq(Str \cup {":", "nil", "-"}) /\ Len(e) = 2 /\ e[1] = a /\ e[2] = b
  OBVIOUS
<1> HIDE DEF e
<1>2. \A i \in 1..Len(e) : i = 1 \/ i = 2
  BY <1>1
<1>3. \A i \in 1..Len(e) : e[i] \in Fits(ParserOf(kind), i) \cup {"nil", "-"}
  BY <1>1, <1>2
<1>4. Proper(kind, id, Array(id, e)) /\ Served(kind, Array(id, e))
  BY <1>1, <1>3, ArrayAnswer
<1>5. ASSUME ParserOf(kind) = "slice" \/ (a # "nil" /\ b # "nil") PROVE Smooth(kind, Array(id, e))
  <2>1. ParserOf(kind) = "slice" \/ \A i \in 1..Len(e) : e[i] # "nil"
    BY <1>1, <1>2, <1>5
  <2> QED BY <1>1, <1>3, <2>1, ArrayAnswer
<1> QED BY <1>4, <1>5 DEF e

LEMMA ParsersAre ==
  /\ \A kind \in {"Cmd", "Slice", "Scan"} : ParserOf(kind) = "slice" /\ "slice" \in Want(kind)
  /\ ParserOf("StringSlice") = "strings" /\ "strings" \in Want("StringSlice")
  /\ ParserOf("BoolSlice") = "bools" /\ "bools" \in Want("BoolSlice")
  /\ ParserOf("StringStringMap") = "map" /\ "map" \in Want("StringStringMap")
  /\ ParserOf("StringIntMap") = "intmap" /\ "intmap" \in Want("StringIntMap")
  /\ ParserOf("ZSlice") = "zslice" /\ "zslice" \in Want("ZSlice")
  /\ \A kind \in {"Status", "String", "Float"} : Want(kind) = Str
  /\ \A kind \in {"Int", "Duration", "Bool"} : Want(kind) = {":"}
  /\ Want("Cmd") = Str \cup {":", "slice"}
BY DEF ParserOf, Want

LEMMA FitsAre ==
  /\ \A i \in {1, 2} : /\ Fits("slice", i) = Str \cup {":", "slice"} /\ Fits("strings", i) = Str
                       /\ Fits("bools", i) = {":"} /\ Fits("map", i) = Str
  /\ Fits("intmap", 1) = Str /\ Fits("intmap", 2) = {":", "#"}
  /\ Fits("zslice", 1) = Str /\ Fits("zslice", 2) = {"#"}
<1>1. 1 % 2 = 1 /\ 2 % 2 # 1
  OBVIOUS
<1> QED BY <1>1 DEF Fits

FitsReply(kind, type) ==
  CASE type = "status" -> kind \in {"Status", "String"}
    [] type = "integer" -> kind \in {"Int", "Duration", "Bool"}
    [] type = "bulk" -> kind = "String"
    [] type = "rank" -> kind \in {"Int", "Duration"}
    [] type = "number" -> kind = "Float"
    [] type = "strings" -> kind \in {"Slice", "StringSlice", "StringStringMap"}
    [] type = "optional strings" -> kind = "Slice"
    [] type = "integers" -> kind = "BoolSlice"
    [] type = "counts" -> kind = "StringIntMap"
    [] type = "scored" -> kind = "ZSlice"
    [] type = "cursor" -> kind = "Scan"
    [] type = "any" -> kind = "Cmd"
    [] type = "sorted" -> kind = "StringSlice"
    [] OTHER -> FALSE

Types == {"status", "integer", "bulk", "rank", "number", "strings", "optional strings",
          "integers", "counts", "scored", "cursor", "any", "sorted"}

Good(kind, id, r) == Proper(kind, id, r) /\ Served(kind, r) /\ Smooth(kind, r)

\* The replies of one token.
LEMMA ScalarGood ==
  ASSUME NEW id \in Ids, NEW kind, NEW type \in {"status", "integer", "bulk", "rank", "number"},
         FitsReply(kind, type), NEW r \in Replies(type, id)
  PROVE  Good(kind, id, r)
<1>1. PICK t \in {"-", "nil", "+", ":", "$", "#"} :
        r = Simple(id, t) /\ t \in {"-", "nil"} \cup Want(kind)
  <2>1. CASE type = "status"
    <3>1. r \in {Simple(id, "-"), Simple(id, "+")}
      BY <2>1, Zenon DEF Replies
    <3>2. "+" \in Want(kind)
      BY <2>1, ParsersAre DEF FitsReply, Str
    <3> QED BY <3>1, <3>2
  <2>2. CASE type = "integer"
    <3>1. r \in {Simple(id, "-"), Simple(id, ":")}
      BY <2>2 DEF Replies
    <3>2. ":" \in Want(kind)
      BY <2>2, ParsersAre DEF FitsReply
    <3> QED BY <3>1, <3>2
  <2>3. CASE type = "bulk"
    <3>1. r \in {Simple(id, "-"), Simple(id, "$"), Simple(id, "nil")}
      BY <2>3 DEF Replies
    <3>2. "$" \in Want(kind)
      BY <2>3, ParsersAre DEF FitsReply, Str
    <3> QED BY <3>1, <3>2
  <2>4. CASE type = "rank"
    <3>1. r \in {Simple(id, "-"), Simple(id, ":"), Simple(id, "nil")}
      BY <2>4 DEF Replies
    <3>2. ":" \in Want(kind)
      BY <2>4, ParsersAre DEF FitsReply
    <3> QED BY <3>1, <3>2
  <2>5. CASE type = "number"
    <3>1. r \in {Simple(id, "-"), Simple(id, "#"), Simple(id, "nil")}
      BY <2>5 DEF Replies
    <3>2. "#" \in Want(kind)
      BY <2>5, ParsersAre DEF FitsReply, Str
    <3> QED BY <3>1, <3>2
  <2> QED BY <2>1, <2>2, <2>3, <2>4, <2>5
<1> QED BY <1>1, SimpleAnswer DEF Good

\* The replies that may be arrays, but for that of SORT.
LEMMA ArrayGood ==
  ASSUME NEW id \in Ids, NEW kind,
         NEW type \in {"strings", "optional strings", "integers", "counts", "scored", "cursor", "any"},
         FitsReply(kind, type), NEW r \in Replies(type, id)
  PROVE  Good(kind, id, r)
<1> DEFINE Pair(a, b) == Array(id, <<a, b>>)
<1>1. \A t \in {"-", "nil"} : Good(kind, id, Simple(id, t))
  BY SimpleAnswer DEF Good
<1>2. CASE type = "strings"
  <2>1. r \in {Simple(id, "-"), Simple(id, "nil"), Array(id, <<>>), Pair("$", "$")}
    BY <1>2 DEF Replies
  <2>2. ParserOf(kind) \in {"slice", "strings", "map"} /\ ParserOf(kind) \in Want(kind)
    BY <1>2, ParsersAre DEF FitsReply
  <2>3. Good(kind, id, Array(id, <<>>))
    BY <2>2, EmptyAnswer DEF Good
  <2>4. "$" \in Fits(ParserOf(kind), 1) /\ "$" \in Fits(ParserOf(kind), 2)
    BY <2>2, FitsAre DEF Str
  <2>5. Good(kind, id, Pair("$", "$"))
    BY <2>2, <2>4, PairAnswer DEF Good, Str
  <2> QED BY <1>1, <2>1, <2>3, <2>5
<1>3. CASE type = "optional strings"
  <2>1. r \in {Simple(id, "-"), Pair("$", "nil"), Pair("nil", "$")}
    BY <1>3 DEF Replies
  <2>2. ParserOf(kind) = "slice" /\ ParserOf(kind) \in Want(kind)
    BY <1>3, ParsersAre DEF FitsReply
  <2>3. "$" \in Fits(ParserOf(kind), 1) /\ "$" \in Fits(ParserOf(kind), 2)
    BY <2>2, FitsAre DEF Str
  <2>4. Good(kind, id, Pair("$", "nil")) /\ Good(kind, id, Pair("nil", "$"))
    BY <2>2, <2>3, PairAnswer DEF Good, Str
  <2> QED BY <1>1, <2>1, <2>4
<1>4. CASE type = "integers"
  <2>1. r \in {Simple(id, "-"), Pair(":", ":")}
    BY <1>4 DEF Replies
  <2>2. ParserOf(kind) = "bools" /\ ParserOf(kind) \in Want(kind)
    BY <1>4, ParsersAre DEF FitsReply
  <2>3. ":" \in Fits(ParserOf(kind), 1) /\ ":" \in Fits(ParserOf(kind), 2)
    BY <2>2, FitsAre
  <2>4. Good(kind, id, Pair(":", ":"))
    BY <2>2, <2>3, PairAnswer DEF Good
  <2> QED BY <1>1, <2>1, <2>4
<1>5. CASE type = "counts"
  <2>1. r \in {Simple(id, "-"), Array(id, <<>>), Pair("$", ":")}
    BY <1>5 DEF Replies
  <2>2. ParserOf(kind) = "intmap" /\ ParserOf(kind) \in Want(kind)
    BY <1>5, ParsersAre DEF FitsReply
  <2>3. Good(kind, id, Array(id, <<>>))
    BY <2>2, EmptyAnswer DEF Good
  <2>4. "$" \in Fits(ParserOf(kind), 1) /\ ":" \in Fits(ParserOf(kind), 2)
    BY <2>2, FitsAre DEF Str
  <2>5. Good(kind, id, Pair("$", ":"))
    BY <2>2, <2>4, PairAnswer DEF Good, Str
  <2> QED BY <1>1, <2>1, <2>3, <2>5
<1>6. CASE type = "scored"
  <2>1. r \in {Simple(id, "-"), Array(id, <<>>), Pair("$", "#")}
    BY <1>6 DEF Replies
  <2>2. ParserOf(kind) = "zslice" /\ ParserOf(kind) \in Want(kind)
    BY <1>6, ParsersAre DEF FitsReply
  <2>3. Good(kind, id, Array(id, <<>>))
    BY <2>2, EmptyAnswer DEF Good
  <2>4. "$" \in Fits(ParserOf(kind), 1) /\ "#" \in Fits(ParserOf(kind), 2)
    BY <2>2, FitsAre DEF Str
  <2>5. Good(kind, id, Pair("$", "#"))
    BY <2>2, <2>4, PairAnswer DEF Good, Str
  <2> QED BY <1>1, <2>1, <2>3, <2>5
<1>7. CASE type = "cursor"
  <2>1. r \in {Simple(id, "-"), Cursor(id)} /\ kind = "Scan"
    BY <1>7 DEF Replies, FitsReply, Cursor
  <2> QED BY <1>1, <2>1, CursorAnswer DEF Good
<1>8. CASE type = "any"
  <2>1. r \in {Simple(id, "-"), Simple(id, ":"), Simple(id, "$"), Simple(id, "nil"),
               Pair("$", "nil"), Pair("-", "$")}
    BY <1>8 DEF Replies
  <2>2. /\ ParserOf(kind) = "slice" /\ ParserOf(kind) \in Want(kind)
        /\ "$" \in Want(kind) /\ ":" \in Want(kind)
    BY <1>8, ParsersAre DEF FitsReply, Str
  <2>3. Good(kind, id, Simple(id, "$")) /\ Good(kind, id, Simple(id, ":"))
    BY <2>2, SimpleAnswer DEF Good
  <2>4. "$" \in Fits(ParserOf(kind), 1) /\ "$" \in Fits(ParserOf(kind), 2)
    BY <2>2, FitsAre DEF Str
  <2>5. Good(kind, id, Pair("$", "nil")) /\ Good(kind, id, Pair("-", "$"))
    BY <2>2, <2>4, PairAnswer DEF Good, Str
  <2> QED BY <1>1, <2>1, <2>3, <2>5
<1> QED BY <1>2, <1>3, <1>4, <1>5, <1>6, <1>7, <1>8

LEMMA SortedProper ==
  ASSUME NEW id \in Ids, NEW kind, FitsReply(kind, "sorted"), NEW r \in Replies("sorted", id)
  PROVE  kind = "StringSlice" /\ Proper(kind, id, r)
<1>1. kind = "StringSlice"
  BY DEF FitsReply
<1>2. r \in {Simple(id, "-"), Simple(id, ":"), Array(id, <<"$", "$">>), Array(id, <<"$", "nil">>)}
  BY DEF Replies
<1>3. ParserOf(kind) = "strings" /\ ParserOf(kind) \in Want(kind)
  BY <1>1, ParsersAre
<1>4. "$" \in Fits(ParserOf(kind), 1) /\ "$" \in Fits(ParserOf(kind), 2)
  BY <1>3, FitsAre DEF Str
<1>5. Proper(kind, id, Array(id, <<"$", "$">>)) /\ Proper(kind, id, Array(id, <<"$", "nil">>))
  BY <1>3, <1>4, PairAnswer DEF Str
<1>6. Proper(kind, id, Simple(id, "-")) /\ Proper(kind, id, Simple(id, ":"))
  BY SimpleAnswer
<1> QED BY <1>1, <1>2, <1>5, <1>6

LEMMA ConnectionMethodsFit == \A m \in DOMAIN ConnectionMethods : FitsReply(ConnectionMethods[m], ServerType(m))
<1>1. DOMAIN ConnectionMethods = {"Auth", "Echo", "Ping", "Select"}
  BY DEF ConnectionMethods
<1>2. ASSUME NEW m \in {"Auth", "Ping", "Select"}
      PROVE  FitsReply(ConnectionMethods[m], ServerType(m))
  <2>1. ServerType(m) = "status"
    BY DEF ServerType
  <2>2. ConnectionMethods[m] \in {"Status"}
    BY DEF ConnectionMethods
  <2> QED BY <2>1, <2>2 DEF FitsReply
<1>3. ASSUME NEW m \in {"Echo"}
      PROVE  FitsReply(ConnectionMethods[m], ServerType(m))
  <2>1. ServerType(m) = "bulk"
    BY DEF ServerType
  <2>2. ConnectionMethods[m] \in {"String"}
    BY DEF ConnectionMethods
  <2> QED BY <2>1, <2>2 DEF FitsReply
<1> QED BY <1>1, <1>2, <1>3

LEMMA KeyMethodsFit == \A m \in DOMAIN KeyMethods : FitsReply(KeyMethods[m], ServerType(m))
<1>1. DOMAIN KeyMethods = {"Del", "Dump", "Exists", "Expire", "ExpireAt", "Keys", "Migrate", "Move",
        "ObjectRefCount", "ObjectEncoding", "ObjectIdleTime", "Persist", "PExpire",
        "PExpireAt", "PTTL", "RandomKey", "Rename", "RenameNX", "Restore"}
  BY DEF KeyMethods
<1>2. ASSUME NEW m \in {"Del", "Exists", "Expire", "ExpireAt", "Move", "Persist", "PExpire",
                         "PExpireAt", "PTTL", "RenameNX"}
      PROVE  FitsReply(KeyMethods[m], ServerType(m))
  <2>1. ServerType(m) = "integer"
    BY DEF ServerType
  <2>2. KeyMethods[m] \in {"Bool", "Duration", "Int"}
    BY DEF KeyMethods
  <2> QED BY <2>1, <2>2 DEF FitsReply
<1>3. ASSUME NEW m \in {"Dump", "ObjectEncoding", "RandomKey"}
      PROVE  FitsReply(KeyMethods[m], ServerType(m))
  <2>1. ServerType(m) = "bulk"
    BY DEF ServerType
  <2>2. KeyMethods[m] \in {"String"}
    BY DEF KeyMethods
  <2> QED BY <2>1, <2>2 DEF FitsReply
<1>4. ASSUME NEW m \in {"Keys"}
      PROVE  FitsReply(KeyMethods[m], ServerType(m))
  <2>1. ServerType(m) = "strings"
    BY DEF ServerType
  <2>2. KeyMethods[m] \in {"StringSlice"}
    BY DEF KeyMethods
  <2> QED BY <2>1, <2>2 DEF FitsReply
<1>5. ASSUME NEW m \in {"Migrate", "Rename", "Restore"}
      PROVE  FitsReply(KeyMethods[m], ServerType(m))
  <2>1. ServerType(m) = "status"
    BY DEF ServerType
  <2>2. KeyMethods[m] \in {"Status"}
    BY DEF KeyMethods
  <2> QED BY <2>1, <2>2 DEF FitsReply
<1>6. ASSUME NEW m \in {"ObjectRefCount", "ObjectIdleTime"}
      PROVE  FitsReply(KeyMethods[m], ServerType(m))
  <2>1. ServerType(m) = "rank"
    BY DEF ServerType
  <2>2. KeyMethods[m] \in {"Duration", "Int"}
    BY DEF KeyMethods
  <2> QED BY <2>1, <2>2 DEF FitsReply
<1> QED BY <1>1, <1>2, <1>3, <1>4, <1>5, <1>6

LEMMA SortAndScanMethodsFit == \A m \in DOMAIN SortAndScanMethods : FitsReply(SortAndScanMethods[m], ServerType(m))
<1>1. DOMAIN SortAndScanMethods = {"Sort", "TTL", "Type", "Scan", "SScan", "HScan", "ZScan"}
  BY DEF SortAndScanMethods
<1>2. ASSUME NEW m \in {"Sort"}
      PROVE  FitsReply(SortAndScanMethods[m], ServerType(m))
  <2>1. ServerType(m) = "sorted"
    BY DEF ServerType
  <2>2. SortAndScanMethods[m] \in {"StringSlice"}
    BY DEF SortAndScanMethods
  <2> QED BY <2>1, <2>2 DEF FitsReply
<1>3. ASSUME NEW m \in {"TTL"}
      PROVE  FitsReply(SortAndScanMethods[m], ServerType(m))
  <2>1. ServerType(m) = "integer"
    BY DEF ServerType
  <2>2. SortAndScanMethods[m] \in {"Duration"}
    BY DEF SortAndScanMethods
  <2> QED BY <2>1, <2>2 DEF FitsReply
<1>4. ASSUME NEW m \in {"Type"}
      PROVE  FitsReply(SortAndScanMethods[m], ServerType(m))
  <2>1. ServerType(m) = "status"
    BY DEF ServerType
  <2>2. SortAndScanMethods[m] \in {"Status"}
    BY DEF SortAndScanMethods
  <2> QED BY <2>1, <2>2 DEF FitsReply
<1>5. ASSUME NEW m \in {"Scan", "SScan", "HScan", "ZScan"}
      PROVE  FitsReply(SortAndScanMethods[m], ServerType(m))
  <2>1. ServerType(m) = "cursor"
    BY DEF ServerType
  <2>2. SortAndScanMethods[m] \in {"Scan"}
    BY DEF SortAndScanMethods
  <2> QED BY <2>1, <2>2 DEF FitsReply
<1> QED BY <1>1, <1>2, <1>3, <1>4, <1>5

LEMMA BitAndCounterMethodsFit == \A m \in DOMAIN BitAndCounterMethods : FitsReply(BitAndCounterMethods[m], ServerType(m))
<1>1. DOMAIN BitAndCounterMethods = {"Append", "BitCount", "BitOpAnd", "BitOpOr", "BitOpXor", "BitOpNot", "Decr", "DecrBy",
        "Get", "GetBit", "GetRange", "GetSet", "Incr", "IncrBy", "IncrByFloat"}
  BY DEF BitAndCounterMethods
<1>2. ASSUME NEW m \in {"Append", "BitCount", "BitOpAnd", "BitOpOr", "BitOpXor", "BitOpNot",
                         "Decr", "DecrBy", "GetBit", "Incr", "IncrBy"}
      PROVE  FitsReply(BitAndCounterMethods[m], ServerType(m))
  <2>1. ServerType(m) = "integer"
    BY DEF ServerType
  <2>2. BitAndCounterMethods[m] \in {"Int"}
    BY DEF BitAndCounterMethods
  <2> QED BY <2>1, <2>2 DEF FitsReply
<1>3. ASSUME NEW m \in {"Get", "GetRange", "GetSet"}
      PROVE  FitsReply(BitAndCounterMethods[m], ServerType(m))
  <2>1. ServerType(m) = "bulk"
    BY DEF ServerType
  <2>2. BitAndCounterMethods[m] \in {"String"}
    BY DEF BitAndCounterMethods
  <2> QED BY <2>1, <2>2 DEF FitsReply
<1>4. ASSUME NEW m \in {"IncrByFloat"}
      PROVE  FitsReply(BitAndCounterMethods[m], ServerType(m))
  <2>1. ServerType(m) = "number"
    BY DEF ServerType
  <2>2. BitAndCounterMethods[m] \in {"Float"}
    BY DEF BitAndCounterMethods
  <2> QED BY <2>1, <2>2 DEF FitsReply
<1> QED BY <1>1, <1>2, <1>3, <1>4

LEMMA StringMethodsFit == \A m \in DOMAIN StringMethods : FitsReply(StringMethods[m], ServerType(m))
<1>1. DOMAIN StringMethods = {"MGet", "MSet", "MSetNX", "PSetEx", "Set", "SetBit", "SetEx", "SetNX", "SetRange",
        "StrLen"}
  BY DEF StringMethods
<1>2. ASSUME NEW m \in {"MGet"}
      PROVE  FitsReply(StringMethods[m], ServerType(m))
  <2>1. ServerType(m) = "optional strings"
    BY DEF ServerType
  <2>2. StringMethods[m] \in {"Slice"}
    BY DEF StringMethods
  <2> QED BY <2>1, <2>2 DEF FitsReply
<1>3. ASSUME NEW m \in {"MSet", "PSetEx", "Set", "SetEx"}
      PROVE  FitsReply(StringMethods[m], ServerType(m))
  <2>1. ServerType(m) = "status"
    BY DEF ServerType
  <2>2. StringMethods[m] \in {"Status"}
    BY DEF StringMethods
  <2> QED BY <2>1, <2>2 DEF FitsReply
<1>4. ASSUME NEW m \in {"MSetNX", "SetBit", "SetNX", "SetRange", "StrLen"}
      PROVE  FitsReply(StringMethods[m], ServerType(m))
  <2>1. ServerType(m) = "integer"
    BY DEF ServerType
  <2>2. StringMethods[m] \in {"Bool", "Int"}
    BY DEF StringMethods
  <2> QED BY <2>1, <2>2 DEF FitsReply
<1> QED BY <1>1, <1>2, <1>3, <1>4

LEMMA HashMethodsFit == \A m \in DOMAIN HashMethods : FitsReply(HashMethods[m], ServerType(m))
<1>1. DOMAIN HashMethods = {"HDel", "HExists", "HGet", "HGetAll", "HGetAllMap", "HIncrBy", "HIncrByFloat", "HKeys",
        "HLen", "HMGet", "HMSet", "HSet", "HSetNX", "HVals"}
  BY DEF HashMethods
<1>2. ASSUME NEW m \in {"HDel", "HExists", "HIncrBy", "HLen", "HSet", "HSetNX"}
      PROVE  FitsReply(HashMethods[m], ServerType(m))
  <2>1. ServerType(m) = "integer"
    BY DEF ServerType
  <2>2. HashMethods[m] \in {"Bool", "Int"}
    BY DEF HashMethods
  <2> QED BY <2>1, <2>2 DEF FitsReply
<1>3. ASSUME NEW m \in {"HGet"}
      PROVE  FitsReply(HashMethods[m], ServerType(m))
  <2>1. ServerType(m) = "bulk"
    BY DEF ServerType
  <2>2. HashMethods[m] \in {"String"}
    BY DEF HashMethods
  <2> QED BY <2>1, <2>2 DEF FitsReply
<1>4. ASSUME NEW m \in {"HGetAll", "HGetAllMap", "HKeys", "HVals"}
      PROVE  FitsReply(HashMethods[m], ServerType(m))
  <2>1. ServerType(m) = "strings"
    BY DEF ServerType
  <2>2. HashMethods[m] \in {"StringSlice", "StringStringMap"}
    BY DEF HashMethods
  <2> QED BY <2>1, <2>2 DEF FitsReply
<1>5. ASSUME NEW m \in {"HIncrByFloat"}
      PROVE  FitsReply(HashMethods[m], ServerType(m))
  <2>1. ServerType(m) = "number"
    BY DEF ServerType
  <2>2. HashMethods[m] \in {"Float"}
    BY DEF HashMethods
  <2> QED BY <2>1, <2>2 DEF FitsReply
<1>6. ASSUME NEW m \in {"HMGet"}
      PROVE  FitsReply(HashMethods[m], ServerType(m))
  <2>1. ServerType(m) = "optional strings"
    BY DEF ServerType
  <2>2. HashMethods[m] \in {"Slice"}
    BY DEF HashMethods
  <2> QED BY <2>1, <2>2 DEF FitsReply
<1>7. ASSUME NEW m \in {"HMSet"}
      PROVE  FitsReply(HashMethods[m], ServerType(m))
  <2>1. ServerType(m) = "status"
    BY DEF ServerType
  <2>2. HashMethods[m] \in {"Status"}
    BY DEF HashMethods
  <2> QED BY <2>1, <2>2 DEF FitsReply
<1> QED BY <1>1, <1>2, <1>3, <1>4, <1>5, <1>6, <1>7

LEMMA ListMethodsFit == \A m \in DOMAIN ListMethods : FitsReply(ListMethods[m], ServerType(m))
<1>1. DOMAIN ListMethods = {"BLPop", "BRPop", "BRPopLPush", "LIndex", "LInsert", "LLen", "LPop", "LPush", "LPushX",
        "LRange", "LRem", "LSet", "LTrim", "RPop", "RPopLPush", "RPush", "RPushX"}
  BY DEF ListMethods
<1>2. ASSUME NEW m \in {"BLPop", "BRPop", "LRange"}
      PROVE  FitsReply(ListMethods[m], ServerType(m))
  <2>1. ServerType(m) = "strings"
    BY DEF ServerType
  <2>2. ListMethods[m] \in {"StringSlice"}
    BY DEF ListMethods
  <2> QED BY <2>1, <2>2 DEF FitsReply
<1>3. ASSUME NEW m \in {"BRPopLPush", "LIndex", "LPop", "RPop", "RPopLPush"}
      PROVE  FitsReply(ListMethods[m], ServerType(m))
  <2>1. ServerType(m) = "bulk"
    BY DEF ServerType
  <2>2. ListMethods[m] \in {"String"}
    BY DEF ListMethods
  <2> QED BY <2>1, <2>2 DEF FitsReply
<1>4. ASSUME NEW m \in {"LInsert", "LLen", "LPush", "LPushX", "LRem", "RPush", "RPushX"}
      PROVE  FitsReply(ListMethods[m], ServerType(m))
  <2>1. ServerType(m) = "integer"
    BY DEF ServerType
  <2>2. ListMethods[m] \in {"Int"}
    BY DEF ListMethods
  <2> QED BY <2>1, <2>2 DEF FitsReply
<1>5. ASSUME NEW m \in {"LSet", "LTrim"}
      PROVE  FitsReply(ListMethods[m], ServerType(m))
  <2>1. ServerType(m) = "status"
    BY DEF ServerType
  <2>2. ListMethods[m] \in {"Status"}
    BY DEF ListMethods
  <2> QED BY <2>1, <2>2 DEF FitsReply
<1> QED BY <1>1, <1>2, <1>3, <1>4, <1>5

LEMMA SetMethodsFit == \A m \in DOMAIN SetMethods : FitsReply(SetMethods[m], ServerType(m))
<1>1. DOMAIN SetMethods = {"SAdd", "SCard", "SDiff", "SDiffStore", "SInter", "SInterStore", "SIsMember",
        "SMembers", "SMove", "SPop", "SRandMember", "SRem", "SUnion", "SUnionStore"}
  BY DEF SetMethods
<1>2. ASSUME NEW m \in {"SAdd", "SCard", "SDiffStore", "SInterStore", "SIsMember", "SMove",
                         "SRem", "SUnionStore"}
      PROVE  FitsReply(SetMethods[m], ServerType(m))
  <2>1. ServerType(m) = "integer"
    BY DEF ServerType
  <2>2. SetMethods[m] \in {"Bool", "Int"}
    BY DEF SetMethods
  <2> QED BY <2>1, <2>2 DEF FitsReply
<1>3. ASSUME NEW m \in {"SDiff", "SInter", "SMembers", "SUnion"}
      PROVE  FitsReply(SetMethods[m], ServerType(m))
  <2>1. ServerType(m) = "strings"
    BY DEF ServerType
  <2>2. SetMethods[m] \in {"StringSlice"}
    BY DEF SetMethods
  <2> QED BY <2>1, <2>2 DEF FitsReply
<1>4. ASSUME NEW m \in {"SPop", "SRandMember"}
      PROVE  FitsReply(SetMethods[m], ServerType(m))
  <2>1. ServerType(m) = "bulk"
    BY DEF ServerType
  <2>2. SetMethods[m] \in {"String"}
    BY DEF SetMethods
  <2> QED BY <2>1, <2>2 DEF FitsReply
<1> QED BY <1>1, <1>2, <1>3, <1>4

LEMMA SortedSetMethodsFit == \A m \in DOMAIN SortedSetMethods : FitsReply(SortedSetMethods[m], ServerType(m))
<1>1. DOMAIN SortedSetMethods = {"ZAdd", "ZCard", "ZCount", "ZIncrBy", "ZInterStore", "ZRange", "ZRangeWithScores",
        "ZRangeByScore", "ZRangeByScoreWithScores"}
  BY DEF SortedSetMethods
<1>2. ASSUME NEW m \in {"ZAdd", "ZCard", "ZCount", "ZInterStore"}
      PROVE  FitsReply(SortedSetMethods[m], ServerType(m))
  <2>1. ServerType(m) = "integer"
    BY DEF ServerType
  <2>2. SortedSetMethods[m] \in {"Int"}
    BY DEF SortedSetMethods
  <2> QED BY <2>1, <2>2 DEF FitsReply
<1>3. ASSUME NEW m \in {"ZIncrBy"}
      PROVE  FitsReply(SortedSetMethods[m], ServerType(m))
  <2>1. ServerType(m) = "number"
    BY DEF ServerType
  <2>2. SortedSetMethods[m] \in {"Float"}
    BY DEF SortedSetMethods
  <2> QED BY <2>1, <2>2 DEF FitsReply
<1>4. ASSUME NEW m \in {"ZRange", "ZRangeByScore"}
      PROVE  FitsReply(SortedSetMethods[m], ServerType(m))
  <2>1. ServerType(m) = "strings"
    BY DEF ServerType
  <2>2. SortedSetMethods[m] \in {"StringSlice"}
    BY DEF SortedSetMethods
  <2> QED BY <2>1, <2>2 DEF FitsReply
<1>5. ASSUME NEW m \in {"ZRangeWithScores", "ZRangeByScoreWithScores"}
      PROVE  FitsReply(SortedSetMethods[m], ServerType(m))
  <2>1. ServerType(m) = "scored"
    BY DEF ServerType
  <2>2. SortedSetMethods[m] \in {"ZSlice"}
    BY DEF SortedSetMethods
  <2> QED BY <2>1, <2>2 DEF FitsReply
<1> QED BY <1>1, <1>2, <1>3, <1>4, <1>5

LEMMA RankMethodsFit == \A m \in DOMAIN RankMethods : FitsReply(RankMethods[m], ServerType(m))
<1>1. DOMAIN RankMethods = {"ZRank", "ZRem", "ZRemRangeByRank", "ZRemRangeByScore", "ZRevRange",
        "ZRevRangeWithScores", "ZRevRangeByScore", "ZRevRangeByScoreWithScores", "ZRevRank",
        "ZScore", "ZUnionStore"}
  BY DEF RankMethods
<1>2. ASSUME NEW m \in {"ZRank", "ZRevRank"}
      PROVE  FitsReply(RankMethods[m], ServerType(m))
  <2>1. ServerType(m) = "rank"
    BY DEF ServerType
  <2>2. RankMethods[m] \in {"Int"}
    BY DEF RankMethods
  <2> QED BY <2>1, <2>2 DEF FitsReply
<1>3. ASSUME NEW m \in {"ZRem", "ZRemRangeByRank", "ZRemRangeByScore", "ZUnionStore"}
      PROVE  FitsReply(RankMethods[m], ServerType(m))
  <2>1. ServerType(m) = "integer"
    BY DEF ServerType
  <2>2. RankMethods[m] \in {"Int"}
    BY DEF RankMethods
  <2> QED BY <2>1, <2>2 DEF FitsReply
<1>4. ASSUME NEW m \in {"ZRevRange", "ZRevRangeByScore"}
      PROVE  FitsReply(RankMethods[m], ServerType(m))
  <2>1. ServerType(m) = "strings"
    BY DEF ServerType
  <2>2. RankMethods[m] \in {"StringSlice"}
    BY DEF RankMethods
  <2> QED BY <2>1, <2>2 DEF FitsReply
<1>5. ASSUME NEW m \in {"ZRevRangeWithScores", "ZRevRangeByScoreWithScores"}
      PROVE  FitsReply(RankMethods[m], ServerType(m))
  <2>1. ServerType(m) = "scored"
    BY DEF ServerType
  <2>2. RankMethods[m] \in {"ZSlice"}
    BY DEF RankMethods
  <2> QED BY <2>1, <2>2 DEF FitsReply
<1>6. ASSUME NEW m \in {"ZScore"}
      PROVE  FitsReply(RankMethods[m], ServerType(m))
  <2>1. ServerType(m) = "number"
    BY DEF ServerType
  <2>2. RankMethods[m] \in {"Float"}
    BY DEF RankMethods
  <2> QED BY <2>1, <2>2 DEF FitsReply
<1> QED BY <1>1, <1>2, <1>3, <1>4, <1>5, <1>6

LEMMA ServerMethodsFit == \A m \in DOMAIN ServerMethods : FitsReply(ServerMethods[m], ServerType(m))
<1>1. DOMAIN ServerMethods = {"BgRewriteAOF", "BgSave", "ClientKill", "ClientList", "ConfigGet", "ConfigResetStat",
        "ConfigSet", "DbSize", "FlushAll", "FlushDb", "Info", "LastSave", "Save", "Shutdown",
        "ShutdownSave", "ShutdownNoSave", "SlaveOf", "Time"}
  BY DEF ServerMethods
<1>2. ASSUME NEW m \in {"BgRewriteAOF", "BgSave", "ClientKill", "ConfigResetStat",
                         "ConfigSet", "FlushAll", "FlushDb", "Save", "Shutdown",
                         "ShutdownSave", "ShutdownNoSave", "SlaveOf"}
      PROVE  FitsReply(ServerMethods[m], ServerType(m))
  <2>1. ServerType(m) = "status"
    BY DEF ServerType
  <2>2. ServerMethods[m] \in {"Status"}
    BY DEF ServerMethods
  <2> QED BY <2>1, <2>2 DEF FitsReply
<1>3. ASSUME NEW m \in {"ClientList", "Info"}
      PROVE  FitsReply(ServerMethods[m], ServerType(m))
  <2>1. ServerType(m) = "bulk"
    BY DEF ServerType
  <2>2. ServerMethods[m] \in {"String"}
    BY DEF ServerMethods
  <2> QED BY <2>1, <2>2 DEF FitsReply
<1>4. ASSUME NEW m \in {"ConfigGet", "Time"}
      PROVE  FitsReply(ServerMethods[m], ServerType(m))
  <2>1. ServerType(m) = "strings"
    BY DEF ServerType
  <2>2. ServerMethods[m] \in {"Slice", "StringSlice"}
    BY DEF ServerMethods
  <2> QED BY <2>1, <2>2 DEF FitsReply
<1>5. ASSUME NEW m \in {"DbSize", "LastSave"}
      PROVE  FitsReply(ServerMethods[m], ServerType(m))
  <2>1. ServerType(m) = "integer"
    BY DEF ServerType
  <2>2. ServerMethods[m] \in {"Int"}
    BY DEF ServerMethods
  <2> QED BY <2>1, <2>2 DEF FitsReply
<1> QED BY <1>1, <1>2, <1>3, <1>4, <1>5

LEMMA ScriptMethodsFit == \A m \in DOMAIN ScriptMethods : FitsReply(ScriptMethods[m], ServerType(m))
<1>1. DOMAIN ScriptMethods = {"Eval", "EvalSha", "ScriptExists", "ScriptFlush", "ScriptKill", "ScriptLoad",
        "DebugObject", "PubSubChannels", "PubSubNumSub", "PubSubNumPat"}
  BY DEF ScriptMethods
<1>2. ASSUME NEW m \in {"Eval", "EvalSha"}
      PROVE  FitsReply(ScriptMethods[m], ServerType(m))
  <2>1. ServerType(m) = "any"
    BY DEF ServerType
  <2>2. ScriptMethods[m] \in {"Cmd"}
    BY DEF ScriptMethods
  <2> QED BY <2>1, <2>2 DEF FitsReply
<1>3. ASSUME NEW m \in {"ScriptExists"}
      PROVE  FitsReply(ScriptMethods[m], ServerType(m))
  <2>1. ServerType(m) = "integers"
    BY DEF ServerType
  <2>2. ScriptMethods[m] \in {"BoolSlice"}
    BY DEF ScriptMethods
  <2> QED BY <2>1, <2>2 DEF FitsReply
<1>4. ASSUME NEW m \in {"ScriptFlush", "ScriptKill", "DebugObject"}
      PROVE  FitsReply(ScriptMethods[m], ServerType(m))
  <2>1. ServerType(m) = "status"
    BY DEF ServerType
  <2>2. ScriptMethods[m] \in {"Status", "String"}
    BY DEF ScriptMethods
  <2> QED BY <2>1, <2>2 DEF FitsReply
<1>5. ASSUME NEW m \in {"ScriptLoad"}
      PROVE  FitsReply(ScriptMethods[m], ServerType(m))
  <2>1. ServerType(m) = "bulk"
    BY DEF ServerType
  <2>2. ScriptMethods[m] \in {"String"}
    BY DEF ScriptMethods
  <2> QED BY <2>1, <2>2 DEF FitsReply
<1>6. ASSUME NEW m \in {"PubSubChannels"}
      PROVE  FitsReply(ScriptMethods[m], ServerType(m))
  <2>1. ServerType(m) = "strings"
    BY DEF ServerType
  <2>2. ScriptMethods[m] \in {"StringSlice"}
    BY DEF ScriptMethods
  <2> QED BY <2>1, <2>2 DEF FitsReply
<1>7. ASSUME NEW m \in {"PubSubNumSub"}
      PROVE  FitsReply(ScriptMethods[m], ServerType(m))
  <2>1. ServerType(m) = "counts"
    BY DEF ServerType
  <2>2. ScriptMethods[m] \in {"StringIntMap"}
    BY DEF ScriptMethods
  <2> QED BY <2>1, <2>2 DEF FitsReply
<1>8. ASSUME NEW m \in {"PubSubNumPat"}
      PROVE  FitsReply(ScriptMethods[m], ServerType(m))
  <2>1. ServerType(m) = "integer"
    BY DEF ServerType
  <2>2. ScriptMethods[m] \in {"Int"}
    BY DEF ScriptMethods
  <2> QED BY <2>1, <2>2 DEF FitsReply
<1> QED BY <1>1, <1>2, <1>3, <1>4, <1>5, <1>6, <1>7, <1>8

LEMMA MultiMethodsFit == \A m \in DOMAIN MultiMethods : FitsReply(MultiMethods[m], ServerType(m))
<1>1. DOMAIN MultiMethods = {"Watch", "Unwatch"}
  BY DEF MultiMethods
<1>2. ASSUME NEW m \in {"Watch", "Unwatch"}
      PROVE  FitsReply(MultiMethods[m], ServerType(m))
  <2>1. ServerType(m) = "status"
    BY DEF ServerType
  <2>2. MultiMethods[m] \in {"Status"}
    BY DEF MultiMethods
  <2> QED BY <2>1, <2>2 DEF FitsReply
<1> QED BY <1>1, <1>2

LEMMA PublishMethodsFit == \A m \in DOMAIN PublishMethods : FitsReply(PublishMethods[m], ServerType(m))
<1>1. DOMAIN PublishMethods = {"Publish"}
  BY DEF PublishMethods
<1>2. ASSUME NEW m \in {"Publish"}
      PROVE  FitsReply(PublishMethods[m], ServerType(m))
  <2>1. ServerType(m) = "integer"
    BY DEF ServerType
  <2>2. PublishMethods[m] \in {"Int"}
    BY DEF PublishMethods
  <2> QED BY <2>1, <2>2 DEF FitsReply
<1> QED BY <1>1, <1>2

\* Every command object can take what the server answers to its command.
LEMMA CommandsFit == \A m \in Methods : FitsReply(Kind[m], ServerType(m))
<1>1. ASSUME NEW group \in MethodGroups, NEW m \in DOMAIN group
      PROVE  FitsReply(group[m], ServerType(m))
  BY ConnectionMethodsFit, KeyMethodsFit, SortAndScanMethodsFit, BitAndCounterMethodsFit,
     StringMethodsFit, HashMethodsFit, ListMethodsFit, SetMethodsFit, SortedSetMethodsFit,
     RankMethodsFit, ServerMethodsFit, ScriptMethodsFit, MultiMethodsFit, PublishMethodsFit
     DEF MethodGroups
<1>2. ASSUME NEW m \in Methods PROVE FitsReply(Kind[m], ServerType(m))
  <2> DEFINE group == CHOOSE g \in MethodGroups : m \in DOMAIN g
  <2>1. group \in MethodGroups /\ m \in DOMAIN group
    BY DEF Methods
  <2>2. Kind[m] = group[m]
    BY DEF Kind
  <2> HIDE DEF group
  <2> QED BY <1>1, <2>1, <2>2
<1> QED BY <1>2

LEMMA TypeIs == \A m \in Methods : ServerType(m) \in Types /\ (m # "Sort" => ServerType(m) # "sorted")
BY DEF ServerType, Types

LEMMA AnswerIs ==
  ASSUME NEW m \in Methods, NEW id \in Ids, NEW r \in Replies(ServerType(m), id)
  PROVE  /\ Proper(Kind[m], id, r)
         /\ m # "Sort" => Good(Kind[m], id, r)
<1>1. FitsReply(Kind[m], ServerType(m)) /\ ServerType(m) \in Types
  BY CommandsFit, TypeIs
<1>2. CASE ServerType(m) = "sorted"
  BY <1>1, <1>2, TypeIs, SortedProper
<1>3. CASE ServerType(m) # "sorted"
  <2>1. Good(Kind[m], id, r)
    BY <1>1, <1>3, ScalarGood, ArrayGood DEF Types
  <2> QED BY <2>1 DEF Good
<1> QED BY <1>2, <1>3

-----------------------------------------------------------------------------
(* What a command makes of what has arrived. *)

Errs == RedisErrors \cup {"", "bad", "more", "net", "panic"}

\* A reading of s, which begins with the reply r: it stays within r, is whole
\* without an error, and is cut only where s is.
Sound(q, s, r) ==
  /\ q.used \in Nat /\ q.used <= Len(s) /\ q.used <= Len(r) /\ q.err \in Errs \ {"net"}
  /\ q.err = "more" => q.used = Len(s) /\ q.used < Len(r)
  /\ q.err # "more" => q.used > 0
  /\ q.err = "" => q.used = Len(r)

LEMMA TokenErrs ==
  ASSUME NEW s, NEW p, NEW k
  PROVE  TokenErr(s, p, k) \in {"", "redis", "bad", "nil", "panic"}
<1>1. Unplaced(s, p, k) \in {"", "panic"}
  BY DEF Unplaced
<1> QED BY <1>1 DEF TokenErr

LEMMA ParseIs ==
  ASSUME NEW kind, NEW id, NEW r, Proper(kind, id, r), NEW s \in Seq(Tokens), Begins(s, r)
  PROVE  /\ Sound(Parse(kind, s), s, r)
         /\ Served(kind, r) => Parse(kind, s).err # "panic"
         /\ Parse(kind, s).err = "" => TokenErr(r, ParserOf(kind), 1) = ""
<1> DEFINE p == ParserOf(kind)
           q == ParseReply(s, p)
<1>1. Whole(r, p) /\ \A i \in 1..Len(r) : TokenErr(r, p, i) # "panic"
  BY DEF Proper
<1>2. r \in Seq(Tokens) /\ Len(r) \in Nat /\ Len(s) \in Nat
  BY <1>1 DEF Whole
<1> HIDE DEF p, q
<1>3. /\ q = [used |-> q.used, err |-> q.err, got |-> q.got]
      /\ Sound(q, s, r) /\ q.err # "panic"
      /\ q.err = "" => TokenErr(r, p, 1) = "" /\ q.got = IF r[1].t = "*" THEN p ELSE r[1].t
  <2>1. CASE Len(s) < Len(r) /\ q = Result(Len(s), "more", "")
    <3>1. q.used = Len(s) /\ q.err = "more" /\ q = [used |-> q.used, err |-> q.err, got |-> q.got]
      BY <2>1 DEF Result
    <3>2. q.used \in Nat /\ q.used <= Len(s) /\ q.used < Len(r) /\ q.used <= Len(r)
      <4>1. q.used = Len(s)
        BY <3>1
      <4>2. Len(s) < Len(r)
        BY <2>1
      <4> QED BY <1>2, <4>1, <4>2
    <3>3. q.err \in Errs \ {"net"} /\ q.err # "" /\ q.err # "panic"
      BY <3>1 DEF Errs
    <3> QED BY <3>1, <3>2, <3>3, Zenon DEF Sound
  <2>2. CASE Parsed(r, p, q) /\ q.used <= Len(s)
    <3>1. PICK k \in 1..Len(r) : /\ \A j \in 1..k - 1 : TokenErr(r, p, j) = ""
                                 /\ TokenErr(r, p, k) = "" => k = Len(r)
                                 /\ q = Result(k, TokenErr(r, p, k), Got(r, p, k))
      BY <2>2, Zenon DEF Parsed
    <3>2. q.used = k /\ q.err = TokenErr(r, p, k) /\ q.got = Got(r, p, k)
      BY <3>1 DEF Result
    <3>3. q = [used |-> q.used, err |-> q.err, got |-> q.got]
      BY <3>1 DEF Result
    <3>4. q.err \in {"", "redis", "bad", "nil", "panic"} /\ q.err # "panic"
      BY <1>1, <3>2, TokenErrs
    <3>5. k \in Nat /\ k > 0 /\ k <= Len(r)
      BY <1>2
    <3>6. Sound(q, s, r)
      <4>1. q.err \in Errs \ {"net"} /\ q.err # "more"
        BY <3>4 DEF Errs, RedisErrors
      <4> QED BY <2>2, <3>1, <3>2, <3>5, <4>1 DEF Sound
    <3>7. ASSUME q.err = "" PROVE TokenErr(r, p, 1) = "" /\ q.got = IF r[1].t = "*" THEN p ELSE r[1].t
      <4>1. TokenErr(r, p, 1) = ""
        <5>1. k = 1 \/ 1 \in 1..k - 1
          BY <3>5
        <5> QED BY <3>1, <3>2, <3>7, <5>1
      <4>2. q.got = IF r[1].t = "*" THEN p ELSE r[1].t
        BY <3>2, <3>7, Zenon DEF Got
      <4> QED BY <4>1, <4>2
    <3> QED BY <3>3, <3>4, <3>6, <3>7
  <2> QED BY <1>1, <2>1, <2>2, NeverBeyond DEF q
<1>4. CASE q.err = "" /\ q.got \notin Want(kind)
  <2>1. ~(kind = "Float" /\ q.err = "" /\ q.got \in Str \ {"#"})
    BY <1>4, ParsersAre
  <2>5. Parse(kind, s) = [q EXCEPT !.err = "panic"]
    BY <1>4, <2>1, Zenon DEF Parse, p, q
  <2>2. Parse(kind, s).used = q.used /\ Parse(kind, s).err = "panic"
    BY <1>3, <2>5
  <2>3. Sound(Parse(kind, s), s, r)
    BY <1>3, <1>4, <2>2 DEF Sound, Errs
  <2>4. ~ Served(kind, r)
    BY <1>3, <1>4, Zenon DEF Served, p
  <2> QED BY <2>2, <2>3, <2>4
<1>5. CASE ~(q.err = "" /\ q.got \notin Want(kind)) /\ kind = "Float" /\ q.err = "" /\ q.got \in Str \ {"#"}
  <2>1. Parse(kind, s) = [q EXCEPT !.err = "bad"]
    BY <1>5, Zenon DEF Parse, p, q
  <2>2. Parse(kind, s).used = q.used /\ Parse(kind, s).err = "bad"
    BY <1>3, <2>1
  <2>3. Sound(Parse(kind, s), s, r)
    BY <1>3, <1>5, <2>2 DEF Sound, Errs
  <2> QED BY <2>2, <2>3
<1>6. CASE ~(q.err = "" /\ q.got \notin Want(kind)) /\ ~(kind = "Float" /\ q.err = "" /\ q.got \in Str \ {"#"})
  <2>1. Parse(kind, s) = q
    BY <1>6, Zenon DEF Parse, p, q
  <2> QED BY <1>3, <2>1 DEF p
<1> QED BY <1>4, <1>5, <1>6

(* Each method parses every reply to its command to the last token and      *)
(* without a panic, and takes a part of it for nothing but incomplete; only *)
(* a SORT and an array with an error inside may be left (parser.go:112-294, *)
(* command.go:132-630).                                                     *)
THEOREM RepliesParsed ==
  \A m \in Methods, id \in Ids : \A reply \in Replies(ServerType(m), id) : ReplyParsed(m, reply)
<1> SUFFICES ASSUME NEW m \in Methods, NEW id \in Ids, NEW r \in Replies(ServerType(m), id),
                    ~ Abandons(m, r)
             PROVE  /\ Parse(Kind[m], r).err # "panic" /\ Parse(Kind[m], r).used = Len(r)
                    /\ \A k \in 0..Len(r) - 1 : Parse(Kind[m], SubSeq(r, 1, k)).err = "more"
  BY DEF ReplyParsed
<1> DEFINE kind == Kind[m]
           p == ParserOf(kind)
<1>1. Proper(kind, id, r) /\ Served(kind, r) /\ Smooth(kind, r)
  BY AnswerIs DEF Abandons, Good
<1>2. Whole(r, p) /\ r \in Seq(Tokens) /\ Len(r) \in Nat
  BY <1>1 DEF Proper, Whole
<1>3. \A j \in 1..Len(r) - 1 : TokenErr(r, p, j) = ""
  <2>1. \A i \in 2..Len(r) : r[i].t # "-"
    BY DEF Abandons
  <2> QED BY <1>1, <2>1, Zenon DEF Smooth
<1> HIDE DEF kind, p
<1>4. Begins(r, r)
  BY DEF Begins
<1>5. Parse(kind, r).err # "panic"
  BY <1>1, <1>2, <1>4, ParseIs
<1>6. Parse(kind, r).used = ParseReply(r, p).used
  <2>1. \/ Parse(kind, r) = ParseReply(r, p)
        \/ Parse(kind, r) = [ParseReply(r, p) EXCEPT !.err = "bad"]
        \/ Parse(kind, r) = [ParseReply(r, p) EXCEPT !.err = "panic"]
    <3> DEFINE q == ParseReply(r, p)
    <3>1. CASE q.err = "" /\ q.got \notin Want(kind)
      <4>1. ~(kind = "Float" /\ q.err = "" /\ q.got \in Str \ {"#"})
        BY <3>1, ParsersAre
      <4> QED BY <3>1, <4>1, Zenon DEF Parse, p
    <3>2. CASE kind = "Float" /\ q.err = "" /\ q.got \in Str \ {"#"}
      <4>1. ~(q.err = "" /\ q.got \notin Want(kind))
        BY <3>2, ParsersAre
      <4> QED BY <3>2, <4>1, Zenon DEF Parse, p
    <3>3. CASE /\ ~(q.err = "" /\ q.got \notin Want(kind))
               /\ ~(kind = "Float" /\ q.err = "" /\ q.got \in Str \ {"#"})
      BY <3>3, Zenon DEF Parse, p
    <3> QED BY <3>1, <3>2, <3>3
  <2>2. \E k, e, g : ParseReply(r, p) = Result(k, e, g)
    BY <1>2, <1>4, NeverBeyond, Zenon DEF Parsed
  <2> QED BY <2>1, <2>2 DEF Result
<1>7. ParseReply(r, p).used = Len(r)
  <2>1. PICK k \in 1..Len(r) : /\ TokenErr(r, p, k) = "" => k = Len(r)
                               /\ ParseReply(r, p) = Result(k, TokenErr(r, p, k), Got(r, p, k))
    <3>1. ~(Len(r) < Len(r))
      BY <1>2
    <3>2. Parsed(r, p, ParseReply(r, p))
      BY <1>2, <1>4, <3>1, NeverBeyond
    <3> QED BY <3>2, Zenon DEF Parsed
  <2>2. k \notin 1..Len(r) - 1
    <3>1. SUFFICES ASSUME k \in 1..Len(r) - 1 PROVE FALSE
      OBVIOUS
    <3>2. k = Len(r)
      BY <1>3, <2>1, <3>1
    <3> QED BY <1>2, <3>1, <3>2
  <2>3. k = Len(r)
    BY <1>2, <2>2
  <2> QED BY <2>1, <2>3 DEF Result
<1>8. ASSUME NEW k \in 0..Len(r) - 1 PROVE Parse(kind, SubSeq(r, 1, k)).err = "more"
  <2> DEFINE s == SubSeq(r, 1, k)
  <2>1. s \in Seq(Tokens) /\ Len(s) = k /\ \A i \in 1..k : s[i] = r[i]
    BY <1>2
  <2> HIDE DEF s
  <2>2. Begins(s, r)
    BY <2>1 DEF Begins
  <2>3. ParseReply(s, p) = Result(Len(s), "more", "")
    <3>1. SUFFICES ASSUME Parsed(r, p, ParseReply(s, p)), ParseReply(s, p).used <= Len(s)
                   PROVE  FALSE
      BY <1>2, <2>1, <2>2, NeverBeyond
    <3>2. PICK j \in 1..Len(r) : /\ TokenErr(r, p, j) = "" => j = Len(r)
                                 /\ ParseReply(s, p) = Result(j, TokenErr(r, p, j), Got(r, p, j))
      BY <3>1, Zenon DEF Parsed
    <3>3. j <= Len(s)
      <4>1. ParseReply(s, p).used = j
        <5>1. Result(j, TokenErr(r, p, j), Got(r, p, j)).used = j
          BY DEF Result
        <5> QED BY <3>2, <5>1, Zenon
      <4> QED BY <3>1, <4>1
    <3>4. j \in 1..Len(r) - 1
      BY <1>2, <2>1, <3>3
    <3>5. j = Len(r)
      BY <1>3, <3>2, <3>4
    <3> QED BY <1>2, <3>4, <3>5
  <2>4. ParseReply(s, p).err = "more"
    <3>1. Result(Len(s), "more", "").err = "more"
      BY DEF Result
    <3> QED BY <2>3, <3>1, Zenon
  <2>5. Parse(kind, s) = ParseReply(s, p)
    <3>1. "more" # ""
      OBVIOUS
    <3> QED BY <2>4, <3>1, Zenon DEF Parse, p
  <2> QED BY <2>4, <2>5, Zenon DEF s
<1> QED BY <1>5, <1>6, <1>7, <1>8 DEF kind

Kinds == {Kind[m] : m \in Methods} \cup {"header", "Status"}
Reads ==
  [id : Ids, cmd : Methods \cup {"Status", "header"}, kind : Kinds, then : {"stop", "go", "close"}]

Connection ==
  [stream : Seq(Tokens), watch : {"no", "yes", "forgot"}, sub : BOOLEAN,
   owes : {"", "line", "unread", "net", "hidden", "cut"}]
Session ==
  [mode : {"out", "client", "multi", "pubsub"}, single : Conns \cup {None}, cn : Conns \cup {None},
   reads : Seq(Reads), err : Errs, queueing : BOOLEAN]

TypeOK ==
  /\ conn \in [Conns -> Connection] /\ idle \subseteq Conns
  /\ client \in [Clients -> Session] /\ sent \in Nat

\* The replies that the server may give to the command of a read.
Answers(e) == {r \in Replies(ServerType(e.cmd), e.id) : e.cmd \in Methods /\ e.kind = Kind[e.cmd]}

\* What is on a connection that owes nothing, by what is still to be read: the
\* last reply, the two of a pipeline, and those of a transaction from its end
\* to its start.
LastDue(reads, s, watch) ==
  /\ Len(reads) = 1 /\ s \in Answers(reads[1])
  /\ reads[1].then = "close" =>
       /\ reads[1].kind \in {"Status", "String"}
       /\ s \in {Simple(reads[1].id, "+"), Simple(reads[1].id, "-")}
       /\ s[1].t = "+" => watch # "yes"
PipeDue(reads, s) ==
  /\ Len(reads) = 2 /\ reads[1].then = "go" /\ reads[2].then = "go"
  /\ \E r \in Answers(reads[1]), q \in Answers(reads[2]) : s = r \o q
ExecDue(reads, s) ==
  /\ Len(reads) = 2 /\ reads[1].kind = "header" /\ reads[1].then = "stop" /\ reads[2].then = "go"
  /\ \/ s \in {Simple(reads[1].id, "nil"), Simple(reads[1].id, "-")}
     \/ \E r \in Answers(reads[2]) : s = <<Token(reads[1].id, "*", 1)>> \o r
StatusDue(reads, s, t) ==
  /\ reads # <<>> /\ reads[1].kind = "Status" /\ reads[1].then = "stop"
  /\ s # <<>> /\ s[1] = Token(reads[1].id, t, 0)
QueuedDue(reads, s) ==
  /\ Len(reads) = 3
  /\ \/ StatusDue(reads, s, "-") /\ Tail(s) = Simple(reads[2].id, "-")
     \/ StatusDue(reads, s, "+") /\ ExecDue(Tail(reads), Tail(s))
MultiDue(reads, s) ==
  /\ Len(reads) = 4 /\ StatusDue(reads, s, "+") /\ QueuedDue(Tail(reads), Tail(s))

Due(reads, s, watch) ==
  \/ LastDue(reads, s, watch) \/ PipeDue(reads, s) \/ ExecDue(reads, s)
  \/ QueuedDue(reads, s) \/ MultiDue(reads, s)

\* What a subscriber is sent: whole arrays of three.
Pushed(s) ==
  \E m \in 0..Len(s) :
    /\ Len(s) = 4 * m
    /\ \A j \in 0..m - 1 :
         /\ s[4 * j + 1] = Token(Unasked, "*", 3)
         /\ \A i \in 2..4 : s[4 * j + i] \in {Token(Unasked, "$", 0), Token(Unasked, ":", 0)}

\* A connection x that nothing is read from, in the pool or in a Multi.
RestOK(x) == ~x.sub /\ x.owes \notin {"net", "cut"} /\ (x.owes = "" => x.stream = <<>>)
IdleOK(x) == RestOK(x) /\ (x.owes = "" => x.watch # "yes")

\* x is that of a PubSub, or of an operation that is not over.
SubOK(k, x) ==
  /\ x.owes = "" => Pushed(x.stream)
  /\ x.owes # "net"
  /\ k.err = "panic" => x.owes # ""
ReadOK(k, x) ==
  /\ ~x.sub /\ x.owes # "cut"
  /\ k.mode = "client" /\ x.owes = "" => x.watch # "yes"
  /\ k.err = "panic" => x.owes # "" \/ Head(k.reads).cmd = "Sort"
  /\ k.err # "panic" /\ x.owes = "net" => k.err = "net"
  /\ k.err # "panic" /\ x.owes = "" => Due(k.reads, x.stream, x.watch)

Between(k, x) ==
  /\ k.cn = None
  /\ k.mode \in {"out", "client"} => k.single = None
  /\ k.mode = "out" => k = Outside
  /\ k.err = "panic" => k.mode = "pubsub" /\ k.single # None
  /\ k.mode = "multi" /\ k.single # None => RestOK(x)
  /\ k.mode = "pubsub" /\ k.single # None => SubOK(k, x)
Amid(k, x) ==
  /\ k.mode \in {"client", "multi"} /\ k.cn # None
  /\ k.single = IF k.mode = "client" THEN None ELSE k.cn
  /\ ReadOK(k, x)
SessionOK(k, x) == IF k.reads = <<>> THEN Between(k, x) ELSE Amid(k, x)

Hands(k) == {k.cn, k.single} \ {None}

\* No connection is in two places, no session has two, and one that reads or
\* has panicked has one.
Apart ==
  /\ \A c \in Clients : client[c].reads # <<>> => client[c].cn # None
  /\ \A c \in Clients : client[c].err = "panic" => Hands(client[c]) # {}
  /\ \A c \in Clients : \A i, j \in Hands(client[c]) : i = j
  /\ \A c, d \in Clients : c # d => Hands(client[c]) \cap Hands(client[d]) = {}
  /\ \A c \in Clients : Hands(client[c]) \cap idle = {}

Forgotten == \A n \in Conns : n \notin idle /\ (\A c \in Clients : n \notin Hands(client[c])) => conn[n] = Fresh
Idling == \A n \in idle : IdleOK(conn[n])
Sessions == \A c \in Clients : \A n \in Conns : Hands(client[c]) \subseteq {n} => SessionOK(client[c], conn[n])

IInv == TypeOK /\ Apart /\ Forgotten /\ Idling /\ Sessions

-----------------------------------------------------------------------------
(* A step of one goroutine on one connection. *)

LEMMA FreshIs == Fresh \in Connection /\ IdleOK(Fresh) /\ Fresh.stream = <<>>
<1>1. Fresh \in Connection
  BY DEF Fresh, Connection
<1> QED BY <1>1 DEF Fresh, IdleOK, RestOK

LEMMA OutsideIs == Outside \in Session /\ Hands(Outside) = {} /\ \A x : SessionOK(Outside, x)
<1>1. Outside \in Session
  BY DEF Outside, Session, Errs
<1>2. Hands(Outside) = {}
  BY DEF Outside, Hands
<1>3. \A x : SessionOK(Outside, x)
  BY DEF SessionOK, Between, Outside
<1> QED BY <1>1, <1>2, <1>3

\* Of a connection that is not there nothing is said.
LEMMA Handless ==
  ASSUME NEW k, NEW x, NEW y, Hands(k) = {}, SessionOK(k, x)
  PROVE  SessionOK(k, y)
<1>1. k.cn = None /\ k.single = None
  BY DEF Hands
<1> QED BY <1>1, Zenon DEF SessionOK, Between, Amid

LEMMA Frame ==
  ASSUME IInv, NEW c \in Clients, NEW n \in Conns, NEW k \in Session, NEW x \in Connection,
         \A d \in Clients \ {c} : n \notin Hands(client[d]),
         Hands(client[c]) \subseteq {n}, Hands(k) \subseteq {n},
         client' = [client EXCEPT ![c] = k], conn' = [conn EXCEPT ![n] = x],
         idle' \subseteq idle \cup {n}, idle \ {n} \subseteq idle', sent' \in Nat,
         n \in idle' => IdleOK(x) /\ Hands(k) = {},
         n \notin idle' /\ Hands(k) = {} => x = Fresh,
         SessionOK(k, x)
  PROVE  IInv'
<1>1. /\ \A d \in Clients : client'[d] = IF d = c THEN k ELSE client[d]
      /\ \A j \in Conns : conn'[j] = IF j = n THEN x ELSE conn[j]
  BY DEF IInv, TypeOK
<1>2. TypeOK'
  BY DEF IInv, TypeOK
<1>3. Apart'
  <2>1. ASSUME NEW d \in Clients, NEW e \in Clients, d # e
        PROVE  Hands(client'[d]) \cap Hands(client'[e]) = {}
    BY <1>1, <2>1 DEF IInv, Apart
  <2>2. ASSUME NEW d \in Clients PROVE Hands(client'[d]) \cap idle' = {}
    <3>1. CASE d = c
      BY <1>1, <3>1
    <3>2. CASE d # c
      BY <1>1, <3>2 DEF IInv, Apart
    <3> QED BY <3>1, <3>2
  <2>3. ASSUME NEW d \in Clients PROVE \A i, j \in Hands(client'[d]) : i = j
    BY <1>1 DEF IInv, Apart
  <2>4. ASSUME NEW d \in Clients, client'[d].reads # <<>> PROVE client'[d].cn # None
    BY <1>1, <2>4 DEF IInv, Apart, SessionOK, Amid
  <2>5. ASSUME NEW d \in Clients, client'[d].err = "panic" PROVE Hands(client'[d]) # {}
    <3>1. CASE d = c
      <4>1. k.cn # None \/ k.single # None
        BY <1>1, <2>5, <3>1 DEF SessionOK, Between, Amid
      <4> QED BY <1>1, <3>1, <4>1 DEF Hands
    <3>2. CASE d # c
      BY <1>1, <2>5, <3>2 DEF IInv, Apart
    <3> QED BY <3>1, <3>2
  <2> QED BY <2>1, <2>2, <2>3, <2>4, <2>5 DEF Apart
<1>4. Forgotten'
  <2>1. SUFFICES ASSUME NEW j \in Conns, j \notin idle',
                        \A d \in Clients : j \notin Hands(client'[d])
                 PROVE  conn'[j] = Fresh
    BY DEF Forgotten
  <2>2. CASE j = n
    <3>1. Hands(k) = {}
      BY <1>1, <2>1, <2>2
    <3> QED BY <1>1, <2>1, <2>2, <3>1
  <2>3. CASE j # n
    <3>1. j \notin idle
      BY <2>1, <2>3
    <3>2. ASSUME NEW d \in Clients PROVE j \notin Hands(client[d])
      BY <1>1, <2>1, <2>3
    <3> QED BY <1>1, <2>3, <3>1, <3>2 DEF IInv, Forgotten
  <2> QED BY <2>2, <2>3
<1>5. Idling'
  <2>1. SUFFICES ASSUME NEW j \in idle' PROVE IdleOK(conn'[j])
    BY DEF Idling
  <2>2. j \in Conns
    BY DEF IInv, TypeOK
  <2>3. CASE j = n
    BY <1>1, <2>2, <2>3
  <2>4. CASE j # n
    <3>1. j \in idle /\ conn'[j] = conn[j]
      BY <1>1, <2>2, <2>4
    <3> QED BY <3>1 DEF IInv, Idling
  <2> QED BY <2>3, <2>4
<1>6. Sessions'
  <2>1. SUFFICES ASSUME NEW d \in Clients, NEW j \in Conns, Hands(client'[d]) \subseteq {j}
                 PROVE  SessionOK(client'[d], conn'[j])
    BY DEF Sessions
  <2>2. CASE d = c
    <3>1. CASE j = n
      BY <1>1, <2>2, <3>1
    <3>2. CASE j # n
      <4>1. Hands(k) = {}
        BY <1>1, <2>1, <2>2, <3>2
      <4> QED BY <1>1, <2>2, <4>1, Handless
    <3> QED BY <3>1, <3>2
  <2>3. CASE d # c
    <3>1. client'[d] = client[d] /\ n \notin Hands(client[d]) /\ Hands(client[d]) \subseteq {j}
      BY <1>1, <2>1, <2>3
    <3>2. SessionOK(client[d], conn[j])
      BY <3>1 DEF IInv, Sessions
    <3>3. CASE j # n
      BY <1>1, <3>1, <3>2, <3>3
    <3>4. CASE j = n
      <4>1. Hands(client[d]) = {}
        BY <3>1, <3>4
      <4> QED BY <3>1, <3>2, <4>1, Handless
    <3> QED BY <3>3, <3>4
  <2> QED BY <2>2, <2>3
<1> QED BY <1>2, <1>3, <1>4, <1>5, <1>6 DEF IInv

\* A step that leaves the connections and where they are.
LEMMA FrameKept ==
  ASSUME IInv, NEW c \in Clients, NEW k \in Session, UNCHANGED <<conn, idle, sent>>,
         client' = [client EXCEPT ![c] = k], Hands(k) = Hands(client[c]),
         k.reads = <<>>, k.err # "panic",
         \A n \in Conns : Hands(k) \subseteq {n} => SessionOK(k, conn[n])
  PROVE  IInv'
<1>1. \A d \in Clients : client'[d] = IF d = c THEN k ELSE client[d]
  BY DEF IInv, TypeOK
<1>2. \A d \in Clients : Hands(client'[d]) = Hands(client[d])
  BY <1>1
<1>3. TypeOK'
  BY DEF IInv, TypeOK
<1>4. Apart' /\ Forgotten' /\ Idling'
  <2>1. Apart'
    <3>1. \A d \in Clients : client'[d].reads # <<>> => client'[d].cn # None
      BY <1>1 DEF IInv, Apart
    <3>2. \A d \in Clients : client'[d].err = "panic" => Hands(client[d]) # {}
      BY <1>1 DEF IInv, Apart
    <3>3. idle' = idle
      OBVIOUS
    <3> QED BY <1>2, <3>1, <3>2, <3>3, Zenon DEF IInv, Apart
  <2>2. Forgotten'
    BY <1>2 DEF IInv, Forgotten
  <2>3. Idling'
    BY DEF IInv, Idling
  <2> QED BY <2>1, <2>2, <2>3
<1>5. Sessions'
  BY <1>1 DEF IInv, Sessions
<1> QED BY <1>3, <1>4, <1>5 DEF IInv

\* A session that reads nothing.
LEMMA Rests ==
  ASSUME IInv, NEW c \in Clients, client[c].reads = <<>>
  PROVE  /\ client[c] \in Session /\ client[c].cn = None
         /\ Hands(client[c]) = {client[c].single} \ {None} /\ Hands(client[c]) \subseteq Conns
         /\ \A n \in Conns : Hands(client[c]) \subseteq {n} => Between(client[c], conn[n])
<1>1. client[c] \in Session
  BY DEF IInv, TypeOK
<1>2. \A n \in Conns : Hands(client[c]) \subseteq {n} => Between(client[c], conn[n])
  BY DEF IInv, Sessions, SessionOK
<1>3. client[c].cn \in Conns \cup {None} /\ client[c].single \in Conns \cup {None}
  BY <1>1 DEF Session
<1>4. client[c].cn = None
  <2>1. SUFFICES ASSUME client[c].cn # None PROVE FALSE
    OBVIOUS
  <2>2. client[c].cn \in Conns /\ Hands(client[c]) \subseteq {client[c].cn}
    <3>1. \A i, j \in Hands(client[c]) : i = j
      BY DEF IInv, Apart
    <3>2. client[c].cn \in Conns /\ client[c].cn \in Hands(client[c])
      BY <1>3, <2>1 DEF Hands
    <3> QED BY <3>1, <3>2
  <2> QED BY <1>2, <2>1, <2>2 DEF Between
<1>5. Hands(client[c]) = {client[c].single} \ {None} /\ Hands(client[c]) \subseteq Conns
  BY <1>3, <1>4 DEF Hands
<1> QED BY <1>1, <1>2, <1>4, <1>5

\* What a goroutine finds when it begins an operation.
LEMMA AvailableIs ==
  ASSUME IInv, NEW c \in Clients, NEW mode \in {"client", "multi", "pubsub"}, Ready(c, mode),
         NEW n \in Available(c)
  PROVE  /\ n \in Conns /\ Hands(client[c]) \subseteq {n} /\ client[c].cn = None
         /\ \A d \in Clients \ {c} : n \notin Hands(client[d])
         /\ mode # "pubsub" => RestOK(conn[n])
         /\ mode = "client" => IdleOK(conn[n]) /\ client[c].single = None
         /\ mode = "pubsub" => conn[n].owes # "net" /\ (conn[n].owes = "" => Pushed(conn[n].stream))
<1>1. client[c].mode = mode /\ client[c].reads = <<>>
  BY DEF Ready
<1>2. /\ client[c] \in Session /\ client[c].cn = None
      /\ Hands(client[c]) = {client[c].single} \ {None} /\ Hands(client[c]) \subseteq Conns
      /\ \A i \in Conns : Hands(client[c]) \subseteq {i} => Between(client[c], conn[i])
  BY <1>1, Rests
<1>3. Pushed(<<>>)
  <2>1. 0 \in 0..Len(<<>>) /\ Len(<<>>) = 4 * 0 /\ \A j \in 0..0 - 1 : FALSE
    OBVIOUS
  <2> QED BY <2>1, Zenon DEF Pushed
<1>4. CASE client[c].single # None
  <2>1. n = client[c].single /\ n \in Conns /\ Hands(client[c]) = {n}
    BY <1>2, <1>4 DEF Available
  <2>2. Between(client[c], conn[n])
    BY <1>2, <2>1
  <2>3. mode # "client" /\ (mode = "multi" => RestOK(conn[n])) /\ (mode = "pubsub" => SubOK(client[c], conn[n]))
    BY <1>1, <1>4, <2>2 DEF Between
  <2>4. \A d \in Clients \ {c} : n \notin Hands(client[d])
    BY <2>1 DEF IInv, Apart
  <2> QED BY <1>2, <2>1, <2>3, <2>4 DEF SubOK
<1>5. CASE client[c].single = None
  <2>1. Hands(client[c]) = {}
    BY <1>2, <1>5
  <2>2. n \in Conns /\ IdleOK(conn[n]) /\ \A d \in Clients \ {c} : n \notin Hands(client[d])
    <3>1. CASE idle # {}
      <4>1. n \in idle
        BY <1>5, <3>1 DEF Available
      <4> QED BY <4>1 DEF IInv, TypeOK, Idling, Apart
    <3>2. CASE idle = {}
      <4>1. n \in Unused
        BY <1>5, <3>2 DEF Available
      <4>2. n \in Conns /\ n \notin idle /\ \A d \in Clients : n \notin Hands(client[d])
        BY <4>1 DEF Unused, InUse, Hands
      <4>3. conn[n] = Fresh
        BY <4>2 DEF IInv, Forgotten
      <4> QED BY <4>2, <4>3, FreshIs
    <3> QED BY <3>1, <3>2
  <2>3. RestOK(conn[n]) /\ conn[n].owes # "net" /\ (conn[n].owes = "" => Pushed(conn[n].stream))
    BY <1>3, <2>2 DEF IdleOK, RestOK
  <2> QED BY <1>2, <1>5, <2>1, <2>2, <2>3
<1> QED BY <1>4, <1>5

-----------------------------------------------------------------------------
(* The operations that write. *)

LEMMA NextNat == \A i \in Nat : i + 1 \in Nat
OBVIOUS

LEMMA Sending ==
  ASSUME IInv, NEW c \in Clients, NEW mode \in {"client", "multi"}, Ready(c, mode),
         NEW n \in Available(c), NEW reads \in Seq(Reads), reads # <<>>, NEW replies \in Seq(Tokens),
         NEW watch \in {"no", "yes", "forgot"}, mode = "client" => watch = conn[n].watch,
         Send(c, n, reads, replies, [conn[n] EXCEPT !.watch = watch]),
         conn[n].owes = "" => Due(reads, replies, watch)
  PROVE  IInv'
<1> DEFINE x == [[conn[n] EXCEPT !.watch = watch] EXCEPT !.stream = @ \o replies]
           k == [client[c] EXCEPT !.cn = n, !.single = IF client[c].mode = "client" THEN None ELSE n,
                                  !.reads = reads, !.err = ""]
<1>1. client[c] \in Session /\ client[c].mode = mode
  BY DEF IInv, TypeOK, Ready
<1>2. /\ n \in Conns /\ Hands(client[c]) \subseteq {n} /\ \A d \in Clients \ {c} : n \notin Hands(client[d])
      /\ RestOK(conn[n]) /\ (mode = "client" => IdleOK(conn[n]))
  <2>1. CASE mode = "client"
    BY <2>1, AvailableIs
  <2>2. CASE mode = "multi"
    BY <2>2, AvailableIs
  <2> QED BY <2>1, <2>2
<1>3. n # None
  BY <1>2, ClientAssumption DEF None
<1>4. conn[n] \in Connection
  BY <1>2 DEF IInv, TypeOK
<1>5. /\ conn' = [conn EXCEPT ![n] = x] /\ client' = [client EXCEPT ![c] = k]
      /\ idle' = idle \ {n} /\ sent' = sent + 1
  BY <1>1 DEF Send
<1>6. /\ k \in Session /\ k.mode = mode /\ k.cn = n /\ k.single = (IF mode = "client" THEN None ELSE n)
      /\ k.reads = reads /\ k.err = ""
  BY <1>1, <1>2 DEF Session, Errs
<1>7. /\ x \in Connection /\ x.watch = watch /\ x.sub = conn[n].sub /\ x.owes = conn[n].owes
      /\ x.stream = conn[n].stream \o replies
  <2>1. conn[n].stream \o replies \in Seq(Tokens)
    <3>1. conn[n].stream \in Seq(Tokens)
      BY <1>4 DEF Connection
    <3> QED BY <3>1, ConcatProperties, Zenon
  <2> QED BY <1>4, <2>1 DEF Connection
<1> HIDE DEF x, k
<1>8. Hands(k) = {n}
  BY <1>3, <1>6 DEF Hands
<1>9. SessionOK(k, x)
  <2>1. x.owes = "" => x.stream = replies
    <3>1. conn[n].owes = "" => conn[n].stream = <<>>
      BY <1>2 DEF RestOK
    <3>2. <<>> \o replies = replies
      BY ConcatEmptySeq, Zenon
    <3> QED BY <1>7, <3>1, <3>2
  <2>2. ReadOK(k, x)
    BY <1>2, <1>6, <1>7, <2>1 DEF ReadOK, RestOK, IdleOK
  <2>3. Amid(k, x)
    BY <1>3, <1>6, <2>2 DEF Amid
  <2> QED BY <1>6, <2>3 DEF SessionOK
<1>10. sent' \in Nat
  <2>1. sent \in Nat
    BY DEF IInv, TypeOK
  <2>2. sent' = sent + 1
    BY <1>5
  <2> QED BY <2>1, <2>2, Zenon, NextNat
<1> QED BY <1>2, <1>5, <1>6, <1>7, <1>8, <1>9, <1>10, Frame

LEMMA NoMethods == "Status" \notin Methods /\ "header" \notin Methods
<1>1. ASSUME NEW m \in {"Status", "header"}
      PROVE  /\ m \notin DOMAIN ConnectionMethods /\ m \notin DOMAIN KeyMethods
             /\ m \notin DOMAIN SortAndScanMethods /\ m \notin DOMAIN BitAndCounterMethods
             /\ m \notin DOMAIN StringMethods /\ m \notin DOMAIN HashMethods
             /\ m \notin DOMAIN ListMethods /\ m \notin DOMAIN SetMethods
             /\ m \notin DOMAIN SortedSetMethods /\ m \notin DOMAIN RankMethods
             /\ m \notin DOMAIN ServerMethods /\ m \notin DOMAIN ScriptMethods
             /\ m \notin DOMAIN MultiMethods /\ m \notin DOMAIN PublishMethods
  <2>1. m \notin DOMAIN ConnectionMethods /\ m \notin DOMAIN KeyMethods
    BY DEF ConnectionMethods, KeyMethods
  <2>2. m \notin DOMAIN SortAndScanMethods /\ m \notin DOMAIN BitAndCounterMethods
    BY DEF SortAndScanMethods, BitAndCounterMethods
  <2>3. m \notin DOMAIN StringMethods /\ m \notin DOMAIN HashMethods
    BY DEF StringMethods, HashMethods
  <2>4. m \notin DOMAIN ListMethods /\ m \notin DOMAIN SetMethods
    BY DEF ListMethods, SetMethods
  <2>5. m \notin DOMAIN SortedSetMethods /\ m \notin DOMAIN RankMethods
    BY DEF SortedSetMethods, RankMethods
  <2>6. m \notin DOMAIN ServerMethods /\ m \notin DOMAIN ScriptMethods
    BY DEF ServerMethods, ScriptMethods
  <2>7. m \notin DOMAIN MultiMethods /\ m \notin DOMAIN PublishMethods
    BY DEF MultiMethods, PublishMethods
  <2> QED BY <2>1, <2>2, <2>3, <2>4, <2>5, <2>6, <2>7
<1>2. ASSUME NEW m \in {"Status", "header"} PROVE m \notin Methods
  <2>1. SUFFICES ASSUME NEW group \in MethodGroups PROVE m \notin DOMAIN group
    BY Zenon DEF Methods
  <2> QED BY <1>1, Zenon DEF MethodGroups
<1> QED BY <1>2

LEMMA ExpectIs ==
  ASSUME NEW id, NEW cmd, NEW then
  PROVE  /\ Expect(id, cmd, then).id = id /\ Expect(id, cmd, then).cmd = cmd
         /\ Expect(id, cmd, then).then = then
         /\ cmd \in Methods => Expect(id, cmd, then).kind = Kind[cmd]
         /\ cmd \in {"Status", "header"} => Expect(id, cmd, then).kind = cmd
         /\ id \in Ids /\ cmd \in Methods \cup {"Status", "header"} /\ then \in {"stop", "go", "close"}
              => Expect(id, cmd, then) \in Reads
<1> DEFINE e == Expect(id, cmd, then)
           kind == IF cmd \in {"Status", "header"} THEN cmd ELSE Kind[cmd]
<1>1. e = [id |-> id, cmd |-> cmd, kind |-> kind, then |-> then]
  BY DEF Expect
<1>2. /\ cmd \in Methods => kind = Kind[cmd]
      /\ cmd \in {"Status", "header"} => kind = cmd
  BY NoMethods
<1>3. cmd \in Methods \cup {"Status", "header"} => kind \in Kinds
  BY <1>2 DEF Kinds
<1> HIDE DEF e, kind
<1>4. e.id = id /\ e.cmd = cmd /\ e.kind = kind /\ e.then = then
  BY <1>1
<1>5. id \in Ids /\ cmd \in Methods \cup {"Status", "header"} /\ then \in {"stop", "go", "close"} => e \in Reads
  BY <1>1, <1>3 DEF Reads
<1> QED BY <1>2, <1>4, <1>5 DEF e

LEMMA AnswersAre ==
  ASSUME NEW m \in Methods, NEW id \in Ids, NEW reply \in Replies(ServerType(m), id),
         NEW then \in {"stop", "go", "close"}
  PROVE  /\ Expect(id, m, then) \in Reads
         /\ reply \in Answers(Expect(id, m, then)) /\ reply \in Seq(Tokens)
<1> DEFINE e == Expect(id, m, then)
<1>1. e \in Reads /\ e.id = id /\ e.cmd = m /\ e.kind = Kind[m]
  BY ExpectIs
<1> HIDE DEF e
<1>2. reply \in Answers(e)
  BY <1>1 DEF Answers
<1>3. reply \in Seq(Tokens)
  BY AnswerIs DEF Proper, Whole
<1> QED BY <1>1, <1>2, <1>3 DEF e

LEMMA IdIs == IInv => \A i \in Nat : Id(i) \in Ids
BY DEF IInv, TypeOK, Id, Ids

\* The first of a sequence and the rest.
LEMMA TailIs ==
  ASSUME NEW S, NEW a \in S, NEW s \in Seq(S)
  PROVE  /\ <<a>> \o s \in Seq(S) /\ <<a>> \o s # <<>>
         /\ (<<a>> \o s)[1] = a /\ Tail(<<a>> \o s) = s
OBVIOUS

LEMMA RunInv == ASSUME IInv, NEW c \in Clients, Run(c) PROVE IInv'
<1>1. PICK m \in Cmds, n \in Available(c) : \E reply \in Replies(ServerType(m), Id(1)) :
          Send(c, n, <<Expect(Id(1), m, "stop")>>, reply, conn[n])
  BY DEF Run
<1>2. PICK reply \in Replies(ServerType(m), Id(1)) :
          Send(c, n, <<Expect(Id(1), m, "stop")>>, reply, conn[n])
  BY <1>1
<1> DEFINE e == Expect(Id(1), m, "stop")
<1>3. m \in Methods /\ Id(1) \in Ids
  BY IdIs, ClientAssumption
<1>4. e \in Reads /\ reply \in Answers(e) /\ reply \in Seq(Tokens) /\ e.then = "stop"
  BY <1>3, AnswersAre, ExpectIs
<1>5. Ready(c, "client") /\ n \in Conns
  BY AvailableIs DEF Run
<1>6. conn[n] \in Connection /\ conn[n].watch \in {"no", "yes", "forgot"}
      /\ conn[n] = [conn[n] EXCEPT !.watch = conn[n].watch]
  BY <1>5 DEF IInv, TypeOK, Connection
<1> HIDE DEF e
<1>7. <<e>> \in Seq(Reads) /\ <<e>> # <<>> /\ Len(<<e>>) = 1 /\ <<e>>[1] = e
  BY <1>4
<1>8. Due(<<e>>, reply, conn[n].watch)
  BY <1>4, <1>7 DEF Due, LastDue
<1>9. Send(c, n, <<e>>, reply, [conn[n] EXCEPT !.watch = conn[n].watch])
  BY <1>2, <1>6, Zenon DEF e
<1> QED BY <1>4, <1>5, <1>6, <1>7, <1>8, <1>9, Sending

LEMMA PipelineInv == ASSUME IInv, NEW c \in Clients, Pipeline(c) PROVE IInv'
<1>0. PICK l \in Cmds, m \in Cmds, n \in Available(c) :
          \E r1 \in Replies(ServerType(l), Id(1)), r2 \in Replies(ServerType(m), Id(2)) :
             Send(c, n, <<Piped(Id(1), l), Piped(Id(2), m)>>, r1 \o r2, conn[n])
  BY DEF Pipeline
<1>1. PICK r1 \in Replies(ServerType(l), Id(1)), r2 \in Replies(ServerType(m), Id(2)) :
          Send(c, n, <<Piped(Id(1), l), Piped(Id(2), m)>>, r1 \o r2, conn[n])
  BY <1>0
<1> DEFINE d == Piped(Id(1), l)
           e == Piped(Id(2), m)
           s == r1 \o r2
<1>2. l \in Methods /\ m \in Methods /\ Id(1) \in Ids /\ Id(2) \in Ids
  BY IdIs, ClientAssumption
<1>3. d \in Reads /\ r1 \in Answers(d) /\ r1 \in Seq(Tokens) /\ d.then = "go"
  BY <1>2, AnswersAre, ExpectIs DEF Piped
<1>4. e \in Reads /\ r2 \in Answers(e) /\ r2 \in Seq(Tokens) /\ e.then = "go"
  BY <1>2, AnswersAre, ExpectIs DEF Piped
<1>5. Ready(c, "client") /\ n \in Conns
  BY AvailableIs DEF Pipeline
<1>6. conn[n] \in Connection /\ conn[n].watch \in {"no", "yes", "forgot"}
      /\ conn[n] = [conn[n] EXCEPT !.watch = conn[n].watch]
  BY <1>5 DEF IInv, TypeOK, Connection
<1>7. s \in Seq(Tokens)
  BY <1>3, <1>4, ConcatProperties, Zenon
<1>8. \E r \in Answers(d), q \in Answers(e) : s = r \o q
  BY <1>3, <1>4, Zenon
<1> HIDE DEF d, e, s
<1>9. <<d, e>> \in Seq(Reads) /\ <<d, e>> # <<>> /\ Len(<<d, e>>) = 2 /\ <<d, e>>[1] = d /\ <<d, e>>[2] = e
  BY <1>3, <1>4
<1>10. PipeDue(<<d, e>>, s)
  BY <1>3, <1>4, <1>8, <1>9 DEF PipeDue
<1>11. Due(<<d, e>>, s, conn[n].watch)
  BY <1>10 DEF Due
<1>12. Send(c, n, <<d, e>>, s, [conn[n] EXCEPT !.watch = conn[n].watch])
  BY <1>1, <1>6, Zenon DEF d, e, s
<1> QED BY <1>5, <1>6, <1>7, <1>9, <1>11, <1>12, Sending

\* The server's answer to a command about watched keys.
LEMMA StatusReplies ==
  ASSUME NEW id \in Ids, NEW reply \in Replies("status", id)
  PROVE  /\ reply \in {Simple(id, "+"), Simple(id, "-")} /\ reply \in Seq(Tokens)
         /\ reply[1].t = "+" <=> reply = Simple(id, "+")
<1>1. reply \in {Simple(id, "+"), Simple(id, "-")}
  BY Zenon DEF Replies
<1>2. /\ Simple(id, "+") \in Seq(Tokens) /\ Simple(id, "+")[1].t = "+"
      /\ Simple(id, "-") \in Seq(Tokens) /\ Simple(id, "-")[1].t = "-"
  <2>1. "+" \in Tags /\ "-" \in Tags
    BY DEF Tags, Str
  <2> QED BY <2>1, SimpleIs, TokenIs DEF Whole
<1> QED BY <1>1, <1>2

\* Neither is the status of a Multi's own commands parsed but by parseReply alone.
LEMMA MultiMethodsAre ==
  /\ {"Watch", "Unwatch"} \subseteq Methods
  /\ \A m \in {"Watch", "Unwatch"} : Kind[m] \in {"Status", "String"} /\ ServerType(m) = "status"
<1>1. DOMAIN MultiMethods = {"Watch", "Unwatch"} /\ MultiMethods \in MethodGroups
  BY DEF MultiMethods, MethodGroups
<1>2. {"Watch", "Unwatch"} \subseteq Methods
  BY <1>1 DEF Methods
<1>3. ASSUME NEW m \in {"Watch", "Unwatch"}
      PROVE  Kind[m] \in {"Status", "String"} /\ ServerType(m) = "status"
  <2>1. ServerType(m) = "status"
    BY DEF ServerType
  <2>2. FitsReply(Kind[m], "status")
    BY <1>2, <2>1, CommandsFit
  <2> QED BY <2>1, <2>2 DEF FitsReply
<1> QED BY <1>2, <1>3

LEMMA WatchInv == ASSUME IInv, NEW c \in Clients, Watch(c) PROVE IInv'
<1> DEFINE e == Expect(Id(1), "Watch", "stop")
           now(n, reply) == IF reply[1].t = "+" THEN "yes" ELSE conn[n].watch
<1>1. PICK n \in Available(c), reply \in Replies("status", Id(1)) :
          Send(c, n, <<e>>, reply, [conn[n] EXCEPT !.watch = now(n, reply)])
  BY DEF Watch
<1>2. Id(1) \in Ids /\ Ready(c, "multi") /\ n \in Conns
  BY IdIs, AvailableIs DEF Watch
<1>3. e \in Reads /\ reply \in Answers(e) /\ e.then = "stop"
  BY <1>2, AnswersAre, MultiMethodsAre, ExpectIs
<1>4. reply \in Seq(Tokens)
  BY <1>2, StatusReplies
<1>5. now(n, reply) \in {"no", "yes", "forgot"}
  BY <1>2 DEF IInv, TypeOK, Connection
<1> HIDE DEF e, now
<1>6. <<e>> \in Seq(Reads) /\ <<e>> # <<>> /\ Len(<<e>>) = 1 /\ <<e>>[1] = e
  BY <1>3
<1>7. Due(<<e>>, reply, now(n, reply))
  BY <1>3, <1>6 DEF Due, LastDue
<1> QED BY <1>1, <1>2, <1>4, <1>5, <1>6, <1>7, Sending

LEMMA UnwatchInv == ASSUME IInv, NEW c \in Clients, Unwatch(c) PROVE IInv'
<1> DEFINE e == Expect(Id(1), "Unwatch", "close")
           now(n, reply) == IF reply[1].t = "+" THEN "no" ELSE conn[n].watch
<1>1. PICK n \in Available(c), reply \in Replies("status", Id(1)) :
          Send(c, n, <<e>>, reply, [conn[n] EXCEPT !.watch = now(n, reply)])
  BY DEF Unwatch
<1>2. Id(1) \in Ids /\ Ready(c, "multi") /\ n \in Conns
  BY IdIs, AvailableIs DEF Unwatch
<1>3. /\ e \in Reads /\ reply \in Answers(e) /\ e.id = Id(1)
      /\ e.kind \in {"Status", "String"}
  BY <1>2, AnswersAre, MultiMethodsAre, ExpectIs
<1>4. reply \in Seq(Tokens) /\ reply \in {Simple(e.id, "+"), Simple(e.id, "-")}
  BY <1>2, <1>3, StatusReplies
<1>5. now(n, reply) \in {"no", "yes", "forgot"} /\ (reply[1].t = "+" => now(n, reply) # "yes")
  BY <1>2 DEF IInv, TypeOK, Connection
<1> HIDE DEF e, now
<1>6. <<e>> \in Seq(Reads) /\ <<e>> # <<>> /\ Len(<<e>>) = 1 /\ <<e>>[1] = e
  BY <1>3
<1>7. Due(<<e>>, reply, now(n, reply))
  BY <1>3, <1>4, <1>5, <1>6 DEF Due, LastDue
<1> QED BY <1>1, <1>2, <1>4, <1>5, <1>6, <1>7, Sending

LEMMA TwoThenMore ==
  ASSUME NEW S, NEW a \in S, NEW b \in S, NEW s \in Seq(S)
  PROVE  (<<a>> \o <<b>>) \o s = <<a>> \o (<<b>> \o s)
<1>1. <<a>> \in Seq(S) /\ <<b>> \in Seq(S)
  OBVIOUS
<1> QED BY <1>1, ConcatAssociative

LEMMA FourAre ==
  ASSUME NEW S, NEW a \in S, NEW b \in S, NEW c \in S, NEW d \in S
  PROVE  <<a, b>> \o <<c, d>> = <<a, b, c, d>>
<1> DEFINE s == <<a, b>>
           t == <<c, d>>
           u == <<a, b, c, d>>
<1>1. /\ s \in Seq(S) /\ Len(s) = 2 /\ s[1] = a /\ s[2] = b
      /\ t \in Seq(S) /\ Len(t) = 2 /\ t[1] = c /\ t[2] = d
      /\ u \in Seq(S) /\ Len(u) = 4 /\ u[1] = a /\ u[2] = b /\ u[3] = c /\ u[4] = d
  OBVIOUS
<1> HIDE DEF s, t, u
<1>2. /\ s \o t \in Seq(S) /\ Len(s \o t) = 4
      /\ \A i \in 1..4 : (s \o t)[i] = IF i <= 2 THEN s[i] ELSE t[i - 2]
  <2>1. /\ s \o t \in Seq(S) /\ Len(s \o t) = Len(s) + Len(t)
        /\ \A i \in 1..Len(s) + Len(t) : (s \o t)[i] = IF i <= Len(s) THEN s[i] ELSE t[i - Len(s)]
    BY <1>1, ConcatProperties, Zenon
  <2>2. 2 + 2 = 4
    OBVIOUS
  <2> QED BY <1>1, <2>1, <2>2, Zenon
<1>3. \A i \in 1..4 : (s \o t)[i] = u[i]
  <2>1. /\ (s \o t)[1] = a /\ (s \o t)[2] = b
        /\ (s \o t)[3] = c /\ (s \o t)[4] = d
    BY <1>1, <1>2
  <2>2. \A i \in 1..4 : i = 1 \/ i = 2 \/ i = 3 \/ i = 4
    OBVIOUS
  <2> QED BY <1>1, <2>1, <2>2, Zenon
<1>4. s \o t = u
  BY <1>1, <1>2, <1>3, SeqEqual, Zenon
<1> QED BY <1>4 DEF s, t, u

LEMMA ExecInv == ASSUME IInv, NEW c \in Clients, Exec(c) PROVE IInv'
<1>1. PICK m \in Cmds, n \in Available(c), outcome \in {"refused", "void", "done"} :
       \E reply \in Replies(ServerType(m), Id(2)) :
          Send(c, n, Queued \o <<Expect(Id(3), "header", "stop"), Expect(Id(2), m, "go")>>,
               Simple(Id(1), "+") \o
               CASE outcome = "refused" -> Simple(Id(2), "-") \o Simple(Id(3), "-")
                 [] outcome = "void" -> Simple(Id(2), "+") \o Simple(Id(3), "nil")
                 [] outcome = "done" -> Simple(Id(2), "+") \o <<Token(Id(3), "*", 1)>> \o reply,
               [conn[n] EXCEPT !.watch = "no"])
  BY DEF Exec
<1> DEFINE e1 == Expect(Id(1), "Status", "stop")
           e2 == Expect(Id(2), "Status", "stop")
           e3 == Expect(Id(3), "header", "stop")
           e4 == Expect(Id(2), m, "go")
           reads == <<e1, e2, e3, e4>>
           multi == Token(Id(1), "+", 0)
           queued == Token(Id(2), "+", 0)
           refusal == Token(Id(2), "-", 0)
           header == Token(Id(3), "*", 1)
           void == Simple(Id(3), "nil")
           none == Simple(Id(3), "-")
<1>2. m \in Methods /\ Id(1) \in Ids /\ Id(2) \in Ids /\ Id(3) \in Ids
  BY IdIs, ClientAssumption
<1>3. /\ e1 \in Reads /\ e1.id = Id(1) /\ e1.kind = "Status" /\ e1.then = "stop"
      /\ e2 \in Reads /\ e2.id = Id(2) /\ e2.kind = "Status" /\ e2.then = "stop"
      /\ e3 \in Reads /\ e3.id = Id(3) /\ e3.kind = "header" /\ e3.then = "stop"
  BY <1>2, ExpectIs
<1>4. /\ e4 \in Reads /\ e4.then = "go"
      /\ \A reply \in Replies(ServerType(m), Id(2)) : reply \in Answers(e4) /\ reply \in Seq(Tokens)
  <2>1. e4 \in Reads /\ e4.then = "go"
    BY <1>2, ExpectIs
  <2> QED BY <1>2, <2>1, AnswersAre
<1>5. /\ multi \in Tokens /\ queued \in Tokens /\ refusal \in Tokens /\ header \in Tokens
      /\ void \in Seq(Tokens) /\ none \in Seq(Tokens)
  BY <1>2 DEF Token, Tokens, Tags, Str, Ids, Simple
<1>6. Queued \o <<e3, e4>> = reads
  <2>1. Queued = <<e1, e2>>
    BY DEF Queued
  <2>2. <<e1, e2>> \o <<e3, e4>> = <<e1, e2, e3, e4>>
    <3>1. e1 \in Reads /\ e2 \in Reads /\ e3 \in Reads /\ e4 \in Reads
      BY <1>3, <1>4, Zenon
    <3> HIDE DEF e1, e2, e3, e4, reads, multi, queued, refusal, header, void, none
    <3>2. \A a, b, d, e \in Reads : <<a, b>> \o <<d, e>> = <<a, b, d, e>>
      BY FourAre, Zenon
    <3>3. \A b, d, e \in Reads : <<e1, b>> \o <<d, e>> = <<e1, b, d, e>>
      BY <3>1, <3>2, Zenon
    <3>4. \A d, e \in Reads : <<e1, e2>> \o <<d, e>> = <<e1, e2, d, e>>
      BY <3>1, <3>3, Zenon
    <3> QED BY <3>1, <3>4, Zenon
  <2> QED BY <2>1, <2>2, Zenon
<1>7. PICK s : /\ Send(c, n, reads, s, [conn[n] EXCEPT !.watch = "no"])
               /\ \/ s = <<multi>> \o (<<refusal>> \o none)
                  \/ s = <<multi>> \o (<<queued>> \o void)
                  \/ \E reply \in Replies(ServerType(m), Id(2)) :
                        s = <<multi>> \o (<<queued>> \o (<<header>> \o reply))
  <2>1. CASE outcome = "refused"
    BY <1>1, <1>6, <2>1 DEF Simple
  <2>2. CASE outcome = "void"
    BY <1>1, <1>6, <2>2 DEF Simple
  <2>3. CASE outcome = "done"
    <3>1. PICK reply \in Replies(ServerType(m), Id(2)) :
               Send(c, n, reads, <<multi>> \o ((<<queued>> \o <<header>>) \o reply),
                    [conn[n] EXCEPT !.watch = "no"])
      BY <1>1, <1>6, <2>3 DEF Simple
    <3>2. (<<queued>> \o <<header>>) \o reply = <<queued>> \o (<<header>> \o reply)
      <4>1. queued \in Tokens /\ header \in Tokens /\ reply \in Seq(Tokens)
        BY <1>4, <1>5
      <4> HIDE DEF queued, header
      <4> QED BY <4>1, TwoThenMore
    <3> QED BY <3>1, <3>2, Zenon
  <2> QED BY <2>1, <2>2, <2>3
<1>8. /\ Simple(e3.id, "nil") = void /\ Simple(e3.id, "-") = none
      /\ Token(e3.id, "*", 1) = header /\ Token(e2.id, "+", 0) = queued
      /\ Token(e2.id, "-", 0) = refusal /\ Token(e1.id, "+", 0) = multi
  BY <1>3
<1>9. Ready(c, "multi") /\ n \in Conns
  BY AvailableIs DEF Exec
<1> HIDE DEF e1, e2, e3, e4, multi, queued, refusal, header, void, none
<1>10. /\ reads \in Seq(Reads) /\ reads # <<>> /\ Len(reads) = 4 /\ reads[1] = e1
       /\ Tail(reads) = <<e2, e3, e4>> /\ Tail(Tail(reads)) = <<e3, e4>>
       /\ Tail(reads) # <<>> /\ Len(Tail(reads)) = 3 /\ Tail(reads)[1] = e2 /\ Tail(reads)[2] = e3
       /\ Len(Tail(Tail(reads))) = 2 /\ Tail(Tail(reads))[1] = e3 /\ Tail(Tail(reads))[2] = e4
  BY <1>3, <1>4
<1> HIDE DEF reads
<1>11. ASSUME NEW t, t \in Seq(Tokens),
              \/ t = void \/ t = none \/ \E reply \in Replies(ServerType(m), Id(2)) : t = <<header>> \o reply
       PROVE  ExecDue(Tail(Tail(reads)), t)
  BY <1>3, <1>4, <1>8, <1>10, <1>11, Zenon DEF ExecDue
<1>12. ASSUME NEW t, t \in Seq(Tokens),
              \/ t = <<refusal>> \o none
              \/ \E u \in Seq(Tokens) : t = <<queued>> \o u /\ ExecDue(Tail(Tail(reads)), u)
       PROVE  QueuedDue(Tail(reads), t)
  <2>1. CASE t = <<refusal>> \o none
    <3>1. t # <<>> /\ t[1] = refusal /\ Tail(t) = none
      BY <1>5, <2>1, TailIs, Zenon
    <3>2. StatusDue(Tail(reads), t, "-") /\ Tail(t) = Simple(Tail(reads)[2].id, "-")
      BY <1>3, <1>8, <1>10, <3>1, Zenon DEF StatusDue
    <3> QED BY <1>10, <3>2 DEF QueuedDue
  <2>2. ASSUME NEW u \in Seq(Tokens), t = <<queued>> \o u, ExecDue(Tail(Tail(reads)), u)
        PROVE  QueuedDue(Tail(reads), t)
    <3>1. t # <<>> /\ t[1] = queued /\ Tail(t) = u
      BY <1>5, <2>2, TailIs, Zenon
    <3>2. StatusDue(Tail(reads), t, "+") /\ ExecDue(Tail(Tail(reads)), Tail(t))
      BY <1>3, <1>8, <1>10, <2>2, <3>1, Zenon DEF StatusDue
    <3> QED BY <1>10, <3>2 DEF QueuedDue
  <2> QED BY <1>12, <2>1, <2>2
<1>13. ASSUME NEW u, u \in Seq(Tokens), s = <<multi>> \o u, QueuedDue(Tail(reads), u)
       PROVE  s \in Seq(Tokens) /\ Due(reads, s, "no")
  <2>1. s \in Seq(Tokens) /\ s # <<>> /\ s[1] = multi /\ Tail(s) = u
    BY <1>5, <1>13, TailIs, Zenon
  <2>2. StatusDue(reads, s, "+") /\ QueuedDue(Tail(reads), Tail(s))
    BY <1>3, <1>8, <1>10, <1>13, <2>1, Zenon DEF StatusDue
  <2> QED BY <1>10, <2>1, <2>2 DEF Due, MultiDue
<1>14. s \in Seq(Tokens) /\ Due(reads, s, "no")
  <2>1. CASE s = <<multi>> \o (<<refusal>> \o none)
    BY <1>5, <1>12, <1>13, <2>1, TailIs, Zenon
  <2>2. CASE s = <<multi>> \o (<<queued>> \o void)
    BY <1>5, <1>11, <1>12, <1>13, <2>2, TailIs, Zenon
  <2>3. CASE \E reply \in Replies(ServerType(m), Id(2)) :
               s = <<multi>> \o (<<queued>> \o (<<header>> \o reply))
    <3>1. PICK reply \in Replies(ServerType(m), Id(2)) :
             s = <<multi>> \o (<<queued>> \o (<<header>> \o reply))
      BY <2>3
    <3>2. <<header>> \o reply \in Seq(Tokens)
      BY <1>4, <1>5, TailIs, Zenon
    <3>3. ExecDue(Tail(Tail(reads)), <<header>> \o reply)
      BY <1>11, <3>2, Zenon
    <3>4. /\ <<queued>> \o (<<header>> \o reply) \in Seq(Tokens)
          /\ QueuedDue(Tail(reads), <<queued>> \o (<<header>> \o reply))
      BY <1>5, <1>12, <3>2, <3>3, TailIs, Zenon
    <3> QED BY <1>13, <3>1, <3>4, Zenon
  <2> QED BY <1>7, <2>1, <2>2, <2>3
<1> QED BY <1>7, <1>9, <1>10, <1>14, Sending

-----------------------------------------------------------------------------
(* The operations that neither send a command nor read its reply. *)

LEMMA OpenInv == ASSUME IInv, NEW c \in Clients, Open(c) PROVE IInv'
<1>1. PICK mode \in {"client", "multi", "pubsub"} : client' = [client EXCEPT ![c].mode = mode]
  BY DEF Open
<1> DEFINE k == [client[c] EXCEPT !.mode = mode]
<1>2. /\ client[c].mode = "out" /\ client[c].reads = <<>> /\ client[c].err # "panic"
      /\ UNCHANGED <<conn, idle, sent>>
  BY DEF Open, Ready
<1>3. /\ client[c] \in Session
      /\ \A n \in Conns : Hands(client[c]) \subseteq {n} => Between(client[c], conn[n])
  BY <1>2, Rests
<1>4. client' = [client EXCEPT ![c] = k]
  BY <1>1
<1>5. k \in Session /\ Hands(k) = Hands(client[c]) /\ k.reads = <<>> /\ k.err # "panic"
  BY <1>2, <1>3 DEF Session, Hands
<1>6. ASSUME NEW n \in Conns, Hands(k) \subseteq {n} PROVE SessionOK(k, conn[n])
  <2>1. client[c] = Outside
    BY <1>2, <1>3, <1>5, <1>6 DEF Between
  <2>2. k.mode = mode /\ k.reads = <<>> /\ k.cn = None /\ k.single = None /\ k.err = ""
    <3>1. k = [Outside EXCEPT !.mode = mode]
      BY <2>1, Zenon
    <3> HIDE DEF k
    <3> QED BY <3>1 DEF Outside
  <2> HIDE DEF k
  <2> QED BY <2>2 DEF SessionOK, Between
<1> HIDE DEF k
<1> QED BY <1>2, <1>4, <1>5, <1>6, FrameKept

LEMMA ExecFailsInv == ASSUME IInv, NEW c \in Clients, ExecFails(c) PROVE IInv'
<1> DEFINE k == [client[c] EXCEPT !.queueing = TRUE]
<1>1. /\ client[c].mode = "multi" /\ client[c].reads = <<>> /\ client[c].err # "panic"
      /\ UNCHANGED <<conn, idle, sent>> /\ client' = [client EXCEPT ![c] = k]
  BY DEF ExecFails, Ready
<1>2. /\ client[c] \in Session
      /\ \A n \in Conns : Hands(client[c]) \subseteq {n} => Between(client[c], conn[n])
  BY <1>1, Rests
<1>3. /\ k \in Session /\ Hands(k) = Hands(client[c]) /\ k.mode = "multi" /\ k.reads = <<>>
      /\ k.cn = client[c].cn /\ k.single = client[c].single /\ k.err = client[c].err
  BY <1>1, <1>2 DEF Session, Hands
<1> HIDE DEF k
<1>4. ASSUME NEW n \in Conns, Hands(k) \subseteq {n} PROVE SessionOK(k, conn[n])
  <2>1. Between(client[c], conn[n])
    BY <1>2, <1>3, <1>4
  <2> QED BY <1>1, <1>3, <2>1 DEF SessionOK, Between
<1> QED BY <1>1, <1>3, <1>4, FrameKept

LEMMA WriteFailsInv == ASSUME IInv, NEW c \in Clients, WriteFails(c) PROVE IInv'
<1> DEFINE k == [client[c] EXCEPT !.single = None]
<1>1. PICK mode \in {"client", "multi"} : Ready(c, mode)
  BY DEF WriteFails
<1>2. PICK n \in Available(c) : idle' = idle \ {n} /\ conn' = [conn EXCEPT ![n] = Fresh]
  BY DEF WriteFails
<1>3. client' = [client EXCEPT ![c] = k] /\ sent' = sent
  BY DEF WriteFails
<1>4. /\ n \in Conns /\ Hands(client[c]) \subseteq {n} /\ client[c].cn = None
      /\ \A d \in Clients \ {c} : n \notin Hands(client[d])
  <2>1. CASE mode = "client"
    BY <1>1, <2>1, AvailableIs
  <2>2. CASE mode = "multi"
    BY <1>1, <2>2, AvailableIs
  <2> QED BY <2>1, <2>2
<1>5. client[c] \in Session /\ client[c].mode = mode /\ client[c].reads = <<>> /\ client[c].err # "panic"
  BY <1>1 DEF Ready, IInv, TypeOK
<1>6. /\ k \in Session /\ k.mode = mode /\ k.reads = <<>> /\ k.err # "panic"
      /\ k.cn = None /\ k.single = None
  BY <1>4, <1>5 DEF Session
<1> HIDE DEF k
<1>7. Hands(k) = {} /\ SessionOK(k, Fresh)
  BY <1>6 DEF Hands, SessionOK, Between
<1>8. sent' \in Nat
  BY <1>3, Zenon DEF IInv, TypeOK
<1> QED BY <1>2, <1>3, <1>4, <1>6, <1>7, <1>8, FreshIs, Frame

\* The end of a session that reads nothing.
LEMMA Closing ==
  ASSUME IInv, NEW c \in Clients, client[c].reads = <<>>,
         client' = [client EXCEPT ![c] = Outside], sent' = sent,
         NEW n \in Conns \cup {None}, n = client[c].single, NEW x \in Connection,
         \/ n = None /\ UNCHANGED <<conn, idle>>
         \/ n # None /\ conn' = [conn EXCEPT ![n] = x] /\ idle' = idle /\ x = Fresh
         \/ n # None /\ conn' = [conn EXCEPT ![n] = x] /\ idle' = idle \cup {n} /\ IdleOK(x)
  PROVE  IInv'
<1>1. /\ client[c] \in Session /\ client[c].cn = None
      /\ Hands(client[c]) = {client[c].single} \ {None}
  BY Rests
<1>2. Outside \in Session /\ Hands(Outside) = {} /\ SessionOK(Outside, x)
      /\ \A i \in Conns : SessionOK(Outside, conn[i])
  BY OutsideIs
<1>3. CASE n = None
  <2>1. Hands(Outside) = Hands(client[c]) /\ UNCHANGED <<conn, idle, sent>>
        /\ Outside.reads = <<>> /\ Outside.err # "panic"
    BY <1>1, <1>2, <1>3 DEF Outside
  <2> QED BY <1>2, <2>1, FrameKept
<1>4. CASE n # None
  <2>1. /\ n \in Conns /\ Hands(client[c]) = {n} /\ n \notin idle
        /\ \A d \in Clients \ {c} : n \notin Hands(client[d])
    <3>1. n \in Conns /\ Hands(client[c]) = {n}
      BY <1>1, <1>4
    <3>2. Hands(client[c]) \cap idle = {} /\ \A d \in Clients \ {c} : Hands(client[c]) \cap Hands(client[d]) = {}
      BY DEF IInv, Apart
    <3> QED BY <3>1, <3>2
  <2>2. sent' \in Nat
    BY Zenon DEF IInv, TypeOK
  <2>3. conn' = [conn EXCEPT ![n] = x] /\ idle' \subseteq idle \cup {n} /\ idle \ {n} \subseteq idle'
        /\ (n \in idle' => IdleOK(x)) /\ (n \notin idle' => x = Fresh)
    BY <1>4, <2>1
  <2> QED BY <1>2, <2>1, <2>2, <2>3, Frame
<1> QED BY <1>3, <1>4

LEMMA CloseQueueingInv == ASSUME IInv, NEW c \in Clients, CloseQueueing(c) PROVE IInv'
<1> DEFINE n == client[c].single
           x == [conn[n] EXCEPT !.watch = IF @ = "yes" THEN "forgot" ELSE @]
<1>1. /\ client[c].mode = "multi" /\ client[c].reads = <<>> /\ sent' = sent
      /\ client' = [client EXCEPT ![c] = Outside]
  BY DEF CloseQueueing, Ready
<1>2. /\ client[c] \in Session /\ n \in Conns \cup {None} /\ Hands(client[c]) = {n} \ {None}
      /\ \A i \in Conns : Hands(client[c]) \subseteq {i} => Between(client[c], conn[i])
  BY <1>1, Rests DEF Session
<1>3. CASE n = None
  <2>1. UNCHANGED <<conn, idle>>
    BY <1>3 DEF CloseQueueing
  <2> HIDE DEF n
  <2>2. Outside \in Session /\ n = client[c].single
    BY OutsideIs DEF n
  <2> QED BY <1>1, <1>2, <1>3, <2>1, <2>2, FreshIs, Closing
<1>4. CASE n # None
  <2>1. conn' = [conn EXCEPT ![n] = x] /\ idle' = idle \cup {n}
    BY <1>4 DEF CloseQueueing, CloseSingle, Reusable
  <2>2. n \in Conns /\ RestOK(conn[n]) /\ conn[n] \in Connection
    BY <1>1, <1>2, <1>4 DEF Between, IInv, TypeOK
  <2>3. x \in Connection /\ IdleOK(x)
    <3>1. x \in Connection /\ x.watch # "yes" /\ x.sub = conn[n].sub /\ x.owes = conn[n].owes
          /\ x.stream = conn[n].stream
      BY <2>2 DEF Connection
    <3> HIDE DEF x
    <3> QED BY <2>2, <3>1 DEF IdleOK, RestOK
  <2>4. n = client[c].single
    OBVIOUS
  <2> HIDE DEF n, x
  <2> QED BY <1>1, <1>2, <1>4, <2>1, <2>3, <2>4, Closing
<1> QED BY <1>3, <1>4

LEMMA CloseSubInv == ASSUME IInv, NEW c \in Clients, CloseSub(c) PROVE IInv'
<1> DEFINE n == client[c].single
<1>1. /\ client[c].mode = "pubsub" /\ client[c].reads = <<>> /\ sent' = sent
      /\ client' = [client EXCEPT ![c] = Outside]
  BY DEF CloseSub, Ready
<1>2. n \in Conns \cup {None}
  BY <1>1, Rests DEF Session
<1>3. \/ n = None /\ UNCHANGED <<conn, idle>>
      \/ n # None /\ conn' = [conn EXCEPT ![n] = Fresh] /\ idle' = idle
  BY DEF CloseSub, CloseSingle, Reusable
<1>4. n = client[c].single
  OBVIOUS
<1> HIDE DEF n
<1> QED BY <1>1, <1>2, <1>3, <1>4, FreshIs, Closing

-----------------------------------------------------------------------------
(* What a subscriber is sent, and what it reads of it. *)

LEMMA NothingPushed == Pushed(<<>>)
<1>1. 0 \in 0..Len(<<>>) /\ Len(<<>>) = 4 * 0 /\ \A j \in 0..0 - 1 : FALSE
  OBVIOUS
<1> QED BY <1>1, Zenon DEF Pushed

\* One array of three.
Push(a) ==
  /\ a \in Seq(Tokens) /\ Len(a) = 4 /\ a[1] = Token(Unasked, "*", 3)
  /\ \A i \in 2..4 : a[i] \in {Token(Unasked, "$", 0), Token(Unasked, ":", 0)}

LEMMA PushIs ==
  ASSUME NEW t \in {"$", ":"}
  PROVE  Push(Array(Unasked, <<"$", "$", t>>))
<1> DEFINE e == <<"$", "$", t>>
<1>1. e \in Seq(Tags) /\ Len(e) = 3 /\ \A i \in 1..3 : e[i] \in {"$", ":"}
  BY DEF Tags, Str
<1>2. Unasked \in Ids
  BY DEF Unasked, Ids
<1> HIDE DEF e
<1>3. /\ Whole(Array(Unasked, e), "slice") /\ Len(Array(Unasked, e)) = 3 + 1
      /\ Array(Unasked, e)[1] = Token(Unasked, "*", 3)
      /\ \A i \in 1..3 : Array(Unasked, e)[i + 1] = Token(Unasked, e[i], 0)
  BY <1>1, <1>2, ArrayIs DEF Pairs
<1>4. ASSUME NEW i \in 2..4
      PROVE  Array(Unasked, e)[i] \in {Token(Unasked, "$", 0), Token(Unasked, ":", 0)}
  <2>1. i - 1 \in 1..3 /\ (i - 1) + 1 = i
    OBVIOUS
  <2>2. Array(Unasked, e)[i] = Token(Unasked, e[i - 1], 0)
    BY <1>3, <2>1
  <2> QED BY <1>1, <2>1, <2>2
<1>5. Push(Array(Unasked, e))
  BY <1>3, <1>4 DEF Push, Whole
<1> QED BY <1>5 DEF e

LEMMA PushedMore ==
  ASSUME NEW s \in Seq(Tokens), Pushed(s), NEW a, Push(a)
  PROVE  Pushed(s \o a)
<1> DEFINE B == {Token(Unasked, "$", 0), Token(Unasked, ":", 0)}
           H == Token(Unasked, "*", 3)
           u == s \o a
<1>1. PICK m \in 0..Len(s) : /\ Len(s) = 4 * m
                             /\ \A j \in 0..m - 1 : s[4 * j + 1] = H /\ \A i \in 2..4 : s[4 * j + i] \in B
  BY DEF Pushed
<1>2. a \in Seq(Tokens) /\ Len(a) = 4 /\ a[1] = H /\ \A i \in 2..4 : a[i] \in B
  BY DEF Push
<1>3. /\ Len(u) = Len(s) + Len(a)
      /\ \A i \in 1..Len(s) + Len(a) : u[i] = IF i <= Len(s) THEN s[i] ELSE a[i - Len(s)]
  BY <1>2, ConcatProperties, Zenon
<1> HIDE DEF B, H, u
<1>4. m \in Nat /\ m + 1 \in 0..Len(u) /\ Len(u) = 4 * (m + 1)
  <2>1. Len(s) \in Nat
    OBVIOUS
  <2>2. m \in 0..Len(s) /\ Len(s) = 4 * m /\ Len(u) = Len(s) + 4
    BY <1>1, <1>2, <1>3
  <2> QED BY <2>1, <2>2
<1>5. ASSUME NEW i \in 1..4 * m PROVE u[i] = s[i]
  <2>1. i \in 1..Len(s) + Len(a) /\ i <= Len(s)
    BY <1>1, <1>2, <1>4
  <2> QED BY <1>3, <2>1
<1>6. ASSUME NEW i \in 1..4 PROVE u[4 * m + i] = a[i]
  <2>1. 4 * m + i \in 1..Len(s) + Len(a) /\ ~(4 * m + i <= Len(s)) /\ 4 * m + i - Len(s) = i
    BY <1>1, <1>2, <1>4
  <2> QED BY <1>3, <2>1
<1>7. ASSUME NEW j \in 0..(m + 1) - 1
      PROVE  u[4 * j + 1] = H /\ \A i \in 2..4 : u[4 * j + i] \in B
  <2>1. CASE j = m
    <3>1. 1 \in 1..4 /\ \A i \in 2..4 : i \in 1..4
      OBVIOUS
    <3> QED BY <1>2, <1>6, <2>1, <3>1
  <2>2. CASE j # m
    <3>1. j \in 0..m - 1 /\ 4 * j + 1 \in 1..4 * m /\ \A i \in 2..4 : 4 * j + i \in 1..4 * m
      BY <1>4, <2>2
    <3> QED BY <1>1, <1>5, <3>1
  <2> QED BY <2>1, <2>2
<1>8. Pushed(u)
  BY <1>4, <1>7 DEF Pushed, B, H
<1> QED BY <1>8 DEF u

\* Its first array, and the rest.
LEMMA PushedRest ==
  ASSUME NEW s \in Seq(Tokens), Pushed(s), s # <<>>
  PROVE  /\ Len(s) >= 4 /\ Push(SubSeq(s, 1, 4)) /\ \A i \in 1..4 : SubSeq(s, 1, 4)[i] = s[i]
         /\ Pushed(SubSeq(s, 5, Len(s)))
<1> DEFINE B == {Token(Unasked, "$", 0), Token(Unasked, ":", 0)}
           H == Token(Unasked, "*", 3)
           a == SubSeq(s, 1, 4)
           t == SubSeq(s, 5, Len(s))
<1>1. PICK m \in 0..Len(s) : /\ Len(s) = 4 * m
                             /\ \A j \in 0..m - 1 : s[4 * j + 1] = H /\ \A i \in 2..4 : s[4 * j + i] \in B
  BY DEF Pushed
<1> HIDE DEF B, H
<1>2. Len(s) \in Nat \ {0}
  BY EmptySeq
<1>3. m \in Nat \ {0} /\ Len(s) = 4 * m
  BY <1>1, <1>2
<1>4. Len(s) >= 4
  BY <1>3
<1>5. a \in Seq(Tokens) /\ Len(a) = 4 /\ \A i \in 1..4 : a[i] = s[i]
  BY <1>2, <1>4
<1>6. t \in Seq(Tokens) /\ Len(t) = 4 * (m - 1) /\ \A i \in 1..4 * (m - 1) : t[i] = s[i + 4]
  <2>1. Len(s) = 4 * m /\ m \in Nat \ {0} /\ s \in Seq(Tokens)
    BY <1>3
  <2> QED BY <2>1
<1> HIDE DEF a, t
<1>7. Push(a)
  <2>1. 0 \in 0..m - 1 /\ 4 * 0 + 1 = 1 /\ \A i \in 2..4 : 4 * 0 + i = i
    BY <1>3
  <2>2. s[1] = H /\ \A i \in 2..4 : s[i] \in B
    BY <1>1, <2>1
  <2>3. a[1] = H /\ \A i \in 2..4 : a[i] \in B
    BY <1>5, <2>2
  <2> QED BY <1>5, <2>3 DEF Push, B, H
<1>8. ASSUME NEW j \in 0..(m - 1) - 1
      PROVE  t[4 * j + 1] = H /\ \A i \in 2..4 : t[4 * j + i] \in B
  <2>1. /\ j + 1 \in 0..m - 1 /\ 4 * j + 1 \in 1..4 * (m - 1) /\ (4 * j + 1) + 4 = 4 * (j + 1) + 1
        /\ \A i \in 2..4 : 4 * j + i \in 1..4 * (m - 1) /\ (4 * j + i) + 4 = 4 * (j + 1) + i
    BY <1>3
  <2>2. t[4 * j + 1] = s[4 * (j + 1) + 1] /\ \A i \in 2..4 : t[4 * j + i] = s[4 * (j + 1) + i]
    BY <1>6, <2>1
  <2> QED BY <1>1, <2>1, <2>2
<1>9. Pushed(t)
  <2>1. m - 1 \in 0..Len(t) /\ Len(t) = 4 * (m - 1)
    BY <1>3, <1>6
  <2> QED BY <1>8, <2>1 DEF Pushed, B, H
<1> QED BY <1>4, <1>5, <1>7, <1>9 DEF a, t

LEMMA SubscribeInv == ASSUME IInv, NEW c \in Clients, Subscribe(c) PROVE IInv'
<1> DEFINE a == Array(Unasked, <<"$", "$", ":">>)
<1>1. PICK n \in Available(c) :
          /\ idle' = idle \ {n}
          /\ conn' = [conn EXCEPT ![n].stream = @ \o a, ![n].sub = TRUE]
          /\ client' = [client EXCEPT ![c].single = n]
  BY DEF Subscribe
<1> DEFINE x == [conn[n] EXCEPT !.stream = @ \o a, !.sub = TRUE]
           k == [client[c] EXCEPT !.single = n]
<1>2. Ready(c, "pubsub") /\ sent' = sent + 1
  BY DEF Subscribe
<1>3. /\ n \in Conns /\ Hands(client[c]) \subseteq {n} /\ client[c].cn = None
      /\ \A d \in Clients \ {c} : n \notin Hands(client[d])
      /\ conn[n].owes # "net" /\ (conn[n].owes = "" => Pushed(conn[n].stream))
  BY <1>2, AvailableIs
<1>4. n # None
  BY <1>3, ClientAssumption DEF None
<1>5. conn[n] \in Connection /\ client[c] \in Session /\ conn[n].stream \in Seq(Tokens)
  BY <1>3 DEF IInv, TypeOK, Connection
<1>6. client[c].mode = "pubsub" /\ client[c].reads = <<>> /\ client[c].err # "panic"
  BY <1>2 DEF Ready
<1>7. Push(a)
  BY PushIs
<1> HIDE DEF a
<1>8. conn[n].stream \o a \in Seq(Tokens)
  BY <1>5, <1>7, ConcatProperties, Zenon DEF Push
<1>9. /\ x \in Connection /\ x.stream = conn[n].stream \o a /\ x.owes = conn[n].owes
  BY <1>5, <1>8 DEF Connection
<1>10. /\ k \in Session /\ k.mode = "pubsub" /\ k.reads = <<>> /\ k.err # "panic"
       /\ k.cn = None /\ k.single = n
  BY <1>3, <1>5, <1>6 DEF Session
<1>11. conn' = [conn EXCEPT ![n] = x] /\ client' = [client EXCEPT ![c] = k]
  BY <1>1
<1> HIDE DEF x, k
<1>12. SessionOK(k, x)
  <2>1. x.owes = "" => Pushed(x.stream)
    BY <1>3, <1>5, <1>7, <1>9, PushedMore
  <2>2. SubOK(k, x)
    BY <1>3, <1>9, <1>10, <2>1 DEF SubOK
  <2> QED BY <1>10, <2>2 DEF SessionOK, Between
<1>13. Hands(k) = {n}
  BY <1>4, <1>10 DEF Hands
<1>14. sent' \in Nat
  <2>1. sent \in Nat
    BY Zenon DEF IInv, TypeOK
  <2> QED BY <1>2, <2>1, NextNat, Zenon
<1>15. idle' \subseteq idle \cup {n} /\ idle \ {n} \subseteq idle' /\ n \notin idle'
  BY <1>1
<1> QED BY <1>3, <1>9, <1>10, <1>11, <1>12, <1>13, <1>14, <1>15, Frame

LEMMA MessageInv == ASSUME IInv, NEW n \in Conns, Message(n) PROVE IInv'
<1> DEFINE a == Array(Unasked, <<"$", "$", "$">>)
           x == [conn[n] EXCEPT !.stream = a]
<1>1. /\ conn[n].sub /\ conn' = [conn EXCEPT ![n] = x] /\ UNCHANGED <<idle, client, sent>>
  BY DEF Message
<1>2. n \notin idle
  BY <1>1 DEF IInv, Idling, IdleOK, RestOK
<1>3. PICK c \in Clients : n \in Hands(client[c])
  <2>1. conn[n] # Fresh
    <3>1. Fresh.sub = FALSE
      BY DEF Fresh
    <3> QED BY <1>1, <3>1
  <2> QED BY <1>2, <2>1 DEF IInv, Forgotten
<1>4. Hands(client[c]) = {n}
  BY <1>3 DEF IInv, Apart
<1>5. SessionOK(client[c], conn[n]) /\ client[c] \in Session /\ conn[n] \in Connection
  BY <1>4 DEF IInv, Sessions, TypeOK
<1>6. client[c].reads = <<>>
  BY <1>1, <1>5 DEF SessionOK, Amid, ReadOK
<1>7. Between(client[c], conn[n]) /\ client[c].cn = None /\ client[c].single = n /\ n # None
  BY <1>3, <1>5, <1>6 DEF SessionOK, Between, Hands
<1>8. client[c].mode = "pubsub"
  <2>1. client[c].mode \in {"out", "client", "multi", "pubsub"}
    BY <1>5 DEF Session
  <2> QED BY <1>1, <1>7, <2>1 DEF Between, RestOK
<1>9. SubOK(client[c], conn[n])
  BY <1>7, <1>8 DEF Between
<1>10. Push(a)
  BY PushIs
<1>11. a \in Seq(Tokens) /\ Pushed(a)
  <2>1. a \in Seq(Tokens)
    BY <1>10 DEF Push
  <2>2. <<>> \o a = a /\ <<>> \in Seq(Tokens)
    BY <2>1, ConcatEmptySeq, EmptySeq, Zenon
  <2> HIDE DEF a
  <2> QED BY <1>10, <2>1, <2>2, NothingPushed, PushedMore
<1> HIDE DEF a
<1>12. x \in Connection /\ x.stream = a /\ x.owes = conn[n].owes
  BY <1>5, <1>11 DEF Connection
<1> HIDE DEF x
<1>13. SessionOK(client[c], x)
  <2>1. SubOK(client[c], x)
    BY <1>9, <1>11, <1>12 DEF SubOK
  <2> QED BY <1>6, <1>7, <1>8, <2>1 DEF SessionOK, Between
<1>14. /\ client' = [client EXCEPT ![c] = client[c]]
       /\ \A d \in Clients \ {c} : n \notin Hands(client[d])
  <2>1. client' = [client EXCEPT ![c] = client[c]]
    BY <1>1 DEF IInv, TypeOK
  <2>2. \A d \in Clients \ {c} : n \notin Hands(client[d])
    BY <1>4 DEF IInv, Apart
  <2> QED BY <2>1, <2>2
<1>15. sent' \in Nat
  BY <1>1, Zenon DEF IInv, TypeOK
<1> QED BY <1>1, <1>2, <1>4, <1>5, <1>12, <1>13, <1>14, <1>15, Frame

-----------------------------------------------------------------------------
(* What a goroutine may read. *)

LEMMA ParseType ==
  ASSUME NEW s \in Seq(Tokens), NEW kind
  PROVE  /\ Parse(kind, s).used \in 0..Len(s) /\ Parse(kind, s).err \in Errs \ {"net"}
         /\ Parse(kind, s).err # "more" => Parse(kind, s).used > 0
<1> DEFINE p == ParserOf(kind)
           q == ParseReply(s, p)
<1>1. \/ q = Result(Len(s), "more", "")
      \/ \E k \in 1..Len(s) : q = Result(k, TokenErr(s, p, k), Got(s, p, k))
  <2>1. CASE \A k \in 1..Len(s) : ~ Ends(s, p, k)
    BY <2>1, ParseCut
  <2>2. CASE \E k \in 1..Len(s) : Ends(s, p, k)
    <3> DEFINE S == {k \in 1..Len(s) : Ends(s, p, k)}
    <3>1. S \subseteq Nat /\ S # {} /\ Len(s) \in Nat
      BY <2>2
    <3>2. PICK k \in S : \A j \in S : k <= j
      <4> HIDE DEF S
      <4> QED BY <3>1, LeastExists
    <3>3. k \in 1..Len(s) /\ k \in Nat /\ Ends(s, p, k)
      BY <3>1
    <3>4. ASSUME NEW j \in 1..k - 1 PROVE ~ Ends(s, p, j)
      <4>1. j \in 1..Len(s) /\ ~(k <= j)
        BY <3>1, <3>3
      <4> QED BY <3>2, <4>1
    <3> QED BY <3>3, <3>4, ParseEnds
  <2> QED BY <2>1, <2>2
<1> HIDE DEF p, q
<1>2. /\ q.used \in 0..Len(s) /\ q.err \in Errs \ {"net"} /\ (q.err # "more" => q.used > 0)
      /\ q = [used |-> q.used, err |-> q.err, got |-> q.got]
  <2>1. Len(s) \in Nat
    OBVIOUS
  <2>2. CASE q = Result(Len(s), "more", "")
    <3>1. q.used = Len(s) /\ q.err = "more" /\ q = [used |-> q.used, err |-> q.err, got |-> q.got]
      BY <2>2 DEF Result
    <3> QED BY <2>1, <3>1 DEF Errs
  <2>3. ASSUME NEW k \in 1..Len(s), q = Result(k, TokenErr(s, p, k), Got(s, p, k))
        PROVE  /\ q.used \in 0..Len(s) /\ q.err \in Errs \ {"net"} /\ q.used > 0
               /\ q = [used |-> q.used, err |-> q.err, got |-> q.got]
    <3>1. q.used = k /\ q.err = TokenErr(s, p, k) /\ q = [used |-> q.used, err |-> q.err, got |-> q.got]
      BY <2>3 DEF Result
    <3>2. q.err \in Errs \ {"net"}
      <4>1. TokenErr(s, p, k) \in {"", "redis", "bad", "nil", "panic"}
        BY TokenErrs
      <4> QED BY <3>1, <4>1 DEF Errs, RedisErrors
    <3>3. k \in 0..Len(s) /\ k > 0
      BY <2>1
    <3> QED BY <3>1, <3>2, <3>3
  <2> QED BY <1>1, <2>2, <2>3
<1> HIDE DEF q
<1>3. CASE q.err = "" /\ q.got \notin Want(kind)
  <2>1. ~(kind = "Float" /\ q.err = "" /\ q.got \in Str \ {"#"})
    BY <1>3, ParsersAre
  <2>2. Parse(kind, s) = [q EXCEPT !.err = "panic"]
    BY <1>3, <2>1, Zenon DEF Parse, p, q
  <2> QED BY <1>2, <1>3, <2>2 DEF Errs
<1>4. CASE ~(q.err = "" /\ q.got \notin Want(kind)) /\ kind = "Float" /\ q.err = "" /\ q.got \in Str \ {"#"}
  <2>1. Parse(kind, s) = [q EXCEPT !.err = "bad"]
    BY <1>4, Zenon DEF Parse, p, q
  <2> QED BY <1>2, <1>4, <2>1 DEF Errs
<1>5. CASE ~(q.err = "" /\ q.got \notin Want(kind)) /\ ~(kind = "Float" /\ q.err = "" /\ q.got \in Str \ {"#"})
  <2>1. Parse(kind, s) = q
    BY <1>5, Zenon DEF Parse, p, q
  <2> QED BY <1>2, <2>1
<1> QED BY <1>3, <1>4, <1>5

LEMMA HeaderIs ==
  ASSUME NEW s \in Seq(Tokens)
  PROVE  /\ s = <<>> => ReadHeader(s).used = 0 /\ ReadHeader(s).err = "more"
         /\ s # <<>> => /\ ReadHeader(s).used = 1 /\ ReadHeader(s).err \in {"", "nil", "bad", "panic"}
                        /\ ReadHeader(s).err = "" => s[1].t \in {"*", "*?"}
                        /\ ReadHeader(s).err # "more"
                        /\ ReadHeader(s).err = "panic" => s[1].t = "lf"
<1>1. CASE s = <<>>
  <2>1. ReadHeader(s) = Result(0, "more", "")
    BY <1>1, Zenon DEF ReadHeader
  <2>2. Result(0, "more", "").used = 0 /\ Result(0, "more", "").err = "more"
    BY DEF Result
  <2> QED BY <1>1, <2>1, <2>2, Zenon
<1>2. CASE s # <<>>
  <2> DEFINE t == s[1].t
             e == CASE t \in {"*", "*?"} -> "" [] t = "nil" -> "nil" [] t = "lf" -> "panic" [] OTHER -> "bad"
  <2>1. ReadHeader(s) = Result(1, e, "")
    BY <1>2, Zenon DEF ReadHeader
  <2> HIDE DEF t
  <2>2. e \in {"", "nil", "bad", "panic"} /\ (e = "" => t \in {"*", "*?"}) /\ (e = "panic" => t = "lf")
        /\ e # "more"
    OBVIOUS
  <2> HIDE DEF e
  <2>3. Result(1, e, "").used = 1 /\ Result(1, e, "").err = e
    BY DEF Result
  <2>4. ReadHeader(s).used = 1 /\ ReadHeader(s).err = e
    BY <2>1, <2>3, Zenon
  <2> QED BY <1>2, <2>2, <2>4 DEF t
<1> QED BY <1>1, <1>2

LEMMA ReadType ==
  ASSUME NEW s \in Seq(Tokens), NEW kind
  PROVE  /\ ReadReply(kind, s).used \in 0..Len(s) /\ ReadReply(kind, s).err \in Errs \ {"net"}
         /\ ReadReply(kind, s).err # "more" => ReadReply(kind, s).used > 0
<1>1. CASE kind = "header"
  <2>1. ReadReply(kind, s) = ReadHeader(s)
    BY <1>1 DEF ReadReply
  <2>2. Len(s) \in Nat /\ (s # <<>> => Len(s) # 0)
    OBVIOUS
  <2>3. 0 \in 0..Len(s) /\ (s # <<>> => 1 \in 0..Len(s) /\ 1 > 0)
    BY <2>2
  <2>4. "more" \in Errs \ {"net"} /\ {"", "nil", "bad", "panic"} \subseteq Errs \ {"net"}
    BY DEF Errs, RedisErrors
  <2>5. CASE s = <<>>
    BY <2>1, <2>3, <2>4, <2>5, HeaderIs
  <2>6. CASE s # <<>>
    BY <2>1, <2>3, <2>4, <2>6, HeaderIs
  <2> QED BY <2>5, <2>6
<1>2. CASE kind # "header"
  <2>1. ReadReply(kind, s) = Parse(kind, s)
    BY <1>2 DEF ReadReply
  <2> QED BY <2>1, ParseType
<1> QED BY <1>1, <1>2

LEMMA StreamIs == ASSUME NEW x \in Connection PROVE x.stream \in Seq(Tokens)
BY DEF Connection

\* A sequence from one place on.
LEMMA RestIs ==
  ASSUME NEW S, NEW s \in Seq(S), NEW j \in 1..Len(s)
  PROVE  SubSeq(s, j, Len(s)) # <<>> /\ SubSeq(s, j, Len(s))[1] = s[j]
<1>1. Len(SubSeq(s, j, Len(s))) = Len(s) - j + 1 /\ Len(s) \in Nat
  OBVIOUS
<1>2. Len(SubSeq(s, j, Len(s))) # 0
  BY <1>1
<1>3. SubSeq(s, j, Len(s))[1] = s[j]
  OBVIOUS
<1>4. Len(<<>>) = 0
  OBVIOUS
<1> QED BY <1>2, <1>3, <1>4, Zenon

\* A reading of a prefix, and what it leaves.
LEMMA PrefixRead ==
  ASSUME NEW s \in Seq(Tokens), NEW kind, NEW k \in 0..Len(s)
  PROVE  LET r == ReadReply(kind, SubSeq(s, 1, k)) IN
         /\ r.used \in 0..k /\ r.used \in 0..Len(s) /\ r.err \in Errs \ {"net"}
         /\ SubSeq(s, r.used + 1, Len(s)) \in Seq(Tokens)
<1> DEFINE u == SubSeq(s, 1, k)
           r == ReadReply(kind, u)
<1>1. u \in Seq(Tokens) /\ Len(u) = k /\ Len(s) \in Nat
  <2>1. Len(s) \in Nat
    OBVIOUS
  <2> QED BY <2>1
<1> HIDE DEF u
<1>2. r.used \in 0..k /\ r.err \in Errs \ {"net"}
  BY <1>1, ReadType
<1> HIDE DEF r
<1>3. r.used \in 0..Len(s)
  BY <1>1, <1>2
<1>4. SubSeq(s, r.used + 1, Len(s)) \in Seq(Tokens)
  <2>1. \A i \in 0..Len(s) : SubSeq(s, i + 1, Len(s)) \in Seq(Tokens)
    BY <1>1
  <2> QED BY <1>3, <2>1, Zenon
<1> QED BY <1>2, <1>3, <1>4 DEF r, u

Leaving(x, u) == [x EXCEPT !.stream = u]

LEMMA LeftIs ==
  \A x \in Connection, u \in Seq(Tokens) :
    /\ Leaving(x, u) \in Connection /\ Leaving(x, u).watch = x.watch /\ Leaving(x, u).sub = x.sub
    /\ Leaving(x, u).owes = x.owes /\ Leaving(x, u).stream = u
BY DEF Connection, Leaving

\* A token that is cut is two.
LEMMA CutsAre == ASSUME NEW x \in Tokens PROVE Cuts(x) \subseteq Tokens \X Tokens
<1> DEFINE T(t) == Token(x.id, t, 0)
           left == {T("tail"), T("lf")}
           signed == left \cup {T("-")}
           shorter == {Token(x.id, "*", n) : n \in 1..IF x.id = Unasked THEN 0 ELSE x.n - 1}
<1>1. x.id \in Ids /\ x.n \in Nat
  BY DEF Tokens, Ids
<1>2. \A t \in {"tail", "lf", "-", "*?", "$", "#"} : T(t) \in Tokens
  BY <1>1 DEF Token, Tokens, Tags, Str, Ids
<1>3. left \subseteq Tokens /\ signed \subseteq Tokens
  BY <1>2
<1>4. shorter \subseteq Tokens
  <2>1. \A n \in Nat : Token(x.id, "*", n) \in Tokens
    BY <1>1 DEF Token, Tokens, Tags, Ids
  <2>2. 1..(IF x.id = Unasked THEN 0 ELSE x.n - 1) \subseteq Nat
    BY <1>1
  <2> QED BY <2>1, <2>2
<1>5. Cuts(x) = CASE x.t \in {"+", "-"} -> {x} \X left
         [] x.t = ":" -> ({x} \X left) \cup ({T("tail")} \X signed)
         [] x.t = "*" -> ({x} \X {T("lf")}) \cup (shorter \X {T("tail")}) \cup ({T("*?")} \X left)
         [] x.t = "nil" -> ({x} \X {T("lf")}) \cup ({T("tail"), T("*?")} \X signed)
         [] x.t \in {"$", "#"} -> {T("$"), T("#"), T("tail")} \X left
         [] x.t = "tail" -> {x} \X left
         [] OTHER -> {T("tail")} \X {T("lf")}
  BY DEF Cuts
<1> HIDE DEF T, left, signed, shorter
<1> DEFINE P == Tokens \X Tokens
<1>6. /\ {x} \X left \subseteq P /\ {T("tail")} \X signed \subseteq P /\ shorter \X {T("tail")} \subseteq P
      /\ {T("*?")} \X left \subseteq P /\ {T("tail"), T("*?")} \X signed \subseteq P
      /\ {T("$"), T("#"), T("tail")} \X left \subseteq P
  BY <1>2, <1>3, <1>4
<1>7. {x} \X {T("lf")} \subseteq P /\ {T("tail")} \X {T("lf")} \subseteq P
  BY <1>2
<1> HIDE DEF P
<1>8. Cuts(x) \subseteq P
  BY <1>5, <1>6, <1>7
<1> QED BY <1>8 DEF P

LEMMA CutIs ==
  ASSUME NEW s \in Seq(Tokens), NEW k \in 1..Len(s), NEW a \in Tokens, NEW b \in Tokens
  PROVE  LET u == Cut(s, k, <<a, b>>) IN u \in Seq(Tokens) /\ Len(u) = Len(s) + 1 /\ u[k + 1] = b
<1> DEFINE f == SubSeq(s, 1, k - 1)
           m == <<a, b>>
           l == SubSeq(s, k + 1, Len(s))
<1>1. /\ f \in Seq(Tokens) /\ Len(f) = k - 1 /\ l \in Seq(Tokens) /\ Len(l) = Len(s) - k
      /\ Len(s) \in Nat /\ k \in 1..Len(s)
  <2>1. Len(s) \in Nat
    OBVIOUS
  <2> QED BY <2>1
<1>2. m \in Seq(Tokens) /\ Len(m) = 2 /\ m[2] = b
  OBVIOUS
<1> HIDE DEF f, m, l
<1>3. /\ f \o m \in Seq(Tokens) /\ Len(f \o m) = Len(f) + Len(m)
      /\ \A i \in 1..Len(f) + Len(m) : (f \o m)[i] = IF i <= Len(f) THEN f[i] ELSE m[i - Len(f)]
  BY <1>1, <1>2, ConcatProperties, Zenon
<1>4. Len(f \o m) = k + 1 /\ (f \o m)[k + 1] = b
  <2>1. Len(f) + Len(m) = k + 1 /\ k + 1 \in 1..Len(f) + Len(m) /\ ~(k + 1 <= Len(f)) /\ k + 1 - Len(f) = 2
    BY <1>1, <1>2
  <2>2. (f \o m)[k + 1] = m[k + 1 - Len(f)]
    BY <1>3, <2>1
  <2> QED BY <1>2, <1>3, <2>1, <2>2
<1> DEFINE g == f \o m
<1>5. g \in Seq(Tokens) /\ Len(g) = k + 1 /\ g[k + 1] = b
  BY <1>3, <1>4
<1> HIDE DEF g
<1>6. /\ g \o l \in Seq(Tokens) /\ Len(g \o l) = Len(g) + Len(l)
      /\ \A i \in 1..Len(g) + Len(l) : (g \o l)[i] = IF i <= Len(g) THEN g[i] ELSE l[i - Len(g)]
  BY <1>1, <1>5, ConcatProperties, Zenon
<1>7. Len(g \o l) = Len(s) + 1 /\ (g \o l)[k + 1] = b
  <2>1. Len(g) + Len(l) = Len(s) + 1 /\ k + 1 \in 1..Len(g) + Len(l) /\ k + 1 <= Len(g)
    BY <1>1, <1>5
  <2> QED BY <1>5, <1>6, <2>1
<1>8. Cut(s, k, <<a, b>>) = g \o l
  BY DEF Cut, f, m, l, g
<1> QED BY <1>6, <1>7, <1>8

\* What is left of s after a read: all the rest, or with part a piece of the
\* string of which the length has come.
Leaves(s, used, part, rest) ==
  /\ ~ part => rest = SubSeq(s, used + 1, Len(s))
  /\ part => used > 0 /\ rest # <<>> /\ rest[1].id = s[used].id

\* A read by a command of the kind from the stream s that cuts no line: its
\* result and what is left.
ReadFrom(s, kind, q, part, rest) ==
  /\ q.used \in 0..Len(s) /\ Leaves(s, q.used, part, rest)
  /\ ~ part => \E k \in 0..Len(s) : q = ReadReply(kind, SubSeq(s, 1, k))
  /\ part => q.err = "more" /\ ReadReply(kind, SubSeq(s, 1, q.used - 1)).err = "more"

LEMMA ReadingIs ==
  ASSUME NEW n \in Conns, conn[n] \in Connection, NEW kind, NEW reading \in Readings(kind, n)
  PROVE  /\ reading.line \in {"whole", "cut"} /\ reading.r.err \in Errs \ {"net"}
         /\ reading.left \in Connection /\ reading.left.watch = conn[n].watch
         /\ reading.left.sub = conn[n].sub /\ reading.left.owes = conn[n].owes
         /\ reading.line = "whole" =>
              \E part \in BOOLEAN : ReadFrom(conn[n].stream, kind, reading.r, part, reading.left.stream)
<1> DEFINE x == conn[n]
           s == x.stream
           Is(l) == /\ reading.line = l /\ reading.r.err \in Errs \ {"net"}
                    /\ reading.left \in Connection /\ reading.left.watch = x.watch
                    /\ reading.left.sub = x.sub /\ reading.left.owes = x.owes
<1>1. s \in Seq(Tokens) /\ Len(s) \in Nat /\ x \in Connection
  <2>1. s \in Seq(Tokens)
    BY Zenon, StreamIs
  <2> QED BY <2>1, LenProperties, Zenon
<1>2. \/ \E r \in Heard(kind, s) : reading = Reading(x, r, s, "whole")
      \/ \E k \in Asked(kind, s), t \in {"tail", "lf"} :
           reading = Reading(x, Waits(k), Cut(s, k, <<s[k], Token(s[k].id, t, 0)>>), "whole")
      \/ \E k \in Asked(kind, s) : \E c \in Cuts(s[k]), j \in {k, k + 1} :
           reading = Reading(x, ReadReply(kind, SubSeq(Cut(s, k, c), 1, j)), Cut(s, k, c), "cut")
  <2> DEFINE A == {Reading(x, r, s, "whole") : r \in Heard(kind, s)}
             B == {Reading(x, Waits(k), Cut(s, k, <<s[k], Token(s[k].id, t, 0)>>), "whole") :
                     k \in {k \in Asked(kind, s) : s[k].t \in {"$", "#"}}, t \in {"tail", "lf"}}
             D(k) == {Reading(x, ReadReply(kind, SubSeq(Cut(s, k, c), 1, j)), Cut(s, k, c), "cut") :
                        c \in Cuts(s[k]), j \in {k, k + 1}}
  <2>1. reading \in A \/ reading \in B \/ reading \in UNION {D(k) : k \in Asked(kind, s)}
    BY DEF Readings
  <2>2. reading \in A => \E r \in Heard(kind, s) : reading = Reading(x, r, s, "whole")
    OBVIOUS
  <2>3. reading \in B => \E k \in Asked(kind, s), t \in {"tail", "lf"} :
           reading = Reading(x, Waits(k), Cut(s, k, <<s[k], Token(s[k].id, t, 0)>>), "whole")
    OBVIOUS
  <2>4. reading \in UNION {D(k) : k \in Asked(kind, s)} =>
          \E k \in Asked(kind, s) : \E c \in Cuts(s[k]), j \in {k, k + 1} :
            reading = Reading(x, ReadReply(kind, SubSeq(Cut(s, k, c), 1, j)), Cut(s, k, c), "cut")
    OBVIOUS
  <2> HIDE DEF A, B, D
  <2> QED BY <2>1, <2>2, <2>3, <2>4
<1>3. \A k \in Asked(kind, s) : k \in 1..Len(s) /\ ReadReply(kind, SubSeq(s, 1, k - 1)).err = "more"
  BY DEF Asked
<1> HIDE DEF x, s
<1>4. ASSUME NEW r \in Heard(kind, s), reading = Reading(x, r, s, "whole")
      PROVE  Is("whole") /\ ReadFrom(s, kind, reading.r, FALSE, reading.left.stream)
  <2>1. PICK k \in 0..Len(s) : r = ReadReply(kind, SubSeq(s, 1, k))
    BY DEF Heard
  <2>2. /\ r.used \in 0..Len(s) /\ r.err \in Errs \ {"net"}
        /\ SubSeq(s, r.used + 1, Len(s)) \in Seq(Tokens)
    BY <1>1, <2>1, PrefixRead
  <2>3. /\ reading.r = r /\ reading.line = "whole" /\ reading.left \in Connection
        /\ reading.left.watch = x.watch /\ reading.left.sub = x.sub /\ reading.left.owes = x.owes
        /\ reading.left.stream = SubSeq(s, r.used + 1, Len(s))
    <3> DEFINE w == SubSeq(s, r.used + 1, Len(s))
    <3>1. reading.r = r /\ reading.line = "whole" /\ reading.left = Leaving(x, w)
      BY <1>4 DEF Reading, Leaving
    <3>2. w \in Seq(Tokens)
      BY <2>2
    <3> HIDE DEF w
    <3>3. /\ Leaving(x, w) \in Connection /\ Leaving(x, w).watch = x.watch /\ Leaving(x, w).sub = x.sub
          /\ Leaving(x, w).owes = x.owes /\ Leaving(x, w).stream = w
      BY <1>1, <3>2, LeftIs, Zenon
    <3> QED BY <3>1, <3>3 DEF w
  <2> QED BY <2>1, <2>2, <2>3 DEF ReadFrom, Leaves
<1>5. ASSUME NEW k \in Asked(kind, s), NEW t \in {"tail", "lf"},
             reading = Reading(x, Waits(k), Cut(s, k, <<s[k], Token(s[k].id, t, 0)>>), "whole")
      PROVE  Is("whole") /\ ReadFrom(s, kind, reading.r, TRUE, reading.left.stream)
  <2> DEFINE r == Waits(k)
             b == Token(s[k].id, t, 0)
             u == Cut(s, k, <<s[k], b>>)
  <2>1. k \in 1..Len(s) /\ k \in Nat /\ s[k] \in Tokens
    BY <1>1, <1>3
  <2>2. b \in Tokens /\ b.id = s[k].id
    BY <2>1 DEF Token, Tokens, Tags
  <2>3. r.used = k /\ r.err = "more"
    BY DEF Waits, Result
  <2> HIDE DEF b, r
  <2>4. u \in Seq(Tokens) /\ Len(u) = Len(s) + 1 /\ u[k + 1] = b
    BY <1>1, <2>1, <2>2, CutIs
  <2> HIDE DEF u
  <2>5. k + 1 \in 1..Len(u) /\ Len(u) \in Nat
    BY <1>1, <2>1, <2>4
  <2>6. /\ SubSeq(u, k + 1, Len(u)) \in Seq(Tokens) /\ SubSeq(u, k + 1, Len(u)) # <<>>
        /\ SubSeq(u, k + 1, Len(u))[1] = b
    <3>1. SubSeq(u, k + 1, Len(u)) \in Seq(Tokens)
      BY <2>4, <2>5
    <3> QED BY <2>4, <2>5, <3>1, RestIs
  <2>7. reading = Reading(x, r, u, "whole")
    BY <1>5 DEF r, u, b
  <2>8. /\ reading.r = r /\ reading.line = "whole" /\ reading.left \in Connection
        /\ reading.left.watch = x.watch /\ reading.left.sub = x.sub /\ reading.left.owes = x.owes
        /\ reading.left.stream = SubSeq(u, k + 1, Len(u))
    <3> DEFINE w == SubSeq(u, r.used + 1, Len(u))
    <3>1. reading.r = r /\ reading.line = "whole" /\ reading.left = Leaving(x, w)
      BY <2>7 DEF Reading, Leaving
    <3>2. w \in Seq(Tokens)
      BY <2>3, <2>6
    <3> HIDE DEF w
    <3>3. /\ Leaving(x, w) \in Connection /\ Leaving(x, w).watch = x.watch /\ Leaving(x, w).sub = x.sub
          /\ Leaving(x, w).owes = x.owes /\ Leaving(x, w).stream = w
      BY <1>1, <3>2, LeftIs, Zenon
    <3> QED BY <2>3, <3>1, <3>3 DEF w
  <2>9. k \in 0..Len(s) /\ k > 0 /\ ReadReply(kind, SubSeq(s, 1, k - 1)).err = "more"
    BY <1>3, <2>1
  <2>10. "more" \in Errs \ {"net"}
    BY DEF Errs
  <2> QED BY <2>2, <2>3, <2>6, <2>8, <2>9, <2>10 DEF ReadFrom, Leaves
<1>6. ASSUME NEW k \in Asked(kind, s), NEW c \in Cuts(s[k]), NEW j \in {k, k + 1},
             reading = Reading(x, ReadReply(kind, SubSeq(Cut(s, k, c), 1, j)), Cut(s, k, c), "cut")
      PROVE  Is("cut")
  <2> DEFINE u == Cut(s, k, c)
             r == ReadReply(kind, SubSeq(u, 1, j))
  <2>1. k \in 1..Len(s) /\ k \in Nat /\ s[k] \in Tokens
    BY <1>1, <1>3
  <2>2. c \in Tokens \X Tokens
    BY <2>1, CutsAre
  <2>3. c = <<c[1], c[2]>> /\ c[1] \in Tokens /\ c[2] \in Tokens
    BY <2>2
  <2>4. u \in Seq(Tokens) /\ Len(u) = Len(s) + 1
    <3>1. u = Cut(s, k, <<c[1], c[2]>>)
      BY <2>3, Zenon
    <3> QED BY <1>1, <2>1, <2>3, <3>1, CutIs
  <2> HIDE DEF u
  <2>5. j \in 0..Len(u)
    BY <1>1, <2>1, <2>4
  <2>6. r.err \in Errs \ {"net"} /\ SubSeq(u, r.used + 1, Len(u)) \in Seq(Tokens)
    BY <2>4, <2>5, PrefixRead
  <2>7. reading = Reading(x, r, u, "cut")
    BY <1>6 DEF u
  <2> HIDE DEF r
  <2>8. /\ reading.r = r /\ reading.line = "cut" /\ reading.left \in Connection
        /\ reading.left.watch = x.watch /\ reading.left.sub = x.sub /\ reading.left.owes = x.owes
    <3> DEFINE w == SubSeq(u, r.used + 1, Len(u))
    <3>1. reading.r = r /\ reading.line = "cut" /\ reading.left = Leaving(x, w)
      BY <2>7 DEF Reading, Leaving
    <3>2. w \in Seq(Tokens)
      BY <2>6
    <3> HIDE DEF w
    <3>3. /\ Leaving(x, w) \in Connection /\ Leaving(x, w).watch = x.watch /\ Leaving(x, w).sub = x.sub
          /\ Leaving(x, w).owes = x.owes /\ Leaving(x, w).stream = w
      BY <1>1, <3>2, LeftIs, Zenon
    <3> QED BY <3>1, <3>3 DEF w
  <2> QED BY <2>6, <2>8
<1>7. (Is("whole") /\ (\E part \in BOOLEAN : ReadFrom(s, kind, reading.r, part, reading.left.stream))) \/ Is("cut")
  BY <1>2, <1>4, <1>5, <1>6 DEF x, s
<1> QED BY <1>7 DEF x, s

\* What is pushed has a whole array first, in which parseSlice finds no error.
LEMMA PushWhole ==
  ASSUME NEW a, Push(a)
  PROVE  Whole(a, "slice") /\ a[1].t = "*" /\ \A i \in 1..4 : TokenErr(a, "slice", i) = ""
<1> DEFINE e == [i \in 1..3 |-> a[i + 1].t]
<1>1. /\ a \in Seq(Tokens) /\ Len(a) = 4 /\ a[1] = Token(Unasked, "*", 3)
      /\ \A i \in 2..4 : a[i] \in {Token(Unasked, "$", 0), Token(Unasked, ":", 0)}
  BY DEF Push
<1>2. ASSUME NEW i \in 1..3
      PROVE  a[i + 1].t \in {"$", ":"} /\ a[i + 1] = Token(Unasked, a[i + 1].t, 0)
  <2>1. i + 1 \in 2..4
    OBVIOUS
  <2>2. a[i + 1] \in {Token(Unasked, "$", 0), Token(Unasked, ":", 0)}
    BY <1>1, <2>1
  <2> QED BY <2>2, TokenIs
<1>3. e \in Seq(Tags) /\ Len(e) = 3 /\ \A i \in 1..3 : e[i] = a[i + 1].t
  <2>1. {"$", ":"} \subseteq Tags
    BY DEF Tags, Str
  <2>2. e \in [1..3 -> Tags]
    BY <1>2, <2>1
  <2>3. e \in Seq(Tags)
    BY <2>2
  <2> QED BY <2>3
<1>4. Unasked \in Ids
  BY DEF Unasked, Ids
<1> HIDE DEF e
<1> DEFINE b == Array(Unasked, e)
<1>5. /\ Whole(b, "slice") /\ Len(b) = 3 + 1 /\ b[1] = Token(Unasked, "*", 3)
      /\ \A i \in 1..3 : b[i + 1] = Token(Unasked, e[i], 0)
  <2>1. "slice" \notin Pairs
    BY DEF Pairs
  <2> QED BY <1>3, <1>4, <2>1, ArrayIs, Zenon
<1> HIDE DEF b
<1>6. a = b
  <2>1. b \in Seq(Tokens) /\ Len(b) = Len(a)
    BY <1>1, <1>5 DEF Whole
  <2>2. ASSUME NEW i \in 1..Len(a) PROVE a[i] = b[i]
    <3>1. CASE i = 1
      BY <1>1, <1>5, <3>1
    <3>2. CASE i # 1
      <4>1. i - 1 \in 1..3 /\ (i - 1) + 1 = i
        BY <1>1, <3>2
      <4> QED BY <1>2, <1>3, <1>5, <4>1
    <3> QED BY <3>1, <3>2
  <2> QED BY <1>1, <2>1, <2>2, SeqEqual
<1>7. a[1].t = "*"
  BY <1>1, TokenIs
<1>8. ASSUME NEW i \in 1..4 PROVE TokenErr(a, "slice", i) = ""
  <2>1. a[i].t \in {"*", "$", ":"}
    <3>1. CASE i = 1
      BY <1>7, <3>1
    <3>2. CASE i # 1
      <4>1. i - 1 \in 1..3 /\ (i - 1) + 1 = i
        BY <3>2
      <4> QED BY <1>2, <4>1
    <3> QED BY <3>1, <3>2
  <2>2. "$" \in Fits("slice", i - 1) /\ ":" \in Fits("slice", i - 1)
    BY DEF Fits, Str
  <2> QED BY <2>1, <2>2 DEF TokenErr, Unplaced
<1> QED BY <1>5, <1>6, <1>7, <1>8

\* A subscriber reads one array, or waits for the rest of it.
LEMMA SubscriberReads ==
  ASSUME NEW s \in Seq(Tokens), Pushed(s), NEW k \in 0..Len(s)
  PROVE  LET r == ReadReply("Slice", SubSeq(s, 1, k)) IN
         r.err \in {"", "more"} /\ (r.err = "" => s # <<>> /\ r.used = 4)
<1> DEFINE u == SubSeq(s, 1, k)
           a == SubSeq(s, 1, 4)
           q == ParseReply(u, "slice")
<1>1. u \in Seq(Tokens) /\ Len(u) = k /\ \A i \in 1..k : u[i] = s[i]
  <2>1. Len(s) \in Nat
    OBVIOUS
  <2> QED BY <2>1
<1>2. ReadReply("Slice", u) = Parse("Slice", u) /\ ParserOf("Slice") = "slice" /\ "slice" \in Want("Slice")
  BY ParsersAre DEF ReadReply
<1> HIDE DEF u
<1>3. \/ q = Result(Len(u), "more", "")
      \/ s # <<>> /\ q = Result(4, "", "slice")
  <2>1. CASE s = <<>>
    <3>1. Len(u) = 0
      BY <1>1, <2>1
    <3>2. \A j \in 1..Len(u) : ~ Ends(u, "slice", j)
      BY <3>1
    <3> QED BY <1>1, <3>2, ParseCut
  <2>2. CASE s # <<>>
    <3>1. Push(a) /\ \A i \in 1..4 : a[i] = s[i]
      BY <2>2, PushedRest
    <3> HIDE DEF a
    <3>2. Whole(a, "slice") /\ Len(a) = 4 /\ a[1].t = "*" /\ \A i \in 1..4 : TokenErr(a, "slice", i) = ""
      BY <3>1, PushWhole DEF Push
    <3>3. Begins(u, a)
      <4>1. ASSUME NEW i \in 1..Len(u), i <= Len(a) PROVE u[i] = a[i]
        <5>1. i \in 1..4 /\ i \in 1..k
          <6>1. Len(u) = k /\ Len(a) = 4
            BY <1>1, <3>2
          <6> QED BY <4>1, <6>1
        <5> QED BY <1>1, <3>1, <5>1
      <4> QED BY <4>1 DEF Begins
    <3>4. ASSUME Parsed(a, "slice", q) PROVE q = Result(4, "", "slice")
      <4>1. PICK j \in 1..4 : /\ TokenErr(a, "slice", j) = "" => j = 4
                              /\ q = Result(j, TokenErr(a, "slice", j), Got(a, "slice", j))
        BY <3>2, <3>4, Zenon DEF Parsed
      <4>2. TokenErr(a, "slice", j) = "" /\ j = 4
        BY <3>2, <4>1
      <4>3. Got(a, "slice", j) = "slice"
        BY <3>2, <4>2, Zenon DEF Got
      <4> QED BY <4>1, <4>2, <4>3, Zenon
    <3> QED BY <1>1, <2>2, <3>2, <3>3, <3>4, NeverBeyond
  <2> QED BY <2>1, <2>2
<1>4. /\ q.err \in {"", "more"} /\ (q.err = "" => s # <<>> /\ q.used = 4)
      /\ q.err = "" => q.got = "slice"
  <2>1. Result(Len(u), "more", "").err = "more"
    BY DEF Result
  <2>2. Result(4, "", "slice").err = "" /\ Result(4, "", "slice").used = 4 /\ Result(4, "", "slice").got = "slice"
    BY DEF Result
  <2> HIDE DEF q
  <2> QED BY <1>3, <2>1, <2>2
<1>5. Parse("Slice", u) = q
  <2>1. ~(q.err = "" /\ q.got \notin Want("Slice")) /\ "Slice" # "Float"
    BY <1>2, <1>4
  <2> QED BY <1>2, <2>1, Zenon DEF Parse
<1>6. ReadReply("Slice", u) = q
  BY <1>2, <1>5
<1> HIDE DEF q
<1>7. LET r == ReadReply("Slice", u) IN
      r.err \in {"", "more"} /\ (r.err = "" => s # <<>> /\ r.used = 4)
  BY <1>4, <1>6
<1> QED BY <1>7 DEF u

LEMMA ReceiveInv == ASSUME IInv, NEW c \in Clients, Receive(c) PROVE IInv'
<1> DEFINE n == client[c].single
<1>1. /\ client[c].mode = "pubsub" /\ client[c].reads = <<>> /\ client[c].err # "panic" /\ n # None
      /\ UNCHANGED <<idle, sent>>
  BY DEF Receive, Ready
<1>2. PICK reading \in Readings("Slice", n) :
         /\ conn' = [conn EXCEPT ![n] = [reading.left EXCEPT
               !.owes = IF reading.r.err = "more" THEN "cut" ELSE IF reading.line = "cut" THEN "line" ELSE @]]
         /\ client' = [client EXCEPT ![c].err = reading.r.err]
  BY DEF Receive
<1> DEFINE r == reading.r
           x == [reading.left EXCEPT
               !.owes = IF reading.r.err = "more" THEN "cut" ELSE IF reading.line = "cut" THEN "line" ELSE @]
           k == [client[c] EXCEPT !.err = reading.r.err]
           s == conn[n].stream
<1>3. /\ client[c] \in Session /\ client[c].cn = None /\ Hands(client[c]) = {n} /\ n \in Conns
      /\ SubOK(client[c], conn[n])
  BY <1>1, Rests DEF Between, Session
<1>4. conn[n] \in Connection /\ s \in Seq(Tokens)
  BY <1>3, StreamIs DEF IInv, TypeOK
<1> HIDE DEF n
<1>5. /\ reading.line \in {"whole", "cut"} /\ r.err \in Errs \ {"net"}
      /\ reading.left \in Connection /\ reading.left.owes = conn[n].owes
      /\ reading.line = "whole" /\ r.err # "more" =>
           /\ \E i \in 0..Len(s) : r = ReadReply("Slice", SubSeq(s, 1, i))
           /\ reading.left.stream = SubSeq(s, r.used + 1, Len(s))
  <2>1. /\ reading.line \in {"whole", "cut"} /\ r.err \in Errs \ {"net"}
        /\ reading.left \in Connection /\ reading.left.owes = conn[n].owes
        /\ reading.line = "whole" => \E part \in BOOLEAN : ReadFrom(s, "Slice", r, part, reading.left.stream)
    BY <1>3, <1>4, ReadingIs
  <2> HIDE DEF r, s
  <2>2. ASSUME reading.line = "whole", r.err # "more"
        PROVE  /\ \E i \in 0..Len(s) : r = ReadReply("Slice", SubSeq(s, 1, i))
               /\ reading.left.stream = SubSeq(s, r.used + 1, Len(s))
    <3>1. PICK part \in BOOLEAN : ReadFrom(s, "Slice", r, part, reading.left.stream)
      BY <2>1, <2>2
    <3>2. ~ part
      BY <2>2, <3>1 DEF ReadFrom
    <3> QED BY <3>1, <3>2 DEF ReadFrom, Leaves
  <2> QED BY <2>1, <2>2
<1>6. /\ x \in Connection /\ x.stream = reading.left.stream
      /\ x.owes = IF r.err = "more" THEN "cut" ELSE IF reading.line = "cut" THEN "line" ELSE conn[n].owes
  BY <1>5 DEF Connection
<1>7. /\ k \in Session /\ k.mode = "pubsub" /\ k.reads = <<>> /\ k.err = r.err /\ k.cn = None /\ k.single = n
  BY <1>1, <1>3, <1>5 DEF Session, n
<1>8. conn' = [conn EXCEPT ![n] = x] /\ client' = [client EXCEPT ![c] = k]
  BY <1>2
<1> HIDE DEF x, k, r, s
<1>9. ASSUME x.owes = "" PROVE Pushed(x.stream) /\ r.err # "panic"
  <2>1. conn[n].owes = "" /\ reading.line = "whole" /\ r.err # "more"
    BY <1>5, <1>6, <1>9
  <2>2. Pushed(s)
    BY <1>3, <2>1 DEF SubOK, s
  <2>3. r.err = "" /\ s # <<>> /\ r.used = 4
    BY <1>4, <1>5, <2>1, <2>2, SubscriberReads
  <2>4. x.stream = SubSeq(s, 5, Len(s))
    <3>1. 4 + 1 = 5
      OBVIOUS
    <3> QED BY <1>5, <1>6, <2>1, <2>3, <3>1, Zenon
  <2> QED BY <1>4, <2>2, <2>3, <2>4, PushedRest
<1>10. SessionOK(k, x)
  <2>1. x.owes # "net"
    BY <1>3, <1>6 DEF SubOK
  <2>2. SubOK(k, x)
    BY <1>7, <1>9, <2>1 DEF SubOK
  <2> QED BY <1>1, <1>7, <2>2 DEF SessionOK, Between
<1>11. /\ Hands(k) = {n} /\ n \notin idle /\ \A d \in Clients \ {c} : n \notin Hands(client[d])
  <2>1. Hands(k) = {n}
    BY <1>1, <1>7 DEF Hands, n
  <2> QED BY <1>3, <2>1 DEF IInv, Apart
<1>12. sent' \in Nat
  BY <1>1, Zenon DEF IInv, TypeOK
<1> QED BY <1>1, <1>3, <1>6, <1>7, <1>8, <1>10, <1>11, <1>12, Frame

-----------------------------------------------------------------------------
(* A command reads a reply that belongs to it. *)

LEMMA KindIs == \A m \in Methods : Kind[m] # "header"
<1>1. ASSUME NEW kind, NEW type \in Types, FitsReply(kind, type) PROVE kind # "header"
  BY <1>1 DEF FitsReply, Types
<1> QED BY <1>1, CommandsFit, TypeIs

\* The replies that a read may get.
LEMMA AnswerOf ==
  ASSUME NEW e, e.id \in Ids, NEW r \in Answers(e)
  PROVE  /\ Proper(e.kind, e.id, r) /\ e.kind # "header"
         /\ e.cmd # "Sort" => Served(e.kind, r)
<1>1. e.cmd \in Methods /\ e.kind = Kind[e.cmd] /\ r \in Replies(ServerType(e.cmd), e.id)
  BY DEF Answers
<1> QED BY <1>1, AnswerIs, KindIs DEF Good

\* A reading stays within the reply r that the stream begins with.
LEMMA ReadWithin ==
  ASSUME NEW kind, kind # "header", NEW id, NEW r, Proper(kind, id, r), NEW t \in Seq(Tokens),
         NEW k \in 0..Len(r \o t)
  PROVE  LET q == ReadReply(kind, SubSeq(r \o t, 1, k)) IN
         /\ q.used <= Len(r)
         /\ q.err = "more" => k < Len(r)
         /\ Served(kind, r) => q.err # "panic"
         /\ q.err = "" => TokenErr(r, ParserOf(kind), 1) = ""
<1> DEFINE s == r \o t
           u == SubSeq(s, 1, k)
<1>1. r \in Seq(Tokens) /\ Len(r) \in Nat /\ Len(t) \in Nat
  BY DEF Proper, Whole
<1>2. /\ s \in Seq(Tokens) /\ Len(s) = Len(r) + Len(t)
      /\ \A i \in 1..Len(r) + Len(t) : s[i] = IF i <= Len(r) THEN r[i] ELSE t[i - Len(r)]
  BY <1>1, ConcatProperties, Zenon
<1> HIDE DEF s
<1>3. Len(s) \in Nat /\ k \in 0..Len(s)
  BY <1>1, <1>2 DEF s
<1>4. u \in Seq(Tokens) /\ Len(u) = k /\ \A i \in 1..k : u[i] = s[i]
  BY <1>2, <1>3
<1> HIDE DEF u
<1>5. Begins(u, r)
  <2>1. ASSUME NEW i \in 1..Len(u), i <= Len(r) PROVE u[i] = r[i]
    <3>1. i \in 1..k
      BY <1>4
    <3>2. i \in 1..Len(r) + Len(t)
      BY <1>1, <2>1
    <3> QED BY <1>2, <1>4, <2>1, <3>1, <3>2
  <2> QED BY <2>1 DEF Begins
<1>6. ReadReply(kind, u) = Parse(kind, u)
  BY DEF ReadReply
<1>7. Sound(Parse(kind, u), u, r)
  BY <1>4, <1>5, ParseIs
<1>8. ReadReply(kind, u).used <= Len(r)
  BY <1>6, <1>7 DEF Sound
<1>9. Served(kind, r) => ReadReply(kind, u).err # "panic"
  BY <1>4, <1>5, <1>6, ParseIs
<1>10. ReadReply(kind, u).err = "" => TokenErr(r, ParserOf(kind), 1) = ""
  BY <1>4, <1>5, <1>6, ParseIs
<1>11. ReadReply(kind, u).err = "more" => k < Len(r)
  BY <1>4, <1>6, <1>7 DEF Sound
<1> QED BY <1>8, <1>9, <1>10, <1>11 DEF s, u

\* The reply r is over when nothing with its id comes next.
LEMMA NextBegins ==
  ASSUME NEW id, NEW r \in Seq(Tokens), \A i \in 1..Len(r) : r[i].id = id, NEW t \in Seq(Tokens),
         NEW used \in Nat, used <= Len(r), NEW part, NEW rest,
         Leaves(r \o t, used, part, rest), rest = <<>> \/ rest[1].id # id
  PROVE  rest = t
<1> DEFINE s == r \o t
<1>1. /\ s \in Seq(Tokens) /\ Len(s) = Len(r) + Len(t) /\ Len(r) \in Nat /\ Len(t) \in Nat
      /\ \A i \in 1..Len(r) + Len(t) : s[i] = IF i <= Len(r) THEN r[i] ELSE t[i - Len(r)]
  BY ConcatProperties, LenProperties, Zenon
<1> HIDE DEF s
<1>2. ~ part => rest = SubSeq(s, used + 1, Len(s))
  BY DEF Leaves, s
<1>3. part => used > 0 /\ rest # <<>> /\ rest[1].id = s[used].id
  BY DEF Leaves, s
<1>4. ASSUME NEW i \in 1..Len(r) PROVE s[i].id = id
  <2>1. i \in 1..Len(r) + Len(t) /\ i <= Len(r)
    BY <1>1
  <2> QED BY <1>1, <2>1
<1>5. ~ part
  <2>1. SUFFICES ASSUME part PROVE FALSE
    OBVIOUS
  <2>2. used \in 1..Len(r)
    BY <1>1, <1>3, <2>1
  <2> QED BY <1>3, <1>4, <2>1, <2>2
<1>6. used = Len(r)
  <2>1. SUFFICES ASSUME used # Len(r) PROVE FALSE
    OBVIOUS
  <2>2. used + 1 \in 1..Len(r) /\ used + 1 \in 1..Len(s)
    BY <1>1, <2>1
  <2>3. rest # <<>> /\ rest[1] = s[used + 1]
    <3>1. SubSeq(s, used + 1, Len(s)) # <<>> /\ SubSeq(s, used + 1, Len(s))[1] = s[used + 1]
      BY <1>1, <2>2, RestIs
    <3> QED BY <1>2, <1>5, <3>1
  <2> QED BY <1>4, <2>2, <2>3
<1>7. SubSeq(s, Len(r) + 1, Len(s)) = t
  <2>1. /\ SubSeq(s, Len(r) + 1, Len(s)) \in Seq(Tokens)
        /\ Len(SubSeq(s, Len(r) + 1, Len(s))) = Len(t)
        /\ \A i \in 1..Len(t) : SubSeq(s, Len(r) + 1, Len(s))[i] = s[Len(r) + i]
    BY <1>1
  <2>2. ASSUME NEW i \in 1..Len(t) PROVE s[Len(r) + i] = t[i]
    <3>1. Len(r) + i \in 1..Len(r) + Len(t) /\ ~(Len(r) + i <= Len(r)) /\ Len(r) + i - Len(r) = i
      BY <1>1
    <3> QED BY <1>1, <3>1
  <2> QED BY <2>1, <2>2, SeqEqual
<1> QED BY <1>2, <1>5, <1>6, <1>7

\* Nothing of the command is left, or nothing at all.
Passed(id, rest) == rest = <<>> \/ rest[1].id # id

LEMMA OwnRead ==
  ASSUME NEW kind, kind # "header", NEW id, NEW r, Proper(kind, id, r), NEW t \in Seq(Tokens),
         NEW q, NEW part, NEW rest, ReadFrom(r \o t, kind, q, part, rest),
         Passed(id, rest)
  PROVE  rest = t
<1>1. q.used \in 0..Len(r \o t)
  BY DEF ReadFrom
<1>2. q.used <= Len(r)
  <2>1. CASE part
    <3> DEFINE k == q.used - 1
    <3>1. ReadReply(kind, SubSeq(r \o t, 1, k)).err = "more" /\ q.used > 0
      BY <2>1 DEF ReadFrom, Leaves
    <3>2. k \in 0..Len(r \o t)
      <4>1. r \o t \in Seq(Tokens)
        <5>1. r \in Seq(Tokens)
          BY DEF Proper, Whole
        <5> QED BY <5>1, ConcatProperties, Zenon
      <4>2. Len(r \o t) \in Nat
        BY <4>1, LenProperties, Zenon
      <4> QED BY <1>1, <3>1, <4>2
    <3> HIDE DEF k
    <3>3. k < Len(r)
      BY <3>1, <3>2, ReadWithin
    <3>4. Len(r) \in Nat
      <4>1. r \in Seq(Tokens)
        BY DEF Proper, Whole
      <4> QED BY <4>1, LenProperties, Zenon
    <3> QED BY <1>1, <3>3, <3>4 DEF k
  <2>2. CASE ~ part
    <3>1. PICK k \in 0..Len(r \o t) : q = ReadReply(kind, SubSeq(r \o t, 1, k))
      BY <2>2 DEF ReadFrom
    <3> QED BY <3>1, ReadWithin
  <2> QED BY <2>1, <2>2
<1>3. r \in Seq(Tokens) /\ \A i \in 1..Len(r) : r[i].id = id
  BY DEF Proper, Whole
<1>4. q.used \in 0..Len(r \o t) /\ Leaves(r \o t, q.used, part, rest)
  BY DEF ReadFrom
<1>5. q.used \in Nat /\ (rest = <<>> \/ rest[1].id # id)
  BY <1>4 DEF Passed
<1> QED BY <1>2, <1>3, <1>4, <1>5, NextBegins

LEMMA OwnReadServed ==
  ASSUME NEW kind, kind # "header", NEW id, NEW r, Proper(kind, id, r), NEW t \in Seq(Tokens),
         NEW q, NEW part, NEW rest, ReadFrom(r \o t, kind, q, part, rest),
         Served(kind, r)
  PROVE  q.err # "panic"
<1> SUFFICES ASSUME ~ part PROVE q.err # "panic"
  BY DEF ReadFrom
<1>1. PICK k \in 0..Len(r \o t) : q = ReadReply(kind, SubSeq(r \o t, 1, k))
  BY DEF ReadFrom
<1> QED BY <1>1, ReadWithin

LEMMA OwnReadFirst ==
  ASSUME NEW kind, kind # "header", NEW id, NEW r, Proper(kind, id, r), NEW t \in Seq(Tokens),
         NEW q, NEW part, NEW rest, ReadFrom(r \o t, kind, q, part, rest),
         q.err = ""
  PROVE  TokenErr(r, ParserOf(kind), 1) = ""
<1>1. PICK k \in 0..Len(r \o t) : q = ReadReply(kind, SubSeq(r \o t, 1, k))
  <2>1. ~ part
    BY DEF ReadFrom
  <2> QED BY <2>1 DEF ReadFrom
<1> QED BY <1>1, ReadWithin

\* A status reply with what comes after it.
LEMMA StatusIs ==
  ASSUME NEW kind \in {"Status", "String"}, NEW id \in Ids, NEW t \in {"+", "-"}, NEW s \in Seq(Tokens),
         s # <<>>, s[1] = Token(id, t, 0), NEW q, NEW part, NEW rest, ReadFrom(s, kind, q, part, rest)
  PROVE  /\ kind # "header" /\ Proper(kind, id, Simple(id, t)) /\ Served(kind, Simple(id, t))
         /\ Tail(s) \in Seq(Tokens) /\ ReadFrom(Simple(id, t) \o Tail(s), kind, q, part, rest)
         /\ t = "-" => TokenErr(Simple(id, t), ParserOf(kind), 1) # ""
<1> DEFINE r == Simple(id, t)
<1>1. Tail(s) \in Seq(Tokens) /\ s = r \o Tail(s)
  <2>1. s = <<s[1]>> \o Tail(s) /\ Tail(s) \in Seq(Tokens)
    OBVIOUS
  <2> QED BY <2>1 DEF Simple
<1>2. Proper(kind, id, r) /\ Served(kind, r)
  <2>1. t \in {"-", "nil"} \cup Want(kind)
    BY ParsersAre DEF Str
  <2> QED BY <2>1, SimpleAnswer
<1>3. ASSUME t = "-" PROVE TokenErr(r, ParserOf(kind), 1) # ""
  <2>1. r[1].t = "-"
    BY <1>3, TokenIs DEF Simple
  <2> QED BY <2>1 DEF TokenErr
<1> HIDE DEF r
<1>4. ReadFrom(r \o Tail(s), kind, q, part, rest)
  BY <1>1, Zenon
<1> QED BY <1>1, <1>2, <1>3, <1>4 DEF r

LEMMA StatusRead ==
  ASSUME NEW kind \in {"Status", "String"}, NEW id \in Ids, NEW t \in {"+", "-"}, NEW s \in Seq(Tokens),
         s # <<>>, s[1] = Token(id, t, 0), NEW q, NEW part, NEW rest, ReadFrom(s, kind, q, part, rest)
  PROVE  q.err # "panic" /\ (q.err = "" => t = "+")
<1> DEFINE r == Simple(id, t)
<1>1. /\ kind # "header" /\ Proper(kind, id, r) /\ Served(kind, r)
      /\ Tail(s) \in Seq(Tokens) /\ ReadFrom(r \o Tail(s), kind, q, part, rest)
  BY StatusIs
<1>2. t = "-" => TokenErr(r, ParserOf(kind), 1) # ""
  BY StatusIs
<1> HIDE DEF r
<1>3. q.err # "panic"
  BY <1>1, OwnReadServed
<1>4. ASSUME q.err = "" PROVE TokenErr(r, ParserOf(kind), 1) = ""
  BY <1>1, <1>4, OwnReadFirst
<1> QED BY <1>2, <1>3, <1>4

LEMMA StatusRest ==
  ASSUME NEW kind \in {"Status", "String"}, NEW id \in Ids, NEW t \in {"+", "-"}, NEW s \in Seq(Tokens),
         s # <<>>, s[1] = Token(id, t, 0), NEW q, NEW part, NEW rest, ReadFrom(s, kind, q, part, rest),
         Passed(id, rest)
  PROVE  rest = Tail(s)
<1> DEFINE r == Simple(id, t)
<1>1. /\ kind # "header" /\ Proper(kind, id, r)
      /\ Tail(s) \in Seq(Tokens) /\ ReadFrom(r \o Tail(s), kind, q, part, rest)
  BY StatusIs
<1> HIDE DEF r
<1> QED BY <1>1, OwnRead

\* The number of replies to EXEC.
LEMMA HeaderRead ==
  ASSUME NEW s \in Seq(Tokens), s # <<>> => s[1].t # "lf",
         NEW q, NEW part, NEW rest, ReadFrom(s, "header", q, part, rest)
  PROVE  /\ q.err # "panic" /\ q.used \in Nat /\ q.used <= 1
         /\ q.err = "" => s # <<>> /\ s[1].t \in {"*", "*?"}
<1>1. ASSUME NEW k \in 0..Len(s)
      PROVE  LET u == SubSeq(s, 1, k)
                 h == ReadReply("header", u)
             IN /\ h.err # "panic" /\ h.used \in Nat /\ h.used <= 1
                /\ h.err = "" => s # <<>> /\ s[1].t \in {"*", "*?"}
                /\ h.err = "more" => k = 0
  <2> DEFINE u == SubSeq(s, 1, k)
  <2>1. Len(s) \in Nat /\ u \in Seq(Tokens) /\ Len(u) = k /\ \A i \in 1..k : u[i] = s[i]
    <3>1. Len(s) \in Nat
      OBVIOUS
    <3> QED BY <3>1
  <2> HIDE DEF u
  <2>2. ReadReply("header", u) = ReadHeader(u)
    BY DEF ReadReply
  <2>3. CASE u = <<>>
    <3>1. ReadHeader(u).used = 0 /\ ReadHeader(u).err = "more" /\ k = 0
      BY <2>1, <2>3, HeaderIs, EmptySeq
    <3>2. 0 \in Nat /\ 0 <= 1
      OBVIOUS
    <3> QED BY <2>2, <3>1, <3>2 DEF u
  <2>4. CASE u # <<>>
    <3>1. k # 0
      BY <2>1, <2>4, EmptySeq
    <3>2. 1 \in 1..k /\ Len(s) # 0
      BY <2>1, <3>1
    <3>3. s # <<>> /\ u[1] = s[1]
      BY <2>1, <3>2
    <3>4. /\ ReadHeader(u).used = 1 /\ ReadHeader(u).err \in {"", "nil", "bad", "panic"}
          /\ ReadHeader(u).err = "" => s[1].t \in {"*", "*?"}
          /\ ReadHeader(u).err # "panic" /\ ReadHeader(u).err # "more"
      <4>1. s # <<>> /\ u[1].t # "lf" /\ u[1] = s[1]
        BY <3>3
      <4> HIDE DEF u
      <4> QED BY <2>1, <2>4, <4>1, HeaderIs, Zenon
    <3>5. 1 \in Nat /\ 1 <= 1
      OBVIOUS
    <3> QED BY <2>2, <3>3, <3>4, <3>5 DEF u
  <2> QED BY <2>3, <2>4
<1>2. CASE part
  <2> DEFINE k == q.used - 1
  <2>1. /\ q.err = "more" /\ q.used > 0 /\ q.used \in 0..Len(s)
        /\ ReadReply("header", SubSeq(s, 1, k)).err = "more"
    BY <1>2 DEF ReadFrom, Leaves
  <2>2. k \in 0..Len(s)
    <3>1. Len(s) \in Nat
      OBVIOUS
    <3> QED BY <2>1, <3>1
  <2> HIDE DEF k
  <2>3. k = 0
    BY <1>1, <2>1, <2>2
  <2>4. q.used \in Nat /\ q.used <= 1
    BY <2>1, <2>3 DEF k
  <2> QED BY <2>1, <2>4
<1>3. CASE ~ part
  <2>1. PICK k \in 0..Len(s) : q = ReadReply("header", SubSeq(s, 1, k))
    BY <1>3 DEF ReadFrom
  <2> QED BY <1>1, <2>1
<1> QED BY <1>2, <1>3

LEMMA OneIs ==
  ASSUME NEW S, NEW s \in Seq(S), Len(s) = 1
  PROVE  s[1] \in S
OBVIOUS

LEMMA TwoAre ==
  ASSUME NEW S, NEW s \in Seq(S), Len(s) = 2
  PROVE  s[1] \in S /\ s[2] \in S /\ Len(Tail(s)) = 1 /\ Tail(s)[1] = s[2]
<1>1. s # <<>>
  <2>1. Len(<<>>) # 2
    OBVIOUS
  <2> QED BY <2>1, Zenon
<1>2. s[1] \in S /\ s[2] \in S
  <2>1. 1 \in 1..Len(s) /\ 2 \in 1..Len(s)
    OBVIOUS
  <2> QED BY <2>1, ElementOfSeq, Zenon
<1>3. Len(Tail(s)) = Len(s) - 1 /\ \A i \in 1..Len(Tail(s)) : Tail(s)[i] = s[i + 1]
  BY <1>1, HeadTailProperties, Zenon
<1> QED BY <1>2, <1>3

LEMMA LastDueRead ==
  ASSUME NEW reads \in Seq(Reads), NEW s \in Seq(Tokens), NEW watch, LastDue(reads, s, watch),
         NEW q, NEW part, NEW rest, ReadFrom(s, reads[1].kind, q, part, rest)
  PROVE  /\ q.err = "panic" => reads[1].cmd = "Sort"
         /\ reads[1].then = "close" /\ q.err = "" => watch # "yes"
<1> DEFINE e == reads[1]
<1>1. e \in Reads /\ s \in Answers(e)
  <2>1. Len(reads) = 1
    BY DEF LastDue
  <2> QED BY <2>1, OneIs DEF LastDue
<1>2. e.id \in Ids
  BY <1>1 DEF Reads
<1>3. /\ e.then = "close" =>
           /\ e.kind \in {"Status", "String"} /\ s \in {Simple(e.id, "+"), Simple(e.id, "-")}
           /\ s[1].t = "+" => watch # "yes"
      /\ ReadFrom(s, e.kind, q, part, rest)
  BY DEF LastDue
<1> HIDE DEF e
<1>4. /\ Proper(e.kind, e.id, s) /\ e.kind # "header"
      /\ e.cmd # "Sort" => Served(e.kind, s)
  BY <1>1, <1>2, AnswerOf
<1>5. s \o <<>> = s /\ <<>> \in Seq(Tokens)
  BY ConcatEmptySeq, EmptySeq, Zenon
<1>6. ReadFrom(s \o <<>>, e.kind, q, part, rest)
  BY <1>3, <1>5, Zenon
<1>7. Served(e.kind, s) => q.err # "panic"
  <2>1. Proper(e.kind, e.id, s) /\ e.kind # "header"
    BY <1>4
  <2>2. ASSUME Served(e.kind, s) PROVE q.err # "panic"
    BY <1>5, <1>6, <2>1, <2>2, OwnReadServed
  <2> QED BY <2>2
<1>8. ASSUME e.then = "close", q.err = "" PROVE watch # "yes"
  <2>1. PICK t \in {"+", "-"} : s = Simple(e.id, t)
    BY <1>3, <1>8
  <2>2. s # <<>> /\ s[1] = Token(e.id, t, 0)
    BY <2>1 DEF Simple
  <2>3. e.kind \in {"Status", "String"}
    BY <1>3, <1>8
  <2>4. t = "+"
    BY <1>2, <1>3, <1>8, <2>2, <2>3, StatusRead
  <2>5. s[1].t = "+"
    BY <2>2, <2>4, TokenIs
  <2> QED BY <1>3, <1>8, <2>5
<1> QED BY <1>4, <1>7, <1>8 DEF e

LEMMA PipeDueRead ==
  ASSUME NEW reads \in Seq(Reads), NEW s, PipeDue(reads, s), NEW watch,
         NEW q, NEW part, NEW rest, ReadFrom(s, reads[1].kind, q, part, rest)
  PROVE  /\ q.err = "panic" => reads[1].cmd = "Sort"
         /\ Passed(reads[1].id, rest) => LastDue(Tail(reads), rest, watch)
<1> DEFINE d == reads[1]
           e == reads[2]
<1>1. /\ d \in Reads /\ e \in Reads /\ e.then = "go"
      /\ Len(Tail(reads)) = 1 /\ Tail(reads)[1] = e
  <2>1. Len(reads) = 2 /\ reads[2].then = "go"
    BY DEF PipeDue
  <2> QED BY <2>1, TwoAre
<1>2. d.id \in Ids /\ e.id \in Ids
  BY <1>1 DEF Reads
<1>3. PICK r \in Answers(d), t \in Answers(e) : s = r \o t
  BY DEF PipeDue
<1>4. ReadFrom(r \o t, d.kind, q, part, rest)
  BY <1>3, Zenon
<1> HIDE DEF d, e
<1>5. /\ Proper(d.kind, d.id, r) /\ d.kind # "header"
      /\ d.cmd # "Sort" => Served(d.kind, r)
  BY <1>2, AnswerOf
<1>6. t \in Seq(Tokens)
  <2>1. Proper(e.kind, e.id, t)
    BY <1>2, AnswerOf
  <2> QED BY <2>1 DEF Proper, Whole
<1>7. /\ Passed(d.id, rest) => rest = t
      /\ Served(d.kind, r) => q.err # "panic"
  <2>1. Proper(d.kind, d.id, r) /\ d.kind # "header"
    BY <1>5
  <2>2. ASSUME Passed(d.id, rest) PROVE rest = t
    BY <1>4, <1>6, <2>1, <2>2, OwnRead
  <2>3. ASSUME Served(d.kind, r) PROVE q.err # "panic"
    BY <1>4, <1>6, <2>1, <2>3, OwnReadServed
  <2> QED BY <2>2, <2>3
<1>8. LastDue(Tail(reads), t, watch)
  BY <1>1 DEF LastDue
<1> QED BY <1>5, <1>7, <1>8 DEF d

LEMMA ExecDueRead ==
  ASSUME NEW reads \in Seq(Reads), NEW s \in Seq(Tokens), ExecDue(reads, s), NEW watch,
         NEW q, NEW part, NEW rest, ReadFrom(s, reads[1].kind, q, part, rest)
  PROVE  /\ q.err # "panic"
         /\ q.err = "" /\ Passed(reads[1].id, rest) => LastDue(Tail(reads), rest, watch)
<1> DEFINE d == reads[1]
           e == reads[2]
           h == Token(d.id, "*", 1)
<1>1. /\ d \in Reads /\ e \in Reads /\ e.then = "go" /\ d.kind = "header"
      /\ Len(Tail(reads)) = 1 /\ Tail(reads)[1] = e
  <2>1. Len(reads) = 2 /\ reads[2].then = "go" /\ reads[1].kind = "header"
    BY DEF ExecDue
  <2> QED BY <2>1, TwoAre
<1>2. d.id \in Ids /\ e.id \in Ids
  BY <1>1 DEF Reads
<1>3. \/ s \in {Simple(d.id, "nil"), Simple(d.id, "-")}
      \/ \E r \in Answers(e) : s = <<h>> \o r
  BY DEF ExecDue
<1>4. ReadFrom(s, "header", q, part, rest)
  BY <1>1
<1> HIDE DEF d, e
<1>5. /\ q.err # "panic" /\ q.used \in Nat /\ q.used <= 1
      /\ q.err = "" => s # <<>> /\ s[1].t \in {"*", "*?"}
  <2>1. ASSUME NEW r \in Answers(e), s = <<h>> \o r PROVE s[1] = h
    <3>1. r \in Seq(Tokens)
      <4>1. Proper(e.kind, e.id, r)
        BY <1>2, AnswerOf
      <4> QED BY <4>1 DEF Proper, Whole
    <3>2. h \in Tokens
      BY <1>2 DEF Token, Tokens, Tags, Ids
    <3> HIDE DEF h
    <3> QED BY <2>1, <3>1, <3>2, TailIs, Zenon
  <2>2. s[1] \in {Token(d.id, "nil", 0), Token(d.id, "-", 0), h}
    BY <1>3, <2>1 DEF Simple
  <2>3. s[1].t # "lf"
    BY <2>2, TokenIs
  <2> QED BY <1>4, <2>3, HeaderRead
<1>6. ASSUME q.err = "", Passed(d.id, rest) PROVE LastDue(Tail(reads), rest, watch)
  <2>1. s \notin {Simple(d.id, "nil"), Simple(d.id, "-")}
    <3>1. Simple(d.id, "nil")[1].t = "nil" /\ Simple(d.id, "-")[1].t = "-"
      BY TokenIs DEF Simple
    <3> QED BY <1>5, <1>6, <3>1
  <2>2. PICK r \in Answers(e) : s = <<h>> \o r
    BY <1>3, <2>1
  <2>3. r \in Seq(Tokens)
    <3>1. Proper(e.kind, e.id, r)
      BY <1>2, AnswerOf
    <3> QED BY <3>1 DEF Proper, Whole
  <2>4. <<h>> \in Seq(Tokens) /\ Len(<<h>>) = 1 /\ \A i \in 1..Len(<<h>>) : <<h>>[i].id = d.id
    <3>1. h \in Tokens /\ h.id = d.id
      BY <1>2 DEF Token, Tokens, Tags, Ids
    <3> HIDE DEF h
    <3> QED BY <3>1
  <2>5. Leaves(<<h>> \o r, q.used, part, rest)
    BY <1>4, <2>2, Zenon DEF ReadFrom
  <2>6. rest = <<>> \/ rest[1].id # d.id
    BY <1>6 DEF Passed
  <2> HIDE DEF h
  <2>7. q.used \in Nat /\ q.used <= Len(<<h>>)
    BY <1>5, <2>4
  <2>8. rest = r
    BY <2>3, <2>4, <2>5, <2>6, <2>7, NextBegins
  <2> QED BY <1>1, <2>8 DEF LastDue
<1> QED BY <1>5, <1>6 DEF d

LEMMA StatusDueRead ==
  ASSUME NEW reads \in Seq(Reads), NEW s \in Seq(Tokens), NEW t \in {"+", "-"}, StatusDue(reads, s, t),
         NEW q, NEW part, NEW rest, ReadFrom(s, reads[1].kind, q, part, rest)
  PROVE  /\ q.err # "panic" /\ (q.err = "" => t = "+")
         /\ Passed(reads[1].id, rest) => rest = Tail(s)
<1>1. /\ reads # <<>> /\ reads[1].kind = "Status"
      /\ s # <<>> /\ s[1] = Token(reads[1].id, t, 0)
  BY DEF StatusDue
<1>2. reads[1].id \in Ids
  <2>1. 1 \in 1..Len(reads)
    BY <1>1, EmptySeq
  <2>2. reads[1] \in Reads
    BY <2>1, ElementOfSeq, Zenon
  <2> QED BY <2>2 DEF Reads
<1> DEFINE kind == reads[1].kind
           id == reads[1].id
<1>3. kind \in {"Status", "String"} /\ id \in Ids /\ s # <<>> /\ s[1] = Token(id, t, 0)
  BY <1>1, <1>2
<1>4. ReadFrom(s, kind, q, part, rest)
  OBVIOUS
<1> HIDE DEF kind, id
<1>5. q.err # "panic" /\ (q.err = "" => t = "+") /\ (Passed(id, rest) => rest = Tail(s))
  <2>1. q.err # "panic"
    BY <1>3, <1>4, StatusRead
  <2>2. ASSUME q.err = "" PROVE t = "+"
    BY <1>3, <1>4, <2>2, StatusRead
  <2>3. ASSUME Passed(id, rest) PROVE rest = Tail(s)
    BY <1>3, <1>4, <2>3, StatusRest
  <2> QED BY <2>1, <2>2, <2>3
<1> QED BY <1>5 DEF id

\* What is due of the replies, once the next is read: a read that neither fails
\* nor leaves a part leaves what is due of the rest.
LEMMA DueRead ==
  ASSUME NEW reads \in Seq(Reads), NEW s \in Seq(Tokens), NEW watch, Due(reads, s, watch),
         NEW q, NEW part, NEW rest, ReadFrom(s, reads[1].kind, q, part, rest)
  PROVE  /\ q.err = "panic" => reads[1].cmd = "Sort"
         /\ Len(reads) = 1 /\ reads[1].then = "close" /\ q.err = "" => watch # "yes"
         /\ Len(reads) # 1 /\ (reads[1].then = "stop" => q.err = "") /\ Passed(reads[1].id, rest)
              => Due(Tail(reads), rest, watch)
<1>1. CASE LastDue(reads, s, watch)
  <2>1. Len(reads) = 1
    BY <1>1 DEF LastDue
  <2> QED BY <1>1, <2>1, LastDueRead
<1>2. CASE PipeDue(reads, s)
  <2>1. Len(reads) # 1
    BY <1>2 DEF PipeDue
  <2>2. /\ q.err = "panic" => reads[1].cmd = "Sort"
        /\ Passed(reads[1].id, rest) => LastDue(Tail(reads), rest, watch)
    BY <1>2, PipeDueRead
  <2> QED BY <2>1, <2>2 DEF Due
<1>3. CASE ExecDue(reads, s)
  <2>1. Len(reads) # 1 /\ reads[1].then = "stop"
    BY <1>3 DEF ExecDue
  <2>2. /\ q.err # "panic"
        /\ q.err = "" /\ Passed(reads[1].id, rest) => LastDue(Tail(reads), rest, watch)
    BY <1>3, ExecDueRead
  <2> QED BY <2>1, <2>2 DEF Due
<1>4. CASE QueuedDue(reads, s)
  <2>1. Len(reads) # 1 /\ reads[1].then = "stop"
    BY <1>4 DEF QueuedDue, StatusDue
  <2>2. PICK t \in {"+", "-"} : StatusDue(reads, s, t) /\ (t = "+" => ExecDue(Tail(reads), Tail(s)))
    BY <1>4 DEF QueuedDue
  <2>3. /\ q.err # "panic" /\ (q.err = "" => t = "+")
        /\ Passed(reads[1].id, rest) => rest = Tail(s)
    BY <2>2, StatusDueRead
  <2> QED BY <2>1, <2>2, <2>3 DEF Due
<1>5. CASE MultiDue(reads, s)
  <2>1. Len(reads) # 1
    BY <1>5 DEF MultiDue
  <2>2. StatusDue(reads, s, "+") /\ QueuedDue(Tail(reads), Tail(s))
    BY <1>5 DEF MultiDue
  <2>3. /\ q.err # "panic"
        /\ Passed(reads[1].id, rest) => rest = Tail(s)
    BY <2>2, StatusDueRead
  <2> QED BY <2>1, <2>2, <2>3 DEF Due
<1> QED BY <1>1, <1>2, <1>3, <1>4, <1>5 DEF Due

\* The reply that the read e takes stands first in s, all of it.
Begun(e, s) ==
  IF e.kind = "header" THEN s # <<>> /\ s[1].id = e.id
  ELSE \E r : Proper(e.kind, e.id, r) /\ \E t \in Seq(Tokens) : s = r \o t

LEMMA BegunRead ==
  ASSUME NEW e, NEW s \in Seq(Tokens), Begun(e, s)
  PROVE  s # <<>> /\ s[1].id = e.id /\ ReadReply(e.kind, s).err # "more"
<1>1. CASE e.kind = "header"
  <2>1. s # <<>> /\ s[1].id = e.id
    BY <1>1 DEF Begun
  <2>2. ReadHeader(s).err # "more"
    BY <2>1, HeaderIs
  <2> QED BY <1>1, <2>1, <2>2 DEF ReadReply
<1>2. CASE e.kind # "header"
  <2>1. PICK r : Proper(e.kind, e.id, r) /\ \E t \in Seq(Tokens) : s = r \o t
    BY <1>2 DEF Begun
  <2>2. PICK t \in Seq(Tokens) : s = r \o t
    BY <2>1
  <2>3. r \in Seq(Tokens) /\ r # <<>> /\ \A i \in 1..Len(r) : r[i].id = e.id
    BY <2>1 DEF Proper, Whole
  <2>4. Len(r) \in Nat \ {0} /\ Len(t) \in Nat
    BY <2>3, EmptySeq, LenProperties
  <2>5. Len(s) = Len(r) + Len(t) /\ \A i \in 1..Len(r) + Len(t) : s[i] = IF i <= Len(r) THEN r[i] ELSE t[i - Len(r)]
    BY <2>2, <2>3, ConcatProperties, Zenon
  <2>6. s # <<>> /\ s[1].id = e.id
    <3>1. 1 \in 1..Len(r) /\ 1 \in 1..Len(r) + Len(t) /\ 1 <= Len(r)
      BY <2>4
    <3>2. s[1].id = e.id
      BY <2>3, <2>5, <3>1
    <3>3. Len(s) # 0 /\ Len(<<>>) = 0
      BY <2>4, <2>5, EmptySeq
    <3> QED BY <3>2, <3>3, Zenon
  <2>7. Begins(s, r)
    <3>1. ASSUME NEW i \in 1..Len(s), i <= Len(r) PROVE s[i] = r[i]
      BY <2>4, <2>5, <3>1
    <3> QED BY <3>1 DEF Begins
  <2>8. Sound(Parse(e.kind, s), s, r)
    BY <2>1, <2>7, ParseIs
  <2>9. Parse(e.kind, s).err # "more"
    <3>1. Parse(e.kind, s).err = "more" => Parse(e.kind, s).used = Len(s) /\ Parse(e.kind, s).used < Len(r)
      BY <2>8 DEF Sound
    <3>2. ~(Len(s) < Len(r))
      BY <2>4, <2>5
    <3> QED BY <3>1, <3>2
  <2> QED BY <1>2, <2>6, <2>9 DEF ReadReply
<1> QED BY <1>1, <1>2

LEMMA DueOwn ==
  ASSUME NEW reads \in Seq(Reads), NEW s \in Seq(Tokens), NEW watch, Due(reads, s, watch)
  PROVE  reads # <<>> /\ Begun(reads[1], s)
<1> DEFINE e == reads[1]
<1>1. reads # <<>>
  <2>1. Len(<<>>) = 0
    OBVIOUS
  <2>2. Len(reads) # 0 \/ reads # <<>>
    <3>1. \/ LastDue(reads, s, watch) \/ PipeDue(reads, s) \/ ExecDue(reads, s)
          \/ QueuedDue(reads, s) \/ MultiDue(reads, s)
      BY Zenon DEF Due
    <3>2. LastDue(reads, s, watch) => Len(reads) # 0
      BY DEF LastDue
    <3>3. PipeDue(reads, s) \/ ExecDue(reads, s) => Len(reads) # 0
      BY DEF PipeDue, ExecDue
    <3>4. QueuedDue(reads, s) => Len(reads) # 0
      BY DEF QueuedDue
    <3>5. MultiDue(reads, s) => reads # <<>>
      BY Zenon DEF MultiDue, StatusDue
    <3> QED BY <3>1, <3>2, <3>3, <3>4, <3>5, Zenon
  <2> QED BY <2>1, <2>2, Zenon
<1>2. e.id \in Ids
  <2>1. 1 \in 1..Len(reads)
    BY <1>1, EmptySeq
  <2>2. e \in Reads
    BY <2>1, ElementOfSeq, Zenon
  <2> QED BY <2>2 DEF Reads
<1>3. LastDue(reads, s, watch) => s \in Answers(e)
  BY DEF LastDue
<1>4. PipeDue(reads, s) =>
        /\ reads[2].id \in Ids
        /\ \E r \in Answers(e), t \in Answers(reads[2]) : s = r \o t
  <2>1. PipeDue(reads, s) => reads[2] \in Reads
    BY TwoAre DEF PipeDue
  <2> QED BY <2>1 DEF PipeDue, Reads
<1>5. ExecDue(reads, s) =>
        /\ e.kind = "header" /\ reads[2].id \in Ids
        /\ \/ s \in {Simple(e.id, "nil"), Simple(e.id, "-")}
           \/ \E t \in Answers(reads[2]) : s = <<Token(e.id, "*", 1)>> \o t
  <2>1. ExecDue(reads, s) => reads[2] \in Reads
    BY TwoAre DEF ExecDue
  <2> QED BY <2>1 DEF ExecDue, Reads
<1>6. QueuedDue(reads, s) \/ MultiDue(reads, s) =>
        /\ e.kind = "Status" /\ s # <<>>
        /\ s[1] = Token(e.id, "-", 0) \/ s[1] = Token(e.id, "+", 0)
  BY DEF QueuedDue, MultiDue, StatusDue
<1> HIDE DEF e
<1>7. ASSUME NEW r \in Answers(e), NEW t \in Seq(Tokens), s = r \o t PROVE Begun(e, s)
  <2>1. Proper(e.kind, e.id, r) /\ e.kind # "header"
    BY <1>2, AnswerOf
  <2> QED BY <1>7, <2>1, Zenon DEF Begun
<1>8. CASE LastDue(reads, s, watch)
  <2>1. s \in Answers(e)
    BY <1>3, <1>8
  <2>2. s = s \o <<>> /\ <<>> \in Seq(Tokens)
    BY ConcatEmptySeq, EmptySeq, Zenon
  <2>3. Begun(e, s)
    BY <1>7, <2>1, <2>2
  <2> QED BY <1>1, <2>3 DEF e
<1>9. CASE PipeDue(reads, s)
  <2>1. reads[2].id \in Ids
    BY <1>4, <1>9
  <2>2. PICK r \in Answers(e), t \in Answers(reads[2]) : s = r \o t
    BY <1>4, <1>9
  <2>3. t \in Seq(Tokens)
    <3>1. Proper(reads[2].kind, reads[2].id, t)
      BY <2>1, AnswerOf
    <3> QED BY <3>1 DEF Proper, Whole
  <2>4. Begun(e, s)
    BY <1>7, <2>2, <2>3
  <2> QED BY <1>1, <2>4 DEF e
<1>10. CASE ExecDue(reads, s)
  <2>1. ASSUME NEW t \in Answers(reads[2]), s = <<Token(e.id, "*", 1)>> \o t
        PROVE  s # <<>> /\ s[1] = Token(e.id, "*", 1)
    <3>1. t \in Seq(Tokens)
      <4>1. Proper(reads[2].kind, reads[2].id, t)
        BY <1>5, <1>10, AnswerOf
      <4> QED BY <4>1 DEF Proper, Whole
    <3>2. Token(e.id, "*", 1) \in Tokens
      BY <1>2 DEF Token, Tokens, Tags, Ids
    <3> QED BY <2>1, <3>1, <3>2, TailIs, Zenon
  <2>2. s # <<>> /\ s[1] \in {Token(e.id, "nil", 0), Token(e.id, "-", 0), Token(e.id, "*", 1)}
    BY <1>5, <1>10, <2>1 DEF Simple
  <2>3. s[1].id = e.id
    BY <2>2, TokenIs
  <2>4. Begun(e, s)
    BY <1>5, <1>10, <2>2, <2>3 DEF Begun
  <2> QED BY <1>1, <2>4 DEF e
<1>11. CASE QueuedDue(reads, s) \/ MultiDue(reads, s)
  <2>1. PICK a \in {"+", "-"} : s[1] = Token(e.id, a, 0)
    BY <1>6, <1>11
  <2>2. e.kind \in {"Status", "String"} /\ s # <<>>
    BY <1>6, <1>11
  <2>3. s = Simple(e.id, a) \o Tail(s) /\ Tail(s) \in Seq(Tokens)
    <3>1. s = <<s[1]>> \o Tail(s) /\ Tail(s) \in Seq(Tokens)
      BY <2>2
    <3> QED BY <2>1, <3>1, Zenon DEF Simple
  <2>4. e.kind # "header" /\ Proper(e.kind, e.id, Simple(e.id, a))
    <3>1. a \in {"-", "nil"} \cup Want(e.kind)
      BY <2>2, ParsersAre DEF Str
    <3> QED BY <1>2, <2>2, <3>1, SimpleAnswer
  <2>5. Begun(e, s)
    BY <2>3, <2>4, Zenon DEF Begun
  <2> QED BY <1>1, <2>5 DEF e
<1> QED BY <1>8, <1>9, <1>10, <1>11 DEF Due

-----------------------------------------------------------------------------
(* The reading of replies. *)

\* A session that reads.
LEMMA ReadsOn ==
  ASSUME IInv, NEW c \in Clients, client[c].reads # <<>>
  PROVE  /\ client[c] \in Session /\ client[c].mode \in {"client", "multi"}
         /\ client[c].cn \in Conns /\ client[c].cn # None /\ Hands(client[c]) = {client[c].cn}
         /\ client[c].single = IF client[c].mode = "client" THEN None ELSE client[c].cn
         /\ ReadOK(client[c], conn[client[c].cn]) /\ conn[client[c].cn] \in Connection
         /\ client[c].cn \notin idle /\ \A d \in Clients \ {c} : client[c].cn \notin Hands(client[d])
<1> DEFINE n == client[c].cn
<1>1. client[c] \in Session /\ n # None
  BY DEF IInv, TypeOK, Apart
<1>2. n \in Conns /\ n \in Hands(client[c])
  BY <1>1 DEF Session, Hands
<1>3. Hands(client[c]) = {n}
  <2>1. \A i, j \in Hands(client[c]) : i = j
    BY DEF IInv, Apart
  <2> QED BY <1>2, <2>1
<1>4. Amid(client[c], conn[n])
  BY <1>2, <1>3 DEF IInv, Sessions, SessionOK
<1>5. conn[n] \in Connection
  BY <1>2 DEF IInv, TypeOK
<1>6. n \notin idle /\ \A d \in Clients \ {c} : n \notin Hands(client[d])
  BY <1>3 DEF IInv, Apart
<1> QED BY <1>1, <1>2, <1>3, <1>4, <1>5, <1>6 DEF Amid

LEMMA ReleaseInv ==
  ASSUME IInv, NEW c \in Clients, client[c].reads # <<>>, NEW first \in Errs \ {"panic"},
         NEW now \in Connection, NEW then, Release(c, first, now, then), sent' = sent,
         ~ now.sub, now.owes # "cut", now.owes = "net" => first = "net",
         now.owes = "" => /\ now.stream = <<>>
                          /\ client[c].mode = "client" \/ (then = "close" /\ first = "") => now.watch # "yes"
  PROVE  IInv'
<1> DEFINE n == client[c].cn
           mode == client[c].mode
<1>1. /\ client[c] \in Session /\ mode \in {"client", "multi"} /\ n \in Conns /\ n # None
      /\ Hands(client[c]) = {n} /\ n \notin idle /\ \A d \in Clients \ {c} : n \notin Hands(client[d])
  BY ReadsOn
<1>2. sent' \in Nat
  BY Zenon DEF IInv, TypeOK
<1>3. Outside \in Session /\ Hands(Outside) = {} /\ \A x : SessionOK(Outside, x)
  BY OutsideIs
<1>4. first # "net" => RestOK(now)
  BY DEF RestOK
<1>5. PICK buffered \in BOOLEAN :
        IF then = "close" /\ first = ""
        THEN /\ CloseSingle(n, now, mode, buffered)
             /\ client' = [client EXCEPT ![c] = Outside]
        ELSE /\ conn' = [conn EXCEPT ![n] = IF Keep(c, first, buffered) THEN now ELSE Fresh]
             /\ idle' = IF Keep(c, first, buffered) /\ mode = "client" THEN idle \cup {n} ELSE idle
             /\ client' = [client EXCEPT ![c] =
                  IF mode = "client" THEN Outside
                  ELSE [@ EXCEPT !.cn = None, !.reads = <<>>, !.err = first,
                                 !.single = IF Keep(c, first, buffered) THEN n ELSE None]]
  BY DEF Release
<1> HIDE DEF n
<1>6. CASE then = "close" /\ first = ""
  <2>1. IdleOK(now)
    BY <1>4, <1>6 DEF IdleOK
  <2>2. client' = [client EXCEPT ![c] = Outside]
    BY <1>5, <1>6
  <2>3. \/ conn' = [conn EXCEPT ![n] = now] /\ idle' = idle \cup {n}
        \/ conn' = [conn EXCEPT ![n] = Fresh] /\ idle' = idle
    BY <1>5, <1>6 DEF CloseSingle
  <2>4. CASE conn' = [conn EXCEPT ![n] = now] /\ idle' = idle \cup {n}
    BY <1>1, <1>2, <1>3, <2>1, <2>2, <2>4, Frame
  <2>5. CASE conn' = [conn EXCEPT ![n] = Fresh] /\ idle' = idle
    BY <1>1, <1>2, <1>3, <2>2, <2>5, FreshIs, Frame
  <2> QED BY <2>3, <2>4, <2>5
<1>7. CASE ~ (then = "close" /\ first = "")
  <2> DEFINE keep == Keep(c, first, buffered)
             x == IF keep THEN now ELSE Fresh
             k == IF mode = "client" THEN Outside
                  ELSE [client[c] EXCEPT !.cn = None, !.reads = <<>>, !.err = first,
                                         !.single = IF keep THEN n ELSE None]
  <2>1. /\ conn' = [conn EXCEPT ![n] = x] /\ client' = [client EXCEPT ![c] = k]
        /\ idle' = IF keep /\ mode = "client" THEN idle \cup {n} ELSE idle
    BY <1>5, <1>7
  <2>2. keep => RestOK(now)
    <3>1. keep => first # "net"
      BY DEF Keep, RedisErrors
    <3> QED BY <1>4, <3>1
  <2> HIDE DEF keep
  <2>3. CASE mode = "client"
    <3>1. k = Outside
      BY <2>3
    <3> HIDE DEF k
    <3>2. keep => IdleOK(now)
      BY <2>2, <2>3 DEF IdleOK
    <3>3. CASE keep
      <4>1. x = now /\ idle' = idle \cup {n}
        BY <2>1, <2>3, <3>3
      <4> HIDE DEF x
      <4> QED BY <1>1, <1>2, <1>3, <2>1, <3>1, <3>2, <3>3, <4>1, Frame
    <3>4. CASE ~ keep
      <4>1. x = Fresh /\ idle' = idle
        BY <2>1, <3>4
      <4> HIDE DEF x
      <4> QED BY <1>1, <1>2, <1>3, <2>1, <3>1, <4>1, FreshIs, Frame
    <3> QED BY <3>3, <3>4
  <2>4. CASE mode = "multi"
    <3> DEFINE sg == IF keep THEN n ELSE None
    <3>0. k = [client[c] EXCEPT !.cn = None, !.reads = <<>>, !.err = first, !.single = sg]
      BY <2>4
    <3>5. sg \in Conns \cup {None} /\ (keep => sg = n) /\ (~ keep => sg = None)
      BY <1>1
    <3> HIDE DEF sg, k
    <3>6. client[c] \in Session /\ client[c].mode = "multi" /\ first \in Errs
      BY <1>1, <2>4
    <3>7. <<>> \in Seq(Reads)
      BY EmptySeq
    <3>1. /\ k \in Session /\ k.mode = "multi" /\ k.cn = None /\ k.reads = <<>> /\ k.err = first
          /\ k.single = sg
      BY <3>0, <3>5, <3>6, <3>7 DEF Session
    <3>2. idle' = idle
      BY <2>1, <2>4
    <3> HIDE DEF k
    <3>3. CASE keep
      <4>1. x = now /\ k.single = n
        BY <3>1, <3>3, <3>5
      <4> HIDE DEF x
      <4>2. Hands(k) = {n}
        BY <1>1, <3>1, <4>1 DEF Hands
      <4>3. SessionOK(k, now)
        BY <2>2, <3>1, <3>3 DEF SessionOK, Between
      <4> QED BY <1>1, <1>2, <2>1, <3>1, <3>2, <4>1, <4>2, <4>3, Frame
    <3>4. CASE ~ keep
      <4>1. x = Fresh /\ k.single = None
        BY <3>1, <3>4, <3>5
      <4> HIDE DEF x
      <4>2. Hands(k) = {}
        BY <3>1, <4>1 DEF Hands
      <4>3. SessionOK(k, Fresh)
        BY <3>1, <4>1 DEF SessionOK, Between
      <4> QED BY <1>1, <1>2, <2>1, <3>1, <3>2, <4>1, <4>2, <4>3, FreshIs, Frame
    <3> QED BY <3>3, <3>4
  <2> QED BY <1>1, <2>3, <2>4
<1> QED BY <1>6, <1>7

LEMMA ReadInv == ASSUME IInv, NEW c \in Clients, Read(c) PROVE IInv'
<1> DEFINE n == client[c].cn
           reads == client[c].reads
           read == Head(reads)
           x == conn[n]
<1>1. reads # <<>> /\ client[c].err # "panic"
  BY Zenon DEF Read
<1>2. /\ client[c] \in Session /\ client[c].mode \in {"client", "multi"}
      /\ n \in Conns /\ n # None /\ Hands(client[c]) = {n}
      /\ client[c].single = IF client[c].mode = "client" THEN None ELSE n
      /\ ReadOK(client[c], x) /\ x \in Connection
      /\ n \notin idle /\ \A d \in Clients \ {c} : n \notin Hands(client[d])
  BY <1>1, ReadsOn
<1>3. reads \in Seq(Reads) /\ client[c].err \in Errs /\ read = reads[1]
  <2>1. reads \in Seq(Reads) /\ client[c].err \in Errs
    BY <1>2 DEF Session
  <2> QED BY <1>1, <2>1
<1>4. sent' = sent /\ sent' \in Nat
  <2>1. sent' = sent
    BY DEF Read
  <2> QED BY <2>1 DEF IInv, TypeOK
<1>5. PICK reading \in Readings(read.kind, n) :
        LET r == reading.r
            err == IF r.err = "more" THEN "net" ELSE r.err
            first == IF client[c].err # "" THEN client[c].err ELSE err
            over == Len(reads) = 1 \/ (read.then = "stop" /\ err # "")
            rest == reading.left
            left == rest.stream # <<>> /\ (rest.stream[1].id = read.id \/ over)
            why == IF err = "net" THEN IF first = "net" THEN "net" ELSE "hidden"
                   ELSE IF reading.line = "cut" THEN "line" ELSE "unread"
            now == [rest EXCEPT !.owes =
                     IF @ = "" /\ (reading.line = "cut" \/ (left /\ err # "panic")) THEN why ELSE @]
        IN IF over /\ err # "panic"
           THEN Release(c, first, now, read.then)
           ELSE /\ conn' = [conn EXCEPT ![n] = now]
                /\ client' = [client EXCEPT ![c] =
                     IF err = "panic" THEN [@ EXCEPT !.err = err] ELSE [@ EXCEPT !.reads = Tail(reads), !.err = first]]
                /\ UNCHANGED idle
  BY <1>1, Zenon DEF Read
<1> DEFINE r == reading.r
           err == IF r.err = "more" THEN "net" ELSE r.err
           first == IF client[c].err # "" THEN client[c].err ELSE err
           over == Len(reads) = 1 \/ (read.then = "stop" /\ err # "")
           rest == reading.left
           left == rest.stream # <<>> /\ (rest.stream[1].id = read.id \/ over)
           why == IF err = "net" THEN IF first = "net" THEN "net" ELSE "hidden"
                  ELSE IF reading.line = "cut" THEN "line" ELSE "unread"
           owes == IF rest.owes = "" /\ (reading.line = "cut" \/ (left /\ err # "panic")) THEN why ELSE rest.owes
           now == [rest EXCEPT !.owes = owes]
           stuck == [client[c] EXCEPT !.err = err]
           next == [client[c] EXCEPT !.reads = Tail(reads), !.err = first]
<1>6. IF over /\ err # "panic"
      THEN Release(c, first, now, read.then)
      ELSE /\ conn' = [conn EXCEPT ![n] = now]
           /\ client' = [client EXCEPT ![c] = IF err = "panic" THEN stuck ELSE next]
           /\ UNCHANGED idle
  BY <1>5
<1> HIDE DEF read
<1>7. /\ reading.line = "whole" => \E part \in BOOLEAN : ReadFrom(x.stream, read.kind, r, part, rest.stream)
      /\ rest \in Connection /\ rest.watch = x.watch /\ rest.sub = x.sub /\ rest.owes = x.owes
      /\ r.err \in Errs \ {"net"} /\ reading.line \in {"whole", "cut"}
  <2>1. reading.line = "whole" => \E part \in BOOLEAN : ReadFrom(x.stream, read.kind, r, part, rest.stream)
    BY <1>2, ReadingIs
  <2>2. rest \in Connection /\ rest.watch = x.watch /\ rest.sub = x.sub /\ rest.owes = x.owes
    BY <1>2, ReadingIs
  <2>3. r.err \in Errs \ {"net"} /\ reading.line \in {"whole", "cut"}
    BY <1>2, ReadingIs
  <2> QED BY <2>1, <2>2, <2>3
<1> HIDE DEF n, r, rest
<1>8. /\ err \in Errs \ {"more"} /\ (err = "" <=> r.err = "") /\ (err = "panic" <=> r.err = "panic")
      /\ first \in Errs /\ (err # "panic" => first # "panic") /\ (first = "" => client[c].err = "" /\ err = "")
      /\ client[c].err = "net" => first = "net"
  BY <1>1, <1>3, <1>7 DEF Errs, RedisErrors
<1>9. why \in {"line", "unread", "net", "hidden"} /\ (why = "net" => first = "net")
  OBVIOUS
<1> HIDE DEF err, first, why, over
<1>10. /\ owes \in {"", "line", "unread", "net", "hidden", "cut"}
       /\ owes = "" => rest.owes = "" /\ reading.line = "whole" /\ (left => err = "panic")
       /\ owes # rest.owes => owes = why
  BY <1>7, <1>9 DEF Connection
<1> HIDE DEF owes
<1>11. /\ now \in Connection /\ now.stream = rest.stream /\ now.watch = x.watch /\ now.sub = x.sub
       /\ now.owes = owes
  BY <1>7, <1>10 DEF Connection
<1> HIDE DEF now
<1>12. /\ ~ now.sub /\ now.owes # "cut" /\ (now.owes = "net" => first = "net")
       /\ client[c].mode = "client" /\ now.owes = "" => now.watch # "yes"
  BY <1>1, <1>2, <1>7, <1>8, <1>9, <1>10, <1>11 DEF ReadOK
\* What is read from a connection that owes nothing.
<1>13. ASSUME now.owes = ""
       PROVE  /\ err = "panic" \/ now.stream = <<>> \/ (~ over /\ Passed(read.id, now.stream))
              /\ err = "panic" => read.cmd = "Sort"
              /\ Len(reads) = 1 /\ read.then = "close" /\ err = "" => now.watch # "yes"
              /\ Len(reads) # 1 /\ (read.then = "stop" => err = "") /\ Passed(read.id, now.stream)
                   => Due(Tail(reads), now.stream, now.watch)
  <2>1. x.owes = "" /\ reading.line = "whole" /\ (left => err = "panic")
    BY <1>7, <1>10, <1>11, <1>13
  <2>2. Due(reads, x.stream, x.watch)
    BY <1>1, <1>2, <2>1 DEF ReadOK
  <2>3. err = "panic" \/ now.stream = <<>> \/ (~ over /\ Passed(read.id, now.stream))
    BY <1>11, <2>1 DEF Passed
  <2>4. x.stream \in Seq(Tokens)
    BY <1>2, StreamIs
  <2>5. /\ r.err = "panic" => read.cmd = "Sort"
        /\ Len(reads) = 1 /\ read.then = "close" /\ r.err = "" => x.watch # "yes"
        /\ Len(reads) # 1 /\ (read.then = "stop" => r.err = "") /\ Passed(read.id, rest.stream)
             => Due(Tail(reads), rest.stream, x.watch)
    <3>1. PICK part \in BOOLEAN : ReadFrom(x.stream, read.kind, r, part, rest.stream)
      BY <1>7, <2>1
    <3> QED BY <1>3, <2>2, <2>4, <3>1, DueRead
  <2> QED BY <1>8, <1>11, <2>3, <2>5
<1>14. (over => Len(reads) = 1 \/ read.then = "stop") /\ (~ over => Len(reads) # 1 /\ (read.then = "stop" => err = ""))
  BY DEF over
<1>15. CASE over /\ err # "panic"
  <2>1. Release(c, first, now, read.then)
    BY <1>6, <1>15
  <2>2. now.owes = "" => /\ now.stream = <<>>
                         /\ client[c].mode = "client" \/ (read.then = "close" /\ first = "") => now.watch # "yes"
    BY <1>8, <1>12, <1>13, <1>14, <1>15
  <2>3. first \in Errs \ {"panic"}
    BY <1>8, <1>15
  <2> QED BY <1>1, <1>4, <1>11, <1>12, <2>1, <2>2, <2>3, ReleaseInv
<1>16. CASE err = "panic"
  <2> DEFINE k == stuck
  <2>1. conn' = [conn EXCEPT ![n] = now] /\ client' = [client EXCEPT ![c] = k] /\ idle' = idle
    BY <1>6, <1>16
  <2>2. /\ k \in Session /\ k.err = "panic" /\ k.reads = reads /\ k.mode = client[c].mode /\ k.cn = client[c].cn
        /\ k.single = client[c].single
    BY <1>2, <1>8, <1>16 DEF Session
  <2> HIDE DEF k
  <2>3. Hands(k) = {n}
    BY <1>2, <2>2 DEF Hands
  <2>4. ReadOK(k, now)
    BY <1>1, <1>12, <1>13, <1>16, <2>2 DEF ReadOK, read
  <2>5. SessionOK(k, now)
    BY <1>1, <1>2, <2>2, <2>4 DEF SessionOK, Amid, n
  <2> QED BY <1>2, <1>4, <1>11, <2>1, <2>2, <2>3, <2>5, Frame
<1>17. CASE ~ over /\ err # "panic"
  <2> DEFINE k == next
  <2>1. conn' = [conn EXCEPT ![n] = now] /\ client' = [client EXCEPT ![c] = k] /\ idle' = idle
    <3> HIDE DEF next
    <3> QED BY <1>6, <1>17
  <2>2. Tail(reads) \in Seq(Reads) /\ Tail(reads) # <<>>
    <3>1. Len(reads) # 1
      BY <1>14, <1>17
    <3>2. Len(reads) \in Nat \ {0, 1} /\ Len(<<>>) = 0
      BY <1>1, <1>3, <3>1, EmptySeq
    <3>3. Tail(reads) \in Seq(Reads) /\ Len(Tail(reads)) = Len(reads) - 1
      BY <1>1, <1>3
    <3>4. Len(Tail(reads)) # 0
      BY <3>2, <3>3
    <3> QED BY <3>2, <3>3, <3>4, Zenon
  <2>3. /\ k \in Session /\ k.err = first /\ k.reads = Tail(reads) /\ k.mode = client[c].mode
        /\ k.cn = client[c].cn /\ k.single = client[c].single
    BY <1>2, <1>8, <2>2 DEF Session
  <2> HIDE DEF k
  <2>4. Hands(k) = {n}
    BY <1>2, <2>3 DEF Hands
  <2>5. now.owes = "" => Due(Tail(reads), now.stream, now.watch)
    BY <1>13, <1>14, <1>17 DEF Passed
  <2>6. ReadOK(k, now)
    BY <1>8, <1>12, <1>17, <2>3, <2>5 DEF ReadOK
  <2>7. SessionOK(k, now)
    BY <1>2, <2>2, <2>3, <2>6 DEF SessionOK, Amid, n
  <2> QED BY <1>2, <1>4, <1>11, <2>1, <2>3, <2>4, <2>7, Frame
<1> QED BY <1>15, <1>16, <1>17

-----------------------------------------------------------------------------
(* The invariant is kept, and what it says of every state. *)

LEMMA InitInv == Init => IInv
<1> SUFFICES ASSUME Init PROVE IInv
  OBVIOUS
<1>1. /\ \A n \in Conns : conn[n] = Fresh
      /\ \A c \in Clients : client[c] = Outside
      /\ idle = {} /\ sent = 0
  BY DEF Init
<1>2. TypeOK
  BY FreshIs, OutsideIs DEF Init, TypeOK
<1>3. Outside.reads = <<>> /\ Outside.err # "panic"
  BY DEF Outside
<1>4. Apart
  BY <1>1, <1>3, OutsideIs DEF Apart
<1>5. Forgotten /\ Idling /\ Sessions
  BY <1>1, OutsideIs DEF Forgotten, Idling, Sessions
<1> QED BY <1>2, <1>4, <1>5 DEF IInv

LEMMA NextInv == IInv /\ [Next]_vars => IInv'
<1> SUFFICES ASSUME IInv, [Next]_vars PROVE IInv'
  OBVIOUS
<1>1. CASE UNCHANGED vars
  BY <1>1 DEF vars, IInv, TypeOK, Apart, Forgotten, Idling, Sessions
<1>2. ASSUME NEW c \in Clients, Open(c) PROVE IInv'
  BY <1>2, OpenInv
<1>3. ASSUME NEW c \in Clients, WriteFails(c) PROVE IInv'
  BY <1>3, WriteFailsInv
<1>4. ASSUME NEW c \in Clients, Run(c) PROVE IInv'
  BY <1>4, RunInv
<1>5. ASSUME NEW c \in Clients, Pipeline(c) PROVE IInv'
  BY <1>5, PipelineInv
<1>6. ASSUME NEW c \in Clients, Watch(c) PROVE IInv'
  BY <1>6, WatchInv
<1>7. ASSUME NEW c \in Clients, Exec(c) PROVE IInv'
  BY <1>7, ExecInv
<1>8. ASSUME NEW c \in Clients, ExecFails(c) PROVE IInv'
  BY <1>8, ExecFailsInv
<1>9. ASSUME NEW c \in Clients, Unwatch(c) PROVE IInv'
  BY <1>9, UnwatchInv
<1>10. ASSUME NEW c \in Clients, Read(c) PROVE IInv'
  BY <1>10, ReadInv
<1>11. ASSUME NEW c \in Clients, CloseQueueing(c) PROVE IInv'
  BY <1>11, CloseQueueingInv
<1>12. ASSUME NEW c \in Clients, Subscribe(c) PROVE IInv'
  BY <1>12, SubscribeInv
<1>13. ASSUME NEW c \in Clients, Receive(c) PROVE IInv'
  BY <1>13, ReceiveInv
<1>14. ASSUME NEW c \in Clients, CloseSub(c) PROVE IInv'
  BY <1>14, CloseSubInv
<1>15. ASSUME NEW n \in Conns, Message(n) PROVE IInv'
  BY <1>15, MessageInv
<1> QED
  BY <1>1, <1>2, <1>3, <1>4, <1>5, <1>6, <1>7, <1>8, <1>9, <1>10, <1>11, <1>12, <1>13, <1>14, <1>15
     DEF Next

(* Any number of goroutines, each with a session of its own, and of         *)
(* connections: in every state IInv holds.  It says what is on each wire of *)
(* the replies that its holder has still to read, to the token, unless the  *)
(* connection owes a part of an earlier one (redis.go:72-133,               *)
(* pool.go:289-346, multi.go:15-137, pipeline.go:48-90, pubsub.go:13-115).  *)
THEOREM ClientInvariant == Spec => []IInv
<1> QED BY InitInv, NextInv, PTL DEF Spec

(* A command on a connection that owes nothing reads its own reply, which   *)
(* stands whole at the head of what the server sends, so the read ends: two *)
(* goroutines never get each other's replies through the pool, and those of *)
(* a pipeline or a transaction are never off by one (redis.go:102-133,      *)
(* multi.go:95-137, pipeline.go:81-90).                                     *)
THEOREM OwnReplies == Spec => []OwnReply
<1>1. IInv => OwnReply
  <2>1. SUFFICES ASSUME IInv, NEW c \in Clients, client[c].reads # <<>>, client[c].err # "panic",
                        conn[client[c].cn].owes = ""
                 PROVE  /\ conn[client[c].cn].stream # <<>>
                        /\ conn[client[c].cn].stream[1].id = Head(client[c].reads).id
                        /\ ReadReply(Head(client[c].reads).kind, conn[client[c].cn].stream).err # "more"
    BY Zenon DEF OwnReply
  <2> DEFINE reads == client[c].reads
             x == conn[client[c].cn]
  <2>2. client[c] \in Session /\ ReadOK(client[c], x) /\ x \in Connection
    BY <2>1, ReadsOn
  <2>3. reads \in Seq(Reads)
    BY <2>2 DEF Session
  <2>4. Head(reads) = reads[1]
    <3>1. reads # <<>>
      BY <2>1
    <3> HIDE DEF reads
    <3> QED BY <2>3, <3>1
  <2>5. Due(reads, x.stream, x.watch)
    BY <2>1, <2>2 DEF ReadOK
  <2>6. x.stream \in Seq(Tokens) /\ Begun(reads[1], x.stream)
    BY <2>2, <2>3, <2>5, StreamIs, DueOwn
  <2> HIDE DEF reads, x
  <2>7. x.stream # <<>> /\ x.stream[1].id = reads[1].id /\ ReadReply(reads[1].kind, x.stream).err # "more"
    BY <2>6, BegunRead
  <2> QED BY <2>4, <2>7 DEF reads, x
<1> QED BY <1>1, ClientInvariant, PTL

(* A connection returns to the pool with unread replies, or with watched    *)
(* keys, only when an operation has left it so, and never subscribed        *)
(* (redis.go:72-100, pool.go:321-346, multi.go:26-31).                      *)
THEOREM IdleConnsClean == Spec => []IdleIsClean
<1>1. IInv => IdleIsClean
  <2>1. SUFFICES ASSUME IInv, NEW n \in idle
                 PROVE  /\ conn[n].stream # <<>> => conn[n].owes \in {"unread", "hidden", "line"}
                        /\ ~conn[n].sub
                        /\ conn[n].watch = "yes" => conn[n].owes # ""
    BY DEF IdleIsClean
  <2>2. IdleOK(conn[n]) /\ conn[n] \in Connection
    BY <2>1 DEF IInv, Idling, TypeOK
  <2> QED BY <2>2 DEF IdleOK, RestOK, Connection
<1> QED BY <1>1, ClientInvariant, PTL

(* The reading of a reply panics (an assertion on its type, Receive's on a  *)
(* push, a nil parser, line[0] of an empty line), only on a connection that *)
(* an earlier operation has left a part of a reply on or of which a         *)
(* deadline has cut a line, or for SORT, whose reply's type its arguments   *)
(* choose (parser.go:91-134, command.go:132-630, multi.go:108-131,          *)
(* pubsub.go:57-96).                                                        *)
THEOREM OnlyOwedPanic == Spec => []OnlyOwedPanics
<1>1. IInv => OnlyOwedPanics
  <2>1. SUFFICES ASSUME IInv, NEW c \in Clients, client[c].err = "panic"
                 PROVE  \/ client[c].mode = "pubsub" /\ conn[client[c].single].owes # ""
                        \/ /\ client[c].mode # "pubsub"
                           /\ conn[client[c].cn].owes # "" \/ Head(client[c].reads).cmd = "Sort"
    BY DEF OnlyOwedPanics
  <2>2. CASE client[c].reads = <<>>
    <3> DEFINE n == client[c].single
    <3>1. /\ Hands(client[c]) = {n} \ {None} /\ Hands(client[c]) \subseteq Conns
          /\ \A i \in Conns : Hands(client[c]) \subseteq {i} => Between(client[c], conn[i])
      BY <2>1, <2>2, Rests
    <3>2. \A i \in Conns : Hands(client[c]) \subseteq {i} => client[c].mode = "pubsub" /\ n # None /\ SubOK(client[c], conn[i])
      BY <2>1, <3>1 DEF Between
    <3>3. Hands(client[c]) # {}
      BY <2>1 DEF IInv, Apart
    <3> QED BY <2>1, <3>1, <3>2, <3>3 DEF SubOK
  <2>3. CASE client[c].reads # <<>>
    <3>1. client[c].mode \in {"client", "multi"} /\ ReadOK(client[c], conn[client[c].cn])
      BY <2>1, <2>3, ReadsOn
    <3> QED BY <2>1, <3>1 DEF ReadOK
  <2> QED BY <2>2, <2>3
<1> QED BY <1>1, ClientInvariant, PTL
=============================================================================
