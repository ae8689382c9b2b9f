------------------------------- MODULE UrlKey -------------------------------
(***************************************************************************)
(* How url2name turns a URL into the key of the redis index.  The writers  *)
(* and the rm handler both call strings.TrimLeft(url, "http://"), whose    *)
(* second argument is a set of characters and not a prefix.  A string is   *)
(* the sequence of its characters.                                         *)
(***************************************************************************)
EXTENDS Naturals, Sequences

CutSet == {"h", "t", "p", ":", "/"}
Scheme == <<"h", "t", "t", "p", ":", "/", "/">>

\* The bug a rewrite could introduce: only the first character is looked at.
TrimLeftOnce(s) == IF s # <<>> /\ s[1] \in CutSet THEN Tail(s) ELSE s

\* The leading characters of s that are in the cut set.
Cut(s) == {i \in 1..Len(s) : \A j \in 1..i : s[j] \in CutSet}

\* strings.TrimLeft: what is left when those are gone.
TrimLeft(s) == LET n == CHOOSE n \in 0..Len(s) : Cut(s) = 1..n
               IN  SubSeq(s, n + 1, Len(s))

\* The reference: the URL without its scheme.
HasScheme(s)     == Len(s) >= Len(Scheme) /\ SubSeq(s, 1, Len(Scheme)) = Scheme
WithoutScheme(s) == IF HasScheme(s) THEN SubSeq(s, Len(Scheme) + 1, Len(s)) ELSE s

-----------------------------------------------------------------------------
(***************************************************************************)
(* What the key is (url2name_op.go:146, 231): the variable the code calls  *)
(* urlWithoutScheme is the url without its scheme exactly when what        *)
(* follows the scheme starts with none of the characters h t p : /.  And a *)
(* key is a fixed point: the link of a download that is a key already, and *)
(* the url of a rm that repeats it, name the same entry.                   *)
(***************************************************************************)
Ambiguous(s) == s # <<>> /\ s[1] \in CutSet

KeyIsRest(url) ==
  LET rest == WithoutScheme(url)
      key  == TrimLeft(url)
  IN  /\ key = rest <=> ~Ambiguous(rest)
      /\ TrimLeft(key) = key
      /\ TrimLeft(Scheme \o key) = key
=============================================================================
