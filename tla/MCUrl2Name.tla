----------------------------- MODULE MCUrl2Name -----------------------------
(***************************************************************************)
(* Instances of Url2Name for TLC.                                          *)
(***************************************************************************)
EXTENDS Url2Name, TLC

\* Two urls the trimming confuses.
UrlA  == Scheme \o <<"a">>
UrlPA == Scheme \o <<"p", "a">>

AllUrls  == {UrlA, UrlPA}
AllNames == {"m", "n", "-"}

\* The same key under two names, and the request that removes it.
RaceAdds == {[name |-> "m", url |-> UrlA], [name |-> "n", url |-> UrlPA]}
RaceRms  == {[name |-> "-", url |-> UrlA]}

LiveAdds == {[name |-> "m", url |-> UrlA]}

DownloadLinks == {<<"a">>}

Symmetry == Permutations(Reqs) \cup Permutations(Writers)
=============================================================================
