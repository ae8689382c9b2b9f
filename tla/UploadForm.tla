----------------------------- MODULE UploadForm -----------------------------
(***************************************************************************)
(* How fastcgiUploadHandler turns the form nginx sends into the list of    *)
(* files it moves.  The form is a Go map: the loop over it visits the keys *)
(* in any order, and makes the list as long as the first key it meets has  *)
(* values.  The filename parameter of the URL is one of the keys, for      *)
(* req.Form holds the query's values too.                                  *)
(*                                                                         *)
(* A value is known by its key and its index; of the fields of an          *)
(* UploadFileInfo only the path decides what the handler does.             *)
(***************************************************************************)
EXTENDS Naturals, Sequences

CONSTANTS
  Keys,       \* the keys of forms
  PathKeys,   \* those with suffix "path"
  MaxValues,  \* bound on the values of a key
  NoPath      \* the empty UploadPath

VARIABLES
  form,      \* how many values each key has, 0 when it is not in the form
  todo,      \* the keys the loop has not visited
  infoList,  \* the UploadPath of each entry
  made,      \* infoList is not nil
  moved,     \* the files renamed to the target, in order
  outcome    \* "" while the handler runs

vars == <<form, todo, infoList, made, moved, outcome>>

InForm == {k \in Keys : form[k] > 0}

Init ==
  /\ form \in [Keys -> 0..MaxValues]
  /\ InForm # {}
  /\ todo = InForm
  /\ infoList = <<>>
  /\ made = FALSE
  /\ moved = <<>>
  /\ outcome = ""

-----------------------------------------------------------------------------
(* Faulty variants of operations below; the specification uses none.       *)

\* Values beyond the end of the list are skipped.
SetInfosClamped(k) ==
  /\ outcome = ""
  /\ k \in todo
  /\ todo' = todo \ {k}
  /\ made' = TRUE
  /\ infoList' = [i \in 1..(IF made THEN Len(infoList) ELSE form[k]) |->
                    IF k \in PathKeys /\ i <= form[k] THEN <<k, i>>
                    ELSE IF made THEN infoList[i] ELSE NoPath]
  /\ UNCHANGED <<form, moved, outcome>>

-----------------------------------------------------------------------------
\* One turn of the loop over the form: setInfo of each value of the key, an
\* index panic when there are more of them than entries.
SetInfos(k) ==
  /\ outcome = ""
  /\ k \in todo
  /\ todo' = todo \ {k}
  /\ made' = TRUE
  /\ LET len == IF made THEN Len(infoList) ELSE form[k] IN
       IF form[k] > len
         THEN outcome' = "panic" /\ UNCHANGED infoList
         ELSE /\ infoList' = [i \in 1..len |->
                   IF k \in PathKeys /\ i <= form[k] THEN <<k, i>>
                   ELSE IF made THEN infoList[i] ELSE NoPath]
              /\ UNCHANGED outcome
  /\ UNCHANGED <<form, moved>>

\* os.Rename of the next entry: without a path it fails; with one it may.
Move ==
  /\ outcome = "" /\ todo = {}
  /\ \/ infoList = <<>> /\ outcome' = "ok" /\ UNCHANGED <<infoList, moved>>
     \/ /\ infoList # <<>>
        /\ outcome' = "error"
        /\ UNCHANGED <<infoList, moved>>
     \/ /\ infoList # <<>> /\ Head(infoList) # NoPath
        /\ infoList' = Tail(infoList)
        /\ moved' = Append(moved, Head(infoList))
        /\ UNCHANGED outcome
  /\ UNCHANGED <<form, todo, made>>

Next == Move \/ \E k \in Keys : SetInfos(k)

Spec == Init /\ [][Next]_vars

-----------------------------------------------------------------------------
(***************************************************************************)
(* "ok" means every file (fileop.go:297-318): whatever the order of the    *)
(* map, a form with one path key is answered 200 only when each of its     *)
(* files was moved, once and in order.                                     *)
(***************************************************************************)
OkMovesAll ==
  outcome = "ok" =>
    \A k \in PathKeys :
      PathKeys \cap InForm = {k} => moved = [i \in 1..form[k] |-> <<k, i>>]

(***************************************************************************)
(* The inductive invariant: when k is the only path key of the form, the   *)
(* list holds the paths of its values in their order once the loop has     *)
(* visited it and none before, and what is moved is taken from its front.  *)
(***************************************************************************)
TypeOK ==
  /\ form \in [Keys -> 0..MaxValues]
  /\ todo \subseteq InForm /\ InForm # {}
  /\ {infoList, moved} \subseteq Seq((PathKeys \X Nat) \cup {NoPath})
  /\ made <=> todo # InForm
  /\ ~made => infoList = <<>>
  /\ todo # {} => moved = <<>>
  /\ outcome \in {"", "ok", "error", "panic"}
  /\ outcome = "ok" => todo = {} /\ infoList = <<>>

Listed(k) ==
  IF k \in todo THEN \A i \in 1..Len(infoList) : infoList[i] = NoPath
  ELSE /\ Len(moved) <= form[k]
       /\ form[k] <= Len(moved) + Len(infoList)
       /\ \A i \in 1..Len(moved) : moved[i] = <<k, i>>
       /\ \A i \in 1..Len(infoList) :
            infoList[i] = IF Len(moved) + i <= form[k] THEN <<k, Len(moved) + i>> ELSE NoPath

AllListed ==
  outcome # "panic" => \A k \in PathKeys : PathKeys \cap InForm = {k} => Listed(k)

IInv == TypeOK /\ AllListed
=============================================================================
