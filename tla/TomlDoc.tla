------------------------------ MODULE TomlDoc ------------------------------
(* What the parser of the configuration makes of a document's statements    *)
(* (parse.go of BurntSushi/toml): tables, arrays of tables and keys, and    *)
(* the tables that longer names create on the way. A node is known by its   *)
(* path, but whether a table is implicit, and its type, by its dotted name. *)
EXTENDS Naturals, Sequences
LOCAL INSTANCE SequencesExt

CONSTANTS Parts,         \* what is between the dots of names
          MaxLen,        \* bound on the length of the name of a table
          MaxStatements  \* bound on the statements of a document

VARIABLES nodes,      \* p.mapping: the kind of the node at each path
          implicits,  \* p.implicits: dotted names
          types,      \* p.types, by dotted name
          context,    \* p.context
          said,       \* statements so far, and the outcome
          past        \* history, see SetValue

vars == <<nodes, implicits, types, context, said, past>>

\* A name is the sequence of its parts. Those of tables have one part, for the
\* lexer splits them, those of keys have any. A path has an index for each
\* name, 0 unless the node is one of an array.
TableNames == {<<p>> : p \in Parts}
Keys == TableNames \cup {<<p, q>> : p, q \in Parts}
Outer == UNION {[1..n -> TableNames] : n \in 0..MaxLen - 1}

Dotted(names) == FlattenSeq(names)                            \* Key.String
Names(path) == [i \in DOMAIN path |-> path[i][1]]

Elements(at, name) == {i \in 1..MaxStatements : Append(at, <<name, i>>) \in DOMAIN nodes}
Index(at, name) == CHOOSE n \in 0..MaxStatements : Elements(at, name) = 1..n
Newest(at, name) == Append(at, <<name, Index(at, name)>>)

Init ==
    /\ nodes = [p \in {} |-> "table"]
    /\ implicits = {}
    /\ types = [n \in {} |-> "Hash"]
    /\ context = <<>>
    /\ said = [n |-> 0, outcome |-> "none"]
    /\ past = [given |-> {}, born |-> {}, twice |-> {}, dropped |-> {}]

----------------------------------------------------------------------------
\* The way down: the one path to the table that the names lead to, through the
\* newest element of each array. A missing table on it is a new one; a value is
\* no way.
Paths(names) ==
    {[i \in DOMAIN names |-> <<names[i], at[i]>>] : at \in [DOMAIN names -> 0..MaxStatements]}
Ways(names) ==
    {p \in Paths(names) : \A i \in DOMAIN names : p[i][2] = Index(SubSeq(p, 1, i - 1), names[i])}

Tables(way) == {SubSeq(way, 1, i) : i \in DOMAIN way}
New(way) == Tables(way) \ DOMAIN nodes
Passes(way) == \A p \in Tables(way) \cap DOMAIN nodes : nodes[p] = "table"

(* Faulty variant, used by no specification. *)

\* A table that is defined goes on being implicit.
ConcreteKept(marked, path) == marked

Concrete(marked, path) == marked \ {Dotted(Names(path))}

With(fun, at, value) == [x \in DOMAIN fun \cup {at} |-> IF x = at THEN value ELSE fun[x]]

\* setValue at a path, after the tables of new were created, and setType: a
\* node that is there already is an error, unless its dotted name is implicit.
SetValue(path, type, new) ==
    LET kind == IF type = "Value" THEN "value" ELSE "table"
        marked == implicits \cup {Dotted(Names(p)) : p \in new}
        known == [p \in DOMAIN nodes \cup new |-> IF p \in new THEN "table" ELSE nodes[p]]
        there == path \in DOMAIN nodes
    IN IF there /\ Dotted(Names(path)) \notin marked
       THEN said' = [said EXCEPT !.outcome = "error"] /\ UNCHANGED <<nodes, implicits, types, past>>
       ELSE /\ nodes' = IF there THEN known ELSE With(known, path, kind)
            /\ implicits' = IF there THEN Concrete(marked, path) ELSE marked
            /\ types' = With(types, Dotted(Names(path)), type)
            /\ said' = [said EXCEPT !.n = @ + 1]
            /\ past' = [given |-> past.given \cup {path},
                        born |-> past.born \cup new,
                        twice |-> past.twice \cup ({path} \cap past.given),
                        dropped |-> past.dropped \cup {p \in {path} : there /\ kind = "value"}]

Fails(outcome) ==
    said' = [said EXCEPT !.outcome = outcome] /\ UNCHANGED <<nodes, implicits, types, context, past>>

Goes == said.outcome = "none" /\ said.n < MaxStatements

\* [outer.name]
Table(outer, name) ==
    /\ Goes
    /\ \E way \in Ways(outer) :
          IF ~Passes(way) THEN Fails("error")
          ELSE /\ SetValue(Newest(way, name), "Hash", New(way))
               /\ context' = Append(outer, name)

\* [[outer.name]]: one more element, of a new array or of one that is there.
ArrayTable(outer, name) ==
    /\ Goes
    /\ \E way \in Ways(outer) :
          IF ~Passes(way) \/ Append(way, <<name, 0>>) \in DOMAIN nodes THEN Fails("error")
          ELSE /\ SetValue(Append(way, <<name, Index(way, name) + 1>>), "ArrayHash", New(way))
               /\ context' = Append(outer, name)

\* key = value, in the table of the last header.
KeyValue(key) ==
    /\ Goes
    /\ \E way \in Ways(context) :
          IF ~Passes(way) \/ New(way) # {} THEN Fails("bug")
          ELSE SetValue(Newest(way, key), "Value", {}) /\ UNCHANGED context

Next ==
    \/ \E outer \in Outer, name \in TableNames : Table(outer, name) \/ ArrayTable(outer, name)
    \/ \E key \in Keys : KeyValue(key)

Spec == Init /\ [][Next]_vars

----------------------------------------------------------------------------
\* What stands twice in a document is an error (parse.go:317-337), but for
\* names that another node had implicitly: one of an older element of the
\* array, or one spelled with dots. A key's value is stored, unless the key is
\* that of an implicit table. Only after such a name is the header's table not
\* there for a key, which the parser takes for a bug and ends the process. The
\* type of a name that one node has is that of the node.
DefinedOnce ==
    LET alike(p) == {q \in DOMAIN nodes \ {p} : Dotted(Names(q)) = Dotted(Names(p))}
        shared(p) == alike(p) \cap past.born # {}
    IN /\ said.outcome = "bug" => past.twice # {}
       /\ \A p \in past.twice : shared(p)
       /\ \A p \in past.dropped : p \in past.born \/ shared(p)
       /\ \A p \in past.given \ past.dropped :
             alike(p) = {} => (types[Dotted(Names(p))] = "Value" <=> nodes[p] = "value")
=============================================================================
