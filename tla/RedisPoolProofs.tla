-------------------------- MODULE RedisPoolProofs ---------------------------
(***************************************************************************)
(* The connection pool of the redis client, for any number of clients,     *)
(* names and for every PoolSize: no connection is in two places, none is   *)
(* lost while the pool is open, and no more are open than PoolSize.        *)
(***************************************************************************)
EXTENDS RedisPool, SequenceTheorems, FiniteSetTheorems, TLAPS

Waiting == {"idle", "first", "grow", "wait"}
Booked  == Holding \cup {"dial", "undo"}    \* a place is counted for the client
Steps   == Waiting \cup Booked \cup {"full"}

Counted == {c \in Clients : pc[c] \in Booked}
Over    == {c \in Clients : pc[c] = "full"}   \* counted past the limit

TypeOK ==
  /\ conns \in Seq(Conns) /\ size \in Int /\ closed \in BOOLEAN
  /\ pc \in [Clients -> Steps]
  /\ cn \in [Clients -> Conns \cup {None}]
  /\ \A c \in Held : cn[c] \in Conns
  /\ filter \in {"no", "loop", "done"}
  /\ twice \in Nat

Finite == IsFiniteSet(Counted) /\ IsFiniteSet(Over) /\ IsFiniteSet(lost)

\* A name is once in the channel or in the hands of one client.
Apart ==
  /\ \A i, j \in 1..Len(conns) : conns[i] = conns[j] => i = j
  /\ \A c, d \in Held : cn[c] = cn[d] => c = d
  /\ \A c \in Held : cn[c] \notin Idle

Known == open \subseteq Idle \cup {cn[c] : c \in Held} \cup lost

NoneLost == ~closed /\ filter = "no" => lost = {}

\* The places taken are counted, those past the limit too; exactly so while
\* the pool is open and whole; and those within it respect the limit.
Balanced(idle, counted, over, given, n, t) ==
  idle + counted + over + given <= n + t /\ idle + counted + given <= PoolSize + t
Whole(idle, counted, over, n, t) == n + t = idle + counted + over

Counts ==
  /\ Balanced(Len(conns), Cardinality(Counted), Cardinality(Over), Cardinality(lost), size, twice)
  /\ ~closed /\ filter = "no"
       => Whole(Len(conns), Cardinality(Counted), Cardinality(Over), size, twice)

IInv == TypeOK /\ Finite /\ Apart /\ Known /\ NoneLost /\ Counts

-----------------------------------------------------------------------------
(* Counting: what a client's step does to the sets that are counted. *)

LEMMA Numbers ==
  ASSUME TypeOK, Finite
  PROVE  /\ Len(conns) \in Nat /\ size \in Int /\ twice \in Nat /\ PoolSize \in Nat \ {0}
         /\ Cardinality(Counted) \in Nat /\ Cardinality(Over) \in Nat
         /\ Cardinality(lost) \in Nat
<1>1. Len(conns) \in Nat
  BY LenProperties DEF TypeOK
<1> QED BY <1>1, FS_CardinalityType, PoolAssumption DEF TypeOK, Finite

\* What each kind of step does to the numbers.
LEMMA Balance ==
  ASSUME NEW q \in Nat, NEW c \in Nat, NEW o \in Nat, NEW g \in Nat, NEW n \in Int, NEW t \in Nat,
         Balanced(q, c, o, g, n, t)
  PROVE  /\ Balanced(q - 1, c + 1, o, g, n, t)
         /\ Balanced(q + 1, c - 1, o, g, n, t)
         /\ n + 1 <= PoolSize => Balanced(q, c + 1, o, g, n + 1, t)
         /\ Balanced(q, c, o + 1, g, n + 1, t)
         /\ Balanced(q, c - 1, o, g, n - 1, t)
         /\ Balanced(q, c, o - 1, g, n - 1, t)
         /\ Balanced(q, c, o, g, n - 1, t + 1)
         /\ Balanced(q - 1, c, o, g, n - 1, t)
         /\ \A m \in Nat : m <= g + 1 => Balanced(q, c - 1, o, m, n, t) /\ Balanced(q - 1, c, o, m, n, t)
BY PoolAssumption DEF Balanced

LEMMA StaysWhole ==
  ASSUME NEW q \in Nat, NEW c \in Nat, NEW o \in Nat, NEW n \in Int, NEW t \in Nat,
         Whole(q, c, o, n, t)
  PROVE  /\ Whole(q - 1, c + 1, o, n, t)
         /\ Whole(q + 1, c - 1, o, n, t)
         /\ Whole(q, c + 1, o, n + 1, t)
         /\ Whole(q, c, o + 1, n + 1, t)
         /\ Whole(q, c - 1, o, n - 1, t)
         /\ Whole(q, c, o - 1, n - 1, t)
         /\ Whole(q, c, o, n - 1, t + 1)
         /\ Whole(q - 1, c, o, n - 1, t)
BY DEF Whole

LEMMA Moved ==
  ASSUME TypeOK, NEW c \in Clients, NEW at \in Steps, Goto(c, at)
  PROVE  /\ pc' \in [Clients -> Steps]
         /\ \A d \in Clients : pc'[d] = IF d = c THEN at ELSE pc[d]
         /\ Held' = IF at \in Holding THEN Held \cup {c} ELSE Held \ {c}
         /\ Counted' = IF at \in Booked THEN Counted \cup {c} ELSE Counted \ {c}
         /\ Over' = IF at = "full" THEN Over \cup {c} ELSE Over \ {c}
<1>1. /\ pc' \in [Clients -> Steps]
      /\ \A d \in Clients : pc'[d] = IF d = c THEN at ELSE pc[d]
  BY DEF TypeOK, Goto
<1> QED BY <1>1 DEF Held, Counted, Over

LEMMA Joined ==
  ASSUME NEW S, IsFiniteSet(S), NEW c, NEW T, T = S \cup {c}
  PROVE  /\ IsFiniteSet(T) /\ Cardinality(T) \in Nat
         /\ Cardinality(T) = Cardinality(S) + (IF c \in S THEN 0 ELSE 1)
<1>1. Cardinality(S) \in Nat
  BY FS_CardinalityType
<1>2. /\ IsFiniteSet(T)
      /\ Cardinality(T) = IF c \in S THEN Cardinality(S) ELSE Cardinality(S) + 1
  BY FS_AddElement, Zenon
<1> QED BY <1>1, <1>2

LEMMA Left ==
  ASSUME NEW S, IsFiniteSet(S), NEW c, NEW T, T = S \ {c}
  PROVE  /\ IsFiniteSet(T) /\ Cardinality(T) \in Nat
         /\ Cardinality(T) = Cardinality(S) - (IF c \in S THEN 1 ELSE 0)
<1>1. Cardinality(S) \in Nat
  BY FS_CardinalityType
<1>2. /\ IsFiniteSet(T)
      /\ Cardinality(T) = IF c \in S THEN Cardinality(S) - 1 ELSE Cardinality(S)
  BY FS_RemoveElement, Zenon
<1>3. Cardinality(T) \in Nat
  BY <1>2, FS_CardinalityType
<1> QED BY <1>1, <1>2, <1>3

LEMMA Tally ==
  ASSUME TypeOK, Finite, NEW c \in Clients, NEW at \in Steps, Goto(c, at)
  PROVE  /\ IsFiniteSet(Counted') /\ IsFiniteSet(Over')
         /\ Cardinality(Counted') \in Nat /\ Cardinality(Over') \in Nat
         /\ Cardinality(Counted') = Cardinality(Counted)
              + (IF at \in Booked THEN 1 ELSE 0) - (IF pc[c] \in Booked THEN 1 ELSE 0)
         /\ Cardinality(Over') = Cardinality(Over)
              + (IF at = "full" THEN 1 ELSE 0) - (IF pc[c] = "full" THEN 1 ELSE 0)
<1>0. Cardinality(Counted) \in Nat /\ Cardinality(Over) \in Nat
  BY Numbers
<1>1. IsFiniteSet(Counted) /\ IsFiniteSet(Over)
  BY DEF Finite
<1>2. (c \in Counted <=> pc[c] \in Booked) /\ (c \in Over <=> pc[c] = "full")
  BY DEF Counted, Over
<1>3. /\ Counted' = IF at \in Booked THEN Counted \cup {c} ELSE Counted \ {c}
      /\ Over' = IF at = "full" THEN Over \cup {c} ELSE Over \ {c}
  BY Moved
<1>4. /\ IsFiniteSet(Counted') /\ Cardinality(Counted') \in Nat
      /\ Cardinality(Counted') = Cardinality(Counted)
           + (IF at \in Booked THEN 1 ELSE 0) - (IF c \in Counted THEN 1 ELSE 0)
  <2>1. CASE at \in Booked
    <3>1. Counted' = Counted \cup {c}
      BY <1>3, <2>1
    <3>2. /\ IsFiniteSet(Counted') /\ Cardinality(Counted') \in Nat
          /\ Cardinality(Counted') = Cardinality(Counted) + (IF c \in Counted THEN 0 ELSE 1)
      BY <1>1, <3>1, Joined
    <3> QED BY <1>0, <2>1, <3>2
  <2>2. CASE at \notin Booked
    <3>1. Counted' = Counted \ {c}
      BY <1>3, <2>2
    <3>2. /\ IsFiniteSet(Counted') /\ Cardinality(Counted') \in Nat
          /\ Cardinality(Counted') = Cardinality(Counted) - (IF c \in Counted THEN 1 ELSE 0)
      BY <1>1, <3>1, Left
    <3> QED BY <1>0, <2>2, <3>2
  <2> QED BY <2>1, <2>2
<1>5. /\ IsFiniteSet(Over') /\ Cardinality(Over') \in Nat
      /\ Cardinality(Over') = Cardinality(Over)
           + (IF at = "full" THEN 1 ELSE 0) - (IF c \in Over THEN 1 ELSE 0)
  <2>1. CASE at = "full"
    <3>1. Over' = Over \cup {c}
      BY <1>3, <2>1
    <3>2. /\ IsFiniteSet(Over') /\ Cardinality(Over') \in Nat
          /\ Cardinality(Over') = Cardinality(Over) + (IF c \in Over THEN 0 ELSE 1)
      BY <1>1, <3>1, Joined
    <3> QED BY <1>0, <2>1, <3>2
  <2>2. CASE at # "full"
    <3>1. Over' = Over \ {c}
      BY <1>3, <2>2
    <3>2. /\ IsFiniteSet(Over') /\ Cardinality(Over') \in Nat
          /\ Cardinality(Over') = Cardinality(Over) - (IF c \in Over THEN 1 ELSE 0)
      BY <1>1, <3>1, Left
    <3> QED BY <1>0, <2>2, <3>2
  <2> QED BY <2>1, <2>2
<1> QED BY <1>2, <1>4, <1>5, Zenon

\* What lost gains in a step is one name at most.
LEMMA LostOne ==
  ASSUME IsFiniteSet(lost), NEW n, NEW S, S \subseteq lost \cup {n}
  PROVE  IsFiniteSet(S) /\ Cardinality(S) \in Nat /\ Cardinality(S) <= Cardinality(lost) + 1
<1>1. Cardinality(lost) \in Nat
  BY FS_CardinalityType
<1>2. /\ IsFiniteSet(lost \cup {n}) /\ Cardinality(lost \cup {n}) \in Nat
      /\ Cardinality(lost \cup {n}) = Cardinality(lost) + (IF n \in lost THEN 0 ELSE 1)
  BY Joined
<1>3. IsFiniteSet(S) /\ Cardinality(S) <= Cardinality(lost \cup {n})
  BY <1>2, FS_Subset
<1> QED BY <1>1, <1>2, <1>3, FS_CardinalityType

-----------------------------------------------------------------------------
(* Places: what a step does to the names in the channel and in hands. *)

LEMMA Received ==
  ASSUME TypeOK, Apart, conns # <<>>, conns' = Tail(conns)
  PROVE  /\ conns' \in Seq(Conns) /\ Len(conns') = Len(conns) - 1
         /\ \A i, j \in 1..Len(conns') : conns'[i] = conns'[j] => i = j
         /\ Head(conns) \in Conns /\ Head(conns) \in Idle
         /\ Idle' = Idle \ {Head(conns)}
<1>1. /\ Tail(conns) \in Seq(Conns) /\ Head(conns) \in Conns /\ Head(conns) = conns[1]
      /\ Len(conns) \in Nat \ {0} /\ Len(Tail(conns)) = Len(conns) - 1
      /\ \A i \in 1..Len(Tail(conns)) : Tail(conns)[i] = conns[i + 1]
  BY DEF TypeOK
<1>2. Head(conns) \in Idle
  BY <1>1 DEF Idle
<1>3. \A i, j \in 1..Len(conns') : conns'[i] = conns'[j] => i = j
  BY <1>1 DEF Apart
<1>4. ASSUME NEW n \in Idle' PROVE n \in Idle /\ n # Head(conns)
  <2>1. PICK i \in 1..Len(conns') : n = conns'[i]
    BY DEF Idle
  <2>2. i + 1 \in 1..Len(conns) /\ n = conns[i + 1] /\ i + 1 # 1
    BY <1>1, <2>1
  <2> QED BY <1>1, <2>2 DEF Idle, Apart
<1>5. ASSUME NEW n \in Idle, n # Head(conns) PROVE n \in Idle'
  <2>1. PICK i \in 1..Len(conns) : n = conns[i]
    BY DEF Idle
  <2>2. i # 1
    BY <1>1, <1>5, <2>1
  <2>3. (i - 1) \in 1..Len(conns') /\ conns'[i - 1] = n
    BY <1>1, <2>1, <2>2
  <2> QED BY <2>3 DEF Idle
<1> QED BY <1>1, <1>2, <1>3, <1>4, <1>5

LEMMA Sent ==
  ASSUME TypeOK, Apart, NEW n \in Conns, n \notin Idle, conns' = Append(conns, n)
  PROVE  /\ conns' \in Seq(Conns) /\ Len(conns') = Len(conns) + 1
         /\ \A i, j \in 1..Len(conns') : conns'[i] = conns'[j] => i = j
         /\ Idle' = Idle \cup {n}
<1>1. /\ conns' \in Seq(Conns) /\ Len(conns') = Len(conns) + 1 /\ Len(conns) \in Nat
      /\ \A i \in 1..Len(conns) : conns'[i] = conns[i]
      /\ conns'[Len(conns) + 1] = n
  BY DEF TypeOK
<1>2. \A i \in 1..Len(conns') : i = Len(conns) + 1 \/ i \in 1..Len(conns)
  BY <1>1
<1>3. \A i, j \in 1..Len(conns') : conns'[i] = conns'[j] => i = j
  BY <1>1, <1>2 DEF Apart, Idle
<1>4. Idle' \subseteq Idle \cup {n}
  BY <1>1, <1>2 DEF Idle
<1>5. Idle \cup {n} \subseteq Idle'
  BY <1>1 DEF Idle
<1> QED BY <1>1, <1>3, <1>4, <1>5

Places == Apart /\ Known

\* A step that moves no connection, though it may close one.
LEMMA PlacesKept ==
  ASSUME Places, UNCHANGED <<conns, cn>>, Held' = Held, open' \subseteq open, lost \subseteq lost'
  PROVE  Places'
<1>1. Idle' = Idle
  BY DEF Idle
<1> QED BY <1>1 DEF Places, Apart, Known

\* A client takes the head of the channel.
LEMMA PlacesTaken ==
  ASSUME TypeOK, Places, NEW c \in Clients, c \notin Held, conns # <<>>, conns' = Tail(conns),
         cn' = [cn EXCEPT ![c] = Head(conns)], Held' = Held \cup {c}, UNCHANGED <<open, lost>>
  PROVE  Places'
<1>1. /\ \A i, j \in 1..Len(conns') : conns'[i] = conns'[j] => i = j
      /\ Head(conns) \in Idle /\ Idle' = Idle \ {Head(conns)}
  BY Received DEF Places
<1>2. \A d \in Clients : cn'[d] = IF d = c THEN Head(conns) ELSE cn[d]
  BY DEF TypeOK
<1>3. Held \subseteq Clients
  BY DEF Held
<1>4. \A d, e \in Held' : cn'[d] = cn'[e] => d = e
  BY <1>1, <1>2, <1>3 DEF Places, Apart
<1>5. \A d \in Held' : cn'[d] \notin Idle'
  BY <1>1, <1>2, <1>3 DEF Places, Apart
<1>6. {cn[d] : d \in Held} \cup {Head(conns)} \subseteq {cn'[d] : d \in Held'}
  BY <1>2, <1>3
<1>7. Known'
  BY <1>1, <1>6 DEF Places, Known
<1> QED BY <1>1, <1>4, <1>5, <1>7 DEF Places, Apart

\* A client dials a name that is nowhere.
LEMMA PlacesDialled ==
  ASSUME TypeOK, Places, NEW c \in Clients, c \notin Held, NEW n \in Unused,
         cn' = [cn EXCEPT ![c] = n], Held' = Held \cup {c},
         open' = open \cup {n}, UNCHANGED <<conns, lost>>
  PROVE  Places'
<1>1. \A d \in Clients : cn'[d] = IF d = c THEN n ELSE cn[d]
  BY DEF TypeOK, Unused
<1>2. Held \subseteq Clients
  BY DEF Held
<1>3. n \notin Idle /\ \A d \in Held : cn[d] # n
  BY DEF Unused
<1>4. Idle' = Idle
  BY DEF Idle
<1>5. {cn[d] : d \in Held} \cup {n} \subseteq {cn'[d] : d \in Held'}
  BY <1>1, <1>2
<1>6. Known'
  BY <1>4, <1>5 DEF Places, Known
<1>7. \A d, e \in Held' : cn'[d] = cn'[e] => d = e
  BY <1>1, <1>2, <1>3 DEF Places, Apart
<1>8. \A d \in Held' : cn'[d] \notin Idle'
  BY <1>1, <1>2, <1>3, <1>4 DEF Places, Apart
<1> QED BY <1>6, <1>7, <1>8 DEF Places, Apart

\* A client lets go of its connection, closed or given up.
LEMMA PlacesLeft ==
  ASSUME TypeOK, Places, NEW c \in Held, cn' = [cn EXCEPT ![c] = None], Held' = Held \ {c},
         open' \subseteq open, cn[c] \in open' => cn[c] \in lost', lost \cap open' \subseteq lost',
         UNCHANGED conns
  PROVE  Places'
<1>1. \A d \in Held' : cn'[d] = cn[d]
  BY DEF TypeOK, Held
<1>2. Idle' = Idle
  BY DEF Idle
<1>3. \A d \in Held : d = c \/ d \in Held'
  OBVIOUS
<1>4. ASSUME NEW n \in open', n \notin Idle', n \notin lost'
      PROVE  \E d \in Held' : n = cn'[d]
  <2>1. PICK d \in Held : n = cn[d]
    BY <1>2, <1>4 DEF Places, Known
  <2>2. d # c
    BY <1>4, <2>1
  <2> QED BY <1>1, <1>3, <2>1, <2>2
<1> QED BY <1>1, <1>2, <1>4 DEF Places, Apart, Known

\* A client sends its connection to the channel.
LEMMA PlacesSent ==
  ASSUME TypeOK, Places, NEW c \in Held, conns' = Append(conns, cn[c]),
         cn' = [cn EXCEPT ![c] = None], Held' = Held \ {c}, UNCHANGED <<open, lost>>
  PROVE  Places'
<1>1. \A d \in Held' : cn'[d] = cn[d]
  BY DEF TypeOK, Held
<1>2. cn[c] \in Conns /\ cn[c] \notin Idle
  BY DEF TypeOK, Places, Apart
<1>3. /\ \A i, j \in 1..Len(conns') : conns'[i] = conns'[j] => i = j
      /\ Idle' = Idle \cup {cn[c]}
  BY <1>2, Sent DEF Places
<1>4. \A d \in Held' : cn'[d] \notin Idle'
  BY <1>1, <1>3 DEF Places, Apart
<1>5. \A d, e \in Held' : cn'[d] = cn'[e] => d = e
  BY <1>1 DEF Places, Apart
<1>6. {cn[d] : d \in Held} \subseteq {cn'[d] : d \in Held'} \cup {cn[c]}
  BY <1>1
<1>7. Known'
  BY <1>3, <1>6 DEF Places, Known
<1> QED BY <1>3, <1>4, <1>5, <1>7 DEF Places, Apart

\* Filter or Close takes the head of the channel, to close it or give it up.
LEMMA PlacesPopped ==
  ASSUME TypeOK, Places, conns # <<>>, conns' = Tail(conns), UNCHANGED cn, Held' = Held,
         open' \subseteq open, Head(conns) \in open' => Head(conns) \in lost', lost \subseteq lost'
  PROVE  Places'
<1>1. /\ \A i, j \in 1..Len(conns') : conns'[i] = conns'[j] => i = j
      /\ Idle' = Idle \ {Head(conns)}
  BY Received DEF Places
<1> QED BY <1>1 DEF Places, Apart, Known

-----------------------------------------------------------------------------
(* The steps. *)

\* What the invariant says of numbers, for the arithmetic of a step.
LEMMA Sums ==
  ASSUME IInv
  PROVE  /\ Len(conns) \in Nat /\ size \in Int /\ twice \in Nat /\ PoolSize \in Nat \ {0}
         /\ Cardinality(Counted) \in Nat /\ Cardinality(Over) \in Nat
         /\ Cardinality(lost) \in Nat
         /\ TypeOK /\ Finite /\ Places /\ NoneLost /\ Counts
BY Numbers DEF IInv, Places

\* What a step may do to the numbers.
LEMMA Changes ==
  ASSUME IInv
  PROVE  LET q == Len(conns)
             c == Cardinality(Counted)
             o == Cardinality(Over)
             g == Cardinality(lost)
         IN /\ Balanced(q - 1, c + 1, o, g, size, twice)
            /\ Balanced(q + 1, c - 1, o, g, size, twice)
            /\ size + 1 <= PoolSize => Balanced(q, c + 1, o, g, size + 1, twice)
            /\ Balanced(q, c, o + 1, g, size + 1, twice)
            /\ Balanced(q, c - 1, o, g, size - 1, twice)
            /\ Balanced(q, c, o - 1, g, size - 1, twice)
            /\ Balanced(q, c, o, g, size - 1, twice + 1)
            /\ Balanced(q - 1, c, o, g, size - 1, twice)
            /\ \A m \in Nat : m <= g + 1 => /\ Balanced(q, c - 1, o, m, size, twice)
                                            /\ Balanced(q - 1, c, o, m, size, twice)
            /\ ~closed /\ filter = "no" => /\ Whole(q - 1, c + 1, o, size, twice)
                                           /\ Whole(q + 1, c - 1, o, size, twice)
                                           /\ Whole(q, c + 1, o, size + 1, twice)
                                           /\ Whole(q, c, o + 1, size + 1, twice)
                                           /\ Whole(q, c - 1, o, size - 1, twice)
                                           /\ Whole(q, c, o - 1, size - 1, twice)
                                           /\ Whole(q, c, o, size - 1, twice + 1)
                                           /\ Whole(q - 1, c, o, size - 1, twice)
<1>1. /\ Balanced(Len(conns), Cardinality(Counted), Cardinality(Over), Cardinality(lost), size, twice)
      /\ ~closed /\ filter = "no"
           => Whole(Len(conns), Cardinality(Counted), Cardinality(Over), size, twice)
      /\ Len(conns) \in Nat /\ size \in Int /\ twice \in Nat
      /\ Cardinality(Counted) \in Nat /\ Cardinality(Over) \in Nat /\ Cardinality(lost) \in Nat
  BY Sums DEF Counts
<1> QED BY <1>1, Balance, StaysWhole

\* A client goes on, its connection, if any, and its place unchanged.
LEMMA WalkInv ==
  ASSUME IInv, NEW c \in Clients, NEW at \in Steps, Goto(c, at),
         at \in Holding <=> pc[c] \in Holding, at \in Booked <=> pc[c] \in Booked,
         at = "full" <=> pc[c] = "full",
         UNCHANGED <<conns, size, closed, open, cn, filter, lost, twice>>
  PROVE  IInv'
<1>1. Held' = Held /\ Counted' = Counted /\ Over' = Over /\ pc' \in [Clients -> Steps]
  BY Moved DEF IInv, Held, Counted, Over
<1>2. TypeOK' /\ Finite'
  BY <1>1 DEF IInv, TypeOK, Finite
<1>3. Places'
  BY <1>1, PlacesKept, Sums
<1>4. NoneLost' /\ Counts'
  BY <1>1 DEF IInv, NoneLost, Counts
<1> QED BY <1>2, <1>3, <1>4 DEF IInv, Places

LEMMA ReceiveInv ==
  ASSUME IInv, NEW c \in Clients, pc[c] \in Waiting, NEW evict \in {"evictFirst", "evictWait"},
         Receive(c, evict)
  PROVE  IInv'
<1>1. PICK at \in {"use", evict} : Hold(c, Head(conns), at)
  BY DEF Receive
<1>2. /\ at \in Steps /\ at \in Holding /\ at \in Booked /\ at # "full"
      /\ pc[c] \notin Holding /\ pc[c] \notin Booked /\ pc[c] # "full"
  BY DEF Steps, Booked, Holding, Waiting
<1>3. /\ Goto(c, at) /\ cn' = [cn EXCEPT ![c] = Head(conns)]
      /\ conns # <<>> /\ conns' = Tail(conns)
      /\ UNCHANGED <<size, closed, open, filter, lost, twice>>
  BY <1>1 DEF Hold, Receive
<1>4. /\ pc' \in [Clients -> Steps] /\ Held' = Held \cup {c} /\ c \notin Held
  BY <1>2, <1>3, Moved, Sums DEF Held
<1>5. /\ IsFiniteSet(Counted') /\ IsFiniteSet(Over')
      /\ Cardinality(Counted') = Cardinality(Counted) + 1
      /\ Cardinality(Over') = Cardinality(Over)
  BY <1>2, <1>3, Tally, Sums
<1>6. conns' \in Seq(Conns) /\ Len(conns') = Len(conns) - 1 /\ Head(conns) \in Conns
  BY <1>3, Received, Sums DEF Places
<1>7. TypeOK' /\ Finite'
  BY <1>3, <1>4, <1>5, <1>6, Sums DEF TypeOK, Finite
<1>8. Places'
  BY <1>3, <1>4, PlacesTaken, Sums
<1>9. NoneLost'
  BY <1>3, Sums DEF NoneLost
<1>10. Counts'
  BY <1>3, <1>5, <1>6, Changes DEF Counts
<1> QED BY <1>7, <1>8, <1>9, <1>10 DEF IInv, Places

LEMMA GrowInv ==
  ASSUME IInv, NEW c \in Clients, Grow(c)
  PROVE  IInv'
<1>1. PICK at \in {"dial", "full"} :
        /\ Goto(c, at) /\ at = IF size + 1 <= PoolSize THEN "dial" ELSE "full"
        /\ size' = size + 1 /\ UNCHANGED <<conns, closed, open, cn, filter, lost, twice>>
  BY DEF Grow
<1>2. /\ at \in Steps /\ at \notin Holding /\ (at \in Booked <=> at = "dial")
      /\ pc[c] \notin Holding /\ pc[c] \notin Booked /\ pc[c] # "full"
  BY DEF Steps, Booked, Holding, Waiting, Grow
<1>3. pc' \in [Clients -> Steps] /\ Held' = Held
  BY <1>1, <1>2, Moved, Sums DEF Held
<1>4. /\ IsFiniteSet(Counted') /\ IsFiniteSet(Over')
      /\ Cardinality(Counted') = Cardinality(Counted) + (IF at = "dial" THEN 1 ELSE 0)
      /\ Cardinality(Over') = Cardinality(Over) + (IF at = "dial" THEN 0 ELSE 1)
  BY <1>1, <1>2, Tally, Sums
<1>5. TypeOK' /\ Finite'
  BY <1>1, <1>3, <1>4, Sums DEF TypeOK, Finite
<1>6. Places'
  BY <1>1, <1>3, PlacesKept, Sums
<1>7. NoneLost'
  BY <1>1, Sums DEF NoneLost
<1>8. Counts'
  <2>1. size' = size + 1 /\ UNCHANGED <<conns, lost, twice, closed, filter>>
    BY <1>1
  <2>2. CASE at = "dial"
    <3>1. size + 1 <= PoolSize
      BY <1>1, <2>2
    <3>2. Cardinality(Counted') = Cardinality(Counted) + 1 /\ Cardinality(Over') = Cardinality(Over)
      BY <1>4, <2>2, Sums
    <3> QED BY <2>1, <3>1, <3>2, Changes DEF Counts
  <2>3. CASE at = "full"
    <3>1. Cardinality(Counted') = Cardinality(Counted) /\ Cardinality(Over') = Cardinality(Over) + 1
      BY <1>4, <2>3, Sums
    <3> QED BY <2>1, <3>1, Changes DEF Counts
  <2> QED BY <2>2, <2>3
<1> QED BY <1>5, <1>6, <1>7, <1>8 DEF IInv, Places

\* A client takes its place back from the counter and goes on with nothing.
LEMMA UndoInv ==
  ASSUME IInv, NEW c \in Clients, DialFailed(c) \/ Full(c)
  PROVE  IInv'
<1>1. PICK at \in {"idle", "wait"} :
        /\ Goto(c, at) /\ pc[c] \in {"undo", "full"}
        /\ size' = size - 1 /\ UNCHANGED <<conns, closed, open, cn, filter, lost, twice>>
  BY DEF DialFailed, Full
<1>2. /\ at \in Steps /\ at \notin Holding /\ at \notin Booked /\ at # "full"
      /\ pc[c] \notin Holding /\ (pc[c] \in Booked <=> pc[c] # "full")
  BY <1>1 DEF Steps, Booked, Holding, Waiting
<1>3. pc' \in [Clients -> Steps] /\ Held' = Held
  BY <1>1, <1>2, Moved, Sums DEF Held
<1>4. /\ IsFiniteSet(Counted') /\ IsFiniteSet(Over')
      /\ Cardinality(Counted') \in Nat /\ Cardinality(Over') \in Nat
      /\ Cardinality(Counted') = Cardinality(Counted) - (IF pc[c] = "full" THEN 0 ELSE 1)
      /\ Cardinality(Over') = Cardinality(Over) - (IF pc[c] = "full" THEN 1 ELSE 0)
  <2>1. /\ IsFiniteSet(Counted') /\ IsFiniteSet(Over')
        /\ Cardinality(Counted') \in Nat /\ Cardinality(Over') \in Nat
        /\ Cardinality(Counted') = Cardinality(Counted) + 0 - (IF pc[c] \in Booked THEN 1 ELSE 0)
        /\ Cardinality(Over') = Cardinality(Over) + 0 - (IF pc[c] = "full" THEN 1 ELSE 0)
    BY <1>1, <1>2, Tally, Sums
  <2>2. Cardinality(Counted) \in Nat /\ Cardinality(Over) \in Nat
    BY Sums
  <2> QED BY <1>2, <2>1, <2>2
<1>5. TypeOK' /\ Finite'
  BY <1>1, <1>3, <1>4, Sums DEF TypeOK, Finite
<1>6. Places'
  BY <1>1, <1>3, PlacesKept, Sums
<1>7. NoneLost'
  BY <1>1, Sums DEF NoneLost
<1>8. Counts'
  <2>1. size' = size - 1 /\ UNCHANGED <<conns, lost, twice, closed, filter>>
    BY <1>1
  <2>2. CASE pc[c] = "full"
    <3>1. Cardinality(Counted') = Cardinality(Counted) /\ Cardinality(Over') = Cardinality(Over) - 1
      BY <1>4, <2>2, Sums
    <3> QED BY <2>1, <3>1, Changes DEF Counts
  <2>3. CASE pc[c] # "full"
    <3>1. Cardinality(Counted') = Cardinality(Counted) - 1 /\ Cardinality(Over') = Cardinality(Over)
      BY <1>4, <2>3, Sums
    <3> QED BY <2>1, <3>1, Changes DEF Counts
  <2> QED BY <2>2, <2>3
<1> QED BY <1>5, <1>6, <1>7, <1>8 DEF IInv, Places

LEMMA DialInv ==
  ASSUME IInv, NEW c \in Clients, Dial(c)
  PROVE  IInv'
<1>1. CASE Goto(c, "undo") /\ UNCHANGED <<cn, open>>
  BY <1>1, WalkInv DEF Dial, Steps, Booked, Holding
<1>2. CASE \E n \in Unused, at \in {"init", "use"} : open' = open \cup {n} /\ Hold(c, n, at)
  <2>1. PICK n \in Unused, at \in {"init", "use"} : open' = open \cup {n} /\ Hold(c, n, at)
    BY <1>2
  <2>2. /\ at \in Steps /\ at \in Holding /\ at \in Booked /\ at # "full"
        /\ pc[c] \notin Holding /\ pc[c] \in Booked /\ pc[c] # "full"
    BY DEF Steps, Booked, Holding, Waiting, Dial
  <2>3. /\ Goto(c, at) /\ cn' = [cn EXCEPT ![c] = n]
        /\ UNCHANGED <<conns, size, closed, filter, lost, twice>>
    BY <2>1 DEF Hold, Dial
  <2>4. pc' \in [Clients -> Steps] /\ Held' = Held \cup {c} /\ c \notin Held
    BY <2>2, <2>3, Moved, Sums DEF Held
  <2>5. /\ IsFiniteSet(Counted') /\ IsFiniteSet(Over')
        /\ Cardinality(Counted') = Cardinality(Counted)
        /\ Cardinality(Over') = Cardinality(Over)
    BY <2>2, <2>3, Tally, Sums
  <2>6. TypeOK' /\ Finite'
    BY <2>3, <2>4, <2>5, Sums DEF TypeOK, Finite, Unused
  <2>7. Places'
    BY <2>1, <2>3, <2>4, PlacesDialled, Sums
  <2>8. NoneLost'
    BY <2>3, Sums DEF NoneLost
  <2>9. Counts'
    BY <2>3, <2>5, Sums DEF Counts
  <2> QED BY <2>6, <2>7, <2>8, <2>9 DEF IInv, Places
<1> QED BY <1>1, <1>2 DEF Dial

\* A connection removed while it is set up: counted down, and still held.
LEMMA InitRemoveInv ==
  ASSUME IInv, NEW c \in Clients, InitRemove(c)
  PROVE  IInv'
<1>1. /\ Goto(c, "remove") /\ UNCHANGED <<conns, closed, cn, filter, lost>>
      /\ pc[c] = "initRemove"
  BY DEF InitRemove
<1>2. CASE closed
  BY <1>1, <1>2, WalkInv DEF InitRemove, Steps, Booked, Holding
<1>3. CASE ~closed
  <2>1. size' = size - 1 /\ twice' = twice + 1 /\ open' \subseteq open
    BY <1>3 DEF InitRemove
  <2>2. Held' = Held /\ Counted' = Counted /\ Over' = Over /\ pc' \in [Clients -> Steps]
    BY <1>1, Moved, Sums DEF Steps, Booked, Holding, Held, Counted, Over
  <2>3. TypeOK' /\ Finite'
    BY <1>1, <2>1, <2>2, Sums DEF TypeOK, Finite
  <2>4. Places'
    BY <1>1, <2>1, <2>2, PlacesKept, Sums
  <2>5. NoneLost'
    BY <1>1, Sums DEF NoneLost
  <2>6. Counts'
    <3>1. /\ size' = size - 1 /\ twice' = twice + 1 /\ UNCHANGED <<conns, lost, closed, filter>>
          /\ Cardinality(Counted') = Cardinality(Counted) /\ Cardinality(Over') = Cardinality(Over)
      BY <1>1, <2>1, <2>2
    <3> QED BY <3>1, Changes DEF Counts
  <2> QED BY <2>3, <2>4, <2>5, <2>6 DEF IInv, Places
<1> QED BY <1>2, <1>3

\* A client lets go: it closes the connection and counts it down, or gives it
\* up to a closed pool.
LEMMA LetGoInv ==
  ASSUME IInv, NEW c \in Clients, pc[c] \in Holding, NEW at \in {"idle", "first", "wait"},
         Goto(c, at), cn' = [cn EXCEPT ![c] = None], UNCHANGED <<conns, closed, filter, twice>>,
         \/ size' = size - 1 /\ open' = open \ {cn[c]} /\ lost' = lost
         \/ closed /\ lost' = (lost \cup {cn[c]}) \cap open /\ UNCHANGED <<size, open>>
  PROVE  IInv'
<1>1. /\ at \in Steps /\ at \notin Holding /\ at \notin Booked /\ at # "full"
      /\ pc[c] \in Booked /\ pc[c] # "full"
  BY DEF Steps, Booked, Holding, Waiting
<1>2. pc' \in [Clients -> Steps] /\ Held' = Held \ {c} /\ c \in Held
  BY <1>1, Moved, Sums DEF Held
<1>3. /\ IsFiniteSet(Counted') /\ IsFiniteSet(Over')
      /\ Cardinality(Counted') \in Nat /\ Cardinality(Over') \in Nat
      /\ Cardinality(Counted') = Cardinality(Counted) - 1
      /\ Cardinality(Over') = Cardinality(Over)
  BY <1>1, Tally, Sums
<1>4. /\ IsFiniteSet(lost') /\ Cardinality(lost') \in Nat
      /\ Cardinality(lost') <= Cardinality(lost) + 1
      /\ lost' = lost => Cardinality(lost') = Cardinality(lost)
  <2>1. lost' \subseteq lost \cup {cn[c]} /\ IsFiniteSet(lost)
    BY Sums DEF Finite
  <2> QED BY <2>1, LostOne
<1>5. TypeOK' /\ Finite'
  <2>1. size' \in Int
    BY Sums
  <2>2. \A d \in Held' : cn'[d] = cn[d] /\ d \in Held
    BY <1>2, Sums DEF Held, TypeOK
  <2> QED BY <1>2, <1>3, <1>4, <2>1, <2>2, Sums DEF TypeOK, Finite
<1>6. Places'
  BY <1>2, PlacesLeft, Sums
<1>7. NoneLost'
  BY Sums DEF NoneLost
<1>8. Counts'
  <2>1. CASE size' = size - 1 /\ lost' = lost
    BY <1>3, <2>1, Changes DEF Counts
  <2>2. CASE size' = size /\ closed
    <3>1. Balanced(Len(conns), Cardinality(Counted) - 1, Cardinality(Over), Cardinality(lost'), size, twice)
      BY <1>4, Changes DEF Counts
    <3> QED BY <1>3, <2>2, <3>1 DEF Counts
  <2> QED BY <2>1, <2>2
<1> QED BY <1>5, <1>6, <1>7, <1>8 DEF IInv, Places

LEMMA EvictStaleInv ==
  ASSUME IInv, NEW c \in Clients, EvictStale(c)
  PROVE  IInv'
<1>1. PICK at \in {"first", "wait"} : Hold(c, None, at)
  BY DEF EvictStale
<1> QED BY <1>1, LetGoInv DEF EvictStale, Hold, Holding

LEMMA DropInv ==
  ASSUME IInv, NEW c \in Clients, Drop(c)
  PROVE  IInv'
BY LetGoInv DEF Drop, LeaveAs, Holding

\* A closed pool refuses the connection; an open one goes on with it.
LEMMA RefusedInv ==
  ASSUME IInv, NEW c \in Clients, Put(c) \/ Remove(c)
  PROVE  IInv'
<1>1. /\ pc[c] \in {"put", "remove"}
      /\ UNCHANGED <<conns, size, closed, open, filter, twice>>
  BY DEF Put, Remove
<1>2. CASE closed
  BY <1>1, <1>2, LetGoInv DEF Put, Remove, Forget, LeaveAs, Holding
<1>3. CASE ~closed
  <2>1. PICK at \in {"send", "drop"} : Goto(c, at) /\ UNCHANGED <<cn, lost>>
    BY <1>3 DEF Put, Remove
  <2> QED BY <1>1, <2>1, WalkInv DEF Steps, Booked, Holding
<1> QED BY <1>2, <1>3

LEMMA SendInv ==
  ASSUME IInv, NEW c \in Clients, Send(c)
  PROVE  IInv'
<1>1. /\ Goto(c, "idle") /\ cn' = [cn EXCEPT ![c] = None] /\ conns' = Append(conns, cn[c])
      /\ UNCHANGED <<size, closed, open, filter, lost, twice>> /\ pc[c] = "send"
  BY DEF Send, LeaveAs
<1>2. /\ pc' \in [Clients -> Steps] /\ Held' = Held \ {c} /\ c \in Held
      /\ IsFiniteSet(Counted') /\ IsFiniteSet(Over')
      /\ Cardinality(Counted') \in Nat
      /\ Cardinality(Counted') = Cardinality(Counted) - 1
      /\ Cardinality(Over') = Cardinality(Over)
  <2>1. /\ "idle" \in Steps /\ "idle" \notin Holding /\ "idle" \notin Booked
        /\ pc[c] \in Holding /\ pc[c] \in Booked /\ pc[c] # "full"
    BY <1>1 DEF Steps, Booked, Holding, Waiting
  <2>2. pc' \in [Clients -> Steps] /\ Held' = Held \ {c} /\ c \in Held
    BY <1>1, <2>1, Moved, Sums DEF Held
  <2>3. /\ IsFiniteSet(Counted') /\ IsFiniteSet(Over') /\ Cardinality(Counted') \in Nat
        /\ Cardinality(Counted') = Cardinality(Counted) + 0 - 1
        /\ Cardinality(Over') = Cardinality(Over) + 0 - 0
    BY <1>1, <2>1, Tally, Sums
  <2>4. Cardinality(Counted) \in Nat /\ Cardinality(Over) \in Nat
    BY Sums
  <2> QED BY <2>2, <2>3, <2>4
<1>3. conns' \in Seq(Conns) /\ Len(conns') = Len(conns) + 1
  BY <1>1, <1>2, Sent, Sums DEF TypeOK, Places, Apart
<1>4. TypeOK' /\ Finite'
  <2>1. \A d \in Held' : cn'[d] = cn[d] /\ d \in Held
    BY <1>1, <1>2, Sums DEF Held, TypeOK
  <2> QED BY <1>1, <1>2, <1>3, <2>1, Sums DEF TypeOK, Finite
<1>5. Places'
  BY <1>1, <1>2, PlacesSent, Sums
<1>6. NoneLost'
  BY <1>1, Sums DEF NoneLost
<1>7. Counts'
  BY <1>1, <1>2, <1>3, Changes DEF Counts
<1> QED BY <1>4, <1>5, <1>6, <1>7 DEF IInv, Places

\* Filter and Close take idle connections, to close them or give them up.
LEMMA PopInv ==
  ASSUME IInv, conns # <<>>, conns' = Tail(conns), UNCHANGED <<closed, pc, cn, filter, twice>>,
         \/ size' = size - 1 /\ open' = open \ {Head(conns)} /\ lost' = lost
         \/ filter # "no" /\ lost' = lost \cup {Head(conns)} /\ UNCHANGED <<size, open>>
  PROVE  IInv'
<1>1. Held' = Held /\ Counted' = Counted /\ Over' = Over
  BY DEF Held, Counted, Over
<1>2. conns' \in Seq(Conns) /\ Len(conns') = Len(conns) - 1
  BY Received, Sums DEF Places
<1>3. /\ IsFiniteSet(lost') /\ Cardinality(lost') \in Nat
      /\ Cardinality(lost') <= Cardinality(lost) + 1
      /\ lost' = lost => Cardinality(lost') = Cardinality(lost)
  <2>1. lost' \subseteq lost \cup {Head(conns)} /\ IsFiniteSet(lost)
    BY Sums DEF Finite
  <2> QED BY <2>1, LostOne
<1>4. TypeOK' /\ Finite'
  <2>1. size' \in Int
    BY Sums
  <2> QED BY <1>1, <1>2, <1>3, <2>1, Sums DEF TypeOK, Finite
<1>5. Places'
  BY <1>1, PlacesPopped, Sums
<1>6. NoneLost'
  BY Sums DEF NoneLost
<1>7. Counts'
  <2>1. CASE size' = size - 1 /\ lost' = lost
    BY <1>1, <1>2, <2>1, Changes DEF Counts
  <2>2. CASE size' = size /\ filter # "no"
    <3>1. Balanced(Len(conns) - 1, Cardinality(Counted), Cardinality(Over), Cardinality(lost'), size, twice)
      BY <1>3, Changes DEF Counts
    <3> QED BY <1>1, <1>2, <2>2, <3>1 DEF Counts
  <2> QED BY <2>1, <2>2
<1> QED BY <1>4, <1>5, <1>6, <1>7 DEF IInv, Places

\* Steps of Filter, of Close and of the rate limiter that move no connection.
LEMMA PhaseInv ==
  ASSUME IInv, UNCHANGED <<conns, size, open, pc, cn, lost, twice>>, closed' \in BOOLEAN,
         filter' \in {"no", "loop", "done"}, closed => closed', filter # "no" => filter' # "no"
  PROVE  IInv'
<1>1. Held' = Held /\ Counted' = Counted /\ Over' = Over /\ Idle' = Idle
  BY DEF Held, Counted, Over, Idle
<1> QED BY <1>1 DEF IInv, TypeOK, Finite, Apart, Known, NoneLost, Counts

LEMMA ClientInv ==
  ASSUME IInv, NEW c \in Clients, Client(c)
  PROVE  IInv'
<1>1. CASE Get(c)
  BY <1>1, WalkInv DEF Get, Steps, Booked, Holding, Waiting
<1>2. CASE First(c)
  <2>1. CASE Receive(c, "evictFirst")
    BY <1>2, <2>1, ReceiveInv DEF First, Waiting
  <2>2. CASE ~Receive(c, "evictFirst")
    BY <1>2, <2>2, WalkInv DEF First, Steps, Booked, Holding, Waiting
  <2> QED BY <2>1, <2>2
<1>3. CASE Wait(c)
  <2>1. CASE Receive(c, "evictWait")
    BY <1>3, <2>1, ReceiveInv DEF Wait, Waiting
  <2>2. CASE ~Receive(c, "evictWait")
    BY <1>3, <2>2, WalkInv DEF Wait, Steps, Booked, Holding, Waiting
  <2> QED BY <2>1, <2>2
<1>4. CASE InitConn(c)
  BY <1>4, WalkInv DEF InitConn, Steps, Booked, Holding
<1>5. CASE Run(c)
  BY <1>5, WalkInv DEF Run, Steps, Booked, Holding
<1> QED BY <1>1, <1>2, <1>3, <1>4, <1>5, EvictStaleInv, GrowInv, DialInv, UndoInv, InitRemoveInv,
           RefusedInv, SendInv, DropInv DEF Client

LEMMA NextInv ==
  ASSUME IInv, [Next]_vars
  PROVE  IInv'
<1>1. CASE UNCHANGED vars
  BY <1>1, PhaseInv DEF vars, IInv, TypeOK
<1>2. CASE Refill \/ FilterStart \/ CloseStart
  BY <1>2, PhaseInv DEF Refill, FilterStart, CloseStart, IInv, TypeOK
<1>3. CASE Filter
  <2>1. CASE conns # <<>> /\ conns' = Tail(conns)
    BY <1>3, <2>1, PopInv DEF Filter
  <2>2. CASE ~(conns # <<>> /\ conns' = Tail(conns))
    BY <1>3, <2>2, PhaseInv DEF Filter, IInv, TypeOK
  <2> QED BY <2>1, <2>2
<1>4. CASE CloseLoop
  <2>1. CASE size < 1
    BY <1>4, <2>1, PhaseInv DEF CloseLoop, IInv, TypeOK
  <2>2. CASE ~(size < 1)
    BY <1>4, <2>2, PopInv DEF CloseLoop
  <2> QED BY <2>1, <2>2
<1> QED BY <1>1, <1>2, <1>3, <1>4, ClientInv DEF Next

-----------------------------------------------------------------------------
LEMMA InitInv == Init => IInv
<1> SUFFICES ASSUME Init PROVE IInv
  OBVIOUS
<1>1. Held = {} /\ Counted = {} /\ Over = {}
  BY DEF Init, Held, Counted, Over, Booked, Holding
<1>2. Len(conns) = 0 /\ Idle = {} /\ conns \in Seq(Conns)
  BY DEF Init, Idle
<1>3. TypeOK
  <2>1. conns \in Seq(Conns) /\ \A c \in Held : cn[c] \in Conns
    BY <1>1, <1>2
  <2>2. pc \in [Clients -> Steps] /\ cn \in [Clients -> Conns \cup {None}]
    BY DEF Init, Steps, Waiting
  <2>0. size = 0 /\ twice = 0 /\ closed = FALSE /\ filter = "no"
    BY DEF Init
  <2>3. size \in Int /\ twice \in Nat
    BY <2>0
  <2>4. closed \in BOOLEAN /\ filter \in {"no", "loop", "done"}
    BY <2>0, Zenon
  <2> QED BY <2>1, <2>2, <2>3, <2>4 DEF TypeOK
<1>4. /\ Finite /\ Cardinality(Counted) = 0 /\ Cardinality(Over) = 0 /\ Cardinality(lost) = 0
  BY <1>1, FS_EmptySet DEF Finite, Init
<1>5. Apart /\ Known /\ NoneLost
  BY <1>1, <1>2 DEF Apart, Known, NoneLost, Init
<1>6. Counts
  BY <1>2, <1>4, PoolAssumption DEF Init, Counts, Balanced, Whole
<1> QED BY <1>3, <1>4, <1>5, <1>6 DEF IInv

\* The names in the channel are as many as it is long.
LEMMA IdleSize ==
  ASSUME IInv
  PROVE  IsFiniteSet(Idle) /\ Cardinality(Idle) = Len(conns)
<1>1. Len(conns) \in Nat /\ conns \in [1..Len(conns) -> Conns]
  BY Sums, LenProperties, SeqDef DEF TypeOK
<1>2. conns \in Bijection(1..Len(conns), Idle)
  <2>1. conns \in Surjection(1..Len(conns), Idle)
    BY <1>1 DEF Surjection, Idle
  <2>2. \A i, j \in 1..Len(conns) : conns[i] = conns[j] => i = j
    BY DEF IInv, Apart
  <2>3. conns \in Injection(1..Len(conns), Idle)
    BY <2>1, <2>2 DEF Surjection, Injection, IsInjective
  <2> QED BY <2>1, <2>3 DEF Bijection
<1>3. IsFiniteSet(1..Len(conns)) /\ Cardinality(1..Len(conns)) = Len(conns)
  BY <1>1, FS_Interval
<1> QED BY <1>2, <1>3, FS_Bijection DEF ExistsBijection

\* What is open is no more than what is idle, held or lost.
LEMMA OpenSize ==
  ASSUME IInv
  PROVE  Cardinality(open) <= PoolSize + twice
<1> DEFINE hand == [c \in Held |-> cn[c]]
           hands == {cn[c] : c \in Held}
<1>1. /\ IsFiniteSet(Held) /\ Cardinality(Held) <= Cardinality(Counted)
  <2>1. Held \subseteq Counted /\ IsFiniteSet(Counted)
    BY DEF Held, Counted, Booked, IInv, Finite
  <2> QED BY <2>1, FS_Subset
<1>2. hand \in Surjection(Held, hands)
  BY DEF Surjection
<1>3. IsFiniteSet(hands) /\ Cardinality(hands) <= Cardinality(Held)
  BY <1>1, <1>2, FS_Surjection
<1>4. IsFiniteSet(Idle) /\ Cardinality(Idle) = Len(conns)
  BY IdleSize
<1>5. IsFiniteSet(lost)
  BY DEF IInv, Finite
<1> HIDE DEF hands
<1>6. ASSUME NEW S, NEW T, IsFiniteSet(S), IsFiniteSet(T)
      PROVE  /\ IsFiniteSet(S \cup T) /\ Cardinality(S \cup T) <= Cardinality(S) + Cardinality(T)
             /\ Cardinality(S) \in Nat /\ Cardinality(T) \in Nat /\ Cardinality(S \cup T) \in Nat
  <2>1. IsFiniteSet(S \cup T) /\ Cardinality(S \cup T)
           = Cardinality(S) + Cardinality(T) - Cardinality(S \cap T)
    BY <1>6, FS_Union
  <2>2. IsFiniteSet(S \cap T)
    BY <1>6, FS_Intersection
  <2>3. /\ Cardinality(S) \in Nat /\ Cardinality(T) \in Nat /\ Cardinality(S \cup T) \in Nat
        /\ Cardinality(S \cap T) \in Nat
    BY <1>6, <2>1, <2>2, FS_CardinalityType
  <2> QED BY <2>1, <2>3
<1>7. /\ IsFiniteSet(Idle \cup hands) /\ Cardinality(Idle \cup hands) \in Nat
      /\ Cardinality(Idle \cup hands) <= Cardinality(Idle) + Cardinality(hands)
      /\ Cardinality(hands) \in Nat
  BY <1>3, <1>4, <1>6
<1>8. /\ IsFiniteSet((Idle \cup hands) \cup lost)
      /\ Cardinality((Idle \cup hands) \cup lost) \in Nat
      /\ Cardinality((Idle \cup hands) \cup lost) <= Cardinality(Idle \cup hands) + Cardinality(lost)
  BY <1>5, <1>6, <1>7
<1>9. open \subseteq (Idle \cup hands) \cup lost
  BY DEF IInv, Known, hands
<1>10. Cardinality(open) <= Cardinality((Idle \cup hands) \cup lost) /\ Cardinality(open) \in Nat
  BY <1>8, <1>9, FS_Subset, FS_CardinalityType
<1>11. /\ Cardinality(Held) \in Nat /\ Cardinality(Counted) \in Nat /\ Cardinality(lost) \in Nat
       /\ Len(conns) \in Nat /\ twice \in Nat /\ PoolSize \in Nat
       /\ Len(conns) + Cardinality(Counted) + Cardinality(lost) <= PoolSize + twice
  BY <1>1, FS_CardinalityType, Sums DEF Counts, Balanced
<1> QED BY <1>1, <1>3, <1>4, <1>7, <1>8, <1>10, <1>11

\* A client about to put a connection back occupies a place itself.
LEMMA RoomToSend ==
  ASSUME IInv, twice = 0, NEW c \in Clients, pc[c] = "send"
  PROVE  Len(conns) < PoolSize
<1>1. c \in Counted /\ IsFiniteSet(Counted)
  BY DEF Counted, Booked, Holding, IInv, Finite
<1>2. Cardinality(Counted) # 0
  BY <1>1, FS_EmptySet
<1> QED BY <1>2, Sums DEF Counts, Balanced

LEMMA IInvAccounts == IInv => ConnsAccounted
<1> SUFFICES ASSUME IInv PROVE ConnsAccounted
  OBVIOUS
<1>1. NoneAstray
  BY IdleSize DEF NoneAstray, IInv, Apart, Known, NoneLost
<1>2. PoolBound
  BY OpenSize, RoomToSend DEF PoolBound
<1>3. SizeReturns
  <2> SUFFICES ASSUME \A c \in Clients : pc[c] = "idle", ~closed, filter = "no"
               PROVE  size = Len(conns) - twice
    BY DEF SizeReturns
  <2>1. Counted = {} /\ Over = {}
    BY DEF Counted, Over, Booked, Holding
  <2>2. Cardinality(Counted) = 0 /\ Cardinality(Over) = 0
    BY <2>1, FS_EmptySet
  <2> QED BY <2>2, Sums DEF Counts, Whole
<1> QED BY <1>1, <1>2, <1>3 DEF ConnsAccounted

(* Nothing is lost and nothing counted twice: what the pool counts is what *)
(* is idle in its channel or in the hands of a client, whatever dialling,  *)
(* evicting, removing, filtering and closing come between (pool.go:106-261). *)
THEOREM Accounted == Spec => []ConnsAccounted
<1>1. IInv /\ [Next]_vars => IInv'
  BY NextInv
<1> QED BY InitInv, <1>1, IInvAccounts, PTL DEF Spec
=============================================================================
