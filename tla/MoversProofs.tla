---------------------------- MODULE MoversProofs ----------------------------
(***************************************************************************)
(* Theorems about the programs that move redis lists, for any number of    *)
(* threads, lists, values, failures and kills: every value is accounted    *)
(* for, and those a thread moves to a list stay in order.                  *)
(***************************************************************************)
EXTENDS MCMovers, FiniteSetTheorems, SequenceTheorems, TLAPS

Entry == [value : Values \cup {Empty}, by : Movers]
Whereabouts == {"opens", "tests", "pops", "pushes", "left"}

ListTypes ==
    /\ queues \in 1..Cardinality(Movers)
    /\ source \in [Keys -> Seq(Values)]
    /\ target \in [Keys -> Seq(Entry)]
    /\ hand \in [Movers -> Seq(Values \cup {Empty})]
    /\ at \in [Movers -> Whereabouts]
    /\ lost \subseteq Values /\ again \in [Values -> Nat]

Ascending(s) == \A i, j \in DOMAIN s : i < j /\ s[j] # Empty => s[i] < s[j]

\* Lists and batches are in order, and a thread holds a batch only while it pushes.
InPlace ==
    /\ \A q \in Keys : Ascending(source[q]) /\ \A v \in ToSet(source[q]) : KeyOf(v) = q
    /\ \A t \in Movers : Ascending(hand[t]) /\ (at[t] # "pushes" => hand[t] = <<>>)

Queued(v) == \E q \in Keys : v \in ToSet(source[q])
InHand(v) == \E t \in Movers : v \in ToSet(hand[t])
Pushed(v) == Copies(v) = again[v] + 1

\* A value is queued, in one hand, lost or pushed.
OneState(v) ==
    /\ IsFiniteSet(Places(v)) /\ Copies(v) \in {again[v], again[v] + 1}
    /\ \A t, u \in Movers : v \in ToSet(hand[t]) /\ v \in ToSet(hand[u]) => t = u
    /\ Queued(v) => ~InHand(v) /\ v \notin lost /\ ~Pushed(v) /\ again[v] = 0
    /\ InHand(v) => v \notin lost /\ ~Pushed(v)
    /\ v \in lost => ~Pushed(v)
    /\ Queued(v) \/ InHand(v) \/ v \in lost \/ Pushed(v)

\* What t has pushed is older than what it holds, or is what it holds, pushed
\* before without an answer, the older values of the batch before it; and both
\* are older than what is still in the list t takes from.
Behind(t) ==
    /\ \A q \in Keys : \A i \in DOMAIN target[q] :
          LET v == target[q][i].value IN
          target[q][i].by = t /\ v # Empty =>
              /\ \A w \in ToSet(source[KeyOf(t)]) : v < w
              /\ \A w \in ToSet(hand[t]) \ {Empty} :
                    /\ v \notin ToSet(hand[t]) => v < w
                    /\ v \in ToSet(hand[t]) /\ w < v =>
                           \E k \in 1..(i - 1) : target[q][k].value = w
    /\ \A v \in ToSet(hand[t]), w \in ToSet(source[KeyOf(t)]) : v < w

ListInv == /\ ListTypes /\ InPlace
           /\ \A v \in Values : OneState(v)
           /\ \A t \in Movers : Behind(t)
           /\ OrderKept

\* The values redis_queue_mover has moved and counted.
Moved == {v \in Values : Copies(v) > 0 /\ ~InHand(v)}

Counts ==
    /\ kills \in Nat
    /\ program = "redis_queue_mover" =>
          /\ \A t \in Movers : Empty \notin ToSet(hand[t])
          /\ main # "joinsMovers" => \A t \in Movers : at[t] = "left"
          /\ kills = 0 => numMoved = Cardinality(Moved)

\* A mover of queue_redis2redis is started only after those before it.
StartsInOrder ==
    program = "queue_redis2redis" =>
        \A t, u \in Movers : at[t] = "opens" /\ t < u => at[u] = "opens"

MoversInv == ListInv /\ Counts /\ StartsInOrder
-----------------------------------------------------------------------------
\* Lists, batches and places

LEMMA InSet == \A s, v : v \in ToSet(s) <=> \E i \in DOMAIN s : s[i] = v
BY DEF ToSet

LEMMA KeyFacts ==
    ASSUME ListTypes
    PROVE  /\ queues \in Nat \ {0} /\ Keys = 0..(queues - 1)
           /\ Movers \subseteq Nat /\ \A t \in Movers : KeyOf(t) \in Keys
<1>1. Cardinality(Movers) \in Nat
  BY ListsAssumption, FS_CardinalityType
<1>2. queues \in Nat \ {0}
  BY <1>1 DEF ListTypes
<1>3. Movers \subseteq Nat
  BY <1>1, ListsAssumption
<1>4. \A t \in Movers : t % queues \in 0..(queues - 1)
  BY <1>2, <1>3
<1> QED
  BY <1>2, <1>3, <1>4 DEF Keys, KeyOf

LEMMA ValueFacts ==
    /\ Values \subseteq Nat /\ Empty \notin Values /\ Empty \in Nat
    /\ \A v \in Values \cup {Empty} : v \in Nat /\ ~(v < v)
    /\ \A v, w \in Values \cup {Empty} : v < w => v # w /\ ~(w < v)
BY ListsAssumption DEF Values, Empty

\* A batch is the front of the list, and what is left the rest.
LEMMA TakenAndLeft ==
    ASSUME ListTypes, NEW q \in Keys
    PROVE  /\ Taken(q) \in Seq(Values) /\ Left(q) \in Seq(Values)
           /\ \A i \in DOMAIN Taken(q) : i \in DOMAIN source[q] /\ Taken(q)[i] = source[q][i]
           /\ \A i \in DOMAIN Left(q) : /\ Len(Taken(q)) + i \in DOMAIN source[q]
                                        /\ Left(q)[i] = source[q][Len(Taken(q)) + i]
           /\ \A i \in DOMAIN source[q] : i \in DOMAIN Taken(q)
                                          \/ i - Len(Taken(q)) \in DOMAIN Left(q)
<1> DEFINE s == source[q]
           m == IF Len(s) < Batch THEN Len(s) ELSE Batch
<1>1. s \in Seq(Values) /\ Batch \in Nat
  BY ListsAssumption DEF ListTypes
<1>2. Taken(q) = SubSeq(s, 1, m)
  BY DEF Taken
<1>3. m \in 0..Len(s) /\ Len(s) \in Nat
  BY <1>1
<1> HIDE DEF s, m
<1>4. /\ Taken(q) \in Seq(Values) /\ Len(Taken(q)) = m
      /\ \A i \in 1..m : Taken(q)[i] = s[i]
  BY <1>1, <1>2, <1>3
<1>5. Left(q) = SubSeq(s, m + 1, Len(s))
  BY <1>4 DEF Left, s
<1>6. /\ Left(q) \in Seq(Values) /\ Len(Left(q)) = Len(s) - m
      /\ \A i \in 1..(Len(s) - m) : Left(q)[i] = s[m + i]
  BY <1>1, <1>3, <1>5
<1>7. /\ DOMAIN Taken(q) = 1..m /\ DOMAIN Left(q) = 1..(Len(s) - m) /\ DOMAIN s = 1..Len(s)
  BY <1>1, <1>4, <1>6
<1>8. s = source[q]
  BY DEF s
<1> QED
  BY <1>3, <1>4, <1>6, <1>7, <1>8

LEMMA TakenApart ==
    ASSUME ListTypes, InPlace, NEW q \in Keys
    PROVE  /\ ToSet(Taken(q)) \subseteq Values /\ ToSet(Left(q)) \subseteq Values
           /\ \A v : v \in ToSet(source[q]) <=> v \in ToSet(Taken(q)) \/ v \in ToSet(Left(q))
           /\ \A v \in ToSet(Taken(q)), w \in ToSet(Left(q)) : v < w
           /\ Ascending(Taken(q)) /\ Ascending(Left(q))
<1> DEFINE s == source[q]
           a == Taken(q)
           b == Left(q)
           m == Len(a)
<1>1. /\ a \in Seq(Values) /\ b \in Seq(Values) /\ s \in Seq(Values)
      /\ \A i \in DOMAIN a : i \in DOMAIN s /\ a[i] = s[i]
      /\ \A i \in DOMAIN b : m + i \in DOMAIN s /\ b[i] = s[m + i]
      /\ \A i \in DOMAIN s : i \in DOMAIN a \/ i - m \in DOMAIN b
  BY TakenAndLeft DEF ListTypes
<1>2. Ascending(s)
  BY DEF InPlace
<1>3. /\ DOMAIN a = 1..m /\ DOMAIN b \subseteq Nat \ {0} /\ DOMAIN s \subseteq Nat /\ m \in Nat
      /\ \A i \in DOMAIN a : a[i] \in Values
      /\ \A i \in DOMAIN b : b[i] \in Values
  BY <1>1
<1> HIDE DEF s, a, b, m
<1>4. \A i, j \in DOMAIN s : i < j /\ s[j] \in Values => s[i] < s[j]
  BY <1>2, ValueFacts DEF Ascending
<1>5. ToSet(a) \subseteq Values /\ ToSet(b) \subseteq Values
  BY <1>3, InSet
<1>6. ASSUME NEW v PROVE v \in ToSet(s) <=> v \in ToSet(a) \/ v \in ToSet(b)
  <2>1. ASSUME NEW i \in DOMAIN s, s[i] = v PROVE v \in ToSet(a) \/ v \in ToSet(b)
    <3>1. CASE i \in DOMAIN a
      BY <1>1, <2>1, <3>1, InSet
    <3>2. CASE i - m \in DOMAIN b
      <4>1. m + (i - m) = i
        BY <1>3
      <4> QED
        BY <1>1, <2>1, <3>2, <4>1, InSet
    <3> QED
      BY <1>1, <3>1, <3>2
  <2> QED
    BY <1>1, <2>1, InSet
<1>7. ASSUME NEW v \in ToSet(a), NEW w \in ToSet(b) PROVE v < w
  <2>1. PICK i \in DOMAIN a : a[i] = v
    BY InSet
  <2>2. PICK j \in DOMAIN b : b[j] = w
    BY InSet
  <2>3. i < m + j
    BY <1>3
  <2> QED
    BY <1>1, <1>3, <1>4, <2>1, <2>2, <2>3
<1>8. Ascending(a)
  BY <1>1, <1>3, <1>4 DEF Ascending
<1>9. Ascending(b)
  <2>1. \A i, j \in DOMAIN b : i < j => m + i < m + j
    BY <1>3
  <2> QED
    BY <1>1, <1>3, <1>4, <2>1 DEF Ascending
<1> QED
  BY <1>5, <1>6, <1>7, <1>8, <1>9 DEF s, a, b

\* A push appends the batch of t, signed by t, and leaves all else where it is.
Before(q) == Len(target[q])
Size(t) == Len(hand[t])

LEMMA AddsIs ==
    ASSUME ListTypes, NEW t \in Movers, NEW q \in Keys, Adds(t, q)
    PROVE  /\ target' \in [Keys -> Seq(Entry)]
           /\ \A r \in Keys : r # q => target'[r] = target[r]
           /\ DOMAIN target[q] = 1..Before(q) /\ Before(q) \in Nat
           /\ DOMAIN hand[t] = 1..Size(t) /\ Size(t) \in Nat
           /\ DOMAIN target'[q] = 1..(Before(q) + Size(t))
           /\ \A i \in DOMAIN target[q] : target'[q][i] = target[q][i]
           /\ \A i \in DOMAIN hand[t] :
                 target'[q][Before(q) + i] = [value |-> hand[t][i], by |-> t]
<1> DEFINE e == Entries(t)
           g == target[q]
           h == hand[t]
<1>1. target \in [Keys -> Seq(Entry)] /\ g \in Seq(Entry) /\ h \in Seq(Values \cup {Empty})
  BY DEF ListTypes
<1>2. /\ e \in Seq(Entry) /\ Len(e) = Len(h)
      /\ \A i \in 1..Len(h) : e[i] = [value |-> h[i], by |-> t]
  <2>1. e = [i \in 1..Len(h) |-> [value |-> h[i], by |-> t]]
    BY <1>1 DEF Entries
  <2>2. \A i \in 1..Len(h) : [value |-> h[i], by |-> t] \in Entry
    BY <1>1 DEF Entry
  <2>3. Len(h) \in Nat
    BY <1>1
  <2> HIDE DEF e, h
  <2> QED
    BY <2>1, <2>2, <2>3
<1>3. target' = [target EXCEPT ![q] = g \o e]
  BY DEF Adds
<1> HIDE DEF e
<1>4. /\ g \o e \in Seq(Entry) /\ Len(g \o e) = Len(g) + Len(h)
      /\ \A i \in 1..Len(g) : (g \o e)[i] = g[i]
      /\ \A i \in 1..Len(h) : (g \o e)[Len(g) + i] = e[i]
  <2> HIDE DEF g, h
  <2>1. /\ g \o e \in Seq(Entry) /\ Len(g \o e) = Len(g) + Len(e)
        /\ \A i \in 1..(Len(g) + Len(e)) :
              (g \o e)[i] = IF i <= Len(g) THEN g[i] ELSE e[i - Len(g)]
    BY <1>1, <1>2, ConcatProperties
  <2> DEFINE n == Len(g)
             k == Len(e)
             c == g \o e
  <2>2. n \in Nat /\ k \in Nat /\ k = Len(h)
    BY <1>1, <1>2
  <2>3. \A i \in 1..(n + k) : c[i] = IF i <= n THEN g[i] ELSE e[i - n]
    BY <2>1
  <2>4. c \in Seq(Entry) /\ Len(c) = n + k
    BY <2>1
  <2> HIDE DEF n, k, c
  <2>5. \A i \in 1..n : c[i] = g[i]
    BY <2>2, <2>3
  <2>6. \A i \in 1..k : n + i \in 1..(n + k) /\ ~(n + i <= n) /\ (n + i) - n = i
    BY <2>2
  <2>7. \A i \in 1..k : c[n + i] = e[i]
    BY <2>3, <2>6
  <2> QED
    BY <2>2, <2>4, <2>5, <2>7 DEF n, k, c
<1>5. target'[q] = g \o e /\ target' \in [Keys -> Seq(Entry)]
      /\ \A r \in Keys : r # q => target'[r] = target[r]
  BY <1>1, <1>3, <1>4
<1>6. /\ DOMAIN g = 1..Len(g) /\ Len(g) \in Nat /\ DOMAIN h = 1..Len(h) /\ Len(h) \in Nat
      /\ DOMAIN (g \o e) = 1..(Len(g) + Len(h))
  BY <1>1, <1>4
<1> QED
  BY <1>2, <1>4, <1>5, <1>6 DEF Before, Size

\* Every place after a push is one of before or one of the batch.
LEMMA AddsCases ==
    ASSUME ListTypes, NEW t \in Movers, NEW q \in Keys, Adds(t, q),
           NEW r \in Keys, NEW i \in DOMAIN target'[r]
    PROVE  \/ i \in DOMAIN target[r] /\ target'[r][i] = target[r][i]
           \/ /\ r = q
              /\ \E j \in DOMAIN hand[t] : /\ i = Before(q) + j
                                           /\ target'[r][i] = [value |-> hand[t][j], by |-> t]
<1>0. /\ target' \in [Keys -> Seq(Entry)]
      /\ \A p \in Keys : p # q => target'[p] = target[p]
      /\ DOMAIN target[q] = 1..Before(q) /\ Before(q) \in Nat
      /\ DOMAIN hand[t] = 1..Size(t) /\ Size(t) \in Nat
      /\ DOMAIN target'[q] = 1..(Before(q) + Size(t))
      /\ \A k \in DOMAIN target[q] : target'[q][k] = target[q][k]
      /\ \A k \in DOMAIN hand[t] :
            target'[q][Before(q) + k] = [value |-> hand[t][k], by |-> t]
  BY AddsIs
<1>1. CASE r # q
  BY <1>0, <1>1
<1>2. CASE r = q /\ i \in DOMAIN target[q]
  BY <1>0, <1>2
<1>3. CASE r = q /\ i \notin DOMAIN target[q]
  <2> DEFINE j == i - Before(q)
  <2>1. j \in DOMAIN hand[t] /\ i = Before(q) + j
    BY <1>0, <1>3
  <2> HIDE DEF j
  <2> QED
    BY <1>0, <1>3, <2>1
<1> QED
  BY <1>1, <1>2, <1>3

LEMMA InPlaces ==
    ASSUME NEW v, NEW x
    PROVE  x \in Places(v) <=> \E q \in Keys : \E i \in DOMAIN target[q] :
                                  x = <<q, i>> /\ target[q][i].value = v
BY DEF Places

LEMMA PlacesAfter ==
    ASSUME ListTypes, NEW t \in Movers, NEW q \in Keys, Adds(t, q), queues' = queues, NEW v
    PROVE  \A x : x \in Places(v)' <=>
                     \/ x \in Places(v)
                     \/ \E j \in DOMAIN hand[t] : hand[t][j] = v /\ x = <<q, Before(q) + j>>
<1> SUFFICES ASSUME NEW x
             PROVE  x \in Places(v)' <=>
                       \/ x \in Places(v)
                       \/ \E j \in DOMAIN hand[t] : /\ hand[t][j] = v
                                                    /\ x = <<q, Before(q) + j>>
  OBVIOUS
<1>0. /\ target' \in [Keys -> Seq(Entry)]
      /\ \A r \in Keys : r # q => target'[r] = target[r]
      /\ DOMAIN target[q] = 1..Before(q) /\ Before(q) \in Nat
      /\ DOMAIN hand[t] = 1..Size(t) /\ Size(t) \in Nat
      /\ DOMAIN target'[q] = 1..(Before(q) + Size(t))
      /\ \A k \in DOMAIN target[q] : target'[q][k] = target[q][k]
      /\ \A k \in DOMAIN hand[t] :
            target'[q][Before(q) + k] = [value |-> hand[t][k], by |-> t]
  BY AddsIs
<1>1. Keys' = Keys
  BY DEF Keys
<1>2. x \in Places(v)' <=> \E r \in Keys : \E i \in DOMAIN target'[r] :
                              x = <<r, i>> /\ target'[r][i].value = v
  BY <1>1 DEF Places
<1>3. ASSUME x \in Places(v)'
      PROVE  \/ x \in Places(v)
             \/ \E j \in DOMAIN hand[t] : hand[t][j] = v /\ x = <<q, Before(q) + j>>
  <2>1. PICK r \in Keys : \E i \in DOMAIN target'[r] : x = <<r, i>> /\ target'[r][i].value = v
    BY <1>2, <1>3
  <2>2. PICK i \in DOMAIN target'[r] : x = <<r, i>> /\ target'[r][i].value = v
    BY <2>1
  <2>3. CASE i \in DOMAIN target[r] /\ target'[r][i] = target[r][i]
    BY <2>2, <2>3, InPlaces
  <2>4. CASE r = q /\ \E j \in DOMAIN hand[t] :
                         /\ i = Before(q) + j
                         /\ target'[r][i] = [value |-> hand[t][j], by |-> t]
    BY <2>2, <2>4
  <2> QED
    BY <2>3, <2>4, AddsCases
<1>4. ASSUME x \in Places(v) PROVE x \in Places(v)'
  <2>1. PICK r \in Keys : \E i \in DOMAIN target[r] : x = <<r, i>> /\ target[r][i].value = v
    BY <1>4, InPlaces
  <2>2. PICK i \in DOMAIN target[r] : x = <<r, i>> /\ target[r][i].value = v
    BY <2>1
  <2>3. i \in DOMAIN target'[r] /\ target'[r][i] = target[r][i]
    <3>1. CASE r = q
      BY <1>0, <3>1
    <3>2. CASE r # q
      BY <1>0, <3>2
    <3> QED
      BY <3>1, <3>2
  <2> QED
    BY <1>2, <2>2, <2>3
<1>5. ASSUME NEW j \in DOMAIN hand[t], hand[t][j] = v, x = <<q, Before(q) + j>>
      PROVE  x \in Places(v)'
  <2>1. Before(q) + j \in DOMAIN target'[q]
    BY <1>0
  <2>2. target'[q][Before(q) + j] = [value |-> v, by |-> t]
    BY <1>0, <1>5
  <2> QED
    BY <1>2, <1>5, <2>1, <2>2
<1> QED
  BY <1>3, <1>4, <1>5

\* A push adds a copy of each value of the batch and none of any other.
LEMMA CopiesAfter ==
    ASSUME ListTypes, InPlace, NEW t \in Movers, NEW q \in Keys, Adds(t, q), queues' = queues,
           NEW v \in Values, IsFiniteSet(Places(v))
    PROVE  /\ IsFiniteSet(Places(v)')
           /\ Copies(v) \in Nat
           /\ v \in ToSet(hand[t]) => Copies(v)' = Copies(v) + 1
           /\ v \notin ToSet(hand[t]) => Copies(v)' = Copies(v)
<1>0. /\ DOMAIN target[q] = 1..Before(q) /\ Before(q) \in Nat
      /\ DOMAIN hand[t] = 1..Size(t) /\ Size(t) \in Nat
  BY AddsIs
<1>1. Copies(v) = Cardinality(Places(v)) /\ Copies(v)' = Cardinality(Places(v)') /\ Copies(v) \in Nat
  BY FS_CardinalityType DEF Copies
<1>2. CASE v \notin ToSet(hand[t])
  <2>1. \A x : x \in Places(v)' <=> x \in Places(v)
    BY <1>2, PlacesAfter, InSet
  <2>2. Places(v)' = Places(v)
    BY <2>1
  <2> QED
    BY <1>1, <1>2, <2>2
<1>3. CASE v \in ToSet(hand[t])
  <2>1. PICK j \in DOMAIN hand[t] : hand[t][j] = v
    BY <1>3, InSet
  <2>2. \A k \in DOMAIN hand[t] : hand[t][k] = v => k = j
    <3>1. DOMAIN hand[t] \subseteq Nat /\ Ascending(hand[t])
      BY <1>0 DEF InPlace
    <3>2. v # Empty /\ ~(v < v)
      BY ValueFacts
    <3>3. \A k \in DOMAIN hand[t] : k < j \/ j < k \/ k = j
      BY <3>1
    <3> QED
      BY <2>1, <3>1, <3>2, <3>3 DEF Ascending
  <2> DEFINE x == <<q, Before(q) + j>>
  <2>3. \A y : y \in Places(v)' <=> y \in Places(v) \/ y = x
    BY <2>1, <2>2, PlacesAfter
  <2>4. x \notin Places(v)
    <3>1. ASSUME NEW r \in Keys, NEW i \in DOMAIN target[r], x = <<r, i>> PROVE FALSE
      <4>1. r = q /\ i = Before(q) + j
        BY <3>1
      <4>2. j \in Nat \ {0} /\ DOMAIN target[q] = 1..Before(q) /\ Before(q) \in Nat
        BY <1>0
      <4> QED
        BY <4>1, <4>2
    <3> QED
      BY <3>1, InPlaces
  <2> HIDE DEF x
  <2>5. Places(v)' = Places(v) \cup {x}
    BY <2>3
  <2>6. IsFiniteSet(Places(v) \cup {x}) /\ Cardinality(Places(v) \cup {x}) = Cardinality(Places(v)) + 1
    BY <2>4, FS_AddElement
  <2> QED
    BY <1>1, <1>3, <2>5, <2>6
<1> QED
  BY <1>2, <1>3
-----------------------------------------------------------------------------
\* The steps of a thread on the lists

LEMMA SameKeys ==
    ASSUME queues' = queues
    PROVE  Keys' = Keys /\ \A n : KeyOf(n)' = KeyOf(n)
BY DEF Keys, KeyOf

LEMMA SamePlaces ==
    ASSUME UNCHANGED <<queues, target>>
    PROVE  /\ \A v : Places(v)' = Places(v) /\ Copies(v)' = Copies(v)
           /\ OrderKept => OrderKept'
BY DEF Places, Copies, Keys, OrderKept

LEMMA ListsStay ==
    ASSUME ListInv, UNCHANGED <<queues, source, target, hand, lost, again>>,
           at' \in [Movers -> Whereabouts],
           \A t \in Movers : at'[t] # "pushes" => hand[t] = <<>>
    PROVE  ListInv'
<1>1. Keys' = Keys /\ \A n : KeyOf(n)' = KeyOf(n)
  BY SameKeys
<1>2. \A v : Places(v)' = Places(v) /\ Copies(v)' = Copies(v)
  BY SamePlaces
<1>3. ListTypes'
  BY <1>1 DEF ListInv, ListTypes
<1>4. InPlace'
  BY <1>1 DEF ListInv, InPlace
<1>5. \A v \in Values : OneState(v)'
  BY <1>1, <1>2 DEF ListInv, OneState, Queued, InHand, Pushed
<1>6. \A t \in Movers : Behind(t)'
  BY <1>1 DEF ListInv, Behind
<1>7. OrderKept'
  BY SamePlaces DEF ListInv
<1> QED
  BY <1>3, <1>4, <1>5, <1>6, <1>7 DEF ListInv

\* What rpop() takes from a list and what is then in it.
LEMMA ListCut ==
    ASSUME ListTypes, InPlace, NEW q \in Keys, source' = [source EXCEPT ![q] = Left(q)]
    PROVE  /\ source' \in [Keys -> Seq(Values)]
           /\ \A r \in Keys : Ascending(source'[r])
           /\ \A r \in Keys : \A v : v \in ToSet(source'[r]) <=>
                 v \in ToSet(source[r]) /\ ~(r = q /\ v \in ToSet(Taken(q)))
           /\ \A v \in ToSet(Taken(q)) : v \in Values /\ v \in ToSet(source[q]) /\ KeyOf(v) = q
           /\ \A v \in ToSet(Taken(q)), w \in ToSet(source'[q]) : v < w
<1>1. /\ ToSet(Taken(q)) \subseteq Values /\ ToSet(Left(q)) \subseteq Values
      /\ \A v : v \in ToSet(source[q]) <=> v \in ToSet(Taken(q)) \/ v \in ToSet(Left(q))
      /\ \A v \in ToSet(Taken(q)), w \in ToSet(Left(q)) : v < w
      /\ Ascending(Left(q))
  BY TakenApart
<1>2. Left(q) \in Seq(Values)
  BY TakenAndLeft
<1>3. source'[q] = Left(q) /\ \A r \in Keys : r # q => source'[r] = source[r]
  BY DEF ListTypes
<1>4. \A v \in ToSet(Taken(q)) : v \notin ToSet(Left(q))
  BY <1>1, ValueFacts
<1>5. source' \in [Keys -> Seq(Values)]
  BY <1>2 DEF ListTypes
<1>6. \A r \in Keys : Ascending(source'[r])
  BY <1>1, <1>3 DEF InPlace
<1>7. \A r \in Keys : \A v : v \in ToSet(source'[r]) <=>
         v \in ToSet(source[r]) /\ ~(r = q /\ v \in ToSet(Taken(q)))
  BY <1>1, <1>3, <1>4
<1>8. \A v \in ToSet(Taken(q)) : v \in Values /\ v \in ToSet(source[q]) /\ KeyOf(v) = q
  BY <1>1 DEF InPlace
<1> QED
  BY <1>1, <1>3, <1>5, <1>6, <1>7, <1>8

LEMMA NoneInEmpty == \A v : v \notin ToSet(<<>>)
BY InSet

LEMMA RPopKeeps ==
    ASSUME ListInv, NEW t \in Movers, hand[t] = <<>>, RPop(t)
    PROVE  ListInv'
<1> DEFINE q == KeyOf(t)
           T == ToSet(Taken(q))
<1>1. /\ source' = [source EXCEPT ![q] = Left(q)] /\ hand' = [hand EXCEPT ![t] = Taken(q)]
      /\ at' = [at EXCEPT ![t] = IF Taken(q) = <<>> THEN "tests" ELSE "pushes"]
      /\ UNCHANGED <<queues, target, lost, again>>
  BY DEF RPop
<1>2. ListTypes /\ InPlace /\ q \in Keys /\ Taken(q) \in Seq(Values) /\ Ascending(Taken(q))
  BY KeyFacts, TakenAndLeft, TakenApart DEF ListInv
<1>3. /\ source' \in [Keys -> Seq(Values)]
      /\ \A r \in Keys : Ascending(source'[r])
      /\ \A r \in Keys : \A v : v \in ToSet(source'[r]) <=>
            v \in ToSet(source[r]) /\ ~(r = q /\ v \in T)
      /\ \A v \in T : v \in Values /\ v \in ToSet(source[q]) /\ KeyOf(v) = q
      /\ \A v \in T, w \in ToSet(source'[q]) : v < w
  BY <1>1, <1>2, ListCut
<1>4. Keys' = Keys /\ \A n : KeyOf(n)' = KeyOf(n)
  BY <1>1, SameKeys
<1>5. hand'[t] = Taken(q) /\ \A u \in Movers : u # t => hand'[u] = hand[u]
  BY <1>1, <1>2 DEF ListTypes
<1>6. \A v : v \notin ToSet(hand[t]) /\ (v \in ToSet(hand'[t]) <=> v \in T)
  BY <1>5, NoneInEmpty
<1>7. at'[t] # "pushes" => Taken(q) = <<>>
  BY <1>1, <1>2 DEF ListTypes
<1>8. \A u \in Movers : u # t => at'[u] = at[u]
  BY <1>1, <1>2 DEF ListTypes
<1>9. ListTypes'
  <2>1. at' \in [Movers -> Whereabouts]
    BY <1>1, <1>2 DEF ListTypes, Whereabouts
  <2>2. Taken(q) \in Seq(Values \cup {Empty})
    BY <1>2
  <2>3. hand' \in [Movers -> Seq(Values \cup {Empty})]
    BY <1>1, <1>2, <2>2 DEF ListTypes
  <2> QED
    BY <1>1, <1>2, <1>3, <1>4, <2>1, <2>3 DEF ListTypes
<1> HIDE DEF q, T
<1>10. InPlace'
  <2>1. \A r \in Keys : \A v \in ToSet(source'[r]) : KeyOf(v) = r
    BY <1>2, <1>3 DEF InPlace
  <2>2. \A u \in Movers : Ascending(hand'[u]) /\ (at'[u] # "pushes" => hand'[u] = <<>>)
    BY <1>2, <1>5, <1>7, <1>8 DEF InPlace
  <2> QED
    BY <1>3, <1>4, <2>1, <2>2 DEF InPlace
<1>11. ASSUME NEW v \in Values PROVE OneState(v)'
  <2>1. OneState(v) /\ Places(v)' = Places(v) /\ Copies(v)' = Copies(v)
    BY <1>1, SamePlaces DEF ListInv
  <2>2. CASE v \in T
    <3>1. Queued(v)
      BY <1>2, <1>3, <2>2 DEF Queued
    <3>2. ~Queued(v)'
      BY <1>2, <1>3, <1>4, <2>2 DEF Queued, InPlace
    <3>3. \A u \in Movers : v \in ToSet(hand'[u]) => u = t
      BY <1>5, <2>1, <3>1 DEF OneState, InHand
    <3>4. InHand(v)'
      BY <1>6, <2>2 DEF InHand
    <3> QED
      BY <1>1, <2>1, <3>1, <3>2, <3>3, <3>4 DEF OneState, Pushed
  <2>3. CASE v \notin T
    <3>1. Queued(v)' <=> Queued(v)
      BY <1>3, <1>4, <2>3 DEF Queued
    <3>2. \A u \in Movers : v \in ToSet(hand'[u]) <=> v \in ToSet(hand[u])
      BY <1>5, <1>6, <2>3
    <3>3. InHand(v)' <=> InHand(v)
      BY <3>2 DEF InHand
    <3> QED
      BY <1>1, <2>1, <3>1, <3>2, <3>3 DEF OneState, Pushed
  <2> QED
    BY <2>2, <2>3
<1>12. ASSUME NEW u \in Movers PROVE Behind(u)'
  <2>1. Behind(u) /\ KeyOf(u) \in Keys
    BY <1>2, KeyFacts DEF ListInv
  <2>2. \A w \in ToSet(source'[KeyOf(u)]) : w \in ToSet(source[KeyOf(u)])
    BY <1>3, <2>1
  <2>3. CASE u # t
    <3>1. hand'[u] = hand[u]
      BY <1>5, <2>3
    <3> QED
      BY <1>1, <1>4, <2>1, <2>2, <3>1 DEF Behind
  <2>4. CASE u = t
    <3>1. \A v \in ToSet(hand'[u]), w \in ToSet(source'[KeyOf(u)]) : v < w
      BY <1>3, <1>6, <2>4 DEF q
    <3>2. ASSUME NEW r \in Keys, NEW i \in DOMAIN target[r],
                 target[r][i].by = u, target[r][i].value # Empty
          PROVE  /\ \A w \in ToSet(source'[KeyOf(u)]) : target[r][i].value < w
                 /\ \A w \in T : target[r][i].value < w
      BY <1>3, <2>1, <2>2, <2>4, <3>2 DEF Behind, q
    <3>3. ASSUME NEW r \in Keys, NEW i \in DOMAIN target[r],
                 target[r][i].by = u, target[r][i].value # Empty
          PROVE  target[r][i].value \notin T
      <4>1. target[r][i].value \in T => target[r][i].value < target[r][i].value
        BY <3>2, <3>3
      <4>2. target[r][i].value \in T => target[r][i].value \in Values
        BY <1>3
      <4> QED
        BY <4>1, <4>2, ValueFacts
    <3> QED
      BY <1>1, <1>4, <1>6, <2>4, <3>1, <3>2, <3>3 DEF Behind
  <2> QED
    BY <2>3, <2>4
<1>13. OrderKept'
  BY <1>1, SamePlaces DEF ListInv
<1> QED
  BY <1>9, <1>10, <1>11, <1>12, <1>13 DEF ListInv

\* A pop without an answer: at most the batch is lost, and the thread holds
\* nothing, or strings that are no values.
LEMMA RPopFailsKeeps ==
    ASSUME ListInv, NEW t \in Movers, hand[t] = <<>>, at[t] # "pushes",
           NEW next \in Whereabouts, NEW h \in Seq({Empty}), next # "pushes" => h = <<>>,
           RPopFails(t, next, h)
    PROVE  ListInv'
<1> DEFINE q == KeyOf(t)
           T == ToSet(Taken(q))
<1>1. /\ \/ UNCHANGED <<source, lost>>
         \/ source' = [source EXCEPT ![q] = Left(q)] /\ lost' = lost \cup T
      /\ \/ UNCHANGED <<at, hand>>
         \/ at' = [at EXCEPT ![t] = next] /\ hand' = [hand EXCEPT ![t] = h]
      /\ UNCHANGED <<queues, target, again>>
  BY DEF RPopFails
<1>2. ListTypes /\ InPlace /\ q \in Keys
  BY KeyFacts DEF ListInv
<1> HIDE DEF q, T
<1>3. Keys' = Keys /\ \A n : KeyOf(n)' = KeyOf(n)
  BY <1>1, SameKeys
<1>4. PICK D : /\ source' \in [Keys -> Seq(Values)] /\ lost' = lost \cup D
               /\ \A r \in Keys : Ascending(source'[r])
               /\ \A r \in Keys : \A v : v \in ToSet(source'[r]) <=>
                     v \in ToSet(source[r]) /\ ~(r = q /\ v \in D)
               /\ \A v \in D : v \in Values /\ v \in ToSet(source[q]) /\ KeyOf(v) = q
  <2>1. CASE UNCHANGED <<source, lost>>
    <3> DEFINE E == {}
    <3>1. \A v : v \notin E
      OBVIOUS
    <3> HIDE DEF E
    <3>2. /\ source' \in [Keys -> Seq(Values)] /\ lost' = lost \cup E
          /\ \A r \in Keys : Ascending(source'[r])
          /\ \A r \in Keys : \A v : v \in ToSet(source'[r]) <=>
                v \in ToSet(source[r]) /\ ~(r = q /\ v \in E)
          /\ \A v \in E : v \in Values /\ v \in ToSet(source[q]) /\ KeyOf(v) = q
      BY <1>2, <2>1, <3>1 DEF ListTypes, InPlace
    <3> QED
      BY <3>2
  <2>2. CASE source' = [source EXCEPT ![q] = Left(q)] /\ lost' = lost \cup T
    <3>1. /\ source' \in [Keys -> Seq(Values)]
          /\ \A r \in Keys : Ascending(source'[r])
          /\ \A r \in Keys : \A v : v \in ToSet(source'[r]) <=>
                v \in ToSet(source[r]) /\ ~(r = q /\ v \in T)
          /\ \A v \in T : v \in Values /\ v \in ToSet(source[q]) /\ KeyOf(v) = q
      BY <1>2, <2>2, ListCut DEF T
    <3> QED
      BY <2>2, <3>1
  <2> QED
    BY <1>1, <2>1, <2>2
<1>5. /\ hand' \in [Movers -> Seq(Values \cup {Empty})] /\ at' \in [Movers -> Whereabouts]
      /\ \A u \in Movers : u # t => hand'[u] = hand[u] /\ at'[u] = at[u]
      /\ hand'[t] \in Seq({Empty}) /\ (at'[t] # "pushes" => hand'[t] = <<>>)
  <2>1. h \in Seq(Values \cup {Empty}) /\ <<>> \in Seq({Empty})
    OBVIOUS
  <2>2. CASE UNCHANGED <<at, hand>>
    BY <1>2, <2>1, <2>2 DEF ListTypes
  <2>3. CASE at' = [at EXCEPT ![t] = next] /\ hand' = [hand EXCEPT ![t] = h]
    BY <1>2, <2>1, <2>3 DEF ListTypes
  <2> QED
    BY <1>1, <2>2, <2>3
<1>6. \A i \in DOMAIN hand'[t] : hand'[t][i] = Empty
  BY <1>5
<1>7. Ascending(hand'[t]) /\ \A v \in ToSet(hand'[t]) : v = Empty
  BY <1>6, InSet DEF Ascending
<1>8. \A v \in Values : \A u \in Movers : v \in ToSet(hand'[u]) <=> v \in ToSet(hand[u])
  BY <1>5, <1>7, NoneInEmpty, ValueFacts
<1>9. ListTypes'
  BY <1>1, <1>2, <1>3, <1>4, <1>5 DEF ListTypes
<1>10. InPlace'
  <2>1. \A r \in Keys : \A v \in ToSet(source'[r]) : KeyOf(v) = r
    BY <1>2, <1>4 DEF InPlace
  <2>2. \A u \in Movers : Ascending(hand'[u]) /\ (at'[u] # "pushes" => hand'[u] = <<>>)
    BY <1>2, <1>5, <1>7 DEF InPlace
  <2> QED
    BY <1>3, <1>4, <2>1, <2>2 DEF InPlace
<1>11. ASSUME NEW v \in Values PROVE OneState(v)'
  <2>1. OneState(v) /\ Places(v)' = Places(v) /\ Copies(v)' = Copies(v)
    BY <1>1, SamePlaces DEF ListInv
  <2>2. InHand(v)' <=> InHand(v)
    BY <1>8 DEF InHand
  <2>3. CASE v \in D
    <3>1. Queued(v)
      BY <1>2, <1>4, <2>3 DEF Queued
    <3>2. ~Queued(v)'
      BY <1>2, <1>3, <1>4, <2>3 DEF Queued, InPlace
    <3>3. v \in lost'
      BY <1>4, <2>3
    <3> QED
      BY <1>1, <1>8, <2>1, <2>2, <3>1, <3>2, <3>3 DEF OneState, Pushed
  <2>4. CASE v \notin D
    <3>1. Queued(v)' <=> Queued(v)
      BY <1>3, <1>4, <2>4 DEF Queued
    <3>2. v \in lost' <=> v \in lost
      BY <1>4, <2>4
    <3> QED
      BY <1>1, <1>8, <2>1, <2>2, <3>1, <3>2 DEF OneState, Pushed
  <2> QED
    BY <2>3, <2>4
<1>12. ASSUME NEW u \in Movers PROVE Behind(u)'
  <2>1. Behind(u) /\ KeyOf(u) \in Keys
    BY <1>2, KeyFacts DEF ListInv
  <2>2. \A w \in ToSet(source'[KeyOf(u)]) : w \in ToSet(source[KeyOf(u)]) /\ w \in Values
    BY <1>4, <2>1, InSet
  <2>3. CASE u # t
    <3>1. hand'[u] = hand[u]
      BY <1>5, <2>3
    <3> QED
      BY <1>1, <1>3, <2>1, <2>2, <3>1 DEF Behind
  <2>4. CASE u = t
    <3>1. \A v \in ToSet(hand'[u]), w \in ToSet(source'[KeyOf(u)]) : v < w
      BY <1>7, <2>2, <2>4 DEF Values, Empty
    <3>2. \A v \in ToSet(hand'[u]) : v = Empty
      BY <1>7, <2>4
    <3> QED
      BY <1>1, <1>3, <2>1, <2>2, <3>1, <3>2 DEF Behind
  <2> QED
    BY <2>3, <2>4
<1>13. OrderKept'
  BY <1>1, SamePlaces DEF ListInv
<1> QED
  BY <1>9, <1>10, <1>11, <1>12, <1>13 DEF ListInv

\* A push that is answered, after which the thread holds nothing, or one that is
\* executed and not answered, after which it holds what it held.
LEMMA PushKeeps ==
    ASSUME ListInv, NEW t \in Movers, NEW q \in Keys, Adds(t, q), UNCHANGED <<queues, source, lost>>,
           \/ /\ hand' = [hand EXCEPT ![t] = <<>>] /\ at' = [at EXCEPT ![t] = "tests"]
              /\ again' = again
           \/ /\ hand' = hand /\ at' = at
              /\ again' = [v \in Values |-> again[v] + (IF v \in ToSet(hand[t]) THEN 1 ELSE 0)]
    PROVE  ListInv'
<1>1. ListTypes /\ InPlace
  BY DEF ListInv
<1>2. Keys' = Keys /\ \A n : KeyOf(n)' = KeyOf(n)
  BY SameKeys
<1>3. /\ target' \in [Keys -> Seq(Entry)]
      /\ \A r \in Keys : r # q => target'[r] = target[r]
      /\ DOMAIN target[q] = 1..Before(q) /\ Before(q) \in Nat
      /\ DOMAIN hand[t] = 1..Size(t) /\ Size(t) \in Nat
      /\ DOMAIN target'[q] = 1..(Before(q) + Size(t))
      /\ \A i \in DOMAIN target[q] : target'[q][i] = target[q][i]
      /\ \A i \in DOMAIN hand[t] :
            target'[q][Before(q) + i] = [value |-> hand[t][i], by |-> t]
  BY <1>1, AddsIs
<1>4. /\ \A u \in Movers : u # t => hand'[u] = hand[u] /\ at'[u] = at[u]
      /\ hand'[t] = <<>> \/ (hand'[t] = hand[t] /\ at'[t] = at[t])
      /\ hand' \in [Movers -> Seq(Values \cup {Empty})] /\ at' \in [Movers -> Whereabouts]
  <2>1. <<>> \in Seq(Values \cup {Empty}) /\ "tests" \in Whereabouts
    BY DEF Whereabouts
  <2> QED
    BY <1>1, <2>1 DEF ListTypes
<1>5. again' \in [Values -> Nat]
  <2>1. again \in [Values -> Nat]
    BY <1>1 DEF ListTypes
  <2>2. CASE again' = again
    BY <2>1, <2>2
  <2>3. CASE again' = [v \in Values |-> again[v] + (IF v \in ToSet(hand[t]) THEN 1 ELSE 0)]
    <3>1. \A v \in Values : again[v] + (IF v \in ToSet(hand[t]) THEN 1 ELSE 0) \in Nat
      BY <2>1
    <3> QED
      BY <2>3, <3>1
  <2> QED
    BY <2>2, <2>3
<1>6. ListTypes'
  BY <1>1, <1>2, <1>3, <1>4, <1>5 DEF ListTypes, Entry
<1>7. InPlace'
  <2>1. Ascending(<<>>)
    BY DEF Ascending
  <2>2. \A u \in Movers : Ascending(hand'[u]) /\ (at'[u] # "pushes" => hand'[u] = <<>>)
    BY <1>1, <1>4, <2>1 DEF InPlace
  <2> QED
    BY <1>1, <1>2, <2>2 DEF InPlace
<1>8. ASSUME NEW v \in Values PROVE OneState(v)'
  <2>1. OneState(v)
    BY DEF ListInv
  <2>2. /\ IsFiniteSet(Places(v)') /\ Copies(v) \in Nat
        /\ v \in ToSet(hand[t]) => Copies(v)' = Copies(v) + 1
        /\ v \notin ToSet(hand[t]) => Copies(v)' = Copies(v)
    BY <1>1, <2>1, CopiesAfter DEF OneState
  <2>3. Queued(v)' <=> Queued(v)
    BY <1>2 DEF Queued
  <2>4. again[v] \in Nat
    BY <1>1 DEF ListTypes
  <2>5. \A u \in Movers : v \in ToSet(hand'[u]) => v \in ToSet(hand[u])
    BY <1>4, NoneInEmpty
  <2>6. CASE v \notin ToSet(hand[t])
    <3>1. \A u \in Movers : v \in ToSet(hand'[u]) <=> v \in ToSet(hand[u])
      BY <1>4, <2>6, NoneInEmpty
    <3>2. InHand(v)' <=> InHand(v)
      BY <3>1 DEF InHand
    <3>3. again'[v] = again[v]
      BY <2>4, <2>6
    <3> QED
      BY <2>1, <2>2, <2>3, <2>6, <3>1, <3>2, <3>3 DEF OneState, Pushed
  <2>7. CASE v \in ToSet(hand[t])
    <3>1. InHand(v) /\ ~Queued(v) /\ v \notin lost /\ Copies(v) = again[v]
      BY <2>1, <2>7 DEF OneState, InHand, Pushed
    <3>2. CASE hand' = [hand EXCEPT ![t] = <<>>] /\ again' = again
      <4>1. hand'[t] = <<>>
        BY <1>1, <3>2 DEF ListTypes
      <4>2. \A u \in Movers : v \notin ToSet(hand'[u])
        BY <1>4, <2>1, <2>7, <4>1, NoneInEmpty DEF OneState
      <4>3. ~InHand(v)'
        BY <4>2 DEF InHand
      <4>4. Copies(v)' = again'[v] + 1
        BY <2>2, <2>7, <3>1, <3>2
      <4> QED
        BY <2>2, <2>3, <2>4, <3>1, <3>2, <4>2, <4>3, <4>4 DEF OneState, Pushed
    <3>3. CASE /\ hand' = hand
               /\ again' = [w \in Values |-> again[w] + (IF w \in ToSet(hand[t]) THEN 1 ELSE 0)]
      <4>1. again'[v] = again[v] + 1
        BY <2>7, <3>3
      <4>2. Copies(v)' = again'[v] /\ again'[v] \in Nat
        BY <2>2, <2>4, <2>7, <3>1, <4>1
      <4>3. InHand(v)' /\ ~Pushed(v)'
        BY <3>1, <3>3, <4>2 DEF InHand, Pushed
      <4> QED
        BY <2>1, <2>2, <2>3, <3>1, <3>3, <4>2, <4>3 DEF OneState
    <3> QED
      BY <3>2, <3>3
  <2> QED
    BY <2>6, <2>7
\* w before v in the batch
<1>9. ASSUME NEW j \in DOMAIN hand[t], NEW w \in ToSet(hand[t]), w # Empty, w < hand[t][j]
      PROVE  \E k \in DOMAIN hand[t] : k < j /\ hand[t][k] = w
  <2>1. PICK k \in DOMAIN hand[t] : hand[t][k] = w
    BY InSet
  <2>2. hand[t][j] \in Values \cup {Empty} /\ w \in Values \cup {Empty}
    BY <1>1, <2>1 DEF ListTypes
  <2>3. ~(hand[t][j] < w) /\ hand[t][j] # w
    BY <1>9, <2>2, ValueFacts
  <2>4. Ascending(hand[t])
    BY <1>1 DEF InPlace
  <2>5. k < j \/ k = j \/ j < k
    BY <1>3
  <2> QED
    BY <1>9, <2>1, <2>3, <2>4, <2>5 DEF Ascending
<1>10. ASSUME NEW u \in Movers PROVE Behind(u)'
  <2>1. Behind(u)
    BY DEF ListInv
  <2>2. \A v \in ToSet(hand'[u]) : v \in ToSet(hand[u])
    BY <1>4, NoneInEmpty
  <2>3. ASSUME NEW r \in Keys, NEW i \in DOMAIN target'[r],
               target'[r][i].by = u, target'[r][i].value # Empty
        PROVE  /\ \A w \in ToSet(source[KeyOf(u)]) : target'[r][i].value < w
               /\ \A w \in ToSet(hand'[u]) \ {Empty} :
                     /\ target'[r][i].value \notin ToSet(hand'[u]) => target'[r][i].value < w
                     /\ target'[r][i].value \in ToSet(hand'[u]) /\ w < target'[r][i].value =>
                            \E k \in 1..(i - 1) : target'[r][k].value = w
    <3> DEFINE v == target'[r][i].value
    <3>1. ToSet(hand'[u]) = {} \/ hand'[u] = hand[u]
      BY <1>4, NoneInEmpty
    <3>2. CASE i \in DOMAIN target[r] /\ target'[r][i] = target[r][i]
      <4>1. \A k \in 1..(i - 1) : k \in DOMAIN target[r] /\ target'[r][k] = target[r][k]
        <5>1. target[r] \in Seq(Entry)
          BY <1>1 DEF ListTypes
        <5>2. i \in 1..Len(target[r]) /\ Len(target[r]) \in Nat /\ DOMAIN target[r] = 1..Len(target[r])
          BY <3>2, <5>1
        <5>3. \A k \in 1..(i - 1) : k \in DOMAIN target[r]
          BY <5>2
        <5> QED
          BY <1>3, <5>3
      <4>2. /\ \A w \in ToSet(source[KeyOf(u)]) : v < w
            /\ \A w \in ToSet(hand[u]) \ {Empty} :
                  /\ v \notin ToSet(hand[u]) => v < w
                  /\ v \in ToSet(hand[u]) /\ w < v =>
                         \E k \in 1..(i - 1) : target[r][k].value = w
        BY <2>1, <2>3, <3>2 DEF Behind
      <4> HIDE DEF v
      <4>3. \A w : (\E k \in 1..(i - 1) : target[r][k].value = w)
                      => \E k \in 1..(i - 1) : target'[r][k].value = w
        BY <4>1
      <4> QED
        BY <3>1, <4>2, <4>3 DEF v
    <3>3. CASE r = q /\ \E j \in DOMAIN hand[t] :
                           /\ i = Before(q) + j
                           /\ target'[r][i] = [value |-> hand[t][j], by |-> t]
      <4>1. PICK j \in DOMAIN hand[t] : /\ i = Before(q) + j
                                        /\ target'[r][i] = [value |-> hand[t][j], by |-> t]
        BY <3>3
      <4>2. v = hand[t][j] /\ u = t /\ v \in ToSet(hand[t])
        BY <2>3, <4>1, InSet
      <4>3. \A w \in ToSet(source[KeyOf(u)]) : v < w
        BY <2>1, <4>2 DEF Behind
      <4>4. ASSUME NEW w \in ToSet(hand[t]), w # Empty, w < v
            PROVE  \E k \in 1..(i - 1) : target'[r][k].value = w
        <5>1. PICK k \in DOMAIN hand[t] : k < j /\ hand[t][k] = w
          BY <1>9, <4>2, <4>4
        <5>2. Before(q) + k \in 1..(i - 1)
          BY <1>3, <4>1, <5>1
        <5>3. target'[q][Before(q) + k] = [value |-> w, by |-> t]
          BY <1>3, <5>1
        <5>4. target'[q][Before(q) + k].value = w
          BY <5>3
        <5> QED
          BY <3>3, <5>2, <5>4
      <4> QED
        BY <3>1, <4>2, <4>3, <4>4
    <3> QED
      BY <1>1, <3>2, <3>3, AddsCases
  <2>4. \A v \in ToSet(hand'[u]), w \in ToSet(source[KeyOf(u)]) : v < w
    BY <2>1, <2>2 DEF Behind
  <2> QED
    BY <1>2, <2>3, <2>4 DEF Behind
<1>11. OrderKept'
  <2>1. SUFFICES ASSUME NEW r \in Keys, NEW i \in DOMAIN target'[r], NEW j \in DOMAIN target'[r],
                        i < j, target'[r][i].by = target'[r][j].by,
                        target'[r][j].value # Empty,
                        target'[r][i].value > target'[r][j].value
                 PROVE  \E k \in 1..(i - 1) : target'[r][k].value = target'[r][j].value
    BY <1>2 DEF OrderKept
  <2> DEFINE a == target'[r][i]
             b == target'[r][j]
  <2>2. target'[r] \in Seq(Entry) /\ a \in Entry /\ b \in Entry
    BY <1>3
  <2>3. a.value \in Nat /\ b.value \in Nat /\ b.value < a.value /\ a.value # Empty
    <3>1. a.value \in Values \cup {Empty} /\ b.value \in Values \cup {Empty}
      BY <2>2 DEF Entry
    <3>2. a.value \in Nat /\ b.value \in Nat
      BY <3>1, ValueFacts
    <3> QED
      BY <2>1, <3>2 DEF Empty
  <2>4. CASE i \in DOMAIN target[r] /\ target'[r][i] = target[r][i]
    <3>1. \A k \in 1..(i - 1) : target'[r][k] = target[r][k]
      <4>1. target[r] \in Seq(Entry)
        BY <1>1 DEF ListTypes
      <4>2. i \in 1..Len(target[r]) /\ Len(target[r]) \in Nat /\ DOMAIN target[r] = 1..Len(target[r])
        BY <2>4, <4>1
      <4>3. \A k \in 1..(i - 1) : k \in DOMAIN target[r]
        BY <4>2
      <4> QED
        BY <1>3, <4>3
    <3>2. CASE j \in DOMAIN target[r] /\ target'[r][j] = target[r][j]
      <4>1. \E k \in 1..(i - 1) : target[r][k].value = target[r][j].value
        BY <2>1, <2>4, <3>2 DEF ListInv, OrderKept
      <4> QED
        BY <3>1, <3>2, <4>1
    <3>3. CASE r = q /\ \E m \in DOMAIN hand[t] :
                           /\ j = Before(q) + m
                           /\ target'[r][j] = [value |-> hand[t][m], by |-> t]
      <4>1. b.value \in ToSet(hand[t]) /\ b.by = t
        BY <3>3, InSet
      <4>2. target[r][i].by = t /\ target[r][i].value = a.value
        BY <2>1, <2>4, <4>1
      <4>3. Behind(t)
        BY DEF ListInv
      <4>4. ~(a.value < b.value)
        BY <2>3
      <4>5. \E k \in 1..(i - 1) : target[r][k].value = b.value
        BY <2>1, <2>3, <2>4, <4>1, <4>2, <4>3, <4>4 DEF Behind
      <4> QED
        BY <3>1, <4>5
    <3> QED
      BY <1>1, <3>2, <3>3, AddsCases
  <2>5. CASE r = q /\ \E m \in DOMAIN hand[t] :
                         /\ i = Before(q) + m
                         /\ target'[r][i] = [value |-> hand[t][m], by |-> t]
    <3>1. PICK m \in DOMAIN hand[t] : i = Before(q) + m /\ a = [value |-> hand[t][m], by |-> t]
      BY <2>5
    <3>2. j \notin DOMAIN target[r]
      BY <1>3, <2>1, <2>5, <3>1
    <3>3. PICK n \in DOMAIN hand[t] : j = Before(q) + n /\ b = [value |-> hand[t][n], by |-> t]
      BY <1>1, <3>2, AddsCases
    <3>4. m < n
      BY <1>3, <2>1, <3>1, <3>3
    <3>5. Ascending(hand[t])
      BY <1>1 DEF InPlace
    <3>6. hand[t][m] = a.value /\ hand[t][n] = b.value
      BY <3>1, <3>3
    <3>7. a.value < b.value
      BY <2>1, <3>4, <3>5, <3>6 DEF Ascending
    <3> QED
      BY <2>3, <3>7
  <2> QED
    BY <1>1, <2>4, <2>5, AddsCases
<1> QED
  BY <1>6, <1>7, <1>8, <1>10, <1>11 DEF ListInv

\* Threads that are killed or stopped drop what they hold.
LEMMA DropKeeps ==
    ASSUME ListInv, NEW U, U \subseteq Movers, UNCHANGED <<queues, source, target, again>>,
           \A v : v \in lost' <=> v \in lost \/ (v # Empty /\ \E u \in U : v \in ToSet(hand[u])),
           hand' \in [Movers -> Seq(Values \cup {Empty})], at' \in [Movers -> Whereabouts],
           \A u \in Movers : IF u \in U THEN hand'[u] = <<>>
                             ELSE hand'[u] = hand[u] /\ at'[u] = at[u]
    PROVE  ListInv'
<1>1. ListTypes /\ InPlace
  BY DEF ListInv
<1>2. Keys' = Keys /\ \A n : KeyOf(n)' = KeyOf(n)
  BY SameKeys
<1>3. \A u \in Movers : \A v : v \in ToSet(hand'[u]) <=> v \in ToSet(hand[u]) /\ u \notin U
  BY NoneInEmpty
<1>4. ListTypes'
  <2>1. \A u \in Movers : \A v \in ToSet(hand[u]) : v \in Values \cup {Empty}
    BY <1>1, InSet DEF ListTypes
  <2>2. lost' \subseteq Values
    BY <1>1, <2>1 DEF ListTypes
  <2> QED
    BY <1>1, <1>2, <2>2 DEF ListTypes
<1>5. InPlace'
  <2>1. Ascending(<<>>)
    BY DEF Ascending
  <2>2. \A u \in Movers : Ascending(hand'[u]) /\ (at'[u] # "pushes" => hand'[u] = <<>>)
    BY <1>1, <2>1 DEF InPlace
  <2> QED
    BY <1>1, <1>2, <2>2 DEF InPlace
<1>6. ASSUME NEW v \in Values PROVE OneState(v)'
  <2>1. OneState(v) /\ Places(v)' = Places(v) /\ Copies(v)' = Copies(v)
    BY SamePlaces DEF ListInv
  <2>2. Queued(v)' <=> Queued(v)
    BY <1>2 DEF Queued
  <2>3. v # Empty
    BY ValueFacts
  <2>4. CASE \E u \in U : v \in ToSet(hand[u])
    <3>1. PICK u \in U : v \in ToSet(hand[u])
      BY <2>4
    <3>2. InHand(v) /\ v \in lost'
      BY <2>3, <3>1 DEF InHand
    <3>3. ~InHand(v)'
      BY <1>3, <2>1, <3>1 DEF InHand, OneState
    <3>4. \A p, r \in Movers : v \in ToSet(hand'[p]) /\ v \in ToSet(hand'[r]) => p = r
      BY <1>3, <2>1 DEF OneState
    <3> QED
      BY <2>1, <2>2, <3>2, <3>3, <3>4 DEF OneState, Pushed
  <2>5. CASE ~\E u \in U : v \in ToSet(hand[u])
    <3>1. \A u \in Movers : v \in ToSet(hand'[u]) <=> v \in ToSet(hand[u])
      BY <1>3, <2>5
    <3>2. InHand(v)' <=> InHand(v)
      BY <3>1 DEF InHand
    <3>3. v \in lost' <=> v \in lost
      BY <2>5
    <3> QED
      BY <2>1, <2>2, <3>1, <3>2, <3>3 DEF OneState, Pushed
  <2> QED
    BY <2>4, <2>5
<1>7. ASSUME NEW u \in Movers PROVE Behind(u)'
  <2>1. Behind(u)
    BY DEF ListInv
  <2>2. ToSet(hand'[u]) = {} \/ hand'[u] = hand[u]
    BY NoneInEmpty
  <2>3. CASE hand'[u] = hand[u]
    BY <1>2, <2>1, <2>3 DEF Behind
  <2>4. CASE ToSet(hand'[u]) = {}
    BY <1>2, <2>1, <2>4 DEF Behind
  <2> QED
    BY <2>2, <2>3, <2>4
<1>8. OrderKept'
  BY SamePlaces DEF ListInv
<1> QED
  BY <1>4, <1>5, <1>6, <1>7, <1>8 DEF ListInv
-----------------------------------------------------------------------------
\* The beginning

LEMMA ListsBegin ==
    ASSUME ListsInit
    PROVE  ListInv /\ \A t \in Movers : hand[t] = <<>> /\ at[t] = "opens"
<1>1. /\ queues \in 1..Cardinality(Movers) /\ target = [q \in Keys |-> <<>>]
      /\ hand = [t \in Movers |-> <<>>] /\ at = [t \in Movers |-> "opens"]
      /\ lost = {} /\ again = [v \in Values |-> 0]
  BY DEF ListsInit
<1>2. /\ source \in [Keys -> UNION {[1..n -> Values] : n \in 0..NumValues}]
      /\ \A q \in Keys : /\ \A v \in Values : v \in ToSet(source[q]) <=> KeyOf(v) = q
                         /\ \A i, j \in DOMAIN source[q] : i < j => source[q][i] < source[q][j]
  BY DEF ListsInit, Filled
<1>3. \A q \in Keys : source[q] \in Seq(Values)
  <2>1. 0..NumValues \subseteq Nat
    OBVIOUS
  <2> QED
    BY <1>2, <2>1, SeqDef
<1>4. queues \in Nat \ {0} /\ \A v \in Values : KeyOf(v) \in Keys
  <2>1. queues \in Nat \ {0}
    BY <1>1, ListsAssumption, FS_CardinalityType
  <2>2. \A v \in Values : v \in Nat
    BY ValueFacts
  <2>3. \A v \in Values : v % queues \in 0..(queues - 1)
    BY <2>1, <2>2
  <2> QED
    BY <2>1, <2>3 DEF KeyOf, Keys
<1>5. ListTypes
  <2>1. source \in [Keys -> Seq(Values)]
    BY <1>2, <1>3
  <2>2. \A S : <<>> \in Seq(S)
    OBVIOUS
  <2>3. target \in [Keys -> Seq(Entry)] /\ hand \in [Movers -> Seq(Values \cup {Empty})]
    BY <1>1, <2>2
  <2>4. at \in [Movers -> Whereabouts] /\ again \in [Values -> Nat] /\ lost \subseteq Values
    BY <1>1 DEF Whereabouts
  <2> QED
    BY <1>1, <2>1, <2>3, <2>4 DEF ListTypes
<1>6. \A t \in Movers : hand[t] = <<>> /\ at[t] = "opens" /\ ToSet(hand[t]) = {}
  BY <1>1, NoneInEmpty
<1>7. \A q \in Keys : \A v \in ToSet(source[q]) : v \in Values
  BY <1>3, InSet
<1>8. InPlace
  <2>1. Ascending(<<>>)
    BY DEF Ascending
  <2> QED
    BY <1>2, <1>6, <1>7, <2>1 DEF InPlace, Ascending
<1>9. ASSUME NEW v \in Values PROVE OneState(v)
  <2>1. \A q \in Keys : target[q] = <<>>
    BY <1>1
  <2>2. Places(v) = {}
    BY <2>1, InPlaces
  <2>3. IsFiniteSet(Places(v)) /\ Copies(v) = 0 /\ again[v] = 0
    BY <1>1, <2>2, FS_EmptySet DEF Copies
  <2>4. Queued(v)
    BY <1>2, <1>4 DEF Queued
  <2>5. ~InHand(v) /\ ~Pushed(v)
    BY <1>6, <2>3 DEF InHand, Pushed
  <2>6. v \notin lost /\ \A t \in Movers : v \notin ToSet(hand[t])
    BY <1>1, <1>6
  <2> QED
    BY <2>3, <2>4, <2>5, <2>6 DEF OneState
<1>10. \A q \in Keys : DOMAIN target[q] = {}
  BY <1>1
<1>11. \A t \in Movers : Behind(t)
  BY <1>6, <1>10 DEF Behind
<1>12. OrderKept
  BY <1>10 DEF OrderKept
<1> QED
  BY <1>5, <1>6, <1>8, <1>9, <1>11, <1>12 DEF ListInv

LEMMA Begins == Init => MoversInv
<1> SUFFICES ASSUME Init PROVE MoversInv
  OBVIOUS
<1>1. ListsInit /\ MoverInit
  BY DEF Init
<1>2. ListInv /\ \A t \in Movers : hand[t] = <<>> /\ at[t] = "opens"
  BY <1>1, ListsBegin
<1>3. \A v \in Values : Copies(v) = 0
  <2>1. \A q \in Keys : target[q] = <<>>
    BY <1>1 DEF ListsInit
  <2>2. \A v : Places(v) = {}
    BY <2>1, InPlaces
  <2> QED
    BY <2>2, FS_EmptySet DEF Copies
<1>4. Moved = {}
  BY <1>3 DEF Moved
<1>5. Cardinality(Moved) = 0 /\ numMoved = 0 /\ kills = 0 /\ main = "joinsMovers"
  BY <1>1, <1>4, FS_EmptySet DEF ListsInit, MoverInit
<1>6. \A t \in Movers : Empty \notin ToSet(hand[t])
  BY <1>2, NoneInEmpty
<1> QED
  BY <1>2, <1>5, <1>6 DEF MoversInv, Counts, StartsInOrder
-----------------------------------------------------------------------------
\* What redis_queue_mover counts

LEMMA MovedIsFinite == IsFiniteSet(Moved)
<1>1. IsFiniteSet(Values)
  BY ListsAssumption, FS_Interval DEF Values
<1> QED
  BY <1>1, FS_Subset DEF Moved

\* A batch of values has as many values as elements.
LEMMA BatchSize ==
    ASSUME ListTypes, InPlace, NEW t \in Movers, Empty \notin ToSet(hand[t])
    PROVE  /\ IsFiniteSet(ToSet(hand[t])) /\ ToSet(hand[t]) \subseteq Values
           /\ Cardinality(ToSet(hand[t])) = Len(hand[t]) /\ Len(hand[t]) \in Nat
<1> DEFINE h == hand[t]
           n == Len(h)
<1>1. h \in Seq(Values \cup {Empty}) /\ Ascending(h)
  BY DEF ListTypes, InPlace
<1>2. n \in Nat /\ DOMAIN h = 1..n /\ \A i \in 1..n : h[i] \in Values \cup {Empty}
  BY <1>1
<1>3. h = [i \in 1..n |-> h[i]]
  BY <1>1, LenProperties
<1> HIDE DEF n, h
<1>4. \A i \in 1..n : h[i] \in ToSet(h) /\ h[i] # Empty
  BY <1>2, InSet DEF h
<1>5. ToSet(h) \subseteq Values
  BY <1>2, <1>4, InSet
<1>6. \A i, j \in 1..n : h[i] = h[j] => i = j
  <2>1. \A i, j \in 1..n : i < j => h[i] # h[j]
    BY <1>1, <1>2, <1>4, ValueFacts DEF Ascending
  <2>2. \A i, j \in 1..n : i < j \/ j < i \/ i = j
    BY <1>2
  <2> QED
    BY <2>1, <2>2
<1>7. h \in [1..n -> ToSet(h)]
  BY <1>3, <1>4
<1>8. \A v \in ToSet(h) : \E i \in 1..n : h[i] = v
  BY <1>2, InSet
<1>9. h \in Bijection(1..n, ToSet(h))
  BY <1>6, <1>7, <1>8 DEF Bijection, Injection, Surjection, IsInjective
<1>10. ExistsBijection(1..n, ToSet(h))
  BY <1>9 DEF ExistsBijection
<1>11. Cardinality(ToSet(h)) = n
  BY <1>2, <1>10, FS_CountingElements
<1>12. IsFiniteSet(ToSet(h))
  <2>1. IsFiniteSet(Values)
    BY ListsAssumption, FS_Interval DEF Values
  <2> QED
    BY <1>5, <2>1, FS_Subset
<1> QED
  BY <1>2, <1>5, <1>11, <1>12 DEF h, n

LEMMA MovedStays ==
    ASSUME \A v \in Values : (Copies(v)' > 0 /\ ~InHand(v)') <=> (Copies(v) > 0 /\ ~InHand(v))
    PROVE  Moved' = Moved
<1>1. Values' = Values
  OBVIOUS
<1> QED
  BY <1>1 DEF Moved

\* The steps of a thread of either program, and what they do to Moved.
LEMMA PopsKeep ==
    ASSUME ListInv, NEW t \in Movers, at[t] = "pops", RPop(t)
    PROVE  /\ ListInv' /\ Moved' = Moved
           /\ \A u \in Movers : /\ Empty \notin ToSet(hand[u]) => Empty \notin ToSet(hand'[u])
                                /\ u # t => at'[u] = at[u]
           /\ at'[t] # "opens" /\ UNCHANGED <<program, kills>>
<1>1. hand[t] = <<>> /\ ListTypes /\ InPlace
  BY DEF ListInv, InPlace
<1>2. ListInv'
  BY <1>1, RPopKeeps
<1> DEFINE q == KeyOf(t)
<1>3. /\ hand' = [hand EXCEPT ![t] = Taken(q)] /\ UNCHANGED <<queues, target, program, kills>>
      /\ at' = [at EXCEPT ![t] = IF Taken(q) = <<>> THEN "tests" ELSE "pushes"]
  BY DEF RPop
<1>4. q \in Keys
  BY <1>1, KeyFacts
<1> HIDE DEF q
<1>5. /\ ToSet(Taken(q)) \subseteq Values
      /\ \A v \in ToSet(Taken(q)) : v \in ToSet(source[q])
  BY <1>1, <1>4, TakenApart
<1>6. hand'[t] = Taken(q) /\ \A u \in Movers : u # t => hand'[u] = hand[u] /\ at'[u] = at[u]
  BY <1>1, <1>3 DEF ListTypes
<1>7. at'[t] # "opens"
  BY <1>1, <1>3 DEF ListTypes
<1>8. Keys' = Keys /\ \A v : Copies(v)' = Copies(v)
  BY <1>3, SameKeys, SamePlaces
<1>9. ASSUME NEW v \in Values
      PROVE  (Copies(v)' > 0 /\ ~InHand(v)') <=> (Copies(v) > 0 /\ ~InHand(v))
  <2>1. OneState(v)
    BY DEF ListInv
  <2>2. CASE v \in ToSet(Taken(q))
    <3>1. Queued(v)
      BY <1>4, <1>5, <2>2 DEF Queued
    <3>2. Copies(v) = 0
      BY <2>1, <3>1 DEF OneState, Pushed
    <3> QED
      BY <1>8, <3>2
  <2>3. CASE v \notin ToSet(Taken(q))
    <3>1. \A u \in Movers : v \in ToSet(hand'[u]) <=> v \in ToSet(hand[u])
      BY <1>1, <1>6, <2>3, NoneInEmpty
    <3> QED
      BY <1>8, <3>1 DEF InHand
  <2> QED
    BY <2>2, <2>3
<1>10. Moved' = Moved
  BY <1>9, MovedStays
<1>11. \A u \in Movers : Empty \notin ToSet(hand[u]) => Empty \notin ToSet(hand'[u])
  BY <1>5, <1>6, ValueFacts
<1> QED
  BY <1>2, <1>3, <1>6, <1>7, <1>10, <1>11

LEMMA PopFailsKeep ==
    ASSUME ListInv, NEW t \in Movers, at[t] = "pops",
           NEW next \in Whereabouts, NEW h \in Seq({Empty}), next # "pushes" => h = <<>>,
           next # "opens", RPopFails(t, next, h)
    PROVE  /\ ListInv' /\ Moved' = Moved
           /\ h = <<>> => hand' = hand
           /\ \A u \in Movers : u # t => at'[u] = at[u]
           /\ at'[t] # "opens" /\ UNCHANGED <<program, kills>>
<1>1. hand[t] = <<>> /\ ListTypes /\ InPlace
  BY DEF ListInv, InPlace
<1>2. ListInv'
  BY <1>1, RPopFailsKeeps
<1>3. /\ UNCHANGED <<queues, target, program, kills>>
      /\ \/ UNCHANGED <<at, hand>>
         \/ at' = [at EXCEPT ![t] = next] /\ hand' = [hand EXCEPT ![t] = h]
  BY DEF RPopFails
<1>4. /\ \A u \in Movers : u # t => hand'[u] = hand[u] /\ at'[u] = at[u]
      /\ at'[t] # "opens" /\ hand'[t] \in Seq({Empty})
  <2>1. <<>> \in Seq({Empty})
    OBVIOUS
  <2> QED
    BY <1>1, <1>3, <2>1 DEF ListTypes
<1>5. h = <<>> => hand' = hand
  BY <1>1, <1>3 DEF ListTypes
<1>6. \A v \in Values : \A u \in Movers : v \in ToSet(hand'[u]) <=> v \in ToSet(hand[u])
  <2>1. \A i \in DOMAIN hand'[t] : hand'[t][i] = Empty
    BY <1>4
  <2>2. \A v \in Values : v \notin ToSet(hand'[t])
    BY <2>1, InSet, ValueFacts
  <2> QED
    BY <1>1, <1>4, <2>2, NoneInEmpty
<1>7. \A v : Copies(v)' = Copies(v)
  BY <1>3, SamePlaces
<1>8. \A v \in Values : InHand(v)' <=> InHand(v)
  BY <1>6 DEF InHand
<1>9. Moved' = Moved
  BY <1>7, <1>8, MovedStays
<1> QED
  BY <1>2, <1>3, <1>4, <1>5, <1>9

LEMMA LPushKeeps ==
    ASSUME ListInv, NEW t \in Movers, NEW q \in Keys, LPush(t, q)
    PROVE  /\ ListInv'
           /\ Moved' = Moved \cup (ToSet(hand[t]) \cap Values)
           /\ Moved \cap ToSet(hand[t]) = {}
           /\ \A u \in Movers : /\ Empty \notin ToSet(hand[u]) => Empty \notin ToSet(hand'[u])
                                /\ u # t => at'[u] = at[u]
           /\ at'[t] # "opens" /\ UNCHANGED <<program, kills>>
<1>1. /\ Adds(t, q) /\ hand' = [hand EXCEPT ![t] = <<>>] /\ at' = [at EXCEPT ![t] = "tests"]
      /\ UNCHANGED <<queues, source, lost, again, program, kills>>
  BY DEF LPush
<1>2. ListTypes /\ InPlace
  BY DEF ListInv
<1>3. ListInv'
  BY <1>1, PushKeeps
<1>4. /\ hand'[t] = <<>> /\ at'[t] = "tests"
      /\ \A u \in Movers : u # t => hand'[u] = hand[u] /\ at'[u] = at[u]
  BY <1>1, <1>2 DEF ListTypes
<1>5. ASSUME NEW v \in Values
      PROVE  /\ (Copies(v)' > 0 /\ ~InHand(v)')
                    <=> (Copies(v) > 0 /\ ~InHand(v)) \/ v \in ToSet(hand[t])
             /\ v \in ToSet(hand[t]) => InHand(v)
  <2>1. OneState(v)
    BY DEF ListInv
  <2>2. /\ Copies(v) \in Nat
        /\ v \in ToSet(hand[t]) => Copies(v)' = Copies(v) + 1
        /\ v \notin ToSet(hand[t]) => Copies(v)' = Copies(v)
    BY <1>1, <1>2, <2>1, CopiesAfter DEF OneState
  <2>3. CASE v \in ToSet(hand[t])
    <3>1. \A u \in Movers : v \notin ToSet(hand'[u])
      BY <1>4, <2>1, <2>3, NoneInEmpty DEF OneState
    <3>2. ~InHand(v)' /\ InHand(v)
      BY <2>3, <3>1 DEF InHand
    <3>3. Copies(v)' > 0
      BY <2>2, <2>3
    <3> QED
      BY <2>3, <3>2, <3>3
  <2>4. CASE v \notin ToSet(hand[t])
    <3>1. \A u \in Movers : v \in ToSet(hand'[u]) <=> v \in ToSet(hand[u])
      BY <1>4, <2>4, NoneInEmpty
    <3>2. InHand(v)' <=> InHand(v)
      BY <3>1 DEF InHand
    <3> QED
      BY <2>2, <2>4, <3>2
  <2> QED
    BY <2>3, <2>4
<1>6. Moved' = Moved \cup (ToSet(hand[t]) \cap Values)
  <2>1. \A v : v \in Moved' <=> v \in Values /\ Copies(v)' > 0 /\ ~InHand(v)'
    BY DEF Moved
  <2>2. \A v : v \in Moved <=> v \in Values /\ Copies(v) > 0 /\ ~InHand(v)
    BY DEF Moved
  <2> QED
    BY <1>5, <2>1, <2>2
<1>7. Moved \cap ToSet(hand[t]) = {}
  BY <1>5 DEF Moved
<1>8. \A u \in Movers : Empty \notin ToSet(hand[u]) => Empty \notin ToSet(hand'[u])
  BY <1>4, NoneInEmpty
<1> QED
  BY <1>1, <1>3, <1>4, <1>6, <1>7, <1>8

LEMMA LPushFailsKeeps ==
    ASSUME ListInv, NEW t \in Movers, NEW q \in Keys, LPushFails(t, q)
    PROVE  ListInv' /\ Moved' = Moved /\ UNCHANGED <<hand, at, program, kills>>
<1>1. UNCHANGED <<queues, source, lost, hand, at, program, kills>>
  BY DEF LPushFails
<1>2. ListTypes /\ InPlace
  BY DEF ListInv
<1>3. \A v \in Values : InHand(v)' <=> InHand(v)
  BY <1>1 DEF InHand
<1>4. CASE UNCHANGED <<target, again>>
  <2>1. \A v : Copies(v)' = Copies(v)
    BY <1>1, <1>4, SamePlaces
  <2>2. Moved' = Moved
    BY <1>3, <2>1, MovedStays
  <2>3. ListInv'
    BY <1>1, <1>2, <1>4, ListsStay DEF ListTypes, InPlace
  <2> QED
    BY <1>1, <2>2, <2>3
<1>5. CASE /\ Adds(t, q)
           /\ again' = [v \in Values |-> again[v] + (IF v \in ToSet(hand[t]) THEN 1 ELSE 0)]
  <2>1. ListInv'
    BY <1>1, <1>5, PushKeeps
  <2>2. ASSUME NEW v \in Values
        PROVE  (Copies(v)' > 0 /\ ~InHand(v)') <=> (Copies(v) > 0 /\ ~InHand(v))
    <3>1. OneState(v)
      BY DEF ListInv
    <3>2. v \notin ToSet(hand[t]) => Copies(v)' = Copies(v)
      BY <1>1, <1>2, <1>5, <3>1, CopiesAfter DEF OneState
    <3>3. v \in ToSet(hand[t]) => InHand(v)
      BY DEF InHand
    <3> QED
      BY <1>3, <3>2, <3>3
  <2>3. Moved' = Moved
    BY <2>2, MovedStays
  <2> QED
    BY <1>1, <2>1, <2>3
<1> QED
  BY <1>4, <1>5 DEF LPushFails
-----------------------------------------------------------------------------
\* The steps of the programs

\* A step of one thread that was started leaves the order of the starts.
LEMMA OrderStays ==
    ASSUME StartsInOrder, NEW t \in Movers, at[t] # "opens", at'[t] # "opens",
           \A u \in Movers : u # t => at'[u] = at[u], program' = program
    PROVE  StartsInOrder'
BY DEF StartsInOrder

LEMMA ThreadMoves ==
    ASSUME MoversInv, program = "redis_queue_mover", NEW t \in Movers, Moves(t)
    PROVE  MoversInv'
<1>1. ListInv /\ ListTypes /\ InPlace
  BY DEF MoversInv, ListInv
<1>2. /\ kills \in Nat /\ \A u \in Movers : Empty \notin ToSet(hand[u])
      /\ main # "joinsMovers" => \A u \in Movers : at[u] = "left"
      /\ kills = 0 => numMoved = Cardinality(Moved)
  BY DEF MoversInv, Counts
<1>3. SUFFICES /\ ListInv' /\ UNCHANGED <<program, kills, main>> /\ at[t] # "left"
               /\ \A u \in Movers : Empty \notin ToSet(hand'[u])
               /\ kills = 0 => numMoved' = Cardinality(Moved')
  BY <1>2 DEF MoversInv, Counts, StartsInOrder
<1>4. CASE MoverOpens(t) \/ MoverTests(t)
  <2>1. /\ UNCHANGED <<program, queues, source, target, kills, hand, lost, again, numMoved, main>>
        /\ at[t] # "left" /\ at[t] # "pushes"
        /\ \E x \in Whereabouts \ {"pushes"} : at' = [at EXCEPT ![t] = x]
    BY <1>4 DEF MoverOpens, MoverTests, Alone, Whereabouts
  <2>2. /\ at' \in [Movers -> Whereabouts]
        /\ \A u \in Movers : at'[u] # "pushes" => hand[u] = <<>>
    BY <1>1, <2>1 DEF ListTypes, InPlace
  <2>3. ListInv'
    BY <1>1, <2>1, <2>2, ListsStay
  <2>4. /\ \A v : Copies(v)' = Copies(v)
        /\ \A v : InHand(v)' <=> InHand(v)
    BY <2>1, SamePlaces DEF InHand
  <2>5. Moved' = Moved
    BY <2>4, MovedStays
  <2> QED
    BY <1>2, <2>1, <2>3, <2>5
<1>5. CASE MoverPops(t)
  <2>1. at[t] = "pops" /\ (RPop(t) \/ RPopFails(t, "tests", <<>>)) /\ UNCHANGED <<numMoved, main>>
    BY <1>5 DEF MoverPops, Alone
  <2>2. CASE RPop(t)
    BY <1>1, <1>2, <2>1, <2>2, PopsKeep
  <2>3. CASE RPopFails(t, "tests", <<>>)
    <3>1. <<>> \in Seq({Empty}) /\ "tests" \in Whereabouts
      BY DEF Whereabouts
    <3>2. ListInv' /\ Moved' = Moved /\ hand' = hand /\ UNCHANGED <<program, kills>>
      BY <1>1, <2>1, <2>3, <3>1, PopFailsKeep
    <3> QED
      BY <1>2, <2>1, <3>2
  <2> QED
    BY <2>1, <2>2, <2>3
<1>6. CASE MoverPushes(t)
  <2>1. /\ at[t] = "pushes" /\ main' = main
        /\ \/ LPush(t, KeyOf(t)) /\ numMoved' = numMoved + Len(hand[t])
           \/ LPushFails(t, KeyOf(t)) /\ UNCHANGED numMoved
    BY <1>6 DEF MoverPushes
  <2>2. KeyOf(t) \in Keys
    BY <1>1, KeyFacts
  <2>3. CASE LPush(t, KeyOf(t)) /\ numMoved' = numMoved + Len(hand[t])
    <3>1. /\ ListInv' /\ UNCHANGED <<program, kills>>
          /\ Moved' = Moved \cup (ToSet(hand[t]) \cap Values)
          /\ Moved \cap ToSet(hand[t]) = {}
          /\ \A u \in Movers : Empty \notin ToSet(hand[u]) => Empty \notin ToSet(hand'[u])
      BY <1>1, <2>2, <2>3, LPushKeeps
    <3>2. /\ IsFiniteSet(ToSet(hand[t])) /\ ToSet(hand[t]) \subseteq Values
          /\ Cardinality(ToSet(hand[t])) = Len(hand[t]) /\ Len(hand[t]) \in Nat
      BY <1>1, <1>2, BatchSize
    <3>3. Moved' = Moved \cup ToSet(hand[t])
      BY <3>1, <3>2
    <3> DEFINE B == ToSet(hand[t])
               M == Moved
    <3>4. IsFiniteSet(M) /\ IsFiniteSet(B) /\ M \cap B = {}
      BY <3>1, <3>2, MovedIsFinite
    <3> HIDE DEF B, M
    <3>5. Cardinality(M \cup B) = Cardinality(M) + Cardinality(B) - Cardinality(M \cap B)
      BY <3>4, FS_Union
    <3>6. Cardinality(M \cup B) = Cardinality(M) + Cardinality(B)
      <4>1. Cardinality(M \cap B) = 0
        BY <3>4, FS_EmptySet
      <4>2. Cardinality(M) \in Nat /\ Cardinality(B) \in Nat
        BY <3>4, FS_CardinalityType
      <4> QED
        BY <3>5, <4>1, <4>2
    <3>7. Cardinality(Moved') = Cardinality(Moved) + Len(hand[t])
      BY <3>2, <3>3, <3>6 DEF B, M
    <3> QED
      BY <1>2, <2>1, <2>3, <3>1, <3>7
  <2>4. CASE LPushFails(t, KeyOf(t)) /\ UNCHANGED numMoved
    BY <1>1, <1>2, <2>1, <2>2, <2>4, LPushFailsKeeps
  <2> QED
    BY <2>1, <2>3, <2>4
<1> QED
  BY <1>4, <1>5, <1>6 DEF Moves

\* A step that touches no list leaves what is said of the lists.
LEMMA ListsUntouched ==
    ASSUME MoversInv, UNCHANGED listVars
    PROVE  ListInv' /\ StartsInOrder' /\ Moved' = Moved
<1>1. UNCHANGED <<program, queues, source, target, failures, kills, hand, at, lost, again>>
  BY DEF listVars
<1>2. ListInv'
  BY <1>1, ListsStay DEF MoversInv, ListInv, ListTypes, InPlace
<1>3. StartsInOrder'
  BY <1>1 DEF MoversInv, StartsInOrder
<1>4. Moved' = Moved
  <2>1. \A v : Copies(v)' = Copies(v)
    BY <1>1, SamePlaces
  <2>2. \A v : InHand(v)' <=> InHand(v)
    BY <1>1 DEF InHand
  <2> QED
    BY <2>1, <2>2, MovedStays
<1> QED
  BY <1>2, <1>3, <1>4

\* A kill loses what the threads hold, and nothing else.
LEMMA KillKeeps ==
    ASSUME MoversInv, ProcessKilled
    PROVE  /\ ListInv' /\ StartsInOrder' /\ program' = program
           /\ kills' \in Nat \ {0}
           /\ \A t \in Movers : hand'[t] = <<>> /\ at'[t] = "opens"
<1>1. /\ ListInv /\ ListTypes /\ InPlace /\ kills \in Nat
  BY DEF MoversInv, ListInv, Counts
<1>2. /\ kills' = kills + 1 /\ hand' = [t \in Movers |-> <<>>] /\ at' = [t \in Movers |-> "opens"]
      /\ lost' = lost \cup ((UNION {ToSet(hand[t]) : t \in Movers}) \ {Empty})
      /\ UNCHANGED <<program, queues, source, target, again>>
  BY DEF ProcessKilled
<1>3. \A v : v \in lost' <=> v \in lost \/ (v # Empty /\ \E u \in Movers : v \in ToSet(hand[u]))
  <2> DEFINE all == UNION {ToSet(hand[u]) : u \in Movers}
  <2>1. \A v : v \in all <=> \E u \in Movers : v \in ToSet(hand[u])
    OBVIOUS
  <2>2. lost' = lost \cup (all \ {Empty})
    BY DEF ProcessKilled
  <2> HIDE DEF all
  <2>3. \A v : v \in lost' <=> v \in lost \/ (v # Empty /\ v \in all)
    BY <2>2
  <2> QED
    BY <2>1, <2>3
<1>4. /\ hand' \in [Movers -> Seq(Values \cup {Empty})] /\ at' \in [Movers -> Whereabouts]
      /\ \A t \in Movers : hand'[t] = <<>> /\ at'[t] = "opens"
  <2>1. <<>> \in Seq(Values \cup {Empty})
    OBVIOUS
  <2> QED
    BY <1>2, <2>1 DEF Whereabouts
<1>5. ListInv'
  BY <1>1, <1>2, <1>3, <1>4, DropKeeps
<1>6. StartsInOrder'
  BY <1>4 DEF StartsInOrder
<1> QED
  BY <1>1, <1>2, <1>4, <1>5, <1>6

LEMMA MoverKeeps == MoversInv /\ Mover => MoversInv'
<1> SUFFICES ASSUME MoversInv, program = "redis_queue_mover", MoverNext PROVE MoversInv'
  BY DEF Mover
<1>1. ASSUME NEW t \in Movers, Moves(t) PROVE MoversInv'
  BY <1>1, ThreadMoves
<1>2. /\ kills \in Nat /\ \A t \in Movers : Empty \notin ToSet(hand[t])
      /\ main # "joinsMovers" => \A t \in Movers : at[t] = "left"
      /\ kills = 0 => numMoved = Cardinality(Moved)
  BY DEF MoversInv, Counts
<1>3. ASSUME UNCHANGED listVars, numMoved' = numMoved,
             main' # "joinsMovers" => \A t \in Movers : at[t] = "left"
      PROVE  MoversInv'
  <2>1. ListInv' /\ StartsInOrder' /\ Moved' = Moved
    BY <1>3, ListsUntouched
  <2>2. UNCHANGED <<program, kills, hand, at>>
    BY <1>3 DEF listVars
  <2> QED
    BY <1>2, <1>3, <2>1, <2>2 DEF MoversInv, Counts
<1>4. CASE MainStep
  <2>1. /\ numMoved' = numMoved /\ UNCHANGED listVars
        /\ main' # "joinsMovers" => \A t \in Movers : at[t] = "left"
    BY <1>2, <1>4 DEF MainStep, MoversJoined, StopsMyself, KillsMyself, OthersJoined
  <2> QED
    BY <1>3, <2>1
<1>5. CASE SignalStep \/ StatStep \/ Term
  <2>1. UNCHANGED <<numMoved, main>> /\ UNCHANGED listVars
    BY <1>5 DEF SignalStep, SignalTests, SignalTaken, StatStep, Term
  <2> QED
    BY <1>2, <1>3, <2>1
<1>6. CASE MoverKilled
  <2>1. ProcessKilled /\ main' = "joinsMovers"
    BY <1>6 DEF MoverKilled
  <2>2. /\ ListInv' /\ StartsInOrder' /\ kills' \in Nat \ {0}
        /\ \A t \in Movers : hand'[t] = <<>> /\ at'[t] = "opens"
    BY <2>1, KillKeeps
  <2> QED
    BY <2>1, <2>2, NoneInEmpty DEF MoversInv, Counts
<1> QED
  BY <1>1, <1>4, <1>5, <1>6 DEF MoverNext

\* queue_redis2redis: a mover is started, or it and those after it never are.
LEMMA StartKeeps ==
    ASSUME MoversInv, program = "queue_redis2redis", NEW t \in Mine, RelayStarts(t)
    PROVE  MoversInv'
<1>1. ListInv /\ ListTypes /\ InPlace /\ kills \in Nat
  BY DEF MoversInv, ListInv, Counts
<1>2. t \in Movers /\ t < queues /\ Movers \subseteq Nat /\ queues \in Nat
  BY <1>1, KeyFacts DEF Mine
<1>3. /\ at[t] = "opens" /\ \A u \in Mine : u < t => at[u] # "opens"
      /\ UNCHANGED <<program, queues, source, target, kills, hand, lost, again>>
      /\ \/ at' = [at EXCEPT ![t] = "tests"]
         \/ at' = [u \in Movers |-> IF u >= t THEN "left" ELSE at[u]]
  BY DEF RelayStarts
<1>4. \A u \in Movers : t < u => at[u] = "opens"
  BY <1>2, <1>3 DEF MoversInv, StartsInOrder
<1>5. \A u \in Movers : u < t => at[u] # "opens"
  BY <1>2, <1>3 DEF Mine
<1>6. /\ at' \in [Movers -> Whereabouts]
      /\ \A u \in Movers : u < t => at'[u] = at[u]
      /\ at'[t] # "opens" /\ at'[t] # "pushes"
      /\ \/ \A u \in Movers : t < u => at'[u] = at[u]
         \/ \A u \in Movers : t < u => at'[u] = "left"
  <2>1. CASE at' = [at EXCEPT ![t] = "tests"]
    BY <1>1, <1>2, <2>1 DEF ListTypes, Whereabouts
  <2>2. CASE at' = [u \in Movers |-> IF u >= t THEN "left" ELSE at[u]]
    BY <1>1, <1>2, <2>2 DEF ListTypes, Whereabouts
  <2> QED
    BY <1>3, <2>1, <2>2
<1>7. \A u \in Movers : u < t \/ u = t \/ t < u
  BY <1>2
<1>8. \A u \in Movers : at'[u] # "pushes" => hand[u] = <<>>
  BY <1>1, <1>3, <1>4, <1>6, <1>7 DEF InPlace
<1>9. ListInv'
  BY <1>1, <1>3, <1>6, <1>8, ListsStay
<1>10. StartsInOrder'
  <2>1. SUFFICES ASSUME NEW a \in Movers, NEW u \in Movers, at'[a] = "opens", a < u
                 PROVE  at'[u] = "opens"
    BY <1>3 DEF StartsInOrder
  <2>2. t < a
    BY <1>5, <1>6, <1>7, <2>1
  <2>3. t < u
    BY <1>2, <2>1, <2>2
  <2> QED
    BY <1>4, <1>6, <2>1, <2>2, <2>3
<1> QED
  BY <1>1, <1>3, <1>9, <1>10 DEF MoversInv, Counts

LEMMA ThreadRelays ==
    ASSUME MoversInv, program = "queue_redis2redis", NEW t \in Mine, Relays(t)
    PROVE  MoversInv'
<1>1. ListInv /\ ListTypes /\ InPlace /\ kills \in Nat /\ t \in Movers
  BY DEF MoversInv, ListInv, Counts, Mine
<1>2. SUFFICES /\ ListInv' /\ UNCHANGED <<program, kills>>
               /\ at[t] # "opens" /\ at'[t] # "opens"
               /\ \A u \in Movers : u # t => at'[u] = at[u]
  <2>1. StartsInOrder'
    BY <1>1, <1>2, OrderStays DEF MoversInv
  <2> QED
    BY <1>1, <1>2, <2>1 DEF MoversInv, Counts
<1>3. CASE RelayTests(t)
  <2>1. /\ UNCHANGED <<program, queues, source, target, kills, hand, lost, again>>
        /\ at[t] = "tests" /\ at' = [at EXCEPT ![t] = IF stopped[t] THEN "left" ELSE "pops"]
    BY <1>3 DEF RelayTests
  <2>2. /\ at' \in [Movers -> Whereabouts] /\ at'[t] # "opens"
        /\ \A u \in Movers : u # t => at'[u] = at[u]
        /\ \A u \in Movers : at'[u] # "pushes" => hand[u] = <<>>
    BY <1>1, <2>1 DEF ListTypes, InPlace, Whereabouts
  <2>3. ListInv'
    BY <1>1, <2>1, <2>2, ListsStay
  <2> QED
    BY <2>1, <2>2, <2>3
<1>4. CASE RelayPops(t)
  <2> DEFINE e == [i \in 1..Batch |-> Empty]
  <2>1. at[t] = "pops" /\ (RPop(t) \/ RPopFails(t, "pushes", e))
    BY <1>4 DEF RelayPops
  <2>2. e \in Seq({Empty}) /\ "pushes" \in Whereabouts
    BY ListsAssumption DEF Whereabouts
  <2> HIDE DEF e
  <2>3. CASE RPop(t)
    BY <1>1, <2>1, <2>3, PopsKeep
  <2>4. CASE RPopFails(t, "pushes", e)
    BY <1>1, <2>1, <2>2, <2>4, PopFailsKeep
  <2> QED
    BY <2>1, <2>3, <2>4
<1>5. CASE RelayPushes(t)
  <2>1. PICK q \in Keys : LPush(t, q) \/ LPushFails(t, q)
    BY <1>5 DEF RelayPushes
  <2>2. at[t] = "pushes"
    BY <1>5 DEF RelayPushes
  <2>3. CASE LPush(t, q)
    BY <1>1, <2>2, <2>3, LPushKeeps
  <2>4. CASE LPushFails(t, q)
    BY <1>1, <2>2, <2>4, LPushFailsKeeps
  <2> QED
    BY <2>1, <2>3, <2>4
<1>6. CASE RelayDrops(t)
  <2>1. /\ at[t] = "pushes" /\ lost' = lost \cup (ToSet(hand[t]) \ {Empty})
        /\ hand' = [hand EXCEPT ![t] = <<>>] /\ at' = [at EXCEPT ![t] = "left"]
        /\ UNCHANGED <<program, queues, source, target, kills, again>>
    BY <1>6 DEF RelayDrops
  <2>2. \A v : v \in lost' <=> v \in lost \/ (v # Empty /\ \E u \in {t} : v \in ToSet(hand[u]))
    BY <2>1
  <2>3. /\ hand' \in [Movers -> Seq(Values \cup {Empty})] /\ at' \in [Movers -> Whereabouts]
        /\ \A u \in Movers : IF u \in {t} THEN hand'[u] = <<>>
                             ELSE hand'[u] = hand[u] /\ at'[u] = at[u]
    <3>1. <<>> \in Seq(Values \cup {Empty})
      OBVIOUS
    <3> QED
      BY <1>1, <2>1, <3>1 DEF ListTypes, Whereabouts
  <2>4. {t} \subseteq Movers
    BY <1>1
  <2>5. ListInv'
    BY <1>1, <2>1, <2>2, <2>3, <2>4, DropKeeps
  <2> QED
    BY <1>1, <2>1, <2>5 DEF ListTypes
<1> QED
  BY <1>3, <1>4, <1>5, <1>6 DEF Relays

LEMMA RelayKeeps == MoversInv /\ Relay => MoversInv'
<1> SUFFICES ASSUME MoversInv, program = "queue_redis2redis", RelayNext PROVE MoversInv'
  BY DEF Relay
<1>1. ASSUME NEW t \in Mine, Relays(t) PROVE MoversInv'
  BY <1>1, ThreadRelays
<1>2. ASSUME NEW t \in Mine, RelayStarts(t) PROVE MoversInv'
  BY <1>2, StartKeeps
<1>3. CASE RelayStarted \/ RelayEnds \/ RelayStops
  <2>1. UNCHANGED listVars
    BY <1>3 DEF RelayStarted, RelayEnds, RelayStops, Terminated, StopsMover
  <2>2. ListInv' /\ StartsInOrder' /\ program' = program /\ kills' = kills /\ kills \in Nat
    BY <2>1, ListsUntouched DEF listVars, MoversInv, Counts
  <2> QED
    BY <2>2 DEF MoversInv, Counts
<1>4. CASE RelayKilled
  <2>1. /\ ListInv' /\ StartsInOrder' /\ program' = program /\ kills' \in Nat \ {0}
    BY <1>4, KillKeeps DEF RelayKilled
  <2> QED
    BY <2>1 DEF MoversInv, Counts
<1> QED
  BY <1>1, <1>2, <1>3, <1>4 DEF RelayNext, RelayMain

\* The invariant of both programs: where every value is, in what order, and
\* what redis_queue_mover has counted.
THEOREM Invariance == Spec => []MoversInv
<1>1. MoversInv /\ [Next]_vars => MoversInv'
  <2> SUFFICES ASSUME MoversInv, [Next]_vars PROVE MoversInv'
    OBVIOUS
  <2>1. CASE Mover
    BY <2>1, MoverKeeps
  <2>2. CASE Relay
    BY <2>2, RelayKeeps
  <2>3. CASE UNCHANGED vars
    <3>1. UNCHANGED listVars /\ UNCHANGED <<numMoved, main>>
      BY <2>3 DEF vars, moverVars
    <3>2. ListInv' /\ StartsInOrder' /\ Moved' = Moved
      BY <3>1, ListsUntouched
    <3> QED
      BY <3>1, <3>2 DEF MoversInv, Counts, listVars
  <2> QED
    BY <2>1, <2>2, <2>3 DEF Next
<1> QED
  BY <1>1, Begins, PTL DEF Spec

\* A thread's values are in every target list in the order of the source list
\* (redis_queue_mover.cpp, queue_redis2redis.cpp), in spite of failures and kills.
THEOREM OrderIsKept == Spec => []OrderKept
<1>1. MoversInv => OrderKept
  BY DEF MoversInv, ListInv
<1> QED
  BY <1>1, Invariance, PTL
-----------------------------------------------------------------------------
\* Every value is accounted for

\* A set without a member counts 0, and one with one member 1.
LEMMA AtMostOne ==
    ASSUME NEW S, \A x, y \in S : x = y
    PROVE  Cardinality(S) = Indicator(\E x : x \in S)
<1>1. CASE \E x : x \in S
  <2>1. PICK x : x \in S
    BY <1>1
  <2>2. S = {x}
    BY <2>1
  <2> QED
    BY <1>1, <2>2, FS_Singleton DEF Indicator
<1>2. CASE ~\E x : x \in S
  <2>1. S = {}
    BY <1>2
  <2> QED
    BY <1>2, <2>1, FS_EmptySet DEF Indicator
<1> QED
  BY <1>1, <1>2

\* Every value of the source lists is in one of them, in one hand, lost or
\* pushed, and pushed once more than answers of lpush() were lost; and
\* redis_queue_mover has counted each value it moved once.
THEOREM AllAreAccounted == Spec => []AllAccounted
<1>1. MoversInv => AllAccounted
  <2> SUFFICES ASSUME MoversInv PROVE AllAccounted
    OBVIOUS
  <2>1. ListInv /\ ListTypes /\ InPlace
    BY DEF MoversInv, ListInv
  <2>2. ASSUME NEW v \in Values
        PROVE  /\ Copies(v) - again[v] \in {0, 1}
               /\ Copies(v) - again[v] + Indicator(v \in lost)
                    + Cardinality({q \in Keys : v \in ToSet(source[q])})
                    + Cardinality({t \in Movers : v \in ToSet(hand[t])}) = 1
    <3> DEFINE Q == {q \in Keys : v \in ToSet(source[q])}
               H == {t \in Movers : v \in ToSet(hand[t])}
               c == Copies(v)
               a == again[v]
    <3>1. OneState(v) /\ a \in Nat
      BY <2>1 DEF ListInv, ListTypes
    <3>2. c \in {a, a + 1} /\ (Pushed(v) <=> c = a + 1)
      BY <3>1 DEF OneState, Pushed
    <3>3. Cardinality(Q) = Indicator(Queued(v))
      <4>1. \A x, y \in Q : x = y
        BY <2>1 DEF InPlace
      <4>2. Queued(v) <=> \E x : x \in Q
        BY DEF Queued
      <4> HIDE DEF Q
      <4>3. Cardinality(Q) = Indicator(\E x : x \in Q)
        BY <4>1, AtMostOne
      <4> QED
        BY <4>2, <4>3 DEF Indicator
    <3>4. Cardinality(H) = Indicator(InHand(v))
      <4>1. \A x, y \in H : x = y
        BY <3>1 DEF OneState
      <4>2. InHand(v) <=> \E x : x \in H
        BY DEF InHand
      <4> HIDE DEF H
      <4>3. Cardinality(H) = Indicator(\E x : x \in H)
        BY <4>1, AtMostOne
      <4> QED
        BY <4>2, <4>3 DEF Indicator
    <3>5. /\ Queued(v) => ~InHand(v) /\ v \notin lost /\ ~Pushed(v)
          /\ InHand(v) => v \notin lost /\ ~Pushed(v)
          /\ v \in lost => ~Pushed(v)
          /\ Queued(v) \/ InHand(v) \/ v \in lost \/ Pushed(v)
      BY <3>1 DEF OneState
    <3> HIDE DEF Q, H, c, a
    <3>6. c - a \in {0, 1} /\ c - a = Indicator(Pushed(v))
      BY <3>1, <3>2 DEF Indicator, a
    <3>7. c - a + Indicator(v \in lost) + Cardinality(Q) + Cardinality(H) = 1
      <4>1. c - a = IF Pushed(v) THEN 1 ELSE 0
        BY <3>6 DEF Indicator
      <4>2. /\ Cardinality(Q) = IF Queued(v) THEN 1 ELSE 0
            /\ Cardinality(H) = IF InHand(v) THEN 1 ELSE 0
            /\ Indicator(v \in lost) = IF v \in lost THEN 1 ELSE 0
        BY <3>3, <3>4 DEF Indicator
      <4> QED
        BY <3>5, <4>1, <4>2
    <3> QED
      BY <3>6, <3>7 DEF Q, H, c, a
  <2>3. ASSUME program = "redis_queue_mover", kills = 0, main # "joinsMovers"
        PROVE  numMoved = Cardinality({v \in Values : Copies(v) > 0})
    <3>1. \A t \in Movers : hand[t] = <<>>
      BY <2>1, <2>3 DEF MoversInv, Counts, InPlace
    <3>2. \A v : ~InHand(v)
      BY <3>1, NoneInEmpty DEF InHand
    <3>3. Moved = {v \in Values : Copies(v) > 0}
      BY <3>2 DEF Moved
    <3> QED
      BY <2>3, <3>3 DEF MoversInv, Counts
  <2> QED
    BY <2>2, <2>3 DEF AllAccounted, Accounted
<1> QED
  BY <1>1, Invariance, PTL
=============================================================================
