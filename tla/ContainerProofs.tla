--------------------------- MODULE ContainerProofs ---------------------------
(***************************************************************************)
(* Theorems about CListQueue and CTimeoutManager, for any set of objects,  *)
(* and about CRawMemPool and CRawObjectPool, for pools of any size.  The   *)
(* links of the list are those of one sequence after every push and        *)
(* remove, wherever a callback makes them, and that sequence is in the     *)
(* order of the objects' times, so that a check finds what is over.  The   *)
(* books of either pool agree, however often callers give back what they   *)
(* gave back before, and both are resource pools, in which nothing is lent *)
(* to two callers.                                                         *)
(***************************************************************************)
EXTENDS MCContainers, ArrayQueueProofs, FiniteSetTheorems, WellFoundedInduction

\* The list l is the chain p: the head node p[0], then the objects in their order.
ChainOf(l, p) ==
    /\ l \in ListRecord
    /\ p \in [0 .. l.number -> Node]
    /\ p[0] = HeadNode
    /\ \A i \in 1 .. l.number : p[i] \in Object
    /\ \A i, j \in 0 .. l.number : p[i] = p[j] => i = j
    /\ \A i \in 0 .. l.number - 1 : l.next[p[i]] = p[i + 1]
    /\ \A i \in 1 .. l.number : l.prev[p[i]] = p[i - 1]
    /\ l.tail = p[l.number] /\ l.next[l.tail] = NULL
    /\ \A x \in Object : (\A i \in 1 .. l.number : p[i] # x) => l.next[x] = NULL /\ l.prev[x] = NULL

\* A set of natural numbers that is not empty has a least one.
LEMMA LeastNumber ==
    ASSUME NEW T, T \subseteq Nat, T # {}
    PROVE  \E m \in T : \A k \in T : m <= k
<1>1. PICK m \in T : \A k \in T : ~(<<k, m>> \in OpToRel(<, Nat))
  BY NatLessThanWellFounded, WFMin, Zenon
<1>2. \A k \in T : ~(k < m)
  BY <1>1 DEF OpToRel
<1>3. \A k \in T : m <= k
  BY <1>2
<1> QED
  BY <1>3

\* The walk along the links meets the objects of the chain one after another.
LEMMA WalkAlongChain ==
    ASSUME NEW l, NEW p, ChainOf(l, p)
    PROVE  Walk(l) = [i \in 1 .. l.number |-> p[i]]
<1> DEFINE n == l.number
           S == 0 .. n
           Steps(f) == f = [i \in S |-> IF i = 0 \/ f[i - 1] = NULL THEN HeadNode
                                        ELSE l.next[f[i - 1]]]
           at == CHOOSE f : Steps(f)
<1>1. n \in Nat
  BY DEF ChainOf, ListRecord
<1>2. p \in [S -> Node] /\ p[0] = HeadNode /\ NULL \notin Node
      /\ \A i \in 0 .. n - 1 : l.next[p[i]] = p[i + 1]
  BY NodesAssumption DEF ChainOf, Node
<1>3. Walk(l) = [i \in 1 .. n |-> at[i]]
  BY DEF Walk
<1> HIDE DEF n
<1>4. Steps(p)
  <2>1. \A i \in S : p[i] = IF i = 0 \/ p[i - 1] = NULL THEN HeadNode ELSE l.next[p[i - 1]]
    <3> SUFFICES ASSUME NEW i \in S, i # 0
                 PROVE  p[i] = IF p[i - 1] = NULL THEN HeadNode ELSE l.next[p[i - 1]]
      BY <1>2
    <3>1. i - 1 \in 0 .. n - 1 /\ i - 1 \in S /\ (i - 1) + 1 = i
      BY <1>1
    <3> QED
      BY <1>2, <3>1
  <2> QED
    BY <1>2, <2>1
<1>5. Steps(at)
  <2> HIDE DEF Steps
  <2> QED
    BY <1>4
<1> HIDE DEF at
<1>6. \A i \in S : at[i] = IF i = 0 \/ at[i - 1] = NULL THEN HeadNode ELSE l.next[at[i - 1]]
  BY <1>5
<1>7. \A i \in S : p[i] = IF i = 0 \/ p[i - 1] = NULL THEN HeadNode ELSE l.next[p[i - 1]]
  BY <1>4
<1>8. \A i \in S : at[i] = p[i]
  <2> DEFINE T == {i \in S : at[i] # p[i]}
  <2> SUFFICES ASSUME T # {} PROVE FALSE
    OBVIOUS
  <2>1. T \subseteq Nat
    BY <1>1
  <2>2. PICK m \in T : \A k \in T : m <= k
    <3> HIDE DEF T
    <3> QED
      BY <2>1, LeastNumber, Zenon
  <2>3. m \in S /\ at[m] # p[m] /\ m \in Nat
    BY <1>1
  <2>4. m # 0
    BY <1>6, <1>7, <2>3
  <2>5. m - 1 \in S /\ m - 1 \notin T
    BY <1>1, <2>2, <2>3, <2>4
  <2>6. at[m - 1] = p[m - 1]
    BY <2>5
  <2> QED
    BY <1>6, <1>7, <2>3, <2>6
<1> QED
  BY <1>1, <1>3, <1>8 DEF n

\* An object is in the chain if its _prev says that it is queued.
LEMMA QueuedInChain ==
    ASSUME NEW l, NEW p, ChainOf(l, p), NEW x \in Object
    PROVE  IsQueued(l, x) <=> \E i \in 1 .. l.number : p[i] = x
<1>1. l.number \in Nat /\ p \in [0 .. l.number -> Node] /\ NULL \notin Node
  BY NodesAssumption DEF ChainOf, ListRecord, Node
<1>2. ASSUME NEW i \in 1 .. l.number, p[i] = x
      PROVE  l.prev[x] # NULL
  <2>1. i - 1 \in 0 .. l.number
    BY <1>1
  <2> QED
    BY <1>1, <1>2, <2>1 DEF ChainOf
<1> QED
  BY <1>2 DEF ChainOf, IsQueued

LEMMA ChainAgrees ==
    ASSUME NEW l, NEW p, ChainOf(l, p)
    PROVE  LinksAgree(l)
<1> DEFINE w == Walk(l)
<1>1. l.number \in Nat /\ l \in ListRecord
  BY DEF ChainOf, ListRecord
<1>2. w = [i \in 1 .. l.number |-> p[i]]
  BY WalkAlongChain
<1> HIDE DEF w
<1>3. DOMAIN w = 1 .. l.number /\ \A i \in 1 .. l.number : w[i] = p[i]
  BY <1>2
<1>4. ASSUME NEW i \in DOMAIN w
      PROVE  w[i] \in Object /\ l.prev[w[i]] = IF i = 1 THEN HeadNode ELSE w[i - 1]
  <2>1. i \in 1 .. l.number /\ (i # 1 => i - 1 \in 1 .. l.number) /\ (i = 1 => i - 1 = 0)
    BY <1>1, <1>3
  <2> QED
    BY <1>3, <2>1 DEF ChainOf
<1>5. {w[i] : i \in DOMAIN w} = {x \in Object : IsQueued(l, x)}
  <2>1. \A i \in 1 .. l.number : p[i] \in Object
    BY DEF ChainOf
  <2>2. \A x \in Object : IsQueued(l, x) <=> \E i \in 1 .. l.number : p[i] = x
    BY QueuedInChain
  <2> QED
    BY <1>3, <2>1, <2>2
<1>6. l.tail = IF l.number = 0 THEN HeadNode ELSE w[l.number]
  BY <1>1, <1>3 DEF ChainOf
<1>7. l.next[l.tail] = NULL /\ \A x \in Object : ~IsQueued(l, x) => l.next[x] = NULL
  <2>1. \A x \in Object : IsQueued(l, x) <=> \E i \in 1 .. l.number : p[i] = x
    BY QueuedInChain
  <2> QED
    BY <2>1 DEF ChainOf
<1> QED
  BY <1>1, <1>4, <1>5, <1>6, <1>7 DEF LinksAgree, w

LEMMA NewListChain == ChainOf(NewList, [i \in 0 .. 0 |-> HeadNode])
BY DEF ChainOf, NewList, ListRecord, Node

\* push() of an object that is not queued makes it the last of the chain.
Longer(p, n, x) == [i \in 0 .. n + 1 |-> IF i = n + 1 THEN x ELSE p[i]]

LEMMA PushLengthens ==
    ASSUME NEW l, NEW p, ChainOf(l, p), NEW x \in Object, ~IsQueued(l, x)
    PROVE  ChainOf(PushList(l, x), Longer(p, l.number, x))
<1> DEFINE n == l.number
           r == PushList(l, x)
           q == Longer(p, l.number, x)
<1>1. /\ l \in ListRecord /\ n \in Nat /\ p \in [0 .. n -> Node] /\ p[0] = HeadNode
      /\ l.tail = p[n] /\ l.next \in [Node -> Object \cup {NULL}]
      /\ l.prev \in [Node -> Node \cup {NULL}] /\ x \in Node /\ x # HeadNode
      /\ \A i \in 1 .. n : p[i] \in Object
      /\ \A i, j \in 0 .. n : p[i] = p[j] => i = j
      /\ \A i \in 0 .. n - 1 : l.next[p[i]] = p[i + 1]
      /\ \A i \in 1 .. n : l.prev[p[i]] = p[i - 1]
      /\ \A y \in Object : (\A i \in 1 .. n : p[i] # y) => l.next[y] = NULL /\ l.prev[y] = NULL
  BY NodesAssumption DEF ChainOf, ListRecord, Node
<1>2. /\ r.next = [l.next EXCEPT ![x] = NULL, ![l.tail] = x]
      /\ r.prev = [l.prev EXCEPT ![x] = l.tail]
      /\ r.tail = x /\ r.number = n + 1 /\ r = [next |-> r.next, prev |-> r.prev, tail |-> r.tail, number |-> r.number]
  BY DEF PushList
<1>3. \A i \in 0 .. n : p[i] # x
  BY <1>1, QueuedInChain
<1>4. q \in [0 .. n + 1 -> Node] /\ q[n + 1] = x /\ \A i \in 0 .. n : q[i] = p[i]
  BY <1>1 DEF Longer
<1>5. \A i \in 0 .. n + 1 : i = n + 1 \/ i \in 0 .. n
  BY <1>1
<1> HIDE DEF n, r, q
<1>6. r \in ListRecord
  <2>1. r.next \in [Node -> Object \cup {NULL}] /\ r.prev \in [Node -> Node \cup {NULL}]
    BY <1>1, <1>2
  <2>2. r.tail \in Node /\ r.number \in Nat
    BY <1>1, <1>2
  <2>3. r = [next |-> r.next, prev |-> r.prev, tail |-> r.tail, number |-> r.number]
    BY <1>2
  <2> QED
    BY <2>1, <2>2, <2>3 DEF ListRecord
<1>7. q[0] = HeadNode /\ \A i \in 1 .. n + 1 : q[i] \in Object
  BY <1>1, <1>4
<1>8. \A i, j \in 0 .. n + 1 : q[i] = q[j] => i = j
  BY <1>1, <1>3, <1>4, <1>5
<1>9. ASSUME NEW i \in 0 .. n
      PROVE  r.next[q[i]] = q[i + 1]
  <2>1. CASE i = n
    BY <1>1, <1>2, <1>4, <2>1
  <2>2. CASE i # n
    <3>1. i \in 0 .. n - 1 /\ i + 1 \in 0 .. n /\ n \in 0 .. n /\ i \in 0 .. n
      BY <1>1, <2>2
    <3>2. p[i] # p[n] /\ p[i] # x /\ p[i] \in Node
      BY <1>1, <1>3, <2>2, <3>1
    <3> QED
      BY <1>1, <1>2, <1>4, <3>1, <3>2
  <2> QED
    BY <2>1, <2>2
<1>10. ASSUME NEW i \in 1 .. n + 1
       PROVE  r.prev[q[i]] = q[i - 1]
  <2>1. CASE i = n + 1
    <3>1. n \in 0 .. n /\ i - 1 = n
      BY <1>1, <2>1
    <3> QED
      BY <1>1, <1>2, <1>4, <2>1, <3>1
  <2>2. CASE i # n + 1
    <3>1. i \in 1 .. n /\ i \in 0 .. n /\ i - 1 \in 0 .. n
      BY <1>1, <2>2
    <3>2. p[i] # x /\ p[i] \in Node
      BY <1>1, <1>3, <3>1
    <3> QED
      BY <1>1, <1>2, <1>4, <3>1, <3>2
  <2> QED
    BY <2>1, <2>2
<1>11. r.next[r.tail] = NULL
  <2>1. l.tail # x
    BY <1>1, <1>3
  <2> QED
    BY <1>1, <1>2, <2>1
<1>12. ASSUME NEW y \in Object, \A i \in 1 .. n + 1 : q[i] # y
       PROVE  r.next[y] = NULL /\ r.prev[y] = NULL
  <2>1. y # x /\ y \in Node /\ \A i \in 1 .. n : p[i] # y
    BY <1>1, <1>4, <1>12 DEF Node
  <2>2. y # l.tail
    BY <1>1, <2>1, NodesAssumption
  <2> QED
    BY <1>1, <1>2, <2>1, <2>2
<1>13. r.number = n + 1 /\ r.tail = q[n + 1] /\ 1 .. r.number = 1 .. n + 1
       /\ 0 .. r.number = 0 .. n + 1 /\ 0 .. r.number - 1 = 0 .. n
  BY <1>1, <1>2, <1>4
<1>14. ChainOf(r, q)
  BY <1>4, <1>6, <1>7, <1>8, <1>9, <1>10, <1>11, <1>12, <1>13 DEF ChainOf
<1> QED
  BY <1>14 DEF r, q

\* remove() of the k-th object closes the chain over its place.
Shorter(p, n, k) == [i \in 0 .. n - 1 |-> IF i < k THEN p[i] ELSE p[i + 1]]

LEMMA RemoveShortens ==
    ASSUME NEW l, NEW p, ChainOf(l, p), NEW k \in 1 .. l.number
    PROVE  ChainOf(RemoveList(l, p[k]), Shorter(p, l.number, k))
<1> DEFINE n == l.number
           x == p[k]
           r == RemoveList(l, x)
           q == Shorter(p, l.number, k)
<1>1. /\ l \in ListRecord /\ n \in Nat /\ p \in [0 .. n -> Node] /\ p[0] = HeadNode
      /\ l.tail = p[n] /\ l.next[l.tail] = NULL /\ l.next \in [Node -> Object \cup {NULL}]
      /\ l.prev \in [Node -> Node \cup {NULL}] /\ x \in Object /\ l.tail \in Node
      /\ \A i \in 1 .. n : p[i] \in Object
      /\ \A i, j \in 0 .. n : p[i] = p[j] => i = j
      /\ \A i \in 0 .. n - 1 : l.next[p[i]] = p[i + 1]
      /\ \A i \in 1 .. n : l.prev[p[i]] = p[i - 1]
      /\ \A y \in Object : (\A i \in 1 .. n : p[i] # y) => l.next[y] = NULL /\ l.prev[y] = NULL
  BY NodesAssumption DEF ChainOf, ListRecord, Node
<1>2. k \in Nat /\ k >= 1 /\ k <= n /\ k \in 0 .. n /\ k - 1 \in 0 .. n /\ k - 1 \in 0 .. n - 1
      /\ n \in 0 .. n /\ (k - 1) + 1 = k
  BY <1>1
<1>3. l.prev[x] = p[k - 1] /\ p[k - 1] \in Node /\ NULL \notin Node /\ p[k - 1] # x
      /\ l.next[x] = (IF k = n THEN NULL ELSE p[k + 1])
  <2>1. l.prev[x] = p[k - 1] /\ p[k - 1] \in Node /\ NULL \notin Node /\ p[k - 1] # x
    BY <1>1, <1>2, NodesAssumption DEF Node
  <2>2. CASE k = n
    BY <1>1, <2>1, <2>2
  <2>3. CASE k # n
    <3>1. k \in 0 .. n - 1
      BY <1>1, <1>2, <2>3
    <3> QED
      BY <1>1, <2>1, <2>3, <3>1
  <2> QED
    BY <2>1, <2>2, <2>3
<1>4. /\ r.next = [l.next EXCEPT ![p[k - 1]] = l.next[x], ![x] = NULL]
      /\ r.prev = IF l.next[x] = NULL THEN [l.prev EXCEPT ![x] = NULL]
                  ELSE [l.prev EXCEPT ![l.next[x]] = p[k - 1], ![x] = NULL]
      /\ r.tail = (IF l.next[x] = NULL THEN p[k - 1] ELSE l.tail) /\ r.number = n - 1
      /\ r = [next |-> r.next, prev |-> r.prev, tail |-> r.tail, number |-> r.number]
  BY <1>3 DEF RemoveList, IsQueued
<1>5. q = [i \in 0 .. n - 1 |-> IF i < k THEN p[i] ELSE p[i + 1]]
  BY DEF Shorter
<1>6. (l.next[x] = NULL) <=> k = n
  <2>1. k # n => k + 1 \in 1 .. n
    BY <1>1, <1>2
  <2> QED
    BY <1>1, <1>3, <2>1 DEF Node
<1> HIDE DEF n, x, r, q
<1>7. x = p[k]
  BY DEF x
<1>8. \A i \in 0 .. n - 1 : /\ i < k => q[i] = p[i] /\ i \in 0 .. n
                            /\ i >= k => q[i] = p[i + 1] /\ i + 1 \in 0 .. n /\ i + 1 \in 1 .. n
  BY <1>1, <1>2, <1>5
<1>9. q \in [0 .. n - 1 -> Node]
  BY <1>1, <1>2, <1>5
<1>10. r \in ListRecord
  <2>1. r.next \in [Node -> Object \cup {NULL}]
    <3>1. l.next[x] \in Object \cup {NULL} /\ l.next \in [Node -> Object \cup {NULL}]
      BY <1>1 DEF Node
    <3>2. r.next = [l.next EXCEPT ![p[k - 1]] = l.next[x], ![x] = NULL]
      BY <1>4
    <3>3. \A f \in [Node -> Object \cup {NULL}], a, b \in Node, v \in Object \cup {NULL} :
             [f EXCEPT ![a] = v, ![b] = NULL] \in [Node -> Object \cup {NULL}]
      OBVIOUS
    <3>4. x \in Node /\ p[k - 1] \in Node
      BY <1>1, <1>3 DEF Node
    <3> QED
      BY <3>1, <3>2, <3>3, <3>4
  <2>2. r.prev \in [Node -> Node \cup {NULL}]
    BY <1>1, <1>3, <1>4
  <2>3. r.tail \in Node /\ r.number \in Nat
    BY <1>1, <1>2, <1>3, <1>4
  <2>4. r = [next |-> r.next, prev |-> r.prev, tail |-> r.tail, number |-> r.number]
    BY <1>4
  <2> QED
    BY <2>1, <2>2, <2>3, <2>4 DEF ListRecord
<1>11. q[0] = HeadNode /\ \A i \in 1 .. n - 1 : q[i] \in Object
  <2>1. 0 \in 0 .. n - 1 /\ 0 < k
    BY <1>1, <1>2
  <2>2. ASSUME NEW i \in 1 .. n - 1
        PROVE  q[i] \in Object
    <3>1. i \in 0 .. n - 1 /\ i \in 1 .. n /\ i + 1 \in 1 .. n /\ (i < k \/ i >= k)
      BY <1>1, <1>2
    <3> QED
      BY <1>1, <1>8, <3>1
  <2> QED
    BY <1>1, <1>8, <2>1, <2>2
<1>12. \A i, j \in 0 .. n - 1 : q[i] = q[j] => i = j
  <2> SUFFICES ASSUME NEW i \in 0 .. n - 1, NEW j \in 0 .. n - 1, q[i] = q[j]
               PROVE  i = j
    OBVIOUS
  <2>1. CASE i < k /\ j < k
    BY <1>1, <1>8, <2>1
  <2>2. CASE i >= k /\ j >= k
    <3>1. i + 1 = j + 1
      BY <1>1, <1>8, <2>2
    <3> QED
      BY <1>1, <3>1
  <2>3. CASE i < k /\ j >= k
    <3>1. i = j + 1
      BY <1>1, <1>8, <2>3
    <3> QED
      BY <1>1, <1>2, <2>3, <3>1
  <2>4. CASE i >= k /\ j < k
    <3>1. i + 1 = j
      BY <1>1, <1>8, <2>4
    <3> QED
      BY <1>1, <1>2, <2>4, <3>1
  <2> QED
    BY <1>1, <1>2, <2>1, <2>2, <2>3, <2>4
<1>13. \A i \in 0 .. n : i # k => p[i] # x
  BY <1>1, <1>2, <1>7
<1>14. ASSUME NEW i \in 0 .. n - 2
       PROVE  r.next[q[i]] = q[i + 1]
  <2>1. i \in 0 .. n - 1 /\ i + 1 \in 0 .. n - 1
    BY <1>1
  <2>2. CASE i < k - 1
    <3>1. i < k /\ i + 1 < k /\ i \in 0 .. n /\ i # k /\ i # k - 1
      BY <1>1, <1>2, <2>2
    <3>2. p[i] # x /\ p[i] # p[k - 1] /\ p[i] \in Node
      BY <1>1, <1>2, <1>13, <3>1
    <3>3. r.next[p[i]] = l.next[p[i]]
      BY <1>1, <1>4, <3>2
    <3> QED
      BY <1>1, <1>8, <2>1, <3>1, <3>3
  <2>3. CASE i = k - 1
    <3>1. i < k /\ i + 1 >= k /\ k # n /\ i + 1 = k
      BY <1>1, <1>2, <2>3
    <3>2. q[i] = p[k - 1] /\ q[i + 1] = p[k + 1]
      BY <1>8, <2>1, <2>3, <3>1
    <3>3. r.next[p[k - 1]] = l.next[x]
      BY <1>1, <1>3, <1>4
    <3> QED
      BY <1>3, <3>1, <3>2, <3>3
  <2>4. CASE i > k - 1
    <3>1. i >= k /\ i + 1 >= k /\ i + 1 \in 0 .. n /\ i + 1 \in 0 .. n - 1
          /\ i + 1 # k /\ i + 1 # k - 1
      BY <1>1, <1>2, <2>4
    <3>2. p[i + 1] # x /\ p[i + 1] # p[k - 1] /\ p[i + 1] \in Node
      BY <1>1, <1>2, <1>13, <3>1
    <3>3. r.next[p[i + 1]] = l.next[p[i + 1]]
      BY <1>1, <1>4, <3>2
    <3> QED
      BY <1>1, <1>8, <2>1, <3>1, <3>3
  <2> QED
    BY <1>1, <1>2, <2>2, <2>3, <2>4
<1>15. ASSUME NEW i \in 1 .. n - 1
       PROVE  r.prev[q[i]] = q[i - 1]
  <2>1. i \in 0 .. n - 1 /\ i - 1 \in 0 .. n - 1 /\ (i - 1) + 1 = i
    BY <1>1
  <2>2. CASE i < k
    <3>1. i - 1 < k /\ i \in 1 .. n /\ i \in 0 .. n /\ i # k
      BY <1>1, <1>2, <2>2
    <3>2. p[i] # x /\ p[i] \in Node
      BY <1>1, <1>13, <3>1
    <3>3. l.next[x] = NULL \/ p[i] # l.next[x]
      <4>1. CASE k = n
        BY <1>6, <4>1
      <4>2. CASE k # n
        <5>1. k + 1 \in 0 .. n /\ k + 1 # i
          BY <1>1, <1>2, <2>2, <4>2
        <5> QED
          BY <1>1, <1>3, <3>1, <4>2, <5>1
      <4> QED
        BY <4>1, <4>2
    <3>4. r.prev[p[i]] = l.prev[p[i]]
      BY <1>1, <1>4, <3>2, <3>3
    <3> QED
      BY <1>1, <1>8, <2>1, <2>2, <3>1, <3>4
  <2>3. CASE i = k
    <3>1. k # n /\ i >= k /\ i - 1 < k
      BY <1>1, <1>2, <2>3
    <3>2. q[i] = p[k + 1] /\ q[i - 1] = p[k - 1] /\ p[k + 1] = l.next[x] /\ l.next[x] # NULL
      BY <1>3, <1>6, <1>8, <2>1, <2>3, <3>1
    <3>3. k + 1 \in 0 .. n /\ k + 1 # k
      BY <1>1, <1>2, <3>1
    <3>4. p[k + 1] # x /\ p[k + 1] \in Node
      BY <1>1, <1>13, <3>3
    <3> QED
      BY <1>1, <1>4, <3>2, <3>4
  <2>4. CASE i > k
    <3>1. i >= k /\ i - 1 >= k /\ i + 1 \in 1 .. n /\ i + 1 \in 0 .. n /\ i + 1 # k /\ k # n
          /\ k + 1 \in 0 .. n /\ i + 1 # k + 1 /\ (i + 1) - 1 = i
      BY <1>1, <1>2, <2>4
    <3>2. p[i + 1] # x /\ p[i + 1] # p[k + 1] /\ p[i + 1] \in Node
      BY <1>1, <1>13, <3>1
    <3>3. r.prev[p[i + 1]] = l.prev[p[i + 1]]
      BY <1>1, <1>3, <1>4, <3>1, <3>2
    <3> QED
      BY <1>1, <1>8, <2>1, <3>1, <3>3
  <2> QED
    BY <1>1, <1>2, <2>2, <2>3, <2>4
<1>16. r.tail = q[n - 1] /\ r.next[r.tail] = NULL
  <2>1. CASE k = n
    <3>1. q[n - 1] = p[k - 1] /\ r.tail = p[k - 1]
      BY <1>2, <1>4, <1>6, <1>8, <2>1
    <3> QED
      BY <1>1, <1>3, <1>4, <1>6, <2>1, <3>1
  <2>2. CASE k # n
    <3>1. n - 1 >= k /\ n - 1 \in 0 .. n - 1 /\ (n - 1) + 1 = n /\ n # k /\ n # k - 1
      BY <1>1, <1>2, <2>2
    <3>2. q[n - 1] = p[n] /\ r.tail = p[n]
      BY <1>1, <1>4, <1>6, <1>8, <2>2, <3>1
    <3>3. p[n] # x /\ p[n] # p[k - 1] /\ p[n] \in Node
      BY <1>1, <1>2, <1>13, <3>1
    <3> QED
      BY <1>1, <1>4, <3>2, <3>3
  <2> QED
    BY <2>1, <2>2
<1>17. ASSUME NEW y \in Object, \A i \in 1 .. n - 1 : q[i] # y
       PROVE  r.next[y] = NULL /\ r.prev[y] = NULL
  <2>1. y \in Node
    BY DEF Node
  <2>2. CASE y = x
    BY <1>1, <1>4, <2>1, <2>2
  <2>3. CASE y # x
    <3>1. ASSUME NEW i \in 1 .. n
          PROVE  p[i] # y
      <4>1. CASE i < k
        <5>1. i \in 1 .. n - 1
          BY <1>1, <1>2, <4>1
        <5> QED
          BY <1>8, <1>17, <4>1, <5>1
      <4>2. CASE i = k
        BY <1>7, <2>3, <4>2
      <4>3. CASE i > k
        <5>1. i - 1 \in 1 .. n - 1 /\ i - 1 >= k /\ (i - 1) + 1 = i /\ i - 1 \in 0 .. n - 1
          BY <1>1, <1>2, <4>3
        <5> QED
          BY <1>8, <1>17, <5>1
      <4> QED
        BY <1>1, <1>2, <4>1, <4>2, <4>3
    <3>2. l.next[y] = NULL /\ l.prev[y] = NULL
      BY <1>1, <3>1
    <3>3. y # p[k - 1]
      <4>1. k - 1 = 0 \/ k - 1 \in 1 .. n
        BY <1>1, <1>2
      <4> QED
        BY <1>1, <3>1, <4>1, NodesAssumption
    <3>4. l.next[x] = NULL \/ y # l.next[x]
      <4>1. k # n => k + 1 \in 1 .. n
        BY <1>1, <1>2
      <4> QED
        BY <1>3, <3>1, <4>1
    <3> QED
      BY <1>1, <1>4, <2>1, <2>3, <3>2, <3>3, <3>4
  <2> QED
    BY <2>2, <2>3
<1>18. r.number = n - 1 /\ 0 .. r.number - 1 = 0 .. n - 2
  BY <1>1, <1>4
<1>19. ChainOf(r, q)
  BY <1>9, <1>10, <1>11, <1>12, <1>14, <1>15, <1>16, <1>17, <1>18 DEF ChainOf
<1> QED
  BY <1>19 DEF r, q, x
-----------------------------------------------------------------------------
\* The order of the times

Ordered(l, p, t, d) ==
    \A i, j \in 1 .. l.number : i < j /\ p[i] \notin d => t[p[i]] <= t[p[j]]

\* The list l is a chain in the order of the times t, none of which lies after
\* time; d are the objects in it that keep a place older than their time.
Sound(l, t, d, time) ==
    /\ t \in [Object -> Nat] /\ time \in Nat
    /\ d \subseteq {x \in Object : IsQueued(l, x)}
    /\ \A x \in Object : t[x] <= time
    /\ \E p : ChainOf(l, p) /\ Ordered(l, p, t, d)

LEMMA SoundLater ==
    ASSUME NEW l, NEW t, NEW d, NEW time, Sound(l, t, d, time)
    PROVE  Sound(l, t, d, time + 1)
<1>1. t \in [Object -> Nat] /\ time \in Nat /\ \A x \in Object : t[x] <= time
  BY DEF Sound
<1>2. time + 1 \in Nat /\ \A x \in Object : t[x] <= time + 1
  BY <1>1
<1> QED
  BY <1>1, <1>2 DEF Sound

\* push(): a new object is the youngest and the last; one that is queued keeps
\* its place, and no longer tells how old those behind it are.
LEMMA SoundPush ==
    ASSUME NEW l, NEW t, NEW d, NEW time, Sound(l, t, d, time), NEW x \in Object
    PROVE  Sound(PushList(l, x), [t EXCEPT ![x] = time],
                 IF IsQueued(l, x) THEN d \cup {x} ELSE d, time)
<1> DEFINE u == [t EXCEPT ![x] = time]
<1>1. PICK p : ChainOf(l, p) /\ Ordered(l, p, t, d)
  BY DEF Sound
<1>2. /\ t \in [Object -> Nat] /\ time \in Nat /\ d \subseteq {y \in Object : IsQueued(l, y)}
      /\ \A y \in Object : t[y] <= time
  BY DEF Sound
<1>3. /\ u \in [Object -> Nat] /\ u[x] = time
      /\ \A y \in Object : u[y] <= time /\ (y # x => u[y] = t[y])
  BY <1>2
<1>4. l.number \in Nat /\ \A i \in 1 .. l.number : p[i] \in Object
  BY <1>1 DEF ChainOf, ListRecord
<1> HIDE DEF u
<1>5. CASE IsQueued(l, x)
  <2>1. PushList(l, x) = l
    BY <1>5 DEF PushList
  <2>2. Ordered(l, p, u, d \cup {x})
    <3> SUFFICES ASSUME NEW i \in 1 .. l.number, NEW j \in 1 .. l.number, i < j,
                        p[i] \notin d \cup {x}
                 PROVE  u[p[i]] <= u[p[j]]
      BY DEF Ordered
    <3>1. p[i] \in Object /\ p[j] \in Object /\ p[i] # x /\ t[p[i]] <= t[p[j]]
      BY <1>1, <1>4 DEF Ordered
    <3> QED
      BY <1>2, <1>3, <3>1
  <2> QED
    BY <1>1, <1>2, <1>3, <1>5, <2>1, <2>2 DEF Sound, u
<1>6. CASE ~IsQueued(l, x)
  <2> DEFINE r == PushList(l, x)
             q == Longer(p, l.number, x)
  <2>1. ChainOf(r, q)
    BY <1>1, <1>6, PushLengthens
  <2>2. /\ r.number = l.number + 1 /\ q[l.number + 1] = x
        /\ \A i \in 1 .. l.number : q[i] = p[i] /\ p[i] # x
    <3>1. \A i \in 1 .. l.number : p[i] # x
      BY <1>1, <1>6, QueuedInChain
    <3> QED
      BY <1>4, <1>6, <3>1 DEF PushList, Longer
  <2>3. d \subseteq {y \in Object : IsQueued(r, y)}
    <3>1. r.prev = [l.prev EXCEPT ![x] = l.tail] /\ x \notin d
      BY <1>2, <1>6 DEF PushList
    <3> QED
      BY <1>1, <1>2, <3>1 DEF IsQueued, ChainOf, ListRecord, Node
  <2>4. Ordered(r, q, u, d)
    <3> SUFFICES ASSUME NEW i \in 1 .. r.number, NEW j \in 1 .. r.number, i < j, q[i] \notin d
                 PROVE  u[q[i]] <= u[q[j]]
      BY DEF Ordered
    <3>1. i \in 1 .. l.number /\ (j = l.number + 1 \/ j \in 1 .. l.number)
      BY <1>4, <2>2
    <3>2. p[i] \in Object /\ q[i] = p[i] /\ p[i] # x
      BY <1>4, <2>2, <3>1
    <3>3. CASE j = l.number + 1
      BY <1>3, <2>2, <3>2, <3>3
    <3>4. CASE j \in 1 .. l.number
      <4>1. t[p[i]] <= t[p[j]] /\ q[j] = p[j] /\ p[j] # x /\ p[j] \in Object
        BY <1>1, <1>4, <2>2, <3>1, <3>2, <3>4 DEF Ordered
      <4> QED
        BY <1>3, <3>2, <4>1
    <3> QED
      BY <3>1, <3>3, <3>4
  <2> HIDE DEF r, q
  <2>5. Sound(r, u, d, time)
    BY <1>2, <1>3, <2>1, <2>3, <2>4 DEF Sound
  <2> QED
    BY <1>6, <2>5 DEF r, u
<1> QED
  BY <1>5, <1>6

\* remove(): whatever time the object has afterwards, the others keep their order.
LEMMA SoundRemove ==
    ASSUME NEW l, NEW t, NEW d, NEW time, Sound(l, t, d, time), NEW x \in Object,
           NEW u \in [Object -> Nat], u[x] <= time, \A y \in Object : y # x => u[y] = t[y]
    PROVE  /\ Sound(RemoveList(l, x), u, d \ {x}, time)
           /\ ~IsQueued(RemoveList(l, x), x)
<1>1. PICK p : ChainOf(l, p) /\ Ordered(l, p, t, d)
  BY DEF Sound
<1>2. /\ t \in [Object -> Nat] /\ time \in Nat /\ d \subseteq {y \in Object : IsQueued(l, y)}
      /\ \A y \in Object : t[y] <= time
  BY DEF Sound
<1>3. \A y \in Object : u[y] <= time
  BY <1>2
<1>4. l.number \in Nat /\ \A i \in 1 .. l.number : p[i] \in Object
  BY <1>1 DEF ChainOf, ListRecord
<1>5. CASE ~IsQueued(l, x)
  <2>1. RemoveList(l, x) = l /\ d \ {x} = d
    BY <1>2, <1>5 DEF RemoveList
  <2>2. \A i \in 1 .. l.number : p[i] # x
    BY <1>1, <1>5, QueuedInChain
  <2>3. Ordered(l, p, u, d)
    BY <1>1, <1>4, <2>2 DEF Ordered
  <2> QED
    BY <1>1, <1>2, <1>3, <1>5, <2>1, <2>3 DEF Sound
<1>6. CASE IsQueued(l, x)
  <2>1. PICK k \in 1 .. l.number : p[k] = x
    BY <1>1, <1>6, QueuedInChain
  <2> DEFINE r == RemoveList(l, x)
             q == Shorter(p, l.number, k)
  <2>2. ChainOf(r, q)
    BY <1>1, <2>1, RemoveShortens
  <2>3. r.number = l.number - 1
    BY <1>6 DEF RemoveList
  <2>4. ~IsQueued(r, x) /\ \A y \in Object : y # x /\ IsQueued(l, y) => IsQueued(r, y)
    <3>1. l.prev \in [Node -> Node \cup {NULL}] /\ x \in Node /\ l.prev[x] # NULL
      BY <1>1, <1>6 DEF ChainOf, ListRecord, Node, IsQueued
    <3>2. r.prev = IF l.next[x] = NULL THEN [l.prev EXCEPT ![x] = NULL]
                   ELSE [l.prev EXCEPT ![l.next[x]] = l.prev[x], ![x] = NULL]
      BY <1>6 DEF RemoveList
    <3> HIDE DEF r
    <3>3. r.prev[x] = NULL
      BY <3>1, <3>2
    <3>4. ASSUME NEW y \in Object, y # x, l.prev[y] # NULL
          PROVE  r.prev[y] # NULL
      <4>1. y \in Node
        BY DEF Node
      <4> QED
        BY <3>1, <3>2, <3>4, <4>1
    <3> QED
      BY <3>3, <3>4 DEF IsQueued
  <2>5. ASSUME NEW i \in 1 .. r.number
        PROVE  \E m \in 1 .. l.number : /\ q[i] = p[m] /\ m # k
                                        /\ m = IF i < k THEN i ELSE i + 1
    <3>1. i \in 0 .. l.number - 1 /\ i \in 1 .. l.number /\ i + 1 \in 1 .. l.number
          /\ k \in Int /\ i \in Int
      BY <1>4, <2>3
    <3>2. q[i] = IF i < k THEN p[i] ELSE p[i + 1]
      BY <3>1 DEF Shorter
    <3> HIDE DEF q
    <3>3. CASE i < k
      BY <3>1, <3>2, <3>3
    <3>4. CASE ~(i < k)
      <4>1. i + 1 # k
        BY <3>1, <3>4
      <4> QED
        BY <3>1, <3>2, <3>4, <4>1
    <3> QED
      BY <3>3, <3>4
  <2> HIDE DEF r, q
  <2>6. Ordered(r, q, u, d \ {x})
    <3> SUFFICES ASSUME NEW i \in 1 .. r.number, NEW j \in 1 .. r.number, i < j,
                        q[i] \notin d \ {x}
                 PROVE  u[q[i]] <= u[q[j]]
      BY DEF Ordered
    <3>1. PICK a \in 1 .. l.number : q[i] = p[a] /\ a # k /\ a = IF i < k THEN i ELSE i + 1
      BY <2>5
    <3>2. PICK b \in 1 .. l.number : q[j] = p[b] /\ b # k /\ b = IF j < k THEN j ELSE j + 1
      BY <2>5
    <3>3. a < b
      BY <1>4, <2>3, <3>1, <3>2
    <3>4. p[a] # x /\ p[b] # x /\ p[a] \in Object /\ p[b] \in Object
      <4>1. \A m \in 1 .. l.number : m # k => p[m] # p[k]
        BY <1>1, <1>4, <2>1 DEF ChainOf
      <4> QED
        BY <1>4, <2>1, <3>1, <3>2, <4>1
    <3>5. t[p[a]] <= t[p[b]]
      BY <1>1, <3>1, <3>3, <3>4 DEF Ordered
    <3> QED
      BY <3>1, <3>2, <3>4, <3>5
  <2>7. Sound(r, u, d \ {x}, time)
    BY <1>2, <1>3, <2>2, <2>4, <2>6 DEF Sound
  <2> QED
    BY <2>4, <2>7 DEF r
<1> QED
  BY <1>5, <1>6

\* The front of a list that is not empty is the first object of its chain.
LEMMA FrontIsFirst ==
    ASSUME NEW l, NEW p, ChainOf(l, p)
    PROVE  /\ l.number # 0 <=> FrontOf(l) # NULL
           /\ l.number # 0 => FrontOf(l) = p[1] /\ FrontOf(l) \in Object
<1>1. l.number \in Nat /\ p[0] = HeadNode /\ l.tail = p[l.number] /\ l.next[l.tail] = NULL
  BY DEF ChainOf, ListRecord
<1>2. CASE l.number = 0
  BY <1>1, <1>2 DEF FrontOf
<1>3. CASE l.number # 0
  <2>1. 0 \in 0 .. l.number - 1 /\ 1 \in 1 .. l.number
    BY <1>1, <1>3
  <2>2. l.next[p[0]] = p[0 + 1] /\ p[1] \in Object
    BY <2>1 DEF ChainOf
  <2> QED
    BY <1>1, <1>3, <2>2, NodesAssumption DEF FrontOf
<1> QED
  BY <1>2, <1>3
-----------------------------------------------------------------------------
\* The manager

MgrInv == ManagerTypeOK /\ Sound(list, timestamp, displaced, now)

LEMMA MgrInitHolds == ManagerInit => MgrInv
<1> SUFFICES ASSUME ManagerInit PROVE MgrInv
  OBVIOUS
<1>1. ManagerTypeOK
  <2>1. /\ timestamp = [x \in Object |-> 0] /\ timeoutSeconds = 0 /\ now = 1
        /\ checkTime = -1 /\ calling = FALSE /\ displaced = {}
    BY DEF ManagerInit
  <2>2. 0 \in 0 .. MaxTime /\ 1 \in 1 .. MaxTime /\ -1 \in -1 .. MaxTime
    BY TimeAssumption
  <2> QED
    BY <2>1, <2>2 DEF ManagerTypeOK
<1>2. Sound(list, timestamp, displaced, now)
  <2> DEFINE p == [i \in 0 .. 0 |-> HeadNode]
  <2>1. ChainOf(list, p) /\ list.number = 0
    BY NewListChain DEF ManagerInit, NewList
  <2> HIDE DEF p
  <2>2. Ordered(list, p, timestamp, displaced)
    BY <2>1 DEF Ordered
  <2> QED
    BY <2>1, <2>2 DEF ManagerInit, Sound
<1> QED
  BY <1>1, <1>2 DEF MgrInv

\* The facts of ManagerTypeOK about a clock value given to an object.
LEMMA Stamped ==
    ASSUME ManagerTypeOK, NEW x \in Object, NEW v \in 0 .. MaxTime
    PROVE  /\ [timestamp EXCEPT ![x] = v] \in [Object -> 0 .. MaxTime]
           /\ [timestamp EXCEPT ![x] = v] \in [Object -> Nat]
           /\ \A y \in Object : y # x => [timestamp EXCEPT ![x] = v][y] = timestamp[y]
           /\ [timestamp EXCEPT ![x] = v][x] = v
BY TimeAssumption DEF ManagerTypeOK

LEMMA ClockInRange ==
    ASSUME ManagerTypeOK
    PROVE  now \in 0 .. MaxTime /\ 0 \in 0 .. MaxTime
BY TimeAssumption DEF ManagerTypeOK

\* What every step of the owner leaves of the types if it changes the list, the
\* times and displaced only.
LEMMA TypesKept ==
    ASSUME ManagerTypeOK, UNCHANGED <<timeoutSeconds, now, checkTime, calling>>,
           timestamp' \in [Object -> 0 .. MaxTime], displaced' \subseteq Object
    PROVE  ManagerTypeOK'
BY DEF ManagerTypeOK

LEMMA PushKeeps ==
    ASSUME MgrInv, NEW x \in Object, Push(x)
    PROVE  MgrInv'
<1>1. /\ timestamp' = [timestamp EXCEPT ![x] = now] /\ list' = PushList(list, x)
      /\ displaced' = IF IsQueued(list, x) THEN displaced \cup {x} ELSE displaced
      /\ UNCHANGED <<timeoutSeconds, now, checkTime, calling>>
  BY DEF Push
<1>2. ManagerTypeOK'
  <2>1. timestamp' \in [Object -> 0 .. MaxTime]
    BY <1>1, ClockInRange, Stamped DEF MgrInv
  <2>2. displaced' \subseteq Object
    BY <1>1 DEF MgrInv, ManagerTypeOK
  <2> QED
    BY <1>1, <2>1, <2>2, TypesKept DEF MgrInv
<1>3. Sound(list', timestamp', displaced', now)
  BY <1>1, SoundPush DEF MgrInv
<1>4. Sound(list', timestamp', displaced', now')
  BY <1>1, <1>3
<1> QED
  BY <1>2, <1>4 DEF MgrInv

\* An object leaves the list, and its time is what it was or zero.
LEMMA LeaveKeeps ==
    ASSUME MgrInv, NEW x \in Object, list' = RemoveList(list, x),
           displaced' = displaced \ {x}, now' = now,
           timestamp' = timestamp \/ timestamp' = [timestamp EXCEPT ![x] = 0]
    PROVE  Sound(list', timestamp', displaced', now') /\ displaced' \subseteq Object
           /\ timestamp' \in [Object -> 0 .. MaxTime]
<1>1. /\ timestamp' \in [Object -> 0 .. MaxTime] /\ timestamp' \in [Object -> Nat]
      /\ timestamp'[x] <= now /\ \A y \in Object : y # x => timestamp'[y] = timestamp[y]
  <2>1. CASE timestamp' = timestamp
    BY <2>1 DEF MgrInv, ManagerTypeOK, Sound
  <2>2. CASE timestamp' = [timestamp EXCEPT ![x] = 0]
    <3>1. 0 <= now
      BY DEF MgrInv, Sound
    <3> QED
      BY <2>2, <3>1, ClockInRange, Stamped DEF MgrInv
  <2> QED
    BY <2>1, <2>2
<1>2. Sound(list, timestamp, displaced, now) /\ displaced \subseteq Object
  BY DEF MgrInv, ManagerTypeOK
<1>3. Sound(RemoveList(list, x), timestamp', displaced \ {x}, now)
  BY <1>1, <1>2, SoundRemove
<1> QED
  BY <1>1, <1>2, <1>3

LEMMA UpdateKeeps ==
    ASSUME MgrInv, NEW x \in Object, Update(x)
    PROVE  MgrInv'
<1>1. /\ timestamp' = [timestamp EXCEPT ![x] = now]
      /\ list' = PushList(RemoveList(list, x), x) /\ displaced' = displaced \ {x}
      /\ UNCHANGED <<timeoutSeconds, now, checkTime, calling>>
  BY DEF Update
<1>2. ManagerTypeOK'
  <2>1. timestamp' \in [Object -> 0 .. MaxTime]
    BY <1>1, ClockInRange, Stamped DEF MgrInv
  <2>2. displaced' \subseteq Object
    BY <1>1 DEF MgrInv, ManagerTypeOK
  <2> QED
    BY <1>1, <2>1, <2>2, TypesKept DEF MgrInv
<1>3. Sound(RemoveList(list, x), timestamp, displaced \ {x}, now)
      /\ ~IsQueued(RemoveList(list, x), x)
  <2>1. timestamp \in [Object -> Nat] /\ timestamp[x] <= now
    BY DEF MgrInv, Sound
  <2> QED
    BY <2>1, SoundRemove DEF MgrInv
<1>4. Sound(list', timestamp', displaced', now)
  BY <1>1, <1>3, SoundPush
<1>5. Sound(list', timestamp', displaced', now')
  BY <1>1, <1>4
<1> QED
  BY <1>2, <1>5 DEF MgrInv

\* The front is an object when the list is not empty.
LEMMA FrontIsObject ==
    ASSUME MgrInv
    PROVE  /\ list.number # 0 <=> FrontOf(list) # NULL
           /\ FrontOf(list) # NULL => FrontOf(list) \in Object
BY FrontIsFirst DEF MgrInv, Sound

LEMMA MgrInductive == MgrInv /\ [ManagerNext]_managerVars => MgrInv'
<1> SUFFICES ASSUME MgrInv, [ManagerNext]_managerVars PROVE MgrInv'
  OBVIOUS
<1> USE DEF MgrInv
<1>1. CASE Tick
  <2>1. Sound(list, timestamp, displaced, now + 1)
    BY SoundLater
  <2>2. UNCHANGED <<list, timestamp, timeoutSeconds, checkTime, calling, displaced>>
        /\ now' = now + 1 /\ now < MaxTime
    BY <1>1 DEF Tick
  <2>3. ManagerTypeOK'
    BY <2>2, TimeAssumption DEF ManagerTypeOK
  <2> QED
    BY <2>1, <2>2, <2>3
<1>2. ASSUME NEW s \in TimeoutChoices, SetTimeoutSeconds(s)
      PROVE  MgrInv'
  BY <1>2 DEF SetTimeoutSeconds, ManagerTypeOK
<1>3. ASSUME NEW x \in Object, Push(x)
      PROVE  MgrInv'
  BY <1>3, PushKeeps
<1>4. ASSUME NEW x \in Object, Remove(x)
      PROVE  MgrInv'
  BY <1>4, LeaveKeeps, TypesKept DEF Remove
<1>5. ASSUME NEW x \in Object, Update(x)
      PROVE  MgrInv'
  BY <1>5, UpdateKeeps
<1>6. CASE PopFrontTimed
  <2>1. FrontOf(list) \in Object
    BY <1>6, FrontIsObject DEF PopFrontTimed
  <2> QED
    BY <1>6, <2>1, LeaveKeeps, TypesKept DEF PopFrontTimed
<1>7. ASSUME NEW time \in {now - 1, now}, CheckTimeout(time)
      PROVE  MgrInv'
  <2>1. UNCHANGED <<list, timestamp, timeoutSeconds, now, calling, displaced>>
        /\ checkTime = -1 /\ checkTime' = time
    BY <1>7 DEF CheckTimeout
  <2>2. time \in -1 .. MaxTime /\ time # -1
    BY TimeAssumption DEF ManagerTypeOK
  <2>3. ManagerTypeOK'
    BY <2>1, <2>2 DEF ManagerTypeOK
  <2> QED
    BY <2>1, <2>3
<1>8. CASE TakesFront
  <2>1. FrontOf(list) \in Object
    BY <1>8, FrontIsObject DEF TakesFront
  <2>2. Sound(list', timestamp', displaced', now') /\ displaced' \subseteq Object
    BY <1>8, <2>1, LeaveKeeps DEF TakesFront
  <2>3. ManagerTypeOK'
    BY <1>8, <2>2 DEF TakesFront, ManagerTypeOK
  <2> QED
    BY <2>2, <2>3
<1>9. CASE HandlerReturns
  BY <1>9 DEF HandlerReturns, ManagerTypeOK
<1>10. CASE CheckEnds
  BY <1>10, TimeAssumption DEF CheckEnds, ManagerTypeOK
<1>11. CASE UNCHANGED managerVars
  BY <1>11 DEF managerVars, ManagerTypeOK
<1> QED
  BY <1>1, <1>2, <1>3, <1>4, <1>5, <1>6, <1>7, <1>8, <1>9, <1>10, <1>11
     DEF ManagerNext, Owner, Check

LEMMA ManagerSteps == [Next]_vars => [ManagerNext]_managerVars
BY DEF Next, vars, Manager, Memory, Pooled, managerVars

LEMMA Invariance == Spec => []MgrInv
<1>1. Init => MgrInv
  BY MgrInitHolds DEF Init
<1>2. MgrInv /\ [Next]_vars => MgrInv'
  BY ManagerSteps, MgrInductive
<1> QED
  BY <1>1, <1>2, PTL DEF Spec

\* Whatever callbacks do to the list that is walked, its links, its tail and its
\* number describe one sequence, in the order of the objects' times
\* (list_queue.h:67-116, timeout_manager.h:42-128).
THEOREM InOrder == Spec => []ListInOrder
<1>1. MgrInv => ListInOrder
  <2> SUFFICES ASSUME MgrInv PROVE ListInOrder
    OBVIOUS
  <2>1. PICK p : ChainOf(list, p) /\ Ordered(list, p, timestamp, displaced)
    BY DEF MgrInv, Sound
  <2>2. LinksAgree(list) /\ Walk(list) = [i \in 1 .. list.number |-> p[i]]
    BY <2>1, ChainAgrees, WalkAlongChain
  <2> DEFINE w == Walk(list)
  <2>3. DOMAIN w = 1 .. list.number /\ \A i \in 1 .. list.number : w[i] = p[i]
    BY <2>2
  <2> HIDE DEF w
  <2>4. \A i, j \in DOMAIN w :
           i < j /\ w[i] \notin displaced => timestamp[w[i]] <= timestamp[w[j]]
    BY <2>1, <2>3 DEF Ordered
  <2> QED
    BY <2>2, <2>4 DEF ListInOrder, MgrInv, Sound, w
<1> QED
  BY <1>1, Invariance, PTL

\* check_timeout() looks at the front only, and still leaves nothing behind that
\* is over, unless it stands behind an object that was pushed again in its place
\* (timeout_manager.h:83,117-139).
THEOREM NothingLeftBehind == Spec => NothingOverdue
<1>1. MgrInv /\ [Next]_vars =>
        [CheckEnds =>
           LET w == Walk(list)
           IN  \A j \in DOMAIN w : IsTimeout(w[j], checkTime) =>
                   \E i \in 1 .. j - 1 : w[i] \in displaced]_managerVars
  <2> DEFINE w == Walk(list)
  <2> SUFFICES ASSUME MgrInv, CheckEnds, NEW j \in DOMAIN w, IsTimeout(w[j], checkTime)
               PROVE  \E i \in 1 .. j - 1 : w[i] \in displaced
    OBVIOUS
  <2>1. PICK p : ChainOf(list, p) /\ Ordered(list, p, timestamp, displaced)
    BY DEF MgrInv, Sound
  <2>2. DOMAIN w = 1 .. list.number /\ \A i \in 1 .. list.number : w[i] = p[i]
    <3>1. w = [i \in 1 .. list.number |-> p[i]]
      BY <2>1, WalkAlongChain
    <3> HIDE DEF w
    <3> QED
      BY <3>1
  <2> HIDE DEF w
  <2>3. /\ list.number \in Nat /\ 1 \in 1 .. list.number /\ list.number # 0
        /\ \A i \in 1 .. list.number : p[i] \in Object
    BY <2>1, <2>2 DEF ChainOf, ListRecord
  <2>4. FrontOf(list) = p[1] /\ FrontOf(list) # NULL /\ ~IsTimeout(p[1], checkTime)
    BY <2>1, <2>3, FrontIsFirst DEF CheckEnds
  <2>5. j # 1
    BY <2>2, <2>4
  <2>6. 1 \in 1 .. j - 1 /\ 1 < j
    BY <2>2, <2>3, <2>5
  <2>7. CASE p[1] \in displaced
    BY <2>2, <2>3, <2>6, <2>7
  <2>8. CASE p[1] \notin displaced
    <3>1. timestamp[p[1]] <= timestamp[p[j]]
      BY <2>1, <2>2, <2>3, <2>6, <2>8 DEF Ordered
    <3>2. /\ timestamp[p[1]] \in Nat /\ timestamp[p[j]] \in Nat
          /\ timeoutSeconds \in Nat /\ checkTime \in Int
      BY <2>2, <2>3, TimeAssumption DEF MgrInv, ManagerTypeOK
    <3>3. timestamp[p[j]] + timeoutSeconds < checkTime
      BY <2>2 DEF IsTimeout
    <3> QED
      BY <2>4, <3>1, <3>2, <3>3 DEF IsTimeout
  <2> QED
    BY <2>7, <2>8
<1> QED
  BY <1>1, Invariance, PTL DEF Spec, NothingOverdue
-----------------------------------------------------------------------------
\* As many values as places, if no two places hold the same.
LEMMA DistinctValues ==
    ASSUME NEW n \in Nat, NEW f, NEW T, T = {f[i] : i \in 0 .. n - 1},
           \A i, j \in 0 .. n - 1 : f[i] = f[j] => i = j
    PROVE  IsFiniteSet(T) /\ Cardinality(T) = n
<1> DEFINE S == 0 .. n - 1
           g == [i \in S |-> f[i]]
<1>1. IsFiniteSet(S) /\ Cardinality(S) = n
  BY FS_Interval
<1>2. g \in Surjection(S, T)
  BY DEF Surjection
<1>3. g \in Injection(S, T)
  BY DEF Injection, IsInjective
<1> QED
  BY <1>1, <1>2, <1>3, FS_Surjection
-----------------------------------------------------------------------------
\* Addresses and buckets

\* The number of a bucket from its address and back.
LEMMA BucketIndex ==
    ASSUME NEW i \in Nat
    PROVE  /\ BucketSize * i \in Nat
           /\ (BucketSize * i) \div BucketSize = i
           /\ (BucketSize * i) % BucketSize = 0
<1> DEFINE x == BucketSize * i
           q == x \div BucketSize
           r == x % BucketSize
<1>1. BucketSize \in Nat \ {0}
  BY BucketsAssumption
<1>2. x \in Nat
  BY <1>1
<1>3. q \in Int /\ r \in 0 .. BucketSize - 1 /\ x = BucketSize * q + r
  <2> HIDE DEF x
  <2> QED
    BY <1>1, <1>2
<1>4. r = BucketSize * (i - q)
  <2> HIDE DEF q, r
  <2> QED
    BY <1>1, <1>3
<1>5. i - q = 0
  <2> DEFINE d == i - q
  <2>1. d \in Int /\ r = BucketSize * d /\ 0 <= r /\ r < BucketSize
    <3> HIDE DEF q, r
    <3> QED
      BY <1>1, <1>3, <1>4
  <2>2. ~(d >= 1)
    <3> HIDE DEF d, r
    <3> QED
      BY <1>1, <2>1
  <2>3. ~(d <= -1)
    <3> HIDE DEF d, r
    <3> QED
      BY <1>1, <2>1
  <2> HIDE DEF d
  <2>4. d = 0
    BY <2>1, <2>2, <2>3
  <2> QED
    BY <2>4 DEF d
<1>6. q = i /\ r = 0
  <2> HIDE DEF q, r
  <2> QED
    BY <1>1, <1>3, <1>4, <1>5
<1> QED
  BY <1>2, <1>6

\* An aligned address up to the last bucket's is the address of a bucket.
LEMMA AlignedIsBucket ==
    ASSUME NEW ptr \in Int, NEW n \in Nat \ {0}, 0 <= ptr, ptr <= BucketSize * (n - 1),
           ptr % BucketSize = 0
    PROVE  \E i \in 0 .. n - 1 : ptr = BucketSize * i
<1> DEFINE q == ptr \div BucketSize
<1>1. BucketSize \in Nat \ {0}
  BY BucketsAssumption
<1>2. q \in Int /\ ptr = BucketSize * q
  BY <1>1
<1> HIDE DEF q
<1>3. ~(q <= -1)
  BY <1>1, <1>2
<1>4. ~(q >= n)
  BY <1>1, <1>2
<1> QED
  BY <1>2, <1>3, <1>4

\* The buckets of a pool of n are n different addresses, none of them the heap's.
LEMMA BucketsApart ==
    ASSUME NEW n \in 0 .. MaxBuckets, NEW i \in 0 .. n - 1
    PROVE  /\ BucketSize * i \in Address /\ BucketSize * i \notin Heap
           /\ 0 <= BucketSize * i /\ BucketSize * i <= BucketSize * (n - 1)
           /\ \A j \in 0 .. n - 1 : BucketSize * i = BucketSize * j => i = j
<1>1. BucketSize \in Nat \ {0} /\ MaxBuckets \in Nat \ {0} /\ MaxHeap \in Nat
      /\ i \in Nat /\ n \in Nat /\ i <= n - 1 /\ n <= MaxBuckets
  BY BucketsAssumption
<1>2. 0 <= BucketSize * i /\ BucketSize * i <= BucketSize * (n - 1)
  BY <1>1
<1>3. BucketSize * i < MaxBuckets * BucketSize
  BY <1>1
<1>4. \A j \in 0 .. n - 1 : BucketSize * i = BucketSize * j => i = j
  BY <1>1, BucketIndex
<1>5. BucketSize * i \in Nat /\ MaxBuckets * BucketSize \in Nat
  BY <1>1
<1> QED
  BY <1>1, <1>2, <1>3, <1>4, <1>5 DEF Address, Heap, PoolEnd

LEMMA BitInRange ==
    ASSUME NEW n \in Nat, NEW i \in 0 .. n - 1
    PROVE  i \in Bits(n)
BY DEF Bits
-----------------------------------------------------------------------------
\* The memory pool

MemTypes ==
    /\ useHeap \in BOOLEAN
    /\ bucketNumber \in 0 .. MaxBuckets
    /\ stackTopIndex \in 0 .. bucketNumber
    /\ availableNumber = stackTopIndex
    /\ bucketNumber # 0 =>
          /\ stackTop = BucketSize * (bucketNumber - 1)
          /\ bucketStack \in [0 .. bucketNumber - 1 -> Buckets]
          /\ bucketBitmap \in [Bits(bucketNumber) -> {0, 1}]
    /\ memOut \subseteq Buckets \cup Heap /\ memGiven \subseteq Buckets
    /\ bucketNumber = 0 => memOut = {} /\ ~useHeap

\* A bucket is on the stack once, or it is out.
StackHoldsFree ==
    /\ \A i, j \in 0 .. stackTopIndex - 1 : bucketStack[i] = bucketStack[j] => i = j
    /\ FreeBuckets = Buckets \ memOut

\* The bitmap knows of every bucket that was given out once whether it is out;
\* what it says of the others does not matter, as nobody gives them back.
BitmapKnows ==
    /\ memOut \cap Buckets \subseteq memGiven
    /\ \A b \in memOut \cap Buckets : bucketBitmap[b \div BucketSize] = 1
    /\ \A b \in FreeBuckets \cap memGiven : bucketBitmap[b \div BucketSize] = 0

MemInv == MemTypes /\ StackHoldsFree /\ BitmapKnows

LEMMA MemInitHolds == MemInit => MemInv
<1> SUFFICES ASSUME MemInit PROVE MemInv
  OBVIOUS
<1>1. Buckets = {} /\ FreeBuckets = {}
  BY DEF MemInit, Buckets, FreeBuckets
<1>2. MemTypes
  <2>1. bucketNumber \in 0 .. MaxBuckets /\ stackTopIndex \in 0 .. bucketNumber
    BY BucketsAssumption DEF MemInit
  <2>2. bucketNumber = 0 /\ availableNumber = stackTopIndex /\ useHeap = FALSE
        /\ memOut = {} /\ memGiven = {} /\ memDeleted = {}
    BY DEF MemInit
  <2> QED
    BY <2>1, <2>2 DEF MemTypes
<1>3. StackHoldsFree /\ BitmapKnows
  BY <1>1 DEF MemInit, StackHoldsFree, BitmapKnows
<1> QED
  BY <1>2, <1>3 DEF MemInv

\* A bucket, its number and its bit.
LEMMA BucketFacts ==
    ASSUME bucketNumber \in 0 .. MaxBuckets, NEW b \in Buckets
    PROVE  /\ b \div BucketSize \in 0 .. bucketNumber - 1
           /\ b = BucketSize * (b \div BucketSize) /\ b % BucketSize = 0
           /\ b \div BucketSize \in Bits(bucketNumber)
           /\ b \in Address /\ b \notin Heap
           /\ bucketNumber # 0 /\ 0 <= b /\ b <= BucketSize * (bucketNumber - 1)
<1>1. PICK i \in 0 .. bucketNumber - 1 : b = BucketSize * i
  BY DEF Buckets
<1>2. i \in Nat /\ bucketNumber \in Nat /\ bucketNumber # 0
  BY BucketsAssumption
<1>3. b \div BucketSize = i /\ b % BucketSize = 0
  BY <1>1, <1>2, BucketIndex
<1>4. i \in Bits(bucketNumber)
  BY <1>2, BitInRange
<1>5. /\ b \in Address /\ b \notin Heap
      /\ 0 <= b /\ b <= BucketSize * (bucketNumber - 1)
  BY <1>1, BucketsApart
<1> QED
  BY <1>1, <1>2, <1>3, <1>4, <1>5

\* An address inside the pool and aligned is a bucket's, and no other is.
LEMMA InPoolIsBucket ==
    ASSUME MemInv, bucketNumber # 0, NEW ptr \in Address
    PROVE  InPool(ptr) /\ ptr % BucketSize = 0 <=> ptr \in Buckets
<1>1. /\ bucketNumber \in 0 .. MaxBuckets /\ stackTop = BucketSize * (bucketNumber - 1)
      /\ bucketNumber \in Nat \ {0} /\ ptr \in Int
  BY BucketsAssumption DEF MemInv, MemTypes, Address, PoolEnd
<1>2. ptr \in Buckets => InPool(ptr) /\ ptr % BucketSize = 0
  BY <1>1, BucketFacts DEF InPool
<1>3. InPool(ptr) /\ ptr % BucketSize = 0 => ptr \in Buckets
  BY <1>1, AlignedIsBucket DEF InPool, Buckets
<1> QED
  BY <1>2, <1>3

\* The stack is as high as there are free buckets.
LEMMA FreeCounted ==
    ASSUME MemInv
    PROVE  /\ IsFiniteSet(Buckets) /\ Cardinality(Buckets) = bucketNumber
           /\ FreeBuckets \subseteq Buckets /\ Cardinality(FreeBuckets) = stackTopIndex
<1>1. /\ bucketNumber \in 0 .. MaxBuckets /\ bucketNumber \in Nat /\ stackTopIndex \in Nat
      /\ FreeBuckets \subseteq Buckets
  BY BucketsAssumption DEF MemInv, MemTypes, StackHoldsFree
<1>2. IsFiniteSet(Buckets) /\ Cardinality(Buckets) = bucketNumber
  <2> DEFINE f == [i \in 0 .. bucketNumber - 1 |-> BucketSize * i]
  <2>1. \A i, j \in 0 .. bucketNumber - 1 : f[i] = f[j] => i = j
    BY <1>1, BucketsApart
  <2>2. Buckets = {f[i] : i \in 0 .. bucketNumber - 1}
    BY DEF Buckets
  <2> HIDE DEF f
  <2> QED
    BY <1>1, <2>1, <2>2, DistinctValues
<1>3. Cardinality(FreeBuckets) = stackTopIndex
  <2>1. \A i, j \in 0 .. stackTopIndex - 1 : bucketStack[i] = bucketStack[j] => i = j
    BY DEF MemInv, StackHoldsFree
  <2>2. FreeBuckets = {bucketStack[i] : i \in 0 .. stackTopIndex - 1}
    BY DEF FreeBuckets
  <2> QED
    BY <1>1, <2>1, <2>2, DistinctValues
<1> QED
  BY <1>1, <1>2, <1>3

\* create(), also over a pool whose buckets have all come back.
LEMMA CreateMemKeeps ==
    ASSUME MemInv, NEW number \in 1 .. MaxBuckets, NEW heap \in BOOLEAN,
           CreateMem(number, heap)
    PROVE  MemInv' /\ FreeBuckets' = Buckets' /\ Buckets' # {}
<1> USE DEF CreateMem
<1>1. number \in Nat \ {0} /\ number \in 0 .. MaxBuckets /\ MaxBuckets \in Nat
  BY BucketsAssumption
<1>2. /\ Buckets' = {BucketSize * i : i \in 0 .. number - 1}
      /\ FreeBuckets' = Buckets' /\ Buckets' # {}
  <2>1. Buckets' = {BucketSize * i : i \in 0 .. number - 1}
    BY DEF Buckets
  <2>2. FreeBuckets' = {bucketStack'[i] : i \in 0 .. number - 1}
    BY DEF FreeBuckets
  <2>3. \A i \in 0 .. number - 1 : bucketStack'[i] = BucketSize * i
    OBVIOUS
  <2>4. FreeBuckets' = Buckets'
    BY <2>1, <2>2, <2>3
  <2>5. BucketSize * 0 \in Buckets'
    BY <1>1, <2>1
  <2> QED
    BY <2>1, <2>4, <2>5
<1>3. bucketBitmap' \in [Bits(number) -> {0, 1}]
  OBVIOUS
<1>4. bucketStack' \in [0 .. number - 1 -> Buckets']
  BY <1>2
<1>5. MemTypes'
  BY <1>1, <1>3, <1>4 DEF MemTypes
<1>6. StackHoldsFree'
  <2>1. \A i, j \in 0 .. number - 1 : bucketStack'[i] = bucketStack'[j] => i = j
    BY <1>1, BucketsApart
  <2> QED
    BY <1>2, <2>1 DEF StackHoldsFree
<1>7. BitmapKnows'
  BY DEF BitmapKnows
<1> QED
  BY <1>2, <1>5, <1>6, <1>7 DEF MemInv

LEMMA DestroyMemKeeps ==
    ASSUME MemInv, DestroyMem
    PROVE  MemInv' /\ Buckets' = {} /\ FreeBuckets' = {}
<1>1. Buckets' = {} /\ FreeBuckets' = {}
  BY DEF DestroyMem, Buckets, FreeBuckets
<1> QED
  BY <1>1, BucketsAssumption
     DEF DestroyMem, MemInv, MemTypes, StackHoldsFree, BitmapKnows

\* The bucket on top of the stack is lent, and no other leaves it.
LEMMA AllocateKeeps ==
    ASSUME MemInv, AllocateMem
    PROVE  /\ MemInv' /\ Buckets' = Buckets
           /\ \E b \in FreeBuckets : FreeBuckets' = FreeBuckets \ {b} /\ memOut' = memOut \cup {b}
<1> DEFINE ptr == bucketStack[stackTopIndex - 1]
<1> USE DEF AllocateMem
<1>1. /\ stackTopIndex # 0 /\ bucketNumber # 0 /\ bucketNumber \in 0 .. MaxBuckets
      /\ stackTopIndex \in Nat /\ bucketNumber \in Nat /\ stackTopIndex - 1 \in 0 .. stackTopIndex - 1
      /\ stackTopIndex - 1 \in 0 .. bucketNumber - 1
  BY BucketsAssumption DEF MemInv, MemTypes
<1>2. ptr \in FreeBuckets /\ ptr \in Buckets
  BY <1>1 DEF FreeBuckets, MemInv, StackHoldsFree
<1>3. Buckets' = Buckets
  BY DEF Buckets
<1>4. FreeBuckets' = FreeBuckets \ {ptr}
  <2>1. FreeBuckets' = {bucketStack[i] : i \in 0 .. stackTopIndex - 2}
    BY <1>1 DEF FreeBuckets
  <2>2. \A i \in 0 .. stackTopIndex - 2 : bucketStack[i] # ptr /\ i \in 0 .. stackTopIndex - 1
    BY <1>1 DEF MemInv, StackHoldsFree
  <2>3. \A i \in 0 .. stackTopIndex - 1 : i = stackTopIndex - 1 \/ i \in 0 .. stackTopIndex - 2
    BY <1>1
  <2> QED
    BY <2>1, <2>2, <2>3 DEF FreeBuckets
<1> HIDE DEF ptr
<1>5. bucketBitmap' = [bucketBitmap EXCEPT ![ptr \div BucketSize] = 1]
      /\ memOut' = memOut \cup {ptr} /\ memGiven' = memGiven \cup {ptr}
  BY DEF ptr
<1>6. bucketBitmap \in [Bits(bucketNumber) -> {0, 1}]
      /\ ptr \div BucketSize \in Bits(bucketNumber)
  BY <1>1, <1>2, BucketFacts DEF MemInv, MemTypes
<1>7. MemTypes'
  <2>1. stackTopIndex' \in 0 .. bucketNumber' /\ availableNumber' = stackTopIndex'
    BY <1>1 DEF MemInv, MemTypes
  <2>2. bucketBitmap' \in [Bits(bucketNumber) -> {0, 1}]
    BY <1>5, <1>6
  <2>3. memOut' \subseteq Buckets \cup Heap /\ memGiven' \subseteq Buckets
    BY <1>2, <1>5 DEF MemInv, MemTypes
  <2>4. UNCHANGED <<useHeap, bucketNumber, stackTop, bucketStack>>
    OBVIOUS
  <2> HIDE DEF AllocateMem
  <2> QED
    BY <1>1, <1>3, <2>1, <2>2, <2>3, <2>4 DEF MemInv, MemTypes
<1>8. StackHoldsFree'
  <2>1. \A i, j \in 0 .. stackTopIndex' - 1 : bucketStack'[i] = bucketStack'[j] => i = j
    BY <1>1 DEF MemInv, StackHoldsFree
  <2> QED
    BY <1>2, <1>3, <1>4, <1>5, <2>1 DEF MemInv, StackHoldsFree
<1>9. BitmapKnows'
  <2>1. bucketBitmap'[ptr \div BucketSize] = 1
    BY <1>5, <1>6
  <2>2. ASSUME NEW b \in Buckets, b # ptr
        PROVE  bucketBitmap'[b \div BucketSize] = bucketBitmap[b \div BucketSize]
    <3>1. b \div BucketSize # ptr \div BucketSize
      BY <1>1, <1>2, <2>2, BucketFacts
    <3> QED
      BY <1>5, <1>6, <3>1
  <2> QED
    BY <1>2, <1>3, <1>4, <1>5, <2>1, <2>2 DEF MemInv, BitmapKnows, StackHoldsFree
<1> QED
  BY <1>2, <1>3, <1>4, <1>5, <1>7, <1>8, <1>9 DEF MemInv

LEMMA AllocateHeapKeeps ==
    ASSUME MemInv, AllocateHeap
    PROVE  /\ MemInv' /\ Buckets' = Buckets /\ FreeBuckets' = FreeBuckets /\ FreeBuckets = {}
           /\ \E r \in Address \ (Buckets \cup memOut) : memOut' = memOut \cup {r}
<1>1. PICK ptr \in Heap \ memOut : memOut' = memOut \cup {ptr}
  BY DEF AllocateHeap
<1>2. UNCHANGED <<useHeap, bucketNumber, stackTop, stackTopIndex, availableNumber, bucketStack,
                  bucketBitmap, memGiven>> /\ stackTopIndex = 0 /\ useHeap
  BY DEF AllocateHeap
<1>3. Buckets' = Buckets /\ FreeBuckets' = FreeBuckets /\ FreeBuckets = {}
  BY <1>2 DEF Buckets, FreeBuckets
<1>4. ptr \notin Buckets /\ ptr \in Address
  <2>1. bucketNumber \in 0 .. MaxBuckets
    BY DEF MemInv, MemTypes
  <2>2. Heap \subseteq Address
    BY BucketsAssumption DEF Heap, Address, PoolEnd
  <2> QED
    BY <2>1, <2>2, BucketFacts
<1>5. MemTypes'
  BY <1>1, <1>2, <1>3 DEF MemInv, MemTypes
<1>6. StackHoldsFree' /\ BitmapKnows'
  BY <1>1, <1>2, <1>3, <1>4 DEF MemInv, StackHoldsFree, BitmapKnows
<1> QED
  BY <1>1, <1>3, <1>4, <1>5, <1>6 DEF MemInv

\* A bucket whose bit says that it is out comes back: there is room on the stack,
\* as the stack has every other bucket at most.
LEMMA PushBucketKeeps ==
    ASSUME MemInv, NEW ptr \in memOut \cap Buckets, memOut' = memOut \ {ptr},
           availableNumber' = availableNumber + 1, stackTopIndex' = stackTopIndex + 1,
           bucketStack' = [bucketStack EXCEPT ![stackTopIndex] = ptr],
           bucketBitmap' = [bucketBitmap EXCEPT ![ptr \div BucketSize] = 0],
           UNCHANGED <<useHeap, bucketNumber, stackTop, memGiven>>
    PROVE  MemInv' /\ Buckets' = Buckets /\ FreeBuckets' = FreeBuckets \cup {ptr}
<1>1. /\ bucketNumber \in 0 .. MaxBuckets /\ bucketNumber \in Nat /\ stackTopIndex \in Nat
      /\ bucketNumber # 0 /\ stackTopIndex <= bucketNumber /\ ptr \in Buckets
      /\ ptr \in memOut /\ ptr \notin FreeBuckets
  BY BucketsAssumption, BucketFacts DEF MemInv, MemTypes, StackHoldsFree
<1>2. stackTopIndex < bucketNumber
  <2>1. stackTopIndex # bucketNumber
    <3>1. FreeBuckets # Buckets
      BY <1>1
    <3> QED
      BY <3>1, FreeCounted, FS_Subset
  <2> QED
    BY <1>1, <2>1
<1>3. Buckets' = Buckets
  BY DEF Buckets
<1>4. bucketStack \in [0 .. bucketNumber - 1 -> Buckets] /\ stackTopIndex \in 0 .. bucketNumber - 1
  BY <1>1, <1>2 DEF MemInv, MemTypes
<1>5. /\ bucketStack'[stackTopIndex] = ptr
      /\ \A i \in 0 .. stackTopIndex - 1 : bucketStack'[i] = bucketStack[i]
      /\ bucketStack' \in [0 .. bucketNumber - 1 -> Buckets]
  BY <1>1, <1>4
<1>6. \A i \in 0 .. stackTopIndex : i = stackTopIndex \/ i \in 0 .. stackTopIndex - 1
  BY <1>1
<1>7. FreeBuckets' = FreeBuckets \cup {ptr}
  <2>1. FreeBuckets' = {bucketStack'[i] : i \in 0 .. stackTopIndex}
    BY <1>1 DEF FreeBuckets
  <2>2. \A i \in 0 .. stackTopIndex - 1 : i \in 0 .. stackTopIndex
    BY <1>1
  <2>3. stackTopIndex \in 0 .. stackTopIndex
    BY <1>1
  <2> QED
    BY <1>5, <1>6, <2>1, <2>2, <2>3 DEF FreeBuckets
<1>8. /\ bucketBitmap \in [Bits(bucketNumber) -> {0, 1}]
      /\ ptr \div BucketSize \in Bits(bucketNumber)
  BY <1>1, BucketFacts DEF MemInv, MemTypes
<1>9. MemTypes'
  <2>1. stackTopIndex' \in 0 .. bucketNumber' /\ availableNumber' = stackTopIndex'
    BY <1>1, <1>2 DEF MemInv, MemTypes
  <2>2. bucketBitmap' \in [Bits(bucketNumber) -> {0, 1}]
    BY <1>8
  <2> QED
    BY <1>1, <1>3, <1>5, <2>1, <2>2 DEF MemInv, MemTypes
<1>10. StackHoldsFree'
  <2>1. ASSUME NEW i \in 0 .. stackTopIndex, NEW j \in 0 .. stackTopIndex,
               bucketStack'[i] = bucketStack'[j]
        PROVE  i = j
    <3>1. \A k \in 0 .. stackTopIndex - 1 : bucketStack[k] # ptr
      BY <1>1 DEF FreeBuckets
    <3> QED
      BY <1>5, <1>6, <2>1, <3>1 DEF MemInv, StackHoldsFree
  <2>2. stackTopIndex' - 1 = stackTopIndex
    BY <1>1
  <2> QED
    BY <1>1, <1>3, <1>7, <2>1, <2>2 DEF MemInv, StackHoldsFree
<1>11. BitmapKnows'
  <2>1. bucketBitmap'[ptr \div BucketSize] = 0
    BY <1>8
  <2>2. ASSUME NEW b \in Buckets, b # ptr
        PROVE  bucketBitmap'[b \div BucketSize] = bucketBitmap[b \div BucketSize]
    <3>1. b \div BucketSize # ptr \div BucketSize
      BY <1>1, <2>2, BucketFacts
    <3> QED
      BY <1>8, <3>1
  <2> QED
    BY <1>1, <1>3, <1>7, <2>1, <2>2 DEF MemInv, BitmapKnows, StackHoldsFree
<1> QED
  BY <1>3, <1>7, <1>9, <1>10, <1>11 DEF MemInv

\* reclaim() of whatever callers pass: one that is out comes back, all else
\* changes nothing.
LEMMA ReclaimKeeps ==
    ASSUME MemInv, ReclaimMem
    PROVE  /\ MemInv' /\ Buckets' = Buckets
           /\ \/ \E r \in memOut : /\ memOut' = memOut \ {r}
                                   /\ FreeBuckets' = IF r \in Buckets THEN FreeBuckets \cup {r}
                                                                       ELSE FreeBuckets
              \/ memOut' = memOut /\ FreeBuckets' = FreeBuckets
<1>1. PICK ptr \in Address :
         /\ ptr \in memOut \cup memGiven \/ ptr % BucketSize # 0
         /\ Reclaim(ptr)
  BY DEF ReclaimMem
<1>2. /\ bucketNumber # 0 /\ memOut' = memOut \ {ptr} /\ Buckets' = Buckets
      /\ UNCHANGED <<useHeap, bucketNumber, stackTop, memGiven>>
  BY <1>1 DEF Reclaim, Buckets
<1>3. InPool(ptr) /\ ptr % BucketSize = 0 <=> ptr \in Buckets
  BY <1>2, InPoolIsBucket
<1>4. ASSUME UNCHANGED <<availableNumber, stackTopIndex, bucketStack, bucketBitmap>>,
             ptr \in Buckets => ptr \notin memOut
      PROVE  MemInv' /\ FreeBuckets' = FreeBuckets
  <2>1. FreeBuckets' = FreeBuckets
    BY <1>4 DEF FreeBuckets
  <2>2. MemTypes'
    BY <1>2, <1>4 DEF MemInv, MemTypes
  <2>3. StackHoldsFree' /\ BitmapKnows'
    BY <1>2, <1>4, <2>1 DEF MemInv, StackHoldsFree, BitmapKnows
  <2> QED
    BY <2>1, <2>2, <2>3 DEF MemInv
<1>5. CASE ptr \notin Buckets
  <2>1. UNCHANGED <<availableNumber, stackTopIndex, bucketStack, bucketBitmap>>
    BY <1>1, <1>3, <1>5 DEF Reclaim
  <2> QED
    BY <1>2, <1>4, <1>5, <2>1
<1>6. CASE ptr \in Buckets
  <2>1. PushBucket(ptr)
    BY <1>1, <1>3, <1>6 DEF Reclaim
  <2>2. ptr \in memGiven
    BY <1>1, <1>3, <1>6 DEF MemInv, BitmapKnows
  <2>3. ptr \in memOut <=> bucketBitmap[ptr \div BucketSize] = 1
    BY <1>6, <2>2 DEF MemInv, BitmapKnows, StackHoldsFree
  <2>4. CASE ptr \in memOut
    BY <1>2, <1>6, <2>1, <2>3, <2>4, PushBucketKeeps DEF PushBucket
  <2>5. CASE ptr \notin memOut
    BY <1>2, <1>4, <2>1, <2>3, <2>5 DEF PushBucket
  <2> QED
    BY <2>4, <2>5
<1> QED
  BY <1>5, <1>6

LEMMA MemStutterKeeps ==
    ASSUME MemInv, UNCHANGED memVars
    PROVE  MemInv' /\ Buckets' = Buckets /\ FreeBuckets' = FreeBuckets /\ memOut' = memOut
<1>1. UNCHANGED <<useHeap, bucketNumber, stackTop, stackTopIndex, availableNumber,
                  bucketStack, bucketBitmap, memOut, memGiven, memDeleted>>
  BY DEF memVars
<1>2. Buckets' = Buckets /\ FreeBuckets' = FreeBuckets
  BY <1>1 DEF Buckets, FreeBuckets
<1>3. MemTypes'
  BY <1>1, <1>2 DEF MemInv, MemTypes
<1>4. StackHoldsFree' /\ BitmapKnows'
  BY <1>1, <1>2 DEF MemInv, StackHoldsFree, BitmapKnows
<1> QED
  BY <1>1, <1>2, <1>3, <1>4 DEF MemInv

LEMMA MemInductive == MemInv /\ [MemNext]_memVars => MemInv'
<1> SUFFICES ASSUME MemInv, [MemNext]_memVars PROVE MemInv'
  OBVIOUS
<1>1. CASE \E number \in 1 .. MaxBuckets, heap \in BOOLEAN : CreateMem(number, heap)
  BY <1>1, CreateMemKeeps
<1>2. CASE DestroyMem
  BY <1>2, DestroyMemKeeps
<1>3. CASE AllocateMem
  BY <1>3, AllocateKeeps
<1>4. CASE AllocateHeap
  BY <1>4, AllocateHeapKeeps
<1>5. CASE ReclaimMem
  BY <1>5, ReclaimKeeps
<1>6. CASE UNCHANGED memVars
  BY <1>6, MemStutterKeeps
<1> QED
  BY <1>1, <1>2, <1>3, <1>4, <1>5, <1>6 DEF MemNext, MemAborted

\* What reclaim() deletes of the pool's own memory is inside the last bucket: a
\* bucket's address is within the bounds of its test, and any other that is not
\* lies above _stack_top and below the end.
LEMMA DeletedInductive ==
    ASSUME MemInv, DeletedInLast, [MemNext]_memVars
    PROVE  DeletedInLast'
<1>1. CASE ReclaimMem /\ memDeleted = {}
  <2>1. PICK ptr \in Address :
           /\ ptr \in memOut \cup memGiven \/ ptr < bucketNumber * BucketSize
           /\ Reclaim(ptr)
    BY <1>1 DEF ReclaimMem
  <2>2. /\ bucketNumber # 0 /\ bucketNumber' = bucketNumber
        /\ memDeleted' = IF ~InPool(ptr) /\ useHeap /\ ptr \notin Heap
                         THEN memDeleted \cup {ptr} ELSE memDeleted
    BY <2>1 DEF Reclaim
  <2>3. CASE ~InPool(ptr) /\ ptr \notin Heap
    <3>1. ptr \notin Buckets
      BY <2>2, <2>3, InPoolIsBucket
    <3>2. ptr < bucketNumber * BucketSize
      BY <2>1, <2>3, <3>1 DEF MemInv, MemTypes
    <3>3. BucketSize * (bucketNumber - 1) < ptr
      BY <2>2, <2>3, BucketsAssumption DEF InPool, MemInv, MemTypes, Address, PoolEnd
    <3>4. bucketNumber \in Nat /\ BucketSize \in Nat /\ ptr \in Int
      BY BucketsAssumption DEF MemInv, MemTypes, Address
    <3>5. ptr \in BucketSize * (bucketNumber - 1) + 1 .. bucketNumber * BucketSize - 1
      BY <3>2, <3>3, <3>4
    <3> QED
      BY <1>1, <2>2, <3>5 DEF DeletedInLast
  <2>4. CASE ~(~InPool(ptr) /\ ptr \notin Heap)
    BY <1>1, <2>2, <2>4 DEF DeletedInLast
  <2> QED
    BY <2>3, <2>4
<1>2. CASE memDeleted' = {}
  BY <1>2 DEF DeletedInLast
<1>3. CASE UNCHANGED memVars
  BY <1>3 DEF memVars, DeletedInLast
<1> QED
  BY <1>1, <1>2, <1>3
  DEF MemNext, MemAborted, CreateMem, DestroyMem, AllocateMem, AllocateHeap

LEMMA MemBooks == MemInv => MemBooksAgree
<1> SUFFICES ASSUME MemInv PROVE MemBooksAgree
  OBVIOUS
<1>1. /\ bucketNumber \in 0 .. MaxBuckets /\ bucketNumber \in Nat
      /\ stackTopIndex \in 0 .. bucketNumber /\ availableNumber = stackTopIndex
  BY BucketsAssumption DEF MemInv, MemTypes
<1>2. \A i \in 0 .. bucketNumber - 1 : bucketStack[i] \in Buckets
  BY <1>1 DEF MemInv, MemTypes
<1>3. memOut \subseteq Address
  <2>1. Heap \subseteq Address
    BY BucketsAssumption DEF Heap, Address, PoolEnd
  <2> QED
    BY <1>1, <2>1, BucketFacts DEF MemInv, MemTypes
<1>4. MemTypeOK
  BY <1>1, <1>2, <1>3 DEF MemInv, MemTypes, MemTypeOK
<1>5. Cardinality(FreeBuckets) = stackTopIndex
  BY FreeCounted
<1> QED
  BY <1>1, <1>4, <1>5 DEF MemBooksAgree, MemInv, StackHoldsFree, BitmapKnows

\* Each step of the memory pool is one of the abstract pool, or changes nothing
\* in it: that is a second reclaim, or the reclaim of an address within a bucket.
LEMMA MemRefines ==
    MemInv /\ [MemNext]_memVars => [MemAbstract!Next]_(MemAbstract!vars)
<1> SUFFICES ASSUME MemInv, [MemNext]_memVars
             PROVE  [MemAbstract!Next]_(MemAbstract!vars)
  OBVIOUS
<1> USE DEF MemAbstract!Next, MemAbstract!vars
<1>1. bucketNumber \in 0 .. MaxBuckets /\ Buckets \subseteq Address /\ memOut \subseteq Address
  BY MemBooks, BucketFacts DEF MemBooksAgree, MemTypeOK
<1>2. CASE \E number \in 1 .. MaxBuckets, heap \in BOOLEAN : CreateMem(number, heap)
  <2>1. FreeBuckets' = Buckets' /\ Buckets' # {} /\ MemInv'
    BY <1>2, CreateMemKeeps
  <2>2. memOut = {} /\ memOut' = memOut
    BY <1>2 DEF CreateMem
  <2>3. Buckets' \subseteq Address
    <3>1. bucketNumber' \in 0 .. MaxBuckets
      BY <2>1 DEF MemInv, MemTypes
    <3>2. Buckets' = {BucketSize * i : i \in 0 .. bucketNumber' - 1}
      BY DEF Buckets
    <3> QED
      BY <3>1, <3>2, BucketsApart
  <2> QED
    BY <2>1, <2>2, <2>3 DEF MemAbstract!Create
<1>3. CASE DestroyMem
  <2>1. memOut = {} /\ memOut' = memOut
    BY <1>3 DEF DestroyMem
  <2> QED
    BY <1>3, <2>1, DestroyMemKeeps DEF MemAbstract!Destroy
<1>4. CASE AllocateMem
  <2>1. PICK b \in FreeBuckets : FreeBuckets' = FreeBuckets \ {b} /\ memOut' = memOut \cup {b}
    BY <1>4, AllocateKeeps
  <2>2. Buckets' = Buckets /\ b \in Address
    BY <1>1, <1>4, AllocateKeeps DEF MemInv, StackHoldsFree
  <2> QED
    BY <2>1, <2>2 DEF MemAbstract!Lend
<1>5. CASE AllocateHeap
  BY <1>5, AllocateHeapKeeps DEF MemAbstract!LendExtra
<1>6. CASE ReclaimMem
  <2>1. Buckets' = Buckets
    BY <1>6, ReclaimKeeps
  <2>2. ASSUME NEW r \in memOut, memOut' = memOut \ {r},
               FreeBuckets' = IF r \in Buckets THEN FreeBuckets \cup {r} ELSE FreeBuckets
        PROVE  MemAbstract!Next
    BY <1>1, <2>1, <2>2 DEF MemAbstract!GiveBack
  <2> QED
    BY <1>6, <2>1, <2>2, ReclaimKeeps
<1>7. CASE UNCHANGED memVars
  BY <1>7, MemStutterKeeps
<1> QED
  BY <1>2, <1>3, <1>4, <1>5, <1>6, <1>7 DEF MemNext, MemAborted
-----------------------------------------------------------------------------
\* The queue of free objects

Queued(q) == {Contents(q)[i] : i \in 1 .. q.size}
QueuedOnce(q) == \A i, j \in 1 .. q.size : Contents(q)[i] = Contents(q)[j] => i = j

LEMMA QueuedCounted ==
    ASSUME NEW q, WellFormed(q), QueuedOnce(q)
    PROVE  /\ IsFiniteSet(Queued(q)) /\ Cardinality(Queued(q)) = q.size
           /\ Queued(q) \subseteq Elem /\ q.size \in 0 .. QueueMax
<1> DEFINE f == [i \in 0 .. q.size - 1 |-> Contents(q)[i + 1]]
<1>1. q.size \in Nat /\ q.size \in 0 .. QueueMax
  BY ContentsLength, QueueMaxAssumption
<1>2. \A i \in 0 .. q.size - 1 : f[i] = Contents(q)[i + 1] /\ i + 1 \in 1 .. q.size
  BY <1>1
<1>3. \A i, j \in 0 .. q.size - 1 : f[i] = f[j] => i = j
  <2> SUFFICES ASSUME NEW i \in 0 .. q.size - 1, NEW j \in 0 .. q.size - 1, f[i] = f[j]
               PROVE  i = j
    OBVIOUS
  <2>1. i + 1 = j + 1
    BY <1>2 DEF QueuedOnce
  <2> QED
    BY <1>1, <2>1
<1>4. Queued(q) = {f[i] : i \in 0 .. q.size - 1}
  <2>1. \A i \in 1 .. q.size : i - 1 \in 0 .. q.size - 1 /\ f[i - 1] = Contents(q)[i]
    BY <1>1, <1>2
  <2> HIDE DEF f
  <2> QED
    BY <1>2, <2>1 DEF Queued
<1>5. IsFiniteSet(Queued(q)) /\ Cardinality(Queued(q)) = q.size
  <2> HIDE DEF f
  <2> QED
    BY <1>1, <1>3, <1>4, DistinctValues
<1>6. Queued(q) \subseteq Elem
  BY DEF Queued, WellFormed
<1> QED
  BY <1>1, <1>5, <1>6

\* An object that is not queued is added.
LEMMA PushQueues ==
    ASSUME NEW q, WellFormed(q), ~IsFull(q), QueuedOnce(q), NEW e \in Elem, e \notin Queued(q)
    PROVE  /\ WellFormed(PushBack(q, e)) /\ PushBack(q, e).size = q.size + 1
           /\ QueuedOnce(PushBack(q, e)) /\ Queued(PushBack(q, e)) = Queued(q) \cup {e}
<1> DEFINE r == PushBack(q, e)
<1>1. /\ WellFormed(r) /\ Contents(r) = Append(Contents(q), e)
      /\ Contents(q) \in Seq(Elem) /\ Len(Contents(q)) = q.size /\ q.size \in Nat
  BY PushBackAppends, ContentsLength, QueueMaxAssumption
<1>2. r.size = q.size + 1
  BY DEF PushBack
<1> HIDE DEF r
<1>3. /\ Contents(r)[q.size + 1] = e
      /\ \A i \in 1 .. q.size : Contents(r)[i] = Contents(q)[i]
      /\ 1 .. r.size = (1 .. q.size) \cup {q.size + 1}
  BY <1>1, <1>2
<1>4. Queued(r) = Queued(q) \cup {e}
  BY <1>3 DEF Queued
<1>5. QueuedOnce(r)
  BY <1>3 DEF QueuedOnce, Queued
<1> QED
  BY <1>1, <1>2, <1>4, <1>5 DEF r

\* The front of the queue is taken, and is queued nowhere else.
LEMMA PopQueues ==
    ASSUME NEW q, WellFormed(q), ~IsEmpty(q), QueuedOnce(q)
    PROVE  /\ WellFormed(PopFront(q)) /\ PopFront(q).size = q.size - 1
           /\ Front(q) \in Queued(q) /\ Front(q) \in Elem
           /\ QueuedOnce(PopFront(q)) /\ Queued(PopFront(q)) = Queued(q) \ {Front(q)}
<1> DEFINE r == PopFront(q)
<1>1. /\ WellFormed(r) /\ Contents(r) = Tail(Contents(q)) /\ Front(q) = Head(Contents(q))
      /\ Contents(q) \in Seq(Elem) /\ Len(Contents(q)) = q.size /\ q.size \in Nat
      /\ Contents(q) # <<>> /\ Front(q) \in Elem /\ q.size # 0
  BY PopFrontTakesOldest, ContentsLength, QueueMaxAssumption DEF IsEmpty
<1>2. r.size = q.size - 1
  BY DEF PopFront
<1> HIDE DEF r
<1>3. /\ Front(q) = Contents(q)[1]
      /\ \A i \in 1 .. r.size : Contents(r)[i] = Contents(q)[i + 1] /\ i + 1 \in 1 .. q.size
      /\ \A i \in 1 .. q.size : i = 1 \/ (i - 1 \in 1 .. r.size /\ (i - 1) + 1 = i)
      /\ 1 \in 1 .. q.size
  BY <1>1, <1>2
<1>4. \A i \in 1 .. r.size : i + 1 # 1
  BY <1>1, <1>2
<1>5. Queued(r) = Queued(q) \ {Front(q)}
  BY <1>3, <1>4 DEF Queued, QueuedOnce
<1>6. QueuedOnce(r)
  <2> SUFFICES ASSUME NEW i \in 1 .. r.size, NEW j \in 1 .. r.size,
                      Contents(r)[i] = Contents(r)[j]
               PROVE  i = j
    BY DEF QueuedOnce
  <2>1. i + 1 = j + 1
    BY <1>3 DEF QueuedOnce
  <2> QED
    BY <1>1, <1>2, <2>1
<1>7. Front(q) \in Queued(q)
  BY <1>3 DEF Queued
<1> QED
  BY <1>1, <1>2, <1>5, <1>6, <1>7 DEF r

\* What create() queues: every object, in the order of its index.
LEMMA AllQueued ==
    ASSUME NEW q, q = [head |-> 0, tail |-> 0, size |-> QueueMax,
                       elems |-> [i \in Cells |-> i + 1]]
    PROVE  WellFormed(q) /\ QueuedOnce(q) /\ Queued(q) = Elem
<1>1. QueueMax \in Nat \ {0} /\ Elem = 1 .. QueueMax
  BY QueueMaxAssumption, ObjectsAssumption
<1>2. q \in RawQueue
  <2>1. [i \in Cells |-> i + 1] \in [Cells -> Elem \cup {Uninit}]
    BY <1>1 DEF Cells
  <2> QED
    BY <1>1, <2>1 DEF RawQueue, Cells
<1>3. q.head = 0 /\ q.tail = 0 /\ q.size = QueueMax /\ q.elems = [i \in Cells |-> i + 1]
  OBVIOUS
<1>4. \A i \in 1 .. QueueMax : q.elems[Cell(q.head, i)] = i
  BY <1>1, <1>3 DEF Cell, Cells
<1>5. /\ q.tail = IF q.head + q.size < QueueMax
                  THEN q.head + q.size ELSE q.head + q.size - QueueMax
      /\ \A i \in 1 .. q.size : q.elems[Cell(q.head, i)] \in Elem
  BY <1>1, <1>3, <1>4
<1>6. WellFormed(q)
  BY <1>2, <1>5, WellFormedByCell
<1>7. \A i \in 1 .. QueueMax : Contents(q)[i] = i
  <2>1. Contents(q) = [i \in 1 .. q.size |-> q.elems[Cell(q.head, i)]]
    BY <1>2, ContentsByCell
  <2>2. 1 .. q.size = 1 .. QueueMax
    BY <1>3
  <2> QED
    BY <1>4, <2>1, <2>2
<1>8. QueuedOnce(q) /\ Queued(q) = Elem
  BY <1>1, <1>3, <1>7 DEF QueuedOnce, Queued
<1> QED
  BY <1>6, <1>8
-----------------------------------------------------------------------------
\* The object pool

ObjTypes ==
    /\ created \in BOOLEAN
    /\ WellFormed(objectQueue)
    /\ inPool \in [Elem -> BOOLEAN]
    /\ avaliableNumber \in 0 .. QueueMax
    /\ created => avaliableNumber = objectQueue.size
    /\ objOut \subseteq Elem \cup HeapObject

\* An object of the pool's own is queued once, or it is out, and its mark tells.
MarksTell ==
    /\ QueuedOnce(objectQueue)
    /\ FreeObjects = {o \in Elem : inPool[o]}
    /\ created => \A o \in Elem : inPool[o] <=> o \notin objOut
    /\ ~created => objOut = {} /\ \A o \in Elem : ~inPool[o]

ObjInv == ObjTypes /\ MarksTell

\* An object of the heap is none of the pool's own.
LEMMA ObjectKinds ==
    /\ Elem \cap HeapObject = {}
    /\ \A o \in Elem : Index(o) # 0
    /\ \A o \in HeapObject : Index(o) = 0
<1>1. Elem = 1 .. QueueMax /\ QueueMax \in Nat \ {0} /\ MaxHeapObjects \in Nat
  BY QueueMaxAssumption, ObjectsAssumption
<1>2. Elem \cap HeapObject = {}
  BY <1>1 DEF HeapObject
<1>3. \A o \in Elem : o # 0 /\ o \notin HeapObject
  BY <1>1, <1>2
<1> QED
  BY <1>2, <1>3 DEF Index

LEMMA FreeIsQueued == FreeObjects = Queued(objectQueue)
BY DEF FreeObjects, Queued

LEMMA NothingQueued == WellFormed(NewQueue) /\ QueuedOnce(NewQueue) /\ Queued(NewQueue) = {}
<1>1. NewQueue.size = 0
  BY DEF NewQueue
<1>2. 1 .. NewQueue.size = {}
  BY <1>1
<1> QED
  BY <1>2, NewQueueWellFormed DEF QueuedOnce, Queued

LEMMA ObjInitHolds == ObjInit => ObjInv
<1> SUFFICES ASSUME ObjInit PROVE ObjInv
  OBVIOUS
<1>1. FreeObjects = {} /\ WellFormed(objectQueue) /\ QueuedOnce(objectQueue)
  BY NothingQueued, FreeIsQueued DEF ObjInit
<1>2. ObjTypes
  <2>1. /\ created = FALSE /\ inPool = [o \in Elem |-> FALSE]
        /\ avaliableNumber = 0 /\ objOut = {}
    BY DEF ObjInit
  <2>2. 0 \in 0 .. QueueMax
    BY QueueMaxAssumption
  <2> QED
    BY <1>1, <2>1, <2>2 DEF ObjTypes
<1>3. MarksTell
  BY <1>1 DEF ObjInit, MarksTell
<1> QED
  BY <1>2, <1>3 DEF ObjInv

LEMMA CreateObjKeeps ==
    ASSUME ObjInv, CreateObj
    PROVE  /\ ObjInv' /\ objOut = {} /\ objOut' = {}
           /\ Objects' = Elem /\ FreeObjects' = Elem /\ Elem # {}
<1> USE DEF CreateObj
<1>1. WellFormed(objectQueue') /\ QueuedOnce(objectQueue') /\ Queued(objectQueue') = Elem
      /\ objectQueue'.size = QueueMax
  BY AllQueued
<1>2. FreeObjects' = Elem
  BY <1>1 DEF FreeObjects, Queued
<1>3. objOut = {} /\ objOut' = {} /\ created' = TRUE
  BY DEF ObjInv, MarksTell
<1>4. ObjTypes'
  BY <1>1, <1>3, QueueMaxAssumption DEF ObjTypes
<1>5. MarksTell'
  BY <1>1, <1>2, <1>3 DEF MarksTell
<1>6. Elem # {}
  BY QueueMaxAssumption, ObjectsAssumption
<1> QED
  BY <1>2, <1>3, <1>4, <1>5, <1>6 DEF ObjInv, Objects

LEMMA DestroyObjKeeps ==
    ASSUME ObjInv, DestroyObj
    PROVE  /\ ObjInv' /\ objOut = {} /\ objOut' = {}
           /\ Objects' = {} /\ FreeObjects' = {}
<1>1. created' = FALSE /\ objectQueue' = NewQueue /\ inPool' = [o \in Elem |-> FALSE]
      /\ objOut = {} /\ objOut' = {} /\ avaliableNumber' = avaliableNumber
  BY DEF DestroyObj
<1>2. WellFormed(objectQueue') /\ QueuedOnce(objectQueue') /\ FreeObjects' = {}
  BY <1>1, NothingQueued DEF FreeObjects, Queued
<1>3. ObjTypes' /\ MarksTell'
  BY <1>1, <1>2 DEF ObjInv, ObjTypes, MarksTell
<1> QED
  BY <1>1, <1>2, <1>3 DEF ObjInv, Objects

\* The front of the queue is lent.
LEMMA BorrowPooledKeeps ==
    ASSUME ObjInv, BorrowPooled
    PROVE  /\ ObjInv' /\ Objects' = Objects
           /\ \E o \in FreeObjects : FreeObjects' = FreeObjects \ {o} /\ objOut' = objOut \cup {o}
<1> DEFINE o == Front(objectQueue)
<1>1. /\ created /\ created' = created /\ ~IsEmpty(objectQueue)
      /\ objectQueue' = PopFront(objectQueue) /\ inPool' = [inPool EXCEPT ![o] = FALSE]
      /\ objOut' = objOut \cup {o} /\ avaliableNumber' = avaliableNumber - 1
  BY DEF BorrowPooled
<1> HIDE DEF o
<1>2. /\ WellFormed(objectQueue') /\ objectQueue'.size = objectQueue.size - 1
      /\ o \in Queued(objectQueue) /\ o \in Elem
      /\ QueuedOnce(objectQueue') /\ Queued(objectQueue') = Queued(objectQueue) \ {o}
  BY <1>1, PopQueues DEF ObjInv, ObjTypes, MarksTell, o
<1>3. FreeObjects' = FreeObjects \ {o} /\ o \in FreeObjects
  BY <1>2 DEF FreeObjects, Queued
<1>4. avaliableNumber = objectQueue.size /\ avaliableNumber \in 0 .. QueueMax
      /\ objectQueue.size # 0
  BY <1>1 DEF ObjInv, ObjTypes, IsEmpty
<1>5. ObjTypes'
  BY <1>1, <1>2, <1>4, QueueMaxAssumption DEF ObjInv, ObjTypes
<1>6. MarksTell'
  BY <1>1, <1>2, <1>3 DEF ObjInv, ObjTypes, MarksTell
<1> QED
  BY <1>1, <1>3, <1>5, <1>6 DEF ObjInv, Objects

\* An object is made on the heap when the queue is empty.
LEMMA BorrowNewKeeps ==
    ASSUME ObjInv, BorrowNew
    PROVE  /\ ObjInv' /\ Objects' = Objects /\ FreeObjects' = FreeObjects /\ FreeObjects = {}
           /\ \E o \in HeapObject \ (Objects \cup objOut) : objOut' = objOut \cup {o}
<1>1. PICK o \in HeapObject \ objOut : objOut' = objOut \cup {o}
  BY DEF BorrowNew
<1>2. created /\ UNCHANGED <<created, objectQueue, inPool, avaliableNumber>>
      /\ objectQueue.size = 0
  BY DEF BorrowNew, IsEmpty
<1>3. FreeObjects' = FreeObjects /\ FreeObjects = {} /\ Objects' = Objects
  BY <1>2 DEF FreeObjects, Objects
<1>4. o \notin Elem /\ o \notin Objects
  BY ObjectKinds DEF Objects
<1>5. ObjTypes'
  BY <1>1, <1>2 DEF ObjInv, ObjTypes
<1>6. MarksTell'
  BY <1>1, <1>2, <1>3, <1>4 DEF ObjInv, MarksTell
<1> QED
  BY <1>1, <1>3, <1>4, <1>5, <1>6 DEF ObjInv

\* An object without an index is one of the heap's.
LEMMA DeleteObjectKeeps ==
    ASSUME ObjInv, NEW o \in objOut, DeleteObject(o)
    PROVE  /\ ObjInv' /\ Objects' = Objects /\ FreeObjects' = FreeObjects
           /\ o \notin Objects /\ objOut' = objOut \ {o}
<1>1. UNCHANGED <<created, objectQueue, inPool, avaliableNumber>>
      /\ objOut' = objOut \ {o} /\ Index(o) = 0
  BY DEF DeleteObject
<1>2. o \notin Elem /\ o \notin Objects
  BY <1>1, ObjectKinds DEF Objects
<1>3. FreeObjects' = FreeObjects /\ Objects' = Objects
  BY <1>1 DEF FreeObjects, Objects
<1>4. ObjTypes'
  BY <1>1 DEF ObjInv, ObjTypes
<1>5. MarksTell'
  BY <1>1, <1>2, <1>3 DEF ObjInv, MarksTell
<1> QED
  BY <1>1, <1>2, <1>3, <1>4, <1>5 DEF ObjInv

\* An object that is out comes back: the queue has room for it, as it is not in
\* there.  One that is in the pool is paid back without effect.
LEMMA PayBackKeeps ==
    ASSUME ObjInv, NEW o \in Elem, PayBackPooled(o)
    PROVE  /\ ObjInv' /\ Objects' = Objects
           /\ \/ /\ o \in objOut /\ o \in Objects
                 /\ objOut' = objOut \ {o} /\ FreeObjects' = FreeObjects \cup {o}
              \/ objOut' = objOut /\ FreeObjects' = FreeObjects
<1>1. created /\ created' = created /\ objOut' = objOut \ {o} /\ Objects' = Objects
      /\ o \in Objects
  BY DEF PayBackPooled, Objects
<1>2. CASE inPool[o]
  <2>1. UNCHANGED <<objectQueue, inPool, avaliableNumber>>
    BY <1>2 DEF PayBackPooled
  <2>2. objOut' = objOut
    BY <1>1, <1>2 DEF ObjInv, MarksTell
  <2>3. FreeObjects' = FreeObjects
    BY <2>1 DEF FreeObjects
  <2>4. ObjTypes'
    BY <1>1, <2>1, <2>2 DEF ObjInv, ObjTypes
  <2>5. MarksTell'
    BY <1>1, <2>1, <2>2, <2>3 DEF ObjInv, MarksTell
  <2> QED
    BY <1>1, <2>2, <2>3, <2>4, <2>5 DEF ObjInv
<1>3. CASE ~inPool[o]
  <2>1. /\ objectQueue' = PushBack(objectQueue, o) /\ inPool' = [inPool EXCEPT ![o] = TRUE]
        /\ avaliableNumber' = avaliableNumber + 1
    BY <1>3 DEF PayBackPooled
  <2>2. o \in objOut /\ o \notin Queued(objectQueue)
    BY <1>1, <1>3, FreeIsQueued DEF ObjInv, MarksTell
  <2>3. avaliableNumber = objectQueue.size /\ objectQueue.size \in 0 .. QueueMax
        /\ objectQueue.size < QueueMax
    <3>1. /\ IsFiniteSet(Queued(objectQueue)) /\ Queued(objectQueue) \subseteq Elem
          /\ Cardinality(Queued(objectQueue)) = objectQueue.size
          /\ objectQueue.size \in 0 .. QueueMax
      BY QueuedCounted DEF ObjInv, ObjTypes, MarksTell
    <3>2. IsFiniteSet(Elem) /\ Cardinality(Elem) = QueueMax
      BY FS_Interval, QueueMaxAssumption, ObjectsAssumption
    <3>3. objectQueue.size # QueueMax
      BY <2>2, <3>1, <3>2, FS_Subset
    <3> QED
      BY <1>1, <3>1, <3>3, QueueMaxAssumption DEF ObjInv, ObjTypes
  <2>4. /\ WellFormed(objectQueue') /\ objectQueue'.size = objectQueue.size + 1
        /\ QueuedOnce(objectQueue') /\ Queued(objectQueue') = Queued(objectQueue) \cup {o}
    <3>1. ~IsFull(objectQueue)
      BY <2>3, QueueMaxAssumption DEF IsFull
    <3> QED
      BY <2>1, <2>2, <3>1, PushQueues DEF ObjInv, ObjTypes, MarksTell
  <2>5. FreeObjects' = FreeObjects \cup {o}
    BY <2>4 DEF FreeObjects, Queued
  <2>6. ObjTypes'
    BY <1>1, <2>1, <2>3, <2>4, QueueMaxAssumption DEF ObjInv, ObjTypes
  <2>7. MarksTell'
    BY <1>1, <2>1, <2>4, <2>5 DEF ObjInv, ObjTypes, MarksTell
  <2> QED
    BY <1>1, <2>2, <2>5, <2>6, <2>7 DEF ObjInv
<1> QED
  BY <1>2, <1>3

LEMMA ObjStutterKeeps ==
    ASSUME ObjInv, UNCHANGED objVars
    PROVE  ObjInv' /\ Objects' = Objects /\ FreeObjects' = FreeObjects /\ objOut' = objOut
<1>1. UNCHANGED <<created, objectQueue, inPool, avaliableNumber, objOut>>
  BY DEF objVars
<1>2. FreeObjects' = FreeObjects /\ Objects' = Objects
  BY <1>1 DEF FreeObjects, Objects
<1> QED
  BY <1>1, <1>2 DEF ObjInv, ObjTypes, MarksTell

LEMMA ObjInductive == ObjInv /\ [ObjNext]_objVars => ObjInv'
<1> SUFFICES ASSUME ObjInv, [ObjNext]_objVars PROVE ObjInv'
  OBVIOUS
<1>1. CASE CreateObj
  BY <1>1, CreateObjKeeps
<1>2. CASE DestroyObj
  BY <1>2, DestroyObjKeeps
<1>3. CASE BorrowPooled
  BY <1>3, BorrowPooledKeeps
<1>4. CASE BorrowNew
  BY <1>4, BorrowNewKeeps
<1>5. CASE \E o \in objOut : DeleteObject(o)
  BY <1>5, DeleteObjectKeeps
<1>6. CASE \E o \in Elem : PayBackPooled(o)
  BY <1>6, PayBackKeeps
<1>7. CASE UNCHANGED objVars
  BY <1>7, ObjStutterKeeps
<1> QED
  BY <1>1, <1>2, <1>3, <1>4, <1>5, <1>6, <1>7 DEF ObjNext

LEMMA ObjBooks == ObjInv => ObjBooksAgree
<1> SUFFICES ASSUME ObjInv PROVE ObjBooksAgree
  OBVIOUS
<1>1. ObjTypeOK
  BY DEF ObjInv, ObjTypes, ObjTypeOK
<1>2. Cardinality(FreeObjects) = objectQueue.size
  BY QueuedCounted, FreeIsQueued DEF ObjInv, ObjTypes, MarksTell
<1> QED
  BY <1>1, <1>2 DEF ObjBooksAgree, ObjInv, ObjTypes, MarksTell

\* Each step of the object pool is one of the abstract pool, or changes nothing
\* in it: that is an object paid back again.
LEMMA ObjRefines ==
    ObjInv /\ [ObjNext]_objVars => [ObjAbstract!Next]_(ObjAbstract!vars)
<1> SUFFICES ASSUME ObjInv, [ObjNext]_objVars
             PROVE  [ObjAbstract!Next]_(ObjAbstract!vars)
  OBVIOUS
<1> USE DEF ObjAbstract!Next, ObjAbstract!vars
<1>1. FreeObjects \subseteq Elem /\ objOut \subseteq Elem \cup HeapObject
  BY DEF ObjInv, ObjTypes, MarksTell
<1>2. CASE CreateObj
  BY <1>2, CreateObjKeeps DEF ObjAbstract!Create
<1>3. CASE DestroyObj
  BY <1>3, DestroyObjKeeps DEF ObjAbstract!Destroy
<1>4. CASE BorrowPooled
  BY <1>1, <1>4, BorrowPooledKeeps DEF ObjAbstract!Lend
<1>5. CASE BorrowNew
  BY <1>5, BorrowNewKeeps DEF ObjAbstract!LendExtra
<1>6. CASE \E o \in objOut : DeleteObject(o)
  BY <1>1, <1>6, DeleteObjectKeeps DEF ObjAbstract!GiveBack
<1>7. CASE \E o \in Elem : PayBackPooled(o)
  BY <1>7, PayBackKeeps DEF ObjAbstract!GiveBack
<1>8. CASE UNCHANGED objVars
  BY <1>8, ObjStutterKeeps
<1> QED
  BY <1>2, <1>3, <1>4, <1>5, <1>6, <1>7, <1>8 DEF ObjNext
-----------------------------------------------------------------------------
\* One of the containers is used, the others stay as they are.

LEMMA ContainerSteps ==
    [Next]_vars => [MemNext]_memVars /\ [ObjNext]_objVars
BY DEF Next, vars, Manager, Memory, Pooled, memVars, objVars

LEMMA PoolsInvariant == Spec => [](MemInv /\ ObjInv)
<1>1. Init => MemInv /\ ObjInv
  BY MemInitHolds, ObjInitHolds DEF Init
<1>2. MemInv /\ ObjInv /\ [Next]_vars => (MemInv /\ ObjInv)'
  BY ContainerSteps, MemInductive, ObjInductive
<1> QED
  BY <1>1, <1>2, PTL DEF Spec

\* The stack, the bitmap and the count of the memory pool, and the queue, the
\* marks and the count of the object pool, agree, whatever is given back and
\* however often (mem_pool.cpp:96-147, object_pool.h:99-180).
THEOREM PoolsAgree == Spec => []BooksAgree
<1>1. MemInv /\ ObjInv => BooksAgree
  BY MemBooks, ObjBooks DEF BooksAgree
<1> QED
  BY <1>1, PoolsInvariant, PTL

\* The memory pool lends a bucket to one caller at a time, memory of the heap
\* only when no bucket is free, and takes neither for the other (mem_pool.h:43-62),
\* whatever address within the pool it is asked to take back; what it deletes of
\* the pool itself is inside the last bucket.
THEOREM MemoryIsPooled == Spec => MemImplementsPool
<1>1. Init => MemAbstract!Init /\ DeletedInLast
  <2> SUFFICES ASSUME Init PROVE MemAbstract!Init /\ DeletedInLast
    OBVIOUS
  <2>1. bucketNumber = 0 /\ stackTopIndex = 0 /\ memOut = {} /\ memDeleted = {}
    BY DEF Init, MemInit
  <2>2. Buckets = {} /\ FreeBuckets = {}
    BY <2>1 DEF Buckets, FreeBuckets
  <2> QED
    BY <2>1, <2>2 DEF MemAbstract!Init, DeletedInLast
<1>2. MemInv /\ [Next]_vars => [MemAbstract!Next]_(MemAbstract!vars)
  BY ContainerSteps, MemRefines
<1>3. MemInv /\ DeletedInLast /\ [Next]_vars => DeletedInLast'
  BY ContainerSteps, DeletedInductive
<1> QED
  BY <1>1, <1>2, <1>3, PoolsInvariant, PTL DEF Spec, MemImplementsPool, MemAbstract!Spec

\* The object pool lends an object to one caller at a time, and an object of the
\* heap never enters its queue (object_pool.h:127-160).
THEOREM ObjectsArePooled == Spec => ObjImplementsPool
<1>1. Init => ObjAbstract!Init
  <2> SUFFICES ASSUME Init PROVE ObjAbstract!Init
    OBVIOUS
  <2>1. created = FALSE /\ objectQueue = NewQueue /\ objOut = {}
    BY DEF Init, ObjInit
  <2>2. Objects = {} /\ FreeObjects = {}
    BY <2>1, NothingQueued, FreeIsQueued DEF Objects
  <2> QED
    BY <2>1, <2>2 DEF ObjAbstract!Init
<1>2. ObjInv /\ [Next]_vars => [ObjAbstract!Next]_(ObjAbstract!vars)
  BY ContainerSteps, ObjRefines
<1> QED
  BY <1>1, <1>2, PoolsInvariant, PTL DEF Spec, ObjImplementsPool, ObjAbstract!Spec
=============================================================================
