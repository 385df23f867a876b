----------------------------- MODULE RedisLists -----------------------------
(***************************************************************************)
(* The redis lists that redis_queue_mover and queue_redis2redis move, seen *)
(* through the client they use: values enter a list on the left and leave  *)
(* it on the right, here the head of a sequence.  A call to a server is    *)
(* answered, or never reaches it, or is executed and its answer is lost.   *)
(* What a program popped it holds in memory until it has pushed it.        *)
(***************************************************************************)
EXTENDS Integers, FiniteSets, Sequences, SequencesExt

CONSTANTS Movers,      \* the threads that move, numbered from 0
          Batch,       \* argument --batch
          NumValues,   \* bound: values in the source lists
          MaxFailures, \* bound: calls that are not answered
          MaxKills     \* bound: SIGKILLs, each followed by a new process

ASSUME ListsAssumption == /\ Batch \in Nat \ {0} /\ NumValues \in Nat
                          /\ IsFiniteSet(Movers) /\ Movers = 0..(Cardinality(Movers) - 1)

VARIABLES program, queues, \* which program runs, and its number of lists
          source, target,  \* the lists; an entry of target names its mover
          failures, kills,
          hand,            \* local values, or logs
          at,              \* where each thread that moves is
          lost,            \* values that were popped and will not be pushed
          again            \* for each value the pushes of it without an answer

listVars == <<program, queues, source, target, failures, kills, hand, at, lost, again>>

Values == 1..NumValues
Empty == 0 \* the empty string, which is no value of a source list
Keys == 0..(queues - 1)
KeyOf(n) == n % queues

\* A list of each key, filled with the values that are its own, in order.
Filled == {s \in [Keys -> UNION {[1..n -> Values] : n \in 0..NumValues}] :
              \A q \in Keys : /\ \A v \in Values : v \in ToSet(s[q]) <=> KeyOf(v) = q
                             /\ \A i, j \in DOMAIN s[q] : i < j => s[q][i] < s[q][j]}

ListsInit == /\ queues \in 1..Cardinality(Movers)
             /\ source \in Filled
             /\ target = [q \in Keys |-> <<>>]
             /\ failures = 0 /\ kills = 0
             /\ hand = [t \in Movers |-> <<>>]
             /\ at = [t \in Movers |-> "opens"]
             /\ lost = {} /\ again = [v \in Values |-> 0]
-----------------------------------------------------------------------------
Taken(q) == SubSeq(source[q], 1, IF Len(source[q]) < Batch THEN Len(source[q]) ELSE Batch)
Left(q) == SubSeq(source[q], Len(Taken(q)) + 1, Len(source[q]))

\* rpop() answers with at most a batch, and t goes on at "pushes" or "tests".
RPop(t) == LET q == KeyOf(t) IN
           /\ source' = [source EXCEPT ![q] = Left(q)]
           /\ hand' = [hand EXCEPT ![t] = Taken(q)]
           /\ at' = [at EXCEPT ![t] = IF Taken(q) = <<>> THEN "tests" ELSE "pushes"]
           /\ UNCHANGED <<program, queues, target, failures, kills, lost, again>>

\* No answer to rpop(), executed or not; the client tries again or throws, and
\* t is then at `next' with the values h.
RPopFails(t, next, h) ==
    LET q == KeyOf(t) IN
    /\ failures < MaxFailures
    /\ failures' = failures + 1
    /\ \/ UNCHANGED <<source, lost>>
       \/ /\ source' = [source EXCEPT ![q] = Left(q)]
          /\ lost' = lost \cup ToSet(Taken(q))
    /\ \/ UNCHANGED <<at, hand>>
       \/ at' = [at EXCEPT ![t] = next] /\ hand' = [hand EXCEPT ![t] = h]
    /\ UNCHANGED <<program, queues, target, kills, again>>

Entries(t) == [i \in DOMAIN hand[t] |-> [value |-> hand[t][i], by |-> t]]

\* Mutant of Adds: the batch is pushed from its end.
AddsReversed(t, q) == target' = [target EXCEPT ![q] = @ \o Reverse(Entries(t))]

Adds(t, q) == target' = [target EXCEPT ![q] = @ \o Entries(t)]

\* lpush() of the values of t to the list q is answered, and t starts over.
LPush(t, q) == /\ Adds(t, q)
               /\ hand' = [hand EXCEPT ![t] = <<>>]
               /\ at' = [at EXCEPT ![t] = "tests"]
               /\ UNCHANGED <<program, queues, source, failures, kills, lost, again>>

\* lpush() is not answered, executed or not; the client or its caller tries again.
LPushFails(t, q) == /\ failures < MaxFailures
                    /\ failures' = failures + 1
                    /\ \/ UNCHANGED <<target, again>>
                       \/ /\ Adds(t, q)
                          /\ again' = [v \in Values |->
                                           again[v] + (IF v \in ToSet(hand[t]) THEN 1 ELSE 0)]
                    /\ UNCHANGED <<program, queues, source, kills, hand, at, lost>>

\* SIGKILL, and a new process: what the threads held is gone.
ProcessKilled == /\ kills < MaxKills
                 /\ kills' = kills + 1
                 /\ lost' = lost \cup ((UNION {ToSet(hand[t]) : t \in Movers}) \ {Empty})
                 /\ hand' = [t \in Movers |-> <<>>]
                 /\ at' = [t \in Movers |-> "opens"]
                 /\ UNCHANGED <<program, queues, source, target, failures, again>>
-----------------------------------------------------------------------------
\* Where v is in the target lists, and how often.
Places(v) == UNION {{<<q, i>> : i \in {j \in DOMAIN target[q] : target[q][j].value = v}} : q \in Keys}
Copies(v) == Cardinality(Places(v))
Indicator(b) == IF b THEN 1 ELSE 0

\* A value is in a source list, or in the hands of one thread, or lost with an
\* answer of rpop(), a kill or a stop, or it was pushed, and of these exactly
\* one; it is in the target lists once if it was pushed, and once more for every
\* answer of lpush() that was lost: moving neither drops nor repeats anything else.
Accounted ==
    \A v \in Values :
        /\ Copies(v) - again[v] \in {0, 1}
        /\ Copies(v) - again[v] + Indicator(v \in lost)
             + Cardinality({q \in Keys : v \in ToSet(source[q])})
             + Cardinality({t \in Movers : v \in ToSet(hand[t])}) = 1

\* A thread's values are in a target list in the order of the source list ("要求为
\* 左进右出"), in spite of failures and kills; only a repeated one may stand after
\* a later one.
OrderKept ==
    \A q \in Keys : \A i, j \in DOMAIN target[q] :
        LET a == target[q][i]
            b == target[q][j]
        IN  i < j /\ a.by = b.by /\ b.value # Empty /\ a.value > b.value
                => \E k \in 1..(i - 1) : target[q][k].value = b.value
=============================================================================
