------------------------ MODULE EventQueueProofs ------------------------
(***************************************************************************)
(* Theorems about CEventQueue for any finite sets of threads, any elements *)
(* and any capacity: type correctness, exact waiter counters, no thread    *)
(* left asleep while the queue can serve it, and the implementation of the *)
(* abstract bounded FIFO.                                                  *)
(***************************************************************************)
EXTENDS EventQueue, ArrayQueueProofs, FiniteSetTheorems

PcStates == {"idle"} \cup PushStates \cup PopStates

\* A thread inside push_back still carries the element it was called with.
PushCarriesElem == \A t \in Threads : pc[t] \in PushStates => elem[t] \in Elem

\* Only a queue built to wait has threads inside a wait.
WaitsIfAsked == \A t \in Threads : /\ pc[t] \in InPushWait => PushWaits
                                   /\ pc[t] \in InPopWait => PopWaits

\* The inductive invariant.  NoStrandedWaiter needs the exact counters (a push
\* that sees no waiting popper does not broadcast), the refinement needs the
\* ring to be well formed.
IInv == /\ TypeOK
        /\ WellFormed(rawQueue)
        /\ WaiterNumbersExact
        /\ NoStrandedWaiter
        /\ PushCarriesElem
        /\ WaitsIfAsked

Inside(p, S) == {u \in Threads : p[u] \in S}

\* One thread moves, the others stay on their side of S: the number of threads
\* in S changes by what that thread did.
LEMMA CountAfterMove ==
    ASSUME NEW p, NEW p2, NEW S, NEW t \in Threads,
           \A u \in Threads \ {t} : p2[u] \in S <=> p[u] \in S
    PROVE  /\ Cardinality(Inside(p, S)) \in Nat
           /\ Cardinality(Inside(p2, S)) = Cardinality(Inside(p, S))
                                         + (IF p2[t] \in S THEN 1 ELSE 0)
                                         - (IF p[t] \in S THEN 1 ELSE 0)
<1> DEFINE R == {u \in Threads \ {t} : p[u] \in S}
<1>1. IsFiniteSet(Threads)
  BY ThreadsAssumption, FS_Union DEF Threads
<1>2. IsFiniteSet(R)
  BY <1>1, FS_Subset
<1>3. Cardinality(R) \in Nat /\ Cardinality(R \cup {t}) = Cardinality(R) + 1
  BY <1>2, FS_CardinalityType, FS_AddElement
<1>4. Inside(p, S) = IF p[t] \in S THEN R \cup {t} ELSE R
  BY DEF Inside
<1>5. Inside(p2, S) = IF p2[t] \in S THEN R \cup {t} ELSE R
  BY DEF Inside
<1> QED
  BY <1>3, <1>4, <1>5

\* A broadcast moves every thread that waits, and only those, and each keeps
\* its side of every distinction the counters and the refinement make.
LEMMA WokenKeeps ==
    ASSUME NEW s \in PcStates
    PROVE  /\ Woken(s) \in PcStates
           /\ Woken(s) \notin {"pushWait", "popWait"}
           /\ Woken(s) \in InPushWait <=> s \in InPushWait
           /\ Woken(s) \in InPopWait <=> s \in InPopWait
           /\ Woken(s) \in PushStates <=> s \in PushStates
           /\ Woken(s) \in PopStates <=> s \in PopStates
           /\ s \notin {"pushWait", "popWait"} => Woken(s) = s
BY DEF Woken, PcStates, PushStates, PopStates, InPushWait, InPopWait

\* What a step of thread t may do to the other threads: nothing, or wake them.
OthersAtMostWoken(t) ==
    \A u \in Threads \ {t} : pc'[u] = pc[u] \/ pc'[u] = Woken(pc[u])

\* The counters after a step of t that at most wakes the others.
LEMMA CountersAfterStep ==
    ASSUME TypeOK, WaiterNumbersExact, NEW t \in Threads, OthersAtMostWoken(t),
           popWaiterNumber' = popWaiterNumber
                                + (IF pc'[t] \in InPopWait THEN 1 ELSE 0)
                                - (IF pc[t] \in InPopWait THEN 1 ELSE 0),
           pushWaiterNumber' = pushWaiterNumber
                                + (IF pc'[t] \in InPushWait THEN 1 ELSE 0)
                                - (IF pc[t] \in InPushWait THEN 1 ELSE 0)
    PROVE  WaiterNumbersExact'
<1>1. ASSUME NEW u \in Threads \ {t}
      PROVE  /\ pc'[u] \in InPopWait <=> pc[u] \in InPopWait
             /\ pc'[u] \in InPushWait <=> pc[u] \in InPushWait
  <2>1. pc[u] \in PcStates
    BY DEF TypeOK, PcStates
  <2>2. pc'[u] = pc[u] \/ pc'[u] = Woken(pc[u])
    BY DEF OthersAtMostWoken
  <2> QED
    BY <2>1, <2>2, WokenKeeps
<1>2. Cardinality(Inside(pc', InPopWait)) = Cardinality(Inside(pc, InPopWait))
                                + (IF pc'[t] \in InPopWait THEN 1 ELSE 0)
                                - (IF pc[t] \in InPopWait THEN 1 ELSE 0)
  BY <1>1, CountAfterMove
<1>3. Cardinality(Inside(pc', InPushWait)) = Cardinality(Inside(pc, InPushWait))
                                + (IF pc'[t] \in InPushWait THEN 1 ELSE 0)
                                - (IF pc[t] \in InPushWait THEN 1 ELSE 0)
  BY <1>1, CountAfterMove
<1> QED
  BY <1>2, <1>3 DEF WaiterNumbersExact, Inside, InPopWait, InPushWait

\* A counter that reads zero means that no thread is inside that wait.
LEMMA NoWaiterIfZero ==
    ASSUME TypeOK, WaiterNumbersExact
    PROVE  /\ popWaiterNumber \in Nat /\ pushWaiterNumber \in Nat
           /\ popWaiterNumber = 0 => \A u \in Threads : pc[u] \notin InPopWait
           /\ pushWaiterNumber = 0 => \A u \in Threads : pc[u] \notin InPushWait
<1>1. IsFiniteSet(Threads)
  BY ThreadsAssumption, FS_Union DEF Threads
<1>2. /\ IsFiniteSet(Inside(pc, InPopWait))
      /\ IsFiniteSet(Inside(pc, InPushWait))
  BY <1>1, FS_Subset DEF Inside
<1>3. /\ popWaiterNumber = Cardinality(Inside(pc, InPopWait))
      /\ pushWaiterNumber = Cardinality(Inside(pc, InPushWait))
  BY DEF WaiterNumbersExact, Inside
<1>4. popWaiterNumber \in Nat /\ pushWaiterNumber \in Nat
  BY <1>2, <1>3, FS_CardinalityType
<1>5. popWaiterNumber = 0 => Inside(pc, InPopWait) = {}
  BY <1>2, <1>3, FS_EmptySet
<1>6. pushWaiterNumber = 0 => Inside(pc, InPushWait) = {}
  BY <1>2, <1>3, FS_EmptySet
<1> QED
  BY <1>4, <1>5, <1>6 DEF Inside

\* One thread's own move.
LEMMA OwnMove ==
    ASSUME TypeOK, NEW t \in Threads, NEW s \in PcStates,
           pc' = [pc EXCEPT ![t] = s]
    PROVE  /\ pc' \in [Threads -> PcStates]
           /\ pc'[t] = s
           /\ \A u \in Threads \ {t} : pc'[u] = pc[u]
           /\ OthersAtMostWoken(t)
BY DEF TypeOK, PcStates, OthersAtMostWoken

\* A return that broadcasts: nobody is blocked in a wait afterwards.
LEMMA BroadcastMove ==
    ASSUME TypeOK, NEW t \in Threads, pc' = Broadcast(Return(t))
    PROVE  /\ pc' \in [Threads -> PcStates]
           /\ pc'[t] = "idle"
           /\ \A u \in Threads \ {t} : pc'[u] = Woken(pc[u])
           /\ OthersAtMostWoken(t)
           /\ \A u \in Threads : pc'[u] \notin {"pushWait", "popWait"}
<1> DEFINE r == Return(t)
<1>1. r \in [Threads -> PcStates] /\ r[t] = "idle"
      /\ \A u \in Threads \ {t} : r[u] = pc[u]
  BY DEF TypeOK, PcStates, Return
<1>2. pc' = [u \in Threads |-> Woken(r[u])]
  BY DEF Broadcast
<1> HIDE DEF r
<1>3. \A u \in Threads : Woken(r[u]) \in PcStates /\ Woken(r[u]) \notin {"pushWait", "popWait"}
  BY <1>1, WokenKeeps
<1>4. Woken("idle") = "idle"
  BY DEF Woken
<1> QED
  BY <1>1, <1>2, <1>3, <1>4 DEF OthersAtMostWoken

\* The typing facts and the thread-local parts of the invariant, after a step
\* of t that leaves every other thread's argument alone.
LEMMA LocalParts ==
    ASSUME IInv, NEW t \in Threads, OthersAtMostWoken(t),
           pc' \in [Threads -> PcStates],
           \A u \in Threads \ {t} : elem'[u] = elem[u],
           pc'[t] \in PushStates => elem'[t] \in Elem,
           pc'[t] \in InPushWait => PushWaits,
           pc'[t] \in InPopWait => PopWaits
    PROVE  PushCarriesElem' /\ WaitsIfAsked'
<1>1. ASSUME NEW u \in Threads
      PROVE  /\ pc'[u] \in PushStates => elem'[u] \in Elem
             /\ pc'[u] \in InPushWait => PushWaits
             /\ pc'[u] \in InPopWait => PopWaits
  <2>1. CASE u = t
    BY <2>1
  <2>2. CASE u # t
    <3>1. pc[u] \in PcStates
      BY DEF IInv, TypeOK, PcStates
    <3>2. /\ pc'[u] \in PushStates <=> pc[u] \in PushStates
          /\ pc'[u] \in InPushWait <=> pc[u] \in InPushWait
          /\ pc'[u] \in InPopWait <=> pc[u] \in InPopWait
      BY <2>2, <3>1, WokenKeeps DEF OthersAtMostWoken
    <3> QED
      BY <2>2, <3>2 DEF IInv, PushCarriesElem, WaitsIfAsked
  <2> QED
    BY <2>1, <2>2
<1> QED
  BY <1>1 DEF PushCarriesElem, WaitsIfAsked

\* The initial states satisfy the invariant.
LEMMA InitEstablishes == Init => IInv
<1> SUFFICES ASSUME Init PROVE IInv
  OBVIOUS
<1>1. WellFormed(rawQueue)
  BY NewQueueWellFormed DEF Init
<1>2. TypeOK
  BY <1>1, SpuriousAssumption DEF Init, TypeOK, WellFormed
<1>3. WaiterNumbersExact
  <2>1. \A t \in Threads : pc[t] \notin InPopWait /\ pc[t] \notin InPushWait
    BY DEF Init, InPopWait, InPushWait
  <2>2. /\ {t \in Threads : pc[t] \in InPopWait} = {}
        /\ {t \in Threads : pc[t] \in InPushWait} = {}
    BY <2>1
  <2> QED
    BY <2>2, FS_EmptySet DEF Init, WaiterNumbersExact
<1>4. NoStrandedWaiter /\ PushCarriesElem /\ WaitsIfAsked
  BY DEF Init, NoStrandedWaiter, PushCarriesElem, WaitsIfAsked, PushStates,
         InPushWait, InPopWait
<1> QED
  BY <1>1, <1>2, <1>3, <1>4 DEF IInv

\* push_back appends: whoever waits for data is woken, and nobody was waiting
\* for room.
LEMMA PushBackEnqueuesKeeps ==
    ASSUME IInv, NEW t \in Threads, PushBackEnqueues(t)
    PROVE  IInv'
<1> USE DEF IInv
<1>1. pc[t] \in {"push", "pushWoken"} /\ elem[t] \in Elem
  BY DEF PushBackEnqueues, PushCarriesElem, PushStates
<1>2. WellFormed(rawQueue')
  BY <1>1, PushBackAppends DEF PushBackEnqueues
<1>3. /\ pc' \in [Threads -> PcStates] /\ pc'[t] = "idle" /\ OthersAtMostWoken(t)
      /\ \A u \in Threads : pc'[u] = "popWait" => pc[u] = "popWait" /\ popWaiterNumber <= 0
      /\ \A u \in Threads : pc'[u] = "pushWait" => pc[u] = "pushWait"
  <2>1. CASE popWaiterNumber > 0
    BY <2>1, BroadcastMove DEF PushBackEnqueues
  <2>2. CASE ~(popWaiterNumber > 0)
    <3>1. pc' = [pc EXCEPT ![t] = "idle"]
      BY <2>2 DEF PushBackEnqueues, Return
    <3>2. "idle" \in PcStates
      BY DEF PcStates
    <3>3. /\ pc' \in [Threads -> PcStates] /\ pc'[t] = "idle" /\ OthersAtMostWoken(t)
          /\ \A u \in Threads \ {t} : pc'[u] = pc[u]
      BY <3>1, <3>2, OwnMove
    <3>4. popWaiterNumber <= 0
      BY <2>2 DEF TypeOK
    <3> QED
      BY <3>3, <3>4
  <2> QED
    BY <2>1, <2>2
<1>4. TypeOK'
  BY <1>2, <1>3 DEF TypeOK, WellFormed, PcStates, PushBackEnqueues, PushLeavesWait
<1>5. WaiterNumbersExact'
  <2>1. pushWaiterNumber' = pushWaiterNumber - (IF pc[t] = "pushWoken" THEN 1 ELSE 0)
        /\ popWaiterNumber' = popWaiterNumber
    BY DEF PushBackEnqueues, PushLeavesWait
  <2> QED
    BY <1>1, <1>3, <2>1, CountersAfterStep DEF TypeOK, InPushWait, InPopWait
<1>6. NoStrandedWaiter'
  <2>1. \A u \in Threads : pc'[u] # "popWait"
    BY <1>3, NoWaiterIfZero DEF InPopWait
  <2>2. \A u \in Threads : pc'[u] # "pushWait"
    BY <1>3 DEF NoStrandedWaiter, PushBackEnqueues
  <2> QED
    BY <2>1, <2>2 DEF NoStrandedWaiter
<1>7. PushCarriesElem' /\ WaitsIfAsked'
  BY <1>3, LocalParts DEF PushBackEnqueues, PushStates, InPushWait, InPopWait
<1> QED
  BY <1>2, <1>4, <1>5, <1>6, <1>7

\* pop_front takes: whoever waits for room is woken, and nobody was waiting for
\* data.
LEMMA PopFrontDequeuesKeeps ==
    ASSUME IInv, NEW t \in Threads, PopFrontDequeues(t)
    PROVE  IInv'
<1> USE DEF IInv
<1>1. pc[t] \in {"pop", "popWoken"}
  BY DEF PopFrontDequeues
<1>2. WellFormed(rawQueue') /\ Front(rawQueue) \in Elem
  BY PopFrontTakesOldest DEF PopFrontDequeues
<1>3. /\ pc' \in [Threads -> PcStates] /\ pc'[t] = "idle" /\ OthersAtMostWoken(t)
      /\ \A u \in Threads : pc'[u] = "pushWait" => pc[u] = "pushWait" /\ pushWaiterNumber <= 0
      /\ \A u \in Threads : pc'[u] = "popWait" => pc[u] = "popWait"
  <2>1. CASE pushWaiterNumber > 0
    BY <2>1, BroadcastMove DEF PopFrontDequeues
  <2>2. CASE ~(pushWaiterNumber > 0)
    <3>1. pc' = [pc EXCEPT ![t] = "idle"]
      BY <2>2 DEF PopFrontDequeues, Return
    <3>2. "idle" \in PcStates
      BY DEF PcStates
    <3>3. /\ pc' \in [Threads -> PcStates] /\ pc'[t] = "idle" /\ OthersAtMostWoken(t)
          /\ \A u \in Threads \ {t} : pc'[u] = pc[u]
      BY <3>1, <3>2, OwnMove
    <3>4. pushWaiterNumber <= 0
      BY <2>2 DEF TypeOK
    <3> QED
      BY <3>3, <3>4
  <2> QED
    BY <2>1, <2>2
<1>4. TypeOK'
  BY <1>2, <1>3 DEF TypeOK, WellFormed, PcStates, PopFrontDequeues, PopLeavesWait
<1>5. WaiterNumbersExact'
  <2>1. popWaiterNumber' = popWaiterNumber - (IF pc[t] = "popWoken" THEN 1 ELSE 0)
        /\ pushWaiterNumber' = pushWaiterNumber
    BY DEF PopFrontDequeues, PopLeavesWait
  <2> QED
    BY <1>1, <1>3, <2>1, CountersAfterStep DEF TypeOK, InPushWait, InPopWait
<1>6. NoStrandedWaiter'
  <2>1. \A u \in Threads : pc'[u] # "pushWait"
    BY <1>3, NoWaiterIfZero DEF InPushWait
  <2>2. \A u \in Threads : pc'[u] # "popWait"
    BY <1>3 DEF NoStrandedWaiter, PopFrontDequeues
  <2> QED
    BY <2>1, <2>2 DEF NoStrandedWaiter
<1>7. PushCarriesElem' /\ WaitsIfAsked'
  BY <1>1, <1>3, LocalParts DEF PopFrontDequeues, TypeOK, PushStates, InPushWait, InPopWait
<1> QED
  BY <1>2, <1>4, <1>5, <1>6, <1>7

\* The steps that leave the ring alone and move one thread: the four parts of
\* the invariant follow from where that thread was and where it is.
LEMMA QuietMoveKeeps ==
    ASSUME IInv, NEW t \in Threads, NEW s \in PcStates,
           pc' = [pc EXCEPT ![t] = s], rawQueue' = rawQueue, TypeOK',
           \A u \in Threads \ {t} : elem'[u] = elem[u],
           popWaiterNumber' = popWaiterNumber
                                + (IF s \in InPopWait THEN 1 ELSE 0)
                                - (IF pc[t] \in InPopWait THEN 1 ELSE 0),
           pushWaiterNumber' = pushWaiterNumber
                                + (IF s \in InPushWait THEN 1 ELSE 0)
                                - (IF pc[t] \in InPushWait THEN 1 ELSE 0),
           s = "popWait" => IsEmpty(rawQueue),
           s = "pushWait" => IsFull(rawQueue),
           s \in PushStates => elem'[t] \in Elem,
           s \in InPushWait => PushWaits,
           s \in InPopWait => PopWaits
    PROVE  IInv'
<1> USE DEF IInv
<1>1. /\ pc' \in [Threads -> PcStates] /\ pc'[t] = s /\ OthersAtMostWoken(t)
      /\ \A u \in Threads \ {t} : pc'[u] = pc[u]
  BY OwnMove
<1>2. WaiterNumbersExact'
  BY <1>1, CountersAfterStep
<1>3. NoStrandedWaiter'
  BY <1>1 DEF NoStrandedWaiter
<1>4. PushCarriesElem' /\ WaitsIfAsked'
  BY <1>1, LocalParts
<1> QED
  BY <1>2, <1>3, <1>4


\* Every step keeps the invariant: one case per action.
LEMMA StepKeeps == IInv /\ [Next]_vars => IInv'
<1> SUFFICES ASSUME IInv, [Next]_vars PROVE IInv'
  OBVIOUS
<1> USE DEF PcStates, PushStates, PopStates, InPushWait, InPopWait
<1>0. TypeOK /\ popWaiterNumber \in Int /\ pushWaiterNumber \in Int
  BY DEF IInv, TypeOK
<1>1. ASSUME NEW t \in Threads, NEW e \in Elem, CallPushBack(t, e)
      PROVE  IInv'
  <2>1. TypeOK'
    BY <1>0, <1>1 DEF TypeOK, CallPushBack
  <2>2. /\ popWaiterNumber' = popWaiterNumber
                               + (IF "push" \in InPopWait THEN 1 ELSE 0)
                               - (IF pc[t] \in InPopWait THEN 1 ELSE 0)
        /\ pushWaiterNumber' = pushWaiterNumber
                               + (IF "push" \in InPushWait THEN 1 ELSE 0)
                               - (IF pc[t] \in InPushWait THEN 1 ELSE 0)
    BY <1>0, <1>1 DEF CallPushBack
  <2>3. pc' = [pc EXCEPT ![t] = "push"] /\ rawQueue' = rawQueue
    BY <1>1 DEF CallPushBack
  <2>4. /\ \A u \in Threads \ {t} : elem'[u] = elem[u]
        /\ "push" \in PushStates => elem'[t] \in Elem
    BY <1>0, <1>1 DEF IInv, TypeOK, PushCarriesElem, CallPushBack
  <2>5. /\ "push" = "popWait" => IsEmpty(rawQueue)
        /\ "push" = "pushWait" => IsFull(rawQueue)
        /\ "push" \in InPushWait => PushWaits
        /\ "push" \in InPopWait => PopWaits
    BY <1>1 DEF CallPushBack
  <2> QED
    BY <2>1, <2>2, <2>3, <2>4, <2>5, QuietMoveKeeps
<1>2. ASSUME NEW t \in Threads, CallPopFront(t)
      PROVE  IInv'
  <2>1. TypeOK'
    BY <1>0, <1>2 DEF TypeOK, CallPopFront
  <2>2. /\ popWaiterNumber' = popWaiterNumber
                               + (IF "pop" \in InPopWait THEN 1 ELSE 0)
                               - (IF pc[t] \in InPopWait THEN 1 ELSE 0)
        /\ pushWaiterNumber' = pushWaiterNumber
                               + (IF "pop" \in InPushWait THEN 1 ELSE 0)
                               - (IF pc[t] \in InPushWait THEN 1 ELSE 0)
    BY <1>0, <1>2 DEF CallPopFront
  <2>3. pc' = [pc EXCEPT ![t] = "pop"] /\ rawQueue' = rawQueue
    BY <1>2 DEF CallPopFront
  <2>4. /\ \A u \in Threads \ {t} : elem'[u] = elem[u]
        /\ "pop" \in PushStates => elem'[t] \in Elem
    BY <1>0, <1>2 DEF IInv, TypeOK, PushCarriesElem, CallPopFront
  <2>5. /\ "pop" = "popWait" => IsEmpty(rawQueue)
        /\ "pop" = "pushWait" => IsFull(rawQueue)
        /\ "pop" \in InPushWait => PushWaits
        /\ "pop" \in InPopWait => PopWaits
    BY <1>2 DEF CallPopFront
  <2> QED
    BY <2>1, <2>2, <2>3, <2>4, <2>5, QuietMoveKeeps
<1>3. ASSUME NEW t \in Threads, PushBackWaits(t)
      PROVE  IInv'
  <2>1. TypeOK'
    BY <1>0, <1>3 DEF TypeOK, PushBackWaits, PushLeavesWait
  <2>2. /\ popWaiterNumber' = popWaiterNumber
                               + (IF "pushWait" \in InPopWait THEN 1 ELSE 0)
                               - (IF pc[t] \in InPopWait THEN 1 ELSE 0)
        /\ pushWaiterNumber' = pushWaiterNumber
                               + (IF "pushWait" \in InPushWait THEN 1 ELSE 0)
                               - (IF pc[t] \in InPushWait THEN 1 ELSE 0)
    BY <1>0, <1>3 DEF PushBackWaits, PushLeavesWait
  <2>3. pc' = [pc EXCEPT ![t] = "pushWait"] /\ rawQueue' = rawQueue
    BY <1>3 DEF PushBackWaits, PushLeavesWait
  <2>4. /\ \A u \in Threads \ {t} : elem'[u] = elem[u]
        /\ "pushWait" \in PushStates => elem'[t] \in Elem
    BY <1>0, <1>3 DEF IInv, TypeOK, PushCarriesElem, PushBackWaits, PushLeavesWait
  <2>5. /\ "pushWait" = "popWait" => IsEmpty(rawQueue)
        /\ "pushWait" = "pushWait" => IsFull(rawQueue)
        /\ "pushWait" \in InPushWait => PushWaits
        /\ "pushWait" \in InPopWait => PopWaits
    BY <1>3 DEF PushBackWaits, PushLeavesWait
  <2> QED
    BY <2>1, <2>2, <2>3, <2>4, <2>5, QuietMoveKeeps
<1>4. ASSUME NEW t \in Threads, PushBackRefused(t)
      PROVE  IInv'
  <2>1. TypeOK'
    BY <1>0, <1>4 DEF TypeOK, PushBackRefused, Return
  <2>2. /\ popWaiterNumber' = popWaiterNumber
                               + (IF "idle" \in InPopWait THEN 1 ELSE 0)
                               - (IF pc[t] \in InPopWait THEN 1 ELSE 0)
        /\ pushWaiterNumber' = pushWaiterNumber
                               + (IF "idle" \in InPushWait THEN 1 ELSE 0)
                               - (IF pc[t] \in InPushWait THEN 1 ELSE 0)
    BY <1>0, <1>4 DEF PushBackRefused, Return
  <2>3. pc' = [pc EXCEPT ![t] = "idle"] /\ rawQueue' = rawQueue
    BY <1>4 DEF PushBackRefused, Return
  <2>4. /\ \A u \in Threads \ {t} : elem'[u] = elem[u]
        /\ "idle" \in PushStates => elem'[t] \in Elem
    BY <1>0, <1>4 DEF IInv, TypeOK, PushCarriesElem, PushBackRefused, Return
  <2>5. /\ "idle" = "popWait" => IsEmpty(rawQueue)
        /\ "idle" = "pushWait" => IsFull(rawQueue)
        /\ "idle" \in InPushWait => PushWaits
        /\ "idle" \in InPopWait => PopWaits
    BY <1>4 DEF PushBackRefused, Return
  <2> QED
    BY <2>1, <2>2, <2>3, <2>4, <2>5, QuietMoveKeeps
<1>5. ASSUME NEW t \in Threads, PopFrontWaits(t)
      PROVE  IInv'
  <2>1. TypeOK'
    BY <1>0, <1>5 DEF TypeOK, PopFrontWaits, PopLeavesWait
  <2>2. /\ popWaiterNumber' = popWaiterNumber
                               + (IF "popWait" \in InPopWait THEN 1 ELSE 0)
                               - (IF pc[t] \in InPopWait THEN 1 ELSE 0)
        /\ pushWaiterNumber' = pushWaiterNumber
                               + (IF "popWait" \in InPushWait THEN 1 ELSE 0)
                               - (IF pc[t] \in InPushWait THEN 1 ELSE 0)
    BY <1>0, <1>5 DEF PopFrontWaits, PopLeavesWait
  <2>3. pc' = [pc EXCEPT ![t] = "popWait"] /\ rawQueue' = rawQueue
    BY <1>5 DEF PopFrontWaits, PopLeavesWait
  <2>4. /\ \A u \in Threads \ {t} : elem'[u] = elem[u]
        /\ "popWait" \in PushStates => elem'[t] \in Elem
    BY <1>0, <1>5 DEF IInv, TypeOK, PushCarriesElem, PopFrontWaits, PopLeavesWait
  <2>5. /\ "popWait" = "popWait" => IsEmpty(rawQueue)
        /\ "popWait" = "pushWait" => IsFull(rawQueue)
        /\ "popWait" \in InPushWait => PushWaits
        /\ "popWait" \in InPopWait => PopWaits
    BY <1>5 DEF PopFrontWaits, PopLeavesWait
  <2> QED
    BY <2>1, <2>2, <2>3, <2>4, <2>5, QuietMoveKeeps
<1>6. ASSUME NEW t \in Threads, PopFrontRefused(t)
      PROVE  IInv'
  <2>1. TypeOK'
    BY <1>0, <1>6 DEF TypeOK, PopFrontRefused, Return
  <2>2. /\ popWaiterNumber' = popWaiterNumber
                               + (IF "idle" \in InPopWait THEN 1 ELSE 0)
                               - (IF pc[t] \in InPopWait THEN 1 ELSE 0)
        /\ pushWaiterNumber' = pushWaiterNumber
                               + (IF "idle" \in InPushWait THEN 1 ELSE 0)
                               - (IF pc[t] \in InPushWait THEN 1 ELSE 0)
    BY <1>0, <1>6 DEF PopFrontRefused, Return
  <2>3. pc' = [pc EXCEPT ![t] = "idle"] /\ rawQueue' = rawQueue
    BY <1>6 DEF PopFrontRefused, Return
  <2>4. /\ \A u \in Threads \ {t} : elem'[u] = elem[u]
        /\ "idle" \in PushStates => elem'[t] \in Elem
    BY <1>0, <1>6 DEF IInv, TypeOK, PushCarriesElem, PopFrontRefused, Return
  <2>5. /\ "idle" = "popWait" => IsEmpty(rawQueue)
        /\ "idle" = "pushWait" => IsFull(rawQueue)
        /\ "idle" \in InPushWait => PushWaits
        /\ "idle" \in InPopWait => PopWaits
    BY <1>6 DEF PopFrontRefused, Return
  <2> QED
    BY <2>1, <2>2, <2>3, <2>4, <2>5, QuietMoveKeeps
<1>7. ASSUME NEW t \in Threads, TimesOut(t)
      PROVE  IInv'
  <2>1. TypeOK'
    BY <1>0, <1>7 DEF TypeOK, TimesOut, Woken
  <2>2. PICK s \in PcStates : /\ pc' = [pc EXCEPT ![t] = s]
                              /\ \/ pc[t] = "pushWait" /\ s \in InPushWait \ {"pushWait"}
                                 \/ pc[t] = "popWait" /\ s \in InPopWait \ {"popWait"}
    BY <1>7 DEF TimesOut, Woken
  <2>3. /\ popWaiterNumber' = popWaiterNumber
                               + (IF s \in InPopWait THEN 1 ELSE 0)
                               - (IF pc[t] \in InPopWait THEN 1 ELSE 0)
        /\ pushWaiterNumber' = pushWaiterNumber
                               + (IF s \in InPushWait THEN 1 ELSE 0)
                               - (IF pc[t] \in InPushWait THEN 1 ELSE 0)
    BY <1>0, <1>7, <2>2 DEF TimesOut
  <2>4. /\ s \in PushStates => elem'[t] \in Elem
        /\ s \in InPushWait => PushWaits
        /\ s \in InPopWait => PopWaits
    BY <1>7, <2>2 DEF TimesOut, IInv, PushCarriesElem, WaitsIfAsked
  <2>5. rawQueue' = rawQueue /\ elem' = elem
    BY <1>7 DEF TimesOut
  <2> QED
    BY <2>1, <2>2, <2>3, <2>4, <2>5, QuietMoveKeeps
<1>8. ASSUME NEW t \in Threads, WakesSpuriously(t)
      PROVE  IInv'
  <2>0. Woken(pc[t]) \in PcStates /\ pc[t] \in {"pushWait", "popWait"}
    BY <1>0, <1>8, WokenKeeps DEF TypeOK, WakesSpuriously
  <2>1. TypeOK'
    BY <1>0, <1>8, <2>0, SpuriousAssumption DEF TypeOK, WakesSpuriously
  <2>2. PICK s \in PcStates : /\ pc' = [pc EXCEPT ![t] = s]
                              /\ \/ pc[t] = "pushWait" /\ s \in InPushWait \ {"pushWait"}
                                 \/ pc[t] = "popWait" /\ s \in InPopWait \ {"popWait"}
    <3>1. /\ pc[t] = "pushWait" => Woken(pc[t]) = "pushWoken"
          /\ pc[t] = "popWait" => Woken(pc[t]) = "popWoken"
      BY DEF Woken
    <3>2. pc' = [pc EXCEPT ![t] = Woken(pc[t])]
      BY <1>8 DEF WakesSpuriously
    <3> QED
      BY <2>0, <3>1, <3>2
  <2>3. /\ popWaiterNumber' = popWaiterNumber
                               + (IF s \in InPopWait THEN 1 ELSE 0)
                               - (IF pc[t] \in InPopWait THEN 1 ELSE 0)
        /\ pushWaiterNumber' = pushWaiterNumber
                               + (IF s \in InPushWait THEN 1 ELSE 0)
                               - (IF pc[t] \in InPushWait THEN 1 ELSE 0)
    BY <1>0, <1>8, <2>2 DEF WakesSpuriously
  <2>4. /\ s \in PushStates => elem'[t] \in Elem
        /\ s \in InPushWait => PushWaits
        /\ s \in InPopWait => PopWaits
    BY <1>8, <2>2 DEF WakesSpuriously, IInv, PushCarriesElem, WaitsIfAsked
  <2>5. rawQueue' = rawQueue /\ elem' = elem
    BY <1>8 DEF WakesSpuriously
  <2> QED
    BY <2>1, <2>2, <2>3, <2>4, <2>5, QuietMoveKeeps
<1>9. CASE UNCHANGED vars
  BY <1>9 DEF vars, IInv, TypeOK, WaiterNumbersExact, NoStrandedWaiter,
              PushCarriesElem, WaitsIfAsked
<1> QED
  BY <1>1, <1>2, <1>3, <1>4, <1>5, <1>6, <1>7, <1>8, <1>9,
     PushBackEnqueuesKeeps, PopFrontDequeuesKeeps
     DEF Next, Threads, PushStep, PopStep

\* Every reachable state satisfies the invariant.
THEOREM Invariance == Spec => []IInv
<1> QED
  BY InitEstablishes, StepKeeps, PTL DEF Spec

\* The queue's fields stay a ring and its counters stay integers.
THEOREM TypeCorrect == Spec => []TypeOK
<1>1. IInv => TypeOK
  BY DEF IInv
<1> QED
  BY <1>1, Invariance, PTL

\* _pop_waiter_number and _push_waiter_number count the threads inside a wait.
THEOREM CountersExact == Spec => []WaiterNumbersExact
<1>1. IInv => WaiterNumbersExact
  BY DEF IInv
<1> QED
  BY <1>1, Invariance, PTL

\* No thread is blocked in timed_wait while the queue can serve it.
THEOREM NobodyStranded == Spec => []NoStrandedWaiter
<1>1. IInv => NoStrandedWaiter
  BY DEF IInv
<1> QED
  BY <1>1, Invariance, PTL
-----------------------------------------------------------------------------
(***************************************************************************)
(* The implementation of BoundedFifo.  A waiting, woken or timed out thread*)
(* is still pending, so waits, wake-ups and time-outs are stutters; each   *)
(* critical section that leaves the call is the one step it promises.      *)
(***************************************************************************)
Pending(p) == [t \in Threads |-> IF p[t] \in PushStates THEN "push"
                                 ELSE IF p[t] \in PopStates THEN "pop"
                                 ELSE "none"]

\* A broadcast, or nothing, leaves the others pending on what they asked for.
LEMMA PendingAfterMove ==
    ASSUME TypeOK, NEW t \in Threads, OthersAtMostWoken(t)
    PROVE  Pending(pc') =
             [Pending(pc) EXCEPT ![t] = IF pc'[t] \in PushStates THEN "push"
                                        ELSE IF pc'[t] \in PopStates THEN "pop"
                                        ELSE "none"]
<1>1. ASSUME NEW u \in Threads \ {t}
      PROVE  /\ pc'[u] \in PushStates <=> pc[u] \in PushStates
             /\ pc'[u] \in PopStates <=> pc[u] \in PopStates
  <2>1. pc[u] \in PcStates
    BY DEF TypeOK, PcStates
  <2> QED
    BY <2>1, WokenKeeps DEF OthersAtMostWoken
<1> QED
  BY <1>1 DEF Pending

\* A return, with or without a broadcast, makes the thread idle.
LEMMA ReturnMove ==
    ASSUME TypeOK, NEW t \in Threads,
           pc' = Return(t) \/ pc' = Broadcast(Return(t))
    PROVE  Pending(pc') = [Pending(pc) EXCEPT ![t] = "none"]
<1>1. pc'[t] = "idle" /\ OthersAtMostWoken(t)
  <2>1. CASE pc' = Return(t)
    <3>1. pc' = [pc EXCEPT ![t] = "idle"] /\ "idle" \in PcStates
      BY <2>1 DEF Return, PcStates
    <3> QED
      BY <3>1, OwnMove
  <2>2. CASE pc' = Broadcast(Return(t))
    BY <2>2, BroadcastMove
  <2> QED
    BY <2>1, <2>2
<1> QED
  BY <1>1, PendingAfterMove DEF PushStates, PopStates

\* The initial states map to the abstract initial state.
LEMMA InitRefines == Init => Fifo!FifoInit
<1> SUFFICES ASSUME Init PROVE Fifo!FifoInit
  OBVIOUS
<1>1. Contents(rawQueue) = <<>>
  BY NewQueueWellFormed DEF Init
<1> QED
  BY <1>1 DEF Init, Fifo!FifoInit, Fifo!Clients, Threads, PushStates, PopStates

\* Every step maps to an abstract step or to a stutter.
LEMMA StepRefines == IInv /\ [Next]_vars => [Fifo!FifoNext]_(Fifo!fifoVars)
<1> SUFFICES ASSUME IInv, [Next]_vars PROVE [Fifo!FifoNext]_(Fifo!fifoVars)
  OBVIOUS
<1> DEFINE fifo == Contents(rawQueue)
<1>0. /\ TypeOK /\ fifo \in Seq(Elem) /\ Len(fifo) = rawQueue.size
      /\ rawQueue.size \in 0 .. QueueMax /\ QueueMax \in Nat
  BY ContentsLength, QueueMaxAssumption DEF IInv
<1>p. \A t \in Threads : Pending(pc)[t] = IF pc[t] \in PushStates THEN "push"
                                ELSE IF pc[t] \in PopStates THEN "pop" ELSE "none"
  BY DEF Pending
<1>1. ASSUME NEW t \in Producers, NEW e \in Elem, CallPushBack(t, e)
      PROVE  Fifo!AskPush(t, e)
  <2>1. t \in Threads /\ "push" \in PcStates
    BY DEF Threads, PcStates, PushStates
  <2>2. pc'[t] = "push" /\ OthersAtMostWoken(t)
    BY <1>0, <1>1, <2>1, OwnMove DEF CallPushBack
  <2>3. Pending(pc') = [Pending(pc) EXCEPT ![t] = "push"]
    BY <1>0, <2>1, <2>2, PendingAfterMove DEF PushStates
  <2>4. Pending(pc)[t] = "none"
    BY <1>1, <1>p, <2>1 DEF CallPushBack, PushStates, PopStates
  <2> QED
    BY <1>1, <2>3, <2>4 DEF Fifo!AskPush, CallPushBack, Pending
<1>2. ASSUME NEW t \in Consumers, CallPopFront(t)
      PROVE  Fifo!AskPop(t)
  <2>1. t \in Threads /\ "pop" \in PcStates
    BY DEF Threads, PcStates, PopStates
  <2>2. pc'[t] = "pop" /\ OthersAtMostWoken(t)
    BY <1>0, <1>2, <2>1, OwnMove DEF CallPopFront
  <2>3. Pending(pc') = [Pending(pc) EXCEPT ![t] = "pop"]
    BY <1>0, <2>1, <2>2, PendingAfterMove DEF PushStates, PopStates
  <2>4. Pending(pc)[t] = "none"
    BY <1>2, <1>p, <2>1 DEF CallPopFront, PushStates, PopStates
  <2> QED
    BY <1>2, <2>3, <2>4 DEF Fifo!AskPop, CallPopFront, Pending
<1>3. ASSUME NEW t \in Producers, PushBackEnqueues(t)
      PROVE  Fifo!PushDone(t)
  <2>1. t \in Threads /\ pc[t] \in PushStates
    BY <1>3 DEF Threads, PushBackEnqueues, PushStates
  <2>2. Contents(rawQueue') = Append(Contents(rawQueue), elem[t])
    BY <1>3, <2>1, PushBackAppends DEF IInv, PushCarriesElem, PushBackEnqueues
  <2>3. Len(Contents(rawQueue)) < QueueMax
    BY <1>0, <1>3 DEF PushBackEnqueues, IsFull
  <2>4. Pending(pc') = [Pending(pc) EXCEPT ![t] = "none"]
    BY <1>0, <1>3, <2>1, ReturnMove DEF PushBackEnqueues
  <2>5. Pending(pc)[t] = "push"
    BY <1>p, <2>1
  <2> QED
    BY <1>3, <2>2, <2>3, <2>4, <2>5
       DEF Fifo!PushDone, Fifo!Done, PushBackEnqueues, Pending
<1>4. ASSUME NEW t \in Consumers, PopFrontDequeues(t)
      PROVE  Fifo!PopDone(t)
  <2>1. t \in Threads /\ pc[t] \in PopStates /\ pc[t] \notin PushStates
    BY <1>4 DEF Threads, PopFrontDequeues, PopStates, PushStates
  <2>2. /\ Contents(rawQueue) # <<>>
        /\ Front(rawQueue) = Head(Contents(rawQueue))
        /\ Contents(rawQueue') = Tail(Contents(rawQueue))
    BY <1>4, PopFrontTakesOldest DEF IInv, PopFrontDequeues
  <2>3. Pending(pc') = [Pending(pc) EXCEPT ![t] = "none"]
    BY <1>0, <1>4, <2>1, ReturnMove DEF PopFrontDequeues
  <2>4. Pending(pc)[t] = "pop"
    BY <1>p, <2>1
  <2> QED
    BY <1>4, <2>2, <2>3, <2>4
       DEF Fifo!PopDone, Fifo!Done, PopFrontDequeues, Pending
<1>5. ASSUME NEW t \in Producers, PushBackRefused(t)
      PROVE  Fifo!PushRefused(t)
  <2>1. t \in Threads /\ pc[t] \in PushStates
    BY <1>5 DEF Threads, PushBackRefused, PushStates
  <2>2. PushWaits \/ Len(Contents(rawQueue)) = QueueMax
    BY <1>0, <1>5, <2>1 DEF PushBackRefused, IsFull, IInv, WaitsIfAsked, InPushWait
  <2>3. Pending(pc') = [Pending(pc) EXCEPT ![t] = "none"]
    BY <1>0, <1>5, <2>1, ReturnMove DEF PushBackRefused
  <2>4. Pending(pc)[t] = "push"
    BY <1>p, <2>1
  <2> QED
    BY <1>5, <2>2, <2>3, <2>4
       DEF Fifo!PushRefused, Fifo!Done, PushBackRefused, Pending
<1>6. ASSUME NEW t \in Consumers, PopFrontRefused(t)
      PROVE  Fifo!PopRefused(t)
  <2>1. t \in Threads /\ pc[t] \in PopStates /\ pc[t] \notin PushStates
    BY <1>6 DEF Threads, PopFrontRefused, PopStates, PushStates
  <2>2. PopWaits \/ Contents(rawQueue) = <<>>
    BY <1>0, <1>6, <2>1 DEF PopFrontRefused, IsEmpty, IInv, WaitsIfAsked, InPopWait
  <2>3. Pending(pc') = [Pending(pc) EXCEPT ![t] = "none"]
    BY <1>0, <1>6, <2>1, ReturnMove DEF PopFrontRefused
  <2>4. Pending(pc)[t] = "pop"
    BY <1>p, <2>1
  <2> QED
    BY <1>6, <2>2, <2>3, <2>4
       DEF Fifo!PopRefused, Fifo!Done, PopFrontRefused, Pending
<1>7. ASSUME NEW t \in Threads,
             PushBackWaits(t) \/ PopFrontWaits(t) \/ TimesOut(t) \/ WakesSpuriously(t)
      PROVE  UNCHANGED Fifo!fifoVars
  <2>1. PICK s \in PcStates : /\ pc' = [pc EXCEPT ![t] = s]
                              /\ s \in PushStates <=> pc[t] \in PushStates
                              /\ s \in PopStates <=> pc[t] \in PopStates
    <3>1. /\ PushBackWaits(t) => "pushWait" \in PcStates /\ pc' = [pc EXCEPT ![t] = "pushWait"]
          /\ PopFrontWaits(t) => "popWait" \in PcStates /\ pc' = [pc EXCEPT ![t] = "popWait"]
          /\ TimesOut(t) => \/ /\ pc[t] = "pushWait" /\ "pushTimedOut" \in PcStates
                               /\ pc' = [pc EXCEPT ![t] = "pushTimedOut"]
                            \/ /\ pc[t] = "popWait" /\ "popTimedOut" \in PcStates
                               /\ pc' = [pc EXCEPT ![t] = "popTimedOut"]
      BY DEF PushBackWaits, PopFrontWaits, TimesOut, PcStates, PushStates, PopStates
    <3>2. WakesSpuriously(t) => /\ Woken(pc[t]) \in PcStates
                                /\ Woken(pc[t]) \in PushStates <=> pc[t] \in PushStates
                                /\ Woken(pc[t]) \in PopStates <=> pc[t] \in PopStates
                                /\ pc' = [pc EXCEPT ![t] = Woken(pc[t])]
      <4>1. pc[t] \in PcStates
        BY <1>0 DEF TypeOK, PcStates
      <4> QED
        BY <4>1, WokenKeeps DEF WakesSpuriously
    <3>3. CASE WakesSpuriously(t)
      BY <3>2, <3>3
    <3>4. CASE TimesOut(t)
      BY <3>1, <3>4 DEF PushStates, PopStates
    <3>5. CASE PushBackWaits(t)
      BY <3>1, <3>5 DEF PushStates, PopStates, PushBackWaits
    <3>6. CASE PopFrontWaits(t)
      BY <3>1, <3>6 DEF PushStates, PopStates, PopFrontWaits
    <3> QED
      BY <1>7, <3>3, <3>4, <3>5, <3>6
  <2>2. pc'[t] = s /\ OthersAtMostWoken(t)
    BY <1>0, <2>1, OwnMove
  <2>3. Pending(pc') = Pending(pc)
    BY <1>0, <2>1, <2>2, PendingAfterMove DEF Pending
  <2>4. rawQueue' = rawQueue /\ elem' = elem /\ ok' = ok
    BY <1>7 DEF PushBackWaits, PopFrontWaits, TimesOut, WakesSpuriously
  <2> QED
    BY <2>3, <2>4 DEF Fifo!fifoVars, Pending
<1>8. CASE UNCHANGED vars
  BY <1>8 DEF vars, Fifo!fifoVars
<1> QED
  BY <1>1, <1>2, <1>3, <1>4, <1>5, <1>6, <1>7, <1>8
     DEF Next, PushStep, PopStep, Threads, Fifo!FifoNext

\* CEventQueue implements the bounded FIFO, for any threads and any capacity.
THEOREM Refinement == Spec => ImplementsFifo
<1> QED
  BY Invariance, InitRefines, StepRefines, PTL DEF Spec, ImplementsFifo, Fifo!FifoSpec
=============================================================================
