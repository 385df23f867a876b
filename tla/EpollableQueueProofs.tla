----------------------- MODULE EpollableQueueProofs -----------------------
(***************************************************************************)
(* Theorems about CEpollableQueue for any finite set of pushers, any ring, *)
(* any pipe and any batch: the pipe mirrors the queue, so that pop_front   *)
(* never blocks in read(), and no free slot is kept from a sleeping push.  *)
(***************************************************************************)
EXTENDS EpollableQueue, ArrayQueueProofs, FiniteSetTheorems

InWait == {"pushWait", "pushWoken", "pushTimedOut"}

\* The pushers whose place is in S.
Inside(p, S) == {u \in Pushers : p[u] \in S}

\* The holder of the lock is the one push that has its byte to write, and close()
\* has not come in between.
LockIsWriters ==
    /\ \A u \in Pushers : pc[u] = "writing" <=> lock = u
    /\ lock # NoOne => open

\* The bytes are those of the elements, but for the push that holds the lock.
BytesPerElement ==
    open => rawQueue.size = pipe + (IF lock = NoOne THEN 0 ELSE 1)

\* _push_waiter_number counts the pushes inside the CountHelper's scope.
WaitersCounted == pushWaiterNumber = Cardinality(Inside(pc, InWait))

\* The inductive invariant.  FreeSlotsAreOwed needs the exact counter (a pop that
\* sees no waiter signals nobody), the mirror needs to know who holds the lock.
IInv == /\ TypeOK
        /\ LockIsWriters
        /\ BytesPerElement
        /\ WaitersCounted
        /\ FreeSlotsAreOwed
-----------------------------------------------------------------------------
\* The ring after a batch

\* A head advanced by less than a turn.
LEMMA AdvancedHead ==
    ASSUME NEW h \in Cells, NEW n \in 0 .. QueueMax
    PROVE  /\ (h + n) % QueueMax = IF h + n < QueueMax THEN h + n ELSE h + n - QueueMax
           /\ (h + n) % QueueMax \in Cells
<1> DEFINE x == h + n
<1>1. QueueMax \in Nat \ {0} /\ h \in 0 .. QueueMax - 1
  BY QueueMaxAssumption DEF Cells
<1>2. x \in Nat /\ x < 2 * QueueMax
  BY <1>1
<1>3. x % QueueMax = IF x < QueueMax THEN x ELSE x - QueueMax
  <2> HIDE DEF x
  <2> QED
    BY <1>1, <1>2, ModOnce
<1>4. x % QueueMax \in Cells
  <2> HIDE DEF x
  <2> QED
    BY <1>1, <1>2, <1>3 DEF Cells
<1> QED
  BY <1>1, <1>2, <1>3, <1>4

\* A batch is as many times pop_front, one after the other (epollable_queue.h:130-134).
THEOREM DropIsPops ==
    ASSUME WellFormed(rawQueue), NEW n \in 0 .. rawQueue.size
    PROVE  /\ Drop(0) = rawQueue
           /\ n < rawQueue.size => PopFront(Drop(n)) = Drop(n + 1)
<1>1. /\ rawQueue \in RawQueue /\ rawQueue.head \in Cells /\ rawQueue.size \in 0 .. QueueMax
      /\ rawQueue.head \in Nat /\ rawQueue.head < QueueMax /\ QueueMax \in Nat \ {0}
  BY QueueMaxAssumption DEF WellFormed, RawQueue, Cells
<1>2. Drop(0) = rawQueue
  <2>1. (rawQueue.head + 0) % QueueMax = rawQueue.head
    BY <1>1, ModOnce
  <2>2. rawQueue = [head |-> rawQueue.head, tail |-> rawQueue.tail,
                    size |-> rawQueue.size, elems |-> rawQueue.elems]
    BY <1>1 DEF RawQueue
  <2> QED
    BY <1>1, <2>1, <2>2 DEF Drop
<1>3. ASSUME n < rawQueue.size PROVE PopFront(Drop(n)) = Drop(n + 1)
  <2> DEFINE h == rawQueue.head
             z == (h + n) % QueueMax
  <2>1. h \in Cells /\ h \in 0 .. QueueMax - 1 /\ n \in 0 .. QueueMax /\ n + 1 \in 0 .. QueueMax
    BY <1>1, <1>3 DEF Cells
  <2>2. z = (IF h + n < QueueMax THEN h + n ELSE h + n - QueueMax) /\ z \in Cells
    BY <2>1, AdvancedHead
  <2>3. (h + (n + 1)) % QueueMax = IF h + (n + 1) < QueueMax THEN h + (n + 1)
                                                             ELSE h + (n + 1) - QueueMax
    BY <2>1, AdvancedHead
  <2>4. (z + 1) % QueueMax = (h + (n + 1)) % QueueMax
    <3>1. (z + 1) % QueueMax = IF z + 1 < QueueMax THEN z + 1 ELSE 0
      <4> HIDE DEF z
      <4> QED
        BY <2>2, NextCell
    <3>2. (IF z + 1 < QueueMax THEN z + 1 ELSE 0)
             = IF h + (n + 1) < QueueMax THEN h + (n + 1) ELSE h + (n + 1) - QueueMax
      <4> HIDE DEF z, h
      <4> QED
        BY <1>1, <2>1, <2>2
    <3> HIDE DEF z, h
    <3> QED
      BY <2>3, <3>1, <3>2
  <2>5. rawQueue.size - n - 1 = rawQueue.size - (n + 1)
    BY <1>1
  <2> QED
    BY <2>4, <2>5 DEF PopFront, Drop
<1> QED
  BY <1>2, <1>3

\* A batch leaves a well-formed ring of the other elements.
LEMMA DropWellFormed ==
    ASSUME WellFormed(rawQueue), NEW n \in 0 .. rawQueue.size
    PROVE  WellFormed(Drop(n)) /\ Drop(n).size = rawQueue.size - n
<1> DEFINE h == rawQueue.head
           g == (h + n) % QueueMax
<1>1. /\ rawQueue \in RawQueue /\ rawQueue.size \in 0 .. QueueMax
      /\ h \in Nat /\ h < QueueMax /\ QueueMax \in Nat \ {0}
  BY QueueMaxAssumption DEF WellFormed, RawQueue, Cells
<1>2. g = (IF h + n < QueueMax THEN h + n ELSE h + n - QueueMax) /\ g \in Cells
  <2>1. h \in Cells /\ n \in 0 .. QueueMax
    BY <1>1 DEF Cells
  <2> QED
    BY <2>1, AdvancedHead
<1>3. /\ Drop(n).head = g /\ Drop(n).tail = rawQueue.tail
      /\ Drop(n).size = rawQueue.size - n /\ Drop(n).elems = rawQueue.elems
  BY DEF Drop
<1>4. Drop(n) \in RawQueue
  <2>1. rawQueue.size - n \in 0 .. QueueMax
    BY <1>1
  <2> QED
    BY <1>1, <1>2, <2>1 DEF Drop, RawQueue
<1>5. \A i \in 1 .. rawQueue.size - n : Cell(g, i) = Cell(h, i + n) /\ i + n \in 1 .. rawQueue.size
  <2> HIDE DEF g, h
  <2> QED
    BY <1>1, <1>2 DEF Cell
<1>6. /\ rawQueue.tail = IF h + rawQueue.size < QueueMax
                         THEN h + rawQueue.size ELSE h + rawQueue.size - QueueMax
      /\ \A i \in 1 .. rawQueue.size : rawQueue.elems[Cell(h, i)] \in Elem
  BY <1>1, WellFormedByCell
<1>7. rawQueue.tail = IF g + (rawQueue.size - n) < QueueMax
                      THEN g + (rawQueue.size - n) ELSE g + (rawQueue.size - n) - QueueMax
  <2> HIDE DEF g, h
  <2> QED
    BY <1>1, <1>2, <1>6
<1>8. WellFormed(Drop(n))
  <2> HIDE DEF g, h
  <2> QED
    BY <1>3, <1>4, <1>5, <1>6, <1>7, WellFormedByCell
<1> QED
  BY <1>3, <1>8
-----------------------------------------------------------------------------
\* Counting threads

LEMMA PushersFinite ==
    ASSUME NEW p, NEW S
    PROVE  IsFiniteSet(Inside(p, S)) /\ Cardinality(Inside(p, S)) \in 0 .. Cardinality(Pushers)
<1>1. IsFiniteSet(Pushers) /\ Inside(p, S) \subseteq Pushers
  BY PushersAssumption DEF Inside
<1>2. /\ IsFiniteSet(Inside(p, S))
      /\ Cardinality(Inside(p, S)) \in Nat /\ Cardinality(Pushers) \in Nat
      /\ Cardinality(Inside(p, S)) <= Cardinality(Pushers)
  BY <1>1, FS_Subset, FS_CardinalityType
<1> QED
  BY <1>2

\* One pusher moves: the number of those in S changes by what it did.
LEMMA CountAfterMove ==
    ASSUME NEW p, NEW p2, NEW S, NEW t \in Pushers,
           \A u \in Pushers \ {t} : p2[u] \in S <=> p[u] \in S
    PROVE  Cardinality(Inside(p2, S)) = Cardinality(Inside(p, S))
                                         + (IF p2[t] \in S THEN 1 ELSE 0)
                                         - (IF p[t] \in S THEN 1 ELSE 0)
<1> DEFINE R == {u \in Pushers \ {t} : p[u] \in S}
<1>1. IsFiniteSet(R)
  BY PushersAssumption, FS_Subset
<1>2. Cardinality(R) \in Nat /\ Cardinality(R \cup {t}) = Cardinality(R) + 1
  BY <1>1, FS_CardinalityType, FS_AddElement
<1>3. Inside(p, S) = IF p[t] \in S THEN R \cup {t} ELSE R
  BY DEF Inside
<1>4. Inside(p2, S) = IF p2[t] \in S THEN R \cup {t} ELSE R
  BY DEF Inside
<1> QED
  BY <1>2, <1>3, <1>4

\* A sleeping push is counted, and so is found by the pop that signals.
LEMMA WaiterSeen ==
    ASSUME WaitersCounted, Waiting # {}
    PROVE  pushWaiterNumber > 0
<1>1. PICK u \in Pushers : pc[u] \in InWait
  BY DEF Waiting, InWait
<1>2. Inside(pc, InWait) # {} /\ IsFiniteSet(Inside(pc, InWait))
  BY <1>1, PushersFinite DEF Inside
<1>3. Cardinality(Inside(pc, InWait)) # 0 /\ Cardinality(Inside(pc, InWait)) \in Nat
  BY <1>2, FS_EmptySet, FS_CardinalityType
<1> QED
  BY <1>3 DEF WaitersCounted
-----------------------------------------------------------------------------
\* push_back

LEMMA InitHolds == Init => IInv
<1> SUFFICES ASSUME Init PROVE IInv
  OBVIOUS
<1> USE DEF Init
<1>1. NoOne \notin Pushers /\ IsFiniteSet(Pushers) /\ Pushers \subseteq Threads
  BY PushersAssumption DEF Threads
<1>2. \A S : "idle" \notin S => Inside(pc, S) = {}
  BY <1>1 DEF Inside
<1>3. WaitersCounted
  BY <1>2, FS_EmptySet DEF WaitersCounted, InWait
<1>4. Waiting = {}
  BY <1>1 DEF Waiting
<1>5. rawQueue.size = 0
  BY DEF NewQueue
<1>6. TypeOK
  BY <1>1, NewQueueWellFormed, ElemAssumption, PipeAssumption, FS_CardinalityType,
     BoundsAssumption DEF TypeOK, PcStates
<1> QED
  BY <1>1, <1>3, <1>4, <1>5, <1>6
     DEF IInv, LockIsWriters, BytesPerElement, FreeSlotsAreOwed

\* What a step does to the counts that moves one pusher, t, to s.
Moved(t, s) ==
    /\ pc' \in [Threads -> PcStates] /\ pc'[t] = s
    /\ \A u \in Pushers \ {t} : pc'[u] = pc[u]
    /\ pushWaiterNumber \in Nat
    /\ Cardinality(Inside(pc', InWait)) = pushWaiterNumber
            + (IF s \in InWait THEN 1 ELSE 0) - (IF pc[t] \in InWait THEN 1 ELSE 0)
    /\ Cardinality(Signalled) \in Nat
    /\ Cardinality(Signalled') = Cardinality(Signalled)
            + (IF s = "pushWoken" THEN 1 ELSE 0) - (IF pc[t] = "pushWoken" THEN 1 ELSE 0)
    /\ Waiting' # {} => Waiting # {} \/ s = "pushWait"

LEMMA PusherMoves ==
    ASSUME IInv, NEW t \in Pushers, NEW s \in PcStates, pc' = [pc EXCEPT ![t] = s]
    PROVE  Moved(t, s)
<1>1. pc \in [Threads -> PcStates] /\ t \in Threads
  BY DEF IInv, TypeOK, Threads
<1>2. pc' \in [Threads -> PcStates] /\ pc'[t] = s /\ \A u \in Pushers \ {t} : pc'[u] = pc[u]
  BY <1>1
<1>3. ASSUME NEW S
      PROVE  Cardinality(Inside(pc', S)) = Cardinality(Inside(pc, S))
                 + (IF s \in S THEN 1 ELSE 0) - (IF pc[t] \in S THEN 1 ELSE 0)
  <2>1. \A u \in Pushers \ {t} : pc'[u] \in S <=> pc[u] \in S
    BY <1>2
  <2>2. Cardinality(Inside(pc', S)) = Cardinality(Inside(pc, S))
                 + (IF pc'[t] \in S THEN 1 ELSE 0) - (IF pc[t] \in S THEN 1 ELSE 0)
    BY <2>1, CountAfterMove
  <2> QED
    BY <1>2, <2>2
<1>4. Signalled' = Inside(pc', {"pushWoken"}) /\ Signalled = Inside(pc, {"pushWoken"})
  BY DEF Signalled, Inside
<1>5. Waiting' # {} => Waiting # {} \/ s = "pushWait"
  BY <1>2 DEF Waiting
<1>6. pushWaiterNumber \in Nat /\ Cardinality(Signalled) \in Nat
  BY <1>4, PushersFinite DEF IInv, WaitersCounted
<1> QED
  BY <1>2, <1>3, <1>4, <1>5, <1>6 DEF IInv, WaitersCounted, Moved

\* The counter keeps its type as long as it counts.
LEMMA CountedInRange == WaitersCounted' => pushWaiterNumber' \in 0 .. Cardinality(Pushers)
BY PushersFinite DEF WaitersCounted

LEMMA CallKeeps ==
    ASSUME IInv, NEW t \in Pushers, NEW e \in Elem, CallPushBack(t, e)
    PROVE  IInv'
<1> USE DEF CallPushBack
<1>1. Moved(t, "push")
  BY PusherMoves DEF PcStates
<1>2. TypeOK'
  BY <1>1 DEF IInv, TypeOK, Moved
<1>3. LockIsWriters' /\ BytesPerElement'
  BY <1>1 DEF IInv, LockIsWriters, BytesPerElement, Moved
<1>4. WaitersCounted' /\ FreeSlotsAreOwed'
  BY <1>1 DEF WaitersCounted, IInv, FreeSlotsAreOwed, Moved, InWait
<1> QED
  BY <1>2, <1>3, <1>4 DEF IInv

\* The push that found room: one slot less, and one signalled push at most.
LEMMA EnqueueKeeps ==
    ASSUME IInv, NEW t \in Pushers, PushBackEnqueues(t)
    PROVE  IInv'
<1> USE DEF PushBackEnqueues
<1>1. Moved(t, IF open THEN "writing" ELSE "idle")
  BY PusherMoves DEF PcStates
<1>3. /\ elem[t] \in Elem /\ WellFormed(rawQueue) /\ rawQueue.size \in 0 .. QueueMax
      /\ QueueMax \in Nat
  BY QueueMaxAssumption DEF IInv, TypeOK, WellFormed, RawQueue
<1>4. WellFormed(rawQueue') /\ rawQueue'.size = rawQueue.size + 1
  BY <1>3, PushBackAppends DEF PushBack
<1>5. WaitersCounted'
  BY <1>1 DEF WaitersCounted, LeavesWait, InWait, Moved
<1>6. TypeOK'
  BY <1>1, <1>4, <1>5, CountedInRange DEF IInv, TypeOK, Threads, Moved
<1>7. LockIsWriters'
  BY <1>1, PushersAssumption DEF IInv, LockIsWriters, Moved
<1>8. BytesPerElement'
  BY <1>3, <1>4, PushersAssumption DEF IInv, TypeOK, BytesPerElement
<1>9. FreeSlotsAreOwed'
  BY <1>1, <1>3, <1>4 DEF IInv, FreeSlotsAreOwed, Moved
<1> QED
  BY <1>5, <1>6, <1>7, <1>8, <1>9 DEF IInv

LEMMA WriteKeeps ==
    ASSUME IInv, NEW t \in Pushers, WriteByte(t)
    PROVE  IInv'
<1> USE DEF WriteByte
<1>1. Moved(t, "idle")
  BY PusherMoves DEF PcStates
<1>2. lock = t /\ lock # NoOne /\ open
  BY PushersAssumption DEF IInv, LockIsWriters
<1>3. TypeOK'
  BY <1>1, PipeAssumption DEF IInv, TypeOK, Threads, Moved
<1>4. LockIsWriters' /\ BytesPerElement'
  BY <1>1, <1>2, PushersAssumption
     DEF IInv, TypeOK, WellFormed, RawQueue, LockIsWriters, BytesPerElement, Moved
<1>5. WaitersCounted' /\ FreeSlotsAreOwed'
  BY <1>1 DEF WaitersCounted, IInv, FreeSlotsAreOwed, Moved, InWait
<1> QED
  BY <1>3, <1>4, <1>5 DEF IInv

\* A push that goes to sleep does so on a full ring: nothing is owed to it.
LEMMA WaitKeeps ==
    ASSUME IInv, NEW t \in Pushers, PushBackWaits(t)
    PROVE  IInv'
<1> USE DEF PushBackWaits
<1>1. Moved(t, "pushWait")
  BY PusherMoves DEF PcStates
<1>2. WaitersCounted'
  BY <1>1 DEF WaitersCounted, LeavesWait, InWait, Moved
<1>3. TypeOK'
  BY <1>1, <1>2, CountedInRange DEF IInv, TypeOK, Moved
<1>4. LockIsWriters' /\ BytesPerElement'
  BY <1>1, PushersAssumption DEF IInv, LockIsWriters, BytesPerElement, Moved
<1>5. FreeSlotsAreOwed'
  <2>1. rawQueue'.size = QueueMax /\ QueueMax \in Nat
    BY QueueMaxAssumption DEF IsFull
  <2>2. Cardinality(Signalled') >= 0
    <3>1. Signalled' = Inside(pc', {"pushWoken"})
      BY DEF Signalled, Inside
    <3>2. Cardinality(Inside(pc', {"pushWoken"})) >= 0
      BY PushersFinite
    <3> QED
      BY <3>1, <3>2
  <2> QED
    BY <2>1, <2>2 DEF FreeSlotsAreOwed
<1> QED
  BY <1>2, <1>3, <1>4, <1>5 DEF IInv

LEMMA RefusedKeeps ==
    ASSUME IInv, NEW t \in Pushers, PushBackRefused(t)
    PROVE  IInv'
<1> USE DEF PushBackRefused
<1>1. Moved(t, "idle")
  BY PusherMoves DEF PcStates
<1>2. WaitersCounted'
  BY <1>1 DEF WaitersCounted, LeavesWait, InWait, Moved
<1>3. TypeOK'
  BY <1>1, <1>2, CountedInRange DEF IInv, TypeOK, Threads, Moved
<1>4. LockIsWriters' /\ BytesPerElement'
  BY <1>1, PushersAssumption DEF IInv, LockIsWriters, BytesPerElement, Moved
<1>5. FreeSlotsAreOwed'
  BY <1>1 DEF IInv, FreeSlotsAreOwed, Moved
<1> QED
  BY <1>2, <1>3, <1>4, <1>5 DEF IInv

\* The wait ends: a time-out owes nothing and is owed nothing.
LEMMA WaitEndsKeeps ==
    ASSUME IInv, NEW t \in Pushers, TimesOut(t) \/ WakesSpuriously(t)
    PROVE  IInv'
<1> USE DEF TimesOut, WakesSpuriously
<1>1. Moved(t, "pushTimedOut") \/ Moved(t, "pushWoken")
  BY PusherMoves DEF PcStates
<1>2. /\ pc[t] = "pushWait" /\ spurious' \in 0 .. MaxSpurious
      /\ UNCHANGED <<rawQueue, pipe, open, lock, pushWaiterNumber, elem, result>>
  BY BoundsAssumption DEF IInv, TypeOK
<1>3. WaitersCounted'
  BY <1>1, <1>2 DEF WaitersCounted, InWait, Moved
<1>4. TypeOK'
  BY <1>1, <1>2 DEF IInv, TypeOK, Moved
<1>5. LockIsWriters' /\ BytesPerElement'
  BY <1>1, <1>2 DEF IInv, LockIsWriters, BytesPerElement, Moved
<1>6. FreeSlotsAreOwed'
  BY <1>1, <1>2, QueueMaxAssumption DEF IInv, FreeSlotsAreOwed, Moved, TypeOK, WellFormed, RawQueue
<1> QED
  BY <1>3, <1>4, <1>5, <1>6 DEF IInv
-----------------------------------------------------------------------------
\* pop_front and close

LEMMA CallPopKeeps ==
    ASSUME IInv, NEW t \in Poppers,
           CallPopFront(t) \/ PopFrontFails(t)
    PROVE  IInv'
<1> USE DEF CallPopFront, PopFrontFails
<1>1. t \notin Pushers /\ \A u \in Pushers : pc'[u] = pc[u]
  BY PushersAssumption DEF IInv, TypeOK, Threads
<1>2. /\ Inside(pc', InWait) = Inside(pc, InWait)
      /\ Waiting' = Waiting /\ Signalled' = Signalled
  BY <1>1 DEF Inside, Waiting, Signalled
<1>3. TypeOK'
  BY DEF IInv, TypeOK, PcStates, Threads
<1>4. LockIsWriters' /\ BytesPerElement'
  BY <1>1 DEF IInv, LockIsWriters, BytesPerElement
<1>5. WaitersCounted' /\ FreeSlotsAreOwed'
  BY <1>2 DEF IInv, WaitersCounted, FreeSlotsAreOwed
<1> QED
  BY <1>3, <1>4, <1>5 DEF IInv

\* Whom k signals wake: k of the sleeping pushes, or all of them.
LEMMA SignalWakes ==
    ASSUME IInv, NEW k \in Nat, NEW S \in Signal(k)
    PROVE  /\ S \subseteq Waiting /\ IsFiniteSet(S)
           /\ S = Waiting \/ Cardinality(S) = k
<1>1. IsFiniteSet(Waiting) /\ Cardinality(Waiting) \in Nat
  BY PushersAssumption, FS_Subset, FS_CardinalityType DEF Waiting
<1>2. CASE Waiting = {}
  BY <1>1, <1>2, FS_EmptySet DEF Signal
<1>3. CASE Waiting # {}
  <2>1. pushWaiterNumber > 0
    BY <1>3, WaiterSeen DEF IInv
  <2>2. /\ S \subseteq Waiting
        /\ Cardinality(S) = IF k < Cardinality(Waiting) THEN k ELSE Cardinality(Waiting)
    BY <2>1 DEF Signal
  <2>3. IsFiniteSet(S) /\ (Cardinality(S) = Cardinality(Waiting) => S = Waiting)
    BY <1>1, <2>2, FS_Subset
  <2> QED
    BY <2>2, <2>3
<1> QED
  BY <1>2, <1>3

\* A batch frees as many slots as it sends signals; if it wakes fewer pushes,
\* then because nobody sleeps any more.
LEMMA TakesKeeps ==
    ASSUME IInv, NEW t \in Poppers, NEW n \in 1 .. BatchMax, PopFrontTakes(t, n)
    PROVE  IInv'
<1> DEFINE k == Upto(n)
<1>1. /\ k \in 0 .. rawQueue.size /\ k \in Nat /\ rawQueue.size \in 0 .. QueueMax
      /\ QueueMax \in Nat /\ WellFormed(rawQueue)
  BY QueueMaxAssumption, BoundsAssumption DEF Upto, IInv, TypeOK, WellFormed, RawQueue
<1>2. Batch(t, k, k, k)
  BY DEF PopFrontTakes
<1> HIDE DEF k
<1>3. PICK S \in Signal(k) :
         pc' = [u \in Threads |-> IF u = t THEN "idle"
                                  ELSE IF u \in S THEN "pushWoken" ELSE pc[u]]
  BY <1>2 DEF Batch
<1>4. S \subseteq Waiting /\ IsFiniteSet(S) /\ (S = Waiting \/ Cardinality(S) = k)
  BY <1>1, SignalWakes
<1>5. \A u \in Pushers : pc'[u] = IF u \in S THEN "pushWoken" ELSE pc[u]
  BY <1>3, PushersAssumption DEF Threads
<1>6. Inside(pc', InWait) = Inside(pc, InWait)
  BY <1>4, <1>5 DEF Inside, InWait, Waiting
<1>7. Waiting' = Waiting \ S /\ Signalled' = Signalled \cup S /\ Signalled \cap S = {}
  BY <1>4, <1>5 DEF Waiting, Signalled
<1>8. WellFormed(rawQueue') /\ rawQueue'.size = rawQueue.size - k
  BY <1>1, <1>2, DropWellFormed DEF Batch
<1>9. /\ pipe' = pipe - k /\ pipe >= k /\ open /\ lock = NoOne
      /\ result' = [result EXCEPT ![t] = "true"]
      /\ UNCHANGED <<open, lock, pushWaiterNumber, elem, spurious>>
  BY <1>2 DEF Batch
<1>10. TypeOK'
  <2>1. pc' \in [Threads -> PcStates]
    BY <1>3 DEF IInv, TypeOK, PcStates
  <2>2. pipe' \in 0 .. PipeMax
    BY <1>1, <1>9, PipeAssumption DEF IInv, TypeOK
  <2> QED
    BY <1>8, <1>9, <2>1, <2>2 DEF IInv, TypeOK
<1>11. LockIsWriters'
  BY <1>4, <1>5, <1>9 DEF IInv, LockIsWriters, Waiting
<1>12. BytesPerElement'
  BY <1>1, <1>8, <1>9 DEF IInv, TypeOK, BytesPerElement
<1>13. WaitersCounted'
  BY <1>6, <1>9 DEF IInv, WaitersCounted
<1>14. FreeSlotsAreOwed'
  <2> SUFFICES ASSUME Waiting' # {}
               PROVE  QueueMax - rawQueue'.size <= Cardinality(Signalled')
    BY DEF FreeSlotsAreOwed
  <2>1. Waiting # {} /\ Cardinality(S) = k
    BY <1>4, <1>7
  <2>2. IsFiniteSet(Signalled) /\ Cardinality(Signalled) \in Nat
    BY PushersAssumption, FS_Subset, FS_CardinalityType DEF Signalled
  <2>3. Cardinality(Signalled') = Cardinality(Signalled) + k
    <3>1. Cardinality(Signalled \cup S)
             = Cardinality(Signalled) + Cardinality(S) - Cardinality(Signalled \cap S)
      BY <1>4, <2>2, FS_Union
    <3>2. Cardinality(Signalled \cap S) = 0
      BY <1>7, FS_EmptySet
    <3> QED
      BY <1>1, <1>7, <2>1, <2>2, <3>1, <3>2
  <2>4. QueueMax - rawQueue.size <= Cardinality(Signalled)
    BY <2>1 DEF IInv, FreeSlotsAreOwed
  <2> QED
    BY <1>1, <1>8, <2>2, <2>3, <2>4
<1> QED
  BY <1>10, <1>11, <1>12, <1>13, <1>14 DEF IInv

LEMMA CloseKeeps ==
    ASSUME IInv, Close
    PROVE  IInv'
<1> USE DEF Close
<1>1. TypeOK'
  <2>1. pipe' \in 0 .. PipeMax
    BY PipeAssumption
  <2>2. open' \in BOOLEAN
    OBVIOUS
  <2>3. UNCHANGED <<rawQueue, lock, pushWaiterNumber, pc, elem, result, spurious>>
    OBVIOUS
  <2> HIDE DEF Close
  <2> QED
    BY <2>1, <2>2, <2>3 DEF IInv, TypeOK
<1>2. LockIsWriters' /\ BytesPerElement'
  BY DEF IInv, LockIsWriters, BytesPerElement
<1>3. WaitersCounted' /\ FreeSlotsAreOwed'
  BY DEF IInv, WaitersCounted, FreeSlotsAreOwed, Waiting, Signalled, Inside
<1> QED
  BY <1>1, <1>2, <1>3 DEF IInv

LEMMA StutterKeeps ==
    ASSUME IInv, UNCHANGED vars
    PROVE  IInv'
BY DEF vars, IInv, TypeOK, LockIsWriters, BytesPerElement, WaitersCounted, FreeSlotsAreOwed,
       Waiting, Signalled, Inside

LEMMA Inductive == IInv /\ [Next]_vars => IInv'
<1> SUFFICES ASSUME IInv, [Next]_vars PROVE IInv'
  OBVIOUS
<1>1. ASSUME NEW t \in Pushers, NEW e \in Elem, CallPushBack(t, e)
      PROVE  IInv'
  BY <1>1, CallKeeps
<1>2. ASSUME NEW t \in Pushers,
             PushStep(t) \/ WriteByte(t) \/ TimesOut(t) \/ WakesSpuriously(t)
      PROVE  IInv'
  BY <1>2, EnqueueKeeps, WaitKeeps, RefusedKeeps, WriteKeeps, WaitEndsKeeps DEF PushStep
<1>3. ASSUME NEW t \in Poppers, CallPopFront(t) \/ PopStep(t)
      PROVE  IInv'
  BY <1>3, CallPopKeeps, TakesKeeps DEF PopStep
<1>4. CASE Close \/ UNCHANGED vars
  BY <1>4, CloseKeeps, StutterKeeps
<1> QED
  BY <1>1, <1>2, <1>3, <1>4 DEF Next

LEMMA Invariance == Spec => []IInv
BY InitHolds, Inductive, PTL DEF Spec
-----------------------------------------------------------------------------
\* The pipe has a byte for every element but that of the push that is writing:
\* what epoll reports of the descriptor is what the queue holds.
THEOREM PipeMirrors == Spec => []PipeMirrorsQueue
<1>1. ASSUME IInv PROVE PipeMirrorsQueue
  <2> DEFINE W == {t \in Pushers : pc[t] = "writing"}
  <2>1. W = IF lock = NoOne THEN {} ELSE {lock}
    BY <1>1, PushersAssumption DEF IInv, LockIsWriters, TypeOK
  <2>2. Cardinality(W) = IF lock = NoOne THEN 0 ELSE 1
    BY <2>1, FS_EmptySet, FS_Singleton
  <2> QED
    BY <1>1, <2>2 DEF IInv, BytesPerElement, PipeMirrorsQueue
<1> QED
  BY <1>1, Invariance, PTL

\* A pop that gets the lock finds a byte for every element it may take, so that
\* read() does not block, with the lock held, on an empty pipe.
ReadFindsByte == lock = NoOne /\ open => pipe = rawQueue.size

THEOREM ReadDoesNotBlock == Spec => []ReadFindsByte
<1>1. IInv => ReadFindsByte
  <2>1. IInv => rawQueue.size \in Nat /\ pipe \in Nat
    BY PipeAssumption, QueueMaxAssumption DEF IInv, TypeOK, WellFormed, RawQueue
  <2> QED
    BY <2>1 DEF IInv, BytesPerElement, ReadFindsByte
<1> QED
  BY <1>1, Invariance, PTL

\* No free slot is kept from a push that sleeps, whichever pushes time out, are
\* overtaken or wake by themselves, and however many slots a batch frees.
THEOREM SlotsOwed == Spec => []FreeSlotsAreOwed
<1>1. IInv => FreeSlotsAreOwed
  BY DEF IInv
<1> QED
  BY <1>1, Invariance, PTL
=============================================================================
