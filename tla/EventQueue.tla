---------------------------- MODULE EventQueue ----------------------------
(***************************************************************************)
(* sys::CEventQueue over utils::CArrayQueue.  One mutex, one condition     *)
(* variable shared by the threads that wait for data and those that wait   *)
(* for room, and two counters that tell a push or a pop whether a          *)
(* broadcast is worth making.                                              *)
(*                                                                         *)
(* Everything between taking and releasing _lock is one step, since every  *)
(* access to the queue, the counters and the wait set is under it.  A call *)
(* is therefore: invocation, one critical section, and, for each timed_wait*)
(* inside it, the release of the lock (xxxWait), the wake-up (xxxWoken,    *)
(* xxxTimedOut) and the critical section entered when the lock is back.    *)
(* Between the wake-up and that section any other thread may take the lock.*)
(***************************************************************************)
EXTENDS ArrayQueue, FiniteSets

CONSTANTS Producers, Consumers,   \* threads; one may be both
          PushWaits, PopWaits,    \* _push_milliseconds > 0, _pop_milliseconds > 0
          MaxSpurious,            \* bound: spurious wake-ups in a behaviour
          NoElem

ASSUME ThreadsAssumption == /\ IsFiniteSet(Producers)
                            /\ IsFiniteSet(Consumers)
ASSUME WaitsAssumption == PushWaits \in BOOLEAN /\ PopWaits \in BOOLEAN
ASSUME SpuriousAssumption == MaxSpurious \in Nat
ASSUME NoElemAssumption == NoElem \notin Elem

VARIABLES rawQueue,          \* _raw_queue
          popWaiterNumber,   \* _pop_waiter_number
          pushWaiterNumber,  \* _push_waiter_number
          pc,                \* where each thread is in its call
          elem,              \* the elem argument of its last call
          ok,                \* what its last call returned
          spurious           \* spurious wake-ups so far

vars == <<rawQueue, popWaiterNumber, pushWaiterNumber, pc, elem, ok, spurious>>

Threads == Producers \cup Consumers

PushStates == {"push", "pushWait", "pushWoken", "pushTimedOut"}
PopStates  == {"pop", "popWait", "popWoken", "popTimedOut"}

\* Inside the scope of the CountHelper of push_back, of pop_front.
InPushWait == {"pushWait", "pushWoken", "pushTimedOut"}
InPopWait  == {"popWait", "popWoken", "popTimedOut"}

Init == /\ rawQueue = NewQueue
        /\ popWaiterNumber = 0
        /\ pushWaiterNumber = 0
        /\ pc = [t \in Threads |-> "idle"]
        /\ elem = [t \in Threads |-> NoElem]
        /\ ok = [t \in Threads |-> TRUE]
        /\ spurious = 0
-----------------------------------------------------------------------------
\* pthread_cond_broadcast: every thread blocked in timed_wait now wants the lock.
Woken(s) == IF s = "pushWait" THEN "pushWoken"
            ELSE IF s = "popWait" THEN "popWoken" ELSE s

\* Mutant of Broadcast: one waiting thread is signalled, of either kind.
SignalOne(p) ==
    LET waiting == {t \in Threads : p[t] \in {"pushWait", "popWait"}}
    IN  IF waiting = {} THEN p
        ELSE [p EXCEPT ![CHOOSE t \in waiting : TRUE] = Woken(@)]

Broadcast(p) == [t \in Threads |-> Woken(p[t])]

Return(t) == [pc EXCEPT ![t] = "idle"]

CallPushBack(t, e) == /\ pc[t] = "idle"
                      /\ pc' = [pc EXCEPT ![t] = "push"]
                      /\ elem' = [elem EXCEPT ![t] = e]
                      /\ UNCHANGED <<rawQueue, popWaiterNumber,
                                     pushWaiterNumber, ok, spurious>>

CallPopFront(t) == /\ pc[t] = "idle"
                   /\ pc' = [pc EXCEPT ![t] = "pop"]
                   /\ elem' = [elem EXCEPT ![t] = NoElem]
                   /\ UNCHANGED <<rawQueue, popWaiterNumber,
                                  pushWaiterNumber, ok, spurious>>

\* The lock is taken and a wait that ended without a timeout leaves the
\* CountHelper's scope, then the loop's condition is tested again.
PushLeavesWait(t) == pushWaiterNumber - (IF pc[t] = "pushWoken" THEN 1 ELSE 0)
PopLeavesWait(t)  == popWaiterNumber - (IF pc[t] = "popWoken" THEN 1 ELSE 0)

PushBackEnqueues(t) ==
    /\ pc[t] \in {"push", "pushWoken"}
    /\ ~IsFull(rawQueue)
    /\ rawQueue' = PushBack(rawQueue, elem[t])
    /\ pushWaiterNumber' = PushLeavesWait(t)
    /\ pc' = IF popWaiterNumber > 0 THEN Broadcast(Return(t)) ELSE Return(t)
    /\ ok' = [ok EXCEPT ![t] = TRUE]
    /\ UNCHANGED <<popWaiterNumber, elem, spurious>>

PushBackWaits(t) ==
    /\ pc[t] \in {"push", "pushWoken"}
    /\ IsFull(rawQueue)
    /\ PushWaits
    /\ pushWaiterNumber' = PushLeavesWait(t) + 1
    /\ pc' = [pc EXCEPT ![t] = "pushWait"]
    /\ UNCHANGED <<rawQueue, popWaiterNumber, elem, ok, spurious>>

PushBackRefused(t) ==
    /\ \/ pc[t] = "push" /\ IsFull(rawQueue) /\ ~PushWaits
       \/ pc[t] = "pushTimedOut"
    /\ pushWaiterNumber' = IF pc[t] = "pushTimedOut" THEN pushWaiterNumber - 1
                                                     ELSE pushWaiterNumber
    /\ pc' = Return(t)
    /\ ok' = [ok EXCEPT ![t] = FALSE]
    /\ UNCHANGED <<rawQueue, popWaiterNumber, elem, spurious>>

PopFrontDequeues(t) ==
    /\ pc[t] \in {"pop", "popWoken"}
    /\ ~IsEmpty(rawQueue)
    /\ elem' = [elem EXCEPT ![t] = Front(rawQueue)]
    /\ rawQueue' = PopFront(rawQueue)
    /\ popWaiterNumber' = PopLeavesWait(t)
    /\ pc' = IF pushWaiterNumber > 0 THEN Broadcast(Return(t)) ELSE Return(t)
    /\ ok' = [ok EXCEPT ![t] = TRUE]
    /\ UNCHANGED <<pushWaiterNumber, spurious>>

PopFrontWaits(t) ==
    /\ pc[t] \in {"pop", "popWoken"}
    /\ IsEmpty(rawQueue)
    /\ PopWaits
    /\ popWaiterNumber' = PopLeavesWait(t) + 1
    /\ pc' = [pc EXCEPT ![t] = "popWait"]
    /\ UNCHANGED <<rawQueue, pushWaiterNumber, elem, ok, spurious>>

\* Mutant of PopFrontRefused: the counter is not taken back on a timeout.
PopFrontRefusedKeepsCount(t) ==
    /\ \/ pc[t] = "pop" /\ IsEmpty(rawQueue) /\ ~PopWaits
       \/ pc[t] = "popTimedOut"
    /\ pc' = Return(t)
    /\ ok' = [ok EXCEPT ![t] = FALSE]
    /\ UNCHANGED <<rawQueue, popWaiterNumber, pushWaiterNumber, elem, spurious>>

PopFrontRefused(t) ==
    /\ \/ pc[t] = "pop" /\ IsEmpty(rawQueue) /\ ~PopWaits
       \/ pc[t] = "popTimedOut"
    /\ popWaiterNumber' = IF pc[t] = "popTimedOut" THEN popWaiterNumber - 1
                                                   ELSE popWaiterNumber
    /\ pc' = Return(t)
    /\ ok' = [ok EXCEPT ![t] = FALSE]
    /\ UNCHANGED <<rawQueue, pushWaiterNumber, elem, spurious>>

\* Mutant of TimesOut: the result of timed_wait is ignored and the loop goes on.
TimesOutUnnoticed(t) ==
    /\ pc[t] \in {"pushWait", "popWait"}
    /\ pc' = [pc EXCEPT ![t] = Woken(@)]
    /\ UNCHANGED <<rawQueue, popWaiterNumber, pushWaiterNumber, elem, ok, spurious>>

\* pthread_cond_timedwait returns ETIMEDOUT; nothing looks at the queue again.
TimesOut(t) ==
    /\ \/ pc[t] = "pushWait" /\ pc' = [pc EXCEPT ![t] = "pushTimedOut"]
       \/ pc[t] = "popWait"  /\ pc' = [pc EXCEPT ![t] = "popTimedOut"]
    /\ UNCHANGED <<rawQueue, popWaiterNumber, pushWaiterNumber, elem, ok, spurious>>

WakesSpuriously(t) ==
    /\ pc[t] \in {"pushWait", "popWait"}
    /\ spurious < MaxSpurious
    /\ spurious' = spurious + 1
    /\ pc' = [pc EXCEPT ![t] = Woken(@)]
    /\ UNCHANGED <<rawQueue, popWaiterNumber, pushWaiterNumber, elem, ok>>

PushStep(t) == PushBackEnqueues(t) \/ PushBackWaits(t) \/ PushBackRefused(t)
PopStep(t)  == PopFrontDequeues(t) \/ PopFrontWaits(t) \/ PopFrontRefused(t)

Next == \/ \E t \in Producers : PushStep(t) \/ \E e \in Elem : CallPushBack(t, e)
        \/ \E t \in Consumers : PopStep(t) \/ CallPopFront(t)
        \/ \E t \in Threads : TimesOut(t) \/ WakesSpuriously(t)

Spec == Init /\ [][Next]_vars

\* A thread that holds or can get the lock goes on, and a wait ends in time;
\* nothing obliges a client to make a call.
Fairness == \A t \in Threads : /\ WF_vars(PushStep(t))
                               /\ WF_vars(PopStep(t))
                               /\ WF_vars(TimesOut(t))

FairSpec == Spec /\ Fairness
-----------------------------------------------------------------------------
\* The types of the variables; the queue's fields stay a ring.
TypeOK == /\ rawQueue \in RawQueue
          /\ popWaiterNumber \in Int
          /\ pushWaiterNumber \in Int
          /\ pc \in [Threads -> {"idle"} \cup PushStates \cup PopStates]
          /\ elem \in [Threads -> Elem \cup {NoElem}]
          /\ ok \in [Threads -> BOOLEAN]
          /\ spurious \in 0 .. MaxSpurious

\* Each counter is the number of threads inside its CountHelper's scope: a
\* counter left high by a timeout costs a broadcast, one left low loses one.
WaiterNumbersExact ==
    /\ popWaiterNumber = Cardinality({t \in Threads : pc[t] \in InPopWait})
    /\ pushWaiterNumber = Cardinality({t \in Threads : pc[t] \in InPushWait})

\* No thread sleeps through its reason to wake: while the queue holds data no
\* popper is still blocked, while it has room no pusher is.  The two kinds
\* share one condition variable, so a wake-up given to the wrong kind is lost.
NoStrandedWaiter ==
    \A t \in Threads : /\ pc[t] = "popWait" => IsEmpty(rawQueue)
                       /\ pc[t] = "pushWait" => IsFull(rawQueue)

\* The calls behave as atomic calls on a bounded FIFO (refinement mapping: the
\* ring read from _head, and a thread is pending while it is inside a call).
Fifo == INSTANCE BoundedFifo WITH
            Capacity <- QueueMax,
            fifo <- Contents(rawQueue),
            pending <- [t \in Threads |-> IF pc[t] \in PushStates THEN "push"
                                          ELSE IF pc[t] \in PopStates THEN "pop"
                                          ELSE "none"],
            item <- elem

ImplementsFifo == Fifo!FifoSpec

Returns(t) == pc[t] # "idle" /\ pc'[t] = "idle"

\* A call returns, TRUE or FALSE, unless calls of others return for ever: the
\* timeout is given to each timed_wait afresh, so only who takes again and again
\* what a thread was woken for can hold it up.  Threads never all wait.
CallsReturn ==
    \A t \in Threads : \/ pc[t] # "idle" ~> pc[t] = "idle"
                       \/ []<><<\E u \in Threads \ {t} : Returns(u)>>_vars

\* event_queue.h:112 gives _pop_milliseconds as the time a pop waits: so a pop
\* returns in any case, however many consumers share the queue.
PopFrontReturns == \A t \in Consumers : pc[t] \in PopStates ~> pc[t] = "idle"
=============================================================================
