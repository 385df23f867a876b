-------------------------- MODULE EpollableQueue --------------------------
(***************************************************************************)
(* net::CEpollableQueue: a ring whose number of elements is mirrored by the*)
(* number of bytes in a pipe, so that epoll reports the queue readable.    *)
(*                                                                         *)
(* push_back writes its byte while it holds _lock, and write() blocks when *)
(* the pipe is full, so the lock is a variable here and a push is two      *)
(* steps: the element enters the ring, then the byte enters the pipe.      *)
(* pop_front never blocks: it reads its byte and takes its element in one  *)
(* step.  A pop wakes one waiting push with pthread_cond_signal.           *)
(***************************************************************************)
EXTENDS ArrayQueue, FiniteSets

CONSTANTS Pushers, Poppers,  \* disjoint sets of threads
          Patient,           \* the pushers that call with millisecond > 0
          PipeMax,           \* bytes a pipe holds before write() blocks
          BatchMax,          \* bound: the largest array_size of pop_front
          MaxSpurious,       \* bound: spurious wake-ups in a behaviour
          NoOne

ASSUME PipeAssumption == PipeMax \in Nat \ {0}
ASSUME BoundsAssumption == BatchMax \in Nat \ {0} /\ MaxSpurious \in Nat
ASSUME PushersAssumption == /\ IsFiniteSet(Pushers) /\ Patient \subseteq Pushers
                            /\ Pushers \cap Poppers = {}
                            /\ NoOne \notin Pushers \cup Poppers
ASSUME ElemAssumption == Elem # {}

VARIABLES rawQueue,          \* _raw_queue
          pipe,              \* bytes in the pipe
          open,              \* _pipefd is not yet -1
          lock,              \* the holder of _lock
          pushWaiterNumber,  \* _push_waiter_number
          pc, elem,          \* where each thread is, and what it pushes
          result,            \* how its last call ended
          spurious

vars == <<rawQueue, pipe, open, lock, pushWaiterNumber, pc, elem, result, spurious>>

Threads == Pushers \cup Poppers
PcStates == {"idle", "push", "pushWait", "pushWoken", "pushTimedOut", "writing", "pop"}

Init == /\ rawQueue = NewQueue
        /\ pipe = 0
        /\ open = TRUE
        /\ lock = NoOne
        /\ pushWaiterNumber = 0
        /\ pc = [t \in Threads |-> "idle"]
        /\ elem = [t \in Pushers |-> CHOOSE e \in Elem : TRUE]
        /\ result = [t \in Threads |-> "none"]
        /\ spurious = 0
-----------------------------------------------------------------------------
Waiting == {t \in Pushers : pc[t] = "pushWait"}
Signalled == {t \in Pushers : pc[t] = "pushWoken"}

CallPushBack(t, e) == /\ pc[t] = "idle"
                      /\ pc' = [pc EXCEPT ![t] = "push"]
                      /\ elem' = [elem EXCEPT ![t] = e]
                      /\ UNCHANGED <<rawQueue, pipe, open, lock,
                                     pushWaiterNumber, result, spurious>>

CallPopFront(t) == /\ pc[t] = "idle"
                   /\ pc' = [pc EXCEPT ![t] = "pop"]
                   /\ UNCHANGED <<rawQueue, pipe, open, lock, pushWaiterNumber,
                                  elem, result, spurious>>

\* _push_waiter_number when t has left the CountHelper's scope.
LeavesWait(t) ==
    pushWaiterNumber - (IF pc[t] \in {"pushWoken", "pushTimedOut"} THEN 1 ELSE 0)

\* The element is in the ring before the byte is in the pipe; on a closed
\* queue write(-1) throws and the element stays.
PushBackEnqueues(t) ==
    /\ lock = NoOne
    /\ pc[t] \in {"push", "pushWoken"}
    /\ ~IsFull(rawQueue)
    /\ rawQueue' = PushBack(rawQueue, elem[t])
    /\ pushWaiterNumber' = LeavesWait(t)
    /\ \/ /\ open
          /\ lock' = t
          /\ pc' = [pc EXCEPT ![t] = "writing"]
          /\ UNCHANGED result
       \/ /\ ~open
          /\ pc' = [pc EXCEPT ![t] = "idle"]
          /\ result' = [result EXCEPT ![t] = "threw"]
          /\ UNCHANGED lock
    /\ UNCHANGED <<pipe, open, elem, spurious>>

\* write() of one byte: it blocks, with the lock held, while the pipe is full.
WriteByte(t) == /\ pc[t] = "writing"
                /\ pipe < PipeMax
                /\ pipe' = pipe + 1
                /\ lock' = NoOne
                /\ pc' = [pc EXCEPT ![t] = "idle"]
                /\ result' = [result EXCEPT ![t] = "true"]
                /\ UNCHANGED <<rawQueue, open, pushWaiterNumber, elem, spurious>>

PushBackWaits(t) == /\ lock = NoOne
                    /\ pc[t] \in {"push", "pushWoken"}
                    /\ IsFull(rawQueue)
                    /\ t \in Patient
                    /\ pushWaiterNumber' = LeavesWait(t) + 1
                    /\ pc' = [pc EXCEPT ![t] = "pushWait"]
                    /\ UNCHANGED <<rawQueue, pipe, open, lock, elem, result, spurious>>

PushBackRefused(t) == /\ lock = NoOne
                      /\ \/ pc[t] = "push" /\ IsFull(rawQueue) /\ t \notin Patient
                         \/ pc[t] = "pushTimedOut"
                      /\ pushWaiterNumber' = LeavesWait(t)
                      /\ pc' = [pc EXCEPT ![t] = "idle"]
                      /\ result' = [result EXCEPT ![t] = "false"]
                      /\ UNCHANGED <<rawQueue, pipe, open, lock, elem, spurious>>

TimesOut(t) == /\ pc[t] = "pushWait"
               /\ pc' = [pc EXCEPT ![t] = "pushTimedOut"]
               /\ UNCHANGED <<rawQueue, pipe, open, lock, pushWaiterNumber,
                              elem, result, spurious>>

WakesSpuriously(t) == /\ pc[t] = "pushWait"
                      /\ spurious < MaxSpurious
                      /\ spurious' = spurious + 1
                      /\ pc' = [pc EXCEPT ![t] = "pushWoken"]
                      /\ UNCHANGED <<rawQueue, pipe, open, lock, pushWaiterNumber,
                                     elem, result>>

\* The ring after n times pop_front: its head is n cells further round.
Drop(n) == [head |-> (rawQueue.head + n) % QueueMax, tail |-> rawQueue.tail,
            size |-> rawQueue.size - n, elems |-> rawQueue.elems]

\* pthread_cond_signal k times, if somebody is counted as waiting: each wakes
\* one blocked thread, as long as there is one.
Signal(k) == IF pushWaiterNumber > 0
             THEN {S \in SUBSET Waiting :
                     Cardinality(S) = IF k < Cardinality(Waiting)
                                      THEN k ELSE Cardinality(Waiting)}
             ELSE {{}}

\* What do_pop_front up to n times under one lock does: k elements leave the
\* ring, with them some bytes the pipe, and some signals are sent.
Batch(t, k, bytes, signals) ==
    /\ lock = NoOne
    /\ pc[t] = "pop"
    /\ ~IsEmpty(rawQueue)
    /\ open
    /\ pipe >= bytes
    /\ pipe' = pipe - bytes
    /\ rawQueue' = Drop(k)
    /\ \E S \in Signal(signals) :
         pc' = [u \in Threads |-> IF u = t THEN "idle"
                                  ELSE IF u \in S THEN "pushWoken" ELSE pc[u]]
    /\ result' = [result EXCEPT ![t] = "true"]
    /\ UNCHANGED <<open, lock, pushWaiterNumber, elem, spurious>>

Upto(n) == IF n < rawQueue.size THEN n ELSE rawQueue.size

\* Mutant of PopFrontTakes: a batch reads one byte, whatever it takes.
PopFrontTakesOneByte(t, n) == Batch(t, Upto(n), 1, Upto(n))

\* Mutant of PopFrontTakes: a batch signals once, whatever it takes.
PopFrontTakesSignalsOnce(t, n) == Batch(t, Upto(n), Upto(n), 1)

\* pop_front(elem) is n = 1, pop_front(array, n) any n: for each element a byte
\* and a signal.
PopFrontTakes(t, n) == Batch(t, Upto(n), Upto(n), Upto(n))

\* An empty queue answers false; on a closed one read(-1) throws first.
PopFrontFails(t) ==
    /\ lock = NoOne
    /\ pc[t] = "pop"
    /\ IsEmpty(rawQueue) \/ ~open
    /\ pc' = [pc EXCEPT ![t] = "idle"]
    /\ result' = [result EXCEPT ![t] = IF IsEmpty(rawQueue) THEN "false" ELSE "threw"]
    /\ UNCHANGED <<rawQueue, pipe, open, lock, pushWaiterNumber, elem, spurious>>

\* close(): both ends of the pipe, and the bytes with them.
Close == /\ lock = NoOne
         /\ open
         /\ open' = FALSE
         /\ pipe' = 0
         /\ UNCHANGED <<rawQueue, lock, pushWaiterNumber, pc, elem, result, spurious>>

PushStep(t) == PushBackEnqueues(t) \/ PushBackWaits(t) \/ PushBackRefused(t)
PopStep(t) == PopFrontFails(t) \/ \E n \in 1 .. BatchMax : PopFrontTakes(t, n)

Next == \/ \E t \in Pushers : \/ \E e \in Elem : CallPushBack(t, e)
                              \/ PushStep(t) \/ WriteByte(t)
                              \/ TimesOut(t) \/ WakesSpuriously(t)
        \/ \E t \in Poppers : CallPopFront(t) \/ PopStep(t)
        \/ Close

Spec == Init /\ [][Next]_vars

\* A thread in a call goes on whenever it can; the lock promises nobody a turn.
FairSpec == /\ Spec
            /\ \A t \in Pushers : WF_vars(PushStep(t)) /\ WF_vars(WriteByte(t))
            /\ \A t \in Poppers : WF_vars(PopStep(t))
-----------------------------------------------------------------------------
\* The types of the variables.
TypeOK == /\ WellFormed(rawQueue)
          /\ pipe \in 0 .. PipeMax
          /\ open \in BOOLEAN
          /\ lock \in Pushers \cup {NoOne}
          /\ pushWaiterNumber \in 0 .. Cardinality(Pushers)
          /\ pc \in [Threads -> PcStates]
          /\ elem \in [Pushers -> Elem]
          /\ result \in [Threads -> {"none", "true", "false", "threw"}]
          /\ spurious \in 0 .. MaxSpurious

\* The pipe tells epoll the truth: it holds a byte for every queued element, a
\* push that has not written yet aside.  So the descriptor is readable when
\* there is data, and read() in pop_front can never block with the lock held.
PipeMirrorsQueue ==
    /\ TypeOK
    /\ open => rawQueue.size = pipe + Cardinality({t \in Pushers : pc[t] = "writing"})

\* A pop signals one waiting push.  If a push still sleeps, every free slot is
\* owed to a push that has been signalled and has not had the lock yet; a free
\* slot nobody was told of would leave the sleeper to its timeout.
FreeSlotsAreOwed ==
    Waiting # {} => QueueMax - rawQueue.size <= Cardinality(Signalled)

\* What epollable_queue.h says: a queue holds queue_max elements (:36), and a push
\* with millisecond 0 does not wait (:142).  So one that has put its element into
\* the ring returns, the more so when a pop is there to make room; but it holds
\* the lock across write(), and on a full pipe the pop waits for the lock and the
\* push for the pop.
PushBackDoesNotBlock ==
    \A t \in Pushers \ Patient, c \in Poppers :
        pc[t] = "writing" /\ pc[c] = "pop" ~> pc[t] = "idle" \/ pc[c] = "idle"
=============================================================================
