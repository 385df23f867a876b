---------------------------- MODULE ArrayQueue ----------------------------
(***************************************************************************)
(* utils::CArrayQueue, the ring buffer under CEventQueue, CEpollableQueue, *)
(* the object pools and the asynchronous logger.  A queue is a record of   *)
(* the class's fields; each method is an operator on such a record.  The   *)
(* class does no checking of its own: pop_front of an empty queue and      *)
(* push_back to a full one are the caller's mistakes, and the operators    *)
(* then do what the code does (the size wraps or exceeds QueueMax).        *)
(***************************************************************************)
EXTENDS Integers, Sequences

CONSTANTS QueueMax,    \* _queue_max
          Elem,        \* DataType
          Uninit       \* what a never written cell of new DataType[] holds

ASSUME QueueMaxAssumption == QueueMax \in Nat \ {0}
ASSUME UninitAssumption == Uninit \notin Elem

Cells == 0 .. QueueMax - 1

RawQueue == [head : Cells, tail : Cells, size : 0 .. QueueMax,
             elems : [Cells -> Elem \cup {Uninit}]]

NewQueue == [head |-> 0, tail |-> 0, size |-> 0,
             elems |-> [i \in Cells |-> Uninit]]

\* Mutant of IsFull: the queue is found full one element too late.
IsFullLate(q) == q.size > QueueMax

IsFull(q)  == q.size = QueueMax
IsEmpty(q) == q.size = 0
Front(q)   == q.elems[q.head]

\* pop_front() without its result, which is Front(q).
PopFront(q) == [head |-> (q.head + 1) % QueueMax, tail |-> q.tail,
                size |-> q.size - 1, elems |-> q.elems]

\* Mutant of PushBack: _tail is advanced before the element is stored.
PushBackAdvancesFirst(q, e) ==
    [head |-> q.head, tail |-> (q.tail + 1) % QueueMax, size |-> q.size + 1,
     elems |-> [q.elems EXCEPT ![(q.tail + 1) % QueueMax] = e]]

PushBack(q, e) ==
    [head |-> q.head, tail |-> (q.tail + 1) % QueueMax, size |-> q.size + 1,
     elems |-> [q.elems EXCEPT ![q.tail] = e]]

\* The elements in the order pop_front will return them.
Contents(q) == [i \in 1 .. q.size |-> q.elems[(q.head + i - 1) % QueueMax]]

\* The three positions of a ring agree, and no queued cell is unwritten.
WellFormed(q) == /\ q \in RawQueue
                 /\ q.tail = (q.head + q.size) % QueueMax
                 /\ \A i \in 1 .. q.size : Contents(q)[i] \in Elem
=============================================================================
