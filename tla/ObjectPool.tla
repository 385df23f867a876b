----------------------------- MODULE ObjectPool -----------------------------
(***************************************************************************)
(* sys::CRawObjectPool, and CThreadObjectPool, which calls it under one    *)
(* lock: QueueMax objects, the free ones in a CArrayQueue, each with a flag*)
(* that says whether it is in the pool.  Objects are numbered by their     *)
(* index, those made on the heap beyond QueueMax; their index is 0.        *)
(* Callers destroy a pool when nothing is out, and pay back a second time  *)
(* only while the object is in the pool.                                   *)
(***************************************************************************)
EXTENDS ArrayQueue, FiniteSets

CONSTANTS UseHeap,         \* _use_heap
          MaxHeapObjects   \* bound: objects of the heap at a time

ASSUME ObjectsAssumption == Elem = 1 .. QueueMax /\ UseHeap \in BOOLEAN
                            /\ MaxHeapObjects \in Nat

VARIABLES created,         \* _object_queue and _object_array are not NULL
          objectQueue,     \* _object_queue
          inPool,          \* _in_pool of the objects of _object_array
          avaliableNumber, \* _avaliable_number
          objOut           \* objects in callers' hands

objVars == <<created, objectQueue, inPool, avaliableNumber, objOut>>

HeapObject == QueueMax + 1 .. QueueMax + MaxHeapObjects
Index(o) == IF o \in HeapObject THEN 0 ELSE o

ObjInit == /\ created = FALSE
           /\ objectQueue = NewQueue
           /\ inPool = [o \in Elem |-> FALSE]
           /\ avaliableNumber = 0
           /\ objOut = {}
-----------------------------------------------------------------------------
\* Every object is given its index, marked and queued.
CreateObj == /\ ~created
             /\ created' = TRUE
             /\ objectQueue' = [head |-> 0, tail |-> 0, size |-> QueueMax,
                                elems |-> [i \in Cells |-> i + 1]]
             /\ inPool' = [o \in Elem |-> TRUE]
             /\ avaliableNumber' = QueueMax
             /\ UNCHANGED objOut

DestroyObj == /\ created /\ objOut = {}
              /\ created' = FALSE
              /\ objectQueue' = NewQueue
              /\ inPool' = [o \in Elem |-> FALSE]
              /\ UNCHANGED <<avaliableNumber, objOut>>

\* Mutant of BorrowPooled: the object keeps its mark of being in the pool.
BorrowPooledMarked ==
    /\ created /\ ~IsEmpty(objectQueue)
    /\ objectQueue' = PopFront(objectQueue)
    /\ objOut' = objOut \cup {Front(objectQueue)}
    /\ avaliableNumber' = avaliableNumber - 1
    /\ UNCHANGED <<created, inPool>>

BorrowPooled == /\ created /\ ~IsEmpty(objectQueue)
                /\ objectQueue' = PopFront(objectQueue)
                /\ inPool' = [inPool EXCEPT ![Front(objectQueue)] = FALSE]
                /\ objOut' = objOut \cup {Front(objectQueue)}
                /\ avaliableNumber' = avaliableNumber - 1
                /\ UNCHANGED created

\* An empty queue: a new object, or NULL, which changes nothing.
BorrowNew == /\ created /\ IsEmpty(objectQueue) /\ UseHeap
             /\ \E o \in HeapObject \ objOut : objOut' = objOut \cup {o}
             /\ UNCHANGED <<created, objectQueue, inPool, avaliableNumber>>

DeleteObject(o) == /\ o \in objOut /\ Index(o) = 0
                   /\ objOut' = objOut \ {o}
                   /\ UNCHANGED <<created, objectQueue, inPool, avaliableNumber>>

\* An object that is in the pool already is left alone.
PayBackPooled(o) ==
    /\ created /\ Index(o) # 0
    /\ \/ /\ ~inPool[o]
          /\ objectQueue' = PushBack(objectQueue, o)
          /\ inPool' = [inPool EXCEPT ![o] = TRUE]
          /\ avaliableNumber' = avaliableNumber + 1
       \/ /\ inPool[o]
          /\ UNCHANGED <<objectQueue, inPool, avaliableNumber>>
    /\ objOut' = objOut \ {o}
    /\ UNCHANGED created

ObjNext == \/ CreateObj \/ DestroyObj \/ BorrowPooled \/ BorrowNew
           \/ \E o \in objOut : DeleteObject(o)
           \/ \E o \in Elem : PayBackPooled(o)

ObjSpec == ObjInit /\ [][ObjNext]_objVars
-----------------------------------------------------------------------------
FreeObjects == {Contents(objectQueue)[i] : i \in 1 .. objectQueue.size}
Objects == IF created THEN Elem ELSE {}

ObjTypeOK == /\ created \in BOOLEAN
             /\ WellFormed(objectQueue)
             /\ inPool \in [Elem -> BOOLEAN]
             /\ avaliableNumber \in 0 .. QueueMax
             /\ objOut \subseteq Elem \cup HeapObject

\* The queue of free objects, the objects' own marks and the number available
\* agree (object_pool.h:99-180), however often an object is paid back: none is
\* queued twice, so the queue, which checks nothing, never overflows.
ObjBooksAgree ==
    /\ ObjTypeOK
    /\ Cardinality(FreeObjects) = objectQueue.size
    /\ FreeObjects = {o \in Elem : inPool[o]}
    /\ created => avaliableNumber = objectQueue.size

\* The object pool is a resource pool (object_pool.h:127-160): no object is lent
\* twice, and one of the heap never enters the queue.
ObjAbstract == INSTANCE ResourcePool
                   WITH Resource <- Elem \cup HeapObject, pooled <- Objects,
                        free <- FreeObjects, lent <- objOut
ObjImplementsPool == ObjAbstract!Spec
=============================================================================
