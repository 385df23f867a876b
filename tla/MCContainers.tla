---------------------------- MODULE MCContainers ----------------------------
(***************************************************************************)
(* The containers that lock nothing themselves, one at a time: the timeout *)
(* manager over its list, the pool of memory and the pool of objects.      *)
(***************************************************************************)
EXTENDS TimeoutManager, MemPool, ObjectPool

CONSTANTS o1, o2, o3 \* objects of the timeout manager

VARIABLE container \* the one that is used

vars == <<managerVars, memVars, objVars, container>>

Init == /\ container \in {"CTimeoutManager", "CRawMemPool", "CRawObjectPool"}
        /\ ManagerInit /\ MemInit /\ ObjInit

Manager == container = "CTimeoutManager" /\ ManagerNext
           /\ UNCHANGED <<memVars, objVars, container>>
Memory  == container = "CRawMemPool" /\ MemNext
           /\ UNCHANGED <<managerVars, objVars, container>>
Pooled  == container = "CRawObjectPool" /\ ObjNext
           /\ UNCHANGED <<managerVars, memVars, container>>
Next == Manager \/ Memory \/ Pooled

Spec == Init /\ [][Next]_vars /\ ManagerFairness
-----------------------------------------------------------------------------
\* What is free in either pool is what its counters, marks and queue say.
BooksAgree == MemBooksAgree /\ ObjBooksAgree
=============================================================================
