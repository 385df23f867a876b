------------------------------ MODULE MemPool ------------------------------
(***************************************************************************)
(* sys::CRawMemPool, and CThreadMemPool, which calls it under one lock, so *)
(* that a method is one step whoever calls it.  Memory is addresses: the   *)
(* pool's own from 0 up to _stack_top, the heap's beyond.  The stack holds *)
(* the free buckets; a bitmap remembers which buckets are out, to make a   *)
(* second reclaim harmless.                                                *)
(*                                                                         *)
(* Callers destroy a pool when they have given everything back, and give   *)
(* back twice only what is free after having been given out.  Beyond that  *)
(* the bitmap cannot help: memset fills it with bytes of value 1, so that  *)
(* bucket 0, 8, 16, ... counts as out before it was given out once.        *)
(***************************************************************************)
EXTENDS Integers, FiniteSets

CONSTANTS MaxBuckets,  \* bound: bucket_number
          BucketSize,  \* _bucket_size, the guard included
          MaxHeap      \* bound: buckets taken from the heap at a time

ASSUME BucketsAssumption == /\ MaxBuckets \in Nat \ {0} /\ MaxHeap \in Nat
                            /\ BucketSize \in Nat \ {0}

VARIABLES useHeap, bucketNumber, stackTop, stackTopIndex, availableNumber,
          bucketStack, bucketBitmap,  \* the fields of CRawMemPool
          memOut,                     \* addresses in callers' hands
          memGiven,                   \* history: addresses given out since create()
          memDeleted                  \* history: addresses of the pool itself that
                                      \* reclaim() passed to delete[]

memVars == <<useHeap, bucketNumber, stackTop, stackTopIndex, availableNumber,
             bucketStack, bucketBitmap, memOut, memGiven, memDeleted>>

PoolEnd == MaxBuckets * BucketSize
Heap == PoolEnd .. PoolEnd + MaxHeap - 1
Address == 0 .. PoolEnd + MaxHeap - 1
Bits(number) == 0 .. ((number + 8) \div 8) * 8 - 1

MemInit == /\ useHeap = FALSE
           /\ bucketNumber = 0
           /\ stackTop = -1
           /\ stackTopIndex = 0
           /\ availableNumber = 0
           /\ bucketStack = <<>>
           /\ bucketBitmap = <<>>
           /\ memOut = {} /\ memGiven = {} /\ memDeleted = {}
-----------------------------------------------------------------------------
\* create() destroys what there was.  The bytes of the bitmap are set to 1, which
\* is the lowest of every eight bits.
CreateMem(number, heap) ==
    /\ memOut = {}
    /\ useHeap' = heap
    /\ bucketNumber' = number
    /\ stackTop' = BucketSize * (number - 1)
    /\ stackTopIndex' = number
    /\ availableNumber' = number
    /\ bucketStack' = [i \in 0 .. number - 1 |-> BucketSize * i]
    /\ bucketBitmap' = [i \in Bits(number) |-> IF i % 8 = 0 THEN 1 ELSE 0]
    /\ memGiven' = {}
    /\ UNCHANGED <<memOut, memDeleted>>

\* _stack_top keeps its value, as in the code.
DestroyMem == /\ bucketNumber # 0 /\ memOut = {}
              /\ useHeap' = FALSE
              /\ bucketNumber' = 0
              /\ stackTopIndex' = 0
              /\ availableNumber' = 0
              /\ bucketStack' = <<>>
              /\ bucketBitmap' = <<>>
              /\ memGiven' = {}
              /\ UNCHANGED <<stackTop, memOut, memDeleted>>

AllocateMem ==
    LET ptr == bucketStack[stackTopIndex - 1]
    IN  /\ stackTopIndex # 0
        /\ availableNumber' = availableNumber - 1
        /\ stackTopIndex' = stackTopIndex - 1
        /\ bucketBitmap' = [bucketBitmap EXCEPT ![ptr \div BucketSize] = 1]
        /\ memOut' = memOut \cup {ptr}
        /\ memGiven' = memGiven \cup {ptr}
        /\ UNCHANGED <<useHeap, bucketNumber, stackTop, bucketStack, memDeleted>>

\* An empty stack: new char[], or NULL, which changes nothing.
AllocateHeap == /\ stackTopIndex = 0 /\ useHeap
                /\ \E ptr \in Heap \ memOut : memOut' = memOut \cup {ptr}
                /\ UNCHANGED <<useHeap, bucketNumber, stackTop, stackTopIndex,
                               availableNumber, bucketStack, bucketBitmap, memGiven,
                               memDeleted>>

\* Mutant of InPool: the last bucket is taken for memory of the heap.
InPoolBelowTop(ptr) == 0 <= ptr /\ ptr < stackTop

InPool(ptr) == 0 <= ptr /\ ptr <= stackTop

\* Mutant of PushBucket: the bitmap is not consulted.
PushBucketAlways(ptr) ==
    /\ availableNumber' = availableNumber + 1
    /\ stackTopIndex' = stackTopIndex + 1
    /\ bucketStack' = [i \in 0 .. bucketNumber - 1 |->
                          IF i = stackTopIndex THEN ptr ELSE bucketStack[i]]
    /\ bucketBitmap' = [bucketBitmap EXCEPT ![ptr \div BucketSize] = 0]

\* The bucket goes on the stack if its bit says that it is out.
PushBucket(ptr) ==
    \/ /\ bucketBitmap[ptr \div BucketSize] = 1
       /\ availableNumber' = availableNumber + 1
       /\ stackTopIndex' = stackTopIndex + 1
       /\ bucketStack' = [bucketStack EXCEPT ![stackTopIndex] = ptr]
       /\ bucketBitmap' = [bucketBitmap EXCEPT ![ptr \div BucketSize] = 0]
    \/ /\ bucketBitmap[ptr \div BucketSize] # 1
       /\ UNCHANGED <<availableNumber, stackTopIndex, bucketStack, bucketBitmap>>

\* reclaim(): an address below the pool or above _stack_top is freed if the pool
\* uses the heap, whether it is the heap's or not; inside, one that is not a
\* bucket's is refused.
Reclaim(ptr) ==
    /\ bucketNumber # 0
    /\ memOut' = memOut \ {ptr}
    /\ IF InPool(ptr) /\ ptr % BucketSize = 0 THEN PushBucket(ptr)
       ELSE UNCHANGED <<availableNumber, stackTopIndex, bucketStack, bucketBitmap>>
    /\ memDeleted' = IF ~InPool(ptr) /\ useHeap /\ ptr \notin Heap
                     THEN memDeleted \cup {ptr} ELSE memDeleted
    /\ UNCHANGED <<useHeap, bucketNumber, stackTop, memGiven>>

\* What callers pass: what they were given, what they gave back already, and
\* any address within a bucket, the last one's included.
ReclaimMem ==
    \E ptr \in Address :
        /\ \/ ptr \in memOut \cup memGiven
           \/ ptr < bucketNumber * BucketSize /\ ptr % BucketSize # 0
        /\ Reclaim(ptr)

\* delete[] of an address it never returned: the process ends there.
MemAborted == memDeleted # {} /\ UNCHANGED memVars

MemNext == \/ /\ memDeleted = {}
              /\ \/ \E number \in 1 .. MaxBuckets, heap \in BOOLEAN : CreateMem(number, heap)
                 \/ DestroyMem \/ AllocateMem \/ AllocateHeap \/ ReclaimMem
           \/ MemAborted

MemSpec == MemInit /\ [][MemNext]_memVars
-----------------------------------------------------------------------------
Buckets == {BucketSize * i : i \in 0 .. bucketNumber - 1}
FreeBuckets == {bucketStack[i] : i \in 0 .. stackTopIndex - 1}

MemTypeOK == /\ useHeap \in BOOLEAN
             /\ bucketNumber \in 0 .. MaxBuckets
             /\ stackTopIndex \in 0 .. bucketNumber
             /\ availableNumber \in 0 .. bucketNumber
             /\ \A i \in 0 .. bucketNumber - 1 : bucketStack[i] \in Buckets
             /\ memOut \subseteq Address /\ memGiven \subseteq Buckets

\* The four books of the pool agree however often callers give back what they
\* gave back before (mem_pool.cpp:96-147): a bucket is on the stack once or out,
\* the number available is the height of the stack, the bit of a bucket that is
\* out is set, and that of one that has come back is not.
MemBooksAgree ==
    /\ MemTypeOK
    /\ stackTopIndex = availableNumber
    /\ Cardinality(FreeBuckets) = stackTopIndex
    /\ FreeBuckets = Buckets \ memOut
    /\ \A b \in memOut \cap Buckets : bucketBitmap[b \div BucketSize] = 1
    /\ \A b \in FreeBuckets \cap memGiven : bucketBitmap[b \div BucketSize] = 0

\* The memory pool is a resource pool (mem_pool.h:43-62): no bucket is lent to
\* two callers, memory of the heap is not taken for a bucket nor a bucket for it.
\* Whatever address within the pool a caller passes, the only ones reclaim() takes
\* for the heap's and deletes lie inside the last bucket: _stack_top, the end of
\* its test (mem_pool.cpp:121), is where that bucket begins.
MemAbstract == INSTANCE ResourcePool
                   WITH Resource <- Address, pooled <- Buckets,
                        free <- FreeBuckets, lent <- memOut
DeletedInLast ==
    memDeleted \subseteq BucketSize * (bucketNumber - 1) + 1 .. bucketNumber * BucketSize - 1
MemImplementsPool == MemAbstract!Spec /\ []DeletedInLast

\* What mem_pool.h:55-59 says of reclaim(): only memory that is not the pool's is
\* freed, within the pool's range it is checked.  It does not hold (MemPoolEdge.cfg):
\* an address inside the last bucket is deleted.
DeletesHeapOnly == memDeleted = {}
=============================================================================
