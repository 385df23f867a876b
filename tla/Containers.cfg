\* Three timed objects, five ticks of the clock, time-outs of zero and one second;
\* up to four buckets of two addresses, four objects, one of each from the heap.
CONSTANTS
    o1 = o1
    o2 = o2
    o3 = o3
    Object = {o1, o2, o3}
    HeadNode = HeadNode
    NULL = NULL
    MaxTime = 5
    TimeoutChoices = {0, 1}
    MaxBuckets = 4
    BucketSize = 2
    MaxHeap = 1
    QueueMax = 4
    Elem = {1, 2, 3, 4}
    Uninit = Uninit
    UseHeap = TRUE
    MaxHeapObjects = 1
SPECIFICATION Spec
INVARIANTS ListInOrder BooksAgree
PROPERTIES NothingOverdue CheckReturns MemImplementsPool ObjImplementsPool
