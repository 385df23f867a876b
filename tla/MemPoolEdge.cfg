\* The last bucket's inside is given back to a pool that uses the heap: violated.
CONSTANTS
    MaxBuckets = 2
    BucketSize = 2
    MaxHeap = 1
SPECIFICATION MemSpec
INVARIANT DeletesHeapOnly
