\* A child that ends without reporting anything.
INIT SyncInit
NEXT SyncNext
INVARIANT SuccessIsReported
CHECK_DEADLOCK FALSE
