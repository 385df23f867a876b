---------------------------- MODULE MCSafeLogger ----------------------------
(* Instances of SafeLogger for TLC: a process of two threads and one of one, *)
(* or two processes of one thread each.                                      *)
EXTENDS SafeLogger, TLC

CONSTANTS a, b, t1, t2, t3

ThreeThreads == t1 :> a @@ t2 :> a @@ t3 :> b
TwoThreads == t1 :> a @@ t3 :> b
=============================================================================
