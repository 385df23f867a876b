---------------------------- MODULE RedisToRedis ----------------------------
(***************************************************************************)
(* tools/queue_redis2redis.cpp: a process of main_template with one mover  *)
(* for each source list.  It differs from redis_queue_mover where things   *)
(* fail: a stop ends the retries of a push, a pop that throws counts as a  *)
(* batch, and every push chooses its list anew.                            *)
(***************************************************************************)
EXTENDS RedisLists

VARIABLES toStop,  \* CMainHelper's _stop
          stopped, \* _stop of each mover
          relay,   \* where the main thread is
          stopping \* the movers that on_terminated() has still to stop

relayVars == <<toStop, stopped, relay, stopping>>

RelayInit == /\ toStop = FALSE /\ stopped = [t \in Movers |-> FALSE]
             /\ relay = "starts" /\ stopping = {}

\* The movers of the process: the threads 0 to queues - 1.
Mine == {t \in Movers : t < queues}
-----------------------------------------------------------------------------
\* start_redis2redis_movers() starts the mover t.  When one fails, those before
\* it are told to stop, and the process runs on without any.
RelayStarts(t) ==
    /\ relay = "starts" /\ at[t] = "opens" /\ \A u \in Mine : u < t => at[u] # "opens"
    /\ \/ /\ at' = [at EXCEPT ![t] = "tests"]
          /\ UNCHANGED <<failures, stopped>>
       \/ /\ failures < MaxFailures
          /\ failures' = failures + 1
          /\ at' = [u \in Movers |-> IF u >= t THEN "left" ELSE at[u]]
          /\ stopped' = [u \in Movers |-> stopped[u] \/ u < t]
    /\ UNCHANGED <<program, queues, source, target, kills, hand, lost, again,
                   toStop, relay, stopping>>

RelayStarted == /\ relay = "starts" /\ \A t \in Mine : at[t] # "opens"
                /\ relay' = "waits"
                /\ UNCHANGED <<toStop, stopped, stopping>> /\ UNCHANGED listVars

Started == {t \in Mine : at[t] # "opens"}

\* on_terminated() of the signal thread, which runs before on_init() and ends
\* here: CMainHelper's flag, then the flags of the movers there are by now.
Terminated == /\ ~toStop /\ relay # "exited"
              /\ toStop' = TRUE /\ stopping' = Started
              /\ UNCHANGED <<stopped, relay>> /\ UNCHANGED listVars

StopsMover == /\ stopping # {}
              /\ LET t == CHOOSE u \in stopping : \A w \in stopping : u <= w
                 IN  stopped' = [stopped EXCEPT ![t] = TRUE] /\ stopping' = stopping \ {t}
              /\ UNCHANGED <<toStop, relay>> /\ UNCHANGED listVars

\* on_run() ends when it is to stop and every mover was joined, and fini() joins
\* the signal thread.
RelayEnds == /\ relay = "waits" /\ toStop /\ stopping = {} /\ \A t \in Mine : at[t] = "left"
             /\ relay' = "exited"
             /\ UNCHANGED <<toStop, stopped, stopping>> /\ UNCHANGED listVars
-----------------------------------------------------------------------------
\* while (!_stop) of run()
RelayTests(t) == /\ at[t] = "tests"
                 /\ at' = [at EXCEPT ![t] = IF stopped[t] THEN "left" ELSE "pops"]
                 /\ UNCHANGED <<program, queues, source, target, failures, kills, hand,
                                lost, again>>
                 /\ UNCHANGED relayVars

\* rpop_logs() returns true after an exception, with the strings that logs had
\* from the start, all empty.
RelayPops(t) == /\ at[t] = "pops"
                /\ RPop(t) \/ RPopFails(t, "pushes", [i \in 1..Batch |-> Empty])
                /\ UNCHANGED relayVars

\* A push to a list chosen at random, repeated until it is answered or _stop is set.
RelayPushes(t) == /\ at[t] = "pushes" /\ ~stopped[t]
                  /\ \E q \in Keys : LPush(t, q) \/ LPushFails(t, q)
                  /\ UNCHANGED relayVars

\* _stop was set before the push succeeded: what was popped is dropped.
RelayDrops(t) == /\ at[t] = "pushes" /\ stopped[t]
                 /\ lost' = lost \cup (ToSet(hand[t]) \ {Empty})
                 /\ hand' = [hand EXCEPT ![t] = <<>>]
                 /\ at' = [at EXCEPT ![t] = "left"]
                 /\ UNCHANGED <<program, queues, source, target, failures, kills, again>>
                 /\ UNCHANGED relayVars

Relays(t) == RelayTests(t) \/ RelayPops(t) \/ RelayPushes(t) \/ RelayDrops(t)

RelayMain == (\E t \in Mine : RelayStarts(t)) \/ RelayStarted \/ RelayEnds
RelayStops == Terminated \/ StopsMover

\* The child is killed, and main_template or a monitor starts another one.
RelayKilled == /\ relay # "exited"
               /\ ProcessKilled
               /\ toStop' = FALSE /\ stopped' = [t \in Movers |-> FALSE]
               /\ relay' = "starts" /\ stopping' = {}

RelayNext == (\E t \in Mine : Relays(t)) \/ RelayMain \/ RelayStops \/ RelayKilled
=============================================================================
