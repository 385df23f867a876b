----------------------------- MODULE QueueMover -----------------------------
(***************************************************************************)
(* tools/redis_queue_mover.cpp from redis to redis: the main thread, the   *)
(* thread that waits for signals, the one that reports how many values     *)
(* were moved, and the threads that move.  Sleeps are the time between two *)
(* steps.                                                                  *)
(***************************************************************************)
EXTENDS RedisLists

CONSTANT MaxTerms \* bound: SIGTERMs from outside

VARIABLES gStop,         \* g_stop
          numMoved,      \* g_num_moved
          terms, pending, \* SIGTERMs sent, and whether one is pending
          main, signalThread, statThread \* where these threads are

moverVars == <<gStop, numMoved, terms, pending, main, signalThread, statThread>>

MoverInit == /\ gStop = FALSE /\ numMoved = 0 /\ terms = 0 /\ pending = FALSE
             /\ main = "joinsMovers" /\ signalThread = "tests" /\ statThread = "tests"

Alone == UNCHANGED <<gStop, numMoved, terms, pending, main, signalThread, statThread>>
-----------------------------------------------------------------------------
\* The clients for source and destination are made; a failure ends the thread.
MoverOpens(t) == /\ at[t] = "opens"
                 /\ \/ at' = [at EXCEPT ![t] = "tests"] /\ UNCHANGED failures
                    \/ /\ failures < MaxFailures
                       /\ failures' = failures + 1
                       /\ at' = [at EXCEPT ![t] = "left"]
                 /\ UNCHANGED <<program, queues, source, target, kills, hand, lost, again>>
                 /\ Alone

\* while (!g_stop)
MoverTests(t) == /\ at[t] = "tests"
                 /\ at' = [at EXCEPT ![t] = IF gStop THEN "left" ELSE "pops"]
                 /\ UNCHANGED <<program, queues, source, target, failures, kills, hand,
                                lost, again>>
                 /\ Alone

MoverPops(t) == /\ at[t] = "pops"
                /\ RPop(t) \/ RPopFails(t, "tests", <<>>)
                /\ Alone

\* Mutant of MoverPushes: a stop ends the retries, as in queue_redis2redis.
MoverPushesUnlessStopped(t) ==
    /\ at[t] = "pushes"
    /\ IF gStop THEN /\ at' = [at EXCEPT ![t] = "left"]
                     /\ hand' = [hand EXCEPT ![t] = <<>>]
                     /\ UNCHANGED <<program, queues, source, target, failures, kills, lost,
                                    again, numMoved>>
       ELSE \/ LPush(t, KeyOf(t)) /\ numMoved' = numMoved + Len(hand[t])
            \/ LPushFails(t, KeyOf(t)) /\ UNCHANGED numMoved
    /\ UNCHANGED <<gStop, terms, pending, main, signalThread, statThread>>

\* The push and its count, retried for as long as it takes whatever g_stop says.
MoverPushes(t) == /\ at[t] = "pushes"
                  /\ \/ LPush(t, KeyOf(t)) /\ numMoved' = numMoved + Len(hand[t])
                     \/ LPushFails(t, KeyOf(t)) /\ UNCHANGED numMoved
                  /\ UNCHANGED <<gStop, terms, pending, main, signalThread, statThread>>

Moves(t) == MoverOpens(t) \/ MoverTests(t) \/ MoverPops(t) \/ MoverPushes(t)
-----------------------------------------------------------------------------
\* The movers are joined.
MoversJoined == /\ main = "joinsMovers" /\ \A t \in Movers : at[t] = "left"
                /\ main' = "stopsMyself"
                /\ UNCHANGED <<gStop, numMoved, terms, pending, signalThread, statThread>>

\* Mutant of StopsMyself: the flag without the signal.
StopsMyselfSilently == /\ main = "stopsMyself"
                       /\ main' = "joinsOthers"
                       /\ gStop' = TRUE
                       /\ UNCHANGED <<numMoved, terms, pending, signalThread, statThread>>

\* stop_myself_if_need(): unless a SIGTERM was heard before, the flag, and then
\* a SIGTERM that gets the signal thread out of its wait.
StopsMyself == /\ main = "stopsMyself"
               /\ \/ gStop /\ main' = "joinsOthers" /\ UNCHANGED gStop
                  \/ ~gStop /\ main' = "kills" /\ gStop' = TRUE
               /\ UNCHANGED <<numMoved, terms, pending, signalThread, statThread>>

KillsMyself == /\ main = "kills"
               /\ main' = "joinsOthers"
               /\ pending' = TRUE
               /\ UNCHANGED <<gStop, numMoved, terms, signalThread, statThread>>

OthersJoined == /\ main = "joinsOthers" /\ statThread = "left" /\ signalThread = "left"
                /\ main' = "exited"
                /\ UNCHANGED <<gStop, numMoved, terms, pending, signalThread, statThread>>

MainStep == /\ MoversJoined \/ StopsMyself \/ KillsMyself \/ OthersJoined
            /\ UNCHANGED listVars

\* signal_thread_proc(): another test of g_stop, or a signal and on_terminated().
SignalTests == /\ signalThread = "tests"
               /\ signalThread' = IF gStop THEN "left" ELSE "waits"
               /\ UNCHANGED <<gStop, numMoved, terms, pending, main, statThread>>

SignalTaken == /\ signalThread = "waits" /\ pending
               /\ signalThread' = "tests" /\ pending' = FALSE /\ gStop' = TRUE
               /\ UNCHANGED <<numMoved, terms, main, statThread>>

SignalStep == (SignalTests \/ SignalTaken) /\ UNCHANGED listVars

\* stat_thread_proc() logs the count until g_stop.
StatStep == /\ statThread = "tests" /\ gStop
            /\ statThread' = "left"
            /\ UNCHANGED <<gStop, numMoved, terms, pending, main, signalThread>>
            /\ UNCHANGED listVars

\* A SIGTERM, which stays pending until it is taken.
Term == /\ terms < MaxTerms /\ main # "exited"
        /\ terms' = terms + 1 /\ pending' = TRUE
        /\ UNCHANGED <<gStop, numMoved, main, signalThread, statThread>>
        /\ UNCHANGED listVars

\* The process is killed and started again.
MoverKilled == /\ main # "exited"
               /\ ProcessKilled
               /\ gStop' = FALSE /\ numMoved' = 0 /\ pending' = FALSE
               /\ main' = "joinsMovers" /\ signalThread' = "tests" /\ statThread' = "tests"
               /\ UNCHANGED terms

MoverNext == \/ \E t \in Movers : Moves(t)
             \/ MainStep \/ SignalStep \/ StatStep \/ Term \/ MoverKilled
=============================================================================
