------------------------------ MODULE MCMovers ------------------------------
\* Either of the two programs that move lists, two threads and three values.
EXTENDS QueueMover, RedisToRedis

Programs == {"redis_queue_mover", "queue_redis2redis"}

Init == program \in Programs /\ ListsInit /\ MoverInit /\ RelayInit

Mover == program = "redis_queue_mover" /\ MoverNext /\ UNCHANGED relayVars
Relay == program = "queue_redis2redis" /\ RelayNext /\ UNCHANGED moverVars
Next == Mover \/ Relay

vars == <<listVars, moverVars, relayVars>>

\* Every thread runs on; kills and stops need not happen,
\* but on_terminated() finishes what it began.
Fairness ==
    /\ \A t \in Movers : /\ WF_vars(program = "redis_queue_mover" /\ Moves(t) /\ UNCHANGED relayVars)
                         /\ WF_vars(program = "queue_redis2redis" /\ t \in Mine /\ Relays(t)
                                        /\ UNCHANGED moverVars)
    /\ WF_vars(program = "redis_queue_mover" /\ MainStep /\ UNCHANGED relayVars)
    /\ WF_vars(program = "redis_queue_mover" /\ SignalStep /\ UNCHANGED relayVars)
    /\ WF_vars(program = "redis_queue_mover" /\ StatStep /\ UNCHANGED relayVars)
    /\ WF_vars(program = "queue_redis2redis" /\ RelayMain /\ UNCHANGED moverVars)
    /\ WF_vars(program = "queue_redis2redis" /\ StopsMover /\ UNCHANGED moverVars)

Spec == Init /\ [][Next]_vars /\ Fairness
-----------------------------------------------------------------------------
\* Every value is accounted for, and when its movers have ended, g_num_moved of
\* redis_queue_mover is the number of values it moved, not of those it pushed.
AllAccounted ==
    /\ Accounted
    /\ program = "redis_queue_mover" /\ kills = 0 /\ main # "joinsMovers" =>
           numMoved = Cardinality({v \in Values : Copies(v) > 0})

\* A SIGTERM, or a stop for a reason of its own, ends the process, wherever its
\* other threads are: redis_queue_mover once it has pushed what it has popped,
\* queue_redis2redis if it was running when the SIGTERM came.  (After the last
\* SIGKILL: the initial state may be left by one, so that this loses nothing.)
StopEnds ==
    /\ (pending \/ main = "stopsMyself") /\ kills = MaxKills ~> main = "exited"
    /\ toStop /\ (\A t \in Mine : stopped[t] \/ t \in stopping) /\ kills = MaxKills
           ~> relay = "exited"

\* "通过SIGTERM幽雅退出": a process of main_template ends after a SIGTERM, the
\* one that comes while on_init() starts the movers included.
SigtermEnds == toStop /\ kills = MaxKills ~> relay = "exited"
=============================================================================
