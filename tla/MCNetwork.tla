----------------------------- MODULE MCNetwork -----------------------------
(***************************************************************************)
(* The network layer, one part at a time: the connections of a reactor     *)
(* thread, or the messages that are sent over one of them.                 *)
(***************************************************************************)
EXTENDS Connection, MessageStream

CONSTANTS c1, w1 \* a client and a waiter
MCFds == 1 .. 5
MCOthers == {c1, w1} \cup Listeners

VARIABLE layer \* which of the two it is

NetworkVars == <<vars, streamVars, layer>>

NetworkInit == /\ layer \in {"connections", "messages"}
               /\ Init /\ StreamInit
               /\ layer = "connections" => (\A m \in 1 .. Number : size[m] = 0) /\ mode = "machine"

Connects == layer = "connections" /\ Next /\ UNCHANGED <<streamVars, layer>>
Messages == layer = "messages" /\ StreamNext /\ UNCHANGED <<vars, layer>>
NetworkNext == Connects \/ Messages

\* Both sides of the stream go on as long as they can, and drop a connection after an
\* error.  A reactor nobody connected anything to owes nothing.
StreamFairness == /\ WF_streamVars(layer = "messages" /\ ~spoilt /\ Sender)
                  /\ WF_streamVars(layer = "messages" /\ ~spoilt /\ MachineStep)
                  /\ WF_streamVars(layer = "messages" /\ ~spoilt /\ ReadStep)
                  /\ WF_streamVars(layer = "messages" /\ ~spoilt /\ failed /\ Reconnect)

NetworkSpec == /\ NetworkInit /\ [][NetworkNext]_NetworkVars
               /\ ReactorFairness /\ StreamFairness
-----------------------------------------------------------------------------
\* Everything that was sent is received in the end, where anything is sent
\* (recv_machine.h:129-143, send_machine.h:59-71).
MessagesHandled == layer = "messages" => AllHandled
=============================================================================
