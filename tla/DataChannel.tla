---------------------------- MODULE DataChannel ----------------------------
(***************************************************************************)
(* net::CDataChannel over one TCP connection, as CTcpClient and CTcpWaiter *)
(* use it: what recv() and send() may return, and the loops that receive or*)
(* send a given number of bytes.  A byte is <<m, i>>, the i-th of message  *)
(* m, so that a byte that is lost, repeated or out of place is seen.  The  *)
(* wire holds the bytes between the two sockets, at most Window of them.   *)
(***************************************************************************)
EXTENDS Integers, Sequences

CONSTANTS Window,      \* bytes between the sockets before send() blocks
          RecvNonblock \* the receiver's descriptor is non-blocking

ASSUME WindowAssumption == Window \in Nat \ {0} /\ RecvNonblock \in BOOLEAN

VARIABLES wire,   \* bytes sent and not yet received
          kept,   \* what earlier calls of timed_receive() returned
          got,    \* the bytes in the buffer of the call that runs
          remain  \* remaining_size of the call that runs, 0 if none does

channelVars == <<wire, kept, got, remain>>

Least(a, b) == IF a < b THEN a ELSE b
FirstBytes(s, n) == SubSeq(s, 1, n)
WithoutFirst(s, n) == SubSeq(s, n + 1, Len(s))

ChannelInit == wire = <<>> /\ kept = <<>> /\ got = <<>> /\ remain = 0

\* Numbers recv() may return when asked for n bytes; -1 is EWOULDBLOCK.  A
\* blocking descriptor returns none of them, that is, blocks, on an empty wire.
ReceiveResults(n) == 1 .. Least(n, Len(wire))
                     \cup IF wire = <<>> /\ RecvNonblock THEN {-1} ELSE {}

\* Numbers send() of n bytes may return other than -1.
SendResults(n) == 1 .. Least(n, Window - Len(wire))
-----------------------------------------------------------------------------
BeginReceive(n) == /\ remain = 0
                   /\ kept' = <<>> /\ got' = <<>>
                   /\ remain' = n
                   /\ UNCHANGED wire

\* Mutant of FullReceiveStep: what has arrived is not taken off the remainder.
FullReceiveStepForgets ==
    \E k \in ReceiveResults(remain) :
        /\ remain > 0 /\ k > 0
        /\ got' = got \o FirstBytes(wire, k)
        /\ wire' = WithoutFirst(wire, k)
        /\ remain' = IF k = remain THEN 0 ELSE remain
        /\ UNCHANGED kept

\* One turn of full_receive()'s loop.  The result is added whatever it is, so -1
\* moves the buffer back by one and asks for one byte more.
FullReceiveStep ==
    \E k \in ReceiveResults(remain) :
        /\ remain > 0
        /\ got' = IF k = -1 THEN SubSeq(got, 1, Len(got) - 1) ELSE got \o FirstBytes(wire, k)
        /\ wire' = IF k = -1 THEN wire ELSE WithoutFirst(wire, k)
        /\ remain' = remain - k
        /\ UNCHANGED kept

\* One turn of timed_receive()'s loop: poll(), then receive(); -1 is passed over.
TimedReceiveStep ==
    \E k \in ReceiveResults(remain) :
        /\ remain > 0 /\ k > 0
        /\ got' = got \o FirstBytes(wire, k)
        /\ wire' = WithoutFirst(wire, k)
        /\ remain' = remain - k
        /\ UNCHANGED kept

\* poll() times out: the caller is told how much it has and asks for the rest.
TimedReceiveTimesOut == /\ remain > 0 /\ wire = <<>> /\ got # <<>>
                        /\ kept' = kept \o got
                        /\ got' = <<>>
                        /\ UNCHANGED <<wire, remain>>
=============================================================================
