--------------------------- MODULE MessageStream ---------------------------
(***************************************************************************)
(* Messages over a connection: net::CSendMachine and net::CRecvMachine, or *)
(* full_send() and full_receive(), on both sides of a CDataChannel.  Every *)
(* message is a header of fixed size, which holds the size of the body, and*)
(* the body.  The bytes arrive cut anywhere.  The connection may break; the*)
(* peers then reset their machines, connect again and the sender starts    *)
(* with the message it had not finished.                                   *)
(***************************************************************************)
EXTENDS DataChannel

CONSTANTS Number,      \* bound: messages sent
          HeaderSize,  \* sizeof(MessageHeaderType)
          BodySizes,   \* values of the header's size
          MaxBreaks,   \* bound: connections that break
          Modes        \* how a side works: "machine", "full" or "timed"

ASSUME MessagesAssumption == /\ Number \in Nat /\ HeaderSize \in Nat \ {0}
                             /\ BodySizes \subseteq Nat /\ MaxBreaks \in Nat

VARIABLES size,        \* the size of each message's body
          mode,        \* how the receiver works
          message,     \* the message _message points to, 0 before the first
          cursor,      \* the index of the byte _cursor points to
          remainSize,  \* _remain_size
          recvState,   \* _current_recv_state
          finishedSize,\* _finished_size
          header,      \* _header, or what full_receive() put there
          hand,        \* the part of the buffer that work() has not handled
          failed,      \* work() returned handle_error
          delivered,   \* history: the last message whose body was complete
          resumed,     \* history: the message this connection began with
          breaks,
          spoilt       \* history: the header of an empty message came cut

sendVars == <<message, cursor, remainSize>>
recvVars == <<recvState, finishedSize, header, hand, failed>>
streamVars == <<channelVars, sendVars, recvVars, size, mode, delivered, resumed, breaks, spoilt>>

Length(m) == HeaderSize + size[m]
BytesOf(m, from, to) == [i \in 1 .. to - from + 1 |-> <<m, from + i - 1>>]

StreamInit == /\ ChannelInit
        /\ size \in [1 .. Number -> BodySizes]
        /\ mode \in Modes
        /\ message = 0 /\ cursor = 1 /\ remainSize = 0
        /\ recvState = "header" /\ finishedSize = 0
        /\ header = <<>> /\ hand = <<>> /\ failed = FALSE
        /\ delivered = 0 /\ resumed = 1 /\ breaks = 0 /\ spoilt = FALSE
-----------------------------------------------------------------------------
\* The sender.

IsFinish == remainSize = 0

\* send() of the connector takes some of the bytes that remain, or none.
Sends(m, from, rest) ==
    \/ \E k \in SendResults(rest) :
           /\ wire' = wire \o BytesOf(m, from, from + k - 1)
           /\ cursor' = from + k
           /\ remainSize' = rest - k
    \/ /\ SendResults(rest) = {}
       /\ cursor' = from
       /\ remainSize' = rest
       /\ UNCHANGED wire

\* send(): the first time for a message; the one before must be finished.
Send == /\ IsFinish /\ message < Number
        /\ message' = message + 1
        /\ Sends(message', 1, Length(message'))
        /\ UNCHANGED <<recvVars, kept, got, remain, size, mode, delivered, resumed, breaks, spoilt>>

\* continue_send(), and a turn of full_send()'s or timed_send()'s loop.
ContinueSend == /\ ~IsFinish
                /\ Sends(message, cursor, remainSize)
                /\ UNCHANGED <<message, recvVars, kept, got, remain, size, mode,
                               delivered, resumed, breaks, spoilt>>
-----------------------------------------------------------------------------
\* The receiver with a CRecvMachine.

Machine == mode = "machine" /\ ~failed

\* receive() of the channel, whose bytes are then given to work().
Receive == /\ Machine /\ hand = <<>>
           /\ \E k \in ReceiveResults(Len(wire)) :
                  /\ k > 0
                  /\ hand' = FirstBytes(wire, k)
                  /\ wire' = WithoutFirst(wire, k)
           /\ UNCHANGED <<sendVars, recvState, finishedSize, header, failed, kept, got, remain,
                          size, mode, delivered, resumed, breaks, spoilt>>

HandleHeaderPart ==
    /\ Machine /\ hand # <<>> /\ recvState = "header"
    /\ finishedSize + Len(hand) < HeaderSize
    /\ header' = FirstBytes(header, finishedSize) \o hand
    /\ finishedSize' = finishedSize + Len(hand)
    /\ hand' = <<>>
    /\ UNCHANGED <<channelVars, sendVars, recvState, failed, size, mode,
                   delivered, resumed, breaks, spoilt>>

\* The message the header now says it is of.
HeaderMessage(h) == h[1][1]

\* The rest of the header.  An empty message leaves the machine in the state it
\* is in, _finished_size included.
HandleHeaderRest ==
    LET need == HeaderSize - finishedSize
        h    == FirstBytes(header, finishedSize) \o FirstBytes(hand, need)
        m    == HeaderMessage(h)
    IN  /\ Machine /\ hand # <<>> /\ recvState = "header"
        /\ finishedSize + Len(hand) >= HeaderSize
        /\ header' = h
        /\ hand' = WithoutFirst(hand, need)
        /\ \/ /\ size[m] > 0
              /\ recvState' = "body" /\ finishedSize' = 0
              /\ UNCHANGED <<delivered, spoilt>>
           \/ /\ size[m] = 0
              /\ delivered' = m
              /\ spoilt' = (finishedSize # 0)
              /\ UNCHANGED <<recvState, finishedSize>>
        /\ UNCHANGED <<channelVars, sendVars, failed, size, mode, resumed, breaks>>

HandleBodyPart ==
    /\ Machine /\ hand # <<>> /\ recvState = "body"
    /\ finishedSize + Len(hand) < size[HeaderMessage(header)]
    /\ finishedSize' = finishedSize + Len(hand)
    /\ hand' = <<>>
    /\ UNCHANGED <<channelVars, sendVars, recvState, header, failed, size, mode,
                   delivered, resumed, breaks, spoilt>>

\* Mutant of HandleBodyRest: the rest of the buffer is dropped with the message.
HandleBodyRestDrops ==
    LET m == HeaderMessage(header)
    IN  /\ Machine /\ hand # <<>> /\ recvState = "body"
        /\ finishedSize + Len(hand) >= size[m]
        /\ hand' = <<>>
        /\ delivered' = m
        /\ recvState' = "header" /\ finishedSize' = 0
        /\ UNCHANGED <<channelVars, sendVars, header, failed, size, mode, resumed, breaks, spoilt>>

HandleBodyRest ==
    LET m == HeaderMessage(header)
    IN  /\ Machine /\ hand # <<>> /\ recvState = "body"
        /\ finishedSize + Len(hand) >= size[m]
        /\ hand' = WithoutFirst(hand, size[m] - finishedSize)
        /\ delivered' = m
        /\ recvState' = "header" /\ finishedSize' = 0
        /\ UNCHANGED <<channelVars, sendVars, header, failed, size, mode, resumed, breaks, spoilt>>

\* on_header() or on_message() returned false: work() ends with handle_error.
HandleError == /\ Machine /\ hand # <<>>
               /\ breaks < MaxBreaks
               /\ recvState = "header" => finishedSize + Len(hand) >= HeaderSize
               /\ recvState' = "header" /\ finishedSize' = 0
               /\ hand' = <<>>
               /\ failed' = TRUE
               /\ UNCHANGED <<channelVars, sendVars, header, size, mode,
                              delivered, resumed, breaks, spoilt>>
-----------------------------------------------------------------------------
\* The receiver with full_receive() or timed_receive(): a header, then a body.

Reading == mode \in {"full", "timed"}

BeginHeader == /\ Reading /\ remain = 0 /\ recvState = "header"
               /\ BeginReceive(HeaderSize)
               /\ recvState' = "readHeader"
               /\ UNCHANGED <<sendVars, finishedSize, header, hand, failed, size, mode,
                              delivered, resumed, breaks, spoilt>>

ReadsOn == /\ Reading
           /\ \/ mode = "full" /\ FullReceiveStep
              \/ mode = "timed" /\ (TimedReceiveStep \/ TimedReceiveTimesOut)
           /\ UNCHANGED <<sendVars, recvVars, size, mode, delivered, resumed, breaks, spoilt>>

HeaderIsRead == /\ Reading /\ recvState = "readHeader" /\ remain = 0
                /\ header' = kept \o got
                /\ BeginReceive(size[HeaderMessage(header')])
                /\ recvState' = "readBody"
                /\ UNCHANGED <<sendVars, finishedSize, hand, failed, size, mode,
                               delivered, resumed, breaks, spoilt>>

BodyIsRead == /\ Reading /\ recvState = "readBody" /\ remain = 0
              /\ delivered' = HeaderMessage(header)
              /\ recvState' = "header"
              /\ kept' = <<>> /\ got' = <<>>
              /\ UNCHANGED <<sendVars, finishedSize, header, hand, failed, wire, remain, size,
                             mode, resumed, breaks, spoilt>>
-----------------------------------------------------------------------------
\* Mutant of Reset: the machine goes on in the middle of the lost message.
ResetBufferOnly == /\ hand' = <<>> /\ failed' = FALSE
                   /\ recvState' = IF Reading THEN "header" ELSE recvState
                   /\ UNCHANGED finishedSize

\* reset() of the receiving machine.
Reset == /\ recvState' = "header" /\ finishedSize' = 0
         /\ hand' = <<>> /\ failed' = FALSE

\* The connection breaks, or the receiver drops it after an error: what is on
\* its way is lost, and the sender begins the unfinished message again.
Reconnect == /\ breaks < MaxBreaks
             /\ breaks' = breaks + 1
             /\ wire' = <<>> /\ kept' = <<>> /\ got' = <<>> /\ remain' = 0
             /\ Reset
             /\ message' = IF IsFinish THEN message ELSE message - 1
             /\ cursor' = 1 /\ remainSize' = 0
             /\ resumed' = message' + 1
             /\ UNCHANGED <<header, size, mode, delivered, spoilt>>

Sender == Send \/ ContinueSend
MachineStep == \/ Receive \/ HandleHeaderPart \/ HandleHeaderRest
               \/ HandleBodyPart \/ HandleBodyRest
ReadStep == BeginHeader \/ ReadsOn \/ HeaderIsRead \/ BodyIsRead

\* After the header of an empty message came cut the model has nothing to say.
StreamNext == ~spoilt /\ (Sender \/ MachineStep \/ HandleError \/ ReadStep \/ Reconnect)

StreamSpec == StreamInit /\ [][StreamNext]_streamVars
-----------------------------------------------------------------------------
\* What has arrived of this connection and is not handled, and the byte after it.
Ahead == hand \o wire
NextByte == IF Ahead # <<>> THEN Head(Ahead) ELSE <<message, cursor>>
AtStart(b) == b[2] = 1 \/ b[2] > Length(b[1])

StreamTypeOK == /\ recvState \in {"header", "body", "readHeader", "readBody"}
          /\ remainSize \in Nat /\ remain \in Nat
          /\ finishedSize \in Nat
          /\ message \in 0 .. Number /\ delivered \in 0 .. Number
          /\ breaks \in 0 .. MaxBreaks

\* What CRecvMachine remembers of the stream is what the stream says: wherever
\* the bytes were cut (recv_machine.h:180-277), the byte it expects next is the
\* byte that comes next.
MachineInStep ==
    LET b == NextByte
        n == finishedSize
    IN  /\ recvState = "body" => b = <<HeaderMessage(header), HeaderSize + n + 1>>
        /\ recvState = "header" /\ n > 0 =>
               b[2] = n + 1 /\ FirstBytes(header, n) = BytesOf(b[1], 1, n)
        /\ recvState = "header" /\ n = 0 => AtStart(b)

\* The calls that read a given number of bytes put exactly the next bytes of the
\* stream into the buffer (data_channel.cpp:118-192), over any number of turns.
ReadInStep ==
    LET b == NextByte
        n == Len(kept \o got)
    IN  CASE recvState = "readHeader" ->
                 /\ n + remain = HeaderSize
                 /\ n > 0 => kept \o got = BytesOf((kept \o got)[1][1], 1, n)
                 /\ n \in 1 .. HeaderSize - 1 => b = <<(kept \o got)[1][1], n + 1>>
          [] recvState = "readBody" ->
                 /\ n + remain = size[HeaderMessage(header)]
                 /\ kept \o got = BytesOf(HeaderMessage(header), HeaderSize + 1, HeaderSize + n)
          [] OTHER -> TRUE

\* However the stream is cut, received and begun again, the receiver knows where
\* in which message it is, as long as no empty message had its header cut.
InStep == /\ StreamTypeOK
          /\ Machine /\ ~spoilt => MachineInStep
          /\ Reading => ReadInStep

\* On one connection every message arrives, once and in the order sent; a new
\* connection goes on with the first message that was not sent completely, so no
\* message arrives twice (recv_machine.h:80-94, send_machine.h:57-85).
DeliveredInOrder ==
    [][delivered' # delivered =>
          delivered' = IF delivered + 1 > resumed THEN delivered + 1 ELSE resumed]_streamVars

\* Everything that was sent is received in the end: neither side waits for the
\* other in the middle of a message (recv_machine.h:129-143, send_machine.h:59-71).
AllHandled == <>(\/ spoilt
                 \/ /\ message = Number /\ IsFinish /\ Ahead = <<>>
                    /\ finishedSize = 0 /\ remain \in {0, HeaderSize})

\* recv_machine.h:211-212 says that a packet without a body keeps the machine in
\* its state, to receive a header: it then stands at the start of one.
StartsAtHeader == Machine => MachineInStep
=============================================================================
