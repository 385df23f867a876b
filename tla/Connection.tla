----------------------------- MODULE Connection -----------------------------
(***************************************************************************)
(* The connections of one reactor thread: net::CTcpClient, connecting with *)
(* a timeout or asynchronously, net::CListenManager with its listeners and *)
(* net::CTcpWaiter for what they accept, all watched by a CEpoller.  The   *)
(* caller registers what it connects, closes an object before it connects  *)
(* again, and on an event of a connecting client asks for the error of its *)
(* socket.                                                                 *)
(***************************************************************************)
EXTENDS Epoller, Sequences

CONSTANTS Clients, Waiters,
          NumListeners, \* addresses given to CListenManager::add()
          MaxAttempts,  \* bound: connects of a client since it last succeeded
          MaxLost       \* bound: descriptors that are lost

Listeners == 1 .. NumListeners

ASSUME ConnectionAssumption ==
    /\ Others = Clients \cup Listeners \cup Waiters
    /\ Clients \cap Waiters = {} /\ Listeners \cap (Clients \cup Waiters) = {}
    /\ NumListeners \in Nat /\ MaxAttempts \in Nat

VARIABLES link,     \* of each descriptor of a client or a listener: the network's side
          channel,  \* _fd of the data channel of a client or a waiter
          state,    \* _connect_state of each client
          times,    \* _reconnect_times of each client
          errno,    \* of the thread: EINPROGRESS or something else
          created,  \* _listener_count
          creating, \* CListenManager::create() runs
          asked,    \* history: attempts less callbacks, since the last attempt began
          silent,   \* history: the socket() of the last attempt failed
          lost      \* history: descriptors async_connect() left open

clientVars == <<channel, state, times, asked, silent>>
listenVars == <<created, creating>>
vars == <<epollVars, clientVars, listenVars, link, errno, lost>>

Init == /\ EpollInit
        /\ link = [f \in Fds |-> "none"]
        /\ channel = [o \in Clients \cup Waiters |-> None]
        /\ state = [c \in Clients |-> "unestablished"]
        /\ times = [c \in Clients |-> 0]
        /\ errno = "other"
        /\ created = 0 /\ creating = FALSE
        /\ asked = [c \in Clients |-> 0]
        /\ silent = [c \in Clients |-> FALSE]
        /\ lost = {}
-----------------------------------------------------------------------------
\* Connecting.

Idle(c) == fd[c] = None /\ state[c] = "unestablished" /\ times[c] < MaxAttempts

\* set_fd(), attach() and the state of a client that got descriptor f.
Attach(c, f, s) == /\ opened' = opened \cup {f}
                   /\ fd' = [fd EXCEPT ![c] = f]
                   /\ channel' = [channel EXCEPT ![c] = f]
                   /\ state' = [state EXCEPT ![c] = s]

\* A new attempt of c: answered by after_connect() or on_connect_failure() before
\* the call is over, or not.
Asks(c, answers) == /\ asked' = [asked EXCEPT ![c] = 1 - answers]
                    /\ silent' = [silent EXCEPT ![c] = FALSE]

\* after_connect() or on_connect_failure() for an attempt that was pending.
CallsBack(c) == asked' = [asked EXCEPT ![c] = @ - 1]

Failed(c) == /\ times' = [times EXCEPT ![c] = @ + 1]
             /\ Asks(c, 1)
             /\ UNCHANGED <<channel, state, fd>>

\* connect() succeeds at once and leaves errno as it was, which async_connect()
\* then takes for the result.
AsyncConnectsAtOnce(c) ==
    /\ Idle(c) /\ Unused # {}
    /\ link' = [link EXCEPT ![NewFd] = "up"]
    /\ \/ /\ errno # "EINPROGRESS"
          /\ Attach(c, NewFd, "established")
          /\ times' = [times EXCEPT ![c] = 0]
          /\ Asks(c, 1)
       \/ /\ errno = "EINPROGRESS"
          /\ Attach(c, NewFd, "establishing")
          /\ times' = [times EXCEPT ![c] = @ + 1]
          /\ Asks(c, 0)
    /\ UNCHANGED <<watch, epfd, pipe, bytes, events, touches, creates, listenVars, errno, lost>>

AsyncConnectPends(c) ==
    /\ Idle(c) /\ Unused # {}
    /\ link' = [link EXCEPT ![NewFd] = "connecting"]
    /\ errno' = "EINPROGRESS"
    /\ Attach(c, NewFd, "establishing")
    /\ times' = [times EXCEPT ![c] = @ + 1]
    /\ Asks(c, 0)
    /\ UNCHANGED <<watch, epfd, pipe, bytes, events, touches, creates, listenVars, lost>>

\* connect() fails at once: on_connect_failure() and an exception, and the socket
\* stays open with nobody to close it.
AsyncConnectFails(c) ==
    /\ Idle(c) /\ Unused # {} /\ Cardinality(lost) < MaxLost
    /\ opened' = opened \cup {NewFd}
    /\ link' = [link EXCEPT ![NewFd] = "failed"]
    /\ lost' = lost \cup {NewFd}
    /\ Failed(c)
    /\ errno' = "other"
    /\ UNCHANGED <<watch, epfd, pipe, bytes, events, touches, creates, listenVars>>

\* socket() fails: do_connect() throws through async_connect(), which does not
\* come to its on_connect_failure().
AsyncSocketFails(c) ==
    /\ Idle(c) /\ Unused = {}
    /\ times' = [times EXCEPT ![c] = @ + 1]
    /\ asked' = [asked EXCEPT ![c] = 1]
    /\ silent' = [silent EXCEPT ![c] = TRUE]
    /\ errno' = "other"
    /\ UNCHANGED <<epollVars, channel, state, listenVars, link, lost>>

\* before_connect() refuses: no socket, and an older errno decides.
AsyncConnectRefused(c) ==
    /\ Idle(c)
    /\ times' = [times EXCEPT ![c] = @ + 1]
    /\ \/ /\ errno = "EINPROGRESS"
          /\ state' = [state EXCEPT ![c] = "establishing"]
          /\ channel' = [channel EXCEPT ![c] = None]
          /\ Asks(c, 0)
       \/ /\ errno # "EINPROGRESS"
          /\ Asks(c, 1)
          /\ UNCHANGED <<state, channel>>
    /\ UNCHANGED <<epollVars, listenVars, link, errno, lost>>

\* timed_connect() has succeeded, at once or after poll().
TimedConnects(c) ==
    /\ Idle(c) /\ Unused # {}
    /\ link' = [link EXCEPT ![NewFd] = "up"]
    /\ errno' \in {errno, "EINPROGRESS"}
    /\ Attach(c, NewFd, "established")
    /\ times' = [times EXCEPT ![c] = 0]
    /\ Asks(c, 1)
    /\ UNCHANGED <<watch, epfd, pipe, bytes, events, touches, creates, listenVars, lost>>

\* Any failure of timed_connect(): on_connect_failure(), and the socket is closed.
TimedConnectFails(c) ==
    /\ Idle(c)
    /\ errno' = "other"
    /\ Failed(c)
    /\ UNCHANGED <<opened, watch, epfd, pipe, bytes, events, touches, creates, listenVars, link, lost>>

SetConnectedState(c) ==
    IF state[c] = "establishing"
    THEN /\ state' = [state EXCEPT ![c] = "established"]
         /\ times' = [times EXCEPT ![c] = 0]
         /\ CallsBack(c)
    ELSE UNCHANGED <<state, times, asked>>

\* close() of a client: on_connect_failure() if it was connecting.  The data
\* channel keeps the number.
CloseClient(c) == /\ DoClose(c)
                  /\ IF state[c] = "establishing" THEN CallsBack(c) ELSE UNCHANGED asked
                  /\ state' = [state EXCEPT ![c] = "unestablished"]
                  /\ UNCHANGED <<channel, times, silent>>

LinkClosed(o) == IF fd[o] = None THEN link ELSE [link EXCEPT ![fd[o]] = "none"]

UserCloses(c) == /\ fd[c] # None \/ state[c] # "unestablished"
                 /\ CloseClient(c)
                 /\ link' = LinkClosed(c)
                 /\ UNCHANGED <<epfd, pipe, bytes, touches, creates, listenVars, errno, lost>>
-----------------------------------------------------------------------------
\* Listening.

\* The next listener of CListenManager::create(); its socket, bind() after up to
\* fifty tries, or listen() may fail, and then all are closed.
ListenNext ==
    LET l == created + 1
    IN  /\ creating /\ Unused # {}
        /\ opened' = opened \cup {NewFd}
        /\ fd' = [fd EXCEPT ![l] = NewFd]
        /\ created' = l
        /\ creating' = (l < NumListeners)
        /\ UNCHANGED <<watch, epfd, pipe, bytes, events, touches, creates, clientVars, link, errno, lost>>

CloseFirst(n) ==
    LET closed == {fd[l] : l \in 1 .. n}
    IN  /\ opened' = opened \ closed
        /\ watch' = [f \in Fds |-> IF f \in closed THEN Unset ELSE watch[f]]
        /\ link' = [f \in Fds |-> IF f \in closed THEN "none" ELSE link[f]]
        /\ fd' = [o \in Objects |-> IF o \in Listeners THEN None ELSE fd[o]]
        /\ events' = [o \in Objects |-> IF o \in Listeners THEN Unset ELSE events[o]]
        /\ created' = 0

\* Mutant of CloseListeners: an off-by-one in the loop that counts down.
CloseListenersButOne == CloseFirst(IF created = 0 THEN 0 ELSE created - 1)

\* destroy(): every listener counted is closed and the array deleted.
CloseListeners == CloseFirst(created)

CreateListeners == /\ ~creating /\ created = 0
                   /\ creating' = (NumListeners > 0)
                   /\ UNCHANGED <<epollVars, clientVars, created, link, errno, lost>>

EndListening == /\ created > 0 \/ creating
                /\ CloseListeners
                /\ creating' = FALSE
                /\ errno' = IF creating THEN "other" ELSE errno
                /\ UNCHANGED <<epfd, pipe, bytes, touches, creates, clientVars, lost>>

PeerConnects(l) == /\ fd[l] # None /\ link[fd[l]] = "none"
                   /\ link' = [link EXCEPT ![fd[l]] = "pending"]
                   /\ UNCHANGED <<epollVars, clientVars, listenVars, errno, lost>>

\* accept() and CTcpWaiter::attach(); a process without descriptors accepts none.
Accept(l, w) ==
    /\ fd[l] # None /\ watch[fd[l]] = In /\ link[fd[l]] = "pending"
    /\ fd[w] = None /\ Unused # {}
    /\ opened' = opened \cup {NewFd}
    /\ fd' = [fd EXCEPT ![w] = NewFd]
    /\ channel' = [channel EXCEPT ![w] = NewFd]
    /\ link' = [link EXCEPT ![fd[l]] = "none"]
    /\ UNCHANGED <<watch, epfd, pipe, bytes, events, touches, creates, state, times, asked,
                   silent, listenVars, errno, lost>>

CloseWaiter(w) == /\ fd[w] # None
                  /\ DoClose(w)
                  /\ UNCHANGED <<epfd, pipe, bytes, touches, creates, clientVars, listenVars, link,
                                 errno, lost>>
-----------------------------------------------------------------------------
\* The network answers an attempt, or ends a connection.
Answer(f) == /\ link[f] = "connecting"
             /\ link' \in {[link EXCEPT ![f] = a] : a \in {"up", "failed"}}
             /\ UNCHANGED <<epollVars, clientVars, listenVars, errno, lost>>

PeerCloses(f) == /\ link[f] = "up"
                 /\ link' = [link EXCEPT ![f] = "gone"]
                 /\ UNCHANGED <<epollVars, clientVars, listenVars, errno, lost>>

\* Events of an object as its caller wants them.
Wanted(o) == IF o \in Clients /\ state[o] = "establishing" THEN Out ELSE In

Register(o) == /\ SetEvents(o, Wanted(o))
               /\ UNCHANGED <<clientVars, listenVars, link, errno, lost>>

Unregister(w) == /\ DelEvents(w)
                 /\ UNCHANGED <<clientVars, listenVars, link, errno, lost>>

\* epoll reports a client: writable, in error, or closed by its peer.
Reports(c) == /\ epfd # None /\ fd[c] # None
              /\ \/ watch[fd[c]] = Out /\ link[fd[c]] \in {"up", "failed", "gone"}
                 \/ watch[fd[c]] = In /\ link[fd[c]] \in {"failed", "gone"}

HandleClient(c) ==
    /\ Reports(c)
    /\ \/ /\ link[fd[c]] = "up"
          /\ SetConnectedState(c)
          /\ UNCHANGED <<opened, watch, fd, events, channel, silent, link>>
       \/ /\ link[fd[c]] # "up"
          /\ CloseClient(c)
          /\ link' = LinkClosed(c)
    /\ UNCHANGED <<epfd, pipe, bytes, touches, creates, listenVars, errno, lost>>

Epoll(A) == A /\ UNCHANGED <<clientVars, listenVars, link, errno, lost>>

Next == \/ Epoll(Create) \/ Epoll(Destroy) \/ Epoll(Wakeup) \/ Epoll(Feel)
        \/ CreateListeners \/ ListenNext \/ EndListening
        \/ \E c \in Clients : \/ AsyncConnectsAtOnce(c) \/ AsyncConnectPends(c)
                              \/ AsyncConnectFails(c) \/ AsyncSocketFails(c)
                              \/ AsyncConnectRefused(c)
                              \/ TimedConnects(c) \/ TimedConnectFails(c)
                              \/ UserCloses(c) \/ HandleClient(c)
        \/ \E l \in Listeners : PeerConnects(l)
        \/ \E w \in Waiters : CloseWaiter(w) \/ Unregister(w)
        \/ \E l \in Listeners, w \in Waiters : Accept(l, w)
        \/ \E o \in Others : Register(o)
        \/ \E f \in Fds : Answer(f) \/ PeerCloses(f)

Spec == Init /\ [][Next]_vars

\* The reactor waits in epoll again and again and handles every object reported;
\* its caller registers what it connected; the network answers every attempt.
ReactorFairness ==
    /\ WF_vars(Epoll(Feel))
    /\ \A c \in Clients : WF_vars(HandleClient(c)) /\ WF_vars(Register(c))
    /\ \A f \in Fds : WF_vars(Answer(f))

FairSpec == Spec /\ ReactorFairness
-----------------------------------------------------------------------------
TypeOK == /\ opened \subseteq Fds
          /\ fd \in [Objects -> Fds \cup {None}]
          /\ state \in [Clients -> {"unestablished", "establishing", "established"}]
          /\ times \in [Clients -> 0 .. MaxAttempts]

\* Every open descriptor has one owner, every owned one is open, and the data
\* channel of what is connected reads and writes its own: nothing is closed
\* twice, and no number is used that by now means something else
\* (tcp_client.cpp:97-113,200-275, tcp_waiter.cpp:63-70, listen_manager.h:58-92).
\* Left out are the sockets that a failing async_connect() forgets.
OwnedOnce ==
    /\ TypeOK
    /\ opened = (Held \ {None}) \cup lost
    /\ lost \cap Held = {}
    /\ \A o, p \in Objects : fd[o] # None /\ o # p => fd[o] # fd[p]
    /\ \A o \in Objects : fd[o] # None => fd[o] \notin {epfd, pipe}
    /\ \A o \in Clients \cup Waiters : fd[o] # None => channel[o] = fd[o]

\* An asynchronous connect ends: established, or closed after an error.  It takes
\* set_events() to ask the kernel whatever earlier connections of the object and
\* the number left behind (epoller.cpp:91-112, epollable.cpp:158).  An attempt that
\* before_connect() refused and an old errno called pending has no descriptor.
\* Until then, and after that no more, one callback is owed, on whichever way the
\* attempt goes on; the count of attempts is of those since a connection was last
\* made.  tcp_client.h:197 has on_connect_failure() called when a connect failed:
\* an attempt whose socket() fails owes it for ever (tcp_client.cpp:138).
CallbacksOwed ==
    \A c \in Clients :
        /\ asked[c] = IF state[c] = "establishing" \/ silent[c] THEN 1 ELSE 0
        /\ state[c] = "established" => times[c] = 0

ConnectAnswered ==
    /\ []CallbacksOwed
    /\ \A c \in Clients : asked[c] = 1 /\ ~silent[c] /\ fd[c] # None /\ epfd # None
                           ~> asked[c] = 0 \/ epfd = None
=============================================================================
