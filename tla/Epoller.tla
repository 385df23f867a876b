------------------------------ MODULE Epoller ------------------------------
(***************************************************************************)
(* net::CEpollable, net::CSensor and net::CEpoller over the descriptors of *)
(* a process.  A descriptor is a number, and the kernel gives the lowest   *)
(* that is free, so that a number soon means something else.  What epoll   *)
(* watches is kept twice: by the kernel for a descriptor, and by the object*)
(* in _epoll_events, from which set_events() decides what to ask for.      *)
(***************************************************************************)
EXTENDS Integers, FiniteSets

CONSTANTS Fds,      \* descriptors the process may have
          Others,   \* the epollable objects besides the epoller's sensor
          Sensor,
          MaxTouches, MaxCreates \* bounds: calls of wakeup(), of create()

ASSUME EpollerAssumption == /\ Fds \subseteq Nat \ {0} /\ IsFiniteSet(Fds)
                            /\ Sensor \notin Others /\ MaxCreates \in Nat

VARIABLES opened, \* the descriptors that are open
          watch,  \* for each descriptor the events epoll reports, or Unset
          epfd,   \* _epfd
          pipe,   \* the end of the sensor's pipe that is written
          bytes,  \* in that pipe
          fd,     \* _fd of each object
          events, \* _epoll_events of each object
          touches, creates

epollVars == <<opened, watch, epfd, pipe, bytes, fd, events, touches, creates>>

Objects == Others \cup {Sensor}
None == -1
Unset == {"unset"}
In == {"in"}
Out == {"out"}

Lowest(s) == CHOOSE f \in s : \A g \in s : f <= g
Unused == Fds \ opened
NewFd == Lowest(Unused)

EpollInit == /\ opened = {} /\ watch = [f \in Fds |-> Unset]
             /\ epfd = None /\ pipe = None /\ bytes = 0
             /\ fd = [o \in Objects |-> None]
             /\ events = [o \in Objects |-> Unset]
             /\ touches = 0 /\ creates = 0
-----------------------------------------------------------------------------
\* Mutant of DoClose: _epoll_events outlives the descriptor.
DoCloseKeepsEvents(o) ==
    IF fd[o] = None THEN UNCHANGED <<opened, watch, fd, events>>
    ELSE /\ opened' = opened \ {fd[o]}
         /\ watch' = [watch EXCEPT ![fd[o]] = Unset]
         /\ fd' = [fd EXCEPT ![o] = None]
         /\ UNCHANGED events

\* CEpollable::do_close(), and close() around it.  The kernel stops watching a
\* descriptor that is closed.
DoClose(o) ==
    IF fd[o] = None THEN UNCHANGED <<opened, watch, fd, events>>
    ELSE /\ opened' = opened \ {fd[o]}
         /\ watch' = [watch EXCEPT ![fd[o]] = Unset]
         /\ fd' = [fd EXCEPT ![o] = None]
         /\ events' = [events EXCEPT ![o] = Unset]

\* epoll_ctl() refuses to add what it watches and to change what it does not.
SetEvents(o, evs) ==
    /\ epfd # None /\ fd[o] # None /\ events[o] # evs
    /\ (events[o] = Unset) <=> (watch[fd[o]] = Unset)
    /\ watch' = [watch EXCEPT ![fd[o]] = evs]
    /\ events' = [events EXCEPT ![o] = evs]
    /\ UNCHANGED <<opened, epfd, pipe, bytes, fd, touches, creates>>

DelEvents(o) ==
    /\ epfd # None /\ fd[o] # None
    /\ watch[fd[o]] # Unset
    /\ watch' = [watch EXCEPT ![fd[o]] = Unset]
    /\ events' = [events EXCEPT ![o] = Unset]
    /\ UNCHANGED <<opened, epfd, pipe, bytes, fd, touches, creates>>
-----------------------------------------------------------------------------
\* Mutant of Create: the sensor is not put into epoll.
CreateWithoutSensor ==
    LET r == Lowest(Unused \ {NewFd})
        w == Lowest(Unused \ {NewFd, r})
    IN  /\ epfd = None /\ creates < MaxCreates
        /\ Cardinality(Unused) >= 3
        /\ opened' = opened \cup {NewFd, r, w}
        /\ epfd' = NewFd /\ pipe' = w /\ bytes' = 0
        /\ fd' = [fd EXCEPT ![Sensor] = r]
        /\ creates' = creates + 1
        /\ UNCHANGED <<touches, watch, events>>

\* create(): the epoll descriptor, the sensor's pipe, and the sensor put into
\* epoll with set_events(), which does nothing if _epoll_events has the value.
Create ==
    LET r == Lowest(Unused \ {NewFd})
        w == Lowest(Unused \ {NewFd, r})
    IN  /\ epfd = None /\ creates < MaxCreates
        /\ Cardinality(Unused) >= 3
        /\ opened' = opened \cup {NewFd, r, w}
        /\ epfd' = NewFd /\ pipe' = w /\ bytes' = 0
        /\ fd' = [fd EXCEPT ![Sensor] = r]
        /\ watch' = IF events[Sensor] = In THEN watch ELSE [watch EXCEPT ![r] = In]
        /\ events' = [events EXCEPT ![Sensor] = In]
        /\ creates' = creates + 1
        /\ UNCHANGED touches

\* destroy(): CSensor::close() overrides CEpollable's and keeps _epoll_events.
Destroy == /\ epfd # None
           /\ opened' = opened \ {epfd, fd[Sensor], pipe}
           /\ watch' = [f \in Fds |-> Unset]
           /\ epfd' = None /\ pipe' = None /\ bytes' = 0
           /\ fd' = [fd EXCEPT ![Sensor] = None]
           /\ UNCHANGED <<events, touches, creates>>

\* wakeup(), by any thread.
Wakeup == /\ pipe # None /\ touches < MaxTouches
          /\ touches' = touches + 1
          /\ bytes' = bytes + 1
          /\ UNCHANGED <<opened, watch, epfd, pipe, fd, events, creates>>

\* timed_wait() returns the sensor and its handler feels all that is there.
Feel == /\ epfd # None /\ fd[Sensor] # None
        /\ watch[fd[Sensor]] = In /\ bytes > 0
        /\ bytes' = 0
        /\ UNCHANGED <<opened, watch, epfd, pipe, fd, events, touches, creates>>
-----------------------------------------------------------------------------
\* Descriptors a caller of the epoller knows of.
Held == {fd[o] : o \in Objects} \cup {epfd, pipe}

\* What an object believes epoll watches for it is what the kernel watches, and
\* nothing else is watched: otherwise set_events() asks the kernel for a change
\* it refuses, or for nothing, and the object is never called back again
\* (epoller.cpp:91-125, epollable.cpp:154-162).
WatchedAsRecorded ==
    epfd # None =>
        /\ \A o \in Objects : fd[o] # None => watch[fd[o]] = events[o]
        /\ \A f \in Fds : watch[f] # Unset => \E o \in Objects : fd[o] = f

\* A wake-up of a thread that waits in epoll is noticed (epoller.cpp:127-130,
\* sensor.cpp:53-70), unless the epoller is destroyed.
WakeupHeard == bytes > 0 ~> bytes = 0
=============================================================================
