--------------------------- MODULE TimeoutManager ---------------------------
(***************************************************************************)
(* utils::CTimeoutManager over CListQueue: objects are queued in the order *)
(* in which they were last heard of, so check_timeout() need only look at  *)
(* the front.  It takes the objects that are over one by one and calls     *)
(* on_timeout_event() for each, and that callback may push, remove or      *)
(* update any object, the one that is over included.  Here a callback is   *)
(* any number of such calls until it returns.  The clock is the caller's.  *)
(***************************************************************************)
EXTENDS ListQueue

CONSTANTS MaxTime,        \* bound: the clock stops here
          TimeoutChoices  \* values set_timeout_seconds is called with

ASSUME TimeAssumption == MaxTime \in Nat \ {0} /\ TimeoutChoices \subseteq Nat

VARIABLES list,           \* _list_queue
          timestamp,      \* _timestamp of each object
          timeoutSeconds, \* _timeout_seconds
          now,            \* what time(NULL) returns
          checkTime,      \* the argument of check_timeout() while it runs, or -1
          calling,        \* check_timeout() is inside on_timeout_event()
          displaced       \* history: objects pushed again while they were queued

managerVars == <<list, timestamp, timeoutSeconds, now, checkTime, calling, displaced>>

ManagerInit == /\ list = NewList
               /\ timestamp = [x \in Object |-> 0]
               /\ timeoutSeconds = 0
               /\ now = 1
               /\ checkTime = -1
               /\ calling = FALSE
               /\ displaced = {}
-----------------------------------------------------------------------------
\* The owner of the manager acts between two checks or inside a callback.
OwnerRuns == checkTime = -1 \/ calling

\* Mutant of IsTimeout: the last second still counts as over.
IsTimeoutAtOnce(x, time) == timestamp[x] + timeoutSeconds <= time

IsTimeout(x, time) == timestamp[x] + timeoutSeconds < time

Tick == /\ now < MaxTime
        /\ now' = now + 1
        /\ UNCHANGED <<list, timestamp, timeoutSeconds, checkTime, calling, displaced>>

SetTimeoutSeconds(s) ==
    /\ OwnerRuns
    /\ timeoutSeconds' = s
    /\ UNCHANGED <<list, timestamp, now, checkTime, calling, displaced>>

\* The time stamp is set before the list is asked whether x is queued.
Push(x) == /\ OwnerRuns
           /\ timestamp' = [timestamp EXCEPT ![x] = now]
           /\ list' = PushList(list, x)
           /\ displaced' = IF IsQueued(list, x) THEN displaced \cup {x} ELSE displaced
           /\ UNCHANGED <<timeoutSeconds, now, checkTime, calling>>

Remove(x) == /\ OwnerRuns
             /\ timestamp' = [timestamp EXCEPT ![x] = 0]
             /\ list' = RemoveList(list, x)
             /\ displaced' = displaced \ {x}
             /\ UNCHANGED <<timeoutSeconds, now, checkTime, calling>>

PopFrontTimed == /\ OwnerRuns
                 /\ list.number # 0
                 /\ list' = RemoveList(list, FrontOf(list))
                 /\ displaced' = displaced \ {FrontOf(list)}
                 /\ UNCHANGED <<timestamp, timeoutSeconds, now, checkTime, calling>>

\* Mutant of Update: push() without the remove() that takes x out of its place.
UpdateInPlace(x) == /\ OwnerRuns
                    /\ timestamp' = [timestamp EXCEPT ![x] = now]
                    /\ list' = PushList(list, x)
                    /\ displaced' = displaced \ {x}
                    /\ UNCHANGED <<timeoutSeconds, now, checkTime, calling>>

\* remove() and push(): x goes to the end.
Update(x) == /\ OwnerRuns
             /\ timestamp' = [timestamp EXCEPT ![x] = now]
             /\ list' = PushList(RemoveList(list, x), x)
             /\ displaced' = displaced \ {x}
             /\ UNCHANGED <<timeoutSeconds, now, checkTime, calling>>

\* The caller may have read the clock some time ago.
CheckTimeout(time) == /\ checkTime = -1
                      /\ checkTime' = time
                      /\ UNCHANGED <<list, timestamp, timeoutSeconds, now, calling, displaced>>

\* An object that is over leaves the list, then the handler is called.
TakesFront == /\ checkTime # -1 /\ ~calling
              /\ FrontOf(list) # NULL
              /\ IsTimeout(FrontOf(list), checkTime)
              /\ list' = RemoveList(list, FrontOf(list))
              /\ displaced' = displaced \ {FrontOf(list)}
              /\ calling' = TRUE
              /\ UNCHANGED <<timestamp, timeoutSeconds, now, checkTime>>

HandlerReturns == /\ calling
                  /\ calling' = FALSE
                  /\ UNCHANGED <<list, timestamp, timeoutSeconds, now, checkTime, displaced>>

\* The loop ends at an empty list or at an object that is not over.
CheckEnds == /\ checkTime # -1 /\ ~calling
             /\ FrontOf(list) # NULL => ~IsTimeout(FrontOf(list), checkTime)
             /\ checkTime' = -1
             /\ UNCHANGED <<list, timestamp, timeoutSeconds, now, calling, displaced>>

Owner == \/ \E s \in TimeoutChoices : SetTimeoutSeconds(s)
         \/ \E x \in Object : Push(x) \/ Remove(x) \/ Update(x)
         \/ PopFrontTimed
         \/ \E time \in {now - 1, now} : CheckTimeout(time)

Check == TakesFront \/ HandlerReturns \/ CheckEnds

ManagerNext == Tick \/ Owner \/ Check

\* A callback returns and the loop goes on; nobody is obliged to call.
ManagerFairness == WF_managerVars(Check)
-----------------------------------------------------------------------------
ManagerTypeOK == /\ timestamp \in [Object -> 0 .. MaxTime]
                 /\ timeoutSeconds \in TimeoutChoices \cup {0}
                 /\ now \in 1 .. MaxTime
                 /\ checkTime \in -1 .. MaxTime
                 /\ calling \in BOOLEAN /\ (calling => checkTime # -1)
                 /\ displaced \subseteq Object

\* Whatever callbacks do to the list while check_timeout() walks it, its links,
\* its tail and its number describe one sequence (list_queue.h:67-116), and the
\* objects in it are ordered by the time they were last heard of, as
\* timeout_manager.h:42 says, except for those pushed again in their place.
ListInOrder ==
    /\ ManagerTypeOK
    /\ LinksAgree(list)
    /\ displaced \subseteq {x \in Object : IsQueued(list, x)}
    /\ LET w == Walk(list)
       IN  \A i, j \in DOMAIN w :
               i < j /\ w[i] \notin displaced => timestamp[w[i]] <= timestamp[w[j]]

\* When check_timeout() returns, an object that is over is still queued only
\* behind one that was pushed again while it was queued: push() gives that one a
\* new time but not a new place (timeout_manager.h:83), and it hides the others.
NothingOverdue ==
    [][CheckEnds =>
         LET w == Walk(list)
         IN  \A j \in DOMAIN w : IsTimeout(w[j], checkTime) =>
                 \E i \in 1 .. j - 1 : w[i] \in displaced]_managerVars

\* check_timeout() comes to an end although every callback may put the object
\* that was over, or others, back into the list that is being walked
\* (timeout_manager.h:128): what is put back is younger than the time checked.
CheckReturns == checkTime # -1 ~> checkTime = -1
=============================================================================
