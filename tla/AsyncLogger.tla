---------------------------- MODULE AsyncLogger ----------------------------
(***************************************************************************)
(* sys::CLogger and sys::CLogThread.  Any thread may log; each logger has  *)
(* a bounded queue and a pipe that tells the one log thread, which serves  *)
(* all loggers through epoll, how many messages are queued.  A logger is   *)
(* destroyed by queueing a message of length zero behind the last one; the *)
(* thread is stopped, joined and forgotten by destroy().                   *)
(*                                                                         *)
(* What a thread does under _queue_lock is one step, and so is what the log*)
(* thread does with one logger between two epoll_wait: nobody else reads or*)
(* writes the file, the registration or the popped messages meanwhile.     *)
(*                                                                         *)
(* Messages are numbered in the order the queue accepted them.  Rotating or*)
(* recreating the file closes and opens it, and changes nothing else here: *)
(* "file" is what was written, whatever rotation did with it afterwards.   *)
(* The pipe holds as many bytes as it needs; EpollableQueue has the case of*)
(* a full pipe.  Using _log_thread when it is NULL crashes the program:    *)
(* thread # "none" guards the steps that use it.  A call inside do_log()   *)
(* holds no reference to its logger: what it does with one that has been   *)
(* freed is undefined, and ref # 0 guards its steps.                       *)
(***************************************************************************)
EXTENDS Integers, SequencesExt

CONSTANTS Loggers, Producers,
          QueueMax,       \* log_queue_size
          BatchMax,       \* LOG_NUMBER_WRITED_ONCE
          Together,       \* whether several loggers may live at a time
          QuietDestroy,   \* whether no call waits for room when destroy() begins
          MaxLogs,        \* bound: messages logged in a behaviour
          MaxFailures,    \* bound: failures of open and writev
          MaxThreads,     \* bound: log threads created one after the other
          Self,           \* the log thread's own pipe, among the watched ones
          NoLogger

ASSUME SizesAssumption == /\ {QueueMax, BatchMax, MaxThreads} \subseteq Nat \ {0}
                          /\ {MaxLogs, MaxFailures} \subseteq Nat
ASSUME ProducersAssumption == IsFiniteSet(Producers)
ASSUME UseAssumption == {Together, QuietDestroy} \subseteq BOOLEAN
ASSUME LoggersAssumption == IsFiniteSet(Loggers) /\ {Self, NoLogger} \cap Loggers = {}

VARIABLES queue,       \* _log_queue
          waiterNumber,\* _waiter_number
          destroying,  \* _destroying
          ref,         \* _refcount; the logger is freed when it is back to 0
          registered,  \* the log thread whose epoll watches it, 0 if none
          accepted,    \* messages its queue has accepted so far
          file,        \* what was written, oldest first
          failed,      \* messages a failed writev lost, with its report on stderr
          life         \* how far create() and destroy() have come

VARIABLES thread,      \* _log_thread: none (NULL), looping, polling or exited
          generation,  \* which log thread it is
          stop,        \* its _stop
          logNumber,   \* its _log_number
          signals,     \* bytes in its own pipe
          ready        \* what epoll_wait returned and it has not handled yet

VARIABLES doing, target,  \* a producer's position and the logger it logs to
          failures

loggerVars == <<queue, waiterNumber, destroying, ref, registered, accepted,
                file, failed, life>>
logThreadVars == <<thread, generation, stop, logNumber, signals, ready>>
producerVars == <<doing, target>>
asyncVars == <<loggerVars, logThreadVars, producerVars, failures>>

AsyncInit == /\ queue = [l \in Loggers |-> <<>>]
             /\ waiterNumber = [l \in Loggers |-> 0]
             /\ destroying = [l \in Loggers |-> FALSE]
             /\ ref = [l \in Loggers |-> 0]
             /\ registered = [l \in Loggers |-> 0]
             /\ accepted = [l \in Loggers |-> 0]
             /\ file = [l \in Loggers |-> <<>>]
             /\ failed = [l \in Loggers |-> {}]
             /\ life = [l \in Loggers |-> "new"]
             /\ thread = "none"
             /\ generation = 0
             /\ stop = FALSE
             /\ logNumber = 0
             /\ signals = 0
             /\ ready = {}
             /\ doing = [p \in Producers |-> "idle"]
             /\ target = [p \in Producers |-> NoLogger]
             /\ failures = 0

Stop == 0     \* the message of length zero
Junk == -1    \* what a slot of iov_array that was never filled makes writev write

Running == thread \in {"looping", "polling"}
Full(l) == Len(queue[l]) = QueueMax
InWait(l) == {p \in Producers : doing[p] \in {"waiting", "woken"} /\ target[p] = l}
Joining == \E l \in Loggers : life[l] = "joining"    \* _thread_lock is held

\* The sum of f over the loggers, where f is at most n.
Total(f, n) == Cardinality({x \in Loggers \X (1 .. n) : x[2] <= f[x[1]]})
Logged == Total(accepted, MaxLogs)
-----------------------------------------------------------------------------
(* create() *)

\* The log thread is created with the first logger, and again with the next
\* one after it was stopped.
CreateThread(l) ==
    /\ life[l] = "new"
    /\ ~Joining
    /\ Together \/ \A k \in Loggers : life[k] \in {"new", "failed", "done"}
    /\ \/ Running /\ UNCHANGED logThreadVars
       \/ /\ thread = "none"
          /\ generation < MaxThreads
          /\ thread' = "looping"
          /\ generation' = generation + 1
          /\ stop' = FALSE
          /\ logNumber' = 0
          /\ signals' = 0
          /\ ready' = {}
    /\ life' = [life EXCEPT ![l] = "opening"]
    /\ UNCHANGED <<queue, waiterNumber, destroying, ref, registered, accepted,
                   file, failed, producerVars, failures>>

\* A reference for destroy(), one for the registration.
OpenLogfile(l) ==
    /\ life[l] = "opening"
    /\ thread # "none"
    /\ ref' = [ref EXCEPT ![l] = 2]
    /\ registered' = [registered EXCEPT ![l] = generation]
    /\ life' = [life EXCEPT ![l] = "open"]
    /\ UNCHANGED <<queue, waiterNumber, destroying, accepted, file, failed,
                   logThreadVars, producerVars, failures>>

\* open() fails: create() throws and leaves a logger no thread serves.
OpenLogfileFails(l) ==
    /\ life[l] = "opening"
    /\ failures < MaxFailures
    /\ failures' = failures + 1
    /\ ref' = [ref EXCEPT ![l] = 1]
    /\ life' = [life EXCEPT ![l] = "failed"]
    /\ UNCHANGED <<queue, waiterNumber, destroying, registered, accepted, file,
                   failed, logThreadVars, producerVars>>
-----------------------------------------------------------------------------
(* do_log() *)

CallLog(p, l) ==
    /\ doing[p] = "idle"
    /\ life[l] = "open"
    /\ Logged + Cardinality({k \in Producers : doing[k] # "idle"}) < MaxLogs
    /\ doing' = [doing EXCEPT ![p] = "log"]
    /\ target' = [target EXCEPT ![p] = l]
    /\ UNCHANGED <<loggerVars, logThreadVars, failures>>

\* _waiter_number when p has come out of its wait.
LeavesWait(p, l) == waiterNumber[l] - (IF doing[p] = "woken" THEN 1 ELSE 0)

\* The logger is being destroyed: the message is dropped.
LogDropped(p, l) ==
    /\ doing[p] = "log"
    /\ target[p] = l /\ ref[l] # 0
    /\ destroying[l]
    /\ doing' = [doing EXCEPT ![p] = "idle"]
    /\ UNCHANGED <<loggerVars, logThreadVars, target, failures>>

LogWaits(p, l) ==
    /\ target[p] = l /\ ref[l] # 0
    /\ \/ doing[p] = "log" /\ ~destroying[l]
       \/ doing[p] = "woken"
    /\ Full(l)
    /\ waiterNumber' = [waiterNumber EXCEPT ![l] = LeavesWait(p, l) + 1]
    /\ doing' = [doing EXCEPT ![p] = "waiting"]
    /\ UNCHANGED <<queue, destroying, ref, registered, accepted, file, failed,
                   life, logThreadVars, target, failures>>

\* Mutant of CanPush: nobody asks whether the logger is being destroyed.
CanPushAnyway(p, l) == /\ target[p] = l
                       /\ doing[p] \in {"log", "woken"}
                       /\ ~Full(l)

\* Whether the logger is being destroyed is asked before the wait, not after.
CanPush(p, l) == /\ target[p] = l
                 /\ \/ doing[p] = "log" /\ ~destroying[l]
                    \/ doing[p] = "woken"
                 /\ ~Full(l)

PushLogMessage(p, l) ==
    /\ CanPush(p, l)
    /\ ref[l] # 0 /\ thread # "none"
    /\ waiterNumber' = [waiterNumber EXCEPT ![l] = LeavesWait(p, l)]
    /\ accepted' = [accepted EXCEPT ![l] = @ + 1]
    /\ queue' = [queue EXCEPT ![l] = Append(@, accepted[l] + 1)]
    /\ logNumber' = logNumber + 1
    /\ doing' = [doing EXCEPT ![p] = "idle"]
    /\ UNCHANGED <<destroying, ref, registered, file, failed, life, thread,
                   generation, stop, signals, ready, target, failures>>
-----------------------------------------------------------------------------
(* destroy() *)

BeginsDestroy(l) == /\ life[l] = "open"
                    /\ QuietDestroy => InWait(l) = {}

\* The message of length zero waits for room like any other.
DestroyWaits(l) ==
    /\ BeginsDestroy(l) \/ life[l] = "roomWoken"
    /\ Full(l)
    /\ destroying' = [destroying EXCEPT ![l] = TRUE]
    /\ waiterNumber' = [waiterNumber EXCEPT
                           ![l] = @ + (IF life[l] = "roomWoken" THEN 0 ELSE 1)]
    /\ life' = [life EXCEPT ![l] = "roomWait"]
    /\ UNCHANGED <<queue, ref, registered, accepted, file, failed, logThreadVars,
                   producerVars, failures>>

DestroyPushesStop(l) ==
    /\ BeginsDestroy(l) \/ life[l] = "roomWoken"
    /\ ~Full(l)
    /\ thread # "none"
    /\ destroying' = [destroying EXCEPT ![l] = TRUE]
    /\ waiterNumber' = [waiterNumber EXCEPT
                           ![l] = @ - (IF life[l] = "roomWoken" THEN 1 ELSE 0)]
    /\ queue' = [queue EXCEPT ![l] = Append(@, Stop)]
    /\ logNumber' = logNumber + 1
    /\ life' = [life EXCEPT ![l] = "releasing"]
    /\ UNCHANGED <<ref, registered, accepted, file, failed, thread, generation,
                   stop, signals, ready, producerVars, failures>>

Release(l) ==
    /\ life[l] = "releasing"
    /\ ref' = [ref EXCEPT ![l] = @ - 1]
    /\ life' = [life EXCEPT ![l] = "deciding"]
    /\ UNCHANGED <<queue, waiterNumber, destroying, registered, accepted, file,
                   failed, logThreadVars, producerVars, failures>>

\* One reference from create_thread, one from the running thread itself; no
\* logger has any.
ThreadRefcount == 1 + (IF Running THEN 1 ELSE 0)

\* Mutant of StopThread: before_stop() does not send its signal.
StopThreadSilently(l) ==
    /\ life[l] = "deciding"
    /\ ~Joining
    /\ thread # "none"
    /\ ThreadRefcount = 2
    /\ stop' = TRUE
    /\ life' = [life EXCEPT ![l] = "joining"]
    /\ UNCHANGED <<queue, waiterNumber, destroying, ref, registered, accepted,
                   file, failed, thread, generation, logNumber, signals, ready,
                   producerVars, failures>>

StopThread(l) ==
    /\ life[l] = "deciding"
    /\ ~Joining
    /\ thread # "none"
    /\ ThreadRefcount = 2
    /\ stop' = TRUE
    /\ signals' = signals + 1
    /\ life' = [life EXCEPT ![l] = "joining"]
    /\ UNCHANGED <<queue, waiterNumber, destroying, ref, registered, accepted,
                   file, failed, thread, generation, logNumber, ready,
                   producerVars, failures>>

\* pthread_join returns, the thread object goes and _log_thread is NULL.
Joined(l) ==
    /\ life[l] = "joining"
    /\ thread = "exited"
    /\ thread' = "none"
    /\ life' = [life EXCEPT ![l] = "done"]
    /\ UNCHANGED <<queue, waiterNumber, destroying, ref, registered, accepted,
                   file, failed, generation, stop, logNumber, signals, ready,
                   producerVars, failures>>
-----------------------------------------------------------------------------
(* CLogThread *)

\* A logger is readable while its pipe holds the bytes of queued messages.
Readable == {l \in Loggers : registered[l] = generation /\ queue[l] # <<>>}
               \cup (IF signals > 0 THEN {Self} ELSE {})

\* The loop's condition, tested again when all that was ready is handled.
EntersEpollWait ==
    /\ thread = "looping"
    /\ ready = {}
    /\ ~stop \/ logNumber > 0
    /\ thread' = "polling"
    /\ UNCHANGED <<loggerVars, generation, stop, logNumber, signals, ready,
                   producerVars, failures>>

\* epoll_wait blocks until something is readable, and then returns all of it.
EpollWait ==
    /\ thread = "polling"
    /\ Readable # {}
    /\ ready' = Readable
    /\ thread' = "looping"
    /\ UNCHANGED <<loggerVars, generation, stop, logNumber, signals,
                   producerVars, failures>>

ReadSignal ==
    /\ Self \in ready
    /\ signals' = signals - 1
    /\ ready' = ready \ {Self}
    /\ UNCHANGED <<loggerVars, thread, generation, stop, logNumber,
                   producerVars, failures>>

\* Mutant of ThreadExits: the thread does not wait for the queues to empty.
ThreadExitsAtOnce ==
    /\ thread = "looping"
    /\ ready = {}
    /\ stop
    /\ thread' = "exited"
    /\ UNCHANGED <<loggerVars, generation, stop, logNumber, signals, ready,
                   producerVars, failures>>

ThreadExits ==
    /\ thread = "looping"
    /\ ready = {}
    /\ stop
    /\ logNumber <= 0
    /\ thread' = "exited"
    /\ UNCHANGED <<loggerVars, generation, stop, logNumber, signals, ready,
                   producerVars, failures>>

BatchOf(l) == SubSeq(queue[l], 1, IF Len(queue[l]) < BatchMax THEN Len(queue[l])
                                                             ELSE BatchMax)

\* iov_array has a slot for every popped message, but only the lines fill theirs
\* and writev is given as many slots as there are lines, from the first one on.
LineCount(batch) == Cardinality({i \in DOMAIN batch : batch[i] # Stop})
Written(batch) == [i \in 1 .. LineCount(batch) |-> IF batch[i] = Stop THEN Junk
                                                   ELSE batch[i]]

\* A batch wakes everybody who waits for room.
Wake(l) ==
    IF waiterNumber[l] > 0
    THEN /\ doing' = [p \in Producers |-> IF doing[p] = "waiting" /\ target[p] = l
                                       THEN "woken" ELSE doing[p]]
         /\ life' = [life EXCEPT ![l] = IF @ = "roomWait" THEN "roomWoken" ELSE @]
    ELSE UNCHANGED <<doing, life>>

\* The popped messages leave the queue, the pipe and the count.
PopBatch(l) ==
    /\ queue' = [queue EXCEPT ![l] = SubSeq(@, Len(BatchOf(l)) + 1, Len(@))]
    /\ logNumber' = logNumber - Len(BatchOf(l))
    /\ Wake(l)

\* Mutant of RemoveLogger: the reference goes, the registration stays.
RemoveLoggerStaysWatched(l) ==
    /\ registered' = registered
    /\ ref' = [ref EXCEPT ![l] = @ - 1]

\* remove_logger(): the registration and its reference go.
RemoveLogger(l) ==
    /\ registered' = [registered EXCEPT ![l] = 0]
    /\ ref' = [ref EXCEPT ![l] = @ - 1]

Handles(l) == l \in ready /\ ready' = ready \ {l}

\* prewrite() finds the file usable, or closes and opens it (which removes and
\* registers the logger), then batch_write() succeeds.
ExecuteWrites(l) ==
    /\ Handles(l)
    /\ PopBatch(l)
    /\ file' = [file EXCEPT ![l] = @ \o Written(BatchOf(l))]
    /\ IF Contains(BatchOf(l), Stop) THEN RemoveLogger(l)
                                     ELSE UNCHANGED <<registered, ref>>
    /\ UNCHANGED <<waiterNumber, destroying, accepted, failed, thread,
                   generation, stop, signals, target, failures>>

\* writev() fails: the batch is lost, close_logfile() removes the logger.
ExecuteWriteFails(l) ==
    /\ failures < MaxFailures
    /\ LineCount(BatchOf(l)) > 0
    /\ failures' = failures + 1
    /\ Handles(l)
    /\ PopBatch(l)
    /\ failed' = [failed EXCEPT ![l] = @ \cup (ToSet(BatchOf(l)) \ {Stop})]
    /\ RemoveLogger(l)
    /\ UNCHANGED <<waiterNumber, destroying, accepted, file, thread, generation,
                   stop, signals, target>>

\* prewrite() closes the file and cannot open another: the logger stays removed.
ExecuteOpenFails(l) ==
    /\ failures < MaxFailures
    /\ failures' = failures + 1
    /\ Handles(l)
    /\ RemoveLogger(l)
    /\ UNCHANGED <<queue, waiterNumber, destroying, accepted, file, failed, life,
                   thread, generation, stop, logNumber, signals, producerVars>>

Execute(l) == ExecuteWrites(l) \/ ExecuteWriteFails(l) \/ ExecuteOpenFails(l)
-----------------------------------------------------------------------------
CreateStep(l) == CreateThread(l) \/ OpenLogfile(l) \/ OpenLogfileFails(l)
LogStep(p) == \E l \in Loggers : \/ LogDropped(p, l) \/ LogWaits(p, l)
                                 \/ PushLogMessage(p, l)
DestroyStep(l) == \/ DestroyWaits(l) \/ DestroyPushesStop(l) \/ Release(l)
                  \/ StopThread(l) \/ Joined(l)
ThreadStep == \/ EntersEpollWait \/ EpollWait \/ ReadSignal \/ ThreadExits
              \/ \E l \in Loggers : Execute(l)

\* Nothing is left to do: every logger is destroyed and no call is under way.
Finished == /\ \A l \in Loggers : life[l] = "done"
            /\ \A p \in Producers : doing[p] = "idle"
            /\ UNCHANGED asyncVars

AsyncNext == \/ \E l \in Loggers : CreateStep(l) \/ DestroyStep(l)
             \/ \E p \in Producers : LogStep(p) \/ \E l \in Loggers : CallLog(p, l)
             \/ ThreadStep
             \/ Finished

AsyncSpec == AsyncInit /\ [][AsyncNext]_asyncVars

\* Every thread that can go on does; a client need not log, nor destroy a logger,
\* but a destroy() it has begun goes on.
FairAsyncSpec == /\ AsyncSpec
                 /\ WF_asyncVars(ThreadStep)
                 /\ \A p \in Producers : WF_asyncVars(LogStep(p))
                 /\ \A l \in Loggers : WF_asyncVars(life[l] # "open" /\ DestroyStep(l))
-----------------------------------------------------------------------------
\* The types of the variables.
AsyncTypeOK == /\ queue \in [Loggers -> BoundedSeq(0 .. MaxLogs, QueueMax)]
               /\ waiterNumber \in [Loggers -> 0 .. Cardinality(Producers) + 1]
               /\ destroying \in [Loggers -> BOOLEAN]
               /\ ref \in [Loggers -> 0 .. 2]
               /\ registered \in [Loggers -> 0 .. MaxThreads]
               /\ accepted \in [Loggers -> 0 .. MaxLogs]
               /\ \A l \in Loggers : /\ ToSet(file[l]) \subseteq Junk .. MaxLogs
                                     /\ failed[l] \subseteq 1 .. MaxLogs
               /\ life \in [Loggers -> {"new", "opening", "open", "failed", "roomWait",
                               "roomWoken", "releasing", "deciding", "joining", "done"}]
               /\ thread \in {"none", "looping", "polling", "exited"}
               /\ generation \in 0 .. MaxThreads
               /\ stop \in BOOLEAN
               /\ logNumber \in Int
               /\ signals \in 0 .. 1
               /\ ready \subseteq Loggers \cup {Self}
               /\ doing \in [Producers -> {"idle", "log", "waiting", "woken"}]
               /\ target \in [Producers -> Loggers \cup {NoLogger}]
               /\ failures \in 0 .. MaxFailures

\* Whatever the threads do, the lines reach the file in the order the queue took
\* them, once each: what is written, lost to a reported error and still queued
\* are the accepted messages, and nothing was written that was not logged.
LinesInOrder ==
    AsyncTypeOK /\ \A l \in Loggers :
        LET all == file[l] \o queue[l]
        IN  /\ \A i, j \in DOMAIN all : i < j => all[j] = Stop \/ all[i] < all[j]
            /\ (ToSet(all) \ {Stop}) \cup failed[l] = 1 .. accepted[l]
            /\ ToSet(all) \cap failed[l] = {}

\* A logger is freed (its count of references is back to zero) only by the last
\* of those that hold one: destroy() has let go of it, and the log thread neither
\* watches it nor has it among what epoll_wait returned.  This holds however calls
\* race with destroy() and whichever of the loggers that share the thread goes.
FreedByLastHolder ==
    \A l \in Loggers : ref[l] = 0 /\ life[l] \notin {"new", "opening"}
                          => /\ life[l] \in {"deciding", "joining", "done"}
                             /\ registered[l] = 0
                             /\ l \notin ready

\* A call inside do_log() is no such holder.  That its logger is there until it
\* returns does not hold (AsyncLoggerUse.cfg): destroy() may be over while a call
\* that began before it waits for the lock or for room.
NotFreedUnderCall == \A p \in Producers : doing[p] # "idle" => ref[target[p]] # 0

\* logger.cpp:904: the log thread exits only when all the logs are written.  What
\* decides is _log_number, and it is never less than what is queued for the loggers
\* the thread watches, through batches, errors, removals, loggers that share it and
\* threads before it: every line of theirs is in the file.
AllWrittenAtExit ==
    [][thread # "exited" /\ thread' = "exited" =>
          \A l \in Loggers : registered[l] # 0 /\ registered[l] = generation
                                => 1 .. accepted[l] \subseteq ToSet(file[l])]_asyncVars

\* logger.h:191: all the loggers share one log thread, and "decide whether the
\* thread must go" (logger.cpp:275) is destroy()'s question.  So the thread is
\* there for every logger that is open.
ThreadServesOpenLoggers ==
    \A l \in Loggers : life[l] = "open" => thread # "none"

\* A call to log returns, though it may have waited for room in the queue, unless
\* its logger is freed under it; so does a destroy() that has begun: the message of
\* length zero finds room, is read, and the thread it stops exits and is joined.  A
\* file that could not be opened or written is never served again, and what is
\* queued for it keeps the thread.
CallsReturn ==
    /\ \A l \in Loggers : destroying[l] ~> life[l] = "done" \/ failures > 0
    /\ \A p \in Producers : doing[p] # "idle" ~>
          doing[p] = "idle" \/ failures > 0 \/ ref[target[p]] = 0
=============================================================================
