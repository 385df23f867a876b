----------------------------- MODULE ThreadPool -----------------------------
(***************************************************************************)
(* sys::CThreadPool, its CPoolThread objects and the CThread each of them  *)
(* runs.  A client creates the pool, wakes threads, deals work out to them *)
(* in turn and destroys the pool; the threads run between any two of its   *)
(* steps.  What a thread does under its _lock is one step.                 *)
(*                                                                         *)
(* Threads are numbered from 1, as the array's cells are from 0.           *)
(***************************************************************************)
EXTENDS Integers, FiniteSets

CONSTANTS N,            \* bound: the largest pool
          MaxRounds,    \* bound: pools created one after the other
          MaxFailures,  \* bound: threads that cannot be started
          MaxHanded     \* bound: calls of get_next_thread per pool

ASSUME BoundsAssumption == {N, MaxRounds, MaxFailures, MaxHanded} \subseteq Nat

Threads == 1 .. N

VARIABLES phase,     \* what the client is doing with the pool
          size,      \* length of _thread_array
          count,     \* _thread_count
          next,      \* _next_thread
          stopping,  \* how far CThread::stop() of the last thread has come
          object     \* the CPoolThread: none, made or freed

VARIABLES at,        \* where the thread is
          began,     \* whether it came out of its first sleep and into run()
          state,     \* _current_state
          stop,      \* _stop
          refs       \* _refcount of the CThread

VARIABLES pending,   \* history: a wakeup() no sleep has returned for
          woken,     \* history: wakeup() was ever called
          handed,    \* how often get_next_thread() gave it out, for the bound
          rounds, failures

poolVars == <<phase, size, count, next, stopping, object>>
threadVars == <<at, began, state, stop, refs>>
historyVars == <<pending, woken, handed>>
boundVars == <<rounds, failures>>
vars == <<poolVars, threadVars, historyVars, boundVars>>

Init == /\ phase = "idle"
        /\ size = 0
        /\ count = 0
        /\ next = 0
        /\ stopping = "no"
        /\ object = [t \in Threads |-> "none"]
        /\ at = [t \in Threads |-> "none"]
        /\ began = [t \in Threads |-> FALSE]
        /\ state = [t \in Threads |-> "sleeping"]
        /\ stop = [t \in Threads |-> FALSE]
        /\ refs = [t \in Threads |-> 0]
        /\ pending = [t \in Threads |-> FALSE]
        /\ woken = [t \in Threads |-> FALSE]
        /\ handed = [t \in Threads |-> 0]
        /\ rounds = 0
        /\ failures = 0
-----------------------------------------------------------------------------
(* create() *)

\* All the objects are made before the first thread is started.
Create(n) ==
    /\ phase = "idle"
    /\ rounds < MaxRounds
    /\ \A t \in Threads : object[t] # "made"
    /\ rounds' = rounds + 1
    /\ size' = n
    /\ phase' = IF n = 0 THEN "created" ELSE "starting"
    /\ object' = [t \in Threads |-> IF t <= n THEN "made" ELSE "none"]
    /\ refs' = [t \in Threads |-> IF t <= n THEN 1 ELSE 0]
    /\ at' = [t \in Threads |-> "none"]
    /\ began' = [t \in Threads |-> FALSE]
    /\ state' = [t \in Threads |-> "sleeping"]
    /\ stop' = [t \in Threads |-> FALSE]
    /\ pending' = [t \in Threads |-> FALSE]
    /\ woken' = [t \in Threads |-> FALSE]
    /\ handed' = [t \in Threads |-> 0]
    /\ UNCHANGED <<count, next, stopping, failures>>

Start ==
    /\ phase = "starting"
    /\ refs' = [refs EXCEPT ![count + 1] = @ + 1]
    /\ at' = [at EXCEPT ![count + 1] = "started"]
    /\ count' = count + 1
    /\ phase' = IF count + 1 = size THEN "created" ELSE phase
    /\ UNCHANGED <<size, next, stopping, object, began, state, stop,
                   historyVars, boundVars>>

\* before_start() or pthread_create() fails: create() destroys what it started.
StartFails ==
    /\ phase = "starting"
    /\ failures < MaxFailures
    /\ failures' = failures + 1
    /\ phase' = "destroying"
    /\ UNCHANGED <<size, count, next, stopping, object, threadVars, historyVars,
                   rounds>>
-----------------------------------------------------------------------------
(* The pool in use *)

\* Mutant of DoWakeup: signals whoever waits, without leaving word for a thread
\* that is not asleep yet.
DoWakeupIfWaiting(t) ==
    /\ state' = [state EXCEPT ![t] = IF at[t] = "waiting" THEN "wakeuped" ELSE @]
    /\ at' = [at EXCEPT ![t] = IF @ = "waiting" THEN "signalled" ELSE @]

\* The state is changed before the event is signalled, and it is only signalled
\* in a state in which somebody may wait for it.
DoWakeup(t) ==
    /\ state' = [state EXCEPT ![t] = "wakeuped"]
    /\ at' = [at EXCEPT ![t] = IF state[t] = "sleeping" /\ @ = "waiting"
                               THEN "signalled" ELSE @]

\* wakeup() of one thread; activate() calls it for each in turn.
Wakeup(t) ==
    /\ phase = "created"
    /\ t <= count
    /\ DoWakeup(t)
    /\ pending' = [pending EXCEPT ![t] = TRUE]
    /\ woken' = [woken EXCEPT ![t] = TRUE]
    /\ UNCHANGED <<poolVars, began, stop, refs, handed, boundVars>>

NextIndex == IF next >= count THEN 0 ELSE next

GetNextThread ==
    /\ phase = "created"
    /\ count > 0
    /\ \A t \in Threads : handed[t] < MaxHanded
    /\ handed' = [handed EXCEPT ![NextIndex + 1] = @ + 1]
    /\ next' = NextIndex + 1
    /\ UNCHANGED <<phase, size, count, stopping, object, threadVars, pending,
                   woken, boundVars>>
-----------------------------------------------------------------------------
(* destroy(): the threads go from the last to the first *)

Destroy ==
    /\ phase = "created"
    /\ phase' = "destroying"
    /\ UNCHANGED <<size, count, next, stopping, object, threadVars, historyVars,
                   boundVars>>

\* Raised before the lock is taken.
StopRaises ==
    /\ phase = "destroying"
    /\ count > 0
    /\ stopping = "no"
    /\ stop' = [stop EXCEPT ![count] = TRUE]
    /\ stopping' = "raised"
    /\ UNCHANGED <<phase, size, count, next, object, at, began, state, refs,
                   historyVars, boundVars>>

\* Mutant of StopWakes: the flag alone is expected to do.
StopWakesNobody ==
    /\ stopping = "raised"
    /\ stopping' = "joining"
    /\ UNCHANGED <<phase, size, count, next, object, threadVars, historyVars,
                   boundVars>>

StopWakes ==
    /\ stopping = "raised"
    /\ DoWakeup(count)
    /\ stopping' = "joining"
    /\ UNCHANGED <<phase, size, count, next, object, began, stop, refs,
                   historyVars, boundVars>>

\* Mutant of Joined: stop() does not wait for the thread.
JoinedAtOnce ==
    /\ stopping = "joining"
    /\ stopping' = "no"
    /\ object' = [object EXCEPT ![count] = "freed"]
    /\ refs' = [refs EXCEPT ![count] = @ - 1]
    /\ count' = count - 1
    /\ UNCHANGED <<phase, size, next, at, began, state, stop, historyVars,
                   boundVars>>

\* The join over, the pool gives up the CPoolThread and this its CThread.
Joined ==
    /\ stopping = "joining"
    /\ at[count] = "exited"
    /\ stopping' = "no"
    /\ object' = [object EXCEPT ![count] = "freed"]
    /\ refs' = [refs EXCEPT ![count] = @ - 1]
    /\ count' = count - 1
    /\ UNCHANGED <<phase, size, next, at, began, state, stop, historyVars,
                   boundVars>>

\* Only now is the array gone; next stays where it was.
DestroyEnds ==
    /\ phase = "destroying"
    /\ count = 0
    /\ phase' = "idle"
    /\ size' = 0
    /\ UNCHANGED <<count, next, stopping, object, threadVars, historyVars,
                   boundVars>>
-----------------------------------------------------------------------------
(* The thread *)

\* It sleeps first, to be woken by the client, and then whenever run() likes.
MaySleep(t) == at[t] = "started" \/ (at[t] = "awake" /\ began[t])

SleepRefused(t) ==
    /\ MaySleep(t)
    /\ stop[t]
    /\ at' = [at EXCEPT ![t] = "awake"]
    /\ UNCHANGED <<poolVars, began, state, stop, refs, historyVars, boundVars>>

\* It was woken before it slept.
SleepSkipped(t) ==
    /\ MaySleep(t)
    /\ ~stop[t]
    /\ state[t] = "wakeuped"
    /\ state' = [state EXCEPT ![t] = "running"]
    /\ at' = [at EXCEPT ![t] = "awake"]
    /\ pending' = [pending EXCEPT ![t] = FALSE]
    /\ UNCHANGED <<poolVars, began, stop, refs, woken, handed, boundVars>>

\* Mutant of Sleep: nobody asks whether the thread was woken in the meantime.
SleepAnyway(t) ==
    /\ MaySleep(t)
    /\ ~stop[t]
    /\ state' = [state EXCEPT ![t] = "sleeping"]
    /\ at' = [at EXCEPT ![t] = "waiting"]
    /\ UNCHANGED <<poolVars, began, stop, refs, historyVars, boundVars>>

Sleep(t) ==
    /\ MaySleep(t)
    /\ ~stop[t]
    /\ state[t] # "wakeuped"
    /\ state' = [state EXCEPT ![t] = "sleeping"]
    /\ at' = [at EXCEPT ![t] = "waiting"]
    /\ UNCHANGED <<poolVars, began, stop, refs, historyVars, boundVars>>

\* The wait ends unsignalled: by its timeout, which the first sleep has not, or
\* because pthread_cond_wait may do so; the wait stands under an if, not in a loop.
WaitEnds(t) ==
    /\ at[t] = "waiting"
    /\ at' = [at EXCEPT ![t] = "signalled"]
    /\ UNCHANGED <<poolVars, began, state, stop, refs, historyVars, boundVars>>

\* The thread has the lock again, and does not look why it was woken.
SleepReturns(t) ==
    /\ at[t] = "signalled"
    /\ state' = [state EXCEPT ![t] = "running"]
    /\ at' = [at EXCEPT ![t] = "awake"]
    /\ pending' = [pending EXCEPT ![t] = FALSE]
    /\ UNCHANGED <<poolVars, began, stop, refs, woken, handed, boundVars>>

BeforeRun(t) ==
    /\ at[t] = "awake"
    /\ ~began[t]
    /\ ~stop[t]
    /\ began' = [began EXCEPT ![t] = TRUE]
    /\ UNCHANGED <<poolVars, at, state, stop, refs, historyVars, boundVars>>

\* Stopped, or refused by before_run(): thread_proc() gives up its reference.
Exit(t) ==
    /\ at[t] = "awake"
    /\ stop[t] \/ ~began[t]
    /\ at' = [at EXCEPT ![t] = "exited"]
    /\ refs' = [refs EXCEPT ![t] = @ - 1]
    /\ UNCHANGED <<poolVars, began, state, stop, historyVars, boundVars>>
-----------------------------------------------------------------------------
ClientStep == \/ Start \/ StopRaises \/ StopWakes \/ Joined \/ DestroyEnds
UseStep == \/ \E n \in 0 .. N : Create(n)
           \/ StartFails \/ GetNextThread \/ Destroy
           \/ \E t \in Threads : Wakeup(t)
ThreadStep(t) == \/ SleepRefused(t) \/ SleepSkipped(t) \/ Sleep(t)
                 \/ SleepReturns(t) \/ BeforeRun(t) \/ Exit(t)

\* The client has destroyed its last pool.
Finished == phase = "idle" /\ UNCHANGED vars

Next == \/ ClientStep \/ UseStep
        \/ \E t \in Threads : ThreadStep(t) \/ WaitEnds(t)
        \/ Finished

Spec == Init /\ [][Next]_vars

\* The scheduler runs the client, which ends the calls it has begun, and every
\* thread up to its run(); run() may go on for ever, but returns when stopped.
PoolFairness == /\ WF_vars(ClientStep)
                /\ \A t \in Threads :
                      /\ WF_vars((~began[t] \/ at[t] = "signalled") /\ ThreadStep(t))
                      /\ WF_vars(Exit(t))

FairSpec == Spec /\ PoolFairness
-----------------------------------------------------------------------------
\* The types of the variables.
TypeOK == /\ phase \in {"idle", "starting", "created", "destroying"}
          /\ size \in 0 .. N
          /\ count \in 0 .. N
          /\ next \in 0 .. N
          /\ stopping \in {"no", "raised", "joining"}
          /\ object \in [Threads -> {"none", "made", "freed"}]
          /\ at \in [Threads -> {"none", "started", "waiting", "signalled",
                                 "awake", "exited"}]
          /\ began \in [Threads -> BOOLEAN]
          /\ state \in [Threads -> {"sleeping", "wakeuped", "running"}]
          /\ stop \in [Threads -> BOOLEAN]
          /\ refs \in [Threads -> 0 .. 2]
          /\ pending \in [Threads -> BOOLEAN]
          /\ woken \in [Threads -> BOOLEAN]
          /\ handed \in [Threads -> 0 .. MaxHanded]
          /\ rounds \in 0 .. MaxRounds
          /\ failures \in 0 .. MaxFailures

\* No wakeup() is lost: between the call and the return of a sleep the thread is
\* not in a wait nobody will end, whether the call came before, during or after
\* the thread went to sleep; nor is a thread whose stop() has gone on to join.
NoWakeupLost ==
    \A t \in Threads :
        pending[t] \/ (stopping = "joining" /\ t = count) => at[t] # "waiting"

Alive(t) == at[t] \notin {"none", "exited"}

\* A CPoolThread and its CThread live as long as the thread that runs them, no
\* CThread is left behind by one that was freed, and a destroyed pool leaves none,
\* if all the starts succeeded.
ObjectsOutliveThreads ==
    /\ TypeOK
    /\ \A t \in Threads : /\ Alive(t) => object[t] = "made" /\ refs[t] = 2
                          /\ object[t] = "freed" => refs[t] = 0
    /\ phase = "idle" /\ failures = 0 => \A t \in Threads : object[t] # "made" /\ ~Alive(t)

\* thread_pool.h:40: a thread of the pool does not run before it is woken.  (It does
\* when its first wait ends unsignalled.)
RunsOnlyWhenWoken == \A t \in Threads : began[t] => woken[t]

\* thread_pool.h:72: destroy() waits for all the threads to exit and deletes them.
NothingLeft ==
    phase = "idle" => \A t \in Threads : object[t] # "made" /\ ~Alive(t)

\* destroy() returns, whatever its threads were doing when they were stopped.
DestroyReturns == phase = "destroying" ~> phase = "idle"

\* A thread that is woken runs, unless before_run() refuses or the pool goes.
WokenRuns == \A t \in Threads : woken[t] ~> began[t] \/ ~Alive(t)
=============================================================================
