-------------------------- MODULE LifecycleProofs --------------------------
(***************************************************************************)
(* Theorems about those who start others and end them.  CThreadPool, for   *)
(* pools of any size, any number of pools one after the other and any      *)
(* failing starts: no wake-up is lost, objects outlive the threads that run*)
(* them, and a thread runs only when woken.  main_template() and           *)
(* ForkSynchronizer, for any number of forks and of signals: fini() is     *)
(* called once and last, the SIGTERM that fini() sends to its own process  *)
(* does not end it, there is one working process at a time, and a waiting  *)
(* parent is told what its child said.                                     *)
(***************************************************************************)
EXTENDS MCLifecycle, TLAPS

-----------------------------------------------------------------------------
(* CThreadPool *)

\* What the client's position says about the counters: threads are started in
\* order up to size, and stopped from the last one.
ClientPlace ==
    /\ count <= size
    /\ phase = "idle" => count = 0
    /\ phase = "starting" => count < size
    /\ stopping # "no" => phase = "destroying" /\ count > 0

\* The threads up to count have been started and not joined, with their objects;
\* beyond count none runs, and a CThread has the reference of its object at most.
StartedUpToCount ==
    \A t \in Threads :
        IF t <= count
        THEN object[t] = "made" /\ at[t] # "none" /\ refs[t] = IF Alive(t) THEN 2 ELSE 1
        ELSE ~Alive(t) /\ refs[t] = IF object[t] = "made" THEN 1 ELSE 0

\* Objects that have no thread: those create() has still to start, which it made
\* before, and those left by a start that failed.
MadeUnstarted ==
    /\ phase = "starting" => \A t \in 1 .. size : object[t] = "made"
    /\ \A t \in Threads : t > count /\ object[t] = "made" =>
          (phase = "starting" /\ t <= size) \/ failures > 0

\* A call of wakeup() that no sleep has returned for is either in _current_state,
\* where the next sleep finds it, or has signalled the wait.
WakeupKept ==
    \A t \in Threads :
        /\ at[t] = "waiting" => state[t] = "sleeping"
        /\ pending[t] => state[t] = "wakeuped" \/ at[t] = "signalled"

\* stop() raises the flag before anything else, and wakes before it joins.
StopKept ==
    /\ stopping # "no" => stop[count]
    /\ stopping = "joining" => at[count] # "waiting"

IInv == /\ TypeOK
        /\ ClientPlace
        /\ StartedUpToCount
        /\ MadeUnstarted
        /\ WakeupKept
        /\ StopKept
-----------------------------------------------------------------------------
LEMMA InitHolds == Init => IInv
BY BoundsAssumption
   DEF Init, IInv, TypeOK, ClientPlace, StartedUpToCount, MadeUnstarted, WakeupKept,
       StopKept, Alive, Threads

\* The steps of the client that begin or end something.
LEMMA CreateKeeps ==
    ASSUME IInv, NEW n \in 0 .. N, Create(n)
    PROVE  IInv'
<1> USE BoundsAssumption DEF IInv, Create, Threads
<1>1. TypeOK'
  BY DEF TypeOK
<1>2. ClientPlace'
  BY DEF TypeOK, ClientPlace
<1>3. StartedUpToCount' /\ MadeUnstarted'
  BY DEF TypeOK, ClientPlace, StartedUpToCount, MadeUnstarted, Alive
<1>4. WakeupKept' /\ StopKept'
  BY DEF TypeOK, ClientPlace, WakeupKept, StopKept
<1> QED
  BY <1>1, <1>2, <1>3, <1>4

LEMMA StartKeeps ==
    ASSUME IInv, Start
    PROVE  IInv'
<1> USE BoundsAssumption DEF IInv, Start, Threads, historyVars, boundVars
<1>1. count + 1 \in Threads /\ count + 1 <= size
  BY DEF TypeOK, ClientPlace
<1>2. object[count + 1] = "made" /\ ~Alive(count + 1) /\ refs[count + 1] = 1
  BY <1>1 DEF TypeOK, StartedUpToCount, MadeUnstarted
<1>3. TypeOK'
  BY <1>1, <1>2 DEF TypeOK
<1>4. ClientPlace'
  BY <1>1 DEF TypeOK, ClientPlace
<1>5. StartedUpToCount'
  BY <1>1, <1>2 DEF TypeOK, StartedUpToCount, Alive
<1>6. MadeUnstarted'
  BY <1>1 DEF TypeOK, MadeUnstarted
<1>7. WakeupKept' /\ StopKept'
  BY <1>1, <1>2 DEF TypeOK, ClientPlace, WakeupKept, StopKept, Alive
<1> QED
  BY <1>3, <1>4, <1>5, <1>6, <1>7

LEMMA StartFailsKeeps ==
    ASSUME IInv, StartFails
    PROVE  IInv'
<1> USE BoundsAssumption DEF IInv, StartFails, Threads, historyVars, threadVars
<1>1. TypeOK' /\ ClientPlace'
  BY DEF TypeOK, ClientPlace
<1>2. StartedUpToCount' /\ MadeUnstarted'
  BY DEF TypeOK, StartedUpToCount, MadeUnstarted, Alive
<1>3. WakeupKept' /\ StopKept'
  BY DEF ClientPlace, WakeupKept, StopKept
<1> QED
  BY <1>1, <1>2, <1>3

\* get_next_thread() stays inside the array, though next is left by an earlier pool.
LEMMA GetNextThreadKeeps ==
    ASSUME IInv, GetNextThread
    PROVE  IInv'
<1> USE BoundsAssumption DEF IInv, GetNextThread, Threads, threadVars, boundVars
<1>1. NextIndex + 1 \in 1 .. count
  BY DEF TypeOK, NextIndex
<1>2. TypeOK'
  BY <1>1 DEF TypeOK
<1>3. ClientPlace' /\ StartedUpToCount' /\ MadeUnstarted' /\ WakeupKept' /\ StopKept'
  BY DEF ClientPlace, StartedUpToCount, MadeUnstarted, WakeupKept, StopKept, Alive
<1> QED
  BY <1>2, <1>3

\* What waking a thread does to it: it is alive as before, and no longer waits
\* if its state said that it might.
LEMMA DoWakeupEffect ==
    ASSUME IInv, NEW t \in Threads, DoWakeup(t)
    PROVE  /\ at' \in [Threads -> {"none", "started", "waiting", "signalled", "awake", "exited"}]
           /\ state' \in [Threads -> {"sleeping", "wakeuped", "running"}]
           /\ state'[t] = "wakeuped" /\ at'[t] # "waiting"
           /\ \A u \in Threads : at'[u] = at[u] \/ (at[u] = "waiting" /\ at'[u] = "signalled")
           /\ \A u \in Threads : u # t => at'[u] = at[u] /\ state'[u] = state[u]
<1> USE DEF IInv, DoWakeup
<1>1. at[t] = "waiting" => state[t] = "sleeping"
  BY DEF WakeupKept
<1>2. /\ at \in [Threads -> {"none", "started", "waiting", "signalled", "awake", "exited"}]
      /\ state \in [Threads -> {"sleeping", "wakeuped", "running"}]
  BY DEF TypeOK
<1>3. at'[t] = IF at[t] = "waiting" THEN "signalled" ELSE at[t]
  BY <1>1, <1>2
<1>4. \A u \in Threads : u # t => at'[u] = at[u] /\ state'[u] = state[u]
  BY <1>2
<1>5. /\ at' \in [Threads -> {"none", "started", "waiting", "signalled", "awake", "exited"}]
      /\ state' \in [Threads -> {"sleeping", "wakeuped", "running"}]
      /\ state'[t] = "wakeuped"
  BY <1>2
<1>6. state'[t] = "wakeuped" /\ at'[t] # "waiting"
  BY <1>3, <1>5
<1>7. \A u \in Threads : at'[u] = at[u] \/ (at[u] = "waiting" /\ at'[u] = "signalled")
  BY <1>3, <1>4
<1> QED
  BY <1>4, <1>5, <1>6, <1>7

\* A step that wakes t, for the client or for stop(), and moves no thread else.
LEMMA WakingKeeps ==
    ASSUME IInv, NEW t \in Threads, DoWakeup(t),
           UNCHANGED <<size, count, object, refs>>
    PROVE  StartedUpToCount' /\ \A u \in Threads : at'[u] = "waiting" => state'[u] = "sleeping"
<1>1. \A u \in Threads : at'[u] = at[u] \/ (at[u] = "waiting" /\ at'[u] = "signalled")
  BY DoWakeupEffect
<1>2. StartedUpToCount'
  BY <1>1 DEF IInv, StartedUpToCount, Alive
<1>3. \A u \in Threads : at'[u] = "waiting" => state'[u] = "sleeping"
  BY DoWakeupEffect DEF IInv, WakeupKept
<1> QED
  BY <1>2, <1>3

LEMMA WakeupKeeps ==
    ASSUME IInv, NEW t \in Threads, Wakeup(t)
    PROVE  IInv'
<1> USE DEF IInv, Wakeup, poolVars, boundVars
<1>1. TypeOK'
  BY DoWakeupEffect DEF TypeOK
<1>2. StartedUpToCount' /\ ClientPlace' /\ MadeUnstarted'
  BY WakingKeeps DEF ClientPlace, MadeUnstarted
<1>3. WakeupKept'
  BY WakingKeeps, DoWakeupEffect DEF WakeupKept, TypeOK
<1>4. StopKept'
  BY DEF StopKept, ClientPlace
<1> QED
  BY <1>1, <1>2, <1>3, <1>4
-----------------------------------------------------------------------------
\* destroy()

LEMMA DestroyKeeps ==
    ASSUME IInv, Destroy
    PROVE  IInv'
<1> USE DEF IInv, Destroy, threadVars, historyVars, boundVars
<1>1. TypeOK' /\ ClientPlace'
  BY DEF TypeOK, ClientPlace
<1>2. StartedUpToCount' /\ MadeUnstarted'
  BY DEF StartedUpToCount, MadeUnstarted, Alive
<1>3. WakeupKept' /\ StopKept'
  BY DEF ClientPlace, WakeupKept, StopKept
<1> QED
  BY <1>1, <1>2, <1>3

LEMMA StopRaisesKeeps ==
    ASSUME IInv, StopRaises
    PROVE  IInv'
<1> USE DEF IInv, StopRaises, historyVars, boundVars, Threads
<1>1. TypeOK' /\ ClientPlace'
  BY DEF TypeOK, ClientPlace
<1>2. StartedUpToCount' /\ MadeUnstarted'
  BY DEF StartedUpToCount, MadeUnstarted, Alive
<1>3. WakeupKept' /\ StopKept'
  BY BoundsAssumption DEF TypeOK, WakeupKept, StopKept
<1> QED
  BY <1>1, <1>2, <1>3

LEMMA StopWakesKeeps ==
    ASSUME IInv, StopWakes
    PROVE  IInv'
<1> USE DEF IInv, StopWakes, historyVars, boundVars
<1>1. count \in Threads
  BY BoundsAssumption DEF TypeOK, ClientPlace, Threads
<1>2. TypeOK'
  BY <1>1, DoWakeupEffect DEF TypeOK
<1>3. StartedUpToCount' /\ ClientPlace' /\ MadeUnstarted'
  BY <1>1, WakingKeeps DEF ClientPlace, MadeUnstarted
<1>4. WakeupKept'
  BY <1>1, WakingKeeps, DoWakeupEffect DEF WakeupKept, TypeOK
<1>5. StopKept'
  BY <1>1, DoWakeupEffect DEF StopKept
<1> QED
  BY <1>2, <1>3, <1>4, <1>5

\* The thread has ended, and with its reference gone the object's was the last.
LEMMA JoinedKeeps ==
    ASSUME IInv, Joined
    PROVE  IInv'
<1> USE BoundsAssumption DEF IInv, Joined, historyVars, boundVars
<1>1. count \in Threads /\ count <= size /\ phase = "destroying"
  BY DEF TypeOK, ClientPlace, Threads
<1>2. object[count] = "made" /\ ~Alive(count) /\ refs[count] = 1
  BY <1>1 DEF StartedUpToCount, Alive, TypeOK, Threads
<1>3. TypeOK'
  BY <1>1, <1>2 DEF TypeOK, Threads
<1>4. ClientPlace'
  BY <1>1 DEF TypeOK, ClientPlace, Threads
<1>5. StartedUpToCount'
  BY <1>1, <1>2 DEF TypeOK, StartedUpToCount, Alive, Threads
<1>6. MadeUnstarted'
  BY <1>1, <1>2 DEF TypeOK, MadeUnstarted, Threads
<1>7. WakeupKept' /\ StopKept'
  BY DEF WakeupKept, StopKept
<1> QED
  BY <1>3, <1>4, <1>5, <1>6, <1>7

LEMMA DestroyEndsKeeps ==
    ASSUME IInv, DestroyEnds
    PROVE  IInv'
<1> USE BoundsAssumption DEF IInv, DestroyEnds, threadVars, historyVars, boundVars
<1>1. TypeOK' /\ ClientPlace'
  BY DEF TypeOK, ClientPlace
<1>2. StartedUpToCount' /\ MadeUnstarted'
  BY DEF StartedUpToCount, MadeUnstarted, Alive
<1>3. WakeupKept' /\ StopKept'
  BY DEF WakeupKept, StopKept
<1> QED
  BY <1>1, <1>2, <1>3
-----------------------------------------------------------------------------
\* The threads.  None of their steps is a step of one that has ended.

LEMMA SleepKeeps ==
    ASSUME IInv, NEW t \in Threads,
           SleepRefused(t) \/ SleepSkipped(t) \/ Sleep(t) \/ SleepReturns(t) \/ WaitEnds(t)
    PROVE  IInv'
<1> USE DEF IInv, SleepRefused, SleepSkipped, Sleep, SleepReturns, WaitEnds, MaySleep,
            poolVars, historyVars, boundVars
<1>1. TypeOK' /\ ClientPlace' /\ MadeUnstarted'
  BY DEF TypeOK, ClientPlace, MadeUnstarted
<1>2. StartedUpToCount'
  BY DEF TypeOK, StartedUpToCount, Alive
<1>3. WakeupKept'
  BY DEF TypeOK, WakeupKept
<1>4. StopKept'
  <2>1. stopping # "no" => count \in Threads /\ stop[count]
    BY BoundsAssumption DEF TypeOK, ClientPlace, StopKept, Threads
  <2>2. stop' = stop /\ stopping' = stopping /\ count' = count
    OBVIOUS
  <2>3. ASSUME stopping = "joining" PROVE at'[count] # "waiting"
    BY <2>1, <2>3 DEF TypeOK, StopKept
  <2> QED
    BY <2>1, <2>2, <2>3 DEF StopKept
<1> QED
  BY <1>1, <1>2, <1>3, <1>4

LEMMA BeforeRunKeeps ==
    ASSUME IInv, NEW t \in Threads, BeforeRun(t)
    PROVE  IInv'
<1> USE DEF IInv, BeforeRun, poolVars, historyVars, boundVars
<1>1. TypeOK' /\ ClientPlace' /\ MadeUnstarted'
  BY DEF TypeOK, ClientPlace, MadeUnstarted
<1>2. StartedUpToCount' /\ WakeupKept' /\ StopKept'
  BY DEF StartedUpToCount, WakeupKept, StopKept, Alive
<1> QED
  BY <1>1, <1>2

\* thread_proc() gives up one of two references.
LEMMA ExitKeeps ==
    ASSUME IInv, NEW t \in Threads, Exit(t)
    PROVE  IInv'
<1> USE DEF IInv, Exit, poolVars, historyVars, boundVars
<1>1. Alive(t) /\ t <= count /\ refs[t] = 2
  BY DEF TypeOK, StartedUpToCount, Alive
<1>2. refs' = [refs EXCEPT ![t] = 1] /\ at' = [at EXCEPT ![t] = "exited"]
  BY <1>1
<1>3. TypeOK' /\ ClientPlace' /\ MadeUnstarted'
  BY <1>2 DEF TypeOK, ClientPlace, MadeUnstarted
<1>4. StartedUpToCount'
  BY <1>1, <1>2 DEF TypeOK, StartedUpToCount, Alive
<1>5. WakeupKept'
  BY DEF TypeOK, WakeupKept
<1>6. StopKept'
  <2>1. stopping = "joining" => count \in Threads
    BY BoundsAssumption DEF TypeOK, ClientPlace, Threads
  <2> QED
    BY <2>1 DEF TypeOK, StopKept
<1> QED
  BY <1>3, <1>4, <1>5, <1>6

LEMMA StutterKeeps ==
    ASSUME IInv, UNCHANGED vars
    PROVE  IInv'
BY DEF vars, poolVars, threadVars, historyVars, boundVars, IInv, TypeOK, ClientPlace,
       StartedUpToCount, MadeUnstarted, WakeupKept, StopKept, Alive

LEMMA Inductive == IInv /\ [Next]_vars => IInv'
<1> SUFFICES ASSUME IInv, [Next]_vars PROVE IInv'
  OBVIOUS
<1>1. CASE ClientStep
  BY <1>1, StartKeeps, StopRaisesKeeps, StopWakesKeeps, JoinedKeeps, DestroyEndsKeeps
     DEF ClientStep
<1>2. CASE UseStep
  BY <1>2, CreateKeeps, StartFailsKeeps, GetNextThreadKeeps, DestroyKeeps, WakeupKeeps
     DEF UseStep
<1>3. ASSUME NEW t \in Threads, ThreadStep(t) \/ WaitEnds(t)
      PROVE  IInv'
  BY <1>3, SleepKeeps, BeforeRunKeeps, ExitKeeps DEF ThreadStep
<1>4. CASE Finished \/ UNCHANGED vars
  BY <1>4, StutterKeeps DEF Finished
<1> QED
  BY <1>1, <1>2, <1>3, <1>4 DEF Next

LEMMA Invariance == Spec => []IInv
BY InitHolds, Inductive, PTL DEF Spec
-----------------------------------------------------------------------------
\* The fields keep their types; among them the counts of references, which never
\* exceed one for the object and one for the thread, and the index that
\* get_next_thread() leaves from one pool to the next.
THEOREM TypeCorrect == Spec => []TypeOK
<1>1. IInv => TypeOK
  BY DEF IInv
<1> QED
  BY <1>1, Invariance, PTL

\* A wakeup() that came before, during or after the thread went to sleep ends
\* its wait, and so does stop() (thread.cpp:145-190).
THEOREM WakeupsArrive == Spec => []NoWakeupLost
<1>1. IInv => NoWakeupLost
  BY DEF IInv, NoWakeupLost, WakeupKept, StopKept
<1> QED
  BY <1>1, Invariance, PTL

\* Neither a CPoolThread nor its CThread is freed while the thread runs, and
\* destroy() leaves none of them if every thread could be started.
THEOREM ObjectsOutlive == Spec => []ObjectsOutliveThreads
<1>1. ASSUME IInv PROVE ObjectsOutliveThreads
  <2> USE <1>1 DEF IInv
  <2>1. ASSUME NEW t \in Threads
        PROVE  /\ Alive(t) => object[t] = "made" /\ refs[t] = 2
               /\ object[t] = "freed" => refs[t] = 0
    <3>1. CASE t <= count
      BY <3>1 DEF StartedUpToCount
    <3>2. CASE ~(t <= count)
      BY <3>2 DEF StartedUpToCount
    <3> QED
      BY <3>1, <3>2
  <2>2. ASSUME phase = "idle", failures = 0, NEW t \in Threads
        PROVE  object[t] # "made" /\ ~Alive(t)
    <3>1. count = 0 /\ t > count /\ ~(t <= count)
      BY <2>2 DEF ClientPlace, Threads
    <3>2. object[t] # "made"
      BY <2>2, <3>1 DEF MadeUnstarted
    <3> QED
      BY <3>1, <3>2 DEF StartedUpToCount
  <2> QED
    BY <2>1, <2>2 DEF ObjectsOutliveThreads
<1> QED
  BY <1>1, Invariance, PTL
-----------------------------------------------------------------------------
(* main_template() and ForkSynchronizer *)

\* Where the two processes and the signal thread may be.
Places ==
    /\ kind \in {"helper", "plain"}
    /\ parent \in {"forks", "waits", "exited", "killed"}
    /\ child \in Phases \cup {"none"}
    /\ thread \in {"none", "checks", "waits", "handles", "ended"}
    /\ code \in {"0", "1"}

\* fini() has run in the phase "ends" and in no earlier one, and a process ends
\* with "0" from that phase only.  A living process has no status.
FiniBooks ==
    /\ child \in Phases \ {"ends"} => finis = 0
    /\ child = "ends" => finis = 1 /\ (kind = "helper" => thread \in {"none", "ended"})
    /\ ChildLives => status = "none"
    /\ status = "0" => finis = 1

\* The signal is blocked before there is a thread to take it.
BlockedFirst ==
    /\ child = "threads" \/ thread # "none" => blocked
    /\ held => blocked

\* main_template() forks when the last working process has ended, by a fatal signal.
OneWorker == parent = "forks" => ~ChildLives /\ (forks > 0 => status = "crash")

SupInv == Places /\ FiniBooks /\ BlockedFirst /\ OneWorker

LEMMA SupInitHolds == SupInit => SupInv
BY DEF SupInit, SupInv, Places, FiniBooks, BlockedFirst, OneWorker, ChildLives, Phases

\* The parent's steps: a fork starts from a process without signals and calls.
LEMMA ParentKeeps ==
    ASSUME SupInv, ParentStep \/ ParentIsKilled
    PROVE  SupInv'
<1> USE DEF SupInv, Places, FiniBooks, BlockedFirst, OneWorker, ChildLives, Phases
<1>1. CASE Fork
  BY <1>1 DEF Fork
<1>2. CASE ForkFails
  BY <1>2 DEF ForkFails
<1>3. CASE WaitReturns
  BY <1>3 DEF WaitReturns, Restarts
<1>4. CASE ParentIsKilled
  BY <1>4 DEF ParentIsKilled
<1> QED
  BY <1>1, <1>2, <1>3, <1>4 DEF ParentStep

\* The child's main thread: fini() is called in one place.
LEMMA ChildKeeps ==
    ASSUME SupInv, ChildStep \/ RunReturns
    PROVE  SupInv'
<1> USE DEF SupInv, Places, FiniBooks, BlockedFirst, OneWorker, ChildLives, Phases, parentVars,
            Goes, Exits
<1>1. CASE StartsThread
  BY <1>1 DEF StartsThread
<1>2. CASE StartsPlain \/ InitChecks
  BY <1>2 DEF StartsPlain, InitChecks
<1>3. CASE InitBlocks \/ InitThread
  BY <1>3 DEF InitBlocks, InitThread
<1>4. CASE RunReturns \/ Joins
  BY <1>4 DEF RunReturns, Joins
<1>5. CASE FiniKills
  BY <1>5 DEF FiniKills
<1>6. CASE FiniJoins
  BY <1>6 DEF FiniJoins
<1>7. CASE ChildExits
  BY <1>7 DEF ChildExits
<1> QED
  BY <1>1, <1>2, <1>3, <1>4, <1>5, <1>6, <1>7 DEF ChildStep

\* The signal thread and the signals from outside.
LEMMA SignalsKeep ==
    ASSUME SupInv, SignalThreadStep \/ SendSignal \/ Dies
    PROVE  SupInv'
<1> USE DEF SupInv, Places, FiniBooks, BlockedFirst, OneWorker, ChildLives, Phases, parentVars,
            Exits
<1>1. CASE ThreadChecks \/ TakesSignal
  BY <1>1 DEF ThreadChecks, TakesSignal
<1>2. CASE HandlesSignal
  BY <1>2 DEF HandlesSignal
<1>3. CASE SendSignal
  BY <1>3 DEF SendSignal
<1>4. CASE Dies
  BY <1>4 DEF Dies
<1> QED
  BY <1>1, <1>2, <1>3, <1>4 DEF SignalThreadStep

LEMMA SupInductive == SupInv /\ [SupNext]_supVars => SupInv'
<1>1. SupInv /\ UNCHANGED supVars => SupInv'
  BY DEF supVars, SupInv, Places, FiniBooks, BlockedFirst, OneWorker, ChildLives
<1> QED
  BY <1>1, ParentKeeps, ChildKeeps, SignalsKeep DEF SupNext
-----------------------------------------------------------------------------
\* ForkSynchronizer.  Until the parent has read a report, the first one in the
\* pipe is what the child said; and it has read one, or the child is gone.
FirstWord ==
    /\ report \in Seq({"success", "failure"})
    /\ waiter \in {"calls", "polls", "reaps", "told"}
    /\ said \in {"nothing", "success", "failure"}
    /\ starter = "starting" => said = "nothing"
    /\ starter \in {"started", "failed"} => said # "nothing"
    /\ waiter \in {"calls", "polls"} =>
          IF said = "nothing" THEN report = <<>> ELSE report # <<>> /\ Head(report) = said
    /\ waiter = "reaps" => said = "failure"
    /\ waiter = "told" => IF said = "nothing" THEN starter = "gone" ELSE told = said

LEMMA SyncInitHolds == SyncInit => FirstWord
BY DEF SyncInit, FirstWord

\* What is written comes after what is there.
LEMMA AppendKeepsHead ==
    ASSUME NEW s \in Seq({"success", "failure"}), NEW r \in {"success", "failure"}
    PROVE  /\ Append(s, r) \in Seq({"success", "failure"}) /\ Append(s, r) # <<>>
           /\ Head(Append(s, r)) = IF s = <<>> THEN r ELSE Head(s)
<1>1. Append(s, r) \in Seq({"success", "failure"}) /\ Append(s, r) # <<>>
  OBVIOUS
<1>2. Head(Append(s, r)) = Append(s, r)[1]
  BY <1>1
<1>3. CASE s = <<>>
  BY <1>1, <1>2, <1>3
<1>4. CASE s # <<>>
  <2>1. Len(s) \in Nat /\ 1 <= Len(s)
    BY <1>4
  <2> QED
    BY <1>1, <1>2, <1>4, <2>1
<1> QED
  BY <1>1, <1>3, <1>4

\* What the child writes is its first word, or comes after it.
LEMMA WritingKeeps ==
    ASSUME FirstWord, NEW r \in {"success", "failure"}, starter # "gone",
           starter' \in {"started", "failed", "gone"}, report' = Append(report, r),
           said' = (IF said = "nothing" THEN r ELSE said), UNCHANGED <<waiter, told>>
    PROVE  FirstWord'
<1>1. /\ report' \in Seq({"success", "failure"}) /\ report' # <<>>
      /\ Head(report') = IF report = <<>> THEN r ELSE Head(report)
  BY AppendKeepsHead DEF FirstWord
<1>2. said' \in {"success", "failure"} /\ said' = (IF said = "nothing" THEN r ELSE said)
  BY DEF FirstWord
<1>3. waiter' = waiter /\ told' = told
  OBVIOUS
<1>4. waiter \in {"calls", "polls"} => Head(report') = said'
  BY <1>1, <1>2 DEF FirstWord
<1>5. /\ waiter = "reaps" => said' = "failure"
      /\ waiter = "told" => told = said'
  BY <1>2 DEF FirstWord
<1> QED
  BY <1>1, <1>2, <1>3, <1>4, <1>5 DEF FirstWord

LEMMA SyncInductive == FirstWord /\ [SyncNext]_syncVars => FirstWord'
<1> SUFFICES ASSUME FirstWord, [SyncNext]_syncVars PROVE FirstWord'
  OBVIOUS
<1>1. CASE NotifySuccess
  <2>1. said = "nothing"
    BY <1>1 DEF NotifySuccess, FirstWord
  <2> QED
    BY <1>1, <2>1, WritingKeeps DEF NotifySuccess
<1>2. CASE NotifyFailure
  <2>1. said = "nothing"
    BY <1>2 DEF NotifyFailure, FirstWord
  <2> QED
    BY <1>2, <2>1, WritingKeeps DEF NotifyFailure
<1>3. CASE Destroyed
  BY <1>3, WritingKeeps DEF Destroyed
<1> USE DEF FirstWord
<1>4. CASE ExitsSilently \/ CallsWait \/ PollTimesOut \/ Reaps
  BY <1>4 DEF ExitsSilently, CallsWait, PollTimesOut, Reaps
<1>5. CASE ReadsReport
  <2>1. Tail(report) \in Seq({"success", "failure"}) /\ said # "nothing" /\ Head(report) = said
    BY <1>5 DEF ReadsReport
  <2> QED
    BY <1>5, <2>1 DEF ReadsReport
<1>6. CASE ReadsEnd
  BY <1>6 DEF ReadsEnd, AtEnd
<1>7. CASE UNCHANGED syncVars
  BY <1>7 DEF syncVars
<1> QED
  BY <1>1, <1>2, <1>3, <1>4, <1>5, <1>6, <1>7 DEF SyncNext, SyncChild, SyncParent
-----------------------------------------------------------------------------
LEMMA SupInvariance == SupervisedSpec => [](SupInv /\ FirstWord)
<1>1. SupervisedInit => SupInv /\ FirstWord
  BY SupInitHolds, SyncInitHolds DEF SupervisedInit
<1>2. SupInv /\ FirstWord /\ [SupervisedNext]_<<supVars, syncVars>> => (SupInv /\ FirstWord)'
  BY SupInductive, SyncInductive DEF SupervisedNext
<1> QED
  BY <1>1, <1>2, PTL DEF SupervisedSpec

\* The process that ends by itself has called fini() once, after its signal
\* thread had ended (main_template.h:45-61, main_template.cpp:387-405).
THEOREM FiniOnce == SupervisedSpec => []FiniOnceAndLast
<1>1. SupInv => FiniOnceAndLast
  BY DEF SupInv, Places, FiniBooks, FiniOnceAndLast, Phases
<1> QED
  BY <1>1, SupInvariance, PTL

\* The SIGTERM with which fini() ends its signal thread stays pending for that
\* thread: a process never has it pending unblocked, which would end it before
\* on_fini() (main_template.cpp:323-344,389-398).
THEOREM OwnSignalHeld == SupervisedSpec => [](held => blocked)
<1>1. SupInv => (held => blocked)
  BY DEF SupInv, BlockedFirst
<1> QED
  BY <1>1, SupInvariance, PTL

\* A working process is forked again when the last one has ended by a fatal
\* signal, and never otherwise (main_template.cpp:108-177,262-283).
THEOREM BroughtBack == SupervisedSpec => BroughtBackAfterCrash
<1>1. ASSUME SupInv, [SupervisedNext]_<<supVars, syncVars>>, forks' # forks, forks > 0
      PROVE  ~ChildLives /\ status = "crash"
  <2>1. SupNext
    BY <1>1 DEF SupervisedNext, supVars
  <2>2. Fork
    <3>1. CASE ForkFails \/ WaitReturns \/ ParentIsKilled
      BY <1>1, <3>1 DEF ForkFails, WaitReturns, ParentIsKilled
    <3>2. CASE ChildStep \/ RunReturns
      BY <1>1, <3>2 DEF ChildStep, RunReturns, StartsThread, StartsPlain, InitChecks,
         InitBlocks, InitThread, Joins, FiniKills, FiniJoins, ChildExits, parentVars
    <3>3. CASE SignalThreadStep \/ SendSignal \/ Dies
      BY <1>1, <3>3 DEF SignalThreadStep, ThreadChecks, TakesSignal, HandlesSignal,
         SendSignal, Dies, parentVars
    <3> QED
      BY <2>1, <3>1, <3>2, <3>3 DEF SupNext, ParentStep
  <2> QED
    BY <1>1, <2>2 DEF Fork, SupInv, OneWorker
<1>2. SupInv /\ [SupervisedNext]_<<supVars, syncVars>>
        => [forks' # forks /\ forks > 0 => ~ChildLives /\ status = "crash"]_supVars
  BY <1>1
<1> QED
  BY <1>2, SupInvariance, PTL DEF SupervisedSpec, BroughtBackAfterCrash

\* Whatever the child adds to its first word, the parent is told that one.
THEOREM ToldFirstWord == SupervisedSpec => []ToldTheTruth
<1>1. FirstWord => ToldTheTruth
  BY DEF FirstWord, ToldTheTruth
<1> QED
  BY <1>1, SupInvariance, PTL
=============================================================================
