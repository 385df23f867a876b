---------------------------- MODULE MCLifecycle ----------------------------
(***************************************************************************)
(* What starts and ends threads and processes, one at a time: a pool of    *)
(* threads; a supervised process, and beside it a process that is started  *)
(* by another which waits for its report.                                  *)
(***************************************************************************)
EXTENDS ThreadPool, Supervisor, ForkSynchronizer

VARIABLE running \* which of the two it is

SupervisedInit == SupInit /\ SyncInit
SupervisedNext == \/ SupNext /\ UNCHANGED syncVars
                  \/ SyncNext /\ UNCHANGED supVars
SupervisedSpec == /\ SupervisedInit /\ [][SupervisedNext]_<<supVars, syncVars>>
                  /\ SupFairness /\ SyncFairness

LifecycleVars == <<vars, supVars, syncVars, running>>

LifecycleInit == /\ running \in {"CThreadPool", "main_template"}
                 /\ Init /\ SupervisedInit

Pools == running = "CThreadPool" /\ Next /\ UNCHANGED <<supVars, syncVars, running>>
Supervises == running = "main_template" /\ SupervisedNext /\ UNCHANGED <<vars, running>>
LifecycleNext == Pools \/ Supervises

\* SupFairness and SyncFairness where there is a supervisor; an unused pool owes nothing.
Supervised == running = "main_template"
LifecycleFairness == /\ PoolFairness
                     /\ WF_supVars(Supervised /\ ParentStep) /\ WF_supVars(Supervised /\ ChildStep)
                     /\ WF_supVars(Supervised /\ SignalThreadStep)
                     /\ WF_supVars(Supervised /\ toStop /\ RunReturns)
                     /\ WF_syncVars(Supervised /\ SyncParent)

LifecycleSpec == LifecycleInit /\ [][LifecycleNext]_LifecycleVars /\ LifecycleFairness
=============================================================================
