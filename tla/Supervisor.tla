----------------------------- MODULE Supervisor -----------------------------
(***************************************************************************)
(* sys::main_template(): a parent that forks a working process, waits for  *)
(* it and forks again after a fatal signal; in the child the thread that   *)
(* waits for the exit signal of an IMainHelper, and CMainHelper with its   *)
(* own signal thread over CSignalHandler, which takes SIGTERM as a request *)
(* to stop.  Signals may come at any time, to the parent too.              *)
(***************************************************************************)
EXTENDS Naturals

CONSTANTS MaxForks,   \* bound: processes forked
          MaxSignals  \* bound: signals sent from outside

ASSUME SupervisorAssumption == MaxForks \in Nat \ {0} /\ MaxSignals \in Nat

VARIABLES kind,       \* "helper": a CMainHelper; "plain": an IMainHelper with an exit signal
          parent,     \* where the parent is
          exitCode,   \* exit_code: what the parent will return
          forks,      \* processes forked so far
          child,      \* where the child's main thread is
          status,     \* how the child ended
          blocked,    \* the child has blocked its signal, SIGTERM or the exit signal
          held,       \* that signal is pending in the child
          toStop,     \* _stop, or exit_by_signal
          thread,     \* the child's signal thread
          code,       \* what the child will give to exit()
          finis,      \* history: calls of fini() by this child
          signals, asked \* history: signals sent; one was taken or is pending

supVars == <<kind, parent, exitCode, forks, child, status, blocked, held, toStop, thread, code,
             finis, signals, asked>>
parentVars == <<kind, parent, exitCode, forks, signals>>

Phases == {"starts", "inits", "blocks", "threads", "runs", "joins", "fini", "finiJoins", "ends"}
ChildLives == child \in Phases

SupInit == /\ kind \in {"helper", "plain"}
           /\ parent = "forks" /\ exitCode = "1" /\ forks = 0
           /\ child = "none" /\ status = "none"
           /\ blocked = FALSE /\ held = FALSE /\ toStop = FALSE
           /\ thread = "none" /\ code = "0" /\ finis = 0 /\ signals = 0 /\ asked = FALSE
-----------------------------------------------------------------------------
\* The parent.

\* fork(): the child has the parent's globals, and no pending signal.
Fork == /\ parent = "forks" /\ forks < MaxForks
        /\ forks' = forks + 1
        /\ parent' = "waits"
        /\ child' = "starts" /\ status' = "none"
        /\ blocked' = FALSE /\ held' = FALSE /\ toStop' = FALSE
        /\ thread' = "none" /\ code' = "0" /\ finis' = 0 /\ asked' = FALSE
        /\ UNCHANGED <<kind, exitCode, signals>>

ForkFails == /\ parent = "forks"
             /\ parent' = "exited"
             /\ UNCHANGED <<kind, exitCode, forks, child, status, blocked, held, toStop, thread,
                            code, finis, signals, asked>>

\* Mutant of Restarts: any signal brings the child back.
RestartsSignalled(s) == s \in {"crash", "killed"}

\* Signals after which the child is started again: SIGILL, SIGBUS, SIGFPE,
\* SIGSEGV, SIGABRT, here "crash"; SIGKILL, SIGTERM and others are "killed".
Restarts(s) == s = "crash"

\* waitpid() returns; only the signals above lead to a new fork, after a sleep.
WaitReturns == /\ parent = "waits" /\ ~ChildLives
               /\ exitCode' = status
               /\ parent' = IF Restarts(status) THEN "forks" ELSE "exited"
               /\ UNCHANGED <<kind, forks, child, status, blocked, held, toStop, thread, code, finis,
                              signals, asked>>

\* A signal to the parent, which blocks none, ends it and leaves the child.
ParentIsKilled == /\ signals < MaxSignals /\ parent \in {"forks", "waits"}
                  /\ signals' = signals + 1
                  /\ parent' = "killed"
                  /\ UNCHANGED <<kind, exitCode, forks, child, status, blocked, held, toStop,
                                 thread, code, finis, asked>>
-----------------------------------------------------------------------------
\* The child's main thread.

Goes(from, to) == child = from /\ child' = to

Exits(how) == /\ child' = "none" /\ status' = how
              /\ thread' = "none"

\* child_process() with an exit signal: it is blocked and its thread created; a
\* failure ends the process without fini().
StartsThread == /\ kind = "plain" /\ child = "starts"
                /\ blocked' = TRUE
                /\ \/ thread' = "waits" /\ child' = "inits" /\ UNCHANGED status
                   \/ Exits("1")
                /\ UNCHANGED <<parentVars, held, toStop, code, finis, asked>>

StartsPlain == /\ kind = "helper" /\ Goes("starts", "inits")
               /\ UNCHANGED <<parentVars, status, blocked, held, toStop, thread, code, finis, asked>>

\* init() of CMainHelper: arguments and logger; SIGTERM blocked; the signal thread;
\* on_init().  Each may fail, and then fini() follows at once.
InitChecks == /\ child = "inits"
              /\ \/ child' = "fini" /\ code' = "1"
                 \/ child' = (IF kind = "helper" THEN "blocks" ELSE "runs") /\ UNCHANGED code
              /\ UNCHANGED <<parentVars, status, blocked, held, toStop, thread, finis, asked>>

InitBlocks == /\ Goes("blocks", "threads")
              /\ blocked' = TRUE
              /\ UNCHANGED <<parentVars, status, held, toStop, thread, code, finis, asked>>

InitThread == /\ child = "threads"
              /\ \/ thread' = "checks" /\ child' = "runs" /\ UNCHANGED code
                 \/ thread' \in {"none", "checks"} /\ child' = "fini" /\ code' = "1"
              /\ UNCHANGED <<parentVars, status, blocked, held, toStop, finis, asked>>

\* run() returns: because it was told to stop, because it is done, or false.  Only
\* after true does child_process() wait for the thread of the exit signal.
RunReturns == /\ child = "runs"
              /\ \/ child' = "fini" /\ code' = "1"
                 \/ child' = (IF kind = "plain" THEN "joins" ELSE "fini") /\ UNCHANGED code
              /\ UNCHANGED <<parentVars, status, blocked, held, toStop, thread, finis, asked>>

Joins == /\ Goes("joins", "fini") /\ thread = "ended"
         /\ UNCHANGED <<parentVars, status, blocked, held, toStop, thread, code, finis, asked>>

\* Mutant of FiniKills: fini() joins the thread without waking it.
FiniJoinsOnly == /\ Goes("fini", "finiJoins")
                 /\ UNCHANGED <<parentVars, status, blocked, toStop, thread, code, finis, asked, held>>

\* fini() of CMainHelper sends itself SIGTERM for its own thread, if that was not
\* told to stop; of another helper it is what the program makes it.
FiniKills == /\ Goes("fini", "finiJoins")
             /\ held' = (held \/ (kind = "helper" /\ ~toStop /\ thread # "none"))
             /\ UNCHANGED <<parentVars, status, blocked, toStop, thread, code, finis, asked>>

\* Mutant of FiniJoins: on_fini() does not wait for the signal thread.
FiniJoinsNot == /\ Goes("finiJoins", "ends")
                /\ finis' = finis + 1
                /\ UNCHANGED <<parentVars, status, blocked, held, toStop, thread, code, asked>>

\* join(), which for a helper without thread is nothing, and on_fini().
FiniJoins == /\ Goes("finiJoins", "ends")
             /\ kind = "helper" => thread \in {"none", "ended"}
             /\ finis' = finis + 1
             /\ UNCHANGED <<parentVars, status, blocked, held, toStop, thread, code, asked>>

ChildExits == /\ child = "ends"
              /\ Exits(code)
              /\ UNCHANGED <<parentVars, blocked, held, toStop, code, finis, asked>>
-----------------------------------------------------------------------------
\* The child's signal thread.

\* while (!_stop): handle() waits for a signal.
ThreadChecks == /\ thread = "checks"
                /\ thread' = IF toStop THEN "ended" ELSE "waits"
                /\ UNCHANGED <<parentVars, child, status, blocked, held, toStop, code, finis, asked>>

TakesSignal == /\ thread = "waits" /\ held
               /\ held' = FALSE
               /\ thread' = "handles"
               /\ UNCHANGED <<parentVars, child, status, blocked, toStop, code, finis, asked>>

\* Mutant of HandlesSignal: the signal ends the thread, and nobody else hears of it.
HandlesSignalAlone == /\ thread = "handles"
                      /\ thread' = "ended"
                      /\ UNCHANGED <<parentVars, child, status, blocked, held, code, finis,
                                     asked, toStop>>

\* on_terminated() raises _stop; the thread of the exit signal raises
\* exit_by_signal and ends.
HandlesSignal == /\ thread = "handles"
                 /\ toStop' = TRUE
                 /\ thread' = IF kind = "helper" THEN "checks" ELSE "ended"
                 /\ UNCHANGED <<parentVars, child, status, blocked, held, code, finis, asked>>
-----------------------------------------------------------------------------
\* From outside.  A signal the child has not blocked ends it; a blocked one is
\* pending, once however often it is sent.
SendSignal == /\ signals < MaxSignals /\ ChildLives
              /\ signals' = signals + 1
              /\ \/ blocked /\ held' = TRUE /\ asked' = TRUE
                    /\ UNCHANGED <<child, status, thread>>
                 \/ ~blocked /\ Exits("killed") /\ UNCHANGED <<held, asked>>
              /\ UNCHANGED <<kind, parent, exitCode, forks, blocked, toStop, code, finis>>

Dies == /\ signals < MaxSignals /\ ChildLives
        /\ signals' = signals + 1
        /\ Exits("crash") \/ Exits("killed")
        /\ UNCHANGED <<kind, parent, exitCode, forks, blocked, held, toStop, code, finis, asked>>

ParentStep == Fork \/ ForkFails \/ WaitReturns
ChildStep == \/ StartsThread \/ StartsPlain \/ InitChecks \/ InitBlocks \/ InitThread
             \/ Joins \/ FiniKills \/ FiniJoins \/ ChildExits
SignalThreadStep == ThreadChecks \/ TakesSignal \/ HandlesSignal

SupNext == \/ ParentStep \/ ParentIsKilled \/ ChildStep \/ RunReturns \/ SignalThreadStep
           \/ SendSignal \/ Dies

\* Every thread goes on; run() returns once it was told to stop, and need not before.
SupFairness == /\ WF_supVars(ParentStep) /\ WF_supVars(ChildStep) /\ WF_supVars(SignalThreadStep)
               /\ WF_supVars(toStop /\ RunReturns)
-----------------------------------------------------------------------------
\* The process that runs on_fini() and ends has no signal thread any more, and
\* has called fini() once, whichever of its threads was first and however init()
\* and run() ended (main_template.h:45-61,178-180, main_template.cpp:387-405).  That
\* is what the code does and main_template.h:47 says of a failing init();
\* main_template.h:20 has fini() not called then.
FiniOnceAndLast ==
    /\ parent \in {"forks", "waits", "exited", "killed"}
    /\ thread \in {"none", "checks", "waits", "handles", "ended"}
    /\ child \in Phases \ {"ends"} => finis = 0
    /\ child = "ends" => finis = 1 /\ (kind = "helper" => thread \in {"none", "ended"})
    /\ status = "0" => finis = 1

\* A child is forked again after a fatal signal of the last one and nothing else, as
\* main_template.h:22 says: not beside one that lives, and not after a stop, an
\* exit, a failing init() or a kill, in whichever phase they met it.
BroughtBackAfterCrash ==
    [][forks' # forks /\ forks > 0 => ~ChildLives /\ status = "crash"]_supVars

\* A request to stop that came when the child could take it ends the child, in
\* whichever phase it met its threads (main_template.cpp:64-91,308-315,387-412).
StopIsHeeded == asked /\ ChildLives ~> ~ChildLives

\* fini() returns: the signal thread it joins was told to stop by a signal of the
\* world, by fini() itself, or by both (main_template.cpp:389-398).
FiniReturns == child \in {"fini", "finiJoins"} ~> ~ChildLives
=============================================================================
