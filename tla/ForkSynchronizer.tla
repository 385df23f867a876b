-------------------------- MODULE ForkSynchronizer --------------------------
(***************************************************************************)
(* sys::ForkSynchronizer: a parent waits, for some milliseconds at a time, *)
(* for its child to report over a pipe that it has started or failed, or to*)
(* end.  Both processes have both ends of the pipe until they close them.  *)
(***************************************************************************)
EXTENDS Sequences, Naturals

VARIABLES report,     \* the results in the pipe
          parentOpen, \* the parent's writing end is open
          starter,    \* the child: "starting", "started", "failed" or "gone"
          waiter,     \* the parent: "calls", "polls", "reaps" or "told"
          told,       \* what timed_wait_child_process_notification() returned
          said       \* history: what the child had said by itself

syncVars == <<report, parentOpen, starter, waiter, told, said>>

SyncInit == /\ report = <<>> /\ parentOpen = TRUE
            /\ starter = "starting" /\ waiter = "calls"
            /\ told = "nothing" /\ said = "nothing"
-----------------------------------------------------------------------------
\* The child.

NotifySuccess == /\ starter = "starting"
                 /\ starter' = "started" /\ said' = "success"
                 /\ report' = Append(report, "success")
                 /\ UNCHANGED <<parentOpen, waiter, told>>

NotifyFailure == /\ starter = "starting"
                 /\ starter' = "failed" /\ said' = "failure"
                 /\ report' = Append(report, "failure")
                 /\ UNCHANGED <<parentOpen, waiter, told>>

\* The child's object is destroyed: one more failure is written, for the parent
\* that has not been told anything, and the pipe is closed.
Destroyed == /\ starter \in {"starting", "started", "failed"}
             /\ starter' = "gone"
             /\ report' = Append(report, "failure")
             /\ said' = IF said = "nothing" THEN "failure" ELSE said
             /\ UNCHANGED <<parentOpen, waiter, told>>

\* exit() destroys no local object, and neither does a signal.
ExitsSilently == /\ starter # "gone" /\ starter' = "gone"
          /\ UNCHANGED <<report, parentOpen, waiter, told, said>>
-----------------------------------------------------------------------------
\* The parent.

\* Mutant of CallsWait: the parent keeps its own writing end.
CallsWaitKeepsEnd == /\ waiter = "calls"
                     /\ waiter' = "polls"
                     /\ UNCHANGED <<report, starter, told, said, parentOpen>>

CallsWait == /\ waiter = "calls"
             /\ waiter' = "polls"
             /\ parentOpen' = FALSE
             /\ UNCHANGED <<report, starter, told, said>>

\* Nobody has the pipe open for writing.
AtEnd == starter = "gone" /\ ~parentOpen

\* timed_poll() times out; the parent calls again.
PollTimesOut == /\ waiter = "polls" /\ report = <<>> /\ ~AtEnd
                /\ waiter' = "calls"
                /\ UNCHANGED <<report, parentOpen, starter, told, said>>

\* Mutant of ReadsReport: all that is there is read, and the last counts.
ReadsLatest == /\ waiter = "polls" /\ report # <<>>
               /\ report' = <<>>
               /\ \/ report[Len(report)] = "success" /\ waiter' = "told" /\ told' = "success"
                  \/ report[Len(report)] = "failure" /\ waiter' = "reaps" /\ UNCHANGED told
               /\ UNCHANGED <<parentOpen, starter, said>>

ReadsReport == /\ waiter = "polls" /\ report # <<>>
               /\ report' = Tail(report)
               /\ \/ Head(report) = "success" /\ waiter' = "told" /\ told' = "success"
                  \/ Head(report) = "failure" /\ waiter' = "reaps" /\ UNCHANGED told
               /\ UNCHANGED <<parentOpen, starter, said>>

\* read() returns 0, errno has an old value, and the function ends without a
\* return statement: the caller gets whatever the register holds.
ReadsEnd == /\ waiter = "polls" /\ report = <<>> /\ AtEnd
            /\ waiter' = "told"
            /\ told' \in {"success", "failure"}
            /\ UNCHANGED <<report, parentOpen, starter, said>>

\* waitpid() has no timeout.
Reaps == /\ waiter = "reaps" /\ starter = "gone"
         /\ waiter' = "told" /\ told' = "failure"
         /\ UNCHANGED <<report, parentOpen, starter, said>>

SyncChild == NotifySuccess \/ NotifyFailure \/ Destroyed \/ ExitsSilently
SyncParent == CallsWait \/ PollTimesOut \/ ReadsReport \/ ReadsEnd \/ Reaps
SyncNext == SyncChild \/ SyncParent

\* The parent goes on; the child owes nothing.
SyncFairness == WF_syncVars(SyncParent)
-----------------------------------------------------------------------------
\* A parent that is told something is told what the child said, first of all and
\* whatever its destructor adds (fork_synchronizer.h:93-144).  Left out is a child
\* that ended without a word, see SuccessIsReported.
ToldTheTruth == /\ waiter \in {"calls", "polls", "reaps", "told"}
                /\ waiter = "told" /\ said # "nothing" => told = said

\* The parent is told in the end, whatever way the child ends
\* (fork_synchronizer.h:56-60).
ToldInTheEnd == starter = "gone" ~> waiter = "told"

\* fork_synchronizer.h:57 has every child that started call notify_parent_success(),
\* and :42 lets one that failed call nothing: 0 is returned for the former only.
SuccessIsReported == told = "success" => said = "success"
=============================================================================
