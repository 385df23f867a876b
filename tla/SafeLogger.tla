----------------------------- MODULE SafeLogger -----------------------------
(***************************************************************************)
(* sys::CSafeLogger: threads of several processes append lines to one file *)
(* and rotate it.  Each process has a descriptor, _log_fd, which its        *)
(* threads dup under a read-write lock; who finds the file too large takes *)
(* a lock file (FileLocker), opens the path again, rotates what is there if*)
(* that is too large as well, and gives its process the new descriptor.    *)
(*                                                                         *)
(* What is done under the read-write lock is one step; each rename, open,  *)
(* write and fstat is a step of its own.  write() appends a whole line.  A *)
(* process may crash anywhere and start again.                             *)
(***************************************************************************)
EXTENDS RotatedFiles

CONSTANTS Processes, Threads,
          ProcessOf,     \* the process of each thread
          MaxErrors      \* bound: crashes and calls of the system that fail

ASSUME ErrorsAssumption == MaxErrors \in Nat
ASSUME ThreadsAssumption == /\ IsFiniteSet(Threads) /\ Threads # {}
                            /\ ProcessOf \in [Threads -> Processes]
                            /\ None \notin Threads \cup Nat

VARIABLES logFd,     \* _log_fd of each process
          alive,     \* the processes that run
          pc,
          fd,        \* log_fd, a thread's dup of _log_fd
          newFd,     \* new_log_fd
          shift,     \* the i of rotate_log's loop
          written,   \* lines a thread has written
          errors,
          unlocked   \* history: somebody went on without the lock

processVars == <<logFd, alive>>
threadVars == <<pc, fd, newFd, shift, written>>
vars == <<fileVars, processVars, threadVars, errors, unlocked>>

Init == /\ FilesInit
        /\ logFd = [p \in Processes |-> 1]
        /\ alive = Processes
        /\ pc = [t \in Threads |-> "idle"]
        /\ fd = [t \in Threads |-> None]
        /\ newFd = [t \in Threads |-> None]
        /\ shift = [t \in Threads |-> 0]
        /\ written = [t \in Threads |-> 0]
        /\ errors = 0
        /\ unlocked = FALSE

Busy(t) == pc[t] # "idle"

Goto(t, label) == pc' = [pc EXCEPT ![t] = label]

\* The end of write_log(): its descriptors are closed, the lock file is released.
Return(t) == /\ Goto(t, "idle")
             /\ fd' = [fd EXCEPT ![t] = None]
             /\ newFd' = [newFd EXCEPT ![t] = None]
             /\ fileLock' = IF fileLock = t THEN None ELSE fileLock

Fails == errors < MaxErrors /\ errors' = errors + 1
-----------------------------------------------------------------------------
(* prepare_log_fd() and the write *)

PrepareLogFd(t) ==
    /\ pc[t] = "idle"
    /\ ProcessOf[t] \in alive
    /\ TotalLines + Cardinality({u \in Threads : pc[u] = "write"}) < MaxLines
    /\ logFd[ProcessOf[t]] # None
    /\ fd' = [fd EXCEPT ![t] = logFd[ProcessOf[t]]]
    /\ Goto(t, "write")
    /\ UNCHANGED <<fileVars, processVars, newFd, shift, written, errors, unlocked>>

\* Another thread's open() failed and left no descriptor.
PrepareLogFdOpens(t) ==
    /\ pc[t] = "idle"
    /\ ProcessOf[t] \in alive
    /\ TotalLines + Cardinality({u \in Threads : pc[u] = "write"}) < MaxLines
    /\ logFd[ProcessOf[t]] = None
    /\ OpenLog
    /\ logFd' = [logFd EXCEPT ![ProcessOf[t]] = Opened]
    /\ fd' = [fd EXCEPT ![t] = Opened]
    /\ Goto(t, "write")
    /\ UNCHANGED <<fileLock, alive, newFd, shift, written, errors, unlocked>>

\* Mutant of Write: without O_APPEND, a line goes over the first one.
WriteOver(t) ==
    /\ pc[t] = "write"
    /\ content' = [content EXCEPT ![fd[t]] = <<<<t, written[t] + 1>>>> \o
                                             (IF @ = <<>> THEN @ ELSE Tail(@))]
    /\ written' = [written EXCEPT ![t] = @ + 1]
    /\ Goto(t, "measure")
    /\ UNCHANGED <<name, fileLock, processVars, fd, newFd, shift, errors, unlocked>>

Write(t) ==
    /\ pc[t] = "write"
    /\ content' = [content EXCEPT ![fd[t]] = Append(@, <<t, written[t] + 1>>)]
    /\ written' = [written EXCEPT ![t] = @ + 1]
    /\ Goto(t, "measure")
    /\ UNCHANGED <<name, fileLock, processVars, fd, newFd, shift, errors, unlocked>>

\* The line is given up, with a word to syslog.
WriteFails(t) ==
    /\ pc[t] = "write"
    /\ Fails
    /\ Return(t)
    /\ UNCHANGED <<name, content, processVars, shift, written, unlocked>>

Measure(t) ==
    /\ pc[t] = "measure"
    /\ IF TooLarge(fd[t])
       THEN Goto(t, "lock") /\ UNCHANGED <<fd, newFd, fileLock>>
       ELSE Return(t)
    /\ UNCHANGED <<name, content, processVars, shift, written, errors, unlocked>>
-----------------------------------------------------------------------------
(* Under the lock file *)

\* Mutant of Lock: what is locked keeps nobody out.
LockShared(t) ==
    /\ pc[t] = "lock"
    /\ fileLock' = t
    /\ Goto(t, "reopen")
    /\ UNCHANGED <<name, content, processVars, fd, newFd, shift, written, errors,
                   unlocked>>

Lock(t) ==
    /\ pc[t] = "lock"
    /\ fileLock = None
    /\ fileLock' = t
    /\ Goto(t, "reopen")
    /\ UNCHANGED <<name, content, processVars, fd, newFd, shift, written, errors,
                   unlocked>>

\* The lock file cannot be opened, or a signal interrupts flock(): nobody asks.
LockFails(t) ==
    /\ pc[t] = "lock"
    /\ Fails
    /\ unlocked' = TRUE
    /\ Goto(t, "reopen")
    /\ UNCHANGED <<fileVars, processVars, fd, newFd, shift, written>>

Reopen(t) ==
    /\ pc[t] = "reopen"
    /\ OpenLog
    /\ newFd' = [newFd EXCEPT ![t] = Opened]
    /\ Goto(t, "measureNew")
    /\ UNCHANGED <<fileLock, processVars, fd, shift, written, errors, unlocked>>

\* Mutant of ReopenFails: the lock file stays locked.
ReopenFailsLocked(t) ==
    /\ pc[t] = "reopen"
    /\ Fails
    /\ Goto(t, "idle")
    /\ fd' = [fd EXCEPT ![t] = None]
    /\ UNCHANGED <<fileVars, processVars, newFd, shift, written, unlocked>>

ReopenFails(t) ==
    /\ pc[t] = "reopen"
    /\ Fails
    /\ Return(t)
    /\ UNCHANGED <<name, content, processVars, shift, written, unlocked>>

\* Another thread or process may have rotated the file meanwhile.
MeasureNew(t) ==
    /\ pc[t] = "measureNew"
    /\ IF TooLarge(newFd[t])
       THEN Goto(t, "rotate") /\ shift' = [shift EXCEPT ![t] = Backups - 1]
       ELSE Goto(t, "switch") /\ UNCHANGED shift
    /\ UNCHANGED <<fileVars, processVars, fd, newFd, written, errors, unlocked>>

\* One turn of the loop, from the oldest backup on; log.1 stays free.
ShiftBackup(t) ==
    /\ pc[t] = "rotate"
    /\ shift[t] > 1
    /\ Rename(shift[t] - 1, shift[t])
    /\ shift' = [shift EXCEPT ![t] = @ - 1]
    /\ UNCHANGED <<content, fileLock, processVars, pc, fd, newFd, written, errors,
                   unlocked>>

\* access() or rename() fails, with a word to syslog: the backup stays, and the
\* next turn puts a newer one over it.
ShiftBackupFails(t) ==
    /\ pc[t] = "rotate"
    /\ shift[t] > 1
    /\ Fails
    /\ shift' = [shift EXCEPT ![t] = @ - 1]
    /\ UNCHANGED <<fileVars, processVars, pc, fd, newFd, written, unlocked>>

RotateCurrent(t) ==
    /\ pc[t] = "rotate"
    /\ shift[t] <= 1
    /\ IF Backups = 0 THEN name' = [name EXCEPT ![0] = None] ELSE Rename(0, 1)
    /\ shift' = [shift EXCEPT ![t] = 0]
    /\ Goto(t, "openNew")
    /\ UNCHANGED <<content, fileLock, processVars, fd, newFd, written, errors,
                   unlocked>>

\* access(), rename() or unlink() fails: what is opened next is the old file.
RotateCurrentFails(t) ==
    /\ pc[t] = "rotate"
    /\ shift[t] <= 1
    /\ Fails
    /\ shift' = [shift EXCEPT ![t] = 0]
    /\ Goto(t, "openNew")
    /\ UNCHANGED <<fileVars, processVars, fd, newFd, written, unlocked>>

OpenNew(t) ==
    /\ pc[t] = "openNew"
    /\ OpenLog
    /\ newFd' = [newFd EXCEPT ![t] = Opened]
    /\ Goto(t, "switch")
    /\ UNCHANGED <<fileLock, processVars, fd, shift, written, errors, unlocked>>

OpenNewFails(t) ==
    /\ pc[t] = "openNew"
    /\ Fails
    /\ newFd' = [newFd EXCEPT ![t] = None]
    /\ Goto(t, "switch")
    /\ UNCHANGED <<fileVars, processVars, fd, shift, written, unlocked>>

\* Under the write lock: whoever rotated, the process moves on to the new file;
\* but close() of no descriptor fails, and then it stays without.
Switch(t) ==
    /\ pc[t] = "switch"
    /\ logFd' = IF logFd[ProcessOf[t]] = None THEN logFd
                ELSE [logFd EXCEPT ![ProcessOf[t]] = newFd[t]]
    /\ Return(t)
    /\ UNCHANGED <<name, content, alive, shift, written, errors, unlocked>>
-----------------------------------------------------------------------------
(* Processes *)

\* A crash: the descriptors go, and with them the lock on the lock file.
Crash(p) ==
    /\ p \in alive
    /\ Fails
    /\ alive' = alive \ {p}
    /\ logFd' = [logFd EXCEPT ![p] = None]
    /\ pc' = [t \in Threads |-> IF ProcessOf[t] = p THEN "idle" ELSE pc[t]]
    /\ fd' = [t \in Threads |-> IF ProcessOf[t] = p THEN None ELSE fd[t]]
    /\ newFd' = [t \in Threads |-> IF ProcessOf[t] = p THEN None ELSE newFd[t]]
    /\ shift' = [t \in Threads |-> IF ProcessOf[t] = p THEN 0 ELSE shift[t]]
    /\ fileLock' = IF fileLock # None /\ ProcessOf[fileLock] = p THEN None
                                                               ELSE fileLock
    /\ UNCHANGED <<name, content, written, unlocked>>

\* The constructor of a process started again.
Construct(p) ==
    /\ p \notin alive
    /\ OpenLog
    /\ alive' = alive \cup {p}
    /\ logFd' = [logFd EXCEPT ![p] = Opened]
    /\ UNCHANGED <<fileLock, threadVars, errors, unlocked>>
-----------------------------------------------------------------------------
WriteLog(t) == \/ Write(t) \/ Measure(t) \/ Lock(t) \/ Reopen(t) \/ MeasureNew(t)
               \/ ShiftBackup(t) \/ RotateCurrent(t) \/ OpenNew(t) \/ Switch(t)
Failure(t) == \/ WriteFails(t) \/ LockFails(t) \/ ReopenFails(t)
              \/ ShiftBackupFails(t) \/ RotateCurrentFails(t) \/ OpenNewFails(t)

Next == \/ \E t \in Threads : \/ PrepareLogFd(t) \/ PrepareLogFdOpens(t)
                              \/ WriteLog(t) \/ Failure(t)
        \/ \E p \in Processes : Crash(p) \/ Construct(p)

Spec == Init /\ [][Next]_vars

\* A thread inside write_log() goes on, and flock() lets in a thread that waits
\* for a lock file nobody takes any more; with MaxLines lines to write, those who
\* take it before are few.  Nothing obliges a process to log, or to start again.
FairSpec == Spec /\ \A t \in Threads : WF_vars(WriteLog(t))
-----------------------------------------------------------------------------
Labels == {"idle", "write", "measure", "lock", "reopen", "measureNew", "rotate",
           "openNew", "switch"}

\* The types of the variables; descriptors are of files that were created.
TypeOK == /\ name \in [Slots -> Files \cup {None}]
          /\ \A f \in Files : content[f] \in Seq(Threads \X (1 .. MaxLines))
          /\ fileLock \in Threads \cup {None}
          /\ logFd \in [Processes -> Files \cup {None}]
          /\ alive \subseteq Processes
          /\ pc \in [Threads -> Labels]
          /\ fd \in [Threads -> Files \cup {None}]
          /\ newFd \in [Threads -> Files \cup {None}]
          /\ shift \in [Threads -> {0} \cup (-1 .. Backups - 1)]
          /\ written \in [Threads -> 0 .. MaxLines]
          /\ errors \in 0 .. MaxErrors
          /\ unlocked \in BOOLEAN

\* Nobody rotates a file twice, or over one that is not the oldest, whatever
\* processes and threads find it too large at the same time.  As long as the lock
\* file can be locked, a file is given up early, before as many newer ones are full
\* as backups are kept, only for a failure, and each failure costs one file: the
\* backup a failed rename leaves in the way is written over, a crash between two
\* renames leaves a hole that the loop moves on and does not close, and a file that
\* cannot be renamed is rotated again.  Nor too late: no file outgrows _max_bytes by
\* more than a line of each thread, and another of each for each failure.
GivenUpEarly == {f \in Files \ Named : Cardinality(FullAfter(f)) < Keep}
GivenUpForNewer ==
    /\ \A f \in Files : Len(content[f]) <= MaxSize + Cardinality(Threads) * (1 + errors)
    /\ ~unlocked => Cardinality(GivenUpEarly) <= errors

\* As long as the lock file can be locked, all a thread has written is there, in
\* the order it wrote it: later in the same file or in a newer one, never in an
\* older one, though other threads and processes may move _log_fd and the file at
\* any time, and crash.
Before(x, y) == x[1] < y[1] \/ (x[1] = y[1] /\ x[2] < y[2])
ThreadOrder ==
    /\ TypeOK
    /\ ~unlocked => \A t \in Threads : \A n \in 1 .. written[t] :
                        \E x \in Places :
                           /\ Line(x) = <<t, n>>
                           /\ \A y \in Places : Line(y)[1] = t /\ Line(y)[2] > n => Before(x, y)

\* write_log() returns: the lock file is released on every way out.
WriteReturns == \A t \in Threads : Busy(t) ~> ~Busy(t)

\* safe_logger.h:78: the logger is safe for many threads and processes.  So a line
\* that was written, as the last thing that happened, can be read under a name.
NewLineKept ==
    [][\A t \in Threads : written'[t] > written[t] => fd[t] \in Named]_vars
=============================================================================
