---------------------------- MODULE SimpleLogger ----------------------------
(***************************************************************************)
(* sys::CSimpleLogger: processes of one thread each append lines to one    *)
(* file and rotate it under a lock file, as CSafeLogger does, but the one  *)
(* that rotates opens the new file with O_EXCL and without O_APPEND: its   *)
(* lines go where its own offset stands, whatever others appended.  Lines  *)
(* are of one length, and _log_numer (Backups) is at least 1.              *)
(***************************************************************************)
EXTENDS RotatedFiles

CONSTANTS Processes,
          MaxErrors,  \* bound: calls of the system that fail
          MaxStarts   \* bound: processes that are started again

VARIABLES fd,      \* _fd of each process
          offset,  \* where it writes, in lines, or None with O_APPEND
          newFd,   \* the local fd of print()
          shift,   \* the i of rotate_log()
          pc,
          written, \* lines each process has written
          errors, starts

processVars == <<fd, offset, newFd, shift, pc, written>>
vars == <<fileVars, processVars, errors, starts>>

Init == /\ FilesInit
        /\ fd = [p \in Processes |-> 1]
        /\ offset = [p \in Processes |-> None]
        /\ newFd = [p \in Processes |-> None]
        /\ shift = [p \in Processes |-> 0]
        /\ pc = [p \in Processes |-> "idle"]
        /\ written = [p \in Processes |-> 0]
        /\ errors = 0 /\ starts = 0

Fails == errors < MaxErrors /\ errors' = errors + 1
Goto(p, label) == pc' = [pc EXCEPT ![p] = label]
Release(p) == fileLock' = IF fileLock = p THEN None ELSE fileLock
-----------------------------------------------------------------------------
\* The line at place n of the file, over what is there.
Put(lines, n, line) == SubSeq(lines, 1, n) \o <<line>> \o SubSeq(lines, n + 2, Len(lines))

\* print() has a descriptor: the kernel appends, or writes at the offset.
Write(p) ==
    LET f    == fd[p]
        line == <<p, written[p] + 1>>
        at   == IF offset[p] = None THEN Len(content[f]) ELSE offset[p]
    IN  /\ pc[p] = "idle" /\ f # None /\ TotalLines < MaxLines
        /\ content' = [content EXCEPT ![f] = Put(@, at, line)]
        /\ offset' = [offset EXCEPT ![p] = IF @ = None THEN None ELSE @ + 1]
        /\ written' = [written EXCEPT ![p] = @ + 1]
        /\ Goto(p, IF Len(content'[f]) > MaxSize THEN "lock" ELSE "idle")
        /\ UNCHANGED <<name, fileLock, fd, newFd, shift, errors, starts>>

\* The file is too large: FileLocker waits for the lock.
Lock(p) == /\ pc[p] = "lock" /\ fileLock = None
           /\ fileLock' = p
           /\ Goto(p, "reopen")
           /\ UNCHANGED <<name, content, fd, offset, newFd, shift, written, errors, starts>>

Reopen(p) == /\ pc[p] = "reopen"
             /\ OpenLog
             /\ newFd' = [newFd EXCEPT ![p] = Opened]
             /\ Goto(p, "measureNew")
             /\ UNCHANGED <<fileLock, fd, offset, shift, written, errors, starts>>

\* A file that cannot be opened is not too large: _fd takes the -1.
ReopenFails(p) == /\ pc[p] = "reopen" /\ Fails
                  /\ newFd' = [newFd EXCEPT ![p] = None]
                  /\ Goto(p, "measureNew")
                  /\ UNCHANGED <<fileVars, fd, offset, shift, written, starts>>

\* need_rotate(fd): rotate_log(), which begins with reset(); or another process
\* has rotated the file and this one takes the descriptor.
MeasureNew(p) ==
    LET rotates == newFd[p] # None /\ TooLarge(newFd[p])
    IN  /\ pc[p] = "measureNew"
        /\ fd' = [fd EXCEPT ![p] = IF rotates THEN None ELSE newFd[p]]
        /\ offset' = [offset EXCEPT ![p] = None]
        /\ newFd' = [newFd EXCEPT ![p] = None]
        /\ shift' = [shift EXCEPT ![p] = IF rotates THEN Backups - 1 ELSE 0]
        /\ Goto(p, IF rotates THEN "rotate" ELSE "idle")
        /\ IF rotates THEN UNCHANGED fileLock ELSE Release(p)
        /\ UNCHANGED <<name, content, written, errors, starts>>

\* The last turn of the loop looks for "log.0", which nobody makes.
ShiftBackup(p) == /\ pc[p] = "rotate" /\ shift[p] > 0
                  /\ IF shift[p] = 1 THEN UNCHANGED name ELSE Rename(shift[p] - 1, shift[p])
                  /\ shift' = [shift EXCEPT ![p] = @ - 1]
                  /\ UNCHANGED <<content, fileLock, fd, offset, newFd, pc, written,
                                 errors, starts>>

RotateCurrent(p) == /\ pc[p] = "rotate" /\ shift[p] = 0
                    /\ Rename(0, 1)
                    /\ Goto(p, "openNew")
                    /\ UNCHANGED <<content, fileLock, fd, offset, newFd, shift, written,
                                   errors, starts>>

\* access() or rename() fails, and nobody asks: the file keeps its name.
RenameFails(p) == /\ pc[p] = "rotate" /\ Fails
                  /\ IF shift[p] > 0
                     THEN shift' = [shift EXCEPT ![p] = @ - 1] /\ UNCHANGED pc
                     ELSE Goto(p, "openNew") /\ UNCHANGED shift
                  /\ UNCHANGED <<fileVars, fd, offset, newFd, written, starts>>

\* open() without O_APPEND, and with O_EXCL, so that it fails if a process that
\* was just started has made the file, or its name was never taken away.
OpenNew(p) == /\ pc[p] = "openNew"
              /\ IF name[0] = None
                 THEN /\ OpenLog
                      /\ fd' = [fd EXCEPT ![p] = Opened]
                      /\ offset' = [offset EXCEPT ![p] = 0]
                 ELSE UNCHANGED <<name, content, fd, offset>>
              /\ Release(p)
              /\ Goto(p, "idle")
              /\ UNCHANGED <<newFd, shift, written, errors, starts>>

\* A process ends between two lines and another one is started, whose
\* constructor opens the file without the lock.
Construct(p) == /\ pc[p] = "idle" /\ starts < MaxStarts
                /\ starts' = starts + 1
                /\ OpenLog
                /\ fd' = [fd EXCEPT ![p] = Opened]
                /\ offset' = [offset EXCEPT ![p] = None]
                /\ UNCHANGED <<fileLock, newFd, shift, pc, written, errors>>

Next == \E p \in Processes :
            \/ Write(p) \/ Lock(p) \/ Reopen(p) \/ ReopenFails(p) \/ MeasureNew(p)
            \/ ShiftBackup(p) \/ RotateCurrent(p) \/ RenameFails(p) \/ OpenNew(p)
            \/ Construct(p)

Spec == Init /\ [][Next]_vars
-----------------------------------------------------------------------------
TypeOK == /\ name \in [Slots -> Files \cup {None}]
          /\ fileLock \in Processes \cup {None}
          /\ fd \in [Processes -> Files \cup {None}]
          /\ offset \in [Processes -> 0 .. MaxLines \cup {None}]
          /\ errors \in 0 .. MaxErrors /\ starts \in 0 .. MaxStarts

\* simple_logger.h:130 says that many processes may write the same file: a line
\* that was written stays where it is.
LinesStay ==
    /\ TypeOK
    /\ \A p \in Processes : \A n \in 1 .. written[p] : \E x \in Places : Line(x) = <<p, n>>

\* A process that has logged goes on logging: it has a file between two lines,
\* unless a call of the system failed.
KeepsLogging == errors = 0 => \A p \in Processes : pc[p] = "idle" => fd[p] # None
=============================================================================
