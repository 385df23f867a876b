---------------------------- MODULE RotatedFiles ----------------------------
(***************************************************************************)
(* A log file and its backups in a directory, as CSafeLogger and           *)
(* CSimpleLogger find them: the names "log", "log.1", "log.2", ..., the    *)
(* files they name, and the lock file (FileLocker) that is held by one at a*)
(* time.  Files are numbered in the order they were created, and so a      *)
(* descriptor is the number of a file.  A line is <<who wrote it, number>>.*)
(***************************************************************************)
EXTENDS Integers, Sequences, FiniteSets

CONSTANTS Backups,   \* _backup_number or _log_numer
          MaxSize,   \* _max_bytes or _log_size, in lines
          MaxLines,  \* bound: lines written in a behaviour
          None

ASSUME FilesAssumption == {Backups, MaxSize, MaxLines} \subseteq Nat /\ None \notin Nat

VARIABLES name,      \* the file that "log", "log.1", "log.2", ... name
          content,   \* the lines of each file
          fileLock   \* who has the lock file

fileVars == <<name, content, fileLock>>

Slots == 0 .. Backups + 1       \* 0 is the file being written

FilesInit == /\ name = [s \in Slots |-> IF s = 0 THEN 1 ELSE None]
             /\ content = <<  <<>>  >>
             /\ fileLock = None

Files == DOMAIN content
TooLarge(f) == Len(content[f]) > MaxSize       \* need_rotate()
Named == {name[s] : s \in Slots} \ {None}

\* open() of the path, which creates the file if it is not there.
Opened == IF name[0] = None THEN Len(content) + 1 ELSE name[0]
OpenLog == IF name[0] = None
           THEN /\ name' = [name EXCEPT ![0] = Opened]
                /\ content' = Append(content, <<>>)
           ELSE UNCHANGED <<name, content>>

\* rename(), of a file that access() has found.
Rename(old, new) == name' = IF name[old] = None THEN name
                            ELSE [name EXCEPT ![new] = name[old], ![old] = None]
-----------------------------------------------------------------------------
Places == {x \in Files \X (1 .. MaxLines) : x[2] <= Len(content[x[1]])}
Line(x) == content[x[1]][x[2]]
TotalLines == Cardinality(Places)

\* The files kept beside the one being written: the code moves backups up to
\* log.(Backups - 1), and always has log.1 if it has any.
Keep == IF Backups > 1 THEN Backups - 1 ELSE Backups
FullAfter(f) == {g \in Files : g > f /\ TooLarge(g)}
=============================================================================
