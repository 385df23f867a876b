---------------------------- MODULE LoggerProofs ----------------------------
(***************************************************************************)
(* Theorems about CSafeLogger, for any number of processes, threads,       *)
(* backups, lines and failures, and about CLogger with its log thread, for *)
(* any number of loggers and callers and any sizes of queue and batch.     *)
(***************************************************************************)
EXTENDS SafeLogger, AsyncLogger, FiniteSetTheorems, SequenceTheorems, TLAPS

-----------------------------------------------------------------------------
(* The files *)

LogLine == Threads \X (1 .. MaxLines)
LineOf(c, x) == c[x[1]][x[2]]
PlacesOf(c) == {x \in (DOMAIN c) \X (1 .. MaxLines) : x[2] <= Len(c[x[1]])}

\* A line that is appended to a file has the next place of that file.
OneLineMore(c, f, v, d) ==
    /\ d \in Seq(Seq(LogLine))
    /\ DOMAIN d = DOMAIN c /\ Len(d) = Len(c)
    /\ Len(d[f]) = Len(c[f]) + 1
    /\ \A g \in DOMAIN c : g # f => d[g] = c[g]
    /\ PlacesOf(d) = PlacesOf(c) \cup {<<f, Len(c[f]) + 1>>}
    /\ <<f, Len(c[f]) + 1>> \notin PlacesOf(c)
    /\ \A x \in PlacesOf(c) : d[x[1]][x[2]] = c[x[1]][x[2]]
    /\ d[f][Len(c[f]) + 1] = v

LEMMA AppendedLine ==
    ASSUME NEW c, c \in Seq(Seq(LogLine)), NEW f \in DOMAIN c, NEW v \in LogLine,
           Len(c[f]) < MaxLines, NEW d, d = [c EXCEPT ![f] = Append(@, v)]
    PROVE  OneLineMore(c, f, v, d)
<1> USE FilesAssumption
<1>1. c[f] \in Seq(LogLine) /\ Len(c[f]) \in Nat
  OBVIOUS
<1>2. Append(c[f], v) \in Seq(LogLine) /\ Len(Append(c[f], v)) = Len(c[f]) + 1
  BY <1>1
<1>3. DOMAIN d = DOMAIN c /\ Len(d) = Len(c) /\ d \in Seq(Seq(LogLine))
  BY <1>2
<1>4. d[f] = Append(c[f], v) /\ \A g \in DOMAIN c : g # f => d[g] = c[g]
  OBVIOUS
<1>5. d[f][Len(c[f]) + 1] = v /\ \A i \in 1 .. Len(c[f]) : d[f][i] = c[f][i]
  BY <1>1, <1>4
<1>6. <<f, Len(c[f]) + 1>> \notin PlacesOf(c)
  BY <1>1 DEF PlacesOf
<1>7. ASSUME NEW x \in PlacesOf(c)
      PROVE  x \in PlacesOf(d) /\ d[x[1]][x[2]] = c[x[1]][x[2]]
  <2>1. x \in (DOMAIN c) \X (1 .. MaxLines) /\ x[2] <= Len(c[x[1]])
    BY <1>7 DEF PlacesOf
  <2>2. CASE x[1] = f
    BY <2>1, <2>2, <1>1, <1>2, <1>3, <1>4, <1>5 DEF PlacesOf
  <2>3. CASE x[1] # f
    BY <2>1, <2>3, <1>3, <1>4 DEF PlacesOf
  <2> QED
    BY <2>2, <2>3
<1>8. ASSUME NEW x \in PlacesOf(d), x \notin PlacesOf(c)
      PROVE  x = <<f, Len(c[f]) + 1>>
  <2>1. x \in (DOMAIN c) \X (1 .. MaxLines) /\ x[2] <= Len(d[x[1]])
    BY <1>8, <1>3 DEF PlacesOf
  <2>2. x[1] = f
    BY <2>1, <1>8, <1>4 DEF PlacesOf
  <2>3. x[2] = Len(c[f]) + 1
    BY <2>1, <2>2, <1>8, <1>1, <1>2, <1>4 DEF PlacesOf
  <2> QED
    BY <2>1, <2>2, <2>3
<1>9. <<f, Len(c[f]) + 1>> \in PlacesOf(d)
  BY <1>1, <1>2, <1>3, <1>4 DEF PlacesOf
<1>10. PlacesOf(d) = PlacesOf(c) \cup {<<f, Len(c[f]) + 1>>}
  BY <1>7, <1>8, <1>9
<1> QED
  BY <1>2, <1>3, <1>4, <1>5, <1>6, <1>7, <1>10 DEF OneLineMore

\* A new file has no line.
OneFileMore(c, d) ==
    /\ d \in Seq(Seq(LogLine))
    /\ Len(d) = Len(c) + 1 /\ DOMAIN d = 1 .. Len(c) + 1 /\ DOMAIN c = 1 .. Len(c)
    /\ d[Len(c) + 1] = <<>>
    /\ \A g \in DOMAIN c : g \in DOMAIN d /\ d[g] = c[g]
    /\ PlacesOf(d) = PlacesOf(c)

LEMMA AppendedFile ==
    ASSUME NEW c, NEW d, c \in Seq(Seq(LogLine)), d = Append(c, <<>>)
    PROVE  OneFileMore(c, d)
<1> USE FilesAssumption
<1>1. <<>> \in Seq(LogLine)
  OBVIOUS
<1>2. /\ d \in Seq(Seq(LogLine))
      /\ Len(c) \in Nat /\ Len(d) = Len(c) + 1 /\ DOMAIN d = 1 .. Len(c) + 1 /\ DOMAIN c = 1 .. Len(c)
      /\ d[Len(c) + 1] = <<>>
      /\ \A g \in DOMAIN c : g \in DOMAIN d /\ d[g] = c[g]
  BY <1>1
<1>3. ASSUME NEW x \in PlacesOf(d) PROVE x \in PlacesOf(c)
  <2>1. x \in (DOMAIN d) \X (1 .. MaxLines) /\ x[2] <= Len(d[x[1]])
    BY <1>3 DEF PlacesOf
  <2>2. x[1] # Len(c) + 1
    BY <2>1, <1>2
  <2>3. x[1] \in DOMAIN c
    <3> DEFINE y == x[1]
               m == Len(c)
    <3>1. m \in Nat /\ y \in 1 .. m + 1 /\ y # m + 1
      BY <2>1, <2>2, <1>2
    <3> HIDE DEF y, m
    <3>2. y \in 1 .. m
      BY <3>1
    <3> QED
      BY <3>2, <1>2 DEF y, m
  <2> QED
    BY <2>1, <2>3, <1>2 DEF PlacesOf
<1>4. ASSUME NEW x \in PlacesOf(c) PROVE x \in PlacesOf(d)
  BY <1>2 DEF PlacesOf
<1> QED
  BY <1>2, <1>3, <1>4 DEF OneFileMore

-----------------------------------------------------------------------------
(* Types: the threads' descriptors are of files that were created *)

Section == {"reopen", "measureNew", "rotate", "openNew", "switch"}

FilesTyped ==
    /\ content \in Seq(Seq(LogLine))
    /\ name \in [Slots -> Files \cup {None}]

ThreadsTyped ==
    /\ fileLock \in Threads \cup {None}
    /\ logFd \in [Processes -> Files \cup {None}]
    /\ alive \subseteq Processes
    /\ pc \in [Threads -> Labels]
    /\ fd \in [Threads -> Files \cup {None}]
    /\ newFd \in [Threads -> Files \cup {None}]
    /\ shift \in [Threads -> {0} \cup (-1 .. Backups - 1)]
    /\ written \in [Threads -> 0 .. MaxLines]
    /\ errors \in 0 .. MaxErrors
    /\ unlocked \in BOOLEAN

Descriptors ==
    /\ \A t \in Threads : pc[t] # "idle" => fd[t] \in Files
    /\ \A t \in Threads : pc[t] \in {"measureNew", "rotate"} => newFd[t] \in Files
    /\ \A t \in Threads : pc[t] = "rotate" => shift[t] <= Backups - 1

\* There is room in the bound for a line of every thread that is about to write.
Writing == {t \in Threads : pc[t] = "write"}
Counted ==
    /\ TotalLines + Cardinality(Writing) <= MaxLines
    /\ \A f \in Files : Len(content[f]) <= MaxLines
    /\ \A t \in Threads : \A n \in 1 .. written[t] : \E x \in Places : Line(x) = <<t, n>>

Typed == FilesTyped /\ ThreadsTyped /\ Descriptors

LEMMA TypedIsTypeOK == Typed => TypeOK
BY DEF Typed, FilesTyped, ThreadsTyped, TypeOK, LogLine, Files

\* What open() does to the names and the files.
LEMMA OpenLogOpens ==
    ASSUME Typed, OpenLog
    PROVE  /\ content' \in Seq(Seq(LogLine))
           /\ Opened \in Files' /\ Files \subseteq Files'
           /\ name' \in [Slots -> Files' \cup {None}]
           /\ name'[0] = Opened
           /\ \A s \in Slots \ {0} : name'[s] = name[s]
           /\ \A g \in Files : content'[g] = content[g]
           /\ Places' = Places
           /\ name[0] # None => name' = name /\ content' = content /\ Opened = name[0]
           /\ name[0] = None => /\ Opened = Len(content) + 1 /\ Len(content') = Len(content) + 1
                                /\ content'[Opened] = <<>> /\ Files' = Files \cup {Opened}
                                /\ Opened \notin Files
<1> USE FilesAssumption DEF Typed, FilesTyped
<1>0. 0 \in Slots
  BY DEF Slots
<1>1. Places = PlacesOf(content) /\ Places' = PlacesOf(content')
  BY DEF Places, PlacesOf, Files
<1>2. CASE name[0] = None
  <2>1. content' = Append(content, <<>>) /\ name' = [name EXCEPT ![0] = Opened]
        /\ Opened = Len(content) + 1
    BY <1>2 DEF OpenLog, Opened
  <2>2. /\ content' \in Seq(Seq(LogLine))
        /\ Len(content') = Len(content) + 1
        /\ DOMAIN content' = 1 .. Len(content) + 1 /\ DOMAIN content = 1 .. Len(content)
        /\ content'[Len(content) + 1] = <<>>
        /\ \A g \in DOMAIN content : g \in DOMAIN content' /\ content'[g] = content[g]
        /\ PlacesOf(content') = PlacesOf(content)
    <3> HIDE DEF Typed, FilesTyped
    <3>1. content \in Seq(Seq(LogLine))
      BY DEF Typed, FilesTyped
    <3>2. OneFileMore(content, content')
      BY <2>1, <3>1, AppendedFile
    <3> QED
      BY <3>2 DEF OneFileMore
  <2>3. Len(content) \in Nat
    BY LenProperties
  <2>4. Opened \in Files' /\ Files \subseteq Files' /\ Files' = Files \cup {Opened}
        /\ Opened \notin Files
    BY <2>1, <2>2, <2>3 DEF Files
  <2>5. name'[0] = Opened /\ \A s \in Slots \ {0} : name'[s] = name[s]
    BY <2>1, <1>0
  <2>6. name' \in [Slots -> Files' \cup {None}]
    BY <2>1, <2>4, <1>0
  <2> QED
    BY <1>1, <1>2, <2>1, <2>2, <2>4, <2>5, <2>6 DEF Files
<1>3. CASE name[0] # None
  <2>1. content' = content /\ name' = name /\ Opened = name[0]
    BY <1>3 DEF OpenLog, Opened
  <2>2. name[0] \in Files
    BY <1>0, <1>3
  <2> QED
    BY <1>1, <1>3, <2>1, <2>2 DEF Files
<1> QED
  BY <1>2, <1>3

\* What a rename does to the names.
LEMMA RenameMoves ==
    ASSUME Typed, NEW old \in Slots, NEW new \in Slots, old # new, Rename(old, new)
    PROVE  /\ name' \in [Slots -> Files \cup {None}]
           /\ name'[old] = None
           /\ \A s \in Slots \ {old, new} : name'[s] = name[s]
           /\ name[old] = None => name' = name
           /\ name[old] # None => name'[new] = name[old]
BY DEF Typed, FilesTyped, Rename

\* A thread that writes has room for its line.
LEMMA PlacesFinite ==
    ASSUME Typed
    PROVE  /\ IsFiniteSet(Places) /\ TotalLines \in Nat
           /\ Places = PlacesOf(content)
<1> USE FilesAssumption DEF Typed, FilesTyped
<1>1. DOMAIN content = 1 .. Len(content) /\ Len(content) \in Nat
  BY LenProperties
<1>2. IsFiniteSet(1 .. Len(content)) /\ IsFiniteSet(1 .. MaxLines)
  BY <1>1, FS_Interval
<1>3. IsFiniteSet((DOMAIN content) \X (1 .. MaxLines))
  BY <1>1, <1>2, FS_Product
<1>4. Places \subseteq (DOMAIN content) \X (1 .. MaxLines)
  BY DEF Places, Files
<1>5. IsFiniteSet(Places) /\ TotalLines \in Nat
  BY <1>3, <1>4, FS_Subset, FS_CardinalityType DEF TotalLines
<1> QED
  BY <1>5 DEF Places, PlacesOf, Files

LEMMA WritingFinite ==
    /\ IsFiniteSet(Writing) /\ Cardinality(Writing) \in Nat
    /\ \A t \in Writing : Cardinality(Writing) >= 1
<1>1. Writing \subseteq Threads /\ IsFiniteSet(Threads)
  BY ThreadsAssumption DEF Writing
<1>2. IsFiniteSet(Writing) /\ Cardinality(Writing) \in Nat
  BY <1>1, FS_Subset, FS_CardinalityType
<1>3. Cardinality(Writing) = 0 => Writing = {}
  BY <1>2, FS_EmptySet
<1> QED
  BY <1>2, <1>3

\* The lines of one file are places of it, and no more than there are in all.
LEMMA LinesOfFile ==
    ASSUME Typed, Counted, NEW f \in Files
    PROVE  Len(content[f]) \in Nat /\ Len(content[f]) <= TotalLines
<1> DEFINE k == Len(content[f])
           Own == {f} \X (1 .. k)
<1>1. k \in Nat /\ k <= MaxLines /\ MaxLines \in Nat
  BY FilesAssumption, LenProperties DEF Typed, FilesTyped, Counted, Files
<1>2. Own \subseteq Places
  BY <1>1 DEF Places
<1>3. IsFiniteSet({f}) /\ Cardinality({f}) = 1
  BY FS_Singleton
<1>4. Cardinality(Own) = k
  <2> HIDE DEF k
  <2>1. IsFiniteSet(1 .. k) /\ Cardinality(1 .. k) = k
    BY <1>1, FS_Interval
  <2>2. \A S, T : IsFiniteSet(S) /\ IsFiniteSet(T) => Cardinality(S \X T) = Cardinality(S) * Cardinality(T)
    BY FS_Product, Zenon
  <2>3. Cardinality(Own) = Cardinality({f}) * Cardinality(1 .. k)
    BY <2>1, <2>2, <1>3
  <2> QED
    BY <1>1, <1>3, <2>1, <2>3
<1>5. Cardinality(Own) <= Cardinality(Places)
  BY <1>2, PlacesFinite, FS_Subset
<1> QED
  BY <1>1, <1>4, <1>5 DEF TotalLines

\* What a thread has written is there, one place for each line.
LEMMA WrittenIsThere ==
    ASSUME Typed, Counted, NEW t \in Threads
    PROVE  written[t] \in Nat /\ written[t] <= TotalLines
<1> DEFINE k == written[t]
           at == [n \in 1 .. k |-> CHOOSE x \in Places : Line(x) = <<t, n>>]
<1>1. k \in Nat
  BY FilesAssumption DEF Typed, ThreadsTyped
<1>2. \A n \in 1 .. k : at[n] \in Places /\ Line(at[n]) = <<t, n>>
  BY DEF Counted
<1>3. at \in [1 .. k -> Places]
  BY <1>2
<1>4. \A m, n \in 1 .. k : at[m] = at[n] => m = n
  <2> TAKE m, n \in 1 .. k
  <2> HAVE at[m] = at[n]
  <2>1. Line(at[m]) = <<t, m>> /\ Line(at[n]) = <<t, n>>
    BY <1>2
  <2> HIDE DEF at
  <2> QED
    BY <2>1
<1>5. at \in Injection(1 .. k, Places)
  <2> HIDE DEF at
  <2> QED
    BY <1>3, <1>4 DEF Injection, IsInjective
<1>6. Cardinality(1 .. k) <= Cardinality(Places)
  <2> HIDE DEF at
  <2> QED
    BY <1>5, PlacesFinite, FS_Injection
<1>7. Cardinality(1 .. k) = k
  BY <1>1, FS_Interval
<1> QED
  BY <1>1, <1>6, <1>7 DEF TotalLines

LEMMA RoomToWrite ==
    ASSUME Typed, Counted, NEW t \in Threads, pc[t] = "write"
    PROVE  /\ fd[t] \in Files /\ Len(content[fd[t]]) < MaxLines
           /\ written[t] < MaxLines /\ TotalLines < MaxLines
           /\ <<t, written[t] + 1>> \in LogLine
<1>1. t \in Writing /\ fd[t] \in Files
  BY DEF Writing, Typed, Descriptors
<1>2. Cardinality(Writing) >= 1 /\ Cardinality(Writing) \in Nat
  BY <1>1, WritingFinite
<1>3. TotalLines \in Nat /\ MaxLines \in Nat
  BY PlacesFinite, FilesAssumption
<1>4. TotalLines < MaxLines
  BY <1>2, <1>3 DEF Counted
<1>5. /\ Len(content[fd[t]]) \in Nat /\ Len(content[fd[t]]) <= TotalLines
      /\ written[t] \in Nat /\ written[t] <= TotalLines
  BY <1>1, LinesOfFile, WrittenIsThere
<1> QED
  BY <1>1, <1>3, <1>4, <1>5 DEF LogLine

LEMMA TypedInit == Init => Typed /\ Counted
<1> SUFFICES ASSUME Init PROVE Typed /\ Counted
  OBVIOUS
<1> USE FilesAssumption, ErrorsAssumption, ThreadsAssumption DEF Init, FilesInit, Files
<1>1. content = << <<>> >> /\ Len(content) = 1 /\ DOMAIN content = {1} /\ content[1] = <<>>
  OBVIOUS
<1>2. content \in Seq(Seq(LogLine))
  BY <1>1
<1>3. FilesTyped
  BY <1>1, <1>2 DEF FilesTyped
<1>4. ThreadsTyped /\ Descriptors
  <2>1. logFd \in [Processes -> Files \cup {None}] /\ pc \in [Threads -> Labels]
    BY <1>1 DEF Labels
  <2>2. /\ fd \in [Threads -> Files \cup {None}] /\ newFd \in [Threads -> Files \cup {None}]
        /\ shift \in [Threads -> {0} \cup (-1 .. Backups - 1)]
        /\ written \in [Threads -> 0 .. MaxLines]
    OBVIOUS
  <2>3. /\ fileLock = None /\ alive = Processes /\ errors = 0 /\ unlocked = FALSE
    OBVIOUS
  <2>4. ThreadsTyped
    <3>1. fileLock \in Threads \cup {None} /\ alive \subseteq Processes
      BY <2>3
    <3>2. errors \in 0 .. MaxErrors
      BY <2>3
    <3>3. unlocked \in BOOLEAN
      BY <2>3
    <3> HIDE DEF Init, Files
    <3> QED
      BY <2>1, <2>2, <3>1, <3>2, <3>3, Zenon DEF ThreadsTyped
  <2>5. \A t \in Threads : pc[t] = "idle"
    OBVIOUS
  <2>6. Descriptors
    BY <2>5 DEF Descriptors
  <2> QED
    BY <2>4, <2>6
<1>5. Places = {}
  BY <1>1 DEF Places
<1>6. Writing = {}
  BY DEF Writing
<1>7. TotalLines = 0 /\ Cardinality(Writing) = 0
  BY <1>5, <1>6, FS_EmptySet DEF TotalLines
<1>8. Counted
  BY <1>1, <1>7 DEF Counted
<1> QED
  BY <1>3, <1>4, <1>8 DEF Typed

LEMMA TypedNext == Typed /\ Counted /\ [Next]_vars => Typed'
<1> SUFFICES ASSUME Typed, Counted, [Next]_vars PROVE Typed'
  OBVIOUS
<1> USE FilesAssumption, ErrorsAssumption, ThreadsAssumption
        DEF Typed, ThreadsTyped, Descriptors, Labels, Goto, Return, Fails
<1>0. 0 \in Slots /\ 1 \in Slots
  BY DEF Slots
<1>a. ASSUME UNCHANGED <<name, content>>
      PROVE  Files' = Files /\ FilesTyped'
  BY <1>a DEF Files, FilesTyped
<1>b. ASSUME UNCHANGED content, name' \in [Slots -> Files \cup {None}]
      PROVE  Files' = Files /\ FilesTyped'
  BY <1>b DEF Files, FilesTyped
<1>c. ASSUME OpenLog
      PROVE  FilesTyped' /\ Opened \in Files' /\ Files \subseteq Files'
  BY <1>c, OpenLogOpens DEF FilesTyped
<1>1. ASSUME NEW t \in Threads, PrepareLogFd(t)
      PROVE  Typed'
  BY <1>1, <1>a DEF PrepareLogFd, fileVars, processVars
<1>2. ASSUME NEW t \in Threads, PrepareLogFdOpens(t)
      PROVE  Typed'
  BY <1>2, <1>c DEF PrepareLogFdOpens, processVars
<1>3. ASSUME NEW t \in Threads, Write(t)
      PROVE  Typed'
  <2>1. /\ fd[t] \in Files /\ Len(content[fd[t]]) < MaxLines
        /\ written[t] < MaxLines
        /\ <<t, written[t] + 1>> \in LogLine
    BY <1>3, RoomToWrite DEF Write
  <2>2. content \in Seq(Seq(LogLine))
    BY DEF FilesTyped
  <2>3. content' \in Seq(Seq(LogLine)) /\ DOMAIN content' = DOMAIN content
    <3> DEFINE f == fd[t]
               v == <<t, written[t] + 1>>
    <3>1. content' = [content EXCEPT ![f] = Append(@, v)] /\ f \in DOMAIN content
      BY <1>3, <2>1 DEF Write, Files
    <3>2. v \in LogLine /\ Len(content[f]) < MaxLines
      BY <2>1
    <3> HIDE DEF f, v
    <3>3. OneLineMore(content, f, v, content')
      BY <3>1, <3>2, <2>2, AppendedLine
    <3> QED
      BY <3>3 DEF OneLineMore
  <2>4. Files' = Files /\ FilesTyped'
    BY <1>3, <2>3 DEF Files, FilesTyped, Write
  <2>5. written' \in [Threads -> 0 .. MaxLines]
    BY <1>3, <2>1 DEF Write
  <2> QED
    BY <1>3, <2>1, <2>4, <2>5 DEF Write, processVars
<1>4. ASSUME NEW t \in Threads, WriteFails(t) \/ ReopenFails(t)
      PROVE  Typed'
  BY <1>4, <1>a DEF WriteFails, ReopenFails, fileVars, processVars
<1>5. ASSUME NEW t \in Threads, Measure(t)
      PROVE  Typed'
  BY <1>5, <1>a DEF Measure, processVars
<1>6. ASSUME NEW t \in Threads, Lock(t) \/ LockFails(t)
      PROVE  Typed'
  <2>1. CASE Lock(t)
    BY <2>1, <1>a DEF Lock, processVars
  <2>2. CASE LockFails(t)
    BY <2>2, <1>a DEF LockFails, processVars, fileVars
  <2> QED
    BY <1>6, <2>1, <2>2
<1>7. ASSUME NEW t \in Threads, Reopen(t) \/ OpenNew(t)
      PROVE  Typed'
  BY <1>7, <1>c DEF Reopen, OpenNew, processVars
<1>8. ASSUME NEW t \in Threads, MeasureNew(t)
      PROVE  Typed'
  <2>1. Files' = Files /\ FilesTyped'
    BY <1>8, <1>a DEF MeasureNew, fileVars
  <2> QED
    BY <1>8, <2>1 DEF MeasureNew, processVars, fileVars
<1>9. ASSUME NEW t \in Threads, ShiftBackup(t)
      PROVE  Typed'
  <2>1. shift[t] \in 2 .. Backups - 1 /\ Backups \in Nat
    BY <1>9 DEF ShiftBackup
  <2>2. shift[t] - 1 \in Slots /\ shift[t] \in Slots /\ shift[t] - 1 # shift[t]
    BY <2>1 DEF Slots
  <2>3. name' \in [Slots -> Files \cup {None}]
    BY <1>9, <2>2, RenameMoves DEF ShiftBackup
  <2>4. shift' \in [Threads -> {0} \cup (-1 .. Backups - 1)] /\ shift'[t] = shift[t] - 1
    BY <1>9, <2>1 DEF ShiftBackup
  <2>5. Files' = Files /\ FilesTyped'
    BY <1>9, <2>3, <1>b DEF ShiftBackup
  <2> QED
    BY <1>9, <2>1, <2>4, <2>5 DEF ShiftBackup, processVars
<1>10. ASSUME NEW t \in Threads, RotateCurrent(t)
       PROVE  Typed'
  <2>1. name' \in [Slots -> Files \cup {None}]
    <3>1. CASE Backups = 0
      BY <1>10, <1>0, <3>1 DEF RotateCurrent, FilesTyped
    <3>2. CASE Backups # 0
      BY <1>10, <1>0, <3>2, RenameMoves DEF RotateCurrent
    <3> QED
      BY <3>1, <3>2
  <2>2. Files' = Files /\ FilesTyped'
    BY <1>10, <2>1, <1>b DEF RotateCurrent
  <2> QED
    BY <1>10, <2>2 DEF RotateCurrent, processVars
<1>11. ASSUME NEW t \in Threads, OpenNewFails(t)
       PROVE  Typed'
  BY <1>11, <1>a DEF OpenNewFails, processVars, fileVars
<1>12. ASSUME NEW t \in Threads, Switch(t)
       PROVE  Typed'
  BY <1>12, <1>a DEF Switch
<1>13. ASSUME NEW p \in Processes, Crash(p)
       PROVE  Typed'
  <2>1. Files' = Files /\ FilesTyped'
    BY <1>13, <1>a DEF Crash
  <2>2. pc' \in [Threads -> Labels] /\ shift' \in [Threads -> {0} \cup (-1 .. Backups - 1)]
    BY <1>13 DEF Crash
  <2>3. fd' \in [Threads -> Files \cup {None}] /\ newFd' \in [Threads -> Files \cup {None}]
    BY <1>13 DEF Crash
  <2>4. ThreadsTyped'
    BY <1>13, <2>1, <2>2, <2>3 DEF Crash
  <2>5. Descriptors'
    BY <1>13, <2>1 DEF Crash
  <2> QED
    BY <2>1, <2>4, <2>5
<1>14. ASSUME NEW p \in Processes, Construct(p)
       PROVE  Typed'
  BY <1>14, <1>c DEF Construct, threadVars
<1>15. ASSUME UNCHANGED vars
       PROVE  Typed'
  BY <1>15, <1>a DEF vars, fileVars, processVars, threadVars
<1>16. ASSUME NEW t \in Threads, ShiftBackupFails(t)
       PROVE  Typed'
  <2>1. shift[t] \in 2 .. Backups - 1 /\ Backups \in Nat
    BY <1>16 DEF ShiftBackupFails
  <2>2. shift' \in [Threads -> {0} \cup (-1 .. Backups - 1)] /\ shift'[t] = shift[t] - 1
    BY <1>16, <2>1 DEF ShiftBackupFails
  <2>3. Files' = Files /\ FilesTyped'
    BY <1>16, <1>a DEF ShiftBackupFails, fileVars
  <2> QED
    BY <1>16, <2>1, <2>2, <2>3 DEF ShiftBackupFails, processVars, fileVars
<1>17. ASSUME NEW t \in Threads, RotateCurrentFails(t)
       PROVE  Typed'
  <2>1. Files' = Files /\ FilesTyped'
    BY <1>17, <1>a DEF RotateCurrentFails, fileVars
  <2> QED
    BY <1>17, <2>1 DEF RotateCurrentFails, processVars, fileVars
<1> QED
  BY <1>1, <1>2, <1>3, <1>4, <1>5, <1>6, <1>7, <1>8, <1>9, <1>10, <1>11, <1>12, <1>13, <1>14,
     <1>15, <1>16, <1>17 DEF Next, WriteLog, Failure

\* A step that is not a write leaves every line where it is; a new file has none.
FilesKept ==
    /\ Places' = Places
    /\ Files \subseteq Files'
    /\ \A g \in Files : content'[g] = content[g]
    /\ \A g \in Files' \ Files : content'[g] = <<>>

LEMMA KeptByOpen == Typed /\ OpenLog => FilesKept
<1> SUFFICES ASSUME Typed, OpenLog PROVE FilesKept
  OBVIOUS
<1>1. /\ Files \subseteq Files' /\ Places' = Places
      /\ \A g \in Files : content'[g] = content[g]
  BY OpenLogOpens
<1>2. CASE name[0] = None
  <2>1. content'[Opened] = <<>> /\ Files' = Files \cup {Opened}
    BY <1>2, OpenLogOpens
  <2> QED
    BY <1>1, <2>1 DEF FilesKept
<1>3. CASE name[0] # None
  <2>1. content' = content
    BY <1>3, OpenLogOpens
  <2>2. Files' = Files
    BY <2>1 DEF Files
  <2> QED
    BY <1>1, <2>2 DEF FilesKept
<1> QED
  BY <1>2, <1>3

LEMMA KeptElse == UNCHANGED content => FilesKept
BY DEF FilesKept, Files, Places

LEMMA StepWritesOrKeeps ==
    ASSUME Typed, [Next]_vars
    PROVE  \/ \E t \in Threads : Write(t)
           \/ FilesKept /\ written' = written
<1> USE KeptByOpen, KeptElse
<1>1. ASSUME NEW t \in Threads, PrepareLogFd(t) \/ PrepareLogFdOpens(t)
      PROVE  FilesKept /\ written' = written
  BY <1>1 DEF PrepareLogFd, PrepareLogFdOpens, fileVars
<1>2. ASSUME NEW t \in Threads, Failure(t)
      PROVE  FilesKept /\ written' = written
  BY <1>2 DEF Failure, WriteFails, LockFails, ReopenFails, ShiftBackupFails, RotateCurrentFails,
              OpenNewFails, fileVars
<1>3. ASSUME NEW t \in Threads, WriteLog(t), ~Write(t)
      PROVE  FilesKept /\ written' = written
  BY <1>3 DEF WriteLog, Measure, Lock, Reopen, MeasureNew, ShiftBackup, RotateCurrent, OpenNew,
              Switch, fileVars
<1>4. ASSUME NEW p \in Processes, Crash(p) \/ Construct(p)
      PROVE  FilesKept /\ written' = written
  BY <1>4 DEF Crash, Construct, threadVars
<1>5. ASSUME UNCHANGED vars
      PROVE  FilesKept /\ written' = written
  BY <1>5 DEF vars, fileVars, threadVars
<1> QED
  BY <1>1, <1>2, <1>3, <1>4, <1>5 DEF Next

\* Only prepare_log_fd() makes a thread write.
LEMMA StepPreparesOrNot ==
    ASSUME Typed, [Next]_vars
    PROVE  \/ \E t \in Threads : PrepareLogFd(t) \/ PrepareLogFdOpens(t)
           \/ Writing' \subseteq Writing
<1> USE DEF Typed, ThreadsTyped, Writing, Goto, Return
<1>2. ASSUME NEW t \in Threads, Failure(t)
      PROVE  Writing' \subseteq Writing
  BY <1>2 DEF Failure, WriteFails, LockFails, ReopenFails, ShiftBackupFails, RotateCurrentFails,
              OpenNewFails
<1>3. ASSUME NEW t \in Threads, WriteLog(t)
      PROVE  Writing' \subseteq Writing
  BY <1>3 DEF WriteLog, Write, Measure, Lock, Reopen, MeasureNew, ShiftBackup, RotateCurrent,
              OpenNew, Switch
<1>4. ASSUME NEW p \in Processes, Crash(p) \/ Construct(p)
      PROVE  Writing' \subseteq Writing
  BY <1>4 DEF Crash, Construct, threadVars
<1>5. ASSUME UNCHANGED vars
      PROVE  Writing' \subseteq Writing
  BY <1>5 DEF vars, threadVars
<1> QED
  BY <1>2, <1>3, <1>4, <1>5 DEF Next

\* What a write does.
LEMMA WriteAdds ==
    ASSUME Typed, Counted, NEW t \in Threads, Write(t)
    PROVE  LET f == fd[t]
               new == <<f, Len(content[f]) + 1>>
           IN  /\ f \in Files /\ Files' = Files /\ Len(content') = Len(content)
               /\ Len(content[f]) \in Nat /\ Len(content[f]) < MaxLines
               /\ Len(content'[f]) = Len(content[f]) + 1
               /\ \A g \in Files : g # f => content'[g] = content[g]
               /\ Places' = Places \cup {new} /\ new \notin Places
               /\ \A x \in Places : LineOf(content', x) = LineOf(content, x)
               /\ LineOf(content', new) = <<t, written[t] + 1>>
               /\ written[t] \in Nat /\ written' = [written EXCEPT ![t] = @ + 1]
<1>1. /\ fd[t] \in Files /\ Len(content[fd[t]]) < MaxLines
      /\ written[t] < MaxLines
      /\ <<t, written[t] + 1>> \in LogLine
  BY RoomToWrite DEF Write
<1>2. content \in Seq(Seq(LogLine))
  BY DEF Typed, FilesTyped
<1>3. content' = [content EXCEPT ![fd[t]] = Append(@, <<t, written[t] + 1>>)]
  BY DEF Write
<1> DEFINE f == fd[t]  v == <<t, written[t] + 1>>  d == content'
<1>4. f \in DOMAIN content /\ d = [content EXCEPT ![f] = Append(@, v)]
  BY <1>1, <1>3 DEF Files
<1>5. v \in LogLine /\ Len(content[f]) < MaxLines
  BY <1>1
<1>13. OneLineMore(content, f, v, d)
  <2> HIDE DEF f, v, d
  <2> QED
    BY <1>2, <1>4, <1>5, AppendedLine
<1>6. /\ DOMAIN d = DOMAIN content /\ Len(d) = Len(content)
      /\ Len(d[f]) = Len(content[f]) + 1
      /\ \A g \in DOMAIN content : g # f => d[g] = content[g]
      /\ PlacesOf(d) = PlacesOf(content) \cup {<<f, Len(content[f]) + 1>>}
      /\ <<f, Len(content[f]) + 1>> \notin PlacesOf(content)
      /\ \A x \in PlacesOf(content) : d[x[1]][x[2]] = content[x[1]][x[2]]
      /\ d[f][Len(content[f]) + 1] = v
  <2> HIDE DEF f, v, d
  <2> QED
    BY <1>13 DEF OneLineMore
<1>7. Places = PlacesOf(content) /\ Places' = PlacesOf(d)
  BY DEF Places, PlacesOf, Files
<1>8. Len(content[f]) \in Nat
  BY <1>1, LinesOfFile
<1>9. written[t] \in Nat /\ written' = [written EXCEPT ![t] = @ + 1]
  BY FilesAssumption DEF Write, Typed, ThreadsTyped
<1>10. Files' = Files /\ Files = DOMAIN content
  BY <1>6 DEF Files
<1> HIDE DEF d
<1>12. /\ \A x \in Places : LineOf(d, x) = LineOf(content, x)
       /\ LineOf(d, <<f, Len(content[f]) + 1>>) = v
  BY <1>6, <1>7 DEF LineOf
<1> QED
  BY <1>1, <1>6, <1>7, <1>8, <1>9, <1>10, <1>12 DEF d
LEMMA CountedNext == Typed /\ Counted /\ [Next]_vars => Counted'
<1> SUFFICES ASSUME Typed, Counted, [Next]_vars PROVE Counted'
  OBVIOUS
<1> USE FilesAssumption
<1>0. /\ IsFiniteSet(Places) /\ TotalLines \in Nat /\ TotalLines = Cardinality(Places)
      /\ IsFiniteSet(Writing) /\ Cardinality(Writing) \in Nat /\ MaxLines \in Nat
      /\ TotalLines' = Cardinality(Places')
  BY PlacesFinite, WritingFinite DEF TotalLines
<1>1. ASSUME NEW t \in Threads, Write(t)
      PROVE  Counted'
  <2> DEFINE f == fd[t]
             new == <<f, Len(content[f]) + 1>>
  <2>1. /\ f \in Files /\ Files' = Files
        /\ Len(content[f]) \in Nat /\ Len(content[f]) < MaxLines
        /\ Len(content'[f]) = Len(content[f]) + 1
        /\ \A g \in Files : g # f => content'[g] = content[g]
        /\ Places' = Places \cup {new} /\ new \notin Places
        /\ \A x \in Places : LineOf(content', x) = LineOf(content, x)
        /\ LineOf(content', new) = <<t, written[t] + 1>>
        /\ written[t] \in Nat /\ written' = [written EXCEPT ![t] = @ + 1]
    BY <1>1, WriteAdds
  <2>2. TotalLines' = TotalLines + 1
    BY <1>0, <2>1, FS_AddElement
  <2>3. Writing' = Writing \ {t} /\ t \in Writing
    BY <1>1 DEF Write, Writing, Goto, Typed, ThreadsTyped
  <2>4. Cardinality(Writing') = Cardinality(Writing) - 1
    BY <1>0, <2>3, FS_RemoveElement
  <2>5. TotalLines' + Cardinality(Writing') <= MaxLines
    <3> DEFINE a == TotalLines' b == Cardinality(Writing')
    <3>1. a = TotalLines + 1 /\ b = Cardinality(Writing) - 1
      BY <2>2, <2>4
    <3>2. TotalLines + Cardinality(Writing) <= MaxLines
      BY DEF Counted
    <3> HIDE DEF a, b
    <3>3. a + b <= MaxLines
      BY <1>0, <3>1, <3>2
    <3> QED
      BY <3>3 DEF a, b
  <2>6. \A g \in Files' : Len(content'[g]) <= MaxLines
    <3> TAKE g \in Files'
    <3>1. CASE g = f
      BY <2>1, <3>1
    <3>2. CASE g # f
      BY <2>1, <3>2 DEF Counted
    <3> QED
      BY <3>1, <3>2
  <2>7. ASSUME NEW u \in Threads, NEW n \in 1 .. written'[u]
        PROVE  \E x \in Places' : LineOf(content', x) = <<u, n>>
    <3>1. CASE u = t /\ n = written[t] + 1
      <4>1. new \in Places' /\ LineOf(content', new) = <<u, n>>
        BY <2>1, <3>1
      <4> QED
        BY <4>1
    <3>2. CASE ~(u = t /\ n = written[t] + 1)
      <4>1. n \in 1 .. written[u]
        BY <2>1, <3>2, <2>7 DEF Typed, ThreadsTyped
      <4>2. PICK x \in Places : Line(x) = <<u, n>>
        BY <4>1 DEF Counted
      <4> QED
        BY <2>1, <4>2 DEF Line, LineOf
    <3> QED
      BY <3>1, <3>2
  <2> QED
    BY <2>5, <2>6, <2>7 DEF Counted, Line, LineOf
<1>2. ASSUME FilesKept, written' = written, TotalLines + Cardinality(Writing') <= MaxLines
      PROVE  Counted'
  <2>1. TotalLines' = TotalLines
    BY <1>2, <1>0 DEF FilesKept
  <2>2. \A g \in Files' : Len(content'[g]) <= MaxLines
    <3> TAKE g \in Files'
    <3>1. CASE g \in Files
      BY <1>2, <3>1 DEF FilesKept, Counted
    <3>2. CASE g \notin Files
      BY <1>2, <3>2 DEF FilesKept
    <3> QED
      BY <3>1, <3>2
  <2>3. \A x \in Places : LineOf(content', x) = LineOf(content, x)
    BY <1>2 DEF FilesKept, LineOf, Places
  <2>4. \A u \in Threads : \A n \in 1 .. written'[u] : \E x \in Places' : LineOf(content', x) = <<u, n>>
    <3> SUFFICES ASSUME NEW u \in Threads, NEW n \in 1 .. written[u]
                 PROVE  \E x \in Places' : LineOf(content', x) = <<u, n>>
      BY <1>2
    <3>1. PICK x \in Places : Line(x) = <<u, n>>
      BY DEF Counted
    <3>2. x \in Places' /\ LineOf(content', x) = <<u, n>>
      BY <1>2, <2>3, <3>1 DEF FilesKept, Line, LineOf
    <3> QED
      BY <3>2
  <2> QED
    BY <1>2, <2>1, <2>2, <2>4 DEF Counted, Line, LineOf
<1>3. ASSUME NEW t \in Threads, PrepareLogFd(t) \/ PrepareLogFdOpens(t)
      PROVE  Counted'
  <2>1. Writing' = Writing \cup {t} /\ t \notin Writing
    BY <1>3 DEF PrepareLogFd, PrepareLogFdOpens, Goto, Writing, Typed, ThreadsTyped
  <2>2. TotalLines + Cardinality(Writing) < MaxLines
    BY <1>3 DEF PrepareLogFd, PrepareLogFdOpens, Writing
  <2>3. Cardinality(Writing') = Cardinality(Writing) + 1
    BY <1>0, <2>1, FS_AddElement
  <2>4. TotalLines + Cardinality(Writing') <= MaxLines
    <3> DEFINE b == Cardinality(Writing')
    <3>1. b = Cardinality(Writing) + 1
      BY <2>3
    <3> HIDE DEF b
    <3>2. TotalLines + b <= MaxLines
      BY <1>0, <2>2, <3>1
    <3> QED
      BY <3>2 DEF b
  <2>5. FilesKept /\ written' = written
    BY <1>3, KeptByOpen, KeptElse DEF PrepareLogFd, PrepareLogFdOpens, fileVars
  <2> QED
    BY <1>2, <2>4, <2>5
<1>4. ASSUME Writing' \subseteq Writing
      PROVE  TotalLines + Cardinality(Writing') <= MaxLines
  <2> DEFINE b == Cardinality(Writing')
  <2>1. b <= Cardinality(Writing) /\ b \in Nat
    BY <1>0, <1>4, FS_Subset, FS_CardinalityType
  <2> HIDE DEF b
  <2>2. TotalLines + b <= MaxLines
    BY <1>0, <2>1 DEF Counted
  <2> QED
    BY <2>2 DEF b
<1> QED
  BY <1>1, <1>2, <1>3, <1>4, StepWritesOrKeeps, StepPreparesOrNot

\* Files are not taken back, nor a full file made smaller; log is never the name of
\* a file it has ceased to name.
LEMMA StepGrows ==
    ASSUME Typed, Counted, [Next]_vars
    PROVE  /\ Files \subseteq Files'
           /\ \A f \in Files : /\ Len(content[f]) \in Nat /\ Len(content'[f]) \in Nat
                               /\ Len(content'[f]) >= Len(content[f])
                               /\ TooLarge(f) => Len(content'[f]) > MaxSize
           /\ \A f \in Files' \ Files : content'[f] = <<>>
<1> USE FilesAssumption
<1>0. \A f \in Files : Len(content[f]) \in Nat
  BY LinesOfFile
<1>1. ASSUME NEW t \in Threads, Write(t)
      PROVE  /\ Files' = Files
             /\ \A f \in Files : /\ Len(content'[f]) \in Nat
                                 /\ Len(content'[f]) >= Len(content[f])
  <2>1. /\ fd[t] \in Files /\ Files' = Files
        /\ Len(content'[fd[t]]) = Len(content[fd[t]]) + 1
        /\ \A g \in Files : g # fd[t] => content'[g] = content[g]
    BY <1>1, WriteAdds
  <2> QED
    BY <1>0, <2>1
<1>2. CASE \E t \in Threads : Write(t)
  BY <1>0, <1>1, <1>2 DEF TooLarge
<1>3. CASE FilesKept
  BY <1>0, <1>3 DEF FilesKept, TooLarge
<1> QED
  BY <1>2, <1>3, StepWritesOrKeeps

LEMMA StepNames ==
    ASSUME Typed, [Next]_vars
    PROVE  \A f \in Files : name'[0] = f => name[0] = f
<1> USE FilesAssumption
<1>0. 0 \in Slots /\ 1 \in Slots /\ None \notin Files
  <2>1. Files \subseteq Nat
    <3>1. Files = 1 .. Len(content) /\ Len(content) \in Nat
      BY LenProperties DEF Files, Typed, FilesTyped
    <3> QED
      BY <3>1
  <2>2. Backups \in Nat
    OBVIOUS
  <2>3. 0 \in Slots /\ 1 \in Slots
    BY <2>2 DEF Slots
  <2>4. None \notin Files
    BY <2>1
  <2> QED
    BY <2>3, <2>4
<1>a. ASSUME OpenLog
      PROVE  \A f \in Files : name'[0] = f => name[0] = f
  BY <1>a, OpenLogOpens
<1>1. ASSUME NEW t \in Threads, PrepareLogFd(t) \/ PrepareLogFdOpens(t)
      PROVE  \A f \in Files : name'[0] = f => name[0] = f
  BY <1>1, <1>a DEF PrepareLogFd, PrepareLogFdOpens, fileVars
<1>2. ASSUME NEW t \in Threads, Failure(t)
      PROVE  \A f \in Files : name'[0] = f => name[0] = f
  BY <1>2 DEF Failure, WriteFails, LockFails, ReopenFails, ShiftBackupFails, RotateCurrentFails,
              OpenNewFails, fileVars
<1>3. ASSUME NEW t \in Threads, WriteLog(t), ~ShiftBackup(t), ~RotateCurrent(t)
      PROVE  \A f \in Files : name'[0] = f => name[0] = f
  BY <1>3, <1>a DEF WriteLog, Write, Measure, Lock, Reopen, MeasureNew, OpenNew, Switch, fileVars
<1>4. ASSUME NEW t \in Threads, ShiftBackup(t)
      PROVE  \A f \in Files : name'[0] = f => name[0] = f
  <2>1. shift[t] \in 2 .. Backups - 1 /\ Backups \in Nat
    BY <1>4 DEF ShiftBackup, Typed, ThreadsTyped
  <2>2. /\ shift[t] - 1 \in Slots /\ shift[t] \in Slots /\ shift[t] - 1 # shift[t]
        /\ 0 \notin {shift[t] - 1, shift[t]}
    BY <2>1 DEF Slots
  <2>3. name'[0] = name[0]
    BY <1>0, <1>4, <2>2, RenameMoves DEF ShiftBackup
  <2> QED
    BY <2>3
<1>5. ASSUME NEW t \in Threads, RotateCurrent(t)
      PROVE  \A f \in Files : name'[0] = f => name[0] = f
  <2>1. name'[0] = None
    <3>1. CASE Backups = 0
      BY <1>5, <1>0, <3>1 DEF RotateCurrent, Typed, FilesTyped
    <3>2. CASE Backups # 0
      BY <1>5, <1>0, <3>2, RenameMoves DEF RotateCurrent
    <3> QED
      BY <3>1, <3>2
  <2> QED
    BY <2>1, <1>0
<1>6. ASSUME NEW p \in Processes, Crash(p) \/ Construct(p)
      PROVE  \A f \in Files : name'[0] = f => name[0] = f
  BY <1>6, <1>a DEF Crash, Construct
<1>7. ASSUME UNCHANGED vars
      PROVE  \A f \in Files : name'[0] = f => name[0] = f
  BY <1>7 DEF vars, fileVars
<1> QED
  BY <1>1, <1>2, <1>3, <1>4, <1>5, <1>6, <1>7 DEF Next

-----------------------------------------------------------------------------
(* No file outgrows its bound *)

\* A thread goes for the lock file because its file is too large; the file it opens
\* then is this one, or log names another.
PassingOf(t) ==
    /\ pc[t] \in {"lock"} \cup Section => TooLarge(fd[t])
    /\ pc[t] = "measureNew" /\ newFd[t] # fd[t] => name[0] # fd[t]
Passing == \A t \in Threads : PassingOf(t)

LEMMA PassingNext == Typed /\ Counted /\ Passing /\ [Next]_vars => Passing'
<1> SUFFICES ASSUME Typed, Counted, Passing, [Next]_vars, NEW u \in Threads
             PROVE  PassingOf(u)'
  BY DEF Passing
<1> USE FilesAssumption, ThreadsAssumption
<1> DEFINE Stays == pc'[u] = pc[u] /\ fd'[u] = fd[u] /\ newFd'[u] = newFd[u]
<1>0. PassingOf(u) /\ (pc[u] # "idle" => fd[u] \in Files) /\ None \notin Files
  <2>1. Files \subseteq Nat
    <3>1. Files = 1 .. Len(content) /\ Len(content) \in Nat
      BY LenProperties DEF Files, Typed, FilesTyped
    <3> QED
      BY <3>1
  <2> QED
    BY <2>1 DEF Passing, Typed, Descriptors
<1>1. /\ pc[u] # "idle" /\ TooLarge(fd[u]) => Len(content'[fd[u]]) > MaxSize
      /\ pc[u] # "idle" /\ name[0] # fd[u] => name'[0] # fd[u]
  BY <1>0, StepGrows, StepNames
<1>2. ASSUME Stays
      PROVE  PassingOf(u)'
  BY <1>0, <1>1, <1>2 DEF PassingOf, TooLarge, Section
<1>3. ASSUME pc'[u] \in {"idle", "write", "measure"}
      PROVE  PassingOf(u)'
  BY <1>3 DEF PassingOf, Section
<1> HIDE DEF Stays
<1>4. ASSUME NEW t \in Threads, PrepareLogFd(t) \/ PrepareLogFdOpens(t)
      PROVE  PassingOf(u)'
  <2>1. Stays \/ pc'[u] = "write"
    BY <1>4 DEF PrepareLogFd, PrepareLogFdOpens, Goto, Typed, ThreadsTyped, Stays
  <2> QED
    BY <2>1, <1>2, <1>3
<1>5. ASSUME NEW t \in Threads, WriteFails(t) \/ ReopenFails(t) \/ Switch(t)
      PROVE  PassingOf(u)'
  <2>1. Stays \/ pc'[u] = "idle"
    BY <1>5 DEF WriteFails, ReopenFails, Switch, Goto, Return, Typed, ThreadsTyped, Stays
  <2> QED
    BY <2>1, <1>2, <1>3
<1>6. ASSUME NEW t \in Threads, Write(t)
      PROVE  PassingOf(u)'
  <2>1. Stays \/ pc'[u] = "measure"
    BY <1>6 DEF Write, Goto, Typed, ThreadsTyped, Stays
  <2> QED
    BY <2>1, <1>2, <1>3
<1>7. ASSUME NEW t \in Threads, Measure(t)
      PROVE  PassingOf(u)'
  <2>1. CASE t # u \/ ~TooLarge(fd[t])
    <3>1. Stays \/ pc'[u] = "idle"
      BY <1>7, <2>1 DEF Measure, Goto, Return, Typed, ThreadsTyped, Stays
    <3> QED
      BY <3>1, <1>2, <1>3
  <2>2. CASE t = u /\ TooLarge(fd[t])
    <3>1. pc[u] = "measure" /\ pc'[u] = "lock" /\ fd'[u] = fd[u]
      BY <1>7, <2>2 DEF Measure, Goto, Typed, ThreadsTyped
    <3> QED
      BY <2>2, <3>1, <1>1 DEF PassingOf, TooLarge, Section
  <2> QED
    BY <2>1, <2>2
<1>8. ASSUME NEW t \in Threads, Lock(t) \/ LockFails(t)
      PROVE  PassingOf(u)'
  <2>1. Stays \/ (pc[u] = "lock" /\ pc'[u] = "reopen" /\ fd'[u] = fd[u])
    BY <1>8 DEF Lock, LockFails, Goto, Typed, ThreadsTyped, Stays
  <2>2. CASE pc[u] = "lock" /\ pc'[u] = "reopen" /\ fd'[u] = fd[u]
    BY <2>2, <1>0, <1>1 DEF PassingOf, TooLarge, Section
  <2> QED
    BY <2>1, <2>2, <1>2
<1>9. ASSUME NEW t \in Threads, Reopen(t)
      PROVE  PassingOf(u)'
  <2>1. CASE t # u
    <3>1. Stays
      BY <1>9, <2>1 DEF Reopen, Goto, Typed, ThreadsTyped, Stays
    <3> QED
      BY <3>1, <1>2
  <2>2. CASE t = u
    <3>1. /\ pc[u] = "reopen" /\ pc'[u] = "measureNew" /\ fd'[u] = fd[u]
          /\ newFd'[u] = Opened /\ name'[0] = Opened
      BY <1>9, <2>2, OpenLogOpens DEF Reopen, Goto, Typed, ThreadsTyped
    <3> QED
      BY <3>1, <1>0, <1>1 DEF PassingOf, TooLarge, Section
  <2> QED
    BY <2>1, <2>2
<1>10. ASSUME NEW t \in Threads, MeasureNew(t)
       PROVE  PassingOf(u)'
  <2>1. CASE t # u
    <3>1. Stays
      BY <1>10, <2>1 DEF MeasureNew, Goto, Typed, ThreadsTyped, Stays
    <3> QED
      BY <3>1, <1>2
  <2>2. CASE t = u
    <3>1. /\ pc[u] = "measureNew" /\ fd'[u] = fd[u] /\ newFd'[u] = newFd[u]
          /\ TooLarge(newFd[u]) => pc'[u] = "rotate"
          /\ ~TooLarge(newFd[u]) => pc'[u] = "switch"
      BY <1>10, <2>2 DEF MeasureNew, Goto, Typed, ThreadsTyped
    <3>2. TooLarge(fd[u])
      BY <3>1, <1>0 DEF PassingOf, Section
    <3>3. CASE TooLarge(newFd[u])
      BY <3>1, <3>2, <3>3, <1>1 DEF PassingOf, TooLarge, Section
    <3>4. CASE ~TooLarge(newFd[u])
      BY <3>1, <3>2, <3>4, <1>1 DEF PassingOf, TooLarge, Section
    <3> QED
      BY <3>3, <3>4
  <2> QED
    BY <2>1, <2>2
<1>11. ASSUME NEW t \in Threads, ShiftBackup(t)
       PROVE  PassingOf(u)'
  <2>1. Stays
    BY <1>11 DEF ShiftBackup, Stays
  <2> QED
    BY <2>1, <1>2
<1>12. ASSUME NEW t \in Threads, RotateCurrent(t)
       PROVE  PassingOf(u)'
  <2>1. CASE t # u
    <3>1. Stays
      BY <1>12, <2>1 DEF RotateCurrent, Goto, Typed, ThreadsTyped, Stays
    <3> QED
      BY <3>1, <1>2
  <2>2. CASE t = u
    <3>1. /\ pc[u] = "rotate" /\ pc'[u] = "openNew" /\ fd'[u] = fd[u]
      BY <1>12, <2>2 DEF RotateCurrent, Goto, Typed, ThreadsTyped
    <3> QED
      BY <3>1, <1>0, <1>1 DEF PassingOf, TooLarge, Section
  <2> QED
    BY <2>1, <2>2
<1>13. ASSUME NEW t \in Threads, OpenNew(t)
       PROVE  PassingOf(u)'
  <2>1. CASE t # u
    <3>1. Stays
      BY <1>13, <2>1 DEF OpenNew, Goto, Typed, ThreadsTyped, Stays
    <3> QED
      BY <3>1, <1>2
  <2>2. CASE t = u
    <3>1. pc[u] = "openNew" /\ pc'[u] = "switch" /\ fd'[u] = fd[u]
      BY <1>13, <2>2 DEF OpenNew, Goto, Typed, ThreadsTyped
    <3> QED
      BY <3>1, <1>0, <1>1 DEF PassingOf, TooLarge, Section
  <2> QED
    BY <2>1, <2>2
<1>14. ASSUME NEW t \in Threads, ShiftBackupFails(t) \/ RotateCurrentFails(t) \/ OpenNewFails(t)
       PROVE  PassingOf(u)'
  <2>1. Stays \/ (pc[u] \in Section /\ pc'[u] \in {"openNew", "switch"} /\ fd'[u] = fd[u])
    BY <1>14 DEF ShiftBackupFails, RotateCurrentFails, OpenNewFails, Goto, Typed, ThreadsTyped,
       Stays, Section
  <2>2. CASE pc[u] \in Section /\ pc'[u] \in {"openNew", "switch"} /\ fd'[u] = fd[u]
    BY <2>2, <1>0, <1>1 DEF PassingOf, TooLarge, Section
  <2> QED
    BY <2>1, <2>2, <1>2
<1>15. ASSUME NEW p \in Processes, Crash(p) \/ Construct(p)
       PROVE  PassingOf(u)'
  <2>1. Stays \/ pc'[u] = "idle"
    BY <1>15 DEF Crash, Construct, threadVars, Stays
  <2> QED
    BY <2>1, <1>2, <1>3
<1>16. ASSUME UNCHANGED vars
       PROVE  PassingOf(u)'
  <2>1. Stays
    BY <1>16 DEF vars, threadVars, Stays
  <2> QED
    BY <2>1, <1>2
<1> QED
  BY <1>4, <1>5, <1>6, <1>7, <1>8, <1>9, <1>10, <1>11, <1>12, <1>13, <1>14, <1>15, <1>16
     DEF Next, WriteLog, Failure

\* A thread that has written to f, and leaves write_log() only when f is not too
\* large, or log names another file and its process has a descriptor of another; not
\* one that could not rename f, which opens it again.
Owes(t, f) ==
    /\ fd[t] = f /\ pc[t] \in {"measure", "lock"} \cup Section
    /\ pc[t] \in {"openNew", "switch"} => name[0] # f
    /\ pc[t] = "switch" => newFd[t] # f

\* A thread that has gone on although the lock file is not its own.
Outside == {t \in Threads : pc[t] \in Section /\ fileLock # t}

\* Where a thread of p may still find f: what p has, what it opens, what it is given.
Attains(p, f) == \/ logFd[p] = f
                 \/ name[0] = f
                 \/ \E u \in Threads : /\ ProcessOf[u] = p /\ fileLock = u
                                       /\ newFd[u] = f /\ pc[u] = "switch"

\* The threads that may add a line to f although it is too large.
MayWrite(f) == {t \in Threads : \/ pc[t] = "write" /\ fd[t] = f
                                \/ ~Owes(t, f) /\ Attains(ProcessOf[t], f)}

\* The threads outside were let out by a failure each; each of the other failures,
\* and the first time f is found too large, are worth one line of each thread.
Spare == 1 + errors - Cardinality(Outside)
Bounded ==
    /\ Cardinality(Outside) <= errors
    /\ \A f \in Files : TooLarge(f) =>
          Len(content[f]) - MaxSize + Cardinality(MayWrite(f)) <= Cardinality(Threads) * Spare

LEMMA Times ==
    \A n, a, b \in Nat : /\ a <= b => n * a <= n * b
                         /\ a < b => n * a + n <= n * b
<1>1. ASSUME NEW n \in Nat, NEW a \in Nat, NEW b \in Nat, a <= b
      PROVE  n * a <= n * b
  <2>1. PICK d \in Nat : b = a + d
    BY <1>1
  <2>2. n * b = n * a + n * d /\ n * d \in Nat /\ n * a \in Nat
    BY <2>1
  <2> QED
    BY <2>2
<1>2. ASSUME NEW n \in Nat, NEW a \in Nat, NEW b \in Nat, a < b
      PROVE  n * a + n <= n * b
  <2>1. n * (a + 1) <= n * b
    BY <1>1, <1>2
  <2> QED
    BY <2>1
<1> QED
  BY <1>1, <1>2

LEMMA SomeThreads ==
    /\ Cardinality(Threads) \in Nat
    /\ \A S \in SUBSET Threads : /\ IsFiniteSet(S) /\ Cardinality(S) \in Nat
                                 /\ Cardinality(S) <= Cardinality(Threads)
    /\ \A S, R \in SUBSET Threads : S \subseteq R => Cardinality(S) <= Cardinality(R)
    /\ \A S \in SUBSET Threads : \A t \in S : Cardinality(S \ {t}) = Cardinality(S) - 1
    /\ \A S \in SUBSET Threads : \A t \in Threads : Cardinality(S \cup {t}) <= Cardinality(S) + 1
<1>0. IsFiniteSet(Threads)
  BY ThreadsAssumption
<1>1. \A S \in SUBSET Threads : IsFiniteSet(S) /\ Cardinality(S) <= Cardinality(Threads)
  BY <1>0, FS_Subset
<1>2. \A S \in SUBSET Threads : Cardinality(S) \in Nat
  BY <1>1, FS_CardinalityType
<1>3. \A S, R \in SUBSET Threads : S \subseteq R => Cardinality(S) <= Cardinality(R)
  BY <1>1, FS_Subset
<1>4. \A S \in SUBSET Threads : \A t \in S : Cardinality(S \ {t}) = Cardinality(S) - 1
  BY <1>1, FS_RemoveElement
<1>5. ASSUME NEW S \in SUBSET Threads, NEW t \in Threads
      PROVE  Cardinality(S \cup {t}) <= Cardinality(S) + 1
  <2>1. IsFiniteSet(S) /\ Cardinality(S) \in Nat
    BY <1>1, <1>2
  <2>2. CASE t \in S
    <3>1. S \cup {t} = S
      BY <2>2
    <3>2. Cardinality(S \cup {t}) = Cardinality(S)
      BY <3>1
    <3> QED
      BY <2>1, <3>2
  <2>3. CASE t \notin S
    <3>1. Cardinality(S \cup {t}) = Cardinality(S) + 1
      BY <2>1, <2>3, FS_AddElement
    <3> QED
      BY <2>1, <3>1
  <2> QED
    BY <2>2, <2>3
<1>6. Cardinality(Threads) \in Nat
  BY <1>0, FS_CardinalityType
<1> QED
  BY <1>1, <1>2, <1>3, <1>4, <1>5, <1>6

LEMMA ReturnOutside ==
    ASSUME Typed, NEW t \in Threads, Return(t)
    PROVE  Outside' \subseteq Outside \ {t}
BY DEF Outside, Typed, ThreadsTyped, Goto, Section, Return

\* A failure of anything but the lock file lets nobody out.
LEMMA FailsInside ==
    ASSUME Typed,
           \/ \E t \in Threads : \/ WriteFails(t) \/ ReopenFails(t) \/ ShiftBackupFails(t)
                                \/ RotateCurrentFails(t) \/ OpenNewFails(t)
           \/ \E p \in Processes : Crash(p)
    PROVE  Outside' \subseteq Outside /\ errors' = errors + 1
<1> USE DEF Outside, Typed, ThreadsTyped, Goto, Section
<1>1. ASSUME NEW t \in Threads, \/ WriteFails(t) \/ ReopenFails(t) \/ ShiftBackupFails(t)
                                 \/ RotateCurrentFails(t) \/ OpenNewFails(t)
      PROVE  Outside' \subseteq Outside /\ errors' = errors + 1
  <2>1. CASE ShiftBackupFails(t) \/ RotateCurrentFails(t) \/ OpenNewFails(t)
    BY <2>1 DEF ShiftBackupFails, RotateCurrentFails, OpenNewFails, fileVars, Fails
  <2>2. CASE WriteFails(t) \/ ReopenFails(t)
    <3>1. Return(t) /\ errors' = errors + 1
      BY <2>2 DEF WriteFails, ReopenFails, Fails
    <3> QED
      BY <3>1, ReturnOutside
  <2> QED
    BY <1>1, <2>1, <2>2
<1>2. ASSUME NEW p \in Processes, Crash(p)
      PROVE  Outside' \subseteq Outside /\ errors' = errors + 1
  <2>1. errors' = errors + 1
    BY <1>2 DEF Crash, Fails
  <2>2. ASSUME NEW u \in Outside'
        PROVE  u \in Outside
    <3>1. u \in Threads /\ pc'[u] \in Section /\ fileLock' # u
      BY <2>2
    <3>2. pc[u] = pc'[u] /\ ProcessOf[u] # p
      BY <1>2, <3>1 DEF Crash
    <3>3. fileLock # u
      BY <1>2, <3>1, <3>2, ThreadsAssumption DEF Crash
    <3> QED
      BY <3>1, <3>2, <3>3
  <2> QED
    BY <2>1, <2>2
<1> QED
  BY <1>1, <1>2

\* A failure lets one thread out, at most; else none comes out.
LEMMA StepOutside ==
    ASSUME Typed, [Next]_vars
    PROVE  \/ Outside' \subseteq Outside /\ errors' = errors
           \/ Outside' \subseteq Outside /\ errors' = errors + 1
           \/ /\ errors' = errors + 1
              /\ \E t \in Threads : LockFails(t) /\ Outside' \subseteq Outside \cup {t}
<1> USE DEF Outside, Typed, ThreadsTyped, Goto, Section
<1>1. ASSUME NEW t \in Threads, PrepareLogFd(t) \/ PrepareLogFdOpens(t)
      PROVE  Outside' \subseteq Outside /\ errors' = errors
  BY <1>1 DEF PrepareLogFd, PrepareLogFdOpens, fileVars
<1>3. ASSUME NEW t \in Threads, WriteLog(t)
      PROVE  Outside' \subseteq Outside /\ errors' = errors
  <2>1. CASE Measure(t) \/ Switch(t)
    <3>1. Return(t) \/ (pc[t] = "measure" /\ Goto(t, "lock") /\ fileLock' = fileLock)
      BY <2>1 DEF Measure, Switch
    <3>2. errors' = errors
      BY <2>1 DEF Measure, Switch
    <3> QED
      BY <3>1, <3>2, ReturnOutside
  <2>2. CASE Lock(t)
    BY <2>2, ThreadsAssumption DEF Lock
  <2>3. CASE Write(t)
    BY <2>3 DEF Write
  <2>4. CASE Reopen(t) \/ MeasureNew(t)
    BY <2>4 DEF Reopen, MeasureNew, fileVars
  <2>5. CASE ShiftBackup(t) \/ RotateCurrent(t) \/ OpenNew(t)
    BY <2>5 DEF ShiftBackup, RotateCurrent, OpenNew
  <2> QED
    BY <1>3, <2>1, <2>2, <2>3, <2>4, <2>5 DEF WriteLog
<1>4. ASSUME NEW t \in Threads, \/ WriteFails(t) \/ ReopenFails(t) \/ ShiftBackupFails(t)
                                 \/ RotateCurrentFails(t) \/ OpenNewFails(t)
      PROVE  Outside' \subseteq Outside /\ errors' = errors + 1
  BY <1>4, FailsInside
<1>5. ASSUME NEW t \in Threads, LockFails(t)
      PROVE  errors' = errors + 1 /\ Outside' \subseteq Outside \cup {t}
  BY <1>5 DEF LockFails, fileVars, Fails
<1>6. ASSUME NEW p \in Processes, Crash(p)
      PROVE  Outside' \subseteq Outside /\ errors' = errors + 1
  BY <1>6, FailsInside
<1>7. ASSUME NEW p \in Processes, Construct(p)
      PROVE  Outside' \subseteq Outside /\ errors' = errors
  BY <1>7 DEF Construct, threadVars
<1>8. ASSUME UNCHANGED vars
      PROVE  Outside' \subseteq Outside /\ errors' = errors
  BY <1>8 DEF vars, fileVars, threadVars
<1> QED
  BY <1>1, <1>3, <1>4, <1>5, <1>6, <1>7, <1>8 DEF Next, Failure

LEMMA NoFile ==
    ASSUME Typed
    PROVE  None \notin Files /\ 0 \in Slots /\ 1 \in Slots
<1> USE FilesAssumption
<1>1. Files = 1 .. Len(content) /\ Len(content) \in Nat
  BY LenProperties DEF Files, Typed, FilesTyped
<1>2. Files \subseteq Nat
  BY <1>1
<1>3. Backups \in Nat
  OBVIOUS
<1>4. 0 \in Slots /\ 1 \in Slots
  BY <1>3 DEF Slots
<1> QED
  BY <1>2, <1>4

LEMMA RotatesCurrent ==
    ASSUME Typed, NEW t \in Threads, RotateCurrent(t)
    PROVE  /\ name'[0] = None /\ content' = content /\ pc[t] = "rotate" /\ pc'[t] = "openNew"
           /\ name' \in [Slots -> Files \cup {None}]
           /\ \A s \in Slots \ {0, 1} : name'[s] = name[s]
           /\ Backups = 0 => name'[1] = name[1]
           /\ Backups # 0 /\ name[0] # None => name'[1] = name[0]
           /\ Backups # 0 /\ name[0] = None => name' = name
<1>1. 0 \in Slots /\ 1 \in Slots /\ 0 # 1
  BY NoFile
<1>2. CASE Backups = 0
  BY <1>1, <1>2 DEF RotateCurrent, Goto, Typed, FilesTyped, ThreadsTyped
<1>3. CASE Backups # 0
  <2>1. Rename(0, 1)
    BY <1>3 DEF RotateCurrent
  <2>2. /\ name' \in [Slots -> Files \cup {None}]
        /\ name'[0] = None
        /\ \A s \in Slots \ {0, 1} : name'[s] = name[s]
        /\ name[0] = None => name' = name
        /\ name[0] # None => name'[1] = name[0]
    BY <1>1, <2>1, RenameMoves
  <2>3. content' = content /\ pc[t] = "rotate" /\ pc'[t] = "openNew"
    BY DEF RotateCurrent, Goto, Typed, ThreadsTyped
  <2> QED
    BY <1>3, <2>2, <2>3
<1> QED
  BY <1>2, <1>3

\* Nobody comes to find f anew, unless through a thread outside.
LEMMA StepAttains ==
    ASSUME Typed, [Next]_vars, NEW f \in Files, TooLarge(f), NEW q, Attains(q, f)'
    PROVE  Attains(q, f) \/ \E t \in Outside : Switch(t)
<1>0. None # f
  BY NoFile
<1>1. name'[0] = f => Attains(q, f)
  BY StepNames DEF Attains
<1>2. ASSUME logFd'[q] = f
      PROVE  Attains(q, f) \/ \E t \in Outside : Switch(t)
  <2>1. CASE logFd'[q] = logFd[q]
    BY <1>2, <2>1 DEF Attains
  <2>2. CASE logFd'[q] # logFd[q]
    <3>1. ASSUME OpenLog, Opened = f
          PROVE  Attains(q, f)
      BY <3>1, <1>1, OpenLogOpens
    <3>2. ASSUME NEW t \in Threads, PrepareLogFdOpens(t)
          PROVE  Attains(q, f)
      BY <3>1, <3>2, <1>2, <2>2 DEF PrepareLogFdOpens, Typed, ThreadsTyped
    <3>3. ASSUME NEW p \in Processes, Construct(p)
          PROVE  Attains(q, f)
      BY <3>1, <3>3, <1>2, <2>2 DEF Construct, Typed, ThreadsTyped
    <3>4. ASSUME NEW p \in Processes, Crash(p)
          PROVE  FALSE
      BY <3>4, <1>0, <1>2, <2>2 DEF Crash, Typed, ThreadsTyped
    <3>5. ASSUME NEW t \in Threads, Switch(t)
          PROVE  Attains(q, f) \/ t \in Outside
      <4>1. ProcessOf[t] = q /\ newFd[t] = f /\ pc[t] = "switch"
        BY <3>5, <1>2, <2>2 DEF Switch, Typed, ThreadsTyped
      <4> QED
        BY <4>1 DEF Attains, Outside, Section
    <3>6. ASSUME NEW t \in Threads, PrepareLogFd(t) \/ Failure(t)
          PROVE  FALSE
      BY <3>6, <2>2 DEF PrepareLogFd, Failure, WriteFails, LockFails, ReopenFails,
         ShiftBackupFails, RotateCurrentFails, OpenNewFails, processVars
    <3>7. ASSUME NEW t \in Threads, WriteLog(t), ~Switch(t)
          PROVE  FALSE
      BY <3>7, <2>2 DEF WriteLog, Write, Measure, Lock, Reopen, MeasureNew, ShiftBackup,
         RotateCurrent, OpenNew, processVars
    <3>8. ~UNCHANGED vars
      BY <2>2 DEF vars, processVars
    <3> QED
      BY <3>2, <3>3, <3>4, <3>5, <3>6, <3>7, <3>8 DEF Next
  <2> QED
    BY <2>1, <2>2
<1>3. ASSUME NEW u \in Threads, ProcessOf[u] = q, fileLock' = u, newFd'[u] = f, pc'[u] = "switch"
      PROVE  Attains(q, f)
  <2> DEFINE Stays == fileLock = u /\ newFd[u] = f /\ pc[u] = "switch"
  <2>1. Stays => Attains(q, f)
    BY <1>3 DEF Attains
  <2> USE <1>3 DEF Goto, Return, Typed, ThreadsTyped
  <2>2. ASSUME NEW t \in Threads, PrepareLogFd(t) \/ PrepareLogFdOpens(t)
        PROVE  Stays
    BY <2>2 DEF PrepareLogFd, PrepareLogFdOpens, fileVars
  <2>3. ASSUME NEW t \in Threads, \/ Write(t) \/ Lock(t) \/ ShiftBackup(t) \/ RotateCurrent(t)
                                  \/ LockFails(t) \/ ShiftBackupFails(t) \/ RotateCurrentFails(t)
        PROVE  Stays
    BY <2>3 DEF Write, Lock, ShiftBackup, RotateCurrent, LockFails, ShiftBackupFails,
       RotateCurrentFails, fileVars
  <2>4. ASSUME NEW t \in Threads, Measure(t) \/ Switch(t) \/ WriteFails(t) \/ ReopenFails(t)
        PROVE  Stays
    <3>1. Return(t) \/ (pc' = [pc EXCEPT ![t] = "lock"] /\ newFd' = newFd /\ fileLock' = fileLock)
      BY <2>4 DEF Measure, Switch, WriteFails, ReopenFails
    <3> QED
      BY <3>1, ThreadsAssumption
  <2>5. ASSUME NEW t \in Threads, Reopen(t)
        PROVE  Stays
    BY <2>5 DEF Reopen
  <2>6. ASSUME NEW t \in Threads, MeasureNew(t)
        PROVE  Stays
    <3>1. t # u
      BY <2>6 DEF MeasureNew
    <3> QED
      BY <2>6, <3>1 DEF MeasureNew, fileVars
  <2>7. ASSUME NEW t \in Threads, OpenNew(t)
        PROVE  Stays \/ name'[0] = f
    BY <2>7, OpenLogOpens DEF OpenNew
  <2>8. ASSUME NEW t \in Threads, OpenNewFails(t)
        PROVE  Stays
    BY <2>8, <1>0 DEF OpenNewFails, fileVars
  <2>9. ASSUME NEW p \in Processes, Crash(p)
        PROVE  Stays
    BY <2>9, ThreadsAssumption DEF Crash
  <2>10. ASSUME NEW p \in Processes, Construct(p)
         PROVE  Stays
    BY <2>10 DEF Construct, threadVars
  <2>11. ASSUME UNCHANGED vars
         PROVE  Stays
    BY <2>11 DEF vars, fileVars, threadVars
  <2> HIDE DEF Stays
  <2> QED
    BY <1>1, <2>1, <2>2, <2>3, <2>4, <2>5, <2>6, <2>7, <2>8, <2>9, <2>10, <2>11
       DEF Next, WriteLog, Failure
<1> QED
  BY <1>1, <1>2, <1>3 DEF Attains

LEMMA StepMayWrite ==
    ASSUME Typed, Counted, Passing, [Next]_vars, NEW f \in Files, TooLarge(f)
    PROVE  \/ MayWrite(f)' \subseteq MayWrite(f)
           \/ \E t \in Outside : Switch(t)
           \/ errors' = errors + 1 /\ Outside' \subseteq Outside
<1> SUFFICES ASSUME ~\E t \in Outside : Switch(t),
                    ~(errors' = errors + 1 /\ Outside' \subseteq Outside),
                    NEW u \in MayWrite(f)'
             PROVE  u \in MayWrite(f)
  OBVIOUS
<1> DEFINE q == ProcessOf[u]
           Late == {"measure", "lock", "reopen", "measureNew", "rotate"}
<1>0. /\ u \in Threads /\ None # f /\ (Attains(q, f)' => Attains(q, f))
      /\ name[0] # f => name'[0] # f
  BY NoFile, StepAttains, StepNames DEF MayWrite
<1>1. (pc'[u] = "write" /\ fd'[u] = f) \/ (~Owes(u, f)' /\ Attains(q, f)')
  BY DEF MayWrite
<1>2. ASSUME pc'[u] = pc[u], fd'[u] = fd[u], pc[u] = "switch" => newFd'[u] = newFd[u]
      PROVE  u \in MayWrite(f)
  <2>1. Owes(u, f) => Owes(u, f)'
    BY <1>0, <1>2 DEF Owes
  <2> QED
    BY <1>0, <1>1, <1>2, <2>1 DEF MayWrite
<1>3. ASSUME pc'[u] \in Late, fd'[u] = fd[u]
      PROVE  u \in MayWrite(f)
  <2>1. pc'[u] # "write" /\ (fd[u] = f => Owes(u, f)')
    BY <1>3 DEF Owes, Section
  <2>2. fd[u] # f /\ Attains(q, f)
    BY <1>0, <1>1, <2>1
  <2> QED
    BY <1>0, <2>2 DEF MayWrite, Owes
<1>4. ASSUME pc[u] = "idle", Attains(q, f)
      PROVE  u \in MayWrite(f)
  BY <1>0, <1>4 DEF MayWrite, Owes, Section
<1> HIDE DEF Late
<1>5. ASSUME NEW t \in Threads, PrepareLogFd(t)
      PROVE  u \in MayWrite(f)
  <2>1. CASE t = u
    <3>1. pc[u] = "idle" /\ fd'[u] = logFd[q] /\ pc'[u] = "write"
      BY <1>5, <2>1 DEF PrepareLogFd, Goto, Typed, ThreadsTyped
    <3>2. Attains(q, f)
      BY <1>0, <1>1, <3>1 DEF Attains
    <3> QED
      BY <3>1, <3>2, <1>4
  <2>2. CASE t # u
    BY <1>0, <1>2, <1>5, <2>2 DEF PrepareLogFd, Goto, Typed, ThreadsTyped
  <2> QED
    BY <2>1, <2>2
<1>6. ASSUME NEW t \in Threads, PrepareLogFdOpens(t)
      PROVE  u \in MayWrite(f)
  <2>1. CASE t = u
    <3>1. pc[u] = "idle" /\ fd'[u] = Opened /\ pc'[u] = "write" /\ OpenLog
      BY <1>6, <2>1 DEF PrepareLogFdOpens, Goto, Typed, ThreadsTyped
    <3>2. Opened = f => name[0] = f
      BY <3>1, OpenLogOpens
    <3>3. Attains(q, f)
      BY <1>0, <1>1, <3>1, <3>2 DEF Attains
    <3> QED
      BY <3>1, <3>3, <1>4
  <2>2. CASE t # u
    BY <1>0, <1>2, <1>6, <2>2 DEF PrepareLogFdOpens, Goto, Typed, ThreadsTyped
  <2> QED
    BY <2>1, <2>2
<1>7. ASSUME NEW t \in Threads, Return(t), t # u \/ ~Owes(t, f)
      PROVE  u \in MayWrite(f)
  <2>1. CASE t # u
    BY <1>0, <1>2, <1>7, <2>1 DEF Return, Goto, Typed, ThreadsTyped
  <2>2. CASE t = u
    <3>1. pc'[u] = "idle"
      BY <1>7, <2>2 DEF Return, Goto, Typed, ThreadsTyped
    <3>2. Attains(q, f)
      BY <1>0, <1>1, <3>1
    <3> QED
      BY <1>0, <1>7, <2>2, <3>2 DEF MayWrite
  <2> QED
    BY <2>1, <2>2
<1>8. ASSUME NEW t \in Threads, Measure(t)
      PROVE  u \in MayWrite(f)
  <2>1. CASE TooLarge(fd[t])
    <3>1. fd' = fd /\ newFd' = newFd /\ (pc'[u] = pc[u] \/ pc'[u] = "lock")
      BY <1>0, <1>8, <2>1 DEF Measure, Goto, Typed, ThreadsTyped
    <3> QED
      BY <3>1, <1>2, <1>3 DEF Late
  <2>2. CASE ~TooLarge(fd[t])
    <3>1. Return(t) /\ ~Owes(t, f)
      BY <1>8, <2>2 DEF Measure, Owes
    <3> QED
      BY <3>1, <1>7
  <2> QED
    BY <2>1, <2>2
<1>9. ASSUME NEW t \in Threads, Switch(t)
      PROVE  u \in MayWrite(f)
  <2>1. Return(t) /\ pc[t] = "switch" /\ fileLock = t
    BY <1>9 DEF Switch, Outside, Section
  <2>2. CASE t = u /\ Owes(u, f)
    <3>1. name[0] # f /\ newFd[u] # f
      BY <2>1, <2>2 DEF Owes
    <3>2. logFd'[q] # f
      BY <1>0, <1>9, <2>2, <3>1, ThreadsAssumption DEF Switch, Typed, ThreadsTyped
    <3>3. fileLock' = None /\ pc'[u] = "idle" /\ name' = name
      BY <1>9, <2>1, <2>2 DEF Switch, Return, Goto, Typed, ThreadsTyped
    <3>4. ~Attains(q, f)'
      BY <3>1, <3>2, <3>3, ThreadsAssumption DEF Attains
    <3> QED
      BY <1>1, <3>3, <3>4
  <2>3. CASE ~(t = u /\ Owes(u, f))
    BY <1>7, <2>1, <2>3
  <2> QED
    BY <2>2, <2>3
<1>10. ASSUME NEW t \in Threads, Write(t) \/ Lock(t) \/ Reopen(t) \/ ShiftBackup(t) \/ LockFails(t)
       PROVE  u \in MayWrite(f)
  <2>1. fd' = fd /\ (pc'[u] \in Late \/ (pc'[u] = pc[u] /\ newFd'[u] = newFd[u]))
    BY <1>0, <1>10 DEF Write, Lock, Reopen, ShiftBackup, LockFails, Goto, Typed, ThreadsTyped, Late
  <2> QED
    BY <2>1, <1>2, <1>3
\* The thread finds that log names another file, rotates it, or opens another.
<1>11. ASSUME NEW t \in Threads, MeasureNew(t) \/ RotateCurrent(t) \/ OpenNew(t)
       PROVE  u \in MayWrite(f)
  <2>1. CASE t # u
    <3>1. fd' = fd /\ pc'[u] = pc[u] /\ newFd'[u] = newFd[u]
      BY <1>0, <1>11, <2>1 DEF MeasureNew, RotateCurrent, OpenNew, Goto, Typed, ThreadsTyped
    <3> QED
      BY <3>1, <1>2
  <2>2. CASE t = u /\ fd[u] # f
    <3>1. pc'[u] # "write" /\ fd' = fd
      BY <1>0, <1>11, <2>2 DEF MeasureNew, RotateCurrent, OpenNew, Goto, Typed, ThreadsTyped
    <3>2. Attains(q, f)
      BY <1>0, <1>1, <3>1
    <3> QED
      BY <1>0, <2>2, <3>2 DEF MayWrite, Owes
  <2>3. CASE t = u /\ fd[u] = f /\ MeasureNew(u)
    <3>1. /\ pc[u] = "measureNew" /\ fd'[u] = fd[u] /\ newFd'[u] = newFd[u] /\ name' = name
          /\ TooLarge(newFd[u]) => pc'[u] = "rotate"
          /\ ~TooLarge(newFd[u]) => pc'[u] = "switch"
      BY <1>0, <2>3 DEF MeasureNew, Goto, Typed, ThreadsTyped, fileVars
    <3>2. TooLarge(newFd[u]) => pc'[u] \in Late
      BY <3>1 DEF Late
    <3>3. ~TooLarge(newFd[u]) => newFd[u] # f /\ name[0] # f
      BY <1>0, <2>3, <3>1 DEF Passing, PassingOf
    <3>4. ~TooLarge(newFd[u]) => Owes(u, f)' /\ pc'[u] # "write"
      BY <2>3, <3>1, <3>3 DEF Owes, Section
    <3> QED
      BY <1>1, <1>3, <3>1, <3>2, <3>4
  <2>4. CASE t = u /\ fd[u] = f /\ RotateCurrent(u)
    <3>1. name'[0] = None /\ pc'[u] = "openNew" /\ fd' = fd
      BY <2>4, RotatesCurrent DEF RotateCurrent
    <3>2. Owes(u, f)' /\ pc'[u] # "write"
      BY <1>0, <2>4, <3>1 DEF Owes, Section
    <3> QED
      BY <1>1, <3>2
  <2>5. CASE t = u /\ fd[u] = f /\ OpenNew(u)
    <3>1. /\ pc[u] = "openNew" /\ pc'[u] = "switch" /\ fd' = fd
          /\ newFd'[u] = Opened /\ OpenLog
      BY <1>0, <2>5 DEF OpenNew, Goto, Typed, ThreadsTyped
    <3>2. name'[0] = Opened
      BY <3>1, OpenLogOpens
    <3>3. name[0] # f => Owes(u, f)'
      BY <1>0, <2>5, <3>1, <3>2 DEF Owes, Section
    <3>4. name[0] = f /\ Attains(q, f)
      BY <1>0, <1>1, <3>1, <3>3
    <3> QED
      BY <1>0, <3>1, <3>4 DEF MayWrite, Owes
  <2> QED
    BY <1>11, <2>1, <2>2, <2>3, <2>4, <2>5
<1>12. ASSUME NEW p \in Processes, Construct(p)
       PROVE  u \in MayWrite(f)
  BY <1>2, <1>12 DEF Construct, threadVars
<1>13. ASSUME UNCHANGED vars
       PROVE  u \in MayWrite(f)
  BY <1>2, <1>13 DEF vars, threadVars
<1>14. ASSUME NEW t \in Threads, \/ WriteFails(t) \/ ReopenFails(t) \/ ShiftBackupFails(t)
                                  \/ RotateCurrentFails(t) \/ OpenNewFails(t)
       PROVE  FALSE
  BY <1>14, FailsInside
<1>15. ASSUME NEW p \in Processes, Crash(p)
       PROVE  FALSE
  BY <1>15, FailsInside
<1> QED
  BY <1>5, <1>6, <1>8, <1>9, <1>10, <1>11, <1>12, <1>13, <1>14, <1>15 DEF Next, WriteLog, Failure

LEMMA BoundedNext == Typed /\ Counted /\ Passing /\ Bounded /\ [Next]_vars => Bounded'
<1> SUFFICES ASSUME Typed, Counted, Passing, Bounded, [Next]_vars
             PROVE  Bounded'
  OBVIOUS
<1> USE FilesAssumption
<1> DEFINE T == Cardinality(Threads)
           k == Cardinality(Outside)
           k1 == Cardinality(Outside')
           e1 == errors'
           s == 1 + errors - k
           s1 == 1 + e1 - k1
<1>1. /\ T \in Nat /\ k \in Nat /\ k1 \in Nat /\ errors \in Nat
      /\ Outside \subseteq Threads /\ Outside' \subseteq Threads
  <2>1. errors \in Nat
    BY ErrorsAssumption DEF Typed, ThreadsTyped
  <2>2. Outside \subseteq Threads /\ Outside' \subseteq Threads
    BY DEF Outside
  <2> QED
    BY <2>1, <2>2, SomeThreads
<1>2. k <= errors /\ s \in Nat /\ s >= 1
  <2>1. k <= errors
    BY DEF Bounded
  <2> HIDE DEF k
  <2> QED
    BY <1>1, <2>1
<1>3. \/ k1 <= k /\ e1 = errors
      \/ k1 <= k /\ e1 = errors + 1
      \/ k1 <= k + 1 /\ e1 = errors + 1
  <2>1. Outside' \subseteq Outside => k1 <= k
    BY <1>1, SomeThreads
  <2>2. ASSUME NEW t \in Threads, Outside' \subseteq Outside \cup {t}
        PROVE  k1 <= k + 1
    <3> DEFINE k2 == Cardinality(Outside \cup {t})
    <3>1. k2 \in Nat /\ k1 <= k2 /\ k2 <= k + 1
      BY <1>1, <2>2, SomeThreads
    <3> HIDE DEF k, k1, k2
    <3> QED
      BY <3>1, <1>1
  <2> HIDE DEF k, k1
  <2> QED
    BY <2>1, <2>2, StepOutside
<1>4. k1 <= e1 /\ s1 \in Nat /\ s1 >= s /\ e1 \in Nat
  <2> HIDE DEF k, k1, e1
  <2> QED
    BY <1>1, <1>2, <1>3
<1>5. T * s \in Nat /\ T * s1 \in Nat /\ T * s <= T * s1 /\ (s < s1 => T * s + T <= T * s1)
  <2> HIDE DEF s, s1, T
  <2> QED
    BY <1>1, <1>2, <1>4, Times
<1>6. T <= T * s
  <2>1. T * 1 <= T * s
    <3> HIDE DEF s, T
    <3> QED
      BY <1>1, <1>2, Times
  <2>2. T * 1 = T
    <3> HIDE DEF T
    <3> QED
      BY <1>1
  <2> QED
    BY <2>1, <2>2
<1>7. ASSUME NEW f \in Files', TooLarge(f)'
      PROVE  Len(content'[f]) - MaxSize + Cardinality(MayWrite(f)') <= T * s1
  <2> DEFINE l == Len(content[f])
             l1 == Len(content'[f])
             m == Cardinality(MayWrite(f))
             m1 == Cardinality(MayWrite(f)')
  <2>1. /\ MayWrite(f) \subseteq Threads /\ MayWrite(f)' \subseteq Threads
        /\ m \in Nat /\ m1 \in Nat /\ m1 <= T
    <3>1. MayWrite(f) \subseteq Threads /\ MayWrite(f)' \subseteq Threads
      BY DEF MayWrite
    <3> QED
      BY <3>1, SomeThreads
  <2>2. f \in Files
    <3>1. l1 > MaxSize
      BY <1>7 DEF TooLarge
    <3>2. content'[f] # <<>>
      BY <3>1
    <3> QED
      BY <3>2, StepGrows
  <2>3. l \in Nat /\ l1 \in Nat
    BY <2>2, StepGrows
  <2>4. TooLarge(f) => l - MaxSize + m <= T * s
    BY <2>2 DEF Bounded, Spare
  <2>5. ASSUME NEW t \in Threads, Write(t), f = fd[t]
        PROVE  l1 - MaxSize + m1 <= T * s1
    <3>1. l1 = l + 1
      BY <2>5, WriteAdds
    <3>2. t \in MayWrite(f) /\ t \notin MayWrite(f)'
      <4>1. pc[t] = "write" /\ pc'[t] = "measure" /\ fd'[t] = f
        BY <2>5 DEF Write, Goto, Typed, ThreadsTyped
      <4> QED
        BY <4>1, <2>5 DEF MayWrite, Owes
    <3>3. CASE TooLarge(f)
      <4>1. MayWrite(f)' \subseteq MayWrite(f)
        <5>1. ASSUME NEW u \in Threads, Switch(u)
              PROVE  FALSE
          BY <2>5, <5>1 DEF Switch, Write, Goto, Return, Typed, ThreadsTyped
        <5>2. errors' = errors
          BY <2>5 DEF Write
        <5>3. errors' # errors + 1 /\ Outside \subseteq Threads
          BY <5>2, <1>1
        <5> QED
          BY <2>2, <3>3, <5>1, <5>3, StepMayWrite
      <4>2. MayWrite(f)' \subseteq MayWrite(f) \ {t}
        BY <3>2, <4>1
      <4>3. m1 <= m - 1
        <5>1. Cardinality(MayWrite(f) \ {t}) = m - 1
          BY <2>1, <3>2, SomeThreads
        <5>2. m1 <= Cardinality(MayWrite(f) \ {t})
          BY <2>1, <4>2, SomeThreads
        <5> QED
          BY <5>1, <5>2
      <4> DEFINE a == T * s
                 b == T * s1
      <4>4. a \in Nat /\ b \in Nat /\ a <= b /\ l - MaxSize + m <= a
        BY <1>5, <2>4, <3>3
      <4> HIDE DEF a, b, l, l1, m, m1
      <4>5. l1 - MaxSize + m1 <= b
        BY <2>1, <2>3, <3>1, <4>3, <4>4
      <4> QED
        BY <4>5 DEF b
    <3>4. CASE ~TooLarge(f)
      <4>1. l <= MaxSize
        BY <2>3, <3>4 DEF TooLarge
      <4>2. m1 <= T - 1
        <5>1. MayWrite(f)' \subseteq Threads \ {t}
          BY <2>1, <3>2
        <5>2. m1 <= Cardinality(Threads \ {t})
          BY <5>1, SomeThreads
        <5>3. Cardinality(Threads \ {t}) = T - 1
          BY SomeThreads
        <5> QED
          BY <5>2, <5>3
      <4> DEFINE a == T * s
                 b == T * s1
      <4>4. a \in Nat /\ b \in Nat /\ a <= b /\ T <= a
        BY <1>5, <1>6
      <4> HIDE DEF a, b, l, l1, m, m1, T
      <4>5. l1 - MaxSize + m1 <= b
        BY <1>1, <2>1, <2>3, <3>1, <4>1, <4>2, <4>4
      <4> QED
        BY <4>5 DEF b
    <3> QED
      BY <3>3, <3>4
  <2>6. CASE ~\E t \in Threads : Write(t) /\ f = fd[t]
    <3>1. l1 = l /\ TooLarge(f)
      <4>1. ASSUME NEW t \in Threads, Write(t)
            PROVE  l1 = l
        BY <2>2, <2>6, <4>1, WriteAdds
      <4>2. FilesKept => l1 = l
        BY <2>2 DEF FilesKept
      <4>3. l1 = l
        BY <4>1, <4>2, StepWritesOrKeeps
      <4> QED
        BY <4>3, <1>7 DEF TooLarge
    <3>2. m1 <= m \/ s < s1
      <4>1. CASE MayWrite(f)' \subseteq MayWrite(f)
        BY <2>1, <4>1, SomeThreads
      <4>2. CASE \E t \in Outside : Switch(t)
        <5>1. PICK t \in Outside : Switch(t)
          BY <4>2
        <5>2. t \in Threads /\ Return(t) /\ e1 = errors
          BY <5>1, <1>1 DEF Switch
        <5>3. Outside' \subseteq Outside \ {t}
          BY <5>2, ReturnOutside
        <5>4. k1 <= k - 1
          <6>1. Cardinality(Outside \ {t}) = k - 1
            BY <5>1, <1>1, SomeThreads
          <6>2. k1 <= Cardinality(Outside \ {t})
            BY <5>3, <1>1, SomeThreads
          <6> QED
            BY <6>1, <6>2
        <5> HIDE DEF k, k1, e1
        <5> QED
          BY <5>2, <5>4, <1>1
      <4>3. CASE errors' = errors + 1 /\ Outside' \subseteq Outside
        <5>1. k1 <= k /\ e1 = errors + 1
          BY <4>3, <1>1, SomeThreads
        <5> HIDE DEF k, k1, e1
        <5> QED
          BY <5>1, <1>1
      <4> QED
        BY <4>1, <4>2, <4>3, <2>2, <3>1, StepMayWrite
    <3> DEFINE a == T * s
               b == T * s1
    <3>3. a \in Nat /\ b \in Nat /\ a <= b /\ l - MaxSize + m <= a /\ (s < s1 => a + T <= b)
      BY <1>5, <2>4, <3>1
    <3> HIDE DEF a, b, l, l1, m, m1, T, s, s1
    <3>4. l1 - MaxSize + m1 <= b
      BY <1>1, <2>1, <2>3, <3>1, <3>2, <3>3
    <3> QED
      BY <3>4 DEF b, l1, m1
  <2> QED
    BY <2>5, <2>6
<1> QED
  BY <1>4, <1>7 DEF Bounded, Spare

-----------------------------------------------------------------------------
(* While the lock file can be locked: one thread at a time rotates *)

Excl == \A t \in Threads : pc[t] \in Section => fileLock = t

LEMMA StepLocked ==
    ASSUME [Next]_vars, ~unlocked'
    PROVE  ~unlocked /\ \A t \in Threads : ~LockFails(t)
<1>1. \A t \in Threads : ~LockFails(t)
  BY DEF LockFails
<1>2. ASSUME NEW t \in Threads, PrepareLogFd(t) \/ PrepareLogFdOpens(t) \/ WriteLog(t)
      PROVE  unlocked' = unlocked
  BY <1>2 DEF PrepareLogFd, PrepareLogFdOpens, WriteLog, Write, Measure, Lock, Reopen, MeasureNew,
     ShiftBackup, RotateCurrent, OpenNew, Switch
<1>3. ASSUME NEW t \in Threads, Failure(t)
      PROVE  unlocked' = unlocked
  BY <1>1, <1>3 DEF Failure, WriteFails, ReopenFails, ShiftBackupFails, RotateCurrentFails,
     OpenNewFails
<1>4. ASSUME NEW p \in Processes, Crash(p) \/ Construct(p)
      PROVE  unlocked' = unlocked
  BY <1>4 DEF Crash, Construct
<1>5. UNCHANGED vars => unlocked' = unlocked
  BY DEF vars
<1>6. unlocked' = unlocked
  BY <1>2, <1>3, <1>4, <1>5 DEF Next
<1> QED
  BY <1>1, <1>6

LEMMA ExclNext ==
    ASSUME Typed, Excl, [Next]_vars, ~unlocked'
    PROVE  Excl'
<1>1. \A t \in Threads : ~LockFails(t)
  BY StepLocked
<1>2. Outside = {}
  BY DEF Excl, Outside
<1>3. Outside' = {}
  BY <1>1, <1>2, StepOutside
<1> QED
  BY <1>3 DEF Excl, Outside

-----------------------------------------------------------------------------
(* log names the newest file, or nothing when that one is full *)

CurrentOf(t) ==
    /\ pc[t] \in {"measureNew", "rotate"} => newFd[t] = name[0]
    /\ pc[t] = "switch" /\ newFd[t] # None => newFd[t] = name[0]
    /\ pc[t] = "rotate" => TooLarge(newFd[t])
Current ==
    /\ name[0] # None => name[0] = Len(content)
    /\ \A f \in Files : f # name[0] => TooLarge(f)
    /\ \A t \in Threads : CurrentOf(t)

\* What a step may do to the files.
LEMMA StepFiles ==
    ASSUME [Next]_vars
    PROVE  \/ OpenLog
           \/ \E t \in Threads : Write(t) \/ ShiftBackup(t) \/ RotateCurrent(t)
           \/ name' = name /\ content' = content
<1>1. ASSUME NEW t \in Threads, PrepareLogFd(t) \/ PrepareLogFdOpens(t)
      PROVE  OpenLog \/ (name' = name /\ content' = content)
  BY <1>1 DEF PrepareLogFd, PrepareLogFdOpens, fileVars
<1>2. ASSUME NEW t \in Threads, WriteLog(t), ~Write(t), ~ShiftBackup(t), ~RotateCurrent(t)
      PROVE  OpenLog \/ (name' = name /\ content' = content)
  BY <1>2 DEF WriteLog, Measure, Lock, Reopen, MeasureNew, OpenNew, Switch, fileVars
<1>3. ASSUME NEW t \in Threads, Failure(t)
      PROVE  name' = name /\ content' = content
  BY <1>3 DEF Failure, WriteFails, LockFails, ReopenFails, ShiftBackupFails, RotateCurrentFails,
              OpenNewFails, fileVars
<1>4. ASSUME NEW p \in Processes, Crash(p) \/ Construct(p)
      PROVE  OpenLog \/ (name' = name /\ content' = content)
  BY <1>4 DEF Crash, Construct
<1>5. UNCHANGED vars => name' = name /\ content' = content
  BY DEF vars, fileVars
<1> QED
  BY <1>1, <1>2, <1>3, <1>4, <1>5 DEF Next

LEMMA ShiftsOld ==
    ASSUME Typed, NEW t \in Threads, ShiftBackup(t)
    PROVE  LET s == shift[t]
           IN  /\ s \in Nat /\ s > 1 /\ s <= Backups - 1 /\ Backups \in Nat
               /\ s \in Slots /\ s - 1 \in Slots /\ s # s - 1 /\ 0 # s /\ 0 # s - 1
               /\ name'[0] = name[0] /\ content' = content /\ pc[t] = "rotate"
               /\ name' \in [Slots -> Files \cup {None}]
               /\ name'[s - 1] = None
               /\ \A r \in Slots \ {s - 1, s} : name'[r] = name[r]
               /\ name[s - 1] = None => name' = name
               /\ name[s - 1] # None => name'[s] = name[s - 1]
               /\ shift' = [shift EXCEPT ![t] = s - 1] /\ pc' = pc
<1> USE FilesAssumption
<1> DEFINE s == shift[t]
<1>1. s \in {0} \cup (-1 .. Backups - 1) /\ s > 1 /\ Backups \in Nat
  BY DEF ShiftBackup, Typed, ThreadsTyped
<1>2. /\ s \in Nat /\ s > 1 /\ s <= Backups - 1 /\ Backups \in Nat
      /\ s \in Slots /\ s - 1 \in Slots /\ s # s - 1 /\ 0 # s /\ 0 # s - 1
      /\ 0 \in Slots
  <2> HIDE DEF s
  <2> QED
    BY <1>1 DEF Slots
<1>3. Rename(s - 1, s)
  BY DEF ShiftBackup
<1>4. /\ name' \in [Slots -> Files \cup {None}]
      /\ name'[s - 1] = None
      /\ \A r \in Slots \ {s - 1, s} : name'[r] = name[r]
      /\ name[s - 1] = None => name' = name
      /\ name[s - 1] # None => name'[s] = name[s - 1]
  <2> HIDE DEF s
  <2> QED
    BY <1>2, <1>3, RenameMoves
<1>5. name'[0] = name[0]
  <2> HIDE DEF s
  <2> QED
    BY <1>2, <1>4
<1>6. content' = content /\ pc[t] = "rotate" /\ shift' = [shift EXCEPT ![t] = s - 1] /\ pc' = pc
  BY DEF ShiftBackup
<1> QED
  BY <1>2, <1>4, <1>5, <1>6

LEMMA StepNewFd ==
    ASSUME Typed, [Next]_vars, NEW u \in Threads, pc'[u] \in {"measureNew", "rotate", "switch"}
    PROVE  \/ pc'[u] = pc[u] /\ newFd'[u] = newFd[u]
           \/ Reopen(u) \/ MeasureNew(u) \/ OpenNew(u) \/ OpenNewFails(u)
<1> DEFINE Stays == pc'[u] = pc[u] /\ newFd'[u] = newFd[u]
<1> USE DEF Goto, Return, Typed, ThreadsTyped
<1>1. ASSUME NEW t \in Threads, PrepareLogFd(t) \/ PrepareLogFdOpens(t)
      PROVE  Stays
  BY <1>1 DEF PrepareLogFd, PrepareLogFdOpens
<1>2. ASSUME NEW t \in Threads, \/ Write(t) \/ Measure(t) \/ Lock(t) \/ Switch(t)
                                 \/ RotateCurrent(t) \/ RotateCurrentFails(t)
      PROVE  Stays
  BY <1>2 DEF Write, Measure, Lock, Switch, RotateCurrent, RotateCurrentFails
<1>3. ASSUME NEW t \in Threads, WriteFails(t) \/ LockFails(t) \/ ReopenFails(t)
      PROVE  Stays
  BY <1>3 DEF WriteFails, LockFails, ReopenFails
<1>4. ASSUME NEW t \in Threads, t # u, Reopen(t) \/ MeasureNew(t) \/ OpenNew(t) \/ OpenNewFails(t)
      PROVE  Stays
  BY <1>4 DEF Reopen, MeasureNew, OpenNew, OpenNewFails
<1>5. ASSUME NEW t \in Threads, ShiftBackup(t) \/ ShiftBackupFails(t)
      PROVE  Stays
  BY <1>5 DEF ShiftBackup, ShiftBackupFails
<1>6. ASSUME NEW p \in Processes, Crash(p) \/ Construct(p)
      PROVE  Stays
  BY <1>6 DEF Crash, Construct, threadVars
<1>7. UNCHANGED vars => Stays
  BY DEF vars, threadVars
<1> HIDE DEF Stays, Typed
<1>8. Stays \/ Reopen(u) \/ MeasureNew(u) \/ OpenNew(u) \/ OpenNewFails(u)
  BY <1>1, <1>2, <1>3, <1>4, <1>5, <1>6, <1>7 DEF Next, WriteLog, Failure
<1> QED
  BY <1>8 DEF Stays

LEMMA CurrentNext ==
    ASSUME Typed, Counted, Excl, Current, [Next]_vars, ~unlocked'
    PROVE  Current'
<1>0. /\ Excl'
      /\ 0 \in Slots /\ None \notin Files
      /\ Files = 1 .. Len(content) /\ Len(content) \in Nat
      /\ \A f \in Files : TooLarge(f) => Len(content'[f]) > MaxSize
  <2>1. Files = 1 .. Len(content) /\ Len(content) \in Nat
    BY LenProperties DEF Files, Typed, FilesTyped
  <2> QED
    BY <2>1, ExclNext, NoFile, StepGrows
<1>1. /\ name'[0] # None => name'[0] = Len(content')
      /\ \A f \in Files' : f # name'[0] => TooLarge(f)'
  <2>1. CASE OpenLog
    <3>1. CASE name[0] # None
      BY <2>1, <3>1, OpenLogOpens DEF Current, TooLarge, Files
    <3>2. CASE name[0] = None
      <4>1. /\ name'[0] = Len(content') /\ Files' = Files \cup {name'[0]}
            /\ \A f \in Files : content'[f] = content[f]
        BY <2>1, <3>2, OpenLogOpens
      <4>2. \A f \in Files : TooLarge(f)
        BY <1>0, <3>2 DEF Current
      <4> QED
        BY <4>1, <4>2 DEF TooLarge
    <3> QED
      BY <3>1, <3>2
  <2>2. ASSUME NEW t \in Threads, Write(t)
        PROVE  /\ name'[0] # None => name'[0] = Len(content')
               /\ \A f \in Files' : f # name'[0] => TooLarge(f)'
    <3>1. name' = name /\ Files' = Files /\ Len(content') = Len(content)
      BY <2>2, WriteAdds DEF Write
    <3> QED
      BY <3>1, <1>0 DEF Current, TooLarge
  <2>3. ASSUME NEW t \in Threads, ShiftBackup(t)
        PROVE  /\ name'[0] # None => name'[0] = Len(content')
               /\ \A f \in Files' : f # name'[0] => TooLarge(f)'
    BY <2>3, ShiftsOld DEF Current, TooLarge, Files
  <2>4. ASSUME NEW t \in Threads, RotateCurrent(t)
        PROVE  /\ name'[0] # None => name'[0] = Len(content')
               /\ \A f \in Files' : f # name'[0] => TooLarge(f)'
    <3>1. name'[0] = None /\ content' = content /\ pc[t] = "rotate"
      BY <2>4, RotatesCurrent
    <3>2. name[0] \in Files => TooLarge(name[0])
      BY <3>1 DEF Current, CurrentOf
    <3>3. \A f \in Files : TooLarge(f)
      BY <3>2 DEF Current
    <3> QED
      BY <3>1, <3>3 DEF TooLarge, Files
  <2>5. CASE name' = name /\ content' = content
    BY <2>5 DEF Current, TooLarge, Files
  <2> QED
    BY <2>1, <2>2, <2>3, <2>4, <2>5, StepFiles
<1>2. ASSUME NEW u \in Threads
      PROVE  CurrentOf(u)'
  <2>1. CASE pc'[u] \notin {"measureNew", "rotate", "switch"}
    BY <2>1 DEF CurrentOf
  <2>2. CASE pc'[u] \in {"measureNew", "rotate", "switch"} /\ pc'[u] = pc[u] /\ newFd'[u] = newFd[u]
    <3>1. fileLock = u /\ CurrentOf(u)
      BY <2>2 DEF Excl, Section, Current
    <3>2. \A t \in Threads : ~RotateCurrent(t)
      <4>1. SUFFICES ASSUME NEW t \in Threads, RotateCurrent(t)
                     PROVE  FALSE
        OBVIOUS
      <4>2. pc[t] = "rotate" /\ pc'[t] = "openNew"
        BY <4>1, RotatesCurrent
      <4>3. fileLock = t
        BY <4>2 DEF Excl, Section
      <4> QED
        BY <2>2, <3>1, <4>2, <4>3
    <3>3. name[0] # None => name'[0] = name[0]
      <4>1. CASE OpenLog
        BY <4>1, OpenLogOpens
      <4>2. ASSUME NEW t \in Threads, Write(t)
            PROVE  name'[0] = name[0]
        BY <4>2 DEF Write
      <4>3. ASSUME NEW t \in Threads, ShiftBackup(t)
            PROVE  name'[0] = name[0]
        BY <4>3, ShiftsOld
      <4> QED
        BY <3>2, <4>1, <4>2, <4>3, StepFiles
    <3>4. pc[u] \in {"measureNew", "rotate"} => newFd[u] \in Files
      BY DEF Typed, Descriptors
    <3>5. pc[u] = "rotate" => Len(content'[newFd[u]]) > MaxSize
      BY <1>0, <3>1, <3>4 DEF CurrentOf
    <3> QED
      BY <1>0, <2>2, <3>1, <3>3, <3>4, <3>5 DEF CurrentOf, TooLarge
  <2> USE DEF Goto, Typed, ThreadsTyped
  <2>3. CASE Reopen(u)
    <3>1. pc'[u] = "measureNew" /\ newFd'[u] = Opened /\ OpenLog
      BY <2>3 DEF Reopen
    <3> HIDE DEF Typed
    <3>2. name'[0] = Opened
      BY <3>1, OpenLogOpens
    <3> QED
      BY <3>1, <3>2 DEF CurrentOf
  <2>4. CASE MeasureNew(u)
    <3>1. /\ pc[u] = "measureNew" /\ newFd' = newFd /\ name' = name /\ content' = content
          /\ pc'[u] \in {"rotate", "switch"} /\ (pc'[u] = "rotate" => TooLarge(newFd[u]))
      BY <2>4 DEF MeasureNew, fileVars
    <3>2. newFd[u] = name[0]
      BY <3>1 DEF Current, CurrentOf
    <3> QED
      BY <3>1, <3>2 DEF CurrentOf, TooLarge
  <2>5. CASE OpenNew(u)
    <3>1. pc'[u] = "switch" /\ newFd'[u] = Opened /\ OpenLog
      BY <2>5 DEF OpenNew
    <3> HIDE DEF Typed
    <3>2. name'[0] = Opened
      BY <3>1, OpenLogOpens
    <3> QED
      BY <3>1, <3>2 DEF CurrentOf
  <2>6. CASE OpenNewFails(u)
    <3>1. pc'[u] = "switch" /\ newFd'[u] = None
      BY <2>6 DEF OpenNewFails
    <3> QED
      BY <3>1 DEF CurrentOf
  <2> HIDE DEF Typed
  <2> QED
    BY <2>1, <2>2, <2>3, <2>4, <2>5, <2>6, StepNewFd
<1> QED
  BY <1>1, <1>2 DEF Current

-----------------------------------------------------------------------------
(* A file is given up early for a failure only *)

\* The number that is free next, or is to be freed.
Turn(t) == IF shift[t] < 1 THEN 1 ELSE shift[t]

\* Of the Keep files before file n, those no number names.  No file was created
\* before the first; one is missing there when a backup has a number as high as
\* that file would have, for then there is a hole before it.
Missing(nm, n) ==
    {f \in (n - Keep) .. (n - 1) : IF f >= 1 THEN \A s \in Slots : nm[s] # f
                                   ELSE \E s \in Slots : nm[s] # None /\ s >= n - f}

\* Of the files before n that stay when n is rotated, those that will be missing if
\* nothing fails any more: the rotation has come to number i, and writes over it.
Doomed(nm, n, i) ==
    {f \in (n - Keep + 1) .. (n - 1) :
        IF f >= 1 THEN \A s \in Slots \ {i} : nm[s] # f
        ELSE \E s \in Slots : nm[s] # None /\ s >= (IF s < i THEN n - f ELSE n - f + 1)}

\* A backup with a higher number is older.
Ranked == /\ \A s \in Slots : name[s] # None => s <= Keep
          /\ \A s, u \in Slots : s < u /\ name[s] # None /\ name[u] # None => name[s] > name[u]

Backed == /\ Ranked
          /\ \A t \in Threads : pc[t] = "rotate" =>
                Cardinality(Doomed(name, Opened, Turn(t))) <= errors
          /\ (\A t \in Threads : pc[t] # "rotate") =>
                Cardinality(Missing(name, Opened)) <= errors

LEMMA Numbers ==
    ASSUME Typed
    PROVE  /\ Files = 1 .. Len(content) /\ Len(content) \in Nat /\ errors \in Nat
           /\ Backups \in Nat /\ Keep \in Nat /\ Slots = 0 .. Backups + 1
           /\ Keep <= Backups /\ (Backups > 1 => Keep = Backups - 1) /\ (Keep = 0 <=> Backups = 0)
           /\ \A s \in Slots : name[s] # None => name[s] \in Files
           /\ name \in [Slots -> Nat \cup {None}] /\ None \notin Nat
           /\ Opened \in Nat /\ Opened >= 1
           /\ \A t \in Threads : shift[t] \in Int
<1> USE FilesAssumption, ErrorsAssumption
<1>1. Files = 1 .. Len(content) /\ Len(content) \in Nat
  BY LenProperties DEF Files, Typed, FilesTyped
<1>2. Backups \in Nat
  OBVIOUS
<1>3. \A t \in Threads : shift[t] \in Int
  <2>1. {0} \cup (-1 .. Backups - 1) \subseteq Int
    BY <1>2
  <2> QED
    BY <2>1 DEF Typed, ThreadsTyped
<1>4. errors \in Nat
  BY DEF Typed, ThreadsTyped
<1>5. name \in [Slots -> Files \cup {None}]
  BY DEF Typed, FilesTyped
<1>6. \A f \in Files : f \in Nat /\ f >= 1
  BY <1>1
<1>7. name \in [Slots -> Nat \cup {None}] /\ \A s \in Slots : name[s] # None => name[s] \in Files
  BY <1>5, <1>6
<1>8. Opened \in Nat /\ Opened >= 1
  BY <1>1, <1>6, <1>7, NoFile DEF Opened
<1>9. Keep \in Nat /\ Keep <= Backups /\ (Backups > 1 => Keep = Backups - 1) /\ (Keep = 0 <=> Backups = 0)
  BY <1>2 DEF Keep
<1> QED
  BY <1>1, <1>2, <1>3, <1>4, <1>7, <1>8, <1>9 DEF Slots

LEMMA KeepNat == Keep \in Nat /\ Slots \subseteq Nat /\ None \notin Nat
BY FilesAssumption DEF Keep, Slots

\* Sets of which one has at most an element more than the other.
LEMMA AtMost ==
    ASSUME NEW S, NEW R, IsFiniteSet(S)
    PROVE  /\ Cardinality(S) \in Nat
           /\ R \subseteq S => Cardinality(R) \in Nat /\ Cardinality(R) <= Cardinality(S)
           /\ \A x : \A y \in S : R \subseteq (S \ {y}) \cup {x} => Cardinality(R) <= Cardinality(S)
           /\ (\A x, y \in R \ S : x = y) =>
                 Cardinality(R) \in Nat /\ Cardinality(R) <= Cardinality(S) + 1
<1>1. ASSUME NEW Q, IsFiniteSet(Q), R \subseteq Q
      PROVE  Cardinality(R) \in Nat /\ Cardinality(Q) \in Nat /\ Cardinality(R) <= Cardinality(Q)
  BY <1>1, FS_Subset, FS_CardinalityType
<1>2. ASSUME NEW Q, IsFiniteSet(Q), NEW x
      PROVE  /\ IsFiniteSet(Q \cup {x}) /\ Cardinality(Q) \in Nat /\ Cardinality(Q \cup {x}) \in Nat
             /\ Cardinality(Q \cup {x}) <= Cardinality(Q) + 1
  <2> DEFINE a == Cardinality(Q)
             b == Cardinality(Q \cup {x})
  <2>1. IsFiniteSet(Q \cup {x}) /\ (b = a \/ b = a + 1)
    <3>1. CASE x \in Q
      <4>1. Q \cup {x} = Q
        BY <3>1
      <4> QED
        BY <1>2, <4>1
    <3>2. CASE x \notin Q
      BY <1>2, <3>2, FS_AddElement
    <3> QED
      BY <3>1, <3>2
  <2>2. a \in Nat
    BY <1>2, FS_CardinalityType
  <2> HIDE DEF a, b
  <2>3. b \in Nat /\ b <= a + 1
    BY <2>1, <2>2
  <2> QED
    BY <2>1, <2>2, <2>3 DEF a, b
<1> DEFINE c == Cardinality(S)
           r == Cardinality(R)
<1>3. c \in Nat /\ (R \subseteq S => r \in Nat /\ r <= c)
  BY <1>1, FS_CardinalityType
<1>4. ASSUME NEW x, R \subseteq S \cup {x}
      PROVE  r \in Nat /\ r <= c + 1
  <2> DEFINE b == Cardinality(S \cup {x})
  <2>1. b \in Nat /\ b <= c + 1 /\ IsFiniteSet(S \cup {x})
    BY <1>2
  <2>2. r \in Nat /\ r <= b
    BY <1>1, <1>4, <2>1
  <2> HIDE DEF b, c, r
  <2> QED
    BY <1>3, <2>1, <2>2
<1>5. ASSUME NEW x, NEW y \in S, R \subseteq (S \ {y}) \cup {x}
      PROVE  r <= c
  <2> DEFINE Q == S \ {y}
             a == Cardinality(Q)
             b == Cardinality(Q \cup {x})
  <2>1. IsFiniteSet(Q) /\ a = c - 1
    BY FS_RemoveElement
  <2> HIDE DEF Q
  <2>2. b \in Nat /\ b <= a + 1 /\ IsFiniteSet(Q \cup {x}) /\ a \in Nat
    BY <1>2, <2>1
  <2>3. r \in Nat /\ r <= b
    BY <1>1, <1>5, <2>2 DEF Q
  <2> HIDE DEF a, b, c, r
  <2> QED
    BY <1>3, <2>1, <2>2, <2>3
<1>6. ASSUME \A x, y \in R \ S : x = y
      PROVE  r \in Nat /\ r <= c + 1
  <2>1. CASE R \subseteq S
    <3> HIDE DEF c, r
    <3> QED
      BY <1>3, <2>1
  <2>2. CASE ~(R \subseteq S)
    <3>1. PICK x \in R : x \notin S
      BY <2>2
    <3>2. R \subseteq S \cup {x}
      BY <1>6, <3>1
    <3> QED
      BY <1>4, <3>2
  <2> QED
    BY <2>1, <2>2
<1> HIDE DEF c, r
<1> QED
  BY <1>3, <1>4, <1>5, <1>6 DEF c, r

LEMMA FewFiles ==
    ASSUME NEW nm, NEW n \in Nat, NEW i
    PROVE  IsFiniteSet(Missing(nm, n)) /\ IsFiniteSet(Doomed(nm, n, i))
<1>1. n - Keep \in Int /\ n - Keep + 1 \in Int /\ n - 1 \in Int
  BY KeepNat
<1>2. IsFiniteSet((n - Keep) .. (n - 1)) /\ IsFiniteSet((n - Keep + 1) .. (n - 1))
  BY <1>1, FS_Interval
<1>3. Missing(nm, n) \subseteq (n - Keep) .. (n - 1) /\ Doomed(nm, n, i) \subseteq (n - Keep + 1) .. (n - 1)
  BY DEF Missing, Doomed
<1> QED
  BY <1>2, <1>3, FS_Subset

\* A turn of the loop dooms nothing more; one that fails, the backup it leaves.
LEMMA TurnDone ==
    ASSUME NEW nm, NEW nm1, NEW n \in Nat, NEW i \in Slots, i - 1 \in Slots,
           nm1[i - 1] = None, \A s \in Slots \ {i - 1, i} : nm1[s] = nm[s],
           nm[i - 1] = None => nm1 = nm, nm[i - 1] # None => nm1[i] = nm[i - 1]
    PROVE  Doomed(nm1, n, i - 1) \subseteq Doomed(nm, n, i)
<1> DEFINE K == Keep
<1>0. K \in Nat /\ None \notin Nat /\ i \in Nat /\ i - 1 \in Nat /\ \A s \in Slots : s \in Nat
  BY KeepNat
<1> SUFFICES ASSUME NEW f \in (n - K + 1) .. (n - 1),
                    IF f >= 1 THEN \A s \in Slots \ {i - 1} : nm1[s] # f
                    ELSE \E s \in Slots : nm1[s] # None
                                          /\ s >= (IF s < i - 1 THEN n - f ELSE n - f + 1)
             PROVE  IF f >= 1 THEN \A s \in Slots \ {i} : nm[s] # f
                    ELSE \E s \in Slots : nm[s] # None
                                          /\ s >= (IF s < i THEN n - f ELSE n - f + 1)
  BY DEF Doomed
<1> HIDE DEF K
<1>1. f \in Int
  BY <1>0
<1>2. CASE f >= 1
  <2>1. f # None
    BY <1>0, <1>1, <1>2
  <2>2. ASSUME NEW s \in Slots \ {i}
        PROVE  nm[s] # f
    <3>1. CASE s = i - 1
      BY <1>0, <1>2, <2>1, <3>1
    <3>2. CASE s # i - 1
      BY <1>2, <2>2, <3>2
    <3> QED
      BY <3>1, <3>2
  <2> QED
    BY <1>2, <2>2
<1>3. CASE ~(f >= 1)
  <2>1. PICK s \in Slots : nm1[s] # None /\ s >= (IF s < i - 1 THEN n - f ELSE n - f + 1)
    BY <1>3
  <2>2. s # i - 1 /\ s \in Nat
    BY <1>0, <2>1
  <2>3. CASE s = i /\ nm[i - 1] # None
    <3>1. nm[i - 1] # None /\ i - 1 < i /\ i - 1 >= n - f
      BY <1>0, <1>1, <2>1, <2>3
    <3> QED
      BY <1>3, <3>1
  <2>4. CASE ~(s = i /\ nm[i - 1] # None)
    <3>1. nm[s] # None
      BY <2>1, <2>2, <2>4
    <3>2. s >= (IF s < i THEN n - f ELSE n - f + 1)
      BY <1>0, <1>1, <2>1, <2>2
    <3> QED
      BY <1>3, <3>1, <3>2
  <2> QED
    BY <2>3, <2>4
<1> QED
  BY <1>2, <1>3

LEMMA TurnFailed ==
    ASSUME NEW nm, NEW n \in Nat, NEW i \in Slots, i - 1 \in Slots
    PROVE  Doomed(nm, n, i - 1) \subseteq Doomed(nm, n, i) \cup {nm[i - 1]}
<1> DEFINE K == Keep
<1>0. K \in Nat /\ i \in Nat /\ i - 1 \in Nat /\ \A s \in Slots : s \in Nat
  BY KeepNat
<1> SUFFICES ASSUME NEW f \in (n - K + 1) .. (n - 1), f # nm[i - 1],
                    IF f >= 1 THEN \A s \in Slots \ {i - 1} : nm[s] # f
                    ELSE \E s \in Slots : nm[s] # None
                                          /\ s >= (IF s < i - 1 THEN n - f ELSE n - f + 1)
             PROVE  IF f >= 1 THEN \A s \in Slots \ {i} : nm[s] # f
                    ELSE \E s \in Slots : nm[s] # None
                                          /\ s >= (IF s < i THEN n - f ELSE n - f + 1)
  BY DEF Doomed
<1> HIDE DEF K
<1>1. f \in Int
  BY <1>0
<1>2. CASE f >= 1
  BY <1>2
<1>3. CASE ~(f >= 1)
  <2>1. PICK s \in Slots : nm[s] # None /\ s >= (IF s < i - 1 THEN n - f ELSE n - f + 1)
    BY <1>3
  <2>2. s >= (IF s < i THEN n - f ELSE n - f + 1)
    BY <1>0, <1>1, <2>1
  <2> QED
    BY <1>3, <2>1, <2>2
<1> QED
  BY <1>2, <1>3

\* The last turn makes log the first backup: what was doomed is missing.
LEMMA TurnedOver ==
    ASSUME NEW nm, NEW nm1, NEW n \in Nat, n >= 1, 0 \in Slots, 1 \in Slots,
           nm[0] = n, nm1[0] = None, \A s \in Slots \ {0, 1} : nm1[s] = nm[s],
           Keep # 0 => nm1[1] = n
    PROVE  Missing(nm1, n + 1) \subseteq Doomed(nm, n, 1)
<1> DEFINE K == Keep
<1>0. K \in Nat /\ \A s \in Slots : s \in Nat
  BY KeepNat
<1> SUFFICES ASSUME NEW f \in Missing(nm1, n + 1)
             PROVE  f \in Doomed(nm, n, 1)
  OBVIOUS
<1>1. /\ f \in ((n + 1) - K) .. ((n + 1) - 1)
      /\ IF f >= 1 THEN \A s \in Slots : nm1[s] # f
         ELSE \E s \in Slots : nm1[s] # None /\ s >= (n + 1) - f
  BY DEF Missing
<1>2. f \in Int /\ f >= n - K + 1 /\ f <= n /\ K # 0
  <2> HIDE DEF K
  <2> QED
    BY <1>0, <1>1
<1>3. nm1[1] = n
  BY <1>2
<1> HIDE DEF K
<1>4. CASE f >= 1
  <2>1. f # n /\ \A s \in Slots \ {1} : nm[s] # f
    BY <1>3, <1>4, <1>1
  <2>2. f \in (n - K + 1) .. (n - 1)
    BY <1>0, <1>2, <2>1
  <2> QED
    BY <1>4, <2>1, <2>2 DEF Doomed, K
<1>5. CASE ~(f >= 1)
  <2>1. PICK s \in Slots : nm1[s] # None /\ s >= (n + 1) - f
    BY <1>5, <1>1
  <2>2. s \in Nat /\ s # 0 /\ s # 1 /\ ~(s < 1) /\ s >= n - f + 1
    BY <1>0, <1>2, <1>5, <2>1
  <2>3. nm[s] # None
    BY <2>1, <2>2
  <2>4. f \in (n - K + 1) .. (n - 1)
    BY <1>0, <1>2, <1>5
  <2>5. s >= (IF s < 1 THEN n - f ELSE n - f + 1)
    BY <2>2
  <2> QED
    BY <1>5, <2>3, <2>4, <2>5 DEF Doomed, K
<1> QED
  BY <1>4, <1>5

\* Where a rotation stops before its end, one more is missing at most.
LEMMA TurnsEnd ==
    ASSUME NEW nm, NEW n \in Nat, NEW i \in Nat, \A s \in Slots : nm[s] # None => s <= Keep,
           NEW x \in Missing(nm, n) \ Doomed(nm, n, i), NEW y \in Missing(nm, n) \ Doomed(nm, n, i)
    PROVE  x = y
<1> DEFINE K == Keep
<1>0. K \in Nat /\ (\A s \in Slots : s \in Nat) /\ \A s \in Slots : nm[s] # None => s <= K
  BY KeepNat
\* What is missing and not doomed is the first there is, or the one whose number is the
\* highest of those there are.
<1>1. ASSUME NEW f \in Missing(nm, n) \ Doomed(nm, n, i)
      PROVE  /\ f \in Int /\ f >= n - K
             /\ f # n - K =>
                   /\ f < 1 /\ \E s \in Slots : nm[s] # None /\ s = n - f /\ s >= i
                   /\ \A s \in Slots : nm[s] # None /\ s >= i => s <= n - f
             /\ f < 1 => \E s \in Slots : nm[s] # None /\ s >= n - f
  <2>1. /\ f \in (n - K) .. (n - 1)
        /\ IF f >= 1 THEN \A s \in Slots : nm[s] # f
           ELSE \E s \in Slots : nm[s] # None /\ s >= n - f
    BY <1>1 DEF Missing
  <2>2. f \notin (n - K + 1) .. (n - 1)
        \/ ~IF f >= 1 THEN \A s \in Slots \ {i} : nm[s] # f
            ELSE \E s \in Slots : nm[s] # None /\ s >= (IF s < i THEN n - f ELSE n - f + 1)
    BY <1>1 DEF Doomed
  <2> HIDE DEF K
  <2>3. f \in Int /\ f >= n - K /\ f <= n - 1
    BY <1>0, <2>1
  <2>4. ASSUME f # n - K
        PROVE  /\ f < 1 /\ \E s \in Slots : nm[s] # None /\ s = n - f /\ s >= i
               /\ \A s \in Slots : nm[s] # None /\ s >= i => s <= n - f
    <3>1. f \in (n - K + 1) .. (n - 1)
      BY <1>0, <2>3, <2>4
    <3>2. f < 1
      BY <2>1, <2>2, <2>3, <3>1
    <3>3. PICK s \in Slots : nm[s] # None /\ s >= n - f
      BY <2>1, <2>3, <3>2
    <3>4. \A u \in Slots : nm[u] # None => ~(u >= (IF u < i THEN n - f ELSE n - f + 1))
      BY <2>2, <2>3, <3>1, <3>2
    <3>5. s >= i /\ s = n - f
      BY <1>0, <2>3, <3>3, <3>4
    <3>6. ASSUME NEW u \in Slots, nm[u] # None, u >= i
          PROVE  u <= n - f
      BY <1>0, <2>3, <3>4, <3>6
    <3> QED
      BY <3>2, <3>3, <3>5, <3>6
  <2>5. f < 1 => \E s \in Slots : nm[s] # None /\ s >= n - f
    BY <2>1, <2>3
  <2> QED
    BY <2>3, <2>4, <2>5
<1> HIDE DEF K
\* A number as high as the first's is the highest of all.
<1>2. ASSUME NEW f, NEW g, f \in Int, g \in Int, f = n - K, g >= n - K, f < 1,
             \E s \in Slots : nm[s] # None /\ s >= n - f,
             \E s \in Slots : nm[s] # None /\ s = n - g /\ s >= i,
             \A s \in Slots : nm[s] # None /\ s >= i => s <= n - g
      PROVE  f = g
  <2>1. PICK s \in Slots : nm[s] # None /\ s >= n - f
    BY <1>2
  <2>2. PICK u \in Slots : nm[u] # None /\ u = n - g /\ u >= i
    BY <1>2
  <2>3. s \in Nat /\ u \in Nat /\ s >= K /\ u <= K
    BY <1>0, <1>2, <2>1, <2>2
  <2>4. s >= i
    BY <1>0, <2>2, <2>3
  <2>5. s <= n - g
    BY <1>2, <2>1, <2>4
  <2> QED
    BY <1>0, <1>2, <2>3, <2>5
<1>3. x \in Int /\ y \in Int /\ x >= n - K /\ y >= n - K
  BY <1>1
<1>4. CASE x = n - K /\ y = n - K
  BY <1>4
<1>5. CASE x = n - K /\ y # n - K
  <2>1. /\ y < 1 /\ \E s \in Slots : nm[s] # None /\ s = n - y /\ s >= i
        /\ \A s \in Slots : nm[s] # None /\ s >= i => s <= n - y
    BY <1>1, <1>5
  <2>2. x < 1
    BY <1>0, <1>3, <1>5, <2>1
  <2>3. \E s \in Slots : nm[s] # None /\ s >= n - x
    BY <1>1, <2>2
  <2> QED
    BY <1>2, <1>3, <1>5, <2>1, <2>2, <2>3
<1>6. CASE y = n - K /\ x # n - K
  <2>1. /\ x < 1 /\ \E s \in Slots : nm[s] # None /\ s = n - x /\ s >= i
        /\ \A s \in Slots : nm[s] # None /\ s >= i => s <= n - x
    BY <1>1, <1>6
  <2>2. y < 1
    BY <1>0, <1>3, <1>6, <2>1
  <2>3. \E s \in Slots : nm[s] # None /\ s >= n - y
    BY <1>1, <2>2
  <2> QED
    BY <1>2, <1>3, <1>6, <2>1, <2>2, <2>3
<1>7. CASE x # n - K /\ y # n - K
  <2>1. PICK s \in Slots : nm[s] # None /\ s = n - x /\ s >= i
    BY <1>1, <1>7
  <2>2. PICK u \in Slots : nm[u] # None /\ u = n - y /\ u >= i
    BY <1>1, <1>7
  <2>3. \A r \in Slots : nm[r] # None /\ r >= i => r <= n - y
    BY <1>1, <1>7
  <2>4. \A r \in Slots : nm[r] # None /\ r >= i => r <= n - x
    BY <1>1, <1>7
  <2>5. s <= n - y /\ u <= n - x
    BY <2>1, <2>2, <2>3, <2>4
  <2> QED
    BY <1>3, <2>1, <2>2, <2>5
<1> QED
  BY <1>4, <1>5, <1>6, <1>7

\* What the rotation writes over first is older than the files that stay, unless one of
\* those is missing.
LEMMA TurnsBegin ==
    ASSUME NEW nm, nm \in [Slots -> Nat \cup {None}], NEW n \in Nat, NEW i \in Nat,
           Keep # 0 => i = Keep /\ i \in Slots,
           \A s \in Slots : nm[s] # None => s <= Keep,
           \A s, u \in Slots : s < u /\ nm[s] # None /\ nm[u] # None => nm[s] > nm[u]
    PROVE  Cardinality(Doomed(nm, n, i)) <= Cardinality(Missing(nm, n))
<1> DEFINE K == Keep
<1>0. K \in Nat /\ None \notin Nat /\ (\A s \in Slots : s \in Nat)
      /\ \A s \in Slots : nm[s] # None => s <= K /\ nm[s] \in Nat
  BY KeepNat
<1>1. IsFiniteSet(Missing(nm, n))
  BY FewFiles
<1>2. CASE K = 0
  <2>1. Doomed(nm, n, i) = {}
    <3>1. (n - K + 1) .. (n - 1) = {}
      <4> HIDE DEF K
      <4> QED
        BY <1>2
    <3> QED
      BY <3>1 DEF Doomed
  <2> QED
    BY <1>1, <2>1, AtMost
<1>3. CASE K # 0 /\ ~(nm[i] # None /\ nm[i] >= n - K + 1)
  <2>1. i \in Slots /\ i = K
    BY <1>3
  <2>2. ASSUME NEW f \in Doomed(nm, n, i)
        PROVE  f \in Missing(nm, n)
    <3>1. /\ f \in (n - K + 1) .. (n - 1)
          /\ IF f >= 1 THEN \A s \in Slots \ {i} : nm[s] # f
             ELSE \E s \in Slots : nm[s] # None /\ s >= (IF s < i THEN n - f ELSE n - f + 1)
      BY <2>2 DEF Doomed
    <3> HIDE DEF K
    <3>2. f \in Int /\ f >= n - K + 1 /\ f \in (n - K) .. (n - 1)
      BY <1>0, <3>1
    <3>3. CASE f >= 1
      <4>1. nm[i] # f
        BY <1>0, <1>3, <2>1, <3>2, <3>3
      <4>2. \A s \in Slots : nm[s] # f
        BY <3>1, <3>3, <4>1
      <4> QED
        BY <3>2, <3>3, <4>2 DEF Missing, K
    <3>4. CASE ~(f >= 1)
      <4>1. PICK s \in Slots : nm[s] # None /\ s >= (IF s < i THEN n - f ELSE n - f + 1)
        BY <3>1, <3>4
      <4>2. s >= n - f
        BY <1>0, <3>2, <4>1
      <4> QED
        BY <3>2, <3>4, <4>1, <4>2 DEF Missing, K
    <3> QED
      BY <3>3, <3>4
  <2> QED
    BY <1>1, <2>2, AtMost
<1>4. CASE K # 0 /\ nm[i] # None /\ nm[i] >= n - K + 1
  <2> DEFINE y == n - K
  <2>1. i \in Slots /\ i = K /\ nm[i] \in Nat
    BY <1>0, <1>4
  <2>2. y \in Int /\ y \in (n - K) .. (n - 1) /\ y < nm[i]
    <3> HIDE DEF K
    <3> QED
      BY <1>0, <1>4, <2>1
  <2>3. \A s \in Slots : nm[s] # y \/ y < 1
    <3> SUFFICES ASSUME NEW s \in Slots, nm[s] = y, ~(y < 1)
                 PROVE  FALSE
      OBVIOUS
    <3> HIDE DEF K, y
    <3>1. y \in Nat /\ nm[s] # None
      BY <1>0, <2>2
    <3>2. s \in Nat /\ s <= i /\ s # i
      BY <1>0, <2>1, <2>2, <3>1
    <3>3. s < i
      BY <2>1, <3>2
    <3>4. nm[s] > nm[i]
      BY <1>4, <2>1, <3>1, <3>3
    <3> QED
      BY <2>1, <2>2, <3>1, <3>4
  <2>4. y < 1 => nm[i] # None /\ i >= n - y
    <3> HIDE DEF K
    <3> QED
      BY <1>0, <1>4, <2>1
  <2>5. y \in Missing(nm, n)
    <3>1. CASE y >= 1
      <4>1. ~(y < 1)
        BY <2>2, <3>1
      <4> QED
        BY <2>2, <2>3, <3>1, <4>1 DEF Missing
    <3>2. CASE ~(y >= 1)
      <4>1. y < 1
        BY <2>2, <3>2
      <4> QED
        BY <2>1, <2>2, <2>4, <3>2, <4>1 DEF Missing
    <3> QED
      BY <3>1, <3>2
  <2>6. ASSUME NEW f \in Doomed(nm, n, i), f # nm[i]
        PROVE  f \in Missing(nm, n) \ {y}
    <3>1. /\ f \in (n - K + 1) .. (n - 1)
          /\ IF f >= 1 THEN \A s \in Slots \ {i} : nm[s] # f
             ELSE \E s \in Slots : nm[s] # None /\ s >= (IF s < i THEN n - f ELSE n - f + 1)
      BY <2>6 DEF Doomed
    <3>2. f \in Int /\ f \in (n - K) .. (n - 1) /\ f # y
      <4> HIDE DEF K
      <4> QED
        BY <1>0, <3>1
    <3> HIDE DEF K, y
    <3>3. CASE f >= 1
      <4>1. \A s \in Slots : nm[s] # f
        BY <2>6, <3>1, <3>3
      <4> QED
        BY <3>2, <3>3, <4>1 DEF Missing, K
    <3>4. CASE ~(f >= 1)
      <4>1. PICK s \in Slots : nm[s] # None /\ s >= (IF s < i THEN n - f ELSE n - f + 1)
        BY <3>1, <3>4
      <4>2. s >= n - f
        BY <1>0, <3>2, <4>1
      <4> QED
        BY <3>2, <3>4, <4>1, <4>2 DEF Missing, K
    <3> QED
      BY <3>3, <3>4
  <2>7. Doomed(nm, n, i) \subseteq (Missing(nm, n) \ {y}) \cup {nm[i]}
    BY <2>6
  <2> HIDE DEF y
  <2> QED
    BY <1>1, <2>5, <2>7, AtMost
<1> QED
  BY <1>2, <1>3, <1>4

LEMMA StepRotate ==
    ASSUME Typed, [Next]_vars, NEW u \in Threads
    PROVE  /\ pc[u] = "rotate" => \/ pc'[u] = "rotate" /\ shift'[u] = shift[u]
                                  \/ ShiftBackup(u) \/ ShiftBackupFails(u)
                                  \/ RotateCurrent(u)
                                  \/ pc'[u] # "rotate" /\ errors' = errors + 1
           /\ pc[u] # "rotate" /\ pc'[u] = "rotate" =>
                 /\ MeasureNew(u) /\ shift'[u] = Backups - 1
<1> DEFINE Stays == pc'[u] = pc[u] /\ shift'[u] = shift[u]
           Out == pc[u] # "rotate" /\ pc'[u] # "rotate"
           Starts == pc[u] # "rotate" /\ shift'[u] = Backups - 1 /\ MeasureNew(u)
           Stops == pc'[u] # "rotate" /\ errors' = errors + 1
<1> USE DEF Goto, Return, Typed, ThreadsTyped, Fails
<1>1. ASSUME NEW t \in Threads, PrepareLogFd(t) \/ PrepareLogFdOpens(t)
      PROVE  Stays \/ Out
  BY <1>1 DEF PrepareLogFd, PrepareLogFdOpens
<1>2. ASSUME NEW t \in Threads, Write(t) \/ Measure(t) \/ Lock(t) \/ Reopen(t) \/ OpenNew(t) \/ Switch(t)
      PROVE  Stays \/ Out
  BY <1>2 DEF Write, Measure, Lock, Reopen, OpenNew, Switch
<1>3. ASSUME NEW t \in Threads, WriteFails(t) \/ LockFails(t) \/ ReopenFails(t) \/ OpenNewFails(t)
      PROVE  Stays \/ Out
  BY <1>3 DEF WriteFails, LockFails, ReopenFails, OpenNewFails
<1>4. ASSUME NEW t \in Threads, MeasureNew(t)
      PROVE  Stays \/ Out \/ Starts
  BY <1>4 DEF MeasureNew
<1>5. ASSUME NEW t \in Threads, t # u,
             ShiftBackup(t) \/ RotateCurrent(t) \/ ShiftBackupFails(t) \/ RotateCurrentFails(t)
      PROVE  Stays
  BY <1>5 DEF ShiftBackup, RotateCurrent, ShiftBackupFails, RotateCurrentFails
<1>6. ASSUME NEW p \in Processes, Crash(p)
      PROVE  Stays \/ Stops
  BY <1>6 DEF Crash
<1>7. ASSUME NEW p \in Processes, Construct(p)
      PROVE  Stays
  BY <1>7 DEF Construct, threadVars
<1>8. UNCHANGED vars => Stays
  BY DEF vars, threadVars
<1>9. RotateCurrentFails(u) => Stops
  BY DEF RotateCurrentFails
<1>10. ShiftBackup(u) \/ ShiftBackupFails(u) \/ RotateCurrent(u) => pc[u] = "rotate"
  BY DEF ShiftBackup, ShiftBackupFails, RotateCurrent
<1> HIDE DEF Stays, Out, Starts, Stops, Typed
<1>11. \/ Stays \/ Out \/ Starts \/ Stops \/ ShiftBackup(u) \/ ShiftBackupFails(u)
       \/ RotateCurrent(u)
  BY <1>1, <1>2, <1>3, <1>4, <1>5, <1>6, <1>7, <1>8, <1>9 DEF Next, WriteLog, Failure
<1> QED
  BY <1>10, <1>11 DEF Stays, Out, Starts, Stops

LEMMA InRotation ==
    ASSUME Typed, Excl, Current, NEW t \in Threads, pc[t] = "rotate"
    PROVE  /\ name[0] \in Files /\ name[0] = Len(content) /\ TooLarge(name[0]) /\ name[0] # None
           /\ Opened = Len(content)
           /\ \A u \in Threads : pc[u] = "rotate" => u = t
<1>1. name[0] = newFd[t] /\ newFd[t] \in Files /\ TooLarge(newFd[t]) /\ None \notin Files
  BY NoFile DEF Current, CurrentOf, Typed, Descriptors
<1>2. \A u \in Threads : pc[u] = "rotate" => u = t
  BY DEF Excl, Section
<1> QED
  BY <1>1, <1>2 DEF Current, Opened

LEMMA ErrorsGrow ==
    ASSUME Typed, [Next]_vars
    PROVE  errors' \in Nat /\ (errors' = errors \/ errors' = errors + 1) /\ errors \in Nat
<1> DEFINE e1 == errors'
<1>1. (e1 = errors \/ e1 = errors + 1) /\ errors \in Nat
  BY StepOutside, Numbers
<1> HIDE DEF e1
<1>2. e1 \in Nat
  BY <1>1
<1> QED
  BY <1>1, <1>2 DEF e1

\* What the next file's number becomes.
LEMMA OpenedNext ==
    ASSUME Typed, Excl, Current, [Next]_vars
    PROVE  /\ \A t \in Threads : ShiftBackup(t) => Opened' = Opened
           /\ \A t \in Threads : RotateCurrent(t) => Opened' = Opened + 1
           /\ OpenLog => Opened' = Opened
           /\ \A t \in Threads : Write(t) => name' = name /\ Opened' = Opened
           /\ name' = name /\ content' = content => Opened' = Opened
<1>1. ASSUME NEW t \in Threads, ShiftBackup(t)
      PROVE  Opened' = Opened
  BY <1>1, ShiftsOld DEF Opened
<1>2. ASSUME NEW t \in Threads, RotateCurrent(t)
      PROVE  Opened' = Opened + 1
  <2>1. pc[t] = "rotate" /\ name'[0] = None /\ content' = content
    BY <1>2, RotatesCurrent
  <2>2. Opened = Len(content)
    BY <2>1, InRotation
  <2> QED
    BY <2>1, <2>2 DEF Opened
<1>3. ASSUME OpenLog
      PROVE  Opened' = Opened
  <2>1. CASE name[0] = None
    <3>1. name'[0] = Opened /\ Opened # None
      BY <1>3, <2>1, OpenLogOpens, Numbers
    <3> QED
      BY <3>1 DEF Opened
  <2>2. CASE name[0] # None
    BY <1>3, <2>2 DEF OpenLog, Opened
  <2> QED
    BY <2>1, <2>2
<1>4. ASSUME NEW t \in Threads, Write(t)
      PROVE  name' = name /\ Opened' = Opened
  <2>1. name' = name /\ Len(content') = Len(content)
    BY <1>4, WriteAdds DEF Write
  <2> QED
    BY <2>1 DEF Opened
<1>5. name' = name /\ content' = content => Opened' = Opened
  BY DEF Opened
<1> QED
  BY <1>1, <1>2, <1>3, <1>4, <1>5

LEMMA RankedNext ==
    ASSUME Typed, Excl, Current, Ranked, [Next]_vars
    PROVE  Ranked'
<1>0. /\ 0 \in Slots /\ 1 \in Slots /\ None \notin Files /\ Slots \subseteq Nat
      /\ Backups \in Nat /\ Slots = 0 .. Backups + 1
      /\ Keep \in Nat /\ (Backups > 1 => Keep = Backups - 1) /\ (Keep = 0 <=> Backups = 0)
      /\ \A s \in Slots : name[s] # None => name[s] \in Nat /\ name[s] <= Len(content)
  BY Numbers, NoFile, KeepNat
<1>1. CASE OpenLog /\ name[0] = None
  <2>1. /\ name'[0] = Len(content) + 1
        /\ \A s \in Slots \ {0} : name'[s] = name[s]
    BY <1>1, OpenLogOpens
  <2>2. \A s \in Slots : name'[s] # None => s <= Keep
    BY <1>0, <2>1 DEF Ranked
  <2>3. ASSUME NEW s \in Slots, NEW u \in Slots, s < u, name'[s] # None, name'[u] # None
        PROVE  name'[s] > name'[u]
    <3>1. u # 0 /\ name'[u] = name[u]
      BY <1>0, <2>1, <2>3
    <3>2. CASE s = 0
      <4> DEFINE L == Len(content)
                 x == name[u]
      <4>1. x \in Nat /\ x <= L /\ name'[s] = L + 1 /\ L \in Nat
        BY <1>0, <2>1, <2>3, <3>1, <3>2, Numbers
      <4> HIDE DEF L, x
      <4> QED
        BY <3>1, <4>1 DEF x
    <3>3. CASE s # 0
      BY <2>1, <2>3, <3>1, <3>3 DEF Ranked
    <3> QED
      BY <3>2, <3>3
  <2> QED
    BY <2>2, <2>3 DEF Ranked
<1>2. ASSUME NEW t \in Threads, ShiftBackup(t)
      PROVE  Ranked'
  <2> DEFINE r == shift[t]
  <2>1. /\ r \in Nat /\ r > 1 /\ r \in Slots /\ r - 1 \in Slots /\ r <= Backups - 1
        /\ name'[r - 1] = None
        /\ \A q \in Slots \ {r - 1, r} : name'[q] = name[q]
        /\ name[r - 1] = None => name' = name
        /\ name[r - 1] # None => name'[r] = name[r - 1]
    BY <1>2, ShiftsOld
  <2> HIDE DEF r
  <2>2. CASE name[r - 1] = None
    BY <2>1, <2>2 DEF Ranked
  <2>3. CASE name[r - 1] # None
    <3>1. \A s \in Slots : name'[s] # None => s <= Keep
      <4>1. r <= Keep
        BY <1>0, <2>1
      <4> QED
        BY <2>1, <4>1 DEF Ranked
    <3>2. ASSUME NEW s \in Slots, NEW u \in Slots, s < u, name'[s] # None, name'[u] # None
          PROVE  name'[s] > name'[u]
      <4>1. s # r - 1 /\ u # r - 1 /\ s \in Nat /\ u \in Nat
        BY <1>0, <2>1, <3>2
      <4>2. CASE s = r
        <5>1. r - 1 < u /\ u # r /\ name'[u] = name[u]
          BY <2>1, <3>2, <4>1, <4>2
        <5> QED
          BY <2>1, <2>3, <3>2, <4>2, <5>1 DEF Ranked
      <4>3. CASE u = r
        <5>1. s < r - 1 /\ s # r /\ name'[s] = name[s]
          BY <2>1, <3>2, <4>1, <4>3
        <5> QED
          BY <2>1, <2>3, <3>2, <4>3, <5>1 DEF Ranked
      <4>4. CASE s # r /\ u # r
        BY <2>1, <3>2, <4>1, <4>4 DEF Ranked
      <4> QED
        BY <4>2, <4>3, <4>4
    <3> QED
      BY <3>1, <3>2 DEF Ranked
  <2> QED
    BY <2>2, <2>3
<1>3. ASSUME NEW t \in Threads, RotateCurrent(t)
      PROVE  Ranked'
  <2>1. /\ name'[0] = None
        /\ \A s \in Slots \ {0, 1} : name'[s] = name[s]
        /\ Backups = 0 => name'[1] = name[1]
        /\ Backups # 0 => name'[1] = name[0]
    <3>1. name[0] # None
      BY <1>3, InRotation DEF RotateCurrent
    <3> QED
      BY <1>3, <3>1, RotatesCurrent
  <2>2. \A s \in Slots : name'[s] # None => s <= Keep
    <3>1. Backups # 0 => 1 <= Keep
      BY <1>0
    <3> QED
      BY <2>1, <3>1 DEF Ranked
  <2>3. ASSUME NEW s \in Slots, NEW u \in Slots, s < u, name'[s] # None, name'[u] # None
        PROVE  name'[s] > name'[u]
    <3>1. s # 0 /\ u # 0 /\ u # 1 /\ s \in Nat /\ 0 < u
      BY <1>0, <2>1, <2>3
    <3>2. name'[u] = name[u]
      BY <2>1, <3>1
    <3>3. CASE s # 1 \/ Backups = 0
      BY <2>1, <2>3, <3>1, <3>2, <3>3 DEF Ranked
    <3>4. CASE s = 1 /\ Backups # 0
      BY <1>0, <2>1, <2>3, <3>1, <3>2, <3>4 DEF Ranked
    <3> QED
      BY <3>3, <3>4
  <2> QED
    BY <2>2, <2>3 DEF Ranked
<1>4. CASE name' = name
  BY <1>4 DEF Ranked
<1>5. ASSUME NEW t \in Threads, Write(t)
      PROVE  name' = name
  BY <1>5 DEF Write
<1>6. CASE OpenLog /\ name[0] # None
  BY <1>4, <1>6 DEF OpenLog
<1> QED
  BY <1>1, <1>2, <1>3, <1>4, <1>5, <1>6, StepFiles

LEMMA BackedNext ==
    ASSUME Typed, Counted, Excl, Current, Backed, [Next]_vars, ~unlocked'
    PROVE  Backed'
<1> DEFINE n == Opened
           n1 == Opened'
           nm1 == name'
           e1 == errors'
<1>0. /\ n \in Nat /\ n >= 1 /\ 0 \in Slots /\ 1 \in Slots /\ Keep \in Nat
      /\ e1 \in Nat /\ errors \in Nat /\ (e1 = errors \/ e1 = errors + 1)
      /\ Backups \in Nat /\ Slots = 0 .. Backups + 1
  BY Numbers, ErrorsGrow, NoFile
<1>1. Ranked /\ Ranked'
  BY RankedNext DEF Backed
<1>2. SUFFICES /\ \A t \in Threads : pc'[t] = "rotate" =>
                     Cardinality(Doomed(nm1, n1, Turn(t)')) <= e1
               /\ (\A t \in Threads : pc'[t] # "rotate") => Cardinality(Missing(nm1, n1)) <= e1
  BY <1>1 DEF Backed, Missing, Doomed
<1>3. ASSUME NEW t \in Threads, pc[t] = "rotate"
      PROVE  /\ pc'[t] = "rotate" => Cardinality(Doomed(nm1, n1, Turn(t)')) <= e1
             /\ pc'[t] # "rotate" => Cardinality(Missing(nm1, n1)) <= e1
             /\ \A u \in Threads \ {t} : pc'[u] # "rotate"
  <2> DEFINE i == Turn(t)
             i1 == Turn(t)'
             D == Doomed(name, n, i)
  <2>1. /\ name[0] = n /\ name[0] # None /\ \A u \in Threads : pc[u] = "rotate" => u = t
        /\ IsFiniteSet(D) /\ Cardinality(D) <= errors /\ Cardinality(D) \in Nat
        /\ i \in Nat
    <3>1. i \in Nat
      BY <1>3, Numbers DEF Turn
    <3>2. IsFiniteSet(D)
      BY <1>0, FewFiles
    <3>3. Cardinality(D) \in Nat
      BY <3>2, AtMost
    <3> QED
      BY <1>3, <3>1, <3>2, <3>3, InRotation DEF Backed
  <2>2. \A u \in Threads \ {t} : pc'[u] # "rotate"
    <3> SUFFICES ASSUME NEW u \in Threads, u # t, pc'[u] = "rotate"
                 PROVE  FALSE
      OBVIOUS
    <3>1. pc[u] # "rotate"
      BY <2>1
    <3>2. pc[u] = "measureNew"
      BY <3>1, StepRotate DEF MeasureNew
    <3> QED
      BY <1>3, <3>2 DEF Excl, Section
  <2>3. ASSUME NEW S, S \subseteq D
        PROVE  Cardinality(S) <= e1
    <3> DEFINE a == Cardinality(S)
               b == Cardinality(D)
    <3>1. a \in Nat /\ a <= b /\ b \in Nat /\ b <= errors
      <4> HIDE DEF D
      <4> QED
        BY <2>1, <2>3, AtMost
    <3> HIDE DEF a, b, e1
    <3>2. a <= e1
      BY <1>0, <3>1
    <3> QED
      BY <3>2 DEF a
  <2>4. ASSUME NEW S, \A x, y \in S \ D : x = y, e1 = errors + 1
        PROVE  Cardinality(S) <= e1
    <3> DEFINE a == Cardinality(S)
               b == Cardinality(D)
    <3>1. a \in Nat /\ a <= b + 1 /\ b \in Nat /\ b <= errors
      <4> HIDE DEF D
      <4> QED
        BY <2>1, <2>4, AtMost
    <3> HIDE DEF a, b, e1
    <3>2. a <= e1
      BY <1>0, <2>4, <3>1
    <3> QED
      BY <3>2 DEF a
  <2>5. CASE ShiftBackup(t)
    <3> DEFINE r == shift[t]
    <3>1. /\ r \in Nat /\ r > 1 /\ r \in Slots /\ r - 1 \in Slots /\ pc' = pc
          /\ name'[r - 1] = None
          /\ \A q \in Slots \ {r - 1, r} : name'[q] = name[q]
          /\ name[r - 1] = None => name' = name
          /\ name[r - 1] # None => name'[r] = name[r - 1]
          /\ shift' = [shift EXCEPT ![t] = r - 1]
      BY <2>5, ShiftsOld
    <3>2. shift'[t] = r - 1
      BY <3>1 DEF Typed, ThreadsTyped
    <3>3. n1 = n
      BY <2>5, OpenedNext
    <3>4. i = r /\ i1 = r - 1
      <4> HIDE DEF r
      <4>1. shift[t] = r
        BY DEF r
      <4> QED
        BY <3>1, <3>2, <4>1 DEF Turn
    <3> HIDE DEF r
    <3>5. Doomed(nm1, n, r - 1) \subseteq Doomed(name, n, r)
      <4> HIDE DEF n
      <4> QED
        BY <1>0, <3>1, TurnDone
    <3>6. Doomed(nm1, n1, i1) \subseteq D
      BY <3>3, <3>4, <3>5
    <3>7. pc'[t] = "rotate"
      BY <1>3, <3>1
    <3> HIDE DEF n1, nm1, D, e1
    <3> QED
      BY <2>2, <2>3, <3>6, <3>7
  <2>6. CASE ShiftBackupFails(t)
    <3> DEFINE r == shift[t]
    <3>1. /\ pc[t] = "rotate" /\ r > 1 /\ r \in Nat /\ r <= Backups - 1
          /\ shift'[t] = r - 1 /\ nm1 = name /\ content' = content /\ pc' = pc
          /\ e1 = errors + 1
      <4>1. shift[t] \in {0} \cup (-1 .. Backups - 1)
        BY DEF Typed, ThreadsTyped
      <4> QED
        BY <1>0, <2>6, <4>1 DEF ShiftBackupFails, Typed, ThreadsTyped, Fails, fileVars
    <3>2. n1 = n
      BY <3>1, OpenedNext
    <3>3. i = r /\ i1 = r - 1
      <4> HIDE DEF r
      <4>1. shift[t] = r
        BY DEF r
      <4> QED
        BY <3>1, <4>1 DEF Turn
    <3> HIDE DEF r
    <3>4. r \in Slots /\ r - 1 \in Slots
      BY <1>0, <3>1
    <3>5. Doomed(name, n, r - 1) \subseteq Doomed(name, n, r) \cup {name[r - 1]}
      <4> HIDE DEF n
      <4> QED
        BY <1>0, <3>4, TurnFailed
    <3>6. Doomed(nm1, n1, i1) \subseteq D \cup {name[r - 1]}
      BY <3>1, <3>2, <3>3, <3>5
    <3>7. pc'[t] = "rotate"
      BY <1>3, <3>1
    <3> HIDE DEF n1, nm1, D, e1
    <3> QED
      BY <2>2, <2>4, <3>1, <3>6, <3>7
  <2>7. CASE RotateCurrent(t)
    <3>1. /\ nm1[0] = None /\ pc'[t] = "openNew"
          /\ \A s \in Slots \ {0, 1} : nm1[s] = name[s]
          /\ Keep # 0 => nm1[1] = n
      BY <2>1, <2>7, RotatesCurrent, Numbers
    <3>2. n1 = n + 1
      BY <2>7, OpenedNext
    <3>3. i = 1
      <4>1. shift[t] <= 1 /\ shift[t] \in Int
        BY <2>7, Numbers DEF RotateCurrent
      <4> QED
        BY <4>1 DEF Turn
    <3>4. Missing(nm1, n + 1) \subseteq Doomed(name, n, 1)
      <4> HIDE DEF n, nm1
      <4> QED
        BY <1>0, <2>1, <3>1, TurnedOver
    <3>5. Missing(nm1, n1) \subseteq D
      BY <3>2, <3>3, <3>4
    <3> HIDE DEF n1, nm1, D, e1
    <3> QED
      BY <2>2, <2>3, <3>1, <3>5
  <2>8. CASE ~ShiftBackup(t) /\ ~RotateCurrent(t)
    <3>1. nm1 = name /\ n1 = n
      <4>1. \A u \in Threads : ~ShiftBackup(u) /\ ~RotateCurrent(u)
        <5>1. \A u \in Threads : ShiftBackup(u) \/ RotateCurrent(u) => pc[u] = "rotate"
          BY DEF ShiftBackup, RotateCurrent
        <5> QED
          BY <2>1, <2>8, <5>1
      <4>2. OpenLog => name' = name /\ content' = content
        BY <2>1 DEF OpenLog
      <4> QED
        BY <4>1, <4>2, OpenedNext, StepFiles
    <3>2. CASE pc'[t] = "rotate" /\ shift'[t] = shift[t]
      <4>1. i1 = i
        BY <3>2 DEF Turn
      <4>2. Doomed(nm1, n1, i1) \subseteq D
        BY <3>1, <4>1
      <4> HIDE DEF n1, nm1, D, e1
      <4> QED
        BY <2>2, <2>3, <3>2, <4>2
    <3>3. CASE pc'[t] # "rotate" /\ e1 = errors + 1
      <4>1. ASSUME NEW x \in Missing(nm1, n1) \ D, NEW y \in Missing(nm1, n1) \ D
            PROVE  x = y
        <5> HIDE DEF n, i
        <5> QED
          BY <1>0, <1>1, <2>1, <3>1, <4>1, TurnsEnd DEF Ranked
      <4>2. \A x, y \in Missing(nm1, n1) \ D : x = y
        BY <4>1
      <4> HIDE DEF n1, nm1, D, e1
      <4> QED
        BY <2>2, <2>4, <3>3, <4>2
    <3> QED
      BY <1>3, <2>6, <2>7, <2>8, <3>2, <3>3, StepRotate
  <2> QED
    BY <2>5, <2>7, <2>8
<1>4. ASSUME \A t \in Threads : pc[t] # "rotate"
      PROVE  /\ \A t \in Threads : pc'[t] = "rotate" =>
                   Cardinality(Doomed(nm1, n1, Turn(t)')) <= e1
             /\ (\A t \in Threads : pc'[t] # "rotate") => Cardinality(Missing(nm1, n1)) <= e1
  <2> DEFINE M == Missing(name, n)
             M1 == Missing(nm1, n1)
  <2>1. IsFiniteSet(M) /\ Cardinality(M) <= errors
    BY <1>0, <1>4, FewFiles DEF Backed
  <2>2. n1 = n /\ M1 \subseteq M
    <3>1. \A u \in Threads : ~ShiftBackup(u) /\ ~RotateCurrent(u)
      BY <1>4 DEF ShiftBackup, RotateCurrent
    <3>2. CASE OpenLog /\ name[0] = None
      <4>1. n1 = n /\ \A s \in Slots \ {0} : nm1[s] = name[s]
        BY <3>2, OpenLogOpens, OpenedNext
      <4>2. ASSUME NEW f \in Missing(nm1, n)
            PROVE  f \in Missing(name, n)
        <5>1. /\ f \in (n - Keep) .. (n - 1)
              /\ IF f >= 1 THEN \A s \in Slots : nm1[s] # f
                 ELSE \E s \in Slots : nm1[s] # None /\ s >= n - f
          BY <4>2 DEF Missing
        <5> HIDE DEF n, nm1
        <5>2. f \in Int /\ (f >= 1 => f # None)
          BY <1>0, <5>1, KeepNat
        <5>3. CASE f >= 1
          <6>1. \A s \in Slots : name[s] # f
            BY <3>2, <4>1, <5>1, <5>2, <5>3
          <6> QED
            BY <5>1, <5>3, <6>1 DEF Missing
        <5>4. CASE ~(f >= 1)
          <6>1. PICK s \in Slots : nm1[s] # None /\ s >= n - f
            BY <5>1, <5>4
          <6>2. s # 0
            BY <1>0, <5>2, <5>4, <6>1
          <6> QED
            BY <4>1, <5>1, <5>4, <6>1, <6>2 DEF Missing
        <5> QED
          BY <5>3, <5>4
      <4> QED
        BY <4>1, <4>2
    <3>3. CASE ~(OpenLog /\ name[0] = None)
      <4>1. OpenLog => name' = name /\ content' = content
        BY <3>3 DEF OpenLog
      <4>2. nm1 = name /\ n1 = n
        BY <3>1, <4>1, OpenedNext, StepFiles
      <4> QED
        BY <4>2
    <3> QED
      BY <3>2, <3>3
  <2>3. Cardinality(M1) <= e1
    <3> DEFINE a == Cardinality(M1)
               b == Cardinality(M)
    <3>1. a \in Nat /\ a <= b /\ b \in Nat /\ b <= errors
      <4> HIDE DEF M, M1
      <4> QED
        BY <2>1, <2>2, AtMost
    <3> HIDE DEF a, b, e1
    <3>2. a <= e1
      BY <1>0, <3>1
    <3> QED
      BY <3>2 DEF a
  <2>4. ASSUME NEW t \in Threads, pc'[t] = "rotate"
        PROVE  Cardinality(Doomed(nm1, n1, Turn(t)')) <= e1
    <3> DEFINE i1 == Turn(t)'
               D1 == Doomed(name, n, i1)
    <3>1. MeasureNew(t) /\ shift'[t] = Backups - 1
      BY <1>4, <2>4, StepRotate
    <3>2. nm1 = name /\ e1 = errors /\ n1 = n
      BY <2>2, <3>1 DEF MeasureNew, fileVars
    <3>3. i1 \in Nat /\ (Keep # 0 => i1 = Keep /\ i1 \in Slots)
      <4>1. i1 = IF Backups - 1 < 1 THEN 1 ELSE Backups - 1
        BY <3>1 DEF Turn
      <4> HIDE DEF i1
      <4> QED
        BY <1>0, <4>1, Numbers
    <3>4. Cardinality(D1) <= Cardinality(M)
      <4>1. name \in [Slots -> Nat \cup {None}]
        BY Numbers
      <4> HIDE DEF i1, n
      <4> QED
        BY <1>0, <1>1, <3>3, <4>1, TurnsBegin DEF Ranked
    <3>5. Cardinality(D1) \in Nat /\ Cardinality(M) \in Nat
      <4>1. IsFiniteSet(D1) /\ IsFiniteSet(M)
        BY <1>0, FewFiles
      <4> HIDE DEF D1, M
      <4> QED
        BY <4>1, AtMost
    <3> DEFINE a == Cardinality(D1)
               b == Cardinality(M)
    <3>6. a \in Nat /\ a <= b /\ b \in Nat /\ b <= errors
      BY <2>1, <3>4, <3>5
    <3> HIDE DEF a, b
    <3>7. a <= errors
      BY <1>0, <3>6
    <3> QED
      BY <3>2, <3>7 DEF a
  <2> QED
    BY <2>3, <2>4
<1> QED
  BY <1>3, <1>4

-----------------------------------------------------------------------------
(* A thread's descriptors go on to newer files only *)

\* f is not older than a file t has written to.
Reached(t, f) == \A x \in Places : Line(x)[1] = t => x[1] <= f

NotBeyond(t) == \A x \in Places : Line(x)[1] = t => Line(x)[2] <= written[t]
Onward(t) ==
    /\ logFd[ProcessOf[t]] # None => /\ Reached(t, logFd[ProcessOf[t]])
                                     /\ pc[t] = "write" => fd[t] <= logFd[ProcessOf[t]]
    /\ pc[t] = "write" => Reached(t, fd[t])
InOrder(t) ==
    \A n \in 1 .. written[t] :
       \E x \in Places : /\ Line(x) = <<t, n>>
                        /\ \A y \in Places : Line(y)[1] = t /\ Line(y)[2] > n => Before(x, y)
OrderedOf(t) == NotBeyond(t) /\ Onward(t) /\ InOrder(t)
Ordered == \A t \in Threads : OrderedOf(t)

\* A process moves on to the newest file.
LEMMA StepLogFd ==
    ASSUME Typed, Counted, Excl, Current, [Next]_vars, ~unlocked', NEW p \in Processes
    PROVE  logFd'[p] \in {logFd[p], None, Len(content')}
<1> USE DEF Typed, ThreadsTyped
<1>0. /\ Current' /\ (OpenLog => name'[0] = Opened /\ Opened \in Files' /\ None \notin Files')
  <2>1. Typed'
    BY TypedNext
  <2>2. None \notin Files'
    <3>1. Files' = 1 .. Len(content') /\ Len(content') \in Nat
      BY <2>1, LenProperties DEF Files, FilesTyped
    <3>2. Files' \subseteq Nat
      BY <3>1
    <3> QED
      BY <3>2, FilesAssumption
  <2> HIDE DEF Typed
  <2> QED
    BY <2>2, CurrentNext, OpenLogOpens
<1>1. OpenLog => Opened = Len(content')
  BY <1>0 DEF Current
<1>2. ASSUME NEW t \in Threads, PrepareLogFdOpens(t)
      PROVE  logFd'[p] \in {logFd[p], None, Len(content')}
  BY <1>1, <1>2 DEF PrepareLogFdOpens
<1>3. ASSUME NEW t \in Threads, Switch(t)
      PROVE  logFd'[p] \in {logFd[p], None, Len(content')}
  <2>1. logFd'[p] = logFd[p] \/ logFd'[p] = newFd[t]
    BY <1>3 DEF Switch
  <2>2. newFd[t] # None => newFd[t] = Len(content)
    BY <1>3 DEF Switch, Current, CurrentOf
  <2>3. content' = content
    BY <1>3 DEF Switch
  <2> QED
    BY <2>1, <2>2, <2>3
<1>4. ASSUME NEW q \in Processes, Crash(q) \/ Construct(q)
      PROVE  logFd'[p] \in {logFd[p], None, Len(content')}
  BY <1>1, <1>4 DEF Crash, Construct
<1>5. ASSUME NEW t \in Threads, PrepareLogFd(t) \/ Failure(t)
      PROVE  logFd' = logFd
  BY <1>5 DEF PrepareLogFd, Failure, WriteFails, LockFails, ReopenFails, ShiftBackupFails,
              RotateCurrentFails, OpenNewFails, processVars
<1>6. ASSUME NEW t \in Threads, WriteLog(t), ~Switch(t)
      PROVE  logFd' = logFd
  BY <1>6 DEF WriteLog, Write, Measure, Lock, Reopen, MeasureNew, ShiftBackup, RotateCurrent, OpenNew,
     processVars
<1>7. UNCHANGED vars => logFd' = logFd
  BY DEF vars, processVars
<1> HIDE DEF Typed
<1> QED
  BY <1>2, <1>3, <1>4, <1>5, <1>6, <1>7 DEF Next

LEMMA StepWriting ==
    ASSUME Typed, Counted, Excl, Current, [Next]_vars, ~unlocked', NEW u \in Threads,
           pc'[u] = "write"
    PROVE  \/ pc[u] = "write" /\ fd'[u] = fd[u]
           \/ /\ logFd[ProcessOf[u]] # None /\ logFd' = logFd
              /\ fd'[u] = logFd[ProcessOf[u]]
           \/ fd'[u] = Len(content') /\ logFd'[ProcessOf[u]] = Len(content')
<1> DEFINE Stays == pc[u] = "write" /\ fd'[u] = fd[u]
           Takes == /\ logFd[ProcessOf[u]] # None /\ logFd' = logFd
                    /\ fd'[u] = logFd[ProcessOf[u]]
           Opens == fd'[u] = Len(content') /\ logFd'[ProcessOf[u]] = Len(content')
<1>0. OpenLog => Opened = Len(content')
  <2>1. ASSUME OpenLog
        PROVE  Opened # None
    <3>1. Typed' /\ Opened \in Files'
      BY <2>1, TypedNext, OpenLogOpens
    <3>2. Files' = 1 .. Len(content') /\ Len(content') \in Nat
      BY <3>1, LenProperties DEF Files, Typed, FilesTyped
    <3>3. Files' \subseteq Nat
      BY <3>2
    <3> QED
      BY <3>1, <3>3, FilesAssumption
  <2> QED
    BY <2>1, CurrentNext, OpenLogOpens DEF Current
<1> USE DEF Goto, Return, Typed, ThreadsTyped
<1>1. ASSUME NEW t \in Threads, PrepareLogFd(t)
      PROVE  Stays \/ Takes
  BY <1>1 DEF PrepareLogFd, processVars
<1>2. ASSUME NEW t \in Threads, PrepareLogFdOpens(t)
      PROVE  Stays \/ Opens
  BY <1>0, <1>2, ThreadsAssumption DEF PrepareLogFdOpens
<1>3. ASSUME NEW t \in Threads, WriteLog(t)
      PROVE  Stays
  <2>1. CASE Write(t) \/ Measure(t) \/ Lock(t) \/ Switch(t)
    BY <2>1 DEF Write, Measure, Lock, Switch
  <2>2. CASE Reopen(t) \/ MeasureNew(t) \/ ShiftBackup(t) \/ RotateCurrent(t) \/ OpenNew(t)
    BY <2>2 DEF Reopen, MeasureNew, ShiftBackup, RotateCurrent, OpenNew
  <2> HIDE DEF Stays, Typed
  <2> QED
    BY <1>3, <2>1, <2>2 DEF WriteLog
<1>4. ASSUME NEW t \in Threads, Failure(t)
      PROVE  Stays
  BY <1>4 DEF Failure, WriteFails, LockFails, ReopenFails, ShiftBackupFails, RotateCurrentFails,
              OpenNewFails
<1>5. ASSUME NEW p \in Processes, Crash(p) \/ Construct(p)
      PROVE  Stays
  BY <1>5 DEF Crash, Construct, threadVars
<1>6. UNCHANGED vars => Stays
  BY DEF vars, threadVars
<1> HIDE DEF Stays, Takes, Opens, Typed
<1>7. Stays \/ Takes \/ Opens
  BY <1>1, <1>2, <1>3, <1>4, <1>5, <1>6 DEF Next
<1> QED
  BY <1>7 DEF Stays, Takes, Opens

LEMMA LineTyped ==
    ASSUME NEW c, c \in Seq(Seq(LogLine)), NEW x \in PlacesOf(c)
    PROVE  LineOf(c, x)[2] \in Nat
<1>1. x[1] \in DOMAIN c /\ x[2] \in 1 .. MaxLines /\ x[2] <= Len(c[x[1]])
  BY DEF PlacesOf
<1>2. c[x[1]] \in Seq(LogLine)
  BY <1>1
<1>3. x[2] \in 1 .. Len(c[x[1]])
  <2>1. MaxLines \in Nat /\ Len(c[x[1]]) \in Nat
    BY <1>2, FilesAssumption
  <2> QED
    BY <1>1, <2>1
<1>4. c[x[1]][x[2]] \in LogLine
  BY <1>2, <1>3
<1> QED
  BY <1>4, FilesAssumption DEF LineOf, LogLine

LEMMA OrderedNext ==
    ASSUME Typed, Counted, Excl, Current, Ordered, [Next]_vars, ~unlocked'
    PROVE  Ordered'
<1> SUFFICES ASSUME NEW u \in Threads
             PROVE  OrderedOf(u)'
  BY DEF Ordered
<1> USE ThreadsAssumption
<1> DEFINE q == ProcessOf[u]
<1>0. /\ OrderedOf(u) /\ q \in Processes
      /\ logFd'[q] \in {logFd[q], None, Len(content')}
      /\ Files = 1 .. Len(content) /\ Len(content) \in Nat /\ written[u] \in Nat
      /\ Files' = 1 .. Len(content') /\ Len(content') \in Nat
      /\ logFd[q] # None => logFd[q] \in Nat
      /\ pc[u] = "write" => fd[u] \in Nat
  <2>1. Typed'
    BY TypedNext
  <2>2. Files' = 1 .. Len(content') /\ Len(content') \in Nat
    BY <2>1, LenProperties DEF Files, Typed, FilesTyped
  <2>3. Files = 1 .. Len(content) /\ Len(content) \in Nat
    BY LenProperties DEF Files, Typed, FilesTyped
  <2>4. Files \subseteq Nat
    BY <2>3
  <2>5. q \in Processes /\ OrderedOf(u) /\ written[u] \in Nat
    BY WrittenIsThere DEF Ordered
  <2>6. logFd'[q] \in {logFd[q], None, Len(content')}
    BY <2>5, StepLogFd
  <2>7. logFd[q] # None => logFd[q] \in Nat
    BY <2>4, <2>5 DEF Typed, ThreadsTyped
  <2>8. pc[u] = "write" => fd[u] \in Nat
    BY <2>4 DEF Typed, Descriptors
  <2> QED
    BY <2>2, <2>3, <2>5, <2>6, <2>7, <2>8
<1>1. \A x \in Places' : x[1] <= Len(content')
  <2>1. \A x \in Places' : x[1] \in Files'
    BY DEF Places
  <2> DEFINE l == Len(content')
  <2>2. Files' = 1 .. l /\ l \in Nat
    BY <1>0
  <2> HIDE DEF l
  <2>3. \A x \in Files' : x <= l
    BY <2>2
  <2> QED
    BY <2>1, <2>3 DEF l
<1>2. ASSUME FilesKept, written' = written
      PROVE  OrderedOf(u)'
  <2>1. Places' = Places /\ \A x \in Places : Line(x)' = Line(x)
    BY <1>2 DEF FilesKept, Places, Line
  <2>2. NotBeyond(u)'
    BY <1>0, <1>2, <2>1 DEF OrderedOf, NotBeyond
  <2>3. InOrder(u)'
    BY <1>0, <1>2, <2>1 DEF OrderedOf, InOrder
  <2>7. \A x \in Places' : Line(x)'[1] = u /\ logFd'[q] # None => x[1] <= logFd'[q]
    BY <1>0, <1>1, <2>1 DEF OrderedOf, Onward, Reached
  <2>8. ASSUME pc'[u] = "write"
        PROVE  /\ \A x \in Places' : Line(x)'[1] = u => x[1] <= fd'[u]
               /\ logFd'[q] # None => fd'[u] <= logFd'[q]
    <3>1. CASE pc[u] = "write" /\ fd'[u] = fd[u]
      <4>1. \A x \in Places' : Line(x)'[1] = u => x[1] <= fd'[u]
        BY <1>0, <2>1, <3>1 DEF OrderedOf, Onward, Reached
      <4>2. fd'[u] \in Files'
        BY <2>8, TypedNext DEF Typed, Descriptors
      <4>3. fd'[u] <= Len(content')
        <5> DEFINE l == Len(content')
                   g == fd'[u]
        <5>1. g \in 1 .. l /\ l \in Nat
          BY <1>0, <4>2
        <5> HIDE DEF l, g
        <5>2. g <= l
          BY <5>1
        <5> QED
          BY <5>2 DEF l, g
      <4>4. logFd[q] # None => fd'[u] <= logFd[q]
        BY <1>0, <3>1 DEF OrderedOf, Onward
      <4> QED
        BY <1>0, <4>1, <4>3, <4>4
    <3>2. CASE logFd[q] # None /\ logFd' = logFd /\ fd'[u] = logFd[q]
      BY <1>0, <2>7, <3>2
    <3>3. CASE fd'[u] = Len(content') /\ logFd'[q] = Len(content')
      BY <1>0, <1>1, <3>3
    <3> QED
      BY <2>8, <3>1, <3>2, <3>3, StepWriting
  <2>9. Onward(u)'
    BY <2>7, <2>8 DEF Onward, Reached
  <2> QED
    BY <2>2, <2>3, <2>9 DEF OrderedOf
<1>3. ASSUME NEW t \in Threads, Write(t)
      PROVE  OrderedOf(u)'
  <2> DEFINE f == fd[t]
             new == <<f, Len(content[f]) + 1>>
  <2>1. /\ f \in Files /\ Len(content[f]) \in Nat
        /\ Places' = Places \cup {new} /\ new \notin Places
        /\ \A x \in Places : LineOf(content', x) = LineOf(content, x)
        /\ LineOf(content', new) = <<t, written[t] + 1>>
        /\ written[t] \in Nat /\ written' = [written EXCEPT ![t] = @ + 1]
    BY <1>3, WriteAdds
  <2>2. /\ \A x \in Places : Line(x)' = Line(x)
        /\ \A x \in Places' : Line(x)' = LineOf(content', x)
    BY <2>1 DEF Line, LineOf
  <2>3. /\ \A x \in Places : x[1] \in Files /\ x[2] \in Nat /\ x[2] <= Len(content[x[1]])
        /\ Files \subseteq Nat
    BY <1>0, FilesAssumption DEF Places
  <2>4. logFd' = logFd /\ fd' = fd /\ pc[t] = "write" /\ pc'[t] = "measure"
        /\ (u # t => pc'[u] = pc[u] /\ written'[u] = written[u])
    BY <1>3, <2>1 DEF Write, Goto, processVars, Typed, ThreadsTyped
  <2>5. \A x \in Places' : Line(x)'[1] = u /\ u # t => x \in Places
    BY <2>1, <2>2
  <2>6. CASE u # t
    <3>1. NotBeyond(u)'
      BY <1>0, <2>2, <2>4, <2>5, <2>6 DEF OrderedOf, NotBeyond
    <3>2. Onward(u)'
      BY <1>0, <2>2, <2>4, <2>5, <2>6 DEF OrderedOf, Onward, Reached
    <3>3. InOrder(u)'
      BY SMTT(20), <1>0, <2>1, <2>2, <2>4, <2>5, <2>6 DEF OrderedOf, InOrder
    <3> QED
      BY <3>1, <3>2, <3>3 DEF OrderedOf
  <2>7. CASE u = t
    <3> DEFINE w == written[u]
    <3>0. w \in Nat /\ written'[u] = w + 1 /\ new \in Places' /\ LineOf(content', new) = <<u, w + 1>>
      BY <1>0, <2>1, <2>7 DEF Typed, ThreadsTyped
    <3> HIDE DEF w
    <3>1. NotBeyond(u)'
      <4> SUFFICES ASSUME NEW x \in Places', Line(x)'[1] = u
                   PROVE  Line(x)'[2] <= written'[u]
        BY DEF NotBeyond
      <4>1. CASE x \in Places
        <5> DEFINE n == Line(x)[2]
        <5>1. n <= w
          BY <1>0, <2>2, <4>1 DEF OrderedOf, NotBeyond, w
        <5>2. n \in Nat
          BY <4>1, LineTyped DEF n, Places, Files, PlacesOf, Line, LineOf, Typed, FilesTyped
        <5>3. Line(x)'[2] = n
          BY <2>2, <4>1
        <5> HIDE DEF n
        <5> QED
          BY <3>0, <5>1, <5>2, <5>3
      <4>2. CASE x \notin Places
        <5>1. x = new
          BY <2>1, <4>2
        <5>2. Line(x)'[2] = w + 1
          BY <2>2, <3>0, <5>1
        <5> QED
          BY <3>0, <5>2
      <4> QED
        BY <4>1, <4>2
    <3>2. Onward(u)'
      <4>1. \A x \in Places' : Line(x)'[1] = u /\ logFd[q] # None => x[1] <= logFd[q]
        BY <1>0, <2>1, <2>2, <2>4, <2>7 DEF OrderedOf, Onward, Reached
      <4> QED
        BY <2>4, <2>7, <4>1 DEF Onward, Reached
    <3>3. InOrder(u)'
      <4>1. SUFFICES ASSUME NEW n \in 1 .. w + 1
                     PROVE  \E x \in Places' : /\ Line(x)' = <<u, n>>
                                              /\ \A y \in Places' : Line(y)'[1] = u /\ Line(y)'[2] > n
                                                                     => Before(x, y)
        BY <3>0 DEF InOrder
      <4>2. CASE n = w + 1
        <5>2. \A y \in Places' : Line(y)'[1] = u => Line(y)'[2] <= w + 1
          BY <3>0, <3>1 DEF NotBeyond
        <5>3. ASSUME NEW y \in Places', Line(y)'[1] = u, Line(y)'[2] > n
              PROVE  FALSE
          <6>1. Line(y)'[2] \in Nat
            BY <5>3, TypedNext, LineTyped DEF Places, Files, PlacesOf, Line, LineOf, Typed, FilesTyped
          <6> QED
            BY <3>0, <4>2, <5>2, <5>3, <6>1
        <5>4. PICK x \in Places' : Line(x)' = <<u, n>>
          BY <2>2, <3>0, <4>2
        <5> QED
          BY <5>3, <5>4
      <4>3. CASE n # w + 1
        <5>1. n \in 1 .. w
          BY <3>0, <4>3
        <5>2. PICK x \in Places : /\ Line(x) = <<u, n>>
                                  /\ \A y \in Places : Line(y)[1] = u /\ Line(y)[2] > n => Before(x, y)
          BY <1>0, <5>1 DEF OrderedOf, InOrder, w
        <5>3. x[1] <= f
          BY <1>0, <2>4, <2>7, <5>2 DEF OrderedOf, Onward, Reached
        <5>4. Before(x, new)
          <6>1. x[1] \in Nat /\ f \in Nat /\ x[2] \in Nat /\ x[2] <= Len(content[x[1]])
            BY <2>1, <2>3
          <6>2. new[1] = f /\ new[2] = Len(content[f]) + 1
            OBVIOUS
          <6>3. CASE x[1] = f
            BY <2>1, <6>1, <6>2, <6>3 DEF Before
          <6>4. CASE x[1] # f
            BY <5>3, <6>1, <6>2, <6>4 DEF Before
          <6> QED
            BY <6>3, <6>4
        <5>5. \A y \in Places' : Line(y)'[1] = u /\ Line(y)'[2] > n => Before(x, y)
          BY <2>1, <2>2, <5>2, <5>4
        <5>6. x \in Places' /\ Line(x)' = <<u, n>>
          BY <2>1, <2>2, <5>2
        <5> QED
          BY <5>5, <5>6
      <4> QED
        BY <4>2, <4>3
    <3> QED
      BY <3>1, <3>2, <3>3 DEF OrderedOf
  <2> QED
    BY <2>6, <2>7
<1> QED
  BY <1>2, <1>3, StepWritesOrKeeps

-----------------------------------------------------------------------------
(* The invariant and the theorems *)

Unhurt == Excl /\ Current /\ Backed /\ Ordered
IInv == /\ Typed /\ Counted /\ Passing /\ Bounded
        /\ ~unlocked => Unhurt

LEMMA IInvInit == Init => IInv
<1> SUFFICES ASSUME Init
             PROVE  IInv
  OBVIOUS
<1> USE FilesAssumption, ErrorsAssumption, ThreadsAssumption
<1>1. Typed /\ Counted
  BY TypedInit
<1>2. /\ \A t \in Threads : pc[t] = "idle" /\ written[t] = 0
      /\ errors = 0 /\ content = << <<>> >> /\ name = [s \in Slots |-> IF s = 0 THEN 1 ELSE None]
      /\ Backups \in Nat /\ MaxSize \in Nat /\ MaxLines \in Nat
  BY DEF Init, FilesInit
<1>3. /\ 0 \in Slots /\ name[0] = 1 /\ Files = {1} /\ Len(content) = 1 /\ Len(content[1]) = 0
      /\ ~TooLarge(1) /\ 1 # None
  <2>1. 0 \in Slots
    BY NoFile, <1>1
  <2>2. Len(content) = 1 /\ Len(content[1]) = 0 /\ content[1] = <<>> /\ Files = {1}
    BY <1>2 DEF Files
  <2> QED
    BY <1>2, <2>1, <2>2 DEF TooLarge
<1>4. Places = {}
  <2>1. ASSUME NEW x \in Places
        PROVE  FALSE
    <3>1. x[1] = 1 /\ x[2] \in 1 .. MaxLines /\ x[2] <= Len(content[x[1]])
      BY <1>3 DEF Places
    <3> QED
      BY <3>1, <1>3
  <2> QED
    BY <2>1
<1>5. Passing
  BY <1>2 DEF Passing, PassingOf, Section
<1>6. Bounded
  <2>1. Outside = {}
    BY <1>2 DEF Outside, Section
  <2>2. Cardinality(Outside) = 0
    BY <2>1, FS_EmptySet
  <2> QED
    BY <1>2, <1>3, <2>2 DEF Bounded
<1>7. Excl
  BY <1>2 DEF Excl, Section
<1>8. Current
  BY <1>2, <1>3 DEF Current, CurrentOf
<1>9. Backed
  <2>1. \A s \in Slots \ {0} : name[s] = None
    BY <1>2
  <2>2. Keep \in Nat /\ Slots \subseteq Nat /\ 0 <= Keep
    BY KeepNat
  <2>3. Ranked
    BY <2>1, <2>2 DEF Ranked
  <2>4. Opened = 1
    BY <1>3 DEF Opened
  <2>5. Missing(name, 1) = {}
    <3> SUFFICES ASSUME NEW f \in Missing(name, 1)
                 PROVE  FALSE
      OBVIOUS
    <3>1. /\ f \in (1 - Keep) .. (1 - 1)
          /\ f < 1 => \E s \in Slots : name[s] # None /\ s >= 1 - f
      BY <2>2 DEF Missing
    <3>2. f \in Int /\ f < 1
      BY <2>2, <3>1
    <3>3. PICK s \in Slots : name[s] # None /\ s >= 1 - f
      BY <3>1, <3>2
    <3> QED
      BY <2>1, <2>2, <3>2, <3>3
  <2>6. Cardinality(Missing(name, Opened)) = 0
    BY <2>4, <2>5, FS_EmptySet
  <2>7. \A t \in Threads : pc[t] # "rotate"
    BY <1>2
  <2> QED
    BY <1>2, <2>3, <2>6, <2>7 DEF Backed
<1>10. Ordered
  <2>1. ASSUME NEW t \in Threads
        PROVE  OrderedOf(t)
    <3>1. 1 .. written[t] = {}
      BY <1>2
    <3> QED
      BY <1>2, <1>4, <3>1 DEF OrderedOf, NotBeyond, Onward, InOrder, Reached
  <2> QED
    BY <2>1 DEF Ordered
<1> QED
  BY <1>1, <1>5, <1>6, <1>7, <1>8, <1>9, <1>10 DEF IInv, Unhurt

LEMMA IInvNext == IInv /\ [Next]_vars => IInv'
<1> SUFFICES ASSUME IInv, [Next]_vars
             PROVE  IInv'
  OBVIOUS
<1>1. Typed /\ Counted /\ Passing /\ Bounded
  BY DEF IInv
<1>2. Typed' /\ Counted' /\ Passing' /\ Bounded'
  BY <1>1, TypedNext, CountedNext, PassingNext, BoundedNext
<1>3. ASSUME ~unlocked'
      PROVE  Unhurt'
  <2>1. Excl /\ Current /\ Backed /\ Ordered
    BY <1>3, StepLocked DEF IInv, Unhurt
  <2> QED
    BY <1>1, <1>3, <2>1, ExclNext, CurrentNext, BackedNext, OrderedNext DEF Unhurt
<1> QED
  BY <1>2, <1>3 DEF IInv

LEMMA Invariance == Spec => []IInv
BY IInvInit, IInvNext, PTL DEF Spec

\* Descriptors are of files that were created, and the lock file is locked by a thread
\* or by nobody.
THEOREM SafeLoggerTypeCorrect == Spec => []TypeOK
<1>1. IInv => TypeOK
  BY TypedIsTypeOK DEF IInv
<1> QED
  BY <1>1, Invariance, PTL

LEMMA FewGivenUp ==
    ASSUME Typed, Excl, Current, Backed
    PROVE  Cardinality(GivenUpEarly) <= errors
<1> DEFINE L == Len(content)
           n == Opened
           G == GivenUpEarly
<1>0. /\ L \in Nat /\ Files = 1 .. L /\ Keep \in Nat /\ errors \in Nat
      /\ n \in Nat /\ n >= 1 /\ 0 \in Slots
  BY Numbers, NoFile
<1>1. /\ name[0] # None => name[0] = L /\ n = L
      /\ name[0] = None => n = L + 1
      /\ \A f \in Files : f # name[0] => TooLarge(f)
  BY DEF Opened, Current
<1> HIDE DEF L, n
\* A file given up early was followed by fewer than Keep full ones.
<1>2. ASSUME NEW f \in G, NEW top \in Nat, top <= L, \A g \in Files : g <= top => TooLarge(g)
      PROVE  f \in Nat /\ top - f < Keep
  <2> DEFINE R == (f + 1) .. top
             k == Cardinality(FullAfter(f))
             c == Cardinality(R)
  <2>1. f \in Nat /\ f >= 1 /\ f <= L /\ k < Keep
    BY <1>0, <1>2 DEF GivenUpEarly
  <2>2. IsFiniteSet(FullAfter(f)) /\ k \in Nat
    <3>1. FullAfter(f) \subseteq 1 .. L /\ IsFiniteSet(1 .. L)
      BY <1>0, FS_Interval DEF FullAfter
    <3> QED
      BY <3>1, FS_Subset, FS_CardinalityType
  <2>3. R \subseteq FullAfter(f)
    <3> SUFFICES ASSUME NEW g \in R
                 PROVE  g \in FullAfter(f)
      OBVIOUS
    <3>1. g \in 1 .. L /\ g > f /\ g <= top
      BY <1>0, <1>2, <2>1
    <3> QED
      BY <1>0, <1>2, <3>1 DEF FullAfter
  <2>4. c <= k
    BY <2>2, <2>3, FS_Subset
  <2>5. c = IF f + 1 > top THEN 0 ELSE top - (f + 1) + 1
    <3>1. f + 1 \in Int /\ top \in Int
      BY <2>1
    <3> QED
      BY <3>1, FS_Interval
  <2> HIDE DEF c, k, R
  <2> QED
    BY <1>0, <2>1, <2>2, <2>4, <2>5
<1>3. ASSUME NEW f \in G
      PROVE  f \in Nat /\ f >= 1 /\ f <= n - 1 /\ f >= n - Keep /\ \A s \in Slots : name[s] # f
  <2>1. f \in Files \ Named
    BY <1>3 DEF GivenUpEarly
  <2>2. \A s \in Slots : name[s] # f
    BY <1>0, <2>1, NoFile DEF Named
  <2>3. f \in Nat /\ f >= 1 /\ f <= L /\ f <= n - 1
    <3>1. f \in Nat /\ f >= 1 /\ f <= L
      BY <1>0, <2>1
    <3>2. CASE name[0] = None
      BY <1>0, <1>1, <3>1, <3>2
    <3>3. CASE name[0] # None
      <4>1. n = L /\ f # L
        BY <1>0, <1>1, <2>2, <3>3
      <4> QED
        BY <1>0, <3>1, <4>1
    <3> QED
      BY <3>2, <3>3
  <2> DEFINE top == n - 1
  <2>4. top \in Nat /\ top <= L /\ \A g \in Files : g <= top => TooLarge(g)
    <3>1. top \in Nat /\ top < n
      BY <1>0
    <3>2. CASE name[0] = None
      <4>1. top <= L
        BY <1>0, <1>1, <3>2
      <4>2. None \notin Files
        BY NoFile
      <4> QED
        BY <1>1, <3>1, <3>2, <4>1, <4>2
    <3>3. CASE name[0] # None
      <4>1. n = L /\ name[0] = n
        BY <1>1, <3>3
      <4>2. \A g \in Files : g <= top => g # n
        BY <1>0, <3>1
      <4> QED
        BY <1>0, <1>1, <3>1, <4>1, <4>2
    <3> QED
      BY <3>2, <3>3
  <2> HIDE DEF top
  <2>5. top - f < Keep
    BY <1>2, <2>4
  <2>6. f >= n - Keep
    BY <1>0, <2>3, <2>5 DEF top
  <2> QED
    BY <2>2, <2>3, <2>6
<1>4. CASE \A t \in Threads : pc[t] # "rotate"
  <2> DEFINE M == Missing(name, n)
  <2>1. G \subseteq M
    <3> SUFFICES ASSUME NEW f \in G
                 PROVE  f \in M
      OBVIOUS
    <3>1. f >= 1 /\ f \in (n - Keep) .. (n - 1) /\ \A s \in Slots : name[s] # f
      BY <1>0, <1>3
    <3> QED
      BY <3>1 DEF Missing
  <2>2. IsFiniteSet(M) /\ Cardinality(M) <= errors
    BY <1>0, <1>4, FewFiles DEF Backed, n
  <2> HIDE DEF M, G
  <2>3. Cardinality(G) \in Nat /\ Cardinality(G) <= Cardinality(M) /\ Cardinality(M) \in Nat
    BY <2>1, <2>2, AtMost
  <2>4. Cardinality(G) <= errors
    BY <1>0, <2>2, <2>3
  <2> QED
    BY <2>4 DEF G
<1>5. ASSUME NEW t \in Threads, pc[t] = "rotate"
      PROVE  Cardinality(GivenUpEarly) <= errors
  <2> DEFINE M == Doomed(name, n, Turn(t))
  <2>1. n = L /\ \A g \in Files : TooLarge(g)
    <3>1. name[0] # None /\ TooLarge(name[0])
      BY <1>5, InRotation
    <3> QED
      BY <1>1, <3>1
  <2>2. G \subseteq M
    <3> SUFFICES ASSUME NEW f \in G
                 PROVE  f \in M
      OBVIOUS
    <3>1. n - f < Keep
      BY <1>0, <1>2, <2>1
    <3>2. f >= 1 /\ f \in (n - Keep + 1) .. (n - 1) /\ \A s \in Slots : name[s] # f
      BY <1>0, <1>3, <3>1
    <3> QED
      BY <3>2 DEF Doomed
  <2>3. IsFiniteSet(M) /\ Cardinality(M) <= errors
    BY <1>0, <1>5, FewFiles DEF Backed, n
  <2> HIDE DEF M, G
  <2>4. Cardinality(G) \in Nat /\ Cardinality(G) <= Cardinality(M) /\ Cardinality(M) \in Nat
    BY <2>2, <2>3, AtMost
  <2>5. Cardinality(G) <= errors
    BY <1>0, <2>3, <2>4
  <2> QED
    BY <2>5 DEF G
<1> QED
  BY <1>4, <1>5

\* In the code, write_log() checks the size of the file again once it has the lock
\* file, and rotate_log() goes from the oldest backup to the newest.  So no file is
\* given up too early, nor grows without bound.
THEOREM FilesGivenUpForNewer == Spec => []GivenUpForNewer
<1>1. IInv => GivenUpForNewer
  <2> SUFFICES ASSUME IInv
               PROVE  GivenUpForNewer
    OBVIOUS
  <2> USE FilesAssumption
  <2>1. Typed /\ Counted /\ Bounded /\ (~unlocked => Excl /\ Current /\ Backed)
    BY DEF IInv, Unhurt
  <2>2. ASSUME NEW f \in Files
        PROVE  Len(content[f]) <= MaxSize + Cardinality(Threads) * (1 + errors)
    <3> DEFINE l == Len(content[f])
               T == Cardinality(Threads)
               k == Cardinality(Outside)
               m == Cardinality(MayWrite(f))
    <3>1. T \in Nat /\ k \in Nat /\ m \in Nat /\ errors \in Nat /\ l \in Nat /\ k <= errors
      <4>1. Outside \subseteq Threads /\ MayWrite(f) \subseteq Threads
        BY DEF Outside, MayWrite
      <4> QED
        BY <2>1, <4>1, SomeThreads, Numbers, LinesOfFile DEF Bounded
    <3>2. l > MaxSize => l - MaxSize + m <= T * (1 + errors - k)
      BY <2>1 DEF Bounded, Spare, TooLarge
    <3> HIDE DEF l, T, k, m
    <3>3. T * (1 + errors - k) <= T * (1 + errors) /\ T * (1 + errors) \in Nat /\ T * (1 + errors - k) \in Nat
      <4>1. 1 + errors - k \in Nat /\ 1 + errors \in Nat /\ 1 + errors - k <= 1 + errors
        BY <3>1
      <4> QED
        BY <3>1, <4>1, Times
    <3> DEFINE a == T * (1 + errors - k)
               b == T * (1 + errors)
    <3>4. a \in Nat /\ b \in Nat /\ a <= b /\ (l > MaxSize => l - MaxSize + m <= a)
      BY <3>2, <3>3
    <3> HIDE DEF a, b
    <3>5. l <= MaxSize + b
      BY <3>1, <3>4
    <3> QED
      BY <3>5 DEF b, l, T
  <2>3. ASSUME ~unlocked
        PROVE  Cardinality(GivenUpEarly) <= errors
    BY <2>1, <2>3, FewGivenUp
  <2> QED
    BY <2>2, <2>3 DEF GivenUpForNewer
<1> QED
  BY <1>1, Invariance, PTL

\* In the code, _log_fd is only replaced, under the write lock, by a descriptor of the
\* path, opened while the lock file was held: a thread goes on to newer files only.
THEOREM LinesInThreadOrder == Spec => []ThreadOrder
<1>1. IInv => ThreadOrder
  <2>1. IInv => TypeOK
    BY TypedIsTypeOK DEF IInv
  <2>2. IInv /\ ~unlocked => \A t \in Threads : InOrder(t)
    BY DEF IInv, Unhurt, Ordered, OrderedOf
  <2> QED
    BY <2>1, <2>2 DEF ThreadOrder, InOrder
<1> QED
  BY <1>1, Invariance, PTL

-----------------------------------------------------------------------------
(* CLogger and CLogThread: sums over the loggers *)

RestOf(f, n, l) == {x \in (Loggers \ {l}) \X (1 .. n) : x[2] <= f[x[1]]}

LEMMA TotalNat ==
    ASSUME NEW n \in Nat, NEW f \in [Loggers -> 0 .. n]
    PROVE  Total(f, n) \in Nat
<1> DEFINE all == {x \in Loggers \X (1 .. n) : x[2] <= f[x[1]]}
<1>1. \A S, T : IsFiniteSet(S) /\ IsFiniteSet(T) => IsFiniteSet(S \X T)
  BY FS_Product, Zenon
<1>2. IsFiniteSet(Loggers) /\ IsFiniteSet(1 .. n)
  BY FS_Interval, LoggersAssumption
<1>3. IsFiniteSet(Loggers \X (1 .. n)) /\ all \subseteq Loggers \X (1 .. n)
  BY <1>1, <1>2
<1>4. IsFiniteSet(all)
  BY <1>3, FS_Subset
<1> HIDE DEF all
<1> QED
  BY <1>4, FS_CardinalityType DEF Total, all

\* What the sum of f owes to one logger.
LEMMA TotalSplit ==
    ASSUME NEW n \in Nat, NEW f \in [Loggers -> 0 .. n], NEW l \in Loggers
    PROVE  /\ Total(f, n) \in Nat
           /\ Cardinality(RestOf(f, n, l)) \in Nat
           /\ Total(f, n) = Cardinality(RestOf(f, n, l)) + f[l]
<1> DEFINE all == {x \in Loggers \X (1 .. n) : x[2] <= f[x[1]]}
           own == {l} \X (1 .. f[l])
<1>0. f[l] \in 0 .. n
  OBVIOUS
<1>1. \A S, T : IsFiniteSet(S) /\ IsFiniteSet(T)
                  => /\ IsFiniteSet(S \X T)
                     /\ Cardinality(S \X T) = Cardinality(S) * Cardinality(T)
  BY FS_Product, Zenon
<1>2. IsFiniteSet(Loggers) /\ IsFiniteSet(1 .. n) /\ IsFiniteSet({l}) /\ IsFiniteSet(1 .. f[l])
  <2>1. IsFiniteSet(1 .. n)
    BY FS_Interval
  <2>2. f[l] \in Int
    BY <1>0
  <2>3. IsFiniteSet(1 .. f[l])
    BY <2>2, FS_Interval
  <2>4. IsFiniteSet({l})
    BY FS_Singleton
  <2> QED
    BY <2>1, <2>3, <2>4, LoggersAssumption
<1>3. IsFiniteSet(own) /\ Cardinality(own) = f[l]
  <2>1. Cardinality({l}) = 1
    BY FS_Singleton
  <2> DEFINE v == f[l]
  <2>2. v \in Nat
    BY <1>0
  <2> HIDE DEF v
  <2>3. Cardinality(1 .. v) = v
    BY <2>2, FS_Interval
  <2>4. IsFiniteSet(own) /\ Cardinality(own) = Cardinality({l}) * Cardinality(1 .. f[l])
    BY <1>1, <1>2, Zenon
  <2>5. Cardinality({l}) * Cardinality(1 .. v) = v
    BY <2>1, <2>2, <2>3
  <2> QED
    BY <2>4, <2>5 DEF v
<1>4. IsFiniteSet(all)
  <2>1. IsFiniteSet(Loggers \X (1 .. n)) /\ all \subseteq Loggers \X (1 .. n)
    BY <1>1, <1>2
  <2> QED
    BY <2>1, FS_Subset
<1>5. all = RestOf(f, n, l) \cup own /\ RestOf(f, n, l) \cap own = {}
  BY <1>0 DEF RestOf
<1>6. IsFiniteSet(RestOf(f, n, l))
  BY <1>4, <1>5, FS_Subset
<1>7. Cardinality(all) = Cardinality(RestOf(f, n, l)) + Cardinality(own) - Cardinality({})
  BY <1>3, <1>5, <1>6, FS_Union
<1>8. Cardinality(RestOf(f, n, l)) \in Nat /\ Cardinality({}) = 0
  BY <1>6, FS_CardinalityType, FS_EmptySet
<1>9. Cardinality(all) = Cardinality(RestOf(f, n, l)) + f[l]
  BY <1>0, <1>3, <1>7, <1>8
<1> HIDE DEF all
<1>10. Cardinality(all) \in Nat
  BY <1>0, <1>8, <1>9
<1> QED
  BY <1>8, <1>9, <1>10 DEF Total, all

\* The sum follows the one value that changes.
LEMMA TotalChange ==
    ASSUME NEW n \in Nat, NEW f \in [Loggers -> 0 .. n], NEW l \in Loggers,
           NEW v \in 0 .. n
    PROVE  Total([f EXCEPT ![l] = v], n) = Total(f, n) - f[l] + v
<1> DEFINE g == [f EXCEPT ![l] = v]
<1>1. g \in [Loggers -> 0 .. n] /\ g[l] = v /\ f[l] \in 0 .. n
  OBVIOUS
<1>2. RestOf(g, n, l) = RestOf(f, n, l)
  BY DEF RestOf
<1> HIDE DEF g
<1>3. /\ Total(f, n) = Cardinality(RestOf(f, n, l)) + f[l]
      /\ Total(g, n) = Cardinality(RestOf(g, n, l)) + g[l]
      /\ Cardinality(RestOf(f, n, l)) \in Nat
  BY <1>1, TotalSplit
<1> QED
  BY <1>1, <1>2, <1>3 DEF g

LEMMA TotalZero ==
    ASSUME NEW n \in Nat, NEW f \in [Loggers -> 0 .. n]
    PROVE  Total(f, n) <= 0 <=> \A l \in Loggers : f[l] = 0
<1>1. ASSUME Total(f, n) <= 0, NEW l \in Loggers
      PROVE  f[l] = 0
  <2>1. f[l] \in 0 .. n
    OBVIOUS
  <2> QED
    BY <1>1, <2>1, TotalSplit
<1>2. ASSUME \A l \in Loggers : f[l] = 0
      PROVE  Total(f, n) = 0
  <2>1. {x \in Loggers \X (1 .. n) : x[2] <= f[x[1]]} = {}
    BY <1>2
  <2> QED
    BY <2>1, FS_EmptySet DEF Total
<1> QED
  BY <1>1, <1>2

-----------------------------------------------------------------------------
(* What a batch takes and what it writes *)

StopLast(q) == \A i \in DOMAIN q : q[i] = Stop => i = Len(q)

\* The lines are in order: those in the file, those lost and those in the queue.
InSequence(f, q, lost, n) ==
    /\ \A i, j \in DOMAIN f : i < j => f[i] < f[j]
    /\ \A i, j \in DOMAIN q : i < j => q[j] = Stop \/ q[i] < q[j]
    /\ \A i \in DOMAIN f, j \in DOMAIN q : q[j] = Stop \/ f[i] < q[j]
    /\ ToSet(f) \cup (ToSet(q) \ {Stop}) \cup lost = 1 .. n
    /\ (ToSet(f) \cup ToSet(q)) \cap lost = {}

LEMMA InSet == ASSUME NEW S, NEW q, q \in Seq(S)
               PROVE  ToSet(q) = {q[i] : i \in 1 .. Len(q)} /\ DOMAIN q = 1 .. Len(q)
                      /\ Len(q) \in Nat /\ ToSet(q) \subseteq S
<1>1. Len(q) \in Nat /\ DOMAIN q = 1 .. Len(q) /\ \A i \in 1 .. Len(q) : q[i] \in S
  OBVIOUS
<1> QED
  BY <1>1 DEF ToSet

LEMMA Appends ==
    ASSUME NEW q, q \in Seq(Nat), NEW m \in Nat
    PROVE  /\ Append(q, m) \in Seq(Nat) /\ Len(Append(q, m)) = Len(q) + 1
           /\ ToSet(Append(q, m)) = ToSet(q) \cup {m}
           /\ DOMAIN q = 1 .. Len(q) /\ DOMAIN Append(q, m) = 1 .. (Len(q) + 1)
           /\ \A i \in 1 .. Len(q) : Append(q, m)[i] = q[i]
           /\ Append(q, m)[Len(q) + 1] = m
<1>1. /\ Append(q, m) \in Seq(Nat) /\ Len(Append(q, m)) = Len(q) + 1 /\ Len(q) \in Nat
      /\ DOMAIN q = 1 .. Len(q) /\ DOMAIN Append(q, m) = 1 .. (Len(q) + 1)
      /\ \A i \in 1 .. Len(q) : Append(q, m)[i] = q[i]
      /\ Append(q, m)[Len(q) + 1] = m
  OBVIOUS
<1>2. ToSet(Append(q, m)) = ToSet(q) \cup {m}
  <2> DEFINE r == Append(q, m)
  <2>1. ToSet(r) = {r[i] : i \in 1 .. Len(q) + 1} /\ ToSet(q) = {q[i] : i \in 1 .. Len(q)}
    BY <1>1 DEF ToSet
  <2>2. \A i \in 1 .. Len(q) : i \in 1 .. Len(q) + 1
    BY <1>1
  <2>3. \A i \in 1 .. Len(q) + 1 : i \in 1 .. Len(q) \/ i = Len(q) + 1
    BY <1>1
  <2>4. Len(q) + 1 \in 1 .. Len(q) + 1
    BY <1>1
  <2> HIDE DEF r
  <2>5. ASSUME NEW x \in ToSet(r)
        PROVE  x \in ToSet(q) \cup {m}
    BY <2>1, <2>3, <1>1 DEF r
  <2>6. ASSUME NEW x \in ToSet(q) \cup {m}
        PROVE  x \in ToSet(r)
    BY <2>1, <2>2, <2>4, <1>1 DEF r
  <2> QED
    BY <2>5, <2>6 DEF r
<1> QED
  BY <1>1, <1>2

\* What a batch of b messages takes from a queue, and what it leaves.
LEMMA Parts ==
    ASSUME NEW q, q \in Seq(Nat), NEW b \in 0 .. Len(q)
    PROVE  /\ SubSeq(q, 1, b) \in Seq(Nat) /\ Len(SubSeq(q, 1, b)) = b
           /\ DOMAIN SubSeq(q, 1, b) = 1 .. b
           /\ \A i \in 1 .. b : SubSeq(q, 1, b)[i] = q[i]
           /\ SubSeq(q, b + 1, Len(q)) \in Seq(Nat)
           /\ Len(SubSeq(q, b + 1, Len(q))) = Len(q) - b
           /\ DOMAIN SubSeq(q, b + 1, Len(q)) = 1 .. Len(q) - b
           /\ \A i \in 1 .. Len(q) - b : SubSeq(q, b + 1, Len(q))[i] = q[b + i]
<1>1. Len(q) \in Nat /\ b \in Nat /\ b <= Len(q) /\ DOMAIN q = 1 .. Len(q)
  OBVIOUS
<1>2. /\ SubSeq(q, 1, b) \in Seq(Nat) /\ Len(SubSeq(q, 1, b)) = b
      /\ \A i \in 1 .. b : SubSeq(q, 1, b)[i] = q[i]
  <2>1. 1 \in Int /\ b \in Int /\ \A i \in 1 .. b : q[i] \in Nat
    BY <1>1
  <2>2. /\ SubSeq(q, 1, b) \in Seq(Nat)
        /\ Len(SubSeq(q, 1, b)) = IF 1 <= b THEN b - 1 + 1 ELSE 0
        /\ \A i \in 1 .. b - 1 + 1 : SubSeq(q, 1, b)[i] = q[1 + i - 1]
    BY <2>1, SubSeqProperties
  <2>3. b - 1 + 1 = b /\ \A i \in 1 .. b : 1 + i - 1 = i
    BY <1>1
  <2> QED
    BY <2>2, <2>3, <1>1
<1>3. /\ SubSeq(q, b + 1, Len(q)) \in Seq(Nat)
      /\ Len(SubSeq(q, b + 1, Len(q))) = Len(q) - b
      /\ \A i \in 1 .. Len(q) - b : SubSeq(q, b + 1, Len(q))[i] = q[b + i]
  <2> DEFINE m == b + 1
             n == Len(q)
  <2>1. /\ m \in Int /\ n \in Int /\ n - m + 1 = n - b
        /\ m <= n <=> n - b > 0
        /\ \A i \in m .. n : q[i] \in Nat
        /\ \A i \in 1 .. n - b : m + i - 1 = b + i
        /\ n - b \in Nat
    BY <1>1
  <2> HIDE DEF m, n
  <2>2. /\ SubSeq(q, m, n) \in Seq(Nat)
        /\ Len(SubSeq(q, m, n)) = IF m <= n THEN n - m + 1 ELSE 0
        /\ \A i \in 1 .. n - m + 1 : SubSeq(q, m, n)[i] = q[m + i - 1]
    BY <2>1, SubSeqProperties
  <2>3. Len(SubSeq(q, m, n)) = n - b
    <3> DEFINE k == Len(SubSeq(q, m, n))
    <3>1. k = IF m <= n THEN n - b ELSE 0
      BY <2>1, <2>2
    <3> HIDE DEF k
    <3> QED
      <4>1. CASE m <= n
        BY <3>1, <4>1 DEF k
      <4>2. CASE ~(m <= n)
        <5>1. n - b = 0
          BY <4>2, <2>1
        <5> QED
          BY <3>1, <4>2, <5>1 DEF k
      <4> QED
        BY <4>1, <4>2
  <2>4. \A i \in 1 .. n - b : SubSeq(q, m, n)[i] = q[b + i]
    BY <2>1, <2>2
  <2> QED
    BY <2>2, <2>3, <2>4 DEF m, n
<1> QED
  BY <1>2, <1>3

\* The lines of a batch are its first messages, all of them if it does not hold the
\* message of length zero; that one can only be the last of the queue.
LineNumber(q, b) == IF b > 0 /\ b = Len(q) /\ q[b] = Stop THEN b - 1 ELSE b

LEMMA Lines ==
    ASSUME NEW q, q \in Seq(Nat), StopLast(q), NEW b \in 0 .. Len(q)
    PROVE  /\ LineNumber(q, b) \in 0 .. b
           /\ \A i \in 1 .. b : q[i] # Stop <=> i <= LineNumber(q, b)
           /\ LineNumber(q, b) # b => b = Len(q)
<1>1. Len(q) \in Nat /\ b \in Nat /\ b <= Len(q) /\ DOMAIN q = 1 .. Len(q)
  OBVIOUS
<1>2. \A i \in 1 .. b : i \in DOMAIN q
  BY <1>1
<1>3. \A i \in 1 .. b : q[i] = Stop => i = Len(q)
  BY <1>2 DEF StopLast
<1> DEFINE n == Len(q)
           z == Stop
<1>6. n \in Nat /\ b \in Nat /\ b <= n /\ \A i \in 1 .. b : q[i] = z => i = n
  BY <1>1, <1>3
<1> HIDE DEF n, z
<1>4. CASE b > 0 /\ b = Len(q) /\ q[b] = Stop
  <2>1. LineNumber(q, b) = b - 1 /\ b > 0 /\ b = n /\ q[b] = z
    BY <1>4 DEF LineNumber, n, z
  <2> DEFINE k == LineNumber(q, b)
  <2>2. k = b - 1
    BY <2>1
  <2> HIDE DEF k
  <2>3. k \in 0 .. b /\ \A i \in 1 .. b : q[i] # z <=> i <= k
    BY <1>6, <2>1, <2>2
  <2> QED
    BY <1>4, <2>3 DEF k, z
<1>5. CASE ~(b > 0 /\ b = Len(q) /\ q[b] = Stop)
  <2>1. LineNumber(q, b) = b
    BY <1>5 DEF LineNumber
  <2>2. \A i \in 1 .. b : q[i] # z
    <3>1. ~(b > 0 /\ b = n /\ q[b] = z)
      BY <1>5 DEF n, z
    <3>2. \A i \in 1 .. b : i = n => b > 0 /\ b = n /\ i = b
      BY <1>6
    <3> QED
      BY <1>6, <3>1, <3>2
  <2>3. \A i \in 1 .. b : i <= b
    BY <1>1
  <2> QED
    BY <1>1, <2>1, <2>2, <2>3 DEF z
<1> QED
  BY <1>4, <1>5

LEMMA WrittenLines ==
    ASSUME NEW q, q \in Seq(Nat), StopLast(q), NEW b \in 0 .. Len(q)
    PROVE  /\ LineCount(SubSeq(q, 1, b)) = LineNumber(q, b)
           /\ Written(SubSeq(q, 1, b)) = [i \in 1 .. LineNumber(q, b) |-> q[i]]
           /\ Written(SubSeq(q, 1, b)) \in Seq(Nat)
<1> DEFINE batch == SubSeq(q, 1, b)
           n == LineNumber(q, b)
<1>1. DOMAIN batch = 1 .. b /\ \A i \in 1 .. b : batch[i] = q[i]
  BY Parts
<1>2. /\ n \in 0 .. b
      /\ \A i \in 1 .. b : q[i] # Stop <=> i <= n
  BY Lines
<1>3. b \in Nat /\ Len(q) \in Nat /\ DOMAIN q = 1 .. Len(q)
  OBVIOUS
<1> HIDE DEF batch, n
<1>4. {i \in DOMAIN batch : batch[i] # Stop} = 1 .. n
  BY <1>1, <1>2, <1>3
<1>5. Cardinality(1 .. n) = n
  BY <1>2, <1>3, FS_Interval
<1>6. LineCount(batch) = n
  BY <1>4, <1>5 DEF LineCount
<1>7. \A i \in 1 .. n : batch[i] = q[i] /\ batch[i] # Stop /\ q[i] \in Nat
  BY <1>1, <1>2, <1>3
<1>8. Written(batch) = [i \in 1 .. n |-> q[i]]
  BY <1>6, <1>7 DEF Written
<1>9. [i \in 1 .. n |-> q[i]] \in Seq(Nat)
  BY <1>2, <1>3, <1>7
<1> QED
  BY <1>6, <1>8, <1>9 DEF batch, n

LEMMA PushInOrder ==
    ASSUME NEW f, f \in Seq(Int), NEW q, q \in Seq(Nat), NEW lost, NEW n \in Nat,
           InSequence(f, q, lost, n), Stop \notin ToSet(q)
    PROVE  InSequence(f, Append(q, n + 1), lost, n + 1)
<1> DEFINE r == Append(q, n + 1)
<1>1. /\ r \in Seq(Nat) /\ Len(r) = Len(q) + 1 /\ ToSet(r) = ToSet(q) \cup {n + 1}
      /\ DOMAIN q = 1 .. Len(q) /\ DOMAIN r = 1 .. (Len(q) + 1)
      /\ \A i \in 1 .. Len(q) : r[i] = q[i]
      /\ r[Len(q) + 1] = n + 1
  BY Appends
<1>2. Len(q) \in Nat /\ Len(f) \in Nat /\ DOMAIN f = 1 .. Len(f)
  OBVIOUS
<1>3. \A x \in ToSet(f) \cup (ToSet(q) \ {Stop}) \cup lost : x \in 1 .. n
  BY DEF InSequence
<1>4. /\ \A i \in DOMAIN f : f[i] \in ToSet(f)
      /\ \A i \in DOMAIN q : q[i] \in ToSet(q)
  BY DEF ToSet
<1>5. /\ \A i \in DOMAIN f : f[i] < n + 1
      /\ \A i \in DOMAIN q : q[i] < n + 1 /\ q[i] # Stop
  BY <1>3, <1>4 DEF Stop
<1> HIDE DEF r
<1>6. \A i, j \in DOMAIN r : i < j => r[j] = Stop \/ r[i] < r[j]
  <2> SUFFICES ASSUME NEW i \in DOMAIN r, NEW j \in DOMAIN r, i < j
               PROVE  r[j] = Stop \/ r[i] < r[j]
    OBVIOUS
  <2>1. i \in DOMAIN q
    BY <1>1, <1>2
  <2>2. CASE j = Len(q) + 1
    BY <2>1, <2>2, <1>1, <1>5
  <2>3. CASE j # Len(q) + 1
    <3>1. j \in DOMAIN q
      BY <2>3, <1>1, <1>2
    <3> QED
      BY <3>1, <2>1, <1>1 DEF InSequence
  <2> QED
    BY <2>2, <2>3
<1>7. \A i \in DOMAIN f, j \in DOMAIN r : r[j] = Stop \/ f[i] < r[j]
  <2> SUFFICES ASSUME NEW i \in DOMAIN f, NEW j \in DOMAIN r
               PROVE  r[j] = Stop \/ f[i] < r[j]
    OBVIOUS
  <2>1. CASE j = Len(q) + 1
    BY <2>1, <1>1, <1>5
  <2>2. CASE j # Len(q) + 1
    <3>1. j \in DOMAIN q
      BY <2>2, <1>1, <1>2
    <3> QED
      BY <3>1, <1>1 DEF InSequence
  <2> QED
    BY <2>1, <2>2
<1>8. 1 .. n + 1 = (1 .. n) \cup {n + 1} /\ n + 1 \notin 1 .. n /\ n + 1 # Stop
  BY DEF Stop
<1>9. ToSet(f) \cup (ToSet(r) \ {Stop}) \cup lost = 1 .. n + 1
  BY <1>1, <1>8 DEF InSequence
<1>10. (ToSet(f) \cup ToSet(r)) \cap lost = {}
  BY <1>1, <1>3, <1>8 DEF InSequence
<1> QED
  BY <1>6, <1>7, <1>9, <1>10 DEF InSequence, r

LEMMA StopInOrder ==
    ASSUME NEW f, f \in Seq(Int), NEW q, q \in Seq(Nat), NEW lost, NEW n \in Nat,
           InSequence(f, q, lost, n), Stop \notin ToSet(q)
    PROVE  /\ InSequence(f, Append(q, Stop), lost, n)
           /\ StopLast(Append(q, Stop))
<1> DEFINE r == Append(q, Stop)
<1>0. Stop \in Nat
  BY DEF Stop
<1>1. /\ r \in Seq(Nat) /\ Len(r) = Len(q) + 1 /\ ToSet(r) = ToSet(q) \cup {Stop}
      /\ DOMAIN q = 1 .. Len(q) /\ DOMAIN r = 1 .. (Len(q) + 1)
      /\ \A i \in 1 .. Len(q) : r[i] = q[i]
      /\ r[Len(q) + 1] = Stop
  BY <1>0, Appends
<1>2. Len(q) \in Nat
  OBVIOUS
<1>3. /\ \A i \in DOMAIN q : q[i] # Stop
      /\ lost \subseteq 1 .. n
  BY DEF ToSet, InSequence
<1> HIDE DEF r
<1>4. \A j \in DOMAIN r : j \in DOMAIN q \/ r[j] = Stop
  BY <1>1, <1>2
<1>5. \A i, j \in DOMAIN r : i < j => i \in DOMAIN q
  BY <1>1, <1>2
<1>6. \A i, j \in DOMAIN r : i < j => r[j] = Stop \/ r[i] < r[j]
  BY <1>1, <1>4, <1>5 DEF InSequence
<1>7. \A i \in DOMAIN f, j \in DOMAIN r : r[j] = Stop \/ f[i] < r[j]
  BY <1>1, <1>4 DEF InSequence
<1>8. Stop \notin lost
  BY <1>3 DEF Stop
<1>9. (ToSet(f) \cup (ToSet(r) \ {Stop})) \cup lost = 1 .. n /\ (ToSet(f) \cup ToSet(r)) \cap lost = {}
  BY <1>1, <1>8 DEF InSequence
<1>10. StopLast(r)
  <2> SUFFICES ASSUME NEW i \in DOMAIN r, r[i] = Stop
               PROVE  i = Len(r)
    BY DEF StopLast
  <2>1. i \in 1 .. Len(q) => FALSE
    BY <1>1, <1>3
  <2> QED
    BY <2>1, <1>1, <1>2
<1> QED
  BY <1>6, <1>7, <1>9, <1>10 DEF InSequence, r

\* What is left of a queue, and what of it was lines.
Taken(q, b) ==
    /\ StopLast(SubSeq(q, b + 1, Len(q)))
    /\ ToSet(SubSeq(q, b + 1, Len(q))) = {q[i] : i \in (b + 1) .. Len(q)}
    /\ ToSet(SubSeq(q, 1, b)) = {q[i] : i \in 1 .. b}
    /\ ToSet(SubSeq(q, 1, b)) \ {Stop} = {q[i] : i \in 1 .. LineNumber(q, b)}
    /\ ToSet(q) \ {Stop} = {q[i] : i \in 1 .. LineNumber(q, b)}
                              \cup ({q[i] : i \in (b + 1) .. Len(q)} \ {Stop})

LEMMA TakesBatch ==
    ASSUME NEW q, q \in Seq(Nat), StopLast(q), NEW b \in 0 .. Len(q)
    PROVE  Taken(q, b)
<1> DEFINE r == SubSeq(q, b + 1, Len(q))
           n == LineNumber(q, b)
<1>1. /\ DOMAIN r = 1 .. Len(q) - b /\ Len(r) = Len(q) - b
      /\ \A i \in 1 .. Len(q) - b : r[i] = q[b + i]
      /\ DOMAIN SubSeq(q, 1, b) = 1 .. b
      /\ \A i \in 1 .. b : SubSeq(q, 1, b)[i] = q[i]
  BY Parts
<1>2. /\ n \in 0 .. b
      /\ \A i \in 1 .. b : q[i] # Stop <=> i <= n
  BY Lines
<1>3. b \in Nat /\ Len(q) \in Nat /\ b <= Len(q) /\ DOMAIN q = 1 .. Len(q)
  OBVIOUS
<1>4. ToSet(SubSeq(q, 1, b)) = {q[i] : i \in 1 .. b}
  BY <1>1 DEF ToSet
<1> HIDE DEF r, n
<1>5. StopLast(r)
  <2> SUFFICES ASSUME NEW i \in DOMAIN r, r[i] = Stop
               PROVE  i = Len(r)
    BY DEF StopLast
  <2>1. i \in 1 .. Len(q) - b /\ b + i \in DOMAIN q /\ q[b + i] = Stop
    <3> DEFINE v == Len(q)
    <3>1. b \in Nat /\ v \in Nat /\ DOMAIN q = 1 .. v /\ i \in 1 .. v - b
      BY <1>1, <1>3
    <3>2. \A u \in 1 .. v - b : r[u] = q[b + u]
      BY <1>1
    <3> HIDE DEF v
    <3>3. b + i \in 1 .. v /\ r[i] = q[b + i]
      BY <3>1, <3>2
    <3> QED
      BY <3>1, <3>3 DEF v
  <2>2. b + i = Len(q)
    BY <2>1 DEF StopLast
  <2> DEFINE m == Len(q)
             k == Len(r)
  <2>3. m \in Nat /\ b \in Nat /\ k = m - b /\ b + i = m /\ i \in 1 .. m - b
    BY <2>1, <2>2, <1>1, <1>3
  <2> HIDE DEF m, k
  <2>4. i = k
    BY <2>3
  <2> QED
    BY <2>4 DEF k
<1>6. ToSet(r) = {q[i] : i \in (b + 1) .. Len(q)}
  <2>1. ASSUME NEW i \in DOMAIN r
        PROVE  r[i] \in {q[j] : j \in (b + 1) .. Len(q)}
    <3> DEFINE v == Len(q)
    <3>1. b \in Nat /\ v \in Nat /\ i \in 1 .. v - b
      BY <1>1, <1>3
    <3>2. \A u \in 1 .. v - b : r[u] = q[b + u]
      BY <1>1
    <3> HIDE DEF v
    <3>3. b + i \in (b + 1) .. v /\ r[i] = q[b + i]
      BY <3>1, <3>2
    <3> QED
      BY <3>3 DEF v
  <2>2. ASSUME NEW j \in (b + 1) .. Len(q)
        PROVE  q[j] \in {r[i] : i \in DOMAIN r}
    <3> DEFINE v == Len(q)
    <3>1. b \in Nat /\ v \in Nat /\ j \in (b + 1) .. v /\ DOMAIN r = 1 .. v - b
      BY <1>1, <1>3
    <3>2. \A u \in 1 .. v - b : r[u] = q[b + u]
      BY <1>1
    <3> HIDE DEF v
    <3>3. j - b \in 1 .. v - b /\ b + (j - b) = j
      BY <3>1
    <3> QED
      BY <3>1, <3>2, <3>3
  <2> QED
    BY <2>1, <2>2 DEF ToSet
<1>7. {q[i] : i \in 1 .. b} \ {Stop} = {q[i] : i \in 1 .. n}
  <2>1. \A i \in 1 .. n : i \in 1 .. b /\ i <= n
    BY <1>2, <1>3
  <2>2. \A i \in 1 .. b : i <= n => i \in 1 .. n
    BY <1>2, <1>3
  <2> QED
    BY <1>2, <2>1, <2>2
<1>8. ToSet(q) = {q[i] : i \in 1 .. b} \cup {q[i] : i \in (b + 1) .. Len(q)}
  <2>1. 1 .. Len(q) = (1 .. b) \cup ((b + 1) .. Len(q))
    BY <1>3
  <2> QED
    BY <2>1, <1>3 DEF ToSet
<1>9. ToSet(q) \ {Stop} = ({q[i] : i \in 1 .. b} \ {Stop}) \cup ({q[i] : i \in (b + 1) .. Len(q)} \ {Stop})
  BY <1>8
<1> QED
  BY <1>4, <1>5, <1>6, <1>7, <1>9 DEF r, n, Taken

IsConcat(g, f, w) ==
    /\ g \in Seq(Int) /\ Len(g) = Len(f) + Len(w)
    /\ DOMAIN g = 1 .. Len(f) + Len(w)
    /\ \A i \in 1 .. Len(f) : g[i] = f[i]
    /\ \A i \in 1 .. Len(w) : g[Len(f) + i] = w[i]

LEMMA Concats ==
    ASSUME NEW f, f \in Seq(Int), NEW w, w \in Seq(Int)
    PROVE  IsConcat(f \o w, f, w)
<1> DEFINE g == f \o w
           m == Len(f)
           k == Len(w)
<1>1. m \in Nat /\ k \in Nat
  OBVIOUS
<1>2. /\ g \in Seq(Int) /\ Len(g) = m + k
      /\ \A i \in 1 .. m + k : g[i] = IF i <= m THEN f[i] ELSE w[i - m]
  BY ConcatProperties
<1>3. DOMAIN g = 1 .. m + k
  BY <1>2
<1> HIDE DEF g, m, k
<1>4. \A i \in 1 .. m : g[i] = f[i]
  BY <1>1, <1>2
<1>5. ASSUME NEW i \in 1 .. k
      PROVE  g[m + i] = w[i]
  <2> DEFINE j == m + i
  <2>1. j \in 1 .. m + k /\ ~(j <= m) /\ j - m = i
    BY <1>1
  <2> HIDE DEF j
  <2>2. g[j] = w[j - m]
    BY <2>1, <1>2
  <2> QED
    BY <2>1, <2>2 DEF j
<1> QED
  BY <1>2, <1>3, <1>4, <1>5 DEF g, m, k, IsConcat

LEMMA WriteInOrder ==
    ASSUME NEW f, f \in Seq(Int), NEW q, q \in Seq(Nat), NEW lost, NEW n \in Nat,
           StopLast(q), NEW b \in 0 .. Len(q), InSequence(f, q, lost, n)
    PROVE  InSequence(f \o Written(SubSeq(q, 1, b)), SubSeq(q, b + 1, Len(q)), lost, n)
<1> DEFINE r == SubSeq(q, b + 1, Len(q))
           k == LineNumber(q, b)
           w == Written(SubSeq(q, 1, b))
           g == f \o w
           m == Len(f)
           z == Len(q)
<1>1. /\ w = [i \in 1 .. k |-> q[i]] /\ w \in Seq(Nat)
  BY WrittenLines
<1>2. /\ k \in 0 .. b
      /\ \A i \in 1 .. b : q[i] # Stop <=> i <= k
  BY Lines
<1>3. b \in Nat /\ z \in Nat /\ b <= z /\ DOMAIN q = 1 .. z /\ m \in Nat /\ DOMAIN f = 1 .. m
  OBVIOUS
<1>4. /\ DOMAIN r = 1 .. z - b
      /\ \A i \in 1 .. z - b : r[i] = q[b + i]
  BY Parts
<1>5. /\ ToSet(r) = {q[i] : i \in (b + 1) .. z}
      /\ ToSet(q) \ {Stop} = {q[i] : i \in 1 .. k} \cup ({q[i] : i \in (b + 1) .. z} \ {Stop})
  BY TakesBatch DEF Taken
<1>6. k \in Nat /\ \A i \in 1 .. k : i \in 1 .. b /\ i \in 1 .. z /\ q[i] # Stop /\ q[i] \in Nat
  <2>1. k \in Nat /\ \A i \in 1 .. k : i \in 1 .. b /\ i \in 1 .. z /\ i <= k
    BY <1>2, <1>3
  <2> QED
    BY <2>1, <1>2, <1>3
<1> HIDE DEF r, k, m, z
<1>7. /\ DOMAIN g = 1 .. m + k
      /\ \A i \in 1 .. m : g[i] = f[i]
      /\ \A i \in 1 .. k : g[m + i] = q[i]
  <2>1. Len(w) = k /\ \A i \in 1 .. k : w[i] = q[i]
    BY <1>1, <1>6
  <2>2. f \in Seq(Int) /\ w \in Seq(Int) /\ Len(f) = m
    BY <1>1 DEF m
  <2> HIDE DEF w
  <2>3. IsConcat(g, f, w)
    BY <2>2, Concats
  <2> HIDE DEF g
  <2> QED
    BY <2>1, <2>2, <2>3 DEF IsConcat
<1> HIDE DEF g
<1>8. \A i \in 1 .. m + k : i \in 1 .. m \/ (i - m \in 1 .. k /\ g[i] = q[i - m])
  <2> SUFFICES ASSUME NEW i \in 1 .. m + k, i \notin 1 .. m
               PROVE  i - m \in 1 .. k /\ g[i] = q[i - m]
    OBVIOUS
  <2>1. i - m \in 1 .. k /\ m + (i - m) = i
    BY <1>3, <1>6
  <2> QED
    BY <2>1, <1>7
<1>9. /\ \A i \in DOMAIN f, j \in 1 .. k : f[i] < q[j]
      /\ \A i, j \in 1 .. k : i < j => q[i] < q[j]
      /\ \A i \in DOMAIN f, j \in DOMAIN r : r[j] = Stop \/ f[i] < r[j]
      /\ \A i \in 1 .. k, j \in DOMAIN r : r[j] = Stop \/ q[i] < r[j]
      /\ \A i, j \in DOMAIN r : i < j => r[j] = Stop \/ r[i] < r[j]
  <2>1. \A j \in DOMAIN r : b + j \in DOMAIN q /\ r[j] = q[b + j]
    <3>1. \A j \in 1 .. z - b : b + j \in 1 .. z
      BY <1>3
    <3> QED
      BY <3>1, <1>3, <1>4
  <2>2. \A i \in 1 .. k : \A j \in DOMAIN r : i < b + j
    <3>1. \A i \in 1 .. k : \A j \in 1 .. z - b : i < b + j
      BY <1>2, <1>3
    <3> QED
      BY <3>1, <1>4
  <2>3. \A i, j \in DOMAIN r : i < j => b + i < b + j
    <3>1. \A i, j \in 1 .. z - b : i < j => b + i < b + j
      BY <1>3
    <3> QED
      BY <3>1, <1>4
  <2>4. \A j \in 1 .. k : j \in DOMAIN q /\ q[j] # Stop
    BY <1>3, <1>6
  <2> QED
    BY <2>1, <2>2, <2>3, <2>4 DEF InSequence
<1>10. \A i, j \in DOMAIN g : i < j => g[i] < g[j]
  <2> SUFFICES ASSUME NEW i \in 1 .. m + k, NEW j \in 1 .. m + k, i < j
               PROVE  g[i] < g[j]
    BY <1>7
  <2>1. CASE j \in 1 .. m
    <3>1. i \in 1 .. m
      BY <2>1, <1>3, <1>6
    <3> QED
      BY <2>1, <3>1, <1>3, <1>7 DEF InSequence
  <2>2. CASE j \notin 1 .. m /\ i \in 1 .. m
    <3>1. j - m \in 1 .. k /\ g[j] = q[j - m]
      BY <2>2, <1>8
    <3>2. i \in DOMAIN f /\ g[i] = f[i]
      BY <2>2, <1>3, <1>7
    <3> QED
      BY <3>1, <3>2, <1>9
  <2>3. CASE j \notin 1 .. m /\ i \notin 1 .. m
    <3>1. i - m < j - m /\ i - m \in 1 .. k /\ j - m \in 1 .. k
      BY <2>3, <1>3, <1>6, <1>8
    <3> QED
      BY <2>3, <3>1, <1>8, <1>9
  <2> QED
    BY <2>1, <2>2, <2>3
<1>11. \A i \in DOMAIN g, j \in DOMAIN r : r[j] = Stop \/ g[i] < r[j]
  BY <1>3, <1>7, <1>8, <1>9
<1>12. ToSet(g) = ToSet(f) \cup {q[i] : i \in 1 .. k}
  <2>1. ASSUME NEW i \in DOMAIN g
        PROVE  g[i] \in ToSet(f) \cup {q[j] : j \in 1 .. k}
    BY <1>3, <1>7, <1>8 DEF ToSet
  <2>2. \A i \in 1 .. m : i \in 1 .. m + k
    BY <1>3, <1>6
  <2>3. \A i \in 1 .. k : m + i \in 1 .. m + k
    BY <1>3, <1>6
  <2>4. ASSUME NEW x \in ToSet(f) \cup {q[i] : i \in 1 .. k}
        PROVE  x \in ToSet(g)
    <3>1. CASE x \in ToSet(f)
      <4>1. PICK i \in DOMAIN f : x = f[i]
        BY <3>1 DEF ToSet
      <4>2. i \in DOMAIN g /\ g[i] = x
        BY <4>1, <2>2, <1>3, <1>7
      <4> QED
        BY <4>2 DEF ToSet
    <3>2. CASE x \in {q[i] : i \in 1 .. k}
      <4>1. PICK i \in 1 .. k : x = q[i]
        BY <3>2
      <4>2. m + i \in DOMAIN g /\ g[m + i] = x
        BY <4>1, <2>3, <1>7
      <4> QED
        BY <4>2 DEF ToSet
    <3> QED
      BY <3>1, <3>2
  <2>5. ToSet(g) \subseteq ToSet(f) \cup {q[i] : i \in 1 .. k}
    BY <2>1 DEF ToSet
  <2> QED
    BY <2>4, <2>5
<1>13. \A i \in (b + 1) .. z : i \in DOMAIN q
  BY <1>3
<1>14. {q[i] : i \in 1 .. k} \cup ToSet(r) \subseteq ToSet(q)
  BY <1>3, <1>5, <1>6, <1>13 DEF ToSet
<1>15. /\ ToSet(g) \cup (ToSet(r) \ {Stop}) \cup lost = 1 .. n
       /\ (ToSet(g) \cup ToSet(r)) \cap lost = {}
  BY <1>5, <1>12, <1>14 DEF InSequence
<1> QED
  BY <1>9, <1>10, <1>11, <1>15 DEF InSequence, g, r, z, k

LEMMA LossInOrder ==
    ASSUME NEW f, f \in Seq(Int), NEW q, q \in Seq(Nat), NEW lost, NEW n \in Nat,
           StopLast(q), NEW b \in 0 .. Len(q), InSequence(f, q, lost, n)
    PROVE  InSequence(f, SubSeq(q, b + 1, Len(q)), lost \cup (ToSet(SubSeq(q, 1, b)) \ {Stop}), n)
<1> DEFINE r == SubSeq(q, b + 1, Len(q))
           k == LineNumber(q, b)
           z == Len(q)
           gone == ToSet(SubSeq(q, 1, b)) \ {Stop}
<1>1. f \in Seq(Int) /\ DOMAIN f = 1 .. Len(f) /\ \A i \in DOMAIN f : f[i] \in Int
  OBVIOUS
<1>2. /\ k \in 0 .. b
      /\ \A i \in 1 .. b : q[i] # Stop <=> i <= k
  BY Lines
<1>3. b \in Nat /\ z \in Nat /\ b <= z /\ DOMAIN q = 1 .. z
  OBVIOUS
<1>4. /\ DOMAIN r = 1 .. z - b
      /\ \A i \in 1 .. z - b : r[i] = q[b + i]
      /\ r \in Seq(Nat)
  BY Parts
<1>5. /\ ToSet(r) = {q[i] : i \in (b + 1) .. z}
      /\ gone = {q[i] : i \in 1 .. k}
      /\ ToSet(q) \ {Stop} = {q[i] : i \in 1 .. k} \cup ({q[i] : i \in (b + 1) .. z} \ {Stop})
  <2>1. Taken(q, b)
    BY TakesBatch
  <2>2. gone = {q[i] : i \in 1 .. k}
    BY <2>1, Zenon DEF Taken
  <2>3. /\ ToSet(r) = {q[i] : i \in (b + 1) .. z}
        /\ ToSet(q) \ {Stop} = {q[i] : i \in 1 .. k} \cup ({q[i] : i \in (b + 1) .. z} \ {Stop})
    BY <2>1, Zenon DEF Taken
  <2> QED
    BY <2>2, <2>3
<1>6. k \in Nat /\ \A i \in 1 .. k : i \in 1 .. b /\ i \in 1 .. z /\ q[i] # Stop /\ q[i] \in Nat
  <2>1. k \in Nat /\ \A i \in 1 .. k : i \in 1 .. b /\ i \in 1 .. z /\ i <= k
    BY <1>2, <1>3
  <2> QED
    BY <2>1, <1>2, <1>3
<1> HIDE DEF r, k, z, gone
<1>7. \A i \in DOMAIN r : r[i] \in Nat
  <2>1. \A j \in DOMAIN q : q[j] \in Nat
    OBVIOUS
  <2>2. \A i \in 1 .. z - b : b + i \in 1 .. z
    BY <1>3
  <2> QED
    BY <2>1, <2>2, <1>3, <1>4
<1>8. /\ \A i \in DOMAIN f, j \in 1 .. k : f[i] < q[j]
      /\ \A i \in DOMAIN f, j \in DOMAIN r : r[j] = Stop \/ f[i] < r[j]
      /\ \A i \in 1 .. k, j \in DOMAIN r : r[j] = Stop \/ q[i] < r[j]
      /\ \A i, j \in DOMAIN r : i < j => r[j] = Stop \/ r[i] < r[j]
  <2>1. \A j \in DOMAIN r : b + j \in DOMAIN q /\ r[j] = q[b + j]
    <3>1. \A j \in 1 .. z - b : b + j \in 1 .. z
      BY <1>3
    <3> QED
      BY <3>1, <1>3, <1>4
  <2>2. \A i \in 1 .. k : \A j \in DOMAIN r : i < b + j
    <3>1. \A i \in 1 .. k : \A j \in 1 .. z - b : i < b + j
      BY <1>2, <1>3
    <3> QED
      BY <3>1, <1>4
  <2>3. \A i, j \in DOMAIN r : i < j => b + i < b + j
    <3>1. \A i, j \in 1 .. z - b : i < j => b + i < b + j
      BY <1>3
    <3> QED
      BY <3>1, <1>4
  <2>4. \A j \in 1 .. k : j \in DOMAIN q /\ q[j] # Stop
    BY <1>3, <1>6
  <2> QED
    BY <2>1, <2>2, <2>3, <2>4 DEF InSequence
<1>9. gone \cap ToSet(f) = {}
  <2> SUFFICES ASSUME NEW j \in 1 .. k, NEW i \in DOMAIN f, q[j] = f[i]
               PROVE  FALSE
    BY <1>5 DEF ToSet
  <2> QED
    BY <1>1, <1>6, <1>8
<1>10. gone \cap ToSet(r) = {}
  <2> SUFFICES ASSUME NEW j \in 1 .. k, NEW i \in DOMAIN r, q[j] = r[i]
               PROVE  FALSE
    BY <1>5 DEF ToSet
  <2> QED
    BY <1>6, <1>7, <1>8
<1>11. \A i \in (b + 1) .. z : i \in DOMAIN q
  BY <1>3
<1>12. ToSet(r) \subseteq ToSet(q) /\ gone \subseteq ToSet(q) \ {Stop}
  BY <1>3, <1>5, <1>6, <1>11 DEF ToSet
<1>13. /\ ToSet(f) \cup (ToSet(r) \ {Stop}) \cup (lost \cup gone) = 1 .. n
       /\ (ToSet(f) \cup ToSet(r)) \cap (lost \cup gone) = {}
  BY <1>5, <1>9, <1>10, <1>12 DEF InSequence
<1>14. \A i, j \in DOMAIN f : i < j => f[i] < f[j]
  BY DEF InSequence
<1> QED
  BY <1>8, <1>13, <1>14 DEF InSequence, r, z, gone

LEMMA BatchTypes ==
    ASSUME NEW q, q \in Seq(0 .. MaxLogs), NEW b \in 0 .. Len(q)
    PROVE  /\ q \in Seq(Nat)
           /\ SubSeq(q, b + 1, Len(q)) \in Seq(0 .. MaxLogs)
           /\ Len(SubSeq(q, b + 1, Len(q))) = Len(q) - b
           /\ Len(SubSeq(q, 1, b)) = b
           /\ Written(SubSeq(q, 1, b)) \in Seq(Junk .. MaxLogs)
           /\ ToSet(SubSeq(q, 1, b)) \ {Stop} \subseteq 1 .. MaxLogs
<1> DEFINE batch == SubSeq(q, 1, b)
           r == SubSeq(q, b + 1, Len(q))
           z == Len(q)
           n == LineCount(batch)
<1>0. MaxLogs \in Nat
  BY SizesAssumption
<1>1. /\ b \in Nat /\ z \in Nat /\ b <= z /\ q \in Seq(Nat)
      /\ \A i \in 1 .. z : q[i] \in 0 .. MaxLogs
  BY <1>0
<1>2. /\ DOMAIN batch = 1 .. b /\ Len(batch) = b
      /\ \A i \in 1 .. b : batch[i] = q[i]
      /\ Len(r) = z - b /\ r \in Seq(Nat)
      /\ \A i \in 1 .. z - b : r[i] = q[b + i]
  BY <1>1, Parts
<1>3. r \in Seq(0 .. MaxLogs)
  <2> DEFINE m == b + 1
  <2>1. m \in Int /\ z \in Int /\ \A i \in m .. z : i \in 1 .. z
    BY <1>1
  <2>2. \A i \in m .. z : q[i] \in 0 .. MaxLogs
    BY <1>1, <2>1
  <2> HIDE DEF z, m
  <2>3. SubSeq(q, m, z) \in Seq(0 .. MaxLogs)
    BY <2>1, <2>2, SubSeqProperties
  <2> QED
    BY <2>3 DEF z, m
<1> HIDE DEF batch, r, z, n
<1>4. \A i \in 1 .. b : batch[i] \in 0 .. MaxLogs
  <2>1. \A i \in 1 .. b : i \in 1 .. z
    BY <1>1
  <2> QED
    BY <2>1, <1>1, <1>2
<1>5. n \in 0 .. b
  <2> DEFINE S == {i \in DOMAIN batch : batch[i] # Stop}
  <2>1. S \subseteq 1 .. b
    BY <1>2
  <2>2. IsFiniteSet(1 .. b) /\ Cardinality(1 .. b) = b
    BY <1>1, FS_Interval
  <2>3. IsFiniteSet(S) /\ Cardinality(S) <= Cardinality(1 .. b)
    BY <2>1, <2>2, FS_Subset
  <2>4. Cardinality(S) \in Nat
    BY <2>3, FS_CardinalityType
  <2> HIDE DEF S
  <2>5. Cardinality(S) \in 0 .. b
    BY <1>1, <2>2, <2>3, <2>4
  <2> QED
    BY <2>5 DEF n, LineCount, S
<1>6. Written(batch) \in Seq(Junk .. MaxLogs)
  <2>1. \A i \in 1 .. n : i \in 1 .. b
    BY <1>1, <1>5
  <2>2. \A i \in 1 .. n : (IF batch[i] = Stop THEN Junk ELSE batch[i]) \in Junk .. MaxLogs
    BY <2>1, <1>0, <1>4 DEF Junk
  <2>3. n \in Nat
    BY <1>1, <1>5
  <2>4. Written(batch) = [i \in 1 .. n |-> IF batch[i] = Stop THEN Junk ELSE batch[i]]
    BY DEF Written, n
  <2> QED
    BY <2>2, <2>3, <2>4
<1>7. ToSet(batch) \ {Stop} \subseteq 1 .. MaxLogs
  <2>1. \A i \in DOMAIN batch : batch[i] = Stop \/ batch[i] \in 1 .. MaxLogs
    BY <1>0, <1>2, <1>4 DEF Stop
  <2> QED
    BY <2>1 DEF ToSet
<1> QED
  BY <1>1, <1>2, <1>3, <1>6, <1>7 DEF batch, r, z

-----------------------------------------------------------------------------
(* What the steps keep *)

Unreleased == {"open", "roomWait", "roomWoken", "releasing"}
InRoom == {"roomWait", "roomWoken"}
Leaving == {"roomWait", "roomWoken", "releasing", "deciding", "joining", "done"}
Pushed == {"releasing", "deciding", "joining", "done"}
Lives == {"new", "opening", "failed", "open"} \cup Leaving
One(b) == IF b THEN 1 ELSE 0
Calls == {p \in Producers : doing[p] # "idle"}

LoggerTypes ==
    /\ queue \in [Loggers -> Seq(0 .. MaxLogs)]
    /\ \A l \in Loggers : Len(queue[l]) <= QueueMax
    /\ waiterNumber \in [Loggers -> Int]
    /\ destroying \in [Loggers -> BOOLEAN]
    /\ ref \in [Loggers -> Int]
    /\ registered \in [Loggers -> 0 .. MaxThreads]
    /\ accepted \in [Loggers -> 0 .. MaxLogs]
    /\ file \in [Loggers -> Seq(Junk .. MaxLogs)]
    /\ failed \in [Loggers -> SUBSET (1 .. MaxLogs)]
    /\ life \in [Loggers -> Lives]
ThreadTypes ==
    /\ thread \in {"none", "looping", "polling", "exited"}
    /\ generation \in 0 .. MaxThreads
    /\ stop \in BOOLEAN
    /\ logNumber \in Int
    /\ signals \in 0 .. 1
    /\ ready \subseteq Loggers \cup {Self}
CallTypes ==
    /\ doing \in [Producers -> {"idle", "log", "waiting", "woken"}]
    /\ target \in [Producers -> Loggers \cup {NoLogger}]
    /\ failures \in 0 .. MaxFailures

\* A reference for destroy(), until it releases it, and one for the registration.
RefOf(l) == /\ ref[l] = One(life[l] \in Unreleased \cup {"failed"}) + One(registered[l] # 0)
            /\ life[l] \in {"new", "opening", "failed"} => registered[l] = 0
            /\ destroying[l] = (life[l] \in Leaving)
            /\ l \in ready => registered[l] # 0
\* Who waits for room, or has been woken and has not gone on, is counted.
WaitOf(l) == waiterNumber[l] = Cardinality(InWait(l)) + One(life[l] \in InRoom)
CallOf(p) == doing[p] # "idle" => /\ target[p] \in Loggers
                                  /\ life[target[p]] \in {"open"} \cup Leaving
\* Only the destroy() that holds _thread_lock has stopped the thread, with one signal.
StopRight ==
    /\ ready # {} => thread = "looping"
    /\ thread # "none" => generation # 0
    /\ (thread # "none" /\ stop) <=> Joining
    /\ \A k, l \in Loggers : life[k] = "joining" /\ life[l] = "joining" => k = l
    /\ thread = "exited" => stop
    /\ thread # "none" /\ ~stop => signals = 0
    /\ Self \in ready => signals = 1
CallsBounded == Logged + Cardinality(Calls) <= MaxLogs

\* When no call waits as destroy() begins, none comes after the message of length zero.
QuietOf(l) == /\ destroying[l] => InWait(l) = {}
              /\ StopLast(queue[l])
              /\ Stop \in ToSet(queue[l]) => life[l] \in Pushed
LinesOf(l) == InSequence(file[l], queue[l], failed[l], accepted[l])

\* What a logger the log thread watches accepted is written or queued, and the thread
\* counts what is queued for those it watches at least, whatever else it counts: a
\* line that came after the last message, or for a logger a failure unregistered.
Fresh == {"new", "opening", "failed"}
WatchedOf(l) ==
    /\ registered[l] <= generation
    /\ l \in ready => registered[l] = generation
    /\ life[l] \in Fresh => queue[l] = <<>> /\ accepted[l] = 0
    /\ registered[l] # 0 => 1 .. accepted[l] \subseteq ToSet(file[l]) \cup ToSet(queue[l])
Served == [l \in Loggers |-> IF registered[l] = generation THEN Len(queue[l]) ELSE 0]
CountServed == Running => logNumber >= Total(Served, QueueMax)

AsyncInv ==
    /\ LoggerTypes /\ ThreadTypes /\ CallTypes
    /\ \A l \in Loggers : RefOf(l) /\ WaitOf(l) /\ WatchedOf(l)
    /\ \A p \in Producers : CallOf(p)
    /\ StopRight /\ CallsBounded /\ CountServed
    /\ QuietDestroy => \A l \in Loggers : QuietOf(l) /\ LinesOf(l)

\* A batch takes the first messages of the queue.
PopsUpTo(l, b) ==
    /\ b \in 0 .. Len(queue[l])
    /\ BatchOf(l) = SubSeq(queue[l], 1, b)
    /\ queue' = [queue EXCEPT ![l] = SubSeq(queue[l], b + 1, Len(queue[l]))]
    /\ logNumber' = logNumber - b
    /\ Wake(l)

LEMMA Pops ==
    ASSUME LoggerTypes, NEW l \in Loggers, PopBatch(l)
    PROVE  \E b \in 0 .. Len(queue[l]) : PopsUpTo(l, b)
<1> DEFINE q == queue[l]
           b == IF Len(q) < BatchMax THEN Len(q) ELSE BatchMax
<1>1. q \in Seq(0 .. MaxLogs) /\ Len(q) \in Nat
  BY DEF LoggerTypes
<1>2. BatchMax \in Nat
  BY SizesAssumption
<1>3. b \in 0 .. Len(q)
  BY <1>1, <1>2
<1>4. BatchOf(l) = SubSeq(q, 1, b)
  BY DEF BatchOf
<1> HIDE DEF b
<1>5. Len(SubSeq(q, 1, b)) = b
  BY <1>1, <1>3, BatchTypes
<1>6. queue' = [queue EXCEPT ![l] = SubSeq(q, b + 1, Len(q))] /\ logNumber' = logNumber - b /\ Wake(l)
  BY <1>4, <1>5 DEF PopBatch
<1> QED
  BY <1>3, <1>4, <1>6 DEF PopsUpTo

\* The steps of one logger and of one call.
LoggerStep(l) ==
    \/ CreateThread(l) \/ OpenLogfile(l) \/ OpenLogfileFails(l)
    \/ DestroyWaits(l) \/ DestroyPushesStop(l) \/ Release(l) \/ StopThread(l) \/ Joined(l)
    \/ ExecuteWrites(l) \/ ExecuteWriteFails(l) \/ ExecuteOpenFails(l)
CallStep(p, l) ==
    \/ CallLog(p, l) \/ LogDropped(p, l) \/ LogWaits(p, l) \/ PushLogMessage(p, l)

LEMMA AnyStep ==
    [AsyncNext]_asyncVars
       => \/ \E l \in Loggers : LoggerStep(l)
          \/ \E p \in Producers, l \in Loggers : CallStep(p, l)
          \/ EntersEpollWait \/ EpollWait \/ ReadSignal \/ ThreadExits
          \/ UNCHANGED asyncVars
BY DEF AsyncNext, CreateStep, DestroyStep, LogStep, ThreadStep, Execute, Finished,
       LoggerStep, CallStep

LEMMA AcceptedBelow ==
    ASSUME LoggerTypes, CallsBounded, NEW p \in Producers, doing[p] # "idle", NEW l \in Loggers
    PROVE  accepted[l] + 1 \in 1 .. MaxLogs
<1>1. MaxLogs \in Nat /\ accepted \in [Loggers -> 0 .. MaxLogs] /\ accepted[l] \in Nat
  BY SizesAssumption DEF LoggerTypes
<1>2. IsFiniteSet(Calls) /\ p \in Calls
  BY ProducersAssumption, FS_Subset DEF Calls
<1>3. Cardinality(Calls) \in Nat /\ Cardinality(Calls) # 0
  BY <1>2, FS_CardinalityType, FS_EmptySet
<1>4. /\ Logged \in Nat
      /\ Cardinality(RestOf(accepted, MaxLogs, l)) \in Nat
      /\ Logged = Cardinality(RestOf(accepted, MaxLogs, l)) + accepted[l]
  BY <1>1, TotalSplit DEF Logged
<1> QED
  BY <1>1, <1>3, <1>4 DEF CallsBounded

LEMMA LoggerTypesNext ==
    ASSUME LoggerTypes, ThreadTypes, CallsBounded, [AsyncNext]_asyncVars
    PROVE  LoggerTypes'
<1> USE DEF LoggerTypes, Lives, Leaving
<1>0. MaxLogs \in Nat /\ QueueMax \in Nat /\ MaxThreads \in Nat /\ Stop \in 0 .. MaxLogs
  BY SizesAssumption DEF Stop
<1>1. ASSUME UNCHANGED loggerVars
      PROVE  LoggerTypes'
  BY <1>1 DEF loggerVars
<1>2. ASSUME NEW l \in Loggers, CreateThread(l) \/ OpenLogfile(l) \/ OpenLogfileFails(l)
      PROVE  LoggerTypes'
  <2>1. CASE CreateThread(l)
    BY <2>1 DEF CreateThread
  <2>2. CASE OpenLogfile(l)
    BY <2>2 DEF OpenLogfile, ThreadTypes
  <2>3. CASE OpenLogfileFails(l)
    BY <2>3 DEF OpenLogfileFails
  <2> QED
    BY <1>2, <2>1, <2>2, <2>3
<1>3. ASSUME NEW p \in Producers, NEW l \in Loggers, LogWaits(p, l)
      PROVE  LoggerTypes'
  BY <1>3 DEF LogWaits, LeavesWait
<1>4. ASSUME NEW p \in Producers, NEW l \in Loggers, PushLogMessage(p, l)
      PROVE  LoggerTypes'
  <2>1. doing[p] # "idle" /\ ~Full(l)
    BY <1>4 DEF PushLogMessage, CanPush
  <2>2. accepted[l] + 1 \in 0 .. MaxLogs
    <3>1. 1 .. MaxLogs \subseteq 0 .. MaxLogs
      BY <1>0
    <3> HIDE DEF LoggerTypes
    <3>2. accepted[l] + 1 \in 1 .. MaxLogs
      BY <2>1, AcceptedBelow
    <3> QED
      BY <3>1, <3>2
  <2>3. queue'[l] = Append(queue[l], accepted[l] + 1) /\ queue[l] \in Seq(0 .. MaxLogs)
    BY <1>4 DEF PushLogMessage
  <2>4. queue'[l] \in Seq(0 .. MaxLogs) /\ Len(queue'[l]) = Len(queue[l]) + 1 /\ Len(queue[l]) \in Nat
    BY <2>2, <2>3
  <2>5. Len(queue'[l]) <= QueueMax
    BY <2>1, <2>4, <1>0 DEF Full
  <2>6. /\ queue' = [queue EXCEPT ![l] = queue'[l]]
        /\ accepted' = [accepted EXCEPT ![l] = accepted[l] + 1]
        /\ waiterNumber' \in [Loggers -> Int]
        /\ UNCHANGED <<destroying, ref, registered, file, failed, life>>
    BY <1>4 DEF PushLogMessage, LeavesWait
  <2> QED
    BY <2>2, <2>4, <2>5, <2>6
<1>5. ASSUME NEW l \in Loggers, DestroyPushesStop(l)
      PROVE  LoggerTypes'
  <2>1. ~Full(l)
    BY <1>5 DEF DestroyPushesStop
  <2>3. queue'[l] = Append(queue[l], Stop) /\ queue[l] \in Seq(0 .. MaxLogs)
    BY <1>5 DEF DestroyPushesStop
  <2>4. queue'[l] \in Seq(0 .. MaxLogs) /\ Len(queue'[l]) = Len(queue[l]) + 1 /\ Len(queue[l]) \in Nat
    BY <1>0, <2>3
  <2>5. Len(queue'[l]) <= QueueMax
    BY <2>1, <2>4, <1>0 DEF Full
  <2>6. /\ queue' = [queue EXCEPT ![l] = queue'[l]]
        /\ waiterNumber' \in [Loggers -> Int]
        /\ destroying' \in [Loggers -> BOOLEAN]
        /\ life' \in [Loggers -> Lives]
        /\ UNCHANGED <<ref, registered, accepted, file, failed>>
    BY <1>5 DEF DestroyPushesStop
  <2> QED
    BY <2>4, <2>5, <2>6
<1>6. ASSUME NEW l \in Loggers, DestroyWaits(l) \/ Release(l) \/ StopThread(l) \/ Joined(l)
      PROVE  LoggerTypes'
  <2>1. CASE DestroyWaits(l)
    BY <2>1 DEF DestroyWaits
  <2>2. CASE Release(l)
    BY <2>2 DEF Release
  <2>3. CASE StopThread(l) \/ Joined(l)
    BY <2>3 DEF StopThread, Joined
  <2> QED
    BY <1>6, <2>1, <2>2, <2>3
<1>7. ASSUME NEW l \in Loggers, ExecuteWrites(l) \/ ExecuteWriteFails(l)
      PROVE  LoggerTypes'
  <2>1. PICK b \in 0 .. Len(queue[l]) : PopsUpTo(l, b)
    BY <1>7, Pops DEF ExecuteWrites, ExecuteWriteFails
  <2> DEFINE batch == SubSeq(queue[l], 1, b)
             r == SubSeq(queue[l], b + 1, Len(queue[l]))
  <2>2. /\ r \in Seq(0 .. MaxLogs)
        /\ Len(r) = Len(queue[l]) - b
        /\ Written(batch) \in Seq(Junk .. MaxLogs)
        /\ ToSet(batch) \ {Stop} \subseteq 1 .. MaxLogs
    BY BatchTypes
  <2>3. Len(r) <= QueueMax
    BY <2>2, <1>0
  <2>4. queue' = [queue EXCEPT ![l] = r] /\ BatchOf(l) = batch
    BY <2>1 DEF PopsUpTo
  <2> HIDE DEF r, batch
  <2>5. life' \in [Loggers -> Lives]
    BY <2>1 DEF PopsUpTo, Wake
  <2>6. /\ registered' \in [Loggers -> 0 .. MaxThreads]
        /\ ref' \in [Loggers -> Int]
    <3>1. RemoveLogger(l) \/ UNCHANGED <<registered, ref>>
      BY <1>7 DEF ExecuteWrites, ExecuteWriteFails
    <3> QED
      <4>1. registered \in [Loggers -> 0 .. MaxThreads] /\ ref \in [Loggers -> Int] /\ 0 \in 0 .. MaxThreads
        BY <1>0
      <4> HIDE DEF LoggerTypes
      <4> QED
        BY <3>1, <4>1 DEF RemoveLogger
  <2>7. /\ file' \in [Loggers -> Seq(Junk .. MaxLogs)]
        /\ failed' \in [Loggers -> SUBSET (1 .. MaxLogs)]
        /\ UNCHANGED <<waiterNumber, destroying, accepted>>
    <3>1. CASE ExecuteWrites(l)
      <4>1. file[l] \o Written(batch) \in Seq(Junk .. MaxLogs)
        BY <2>2
      <4> QED
        BY <3>1, <4>1, <2>4 DEF ExecuteWrites
    <3>2. CASE ExecuteWriteFails(l)
      <4>1. failed[l] \cup (ToSet(batch) \ {Stop}) \in SUBSET (1 .. MaxLogs)
        BY <2>2
      <4> QED
        BY <3>2, <4>1, <2>4 DEF ExecuteWriteFails
    <3> QED
      BY <1>7, <3>1, <3>2
  <2> QED
    BY <2>2, <2>3, <2>4, <2>5, <2>6, <2>7
<1>8. ASSUME NEW l \in Loggers, ExecuteOpenFails(l)
      PROVE  LoggerTypes'
  <2>1. registered \in [Loggers -> 0 .. MaxThreads] /\ ref \in [Loggers -> Int] /\ 0 \in 0 .. MaxThreads
    BY <1>0
  <2> HIDE DEF LoggerTypes
  <2>2. /\ registered' \in [Loggers -> 0 .. MaxThreads]
        /\ ref' \in [Loggers -> Int]
    BY <1>8, <2>1 DEF ExecuteOpenFails, RemoveLogger
  <2>3. UNCHANGED <<queue, waiterNumber, destroying, accepted, file, failed, life>>
    BY <1>8 DEF ExecuteOpenFails
  <2> QED
    BY <2>2, <2>3 DEF LoggerTypes
<1> HIDE DEF LoggerTypes
<1>9. ASSUME NEW p \in Producers, NEW l \in Loggers, CallLog(p, l) \/ LogDropped(p, l)
      PROVE  UNCHANGED loggerVars
  BY <1>9 DEF CallLog, LogDropped
<1>10. ASSUME EntersEpollWait \/ EpollWait \/ ReadSignal \/ ThreadExits \/ UNCHANGED asyncVars
       PROVE  UNCHANGED loggerVars
  BY <1>10 DEF EntersEpollWait, EpollWait, ReadSignal, ThreadExits, asyncVars
<1> QED
  BY <1>1, <1>2, <1>3, <1>4, <1>5, <1>6, <1>7, <1>8, <1>9, <1>10, AnyStep
     DEF LoggerStep, CallStep

LEMMA ThreadTypesNext ==
    ASSUME LoggerTypes, ThreadTypes, StopRight, [AsyncNext]_asyncVars
    PROVE  ThreadTypes'
<1> USE DEF ThreadTypes
<1>0. MaxThreads \in Nat
  BY SizesAssumption
<1>1. ASSUME UNCHANGED logThreadVars
      PROVE  ThreadTypes'
  BY <1>1 DEF logThreadVars
<1>2. ASSUME NEW l \in Loggers, CreateThread(l)
      PROVE  ThreadTypes'
  <2>1. CASE UNCHANGED logThreadVars
    BY <1>1, <2>1
  <2>2. CASE ~UNCHANGED logThreadVars
    <3>1. generation + 1 \in 0 .. MaxThreads
      BY <1>0, <1>2, <2>2 DEF CreateThread
    <3> QED
      <4>1. /\ thread' = "looping" /\ generation' = generation + 1 /\ stop' = FALSE
            /\ logNumber' = 0 /\ signals' = 0 /\ ready' = {}
        BY <1>2, <2>2 DEF CreateThread
      <4>2. generation' \in 0 .. MaxThreads
        BY <4>1, <3>1
      <4>3. thread' \in {"none", "looping", "polling", "exited"} /\ stop' \in BOOLEAN
        BY <4>1, Zenon
      <4>4. logNumber' \in Int /\ signals' \in 0 .. 1 /\ ready' \subseteq Loggers \cup {Self}
        BY <4>1
      <4> QED
        BY <4>2, <4>3, <4>4
  <2> QED
    BY <2>1, <2>2
<1>3. ASSUME NEW p \in Producers, NEW l \in Loggers, PushLogMessage(p, l)
      PROVE  ThreadTypes'
  BY <1>3 DEF PushLogMessage
<1>4. ASSUME NEW l \in Loggers, DestroyPushesStop(l)
      PROVE  ThreadTypes'
  BY <1>4 DEF DestroyPushesStop
<1>5. ASSUME NEW l \in Loggers, StopThread(l)
      PROVE  ThreadTypes'
  <2>1. thread # "none" /\ ~Joining
    BY <1>5 DEF StopThread
  <2>2. signals = 0
    BY <2>1 DEF StopRight
  <2> QED
    BY <1>5, <2>2 DEF StopThread
<1>6. ASSUME NEW l \in Loggers, Joined(l)
      PROVE  ThreadTypes'
  BY <1>6 DEF Joined
<1>7. ASSUME NEW l \in Loggers, ExecuteWrites(l) \/ ExecuteWriteFails(l)
      PROVE  ThreadTypes'
  <2>1. PICK b \in 0 .. Len(queue[l]) : PopsUpTo(l, b)
    BY <1>7, Pops DEF ExecuteWrites, ExecuteWriteFails
  <2>2. logNumber' \in Int
    BY <2>1 DEF PopsUpTo
  <2> QED
    BY <1>7, <2>2 DEF ExecuteWrites, ExecuteWriteFails, Handles
<1>8. ASSUME NEW l \in Loggers, ExecuteOpenFails(l)
      PROVE  ThreadTypes'
  BY <1>8 DEF ExecuteOpenFails, Handles
<1>9. ASSUME EntersEpollWait \/ EpollWait \/ ThreadExits
      PROVE  ThreadTypes'
  BY <1>9 DEF EntersEpollWait, EpollWait, ThreadExits, Readable
<1>10. ASSUME ReadSignal
       PROVE  ThreadTypes'
  BY <1>10 DEF ReadSignal, StopRight
<1> HIDE DEF ThreadTypes
<1>11. ASSUME NEW l \in Loggers,
              \/ OpenLogfile(l) \/ OpenLogfileFails(l) \/ DestroyWaits(l) \/ Release(l)
       PROVE  UNCHANGED logThreadVars
  BY <1>11 DEF OpenLogfile, OpenLogfileFails, DestroyWaits, Release
<1>12. ASSUME NEW p \in Producers, NEW l \in Loggers,
              CallLog(p, l) \/ LogDropped(p, l) \/ LogWaits(p, l)
       PROVE  UNCHANGED logThreadVars
  BY <1>12 DEF CallLog, LogDropped, LogWaits
<1>13. UNCHANGED asyncVars => UNCHANGED logThreadVars
  BY DEF asyncVars
<1> QED
  BY <1>1, <1>2, <1>3, <1>4, <1>5, <1>6, <1>7, <1>8, <1>9, <1>10, <1>11, <1>12, <1>13,
     AnyStep DEF LoggerStep, CallStep

LEMMA CallTypesNext ==
    ASSUME LoggerTypes, CallTypes, [AsyncNext]_asyncVars
    PROVE  CallTypes'
<1> USE DEF CallTypes
<1>0. MaxFailures \in Nat
  BY SizesAssumption
<1>1. ASSUME UNCHANGED <<producerVars, failures>>
      PROVE  CallTypes'
  BY <1>1 DEF producerVars
<1>2. ASSUME NEW l \in Loggers, OpenLogfileFails(l) \/ ExecuteOpenFails(l)
      PROVE  CallTypes'
  BY <1>0, <1>2 DEF OpenLogfileFails, ExecuteOpenFails, producerVars
<1>3. ASSUME NEW p \in Producers, NEW l \in Loggers, CallStep(p, l)
      PROVE  CallTypes'
  BY <1>3 DEF CallStep, CallLog, LogDropped, LogWaits, PushLogMessage
<1>4. ASSUME NEW l \in Loggers, ExecuteWrites(l) \/ ExecuteWriteFails(l)
      PROVE  CallTypes'
  <2>1. doing' \in [Producers -> {"idle", "log", "waiting", "woken"}]
    BY <1>4 DEF ExecuteWrites, ExecuteWriteFails, PopBatch, Wake
  <2> QED
    BY <1>0, <1>4, <2>1 DEF ExecuteWrites, ExecuteWriteFails
<1> HIDE DEF CallTypes
<1>5. ASSUME NEW l \in Loggers,
             \/ CreateThread(l) \/ OpenLogfile(l) \/ DestroyWaits(l) \/ DestroyPushesStop(l)
             \/ Release(l) \/ StopThread(l) \/ Joined(l)
      PROVE  UNCHANGED <<producerVars, failures>>
  BY <1>5 DEF CreateThread, OpenLogfile, DestroyWaits, DestroyPushesStop, Release,
              StopThread, Joined
<1>6. EntersEpollWait \/ EpollWait \/ ReadSignal \/ ThreadExits \/ UNCHANGED asyncVars
         => UNCHANGED <<producerVars, failures>>
  BY DEF EntersEpollWait, EpollWait, ReadSignal, ThreadExits, asyncVars
<1> QED
  BY <1>1, <1>2, <1>3, <1>4, <1>5, <1>6, AnyStep DEF LoggerStep

\* A batch wakes who waits, and nothing else happens to the logger's life.
LEMMA Wakes ==
    ASSUME LoggerTypes, CallTypes, NEW l \in Loggers, Wake(l)
    PROVE  /\ \A k \in Loggers : life'[k] = life[k]
                                   \/ (k = l /\ life[k] = "roomWait" /\ life'[k] = "roomWoken")
           /\ \A p \in Producers : doing'[p] = doing[p]
                                     \/ (doing[p] = "waiting" /\ doing'[p] = "woken")
BY DEF Wake, LoggerTypes, CallTypes

LEMMA RefNext ==
    ASSUME LoggerTypes, ThreadTypes, CallTypes, StopRight, [AsyncNext]_asyncVars,
           \A l \in Loggers : RefOf(l)
    PROVE  \A l \in Loggers : RefOf(l)'
<1>1. ASSUME UNCHANGED loggerVars, ready' \subseteq ready
      PROVE  \A l \in Loggers : RefOf(l)'
  BY <1>1 DEF RefOf, loggerVars
<1>2. ASSUME NEW l \in Loggers, CreateThread(l), NEW k \in Loggers
      PROVE  RefOf(k)'
  <2>1. /\ life[l] = "new"
        /\ life'[k] = IF k = l THEN "opening" ELSE life[k]
        /\ ref'[k] = ref[k]
        /\ registered'[k] = registered[k]
        /\ destroying'[k] = destroying[k]
        /\ ready' = ready \/ ready' = {}
    BY <1>2 DEF CreateThread, logThreadVars, LoggerTypes
  <2>2. RefOf(k) /\ ref[k] \in Int
    BY DEF LoggerTypes
  <2> QED
    BY <2>1, <2>2 DEF RefOf, One, Unreleased, Leaving
<1>3. ASSUME NEW l \in Loggers, OpenLogfile(l), NEW k \in Loggers
      PROVE  RefOf(k)'
  <2>1. /\ life[l] = "opening" /\ thread # "none"
        /\ life'[k] = IF k = l THEN "open" ELSE life[k]
        /\ ref'[k] = IF k = l THEN 2 ELSE ref[k]
        /\ registered'[k] = IF k = l THEN generation ELSE registered[k]
        /\ destroying'[k] = destroying[k]
        /\ ready' \subseteq ready
    BY <1>3 DEF OpenLogfile, logThreadVars, LoggerTypes
  <2>2. RefOf(k) /\ ref[k] \in Int /\ (thread # "none" => generation # 0)
    BY SMT DEF LoggerTypes, StopRight
  <2> QED
    BY <2>1, <2>2 DEF RefOf, One, Unreleased, Leaving
<1>4. ASSUME NEW l \in Loggers, OpenLogfileFails(l), NEW k \in Loggers
      PROVE  RefOf(k)'
  <2>1. /\ life[l] = "opening"
        /\ life'[k] = IF k = l THEN "failed" ELSE life[k]
        /\ ref'[k] = IF k = l THEN 1 ELSE ref[k]
        /\ registered'[k] = registered[k]
        /\ destroying'[k] = destroying[k]
        /\ ready' \subseteq ready
    BY <1>4 DEF OpenLogfileFails, logThreadVars, LoggerTypes
  <2>2. RefOf(k) /\ ref[k] \in Int
    BY DEF LoggerTypes
  <2> QED
    BY <2>1, <2>2 DEF RefOf, One, Unreleased, Leaving
<1>5. ASSUME NEW l \in Loggers, DestroyWaits(l), NEW k \in Loggers
      PROVE  RefOf(k)'
  <2>1. /\ life[l] \in {"open", "roomWoken"}
        /\ life'[k] = IF k = l THEN "roomWait" ELSE life[k]
        /\ ref'[k] = ref[k]
        /\ registered'[k] = registered[k]
        /\ destroying'[k] = IF k = l THEN TRUE ELSE destroying[k]
        /\ ready' \subseteq ready
    BY <1>5 DEF DestroyWaits, BeginsDestroy, logThreadVars, LoggerTypes
  <2>2. RefOf(k) /\ ref[k] \in Int
    BY DEF LoggerTypes
  <2>3. destroying'[k] = (life'[k] \in Leaving)
    <3>1. CASE k = l
      BY <2>1, <3>1, Zenon DEF Leaving
    <3>2. CASE k # l
      <4>1. destroying'[k] = destroying[k] /\ life'[k] = life[k]
        BY <2>1, <3>2
      <4> QED
        BY <2>2, <4>1, Zenon DEF RefOf
    <3> QED
      BY <3>1, <3>2
  <2>4. /\ life'[k] \in Unreleased \cup {"failed"} <=> life[k] \in Unreleased \cup {"failed"}
        /\ life'[k] \in {"new", "opening", "failed"} => life[k] \in {"new", "opening", "failed"}
    BY <2>1 DEF Unreleased
  <2> QED
    BY <2>1, <2>2, <2>3, <2>4, Zenon DEF RefOf, One
<1>6. ASSUME NEW l \in Loggers, DestroyPushesStop(l), NEW k \in Loggers
      PROVE  RefOf(k)'
  <2>1. /\ life[l] \in {"open", "roomWoken"}
        /\ life'[k] = IF k = l THEN "releasing" ELSE life[k]
        /\ ref'[k] = ref[k]
        /\ registered'[k] = registered[k]
        /\ destroying'[k] = IF k = l THEN TRUE ELSE destroying[k]
        /\ ready' \subseteq ready
    BY <1>6 DEF DestroyPushesStop, BeginsDestroy, LoggerTypes
  <2>2. RefOf(k) /\ ref[k] \in Int
    BY DEF LoggerTypes
  <2>3. destroying'[k] = (life'[k] \in Leaving)
    <3>1. CASE k = l
      BY <2>1, <3>1, Zenon DEF Leaving
    <3>2. CASE k # l
      <4>1. destroying'[k] = destroying[k] /\ life'[k] = life[k]
        BY <2>1, <3>2
      <4> QED
        BY <2>2, <4>1, Zenon DEF RefOf
    <3> QED
      BY <3>1, <3>2
  <2>4. /\ life'[k] \in Unreleased \cup {"failed"} <=> life[k] \in Unreleased \cup {"failed"}
        /\ life'[k] \in {"new", "opening", "failed"} => life[k] \in {"new", "opening", "failed"}
    BY <2>1 DEF Unreleased
  <2> QED
    BY <2>1, <2>2, <2>3, <2>4, Zenon DEF RefOf, One
<1>7. ASSUME NEW l \in Loggers, Release(l), NEW k \in Loggers
      PROVE  RefOf(k)'
  <2>1. /\ life[l] = "releasing"
        /\ life'[k] = IF k = l THEN "deciding" ELSE life[k]
        /\ ref'[k] = IF k = l THEN ref[l] - 1 ELSE ref[k]
        /\ registered'[k] = registered[k]
        /\ destroying'[k] = destroying[k]
        /\ ready' \subseteq ready
    BY <1>7 DEF Release, logThreadVars, LoggerTypes
  <2>2. RefOf(k) /\ ref[k] \in Int
    BY DEF LoggerTypes
  <2> QED
    BY <2>1, <2>2 DEF RefOf, One, Unreleased, Leaving
<1>8. ASSUME NEW l \in Loggers, StopThread(l) \/ Joined(l), NEW k \in Loggers
      PROVE  RefOf(k)'
  <2>1. /\ life[l] \in {"deciding", "joining"}
        /\ life'[k] = IF k = l THEN life'[l] ELSE life[k]
        /\ life'[l] \in {"joining", "done"}
        /\ UNCHANGED <<ref, registered, destroying, ready>>
    BY <1>8 DEF StopThread, Joined, LoggerTypes
  <2>2. RefOf(k) /\ ref[k] \in Int
    BY DEF LoggerTypes
  <2> QED
    BY <2>1, <2>2 DEF RefOf, One, Unreleased, Leaving
<1> USE DEF RefOf, One, Unreleased, Leaving
<1>9. ASSUME NEW l \in Loggers, ExecuteWrites(l) \/ ExecuteWriteFails(l) \/ ExecuteOpenFails(l),
             NEW k \in Loggers
      PROVE  RefOf(k)'
  <2>1. /\ l \in ready /\ ready' = ready \ {l} /\ UNCHANGED destroying
        /\ RemoveLogger(l) \/ UNCHANGED <<registered, ref>>
    BY <1>9 DEF ExecuteWrites, ExecuteWriteFails, ExecuteOpenFails, Handles
  <2>2. life'[k] = life[k] \/ (life[k] = "roomWait" /\ life'[k] = "roomWoken")
    <3>1. CASE ExecuteOpenFails(l)
      BY <3>1 DEF ExecuteOpenFails
    <3>2. CASE ExecuteWrites(l) \/ ExecuteWriteFails(l)
      BY <3>2, Wakes DEF ExecuteWrites, ExecuteWriteFails, PopBatch
    <3> QED
      BY <1>9, <3>1, <3>2
  <2>3. registered[l] # 0
    BY <2>1
  <2>4. CASE RemoveLogger(l)
    <3>1. /\ registered'[k] = IF k = l THEN 0 ELSE registered[k]
          /\ ref'[k] = IF k = l THEN ref[l] - 1 ELSE ref[k]
          /\ ref[k] \in Int
      BY <2>4 DEF RemoveLogger, LoggerTypes
    <3>2. k \in ready' => k # l
      BY <2>1
    <3> QED
      BY <2>1, <2>2, <2>3, <3>1, <3>2
  <2>5. CASE UNCHANGED <<registered, ref>>
    BY <2>1, <2>2, <2>5
  <2> QED
    BY <2>1, <2>4, <2>5
<1>10. ASSUME EpollWait, NEW k \in Loggers
       PROVE  RefOf(k)'
  <2>1. k \in ready' => registered[k] = generation /\ generation # 0
    BY <1>10, LoggersAssumption DEF EpollWait, Readable, StopRight
  <2>2. UNCHANGED loggerVars
    BY <1>10 DEF EpollWait
  <2> QED
    BY <2>1, <2>2 DEF loggerVars
<1> HIDE DEF RefOf
<1>11. ASSUME NEW p \in Producers, NEW l \in Loggers, CallStep(p, l), NEW k \in Loggers
       PROVE  RefOf(k)'
  BY <1>11 DEF CallStep, CallLog, LogDropped, LogWaits, PushLogMessage, loggerVars,
               logThreadVars, RefOf
<1>12. EntersEpollWait \/ ReadSignal \/ ThreadExits \/ UNCHANGED asyncVars
         => UNCHANGED loggerVars /\ ready' \subseteq ready
  BY DEF EntersEpollWait, ReadSignal, ThreadExits, asyncVars, logThreadVars
<1> QED
  BY <1>1, <1>2, <1>3, <1>4, <1>5, <1>6, <1>7, <1>8, <1>9, <1>10, <1>11, <1>12,
     AnyStep DEF LoggerStep

LEMMA CallNext ==
    ASSUME LoggerTypes, CallTypes, [AsyncNext]_asyncVars, \A p \in Producers : CallOf(p)
    PROVE  \A p \in Producers : CallOf(p)'
<1> DEFINE Live == {"open"} \cup Leaving
<1>1. \A p \in Producers : doing[p] # "idle" => target[p] \in Loggers /\ life[target[p]] \in Live
  BY DEF CallOf
\* No logger goes back to where no call may be.
<1>2. ASSUME UNCHANGED life \/ \A k \in Loggers : life[k] \in Live => life'[k] \in Live,
             UNCHANGED target, \A p \in Producers : doing'[p] # "idle" => doing[p] # "idle"
      PROVE  \A p \in Producers : CallOf(p)'
  BY <1>1, <1>2 DEF CallOf
<1>3. ASSUME NEW l \in Loggers, LoggerStep(l)
      PROVE  \A p \in Producers : CallOf(p)'
  <2>1. CASE ExecuteWrites(l) \/ ExecuteWriteFails(l)
    <3>1. Wake(l) /\ UNCHANGED target
      BY <2>1 DEF ExecuteWrites, ExecuteWriteFails, PopBatch
    <3>2. \A k \in Loggers : life[k] \in Live => life'[k] \in Live
      BY <3>1, Wakes DEF Leaving
    <3> QED
      BY <1>2, <3>1, <3>2, Wakes
  <2>2. CASE ~(ExecuteWrites(l) \/ ExecuteWriteFails(l))
    <3>1. UNCHANGED producerVars
      BY <1>3, <2>2 DEF LoggerStep, CreateThread, OpenLogfile, OpenLogfileFails, DestroyWaits,
         DestroyPushesStop, Release, StopThread, Joined, ExecuteOpenFails
    <3>2. \/ UNCHANGED life
          \/ /\ \A k \in Loggers : k # l => life'[k] = life[k]
             /\ life[l] \in Live => life'[l] \in Live
      BY <1>3, <2>2 DEF LoggerStep, CreateThread, OpenLogfile, OpenLogfileFails, DestroyWaits,
         BeginsDestroy, DestroyPushesStop, Release, StopThread, Joined, ExecuteOpenFails,
         LoggerTypes, Leaving
    <3>3. UNCHANGED <<doing, target>>
      BY <3>1 DEF producerVars
    <3> QED
      BY <1>2, <3>2, <3>3
  <2> QED
    BY <2>1, <2>2
<1>4. ASSUME NEW p \in Producers, NEW l \in Loggers, CallStep(p, l), NEW q \in Producers
      PROVE  CallOf(q)'
  <2>1. UNCHANGED life
    BY <1>4 DEF CallStep, CallLog, LogDropped, LogWaits, PushLogMessage, loggerVars
  <2>2. CASE CallLog(p, l)
    <3>1. life[l] = "open" /\ target'[q] = (IF q = p THEN l ELSE target[q])
          /\ (q # p => doing'[q] = doing[q])
      BY <2>2 DEF CallLog, CallTypes
    <3> QED
      BY <1>1, <2>1, <3>1 DEF CallOf
  <2>3. CASE ~CallLog(p, l)
    <3>1. UNCHANGED target /\ (doing'[q] # "idle" => doing[q] # "idle")
      BY <1>4, <2>3 DEF CallStep, LogDropped, LogWaits, PushLogMessage, CanPush, CallTypes
    <3> QED
      BY <1>1, <2>1, <3>1 DEF CallOf
  <2> QED
    BY <2>2, <2>3
<1>5. EntersEpollWait \/ EpollWait \/ ReadSignal \/ ThreadExits \/ UNCHANGED asyncVars
         => UNCHANGED <<life, target, doing>>
  BY DEF EntersEpollWait, EpollWait, ReadSignal, ThreadExits, asyncVars, loggerVars, producerVars
<1> QED
  BY <1>2, <1>3, <1>4, <1>5, AnyStep

\* Whoever stops the thread, or starts it again, is alone with it.
LEMMA StopNext ==
    ASSUME LoggerTypes, ThreadTypes, CallTypes, StopRight, [AsyncNext]_asyncVars
    PROVE  StopRight'
<1>1. ASSUME UNCHANGED <<thread, generation, stop, signals>>, ready' \subseteq ready,
             \A k \in Loggers : life'[k] = "joining" <=> life[k] = "joining"
      PROVE  StopRight'
  <2>1. Joining' <=> Joining
    BY <1>1 DEF Joining
  <2> QED
    BY <1>1, <2>1 DEF StopRight
<1>2. ASSUME NEW l \in Loggers, CreateThread(l)
      PROVE  StopRight'
  <2>1. \A k \in Loggers : life'[k] = "joining" <=> life[k] = "joining"
    BY <1>2 DEF CreateThread, LoggerTypes
  <2>2. CASE UNCHANGED logThreadVars
    BY <1>1, <2>1, <2>2 DEF logThreadVars
  <2>3. CASE ~UNCHANGED logThreadVars
    <3>1. /\ thread' = "looping" /\ generation' = generation + 1 /\ stop' = FALSE
          /\ signals' = 0 /\ ready' = {} /\ ~Joining
      BY <1>2, <2>3 DEF CreateThread
    <3>2. ~Joining'
      BY <2>1, <3>1 DEF Joining
    <3>3. generation' # 0
      BY <3>1 DEF ThreadTypes
    <3> QED
      BY <3>1, <3>2, <3>3 DEF StopRight, Joining
  <2> QED
    BY <2>2, <2>3
<1>3. ASSUME NEW l \in Loggers, StopThread(l)
      PROVE  StopRight'
  <2>1. /\ thread # "none" /\ ~Joining /\ stop' = TRUE /\ signals' = signals + 1
        /\ life' = [life EXCEPT ![l] = "joining"]
        /\ UNCHANGED <<thread, generation, ready>>
    BY <1>3 DEF StopThread
  <2>2. signals' = 1 /\ signals = 0
    BY <2>1 DEF StopRight
  <2>3. \A k \in Loggers : life'[k] = "joining" <=> k = l
    BY <2>1 DEF Joining, LoggerTypes
  <2>4. Joining'
    BY <2>3 DEF Joining
  <2> QED
    BY <2>1, <2>2, <2>3, <2>4 DEF StopRight
<1>4. ASSUME NEW l \in Loggers, Joined(l)
      PROVE  StopRight'
  <2>1. /\ life[l] = "joining" /\ thread = "exited" /\ thread' = "none"
        /\ life' = [life EXCEPT ![l] = "done"]
        /\ UNCHANGED <<generation, stop, signals, ready>>
    BY <1>4 DEF Joined
  <2>2. \A k \in Loggers : life'[k] # "joining"
    BY <2>1 DEF StopRight, LoggerTypes
  <2>3. ~Joining'
    BY <2>2 DEF Joining
  <2> QED
    BY <2>1, <2>2, <2>3 DEF StopRight
<1>5. ASSUME NEW l \in Loggers, LoggerStep(l),
             ~CreateThread(l), ~StopThread(l), ~Joined(l)
      PROVE  StopRight'
  <2>1. CASE ExecuteWrites(l) \/ ExecuteWriteFails(l) \/ ExecuteOpenFails(l)
    <3>1. UNCHANGED <<thread, generation, stop, signals>> /\ ready' \subseteq ready
      BY <2>1 DEF ExecuteWrites, ExecuteWriteFails, ExecuteOpenFails, Handles
    <3>2. Wake(l) \/ UNCHANGED life
      BY <2>1 DEF ExecuteWrites, ExecuteWriteFails, ExecuteOpenFails, PopBatch
    <3>3. \A k \in Loggers : life'[k] = "joining" <=> life[k] = "joining"
      BY <3>2, Wakes
    <3> QED
      BY <1>1, <3>1, <3>3
  <2>2. CASE ~(ExecuteWrites(l) \/ ExecuteWriteFails(l) \/ ExecuteOpenFails(l))
    <3>1. UNCHANGED <<thread, generation, stop, signals>> /\ UNCHANGED ready
      BY <1>5, <2>2 DEF LoggerStep, OpenLogfile, OpenLogfileFails, DestroyWaits,
         DestroyPushesStop, Release, logThreadVars
    <3>2. \A k \in Loggers : life'[k] = "joining" <=> life[k] = "joining"
      BY <1>5, <2>2 DEF LoggerStep, OpenLogfile, OpenLogfileFails, DestroyWaits,
         BeginsDestroy, DestroyPushesStop, Release, LoggerTypes
    <3> QED
      BY <1>1, <3>1, <3>2
  <2> QED
    BY <2>1, <2>2
<1>6. ASSUME NEW p \in Producers, NEW l \in Loggers, CallStep(p, l)
      PROVE  StopRight'
  <2>1. UNCHANGED <<thread, generation, stop, signals, ready, life>>
    BY <1>6 DEF CallStep, CallLog, LogDropped, LogWaits, PushLogMessage, loggerVars,
       logThreadVars
  <2> QED
    BY <1>1, <2>1
<1>7. ASSUME EntersEpollWait \/ EpollWait \/ ReadSignal \/ ThreadExits
      PROVE  StopRight'
  <2>1. UNCHANGED <<life, generation, stop>>
    BY <1>7 DEF EntersEpollWait, EpollWait, ReadSignal, ThreadExits, loggerVars
  <2>2. Joining' <=> Joining
    BY <2>1 DEF Joining
  <2>3. CASE EntersEpollWait \/ ThreadExits
    BY <2>1, <2>2, <2>3 DEF EntersEpollWait, ThreadExits, StopRight
  <2>4. CASE EpollWait
    <3>1. /\ thread = "polling" /\ thread' = "looping" /\ UNCHANGED signals
          /\ Self \in ready' => signals > 0
      BY <2>4, LoggersAssumption DEF EpollWait, Readable
    <3> QED
      BY <2>1, <2>2, <3>1 DEF StopRight, ThreadTypes
  <2>5. CASE ReadSignal
    <3>1. /\ Self \in ready /\ signals' = signals - 1 /\ UNCHANGED thread
          /\ ready' = ready \ {Self}
      BY <2>5 DEF ReadSignal
    <3> QED
      BY <2>1, <2>2, <3>1 DEF StopRight, ThreadTypes
  <2> QED
    BY <1>7, <2>3, <2>4, <2>5
<1>8. ASSUME UNCHANGED asyncVars
      PROVE  StopRight'
  BY <1>1, <1>8 DEF asyncVars, loggerVars, logThreadVars
<1> QED
  BY <1>2, <1>3, <1>4, <1>5, <1>6, <1>7, <1>8, AnyStep

LEMMA WaitersFinite ==
    ASSUME NEW l \in Loggers, NEW p
    PROVE  /\ IsFiniteSet(InWait(l)) /\ Cardinality(InWait(l)) \in Nat
           /\ p \notin InWait(l)
                 => Cardinality(InWait(l) \cup {p}) = Cardinality(InWait(l)) + 1
           /\ p \in InWait(l)
                 => Cardinality(InWait(l) \ {p}) = Cardinality(InWait(l)) - 1
<1>1. InWait(l) \subseteq Producers
  BY DEF InWait
<1> DEFINE S == InWait(l)
<1> HIDE DEF S
<1>2. IsFiniteSet(S)
  BY <1>1, ProducersAssumption, FS_Subset DEF S
<1> QED
  BY <1>2, FS_CardinalityType, FS_AddElement, FS_RemoveElement DEF S

LEMMA WaitNext ==
    ASSUME LoggerTypes, CallTypes, [AsyncNext]_asyncVars, \A l \in Loggers : WaitOf(l)
    PROVE  \A l \in Loggers : WaitOf(l)'
<1> DEFINE Waits == {"waiting", "woken"}
\* What leaves the waiters and their number alone.
<1>1. ASSUME NEW k \in Loggers,
             \A p \in Producers : doing'[p] \in Waits /\ target'[p] = k
                                    <=> doing[p] \in Waits /\ target[p] = k,
             life'[k] \in InRoom <=> life[k] \in InRoom,
             waiterNumber'[k] = waiterNumber[k]
      PROVE  WaitOf(k)'
  <2>1. InWait(k)' = InWait(k)
    BY <1>1 DEF InWait
  <2>2. One(life[k] \in InRoom)' = One(life[k] \in InRoom)
    BY <1>1 DEF One
  <2> QED
    BY <1>1, <2>1, <2>2 DEF WaitOf
<1>2. ASSUME NEW l \in Loggers, NEW k \in Loggers,
             \/ CreateThread(l) \/ OpenLogfile(l) \/ OpenLogfileFails(l)
             \/ Release(l) \/ StopThread(l) \/ Joined(l) \/ ExecuteOpenFails(l)
      PROVE  WaitOf(k)'
  <2>1. UNCHANGED <<doing, target, waiterNumber>>
    BY <1>2 DEF CreateThread, OpenLogfile, OpenLogfileFails, Release, StopThread, Joined,
       ExecuteOpenFails, producerVars
  <2>2. life'[k] \in InRoom <=> life[k] \in InRoom
    BY <1>2 DEF CreateThread, OpenLogfile, OpenLogfileFails, Release, StopThread, Joined,
       ExecuteOpenFails, InRoom, LoggerTypes
  <2> QED
    BY <1>1, <2>1, <2>2
<1>3. ASSUME NEW l \in Loggers, NEW k \in Loggers, ExecuteWrites(l) \/ ExecuteWriteFails(l)
      PROVE  WaitOf(k)'
  <2>1. Wake(l) /\ UNCHANGED <<target, waiterNumber>>
    BY <1>3 DEF ExecuteWrites, ExecuteWriteFails, PopBatch
  <2>2. life'[k] \in InRoom <=> life[k] \in InRoom
    BY <2>1, Wakes DEF InRoom
  <2>3. \A p \in Producers : doing'[p] \in Waits <=> doing[p] \in Waits
    BY <2>1, Wakes
  <2> QED
    BY <1>1, <2>1, <2>2, <2>3
<1>4. ASSUME NEW p \in Producers, NEW l \in Loggers, NEW k \in Loggers, CallStep(p, l),
             k # l \/ CallLog(p, l) \/ LogDropped(p, l)
      PROVE  WaitOf(k)'
  <2>1. UNCHANGED life /\ waiterNumber'[k] = waiterNumber[k]
    BY <1>4 DEF CallStep, CallLog, LogDropped, LogWaits, PushLogMessage, loggerVars, LoggerTypes
  <2>2. CASE CallLog(p, l) \/ LogDropped(p, l)
    <3>1. \A q \in Producers : doing'[q] \in Waits /\ target'[q] = k
                                 <=> doing[q] \in Waits /\ target[q] = k
      BY <2>2 DEF CallLog, LogDropped, CallTypes
    <3> QED
      BY <1>1, <2>1, <3>1
  <2>3. CASE LogWaits(p, l) \/ PushLogMessage(p, l)
    <3>1. k # l
      BY <1>4, <2>3 DEF LogWaits, PushLogMessage, CanPush, CallLog, LogDropped, CallTypes
    <3>2. \A q \in Producers : doing'[q] \in Waits /\ target'[q] = k
                                 <=> doing[q] \in Waits /\ target[q] = k
      BY <2>3, <3>1 DEF LogWaits, PushLogMessage, CanPush, CallTypes
    <3> QED
      BY <1>1, <2>1, <3>2
  <2> QED
    BY <1>4, <2>2, <2>3 DEF CallStep
<1>5. ASSUME NEW p \in Producers, NEW l \in Loggers, LogWaits(p, l)
      PROVE  WaitOf(l)'
  <2>1. /\ UNCHANGED <<life, target>> /\ target[p] = l
        /\ doing' = [doing EXCEPT ![p] = "waiting"]
        /\ waiterNumber'[l] = LeavesWait(p, l) + 1
        /\ waiterNumber[l] \in Int
        /\ doing[p] \in {"log", "woken"}
    BY <1>5 DEF LogWaits, LoggerTypes
  <2>2. InWait(l)' = InWait(l) \cup {p}
    BY <2>1 DEF InWait, CallTypes
  <2>3. p \in InWait(l) <=> doing[p] = "woken"
    BY <2>1 DEF InWait
  <2> DEFINE c == Cardinality(InWait(l))
             d == Cardinality(InWait(l) \cup {p})
             one == One(life[l] \in InRoom)
             w == waiterNumber[l]
  <2>4. c \in Nat /\ w = c + one /\ one \in Int
    <3>1. c \in Nat
      BY WaitersFinite
    <3>2. w = c + one
      BY DEF WaitOf
    <3> QED
      BY <3>1, <3>2 DEF One
  <2>5. d = IF doing[p] = "woken" THEN c ELSE c + 1
    <3>1. doing[p] = "woken" => InWait(l) \cup {p} = InWait(l)
      BY <2>3
    <3> QED
      BY <2>3, <3>1, WaitersFinite
  <2> HIDE DEF c, d, one, w
  <2>6. (w - (IF doing[p] = "woken" THEN 1 ELSE 0)) + 1 = d + one
    BY <2>4, <2>5, <2>1
  <2>7. waiterNumber'[l] = Cardinality(InWait(l)') + One(life[l] \in InRoom)
    BY <2>1, <2>2, <2>6 DEF LeavesWait, c, d, one, w
  <2> QED
    BY <2>1, <2>7 DEF WaitOf
<1>6. ASSUME NEW p \in Producers, NEW l \in Loggers, PushLogMessage(p, l)
      PROVE  WaitOf(l)'
  <2>1. /\ UNCHANGED <<life, target>> /\ target[p] = l
        /\ doing' = [doing EXCEPT ![p] = "idle"]
        /\ waiterNumber'[l] = LeavesWait(p, l)
        /\ waiterNumber[l] \in Int
        /\ doing[p] \in {"log", "woken"}
    BY <1>6 DEF PushLogMessage, CanPush, LoggerTypes
  <2>2. InWait(l)' = InWait(l) \ {p}
    BY <2>1 DEF InWait, CallTypes
  <2>3. p \in InWait(l) <=> doing[p] = "woken"
    BY <2>1 DEF InWait
  <2> DEFINE c == Cardinality(InWait(l))
             d == Cardinality(InWait(l) \ {p})
             one == One(life[l] \in InRoom)
             w == waiterNumber[l]
  <2>4. c \in Nat /\ w = c + one /\ one \in Int
    <3>1. c \in Nat
      BY WaitersFinite
    <3>2. w = c + one
      BY DEF WaitOf
    <3> QED
      BY <3>1, <3>2 DEF One
  <2>5. d = IF doing[p] = "woken" THEN c - 1 ELSE c
    <3>1. doing[p] # "woken" => InWait(l) \ {p} = InWait(l)
      BY <2>3
    <3> QED
      BY <2>3, <3>1, WaitersFinite
  <2> HIDE DEF c, d, one, w
  <2>6. w - (IF doing[p] = "woken" THEN 1 ELSE 0) = d + one
    BY <2>4, <2>5, <2>1
  <2>7. waiterNumber'[l] = Cardinality(InWait(l)') + One(life[l] \in InRoom)
    BY <2>1, <2>2, <2>6 DEF LeavesWait, c, d, one, w
  <2> QED
    BY <2>1, <2>7 DEF WaitOf
<1>7. ASSUME NEW l \in Loggers, NEW k \in Loggers, DestroyWaits(l) \/ DestroyPushesStop(l)
      PROVE  WaitOf(k)'
  <2>1. UNCHANGED <<doing, target>>
    BY <1>7 DEF DestroyWaits, DestroyPushesStop, producerVars
  <2>2. CASE k # l
    <3>1. life'[k] = life[k] /\ waiterNumber'[k] = waiterNumber[k]
      BY <1>7, <2>2 DEF DestroyWaits, DestroyPushesStop, LoggerTypes
    <3> QED
      BY <1>1, <2>1, <3>1
  <2>3. CASE k = l
    <3> DEFINE c == Cardinality(InWait(l))
               w == waiterNumber[l]
    <3>1. InWait(l)' = InWait(l)
      BY <2>1 DEF InWait
    <3>2. c \in Nat
      BY WaitersFinite
    <3>3. w = c + One(life[l] \in InRoom) /\ w \in Int
      BY DEF WaitOf, LoggerTypes
    <3>4. \/ /\ life[l] = "open" /\ life'[l] = "roomWait" /\ waiterNumber'[l] = w + 1
          \/ /\ life[l] = "roomWoken" /\ life'[l] = "roomWait" /\ waiterNumber'[l] = w + 0
          \/ /\ life[l] = "open" /\ life'[l] = "releasing" /\ waiterNumber'[l] = w - 0
          \/ /\ life[l] = "roomWoken" /\ life'[l] = "releasing" /\ waiterNumber'[l] = w - 1
      BY <1>7 DEF DestroyWaits, DestroyPushesStop, BeginsDestroy, LoggerTypes
    <3>5. Cardinality(InWait(l)') = c
      BY <3>1
    <3> HIDE DEF c, w
    <3>6. waiterNumber'[l] = Cardinality(InWait(l)') + One(life'[l] \in InRoom)
      BY <3>2, <3>3, <3>4, <3>5 DEF One, InRoom
    <3> QED
      BY <2>3, <3>6 DEF WaitOf
  <2> QED
    BY <2>2, <2>3
<1>8. ASSUME EntersEpollWait \/ EpollWait \/ ReadSignal \/ ThreadExits \/ UNCHANGED asyncVars,
             NEW k \in Loggers
      PROVE  WaitOf(k)'
  <2>1. UNCHANGED <<doing, target, life, waiterNumber>>
    BY <1>8 DEF EntersEpollWait, EpollWait, ReadSignal, ThreadExits, asyncVars, loggerVars,
       producerVars
  <2> QED
    BY <1>1, <2>1
<1> HIDE DEF Waits
<1> QED
  BY <1>2, <1>3, <1>4, <1>5, <1>6, <1>7, <1>8, AnyStep DEF LoggerStep, CallStep

LEMMA CallsBoundedNext ==
    ASSUME LoggerTypes, CallTypes, CallsBounded, [AsyncNext]_asyncVars, LoggerTypes'
    PROVE  CallsBounded'
<1> DEFINE L == Logged
           c == Cardinality(Calls)
<1>1. MaxLogs \in Nat /\ accepted \in [Loggers -> 0 .. MaxLogs]
  BY SizesAssumption DEF LoggerTypes
<1>2. IsFiniteSet(Calls) /\ c \in Nat /\ L \in Nat /\ L + c <= MaxLogs
  <2>1. IsFiniteSet(Calls)
    BY ProducersAssumption, FS_Subset DEF Calls
  <2>2. Logged \in Nat
    BY <1>1, TotalNat DEF Logged
  <2> QED
    BY <2>1, <2>2, FS_CardinalityType DEF CallsBounded
<1>3. ASSUME UNCHANGED accepted,
             \A q \in Producers : doing'[q] # "idle" => doing[q] # "idle"
      PROVE  CallsBounded'
  <2> DEFINE d == Cardinality(Calls')
  <2>1. Calls' \subseteq Calls
    BY <1>3 DEF Calls
  <2>2. d <= c /\ IsFiniteSet(Calls')
    BY <2>1, <1>2, FS_Subset
  <2>3. d \in Nat
    BY <2>2, FS_CardinalityType
  <2>4. Logged' = L
    BY <1>3 DEF Logged, Total
  <2> HIDE DEF L, c, d
  <2>5. L + d <= MaxLogs
    BY <2>2, <2>3, <1>1, <1>2
  <2> QED
    BY <2>4, <2>5 DEF CallsBounded, d
<1>4. ASSUME NEW p \in Producers, NEW l \in Loggers, CallLog(p, l)
      PROVE  CallsBounded'
  <2>1. Calls' = Calls \cup {p} /\ p \notin Calls /\ UNCHANGED accepted
    BY <1>4 DEF CallLog, Calls, CallTypes, loggerVars
  <2>2. L + c < MaxLogs
    BY <1>4 DEF CallLog, Calls
  <2>3. Cardinality(Calls') = c + 1
    BY <2>1, <1>2, FS_AddElement
  <2>4. Logged' = L
    BY <2>1 DEF Logged, Total
  <2> HIDE DEF L, c
  <2>5. L + (c + 1) <= MaxLogs
    BY <2>2, <1>1, <1>2
  <2> QED
    BY <2>3, <2>4, <2>5 DEF CallsBounded
<1>5. ASSUME NEW p \in Producers, NEW l \in Loggers, PushLogMessage(p, l)
      PROVE  CallsBounded'
  <2>1. /\ Calls' = Calls \ {p} /\ p \in Calls
        /\ accepted' = [accepted EXCEPT ![l] = accepted[l] + 1]
    BY <1>5 DEF PushLogMessage, CanPush, Calls, CallTypes
  <2>2. accepted[l] + 1 \in 0 .. MaxLogs
    BY <2>1, <1>1, AcceptedBelow DEF Calls
  <2>3. Logged' = L - accepted[l] + (accepted[l] + 1)
    BY <2>1, <2>2, <1>1, TotalChange DEF Logged
  <2>4. Cardinality(Calls') = c - 1
    BY <2>1, <1>2, FS_RemoveElement
  <2>5. accepted[l] \in Int
    BY <1>1
  <2> HIDE DEF L, c
  <2>6. L - accepted[l] + (accepted[l] + 1) + (c - 1) <= MaxLogs
    BY <2>5, <1>1, <1>2
  <2> QED
    BY <2>3, <2>4, <2>6 DEF CallsBounded
<1> HIDE DEF L, c
<1>6. ASSUME NEW l \in Loggers, LoggerStep(l)
      PROVE  CallsBounded'
  <2>1. UNCHANGED accepted
    BY <1>6 DEF LoggerStep, CreateThread, OpenLogfile, OpenLogfileFails, DestroyWaits,
       DestroyPushesStop, Release, StopThread, Joined, ExecuteWrites, ExecuteWriteFails,
       ExecuteOpenFails
  <2>2. UNCHANGED doing \/ Wake(l)
    BY <1>6 DEF LoggerStep, CreateThread, OpenLogfile, OpenLogfileFails, DestroyWaits,
       DestroyPushesStop, Release, StopThread, Joined, ExecuteWrites, ExecuteWriteFails,
       ExecuteOpenFails, PopBatch, producerVars
  <2>3. \A q \in Producers : doing'[q] # "idle" => doing[q] # "idle"
    BY <2>2, Wakes
  <2> QED
    BY <1>3, <2>1, <2>3
<1>7. ASSUME NEW p \in Producers, NEW l \in Loggers, LogDropped(p, l) \/ LogWaits(p, l)
      PROVE  CallsBounded'
  <2>1. UNCHANGED accepted
    BY <1>7 DEF LogDropped, LogWaits, loggerVars
  <2>2. \A q \in Producers : doing'[q] # "idle" => doing[q] # "idle"
    BY <1>7 DEF LogDropped, LogWaits, CallTypes
  <2> QED
    BY <1>3, <2>1, <2>2
<1>8. EntersEpollWait \/ EpollWait \/ ReadSignal \/ ThreadExits \/ UNCHANGED asyncVars
         => UNCHANGED <<accepted, doing>>
  BY DEF EntersEpollWait, EpollWait, ReadSignal, ThreadExits, asyncVars, loggerVars, producerVars
<1> QED
  BY <1>3, <1>4, <1>5, <1>6, <1>7, <1>8, AnyStep DEF CallStep

LEMMA DataTypes ==
    ASSUME LoggerTypes, NEW l \in Loggers
    PROVE  queue[l] \in Seq(Nat) /\ file[l] \in Seq(Int) /\ accepted[l] \in Nat
<1>1. MaxLogs \in Nat /\ Junk \in Int
  BY SizesAssumption DEF Junk
<1>2. queue[l] \in Seq(0 .. MaxLogs) /\ file[l] \in Seq(Junk .. MaxLogs)
      /\ accepted[l] \in 0 .. MaxLogs
  BY DEF LoggerTypes
<1> QED
  BY <1>1, <1>2

LEMMA QuietNext ==
    ASSUME QuietDestroy, LoggerTypes, CallTypes, [AsyncNext]_asyncVars,
           \A l \in Loggers : RefOf(l), \A p \in Producers : CallOf(p),
           \A l \in Loggers : QuietOf(l) /\ LinesOf(l)
    PROVE  \A l \in Loggers : QuietOf(l)' /\ LinesOf(l)'
<1> DEFINE Waits == {"waiting", "woken"}
\* What takes no message and lets nobody into the wait.
<1>1. ASSUME NEW k \in Loggers,
             queue'[k] = queue[k], file'[k] = file[k], failed'[k] = failed[k],
             accepted'[k] = accepted[k],
             destroying'[k] => destroying[k] \/ InWait(k) = {},
             destroying'[k] => InWait(k)' \subseteq InWait(k),
             life[k] \in Pushed => life'[k] \in Pushed
      PROVE  QuietOf(k)' /\ LinesOf(k)'
  <2>1. destroying'[k] => InWait(k)' = {}
    BY <1>1 DEF QuietOf
  <2>2. StopLast(queue[k])' /\ (Stop \in ToSet(queue[k])' => life'[k] \in Pushed)
    BY <1>1 DEF QuietOf, StopLast, ToSet
  <2>3. LinesOf(k)'
    BY <1>1 DEF LinesOf
  <2> QED
    BY <2>1, <2>2, <2>3 DEF QuietOf
\* destroy() begins only when nobody waits, and nobody comes after that.
<1>2. ASSUME NEW l \in Loggers, BeginsDestroy(l) \/ life[l] = "roomWoken"
      PROVE  InWait(l) = {} /\ Stop \notin ToSet(queue[l])
  <2>1. InWait(l) = {}
    <3>1. life[l] = "roomWoken" => destroying[l]
      BY DEF RefOf, Leaving
    <3> QED
      BY <3>1, <1>2 DEF BeginsDestroy, QuietOf
  <2>2. life[l] \notin Pushed
    BY <1>2 DEF BeginsDestroy, Pushed
  <2> QED
    BY <2>1, <2>2 DEF QuietOf
<1>3. ASSUME NEW l \in Loggers, NEW k \in Loggers, LoggerStep(l),
             ~DestroyPushesStop(l), ~ExecuteWrites(l), ~ExecuteWriteFails(l)
      PROVE  QuietOf(k)' /\ LinesOf(k)'
  <2>1. UNCHANGED <<doing, target, queue, file, failed, accepted>>
    BY <1>3 DEF LoggerStep, CreateThread, OpenLogfile, OpenLogfileFails, DestroyWaits, Release,
       StopThread, Joined, ExecuteOpenFails, producerVars
  <2>2. InWait(k)' = InWait(k)
    BY <2>1 DEF InWait
  <2>3. life[k] \in Pushed => life'[k] \in Pushed
    BY <1>3 DEF LoggerStep, CreateThread, OpenLogfile, OpenLogfileFails, DestroyWaits,
       BeginsDestroy, Release, StopThread, Joined, ExecuteOpenFails, LoggerTypes, Pushed
  <2>4. destroying'[k] => destroying[k] \/ InWait(k) = {}
    <3>1. CASE DestroyWaits(l) /\ k = l
      BY <3>1, <1>2 DEF DestroyWaits
    <3>2. CASE ~(DestroyWaits(l) /\ k = l)
      BY <1>3, <3>2 DEF LoggerStep, CreateThread, OpenLogfile, OpenLogfileFails, DestroyWaits,
         Release, StopThread, Joined, ExecuteOpenFails, LoggerTypes
    <3> QED
      BY <3>1, <3>2
  <2> QED
    BY <2>1, <2>2, <2>3, <2>4, <1>1
<1>4. ASSUME NEW l \in Loggers, NEW k \in Loggers, DestroyPushesStop(l)
      PROVE  QuietOf(k)' /\ LinesOf(k)'
  <2>1. UNCHANGED <<doing, target, file, failed, accepted>>
    BY <1>4 DEF DestroyPushesStop, producerVars
  <2>2. InWait(k)' = InWait(k)
    BY <2>1 DEF InWait
  <2>3. CASE k # l
    BY <1>1, <1>4, <2>1, <2>2, <2>3 DEF DestroyPushesStop, LoggerTypes
  <2>4. CASE k = l
    <3>1. InWait(l) = {} /\ Stop \notin ToSet(queue[l])
      BY <1>2, <1>4 DEF DestroyPushesStop
    <3>2. /\ queue'[l] = Append(queue[l], Stop) /\ life'[l] = "releasing"
          /\ queue[l] \in Seq(Nat) /\ file[l] \in Seq(Int) /\ accepted[l] \in Nat
      <4>1. queue'[l] = Append(queue[l], Stop) /\ life'[l] = "releasing"
        BY <1>4 DEF DestroyPushesStop, LoggerTypes
      <4> QED
        BY <4>1, DataTypes
    <3>3. /\ InSequence(file[l], Append(queue[l], Stop), failed[l], accepted[l])
          /\ StopLast(Append(queue[l], Stop))
      BY <3>1, <3>2, StopInOrder DEF LinesOf
    <3>4. LinesOf(l)'
      BY <2>1, <3>2, <3>3 DEF LinesOf
    <3>5. QuietOf(l)'
      BY <2>2, <2>4, <3>1, <3>2, <3>3 DEF QuietOf, Pushed
    <3> QED
      BY <2>4, <3>4, <3>5
  <2> QED
    BY <2>3, <2>4
<1>5. ASSUME NEW l \in Loggers, NEW k \in Loggers, ExecuteWrites(l) \/ ExecuteWriteFails(l)
      PROVE  QuietOf(k)' /\ LinesOf(k)'
  <2>1. PICK b \in 0 .. Len(queue[l]) : PopsUpTo(l, b)
    BY <1>5, Pops DEF ExecuteWrites, ExecuteWriteFails
  <2>2. Wake(l) /\ UNCHANGED <<target, destroying, accepted>>
    BY <1>5 DEF ExecuteWrites, ExecuteWriteFails, PopBatch
  <2>3. InWait(k)' = InWait(k)
    BY <2>2, Wakes DEF InWait
  <2>4. life[k] \in Pushed => life'[k] = life[k]
    BY <2>2, Wakes DEF Pushed
  <2> DEFINE r == SubSeq(queue[l], b + 1, Len(queue[l]))
             batch == SubSeq(queue[l], 1, b)
  <2>5. queue' = [queue EXCEPT ![l] = r] /\ BatchOf(l) = batch
    BY <2>1 DEF PopsUpTo
  <2>6. \/ /\ file' = [file EXCEPT ![l] = @ \o Written(batch)] /\ UNCHANGED failed
        \/ /\ failed' = [failed EXCEPT ![l] = @ \cup (ToSet(batch) \ {Stop})] /\ UNCHANGED file
    BY <1>5, <2>5 DEF ExecuteWrites, ExecuteWriteFails
  <2>7. CASE k # l
    <3>1. queue'[k] = queue[k] /\ file'[k] = file[k] /\ failed'[k] = failed[k]
      <4> HIDE DEF r, batch
      <4> QED
        BY <2>5, <2>6, <2>7 DEF LoggerTypes
    <3> QED
      BY <3>1, <2>2, <2>3, <2>4, <1>1
  <2>8. CASE k = l
    <3>1. queue[l] \in Seq(Nat) /\ file[l] \in Seq(Int) /\ accepted[l] \in Nat
      BY DataTypes
    <3>2. StopLast(queue[l]) /\ InSequence(file[l], queue[l], failed[l], accepted[l])
      BY DEF QuietOf, LinesOf
    <3>3. Taken(queue[l], b)
      BY <3>1, <3>2, TakesBatch
    <3>4. StopLast(r) /\ ToSet(r) \subseteq ToSet(queue[l])
      <4>1. \A i \in (b + 1) .. Len(queue[l]) : i \in DOMAIN queue[l]
        BY <3>1
      <4> QED
        BY <3>3, <4>1 DEF Taken, ToSet
    <3>5. /\ InSequence(file[l] \o Written(batch), r, failed[l], accepted[l])
          /\ InSequence(file[l], r, failed[l] \cup (ToSet(batch) \ {Stop}), accepted[l])
      BY <3>1, <3>2, WriteInOrder, LossInOrder
    <3> HIDE DEF r, batch
    <3>6. queue'[l] = r
      BY <2>5 DEF LoggerTypes
    <3>7. LinesOf(l)'
      <4>1. \/ file'[l] = file[l] \o Written(batch) /\ failed'[l] = failed[l]
            \/ file'[l] = file[l] /\ failed'[l] = failed[l] \cup (ToSet(batch) \ {Stop})
        BY <2>6 DEF LoggerTypes
      <4> QED
        BY <4>1, <3>5, <3>6, <2>2 DEF LinesOf
    <3>8. QuietOf(l)'
      <4>1. destroying'[l] => InWait(l)' = {}
        BY <2>2, <2>3, <2>8 DEF QuietOf
      <4>2. Stop \in ToSet(r) => life'[l] \in Pushed
        BY <3>4, <2>4, <2>8 DEF QuietOf
      <4> QED
        BY <4>1, <4>2, <3>4, <3>6 DEF QuietOf
    <3> QED
      BY <2>8, <3>7, <3>8
  <2> QED
    BY <2>7, <2>8
<1>6. ASSUME NEW p \in Producers, NEW l \in Loggers, CallStep(p, l), ~PushLogMessage(p, l),
             NEW k \in Loggers
      PROVE  QuietOf(k)' /\ LinesOf(k)'
  <2>1. UNCHANGED <<queue, file, failed, accepted, destroying, life>>
    BY <1>6 DEF CallStep, CallLog, LogDropped, LogWaits, loggerVars
  <2>2. destroying'[k] => InWait(k)' \subseteq InWait(k)
    <3>1. CASE CallLog(p, l) \/ LogDropped(p, l)
      BY <3>1 DEF CallLog, LogDropped, InWait, CallTypes
    <3>2. CASE LogWaits(p, l)
      <4>1. /\ target[p] = l /\ doing' = [doing EXCEPT ![p] = "waiting"] /\ UNCHANGED target
            /\ doing[p] = "woken" \/ ~destroying[l]
        BY <3>2 DEF LogWaits
      <4>2. \A q \in InWait(k)' : q \in InWait(k) \/ (q = p /\ k = l)
        BY <4>1 DEF InWait, CallTypes
      <4>3. doing[p] = "woken" => p \in InWait(l)
        BY <4>1 DEF InWait
      <4> QED
        BY <4>1, <4>2, <4>3, <2>1
    <3> QED
      BY <1>6, <3>1, <3>2 DEF CallStep
  <2>3. /\ queue'[k] = queue[k] /\ file'[k] = file[k] /\ failed'[k] = failed[k]
        /\ accepted'[k] = accepted[k] /\ (destroying'[k] => destroying[k])
        /\ life'[k] = life[k]
    BY <2>1
  <2> QED
    BY <2>2, <2>3, <1>1
<1>7. ASSUME NEW p \in Producers, NEW l \in Loggers, PushLogMessage(p, l), NEW k \in Loggers
      PROVE  QuietOf(k)' /\ LinesOf(k)'
  <2>1. /\ target[p] = l /\ doing' = [doing EXCEPT ![p] = "idle"]
        /\ UNCHANGED <<target, file, failed, destroying, life>>
        /\ queue' = [queue EXCEPT ![l] = Append(queue[l], accepted[l] + 1)]
        /\ accepted' = [accepted EXCEPT ![l] = accepted[l] + 1]
        /\ doing[p] = "woken" \/ (doing[p] = "log" /\ ~destroying[l])
    BY <1>7 DEF PushLogMessage, CanPush
  <2>2. InWait(k)' \subseteq InWait(k)
    BY <2>1 DEF InWait, CallTypes
  <2>3. CASE k # l
    <3>1. /\ queue'[k] = queue[k] /\ accepted'[k] = accepted[k]
          /\ file'[k] = file[k] /\ failed'[k] = failed[k] /\ life'[k] = life[k]
          /\ destroying'[k] => destroying[k]
      BY <2>1, <2>3 DEF LoggerTypes
    <3> QED
      BY <3>1, <2>2, <1>1
  <2>4. CASE k = l
    <3>1. ~destroying[l]
      <4>1. doing[p] = "woken" => p \in InWait(l)
        BY <2>1 DEF InWait
      <4> QED
        BY <4>1, <2>1 DEF QuietOf
    <3>2. life[l] = "open"
      BY <2>1, <3>1 DEF CallOf, RefOf
    <3>3. Stop \notin ToSet(queue[l])
      BY <3>2 DEF QuietOf, Pushed
    <3>4. queue[l] \in Seq(Nat) /\ file[l] \in Seq(Int) /\ accepted[l] \in Nat
      BY DataTypes
    <3> DEFINE r == Append(queue[l], accepted[l] + 1)
    <3>5. InSequence(file[l], r, failed[l], accepted[l] + 1)
      BY <3>3, <3>4, PushInOrder DEF LinesOf
    <3>6. Stop \notin ToSet(r)
      <4>1. accepted[l] + 1 \in Nat /\ accepted[l] + 1 # Stop
        BY <3>4 DEF Stop
      <4>2. ToSet(r) = ToSet(queue[l]) \cup {accepted[l] + 1}
        BY <3>4, <4>1, Appends
      <4> QED
        BY <4>1, <4>2, <3>3
    <3> HIDE DEF r
    <3>7. queue'[l] = r /\ accepted'[l] = accepted[l] + 1
      BY <2>1 DEF r, LoggerTypes
    <3>8. LinesOf(l)'
      BY <2>1, <3>5, <3>7 DEF LinesOf
    <3>9. QuietOf(l)'
      BY <2>1, <3>1, <3>6, <3>7 DEF QuietOf, StopLast, ToSet
    <3> QED
      BY <2>4, <3>8, <3>9
  <2> QED
    BY <2>3, <2>4
<1>8. ASSUME EntersEpollWait \/ EpollWait \/ ReadSignal \/ ThreadExits \/ UNCHANGED asyncVars,
             NEW k \in Loggers
      PROVE  QuietOf(k)' /\ LinesOf(k)'
  <2>1. UNCHANGED <<queue, file, failed, accepted, destroying, life, doing, target>>
    BY <1>8 DEF EntersEpollWait, EpollWait, ReadSignal, ThreadExits, asyncVars, loggerVars,
       producerVars
  <2>2. InWait(k)' = InWait(k)
    BY <2>1 DEF InWait
  <2> QED
    BY <2>1, <2>2, <1>1
<1> QED
  BY <1>3, <1>4, <1>5, <1>6, <1>7, <1>8, AnyStep DEF LoggerStep, CallStep

\* A batch of nothing but lines is written whole.
LEMMA WholeBatch ==
    ASSUME NEW q, q \in Seq(0 .. MaxLogs), NEW f, f \in Seq(Junk .. MaxLogs),
           NEW b \in 0 .. Len(q), ~Contains(SubSeq(q, 1, b), Stop)
    PROVE  ToSet(f) \cup ToSet(q)
              \subseteq ToSet(f \o Written(SubSeq(q, 1, b))) \cup ToSet(SubSeq(q, b + 1, Len(q)))
<1> DEFINE batch == SubSeq(q, 1, b)
           r == SubSeq(q, b + 1, Len(q))
           w == Written(batch)
           g == f \o w
           z == Len(q)
           m == Len(f)
<1>1. /\ b \in Nat /\ z \in Nat /\ b <= z /\ q \in Seq(Nat) /\ DOMAIN q = 1 .. z
      /\ f \in Seq(Int) /\ m \in Nat /\ DOMAIN f = 1 .. m
  <2>1. MaxLogs \in Nat /\ Junk \in Int
    BY SizesAssumption DEF Junk
  <2> QED
    BY <2>1
<1>2. /\ DOMAIN batch = 1 .. b /\ Len(batch) = b
      /\ \A i \in 1 .. b : batch[i] = q[i]
      /\ DOMAIN r = 1 .. z - b
      /\ \A i \in 1 .. z - b : r[i] = q[b + i]
  BY <1>1, Parts
<1>3. \A i \in 1 .. b : batch[i] # Stop
  BY <1>2 DEF Contains
<1> HIDE DEF batch, r, z, m
<1>4. LineCount(batch) = b
  <2>1. {i \in DOMAIN batch : batch[i] # Stop} = 1 .. b
    BY <1>2, <1>3
  <2>2. b \in Nat /\ IsFiniteSet(1 .. b) /\ Cardinality(1 .. b) = b
    <3>1. b \in Nat
      BY <1>1
    <3> QED
      BY <3>1, FS_Interval
  <2> QED
    BY <2>1, <2>2 DEF LineCount
<1>5. w = [i \in 1 .. b |-> q[i]]
  BY <1>2, <1>3, <1>4 DEF Written
<1>6. w \in Seq(Int) /\ Len(w) = b /\ \A i \in 1 .. b : w[i] = q[i]
  <2>1. \A i \in 1 .. b : q[i] \in Int
    BY <1>1
  <2> HIDE DEF w
  <2> QED
    BY <2>1, <1>1, <1>5
<1> HIDE DEF w
<1>7. IsConcat(g, f, w)
  BY <1>1, <1>6, Concats
<1> HIDE DEF g
<1>8. /\ DOMAIN g = 1 .. m + b
      /\ \A i \in 1 .. m : g[i] = f[i]
      /\ \A i \in 1 .. b : g[m + i] = q[i]
  BY <1>6, <1>7 DEF IsConcat, m
<1>9. ASSUME NEW i \in 1 .. m
      PROVE  f[i] \in ToSet(g)
  <2>1. i \in 1 .. m + b /\ g[i] = f[i]
    BY <1>1, <1>8
  <2> QED
    BY <2>1, <1>8 DEF ToSet
<1>10. ASSUME NEW i \in 1 .. z
       PROVE  q[i] \in ToSet(g) \cup ToSet(r)
  <2>1. CASE i <= b
    <3>1. m + i \in 1 .. m + b /\ g[m + i] = q[i]
      BY <2>1, <1>1, <1>8
    <3> QED
      BY <3>1, <1>8 DEF ToSet
  <2>2. CASE b < i
    <3>1. i - b \in 1 .. z - b /\ b + (i - b) = i
      BY <2>2, <1>1
    <3>2. r[i - b] = q[i]
      BY <3>1, <1>2
    <3> QED
      BY <3>1, <3>2, <1>2 DEF ToSet
  <2> QED
    BY <2>1, <2>2, <1>1
<1> QED
  BY <1>1, <1>9, <1>10 DEF ToSet, batch, r, w, g, z

\* One message more.
LEMMA WholePush ==
    ASSUME LoggerTypes, NEW l \in Loggers, NEW m \in Nat
    PROVE  ToSet(Append(queue[l], m)) = ToSet(queue[l]) \cup {m}
BY DataTypes, Appends

LEMMA ServedTypes ==
    ASSUME LoggerTypes
    PROVE  /\ QueueMax \in Nat /\ Served \in [Loggers -> 0 .. QueueMax]
           /\ \A l \in Loggers : Len(queue[l]) \in 0 .. QueueMax
<1>1. QueueMax \in Nat
  BY SizesAssumption
<1>2. \A k \in Loggers : queue[k] \in Seq(0 .. MaxLogs) /\ Len(queue[k]) <= QueueMax
  BY DEF LoggerTypes
<1>3. \A k \in Loggers : Len(queue[k]) \in 0 .. QueueMax
  BY <1>1, <1>2
<1>4. 0 \in 0 .. QueueMax
  BY <1>1
<1>5. Served \in [Loggers -> 0 .. QueueMax]
  BY <1>3, <1>4 DEF Served
<1> QED
  BY <1>1, <1>3, <1>5

\* What is queued for the loggers the thread watches, when one of them has more
\* or less, or is a new one.
LEMMA ServedChange ==
    ASSUME LoggerTypes, ThreadTypes, Running, Running', CountServed, NEW l \in Loggers,
           NEW c \in 0 .. QueueMax, Served' = [Served EXCEPT ![l] = c],
           NEW d \in Int, logNumber' = logNumber + d, d >= c - Served[l]
    PROVE  CountServed'
<1>1. QueueMax \in Nat /\ Served \in [Loggers -> 0 .. QueueMax]
  BY ServedTypes
<1>2. Total(Served', QueueMax) = Total(Served, QueueMax) - Served[l] + c
  BY <1>1, TotalChange
<1>3. Total(Served, QueueMax) \in Nat
  BY <1>1, TotalNat
<1> DEFINE t == Total(Served, QueueMax)
           u == Total(Served', QueueMax)
           s == Served[l]
           n == logNumber
<1>4. u = t - s + c /\ t \in Nat /\ s \in 0 .. QueueMax /\ n \in Int /\ n >= t /\ d >= c - s
  BY <1>1, <1>2, <1>3 DEF CountServed, ThreadTypes
<1> HIDE DEF t, u, s, n
<1>5. n + d >= u
  BY <1>1, <1>4
<1>6. CountServed' <=> (Running' => logNumber' >= Total(Served', QueueMax))
  BY DEF CountServed
<1> QED
  BY <1>5, <1>6 DEF n, u

LEMMA WatchedNext ==
    ASSUME LoggerTypes, ThreadTypes, CallTypes, StopRight, [AsyncNext]_asyncVars,
           \A l \in Loggers : RefOf(l), \A p \in Producers : CallOf(p),
           \A l \in Loggers : WatchedOf(l)
    PROVE  \A l \in Loggers : WatchedOf(l)'
<1>1. ASSUME NEW k \in Loggers,
             queue'[k] = queue[k], accepted'[k] = accepted[k], file'[k] = file[k],
             registered'[k] = registered[k], generation' = generation, ready' \subseteq ready,
             life'[k] \in Fresh => life[k] \in Fresh
      PROVE  WatchedOf(k)'
  BY <1>1 DEF WatchedOf
<1>2. ASSUME NEW l \in Loggers, NEW k \in Loggers, CreateThread(l)
      PROVE  WatchedOf(k)'
  <2>1. /\ UNCHANGED <<queue, accepted, file, registered>>
        /\ life'[k] \in Fresh => life[k] \in Fresh
    BY <1>2 DEF CreateThread, LoggerTypes, Fresh
  <2>2. CASE UNCHANGED logThreadVars
    BY <1>1, <2>1, <2>2 DEF logThreadVars
  <2>3. CASE ~UNCHANGED logThreadVars
    <3>1. generation' = generation + 1 /\ ready' = {}
      BY <1>2, <2>3 DEF CreateThread
    <3>2. registered[k] \in Nat /\ generation \in Nat /\ registered[k] <= generation
      BY SizesAssumption DEF WatchedOf, LoggerTypes, ThreadTypes
    <3>3. registered'[k] <= generation'
      BY <2>1, <3>1, <3>2
    <3> QED
      BY <2>1, <3>1, <3>3 DEF WatchedOf
  <2> QED
    BY <2>2, <2>3
<1>3. ASSUME NEW l \in Loggers, NEW k \in Loggers, OpenLogfile(l)
      PROVE  WatchedOf(k)'
  <2>1. /\ UNCHANGED <<queue, accepted, file, generation, ready>>
        /\ registered'[k] = IF k = l THEN generation ELSE registered[k]
        /\ life[l] = "opening" /\ life'[k] = IF k = l THEN "open" ELSE life[k]
    BY <1>3 DEF OpenLogfile, logThreadVars, LoggerTypes
  <2>2. CASE k # l
    BY <1>1, <2>1, <2>2
  <2>3. CASE k = l
    <3>1. accepted'[k] = 0 /\ life'[k] \notin Fresh
      BY <2>1, <2>3 DEF WatchedOf, Fresh
    <3>2. 1 .. 0 = {} /\ generation' \in Nat
      BY <2>1, SizesAssumption DEF ThreadTypes
    <3>3. registered'[k] = generation' /\ generation' <= generation'
      BY <2>1, <2>3, <3>2
    <3> QED
      BY <3>1, <3>2, <3>3 DEF WatchedOf
  <2> QED
    BY <2>2, <2>3
<1>4. ASSUME NEW l \in Loggers, NEW k \in Loggers,
             OpenLogfileFails(l) \/ DestroyWaits(l) \/ Release(l) \/ StopThread(l) \/ Joined(l)
      PROVE  WatchedOf(k)'
  <2>1. UNCHANGED <<queue, accepted, file, registered, generation, ready>>
    BY <1>4 DEF OpenLogfileFails, DestroyWaits, Release, StopThread, Joined, logThreadVars
  <2>2. life'[k] \in Fresh => life[k] \in Fresh
    BY <1>4 DEF OpenLogfileFails, DestroyWaits, Release, StopThread, Joined, LoggerTypes, Fresh
  <2> QED
    BY <1>1, <2>1, <2>2
<1>5. ASSUME NEW l \in Loggers, NEW k \in Loggers, DestroyPushesStop(l)
      PROVE  WatchedOf(k)'
  <2>1. /\ UNCHANGED <<accepted, file, registered, generation, ready>>
        /\ queue'[k] = IF k = l THEN Append(queue[l], Stop) ELSE queue[k]
        /\ life'[k] = IF k = l THEN "releasing" ELSE life[k]
    BY <1>5 DEF DestroyPushesStop, LoggerTypes
  <2>2. CASE k # l
    BY <1>1, <2>1, <2>2
  <2>3. CASE k = l
    <3>1. ToSet(queue'[k]) = ToSet(queue[k]) \cup {Stop}
      BY <2>1, <2>3, WholePush DEF Stop
    <3>2. /\ registered'[k] = registered[k] /\ accepted'[k] = accepted[k] /\ file'[k] = file[k]
          /\ generation' = generation /\ ready' = ready
      BY <2>1
    <3>3. life'[k] \notin Fresh
      BY <2>1, <2>3 DEF Fresh
    <3>4. ToSet(queue[k]) \subseteq ToSet(queue'[k])
      BY <3>1
    <3> QED
      BY <3>2, <3>3, <3>4 DEF WatchedOf
  <2> QED
    BY <2>2, <2>3
<1>6. ASSUME NEW p \in Producers, NEW l \in Loggers, NEW k \in Loggers, PushLogMessage(p, l)
      PROVE  WatchedOf(k)'
  <2>1. /\ UNCHANGED <<file, registered, generation, ready, life>>
        /\ queue'[k] = IF k = l THEN Append(queue[l], accepted[l] + 1) ELSE queue[k]
        /\ accepted'[k] = IF k = l THEN accepted[l] + 1 ELSE accepted[k]
        /\ doing[p] \in {"log", "woken"} /\ target[p] = l
    BY <1>6 DEF PushLogMessage, CanPush, LoggerTypes
  <2>2. CASE k # l
    BY <1>1, <2>1, <2>2
  <2>3. CASE k = l
    <3>1. accepted[l] \in Nat
      BY DataTypes
    <3> DEFINE m == accepted[l] + 1
    <3>2. m \in Nat /\ queue'[k] = Append(queue[k], m)
      BY <2>1, <2>3, <3>1
    <3> HIDE DEF m
    <3>3. ToSet(queue'[k]) = ToSet(queue[k]) \cup {m}
      BY <3>2, WholePush
    <3>4. ToSet(queue'[k]) = ToSet(queue[k]) \cup {accepted[l] + 1}
      BY <3>3 DEF m
    <3>5. 1 .. accepted'[k] \subseteq 1 .. accepted[k] \cup {accepted[l] + 1}
      BY <2>1, <2>3, <3>1
    <3>6. life'[k] \notin Fresh
      BY <2>1, <2>3 DEF CallOf, Leaving, Fresh
    <3> QED
      BY <2>1, <3>4, <3>5, <3>6 DEF WatchedOf
  <2> QED
    BY <2>2, <2>3
\* The log thread handles a logger it watches, whose life has begun.
<1>7. ASSUME NEW l \in Loggers, NEW k \in Loggers,
             ExecuteWrites(l) \/ ExecuteWriteFails(l) \/ ExecuteOpenFails(l)
      PROVE  /\ life'[k] \in Fresh => life[k] \in Fresh
             /\ l \in ready /\ registered[l] = generation /\ registered[l] # 0
             /\ ready' = ready \ {l} /\ life'[l] \notin Fresh
             /\ UNCHANGED <<accepted, generation>>
  <2>1. l \in ready /\ ready' = ready \ {l} /\ UNCHANGED <<accepted, generation>>
    BY <1>7 DEF ExecuteWrites, ExecuteWriteFails, ExecuteOpenFails, Handles
  <2>2. registered[l] # 0 /\ registered[l] = generation /\ life[l] \notin Fresh
    BY <2>1 DEF RefOf, WatchedOf, Fresh
  <2>3. \A j \in Loggers : life'[j] = life[j] \/ life'[j] = "roomWoken"
    <3>1. CASE ExecuteOpenFails(l)
      BY <3>1 DEF ExecuteOpenFails
    <3>2. CASE ExecuteWrites(l) \/ ExecuteWriteFails(l)
      BY <3>2, Wakes DEF ExecuteWrites, ExecuteWriteFails, PopBatch
    <3> QED
      BY <1>7, <3>1, <3>2
  <2> QED
    BY <2>1, <2>2, <2>3 DEF Fresh
<1>8. ASSUME NEW l \in Loggers, NEW k \in Loggers,
             ExecuteWrites(l) \/ ExecuteWriteFails(l) \/ ExecuteOpenFails(l)
      PROVE  WatchedOf(k)'
  <2>1. /\ life'[k] \in Fresh => life[k] \in Fresh
        /\ l \in ready /\ registered[l] = generation /\ registered[l] # 0
        /\ ready' = ready \ {l} /\ life'[l] \notin Fresh
        /\ UNCHANGED <<accepted, generation>>
    BY <1>7, <1>8
  <2>2. CASE k # l
    <3>1. queue'[k] = queue[k] /\ file'[k] = file[k]
      BY <1>8, <2>2 DEF ExecuteWrites, ExecuteWriteFails, ExecuteOpenFails, PopBatch, LoggerTypes
    <3>2. registered'[k] = registered[k]
      BY <1>8, <2>2 DEF ExecuteWrites, ExecuteWriteFails, ExecuteOpenFails, RemoveLogger, LoggerTypes
    <3> QED
      BY <1>1, <2>1, <3>1, <3>2
  <2>3. CASE k = l /\ registered'[l] = 0
    <3>1. generation' \in Nat
      BY <2>1, SizesAssumption DEF ThreadTypes
    <3> QED
      BY <2>1, <2>3, <3>1 DEF WatchedOf
  <2>4. CASE k = l /\ registered'[l] # 0
    <3>1. ~RemoveLogger(l)
      BY <2>4 DEF RemoveLogger, LoggerTypes
    <3>2. /\ ExecuteWrites(l) /\ ~Contains(BatchOf(l), Stop) /\ UNCHANGED registered
          /\ file' = [file EXCEPT ![l] = @ \o Written(BatchOf(l))]
      BY <1>8, <3>1 DEF ExecuteWrites, ExecuteWriteFails, ExecuteOpenFails
    <3>3. PICK b \in 0 .. Len(queue[l]) : PopsUpTo(l, b)
      BY <3>2, Pops DEF ExecuteWrites
    <3> DEFINE batch == SubSeq(queue[l], 1, b)
               r == SubSeq(queue[l], b + 1, Len(queue[l]))
    <3>4. queue' = [queue EXCEPT ![l] = r] /\ BatchOf(l) = batch
      BY <3>3 DEF PopsUpTo
    <3>5. ToSet(file[l]) \cup ToSet(queue[l])
             \subseteq ToSet(file[l] \o Written(batch)) \cup ToSet(r)
      BY <3>2, <3>4, WholeBatch DEF LoggerTypes
    <3> HIDE DEF batch, r
    <3>6. file'[l] = file[l] \o Written(batch) /\ queue'[l] = r
      BY <3>2, <3>4 DEF LoggerTypes
    <3> QED
      BY <2>1, <2>4, <3>2, <3>5, <3>6 DEF WatchedOf
  <2> QED
    BY <2>2, <2>3, <2>4
<1>9. ASSUME EpollWait, NEW k \in Loggers
      PROVE  WatchedOf(k)'
  <2>1. k \in ready' => registered[k] = generation
    BY <1>9, LoggersAssumption DEF EpollWait, Readable
  <2>2. UNCHANGED <<queue, accepted, file, registered, generation, life>>
    BY <1>9 DEF EpollWait, loggerVars
  <2> QED
    BY <2>1, <2>2 DEF WatchedOf
<1>10. ASSUME NEW k \in Loggers,
              \/ EntersEpollWait \/ ReadSignal \/ ThreadExits \/ UNCHANGED asyncVars
              \/ \E p \in Producers, l \in Loggers : \/ CallLog(p, l) \/ LogDropped(p, l)
                                                     \/ LogWaits(p, l)
       PROVE  WatchedOf(k)'
  <2>1. /\ UNCHANGED <<queue, accepted, file, registered, generation, life>>
        /\ ready' \subseteq ready
    BY <1>10 DEF EntersEpollWait, ReadSignal, ThreadExits, CallLog, LogDropped, LogWaits,
       asyncVars, loggerVars, logThreadVars
  <2> QED
    BY <1>1, <2>1
<1> QED
  BY <1>2, <1>3, <1>4, <1>5, <1>6, <1>8, <1>9, <1>10, AnyStep DEF LoggerStep, CallStep

LEMMA CountServedNext ==
    ASSUME LoggerTypes, LoggerTypes', ThreadTypes, StopRight, CountServed,
           [AsyncNext]_asyncVars, \A l \in Loggers : RefOf(l), \A l \in Loggers : WatchedOf(l)
    PROVE  CountServed'
<1>1. ASSUME UNCHANGED <<queue, registered, generation, logNumber>>, Running' => Running
      PROVE  CountServed'
  <2>1. Served' = Served
    BY <1>1 DEF Served
  <2> QED
    BY <1>1, <2>1 DEF CountServed
<1>2. Served = [l \in Loggers |-> IF registered[l] = generation THEN Len(queue[l]) ELSE 0]
      /\ Served' = [l \in Loggers |-> IF registered'[l] = generation' THEN Len(queue'[l]) ELSE 0]
  BY DEF Served
<1>3. ASSUME NEW l \in Loggers, CreateThread(l)
      PROVE  CountServed'
  <2>1. CASE UNCHANGED logThreadVars
    BY <1>1, <1>3, <2>1 DEF CreateThread, logThreadVars, Running
  <2>2. CASE ~UNCHANGED logThreadVars
    <3>1. generation' = generation + 1 /\ logNumber' = 0 /\ UNCHANGED registered
      BY <1>3, <2>2 DEF CreateThread
    <3>2. ASSUME NEW k \in Loggers
          PROVE  registered'[k] # generation'
      <4>1. registered[k] \in Nat /\ generation \in Nat /\ registered[k] <= generation
        BY SizesAssumption DEF WatchedOf, LoggerTypes, ThreadTypes
      <4> QED
        BY <3>1, <4>1
    <3>3. Served' = [k \in Loggers |-> 0]
      BY <1>2, <3>2
    <3>4. QueueMax \in Nat /\ [k \in Loggers |-> 0] \in [Loggers -> 0 .. QueueMax]
      BY SizesAssumption
    <3>5. Total([k \in Loggers |-> 0], QueueMax) <= 0
      BY <3>4, TotalZero
    <3>6. Total([k \in Loggers |-> 0], QueueMax) \in Nat
      BY <3>4, TotalNat
    <3>7. 0 >= Total([k \in Loggers |-> 0], QueueMax)
      BY <3>5, <3>6
    <3>8. logNumber' >= Total(Served', QueueMax)
      BY <3>1, <3>3, <3>7
    <3> QED
      BY <3>8 DEF CountServed
  <2> QED
    BY <2>1, <2>2
<1>4. ASSUME NEW l \in Loggers, OpenLogfile(l)
      PROVE  CountServed'
  <2>1. /\ UNCHANGED <<queue, generation, logNumber, thread>>
        /\ registered' = [registered EXCEPT ![l] = generation] /\ life[l] = "opening"
    BY <1>4 DEF OpenLogfile, logThreadVars
  <2>2. CASE ~Running
    BY <2>1, <2>2 DEF CountServed, Running
  <2>3. CASE Running
    <3>1. Len(queue[l]) = 0
      BY <2>1 DEF WatchedOf, Fresh
    <3>2. Served' = [Served EXCEPT ![l] = 0]
      BY <1>2, <2>1, <3>1 DEF LoggerTypes
    <3>3. Served[l] \in 0 .. QueueMax /\ QueueMax \in Nat /\ logNumber' = logNumber + 0
      BY <2>1, ServedTypes DEF ThreadTypes
    <3>4. 0 >= 0 - Served[l] /\ 0 \in 0 .. QueueMax
      BY <3>3
    <3>5. Running'
      BY <2>1, <2>3 DEF Running
    <3>6. ASSUME NEW c \in 0 .. QueueMax, NEW d \in Int, Served' = [Served EXCEPT ![l] = c],
                 logNumber' = logNumber + d, d >= c - Served[l]
          PROVE  CountServed'
      BY <2>3, <3>5, <3>6, ServedChange
    <3> DEFINE c == 0
    <3>7. /\ Served' = [Served EXCEPT ![l] = c] /\ logNumber' = logNumber + c
          /\ c >= c - Served[l] /\ c \in 0 .. QueueMax /\ c \in Int
      BY <3>2, <3>3, <3>4
    <3> HIDE DEF c
    <3> QED
      BY <3>6, <3>7
  <2> QED
    BY <2>2, <2>3
\* A message more in one queue and in the count.
<1>5. ASSUME NEW l \in Loggers, NEW x \in Nat, queue' = [queue EXCEPT ![l] = Append(queue[l], x)],
             logNumber' = logNumber + 1, UNCHANGED <<thread, registered, generation>>
      PROVE  CountServed'
  <2>1. CASE ~Running
    BY <1>5, <2>1 DEF CountServed, Running
  <2>2. CASE Running
    <3> DEFINE n == Len(queue[l])
               c == IF registered[l] = generation THEN n + 1 ELSE 0
    <3>1. Len(Append(queue[l], x)) = n + 1 /\ n \in Nat
      BY DataTypes, <1>5
    <3>2. Served' = [Served EXCEPT ![l] = c]
      BY <1>2, <1>5, <3>1 DEF LoggerTypes
    <3>3. Served[l] = IF registered[l] = generation THEN n ELSE 0
      BY <1>2
    <3>4. Len(queue'[l]) <= QueueMax /\ queue'[l] = Append(queue[l], x) /\ QueueMax \in Nat
      BY <1>5, SizesAssumption DEF LoggerTypes
    <3>5. n + 1 <= QueueMax
      BY <3>1, <3>4
    <3> HIDE DEF n
    <3>6. c \in 0 .. QueueMax /\ 1 >= c - Served[l]
      BY <3>1, <3>3, <3>4, <3>5
    <3>7. Running'
      BY <1>5, <2>2 DEF Running
    <3> HIDE DEF c
    <3>8. ASSUME NEW d \in Int, logNumber' = logNumber + d, d >= c - Served[l]
          PROVE  CountServed'
      BY <2>2, <3>2, <3>6, <3>7, <3>8, ServedChange
    <3> QED
      BY <1>5, <3>6, <3>8
  <2> QED
    BY <2>1, <2>2
<1>6. ASSUME NEW l \in Loggers, DestroyPushesStop(l)
      PROVE  CountServed'
  <2>1. /\ queue' = [queue EXCEPT ![l] = Append(queue[l], Stop)] /\ logNumber' = logNumber + 1
        /\ UNCHANGED <<thread, registered, generation>>
    BY <1>6 DEF DestroyPushesStop
  <2> QED
    BY <1>5, <2>1 DEF Stop
<1>7. ASSUME NEW p \in Producers, NEW l \in Loggers, PushLogMessage(p, l)
      PROVE  CountServed'
  <2>1. /\ queue' = [queue EXCEPT ![l] = Append(queue[l], accepted[l] + 1)]
        /\ logNumber' = logNumber + 1
        /\ UNCHANGED <<thread, registered, generation>>
    BY <1>7 DEF PushLogMessage
  <2>2. accepted[l] + 1 \in Nat
    BY DataTypes
  <2> QED
    BY <1>5, <2>1, <2>2
\* A batch less in the queue of a logger the thread watches, and in the count.
<1>8. ASSUME NEW l \in Loggers, l \in ready, NEW b \in 0 .. Len(queue[l]),
             \A k \in Loggers : k # l => queue'[k] = queue[k] /\ registered'[k] = registered[k],
             Len(queue'[l]) = Len(queue[l]) - b,
             registered'[l] \in {0, registered[l]},
             logNumber' = logNumber - b, UNCHANGED <<thread, generation>>
      PROVE  CountServed'
  <2>1. /\ Running /\ registered[l] = generation /\ generation # 0
        /\ (registered'[l] = generation' <=> registered'[l] # 0)
    BY <1>8 DEF StopRight, Running, WatchedOf, RefOf
  <2> DEFINE n == Len(queue[l])
             c == IF registered'[l] # 0 THEN n - b ELSE 0
  <2>2. n \in 0 .. QueueMax /\ QueueMax \in Nat /\ b \in 0 .. n
    BY ServedTypes
  <2>3. Served' = [Served EXCEPT ![l] = c]
    BY <1>2, <1>8, <2>1
  <2>4. Served[l] = n
    BY <1>2, <2>1
  <2> HIDE DEF n
  <2>5. c \in 0 .. QueueMax /\ -b >= c - Served[l] /\ -b \in Int
    BY <2>2, <2>4
  <2>6. logNumber' = logNumber + (-b)
    BY <1>8, <2>2 DEF ThreadTypes
  <2>7. Running'
    BY <1>8, <2>1 DEF Running
  <2> HIDE DEF c
  <2> QED
    BY <2>1, <2>3, <2>5, <2>6, <2>7, ServedChange
<1>9. ASSUME NEW l \in Loggers, ExecuteWrites(l) \/ ExecuteWriteFails(l) \/ ExecuteOpenFails(l)
      PROVE  CountServed'
  <2>1. /\ l \in ready /\ UNCHANGED <<thread, generation>>
        /\ \A k \in Loggers : k # l => registered'[k] = registered[k]
        /\ registered'[l] \in {0, registered[l]}
    BY <1>9 DEF ExecuteWrites, ExecuteWriteFails, ExecuteOpenFails, Handles, RemoveLogger, LoggerTypes
  <2>2. CASE ExecuteOpenFails(l)
    <3>1. UNCHANGED <<queue, logNumber>>
      BY <2>2 DEF ExecuteOpenFails
    <3>2. Len(queue[l]) \in Nat /\ logNumber \in Int
      BY ServedTypes DEF ThreadTypes
    <3>3. 0 \in 0 .. Len(queue[l]) /\ Len(queue'[l]) = Len(queue[l]) - 0 /\ logNumber' = logNumber - 0
      BY <3>1, <3>2
    <3> QED
      BY <1>8, <2>1, <3>1, <3>3
  <2>3. CASE ExecuteWrites(l) \/ ExecuteWriteFails(l)
    <3>1. PICK b \in 0 .. Len(queue[l]) : PopsUpTo(l, b)
      BY <2>3, Pops DEF ExecuteWrites, ExecuteWriteFails
    <3>2. /\ logNumber' = logNumber - b
          /\ queue' = [queue EXCEPT ![l] = SubSeq(queue[l], b + 1, Len(queue[l]))]
      BY <3>1 DEF PopsUpTo
    <3>3. Len(queue'[l]) = Len(queue[l]) - b /\ \A k \in Loggers : k # l => queue'[k] = queue[k]
      BY <3>2, BatchTypes DEF LoggerTypes
    <3> QED
      BY <1>8, <2>1, <3>2, <3>3
  <2> QED
    BY <1>9, <2>2, <2>3
<1>10. ASSUME \/ \E l \in Loggers : \/ OpenLogfileFails(l) \/ DestroyWaits(l) \/ Release(l)
                                    \/ StopThread(l) \/ Joined(l)
              \/ \E p \in Producers, l \in Loggers : \/ CallLog(p, l) \/ LogDropped(p, l)
                                                     \/ LogWaits(p, l)
              \/ EntersEpollWait \/ EpollWait \/ ReadSignal \/ ThreadExits \/ UNCHANGED asyncVars
       PROVE  CountServed'
  <2>1. UNCHANGED <<queue, registered, generation, logNumber>> /\ (Running' => Running)
    BY <1>10 DEF OpenLogfileFails, DestroyWaits, Release, StopThread, Joined, CallLog, LogDropped,
       LogWaits, EntersEpollWait, EpollWait, ReadSignal, ThreadExits, asyncVars, loggerVars,
       logThreadVars, Running
  <2> QED
    BY <1>1, <2>1
<1> QED
  BY <1>3, <1>4, <1>6, <1>7, <1>9, <1>10, AnyStep DEF LoggerStep, CallStep

LEMMA AsyncInvInit == AsyncInit => AsyncInv
<1> SUFFICES ASSUME AsyncInit
             PROVE  AsyncInv
  OBVIOUS
<1> USE DEF AsyncInit
<1>1. MaxLogs \in Nat /\ QueueMax \in Nat /\ MaxThreads \in Nat /\ MaxFailures \in Nat
  BY SizesAssumption
<1>2. LoggerTypes
  <2>1. queue \in [Loggers -> Seq(0 .. MaxLogs)] /\ file \in [Loggers -> Seq(Junk .. MaxLogs)]
    OBVIOUS
  <2>2. \A l \in Loggers : Len(queue[l]) <= QueueMax
    BY <1>1
  <2> QED
    BY <1>1, <2>1, <2>2 DEF LoggerTypes, Lives
<1>3. ThreadTypes
  <2>1. stop \in BOOLEAN /\ thread \in {"none", "looping", "polling", "exited"}
    BY Zenon
  <2>2. generation \in 0 .. MaxThreads /\ logNumber \in Int /\ signals \in 0 .. 1
        /\ ready \subseteq Loggers \cup {Self}
    BY <1>1
  <2> QED
    BY <2>1, <2>2 DEF ThreadTypes
<1>4. CallTypes
  BY <1>1 DEF CallTypes
<1>5. \A l \in Loggers : InWait(l) = {}
  BY DEF InWait
<1>6. ASSUME NEW l \in Loggers
      PROVE  RefOf(l) /\ WaitOf(l)
  <2>1. /\ life[l] = "new" /\ ref[l] = 0 /\ registered[l] = 0 /\ destroying[l] = FALSE
        /\ waiterNumber[l] = 0 /\ ready = {}
    OBVIOUS
  <2>2. life[l] \notin Unreleased \cup {"failed"} /\ life[l] \notin InRoom /\ life[l] \notin Leaving
    BY <2>1 DEF Unreleased, InRoom, Leaving
  <2>3. /\ One(life[l] \in Unreleased \cup {"failed"}) = 0 /\ One(life[l] \in InRoom) = 0
        /\ One(registered[l] # 0) = 0
    BY <2>1, <2>2 DEF One
  <2>4. Cardinality(InWait(l)) = 0
    BY <1>5, FS_EmptySet
  <2> QED
    <3>0. (life[l] \in Leaving) = FALSE
      BY <2>2
    <3>1. destroying[l] = (life[l] \in Leaving)
      BY <2>1, <3>0, Zenon
    <3>2. ref[l] = One(life[l] \in Unreleased \cup {"failed"}) + One(registered[l] # 0)
      BY <2>1, <2>3
    <3>3. WaitOf(l)
      BY <2>1, <2>3, <2>4 DEF WaitOf
    <3>4. l \notin ready
      BY <2>1
    <3> QED
      BY <2>1, <3>1, <3>2, <3>3, <3>4, Zenon DEF RefOf
<1>7. \A p \in Producers : CallOf(p)
  BY DEF CallOf
<1>8. StopRight
  BY DEF StopRight, Joining
<1>9. CallsBounded
  <2>1. accepted \in [Loggers -> 0 .. MaxLogs] /\ \A l \in Loggers : accepted[l] = 0
    BY <1>1
  <2>2. Logged \in Nat /\ Logged <= 0
    BY <1>1, <2>1, TotalNat, TotalZero DEF Logged
  <2>3. Calls = {}
    BY DEF Calls
  <2>4. Cardinality(Calls) = 0
    BY <2>3, FS_EmptySet
  <2> QED
    BY <1>1, <2>2, <2>4 DEF CallsBounded
<1>10. \A l \in Loggers : QuietOf(l) /\ LinesOf(l)
  <2>1. \A l \in Loggers : queue[l] = <<>> /\ file[l] = <<>> /\ failed[l] = {} /\ accepted[l] = 0
                           /\ destroying[l] = FALSE
    OBVIOUS
  <2>2. ToSet(<<>>) = {} /\ DOMAIN <<>> = {} /\ 1 .. 0 = {}
    BY DEF ToSet
  <2> QED
    BY <2>1, <2>2 DEF QuietOf, LinesOf, InSequence, StopLast
<1>11. CountServed /\ \A l \in Loggers : WatchedOf(l)
  <2>1. 1 .. 0 = {} /\ 0 <= 0
    OBVIOUS
  <2>2. \A l \in Loggers : /\ registered[l] = 0 /\ queue[l] = <<>> /\ accepted[l] = 0
                          /\ l \notin ready
    OBVIOUS
  <2>3. \A l \in Loggers : WatchedOf(l)
    BY <2>1, <2>2 DEF WatchedOf
  <2> QED
    BY <2>3 DEF CountServed, Running
<1> QED
  BY <1>2, <1>3, <1>4, <1>6, <1>7, <1>8, <1>9, <1>10, <1>11 DEF AsyncInv

LEMMA AsyncInvNext == AsyncInv /\ [AsyncNext]_asyncVars => AsyncInv'
<1> SUFFICES ASSUME AsyncInv, [AsyncNext]_asyncVars
             PROVE  AsyncInv'
  OBVIOUS
<1>1. /\ LoggerTypes /\ ThreadTypes /\ CallTypes
      /\ \A l \in Loggers : RefOf(l) /\ WaitOf(l)
      /\ \A p \in Producers : CallOf(p)
      /\ StopRight /\ CallsBounded
  BY DEF AsyncInv
<1>2. LoggerTypes' /\ ThreadTypes' /\ CallTypes'
  BY <1>1, LoggerTypesNext, ThreadTypesNext, CallTypesNext
<1>3. \A l \in Loggers : RefOf(l)' /\ WaitOf(l)'
  BY <1>1, RefNext, WaitNext
<1>7. \A l \in Loggers : WatchedOf(l)
  BY DEF AsyncInv
<1>4. (\A p \in Producers : CallOf(p)') /\ StopRight' /\ CallsBounded'
  BY <1>1, <1>2, CallNext, StopNext, CallsBoundedNext
<1>5. QuietDestroy => \A l \in Loggers : QuietOf(l)' /\ LinesOf(l)'
  BY <1>1, QuietNext DEF AsyncInv
<1>6. CountServed' /\ \A l \in Loggers : WatchedOf(l)'
  BY <1>1, <1>2, <1>7, WatchedNext, CountServedNext DEF AsyncInv
<1> QED
  BY <1>2, <1>3, <1>4, <1>5, <1>6 DEF AsyncInv

LEMMA AsyncInvariance == AsyncSpec => []AsyncInv
BY AsyncInvInit, AsyncInvNext, PTL DEF AsyncSpec

LEMMA AsyncInvTypes == AsyncInv => AsyncTypeOK
<1> SUFFICES ASSUME AsyncInv
             PROVE  AsyncTypeOK
  OBVIOUS
<1>1. LoggerTypes /\ ThreadTypes /\ CallTypes /\ \A l \in Loggers : RefOf(l) /\ WaitOf(l)
  BY DEF AsyncInv
<1>2. queue \in [Loggers -> BoundedSeq(0 .. MaxLogs, QueueMax)]
  <2> SUFFICES ASSUME NEW l \in Loggers
               PROVE  queue[l] \in BoundedSeq(0 .. MaxLogs, QueueMax)
    BY <1>1 DEF LoggerTypes
  <2> DEFINE q == queue[l]
             n == Len(q)
  <2>1. q \in Seq(0 .. MaxLogs) /\ n \in Nat /\ n <= QueueMax /\ QueueMax \in Nat
    BY <1>1, SizesAssumption DEF LoggerTypes
  <2> HIDE DEF q
  <2>2. q \in [1 .. n -> 0 .. MaxLogs]
    BY <2>1, LenProperties
  <2>3. n \in 0 .. QueueMax
    BY <2>1
  <2> HIDE DEF n
  <2>4. BoundedSeq(0 .. MaxLogs, QueueMax) = UNION {[1 .. m -> 0 .. MaxLogs] : m \in 0 .. QueueMax}
    BY DEF BoundedSeq, SeqOf
  <2>5. q \in BoundedSeq(0 .. MaxLogs, QueueMax)
    BY <2>2, <2>3, <2>4, Zenon
  <2> QED
    BY <2>5 DEF q
<1>3. waiterNumber \in [Loggers -> 0 .. Cardinality(Producers) + 1]
  <2> SUFFICES ASSUME NEW l \in Loggers
               PROVE  waiterNumber[l] \in 0 .. Cardinality(Producers) + 1
    BY <1>1 DEF LoggerTypes
  <2>1. InWait(l) \subseteq Producers
    BY DEF InWait
  <2>2. Cardinality(InWait(l)) <= Cardinality(Producers) /\ Cardinality(InWait(l)) \in Nat
        /\ Cardinality(Producers) \in Nat
    BY <2>1, ProducersAssumption, FS_Subset, FS_CardinalityType, WaitersFinite
  <2> DEFINE one == One(life[l] \in InRoom)
             w == waiterNumber[l]
             c == Cardinality(InWait(l))
             d == Cardinality(Producers)
  <2>3. one \in 0 .. 1
    BY DEF One
  <2>4. w = c + one
    BY <1>1 DEF WaitOf
  <2>5. c <= d /\ c \in Nat /\ d \in Nat
    BY <2>2
  <2> HIDE DEF one, w, c, d
  <2>6. w \in 0 .. d + 1
    BY <2>3, <2>4, <2>5
  <2> QED
    BY <2>6 DEF w, d
<1>4. ref \in [Loggers -> 0 .. 2]
  <2> SUFFICES ASSUME NEW l \in Loggers
               PROVE  ref[l] \in 0 .. 2
    BY <1>1 DEF LoggerTypes
  <2>1. One(life[l] \in Unreleased \cup {"failed"}) \in 0 .. 1 /\ One(registered[l] # 0) \in 0 .. 1
    BY DEF One
  <2>2. ref[l] = One(life[l] \in Unreleased \cup {"failed"}) + One(registered[l] # 0)
    BY <1>1 DEF RefOf
  <2> QED
    BY <2>1, <2>2
<1>5. \A l \in Loggers : ToSet(file[l]) \subseteq Junk .. MaxLogs /\ failed[l] \subseteq 1 .. MaxLogs
  <2> SUFFICES ASSUME NEW l \in Loggers
               PROVE  ToSet(file[l]) \subseteq Junk .. MaxLogs /\ failed[l] \subseteq 1 .. MaxLogs
    OBVIOUS
  <2>1. file[l] \in Seq(Junk .. MaxLogs) /\ failed[l] \subseteq 1 .. MaxLogs
    BY <1>1 DEF LoggerTypes
  <2> QED
    BY <2>1, InSet
<1> QED
  BY <1>1, <1>2, <1>3, <1>4, <1>5 DEF AsyncTypeOK, LoggerTypes, ThreadTypes, CallTypes, Lives,
     Leaving

\* Whatever the callers do, the counters keep their ranges: the queue never holds more
\* than log_queue_size, a logger never more than two references, and _waiter_number
\* counts each caller at most once.
THEOREM AsyncLoggerTypeCorrect == AsyncSpec => []AsyncTypeOK
BY AsyncInvariance, AsyncInvTypes, PTL

\* In the code, destroy() holds a reference until it has queued its last message, and
\* the log thread another from the registration to the removal, which happens while it
\* handles the logger.  So, however calls race with destroy(), whatever fails and
\* whichever loggers share the thread, neither of the two is left with a freed logger.
THEOREM LoggerFreedByLastHolder == AsyncSpec => []FreedByLastHolder
<1>1. AsyncInv => FreedByLastHolder
  <2> SUFFICES ASSUME AsyncInv, NEW l \in Loggers, ref[l] = 0,
                      life[l] # "new", life[l] # "opening"
               PROVE  /\ life[l] \in {"deciding", "joining", "done"}
                      /\ registered[l] = 0
                      /\ l \notin ready
    BY DEF FreedByLastHolder
  <2>1. LoggerTypes /\ RefOf(l)
    BY DEF AsyncInv
  <2>2. life[l] \in {"deciding", "joining", "done"} /\ registered[l] = 0
    BY <2>1 DEF RefOf, One, Unreleased, LoggerTypes, Lives, Leaving
  <2> QED
    BY <2>1, <2>2 DEF RefOf
<1> QED
  BY <1>1, AsyncInvariance, PTL

\* In the code, push_log_message() appends to the queue and batch_write() takes from
\* its head, under _queue_lock, and writes the slots of the lines alone.  So, when no
\* call waits for room as destroy() begins, what is written, lost to a reported error
\* and queued is what was accepted, in order and once.
THEOREM LinesWrittenInOrder ==
    ASSUME QuietDestroy
    PROVE  AsyncSpec => []LinesInOrder
<1>1. AsyncInv => LinesInOrder
  <2> SUFFICES ASSUME AsyncInv, NEW l \in Loggers
               PROVE  LET all == file[l] \o queue[l]
                      IN  /\ \A i, j \in DOMAIN all : i < j => all[j] = Stop \/ all[i] < all[j]
                          /\ (ToSet(all) \ {Stop}) \cup failed[l] = 1 .. accepted[l]
                          /\ ToSet(all) \cap failed[l] = {}
    BY AsyncInvTypes DEF LinesInOrder
  <2> DEFINE f == file[l]
             q == queue[l]
             all == f \o q
             m == Len(f)
             n == Len(q)
  <2>1. f \in Seq(Int) /\ q \in Seq(Nat) /\ q \in Seq(Int) /\ m \in Nat /\ n \in Nat
        /\ DOMAIN f = 1 .. m /\ DOMAIN q = 1 .. n
    <3>1. f \in Seq(Int) /\ q \in Seq(Nat)
      BY DataTypes DEF AsyncInv
    <3> QED
      BY <3>1
  <2>2. InSequence(f, q, failed[l], accepted[l])
    BY DEF AsyncInv, LinesOf
  <2>3. IsConcat(all, f, q)
    BY <2>1, Concats
  <2> HIDE DEF f, q, all, m, n
  <2>4. /\ DOMAIN all = 1 .. m + n
        /\ \A i \in 1 .. m : all[i] = f[i]
        /\ \A i \in 1 .. n : all[m + i] = q[i]
    BY <2>3 DEF IsConcat, m, n
  <2>5. \A i \in 1 .. m + n : i \in 1 .. m \/ (i - m \in 1 .. n /\ all[i] = q[i - m])
    <3> SUFFICES ASSUME NEW i \in 1 .. m + n, i \notin 1 .. m
                 PROVE  i - m \in 1 .. n /\ all[i] = q[i - m]
      OBVIOUS
    <3>1. i - m \in 1 .. n /\ m + (i - m) = i
      BY <2>1
    <3> QED
      BY <3>1, <2>4
  <2>6. \A i, j \in DOMAIN all : i < j => all[j] = Stop \/ all[i] < all[j]
    <3> SUFFICES ASSUME NEW i \in 1 .. m + n, NEW j \in 1 .. m + n, i < j
                 PROVE  all[j] = Stop \/ all[i] < all[j]
      BY <2>4
    <3>1. CASE j \in 1 .. m
      <4>1. i \in 1 .. m
        BY <3>1, <2>1
      <4> QED
        BY <3>1, <4>1, <2>1, <2>2, <2>4 DEF InSequence
    <3>2. CASE j \notin 1 .. m /\ i \in 1 .. m
      <4>1. i \in DOMAIN f /\ j - m \in DOMAIN q /\ all[i] = f[i] /\ all[j] = q[j - m]
        BY <3>2, <2>1, <2>4, <2>5
      <4> QED
        BY <4>1, <2>2 DEF InSequence
    <3>3. CASE j \notin 1 .. m /\ i \notin 1 .. m
      <4>1. i - m < j - m /\ i - m \in 1 .. n /\ j - m \in 1 .. n
            /\ all[i] = q[i - m] /\ all[j] = q[j - m]
        BY <3>3, <2>1, <2>5
      <4> QED
        BY <4>1, <2>1, <2>2 DEF InSequence
    <3> QED
      BY <3>1, <3>2, <3>3
  <2>7. ToSet(all) = ToSet(f) \cup ToSet(q)
    <3>1. ASSUME NEW i \in DOMAIN all
          PROVE  all[i] \in ToSet(f) \cup ToSet(q)
      BY <2>1, <2>4, <2>5 DEF ToSet
    <3>2. \A i \in 1 .. m : i \in 1 .. m + n
      BY <2>1
    <3>3. \A i \in 1 .. n : m + i \in 1 .. m + n
      BY <2>1
    <3>4. ASSUME NEW i \in DOMAIN f
          PROVE  f[i] \in ToSet(all)
      BY <3>2, <2>1, <2>4 DEF ToSet
    <3>5. ASSUME NEW i \in DOMAIN q
          PROVE  q[i] \in ToSet(all)
      <4>1. m + i \in DOMAIN all /\ all[m + i] = q[i]
        BY <3>3, <2>1, <2>4
      <4> QED
        BY <4>1 DEF ToSet
    <3>6. ToSet(all) \subseteq ToSet(f) \cup ToSet(q)
      BY <3>1 DEF ToSet
    <3>7. ToSet(f) \subseteq ToSet(all) /\ ToSet(q) \subseteq ToSet(all)
      BY <3>4, <3>5 DEF ToSet
    <3> QED
      BY <3>6, <3>7
  <2>8. Stop \notin ToSet(f)
    BY <2>2 DEF InSequence, Stop
  <2>9. /\ (ToSet(all) \ {Stop}) \cup failed[l] = 1 .. accepted[l]
        /\ ToSet(all) \cap failed[l] = {}
    BY <2>2, <2>7, <2>8 DEF InSequence
  <2> QED
    BY <2>6, <2>9 DEF all, f, q
<1> QED
  BY <1>1, AsyncInvariance, PTL

\* In the code, every message that enters a queue adds one to _log_number, a batch takes
\* off as many as it took, and run() ends only when nothing is left.  So, with calls that
\* race with destroy(), failures and loggers that share the thread, the log thread leaves
\* no line behind of a logger it still watches.
THEOREM AllLinesWrittenAtExit == AsyncSpec => AllWrittenAtExit
<1> DEFINE AtExit == thread # "exited" /\ thread' = "exited" =>
                        \A l \in Loggers : registered[l] # 0 /\ registered[l] = generation
                                              => 1 .. accepted[l] \subseteq ToSet(file[l])
<1>1. AsyncInv /\ [AsyncNext]_asyncVars => [AtExit]_asyncVars
  <2> SUFFICES ASSUME AsyncInv, [AsyncNext]_asyncVars, thread # "exited", thread' = "exited",
                      NEW l \in Loggers, registered[l] # 0, registered[l] = generation
               PROVE  1 .. accepted[l] \subseteq ToSet(file[l])
    BY DEF AtExit
  <2>1. LoggerTypes /\ ThreadTypes /\ CountServed /\ WatchedOf(l)
    BY DEF AsyncInv
  <2>2. ThreadExits
    <3>1. ASSUME NEW k \in Loggers, LoggerStep(k)
          PROVE  FALSE
      BY <3>1 DEF LoggerStep, CreateThread, OpenLogfile, OpenLogfileFails, DestroyWaits,
         DestroyPushesStop, Release, StopThread, Joined, ExecuteWrites, ExecuteWriteFails,
         ExecuteOpenFails, logThreadVars
    <3>2. ASSUME NEW p \in Producers, NEW k \in Loggers, CallStep(p, k)
          PROVE  FALSE
      BY <3>2 DEF CallStep, CallLog, LogDropped, LogWaits, PushLogMessage, logThreadVars
    <3>3. ~(EntersEpollWait \/ EpollWait \/ ReadSignal \/ UNCHANGED asyncVars)
      BY DEF EntersEpollWait, EpollWait, ReadSignal, asyncVars, logThreadVars
    <3> QED
      BY <3>1, <3>2, <3>3, AnyStep
  <2>3. Running /\ logNumber <= 0
    BY <2>2 DEF ThreadExits, Running
  <2>4. QueueMax \in Nat /\ Served \in [Loggers -> 0 .. QueueMax]
    BY <2>1, ServedTypes
  <2>5. Total(Served, QueueMax) <= 0
    <3>1. Total(Served, QueueMax) \in Nat /\ logNumber \in Int
      BY <2>1, <2>4, TotalNat DEF ThreadTypes
    <3>2. logNumber >= Total(Served, QueueMax)
      BY <2>1, <2>3 DEF CountServed
    <3> QED
      BY <2>3, <3>1, <3>2
  <2>6. Served[l] = 0
    BY <2>4, <2>5, TotalZero
  <2>7. queue[l] = <<>>
    BY <2>1, <2>6 DEF Served, LoggerTypes
  <2>8. ToSet(queue[l]) = {}
    BY <2>7 DEF ToSet
  <2> QED
    BY <2>1, <2>8 DEF WatchedOf
<1> QED
  BY <1>1, AsyncInvariance, PTL DEF AsyncSpec, AllWrittenAtExit
=============================================================================
