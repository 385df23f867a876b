--------------------------- MODULE NetworkProofs ---------------------------
(***************************************************************************)
(* Theorems about the network layer.  Connection and Epoller, for any      *)
(* number of clients, listeners, waiters and descriptors: each open        *)
(* descriptor has one owner, and what epoll watches for an object is what  *)
(* it remembers.  MessageStream, for any number and sizes of messages, cut *)
(* anywhere: the receiver knows where it is, and messages arrive in order. *)
(***************************************************************************)
EXTENDS Connection, MessageStream, FiniteSetTheorems, SequenceTheorems, WellFoundedInduction, TLAPS

\* A set of descriptors that is not empty has a lowest one.
LEMMA LowestIsIn ==
    ASSUME NEW T, T \subseteq Fds, T # {}
    PROVE  Lowest(T) \in T
<1>1. T \subseteq Nat
  BY EpollerAssumption
<1>2. PICK m \in T : \A k \in T : ~(<<k, m>> \in OpToRel(<, Nat))
  BY <1>1, NatLessThanWellFounded, WFMin, Zenon
<1>3. \A k \in T : ~(k < m)
  BY <1>1, <1>2 DEF OpToRel
<1>4. \A k \in T : m <= k
  BY <1>1, <1>3
<1> QED
  BY <1>4 DEF Lowest

LEMMA NewFdIsUnused ==
    ASSUME Unused # {}
    PROVE  NewFd \in Fds /\ NewFd \notin opened /\ NewFd # None
<1>1. NewFd \in Unused
  BY LowestIsIn DEF NewFd, Unused
<1> QED
  BY <1>1, EpollerAssumption DEF Unused, None

\* With three unused descriptors create() gets three different ones.
LEMMA ThreeUnused ==
    ASSUME opened \subseteq Fds, Cardinality(Unused) >= 3,
           NEW r, r = Lowest(Unused \ {NewFd}), NEW w, w = Lowest(Unused \ {NewFd, r})
    PROVE  /\ {NewFd, r, w} \subseteq Unused
           /\ NewFd # r /\ NewFd # w /\ r # w
           /\ \A f \in {NewFd, r, w} : f \in Fds /\ f \notin opened /\ f # None
<1>1. IsFiniteSet(Unused) /\ Unused \subseteq Fds
  BY EpollerAssumption, FS_Subset DEF Unused
<1>2. Unused # {}
  BY FS_EmptySet
<1>3. NewFd \in Unused
  BY <1>1, <1>2, LowestIsIn DEF NewFd
<1>4. IsFiniteSet(Unused \ {NewFd}) /\ Cardinality(Unused \ {NewFd}) = Cardinality(Unused) - 1
  BY <1>1, <1>3, FS_RemoveElement
<1>5. Cardinality(Unused) \in Nat
  BY <1>1, FS_CardinalityType
<1>6. Unused \ {NewFd} # {}
  BY <1>4, <1>5, FS_EmptySet
<1>7. r \in Unused \ {NewFd}
  BY <1>1, <1>6, LowestIsIn
<1>8. Cardinality((Unused \ {NewFd}) \ {r}) = Cardinality(Unused) - 2
  BY <1>4, <1>5, <1>7, FS_RemoveElement
<1>9. (Unused \ {NewFd}) \ {r} # {}
  BY <1>5, <1>8, FS_EmptySet
<1>10. Unused \ {NewFd, r} # {}
  BY <1>9
<1>11. w \in Unused \ {NewFd, r}
  BY <1>1, <1>10, LowestIsIn
<1>12. {NewFd, r, w} \subseteq Unused /\ NewFd # r /\ NewFd # w /\ r # w
  BY <1>3, <1>7, <1>11
<1>13. \A f \in Unused : f \in Fds /\ f \notin opened /\ f # None
  BY EpollerAssumption DEF Unused, None
<1> QED
  BY <1>12, <1>13
-----------------------------------------------------------------------------
\* Who has which descriptor

MaybeFd == Fds \cup {None}

FdTypes ==
    /\ opened \subseteq Fds /\ lost \subseteq Fds
    /\ fd \in [Objects -> MaybeFd] /\ epfd \in MaybeFd /\ pipe \in MaybeFd

\* The epoller has its three descriptors together or none.
Owners ==
    /\ \A f \in Fds : f \in opened <=>
                         f \in lost \/ f = epfd \/ f = pipe \/ \E o \in Objects : fd[o] = f
    /\ epfd \notin lost /\ pipe \notin lost /\ \A o \in Objects : fd[o] \notin lost
    /\ \A o, p \in Objects : fd[o] # None /\ o # p => fd[o] # fd[p]
    /\ \A o \in Objects : fd[o] # None => fd[o] # epfd /\ fd[o] # pipe
    /\ epfd # None => epfd # pipe
    /\ (fd[Sensor] = None <=> epfd = None) /\ (pipe = None <=> epfd = None)

FdBooks == FdTypes /\ Owners

LEMMA NoneIsNoFd == None \notin Fds /\ None \in MaybeFd /\ Fds \subseteq MaybeFd
BY EpollerAssumption DEF None, MaybeFd

\* An object without a descriptor gets one that nobody has.
LEMMA GiveFd ==
    ASSUME FdBooks, NEW o \in Others, fd[o] = None, Unused # {},
           opened' = opened \cup {NewFd}, fd' = [fd EXCEPT ![o] = NewFd],
           UNCHANGED <<epfd, pipe, lost>>
    PROVE  FdBooks'
<1> DEFINE n == NewFd
<1>1. n \in Fds /\ n \notin opened /\ n # None
  BY NewFdIsUnused
<1>2. opened' = opened \cup {n} /\ fd' = [fd EXCEPT ![o] = n]
  OBVIOUS
<1> HIDE DEF n
<1>3. o \in Objects /\ o # Sensor /\ Sensor \in Objects
  BY EpollerAssumption DEF Objects
<1>4. /\ fd \in [Objects -> MaybeFd] /\ opened \subseteq Fds /\ lost \subseteq Fds
      /\ epfd \in MaybeFd /\ pipe \in MaybeFd /\ None \notin Fds
  BY NoneIsNoFd DEF FdBooks, FdTypes
<1>5. fd'[o] = n /\ \A p \in Objects : p # o => fd'[p] = fd[p]
  BY <1>2, <1>3, <1>4
<1>6. n \notin lost /\ n # epfd /\ n # pipe /\ \A p \in Objects : fd[p] # n
  BY <1>1 DEF FdBooks, Owners
<1>7. FdTypes'
  BY <1>1, <1>2, <1>3, <1>4, NoneIsNoFd DEF FdTypes
<1>8. Owners'
  <2>1. \A f \in Fds : f \in opened' <=>
                          f \in lost \/ f = epfd \/ f = pipe \/ \E p \in Objects : fd'[p] = f
    <3>1. ASSUME NEW f \in Fds
          PROVE  (\E p \in Objects : fd'[p] = f) <=> f = n \/ \E p \in Objects : fd[p] = f
      BY <1>3, <1>4, <1>5
    <3> QED
      BY <1>2, <3>1 DEF FdBooks, Owners
  <2>2. \A p \in Objects : fd'[p] \notin lost
    BY <1>5, <1>6 DEF FdBooks, Owners
  <2>3. \A p, q \in Objects : fd'[p] # None /\ p # q => fd'[p] # fd'[q]
    BY <1>1, <1>5, <1>6 DEF FdBooks, Owners
  <2>4. \A p \in Objects : fd'[p] # None => fd'[p] # epfd /\ fd'[p] # pipe
    BY <1>5, <1>6 DEF FdBooks, Owners
  <2>5. fd'[Sensor] = fd[Sensor]
    BY <1>3, <1>5
  <2> QED
    BY <2>1, <2>2, <2>3, <2>4, <2>5 DEF FdBooks, Owners
<1> QED
  BY <1>7, <1>8 DEF FdBooks

\* Objects other than the sensor close their descriptors, which nobody else has.
LEMMA DropFds ==
    ASSUME FdBooks, NEW S, S \subseteq Others,
           opened' = opened \ {fd[o] : o \in S},
           fd' = [o \in Objects |-> IF o \in S THEN None ELSE fd[o]],
           UNCHANGED <<epfd, pipe, lost>>
    PROVE  FdBooks'
<1>1. S \subseteq Objects /\ Sensor \notin S /\ Sensor \in Objects
  BY EpollerAssumption DEF Objects
<1>2. /\ fd \in [Objects -> MaybeFd] /\ opened \subseteq Fds /\ lost \subseteq Fds
      /\ epfd \in MaybeFd /\ pipe \in MaybeFd /\ None \notin Fds /\ None \in MaybeFd
  BY NoneIsNoFd DEF FdBooks, FdTypes
<1>3. \A p \in Objects : fd'[p] = IF p \in S THEN None ELSE fd[p]
  OBVIOUS
<1>4. FdTypes'
  BY <1>2 DEF FdTypes
<1>5. Owners'
  <2>1. ASSUME NEW f \in Fds
        PROVE  f \in opened' <=>
                  f \in lost \/ f = epfd \/ f = pipe \/ \E p \in Objects : fd'[p] = f
    <3>1. f \in opened' <=> f \in opened /\ \A o \in S : fd[o] # f
      OBVIOUS
    <3>2. (\E p \in Objects : fd'[p] = f) <=> \E p \in Objects : p \notin S /\ fd[p] = f
      BY <1>2, <1>3
    <3>3. f # None
      BY <1>2
    <3> QED
      BY <1>1, <3>1, <3>2, <3>3 DEF FdBooks, Owners
  <2>2. \A p \in Objects : fd'[p] \notin lost
    BY <1>2, <1>3 DEF FdBooks, Owners
  <2>3. \A p, q \in Objects : fd'[p] # None /\ p # q => fd'[p] # fd'[q]
    BY <1>3 DEF FdBooks, Owners
  <2>4. \A p \in Objects : fd'[p] # None => fd'[p] # epfd /\ fd'[p] # pipe
    BY <1>3 DEF FdBooks, Owners
  <2>5. fd'[Sensor] = fd[Sensor]
    BY <1>1, <1>3
  <2> QED
    BY <2>1, <2>2, <2>3, <2>4, <2>5 DEF FdBooks, Owners
<1> QED
  BY <1>4, <1>5 DEF FdBooks

LEMMA DoCloseDrops ==
    ASSUME FdBooks, NEW o \in Others, DoClose(o), UNCHANGED <<epfd, pipe, lost>>
    PROVE  /\ FdBooks' /\ fd'[o] = None
           /\ \A p \in Objects : p # o => fd'[p] = fd[p]
<1>1. fd \in [Objects -> MaybeFd] /\ o \in Objects
  BY DEF FdBooks, FdTypes, Objects
<1>2. CASE fd[o] = None
  <2>1. UNCHANGED <<opened, fd, epfd, pipe, lost>>
    BY <1>2 DEF DoClose
  <2> QED
    BY <1>2, <2>1 DEF FdBooks, FdTypes, Owners
<1>3. CASE fd[o] # None
  <2>1. opened' = opened \ {fd[o]} /\ fd' = [fd EXCEPT ![o] = None]
    BY <1>3 DEF DoClose
  <2>2. opened' = opened \ {fd[p] : p \in {o}}
    BY <2>1
  <2>3. fd' = [p \in Objects |-> IF p \in {o} THEN None ELSE fd[p]]
    BY <1>1, <2>1
  <2>4. FdBooks'
    BY <2>2, <2>3, DropFds
  <2> QED
    BY <1>1, <2>1, <2>4
<1> QED
  BY <1>2, <1>3

\* A descriptor that is lost when a connect fails at once is nobody's.
LEMMA LoseFd ==
    ASSUME FdBooks, Unused # {}, opened' = opened \cup {NewFd}, lost' = lost \cup {NewFd},
           UNCHANGED <<epfd, pipe, fd>>
    PROVE  FdBooks'
<1> DEFINE n == NewFd
<1>1. n \in Fds /\ n \notin opened /\ n # None
  BY NewFdIsUnused
<1>2. opened' = opened \cup {n} /\ lost' = lost \cup {n}
  OBVIOUS
<1> HIDE DEF n
<1>3. n # epfd /\ n # pipe /\ \A p \in Objects : fd[p] # n
  BY <1>1 DEF FdBooks, Owners
<1> QED
  BY <1>1, <1>2, <1>3 DEF FdBooks, FdTypes, Owners

\* create() gives the epoller three descriptors, destroy() takes them.
LEMMA CreateGives ==
    ASSUME FdBooks, Create, UNCHANGED lost
    PROVE  /\ FdBooks' /\ \A p \in Others : fd'[p] = fd[p]
           /\ fd'[Sensor] \in Fds /\ fd'[Sensor] \notin opened
<1> DEFINE e == NewFd
           r == Lowest(Unused \ {e})
           w == Lowest(Unused \ {e, r})
<1>1. /\ epfd = None /\ opened' = opened \cup {e, r, w} /\ epfd' = e /\ pipe' = w
      /\ fd' = [fd EXCEPT ![Sensor] = r] /\ Cardinality(Unused) >= 3 /\ lost' = lost
  BY DEF Create
<1>2. e # r /\ e # w /\ r # w /\ \A f \in {e, r, w} : f \in Fds /\ f \notin opened /\ f # None
  BY <1>1, ThreeUnused DEF FdBooks, FdTypes
<1> HIDE DEF e, r, w
<1>3. /\ fd \in [Objects -> MaybeFd] /\ opened \subseteq Fds /\ lost \subseteq Fds
      /\ Sensor \in Objects /\ Sensor \notin Others /\ Others \subseteq Objects
  BY EpollerAssumption DEF FdBooks, FdTypes, Objects
<1>4. fd'[Sensor] = r /\ \A p \in Objects : p # Sensor => fd'[p] = fd[p]
  BY <1>1, <1>3
<1>5. fd[Sensor] = None /\ pipe = None
  BY <1>1 DEF FdBooks, Owners
<1>6. \A f \in {e, r, w} : f \notin lost /\ \A p \in Objects : fd[p] # f
  BY <1>2 DEF FdBooks, Owners
<1>7. FdTypes'
  BY <1>1, <1>2, <1>3, NoneIsNoFd DEF FdTypes
<1>8. Owners'
  <2>1. ASSUME NEW f \in Fds
        PROVE  f \in opened' <=>
                  f \in lost \/ f = e \/ f = w \/ \E p \in Objects : fd'[p] = f
    <3>1. f \in opened <=> f \in lost \/ \E p \in Objects : fd[p] = f
      BY <1>1, <1>5, NoneIsNoFd DEF FdBooks, Owners
    <3>2. (\E p \in Objects : fd'[p] = f) <=> f = r \/ \E p \in Objects : fd[p] = f
      BY <1>3, <1>4, <1>5, NoneIsNoFd
    <3> QED
      BY <1>1, <3>1, <3>2
  <2>2. \A p \in Objects : fd'[p] \notin lost
    BY <1>4, <1>6 DEF FdBooks, Owners
  <2>3. \A p, q \in Objects : fd'[p] # None /\ p # q => fd'[p] # fd'[q]
    BY <1>2, <1>4, <1>6 DEF FdBooks, Owners
  <2>4. \A p \in Objects : fd'[p] # None => fd'[p] # e /\ fd'[p] # w
    BY <1>2, <1>4, <1>6
  <2> QED
    BY <1>1, <1>2, <1>4, <1>6, <2>1, <2>2, <2>3, <2>4 DEF Owners
<1> QED
  BY <1>2, <1>3, <1>4, <1>7, <1>8 DEF FdBooks

LEMMA DestroyTakes ==
    ASSUME FdBooks, Destroy, UNCHANGED lost
    PROVE  FdBooks' /\ \A p \in Others : fd'[p] = fd[p]
<1>1. /\ epfd # None /\ opened' = opened \ {epfd, fd[Sensor], pipe}
      /\ epfd' = None /\ pipe' = None /\ fd' = [fd EXCEPT ![Sensor] = None] /\ lost' = lost
  BY DEF Destroy
<1>2. /\ fd \in [Objects -> MaybeFd] /\ opened \subseteq Fds /\ lost \subseteq Fds
      /\ Sensor \in Objects /\ Sensor \notin Others /\ Others \subseteq Objects
      /\ None \notin Fds /\ None \in MaybeFd
  BY EpollerAssumption, NoneIsNoFd DEF FdBooks, FdTypes, Objects
<1>3. fd'[Sensor] = None /\ \A p \in Objects : p # Sensor => fd'[p] = fd[p]
  BY <1>1, <1>2
<1>4. FdTypes'
  BY <1>1, <1>2 DEF FdTypes
<1>5. Owners'
  <2>1. ASSUME NEW f \in Fds
        PROVE  f \in opened' <=> f \in lost \/ \E p \in Objects : fd'[p] = f
    <3>1. (\E p \in Objects : fd'[p] = f) <=> \E p \in Objects : p # Sensor /\ fd[p] = f
      BY <1>2, <1>3
    <3>2. f \in opened' <=> f \in opened /\ f # epfd /\ f # fd[Sensor] /\ f # pipe
      BY <1>1
    <3> QED
      BY <1>1, <1>2, <3>1, <3>2 DEF FdBooks, Owners
  <2>2. \A p \in Objects : fd'[p] \notin lost
    BY <1>2, <1>3 DEF FdBooks, Owners
  <2>3. \A p, q \in Objects : fd'[p] # None /\ p # q => fd'[p] # fd'[q]
    BY <1>3 DEF FdBooks, Owners
  <2> QED
    BY <1>1, <1>2, <1>3, <2>1, <2>2, <2>3 DEF Owners
<1> QED
  BY <1>2, <1>3, <1>4, <1>5 DEF FdBooks
-----------------------------------------------------------------------------
\* The rest of what OwnedOnce rests on

ConnTypes == /\ state \in [Clients -> {"unestablished", "establishing", "established"}]
             /\ times \in [Clients -> 0 .. MaxAttempts]
             /\ channel \in [Clients \cup Waiters -> MaybeFd]

Channels == \A o \in Clients \cup Waiters : fd[o] # None => channel[o] = fd[o]

\* The listeners counted are those with a descriptor.
Listening == /\ created \in 0 .. NumListeners /\ creating \in BOOLEAN
             /\ creating => created < NumListeners
             /\ \A l \in Listeners : fd[l] # None <=> l <= created

ConnInv == FdBooks /\ ConnTypes /\ Channels /\ Listening

LEMMA Kinds ==
    /\ Others = Clients \cup Listeners \cup Waiters /\ Others \subseteq Objects
    /\ \A o \in Clients \cup Waiters : o \in Others /\ o \notin Listeners /\ o # Sensor
    /\ \A c \in Clients : c \notin Waiters
    /\ \A l \in Listeners : l \in Others /\ l \notin Clients \cup Waiters /\ l # Sensor
BY ConnectionAssumption, EpollerAssumption DEF Objects

\* The objects that are no sensor keep their descriptors and channels.
LEMMA NothingMoves ==
    ASSUME ConnInv, ConnTypes', FdBooks', \A o \in Others : fd'[o] = fd[o],
           \A o \in Clients \cup Waiters : fd[o] # None => channel'[o] = channel[o],
           created' = created, creating' \in BOOLEAN, creating' => created < NumListeners
    PROVE  ConnInv'
<1>1. Channels'
  BY Kinds DEF ConnInv, Channels
<1>2. Listening'
  BY Kinds DEF ConnInv, Listening
<1> QED
  BY <1>1, <1>2 DEF ConnInv

LEMMA StaysOwned ==
    ASSUME FdBooks, UNCHANGED <<opened, lost, fd, epfd, pipe>>
    PROVE  FdBooks'
BY DEF FdBooks, FdTypes, Owners

\* A client or a waiter gets a descriptor, and its channel the same.
LEMMA AttachKeeps ==
    ASSUME ConnInv, ConnTypes', NEW o \in Clients \cup Waiters, fd[o] = None, Unused # {},
           opened' = opened \cup {NewFd}, fd' = [fd EXCEPT ![o] = NewFd],
           channel' = [channel EXCEPT ![o] = NewFd],
           UNCHANGED <<epfd, pipe, lost, created, creating>>
    PROVE  ConnInv'
<1>1. FdBooks'
  BY GiveFd, Kinds DEF ConnInv
<1>2. /\ fd \in [Objects -> MaybeFd] /\ channel \in [Clients \cup Waiters -> MaybeFd]
      /\ o \in Objects
  BY Kinds DEF ConnInv, FdBooks, FdTypes, ConnTypes
<1>3. /\ fd'[o] = NewFd /\ channel'[o] = NewFd
      /\ \A p \in Objects : p # o => fd'[p] = fd[p]
      /\ \A p \in Clients \cup Waiters : p # o => channel'[p] = channel[p]
  BY <1>2
<1>4. Channels'
  BY <1>3, Kinds DEF ConnInv, Channels
<1>5. Listening'
  BY <1>3, Kinds DEF ConnInv, Listening
<1> QED
  BY <1>1, <1>4, <1>5 DEF ConnInv

\* A client or a waiter that is closed.
LEMMA CloseKeeps ==
    ASSUME ConnInv, ConnTypes', NEW o \in Clients \cup Waiters, DoClose(o),
           UNCHANGED <<epfd, pipe, lost, channel, created, creating>>
    PROVE  ConnInv'
<1>1. FdBooks' /\ fd'[o] = None /\ \A p \in Objects : p # o => fd'[p] = fd[p]
  BY DoCloseDrops, Kinds DEF ConnInv
<1>2. Channels'
  BY <1>1, Kinds DEF ConnInv, Channels
<1>3. Listening'
  BY <1>1, Kinds DEF ConnInv, Listening
<1> QED
  BY <1>1, <1>2, <1>3 DEF ConnInv

LEMMA MoreTimes ==
    ASSUME ConnTypes, NEW c \in Clients, times[c] < MaxAttempts,
           times' = [times EXCEPT ![c] = @ + 1]
    PROVE  times' \in [Clients -> 0 .. MaxAttempts]
<1>1. times[c] \in 0 .. MaxAttempts
  BY DEF ConnTypes
<1>2. times[c] + 1 \in 0 .. MaxAttempts
  BY <1>1, ConnectionAssumption
<1> QED
  BY <1>2 DEF ConnTypes

LEMMA SameTruth ==
    ASSUME NEW b, NEW x \in BOOLEAN, b = x
    PROVE  b \in BOOLEAN /\ (b => x)
OBVIOUS

LEMMA ConnInit == Init => ConnInv
<1> SUFFICES ASSUME Init PROVE ConnInv
  OBVIOUS
<1>1. \A o \in Objects : fd[o] = None
  BY DEF Init, EpollInit
<1>2. FdTypes
  BY NoneIsNoFd DEF Init, EpollInit, FdTypes
<1>3. Owners
  BY <1>1, NoneIsNoFd, EpollerAssumption DEF Init, EpollInit, Owners, Objects
<1>4. ConnTypes
  BY ConnectionAssumption, NoneIsNoFd DEF Init, ConnTypes
<1>5. Channels
  BY <1>1, Kinds DEF Channels
<1>6. Listening
  <2>1. created = 0 /\ creating = FALSE /\ NumListeners \in Nat
    BY ConnectionAssumption DEF Init
  <2>2. \A l \in Listeners : fd[l] = None /\ ~(l <= created)
    BY <1>1, <2>1, Kinds DEF Listeners
  <2>3. created \in 0 .. NumListeners
    BY <2>1
  <2>4. creating \in BOOLEAN /\ ~creating
    BY <2>1
  <2> QED
    BY <2>2, <2>3, <2>4 DEF Listening
<1> QED
  BY <1>2, <1>3, <1>4, <1>5, <1>6 DEF ConnInv, FdBooks
-----------------------------------------------------------------------------
\* The steps of the clients

LEMMA ConnectsKeep ==
    ASSUME ConnInv, NEW c \in Clients,
           AsyncConnectsAtOnce(c) \/ AsyncConnectPends(c) \/ TimedConnects(c)
    PROVE  ConnInv'
<1>1. /\ fd[c] = None /\ times[c] < MaxAttempts /\ Unused # {}
      /\ opened' = opened \cup {NewFd} /\ fd' = [fd EXCEPT ![c] = NewFd]
      /\ channel' = [channel EXCEPT ![c] = NewFd]
      /\ UNCHANGED <<epfd, pipe, lost, created, creating>>
  BY DEF AsyncConnectsAtOnce, AsyncConnectPends, TimedConnects, Idle, Attach, listenVars
<1>2. /\ \E s \in {"establishing", "established"} : state' = [state EXCEPT ![c] = s]
      /\ times' = [times EXCEPT ![c] = 0] \/ times' = [times EXCEPT ![c] = @ + 1]
  BY DEF AsyncConnectsAtOnce, AsyncConnectPends, TimedConnects, Attach
<1>3. ConnTypes
  BY DEF ConnInv
<1>4. times' \in [Clients -> 0 .. MaxAttempts]
  <2>1. CASE times' = [times EXCEPT ![c] = 0]
    BY <1>3, <2>1, ConnectionAssumption DEF ConnTypes
  <2>2. CASE times' = [times EXCEPT ![c] = @ + 1]
    BY <1>1, <1>3, <2>2, MoreTimes
  <2> QED
    BY <1>2, <2>1, <2>2
<1>5. state' \in [Clients -> {"unestablished", "establishing", "established"}]
  BY <1>2, <1>3 DEF ConnTypes
<1>6. NewFd \in MaybeFd
  BY <1>1, NewFdIsUnused, NoneIsNoFd
<1>7. channel' \in [Clients \cup Waiters -> MaybeFd]
  BY <1>1, <1>3, <1>6 DEF ConnTypes
<1>8. ConnTypes'
  BY <1>4, <1>5, <1>7 DEF ConnTypes
<1> QED
  BY <1>1, <1>8, AttachKeeps

LEMMA ConnectFailsKeep ==
    ASSUME ConnInv, NEW c \in Clients,
           AsyncConnectFails(c) \/ AsyncSocketFails(c) \/ TimedConnectFails(c)
    PROVE  ConnInv'
<1>1. /\ times[c] < MaxAttempts /\ times' = [times EXCEPT ![c] = @ + 1]
      /\ UNCHANGED <<channel, state, fd, epfd, pipe, created, creating>>
  BY DEF AsyncConnectFails, AsyncSocketFails, TimedConnectFails, Idle, Failed, listenVars,
     epollVars
<1>2. ConnTypes'
  BY <1>1, MoreTimes DEF ConnInv, ConnTypes
<1>3. FdBooks'
  <2>1. CASE UNCHANGED <<opened, lost>>
    BY <1>1, <2>1, StaysOwned DEF ConnInv
  <2>2. CASE Unused # {} /\ opened' = opened \cup {NewFd} /\ lost' = lost \cup {NewFd}
    BY <1>1, <2>2, LoseFd DEF ConnInv
  <2> QED
    BY <2>1, <2>2 DEF AsyncConnectFails, AsyncSocketFails, TimedConnectFails, epollVars
<1> QED
  BY <1>1, <1>2, <1>3, NothingMoves DEF ConnInv, Listening

LEMMA ConnectRefusedKeeps ==
    ASSUME ConnInv, NEW c \in Clients, AsyncConnectRefused(c)
    PROVE  ConnInv'
<1>1. /\ fd[c] = None /\ times[c] < MaxAttempts /\ times' = [times EXCEPT ![c] = @ + 1]
      /\ UNCHANGED <<opened, lost, fd, epfd, pipe, created, creating>>
  BY DEF AsyncConnectRefused, Idle, epollVars, listenVars
<1>2. \/ state' = state /\ channel' = channel
      \/ /\ state' = [state EXCEPT ![c] = "establishing"]
         /\ channel' = [channel EXCEPT ![c] = None]
  BY DEF AsyncConnectRefused
<1>3. ConnTypes'
  BY <1>1, <1>2, MoreTimes, NoneIsNoFd DEF ConnInv, ConnTypes
<1>4. \A o \in Clients \cup Waiters : fd[o] # None => channel'[o] = channel[o]
  BY <1>1, <1>2 DEF ConnInv, ConnTypes
<1>5. FdBooks'
  BY <1>1, StaysOwned DEF ConnInv
<1> QED
  BY <1>1, <1>3, <1>4, <1>5, NothingMoves DEF ConnInv, Listening

LEMMA ClientClosesKeep ==
    ASSUME ConnInv, NEW c \in Clients, CloseClient(c),
           UNCHANGED <<epfd, pipe, lost, created, creating>>
    PROVE  ConnInv'
<1>1. DoClose(c) /\ UNCHANGED <<channel, times>>
      /\ state' = [state EXCEPT ![c] = "unestablished"]
  BY DEF CloseClient
<1>2. ConnTypes'
  BY <1>1 DEF ConnInv, ConnTypes
<1> QED
  BY <1>1, <1>2, CloseKeeps

LEMMA HandleClientKeeps ==
    ASSUME ConnInv, NEW c \in Clients, HandleClient(c)
    PROVE  ConnInv'
<1>1. UNCHANGED <<epfd, pipe, lost, created, creating>>
  BY DEF HandleClient, listenVars
<1>2. CASE CloseClient(c)
  BY <1>1, <1>2, ClientClosesKeep
<1>3. CASE SetConnectedState(c) /\ UNCHANGED <<opened, fd, channel>>
  <2>1. \/ UNCHANGED <<state, times>>
        \/ /\ state' = [state EXCEPT ![c] = "established"]
           /\ times' = [times EXCEPT ![c] = 0]
    BY <1>3 DEF SetConnectedState
  <2>2. ConnTypes'
    BY <1>3, <2>1, ConnectionAssumption DEF ConnInv, ConnTypes
  <2>3. FdBooks'
    BY <1>1, <1>3, StaysOwned DEF ConnInv
  <2> QED
    BY <1>1, <1>3, <2>2, <2>3, NothingMoves DEF ConnInv, Listening
<1> QED
  BY <1>2, <1>3 DEF HandleClient
-----------------------------------------------------------------------------
\* The steps of the listeners and waiters

LEMMA ListenNextKeeps ==
    ASSUME ConnInv, ListenNext
    PROVE  ConnInv'
<1> DEFINE l == created + 1
<1>1. /\ creating /\ Unused # {} /\ opened' = opened \cup {NewFd}
      /\ fd' = [fd EXCEPT ![l] = NewFd] /\ created' = l /\ creating' = (l < NumListeners)
      /\ UNCHANGED <<epfd, pipe, lost, channel, state, times>>
  BY DEF ListenNext, clientVars
<1>2. created \in 0 .. NumListeners /\ created < NumListeners /\ NumListeners \in Nat
  BY <1>1, ConnectionAssumption DEF ConnInv, Listening
<1>3. l \in Listeners /\ ~(l <= created)
  BY <1>2 DEF Listeners
<1>4. \A k \in Listeners : k <= l <=> k = l \/ k <= created
  BY <1>2 DEF Listeners
<1>5. created' \in 0 .. NumListeners /\ creating' \in BOOLEAN
      /\ (creating' => created' < NumListeners)
  <2>1. created' \in 0 .. NumListeners
    BY <1>1, <1>2
  <2>2. creating' \in BOOLEAN /\ (creating' => l < NumListeners)
    <3>1. (l < NumListeners) \in BOOLEAN
      OBVIOUS
    <3> QED
      BY <1>1, <3>1, SameTruth
  <2> QED
    BY <1>1, <2>1, <2>2
<1>6. created' = l /\ fd' = [fd EXCEPT ![l] = NewFd]
  BY <1>1
<1> HIDE DEF l
<1>7. fd[l] = None
  BY <1>3 DEF ConnInv, Listening
<1>8. FdBooks'
  BY <1>1, <1>3, <1>6, <1>7, GiveFd, Kinds DEF ConnInv
<1>9. fd'[l] = NewFd /\ \A p \in Objects : p # l => fd'[p] = fd[p]
  BY <1>3, <1>6, Kinds DEF ConnInv, FdBooks, FdTypes
<1>10. Channels'
  BY <1>1, <1>3, <1>9, Kinds DEF ConnInv, Channels
<1>11. NewFd # None
  BY <1>1, NewFdIsUnused
<1>12. \A k \in Listeners : fd'[k] # None <=> k <= created'
  BY <1>4, <1>6, <1>9, <1>11, Kinds DEF ConnInv, Listening
<1>13. ConnTypes'
  BY <1>1 DEF ConnInv, ConnTypes
<1> QED
  BY <1>5, <1>8, <1>10, <1>12, <1>13 DEF ConnInv, Listening

LEMMA EndListeningKeeps ==
    ASSUME ConnInv, EndListening
    PROVE  ConnInv'
<1>1. /\ opened' = opened \ {fd[l] : l \in 1 .. created}
      /\ fd' = [o \in Objects |-> IF o \in Listeners THEN None ELSE fd[o]]
      /\ created' = 0 /\ creating' = FALSE
      /\ UNCHANGED <<epfd, pipe, lost, channel, state, times>>
  BY DEF EndListening, CloseListeners, CloseFirst, clientVars
<1>2. created \in 0 .. NumListeners /\ NumListeners \in Nat
  BY ConnectionAssumption DEF ConnInv, Listening
<1>3. 1 .. created \subseteq Listeners /\ \A l \in Listeners : l \in 1 .. created <=> l <= created
  BY <1>2 DEF Listeners
<1> DEFINE S == 1 .. created
<1>4. S \subseteq Others /\ opened' = opened \ {fd[o] : o \in S}
  BY <1>1, <1>3, Kinds
<1>5. \A o \in Objects : (IF o \in Listeners THEN None ELSE fd[o])
                          = IF o \in S THEN None ELSE fd[o]
  BY <1>3 DEF ConnInv, Listening
<1> HIDE DEF S
<1>6. fd' = [o \in Objects |-> IF o \in S THEN None ELSE fd[o]]
  BY <1>1, <1>5
<1>7. FdBooks'
  BY <1>1, <1>4, <1>6, DropFds DEF ConnInv
<1>8. \A o \in Objects : fd'[o] = IF o \in Listeners THEN None ELSE fd[o]
  BY <1>1
<1>9. Channels'
  BY <1>1, <1>8, Kinds DEF ConnInv, Channels
<1>10. \A l \in Listeners : fd'[l] = None /\ ~(l <= created')
  BY <1>1, <1>8, Kinds DEF Listeners
<1>11. Listening'
  <2>1. created' \in 0 .. NumListeners /\ creating' = FALSE
    BY <1>1, <1>2
  <2> QED
    BY <1>10, <2>1 DEF Listening
<1>12. ConnTypes'
  BY <1>1 DEF ConnInv, ConnTypes
<1> QED
  BY <1>7, <1>9, <1>11, <1>12 DEF ConnInv

LEMMA AcceptKeeps ==
    ASSUME ConnInv, NEW l \in Listeners, NEW w \in Waiters, Accept(l, w)
    PROVE  ConnInv'
<1>1. /\ fd[w] = None /\ Unused # {}
      /\ opened' = opened \cup {NewFd} /\ fd' = [fd EXCEPT ![w] = NewFd]
      /\ channel' = [channel EXCEPT ![w] = NewFd]
      /\ UNCHANGED <<epfd, pipe, lost, created, creating, state, times>>
  BY DEF Accept, listenVars
<1>2. NewFd \in MaybeFd
  BY <1>1, NewFdIsUnused, NoneIsNoFd
<1>3. ConnTypes'
  BY <1>1, <1>2 DEF ConnInv, ConnTypes
<1> QED
  BY <1>1, <1>3, AttachKeeps

LEMMA ConnStays ==
    ASSUME ConnInv, UNCHANGED <<opened, lost, fd, epfd, pipe, state, times, channel, created>>,
           creating' = creating \/ (created = 0 /\ creating' = (NumListeners > 0))
    PROVE  ConnInv'
<1>1. FdBooks'
  BY StaysOwned DEF ConnInv
<1>2. ConnTypes'
  BY DEF ConnInv, ConnTypes
<1>3. creating' \in BOOLEAN /\ (creating' => created < NumListeners)
  <2>1. CASE creating' = creating
    BY <2>1 DEF ConnInv, Listening
  <2>2. CASE created = 0 /\ creating' = (NumListeners > 0)
    <3>1. creating' \in BOOLEAN /\ (creating' => NumListeners > 0)
      <4>1. (NumListeners > 0) \in BOOLEAN
        OBVIOUS
      <4> QED
        BY <2>2, <4>1, SameTruth
    <3> QED
      BY <2>2, <3>1, ConnectionAssumption
  <2> QED
    BY <2>1, <2>2
<1> QED
  BY <1>1, <1>2, <1>3, NothingMoves

LEMMA ConnStep == ConnInv /\ [Next]_vars => ConnInv'
<1> SUFFICES ASSUME ConnInv, [Next]_vars PROVE ConnInv'
  OBVIOUS
<1> USE DEF epollVars, clientVars, listenVars
<1>1. CASE Epoll(Create)
  <2>1. FdBooks' /\ \A p \in Others : fd'[p] = fd[p]
    BY <1>1, CreateGives DEF Epoll, ConnInv
  <2>2. ConnTypes'
    BY <1>1 DEF Epoll, ConnInv, ConnTypes
  <2> QED
    BY <1>1, <2>1, <2>2, NothingMoves DEF Epoll, ConnInv, Listening
<1>2. CASE Epoll(Destroy)
  <2>1. FdBooks' /\ \A p \in Others : fd'[p] = fd[p]
    BY <1>2, DestroyTakes DEF Epoll, ConnInv
  <2>2. ConnTypes'
    BY <1>2 DEF Epoll, ConnInv, ConnTypes
  <2> QED
    BY <1>2, <2>1, <2>2, NothingMoves DEF Epoll, ConnInv, Listening
<1>3. CASE Epoll(Wakeup) \/ Epoll(Feel)
  BY <1>3, ConnStays DEF Epoll, Wakeup, Feel
<1>4. CASE CreateListeners
  BY <1>4, ConnStays DEF CreateListeners
<1>5. CASE ListenNext
  BY <1>5, ListenNextKeeps
<1>6. CASE EndListening
  BY <1>6, EndListeningKeeps
<1>7. ASSUME NEW c \in Clients,
             \/ AsyncConnectsAtOnce(c) \/ AsyncConnectPends(c) \/ AsyncConnectFails(c)
             \/ AsyncSocketFails(c) \/ AsyncConnectRefused(c)
             \/ TimedConnects(c) \/ TimedConnectFails(c)
             \/ UserCloses(c) \/ HandleClient(c)
      PROVE  ConnInv'
  <2>1. CASE UserCloses(c)
    <3>1. CloseClient(c) /\ UNCHANGED <<epfd, pipe, lost, created, creating>>
      BY <2>1 DEF UserCloses
    <3> QED
      BY <3>1, ClientClosesKeep
  <2> QED
    BY <1>7, <2>1, ConnectsKeep, ConnectFailsKeep, ConnectRefusedKeeps, HandleClientKeeps
<1>8. ASSUME NEW w \in Waiters, CloseWaiter(w)
      PROVE  ConnInv'
  <2>1. DoClose(w) /\ UNCHANGED <<epfd, pipe, lost, state, times, channel, created, creating>>
    BY <1>8 DEF CloseWaiter
  <2>2. ConnTypes'
    BY <2>1 DEF ConnInv, ConnTypes
  <2> QED
    BY <2>1, <2>2, CloseKeeps
<1>9. ASSUME NEW w \in Waiters, Unregister(w)
      PROVE  ConnInv'
  BY <1>9, ConnStays DEF Unregister, DelEvents
<1>10. ASSUME NEW l \in Listeners, NEW w \in Waiters, Accept(l, w)
       PROVE  ConnInv'
  BY <1>10, AcceptKeeps
<1>11. ASSUME NEW o \in Others, Register(o)
       PROVE  ConnInv'
  BY <1>11, ConnStays DEF Register, SetEvents
<1>12. ASSUME NEW l \in Listeners, PeerConnects(l)
       PROVE  ConnInv'
  BY <1>12, ConnStays DEF PeerConnects
<1>13. ASSUME NEW f \in Fds, Answer(f) \/ PeerCloses(f)
       PROVE  ConnInv'
  BY <1>13, ConnStays DEF Answer, PeerCloses
<1>14. CASE UNCHANGED vars
  BY <1>14, ConnStays DEF vars
<1> QED
  BY <1>1, <1>2, <1>3, <1>4, <1>5, <1>6, <1>7, <1>8, <1>9, <1>10, <1>11, <1>12, <1>13, <1>14
     DEF Next

LEMMA ConnAlways == Spec => []ConnInv
BY ConnInit, ConnStep, PTL DEF Spec

\* OwnedOnce: each open descriptor of the process belongs to one object, the
\* epoller or its pipe, or was lost by async_connect(), and a connected client's
\* or waiter's data channel is its own, whatever the order in which connects and
\* listens fail, descriptors run out and numbers are used again.
THEOREM OneOwnerEach == Spec => []OwnedOnce
<1>1. ConnInv => OwnedOnce
  <2> SUFFICES ASSUME ConnInv PROVE OwnedOnce
    OBVIOUS
  <2> USE DEF ConnInv, FdBooks
  <2>1. TypeOK
    BY DEF FdTypes, ConnTypes, TypeOK, MaybeFd
  <2>2. opened = (Held \ {None}) \cup lost
    <3>1. \A f \in Held \ {None} : f \in Fds
      BY DEF FdTypes, Held, MaybeFd
    <3>2. None \notin Fds
      BY NoneIsNoFd
    <3>3. \A f \in Fds : f \in Held <=> f = epfd \/ f = pipe \/ \E o \in Objects : fd[o] = f
      BY DEF Held
    <3> QED
      BY <3>1, <3>2, <3>3 DEF Owners, FdTypes
  <2>3. lost \cap Held = {}
    BY DEF Owners, Held
  <2>4. \A o \in Objects : fd[o] # None => fd[o] \notin {epfd, pipe}
    BY DEF Owners
  <2> QED
    BY <2>1, <2>2, <2>3, <2>4 DEF Owners, Channels, OwnedOnce
<1> QED
  BY <1>1, ConnAlways, PTL
-----------------------------------------------------------------------------
\* What epoll watches and what the objects believe, while there is an epoller

Agree == /\ \A o \in Objects : fd[o] # None => watch[fd[o]] = events[o]
         /\ \A o \in Objects : fd[o] = None => events[o] = Unset
         /\ \A f \in Fds : watch[f] # Unset => \E o \in Objects : fd[o] = f

\* Before the first epoller nothing is registered.
Untouched == /\ \A f \in Fds : watch[f] = Unset
             /\ \A o \in Objects : events[o] = Unset

WatchTypes == /\ watch \in [Fds -> {Unset, In, Out}]
              /\ events \in [Objects -> {Unset, In, Out}]
              /\ creates \in Nat

WatchInv == /\ WatchTypes /\ creates <= MaxCreates
            /\ creates = 0 => Untouched /\ epfd = None
            /\ epfd # None => Agree

\* A descriptor nobody has is not watched, so its next owner begins unwatched.
LEMMA GivenUnwatched ==
    ASSUME FdBooks, WatchInv, NEW o \in Others, fd[o] = None, Unused # {},
           fd' = [fd EXCEPT ![o] = NewFd], UNCHANGED <<watch, events, epfd, creates>>
    PROVE  WatchInv'
<1> DEFINE n == NewFd
<1>1. n \in Fds /\ n \notin opened /\ n # None
  BY NewFdIsUnused
<1>2. fd' = [fd EXCEPT ![o] = n]
  OBVIOUS
<1> HIDE DEF n
<1>3. o \in Objects /\ fd \in [Objects -> MaybeFd]
  BY DEF FdBooks, FdTypes, Objects
<1>4. fd'[o] = n /\ \A p \in Objects : p # o => fd'[p] = fd[p]
  BY <1>2, <1>3
<1>5. \A p \in Objects : fd[p] # n
  BY <1>1 DEF FdBooks, Owners
<1>6. ASSUME epfd # None PROVE Agree'
  <2>1. Agree
    BY <1>6 DEF WatchInv
  <2>2. watch[n] = Unset /\ events[o] = Unset
    BY <1>1, <1>3, <1>5, <2>1 DEF Agree
  <2>3. \A p \in Objects : fd'[p] # None => watch[fd'[p]] = events[p]
    BY <1>4, <2>1, <2>2 DEF Agree
  <2>4. \A p \in Objects : fd'[p] = None => events[p] = Unset
    BY <1>1, <1>4, <2>1 DEF Agree
  <2>5. \A f \in Fds : watch[f] # Unset => \E p \in Objects : fd'[p] = f
    BY <1>3, <1>4, <2>1, NoneIsNoFd DEF Agree
  <2> QED
    BY <2>3, <2>4, <2>5 DEF Agree
<1> QED
  BY <1>6 DEF WatchInv, WatchTypes, Untouched

\* Objects other than the sensor close: nothing of them is left in either record.
LEMMA ClosedUnwatched ==
    ASSUME FdBooks, WatchInv, NEW S, S \subseteq Others,
           watch' = [f \in Fds |-> IF f \in {fd[o] : o \in S} THEN Unset ELSE watch[f]],
           fd' = [o \in Objects |-> IF o \in S THEN None ELSE fd[o]],
           events' = [o \in Objects |-> IF o \in S THEN Unset ELSE events[o]],
           UNCHANGED <<epfd, creates>>
    PROVE  WatchInv'
<1>1. /\ \A o \in Objects : fd'[o] = IF o \in S THEN None ELSE fd[o]
      /\ \A o \in Objects : events'[o] = IF o \in S THEN Unset ELSE events[o]
      /\ \A f \in Fds : watch'[f] = IF \E o \in S : fd[o] = f THEN Unset ELSE watch[f]
  <2>1. \A f \in Fds : f \in {fd[o] : o \in S} <=> \E o \in S : fd[o] = f
    OBVIOUS
  <2> QED
    BY <2>1
<1>2. WatchTypes'
  BY DEF WatchInv, WatchTypes
<1>3. S \subseteq Objects
  BY DEF Objects
<1>4. ASSUME epfd # None PROVE Agree'
  <2>1. Agree
    BY <1>4 DEF WatchInv
  <2>2. ASSUME NEW p \in Objects, fd'[p] # None PROVE watch'[fd'[p]] = events'[p]
    <3>1. p \notin S /\ fd'[p] = fd[p] /\ events'[p] = events[p]
      BY <1>1, <2>2
    <3>2. \A o \in S : fd[o] # fd[p]
      BY <1>3, <2>2, <3>1 DEF FdBooks, Owners
    <3>3. fd[p] \in Fds
      BY <2>2, <3>1 DEF FdBooks, FdTypes, MaybeFd
    <3>4. watch'[fd[p]] = watch[fd[p]]
      BY <1>1, <3>2, <3>3
    <3> QED
      BY <2>1, <2>2, <3>1, <3>4 DEF Agree
  <2>3. \A p \in Objects : fd'[p] = None => events'[p] = Unset
    BY <1>1, <2>1 DEF Agree
  <2>4. ASSUME NEW f \in Fds, watch'[f] # Unset PROVE \E p \in Objects : fd'[p] = f
    <3>1. watch[f] # Unset /\ \A o \in S : fd[o] # f
      BY <1>1, <2>4
    <3>2. PICK p \in Objects : fd[p] = f
      BY <2>1, <3>1 DEF Agree
    <3> QED
      BY <1>1, <3>1, <3>2
  <2> QED
    BY <2>2, <2>3, <2>4 DEF Agree
<1>5. Untouched => Untouched'
  BY <1>1 DEF Untouched
<1> QED
  BY <1>2, <1>4, <1>5 DEF WatchInv

LEMMA DoCloseUnwatches ==
    ASSUME FdBooks, WatchInv, NEW o \in Others, DoClose(o), UNCHANGED <<epfd, creates>>
    PROVE  WatchInv'
<1>1. CASE fd[o] = None
  <2>1. UNCHANGED <<watch, fd, events, epfd, creates>>
    BY <1>1 DEF DoClose
  <2> QED
    BY <2>1 DEF WatchInv, WatchTypes, Untouched, Agree
<1>2. CASE fd[o] # None
  <2>1. /\ watch' = [watch EXCEPT ![fd[o]] = Unset] /\ fd' = [fd EXCEPT ![o] = None]
        /\ events' = [events EXCEPT ![o] = Unset]
    BY <1>2 DEF DoClose
  <2>2. /\ fd \in [Objects -> MaybeFd] /\ watch \in [Fds -> {Unset, In, Out}]
        /\ events \in [Objects -> {Unset, In, Out}]
    BY DEF FdBooks, FdTypes, WatchInv, WatchTypes
  <2>3. /\ watch' = [f \in Fds |-> IF f \in {fd[p] : p \in {o}} THEN Unset ELSE watch[f]]
    BY <2>1, <2>2
  <2>4. /\ fd' = [p \in Objects |-> IF p \in {o} THEN None ELSE fd[p]]
        /\ events' = [p \in Objects |-> IF p \in {o} THEN Unset ELSE events[p]]
    BY <2>1, <2>2
  <2> QED
    BY <2>3, <2>4, ClosedUnwatched
<1> QED
  BY <1>1, <1>2

\* set_events() and del_events() change both records.
LEMMA BothAreSet ==
    ASSUME FdBooks, WatchInv, NEW o \in Objects, NEW evs \in {Unset, In, Out},
           epfd # None, fd[o] # None, watch' = [watch EXCEPT ![fd[o]] = evs],
           events' = [events EXCEPT ![o] = evs], UNCHANGED <<fd, epfd, creates>>
    PROVE  WatchInv'
<1>1. fd[o] \in Fds /\ Agree
  BY DEF FdBooks, FdTypes, MaybeFd, WatchInv
<1>2. WatchTypes'
  BY DEF WatchInv, WatchTypes
<1>3. /\ watch'[fd[o]] = evs /\ \A f \in Fds : f # fd[o] => watch'[f] = watch[f]
      /\ events'[o] = evs /\ \A p \in Objects : p # o => events'[p] = events[p]
  BY <1>1 DEF WatchInv, WatchTypes
<1>4. \A p \in Objects : fd[p] # None /\ p # o => fd[p] # fd[o] /\ fd[p] \in Fds
  BY DEF FdBooks, Owners, FdTypes, MaybeFd
<1>5. \A p \in Objects : fd[p] # None => watch'[fd[p]] = events'[p]
  BY <1>1, <1>3, <1>4 DEF Agree
<1>6. \A p \in Objects : fd[p] = None => events'[p] = Unset
  BY <1>1, <1>3 DEF Agree
<1>7. \A f \in Fds : watch'[f] # Unset => \E p \in Objects : fd[p] = f
  BY <1>1, <1>3 DEF Agree
<1>8. Agree'
  BY <1>5, <1>6, <1>7 DEF Agree
<1> QED
  BY <1>2, <1>8 DEF WatchInv

\* create() registers the sensor with what it found in its record, which is only
\* sure to be nothing the first time.
LEMMA FirstCreateWatches ==
    ASSUME FdBooks, WatchInv, MaxCreates <= 1, Create
    PROVE  WatchInv'
<1> DEFINE r == Lowest(Unused \ {NewFd})
<1>1. /\ epfd = None /\ creates < MaxCreates /\ creates' = creates + 1
      /\ fd' = [fd EXCEPT ![Sensor] = r]
      /\ watch' = IF events[Sensor] = In THEN watch ELSE [watch EXCEPT ![r] = In]
      /\ events' = [events EXCEPT ![Sensor] = In]
      /\ Cardinality(Unused) >= 3
  BY DEF Create
<1>2. r \in Fds /\ r \notin opened /\ r # None
  BY <1>1, ThreeUnused DEF FdBooks, FdTypes
<1> HIDE DEF r
<1>3. creates = 0 /\ MaxCreates \in Nat /\ Untouched
  BY <1>1, EpollerAssumption DEF WatchInv, WatchTypes
<1>4. /\ fd \in [Objects -> MaybeFd] /\ Sensor \in Objects
      /\ watch \in [Fds -> {Unset, In, Out}] /\ events \in [Objects -> {Unset, In, Out}]
  BY DEF FdBooks, FdTypes, WatchInv, WatchTypes, Objects
<1>5. watch' = [watch EXCEPT ![r] = In]
  BY <1>1, <1>3, <1>4 DEF Untouched, Unset, In
<1>6. /\ fd'[Sensor] = r /\ \A p \in Objects : p # Sensor => fd'[p] = fd[p]
      /\ events'[Sensor] = In /\ \A p \in Objects : p # Sensor => events'[p] = Unset
      /\ watch'[r] = In /\ \A f \in Fds : f # r => watch'[f] = Unset
  BY <1>1, <1>2, <1>3, <1>4, <1>5 DEF Untouched
<1>7. \A p \in Objects : fd[p] # r /\ fd[p] \in MaybeFd
  BY <1>2, <1>4 DEF FdBooks, Owners
<1>8. Agree'
  <2>1. \A p \in Objects : fd'[p] # None => watch'[fd'[p]] = events'[p]
    BY <1>6, <1>7 DEF MaybeFd
  <2>2. \A p \in Objects : fd'[p] = None => events'[p] = Unset
    BY <1>2, <1>6
  <2>3. \A f \in Fds : watch'[f] # Unset => \E p \in Objects : fd'[p] = f
    BY <1>4, <1>6
  <2> QED
    BY <2>1, <2>2, <2>3 DEF Agree
<1>9. WatchTypes' /\ creates' <= MaxCreates /\ creates' # 0
  <2>1. watch' \in [Fds -> {Unset, In, Out}]
    BY <1>4, <1>5
  <2>2. events' \in [Objects -> {Unset, In, Out}]
    BY <1>1, <1>4
  <2>3. creates' = 1 /\ creates' <= MaxCreates
    BY <1>1, <1>3
  <2> QED
    BY <2>1, <2>2, <2>3 DEF WatchTypes
<1> QED
  BY <1>8, <1>9 DEF WatchInv

LEMMA WatchStays ==
    ASSUME WatchInv, UNCHANGED <<fd, watch, events, epfd, creates>>
    PROVE  WatchInv'
BY DEF WatchInv, WatchTypes, Untouched, Agree

LEMMA WatchInit == Init => WatchInv
<1> SUFFICES ASSUME Init PROVE WatchInv
  OBVIOUS
<1>1. WatchTypes /\ creates = 0 /\ epfd = None
  BY DEF Init, EpollInit, WatchTypes
<1>2. Untouched
  BY DEF Init, EpollInit, Untouched
<1> QED
  BY <1>1, <1>2, EpollerAssumption DEF WatchInv

LEMMA WatchStep ==
    ASSUME MaxCreates <= 1
    PROVE  ConnInv /\ WatchInv /\ [Next]_vars => WatchInv'
<1> SUFFICES ASSUME ConnInv, WatchInv, [Next]_vars PROVE WatchInv'
  OBVIOUS
<1> USE DEF epollVars, clientVars, listenVars
<1>0. FdBooks
  BY DEF ConnInv
<1>1. CASE Epoll(Create)
  BY <1>0, <1>1, FirstCreateWatches DEF Epoll
<1>2. CASE Epoll(Destroy)
  <2>1. /\ watch' = [f \in Fds |-> Unset] /\ epfd # None /\ epfd' = None
        /\ UNCHANGED <<events, creates>>
    BY <1>2 DEF Epoll, Destroy
  <2>2. WatchTypes'
    BY <2>1 DEF WatchInv, WatchTypes
  <2> QED
    BY <2>1, <2>2 DEF WatchInv
<1>3. CASE Epoll(Wakeup) \/ Epoll(Feel)
  BY <1>3, WatchStays DEF Epoll, Wakeup, Feel
<1>4. CASE CreateListeners
  BY <1>4, WatchStays DEF CreateListeners
<1>5. CASE ListenNext
  <2> DEFINE l == created + 1
  <2>1. /\ creating /\ Unused # {} /\ fd' = [fd EXCEPT ![l] = NewFd]
        /\ UNCHANGED <<watch, events, epfd, creates>>
    BY <1>5 DEF ListenNext
  <2>2. l \in Listeners /\ ~(l <= created)
    BY <2>1, ConnectionAssumption DEF ConnInv, Listening, Listeners
  <2> HIDE DEF l
  <2>3. fd[l] = None /\ l \in Others
    BY <2>2, Kinds DEF ConnInv, Listening
  <2> QED
    BY <1>0, <2>1, <2>3, GivenUnwatched
<1>6. CASE EndListening
  <2>1. /\ watch' = [f \in Fds |-> IF f \in {fd[l] : l \in 1 .. created} THEN Unset
                                   ELSE watch[f]]
        /\ fd' = [o \in Objects |-> IF o \in Listeners THEN None ELSE fd[o]]
        /\ events' = [o \in Objects |-> IF o \in Listeners THEN Unset ELSE events[o]]
        /\ UNCHANGED <<epfd, creates>>
    BY <1>6 DEF EndListening, CloseListeners, CloseFirst
  <2>2. \A l \in Listeners : l \in 1 .. created <=> fd[l] # None
    BY ConnectionAssumption DEF ConnInv, Listening, Listeners
  <2>3. 1 .. created \subseteq Listeners
    BY ConnectionAssumption DEF ConnInv, Listening, Listeners
  <2>4. \A f \in Fds : f \in {fd[l] : l \in 1 .. created} <=> f \in {fd[l] : l \in Listeners}
    BY <2>2, <2>3, NoneIsNoFd
  <2>5. watch' = [f \in Fds |-> IF f \in {fd[l] : l \in Listeners} THEN Unset ELSE watch[f]]
    BY <2>1, <2>4
  <2>6. Listeners \subseteq Others
    BY Kinds
  <2> QED
    BY <1>0, <2>1, <2>5, <2>6, ClosedUnwatched
<1>7. ASSUME NEW c \in Clients,
             AsyncConnectsAtOnce(c) \/ AsyncConnectPends(c) \/ TimedConnects(c)
      PROVE  WatchInv'
  <2>1. /\ fd[c] = None /\ Unused # {} /\ fd' = [fd EXCEPT ![c] = NewFd]
        /\ UNCHANGED <<watch, events, epfd, creates>>
    BY <1>7 DEF AsyncConnectsAtOnce, AsyncConnectPends, TimedConnects, Idle, Attach
  <2> QED
    BY <1>0, <2>1, GivenUnwatched, Kinds
<1>8. ASSUME NEW c \in Clients,
             \/ AsyncConnectFails(c) \/ AsyncSocketFails(c)
             \/ AsyncConnectRefused(c) \/ TimedConnectFails(c)
      PROVE  WatchInv'
  <2>1. UNCHANGED <<fd, watch, events, epfd, creates>>
    BY <1>8 DEF AsyncConnectFails, AsyncSocketFails, AsyncConnectRefused, TimedConnectFails,
       Failed
  <2> QED
    BY <2>1, WatchStays
<1>9. ASSUME NEW c \in Clients, UserCloses(c) \/ HandleClient(c)
      PROVE  WatchInv'
  <2>1. \/ DoClose(c) /\ UNCHANGED <<epfd, creates>>
        \/ UNCHANGED <<fd, watch, events, epfd, creates>>
    BY <1>9 DEF UserCloses, HandleClient, CloseClient
  <2> QED
    BY <1>0, <2>1, DoCloseUnwatches, WatchStays, Kinds
<1>10. ASSUME NEW w \in Waiters, CloseWaiter(w)
       PROVE  WatchInv'
  BY <1>0, <1>10, DoCloseUnwatches, Kinds DEF CloseWaiter
<1>11. ASSUME NEW w \in Waiters, Unregister(w)
       PROVE  WatchInv'
  <2>1. /\ epfd # None /\ fd[w] # None /\ watch' = [watch EXCEPT ![fd[w]] = Unset]
        /\ events' = [events EXCEPT ![w] = Unset] /\ UNCHANGED <<fd, epfd, creates>>
    BY <1>11 DEF Unregister, DelEvents
  <2> QED
    BY <1>0, <2>1, BothAreSet, Kinds
<1>12. ASSUME NEW o \in Others, Register(o)
       PROVE  WatchInv'
  <2> DEFINE evs == Wanted(o)
  <2>1. /\ epfd # None /\ fd[o] # None /\ watch' = [watch EXCEPT ![fd[o]] = evs]
        /\ events' = [events EXCEPT ![o] = evs] /\ UNCHANGED <<fd, epfd, creates>>
    BY <1>12 DEF Register, SetEvents
  <2>2. evs \in {Unset, In, Out}
    BY DEF Wanted
  <2> HIDE DEF evs
  <2> QED
    BY <1>0, <2>1, <2>2, BothAreSet, Kinds
<1>13. ASSUME NEW l \in Listeners, NEW w \in Waiters, Accept(l, w)
       PROVE  WatchInv'
  <2>1. /\ fd[w] = None /\ Unused # {} /\ fd' = [fd EXCEPT ![w] = NewFd]
        /\ UNCHANGED <<watch, events, epfd, creates>>
    BY <1>13 DEF Accept
  <2> QED
    BY <1>0, <2>1, GivenUnwatched, Kinds
<1>14. ASSUME NEW l \in Listeners, PeerConnects(l)
       PROVE  WatchInv'
  BY <1>14, WatchStays DEF PeerConnects
<1>15. ASSUME NEW f \in Fds, Answer(f) \/ PeerCloses(f)
       PROVE  WatchInv'
  BY <1>15, WatchStays DEF Answer, PeerCloses
<1>16. CASE UNCHANGED vars
  BY <1>16, WatchStays DEF vars
<1> QED
  BY <1>1, <1>2, <1>3, <1>4, <1>5, <1>6, <1>7, <1>8, <1>9, <1>10, <1>11, <1>12, <1>13,
     <1>14, <1>15, <1>16 DEF Next

\* WatchedAsRecorded: set_events() decides from the object's own record, and that
\* record is what the kernel watches, as long as create() is called once.  A second
\* create() finds the sensor's old record and registers nothing (ConnectionAgain.cfg).
THEOREM RecordsAgree ==
    ASSUME MaxCreates <= 1
    PROVE  Spec => []WatchedAsRecorded
<1>1. WatchInv => WatchedAsRecorded
  BY DEF WatchInv, Agree, WatchedAsRecorded
<1>2. ConnInv /\ WatchInv /\ [Next]_vars => WatchInv'
  BY WatchStep
<1> QED
  BY <1>1, <1>2, WatchInit, ConnAlways, PTL DEF Spec
-----------------------------------------------------------------------------
\* The callbacks a client owes, with what its fields may be.
OwedInv == /\ CallbacksOwed
           /\ asked \in [Clients -> 0 .. 1] /\ silent \in [Clients -> BOOLEAN]
           /\ \A c \in Clients : silent[c] => state[c] = "unestablished"

askVars == <<state, times, asked, silent>>

LEMMA OwedStep == ConnInv /\ OwedInv /\ [Next]_vars => OwedInv'
<1> SUFFICES ASSUME ConnInv, OwedInv, [Next]_vars PROVE OwedInv'
  OBVIOUS
<1>0. /\ ConnTypes
      /\ \A c \in Clients : state[c] = "established" => times[c] = 0
      /\ \A c \in Clients :
            asked[c] = IF state[c] = "establishing" \/ silent[c] THEN 1 ELSE 0
      /\ asked \in [Clients -> 0 .. 1] /\ silent \in [Clients -> BOOLEAN]
      /\ \A c \in Clients : silent[c] => state[c] = "unestablished"
  BY DEF ConnInv, OwedInv, CallbacksOwed
<1>1. CASE UNCHANGED askVars
  BY <1>1 DEF OwedInv, CallbacksOwed, askVars
<1>2. ASSUME NEW c \in Clients,
             AsyncConnectsAtOnce(c) \/ AsyncConnectPends(c) \/ TimedConnects(c)
      PROVE  OwedInv'
  <2>1. /\ silent' = [silent EXCEPT ![c] = FALSE]
        /\ \/ /\ state' = [state EXCEPT ![c] = "established"]
              /\ times' = [times EXCEPT ![c] = 0]
              /\ asked' = [asked EXCEPT ![c] = 0]
           \/ /\ state' = [state EXCEPT ![c] = "establishing"]
              /\ times' = [times EXCEPT ![c] = @ + 1]
              /\ asked' = [asked EXCEPT ![c] = 1]
    BY <1>2 DEF AsyncConnectsAtOnce, AsyncConnectPends, TimedConnects, Attach, Asks
  <2> QED
    BY <1>0, <2>1 DEF OwedInv, CallbacksOwed, ConnTypes
<1>3. ASSUME NEW c \in Clients,
             \/ AsyncConnectFails(c) \/ AsyncSocketFails(c)
             \/ AsyncConnectRefused(c) \/ TimedConnectFails(c)
      PROVE  OwedInv'
  <2>1. state[c] = "unestablished"
    BY <1>3 DEF AsyncConnectFails, AsyncSocketFails, AsyncConnectRefused, TimedConnectFails, Idle
  <2>2. CASE AsyncSocketFails(c)
    BY <1>0, <2>1, <2>2 DEF AsyncSocketFails, OwedInv, CallbacksOwed, ConnTypes
  <2>3. CASE AsyncConnectRefused(c)
    <3>1. /\ silent' = [silent EXCEPT ![c] = FALSE] /\ times' = [times EXCEPT ![c] = @ + 1]
          /\ \/ /\ state' = [state EXCEPT ![c] = "establishing"]
                /\ asked' = [asked EXCEPT ![c] = 1]
             \/ state' = state /\ asked' = [asked EXCEPT ![c] = 0]
      BY <2>3 DEF AsyncConnectRefused, Asks
    <3> QED
      BY <1>0, <2>1, <3>1 DEF OwedInv, CallbacksOwed, ConnTypes
  <2>4. CASE AsyncConnectFails(c) \/ TimedConnectFails(c)
    <3>1. /\ silent' = [silent EXCEPT ![c] = FALSE] /\ times' = [times EXCEPT ![c] = @ + 1]
          /\ state' = state /\ asked' = [asked EXCEPT ![c] = 0]
      BY <2>4 DEF AsyncConnectFails, TimedConnectFails, Failed, Asks
    <3> QED
      BY <1>0, <2>1, <3>1 DEF OwedInv, CallbacksOwed, ConnTypes
  <2> QED
    BY <1>3, <2>2, <2>3, <2>4
<1>4. ASSUME NEW c \in Clients, UserCloses(c) \/ HandleClient(c)
      PROVE  OwedInv'
  <2>1. CASE CloseClient(c)
    BY <1>0, <2>1 DEF CloseClient, CallsBack, OwedInv, CallbacksOwed, ConnTypes
  <2>2. CASE SetConnectedState(c) /\ UNCHANGED silent
    BY <1>0, <2>2 DEF SetConnectedState, CallsBack, OwedInv, CallbacksOwed, ConnTypes
  <2> QED
    BY <1>4, <2>1, <2>2 DEF UserCloses, HandleClient
<1>5. CASE Epoll(Create) \/ Epoll(Destroy) \/ Epoll(Wakeup) \/ Epoll(Feel)
  BY <1>1, <1>5 DEF Epoll, clientVars, askVars
<1>6. CASE CreateListeners \/ ListenNext \/ EndListening
  BY <1>1, <1>6 DEF CreateListeners, ListenNext, EndListening, clientVars, askVars
<1>7. ASSUME NEW l \in Listeners, PeerConnects(l) \/ \E w \in Waiters : Accept(l, w)
      PROVE  OwedInv'
  BY <1>1, <1>7 DEF PeerConnects, Accept, clientVars, askVars
<1>8. ASSUME NEW w \in Waiters, CloseWaiter(w) \/ Unregister(w)
      PROVE  OwedInv'
  BY <1>1, <1>8 DEF CloseWaiter, Unregister, clientVars, askVars
<1>9. ASSUME NEW o \in Others, Register(o)
      PROVE  OwedInv'
  BY <1>1, <1>9 DEF Register, clientVars, askVars
<1>10. ASSUME NEW f \in Fds, Answer(f) \/ PeerCloses(f)
       PROVE  OwedInv'
  BY <1>1, <1>10 DEF Answer, PeerCloses, clientVars, askVars
<1>11. CASE UNCHANGED vars
  BY <1>1, <1>11 DEF vars, clientVars, askVars
<1> QED
  BY <1>2, <1>3, <1>4, <1>5, <1>6, <1>7, <1>8, <1>9, <1>10, <1>11 DEF Next

\* CallbacksOwed: after_connect() or on_connect_failure() is called once for each
\* attempt that was begun, at once, when the connection is made or when it is closed,
\* but for those whose socket() failed (tcp_client.cpp:97-113,180-275).
THEOREM OneCallbackEach == Spec => []CallbacksOwed
<1>1. Init => OwedInv
  BY DEF Init, OwedInv, CallbacksOwed
<1>2. OwedInv => CallbacksOwed
  BY DEF OwedInv
<1> QED
  BY <1>1, <1>2, OwedStep, ConnAlways, PTL DEF Spec
-----------------------------------------------------------------------------
\* The stream of messages of the sizes sz: its bytes, each with the one after it.
Sizes == [1 .. Number -> Nat]
Bytes(sz) == {b \in (1 .. Number) \X Nat : 1 <= b[2] /\ b[2] <= HeaderSize + sz[b[1]]}
After(sz, b) == IF b[2] < HeaderSize + sz[b[1]] THEN <<b[1], b[2] + 1>> ELSE <<b[1] + 1, 1>>

\* The byte that follows the first n of the message m.
Position(sz, m, n) == IF n > 0 /\ n = HeaderSize + sz[m] THEN <<m + 1, 1>> ELSE <<m, n + 1>>

\* s is the part of the stream from one byte up to another.
Run(sz, s, from, to) ==
    /\ s \in Seq(Bytes(sz))
    /\ s = <<>> => from = to
    /\ s # <<>> => s[1] = from /\ After(sz, s[Len(s)]) = to
    /\ \A i \in 1 .. Len(s) - 1 : s[i + 1] = After(sz, s[i])

\* The byte that is sent next, and the number of messages sent as a whole.
SendPosition == IF IsFinish THEN <<message + 1, 1>> ELSE <<message, cursor>>
Whole == IF IsFinish THEN message ELSE message - 1

\* The message that is received.
Current == IF delivered + 1 > resumed THEN delivered + 1 ELSE resumed
ReadSoFar == kept \o got

\* Where the sender is in its message.
SenderBooks ==
    IF IsFinish THEN cursor = 1 \/ (message > 0 /\ cursor = Length(message) + 1)
    ELSE message > 0 /\ cursor \in Nat \ {0} /\ cursor + remainSize = Length(message) + 1

\* What is on its way was sent, and what was delivered was sent as a whole.
SentBefore ==
    /\ \A i \in DOMAIN wire : wire[i][1] <= message
    /\ \A i \in DOMAIN hand : hand[i][1] <= message
    /\ delivered <= Whole /\ resumed <= Whole + 1

StreamTypes ==
    /\ size \in Sizes /\ StreamTypeOK /\ cursor \in Nat /\ resumed \in Nat \ {0}
    /\ wire \in Seq(Bytes(size)) /\ hand \in Seq(Bytes(size)) /\ header \in Seq(Bytes(size))
    /\ kept \in Seq(Bytes(size)) /\ got \in Seq(Bytes(size))

\* What the state machine knows: how much of which message it has had.
MachineKnows ==
    LET n == finishedSize
    IN  \/ /\ recvState = "header" /\ n < HeaderSize
           /\ n > 0 => Current <= Number
           /\ FirstBytes(header, n) = BytesOf(Current, 1, n)
           /\ Run(size, hand \o wire, Position(size, Current, n), SendPosition)
        \/ /\ recvState = "body" /\ Current <= Number /\ n < size[Current]
           /\ HeaderMessage(header) = Current
           /\ Run(size, hand \o wire, Position(size, Current, HeaderSize + n), SendPosition)

\* What a caller of full_receive() or timed_receive() knows.
ReaderKnows ==
    LET n == Len(ReadSoFar)
    IN  \/ /\ recvState = "header" /\ remain = 0
           /\ Run(size, wire, Position(size, Current, 0), SendPosition)
        \/ /\ recvState = "readHeader" /\ n + remain = HeaderSize
           /\ n > 0 => Current <= Number
           /\ ReadSoFar = BytesOf(Current, 1, n)
           /\ Run(size, wire, Position(size, Current, n), SendPosition)
        \/ /\ recvState = "readBody" /\ Current <= Number /\ n + remain = size[Current]
           /\ HeaderMessage(header) = Current
           /\ ReadSoFar = BytesOf(Current, HeaderSize + 1, HeaderSize + n)
           /\ Run(size, wire, Position(size, Current, HeaderSize + n), SendPosition)

StreamInv ==
    /\ StreamTypes
    /\ spoilt => mode = "machine"
    /\ ~spoilt => /\ SenderBooks /\ SentBefore
                  /\ Machine => MachineKnows
                  /\ Reading => hand = <<>> /\ ReaderKnows
-----------------------------------------------------------------------------
\* The bytes of a message, as the sender cuts them.
LEMMA BytesOfIs ==
    ASSUME NEW m, NEW a \in Nat \ {0}, NEW b \in Nat, a <= b + 1
    PROVE  /\ Len(BytesOf(m, a, b)) = b - a + 1
           /\ DOMAIN BytesOf(m, a, b) = 1 .. b - a + 1
           /\ \A i \in 1 .. b - a + 1 : BytesOf(m, a, b)[i] = <<m, a + i - 1>>
           /\ BytesOf(m, a, b) \in Seq({m} \X Nat)
<1> DEFINE k == b - a + 1
<1>1. k \in Nat
  OBVIOUS
<1>2. BytesOf(m, a, b) = [i \in 1 .. k |-> <<m, a + i - 1>>]
  BY DEF BytesOf
<1>3. \A i \in 1 .. k : <<m, a + i - 1>> \in {m} \X Nat
  BY <1>1
<1>4. [i \in 1 .. k |-> <<m, a + i - 1>>] \in [1 .. k -> {m} \X Nat]
  BY <1>3
<1> HIDE DEF k
<1>5. BytesOf(m, a, b) \in Seq({m} \X Nat) /\ Len(BytesOf(m, a, b)) = k
  BY <1>1, <1>2, <1>4
<1> QED
  BY <1>1, <1>2, <1>5 DEF k

\* The first byte of a message.
LEMMA FirstOfMessage ==
    ASSUME NEW m, NEW b \in Nat \ {0}
    PROVE  BytesOf(m, 1, b)[1] = <<m, 1>>
<1>1. 1 \in 1 .. b - 1 + 1 /\ 1 + 1 - 1 = 1
  OBVIOUS
<1> QED
  BY <1>1 DEF BytesOf

\* They are bytes of the stream.
LEMMA BytesOfType ==
    ASSUME NEW sz \in Sizes, NEW m \in 1 .. Number, NEW a \in Nat \ {0}, NEW b \in Nat,
           a <= b + 1, b <= HeaderSize + sz[m]
    PROVE  BytesOf(m, a, b) \in Seq(Bytes(sz))
<1> DEFINE s == BytesOf(m, a, b)
           k == b - a + 1
<1>0. k \in Nat
  OBVIOUS
<1>1. Len(s) = k /\ s \in Seq({m} \X Nat) /\ \A i \in 1 .. k : s[i] = <<m, a + i - 1>>
  BY BytesOfIs, Zenon
<1>2. \A i \in 1 .. k : s[i] \in Bytes(sz)
  <2> TAKE i \in 1 .. k
  <2>1. s[i] = <<m, a + i - 1>> /\ a + i - 1 \in Nat /\ 1 <= a + i - 1 /\ a + i - 1 <= b
    BY <1>0, <1>1
  <2>2. sz[m] \in Nat /\ HeaderSize \in Nat
    BY MessagesAssumption DEF Sizes
  <2> HIDE DEF s
  <2> QED
    BY <2>1, <2>2 DEF Bytes
<1> HIDE DEF s, k
<1> QED
  BY <1>1, <1>2 DEF s

\* Parts that follow each other join.
LEMMA BytesJoin ==
    ASSUME NEW m, NEW a \in Nat \ {0}, NEW b \in Nat, NEW c \in Nat, a <= b + 1, b <= c
    PROVE  BytesOf(m, a, b) \o BytesOf(m, b + 1, c) = BytesOf(m, a, c)
<1> DEFINE S == {m} \X Nat
           s == BytesOf(m, a, b)
           t == BytesOf(m, b + 1, c)
           u == BytesOf(m, a, c)
<1>1. s \in Seq(S) /\ Len(s) = b - a + 1 /\ \A i \in 1 .. b - a + 1 : s[i] = <<m, a + i - 1>>
  BY BytesOfIs
<1>2. t \in Seq(S) /\ Len(t) = c - b /\ \A i \in 1 .. c - b : t[i] = <<m, b + i>>
  <2>1. b + 1 \in Nat \ {0} /\ b + 1 <= c + 1 /\ c - (b + 1) + 1 = c - b
    OBVIOUS
  <2> DEFINE d == b + 1
  <2>2. d \in Nat \ {0} /\ d <= c + 1
    OBVIOUS
  <2> HIDE DEF d
  <2>3. /\ Len(BytesOf(m, d, c)) = c - d + 1 /\ BytesOf(m, d, c) \in Seq(S)
        /\ \A i \in 1 .. c - d + 1 : BytesOf(m, d, c)[i] = <<m, d + i - 1>>
    BY <2>2, BytesOfIs, Zenon
  <2> HIDE DEF S
  <2>4. c - d + 1 = c - b /\ \A i \in 1 .. c - b : d + i - 1 = b + i
    BY DEF d
  <2> QED
    BY <2>3, <2>4 DEF d
<1>3. u \in Seq(S) /\ Len(u) = c - a + 1 /\ \A i \in 1 .. c - a + 1 : u[i] = <<m, a + i - 1>>
  <2>1. a <= c + 1
    OBVIOUS
  <2> QED
    BY <2>1, BytesOfIs, Zenon
<1> HIDE DEF S, s, t, u
<1>4. /\ s \o t \in Seq(S) /\ Len(s \o t) = Len(s) + Len(t)
      /\ \A i \in 1 .. Len(s) + Len(t) : (s \o t)[i] = IF i <= Len(s) THEN s[i] ELSE t[i - Len(s)]
  BY <1>1, <1>2, ConcatProperties
<1>5. Len(s \o t) = Len(u) /\ Len(u) = c - a + 1
  BY <1>1, <1>2, <1>3, <1>4
<1>6. \A i \in 1 .. c - a + 1 : (s \o t)[i] = u[i]
  <2> TAKE i \in 1 .. c - a + 1
  <2>0. i \in 1 .. Len(s) + Len(t)
    BY <1>1, <1>2
  <2>1. CASE i <= b - a + 1
    <3>1. i \in 1 .. b - a + 1 /\ i <= Len(s)
      BY <2>1, <1>1
    <3>2. (s \o t)[i] = s[i]
      BY <3>1, <2>0, <1>4
    <3> QED
      BY <3>1, <3>2, <1>1, <1>3
  <2>2. CASE ~(i <= b - a + 1)
    <3>1. i - (b - a + 1) \in 1 .. c - b /\ b + (i - (b - a + 1)) = a + i - 1
      BY <2>2
    <3>2. ~(i <= Len(s)) /\ i - Len(s) = i - (b - a + 1)
      BY <2>2, <1>1
    <3>3. (s \o t)[i] = t[i - (b - a + 1)]
      BY <3>2, <2>0, <1>4
    <3>4. t[i - (b - a + 1)] = <<m, b + (i - (b - a + 1))>>
      BY <3>1, <1>2
    <3> QED
      BY <3>1, <3>3, <3>4, <1>3
  <2> QED
    BY <2>1, <2>2
<1>7. s \o t = u
  BY <1>3, <1>4, <1>5, <1>6, SeqEqual
<1> QED
  BY <1>7 DEF s, t, u

\* Parts of the stream that follow each other join.
LEMMA RunJoin ==
    ASSUME NEW sz \in Sizes, NEW s, NEW t, NEW from, NEW mid, NEW to,
           Run(sz, s, from, mid), Run(sz, t, mid, to)
    PROVE  Run(sz, s \o t, from, to)
<1> DEFINE B == Bytes(sz)
<1>1. s \in Seq(B) /\ t \in Seq(B)
  BY DEF Run
<1>2. CASE s = <<>>
  BY <1>1, <1>2, ConcatEmptySeq DEF Run
<1>3. CASE t = <<>>
  BY <1>1, <1>3, ConcatEmptySeq DEF Run
<1>4. CASE s # <<>> /\ t # <<>>
  <2> HIDE DEF B
  <2> DEFINE p == Len(s)
             q == Len(t)
             u == s \o t
  <2>1. p \in Nat \ {0} /\ q \in Nat \ {0}
    BY <1>1, <1>4, EmptySeq
  <2>2. /\ u \in Seq(B) /\ Len(u) = p + q
        /\ \A i \in 1 .. p + q : u[i] = IF i <= p THEN s[i] ELSE t[i - p]
    BY <1>1, ConcatProperties
  <2> DEFINE r == p + q
  <2>r. r \in Nat /\ r >= 1 /\ r - p = q /\ r > p
    BY <2>1
  <2>a. \A i \in 1 .. r : u[i] = IF i <= p THEN s[i] ELSE t[i - p]
    BY <2>2
  <2>b. u \in Seq(B) /\ Len(u) = r
    BY <2>2
  <2>3. /\ s[1] = from /\ After(sz, s[p]) = mid /\ t[1] = mid /\ After(sz, t[q]) = to
        /\ \A i \in 1 .. p - 1 : s[i + 1] = After(sz, s[i])
        /\ \A i \in 1 .. q - 1 : t[i + 1] = After(sz, t[i])
    BY <1>4 DEF Run
  <2> HIDE DEF p, q, u, r
  <2>4. u # <<>> /\ u[1] = from /\ u[Len(u)] = t[q]
    <3>1. u[1] = s[1]
      BY <2>1, <2>r, <2>a
    <3>2. u[r] = t[q]
      BY <2>1, <2>r, <2>a
    <3>3. Len(u) # 0
      BY <2>r, <2>b
    <3> QED
      BY <3>1, <3>2, <3>3, <2>b, <2>3, EmptySeq
  <2>5. \A i \in 1 .. r - 1 : u[i + 1] = After(sz, u[i])
    <3> TAKE i \in 1 .. r - 1
    <3>0. i \in 1 .. r /\ i + 1 \in 1 .. r
      BY <2>r
    <3>1. CASE i < p
      BY <3>0, <3>1, <2>1, <2>r, <2>a, <2>3
    <3>2. CASE i = p
      <4>1. u[i] = s[p] /\ u[i + 1] = t[1]
        <5>1. ~(i + 1 <= p) /\ i + 1 - p = 1 /\ i <= p
          BY <3>2, <2>1
        <5> QED
          BY <5>1, <3>0, <3>2, <2>r, <2>a
      <4> QED
        BY <4>1, <2>3
    <3>3. CASE i > p
      <4>1. i - p \in 1 .. q - 1 /\ (i - p) + 1 = (i + 1) - p /\ ~(i <= p) /\ ~(i + 1 <= p)
        BY <3>3, <2>1, <2>r
      <4>2. t[(i - p) + 1] = After(sz, t[i - p])
        BY <4>1, <2>3
      <4>3. u[i] = t[i - p] /\ u[i + 1] = t[(i + 1) - p]
        BY <3>0, <4>1, <2>r, <2>a
      <4> QED
        BY <4>1, <4>2, <4>3
    <3> QED
      BY <3>1, <3>2, <3>3, <2>1, <2>r
  <2>6. Run(sz, u, from, to)
    <3>1. u \in Seq(Bytes(sz))
      BY <2>b DEF B
    <3>2. \A i \in 1 .. Len(u) - 1 : u[i + 1] = After(sz, u[i])
      BY <2>b, <2>5
    <3>3. After(sz, u[Len(u)]) = to
      BY <2>3, <2>4
    <3> QED
      BY <3>1, <3>2, <3>3, <2>4 DEF Run
  <2> QED
    BY <2>6 DEF u
<1> QED
  BY <1>2, <1>3, <1>4

\* A set of natural numbers that is not empty has a least one.
LEMMA LeastNumber ==
    ASSUME NEW T, T \subseteq Nat, T # {}
    PROVE  \E m \in T : \A k \in T : m <= k
<1>1. PICK m \in T : \A k \in T : ~(<<k, m>> \in OpToRel(<, Nat))
  BY NatLessThanWellFounded, WFMin, Zenon
<1>2. \A k \in T : ~(k < m)
  BY <1>1 DEF OpToRel
<1>3. \A k \in T : m <= k
  BY <1>2
<1> QED
  BY <1>3

\* The stream goes on inside a message as long as the message lasts.
LEMMA RunInside ==
    ASSUME NEW sz \in Sizes, NEW s, NEW to, NEW m \in 1 .. Number, NEW n \in Nat,
           Run(sz, s, Position(sz, m, n), to),
           NEW k \in 0 .. Len(s), n + k <= HeaderSize + sz[m]
    PROVE  \A i \in 1 .. k : s[i] = <<m, n + i>>
<1> DEFINE T == {i \in 1 .. k : s[i] # <<m, n + i>>}
           l == Len(s)
           last == HeaderSize + sz[m]
<1>0. last \in Nat
  BY MessagesAssumption DEF Sizes
<1>1. l \in Nat /\ \A i \in 1 .. l - 1 : s[i + 1] = After(sz, s[i])
  BY DEF Run
<1> SUFFICES ASSUME T # {} PROVE FALSE
  OBVIOUS
<1>2. PICK i \in T : \A j \in T : i <= j
  <2>1. T \subseteq Nat
    BY <1>1
  <2> HIDE DEF T
  <2> QED
    BY <2>1, LeastNumber, Zenon
<1>3. i \in 1 .. k /\ s[i] # <<m, n + i>>
  OBVIOUS
<1>4. i # 1
  <2> SUFFICES ASSUME i = 1 PROVE FALSE
    OBVIOUS
  <2>1. s # <<>> /\ k >= 1
    BY <1>3
  <2>2. s[1] = Position(sz, m, n)
    BY <2>1 DEF Run
  <2>3. n # last
    BY <2>1, <1>0, <1>3
  <2>4. s[1] = <<m, n + 1>>
    BY <2>2, <2>3 DEF Position
  <2> QED
    BY <2>4, <1>3
<1> DEFINE j == i - 1
<1>5. j \in 1 .. k /\ j \in 1 .. l - 1 /\ j + 1 = i /\ j < i
  BY <1>1, <1>3, <1>4
<1>6. s[j] = <<m, n + j>>
  BY <1>2, <1>5
<1>7. s[j + 1] = After(sz, s[j])
  BY <1>1, <1>5
<1>8. n + j < last /\ (n + j) + 1 = n + i
  BY <1>0, <1>3, <1>5
<1> HIDE DEF j
<1>9. After(sz, <<m, n + j>>) = <<m, n + i>>
  BY <1>8 DEF After
<1> QED
  BY <1>3, <1>5, <1>6, <1>7, <1>9

\* The first bytes of the stream, cut inside a message, and the rest.
LEMMA RunTake ==
    ASSUME NEW sz \in Sizes, NEW s, NEW to, NEW m \in 1 .. Number, NEW n \in Nat,
           Run(sz, s, Position(sz, m, n), to),
           NEW k \in 0 .. Len(s), n + k <= HeaderSize + sz[m]
    PROVE  /\ FirstBytes(s, k) = BytesOf(m, n + 1, n + k)
           /\ Run(sz, WithoutFirst(s, k), Position(sz, m, n + k), to)
           /\ WithoutFirst(s, k) \in Seq(Bytes(sz)) /\ FirstBytes(s, k) \in Seq(Bytes(sz))
<1> DEFINE B == Bytes(sz)
           l == Len(s)
           f == FirstBytes(s, k)
           r == WithoutFirst(s, k)
           last == HeaderSize + sz[m]
<1>0. last \in Nat
  BY MessagesAssumption DEF Sizes
<1>1. s \in Seq(B) /\ l \in Nat /\ \A i \in 1 .. l - 1 : s[i + 1] = After(sz, s[i])
  BY DEF Run
<1>2. \A i \in 1 .. k : s[i] = <<m, n + i>>
  BY RunInside, Zenon
<1>3. k \in Nat /\ k <= l
  BY <1>1
<1>4. f \in Seq(B) /\ Len(f) = k /\ \A i \in 1 .. k : f[i] = s[i]
  BY <1>1, <1>3 DEF FirstBytes
<1>5. r \in Seq(B) /\ Len(r) = l - k /\ \A i \in 1 .. l - k : r[i] = s[k + i]
  BY <1>1, <1>3 DEF WithoutFirst
<1>6. f = BytesOf(m, n + 1, n + k)
  <2> DEFINE a == n + 1
             b == n + k
             t == BytesOf(m, a, b)
  <2>1. a \in Nat \ {0} /\ b \in Nat /\ a <= b + 1 /\ b - a + 1 = k
    BY <1>3
  <2>2. \A i \in 1 .. k : a + i - 1 = n + i
    BY <1>3
  <2>3. b <= last
    OBVIOUS
  <2> HIDE DEF a, b
  <2>4. Len(t) = b - a + 1 /\ \A i \in 1 .. b - a + 1 : t[i] = <<m, a + i - 1>>
    BY <2>1, BytesOfIs, Zenon
  <2>5. t \in Seq(B)
    BY <2>1, <2>3, BytesOfType, Zenon
  <2> HIDE DEF B, f, t, last
  <2>6. Len(t) = k /\ \A i \in 1 .. k : t[i] = f[i]
    BY <2>1, <2>2, <2>4, <1>2, <1>4
  <2>7. f = t
    BY <2>5, <2>6, <1>4, SeqEqual
  <2> QED
    BY <2>7 DEF a, b, t
<1>7. Run(sz, r, Position(sz, m, n + k), to)
  <2> HIDE DEF B, r, f
  <2>1. r \in Seq(Bytes(sz))
    BY <1>5 DEF B
  <2>2. CASE k = l
    <3>1. r = <<>> /\ Len(r) = 0
      BY <1>1, <1>5, <2>2, EmptySeq
    <3>2. Position(sz, m, n + k) = to
      <4>1. CASE k = 0
        <5>0. Len(s) = 0 /\ n + k = n
          BY <2>2, <4>1
        <5>1. s = <<>>
          BY <5>0, <1>1, EmptySeq
        <5> QED
          BY <5>0, <5>1 DEF Run
      <4>2. CASE k > 0
        <5>1. s # <<>> /\ After(sz, s[k]) = to
          <6>1. s # <<>>
            BY <2>2, <4>2
          <6> QED
            BY <6>1, <2>2 DEF Run
        <5>2. s[k] = <<m, n + k>>
          BY <1>2, <1>3, <4>2
        <5>3. n + k \in Nat /\ n + k > 0
          BY <1>3, <4>2
        <5>4. After(sz, <<m, n + k>>) = Position(sz, m, n + k)
          BY <1>0, <5>3 DEF After, Position
        <5> QED
          BY <5>1, <5>2, <5>4
      <4> QED
        BY <1>3, <4>1, <4>2
    <3> QED
      BY <2>1, <3>1, <3>2 DEF Run
  <2>3. CASE k < l
    <3>1. r # <<>>
      BY <1>1, <1>3, <1>5, <2>3, EmptySeq
    <3>2. r[1] = s[k + 1] /\ r[l - k] = s[l]
      <4>1. 1 \in 1 .. l - k /\ l - k \in 1 .. l - k /\ k + (l - k) = l
        BY <1>1, <1>3, <2>3
      <4> HIDE DEF l
      <4> QED
        BY <4>1, <1>5
    <3>3. s[k + 1] = Position(sz, m, n + k)
      <4>1. CASE k = 0
        <5>1. s # <<>> /\ k + 1 = 1 /\ n + k = n
          BY <2>3, <4>1
        <5> QED
          BY <5>1 DEF Run
      <4>2. CASE k > 0
        <5>1. s[k + 1] = After(sz, s[k])
          BY <1>1, <1>3, <2>3, <4>2
        <5>2. s[k] = <<m, n + k>>
          BY <1>2, <1>3, <4>2
        <5>3. n + k \in Nat /\ n + k > 0
          BY <1>3, <4>2
        <5>4. After(sz, <<m, n + k>>) = Position(sz, m, n + k)
          BY <1>0, <5>3 DEF After, Position
        <5> QED
          BY <5>1, <5>2, <5>4
      <4> QED
        BY <1>3, <4>1, <4>2
    <3>4. After(sz, s[l]) = to
      <4>1. s # <<>>
        BY <2>3, <1>3
      <4> QED
        BY <4>1 DEF Run
    <3>5. \A i \in 1 .. l - k - 1 : r[i + 1] = After(sz, r[i])
      <4> TAKE i \in 1 .. l - k - 1
      <4>1. i \in 1 .. l - k /\ i + 1 \in 1 .. l - k /\ k + i \in 1 .. l - 1
            /\ k + (i + 1) = (k + i) + 1
        BY <1>1, <1>3
      <4> HIDE DEF l
      <4>2. r[i] = s[k + i] /\ r[i + 1] = s[k + (i + 1)]
        BY <4>1, <1>5
      <4> QED
        BY <4>1, <4>2, <1>1
    <3>6. \A i \in 1 .. Len(r) - 1 : r[i + 1] = After(sz, r[i])
      BY <3>5, <1>5
    <3>7. r[1] = Position(sz, m, n + k) /\ After(sz, r[Len(r)]) = to
      BY <3>2, <3>3, <3>4, <1>5
    <3> QED
      BY <2>1, <3>1, <3>6, <3>7 DEF Run
  <2> QED
    BY <1>1, <1>3, <2>2, <2>3
<1> QED
  BY <1>4, <1>5, <1>6, <1>7

\* If more comes where a message starts, there is such a message.
LEMMA RunStart ==
    ASSUME NEW sz \in Sizes, NEW s, NEW to, NEW m,
           Run(sz, s, Position(sz, m, 0), to), s # <<>>
    PROVE  m \in 1 .. Number
<1>1. s[1] = <<m, 1>>
  BY DEF Run, Position
<1>2. s[1] \in Bytes(sz)
  BY EmptySeq, ElementOfSeq DEF Run
<1> QED
  BY <1>1, <1>2 DEF Bytes

\* A part of a message is a part of the stream.
LEMMA RunOfMessage ==
    ASSUME NEW sz \in Sizes, NEW m \in 1 .. Number, NEW n \in Nat, NEW k \in Nat,
           n + k <= HeaderSize + sz[m]
    PROVE  Run(sz, BytesOf(m, n + 1, n + k), Position(sz, m, n), Position(sz, m, n + k))
<1> DEFINE a == n + 1
           b == n + k
           t == BytesOf(m, a, b)
           B == Bytes(sz)
           last == HeaderSize + sz[m]
<1>0. last \in Nat
  BY MessagesAssumption DEF Sizes
<1>a. a \in Nat \ {0} /\ b \in Nat /\ a <= b + 1
  OBVIOUS
<1>1. b - a + 1 = k /\ b <= last
  OBVIOUS
<1>2. \A i \in 1 .. k : a + i - 1 = n + i
  OBVIOUS
<1> HIDE DEF a, b
<1>3. t \in Seq(B)
  BY <1>a, <1>1, BytesOfType, Zenon
<1>4. Len(t) = b - a + 1 /\ \A i \in 1 .. b - a + 1 : t[i] = <<m, a + i - 1>>
  BY <1>a, BytesOfIs, Zenon
<1> HIDE DEF B, t
<1>5. Len(t) = k /\ \A i \in 1 .. k : t[i] = <<m, n + i>>
  BY <1>1, <1>2, <1>4
<1>6. CASE k = 0
  <2>1. t = <<>> /\ n + k = n
    BY <1>3, <1>5, <1>6, EmptySeq
  <2>2. \A i \in 1 .. Len(t) - 1 : t[i + 1] = After(sz, t[i])
    BY <1>5, <1>6
  <2> QED
    BY <2>1, <2>2, <1>3 DEF Run, B, t, a, b
<1>7. CASE k > 0
  <2>1. t # <<>> /\ 1 \in 1 .. k /\ k \in 1 .. k /\ n < last /\ n + k > 0
    BY <1>0, <1>3, <1>5, <1>7, EmptySeq
  <2>2. t[1] = Position(sz, m, n)
    <3>1. t[1] = <<m, n + 1>>
      BY <2>1, <1>5
    <3>2. Position(sz, m, n) = <<m, n + 1>>
      BY <2>1 DEF Position
    <3> QED
      BY <3>1, <3>2
  <2>3. After(sz, t[Len(t)]) = Position(sz, m, n + k)
    <3>1. t[k] = <<m, n + k>>
      BY <2>1, <1>5
    <3>2. After(sz, <<m, n + k>>) = Position(sz, m, n + k)
      BY <2>1, <1>0 DEF After, Position
    <3> QED
      BY <3>1, <3>2, <1>5
  <2>4. \A i \in 1 .. k - 1 : t[i + 1] = After(sz, t[i])
    <3> TAKE i \in 1 .. k - 1
    <3>1. i \in 1 .. k /\ i + 1 \in 1 .. k /\ n + i < last /\ (n + i) + 1 = n + (i + 1)
      BY <1>0
    <3>2. t[i] = <<m, n + i>> /\ t[i + 1] = <<m, n + (i + 1)>>
      BY <3>1, <1>5
    <3>3. After(sz, <<m, n + i>>) = <<m, n + (i + 1)>>
      BY <3>1 DEF After
    <3> QED
      BY <3>2, <3>3
  <2>5. \A i \in 1 .. Len(t) - 1 : t[i + 1] = After(sz, t[i])
    BY <2>4, <1>5
  <2> QED
    BY <2>1, <2>2, <2>3, <2>5, <1>3 DEF Run, B, t, a, b
<1> QED
  BY <1>6, <1>7

\* What has arrived and is not handled keeps its place when some of it is.
LEMMA AheadSplit ==
    ASSUME NEW S, NEW s \in Seq(S), NEW t \in Seq(S), NEW k \in 0 .. Len(s)
    PROVE  /\ k \in 0 .. Len(s \o t)
           /\ FirstBytes(s \o t, k) = FirstBytes(s, k)
           /\ WithoutFirst(s \o t, k) = WithoutFirst(s, k) \o t
           /\ WithoutFirst(s, k) \in Seq(S) /\ FirstBytes(s, k) \in Seq(S)
           /\ FirstBytes(s, k) \o WithoutFirst(s, k) = s
<1> DEFINE p == Len(s)
           q == Len(t)
           u == s \o t
           f == SubSeq(s, 1, k)
           r == SubSeq(s, k + 1, p)
           fu == SubSeq(u, 1, k)
           ru == SubSeq(u, k + 1, Len(u))
           v == r \o t
           w == f \o r
<1>1. p \in Nat /\ q \in Nat /\ k \in Nat /\ k <= p
  OBVIOUS
<1>2. u \in Seq(S) /\ Len(u) = p + q /\ \A i \in 1 .. p + q : u[i] = IF i <= p THEN s[i] ELSE t[i - p]
  BY ConcatProperties
<1>3. f \in Seq(S) /\ Len(f) = k /\ \A i \in 1 .. k : f[i] = s[i]
  BY <1>1
<1>4. r \in Seq(S) /\ Len(r) = p - k /\ \A i \in 1 .. p - k : r[i] = s[k + i]
  BY <1>1
<1> HIDE DEF u
<1>5. fu \in Seq(S) /\ Len(fu) = k /\ \A i \in 1 .. k : fu[i] = u[i]
  BY <1>1, <1>2
<1>6. ru \in Seq(S) /\ Len(ru) = p + q - k /\ \A i \in 1 .. p + q - k : ru[i] = u[k + i]
  BY <1>1, <1>2
<1> HIDE DEF p, q, f, r, fu, ru
<1>7. /\ v \in Seq(S) /\ Len(v) = Len(r) + Len(t)
      /\ \A i \in 1 .. Len(r) + Len(t) : v[i] = IF i <= Len(r) THEN r[i] ELSE t[i - Len(r)]
  BY <1>4, ConcatProperties
<1>8. /\ w \in Seq(S) /\ Len(w) = Len(f) + Len(r)
      /\ \A i \in 1 .. Len(f) + Len(r) : w[i] = IF i <= Len(f) THEN f[i] ELSE r[i - Len(f)]
  BY <1>3, <1>4, ConcatProperties
<1> HIDE DEF v, w
<1>9. fu = f
  <2>1. \A i \in 1 .. k : fu[i] = f[i]
    BY <1>1, <1>2, <1>3, <1>5
  <2> QED
    BY <2>1, <1>3, <1>5, SeqEqual
<1>10. ru = v
  <2>1. Len(ru) = Len(v)
    BY <1>1, <1>4, <1>6, <1>7 DEF q
  <2>2. \A i \in 1 .. p + q - k : v[i] = IF i <= p - k THEN r[i] ELSE t[i - (p - k)]
    BY <1>1, <1>4, <1>7 DEF q
  <2>3. \A i \in 1 .. p + q - k : ru[i] = v[i]
    <3> TAKE i \in 1 .. p + q - k
    <3>1. k + i \in 1 .. p + q /\ (k + i <= p <=> i <= p - k) /\ (k + i) - p = i - (p - k)
      BY <1>1
    <3>2. ru[i] = u[k + i] /\ u[k + i] = IF k + i <= p THEN s[k + i] ELSE t[(k + i) - p]
      BY <3>1, <1>2, <1>6
    <3>3. i <= p - k => r[i] = s[k + i]
      BY <1>4, <1>1
    <3> QED
      BY <2>2, <3>1, <3>2, <3>3
  <2>4. \A i \in 1 .. Len(ru) : ru[i] = v[i]
    BY <2>3, <1>6
  <2> QED
    BY <2>1, <2>4, <1>6, <1>7, SeqEqual
<1>11. w = s
  <2>1. Len(w) = p
    BY <1>1, <1>3, <1>4, <1>8
  <2>2. \A i \in 1 .. p : w[i] = IF i <= k THEN f[i] ELSE r[i - k]
    BY <1>1, <1>3, <1>4, <1>8
  <2>3. \A i \in 1 .. p : w[i] = s[i]
    <3> TAKE i \in 1 .. p
    <3>1. CASE i <= k
      BY <3>1, <2>2, <1>1, <1>3
    <3>2. CASE ~(i <= k)
      <4>1. i - k \in 1 .. p - k /\ k + (i - k) = i
        BY <3>2, <1>1
      <4>2. r[i - k] = s[k + (i - k)]
        BY <4>1, <1>4
      <4> QED
        BY <3>2, <4>1, <4>2, <2>2
    <3> QED
      BY <3>1, <3>2
  <2>4. \A i \in 1 .. Len(w) : w[i] = s[i]
    BY <2>1, <2>3
  <2>5. Len(w) = Len(s)
    BY <2>1 DEF p
  <2> QED
    BY <2>4, <2>5, <1>8, SeqEqual
<1>12. k \in 0 .. Len(u)
  BY <1>1, <1>2
<1> QED
  BY <1>3, <1>4, <1>9, <1>10, <1>11, <1>12 DEF FirstBytes, WithoutFirst, u, f, r, fu, ru, v, w, p
-----------------------------------------------------------------------------
\* Before anything is sent the receiver is in step.
LEMMA StreamBegins == StreamInit => StreamInv
<1> SUFFICES ASSUME StreamInit PROVE StreamInv
  OBVIOUS
<1> USE DEF StreamInit, ChannelInit
<1>1. size \in Sizes
  BY MessagesAssumption DEF Sizes
<1>2. <<>> \in Seq(Bytes(size)) /\ <<>> \o <<>> = <<>>
  BY EmptySeq, ConcatEmptySeq
<1>3. StreamTypes
  BY <1>1, <1>2, MessagesAssumption DEF StreamTypes, StreamTypeOK
<1>4. SendPosition = <<1, 1>> /\ Whole = 0 /\ Current = 1 /\ Position(size, Current, 0) = <<1, 1>>
  BY DEF SendPosition, Whole, Current, IsFinish, Position
<1>5. Run(size, <<>>, Position(size, Current, 0), SendPosition)
  BY <1>2, <1>4 DEF Run
<1>6. FirstBytes(header, 0) = <<>> /\ BytesOf(Current, 1, 0) = <<>>
  <2>1. 1 .. 0 - 1 + 1 = {}
    OBVIOUS
  <2>2. BytesOf(Current, 1, 0) = <<>>
    BY <2>1 DEF BytesOf
  <2> QED
    BY <2>2, SubSeqEmpty DEF FirstBytes
<1>7. SenderBooks /\ SentBefore
  BY <1>4 DEF SenderBooks, SentBefore, IsFinish
<1>8. MachineKnows
  BY <1>2, <1>5, <1>6, MessagesAssumption DEF MachineKnows
<1>9. ReaderKnows
  BY <1>5 DEF ReaderKnows
<1> QED
  BY <1>3, <1>7, <1>8, <1>9 DEF StreamInv

\* A turn of the sender.
LEMMA SendsKeep ==
    ASSUME StreamInv, ~spoilt, NEW m \in 1 .. Number, NEW from \in Nat \ {0}, NEW rest \in Nat \ {0},
           from + rest = Length(m) + 1, SendPosition = <<m, from>>, Whole = m - 1,
           message <= m, message' = m, Sends(m, from, rest),
           UNCHANGED <<recvVars, kept, got, remain, size, mode, delivered, resumed, breaks, spoilt>>
    PROVE  StreamInv'
<1> USE DEF recvVars
<1>0. /\ StreamTypes /\ SentBefore /\ (Machine => MachineKnows) /\ (Reading => hand = <<>> /\ ReaderKnows)
      /\ size \in Sizes /\ wire \in Seq(Bytes(size)) /\ hand \in Seq(Bytes(size))
  BY DEF StreamInv, StreamTypes
<1> DEFINE last == HeaderSize + size[m]
<1>1. last \in Nat /\ Length(m) = last /\ HeaderSize \in Nat \ {0}
  BY <1>0, MessagesAssumption DEF Sizes, Length
<1>2. \E t \in Seq(Bytes(size)) :
         /\ wire' = wire \o t
         /\ Run(size, t, SendPosition, SendPosition')
         /\ remainSize' \in Nat /\ cursor' \in Nat \ {0} /\ cursor' + remainSize' = last + 1
         /\ \A i \in 1 .. Len(t) : t[i][1] = m
  <2>1. CASE \E k \in SendResults(rest) : /\ wire' = wire \o BytesOf(m, from, from + k - 1)
                                          /\ cursor' = from + k
                                          /\ remainSize' = rest - k
    <3>1. PICK k \in SendResults(rest) : /\ wire' = wire \o BytesOf(m, from, from + k - 1)
                                         /\ cursor' = from + k
                                         /\ remainSize' = rest - k
      BY <2>1
    <3>2. k \in Nat /\ 1 <= k /\ k <= rest
      BY <1>0, WindowAssumption DEF SendResults, Least
    <3> DEFINE n == from - 1
    <3>3. n \in Nat /\ n + 1 = from /\ n + k = from + k - 1 /\ n + k <= last /\ n < last
      BY <1>1, <3>2
    <3> HIDE DEF n
    <3>4. Run(size, BytesOf(m, from, from + k - 1), Position(size, m, n), Position(size, m, n + k))
      BY <3>2, <3>3, <1>0, RunOfMessage
    <3>5. Position(size, m, n) = SendPosition
      BY <3>3 DEF Position
    <3>6. Position(size, m, n + k) = SendPosition'
      <4>1. CASE k = rest
        <5>1. remainSize' = 0
          BY <3>1, <3>2, <4>1
        <5>2. n + k = last /\ n + k > 0
          <6> HIDE DEF last
          <6> QED
            BY <1>1, <3>2, <3>3, <4>1
        <5> QED
          BY <5>1, <5>2 DEF Position, SendPosition, IsFinish
      <4>2. CASE k # rest
        <5>1. n + k # last /\ remainSize' # 0 /\ n + k + 1 = from + k
          BY <1>1, <3>1, <3>2, <3>3, <4>2
        <5> QED
          BY <5>1, <3>1 DEF Position, SendPosition, IsFinish
      <4> QED
        BY <4>1, <4>2
    <3>7. from + k - 1 \in Nat /\ from <= (from + k - 1) + 1 /\ (from + k - 1) - from + 1 = k
      BY <3>2
    <3> DEFINE t == BytesOf(m, from, from + k - 1)
               b == from + k - 1
    <3>8. Len(t) = k /\ \A i \in 1 .. k : t[i] = <<m, from + i - 1>>
      <4> HIDE DEF b
      <4>1. b \in Nat /\ from <= b + 1 /\ b - from + 1 = k
        BY <3>7 DEF b
      <4>2. /\ Len(BytesOf(m, from, b)) = b - from + 1
            /\ \A i \in 1 .. b - from + 1 : BytesOf(m, from, b)[i] = <<m, from + i - 1>>
        BY <4>1, BytesOfIs, Zenon
      <4> QED
        BY <4>1, <4>2 DEF b
    <3>9. \A i \in 1 .. Len(t) : t[i][1] = m
      BY <3>8
    <3> HIDE DEF t
    <3>10. t \in Seq(Bytes(size))
      BY <3>4 DEF Run, t
    <3>11. remainSize' \in Nat /\ cursor' \in Nat \ {0} /\ cursor' + remainSize' = last + 1
      BY <1>1, <3>1, <3>2
    <3>12. wire' = wire \o t /\ Run(size, t, SendPosition, SendPosition')
      BY <3>1, <3>4, <3>5, <3>6 DEF t
    <3> QED
      BY <3>9, <3>10, <3>11, <3>12
  <2>2. CASE cursor' = from /\ remainSize' = rest /\ UNCHANGED wire
    <3>1. wire' = wire \o <<>> /\ <<>> \in Seq(Bytes(size))
      BY <2>2, <1>0, ConcatEmptySeq, EmptySeq
    <3>2. SendPosition' = SendPosition
      BY <2>2 DEF SendPosition, IsFinish
    <3>3. Run(size, <<>>, SendPosition, SendPosition')
      <4>1. \A i \in 1 .. Len(<<>>) - 1 : <<>>[i + 1] = After(size, <<>>[i])
        OBVIOUS
      <4> QED
        BY <3>1, <3>2, <4>1 DEF Run
    <3>4. \A i \in 1 .. Len(<<>>) : <<>>[i][1] = m
      OBVIOUS
    <3>5. remainSize' \in Nat /\ cursor' \in Nat \ {0} /\ cursor' + remainSize' = last + 1
      BY <2>2, <1>1
    <3> QED
      BY <3>1, <3>3, <3>4, <3>5
  <2> QED
    BY <2>1, <2>2 DEF Sends
<1>3. PICK t :
         /\ t \in Seq(Bytes(size)) /\ wire' = wire \o t
         /\ Run(size, t, SendPosition, SendPosition')
         /\ remainSize' \in Nat /\ cursor' \in Nat \ {0} /\ cursor' + remainSize' = last + 1
         /\ \A i \in 1 .. Len(t) : t[i][1] = m
  BY <1>2
<1> HIDE DEF last
<1>4. /\ wire' \in Seq(Bytes(size)) /\ Len(wire') = Len(wire) + Len(t)
      /\ \A i \in 1 .. Len(wire) + Len(t) :
             wire'[i] = IF i <= Len(wire) THEN wire[i] ELSE t[i - Len(wire)]
  BY <1>0, <1>3, ConcatProperties
<1>5. StreamTypes'
  <2>1. m \in 0 .. Number
    OBVIOUS
  <2> QED
    BY <1>0, <1>3, <1>4, <2>1 DEF StreamTypes, StreamTypeOK
<1>6. SenderBooks'
  <2>1. Length(message)' = last
    BY DEF Length, last
  <2>2. message' > 0
    OBVIOUS
  <2>3. remainSize' = 0 => cursor' = last + 1
    <3> DEFINE c == cursor'
               r == remainSize'
    <3>1. r \in Nat /\ c \in Nat \ {0} /\ c + r = last + 1
      BY <1>3, Zenon
    <3> HIDE DEF c, r
    <3>2. r = 0 => c = last + 1
      BY <3>1, <1>1
    <3> QED
      BY <3>2 DEF c, r
  <2> QED
    BY <2>1, <2>2, <2>3, <1>3, Zenon DEF SenderBooks, IsFinish
<1>7. SentBefore'
  <2>1. \A i \in DOMAIN wire' : wire'[i][1] <= message'
    <3> DEFINE p == Len(wire)
               q == Len(t)
    <3>1. DOMAIN wire' = 1 .. p + q /\ DOMAIN wire = 1 .. p /\ p \in Nat /\ q \in Nat
      BY <1>0, <1>3, <1>4
    <3>2. \A i \in 1 .. p : wire[i] \in Bytes(size) /\ wire[i][1] <= message
      BY <1>0, <3>1 DEF SentBefore
    <3>3. message \in Nat /\ m \in Nat
      BY <1>0 DEF StreamTypes, StreamTypeOK
    <3>4. \A i \in 1 .. p : wire[i][1] \in Nat
      BY <3>2 DEF Bytes
    <3>5. \A i \in 1 .. p + q : wire'[i] = IF i <= p THEN wire[i] ELSE t[i - p]
      BY <1>4
    <3>6. \A i \in 1 .. q : t[i][1] = m
      BY <1>3
    <3> HIDE DEF p, q
    <3>7. ASSUME NEW i \in 1 .. p + q PROVE wire'[i][1] <= m
      <4>1. CASE i <= p
        <5>1. wire'[i] = wire[i] /\ i \in 1 .. p
          BY <3>5, <3>7, <4>1, <3>1
        <5> QED
          BY <5>1, <3>2, <3>3, <3>4
      <4>2. CASE ~(i <= p)
        <5>1. wire'[i] = t[i - p] /\ i - p \in 1 .. q
          BY <3>5, <3>7, <4>2, <3>1
        <5> QED
          BY <5>1, <3>6, <3>3
      <4> QED
        BY <4>1, <4>2
    <3> QED
      BY <3>1, <3>7
  <2>2. \A i \in DOMAIN hand' : hand'[i][1] <= message'
    <3>1. \A i \in DOMAIN hand : hand[i] \in Bytes(size)
      BY <1>0
    <3>2. \A i \in DOMAIN hand : hand[i][1] \in Nat /\ hand[i][1] <= message
      BY <1>0, <3>1 DEF SentBefore, Bytes
    <3>3. message \in Nat /\ m \in Nat
      BY <1>0 DEF StreamTypes, StreamTypeOK
    <3> QED
      BY <3>2, <3>3
  <2>3. Whole' >= Whole /\ Whole \in Int /\ Whole' \in Int
    BY DEF Whole, IsFinish
  <2>4. delivered' <= Whole' /\ resumed' <= Whole' + 1
    <3>1. delivered \in Int /\ resumed \in Int
      BY <1>0 DEF StreamTypes, StreamTypeOK
    <3>2. delivered <= Whole /\ resumed <= Whole + 1
      BY <1>0 DEF SentBefore
    <3> DEFINE w == Whole'
    <3>3. w >= Whole /\ Whole \in Int /\ w \in Int
      BY <2>3
    <3> HIDE DEF w
    <3>4. delivered <= w /\ resumed <= w + 1
      BY <3>1, <3>2, <3>3
    <3> QED
      BY <3>4 DEF w
  <2> QED
    BY <2>1, <2>2, <2>4 DEF SentBefore
<1>8. ASSUME NEW x, Run(size, wire, x, SendPosition) PROVE Run(size, wire', x, SendPosition')
  BY <1>0, <1>3, <1>8, RunJoin
<1>9. ASSUME NEW x, Run(size, hand \o wire, x, SendPosition)
      PROVE  Run(size, hand \o wire', x, SendPosition')
  <2>1. (hand \o wire) \o t = hand \o wire'
    <3> DEFINE S == Bytes(size)
    <3>0. hand \in Seq(S) /\ wire \in Seq(S) /\ t \in Seq(S)
      BY <1>0, <1>3
    <3> HIDE DEF S
    <3>1. (hand \o wire) \o t = hand \o (wire \o t)
      BY <3>0, ConcatAssociative
    <3> QED
      BY <3>1, <1>3
  <2>2. Run(size, (hand \o wire) \o t, x, SendPosition')
    BY <1>0, <1>3, <1>9, RunJoin
  <2> QED
    BY <2>1, <2>2
<1>10. Machine' => MachineKnows'
  <2>1. SUFFICES ASSUME Machine, MachineKnows PROVE MachineKnows'
    BY <1>0 DEF Machine
  <2>2. Current' = Current
    BY DEF Current
  <2>3. CASE recvState = "header"
    BY <2>1, <2>2, <2>3, <1>9 DEF MachineKnows
  <2>4. CASE recvState = "body"
    BY <2>1, <2>2, <2>4, <1>9 DEF MachineKnows
  <2> QED
    BY <2>1, <2>3, <2>4 DEF MachineKnows
<1>11. Reading' => hand' = <<>> /\ ReaderKnows'
  <2>1. SUFFICES ASSUME Reading, ReaderKnows PROVE ReaderKnows'
    BY <1>0 DEF Reading
  <2>2. Current' = Current /\ ReadSoFar' = ReadSoFar
    BY DEF Current, ReadSoFar
  <2> QED
    BY <2>1, <2>2, <1>8 DEF ReaderKnows
<1> QED
  BY <1>5, <1>6, <1>7, <1>10, <1>11 DEF StreamInv

\* The facts an action of a stream that is not spoilt starts from.
LEMMA StreamFacts ==
    ASSUME StreamInv, ~spoilt
    PROVE  /\ StreamTypes /\ SenderBooks /\ SentBefore
           /\ Machine => MachineKnows
           /\ Reading => hand = <<>> /\ ReaderKnows
           /\ size \in Sizes /\ wire \in Seq(Bytes(size)) /\ hand \in Seq(Bytes(size))
           /\ header \in Seq(Bytes(size)) /\ kept \in Seq(Bytes(size)) /\ got \in Seq(Bytes(size))
           /\ message \in 0 .. Number /\ cursor \in Nat /\ remainSize \in Nat /\ remain \in Nat
           /\ finishedSize \in Nat /\ delivered \in 0 .. Number /\ resumed \in Nat \ {0}
           /\ Current \in Nat \ {0} /\ Whole \in Int /\ breaks \in Nat
           /\ Number \in Nat /\ HeaderSize \in Nat \ {0}
           /\ \A m \in 1 .. Number : size[m] \in Nat
<1>1. StreamTypes
  BY DEF StreamInv
<1>2. size \in Sizes /\ Number \in Nat /\ HeaderSize \in Nat \ {0}
  BY <1>1, MessagesAssumption DEF StreamTypes
<1>3. message \in 0 .. Number /\ delivered \in 0 .. Number /\ resumed \in Nat \ {0}
  BY <1>1 DEF StreamTypes, StreamTypeOK
<1>4. Current \in Nat \ {0} /\ Whole \in Int
  BY <1>2, <1>3 DEF Current, Whole
<1>5. \A m \in 1 .. Number : size[m] \in Nat
  BY <1>2 DEF Sizes
<1>6. breaks \in Nat
  BY <1>1, MessagesAssumption DEF StreamTypes, StreamTypeOK
<1> QED
  BY <1>1, <1>2, <1>3, <1>4, <1>5, <1>6 DEF StreamInv, StreamTypes, StreamTypeOK

\* send() and continue_send().
LEMMA SenderKeeps ==
    ASSUME StreamInv, ~spoilt, Sender
    PROVE  StreamInv'
<1>0. /\ SenderBooks /\ message \in 0 .. Number /\ cursor \in Nat /\ remainSize \in Nat
      /\ Number \in Nat /\ HeaderSize \in Nat \ {0} /\ \A m \in 1 .. Number : size[m] \in Nat
  BY StreamFacts
<1>1. CASE Send
  <2> DEFINE m == message + 1
  <2>1. m \in 1 .. Number /\ message <= m /\ message' = m /\ IsFinish
    BY <1>0, <1>1 DEF Send
  <2>2. size[m] \in Nat
    BY <1>0, <2>1
  <2>3. SendPosition = <<m, 1>> /\ Whole = m - 1
    BY <1>0, <2>1 DEF SendPosition, Whole
  <2>4. Sends(m, 1, Length(m))
    BY <1>1, <2>1 DEF Send
  <2>5. Length(m) \in Nat \ {0} /\ 1 + Length(m) = Length(m) + 1
    BY <1>0, <2>2 DEF Length
  <2>6. UNCHANGED <<recvVars, kept, got, remain, size, mode, delivered, resumed, breaks, spoilt>>
    BY <1>1 DEF Send
  <2> HIDE DEF m
  <2> QED
    BY <2>1, <2>3, <2>4, <2>5, <2>6, SendsKeep
<1>2. CASE ContinueSend
  <2>1. ~IsFinish /\ message > 0 /\ cursor \in Nat \ {0} /\ cursor + remainSize = Length(message) + 1
    BY <1>0, <1>2 DEF ContinueSend, SenderBooks
  <2>2. SenderBooks /\ remainSize \in Nat \ {0}
    BY <1>0, <2>1 DEF IsFinish
  <2>3. message \in 1 .. Number /\ message <= message
    BY <1>0, <2>1
  <2>4. SendPosition = <<message, cursor>> /\ Whole = message - 1
    BY <2>1 DEF SendPosition, Whole
  <2>5. Sends(message, cursor, remainSize) /\ message' = message
        /\ UNCHANGED <<recvVars, kept, got, remain, size, mode, delivered, resumed, breaks, spoilt>>
    BY <1>2 DEF ContinueSend
  <2>6. \E m \in 1 .. Number, from \in Nat \ {0}, rest \in Nat \ {0} :
           /\ from + rest = Length(m) + 1 /\ SendPosition = <<m, from>> /\ Whole = m - 1
           /\ message <= m /\ message' = m /\ Sends(m, from, rest)
    BY <2>1, <2>2, <2>3, <2>4, <2>5
  <2> QED
    BY <2>5, <2>6, SendsKeep
<1> QED
  BY <1>1, <1>2 DEF Sender

\* What was delivered up to now was sent as a whole, if the rest of what has
\* arrived is of later messages that were sent.
LEMMA SentAsWhole ==
    ASSUME StreamInv, ~spoilt, NEW s, Run(size, s, <<Current + 1, 1>>, SendPosition),
           \A i \in DOMAIN s : s[i][1] <= message
    PROVE  Current <= Whole
<1>0. Current \in Nat \ {0} /\ message \in Nat /\ Whole \in Int
  BY StreamFacts
<1>1. CASE s = <<>>
  <2>1. SendPosition = <<Current + 1, 1>>
    BY <1>1 DEF Run
  <2> QED
    BY <1>0, <2>1 DEF SendPosition, Whole
<1>2. CASE s # <<>>
  <2>1. s[1] = <<Current + 1, 1>> /\ 1 \in DOMAIN s
    BY <1>2, EmptySeq, LenProperties DEF Run
  <2>2. Current + 1 <= message
    BY <2>1
  <2> QED
    BY <1>0, <2>2 DEF Whole
<1> QED
  BY <1>1, <1>2

\* When a message is delivered the next one is expected.
LEMMA NextCurrent ==
    ASSUME StreamInv, ~spoilt, delivered' = Current, resumed' = resumed
    PROVE  Current' = Current + 1 /\ Position(size, Current + 1, 0) = <<Current + 1, 1>>
<1>1. Current \in Nat /\ resumed \in Nat /\ delivered \in Nat
  BY StreamFacts
<1>2. Current + 1 > resumed
  BY <1>1 DEF Current
<1>3. Current' = IF Current + 1 > resumed THEN Current + 1 ELSE resumed
  BY DEF Current
<1> QED
  BY <1>2, <1>3 DEF Position

\* Part of the buffer of work() is handled.
LEMMA HandTake ==
    ASSUME StreamInv, ~spoilt, NEW m \in 1 .. Number, NEW n \in Nat,
           Run(size, hand \o wire, Position(size, m, n), SendPosition),
           NEW k \in 0 .. Len(hand), n + k <= HeaderSize + size[m]
    PROVE  /\ FirstBytes(hand, k) = BytesOf(m, n + 1, n + k)
           /\ WithoutFirst(hand, k) \in Seq(Bytes(size))
           /\ Run(size, WithoutFirst(hand, k) \o wire, Position(size, m, n + k), SendPosition)
           /\ \A i \in DOMAIN WithoutFirst(hand, k) : WithoutFirst(hand, k)[i][1] <= message
<1> DEFINE S == Bytes(size)
<1>0. size \in Sizes /\ SentBefore /\ wire \in Seq(S) /\ hand \in Seq(S)
  BY StreamFacts
<1> HIDE DEF S
<1>1. /\ k \in 0 .. Len(hand \o wire)
      /\ FirstBytes(hand \o wire, k) = FirstBytes(hand, k)
      /\ WithoutFirst(hand \o wire, k) = WithoutFirst(hand, k) \o wire
      /\ WithoutFirst(hand, k) \in Seq(S)
  BY <1>0, AheadSplit
<1>2. /\ FirstBytes(hand \o wire, k) = BytesOf(m, n + 1, n + k)
      /\ Run(size, WithoutFirst(hand \o wire, k), Position(size, m, n + k), SendPosition)
  <2> DEFINE u == hand \o wire
             to == SendPosition
             sz == size
  <2>1. k \in 0 .. Len(u) /\ Run(sz, u, Position(sz, m, n), to) /\ sz \in Sizes
        /\ n + k <= HeaderSize + sz[m]
    BY <1>0, <1>1
  <2> HIDE DEF u, to, sz
  <2>2. /\ FirstBytes(u, k) = BytesOf(m, n + 1, n + k)
        /\ Run(sz, WithoutFirst(u, k), Position(sz, m, n + k), to)
    BY <2>1, RunTake
  <2> QED
    BY <2>2 DEF u, to, sz
<1>3. \A i \in DOMAIN WithoutFirst(hand, k) : WithoutFirst(hand, k)[i][1] <= message
  <2> DEFINE l == Len(hand)
             r == SubSeq(hand, k + 1, l)
  <2>1. \A i \in 1 .. l : hand[i][1] <= message
    BY <1>0 DEF SentBefore
  <2>2. l \in Nat /\ k \in Nat /\ k <= l
    BY <1>0
  <2>3. r \in Seq(S) /\ Len(r) = l - k /\ \A i \in 1 .. l - k : r[i] = hand[k + i]
    BY <1>0, <2>2
  <2>4. \A i \in 1 .. l - k : k + i \in 1 .. l
    BY <2>2
  <2> HIDE DEF l, r
  <2>5. \A i \in DOMAIN r : r[i][1] <= message
    BY <2>1, <2>3, <2>4
  <2> QED
    BY <2>5 DEF WithoutFirst, r, l
<1> QED
  BY <1>1, <1>2, <1>3 DEF S

\* More of the header is put behind what is there.
LEMMA HeaderGrows ==
    ASSUME StreamInv, ~spoilt, Machine, recvState = "header", hand # <<>>,
           NEW k \in 0 .. Len(hand), finishedSize + k <= HeaderSize
    PROVE  /\ Current \in 1 .. Number
           /\ Run(size, hand \o wire, Position(size, Current, finishedSize), SendPosition)
           /\ finishedSize + k <= HeaderSize + size[Current]
           /\ FirstBytes(header, finishedSize) \o FirstBytes(hand, k) = BytesOf(Current, 1, finishedSize + k)
           /\ BytesOf(Current, 1, finishedSize + k) \in Seq(Bytes(size))
<1> DEFINE n == finishedSize
           S == Bytes(size)
<1>0. /\ size \in Sizes /\ wire \in Seq(S) /\ hand \in Seq(S) /\ n \in Nat /\ MachineKnows
      /\ Current \in Nat \ {0} /\ Number \in Nat /\ HeaderSize \in Nat \ {0}
      /\ \A m \in 1 .. Number : size[m] \in Nat
  BY StreamFacts
<1>1. /\ n < HeaderSize
      /\ n > 0 => Current <= Number
      /\ FirstBytes(header, n) = BytesOf(Current, 1, n)
      /\ Run(size, hand \o wire, Position(size, Current, n), SendPosition)
  BY <1>0 DEF MachineKnows
<1>2. hand \o wire # <<>>
  <2> HIDE DEF S
  <2> QED
    BY <1>0, ConcatEqualIffEmpty
<1>3. Current \in 1 .. Number
  <2>1. CASE n = 0
    BY <1>0, <1>1, <1>2, <2>1, RunStart
  <2>2. CASE n > 0
    BY <1>0, <1>1, <2>2
  <2> QED
    BY <1>0, <2>1, <2>2
<1>4. size[Current] \in Nat /\ k \in Nat
  BY <1>0, <1>3
<1> HIDE DEF n, S
<1>5. n + k <= HeaderSize /\ n + k \in Nat
  BY <1>0, <1>4 DEF n
<1>6. n + k <= HeaderSize + size[Current]
  BY <1>0, <1>4, <1>5
<1>7. FirstBytes(hand, k) = BytesOf(Current, n + 1, n + k)
  BY <1>0, <1>1, <1>3, <1>6, HandTake
<1>8. BytesOf(Current, 1, n) \o BytesOf(Current, n + 1, n + k) = BytesOf(Current, 1, n + k)
  <2> DEFINE c == n + k
  <2>1. 1 \in Nat \ {0} /\ 1 <= n + 1 /\ n <= c /\ c \in Nat /\ n \in Nat
    BY <1>0, <1>4
  <2> HIDE DEF c
  <2>2. BytesOf(Current, 1, n) \o BytesOf(Current, n + 1, c) = BytesOf(Current, 1, c)
    BY <2>1, BytesJoin
  <2> QED
    BY <2>2 DEF c
<1>9. BytesOf(Current, 1, n + k) \in Seq(Bytes(size))
  <2>1. 1 \in Nat \ {0} /\ 1 <= (n + k) + 1
    BY <1>5
  <2> QED
    BY <2>1, <1>0, <1>3, <1>5, <1>6, BytesOfType
<1> QED
  BY <1>1, <1>3, <1>6, <1>7, <1>8, <1>9 DEF n
-----------------------------------------------------------------------------
\* The actions of the state machine.

\* A step of work() keeps the invariant if it leaves the machine in step.
LEMMA WorkKeeps ==
    ASSUME StreamInv, ~spoilt, Machine,
           UNCHANGED <<channelVars, sendVars, failed, size, mode, resumed, breaks>>,
           header' \in Seq(Bytes(size)), hand' \in Seq(Bytes(size)),
           \A i \in DOMAIN hand' : hand'[i][1] <= message,
           finishedSize' \in Nat, recvState' \in {"header", "body"},
           delivered' \in 0 .. Number, delivered' <= Whole, spoilt' \/ MachineKnows'
    PROVE  StreamInv'
<1> USE DEF channelVars, sendVars
<1>0. StreamTypes /\ SenderBooks /\ SentBefore /\ mode = "machine"
  BY StreamFacts DEF Machine
<1>1. StreamTypes'
  BY <1>0 DEF StreamTypes, StreamTypeOK
<1>2. SenderBooks'
  BY <1>0 DEF SenderBooks, IsFinish, Length
<1>3. SentBefore'
  BY <1>0 DEF SentBefore, Whole, IsFinish
<1>4. ~Reading' /\ mode' = "machine"
  BY <1>0 DEF Reading
<1> QED
  BY <1>1, <1>2, <1>3, <1>4 DEF StreamInv

\* receive() of the channel: bytes move from the wire to the buffer.
LEMMA ReceiveKeeps ==
    ASSUME StreamInv, ~spoilt, Receive
    PROVE  StreamInv'
<1> DEFINE S == Bytes(size)
<1>0. /\ StreamTypes /\ SenderBooks /\ SentBefore /\ MachineKnows
      /\ wire \in Seq(S) /\ hand = <<>> /\ mode = "machine"
  BY StreamFacts DEF Receive, Machine
<1> HIDE DEF S
<1>1. PICK k \in ReceiveResults(Len(wire)) :
         k > 0 /\ hand' = FirstBytes(wire, k) /\ wire' = WithoutFirst(wire, k)
  BY DEF Receive
<1> DEFINE l == Len(wire)
<1>2. l \in Nat /\ k \in Nat /\ 1 <= k /\ k <= l
  <2>1. l \in Nat
    BY <1>0
  <2> HIDE DEF l
  <2>2. k \in 1 .. Least(l, l)
    BY <1>1, <2>1 DEF ReceiveResults, l
  <2> QED
    BY <2>1, <2>2 DEF Least
<1>3. hand' \o wire' = wire /\ hand' \in Seq(S) /\ wire' \in Seq(S)
  <2>1. k \in 0 .. Len(wire)
    BY <1>2
  <2>2. /\ WithoutFirst(wire, k) \in Seq(S) /\ FirstBytes(wire, k) \in Seq(S)
        /\ FirstBytes(wire, k) \o WithoutFirst(wire, k) = wire
    BY <2>1, <1>0, AheadSplit
  <2> QED
    BY <2>2, <1>1
<1>4. hand \o wire = wire
  BY <1>0, ConcatEmptySeq
<1> DEFINE f == SubSeq(wire, 1, k)
           r == SubSeq(wire, k + 1, l)
<1>5. /\ Len(f) = k /\ f \in Seq(S) /\ \A i \in 1 .. k : f[i] = wire[i]
      /\ Len(r) = l - k /\ r \in Seq(S) /\ \A i \in 1 .. l - k : r[i] = wire[k + i]
  BY <1>0, <1>2
<1>6. \A i \in 1 .. l : wire[i][1] <= message
  BY <1>0 DEF SentBefore
<1>7. hand' = f /\ wire' = r
  BY <1>1 DEF FirstBytes, WithoutFirst
<1> HIDE DEF f, r, l
<1>8. /\ \A i \in DOMAIN f : f[i][1] <= message
      /\ \A i \in DOMAIN r : r[i][1] <= message
  <2>1. DOMAIN f = 1 .. k /\ DOMAIN r = 1 .. l - k
    BY <1>5
  <2>2. \A i \in 1 .. k : i \in 1 .. l
    BY <1>2
  <2>3. \A i \in 1 .. l - k : k + i \in 1 .. l
    BY <1>2
  <2> QED
    BY <2>1, <2>2, <2>3, <1>5, <1>6
<1>9. UNCHANGED <<sendVars, recvState, finishedSize, header, failed, kept, got, remain,
                  size, mode, delivered, resumed, breaks, spoilt>>
  BY DEF Receive
<1> USE DEF sendVars
<1>10. StreamTypes'
  BY <1>0, <1>3, <1>9 DEF StreamTypes, StreamTypeOK, S
<1>11. SenderBooks'
  BY <1>0, <1>9 DEF SenderBooks, IsFinish, Length
<1>12. SentBefore'
  BY <1>0, <1>7, <1>8, <1>9 DEF SentBefore, Whole, IsFinish
<1>13. MachineKnows'
  <2>1. Current' = Current /\ SendPosition' = SendPosition /\ hand' \o wire' = hand \o wire
    BY <1>3, <1>4, <1>9 DEF Current, SendPosition, IsFinish
  <2> QED
    BY <2>1, <1>0, <1>9 DEF MachineKnows
<1>14. ~Reading' /\ mode' = "machine"
  BY <1>0, <1>9 DEF Reading
<1> QED
  BY <1>10, <1>11, <1>12, <1>13, <1>14 DEF StreamInv

\* The whole buffer is handled.
LEMMA AllOfHand ==
    ASSUME StreamInv, ~spoilt
    PROVE  /\ FirstBytes(hand, Len(hand)) = hand /\ WithoutFirst(hand, Len(hand)) = <<>>
           /\ Len(hand) \in 0 .. Len(hand) /\ Len(hand) \in Nat
<1> DEFINE S == Bytes(size)
           l == Len(hand)
<1>1. hand \in Seq(S) /\ l \in Nat
  BY StreamFacts
<1> HIDE DEF S
<1>2. SubSeq(hand, 1, l) = hand
  BY <1>1, SubSeqFull
<1> HIDE DEF l
<1>3. l < l + 1 /\ l \in 0 .. l
  BY <1>1
<1>4. SubSeq(hand, l + 1, l) = <<>>
  BY <1>1, <1>3, SubSeqEmpty
<1> QED
  BY <1>1, <1>2, <1>3, <1>4 DEF FirstBytes, WithoutFirst, l

\* handle_header() with a part of the header.
LEMMA HeaderPartKeeps ==
    ASSUME StreamInv, ~spoilt, HandleHeaderPart
    PROVE  StreamInv'
<1> DEFINE k == Len(hand)
           n == finishedSize
<1>0. /\ SentBefore /\ n \in Nat /\ delivered \in 0 .. Number /\ HeaderSize \in Nat
  BY StreamFacts
<1>1. /\ Machine /\ hand # <<>> /\ recvState = "header" /\ n + k < HeaderSize
      /\ header' = FirstBytes(header, n) \o hand /\ finishedSize' = n + k /\ hand' = <<>>
      /\ UNCHANGED <<channelVars, sendVars, recvState, failed, size, mode, delivered, resumed, breaks, spoilt>>
  BY DEF HandleHeaderPart
<1>2. /\ FirstBytes(hand, k) = hand /\ WithoutFirst(hand, k) = <<>>
      /\ k \in 0 .. Len(hand) /\ k \in Nat
  BY AllOfHand
<1> HIDE DEF k, n
<1>3. n + k <= HeaderSize /\ n + k \in Nat
  BY <1>0, <1>1, <1>2
<1>4. /\ Current \in 1 .. Number
      /\ Run(size, hand \o wire, Position(size, Current, n), SendPosition)
      /\ n + k <= HeaderSize + size[Current]
      /\ FirstBytes(header, n) \o FirstBytes(hand, k) = BytesOf(Current, 1, n + k)
      /\ BytesOf(Current, 1, n + k) \in Seq(Bytes(size))
  BY <1>1, <1>2, <1>3, HeaderGrows DEF n
<1>5. Run(size, <<>> \o wire, Position(size, Current, n + k), SendPosition)
  BY <1>0, <1>2, <1>4, HandTake
<1> DEFINE h == BytesOf(Current, 1, n + k)
<1>6. header' = h
  BY <1>1, <1>2, <1>4
<1>7. FirstBytes(h, n + k) = h
  <2> DEFINE b == n + k
  <2>1. 1 \in Nat \ {0} /\ b \in Nat /\ 1 <= b + 1 /\ b - 1 + 1 = b
    BY <1>3
  <2> HIDE DEF b
  <2>2. Len(BytesOf(Current, 1, b)) = b /\ BytesOf(Current, 1, b) \in Seq({Current} \X Nat)
    BY <2>1, BytesOfIs
  <2>3. SubSeq(BytesOf(Current, 1, b), 1, Len(BytesOf(Current, 1, b))) = BytesOf(Current, 1, b)
    BY <2>2, SubSeqFull
  <2> QED
    BY <2>2, <2>3 DEF FirstBytes, b
<1>8. Current' = Current /\ SendPosition' = SendPosition /\ wire' = wire /\ size' = size
  BY <1>1 DEF Current, SendPosition, IsFinish, channelVars, sendVars
<1>9. Current <= Number
  BY <1>4
<1> HIDE DEF h
<1>10. MachineKnows'
  BY <1>1, <1>5, <1>6, <1>7, <1>8, <1>9 DEF MachineKnows, h
<1>11. header' \in Seq(Bytes(size)) /\ hand' \in Seq(Bytes(size)) /\ DOMAIN hand' = {}
  BY <1>1, <1>4, <1>6, EmptySeq DEF h
<1>12. delivered' \in 0 .. Number /\ delivered' <= Whole /\ finishedSize' \in Nat
      /\ recvState' \in {"header", "body"}
  BY <1>0, <1>1, <1>3 DEF SentBefore
<1> QED
  BY <1>1, <1>10, <1>11, <1>12, WorkKeeps

\* A message is delivered when the bytes that are left follow it.
LEMMA Delivers ==
    ASSUME StreamInv, ~spoilt, NEW h \in Seq(Bytes(size)), \A i \in DOMAIN h : h[i][1] <= message,
           Run(size, h \o wire, <<Current + 1, 1>>, SendPosition), Current \in 1 .. Number,
           delivered' = Current, resumed' = resumed
    PROVE  /\ delivered' \in 0 .. Number /\ delivered' <= Whole
           /\ Run(size, h \o wire, Position(size, Current', 0), SendPosition)
<1> DEFINE S == Bytes(size)
           u == h \o wire
           p == Len(h)
           q == Len(wire)
<1>0. wire \in Seq(S) /\ SentBefore /\ h \in Seq(S)
  BY StreamFacts
<1>1. \A i \in 1 .. p : h[i][1] <= message
  BY <1>0
<1>2. \A i \in 1 .. q : wire[i][1] <= message
  BY <1>0 DEF SentBefore
<1>3. p \in Nat /\ q \in Nat
  BY <1>0
<1> HIDE DEF S
<1>4. /\ u \in Seq(S) /\ Len(u) = p + q
      /\ \A i \in 1 .. p + q : u[i] = IF i <= p THEN h[i] ELSE wire[i - p]
  BY <1>0, ConcatProperties
<1> HIDE DEF p, q
<1>5. DOMAIN u = 1 .. p + q
  BY <1>3, <1>4
<1> HIDE DEF u
<1>6. ASSUME NEW i \in 1 .. p + q PROVE u[i][1] <= message
  <2>1. CASE i <= p
    <3>1. i \in 1 .. p /\ u[i] = h[i]
      BY <1>3, <1>4, <1>6, <2>1
    <3> QED
      BY <3>1, <1>1
  <2>2. CASE ~(i <= p)
    <3>1. i - p \in 1 .. q /\ u[i] = wire[i - p]
      BY <1>3, <1>4, <1>6, <2>2
    <3> QED
      BY <3>1, <1>2
  <2> QED
    BY <2>1, <2>2
<1>7. \A i \in DOMAIN u : u[i][1] <= message
  BY <1>5, <1>6
<1>8. Current <= Whole
  BY <1>7, SentAsWhole DEF u
<1>9. Current' = Current + 1 /\ Position(size, Current + 1, 0) = <<Current + 1, 1>>
  BY NextCurrent
<1>10. delivered' \in 0 .. Number
  BY StreamFacts
<1> QED
  BY <1>8, <1>9, <1>10

\* What a step may deliver.
DeliversCurrent == delivered' # delivered => delivered' = Current

\* handle_header() with the rest of the header.
LEMMA HeaderRestKeeps ==
    ASSUME StreamInv, ~spoilt, HandleHeaderRest
    PROVE  StreamInv' /\ DeliversCurrent
<1> DEFINE n == finishedSize
           k == HeaderSize - n
           h == FirstBytes(header, n) \o FirstBytes(hand, k)
           r == WithoutFirst(hand, k)
<1>0. /\ SentBefore /\ n \in Nat /\ delivered \in 0 .. Number /\ HeaderSize \in Nat \ {0}
      /\ \A m \in 1 .. Number : size[m] \in Nat
  BY StreamFacts
<1>1. /\ Machine /\ hand # <<>> /\ recvState = "header" /\ n + Len(hand) >= HeaderSize
      /\ header' = h /\ hand' = r
      /\ \/ /\ size[HeaderMessage(h)] > 0 /\ recvState' = "body" /\ finishedSize' = 0
            /\ UNCHANGED <<delivered, spoilt>>
         \/ /\ size[HeaderMessage(h)] = 0 /\ delivered' = HeaderMessage(h) /\ spoilt' = (n # 0)
            /\ UNCHANGED <<recvState, finishedSize>>
      /\ UNCHANGED <<channelVars, sendVars, failed, size, mode, resumed, breaks>>
  BY DEF HandleHeaderRest
<1>2. n < HeaderSize
  BY <1>1, StreamFacts DEF MachineKnows
<1>3. k \in 0 .. Len(hand) /\ n + k = HeaderSize
  <2> DEFINE l == Len(hand)
  <2>1. l \in Nat /\ n + l >= HeaderSize
    BY <1>1, AllOfHand
  <2> HIDE DEF l
  <2>2. k \in 0 .. l /\ n + k = HeaderSize
    BY <1>0, <1>2, <2>1
  <2> QED
    BY <2>2 DEF l
<1> HIDE DEF n, k, h, r
<1>4. /\ Current \in 1 .. Number
      /\ Run(size, hand \o wire, Position(size, Current, n), SendPosition)
      /\ n + k <= HeaderSize + size[Current]
      /\ h = BytesOf(Current, 1, n + k)
      /\ BytesOf(Current, 1, n + k) \in Seq(Bytes(size))
  <2>1. n + k <= HeaderSize
    BY <1>0, <1>3
  <2> QED
    BY <2>1, <1>1, <1>3, HeaderGrows DEF n, h
<1>5. /\ r \in Seq(Bytes(size)) /\ \A i \in DOMAIN r : r[i][1] <= message
      /\ Run(size, r \o wire, Position(size, Current, HeaderSize), SendPosition)
  BY <1>0, <1>3, <1>4, HandTake DEF r
<1>6. HeaderMessage(h) = Current
  <2>1. BytesOf(Current, 1, HeaderSize)[1] = <<Current, 1>>
    BY <1>0, FirstOfMessage
  <2> QED
    BY <2>1, <1>3, <1>4 DEF HeaderMessage
<1>7. SendPosition' = SendPosition /\ wire' = wire /\ size' = size /\ resumed' = resumed
  BY <1>1 DEF SendPosition, IsFinish, channelVars, sendVars
<1>8. header' \in Seq(Bytes(size)) /\ hand' \in Seq(Bytes(size)) /\ \A i \in DOMAIN hand' : hand'[i][1] <= message
  BY <1>1, <1>4, <1>5
<1>9. CASE size[Current] > 0 /\ recvState' = "body" /\ finishedSize' = 0 /\ UNCHANGED <<delivered, spoilt>>
  <2>1. Current' = Current /\ Current <= Number /\ HeaderMessage(header') = Current
    BY <1>1, <1>4, <1>6, <1>7, <1>9 DEF Current
  <2>2. HeaderSize + 0 = HeaderSize
    BY <1>0
  <2>3. MachineKnows'
    BY <2>1, <2>2, <1>1, <1>5, <1>7, <1>9 DEF MachineKnows, HeaderMessage
  <2>4. delivered' \in 0 .. Number /\ delivered' <= Whole /\ finishedSize' \in Nat
    BY <1>0, <1>9 DEF SentBefore
  <2> QED
    BY <2>3, <2>4, <1>1, <1>8, <1>9, WorkKeeps DEF DeliversCurrent
<1>10. CASE size[Current] = 0 /\ delivered' = Current /\ spoilt' = (n # 0) /\ UNCHANGED <<recvState, finishedSize>>
  <2>1. Position(size, Current, HeaderSize) = <<Current + 1, 1>>
    BY <1>0, <1>10 DEF Position
  <2>2. /\ delivered' \in 0 .. Number /\ delivered' <= Whole
        /\ Run(size, r \o wire, Position(size, Current', 0), SendPosition)
    BY <2>1, <1>4, <1>5, <1>7, <1>10, Delivers
  <2>3. ASSUME n = 0 PROVE MachineKnows'
    <3>1. FirstBytes(header', 0) = <<>>
      BY SubSeqEmpty DEF FirstBytes
    <3>2. BytesOf(Current', 1, 0) = <<>>
      <4>1. 1 .. 0 - 1 + 1 = {}
        OBVIOUS
      <4> QED
        BY <4>1 DEF BytesOf
    <3>3. finishedSize' = 0 /\ recvState' = "header" /\ 0 < HeaderSize /\ ~(0 > 0)
      BY <1>0, <1>1, <1>10, <2>3 DEF n
    <3> QED
      BY <3>1, <3>2, <3>3, <2>2, <1>1, <1>7 DEF MachineKnows
  <2>4. finishedSize' \in Nat /\ recvState' \in {"header", "body"}
    BY <1>0, <1>1, <1>10 DEF n
  <2> QED
    BY <2>2, <2>3, <2>4, <1>1, <1>8, <1>10, WorkKeeps DEF DeliversCurrent
<1> QED
  BY <1>1, <1>6, <1>9, <1>10

\* The machine in the body of a message.
LEMMA InBody ==
    ASSUME StreamInv, ~spoilt, Machine, recvState = "body"
    PROVE  /\ Current \in 1 .. Number /\ finishedSize < size[Current]
           /\ HeaderMessage(header) = Current
           /\ HeaderSize + finishedSize \in Nat
           /\ Run(size, hand \o wire, Position(size, Current, HeaderSize + finishedSize), SendPosition)
<1>1. /\ Current <= Number /\ finishedSize < size[Current]
      /\ HeaderMessage(header) = Current
      /\ Run(size, hand \o wire, Position(size, Current, HeaderSize + finishedSize), SendPosition)
  BY StreamFacts DEF MachineKnows
<1>2. Current \in Nat \ {0} /\ Number \in Nat /\ finishedSize \in Nat /\ HeaderSize \in Nat
  BY StreamFacts
<1> QED
  BY <1>1, <1>2

\* handle_body() with a part of the body.
LEMMA BodyPartKeeps ==
    ASSUME StreamInv, ~spoilt, HandleBodyPart
    PROVE  StreamInv'
<1> DEFINE n == finishedSize
           k == Len(hand)
           c == HeaderSize + n
<1>0. /\ SentBefore /\ n \in Nat /\ delivered \in 0 .. Number /\ HeaderSize \in Nat \ {0}
      /\ header \in Seq(Bytes(size)) /\ \A m \in 1 .. Number : size[m] \in Nat
  BY StreamFacts
<1>1. /\ Machine /\ recvState = "body" /\ n + k < size[HeaderMessage(header)]
      /\ finishedSize' = n + k /\ hand' = <<>>
      /\ UNCHANGED <<channelVars, sendVars, recvState, header, failed, size, mode, delivered, resumed, breaks, spoilt>>
  BY DEF HandleBodyPart
<1>2. WithoutFirst(hand, k) = <<>> /\ k \in 0 .. Len(hand) /\ k \in Nat
  BY AllOfHand
<1> HIDE DEF n, k
<1>3. /\ Current \in 1 .. Number /\ HeaderMessage(header) = Current /\ c \in Nat
      /\ Run(size, hand \o wire, Position(size, Current, c), SendPosition)
  BY <1>1, InBody DEF n
<1>4. n + k < size[Current] /\ n + k \in Nat /\ c + k = HeaderSize + (n + k)
  BY <1>0, <1>1, <1>2, <1>3
<1>5. c + k <= HeaderSize + size[Current]
  BY <1>0, <1>3, <1>4
<1> HIDE DEF c
<1>6. Run(size, <<>> \o wire, Position(size, Current, HeaderSize + (n + k)), SendPosition)
  BY <1>2, <1>3, <1>4, <1>5, HandTake
<1>7. Current' = Current /\ SendPosition' = SendPosition /\ wire' = wire /\ size' = size /\ header' = header
  BY <1>1 DEF Current, SendPosition, IsFinish, channelVars, sendVars
<1>8. MachineKnows'
  <2>1. Current <= Number /\ HeaderMessage(header') = Current
    BY <1>3, <1>7
  <2> QED
    BY <2>1, <1>1, <1>4, <1>6, <1>7 DEF MachineKnows, HeaderMessage
<1>9. header' \in Seq(Bytes(size)) /\ hand' \in Seq(Bytes(size)) /\ DOMAIN hand' = {}
  BY <1>0, <1>1, <1>7, EmptySeq
<1>10. delivered' \in 0 .. Number /\ delivered' <= Whole /\ finishedSize' \in Nat
      /\ recvState' \in {"header", "body"}
  BY <1>0, <1>1, <1>4 DEF SentBefore
<1> QED
  BY <1>1, <1>8, <1>9, <1>10, WorkKeeps

\* handle_body() with the rest of the body: the message is delivered.
LEMMA BodyRestKeeps ==
    ASSUME StreamInv, ~spoilt, HandleBodyRest
    PROVE  StreamInv'
<1> DEFINE n == finishedSize
           k == size[Current] - n
           c == HeaderSize + n
           r == WithoutFirst(hand, k)
<1>0. /\ n \in Nat /\ HeaderSize \in Nat \ {0}
      /\ header \in Seq(Bytes(size)) /\ \A m \in 1 .. Number : size[m] \in Nat
  BY StreamFacts
<1>1. /\ Machine /\ recvState = "body" /\ n + Len(hand) >= size[HeaderMessage(header)]
      /\ hand' = WithoutFirst(hand, size[HeaderMessage(header)] - n)
      /\ delivered' = HeaderMessage(header) /\ recvState' = "header" /\ finishedSize' = 0
      /\ UNCHANGED <<channelVars, sendVars, header, failed, size, mode, resumed, breaks, spoilt>>
  BY DEF HandleBodyRest
<1>2. /\ Current \in 1 .. Number /\ HeaderMessage(header) = Current /\ c \in Nat /\ n < size[Current]
      /\ Run(size, hand \o wire, Position(size, Current, c), SendPosition)
  BY <1>1, InBody
<1>3. size[Current] \in Nat
  BY <1>0, <1>2
<1>4. k \in 0 .. Len(hand) /\ c + k = HeaderSize + size[Current]
  <2> DEFINE l == Len(hand)
  <2>1. l \in Nat /\ n + l >= size[Current]
    BY <1>1, <1>2, AllOfHand
  <2> HIDE DEF l
  <2>2. k \in 0 .. l /\ c + k = HeaderSize + size[Current]
    BY <1>0, <1>2, <1>3, <2>1
  <2> QED
    BY <2>2 DEF l
<1>5. c + k <= HeaderSize + size[Current]
  BY <1>0, <1>3, <1>4
<1>6. hand' = r /\ delivered' = Current
  BY <1>1, <1>2
<1> HIDE DEF n, k, c, r
<1>7. /\ r \in Seq(Bytes(size)) /\ \A i \in DOMAIN r : r[i][1] <= message
      /\ Run(size, r \o wire, Position(size, Current, HeaderSize + size[Current]), SendPosition)
  BY <1>2, <1>4, <1>5, HandTake DEF r
<1>8. Position(size, Current, HeaderSize + size[Current]) = <<Current + 1, 1>>
  BY <1>0, <1>3 DEF Position
<1>9. SendPosition' = SendPosition /\ wire' = wire /\ size' = size /\ header' = header /\ resumed' = resumed
  BY <1>1 DEF SendPosition, IsFinish, channelVars, sendVars
<1>10. /\ delivered' \in 0 .. Number /\ delivered' <= Whole
       /\ Run(size, r \o wire, Position(size, Current', 0), SendPosition)
  BY <1>2, <1>6, <1>7, <1>8, <1>9, Delivers
<1>11. MachineKnows'
  <2>1. FirstBytes(header', 0) = <<>>
    BY SubSeqEmpty DEF FirstBytes
  <2>2. BytesOf(Current', 1, 0) = <<>>
    <3>1. 1 .. 0 - 1 + 1 = {}
      OBVIOUS
    <3> QED
      BY <3>1 DEF BytesOf
  <2>3. 0 < HeaderSize /\ ~(0 > 0)
    BY <1>0
  <2> QED
    BY <2>1, <2>2, <2>3, <1>1, <1>6, <1>9, <1>10 DEF MachineKnows
<1>12. /\ header' \in Seq(Bytes(size)) /\ hand' \in Seq(Bytes(size))
       /\ \A i \in DOMAIN hand' : hand'[i][1] <= message
       /\ finishedSize' \in Nat /\ recvState' \in {"header", "body"}
  BY <1>0, <1>1, <1>6, <1>7, <1>9
<1> QED
  BY <1>1, <1>10, <1>11, <1>12, WorkKeeps

\* work() ends with an error: what follows waits for a new connection.
LEMMA ErrorKeeps ==
    ASSUME StreamInv, ~spoilt, HandleError
    PROVE  StreamInv'
<1> USE DEF channelVars, sendVars
<1>0. StreamTypes /\ SenderBooks /\ SentBefore /\ mode = "machine"
  BY StreamFacts DEF HandleError, Machine
<1>1. /\ recvState' = "header" /\ finishedSize' = 0 /\ hand' = <<>> /\ failed' = TRUE
      /\ UNCHANGED <<channelVars, sendVars, header, size, mode, delivered, resumed, breaks, spoilt>>
  BY DEF HandleError
<1>2. StreamTypes'
  BY <1>0, <1>1, EmptySeq DEF StreamTypes, StreamTypeOK
<1>3. SenderBooks'
  BY <1>0, <1>1 DEF SenderBooks, IsFinish, Length
<1>4. SentBefore'
  BY <1>0, <1>1 DEF SentBefore, Whole, IsFinish
<1>5. ~Reading' /\ ~Machine' /\ mode' = "machine"
  BY <1>0, <1>1 DEF Reading, Machine
<1> QED
  BY <1>2, <1>3, <1>4, <1>5 DEF StreamInv
-----------------------------------------------------------------------------
\* The calls that read a given number of bytes.

\* A step of a caller keeps the invariant if it leaves the caller in step.
LEMMA CallerKeeps ==
    ASSUME StreamInv, ~spoilt, Reading,
           UNCHANGED <<sendVars, finishedSize, hand, failed, size, mode, resumed, breaks, spoilt>>,
           header' \in Seq(Bytes(size)), wire' \in Seq(Bytes(size)),
           kept' \in Seq(Bytes(size)), got' \in Seq(Bytes(size)),
           \A i \in DOMAIN wire' : wire'[i][1] <= message,
           remain' \in Nat, recvState' \in {"header", "readHeader", "readBody"},
           delivered' \in 0 .. Number, delivered' <= Whole, ReaderKnows'
    PROVE  StreamInv'
<1> USE DEF sendVars
<1>0. StreamTypes /\ SenderBooks /\ SentBefore /\ mode # "machine" /\ hand = <<>>
  BY StreamFacts DEF Reading
<1>1. StreamTypes'
  BY <1>0 DEF StreamTypes, StreamTypeOK
<1>2. SenderBooks'
  BY <1>0 DEF SenderBooks, IsFinish, Length
<1>3. SentBefore'
  BY <1>0 DEF SentBefore, Whole, IsFinish
<1>4. ~Machine' /\ ~spoilt' /\ hand' = <<>>
  BY <1>0 DEF Machine
<1> QED
  BY <1>1, <1>2, <1>3, <1>4 DEF StreamInv

\* What a call has read is one string, whichever buffer it is in.
LEMMA ReadJoins ==
    ASSUME StreamInv, ~spoilt, NEW s \in Seq(Bytes(size))
    PROVE  (kept \o got) \o s = kept \o (got \o s)
<1> DEFINE S == Bytes(size)
<1>1. kept \in Seq(S) /\ got \in Seq(S) /\ s \in Seq(S)
  BY StreamFacts
<1> HIDE DEF S
<1> QED
  BY <1>1, ConcatAssociative

\* The next bytes of the stream are put behind what a call has read.
LEMMA ReadGrows ==
    ASSUME StreamInv, ~spoilt, Current \in 1 .. Number, NEW base \in Nat,
           ReadSoFar = BytesOf(Current, base + 1, base + Len(ReadSoFar)),
           Run(size, wire, Position(size, Current, base + Len(ReadSoFar)), SendPosition),
           NEW k \in 0 .. Len(wire), base + Len(ReadSoFar) + k <= HeaderSize + size[Current],
           kept' = kept, got' = got \o FirstBytes(wire, k), wire' = WithoutFirst(wire, k)
    PROVE  /\ ReadSoFar' = BytesOf(Current, base + 1, base + (Len(ReadSoFar) + k))
           /\ Len(ReadSoFar') = Len(ReadSoFar) + k
           /\ Run(size, wire', Position(size, Current, base + (Len(ReadSoFar) + k)), SendPosition)
           /\ got' \in Seq(Bytes(size)) /\ wire' \in Seq(Bytes(size))
           /\ \A i \in DOMAIN wire' : wire'[i][1] <= message
<1> DEFINE S == Bytes(size)
           n == Len(ReadSoFar)
           a == base + 1
           b == base + n
           c == base + (n + k)
           f == FirstBytes(wire, k)
           r == WithoutFirst(wire, k)
<1>0. /\ size \in Sizes /\ wire \in Seq(S) /\ kept \in Seq(S) /\ got \in Seq(S)
      /\ SentBefore /\ HeaderSize \in Nat
  BY StreamFacts
<1> HIDE DEF S
<1>1. n \in Nat
  BY <1>0, ConcatProperties DEF ReadSoFar
<1>2. k \in Nat /\ k <= Len(wire) /\ Len(wire) \in Nat
  BY <1>0
<1> HIDE DEF n
<1>3. /\ a \in Nat \ {0} /\ b \in Nat /\ c \in Nat /\ a <= b + 1 /\ b <= c /\ a <= c + 1
      /\ b + k = c /\ c - a + 1 = n + k
  BY <1>1, <1>2
<1>4. b + k <= HeaderSize + size[Current]
  BY DEF n
<1>5. Run(size, wire, Position(size, Current, b), SendPosition) /\ ReadSoFar = BytesOf(Current, a, b)
  BY DEF n
<1> HIDE DEF a, b, c, f, r
<1>6. f = BytesOf(Current, b + 1, c) /\ Run(size, r, Position(size, Current, c), SendPosition)
  <2> DEFINE to == SendPosition
             sz == size
  <2>1. /\ sz \in Sizes /\ Run(sz, wire, Position(sz, Current, b), to) /\ b + k <= HeaderSize + sz[Current]
        /\ k \in 0 .. Len(wire)
    BY <1>0, <1>4, <1>5
  <2> HIDE DEF to, sz
  <2>2. /\ FirstBytes(wire, k) = BytesOf(Current, b + 1, b + k)
        /\ Run(sz, WithoutFirst(wire, k), Position(sz, Current, b + k), to)
    BY <2>1, <1>3, RunTake
  <2> QED
    BY <2>2, <1>3 DEF f, r, to, sz
<1>7. BytesOf(Current, a, b) \o BytesOf(Current, b + 1, c) = BytesOf(Current, a, c)
  BY <1>3, BytesJoin
<1>8. f \in Seq(S) /\ r \in Seq(S)
  BY <1>0, AheadSplit DEF f, r
<1>9. got' \in Seq(S) /\ kept \o (got \o f) = (kept \o got) \o f
  <2>1. got' = got \o f
    BY DEF f
  <2>2. got \o f \in Seq(S)
    BY <1>0, <1>8, ConcatProperties
  <2>3. (kept \o got) \o f = kept \o (got \o f)
    BY <1>8, ReadJoins DEF S
  <2> QED
    BY <2>1, <2>2, <2>3
<1>10. ReadSoFar' = BytesOf(Current, a, c)
  BY <1>5, <1>6, <1>7, <1>9 DEF ReadSoFar, f
<1>11. Len(BytesOf(Current, a, c)) = n + k
  <2>1. Len(BytesOf(Current, a, c)) = c - a + 1
    BY <1>3, BytesOfIs
  <2> QED
    BY <2>1, <1>3
<1>12. \A i \in DOMAIN r : r[i][1] <= message
  <2> DEFINE l == Len(wire)
             u == SubSeq(wire, k + 1, l)
  <2>1. \A i \in 1 .. l : wire[i][1] <= message
    BY <1>0 DEF SentBefore
  <2>2. l \in Nat /\ k \in Nat /\ k <= l
    BY <1>2
  <2>3. u \in Seq(S) /\ Len(u) = l - k /\ \A i \in 1 .. l - k : u[i] = wire[k + i]
    BY <1>0, <2>2
  <2>4. \A i \in 1 .. l - k : k + i \in 1 .. l
    BY <2>2
  <2> HIDE DEF l, u
  <2>5. \A i \in DOMAIN u : u[i][1] <= message
    BY <2>1, <2>3, <2>4
  <2> QED
    BY <2>5 DEF WithoutFirst, r, u, l
<1> QED
  BY <1>6, <1>8, <1>9, <1>10, <1>11, <1>12 DEF a, b, c, f, r, n, S

\* A call receives k bytes of those it waits for.
LEMMA ReadTakes ==
    ASSUME StreamInv, ~spoilt, Reading, NEW k \in 1 .. Len(wire), k <= remain,
           got' = got \o FirstBytes(wire, k), wire' = WithoutFirst(wire, k), remain' = remain - k,
           UNCHANGED <<kept, sendVars, recvVars, size, mode, delivered, resumed, breaks, spoilt>>
    PROVE  StreamInv'
<1> DEFINE n == Len(ReadSoFar)
           S == Bytes(size)
<1>0. /\ ReaderKnows /\ SentBefore /\ delivered \in 0 .. Number /\ remain \in Nat
      /\ Current \in Nat \ {0} /\ Number \in Nat /\ HeaderSize \in Nat
      /\ size \in Sizes /\ wire \in Seq(S) /\ kept \in Seq(S) /\ got \in Seq(S) /\ header \in Seq(S)
      /\ \A m \in 1 .. Number : size[m] \in Nat
  BY StreamFacts
<1> HIDE DEF S
<1>1. n \in Nat
  BY <1>0, ConcatProperties DEF ReadSoFar
<1>2. k \in Nat /\ k \in 0 .. Len(wire) /\ wire # <<>> /\ remain # 0
  BY <1>0
<1> HIDE DEF n
<1>3. /\ SendPosition' = SendPosition /\ Current' = Current /\ size' = size /\ header' = header
      /\ recvState' = recvState /\ delivered' = delivered
  BY DEF SendPosition, IsFinish, Current, sendVars, recvVars
<1>4. delivered' \in 0 .. Number /\ delivered' <= Whole
  BY <1>0, <1>3 DEF SentBefore
<1>5. remain' \in Nat
  BY <1>0, <1>2
<1>6. CASE recvState = "readHeader"
  <2>1. /\ n + remain = HeaderSize
        /\ n > 0 => Current <= Number
        /\ ReadSoFar = BytesOf(Current, 1, n)
        /\ Run(size, wire, Position(size, Current, n), SendPosition)
    BY <1>0, <1>6 DEF ReaderKnows, n
  <2>2. Current \in 1 .. Number
    <3>1. CASE n = 0
      BY <1>0, <1>2, <2>1, <3>1, RunStart
    <3>2. CASE n > 0
      BY <1>0, <2>1, <3>2
    <3> QED
      BY <1>1, <3>1, <3>2
  <2>3. 0 + 1 = 1 /\ 0 + n = n /\ 0 + (n + k) = n + k /\ n + k \in Nat
    BY <1>1, <1>2
  <2>4. 0 + n + k <= HeaderSize + size[Current]
    <3>1. size[Current] \in Nat
      BY <1>0, <2>2
    <3>2. n + k <= HeaderSize
      BY <1>0, <1>1, <1>2, <2>1
    <3> QED
      BY <3>1, <3>2, <1>0, <1>1, <1>2
  <2>5. /\ ReadSoFar' = BytesOf(Current, 1, n + k) /\ Len(ReadSoFar') = n + k
        /\ Run(size, wire', Position(size, Current, n + k), SendPosition)
        /\ got' \in Seq(S) /\ wire' \in Seq(S) /\ \A i \in DOMAIN wire' : wire'[i][1] <= message
    <3>1. /\ ReadSoFar = BytesOf(Current, 0 + 1, 0 + n)
          /\ Run(size, wire, Position(size, Current, 0 + n), SendPosition)
      BY <2>1, <2>3
    <3>2. /\ ReadSoFar' = BytesOf(Current, 0 + 1, 0 + (n + k)) /\ Len(ReadSoFar') = n + k
          /\ Run(size, wire', Position(size, Current, 0 + (n + k)), SendPosition)
          /\ got' \in Seq(S) /\ wire' \in Seq(S) /\ \A i \in DOMAIN wire' : wire'[i][1] <= message
      BY <1>2, <2>2, <2>4, <3>1, ReadGrows DEF n, S
    <3> QED
      BY <3>2, <2>3
  <2>6. (n + k) + remain' = HeaderSize
    BY <1>0, <1>1, <1>2, <2>1
  <2>7. ReaderKnows'
    <3>1. Current <= Number
      BY <2>2
    <3> QED
      BY <3>1, <2>5, <2>6, <1>3, <1>6 DEF ReaderKnows
  <2> QED
    BY <2>5, <2>7, <1>0, <1>3, <1>4, <1>5, <1>6, CallerKeeps DEF recvVars, S
<1>7. CASE recvState = "readBody"
  <2>1. /\ Current <= Number /\ n + remain = size[Current] /\ HeaderMessage(header) = Current
        /\ ReadSoFar = BytesOf(Current, HeaderSize + 1, HeaderSize + n)
        /\ Run(size, wire, Position(size, Current, HeaderSize + n), SendPosition)
    BY <1>0, <1>7 DEF ReaderKnows, n
  <2>2. Current \in 1 .. Number
    BY <1>0, <2>1
  <2>3. HeaderSize + n + k <= HeaderSize + size[Current]
    BY <1>0, <1>1, <1>2, <2>1, <2>2
  <2>4. /\ ReadSoFar' = BytesOf(Current, HeaderSize + 1, HeaderSize + (n + k)) /\ Len(ReadSoFar') = n + k
        /\ Run(size, wire', Position(size, Current, HeaderSize + (n + k)), SendPosition)
        /\ got' \in Seq(S) /\ wire' \in Seq(S) /\ \A i \in DOMAIN wire' : wire'[i][1] <= message
    BY <1>0, <1>2, <2>1, <2>2, <2>3, ReadGrows DEF n, S
  <2>5. (n + k) + remain' = size[Current]
    <3>1. size[Current] \in Nat
      BY <1>0, <2>2
    <3> QED
      BY <3>1, <1>0, <1>1, <1>2, <2>1
  <2>6. HeaderMessage(header') = Current
    BY <2>1, <1>3
  <2>7. ReaderKnows'
    BY <2>1, <2>4, <2>5, <2>6, <1>3, <1>7 DEF ReaderKnows, HeaderMessage
  <2> QED
    BY <2>4, <2>7, <1>0, <1>3, <1>4, <1>5, <1>7, CallerKeeps DEF recvVars, S
<1> QED
  BY <1>0, <1>2, <1>6, <1>7 DEF ReaderKnows

\* A turn of full_receive(), where it blocks, or of timed_receive().
LEMMA ReadsOnKeeps ==
    ASSUME StreamInv, ~spoilt, ReadsOn, RecvNonblock => mode # "full"
    PROVE  StreamInv'
<1> DEFINE S == Bytes(size)
           l == Len(wire)
<1>0. /\ ReaderKnows /\ SentBefore /\ delivered \in 0 .. Number /\ remain \in Nat
      /\ wire \in Seq(S) /\ kept \in Seq(S) /\ got \in Seq(S) /\ header \in Seq(S) /\ Reading
  BY StreamFacts DEF ReadsOn
<1>1. UNCHANGED <<sendVars, recvVars, size, mode, delivered, resumed, breaks, spoilt>>
  BY DEF ReadsOn
<1> HIDE DEF S
<1>2. l \in Nat
  BY <1>0
<1> HIDE DEF l
<1>3. ASSUME NEW k \in ReceiveResults(remain), k # -1 PROVE k \in 1 .. l /\ k <= remain
  <2>1. k \in 1 .. Least(remain, l)
    BY <1>3 DEF ReceiveResults, l
  <2> QED
    BY <2>1, <1>0, <1>2 DEF Least
<1>4. CASE FullReceiveStep /\ mode = "full"
  <2>1. PICK k \in ReceiveResults(remain) :
           /\ got' = IF k = -1 THEN SubSeq(got, 1, Len(got) - 1) ELSE got \o FirstBytes(wire, k)
           /\ wire' = IF k = -1 THEN wire ELSE WithoutFirst(wire, k)
           /\ remain' = remain - k
           /\ UNCHANGED kept
    BY <1>4 DEF FullReceiveStep
  <2>2. k # -1
    <3>1. ReceiveResults(remain) = 1 .. Least(remain, l)
      BY <1>4 DEF ReceiveResults, l
    <3> QED
      BY <3>1, <1>0, <1>2 DEF Least
  <2>3. k \in 1 .. Len(wire) /\ k <= remain
    BY <2>2, <1>3 DEF l
  <2> QED
    BY <2>1, <2>2, <2>3, <1>0, <1>1, ReadTakes
<1>5. CASE TimedReceiveStep
  <2>1. PICK k \in ReceiveResults(remain) :
           /\ k > 0
           /\ got' = got \o FirstBytes(wire, k) /\ wire' = WithoutFirst(wire, k)
           /\ remain' = remain - k
           /\ UNCHANGED kept
    BY <1>5 DEF TimedReceiveStep
  <2>2. k \in 1 .. Len(wire) /\ k <= remain
    BY <2>1, <1>3 DEF l
  <2> QED
    BY <2>1, <2>2, <1>0, <1>1, ReadTakes
<1>6. CASE TimedReceiveTimesOut
  <2>1. kept' = kept \o got /\ got' = <<>> /\ UNCHANGED <<wire, remain>>
    BY <1>6 DEF TimedReceiveTimesOut
  <2>2. kept \o got \in Seq(S) /\ (kept \o got) \o <<>> = kept \o got /\ <<>> \in Seq(S)
    BY <1>0, ConcatProperties, ConcatEmptySeq, EmptySeq
  <2>3. ReadSoFar' = ReadSoFar
    BY <2>1, <2>2 DEF ReadSoFar
  <2>4. /\ SendPosition' = SendPosition /\ Current' = Current /\ UNCHANGED <<size, header, recvState, delivered>>
    BY <1>1 DEF SendPosition, IsFinish, Current, sendVars, recvVars
  <2>5. ReaderKnows'
    BY <2>1, <2>3, <2>4, <1>0 DEF ReaderKnows, HeaderMessage
  <2>6. recvState' \in {"header", "readHeader", "readBody"}
    BY <2>4, <1>0 DEF ReaderKnows
  <2>7. \A i \in DOMAIN wire' : wire'[i][1] <= message
    BY <2>1, <1>0 DEF SentBefore
  <2>8. delivered' \in 0 .. Number /\ delivered' <= Whole /\ remain' \in Nat
    BY <2>1, <2>4, <1>0 DEF SentBefore
  <2>9. header' \in Seq(Bytes(size)) /\ wire' \in Seq(Bytes(size))
        /\ kept' \in Seq(Bytes(size)) /\ got' \in Seq(Bytes(size))
    BY <2>1, <2>2, <2>4, <1>0 DEF S
  <2> QED
    BY <2>5, <2>6, <2>7, <2>8, <2>9, <1>0, <1>1, CallerKeeps DEF recvVars
<1> QED
  BY <1>4, <1>5, <1>6 DEF ReadsOn

\* A call asks for a header.
LEMMA BeginHeaderKeeps ==
    ASSUME StreamInv, ~spoilt, BeginHeader
    PROVE  StreamInv'
<1>0. /\ ReaderKnows /\ SentBefore /\ delivered \in 0 .. Number /\ Reading /\ HeaderSize \in Nat \ {0}
      /\ wire \in Seq(Bytes(size)) /\ header \in Seq(Bytes(size))
  BY StreamFacts DEF BeginHeader
<1>1. /\ recvState = "header" /\ kept' = <<>> /\ got' = <<>> /\ remain' = HeaderSize /\ wire' = wire
      /\ recvState' = "readHeader"
      /\ UNCHANGED <<sendVars, finishedSize, header, hand, failed, size, mode, delivered, resumed, breaks, spoilt>>
  BY DEF BeginHeader, BeginReceive
<1>2. <<>> \o <<>> = <<>> /\ <<>> \in Seq(Bytes(size)) /\ Len(<<>>) = 0
  BY EmptySeq, ConcatEmptySeq
<1>3. SendPosition' = SendPosition /\ Current' = Current /\ ReadSoFar' = <<>>
  BY <1>1, <1>2 DEF SendPosition, IsFinish, Current, sendVars, ReadSoFar
<1>4. BytesOf(Current, 1, 0) = <<>>
  <2>1. 1 .. 0 - 1 + 1 = {}
    OBVIOUS
  <2> QED
    BY <2>1 DEF BytesOf
<1>5. Run(size, wire, Position(size, Current, 0), SendPosition)
  BY <1>0, <1>1 DEF ReaderKnows
<1>6. 0 + HeaderSize = HeaderSize /\ ~(0 > 0) /\ HeaderSize \in Nat
  BY <1>0
<1>7. ReaderKnows'
  BY <1>1, <1>2, <1>3, <1>4, <1>5, <1>6 DEF ReaderKnows
<1>8. \A i \in DOMAIN wire' : wire'[i][1] <= message
  BY <1>0, <1>1 DEF SentBefore
<1>9. delivered' \in 0 .. Number /\ delivered' <= Whole /\ remain' \in Nat
      /\ recvState' \in {"header", "readHeader", "readBody"}
  BY <1>0, <1>1, <1>6 DEF SentBefore
<1> QED
  BY <1>0, <1>1, <1>2, <1>7, <1>8, <1>9, CallerKeeps

\* A header was read, a call asks for the body.
LEMMA HeaderIsReadKeeps ==
    ASSUME StreamInv, ~spoilt, HeaderIsRead
    PROVE  StreamInv'
<1> DEFINE n == Len(ReadSoFar)
<1>0. /\ ReaderKnows /\ SentBefore /\ delivered \in 0 .. Number /\ Reading /\ HeaderSize \in Nat \ {0}
      /\ wire \in Seq(Bytes(size)) /\ size \in Sizes /\ \A m \in 1 .. Number : size[m] \in Nat
      /\ kept \in Seq(Bytes(size)) /\ got \in Seq(Bytes(size)) /\ Current \in Nat \ {0} /\ Number \in Nat
  BY StreamFacts DEF HeaderIsRead
<1>1. /\ recvState = "readHeader" /\ remain = 0 /\ header' = ReadSoFar
      /\ kept' = <<>> /\ got' = <<>> /\ remain' = size[HeaderMessage(header')] /\ wire' = wire
      /\ recvState' = "readBody"
      /\ UNCHANGED <<sendVars, finishedSize, hand, failed, size, mode, delivered, resumed, breaks, spoilt>>
  BY DEF HeaderIsRead, BeginReceive, ReadSoFar
<1>2. /\ n + 0 = HeaderSize
      /\ n > 0 => Current <= Number
      /\ ReadSoFar = BytesOf(Current, 1, n)
      /\ Run(size, wire, Position(size, Current, n), SendPosition)
  BY <1>0, <1>1 DEF ReaderKnows
<1>3. n \in Nat /\ ReadSoFar \in Seq(Bytes(size))
  BY <1>0, ConcatProperties DEF ReadSoFar
<1> HIDE DEF n
<1>4. n = HeaderSize
  BY <1>2, <1>3
<1>5. Current \in 1 .. Number
  BY <1>0, <1>2, <1>4
<1>6. BytesOf(Current, 1, HeaderSize)[1] = <<Current, 1>>
  BY <1>0, FirstOfMessage
<1>7. HeaderMessage(header') = Current
  BY <1>1, <1>2, <1>4, <1>6 DEF HeaderMessage
<1>8. <<>> \o <<>> = <<>> /\ <<>> \in Seq(Bytes(size)) /\ Len(<<>>) = 0
  BY EmptySeq, ConcatEmptySeq
<1>9. SendPosition' = SendPosition /\ Current' = Current /\ ReadSoFar' = <<>>
  BY <1>1, <1>8 DEF SendPosition, IsFinish, Current, sendVars, ReadSoFar
<1>10. BytesOf(Current, HeaderSize + 1, HeaderSize + 0) = <<>>
  <2>1. 1 .. (HeaderSize + 0) - (HeaderSize + 1) + 1 = {}
    BY <1>0
  <2> QED
    BY <2>1 DEF BytesOf
<1>11. size[Current] \in Nat
  BY <1>0, <1>5
<1>12. 0 + size[Current] = size[Current] /\ Current <= Number /\ HeaderSize + 0 = HeaderSize
  BY <1>0, <1>5, <1>11
<1>13. ReaderKnows'
  BY <1>1, <1>2, <1>4, <1>7, <1>8, <1>9, <1>10, <1>12 DEF ReaderKnows, HeaderMessage
<1>14. \A i \in DOMAIN wire' : wire'[i][1] <= message
  BY <1>0, <1>1 DEF SentBefore
<1>15. delivered' \in 0 .. Number /\ delivered' <= Whole /\ remain' \in Nat
      /\ recvState' \in {"header", "readHeader", "readBody"}
  BY <1>0, <1>1, <1>7, <1>11 DEF SentBefore
<1> QED
  BY <1>0, <1>1, <1>3, <1>8, <1>13, <1>14, <1>15, CallerKeeps

\* A body was read: the message is delivered.
LEMMA BodyIsReadKeeps ==
    ASSUME StreamInv, ~spoilt, BodyIsRead
    PROVE  StreamInv' /\ delivered' = Current
<1> DEFINE n == Len(ReadSoFar)
<1>0. /\ ReaderKnows /\ SentBefore /\ Reading /\ HeaderSize \in Nat \ {0}
      /\ wire \in Seq(Bytes(size)) /\ size \in Sizes /\ \A m \in 1 .. Number : size[m] \in Nat
      /\ kept \in Seq(Bytes(size)) /\ got \in Seq(Bytes(size)) /\ header \in Seq(Bytes(size))
      /\ Current \in Nat \ {0} /\ Number \in Nat /\ hand = <<>>
  BY StreamFacts DEF BodyIsRead
<1>1. /\ recvState = "readBody" /\ remain = 0 /\ delivered' = HeaderMessage(header)
      /\ recvState' = "header" /\ kept' = <<>> /\ got' = <<>>
      /\ UNCHANGED <<sendVars, finishedSize, header, hand, failed, wire, remain, size, mode, resumed, breaks, spoilt>>
  BY DEF BodyIsRead
<1>2. /\ n + 0 = size[Current] /\ Current <= Number /\ HeaderMessage(header) = Current
      /\ Run(size, wire, Position(size, Current, HeaderSize + n), SendPosition)
  BY <1>0, <1>1 DEF ReaderKnows
<1>3. n \in Nat
  BY <1>0, ConcatProperties DEF ReadSoFar
<1> HIDE DEF n
<1>4. n = size[Current] /\ Current \in 1 .. Number /\ delivered' = Current /\ resumed' = resumed
  BY <1>0, <1>1, <1>2, <1>3
<1>5. size[Current] \in Nat
  BY <1>0, <1>4
<1>6. Position(size, Current, HeaderSize + n) = <<Current + 1, 1>>
  BY <1>0, <1>4, <1>5 DEF Position
<1>7. <<>> \o wire = wire /\ <<>> \in Seq(Bytes(size)) /\ DOMAIN <<>> = {}
  BY <1>0, EmptySeq, ConcatEmptySeq
<1>8. /\ delivered' \in 0 .. Number /\ delivered' <= Whole
      /\ Run(size, wire, Position(size, Current', 0), SendPosition)
  <2>1. Run(size, <<>> \o wire, <<Current + 1, 1>>, SendPosition)
    BY <1>2, <1>6, <1>7
  <2>2. \A i \in DOMAIN <<>> : <<>>[i][1] <= message
    BY <1>7
  <2>3. /\ delivered' \in 0 .. Number /\ delivered' <= Whole
        /\ Run(size, <<>> \o wire, Position(size, Current', 0), SendPosition)
    BY <2>1, <2>2, <1>4, <1>7, Delivers
  <2> QED
    BY <2>3, <1>7
<1>9. SendPosition' = SendPosition /\ size' = size /\ wire' = wire /\ header' = header /\ remain' = 0
  BY <1>1 DEF SendPosition, IsFinish, sendVars
<1>10. ReaderKnows'
  BY <1>1, <1>8, <1>9 DEF ReaderKnows
<1>11. \A i \in DOMAIN wire' : wire'[i][1] <= message
  BY <1>0, <1>9 DEF SentBefore
<1>12. remain' \in Nat /\ recvState' \in {"header", "readHeader", "readBody"}
  BY <1>1, <1>9
<1> QED
  BY <1>0, <1>1, <1>4, <1>7, <1>8, <1>9, <1>10, <1>11, <1>12, CallerKeeps
-----------------------------------------------------------------------------
\* A new connection begins with the first message that was not sent as a whole.
LEMMA ReconnectKeeps ==
    ASSUME StreamInv, ~spoilt, Reconnect
    PROVE  StreamInv'
<1>0. /\ StreamTypes /\ SenderBooks /\ SentBefore /\ size \in Sizes /\ header \in Seq(Bytes(size))
      /\ message \in 0 .. Number /\ delivered \in 0 .. Number /\ resumed \in Nat \ {0} /\ breaks \in Nat
      /\ HeaderSize \in Nat \ {0} /\ Number \in Nat
  BY StreamFacts
<1>1. /\ breaks < MaxBreaks /\ breaks' = breaks + 1
      /\ wire' = <<>> /\ kept' = <<>> /\ got' = <<>> /\ remain' = 0
      /\ recvState' = "header" /\ finishedSize' = 0 /\ hand' = <<>>
      /\ message' = Whole /\ cursor' = 1 /\ remainSize' = 0 /\ resumed' = Whole + 1
      /\ UNCHANGED <<header, size, mode, delivered, spoilt>>
  BY DEF Reconnect, Reset, Whole
<1>2. Whole \in 0 .. Number
  BY <1>0 DEF SenderBooks, Whole
<1>3. breaks' \in 0 .. MaxBreaks
  BY <1>0, <1>1, MessagesAssumption
<1>4. <<>> \in Seq(Bytes(size)) /\ <<>> \o <<>> = <<>> /\ DOMAIN <<>> = {}
  BY EmptySeq, ConcatEmptySeq
<1>5. StreamTypes'
  <2>1. Whole + 1 \in Nat \ {0}
    BY <1>2
  <2> QED
    BY <2>1, <1>0, <1>1, <1>2, <1>3, <1>4 DEF StreamTypes, StreamTypeOK
<1>6. SenderBooks' /\ Whole' = Whole
  BY <1>1 DEF SenderBooks, IsFinish, Whole
<1>7. SentBefore'
  <2>1. delivered <= Whole /\ Whole + 1 <= Whole + 1
    BY <1>0, <1>2 DEF SentBefore
  <2> QED
    BY <2>1, <1>1, <1>4, <1>6 DEF SentBefore
<1>8. Current' = Whole + 1
  <2>1. delivered <= Whole /\ delivered \in Nat /\ Whole \in Nat
    BY <1>0, <1>2 DEF SentBefore
  <2>2. Current' = IF delivered + 1 > Whole + 1 THEN delivered + 1 ELSE Whole + 1
    BY <1>1 DEF Current
  <2>3. ~(delivered + 1 > Whole + 1)
    BY <2>1
  <2> QED
    BY <2>2, <2>3
<1>9. SendPosition' = <<Whole + 1, 1>>
  BY <1>1 DEF SendPosition, IsFinish
<1>10. Run(size, <<>>, Position(size, Whole + 1, 0), <<Whole + 1, 1>>)
  <2>1. Position(size, Whole + 1, 0) = <<Whole + 1, 1>>
    BY DEF Position
  <2>2. \A i \in 1 .. Len(<<>>) - 1 : <<>>[i + 1] = After(size, <<>>[i])
    OBVIOUS
  <2> QED
    BY <2>1, <2>2, <1>4 DEF Run
<1>11. BytesOf(Whole + 1, 1, 0) = <<>> /\ FirstBytes(header, 0) = <<>> /\ 0 < HeaderSize /\ ~(0 > 0)
  <2>1. 1 .. 0 - 1 + 1 = {}
    OBVIOUS
  <2> QED
    BY <2>1, <1>0, SubSeqEmpty DEF BytesOf, FirstBytes
<1>12. MachineKnows'
  BY <1>1, <1>4, <1>8, <1>9, <1>10, <1>11 DEF MachineKnows
<1>13. ReaderKnows' /\ hand' = <<>>
  BY <1>1, <1>8, <1>9, <1>10 DEF ReaderKnows
<1> QED
  BY <1>1, <1>5, <1>6, <1>7, <1>12, <1>13 DEF StreamInv

\* Every step keeps the invariant and delivers the message that is expected.
LEMMA StreamStep ==
    ASSUME StreamInv, RecvNonblock => mode # "full", [StreamNext]_streamVars
    PROVE  StreamInv' /\ DeliversCurrent
<1>1. CASE UNCHANGED streamVars
  <2> USE DEF streamVars, channelVars, sendVars, recvVars
  <2>1. SendPosition' = SendPosition /\ Current' = Current /\ ReadSoFar' = ReadSoFar /\ Whole' = Whole
    BY <1>1 DEF SendPosition, IsFinish, Current, ReadSoFar, Whole
  <2>2. StreamTypes'
    BY <1>1 DEF StreamInv, StreamTypes, StreamTypeOK
  <2>3. ~spoilt => SenderBooks' /\ SentBefore'
    BY <1>1, <2>1 DEF StreamInv, SenderBooks, SentBefore, IsFinish, Length
  <2>4. ~spoilt /\ Machine => MachineKnows'
    BY <1>1, <2>1 DEF StreamInv, MachineKnows, HeaderMessage
  <2>5. ~spoilt /\ Reading => hand' = <<>> /\ ReaderKnows'
    BY <1>1, <2>1 DEF StreamInv, ReaderKnows, HeaderMessage
  <2> QED
    BY <1>1, <2>2, <2>3, <2>4, <2>5 DEF StreamInv, Machine, Reading, DeliversCurrent
<1>2. CASE StreamNext
  <2>1. ~spoilt /\ (Sender \/ MachineStep \/ HandleError \/ ReadStep \/ Reconnect)
    BY <1>2 DEF StreamNext
  <2>2. CASE Sender
    <3>1. delivered' = delivered
      BY <2>2 DEF Sender, Send, ContinueSend
    <3> QED
      BY <2>1, <2>2, <3>1, SenderKeeps DEF DeliversCurrent
  <2>3. CASE MachineStep
    <3>1. CASE Receive
      BY <2>1, <3>1, ReceiveKeeps DEF Receive, DeliversCurrent
    <3>2. CASE HandleHeaderPart
      BY <2>1, <3>2, HeaderPartKeeps DEF HandleHeaderPart, DeliversCurrent
    <3>3. CASE HandleHeaderRest
      BY <2>1, <3>3, HeaderRestKeeps
    <3>4. CASE HandleBodyPart
      BY <2>1, <3>4, BodyPartKeeps DEF HandleBodyPart, DeliversCurrent
    <3>5. CASE HandleBodyRest
      <4>1. delivered' = HeaderMessage(header) /\ HeaderMessage(header) = Current
        BY <2>1, <3>5, InBody DEF HandleBodyRest
      <4> QED
        BY <2>1, <3>5, <4>1, BodyRestKeeps DEF DeliversCurrent
    <3> QED
      BY <2>3, <3>1, <3>2, <3>3, <3>4, <3>5 DEF MachineStep
  <2>4. CASE HandleError
    BY <2>1, <2>4, ErrorKeeps DEF HandleError, DeliversCurrent
  <2>5. CASE ReadStep
    <3>1. CASE BeginHeader
      BY <2>1, <3>1, BeginHeaderKeeps DEF BeginHeader, DeliversCurrent
    <3>2. CASE ReadsOn
      BY <2>1, <3>2, ReadsOnKeeps DEF ReadsOn, DeliversCurrent
    <3>3. CASE HeaderIsRead
      BY <2>1, <3>3, HeaderIsReadKeeps DEF HeaderIsRead, DeliversCurrent
    <3>4. CASE BodyIsRead
      BY <2>1, <3>4, BodyIsReadKeeps DEF DeliversCurrent
    <3> QED
      BY <2>5, <3>1, <3>2, <3>3, <3>4 DEF ReadStep
  <2>6. CASE Reconnect
    BY <2>1, <2>6, ReconnectKeeps DEF Reconnect, DeliversCurrent
  <2> QED
    BY <2>1, <2>2, <2>3, <2>4, <2>5, <2>6
<1> QED
  BY <1>1, <1>2

\* The byte that comes next, if there is a place it must be.
LEMMA NextInPlace ==
    ASSUME StreamInv, ~spoilt, NEW m \in 1 .. Number, NEW n \in Nat \ {0}, n < HeaderSize + size[m],
           Run(size, Ahead, Position(size, m, n), SendPosition)
    PROVE  NextByte = <<m, n + 1>>
<1>a. size[m] \in Nat /\ HeaderSize \in Nat
  BY StreamFacts
<1>b. n # HeaderSize + size[m]
  BY <1>a
<1>0. Position(size, m, n) = <<m, n + 1>>
  BY <1>b DEF Position
<1>1. CASE Ahead # <<>>
  BY <1>0, <1>1 DEF NextByte, Run
<1>2. CASE Ahead = <<>>
  <2>1. SendPosition = <<m, n + 1>>
    BY <1>0, <1>2 DEF Run
  <2>2. ~IsFinish
    BY <2>1 DEF SendPosition
  <2> QED
    BY <1>2, <2>1, <2>2 DEF NextByte, SendPosition
<1> QED
  BY <1>1, <1>2

\* The invariant tells what InStep does.
LEMMA StreamInStep == StreamInv => InStep
<1> SUFFICES ASSUME StreamInv PROVE InStep
  OBVIOUS
<1>1. StreamTypeOK
  BY DEF StreamInv, StreamTypes
<1>2. ASSUME Machine, ~spoilt PROVE MachineInStep
  <2> DEFINE n == finishedSize
  <2>0. /\ MachineKnows /\ SenderBooks /\ n \in Nat /\ HeaderSize \in Nat \ {0} /\ message \in Nat
        /\ Current \in Nat \ {0} /\ Number \in Nat /\ \A m \in 1 .. Number : size[m] \in Nat
        /\ hand \o wire = Ahead
    BY <1>2, StreamFacts DEF Ahead
  <2>1. CASE recvState = "body"
    <3>1. /\ Current \in 1 .. Number /\ n < size[Current] /\ HeaderMessage(header) = Current
          /\ Run(size, Ahead, Position(size, Current, HeaderSize + n), SendPosition)
      BY <1>2, <2>0, <2>1, InBody
    <3>2. HeaderSize + n \in Nat \ {0} /\ HeaderSize + n < HeaderSize + size[Current]
      BY <2>0, <3>1
    <3>3. NextByte = <<Current, HeaderSize + n + 1>>
      BY <1>2, <3>1, <3>2, NextInPlace
    <3> QED
      BY <2>1, <3>1, <3>3 DEF MachineInStep
  <2>2. CASE recvState = "header"
    <3>0. /\ n < HeaderSize
          /\ n > 0 => Current <= Number
          /\ FirstBytes(header, n) = BytesOf(Current, 1, n)
          /\ Run(size, Ahead, Position(size, Current, n), SendPosition)
      BY <2>0, <2>2 DEF MachineKnows
    <3>1. CASE n > 0
      <4>1. Current \in 1 .. Number /\ n \in Nat \ {0}
        BY <2>0, <3>0, <3>1
      <4>2. n < HeaderSize + size[Current]
        BY <2>0, <3>0, <4>1
      <4>3. NextByte = <<Current, n + 1>>
        BY <1>2, <3>0, <4>1, <4>2, NextInPlace
      <4>4. NextByte[1] = Current /\ NextByte[2] = n + 1
        BY <4>3
      <4> HIDE DEF n
      <4>5. n > 0 /\ FirstBytes(header, n) = BytesOf(NextByte[1], 1, n)
        BY <3>0, <3>1, <4>4
      <4> QED
        BY <2>2, <4>4, <4>5 DEF MachineInStep, n
    <3>2. CASE ~(n > 0)
      <4>1. n = 0
        BY <2>0, <3>2
      <4>2. Position(size, Current, n) = <<Current, 1>>
        BY <4>1 DEF Position
      <4>3. AtStart(NextByte)
        <5>1. CASE Ahead # <<>>
          BY <3>0, <4>2, <5>1 DEF NextByte, Run, AtStart
        <5>2. CASE Ahead = <<>>
          <6>1. SendPosition = <<Current, 1>>
            BY <3>0, <4>2, <5>2 DEF Run
          <6>2. CASE ~IsFinish
            BY <5>2, <6>1, <6>2 DEF NextByte, SendPosition, AtStart
          <6>3. CASE IsFinish
            <7>1. cursor = 1 \/ (message > 0 /\ cursor = Length(message) + 1)
              BY <2>0, <6>3 DEF SenderBooks
            <7>2. CASE cursor = 1
              BY <5>2, <7>2 DEF NextByte, AtStart
            <7>3. CASE message > 0 /\ cursor = Length(message) + 1
              <8>1. message \in 1 .. Number
                BY <1>2, <7>3, StreamFacts
              <8>2. Length(message) \in Nat
                BY <2>0, <8>1 DEF Length
              <8>3. cursor > Length(message)
                BY <7>3, <8>2
              <8> QED
                BY <5>2, <8>3 DEF NextByte, AtStart
            <7> QED
              BY <7>1, <7>2, <7>3
          <6> QED
            BY <6>2, <6>3
        <5> QED
          BY <5>1, <5>2
      <4> QED
        BY <2>2, <3>2, <4>3 DEF MachineInStep
    <3> QED
      BY <3>1, <3>2
  <2> QED
    BY <2>0, <2>1, <2>2 DEF MachineKnows
<1>3. ASSUME Reading PROVE ReadInStep
  <2> DEFINE n == Len(ReadSoFar)
  <2>a. ~spoilt
    BY <1>3 DEF StreamInv, Reading
  <2>0. /\ ReaderKnows /\ HeaderSize \in Nat \ {0} /\ hand = <<>> /\ wire \in Seq(Bytes(size))
        /\ Current \in Nat \ {0} /\ Number \in Nat /\ \A m \in 1 .. Number : size[m] \in Nat
        /\ kept \in Seq(Bytes(size)) /\ got \in Seq(Bytes(size))
    BY <1>3, <2>a, StreamFacts
  <2>1. Ahead = wire
    BY <2>0, ConcatEmptySeq DEF Ahead
  <2>2. n \in Nat
    BY <2>0, ConcatProperties DEF ReadSoFar
  <2>3. CASE recvState = "header"
    BY <2>3 DEF ReadInStep
  <2>4. CASE recvState = "readHeader"
    <3>0. /\ n + remain = HeaderSize
          /\ n > 0 => Current <= Number
          /\ ReadSoFar = BytesOf(Current, 1, n)
          /\ Run(size, wire, Position(size, Current, n), SendPosition)
      BY <2>0, <2>4 DEF ReaderKnows
    <3> HIDE DEF n
    <3>1. ASSUME n > 0 PROVE ReadSoFar[1][1] = Current
      <4>1. BytesOf(Current, 1, n)[1] = <<Current, 1>>
        BY <2>2, <3>1, FirstOfMessage
      <4> QED
        BY <3>0, <4>1
    <3>2. ASSUME n \in 1 .. HeaderSize - 1 PROVE NextByte = <<Current, n + 1>>
      <4>1. Current \in 1 .. Number /\ n \in Nat \ {0}
        BY <2>0, <3>0, <3>2
      <4>2. n < HeaderSize + size[Current]
        BY <2>0, <3>2, <4>1
      <4> QED
        BY <2>a, <2>1, <3>0, <4>1, <4>2, NextInPlace
    <3>3. n \in 1 .. HeaderSize - 1 => n > 0
      BY <2>0
    <3> QED
      BY <2>4, <3>0, <3>1, <3>2, <3>3 DEF ReadInStep, ReadSoFar, n
  <2>5. CASE recvState = "readBody"
    <3>0. /\ n + remain = size[Current] /\ HeaderMessage(header) = Current
          /\ ReadSoFar = BytesOf(Current, HeaderSize + 1, HeaderSize + n)
      BY <2>0, <2>5 DEF ReaderKnows
    <3> QED
      BY <2>5, <3>0 DEF ReadInStep, ReadSoFar
  <2> QED
    BY <2>0, <2>3, <2>4, <2>5 DEF ReaderKnows
<1> QED
  BY <1>1, <1>2, <1>3 DEF InStep

\* full_receive() on a descriptor that does not block counts "nothing has come"
\* as a byte less, so no caller uses it there.
NoFullReadUnblocked == RecvNonblock => "full" \notin Modes

\* The invariant holds all the time.
LEMMA StreamAlways ==
    ASSUME NoFullReadUnblocked
    PROVE  StreamSpec => [](StreamInv /\ mode \in Modes)
<1>1. StreamInit => StreamInv /\ mode \in Modes
  BY StreamBegins DEF StreamInit
<1>2. StreamInv /\ mode \in Modes /\ [StreamNext]_streamVars => (StreamInv /\ mode \in Modes)'
  <2> SUFFICES ASSUME StreamInv, mode \in Modes, [StreamNext]_streamVars
               PROVE  StreamInv' /\ mode' \in Modes
    OBVIOUS
  <2>1. RecvNonblock => mode # "full"
    BY DEF NoFullReadUnblocked
  <2>2. mode' = mode
    BY DEF StreamNext, Sender, MachineStep, ReadStep, Send, ContinueSend, Receive, HandleHeaderPart,
           HandleHeaderRest, HandleBodyPart, HandleBodyRest, HandleError, BeginHeader, ReadsOn,
           HeaderIsRead, BodyIsRead, Reconnect, streamVars
  <2> QED
    BY <2>1, <2>2, StreamStep
<1> QED
  BY <1>1, <1>2, PTL DEF StreamSpec

\* However the stream is cut, received and begun again, the receiver knows where
\* in which message it is: CRecvMachine::work(), full_receive(), timed_receive().
THEOREM ReceiverInStep ==
    ASSUME NoFullReadUnblocked
    PROVE  StreamSpec => []InStep
<1>1. StreamInv /\ mode \in Modes => InStep
  BY StreamInStep
<1> QED
  BY <1>1, StreamAlways, PTL

\* Every message arrives once and in the order sent, a new connection goes on
\* with the first one that was not sent as a whole.
THEOREM InOrderOnce ==
    ASSUME NoFullReadUnblocked
    PROVE  StreamSpec => DeliveredInOrder
<1>1. StreamInv /\ mode \in Modes /\ [StreamNext]_streamVars
      => [delivered' # delivered =>
            delivered' = IF delivered + 1 > resumed THEN delivered + 1 ELSE resumed]_streamVars
  <2> SUFFICES ASSUME StreamInv, mode \in Modes, [StreamNext]_streamVars
               PROVE  delivered' # delivered =>
                        delivered' = IF delivered + 1 > resumed THEN delivered + 1 ELSE resumed
    OBVIOUS
  <2>1. RecvNonblock => mode # "full"
    BY DEF NoFullReadUnblocked
  <2>2. DeliversCurrent
    BY <2>1, StreamStep
  <2> QED
    BY <2>2 DEF DeliversCurrent, Current
<1> QED
  BY <1>1, StreamAlways, PTL DEF StreamSpec, DeliveredInOrder
=============================================================================
