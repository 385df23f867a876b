# A verification of libmooon

libmooon is a C++ utility library for servers: threads and synchronisation, two
loggers, queues and pools (`src/sys`, `include/mooon/sys`), sockets and epoll
(`src/net`, `include/mooon/net`), strings and containers (`src/utils`,
`include/mooon/utils`), a set of tools built on them (`tools`) and shell scripts
(`shell`).  This directory models the parts of it in which threads, processes and
failures meet, or in which a long sequence of legal calls could go wrong, checks the
models with TLC and proves what matters most with TLAPS.

`PROJECT.json` has the same information for programs: the components, the runs, the
source lines every definition stands for, the hazards and the theorems.

How to repeat a check:

    tlc -workers 2 -config EventQueue.cfg EventQueue.tla
    tlapm EventQueueProofs.tla

## 1. The system

### Queues, loggers, threads

**CArrayQueue** (`include/mooon/utils/array_queue.h`).  State: an array, `_head`,
`_tail`, `_queue_size`.  Operations: `push_back`, `pop_front`, `front`, `is_full`,
`is_empty`.  It refuses nothing and locks nothing: the callers do.  Correct if the
three counters agree after every wrap-around and the cells between head and tail are
the elements in the order they came.

**CEventQueue** (`include/mooon/sys/event_queue.h`) is a blocking bounded queue: a
CArrayQueue, one CLock, one CEvent on which those who wait for data and those who wait
for room both wait, and two counters of waiters.  `push_back` and `pop_front` take the
lock, wait in a loop with a timeout, and broadcast if the counter of the other kind is
positive.  Hard: wake-ups given to the wrong kind, a timeout that races a push, a
woken thread overtaken by a newcomer.  Correct if it behaves as an atomic FIFO, the
counters are exact and nobody sleeps while the queue can serve him.

**CEpollableQueue** (`include/mooon/net/epollable_queue.h`) is a CArrayQueue whose
length is mirrored by bytes in a pipe, so that an epoll loop sees it readable.
`push_back` appends and then writes a byte, under the lock; `pop_front` reads bytes and
takes elements, one or a batch, and signals one waiting push; `close` closes the pipe.
Hard: two representations of one number changed one after the other, a blocking
`write` under a lock, a single signal for several slots.

**CLogger and CLogThread** (`src/sys/logger.cpp`): the asynchronous logger.  Each
logger has a bounded queue of messages, an event on which callers wait for room, a
file and a count of references (of `destroy()` and of the thread, not of the callers); one log thread, created by the first logger and shared
by all, watches their pipes with epoll, takes batches and writes them with `writev`.
`destroy()` queues a message of length zero, waits until the thread has met it, and
stops and joins the thread.  Hard: callers, `destroy()`, registration and the thread's
exit overlap; files fail to open or to take a write; the thread may exit only when all
is written; the logger is freed by whoever lets go of it last.

**CThreadPool, CPoolThread, CThread** (`include/mooon/sys/thread_pool.h`,
`src/sys/pool_thread.cpp`, `src/sys/thread.cpp`).  `create` makes the objects and then
starts the threads; each sleeps until `activate`/`wakeup`, then runs; `get_next_thread`
deals them out in turn; `destroy` stops, joins and releases them from the last to the
first.  Hard: a wake-up or a stop that arrives before, during or after the thread goes
to sleep, a start that fails half-way, counts of references shared with a thread that
is exiting.

**CSafeLogger** (`src/sys/safe_logger.cpp`, with `FileLocker` and `CReadWriteLock`):
the synchronous logger that many threads of many processes share.  A process has one
descriptor; a thread dups it, writes its line, and if the file has become too large
takes a lock file, opens the path again, rotates what is there if that is too large as
well, and gives the process the new descriptor.  Hard: several threads and processes
find the same file too large, a process keeps a descriptor of a file that has been
renamed, a crash between two renames, an `open`, `write`, `rename` or `flock` that
fails.

**CSimpleLogger** (`include/mooon/sys/simple_logger.h`): the same for processes of one
thread, in one header.  Its rotation opens the new file in another way than everybody
else does, which is what its model is about.

### Lists and pools

**CListQueue and CTimeoutManager** (`include/mooon/utils/list_queue.h`,
`timeout_manager.h`).  An intrusive doubly linked list, whose membership test is a
non-NULL `_prev`, and a manager that keeps objects in the order they were last heard of
and takes from the front those that are over.  Operations: `push`, `remove`, `update`,
`pop_front`, `set_timeout_seconds`, `check_timeout`, and its callback, which may call
the others on the list that is being walked.  Hard: exactly that, and a caller whose
clock lags.  Correct if the links, the tail and the number stay one sequence, an object
that is over is found, and the walk ends.

**CRawMemPool, CThreadMemPool** (`src/sys/mem_pool.cpp`): buckets of one size.  A stack
of free buckets, a bitmap of those that are out, a count of those available, and the
heap when the stack is empty.  **CRawObjectPool, CThreadObjectPool**
(`include/mooon/sys/object_pool.h`): objects in a CArrayQueue, each with a flag, and
again the heap.  Hard: giving back twice, and telling what is the pool's from what is
the heap's.  Correct if both are the same abstract thing, a pool of resources that are
free or lent and never both.

### Network

**CDataChannel, CSendMachine, CRecvMachine** (`src/net/data_channel.cpp`,
`include/mooon/net/send_machine.h`, `recv_machine.h`).  The channel has a descriptor
and calls that receive or send once, until done, or until a timeout.  The machines keep
how far into which message they are.  Hard: bytes cut anywhere, several messages in
one buffer, refusals by callbacks, a connection that breaks in the middle.  Correct if
the receiver always knows where in the stream it is, and everything sent is handled,
once and in order.

**CEpollable, CSensor, CEpoller; CTcpClient, CTcpWaiter, CListener, CListenManager**
(`src/net/epoller.cpp`, `sensor.cpp`, `tcp_client.cpp`, `listener.cpp`, ...).  An object
has a descriptor and remembers in `_epoll_events` what epoll watches for it; an epoller
has the epoll descriptor and a sensor, a pipe by which another thread wakes it.  A client
is unestablished, establishing or established.  Hard: the ways a connect ends, half-way
failures, descriptor numbers that mean something else by now, two records (the object's
and the kernel's) of what is watched.  Correct if every descriptor has one owner, the
two records agree, and every attempt and every wake-up is answered.

### Processes

**main_template, CMainHelper, CSignalHandler** (`src/sys/main_template.cpp`,
`signal_handler.cpp`): a parent forks a child, waits for it and forks again after a
fatal signal; the child runs `init`, `run`, `fini` of a helper and has a thread that
takes signals synchronously.  **ForkSynchronizer** (`include/mooon/sys/
fork_synchronizer.h`): a child reports to its parent over a pipe that it has started.
Hard: a signal before, during or after any step of init and fini, a thread that is
joined while it waits for a signal, a report that races a timeout or the child's end.
Correct if fini runs once and last, only a crash brings a child back, a stop is heeded, fini returns, and the parent is
told, and told the truth.

**redis_queue_mover, queue_redis2redis** (`tools`): programs whose threads pop values
from redis lists and push them to others.  Hard: calls without an answer, which may
have been executed; kills with values in memory; a stop that comes during start, a
retry or the wait for the signal thread.  Correct if every value is accounted for, a
list stays in order and a stop ends the process.

### How the parts use each other

CEventQueue, CEpollableQueue and the object pool own a CArrayQueue; CTimeoutManager
owns a CListQueue; CThreadPool owns CPoolThreads, each of which owns a CThread; the
machines work on what a CDataChannel carries, which a CTcpClient or CTcpWaiter owns; a
CEpoller watches CEpollables (queues, listeners, clients, its sensor) and gives them
back to its caller; CMainHelper creates a CSafeLogger and a signal thread over
CSignalHandler; queue_redis2redis is a CMainHelper, redis_queue_mover does the same by
hand.

### Not modelled

| Part | Why |
|---|---|
| CThreadEngine, CTimeThread | a constructor for each number of arguments around one `pthread_create`, and a thread with a flag and a sleep; where `join()` matters, in CMainHelper and the movers, it is modelled there |
| CLock, CEvent, CReadWriteLock, CSysVSemaphore, atomics | wrappers of pthread, `semop` and the compiler; the models use what they do inside the components that call them |
| shell scripts | what `process_monitor.sh` decides depends on the text of `ps`, its own two lines in it included; the others print or install |
| Tokener, argument parser, conversions, histogram, strings | sequential functions of their arguments that ordinary tests reach |
| Kafka, ZooKeeper, Thrift, libssh2, curl, MySQL, SQLite wrappers | the behaviour is the library's; what is left are conversions of arguments |
| Cryptography and digests | byte arithmetic of published algorithms |
| Files, directories, memory maps, shared memory, libraries, system information | one system call each, stateless |
| Command-line tools | sequential programs around the wrappers |
| Generated Thrift code | generated; it is a quarter of the lines under `src/` |

## 2. The modules

| Module | Models | Extends or instantiates |
|---|---|---|
| ArrayQueue | CArrayQueue, as operators on a record | |
| BoundedFifo | what a blocking bounded queue promises (abstract) | |
| EventQueue | CEventQueue, shown to implement BoundedFifo | ArrayQueue; BoundedFifo |
| EpollableQueue | CEpollableQueue with its pipe | ArrayQueue |
| AsyncLogger | CLogger, CLogThread | |
| ThreadPool | CThreadPool, CPoolThread, CThread | |
| RotatedFiles | a log file, its backups and the lock file | |
| SafeLogger | CSafeLogger, FileLocker, several processes | RotatedFiles |
| SimpleLogger | CSimpleLogger, several processes | RotatedFiles |
| ListQueue | CListQueue, as operators on a record of links | |
| TimeoutManager | CTimeoutManager and its callbacks | ListQueue |
| ResourcePool | what a pool of resources promises (abstract) | |
| MemPool | CRawMemPool, CThreadMemPool, shown to implement ResourcePool | ResourcePool |
| ObjectPool | CRawObjectPool, CThreadObjectPool, shown to implement it too | ArrayQueue; ResourcePool |
| DataChannel | recv, send, full_receive, timed_receive over a connection | |
| MessageStream | CSendMachine, CRecvMachine and their peers without machine | DataChannel |
| Epoller | CEpollable, CSensor, CEpoller over a process's descriptors | |
| Connection | CTcpClient, CTcpWaiter, CListener, CListenManager | Epoller |
| Supervisor | main_template, CMainHelper, CSignalHandler | |
| ForkSynchronizer | ForkSynchronizer | |
| RedisLists | the lists, and a client whose calls may stay without answer | |
| QueueMover | redis_queue_mover | RedisLists |
| RedisToRedis | queue_redis2redis | RedisLists |
| ArrayQueueProofs | theorems about the ring | ArrayQueue |
| EventQueueProofs, EpollableQueueProofs | theorems about the two queues | EventQueue, EpollableQueue; ArrayQueueProofs |
| ContainerProofs | theorems about the list and the two pools | MCContainers, ArrayQueueProofs |
| NetworkProofs | theorems about descriptors and what epoll watches, and about the stream of messages | Connection, MessageStream |
| LifecycleProofs | theorems about the pool of threads, and about the supervised process and its report | MCLifecycle |
| LoggerProofs | theorems about the logger many processes share and about the asynchronous one | SafeLogger, AsyncLogger |
| MoversProofs | theorems about the movers | MCMovers |

EventQueue, EpollableQueue, AsyncLogger and SimpleLogger are run as they are;
MCSafeLogger gives SafeLogger the functions of its instances.  The others are run one
part at a time in one configuration, which a variable of the MC module chooses in the
first state: MCContainers is a TimeoutManager, a MemPool or an ObjectPool, MCNetwork a
Connection or a MessageStream, MCLifecycle a ThreadPool or a Supervisor beside a
ForkSynchronizer, MCMovers either of the two movers.  The part that is not chosen stands
still, and the liveness properties ask nothing of it.

Conventions.  A step is what no other thread or process can see half done: a critical
section under one lock, or one system call where no lock is held.  When a lock is held
across something that blocks (CEpollableQueue's `write`) or between system calls
(the loggers' lock file) the lock is a variable.  A wait on a condition variable is
three steps: the lock is released, somebody wakes the thread (or its timeout, or the
system for no reason, which POSIX allows), the thread has the lock again; others run between any two.
Variables and actions have the names of the fields and methods they stand for, without
the underscore.  A definition that begins "Mutant of" in its comment is the same action
with a plausible mistake in it; nothing uses it but the check that a property notices
the mistake.

### EventQueue

`rawQueue`, `popWaiterNumber`, `pushWaiterNumber` are the fields; `pc` says where in its
call a thread is, `elem` and `ok` are its argument and its result.  `CallPushBack` and
`CallPopFront` begin a call, `PushBackEnqueues`, `PushBackWaits`, `PushBackRefused` and
their three counterparts are the critical section with its three ways out, `TimesOut`
and `WakesSpuriously` end a wait.  `Contents(rawQueue)` is the refinement mapping: the
ring read from `_head`.  Timeouts take no time; they may come whenever a thread waits.

### EpollableQueue

As above, with `lock`, `pipe` (a number of bytes) and `open`.  `PushBackEnqueues` puts
the element into the ring and keeps the lock; `WriteByte` needs room in the pipe, or a
closed one, which throws.  `PopFrontTakes` takes between one and `BatchMax` elements and
signals one waiter, chosen by the system.  `Close` may come at any time.

### AsyncLogger

Messages are numbered as the queue accepts them, so the file is a sequence of numbers.
`life[l]` is how far `create()` and then `destroy()` of a logger have come; `thread`,
`stop`, `logNumber`, `signals` and `ready` are the log thread's, `doing` and `target`
the callers'.  `Total` sums a number over the loggers: `Logged` is what was accepted,
`Queued` what waits in all the queues, which `_log_number` counts.  The thread polls,
handles the loggers epoll named one after another, and exits when it is stopped and
`_log_number` is zero.  A failed `open` or `writev` closes the file and unregisters the
logger, as in the code.  `Together` and `QuietDestroy` say how the class is used:
several loggers at a time or one after another, and whether `destroy()` begins only when
no call waits for room.  A call is inside `do_log()` from `doing[p] = "log"` on, before it
has the lock of the queue, and nothing in the code counts it.

### ThreadPool

One client creates, wakes, deals and destroys; the threads run in between.  `object`
and `refs` are the memory (a CPoolThread, the count of its CThread), `state` and `stop`
the fields of CThread that sleep, wake-up and stop share, `pending`, `woken` and
`handed` history.  A wait may end by itself at any time, and `do_millisleep()` returns
then, because it waits under an `if` (thread.cpp:177).  `stop()` is two steps, because it raises `_stop` before it takes the
lock.

### RotatedFiles, SafeLogger, SimpleLogger

Files are numbered as they are created; a descriptor is the number of the file it was
opened on, `name[i]` the file that is called `log.i` (`log` for 0), `content[f]` its
lines.  `write_log()` of CSafeLogger is nine steps: dup, write, fstat, flock, open,
fstat, the renames one by one, open, and the exchange of `_log_fd`.  `MaxErrors` bounds
crashes and failing calls.  What may fail: the write, the lock file (which the code
ignores), either open, and in `rotate_log()` each `access`, `rename` or `unlink`
(`ShiftBackupFails`, `RotateCurrentFails`), after which the loop goes on to the next
backup and renames it over the one that stayed, or the path is opened again and is the
old file.  Two files are told apart by their numbers, so what a rename writes over shows.
`print()` of CSimpleLogger is the same, failing renames too, with a writing offset for
each process, which is `None` for a descriptor that appends.

### ListQueue, TimeoutManager

A list is a record of `next`, `prev`, `tail` and `number`; `Walk` reads the sequence it
is, `LinksAgree` says that all its parts describe that sequence.  `check_timeout()` is
`CheckTimeout` (the caller's clock may be one behind), `TakesFront` for each object that
is over, and `CheckEnds`; between `TakesFront` and `HandlerReturns` the callback may
make any number of calls.  `displaced` remembers the objects that were pushed while they
were queued, which `push()` gives a new time and not a new place.

### ResourcePool, MemPool, ObjectPool

The abstract pool has what it owns, what is free and what is lent.  MemPool keeps the
stack, its top, the count, the bitmap and the address of the last bucket as they are in
the code, and tells its memory from the heap's by the same comparisons; callers reclaim
what they hold, what they gave back, and any other address between the first bucket and
the end of the last one (`ReclaimMem`).  The test ends at `_stack_top`, which is where the
last bucket begins (mem_pool.cpp:121): what lies inside that bucket goes the way of the
heap's memory, into `memDeleted`.  ObjectPool has the
ring of CArrayQueue, the flag of each object and the count.  Either is mapped to
ResourcePool by the set of what its stack or ring holds.

### DataChannel, MessageStream

A byte is a pair of message and position, so that any loss, repetition or displacement
shows.  `ReceiveResults` and `SendResults` are what the socket calls may return for what
is on the wire, which gives every cut.  The sender is CSendMachine (`message`,
`cursor`, `remainSize`); the receiver is, by `mode`, a CRecvMachine, or a caller of
`full_receive()` or `timed_receive()`.  `Reconnect` is a connection that breaks: both
sides reset, and the sender begins its unfinished message again.

### Epoller, Connection

Descriptors are numbers and the kernel gives the lowest that is free, so that a stale
number soon means another thing.  `watch` is what the kernel watches, `events` what the
object believes.  `async_connect()` is one action for each of its ends (at once, pending,
failed, refused by `before_connect()`), because its result depends on `errno`, which
other calls set; `timed_connect()` one for success and one for failure.  The network
answers (`Answer`) and closes (`PeerCloses`); `HandleClient` is what a caller does with a
client epoll reported.  `asked` is 1 while an attempt owes its callback, and `silent`
marks a client whose `socket()` failed (`AsyncSocketFails`): that one throws and calls
nothing back.  `lost` holds the sockets that a failing `async_connect()` leaves open.

### Supervisor, ForkSynchronizer

`parent`, `child` and `thread` are where the three are, `kind` which of the two ways a
helper is stopped: a CMainHelper by its own signal thread, another IMainHelper by an exit
signal.  A signal to the child ends it if it comes before `block_signal()` and is pending
once after that.  The pipe of ForkSynchronizer is a sequence of results with two writing
ends; its parent may time out and call again, and its child may end with or without a word.

### RedisLists, QueueMover, RedisToRedis

A list is a sequence of values; an `rpop` or `lpush` without an answer was executed or
was not.  `hand[t]` is what a thread popped and has not pushed, `lost` what is gone with
an answer, a kill, or a stop that drops it, `again[v]` how many pushes of a value stayed
without an answer.  QueueMover has the main, signal, statistics and moving threads;
RedisToRedis the movers, `on_init()` that starts them and `on_terminated()` that stops
them one by one.

## 3. The runs

| Run | Instance | Distinct states | Shows |
|---|---|---|---|
| eventqueue | a producer, a consumer, a thread that is both; ring of two; two values; one spurious wake-up | 193,644 | types; exact waiter counters; no stranded waiter; implements BoundedFifo; calls return |
| epollable | two patient pushers, one impatient, a popper of batches of two; ring and pipe of two | 198,056 | pipe and ring agree; free slots are owed to signalled pushers |
| epollable_blocks | a ring of two and a pipe of one | | violated: a push blocks with the lock held and keeps out the pop that would end it |
| logger | two loggers one after another, three callers, queue and batch of two, four messages, one failure | 197,535 | lines in order, once; every call and destroy returns |
| logger_racing | two loggers that share the thread, three callers that may wait as `destroy()` begins, four messages, one failure | 2,243,245 | freed by the last of those that hold a reference; all written at the thread's exit |
| lifecycle | two pools of up to two threads, one start may fail, three deals. Or three forks, four signals, both kinds, and a child that reports | 222,120 | no lost wake-up; objects outlive threads and are gone after destroy; destroy returns; a woken thread runs. fini once and last; a stop is heeded; fini returns; only a crash brings a child back; the report is true and arrives |
| safe_logger | a process of two threads, one of one; four backups; files of one line; four lines; one failure or crash | 395,759 | no file is given up too early or grows without bound; thread order; calls return |
| simple_logger | two processes, five lines, no failure | | violated: lines are written over others |
| containers | three timed objects, a clock of five, timeouts of 0 and 1; four buckets of two addresses and four objects, one of each from the heap | 211,437 | the links stay one ordered sequence; nothing overdue is missed; checks end; the pools' books agree, and both implement ResourcePool |
| network | a client, two listeners, a waiter, the sensor; five descriptors; one wake-up, two attempts, one lost socket. Or three messages, header of two bytes, bodies of 0 to 2, three bytes on the wire, one break; machine, full, timed | 737,013 | one owner for each descriptor; the kernel watches what objects believe; connects are answered, with one callback; wake-ups are heard. The receiver is in step; messages arrive once and in order; all are handled |
| movers | two threads, one or two lists, three values in batches of two, two calls without answer, a SIGKILL, a SIGTERM | 376,699 | every value accounted for; order; a stop ends the process |
| relay_stop | as movers, without failures | | violated: a SIGTERM during the start does not end the process |

Why the bounds are enough.  The hazards of a queue need a full and an empty ring, a
wrap-around (three pushes on two cells), a waiter of each kind at the same time and a
third thread that overtakes one that was woken; three threads with one that plays both
parts have all of these.  Two values tell a swapped order.  In the epollable queue two
sleeping pushers, a third that takes the slot, and a batch that frees two slots are what
a single signal can get wrong.  The logger needs a queue that fills (two), a batch
smaller than what is queued, three callers of which two can wait, and a second logger
after the first so that state left behind by the first would show.  A pool of two has a
last and a first thread, and a second pool after it what `_next_thread` leaves behind.
Two loggers on one thread and three callers, in the run of the races, are one to destroy
while the other goes on, a call that waits, one inside `do_log()` and one that is served.
In SafeLogger four lines and a size of zero rotate three times; three threads are the
least in which two of one process and one of another find the same file too large, and
four backups make the loop of renames turn and leave room in it for the hole of a crash
or the backup that a failed rename left.  Two threads with three failures and six lines,
and every number of backups from none to four, were checked as well.  A list of three has a first, a middle and a last node to remove; five seconds let
an object be over, be put back and be over again.  Four buckets can be given back in any
order, with the first, whose bit the bitmap has from the start, among them.  Headers of
two bytes and bodies of two can be cut in the middle, three bytes on the wire hold the
end of one message and the start of the next, and three messages have one that comes
after an empty one.  Five descriptors are one too few for everything at once, so that
`socket`, `accept` and `create` run out, and few enough that numbers are used again.
Three forks have a crash after a restart; four signals a stop, a second stop, a crash
and a kill of the parent.  Three values in batches of two leave a short batch, and two
unanswered calls a push that is repeated twice.

These constants bound what the program leaves unbounded, and stand in guards:
`MaxSpurious`, `MaxLogs`, `MaxErrors`, `MaxThreads`, `MaxRounds`, `MaxFailures`,
`MaxHanded`, `MaxLines`, `MaxStarts`, `BatchMax`, `MaxTime`, `MaxBuckets`, `MaxHeap`,
`MaxHeapObjects`, `Number`, `MaxBreaks`, `MaxTouches`, `MaxCreates`, `MaxAttempts`,
`MaxLost`, `MaxForks`, `MaxSignals`, `NumValues`, `MaxKills`, `MaxTerms`.
`CHECK_DEADLOCK FALSE` is set where the system really may stop: the loggers when their
lines are written, the stream when everything has arrived, the supervisor and the
movers when their processes have ended.  In epollable_blocks it is set because the
deadlock is what the property shows, by its name and not by TLC's.

### The properties worth explaining

* `NoStrandedWaiter` (EventQueue).  A popper blocked in the wait sees an empty queue, a
  pusher a full one.  It holds because both kinds broadcast, and because the counters
  that suppress a broadcast are exact (`WaiterNumbersExact`); signalling one waiter
  instead breaks it, since the one may be of the wrong kind.
* `FreeSlotsAreOwed` (EpollableQueue).  Here one waiter is signalled, and a batch frees
  several slots with a signal for each; the property is that slots never outnumber the
  signalled pushers while somebody still sleeps.
* `PushBackDoesNotBlock` (EpollableQueue) is what the header promises of a push that does
  not wait, beside a pop that is there to make room.  `push_back()` holds the lock across
  `write()`, so it is only true of a queue whose pipe never fills; the run that violates it
  has a pipe of one byte and a ring of two, as a queue of 65,537 would have.
* `LinesInOrder` (AsyncLogger).  What is in the file, lost to a reported error or still
  queued are the accepted messages, once each and in order, across batches that end in
  a message of length zero and files that fail.  `CallsReturn`: `destroy()` may wait for
  room like any caller, and the thread must come by once more to let it go.
* `FreedByLastHolder` (AsyncLogger).  The count of references is back to zero only when
  `destroy()` has let go and the thread neither watches the logger nor has it among what
  `epoll_wait` returned.  It is stated of those who hold a reference, with calls that race
  with `destroy()` and loggers that share the thread.  A call inside `do_log()` holds none,
  so nothing of the kind is true of it (`NotFreedUnderCall`, below).
* `AllWrittenAtExit` (AsyncLogger).  The thread leaves when it is stopped and `_log_number`
  is not positive.  Over all the orders in which calls raise that number, batches and
  removals lower it, and a `destroy()` stops a thread that other loggers use, what is
  queued for the loggers the thread watches is never more than the number says.
* `ObjectsOutliveThreads` (ThreadPool).  The thread gives up its reference at its very
  end; the pool may not have freed either object before.
* `GivenUpForNewer` (SafeLogger).  A file is given up early if it loses its last name
  before as many newer files are full as backups are kept.  A second rotation of the same
  file, or a rename that starts at the wrong end, would do that; the property is that
  there are never more such files than there were crashes and failing calls.  A failed
  rename leaves a backup that the next turn of the loop writes over; a crash between two
  renames leaves a hole among the backups, which the loop moves to older numbers and never
  closes, and with a hole the oldest file goes one rotation early; a file that could not be
  renamed keeps its name, grows by another line of each thread, and is rotated again.  It is
  stated for the executions in which the lock file could be locked: `write_log()` does
  not ask whether it was, and without that condition TLC finds two rotations at once.
* `ThreadOrder` (SafeLogger).  All lines of a thread are found in the order it wrote
  them, though every thread that found a file too large replaces `_log_fd`.
* `NothingOverdue` (TimeoutManager).  Only the front is looked at, so the order of the
  list must be the order of time in spite of callbacks; the property says what the one
  exception is.  `CheckReturns` rests on "over" being strict: with `<=` a callback that
  puts its object back would keep the walk going.
* `MemImplementsPool` (MemPool).  The pool implements ResourcePool though callers pass any
  address in it, and what `reclaim()` deletes of its own memory lies inside the last
  bucket (`DeletedInLast`): that edge of its test is the one exception, below.
* `InStep` (MessageStream).  The next byte the machine expects is the next byte of the
  stream, wherever it was cut.  It is stated as long as no empty message had its header
  cut, see below.
* `OwnedOnce` (Connection).  The open descriptors are exactly those of the objects, the
  epoller and its pipe, each once, and what a data channel would read is its client's own
  descriptor: no double close and no stale number, on any way a connect or a listen fails.
* `WatchedAsRecorded` (Epoller).  `set_events()` decides from the object's record whether
  to add, to change or to do nothing; a record that outlives its descriptor turns the next
  registration into nothing, and `ConnectAnswered` would then fail.
* `ConnectAnswered` (Connection).  A pending connect that epoll watches ends, and every
  attempt is answered by one callback and no more, on each of the ways it can go on
  (`CallbacksOwed`).  An attempt whose `socket()` fails is not: see below.
* `StopIsHeeded`, `FiniReturns` (Supervisor).  `fini()` looks at `_stop` and sends itself
  the signal its own thread waits for, while that thread is anywhere between two looks at
  `_stop` and another SIGTERM may be on its way.  Both hold because a signal that comes
  early stays pending.
* `BroughtBackAfterCrash` (Supervisor).  Whatever signals meet parent and child in whichever
  phase, the parent forks again only when the last child has ended by one of the five fatal
  signals.  `FiniOnceAndLast` has `fini()` run after a failing `init()` too: that is what the
  code does, and one of the two things main_template.h says.
* `ToldInTheEnd` (ForkSynchronizer).  The end of the pipe is seen only because the parent
  closes its own writing end before it waits.
* `AllAccounted` (RedisLists).  A value is in exactly one place, and repeated only by a
  push whose answer was lost.  `OrderKept`: and only then may it stand behind a later one.
* `StopEnds` (movers) is stated after the last SIGKILL; the state after it is an initial
  one with lists in any condition, so nothing is lost by that.

### What the code does otherwise than it says

Three disagreements are runs of their own, quoted in `PROJECT.json` under "findings".

* epollable_blocks: a push writes its byte to a blocking pipe with the lock held
  (epollable_queue.h:165); with a pipe of fewer bytes than the queue has room for elements,
  the push and every pop wait for each other for ever.
* simple_logger: the process that rotates opens the new file without `O_APPEND`
  (simple_logger.h:524) and so writes over the lines others append.
* relay_stop: a SIGTERM that comes while `on_init()` starts the movers stops those that
  are there; the others never stop, and `on_run()` waits for them for ever
  (queue_redis2redis.cpp:241).

For the following there is a configuration with which TLC finds the violation; it is not
among the runs.

| Configuration | Property | What happens |
|---|---|---|
| EventQueueStarves.cfg | PopFrontReturns | the timeout of a pop starts anew at each wake-up, so it may wait for ever |
| AsyncLoggerUse.cfg | ThreadServesOpenLoggers | `destroy()` counts references of the thread, not loggers (logger.cpp:276): destroying one of two stops the thread of both, which logger.h:191 has them share |
| AsyncLoggerUse.cfg | NotFreedUnderCall | a call that is inside `do_log()`, before it has the lock or while it waits for room, is no holder of the logger: `destroy()` returns and the logger may be freed under it.  logger.h:25 and :94-95 forbid use after `destroy()` and say nothing of calls that began before it |
| ThreadPoolEarly.cfg | RunsOnlyWhenWoken | `do_millisleep` waits under an `if` (thread.cpp:177), so a wait that ends by itself lets a thread run before it is activated, where thread_pool.h:40 has it stay asleep |
| MemPoolEdge.cfg | DeletesHeapOnly | an address inside the last bucket lies above `_stack_top` and is deleted as the heap's (mem_pool.cpp:120-125); mem_pool.h:55-59 has memory of the pool checked, and refused |
| ThreadPoolLeak.cfg | NothingLeft | a failed start leaves the objects that were not started |
| SafeLoggerIdle.cfg | NewLineKept | a process that was idle during a rotation writes to a file without a name |
| SimpleLoggerStarts.cfg | KeepsLogging | a process that starts between the rename and the open creates the file; `O_EXCL` then fails and the one that rotated never logs again |
| MessageStreamEmpty.cfg | StartsAtHeader | an empty message whose header came cut leaves `_finished_size` as it was, and the next header is a mixture of two |
| SupervisorSilent.cfg | SuccessIsReported | a child that ends without a word may be reported as a success: the function runs off its end without a `return` (fork_synchronizer.h:126) |
| ConnectionAgain.cfg | WakeupHeard | `CSensor::close()` keeps `_epoll_events` (sensor.cpp:49), so an epoller that is destroyed and created again hears no wake-up |

AsyncLoggerUse.cfg stops at the first of its two; `-continue` shows the other.  The same
races have two more ends, with `QuietDestroy = FALSE`: a line that waited for room is queued
behind the message of length zero, is not written, keeps `_log_number` above zero, and with
it the thread that `destroy()` joins; and in a batch it leaves a slot of `iov_array` before
it unfilled, so that the order of the file is lost as well.  `CallsReturn` and `LinesInOrder`
are therefore checked with `QuietDestroy`, the other two properties without.

Others were read and are modelled as they are, or lie in what is left out:

* `push_back` of CEpollableQueue throws on a closed pipe after the element is queued;
  `get_thread()` accepts the index that is one too large (`thread_pool.h:111`).
* `full_receive` and `full_send` add the -1 of EWOULDBLOCK to what they count
  (data_channel.cpp:186, 203); `full_send_file` advances its pointer instead of the offset
  (:240); `full_map_tofile` unmaps less than it mapped when the map was shortened (:264);
  `full_write_tofile` receives more than its page holds (:287), and throws where
  data_channel.h:107 has it return.
* CRawMemPool: `create` with no buckets loops over the whole range of its index, a bucket
  size of 65535 overflows, `reclaim` after `destroy` compares with the old ends, and the
  bitmap is filled with bytes of value 1, so that a bucket in eight counts as out before
  it was (mem_pool.cpp:97).
* `async_connect` leaves its socket open when the connect fails at once
  (tcp_client.cpp:207), and reads `errno` when it did not fail (:216): a client may then
  be establishing without a descriptor, or with one that is connected.  `timed_connect`
  that succeeds at once leaves the descriptor non-blocking.  The data channel keeps the
  number of a closed descriptor.  Two overloads of `CListener::create` drop
  `reuse_port` (listener.cpp:132, 138).
* tcp_client.h:197 has `on_connect_failure()` called when a connect failed, but an
  `async_connect()` whose `socket()` fails throws without it (tcp_client.cpp:138), in an
  object that counts the attempt; the model keeps that callback owed (`silent`), and
  `CallbacksOwed` names it as the one exception.
* main_template.h:20 says that `fini()` is not called if `init()` did not succeed,
  main_template.h:47 that it is called whatever `init()` returned; the code and
  `FiniOnceAndLast` do the second.
* main_template: a killed parent leaves the child; the thread of an exit signal is waited
  for after `run()` returned true, so the process lingers until the signal; a thread that
  cannot be created ends the child without `fini()`.
* CSafeLogger and CSimpleLogger go on after a failed rename: the backup that stayed is
  renamed over, or the too large file is opened again (CSafeLogger), or no file is, because
  of `O_EXCL` (CSimpleLogger).
* CSafeLogger keeps n - 1 backups for a backup number n from 2 on (the loop of renames,
  safe_logger.cpp:547), where safe_logger.h:112 counts the backups without the file being
  written; `Keep` of RotatedFiles is what the code does.
* `push()` of a queued object renews its time and not its place (timeout_manager.h:83).
* redis_queue_mover: the test of `fgets` is inverted (redis_queue_mover.cpp:425), a file as
  destination is opened for reading (:368), and a file source that ends sets `g_stop`
  without waking the signal thread.  queue_redis2redis: a pop that throws is pushed as a
  batch of empty strings (queue_redis2redis.cpp:405), a stop drops what was popped (:361),
  and a mover that fails to start leaves a process that idles.  queue_redis2kafka drops a
  batch on any error but a full queue.

### Fairness

Weak fairness of a thread's steps inside a call: the scheduler runs a thread that can
go on, and a wait with a timeout ends.  In EpollableQueue, where
epollable_blocks alone needs fairness, the steps of a call are fair and the timeouts are
not: the push is stuck because its `write()` never can return, not because nobody runs it.
No client is obliged to make a call, and a mutex promises nobody a turn, so a call may be
overtaken for ever: `CallsReturn` of
EventQueue says a call returns unless calls of others return for ever.  In the logger a
client need not log, nor destroy, but a destroy that has begun goes on.  In the pool
`run()` may go on for ever until it is stopped; thread.h:58 gives `_stop` as what a thread
decides by whether to end, and the model takes `run()` to heed it; for `run()` of a
CMainHelper the same.  In SafeLogger it is weak too, although a thread waits in `flock()`:
the lines that may still be written are bounded, so after a time nobody else takes the
lock file, and the thread that waits can have it for as long as it takes.

In TimeoutManager callbacks return.  In MessageStream both sides go on as long as they
can, and reconnect after an error.  In Connection the reactor waits in epoll again and
again and handles what it is given, its caller registers what it connected, and the
network answers every attempt, one way or the other.  In Supervisor parent, child and
signal thread go on; nobody need send a signal, and the child need not report.  In the
movers every thread runs on, and since unanswered calls are bounded a redis answers in
the end; a SIGTERM or a kill need not come.  MCLifecycle and MCNetwork ask fairness only of the
part that was chosen.

## 4. What is proved

TLC checks instances; the following holds for every value of the constants.  Each
safety invariant is proved the same way: an invariant that contains it is shown to hold
initially and to be preserved by every action, and was given to TLC before.  The parts
of it have names, and are explained where they are defined.

| Component | Theorem | Statement |
|---|---|---|
| ArrayQueue | PushBackAppends | a well-formed ring stays so, and `push_back` appends to its contents |
| | PopFrontTakesOldest | `front` is the oldest element, and `pop_front` removes it |
| EventQueue | TypeCorrect | `Spec => []TypeOK` |
| | CountersExact | `Spec => []WaiterNumbersExact` |
| | NobodyStranded | `Spec => []NoStrandedWaiter` |
| | Refinement | `Spec => ImplementsFifo` |
| EpollableQueue | PipeMirrors | `Spec => []PipeMirrorsQueue` |
| | SlotsOwed | `Spec => []FreeSlotsAreOwed` |
| | ReadDoesNotBlock | whoever pops finds a byte for every element, so that `read` returns at once |
| | DropIsPops | the ring a batch leaves is that of as many calls of `pop_front` |
| AsyncLogger | AsyncLoggerTypeCorrect | `AsyncSpec => []AsyncTypeOK` |
| | LoggerFreedByLastHolder | `AsyncSpec => []FreedByLastHolder` |
| | LinesWrittenInOrder | `QuietDestroy => (AsyncSpec => []LinesInOrder)` |
| | AllLinesWrittenAtExit | `AsyncSpec => AllWrittenAtExit` |
| ThreadPool | TypeCorrect | `Spec => []TypeOK` |
| | WakeupsArrive | `Spec => []NoWakeupLost` |
| | ObjectsOutlive | `Spec => []ObjectsOutliveThreads` |
| SafeLogger | SafeLoggerTypeCorrect | `Spec => []TypeOK` |
| | FilesGivenUpForNewer | `Spec => []GivenUpForNewer` |
| | LinesInThreadOrder | `Spec => []ThreadOrder` |
| Containers | InOrder | `Spec => []ListInOrder` |
| | NothingLeftBehind | `Spec => NothingOverdue` |
| | PoolsAgree | `Spec => []BooksAgree` |
| | MemoryIsPooled | `Spec => MemImplementsPool` |
| | ObjectsArePooled | `Spec => ObjImplementsPool` |
| Connection | OneOwnerEach | `Spec => []OwnedOnce` |
| | RecordsAgree | `MaxCreates <= 1 => (Spec => []WatchedAsRecorded)` |
| | OneCallbackEach | `Spec => []CallbacksOwed` |
| MessageStream | ReceiverInStep | `NoFullReadUnblocked => (StreamSpec => []InStep)` |
| | InOrderOnce | `NoFullReadUnblocked => (StreamSpec => DeliveredInOrder)` |
| Supervisor | FiniOnce | `SupervisedSpec => []FiniOnceAndLast` |
| | OwnSignalHeld | a SIGTERM is never pending while it is not blocked |
| | BroughtBack | `SupervisedSpec => BroughtBackAfterCrash` |
| | ToldFirstWord | `SupervisedSpec => []ToldTheTruth` |
| Movers | AllAreAccounted | `Spec => []AllAccounted` |
| | OrderIsKept | `Spec => []OrderKept` |

Some theorems have a condition, and it is the code's.  An epoller that is created a
second time does find its sensor's old record (above, under what the code does
otherwise).  The order of the asynchronous logger's lines is lost when a call still waits
for room as `destroy()` begins, which `QuietDestroy` excludes; its other theorems have no
condition.  The two about streams leave out `full_receive()` on a
descriptor that does not block, which adds the -1 of a `receive()` that found nothing to
what it has (data_channel.cpp:177-192); CRecvMachine and `timed_receive()` are covered
on either kind of descriptor.

### The invariants, and why they are needed

**ArrayQueue.**  `Contents` is a function on `1 .. size`, so both theorems are arithmetic
modulo the capacity and need no induction; the other proofs cite them.

**EventQueue** (`IInv`).  To the three properties come: the ring is well formed (without
it neither `IsFull` nor `Contents` can be reasoned about), a thread that pushes carries
an element (or the ring would leave its type), and a thread waits only if the queue was
built with a timeout (or the abstract queue could not refuse it).  The argument turns on
the counters: `push_back` broadcasts only if `_pop_waiter_number` is positive, so a strand
is impossible only because a counter that reads zero means nobody is inside the wait
(`NoWaiterIfZero`).  `CountAfterMove` gives the cardinalities after one thread moves,
`WokenKeeps` that a broadcast leaves every thread on its side of what is counted;
`CountersAfterStep` puts them together, and every action's case cites it.  `Refinement`
maps each step to a step of BoundedFifo or to a stutter: invocation to `AskPush`/`AskPop`,
a critical section that appends, takes or gives up to `PushDone`, `PopDone`,
`PushRefused`, `PopRefused`, a wait and a wake-up to nothing.

**EpollableQueue** (`IInv`).  The number of elements is the number of bytes, plus one
exactly while somebody holds the lock (`BytesPerElement`); for that the holder must be
the one push that is writing (`LockIsWriters`).  That a free slot is owed needs the
counter of waiters to be exact (`WaitersCounted`): a pop that reads zero signals nobody.
Most of the work is in the cardinalities, since a batch moves as many waiters to
"signalled" as it has taken elements, or all there are.

**ThreadPool** (`IInv`).  The threads up to `count`, and no others, have been started and
not joined, and the count of references of each is that of its pool and of the thread
while it is alive (`StartedUpToCount`); that is preserved because create and destroy run
through the array in opposite directions, and `destroy` joins before it lets go
(`ClientPlace`, `MadeUnstarted`).  A wake-up that no sleep has returned for is either in
`_current_state` or has signalled the wait, and who waits is `sleeping` (`WakeupKept`);
`stop()` has set its flag before it wakes (`StopKept`).

**AsyncLogger** (`AsyncInv`).  A logger has a reference for `destroy()` while that has not
let go, and one for the thread while it is registered (`RefOf`): so nothing is freed but
what is neither.  `_waiter_number` is exact (`WaitOf`), with the same counting of who moves
as in EventQueue; it is needed because a batch wakes nobody when it reads zero.  A call's
logger is open or being destroyed, never gone (`CallOf`); only the one `destroy()` that
holds `_thread_lock` has stopped the thread, and with one signal (`StopRight`).  Under
`QuietDestroy` the message of length zero is the last of its queue (`QuietOf`), and with
that a batch is its lines and perhaps that message behind them (`Taken`): this is what lets
`writev` take the first slots of `iov_array`.  `LinesOf` is `LinesInOrder` said of
file and queue apart, so that a batch that is written (`WriteInOrder`) and one that is lost
(`LossInOrder`) are lemmas about sequences, without a step of the model in them.  For the
exit of the thread nothing of this is needed.  `CountServed` says that `_log_number` is at
least what is queued for the loggers the thread watches: it may be more, for lines behind
the message of length zero or of a logger that a failure unregistered, and then the thread
stays, but never less.  `WatchedOf` says that what such a logger has accepted is written or
queued.  Sums over the loggers are cardinalities of sets of pairs
(`Total`), which change by as many pairs as a queue changes by elements.

**SafeLogger** (`IInv`).  The first parts hold even when the lock file cannot be locked.
`Passing`: whoever is past the first `fstat` has a file that is too large, and once it has
opened or rotated, the path is no longer that file.  `Bounded` is what keeps a file from
growing: the threads that may still add a line to a file that is too large (`MayWrite`),
with the lines it is over, are never more than one for each thread and each failure spared
so far.  A thread that has written owes the rotation, and does not count until it has
seen to it or failed, or until the path turns out to be the same file after a rename that
failed (`Owes`).  The other parts (`Unhurt`) need the lock.  `Current`: the path is the
newest file, every other is full, and the holder of the lock has the file it is about to
rotate.  `Backed` is an invariant of what has been lost, not of what is there, because with
failing renames the backups may stand in any slots.  A higher number is an older file
(`Ranked`).  Between rotations, the files that no name leads to, among the `Keep` before
the next one, are at most the failures (`Missing`); while a rotation runs, that holds
of the files that will be missing if nothing fails any more (`Doomed`).  A rotation dooms
no more than was missing as it begins (`TurnsBegin`).  A turn of the loop that succeeds
moves a backup and dooms nothing (`TurnDone`); one that fails dooms at most the backup that
stayed, and is a failure (`TurnFailed`).  After the last turn what was doomed is missing
(`TurnedOver`); where a crash or a failure stops the rotation before, one more at most
(`TurnsEnd`).  `Missing` counts a backup whose number is too high as well: a hole before
it costs the oldest file its last rotation, as if one had been lost.  `Ordered`: what
a thread has written lies in files that its process's descriptor has already reached
(`Onward`), and `_log_fd` moves to the newest file only (`StepLogFd`), though any thread may
move it.

**Containers.**  The properties of CListQueue speak of `Walk`, a recursive function.  The
proof speaks of the links instead: `ChainOf(l, p)` says that `p` numbers the nodes from the
head, each the `next` of the one before it.  `WalkAlongChain` shows, by the least number
at which they would differ, that the walk meets these nodes, and that it ends; from there
on push and remove are facts about `ChainOf` (a new last element; the elements behind the
removed one move up), and `Sound` adds that the times along the chain ascend except at the
objects that were `displaced`.  That is preserved wherever a callback's calls come, which
is why `check_timeout` needs no lemma of its own.  For the memory pool: a bucket is on the
stack once or out (`StackHoldsFree`), and the bitmap is right about every bucket that has
been given out at least once (`BitmapKnows`); about the others it is wrong for one in
eight, and the proof shows that it does not matter.  For the object pool: the ring holds
the objects whose mark is set, each once (`MarksTell`), hence it never overflows although
`push_back` does not look.  Both refinements map each operation to
`Create`, `Destroy`, `Lend`, `LendExtra`, `GiveBack` or a stutter of ResourcePool; what
the memory pool deletes of its own lies in its last bucket (`DeletedInLast`), because
`_stack_top` is where that one begins.

**Connection.** `ConnInv`: no descriptor has two owners, and every open one has one
(`FdBooks`); the channel of a client or waiter with a descriptor has the same
(`Channels`); the listeners that were counted are those with a descriptor
(`Listening`).  The kernel gives the lowest number that is free, which exists because
numbers are well founded, and need not be known otherwise.  `WatchInv` is needed beside
it: a number that nobody has is not watched, so that its next owner, whose record is
empty, begins as the kernel does.  `close()` preserves it because the kernel forgets a
descriptor that is closed and `do_close()` forgets the events with it.  `OwedInv`, for the
callbacks: who is establishing owes one, who is established or closed has had it, and the
state and the debt change together on every way out of a connect but the `throw` of a
failing `socket()`.

**MessageStream** (`StreamInv`).  `Run(sz, s, from, to)` says that `s` is the part of the
stream between two bytes: each byte is the one `After` the byte before it.  What is on its
way, with what is in the buffer of `work()`, is the part between the byte the receiver
expects and the byte the sender sends next (`MachineKnows`, `ReaderKnows`).  Parts that
follow each other join (`RunJoin`), and the first `k` bytes of a part that starts inside a
message are the next `k` of this message (`RunTake`, by the least byte that would differ):
with these two every cut by the sender, the wire and the receiver is the same argument, and
no byte has to be counted from the beginning of the stream.  A message is delivered only
when it was sent as a whole (`SentBefore`), so a new connection, which begins with the first
message that was not, repeats none.  After the cut header of an empty message nothing is
claimed, as in the runs.

**Supervisor.**  `SupInv`: `fini()` has run in the last phase and in none before
(`FiniBooks`), the signal is blocked before there is a thread to take it (`BlockedFirst`),
and the parent forks again only without a child, after a status that said crash
(`OneWorker`): `BroughtBack` follows from it, because the wait is what sets the status.  `FirstWord`, for ForkSynchronizer:
the head of what is in the pipe is the first word the child said, as long as the parent has
not read it; what the destructor adds comes behind it.

**Movers** (`MoversInv`).  Where a value is, is four alternatives that exclude each other
(`OneState`: queued, in one hand, lost, pushed), rather than the sum of cardinalities in
`AllAccounted`, which follows in the end.  For the order `Behind(t)` is needed: what `t` has
pushed is older than what it holds, unless it is what it holds, pushed before without an
answer; then the older values of that batch stand before it; and all of these are older
than what is left in its source.  It rests on lists and batches that ascend (`InPlace`).
`Moved`, the values that are in a target and no longer in a hand, is what `g_num_moved`
counts: a push whose answer was lost does not count, the one that repeats it does, and a
batch of different values has as many as elements (`BatchSize`).  `StartsInOrder` is there
because a mover of queue_redis2redis that cannot be started takes those after it with it,
and they must not hold anything.

### Assumptions

Those named in the modules, which TLC evaluates in the runs: capacities, batches, sizes
of buckets and of the pipe are positive; sets of threads, loggers, callers and movers
are finite, and so are the descriptors of a process; elements exist, and placeholders
are none of them; the kinds of objects of a connection are disjoint; the objects of the
pool are numbered from one.  Each is a property of the program or of the process that
runs it.  The bounds of section 3 stand in guards, and the theorems hold for every value
of them.

### Only model-checked

* Liveness, of every module: `CallsReturn`, `DestroyReturns`, `WokenRuns`,
  `WriteReturns`, `CheckReturns`, `MessagesHandled`, `ConnectAnswered`, `WakeupHeard`,
  `StopIsHeeded`, `FiniReturns`, `ToldInTheEnd`, `StopEnds`.  The prover has neither
  fairness nor ENABLED.
* That the conditions on theorems cannot be dropped: ConnectionAgain.cfg shows it of the
  epoller, and `QuietDestroy = FALSE` in AsyncLogger.cfg of the lines of the asynchronous
  logger.
* `PushBackDoesNotBlock`, `LinesStay` and `SigtermEnds`, which TLC refutes.

## 5. What the models leave out

* Loggers: formatting of lines; the level setters; renaming of backups in CLogger
  (RotatedFiles has it for the other two); `single_write`, a build without `writev`;
  partial writes to a regular file; changing the size or the number of backups while
  CSafeLogger logs; in CSafeLogger a failing `dup` or `fstat` and the open in
  `prepare_log_fd()`; a CSimpleLogger whose number of backups is 0.
* Threads: `stop()` by two threads at once, detached threads.  The read-only methods of
  the queues take the lock and change nothing.
* Lists and pools: an object that is in two lists, and a bucket or object given back that
  no pool gave out: the callers' contract excludes both, and nothing in the code notices.
* Streams: a non-blocking channel under `full_receive` (its divergence is listed above;
  `RecvNonblock` is there to see it), `full_send_file`, the memory maps, `readv` and
  `writev`.
* Connections: `detach()`, `shutdown()`, socket options; connecting again without closing
  first; an epoller whose pipe cannot be created.
* Processes: SIGCHLD and the signal for the log level, helpers that ask not to be
  restarted.
* Movers: counts and the thread that prints them; a file or Kafka as source or
  destination; the number of retries inside the redis client; a retry interval that is
  not positive.

## 6. Where to go on

The queues, the three loggers, the thread pool, the lists and pools, streams, connections,
processes and movers are modelled, and every safety property of a run that holds is proved,
but the invariants are those of the modules: what could be added is

1. the loggers with `single_write` (a build without `writev`) and with the renaming of
   backups in CLogger, which shares none of its code with CSafeLogger's;
2. a CSafeLogger whose size or number of backups is changed while it logs;
3. a refinement of the asynchronous logger to a queue of lines for each file, from the
   invariant there is.

No further part of the library is planned as a model, for the reasons given under "Not
modelled".
