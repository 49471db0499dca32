# lazynet: a TLA+ model of the data server and its event library

lazynet is a recording data server (DS) of a video system. A management server
(MS) connects to it over TCP and sends *plans* (which stream to record in which
hour of which weekday); the DS opens a UDP port per planned stream, invites MS
to have the stream sent there, and records what arrives. It is built on *handy*
(`src/src/common/handy`), a small C++11 event library: one thread per
`EventBase`, epoll, timers, TCP and UDP connections, a thread pool.

The process has two threads (`DSServer`): the **admin** thread runs the loop with
the MS connection, the timer and all the bookkeeping; the **store** thread runs
the loop with the sockets. The admin thread acts on a socket only by handing the
store loop a closure with `safeCall`. The program is built with `-O2 -DNDEBUG`;
`fatal` and `fatalif` only write a log line, so execution goes on after them.

## 1. Inventory

| component | state | operations | met by | hard about it | what makes it correct |
|---|---|---|---|---|---|
| Event loop, task hand-over (`event_base.cc`, `threads.h`) | `tasks_`, `exit_`, the wake-up pipe | `safeCall`, `exit`, `wakeup`, `loop`, `loop_once` | every thread | push and wake-up byte are two steps; the flag is tested once per pass | no lost wake-up; tasks in order and once; exit returns |
| Timers (`event_base.cc`) | `timers_`, `timerReps_`, `timerSeq_`, `nextTimeout_` | `runAt`, `runAfter`, `cancel`, `handleTimeouts`, `repeatableTimeout`, `refreshNearest` | handlers, other timers | raw pointer from entry to record; 64 to 32 bit difference; cancel inside a pass | due timers run, cancelled ones do not, no wait is too long |
| Idle connections (`event_base.cc`) | `idleConns_`, `idleEnabled` | `registerIdle`, `updateIdle`, `unregisterIdle`, `callIdles` | TcpConn | list nodes kept as iterators; only the front of a list is looked at; one timer per loop; cleared at exit before the connections are | every connection has one node; exactly the silent ones are called back, and closed |
| Poller, Channel (`poller.cc`, `event_base.cc`) | `liveChannels_`, `activeEvs_`, `lastActive_`, events | add, update, remove, `loop_once`, `close` | connections, store session | a handler removes channels later in the same batch | no handler on a deleted channel |
| Store session (`StoreSession.cc`) | `fd_`, `channel_`, buffers | `prePareStore`, `bindAddr`, `startStore`, `attatchToLoop`, `stopStore`, `closeUDP`, `storeReadCB` | registry, store loop | closures over `this` on another thread; uninitialised pointer; reused descriptors | bind, attach, close in that order; no channel reported after its close |
| Session registry (`SessionService.cc`) | `storeSess_`, `id_`, `storeSesCount_` | `newStoreSes`, `existStoreSes`, `getStoreSes`, ... | stream manager | a creation that fails after the closure is posted | ids resolve to live sessions; the limit is kept |
| Stream manager (`StreamMgr.cc`) | `prePlans_`, `curPlans_`, `delPlans_`, `storeSess_`, `port_` | `updateStorePlan`, `diffStorePlan`, `checkStorePlan`, `createStream`, `startStream`, `stopStream` | MS messages, 6 s timer | answers race the timer and later plans | recorded = planned; no call through a null session |
| DS server (`DSServer.cc`) | the two loops, the MS connection | handlers, `registerToMS`, `onRead` | all | thread composition | |
| TCP connection, server (`conn.cc`) | `state_`, `input_`, `output_`, `channel_`, timers | `attach`, `connect`, `handleRead/Write`, `handleHandshake`, `send`, `close`, `cleanup`, `reconnect`, `handleAccept` | MS connection, HTTP | callbacks that close their own connection; reconnect | one callback per state change; bytes in order |
| Message codec and dispatcher (`ExternalMsgCodec.cc`) | | `encode`, `decode`, `onMsg` | MS connection | messages cut at any byte | decode inverts encode |
| Recording buffer (`StreamBuff.hpp`) | `buf_`, `next_`, `b_` | `consume`, `isFull`, `resetBuf` | store session | the room for a datagram is decided by the one before it; unsigned difference | the records can be read back; no write behind the buffer |
| Thread pool, half-sync server (`threads.cc`, `conn.cc`) | `SafeQueue`, threads | `addTask`, `exit`, `join` | HSHA | exit while waiting | every worker returns |
| Line and length codecs (`codec.cc`) | | `tryDecode`, `encode` | TcpConn | | decode inverts encode at every cut |
| HTTP server, status server (`http.cc`, `stat-svr.cc`) | `scanned_`, `contentLen_`, `complete_`, the response object | `tryDecode`, `handleRead`, `sendResponse`, `clearData`, the callbacks by name | TcpConn; not started by the DS | a parser that is resumed at every cut; one request per read event; objects reused over a connection | requests answered once, in order; none forgotten |
| Buffer, slice, net helpers (`net.cc`) | `b_`, `e_`, `cap_`, `exp_` | `makeRoom`, `absorb`, `consume` | TcpConn | | content kept by every move |
| Logger (`logging.cc`) | `fd_`, `lastRotate_` | `logv`, `maybeRotate` | all threads | rotation raced by several threads | |
| Daemon (`daemon.cc`) | the pid file and its lock | `daemonStart`, `daemonStop`, `daemonRestart`, `writePidFile` | main; not called by the DS | every command is a process; pids are reused; the file is written and removed by several processes | one daemon, and the file names it; commands end |
| UDP, configuration, files, status, utilities | | | | sequential | |

`PROJECT.json` lists them with their status, and lists the hazards, each at its
line with the properties aimed at it.

## 2. Modules

```
Executor           what safeCall and addTask promise (abstract)
EventLoop          tasks_, the pipe, exit_, loop(); implements Executor
EventLoop_proofs
ThreadPool         SafeQueue and its workers; implements Executor
ThreadPool_proofs
Timers             timers_, timerReps_, nextTimeout_, the passes of loop()
Timers_proofs
TcpConn            one client connection: channel, epoll batch, timers, idle node
TcpConn_proofs
TcpServer          accepting, the loops of a MultiBase, the idle lists
HttpServer         one HTTP connection: decoding, the callback, the answers
  MCHttpServer       clients for TLC
TcpServer_proofs   of both servers
Buffer             handy's Buffer, operators only
  MsgStream          the bytes of a connection and the two read callbacks
  MsgStream_proofs
StoreSession       sessions, their sockets, the store loop's tasks
  SessionService     + the registry
    StreamMgr          + plans, checks, invitations
      DataServer         the composition of the two threads, clock and MS
        MCDataServer       instances for TLC
StreamBuf          the recording buffers and the read callback that fills it
DataServer_proofs  of DataServer and StreamBuf
Daemon             start, stop, restart, the pid file, the processes of the host
Daemon_proofs
```

### EventLoop

`tasks`, `exit`, `pipe` are `tasks_`, `exit_` and the bytes in the wake-up pipe;
`at` is the place of the loop thread in `loop()`. `safeCall` is the two steps
`Push` and `Wakeup`, `exit()` is `SetExit` and `Wakeup`; each pass of the loop is
`TestExit`, `Poll`, `ReadPipe`, then `RunTask`/`TaskReturns` until `Drained`, and
`EndPass`. The loop thread is itself a caller, from a task or handler. `SafeQueue`
operations take the lock for their whole length and are single steps. Tasks and
the handlers of other channels are opaque: they may call, and they return.
`posted`, `ran`, `returned`, `owed` are history.

`Executor` is the promise the rest of the program relies on: accepted tasks start
once, in order, and, until `exit()`, each does start. `ImplementsExecutor` is the
refinement `accepted <- ran \o tasks, started <- Len(ran), stopped <- exit`.
`StoreSession` uses exactly that promise for its `storeTasks`.

### ThreadPool

`items`, `exit` are those of `SafeQueue`, `at` the place of each worker in the loop of
`start()`. What is done under the mutex is one step, with one exception: a worker
that finds neither a task nor `exit_` keeps the lock until it sleeps (`Nothing`,
`Sleep`, `lock`), because `exit_` is written without the lock and may be set in
between. `exit()` is `SetExit` and, with the lock, `ExitNotify`. A condition variable
is the set of its sleepers; `notify_one` wakes any one, and `WakesUp` is the wake-up
without reason that C++ allows. `Join` joins the threads one after the other. Callers
are clients and the workers themselves, from inside a task. `late` counts, per
worker, the tasks it took after `exit_` was set.

The pool implements the same `Executor` as the event loop, by the same mapping.
The data server uses one pool, of one thread, whose only task runs the store
loop.

### Timers

`timers` and `reps` are the two maps; an entry of a repeating timer has the key of
its record. A negative `TimerId` is represented by membership in `repeat`.
`nextTimeout` is an `int`: `Trunc` cuts the 64 bit difference to `2 * IntSpan`
values. `Wait` is the test of `exit_` with the clearing of the maps and the entry
to `epoll_wait`; `Event` or `TimedOut` leaves it; `StartTimeouts`, `FireOnce`,
`FireRepeat`, `TaskReturns`, `EndPass` are `handleTimeouts`. `Tick` lets time go by
at any step, also while handlers run. `fault` is set when an iterator equal to
`end()` or a freed record is followed. A repeating timer whose task cancels it destroys the
`std::function` that is being called (`tr->cb`, line 218, erased at line 248): the call may go
on unharmed or not, so `cancelRepeat` sets `fault` or does not.

### TcpConn

One client connection, the one `registerToMS` makes, on the loop of the admin
thread. `state`, `channel`, `output`, `timeoutId` are the fields of `TcpConn`
(`conn.h`); each attempt makes one channel, so the number of the attempt names
it. `live` and `slot` are the poller's `liveChannels_` and the entry of
`activeEvs_` that is still to be handled; `timers` and `recon` are what the
connection has in `timers_` and `reconnectConns_`; `idle` is its node in
`idleConns_`, `"freed"` once `loop()` has cleared the list. `at` is the place of the
loop's thread: `Poll`, then the event (`HandleRead` and `ReadLoop`, or
`HandleWrite`) and the closures of `close()` (`RunClose`) in any order,
`EndEvents`, the due timers (`FireTimeout`, `FireReconnect`), `EndTimeouts`;
`LoopEnds` is what `loop()` does after its `while`, `Destroy` the poller's
destructor. `handleHandshake`, `cleanup`, `finish`, `closeChannel`, `connect` and
`isend` are the parts the handlers share. `handleHandshake` includes the state
callback of `registerToMS`, which sends the registration.

Handlers are atomic for the loop's own state. They are cut where another actor is
seen: `cleanup` between its test of `exited()` and `reconnect()`, since `exit()`
may come from another thread in between, and `handleRead` between handshake and
reading, since the peer may move. Which timer is due is left open (`Timers` is
about that); here any timer that is set may fire in any pass. Bytes are counted
in messages or parts of them. `reconnect` and `timeout`, whether
`reconnectInterval_` and `connectTimeout_` are set, are fixed for a behaviour and
take every combination; the data server uses reconnection and no timeout.
`fault` is `"state"` when the `fatalif` of `connect` fires, `"channel"` when a deleted
channel or a null one is used, `"idle"` when a freed idle node is; nothing moves
after it. `told` and `reports` are history of the state callback.

Left out: `input_` and the read callback, which `MsgStream` has; `closeNow` (which
nothing calls); accepted connections, which `TcpServer` has.

### TcpServer

`con` holds for each connection what has become of it (`backlog`, `posted` to its
loop, `attached`, `open`, `closing`, `gone`), its loop and its idle time; `lists`,
`tasks` are `idleConns_` and `tasks_` of each loop; `next` is the counter of
`MultiBase::allocBase`. `Accept` is one turn of the loop in `handleAccept`; `addcon` runs
at once for the loop of the acceptor and is posted to the others. `Connected` is the
handshake with a state callback that calls `addIdleCB`, and so `registerIdle`: it starts the
loop's timer of one second with the first connection of that loop (`timed` are the loops with
`idleEnabled`) and appends the node. `Second` lets a second pass, after which the timers
that were started, and no others, are due; `Read`, `PeerCloses` are
`handleRead` with `updateIdle` and `cleanup`; `Tick` is the timer of `registerIdle` with
`callIdles`, whose callback is `con->close()`: it posts a closure, run by `RunTask`.
`callIdles` works on a copy of each list (`auto lst = l.second`), so what it
writes to the nodes has no effect and the callback runs again at every tick until the connection has been closed; this is what the model does.
Times are kept as distances from now, cut off where no test can tell them
apart, so that time has no end. An idle time of 0, for which the callback would run at
every tick, is excluded by `ServerAssumption`, which also says that there are finitely many
connections and a longest idle time. `iter_` is where the iterator of an `IdleId` points: the
node of that connection in its list. A failing `getpeername` leaks the
descriptor (`AcceptFails`, state `leaked`); nothing in the code says otherwise.
Left out: `bind` and `startServer`, sending, `exit()`.

### HttpServer

The bytes of the client are numbered; `got` and `used` are the end and the start of
`input_` and what the bytes say follows from their numbers. `TryDecode_` is
`HttpMsg::tryDecode_` with `scanned_` and `contentLen_` kept over calls, `TryDecode` the
request's own part, `HandleRead` the callback of `onHttpMsg` with the callback of
`StatServer` (`Respond`) and `sendResponse`. `ReadEvent` takes all the bytes that were sent,
however the client cut them; `EndEvent` is the end of the stream, where `cleanup` calls
the read callback once more; `CloseTask` is the closure of `close()`. `ScriptsAssumption` says that a good request has an empty name only
for the path `/`: with an empty `stat` argument the name is what follows the first `/`.

What the model shows besides the properties, and no text of the code contradicts: the
response object is never cleared, so a status of 404, a content type or the text of a file
stays for the next answer on the same connection (`resp` keeps its fields); a
request with a bad uri is marked complete before it is refused, and is
served without uri by the read callback in `cleanup`, where `substr` throws
(`conn = "aborted"`); `Continue100` is never returned, because the names of headers are kept
in lower case.


### Buffer, MsgStream

A `Buffer` is a record of `b_`, `e_`, `cap_` and the array; `makeRoom` leaves the
bytes, moves them to the front or copies them to a new array as the code does, and
memory that was not written is `Undefined`. `MsgStream` numbers the bytes of each
direction in the order in which they were sent, over all connections, so that a
byte that is lost, doubled or moved is seen. `Read`, `Again` and `Lost` are the
branches of `handleRead` and the call of the read callback in `cleanup`; the read
returns any number of bytes that fits and was sent. `codec` says which callback
is set, for the whole behaviour: `decode` is the one of `registerToMS`
(`msgComplete`, `decode`, `handle`), `tryDecode` one round of the loop of `onMsg` with
`LengthCodec`. The two formats differ in the length of the head and in the magic.
`encode` appends to `output_`, `isend` takes any part of it. A reconnection is
immediate here, and discards what the old socket had not delivered, and nothing
else: `input_` and `output_` stay, so bytes at the front may be no head at all, in
which case the head may say anything. A message is `known` when its command is
registered and its body parses.

A length above `MaxBody` (1 MiB in `codec.cc:34`) makes `tryDecode` return -1 and `onMsg` close
the connection (`Refused`); nothing is consumed, so the message stays at the front and the next
connection is refused as well. A negative length, which only bytes that are no head can
say, passes that test: below minus the length of the head the result is negative all the same, above it the message
ends before it begins and fewer bytes than a head are consumed (`fault = "negative"`).

`msgComplete` asks for the head only, so `ExternalMsgCodec` parses a body that has not arrived
from whatever lies behind `e_`. Either that fails and nothing changes, or the message is
consumed: `b_` moves past `e_` (`HandOverPartial`, `fault = "partial"`). A message without a
body is dispatched as a null pointer (`"null"`). All of these are reachable, the last two only with the
callback of `registerToMS`, and nothing moves after a fault. `rest` (bytes read and not consumed) and `stale` (a
read found bytes of an older connection) are history.

### StoreSession, SessionService, StreamMgr, DataServer

A session id stands for its object; `obj`, `fd`, `chan` are the object, `fd_` and
`channel_`; `sock` and `watch` are the kernel's descriptor table and epoll set.
`socket()` returns the lowest free descriptor and may find none, `bind` may fail,
and a failed `bind` leaves the closed number in `fd_`. The constructor leaves
`channel_` undefined: null or wild. `prePareStore` has no `return`: its value is
any. `fault` records the first undefined behaviour, after which nothing moves.

A handler of the admin thread is one action: all it does to shared state are posts
to the locked list of the store loop. Two are split where the other thread can be
seen in between: `checkStorePlan` (`CheckStorePlan`, `CheckStream` per stream,
`CheckDeleted`), which takes long and reads the clock first, and a creation that
fails, where the object is destroyed (`Discard`) after its closure was posted. MS
is external: it sends any plan at any time, answers an invitation whenever it
likes, or never, and an answer carries only the stream.

`checkStorePlan` reads the day and the hour by two calls of `time()`. `ReadClock` reads them
in one moment, or the clock moves from one slot to another in between and the check works with
the day of the one and the hour of the other, a slot that may be neither; the next check, six
seconds later, puts it right, which is the strong fairness of section 3.

`socket()` may fail at any time, as the process has other descriptors.

### StreamBuf

`b` is `b_`; `buf` and `next` are the two arrays, byte by byte, where a byte says which part of which
datagram or of which length it is; `recs` and `full` are history, where each datagram was put in
either and its length. `Receive` is the read callback of `attatchToLoop`: `recvfrom` writes at
`b_`, `consume` writes the length, as a `uint16_t`, at `b_ - 2` and moves `b_`, and the buffers are
exchanged when `isFull`. What an earlier round left in a buffer is not told apart (`Stale`).
`cap` is the unsigned difference, which wraps. The callback has no
bound on a datagram but `kUdpPacketSize`, so one longer than `LOWATER - 2` may pass the end
of the buffer; nothing moves after that (`overrun`).

`b_` starts at 2, but at 0 after an exchange: the first length is then written to the two bytes in
front of the array and is not in the buffer. The model writes what falls inside and nothing
else; `ReadsBack` says accordingly that the first length is found in the buffer the session began
with and in no later one. A reader of a later buffer can go on from its second datagram only
if it knows the length of the first. Nothing reads the buffers yet ("TODO write to SFS"),
and no text of the code says how they are to be read.

### Daemon

A command is a process of its own, and every call on the file or on another
process is a step of it (`StartRead`, `StartProbe`, `StartFork`, ...), as is the child's
way through `writePidFile` (`ChildOpen` with `O_TRUNC` and `lockf`, `ChildWrite`).
`proc` is what runs under each pid; a pid that is free goes to anybody (`Spawn`),
also to a process of another user, which `kill` may not signal. A process may die at
any step, by a crash, by SIGQUIT, or not at all. Unlinking the name of the file also takes
away what a lock on it was good for, since a new file of that name has its own.

`orderly` is history: each command was given when the one before had ended *and* its
child had written the file or died. Without it `OneDaemon` does not hold: the parent of
`daemonStart` exits before the child has written the file, so that a second `start`, even one
given after the first has returned, finds nothing and makes a second daemon. The code does not
promise more, and the properties are stated for `orderly`: they say nothing about that race. A stale
file whose pid has been given to a stranger makes `start` refuse; that is in the model, and
nothing is claimed about it.

## 3. Runs

| run | shows |
|---|---|
| `event_loop` | no lost wake-up, owed tasks run, refinement of `Executor`, `exit` returns |
| `timers` | entries and records paired, waits end in time, cancelled timers stay silent, due timers run |
| `tcp_conn` | reported events lead to the open channel, timeouts act on their own attempt, nothing stranded, output watched, lost connections retried, hung attempts ended |
| `msg_stream` | both buffers keep their bytes through every cut, move and reallocation; `onMsg` hands over whole messages in order and leaves none behind but one it refuses as too long |
| `thread_pool` | no lost notification, one late start per worker at most, refinement of `Executor`, `exit` lets `join` return |
| `server` | sessions resolve, each session is bound, attached and closed in that order and closed once, epoll never leads to a deleted channel, sockets are held; the check stops what is not planned and what is planned is invited again and again |
| `http_server` | answers in order and once, however the bytes are cut; a whole request is left waiting only behind an answer of the same event; a client that waits for its answers gets them |
| `tcp_server` | one node per connection, in the right list; the tick finds exactly the silent connections; a silent one is closed by the timer its loop started |
| `daemon` | one daemon, a file that names it, honest `stop`, every command ends |
| `recording` | both buffers can be read back, but for the first length after an exchange; datagrams that `LOWATER` allows for stay inside |
| `late_ack` | violated: an answer after its stream was stopped follows a null pointer |
| `removed_stream` | violated: a stream left out of a new plan is never stopped |

Three more statements of what a comment or a name in the code says are defined and are
violated when put in the place of the property of a run: `AckAttachesInvited` (a
`PROPERTY`, in `LateAck.cfg`: the answer to an old invitation attaches the new session), `SessionLimit`
(an `INVARIANT`, there too: the registry passes `maxStoreConn_`) and `CancelIgnoresExpired` (a `PROPERTY`, in `Timers.cfg`:
cancelling a repeating timer twice follows `end()`, which `event_base.h:25` says is ignored).
Other properties are proved and left out of the runs: `CheckNeverDereferencesNull`,
`ConnectsWhenDown`, `CleanedUp`, `ReportsChange` and the type invariants.

Bounds. `event_loop`: two callers and the loop thread, three tasks, four calls, a
list of two (so that a push is refused), a chunk of two bytes (so that one read
leaves bytes behind); every order of two calls against a whole pass occurs. The
pipe holds as many bytes as there are calls and never fills.
`timers`: times before, at and after the clock and one (6) whose distance from 1
exceeds the `int` of `IntSpan` 4, three calls, an interval of 2; a record is
cancelled before, between and during its firings, two timers are due at once.
`tcp_conn`: two attempts (so that what one leaves behind meets the next), one
`close()`, one `send` besides the registrations, `exit()` at any step, every
combination of reconnection and timeout; about 70,000 states. A third attempt
meets nothing that the second does not, because nothing of the first outlives
its cleanup (which is what the proof's invariant says).
`msg_stream`: two messages, a head of 2 and bodies of 0, 2 and 3 bytes, of which `LengthCodec`
takes 2 and refuses 3, granularity 8, so that a read ends inside a head, inside a body, between
and across messages, and a message with a body of 3 arrives in part; what is
encoded here has a body of 5, so that with 8 bytes encoded before the last message the
array is reallocated and moved to its front; two connections, so that the remains of one
precede the next; 1.6 million states.
`thread_pool`: three workers (one asleep, one in a task, one between), a client, three
tasks and a list of two, `exit()` from any thread as often as it likes; 100,000
states.
`server`: two plans, one of which drops a stream and moves the other to another
slot, and a clock that goes back and forth over a midnight, so that a check may read an hour that is
neither before nor after it; one stream is planned on both sides and in neither hour that can be misread; two sessions, with two descriptors, so that they hold sockets at the same time
and a number is reused after a failed bind or a close; the port counter has 4 values.
`http_server`: four clients of three requests, with and without a body, for the page,
a state, a file and an unknown name, with each kind of bad request in the middle, each byte
a possible cut. `tcp_server`: three connections on two loops, so that a loop has two in one
list, and an idle time of 2 seconds, so that a tick finds some that are idle and
some that are not yet. `daemon`: two operators and two pids, so that a pid is reused
by the daemon, its successor or a stranger; one retry of `daemonStop` stands for 300 (its
number only counts how often nothing happens). `recording`: buffers of 12, `LOWATER` 4,
packets up to 5: several records per buffer, exchanges, and datagrams below, at and
above the limit; a word of 32 and lengths of 3 bits.
Where the cfg says `CHECK_DEADLOCK FALSE` the bounds on calls, time and sessions end
every run, or `fault` stops the process, or the buffer is overrun.

Fairness. Event loop: the loop thread is scheduled, a thread that is about to
write its byte writes it, tasks and handlers return (they do not block in this
program). A wait is only relied on to end when there is a byte or the timeout is
zero, so no liveness below rests on the ten second timeout. Timers: the same, and
time goes by; no event is relied on. Connection: the loop's thread is
scheduled (weak fairness), and a timer that stays set is fired in some pass
(strong fairness, as a timer is only fired inside `handleTimeouts`): that is
`DueIsServed` of `Timers`. Nothing is assumed of the peer, of `exit()` or of the
callers. Pool: threads are scheduled
(weak fairness) and a task returns, however often it calls `exit()` (strong fairness,
as it cannot return from inside a call). A wait is not relied on to end by itself.
The pool of the data server runs a task that returns only when the store loop is
told to exit. Data server: the timer goes off again and
again, a started handler finishes, the store loop runs its tasks (which is what
the first two specifications show of the loop). Of the clock it is assumed that again and again
a check reads day and hour in the same slot (strong fairness of such a check): a slot lasts an
hour, the timer goes off every six seconds, and the readings are one line apart. It is needed:
with weak fairness of the check alone, TLC shows a stream planned before and after midnight that no check
sees as planned. Nothing else is assumed of the clock, and nothing of MS. HTTP: the loop serves what epoll reports and runs its tasks;
nothing is assumed of the client. TCP server: the loops are scheduled, an accepted
socket is writable and therefore reported, seconds pass. Daemon: the commands and the child
of `start` are scheduled; no process is relied on to die.

## 4. Proofs

Every theorem is for all values of the constants allowed by the named
assumptions (`LoopAssumption`, `PoolAssumption`, `TimersAssumption`, `ConnAssumption`,
`BufferAssumption`, `StreamAssumption`, `StoreAssumption`,
`ServiceAssumption`, `MgrAssumption`, `SizesAssumption`, `DaemonAssumption`, `ServerAssumption`,
`ScriptsAssumption`), which bound them below, fix their types, or say what section 2 says of the two
servers.

* `EventLoop_proofs`: type correctness; `WakeupsAreNotLost`; `OwedTasksAreRun`;
  `ImplementsExecutorSafely`, that `Init` and every step map to `Executor`. The
  invariant for the second says where a queued task is covered: by a byte, by the
  handler emptying the list, or by the thread still carrying it. For the third it
  adds that an owed task is run or queued, and that a queued owed task in the last
  pass still has its handler ahead.
* `ThreadPool_proofs`: type correctness; `NotificationsAreNotLost`;
  `LateStartsAreBounded`; `ImplementsExecutorSafely`. The first needs *Locked* (the
  list is empty while a worker holds the lock on its way to sleep) and *ExitTold*
  (the notification of `exit()` is ahead also of a worker that is about to sleep);
  that queued tasks are no more than the workers on their way is inductive with
  them, by counting. *Lates* says that a worker that took a task after `exit_` was set is
  past the list for good.
* `Timers_proofs`: type correctness; `RepsStayPaired`; `CancelledStay`;
  `WaitsEndInTime`. *Numbered* (every number in use was given out, entries have
  distinct numbers, ids of one-shot and repeating timers are apart) and *Paired*
  give the first two; *Silent* (no entry belongs to a cancelled id) gives the
  third; *Covered* (`nextTimeout_` reaches no further than the first timer at the
  time it was computed, in spite of truncation, unless the timer lies more than
  an `int` in the past) gives the fourth.
* `TcpConn_proofs`: type correctness and seven safety properties, those of the run among
  them. The invariant has a part for each relation that the handlers keep and that none of
  the properties states alone: *Phases* (what each place of the loop's thread
  implies, e.g. no timers after the clearing), *Channels* (outside of `reconnect()`
  a connection has a channel, open and the only one, exactly when it is
  handshaking or connected, and a pending event points to it), *Waiting* (the
  timeout that is set is the one in `timeoutId_` and of this attempt; a
  reconnection is set exactly for a connection in `reconnectConns_` without a
  channel; callbacks without a channel mean such a connection), *Idles*, and
  *Told* (the callback has not yet been told of this attempt while it is
  handshaking). One lemma per action shows that it keeps all of them.
* `MsgStream_proofs`: type correctness, which includes that the offsets of both
  buffers are in order and inside the array, those of `input_` until a message is consumed
  that has not arrived; `InputStaysKept`, with the same limit; `OutputStaysKept`. One lemma per operation of `Buffer` says that the result is a
  buffer and what `Content` shows of it; the last two properties with the type
  invariant are inductive, since the handlers touch the buffers only through
  these operations. `MessagesAreWhole` and `NothingIsLeft` are about `onMsg` and add where
  the messages are: *Layout* (they lie behind one another in the stream, and a connection
  starts with one), *Aligned* (what was read and not consumed is a piece of the stream
  that starts with a message and ends at the next byte to be read, or where the connection
  before ended) and *Delivered* (what was handed over are messages in order, all before what is
  left). That the head at the front is the head of a message, so that `tryDecode` takes its
  length from the right bytes, is *Aligned*; without *Layout* it is not inductive. A message longer
  than `MaxBody` at the front stays there whatever happens, as its connection is closed at every
  attempt to decode it (*BlockedStays*).
* `DataServer_proofs`: type correctness; `SessionsAlwaysResolve`;
  `CheckIsSafe`; `ChecksStopUnplanned`; `LifecycleIsKept`; `EpollIsSafe`; `SocketsAreHeld`. *Registry*
  (registered sessions are live and numbered, a stream's session is registered,
  no two streams share one), *NothingDeleted* (`delPlans_` is empty) give the
  first two. *Checked* gives the third: a stream that the loop of `checkStorePlan` has been
  through and that is not to be recorded has no session, and gets none before the loop
  ends, as the admin thread does nothing else. The order of socket operations needs *TasksOrdered*: for each
  session, what has been done to it, the closures queued for it in order, and
  whether a stream still holds it fit together (bind is first, close last, and a
  held session has no close queued); `LifecycleIsKept` then speaks of every closure that is run, a repeated
  one included. *ChannelsOwned* relates descriptors, sockets,
  the epoll set and channels for the last two.
  Of the recording buffers: type correctness (`BufTypeCorrect`); `BuffersReadBack`, which needs
  *Placed* (the records lie inside the buffer, one behind the other and before `b_ - 2`, so that neither
  the next datagram nor its length touches them); `SmallAlwaysFits`, where the point is that `cap()` does not
  wrap as long as the datagrams are small.
* `TcpServer_proofs`, of the idle lists: type correctness; `NodesStayHeld`; `TicksFindIdle`. *Lists* says
  that each list holds a node for each of its connections and no other, sorted, with the
  time of the connection's last read; that a list stays sorted needs that every time in it is one
  of a read, so that the one appended is the youngest. A connection must not be registered
  twice, so it waits once in the backlog (*Waiting*) and once in the queue of one loop
  (*Posted*); *Closing* (a connection that was called back has its `close` queued) and *Unheard*
  (only connections that are up grow silent) complete it. The second theorem is then that a
  sorted list has its idle nodes in front. `TimerRuns` is what `SilentIsClosed` rests on besides fairness:
  every loop that has a node in a list has started its timer.
* `TcpServer_proofs`, of the HTTP connection: type correctness; `AnswersStayInOrder`;
  `StrandedOnlyBehindAnswer`. Between events the decoding of the first request that is not
  answered stands at one of three places: its empty line was not found and the search has not
  gone past it (*Scanning*), its head is read and the body is not there (*AwaitsBody*), or it is
  complete and was refused for its uri (*Refused*). `DecodeOK` says that `tryDecode` leads from any of
  them, for any number of bytes, to one of them or to the end of exactly that request, and that a
  request that is there whole is never left incomplete. Where the requests start is a recursive
  function over a script of any length: its value and its order are proved with `Least`, that
  a set of numbers has a least member, applied to the set of counterexamples; this takes the place
  of induction, whose theorems the provers cannot instantiate.
* `Daemon_proofs`: type correctness; `OneAtATime`; `FileStaysRight`; `StopsAreHonest`. The
  invariant says of an orderly history: only one command runs, and not while a child is on its
  way to the file (*Alone*, *Still*); the lock is held by the child that has the file open
  (*Locking*); at most one process is or becomes the daemon (*Single*), the file names it
  (*Named*), and what a command has read from the file is still true where it matters
  (*Knows*: past the probe there is no daemon; a command that waits for a pid knows the only
  pid that can be the daemon's). *Knows* is what makes the unlink in `daemonStop`
  safe. *StopsOnly* relates the command to the places it can be at.

Only model-checked: liveness (`ExitReturns`, `ExitJoins`, the fair parts of
`ImplementsExecutor`, `DueIsServed`, `LostIsRetried`, `HandshakeEnds`, `PlannedIsInvited`,
`CommandsEnd`, `SilentIsClosed`, `AnsweredWhenAlone`), which needs fairness and `ENABLED`;
the violated properties. Every other property of a run is proved.

## 5. Not modelled

The clock is taken never to be set back (the code uses `system_clock`). Memory
exhaustion, failing `epoll_create`, `pipe` and `fcntl`, and signals are left out.
The contents of packets and messages other than stream, plan and error are left
out. The kqueue poller is not built on the target. Not modelled either:

* UDP wrappers (`udp.cc`), addresses and socket options: thin wrappers over system calls
  that the data server does not use; the socket of a session is in `StoreSession`.
* Logger: formatting and writing of lines; nothing else depends on it.
* Configuration, files, status, string and time helpers: sequential code without
  state of their own.
* Of HTTP, the client's side, `HttpRequest::encode`, `sendFile`; of the daemon, `changeTo` and
  the table of signal handlers.
* `TcpServer::bind` and `startServer`, `MultiBase::loop` (starts and joins threads), `HSHA`,
  `LineCodec`, `Buffer::absorb`, `closeNow`: used by examples of the library or by nobody.
* In the data server, `stopAllStream`, `startStoreSes`, `stopStoreSes`, `attatchLive` and
  `detachLive`, which have no caller, and the load session and store task, which are empty.

## 6. Plan

1. *Done:* event loop and hand-over, timers, the data server of two threads.
2. *Done:* the client connection with channel, poller, idle node, timers and
   `registerToMS`; the server's connections and the idle lists.
3. *Done:* message framing over `Buffer`; the HTTP connection.
4. *Done:* the recording buffer; thread pool; daemon and pid file.
5. *Done:* every safety property of the runs as a theorem. Left: the steps that liveness
   rests on, as safety facts (which step is enabled where, and what it decreases).
6. Models left: `HSHA` as a composition of `TcpServer` and `ThreadPool`; `LineCodec`.
