# A TLA+ verification of sylar

sylar is a C++ server framework built on stackful coroutines: fibers run on a pool of threads, an
epoll-driven I/O manager puts a fiber to sleep on a descriptor and wakes it up again, timers run
callbacks, and hooked system calls (`read`, `connect`, `sleep`, ...) turn blocking code into code
that yields. HTTP servers and clients are written on top. This directory holds TLA+ models of its
core, the TLC configurations that check them, and proofs checked by TLAPS.

    tlc -config Scheduler.cfg SchedulerMC        # one run per .cfg, see "Runs"
    tlapm SchedulerProofs.tla                    # and the other *Proofs.tla

All paths below are relative to `src/sylar/`.

## Inventory

| Part | State | Operations | Model |
|---|---|---|---|
| Fiber (`fiber.cc`) | `m_state` READY, RUNNING, TERM; a context and a stack | `resume`, `yield`, `MainFunc`, `reset` | `Scheduler` (those a scheduler runs) |
| Scheduler (`scheduler.cc`) | `m_tasks`, two atomic counters, `m_stopping`, threads | `schedule`, `start`, `stop`, `run`, `idle` | `Scheduler`, `TaskPool` |
| IOManager (`iomanager.cc`) | table of FdContext, `m_pendingEventCount`, epoll, tickle pipe | `addEvent`, `delEvent`, `cancelEvent`, `cancelAll`, `idle`, `tickle`, `stopping` | `FdEvents`, `IdleLoop`, `TimerManager` |
| Timers (`timer.cc`) | ordered set `m_timers`, `m_tickled`, `m_previouseTime` | `addTimer`, `cancel`, `refresh`, `reset`, `getNextTimer`, `listExpiredCb` | `TimerManager` |
| Hook (`hook.cc`) | per call a `timer_info` | `socket`, `do_io`, `connect_with_timeout`, `close`, `fcntl`, `ioctl`, `setsockopt`, `sleep` | `HookIo` |
| FdManager (`fd_manager.cc`) | table of FdCtx | `get`, `del` | `HookIo` |
| Thread, locks (`thread.cc`, `mutex.h`) | semaphores, `m_locked` of the guards | constructor handshake, `join`, lock, unlock | `Locks` |
| Config (`config.cc`, `config.h`) | variables, listeners, modification times | `Lookup`, `setValue`, `LoadFromYaml`, `LoadFromConfDir` | `Config` |
| Log (`log.cpp`) | loggers, appenders, the stream of a file, items of a pattern | `log`, `reopen`, `init`, the listener of "logs" | `Log`, `LogFormatter`, `Config` |
| ByteArray (`bytearray.cc`) | chain of blocks, position, size, capacity, current block | typed writes and reads, `setPosition`, files, iovecs | `ByteArray` |
| Socket, streams (`socket.cc`, `streams/`) | `m_sock`, `m_isConnected` | `accept`, `connect`, `close`, `send`, `recv` | `TcpServer`, `HttpConnectionPool` |
| TcpServer (`tcp_server.cc`) | sockets, `m_isStop` | `bind`, `start`, `stop`, accept loop | `TcpServer` |
| HTTP messages (`http/http.cc`, `http_parser.cc`) | the message being read; parameters and cookies | parser callbacks, `recvRequest`, `recvResponse`, `getParam` and its kind | `HttpParser`, `HttpRequest` |
| HTTP server (`http/`) | session, servlet table | `handleClient`, `handle`, `addServlet` and its kind | `HttpServer` |
| HTTP client (`http/http_connection.cc`) | pool, `m_total` | `getConnection`, `ReleasePtr`, `doRequest` | `HttpConnectionPool` |
| Util (`util.cpp`) | none | `UrlEncode`, `UrlDecode`, `Trim` | `HttpRequest` |
| Daemon, Env, Address, URI | | | not modelled, see the end |
| `http/http-parser/` | | | not modelled: third-party code |

**How they interact.** Every thread of the scheduler runs `Scheduler::run()`: it takes the first
entry of `m_tasks` it may run, resumes that fiber, and when it finds none resumes its idle fiber.
IOManager is a Scheduler whose idle fiber sleeps in `epoll_wait()` until a descriptor is ready, the
pipe is written (`tickle()`) or the earliest timer is due; it then moves expired callbacks and
woken fibers into `m_tasks` and yields. It is a TimerManager too. The hook layer is their client: a
call that would block starts a timer, registers an event with the current fiber, yields, and finds
out after the wake-up which of the two came first. `m_tasks`, `m_timers`, the table of contexts and
each context have a lock of their own; `m_state`, the counters, `m_stopping` and `m_tickled` are
read and written outside them, which is where most of the hazards are. Above the hooks, a TcpServer
runs one accept loop per socket on one IOManager and one fiber per client on another; an HttpServer
reads requests from that client through the parser and hands them to a servlet; the connection pool
does the converse. Configuration and logging stand beside all this: any thread logs, and the
listener of the variable "logs" rebuilds the loggers.

**What is hard**, and which property is about it, is listed line by line under `hazards` in
`PROJECT.json`. In short: a fiber can be woken before it has gone to sleep; idle threads decide
that all work is done from several unlocked reads; a report of epoll is handled after the
registration has changed; cancellation races expiry; wake-ups are suppressed by flags that are
reset without the write lock; milliseconds are subtracted and converted without a check.

**What makes each part correct**: the scheduler delivers every wake-up once, on an allowed thread,
to a fiber nobody else is running, and `stop()` returns exactly when nothing is left; an event wait
is ended exactly once and epoll, the registry and the counter of pending events agree; a timer is
never early, never late by more than the scheduling of threads, and never fires after a successful
cancel; a hooked call returns data or a timeout, never both and never a stranger's; a message is
read as it was sent wherever the network cuts it between tokens or in a body, answers go to the
requests they belong to, and `stop()` of a server reaches every accept loop; loggers are what the
file says, or the program where the file says nothing, and events reach the log that has the name.

## Modules

### Scheduler, SchedulerMC, TaskPool, SchedulerProofs

`Scheduler` models `scheduler.cc` with the fibers it switches to. `pc[t]` is where thread `t` is in
`run()` and `idle()`, and the actions cut the code where other threads can see the difference:

| Action | Code |
|---|---|
| `ClientSchedule`, `FiberSchedule` | `schedule()` from the thread that owns the scheduler, or from a running fiber |
| `FetchTask`, `FetchNone` | the locked scan of `m_tasks`, with `++m_activeThreadCount` |
| `Resume` | `Fiber::resume()` and its assertion |
| `Yield`, then `SwapOut` | `Fiber::yield()`: `m_state = READY`, then `swapcontext()`; between the two the fiber is still on its stack |
| `Finish`, then `SwapOut` | `MainFunc()` to its end |
| `Retire` | `--m_activeThreadCount` and the release of the fiber |
| `EnterIdle`, `IdleCheck`, `LeaveIdle`, `Exit` | the idle branch, with `m_idleThreadCount` |
| `Start`, `Stop`, `RootDone`, `Join` | `start()` and `stop()`, with and without `use_caller` |

What a fiber computes is left out; it may at any moment schedule something, yield or return. A
locked section is one step, because all access to `m_tasks` is under `m_mutex`. `scheduled` and
`resumed` are history.

`WakeParkedOnly` says what callers do. With TRUE a fiber is scheduled only after it has left its
stack and while it has no other wake-up; with FALSE also while it runs, which is what `addEvent()`
makes possible and `tests/test_scheduler.cc` does. The properties and theorems hold with TRUE; the
run `scheduler_race` shows what FALSE leads to.

`TaskPool` is the abstract specification: submissions, workers that take each of them once and carry
it out, a pool that closes when nothing is left. `IsTaskPool` is the refinement: pending is
`m_tasks` without its order, and a worker carries out a task from the fetch to the moment it has
left the stack.

### TimerManager, TimerManagerMC, TimerManagerProofs

`TimerManager` models `timer.cc` and the half of `IOManager::idle()` that serves the timers.
A Timer is a number because the set is ordered by expiry and then by address. Client threads call
`NewTimer` (the constructor reads the clock before it locks), `Insert` (the locked part),
`TickleFront` (after the unlock), `Cancel`, `Refresh` and `Reset`. The scheduler's threads go
through `RunCallback`, `EnterIdle`, `GetNextTimer`, one of `WakeTimeout`, `WakeTickle` and
`WakeOther`, then `ReadClock`, `CheckEmpty` and `Collect` (the three stages of `listExpiredCb()`:
clock, read lock, write lock), `ScheduleCallback` and `LeaveIdle`. Expiries are reduced modulo
`Word`, the subtraction of an hour wraps, and the conversion of the timeout to `int` is `ToInt`.

Abstractions: getting the timeout and entering `epoll_wait()` are one step, so the deadline counts
from the clock of `getNextTimer()`, and time may pass before and after it. The test of
`stopping()` in `idle()` is left out, threads do not exit. `queued` counts a timer's callbacks in
the task list; they may be run by any thread, since no property depends on the list's order.
A Timer object is used once by `addTimer()`, as `shared_ptr`s are.

`fate` is the history of a timer: whether a callback of it may still be handed out (`pending`), was
handed out (`handed`), has run (`ran`), or was cancelled (`cancelled`); a recurring timer stays
pending when it is handed out. `FireOrCancel` is a property of its steps: nothing but a pending
timer is handed out, and a cancel that returned true is the end of it.

### FdEvents, FdEventsMC, FdEventsProofs

`FdEvents` models the registry of I/O events. A fiber calls `addEvent()` in the steps the code has:
look-up under the read lock (`LookUpToAdd`), growth under the write lock (`Grow`), `epoll_ctl()`
(`WatchEvent`) and registration (`Register`), the last two under the context's lock, and then waits.
`DelEvent`, `CancelEvent` and `CancelAll` are the removals, preceded by their look-up. Idle threads
collect reports (`EpollWait`) and handle them one by one (`HandleEvent`, `SkipEvent`). The kernel's
part is explicit: `interest` is what `epoll_ctl()` has set, `ready` the state of the descriptor,
`rdllist` the descriptors an edge-triggered epoll has still to report; `BecomeReady` and
`BecomeUnready` are the outside world. A context is a pair of descriptor and ordinal since the
table may make a second one for a descriptor; `size` and `made` are the table.

Abstractions: only fibers wait (a callback takes the same path through `triggerEvent()`); an event
is not added twice to a context, which the code asserts and leaves to the caller (`MayAdd`,
`iomanager.cc:208`); closing a descriptor belongs to the hook layer; a queued fiber is resumed once
it has left its stack, because a wake-up before that is the subject of `Scheduler`. `aborted` is the
assertion in `triggerEvent()`; the repository's build defines no NDEBUG, so a failed assertion ends
the process.

### IdleLoop, IdleLoopMC, LoopsMC, IdleLoopProofs

`IdleLoop` puts the task list, the timers and the registrations into one model, coarse in each and
exact in how threads go from one to the other. `place[j]` is where a job is: in the list as a
function or a fiber, with a thread, waiting for a timer or an event, among the callbacks a thread
took, or done. `Fetch`, `FetchNothing`, `Return` are `run()`; `WaitForTimer` and `WaitForEvent` are
what a hooked call does; the three reads of `stopping(timeout)` (timers, events, list) are three
steps, then come the sleep, `listExpiredCb()`, the callbacks that go to the list one at a time, the
reports, and `LeaveIdle`. A tickle is owed from the insertion of an entry to the call
(`owesTickle`), and writes only if `m_idleThreadCount` is not zero then. `StopTickles`, `StopJoins`
and `StopReturns` are `stop()`.

`late` remembers the jobs that began to wait on a thread whose idle fiber had returned already. They
are the only ones `stop()` can leave behind (`OnlyLateWaitsAreLeft`), and it can (`StopDrains`).

`LoopsMC` composes `IdleLoop` with an instance of `TimerManager`, for the liveness of both in one run.

### HookIo, HookIoMC, with proofs in ServerProofs

`HookIo` is `hook.cc` over `fd_manager.cc`. A call is entered (`DoIo`, `Connect`), tries the system
call (`Try`), arms its timer (`Arm`), registers (`AddEvent`, or `AddEventFails`), parks, and goes on in
`Resume` or `SockOpt`. A timer expires (`TimerExpires`), its callback looks at the `timer_info`
(`Callback`) and cancels the event (`CancelEvent`) as three steps, on whatever thread; the call may
have ended, and the fiber be in its next one, before any of them. `Socket` with the two critical
sections of `FdManager::get()` (`LookUp`, `Create`), `Close` with its three stages, `Fcntl`, `Ioctl` and
`SetTimeout` are the other hooks. Numbers of descriptors are reused, sockets are not, so that the
table's context, the waiter and the call each know which socket they mean.

A call may register after the `cancelAll()` of a `close()` and before the system call, and
`CloseUnhooked`, the `close()` of a thread without hooks (`hook.cc:432`), cancels and forgets
nothing. Either leaves the registration of a socket that is gone: the kernel does not watch it any
more (`Watched`), the FdContext still has the event. On the next socket of the number `addEvent()`
then asks epoll to modify what it does not have, and fails (`Registrable`, `AddEventFails`), or
finds the very event and fails its assertion (`AddEventAborts`, after which nothing happens any
more). `connect_with_timeout()` goes on after the failure to `getsockopt()`, which has no error yet,
and returns 0: `ConnectReportsTheTruth` names that way (`cause = "error"`) beside a close and a
foreign cancel. `CloseUnhooked` also leaves the context in the table; `unhooked` is the history of
the numbers it was called for, which `ContextIsOfSocket` excepts.

Abstractions: the IOManager is reduced to who waits for what (`FdEvents` has the rest), time to a
moment at which a timer expires, and `MaxLate` bounds the callbacks on their way. The callers see to
it that one fiber at a time uses an event of a socket, and one makes or closes it (`Exclusive`); the
calls of an earlier socket of the number may still be on their way. Sockets are made on threads with
hooks: one made without them has no context, and every call on it is the system's own.

### TcpServer, HttpServer, ServerProofs

`TcpServer` has `Bind` with its failure, `Start`, `Stop`, and the closing `stop()` schedules, in the
stages other threads can see: `BeginClosing`, then per socket `CancelAll` (from the function and
again from `Socket::close()`), `CloseFd`, then `EndClosing`. `Start` and `Stop` may come at any of
these stages. An accept loop tests `m_isStop`, accepts, registers with the IOManager and is parked.
`aborted` is the assertion of `addEvent()` when two loops wait at one socket, `restarted` that
`start()` came before the closing of an earlier `stop()` was through, `dropped` the sockets a
failing `bind()` forgets while a loop holds them, and `slipped` the loops that register between the
cancelling and the closing of their descriptor.

The table of globs keeps its order: a pattern is added at the end, and only the first entry for it is
erased (`First`, `Without`), which is enough because no pattern is ever in it twice (`HttpTypeCorrect`).

`HttpServer` has one fiber per client: `Recv`, `Dispatch`, `SendResponse` in the order of
`handleClient()` with its three ways out, while the table of servlets is edited (`AddServlet` and
the others). A client may send the next request before it has the answer (`piped`); what stands in
the buffer behind the first request is dropped by the code, so for those clients only the order is
promised.

### HttpParser, HttpRequest, with proofs in HttpConnectionPoolProofs

`HttpParser` reads a stream that may be cut anywhere: `Read` and `ReadFails` are the loop of
`recvRequest()` and `recvResponse()`, `Execute` one call of the parser with the callbacks `OnUrl`,
`OnHeaderField`, `OnHeaderValue`, `OnBody` and `OnOther`, `Executed` what follows it, with `init()`.
The vendored parser is external: it calls a data callback for each piece of a token. A path, a name
and a value end with a character that is not of their text (`Ended`). When a read ends just before
it, the parser has set its mark at the start of the next buffer and calls back with length 0
(`http_parser.c:682-699`, `1066-1068`, `1374-1376`, `1475-1478`): the last piece is empty (`Ends`,
`Texts`), a path is refused and a name or value overwritten by nothing. The callbacks keep only the
last piece of a path or of a header (`cut`, which such a read belongs to); the body is put together.
So `MessageAsSent` says: wherever the stream is cut between tokens or in a body the message is the
one that was sent, and no message is refused but for a cut path.

`HttpRequest` is what a servlet does with the request: `GetParam` and `GetCookie` parse the query,
the form and the cookies when first asked, each once (`m_parserParamFlag`), into maps that
`SetParam`, `DelParam`, `SetCookie` and `DelCookie` change. The maps take names in upper and lower
case for one (`CaseInsensitiveLess`, `Folded`), so of `A=1&a=2` the first stays. The text is what a
client writes with `UrlEncode()`: a sequence of characters of which some are escaped. `ParamsAsSent`
compares with what the client sent, and excepts texts with an `=` in a name (the table at
`util.cpp:524` leaves it as it is) or a name without a value, and names deleted before anybody
asked, which come back with the text.

### HttpConnectionPool, HttpConnectionPoolProofs

A user takes a connection out of the pool or opens one, sends, receives and releases; a request
without the pool is the same without the first and the last step. `Expired` and `TooOld` are the two
tests of age as they are written: `m_createTime` is never set, and the sum is an int below every
time of day, so neither ever holds in the model. The connections to delete are removed after the lock
(`Purge`), and `m_total` is subtracted separately. The peer answers in order, when it likes, or closes.

### ByteArray, with proofs in ServerProofs

The chain of blocks with `m_position` and `m_cur`, under typed writes and reads in both byte orders,
zigzag and varint codings, strings, files and the iovec functions. `items` remembers what was
written where; a write over an item removes it. `Saved` is the loop of `writeToFile()`, which cuts a
piece at a block before it takes the offset off, so that only a save from the beginning of a block
is whole. Blocks of three bytes and integers of eight bits put every value across a border and every
coding at its limit.

`ReadsWhatWasWritten` is about every way of reading: a typed read at the place and in the byte order
of an item returns its value, and `toString()`, a socket and a file get its bytes. A read that uses
the null `m_cur` (`Crash`) is no answer. The code has one: the text of length 0 of a string whose
length ends at the end of the chain is read through `m_cur`, which is null there
(`bytearray.cc:491`); that case alone is excepted (`EmptyAtTheEnd`). An integer's code comes back if
it ends where the decoder stops; that is `Decodable`, which `LibraryMC` evaluates for all integers
of eight bits (`IntsDecode`).

### Locks, SupportProofs, Config, Log, LogFormatter

`Locks` is the handshake of `Thread` (`Construct`, `StoreId`, `TakeCallback`, `Notify`, `Wait`), its
end, and the scoped guards over a `Mutex` or an `RWMutex`. `m_locked` has no initial value and
`lock()` reads it: the value is chosen freely, `strays` counts the guards that found TRUE. The other
models assume that no guard does, which is what the properties of `Locks` say of the rest.

`Config` cuts `LoadFromConfDir()` after the modification time is recorded and `setValue()` into
`Compare`, `Listen`, `Unlock` and `Store`. (`lstat()` comes before the lock and is merged with the
recording; a time another thread has replaced by then only makes the next load read the file again.)
A file's text may be one that cannot be converted, for "logs" or for the plain variable (`fine`):
`fromString()` swallows the error and the variable keeps its value. The listener goes through the
loggers that are new or changed in the order of their names, sets the level of each and clears its
appenders (`Define`), adds the new ones (`Fill`), and then through those that are gone (`Disable`);
appenders are counted per target, since one may be added twice. A changed definition makes it
compare a null logger instead of assigning (`log.cpp:886`), which ends the process (`crashed`). Root
exists from the start and has an appender for stdout (`NewLogger`, `log.cpp:671-680`); the program
may give any logger a level and appenders of its own (`SetLevel`, `AddAppender`), as
`tests/test_log.cpp` does. `given` remembers what it gave since a definition last set the logger.
`LoggersFollowFile` says of a logger with a definition that it is as defined, of one whose
definition is gone that it logs nowhere, and of one that never had any that it is what the program
made it, with the gifts on top in each case. The comment at `log.cpp:928` says more, that a logger
the program made and the file does not define is disabled; the second loop of the listener disables
those that the old value defined, no others. The mutant `DisabledAll` is the comment's version, and
violates the property. `overlap`, `missed` and `own` name the histories after which the loggers need
not follow the file: two overlapping calls, a second write within the recorded second, and a value
the program set.

`Log` has the two tests of the level, the walk over the appenders without the logger's lock, and
`FileLogAppender::log()` in five steps (`Check`, `Reopen`, `Stamp`, `Test`, `Write`) because it
holds a lock only for parts of it. Files are renamed and fill up. `spoiled` is the failed write
after which the stream is never opened again (`log.cpp:571`). `LogFormatter` is the loop of
`init()`, one pass an action, and `Meaning` the reference definition of a pattern: text up to a `%`,
then one conversion. All `%d` of a pattern share one format, the concatenation of their braces
(`log.cpp:301`), so the property speaks of patterns with one date (`OneDate`). The date counts even
if no item is made of it: in `%d{m}%}%d{m}` the unknown conversion in the middle ends the items, but
the only date among them has both formats already. `LibraryMC` has that pattern beside all the short
ones.

### LibraryMC, LibraryProofs

`LibraryMC` extends `HookIo` and has one instance each of `ByteArray`, `HttpConnectionPool`,
`HttpParser`, `HttpRequest`, `TcpServer`, `HttpServer`, `Locks`, `Config`, `Log` and `LogFormatter`.
They share no state: `part` is chosen at the beginning and says which one moves. The variables of
`HookIo` stay at their beginning while another part moves, those of the instances are `off`. The
reachable states are those of the parts side by side, and each property is that of its part.
`LibraryTypes` is the type invariant of the part that moves. The constants of the parts that proofs
speak of are constants here too, and have their values in `Library.cfg`.

## Runs

| Run | Configuration | Shows |
|---|---|---|
| `scheduler` | two pool threads and the caller, a fiber and a function, each scheduled at most twice | passes: `OneThreadPerFiber`, `StopDrains`, `EachScheduleResumesOnce`, `CountersExact`, the refinement `IsTaskPool`, and under fairness `StopReturns` and `TaskRuns` |
| `scheduler_race` | the same with `WakeParkedOnly` FALSE | violates `OneThreadPerFiber` |
| `timers` | one client, two threads, a recurring timer and one that is not, delays of 0 and 1, two values of the clock | passes: `CallbackIffListed`, `FireOrCancel`, `NextWithinDelay`, `NobodyOversleeps`, `NeverEarly` |
| `timers_rollover` | the clock starts within the first `Hour` | violates `NeverEarly` |
| `timers_far` | a delay of at least half of `IntRange` | violates `WaitIsLimited` |
| `fd_events` | two waiting fibers, one that removes, two threads, one descriptor beyond the initial table | passes: `OneWakePerWait`, `PendingMatches`, `InterestMatches`, `ReadyIsReported`, and under fairness `ReadyIsServed` |
| `fd_events_abort` | the same | violates `NoFailedAssertion` |
| `fd_events_table` | two descriptors | violates `RegisteredIsInTable` |
| `loops` | `IdleLoop` with a pool thread, the caller and two jobs that wait at most once each; `TimerManager` with one recurring timer, delays of 1 and 2 | passes: `OnlyLateWaitsAreLeft`, and under fairness `EntryIsTaken`, `StopEnds` and `DueTimersLeave` |
| `idle_ended` | `IdleLoop` as above | violates `StopDrains` |
| `hook_early` | `HookIo` with one fiber | violates `TimeoutResumes` |
| `library` | the instances of `LibraryMC` | passes, per part: `TimeoutIsOwn`, `OnlyEarlyTimersStrand`, `ConnectReportsTheTruth`, `ContextIsOfSocket` (hooks); `RoundTrip` (byte arrays); `AnswerIsOwn`, `PoolCounts` (connection pool); `MessageAsSent` (parser, parameters and cookies); `StopReachesEveryLoop` (TCP server); `AnswersMatchRequests` (HTTP server); `GuardedIsExclusive` (locks and threads); `LoggersFollowFile` (configuration); `LogReachesFile`, `ItemsMatchPattern` (logging) |

The properties of `FdEvents` say nothing after an assertion has failed: the process is gone. Runs
whose specification lets everybody stop (bounds used up, server stopped) do not check deadlock.

**Bounds.** `MaxSchedules = 2` lets a fiber be woken again while its first wake-up retires, which is
the earliest that anything can be doubled; three workers are enough for two to compete and one to
decide that all is done. The clock of the timers runs for `MaxTime - StartTime` milliseconds: with one
of them and a delay of zero a timer expires, comes back and expires again, now and later, while other
threads hold a clock value that has passed; and the values of `Word`, `Hour`, `IntRange` and
`MaxWait` keep the order the real ones have (delays far below the hour, the hour far below the word,
five seconds below half of int). With `StartTime` above `Hour` the rollover test works as intended,
below it it does not: that is the difference between `timers` and `timers_rollover`. `MaxContexts`
is how often the table may make a context for one descriptor: once as long as nothing shrinks it,
twice where that is the subject. Two waiters cover both events of a descriptor, or one event
registered again after a removal. In `loops` two jobs suffice for one to wait while the other is
scheduled, and two threads for one to end while the other still decides.

In `library`: two fibers, two sockets for one number (above the initial size of the table, so that
it grows), three calls per fiber and two waits per call, so that a callback can come one call late
on a descriptor that has changed hands; two users, two connections and three requests, of which one
uses a connection again; two listeners, two loops and two calls of `stop()`, the least for a restart
that meets an earlier closing; three requests and two edits of the table; two guards per thread, one
of them stray; four files, of which one leaves "logs" and one the plain variable unconverted, a
broken one, and one more edit or one thing the program sets, given before or after the file is read;
two events, three seconds of the log's clock past the first and two accidents; every pattern of up
to five characters over five; two messages in a row, cut anywhere; six queries, two forms, two
cookie lines and three operations; four operations on a byte array of three blocks. The two actors
are interchangeable and the run checks invariants only, so their permutations are a sound symmetry.
The other runs use none, as liveness properties would not permit it.

**Fairness.** Threads are the operating system's: a thread that can go on does so (weak fairness of
`Run(t)`, `Idle(t)` and `Tickle(t)` in `IdleLoop`, `Run(t)` in `Scheduler`, `Serve(th)` in
`TimerManager`), `Join` returns when the threads have ended, a client that has inserted a timer goes
on to announce it, a caller inside `stop()` goes on with it. Clients and fibers are not obliged to
call anything, to yield or to return, with one exception: in `Scheduler` and `IdleLoop` the step
`Run(t)` includes what the job on `t` does, so a job does not compute for ever, without which
`stop()` cannot return. In `IdleLoop` a timer expires and an event somebody waits for happens, each
weakly fair: `stop()` waits for both by design, so it returns only if they do; and a sleep ends by
itself, as `MAX_TIMEOUT` makes it. In `FdEvents` a fiber inside `addEvent()` finishes it (weak), and
the threads' steps are strongly fair because they need the context's mutex, which other fibers take
and release: a mutex that starves one thread for ever is excluded, as pthread mutexes do in practice
though they do not promise it. In `TimerManager` `WakeOther` and `Tick`, and in `FdEvents` the
arrival of readiness, are under no fairness.

## What the code does not keep

Seven runs find a property the repository states and the code does not keep; `findings` in
`PROJECT.json` has the lines. (1) `Fiber::yield()` is READY before its context is saved. (2) Within
the first hour of uptime the rollover test fires all timers when two threads read the clock in one
order and lock in the other. (3) A timer 2^31 ms away makes `epoll_wait()` block without limit.
(4) A report of two events, one of which is gone, fails the assertion of `triggerEvent()`. (5) Two
concurrent growths of the context table may shrink it. (6) A thread whose idle fiber has returned
still runs jobs; a timer such a job adds between two reads of `stopping()` is left behind when `stop()`
returns. (7) A timer of `do_io()` that expires before `addEvent()` cancels nothing, and the call waits
without its timeout.

Other ways in which the code falls short are named by the properties that hold apart from them, and
described with the modules above: a stray `m_locked`; `connect()` reported as established after a
close or somebody else's cancel, or on a number with registrations of an earlier socket; the context
left by a `close()` without hooks; overlapping calls of `setValue()`, a file written twice in a
second, the null logger of `log.cpp:886` and loggers that `log.cpp:928` says are disabled; a stream
that has failed once; the formats of several dates in one pattern; a path or header cut by the
network, if only before the character that ends it; requests sent without waiting; a server
restarted before it has closed; names with an `=`; an empty string at the end of a byte array.

## Proofs

The theorems hold for every value of the constants that the named assumptions allow: any number of
threads, fibers, timers, descriptors and clients, any bound on the clock and on calls. Assumptions
on constants stand in the module that declares them, or before the theorem that needs them; each is
said below.

`Invariance` in a module says that its inductive invariant, `Inv`, holds in every state, and
`TypeCorrect` that `TypeOK` does; the others are read off. Each inductive invariant was checked by
TLC on the runs' instances first.

`SchedulerProofs`
- `TypeCorrect`: `TypeOK` is inductive.
- `Counting`: `CountersExact /\ ControlInv` is inductive. `CountersExact` alone would be;
  `ControlInv`, which says how far `start()`, `stop()` and the threads are with respect to each
  other, needs it: once an idle fiber has returned the counter was zero, so no thread is on a fiber,
  so nobody can schedule.
- `WakeUpOnce`, `MutualExclusion`, `ResumeAssertionHolds`: from `WakeUpInv`, under the assumption
  `WakeParkedOnly`. The wake-up of a fiber is in the list, with one thread, or nowhere, and a RUNNING
  fiber is on a thread. The properties themselves are not inductive: two list entries for one fiber
  would be resumed by two threads a step later. `RemoveAtFacts` and `RemoveAtElements` are the lemmas
  about the list.
- `StopIsComplete`: `StopDrains`, from the two invariants above.
- `Refinement`: `WakeParkedOnly => (Spec => IsTaskPool)`, step by step. `run()` maps its fetch to a
  worker's taking, `SwapOut` to the end of the task, `ClientSchedule` and `FiberSchedule` to a
  submission, `Start` and `Stop` to the opening and the beginning of the closing, the return from
  `stop()` to its end, which `StopIsComplete` allows, and every other action to a stutter.
  `WakeUpInv` makes the map well defined: because a wake-up is in one place, the list's entries are
  a set, and a submission is of something not pending.

`TimerManagerProofs`
- `TypeCorrect`: with `ModRange`, no expiry leaves the word.
- `CallbackListed`: `CallbackIffListed` is inductive together with `HeldTimers`: what a client is
  inserting is neither in the set nor known to anybody else, so that the window between the
  constructor and the insertion concerns no one.
- `ExpiryExcludesCancel`: `FireOrCancel`, a property of steps over the history `fate`, from
  `CallbackSomewhere`, which says where a callback can be. A timer that has its callback is pending,
  and what a thread has collected of a timer that does not recur, or the list holds, was handed out
  once and has not run; that `Collect` hands out only what is pending needs `CallbackListed`,
  because only listed timers expire.
- `WithinDelay`: `NextWithinDelay` follows from `StartedInPast`: every expiry is, modulo the word, the
  delay counted from a moment that has passed. `reset()` without `from_now` subtracts the old delay
  from an expiry that may have wrapped; `ModShift` shows that the start it recovers is the right one.

- `SomebodyWakes`: `NobodyOversleeps`. It is not inductive: an insertion at the front is silent
  while `m_tickled` is set. `Watched` says when it may be: if all threads sleep, the flag is set
  only while a byte is in the pipe or a client is about to write one; and if there are timers, such
  a tickle is coming or a thread's deadline is in time for all of them. `getNextTimer()` clears the
  flag under a read lock, but the thread that does so has just read the first expiry.
  `SleepAssumption`: there is a thread, a delay fits half of an int, and the clock does not wrap
  while a timer waits.
- `WaitsAreLimited`: under the same assumption no thread blocks without a limit. The run
  `timers_far` violates the property with a longer delay; the theorem says that this is the only
  way.
- `NothingIsEarly`: `NeverEarly`, if the manager is made after the first hour of the clock and no
  thread takes more than an hour from reading the clock to the lock (`Prompt`). `ClocksRead` says
  that `m_previouseTime` and all clock values in hand are between the start and now; the rollover
  test compares two of them less an hour. The run `timers_rollover` drops the first hypothesis.

`FdEventsProofs`
- `Inv` is `TypeOK`, `Places` (a call past its look-up has a context), and until an assertion fails
  `Registry` and `Counted`. `Registry` is the strengthening: a fiber is in one slot of one context
  exactly while it waits and nothing has woken it, and the context's mutex keeps the event between
  `WatchEvent` and `Register` out of the context. `Counted` is `m_pendingEventCount` as the number
  of such fibers.
- `WokenOnce` (`OneWakePerWait`) and `PendingIsExact` (`PendingMatches`) follow from it.
- `EpollWatchesRegistered` (`InterestMatches`) and `NoReadinessIsLost` (`ReadyIsReported`) need
  `KernelInv`, which says for each descriptor that epoll watches what the context has or is adding,
  and that what is watched and ready is in epoll's list or in a thread's batch. Both hold while no
  descriptor has been given a second context (`NoSecondContext`), with which the run `fd_events` is
  made; finding (5) is how it comes to have one.
- `SmallDescriptors`: if every descriptor is below the initial size, `RegisteredIsInTable` and the
  two properties hold without that condition, so `contextResize()` alone breaks the first.
- Assumption: `InterestAssumption`, that the empty interest is not that of a context.

`IdleLoopProofs`
- `ThreadsLeaveNothing` (`OnlyLateWaitsAreLeft`) from `Inv`: the counters are exact (`Counts`); what
  a thread holds depends on where it is (`Holds`); a job is in one place (`Places`); no idle fiber
  returns before `stop()` was called and the list was empty (`Ends`); and somebody will still look
  (`Looked`): while the list has entries some thread scans it again, and for each timer or event
  that did not begin too late there is a thread whose idle fiber has not returned and which has yet
  to read it. That three unlocked reads suffice is this: a job that moves from the timers to the
  list behind one thread's back was moved by another, which scans afterwards.
- `Finite`: finitely many threads and jobs. The proof showed that an earlier bound on
  `m_pendingEventCount` in `TypeOK` was true only of the small instance: an event is uncounted after
  its fiber was scheduled, so the counter may exceed the waiting jobs by one per thread. `TypeOK`
  has the exact numbers now.

`LibraryProofs`, of `LibraryMC`
- A part that moves behaves as its own specification says (one `...Runs` lemma for each part, which
  makes the others' properties vacuous), and its module is the one that is proved about (one
  `...IsSame` lemma for each).
- With them `AnswersAreOwn`, `PoolIsCounted`, `StopReaches`, `AnswersMatch`, `Exclusion`,
  `EventsReachFile`, `LoggersFollow`, `BytesComeBack`, `ItemsAreMeant`, `MessagesAreAsSent` and
  `TypesHold` carry the theorems of the modules below over to `LibraryMC`, and `TypeCorrect`,
  `TimeoutsAreOwn`, `TimeoutsResume`, `ConnectIsTrue` and `TableIsCurrent` those about `HookIo`.
  `TypesHold` assumes `Bounds`: `Params`, finitely many fibers, bounds that are numbers, and a
  beginning of the clocks from which the logs can be written.

`SupportProofs`, of `Locks`, and of `Log`, `Config` and `LogFormatter` as instances
- `Exclusion` (`GuardedIsExclusive`): `Handshake` orders a thread's start with its constructor by
  the semaphore; `Counts` bounds the lock by the guards inside even with strays; `Exact` makes them
  equal as long as no guard was stray.
- `EventsReachFile` (`LogReachesFile`), no assumptions: `Followed` says until a write fails that the
  stream is open exactly if it has not failed, and that it is on the file that has the name if
  `m_lastTime`, or the event of a thread about to stamp, is later than the last change, or if an
  event three seconds later is past the opening. A thread that stamps an old event after a newer one
  moves `m_lastTime` back, and `Followed` survives that, because it speaks of the stream and not of
  who opened it.
- `LogTypeCorrect`: `TypeOK` of `Log`, if the bounds are numbers and INFO is a level.
- `FileIsFollowed` (`ValueFollowsFile`), no assumptions: `OnTheWay` says that once the file's time
  is recorded a thread has yet to read the file, or its content is in the one call of `setValue()`
  under way (`OneSets`), or it is in the variables. The three exceptions of the property are what
  its proof needs, no more.
- `LoggersFollow` (`LoggersFollowFile`): its other half, `LoggersFollowValue`. As long as no two
  calls of `setValue()` overlap, one call at most is between `Compare` and `Store`, and for each
  logger the invariant says which stage of the listener it is at: it follows the old value while it
  is still to be done, has the new level and no appenders between `Define` and `Fill`, and follows
  the new value after its turn; a definition that only changes its appenders keeps following,
  because `Same` does not see it. What the program gives is on top at every stage: `Define` and
  `Disable` clear both the logger and `given`, and nothing else takes from either.
  `ContentsAssumption`: logger names are ordered, a definition that is present has a level, and a
  level is a number.
- `ConfTypeCorrect`: `TypeOK` of `Config`, under the same assumption and bounds that are numbers.
- `ItemsMatch` (`ItemsMatchPattern`) and `FormatTypeCorrect`: for patterns of any length over any
  characters. `FormatInv` says what the loop has at every pass: the pieces found so far (`Found`),
  followed by the meaning of the pattern from where the present text or conversion begins (`Begun`),
  are the meaning of the whole (`FoundMatches`), and `tmp` is the text since `Begun` (`TextRead`).
  `Meaning` is defined by recursion; `MeaningExists` shows by `SetInduction` that the recursion has
  a solution, and `MeaningOfText` and `MeaningOfConversion` are what the steps use of it.
  `PatternsAssumption`: a pattern is a sequence of characters, and the mark for its end is none of
  them.

`HttpConnectionPoolProofs`, and of `HttpParser` and `HttpRequest` as instances
- `AnswersAreOwn` (`AnswerIsOwn`) and `PoolIsCounted` (`PoolCounts`): a connection is in one place
  (`OnePlace`), only its user closes it (`Connected`), and a connection that is given back open has
  nothing on the wire in either direction (`OneRequest`), which is why it may be used again.
  `Counted` is `m_total` as the number of connections in the three places.
- `MessagesAsSent` (`MessageAsSent`) and `ReaderTypeCorrect`, for any number of messages.
  `ReaderInv` says that `chunk` and `unread` are the rest of the stream after what the callbacks
  have seen, that the tokens at both borders are in `cut` if the border is inside them (`Position`),
  and that `m_data` is what the part of the first message gives that the callbacks have seen, as
  long as no other message has come (`Filled`). A token is whole for the callbacks exactly if no
  read ended in it, its last character included. `StreamHolds` is the layout of the stream: which
  token of which message holds a byte. Assumption: `MaxMessages` is a number.
- `ParamsCorrect` (`ParamsAsSent`) and `QueryTypeCorrect`, for any names and values over any
  letters. `QueryInv` says for each name that the map has what the servlet did last to it (`Held`)
  and, once the texts are in `m_parserParamFlag`, what the client sent for a name, in whatever case,
  the servlet did nothing to; the query and the body are parsed `Together`. It rests on `ParsedIs`:
  to parse the line a client writes of separable pairs, and to decode its pieces, gives the pairs
  back, whatever characters were escaped; and on `FirstOfBoth`: of two texts the one inserted first
  keeps the name. `Parsed` searches and walks by recursion; `WalkExists` and `ParseExists` show by
  `SetInduction` that the recursions have a value. Assumption `Lines`: queries, forms and cookies
  are sequences of pairs of texts over the letters, and `MaxOps` is a number.

`ServerProofs`, of `TcpServer`, and of `HookIo`, `HttpServer` and `ByteArray` as instances
- `StopReaches` (`StopReachesEveryLoop`): the server's sockets listen until a closing reaches them
  (`Open`); a loop's socket is the server's, closed, or dropped by a failing `bind()` (`Owned`); a
  loop parked at a closed socket registered after the last cancelling (`Missed`); after a closing no
  loop has a socket of the server (`Through`); and as long as `start()` was never called too early
  there is one loop per socket (`Orderly`).
- `TimeoutsAreOwn`, `TimeoutsResume`, `ConnectIsTrue` and `TableIsCurrent` prove `TimeoutIsOwn`,
  `OnlyEarlyTimersStrand`, `ConnectReportsTheTruth` and `ContextIsOfSocket`. `HookInv` has their
  common ground: which call a fiber is in (`InCall`), that it works on the socket it began with
  until a `close()` (`SameSocket`), that a table entry belongs to the number's present socket unless
  it was left by a `close()` without hooks (`Table`), who is registered (`HookWaiting`), and what
  timers, fired timers and callbacks on their way say of the call they were made for (`Timers`).
- `Params`: nobody is not a fiber, descriptors are numbers, the bounds are numbers.
- `AnswersMatch` (`AnswersMatchRequests`), no assumptions: the buffer holds the last requests the
  client sent, in order; the one in hand is older than those and younger than all that were
  answered; a client that never sent ahead (`piped`) has at most one request that is not answered.
  The table of servlets plays no part.
- `HttpTypeCorrect`: `TypeOK` of `HttpServer`. It says that a pattern has one entry in the table of
  globs; the invariant adds what an entry is. `EraseFacts` says what erasing one entry of a sequence
  leaves.
- `RoundTrips` (`RoundTrip` of `ByteArray`) and `BufferTypeCorrect`: for blocks of any size, a write
  over any number of blocks and any sequence of operations. `BufferInv` is `Shape` (the blocks, and
  `m_cur` as a function of `m_position`), `Contents` (the bytes of an item are in the chain where it
  says, and are a code of its value), `LastTypes` and the property. `AfterIs` shows that the walk
  from `m_cur` finds the block of any later position, `ByteOf` reads the chain as one sequence of
  bytes. Assumptions: a block has a byte at least (`Sizes`); what is written fits its fields, and an
  integer's code is `Decodable` (`Values`).
- The prover cannot instantiate the library's induction theorems, whose parameter is an operator.
  `SetInduction` is induction over a set, from the well-foundedness of `<` and `WFMin`, which need
  none; with it the loop of `writeToFile()` is shown to have a value (`Saved` is defined by
  recursion) and to write the bytes of the chain.

**Only model-checked.** Liveness (`StopReturns`, `TaskRuns`, `EntryIsTaken`, `StopEnds`,
`DueTimersLeave`, `ReadyIsServed`): the prover has neither fairness nor `ENABLED`. That the codec of
`ByteArray` gives back every integer (`Decodable`) is evaluated for eight bits, and assumed for
other widths. The properties of the violation runs hold under conditions, which theorems above state
for all but `fd_events_abort`: a wake-up only of a parked fiber (`scheduler_race`), the hypotheses
of `NothingIsEarly` and `WaitsAreLimited`, small descriptors (`fd_events_table`), no job that began
to wait too late (`idle_ended`), no timer that expired before its event was registered
(`hook_early`). No simple condition keeps the assertion of `triggerEvent()`: even one waiting fiber
can fail it, with a stale report of an error that comes to stand for its next event.

## Not modelled

- `daemon.cc`: a loop of `fork()`, `waitpid()` and a pause; parent and child share no state afterwards.
- `env.cc`: a table of strings under a lock, filled once from the command line.
- `address.cc`, `uri.cc`: wrappers of socket addresses and text; no state beyond the value itself.
- The rest of `util.cpp` and `macro.h`: backtraces, files, time formats.
- `LexicalCast` of `config.h` between YAML and containers, and what `FormatItem`s, `dump()` and
  `toString()` print: formatting, about which no property here speaks.
- Socket options and datagrams: system calls with no state of the library's.
- Fibers outside a scheduler, `Fiber::reset()` and the destruction of fibers.
- `http/http-parser/`: third-party code, external to `HttpParser`.

## Plan

What is left: a composition of `HookIo` with `FdEvents`, so that the waits of the one are those the
registry of the other wakes, and recurring socket timeouts with lengths of time.
