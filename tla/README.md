# FHT: verification project

FHT (Framework Handler Task) is a C++ library: a program registers *handlers*
under names, posts *tasks* to a few scheduler threads, runs a *web service* that
calls the handlers, and may use an *HTTP client*, a *PostgreSQL pool* and a
*logger*. This directory holds TLA+ models of those parts, the TLC configurations
that check them, and proofs about each of them that TLAPS checks. Paths below are relative to the repository:
`Task.cpp` is `src/FHT/Common/Controller/Task/Task.cpp`, and so on;
`PROJECT.json` maps every definition to the lines it stands for.

    tlc  -config Hendler.cfg Hendler.tla        one of the runs
    tlapm TaskThreadProofs.tla                  the proofs; likewise the other
                                                modules named ...Proofs

## 1. Inventory

| component | state | operations | talks to |
|---|---|---|---|
| **TaskManager** (`Task.cpp`): four threads, one for each `listTask`: FHT_MAIN, MAIN, IO, UI | per `Thread`: `queue_`, `isRun_`; per `internalThread` (the "waker"): `m_sleep`, `m_wait`; the worker's locals | `postTask`, `postLoopTask` (push), rounds of `Thread::loop`, the waker's loop, `~Thread` | everybody posts to it; it calls functors |
| **HendlerManager** (`Hendler.cpp`) | `mapHendler_` (of FHT_MAIN), the published copy `mapHendler_ptr`; the same twice for lists | `addUniqueHendler`, `removeUniqueHendler`, `getUniqueHendler`; the closures they post; a recurring publishing task; `~Hendler` | posts to FHT_MAIN; the web service looks handlers up |
| **WebService, threads** (`ServerCoro.cpp`, `ServerAsync.cpp`) | `m_ioc`, `m_pool`, `m_worker`, the listener | `run`, `setWorker`, the listener's start, the threads' loops, `~Server` | sessions run on its threads; so do handlers, which may fetch from this server |
| **WebService, sessions** | per connection the request, its data, the handler | read, parse, search, call, answer, close | looks up and calls handlers |
| **WebService, web sockets** | the stream, `m_buffer`, the `wsSubscriber` and its closures | upgrade; read loop, `stop`, `getPublisher`, `deleter` | threads of the application hold weak pointers to a `wsSubscriber` |
| **WebClient** (`Client.cpp`, `WebClientCoro.cpp`, `WebClientAsync.cpp`) | per fetch: stream, deadline, what the callback was told | `fetch` | a remote server; the callback of the caller |
| **Postgres** (`Postgresql.cpp`, `PostgresConnection.cpp`) behind **dbFacade** (`DBFacade.cpp`) | `m_config_ptr`; `m_pool_conn`, `m_isRun`, per connection the prepared statements | `SetConfiguration`, `run`, `query` (get, prepare, execute, give back) | the database; a recurring `DELETE` posted to MAIN |
| **Logger** (`Logger.cpp`, `LoggerStream.h`) | level, interval, `m_write` with `m_list`, the file | `log`, setters, the dump task, `~Logger` | posts the dump task to FHT_MAIN |
| **SQLite** | as Postgres | as Postgres | |
| **CoreFHT, Config** | values read from a file | `InitCore`, `skeleton_daemon` | calls the setters of the others |

Hard behaviours, and what makes each component correct:

* *TaskManager.* Two threads share `m_sleep` and `m_wait`, partly without a lock;
  a condition variable with two reasons to wait; a size that is read under one
  lock and counted down under others; functors that throw. Correct means: no pop
  of an empty queue, no lost wakeup, a task in one place, never early, never
  forgotten, and every due task called in the end.
* *HendlerManager.* Decisions are taken on a copy that may be stale, and take
  effect later, in another thread, perhaps after the registry has been
  destroyed. Correct means: nothing that was removed comes back, nothing
  vanishes unasked, and the published map converges. The pointer to the copy is
  itself shared without a lock.
* *WebService.* Threads outlive the context they run; handlers that wait for
  the server they occupy; a registry that changes during a search that takes
  several lookups; connections that are reused; threads of the application that
  use a web socket while its session reads, fails and ends. Two builds (CMake
  option `WITH_COROUTINE`) do the same in different ways, and each of them with
  a blocking `run` or a polling loop (`BLOCKING_IO`).
* *WebClient.* The peer may fail or fall silent at each step, and the callback
  must be told exactly once, or once and once more of a failure to close.
* *Postgres.* A pool at its limit, with waiting, notification, failing
  statements, a failed `run` that is tried again, and a task that queries the
  pool from a scheduler thread that does not survive what it throws.
* *Logger.* Lines of several threads, a dump that runs beside them, lazy creation
  and destruction.

`hazards` in PROJECT.json lists these places line by line.

## 2. Modules

| module | models | runs |
|---|---|---|
| `TaskService` | abstract: what one scheduler thread promises | (refined in thread) |
| `TaskThread` (`MCTaskThread`) | `Thread`, `internalThread` | thread |
| `ThreadDestructor` (`MCThreadDestructor`) | `~Thread` to its end, over `TaskThread` | thread_destructor |
| `TaskThreadProofs` | theorems about `TaskThread` | |
| `Hendler` | the registry | hendler |
| `HendlerProofs` | theorems about `Hendler` | |
| `HendlerSnapshot` | the life of one published map | hendler_snapshot |
| `Postgres` (`MCPostgres`) | the facade, the pool and the recurring task | postgres |
| `PostgresProofs` | theorems about `Postgres` | |
| `Server` | `run`, the listener, the threads, handlers that fetch | server |
| `ServerProofs` | the type invariant of `Server` | |
| `Query` | `parseUrl`, and what it should compute | (in http) |
| `Http` | what both builds of a session share: names, search, answers | |
| `HttpCoro`, `HttpAsync` | a connection, with and without coroutines | |
| `HttpSession` (`MCHttp`) | either of the two | http |
| `HttpSessionProofs` | theorems about `HttpSession` and its search | |
| `WsCoro`, `WsAsync` | a web socket, with and without coroutines | |
| `WebSocket` | either of the two | web_socket, web_socket_released |
| `WebSocketProofs` | theorems about `WebSocket` | |
| `Fetch` | abstract: what a fetch tells its callback | (refined in client) |
| `WebClient`, `WebClientAsync` | fetches, with and without coroutines | |
| `HttpClient` | either of the two | client, client_kept |
| `HttpClientProofs` | theorems about `HttpClient`: both builds implement `Fetch` | |
| `Logger` | the logger | logger |
| `LoggerProofs` | theorems about `Logger` | |

How they compose: `ThreadDestructor` extends `TaskThread`. `Hendler`, `Logger` and
the recurring task of `Postgres` use of their thread only what `TaskService`
promises (one functor at a time, no order among those that are due, each called in
the end), which `TaskThread` is proved to implement as to safety and checked to
implement as to liveness. The sessions see of the registry what `Hendler` publishes:
another map at any time. `Server` has of a session that it holds a thread while its
handler runs and needs one again for its answer, and of a fetch, made by such a
handler, what `FetchReturns` says: it ends, if need be by its deadline.
`HttpSession`, `WebSocket` and `HttpClient` choose the build in the initial state
and ask the same questions of both; the two builds name the places of their
programs differently, so that only one of them ever has an enabled action.

### TaskThread

State is the code's: `queue_`, `m_sleep`, `m_wait`, `isRun_`, the time stamp in each
`Tuple` (`ts`), the worker's locals (`realtime`, `sleep`, the countdown `size`, the
task in hand `cur`) and a program counter for worker, waker and each caller. A
critical section of `mutex` is one step, except the second half of `sizeTask`
(`DisLoad`, `DisStore`, `DisPark`/`DisLeave`), where the worker touches `m_sleep`
and `m_wait`, which the waker (`WakerToggleRead`/`Write`, `WakerReset`) and callers
(`PushBegin`) touch without a lock; `isWait` returns `m_wait`, which a compiler may
or may not read again, and the model takes either. `PushPut` and `PushNotify` are
two steps because `notify_one` follows the unlock.

Choices: a sleep takes any time; an empty functor counts as FINISH; `putTask` called
by the worker itself notifies nobody, since only the worker waits; an exception that
is not a `std::exception` ends the process and is left out (what that means to a
caller is in `Postgres`); `clock` stops at `MaxTime`.

### Hendler, HendlerSnapshot

`add` and `remove` copy the published pointer (`Begin`), decide on that copy (`Refuse`,
`Post`), and their closure runs later on FHT_MAIN (`RunEmplace`, `RunErase`); the
publishing task copies (`PublishCopy`) and swaps (`PublishSwap`). `mapList_` is the
same code over a second map and is not repeated. `getUniqueHendler` changes no state.
`Destroy` may come at any time: the closures and the publishing task refer to the object
and are not taken back, so that FHT_MAIN uses it after its end (`UseDestroyed`), which
the model records by stopping that thread (`mpc = "lost"`).
`HendlerSnapshot` takes the two words of the `shared_ptr` apart, which the callers copy
without the mutex the publishing task takes.

### Server

A context is one `io_context`, made by one `run`; `at[t]` is the context that thread `t`
is inside, `on[t]` the request whose handler it runs. `run` is four steps (`RunStop`,
`RunReset`, `RunListen`, `RunThreads`), because the threads of an earlier run go on
beside it and read `m_ioc` again: a thread that looks at the new context before it has a
listener finds no work and stops it for good (`NoWork`). Freeing a context has a fate:
`"freed"` if a thread is inside, `"swallowed"` if a coroutine that awaits its write is
unwound (the `catch (...)` around it does not let the unwinding pass). Others are
`"thrown"`, `remote_endpoint` of a client that is gone, outside of every `try`, and the
three ends of `~Server`: a null `m_ioc`, threads that nobody joined, or quiet. `fate`
stops the model, and nothing is claimed of what follows. A fetch's deadline passes only
when no thread is free for its request, which is what it is there for; one that passes
before a free thread answers is a slow server, and changes nothing of what is asked.
`RunThreads` may make fewer threads than asked: a `std::thread` that cannot be made throws.

### Query, Http, HttpCoro, HttpAsync

`Parse` is the loop of `parseUrl` as a fold, with its end of the query as one more `&`;
`Params` says independently what the parameters are, and the two are compared for every
query of at most five characters when `MCHttp` is checked (`ParseMeansParams`).
A location is a sequence of segments and `Places` lists the names in it in the order of
the search loop; `Serves` and `Length` define independently what a best match is. Any
segment may be empty, as in `/a//b`, whose names are `/a//b`, `/a//`, `/a/`, `/a` and `/`:
`Places` then has `/a/` twice, and `Behind` stops there once, as the loop does. Each lookup is
a step, and the published map may change between two. In the coroutine build
the data of a request are locals of a turn of the loop; in the other they are members of
the connection, whose headers are filled with `emplace` and whose parameters are assigned.
A target that begins with its `?` has an empty location: the search loop does not turn, the
coroutine answers 404 and the other build calls what `m_func` still holds. `pc = "last"`
stands for the coroutine's `return lambda(...)`. Left out: the formatting of
`nextLocation`, bodies, the remaining fields of `dataRequest`.

### WsCoro, WsAsync

`ws` (`m_ws`) is who holds the stream, `subRefs` who holds the `wsSubscriber`. What the
messages hold is left out. Users are threads of the
application that lock the weak pointer their handler has been given and call `getPublisher`
or `stop`, in any order and as often as they like, as the tasks of
`example/TestWebServer/Test/Test.cpp:92-112` do. In the coroutine build the closures own
copies; in the other they refer to the session, whose destruction is `End`. Undefined
behaviour sets `bad` and stops that thread. It is reachable: without coroutines a locked
weak pointer keeps the `wsSubscriber` but not the session its closures refer to (`bad =
"freed"`), and `stop` resets `m_ws` between two uses by the io thread (`bad = "null"`);
with coroutines only two threads inside `stop` can do that. Handler, subscriber and deleter
may throw: the coroutine catches it and unwinds (`pc = "unwind"`), the other build lets it out
of the io thread, which ends the process (`pc = "thrown"`).

### WebClient, WebClientAsync, Fetch

A URL is one of four kinds. Each await (or pending operation) succeeds, fails or, once a
deadline is armed, times out. `Fetch` is what the callback may be told: one response, or
one error, or a response and then an error; then the fetch returns; or it throws first. It
may be silent only before it has got under way.

### Postgres

`run` of the facade moves the configuration away (`RunBegin`) and `Postgres::run` then makes
the connections one by one. One step per critical section of `m_mux`; `notify_one` after it
is a step of its own. Statements of a connection (`stmts`) and what the server has prepared
(`server`) are kept apart, and the server may refuse anything: a connection, a statement, an
execution. `Deletes` are the queries of the recurring task, which calls `query_private`
itself: what that throws is no `std::exception`, which is all the scheduler catches, so that the
process ends (`down`). Names of statements are hashes in the code;
collisions are left out. The texts of errors are data.

### Logger

`Check` and `Create` are two steps without the mutex, as in `log`; two threads between
them, or a dump that locked its weak pointer before the destructor, are undefined
behaviour: `undefined` is set and nothing is claimed of what follows. `late` tells whether
the program changes level and interval at any time, or only before its first line as
`InitCore` (`CoreFHT.h:20-25`) does.

## 3. What the runs check

| run | instance | shows |
|---|---|---|
| thread | a recurring task without delay and one after 1 ms that may throw; `MaxTime` 2; fair | `NoPopEmpty`, `OnePlace`, `RecurringTaskKept`, `RoundCovers`, `WakeupPending`, `NotEarly`; `ServiceSpec`: the thread implements `TaskService`; `DueTaskStarts`, `StopReachesWorker` |
| thread_destructor | 1 task | violated: `DestructorReturns`. The waker is joined (`Task.cpp:140`) before the flag it looks at is cleared (`Task.cpp:98-100`) |
| hendler | 4 calls, 2 ids; destroyed at any time, or not; fair | `NoResurrection`, `EveryLossAsked`, `RemoveTakesEffect`, `Converges` |
| hendler_snapshot | 2 readers, 2 publications | violated: `LookupInLiveMap`. A lookup may run in a destroyed map (`Hendler.cpp:63`) |
| postgres | 4 queries, one of them the recurring task's, with 2 statements; 3 connections, 2 workers; fair | `Exclusive`, `NoLeak`, `WakeupsCover`, `PreparedBeforeExec`, `QueryReturns` |
| server | 4 builds; 2 requests, the handler of one fetches; 2 runs, up to 2 threads each; fair | `EveryAnswered`, `FailedListenerRests` |
| http | 8 kinds of request, 6 names, 2 requests on a connection | `LongestStable`, `OwnData`, `ClosedOnlyAsked`; `ParseMeansParams` |
| web_socket | 3 users; fair | `ClosureHasStream`, `DeleterLast`, `ReleasedByMember`; `EndTold` |
| web_socket_released | 1 user | violated: `Released`. In the coroutine build the `wsSubscriber` owns itself (`ServerCoro.cpp:183`) |
| client | 2 fetches, fair | `FetchSpec`: both builds implement `Fetch`; `FetchReturns` |
| client_kept | 2 fetches | violated: `ResponseKept`. A failed shutdown replaces the response (`WebClientCoro.cpp:80`) |
| logger | 2 threads with 2 lines, fair | `LinesOnce`, `InOrder`, `ListDrained` |

Every run of the table that passes also checks its module's `TypeOK`. Every property of a
passing run has a mutant in PROJECT.json, a plausible slip in the code that makes TLC find
it violated; the mutated definitions stand in the modules in front of the ones they change.

Some properties are claimed of one build only, or with an exception, because the code does
otherwise:

* `OwnData` speaks of headers for the coroutine build only. `HttpAsync`'s `m_dataReq`
  outlives the request, and its `emplace` (`ServerAsync.cpp:133`) keeps the header of an
  earlier one. The parameters are the request's own in both.
* `EndTold` excepts a session that is thrown out of (`Broken`): a subscriber that publishes
  on a closed connection throws past the loop (`ServerCoro.cpp:216`), and no deleter runs; and
  the undefined behaviour of section 2.
* `LongestStable` excepts the empty location without coroutines: `m_func` is left from the
  request before.
* `ClosedOnlyAsked` excepts the coroutine build's error answers: they are made with the
  client's `keep_alive` (`ServerCoro.cpp:78`), and `session` returns behind them.
* `EveryAnswered` speaks of a second run only when the threads of the first had ended
  (`calm`). `FailedListenerRests` is claimed of the coroutine build with `BLOCKING_IO`:
  `on_accept` of the other goes on calling `do_accept`, and polling threads never return.
* `QueryReturns`, `RemoveTakesEffect` and `Converges` except what ends the process or
  the registry (`down`, `destroyed`).

**Bounds.** In `thread` one task is in hand or in the queue while the other is pushed, and
one millisecond tells due from not due, with one more to pass; rounds, dozes and wakeups
repeat without limit. The safety half is proved for every set of tasks (section 4), so the
instance is chosen for the liveness half. In `hendler` two calls race for one id with a stale
copy while two more add and remove again, or work on the other id. Two connections and four
queries fill the pool, make two wait and let a newcomer steal what a notification announced;
the third connection is what a failed `run` leaves. In `server` one thread can be taken by the
handler that fetches while the other serves it, or both are taken; two runs give an old thread
beside a new context. Two requests on a connection are what it takes to see the data of an
earlier one; two segments give all four kinds of names, and three, the second empty, a name
that occurs twice; the queries of `MCRequests` have a
repeated name, a leading, a doubled and a trailing separator. Three users of a web socket are
one in a closure, one that locks and one that lets go. Fetches do not interact, and two show that. The registry has
no counters: its repetition is bounded by the calls alone. Two lines per thread are what an
order needs.

**Fairness.** A thread that can go on does (weak fairness of each process), time
passes, functors return. Two places need strong fairness: the waker must get a mutex
that the worker releases over and over (`WakerCheck`, `WakerLock`), and the data race on
`m_wait` must not turn every "do not wait" into "wait" (`DisLeave`); without it spurious
wakeups or the race may go on for ever in step with each other. In `Hendler` a posted
closure and the publishing task run in the end, which is `DueTaskStarts` of FHT_MAIN. The
server asks that `run` goes on once called, that a thread runs what its context has for it,
and that handlers return and fetches end; not that clients send or the program runs again. A web socket
asks that its session goes on where it can, and so that the read of a closed connection
completes; nothing of the peer, or of the threads that use it. The
client asks fairness of the caller, the resolver and the deadlines, none of the peer. The
pool asks that a thread inside a query goes on. The logger asks it of the dump task and of
a thread that has begun a line. Nobody has to call, push, stop, remove or destroy.
`CHECK_DEADLOCK FALSE` stands where the modelled part may really come to rest: all calls
made, the connection over, the thread stopped, the process ended.

## 4. What is proved

Every safety invariant that a passing run checks is a theorem, and so are the two
refinements, of `TaskService` by the scheduler thread and of `Fetch` by the client. Few of
the invariants are inductive by themselves; the strengthenings are each proved with one step
per action, or per group of actions that touch the same variables, and TLC has checked them
on the instances of section 3. The assumptions are those of the modules, which TLC evaluates
in the runs, and, where it is said, that a set is finite.

### The scheduler thread

`TaskThreadProofs` proves, for every finite or infinite set of tasks, all delays,
outcomes and `MaxTime`, from `TaskThreadAssumption` alone (the null task is not a task;
delays are integers; outcomes are outcomes):

| theorem | says |
|---|---|
| `TypeCorrect` | `Spec => []TypeOK` |
| `NoPopEmptyHolds` | `Spec => []NoPopEmpty` |
| `WakeupPendingHolds` | `Spec => []WakeupPending` |
| `OnePlaceHolds` | `Spec => []OnePlace` |
| `NotEarlyHolds` | `Spec => NotEarly` |
| `RecurringTaskKeptHolds` | `Spec => []RecurringTaskKept` |
| `RoundCoversHolds` | `Spec => []RoundCovers` |
| `ServiceImplemented` | `Spec => ServiceSpec`: `TaskThread` implements `TaskService` |

* `Base` = `TypeOK` and: the worker has a task in hand exactly between `getTask` and
  `putTask` (`InHand`), and the countdown fits into the queue at every place of the round,
  not only where it pops (`RoundFits`). `PutBack` and `Repost` need both.
* `Waking` adds to `WakeupPending` what the worker leaves behind on its way into the doze:
  between `DisStore` and `DisPark` either `m_wait` is set or the waker has seen it.
* `Place` adds to `OnePlace` that the task in hand has been put into the queue by its
  caller, so that `PutBack` does not meet a second copy.
* `Past`: `realtime` is never ahead of the clock. `NotEarly` follows, because `NotDue`
  compares with the older of the two.
* `AllKept`: `RecurringTaskKept` as it has to be stated for each task to be preserved by a
  pop and by a throw.
* `Owing`: a task the round owes is among the first `size` of the queue, or in hand.
  `PutBack` at the tail keeps it, and at `size = 0` nothing can be owed.
* `ServiceImplemented` uses `Base`, `Place` and `Past`: each step of the thread is a step
  of `TaskService` or a stutter (`ServedStep`).

### The registry

`HendlerProofs` proves, for all ids and calls, from `HendlerAssumption` (the null function
is no call; there is an id) and, for the last theorem, `CallsFinite`:

| theorem | says |
|---|---|
| `TypeCorrect` | `Spec => []TypeOK` |
| `NoResurrectionHolds` | `Spec => []NoResurrection` |
| `EveryLossAskedHolds` | `Spec => []EveryLossAsked` |

* `Base` adds to `TypeOK` that what the publishing task is about to swap in is what
  `mapHendler_` still is (`CopyCurrent`): FHT_MAIN runs no closure in between.
* `Past`: both maps hold, under an id, only functions of calls about that id whose closure has
  run (`Placed`), and what went away is of such a call and in neither map (`GoneForGood`).
  The closure of a call runs once, so its function never gets another chance.
* `Paid`: the functions of an id that were published, or still are, and are no longer in
  `mapHendler_` are no more than the erases that have run for that id.

### The pool

`PostgresProofs` proves, for all queries, connections, statements and every `m_worker`, from
`PostgresAssumption` and, for the last theorem, `QueriesFinite`:

| theorem | says |
|---|---|
| `TypeCorrect` | `Spec => []TypeOK` |
| `PreparedBeforeExecHolds` | `Spec => []PreparedBeforeExec` |
| `ExclusiveHolds` | `Spec => []Exclusive` |
| `NoLeakHolds` | `Spec => []NoLeak` |
| `WakeupsCoverHolds` | `Spec => []WakeupsCover` |

* `Base` adds to `TypeOK` that a query holds a connection exactly where its program says
  so (`InHand`).
* `Known`: what a connection remembers of its statements the server has prepared for it
  (`Remembered`). A failed prepare touches neither.
* `Exclusive` is preserved given `Base`; `PoolStep` says what each action does to the
  connections in the pool and in hand, and `Counted` counts them.
* `WakeupsCover` needs that queries are let in only after a successful run (`LetIn`): no
  connection is added to the pool while somebody waits, except with a notification to come.

What a push and a pop do to a queue, to its elements and to their being distinct is in the
lemmas on sequences at the head of `TaskThreadProofs` and of `PostgresProofs`.

### The server's threads

`ServerProofs` proves `TypeCorrect`, `Spec => []TypeOK`, for every `MaxWorker`, `MaxRuns`,
every set of requests and every choice of those whose handlers fetch, from
`ServerAssumption`. Its last part, that a handler is under way exactly when a thread runs it,
is kept by `Handlers`: two threads never run the same request, so that one of them can leave
it. That rests on `Fetched`: the request a handler makes is not there before it is made, so
that making it cannot reset one that a thread is running, and on `Owned`: it is none of the
clients' and no two handlers make the same.

### Sessions

`HttpSessionProofs` proves, in either build, for all requests, all names, any
`MaxRequests` and whatever maps are published during a search, from `HttpAssumption`:

| theorem | says |
|---|---|
| `SearchOrder` | the names of a search may all serve the request, none that is registered and may serve is missing, and a name is shorter than every other name before it |
| `TypeCorrect` | `Spec => []TypeOK` |
| `LongestStableHolds` | `Spec => []LongestStable` |
| `ClosedOnlyAskedHolds` | `Spec => []ClosedOnlyAsked` |
| `OwnDataHolds` | `Spec => []OwnData`, if `Parse` computes `Params` for the queries of the requests |

* `SearchOrder` is about `Places` for locations of every length. `UptoLength` says that the
  name of a length has that length, or, where a segment is empty, is the name before it over
  again; `UptoAll` that no name is left out.
* `Sought`: what stayed registered and may serve the request is among the names the search
  has still to look up (`Ahead`). `AheadNext` is the heart: a name that is not in the published map
  has not stayed, so the search may go behind it, and behind its repetition.
* `Closing` says which answers can be under way at which place; `Given`, that the data of the
  handler are those of the request at hand, in `HttpAsync` as to its parameters only.
* The hypothesis of `OwnDataHolds` is what `ParseMeansParams` checks for every query of at most
  five characters. It is an induction over the query and stays with TLC.
* The two builds are instances of their modules; `Shared` says that what they have from
  `Http` is the same in both.

### Web sockets

`WebSocketProofs` proves, in either build and for any set of threads of the application, from
`WebSocketAssumption` (no thread of the application is called like the other two holders of the
`wsSubscriber`):

| theorem | says |
|---|---|
| `TypeCorrect` | `Spec => []TypeOK` |
| `DeleterLastHolds` | `Spec => []DeleterLast` |
| `ClosureHasStreamHolds` | `Spec => []ClosureHasStream` |
| `ReleasedByMemberHolds` | `Spec => []ReleasedByMember` |

* `Base` adds to `TypeOK` and `DeleterLast` that the threads are in calls of the build whose
  session there is (`Apart`).
* `UsersHold`: a thread holds the `wsSubscriber` exactly while it is in a call.
* `CoroHolds`: as long as anybody holds the `wsSubscriber`, so does its publisher the stream:
  hence no closure of the coroutine build is without one, whoever calls `stop`.
* `AsyncHolds`: in the other build only the session and the threads hold it, and the session
  no more once its member is dropped.

### The client

`HttpClientProofs` proves, in either build and for any number of fetches, without an
assumption, `TypeCorrect` (`Spec => []TypeOK`) and `KeepsPromise` (`Spec => FetchSpec`): each
step of a fetch is a step of `Fetch` or a stutter. The invariant says, for each fetch and each
place of its program, what it has told its callback and whether its deadline is armed: nothing
before the response is read, the response alone while the connection is shut down.

### The logger

`LoggerProofs` proves, for any threads and every `MaxLines`, from `LoggerAssumption`:

| theorem | says |
|---|---|
| `TypeCorrect` | `Spec => []TypeOK` |
| `LinesOnceHolds` | `Spec => []LinesOnce` |
| `InOrderHolds` | `Spec => []InOrder` |

* `Numbered`: no line has a number its thread has not reached; the next one is new.
* `ListHasWriter`: lines are in the list only while there is a writer that will dump them,
  which the destructor takes away with the list.
* `Logging`: whoever is in `log` is within its bound, in a live logger, and comes to the list
  with a writer made.
* `Once` is `LinesOnce` place by place, `Increasing` is `InOrder` of any list.

**Only model-checked:** all liveness (`DueTaskStarts`, `StopReachesWorker`,
`RemoveTakesEffect`, `Converges`, `QueryReturns`, `EveryAnswered`, `FailedListenerRests`,
`EndTold`, `FetchReturns`, `ListDrained`), because the installed provers have neither rules for
fairness nor ENABLED; and that `Parse` computes `Params`, an induction over data.

## 5. Not modelled

* *Table of threads* (`Task::startManager`, `stopManager`): four threads made once and never
  changed. A post during `~Task` is undefined, and `~Task` does not get past its first
  thread (thread_destructor).
* *Contents of the messages of a web socket*. Without coroutines `async_read` appends to
  `m_buffer`, which nothing consumes (`ServerAsync.cpp:254`): a subscriber is given the earlier
  messages again, in front of the one just read. The coroutine makes a buffer for each read.
* *SQLite*: part of no build. `fht.cmake` names a `sqliteConnection.cpp` that does not
  exist where it says, and `SQLite.cpp` includes a header that does not exist. Line for line
  it is `Postgresql.cpp`.
* *CoreFHT*, *Config*: one thread, before anything runs; `skeleton_daemon` forks after static
  initialisation has started threads, none of which the child has.
* *Examples* and build files are read as the library's clients; of them the handler that
  fetches from its own server is part of `Server`.

## 6. Plan

1. Done: the scheduler thread with its abstract specification and proofs; the registry and
   the pool with theirs; the server's threads; sessions, web sockets and client of both
   builds; the logger.
2. Done: theorems about the sessions and their search, web sockets, client, logger and
   threads of the server. Every safety invariant of a passing run is one.
3. `Hendler` and the recurring task of `Postgres` composed with `TaskService` itself instead of
   its promises, and the registry inside `HttpSession` refined by `Hendler`: what a session sees
   of it is proved to be what it publishes.
4. What the liveness properties of the server and the logger rest on, stated as invariants
   and proved, as `WakeupsCover` is for the pool: a request that waits has a context whose
   threads go on, lines in the list have a dump to come.
