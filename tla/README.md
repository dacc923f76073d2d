# Verification of Radar-software

TLA+ specifications of the concurrent and algorithmic core of Radar-software, model-checked
with TLC on small instances and, where that is within reach of the TLA+ proof system, proved
for every value of their parameters. Every definition is translated from the source; the file
`PROJECT.json` names the lines each one stands for, the runs, the theorems and the hazards.

Paths are relative to `src/`; files of the radar model are named
without their directory, `Morenos/Scheduler_Model — копия/`, and those of the server without
`Target Environment/Server/`.

- [1. The system](#1-the-system)
- [2. Modules](#2-modules)
- [3. Target Environment](#3-target-environment)
- [4. Radar scheduler model](#4-radar-scheduler-model)
- [5. Logger and its queue](#5-logger-and-its-queue)
- [6. Message broker](#6-message-broker)
- [7. Runs, bounds and what they show](#7-runs-bounds-and-what-they-show)
- [8. Proofs](#8-proofs)
- [9. Differences between the code and its documents](#9-differences-between-the-code-and-its-documents)
- [10. Not modelled](#10-not-modelled)
- [11. Plan](#11-plan)

## 1. The system

| Component | State it keeps | Operations | Interacts with | What is hard | What makes it correct |
|---|---|---|---|---|---|
| **Target Environment server** `Target Environment/Server/Server.cpp` | list of clients, their counter, a mutex, an acceptor, an `io_service` with a pool of threads, a satellite catalogue, flags `_stopped`, `_config_loaded` | `load_config`, `start`, `stop`; handlers `on_accept`, `on_read`, `process_request` | clients by TCP lines; the catalogue file; the loggers | handlers on several threads, a counter changed partly outside the lock, iterators kept across handlers, `stop` beside running handlers, restarts | the limit of clients, one accept chain, valid iterators, only gone clients are removed, every peer is told and every place given back |
| **Radar scheduler model** `ModelEngine.h`, `Scheduler.cpp`, `CommandProcessor.cpp`, `EventQueue.h` | three timelines (ring arrays), the queries and their priorities, the queue of planned commands, model time, the event queue | `ModelEngine::run`: events, `Scheduler::run` (`place_scan`, `find_index`), `CommandProcessor::validate`, `CommandProcessor::run` | calls in one thread | a plan made in many runs, with placements before those already planned; unsigned arithmetic; rounding to discretes; competition by priority | commands in time and far enough apart, reserved places stay reserved, every scan is prepared, targets are followed, due scans are served |
| — **`Timeline`** | an array used as a ring | `label_sector`, `check_index`, `move_timeline`, `get_idx_for` | the scheduler | wrap-around of labels and moves | a label stays with its time, the past does not come back |
| — **`build_scan_pair`** | none | choice of the signal, number of pulses, time of reception | the scheduler's events | borders of the classes; giving up without saying so | the pulses reach the sounding time |
| **Target Environment client** `Target Environment/Client/Client.cpp` | socket, flags connected and configured | `load_config`, `connect`, `get_targets`, `disconnect` | the server | half-failed closing; answers that are refused half way | the flag says what the socket is; a failed call leaves the caller's table |
| **Message broker client** `MessageBroker/Client.cpp` | ZeroMQ context and sockets, handlers by type, flags of the heartbeat and of the processing loop | `connect`, `disconnect`, `start_/stop_heartbeat`, `start_/stop_message_processing`, `register_handler`, `send_message` | broker server; the program's threads | flags written by two threads, sockets used by three without a lock, subscriptions by prefix | what is due is handled, a stop takes effect, no socket is used after its end |
| **Message broker server** `MessageBroker/Server.cpp` | context, three sockets, thread of the proxy | `load_config`, `start`, `stop` | broker clients | a start that fails, a stop that meets it | messages are forwarded while it runs; it stops |
| **Configuration manager** `ConfigManager/` | a JSON document and its path | `set_path`, `load_config`, `save_config`, `update_config`, `get_/set_value`, `get_section`, `get_array` | every configured component | path and document out of step | what is read is what was loaded |
| **Logger library** `Logger/Logger.cpp` | flags, the file channel, the path and number of files | `load_config`, `start_session`, `close_session`, `log_display/file/dispfile` | every component; spdlog | calls beside a close; a failing worker; a session half started | no returned call is lost; a quiet program is never ended by its log |
| — **spdlog's asynchronous logger** `Libraries/spdlog/` | a registry, a worker thread, the last exception, rotating files | push with retries, worker loop, rotation, destruction | the logger | retries on a full queue, renames that fail half way, exceptions carried to the callers | the files are the newest messages in order |
| — **its queue** `details/mpmc_bounded_q.h` | cells with sequence numbers, two positions | `enqueue`, `dequeue` | callers and worker | no lock: order of loads, exchanges and stores | first in, first out; a cell has one user |
| **Utility logger** `Utils/Logger.h` | two buffers of fifty records | `log`, `reset`, destructor | nothing uses it | — | — |
| **Satellite catalogue** `Target Environment/SatelliteUtils/catalog_tle.cpp` | list of element sets | `parse_keo`, `clear_satellite_list` | the server's `start` and `stop` | lost, repeated and unreadable lines; a file read twice | an entry is made of the lines of one satellite |
| **Answers** `Target Environment/Shared/` | the table of a client | `TargetsListMsg`, `Client::deserialize`, `TargetTable::add_target` | server and client | nothing to answer, duplicates, the locale of the process | the table holds a whole answer or none |
| **Orbits** `Target Environment/SatelliteUtils/norad*.cpp`, `utils.cpp` | intermediate values in every satellite | `getPosition`, time scales | the server's handlers | an integrator that stays where the last request left it; three ways to count days | a position does not depend on earlier requests |

The server speaks a line protocol: a peer connects and is told `TE_RegisterSuccess` or
`TE_RegisterFail`; each line it then sends is answered with `TE_TargetsList` for the area it
searched or `TE_RequestFail`. `Client` is its peer, one thread per object. Server and client log
through the Logger library. The broker and its clients are programs of their own. The radar model is a
program of its own and shares no state with the others.

## 2. Modules

| Module | Models | Kind |
|---|---|---|
| `TEServer` | the handlers of the running server, one action per statement other threads can see | state machine, properties, fairness |
| `TEServerLifecycle` | `load_config`, `start`, `stop`, restarts, around `TEServer` | extends `TEServer` |
| `TEServerLifecycle_proofs` | what holds through starts and stops | proofs |
| `TEClient` | objects of class `Client` with the network between them and the server | extends `TEServer` |
| `TEClient_proofs` | theorems about the running server; the clients as its peers, what the two ends believe of each other | proofs |
| `CatalogTLE` | `parse_keo` line by line | actions |
| `TargetAnswers` | from the catalogue's file to the client's table | extends `CatalogTLE` |
| `SatelliteTime` | Julian dates, days of the year, times of requests | operators, functions |
| `OrbitIntegrator` | the integrator of a resonant satellite, shared by requests | state machine |
| `SatelliteCatalog_proofs` | a table is whole or empty, refusals have one of four causes; entries are of one satellite; positions are computed from the epoch | proofs |
| `MpmcQueue` | spdlog's queue without locks, one action per load, store and exchange | state machine, inductive invariant |
| `BoundedFifo` | the promise of that queue | abstract specification |
| `MpmcQueue_proofs` | its invariant, exclusion and refinement | proofs |
| `LoggerSession` | the Logger library over spdlog's worker and files | state machine on the queue of `BoundedFifo` |
| `LoggerSession_proofs` | nothing lost from call to file, quiet programs not ended, the files keep the newest | proofs |
| `MessageBroker` | broker server and clients | state machine |
| `MessageBroker_proofs` | delivery, the ends of the loop, the life of the sockets | proofs |
| `Settings` | settings of the radar model, rounding, scan pairs | constants, operators |
| `Timeline` | what class `Timeline` offers, on functions from discretes to labels | operators |
| `TimelineSpec` | the promise of `Timeline` as a specification of its own | abstract specification |
| `TimelineRing` | class `Timeline` as it is, an array used as a ring | implements `TimelineSpec` |
| `BuildScanPair` | choice of the probing signal | operators, a step per question |
| `RadarParts_proofs` | the ring proved for every depth, the probing signal for every sounding time | proofs |
| `Scheduler` | `Scheduler::run`, `place_scan`, `find_index`, one step per query served | actions |
| `CommandProcessor` | command queue and `validate` | actions, operators |
| `RadarModel` | `ModelEngine::run`, composing the two above; the properties | state machine |
| `RadarModel_proofs` | what holds of every plan and every execution, and of the queries that follow a target | proofs |
| `MC…` | instances for TLC | model checking |

`RadarModel` composes `Scheduler` and `CommandProcessor`, both of which compute on the
abstract timelines of `Timeline`; that the array in the code behaves as those is shown
separately by `TimelineRing`. `TEServerLifecycle` reuses every action of `TEServer` and adds
the control thread and the state of the `io_service`; `TEClient` reuses them with clients of
class `Client` in the place of arbitrary peers. `LoggerSession` works on the queue of
`BoundedFifo`, which `MpmcQueue` is proved to implement. `TargetAnswers` looks at what
`TEServer` abstracts to an area: the data of one request from file to table.

Definitions marked "Mutation" or "Mutant" are what a definition of the code would be after a
plausible mistake. No specification uses them; each property is known to fail when one of
them replaces its original, so no property holds by the shape of the model alone.

## 3. Target Environment

### The running server (`TEServer`)

`start()` leaves a pool of threads that all call `io_service::run()`. A thread executes one
handler at a time, and handlers of different connections, or of the acceptor and of a
connection, run side by side.

| In the model | In the code |
|---|---|
| `clients`, `counter`, `mutex` | `_clients`, `_clients_counter`, `_clients_mutex` |
| `acceptPending`, `reading` | an outstanding `async_accept`; connections with an outstanding `async_read_until` |
| `at[w]`, `cur[w]`, `line[w]` | the statement a thread has reached, its connection and request |
| `sock`, `peer`, `inbox`, `outbox`, `lateOut` | both ends of a connection, bytes in flight, and `async_write` calls not completed |
| `OnAccept`, `Refuse`, `Admit`, `Lock`, `Insert`, `InsertFailure`, `StartRead`, `Register`, `StartAccept` | `on_accept` (240-294) and `start_accept` |
| `OnRead`, `RejectLine`, `ProcessRequest`, `Respond` | `on_read` for a line (103-191) |
| `OnReadClosed`, `Shutdown`, `Lock`, `Erase`, `Decrement` | `on_read` for end of file or reset (83-97) |
| `OnReadError`, `OnAcceptError` | the branches that only log |

A step is what happens between two points at which another thread can see a difference. The
comparison with the limit, the locking, the insertion together with the counting, the start of
the read and the answer to the peer are separate steps; insertion and counting are one because
both happen under the mutex, and the removal of a client and the subtraction are two because
only the first does. A blocking write is a step that waits for room. Peers are arbitrary: they
send without waiting, close, reset or vanish at any time. Names of satellites and positions
are abstracted to the area an answer is for.

Why it is not obvious that this is right: `on_accept` tests `_clients_counter` against
`_max_connections` **without** the lock, and `on_read` subtracts from it **after** giving the
lock up. `CapacityRespected` says the limit holds all the same and by how much the counter may
be ahead of the list; the reason is `OneAcceptAtATime`, the accept being restarted only at the
end of `on_accept`. `IteratorsValid` says that the list iterators bound into pending handlers
are never those of an erased element, because each client has exactly one read outstanding or
being handled. `OnlyGoneClientsRemoved` and `OnlyLostClientsStranded` say exactly which
clients are removed and which stay for ever: those whose read fails with something else than
end of file or reset.

Liveness is stated for the server together with its clients (`TEClient`, below).

### Starting and stopping (`TEServerLifecycle`)

`stop()` takes no lock and waits for nothing until `join_all`, so its statements are separate
steps of a control thread: clearing the catalogue, closing the acceptor, closing the sockets
one after another (any subset may be done when one throws), clearing the list,
`_service.stop()`, `_service.reset()`, joining. The model keeps what `io_service` keeps: a
stopped flag, handlers queued with a result before their socket was closed (`completed`),
threads that have not left `run()` (`alive`), and the rule that the service stops by itself when nothing is
outstanding (`Drained`). Undefined behaviour, a handler using an iterator the clearing has
invalidated or `TargetsListMsg` taking the last of no targets, is a choice between going
unnoticed and ending the process (`Crash`). `load_config` may fail after it has stored
`max_connections`; `start` may fail after it has read the catalogue (`StartFails`: the
port, `listen`), or throw because a thread cannot be created (`Start` to "half"): the accept is then
under way and some of the threads run, and only `stop` gets the object out of it.

### The client (`TEClient`)

An object of class `Client` is used by one thread. A call is one step to the point where it
blocks for an answer (`Connect`, `GetTargets`, `Write`) and one from there to its return
(`Registered`, `RegisterError`, `Answered`, `RequestError`). Sockets have the states the code
leaves them in: closed, open and unconnected after a failed `connect`, bound to a connection,
dead after a reset, because `close_client` returns on a failed `shutdown` without closing, or lost.
The locale of the process is a variable: `get_targets` sets it to "en" before it formats, every
new `Client` sets the user's own; with a decimal comma the server finds no JSON in the request.

`ConnectedAreRegistered` and `PlacesHeldByClients` relate what the client believes to what the
server has counted, through refused connections, resets, lost connections and failed closings.
`RequestsInStep` says a connection never holds an answer of an earlier request: while a client
waits exactly one message of its request is on the way, otherwise none. `CallsReturn` and
`PlaceGivenBack` are liveness. `connect` and `get_targets` block without a time limit: they return
because the server answers or the connection ends. Two things keep them for ever, and `CallsReturn`
names both: a connection lost without a word (`socket[k] = Lost`: the network takes it and neither end
is told), and a server whose accept has failed once (`deaf`), since `on_accept` returns from an error
without starting the next accept (`Server.cpp:249`), so that a `connect` after it waits in the backlog.
An insertion that fails does restart the accept, and its client is answered by the end of its
connection. All three faults are in the run. A client that leaves gives its place to the next.

*Fairness* (`SystemFairness`). A thread goes on with the handler it has begun; where it waits
for the mutex, whose holders never block, or for room in a send buffer, strong fairness says
that it gets there in the end. `io_service` keeps completed operations in a FIFO queue and the
kernel the backlog in another, so each completed accept or read is eventually picked up while
threads keep becoming idle. A client's call that waits goes on when there is something to go on
with, unless its connection is lost: that one may wait for ever, and nothing says that the system ever
gives it up. No fairness is assumed of writes to peers that do not answer (`LateWrite`), of faults, nor
of applications: nobody has to call anything, nor to disconnect.

### From the catalogue's file to the table (`CatalogTLE`, `TargetAnswers`)

`parse_keo` collects a name and two lines per satellite, skipping comments, and appends what it
computes from them. A line is its first character, the satellite it is of and whether its
numbers can be read; an entry (`KEO`) is the satellites its name, number and orbit come from,
so that an entry made of two satellites' lines is visible. The operator may replace the file
while the server is down; a file that cannot be opened ends `start` with nothing but the locale changed
(`NoFile`). `TargetAnswers` puts `start` and `stop` around it and follows a
request: `BeginCopy` and `Gather`, `Format` (the separator is left out after every item that equals the
last by id; the locale decides whether numbers come out with a comma), `AnswerRead`, `AnswerUnread` or
`AnswerOverrun`, `Kept` in the client's table. A position is abstracted to the areas it is seen in.

*The copy of the catalogue.* `process_request` copies the vector of entries one by one and without a
lock (`Server.cpp:316`), which `stop()` clears on another thread (466). The copy is therefore a step
with a beginning and an end. A clearing that falls between them is undefined behaviour: the process is
`damaged` from then on, this request and those after it are given anything (`torn`, up to `TornBound`
entries of `Garbage` or of the catalogue), and the process may end at any time (`CrashDamaged`), to be
started anew (`NewProcess`). `WholeOrNothing` says what holds of all other stops, before the copy
begins and after it has ended; of a damaged process it says nothing.

*Numbers.* A satellite may be without a position at some times (`Placeless`): what `getPosition` leaves
is then not a number, passes every comparison of `sector_check`, and is printed as `nan`
(`undefined`, `Defined`). With a decimal comma each number of an answer becomes two. A fraction that begins
with 0 is no number of JSON and the answer is refused; with none of that kind the array has twelve numbers
for the client's six, which is an assertion or a write past its end (`AnswerOverrun`). Which of the two
it is depends on digits and is a choice in the model. `RefusalsExplained` says that these, a satellite
held twice and a torn copy are all the causes a refusal has.

Nothing in `parse_keo` compares the numbers in the two lines of an entry. `ElementsMatched`, that
every entry is of one satellite, is therefore a statement about files, and `clean` remembers whether
all that were read since the catalogue was empty are of the shape it needs (`ElementSets`): the lines
that tell of a satellite lie together and each of its two is there once (`Together`); second lines
may be missing, first lines may not (`FirstLinesKept`); where a second line is missing, the next
set begins with its first line (`SecondLinesLost`); a name has elements behind it (`NamesBefore`).
Comments, blank lines, missing names, lines in either order and unreadable ones are allowed anywhere.
With any one of the four conditions left out there are files of at most five lines that put lines of
two satellites, or another's name, into an entry.

### Time and the integrator (`SatelliteTime`, `OrbitIntegrator`)

`_secular` steps `dp_atime` from the epoch in steps of 720 minutes and leaves it, with the
values integrated so far, in members of the satellite; the next request goes on from there or
starts again. The model counts the steps each member has been taken through. Several workers may be in
`_secular` of one satellite, and nothing locks it: each load and store of `dp_atime` is a step of its
own, because it decides where a call goes. What a call stores to the other members once it has met
another (`met`) is `Torn`, and so is what is computed from that. `FromEpoch` says that a position is
computed from members that say one number of steps, within a step of the time asked for, however many
requests came before; what calls that meet leave behind (`mixed`) is undone by the first restart of a
call that meets none, and the property is silent in between. `PositionReturns` says that a call that
no other meets comes to an end, whatever earlier ones that met have left, `dp_atime` beyond its own time
included; one that is met may step away from its time for ever, because the direction is chosen before
the loop. The other members `getPosition` writes (`m_x3thm1` to `m_aycof`, `noradSDP4.cpp:628-640`) are
computed anew in every call and are not followed. `SatelliteTime` has the three calendars that
meet at an epoch (`DurData`, `WychKd`, `Julian_date`), and `EpochIsZero` says they agree, for every
epoch but those of 2000 from 29 February on, where they do not.

## 4. Radar scheduler model

`ModelEngine::run` is a loop: execute the events of the present, let the scheduler plan,
validate the plan, execute the commands of the step, advance the time. `RadarModel` has an
action for each (`ExecuteEvents`, `StartPlanning`, `Plan`, `FinishPlanning`, `Execute`);
`Plan` serves one query, so that properties are seen between two services of one run.

- *Times* are integers. With a unit of 100 ns each setting of `Settings.h` is a whole number, so
  the real settings are used as they are (`MCRadarModel_engine.cfg`).
- *Timelines* are functions from labelled discretes to labels, counted from the start of the
  simulation; section 8 says why this is what the array does.
- *`find_index`* is "the first index that fits", with `Fits` translated from the nested loops;
  *`place_scan`* is `LabelScan` and `scan_commands`; *the sort* is the order it leaves (by
  priority, equal ones as before).
- *Unsigned arithmetic*: comparisons of differences are translated by what they do when the
  difference is negative (`Prepared`, `SentInTime`, `RangeCorrect`, `get_idx_for`). A scan
  pair that `set_receive_time` gave up on has `receive_time` 0, and its range offset wraps
  around; the model keeps that, but for the 4 ns by which 2^32 ns miss a multiple of the unit of
  frequency and `multiples_of` (`Scheduler.cpp:96`) rounds the wrapped offset up.
- *Scan pairs* are inputs, restricted by `ScanAssumption` to what `build_scan_pair` returns: what a
  transmission takes is a whole number of units of frequency, the pulses of a train follow each other after
  the time their energy takes, and the echo is nearer than the timeline is long. It may come as early as it
  likes, before the receiver could be rephased or, as 0, not at all; and the signal may be the shortest.
  `BuildScanPair` models that function from the sounding time on; the radar equation before it is floating
  point, its result an input.
- Statistics, occupation and console output are left out.

The model was compared with the program: the sources compile unchanged, and with the events of
`ModelEngine` all 886 commands executed in the first 1.2 s of model time agree in time, query and type
with those the specification gives.

What the properties are about: the scheduler protects its plan by labels only. A later run may
place a scan *before* one that was planned by an earlier run, and both functions of the
scheduler compute the places anew: `find_index` the ones it looks at, `place_scan` the ones it
labels. `TransmissionsReserved` relates the commands to the labels, `TransmitsSpaced` the
commands of different runs to each other; `AntennaPrepared` and `CommandsOnTime` say that
commands of one scan that are executed in different steps still find each other.
`TargetsKept` follows a target through the exchange of its queries after the loop: always one,
never none, until it is dropped. `DueScansServed` is about the competition by priority in the
program's own scenario: no scan that is due is put off by the others for more than two periods of
the survey. It promises nothing for other scenarios: a train finds place only when it is first, and with
enough queries it waits for ever. Nor is it the pace `Settings.h:34` reckons with (section 9).

## 5. Logger and its queue

### The queue (`MpmcQueue`, `BoundedFifo`)

Every load, compare-exchange and store of `enqueue` and `dequeue` is an action; memory is
sequentially consistent, which the acquire and release orders of the code provide for the data
they protect. Positions are not reduced modulo 2^64. There is one consumer, as in
`async_log_helper`. `BoundedFifo` is what callers may rely on: a call takes its place in one
step and is ready in a later one, is refused only when all cells are in use, and `dequeue` finds
nothing only if there is nothing or the head is not ready. The refinement (`ImplementsFifo`) is
checked and proved; `QueueInv` is the inductive invariant of section 8.

### Sessions (`LoggerSession`)

One thread loads, starts and closes, any number log. `log_file` is four steps: look at the flag
and take the channel, check for the worker's exception, push, retry while the queue is full.
`close_session` is dropping the channel from the registry and the pointer (`Reset`), pushing the
message that ends the worker, joining it and clearing the flag, each a step; it may meet calls
that are still running (`unquiet`). A write or a rename may fail and ends the worker with its
exception kept for the next caller. Exceptions out of `noexcept` destructors and dangling loggers
end the process (`Crash`). `FilesKeepNewest` is about rotation (each file holds
what was written before the messages in younger files), `NothingLost` about every
returned call on its way from queue to file and about what a close must leave written,
`QuietCallersNeverCrash` about the order of flag, pointer and log, `LogCallsReturn` is liveness
under fairness of the threads alone (no write has to succeed).

## 6. Message broker

`MessageBroker` is the server, whose `start` runs a steerable proxy and whose `stop` asks it to
end from another thread, and clients that use `Client` as `Tests/main.cpp` does: the main thread
connects, registers, sends and stops; a second thread starts the heartbeat, subscribes and
processes; the heartbeat is the third. Flags are written where the code writes them, so that a
stop before the flag is set is lost and a heartbeat may end at once. What ZeroMQ does is
external: subscriptions travel to the server and to publishers, compare prefixes, and what nobody
has subscribed to is dropped.

`DueHandled` says that what is sent once everything has settled reaches its handler, once and in
order. `LoopEndsByPrefix` names the only way a loop ends by an exception: subscriptions match
prefixes, the table of handlers whole types.

*Ends of a client.* After the join the test program destroys its client (`Destroy`). The heartbeat's
thread is detached and may then be asleep (`Client.cpp:181-185`): it wakes up to a flag and a socket that
are gone, reads any value (`TestHeartbeat`) and may crash. `QuietStopsNeverCrash` names the three ways
a socket gets two users or one after its end: a sending overlaps a heartbeat; the stop
overlaps a heartbeat being sent or not yet started; the destruction overlaps a heartbeat thread that
has not ended. `_ctx.reset()`, in `disconnect` and in the destruction, waits until every message is taken
(`CloseContext`); with no server there it waits for ever (`Lingers`).

*Ends of the server.* `stop()` binds port 6666 first. Where that is taken it throws, `main` is left with a
joinable thread, and the process ends; where there is no context it dereferences null. Both are
`StopFails`: the process and its sockets are gone, and another may be started.

`StopsTakeEffect` (liveness) says that a stop that finds the loop running ends it and the client, unless
it lingers or crashes, and that the server stops once its `stop()` has its port, if its start had not failed. A
stop that comes before the loop's flag is set is lost, as section 9 says; the property leaves it out.
*Fairness*: threads run and ZeroMQ delivers what the server's proxy is there to take; nobody has to connect,
send or stop.

## 7. Runs, bounds and what they show

Every run explores all reachable states of its instance.

| Run | Instance | Shows |
|---|---|---|
| `te_server_safety` | 3 connections, 2 places, 2 threads, one line each way, all faults; 2.2 million states (with symmetry) | the safety properties of section 3 and the inductive invariant of section 8 |
| `te_lifecycle_safety` | 2 connections, limit 0 or 1, 2 threads, one start that starts all threads or some, failing starts and stops; 477 thousand states | no thread runs a handler once `stop()` has returned; the limit holds through the first run, `stop()` included |
| `te_client` | 2 clients, 2 connections, 1 place, 1 thread; refused, reset and lost connections, accept errors, failed insertions, one client failed by the network at a time; a decimal comma; 155 thousand states | client and server agree on who is connected; answers stay in step; calls return but for the two named causes; places are given back |
| `te_answers` | 2 satellites, 5 files (whole, annotated and swapped, a lost second line, unreadable, a lost first line), 2 areas, a satellite with or without a position, 2 starting threads, up to 3 entries; 5.1 million states | entries of one satellite; a whole answer or none; the four causes of a refusal |
| `orbit` | the epochs of a hundred years at both ends of the year and around the leap day; for three of them two threads in the integrator at once, requests about noon on three days; 685 thousand states | the calendars agree; earlier requests leave no trace, or none that lasts where they met; a call that meets no other ends |
| `log_queue` | 2 producers, 2 messages, 2 cells, each used three times (symmetry) | the invariant, exclusion, the refinement |
| `logging` | 2 callers with 3 calls, queue of 2, files of one message, 2 sessions; 761 thousand states | nothing lost, newest files kept, calls return, quiet programs are not ended |
| `broker` | a client with its 3 threads, a peer that sends, 2 types of which one begins the other, 3 messages or starts; 852 thousand states | delivery, the ends of the loop, the overlaps, the stops |
| `radar_safety` | scaled settings, 432 scenarios of 14 steps, the shortest signal and targets too close for rephasing among them; 55 thousand states | the safety properties of section 4 |
| `radar_engine` | the settings and events of the program, 1200 steps | every plan passes the program's own validation; no due scan is put off more than two survey periods, 40 ms |
| `timeline_ring` | ring of depth 3, time to 7 | the ring implements the promise; goes with the theorem |
| `scan_pair` | 49 sounding times × 5 delays × 4 types, both sides of each bound | the pulses reach the sounding time, and half as many do not but at whole multiples of 240 µs; capture and tracking agree |

**Bounds.** *Server.* Two threads are what it takes for one handler to overtake another, which is what the
properties are about; with two places and three connections one peer is refused while a second is admitted and
a place is being given back, all at once. `InBound` and `OutBound` of one make every line and every blocking
write wait. A connection is used again after it ends (`Release`), so behaviours are unbounded in length. The
theorems of section 8 hold without any of these bounds. *Lifecycle.* `StartBound` 1 in the passing run,
because a second start begins from what the first run leaves, a counter of clients that are gone (section 9);
`LoadBound` 2 lets a failed start precede the one that starts threads, or follow one that was left half done.
*Radar, scaled.* A discrete of 4 units and a step of 8 discretes keep the proportions that matter: rephasing
shorter than the command delay, trains longer than a step, times of reception that do not fall on discretes;
near, far, train and lost targets appear at every offset of the first steps, so that each kind is placed
before, between and behind each other. *Radar, real settings.* One behaviour, the program's own, to the point
where every search and every target has been dropped again. *Ring.* Time 7 with depth 3 goes round twice, with
moves by less than, exactly and more than the depth. *Client.* Two clients on one place is what it takes for
one to be refused while the other leaves; one thread in the server makes them wait for each other. The network
fails one client at a time (`FaultBound` 1), so that a broken client meets a sound one; a client it has failed
can be destroyed and constructed again, so that the faults never run out. *Answers.* Three entries are a whole
file and then one with a lost line, or the latter three times: the duplicates failed starts leave, among other
targets or alone. One entry of garbage (`TornBound`) is enough to be no answer at all; the theorems have no
bound. *Orbit.* Steps on both sides of the epoch and at both ends of the last one. `MaxSteps` 2 stands for the
10000 of the code, so that a request too far away is met; `StepBound` 4 is where adding a step to `dp_atime`
changes it no more, which for a double is far away, and lets a call that steps away go on for ever in finitely
many states. All epochs are read as initial states; the constraint `Followed` keeps three of them, whose epoch
no step changes, for the requests. *Queue.* Six positions on two cells use every cell in three rounds, so that
a stale sequence number of the round before meets the present one; the theorems have no bound. *Logging.*
Three messages on two cells fill the queue with the closing message behind; files of one message rotate at
every second, and one rotated file is the least of which the third message removes a full one. A gap that a
failed rotation leaves between files takes two: the theorem has no bound. *Broker.* Two types of which one is
a prefix of the other; `MaxCalls` 3 counts messages and starts of the server together: two messages under one
start, one due and one not, or a message between two starts. Heartbeats are not counted.

The runs of the lifecycle, the logger, the broker and the radar switch deadlock checking off because the
system stops: the control thread may stay in `down` with no start left, the process may have ended or no call
be left, the simulation ends at `stop_time`. `te_server_safety` does so because faults may end the accept loop
while every client is stranded.

## 8. Proofs

Eight modules hold theorems about every value of the constants. In each the argument is an
inductive invariant, a conjunction of named parts, with one lemma per part and in it one step per
action; TLC has checked the invariant on the instance of the component's run. The constants are
restricted only by the assumptions named in the modules, which TLC evaluates in every run.

### The running server (`TEClient_proofs`, first part)

For every finite set of connections and of threads, every limit and every size of the buffers
(`ServerAssumption`):

| Theorem | States |
|---|---|
| `Inductive` | `Spec => []IndInv` |
| `TypeCorrect` | `Spec => []TypeOK`; in particular the unsigned counter never goes below zero |
| `Capacity` | `Spec => []CapacityRespected` |
| `SingleAccept` | `Spec => []OneAcceptAtATime` |
| `Iterators` | `Spec => []IteratorsValid` |
| `GoneClients` | `Spec => OnlyGoneClientsRemoved` |
| `OnlyLostStranded` | `Spec => []OnlyLostClientsStranded` |

`IndInv` is also an invariant of `te_server_safety`. It is the conjunction of the properties and of what
keeps them:

- `HandlerData`: a handler has the connection and the line it works on.
- `FreshConnections`: a connection that is not accepted is in no list and no handler, and one
  being accepted belongs to that handler alone until its first read is started. Without it an
  insertion might hit an element already in the list, and the count would be wrong.
- `RoomKept`: between the unlocked comparison and the insertion the counter is still below the
  limit. It is kept because the only step that raises the counter is an insertion, of which
  `OneAcceptAtATime` allows one, and subtractions only help.
- `RemovalsJustified`: a handler that is about to erase a client is there because its peer has
  gone, and peers do not come back on the same connection while it is referred to.

There is one lemma per conjunct (`TypeStep`, `HandlerDataStep`, `AcceptStep`, `FreshStep`,
`IteratorStep`, `RoomStep`, `RemovalStep`, `CountStep`) and in it one step per action. The
counting (`CountStep`) rests on the library's facts about cardinalities of finite sets.

`OnlyLostStranded` needs one more fact on top of `IndInv`, `ClientsAttended`: a client in the list
whose peer is not lost has its read outstanding, or a handler that is about to start it or has to
deal with the last one. Every step that stops reading hands the connection to such a handler
(`AttendedStep`); only the branch for other errors drops it, and that one a lost peer takes.

### Starts and stops (`TEServerLifecycle_proofs`)

For any number of threads, connections, starts and readings of the catalogue (`ServerAssumption`,
`LifecycleAssumption`):

| Theorem | States |
|---|---|
| `Life` | `LifecycleSpec => []LifeInv` |
| `NothingRuns` | `LifecycleSpec => []NothingRunsWhenDown`, no handler runs and no thread lives once `stop()` has returned |
| `FirstRunCapacity` | `LifecycleSpec => CapacityInFirstRun`, the limit holds from the first start to the end of the stop after it |

`IndInv` does not hold here: `stop()` clears the list under running handlers. `LifeInv` keeps what
survives: a handler runs on a thread that has not returned from `run()`, and the holder of the
mutex is one that lets it go (`HandlersHaveThreads`); through the first run there is one accept
chain, whether outstanding, completed before its acceptor was closed, or being handled
(`OneChain`); and as long as there are threads the counter is within the limit, below it where a
client is about to be inserted (`LimitKept`). The parts speak of `starts <= 1`, because the second
start begins with the counter of the first run (section 9).

### The client (`TEClient_proofs`, second part)

For any number of clients, connections, threads and places (`ServerAssumption`,
`ClientAssumption`; the states of a socket without a connection are not connections):

| Theorem | States |
|---|---|
| `SystemInvariant` | `SystemSpec => []SystemInv` |
| `ClientsArePeers` | `SystemSpec => Spec`, the server beside its clients behaves as the server beside arbitrary peers |
| `ConnectedRegistered` | `SystemSpec => []ConnectedAreRegistered` |
| `PlacesHeld` | `SystemSpec => []PlacesHeldByClients` |
| `InStep` | `SystemSpec => []RequestsInStep` |

`ClientsArePeers` carries every theorem about `Spec` over to the system: each step of a client is
a step of its peer, or changes nothing the server sees (`SystemStepMaps`). `SystemInv` is `IndInv`
and what the two ends know of each other: an open peer is the socket of exactly one client
(`EndsMeet`); a connection is free for both ends or for none, and then empty (`FreeAreEmpty`); the
server closes its end only after its peer, or of a client it has not inserted (`ServerEnds`); and
`Exchanges`, what is on its way. A client that waits for its registration has nothing under way but
the answer, and if that is a success it is in the list; a connected client that waits has one
message of its request in exactly one of four places, the server's input, a handler, the output or
a delayed write; one that does not wait has none. `RequestsInStep` alone is not inductive: it
counts messages without saying that a handler's line is the one that was asked.

### The satellite catalogue (`SatelliteCatalog_proofs`)

*The answers.* For any files, satellites, areas, positions that are missing, number of workers and
either locale
(`CatalogAssumption`, `AnswersAssumption`):

| Theorem | States |
|---|---|
| `AnswersInvariant` | `AnswersSpec => []AnswersInv` |
| `TableWhole` | `AnswersSpec => []WholeOrNothing` |
| `RefusalsHaveCauses` | `AnswersSpec => []RefusalsExplained` |
| `ParserInvariant` | `AnswersSpec => []MatchInv` |
| `EntriesMatched` | `AnswersSpec => []ElementsMatched` |

`AnswersInv` follows a request through the server: while it waits for a worker or is being copied for
one and the server runs, the catalogue is still the one it was made from, and a server that stops has
none (`RequestMeetsCatalog`); what the worker has gathered and what is on its way to the client is all
that was expected, in some order, or nothing, unless the catalogue was cleared under a copy of this process,
of which nothing is claimed (`AnswersWhole`). That is why a stop has to be told apart by whether it meets
a copy: the properties are theorems about all the others. Neither property is inductive
without the second: they speak only of calls that have returned. The step from an answer to a
table rests on two lemmas about data: an order that names each member of a finite set once leaves
none out (`OrderIsWhole`), and the first occurrences of the ids of a sequence have all its ids,
each once (`KeptOnce`).

`MatchInv` relates what `parse_keo` holds to the lines before the point it has reached
(`Point`, `RestAhead`): the entry being read holds at most one line, and no line with elements has
followed it (`Holds`); every other line before the point belongs to an entry that is complete, both
lines of one satellite (`PairsRead`); the name was read after all of those (`NameRead`).
`ElementsMatched` alone says nothing of the line that is held. When a line completes the entry, the
shape of the file shows that it is of the same satellite: were it not, the missing line of the held
one would lie behind it, apart from its own, or be lost where a first line must come next
(`SetCompleted`); the name is of that satellite because its elements come after it
(`NameMatches`). TLC has checked `MatchInv` on all files of at most five lines.

*The integrator.* For any threads, epochs, days and times of requests, any `MaxSteps` and
`StepBound` (`IntegratorAssumption`, `TimesAssumption`):

| Theorem | States |
|---|---|
| `IntegratorInvariant` | `Spec => []IntegratorInv` |
| `PositionFromEpoch` | `Spec => []FromEpoch` |

Any number of threads may be in `_secular` at once. `IntegratorInv` has three parts: the types; that who is
in it with another knows (`Meetings`); and what holds until calls meet, and again from the first
restart of a call that meets none (`Unmixed`): the members say one number of steps between calls
(`MembersAgree`), and at each statement of the loop the thread in it is still on the way from the
epoch to its time, on whichever side, with a whole step between them before each step
(`Underway`, `Towards`); after the measurement it is within a step, and beyond the last one but for
the slack of a minute (`Beyond`). `FromEpoch` alone does not say from where a thread goes on. The proof
rests on one observation: a call that is alone when it restarts stores all the members itself, so
that whatever others have torn is gone, and a call that meets another is marked before either stores.
`TimesAssumption` says that what the calendars make of an epoch and a time is a whole number of
minutes. They are recursive functions, of which the prover cannot show even that; TLC evaluates it
for every epoch, day and clock of the run.

### The parts of the radar (`RadarParts_proofs`)

*The ring.* For every depth and every length of time (`SettingsAssumption`, `RingAssumption`):

| Theorem | States |
|---|---|
| `RingTypeCorrect` | `Spec => []TypeOK` |
| `RingImplements` | `Spec => RingKeepsLabels`, the array used as a ring implements `TimelineSpec` |

The refinement mapping takes the array to the function from the labelled discretes of time to
their labels. The argument has three facts about `Slot(idx) = (start_idx + idx) %
timeline_depth`: two indices within the depth have two places (`SlotInjective`), every place
belongs to an index (`SlotOnto`), and after a move by `n` less than the depth the place of
`i` is that of `i + n` before (`SlotMoved`). The first is all that labelling needs
(`LabelAtLabelled`, `LabelStep`). A move by less than the depth shifts what is kept and
empties exactly what comes round to the far end (`MovedWithin`); one by the depth or more
empties the whole array (`MovedBeyond`); together they are `MoveStep`. `TypeOK` is inductive
and the only invariant this needs.

*The probing signal.* For all sounding times and delays (`SettingsAssumption`,
`SoundingAssumption`):

| Theorem | States |
|---|---|
| `SoundedLongEnough` | `SoundingSpec => []SoundingTimeReached`, if `UnitDivides` |
| `TrackedLikeCaptured` | `SoundingSpec => []TrackedAsCaptured` |

The two lists of signals name rows that agree in all that is used of them, class by class, and the
signal of a class lasts the bound of the class (`SignalOf`, `ClassOf`). Where one pulse is built
that is enough; more are built only in the last class, whose pulse lasts the 240000 ns the
number of pulses is counted by. The power of two above that number is less than twice what
comes before it (`PulsesSuffice`), so that half as many pulses do not last the sounding time, but where
they last it exactly: at a whole multiple of 240 µs the number is one too high (section 9), and this
exception is part of the property. `UnitDivides` says that the unit of frequency is a whole part of
100 ns, as in `Settings.h`: the signals are multiples of 100 ns and rounding leaves them
(`WholeTenths`). With a longer unit rounding up lengthens every pulse of a train.

### The queue (`MpmcQueue_proofs`)

For any set of producers, any messages and any number of cells from two on (`QueueAssumption`):

| Theorem | States |
|---|---|
| `QueueInvariant` | `Spec => []QueueInv` |
| `Exclusive` | `Spec => []CellsExclusive`, no two threads move a message in or out of one cell at once |
| `Implements` | `Spec => ImplementsFifo`, the words and the exchanges implement the bounded first-in first-out queue |

`QueueInv` says whose each cell is. The positions in use, from the oldest not given back to
`enqueue_pos`, fit the cells (`PositionsInv`); the sequence number of a cell in that window says
free, taken by the producer that won the position, or published (`SequenceInv`); a producer that
has seen a free cell and has not been overtaken still has it free when it exchanges
(`ProducerInv`), because the number only grows; one thread won each position (`HoldersInv`); the
worker's cell is published until it gives it back (`ConsumerInv`). The type correctness alone, or
exclusion alone, is not inductive: that an exchange on `enqueue_pos` succeeds says nothing of the
cell unless its number was read for the same round. There is one lemma per action. The arithmetic
of the ring is in three lemmas (`CellInRange`, `CellsDiffer`, `CellNextRound`), and nothing else
expands `Cell`.

The refinement maps the window to a sequence: position by position, the message in the cell if it
is published and otherwise the one its producer still holds (`EntryAt`, `Waiting`). A won exchange
appends (`WinAppends`), a publication makes one entry ready and leaves the others
(`PublishReadies`), the worker's exchange takes the head (`WinTakes`), a refusal happens with all
cells in use (`LookRefuses`); every other step stutters.

### Sessions of the log (`LoggerSession_proofs`)

For any callers, any number of calls and sessions, any number of cells and files, each with room
for a message (`LoggerAssumption`; also, the control thread, the end of the worker and the empty
hand are no callers and no messages):

| Theorem | States |
|---|---|
| `LoggerInvariant` | `Spec => []LoggerInv` |
| `NothingIsLost` | `Spec => []NothingLost` |
| `QuietCallersSafe` | `Spec => []QuietCallersNeverCrash` |
| `NewestKept` | `Spec => []FilesKeepNewest`, whatever step of a rotation fails |

`LoggerInv` has three strands. *The session*: how flag, pointer, registry and log stand to each
other at every statement of `close_session` (`Session`), and that a call that is not unquiet finds
the log it started with (`Quiet`); `QuietCallersSafe` follows. *The end*: a message that has its
place keeps it until its call returns (`Waits`), so that what is accepted is waiting, held or
written (`Accepted`); the message that ends the worker is behind everything promised, or already
held or seen with nothing promised left in the queue (`Promised`). With `worker = "ended" => stop`
that gives what a close leaves written. *The order*: what is written, held and waiting is one chain
for each caller, and none of it is later than the caller's last message that has its place
(`InOrder`, `LastPut`), which is why a put goes behind all of them, and why a message just put is
not among those promised before. `NothingLost` alone is not inductive: it does not say that the message
in a call comes after those in the queue.

`NewestKept` has an invariant of its own, `FilesInv`: the worker does not survive a failed rotation,
so that while it lives the files are numbered without a gap (`Numbered`). That is what keeps the
messages in place: a whole rotation gives each file the next number and the file before it as
many messages as it had itself (`RotatedStands`), and one that fails at some number leaves a gap
there, behind which every file has moved by one (`HalfRotatedStands`). A write shifts all places by
one (`WrittenStands`). The number of messages in younger files is a product, so that no sum over
files, and no induction, is needed (`OffsetIs`, `OneMore`).

### The broker (`MessageBroker_proofs`)

For any clients, peers and types, any relation of prefixes in which a type begins itself, any
number of messages and starts (`BrokerAssumption`; no client is a peer):

| Theorem | States |
|---|---|
| `BrokerInvariant` | `Spec => []BrokerInv` |
| `DueArrives` | `Spec => []DueHandled` |
| `LoopThrowsByPrefix` | `Spec => []LoopEndsByPrefix` |
| `SocketsOutliveUsers` | `Spec => []QuietStopsNeverCrash` |

`BrokerInv` says where the three threads of a client can stand together (`Threads`), who may still use its
sockets (`Sockets`: a thread past the look at a flag, or the flag itself, keeps them open unless the client
has overlapped, and a client is gone under its heartbeat only if it has), that the server and the publishers
know of no type without a handler, and of all of them once the loop runs (`Subscriptions`), that what is due
is of a type they know (`Dues`) and is on its way or handled while both loops run (`Underway`), and that the
messages of a sender stand in one line from its socket over the client's to the handler (`InOrder`), none
later than the last one whose sending has ended (`LastSent`). Chains are kept by lemmas of their own, one for
a message published, passed on, meeting others' and handled (`ChainPublished` to `ChainHandled`).

### The radar model (`RadarModel_proofs`)

For all settings and scenarios of `SettingsAssumption`, `ScenarioAssumption` and, for the last two,
`IdsAssumption`:

| Theorem | States |
|---|---|
| `RadarInvariant` | `Spec => []RadarInv` |
| `TransmissionsApart` | `Spec => []TransmitsSpaced`, whichever runs of the scheduler planned the two |
| `PlannedStayReserved` | `Spec => []TransmissionsReserved` |
| `ExecutedOnTime` | `Spec => []CommandsOnTime` |
| `AntennaAlwaysPrepared` | `Spec => []AntennaPrepared` |
| `ValidButForSpacing` | `Spec => []OnlySpacingCanFail`: whatever the targets, of the requirements `validate` checks only the distance of rephasings can fail (section 9 has targets for which it does) |
| `ChainInvariant` | `Spec => []ChainInv` |
| `FollowedUntilDropped` | `Spec => TargetsKept` |

The argument for the transmissions goes through the labels, the only protection the scheduler has. A planned
transmission starts a rephasing after the start of a discrete, and the discretes it takes from the
present on are labelled (`Transmissions`, with `OnDiscretes` and `Reserved`); the labels have no
gap from the first discrete of a transmission to its last, whatever is rounded. `find_index`
returns discretes without labels, so a new transmission starts where the old ones are over, or ends
before they begin, by the energy's distance: `TransmitsSpaced` is kept by `Plan` because
`Reserved` held before, and is not inductive without it. For the rest, a command is planned with
its companions (`Accompanied`), each by a fixed time earlier; a step is no shorter than a rephasing, so
that when the companion has been executed in an earlier step it is still among the commands of the last
(`CompanionPrepares`). Commands are sent by a fixed reserve ahead (`SentInAdvance`).

`SettingsAssumption` says what these arguments use of the settings: a rephasing is no longer than a step and
no shorter than blanking, frequency change and reserve together, which take a discrete; protecting takes no
longer than a rephasing; and the blanking after a pulse is no shorter than a switch of frequencies, because
the length looked for counts the switch twice and the blanking once, and the labels the other way round: with
that they end no earlier than the length does. `Settings.h` satisfies it, and so do the scaled settings.
`ScanAssumption` is what `build_scan_pair` returns (section 4), the 1 µs signals and targets whose echo is
back before the receiver could be rephased included: nothing in the argument needs a discrete between the
labels of two pulses or a time of reception. `TransmissionsReserved` and `TransmitsSpaced` are not affected by
the place of the *reception* being checked one rephasing too early (section 9), as the theorems show;
`validate` is, in the spacing of the receiver's rephasings.

A target is known only by the ids of its queries, which count up by one from the confirmation to
the tracking, so that `TargetsKept` depends on the ids events give. `IdsAssumption` asks that they be
apart (`IdsApart`): the targets of two events differ by more than the length of the chain, and a drop
names no query of a target but its tracking. Those of `ModelEngine`, 1001 to 4001, 1003 to 4003 and
1000 to 3000, are. `ChainInv` says that this stays so: the queries there are, and those still to come from
events, are apart (`AllApart`, `EventsApart`); within a run the new queries are apart too, each
replaces one of the same target that the run has served and removed, and whatever is removed has been
dropped or is replaced (`Successions`); between runs nothing is pending
(`NoneBetweenRuns`). The steps that reorder the vector, the sort at the start of a run and the removal
at its end, are shown to lose nothing by one lemma about queries put in an order (`InSomeOrder`,
`SortedPlaces`, `RemainingPlaces`). `OneQueryPerTarget` and the exchange itself follow; neither is
inductive, for the ids of a new query are those of no other only because of what the events may
still bring.

### Model-checked only

- Liveness (`CallsReturn`, `PlaceGivenBack`, `PositionReturns`, `LogCallsReturn`,
  `StopsTakeEffect`) is beyond the proof system.
- `EpochIsZero` compares functions defined by recursion over years: what they compute needs
  induction over data, which the installed provers do not do. The run has every year of the two
  digits.
- `PlanValid` and `DueScansServed` are statements about the events of the program: with other
  targets the spacing of rephasings fails (section 9; `ValidButForSpacing` shows that nothing else
  does), and with enough of them a scan waits for ever.

## 9. Differences between the code and its documents

Seen while modelling. The models do what the code does; the properties are stated so that they
say exactly what still holds. None of these has a run of its own.

Target Environment:

- `stop()` clears `_clients` (`Server.cpp:497`) and leaves `_clients_counter`, "The clients
  counter" (`Server.h:64`): after a restart it counts clients that are gone, and they use up
  `max_connections`. If `load_config` lowers the limit in between, the test for equality
  (`Server.cpp:254`) is never met again and there is no limit at all.
- `_service.reset()` follows `_service.stop()` directly (`Server.cpp:498-499`): a thread that
  has not yet seen the stop waits on, and `join_all` with it. A handler that ends after
  `reset()` can stop the service again; the threads of the next `start()` then return at once.
- `Server.cpp:497`: the list is cleared without the mutex its other users hold.
- `Server.cpp:488`: `shutdown` without an error code throws on a connection its peer has
  reset, and leaves `stop()` with the acceptor closed and the threads running.
- `Server.cpp:466`: the catalogue is emptied before the threads are stopped; a request answered
  meanwhile, like every request for an area without satellites, asks `TargetsListMsg`
  (`Messages.h:71`) for the last of no targets, though `Client.cpp:306-309` expects such an answer.
- `Server.cpp:184`: the result of `write` is in `ec_temp`, the test is of `ec`.
- `Server.cpp:48`: a `load_config` that fails later has already changed the limit.
- `Server.cpp:440`: worker threads set the process locale as they start, while the first may
  already format an answer; an array read back with twelve numbers overruns the six of the client
  (`GetValueWrapper.hpp:167`).
- `Server.cpp:316` and 466: the vector of entries is copied without a lock while `stop()` may clear it.
- `Server.cpp:249-250`: an accept that fails is not started again: the server admits nobody from then on
  and every later `connect` blocks, without a time limit, in `read_until` (`Client.cpp:153`).
- `Server.cpp:432`, `438`: `listen` and `create_thread` throw out of `start`, which returns error codes; in
  the second case with the accept and some threads under way.
- `SectorCheck.cpp:31-39`: a position that is not a number is inside every area; it is printed as `nan`
  (`Messages.h:77-83`), which the client's parser refuses, and with it the whole answer. With a decimal comma a
  fraction that begins with 0 is refused as well.
- `Server.cpp:332`: `tm_sec / 60` is added to the hours' minutes so that seconds count as minutes
  (`utils.h:40` speaks of hours).
- `Server.cpp:342`: a refusal of `getPosition` is not looked at.
- `catalog_tle.cpp`: a lost *first* line pairs every line after it with the wrong one; the epoch is
  cut to seven characters; inclination and node stay in degrees where `catalog_tle.h:20` says
  radians; the drag term lacks its implied decimal point.
- `utils.cpp:13`: `DurData` takes 2000 for a leap year and `WychKd` does not.
- `noradSDP4.cpp:452-496`: requests for one satellite on several threads share its members, without a
  lock: they mix their steps, and positions are wrong until a request that meets no other restarts at the
  epoch. One can move `dp_atime` past the end of the other's interval, whose loop then never ends (488).

Radar:

- `find_index` looks for the place of a reception one rephasing time before the one
  `place_scan` labels (`Scheduler.cpp:66`, `187`): in step 101 of the program's own scenario a
  reception is labelled over a transmission.
- The same for the rephasing of the receiver (`Scheduler.cpp:62`, `185`): with a distant target
  at 10 ms and a near one at 17 ms the program, run with these events, itself reports
  "Receive rephase command is not valid".
- A scan pair `set_receive_time` has given up on is placed, labelled, and only then found
  incorrect (`Scheduler.cpp:237`): one target of 1 m² at 1000 km keeps the program from
  transmitting at all, although `place_scan` is documented to return commands on success.
- `Scheduler.cpp:48`: the command delay behind the rephasing of a scan placed before a planned
  one is not looked at and can reach into the next rephasing of the transmitter
  (`CommandProcessor.cpp:99` requires 500 µs).
- `Timeline.cpp:61`: `get_idx_for(0)` is 1, its comment (`Timeline.h:50`) says 0; times on the
  border of two discretes count as the later one.
- `BuildScanPair.cpp:87`: the shortest signal, of 100 ns, has a period of 800 ns and its row a
  lowest period of 1000: it is never built.
- `BuildScanPair.cpp:137`: trains that overlap their echo are returned with `receive_time` 0,
  not replaced.
- `BuildScanPair.cpp:105`: `trunc(tau / 240000 + 1)` counts one pulse too many where the sounding time is a
  whole multiple of 240 µs: at 240 µs two pulses are built where one lasts it, and rounding the
  number to a power of two can double it again.
- `Settings.h:34` reckons with a survey at 50 Hz. In the program's own scenario the first search of the sector
  searched by a train (1000) is served after 58 ms; in the first second it is scanned 39 times and the
  two others 49 times each, rather than 50, and a tracking that is due waits for up to 39 ms.

Logger:

- `line_logger_impl.h:33`: what a failed worker left is thrown again in a `noexcept` destructor and
  ends the process; `Logger.h` promises a `SystemException`.
- `async_log_helper.h:239`: a call or a close that waits for room when the worker fails waits for
  ever. `~async_log_helper` after a failure leaves out the join and destroys a joinable thread.
- `Logger.cpp:151`, `158`: `start_session` on an open session changes the identifier and leaves an
  empty file.
- A `buffer_size` that is no power of two is accepted by `load_config`; every start fails after it
  and leaves an empty file. A directory without a trailing slash puts the files beside it.
- `load_config` during a session replaces the formatter the worker uses; `SPDLOG_NO_REGISTRY_MUTEX`
  leaves the registry without its lock, and `drop_all` drops the console too.

Broker:

- `Client.cpp:90`: `connect` whose second socket fails waits in `_ctx.reset()` for the first instead
  of throwing the `SystemException` it promises; a second `connect` does the same. `disconnect`
  does not clear `_connected`.
- `Client.cpp:234`: a stop before the flag is set is lost, and the join after it never returns.
- `Client.cpp:166`: the heartbeat's flag is set after its thread is created.
- `Client.cpp:273`: the exception for an unknown type leaves the processing flag set; a later start
  is refused.
- `Client.cpp:256`: a received message may be longer than the buffer the length is then used on; one
  without a space is searched with a null pointer.
- `Tests/main.cpp:149-150` destroys the client whose heartbeat thread is detached (`Client.cpp:185`) and may be
  asleep (181): it goes on with the flag and the sockets of an object that is gone, after a stop that met
  nothing else.
- `Client.cpp:115`: the context waits in `disconnect` until all that was sent has been taken, for ever where
  no server is left.
- `MessageBroker/Server.cpp:93-99`: `stop()` throws where port 6666 is taken; `main.cpp:58-63` of its test
  program is left with a joinable thread, and the process ends.
- `Server.cpp:52`: a failed start leaves its context and a socket; the next start waits for that
  socket, and `stop()` for a proxy nobody runs. `stop()` before any `start()` dereferences no context.

Configuration:

- `ConfigManager.cpp:26`: `set_path` keeps a path it has found bad. `save_config` joins path and
  name without the separator `load_config` uses, and its stream never throws (line 111).
  `get_value<double>` looks a member up before it asks whether there is one (line 464).

## 10. Not modelled

- Boost, ZeroMQ and the parts of spdlog the program does not use: third-party. Boost.Asio and
  ZeroMQ are modelled from how the code uses them; such definitions are marked external.
- The orbital mechanics in `norad*.cpp`, vectors, coordinate systems, `ComputeParams`,
  `SectorCheck`, and the radar equation in `build_scan_pair`: floating point without control of
  its own.
- The configuration manager: one thread, one document, and calls of a JSON library; what could go
  wrong lies in documents and the file system.
- `Utils/Logger.h`: no program uses it.
- The members other than the integrator's that `getPosition` writes (`noradSDP4.cpp:628-640`): two requests
  at once mix them as well, for one position.
- Text: formatting and parsing of messages is abstracted to what the answers differ in.
- Weaker memory orders in the queue than sequential consistency, and the wrap-around of its 64-bit
  positions.
- A broker client that connects again after `disconnect`; the test program does not.
- Documents, project files, catalogues, examples and test programs.

## 11. Plan

What is worth adding, in order.

1. `TEServerLifecycle`: the limit through a second start, and `OrbitIntegrator`: an end for calls that
   meet, once the code keeps what section 9 says it does not.
2. `RadarModel`: the least distance of two rephasings of one antenna, as a theorem beside
   `ValidButForSpacing`, once `find_index` and `place_scan` compute one place.
3. `MessageBroker` and `LoggerSession`: the abstract channel each of them promises, as a
   specification of its own that the theorems on order and delivery show to be implemented.
