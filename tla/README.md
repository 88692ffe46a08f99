# GameServerLib in TLA+

GameServerLib is a small C++ game server library: an asynchronous TCP layer
over boost asio (`src/wlib/wnet_*`), the services around it (log, thread pool,
configuration, clocks, containers, RC4, MD5), and a server and a client application
(`src/wserver`, `src/wclient`) that use them. This directory holds TLA+
modules translated from that code, the TLC configurations that check them, and
theorems about them that TLAPS proves for every value of their constants.

The modules keep all of the control of the code (each guard, early return,
error path, and the order of the writes) and abstract its data: a message is a
number or a short sequence of bytes, a buffer of a session is empty or not where
bytes do not matter, a text is a name. Lines that only log are left out.

## The system

| Component | State | Operations | Who touches it |
|---|---|---|---|
| Session manager (`wnet_session_mgr`, `wnet_server`) | queue of available sessions, io threads | accept, handle_close, return_session, shutdown, destroy | io threads, main thread |
| Session (`wnet_session`) | id, status, socket, reading and writing flags, two send buffers, queue of waiting blocks, receive buffer, message being received | open, handle_read, handle_write, send_msg, close, `_close`, `_release`, reset | io threads, any thread that sends or closes |
| Memory pool (`wnet_mem_pool`) | a doubly linked list of free blocks for each of 16 sizes, total size | alloc, free, garbage_collect | all threads |
| Message queue (`wnet_msg_queue`) | linked list of messages | enqueue (io threads), dequeue of all (main thread), clear | io threads, main thread |
| Server application (`wwan_server`, `wwan_session`) | table of sessions, their number, update timer | on_connect, on_disconnect, on_msg_receive; update, `_process_msg`; init, start, shutdown, destroy | io threads call back, the main thread updates |
| Main thread of the server (`wserver/wmain_thread`, `main`) | stop flag, elapsed times | init, work, shutdown, destroy, the signal handler | main thread, signal |
| Main thread of the client (`wclient/wmain_thread`, `main`) | two stop flags, the update thread | init, reading lines and sending them, the update thread, shutdown, destroy | main thread, update thread, signal |
| Client (`wnet_client`, `wwan_client`) | free connect parameters, sessions, table of sessions | connect_to, handle_connect, handle_reconnect, the callbacks | main thread, io threads, timer |
| Message handlers (`wmsg_handler`) | table from id to handler | init, register_msg, get_handler, destroy | main thread |
| Encryption (`wrc4`, `wcrypto`) | two key streams for each end | set keys, encrypt, decrypt | main thread |
| Thread pool (`wthread_pool`) | queue of tasks, stop flag | start, post_task, schedual, shutdown | any |
| Asynchronous log (`wasync_log`) | current buffer, full buffers, spare buffers | init, append, work thread, destroy | any, and its worker |
| Log lines (`wlog`, `wstream`, `wbuffer`) | a buffer for each line, with an error flag | the prefix, `<<`, the line end and `append` | its thread |
| Ring buffer, ring queue (`wcycle_buffer`, `wcycle_queue`) | array, head, tail | write, peek, read, skip; push, pop | one thread, or under the mutex of `wsafe_cycle_queue` |
| Configuration (`wconfig`, `wserver_cfg`) | options | init from a file, get, set_config | main thread |
| Clocks (`wtime_api`, `wtime_elapse`) | start time, time zone | elapsed time, broken-down times, the next stamp of a day or week | any |
| MD5 (`wmd5`) | state, count of bits, a block not yet full, the last digest | update, digest, reset | one thread |
| Numbers as text (`wint2str`) | none | decimal and hexadecimal digits | any |

How they interact. An io thread accepts a connection into a session from the
available ones and tells the application (`on_connect`). It parses what it reads
into blocks of the memory pool and hands each message to `on_msg_receive`, which
queues it; the main thread takes the whole queue at once, looks the session up in
its table and runs the registered handler, which may call `send_msg` or `close`
of the session from the main thread while io threads are in its handlers. A
session that was shut is released by whoever ends last, reset by a handler of an
io thread, reported to the application and put back. Meanwhile the main thread
updates every session of the table and closes those whose peer is silent.

What is hard in it:

- sessions are used again, so that whatever refers to one (a handler, a callback,
  an id in a message, a decision taken a moment ago) may meet the next connection;
- the writer flag and the status of a session are atomics beside a mutex;
- the session table of the application has no lock at all;
- a TCP stream is cut anywhere, and a write takes any part of what it is given;
- queues change hands: batches of the message queue, buffers of the log;
- start and stop run over whatever an init that failed half way has made, in the client beside a
  second thread that updates;
- threads sleep on condition variables and have to be woken.

What makes each component correct is stated with its module below, and every
place where it could go wrong is listed, with its line, under `hazards` in
`PROJECT.json`.

## Modules

Each module models the code of the files it names. An action is one handler or
operation, or, where threads share memory, one critical section or one access of
a shared member; a helper keeps the name of its function where it has one. The
`map` of `PROJECT.json` gives the lines of every definition.

| Module | Models | Correct when |
|---|---|---|
| `SessionLifecycle` | `wnet_session`, `wnet_session_mgr`, `wnet_server::handle_accept`: the life of sessions, io threads and threads of the application | one write at a time (`OneWriter`), sessions neither lost nor given out twice (`PoolExact`), released only when nothing uses them (`ReleaseQuiescent`), returned and reported (`ShutReturned`, `ShutReported`), `TableSpec` |
| `SessionTable` | (abstract) what the application is promised: connect and disconnect of a slot alternate under consecutive serials | refined by `SessionLifecycle` |
| `SendPath` | `send_msg`, `handle_write`, `push_to_queue`, `queue_to_buf` byte by byte | refines `BytePipe` (`ImplementsPipe`), `PayloadsIntact` |
| `BytePipe` | (abstract) bytes go in, wait and come out, in order | refined by `SendPath` and `AsyncLog` |
| `RecvPath` | `handle_read`, `parse_msg`, `reset` byte by byte | `DeliveredAsSent`, `InBounds`, `EveryMessageArrives` |
| `Connection` | composes `SendPath` and `RecvPath` over a network that keeps bytes in order and cuts them anywhere | `FramesArrive`, `InBounds` |
| `WanServer` | `wwan_server` callbacks against `update` and `_process_msg`, one member at a time | `ActiveExact`, `SpeakersKept` |
| `MainLoop` | `wmain_thread::work`, `wtime_elapse`, the timers of `wwan_server::update` and `wwan_session::update` | `SilentIsClosed` |
| `ProcessLife` | what the two processes share: io threads, the blocks of the pool, `wnet_session_mgr::shutdown` and `destroy`, the signal | `HandlersFindAll` |
| `ServerLife` | extends it: `main` of the server, init, loop, shutdown, destroy | `HandlersFindAll`, `StopEnds` |
| `ClientLife` | extends it: `main` of the client, the lines it reads, the update thread, shutdown, destroy | `HandlersFindAll`, `StopEnds` |
| `NetClient` | `wnet_client` and the callbacks of `wwan_client` | `ParasExact`, `SessionsExact`, `RequestsEnd` |
| `MsgQueue` | `wnet_msg_queue` and the walk over a batch, through the next pointers of recycled blocks | `HandledInOrder`, `EveryMessageHandled` |
| `MemPool` | `wnet_mem_pool`, node by node | `ListsWhole` |
| `ThreadPool` | `wthread_pool` with its condition variable | `EachTaskOnce`, `EveryTaskRuns`, `ShutdownReturns` |
| `AsyncLog` | `wasync_log`, with and without a file | refines `BytePipe` (`LinesInOrder`), `BuffersAccounted`, `LinesReachDisk` |
| `LogLine` | `wlog`, `wstream`, `wbuffer`: one line in its buffer | `WholePieces` |
| `CycleBuffer`, `CycleQueue` | the rings | refine `BoundedFifo` |
| `BoundedFifo` | (abstract) a FIFO with a capacity | |
| `MsgHandler` | the handler table and the dispatch by it | `RanAsRegistered` |
| `CryptoChannel` | `wrc4`, `wcrypto`, `encrypt_send_msg`, the reset of a session | `ReadAsSent` |
| `Config` | `wconfig`, `wserver_cfg` | `LoadedAsWritten` |
| `TimeStamps` | the stamps and broken-down times of `wtime_api` | `NextOfDay`, `WeekMeetsDay`, `StampsAgree`, `TmGoesBack` (together `StampsAreNext`) |
| `Md5` | `wMD5::update`, `final`, `reset`: blocks, padding, count | `DigestOfMessage` |
| `NumberText` | `int2str_dec`, `int2str_hex`, `byte2hex` | `ReadsAsWritten` |

A module `X_proofs` extends `X` and holds its theorems: `SessionLifecycle_proofs`,
`RecvPath_proofs`, `WanServer_proofs`, `NetClient_proofs`, `MsgQueue_proofs`,
and `MCProcesses_proofs` and `MCData_proofs` for the two modules that put
the others side by side. These instantiate the proof modules, so that the
theorems about a part can be cited for what the runs check. The parts without a proof
module have their inductive invariants in `MCProcesses_proofs` (`ThreadPool`, `ServerLife`,
`ClientLife`) and in `MCDataParts_proofs` (`SendPath`, `AsyncLog`, `MsgHandler`, the rings,
`Config`, `MemPool`, `CryptoChannel`, `TimeStamps` and `Md5`, which `MCDataParts` instantiates for `MCData`).

How state and actions correspond to the code, for the ones where it is not plain:

- `SessionLifecycle`. `guid` is the high half of `m_session_id`, the session itself
  the low half. `readOps`, `writeOps` and `closeOps` are the handlers asio has
  still to call; `pc` and `on` say where each thread is, and with which connection
  in mind. A critical section of `m_mutex` is one step; the stores of
  `m_is_reading` and `m_is_writing` outside it are steps of their own. `app` is
  the table of `wwan_server`, `known` the ids the application may use (it may
  keep one as long as it likes), `used` the connections so far. `sending` counts
  a full buffer as two units, so that a write may take a part.
- `SendPath` runs one connection with every critical section in one step (that
  they exclude one another is `OneWriter`); a header has an id and a size with
  bytes that can be told apart; `accepted` is what the calls that returned true
  have asked for, `chain` the blocks pushed and not yet written.
- `WanServer` assumes of the library what `SessionLifecycle` establishes for one
  io worker (`SessionTable`). `Close` only names the connection to close; the
  peer can cause the same disconnect at any time. `spoken` and `heard` are
  history variables, used by properties only.
- `MainLoop` counts time in units of which `PerMs` make a millisecond (a thousand
  in the code: `get_time_ms` counts microseconds). All the clocks of the code
  are `% Modulus`.
- `ProcessLife` has one session and a few blocks; a block is in the pool, in `m_msg_ptr`
  of the session, among its waiting buffers, in the queue or in the hands of
  `update()`. Its actions with a parameter for the stage are the ones that the two
  `main`s put in their order; `missed` is what somebody used when it was not
  there. `ServerLife` and `ClientLife` have one action per line of `main` and
  `wmain_thread` that does something, each step of init failing or not.
- `Connection` numbers the calls of `send_msg` as `RecvPath` numbers the messages of
  its peer, so that a byte of the one is a byte of the other. The real headers
  are used, those that lose their id (see below) as well.
- `Md5` keeps in `state` the bytes that went into `transform()`. `spoiled` and `sure` are
  history variables: they tell digests made before and after the first one that
  came at the end of a block.
- `LogLine` keeps a character as its place in its piece; a number is written with no
  look at the error flag, as `stream_serial_int` does.
- `TimeStamps` takes `mktime`, which the code calls with the time zone of the process, as
  external: `Local` is that zone. `time32_to_time_t` adds two `int`s, which outgrow an
  `int` from 19 January 2038 on; the language leaves the sum undefined, the builds keep its low bits,
  and so does `Time64` (`Int32`).
- `Config` reads a file of at most `MaxLines` lines, each a name and a number.

Modelled from the way the code uses them, without source here: the asio
`io_service`, sockets and timers (a handler is called once, by some worker, in
any order; shutting a socket completes its operations), `std::mutex` and
`std::condition_variable`, the allocator.

## Runs

Four runs pass and eight show a disagreement between the code and what it says
of itself. The modules `MCProcesses` and `MCData` put small instances of many
modules side by side: a variable `part` says which of them a behaviour belongs
to, the variables of the others keep their initial values, and each property is
the one of its part. `part` never changes, so that the state space is the sum,
not the product, of those of the parts. The constants that theorems are about (sizes of buffers,
sets of payloads, ids and handlers, numbers of calls and tasks) are constants of these modules too, given
in their cfg. `MCProcesses` asks what must come about in
the end and has the fairness of each part; `MCData` has none and larger
instances. `MCSessionLifecycle` only adds a symmetry.

| Run | Instance and bounds | Shows |
|---|---|---|
| `SessionLifecycle_one` | 2 sessions, 1 io worker (as shipped), 2 application threads, 2 connections of each session (`MaxGuid`), memory that may run out | `TypeOK`, `OneWriter`, `PoolExact`, `ReleaseQuiescent`, `TableSpec` |
| `SessionLifecycle_live` | the same with 1 application thread and 1 connection of each session | `ShutReturned`, `ShutReported` |
| `Processes` | the parts of the next table with a mark under P | what was begun comes to its end |
| `Data` | the parts of the next table with a mark under D | data come out as they went in, and tables that threads share stay whole |

| Part | P | D | Instance |
|---|---|---|---|
| `SendPath` | | x | buffers of 8 bytes, payloads of 1 and 3, 4 calls, allocations that fail: `PayloadsIntact`, `ImplementsPipe` |
| `RecvPath`, shipped | x | x | receive buffer of 6 as in `src/linux/cfg.txt`, sizes 0, 1, 8 (the largest allowed) and 9 (too large), 3 messages, 2 connections: `EveryMessageArrives`; `DeliveredAsSent`, `InBounds` |
| `RecvPath`, large | | x | buffer of 13, connections cut in the middle of a message: `InBounds` |
| `Connection` | | x | send buffers of 8, receive buffer of 6, payloads of 1 and 3, 3 messages, allocations that fail on both sides: `FramesArrive`, `InBounds` |
| `ThreadPool` | x | | 2 threads, 2 posters, 2 closers, 3 tasks: `EachTaskOnce`, `EveryTaskRuns`, `ShutdownReturns` |
| `AsyncLog` | x | x | 2 appenders, buffers of 4 bytes, lines of 1, 2 and 4, limit of 1 buffer, 4 lines, a file or none: `LinesReachDisk`; `LinesInOrder`, `BuffersAccounted` |
| `LogLine` | | x | a buffer of 12, texts of 1, 4 and 8, numbers of 1 and 3 digits with room for 3, three prefixes, 5 pieces: `WholePieces` |
| `MsgQueue` | x | | 3 blocks, 2 io threads, 5 messages: `HandledInOrder`, `EveryMessageHandled` |
| `MainLoop` | x | | 10 units to a millisecond, updates of one unit at most: `SilentIsClosed` |
| `ServerLife`, `ClientLife` | x | | 2 io threads, 2 blocks, every step of init failing or not: `HandlersFindAll`, `StopEnds` |
| `NetClient`, no retry | | x | 2 parameters and sessions, 4 requests: `ParasExact`, `SessionsExact` |
| `NetClient`, retry | x | x | 2 requests: `RequestsEnd`; 4 requests: `ParasExact`, `SessionsExact` |
| `WanServer` | | x | 2 slots, heart beat of 2 rounds, 2 connections a slot: `ActiveExact`, `SpeakersKept` |
| `MemPool` | | x | 3 blocks, 2 threads, 2 sizes: `ListsWhole` |
| `CycleBuffer`, `CycleQueue` | | x | a ring of 3 bytes, queues of 1 to 4 elements that are destroyed and made anew: `RingsAreFifos` |
| `MsgHandler` | | x | 3 message ids, 2 handlers, 2 status bits: `RanAsRegistered` |
| `Config` | | x | files of 2 lines: `LoadedAsWritten` |
| `CryptoChannel` | | x | keys of 1 and 2 bytes over a byte of 2 bits: `ReadAsSent` |
| `TimeStamps` | | x | moments around the hours in 3 time zones, in the week in which an `int` of seconds since 1970 ends and in that in which one of seconds since `BASE_TIME` ends: `StampsAreNext` |
| `Md5` | | x | blocks of 4 bytes with a length of 2, a count of 6 bits in a word, pieces up to 9, messages up to 17: `DigestOfMessage` |
| `NumberText` | | x | every value of a signed and an unsigned byte: `ReadsAsWritten` |

The runs that expect a violation:

| Run | Instance | Shows |
|---|---|---|
| `SessionLifecycle_stranded` | 1 session | `SendProgress` fails |
| `SessionLifecycle_late_close` | 1 session, 2 workers | `ClosesOwn` fails |
| `SendPath_queued_header` | 3 messages | `FramesIntact` fails |
| `RecvPath_cut` | 2 connections | `DeliveredAsSent` fails |
| `MainLoop_too_soon` | 10 units to a millisecond | `HasItsHeartBeat` fails |
| `WanServer_fresh_closed` | 1 slot, 2 connections | `FreshKept` fails |
| `WanServer_once_heard` | 1 slot, 1 connection | `SilentClosed` fails |
| `ServerLife_pool_gone` | 1 block, an init that succeeds | `DestroyFindsPool` fails |

The passing runs say `CHECK_DEADLOCK FALSE`: parts of them really stop, where a
process has ended or the bounds (messages, requests, collections, session ids) are
used up. That no thread waits for ever is what the liveness properties say:
`StopEnds`, `ShutdownReturns`, `EveryTaskRuns`, `LinesReachDisk`,
`EveryMessageHandled`.

### Bounds

- `MaxGuid`: 65535 in the code. Two connections of a session already let any
  remains of the first meet the second, and let the serial wrap. The one thing
  it cuts off is an id met again 65535 connections later, which is why
  `Accept` refuses an id that was used.
- `MaxMsgs`, `MaxConns`, `BufSize`, `RecvBuf`, `Sizes`: a buffer a little larger
  than a header, and payloads with which a message fits, just fits, is split over
  buffer and queue, and waits as a whole. `MaxSize` is met exactly and passed by one.
- `MaxTasks`, `MaxLines`, `Lens`, `Cap`, `MaxBufs`: more items than threads, lines
  that leave a buffer with no byte, one byte or some; the limit on buffers is reached.
- `Blocks`: fewer than messages, so that blocks are used again. In the life of a
  process two are enough for one that waits in a session while another is handled;
  in the memory pool three make a list with a middle.
- `MaxMsgs` of `Connection`: a message in each of the three places (the two buffers
  and the queue), of which one waits with its header.
- `Block`, `LenBytes`, `Word` of `Md5`: 64, 8 and 2^32 in the code. The rules are the same
  with any; the small ones let a message fill several blocks, leave each number
  of bytes in the last, and carry the count into its second word twice.
- `BufSize`, `Lens`, `MaxPieces` of `LogLine`: a line fits, just fits, and loses pieces of
  either kind, with more to come after them.
- `Half`: 128. The loops are the same for each width; all values of it are tried.
- `NumSlots`, `HeartBeat`, `MaxSerial`, `MaxQueue`: two rounds before a session is
  silent, so that a disconnect and the next connect fall between any two steps
  of a check.
- `MaxAge`, `Modulus`: long enough for the remainders of both timers to come round.
- `NumSessions`, `MaxRequests`: as many sessions as requests at a time, so that the
  bounded client meets the full pool; with retries each parameter comes back. `RequestsEnd`
  needs a session for each request (see below for what happens without).
- `MaxUse`: blocks are used often enough for the collection to find its condition.

### Fairness

- A thread that is running goes on: weak fairness of its steps (`Loop`,
  `Worker`, `MainThread`, `UpdateThread`, `IoThread`, `Continue`, `ThreadStep`). Nothing is assumed of the
  application, of the peers, of signals, of who types a line, logs, posts, sends or connects.
- asio calls ready handlers in the order in which they complete, so one that stays
  ready is not passed over for ever, although its worker is busy with others in
  between: strong fairness of the handlers of a socket that was shut, of
  `HandleClose` and of the end of a connection attempt. For the timer of a retry
  weak fairness is enough, since it stays ready.
- `FairPeersSpec` also assumes that peers read or break the connection. Only
  `SessionLifecycle_stranded` uses it, to show that the message is stranded by
  the code and not by its peer.

## Proofs

Each theorem holds for any values of the constants that the named assumption of its module
admits (`LifecycleAssumption`, `WanServerAssumption`, ...): any finite set of
sessions, slots, threads or blocks, any size of buffer, any number of messages.
Every inductive invariant below was first checked by TLC on the instances of the runs.

| Module | Theorem | Further hypothesis | Says |
|---|---|---|---|
| `SessionLifecycle_proofs` | `TypeCorrect`, `PoolIsExact`, `WriterIsAlone` | | `TypeOK`, `PoolExact`, `OneWriter`, with any number of io workers |
| | `ReleaseIsQuiescent`, `ClosesItsOwn`, `ImplementsSessionTable` | `OneWorker` | `ReleaseQuiescent`, `ClosesOwn`, and the refinement `TableSpec` |
| `RecvPath_proofs` | `TypeCorrect`, `StaysInBounds` | | `TypeOK`, `InBounds` |
| | `DeliversAsSent` | `Shipped` | `DeliveredAsSent` |
| `WanServer_proofs` | `TypeCorrect`, `ActiveIsExact`, `SpeakersAreKept` | | `TypeOK`, `ActiveExact`, `SpeakersKept` |
| `NetClient_proofs` | `TypeCorrect`, `ParasAreExact`, `SessionsAreExact` | | `TypeOK`, `ParasExact`, `SessionsExact` |
| `MsgQueue_proofs` | `TypeCorrect`, `MessagesHandledInOrder` | | `TypeOK`, `HandledInOrder` |
| `MCProcesses_proofs` | `TasksOnce`, `MessagesInOrder`, `HandlersFindEverything` | | the invariants `EachTaskOnce`, `HandledInOrder`, `HandlersFindAll` of the run `Processes` |
| | `JoinedShutdownIsDone` | | `JoinedIsDone`: the shutdown that joins the threads leaves no task behind |
| `MCData_proofs` | `TableIsExact`, `SpeakersStay`, `ParasInPlace`, `SessionsInPlace`, `MessagesAsSent`, `BytesInBounds`, `HandlersRunAsRegistered`, `SpareBuffers`, `OptionsAsWritten`, `PayloadsGoOut`, `FreeListsWhole`, `DecryptedAsSent`, `AcceptedArrive`, `NextMomentsStamped`, `MessagesDigested` | | the invariants `ActiveExact`, `SpeakersKept`, `ParasExact`, `SessionsExact`, `DeliveredAsSent`, `InBounds`, `RanAsRegistered`, `BuffersAccounted`, `LoadedAsWritten`, `PayloadsIntact`, `ListsWhole`, `ReadAsSent`, `FramesArrive`, `StampsAreNext`, `DigestOfMessage` of the run `Data` |
| | `BytesInOrder`, `NeverAnEmptyWrite` | | the refinement `ImplementsPipe` of the run `Data`, and the invariant it rests on |
| | `RingsKeepOrder`, `LinesReachTheFile` | | the refinements `RingsAreFifos` and `LinesInOrder` of the run `Data` |

The two further hypotheses are what the code ships with, and both are needed:

- `OneWorker`: one io thread, the default of `m_thread_num` (`wnet_session_mgr.cpp:18`). With
  two, `SessionLifecycle_late_close` shows `ClosesOwn` violated.
- `Shipped`: a receive buffer of exactly one header, as in `src/linux/cfg.txt`, and
  connections that end between two messages. With a larger buffer `DeliveredAsSent` fails
  (see the table of further disagreements), and with connections that are cut inside of a
  message `RecvPath_cut` shows that it fails. `Shipped` constrains the constants only;
  the run `Data` has a part whose constants satisfy it, and `MessagesAsSent` is the theorem
  about that part.

What a reader of these theorems should keep in mind: `Accept` of `SessionLifecycle` never
gives out an id for the second time. In the code that takes 65535 connections of one
session while somebody still holds the id of the first.

The arguments:

- `WriterIsAlone`. `OneWriter` is not inductive alone: when `HandleClose` clears
  `m_is_writing` a thread could be about to post a write, if a session that is on
  its way back could still have a writer. The inductive invariant is `TypeOK`,
  `PoolExact`, `OneWriter` and `ClosedNotWriting` (a session that was released has
  its writer flag down until it is opened again). `PoolExact` makes the session of
  a `HandleClose` one that is closed and neither live nor in the pool; with
  `ClosedNotWriting` its writer flag is down, and by `OneWriter` so is every
  writer. In turn `Release` finds the flag down before it closes, `UserSendStart`
  raises it only on an open session, and every other step leaves it or the status
  alone.
- `PoolIsExact`. Each action moves one session by one place: `Accept` from
  the pool to live, `Release` from live to its `HandleClose`, `HandleClose` to one
  worker, `ReturnSession` from it to the pool; that the pool then has room follows
  because a sequence without repetition that misses a session is shorter than
  their number, a lemma on finite sets.
- `ReleaseIsQuiescent`. With one worker the reading side has what the writing side has
  without: at most one read or handler of a session (`OneReader`), and none on a
  session that was released (`ClosedNotReading`). `OneWorkerInv` adds to these that a session
  being opened is fresh, which ids were used, and what the table of the application has
  at each step of a callback (`TableInv`); the last two are what `ImplementsSessionTable`
  takes its refinement mapping from. `ClosesItsOwn` needs that the worker of a `_close` has the
  current connection in mind (`OnCurrent`), which the only worker cannot lose in between.
- `DeliversAsSent`. `Tracked` says of the bytes that are not parsed yet, in the buffer and on
  their way (`Pending`), that they are whole messages in order but for the first, whose end
  they have (`InOrder`), and that they go on just where the message being received, or the last
  one that was delivered, ends (`Follows`, `Starts`). A read, and the move to the front
  of the buffer, leave `Pending` alone; a header, a part and the rest of a message
  take bytes from its front; a message that is sent puts bytes to its end. Each
  of these is a lemma about sequences. `Shipped` is used in two places: a header is read with
  nothing before it in the buffer, and a connection ends with nothing half received.
- `BytesInOrder`. The bytes that the send side holds (`Held`) are the buffer being
  written, the buffer being filled and the queue, in this order. That each step only adds to their
  end or takes from their front rests on the queue being empty whenever something is put
  into the buffer being filled (`PlacedGrows`), and that a write which ends takes something on
  `NoEmptyWrite`: no write of nothing is posted. This is proved for the send side alone and for
  the one of `Connection`, through the steps that both have (`SendStep`).
- `PayloadsGoOut`. Each call of `send_msg` adds to the bytes of the send side some whose
  payload is that of its message, or none if it refuses (`PlacedGrows`, `PlacingStep`), and
  the other steps leave the bytes, out or held, as they are; so the payloads of
  what was accepted are those of what is out or held (`AcceptedInv`), of which those that
  are out come first. That the payload of two sequences is the one and then the other
  (`PayloadConcat`) is an induction over their bytes.
- `AcceptedArrive`. What send_msg accepted are whole frames of some of the messages, in order
  (`Frames`; a refused message has no byte among them). As long as what went out is the beginning of
  that (`FramesIntact`, which once false stays false: bytes that go out cannot be those of a
  later message, `NotAhead`), the receiver has heard its first bytes (`Hearing`): some are
  parsed, the rest is `Pending`, and those that are parsed end where the message being received,
  or the last one that was delivered, ends. Unlike `Tracked`, which counts messages, `Hearing`
  goes by the places in what was accepted, since the numbers of the messages skip the
  refused ones. It is kept by the steps of the receiver (`HeardStep`), by bytes that come
  (`HeardMore`) and by a `send_msg` that accepts or refuses (`HeardSend`), which only
  adds to what is to arrive (`ArrivalsExtend`). The two sides meet in `LinkHears`.
- `DecryptedAsSent`. Behind every message on its way is a chain of states of RC4: the state of the
  sender is what that of the receiver becomes when it decrypts them all, and each gives the
  text that was sent (`Encrypted`). An encrypted byte decrypts to itself because the exclusive or
  with the same byte twice leaves each bit as it was, and the state after a byte does
  not depend on the byte. That both ends have one state is lost only with a refused message.
- `NextMomentsStamped`. The invariant is small, the calculation is not: a moment is `Shown` as a day,
  an hour, a minute and a second in exactly one way (`ShownAs`, `TmShown`), the stamps are shown as the
  hour and minute asked for on a day that is 0 to 7 days later (`DayStampShown`,
  `WeekStampShown`), and moments are in the order in which they are shown (`InOrder`, `DaysInOrder`). A time that fits
  an `int` of seconds since `BASE_TIME` comes through it (`ThroughInt`). It comes back as the same time
  until 2038 only (`ThereAndBack`): later the sum is all the values of an `int` too small.
  Those are no whole number of days, which is what the assumption asks of `IntMax` and what
  2^32 satisfies, so a stamp made from such a time is not the right one (`OutOfDay`). This is why the
  theorem can say that these stamps are right just until 2038, and not only that they are right before.
- `MessagesDigested`. Until a digest spoils the buffer, the context has gone through the message
  (`Holds`): with a length of `Block * q + r` bytes, the first `Block * q` of them are in the state and
  the last `r` at the front of the buffer, and the count of bits, although it wraps, gives `r`
  (`IndexIs`, from `BitsPlace`: a word counts whole blocks). Whatever `update` is given, it has
  gone through that too (`HoldsMore`; `HoldsInBuffer` while the block is not full,
  `HoldsInState` when it is), and the carry gives the high word (`HighMore`). So `final`, which is two
  calls of `update`, ends with whole blocks, all of them in the state (`WholeBlocks`), and its padding
  is the only one of at most a block that does (`PadLenIs`, `ZerosOnce`). It leaves the front of the
  buffer alone as long as the length fits into the block that is begun (`DigestKeeps`): that is
  where `spoiled` comes from. No number is fixed: a block may have any number of bytes, as long
  as a word counts whole blocks in bits, and a message any length.
- `LinesReachTheFile`. The lines that are not in the file are in the work thread's buffer, the
  full ones joined, and the current one, in this order (`Logging`); the full ones joined
  grow at the end when one is added (`FlattenAppend`) and lose the first when it is taken
  (`FlattenHead`), both by induction over their number. The work thread has something in hand
  only until it has written it (`LogBytes`).
- `BytesInBounds`. `InBounds` needs only the types. Behind the link it is proved for whatever
  bytes the send side writes, wrong headers included.
- `SpeakersAreKept`. The main thread decides in several steps, with callbacks in between. What
  keeps a speaker is that a message counted for the connection in a slot shows in
  the slot's count, which the check reads (`Shown`). A connect clears that count, so it must be known
  that nothing was received yet of a connection that is not in the table (`NotYet`), and for
  this that nobody is ahead of the serials given out (`Behind`). In `TypeCorrect` the
  time of a slot comes to the limit only in the hands of the main thread (`TimeInv`).
  `ActiveIsExact` says how far the table is from the connections, and the count
  from the table, at each step of a callback (`TableInv`).
- `SessionsAreExact`, `ParasAreExact`. A parameter, and a session, is in one place: free, in
  the hands of one worker, or at its request, respectively reading (`ParaInv`, `SessionInv`,
  `RequestInv`); the table and its count follow from who has the session (`TableInv`, `CountInv`).
- `MessagesHandledInOrder`. The main thread follows a chain whose blocks are freed, and used
  again, behind it. `ChainInv` names the block of each message that was queued (`f`) and the
  number taken from the queue (`m`): the blocks from the one in hand to the last are distinct
  and not free, each one's next is the following one's, up to the end of its batch. What the io
  threads hold is theirs alone (`MineInv`).
- `TasksOnce`, `JoinedShutdownIsDone`. The queue holds the youngest tasks in order
  (`TasksInv`); a thread ends only with an empty queue after the stop, and nothing is queued
  after it (`StopInv`).
- `HandlersFindEverything`. An order of stages: everything is built before the first io
  thread runs, and nothing is taken apart before the last was joined (`BuiltInv`, `IoInv`,
  `UpdateInv`). What was built need not be followed piece by piece.
- `HandlersRunAsRegistered`. An entry of the table is empty or was registered (`HandlerInv`).
- `SpareBuffers`. `LogInv` counts the buffers: full ones, spare ones and the one in the
  hands of the work thread. While that thread runs there is at least one, so that it always finds or
  returns one to swap in.
- `FreeListsWhole`. For each class there is a sequence without repetition of its free blocks
  in which `next` leads from each to the following one and `prev` back (`Listed`); the proof
  never follows pointers through memory. Three lemmas about any such list carry it: a block
  put in front (`ListPush`, the end of `free`), a block taken out anywhere (`ListUnlink`, for
  `alloc` the first, for `garbage_collect` any), and a list whose blocks are left alone
  (`ListKept`). Between two turns `garbage_collect` stands at a free block of its class
  (`Collecting`), which is why it may follow that one's `prev` after it has unlinked it. The
  counter is the number of the units of all free blocks (`Units`), since the sum in
  `ListsWhole` is a recursion over a choice; that they are the same is an induction over the
  size of the set (`AddsUpIs`). That the powers of two in `Size` are numbers is part of
  `MemPoolAssumption`: the provers know nothing of exponents, and TLC evaluates it.
- `RingsKeepOrder`. The fifo's items are the places of the ring from the head on, modulo its
  size (`Contents`). Three lemmas about any ring carry both proofs: writing at the end
  appends (`ContentsGrow`), moving the head takes from the front (`ContentsRest`), and the
  tail is where the items end (`EndMoves`). `RingInv` and `QueueInv` only say that the tail,
  the head and the count agree; what the two copies of `write` and `peek` leave in
  the places, or in the caller's buffer, is computed in `StoredPlaces` and `PeekedFront`.

- `OptionsAsWritten`. `ConfigInv`: the pairs are those of the lines that were read, no two of
  them with one name (`FileRead`), and the options before the one to set next have what
  the whole file says (`OptionsSet`). `wserver_cfg::init` forgets the pairs at its end, so
  that the property is about the file alone and the two have to be carried up to there.

The proof of a step has one lemma per action (or per group of actions that leave the
same parts alone), split by the conjunct it can disturb. A theorem about a run follows from
the one about the part because a step of the whole is a step of the part or leaves its
variables alone (`ServerStep`, `WireActions`, ...).

### Only model-checked

- Liveness: `ShutReturned`, `ShutReported`, `EveryMessageArrives`, `EveryTaskRuns`,
  `ShutdownReturns`, `LinesReachDisk`, `EveryMessageHandled`, `SilentIsClosed`, `StopEnds`,
  `RequestsEnd`. The prover has no rule for the `ENABLED` of a fairness condition.
- What a definition computes by going over data of any length: `WholePieces`,
  `ReadsAsWritten`. The induction theorems of the library have an operator
  as a parameter, which no prover here can instantiate. Where a proof needs induction
  it is over a set: a set of numbers with 0 and the next of each of its numbers has all of
  them (`Induct`), because every set of numbers has a least one (`WFMin`). That is how
  `PayloadsGoOut`, `LinesReachTheFile`, `AcceptedArrive` and `DecryptedAsSent` are proved, with
  `PayloadOf` and `arrived` of `FramesArrive` written as recursive functions: the provers know
  no fact of `SelectSeq`.
- Not proved yet: the type invariants of `MCProcesses` and `MCData`, of which the theorems `TypeCorrect` prove those of
  six parts.

## Where code and documentation disagree

The eight runs that expect a violation, with the lines they quote, are the
`findings` of `PROJECT.json`:

- a message sent while the last write ends is left in the buffer until another one is
  sent (`wnet_session.cpp:362`);
- with two io workers a late `_close` shuts the next connection of the session
  (`wnet_session.cpp:278`);
- a queued header has the size where its id belongs (`wnet_session.cpp:395`);
- the beginning of a message in which a connection ended is delivered as a message, cut
  short and under the old id, on the first read of the session's next connection (`wnet_session.cpp:100`);
- a silent session is closed after as many turns of the main loop as its heart beat has rounds of
  15 s, for the default of 120 s in about 0.8 s (`wtime_api.cpp:30`);
- the connection that takes the slot of a silent one is closed instead of it
  (`wwan_session.cpp:55`);
- a peer that has spoken once is never closed for its silence (`wwan_session.cpp:52`);
- waiting messages are freed into a pool that is gone (`wwan_server.cpp:101`).

The modules state, or allow, further ones that no run of this directory checks.
Each shows with the module itself, `Spec` and the constants given here:

| Statement | Constants | What the code does |
|---|---|---|
| `SendPath!FramesIntact` | `BufSize = 11, Sizes = {1}, SizeKey = 0, AllocFails = FALSE, MaxMsgs = 3` | four or five bytes of room pass for a header of six (`wnet_session.cpp:195`) |
| `SendPath!FramesIntact` | `BufSize = 14, Sizes = {8, 9}, SizeKey = 0, AllocFails = TRUE, MaxMsgs = 2` | the roll back leaves two bytes of a refused message (`wnet_session.cpp:204`) |
| `RecvPath!DeliveredAsSent` | `RecvBuf = 16, MaxSize = 8, Sizes = {1, 2}, MaxMsgs = 3, MaxConns = 1`, no cuts, no failures | with room for two messages the second is parsed with the header of the first (`wnet_session.cpp:460`) |
| `ThreadPool!ShutdownIsDone` | 1 thread, 1 poster, 2 closers, 1 task | a second shutdown returns before the first (`wthread_pool.cpp:43`) |
| `MemPool!LaterUsedLess` | 2 blocks, 1 thread, 1 class, `MaxSize = 2, MaxUse = 1` | the last block of a list is not the least used (`wnet_mem_pool.cpp:153`) |
| `ServerLife!ShutdownFindsNet`, `ClientLife!ShutdownFindsNet` | `MayFail = {"init_cfg"}` | shutdown uses a server or client that init did not make (`wwan_server.cpp:75`, `wwan_client.cpp:76`) |
| `ClientLife!DestroyFindsPool` | `MayFail = {}`, 3 blocks | as in the server (`wwan_client.cpp:102`) |
| `ClientLife!StopSeen` | `MayFail = {}`, 3 blocks | the signal does not wake a client that waits for a line (`wclient/wmain_thread.cpp:114`) |
| `ServerLife!WaitFreed` | `MayFail = {}`, 2 blocks | waiting blocks of a session are not freed (`wnet_session.cpp:72`) |
| `ServerLife!WorkIsListening` | `MayFail = {"start"}` | the loop runs although the port could not be bound (`wwan_server.cpp:70`) |
| `NetClient!EveryRequestAnswered` | `NumSessions = 1, Reconnect = TRUE, MaxRequests = 2` | a connection without a free session is never answered (`wnet_client.cpp:120`) |
| `NetClient!ParaKept` | `BadAddress = TRUE, MaxRequests = 1` | an address that does not parse loses its parameter (`wnet_client.cpp:85`) |
| `Config!LoadedAsWritten` | `Marked = TRUE, MaxLines = 1` | the option of the first line is not found in a file with a byte order mark, as `src/linux/cfg.txt` is (`wconfig.cpp:245`) |
| `Config!ZoneInRange`, `Config!SameUnit` | `Scale = 10, Unsigned = 256, Numbers = {0, 9, 30}, MaxLines = 1` | `set_config` neither checks nor scales (`wconfig.cpp:118`, `:125`) |
| `MainLoop!SilentIsClosed` | as in `MainLoop_too_soon` with `Work = {0, 1, 3, 25}` | the time of a long update is given to nobody (`wmain_thread.cpp:61`) |
| `MsgHandler!UnknownIsLogged` | 4 ids, 2 handlers | an id of the table without a handler passes for known (`wmsg_handler.h:134`) |
| `AsyncLog!LoggedNowhere` never happens | those of `MCData` | a line that is logged after the file could not be opened goes through a null pointer (`wasync_log.cpp:101`), since nobody looks at the result of init |
| `CycleQueue!ImplementsFifo` | `MaxNum = 2, DestroyInUse = TRUE` | `destroy` of a queue with items keeps their number (`wcycle_queue.h:68`); nothing in the repository uses a queue after it |
| `LogLine!LineEnds` | those of `MCData` | a line that fills its buffer has no line end, and the next one is joined to it (`wlog.cpp:63`) |
| `LogLine!NoHole` | those of `MCData` | a number is written behind a text that was left out (`wstream.cpp:38`) |
| `Md5!DigestAgain` | those of `MCData` | a digest that came at the end of a block spoils the next one (`wmd5.cpp:182`: `_buffer` is not restored, and `_finished` is FALSE again) |
| `NumberText!CharHasHex` | `Half = 128` | `int2str_hex<char>` of a negative char reads before its table (`wint2str.cpp:79`, `:99`) |
| `TmToTime(Tm(t)) = t` in `TimeStamps` | `Local = 0`, a zone other than 0 | `tm_to_time_t` adds the zone that `time_t_to_tm` has added already (`wtime_api.cpp:91`) |
| `Time64(Time32(t)) = t` in `TimeStamps` | a time `t` beyond `IntMax` that `Fits` | `time32_to_time_t` adds two `int`s, and their sum overflows from 19 January 2038 on, 30 years before the short times end; the stamps made from a short time are wrong then (`wtime_api.cpp:211`) |
| `TimeStamps!BaseIs2000` | any | the base of the short times is a day before 2000 (`wtime_const.h:18`) |

## Not modelled

- The 64 rounds of MD5 on words of 32 bits: `transform` stands for them in `Md5`. They
  have no case to tell apart, and a test vector covers them better than a model.
- Two io threads in `WanServer`, whose `m_active_session_num` is not atomic. The code
  starts one io thread (`wnet_session_mgr.cpp:18`), and `SessionLifecycle_late_close` shows
  what the library itself promises with two.
- The text of a time, of a float and of an address; which message is logged where;
  resolution of host names, socket options, Windows builds.
- `wtest` and the helpers (`wutil`, `wnet_define`, `wnet_type`, `wnet_ex_type` but for the
  header, whose size and members `SendPath` has): type names, macros and functions without state.

## Plan

Done, in this order: the core (`SessionLifecycle` with its proofs), the bytes
(`SendPath`, `RecvPath`), the application (`WanServer`, `MainLoop`,
`ServerLife`, `NetClient`), the queues (`MsgQueue`, `MemPool`, `ThreadPool`,
`AsyncLog`), the sequential parts; then the composition of the two byte paths
(`Connection`), the client process (`ClientLife`, with `ProcessLife` for what it shares
with the server), the log without a file, log lines, MD5 and numbers as text.

Then theorems, most important first: `ReleaseQuiescent`, the refinement of `SessionTable`,
the application (`WanServer`, `NetClient`, `HandlersFindAll`), the queues (`MsgQueue`, `ThreadPool`),
the byte paths in both directions, the log's buffers, the handler table, the refinement of
`BoundedFifo` by the rings, the configuration, the payloads and the log's lines in order,
the lists of the memory pool.

Next: the type invariants of the parts that have none proved.
