# TLA+ models of Polly

Polly is a reactor-based, non-blocking network library in C++. This directory
holds TLA+ models of it, the TLC configurations that check them on small
instances, and TLAPS proofs of what matters most about its event loop, its
poll set, its server and connections, its timers and buffers, its log and the
object cache of its examples. Paths below are relative to the repository's source directory.

## The system

| Part | State | Operations |
|---|---|---|
| `EventLoop` (net/eventloop.*) | `quit_`, `looping_`, the eventfd, `functors_` under `mutex_` | `loop`, `RunInLoop`, `quit`, `wakeup`, `handleRead`, `doPendingFunctors` |
| `EventLoopThread` (net/eventloop_thread.*) | `loop_`, the thread | `Start`, `eventLoop`, destructor |
| `Poller` (net/poller.*) | `pollfds_`, `channels_` | `UpdateChannel`, `Poll`, `fillActiveChannels` |
| `Channel` (net/channel.*) | `events_`, `revents_`, `index_` | enabling and disabling events, `HandleEvent` |
| `TcpServer`, `Acceptor` (net/tcp_server.*, net/acceptor.*) | `connections_`, the listening channel | `handleRead`, new-connection and close callbacks, destructor |
| `TcpConnection` (net/tcp_connection.*) | `state_`, `snd_buffer_`, its channel and socket | `Send`, `Shutdown`, `HandleRead`, `HandleWrite`, `HandleClose`, `ConnectDestroyed`, destructor |
| `TimerQueue`, `Timer`, `Timestamp` (net/timer_queue.*, util/timer.*, util/timestamp.*) | `timers_`, the timerfd | `AddTimer`, `addTimer`, `HandleRead`, `reset` |
| `Buffer` (util/buffer.*) | the vector and two indices | `append`, `prepend`, `retrieve`, `retrieveAll`, `readFd`, `swap` |
| `AsyncLogging` (log/async_logging.*) | two buffers and a list of full ones under `mutex_`, `done` | `Append`, worker thread, `StartWorker`, `StopWorker` |
| `LogFile`, `AppendFile` (log/log_file.*, log/file.*) | the open file, times of the last roll and flush | `Append`, `rollToNewFile` |
| `Logger`, `LogStream`, `Fmt`, `Slice` (log/logger.*, log/log_stream.*, include/polly/slice.h) | the stream of one statement, the bytes of a slice | the `LOG_` macros, `operator<<`, `compare`, `starts_with`, `remove_prefix` |
| `StockFactory` (examples/callback/weak.cc) | `stocks_` under `mutex_`, shared and weak pointers | `get`, the deleter, `deleteSock` |

How they interact: one thread runs an `EventLoop`. It polls the descriptors of
its `Poller`, calls `HandleEvent()` of the active `Channel`s, and then runs the
functors that other threads queued with `RunInLoop()`; in the loop thread
`RunInLoop()` runs its argument on the spot. Timers, the acceptor and the
connections are channels of the loop. Applications run in the callbacks; they
may keep a `TcpConnectionPtr` and use it in other threads. Log entries go
through `AsyncLogging` to a `LogFile` in a worker thread.

What makes it hard:

- threads that push work or call `quit()` at any point of the loop's iteration;
- objects that are destroyed by a callback they are in the middle of, or while
  a queued functor refers to them;
- a poll set kept in three places (slots, map, the index in each channel);
- short writes, errors and a postponed shutdown on one socket;
- `state_` read and written by two threads without a lock;
- timers added and re-armed while others fire, on two clocks;
- buffers that are swapped and recycled between two threads;
- a log file whose clock is only read at some of the calls;
- a deleter that runs some time after the last pointer has gone.

## Modules

| Module | Models | Extends or refines |
|---|---|---|
| `WorkQueue` | what `RunInLoop()` promises: a FIFO queue of functors | – |
| `EventLoop` | `EventLoop` and the threads that use it | implements `WorkQueue` |
| `EventLoopThread` | start, use and destruction of an `EventLoopThread` | `EventLoop` |
| `EventLoopProofs` | theorems about `EventLoop` and `EventLoopThread` | `EventLoopThread` |
| `Poller` | `Poller::UpdateChannel` and the registration side of `Channel` | – |
| `TcpServer` | `TcpServer`, `Acceptor`, `HandleEvent`, life and ownership of connections | `Poller` |
| `TcpServerProofs` | theorems about `TcpServer` | `TcpServer`, `PollerProofs` |
| `TcpConnection` | the sending side of one connection | – |
| `TimerQueue` | timers and the timerfd | – |
| `ByteQueue` | what a `Buffer` promises | – |
| `Buffer` | `Buffer` | implements `ByteQueue` |
| `LogFile` | `LogFile` and `AppendFile` | – |
| `LogEntry` | the size of a log entry, and whether it fails an assertion | – |
| `LogStream` | `Slice`, `Fmt`, `LogStream` and `Logger` | `LogEntry` |
| `AsyncLogging` | `AsyncLogging` and `FixedBuffer`, the `LOG_` statements that feed it and the file it writes to | `LogFile`, `LogEntry` |
| `StockFactory` | the `StockFactory` example | – |
| `ConnectionProofs` | theorems about `TcpConnection` and the `Buffer` it sends from | `TcpConnection`, `Buffer` |
| `PollerProofs`, `TimerQueueProofs`, `AsyncLoggingProofs`, `LogStreamProofs`, `StockFactoryProofs` | theorems about these modules | the module of that name |

Each `MC…` module instantiates the module of that name for TLC.

Conventions. Variables and operators keep the names of the source
(`functors_`, `DisbaleAll`). A critical section under a mutex is one step; a
plain member that two threads use (`quit_`, `state_`, `done`) is read and
written one step at a time. The default build type is Debug
(CMakeLists.txt:19-21), so a failed `assert()` stops the process: the variable
`aborted` records it and no further action is possible. Use of a destroyed
object may crash the process or pass unnoticed, and both are possible steps
(`UseFreed` in `TcpServer`); in `EventLoopThread` it is recorded in `stale`. A
value read through a dangling reference or before it was
ever set is any value; `garbled` records that this happened. The type invariant
of a module is a run's property of its own (`BufferTypeOK`) or a conjunct of
its main invariant, or is proved with it. A definition named `X_Something` before `X` is a wrong version of `X`
that shows that a property notices the mistake; no specification uses it.

### EventLoop

`lpc` is where the loop thread is in `loop()`; `tpc[t]` is `"wake"` for a thread
that has pushed a functor or stored `quit_` and has still to write the eventfd.
`wakeup_fd_` is the eventfd's counter with its upper limit. `ready` are other
descriptors the kernel reports; their callbacks, like functors, may call
`quit()`. `posted` and `ran` are history variables that number the functors.
Everything the loop body does between two accesses to shared state is one
action: `CheckQuit`, `Poll` (or `PollFailed`, when a signal interrupts it),
`handleRead` and `HandleEvent`, `AllHandled`, `SwapFunctors`, `RunFunctor`,
`BatchDone`.

### EventLoopThread

`opc` is the owner, `xpc` the thread. The loop inside is the one of
`EventLoop`. After the thread has ended `loop_` dangles, and calls through it
are collected in `stale`.

### Poller and TcpServer

`Poller` has the slots, the map and every channel's `index_`, and
`FailedAssertion` lists the assertions of `UpdateChannel()` in their order. A
channel may be destroyed at any time, registered or not, because `~Channel()`
does nothing about it and `~Acceptor()` does just that.
`TcpServer` adds the loop thread at the granularity of callbacks: `pc` tells
which callback it is in, `cur` for which channel, `ret` where it goes on
afterwards. Ownership is explicit: a connection lives while it is in
`connections_`, in `held` (copies the application keeps) or in use by the loop
thread (`LoopHolds`); the step that removes the last of these is the destructor.
`server` follows the server's own life: the Acceptor registers its channel
before `Start()` makes it listen, and leaves it registered when it is destroyed,
after which `loop()` may be called again and polls a channel that is gone. Its
descriptor is closed by then: poll(2) reports it as invalid, or reports the
events of whatever other file has the number now (`ReventsOf`).
What is written to sockets is left to `TcpConnection`; here `"write"` in
`events_` stands for data left to send, and a queued `Send()` may leave some,
or write it all and make the write-complete callback, in which the application
may call anything, or fail.

### TcpConnection

Bytes are numbered as `sendInLoop()` takes them, so `wire` (what the socket has
taken) shows any loss or reordering. A direct write that fails, for a moment or
for good, drops its message as a whole: `sendInLoop()` does not take it. `owed` is what had been passed to `Send()`
when `Shutdown()` was called. The functor that `Send()` queues refers to the
caller's string, so `RunSend` sends the message as it was or, `garbled`, any
other; what is said about the bytes is said about runs in which that has not
happened.

### TimerQueue

`now` is the wall clock, `alarm` the time left on the timerfd. `HandleRead` is
split into the part up to `GetExpired()`, one `Fire` per callback (callbacks may
add timers), and `reset`. A functor of `AddTimer()` that runs after the call has
returned reads its arguments from a dead frame; its timer is in `garbled`.

### Buffer

`readable` is the byte sequence a user sees; the refinement mapping gives it to
`ByteQueue`, together with `call`, the last call and its bytes.

### AsyncLogging, LogFile and LogStream

Entries are numbered. Pointers that may be null are sequences of at most one
buffer. A wait may end at any time (notification, timeout or spuriously), which
covers every timing of `notify_one()`. `WriteBuffer` calls `AppendSlice` of
`LogFile`, so the same state has the entries, the buffers, the file and the
clock. `now` is the wall clock; it passes, and it may be set back (`SetClock`).
Times are seconds from `start_period_`, so a roll moves the origin and time goes
on forever in finitely many states. `dirty` is what stdio still holds; `overdue`
counts the calls in a row that left a roll or a flush undone. The constructor's
roll compares the time with a `last_roll_` that was never set, so its assertion
holds or fails in the initial state. An entry has the size `EntrySize` of `LogEntry`,
or fails an assertion (`EntryFails`).

`LogStream` is one statement at a time, by one thread: `Logger()` starts
`stream_` with its prefix, each `operator<<` is a step, `Send` is `~Logger()` with
the default destination, which leaves in `output` what `fputs()` makes of the
bytes. A slice is the sequence of its bytes; a number is printed by what its
conversion takes of its bits and by what the format has after it. `given` keeps
the arguments, so `EntryText` can compare the output with them: with `Value`,
the text an argument should have, unless the conversion of its type is wrong for
it (`Misprinted`: `unsigned char`, `unsigned long`, `unsigned long long`, and
`unsigned int` in its upper half), when the log has what the format makes of it; it also says
that the size and the failure of an entry are those of `LogEntry`, which is all
that `AsyncLogging` knows of one.

### StockFactory

A `Stock` is a number that is used again when no pointer to it is left. `held`
are the shared pointers; the one that ends last calls the deleter, whose steps
(`LockFactory`, `deleteSock`, `DeleteStock`, `UnlockFactory`) interleave with
everything else. `owners` and `facts` are the shared pointers to the factory.
`orphans` are the Stocks whose entry a late deleter has erased.

## Runs

Configurations that pass:

| Configuration | Properties | Shows |
|---|---|---|
| `MCEventLoop` | `NoLostWakeup`, `ImplementsWorkQueue`, `QuitStopsLoop`, `FunctorsRun` | three threads, four posts, an eventfd that reaches its limit: the loop never blocks with work to do, functors run once and in order and, unless the loop stops first, do run; `quit()` stops a running loop |
| `MCEventLoopThread` | `CallsReachLiveLoop`, `QuitInLoopJoins` | calls reach a live loop unless user code stopped it; a `quit()` stored inside `loop()` leads to the join |
| `MCPoller` | `PollSetMatchesChannels`, `ClashOnlyWithDestroyed`, `SlotsFailOnlyAfterShift` | slots, map and channels agree until an assertion fails, and a slot leads to a destroyed channel only if that did not disable its events; a descriptor that is used again is found taken only by such a channel; stale indices arise only from erasing a slot that is not the last |
| `MCTcpServer` | `ServerAgrees`, `DanglingOnlyAfterClose`, `NotifiedOnce`, `CloseAssertions`, `UnregisteredOnlyByLateCalls` | two clients, and `Send()` and `Shutdown()` from another thread, before, while and after the server listens: map, poll set and states agree at every poll; the loop's pointers to channels dangle in two cases only, the Acceptor's after `~TcpServer()` and that of a `HandleEvent()` which has read the end of file; one callback at the start and one at the end of a connection; the assertions of the close hold, and the one against updating an unregistered channel fails only for late calls |
| `MCTcpServerLive` | `PeerCloseRemoves` | a connection whose peer has closed leaves the server |
| `MCTcpConnection` | `StreamInOrder`, `WritingIffBuffered`, `ShutdownAfterBuffer`, `ShutdownCompletes` | the byte stream through every pattern of short writes, errors and shutdown, from the loop thread and two others; a shutdown waits for the buffer and completes |
| `MCTimerQueue` | `AlarmInTime`, `NoTimerLost`, `TimersFire` | the timerfd is never late for the earliest timer; no timer is lost or doubled; timers fire, also when the wall clock is set |
| `MCBuffer` | `BufferTypeOK`, `ImplementsByteQueue`, `GrowsOnlyWhenFull` | a `Buffer` is a byte queue; it grows only when it must and only as far as it must |
| `MCAsyncLogging` | `LogInOrder`, `TempBuffersPresent`, `StopFlushesIfWaiting`, `BuffersHalfFull`, `ChecksInTime`, `EntriesWritten`, `EntriesFlushed`, `StopWorkerReturns` | entries are written once and in order, get to the file and through stdio to the disk; the worker never runs out of buffers, and those that wait are filled; stopping a waiting worker loses nothing, and `StopWorker()` returns; how many calls may pass before a new day or a flush is noticed, also when the wall clock is set |
| `MCLogStream` | `SliceOrder`, `EntryText` | every statement of two insertions: `compare()` is a total order that agrees with `starts_with()`; the log shows what was inserted, but for `Misprinted` numbers and for bytes of 0; an entry fails exactly when it is too long |
| `MCStockFactory` | `DeleterHasFactory`, `EntriesDisappear`, `HeldStocksFound` | three threads, two keys: deleters use a live factory only, no entry is left behind, and a held Stock is found unless a late deleter has erased its entry |

Configurations in which TLC finds that the code does not do what a comment, an
assertion or a test says. The first is a run of `PROJECT.json`, with a finding;
the others are further configurations beside it.

| Configuration | Property | What happens | Against |
|---|---|---|---|
| `MCTcpServerSlots` | `SlotAssertions` | a connection that is not the newest leaves; the `index_` of newer ones is stale | the assertions net/poller.cc:73, 76 |
| `MCStockFactoryOne` | `OneStockPerKey` | the deleter of an old Stock erases the entry of a new one of the same key, and the next `get()` makes a second | `EXPECT_EQ(ibm, ibm2);`, examples/callback/weak.cc:120 |
| `MCTcpConnectionLate` | `ShutdownKeepsEarlierSends` | data queued before `Shutdown()` comes after the write end is shut | "after send all data out", net/tcp_connection.cc:172 |
| `MCEventLoopThreadJoin` | `DestructorReturns` | `quit()` before `loop()` is overwritten by `quit_ = false` (net/eventloop.cc:60); the join hangs | tests/eventloop_test.cc:106-107, which sleeps for 5 seconds before the object goes out of scope |
| `MCTcpServerHandleEvent` | `HandleEventOnLiveChannel` | end of file destroys the connection inside its own `HandleEvent()` | "keep TcpConnection object until TcpServer is destructing", net/tcp_server.cc:59 |
| `MCTcpServerDestructor` | `DestructorAssertion` | `Shutdown()` in another thread overwrites `kDisconnected` | the assertion net/tcp_connection.cc:30 |
| `MCTcpServerFunctor` | `FunctorOnLiveConnection` | a functor with a raw `this` outlives the connection | "Send can be called in non-IO thread", net/tcp_connection.cc:97 |
| `MCTcpConnectionMsg` | `MessagesIntact` | the functor of `Send()` refers to the caller's string | the same comment |
| `MCTimerQueueSame` | `TimestampsUnique` | a second timer for one `Timestamp` is added, not refused | "add will fail", net/timer_queue.h:57 |
| `MCTimerQueueThread` | `TimersAsAsked` | the functor of `AddTimer()` refers to a frame that is gone | "Must be thread safe", net/timer_queue.h:38 |
| `MCAsyncLoggingRoll` | `RollAssertion` | two rolls by size in one second; also a roll after the wall clock was set back | the assertion log/log_file.cc:50 |
| `MCAsyncLoggingRestart` | `EveryWorkerWrites` | `done` is never reset, so a second worker ends at once | "start distinct thread, write logs to disk file", log/async_logging.h:34 |
| `MCPollerReuse` | `RegistrationAssertion` | a channel is destroyed while it is registered, as `~Acceptor()` does with its own; the next channel with the descriptor finds it taken | the assertion net/poller.cc:59 |
| `MCLogFileShared` | `ChecksInTime` | the counter is shared by all `LogFile`s, so the check may always fall to another file | "check per 1024 logs", log/log_file.cc:30 |

### Bounds

- Threads: three callers race the event loop, two a connection, one a server or
  a timer queue. The interesting races take one caller and the loop thread; a
  second caller adds pushes between a push and its wakeup.
- `MaxPosts = 4` lets a batch run while two more functors arrive;
  `MaxEventfd = 2` lets the counter reach its limit.
- Channels and connections: two that are shifted by each other's erase.
  `MCPoller` has four channels on three descriptors, for their reuse.
- Messages of up to 2 bytes and 3 in all give every split of a message into
  direct write, buffer and rest, with another message before or after it.
- Timers: two, at once, later or for the same time, one-shot or repeating; the
  clock runs long enough for a repeating timer to fire twice.
- Buffer: `kCheapPrepend`, `kInitialSize` and `extrabuf` of 1 or 2 bytes and
  chunks up to 3 reach each of the three ways to append, also from `readFd`.
- Logging: entries of one and two bytes in buffers of two, three entries: a
  buffer that is filled exactly, one that the next entry does not fit into, and
  more full buffers than the two that are recycled; one message fails each
  assertion. Days of two seconds, a flush due after one, checks at every second
  append (every third in the configurations that fail), the wall clock set once, files of two bytes: each of size roll, day roll, flush and neither
  comes in every order with the others. Time is not bounded: the day after the
  next is like the next.
- Log statements: `char` and `short` of 4 values, `int` of 12 and `long` of 24, every
  value: numbers of one and two digits, and a `long` loses bits in an `int`; slices of up to 2
  bytes, 0 among them; two insertions into a `FixedBuffer` of 10 bytes, which
  are too few, just enough, or more than enough for it; a `double` that fills
  `Fmt`'s buffer and one that does not.
- Stocks: three threads (one drops, one gets anew, one gets after the late
  erase) and two keys.

### Fairness

- The loop thread, the worker thread and a thread in the middle of a library
  call go on (weak fairness): they are runnable threads, and user callbacks are
  assumed to return. Nothing forces an application to call anything, a peer to
  do anything, or a signal to come.
- The wait of the logging worker ends, because it has a timeout of 3 seconds.
- In `TcpConnection` a socket that polls writable takes at least one byte.
- In `TcpServer` strong fairness of `CloseEvent` says that a socket whose peer
  has closed does not return data or errors forever.
- In `TimerQueue` and `AsyncLogging` time passes.

## Proofs

Each proof rests on the named assumptions of the module it is about, which only
give the constants their kind (numbers, finite sets, a positive limit), and
holds for every value of them: any number of threads, channels, connections,
messages, timers, keys, and bytes. Every invariant, action property and
refinement that a passing run checks is also proved.

`EventLoopProofs`:

- `WakeupNeverLost`: `NoLostWakeup`, whose first conjunct is `TypeOK`, is
  inductive. The two
  lemmas it needs say that `wakeup()` leaves the eventfd readable, also when it
  is full, and that user code in the loop thread takes no wakeup away. The
  critical step is `handleRead`, which clears the eventfd: it happens at
  `"handle"`, before the swap of the same iteration. Its second conjunct, about
  `quit()`, needs no strengthening because `quit_` can only be set in `"poll"`
  by a thread that then stands at `"wake"`.
- `QueueRefinement`: `Spec` implements `WorkQueue!Spec` with the batch and the
  shared queue, concatenated, as the pending functors. The inductive invariant
  `Accounted` is needed for it: a batch exists only while it is being run (else
  the swap would overwrite functors), and every functor pushed is in exactly one
  of `functors_`, `works` and `ran`, so the number a push gets is the one
  `WorkQueue` gives it.
- `FunctorsInOrder`: what the refinement means for a caller, that the n-th
  functor to run is the n-th pushed (`RunOnce`). Its invariant, `Consecutive`,
  numbers the functors through `ran`, the batch and `functors_`; that the batch
  is empty when the swap replaces it is again `Accounted`.
- `LoopOutlivesCalls`: `CallsReachLiveLoop` of `EventLoopThread`. It is
  strengthened by `LeftByQuit`: the thread leaves `loop()`, and so destroys the
  EventLoop, only with `quit_` set, and unless user code has called `quit()`
  that is not before the destructor stands at its `join()`.

`PollerProofs`:

- `PollSetRight`, `RegistrationsSafe`, `IndicesRightUntilShift`:
  `PollSetMatchesChannels`, `ClashOnlyWithDestroyed` and
  `SlotsFailOnlyAfterShift`, with channels destroyed registered or not. They are
  inductive together with `Agree`, which adds that live channels have distinct
  descriptors (`Owners`), that a live channel which was registered once finds no
  entry but its own (`OwnEntries`: so only a first registration can clash, and
  only with a destroyed channel), that a channel in a slot asks for some event
  and has an index, and that, until an erase moves slots, the index is the
  slot's. One lemma for each way through
  `UpdateChannel()`; `RemoveAtProperties` says what the erase does to a vector.

`TcpServerProofs`:

- `MapIsRight`, `OnlyClosedChannelsDangle`, `AnnouncedOnce`: `ServerAgrees`,
  `DanglingOnlyAfterClose` and `NotifiedOnce`; `CloseIsSound`,
  `UnregisteredIsLate`: the action properties `CloseAssertions` and
  `UnregisteredOnlyByLateCalls`. All follow from one inductive invariant,
  `ServerInv`: the types, and while no assertion has failed and nothing dead was
  used, the conjunction of
  - `ConnInv`, the life of each connection. `ServerAgrees` speaks of the moments
    the loop is at poll; in between, a connection that has left the map is alive
    because it is being closed (`Closing`) or its callback runs (`Ending`), and
    how far it has got decides what its channel, its state and the
    notifications may be;
  - `ActiveInv`: the channels still to be handled are the listening one and
    connections of the map, none twice and none the one at hand. That is why
    closing a connection in the middle of an iteration leaves no dangling
    pointer in `active_channels_`: it can only take itself out;
  - `WriteInv`: a `HandleEvent()` that goes on to test for POLLOUT has a
    connection of the map, or one whose peer has closed, since of the ways out
    of the read callback only the end of file closes;
  - `LoopInv` and `CallersInv`: which connection the loop thread, and a thread
    inside `Shutdown()`, is using, and that something keeps it alive;
  - `PollSet`: the invariant of `PollerProofs`, whose lemmas about
    `UpdateChannel()` are used again here, until the server is destroyed; from
    then on all that is left is the slot of the Acceptor;
  - `GoneInv`: and in that slot poll(2) never reports a new connection.

  There is one lemma for each way a step can change the connections
  (established, closed, released, written to), and the actions are instances of
  them. That `fillActiveChannels()`, a recursive function over the slots, gives
  `ActiveInv` is shown by least counterexample: `WFMin` of the natural numbers
  gives the first slot at which the claim fails, and there is none.
  `CloseIsSound` needs `ActiveInv` (the channel at hand belongs to the map) and
  `ConnInv` (and so is not yet disconnected); `UnregisteredIsLate` that a
  channel of the map always asks for reading, so only one outside it can find
  itself unregistered.

`ConnectionProofs`, about `TcpConnection`:

- `SendingSafe`, `ShutdownIsPostponed`: `WritingIffBuffered` and
  `ShutdownAfterBuffer` are inductive together, given the types of the buffer
  and of the queued calls, and neither is alone: `shutdownInLoop()` looks at
  POLLOUT, and that this says whether data waits is the first; that no data
  comes into the buffer after the shutdown is the second, together with the
  direct write that fails first.
- `StreamSafe`: `StreamInOrder`: what the socket has taken and `snd_buffer_`
  are together the bytes `sendInLoop()` took, numbered from 1. A dropped message
  takes no numbers, because it is dropped only while the buffer is empty. That the byte numbers stay
  in range needs `Accounts`: the bytes in queued calls, a sum over a sequence,
  are given by a function of partial sums (`Owing`) instead of a recursion.

`ConnectionProofs`, about `Buffer`:

- `IndicesInOrder`, `BufferIsQueue`, `GrowsLate`: `BufferTypeOK`, the
  refinement of `ByteQueue`, and `GrowsOnlyWhenFull`. `BufferTypeOK` is not
  inductive: `retrieveAll()` sets both indices to `kCheapPrepend`, so the invariant also
  says that the vector never gets smaller than it was made. The refinement rests
  on `WindowAppended`: if one stretch of a vector repeats what was readable and
  the next repeats the new data, the two together are the old contents with the
  data appended. `copy` and `resize` are shown to give such stretches for each
  of the three ways to append; `readFd()` uses the lemma twice, for what went
  into the vector and for what went through `extrabuf`.

`TimerQueueProofs`:

- `TimerfdInTime`: `AlarmInTime` is inductive by itself. A timer added in front
  re-arms the timerfd for itself and so in time for all others; one added
  behind another is covered by that one's alarm (`LaterInTime`); `reset()` arms
  for the least expiration, which exists because times are natural numbers
  (`LeastNatural`); and a tick moves both clocks.
- `TimersKept`: `NoTimerLost`. The invariant `Places` says that the places a
  timer can be in (queued, waiting, due, fired) are disjoint and no two timers
  in them are of the same call, and that one not garbled has the interval it was
  asked for; without the last, `reset()` might drop a repeating timer or keep a
  one-shot one.

`AsyncLoggingProofs`:

- `FileBounds`: `ChecksInTime`, wherever the clock is set. It is strengthened to
  `overdue <= count`: the calls in a row that left something undone are at most
  the calls since the last check, because a call that checks rolls or flushes
  what is due, and a size roll, which does not reset `count`, resets `overdue`.
- `BuffersPresent`: `TempBuffersPresent`, and that `cur_buffer_` points to a
  buffer. The invariant `BufferInv` says which pointers are null at each place
  of the worker, that spare buffers are empty, and that a null `next_buffer_`
  means a buffer in `buffers_`, so that the worker takes at least two buffers
  and has two to recycle.
- `LogSafe`, `StopFlushes`: `LogInOrder` and `StopFlushesIfWaiting`. `LogInv`
  says where the entries are: the file has the first `h`, what is still to be
  written goes on to `m`, the full buffers to `k` and the current buffer to the
  last. `Spans` says that of a sequence of buffers by giving the place where
  each buffer ends, so appending, swapping and writing a buffer are facts about
  intervals; that the flattened sequence is then `1..appended` is shown at the
  end, again by least counterexample. A `StopWorker()` that found the worker
  waiting is owed the entries up to some number, and `Owes` says that from the
  swap on this number is at most `m`.
- `HalfFull`: `BuffersHalfFull`, given `BufferInv`: a buffer is pushed only when
  the entry that follows does not fit, and that entry is the first of the next.

`LogStreamProofs`:

- `CompareIsTotalOrder`, `SlicesOrdered`: `SliceOrder`, first about the operators
  for all sequences of bytes, then about the slice the thread works on. `memcmp`
  is described by the first place where two slices differ (`memcmpIs`), which
  the least counterexample gives, and `compare` by the relation `Less`: at that
  place the byte is smaller, or there is none and the slice is shorter. That
  `Less` is transitive is a matter of the smaller of two such places.
- `EntriesAsExpected`: `EntryText`. The invariant `StreamInv` has one case for
  each place in the life of a statement. `Unfinished`: the stream is the prefix
  and the text of the pieces so far, it has fit, and so has each number into
  `Fmt`'s buffer; `EntryText` says nothing about a statement before it ends, and
  this is what makes the end come out right. `Finished`: the entry is complete.
  Or an assertion has failed, and then the message so far is one for which
  `EntryFails` holds. The lemmas say what the recursive definitions do with one
  more piece (`MessageOfAppend`, `FmtSizesOfAppend`), what a format makes of
  a number's bits (`Printed`), and that this is its value except where
  `Misprinted` says so (`ShownAsExpected`). `MessageOf` and
  `Digits` are recursive functions on finite domains: that such a function
  exists, and that two of them agree, is shown by least counterexample. The
  proof needs `FmtSize > 0`, which the size of an array always is: with 0 a
  message without numbers would count as one whose number is too long.
- `NumbersTellApart`: a text in the log stands for one number of its type: two
  numbers of a signed type, or two of `unsigned char`, `unsigned short` or
  `unsigned int`, never look the same, although the last may be shown negative.
  It follows from `DigitsInjective`: different numbers have different decimal
  digits, by the least number that shares its digits with another. The unsigned
  types from `unsigned long` on are left out because `"%uld"` drops their
  upper bits.

`StockFactoryProofs`:

- `StocksSafe`, `DeletersHaveFactory`, `NoEntryOutlivesStock`:
  `HeldStocksFound`, `DeleterHasFactory` and `EntriesDisappear`. They are
  strengthened by `PlacesAgree` (a thread's place in the deleter says what it
  deletes, and that it holds the factory when it erases) and `EntryHasKey` (an
  entry's Stock has the entry's key, so that the deleter of a Stock erases the
  entry of that Stock, if of any that is still there).

What stays with TLC: liveness under fairness and `ENABLED`, which the proof
system does not support (`QuitStopsLoop`, `FunctorsRun`, `QuitInLoopJoins`,
`PeerCloseRemoves`, `ShutdownCompletes`, `TimersFire`, `EntriesWritten`,
`EntriesFlushed`, `StopWorkerReturns`). The induction theorems of the library
take an operator as a parameter, which the provers cannot instantiate; where a
proof needs induction it takes the least counterexample of a set instead, and
that set has to be written down. Of a `double` only the length of its text is
modelled, so nothing is said about its digits.

## Not modelled

- The prefix and suffix `Logger` puts around a message (time, thread, level,
  file name) beyond their length, the text of floating-point numbers, and the
  log level, which is set at start-up.
- `Socket`, `InetAddress`: one system call each; their effects are in the
  modules that call them.
- `copyable`, `process_info`, `Timestamp` formatting: no state.
- The echo example: its calls are among those of the application in `TcpServer`
  and `TcpConnection`.
- Failures at start-up (`socket`, `bind`, `listen`, `eventfd`,
  `timerfd_create`): they log and abort.
- Write errors of the log file: `AppendFile` gives up silently and counts the
  bytes all the same.
- `Buffer::swap` with a buffer other than a fresh one.
- One state for `EventLoop`, `TcpServer` and `TcpConnection` together. The
  parts share only the functor queue, the channel's write event and `state_`,
  which each module has with the steps of the others that change them; the
  product is beyond what TLC enumerates.
- Destruction of an `EventLoop` with functors in its queue: they are dropped
  unrun. `FunctorsRun` is about loops that go on.
- SIGPIPE is taken to be ignored, as tests/tcp_connection_test.cc does.

## Plan

Model: `swap` of two arbitrary buffers.
