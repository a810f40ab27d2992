# A TLA+ model of the SCHUNK force-torque sensor driver

This directory holds a formal model of the driver in `src/`: TLA+ modules, TLC
configurations that check them on small instances, and theorems checked by TLAPS.
`PROJECT.json` lists the components, the runs, the definitions with the source lines they
translate, the hazards, the findings and the theorems.

## 1. The system

| component | source | state | operations |
|---|---|---|---|
| TCP connection | `utility.py` `Connection` | `is_open`, `persistent`, the socket, a lock | `open`, `close`, `with`, `send`, `receive` |
| UDP stream | `utility.py` `Stream` | socket, open flag, open count, a lock | `with`, `read`, `is_open` |
| data buffer | `utility.py` `FTDataBuffer` | bounded queue, pending samples, drop count, last packet time | `put`, `get`, `get_sample_batch`, `clear` |
| messages | `utility.py` `Message`, `decode_*` | none | encoding, decoding |
| library driver | `schunk_fts_library/driver.py` `Driver` | `is_streaming`, `auto_reconnect`, the update thread, `_lock`, `_streaming_lock` | `streaming_on/off`, parameters, commands, `_update`, `_attempt_reconnect`, sampling |
| ROS node | `schunk_fts_driver/driver.py` `Driver` | lifecycle state, publish thread, publishers, services, base stamp and counter, connection-lost flag | lifecycle transitions, service callbacks, publish loop |
| dummy sensor | `schunk_fts_dummy/src/*.rs` | output rate, counters | a task per TCP connection, a UDP loop |
| CVE scanner | `security/cve_scanner.py` | the report and the alert file, which outlive a scan | a daily scan |
| interfaces, launch, packages, fixtures | `schunk_fts_interfaces`, `launch/`, `setup.py`, `fixtures.py` | none | not modelled |

How they interact. One `Driver` object of the library owns one `Connection`, one `Stream`
and one `FTDataBuffer`. User threads (in ROS: lifecycle callbacks, service callbacks and the
publish thread, on a multi-threaded executor) call it; a background *update thread* drains
the UDP stream into the buffer and, when no packet has come for 0.1 s, closes the TCP
connection and reconnects. All of them use the same `Connection`, most of them without a
common lock. The sensor answers requests over TCP and streams over UDP between the
commands 40 (start) and 41 (stop); the simulator streams whether it was told to or not. The CVE
scanner runs by itself, once a day, on the files of the repository.

What is hard here:

- *Interleaving.* `is_open` is read and written without the connection's lock by `send`,
  `receive` and the tail of `open`; `set_parameter` and the commands do not take the
  driver's `_lock`; two update threads can be alive at once.
- *Matching.* Answers are read by whoever reads first; nothing in an answer is compared with
  the request. The scanner matches what OSV lists with its dependencies by position.
- *Failures.* The sensor loses power, boots, drops a connection; a receive times out and
  leaves the socket connected but marked closed; one step of several raises.
- *Ordering.* Command 41 of a stop races command 40 of a reconnection; `clear` of the buffer
  races a `get`.
- *Liveness.* After any failure the data must come back; `streaming_off` joins a thread that
  may be waiting for a lock or for the sensor.
- *Numbers.* The packet counter is 16 bits wide, the buffer is bounded.

What makes each component correct is listed with the modules below.

## 2. Modules

### `Connection`, `ConnectionClients`, `NodeServices`, and their proofs

`Connection` has the state of the object and one action per operation, without saying who
takes it. Nearly every section under `Connection._lock` is one action; what other threads can
come into the middle of is split: `open()` is `__enter__`, the check of `is_open`, and
`persistent.set()`; `receive()` is the call that blocks, its return, and the assignment
`is_open = False` of its except clause; `__exit__` is the test of `persistent`, the shutdown
and the reset of the flags, with `holder` the thread that holds the lock meanwhile. `sock` is the
socket as the kernel has it ("fresh", "connected", "dead" when the sensor has gone, "shut",
"closed"); `rx` is what each thread's `receive` is doing; `wire` is the sensor's unread answers.
`close()` closes only a socket that is marked open, which wakes its receivers ("stale"); one
that is connected but not so marked is dropped, and goes on in `left` with those who are still
blocked on it and the answers they may still get. The constant `Answer` is the set of answers
a using module tells apart. The sensor (`sensor`: down, booting, up) is environment.

`ConnectionClients` adds threads that use the object in every way the driver does
(request in a with-block, bare request, `open`, `close`), coordinated by nobody. `pc` is
where a thread is, `lasting` a history variable: some `open()` has returned True on an open
connection that no `__exit__` was about to close, and since then nobody called `close()` and no
`receive` failed.

- `LastingStays`: such a connection is open and persistent: nothing that begins to close it
  after that takes it away.
- `WithBlockKeeps` (violated, see findings): leaving a with-block never closes a connection
  that is persistent.
- `WedgedUntilClose`: the state "connected but marked closed", in which every with-block
  fails with EISCONN, is entered only by a failed receive and left only by `close()`. It does not
  forbid the state: a late failure may mark a healthy new socket.
- `NoAnswerLeftOver`: on an open connection somebody waits for every answer, so that a late
  one never waits for the next request.

`NodeServices` makes some of the threads service callbacks of the ROS node: send_command, tare,
reset_tare, set_parameter, select_tool_setting, select_noise_filter. `offered` says that the
services exist (`on_activate` creates, `on_deactivate` destroys them), `service` is the set of
threads that run a callback, `got` whose answer each has read. The executor starts no callback
of a mutually exclusive group while one of them runs (`GroupFree`); destroying the services
does not end one that runs. The other threads use the connection in every other way: the
reconnection, `streaming_on` and `streaming_off`. `disturbed` is a history variable: the
callbacks during which somebody who is not a service waited for an answer.

- `AnswersOwnRequest`: a service that was not disturbed has read the answer to its own
  request, after any number of timeouts, activations and failures before it.

### `StreamingDriver`, `StreamingDriver_proofs`

The class `Driver` of the library on top of `Connection`: `streaming_on`, `streaming_off`,
the requests of user threads, `_update` and `_attempt_reconnect`. Each thread is at a
control point `pc[t]`; the points `on_...`, `off_...`, `upd_...` and `rc_...` are statements of
`streaming_on`, `streaming_off`, `_update` and `_attempt_reconnect`, `open_...` those of
`Connection.open`, and `x_...` those of a request: take `_lock`, enter the context, send,
receive, leave, release. `op[t]` is the request in progress and decides where the thread
goes afterwards (`NextPoint`). `cmdLock` and `streamLock` hold the thread that owns the
driver's two locks, `streamCount` is the count of `Stream` (open when positive), `lost[u]` the
local `connection_lost` of update thread `u`, `udp` whether the sensor has been told to stream.

- `LocksHeld`: each lock is held by exactly the thread that is in its section.
- `StreamCounted`: the UDP socket is never open for more threads than are in its
  with-block, whatever binds failed, so the last one out frees the port. The other direction
  does not hold: the exit of an entry that failed to bind closes the socket under another thread.
- `StreamingIsServed`: `is_streaming` implies an update thread that has not left its loop.
- `StartedMeansStreaming`: with automatic reconnection, a `streaming_on` that finds no update
  thread of an earlier call alive returns True only while `is_streaming` still holds, even though
  its update thread may close the connection under its requests. `crowded` is the history
  variable behind the premise; without it the property does not hold, see the observations.
- `OffMeansOff`: when `streaming_off` returns, the flags are reset, the connection is closed on
  a fresh socket, and the thread that was started last has ended. An older one, left over by a
  failed start, is not joined and may open the connection again.
- `Reconnects` (liveness): if the sensor is up for good, keeps its connections, nobody
  calls the driver, and there is one update thread at most, which has the UDP socket open
  (`OneThreadLeft`), a streaming driver with `auto_reconnect` has its data back for good.
- `ControlReturns` (liveness): `streaming_on` and `streaming_off` return, once the other user
  threads leave `_lock` alone.
- `OffStopsSensor`, `IdleDriverStops` (violated, see findings).

Abstractions. Clocks: a wait bounded by a clock may end at any moment its condition is not met; a
sensor that is up and streams delivers, so an update thread misses packets only if none come or
another update thread takes them. A sensor that is up answers within the 2 s of the socket timeout.
The flags that `streaming_on` sets, the start of its thread, and the test of `auto_reconnect` and
the reset of `is_streaming` in `_update` are steps of their own, which a left-over thread can fall
between; two adjacent statements are one action when no other thread can tell the difference. How
the sensor may fail is a constant (`Outage`): it loses power and forgets that it streams, its cable
is pulled, or it drops a connection. The names read by `streaming_on`, the packet counters and the
prints are left out.

Fairness. Every thread that can take a step takes one (`WF` per thread; the threads are OS
threads), nobody has to start a call, the sensor is free. A user thread that waits for
`_lock` gets it if it is free again and again (`SF`): its only competitor is the update
thread, which sleeps more than a second between releasing the lock and asking again; the
premise of `ControlReturns` excludes competitors that do not sleep.

### `Messages`, `DummySensor`, `SensorLink`, `SensorLink_proofs`

`Messages` has what goes over the wire as both ends write and read it: a request is a record of
fields, `ToBytes` and `FromBytes` are the conversions with their byte orders, `Decode` is how
many samples a datagram decodes to, if it does; and the library's table of output rates.
`DummySensor` is the simulator: `Process` answers a request, `mode` is the rate that the tasks of
the TCP connections and the UDP task share, `composing` the UDP task's copy of it between the
moment it reads the rate and the moment the packet is sent. `conn` is a connection: free, open,
left by the client, or ended by its task. `SensorLink` adds the library: drivers that connect,
ask and give up, and the UDP socket, `Stream.read` with its source filter and the queue. A
request on a connection that was given up can still be served, later than the ones on the next.
`lastSet`, `inEffect`, `acked` and `wrong` are history variables.

- `AckedRateIsStreamed`: once `_configure_output_rate` has returned True, and until somebody sets
  the rate again (a request of the driver itself that was given up counts as one), what is streamed
  is what the driver's table says, but for the one packet that was being composed.
- `AnswerMatchesRequest`: the answer read is the one to the request, field by field, and
  `set_parameter` of the rate succeeds exactly for the values the sensor knows. Requests that
  become another one because a field is not hexadecimal are outside (`RequestAssumption`).
- `GetIsCurrent`: the rate that `get_parameter` returns was in effect at some moment during
  the call.
- `DeliveredDecodes`: with a `streaming_source_host`, every packet in the buffer decodes.

The headers' counters, which neither end compares over TCP, and the measured values are left
out. An answer of the simulator arrives whole; the driver reads one at a time.

### `DataBuffer`, `SampleFifo`, `DataBuffer_proofs`

`DataBuffer` is `FTDataBuffer`: the bounded queue of packets, filled by the update thread,
and the deque of pending samples. The queue locks itself, so one operation on it is one
action. The deque has no lock: `get()` is the test of the pending samples, the `popleft` or
the queue's `get`, and the `extend`; `clear()` is two actions, one per container. A packet is
its number, a sample is `<<packet, position>>`, so that order, loss and doubling can be told.
`hand[c]` is the packet reader `c` is taking apart; `usage[c]` says which of the two ways to
read it uses in this run; `delivered`, `lost` and `clear` are history variables.

`SampleFifo` is what a buffer promises a single reader: a packet is accepted or dropped as a
whole, samples come out in order, and a clear cuts off one end of what is buffered.

- `IsSampleFifo`: with one reader that keeps to `get()` or to `get_sample_batch()`, the buffer
  implements `SampleFifo`; the contents are the deque, then the packet in hand, then the queue.
- `Conserved`: every sample that was put is dropped and counted, discarded by `clear()`,
  taken out, or still there, for two readers that mix both calls.
- `PacketInOrder`: the samples of one packet are taken out in order and once.
- `ClearTakesEffect`: what was in the buffer when `clear()` began does not come back,
  except from a packet that a reader held at that moment.

The time of the last packet only decides whether a `get` on an empty queue returns None or
a zero sample; neither touches the state, and both are `GiveUp`.

### `SensorStatus`, `SensorFeed`, `PublishLoop`, `PublishLoop_proofs`

`PublishLoop` is the publishing thread of the ROS node, `_publish_data`. `pc` is "check" (the
condition of the loop), "wait" (in `sample_batch`), "took" (the rest of an iteration) or
"ended". `CheckStop`, `GetSamples`, `GetNothing`, `AnnounceRestored` and `Process` are the
statements between which another thread can come in, `Activate` and `RequestStop` what
`on_activate` and `on_deactivate` do to the thread. `lost`, `ok`, `lastLevel`, `last`, `base`
are the fields of the node; `latched` is the message that a subscriber to the latched topic
`~/state` is given. `out` and `fresh` are history variables. `PromptSpec` is the loop with a
thread and a library that keep up: no time passes while the thread has something to do, and no
packet is on its way for longer than `Delay`.

`SensorFeed` is the sensor's side: a clock whose tick is a packet period, the signal (on, cut, off),
the status bits, the packets on their way, and the buffer with its two waits (0.1 s for None, 1 s
for the zero sample). `flight` is what has been sent and not yet put, in order: in the stream's
socket, which the update thread empties every 10 ms, and in the list that it then works through.
`Tick` sends, `Put` is one `ft_data.put`; the kernel keeps the order of one sender's packets and
drops those that do not fit. A packet has a counter modulo `CounterSize` and, as history, the time
it was sent and the number of the sensor's start. The buffer is a queue of packets:
`get_sample_batch` does not touch the pending samples of `DataBuffer`. `SensorStatus` has the two
ways to a diagnostic level.

- `StampsExact`: two packets of one time base are as far apart in their stamps as they were
  at the sensor, as long as the counter has not come round in between.
- `GapIsExact`: the number of skipped packets that is logged is the number that was missed.
- `LatchTellsTruth`: the latched topic says what the last samples said, or that the
  connection is lost, while the thread is between two iterations.
- `OldSamplesDropped`: no packet that was in the buffer at the activation is looked at. Those
  that were still on their way are: they are put after `clear_samples()`.
- `StampsIncrease`, `RestoredMeansData` (violated, see findings).

A sensor that has lost power is back no sooner than `BootTime`: the library waits 0.1 s, then
sleeps 1 s, and then needs a connection and several answers before the sensor streams again.

### `LifecycleNode`, `LifecycleNode_proofs`

The lifecycle callbacks around `PublishLoop`. `node` is the primary state, `task` what the
transition in progress waits for: `on_configure` is `streaming_on`, the sleep and the read of
the status; `on_deactivate` is the stop event and the join. Callbacks run one at a time, as
the lifecycle services of a node do. Of the library the node sees whether a call returns or
raises and `is_streaming`. Error processing after an exception leads to unconfigured or
finalized, whichever rclpy chooses.

- `QuietUnlessActive`: an unconfigured or inactive node has no publishing thread.
- `ConfiguredMeansStreaming`: a node that is inactive or active has a driver that streams. Not
  the other way round: a failed `on_configure` or `on_cleanup` may leave the driver streaming.
- `StampsExact`, `GapIsExact`, `OldSamplesDropped` and `LatchTellsTruth`, as above, through
  all transitions; `LevelsAgree`: a status that `on_configure` accepts is one at which the loop
  publishes.
- `BaseOfThisRun`: no sample is stamped against a packet of an earlier start of the sensor,
  whose counter has nothing to do with its own. It needs a thread and a library that have kept up and a
  status that has been in order, which the history variable `prompt` records; without the
  second it does not hold, see the observations.

### `CveDependencies`, `CveScanner`, `CveScanner_proofs`

`CveDependencies` reads the dependencies from the files, as pure operators: which files and
elements are read, what is internal or a build tool, which duplicates are dropped, how names
are normalised, and, as reference definitions, what the files declare (`DeclaredPython` and its
siblings). `CveScanner` is a scan, one action per request: `pc` is the stage, `results` the lists of
the batch by position, `i` the dependency at hand, `found` the vulnerabilities so far; `report`,
`alert` and `output` are the files that outlive it. Every request may fail, and an answer of
an unexpected form ends the scan with an exception. `query_osv_batch` makes its list of queries and,
beside it, the list of the indices of the dependencies they are for (`Queries`, `QueryIndices`),
and gives the answer back through those indices; the answer may have fewer lists than there are
queries, and each list may be a first page (`OsvAnswers`), as GitHub's may (`AskGithub`). A query
has the name as it is written. Between scans the repository and what the databases know change.

- `FilesAgree`: between scans the alert file lists what the report marks as critical, every
  reported vulnerability is in a section of the report, and the workflow opens an issue just
  if there is an alert. A job that is killed between the two files, or a write that fails, is not
  among the steps.
- `NothingInvented`: a vulnerability is reported for a dependency that it affects (`OsvLists` says
  so of the dependency itself, without positions).
- `NothingOverlooked`: a scan whose lists all came, and came whole, reports every vulnerability of
  the version that a package is locked to, or of the first version that its requirement names.
- `AdvisoriesOnce`: an advisory that several packages share is reported once, by its id; two ids
  of one advisory are not compared.
- `GraveIsAlerted`: one whose label and scores are all high is in the alert, whichever of the
  requests for its score failed.

Assumed of OSV (external): it looks a Python package up by its normalised name (`OsvMatches`).
The text of requirements and the wording of the reports are left out.

## 3. Runs

| run | instance | states | shows |
|---|---|---|---|
| `node_services` | 3 threads, any of which runs services or uses the connection otherwise | 2.1 M | the properties of the connection, and whose answer a service reads |
| `node_with_block` | the same | | finding 5 |
| `driver_restarts` | 1 controller, both values of `auto_reconnect`, 2 update threads, binds may fail, the sensor drops connections | 2.4 M | counting, service, off means off, what a successful start means |
| `driver_live` | 1 controller, 1 commander (get), 1 update thread, binds may fail, the sensor loses power | 0.7 M | locks, data comes back, calls return |
| `driver_off_stops`, `driver_failed_start` | 1 controller, 1 update thread | | findings 1 and 2 |
| `buffer` | 2 readers mixing both calls or 1 reader with one call, 4 packets of 3 samples, queue of 2 | 1.9 M | conservation, order, clear, the FIFO of samples |
| `lifecycle` | counter of 3 values, 1 packet on its way, queue of 2, 6 periods, 2 statuses, cuts, 1 restart | 6.8 M | stamps, gaps, old samples, latched state, quiet, streaming, levels, the base after a restart |
| `sensor_link` | 2 drivers of two rates, 2 connections, 9 kinds of request, a socket and a queue for 1 packet, strays | 1.8 M | the rate that was acknowledged is streamed and read back, packets decode |
| `cve_scan` | 2 repositories, 2 states of the databases, 4 vulnerabilities, all failures, short answers and first pages | 4.8 M | what the files declare is found, files agree |
| `publish_wrap`, `publish_restored` | a prompt thread | | findings 3 and 4 |

Bounds. For the connection and the driver the only bound is on the number of threads: the sets of
the instance, and `Updater`, the update threads alive at once (`streaming_on` is not called while
none is free). Nothing else counts: threads call the driver and the sensor fails for ever. Two
update threads are enough for a leftover one to meet its successor; a third would only repeat the
meeting. They meet in `driver_restarts`, where the sensor drops connections but keeps its power: to
the driver a power failure is a dropped connection and a time without answers, as `driver_live` has
them. `driver_live` has one update thread, as the premise of `Reconnects` asks for, and `LocksHeld`
for more threads is a theorem. Three threads on the connection are one service and two others, or
one that leaves, one that opens and one that is blocked. For the buffer `MaxPackets` bounds how many
packets are put: more than the queue holds, so that it fills, drops and fills again; three samples
in a packet leave two pending, which can be out of order. For the publishing thread and the node
`MaxTime` bounds the clock and `MaxRestarts` the restarts: six periods are two rounds of a counter
of three values, enough for a wrap, a full queue, a packet on its way through an activation, both
waits, a loss and a restoration, and for a packet after the restart that follows one before it. At
the sensor, two drivers are the one whose rate was acknowledged and the one that overrules it, and
two connections let a driver take a new one while its request waits on the old; nothing else is
bounded but the receiver's socket (`MaxAir`) and queue. The full repository of the scanner has a
package in two spellings and versions, a crate in two versions, unreadable files and two packages
that share an upstream; scans go on for ever. Deadlock is checked in the runs of the connection, the
driver, the buffer, the sensor and the scanner; the runs with a clock stop at its bound or with the
ROS context, and do not check it.

## 4. Findings and observations

Findings are runs that end in a counterexample.

1. `driver_off_stops`: `streaming_off` sends 41 before it stops the reconnecting thread, which
   can still send 40; the sensor is left streaming.
2. `driver_failed_start`: a `streaming_on` that times out leaves `auto_reconnect` set; its
   update thread may reconnect for ever in an idle driver.
3. `publish_wrap`: the time base is set once and the counter's difference is taken modulo
   65536, so the stamps fall back to the base every 65536 packets (65 s at 1000 Hz).
4. `publish_restored`: the zero sample that stands for one second without a signal makes the
   loop announce "Connection restored".
5. `node_with_block`: `open()` checks `is_open` and sets `persistent` outside the lock. An `__exit__`
   of another thread that has tested `persistent` before closes the connection all the same, and
   `open()` returns True; `tests/test_connection.py:160` says that this must not be, and tries it
   with one thread.

Observations are steps of the models that a property would forbid, without a run of their own.

The connection and the services:

- A service and a reconnection, or two user threads, whose requests overlap may get each
  other's answers; `disturbed` in `AnswersOwnRequest` is that case.
- After a receive has timed out every service fails until somebody calls `close()` (`Wedged`); as
  long as the UDP stream flows that is nobody before `streaming_off`.
  `schunk_fts_driver/tests/test_services.py` has "services remain available after an error", for an
  error that the sensor answers.

The sensor's link:

- The ROS node gives no `streaming_source_host` (`driver.py:92-97`), so a datagram of somebody
  else that is long enough for a counter gets into the buffer, does not decode, and ends the
  publishing thread.
- A field of a request that is not hexadecimal is dropped and the message sent without it
  (`FieldBytes`), which may be a different request; a parameter's value is reversed when it is
  sent and not when it is received.
- The simulator answers only the first of the requests that arrive together, and streams
  regardless of 40 and 41. A request to set the rate on a connection that was given up may be
  served after the next one and change the rate behind a driver that has configured its own.

The driver, the buffer and the node:

- An update thread that a `streaming_on` without automatic reconnection left over may have found
  `auto_reconnect` false and reset `is_streaming` (`GiveUpStreaming`) after a later `streaming_on` has
  set both; that call returns True with streaming off. So `StartedMeansStreaming` asks that no
  thread was left over.
- An update thread whose bind failed leaves the stream like any other, and its exit closes the
  socket of the thread that has it open (`ExitStream`): the other reconnects for ever and gets no
  data. So `Reconnects` asks for a socket that is open for the thread that is left. Two threads also
  close the connection under each other's reconnections.
- A thread left over by a failed start is not joined by `streaming_off` once a later start has put
  its own in the place: it may be in the middle of a reconnection, open the connection again and
  send command 40 after the call has returned.
- Packets that were sent before an activation and are still in the socket or in the hands of the
  update thread when `on_activate` clears the buffer are put after it and published (`flight`).
- On a connection that the sensor has dropped, `streaming_off` raises `struct.error` in its first
  statement and resets nothing (`Raises` in `AfterCallerRequest` of `StreamingDriver`).
- Of two `get()` calls that see the same last pending sample, the second raises `IndexError`
  (`PopRaises` of `DataBuffer`); only the packaged mode 500_16 has pending samples.
- A loss is noted only if the last status was OK; a sensor that restarts in another status is
  stamped against the base of its former life (`GetNothing` of `PublishLoop`).
- `on_configure` judges the sensor by the oldest buffered sample, which can be one of the
  session before: `on_cleanup` leaves the buffer as it is (`JudgeSample` of `LifecycleNode`).
- An `on_configure` that fails on the status leaves the node unconfigured, connected and
  streaming (`JudgeNoSignal`, `JudgeSample`); an `on_shutdown` of an active node leaves the
  thread publishing (`OnShutdown`).

The scanner:

- A batch request that fails counts as no vulnerability: the scan reports that all is well,
  removes the alert of the scan before and exits with 0 (`QueryOsvBatch`); exit code 1 stands for
  findings and for an uncaught exception alike. `next_page_token` and
  GitHub's further pages are not read, and an answer with too few lists counts as whole.
- Of a requirement only the first version it names is looked up (`FirstVersion`), and names go to OSV
  as they are written (`OsvQuery`): that OSV finds them rests on its own normalisation.
- A vulnerability with no id or alias of GitHub and no label, as those of RustSec, has the score
  0.0 and never raises an alert, whatever its CVSS vector says (`CvssScores`).

## 5. Proofs

Every invariant and action property of the passing runs is a theorem, for every value of the
constants that the named assumptions allow.

`NodeServices_proofs` proves first, of `ConnectionClients`, for any finite set of threads with
`Thread \subseteq Answer` (`AnswerAssumption`): the type invariant (`TypeCorrect`),
`LastingConnectionStays`, `NoAnswerIsLeftOver` and the action property `WedgeNeedsClose`. The
inductive invariant `Inv` is the conjunction of the types, `LastingStays`, `FlagHonest` (`is_open`
only on a socket that was connected), `ShutIsHeld` (a socket is "shut" only while its `__exit__`
holds the lock) and `NoExitPending` (no `__exit__` is past its test while a connection is lasting).
These are the strengthening: without `FlagHonest` a connect could take a lasting connection away,
without `NoExitPending` an exit could. The connection's part is proved once per operation
(`ConnStepKeeps`, `SendKeeps`, `AnswerKeeps`, `SensorKeeps`) and used by each action of the clients.
`NoAnswerIsLeftOver` counts: a request adds an answer and a thread that waits, a receive takes one
of each, and a receive that fails marks the connection closed in the same step. It needs that a
thread outside `recv` has no receive going on (`RxFits`).

Of `NodeServices` it proves `ServiceTypeCorrect` and `ServicesGetTheirAnswer` for any number of
executor threads and other users. A service is a client (`ServicesAreClients`), so what the
clients keep carries over. `ServiceInv` adds that one service runs at a time and that, as long as
it is undisturbed, nobody else waits and what is under way is its own answer. That nothing
was under way when it sent its request is `NoAnswerLeftOver`; what may still
arrive on a socket that `close()` dropped is its own answer too, which rests on `LeftInv`: whoever is
blocked on a dropped socket is blocked on one of them only.

`Connection_proofs` holds that part of the argument, for every module built on `Connection`.

`StreamingDriver_proofs` proves, for any sets of controllers, commanders and update threads
(finite for the last one) and any behaviour of the sensor: `DriverTypeCorrect`,
`LocksAreHeld`, `StreamingAlwaysServed`, `OffMeansStreamingIsOff`, `StreamIsCounted` and the
action property `StartedDriverStreams`. From
`ThreadAssumption`: callers are not update threads, and an answer is "ok" or "error". The
inductive invariant `DriverInv` and the next one have four parts the properties do not state.

- `ConnInv`, from `Connection_proofs`: the types need the connection's.
- `RequestsFit`: the update thread asks only for the output rate and for command 40, and
  nobody is at a lock its request does not use. Without it a release could free a lock that
  another thread holds.
- `OffProgress`: what `streaming_off` has achieved at each of its statements. It stays true
  because only `StartUpdateThread` sets a flag or revives a thread (`OnlyStartIsLoud`) and the
  lock keeps that one out (`OffExcludesOn`).
- `OnProgress`: in a call of `streaming_on` that found no update thread, there is none until it
  starts its own, and from then on `auto_reconnect` implies that `is_streaming` is set and that
  nobody is about to reset it. An update thread that finds the connection lost then goes on to
  reconnect (`NobodyGivesUp`), and every other step that ends the streaming is one of the thread
  that holds `_streaming_lock` (`EndOfStreaming`).

A step of one thread leaves the other threads alone, so the locks need to be looked at for
that thread only (`LocalKeepsLocks`). For the count, an entry adds one to both sides and an
exit takes one from both (`CountKept`); everything else changes neither (`OthersKeepStream`).

`DataBuffer_proofs` proves, for any finite set of readers and calls they mix, any size of the
queue and of the packets (`BufferAssumption`): `TypeCorrect`, `SamplesConserved`, `ClearCorrect`,
`OrderKept` and `BufferIsSampleFifo`, each from an invariant of its own.

- Conservation counts: a step moves samples from one place to the next, and the packets in hand
  are counted by `Cardinality`, because several readers may hold one.
- `ClearInv`: from the moment `clear()` has emptied the queue, only the deque and the hands noted
  at that moment have older packets, the deque until the second half has emptied it.
- `OrderInv`: a packet has been taken apart, is in one hand, or is in the queue, and never in two
  places; of a packet that has been taken apart, what was delivered comes before what is pending.
- The refinement needs `SoloInv`: a reader that calls only `get_sample_batch()` leaves nothing
  pending, and one that calls only `get()` takes a packet apart only when nothing is pending.
  Otherwise the deque would not come before the packet in hand. There is a lemma per operation
  of the buffer that says which operation of `SampleFifo` it is, or that it is none.

`PublishLoop_proofs` proves, for any width of the counter, queue, waits, statuses, clock and
number of restarts (`FeedAssumption`): `TypeCorrect`, `LatchAlwaysTellsTruth`,
`OldSamplesAreDropped`, `StampsAreExact` and `GapsAreExact`. TLC's small counter becomes one of any
width here, the code's 65536 included.

- `LatchInv` says that the latched message is that of `_last_state_level` unless the loss
  stands there or a publisher has raised; this is what makes "publish only on a change" right.
- `OrderInv` is the order of the packets on their way, in the buffer, in hand and of the last one;
  `FreshInv`, that all of them were sent after what the activation found in the buffer. It needs
  the order: what is on its way at the activation is younger than what is buffered.
- `CountInv`: there is a list of the times at which the sensor was started such that every
  packet in the node, wherever it is held, counts from the start of its life. The list is
  what relates packets of different lives; a restart extends it. `CountersTellTime` and the
  lemmas on remainders (`ModDifference`, `ModGap`) turn it into the two properties.
- `NothingNewKnown`: the thread brings no packet into the node, so only a tick matters.

`StatusLevelsAgree` shows for every status that the two ways to a level agree.

`LifecycleNode_proofs` proves `LifecycleTypeCorrect`, `InactiveIsQuiet`, `ConfiguredStreams`,
`LevelsAlwaysAgree`, `BaseIsOfThisRun`, and the four properties of the thread once more, with all
transitions of the node around it. A step of the node is one of `PublishLoop` or leaves the thread
alone but for taking packets out of the buffer (`StepsOfTheLoop`, `NodeLeavesThreadAlone`,
`NodeKeepsInvariants`), so the invariants carry over; `TransitionInv` adds the state in which each
task is worked on. For `BaseIsOfThisRun`, `BaseInv` says what a thread and a library that have kept
up know (`FlightInTime`, `KeptUp`): everything on its way and in the buffer was sent in the present
life of the sensor, and a thread that waits has waited since its last packet and no longer than its
patience, which with a packet's delay is less than any sensor needs to boot. So the loss is noted,
and the base dropped, before a packet of the next life can come.

`SensorLink_proofs` proves, for any drivers, connections, requests, bounds and stray datagrams:
`LinkTypeCorrect`, `AckedRateAlwaysStreamed`, `AnswersMatch`, `RateReadIsCurrent` and
`PacketsDecode`. `ConfigureOnTheWire` computes the request's bytes for every rate, `TablesAgree`
compares the two tables of rates, and `ProcessMatches` follows any request through `ToBytes`, the
sensor's `Process` and `FromBytes`, byte for byte. The inductive invariant has these parts:
`LinkInv` (a connection belongs to one driver and carries nothing but its request in progress),
`AckInv` (an answer under way to a configuration, and what the driver was told, is true unless
the rate was set since), `WrongInv` (the one packet that was as before is the one being
composed), `AnswerInv` (an answer under way matches the request its reader waits for),
`CurrentInv` (the rate of the moment is among those noted since each driver asked, and so is the
one in an answer under way), and `StreamInv` (what is delivered is the sensor's, and within the
bounds). Three assumptions: every driver's rate is in the library's table (`RateAssumption`);
stray datagrams do not come from the sensor's address (`StreamAssumption`), without which no
filter could tell them; and a request has the fields its command needs, each of the width of the
protocol, with any value, or is so short that the sensor's task panics and answers nothing
(`RequestAssumption`). The last one is needed for `AnswersMatch`: a field that is not hexadecimal
is left out and moves those behind it, and the sensor answers another request, see the
observations.

`CveScanner_proofs` proves `TypeCorrect`, `FilesAlwaysAgree`, `NothingIsInvented`,
`AdvisoriesAreOnce`, `GraveAlwaysAlerted` and `NothingIsOverlooked` for any contents of the
repository and of the databases and any failures. `ScannerAssumption` gives the types of what a
repository holds and says that the databases' scores and ids are well-formed, `NormalAssumption`
that no internal package's name is a variant spelling; TLC evaluates both. That packages with an
upstream are ROS packages and come last, what `OnceInv` rests on, is proved from the way the files
are read (`SortedByTag`, `RosBehind`), and so is that every version that the files declare is
looked up, whatever duplicates are dropped (`EverythingIsLookedUp`). `FilesInv` follows the two
files through the step between them; `ListedInv` extends `NothingInvented` to the lists of the
batch, position by position, and to the advisories at hand. That the positions are right is proved
of the two lists that `query_osv_batch` makes: what is kept of the dependencies and what is kept of
their indices fit (`KeptTogether`, `QueriesFit`), so each list of the answer, however many there
are, goes to the dependency it is about (`BatchFits`). `CompleteInv` is about a scan whose lists all
came whole: what the databases have of the dependencies behind it is found, what they
have of those before it is in the lists of the batch or still to be asked.

Induction. The library's induction theorems take a predicate as a parameter, which the provers
cannot instantiate. What the folds of the two modules compute, `Accepted` of `SensorLink` and
`Keep` of `CveDependencies`, is therefore written as a recursive function, and the induction runs
over a *set* of numbers: a set that contains 0 and, with a number, the next one, contains all,
because what it lacks would have a least element (`Least`, `Induction`, from the
well-foundedness of `<`). In the same way it is shown first that the functions are defined.

Only model-checked: liveness (`Reconnects`, `ControlReturns`), which is out of the provers'
reach, and that the properties of the findings are violated.

## 6. What is left

What the node assumes of the library's calls (that `streaming_on` returns or raises, and what
`is_streaming` says afterwards) could be shown of `StreamingDriver` by a refinement.

That `on_deactivate` returns is not stated: the join ends because a read lasts 0.1 s at most,
which a clock that stops at its bound cannot show.

Not modelled: `accepted_packet_count` and `ignored_packet_count` of `Stream` and `from_bytes` of the
requests, which only tests use; the names and counters that are only printed; the message
and service definitions, which have no behaviour; the launch file and the package
descriptions, which are declarations; `fixtures.py`, which chooses a sensor for the tests by
asking the outside world; CI.
