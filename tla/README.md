# Verification of the direction-of-arrival locator

This directory holds TLA+ models of the host software in this repository that
finds the direction of Bluetooth tags, the TLC configurations that check the
models, and TLAPS proofs about them. Sources are cited relative to `src/`;
`common_host/` stands for `receiver_files/app/bluetooth/common_host/` and
`app.c` for `receiver_files/app/bluetooth/example_host/bt_aoa_host_locator/app.c`.

## 1. The system

A *tag* (a Thunderboard) sends advertisements with a Constant Tone Extension
(CTE). An *anchor*, a board with an antenna array, samples the CTE while it
switches between its antennas and reports the IQ samples. The anchor runs a
vendor firmware image, the network co-processor (NCP), and is driven over a
serial line by a *host* program. The host

1. resets the NCP, waits for its boot event and configures it,
2. finds tags, through connections, periodic advertising or the Silicon Labs
   mode, depending on the configured CTE mode,
3. turns each IQ report into an angle with the RTL library, and
4. publishes angles or IQ samples over MQTT, from where it also receives
   configurations and corrections of the angle.

The repository holds two hosts: `bt_aoa_host_locator`, single threaded, in C,
and `main_application_v1`, a demonstration with threads, in C++. The rest is
signal processing research (`libdoa`, `channel_estimation`, `new_approach`),
earlier versions (`old_files`), and firmware images.

### 1.1 Components of bt_aoa_host_locator

| component | state it keeps | operations | makes it correct |
|---|---|---|---|
| tag database, allowlist (`aoa_db.c`) | two linked lists | add, remove, look up, clear | a tag or handle is found if and only if it is in use, once |
| CTE over connections (`cte_conn.c`) | the state of each tag in the database, `connections_unavailable`; in the NCP the scanner and the connections | one case per Bluetooth event | database and connections agree, the scanner is never stranded, the GATT walk of a tag neither stops nor runs twice |
| CTE dispatch, Silicon Labs mode (`aoa_cte.c`, `cte_silabs.c`) | the switching pattern, the mode | boot, IQ report | the receiver is told what the estimators assume |
| connectionless CTE (`cte_conn_less.c`) | the tags in the database; in the NCP the scanner and the synchronisations | one case per Bluetooth event | database and synchronisations agree, the scanner stops only when there is nothing left to find |
| antenna array (`antenna_array.c`) | type and pattern | init, set, shuffle, pin pattern, continuous pattern | a pattern in force can always be decoded |
| angle estimation (`aoa_angle.c`) | configuration list, shared sample buffers, per tag: RTL items, correction, its timeout | init, calculate, correct, release, finalise | buffers and filters fit the estimators, a correction expires |
| application (`app.c`) | report mode, "pattern was set" flag, first boot flag | boot, MQTT messages, configuration, tag callbacks, reports | configuration, NCP and estimators agree |
| parser, messages (`aoa_parse*.c`, `aoa_serdes.c`) | the JSON tree | one function per key | |
| MQTT wrapper (`mqtt.c`) | topic list, connection | publish, subscribe, step, callbacks | every topic is subscribed to again after a reconnection |
| reset (`ncp_reset.c`) | booted flag, retry counter, timer | filter events, reset, timer expiry | every reset ends, within the retry budget |
| timers (`sl_simple_timer_posix.c`) | list of timers, a flag each, set by a signal handler | start, stop, step | a callback follows an expiry |
| transport (`sl_bt_ncp_host.c`) | ring buffer of events | pop an event, wait for a response | nothing is lost, reordered or mixed up |
| main loop (`main.c`, `system.c`) | | poll event, timers, MQTT, in turn | |

They interact by calls from one loop. In every turn `sl_bt_step` takes at most
one event from the transport, offers it to `ncp_reset_on_event`, and if that
lets it through to `sl_bt_on_event`, which calls the application and then the
handler of the CTE mode; then `sli_simple_timer_step` calls the callback of an
expired timer, and `mqtt_step` may call `on_message`. Commands to the NCP are
synchronous: they block in `sl_bt_wait_response`, which queues the events that
come in before the response. A handler that fails ends the program through
`app_assert_status`.

### 1.2 What is hard

* The NCP goes on by itself between two events. Every handler acts on a state
  of the world that may be gone: a connection lost, a handle given to another
  tag, the boot of an earlier reset.
* The boot timer runs against the boot event, and its signal also interrupts
  whatever read the host is in.
* A configuration takes effect in three places at three times: in memory when
  the message arrives, in the NCP at its next boot, in a tag's estimator when
  its next report arrives.
* The ring buffer overflows while a command waits; offsets wrap.
* Corrections and reports are numbered by a counter that wraps, and corrections
  come late.

`PROJECT.json` lists these hazards with the line where each bites and the
properties that watch it.

### 1.3 main_application_v1

One BG thread per locator reads events and fills a buffer per tag and locator;
one AoX thread per tag and locator copies the buffer when its semaphore is
posted and computes an angle; one Loc thread combines the angles of all locators.
`main` starts them and a handler of SIGINT tells them to stop. Shared state:
the buffers (a mutex each), the measurements (no lock), the table of found tags
(a mutex), the transport contexts of `gecko_bglib.cpp` (a mutex around sending, none
around building a command or registering a thread).

| thread | state it shares | operations | makes it correct |
|---|---|---|---|
| BG, one per locator (`bg.cpp`) | buffer and semaphore per tag and locator, table of tags | handle a report, add a tag | one index per tag, no buffer written while it is read |
| AoX, one per tag and locator (`aox.cpp`) | working copy, measurement and semaphore | copy, estimate, announce | angles of one report, the newest report is not forgotten |
| Loc (`loc.cpp`) | semaphores and measurements | wait for all locators, estimate a position | a position needs all locators, and follows when they are ready |
| main, SIGINT (`main.cpp`) | `eAppCtrl`, all semaphores and mutexes | start, stop | every thread ends |

What is hard here: mutexes and semaphores that the signal handler releases on behalf of
others, semaphores that count measurements which overwrite each other, a wait
that gives up half way, and a table that all BG threads fill.

## 2. Modules

| module | models | with |
|---|---|---|
| `AoaDb` | `aoa_db.c` | operators on sequences; the head of a list is the first element |
| `NcpController` | the NCP as `cte_conn.c` meets it (external) | |
| `CteConn` | `cte_conn.c` | extends the two above |
| `SyncController` | the NCP as `cte_conn_less.c` meets it (external) | |
| `ConnLess` | `cte_conn_less.c` | extends `SyncController`, `AoaDb` |
| `Mqtt` | `mqtt.c`, the broker (external) | |
| `LocatorHost` | `app.c` in connectionless mode: boot, configurations, publishing | composes `ConnLess` and `Mqtt` |
| `NcpReset` | `ncp_reset.c`, `system.c`, `main.c`, the timer | its own small NCP and line |
| `EventFifo` | abstract specification: a bounded queue | |
| `BgapiQueue` | `sl_bt_ncp_host.c` | implements `EventFifo` |
| `AntennaArray` | `antenna_array.c` | operators over constants that stand for the tables |
| `Locator` | `app.c`, `cte_silabs.c`, `aoa_cte.c`, `aoa_angle.c` | extends `AntennaArray`, `AoaDb` |
| `Pipeline` | `bg.cpp`, `aox.cpp`, `loc.cpp`, `SignalHandler` of `main.cpp` | |
| `MC*` | instances for TLC | |
| `HostLemmas` | lemmas about sequences, the database and the events under way, for both handlers | extends `AoaDb` |
| `CteConnProofs`, `LocatorHostProofs` | proofs | extend the module in their name, and `HostLemmas` |
| `NcpResetProofs`, `BgapiQueueProofs`, `LocatorProofs`, `PipelineProofs` | proofs | extend the module in their name |

The operators named *Mutant* are plausible bugs. No specification uses them;
`PROJECT.json` says which definition each replaces and which property then fails.

### CteConn and NcpController

One action per event the handler reacts to, named after it. An action is the
whole handler: since commands are answered before the handler goes on, the NCP
cannot move in between. `evq` is everything between the NCP's decision to send
an event and its handling: the line, the ring buffer, the kernel. `link` is the
NCP's connection table, with the GATT procedure each connection runs. Addresses
are model values; service and characteristic handles are reduced to whether they
have been assigned, because `malloc` leaves them uninitialised and a discovery
that found nothing leaves them so (`ServicesDiscovered` has the two outcomes).
`alive = FALSE` is an assertion that failed.

External assumptions, from `sl_bt_api.h` and from what the code relies on:
events arrive in order; a GATT command needs an open connection that runs no
other procedure; `sl_bt_connection_open` fails with the limit error when all
connections are taken and succeeds without a second connection when one to the
same tag is pending or open (the header does not say, and the handler, which
checks no further, relies on it). A handle may be given out again at once, while
events about its last connection are on their way: a command that one of these leads
to then goes to the new connection. The history variable `reused` says that this has
happened; the two properties about the GATT walk are stated of the runs without
it, all others of every run.

`ConfigMessage` is a configuration from the broker in the middle of all this:
`parse_config` empties the database and changes the allowlist, `ncp_reset` resets the
NCP. `Reset` stands for the whole of `ncp_reset`, up to the boot event it waits for:
that everything older than that event is dropped is what the run `NcpReset`
checks (`EventsOfThisBoot`). `connections_unavailable` outlives the reset, as
it does in the code.

### SyncController, ConnLess, Mqtt and LocatorHost

The same handling of events, for periodic advertising: `sync` is the NCP's
table of synchronisations, `evq` the events under way, one action of `ConnLess` per
case of `cte_bt_on_event_conn_less`. Assumed of the NCP: synchronisations are
established in parallel; a scanner that the host has stopped does not stop those that are
pending, for which the stack scans by itself; one tag has one synchronisation
("sync open command is sent multiple times in a row. This is normal and shouldn't cause
any issues"). `LoseSync` is the closed event of a synchronisation that is lost or
given up. `Restart` is a restart of the NCP by itself, which sends a boot event and
no closed events; `restarted` remembers it until the host resets the NCP.

`Mqtt` has the two ends of one connection and the packets in each direction.
`mqtt_step` calls `mosquitto_loop`, which calls `mqtt_on_connect` for a CONNACK
(`OnConnect`: subscribe to all of the list), `mqtt_on_message` (`TakeMessage`) and
`mqtt_on_disconnect` (`OnDisconnect`: connect again, once). The session is clean, so that the broker
forgets the subscriptions of a connection that is gone. Whether
`mqtt_publish` fails after the connection has been lost depends on how far
libmosquitto has noticed it and how many messages wait: `PublishResults` allows both. If
the attempt to connect again fails the socket stays closed for good.

`LocatorHost` joins them as `app.c` does. `FirstBoot` connects, subscribes and
reads the configuration file; `OnConfigMessage` is a configuration from
the broker; `IqReport` publishes, and a failure ends the program. Messages without
an allowlist, retained messages and the other topic's corrections (`Locator` has
these) are left out.

### NcpReset

`pc` is the place in the main loop, or the wait for a response inside the boot
handler; the timer signal, the NCP and the line interleave with every step. A
message carries the number of the boot that produced it, which only properties
look at. Commands are executed in order, lost while the NCP boots, and a reset
may be lost on the way (`MaxLosses`). `Flush` drops any prefix of what is on
the line: what the kernel has, on a UART, and nothing on TCP. The boot event may take
longer than the boot timer, and a configuration may arrive during a reset: the
history variable `untimely` says that one of these, or a restart of the NCP by
itself, has happened, and `EndsUpScanning` speaks of the runs without. The history
variables `sent`, `handled_boot`, `discarded` serve properties too.

### BgapiQueue

A message on the line is a header part and a payload part. `ReadMessage` is one
call of `sli_wait_for_bgapi_message`, with a read of the payload, or of the
header, that may fail (`Interrupted`): the signal handler is installed
without `SA_RESTART`, so that the read of a UART returns -1. What remains on the
line is then skipped byte by byte, or taken for a message if it happens to look
like one (`Misread`). Reads fail only inside `sl_bt_pop_event`, because the boot
timer is armed only while the host waits for the boot event and sends nothing that
is answered.

### Locator and AntennaArray

`config` is the report mode, the flag `antenna_switch_pattern_set` and the
`aoa_angle_config_t` with its buffers; `receiver` what the NCP was told at its
last boot; `state[t]` the estimator in the entry of tag t. `OnConfigMessage` is
`on_message` with a configuration, `parse_config` included: it removes all
tags before it looks at the first key, and ends in `ncp_reset`, whose effect here
is `resetting`, the gate of `ncp_reset_on_event`. `FirstBoot` includes the
configuration file of the command line. `ShuffledArrays` describes the result
of `antenna_array_shuffle_pattern` for every sequence of random numbers as the
rearrangements that form one cycle; `ShuffleLoop` is the loop of the code, and the
invariant `ShuffleIsOneCycle` checks that the two agree. RTL calls succeed;
whether an estimator already has an angle for a report is a free choice
(`estimated`). A correction names the angle it answers by its sequence number.

### Pipeline

A thread is a place in its code (`bgPc`, `aoxPc`, `locPc`) and its local
variables; an action is a piece of code between two accesses to shared state
that another thread could tell apart. A mutex is taken in the step of the first
access it guards and released in the step of the last. A report is its tag, its
number and the *portion* of the buffer that its samples fill. Buffers have two fields,
written and copied in separate steps: the auxiliary info, which is of one report, and the
samples, of which the model keeps the set of reports they may be of. A report that fills the
buffer replaces the set; a shorter one joins it, because the copy of `bg.cpp:317` ends with the
report and the rest of the buffer stays; one that ends within the reference samples also adds
`NoReport`, since the copy then goes on behind them, beyond the end of the report. An angle
stands for the samples it is computed from. If `sl_rtl_aox_process` fails (`result`), `aox.cpp:276`
stores what is in its variables all the same: an angle of no samples, over
whatever was there, which is not announced (`Announce`). The history variable
`announced` counts the announcements. Mutexes are flags, because the handler of SIGINT
unlocks mutexes it does not hold, and a default mutex of glibc is then free.
The handler runs in the main thread, which waits for the other threads and
holds nothing, one tag and locator per step. `SEM_RESET` is empty in the POSIX
build, and `sem_timedwait` with the present as its deadline never
waits: `LocTake` and `LocTimeout`. Initially `bgInit`, `aoxInit` and
`locInit` have returned.

## 3. Runs

| run | asks | states | bounds and why |
|---|---|---|---|
| `CteConn` | do database, connection table, scanner and GATT walk stay consistent, and do tags end up RUNNING? | 599 thousand, 1 min | 2 tags and 2 connections, and a third tag without the CTE service; a report of a tag that is connecting finds the table full, which stops the scanner, and a handle is used again while the events of its last connection wait; one fault, a link lost or a procedure that failed; one configuration, at any moment; no allowlist, or one of two tags. More tags than connections is what the theorems of `CteConnProofs` cover |
| `CteConnAbort` | *finding* | | one lost link is enough |
| `NcpReset` | do timer, retries and gate stay consistent, and does every reset end? | 561 thousand, 30 s | 2 retries, queue of 2, which overflows, 2 configurations, 3 losses (one more than retries), a restart of the NCP, boot events in time and late |
| `NcpResetRefused` | *finding* | | late boot event |
| `BgapiQueueFifo` | is the ring a queue; does anything get lost? | 34 thousand | ring of 3 (2 events fit), 5 events, so that offsets wrap and the ring fills twice; 2 commands, 1 failed read |
| `BgapiQueueInterrupted` | *finding* | | one failed read |
| `LocatorSafety` | do configuration, receiver and estimators agree? | 156 thousand, 80 s | 2 tags; a rectangular array of 3 antennas in 2 variants and a dual polarised pair; sequence numbers modulo 4, so that the counter wraps; configurations of one key, or of two that interact; an allowlist with a repeated tag, after which the loop of `parse_config` reads no further; correction timeouts of 2 and 257, a uint16_t assigned to a uint8_t at `aoa_angle.c:491`, so that the latter becomes 1 (a multiple of 256 becomes 0 and never expires: the run leaves it out) |
| `PipelineThreads` | are buffers, table and shutdown right in every interleaving? | 427 thousand, 2.5 min | 2 locators, one index for 2 tags, so that the table is full; 3 reports, so that one buffer is written, read and written again while the other locator works; the second ends within the reference samples, the third fills the buffer, ends later or is empty, and the estimates of both may fail; SIGINT before or after any number of reports below 3, or never |
| `PipelineFlow` | do measurements and positions follow reports? | 185 thousand, 2 min | 2 locators, 2 tags with an index each, 3 reports, of which the first may fail to be estimated, no SIGINT |
| `PipelineStale` | *finding* | | 4 reports: two for each position |
| `HostConnless` | do database, synchronisations, scanner, allowlist and subscriptions follow each other? | 898 thousand, 2 min | 2 tags and 2 synchronisations, so that one may be lost and made again while the other goes on; one fault, a synchronisation lost or a restart; one configuration, an allowlist of one tag or of both; one connection to the broker lost, at any packet, with a broker that is there or not when the client connects again |
| `HostRestart` | *finding* | | one restart, two allowed tags |

Deadlock is checked except where the program may end (an assertion that fails,
giving up) or hang (a response that a failed read swallowed).

The properties, by the question they answer:

* *The database can be trusted.* `DbHasNoDuplicates`, `DbFollowsConnections`,
  `EventsReachTheirTag`: lookups return the first match, adding does not look
  for duplicates, handles are reused and events are late; still every event
  is applied to its own tag, and when all events are handled database and
  connection table are the same. `DbFollowsSyncs` says so of synchronisations.
* *Scanning goes on.* `ScannerNeverStranded` and `TagsEndUpRunning` in both modes
  (`TagsEndUpSynced` in the connectionless one): a scanner that is off has nothing left to
  find, or an event under way will start it, and tags are found. `StopsOnlyWhenDone`, the
  same without the exception of an NCP that has restarted by itself, fails
  (finding 5).
* *The GATT walk.* `OneGattStepPending`, as long as no handle is reused early, and
  `RunningTagSendsCte`, as long as no procedure fails either: the handler does not look at the result
  of a completed procedure, and no property says what becomes of a tag whose walk failed.
* *Resets.* `TimerGuardsReset`: the timer is armed as long as the host has not handled the boot
  event; a co-processor whose boot event is still unread is then reset once more, but in time, and
  without restarts and further configurations, nothing else leads to a second boot. `RetryBudget`, `EventsOfThisBoot` (as long as no
  event was discarded and no reset lost: then a boot event that waits in the
  queue does answer a later reset), `ResponsesAreConsumed`, `EndsUpScanning`: a
  reset in time ends with a scanner that runs or with giving up.
* *Transport.* `ImplementsFifo`, `NothingLost`, `WaitEnds`, `EventsArrive`.
* *Configurations.* `PatternIsVariant`, `EstimatorMatchesReceiver`,
  `EstimatorMatchesConfig`, `ShuffleIsOneCycle`; `OnlyAllowedTags`, in `Locator` where
  tags are made by reports, and in `LocatorHost` where they are made by synchronisations that a reset
  must cut off.
* *The broker.* `SubscriptionsSettle`: a connection that is lost and made again loses no
  subscription.
* *Threads.* `AnglesAreOfOneReport`, `MeasurementsAreOfTheirTag`, `PositionsNeedEveryLocator`,
  `NewestIsEstimated`, `ReadyMeansPosition`, `ThreadsEnd`. Short reports and failed estimates do
  mix samples of several reports, or put an angle of no samples over a good one: the first two
  properties say how far that goes, and `PositionsNeedEveryLocator` counts announcements only.
* *Corrections.* `CorrectionExpires`, `CorrectionIsRecent`.

## 4. Findings

1. **One lost tag ends the locator** (`CteConnAbort`). A link lost before its
   `connection_opened` event is handled makes the next GATT command fail, and
   `app_assert_status` aborts (`app.c:283`). Without faults it never does
   (`UndisturbedHandlerReturnsOk`).
2. **The second boot event aborts** (`NcpResetRefused`). `cte_conn.c:84` does not
   tolerate a scanner that already runs, as its other callers of the command do. It takes a boot
   that outlasts its timer, a configuration during a reset, or a restart (`TimelyHandlerReturnsOk`).
3. **A slot is queued without its payload** (`BgapiQueueInterrupted`): the
   ring's write offset moves before the payload is read.
4. **A position from old measurements** (`PipelineStale`). A locator that made two
   measurements of a tag has two counts of its semaphore but one measurement; the
   second count lets another position be computed from the same measurement, where
   `loc.cpp:136` and `:177` speak of waiting for new ones of all locators. They are
   never older than those of the position before (`NoPositionGoesBack`).
5. **The scanner stops with a tag missing** (`HostRestart`). An NCP that restarts by
   itself drops its synchronisations without closed events, and a boot event that the host
   did not ask for leaves the database as it is. The entries of before are
   counted when `cte_conn_less.c:141` compares their number with the size of the
   allowlist: "All allowed asset tags found, stop scanning.", and nothing
   starts the scanner again.

## 5. Fairness

The main loop polls for ever, hence weak fairness of the host's actions
(`HandleEvent`, `HostNext`, the turns of the transport). Of the environment: a tag in range keeps
advertising; a pending connection is opened or lost; the ATT layer ends each
procedure (it has a timeout of 30 s in the Bluetooth standard); an NCP that is up
executes commands, and one that boots ends booting; an armed timer expires; a command
gets its response. Links may be lost and reads may fail but need not: no fairness for faults,
and their number is bounded, which is what "once links stop being lost" means.

In `LocatorHost` the main loop polls for events and calls `mqtt_step` in turn, hence
weak fairness of each. A tag in range advertises and a pending synchronisation is
established or lost. Nothing is assumed of the broker: it need not accept,
answer or publish anything.

In `Pipeline` the scheduler runs every thread that is not blocked: weak fairness of
each thread and of the handler. Weak fairness is enough for the mutexes
because reports are bounded, so that a mutex cannot be taken from under a waiting thread for
ever. Reports need not come, and a SIGINT need not come.

## 6. Proofs

TLC checks small instances; the theorems hold for every value of the constants
under the named assumptions of the modules. Every safety property that a passing run checks
is a theorem. For the properties of four of the five findings, which the code violates, a theorem
says when they do hold (`UndisturbedHandlerReturnsOk`, `TimelyHandlerReturnsOk`, `NothingIsLost`,
`ScannerComesBack`).

* `CteConnProofs`: all seven safety properties of `CteConn`, for any tags and handles, any
  limit on connections, any allowlists and any number of faults and configurations.
  The two properties about the database rest on one invariant, `Agreed`. It calls a
  *view* the tag that each handle is of. The database shows one view, the
  connection table another, and the opened and closed events under way lead from the one to
  the other; every event under way fits the view it will meet: a handle is
  opened when it is of no tag and its tag has no other handle, and anything
  else said of a handle is said of its tag. `Agree` in `HostLemmas` states this for any
  handles, with lemmas for each thing that may happen: an event added with the change it
  reports, an event taken with the change of the database, a reset. From it follow
  `DbHasNoDuplicates`, `EventsReachTheirTag` (the first event fits the view that the
  database shows) and `DbFollowsConnections`. None of the three is inductive.
  `WalkInv` follows the walk through GATT of one handle: the next step is a
  procedure or an event under way, never both, and there is one until the tag is
  RUNNING; an ENABLE_CTE entry has nothing before it but the write. It holds until a handle
  is given out too early, which is why the two properties are stated so.
  `ScannerNeverStranded` is inductive together with the types: whatever turns the scanner off
  also fills the table, and what frees a connection sends the closed event.
  `UndisturbedHandlerReturnsOk` is the boundary of finding 1: as long as no link is lost, no
  procedure fails and there is one configuration at most, no command of the handler is refused.
  In its invariant, `CalmInv`, events are about open connections only, nothing else goes on while a boot
  event is awaited, and the service of a tag is found before the search for it completes (`Found`).
* `LocatorHostProofs`: `TypeCorrect`, `AllowedAlways`, `SubscriptionsAlways`, `DbIsFaithful`,
  `ScannerComesBack`, for any tags, synchronisations and configurations and any number of
  faults and outages.
  `OnlyAllowedTags` is not inductive, because an entry is made from an event and
  an event from a synchronisation; `OnlyOf` says of all three that they are of
  allowed tags, and `BeforeBoot` that there are none before the allowlist is read.
  `parse_config` and `ncp_reset` together re-establish it for the new allowlist: neither
  would alone. For the subscriptions, `NothingElse` and `NothingMissing` follow each
  topic from the list through the packets under way to the session of the broker, unless
  a CONNECT or its answer is still to come. `DbIsFaithful` is the argument by views again
  (`FollowInv`), with synchronisations in the place of connections, as long as the
  co-processor has not restarted by itself. `ScannerComesBack` has to go from
  numbers to tags: the handler stops the scanner when the number of its entries is the
  size of the allowlist. The entries are of different tags, and all are
  allowed, so by counting (`AllFound`) every allowed tag has one.
  `QuietHostGoesOn` says when no assertion fails: if no synchronisation and no connection to the
  broker is lost, the NCP does not restart by itself and there is one configuration at most, the
  program ends only for want of a broker at its first boot. (TLC finds that it may end when
  any one of these is dropped.) In its invariant, `Calm`, a boot event is alone on its way and finds
  the scanner off, and a synchronisation whose opened event is under way is still open.
* `NcpResetProofs`: `TypeCorrect`, `TimerGuards`, `Budget`, `ResponsesConsumed`,
  `EventsAreOfThisBoot`. The first half of `TimerGuardsReset` is
  inductive together with the types; the second, that nothing which would boot the co-processor once
  more is on its way, follows from `OneBoot`, below. The budget is not inductive: `ResetsCounted` says
  that the number of resets sent is the retry counter plus one, and that the
  counter is at its limit when the host has given up. Responses: `OneAnswer` says that a start
  command is on its way only while main waits for its response, that there is then no other,
  and that the queue has none. Events of an earlier life: `KnownBoot` says that
  queue and line, read one after the other from the boot handled last, tell of boots
  and events in step, and that the last boot they tell of is the last there was, unless
  a reset is on its way before anything that would start the scanner; `Orderly` that
  the response of a start command separates a boot on the line from any event after it,
  which is how the flush that waits for that response cannot cut off a boot and
  leave its events. `TimelyHandlerReturnsOk` is the boundary of finding 2: however many resets are
  lost, the second boot event takes a timer that expires during a boot, a configuration during
  a reset, or an NCP that restarts by itself (`OneBoot`: until then one reset, one boot in
  progress or one boot event is all there is on the way to the handler).
* `BgapiQueueProofs`: `TypeCorrect`, `RingImplementsFifo`, the refinement of
  `EventFifo`, and `NothingIsLost`. Under the mapping the queue is the sequence of the headers between
  the two offsets modulo the length. Three lemmas carry it: storing appends to that
  sequence, popping removes its head, and full means that its length is the
  length of the ring minus one. Everything else stutters. `NothingLost` counts events, hence the
  invariant `Undisturbed`: the line is whole messages, the numbers of the events
  delivered, queued and on the line increase in this order, and they and the
  discarded ones are as many as were sent. It holds until a read fails (`Sound`).
* `LocatorProofs`: `TypeCorrect`, `VariantAlways`, `ReceiverAgrees`,
  `BuffersAgree`, `AllowedAlways`, `OnlyRecentCorrections`, `CorrectionsExpire`. The inductive invariant `IInv` is needed
  because none of the first five properties is inductive. It says that the array in force is
  a variant, that the configuration is finalised (snapshots and buffers computed
  from the rest), that every estimator is what `aoa_init_rtl` would build now,
  that the receiver follows the configuration unless a reset is under way, that
  nothing exists before the first boot, and that database, allowlist and
  estimators agree. That a shuffled variant is a variant needs that one cycle
  over a finite set of slots is onto; that the continuous pattern decodes the
  pin pattern needs the assumption that a variant has no antenna twice.
  `OnlyRecentCorrections` needs that `SequenceCompare` is the distance on the circle of
  sequence numbers (`CompareIsDistance`), and beyond any delay for a tag without a report. `CorrectionsExpire`
  has a hypothesis, `TimeoutsFit`: no timeout, of the default or of a configuration, is a
  multiple of 256. The code does not ensure it, and for such a timeout the property is false:
  `aoa_set_correction` assigns the uint16_t to a uint8_t, the counter is 0 and is
  never counted down to the end. That the timeout in force then also fits is part of
  the invariant (`TimeoutInForceFits`).
  `LoopShuffles` is about the loop of `antenna_array_shuffle_pattern`, a recursive function of
  the model, for arrays of every size. The library's induction theorem cannot be instantiated
  here, so its argument is made by hand: the function is shown to exist by a
  witness, and a claim about all slots is proved from the least slot at which it would fail
  (`LeastNat`). Each swap puts one more slot into the cycle (`SwapThenRearranged`), and every
  cycle is undone by a swap of the same kind (`RearrangedThenSwap`), so that the loop makes
  cycles and no cycle is out of its reach.
* `PipelineProofs`: `TypeCorrect`, `SamplesAreOfOneReport`, `IndicesAreOfTags`, `EveryLocatorMeasured`, `NoPositionGoesBack`, for any
  number of locators, tags and reports. What the mutexes guard (`BuffersExclude`,
  `TableExclude`: two users of a buffer, or two writers of the table,
  never at once; `BuffersWhole`: a buffer that is not being written has samples of the report
  whose auxiliary info it has, if that had any, and no others if that report filled it) is invariant only while the program runs, since the handler of SIGINT unlocks
  mutexes in use. The first two properties hold for ever nevertheless: an AoX thread
  looks at `eAppCtrl` before it uses its copy (`AnglesWhole`), and an index whose
  entry in the table may still change has no measurement (`Fresh` in `AnglesOfTag`),
  even if two threads write the same entry after a SIGINT. `PositionsNeedEveryLocator`
  is proved by counting (`AnnouncementsCount`): the counts of a semaphore, and those that the Loc
  thread has taken and not yet used or dropped, are never more than the announcements that no position has
  used. Its second half needs that a semaphore is posted only after a measurement is stored, and
  that a Loc thread past locator *n* of a tag has found measurements of all up to *n*
  (`FlowInv`). The handler of SIGINT posts every semaphore without a measurement, so these hold only
  while the program runs; the property holds for ever, since the Loc thread looks at
  `eAppCtrl` before it computes.
  `NoPositionGoesBack` limits finding 4: a position may be made from measurements that were used before,
  but never from older ones. Reports grow older along their way, from the buffer to the
  copy, the measurement and the position (`AgeInv`), before and after a SIGINT. No run has this
  property; it is stated in `PipelineProofs`.

The assumptions on constants are those named in the modules (`BoundsAssumption` of
`NcpController`, that its two bounds are numbers, among them); the model
bounds (`MaxFaults`, `MaxConfigs`, reports, losses) are constants too, so the
theorems hold for any bound.

Only model-checked: the liveness properties (`TagsEndUpRunning`, `TagsEndUpSynced`,
`EndsUpScanning`, `WaitEnds`, `EventsArrive`, `NewestIsEstimated`, `ReadyMeansPosition`,
`ThreadsEnd`), since liveness under fairness is out of the prover's reach.

## 7. Not modelled

The greater part of this repository by lines is not the program but what it is built on:
generated BGAPI headers, the vendor's SDK (several copies of it under `old_files`),
CMSIS and firmware sources. The models cover the hosts' own control code, a few thousand
lines, and so a small share of all lines.

The RTL library and `libdoa` (floating point), JSON and MQTT payloads, log
output, option parsing, ports, the Windows and macOS variants, `old_files`, the
MATLAB code, vendored code and firmware images. `PROJECT.json` has every part
with its reason. In the modelled parts: memory exhaustion, masks, filter
weights, the key `cteMode`, and the contents of samples: in `Pipeline` only which reports they are
from, in `Locator` nothing, so that a short report there (`aoa_angle.c:560`) is not
told from a whole one. What a failed estimate or leftover samples do to a position is a
number that the models do not have; that they reach one is in `Pipeline`, and no
property forbids it. Of `main_application_v1`:
starting up (`bgInit`, `aoxInit`, `locInit`, and the flag of `bg.cpp:161` that BG threads
set and test without a lock), commands and thread registration in
`gecko_bglib.cpp`, the contents of the measurements beside the angles, and the Windows build.

## 8. Plan

In order of importance, what comes next:

1. Proofs (no safety property of a passing run is left without one): that `LocatorHost`
   refines the boot and reset of `NcpReset`, once composed (2); an abstract specification of the
   scanner and the database that `CteConn` and `ConnLess` both implement, for which `Agree` is
   the mapping.
2. A composition of `Locator` with `NcpReset` in place of `resetting`, and of `LocatorHost` with
   it in place of `Reset`.
3. `SimpleTimer`: the list of timers, callbacks that start or stop timers, and the
   flag of the signal handler that outlives a stop.
4. The key `cteMode`, with which a configuration changes the handler of events at the next boot,
   and the samples of short reports in `Locator`.
5. The rest of `main_application_v1`: `bgInit` and the commands of `gecko_bglib.cpp`, sent from all
   BG threads through one buffer.
