# circinus, formally

TLA+ models of [circinus](../src/README.md), the program that runs Squirrel
scripts against the pins, buses and sensors of small Linux boards, with the TLC
configurations that check them and the TLAPS proofs about them. The source is
`src/src/*`; paths below are relative to the repository (`restsrv.cpp` is
`src/restsrv.cpp` in it).

    tlc -config WebSync_one.cfg WebSync          # one run of the table below
    tlapm WebSyncProofs.tla                      # one module of proofs

## 1. Inventory

circinus is one process. The main thread runs the script; the script creates
devices, hooks callbacks and ends in `run(f, pulse)`, the main loop. A REST
thread serves HTTP clients. The database has no thread: the script calls it.
Tasks are further processes, forked by the script. There are few threads and
many hand-made synchronisations.

| Component | Code | State | Operations | What makes it correct |
|---|---|---|---|---|
| Main loop | `apis.cpp:501-555` | `now`, `then`, `nowwd`, `ApStat` | one iteration: scan devices, pass for a request or for the script, watchdog, timers, sleep | a pass happens when a pulse, a request or an event asks for it |
| REST hand-over | `inst.cpp:144-162, 284-301`, `sqratThread.h:40-70` | `_pending`, `snap_`, `ready_`, `mutex_`, `condvar_` | `web_set_data`, `let_thread_go`, `comit_devs`, `notify` | batches are applied at most once and in order; a waiting client is released; its batch is not forgotten before that |
| REST requests | `restsrv.cpp:397-690` | `_outstr`, the batch under construction | query, category, JSON body | what a client asks for is what the devices get; an answer after a pass that found its batch shows what that pass did |
| REST connections | `restsrv.cpp:100-375`, `sock.cpp` | `_s`, `_kons`, `_req` of each client, `_outstr` for all | select, accept, receive, answer, clear, `reply` | connections are bounded, none leaks, each request is answered once, with its own answer |
| Devices | `divais.h`, `divais.cpp`, `gpiodev.cpp`, `dgpio.cpp` | `_mon_dirt`, `_monitor`, `_on_event`, `_cur_value` | read, write, `set_cb`, `notify_ifdirty` | a change reaches the callback or the loop function |
| Timers, watchdog | `inst.cpp:172-192, 264-282`, `apis.cpp:290-294, 463-493, 538-541` | `_cbs`, `Wdto`, the file of `/dev/watchdog` | `set_timer`, `call_backs`, `enable_wd`, `wd_pull` | timers fire again and again, not faster than their delay; the dog is never overdue for longer than three iterations |
| Database | `database.cpp` | `_db`, `_dbable`, the SQLite file | `plug_it`, `update`, `to_space` | the file shows whole snapshots; the return value is honest |
| Threads | `osthread.h` | `_bstop`, `_hthread`, `_joined` | start, stop, join | join returns, no thread is left over |
| Process | `main.cpp`, `psingle.h`, `inst.cpp:47-75, 308-326` | the bound UDP port, `_childrens` | start once, spawn a task, shut down | one instance at a time; it outlives its tasks |
| Stream devices | `rtxbus.h`, `uartdev`, `usbdev`, `i2cdev`, `spidev`, `rawsock`, `inputsys` | `_t1`, `_t2`, local buffers, `_mon_dirt` | read, write, expect, flush | what the script is handed came over the line, once and in order; what it writes leaves whole |
| Value devices | `pwmdev.cpp`, `adcdev.cpp`, `dpwm.h` | `_cur_value`, `_reversed`, period | duty, period, toggle | reading back gives what was written |
| Drivers | `drivers/common`, `drivers/platform` | file descriptors, `flock`, sysfs | open, read, write, close | partial reads and writes are completed; a line has one user |
| Clients | `comm/*` | curl and ssh sessions | perform, command | thin wrappers |

How they interact: the REST thread calls `Inst::web_set_data`, which stores a
batch in `_pending` and may block on `condvar_`; the main loop polls `snap_`,
applies the batch through `Divais::set_value` or `sync`, and calls `notify()`.
Devices raise `_mon_dirt`, the loop's scan takes it down and calls the script.
The script's functions run on the main thread, inside the loop, and may touch
anything; `SRV.reply` among them writes the text the REST thread sends. Forked
children inherit the port, the open lines and their locks.

Hard behaviours: `_pending`, `snap_` and `ready_` are shared and only partly
locked (interleaving, lost wake-ups); `_mon_dirt` is raised by the very reads
that serve it (ordering); ticks are `size_t` differences that wrap (numeric);
SQLite statements fail one by one and the process can be killed between them
(partial failure, crash); TCP cuts requests anywhere (ordering), and many
clients compete for few connections (limit) and for one thread that sits in a
wait for the main loop (liveness); `read(2)` and `write(2)` cut what goes over a
line, and a token may come in two reads (retry, partial failure); descriptors
survive `fork`, `exec` and the death of those who opened them (crash). `PROJECT.json` lists each hazard at
its line with the properties that watch it.

## 2. Modules

| Module | Models | Checked with |
|---|---|---|
| `WebSync` | the hand-over, every shared access a step | `websync_one`, `websync_stale` |
| `BatchOrder` | what the hand-over promises: accepted batches, applied in order, at most once | refined by `WebSync` |
| `WebSyncProofs` | five theorems about `WebSync` | tlapm |
| `RequestPlan` | what a query or a body means, and what `comit_devs` makes of it | `plan_answers` |
| `RequestPlanProofs` | six theorems about `RequestPlan` | tlapm |
| `RestConn` | one round of `_spin` after another, with clients and split bytes; `_toast` is one step | `conn_serve`; refined by `RestServer` |
| `RestServer` | `RestConn` with `_toast` in many steps, `_outstr`, the script's `reply()` and the main thread's end | `server_answers` |
| `RestServerProofs` | four theorems about `RestConn`, which `RestServer` extends, and five about `RestServer`: the refinement of `RestConn`, whose text reaches whom, the types | tlapm |
| `DeviceEvents` | dirty and monitor flags, callbacks, the scan of the loop | `MCDeviceEvents`, `devents_heard` |
| `DeviceEventsProofs` | two theorems about `DeviceEvents` | tlapm |
| `LoopTimers` | pulse, timers and watchdog with wrapping ticks | `timers_fires`, `timers_early` |
| `LoopTimersProofs` | three theorems about `LoopTimers` | tlapm |
| `UartStream` | `RtxBus` and `UartDev` over the serial driver: buffers, partial reads and writes, the callback | `MCUartStream`, `uart_talk` |
| `ByteStream` | what a stream device promises: pieces of the line, in order, no byte twice | refined by `UartStream` |
| `UartStreamProofs` | three theorems: that refinement, what leaves of a written text, the types | tlapm |
| `Processes` | instances, tasks and kills, the port, the lock of a serial line | `MCProcesses`, `one_instance` |
| `ProcessesProofs` | four theorems about `Processes` | tlapm |
| `Database` | `plug_it`, `update`, `to_space`, statement by statement | `database_snapshots`, `database_assert` |
| `DbRows` | what a reader of the database file sees | refined by `Database` |
| `DatabaseProofs` | three theorems about `Database`, the refinement among them | tlapm |

The models share the main loop and cut it at different places: `WebSync` has
its locking and no devices, `DeviceEvents` has the devices and an atomic
hand-over, `LoopTimers` has its clocks and neither. `RestServer` composes the
connections with the serving of a request, whose wait for the main loop is one
long step that ends because `CallReturns` of `WebSync` says so; what the request
means is `RequestPlan`, which hands batches to the protocol of `WebSync`.
Each says in its header which neighbour it abstracts.

### State and actions against the code

`PROJECT.json` maps every definition to its lines. The main correspondences:

- **WebSync**: `pc[r]` is the line at which REST thread `r` stands in
  `web_set_data`/`let_thread_go`/`condition_variable::wait` (the predicate and
  the sleep are two steps, so that a notification can fall between them);
  `mpc` is the line of `run()`; `ScriptReply` and `MainThrow` are what a
  function of the script may do besides returning, in the scan, in a commit, in
  the loop function. A batch is a serial number. `CommitEnd` lets a
  batch that was replaced during the unlocked iteration be visited or not: the
  data race of `comit_devs` is a choice over its outcomes. `RestSelectFails` is
  the only way a REST thread ends the program (`restsrv.cpp:303`). `mine`,
  `serial`, `applied`, `count` are histories.
- **RequestPlan**: a query is a sequence of parameters `?device/property=value`
  with each part optional, a body a sequence of devices with settings. `ParamText`
  is the text `_get_from_query` stores for a device, `QueryCalls`, `AllCalls`
  and `BodyCalls` the calls of `web_set_data` that result: one for each member of
  a body, or `NoCall` for a member that names no device, which the loop over the
  body passes over (`PassOver`). `PostBroken` is a body that does not parse. A
  body for a device in the path is that of one member. `EDevs` are the devices whose name begins
  with `e`: a query that begins with one is taken for a category
  (`restsrv.cpp:638`). `Drain`, `Store` and `WaitEnds` are `web_set_data`: it
  waits for `ready_` when a batch is there, and then stores over whatever is
  there. `Notify` raises `ready_` at any time, for every pass, the end of `run()`
  and `SRV.reply` do. `CommitBegins`, `CommitEnds` and `Clears` are `comit_devs`,
  with its split at the first `=`; a store may fall between any two. `pass` is
  the history of what the main loop did with what this request stored. The
  handling of `exit`, `reload` and `reboot` in `_process_resful_request` is not
  here: `_defer_query` lets only texts with a leading `/` through to it.
- **RestConn**: `wire` is what the kernel holds, `req` is `Tcli::_req`, `open`
  the sockets, `kons` the vector. `Accept` includes the early return that skips
  the other clients and `_clear`. `Received` looks for the end of the header in
  one `recv`'s bytes, `HungUp` in all of them. `NoAccept` is a round in which
  nobody knocked or `accept` failed; a client whose connection is gone may connect
  again, for ever. `Refusing` is the round that turns a knock down and returns
  (`restsrv.cpp:318-323`), `Stops` the end of the program, `SelectFails` is `restsrv.cpp:303`, after
  which every socket is closed and the thread returns.
- **RestServer**: `Round` is a step of `RestConn` while nobody is served;
  `ToastBegin`, `Defer`, `WaitEnds`, `Build`, `ToastEnd` are `_toast` up to the
  body, the call of `_defer_query`, the return of `web_set_data`,
  `_build_forjson`, and the sending with both calls of `term()`. `outstr` is the
  author of the text in `_outstr`, `Nobody` when it is empty: a request whose
  body has not come is answered with what it happens to hold. `Reply` is
  `RestSrv::reply` on the main thread. The two of them use one `std::string`
  without a lock, which is undefined; the model takes each use as a step and
  shows only what their order can do. `main` goes from "runs" over "leaving"
  (`ApStat` changed, the last `notify()` to come) to "left", after which nobody
  releases a wait; the model ends where `close()` deletes the clients.
  `sendall` gives up after 8 s (`sock.cpp:399-429`), so sending is one step.
- **DeviceEvents**: `dirty`, `monitor`, `hooked` are the three members of
  `Divais`; `CheckQuiet` and `CheckMonitored` are `notify_ifdirty` for one
  device, `Callback` and `LoopFunction` the script. `owed`, `told`, `news` are
  histories, and so is `muted`: the devices `CheckMonitored` cleared the flag of
  although they have no callback.
- **LoopTimers**: `clock` is `tick_count()` modulo `Word`; `Minus` is `size_t`
  subtraction. `ScriptEnablesDog` is `enable_wd`, with any value, any number of
  times and with or without success, `ScriptBarks` is `wd_pulls`, and
  `FeedDog` what `run()` does; all go through `Pull` (`wd_pull`), which sets `Wdto` to 0
  when it fails. `hunger` counts from the last time the device was programmed or
  fed; `nowwd` is moved by `run()` alone.
- **UartStream**: `rx` is all that came over the line and `taken` how much of it
  `read(2)` or a flush took; `txq` is the kernel's output queue, `wire` what left
  it, each byte as <<write, position in its text>>. `loco` is the buffer of the
  call with its stale bytes and zeros, `t1` is `_t1`. `Text` says what each of the
  three expect functions searches: `expect_any` what it read, `expect_str` the
  rest of the buffer *behind* what it read (`append(loco, bytes)` of two strings
  takes a position), `expect_bin` nothing but a pattern one byte short. `Put` is
  one `write(2)`, `WriteEnds` and `WriteFails` the ways `bwrite` returns. `Scan`
  is `notify_ifdirty` with `UartDev::_mon_callback`.
- **Processes**: `held` has the processes with a descriptor of the bound socket,
  `refs[o]` those with a descriptor of open file `o`, so that forks share and
  deaths close them. `Exec` and `ExecFails` are the two ways on from
  `start_task`'s child; `Reap` is one `waitpid` of `~Inst`, with the pids 0 and
  -1 a failed fork leaves in the list. `IOpen`, `IOpenFails`, `IOpenUnlocked` and
  `IClose` are `iopen` by how far it gets, and `iclose`, whose `LOCK_UN` comes
  after `close` and does nothing.
- **Database**: `pc` is the SQLite statement at which the call stands; each may
  fail, `Crash` may come between any two.

## 3. What the runs check

Passing runs:

| Run | Shows |
|---|---|
| `websync_one` | one REST thread and a pulse: a waiting client stays covered (`RequestCovered`), no stale batch is walked over (`FreshVisit`), the assert of `inst.cpp:299` holds (`AssertHolds`), `BatchOrder` is implemented (`InOrderAtMostOnce`), every call of `web_set_data` returns (`CallReturns`) |
| `plan_answers` | against a main loop that may release a wait at any time and a store that replaces what is pending: an answer is fresh if a pass that found the request's batch is over, and otherwise its reads are still pending unless a store met a pass at work (`FreshAnswer`); a body whose stores each came after the batch before was done is answered with its first settings in the devices (`SettingsReached`); no error means no unknown name, and no setting gone unless a store raced (`SilentMeansAccepted`); values go where they were addressed, whatever was lost or late (`Addressed`). That the answer *is* fresh and that no setting is lost are not promised: `websync_stale` and `NoSettingLost` below show the contrary |
| `conn_serve` | connections stay within the limit (`Bounded`), none leaks (`NoLeak`), no request is answered twice (`AnsweredOnce`), and a client that was accepted, sent a whole request and hung up is answered, however its bytes come apart and however often others come again, unless connections are refused for ever or the program ends (`HungUpAnswered`) |
| `server_answers` | the server with its long `_toast` does what `RestConn` says (`ServesRounds`); nobody is sent a text made for another client (`OwnAnswer`), replies of the script are sent at most as often as they were made (`ReplyOnce`), and everybody is answered while the program runs, though clients come again and again (`EveryoneAnswered`) |
| `devents_heard` | a signalled change keeps its flag until a function of the script ran for it, unless its device was monitored without a callback (`ChangeKept`), one does run (`ChangeHeard`), and a callback that reads its pin misses no lasting change (`ChangeNoticed`) |
| `timers_fires` | timers keep their rate across the wrap (`SpacedFires`), keep firing (`TimerFires`); the watchdog is overdue for three iterations at most, however the script programs it (`OverdueAtMost`) - that it is fed before its timeout is not so, see `FedInTime` below |
| `uart_talk` | whatever the script is handed came over the line in one run and in order, tokens in two reads and left-overs in buffers included: `ByteStream` is implemented (`StreamInOrder`); the texts it writes leave from their beginning, none of their bytes skipped or twice (`TextFromStart`); a line that was written to is scanned again, also when the callback wrote (`AnswerRead`) |
| `one_instance` | instances without a third argument never run side by side, also when one was killed and its tasks live on (`OneInstance`); an instance ends after its tasks (`TasksEndFirst`); nobody opens a line another program has opened (`LockedAlone`) |
| `database_snapshots` | `DbRows` is implemented under failures and crashes (`WholeSnapshots`); `update()` tells the truth (`ReportHonest`) |

Runs that end in a violation, each with a finding in `PROJECT.json`:

| Run | The code against |
|---|---|
| `websync_stale` | "wait for main to finish && get data" (`restsrv.cpp:620`): a pass that is past its commit releases the client |
| `timers_early` | "now" (`inst.cpp:277`): a new timer fires at once, its start being later than the tick it is compared with |
| `database_assert` | the assert of `database.cpp:133`, after a failed open or BEGIN |

The modules state more properties that the code does not have. They have no run
of their own; checking the property with the configuration named shows the
behaviour (where the configuration does not list it, add it):

| Property | Configuration | What happens |
|---|---|---|
| `WebSync!CallReturns` | `WebSync_hang.cfg` | without a pulse (`run(f, -1)`) a lost wake-up has nothing to repair it: "wait for main to finish" (`restsrv.cpp:620`) for ever |
| `WebSync!ProgramEnds` | `WebSync_ends.cfg` | a request that starts after the last `notify()` of `run()` waits for ever, and `~RestSrv` joins its thread |
| `WebSync!NoBatchLost` | `WebSync_stale.cfg` | `clear()` in `comit_devs` drops a batch stored after the iteration ("let main thread to write", `inst.cpp:292`) |
| `WebSync!AssertHolds` | `WebSync_stale.cfg` with two REST threads | the unlocked `let_thread_go()` of one thread lowers `ready_` between the other's wait and its assert |
| `RequestPlan!AskingOnlyReads` | `RequestPlan_asks.cfg` | "?device/prop ... get the data" (`restsrv.cpp:619`): it writes the empty value |
| `RequestPlan!NoSettingLost` | `RequestPlan_lost.cfg` | a body of two devices is answered without an error though the second store replaced the first device's settings, not yet committed, after a notification of another pass ("let main thread to write", `inst.cpp:292`) |
| `RequestPlan!PutsAccepted` | `RequestPlan_asks.cfg` | the last parameter of a query decides for all, and one text per device survives ("let man thread the refresh any puts", `restsrv.cpp:621`) |
| `DeviceEvents!ChangeNoticed` | `DeviceEvents_deaf.cfg` | "calls callback when the pb state is changes" (`README.md:122`): nothing watches the line of a callback that does not read it |
| `DeviceEvents!NoChangeDropped` | `DeviceEvents_muted.cfg` | `_M=1` over REST makes a device monitored that has no callback: the scan clears its flag and tells nobody, not the loop function either |
| `DeviceEvents!LoopHasCause` | `DeviceEvents_heard.cfg` | an output that was driven once has the loop function called on every iteration (`README.md:125` says at its interval) |
| `LoopTimers!FunctionEndsTimer` | `LoopTimers_early.cfg` | what a timer's function returns is ignored ("return false; // destroy this timer", `readme2.md:147`) |
| `LoopTimers!FedInTime` | `LoopTimers_dog.cfg` | `enable_wd` programs a timeout of `Wdto` seconds (`apis.cpp:293`) and `run()` feeds after *more* than `Wdto` seconds (`apis.cpp:538`): a script that does not call `wd_pulls` itself is bitten |
| `RestConn!AnsweredWhileRefusing` | `RestConn_refused.cfg` | a round that refuses a connection reads nobody (`restsrv.cpp:318-323`): clients that knock again each time keep a complete request waiting for ever |
| `UartStream!GivesUpRightly` | `UartStream_gives_up.cfg` | "any from array of strings" (`rtxbus.h:274`): what comes in a read longer than the one before it is zeroed by `resize`, and the token in it is not found |
| `UartStream!NothingDropped` | `UartStream_talk.cfg` | each call that writes begins with a `tcflush` of both queues: it drops what the call before it wrote and the line has not sent (`bin/uart_login.cs:47-48` makes two in a row) |
| `Processes!LineAlone` | `Processes_line.cfg` | "so that another process can't also use the _port" (`dserial.cpp:191`): after a failed TIOCMGET the line stays open without its lock, and a child whose `execl` failed shares its parent's |
| `Processes!ClosedLineFree` | `Processes_closed.cfg` | "free the _port so that others can use it" (`dserial.cpp:394`): a task that inherited the open file keeps its lock |

Other differences between code and documents were met while reading; no model
is needed to see them:

- *Never reached*: the requests `exit`, `reload` and `reboot`
  (`restsrv.cpp:632-637`): `_defer_query` lets only texts with a leading `/`
  through to them (`restsrv.cpp:661`).
- *Requests*: a device whose name begins with `e` cannot be the first of a
  query: the text is taken for a category (`restsrv.cpp:638`). A member of a body
  that is no object is stored as a batch with nothing for its device, and
  reported as no error (`restsrv.cpp:498-513`).
- *Watchdog*: a comment says minutes (`apis.h:68`), the code takes seconds.
  `enable_wd(0)` and a failed ping set `Wdto` to 0 and leave the device armed, with
  nobody left to feed it (`apis.cpp:290-294, 463-491`).
- *Serial line*: `iopen` returns 1, its success, for an invalid mode
  (`dserial.cpp:124-160`). `expect_bin` finds any data when it waits for one
  byte, and `puts_cb` ends its loop before it begins, `fut < tick_count()`
  standing for its opposite (`rtxbus.h:70`). `putsln` ignores whether its text
  was taken. A negative `bread` becomes a `size_t` and `resize` throws.
- *Callbacks*: the value a device's callback returns is ignored
  (`divais.h:133-148`, against `README.md:149`). A callback of a serial line
  that is hooked while the line is silent hears nothing until something else
  raises the flag.
- *Value devices*: `_get_values("*")` of GPIO and ADC is empty
  (`gpiodev.cpp:184`, `divais.h:255`), so a `?` of a whole device has no value
  (`restsrv.cpp:621`). `AdcDev::get_value` applies `atoi` to raw bytes
  (`adcdev.cpp:48`); the database stores `c_chars()` of a binary integer
  (`database.cpp:160`); a reversed PWM subtracts the absolute
  value it reads from 100 (`pwmdev.cpp:92`); a reversed GPIO's toggle writes the level it read; a
  write that sysfs refuses is reported as success (`drivers/dcore.cpp:100-102`).

### Bounds

- `WebSync`: `MaxCalls = 3`: a race needs a request and one that came before it;
  a third is stored over another. One REST thread, as the program creates; the
  theorems of section 4 cover any number.
- `RequestPlan`: `MaxParams = 2` parameters, of one or of two devices or of one
  that does not exist, with any order of `?`, values and properties, make every
  combination of "the last one decides" and "one text per device"; one device's
  name begins with `e`. `MaxParts = 5` counts a request and each of its parts:
  two requests in a row, one of them with two members or parameters, are what a
  batch left behind, a store over another and a wait ended too early take.
- `RestConn`: three clients and `Limit = 1`, so that the third is refused while
  two are served; each may come back for ever, so that refusals and
  interruptions are not bounded. Three symbols (four with a body) cut the end of
  the header at every place.
- `RestServer`: two clients, one of whom posts, `Limit = 1` and one reply: a
  second client is what can get the wrong text or wait for the first, and a body
  that comes late is what sends an old text. Both come back for ever; with two
  nobody is refused, so the refusals that `EveryoneAnswered` excepts are out of
  this run's reach. A third client is in `conn_serve`,
  whose properties the refinement carries over; the theorems have any number.
- `DeviceEvents`: an output and a pin, in this order in the scan; one request.
  `SignalledChangeKept` covers every list of devices.
- `LoopTimers`: `Word` (12 or 24) makes the counter wrap within a few
  iterations, and the assumptions keep the delays below half of it, as 64-bit
  ticks do. `Dogs` of 0, 1 and 2 ticks let the script turn the watchdog off, on
  and to another timeout; the bound of `OverdueAtMost` is reached: with one tick
  less it is violated. `timers_fires` takes one timer, for liveness; `timers_early` two
  that set each other.
- `UartStream`: two letters, a token of two and one of one, three bytes that
  arrive, buffers of four (two of them usable) with `_maxbufsz = 2`: a token
  comes in one read or in two, a read is longer or shorter than the one before,
  and the text is cut by `_truncate`. One call that writes, of two bytes, is
  taken whole, in part or not at all. The line end, CR LF (`uartdev.cpp:34-35`), is one byte. The theorems have no
  bounds.
- `Processes`: three processes, two open files and two tasks for each: an
  instance, its task and a newcomer, or two tasks that end in either order.
- `Database`: `MaxCalls = 5` calls and crashes: register, update, crash,
  register, update.

### Fairness

The main thread and the REST threads are scheduled, time passes, and functions
of the script return (weak fairness of each thread's steps; strong fairness of
the return of a script function in `WebSync` and `UartStream`, because a script
may call `SRV.reply` or use the line any finite number of times before it does,
and of the scan in `UartStream`, which every call of the script disables and the
loop comes back to). Nothing makes clients send, lines change, bytes arrive,
signals arrive or condition variables wake by themselves. `RestConn` and
`RestServer` need the REST thread alone: a wait for the main loop ends by
`CallReturns` of `WebSync`, which `websync_one` checks with a pulse, sending
by its 8 s. `HungUpAnswered` and `EveryoneAnswered` promise nothing once the
program ends, and carry their proviso in the formula: that from some time on no
connection is refused. The code does not see to that.
`Processes` and `Database` have safety only.

`CHECK_DEADLOCK FALSE` stands where the system really stops: in `WebSync` the
program ends (`mpc = "gone"`, all threads done), or a join waits for a thread
that waits for the main loop; in `RestConn` and `RestServer` the thread returns
after a failed `select`, or nobody has anything left to send; in `Processes`
all processes have ended.

## 4. Proofs

| Theorem | States, for every value of the constants |
|---|---|
| `WebSyncProofs!TypeCorrect` | `[]TypeOK` |
| `WebSyncProofs!BatchFreshness` | `[]FreshVisit` |
| `WebSyncProofs!NoRequestForgotten` | `[]RequestCovered` |
| `WebSyncProofs!SingleThreadAssert` | `[]AssertHolds`, for one REST thread |
| `WebSyncProofs!HandOverOrder` | `Spec => Order!Spec`: `WebSync` implements `BatchOrder` |
| `RequestPlanProofs!PlanTypes` | `[]TypeOK` |
| `RequestPlanProofs!FreshAnswers`, `SettingsDone`, `NothingPassedOver` | `[]FreshAnswer`, `[]SettingsReached`, `[]SilentMeansAccepted` |
| `RequestPlanProofs!WritesAddressed` | `Spec => Addressed`, an action property |
| `RequestPlanProofs!PlanInvariant` | `[]PlanInv`, which the five above rest on |
| `RestServerProofs!ConnTypes` | `[]TypeOK` of `RestConn` |
| `RestServerProofs!ConnectionsBounded`, `SocketsKept`, `NoSecondAnswer` | `[]Bounded`, `[]NoLeak`, `[]AnsweredOnce` of `RestConn` |
| `RestServerProofs!RoundsServed` | `SrvSpec => Conn!Spec`: `RestServer` implements `RestConn` |
| `RestServerProofs!ServerConnections` | the three properties of `RestConn`, of `RestServer` |
| `RestServerProofs!SrvTypes` | `[]SrvTypeOK` |
| `RestServerProofs!OwnTexts`, `RepliesOnce` | `[]OwnAnswer`, `[]ReplyOnce` |
| `DeviceEventsProofs!DeviceTypes`, `SignalledChangeKept` | `[]TypeOK`, `[]ChangeKept` |
| `LoopTimersProofs!TimerTypes`, `FeedingDelayBounded` | `[]TypeOK`, `[]OverdueAtMost` |
| `LoopTimersProofs!FiresSpaced` | `Spec => SpacedFires`, an action property |
| `UartStreamProofs!LineInOrder` | `Spec => Stream!Spec`: `UartStream` implements `ByteStream` |
| `UartStreamProofs!TextsInOrder`, `UartTypes` | `[]TextFromStart`, `[]TypeOK` |
| `ProcessesProofs!ProcTypes` | `[]TypeOK` |
| `ProcessesProofs!Single`, `WaitsForTasks`, `LineLocked` | `[]OneInstance`, `[]TasksEndFirst`, `[]LockedAlone` |
| `DatabaseProofs!DbTypes`, `HonestReports` | `[]TypeOK`, `[]ReportHonest` |
| `DatabaseProofs!SnapshotsWhole` | `Spec => Rows!Spec`: `Database` implements `DbRows` |

Each rests on the named assumptions of the module it is about: the bounds are
numbers, `NoThread`, `Nobody` and `Script` are nobody else, tokens and delays
are what they should be. None is about sizes: the number of threads, clients,
devices, processes, calls and bytes is open.

- **WebSync.** `FreshVisit` is not inductive: the invariant adds that `pending`,
  `visiting` and every `mine[r]` lie within `0..serial`, that everything applied
  is older than a pending batch outside the window before `clear()`, and than
  the one `comit_devs` is visiting, also while a function it calls replies
  (`Within`). `RequestCovered` needs that no thread's batch is newer than the
  newest accepted, so that a later one never looks like an old one.
  `SingleThreadAssert` needs that only the one thread lowers `ready_`.
  `HandOverOrder` maps `AssignPending` to `Accept`, `CommitEnd` to `Apply` or a
  stutter, and all else to a stutter.
- **RequestPlan.** Nothing is assumed of the hand-over: `Notify` may end any wait
  and `Store` replaces what is there. `PlanInv` follows a request through its
  calls of `web_set_data`, of which `Done` were made (`WalkOK`). `PassOK` says
  what each value of the history `pass` stands for: nothing was stored; one call
  of those made is what is pending and the others were *taken*, that is, what
  they read was read and what a member sets is in its device; all were taken.
  "raced" promises nothing. `HandOK` says where the main loop is by then: that a
  pass that has begun with the batch visits its texts and no others, and that
  nothing is left to visit once it is done. `AskedOK` says that every setting
  pending, being visited or still to be stored was asked for, which makes
  `Addressed` a step property of `CommitEnds`, also for a map assigned under the
  iteration. None of the checked properties is inductive, because they speak of
  the answer alone. That several parameters name a device makes a maximum
  necessary (`LastNaming`): it exists because a non-empty set of natural numbers
  has a least element (`WFMin` of the library), applied to the distances from
  the end.
- **RestConn.** `ConnInv` adds that the sets of clients are disjoint where they
  must be, that what `select` reported is still connected while the round goes
  on, and that a client that is connected or knocks has not been answered on
  this connection. The bound follows from the cardinality of `_kons`, which
  grows by one at most when it is not over the limit. For `ConnTypes` what the
  server holds of a client is a stretch of what it sent, cut between `_req` and
  the socket.
- **RestServer.** The mapping puts the whole of `_toast` at its end: until then
  the bytes it received count as unread (`UnreadWire`, `ReqBefore`). `ServerInv`
  says that the client served is one `select` reported, that its header ended
  in those bytes or that it hung up, and that nobody else's turn comes before;
  then `ToastBegin` and the waiting are stutters, `ToastEnd` is `Serve`, and
  whatever clients send meanwhile goes to the end of what is unread. `OutInv`
  adds whose text `_outstr` can hold, and that the answers with a text of
  the script (`scripted`), together with the text it left in `_outstr`, are no
  more than its replies. `ConnInv` and the types hold of `RestServer` as they
  do of `RestConn`, although its `_toast` is many steps: those are steps of
  `RestConn` or leave its variables alone, except the two that begin and end it.
- **DeviceEvents.** `KeptInv` adds to `ChangeKept`, which excepts the devices in
  `muted`, that the scan's index is
  within the list and that the flags are functions on the devices; the proof
  goes through the scan and the commit device by device.
- **LoopTimers.** Differences of ticks are exact while their sum is below the
  word (`MinusAdds`). `DogInv` bounds the age of the iteration and says of a
  watchdog that is on one of two things. It was programmed in this iteration or,
  too late to be judged, in the last one (`JustEnabled`): nothing is known of
  `nowwd` then, which `enable_wd` does not move. Or `run()` has judged it
  (`Watched`): the gap between the start of the iteration and the last feeding is
  at most the timeout and one more iteration, and its hunger at most that gap,
  the age and one iteration more. That needs the timeout and three slow
  iterations to fit the word. For
  `SpacedFires` the sweep compares with `now`, which lags behind the clock by
  passes that served requests. `SpaceInv` says of a timer that has fired, and
  whose age the history still counts, that its age is what the code computes from
  `remember`, and that `now`, and in the step that moves `now` also the tick the
  iteration began at, is not before `remember`; so the difference the code takes
  is at most the age (`MinusBetween`), however far `now` lags.
- **UartStream.** The invariant says of every buffer that each stretch of it
  without a zero byte is *shown*: it came over the line, after what the script
  was handed before. For `expect_any`, whose text grows at its end, the last
  stretch also ends where the reading stands (`JoinRead`); for `expect_str`, what
  is appended begins with the zero `bread` wrote (`JoinAtZero`). Tokens have no
  zero byte, so a token that is found came in one run (`FoundToken`). For
  `TextFromStart` the invariant is about `Queue`, what left the line and then what
  waits to leave: it is in order (`InOrder`), its last byte is the last one
  `write(2)` took of the call under way, and no byte of a call not yet made is in
  it (`LastOK`, `NumbersOK`). A byte that leaves does not change it; a flush keeps
  a first part of it, which is in order as well (`OrderOfFirst`). The buffer of
  `expect_str` keeps the length `bytes_t` gave it and the others take that of what
  was read, which is what the types need.
- **Processes.** `ProcInv` adds that whoever descends from a lone instance has a
  descriptor of its port (`PortHeld`), that a living task is in its parent's list
  (`KidsKept`), and that a program whose `iopen` succeeded has the file with the
  lock (`LineHeld`), which is why failed opens and dead owners do no harm.
- **Database.** `WorkOK` counts the entries of `_dbable` the loop is past
  (`SeenNext`): the open transaction holds as many rows of each device, so that
  a COMMIT adds one whole snapshot. `ReportOK` says that until the COMMIT nothing
  failed and nothing is stored.

Every invariant, action property and refinement that the passing runs check is
a theorem. Only model-checked: liveness (`CallReturns`, `ChangeHeard`,
`ChangeNoticed`, `TimerFires`, `HungUpAnswered`, `EveryoneAnswered`,
`AnswerRead`), for which fairness and `ENABLED` are beyond the prover; and what
the violations show, each a behaviour TLC found. One limit of the history in
`SpacedFires` is the model's: the age of a timer is counted from `now`, so a
`now` that lags by a whole turn of the counter would count as fresh.

## 5. Not modelled

- Vendored code: Squirrel, Sqrat, RapidJSON, the drivers of sensors; they make
  nearly all of the repository's lines, so that a small share of them is mapped.
  Sqrat's `sqratThread.h`, which circinus added, is part of `WebSync`.
- The pin tables and registers of the boards, the glue that exposes classes to
  scripts, the wrappers of curl (off in the build) and ssh, logs, the
  computation of sunrise. USB devices: `WITH_USB` is defined nowhere.
- Value devices (GPIO levels, PWM, ADC): each operation is one access to a file
  of sysfs that no later operation rests on. Their dirty flags are in
  `DeviceEvents`; how reading back differs from writing is in section 3.
- The stream devices other than the serial line: `RtxBus` is the same, the
  descriptor below differs.
- `EvQue` and `SwDog`, which nothing uses.
- The start of the REST listener (ten tries of bind and listen), and `close()`,
  which deletes the clients on the main thread while the REST thread may be
  using them. Memory lifetime (this, a timer erased by its own function, a
  device a script destroys while the database lists it) is undefined behaviour
  that the models exclude or leave out; each is listed as a hazard.
- A method that is neither GET nor POST leaves `preq` and `endr` of `_toast`
  unset (`restsrv.cpp:158`): clients in the models use the two.
- The text of answers: JSON is abstracted to the values it rests on.

## 6. Plan

Done: the hand-over, requests, connections and their composition, devices'
flags, timers and watchdog, database, the serial line, processes; proofs of the
safety properties of all of them. What is left, in this order:

1. What the liveness properties rest on, as invariants and theorems: who can
   still notify a waiting client, and that a write to a line leaves the flag up
   until the scan.
2. `RestServer` with `RequestPlan` and `WebSync` below it: what a client is
   answered against the devices' state at that time.
3. The life of the objects of the REST server during `close()`, once it is
   decided what the code should promise.
