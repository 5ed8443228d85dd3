# A TLA+ verification of the radio interface layer

This directory holds TLA+ models of the Radio Interface Layer in this
repository: the socket daemon library `libril`, the AT-command driver
`reference-ril`, and the simulated driver `mock-ril`. TLC checks the models on
small instances; TLAPS proves the safety properties of the event loop, the
requests, the AT channel, the driver and the worker queue for every size. `PROJECT.json` lists the components,
the runs, the source lines each definition models, the hazards and the theorems.

## 1. The system

    phone process (client)                         modem (serial line, emulator)
        |  /dev/socket/rild                               ^
        v                                                 |  AT commands, lines
    +--------------------- rild process ------------------|------------------+
    |  libril                                  reference-ril                 |
    |   dispatch thread: ril_event_loop         mainLoop thread: at_open,    |
    |     listenCallback                          waitForClose, again        |
    |     processCommandsCallback --request-->  onRequest -> at_send_command |
    |     userTimerCallback                     reader thread: readerLoop,   |
    |   RIL_onRequestComplete   <---any thread--  processLine,               |
    |   RIL_onUnsolicitedResponse <--------------  onUnsolicited             |
    |   RIL_requestTimedCallback <---------------                            |
    +------------------------------------------------------------------------+
       (mock-ril takes reference-ril's place: onRequest puts the request on a
        WorkerQueue, a worker thread runs the JavaScript radio and completes it)

### Components, their state, operations and what makes them correct

| Component | State | Operations | Hard behaviour | Correct when |
|---|---|---|---|---|
| libril event loop (`ril_event.cpp`, event part of `ril.cpp`) | `watch_table`, `readFds`, `nfds`, `timer_list`, `pending_list`, wakeup pipe, `s_fdCommand` | `ril_event_add/del`, `ril_timer_add`, `ril_event_loop`, its callbacks, `triggerEvLoop` | other threads change the lists while the loop reads `readFds`, `nfds` and the timers without the lock; select must be woken; accept, pipe and write fail; descriptor numbers come back | the views of what is watched agree; the loop is never deaf; timers fire, in order; clients are accepted |
| libril requests and responses (`ril.cpp`) | `s_pendingRequests`, `RequestInfo` blocks, `s_fdCommand`, `s_writeMutex`, `s_lastNITZTimeData` | `processCommandBuffer`, `RIL_onRequestComplete`, `sendResponseRaw`, `onCommandsSocketClosed`, `onNewCommandConnect`, the NITZ part of `RIL_onUnsolicitedResponse` | completion on any thread against disconnect and reconnect; double completion; reused heap addresses and descriptors; writes that fail half way | one answer per request, to the client that asked; whole frames; no lock kept; no block used after its free |
| libril marshalling (`ril.cpp`, `ril_commands.h`, `ril_unsol_commands.h`, `ril.h`) | none | 14 `dispatchX` and 21 `responseX` functions, two tables | blocks that end anywhere; counts from the block; the status of most reads is not looked at; three places (table, function, `ril.h`) must agree for each of 108 requests | what is read is what was written, nothing unset reaches the driver, whole blocks are never dropped |
| AT channel (`atchannel.c`) | `s_fd`, `s_readerClosed`, the pending command (`s_type`, `s_smsPDU`, `sp_response`), `s_commandmutex`, `s_commandcond` | `at_send_command*`, `at_handshake`, `readerLoop`, `processLine`, `at_open`, `at_close` | reader against command thread; timeouts and late answers; end of file; reopening | a command gets its own, whole answer and returns |
| reference-ril radio state, main loop and handlers (`reference-ril.c`) | `sState`, `s_closed`, timers asked for | `onRequest` and its handlers, `setRadioState`, `mainLoop`, `onATReaderClosed`, `onUnsolicited`, SIM and call polling | the state is set, compared and reported by two threads, partly outside the mutex; a command is refused, garbled or cut off at any point of a handler; the channel is reopened while the old reader still closes it | every request completed once; a closed channel means an unavailable radio; every change of the state is told to the client; reopened and available again; the client's calls converge |
| mock-ril worker (`worker.cpp`) | `q_`, `delayed_q_`, `free_list_`, `state_`, `mutex_`, `cond_` | `Add`, `AddDelayed`, `Worker`, `Stop` | lost signals; records recycled | what is added is processed once, in order, not early; Stop returns |
| mock-ril requests and responses (`requests.cpp`, `responses.cpp`, `mock_ril.cpp`, `mock_ril.js`, `protobuf_v8.cpp`) | request queue, conversion tables | `AddRequest`, `onRilRequest`, `Req...`, `Rsp...`, `SendRilRequestComplete` | five tables keyed by the request number on two sides of a language border | each request answered once, as decided, no member unset |
| mock-ril simulated radio and SIM (`simulated_radio.js`, `simulated_icc.js`) | `calls`, `numberActiveCalls`, `incomingCallIsProcessed`, `callTransitionFlag`, delayed commands | 18 + 6 request handlers, 4 internal and 6 control commands | delayed commands address calls by index; loops that fail half way; a counter and a flag kept beside the table | the count is right, incoming calls ring |
| mock-ril control server (`ctrl_server.cpp`, `ctrl_server.js`) | client socket, V8 lock | accept, `ReadMessage`, dispatch, `SendCtrlRequestComplete` | blocks in `recv` with the V8 lock held; answers go to the client of the moment | commands answered; requests not starved |
| rild, radiooptions, CDMA stubs, test clients, generated and binding code | none of interest | start-up, generated code | none | not modelled |

## 2. Modules

| Module | Models | Extends / composes |
|---|---|---|
| `RilEvent` | the event loop with its descriptor events and timers | |
| `RilRequests` | requests, responses and connections | |
| `RilContract` | the data types `ril.h` and `ril_cdma_sms.h` give each request, response and unsolicited message | |
| `RilMarshal` | the dispatch and response functions and the two command tables, on the words of a parcel | `RilContract` |
| `AtChannel` | AT channel and `mainLoop`'s opening and closing | |
| `ReferenceRil` | radio state, `mainLoop`, `onRequest` and all handlers, call polling | |
| `WorkQueueSpec` | what a `WorkerQueue` promises (abstract) | |
| `WorkerQueue` | `WorkerThread` and `WorkerQueue`; implements `WorkQueueSpec` | `INSTANCE WorkQueueSpec WITH waiting <- ...` |
| `MockMessages` | the protobuf messages and the conversions `Req...` and `Rsp...` | |
| `MockRil` | mock-ril's queues, script dispatch, simulated radio and SIM, control server | `MockMessages` |
| `MC...` | constants of the small instances | the module named |
| `...Proofs` | theorems about the module named, and their proofs | the module named, TLAPS |
| `RilTimerProofs` | the theorem on `RilEvent`'s timers and its proof | `RilEventProofs` |

Names are those of the source. One action is one stretch of code that no other
thread can observe half done: the code between two accesses of state that no
lock covers, or a whole critical section. Each action stands for the whole
stretch. A name with an underscore suffix (`persist_all`,
`closedSignal_none`) and a comment that begins with "Mutant:" is a wrong variant
of the definition after it, used to show that a property notices the difference.

### RilEvent

The dispatch thread's control point is `dpc`; it runs `copyReadFds`,
`calcNextTimeout`, `selectEnter`, `selectReturn`, `processTimeouts`,
`processReadReadies` and then `firePending`, which enters one callback after the
other. The unlocked reads (`FD copy`, `nfds`, the head of `timer_list`) are
steps of their own. Every other thread has a control point in `tpc` and goes
through `requestTimedCallback` (calloc), `timerAdd` (under `listMutex`) and
`triggerEvLoop` (the byte in the pipe). `RIL_register` on the main thread adds
the listen event in two steps, because the loop reads `readFds` and `nfds`
without the lock. `sendResponseFd` and `blockingWriteFails` are what a vendor
thread does to the command descriptor from outside the loop when a write fails.
`Tick` is the clock. Time is a natural number; only its order matters.

### RilRequests

Each thread has a control point in `pc`, a token in `tok` and, inside
`sendResponseRaw`, a message and a descriptor. A `RequestInfo` is a heap address
whose contents are in `info`; addresses are used again after `free`. `file` is
the process's descriptor table, so that a closed number can come back for
another connection. What a client sees is `stream`: headers (the length word)
and payloads. Requests are `valid`, `badcode` (refused) or `badargs` (put on the
list and then forgotten by `invalidCommandBlock`); the vendor RIL completes
inline once, inline twice (the error path of `requestSignalStrength`), on a
thread of its own (mock-ril) or never. A write to a client that has closed
raises SIGPIPE, which nothing ignores (`writeKilled`).

### RilContract and RilMarshal

A parcel is a sequence of words. A string is its length and two words for its
characters, so that a block may end inside one, a buffer its length and one word;
NULL is the length -1. A string that is cut off is read as NULL
(`strdupReadString`, whose callers do not ask for the status); a buffer that is cut
off is handed on as a NULL pointer with the length announced for it (`ReadRaw`
gives `cut` with that length; `dispatchRaw`, ril.cpp:828, and the user data of
`dispatchDial`, 625-628). A dispatch function is the sequence of
its reads (`ReadWord`, `strdupReadString`, `ReadRaw`, `Counted`, `Records`)
with the status each one leaves and whether the code looks at it; a read past
the end leaves the value as it was, `unset` when there was none. The outcome is
what `onRequest` gets, whether `invalidCommandBlock` was reached, and how many
strings stay allocated. A response function is the words it writes, or
`INVALID_RESPONSE`. `s_commands` and `s_unsolResponses` are the tables row by
row. A response without data is two zero words whatever its type is
(ril.cpp:2742-2745), and `AnsweredAsCompleted` asks for no more of it. The other side
is external: `WriteData` and `ReadBack` write and read a
value by the type `RilContract` gives the request, the way a client (RIL.java)
does. What the vendor RIL knows (its version, for UUS information) is chosen at
the start. `PtrSize` is the size of a pointer, by which `responseInts` divides: the
run is of a 32-bit build, the one of this tree.

### AtChannel

The command thread (`cpc`) is libril's dispatch thread, the only one that sends
AT commands; there is one reader thread for each `at_open` (`rpc`) and the
`mainLoop` thread (`mpc`). Lines are classified the way `processLine` does:
final success, final error, prompt, digit, the command's prefix, other. The
modem answers commands in order, when it likes, may insert unsolicited lines and
may hang up. Bodies of commands and lines are not modelled, only which command a
line answers and its place in the answer. `at_open` resets `s_readerClosed`,
`sp_response` and the type without `s_commandmutex`, so that the command's wait and
hand-over are a step for each access of one of them: the loop's test of
`sp_response` and of `s_readerClosed` (`commandLoop`, `commandClosed`), the wait
(`commandWait`, or `commandSpin` with an invalid deadline), the hand-over
(`commandReverse`, `commandGive`) and the second look at `s_readerClosed`
(`commandReturn`). The history `overtaken` has the commands that were under way at
a reset: such a command may leave its loop because the channel closed, find
`s_readerClosed` clear again and succeed without a final line; it may wait for
ever; or it may read `sp_response` through NULL (`commandCrash`).

### ReferenceRil

The event-loop thread is `disp`: the request or timer callback it runs, the
answers its AT commands had so far, and what it still has to do (`todo`: set,
test and report the radio state, complete, ask for a timer). A handler is a
function of the answers so far (`Handler`): it names its next command or the
rest of its work, so that between two commands everything else may happen. An
answer is a class: `closed` (the channel ended), `error` (a final response that
is not OK), `zero` (`+CME ERROR: 0`), `none` (OK without a line), a line that
can or cannot be parsed, `long` (more lines or fields than the array holds) and,
where control depends on it, what the line says (the PIN state, the call).
`setRadioState` is several steps, because the state is compared and reported after
the mutex is released: set, test, report and send. A report is two of them:
`RIL_onUnsolicitedResponse` reads the state when it builds the parcel
(ril.cpp:2854) and sends it under `s_writeMutex` later (2870), so that reports of
two threads may go out in the wrong order and a stale one may be the last. The
reader thread of each channel has the same steps (`readerSet`, `readerTest`,
`readerReport`, `readerSend`), after `at_close` and `s_closed = 1`, and the test
that follows them: a reader so late that the event loop's thread has set
RADIO_STATE_SIM_NOT_READY on the next channel runs `onRadioPowerOn` itself
(`readerPowerOn`). `reported` is history: the state as it is has been sent since it
changed last.

The build is the one of the tree's makefiles, without `USE_TI_COMMANDS`: neither
`WORKAROUND_ERRONEOUS_ANSWER` nor the TI commands of `onRadioPowerOn` and
`onSIMReady` are compiled, and none is modelled; a listing of calls is believed.
The modem's call is `calls`, what the client knows of it is `view`; `callMoves`
changes the call silently, `ring` and `noCarrier` with a line. `overtaken` and
`swallowed` are history: a reader so late that the next channel was open, and a NO
CARRIER taken for the final line of a pending command.

### WorkerQueue and WorkQueueSpec

Records live in `q_`, `delayed_q_` or `free_list_` and are recycled. `Add` and
`AddDelayed` are one critical section each. The worker's steps follow `Worker`:
`isRunning`, lock, wait or timed wait, move due records, take one, unlock,
`Process`. `Stop` sets `state_` and signals without the mutex. `WorkQueueSpec`
knows nothing of records or threads: its state is the set of pointers that wait,
when each is due and what was handed over, and it says: each item once,
immediate items in order, delayed ones not early. The refinement mapping takes
`waiting` to the pointers of the records in `q_` and `delayed_q_`; the history
variables `due` and `taken` carry the rest.

### MockMessages and MockRil

A message is its type and the set of fields it has; `serialize` and `parse` are
what the protobuf bindings let through. A conversion `Rsp...` gives the members
of the C structure that come from the message, that have protobuf's default,
and that are never assigned. In `MockRil` a handler of the simulated radio is a
function from the radio to the radio, the error code, the data and the commands
it adds to the radio's own queue, at once or after a delay. `onRequest` converts
and queues on the caller's thread, `onRilRequest` dispatches by `dispatchTable`,
`iccProcess` and `radioProcess` are the two script workers, `radioMove` and
`Elapse` their timers. The control server accepts one client at a time, reads
its messages with the V8 lock held (`V8Free` is false from the first byte to the
last) and dispatches to itself or to the radio.

A queue hands over what was added, in order. `WorkerQueue` shows that it need not
(`worker_process`): after `mishand` (enabled when a queue holds two items: the
record the worker has released is reused) nothing is promised, and what the program
does with a wrong pointer is not modelled. The invariants are then about the states
before it, and the liveness properties name it (`mishanded`). A scenario says what
framework and control client may send: a sequence of sets of requests, one of
commands, how many clients come, and whether the framework is `patient` and waits
for the answer to one request before it makes the next.

## 3. Runs

All runs use `tlc -workers 2`; the longest, `mock_ril` and `reference_ril`, take
about three minutes.

| Run | Question | Result |
|---|---|---|
| `event_safety` | Two foreign threads, two timers, failing pipe, accept, write and select: do the views of what is watched agree, is the loop never deaf, do the callbacks' asserts hold, is `listMutex` never kept, do timers fire in order? | holds |
| `event_live` | Is a timer requested at any point of the loop fired, and a waiting client accepted, even after a hang-up? | holds |
| `requests_safety` | Two clients in succession, two requests, two vendor threads, all ways to complete, read and write errors, oversized responses: frames, answers, cancellation, ownership of blocks, `s_writeMutex` | holds |
| `requests_live` | Is every valid request answered to a client that stays? Is a kept NITZ time delivered only once? | holds |
| `requests_owner` | Is a response reported only to the client that asked? | **violated**: a request already off the list when its client leaves is not cancelled |
| `at_safety` | All five command types, unsolicited lines of no class of an answer, hang-ups, a second `at_open` at any step: is an answer the command's own, whole and in order; is there one reader? | holds; a command under which `at_open` reset the channel may succeed without a final line, and is named |
| `at_live` | With timeouts, handshake retries, hang-ups and a second `at_open` at any step: does every command return; does one ever find another pending? | holds; the two kinds of command that may not return are named: under a reset, and a handshake with an invalid deadline |
| `worker_queue` | Three items, delays 0 to 2, a Stop: are records in one place, does the worker never oversleep, does the queue implement `WorkQueueSpec`, is every item taken? | holds |
| `marshal` | Every request, response and unsolicited message, every small datum, blocks cut at every word: do `ril.h`, the tables and the functions agree; does nothing unset reach `onRequest`; is no whole block dropped; which strings leak? | holds; known leaks and limits, and the broadcast page, are named in the properties |
| `reference_ril` | Every request and answer; a call that changes silently; a radio switched on and off while the channel closes and reopens: completions, the radio state and its reports, recovery, the client's call list | holds; the handlers that complete twice, never, or bring the daemon down are named in `CompletedOnce`, a late reader in `AvailableWhenOpen`, a NO CARRIER taken for an answer in `CallsConverge` |
| `mock_ril` | Every request; every control command twice; calls both ways; three call-control requests in a row; a call that comes in beside a held and an active one: count, what is told, answers, ringing | holds; what `DIAL` is told is named in `ToldAsDecided`, a HANGUP_WAITING_OR_BACKGROUND that fails half-way in `IncomingCallRings`, a wrong hand-over in both liveness properties |
| `worker_process` | Is `Process` called with the pointer that was taken? | **violated**: `r->p` is read after `r` was released |

The violated properties state what a comment or a header of the source says;
`PROJECT.json` quotes the line in "findings".

### Bounds

Every bound is a constant named in a guard.

- `RilEvent`: two timers are enough for every relative order of two insertions
  and for a timer requested while another fires; `MAX_FD_EVENTS = 2` is the
  smallest table that can hold what is watched at one time (the wakeup event and
  one of the other two), so that slots are reused at once; a pipe of one byte is
  always full after one wakeup; the command descriptor is 4, below the listening
  socket 5, in `event_safety` and 6, above it, in `event_live`, so that `nfds`
  has to shrink and to grow when one takes the other's place. There is one such
  number: a stale close by another thread then always hits the next connection.
  `event_live` has one thread, since liveness needs the whole graph without
  symmetry.
- `RilRequests`: two connections for one reuse of a descriptor (two numbers in
  `requests_safety`, so that it may also not be reused), two requests and two
  blocks so that a freed address comes back while a stale token exists, two
  vendor threads for contention among three senders. `requests_live` has one
  vendor thread beside the dispatch thread, and one NITZ time.
- `AtChannel`: three commands, so that an answer has a command before and after
  it; two intermediate lines, the least that has an order; one unsolicited line;
  two opens; two handshake tries. The microseconds of `at_safety` are the first and
  the last that give a valid deadline, those of `at_live` the last that does and the
  first that does not. `at_live` has two commands of the three shapes an answer can
  have (no line, one line, a prompt first) and one intermediate line, but the same
  two opens: a command that `at_open` resets may wait for ever, and `CommandEnds`
  names it. The unsolicited line is of class `other`: a NO CARRIER or a `+CREG:` that
  looks like part of an answer is taken for one (atchannel.c:147), and `AnswerIsOwn`
  is not about it; `ReferenceRil` has that NO CARRIER (`swallowed`).
- `WorkerQueue`: three items are the least with a recycled record between two
  others; three different delays.
- `RilMarshal`: ints and strings of two values beside NULL and the empty string,
  arrays of up to `ArrayMax` = 2 elements, every prefix of every block. Two elements are
  the least that show a swapped or skipped one; requests do not interact, so
  that one at a time is enough (`RilRequests` has the interleavings).
- `ReferenceRil`: three scenarios, chosen by the initial state. One request of
  every kind after the other with every answer, while the one channel may close at
  any step: a handler depends on the answers it had and not on the channel they came
  from, and `RequestsCompletedOnce` proves the same for any number of channels. Two
  channels with `RADIO_POWER`: one reopening is enough for an old reader to meet a new
  channel. Six events of a call with the requests about calls, on a channel that stays
  open, which `CallsConverge` presupposes: two whole calls of three steps each.
- `MockRil`: five scenarios. At most three calls, the least with one active, one
  held and one waiting (the code allows 7); two connections in a conference (the
  code allows 5), so that the limit is reached; two requests of any kind at the same
  time, three call-control requests one after the other, and the four that lead to a
  HANGUP_WAITING_OR_BACKGROUND with a held, an active and a waiting call; two control
  commands from one client or from two; delays are 1, 2 or 3 units in the order of
  the code's seconds, and the minute of the signal strength.

`CHECK_DEADLOCK FALSE` is said where the bounded environment may run out of
requests, commands or items, where the process may be killed, and where the loop
ends by design of the code (a failed pipe). In `event_live` deadlock is checked:
the loop never stops there.

### Fairness and why the code justifies it

- Weak fairness of every thread's next step (`eventLoop`, `callerStep(t)`,
  `ThreadStep(x)`, `ReaderNext`, `MainNext`, `CommandNext`, `WorkerStep`,
  `StopStep`): the kernel schedules a thread that can run, and the mutexes are
  held for bounded stretches. Nothing obliges a caller, a client or an
  unsolicited line to come.
- Weak fairness of `Tick`: time passes.
- Strong fairness of `processCommandsEagain`: `processCommandsCallback` reads
  until the socket is empty, so that a client that never pauses would keep the
  loop from everything else. The property is stated for clients that do pause.
- Weak fairness of `ModemAnswer`: the modem answers what it received or hangs
  up. AT commands are sent with timeout 0 (infinite), so that the driver does
  wait for ever for a modem that does neither.
- `ReferenceRil`: weak fairness of the main loop, each reader's closing and the
  handler in progress; strong fairness of the timers and of the client's
  `GET_CURRENT_CALLS`, since the event loop serves every timer and record
  although requests keep coming; strong fairness of a good answer to `AT+CLCC`:
  a modem that refuses it for ever keeps the client from knowing. The modem is
  not obliged to keep a channel open.
- `MockRil`: weak fairness of the script's workers, the clock, and of the rest
  of a control message: a client that stops for ever inside one does stop the
  daemon, which holds the V8 lock, and then no request is answered (section 5).
  Nothing obliges a client to send.

## 4. Proofs

The theorems hold for every value of the constants that satisfies the named
`ASSUME`s of the module (TLC evaluates them in each run); the two theorems on
the answers of the AT channel and `AnsweredAsCompletedAlways` have a hypothesis of
their own. None of the
invariants is inductive alone. Each was strengthened, the strengthening checked
with TLC on the run's instance, and then proved: one lemma for each action or
group of actions that can disturb it. Where a component has several properties,
their invariants are in layers, each proved on top of the ones before it.

`RilEventProofs`, for any number of threads, timers, descriptors and any
`MAX_FD_EVENTS >= 2`:

- `Typing`: `TypeOK`;
- `WatchTableConsistent`: `watch_table`, `index`, `readFds` and, whenever
  `listMutex` is free, `nfds` agree;
- `LoopNeverDeaf`: the loop sleeps only while it watches the wakeup pipe and,
  after `RIL_register`, exactly one of the two sockets;
- `CallbackAssertsHold`: the asserts of `listenCallback` and
  `processCommandsCallback`, and no list still links the event that
  `listenCallback` clears;
- `MutexReleased`: the early return of `ril_event_del` that keeps the mutex is
  not reached.

The inductive invariant `IInv` adds `DescriptorInv` (which descriptor each event
has, and that the listen event has none before `RIL_register`), `LockInv` (who
holds `listMutex` at which control point, and that `nfds` may lag behind only
for the listening socket, between the two steps of `RIL_register`), `PendingInv`
(`pending_list` is empty outside the part of the loop that fills and fires it,
and a descriptor event is on it at most once), `WakeupInv` (from `copyReadFds`
on the wakeup event stays in the table) and `ConnInv` (where the one connection
stands: a ready listen event has left the table, a ready commands event has not,
the two are never both pending, and `s_fdCommand`, the commands event and the
dispatch thread's control point agree). `ConnInv` is what makes a stale callback
impossible. Lemmas `AddedToTable`, `Added` and `Removed` say what
`ril_event_add` and `removeWatch` do to the four views.

`RilTimerProofs`, under the same assumptions, on top of `IInv`:

- `TimersCalledInOrder` (`TimersInOrder`): with `OrderInv`, that `timer_list` and
  the timers of `pending_list` are in the order of their timeouts, the expired
  ones before the listed ones, none earlier than the last one called and that
  one not later than the clock; and `HeldInv`, that the block of the running
  callback and the blocks that threads are about to add are allocated, different
  and in no list. `HeldInv` is needed because a block that is freed and allocated
  again gets a new timeout, which would break the order of a list that still
  linked it. Lemmas `InsertAtElements` and `AddedInOrder` say what the insertion
  loop of `ril_timer_add` does to an ordered list.

`RilRequestsProofs`, for any number of clients, requests, vendor threads and
descriptors, with every way a write can fail:

- `WriteMutexHeld`: `s_writeMutex` is held exactly between its lock and unlock,
  on all five ways out of `sendResponseRaw` (from the types alone);
- `FramesApart` (`FramesNotMixed`): with `FileInv`, that a connection has one
  descriptor, and `HeaderInv`, that a header at the end of a stream one can
  still write to belongs to the thread with the mutex, so that the payload that
  follows is its own;
- `OwnerAlone` (`CompletionOwns`): with `ListInv` (what the vendor still has is
  listed, what is listed is allocated, one live block for a request) and
  `HolderInv` (who may dequeue what, the second completion of an inline request
  apart);
- `CancelledStaysSilent` (`CancelledNotReported`): with `ReplyInv`, that nothing
  has been written for a request that is still listed or was dropped;
- `DeliveredOnce` (`AtMostOnce`): with `NitzInv`, that a NITZ time is in one
  place, and `OnceInv`, that what was delivered is in nobody's hands any more.

`AtChannelProofs`, for any number of commands, opens, lines and handshake tries:

- `ThreadsSafe`, and from it `ExclusiveReader` (`OneReader`) and `NonePending`
  (`NoCommandPending`): `ThreadInv` says who has `s_commandmutex`, that
  `sp_response` is set only inside the wait, and which reader is how far when
  `s_fd` has which value;
- `AnswersAreOwn` (`AnswerIsOwn`) and `AnswersAreWhole` (`AnswerIsWhole`), under
  `Undisturbed`: no timed wait times out and no unsolicited line has the form of
  an answer. The code cannot do without: nothing in a line says which command it
  answers, so that a late OK, or a NO CARRIER of a call, is taken for the answer
  of whatever command is pending. That the loop's test of `s_readerClosed`, the
  hand-over of `sp_response` and the second test of `s_readerClosed` are steps of
  their own, with `at_open` in between, is part of the theorem: what may then
  succeed without a final line is a command in `overtaken`, and no other.
  `OwnInv` follows the command through the modem's queue, the wire and the reader: in all of them together there is no
  line of an earlier command when a command is issued. `WholeInv` counts: the
  lines received, the lines on the wire and the lines still to be sent are the
  answer, in its order, with the reversal in `reverseIntermediates`.

`ReferenceRilProofs`, for any number of channels, any scenario and every handler:

- `ClosedStaysUnavailable` (`ClosedMeansUnavailable`): `ReadersInv` says how far
  the readers of old channels are;
- `RequestsCompletedOnce` (`CompletedOnce`): `CompletionInv` says that what was
  completed and what is left to do (`Owed`, counted over `disp.todo`) make one
  completion. Lemma `HandlerGood` proves of each handler, by its cases, that
  whatever the answers, it sends its next command or leaves one completion,
  except for the requests and answers the property names;
- `ReportsCurrent` (`EveryChangeReported`): `ReportInv` says that while the state as
  it is has not been sent since it changed last, some thread is still about to
  test it against another one, to report, or to send the state as it is. It does not
  say that nothing older follows: a stale report of the other thread may be sent last.

`WorkerQueueProofs`, for any number of items, delays and times:

- `RecordsPlaced` (`RecordsInOnePlace`): a record is in one of the lists, in the
  worker's hands or nowhere yet, once;
- `WorkerNeverOversleeps` (`NeverOversleeps`): the worker waits only when `q_` is
  empty, no longer than until the head of `delayed_q_` is due, or has a signal;
- `Implements`: `WorkerQueue` implements `WorkQueueSpec`: initial states map to
  initial states and each step to a step or a stutter, `HandsOverAsPromised`.

`MockRilProofs`, for the bounds and scenarios of any instance:

- `CallsAreCounted` (`CallsCounted`): `CallsInv` is `RadioGood` (the radio's
  fields have their types, and the count agrees with the calls) with `QueueInv`
  (the commands in the queues are well formed; a CMD_CALL_STATE_CHANGE names a
  state a call can be in), because a handler is only as good as the command it
  takes. Lemma `DispatchGood` goes through every handler of the radio, on top of
  `AddGood`, `RemoveGood` and `SetGood` for the three ways a call list changes;
- `FrameworkToldAsDecided` (`ToldAsDecided`), which is inductive without a
  strengthening, since `told` is what the last step told: nothing, a report, or
  one completion with what the script decided (lemmas `CompletedAsDecided`,
  `IccData` and `RadioData`, the last over every handler and call state).

Both are about mock-ril as long as its queues hand over what they took: the model
stops at the first wrong hand-over (`mishand`).

`RilMarshalProofs`, for both sizes of a pointer, any sizes of the CDMA arrays and
arrays of any length up to `ArrayMax`, itself any number:

- `NothingUnsetAlways` (`NothingUnset`) and `OnlyKnownLeaksAlways`
  (`OnlyKnownLeaks`). `NothingUnset` is about the numbers and bytes `onRequest` is
  given, and about no more of a block that ends too early: a string that is cut off
  arrives as NULL, a buffer as NULL with the length announced for it. Lemma
  `DispatchSound` goes through the fourteen dispatch
  functions on any words. `Tight` is the set of the readers of which a good last
  status says that nothing was unset so far, which is why one look at the end is
  enough for the functions that look only there; `Clean` the set of those that
  have read no value past the end;
- `DeliveredAsSentAlways` (`DeliveredAsSent`) and
  `OnlyBrokenBlocksRejectedAlways` (`OnlyBrokenBlocksRejected`): `FedAt` says of a
  reader what is still to come and what it has read. Lemma `FedValue` is the
  round trip of one value, `FedValues` of a sequence of them, and the fourteen
  `...Delivered` lemmas go from there to each function; `TablesAgree` compares
  `s_commands` with `ril.h` row by row, and `DispatchDelivered` puts them together.
  The invariant `Sending` says what a block is between the client and the reader;
- `AnsweredAsCompletedAlways` (`AnsweredAsCompleted`), under the hypothesis
  `PtrSize = 4`: a build of 32 bits, the one of this tree. With a pointer of 8 bytes
  `responseInts` writes half of the ints, and the property is false. `ReadsAs` says
  that a structure is read from its words whatever follows them; lemma `FedList` goes
  from there to a list read one structure after the other, and twenty `...Answered`
  lemmas to `Answered` of each response function: it fails exactly for what the
  property calls not well-formed, and otherwise writes words that `ReadBack` turns
  into `Reported`. `ResponseTableAgrees` and `UnsolTableAgrees` compare the response
  columns of the two tables with `ril.h` row by row, `ResponseAnswered` puts the
  functions together, and `UnsolSent` adds the words that follow a change of the
  radio state and a NITZ time. Two things are not part of it and are named in the
  property: a response without data, of which only the token and the error arrive, and
  the page of a broadcast message, which `responseString` cuts.
  `AnswerInv` adds to the property that the version is 2 or 3 and that a pending request is one of the table, which is known of a block from
  `BlockSound` and thus from `Sending`.

Both directions are about the values the run has too (`ValuesOf`, and for a CDMA
record a text that fits and one that does not), in arrays of any length.

What a recursive function computes takes induction, and the induction theorems of
the library take an operator, which the provers cannot be given. `EveryNumber` has
a set in the place of the operator: the property is the set of the numbers that
have it, and the well-foundedness of < does the rest. `RunSteps`, `ConcatSteps`
and `Recursion` get the recursive functions of the model from it, `SeqCases`
induction on the length of a sequence.

Only model-checked:

- all liveness properties, which need fairness and `ENABLED`: `TimerFires`,
  `ClientServed`, `RequestAnswered`, `CommandEnds`, `ItemTaken`, `Reopened`,
  `AvailableWhenOpen`, `CallsConverge`, `RequestsAnsweredOnce` and
  `IncomingCallRings`.

Every invariant and action property of the passing runs is stated by a theorem.

## 5. What is not modelled

- The wake-lock timers' global `s_last_wake_timeout_info`; the wake locks
  themselves are commented out in the source.
- `reference-ril.c` as built with `USE_TI_COMMANDS`, which no makefile of the tree
  defines.
- `readline`'s buffer at the byte level, and `at_tok`: `ReferenceRil` uses the
  outcome of parsing only.
- The debug socket (`#if 0` in `RIL_register`), the credential check of
  `listenCallback` (commented out).
- `rild` and `radiooptions` (start-up and a test client), the CDMA SMS stubs.
- mock-ril: protoc's generated code, the V8 bindings beyond serialising and
  parsing, stopping the control server, the byte framing of its messages, the
  Python client, `CMD_DELAY_TEST` (prints, sent by the tests only).
- The values of enumerations in `ril.h`, which no code in `libril` looks at: such
  a member is an int.

Disagreements met while modelling that no run states, because no line of the
repository claims otherwise or because a property excludes them by name:

- `libril`: the strict comparison in `processTimeouts` against its comment
  (`ril_event.cpp:168`). A failed response write closes the descriptor that
  select still watches; select says EBADF and the loop returns for good
  (`RilEvent`'s faults include it, `event_live` does not). A response whose two
  writes straddle a reconnect with the same descriptor number begins the new
  client's stream with a payload. A NITZ time may be kept after the new client
  was greeted. SIGPIPE is not ignored. `dispatchDial` refuses the payload its
  own comment describes when the driver's version is 3 or more. `responseInts`
  divides by `sizeof(int *)`. `riltest` takes the token for the error. The page of a
  broadcast message (1021) is "88 bytes" coded as 3GPP says (`ril.h:3297`); its row
  (`ril_unsol_commands.h:38`) has `responseString`, which takes them for a C string
  and ends them at the first zero byte (`ril.cpp:1360`). Two reports of the radio
  state may be sent in the wrong order, since each reads the state (`ril.cpp:2854`)
  before the lock under which it is sent (2870): after the last report the client
  may hold a state that is no longer so, with nobody left to correct it.
- `atchannel.c`: for the `> ` prompt, which ends with the data, `findNextEOL`
  gives the place of the terminating NUL, and `readline` leaves its cursor one
  past it, although its comment (`atchannel.c:421`) says that it is never behind
  the data; the next call looks at what an earlier, longer read left there.
  `at_open` clears the pending command and `s_readerClosed` without
  `s_commandmutex`, although the comment at :78 says it protects `sp_response`: a
  command that waits may find its response gone (NULL) or wait for ever, and one
  that has left its loop because the channel closed (761) may find
  `s_readerClosed` clear when it looks again (789) and return 0 with no final
  line. `at_handshake` sleeps with the mutex held, so that late OKs are not
  drained. `setTimespecRelative` does not carry into `tv_sec`: with an invalid
  deadline the wait returns EINVAL at once and the loop spins for ever, the mutex
  held.
- `reference-ril.c`: `SET_NETWORK_SELECTION_AUTOMATIC` is never completed;
  `SMS_ACKNOWLEDGE` and several error paths complete twice; a refused `AT+CREG?`
  and a second command of `requestPsCsStat` on a closed channel are read through
  NULL; `+CME ERROR: 0` passes for success; `requestEnterSimPin` takes a plain OK
  for a failure; arrays for the answer's lines or fields are not bounded. A
  reader thread that is slow after its channel closed may take the state of the
  next channel away and, when that one is RADIO_STATE_SIM_NOT_READY, runs
  `onRadioPowerOn` (1846), of which the comment at :1841 says "Currently, this
  doesn't happen". A NO CARRIER that arrives while a command is pending is taken for
  its final line (the warning at `atchannel.c:147`), and the end of the call is not
  reported.
- `worker.cpp`: the one signal of `Stop`, without the mutex, can be lost between
  `isRunning` and the wait; `isRunning` is also true of a thread that is done. A
  wrong hand-over (`worker_process`) loses one of mock-ril's requests and runs
  another twice; `MockRil` names it and goes no further.
- mock-ril: a delayed state change may hit another call at the same index, even
  make an incoming one ALERTING; an incoming call that the remote side hangs up
  rings for ever, and a second one starts a second ring loop; an incoming call at
  the limit is answered OK and not added; a refused DIAL is told as success; the
  UUS information of a DIAL is lost; `cdma_subscription_app_index` is never
  assigned; a late control answer goes to whichever client is connected; a client
  that stops inside a message keeps the V8 lock and with it every request (`ctrl_server.cpp:116`);
  HANGUP_WAITING_OR_BACKGROUND with a held, an active and a waiting call ends the
  held one, sets `incomingCallIsProcessed` (`simulated_radio.js:434-435`) and fails
  at the active one: the ring that is queued for the waiting call is dropped (926)
  and the call is never announced, although `ril.h:3250` asks for at least one
  RIL_UNSOL_CALL_RING; the loops over the calls return at the first call they do not
  know what to do with, and what they changed before is not reported
  (`simulated_radio.js:408-415, 443, 479, 531, 803`), nor is what HANGUP, ANSWER
  (701-706) and CTRL_CMD_ADD_DIALING_CALL change, although `ril.h:3008` says "Indicate
  when call state has changed": no property claims that changes are reported; the
  table in the comment of SWITCH_WAITING_OR_HOLDING_AND_ACTIVE is not what the
  code does with a waiting call.

## 6. Plan

1. `s_last_wake_timeout_info` against the timer callback that frees it.
2. `readline` and the buffer across reopenings, against a reference definition
   of lines; `at_tok` likewise.
3. The control server's stop.
