# TLA+ models of the UDOO KitKat patch

The repository patches the Android 4.4 sources of the UDOO Quad board. Most of
it is data (images, scripts, configuration); its program logic is a set of
independent parts, of which the two radio interface layers (RILs) and the NFC
and HDMI drivers carry state and concurrency. This directory models that logic
in TLA+, checks it with TLC and proves the central facts with TLAPS.

## Inventory

### Radio interface layers (`hardware/ril`)

`reference-ril` and `altair-ril` are two forks of the same program: a RIL
turns requests of the telephony framework into AT commands for a modem.

| Part | State | Operations | What is hard |
|---|---|---|---|
| AT channel (`atchannel.c`) | the pending command `sp_response`, `s_type`, `s_responsePrefix`, `s_smsPDU`; `s_fd`, `s_readerClosed`; `s_commandmutex`, `s_commandcond`; altair: `s_at_cmd_g_mutex` | `at_send_command_*`, `at_handshake`, `at_open`, `at_close`, reader thread | commands and lines are matched only by order; timed attempts leave answers behind; the device can go away at any point; one `pthread_cond_signal` for all waiters |
| Line framing (`readline`, `findNextEOL`) | `s_ATBuffer`, `s_ATBufferCur` | one call per line | arbitrary read boundaries, the SMS prompt without a terminator, overlong lines, one buffer for all sessions |
| Radio state and life cycle (`reference-ril.c`, `altair-ril.c`) | `sState`, `s_closed`, timed callbacks | `mainLoop`, `setRadioState`, `pollSIMState`, `initializeCallback`, `onRequest`, `onATReaderClosed` | four threads change one state; decisions are taken after the mutex is released; close races with reopen |
| SMS arrival | `smsStorageIndex`, `smsReadStorage` | `+CMTI`/`+CDSI` handlers, `readNewSms` | globals overwritten before the callback reads them; announcements inside the answer of `AT+CMGR` |
| Data calls, ppp monitor | pppd process, control socket | `requestSetupDataCall`, `pppcheckLoop` | a thread per session, one failure ends it |
| AT socket (altair) | client socket, callback pointer | `atSocketMainLoop`, `processMessage` | a second command thread, retries while a command is pending |
| Single-shot requests | `pppd`, call list workaround, PDN and registration flags | about sixty handlers in each RIL: commands, parse, complete | every handler has error paths of its own: a failed or refused command, a bad answer, a channel that closes |

The threads are: the RIL event loop (requests and timed callbacks, one at a
time), `mainLoop`, the AT reader, the ppp monitor and, in `altair-ril`, the AT
socket thread. The event loop and the socket thread call into the channel and
block there; the reader calls back (`onUnsolicited` under `s_commandmutex`,
`onATReaderClosed` without it); all of them call `setRadioState`; `mainLoop`
waits for the close and opens the channel again.

### Kernel drivers (`kernel_imx/drivers`) and the rest

| Part | State | What is hard |
|---|---|---|
| `nfc/pn533.c` | command queue, `cmd`, `cmd_pending`, two URBs, five works on an ordered workqueue, listen timer, polling list, target state | URB completions against `dev->cmd`; failures of queued commands; a timer that outlives the polling list; abort and disconnect |
| `nfc/pn544.c` | power state, interrupt flag | a blocking read holds the mutex every other call needs |
| `video/mxc_hdmi.c` | cable, blank and registration flags, clocks, PHY, interrupt mask and polarity | delayed worker against a changing cable; clock balance over suspend and blank |
| `hid/hid-multitouch.c` | slots, contact counters | counting contacts over several packets of a frame; reuse of slots; events before the slots exist |
| `video/mxc_edid.c`, `at_tok.c`, `fcp_parser.c`, `SMS3GPP2.c` | none | bounds of parsers |
| `PowerUI.java`, `power.cpp` | battery bucket and dialogs; a governor setting | order of events |

`PROJECT.json` lists every part with its status, and under `hazards` the places
where a test would hardly reach what can go wrong.

## Modules

| Module | Models | Composes with |
|---|---|---|
| `ATChannel` | both `atchannel.c`; altair's extra mutex is the constant `GMutex` | `ATReadline` stands for its `ReadLine` step, `RilLifecycle` for its callers |
| `MCATChannel` | instances of it for TLC | |
| `ATChannelProofs` | theorems about `ATChannel` | |
| `ATReadline`, `MCATReadline` | `readline()` and its buffer | |
| `ATReadlineProofs` | theorems about `ATReadline` | |
| `RilLifecycle` | `mainLoop`, event loop, readers and the radio state; `Altair` selects the two functions of `altair-ril.c` that differ | uses the channel by the contract that `ATChannel` establishes: a command returns, with an error once the channel is closed |
| `RilLifecycleProofs` | theorems about `RilLifecycle` | |
| `AtHandler` | the instructions handlers are written in: send, branch, free, complete, and the shapes of `at_send_command_*` calls | |
| `ReferenceHandlers`, `AltairHandlers` | the handlers of `reference-ril.c` and `altair-ril.c`, one definition per function | extend `AtHandler`; altair's reuse the reference ones that are textually the same |
| `RilRequests` | the event loop that runs a handler against a channel that may fail | composes both handler modules with the contract of `ATChannel`; `RilLifecycle` decides when requests are let in |
| `Sms` | `+CMTI`/`+CDSI` handlers and `readNewSms()` | the same event loop and reader as `RilLifecycle` |
| `SmsProofs` | theorems about `Sms` | |
| `Pn533Cmd` | the command path of `pn533.c`; `Acked` tells the PN533 from the ACR122U | |
| `Pn533Poll` | the polling loop of `pn533.c` | uses the command path by the contract that `Pn533Cmd` establishes: an accepted command is answered once, in order |
| `Pn533CmdProofs` | theorems about `Pn533Cmd` | |
| `Pn544` | `pn544.c` | |
| `NfcProofs` | theorems about `Pn533Poll` and `Pn544` | extends both, which share no name |
| `Hotplug` | what the HDMI driver promises: it follows the cable | |
| `Hdmi` | `mxc_hdmi.c` | implements `Hotplug` |
| `HdmiProofs` | theorems about `Hdmi`, and the safety half of the refinement | |
| `Multitouch` | `hid-multitouch.c` | |
| `MultitouchProofs` | theorems about `Multitouch` | |

**ATChannel.** One action per critical section of `s_commandmutex`, which no
thread holds while it blocks, except `at_handshake`, for which `mutex` records
the holder between steps. `waiters` is the set of threads in
`pthread_cond_wait`; `Signal` removes one, `Spurious` and `HsExpire` remove one
without a signal, and `Wake`, `HsWake` and `HsTimeout` are what the thread does
once it has the mutex again. `response` is `sp_response` with the fields of the
pending command; a thread that wakes up without one is `"crashed"` (the code
reads through `NULL`). A line is abstracted to its kind, its class (does it
begin with a digit or the expected prefix) and, for the properties only, the
command it belongs to. The modem is external: it executes the commands in
order, sends each one's lines and final result, prompts for SMS bodies, sends
unsolicited lines and may hang up at any time.

**ATReadline.** A byte of the buffer is the position in the stream of the
byte it holds, so that loss, duplication and order can be stated.

**RilLifecycle.** `pc` and `frame` hold the activation of `setRadioState()` or
`pollSIMState()` of each thread, split where the code reads `sState` without
the mutex. A command of the event loop is one step that needs the channel; it
fails at once when the write fails, and never comes back on a channel without a
reader. `main` becomes `ended` where `mainLoop` returns: when `tcsetattr()` fails
(reference RIL, before `s_closed = 0`) or `at_open()` cannot create a thread, with
the channel open and its reader there or not (`NoReader`).

**Pn533Cmd.** One action per call of the NFC core, per URB completion handler
and per item of the ordered workqueue, split where the URBs are submitted but
`dev->cmd` is not yet set (`caller.at = "sent"`, which holds `cmd_lock`, and
`sending` for the worker). `work` is the workqueue, in which an item is pending
at most once. A completion that meets `dev->cmd = NULL` sets `oops` and ends the
behaviour. Commands are numbered as they are accepted; `answered` is the history
of callbacks with the chunks each exchange was given. The core's device lock is
external and makes the callers one; the chip is external and answers well, badly
or not (a failed URB). The commands that `poll_work` sends are sent by the
caller here. Frames, checksums and allocation failures are abstracted.

**RilRequests.** A handler is a program of a few instructions: `send` a command
(with the response pointer it fills and the branches for a line that parses, a
refusal and an error), `free`, assign `NULL`, dereference, complete the request,
branch on a global, call another handler. `RilRequests` is the machine that runs
it: `frames` is the call stack with the response pointer of each function
(uninitialised, `NULL`, live, freed), `done` counts completions, `misuse` and
`leaks` record a use of a pointer that holds no response and a response nobody
can free any more. After such a use, or an access to memory that belongs to nobody
(`Wild`), the process may go on or end (`dead`). Every command may succeed, be refused, fail to parse or fail,
and the channel may close while it waits. What the lines say is abstracted to
whether they parse and to the flags a handler branches on. The handlers are
split in families that share globals (`Families`); a behaviour runs those of one.

**Sms.** The reader's assignments to `smsStorageIndex` and `smsReadStorage` are
three steps; each AT command of `readNewSms()` is one, but for `AT+CMGR`, which is
three: its header (`Read`), the pdu and OK or OK alone (`Answer`), and what
`readNewSms()` does with the response (`ReportPdu`). From the header on
`processLine()` adds every line to the response, an announcement too (`Swallow`).
`lines` are the announcements the modem has still to send, so they fall between
any two lines of the answer. The modem keeps the
messages by storage and location, takes the first free location for a new one,
and reads an empty location with an error or, if `lenient`, with a bare OK.
`disturbed` are the messages whose callback met another announcement or a
failing command, `swallowed` those whose announcement became a line of an answer,
`spoilt` those whose answer had another line, or none, in the place of the pdu.

**Pn533Poll.** One action per work item of the ordered queue, split where a
timer, a completion or the core's thread can come between; `timer = "running"`
is the handler between its two assignments. `raced` marks that the timer or
`stop_poll()` overlapped a completion or outlived the list, `stalled` that a
send failed or that the response of a target activation was unusable.

**Pn544.** Calls take `info->mutex` (`Lock`), run and return it (`Return`); the
interrupt thread and the I2C transfer take `read_mutex`. `edge` is an interrupt
that is not yet handled. The lengths in a frame are kept as numbers.

**Hdmi.** The hot-plug worker is a sequence of steps (`work`), between which
the cable, framebuffer events (each one step, as the console lock makes them)
and the sysfs switch may come. `pol` and `masked` are the interrupt's polarity
and mask, `clk` the clock count, `modelist` what the EDID gave. Modes are VGA
and others. Blank and unblank events also come between suspend and resume; `lit`
remembers the blank state that the suspend found, and `crossed` counts the resumes
that found another one. `FollowsCable` is `Abstract!Spec`: with `noticed` mapped to the part
of the worker between the interrupt and the report and `armed` to the
registration, every behaviour of `Hdmi` is one of `Hotplug`, fairness included.

**Multitouch.** The panel is external: any class of the driver, any size of a
packet, the contact count before or behind the contacts; it sends frames of the
fingers that are down and, once, of those that went up. `mt_event` stands for
the fields of one contact, the last of which completes a slot.

## Runs

| Run | What it shows |
|---|---|
| `at_matching` | Two command threads behind `s_at_cmd_g_mutex`, all six kinds of command, one unsolicited line of any look: `WaiterOwnsResponse`, `CompleteResponse` (which says what an unsolicited line that looks like the answer does to it), `PduAnswersPrompt`. |
| `at_handshake` | One command thread and a handshake with two attempts, a stray `NO CARRIER`, hang-up: `ClosedWakesAll`, `AnswerLag`; under fairness `CommandsReturn`, `HangupReported`. |
| `readline_frame` | Framing over every stream and split: `CursorInData` (the cursor stays between the data and its `'\0'`, except after a prompt), `EachByteOnce` (nothing lost, doubled or out of order), `Framed`, `NoLineHeldBack`. |
| `ril_states` | Two sessions, one request: `TypeOK`, `ClosedUnavailable`, `RadioStateAgrees`, `Reopens`. |
| `ril_poll` | One session, two requests, the modem switching itself off: `SimReported`, `LoopReturns`. |
| `ril_requests` | Every handler of both RILs, two closes of the channel: `CompletedOnce`, `ResponsesOwned` (none used when it is not there, none leaked), `ModemTracked` (the RIL knows whether pppd runs, and leaves the modem as it was unless a command went wrong). |
| `sms` | Two messages and a status report, two storages, one failing command, announcements between the lines of an answer: `DeletedWasDelivered`, `DeliveredRight` (once, and as what it is); under fairness `Delivered`. |
| `pn533_queue` | Four commands, chained responses, an abort, bad frames, a failing submission: `OneDriver`, `InOrder`, `ChainUnbroken`, `WholeResponse`; under fairness `SyncReturns`. |
| `pn533_poll` | Three polls, the listen timer, `stop_poll()`, one failure: `DivisionNeedsRace`, `OneLoop`, `LoopAlive` (with its listen timer), `PollStopsAfterTarget` (and the target is the one that answered). |
| `pn544` | Two threads, two files, one failing regulator: `NoMessageStranded`, `RegulatorsBalanced`, `FramesFit`; under fairness `CallsProceed`. |
| `hdmi` | Three changes of the cable, two suspends: `ClocksBalanced` (up to the resumes that found another blank state than their suspend), and the refinement `FollowsCable`. |
| `multitouch` | All classes and layouts, packets of one, two and four contacts, two slots: `ReportMatches`, `TracksFingers`. |

All runs pass. Several properties name their exceptions: a handler or a race for
which the code does not do what the property says. Those exceptions are the
defects listed below, and a property says that there are no others.

Every module has a `TypeOK` (`Pn544TypeOK` in `Pn544`). The run `ril_states` checks
that of `RilLifecycle`; it is proved there and in every other module with theorems
(`ATChannel`, `ATReadline`, `Sms`, `Pn533Cmd`, `Pn533Poll`, `Pn544`, `Hdmi`,
`Multitouch`). In `RilRequests` it documents the variables, and adding it to the `INVARIANTS` of the configuration checks it.

### Bounds

Two calls and one handshake give every overlap of a late answer with a later
command; `Retries` is 2 because the loop treats all attempts but the last
alike. Two threads are all that `altair-ril` has. `MaxResponse = 4` holds the
prompt and its terminator, and streams of 8 bytes fill the buffer twice. Two
sessions are one close and one reopening. Four commands are a poll that finds a
target, two exchanges, one of them queued behind the chain of the other, and a
release; three chunks let a chain be broken after its first request.

In `RilRequests` two closes let a handler meet a closed channel and a later one
a reopened one; `PppRetry`, `RepollMax` and `Retransmit` are the
limits of the code's loops, reduced to 2 because a loop treats all rounds but
the last alike; `MaxRounds` cuts the loop of `requestOrSendDataCallList()`, which has
no limit of its own (see the disagreements), at 3. Three messages let an announcement fall between two others, two
locations let a storage be full. Three polls are one poll, its restart and the
next; one queued command suffices because a second appears only after a race.
Three changes of the cable let it change twice while the worker handles the
first. Two slots and three identifiers let a finger come while another goes and
a frame have more contacts than slots; packets of one, two and four contacts
make frames of several packets, one packet, and one with padding. The frame
sizes of the PN544 are reduced to 4 bytes, with every length a byte can have
within and beyond them. All other counters are bounded in the guards by the
constants whose names begin with `Max`.

`CHECK_DEADLOCK` is off except in `multitouch`: a modem that hung up for the
last time, a framework that sends no more requests, or a bound that is used up
ends the behaviour.

### Fairness

Threads are scheduled (weak fairness of every thread's steps), and a modem
that does not hang up answers a command (weak fairness of `ModemFinal`); without
the second a command without a timeout would rightly wait for ever. In
`RilLifecycle` the event loop takes pending timed callbacks in turn (strong
fairness of `LoopInit` and `LoopPoll`), a command need not fail before the reader
has seen that the device is gone (`Gone`), and a SIM that is asked again and again
eventually answers "ready" (strong fairness of that outcome). No fairness is
given to requests, unsolicited lines, timeouts or hang-ups. In `Pn533Cmd` the
worker and a caller inside the driver run, and a submitted URB completes, with a
response or an error; the driver itself has no timeout for a silent chip.
In `Sms` the reader and the event loop run and the modem answers `AT+CMGR`. In `Pn544` threads and the interrupt thread run, and a mutex that
is free again and again is obtained (strong fairness of `Lock`: kernel mutexes
queue their waiters); a blocking read is owed neither a message nor a signal. In
`Hdmi` a raised interrupt is taken and the worker runs.

## Proofs

Eight modules prove, for every value of the constants, what the runs check on
small instances. Each theorem is `Spec => []P` for a checked property `P`, unless
noted, and rests on an inductive invariant that TLC checked on the runs before
it was proved. The only assumptions are the named `ASSUME`s on the constants
(bounds are natural numbers, a thread is a caller, `None` is no message), which
TLC evaluates on every run, and `Serialized` where it is written.

**`ATChannelProofs`**, for every set of threads and all bounds:
`TypeCorrect`; and `Serialized => (Spec => []P)` for `P` in `WaiterOwnsResponse`
(`WaiterSafe`), `ClosedWakesAll` (`CloseWakes`), `AnswerLag` (`AlwaysAnswerLag`),
`PduAnswersPrompt` (`AlwaysPduAnswersPrompt`) and `CompleteResponse`
(`AlwaysCompleteResponse`).

* `Serialized` says that the channel is opened once and that either there is one
  command thread (`reference-ril`) or `s_at_cmd_g_mutex` is used and no handshake
  takes place (`altair-ril` after initialization). Both conditions are needed:
  with `MaxOpens = 2`, or with the callers of `altair-ril` and `MaxShakes = 1`, TLC
  finds `WaiterOwnsResponse` violated (see the disagreements below).
* `TypeInv` adds to `TypeOK` that attempts are left while the handshake loop runs,
  and that the reader holds a line whenever it is about to process one.
* `WaitInv` joins the first two properties with what they need of each other: a
  thread in `at_send_command_full()` holds `s_at_cmd_g_mutex` where there is one,
  only the shaker is ever in `at_handshake()`, sleepers on `s_commandcond` are
  threads that wait for a response, and nobody waits before the channel is
  opened. Two threads that wait would each own the one response, so at most one
  sleeps and a single signal is enough.
* `LagInv` follows every answer on its way, from the command in `tx` through `rx`
  to the line the reader holds (`Streaming`): answers come in the order of the
  commands, a prompt before its final response, and none is further behind the
  last command than the answers left over (`slips`) allow, less the unasked ones
  still under way. Completing a command uses up what `Open` counts, giving up an
  attempt moves it to `slips`, and so the bound survives both. `Book` says the
  same of the answers that have arrived and of the PDUs written.
* `CollectInv` follows the intermediate lines. As long as no answer was left over
  and the channel is open, the lines the pending command has taken, followed by
  those under way, list exactly what the modem has sent for it (`Collecting`), or a
  command for a single line holds one that is not its own (`Mistaken`); so
  a line that moves from one to the other changes nothing, and when the final
  response is processed nothing is under way (`Collected`, from `Streaming`). That a
  line is taken and not passed to `onUnsolicited` needs the shape of the answer
  (`Shaped`), that the two lines of an unsolicited SMS stay together (`Paired`), and
  what a line that was taken looks like (`Taken`). No assumption is made about what
  the modem sends unasked. `Lists` compares by
  an increasing function between positions, where `SelectSeq`, which is recursive,
  would need an induction; the lemmas `ListsMove`, `ListsOther` and their kin
  transform that function for each move of a line.

**`ATReadlineProofs`**, for every `MAX_AT_RESPONSE`, stream, chunking and number of
sessions: `TypeCorrect`, `AlwaysCursorInData`, `AlwaysEachByteOnce`, `AlwaysFramed`
and `NeverHeldBack` (`NoLineHeldBack`). `TypeOK` alone lets the cursor be one past the
buffer, where a prompt can put it; `CursorInData` keeps it in the data at every
`read()`, and at every call until a prompt has been returned. The invariant `ReadInv` is about a view of the buffer (`Whole`):
the data between the cursor and `p_read` has no `'\0'`, what was received and is no
terminator is in it, in a line or ditched, and, until a prompt is returned, the
data is the last part of the stream, preceded by a terminator or a ditched byte,
with everything returned or ditched before it (`Tidy`). One call of `readline()`
passes through several views; there is a lemma for each of the things it does to
the buffer (`ReadView`, `SkipView`, `LineView`, `MoveView`, `ClearView`, `DitchView`,
`KeepView`), and the actions compose them.

**`RilLifecycleProofs`**, for any number of sessions, requests and unsolicited
lines, and for both RILs: `LifecycleTypeCorrect`, `CloseUnavailable`
(`ClosedUnavailable`) and `AlwaysRadioStateAgrees`. `IInv` adds `FreshReaders`: a
session that `mainLoop` has not opened has no reader thread, and `mainLoop` opens
only sessions within the bound; without it the thread that `at_open()` creates
could be the one inside `setRadioState()` and move it away. `TypeOK` itself is
inductive with it: it ties each control point, and the one a thread returns to, to
the thread, and the request in hand to the control point. `AgreeInv` adds, as long
as the modem does not switch off by itself, that readers only ever set
`UNAVAILABLE`, that the event loop is about to set what the modem has told it, and
that, while `mainLoop` runs, a state the modem does not share is one whose correction is still to come.

**`SmsProofs`**, for any messages, storages, places and failures: `TypeCorrect`,
`LostOnlyMisread` (`DeletedWasDelivered`) and `AlwaysDeliveredRight`. `SmsInv`: types,
and while `AT+CMGR` is answered the message is there and the line after the header
is its pdu, another line or none. `KeptInv`: a callback
about to delete has delivered what is there, or its answer was misread. `OnceInv`: a
message is at one location, and a delivered one that is still stored is about to be
deleted. `PureInv`: only an announcement inside an answer makes a reported line
something else than a pdu.
`RightInv`: until two announcements meet, one callback at a time stands between the
announcement and `AT+CPMS`, and the globals are its own.

**`Pn533CmdProofs`**, for any number of commands, chunks, aborts and failures, with
and without the ack: `TypeCorrect`, `AlwaysOneDriver`, `AlwaysInOrder`,
`AlwaysChainUnbroken` and `AlwaysWholeResponse`. `PathInv` relates `cmd_pending`, the URB, the work queue and
`dev->cmd` (`Driven`), the queue, the current command and those answered or lost
(`Ordered`: the queue is exactly the commands after the current one), and `resp_q`
and the chunks received (`Chained`). `TypeInv` adds that the workqueue holds one item
at most also after a completion that came too early, and the bounds.

**`NfcProofs`** for `Pn533Poll`, any number of polls and failures: `TypeCorrect`,
`AlwaysDivisionNeedsRace`, `AlwaysOneLoop`, `AlwaysLoopAlive` and
`AlwaysPollStopsAfterTarget`. `PollInv` has a part that always holds (`PathOK`, `Alive`)
and one that holds until the timer or `stop_poll()` has overlapped a completion
(`Unraced`): it says for each place where the loop can be that nothing else is in
flight, queued or armed.

**`NfcProofs`** for `Pn544`, any threads, files and frame sizes: `Pn544TypeCorrect`
(`Pn544TypeOK` and `Locked`: which thread holds which mutex, and that no call returns
with one), `MessagesAnnounced` (`NoMessageStranded`), `PowerBalanced`
(`RegulatorsBalanced`) and `FramesAlwaysFit`. `MsgInv` adds to these that the chip is off and empty while the driver is COLD (`Switched`), so that nobody
resets `read_irq` over a message; `RegInv` adds that, until a mode switch fails, at
most one file is open, because `open()` answers `-EBUSY` unless the driver is COLD.

**`HdmiProofs`**, for any modes and number of cable changes: `TypeCorrect`,
`ClocksDriftByCrossings` (`ClocksBalanced`), and `ImplementsHotplug`: `Spec => Abstract!Safety`, the initial
states and steps of the refinement `FollowsCable`. `ClockInv` adds that a framebuffer
is registered or suspended only after initialization, and how many suspends and
crossings there were; `PlugInv` that the worker
leaves the polarity turned to the edge that was not yet reported.

**`MultitouchProofs`**, for any number of slots, identifiers and packet sizes, every
class and layout, and a probe at any moment: `TypeCorrect`, `AlwaysReportMatches` and
`AlwaysTracksFingers` (`Spec => TracksFingers`, an action property). `CountInv` says when
a frame is over: the contacts still to come fill whole packets (`Packets`), and the
number expected is reached in the last packet (`CountFirst`), or the frame is one
packet and any count is reached at its end (`CountLast`), so a frame seen from its
start is reported once, at its end (`Counted`), and its contacts have the right
number (`Numbered`). `Tracked` says where the fingers are: slots in use have
different contacts of this frame, those seen have none that is still to come
(`Settled`), the input layer has of a slot what the slot was given (`Reported`), and
every finger was seen or is still to come if the frame has no more contacts than
there are slots (`Found`). The last needs that a free slot exists for a new contact:
the slots in use have different contacts of the frame, fewer than there are slots.

Only model-checked:

* liveness under fairness (`CommandsReturn`, `HangupReported`, `Reopens`,
  `SimReported`, `LoopReturns`, `SyncReturns`, `Delivered`, `CallsProceed`, the fairness
  half of `FollowsCable`): out of the reach of TLAPS here;
* `CompletedOnce`, `ResponsesOwned`, `ModemTracked` and `TypeOK` of `RilRequests`: its
  about 90 functions are data, programs of nested lists (some built by recursion
  over the number of retries) that a machine runs. An invariant would have to name
  every list that is left to execute, and what holds there, for each of them; TLC
  does exactly that when it enumerates them.

## Disagreements between code and comments

Behaviours of the code that a comment excludes or that cannot be meant. The
models contain all of them; where a property would be violated it excepts them.

* `at_handshake()` pauses "to let the input buffer drain any unmatched OK's"
  (`reference-ril/atchannel.c:1027`), but with `s_commandmutex` held, which
  handling a line needs: nothing is drained, and a late OK completes the next
  command. `AnswerLag` bounds the damage.
* `sp_response` and its companions "are protected by s_commandmutex" (`:77-80`),
  but `at_open()` resets them without it (`:679`). A command that the close has
  woken and that has not yet run then reads through `NULL`.
* `at_handshake()` of `altair-ril` does not take `s_at_cmd_g_mutex` (`:968`), so
  an attempt that meets the pending command of the socket thread frees that
  command's response in its error path.
* `readline()`: the cursor "will always be <= p_read" (`:425`), but after the
  prompt it is `p_read + 1`, on bytes of an earlier read or one past the buffer.
  `CursorInData` and `Framed` hold up to the first prompt.
* `setRadioState()`: "onSimReady() and onRadioPowerOn() cannot be called from the
  AT reader thread" and "Currently, this doesn't happen" (`reference-ril.c:3770`).
  It does: a reader that set OFF reads `sState` again after the event loop has
  set ON.
* `mainLoop()` retries an open that fails for ever, but returns when `tcsetattr()`
  (`reference-ril.c:4798`) or `at_open()` (`:4806`) fails: nothing is opened again.
  `at_open()` has then set `s_readerClosed = 0` already, and compares the result of
  `pthread_create()`, a positive error number, with `< 0`: a channel without a
  reader counts as open, and the first command without a timeout waits for ever.
  `Reopens`, `SimReported` and `LoopReturns` except these.
* `pollSIMState()` of `altair-ril` returns unless the state is `SIM_NOT_READY`,
  which is never set (`altair-ril.c:3232`, `:3522`): the SIM is never reported
  and `onSIMReady()` is dead.
* Requests completed twice: `SMS_ACKNOWLEDGE` of both RILs and
  `CDMA_SMS_ACKNOWLEDGE` fall through from success into the error label;
  `SIGNAL_STRENGTH` of the reference RIL reports a failure and then jumps there.
* Responses used that are not there: `REGISTRATION_STATE` and `OPERATOR` of
  `altair-ril` after a refusal, its `RADIO_POWER` after the last retransmission
  (the response is already freed); `initializeCallback`, `ENTER_SIM_PIN` and
  `SIGNAL_STRENGTH` of the reference RIL after a failed command. The handlers
  that leak a response are listed in `RilRequests` (`Leaky`, `LeakyOnError`).
* `requestDeactivateDataCall()` of `altair-ril` means to search a table and to fail
  when "can not find cid" (`altair-ril.c:4568-4574`), but a comma drops the bound of
  the search: an unknown cid is looked for beyond the table until a word equals it
  or the process dies, and the error is never reached. `CompletedOnce` has this
  handler in its exceptions (`Overrun`), for the death of the process only.
* `requestOrSendDataCallList()` of `altair-ril` looks up the cid of an answer with the
  index of its outer loop (`altair-ril.c:631`, `:673`), among entries that it has not
  filled in yet: an answer for another PDN makes it ask again or skip PDNs, and one
  that always answers so keeps it asking for ever. It writes the length of the
  prefix through `NULL` when an address has no mask (`:769`).
* `processLine()` hands a second line of a SINGLELINE command to the unsolicited
  handler because "we already have an intermediate response"
  (`reference-ril/atchannel.c:282`). The first one may be unsolicited: a `+CREG:` that
  comes while `AT+CREG?` is pending is taken for its answer, and the answer is
  passed on as unsolicited. `CompleteResponse` says so (`Mistaken`).
* A network search of `altair-ril` that fails leaves the modem detached.
* A `+CMTI` that arrives before the callback of the last one has read the globals
  makes it read the new message twice, or none, or as the wrong kind.
* "handle the case of read sms" (`reference-ril/atchannel.c:290`): after the `+CMGR:`
  header every line is taken for the pdu, and until the event loop has taken the
  response. A `+CMTI` there is not handled, so its message is never read; if
  it comes before the pdu it is itself reported as the message, and the message is
  deleted. `AT+CMGD` is sent (`reference-ril.c:560`) when there was no pdu line, too.
* "We must stop the poll after a valid target found" (`pn533.c:1494`) and the
  division by `poll_mod_count` (`:1438`): with a listen timer that is armed or
  running, or a `stop_poll()` that overlaps a completion, the loop goes on after
  the target or divides by zero. The error of a poll command does not delete the
  timer. `pn533_target_found()` takes the index in the list for the modulation,
  so a list without type A is parsed wrongly.
* `pn544_open()`: "Only 1 at a time." (`pn544.c:596`). A mode switch that cannot
  switch on again leaves a file open on a COLD driver: a second open succeeds,
  and the two closes disable the regulators twice.
* The suspend event disables the clocks if the screen is on and the resume event
  enables them if it is on then (`mxc_hdmi.c:2371-2390`): a blank or unblank event
  between the two leaves them enabled once too often or too seldom, for good.
  `ClocksBalanced` says that each such resume costs at most one.
* `mxc_hdmi_notify_fb()`: "by the end of this function, mxc_hdmi_setup() will be
  done" (`mxc_hdmi.c:1778`) does not hold when the new mode is VGA itself: the
  switch goes through VGA, and the second mode change event finds the mode
  unchanged and skips the setup.
* `hid-multitouch.c`: with the contact count behind the contacts and several
  packets per frame the count of the last frame decides when a frame is over
  (`Aligned`); a panel of the contact-number class whose first frame was cut by
  the probe stays shifted by it (`Shifted`).

## Not modelled, and known limits

* Public commands pass a timeout of 0, so `onATTimeout()` is unreachable and is
  not modelled; memory, logging and the wording of commands are abstracted.
* `RadioStateAgrees` excepts a modem that switches off by itself: its
  `+CFUN: 0` may be handled before the event loop sets an ON it had read, or
  after it sets a later one, and the state then stays wrong.
* A reader that is late with `setRadioState(UNAVAILABLE)` can make a reopened
  and initialized radio unavailable; the model contains that behaviour.
* `readline()` can ditch a line shorter than its buffer when skipped newlines
  fill the rest, and joins the unfinished line of a closed stream to the next
  stream; both behaviours are in the model.
* In `pn533.c` a completion between the submission of the URBs and the
  assignment of `dev->cmd` reads through `NULL` (`oops`); a queued command that
  cannot be sent is dropped and the queue stays stuck (`stalled`), so that a
  synchronous caller waits for ever; a chunk request that cannot be sent drops
  the exchange and leaves its chunks to the next one (`lost`); a deactivation in
  the middle of a chain shortens the response (`purged`). The model contains all
  four, and the properties except exactly the states after them.
* `Pn533Poll` leaves out the ACR122U, on which an abort does nothing, and a poll
  with an empty list of protocols, and takes a session as target as one step.
* `Hdmi` leaves out the error paths of `mxc_hdmi_disp_init()` and a framebuffer
  that is registered again.
* `Multitouch` takes each usage as a field of its own, sends no frame without a
  contact, and is checked for two slots: three are out of TLC's reach here, and
  the proofs cover them.
* `RilRequests` leaves out the CDMA handlers of `altair-ril`, which its LTE modem
  never selects. Of the accesses to memory other than responses it has the two that
  its disagreements name; buffers that parsers fill are not followed.
* The ppp monitor and the AT socket loop talk to programs that are not in the
  repository and forward what they get; the socket thread is in `ATChannel` as a
  second caller.
* The pure parsers (`at_tok.c`, `fcp_parser.c`, `SMS3GPP2.c`, `mxc_edid.c`) have no
  state. Their callers are modelled by whether parsing succeeds.
* `PowerUI.java`, `power.cpp`, scripts, configuration and assets: a receiver on
  one thread driven by a framework outside the repository, two writes to sysfs,
  and data.

## Plan

What is modelled is the behaviour that the repository's own code has. Every
invariant and action property that a run checks is also proved, except those of
`RilRequests`, and so is the safety half of the refinement; liveness stays with
TLC. Left are:

1. `RilRequests`: its three invariants, if the provers learn to evaluate the
   handlers.
2. `ATChannel` with a reopening while the threads that the close has woken still
   run: what is left of `WaiterOwnsResponse` then.
