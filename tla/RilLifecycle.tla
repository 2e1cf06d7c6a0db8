---------------------------- MODULE RilLifecycle ----------------------------
(***************************************************************************)
(* The life of a RIL around its AT channel (reference-ril.c, and           *)
(* altair-ril.c through the constant Altair): mainLoop opens the channel   *)
(* and reopens it after a close, the RIL event loop runs requests and      *)
(* timed callbacks one at a time, and the channel's reader threads handle  *)
(* unsolicited lines and the close.  All of them call setRadioState().     *)
(*                                                                         *)
(* The channel is abstracted to what ATChannel shows of it: a command is   *)
(* answered or fails while the channel is open, and fails with             *)
(* AT_ERROR_CHANNEL_CLOSED once the reader has seen the end of the device. *)
(* mainLoop returns for good, or leaves a channel without a reader, when   *)
(* the line cannot be configured or at_open() cannot create its threads.   *)
(***************************************************************************)
EXTENDS Naturals, FiniteSets

CONSTANTS
  Altair,       \* the pollSIMState() and requestRadioPower() of altair-ril.c
  MaxSessions,  \* bound: calls of at_open
  MaxRequests,  \* bound: requests of the framework
  MaxOffs       \* bound: unsolicited "+CFUN: 0" lines

ASSUME LifecycleAssumption ==
  /\ Altair \in BOOLEAN
  /\ MaxSessions \in Nat \ {0}
  /\ MaxRequests \in Nat
  /\ MaxOffs \in Nat

VARIABLES
  sState,       \* the radio state
  s_closed,
  session,      \* number of the last session; its reader is s_tid_reader
  chan,         \* the session whose channel takes commands, 0 for none
  hung,         \* the device of the last session is gone
  main,         \* control point of mainLoop
  pc,           \* control points of the event loop (0) and of the readers
  frame,        \* their setRadioState() or pollSIMState() activation
  req,          \* the request the event loop works on
  inits,        \* timed callbacks of initializeCallback not yet run
  polls,        \* timed callbacks of pollSIMState not yet run
  cmdmutex,     \* reader that holds s_commandmutex during onUnsolicited
  radioOn,      \* the modem's radio
  offs,         \* "+CFUN: 0" lines not yet read
  requests,     \* history: number of requests
  offsSent,     \* history: number of "+CFUN: 0" lines
  reported,     \* history: SIM_STATUS_CHANGED was sent since the radio is on
  blind         \* history: the last isRadioOn() failed

modemVars == <<hung, radioOn, offs, offsSent>>
stateVars == <<sState, s_closed>>
history == <<requests, reported, blind>>
vars == <<stateVars, session, chan, main, pc, frame, req, inits, polls,
          cmdmutex, modemVars, history>>

Loop == 0
Readers == 1 .. MaxSessions
Threads == {Loop} \cup Readers
RadioStates == {"UNAVAILABLE", "OFF", "ON"}

\* where the event loop and the readers begin
First(t) == IF t = Loop THEN "idle" ELSE "none"

\* at_open() could not create the reader of the last session
NoReader == session # 0 /\ pc[session] = "none"

Init ==
  /\ sState = "UNAVAILABLE" /\ s_closed = FALSE
  /\ session = 0 /\ chan = 0 /\ hung = FALSE
  /\ main = "open"
  /\ pc = [t \in Threads |-> First(t)]
  /\ frame = [t \in Threads |-> [new |-> "UNAVAILABLE", old |-> "UNAVAILABLE",
                                 then |-> First(t)]]
  /\ req = "none"
  /\ inits = 0 /\ polls = 0
  /\ cmdmutex = 0
  /\ radioOn \in BOOLEAN
  /\ offs = 0
  /\ requests = 0 /\ offsSent = 0
  /\ reported = FALSE /\ blind = FALSE

Goto(t, p) == pc' = [pc EXCEPT ![t] = p]

\* thread t calls setRadioState(new) and continues at p afterwards
CallSetRadioState(t, new, p) ==
  /\ Goto(t, "set")
  /\ frame' = [frame EXCEPT ![t] = [new |-> new, old |-> sState, then |-> p]]
-----------------------------------------------------------------------------
(* setRadioState                                                           *)

\* mutant: the state is set although the channel is closed
SetRadioStateUnchecked(t) ==
  /\ pc[t] = "set"
  /\ frame' = [frame EXCEPT ![t].old = sState]
  /\ sState' = frame[t].new
  /\ main' = IF (sState # frame[t].new \/ s_closed) /\ main = "wait"
             THEN "test" ELSE main
  /\ reported' = (reported /\ ~(sState # "ON" /\ frame[t].new = "ON"))
  /\ Goto(t, "after")
  /\ UNCHANGED <<s_closed, session, chan, req, inits, polls, cmdmutex,
                 modemVars, requests, blind>>

\* mutant: the broadcast is only sent when the state changes
SetRadioStateQuiet(t) ==
  LET new == IF s_closed THEN "UNAVAILABLE" ELSE frame[t].new
  IN /\ pc[t] = "set"
     /\ frame' = [frame EXCEPT ![t].old = sState]
     /\ sState' = new
     /\ main' = IF sState # new /\ main = "wait" THEN "test" ELSE main
     /\ reported' = (reported /\ ~(sState # "ON" /\ new = "ON"))
     /\ Goto(t, "after")
     /\ UNCHANGED <<s_closed, session, chan, req, inits, polls, cmdmutex,
                    modemVars, requests, blind>>

\* The part under s_state_mutex; a broadcast wakes mainLoop.
SetRadioState(t) ==
  LET new == IF s_closed THEN "UNAVAILABLE" ELSE frame[t].new
      changed == sState # new \/ s_closed
  IN /\ pc[t] = "set"
     /\ frame' = [frame EXCEPT ![t].old = sState]
     /\ sState' = new
     /\ main' = IF changed /\ main = "wait" THEN "test" ELSE main
     /\ reported' = (reported /\ ~(sState # "ON" /\ new = "ON"))
     /\ Goto(t, "after")
     /\ UNCHANGED <<s_closed, session, chan, req, inits, polls, cmdmutex,
                    modemVars, requests, blind>>

\* "do these outside of the mutex": sState is read again.
AfterSet(t) ==
  /\ pc[t] = "after"
  /\ Goto(t, IF sState # frame[t].old THEN "notify" ELSE frame[t].then)
  /\ UNCHANGED <<stateVars, session, chan, main, frame, req, inits, polls,
                 cmdmutex, modemVars, history>>

\* RADIO_STATE_CHANGED has been sent; sState is read once more, and
\* onRadioPowerOn() is called.
AfterNotify(t) ==
  /\ pc[t] = "notify"
  /\ Goto(t, IF sState = "ON" THEN "poll" ELSE frame[t].then)
  /\ UNCHANGED <<stateVars, session, chan, main, frame, req, inits, polls,
                 cmdmutex, modemVars, history>>
-----------------------------------------------------------------------------
(* pollSIMState                                                            *)

\* RADIO_STATE_SIM_NOT_READY and RADIO_STATE_SIM_LOCKED_OR_ABSENT, which
\* the code also names, are never given to setRadioState().
PollStates == IF Altair THEN {"SIM_NOT_READY"}
              ELSE {"ON", "SIM_LOCKED_OR_ABSENT"}

PollTest(t) ==
  /\ pc[t] = "poll"
  /\ Goto(t, IF sState \in PollStates THEN "cpin" ELSE frame[t].then)
  /\ UNCHANGED <<stateVars, session, chan, main, frame, req, inits, polls,
                 cmdmutex, modemVars, history>>

\* A command of thread t comes back: "invalid" for the thread that
\* s_tid_reader names (any, when it was never set), "closed", the modem's
\* "ok" or "error", or "error" when the write fails.  Without a reader nobody
\* takes the answer, and the command waits for ever.
Command(t, r) ==
  \/ /\ t \in Readers /\ (t = session \/ NoReader)
     /\ r = "invalid"
  \/ /\ ~(t \in Readers /\ t = session)
     /\ cmdmutex = 0
     /\ \/ chan = 0 /\ r = "closed"
        \/ chan # 0 /\ hung /\ r = "error"
        \/ chan # 0 /\ ~hung /\ ~NoReader /\ r \in {"ok", "error"}

\* getSIMStatus(): AT+CPIN? is only sent while the radio is on, and only an
\* answer of the modem can say more than SIM_NOT_READY.
GetSIMStatus(t, sim) ==
  \/ sState # "ON" /\ sim = "NOT_READY"
  \/ /\ sState = "ON"
     /\ \E r \in {"ok", "error", "closed", "invalid"} :
          /\ Command(t, r)
          /\ r # "ok" => sim \in {"NOT_READY"} \cup
                                 (IF r = "error" THEN {"ABSENT"} ELSE {})

\* mutant: a SIM that is not ready is not polled again
PollCpinOnce(t, sim) ==
  /\ pc[t] = "cpin"
  /\ GetSIMStatus(t, sim)
  /\ reported' = (sim # "NOT_READY" \/ reported)
  /\ Goto(t, frame[t].then)
  /\ UNCHANGED <<stateVars, session, chan, main, frame, req, inits, polls,
                 cmdmutex, modemVars, requests, blind>>

\* What pollSIMState() makes of the SIM's status.  When the SIM is ready
\* onSIMReady() sends its commands and ignores their results.
PollCpin(t, sim) ==
  /\ pc[t] = "cpin"
  /\ GetSIMStatus(t, sim)
  /\ IF sim = "NOT_READY"
     THEN polls' = polls + 1 /\ UNCHANGED reported
     ELSE reported' = TRUE /\ UNCHANGED polls
  /\ Goto(t, frame[t].then)
  /\ UNCHANGED <<stateVars, session, chan, main, frame, req, inits, cmdmutex,
                 modemVars, requests, blind>>
-----------------------------------------------------------------------------
(* The event loop                                                          *)

\* the event loop dispatches initializeCallback()
LoopInit ==
  /\ pc[Loop] = "idle"
  /\ inits > 0
  /\ inits' = inits - 1
  /\ CallSetRadioState(Loop, "OFF", "initcmds")
  /\ UNCHANGED <<stateVars, session, chan, main, req, polls, cmdmutex,
                 modemVars, history>>

\* mutant: -1, the error, is taken for true
IsRadioOnOrError(r) == r # "ok" \/ radioOn

\* isRadioOn(): "assume radio is off on error"
IsRadioOn(r) == r = "ok" /\ radioOn

\* The rest of initializeCallback(): the configuration commands, whose
\* errors are ignored, and isRadioOn().
InitCommands ==
  /\ pc[Loop] = "initcmds"
  /\ \E r \in {"ok", "error", "closed"} :
       /\ Command(Loop, r)
       /\ blind' = (r # "ok")
       /\ IF IsRadioOn(r)
          THEN CallSetRadioState(Loop, "ON", "idle")
          ELSE Goto(Loop, "idle") /\ UNCHANGED frame
  /\ UNCHANGED <<stateVars, session, chan, main, req, inits, polls, cmdmutex,
                 modemVars, requests, reported>>

LoopPoll ==
  /\ pc[Loop] = "idle"
  /\ polls > 0
  /\ polls' = polls - 1
  /\ Goto(Loop, "poll")
  /\ frame' = [frame EXCEPT ![Loop].then = "idle"]
  /\ UNCHANGED <<stateVars, session, chan, main, req, inits, cmdmutex,
                 modemVars, history>>

\* onRequest(): RADIO_POWER on and off, GET_SIM_STATUS, any other request.
\* A request that is refused is completed at once.
Refused(q) ==
  \/ sState = "UNAVAILABLE" /\ q # "sim"
  \/ sState = "OFF" /\ q = "other"

OnRequest(q) ==
  /\ pc[Loop] = "idle"
  /\ requests < MaxRequests
  /\ requests' = requests + 1
  /\ req' = IF Refused(q) THEN "none" ELSE q
  /\ Goto(Loop, CASE Refused(q) -> "idle"
                  [] ~Refused(q) /\ q \in {"on", "off"} -> "power"
                  [] OTHER -> "request")
  /\ UNCHANGED <<stateVars, session, chan, main, frame, inits, polls,
                 cmdmutex, modemVars, reported, blind>>

\* The request is completed by RIL_onRequestComplete().
Complete ==
  /\ Goto(Loop, "idle")
  /\ req' = "none"

SimStatuses == {"READY", "NOT_READY", "ABSENT"}

\* GET_SIM_STATUS, which asks getSIMStatus(), or another request that sends
\* a command
Request ==
  /\ pc[Loop] = "request"
  /\ \/ req = "sim" /\ \E sim \in SimStatuses : GetSIMStatus(Loop, sim)
     \/ req = "other" /\ \E r \in {"ok", "error", "closed"} : Command(Loop, r)
  /\ Complete
  /\ UNCHANGED <<stateVars, session, chan, main, frame, inits, polls,
                 cmdmutex, modemVars, history>>

PowerOnStates == IF Altair THEN {"OFF", "UNAVAILABLE"} ELSE {"OFF"}

\* requestRadioPower() reads sState and sends AT+CFUN, or has nothing to do.
PowerTest ==
  /\ pc[Loop] = "power"
  /\ \/ /\ \/ req = "off" /\ sState # "OFF"
           \/ req = "on" /\ sState \in PowerOnStates
        /\ Goto(Loop, "cfun")
        /\ UNCHANGED req
     \/ /\ ~(req = "off" /\ sState # "OFF")
        /\ ~(req = "on" /\ sState \in PowerOnStates)
        /\ Complete
  /\ UNCHANGED <<stateVars, session, chan, main, frame, inits, polls,
                 cmdmutex, modemVars, history>>

\* mutant: the error path returns without completing the request
PowerOffDropped ==
  /\ pc[Loop] = "cfun" /\ req = "off"
  /\ \E r \in {"ok", "error", "closed"} :
       /\ Command(Loop, r)
       /\ radioOn' = (radioOn /\ r # "ok")
       /\ IF r = "ok"
          THEN /\ CallSetRadioState(Loop, "OFF", "idle")
               /\ blind' = FALSE
               /\ req' = "none"
          ELSE Goto(Loop, "idle") /\ UNCHANGED <<frame, blind, req>>
  /\ UNCHANGED <<stateVars, session, chan, main, inits, polls, cmdmutex,
                 hung, offs, offsSent, requests, reported>>

\* AT+CFUN=0.  A command cut off by the close may have been executed.
PowerOff ==
  /\ pc[Loop] = "cfun" /\ req = "off"
  /\ \E r \in {"ok", "error", "closed"} :
       /\ Command(Loop, r)
       /\ \/ r = "ok" /\ radioOn' = FALSE
          \/ r = "error" /\ UNCHANGED radioOn
          \/ r = "closed" /\ radioOn' \in {radioOn, FALSE}
       /\ IF r = "ok"
          THEN /\ CallSetRadioState(Loop, "OFF", "idle")
               /\ blind' = FALSE
               /\ req' = "none"
          ELSE Complete /\ UNCHANGED <<frame, blind>>
  /\ UNCHANGED <<stateVars, session, chan, main, inits, polls, cmdmutex,
                 hung, offs, offsSent, requests, reported>>

\* AT+CFUN=1.  "Some stacks return an error when there is no SIM, but they
\* really turn the RF portion on."
PowerOn ==
  /\ pc[Loop] = "cfun" /\ req = "on"
  /\ \E r \in {"ok", "error", "closed"} :
       /\ Command(Loop, r)
       /\ IF r = "ok"
          THEN /\ radioOn' = TRUE
               /\ CallSetRadioState(Loop, "ON", "idle")
               /\ blind' = FALSE
               /\ req' = "none"
          ELSE /\ radioOn' \in {radioOn, TRUE}
               /\ Goto(Loop, "query")
               /\ UNCHANGED <<frame, blind, req>>
  /\ UNCHANGED <<stateVars, session, chan, main, inits, polls, cmdmutex,
                 hung, offs, offsSent, requests, reported>>

\* isRadioOn() after a failed AT+CFUN=1
PowerQuery ==
  /\ pc[Loop] = "query"
  /\ \E r \in {"ok", "error", "closed"} :
       /\ Command(Loop, r)
       /\ blind' = (r # "ok")
       /\ IF IsRadioOn(r)
          THEN CallSetRadioState(Loop, "ON", "idle") /\ req' = "none"
          ELSE Complete /\ UNCHANGED frame
  /\ UNCHANGED <<stateVars, session, chan, main, inits, polls, cmdmutex,
                 modemVars, requests, reported>>
-----------------------------------------------------------------------------
(* The readers                                                             *)

\* onUnsolicited("+CFUN: 0") is called with s_commandmutex held.
ReadCfunOff(s) ==
  /\ pc[s] = "read" /\ s = session
  /\ offs > 0
  /\ offs' = offs - 1
  /\ IF sState = "UNAVAILABLE"
     THEN UNCHANGED <<pc, frame, cmdmutex>>
     ELSE /\ CallSetRadioState(s, "OFF", "unlock")
          /\ cmdmutex' = s
  /\ UNCHANGED <<stateVars, session, chan, main, req, inits, polls, hung,
                 radioOn, offsSent, history>>

Unlock(s) ==
  /\ pc[s] = "unlock"
  /\ cmdmutex' = 0
  /\ Goto(s, "read")
  /\ UNCHANGED <<stateVars, session, chan, main, frame, req, inits, polls,
                 modemVars, history>>

\* mutant: the close is not seen by the pending command
ReaderClosedSilently(s) ==
  /\ pc[s] = "read" /\ s = session
  /\ hung /\ offs = 0
  /\ Goto(s, "closed")
  /\ UNCHANGED <<stateVars, session, chan, main, frame, req, inits, polls,
                 cmdmutex, modemVars, history>>

\* The end of the device: onReaderClosed() fails the pending command, and
\* onATReaderClosed() calls at_close().
ReaderClosed(s) ==
  /\ pc[s] = "read" /\ s = session
  /\ hung /\ offs = 0
  /\ chan' = 0
  /\ Goto(s, "closed")
  /\ UNCHANGED <<stateVars, session, main, frame, req, inits, polls,
                 cmdmutex, modemVars, history>>

\* s_closed = 1, without s_state_mutex, before setRadioState()
SetClosed(s) ==
  /\ pc[s] = "closed"
  /\ s_closed' = TRUE
  /\ CallSetRadioState(s, "UNAVAILABLE", "dead")
  /\ UNCHANGED <<sState, session, chan, main, req, inits, polls, cmdmutex,
                 modemVars, history>>
-----------------------------------------------------------------------------
(* mainLoop                                                                *)

\* The device is open: s_closed = 0.  reference-ril.c sets up the serial line
\* of a modem it knows before that, and returns when tcsetattr() fails.
MainOpen ==
  /\ main = "open"
  /\ session < MaxSessions
  /\ \/ s_closed' = FALSE /\ main' = "atopen"
     \/ ~Altair /\ main' = "ended" /\ UNCHANGED s_closed
  /\ UNCHANGED <<sState, session, chan, pc, frame, req, inits, polls,
                 cmdmutex, modemVars, history>>

\* at_open() opens the channel and creates the reader, and in reference-ril
\* the thread of pppcheckLoop().  A failure of pthread_create() is only seen
\* when it is negative: mainLoop then returns, and the channel stays open.
MainAtOpen ==
  /\ main = "atopen"
  /\ session' = session + 1
  /\ chan' = session + 1
  /\ hung' = FALSE
  /\ \/ Goto(session + 1, "read") /\ main' = "request"
     \/ Goto(session + 1, "read") /\ ~Altair /\ main' = "ended"
     \/ UNCHANGED pc /\ main' \in {"request", "ended"}
  /\ UNCHANGED <<stateVars, frame, req, inits, polls, cmdmutex, radioOn, offs,
                 offsSent, history>>

\* RIL_requestTimedCallback(initializeCallback), then sleep(1)
MainRequest ==
  /\ main = "request"
  /\ inits' = inits + 1
  /\ main' = "test"
  /\ UNCHANGED <<stateVars, session, chan, pc, frame, req, polls, cmdmutex,
                 modemVars, history>>

\* waitForClose()
MainTest ==
  /\ main = "test"
  /\ main' = IF s_closed THEN "open" ELSE "wait"
  /\ UNCHANGED <<stateVars, session, chan, pc, frame, req, inits, polls,
                 cmdmutex, modemVars, history>>
-----------------------------------------------------------------------------
(* The modem (external)                                                    *)

Hangup ==
  /\ chan # 0 /\ ~hung
  /\ hung' = TRUE
  /\ UNCHANGED <<stateVars, session, chan, main, pc, frame, req, inits, polls,
                 cmdmutex, radioOn, offs, offsSent, history>>

RadioGoesOff ==
  /\ chan # 0 /\ ~hung
  /\ offsSent < MaxOffs
  /\ radioOn
  /\ radioOn' = FALSE
  /\ offs' = offs + 1
  /\ offsSent' = offsSent + 1
  /\ UNCHANGED <<stateVars, session, chan, hung, main, pc, frame, req, inits,
                 polls, cmdmutex, history>>
-----------------------------------------------------------------------------
ThreadStep(t) ==
  \/ SetRadioState(t)
  \/ AfterSet(t)
  \/ AfterNotify(t)
  \/ PollTest(t)
  \/ \E sim \in SimStatuses : PollCpin(t, sim)

LoopStep ==
  LoopInit \/ InitCommands \/ LoopPoll \/ Request \/ PowerTest \/ PowerOff
  \/ PowerOn \/ PowerQuery

ReaderStep(s) ==
  ReadCfunOff(s) \/ Unlock(s) \/ ReaderClosed(s) \/ SetClosed(s)

MainStep == MainOpen \/ MainAtOpen \/ MainRequest \/ MainTest

Next ==
  \/ \E t \in Threads : ThreadStep(t)
  \/ LoopStep
  \/ \E q \in {"on", "off", "sim", "other"} : OnRequest(q)
  \/ \E s \in Readers : ReaderStep(s)
  \/ MainStep
  \/ Hangup
  \/ RadioGoesOff

Spec == Init /\ [][Next]_vars
-----------------------------------------------------------------------------
(* Properties                                                              *)

LoopPcs == {"idle", "initcmds", "power", "request", "cfun", "query"}
ReaderPcs == {"none", "read", "unlock", "closed", "dead"}
CallPcs == {"set", "after", "notify", "poll", "cpin"}

\* the control points of thread t outside setRadioState() and pollSIMState()
Own(t) == IF t = Loop THEN LoopPcs ELSE ReaderPcs

\* The request the event loop works on at each of its control points: it has
\* completed a request before it takes another, or runs a callback.
RequestAt(p) ==
  CASE p = "request" -> {"sim", "other"}
    [] p \in {"power", "cfun"} -> {"on", "off"}
    [] p = "query" -> {"on"}
    [] OTHER -> {"none"}

\* Type correctness: a thread is at a control point of its own or inside
\* setRadioState() and pollSIMState(), from which it returns to one of its
\* own, and no path of the event loop forgets to complete its request.
TypeOK ==
  /\ sState \in RadioStates
  /\ s_closed \in BOOLEAN
  /\ session \in 0 .. MaxSessions
  /\ chan \in {0, session}
  /\ hung \in BOOLEAN
  /\ main \in {"open", "atopen", "request", "test", "wait", "ended"}
  /\ pc \in [Threads -> LoopPcs \cup ReaderPcs \cup CallPcs]
  /\ frame \in [Threads -> [new : RadioStates, old : RadioStates,
                            then : LoopPcs \cup ReaderPcs]]
  /\ \A t \in Threads : /\ pc[t] \in Own(t) \cup CallPcs
                        /\ frame[t].then \in Own(t)
  /\ frame[Loop].then \in {"idle", "initcmds"}
  /\ req \in RequestAt(pc[Loop])
  /\ inits \in Nat
  /\ polls \in Nat
  /\ cmdmutex \in 0 .. MaxSessions
  /\ radioOn \in BOOLEAN
  /\ offs \in Nat
  /\ requests \in 0 .. MaxRequests
  /\ offsSent \in 0 .. MaxOffs
  /\ reported \in BOOLEAN
  /\ blind \in BOOLEAN

\* What the comment in setRadioState() is for: once the close is known the
\* radio is UNAVAILABLE, although the event loop may still be in the middle
\* of a call that turns it OFF or ON; only the reader that set s_closed may
\* be on its way to say so.
ClosedUnavailable ==
  s_closed => \/ sState = "UNAVAILABLE"
              \/ \E s \in Readers : pc[s] = "set" /\ frame[s].then = "dead"

Settled ==
  /\ chan # 0 /\ ~hung
  /\ main = "wait" /\ inits = 0
  /\ pc[Loop] = "idle"
  /\ \A s \in Readers : pc[s] # "set"
  /\ offs = 0

\* Between requests the radio state agrees with the modem: ON only when the
\* radio is on, and OFF only when it is off or the last isRadioOn() failed.
\* This is what the second look after a failed AT+CFUN=1 is for.  A modem
\* that switched off by itself is excepted: its "+CFUN: 0" may be handled
\* before the event loop sets an earlier ON, or after it sets a later one.
RadioStateAgrees ==
  Settled /\ offsSent = 0 => /\ sState = "ON" => radioOn
                             /\ sState = "OFF" /\ ~blind => ~radioOn

\* The device is gone and the reader has not seen it: a command that was
\* written before still waits.
Gone == hung /\ chan # 0

\* Every thread runs, but a command need not come back while the device is
\* gone.  A device that answers at all answers "OK" and "READY" again and
\* again.
Fairness ==
  /\ WF_vars(ThreadStep(Loop) /\ ~Gone)
  /\ WF_vars(LoopStep /\ ~Gone)
  /\ SF_vars(LoopInit) /\ SF_vars(LoopPoll)
  /\ SF_vars(PollCpin(Loop, "READY"))
  /\ \A s \in Readers : WF_vars(ThreadStep(s)) /\ WF_vars(ReaderStep(s))
  /\ WF_vars(MainStep)

FairSpec == Spec /\ Fairness

\* Every close is followed by a reopening: mainLoop does not miss the
\* broadcast of setRadioState(), even when the radio was UNAVAILABLE
\* already and its state does not change.  Only a mainLoop that has returned,
\* after a failed tcsetattr() or at_open(), reopens nothing.
Reopens ==
  \A s \in 1 .. (MaxSessions - 1) :
    pc[s] = "closed" ~> (session > s \/ main = "ended")

\* While the radio is ON the SIM is polled until its state is reported: the
\* chain of timed callbacks of pollSIMState() does not break off.  A device
\* that is gone, or has no reader, answers no AT+CPIN?.
SimReported == sState = "ON" ~> (reported \/ sState # "ON" \/ hung \/ NoReader)

\* A request or callback that waits for the modem ends, also when the
\* device goes away.  It waits for ever when at_open() could not create the
\* reader: s_readerClosed is 0 and nobody will set it.
LoopReturns == pc[Loop] # "idle" ~> (pc[Loop] = "idle" \/ NoReader)
=============================================================================
