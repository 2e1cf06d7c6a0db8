------------------------------ MODULE ATChannel ------------------------------
(***************************************************************************)
(* The AT command channel of the two RILs (reference-ril/atchannel.c and   *)
(* altair-ril/atchannel.c): threads that issue AT commands, the reader     *)
(* thread that matches the modem's lines to the pending command, the       *)
(* handshake with its timed attempts, and the closing of the channel.      *)
(*                                                                         *)
(* A critical section of s_commandmutex that neither waits nor sleeps is   *)
(* one action.  The mutex is held across steps only by at_handshake:       *)
(* between its attempts and while it sleeps after a good one.              *)
(***************************************************************************)
EXTENDS Naturals, Sequences, FiniteSets

CONSTANTS
  Callers,    \* the threads that issue commands
  Shaker,     \* the one of them that runs at_handshake (initializeCallback)
  GMutex,     \* at_send_command_full holds s_at_cmd_g_mutex (altair-ril only)
  Retries,    \* HANDSHAKE_RETRY_COUNT
  Apis,       \* the at_send_command_* functions in use
  UrcClasses, \* what an unsolicited text line of the modem may look like
  MaxCalls,   \* bound: calls of at_send_command_*
  MaxOpens,   \* bound: calls of at_open
  MaxShakes,  \* bound: calls of at_handshake
  MaxUrcs,    \* bound: unsolicited lines the modem sends
  MaxStrays,  \* bound: unsolicited NO CARRIER lines the modem sends
  MaxInter,   \* bound: intermediate lines of one multi-line answer
  None        \* NULL, no thread, -1

ASSUME ChannelAssumption ==
  /\ Shaker \in Callers
  /\ None \notin Callers
  /\ GMutex \in BOOLEAN
  /\ Retries \in Nat \ {0}
  /\ Apis \subseteq
       {"plain", "numeric", "singleline", "sms", "multiline", "cmgr"}
  /\ UrcClasses \subseteq {"digit", "prefix", "other"}
  /\ {MaxCalls, MaxOpens, MaxShakes, MaxUrcs, MaxStrays, MaxInter} \subseteq Nat

VARIABLES
  mutex,        \* holder of s_commandmutex between steps
  gmutex,       \* holder of s_at_cmd_g_mutex
  waiters,      \* threads blocked in pthread_cond_wait on s_commandcond
  pc,           \* control point of every caller
  api,          \* the at_send_command_* function a caller is in
  tries,        \* i of at_handshake
  result,       \* what a caller's last call returned
  fd,           \* s_fd: the number of the session, 0 for -1
  readerClosed, \* s_readerClosed
  response,     \* sp_response with s_type, s_responsePrefix and s_smsPDU
  reader,       \* control point of the reader thread
  line,         \* the line readline() returned to it
  rx, tx,       \* lines and commands in flight on the device
  modem,        \* the modem's progress on Head(tx)
  hungup,       \* the modem end of the device is gone
  bound,        \* history: counts for the bounds
  sent,         \* history: commands written
  slips,        \* history: events after which an answer may be left over
  emitted,      \* history: the intermediate lines the modem sent, per command
  pdus,         \* history: for every command, the prompts its PDU answered
  closeCalls    \* history: s_onReaderClosed() calls of this session

threadVars == <<mutex, gmutex, waiters, pc, api, tries, result>>
channelVars == <<fd, readerClosed, response>>
readerVars == <<reader, line>>
modemVars == <<rx, tx, modem, hungup>>
history == <<bound, sent, slips, emitted, pdus, closeCalls>>
vars == <<threadVars, channelVars, readerVars, modemVars, history>>
-----------------------------------------------------------------------------
(* Commands and lines.                                                     *)

\* at_send_command, _numeric, _singleline, _sms, _multiline, and
\* _multiline with the prefix "+CMGR:"
AllApis == {"plain", "numeric", "singleline", "sms", "multiline", "cmgr"}

\* the lines of the modem; "of" is the command it belongs to, 0 for none
LineKinds == {"OK", "ERROR", "PROMPT", "TEXT", "SMS", "PDU"}
Classes == {"digit", "prefix", "other"}
Lines == [k : LineKinds, cls : Classes, of : Nat]
Text(c, n) == [k |-> "TEXT", cls |-> c, of |-> n]
Word(k, n) == [k |-> k, cls |-> "other", of |-> n]

isFinalResponseSuccess(l) == l.k = "OK"
isFinalResponseError(l) == l.k = "ERROR"
isSMSUnsolicited(l) == l.k = "SMS"

\* at_response_new() with the fields of the pending command
NewResponse(c, a, n) ==
  [owner |-> c, type |-> a, cmd |-> n, smsPDU |-> a = "sms",
   finalResponse |-> None, intermediates |-> <<>>]

Errors == {"ok", "generic", "pending", "closed", "timeout", "invalid"}
Result(e, n, a, f, i) ==
  [err |-> e, cmd |-> n, type |-> a, final |-> f, inter |-> i]

\* a call without an answer
Failed(e) == Result(e, 0, "plain", None, <<>>)

Counts == [opens |-> 0, calls |-> 0, shakes |-> 0, urcs |-> 0, strays |-> 0]
IdleModem == [inter |-> 0, prompt |-> "none"]

Init ==
  /\ mutex = None /\ gmutex = None /\ waiters = {}
  /\ pc = [c \in Callers |-> "idle"]
  /\ api = [c \in Callers |-> "plain"]
  /\ tries = 0
  /\ result = [c \in Callers |-> None]
  /\ fd = 0 /\ readerClosed = FALSE /\ response = None
  /\ reader = "dead" /\ line = None
  /\ rx = <<>> /\ tx = <<>> /\ modem = IdleModem /\ hungup = TRUE
  /\ bound = Counts
  /\ sent = 0 /\ slips = 0
  /\ emitted = <<>> /\ pdus = <<>>
  /\ closeCalls = 0

\* mutant: the signal is forgotten
SignalNobody == UNCHANGED waiters

\* pthread_cond_signal: one of the waiting threads, if there is one, is
\* woken; it still has to take the mutex
Signal ==
  IF waiters = {} THEN UNCHANGED waiters
  ELSE \E w \in waiters : waiters' = waiters \ {w}
-----------------------------------------------------------------------------
(* at_send_command_full                                                    *)

\* A thread calls one of the at_send_command_* functions.
Call(c, a) ==
  /\ pc[c] = "idle"
  /\ bound.calls < MaxCalls
  /\ bound' = [bound EXCEPT !.calls = @ + 1]
  /\ pc' = [pc EXCEPT ![c] = IF GMutex THEN "lockg" ELSE "lock"]
  /\ api' = [api EXCEPT ![c] = a]
  /\ UNCHANGED <<mutex, gmutex, waiters, tries, result, channelVars,
                 readerVars, modemVars, sent, slips, emitted, pdus,
                 closeCalls>>

\* mutant: s_at_cmd_g_mutex is not taken
LockGNot(c) ==
  /\ pc[c] = "lockg"
  /\ pc' = [pc EXCEPT ![c] = "lock"]
  /\ UNCHANGED <<mutex, gmutex, waiters, api, tries, result,
                 channelVars, readerVars, modemVars, history>>

\* at_send_command_full() of altair-ril takes s_at_cmd_g_mutex first.
LockG(c) ==
  /\ pc[c] = "lockg"
  /\ gmutex = None
  /\ gmutex' = c
  /\ pc' = [pc EXCEPT ![c] = "lock"]
  /\ UNCHANGED <<mutex, waiters, api, tries, result,
                 channelVars, readerVars, modemVars, history>>

\* The call returns to its caller: both mutexes are released.
Return(c, r) ==
  /\ pc' = [pc EXCEPT ![c] = "idle"]
  /\ result' = [result EXCEPT ![c] = r]
  /\ gmutex' = IF gmutex = c THEN None ELSE gmutex

\* writeline() refuses a closed channel, and a write to a device that hung
\* up may fail; w is its return value.
Writeline(w) ==
  CASE fd = 0 \/ readerClosed -> w = "closed"
    [] OTHER -> w = "ok" \/ (hungup /\ w = "generic")

\* the command is written and becomes the pending one
Post(c, a) ==
  /\ sent' = sent + 1
  /\ emitted' = Append(emitted, <<>>)
  /\ pdus' = Append(pdus, {})
  /\ tx' = IF hungup THEN tx ELSE Append(tx, [id |-> sent + 1, api |-> a])
  /\ response' = NewResponse(c, a, sent + 1)

\* Lock, write and wait.  A pending command of another thread makes this
\* one fail, and the error path clears the pending command.
Start(c) ==
  /\ pc[c] = "lock"
  /\ mutex = None
  /\ \/ /\ response # None
        /\ response' = None
        /\ Return(c, Failed("pending"))
        /\ UNCHANGED <<waiters, tx, sent, emitted, pdus>>
     \/ /\ response = None
        /\ \E w \in {"closed", "generic"} :
             Writeline(w) /\ Return(c, Failed(w))
        /\ UNCHANGED <<waiters, response, tx, sent, emitted, pdus>>
     \/ /\ response = None
        /\ Writeline("ok")
        /\ Post(c, api[c])
        /\ waiters' = waiters \cup {c}
        /\ pc' = [pc EXCEPT ![c] = "wait"]
        /\ UNCHANGED <<gmutex, result>>
  /\ UNCHANGED <<mutex, api, tries, fd, readerClosed, readerVars, rx, modem,
                 hungup, bound, slips, closeCalls>>

\* POSIX lets pthread_cond_wait return without a signal.
Spurious(c) ==
  /\ c \in waiters
  /\ waiters' = waiters \ {c}
  /\ UNCHANGED <<mutex, gmutex, pc, api, tries, result,
                 channelVars, readerVars, modemVars, history>>

\* at_send_command_singleline, _numeric and _sms turn a success without an
\* intermediate response into an error
NeedsIntermediate(a) == a \in {"numeric", "singleline", "sms"}
Outcome(r) ==
  CASE readerClosed ->
         Result("closed", r.cmd, r.type, r.finalResponse, r.intermediates)
    [] ~readerClosed /\ NeedsIntermediate(r.type)
       /\ isFinalResponseSuccess(r.finalResponse) /\ r.intermediates = <<>> ->
         Result("invalid", r.cmd, r.type, r.finalResponse, <<>>)
    [] OTHER ->
         Result("ok", r.cmd, r.type, r.finalResponse, r.intermediates)

\* mutant: the wait is not repeated after a wake-up without a signal
WakeOnce(c) ==
  /\ pc[c] = "wait"
  /\ c \notin waiters
  /\ mutex = None
  /\ response # None
  /\ Return(c, IF response.finalResponse = None
               THEN Result("generic", response.cmd, response.type, None, <<>>)
               ELSE Outcome(response))
  /\ response' = None
  /\ UNCHANGED <<mutex, waiters, api, tries, fd, readerClosed, readerVars,
                 modemVars, history>>

\* A woken thread holds the mutex again and tests its loop condition; it
\* reads through sp_response, which must not be NULL.
Wake(c) ==
  /\ pc[c] = "wait"
  /\ c \notin waiters
  /\ mutex = None
  /\ \/ /\ response = None
        /\ pc' = [pc EXCEPT ![c] = "crashed"]
        /\ UNCHANGED <<waiters, response, gmutex, result>>
     \/ /\ response # None
        /\ response.finalResponse = None /\ ~readerClosed
        /\ waiters' = waiters \cup {c}
        /\ UNCHANGED <<response, pc, gmutex, result>>
     \/ /\ response # None
        /\ response.finalResponse # None \/ readerClosed
        /\ Return(c, Outcome(response))
        /\ response' = None
        /\ UNCHANGED waiters
  /\ UNCHANGED <<mutex, api, tries, fd, readerClosed, readerVars, modemVars,
                 history>>
-----------------------------------------------------------------------------
(* at_handshake                                                            *)

Handshake ==
  /\ pc[Shaker] = "idle"
  /\ bound.shakes < MaxShakes
  /\ bound' = [bound EXCEPT !.shakes = @ + 1]
  /\ pc' = [pc EXCEPT ![Shaker] = "hslock"]
  /\ tries' = 0
  /\ UNCHANGED <<mutex, gmutex, waiters, api, result, channelVars,
                 readerVars, modemVars, sent, slips, emitted, pdus,
                 closeCalls>>

HsLock ==
  /\ pc[Shaker] = "hslock"
  /\ mutex = None
  /\ mutex' = Shaker
  /\ pc' = [pc EXCEPT ![Shaker] = "hstry"]
  /\ UNCHANGED <<gmutex, waiters, api, tries, result, channelVars,
                 readerVars, modemVars, history>>

\* An attempt failed with e: the loop goes on with the mutex held, or
\* at_handshake returns the error of its last attempt.
HsNext(e) ==
  /\ tries' = tries + 1
  /\ IF tries + 1 < Retries
     THEN /\ mutex' = Shaker
          /\ pc' = [pc EXCEPT ![Shaker] = "hstry"]
          /\ UNCHANGED result
     ELSE /\ mutex' = None
          /\ pc' = [pc EXCEPT ![Shaker] = "idle"]
          /\ result' = [result EXCEPT ![Shaker] = Failed(e)]

\* One attempt of the loop: "ATE0Q0V1" with a timeout.
HsTry ==
  /\ pc[Shaker] = "hstry"
  /\ \/ /\ response # None
        /\ response' = None
        /\ HsNext("pending")
        /\ UNCHANGED <<waiters, tx, sent, emitted, pdus>>
     \/ /\ response = None
        /\ \E w \in {"closed", "generic"} : Writeline(w) /\ HsNext(w)
        /\ UNCHANGED <<waiters, response, tx, sent, emitted, pdus>>
     \/ /\ response = None
        /\ Writeline("ok")
        /\ Post(Shaker, "plain")
        /\ waiters' = waiters \cup {Shaker}
        /\ pc' = [pc EXCEPT ![Shaker] = "hswait"]
        /\ mutex' = None
        /\ UNCHANGED <<tries, result>>
  /\ UNCHANGED <<gmutex, api, fd, readerClosed, readerVars, rx, modem,
                 hungup, bound, slips, closeCalls>>

\* The timed wait ends without a signal; the mutex has still to be taken.
HsExpire ==
  /\ pc[Shaker] = "hswait"
  /\ Shaker \in waiters
  /\ waiters' = waiters \ {Shaker}
  /\ pc' = [pc EXCEPT ![Shaker] = "hslate"]
  /\ UNCHANGED <<mutex, gmutex, api, tries, result, channelVars,
                 readerVars, modemVars, history>>

\* ETIMEDOUT: the attempt is given up, even if its answer came meanwhile.
HsTimeout ==
  /\ pc[Shaker] = "hslate"
  /\ mutex = None
  /\ slips' = IF response # None /\ response.finalResponse = None
              THEN slips + 1 ELSE slips
  /\ response' = None
  /\ HsNext("timeout")
  /\ UNCHANGED <<gmutex, waiters, api, fd, readerClosed, readerVars,
                 modemVars, bound, sent, emitted, pdus, closeCalls>>

\* The attempt was answered or the channel was closed.  After a good
\* attempt the thread sleeps with s_commandmutex held.
HsWake ==
  /\ pc[Shaker] = "hswait"
  /\ Shaker \notin waiters
  /\ mutex = None
  /\ \/ /\ response = None
        /\ pc' = [pc EXCEPT ![Shaker] = "crashed"]
        /\ UNCHANGED <<mutex, waiters, response, tries, result>>
     \/ /\ response # None
        /\ response.finalResponse = None /\ ~readerClosed
        /\ waiters' = waiters \cup {Shaker}
        /\ UNCHANGED <<mutex, pc, response, tries, result>>
     \/ /\ response # None
        /\ readerClosed
        /\ response' = None
        /\ HsNext("closed")
        /\ UNCHANGED waiters
     \/ /\ response # None
        /\ response.finalResponse # None /\ ~readerClosed
        /\ response' = None
        /\ mutex' = Shaker
        /\ pc' = [pc EXCEPT ![Shaker] = "hssleep"]
        /\ UNCHANGED <<waiters, tries, result>>
  /\ UNCHANGED <<gmutex, api, fd, readerClosed, readerVars, modemVars,
                 history>>

\* The pause holds the mutex that handling a line needs: it drains nothing.
HsSleepEnd ==
  /\ pc[Shaker] = "hssleep"
  /\ mutex' = None
  /\ pc' = [pc EXCEPT ![Shaker] = "idle"]
  /\ result' = [result EXCEPT ![Shaker] = Failed("ok")]
  /\ UNCHANGED <<gmutex, waiters, api, tries, channelVars, readerVars,
                 modemVars, history>>
-----------------------------------------------------------------------------
(* The reader thread                                                       *)

\* readline() returns a line; the first line of an unsolicited SMS is kept
\* until the second one is read.
ReadLine ==
  /\ reader = "read"
  /\ rx # <<>>
  /\ rx' = Tail(rx)
  /\ line' = Head(rx)
  /\ reader' = IF isSMSUnsolicited(Head(rx)) THEN "second" ELSE "process"
  /\ UNCHANGED <<threadVars, channelVars, tx, modem, hungup, history>>

\* The second line goes to s_unsolHandler with the first, without the mutex.
ReadSecond ==
  /\ reader = "second"
  /\ rx # <<>>
  /\ rx' = Tail(rx)
  /\ line' = None
  /\ reader' = "read"
  /\ UNCHANGED <<threadVars, channelVars, tx, modem, hungup, history>>

ReadEOF ==
  /\ reader \in {"read", "second"}
  /\ rx = <<>> /\ hungup
  /\ reader' = "eof"
  /\ line' = None
  /\ UNCHANGED <<threadVars, channelVars, modemVars, history>>

\* mutant: a multi-line answer is taken like a single-line one
IsFirstIntermediate(l, r) ==
  /\ r.type # "plain"
  /\ r.intermediates = <<>>
  /\ l.cls = (IF r.type = "numeric" THEN "digit" ELSE "prefix")

\* the lines the pending command takes as intermediate responses
IsIntermediate(l, r) ==
  CASE r.type = "plain" -> FALSE
    [] r.type = "numeric" -> r.intermediates = <<>> /\ l.cls = "digit"
    [] r.type \in {"singleline", "sms"} ->
         r.intermediates = <<>> /\ l.cls = "prefix"
    [] r.type = "multiline" -> l.cls = "prefix"
    [] r.type = "cmgr" -> l.cls = "prefix" \/ r.intermediates # <<>>

\* processLine(), from lock to unlock
ProcessLine ==
  /\ reader = "process"
  /\ mutex = None
  /\ reader' = "read"
  /\ line' = None
  /\ CASE response = None ->
            UNCHANGED <<response, waiters, modem, pdus>>
       [] response # None /\ (isFinalResponseSuccess(line)
                              \/ isFinalResponseError(line)) ->
            /\ response' = [response EXCEPT !.finalResponse = line]
            /\ Signal
            /\ UNCHANGED <<modem, pdus>>
       [] response # None /\ line.k = "PROMPT" /\ response.smsPDU ->
            /\ response' = [response EXCEPT !.smsPDU = FALSE]
            /\ IF Writeline("ok")
               THEN /\ pdus' = [pdus EXCEPT ![response.cmd] = @ \cup {line.of}]
                    /\ modem' = IF modem.prompt = "asked"
                                THEN [modem EXCEPT !.prompt = "sent"]
                                ELSE modem
               ELSE UNCHANGED <<pdus, modem>>
            /\ UNCHANGED waiters
       [] OTHER ->
            /\ response' = IF IsIntermediate(line, response)
                           THEN [response EXCEPT !.intermediates =
                                                   Append(@, line)]
                           ELSE response
            /\ UNCHANGED <<waiters, modem, pdus>>
  /\ UNCHANGED <<mutex, gmutex, pc, api, tries, result, fd, readerClosed,
                 rx, tx, hungup, bound, sent, slips, emitted, closeCalls>>

\* onReaderClosed() reads s_readerClosed before it takes the mutex.
OnReaderClosedTest ==
  /\ reader = "eof"
  /\ reader' = IF readerClosed THEN "dead" ELSE "closing"
  /\ UNCHANGED <<threadVars, channelVars, line, modemVars, history>>

\* mutant: waiting commands are not told
OnReaderClosedQuiet ==
  /\ reader = "closing"
  /\ mutex = None
  /\ readerClosed' = TRUE
  /\ closeCalls' = closeCalls + 1
  /\ reader' = "callback"
  /\ UNCHANGED <<mutex, gmutex, waiters, pc, api, tries, result, fd, response,
                 line, modemVars, bound, sent, slips, emitted, pdus>>

\* It then marks the channel closed and wakes the waiting command.
OnReaderClosed ==
  /\ reader = "closing"
  /\ mutex = None
  /\ readerClosed' = TRUE
  /\ Signal
  /\ closeCalls' = closeCalls + 1
  /\ reader' = "callback"
  /\ UNCHANGED <<mutex, gmutex, pc, api, tries, result, fd, response, line,
                 modemVars, bound, sent, slips, emitted, pdus>>

\* mutant: the descriptor is not closed
AtCloseKeepsFd ==
  /\ reader = "callback"
  /\ reader' = "closefd"
  /\ UNCHANGED <<threadVars, channelVars, line, modemVars, history>>

\* s_onReaderClosed() is onATReaderClosed(), which calls at_close(): the
\* descriptor is closed before the mutex is taken.
AtClose ==
  /\ reader = "callback"
  /\ fd' = 0
  /\ reader' = "closefd"
  /\ UNCHANGED <<threadVars, readerClosed, response, line, modemVars,
                 history>>

AtCloseSignal ==
  /\ reader = "closefd"
  /\ mutex = None
  /\ readerClosed' = TRUE
  /\ Signal
  /\ reader' = "dead"
  /\ UNCHANGED <<mutex, gmutex, pc, api, tries, result, fd, response, line,
                 modemVars, history>>

\* at_open() by mainLoop, at the start and after at_close() returned.  It
\* resets the pending command without taking s_commandmutex.
AtOpen ==
  /\ reader = "dead" /\ fd = 0
  /\ bound.opens < MaxOpens
  /\ bound' = [bound EXCEPT !.opens = @ + 1]
  /\ fd' = bound.opens + 1
  /\ readerClosed' = FALSE
  /\ response' = None
  /\ reader' = "read"
  /\ rx' = <<>> /\ tx' = <<>> /\ modem' = IdleModem /\ hungup' = FALSE
  /\ closeCalls' = 0
  /\ UNCHANGED <<threadVars, line, sent, slips, emitted, pdus>>
-----------------------------------------------------------------------------
(* The modem (external).  It executes the commands in the order received   *)
(* (ITU-T V.250) and ends each with one final result.                      *)

Emit(l) == rx' = Append(rx, l)

\* how many intermediate lines the answer to a command may have
InterLimit(a) ==
  CASE a = "plain" -> 0
    [] a \in {"numeric", "singleline", "sms"} -> 1
    [] a = "multiline" -> MaxInter
    [] a = "cmgr" -> 2

ModemInter ==
  /\ ~hungup /\ tx # <<>>
  /\ LET t == Head(tx)
         cls == CASE t.api = "numeric" -> "digit"
                  [] t.api = "cmgr" /\ modem.inter > 0 -> "other"
                  [] OTHER -> "prefix"
     IN /\ modem.inter < InterLimit(t.api)
        /\ t.api = "sms" => modem.prompt = "sent"
        /\ Emit(Text(cls, t.id))
        /\ emitted' = [emitted EXCEPT ![t.id] = Append(@, Text(cls, t.id))]
  /\ modem' = [modem EXCEPT !.inter = @ + 1]
  /\ UNCHANGED <<threadVars, channelVars, readerVars, tx, hungup, bound,
                 sent, slips, pdus, closeCalls>>

ModemPrompt ==
  /\ ~hungup /\ tx # <<>>
  /\ Head(tx).api = "sms" /\ modem.prompt = "none"
  /\ modem' = [modem EXCEPT !.prompt = "asked"]
  /\ Emit(Word("PROMPT", Head(tx).id))
  /\ UNCHANGED <<threadVars, channelVars, readerVars, tx, hungup, history>>

ModemFinal(k) ==
  /\ ~hungup /\ tx # <<>>
  /\ Head(tx).api = "sms" => modem.prompt # "asked"
  /\ (k = "OK" /\ Head(tx).api = "sms") => modem.prompt = "sent"
  /\ Emit(Word(k, Head(tx).id))
  /\ tx' = Tail(tx)
  /\ modem' = IdleModem
  /\ UNCHANGED <<threadVars, channelVars, readerVars, hungup, history>>

\* an unsolicited text line, or the two lines of an unsolicited SMS
ModemUnsolicited ==
  /\ ~hungup
  /\ bound.urcs < MaxUrcs
  /\ bound' = [bound EXCEPT !.urcs = @ + 1]
  /\ \/ \E cls \in UrcClasses : Emit(Text(cls, 0))
     \/ rx' = rx \o <<Word("SMS", 0), Word("PDU", 0)>>
  /\ UNCHANGED <<threadVars, channelVars, readerVars, tx, modem, hungup,
                 sent, slips, emitted, pdus, closeCalls>>

\* "NO CARRIER" is a final response that some modems send unsolicited
ModemStray ==
  /\ ~hungup
  /\ bound.strays < MaxStrays
  /\ bound' = [bound EXCEPT !.strays = @ + 1]
  /\ slips' = slips + 1
  /\ Emit(Word("ERROR", 0))
  /\ UNCHANGED <<threadVars, channelVars, readerVars, tx, modem, hungup,
                 sent, emitted, pdus, closeCalls>>

ModemHangup ==
  /\ ~hungup
  /\ hungup' = TRUE
  /\ UNCHANGED <<threadVars, channelVars, readerVars, rx, tx, modem, history>>
-----------------------------------------------------------------------------
CallerStep(c) ==
  \/ \E a \in Apis : Call(c, a)
  \/ LockG(c)
  \/ Start(c)
  \/ Spurious(c)
  \/ Wake(c)

ShakerStep ==
  Handshake \/ HsLock \/ HsTry \/ HsExpire \/ HsTimeout \/ HsWake
  \/ HsSleepEnd

ReaderStep ==
  ReadLine \/ ReadSecond \/ ReadEOF \/ ProcessLine \/ OnReaderClosedTest
  \/ OnReaderClosed \/ AtClose \/ AtCloseSignal

ModemStep ==
  \/ ModemInter
  \/ ModemPrompt
  \/ \E k \in {"OK", "ERROR"} : ModemFinal(k)
  \/ ModemUnsolicited
  \/ ModemStray
  \/ ModemHangup

Next ==
  \/ \E c \in Callers : CallerStep(c)
  \/ ShakerStep
  \/ ReaderStep
  \/ AtOpen
  \/ ModemStep

Spec == Init /\ [][Next]_vars
-----------------------------------------------------------------------------
(* Properties                                                              *)

CallerPcs == {"idle", "lockg", "lock", "wait", "crashed", "hslock", "hstry",
              "hswait", "hslate", "hssleep"}
ReaderPcs == {"dead", "read", "second", "process", "eof", "closing",
              "callback", "closefd"}
Responses == [owner : Callers, type : AllApis, cmd : Nat, smsPDU : BOOLEAN,
              finalResponse : Lines \cup {None},
              intermediates : Seq(Lines)]
Results == [err : Errors, cmd : Nat, type : AllApis,
            final : Lines \cup {None}, inter : Seq(Lines)]

\* NULL is no line and no response.
ASSUME NoneAssumption ==
  None \notin Lines /\ None \notin Responses

ThreadTypes ==
  /\ mutex \in {None, Shaker}
  /\ gmutex \in Callers \cup {None}
  /\ waiters \subseteq Callers
  /\ pc \in [Callers -> CallerPcs]
  /\ api \in [Callers -> AllApis]
  /\ tries \in 0 .. Retries
  /\ result \in [Callers -> Results \cup {None}]

ChannelTypes ==
  /\ fd \in Nat
  /\ readerClosed \in BOOLEAN
  /\ response \in Responses \cup {None}

ReaderTypes ==
  /\ reader \in ReaderPcs
  /\ line \in Lines \cup {None}

Commands == [id : Nat, api : AllApis]
ModemTypes ==
  /\ rx \in Seq(Lines)
  /\ tx \in Seq(Commands)
  /\ modem \in [inter : Nat, prompt : {"none", "asked", "sent"}]
  /\ hungup \in BOOLEAN

Bounds == [opens : Nat, calls : Nat, shakes : Nat, urcs : Nat, strays : Nat]
HistoryTypes ==
  /\ bound \in Bounds
  /\ sent \in Nat
  /\ slips \in Nat
  /\ emitted \in Seq(Seq(Lines))
  /\ pdus \in Seq(SUBSET Nat)
  /\ closeCalls \in Nat

\* Type correctness of the whole state; a handshake makes no more than
\* Retries attempts.
TypeOK ==
  ThreadTypes /\ ChannelTypes /\ ReaderTypes /\ ModemTypes /\ HistoryTypes

Waiting(c) == pc[c] \in {"wait", "hswait", "hslate"}

\* The response a thread waits for stays allocated and stays its own until
\* that thread takes it: no other thread frees or replaces sp_response while
\* at_send_command_full_nolock is in pthread_cond_wait, so the loop test
\* sp_response->finalResponse never reads through NULL.
WaiterOwnsResponse ==
  \A c \in Callers :
    /\ Waiting(c) => response # None /\ response.owner = c
    /\ pc[c] # "crashed"

\* Once s_readerClosed is set no thread sleeps on s_commandcond: the single
\* pthread_cond_signal of onReaderClosed() reaches every waiting command,
\* and no command starts to wait on a closed channel.
ClosedWakesAll == readerClosed => waiters = {}

Answered(r) == r # None /\ r.err \in {"ok", "invalid"} /\ r.cmd > 0

\* A command is completed by its own final response, or by that of an
\* earlier command, and then by one at most as many commands back as there
\* were answers left over: handshake attempts given up before their answer
\* and unsolicited NO CARRIER lines.  Without those every command gets its
\* own answer.
AnswerLag ==
  \A c \in Callers :
    LET r == result[c] IN
    Answered(r) =>
      \/ r.final.of = 0 /\ slips > 0
      \/ r.final.of > 0 /\ r.final.of <= r.cmd
         /\ r.cmd <= r.final.of + slips

\* the lines of q at the positions in I are those of e, in that order
Lists(q, I, e) ==
  \E f \in [DOMAIN e -> I] :
    /\ \A i, j \in DOMAIN e : i < j => f[i] < f[j]
    /\ \A i \in DOMAIN e : q[f[i]] = e[i]
    /\ \A p \in I : \E i \in DOMAIN e : f[i] = p

\* An unsolicited line came first and was taken for the one line of the
\* answer; the answer itself then goes to s_unsolHandler.
Mistaken(a, i) == NeedsIntermediate(a) /\ Len(i) = 1 /\ i[1].of = 0

\* the first character or the prefix that a command of type a waits for
LooksLike(l, a) == l.cls = IF a = "numeric" THEN "digit" ELSE "prefix"

\* i is all of the answer e to a command of type a, with no line but the
\* modem's for it and those the channel cannot tell from them
Complete(i, a, e) ==
  /\ \/ Mistaken(a, i)
     \/ Lists(i, {p \in DOMAIN i : i[p].of # 0}, e)
  /\ \A p \in DOMAIN i :
       i[p].of = 0 => LooksLike(i[p], a) \/ (a = "cmgr" /\ p > 1)

\* As long as no answer was left over, a command returns the intermediate
\* lines the modem sent for it, all of them and in order (the list is
\* built in reverse and flipped by reverseIntermediates()).  processLine()
\* adds an unsolicited line to them only if it begins like the answer, or
\* comes behind the header of "+CMGR:".  A multi-line command loses nothing
\* by it; a command for a single line returns that line instead of its own.
CompleteResponse ==
  \A c \in Callers :
    LET r == result[c] IN
    Answered(r) /\ slips = 0 => Complete(r.inter, r.type, emitted[r.cmd])

\* The PDU of an SMS command is written at most once, and to its own prompt
\* as long as no answer was left over.
PduAnswersPrompt ==
  \A n \in DOMAIN pdus :
    /\ Cardinality(pdus[n]) <= 1
    /\ slips = 0 => pdus[n] \subseteq {n}

\* The threads run, and the modem ends every command with a final result
\* unless it hangs up.
Fairness ==
  /\ WF_vars(ReaderStep)
  /\ WF_vars(\E k \in {"OK", "ERROR"} : ModemFinal(k))
  /\ \A c \in Callers : WF_vars(LockG(c)) /\ WF_vars(Start(c))
                        /\ WF_vars(Wake(c))
  /\ WF_vars(HsLock) /\ WF_vars(HsTry) /\ WF_vars(HsTimeout)
  /\ WF_vars(HsWake) /\ WF_vars(HsSleepEnd)

FairSpec == Spec /\ Fairness

\* Every command and every handshake returns to its caller, although
\* at_send_command_* waits without a timeout: the final response or the
\* close of the channel always reaches the waiting thread.
CommandsReturn == \A c \in Callers : Waiting(c) ~> pc[c] = "idle"

\* A hang-up of the device is reported by s_onReaderClosed() and the
\* descriptor is closed, whatever the command threads do meanwhile.
HangupReported == (hungup /\ fd # 0) ~> (fd = 0 /\ closeCalls = 1)
=============================================================================
