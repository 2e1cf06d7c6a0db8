---------------------------- MODULE RilRequests ----------------------------
(***************************************************************************)
(* The event loop of libril runs one request or callback of a RIL at a     *)
(* time, to its end.  While it runs, the modem answers or refuses every    *)
(* command, and the reader may close the channel under it; the main loop   *)
(* opens it again.  The module executes the terms of the handlers and      *)
(* keeps account of every ATResponse and of every completion.              *)
(***************************************************************************)
EXTENDS ReferenceHandlers, FiniteSets

CONSTANTS
  MaxClosed,       \* how often the channel is lost
  Retransmit,      \* NUM_OF_RETRANSMIT of the altair RIL
  MaxRounds        \* bound: rounds of an altair data call list

ASSUME RunAssumption ==
  MaxClosed \in Nat /\ Retransmit \in Nat /\ MaxRounds \in Nat \ {0}

Altair == INSTANCE AltairHandlers

VARIABLES
  ril,        \* the library that runs
  family,     \* the handlers it runs
  name,       \* the request or callback that runs, or ran last
  frames,     \* the functions it is in, innermost first: pointer and rest
  waiting,    \* its command is written and waits for the final response
  done,       \* how often the request was completed
  leaks,      \* a response was lost without at_response_free()
  misuse,     \* a response was freed twice, or used while it was none
  dead,       \* the process ended at that, or at another access to memory
              \* that belongs to nobody
  errors,     \* the worst end of a command of this handler
  open,       \* the AT channel
  closed,     \* how often it was lost
  g           \* globals of the RIL, result of the last call, what is owed

who == <<ril, family>>
ghosts == <<leaks, misuse, dead, errors>>
channel == <<open, closed>>
vars == <<who, name, frames, waiting, done, ghosts, channel, g>>

Requests ==
  [reference |-> ReferenceRequests, altair |-> Altair!AltairRequests]
Callbacks ==
  [reference |-> ReferenceCallbacks, altair |-> Altair!AltairCallbacks]
Handlers ==
  [reference |-> Requests.reference @@ Callbacks.reference,
   altair |-> Requests.altair @@ Callbacks.altair]

\* The handlers that share a global, and all the others.  A behaviour runs the
\* handlers of one family only: those of another touch other globals, and
\* nothing else is carried from one handler to the next.
Families ==
  [registration |-> {"SIGNAL_STRENGTH", "initializeCallback", "ENTER_SIM_PIN"},
   calls |-> {"GET_CURRENT_CALLS", "GET_CURRENT_CALLS_VOLTE", "ANSWER"},
   data |-> {"SETUP_DATA_CALL", "DEACTIVATE_DATA_CALL"}]
FamilyOf(lib, f) ==
  IF f \in DOMAIN Families THEN Families[f] \cap DOMAIN Handlers[lib]
  ELSE DOMAIN Handlers[lib] \ UNION {Families[i] : i \in DOMAIN Families}

Pointer == {"uninit", "null", "live", "freed"}
Globals == [creg : BOOLEAN, cgreg : BOOLEAN, incoming : BOOLEAN,
            expect : BOOLEAN, repoll : 0..RepollMax,
            pppd : BOOLEAN, pppd_runs : BOOLEAN,
            ret : {"ok", "error"}, owed : BOOLEAN]

Init ==
  /\ ril \in DOMAIN Handlers /\ family \in DOMAIN Families \cup {"others"}
  /\ name = "none" /\ frames = <<>> /\ waiting = FALSE /\ done = 0
  /\ leaks = FALSE /\ misuse = FALSE /\ dead = FALSE /\ errors = "none"
  /\ open = TRUE /\ closed = 0
  /\ g = [creg |-> FALSE, cgreg |-> FALSE, incoming |-> FALSE,
          expect |-> FALSE, repoll |-> 0, pppd |-> FALSE, pppd_runs |-> FALSE,
          ret |-> "ok", owed |-> FALSE]

(***************************************************************************)
(* The channel.                                                            *)
(***************************************************************************)

Close ==
  /\ open /\ closed < MaxClosed
  /\ open' = FALSE /\ closed' = closed + 1
  /\ UNCHANGED <<who, name, frames, waiting, done, ghosts, g>>

Reopen ==
  /\ ~open /\ open' = TRUE
  /\ UNCHANGED <<who, name, frames, waiting, done, ghosts, closed, g>>

(***************************************************************************)
(* The event loop.                                                         *)
(***************************************************************************)

Frame(f) == [p |-> f.init, line |-> FALSE, code |-> f.body]

\* onRequest() refuses a request while the radio is off or unavailable.
Dispatch(h) ==
  /\ frames = <<>>
  /\ name' = h /\ done' = 0
  /\ leaks' = FALSE /\ misuse' = FALSE /\ errors' = "none"
  /\ g' = [g EXCEPT !.ret = "ok", !.owed = FALSE]
  /\ \/ frames' = <<Frame(Handlers[ril][h])>>
     \/ h \in DOMAIN Requests[ril] /\ frames' = <<Frame(FixedAnswer)>>
  /\ UNCHANGED <<who, waiting, dead, channel>>

Top == frames[1]
Rest == Tail(Top.code)
Running == frames # <<>> /\ Top.code # <<>> /\ ~waiting
At(op) == Running /\ Head(Top.code).op = op
Instr == Head(Top.code)

\* The innermost function goes on with code, its pointer as given.
Go(p, line, code) ==
  frames' = <<[p |-> p, line |-> line, code |-> code]>> \o Tail(frames)
Jump(code) == Go(Top.p, Top.line, code)

Leave ==
  /\ frames # <<>> /\ Top.code = <<>>
  /\ frames' = Tail(frames)
  /\ leaks' = (leaks \/ Top.p = "live")
  /\ UNCHANGED <<who, name, waiting, done, misuse, dead, errors, channel, g>>

Enter ==
  /\ At("call")
  /\ frames' = <<Frame(Instr.f), [Top EXCEPT !.code = Rest]>> \o Tail(frames)
  /\ UNCHANGED <<who, name, waiting, done, ghosts, channel, g>>

\* A response is used; if that is undefined the process may end or go on.
Uses(bad) ==
  /\ misuse' = (misuse \/ bad)
  /\ dead' \in IF bad THEN BOOLEAN ELSE {dead}

at_response_free ==
  /\ At("free")
  /\ Go(IF Top.p = "live" THEN "freed" ELSE Top.p, FALSE, Rest)
  /\ Uses(Top.p \in {"freed", "uninit"})
  /\ UNCHANGED <<who, name, waiting, done, leaks, errors, channel, g>>

AssignNull ==
  /\ At("null")
  /\ Go("null", FALSE, Rest)
  /\ leaks' = (leaks \/ Top.p = "live")
  /\ UNCHANGED <<who, name, waiting, done, misuse, dead, errors, channel, g>>

WildAccess ==
  /\ At("wild")
  /\ dead' \in BOOLEAN
  /\ Jump(Rest)
  /\ UNCHANGED <<who, name, waiting, done, leaks, misuse, errors, channel, g>>

Dereference ==
  /\ At("deref") \/ At("line")
  /\ Uses(Top.p # "live" \/ (Instr.op = "line" /\ ~Top.line))
  /\ Jump(Rest)
  /\ UNCHANGED <<who, name, waiting, done, leaks, errors, channel, g>>

RIL_onRequestComplete ==
  /\ At("done") \/ At("reply")
  /\ done' = done + 1
  /\ Uses(Instr.op = "reply" /\ Top.p # "live")
  /\ Jump(Rest)
  /\ UNCHANGED <<who, name, waiting, leaks, errors, channel, g>>

Branch ==
  /\ \/ At("goto") /\ \E L \in Instr.S : Jump(L)
     \/ At("maybe") /\ \E L \in {Instr.L, Rest} : Jump(L)
     \/ At("either") /\ \E L \in Instr.S : Jump(L \o Rest)
     \/ At("if") /\ Jump((IF g[Instr.f] = Instr.v THEN Instr.yes ELSE Instr.no) \o Rest)
  /\ UNCHANGED <<who, name, waiting, done, ghosts, channel, g>>

Assign ==
  /\ At("set") \/ At("inc")
  /\ g' = [g EXCEPT ![Instr.f] = IF Instr.op = "set" THEN Instr.v ELSE @ + 1]
  /\ Jump(Rest)
  /\ UNCHANGED <<who, name, waiting, done, ghosts, channel>>

(***************************************************************************)
(* A command, in two steps: it is written, and its final response or the   *)
(* end of the channel wakes it up.                                         *)
(***************************************************************************)

\* Where the function goes after the outcome of its command.
After(outcome) ==
  Instr.to[outcome] \o (IF outcome \in Instr.back THEN Rest ELSE <<>>)

\* The pointer of the caller takes p; the response it held is lost.
Returns(p, line, code) ==
  /\ waiting' = FALSE
  /\ IF Instr.kind = "null"
       THEN Jump(code) /\ UNCHANGED leaks
       ELSE Go(p, line, code) /\ leaks' = (leaks \/ Top.p = "live")

\* What the handler has met so far, the worst of it.
Worst(outcome) ==
  IF outcome = "err" THEN "failed"
  ELSE IF outcome = "fail" /\ errors = "none" THEN "refused" ELSE errors

\* writeline() fails when the channel is closed; the pointer keeps its value.
WriteCommand ==
  /\ At("send")
  /\ \/ open /\ waiting' = TRUE /\ UNCHANGED <<frames, errors>>
     \/ /\ ~open /\ Jump(After("err")) /\ errors' = Worst("err")
        /\ UNCHANGED waiting
  /\ UNCHANGED <<who, name, done, leaks, misuse, dead, channel, g>>

\* An error result, OK with a line where lines are asked for, or OK without.
\* OK without the line of a singleline command is an invalid response.
Answers ==
  {<<"live", FALSE, "fail">>}
  \cup (IF Instr.kind \in {"single", "multi"} THEN {<<"live", TRUE, "ok">>} ELSE {})
  \cup (IF Instr.kind = "single" THEN {<<"null", FALSE, "err">>}
                                 ELSE {<<"live", FALSE, "ok">>})

FinalResponse ==
  /\ waiting /\ open
  /\ \E a \in Answers : Returns(a[1], a[2], After(a[3])) /\ errors' = Worst(a[3])
  /\ UNCHANGED <<who, name, done, misuse, dead, channel, g>>

\* The reader has closed the channel: the response is handed out all the same.
ClosedResponse ==
  /\ waiting /\ ~open
  /\ Returns("live", FALSE, After("err")) /\ errors' = Worst("err")
  /\ UNCHANGED <<who, name, done, misuse, dead, channel, g>>

Step == Leave \/ Enter \/ at_response_free \/ AssignNull \/ Dereference
        \/ WildAccess
        \/ RIL_onRequestComplete \/ Branch \/ Assign
        \/ WriteCommand \/ FinalResponse \/ ClosedResponse

Next ==
  /\ ~dead
  /\ Close \/ Reopen \/ Step \/ \E h \in FamilyOf(ril, family) : Dispatch(h)

Spec == Init /\ [][Next]_vars

\* Every variable keeps its type, and a handler waits only inside a command.
TypeOK ==
  /\ ril \in DOMAIN Handlers /\ family \in DOMAIN Families \cup {"others"}
  /\ name \in DOMAIN Handlers[ril] \cup {"none"}
  /\ \A i \in DOMAIN frames : frames[i].p \in Pointer /\ frames[i].line \in BOOLEAN
  /\ waiting => (frames # <<>> /\ Instr.op = "send")
  /\ done \in 0..3
  /\ {leaks, misuse, dead, open} \subseteq BOOLEAN
  /\ errors \in {"none", "refused", "failed"}
  /\ closed \in 0..MaxClosed
  /\ g \in Globals

Idle == frames = <<>>
Here == <<ril, name>>

\* Requests whose code completes them a second time on some path: the two
\* acknowledgements fall from success into the error label, and
\* requestSignalStrength() reports a failed AT+CSQ before it jumps there.
CompletedTwice ==
  {<<"reference", "SMS_ACKNOWLEDGE">>, <<"altair", "SMS_ACKNOWLEDGE">>,
   <<"altair", "CDMA_SMS_ACKNOWLEDGE">>, <<"reference", "SIGNAL_STRENGTH">>}

\* Handlers that parse or free a response they do not have.  The altair ones
\* need no more than an error result of the modem (success is not tested, or
\* the response of the last retransmission is already freed); the reference
\* ones meet a pointer without a value, or a freed one, after err < 0.
Unsafe ==
  [refused |-> {<<"altair", "REGISTRATION_STATE">>, <<"altair", "OPERATOR">>,
                <<"altair", "RADIO_POWER">>},
   failed  |-> {<<"reference", "initializeCallback">>,
                <<"reference", "ENTER_SIM_PIN">>,
                <<"reference", "SIGNAL_STRENGTH">>}]

\* Handlers that access memory which is no response and not theirs either:
\* requestDeactivateDataCall() looks for an unknown cid beyond the table, and
\* requestOrSendDataCallList() writes behind the fourth dot of an address that
\* has fewer.
Overrun ==
  {<<"altair", h>> : h \in {"DEACTIVATE_DATA_CALL", "DATA_CALL_LIST",
                            "onDataCallListChanged", "SETUP_DATA_CALL"}}

\* Whatever the modem answers and wherever the channel is lost, a request is
\* completed on every path through its handler, and exactly once except by the
\* four above: onRequest() and everything it calls.  A request is left without
\* an answer only if the process dies in it, in a handler of Unsafe after a
\* command went wrong, or in one of Overrun.
CompletedOnce ==
  (name \in DOMAIN Requests[ril] /\ (Idle \/ dead))
    => \/ done = 1
       \/ done = 2 /\ Here \in CompletedTwice
       \/ dead /\ \/ Here \in Overrun
                  \/ Here \in Unsafe.refused \cup Unsafe.failed /\ errors # "none"

\* Handlers that lose a response although every command succeeded.
Leaky ==
  {<<"reference", h>> : h \in {"GET_SIM_STATUS", "pollSIMState", "RADIO_POWER",
      "SET_PREFERRED_NETWORK_TYPE", "CDMA_SET_SUBSCRIPTION_SOURCE",
      "initializeCallback", "ENTER_SIM_PIN", "onNewSmsArrived"}}
  \cup {<<"altair", h>> : h \in {"GET_SIM_STATUS", "RADIO_POWER",
      "REGISTRATION_STATE", "OPERATOR", "CDMA_SEND_SMS", "IMS_SEND_SMS",
      "DATA_CALL_LIST", "onDataCallListChanged", "SETUP_DATA_CALL",
      "DEACTIVATE_DATA_CALL"}}

\* Handlers that lose one only after a command was refused or failed.
LeakyOnError ==
  {<<"reference", h>> : h \in {"DATA_CALL_LIST", "onDataCallListChanged",
      "GET_CURRENT_CALLS", "SETUP_DATA_CALL", "DEVICE_IDENTITY"}}
  \cup {<<"altair", h>> : h \in {"GET_CURRENT_CALLS_VOLTE", "BASEBAND_VERSION"}}

\* No handler uses, replies with or frees an ATResponse it does not own, but for
\* the six above, and for those only after a command went wrong; and every other
\* handler than those listed frees each response it was handed, on every path.
ResponsesOwned ==
  /\ misuse => \/ Here \in Unsafe.refused /\ errors # "none"
               \/ Here \in Unsafe.failed /\ errors = "failed"
  /\ Idle /\ leaks => \/ Here \in Leaky
                      \/ Here \in LeakyOnError /\ errors # "none"

\* The RIL knows what it has changed outside itself.  What a handler changed for
\* the time of its work it takes back: readNewSms() the message storage, the
\* network selections of the altair RIL the LTE attachment; only a command that
\* went wrong leaves it changed.  A pppd that was started is known to pppd when
\* the next data call is set up, and is stopped before another one starts.
ModemTracked ==
  /\ Idle /\ g.owed => errors # "none"
  /\ g.pppd_runs => g.pppd
=============================================================================
