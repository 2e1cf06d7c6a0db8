-------------------------------- MODULE Sms --------------------------------
(***************************************************************************)
(* Arrival of stored messages in the reference RIL.  The AT reader takes   *)
(* "+CMTI: storage,index" or "+CDSI: storage,index", leaves both in        *)
(* globals and asks for a callback; readNewSms() runs on the event loop,   *)
(* makes the storage the one to read from, reads, reports and deletes the  *)
(* message, and restores the storage.  The two threads share the globals   *)
(* without a lock, and announcements fall between any two commands.  One   *)
(* command is one step but for AT+CMGR: processLine() adds every line that *)
(* follows its header to the response, an announcement too, until the      *)
(* event loop has taken the response.                                      *)
(***************************************************************************)
EXTENDS Integers, Sequences, FiniteSets

CONSTANTS
  Messages,        \* the messages that arrive
  Reports,         \* those of them that are status reports
  Storages, Home,  \* the storages, and the one the modem reads from at first
  Places,          \* locations in a storage
  MaxFails         \* commands that fail

ASSUME SmsAssumption ==
  /\ Reports \subseteq Messages /\ Home \in Storages
  /\ {"none", "line"} \cap (Messages \cup Storages) = {}
  /\ Places # {} /\ Places \subseteq Nat /\ MaxFails \in Nat

VARIABLES
  store,           \* the modem: messages by storage and location
  cpms,            \* the modem: the storage AT+CMGR and AT+CMGD use
  lenient,         \* the modem: an empty location is read with OK and no line
  arrived,         \* the messages that have arrived
  lines,           \* the announcements the modem has to send and the reader to read
  reader,          \* where the reader is in its handler
  smsStorageIndex, smsReadStorage,
  callbacks,       \* the callbacks asked for, with the message that caused them
  loop,            \* the event loop: where it is, and the locals of readNewSms()
  delivered,       \* what the framework was given: message, and as what
  fails,
  disturbed,       \* messages whose callback met another announcement or a failure
  missed,          \* an empty location was read
  swallowed,       \* messages whose announcement became a line of an answer
  spoilt           \* messages read without their pdu as the line after the header

modem == <<store, cpms, lenient, arrived>>
globals == <<smsStorageIndex, smsReadStorage>>
ghosts == <<disturbed, missed, swallowed, spoilt>>
vars == <<modem, lines, reader, globals, callbacks, loop, delivered, fails, ghosts>>

None == "none"
Other == "line"    \* a line that is not a pdu, given to the framework as one
Idle == [at |-> "idle", msg |-> None, index |-> 0, old |-> Home, line |-> None]
Kind(m) == m \in Reports

Init ==
  /\ store = [s \in Storages |-> [p \in Places |-> None]]
  /\ cpms = Home /\ lenient \in BOOLEAN /\ arrived = {}
  /\ lines = <<>> /\ reader = "idle"
  /\ smsStorageIndex = 0 /\ smsReadStorage = None
  /\ callbacks = <<>> /\ loop = Idle /\ delivered = <<>> /\ fails = 0
  /\ disturbed = {} /\ missed = FALSE /\ swallowed = {} /\ spoilt = {}

(***************************************************************************)
(* The modem stores a message at the first free location and announces it. *)
(***************************************************************************)

Arrive(m, s) ==
  /\ m \notin arrived /\ arrived' = arrived \cup {m}
  /\ \E p \in Places :
       /\ store[s][p] = None /\ \A q \in Places : q < p => store[s][q] # None
       /\ store' = [store EXCEPT ![s][p] = m]
       /\ lines' = Append(lines, [msg |-> m, storage |-> s, index |-> p])
  /\ UNCHANGED <<cpms, lenient, reader, globals, callbacks, loop, delivered, fails, ghosts>>

(***************************************************************************)
(* onUnsolicited(): the index, the storage cleared, the storage copied.    *)
(***************************************************************************)

\* The messages whose callback has not used the globals yet.
Pending ==
  {callbacks[i] : i \in DOMAIN callbacks}
  \cup {m \in {loop.msg} : loop.at \in {"query", "select"}}

\* The location AT+CMGR and AT+CMGD mean.
Here == store[cpms][loop.index]

\* AT+CMGR has its header: the response has an intermediate and is not taken yet.
InAnswer == loop.at \in {"header", "answered"}

OnIndex ==
  /\ reader = "idle" /\ lines # <<>> /\ ~InAnswer /\ reader' = "index"
  /\ smsStorageIndex' = Head(lines).index
  /\ disturbed' = disturbed \cup Pending
  /\ UNCHANGED <<modem, lines, smsReadStorage, callbacks, loop, delivered, fails, missed,
                 swallowed, spoilt>>

OnStorageCleared ==
  /\ reader = "index" /\ reader' = "cleared"
  /\ smsReadStorage' = None
  /\ UNCHANGED <<modem, lines, smsStorageIndex, callbacks, loop, delivered, fails, ghosts>>

OnStorageEarly ==
  /\ reader = "cleared" /\ reader' = "idle"
  /\ callbacks' = Append(callbacks, Head(lines).msg)
  /\ lines' = Tail(lines)
  /\ UNCHANGED <<modem, globals, loop, delivered, fails, ghosts>>

OnStorage ==
  /\ reader = "cleared" /\ reader' = "idle"
  /\ smsReadStorage' = Head(lines).storage
  /\ callbacks' = Append(callbacks, Head(lines).msg)
  /\ lines' = Tail(lines)
  /\ UNCHANGED <<modem, smsStorageIndex, loop, delivered, fails, ghosts>>

\* processLine() adds the announcement to the answer of AT+CMGR; the second line of
\* the answer is the one readNewSms() takes for the pdu.
Swallow ==
  /\ reader = "idle" /\ lines # <<>> /\ InAnswer
  /\ lines' = Tail(lines) /\ swallowed' = swallowed \cup {Head(lines).msg}
  /\ loop' = [loop EXCEPT !.line = IF @ = None THEN Other ELSE @]
  /\ spoilt' = spoilt \cup {m \in {Here} : loop.at = "header"}
  /\ UNCHANGED <<modem, reader, globals, callbacks, delivered, fails, disturbed, missed>>

(***************************************************************************)
(* readNewSms().                                                           *)
(***************************************************************************)

Go(at) == loop' = [loop EXCEPT !.at = at]

\* A command that fails, whatever the reason.
Fails == fails < MaxFails /\ fails' = fails + 1 /\ disturbed' = disturbed \cup {loop.msg}

StartAsSms ==
  /\ loop.at = "idle" /\ callbacks # <<>>
  /\ loop' = [at |-> "query", msg |-> CHOOSE m \in Messages : m \notin Reports,
              index |-> smsStorageIndex, old |-> Home, line |-> None]
  /\ callbacks' = Tail(callbacks)
  /\ UNCHANGED <<modem, lines, reader, globals, delivered, fails, ghosts>>

\* The callback: index = *(int *)param.
Start ==
  /\ loop.at = "idle" /\ callbacks # <<>>
  /\ loop' = [at |-> "query", msg |-> Head(callbacks), index |-> smsStorageIndex,
              old |-> Home, line |-> None]
  /\ callbacks' = Tail(callbacks)
  /\ UNCHANGED <<modem, lines, reader, globals, delivered, fails, ghosts>>

\* AT+CPMS?: without an answer that can be parsed there is nothing to be done.
Query ==
  /\ loop.at = "query"
  /\ \/ loop' = [loop EXCEPT !.at = "select", !.old = cpms] /\ UNCHANGED <<fails, disturbed>>
     \/ Fails /\ Go("idle")
  /\ UNCHANGED <<modem, lines, reader, globals, callbacks, delivered, missed, swallowed,
                 spoilt>>

\* AT+CPMS=smsReadStorage: nobody looks at the result, setStorage is set.
Select ==
  /\ loop.at = "select" /\ Go("read")
  /\ \/ /\ cpms' = IF smsReadStorage = None THEN cpms ELSE smsReadStorage
        /\ UNCHANGED <<fails, disturbed>>
     \/ Fails /\ UNCHANGED cpms
  /\ UNCHANGED <<store, lenient, arrived, lines, reader, globals, callbacks, delivered,
                 missed, swallowed, spoilt>>

\* The pdu goes to the framework as response_index says.
Deliver(m) == delivered' = Append(delivered, [msg |-> m, report |-> Kind(loop.msg)])

\* AT+CMGR=index, up to its first line.  A refusal returns at once.
Read ==
  /\ loop.at = "read" /\ reader = "idle"
  /\ \/ Here # None /\ Go("header") /\ UNCHANGED <<fails, disturbed, missed>>
     \/ /\ Here = None /\ missed' = TRUE
        /\ Go(IF lenient THEN "delete" ELSE "idle")
        /\ UNCHANGED <<fails, disturbed>>
     \/ Fails /\ Go("idle") /\ UNCHANGED missed
  /\ UNCHANGED <<modem, lines, reader, globals, callbacks, delivered, swallowed, spoilt>>

\* The pdu and OK, or OK alone.
Answer ==
  /\ loop.at = "header"
  /\ \/ /\ loop' = [loop EXCEPT !.at = "answered", !.line = IF @ = None THEN Here ELSE @]
        /\ UNCHANGED spoilt
     \/ Go("answered") /\ spoilt' = spoilt \cup {Here}
  /\ UNCHANGED <<modem, lines, reader, globals, callbacks, delivered, fails, disturbed,
                 missed, swallowed>>

\* The line after the header goes to the framework; without one there is nothing to
\* report, and the message is deleted all the same.  An answer that cannot be parsed
\* is neither reported nor deleted.
ReportPdu ==
  /\ loop.at = "answered"
  /\ \/ /\ IF loop.line = None THEN UNCHANGED delivered ELSE Deliver(loop.line)
        /\ Go("delete") /\ UNCHANGED <<fails, disturbed>>
     \/ Fails /\ Go("restore") /\ UNCHANGED delivered
  /\ UNCHANGED <<modem, lines, reader, globals, callbacks, missed, swallowed, spoilt>>

DeleteByGlobal ==
  /\ loop.at = "delete" /\ Go("restore")
  /\ store' = [store EXCEPT ![cpms][smsStorageIndex] = None]
  /\ UNCHANGED <<cpms, lenient, arrived, lines, reader, globals, callbacks, delivered,
                 fails, ghosts>>

\* AT+CMGD=index.
Delete ==
  /\ loop.at = "delete" /\ Go("restore")
  /\ \/ store' = [store EXCEPT ![cpms][loop.index] = None] /\ UNCHANGED <<fails, disturbed>>
     \/ Fails /\ UNCHANGED store
  /\ UNCHANGED <<cpms, lenient, arrived, lines, reader, globals, callbacks, delivered,
                 missed, swallowed, spoilt>>

\* error: AT+CPMS=oldReadStorage.
Restore ==
  /\ loop.at = "restore" /\ loop' = Idle
  /\ \/ cpms' = loop.old /\ UNCHANGED <<fails, disturbed>>
     \/ Fails /\ UNCHANGED cpms
  /\ UNCHANGED <<store, lenient, arrived, lines, reader, globals, callbacks, delivered,
                 missed, swallowed, spoilt>>

Reader == OnIndex \/ OnStorageCleared \/ OnStorage \/ Swallow
Loop == Start \/ Query \/ Select \/ Read \/ Answer \/ ReportPdu \/ Delete \/ Restore

Next == Reader \/ Loop \/ \E m \in Messages, s \in Storages : Arrive(m, s)

\* The two threads run and the modem answers; messages need not come.
Spec == Init /\ [][Next]_vars /\ WF_vars(Reader) /\ WF_vars(Loop)

(***************************************************************************)
(* Properties.                                                             *)
(***************************************************************************)

Stored == {store[s][p] : s \in Storages, p \in Places} \ {None}
Given == {delivered[i].msg : i \in DOMAIN delivered}

\* Every variable keeps its type.  The handler works on a line, and a callback on
\* a message and a location an announcement has given, never on the initial 0.
TypeOK ==
  /\ store \in [Storages -> [Places -> Messages \cup {None}]]
  /\ cpms \in Storages /\ lenient \in BOOLEAN /\ arrived \subseteq Messages
  /\ lines \in Seq([msg : Messages, storage : Storages, index : Places])
  /\ reader \in {"idle", "index", "cleared"} /\ (reader # "idle" => lines # <<>>)
  /\ smsStorageIndex \in Places \cup {0} /\ smsReadStorage \in Storages \cup {None}
  /\ callbacks \in Seq(Messages)
  /\ reader # "idle" \/ callbacks # <<>> => smsStorageIndex \in Places
  /\ loop \in [at : {"idle", "query", "select", "read", "header", "answered", "delete",
                    "restore"},
              msg : Messages \cup {None}, index : Places \cup {0}, old : Storages,
              line : Messages \cup {None, Other}]
  /\ loop.at # "idle" => loop.msg \in Messages /\ loop.index \in Places
  /\ delivered \in Seq([msg : Messages \cup {Other}, report : BOOLEAN])
  /\ fails \in 0..MaxFails
  /\ disturbed \subseteq Messages /\ missed \in BOOLEAN
  /\ swallowed \subseteq Messages /\ spoilt \subseteq Messages

\* readNewSms() deletes what it has delivered, although announcements change the
\* globals while it runs.  Two answers of AT+CMGR break this: the pdu was not the
\* line after the header, because there was none or an announcement came before it,
\* and an empty location was read with OK, where a message may have arrived since.
DeletedWasDelivered ==
  ~(lenient /\ missed) => arrived \subseteq Stored \cup Given \cup spoilt

\* A message is delivered twice only if it could not be deleted: a second callback
\* for the same index finds nothing.  As long as no announcement met another one it
\* is delivered as what it is; one that did may take any message of the storage for
\* its own.  The framework is given a line that is no message only when an
\* announcement became a line of an answer.
DeliveredRight ==
  /\ fails = 0
       => \A i, j \in DOMAIN delivered :
            delivered[i].msg = delivered[j].msg /\ delivered[i].msg # Other => i = j
  /\ disturbed = {}
       => \A i \in DOMAIN delivered :
            delivered[i].msg # Other => delivered[i].report = Kind(delivered[i].msg)
  /\ swallowed = {} => \A i \in DOMAIN delivered : delivered[i].msg # Other

\* A message is delivered, unless another one was announced before its callback had
\* used the globals, a command of the callback failed, its announcement came inside
\* the answer of AT+CMGR for another message and was taken for a line of it, or its
\* own answer or an empty location was read as above.
Delivered ==
  \A m \in Messages :
    m \in arrived
      ~> \/ m \in Given \cup disturbed \cup swallowed \cup spoilt
         \/ lenient /\ missed
=============================================================================
