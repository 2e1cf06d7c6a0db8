--------------------------- MODULE ATChannelProofs ---------------------------
(***************************************************************************)
(* Proofs about ATChannel, for every number of threads, attempts, commands *)
(* and lines: type correctness, the two properties that keep a waiting     *)
(* command safe, whose answer a command gets and whether it is whole.      *)
(***************************************************************************)
EXTENDS ATChannel, SequenceTheorems, FiniteSetTheorems, FunctionTheorems, TLAPS

-----------------------------------------------------------------------------
(* The inductive invariants                                                *)

Shaking == {"hslock", "hstry", "hswait", "hslate", "hssleep"}

\* What type correctness needs besides itself: attempts are left while the
\* handshake goes on, and the reader has a line when it processes one.
TriesLeft == pc[Shaker] \in Shaking => tries < Retries
LineRead == reader = "process" => line \in Lines
TypeInv == TypeOK /\ TriesLeft /\ LineRead

\* One command at a time, in one session: either a single thread issues
\* commands and handshakes (reference-ril), or s_at_cmd_g_mutex serializes
\* the threads and there is no handshake (altair-ril once it is up).
Serialized ==
  /\ MaxOpens <= 1
  /\ Callers = {Shaker} \/ (GMutex /\ MaxShakes = 0)

\* at_send_command_full() holds s_at_cmd_g_mutex, and only Shaker is ever in
\* at_handshake()
PcShape ==
  /\ \A c \in Callers : c # Shaker => pc[c] \notin Shaking
  /\ MaxShakes = 0 => \A c \in Callers : pc[c] \notin Shaking
  /\ GMutex => \A c \in Callers : pc[c] \in {"lock", "wait"} => gmutex = c

\* Nobody waits before the channel was opened.
BeforeOpen ==
  bound.opens = 0 => fd = 0 /\ \A c \in Callers : ~Waiting(c)

WaitersWait == \A c \in waiters : pc[c] \in {"wait", "hswait"}

WaitRest ==
  PcShape /\ BeforeOpen /\ WaitersWait /\ WaiterOwnsResponse /\ ClosedWakesAll
WaitInv == TypeInv /\ WaitRest

\* a thread that is inside at_send_command_full_nolock() or at_handshake()
Busy(c) == pc[c] \notin {"idle", "lockg", "crashed"}
-----------------------------------------------------------------------------
(* The operators the actions are built from                                *)

\* Appending a member of S keeps a sequence over S one.
LEMMA AppendType ==
  ASSUME NEW S, NEW q \in Seq(S), NEW x \in S
  PROVE  Append(q, x) \in Seq(S)
OBVIOUS

\* The words and texts of the modem are lines.
LEMMA LineType ==
  /\ \A c \in Classes, n \in Nat : Text(c, n) \in Lines
  /\ \A k \in LineKinds, n \in Nat : Word(k, n) \in Lines
BY DEF Text, Word, Lines, Classes, LineKinds

\* Result builds what an at_send_command_* function returns.
LEMMA ResultType ==
  ASSUME NEW e \in Errors, NEW n \in Nat, NEW a \in AllApis,
         NEW f \in Lines \cup {None}, NEW i \in Seq(Lines)
  PROVE  Result(e, n, a, f, i) \in Results
BY DEF Result, Results

\* What it returns without an answer is a result, and no answer.
LEMMA FailedType ==
  /\ \A e \in Errors : Failed(e) \in Results
  /\ \A e : ~Answered(Failed(e))
<1>1. "plain" \in AllApis /\ <<>> \in Seq(Lines)
  BY DEF AllApis
<1>2. \A e \in Errors : Failed(e) \in Results
  BY <1>1, ResultType DEF Failed
<1>3. \A e : ~Answered(Failed(e))
  BY DEF Answered, Failed, Result
<1> QED
  BY <1>2, <1>3

\* What at_send_command_full returns for a finished response.
LEMMA OutcomeType ==
  ASSUME NEW r \in Responses
  PROVE  Outcome(r) \in Results
<1>1. /\ r.cmd \in Nat /\ r.type \in AllApis
      /\ r.finalResponse \in Lines \cup {None}
      /\ r.intermediates \in Seq(Lines)
  BY DEF Responses
<1>2. <<>> \in Seq(Lines)
  OBVIOUS
<1> QED
  BY <1>1, <1>2, ResultType DEF Outcome, Errors

\* at_response_new() makes a response, which is not NULL.
LEMMA NewResponseType ==
  ASSUME NEW c \in Callers, NEW a \in AllApis, NEW n \in Nat
  PROVE  /\ NewResponse(c, a, n) \in Responses
         /\ NewResponse(c, a, n) # None
         /\ NewResponse(c, a, n).owner = c
<1>1. (a = "sms") \in BOOLEAN
  OBVIOUS
<1>2. <<>> \in Seq(Lines)
  OBVIOUS
<1>3. NewResponse(c, a, n) \in Responses
  BY <1>1, <1>2 DEF NewResponse, Responses
<1> QED
  BY <1>3, NoneAssumption DEF NewResponse

\* Posting a command keeps the types of what it writes.
LEMMA PostType ==
  ASSUME TypeOK, NEW c \in Callers, NEW a \in AllApis, Post(c, a)
  PROVE  /\ sent' \in Nat
         /\ emitted' \in Seq(Seq(Lines))
         /\ pdus' \in Seq(SUBSET Nat)
         /\ tx' \in Seq(Commands)
         /\ response' \in Responses
         /\ response' # None
         /\ response'.owner = c
<1>1. /\ sent \in Nat /\ sent + 1 \in Nat
      /\ emitted \in Seq(Seq(Lines))
      /\ pdus \in Seq(SUBSET Nat)
      /\ tx \in Seq(Commands)
  BY DEF TypeOK, HistoryTypes, ModemTypes
<1>2. <<>> \in Seq(Lines) /\ {} \in SUBSET Nat
  OBVIOUS
<1>3. [id |-> sent + 1, api |-> a] \in Commands
  BY <1>1 DEF Commands
<1>4. /\ Append(emitted, <<>>) \in Seq(Seq(Lines))
      /\ Append(pdus, {}) \in Seq(SUBSET Nat)
      /\ Append(tx, [id |-> sent + 1, api |-> a]) \in Seq(Commands)
  BY <1>1, <1>2, <1>3, AppendType
<1> QED
  BY <1>1, <1>4, NewResponseType DEF Post

\* The end of a failed attempt keeps the types of what it writes.
LEMMA HsNextType ==
  ASSUME TypeInv, NEW e \in Errors, HsNext(e), pc[Shaker] \in Shaking
  PROVE  /\ tries' \in 0 .. Retries
         /\ mutex' \in {None, Shaker}
         /\ pc' \in [Callers -> CallerPcs]
         /\ result' \in [Callers -> Results \cup {None}]
         /\ TriesLeft'
<1>1. Failed(e) \in Results
  BY FailedType
<1>2. Shaker \in Callers /\ Retries \in Nat
  BY ChannelAssumption
<1>3. tries \in Nat /\ tries < Retries
  BY <1>2 DEF TypeInv, TypeOK, ThreadTypes, TriesLeft
<1>4. /\ pc \in [Callers -> CallerPcs]
      /\ result \in [Callers -> Results \cup {None}]
  BY DEF TypeInv, TypeOK, ThreadTypes
<1>5. CASE tries + 1 < Retries
  BY <1>2, <1>3, <1>4, <1>5 DEF HsNext, CallerPcs, Shaking, TriesLeft
<1>6. CASE ~(tries + 1 < Retries)
  BY <1>1, <1>2, <1>3, <1>4, <1>6 DEF HsNext, CallerPcs, Shaking, TriesLeft
<1> QED
  BY <1>5, <1>6

\* The return of a call keeps the types of what it writes, and leaves no
\* thread in at_handshake() that was not in it.
LEMMA ReturnType ==
  ASSUME TypeOK, NEW c \in Callers, NEW r \in Results, Return(c, r)
  PROVE  /\ pc' \in [Callers -> CallerPcs]
         /\ result' \in [Callers -> Results \cup {None}]
         /\ gmutex' \in Callers \cup {None}
         /\ pc'[Shaker] \in Shaking => pc[Shaker] \in Shaking
<1>1. Shaker \in Callers
  BY ChannelAssumption
<1>2. pc' \in [Callers -> CallerPcs]
  BY DEF Return, TypeOK, ThreadTypes, CallerPcs
<1>3. result' \in [Callers -> Results \cup {None}]
  BY DEF Return, TypeOK, ThreadTypes
<1>4. gmutex' \in Callers \cup {None}
  BY DEF Return, TypeOK, ThreadTypes
<1>5. pc'[Shaker] \in Shaking => pc[Shaker] \in Shaking
  BY <1>1 DEF Return, TypeOK, ThreadTypes, Shaking
<1> QED
  BY <1>2, <1>3, <1>4, <1>5

\* Counting keeps the counters natural numbers.
LEMMA BoundType ==
  ASSUME NEW b \in Bounds
  PROVE  /\ b.opens \in Nat
         /\ [b EXCEPT !.opens = @ + 1] \in Bounds
         /\ [b EXCEPT !.calls = @ + 1] \in Bounds
         /\ [b EXCEPT !.shakes = @ + 1] \in Bounds
         /\ [b EXCEPT !.urcs = @ + 1] \in Bounds
         /\ [b EXCEPT !.strays = @ + 1] \in Bounds
BY DEF Bounds

\* The first line of a non-empty sequence of lines is a line.
LEMMA HeadTailType ==
  ASSUME NEW S, NEW q \in Seq(S), q # <<>>
  PROVE  Head(q) \in S /\ Tail(q) \in Seq(S)
OBVIOUS

\* Replacing an element of a sequence, if there is one at n, by a member of
\* S keeps a sequence over S one.
LEMMA ExceptType ==
  ASSUME NEW S, NEW q \in Seq(S), NEW n, NEW x, n \in DOMAIN q => x \in S
  PROVE  [q EXCEPT ![n] = x] \in Seq(S)
<1>1. CASE n \in DOMAIN q
  BY <1>1, ExceptSeq
<1>2. CASE n \notin DOMAIN q
  <2>1. q = [i \in DOMAIN q |-> q[i]]
    OBVIOUS
  <2>2. [q EXCEPT ![n] = x] = [i \in DOMAIN q |-> q[i]]
    BY <1>2
  <2> QED
    BY <2>1, <2>2, Zenon
<1> QED
  BY <1>1, <1>2

\* Waking a waiting thread leaves the waiters threads.
LEMMA SignalType ==
  ASSUME waiters \subseteq Callers, Signal
  PROVE  waiters' \subseteq waiters
BY DEF Signal
-----------------------------------------------------------------------------
(* Type correctness                                                        *)

\* The initial state satisfies the invariant.
LEMMA TypeInit == Init => TypeInv
<1> SUFFICES ASSUME Init PROVE TypeInv
  OBVIOUS
<1>2. Shaker \in Callers /\ Retries \in Nat \ {0}
  BY ChannelAssumption
<1>3. ThreadTypes /\ TriesLeft
  BY <1>2 DEF Init, ThreadTypes, CallerPcs, AllApis, Shaking, TriesLeft
<1>4. ChannelTypes /\ ReaderTypes /\ LineRead
  BY DEF Init, ChannelTypes, ReaderTypes, ReaderPcs, LineRead
<1>5. ModemTypes
  BY DEF Init, ModemTypes, IdleModem
<1>6. HistoryTypes
  BY DEF Init, HistoryTypes, Counts, Bounds
<1> QED
  BY <1>3, <1>4, <1>5, <1>6 DEF TypeInv, TypeOK

\* Every step keeps the invariant.
LEMMA TypeNext == TypeInv /\ [Next]_vars => TypeInv'
<1> SUFFICES ASSUME TypeInv, [Next]_vars PROVE TypeInv'
  OBVIOUS
<1> USE DEF TypeInv, TypeOK
<1>0. /\ Shaker \in Callers /\ Retries \in Nat \ {0} /\ Apis \subseteq AllApis
      /\ <<>> \in Seq(Lines)
  BY ChannelAssumption DEF AllApis
<1>1. ASSUME NEW c \in Callers, NEW a \in Apis, Call(c, a) PROVE TypeInv'
  <2>1. (ChannelTypes /\ ReaderTypes /\ ModemTypes /\ LineRead)'
    BY <1>1 DEF Call, ChannelTypes, ReaderTypes, ModemTypes, LineRead,
                channelVars, readerVars, modemVars
  <2>2. ThreadTypes'
    BY <1>0, <1>1 DEF Call, ThreadTypes, CallerPcs
  <2>3. TriesLeft'
    BY <1>0, <1>1 DEF Call, TriesLeft, Shaking, ThreadTypes
  <2>4. HistoryTypes'
    BY <1>1, BoundType DEF Call, HistoryTypes
  <2> QED
    BY <2>1, <2>2, <2>3, <2>4
<1>2. ASSUME NEW c \in Callers, LockG(c) PROVE TypeInv'
  <2>1. (ChannelTypes /\ ReaderTypes /\ ModemTypes /\ HistoryTypes /\ LineRead)'
    BY <1>2 DEF LockG, ChannelTypes, ReaderTypes, ModemTypes, HistoryTypes, LineRead, channelVars, readerVars, modemVars, history
  <2>2. ThreadTypes'
    BY <1>0, <1>2 DEF LockG, ThreadTypes, CallerPcs, AllApis
  <2>3. TriesLeft'
    BY <1>0, <1>2 DEF LockG, TriesLeft, Shaking, ThreadTypes
  <2> QED
    BY <2>1, <2>2, <2>3
<1>3. ASSUME NEW c \in Callers, Start(c) PROVE TypeInv'
  <2>1. (ReaderTypes /\ LineRead)'
    BY <1>3 DEF Start, ReaderTypes, LineRead, readerVars
  <2>2. UNCHANGED <<mutex, api, tries, fd, readerClosed, rx, modem, hungup,
                    bound, slips, closeCalls>>
    BY <1>3 DEF Start
  <2>3. ASSUME NEW e \in Errors, Return(c, Failed(e)),
               response' = None \/ response' = response,
               UNCHANGED <<waiters, tx, sent, emitted, pdus>>
        PROVE  TypeInv'
    <3>1. Failed(e) \in Results
      BY <2>3, FailedType
    <3>2. /\ pc' \in [Callers -> CallerPcs]
          /\ result' \in [Callers -> Results \cup {None}]
          /\ gmutex' \in Callers \cup {None}
          /\ pc'[Shaker] \in Shaking => pc[Shaker] \in Shaking
      BY <2>3, <3>1, ReturnType
    <3>3. (ThreadTypes /\ TriesLeft)'
      BY <2>2, <2>3, <3>2 DEF ThreadTypes, TriesLeft
    <3>4. (ChannelTypes /\ ModemTypes /\ HistoryTypes)'
      BY <2>2, <2>3 DEF ChannelTypes, ModemTypes, HistoryTypes
    <3> QED
      BY <2>1, <3>3, <3>4
  <2>4. ASSUME Post(c, api[c]), waiters' = waiters \cup {c},
               pc' = [pc EXCEPT ![c] = "wait"], UNCHANGED <<gmutex, result>>
        PROVE  TypeInv'
    <3>1. api[c] \in AllApis
      BY DEF ThreadTypes
    <3>2. /\ sent' \in Nat
          /\ emitted' \in Seq(Seq(Lines))
          /\ pdus' \in Seq(SUBSET Nat)
          /\ tx' \in Seq(Commands)
          /\ response' \in Responses
      BY <2>4, <3>1, PostType
    <3>3. (ThreadTypes /\ TriesLeft)'
      BY <1>0, <2>2, <2>4 DEF ThreadTypes, TriesLeft, CallerPcs, Shaking
    <3>4. (ChannelTypes /\ ModemTypes /\ HistoryTypes)'
      BY <2>2, <2>4, <3>2 DEF ChannelTypes, ModemTypes, HistoryTypes
    <3> QED
      BY <2>1, <3>3, <3>4
  <2> QED
    BY <1>3, <2>3, <2>4 DEF Start, Errors
<1>4. ASSUME NEW c \in Callers, Spurious(c) PROVE TypeInv'
  <2>1. (ChannelTypes /\ ReaderTypes /\ ModemTypes /\ HistoryTypes /\ LineRead)'
    BY <1>4 DEF Spurious, ChannelTypes, ReaderTypes, ModemTypes, HistoryTypes, LineRead, channelVars, readerVars, modemVars, history
  <2>2. ThreadTypes'
    BY <1>0, <1>4 DEF Spurious, ThreadTypes, CallerPcs, AllApis
  <2>3. TriesLeft'
    BY <1>0, <1>4 DEF Spurious, TriesLeft, Shaking, ThreadTypes
  <2> QED
    BY <2>1, <2>2, <2>3
<1>5. ASSUME NEW c \in Callers, Wake(c) PROVE TypeInv'
  <2>1. (ReaderTypes /\ ModemTypes /\ HistoryTypes /\ LineRead)'
    BY <1>5 DEF Wake, ReaderTypes, ModemTypes, HistoryTypes, LineRead,
                readerVars, modemVars, history
  <2>2. UNCHANGED <<mutex, api, tries, fd, readerClosed>>
    BY <1>5 DEF Wake
  <2>3. ChannelTypes'
    BY <1>5 DEF Wake, ChannelTypes
  <2>4. CASE pc' = [pc EXCEPT ![c] = "crashed"]
             /\ UNCHANGED <<waiters, gmutex, result>>
    BY <1>0, <2>1, <2>2, <2>3, <2>4
       DEF ThreadTypes, TriesLeft, CallerPcs, Shaking
  <2>5. CASE waiters' = waiters \cup {c} /\ UNCHANGED <<pc, gmutex, result>>
    BY <2>1, <2>2, <2>3, <2>5 DEF ThreadTypes, TriesLeft
  <2>6. CASE /\ response # None /\ Return(c, Outcome(response))
             /\ UNCHANGED waiters
    <3>1. Outcome(response) \in Results
      BY <2>6, OutcomeType DEF ChannelTypes
    <3>2. /\ pc' \in [Callers -> CallerPcs]
          /\ result' \in [Callers -> Results \cup {None}]
          /\ gmutex' \in Callers \cup {None}
          /\ pc'[Shaker] \in Shaking => pc[Shaker] \in Shaking
      BY <2>6, <3>1, ReturnType
    <3>3. (ThreadTypes /\ TriesLeft)'
      BY <2>2, <2>6, <3>2 DEF ThreadTypes, TriesLeft
    <3> QED
      BY <2>1, <2>3, <3>3
  <2> QED
    BY <1>5, <2>4, <2>5, <2>6 DEF Wake
<1>6. ASSUME Handshake PROVE TypeInv'
  <2>1. (ChannelTypes /\ ReaderTypes /\ ModemTypes /\ LineRead)'
    BY <1>6 DEF Handshake, ChannelTypes, ReaderTypes, ModemTypes, LineRead, channelVars, readerVars, modemVars
  <2>2. ThreadTypes'
    BY <1>0, <1>6 DEF Handshake, ThreadTypes, CallerPcs, AllApis
  <2>3. TriesLeft'
    BY <1>0, <1>6 DEF Handshake, TriesLeft, Shaking, ThreadTypes
  <2>4. HistoryTypes'
    BY <1>0, <1>6, SMTT(40) DEF Handshake, HistoryTypes, Bounds
  <2> QED
    BY <2>1, <2>2, <2>3, <2>4
<1>7. ASSUME HsLock PROVE TypeInv'
  <2>1. (ChannelTypes /\ ReaderTypes /\ ModemTypes /\ HistoryTypes /\ LineRead)'
    BY <1>7 DEF HsLock, ChannelTypes, ReaderTypes, ModemTypes, HistoryTypes, LineRead, channelVars, readerVars, modemVars, history
  <2>2. ThreadTypes'
    BY <1>0, <1>7 DEF HsLock, ThreadTypes, CallerPcs, AllApis
  <2>3. TriesLeft'
    BY <1>0, <1>7 DEF HsLock, TriesLeft, Shaking, ThreadTypes
  <2> QED
    BY <2>1, <2>2, <2>3
<1>8. ASSUME HsTry PROVE TypeInv'
  <2>1. (ReaderTypes /\ LineRead)'
    BY <1>8 DEF HsTry, ReaderTypes, LineRead, readerVars
  <2>2. /\ UNCHANGED <<gmutex, api, fd, readerClosed, rx, modem, hungup,
                       bound, slips, closeCalls>>
        /\ pc[Shaker] \in Shaking
    BY <1>8 DEF HsTry, Shaking
  <2>3. ASSUME NEW e \in Errors, HsNext(e),
               response' = None \/ response' = response,
               UNCHANGED <<waiters, tx, sent, emitted, pdus>>
        PROVE  TypeInv'
    <3>1. /\ tries' \in 0 .. Retries
          /\ mutex' \in {None, Shaker}
          /\ pc' \in [Callers -> CallerPcs]
          /\ result' \in [Callers -> Results \cup {None}]
          /\ TriesLeft'
      BY <2>2, <2>3, HsNextType
    <3>2. ThreadTypes'
      BY <2>2, <2>3, <3>1 DEF ThreadTypes
    <3>3. (ChannelTypes /\ ModemTypes /\ HistoryTypes)'
      BY <2>2, <2>3 DEF ChannelTypes, ModemTypes, HistoryTypes
    <3> QED
      BY <2>1, <3>1, <3>2, <3>3
  <2>4. ASSUME Post(Shaker, "plain"), waiters' = waiters \cup {Shaker},
               pc' = [pc EXCEPT ![Shaker] = "hswait"], mutex' = None,
               UNCHANGED <<tries, result>>
        PROVE  TypeInv'
    <3>1. "plain" \in AllApis
      BY DEF AllApis
    <3>2. /\ sent' \in Nat
          /\ emitted' \in Seq(Seq(Lines))
          /\ pdus' \in Seq(SUBSET Nat)
          /\ tx' \in Seq(Commands)
          /\ response' \in Responses
      BY <1>0, <2>4, <3>1, PostType
    <3>3. (ThreadTypes /\ TriesLeft)'
      BY <1>0, <2>2, <2>4 DEF ThreadTypes, TriesLeft, CallerPcs, Shaking
    <3>4. (ChannelTypes /\ ModemTypes /\ HistoryTypes)'
      BY <2>2, <2>4, <3>2 DEF ChannelTypes, ModemTypes, HistoryTypes
    <3> QED
      BY <2>1, <3>3, <3>4
  <2> QED
    BY <1>8, <2>3, <2>4 DEF HsTry, Errors
<1>9. ASSUME HsExpire PROVE TypeInv'
  <2>1. (ChannelTypes /\ ReaderTypes /\ ModemTypes /\ HistoryTypes /\ LineRead)'
    BY <1>9 DEF HsExpire, ChannelTypes, ReaderTypes, ModemTypes, HistoryTypes, LineRead, channelVars, readerVars, modemVars, history
  <2>2. ThreadTypes'
    BY <1>0, <1>9 DEF HsExpire, ThreadTypes, CallerPcs, AllApis
  <2>3. TriesLeft'
    BY <1>0, <1>9 DEF HsExpire, TriesLeft, Shaking, ThreadTypes
  <2> QED
    BY <2>1, <2>2, <2>3
<1>10. ASSUME HsTimeout PROVE TypeInv'
  <2>1. (ReaderTypes /\ ModemTypes /\ LineRead)'
    BY <1>10 DEF HsTimeout, ReaderTypes, ModemTypes, LineRead, readerVars,
                 modemVars
  <2>2. "timeout" \in Errors /\ pc[Shaker] \in Shaking /\ HsNext("timeout")
    BY <1>10 DEF HsTimeout, Errors, Shaking
  <2>3. /\ tries' \in 0 .. Retries
        /\ mutex' \in {None, Shaker}
        /\ pc' \in [Callers -> CallerPcs]
        /\ result' \in [Callers -> Results \cup {None}]
        /\ TriesLeft'
    BY <2>2, HsNextType
  <2>4. ThreadTypes'
    BY <1>10, <2>3 DEF HsTimeout, ThreadTypes
  <2>5. ChannelTypes'
    BY <1>10 DEF HsTimeout, ChannelTypes
  <2>6. HistoryTypes'
    BY <1>10 DEF HsTimeout, HistoryTypes
  <2> QED
    BY <2>1, <2>3, <2>4, <2>5, <2>6
<1>11. ASSUME HsWake PROVE TypeInv'
  <2>1. (ReaderTypes /\ ModemTypes /\ HistoryTypes /\ LineRead)'
    BY <1>11 DEF HsWake, ReaderTypes, ModemTypes, HistoryTypes, LineRead,
                 readerVars, modemVars, history
  <2>2. UNCHANGED <<gmutex, api>> /\ pc[Shaker] \in Shaking
    BY <1>11 DEF HsWake, Shaking
  <2>3. ChannelTypes'
    BY <1>11 DEF HsWake, ChannelTypes
  <2>4. CASE pc' = [pc EXCEPT ![Shaker] = "crashed"]
             /\ UNCHANGED <<mutex, waiters, tries, result>>
    BY <1>0, <2>1, <2>2, <2>3, <2>4
       DEF ThreadTypes, TriesLeft, CallerPcs, Shaking
  <2>5. CASE waiters' = waiters \cup {Shaker}
             /\ UNCHANGED <<mutex, pc, tries, result>>
    BY <1>0, <2>1, <2>2, <2>3, <2>5 DEF ThreadTypes, TriesLeft
  <2>6. CASE HsNext("closed") /\ UNCHANGED waiters
    <3>1. "closed" \in Errors
      BY DEF Errors
    <3>2. /\ tries' \in 0 .. Retries
          /\ mutex' \in {None, Shaker}
          /\ pc' \in [Callers -> CallerPcs]
          /\ result' \in [Callers -> Results \cup {None}]
          /\ TriesLeft'
      BY <2>2, <2>6, <3>1, HsNextType
    <3>3. ThreadTypes'
      BY <2>2, <2>6, <3>2 DEF ThreadTypes
    <3> QED
      BY <2>1, <2>3, <3>2, <3>3
  <2>7. CASE /\ mutex' = Shaker /\ pc' = [pc EXCEPT ![Shaker] = "hssleep"]
             /\ UNCHANGED <<waiters, tries, result>>
    BY <1>0, <2>1, <2>2, <2>3, <2>7
       DEF ThreadTypes, TriesLeft, CallerPcs, Shaking
  <2> QED
    BY <1>11, <2>4, <2>5, <2>6, <2>7 DEF HsWake
<1>12. ASSUME HsSleepEnd PROVE TypeInv'
  <2>1. (ChannelTypes /\ ReaderTypes /\ ModemTypes /\ LineRead)'
    BY <1>12 DEF HsSleepEnd, ChannelTypes, ReaderTypes, ModemTypes, LineRead,
                 channelVars, readerVars, modemVars
  <2>2. Failed("ok") \in Results
    BY FailedType DEF Errors
  <2>3. (ThreadTypes /\ TriesLeft)'
    BY <1>0, <1>12, <2>2
       DEF HsSleepEnd, ThreadTypes, TriesLeft, CallerPcs, Shaking
  <2>4. HistoryTypes'
    BY <1>12 DEF HsSleepEnd, HistoryTypes, history
  <2> QED
    BY <2>1, <2>3, <2>4
<1>13. ASSUME ReadLine PROVE TypeInv'
  <2>1. (ThreadTypes /\ ChannelTypes /\ HistoryTypes /\ TriesLeft)'
    BY <1>13 DEF ReadLine, ThreadTypes, ChannelTypes, HistoryTypes, TriesLeft,
                 threadVars, channelVars, history
  <2>2. Head(rx) \in Lines /\ Tail(rx) \in Seq(Lines)
    BY <1>13, HeadTailType DEF ReadLine, ModemTypes
  <2>3. (ReaderTypes /\ ModemTypes /\ LineRead)'
    BY <1>13, <2>2
       DEF ReadLine, ReaderTypes, ReaderPcs, ModemTypes, LineRead
  <2> QED
    BY <2>1, <2>3
<1>14. ASSUME ReadSecond PROVE TypeInv'
  <2>1. (ThreadTypes /\ ChannelTypes /\ HistoryTypes /\ TriesLeft)'
    BY <1>14 DEF ReadSecond, ThreadTypes, ChannelTypes, HistoryTypes, TriesLeft, threadVars, channelVars, history
  <2>2. ReaderTypes'
    BY <1>0, <1>14 DEF ReadSecond, ReaderTypes, ReaderPcs
  <2>3. LineRead'
    BY <1>0, <1>14 DEF ReadSecond, LineRead, ReaderTypes
  <2>4. ModemTypes'
    BY <1>0, <1>14 DEF ReadSecond, ModemTypes, IdleModem
  <2> QED
    BY <2>1, <2>2, <2>3, <2>4
<1>15. ASSUME ReadEOF PROVE TypeInv'
  <2>1. (ThreadTypes /\ ChannelTypes /\ ModemTypes /\ HistoryTypes /\ TriesLeft)'
    BY <1>15 DEF ReadEOF, ThreadTypes, ChannelTypes, ModemTypes, HistoryTypes, TriesLeft, threadVars, channelVars, modemVars, history
  <2>2. ReaderTypes'
    BY <1>0, <1>15 DEF ReadEOF, ReaderTypes, ReaderPcs
  <2>3. LineRead'
    BY <1>0, <1>15 DEF ReadEOF, LineRead, ReaderTypes
  <2> QED
    BY <2>1, <2>2, <2>3
<1>16. ASSUME ProcessLine PROVE TypeInv'
  <2>1. UNCHANGED <<mutex, gmutex, pc, api, tries, result, fd, readerClosed,
                    rx, tx, hungup, bound, sent, slips, emitted,
                    closeCalls>>
        /\ reader' = "read" /\ line' = None
    BY <1>16 DEF ProcessLine
  <2>2. line \in Lines
    BY <1>16 DEF ProcessLine, LineRead
  <2>3. waiters' \subseteq waiters
    BY <1>16, SignalType DEF ProcessLine, ThreadTypes
  <2>4. (ThreadTypes /\ TriesLeft)'
    BY <2>1, <2>3 DEF ThreadTypes, TriesLeft
  <2>5. (ReaderTypes /\ LineRead)'
    BY <2>1 DEF ReaderTypes, ReaderPcs, LineRead
  <2>6. response' \in Responses \cup {None}
    <3>1. CASE response = None
      BY <1>16, <3>1 DEF ProcessLine, ChannelTypes
    <3>2. CASE response # None
      <4>1. response \in Responses
        BY <3>2 DEF ChannelTypes
      <4>2. [response EXCEPT !.finalResponse = line] \in Responses
        BY <2>2, <4>1 DEF Responses
      <4>3. [response EXCEPT !.smsPDU = FALSE] \in Responses
        BY <4>1 DEF Responses
      <4>4. response.intermediates \in Seq(Lines)
        BY <4>1 DEF Responses
      <4>5. Append(response.intermediates, line) \in Seq(Lines)
        BY <2>2, <4>4, AppendType
      <4>6. [response EXCEPT !.intermediates = Append(@, line)] \in Responses
        BY <4>1, <4>5 DEF Responses
      <4> QED
        BY <1>16, <3>2, <4>1, <4>2, <4>3, <4>6 DEF ProcessLine
    <3> QED
      BY <3>1, <3>2
  <2>7. ChannelTypes'
    BY <2>1, <2>6 DEF ChannelTypes
  <2>8. modem' \in [inter : Nat, prompt : {"none", "asked", "sent"}]
    BY <1>16 DEF ProcessLine, ModemTypes
  <2>9. ModemTypes'
    BY <2>1, <2>8 DEF ModemTypes
  <2>10. pdus' \in Seq(SUBSET Nat)
    <3>1. line.of \in Nat
      BY <2>2 DEF Lines
    <3>2. \A n \in DOMAIN pdus : pdus[n] \cup {line.of} \in SUBSET Nat
      BY <3>1 DEF HistoryTypes
    <3>3. [pdus EXCEPT ![response.cmd] = @ \cup {line.of}] \in Seq(SUBSET Nat)
      BY <3>2, ExceptType DEF HistoryTypes
    <3> QED
      BY <1>16, <3>3 DEF ProcessLine, HistoryTypes
  <2>11. HistoryTypes'
    BY <2>1, <2>10 DEF HistoryTypes
  <2> QED
    BY <2>4, <2>5, <2>7, <2>9, <2>11
<1>17. ASSUME OnReaderClosedTest PROVE TypeInv'
  <2>1. (ThreadTypes /\ ChannelTypes /\ ModemTypes /\ HistoryTypes /\ TriesLeft)'
    BY <1>17 DEF OnReaderClosedTest, ThreadTypes, ChannelTypes, ModemTypes, HistoryTypes, TriesLeft, threadVars, channelVars, modemVars, history
  <2>2. ReaderTypes'
    BY <1>0, <1>17 DEF OnReaderClosedTest, ReaderTypes, ReaderPcs
  <2>3. LineRead'
    BY <1>0, <1>17 DEF OnReaderClosedTest, LineRead, ReaderTypes
  <2> QED
    BY <2>1, <2>2, <2>3
<1>18. ASSUME OnReaderClosed PROVE TypeInv'
  <2>1. ModemTypes'
    BY <1>18 DEF OnReaderClosed, ModemTypes, modemVars
  <2>2. waiters' \subseteq waiters
    BY <1>18, SignalType DEF OnReaderClosed, ThreadTypes
  <2>3. (ThreadTypes /\ TriesLeft)'
    BY <1>18, <2>2 DEF OnReaderClosed, ThreadTypes, TriesLeft
  <2>4. (ChannelTypes /\ ReaderTypes /\ LineRead)'
    BY <1>18 DEF OnReaderClosed, ChannelTypes, ReaderTypes, ReaderPcs, LineRead
  <2>5. HistoryTypes'
    BY <1>18 DEF OnReaderClosed, HistoryTypes
  <2> QED
    BY <2>1, <2>3, <2>4, <2>5
<1>19. ASSUME AtClose PROVE TypeInv'
  <2>1. (ThreadTypes /\ ModemTypes /\ HistoryTypes /\ TriesLeft)'
    BY <1>19 DEF AtClose, ThreadTypes, ModemTypes, HistoryTypes, TriesLeft, threadVars, modemVars, history
  <2>2. ChannelTypes'
    BY <1>0, <1>19 DEF AtClose, ChannelTypes, Responses
  <2>3. ReaderTypes'
    BY <1>0, <1>19 DEF AtClose, ReaderTypes, ReaderPcs
  <2>4. LineRead'
    BY <1>0, <1>19 DEF AtClose, LineRead, ReaderTypes
  <2> QED
    BY <2>1, <2>2, <2>3, <2>4
<1>20. ASSUME AtCloseSignal PROVE TypeInv'
  <2>1. (ModemTypes /\ HistoryTypes)'
    BY <1>20 DEF AtCloseSignal, ModemTypes, HistoryTypes, modemVars, history
  <2>2. waiters' \subseteq waiters
    BY <1>20, SignalType DEF AtCloseSignal, ThreadTypes
  <2>3. (ThreadTypes /\ TriesLeft)'
    BY <1>20, <2>2 DEF AtCloseSignal, ThreadTypes, TriesLeft
  <2>4. (ChannelTypes /\ ReaderTypes /\ LineRead)'
    BY <1>20 DEF AtCloseSignal, ChannelTypes, ReaderTypes, ReaderPcs, LineRead
  <2> QED
    BY <2>1, <2>3, <2>4
<1>21. ASSUME AtOpen PROVE TypeInv'
  <2>1. (ThreadTypes /\ TriesLeft)'
    BY <1>21 DEF AtOpen, ThreadTypes, TriesLeft, threadVars
  <2>2. bound.opens \in Nat /\ bound' \in Bounds
    BY <1>21, BoundType DEF AtOpen, HistoryTypes
  <2>3. ChannelTypes'
    <3>1. fd' \in Nat
      BY <1>21, <2>2 DEF AtOpen
    <3>2. readerClosed' \in BOOLEAN
      BY <1>21 DEF AtOpen
    <3>3. response' \in Responses \cup {None}
      BY <1>21 DEF AtOpen
    <3> QED
      BY <3>1, <3>2, <3>3 DEF ChannelTypes
  <2>7. (ReaderTypes /\ LineRead)'
    BY <1>21 DEF AtOpen, ReaderTypes, ReaderPcs, LineRead
  <2>4. HistoryTypes'
    BY <1>21, <2>2 DEF AtOpen, HistoryTypes
  <2>5. /\ <<>> \in Seq(Commands)
        /\ IdleModem \in [inter : Nat, prompt : {"none", "asked", "sent"}]
    BY DEF IdleModem
  <2>6. ModemTypes'
    BY <1>0, <1>21, <2>5 DEF AtOpen, ModemTypes
  <2> QED
    BY <2>1, <2>3, <2>4, <2>6, <2>7
<1>22. ASSUME ModemInter PROVE TypeInv'
  <2>1. (ThreadTypes /\ ChannelTypes /\ ReaderTypes /\ TriesLeft /\ LineRead)'
    BY <1>22 DEF ModemInter, ThreadTypes, ChannelTypes, ReaderTypes, TriesLeft,
                 LineRead, threadVars, channelVars, readerVars
  <2>2. PICK cls \in Classes :
          /\ Emit(Text(cls, Head(tx).id))
          /\ emitted' = [emitted EXCEPT ![Head(tx).id] =
                                          Append(@, Text(cls, Head(tx).id))]
    BY <1>22 DEF ModemInter, Classes
  <2>3. Head(tx) \in Commands
    BY <1>22, HeadTailType DEF ModemInter, ModemTypes
  <2>4. Text(cls, Head(tx).id) \in Lines
    BY <2>3, LineType DEF Commands
  <2>5. modem' \in [inter : Nat, prompt : {"none", "asked", "sent"}]
    BY <1>22 DEF ModemInter, ModemTypes
  <2>6. rx' \in Seq(Lines)
    BY <2>2, <2>4, AppendType DEF Emit, ModemTypes
  <2>7. ModemTypes'
    BY <1>22, <2>5, <2>6 DEF ModemInter, ModemTypes
  <2>8. emitted' \in Seq(Seq(Lines))
    <3>1. emitted \in Seq(Seq(Lines))
      BY DEF HistoryTypes
    <3>2. \A n \in DOMAIN emitted : emitted[n] \in Seq(Lines)
      BY <3>1
    <3>3. \A n \in DOMAIN emitted :
            Append(emitted[n], Text(cls, Head(tx).id)) \in Seq(Lines)
      BY <2>4, <3>2, AppendType
    <3> QED
      BY <2>2, <3>1, <3>3, ExceptType
  <2>9. HistoryTypes'
    BY <1>22, <2>8 DEF ModemInter, HistoryTypes
  <2> QED
    BY <2>1, <2>7, <2>9
<1>23. ASSUME ModemPrompt PROVE TypeInv'
  <2>1. (ThreadTypes /\ ChannelTypes /\ ReaderTypes /\ TriesLeft /\ LineRead
         /\ HistoryTypes)'
    BY <1>23 DEF ModemPrompt, ThreadTypes, ChannelTypes, ReaderTypes, TriesLeft,
                 LineRead, HistoryTypes, threadVars, channelVars, readerVars,
                 history
  <2>2. Head(tx) \in Commands
    BY <1>23, HeadTailType DEF ModemPrompt, ModemTypes
  <2>3. Word("PROMPT", Head(tx).id) \in Lines
    BY <2>2, LineType DEF Commands, LineKinds
  <2>4. rx' \in Seq(Lines)
    BY <1>23, <2>3, AppendType DEF ModemPrompt, Emit, ModemTypes
  <2>5. ModemTypes'
    BY <1>23, <2>4 DEF ModemPrompt, ModemTypes
  <2> QED
    BY <2>1, <2>5
<1>24. ASSUME ModemUnsolicited PROVE TypeInv'
  <2>1. (ThreadTypes /\ ChannelTypes /\ ReaderTypes /\ TriesLeft /\ LineRead)'
    BY <1>24 DEF ModemUnsolicited, ThreadTypes, ChannelTypes, ReaderTypes, TriesLeft,
                 LineRead, threadVars, channelVars, readerVars
  <2>2. bound' \in Bounds
    BY <1>24, BoundType DEF ModemUnsolicited, HistoryTypes
  <2>3. HistoryTypes'
    BY <1>24, <2>2 DEF ModemUnsolicited, HistoryTypes
  <2>4. rx \in Seq(Lines)
    BY DEF ModemTypes
  <2>5. CASE \E cls \in UrcClasses : Emit(Text(cls, 0))
    <3>1. \A cls \in UrcClasses : Text(cls, 0) \in Lines
      BY ChannelAssumption, LineType DEF Classes
    <3>2. rx' \in Seq(Lines)
      BY <2>4, <2>5, <3>1, AppendType DEF Emit
    <3> QED
      BY <1>24, <2>1, <2>3, <3>2 DEF ModemUnsolicited, ModemTypes
  <2>6. CASE rx' = rx \o <<Word("SMS", 0), Word("PDU", 0)>>
    <3>1. Word("SMS", 0) \in Lines /\ Word("PDU", 0) \in Lines
      BY LineType DEF LineKinds
    <3>2. <<Word("SMS", 0), Word("PDU", 0)>> \in Seq(Lines)
      BY <3>1
    <3>3. rx' \in Seq(Lines)
      BY <2>4, <2>6, <3>2
    <3> QED
      BY <1>24, <2>1, <2>3, <3>3 DEF ModemUnsolicited, ModemTypes
  <2> QED
    BY <1>24, <2>5, <2>6 DEF ModemUnsolicited
<1>25. ASSUME ModemStray PROVE TypeInv'
  <2>1. (ThreadTypes /\ ChannelTypes /\ ReaderTypes /\ TriesLeft /\ LineRead)'
    BY <1>25 DEF ModemStray, ThreadTypes, ChannelTypes, ReaderTypes, TriesLeft,
                 LineRead, threadVars, channelVars, readerVars
  <2>2. bound' \in Bounds
    BY <1>25, BoundType DEF ModemStray, HistoryTypes
  <2>3. HistoryTypes'
    BY <1>25, <2>2 DEF ModemStray, HistoryTypes
  <2>4. Word("ERROR", 0) \in Lines
    BY LineType DEF LineKinds
  <2>5. rx' \in Seq(Lines)
    BY <1>25, <2>4, AppendType DEF ModemStray, Emit, ModemTypes
  <2>6. ModemTypes'
    BY <1>25, <2>5 DEF ModemStray, ModemTypes
  <2> QED
    BY <2>1, <2>3, <2>6
<1>26. ASSUME ModemHangup PROVE TypeInv'
  <2>1. (ThreadTypes /\ ChannelTypes /\ ReaderTypes /\ HistoryTypes /\ TriesLeft /\ LineRead)'
    BY <1>26 DEF ModemHangup, ThreadTypes, ChannelTypes, ReaderTypes, HistoryTypes, TriesLeft, LineRead, threadVars, channelVars, readerVars, history
  <2>2. ModemTypes'
    BY <1>0, <1>26 DEF ModemHangup, ModemTypes, IdleModem
  <2> QED
    BY <2>1, <2>2
<1>27. ASSUME NEW k \in {"OK", "ERROR"}, ModemFinal(k) PROVE TypeInv'
  <2>1. (ThreadTypes /\ ChannelTypes /\ ReaderTypes /\ TriesLeft /\ LineRead
         /\ HistoryTypes)'
    BY <1>27 DEF ModemFinal, ThreadTypes, ChannelTypes, ReaderTypes, TriesLeft,
                 LineRead, HistoryTypes, threadVars, channelVars, readerVars,
                 history
  <2>2. Head(tx) \in Commands /\ Tail(tx) \in Seq(Commands)
    BY <1>27, HeadTailType DEF ModemFinal, ModemTypes
  <2>3. Word(k, Head(tx).id) \in Lines
    BY <2>2, LineType DEF Commands, LineKinds
  <2>4. rx' \in Seq(Lines)
    BY <1>27, <2>3, AppendType DEF ModemFinal, Emit, ModemTypes
  <2>5. IdleModem \in [inter : Nat, prompt : {"none", "asked", "sent"}]
    BY DEF IdleModem
  <2>6. ModemTypes'
    BY <1>27, <2>2, <2>4, <2>5 DEF ModemFinal, ModemTypes
  <2> QED
    BY <2>1, <2>6
<1>28. CASE UNCHANGED vars
  BY <1>28 DEF vars, threadVars, channelVars, readerVars, modemVars, history,
       ThreadTypes, ChannelTypes, ReaderTypes, ModemTypes, HistoryTypes,
       TriesLeft, LineRead
<1> QED
  BY <1>1, <1>2, <1>3, <1>4, <1>5, <1>6, <1>7, <1>8, <1>9, <1>10, <1>11, <1>12, <1>13, <1>14, <1>15, <1>16, <1>17, <1>18, <1>19, <1>20, <1>21, <1>22, <1>23, <1>24, <1>25, <1>26, <1>27, <1>28
     DEF Next, CallerStep, ShakerStep, ReaderStep, ModemStep

\* Every reachable state of the channel is of its type: in particular a
\* handshake makes at most HANDSHAKE_RETRY_COUNT attempts and processLine()
\* always has a line.
THEOREM TypeCorrect == Spec => []TypeOK
<1>1. TypeInv => TypeOK
  BY DEF TypeInv
<1> QED
  BY <1>1, TypeInit, TypeNext, PTL DEF Spec
-----------------------------------------------------------------------------
(* A waiting command                                                       *)

\* At most one thread is inside a command or a handshake.
LEMMA OneBusy ==
  ASSUME Serialized, TypeInv, PcShape, NEW c \in Callers, NEW d \in Callers,
         Busy(c), Busy(d)
  PROVE  c = d
<1>1. CASE Callers = {Shaker}
  BY <1>1
<1>2. CASE GMutex /\ MaxShakes = 0
  <2>1. pc \in [Callers -> CallerPcs]
    BY DEF TypeInv, TypeOK, ThreadTypes
  <2>2. pc[c] \in {"lock", "wait"} /\ pc[d] \in {"lock", "wait"}
    BY <1>2, <2>1 DEF PcShape, Busy, CallerPcs, Shaking
  <2> QED
    BY <1>2, <2>2 DEF PcShape
<1> QED
  BY <1>1, <1>2 DEF Serialized

\* The initial state satisfies the invariant.
LEMMA WaitInit == Init => WaitInv
<1> SUFFICES ASSUME Init PROVE WaitInv
  OBVIOUS
<1>1. \A c \in Callers : pc[c] = "idle"
  BY DEF Init
<1>2. PcShape /\ BeforeOpen
  BY <1>1 DEF Init, PcShape, BeforeOpen, Waiting, Shaking
<1>3. WaitersWait /\ WaiterOwnsResponse /\ ClosedWakesAll
  BY <1>1 DEF Init, WaitersWait, WaiterOwnsResponse, ClosedWakesAll, Waiting
<1> QED
  BY <1>2, <1>3, TypeInit DEF WaitInv, WaitRest

\* A step that touches neither the threads nor the channel's state keeps the
\* invariant.
LEMMA QuietStep ==
  ASSUME WaitRest, UNCHANGED <<threadVars, channelVars>>,
         bound'.opens = bound.opens
  PROVE  WaitRest'
BY DEF WaitRest, PcShape, BeforeOpen, WaitersWait, WaiterOwnsResponse,
       ClosedWakesAll, Waiting, threadVars, channelVars

\* The return of the only busy thread keeps the invariant, whatever it does
\* to the pending response.
LEMMA ReturnStep ==
  ASSUME Serialized, WaitInv, NEW c \in Callers, Busy(c), NEW r, Return(c, r),
         c \notin waiters,
         UNCHANGED <<waiters, fd, readerClosed, bound>>
  PROVE  WaitRest'
<1> USE DEF WaitInv, WaitRest
<1>1. pc \in [Callers -> CallerPcs] /\ pc' = [pc EXCEPT ![c] = "idle"]
  BY DEF TypeInv, TypeOK, ThreadTypes, Return
<1>2. \A d \in Callers : ~Busy(d)'
  <2>1. \A d \in Callers : d # c => ~Busy(d)
    BY OneBusy
  <2> QED
    BY <1>1, <2>1 DEF Busy
<1>3. \A d \in Callers : pc'[d] \in {"idle", "lockg", "crashed"}
  BY <1>2 DEF Busy
<1>4. \A d \in Callers : pc'[d] = "crashed" => pc[d] = "crashed"
  BY <1>1
<1>5. PcShape'
  BY <1>3 DEF PcShape, Shaking
<1>6. (BeforeOpen /\ WaiterOwnsResponse /\ ClosedWakesAll)'
  BY <1>3, <1>4 DEF BeforeOpen, WaiterOwnsResponse, ClosedWakesAll, Waiting
<1>7. WaitersWait'
  <2>1. waiters \subseteq Callers
    BY DEF TypeInv, TypeOK, ThreadTypes
  <2> QED
    BY <1>1, <2>1 DEF WaitersWait
<1> QED
  BY <1>5, <1>6, <1>7

\* Posting a command and waiting for it keeps the invariant: p is where the
\* thread waits.
LEMMA PostStep ==
  ASSUME Serialized, WaitInv, NEW c \in Callers, Busy(c),
         NEW a \in AllApis, Post(c, a),
         NEW p \in {"wait", "hswait"},
         p = "wait" => pc[c] = "lock",
         p = "hswait" => pc[c] \in Shaking,
         pc' = [pc EXCEPT ![c] = p],
         waiters' = waiters \cup {c}, Writeline("ok"),
         UNCHANGED <<gmutex, fd, readerClosed, bound>>
  PROVE  WaitRest'
<1> USE DEF WaitInv, WaitRest
<1>1. pc \in [Callers -> CallerPcs] /\ waiters \subseteq Callers
  BY DEF TypeInv, TypeOK, ThreadTypes
<1>2. \A d \in Callers : d # c => ~Busy(d)
  BY OneBusy
<1>3. pc'[c] = p /\ \A d \in Callers : d # c => pc'[d] = pc[d]
  BY <1>1
<1>4. response' # None /\ response'.owner = c
  BY PostType DEF TypeInv
<1>5. fd # 0 /\ ~readerClosed
  BY DEF Writeline
<1>6. PcShape'
  <2>1. \A d \in Callers : pc'[d] \in Shaking => pc[d] \in Shaking
    BY <1>3 DEF Shaking
  <2>2. GMutex => \A d \in Callers : pc'[d] \in {"lock", "wait"} => gmutex = d
    BY <1>3 DEF PcShape
  <2> QED
    BY <2>1, <2>2 DEF PcShape
<1>7. WaiterOwnsResponse'
  <2>1. \A d \in Callers : d # c => ~Waiting(d)'
    BY <1>2, <1>3 DEF Busy, Waiting
  <2>2. \A d \in Callers : pc'[d] # "crashed"
    BY <1>3 DEF WaiterOwnsResponse
  <2> QED
    BY <1>4, <2>1, <2>2 DEF WaiterOwnsResponse
<1>8. (BeforeOpen /\ ClosedWakesAll)'
  BY <1>5 DEF BeforeOpen, ClosedWakesAll
<1>9. WaitersWait'
  BY <1>1, <1>3 DEF WaitersWait
<1> QED
  BY <1>6, <1>7, <1>8, <1>9

\* The end of a failed attempt keeps the invariant.
LEMMA HsNextStep ==
  ASSUME Serialized, WaitInv, NEW e, HsNext(e), pc[Shaker] \in Shaking,
         Shaker \notin waiters,
         UNCHANGED <<waiters, gmutex, fd, readerClosed, bound>>
  PROVE  WaitRest'
<1> USE DEF WaitInv, WaitRest
<1>1. Shaker \in Callers /\ pc \in [Callers -> CallerPcs]
      /\ waiters \subseteq Callers
  BY ChannelAssumption DEF TypeInv, TypeOK, ThreadTypes
<1>2. \A d \in Callers : d # Shaker => ~Busy(d)
  BY <1>1, OneBusy DEF Busy, Shaking
<1>3. /\ pc'[Shaker] \in {"hstry", "idle"}
      /\ \A d \in Callers : d # Shaker => pc'[d] = pc[d]
  BY <1>1 DEF HsNext
<1>4. \A d \in Callers : ~Waiting(d)'
  BY <1>2, <1>3 DEF Busy, Waiting
<1>5. PcShape'
  <2>1. \A d \in Callers : pc'[d] \in Shaking => pc[d] \in Shaking
    BY <1>3 DEF Shaking
  <2>2. GMutex => \A d \in Callers : pc'[d] \in {"lock", "wait"} => gmutex = d
    BY <1>3 DEF PcShape
  <2> QED
    BY <2>1, <2>2 DEF PcShape
<1>6. (BeforeOpen /\ WaiterOwnsResponse /\ ClosedWakesAll)'
  BY <1>3, <1>4 DEF BeforeOpen, WaiterOwnsResponse, ClosedWakesAll
<1>7. WaitersWait'
  BY <1>1, <1>3 DEF WaitersWait
<1> QED
  BY <1>5, <1>6, <1>7

\* A thread moves to another control point, at which it waits no more and
\* no less than before, and the channel is left alone.
LEMMA MoveStep ==
  ASSUME WaitInv, NEW c \in Callers, NEW p,
         p \in {"idle", "lockg", "lock", "hslock", "hstry", "hslate", "hssleep"},
         pc' = [pc EXCEPT ![c] = p],
         p = "hslate" => pc[c] = "hswait",
         p \in Shaking => c = Shaker /\ MaxShakes # 0,
         p = "lock" /\ GMutex => gmutex' = c,
         \A d \in Callers : d # c /\ GMutex /\ pc[d] \in {"lock", "wait"}
                              => gmutex' = d,
         waiters' = waiters \ {c} \/ waiters' = waiters,
         pc[c] \in {"wait", "hswait"} => c \notin waiters',
         UNCHANGED <<fd, readerClosed, response>>,
         bound'.opens = bound.opens
  PROVE  WaitRest'
<1> USE DEF WaitInv, WaitRest
<1>1. pc \in [Callers -> CallerPcs] /\ waiters \subseteq Callers
  BY DEF TypeInv, TypeOK, ThreadTypes
<1>2. pc'[c] = p /\ \A d \in Callers : d # c => pc'[d] = pc[d]
  BY <1>1
<1>3. \A d \in Callers : Waiting(d)' => Waiting(d)
  BY <1>2 DEF Waiting
<1>4. PcShape'
  BY <1>2 DEF PcShape
<1>5. (BeforeOpen /\ WaiterOwnsResponse /\ ClosedWakesAll)'
  <2>1. WaiterOwnsResponse'
    BY <1>2, <1>3 DEF WaiterOwnsResponse
  <2>2. BeforeOpen'
    BY <1>3 DEF BeforeOpen
  <2>3. ClosedWakesAll'
    BY DEF ClosedWakesAll
  <2> QED
    BY <2>1, <2>2, <2>3
<1>6. WaitersWait'
  BY <1>1, <1>2 DEF WaitersWait
<1> QED
  BY <1>4, <1>5, <1>6

\* pthread_cond_signal wakes every waiter, since there is at most one.
LEMMA SignalWakesAll ==
  ASSUME Serialized, WaitInv, Signal
  PROVE  waiters' = {}
<1>1. waiters \subseteq Callers
  BY DEF WaitInv, TypeInv, TypeOK, ThreadTypes
<1>2. \A c, d \in waiters : c = d
  BY <1>1, OneBusy DEF WaitInv, WaitRest, WaitersWait, Busy
<1> QED
  BY <1>2 DEF Signal

\* Every step keeps the invariant.
LEMMA WaitNext == Serialized /\ WaitInv /\ [Next]_vars => WaitInv'
<1> SUFFICES ASSUME Serialized, WaitInv, [Next]_vars PROVE WaitRest'
  BY TypeNext DEF WaitInv
<1>0. /\ Shaker \in Callers /\ None \notin Callers
      /\ {MaxOpens, MaxShakes} \subseteq Nat /\ Apis \subseteq AllApis
  BY ChannelAssumption DEF AllApis
<1>a. /\ TypeInv /\ TypeOK /\ WaitRest
      /\ pc \in [Callers -> CallerPcs] /\ waiters \subseteq Callers
      /\ bound \in Bounds
      /\ response \in Responses \cup {None}
  BY DEF WaitInv, TypeInv, TypeOK, ThreadTypes, HistoryTypes, ChannelTypes
<1>b. \A c \in Callers : c \in waiters => pc[c] \in {"wait", "hswait"}
  BY <1>a DEF WaitRest, WaitersWait
<1>1. ASSUME NEW c \in Callers, NEW a \in Apis, Call(c, a) PROVE WaitRest'
  <2>1. bound'.opens = bound.opens
    BY <1>1, <1>a DEF Call, Bounds
  <2>2. \A d \in Callers : d # c /\ GMutex /\ pc[d] \in {"lock", "wait"}
                             => gmutex' = d
    BY <1>1, <1>a DEF Call, WaitRest, PcShape
  <2> QED
    BY <1>1, <1>a, <2>1, <2>2, MoveStep DEF Call, Shaking, channelVars
<1>2. ASSUME NEW c \in Callers, LockG(c) PROVE WaitRest'
  <2>1. \A d \in Callers : d # c /\ GMutex /\ pc[d] \in {"lock", "wait"}
                             => gmutex' = d
    BY <1>0, <1>2, <1>a DEF LockG, WaitRest, PcShape
  <2> QED
    BY <1>2, <1>a, <2>1, MoveStep DEF LockG, Shaking, channelVars, history
<1>3. ASSUME NEW c \in Callers, Start(c) PROVE WaitRest'
  <2>1. Busy(c) /\ c \notin waiters /\ pc[c] = "lock"
        /\ UNCHANGED <<fd, readerClosed, bound>>
    BY <1>3, <1>b DEF Start, Busy
  <2>2. ASSUME NEW r, Return(c, r), UNCHANGED waiters PROVE WaitRest'
    BY <2>1, <2>2, ReturnStep
  <2>3. CASE /\ Writeline("ok") /\ Post(c, api[c])
             /\ waiters' = waiters \cup {c}
             /\ pc' = [pc EXCEPT ![c] = "wait"] /\ UNCHANGED gmutex
    <3>1. api[c] \in AllApis
      BY <1>a DEF TypeOK, ThreadTypes
    <3> QED
      BY <2>1, <2>3, <3>1, PostStep
  <2> QED
    BY <1>3, <2>2, <2>3 DEF Start
<1>4. ASSUME NEW c \in Callers, Spurious(c) PROVE WaitRest'
  BY <1>4, <1>a DEF Spurious, WaitRest, PcShape, BeforeOpen, WaitersWait,
     WaiterOwnsResponse, ClosedWakesAll, Waiting, channelVars, history
<1>5. ASSUME NEW c \in Callers, Wake(c) PROVE WaitRest'
  <2>1. Busy(c) /\ c \notin waiters
        /\ UNCHANGED <<fd, readerClosed, bound>>
    BY <1>5 DEF Wake, Busy, history
  <2>2. response # None
    BY <1>5, <1>a DEF Wake, WaitRest, WaiterOwnsResponse, Waiting
  <2>3. CASE /\ ~readerClosed /\ waiters' = waiters \cup {c}
             /\ UNCHANGED <<response, pc, gmutex>>
    BY <1>5, <1>a, <2>1, <2>3
       DEF Wake, WaitRest, PcShape, BeforeOpen, WaitersWait,
           WaiterOwnsResponse, ClosedWakesAll, Waiting
  <2>4. ASSUME NEW r, Return(c, r), UNCHANGED waiters PROVE WaitRest'
    BY <2>1, <2>4, ReturnStep
  <2> QED
    BY <1>5, <2>2, <2>3, <2>4 DEF Wake
<1>6. ASSUME Handshake PROVE WaitRest'
  <2>1. bound'.opens = bound.opens /\ MaxShakes # 0
    BY <1>0, <1>6, <1>a DEF Handshake, Bounds
  <2>2. \A d \in Callers : d # Shaker /\ GMutex /\ pc[d] \in {"lock", "wait"}
                             => gmutex' = d
    BY <1>6, <1>a DEF Handshake, WaitRest, PcShape
  <2> QED
    BY <1>0, <1>6, <1>a, <2>1, <2>2, MoveStep DEF Handshake, channelVars
<1>7. ASSUME HsLock PROVE WaitRest'
  <2>1. MaxShakes # 0
    BY <1>0, <1>7, <1>a DEF HsLock, WaitRest, PcShape, Shaking
  <2>2. \A d \in Callers : d # Shaker /\ GMutex /\ pc[d] \in {"lock", "wait"}
                             => gmutex' = d
    BY <1>7, <1>a DEF HsLock, WaitRest, PcShape
  <2> QED
    BY <1>0, <1>7, <1>a, <2>1, <2>2, MoveStep DEF HsLock, channelVars, history
<1>8. ASSUME HsTry PROVE WaitRest'
  <2>1. /\ Busy(Shaker) /\ Shaker \notin waiters /\ pc[Shaker] \in Shaking
        /\ UNCHANGED <<gmutex, fd, readerClosed, bound>>
    BY <1>0, <1>8, <1>b DEF HsTry, Busy, Shaking
  <2>2. ASSUME NEW e, HsNext(e), UNCHANGED waiters PROVE WaitRest'
    BY <2>1, <2>2, HsNextStep
  <2>3. CASE /\ Writeline("ok") /\ Post(Shaker, "plain")
             /\ waiters' = waiters \cup {Shaker}
             /\ pc' = [pc EXCEPT ![Shaker] = "hswait"]
    <3>1. "plain" \in AllApis
      BY DEF AllApis
    <3> QED
      BY <1>0, <2>1, <2>3, <3>1, PostStep
  <2> QED
    BY <1>8, <2>2, <2>3 DEF HsTry
<1>9. ASSUME HsExpire PROVE WaitRest'
  <2>1. MaxShakes # 0
    BY <1>0, <1>9, <1>a DEF HsExpire, WaitRest, PcShape, Shaking
  <2>2. \A d \in Callers : d # Shaker /\ GMutex /\ pc[d] \in {"lock", "wait"}
                             => gmutex' = d
    BY <1>9, <1>a DEF HsExpire, WaitRest, PcShape
  <2> QED
    BY <1>0, <1>9, <1>a, <2>1, <2>2, MoveStep
       DEF HsExpire, channelVars, history
<1>10. ASSUME HsTimeout PROVE WaitRest'
  <2>1. /\ Shaker \notin waiters /\ pc[Shaker] \in Shaking
        /\ UNCHANGED <<waiters, gmutex, fd, readerClosed, bound>>
    BY <1>0, <1>10, <1>b DEF HsTimeout, Shaking
  <2> QED
    BY <1>10, <2>1, HsNextStep DEF HsTimeout
<1>11. ASSUME HsWake PROVE WaitRest'
  <2>1. /\ Busy(Shaker) /\ Shaker \notin waiters /\ pc[Shaker] \in Shaking
        /\ UNCHANGED <<gmutex, fd, readerClosed, bound>>
    BY <1>11 DEF HsWake, Busy, Shaking, history
  <2>2. response # None
    BY <1>0, <1>11, <1>a DEF HsWake, WaitRest, WaiterOwnsResponse, Waiting
  <2>3. CASE /\ ~readerClosed /\ waiters' = waiters \cup {Shaker}
             /\ UNCHANGED <<response, pc>>
    BY <1>0, <1>11, <1>a, <2>1, <2>3
       DEF HsWake, WaitRest, PcShape, BeforeOpen, WaitersWait,
           WaiterOwnsResponse, ClosedWakesAll, Waiting
  <2>4. CASE HsNext("closed") /\ UNCHANGED waiters
    BY <2>1, <2>4, HsNextStep
  <2>5. CASE /\ pc' = [pc EXCEPT ![Shaker] = "hssleep"] /\ UNCHANGED waiters
    <3>1. \A d \in Callers : d # Shaker => ~Busy(d)
      BY <1>0, <1>a, <2>1, OneBusy DEF WaitRest
    <3>2. /\ pc'[Shaker] = "hssleep"
          /\ \A d \in Callers : d # Shaker => pc'[d] = pc[d]
      BY <1>0, <1>a, <2>5
    <3>3. \A d \in Callers : ~Waiting(d)' /\ pc'[d] # "crashed"
      BY <1>a, <3>1, <3>2 DEF Waiting, Busy, WaitRest, WaiterOwnsResponse
    <3>4. PcShape'
      <4>1. \A d \in Callers : pc'[d] \in Shaking => pc[d] \in Shaking
        BY <2>1, <3>2
      <4>2. \A d \in Callers : pc'[d] \in {"lock", "wait"} => pc'[d] = pc[d]
        BY <3>2
      <4> QED
        BY <1>a, <2>1, <4>1, <4>2 DEF PcShape, WaitRest
    <3>5. WaitersWait'
      BY <1>a, <2>1, <2>5, <3>2 DEF WaitRest, WaitersWait
    <3> QED
      BY <1>a, <2>1, <2>5, <3>3, <3>4, <3>5
         DEF WaitRest, BeforeOpen, WaiterOwnsResponse, ClosedWakesAll
  <2> QED
    BY <1>11, <2>2, <2>3, <2>4, <2>5 DEF HsWake
<1>12. ASSUME HsSleepEnd PROVE WaitRest'
  <2>1. \A d \in Callers : d # Shaker /\ GMutex /\ pc[d] \in {"lock", "wait"}
                             => gmutex' = d
    BY <1>12, <1>a DEF HsSleepEnd, WaitRest, PcShape
  <2> QED
    BY <1>0, <1>12, <1>a, <2>1, MoveStep DEF HsSleepEnd, Shaking, channelVars, history
<1>13. ASSUME ReadLine \/ ReadSecond \/ ReadEOF \/ OnReaderClosedTest
       PROVE  WaitRest'
  BY <1>13, <1>a, QuietStep
     DEF ReadLine, ReadSecond, ReadEOF, OnReaderClosedTest, history
<1>14. ASSUME ProcessLine PROVE WaitRest'
  <2>1. waiters' \subseteq waiters
    BY <1>14, <1>a, SignalType DEF ProcessLine
  <2>2. UNCHANGED <<gmutex, pc, fd, readerClosed, bound>>
    BY <1>14 DEF ProcessLine
  <2>3. ASSUME response # None
        PROVE  response' # None /\ response'.owner = response.owner
    <3>1. response \in Responses /\ None \notin Responses
      BY <1>a, <2>3, NoneAssumption
    <3>2. /\ response' \in Responses \cup {None}
      BY <1>14, <1>a, TypeNext DEF TypeInv, TypeOK, ChannelTypes
    <3>3. \/ response' = response
          \/ response' = [response EXCEPT !.finalResponse = line]
          \/ response' = [response EXCEPT !.smsPDU = FALSE]
          \/ response' = [response EXCEPT !.intermediates = Append(@, line)]
      BY <1>14, <2>3 DEF ProcessLine
    <3>4. line \in Lines
      BY <1>14, <1>a DEF ProcessLine, TypeInv, LineRead
    <3>5. /\ [response EXCEPT !.finalResponse = line] \in Responses
          /\ [response EXCEPT !.smsPDU = FALSE] \in Responses
      BY <3>1, <3>4 DEF Responses
    <3>6. [response EXCEPT !.intermediates = Append(@, line)] \in Responses
      <4>1. response.intermediates \in Seq(Lines)
        BY <3>1 DEF Responses
      <4>2. Append(response.intermediates, line) \in Seq(Lines)
        BY <3>4, <4>1, AppendType
      <4> QED
        BY <3>1, <4>2 DEF Responses
    <3>7. response' # None
      BY <3>1, <3>3, <3>5, <3>6
    <3>8. response'.owner = response.owner
      BY <3>1, <3>3 DEF Responses
    <3> QED
      BY <3>7, <3>8
  <2> QED
    BY <1>a, <2>1, <2>2, <2>3
       DEF WaitRest, PcShape, BeforeOpen, WaitersWait, WaiterOwnsResponse,
           ClosedWakesAll, Waiting
<1>15. ASSUME OnReaderClosed \/ AtCloseSignal PROVE WaitRest'
  <2>1. UNCHANGED <<gmutex, pc, fd, response>> /\ bound' = bound /\ Signal
    BY <1>15 DEF OnReaderClosed, AtCloseSignal, history
  <2>2. waiters' = {}
    BY <2>1, SignalWakesAll
  <2> QED
    BY <1>a, <2>1, <2>2
       DEF WaitRest, PcShape, BeforeOpen, WaitersWait, WaiterOwnsResponse,
           ClosedWakesAll, Waiting
<1>16. ASSUME AtClose PROVE WaitRest'
  BY <1>16, <1>a
     DEF AtClose, WaitRest, PcShape, BeforeOpen, WaitersWait,
         WaiterOwnsResponse, ClosedWakesAll, Waiting, threadVars, history
<1>17. ASSUME AtOpen PROVE WaitRest'
  <2>1. bound.opens = 0
    BY <1>0, <1>17, <1>a DEF AtOpen, Serialized, Bounds
  <2>2. \A c \in Callers : ~Waiting(c)
    BY <1>a, <2>1 DEF WaitRest, BeforeOpen
  <2>3. bound'.opens # 0
    BY <1>17, <1>a, <2>1 DEF AtOpen, Bounds
  <2> QED
    BY <1>17, <1>a, <2>2, <2>3
       DEF AtOpen, WaitRest, PcShape, BeforeOpen, WaitersWait,
           WaiterOwnsResponse, ClosedWakesAll, Waiting, threadVars
<1>18. ASSUME ModemStep PROVE WaitRest'
  <2>1. UNCHANGED <<threadVars, channelVars>>
    BY <1>18 DEF ModemStep, ModemInter, ModemPrompt, ModemFinal,
                 ModemUnsolicited, ModemStray, ModemHangup
  <2>2. bound'.opens = bound.opens
    BY <1>18, <1>a DEF ModemStep, ModemInter, ModemPrompt, ModemFinal,
       ModemUnsolicited, ModemStray, ModemHangup, history, Bounds
  <2> QED
    BY <1>a, <2>1, <2>2, QuietStep
<1>19. CASE UNCHANGED vars
  BY <1>19, <1>a, QuietStep DEF vars, history
<1> QED
  BY <1>1, <1>2, <1>3, <1>4, <1>5, <1>6, <1>7, <1>8, <1>9, <1>10, <1>11,
     <1>12, <1>13, <1>14, <1>15, <1>16, <1>17, <1>18, <1>19
     DEF Next, CallerStep, ShakerStep, ReaderStep

\* When commands are serialized, sp_response belongs to the thread that
\* waits for it from the write to the wake-up: at_send_command_full_nolock()
\* never reads through a NULL sp_response.
THEOREM WaiterSafe == Serialized => (Spec => []WaiterOwnsResponse)
<1> SUFFICES ASSUME Serialized PROVE Spec => []WaiterOwnsResponse
  OBVIOUS
<1>1. WaitInv /\ [Next]_vars => WaitInv'
  BY WaitNext
<1>2. WaitInv => WaiterOwnsResponse
  BY DEF WaitInv, WaitRest
<1> QED
  BY <1>1, <1>2, WaitInit, PTL DEF Spec

\* When commands are serialized, the close of the channel leaves no command
\* asleep: the single pthread_cond_signal() of onReaderClosed() is enough.
THEOREM CloseWakes == Serialized => (Spec => []ClosedWakesAll)
<1> SUFFICES ASSUME Serialized PROVE Spec => []ClosedWakesAll
  OBVIOUS
<1>1. WaitInv /\ [Next]_vars => WaitInv'
  BY WaitNext
<1>2. WaitInv => ClosedWakesAll
  BY DEF WaitInv, WaitRest
<1> QED
  BY <1>1, <1>2, WaitInit, PTL DEF Spec
-----------------------------------------------------------------------------
(***************************************************************************)
(* Whose answer a command gets.  The channel does not number its commands: *)
(* processLine() gives a final response to whatever command is pending.    *)
(* The invariant follows every answer on its way, from the command in tx   *)
(* through rx to the line the reader holds, and counts how many commands   *)
(* it can be behind when it arrives.                                       *)
(***************************************************************************)

\* the final responses, and those that no command asked for
Final(l) == l.k \in {"OK", "ERROR"}
StrayAt(q) == {i \in DOMAIN q : Final(q[i]) /\ q[i].of = 0}
Strays(q) == Cardinality(StrayAt(q))

\* the lines the reader has still to process, the one it holds first
Incoming == IF reader = "process" THEN <<line>> \o rx ELSE rx

\* 1 while the last command waits for a final response
Open == IF response # None /\ response.finalResponse = None THEN 1 ELSE 0

\* The final responses in q and then the answers to the commands in t come
\* in the order in which the n commands were written.
Ordered(q, t, n) ==
  /\ \A i \in DOMAIN q : Final(q[i]) => q[i].of <= n
  /\ \A i, j \in DOMAIN q :
       i < j /\ Final(q[i]) /\ Final(q[j]) /\ q[j].of > 0 => q[i].of < q[j].of
  /\ \A i \in DOMAIN q, j \in DOMAIN t : Final(q[i]) => q[i].of < t[j].id
  /\ \A i, j \in DOMAIN t : i < j => t[i].id < t[j].id
  /\ \A j \in DOMAIN t : t[j].id \in 1 .. n

\* No answer still to come is further behind than the answers left over, s
\* of them, allow; o is Open.
Behind(q, t, n, s, o) ==
  /\ Strays(q) <= s
  /\ \A i \in DOMAIN q :
       Final(q[i]) /\ q[i].of > 0 => n + Strays(q) + 1 <= q[i].of + s + o
  /\ \A j \in DOMAIN t : n + Strays(q) + 1 <= t[j].id + s + o

\* A prompt or an intermediate line comes before the final response of its
\* command.
Asked(l) == ~Final(l) /\ (l.of > 0 \/ l.k = "PROMPT")
Preceding(q, t) ==
  \A i \in DOMAIN q : Asked(q[i]) =>
    \/ \E j \in DOMAIN q : i < j /\ Final(q[j]) /\ q[j].of = q[i].of /\ q[j].of > 0
    \/ \E j \in DOMAIN t : t[j].id = q[i].of

Good(q, t, n, s, o) == Ordered(q, t, n) /\ Behind(q, t, n, s, o) /\ Preceding(q, t)

\* The final response f is right for command n, with s answers left over.
Lagging(f, n, s) == \/ f.of = 0 /\ s > 0
                    \/ f.of > 0 /\ f.of <= n /\ n <= f.of + s

\* A pending response has a thread that waits for it.
PendingWaits == response # None => \E c \in Callers : Waiting(c)

\* A closed channel has no reader that still processes lines.
ReaderGone == readerClosed => reader \in {"callback", "closefd", "dead"}

\* The pending command is the last one written.
Last == response # None => response.cmd = sent /\ sent > 0

\* The final response it has, if any, is no further behind than the answers
\* left over allow, and neither is any that is still to come.
Matched ==
  response # None /\ response.finalResponse # None
    => Lagging(response.finalResponse, sent, slips)
Streaming == ~readerClosed => Good(Incoming, tx, sent, slips, Open)

\* The PDU of a command is not written while s_smsPDU is set, and once at
\* most after that.
Unwritten == response # None /\ response.smsPDU => pdus[response.cmd] = {}
Written ==
  /\ Len(pdus) = sent
  /\ \A n \in 1 .. sent : /\ pdus[n] = {} \/ \E p \in Nat : pdus[n] = {p}
                          /\ slips = 0 => pdus[n] \subseteq {n}

\* What the callers were told.
Answers ==
  \A c \in Callers : Answered(result[c]) =>
    result[c].final \in Lines /\ Lagging(result[c].final, result[c].cmd, slips)

Book == Last /\ Matched /\ Unwritten /\ Written /\ Answers
LagInv == PendingWaits /\ ReaderGone /\ Streaming /\ Book
-----------------------------------------------------------------------------
(* What the streams of lines and commands keep                             *)

\* A sequence at its ends.
LEMMA Ends ==
  ASSUME NEW S, NEW q \in Seq(S)
  PROVE  /\ DOMAIN q = 1 .. Len(q) /\ Len(q) \in Nat
         /\ \A x \in S : /\ Append(q, x) \in Seq(S)
                         /\ Len(Append(q, x)) = Len(q) + 1
                         /\ DOMAIN Append(q, x) = 1 .. Len(q) + 1
                         /\ Append(q, x)[Len(q) + 1] = x
                         /\ \A i \in 1 .. Len(q) : Append(q, x)[i] = q[i]
         /\ q # <<>> => /\ Tail(q) \in Seq(S) /\ Len(q) >= 1
                        /\ Head(q) = q[1] /\ Head(q) \in S
                        /\ DOMAIN Tail(q) = 1 .. Len(q) - 1
                        /\ \A i \in 1 .. Len(q) - 1 : Tail(q)[i] = q[i + 1]
OBVIOUS

\* The line the reader holds and those behind it.
LEMMA Held ==
  ASSUME NEW S, NEW x \in S, NEW q \in Seq(S)
  PROVE  /\ <<x>> \o q \in Seq(S) /\ <<x>> \o q # <<>>
         /\ Head(<<x>> \o q) = x /\ Tail(<<x>> \o q) = q
         /\ \A y \in S : <<x>> \o Append(q, y) = Append(<<x>> \o q, y)
         /\ q # <<>> => <<Head(q)>> \o Tail(q) = q
<1>1. <<x>> \in Seq(S) /\ Len(<<x>>) = 1 /\ <<x>>[1] = x
  OBVIOUS
<1>2. /\ <<x>> \o q \in Seq(S) /\ Len(<<x>> \o q) = 1 + Len(q)
      /\ (<<x>> \o q)[1] = x
      /\ \A i \in 1 .. Len(q) : (<<x>> \o q)[i + 1] = q[i]
  BY <1>1, ConcatProperties
<1>3. <<x>> \o q # <<>> /\ Head(<<x>> \o q) = x
  BY <1>2
<1>4. Tail(<<x>> \o q) = q
  <2>1. /\ Tail(<<x>> \o q) \in Seq(S) /\ Len(Tail(<<x>> \o q)) = Len(q)
        /\ \A i \in 1 .. Len(q) : Tail(<<x>> \o q)[i] = q[i]
    BY <1>2, <1>3
  <2> QED
    BY <2>1, SeqEqual
<1>5. ASSUME NEW y \in S PROVE <<x>> \o Append(q, y) = Append(<<x>> \o q, y)
  <2>1. <<y>> \in Seq(S)
    OBVIOUS
  <2>2. Append(q, y) = q \o <<y>> /\ Append(<<x>> \o q, y) = (<<x>> \o q) \o <<y>>
    BY <1>2, AppendIsConcat
  <2> QED
    BY <1>1, <2>1, <2>2, ConcatAssociative
<1>6. ASSUME q # <<>> PROVE <<Head(q)>> \o Tail(q) = q
  <2>1. /\ Head(q) \in S /\ Tail(q) \in Seq(S) /\ Head(q) = q[1]
        /\ Len(q) = 1 + Len(Tail(q)) /\ Len(Tail(q)) \in Nat
        /\ \A i \in 1 .. Len(Tail(q)) : Tail(q)[i] = q[i + 1]
    BY <1>6
  <2>2. <<Head(q)>> \in Seq(S) /\ Len(<<Head(q)>>) = 1 /\ <<Head(q)>>[1] = Head(q)
    BY <2>1
  <2>3. /\ <<Head(q)>> \o Tail(q) \in Seq(S)
        /\ Len(<<Head(q)>> \o Tail(q)) = Len(q)
        /\ \A i \in 1 .. Len(q) : (<<Head(q)>> \o Tail(q))[i]
              = IF i <= 1 THEN <<Head(q)>>[i] ELSE Tail(q)[i - 1]
    BY <2>1, <2>2, ConcatProperties
  <2>4. \A i \in 1 .. Len(q) : (<<Head(q)>> \o Tail(q))[i] = q[i]
    BY <2>1, <2>2, <2>3
  <2> QED
    BY <2>3, <2>4, SeqEqual
<1> QED
  BY <1>2, <1>3, <1>4, <1>5, <1>6

\* The strays of a sequence of lines can be counted.
LEMMA StraysAreFew ==
  ASSUME NEW q \in Seq(Lines)
  PROVE  /\ IsFiniteSet(StrayAt(q)) /\ Strays(q) \in Nat
         /\ \A i \in DOMAIN q : Final(q[i]) /\ q[i].of = 0 => Strays(q) > 0
<1>1. StrayAt(q) \in SUBSET (1 .. Len(q)) /\ IsFiniteSet(1 .. Len(q))
  <2>1. DOMAIN q = 1 .. Len(q) /\ Len(q) \in Nat
    BY Ends
  <2> QED
    BY <2>1, FS_Interval DEF StrayAt
<1>2. IsFiniteSet(StrayAt(q)) /\ Strays(q) \in Nat
  BY <1>1, FS_Subset, FS_CardinalityType DEF Strays
<1>3. Strays(q) = 0 => StrayAt(q) = {}
  BY <1>2, FS_EmptySet DEF Strays
<1>4. \A i \in DOMAIN q : Final(q[i]) /\ q[i].of = 0 => i \in StrayAt(q)
  BY DEF StrayAt
<1> QED
  BY <1>2, <1>3, <1>4

\* An empty sequence holds no stray.
LEMMA StraysEmpty == Strays(<<>>) = 0
  BY FS_EmptySet DEF Strays, StrayAt

\* A line at the end counts if it is a stray.
LEMMA StraysAppend ==
  ASSUME NEW q \in Seq(Lines), NEW l \in Lines
  PROVE  Strays(Append(q, l)) = Strays(q) + IF Final(l) /\ l.of = 0 THEN 1 ELSE 0
<1>e. /\ DOMAIN q = 1 .. Len(q) /\ Len(q) \in Nat
      /\ DOMAIN Append(q, l) = 1 .. Len(q) + 1
      /\ Append(q, l)[Len(q) + 1] = l
      /\ \A i \in 1 .. Len(q) : Append(q, l)[i] = q[i]
  BY Ends
<1>f. IsFiniteSet(StrayAt(q)) /\ Strays(q) \in Nat
  BY StraysAreFew
<1>1. CASE Final(l) /\ l.of = 0
  <2>1. StrayAt(Append(q, l)) = StrayAt(q) \cup {Len(q) + 1} /\ Len(q) + 1 \notin StrayAt(q)
    BY <1>e, <1>1 DEF StrayAt
  <2> QED
    <3>1. Cardinality(StrayAt(q) \cup {Len(q) + 1}) = Cardinality(StrayAt(q)) + 1
      BY <1>f, <2>1, FS_AddElement
    <3> QED
      BY <1>f, <1>1, <2>1, <3>1 DEF Strays
<1>2. CASE ~(Final(l) /\ l.of = 0)
  <2>1. StrayAt(Append(q, l)) = StrayAt(q)
    BY <1>e, <1>2 DEF StrayAt
  <2> QED
    BY <1>f, <1>2, <2>1 DEF Strays
<1> QED
  BY <1>1, <1>2

\* The line at the front counts if it is a stray.
LEMMA StraysTail ==
  ASSUME NEW q \in Seq(Lines), q # <<>>
  PROVE  Strays(q) = Strays(Tail(q)) + IF Final(Head(q)) /\ Head(q).of = 0 THEN 1 ELSE 0
<1>e. /\ DOMAIN q = 1 .. Len(q) /\ Len(q) \in Nat /\ Len(q) >= 1
      /\ Tail(q) \in Seq(Lines) /\ DOMAIN Tail(q) = 1 .. Len(q) - 1
      /\ Head(q) = q[1]
      /\ \A i \in 1 .. Len(q) - 1 : Tail(q)[i] = q[i + 1]
  BY Ends
<1>f. /\ IsFiniteSet(StrayAt(q)) /\ Strays(q) \in Nat
      /\ IsFiniteSet(StrayAt(Tail(q))) /\ Strays(Tail(q)) \in Nat
  BY <1>e, StraysAreFew
<1> DEFINE T == StrayAt(Tail(q))
           U == StrayAt(q) \ {1}
           f == [i \in T |-> i + 1]
<1>1. \A i \in T : i \in 1 .. Len(q) - 1 /\ Final(q[i + 1]) /\ q[i + 1].of = 0
  BY <1>e DEF StrayAt
<1>2. \A i \in T : i + 1 \in U
  BY <1>e, <1>1 DEF StrayAt
<1>3. \A j \in U : j - 1 \in T /\ j - 1 + 1 = j
  BY <1>e DEF StrayAt
<1>4. f \in Bijection(T, U)
  <2>1. f \in [T -> U]
    BY <1>2
  <2>2. \A a, b \in T : f[a] = f[b] => a = b
    BY <1>1
  <2>3. \A j \in U : \E i \in T : f[i] = j
    BY <1>3
  <2> QED
    BY <2>1, <2>2, <2>3, Fun_IsBij
<1>5. Cardinality(U) = Cardinality(T)
  BY <1>4, <1>f, FS_Bijection DEF ExistsBijection
<1>6. 1 \in StrayAt(q) <=> Final(Head(q)) /\ Head(q).of = 0
  BY <1>e DEF StrayAt
<1>7. Cardinality(U) = IF 1 \in StrayAt(q) THEN Cardinality(StrayAt(q)) - 1 ELSE Cardinality(StrayAt(q))
  BY <1>f, FS_RemoveElement
<1> QED
  BY <1>f, <1>5, <1>6, <1>7 DEF Strays

\* The numbers in the lines and in the commands on their way.
LEMMA StreamTypes ==
  ASSUME NEW q \in Seq(Lines), NEW t \in Seq(Commands)
  PROVE  /\ \A i \in DOMAIN q : q[i].of \in Nat
         /\ \A j \in DOMAIN t : t[j].id \in Nat
<1>1. /\ \A i \in DOMAIN q : q[i] \in Lines
      /\ \A j \in DOMAIN t : t[j] \in Commands
  OBVIOUS
<1> QED
  BY <1>1 DEF Lines, Commands

\* An empty channel has nothing left over.
LEMMA GoodFresh ==
  ASSUME NEW n \in Nat, NEW s \in Nat
  PROVE  Good(<<>>, <<>>, n, s, 0)
<1>1. DOMAIN <<>> = {}
  OBVIOUS
<1> QED
  BY <1>1, StraysEmpty DEF Good, Ordered, Behind, Preceding

\* A line goes away; with it the last command may get its final response.
LEMMA GoodDrop ==
  ASSUME NEW q \in Seq(Lines), q # <<>>, NEW t \in Seq(Commands), NEW n \in Nat,
         NEW s \in Nat, NEW o \in {0, 1}, Good(q, t, n, s, o)
  PROVE  /\ Good(Tail(q), t, n, s, o)
         /\ Final(Head(q)) => Good(Tail(q), t, n, s, 0)
<1> DEFINE r == Tail(q)
<1>e. /\ DOMAIN q = 1 .. Len(q) /\ Len(q) \in Nat /\ Len(q) >= 1 /\ Head(q) = q[1]
      /\ r \in Seq(Lines) /\ DOMAIN r = 1 .. Len(q) - 1
      /\ \A i \in DOMAIN r : r[i] = q[i + 1] /\ i + 1 \in DOMAIN q /\ i + 1 > 1
      /\ 1 \in DOMAIN q
  BY Ends
<1>t. /\ \A i \in DOMAIN q : q[i].of \in Nat
      /\ \A j \in DOMAIN t : t[j].id \in Nat
  BY StreamTypes
<1>s. /\ Strays(q) \in Nat /\ Strays(r) \in Nat
      /\ Strays(q) = Strays(r) + IF Final(q[1]) /\ q[1].of = 0 THEN 1 ELSE 0
  BY <1>e, StraysAreFew, StraysTail
<1> HIDE DEF r
<1>o. Ordered(q, t, n) /\ Behind(q, t, n, s, o) /\ Preceding(q, t)
  BY DEF Good
<1>1. Ordered(r, t, n)
  <2>1. \A i, j \in DOMAIN r : i < j => i + 1 < j + 1
    BY <1>e
  <2> QED
    BY <1>e, <1>o, <2>1 DEF Ordered
<1>2. Behind(r, t, n, s, o)
  <2>1. Strays(r) <= Strays(q)
    BY <1>s
  <2>2. \A i \in DOMAIN r : Final(r[i]) /\ r[i].of > 0 => n + Strays(q) + 1 <= r[i].of + s + o
    BY <1>e, <1>o DEF Behind
  <2>3. \A i \in DOMAIN r : r[i].of \in Nat
    BY <1>e, <1>t
  <2>n. Strays(q) \in Nat /\ Strays(r) \in Nat
    BY <1>s
  <2>4. Strays(q) <= s /\ \A j \in DOMAIN t : n + Strays(q) + 1 <= t[j].id + s + o
    BY <1>o DEF Behind
  <2>5. Strays(r) <= s /\ \A j \in DOMAIN t : n + Strays(r) + 1 <= t[j].id + s + o
    BY <1>t, <2>n, <2>1, <2>4, SMTT(40)
  <2>6. \A i \in DOMAIN r : Final(r[i]) /\ r[i].of > 0 => n + Strays(r) + 1 <= r[i].of + s + o
    BY <2>n, <2>1, <2>2, <2>3, SMTT(30)
  <2> QED
    BY <2>5, <2>6 DEF Behind
<1>3. Preceding(r, t)
  <2> SUFFICES ASSUME NEW i \in DOMAIN r, Asked(r[i]),
                      ~ \E j \in DOMAIN t : t[j].id = r[i].of
               PROVE  \E j \in DOMAIN r : i < j /\ Final(r[j]) /\ r[j].of = r[i].of /\ r[j].of > 0
    BY DEF Preceding
  <2>1. PICK j \in DOMAIN q : i + 1 < j /\ Final(q[j]) /\ q[j].of = q[i + 1].of /\ q[j].of > 0
    BY <1>e, <1>o DEF Preceding
  <2>2. j - 1 \in DOMAIN r /\ i < j - 1 /\ r[j - 1] = q[j]
    <3>1. j - 1 \in DOMAIN r /\ i < j - 1 /\ (j - 1) + 1 = j
      BY <1>e, <2>1
    <3> QED
      BY <1>e, <3>1
  <2> QED
    BY <1>e, <2>1, <2>2
<1>4. ASSUME Final(q[1]) PROVE Behind(r, t, n, s, 0)
  <2>1. CASE q[1].of = 0
    <3>1. Strays(r) + 1 = Strays(q)
      BY <1>s, <1>4, <2>1
    <3>2. \A i \in DOMAIN r : /\ r[i].of \in Nat
                              /\ Final(r[i]) /\ r[i].of > 0 => n + Strays(q) + 1 <= r[i].of + s + o
      BY <1>e, <1>o, <1>t DEF Behind
    <3> QED
      BY <1>o, <1>s, <1>t, <3>1, <3>2, SMTT(40) DEF Behind
  <2>2. CASE q[1].of > 0
    <3>1. Strays(r) = Strays(q) /\ n + Strays(q) + 1 <= q[1].of + s + o /\ Strays(q) <= s
      BY <1>s, <1>o, <1>e, <1>4, <2>2, <1>t, SMTT(40) DEF Behind
    <3>2. \A i \in DOMAIN r : /\ r[i].of \in Nat
                              /\ Final(r[i]) /\ r[i].of > 0 => q[1].of < r[i].of
      BY <1>e, <1>o, <1>t, <1>4 DEF Ordered
    <3>3. \A j \in DOMAIN t : q[1].of < t[j].id
      BY <1>e, <1>o, <1>4 DEF Ordered
    <3>4. q[1].of \in Nat
      BY <1>e, <1>t
    <3>b. Strays(r) \in Nat
      BY <1>s
    <3>a. n + Strays(r) <= q[1].of + s
      BY <3>b, <3>1, <3>4, SMTT(30)
    <3>5. \A i \in DOMAIN r :
            Final(r[i]) /\ r[i].of > 0 => n + Strays(r) + 1 <= r[i].of + s + 0
      BY <3>b, <3>a, <3>2, <3>4, SMTT(30)
    <3>6. \A j \in DOMAIN t : n + Strays(r) + 1 <= t[j].id + s + 0
      BY <3>b, <3>a, <1>t, <3>3, <3>4
    <3> QED
      BY <3>1, <3>5, <3>6 DEF Behind
  <2> QED
    BY <1>e, <1>t, <2>1, <2>2
<1> QED
  BY <1>e, <1>1, <1>2, <1>3, <1>4 DEF Good, r

\* The modem sends a line that is no final response.
LEMMA GoodSay ==
  ASSUME NEW q \in Seq(Lines), NEW t \in Seq(Commands), NEW n \in Nat,
         NEW s \in Nat, NEW o \in {0, 1}, Good(q, t, n, s, o),
         NEW l \in Lines, ~Final(l), Asked(l) => t # <<>> /\ l.of = Head(t).id
  PROVE  Good(Append(q, l), t, n, s, o)
<1> DEFINE r == Append(q, l)
<1>e. /\ DOMAIN q = 1 .. Len(q) /\ Len(q) \in Nat
      /\ DOMAIN r = 1 .. Len(q) + 1 /\ r[Len(q) + 1] = l
      /\ \A i \in DOMAIN q : i \in DOMAIN r /\ r[i] = q[i]
      /\ \A i \in DOMAIN r : i \in DOMAIN q \/ (i = Len(q) + 1 /\ r[i] = l)
  BY Ends
<1>s. Strays(r) = Strays(q)
  BY StraysAppend, StraysAreFew
<1>h. t # <<>> => 1 \in DOMAIN t /\ Head(t) = t[1]
  BY Ends
<1> HIDE DEF r
<1>1. Ordered(r, t, n)
  BY <1>e DEF Good, Ordered
<1>2. Behind(r, t, n, s, o)
  BY <1>e, <1>s DEF Good, Behind
<1>3. Preceding(r, t)
  BY <1>e, <1>h DEF Good, Preceding
<1> QED
  BY <1>1, <1>2, <1>3 DEF Good, r

\* The modem ends the first command with a final response.
LEMMA GoodFinal ==
  ASSUME NEW q \in Seq(Lines), NEW t \in Seq(Commands), t # <<>>, NEW n \in Nat,
         NEW s \in Nat, NEW o \in {0, 1}, Good(q, t, n, s, o),
         NEW l \in Lines, Final(l), l.of = Head(t).id
  PROVE  Good(Append(q, l), Tail(t), n, s, o)
<1> DEFINE r == Append(q, l)
           u == Tail(t)
<1>e. /\ DOMAIN q = 1 .. Len(q) /\ Len(q) \in Nat
      /\ DOMAIN r = 1 .. Len(q) + 1 /\ r[Len(q) + 1] = l
      /\ \A i \in DOMAIN q : i \in DOMAIN r /\ r[i] = q[i] /\ i < Len(q) + 1
      /\ \A i \in DOMAIN r : i \in DOMAIN q \/ (i = Len(q) + 1 /\ r[i] = l)
      /\ Len(q) + 1 \in DOMAIN r
  BY Ends
<1>h. /\ DOMAIN t = 1 .. Len(t) /\ Len(t) \in Nat
      /\ 1 \in DOMAIN t /\ l.of = t[1].id
      /\ DOMAIN u = 1 .. Len(t) - 1
      /\ \A i \in DOMAIN u : u[i] = t[i + 1] /\ i + 1 \in DOMAIN t /\ 1 < i + 1
      /\ \A i \in DOMAIN t : i = 1 \/ (i - 1 \in DOMAIN u /\ u[i - 1] = t[i])
      /\ \A i, j \in DOMAIN u : i < j => i + 1 < j + 1
  BY Ends
<1>t. \A j \in DOMAIN t : t[j].id \in Nat
  BY StreamTypes
<1>o. Ordered(q, t, n) /\ Behind(q, t, n, s, o) /\ Preceding(q, t)
  BY DEF Good
<1>p. l.of \in 1 .. n
  BY <1>h, <1>o DEF Ordered
<1>s. Strays(r) = Strays(q)
  BY <1>p, StraysAppend, StraysAreFew
<1> HIDE DEF r, u
<1>1. Ordered(r, u, n)
  <2>1. \A i \in DOMAIN r : Final(r[i]) => r[i].of <= n
    BY <1>e, <1>o, <1>p DEF Ordered
  <2>2. \A i, j \in DOMAIN r :
          i < j /\ Final(r[i]) /\ Final(r[j]) /\ r[j].of > 0 => r[i].of < r[j].of
    <3>1. \A i \in DOMAIN q : Final(q[i]) => q[i].of < l.of
      BY <1>h, <1>o DEF Ordered
    <3>2. \A i, j \in DOMAIN r : i < j => i \in DOMAIN q
      BY <1>e
    <3> QED
      BY <1>e, <1>o, <3>1, <3>2 DEF Ordered
  <2>3. \A i \in DOMAIN r, j \in DOMAIN u : Final(r[i]) => r[i].of < u[j].id
    <3>1. \A j \in DOMAIN u : l.of < u[j].id
      BY <1>h, <1>o DEF Ordered
    <3>2. \A i \in DOMAIN q, j \in DOMAIN u : Final(q[i]) => q[i].of < u[j].id
      BY <1>h, <1>o DEF Ordered
    <3> QED
      BY <1>e, <3>1, <3>2
  <2>4. /\ \A i, j \in DOMAIN u : i < j => u[i].id < u[j].id
        /\ \A j \in DOMAIN u : u[j].id \in 1 .. n
    BY <1>h, <1>o DEF Ordered
  <2> QED
    BY <2>1, <2>2, <2>3, <2>4 DEF Ordered
<1>2. Behind(r, u, n, s, o)
  BY <1>e, <1>h, <1>o, <1>s DEF Behind
<1>3. Preceding(r, u)
  <2> SUFFICES ASSUME NEW i \in DOMAIN r, Asked(r[i])
               PROVE  \/ \E j \in DOMAIN r : i < j /\ Final(r[j]) /\ r[j].of = r[i].of /\ r[j].of > 0
                      \/ \E j \in DOMAIN u : u[j].id = r[i].of
    BY DEF Preceding
  <2>1. i \in DOMAIN q
    BY <1>e DEF Asked
  <2>2. CASE \E j \in DOMAIN q : i < j /\ Final(q[j]) /\ q[j].of = q[i].of /\ q[j].of > 0
    BY <1>e, <2>1, <2>2
  <2>3. CASE \E j \in DOMAIN t : t[j].id = q[i].of
    <3>1. PICK j \in DOMAIN t : t[j].id = q[i].of
      BY <2>3
    <3>2. CASE j = 1
      <4>1. l.of = r[i].of /\ l.of > 0 /\ i < Len(q) + 1
        BY <1>e, <1>h, <1>p, <2>1, <3>1, <3>2
      <4> QED
        BY <1>e, <4>1
    <3>3. CASE j # 1
      BY <1>e, <1>h, <2>1, <3>1, <3>3
    <3> QED
      BY <3>2, <3>3
  <2> QED
    BY <1>e, <1>o, <2>1, <2>2, <2>3 DEF Preceding
<1> QED
  BY <1>1, <1>2, <1>3 DEF Good, r, u

\* The modem sends a final response that no command asked for.
LEMMA GoodStray ==
  ASSUME NEW q \in Seq(Lines), NEW t \in Seq(Commands), NEW n \in Nat,
         NEW s \in Nat, NEW o \in {0, 1}, Good(q, t, n, s, o),
         NEW l \in Lines, Final(l), l.of = 0
  PROVE  Good(Append(q, l), t, n, s + 1, o)
<1> DEFINE r == Append(q, l)
<1>e. /\ DOMAIN q = 1 .. Len(q) /\ Len(q) \in Nat
      /\ DOMAIN r = 1 .. Len(q) + 1 /\ r[Len(q) + 1] = l
      /\ \A i \in DOMAIN q : i \in DOMAIN r /\ r[i] = q[i]
      /\ \A i \in DOMAIN r : i \in DOMAIN q \/ (i = Len(q) + 1 /\ r[i] = l)
  BY Ends
<1>s. Strays(r) = Strays(q) + 1 /\ Strays(q) \in Nat
  BY StraysAppend, StraysAreFew
<1>t. /\ \A i \in DOMAIN q : q[i].of \in Nat
      /\ \A j \in DOMAIN t : t[j].id \in Nat
  BY StreamTypes
<1> HIDE DEF r
<1>o. Ordered(q, t, n) /\ Behind(q, t, n, s, o) /\ Preceding(q, t)
  BY DEF Good
<1>1. Ordered(r, t, n)
  <2>1. \A i, j \in DOMAIN r :
          i < j /\ Final(r[i]) /\ Final(r[j]) /\ r[j].of > 0 => r[i].of < r[j].of
    <3>1. \A i, j \in DOMAIN r : i < j /\ r[j].of > 0 => i \in DOMAIN q /\ j \in DOMAIN q
      BY <1>e
    <3> QED
      BY <1>e, <1>o, <3>1 DEF Ordered
  <2>2. \A j \in DOMAIN t : l.of < t[j].id
    BY <1>o DEF Ordered
  <2> QED
    BY <1>e, <1>o, <2>1, <2>2, SMTT(30) DEF Ordered
<1>2. Behind(r, t, n, s + 1, o)
  <2>1. \A i \in DOMAIN r : Final(r[i]) /\ r[i].of > 0 => i \in DOMAIN q /\ r[i] = q[i]
    BY <1>e
  <2>2. \A i \in DOMAIN q :
          Final(q[i]) /\ q[i].of > 0 => n + Strays(q) + 1 <= q[i].of + s + o
    BY <1>o DEF Behind
  <2> QED
    <3>1. Strays(r) <= s + 1
      BY <1>o, <1>s DEF Behind
    <3>2. \A j \in DOMAIN t : n + Strays(q) + 1 <= t[j].id + s + o
      BY <1>o DEF Behind
    <3>3. \A j \in DOMAIN t : n + Strays(r) + 1 <= t[j].id + (s + 1) + o
      BY <1>s, <1>t, <3>2, SMTT(40)
    <3>4. \A i \in DOMAIN q :
            Final(q[i]) /\ q[i].of > 0 => n + Strays(r) + 1 <= q[i].of + (s + 1) + o
      BY <1>s, <1>t, <2>2, SMTT(40)
    <3> QED
      BY <2>1, <3>1, <3>3, <3>4 DEF Behind
<1>3. Preceding(r, t)
  BY <1>e, <1>o DEF Preceding, Asked
<1> QED
  BY <1>1, <1>2, <1>3 DEF Good, r

\* A command is written; a modem that hung up does not get it.
LEMMA GoodPost ==
  ASSUME NEW q \in Seq(Lines), NEW t \in Seq(Commands), NEW n \in Nat,
         NEW s \in Nat, Good(q, t, n, s, 0),
         NEW m \in Commands, m.id = n + 1
  PROVE  Good(q, t, n + 1, s, 1) /\ Good(q, Append(t, m), n + 1, s, 1)
<1> DEFINE u == Append(t, m)
<1>e. /\ DOMAIN t = 1 .. Len(t) /\ Len(t) \in Nat
      /\ DOMAIN u = 1 .. Len(t) + 1 /\ u[Len(t) + 1] = m
      /\ \A i \in DOMAIN t : i \in DOMAIN u /\ u[i] = t[i]
      /\ \A i \in DOMAIN u : i \in DOMAIN t \/ (i = Len(t) + 1 /\ u[i] = m)
  BY Ends
<1>t. /\ \A i \in DOMAIN q : q[i].of \in Nat
      /\ \A j \in DOMAIN t : t[j].id \in Nat
  BY StreamTypes
<1>s. Strays(q) \in Nat
  BY StraysAreFew
<1> HIDE DEF u
<1>o. Ordered(q, t, n) /\ Behind(q, t, n, s, 0) /\ Preceding(q, t)
  BY DEF Good
<1>1. Ordered(q, t, n + 1)
  BY <1>o, <1>t DEF Ordered
<1>2. Behind(q, t, n + 1, s, 1)
  BY <1>o, <1>t, <1>s, SMTT(40) DEF Behind
<1>3. Ordered(q, u, n + 1)
  <2>1. \A i \in DOMAIN q : Final(q[i]) => q[i].of < m.id
    BY <1>o, <1>t DEF Ordered
  <2>2. \A i, j \in DOMAIN u : i < j => u[i].id < u[j].id
    <3>1. \A i, j \in DOMAIN u : i < j => i \in DOMAIN t
      BY <1>e
    <3>2. \A i \in DOMAIN t : t[i].id < m.id
      BY <1>o DEF Ordered
    <3> QED
      BY <1>e, <1>o, <3>1, <3>2 DEF Ordered
  <2> QED
    BY <1>e, <1>1, <2>1, <2>2, SMTT(40) DEF Ordered
<1>4. Behind(q, u, n + 1, s, 1)
  <2>1. n + 1 + Strays(q) + 1 <= m.id + s + 1
    BY <1>o, <1>s DEF Behind
  <2> QED
    BY <1>e, <1>2, <2>1 DEF Behind
<1>5. Preceding(q, u)
  BY <1>e, <1>o DEF Preceding
<1> QED
  BY <1>o, <1>1, <1>2, <1>3, <1>4, <1>5 DEF Good, u

\* A command is given up before its answer.
LEMMA GoodSlip ==
  ASSUME NEW q \in Seq(Lines), NEW t \in Seq(Commands), NEW n \in Nat,
         NEW s \in Nat, Good(q, t, n, s, 1)
  PROVE  Good(q, t, n, s + 1, 0)
<1>t. /\ \A i \in DOMAIN q : q[i].of \in Nat
      /\ \A j \in DOMAIN t : t[j].id \in Nat
  BY StreamTypes
<1>s. Strays(q) \in Nat
  BY StraysAreFew
<1>o. Ordered(q, t, n) /\ Behind(q, t, n, s, 1) /\ Preceding(q, t)
  BY DEF Good
<1>1. Behind(q, t, n, s + 1, 0)
  BY <1>o, <1>s, <1>t, SMTT(30) DEF Behind
<1> QED
  BY <1>o, <1>1 DEF Good

\* What the first line tells about the last command, n.
LEMMA GoodHead ==
  ASSUME NEW q \in Seq(Lines), q # <<>>, NEW t \in Seq(Commands), NEW n \in Nat,
         NEW s \in Nat, NEW o \in {0, 1}, Good(q, t, n, s, o)
  PROVE  /\ Final(Head(q)) => Lagging(Head(q), n, s)
         /\ Asked(Head(q)) /\ s = 0 => Head(q).of = n
<1>e. 1 \in DOMAIN q /\ Head(q) = q[1] /\ Strays(q) \in Nat
  BY Ends, StraysAreFew
<1>t. /\ \A i \in DOMAIN q : q[i].of \in Nat
      /\ \A j \in DOMAIN t : t[j].id \in Nat
  BY StreamTypes
<1>o. Ordered(q, t, n) /\ Behind(q, t, n, s, o) /\ Preceding(q, t)
  BY DEF Good
<1>1. ASSUME Final(q[1]) PROVE Lagging(q[1], n, s)
  <2>1. CASE q[1].of = 0
    <3>1. Strays(q) > 0 /\ Strays(q) <= s
      BY <1>e, <1>o, <1>1, <2>1, StraysAreFew DEF Behind
    <3> QED
      BY <1>e, <2>1, <3>1 DEF Lagging
  <2>2. CASE q[1].of > 0
    <3>1. n + Strays(q) + 1 <= q[1].of + s + o /\ q[1].of <= n
      BY <1>e, <1>o, <1>1, <2>2 DEF Behind, Ordered
    <3> QED
      BY <1>e, <1>t, <2>2, <3>1 DEF Lagging
  <2> QED
    BY <1>e, <1>t, <2>1, <2>2
<1>2. ASSUME Asked(q[1]), s = 0 PROVE q[1].of = n
  <2>1. n + Strays(q) + 1 <= q[1].of + s + o /\ q[1].of <= n
    <3>1. CASE \E j \in DOMAIN q : 1 < j /\ Final(q[j]) /\ q[j].of = q[1].of /\ q[j].of > 0
      BY <1>o, <3>1 DEF Behind, Ordered
    <3>2. CASE \E j \in DOMAIN t : t[j].id = q[1].of
      BY <1>o, <3>2 DEF Behind, Ordered
    <3> QED
      BY <1>e, <1>o, <1>2, <3>1, <3>2 DEF Preceding
  <2> QED
    BY <1>e, <1>t, <1>2, <2>1
<1> QED
  BY <1>e, <1>1, <1>2
-----------------------------------------------------------------------------
(* Every step keeps the order and the distance                             *)

\* The types of what the lag is about.
LEMMA LagTypes ==
  ASSUME TypeInv
  PROVE  /\ Incoming \in Seq(Lines) /\ rx \in Seq(Lines) /\ tx \in Seq(Commands)
         /\ sent \in Nat /\ slips \in Nat /\ Open \in {0, 1}
         /\ pdus \in Seq(SUBSET Nat)
         /\ response \in Responses \cup {None} /\ None \notin Responses
         /\ None \notin Lines
         /\ reader = "process" => /\ line \in Lines /\ Incoming # <<>>
                                  /\ Head(Incoming) = line /\ Tail(Incoming) = rx
<1>1. /\ rx \in Seq(Lines) /\ tx \in Seq(Commands)
      /\ sent \in Nat /\ slips \in Nat /\ pdus \in Seq(SUBSET Nat)
      /\ response \in Responses \cup {None}
      /\ reader = "process" => line \in Lines
  BY DEF TypeInv, TypeOK, LineRead, ModemTypes, HistoryTypes, ChannelTypes
<1>2. Open \in {0, 1}
  BY DEF Open
<1>3. CASE reader = "process"
  <2>1. Incoming = <<line>> \o rx
    BY <1>3 DEF Incoming
  <2> QED
    BY <1>1, <1>2, <1>3, <2>1, Held, NoneAssumption
<1>4. CASE reader # "process"
  BY <1>1, <1>2, <1>4, NoneAssumption DEF Incoming
<1> QED
  BY <1>3, <1>4

\* A thread that has still to write its command finds none pending.
LEMMA NonePending ==
  ASSUME Serialized, WaitInv, PendingWaits, NEW c \in Callers, Busy(c), ~Waiting(c)
  PROVE  response = None
<1> SUFFICES ASSUME response # None PROVE FALSE
  OBVIOUS
<1>1. PICK d \in Callers : Waiting(d)
  BY DEF PendingWaits
<1>2. Busy(d)
  BY <1>1 DEF Waiting, Busy
<1>3. c = d
  BY <1>2, OneBusy DEF WaitInv, WaitRest
<1> QED
  BY <1>1, <1>3

\* What handling a line does to the pending response.
LEMMA ProcessCases ==
  ASSUME TypeInv, ProcessLine
  PROVE  /\ response = None => response' = None
         /\ response # None => /\ response' \in Responses /\ response' # None
                               /\ response'.cmd = response.cmd
                               /\ response'.smsPDU => response.smsPDU
                               /\ \/ response'.finalResponse = response.finalResponse
                                  \/ Final(line) /\ response'.finalResponse = line
         /\ \/ UNCHANGED pdus
            \/ /\ response # None /\ line.k = "PROMPT" /\ response.smsPDU /\ ~response'.smsPDU
               /\ pdus' = [pdus EXCEPT ![response.cmd] = @ \cup {line.of}]
<1>t. /\ line \in Lines /\ None \notin Responses
      /\ response \in Responses \cup {None}
  BY LagTypes DEF ProcessLine
<1>1. CASE response = None
  BY <1>1 DEF ProcessLine
<1>2. CASE response # None /\ (isFinalResponseSuccess(line) \/ isFinalResponseError(line))
  <2>1. response' = [response EXCEPT !.finalResponse = line] /\ UNCHANGED pdus
    BY <1>2 DEF ProcessLine, isFinalResponseSuccess, isFinalResponseError
  <2>2. response \in Responses
    BY <1>t, <1>2
  <2>3. /\ response' \in Responses /\ response'.cmd = response.cmd
        /\ response'.smsPDU = response.smsPDU /\ response'.finalResponse = line
    BY <1>t, <2>1, <2>2 DEF Responses
  <2>4. Final(line)
    BY <1>2 DEF Final, isFinalResponseSuccess, isFinalResponseError
  <2> QED
    BY <1>t, <1>2, <2>1, <2>3, <2>4
<1>3. CASE /\ response # None /\ ~(isFinalResponseSuccess(line) \/ isFinalResponseError(line))
           /\ line.k = "PROMPT" /\ response.smsPDU
  <2>1. /\ response' = [response EXCEPT !.smsPDU = FALSE]
        /\ UNCHANGED pdus \/ pdus' = [pdus EXCEPT ![response.cmd] = @ \cup {line.of}]
    BY <1>3 DEF ProcessLine, isFinalResponseSuccess, isFinalResponseError
  <2>2. response \in Responses
    BY <1>t, <1>3
  <2>3. /\ response' \in Responses /\ response'.cmd = response.cmd
        /\ response'.finalResponse = response.finalResponse
    BY <1>t, <2>1, <2>2 DEF Responses
  <2>4. response'.smsPDU = FALSE
    BY <2>1, <2>2 DEF Responses
  <2>5. response'.smsPDU => response.smsPDU
    BY <2>4
  <2>6. ~response'.smsPDU
    BY <2>4
  <2> QED
    BY <1>t, <1>3, <2>1, <2>3, <2>5, <2>6
<1>4. CASE /\ response # None /\ ~(isFinalResponseSuccess(line) \/ isFinalResponseError(line))
           /\ ~(line.k = "PROMPT" /\ response.smsPDU)
  <2>1. /\ response' = response
           \/ response' = [response EXCEPT !.intermediates = Append(@, line)]
        /\ UNCHANGED pdus
    BY <1>4 DEF ProcessLine
  <2>2. response \in Responses /\ Append(response.intermediates, line) \in Seq(Lines)
    BY <1>t, <1>4, AppendType DEF Responses
  <2>3. /\ response' \in Responses /\ response'.cmd = response.cmd
        /\ response'.finalResponse = response.finalResponse
        /\ response'.smsPDU = response.smsPDU
    BY <1>t, <2>1, <2>2 DEF Responses
  <2> QED
    BY <1>t, <1>4, <2>1, <2>3
<1> QED
  BY <1>1, <1>2, <1>3, <1>4

\* A response in flight ends only with the wait for it.
LEMMA PendNext ==
  ASSUME Serialized, WaitInv, PendingWaits, Next
  PROVE  PendingWaits'
<1>0. Shaker \in Callers
  BY ChannelAssumption
<1>a. /\ TypeInv /\ TypeOK /\ PcShape
      /\ pc \in [Callers -> CallerPcs] /\ waiters \subseteq Callers
  BY DEF WaitInv, WaitRest, TypeInv, TypeOK, ThreadTypes
<1>w. \A c \in Callers : c \in waiters => pc[c] \in {"wait", "hswait"}
  BY DEF WaitInv, WaitRest, WaitersWait
<1>1. ASSUME response' = None PROVE PendingWaits'
  BY <1>1 DEF PendingWaits
<1>2. ASSUME UNCHANGED <<pc, response>> PROVE PendingWaits'
  BY <1>2 DEF PendingWaits, Waiting
<1>3. ASSUME NEW c \in Callers, NEW p, pc' = [pc EXCEPT ![c] = p], UNCHANGED response,
             ~Waiting(c) \/ p = "hslate"
      PROVE  PendingWaits'
  <2>1. \A d \in Callers : Waiting(d) => Waiting(d)'
    BY <1>3, <1>a DEF Waiting
  <2> QED
    BY <1>3, <2>1 DEF PendingWaits
<1>4. ASSUME NEW c \in Callers, NEW p \in {"wait", "hswait"}, pc' = [pc EXCEPT ![c] = p]
      PROVE  PendingWaits'
  <2>1. Waiting(c)'
    BY <1>4, <1>a DEF Waiting
  <2> QED
    BY <2>1 DEF PendingWaits
<1>5. ASSUME NEW c \in Callers, CallerStep(c) PROVE PendingWaits'
  <2>1. CASE \E a \in Apis : Call(c, a)
    BY <2>1, <1>3 DEF Call, Waiting, channelVars
  <2>2. CASE LockG(c)
    BY <2>2, <1>3 DEF LockG, Waiting, channelVars
  <2>3. CASE Start(c)
    <3>1. response = None
      BY <2>3, NonePending DEF Start, Busy, Waiting
    <3> QED
      BY <2>3, <3>1, <1>1, <1>4 DEF Start
  <2>4. CASE Spurious(c)
    BY <2>4, <1>2 DEF Spurious, channelVars
  <2>5. CASE Wake(c)
    <3>1. response # None
      BY <2>5 DEF Wake, WaitInv, WaitRest, WaiterOwnsResponse, Waiting
    <3> QED
      BY <2>5, <3>1, <1>1, <1>2 DEF Wake
  <2> QED
    BY <1>5, <2>1, <2>2, <2>3, <2>4, <2>5 DEF CallerStep
<1>6. ASSUME ShakerStep PROVE PendingWaits'
  <2>1. CASE Handshake
    BY <2>1, <1>0, <1>3 DEF Handshake, Waiting, channelVars
  <2>2. CASE HsLock
    BY <2>2, <1>0, <1>3 DEF HsLock, Waiting, channelVars
  <2>3. CASE HsTry
    <3>1. response = None
      BY <2>3, <1>0, NonePending DEF HsTry, Busy, Waiting
    <3> QED
      BY <2>3, <3>1, <1>0, <1>1, <1>4 DEF HsTry
  <2>4. CASE HsExpire
    BY <2>4, <1>0, <1>3 DEF HsExpire, channelVars
  <2>5. CASE HsTimeout
    BY <2>5, <1>1 DEF HsTimeout
  <2>6. CASE HsWake
    <3>1. response # None
      BY <2>6, <1>0 DEF HsWake, WaitInv, WaitRest, WaiterOwnsResponse, Waiting
    <3> QED
      BY <2>6, <3>1, <1>1, <1>2 DEF HsWake
  <2>7. CASE HsSleepEnd
    BY <2>7, <1>0, <1>3 DEF HsSleepEnd, Waiting, channelVars
  <2> QED
    BY <1>6, <2>1, <2>2, <2>3, <2>4, <2>5, <2>6, <2>7 DEF ShakerStep
<1>7. ASSUME ReaderStep PROVE PendingWaits'
  <2>1. CASE ProcessLine
    <3>1. response' # None => response # None
      BY <2>1, <1>a, ProcessCases
    <3>2. UNCHANGED pc
      BY <2>1 DEF ProcessLine
    <3> QED
      BY <3>1, <3>2 DEF PendingWaits, Waiting
  <2>2. CASE ~ProcessLine
    BY <1>7, <2>2, <1>2
       DEF ReaderStep, ReadLine, ReadSecond, ReadEOF, OnReaderClosedTest,
           OnReaderClosed, AtClose, AtCloseSignal, threadVars, channelVars
  <2> QED
    BY <2>1, <2>2
<1>8. CASE AtOpen
  BY <1>8, <1>1 DEF AtOpen
<1>9. CASE ModemStep
  BY <1>9, <1>2
     DEF ModemStep, ModemInter, ModemPrompt, ModemFinal, ModemUnsolicited,
         ModemStray, ModemHangup, threadVars, channelVars
<1> QED
  BY <1>5, <1>6, <1>7, <1>8, <1>9 DEF Next

\* A channel is marked closed by its reader, which then reads no more.
LEMMA GoneNext ==
  ASSUME TypeOK, ReaderGone, Next
  PROVE  ReaderGone'
<1>1. ASSUME UNCHANGED <<readerClosed, reader>> PROVE ReaderGone'
  BY <1>1 DEF ReaderGone
<1>2. CASE \E c \in Callers : CallerStep(c)
  BY <1>2, <1>1 DEF CallerStep, Call, LockG, Start, Spurious, Wake, channelVars, readerVars
<1>3. CASE ShakerStep
  BY <1>3, <1>1 DEF ShakerStep, Handshake, HsLock, HsTry, HsExpire, HsTimeout, HsWake,
                    HsSleepEnd, channelVars, readerVars
<1>4. CASE ReaderStep
  <2>1. CASE ReadLine \/ ReadSecond \/ ReadEOF \/ ProcessLine
    <3>1. reader \in {"read", "second", "process"} /\ UNCHANGED readerClosed
      BY <2>1 DEF ReadLine, ReadSecond, ReadEOF, ProcessLine, channelVars
    <3> QED
      BY <3>1 DEF ReaderGone
  <2>2. CASE OnReaderClosedTest
    BY <2>2 DEF OnReaderClosedTest, ReaderGone, channelVars
  <2>3. CASE OnReaderClosed \/ AtClose \/ AtCloseSignal
    BY <2>3 DEF OnReaderClosed, AtClose, AtCloseSignal, ReaderGone
  <2> QED
    BY <1>4, <2>1, <2>2, <2>3 DEF ReaderStep
<1>5. CASE AtOpen
  BY <1>5 DEF AtOpen, ReaderGone
<1>6. CASE ModemStep
  BY <1>6, <1>1
     DEF ModemStep, ModemInter, ModemPrompt, ModemFinal, ModemUnsolicited,
         ModemStray, ModemHangup, channelVars, readerVars
<1> QED
  BY <1>2, <1>3, <1>4, <1>5, <1>6 DEF Next

\* What an answered command returns is the final response it was given.
LEMMA OutcomeLags ==
  ASSUME NEW r \in Responses, ~readerClosed
  PROVE  Outcome(r).cmd = r.cmd /\ Outcome(r).final = r.finalResponse
BY DEF Outcome, Result

\* The books stay right when no command is written and no line is handled.
LEMMA BookKept ==
  ASSUME TypeInv, Book, UNCHANGED <<sent, pdus>>, slips' \in Nat, slips <= slips',
         response' = response \/ response' = None,
         \A c \in Callers :
           \/ result'[c] = result[c]
           \/ ~Answered(result'[c])
           \/ /\ response # None /\ response.finalResponse # None /\ ~readerClosed
              /\ result'[c] = Outcome(response)
  PROVE  Book'
<1>t. /\ sent \in Nat /\ slips \in Nat
      /\ response \in Responses \cup {None} /\ None \notin Responses
      /\ result \in [Callers -> Results \cup {None}]
  BY LagTypes DEF TypeInv, TypeOK, ThreadTypes
<1>m. \A f, n : n \in Nat /\ f.of \in Nat /\ Lagging(f, n, slips) => Lagging(f, n, slips')
  BY <1>t DEF Lagging
<1>1. (Last /\ Unwritten)'
  BY DEF Book, Last, Unwritten
<1>2. Matched'
  <2> SUFFICES ASSUME response' # None, response'.finalResponse # None
               PROVE  Lagging(response.finalResponse, sent, slips')
    BY DEF Matched
  <2>1. response # None /\ response.finalResponse # None /\ response \in Responses
    BY <1>t
  <2>2. response.finalResponse \in Lines
    BY <2>1 DEF Responses
  <2>3. response.finalResponse.of \in Nat
    BY <2>2 DEF Lines
  <2> QED
    BY <1>t, <1>m, <2>1, <2>3 DEF Book, Matched
<1>3. Written'
  <2>1. slips' = 0 => slips = 0
    BY <1>t
  <2> QED
    BY <2>1 DEF Book, Written
<1>4. Answers'
  <2> SUFFICES ASSUME NEW c \in Callers, Answered(result'[c])
               PROVE  /\ result'[c].final \in Lines
                      /\ Lagging(result'[c].final, result'[c].cmd, slips')
    BY DEF Answers, Answered
  <2>1. CASE result'[c] = result[c]
    <3>1. /\ result[c].final \in Lines
          /\ Lagging(result[c].final, result[c].cmd, slips)
      BY <2>1 DEF Book, Answers
    <3>2. result[c] \in Results
      BY <1>t, <2>1 DEF Answered
    <3>3. result[c].cmd \in Nat /\ result[c].final.of \in Nat
      BY <3>1, <3>2 DEF Results, Lines
    <3> QED
      BY <1>m, <2>1, <3>1, <3>3
  <2>2. CASE /\ response # None /\ response.finalResponse # None /\ ~readerClosed
             /\ result'[c] = Outcome(response)
    <3>1. response \in Responses
      BY <1>t, <2>2
    <3>2. result'[c].cmd = response.cmd /\ result'[c].final = response.finalResponse
      BY <2>2, <3>1, OutcomeLags
    <3>3. Lagging(response.finalResponse, sent, slips) /\ response.cmd = sent
      BY <2>2 DEF Book, Matched, Last
    <3>4. response.finalResponse \in Lines
      BY <2>2, <3>1 DEF Responses
    <3>5. response.finalResponse.of \in Nat
      BY <3>4 DEF Lines
    <3> QED
      BY <1>t, <1>m, <3>2, <3>3, <3>4, <3>5
  <2> QED
    BY <2>1, <2>2
<1> QED
  BY <1>1, <1>2, <1>3, <1>4 DEF Book

\* Writing a command opens a new page.
LEMMA BookPost ==
  ASSUME TypeInv, Book, NEW c \in Callers, NEW a, a \in AllApis, Post(c, a),
         UNCHANGED <<slips, result>>
  PROVE  Book'
<1>t. /\ sent \in Nat /\ pdus \in Seq(SUBSET Nat) /\ {} \in SUBSET Nat
      /\ Len(pdus) = sent
  BY LagTypes DEF Book, Written
<1>1. /\ response'.cmd = sent + 1 /\ response'.finalResponse = None
      /\ sent' = sent + 1 /\ pdus' = Append(pdus, {})
  BY DEF Post, NewResponse
<1>2. /\ Len(pdus') = sent + 1 /\ pdus'[sent + 1] = {}
      /\ \A n \in 1 .. sent : pdus'[n] = pdus[n]
  BY <1>1, <1>t
<1>3. (Last /\ Matched /\ Unwritten)'
  BY <1>t, <1>1, <1>2 DEF Last, Matched, Unwritten
<1>4. Written'
  <2>1. \A n \in 1 .. sent + 1 : n \in 1 .. sent \/ n = sent + 1
    BY <1>t
  <2>2. ASSUME NEW n \in 1 .. sent + 1
        PROVE  /\ pdus'[n] = {} \/ \E p \in Nat : pdus'[n] = {p}
               /\ slips' = 0 => pdus'[n] \subseteq {n}
    <3>1. CASE n \in 1 .. sent
      <4>1. pdus'[n] = pdus[n]
        BY <1>2, <3>1
      <4> QED
        BY <3>1, <4>1 DEF Book, Written
    <3>2. CASE n = sent + 1
      BY <1>2, <3>2
    <3> QED
      BY <2>1, <2>2, <3>1, <3>2
  <2> QED
    BY <1>1, <1>2, <2>2 DEF Written
<1>5. Answers'
  BY DEF Book, Answers, Answered
<1> QED
  BY <1>3, <1>4, <1>5 DEF Book

\* Handling a line enters what it says of the pending command.
LEMMA BookProcess ==
  ASSUME TypeInv, Book, ReaderGone, Streaming, ProcessLine
  PROVE  Book'
<1>t. /\ Incoming \in Seq(Lines) /\ rx \in Seq(Lines) /\ tx \in Seq(Commands)
      /\ sent \in Nat /\ slips \in Nat /\ Open \in {0, 1}
      /\ pdus \in Seq(SUBSET Nat)
      /\ response \in Responses \cup {None} /\ None \notin Responses
      /\ None \notin Lines
      /\ line \in Lines /\ Incoming # <<>>
      /\ Head(Incoming) = line /\ Tail(Incoming) = rx
  BY LagTypes DEF ProcessLine
<1>g. Good(Incoming, tx, sent, slips, Open)
  BY DEF ProcessLine, ReaderGone, Streaming
<1>h. /\ Final(line) => Lagging(line, sent, slips)
      /\ line.k = "PROMPT" /\ slips = 0 => line.of = sent
  BY <1>t, <1>g, GoodHead DEF Asked, Final
<1>u. UNCHANGED <<sent, slips, result>>
  BY DEF ProcessLine
<1>c. /\ response = None => response' = None
      /\ response # None => /\ response'.cmd = response.cmd
                            /\ response'.smsPDU => response.smsPDU
                            /\ \/ response'.finalResponse = response.finalResponse
                               \/ Final(line) /\ response'.finalResponse = line
      /\ \/ UNCHANGED pdus
         \/ /\ response # None /\ line.k = "PROMPT" /\ response.smsPDU /\ ~response'.smsPDU
            /\ pdus' = [pdus EXCEPT ![response.cmd] = @ \cup {line.of}]
  BY ProcessCases
<1>1. Last'
  BY <1>u, <1>c DEF Book, Last
<1>2. Matched'
  BY <1>u, <1>c, <1>h DEF Book, Matched
<1>3. Answers'
  BY <1>u DEF Book, Answers, Answered
<1>4. CASE UNCHANGED pdus
  <2>1. Unwritten' /\ Written'
    BY <1>u, <1>c, <1>4 DEF Book, Unwritten, Written
  <2> QED
    BY <1>1, <1>2, <1>3, <2>1 DEF Book
<1>5. CASE /\ response # None /\ line.k = "PROMPT" /\ response.smsPDU /\ ~response'.smsPDU
           /\ pdus' = [pdus EXCEPT ![response.cmd] = @ \cup {line.of}]
  <2>1. /\ response.cmd = sent /\ sent \in 1 .. sent /\ pdus[sent] = {} /\ Len(pdus) = sent
        /\ line.of \in Nat
    BY <1>t, <1>5 DEF Book, Last, Unwritten, Written, Lines
  <2>2. pdus' = [pdus EXCEPT ![sent] = {line.of}]
    BY <1>5, <2>1
  <2>3. /\ Len(pdus') = sent /\ pdus'[sent] = {line.of}
        /\ \A n \in 1 .. sent : n # sent => pdus'[n] = pdus[n]
    BY <1>t, <2>1, <2>2
  <2>4. Written'
    BY <1>u, <1>h, <1>5, <2>1, <2>3 DEF Book, Written
  <2>5. Unwritten'
    BY <1>5 DEF Unwritten
  <2> QED
    BY <1>1, <1>2, <1>3, <2>4, <2>5 DEF Book
<1> QED
  BY <1>c, <1>4, <1>5

\* Every step keeps the books.
LEMMA BookNext ==
  ASSUME Serialized, WaitInv, TypeInv', PendingWaits, ReaderGone, Streaming, Book, Next
  PROVE  Book'
<1>0. Shaker \in Callers
  BY ChannelAssumption
<1>a. /\ TypeInv /\ TypeOK /\ slips \in Nat
      /\ result \in [Callers -> Results \cup {None}]
      /\ api \in [Callers -> AllApis]
  BY LagTypes DEF WaitInv, TypeInv, TypeOK, ThreadTypes
<1>1. ASSUME UNCHANGED <<sent, pdus, response, result>>, slips' \in Nat, slips <= slips'
      PROVE  Book'
  BY <1>1, <1>a, BookKept
<1>2. ASSUME UNCHANGED <<sent, pdus, slips>>, response' = response \/ response' = None,
             NEW c \in Callers, NEW r, result' = [result EXCEPT ![c] = r],
             \/ ~Answered(r)
             \/ /\ response # None /\ response.finalResponse # None /\ ~readerClosed
                /\ r = Outcome(response)
      PROVE  Book'
  <2>1. \A d \in Callers : result'[d] = IF d = c THEN r ELSE result[d]
    BY <1>2, <1>a
  <2> QED
    BY <1>2, <1>a, <2>1, BookKept
<1>e. \A e : ~Answered(Failed(e))
  BY FailedType
<1>3. ASSUME NEW c \in Callers, CallerStep(c) PROVE Book'
  <2>1. CASE (\E a \in Apis : Call(c, a)) \/ LockG(c) \/ Spurious(c)
    BY <2>1, <1>1, <1>a DEF Call, LockG, Spurious, channelVars, history
  <2>2. CASE Start(c)
    <3>1. response = None
      BY <2>2, NonePending DEF Start, Busy, Waiting
    <3>2. CASE Post(c, api[c]) /\ UNCHANGED result
      <4>1. UNCHANGED slips
        BY <2>2 DEF Start
      <4> QED
        BY <3>2, <4>1, <1>a, BookPost
    <3>3. CASE /\ \E w \in {"closed", "generic"} : Return(c, Failed(w))
               /\ UNCHANGED <<response, sent, pdus>>
      <4>1. PICK w \in {"closed", "generic"} :
              result' = [result EXCEPT ![c] = Failed(w)]
        BY <3>3 DEF Return
      <4>2. UNCHANGED slips
        BY <2>2 DEF Start
      <4> QED
        BY <3>3, <4>1, <4>2, <1>2, <1>e
    <3> QED
      BY <2>2, <3>1, <3>2, <3>3 DEF Start
  <2>3. CASE Wake(c)
    <3>1. response # None /\ UNCHANGED <<sent, pdus, slips>>
      BY <2>3 DEF Wake, WaitInv, WaitRest, WaiterOwnsResponse, Waiting, history
    <3>2. CASE UNCHANGED <<response, result>>
      BY <3>1, <3>2, <1>1, <1>a
    <3>3. CASE /\ response.finalResponse # None \/ readerClosed
               /\ Return(c, Outcome(response)) /\ response' = None
      <4>1. result' = [result EXCEPT ![c] = Outcome(response)]
        BY <3>3 DEF Return
      <4>2. readerClosed => ~Answered(Outcome(response))
        BY DEF Answered, Outcome, Result
      <4> QED
        BY <3>1, <3>3, <4>1, <4>2, <1>2
    <3> QED
      BY <2>3, <3>1, <3>2, <3>3 DEF Wake
  <2> QED
    BY <1>3, <2>1, <2>2, <2>3 DEF CallerStep
<1>4. ASSUME NEW e, HsNext(e), UNCHANGED <<sent, pdus>>, slips' \in Nat, slips <= slips',
             response' = response \/ response' = None
      PROVE  Book'
  <2>1. \A d \in Callers : result'[d] = result[d] \/ ~Answered(result'[d])
    BY <1>4, <1>a, <1>e, <1>0 DEF HsNext
  <2> QED
    BY <1>4, <1>a, <2>1, BookKept
<1>5. ASSUME ShakerStep PROVE Book'
  <2>1. CASE Handshake \/ HsLock \/ HsExpire
    BY <2>1, <1>1, <1>a DEF Handshake, HsLock, HsExpire, channelVars, history
  <2>2. CASE HsTry
    <3>1. response = None /\ UNCHANGED slips
      BY <2>2, <1>0, NonePending DEF HsTry, Busy, Waiting
    <3>2. CASE Post(Shaker, "plain") /\ UNCHANGED result
      <4>1. "plain" \in AllApis
        BY DEF AllApis
      <4> QED
        BY <3>1, <3>2, <4>1, <1>0, <1>a, BookPost
    <3>3. CASE /\ \E w \in {"closed", "generic"} : HsNext(w)
               /\ UNCHANGED <<response, sent, pdus>>
      BY <3>1, <3>3, <1>4, <1>a
    <3> QED
      BY <2>2, <3>1, <3>2, <3>3 DEF HsTry
  <2>3. CASE HsTimeout
    <3>1. slips' \in Nat /\ slips <= slips'
      BY <2>3, <1>a DEF HsTimeout
    <3> QED
      BY <2>3, <3>1, <1>4 DEF HsTimeout
  <2>4. CASE HsWake
    <3>1. response # None /\ UNCHANGED <<sent, pdus, slips>>
      BY <2>4, <1>0 DEF HsWake, WaitInv, WaitRest, WaiterOwnsResponse, Waiting, history
    <3>2. CASE UNCHANGED result /\ (response' = response \/ response' = None)
      BY <3>1, <3>2, <1>a, BookKept
    <3>3. CASE HsNext("closed") /\ response' = None
      BY <3>1, <3>3, <1>4, <1>a
    <3> QED
      BY <2>4, <3>1, <3>2, <3>3 DEF HsWake
  <2>5. CASE HsSleepEnd
    <3>1. /\ result' = [result EXCEPT ![Shaker] = Failed("ok")]
          /\ UNCHANGED <<sent, pdus, slips, response>>
      BY <2>5 DEF HsSleepEnd, channelVars, history
    <3> QED
      BY <3>1, <1>0, <1>2, <1>e
  <2> QED
    BY <1>5, <2>1, <2>2, <2>3, <2>4, <2>5 DEF ShakerStep
<1>6. ASSUME ReaderStep PROVE Book'
  <2>1. CASE ProcessLine
    BY <2>1, <1>a, BookProcess
  <2>2. CASE ~ProcessLine
    BY <1>6, <2>2, <1>1, <1>a
       DEF ReaderStep, ReadLine, ReadSecond, ReadEOF, OnReaderClosedTest,
           OnReaderClosed, AtClose, AtCloseSignal, threadVars, channelVars, history
  <2> QED
    BY <2>1, <2>2
<1>7. CASE AtOpen
  <2>1. UNCHANGED <<sent, pdus, slips, result>> /\ response' = None
    BY <1>7 DEF AtOpen, threadVars
  <2> QED
    BY <2>1, <1>a, BookKept
<1>8. CASE ModemStep
  BY <1>8, <1>1, <1>a
     DEF ModemStep, ModemInter, ModemPrompt, ModemFinal, ModemUnsolicited,
         ModemStray, ModemHangup, threadVars, channelVars, history
<1> QED
  BY <1>3, <1>5, <1>6, <1>7, <1>8 DEF Next

\* The modem's lines join the end of what the reader has to process.
LEMMA Joining ==
  ASSUME TypeInv, UNCHANGED <<reader, line>>
  PROVE  /\ UNCHANGED rx => Incoming' = Incoming
         /\ \A l \in Lines : rx' = Append(rx, l) => Incoming' = Append(Incoming, l)
<1>1. rx \in Seq(Lines) /\ (reader = "process" => line \in Lines)
  BY LagTypes
<1>2. CASE reader = "process"
  BY <1>1, <1>2, Held, SMTT(40) DEF Incoming
<1>3. CASE reader # "process"
  BY <1>1, <1>3 DEF Incoming
<1> QED
  BY <1>2, <1>3

\* Every step keeps the order of the answers and their distance.
LEMMA StreamNext ==
  ASSUME Serialized, WaitInv, TypeInv', PendingWaits, ReaderGone, Streaming, Next
  PROVE  Streaming'
<1>0. Shaker \in Callers
  BY ChannelAssumption
<1>a. TypeInv
  BY DEF WaitInv
<1>t. /\ Incoming \in Seq(Lines) /\ rx \in Seq(Lines) /\ tx \in Seq(Commands)
      /\ sent \in Nat /\ slips \in Nat /\ Open \in {0, 1}
      /\ response \in Responses \cup {None} /\ None \notin Responses
      /\ None \notin Lines
      /\ reader = "process" => /\ line \in Lines /\ Incoming # <<>>
                               /\ Head(Incoming) = line /\ Tail(Incoming) = rx
  BY <1>a, LagTypes
<1>2. ASSUME UNCHANGED <<tx, sent, slips>>, Open' = Open, Incoming' = Incoming,
             ~readerClosed' => ~readerClosed
      PROVE  Streaming'
  BY <1>2 DEF Streaming
<1>i. ASSUME UNCHANGED <<rx, reader, line>> PROVE Incoming' = Incoming
  BY <1>i DEF Incoming
<1>o. ASSUME UNCHANGED response PROVE Open' = Open
  BY <1>o DEF Open
<1>n. ASSUME response' = None PROVE Open' = 0
  BY <1>n DEF Open
<1>p. ASSUME NEW c \in Callers, NEW b \in AllApis, Post(c, b), response = None,
             UNCHANGED <<rx, reader, line, slips, readerClosed>>
      PROVE  Streaming'
  <2> SUFFICES ASSUME ~readerClosed PROVE Good(Incoming', tx', sent', slips', Open')
    BY <1>p DEF Streaming
  <2> DEFINE m == [id |-> sent + 1, api |-> b]
  <2>1. m \in Commands /\ m.id = sent + 1
    BY <1>t, <1>p DEF Commands
  <2>2. /\ sent' = sent + 1 /\ tx' = IF hungup THEN tx ELSE Append(tx, m)
        /\ response' = NewResponse(c, b, sent + 1)
    BY <1>p DEF Post
  <2>3. Open' = 1
    <3>1. response' # None
      BY <1>t, <1>p, <2>2, NewResponseType
    <3>2. response'.finalResponse = None
      BY <2>2 DEF NewResponse
    <3> QED
      BY <3>1, <3>2 DEF Open
  <2>4. Open = 0
    BY <1>p DEF Open
  <2>5. Good(Incoming, tx, sent, slips, 0)
    BY <2>4 DEF Streaming
  <2> HIDE DEF m
  <2>6. Good(Incoming, tx, sent + 1, slips, 1) /\ Good(Incoming, Append(tx, m), sent + 1, slips, 1)
    BY <1>t, <2>1, <2>5, GoodPost
  <2> QED
    BY <1>p, <1>i, <2>2, <2>3, <2>6
<1>3. ASSUME NEW c \in Callers, CallerStep(c) PROVE Streaming'
  <2>1. UNCHANGED <<rx, reader, line, slips, readerClosed>>
    BY <1>3 DEF CallerStep, Call, LockG, Start, Spurious, Wake, channelVars, readerVars,
                modemVars, history
  <2>2. CASE (\E b \in Apis : Call(c, b)) \/ LockG(c) \/ Spurious(c)
    <3>1. UNCHANGED <<tx, sent, response>>
      BY <2>2 DEF Call, LockG, Spurious, channelVars, modemVars, history
    <3> QED
      BY <2>1, <3>1, <1>2, <1>i, <1>o
  <2>3. CASE Start(c)
    <3>1. response = None
      BY <2>3, NonePending DEF Start, Busy, Waiting, WaitInv
    <3>2. CASE Post(c, api[c])
      <4>1. api[c] \in AllApis
        BY <1>a DEF TypeInv, TypeOK, ThreadTypes
      <4> QED
        BY <2>1, <3>1, <3>2, <4>1, <1>p
    <3>3. CASE UNCHANGED <<response, tx, sent>>
      BY <2>1, <3>3, <1>2, <1>i, <1>o
    <3> QED
      BY <2>3, <3>1, <3>2, <3>3 DEF Start
  <2>4. CASE Wake(c)
    <3>1. response # None /\ UNCHANGED <<tx, sent>>
      BY <2>4 DEF Wake, WaitInv, WaitRest, WaiterOwnsResponse, Waiting, modemVars, history
    <3>2. CASE UNCHANGED response
      BY <2>1, <3>1, <3>2, <1>2, <1>i, <1>o
    <3>3. CASE (response.finalResponse # None \/ readerClosed) /\ response' = None
      <4>1. CASE readerClosed
        BY <2>1, <4>1 DEF Streaming
      <4>2. CASE ~readerClosed
        <5>1. Open = 0
          BY <3>3, <4>2 DEF Open
        <5> QED
          BY <2>1, <3>1, <3>3, <5>1, <1>n, <1>2, <1>i
      <4> QED
        BY <4>1, <4>2
    <3> QED
      BY <2>4, <3>1, <3>2, <3>3 DEF Wake
  <2> QED
    BY <1>3, <2>2, <2>3, <2>4 DEF CallerStep
<1>4. ASSUME ShakerStep PROVE Streaming'
  <2>1. UNCHANGED <<rx, reader, line, readerClosed>>
    BY <1>4 DEF ShakerStep, Handshake, HsLock, HsTry, HsExpire, HsTimeout, HsWake,
                HsSleepEnd, channelVars, readerVars, modemVars
  <2>2. CASE Handshake \/ HsLock \/ HsExpire \/ HsSleepEnd
    <3>1. UNCHANGED <<tx, sent, slips, response>>
      BY <2>2 DEF Handshake, HsLock, HsExpire, HsSleepEnd, channelVars, modemVars, history
    <3> QED
      BY <2>1, <3>1, <1>2, <1>i, <1>o
  <2>3. CASE HsTry
    <3>1. response = None /\ UNCHANGED slips
      BY <2>3, <1>0, NonePending DEF HsTry, Busy, Waiting
    <3>2. CASE Post(Shaker, "plain")
      <4>1. "plain" \in AllApis
        BY DEF AllApis
      <4> QED
        BY <2>1, <3>1, <3>2, <4>1, <1>0, <1>p
    <3>3. CASE UNCHANGED <<response, tx, sent>>
      BY <2>1, <3>1, <3>3, <1>2, <1>i, <1>o
    <3> QED
      BY <2>3, <3>1, <3>2, <3>3 DEF HsTry
  <2>4. CASE HsTimeout
    <3>1. UNCHANGED <<tx, sent>> /\ Open' = 0 /\ Incoming' = Incoming
      BY <2>1, <2>4, <1>n, <1>i DEF HsTimeout, modemVars
    <3>2. slips' = slips + Open
      BY <1>t, <2>4 DEF HsTimeout, Open
    <3> SUFFICES ASSUME ~readerClosed PROVE Good(Incoming, tx, sent, slips + Open, 0)
      BY <2>1, <3>1, <3>2 DEF Streaming
    <3>3. Good(Incoming, tx, sent, slips, Open)
      BY DEF Streaming
    <3>4. CASE Open = 1
      BY <1>t, <3>3, <3>4, GoodSlip
    <3>5. CASE Open = 0
      <4>1. slips + Open = slips
        BY <1>t, <3>5
      <4> QED
        BY <3>3, <3>5, <4>1
    <3> QED
      BY <1>t, <3>4, <3>5
  <2>5. CASE HsWake
    <3>1. response # None /\ UNCHANGED <<tx, sent, slips>>
      BY <2>5, <1>0 DEF HsWake, WaitInv, WaitRest, WaiterOwnsResponse, Waiting, modemVars,
                        history
    <3>2. CASE UNCHANGED response
      BY <2>1, <3>1, <3>2, <1>2, <1>i, <1>o
    <3>3. CASE readerClosed
      BY <2>1, <3>3 DEF Streaming
    <3>4. CASE response.finalResponse # None /\ response' = None
      <4>1. Open = 0
        BY <3>4 DEF Open
      <4> QED
        BY <2>1, <3>1, <3>4, <4>1, <1>n, <1>2, <1>i
    <3> QED
      BY <2>5, <3>1, <3>2, <3>3, <3>4 DEF HsWake
  <2> QED
    BY <1>4, <2>2, <2>3, <2>4, <2>5 DEF ShakerStep
<1>d. ASSUME UNCHANGED <<tx, sent, slips, readerClosed>>, Open' = Open, Incoming # <<>>,
             Incoming' = Tail(Incoming)
      PROVE  Streaming'
  BY <1>d, <1>t, GoodDrop DEF Streaming
<1>5. ASSUME ReaderStep PROVE Streaming'
  <2>1. CASE ReadLine
    <3>1. /\ UNCHANGED <<tx, sent, slips, response, readerClosed>>
          /\ reader = "read" /\ rx # <<>> /\ rx' = Tail(rx) /\ line' = Head(rx)
          /\ reader' \in {"second", "process"}
      BY <2>1 DEF ReadLine, channelVars, history
    <3>2. Incoming = rx
      BY <3>1 DEF Incoming
    <3>3. CASE reader' = "process"
      <4>1. Incoming' = <<Head(rx)>> \o Tail(rx)
        BY <3>1, <3>3 DEF Incoming
      <4>2. Incoming' = Incoming
        BY <1>t, <3>1, <3>2, <4>1, HeadTailType, Held
      <4> QED
        BY <3>1, <4>2, <1>2, <1>o
    <3>4. CASE reader' = "second"
      <4>1. Incoming' = Tail(Incoming)
        BY <3>1, <3>2, <3>4 DEF Incoming
      <4> QED
        BY <3>1, <3>2, <4>1, <1>d, <1>o
    <3> QED
      BY <3>1, <3>3, <3>4
  <2>2. CASE ReadSecond
    <3>1. /\ UNCHANGED <<tx, sent, slips, response, readerClosed>>
          /\ reader = "second" /\ rx # <<>> /\ rx' = Tail(rx) /\ reader' = "read"
      BY <2>2 DEF ReadSecond, channelVars, history
    <3>2. Incoming = rx /\ Incoming' = Tail(rx)
      BY <3>1 DEF Incoming
    <3> QED
      BY <3>1, <3>2, <1>d, <1>o
  <2>3. CASE ProcessLine
    <3>1. /\ UNCHANGED <<rx, tx, sent, slips, readerClosed>>
          /\ reader = "process" /\ reader' = "read"
      BY <2>3 DEF ProcessLine
    <3>2. Incoming' = Tail(Incoming) /\ Incoming # <<>> /\ Head(Incoming) = line /\ line \in Lines
      BY <1>t, <3>1 DEF Incoming
    <3>3. CASE Open' = Open
      BY <3>1, <3>2, <3>3, <1>d
    <3>4. CASE Final(line) /\ Open' = 0
      <4>1. ~readerClosed => Good(Tail(Incoming), tx, sent, slips, 0)
        BY <1>t, <3>2, <3>4, GoodDrop DEF Streaming
      <4> QED
        BY <3>1, <3>2, <3>4, <4>1 DEF Streaming
    <3>5. Open' = Open \/ (Final(line) /\ Open' = 0)
      <4>1. CASE response = None
        <5>1. response' = None
          BY <2>3, <4>1, <1>a, ProcessCases
        <5> QED
          BY <4>1, <5>1 DEF Open
      <4>2. CASE response # None
        <5>1. /\ response' # None
              /\ \/ response'.finalResponse = response.finalResponse
                 \/ Final(line) /\ response'.finalResponse = line
          BY <2>3, <4>2, <1>a, ProcessCases
        <5>2. line # None
          BY <1>t, <3>2
        <5> QED
          BY <4>2, <5>1, <5>2 DEF Open
      <4> QED
        BY <4>1, <4>2
    <3> QED
      BY <3>3, <3>4, <3>5
  <2>4. CASE ReadEOF \/ OnReaderClosedTest \/ OnReaderClosed \/ AtClose \/ AtCloseSignal
    <3>1. /\ UNCHANGED <<rx, tx, sent, slips, response>>
          /\ reader # "process" /\ reader' # "process"
          /\ ~readerClosed' => ~readerClosed
      BY <2>4 DEF ReadEOF, OnReaderClosedTest, OnReaderClosed, AtClose, AtCloseSignal,
                  channelVars, modemVars, history
    <3>2. Incoming' = Incoming
      BY <3>1 DEF Incoming
    <3> QED
      BY <3>1, <3>2, <1>2, <1>o
  <2> QED
    BY <1>5, <2>1, <2>2, <2>3, <2>4 DEF ReaderStep
<1>6. CASE AtOpen
  <2>1. /\ UNCHANGED <<sent, slips>> /\ response' = None /\ rx' = <<>> /\ tx' = <<>>
        /\ reader' = "read"
    BY <1>6 DEF AtOpen
  <2>2. Incoming' = <<>> /\ Open' = 0
    BY <2>1, <1>n DEF Incoming
  <2> QED
    BY <2>1, <2>2, <1>t, GoodFresh DEF Streaming
<1>7. ASSUME ModemStep PROVE Streaming'
  <2>1. UNCHANGED <<sent, response, readerClosed, reader, line>>
    BY <1>7 DEF ModemStep, ModemInter, ModemPrompt, ModemFinal, ModemUnsolicited,
                ModemStray, ModemHangup, channelVars, readerVars, history
  <2>2. Open' = Open
    BY <2>1, <1>o
  <2>l. /\ \A k \in LineKinds, n \in Nat : Word(k, n) \in Lines /\ Word(k, n).k = k /\ Word(k, n).of = n
        /\ \A c \in Classes, n \in Nat : Text(c, n) \in Lines /\ Text(c, n).k = "TEXT"
                                      /\ Text(c, n).of = n
    BY LineType DEF Word, Text
  <2>h. tx # <<>> => Head(tx) \in Commands /\ Head(tx).id \in Nat
    <3>1. tx # <<>> => Head(tx) \in Commands
      BY <1>t, HeadTailType
    <3> QED
      BY <3>1 DEF Commands
  <2>s. ASSUME NEW l \in Lines, ~Final(l), Asked(l) => tx # <<>> /\ l.of = Head(tx).id,
               rx' = Append(rx, l), UNCHANGED <<tx, slips>>
        PROVE  Streaming'
    <3>1. Incoming' = Append(Incoming, l)
      BY <1>a, <2>1, <2>s, Joining
    <3> QED
      BY <1>t, <2>1, <2>2, <2>s, <3>1, GoodSay DEF Streaming
  <2>3. CASE ModemInter
    <3>1. PICK c \in Classes : rx' = Append(rx, Text(c, Head(tx).id))
      BY <2>3 DEF ModemInter, Emit, Classes
    <3>2. tx # <<>> /\ UNCHANGED <<tx, slips>>
      BY <2>3 DEF ModemInter
    <3> QED
      BY <2>l, <2>h, <2>s, <3>1, <3>2 DEF Final
  <2>4. CASE ModemPrompt
    <3>1. /\ tx # <<>> /\ UNCHANGED <<tx, slips>>
          /\ rx' = Append(rx, Word("PROMPT", Head(tx).id))
      BY <2>4 DEF ModemPrompt, Emit, history
    <3> QED
      BY <2>l, <2>h, <2>s, <3>1 DEF Final, LineKinds
  <2>5. CASE \E k \in {"OK", "ERROR"} : ModemFinal(k)
    <3>1. PICK k \in {"OK", "ERROR"} : ModemFinal(k)
      BY <2>5
    <3> DEFINE l == Word(k, Head(tx).id)
    <3>2. /\ tx # <<>> /\ UNCHANGED slips /\ tx' = Tail(tx)
          /\ rx' = Append(rx, l)
      BY <3>1 DEF ModemFinal, Emit, history
    <3>3. l \in Lines /\ Final(l) /\ l.of = Head(tx).id
      BY <2>l, <2>h, <3>2 DEF Final, LineKinds
    <3> HIDE DEF l
    <3>4. Incoming' = Append(Incoming, l)
      BY <1>a, <2>1, <3>2, <3>3, Joining
    <3> QED
      BY <1>t, <2>1, <2>2, <3>2, <3>3, <3>4, GoodFinal DEF Streaming
  <2>6. CASE ModemUnsolicited
    <3>1. UNCHANGED <<tx, slips>>
      BY <2>6 DEF ModemUnsolicited
    <3>2. CASE \E cls \in UrcClasses : Emit(Text(cls, 0))
      <4>1. PICK c \in Classes : rx' = Append(rx, Text(c, 0))
        BY <3>2, ChannelAssumption DEF Emit, Classes
      <4> QED
        BY <2>l, <2>s, <3>1, <4>1 DEF Final, Asked
    <3>3. CASE rx' = rx \o <<Word("SMS", 0), Word("PDU", 0)>>
      <4> DEFINE l1 == Word("SMS", 0)
                 l2 == Word("PDU", 0)
      <4>1. /\ l1 \in Lines /\ ~Final(l1) /\ ~Asked(l1)
            /\ l2 \in Lines /\ ~Final(l2) /\ ~Asked(l2)
        BY <2>l DEF Final, Asked, LineKinds
      <4>2. rx' = rx \o <<l1, l2>>
        BY <3>3
      <4> HIDE DEF l1, l2
      <4>3. rx' = Append(Append(rx, l1), l2)
        BY <1>t, <4>1, <4>2
      <4>4. Incoming' = Append(Append(Incoming, l1), l2)
        <5>1. CASE reader = "process"
          <6>1. <<line>> \o Append(Append(rx, l1), l2) = Append(Append(<<line>> \o rx, l1), l2)
            BY <1>t, <4>1, <5>1, Held, AppendType
          <6> QED
            BY <2>1, <4>3, <5>1, <6>1 DEF Incoming
        <5>2. CASE reader # "process"
          BY <2>1, <4>3, <5>2 DEF Incoming
        <5> QED
          BY <5>1, <5>2
      <4>5. ASSUME ~readerClosed
            PROVE  Good(Append(Append(Incoming, l1), l2), tx, sent, slips, Open)
        <5>1. Good(Append(Incoming, l1), tx, sent, slips, Open)
          BY <1>t, <4>1, <4>5, GoodSay DEF Streaming
        <5>2. Append(Incoming, l1) \in Seq(Lines)
          BY <1>t, <4>1, AppendType
        <5> QED
          BY <1>t, <4>1, <5>1, <5>2, GoodSay
      <4> QED
        BY <2>1, <2>2, <3>1, <4>4, <4>5 DEF Streaming
    <3> QED
      BY <2>6, <3>2, <3>3 DEF ModemUnsolicited
  <2>7. CASE ModemStray
    <3> DEFINE l == Word("ERROR", 0)
    <3>1. UNCHANGED tx /\ slips' = slips + 1 /\ rx' = Append(rx, l)
      BY <2>7 DEF ModemStray, Emit
    <3>2. l \in Lines /\ Final(l) /\ l.of = 0
      BY <2>l DEF Final, LineKinds
    <3> HIDE DEF l
    <3>3. Incoming' = Append(Incoming, l)
      BY <1>a, <2>1, <3>1, <3>2, Joining
    <3> QED
      BY <1>t, <2>1, <2>2, <3>1, <3>2, <3>3, GoodStray DEF Streaming
  <2>8. CASE ModemHangup
    <3>1. UNCHANGED <<rx, tx, slips>>
      BY <2>8 DEF ModemHangup, history
    <3> QED
      BY <2>1, <2>2, <3>1, <1>2, <1>i
  <2> QED
    BY <1>7, <2>3, <2>4, <2>5, <2>6, <2>7, <2>8 DEF ModemStep
<1> QED
  BY <1>3, <1>4, <1>5, <1>6, <1>7 DEF Next

\* Nothing is left over at the start.
LEMMA LagInit == Init => LagInv
<1> SUFFICES ASSUME Init PROVE LagInv
  OBVIOUS
<1>1. /\ Incoming = <<>> /\ Open = 0 /\ tx = <<>> /\ sent = 0 /\ slips = 0
      /\ response = None /\ ~readerClosed /\ pdus = <<>>
  BY DEF Init, Incoming, Open
<1>2. Good(Incoming, tx, sent, slips, Open)
  BY <1>1, GoodFresh
<1>3. \A c \in Callers : ~Answered(result[c])
  BY DEF Init, Answered
<1>4. Len(pdus) = 0 /\ 1 .. 0 = {}
  BY <1>1
<1> QED
  BY <1>1, <1>2, <1>3, <1>4
     DEF LagInv, PendingWaits, ReaderGone, Streaming, Book, Last, Matched, Unwritten,
         Written, Answers

\* Every step keeps the invariant.
LEMMA LagNext ==
  ASSUME Serialized, WaitInv, LagInv, [Next]_vars
  PROVE  LagInv'
<1>1. WaitInv' /\ TypeInv'
  BY WaitNext DEF WaitInv
<1>2. CASE Next
  BY <1>1, <1>2, PendNext, GoneNext, StreamNext, BookNext DEF LagInv, WaitInv, TypeInv
<1>3. CASE UNCHANGED vars
  BY <1>3 DEF LagInv, PendingWaits, ReaderGone, Streaming, Book, Last, Matched, Unwritten,
     Written, Answers, Answered, Waiting, Incoming, Open, vars, threadVars, channelVars,
     readerVars, modemVars, history
<1> QED
  BY <1>2, <1>3

\* When commands are serialized, a command that ends with a final response
\* ends with its own or with one that was left over, and is no further behind
\* than the handshake attempts given up and the NO CARRIER lines sent
\* unasked: processLine() gives a final response to whatever is pending.
THEOREM AlwaysAnswerLag == Serialized => (Spec => []AnswerLag)
<1> SUFFICES ASSUME Serialized PROVE Spec => []AnswerLag
  OBVIOUS
<1>1. Init => WaitInv /\ LagInv
  BY WaitInit, LagInit
<1>2. (WaitInv /\ LagInv) /\ [Next]_vars => (WaitInv /\ LagInv)'
  BY WaitNext, LagNext
<1>3. WaitInv /\ LagInv => AnswerLag
  BY DEF LagInv, Book, Answers, AnswerLag, Lagging
<1> QED
  BY <1>1, <1>2, <1>3, PTL DEF Spec

\* When commands are serialized, the PDU of an SMS is written at most once
\* and, unless an answer was left over, to the prompt of its own command.
THEOREM AlwaysPduAnswersPrompt == Serialized => (Spec => []PduAnswersPrompt)
<1> SUFFICES ASSUME Serialized PROVE Spec => []PduAnswersPrompt
  OBVIOUS
<1>1. Init => WaitInv /\ LagInv
  BY WaitInit, LagInit
<1>2. (WaitInv /\ LagInv) /\ [Next]_vars => (WaitInv /\ LagInv)'
  BY WaitNext, LagNext
<1>3. WaitInv /\ LagInv => PduAnswersPrompt
  <2> SUFFICES ASSUME WaitInv, LagInv, NEW n \in DOMAIN pdus
               PROVE  /\ Cardinality(pdus[n]) <= 1
                      /\ slips = 0 => pdus[n] \subseteq {n}
    BY DEF PduAnswersPrompt
  <2>1. pdus \in Seq(SUBSET Nat)
    BY LagTypes DEF WaitInv
  <2>2. n \in 1 .. sent
    BY <2>1 DEF LagInv, Book, Written
  <2>3. /\ pdus[n] = {} \/ \E p \in Nat : pdus[n] = {p}
        /\ slips = 0 => pdus[n] \subseteq {n}
    BY <2>2 DEF LagInv, Book, Written
  <2>4. CASE pdus[n] = {}
    BY <2>3, <2>4, FS_EmptySet
  <2>5. CASE \E p \in Nat : pdus[n] = {p}
    BY <2>3, <2>5, FS_Singleton
  <2> QED
    BY <2>3, <2>4, <2>5
<1> QED
  BY <1>1, <1>2, <1>3, PTL DEF Spec
-----------------------------------------------------------------------------
(***************************************************************************)
(* What a command returns.  While it is pending, the lines it has taken    *)
(* and those still to be processed are together what the modem sent for    *)
(* it: a line moves from one list to the other, and only lines nobody      *)
(* asked for are lost between them, unless one of those was taken for the  *)
(* single line of the answer.                                              *)
(***************************************************************************)

\* the intermediate lines of commands among the lines of q
Intermediate(l) == l.of > 0 /\ ~Final(l) /\ l.k # "PROMPT"
Own(q) == {p \in DOMAIN q : Intermediate(q[p])}

\* what the modem answers to a command of type a
Shaped(e, a) ==
  /\ a = "plain" => Len(e) = 0
  /\ NeedsIntermediate(a) => Len(e) <= 1
  /\ \A i \in DOMAIN e : a # "cmgr" \/ i = 1 =>
       LooksLike(e[i], a)

\* The device of a reader that has ended is gone.
DeviceGone ==
  reader \in {"eof", "closing", "callback", "closefd", "dead"} => hungup

\* What nobody asked for: only text looks like an answer, and the two lines of
\* an unsolicited SMS stay together.
Unasked ==
  \A p \in DOMAIN Incoming : Incoming[p].k # "TEXT" => Incoming[p].cls = "other"

Pairs(q) ==
  \A p \in DOMAIN q :
    /\ q[p].k \in {"SMS", "PDU"} => q[p].of = 0
    /\ q[p].k = "SMS" => p + 1 \in DOMAIN q /\ q[p + 1].k = "PDU"
Paired == /\ Pairs(rx)
          /\ reader = "second" => rx # <<>> /\ Head(rx).k = "PDU"

\* The modem works on the last command, and counts its lines.
Progress ==
  slips = 0 /\ ~readerClosed =>
    modem.inter = IF tx = <<>> THEN 0 ELSE Len(emitted[sent])

\* The command that waits for its final response.
Collecting ==
  slips = 0 /\ ~readerClosed /\ Open = 1 =>
    /\ \/ Mistaken(response.type, response.intermediates)
       \/ Lists(response.intermediates \o Incoming,
                Own(response.intermediates \o Incoming), emitted[sent])
    /\ Shaped(emitted[sent], response.type)
    /\ tx # <<>> => Head(tx).api = response.type
    /\ \A p \in DOMAIN Incoming : Incoming[p].k = "PROMPT" => response.type = "sms"

\* The lines it has taken.
Taken ==
  slips = 0 /\ response # None =>
    /\ NeedsIntermediate(response.type) => Len(response.intermediates) <= 1
    /\ \A p \in DOMAIN response.intermediates :
         /\ ~Final(response.intermediates[p])
         /\ response.intermediates[p].k # "PROMPT"
         /\ \/ LooksLike(response.intermediates[p], response.type)
            \/ response.type = "cmgr" /\ p > 1

\* The command that has its final response has all of its lines.
Collected ==
  slips = 0 /\ ~readerClosed /\ response # None /\ response.finalResponse # None =>
    \/ Mistaken(response.type, response.intermediates)
    \/ Lists(response.intermediates, Own(response.intermediates), emitted[sent])

\* What the callers were told.
Returned ==
  slips = 0 => \A c \in Callers : Answered(result[c]) =>
    /\ result[c].cmd \in 1 .. sent
    /\ result[c].cmd = sent => response = None
    /\ Complete(result[c].inter, result[c].type, emitted[result[c].cmd])

Recorded == Len(emitted) = sent
CollectInv == /\ DeviceGone /\ Unasked /\ Paired /\ Recorded /\ Progress
              /\ Collecting /\ Taken /\ Collected /\ Returned
-----------------------------------------------------------------------------
(* Selecting lines from a sequence                                         *)

\* Lines that move without changing their order are the same list.
LEMMA ListsMove ==
  ASSUME NEW q, NEW I, NEW r, NEW J, NEW e, NEW g \in [I -> J],
         \A a, b \in I : a < b => g[a] < g[b],
         \A a \in I : r[g[a]] = q[a],
         \A p \in J : \E a \in I : g[a] = p,
         Lists(q, I, e)
  PROVE  Lists(r, J, e)
<1>1. PICK f \in [DOMAIN e -> I] :
        /\ \A i, j \in DOMAIN e : i < j => f[i] < f[j]
        /\ \A i \in DOMAIN e : q[f[i]] = e[i]
        /\ \A p \in I : \E i \in DOMAIN e : f[i] = p
  BY DEF Lists
<1> DEFINE h == [i \in DOMAIN e |-> g[f[i]]]
<1>2. h \in [DOMAIN e -> J] /\ \A i \in DOMAIN e : h[i] = g[f[i]] /\ f[i] \in I
  BY <1>1
<1> HIDE DEF h
<1>3. \A i, j \in DOMAIN e : i < j => h[i] < h[j]
  BY <1>1, <1>2
<1>4. \A i \in DOMAIN e : r[h[i]] = e[i]
  BY <1>1, <1>2
<1>5. \A p \in J : \E i \in DOMAIN e : h[i] = p
  BY <1>1, <1>2
<1> QED
  BY <1>2, <1>3, <1>4, <1>5 DEF Lists

\* Nothing is listed by the empty list.
LEMMA ListsNone ==
  ASSUME NEW q, NEW I, I = {}
  PROVE  Lists(q, I, <<>>)
<1> DEFINE f == [i \in DOMAIN <<>> |-> 0]
<1>1. DOMAIN <<>> = {}
  OBVIOUS
<1>2. f \in [DOMAIN <<>> -> I]
  BY <1>1
<1> HIDE DEF f
<1> QED
  BY <1>1, <1>2 DEF Lists

\* The modem sends a line that is not an intermediate one.
LEMMA ListsOther ==
  ASSUME NEW q \in Seq(Lines), NEW l \in Lines, ~Intermediate(l), NEW e, Lists(q, Own(q), e)
  PROVE  Lists(Append(q, l), Own(Append(q, l)), e)
<1> DEFINE r == Append(q, l)
           g == [p \in Own(q) |-> p]
<1>e. /\ DOMAIN q = 1 .. Len(q) /\ Len(q) \in Nat
      /\ DOMAIN r = 1 .. Len(q) + 1 /\ r[Len(q) + 1] = l
      /\ \A i \in DOMAIN q : i \in DOMAIN r /\ r[i] = q[i]
      /\ \A i \in DOMAIN r : i \in DOMAIN q \/ (i = Len(q) + 1 /\ r[i] = l)
  BY Ends
<1> HIDE DEF r
<1>1. Own(r) = Own(q) /\ \A p \in Own(q) : r[p] = q[p]
  BY <1>e DEF Own
<1>2. g \in [Own(q) -> Own(r)] /\ \A p \in Own(q) : g[p] = p
  BY <1>1
<1> HIDE DEF g
<1>3. Lists(r, Own(r), e)
  <2>1. /\ \A a, b \in Own(q) : a < b => g[a] < g[b]
        /\ \A a \in Own(q) : r[g[a]] = q[a]
        /\ \A p \in Own(r) : \E a \in Own(q) : g[a] = p
    BY <1>1, <1>2
  <2> QED
    BY <1>2, <2>1, ListsMove
<1> QED
  BY <1>3 DEF r

\* The modem sends an intermediate line, and that is recorded.
LEMMA ListsSent ==
  ASSUME NEW q \in Seq(Lines), NEW l \in Lines, Intermediate(l), NEW e \in Seq(Lines),
         Lists(q, Own(q), e)
  PROVE  Lists(Append(q, l), Own(Append(q, l)), Append(e, l))
<1> DEFINE r == Append(q, l)
           d == Append(e, l)
<1>e. /\ DOMAIN q = 1 .. Len(q) /\ Len(q) \in Nat
      /\ DOMAIN r = 1 .. Len(q) + 1 /\ r[Len(q) + 1] = l
      /\ \A i \in DOMAIN q : i \in DOMAIN r /\ r[i] = q[i] /\ i < Len(q) + 1
      /\ \A i \in DOMAIN r : i \in DOMAIN q \/ (i = Len(q) + 1 /\ r[i] = l)
      /\ Len(q) + 1 \in DOMAIN r
  BY Ends
<1>d. /\ DOMAIN e = 1 .. Len(e) /\ Len(e) \in Nat
      /\ DOMAIN d = 1 .. Len(e) + 1 /\ d[Len(e) + 1] = l
      /\ \A i \in DOMAIN e : i \in DOMAIN d /\ d[i] = e[i] /\ i # Len(e) + 1
      /\ \A i \in DOMAIN d : i \in DOMAIN e \/ (i = Len(e) + 1 /\ d[i] = l)
      /\ Len(e) + 1 \in DOMAIN d
  BY Ends
<1>1. PICK f \in [DOMAIN e -> Own(q)] :
        /\ \A i, j \in DOMAIN e : i < j => f[i] < f[j]
        /\ \A i \in DOMAIN e : q[f[i]] = e[i]
        /\ \A p \in Own(q) : \E i \in DOMAIN e : f[i] = p
  BY DEF Lists
<1> DEFINE h == [i \in DOMAIN d |-> IF i = Len(e) + 1 THEN Len(q) + 1 ELSE f[i]]
<1> HIDE DEF r, d
<1>o. /\ Own(r) = Own(q) \cup {Len(q) + 1}
      /\ \A p \in Own(q) : p \in DOMAIN q /\ r[p] = q[p] /\ p < Len(q) + 1
  BY <1>e DEF Own
<1>2. /\ h \in [DOMAIN d -> Own(r)]
      /\ h[Len(e) + 1] = Len(q) + 1
      /\ \A i \in DOMAIN e : h[i] = f[i] /\ f[i] \in Own(q)
  BY <1>d, <1>o, <1>1
<1> HIDE DEF h
<1>3. \A i, j \in DOMAIN d : i < j => h[i] < h[j]
  <2>1. \A i, j \in DOMAIN d : i < j => i \in DOMAIN e
    BY <1>d
  <2> QED
    BY <1>d, <1>o, <1>1, <1>2, <2>1
<1>4. \A i \in DOMAIN d : r[h[i]] = d[i]
  BY <1>d, <1>e, <1>o, <1>1, <1>2
<1>5. \A p \in Own(r) : \E i \in DOMAIN d : h[i] = p
  BY <1>d, <1>o, <1>1, <1>2
<1>6. Lists(r, Own(r), d)
  BY <1>2, <1>3, <1>4, <1>5 DEF Lists
<1> QED
  BY <1>6 DEF r, d

\* Two lists of lines, one behind the other.
LEMMA Joined ==
  ASSUME NEW a \in Seq(Lines), NEW b \in Seq(Lines)
  PROVE  /\ a \o b \in Seq(Lines) /\ Len(a) \in Nat /\ Len(b) \in Nat
         /\ DOMAIN a = 1 .. Len(a) /\ DOMAIN b = 1 .. Len(b)
         /\ DOMAIN (a \o b) = 1 .. Len(a) + Len(b)
         /\ \A i \in DOMAIN a : i \in DOMAIN (a \o b) /\ (a \o b)[i] = a[i]
         /\ \A i \in DOMAIN b : /\ i + Len(a) \in DOMAIN (a \o b)
                                /\ (a \o b)[i + Len(a)] = b[i]
         /\ \A i \in DOMAIN (a \o b) : i \in DOMAIN a \/ i - Len(a) \in DOMAIN b
<1>1. /\ a \o b \in Seq(Lines) /\ Len(a \o b) = Len(a) + Len(b)
      /\ \A i \in 1 .. Len(a) + Len(b) : (a \o b)[i] = IF i <= Len(a) THEN a[i] ELSE b[i - Len(a)]
  BY ConcatProperties
<1>2. /\ Len(a) \in Nat /\ Len(b) \in Nat
      /\ DOMAIN a = 1 .. Len(a) /\ DOMAIN b = 1 .. Len(b)
      /\ DOMAIN (a \o b) = 1 .. Len(a) + Len(b)
  BY <1>1, Ends
<1>3. \A i \in DOMAIN a : i \in DOMAIN (a \o b) /\ (a \o b)[i] = a[i]
  BY <1>1, <1>2
<1>4. \A i \in DOMAIN b : i + Len(a) \in DOMAIN (a \o b) /\ (a \o b)[i + Len(a)] = b[i]
  <2>1. \A i \in DOMAIN b : /\ i + Len(a) \in 1 .. Len(a) + Len(b)
                            /\ ~(i + Len(a) <= Len(a)) /\ (i + Len(a)) - Len(a) = i
    BY <1>2
  <2> QED
    BY <1>1, <1>2, <2>1
<1>5. \A i \in DOMAIN (a \o b) : i \in DOMAIN a \/ i - Len(a) \in DOMAIN b
  BY <1>2
<1> QED
  BY <1>1, <1>2, <1>3, <1>4, <1>5

\* A line that no command asked for is not taken.
LEMMA ListsLost ==
  ASSUME NEW a \in Seq(Lines), NEW q \in Seq(Lines), q # <<>>, ~Intermediate(Head(q)), NEW e,
         Lists(a \o q, Own(a \o q), e)
  PROVE  Lists(a \o Tail(q), Own(a \o Tail(q)), e)
<1> DEFINE b == Tail(q)
           w == a \o q
           v == a \o b
           g == [p \in Own(w) |-> IF p <= Len(a) THEN p ELSE p - 1]
<1>q. /\ DOMAIN q = 1 .. Len(q) /\ Len(q) \in Nat /\ Len(q) >= 1 /\ Head(q) = q[1]
      /\ b \in Seq(Lines) /\ DOMAIN b = 1 .. Len(q) - 1
      /\ \A i \in DOMAIN b : b[i] = q[i + 1]
  BY Ends
<1>l. Len(b) = Len(q) - 1
  OBVIOUS
<1> HIDE DEF b
<1>w. /\ Len(a) \in Nat /\ DOMAIN a = 1 .. Len(a)
      /\ DOMAIN w = 1 .. Len(a) + Len(q)
      /\ \A i \in DOMAIN a : w[i] = a[i]
      /\ \A i \in DOMAIN q : w[i + Len(a)] = q[i]
      /\ \A i \in DOMAIN w : i \in DOMAIN a \/ i - Len(a) \in DOMAIN q
  BY Joined
<1>v. /\ DOMAIN v = 1 .. Len(a) + Len(b) /\ Len(b) \in Nat /\ DOMAIN b = 1 .. Len(b)
      /\ \A i \in DOMAIN a : v[i] = a[i]
      /\ \A i \in DOMAIN b : v[i + Len(a)] = b[i]
      /\ \A i \in DOMAIN v : i \in DOMAIN a \/ i - Len(a) \in DOMAIN b
  BY <1>q, Joined
<1> HIDE DEF w, v
<1>1. \A p \in Own(w) : p \in DOMAIN w /\ p # Len(a) + 1
  <2>1. w[1 + Len(a)] = q[1]
    BY <1>q, <1>w
  <2>2. 1 + Len(a) = Len(a) + 1
    BY <1>w
  <2> QED
    BY <1>q, <2>1, <2>2 DEF Own
<1>2. \A p \in Own(w) : /\ p <= Len(a) => p \in DOMAIN a /\ p \in DOMAIN v /\ v[p] = w[p]
                        /\ p > Len(a) => p - 1 \in DOMAIN v /\ v[p - 1] = w[p]
  <2> SUFFICES ASSUME NEW p \in Own(w)
               PROVE  /\ p <= Len(a) => p \in DOMAIN a /\ p \in DOMAIN v /\ v[p] = w[p]
                      /\ p > Len(a) => p - 1 \in DOMAIN v /\ v[p - 1] = w[p]
    OBVIOUS
  <2>1. p \in 1 .. Len(a) + Len(q) /\ p # Len(a) + 1
    BY <1>1, <1>w
  <2>2. ASSUME p <= Len(a) PROVE p \in DOMAIN a /\ p \in DOMAIN v /\ v[p] = w[p]
    BY <1>w, <1>v, <2>1, <2>2
  <2>3. ASSUME p > Len(a) PROVE p - 1 \in DOMAIN v /\ v[p - 1] = w[p]
    <3> DEFINE k == p - Len(a) - 1
    <3>1. /\ k \in DOMAIN b /\ k + Len(a) = p - 1 /\ k + 1 \in DOMAIN q
          /\ (k + 1) + Len(a) = p /\ p - 1 \in DOMAIN v
      BY <1>q, <1>w, <1>v, <1>l, <2>1, <2>3
    <3> HIDE DEF k
    <3>2. v[k + Len(a)] = b[k] /\ b[k] = q[k + 1] /\ w[(k + 1) + Len(a)] = q[k + 1]
      BY <1>q, <1>w, <1>v, <3>1
    <3> QED
      BY <3>1, <3>2
  <2> QED
    BY <2>2, <2>3
<1>3. /\ g \in [Own(w) -> Own(v)]
      /\ \A p \in Own(w) : g[p] = (IF p <= Len(a) THEN p ELSE p - 1) /\ v[g[p]] = w[p]
  <2>1. \A p \in Own(w) : p \in Nat /\ Intermediate(w[p])
    BY <1>w DEF Own
  <2>2. \A p \in Own(w) : LET x == IF p <= Len(a) THEN p ELSE p - 1
                          IN  x \in Own(v) /\ v[x] = w[p]
    BY <1>w, <1>2, <2>1 DEF Own
  <2> QED
    BY <2>2
<1> HIDE DEF g
<1>4. \A x, y \in Own(w) : x < y => g[x] < g[y]
  <2>1. \A x \in Own(w) : x \in Nat /\ x # Len(a) + 1
    BY <1>1, <1>w
  <2>2. \A x \in Own(w) : g[x] = IF x <= Len(a) THEN x ELSE x - 1
    BY <1>3
  <2>3. ASSUME NEW x \in Own(w), NEW y \in Own(w), x < y PROVE g[x] < g[y]
    <3>1. /\ x \in Nat /\ y \in Nat /\ x # Len(a) + 1 /\ y # Len(a) + 1
          /\ g[x] = (IF x <= Len(a) THEN x ELSE x - 1)
          /\ g[y] = (IF y <= Len(a) THEN y ELSE y - 1)
      BY <2>1, <2>2
    <3> QED
      BY <1>w, <2>3, <3>1
  <2> QED
    BY <2>3
<1>5. \A p \in Own(v) : \E x \in Own(w) : g[x] = p
  <2> SUFFICES ASSUME NEW p \in Own(v) PROVE \E x \in Own(w) : g[x] = p
    OBVIOUS
  <2>0. p \in 1 .. Len(a) + Len(b) /\ Intermediate(v[p])
    BY <1>v DEF Own
  <2>1. CASE p <= Len(a)
    <3>1. p \in DOMAIN w /\ w[p] = v[p]
      BY <1>w, <1>v, <1>l, <2>0, <2>1, SMTT(30)
    <3> QED
      BY <1>3, <2>0, <2>1, <3>1 DEF Own
  <2>2. CASE p > Len(a)
    <3> DEFINE k == p - Len(a)
    <3>1. /\ k \in DOMAIN b /\ k + Len(a) = p /\ k + 1 \in DOMAIN q
          /\ (k + 1) + Len(a) = p + 1 /\ p + 1 \in DOMAIN w
          /\ ~(p + 1 <= Len(a)) /\ (p + 1) - 1 = p
      BY <1>q, <1>w, <1>v, <1>l, <2>0, <2>2
    <3> HIDE DEF k
    <3>2. v[k + Len(a)] = b[k] /\ b[k] = q[k + 1] /\ w[(k + 1) + Len(a)] = q[k + 1]
      BY <1>q, <1>w, <1>v, <3>1
    <3>3. p + 1 \in Own(w)
      BY <2>0, <3>1, <3>2 DEF Own
    <3> QED
      BY <1>3, <3>1, <3>3
  <2> QED
    BY <1>w, <2>0, <2>1, <2>2
<1>6. Lists(w, Own(w), e)
  BY DEF w
<1>7. Lists(v, Own(v), e)
  BY <1>3, <1>4, <1>5, <1>6, ListsMove
<1> QED
  BY <1>7 DEF v, b

\* Once nothing more is to come, what was taken is the answer.
LEMMA ListsEnd ==
  ASSUME NEW a \in Seq(Lines), NEW q \in Seq(Lines), Own(q) = {}, NEW e,
         Lists(a \o q, Own(a \o q), e)
  PROVE  Lists(a, Own(a), e)
<1> DEFINE w == a \o q
           g == [p \in Own(w) |-> p]
<1>w. /\ Len(a) \in Nat /\ DOMAIN a = 1 .. Len(a)
      /\ DOMAIN w = 1 .. Len(a) + Len(q)
      /\ \A i \in DOMAIN a : i \in DOMAIN w /\ w[i] = a[i]
      /\ \A i \in DOMAIN q : w[i + Len(a)] = q[i]
      /\ \A i \in DOMAIN w : i \in DOMAIN a \/ i - Len(a) \in DOMAIN q
      /\ Len(q) \in Nat
  BY Joined
<1> HIDE DEF w
<1>1. Own(w) = Own(a) /\ \A p \in Own(a) : w[p] = a[p]
  <2>1. \A p \in DOMAIN w : p \in DOMAIN a \/ ~Intermediate(w[p])
    <3> SUFFICES ASSUME NEW p \in DOMAIN w, p - Len(a) \in DOMAIN q PROVE ~Intermediate(w[p])
      BY <1>w
    <3>1. (p - Len(a)) + Len(a) = p
      BY <1>w
    <3>2. w[(p - Len(a)) + Len(a)] = q[p - Len(a)]
      BY <1>w
    <3> QED
      BY <3>1, <3>2 DEF Own
  <2> QED
    BY <1>w, <2>1 DEF Own
<1>2. g \in [Own(w) -> Own(a)] /\ \A p \in Own(w) : g[p] = p
  BY <1>1
<1> HIDE DEF g
<1>3. Lists(w, Own(w), e)
  BY DEF w
<1>4. /\ \A x, y \in Own(w) : x < y => g[x] < g[y]
      /\ \A x \in Own(w) : a[g[x]] = w[x]
      /\ \A p \in Own(a) : \E x \in Own(w) : g[x] = p
  BY <1>1, <1>2
<1> QED
  BY <1>2, <1>3, <1>4, ListsMove

\* Handling a line that the command takes moves it from one list to the other.
LEMMA Moved ==
  ASSUME NEW a \in Seq(Lines), NEW q \in Seq(Lines), q # <<>>
  PROVE  Append(a, Head(q)) \o Tail(q) = a \o q
<1>1. Head(q) \in Lines /\ Tail(q) \in Seq(Lines) /\ <<Head(q)>> \o Tail(q) = q
  BY HeadTailType, Held
<1>2. <<Head(q)>> \in Seq(Lines) /\ Append(a, Head(q)) = a \o <<Head(q)>>
  BY <1>1, AppendIsConcat
<1>3. (a \o <<Head(q)>>) \o Tail(q) = a \o (<<Head(q)>> \o Tail(q))
  BY <1>1, <1>2, ConcatAssociative
<1> QED
  BY <1>1, <1>2, <1>3

\* The next line of an answer is the first one, unless some of it was taken.
LEMMA NextLine ==
  ASSUME NEW a \in Seq(Lines), NEW q \in Seq(Lines), q # <<>>, Intermediate(Head(q)),
         NEW e \in Seq(Lines), Lists(a \o q, Own(a \o q), e)
  PROVE  \E k \in DOMAIN e : /\ e[k] = Head(q)
                             /\ k > 1 => a # <<>>
                             /\ k = 1 => Own(a) = {}
<1> DEFINE w == a \o q
<1>q. 1 \in DOMAIN q /\ Head(q) = q[1]
  BY Ends
<1>w. /\ Len(a) \in Nat /\ DOMAIN a = 1 .. Len(a)
      /\ \A i \in DOMAIN a : i \in DOMAIN w /\ w[i] = a[i]
      /\ 1 + Len(a) \in DOMAIN w /\ w[1 + Len(a)] = q[1] /\ DOMAIN w \subseteq Nat \ {0}
  BY <1>q, Joined
<1>e. DOMAIN e = 1 .. Len(e) /\ Len(e) \in Nat
  BY Ends
<1> HIDE DEF w
<1>1. PICK f \in [DOMAIN e -> Own(w)] :
        /\ \A i, j \in DOMAIN e : i < j => f[i] < f[j]
        /\ \A i \in DOMAIN e : w[f[i]] = e[i]
        /\ \A p \in Own(w) : \E i \in DOMAIN e : f[i] = p
  BY DEF Lists, w
<1>2. 1 + Len(a) \in Own(w)
  BY <1>q, <1>w DEF Own
<1>3. PICK k \in DOMAIN e : f[k] = 1 + Len(a)
  BY <1>1, <1>2
<1>4. e[k] = Head(q)
  BY <1>q, <1>w, <1>1, <1>3
<1>5. ASSUME k > 1 PROVE a # <<>>
  <2>1. 1 \in DOMAIN e /\ f[1] < f[k] /\ f[1] \in Own(w)
    BY <1>e, <1>1, <1>5
  <2>2. f[1] \in DOMAIN w
    BY <2>1 DEF Own
  <2>3. Len(a) > 0
    BY <1>w, <1>3, <2>1, <2>2
  <2> QED
    BY <2>3
<1>6. ASSUME k = 1 PROVE Own(a) = {}
  <2> SUFFICES ASSUME NEW p \in Own(a) PROVE FALSE
    OBVIOUS
  <2>1. p \in DOMAIN a /\ p \in Own(w)
    BY <1>w DEF Own
  <2>2. PICK i \in DOMAIN e : f[i] = p
    BY <1>1, <2>1
  <2>3. i = 1 \/ f[1] < f[i]
    BY <1>e, <1>1, <1>6
  <2> QED
    BY <1>w, <1>3, <1>6, <2>1, <2>2, <2>3
<1> QED
  BY <1>4, <1>5, <1>6
-----------------------------------------------------------------------------
(* Every step keeps the lines of a command together                        *)

\* What the lines are followed with.
LEMMA CollectTypes ==
  ASSUME TypeInv
  PROVE  /\ emitted \in Seq(Seq(Lines))
         /\ modem.inter \in Nat
         /\ Open = 1 <=> response # None /\ response.finalResponse = None
         /\ response # None => /\ response \in Responses
                               /\ response.intermediates \in Seq(Lines)
                               /\ response.type \in AllApis
<1>1. /\ emitted \in Seq(Seq(Lines)) /\ response \in Responses \cup {None}
      /\ modem \in [inter : Nat, prompt : {"none", "asked", "sent"}]
  BY DEF TypeInv, TypeOK, HistoryTypes, ChannelTypes, ModemTypes
<1>2. Open = 1 <=> response # None /\ response.finalResponse = None
  BY DEF Open
<1>3. response # None => response \in Responses
  BY <1>1
<1>4. response # None => /\ response.intermediates \in Seq(Lines)
                         /\ response.type \in AllApis
  BY <1>3 DEF Responses
<1> QED
  BY <1>1, <1>2, <1>3, <1>4

\* Without an answer left over only the last command is under way.
LEMMA GoodQuiet ==
  ASSUME NEW q \in Seq(Lines), NEW t \in Seq(Commands), NEW n \in Nat, NEW o \in {0, 1},
         Good(q, t, n, 0, o)
  PROVE  /\ t # <<>> => o = 1 /\ Head(t).id = n /\ Tail(t) = <<>>
         /\ o = 0 => \A p \in DOMAIN q : ~Asked(q[p])
<1>t. /\ \A i \in DOMAIN q : q[i].of \in Nat
      /\ \A j \in DOMAIN t : t[j].id \in Nat
      /\ Strays(q) \in Nat
  BY StreamTypes, StraysAreFew
<1>o. Ordered(q, t, n) /\ Behind(q, t, n, 0, o) /\ Preceding(q, t)
  BY DEF Good
<1>z. Strays(q) = 0
  BY <1>t, <1>o DEF Behind
<1>1. \A j \in DOMAIN t : t[j].id = n /\ o = 1
  <2> SUFFICES ASSUME NEW j \in DOMAIN t PROVE t[j].id = n /\ o = 1
    OBVIOUS
  <2>1. n + Strays(q) + 1 <= t[j].id + 0 + o /\ t[j].id \in 1 .. n
    BY <1>o DEF Behind, Ordered
  <2> QED
    BY <1>t, <1>z, <2>1
<1>2. ASSUME t # <<>> PROVE o = 1 /\ Head(t).id = n /\ Tail(t) = <<>>
  <2>1. /\ DOMAIN t = 1 .. Len(t) /\ Len(t) \in Nat /\ Len(t) >= 1 /\ Head(t) = t[1]
    BY <1>2, Ends
  <2>2. ~ 2 \in DOMAIN t
    <3> SUFFICES ASSUME 2 \in DOMAIN t PROVE FALSE
      OBVIOUS
    <3>1. 1 \in DOMAIN t /\ t[1].id < t[2].id
      BY <1>o, <2>1 DEF Ordered
    <3> QED
      BY <1>1, <3>1
  <2>3. Len(t) = 1
    BY <2>1, <2>2
  <2>4. Tail(t) \in Seq(Commands) /\ Len(Tail(t)) = 0
    BY <1>2, <2>3
  <2>5. Tail(t) = <<>>
    BY <2>4, EmptySeq
  <2> QED
    BY <1>1, <2>1, <2>3, <2>5
<1>3. ASSUME o = 0, NEW p \in DOMAIN q, Asked(q[p]) PROVE FALSE
  <2>1. CASE \E j \in DOMAIN q : p < j /\ Final(q[j]) /\ q[j].of = q[p].of /\ q[j].of > 0
    <3>1. PICK j \in DOMAIN q : Final(q[j]) /\ q[j].of > 0
      BY <2>1
    <3>2. n + Strays(q) + 1 <= q[j].of + 0 + o /\ q[j].of <= n
      BY <1>o, <3>1 DEF Behind, Ordered
    <3> QED
      BY <1>t, <1>z, <1>3, <3>2
  <2>2. CASE \E j \in DOMAIN t : t[j].id = q[p].of
    BY <1>1, <1>3, <2>2
  <2> QED
    BY <1>o, <1>3, <2>1, <2>2 DEF Preceding
<1> QED
  BY <1>2, <1>3

\* What a caller was told stays so.
LEMMA ReturnedKept ==
  ASSUME Returned, sent \in Nat, sent' \in Nat, sent <= sent', slips' = 0 => slips = 0,
         \A n \in 1 .. sent : (n = sent => response = None)
            => emitted'[n] = emitted[n] /\ (n = sent' => response' = None),
         NEW c \in Callers, result'[c] = result[c], Answered(result'[c]), slips' = 0
  PROVE  /\ result'[c].cmd \in 1 .. sent'
         /\ result'[c].cmd = sent' => response' = None
         /\ Complete(result'[c].inter, result'[c].type, emitted'[result'[c].cmd])
<1> DEFINE r == result[c]
<1>1. /\ r.cmd \in 1 .. sent /\ (r.cmd = sent => response = None)
      /\ Complete(r.inter, r.type, emitted[r.cmd])
  BY DEF Returned
<1>2. emitted'[r.cmd] = emitted[r.cmd] /\ (r.cmd = sent' => response' = None)
  BY <1>1
<1>3. r.cmd \in 1 .. sent'
  BY <1>1
<1> QED
  BY <1>1, <1>2, <1>3

\* Lines that were taken contain no final response and no prompt.
LEMMA TakenOwn ==
  ASSUME TypeInv, Taken, slips = 0, response # None
  PROVE  LET i == response.intermediates
         IN  Own(i) = {p \in DOMAIN i : i[p].of # 0}
<1> DEFINE i == response.intermediates
<1>1. i \in Seq(Lines)
  BY CollectTypes
<1>2. \A p \in DOMAIN i : i[p].of \in Nat /\ ~Final(i[p]) /\ i[p].k # "PROMPT"
  <2>1. \A p \in DOMAIN i : i[p] \in Lines
    BY <1>1
  <2> QED
    BY <2>1 DEF Taken, Lines
<1> HIDE DEF i
<1>3. Own(i) = {p \in DOMAIN i : i[p].of # 0}
  BY <1>2 DEF Own, Intermediate
<1> QED
  BY <1>3 DEF i

\* A command that has its final response returns all of its lines.
LEMMA OutcomeWhole ==
  ASSUME TypeInv, Book, Taken, Collected, slips = 0, ~readerClosed,
         response # None, response.finalResponse # None
  PROVE  LET r == Outcome(response)
         IN  /\ r.cmd = sent /\ r.cmd \in 1 .. sent
             /\ Complete(r.inter, r.type, emitted[r.cmd])
<1> DEFINE r == Outcome(response)
           i == response.intermediates
<1>1. response \in Responses /\ sent \in Nat
  BY CollectTypes, LagTypes
<1>2. r.cmd = response.cmd /\ r.inter = i /\ r.type = response.type
  BY <1>1 DEF Outcome, Result
<1>3. response.cmd = sent /\ sent > 0
  BY DEF Book, Last
<1>4. \/ Mistaken(response.type, i)
      \/ Lists(i, {p \in DOMAIN i : i[p].of # 0}, emitted[sent])
  BY TakenOwn DEF Collected
<1>5. \A p \in DOMAIN i : LooksLike(i[p], response.type) \/ (response.type = "cmgr" /\ p > 1)
  BY DEF Taken
<1>6. Complete(i, response.type, emitted[sent])
  BY <1>4, <1>5 DEF Complete
<1> HIDE DEF r, i
<1>7. /\ r.cmd = sent /\ r.cmd \in 1 .. sent
      /\ Complete(r.inter, r.type, emitted[r.cmd])
  BY <1>1, <1>2, <1>3, <1>6
<1> QED
  BY <1>7 DEF r

\* No command is written and no line moves.
LEMMA CollectKept ==
  ASSUME TypeInv, Book, CollectInv, UNCHANGED <<tx, rx, modem, sent, emitted>>,
         slips' \in Nat, slips <= slips', Incoming' = Incoming, DeviceGone', Paired',
         readerClosed => readerClosed',
         response' = response \/ response' = None,
         \A c \in Callers :
           \/ result'[c] = result[c]
           \/ ~Answered(result'[c])
           \/ /\ response # None /\ response.finalResponse # None /\ ~readerClosed
              /\ result'[c] = Outcome(response) /\ response' = None
  PROVE  CollectInv'
<1>t. slips \in Nat /\ sent \in Nat /\ (slips' = 0 => slips = 0)
  BY LagTypes
<1>o. Open' = 1 => Open = 1 /\ response' = response
  BY DEF Open
<1>1. (Unasked /\ Recorded /\ Progress)'
  BY <1>t DEF CollectInv, Unasked, Recorded, Progress
<1>2. Collecting'
  BY <1>t, <1>o DEF CollectInv, Collecting
<1>3. Taken' /\ Collected'
  BY <1>t DEF CollectInv, Taken, Collected
<1>4. Returned'
  <2> SUFFICES ASSUME slips' = 0, NEW c \in Callers, Answered(result'[c])
               PROVE  /\ result'[c].cmd \in 1 .. sent'
                      /\ result'[c].cmd = sent' => response' = None
                      /\ Complete(result'[c].inter, result'[c].type, emitted'[result'[c].cmd])
    BY DEF Returned, Answered
  <2>1. CASE result'[c] = result[c]
    BY <1>t, <2>1, ReturnedKept DEF CollectInv
  <2>2. CASE /\ response # None /\ response.finalResponse # None /\ ~readerClosed
             /\ result'[c] = Outcome(response) /\ response' = None
    BY <1>t, <2>2, OutcomeWhole DEF CollectInv
  <2> QED
    BY <2>1, <2>2
<1> QED
  BY <1>1, <1>2, <1>3, <1>4 DEF CollectInv

\* A command is written: nothing of its answer is there yet.
LEMMA CollectPost ==
  ASSUME TypeInv, TypeInv', Book, Streaming, CollectInv, NEW c \in Callers, NEW a \in AllApis,
         Post(c, a), response = None,
         UNCHANGED <<rx, reader, line, modem, hungup, slips, readerClosed, result>>
  PROVE  CollectInv'
<1>t. /\ Incoming \in Seq(Lines) /\ tx \in Seq(Commands)
      /\ sent \in Nat /\ slips \in Nat /\ emitted \in Seq(Seq(Lines))
      /\ <<>> \in Seq(Lines) /\ Len(emitted) = sent
  BY LagTypes, CollectTypes DEF CollectInv, Recorded
<1>p. /\ sent' = sent + 1 /\ emitted' = Append(emitted, <<>>)
      /\ tx' = (IF hungup THEN tx ELSE Append(tx, [id |-> sent + 1, api |-> a]))
      /\ response'.type = a /\ response'.intermediates = <<>>
      /\ response'.finalResponse = None
  BY DEF Post, NewResponse
<1>r. response' # None
  BY <1>t, NewResponseType DEF Post
<1>e. /\ Len(emitted') = sent' /\ emitted'[sent'] = <<>>
      /\ \A n \in 1 .. sent : emitted'[n] = emitted[n] /\ n # sent'
  <2>1. /\ Len(Append(emitted, <<>>)) = Len(emitted) + 1
        /\ Append(emitted, <<>>)[Len(emitted) + 1] = <<>>
        /\ \A n \in 1 .. Len(emitted) : Append(emitted, <<>>)[n] = emitted[n]
    BY <1>t, Ends
  <2> QED
    BY <1>t, <1>p, <2>1
<1>i. Incoming' = Incoming /\ Open = 0
  BY DEF Incoming, Open
<1>q. ASSUME slips = 0, ~readerClosed
      PROVE  /\ tx = <<>> /\ modem.inter = 0
             /\ \A p \in DOMAIN Incoming : ~Asked(Incoming[p])
  <2>1. Good(Incoming, tx, sent, 0, 0)
    BY <1>i, <1>q DEF Streaming
  <2>2. tx = <<>> /\ \A p \in DOMAIN Incoming : ~Asked(Incoming[p])
    BY <1>t, <2>1, GoodQuiet
  <2> QED
    BY <1>q, <2>2 DEF CollectInv, Progress
<1>1. (DeviceGone /\ Unasked /\ Paired /\ Recorded)'
  BY <1>e, <1>i DEF CollectInv, DeviceGone, Unasked, Paired, Recorded
<1>2. Progress'
  <2> SUFFICES ASSUME slips = 0, ~readerClosed
               PROVE  modem.inter = IF tx' = <<>> THEN 0 ELSE Len(emitted'[sent'])
    BY DEF Progress
  <2>1. Len(<<>>) = 0
    OBVIOUS
  <2> QED
    BY <1>e, <1>q, <2>1
<1>3. Collecting'
  <2> SUFFICES ASSUME slips = 0, ~readerClosed
               PROVE  /\ Lists(<<>> \o Incoming, Own(<<>> \o Incoming), <<>>)
                      /\ Shaped(<<>>, a)
                      /\ tx' # <<>> => Head(tx').api = a
                      /\ \A p \in DOMAIN Incoming : Incoming[p].k # "PROMPT"
    BY <1>p, <1>e, <1>i DEF Collecting
  <2>1. <<>> \o Incoming = Incoming
    BY <1>t, ConcatEmptySeq
  <2>2. \A p \in DOMAIN Incoming : ~Intermediate(Incoming[p]) /\ Incoming[p].k # "PROMPT"
    BY <1>q DEF Asked, Intermediate, Final
  <2>3. Own(Incoming) = {}
    BY <2>2 DEF Own
  <2>4. Lists(Incoming, Own(Incoming), <<>>)
    BY <2>3, ListsNone
  <2>5. Shaped(<<>>, a)
    BY DEF Shaped
  <2>6. tx' # <<>> => Head(tx').api = a
    <3>1. Head(Append(<<>>, [id |-> sent + 1, api |-> a])).api = a
      OBVIOUS
    <3> QED
      BY <1>p, <1>q, <3>1
  <2> QED
    BY <2>1, <2>2, <2>4, <2>5, <2>6
<1>4. Taken' /\ Collected'
  <2>1. DOMAIN <<>> = {}
    OBVIOUS
  <2> QED
    BY <1>p, <2>1 DEF Taken, Collected
<1>5. Returned'
  <2> SUFFICES ASSUME slips' = 0, NEW d \in Callers, Answered(result'[d])
               PROVE  /\ result'[d].cmd \in 1 .. sent'
                      /\ result'[d].cmd = sent' => response' = None
                      /\ Complete(result'[d].inter, result'[d].type, emitted'[result'[d].cmd])
    BY DEF Returned, Answered
  <2>1. sent' \in Nat /\ sent <= sent' /\ result'[d] = result[d]
    BY <1>t, <1>p
  <2> QED
    BY <1>t, <1>e, <2>1, ReturnedKept DEF CollectInv
<1> QED
  BY <1>1, <1>2, <1>3, <1>4, <1>5 DEF CollectInv

\* A line moves on, or the modem sends one: what that leaves to show.
LEMMA CollectFlow ==
  ASSUME TypeInv, CollectInv, UNCHANGED <<sent, slips, emitted, result>>,
         response' = None <=> response = None,
         (DeviceGone /\ Unasked /\ Paired /\ Progress /\ Collecting /\ Taken /\ Collected)'
  PROVE  CollectInv'
<1>t. sent \in Nat
  BY LagTypes
<1>1. Returned'
  <2> SUFFICES ASSUME slips' = 0, NEW d \in Callers, Answered(result'[d])
               PROVE  /\ result'[d].cmd \in 1 .. sent'
                      /\ result'[d].cmd = sent' => response' = None
                      /\ Complete(result'[d].inter, result'[d].type, emitted'[result'[d].cmd])
    BY DEF Returned, Answered
  <2> QED
    BY <1>t, ReturnedKept DEF CollectInv
<1>2. Recorded'
  BY DEF CollectInv, Recorded
<1> QED
  BY <1>1, <1>2 DEF CollectInv

\* What handling a line does to the lines of the pending command.
LEMMA ProcessLists ==
  ASSUME TypeInv, ProcessLine, response # None
  PROVE  /\ response' # None /\ response'.type = response.type
         /\ modem'.inter = modem.inter
         /\ \/ /\ Final(line) /\ response'.finalResponse = line
               /\ response'.intermediates = response.intermediates
            \/ /\ ~Final(line) /\ response'.finalResponse = response.finalResponse
               /\ \/ /\ line.k = "PROMPT" \/ ~IsIntermediate(line, response)
                     /\ response'.intermediates = response.intermediates
                  \/ /\ IsIntermediate(line, response)
                     /\ response'.intermediates = Append(response.intermediates, line)
<1>t. /\ line \in Lines /\ None \notin Responses /\ response \in Responses
      /\ response.intermediates \in Seq(Lines)
      /\ modem \in [inter : Nat, prompt : {"none", "asked", "sent"}]
  BY LagTypes, CollectTypes DEF ProcessLine, TypeInv, TypeOK, ModemTypes
<1>n. response' # None
  BY ProcessCases
<1>1. CASE isFinalResponseSuccess(line) \/ isFinalResponseError(line)
  <2>1. response' = [response EXCEPT !.finalResponse = line] /\ UNCHANGED modem
    BY <1>1 DEF ProcessLine, isFinalResponseSuccess, isFinalResponseError
  <2>2. /\ response'.type = response.type /\ response'.finalResponse = line
        /\ response'.intermediates = response.intermediates
    BY <1>t, <2>1 DEF Responses
  <2>3. Final(line)
    BY <1>1 DEF Final, isFinalResponseSuccess, isFinalResponseError
  <2> QED
    BY <1>n, <2>1, <2>2, <2>3
<1>f. CASE ~(isFinalResponseSuccess(line) \/ isFinalResponseError(line))
  <2>f. ~Final(line)
    BY <1>f DEF Final, isFinalResponseSuccess, isFinalResponseError
  <2>2. CASE line.k = "PROMPT" /\ response.smsPDU
    <3>1. /\ response' = [response EXCEPT !.smsPDU = FALSE]
          /\ modem' = modem \/ modem' = [modem EXCEPT !.prompt = "sent"]
      BY <1>f, <2>2 DEF ProcessLine, isFinalResponseSuccess, isFinalResponseError
    <3>2. /\ response'.type = response.type
          /\ response'.finalResponse = response.finalResponse
          /\ response'.intermediates = response.intermediates
      BY <1>t, <3>1 DEF Responses
    <3>3. modem'.inter = modem.inter
      BY <1>t, <3>1
    <3> QED
      BY <1>n, <2>f, <2>2, <3>2, <3>3
  <2>3. CASE ~(line.k = "PROMPT" /\ response.smsPDU)
    <3>1. /\ response' = IF IsIntermediate(line, response)
                         THEN [response EXCEPT !.intermediates = Append(@, line)] ELSE response
          /\ UNCHANGED modem
      BY <1>f, <2>3 DEF ProcessLine
    <3>2. CASE IsIntermediate(line, response)
      <4>1. response' = [response EXCEPT !.intermediates = Append(@, line)]
        BY <3>1, <3>2
      <4>2. /\ response'.type = response.type
            /\ response'.finalResponse = response.finalResponse
            /\ response'.intermediates = Append(response.intermediates, line)
        BY <1>t, <4>1 DEF Responses
      <4> QED
        BY <1>n, <2>f, <3>1, <3>2, <4>2
    <3>3. CASE ~IsIntermediate(line, response)
      BY <1>n, <2>f, <3>1, <3>3
    <3> QED
      BY <3>2, <3>3
  <2> QED
    BY <2>2, <2>3
<1> QED
  BY <1>1, <1>f

\* What is not empty and has no second line has one line.
LEMMA OnlyLine ==
  ASSUME NEW s \in Seq(Lines), s # <<>>, Len(s) <= 1
  PROVE  Len(s) = 1
<1> DEFINE n == Len(s)
<1>1. n \in Nat /\ n # 0 /\ n <= 1
  BY EmptySeq
<1> HIDE DEF n
<1>2. n = 1
  BY <1>1
<1> QED
  BY <1>2 DEF n

\* The pending command takes every line of its answer, unless another one was
\* taken for it.
LEMMA OwnTaken ==
  ASSUME TypeInv, Book, CollectInv, slips = 0, ~readerClosed, Open = 1, Incoming # <<>>,
         Intermediate(Head(Incoming)), ~Mistaken(response.type, response.intermediates)
  PROVE  IsIntermediate(Head(Incoming), response)
<1> DEFINE i == response.intermediates
           e == emitted[sent]
           l == Head(Incoming)
<1>t. /\ Incoming \in Seq(Lines) /\ i \in Seq(Lines) /\ response.type \in AllApis
      /\ response # None
  BY LagTypes, CollectTypes
<1>n. sent \in Nat /\ emitted \in Seq(Seq(Lines)) /\ Len(emitted) = sent
  BY LagTypes, CollectTypes DEF CollectInv, Recorded
<1>l. Lists(i \o Incoming, Own(i \o Incoming), e) /\ Shaped(e, response.type)
  BY DEF CollectInv, Collecting
<1>e. e \in Seq(Lines)
  <2>1. sent > 0
    BY <1>t DEF Book, Last
  <2>2. sent \in DOMAIN emitted
    BY <1>n, <2>1
  <2> QED
    BY <1>n, <2>2
<1>k. PICK k \in DOMAIN e : e[k] = l /\ (k > 1 => i # <<>>) /\ (k = 1 => Own(i) = {})
  BY <1>t, <1>l, <1>e, NextLine
<1>d. DOMAIN e = 1 .. Len(e) /\ Len(e) \in Nat /\ DOMAIN i = 1 .. Len(i) /\ Len(i) \in Nat
  BY <1>t, <1>e, Ends
<1>o. NeedsIntermediate(response.type) /\ Own(i) = {} => i = <<>>
  <2> SUFFICES ASSUME NeedsIntermediate(response.type), i # <<>>, Own(i) = {} PROVE FALSE
    OBVIOUS
  <2>1. 1 \in DOMAIN i /\ i[1] \in Lines
    BY <1>t, Ends
  <2>2. Len(i) <= 1
    BY <1>t DEF CollectInv, Taken
  <2>l. Len(i) = 1
    BY <1>t, <2>2, OnlyLine
  <2>3. ~Final(i[1]) /\ i[1].k # "PROMPT" /\ i[1].of \in Nat
    BY <1>t, <2>1 DEF CollectInv, Taken, Lines
  <2>4. i[1].of = 0
    BY <2>1, <2>3 DEF Own, Intermediate
  <2> QED
    BY <2>l, <2>4 DEF Mistaken
<1> HIDE DEF i, e, l
<1>1. IsIntermediate(l, response)
  <2>i. response.intermediates = i
    BY DEF i
  <2>1. CASE response.type = "plain"
    BY <1>d, <1>k, <1>l, <2>1 DEF Shaped
  <2>2. CASE response.type \in {"numeric", "singleline", "sms"}
    <3>1. k = 1
      BY <1>d, <1>k, <1>l, <2>2 DEF Shaped, NeedsIntermediate
    <3>2. i = <<>>
      BY <1>k, <1>o, <2>2, <3>1 DEF NeedsIntermediate
    <3>3. l.cls = IF response.type = "numeric" THEN "digit" ELSE "prefix"
      BY <1>k, <1>l, <2>2 DEF Shaped, LooksLike
    <3> QED
      BY <2>i, <2>2, <3>2, <3>3 DEF IsIntermediate
  <2>3. CASE response.type = "multiline"
    <3>1. l.cls = "prefix"
      BY <1>k, <1>l, <2>3 DEF Shaped, LooksLike
    <3> QED
      BY <2>3, <3>1 DEF IsIntermediate
  <2>4. CASE response.type = "cmgr"
    <3>1. CASE k = 1
      <4>1. l.cls = "prefix"
        BY <1>k, <1>l, <2>4, <3>1 DEF Shaped, LooksLike
      <4> QED
        BY <2>4, <4>1 DEF IsIntermediate
    <3>2. CASE k > 1
      BY <1>k, <2>i, <2>4, <3>2 DEF IsIntermediate
    <3> QED
      BY <1>d, <3>1, <3>2
  <2> QED
    BY <1>t, <2>1, <2>2, <2>3, <2>4 DEF AllApis
<1> QED
  BY <1>1 DEF l

\* The rest of the lines are like all of them.
LEMMA UnaskedTail ==
  ASSUME TypeInv, Unasked, Incoming # <<>>, Incoming' = Tail(Incoming)
  PROVE  Unasked'
<1>1. Incoming \in Seq(Lines)
  BY LagTypes
<1>2. /\ DOMAIN Incoming = 1 .. Len(Incoming) /\ Len(Incoming) \in Nat
      /\ DOMAIN Tail(Incoming) = 1 .. Len(Incoming) - 1
      /\ \A p \in 1 .. Len(Incoming) - 1 : Tail(Incoming)[p] = Incoming[p + 1]
  BY <1>1, Ends
<1>3. \A p \in DOMAIN Tail(Incoming) : p + 1 \in DOMAIN Incoming
                                       /\ Tail(Incoming)[p] = Incoming[p + 1]
  BY <1>2
<1> QED
  BY <1>3 DEF Unasked

\* A line that belongs to no answer is gone, or an answer that is not waited for.
LEMMA CollectDrop ==
  ASSUME TypeInv, Collecting, Incoming # <<>>, Incoming' = Tail(Incoming),
         ~Intermediate(Head(Incoming)) \/ Mistaken(response.type, response.intermediates),
         UNCHANGED <<tx, sent, slips, emitted, readerClosed>>,
         Open' = 1 => /\ Open = 1 /\ response'.type = response.type
                      /\ response'.intermediates = response.intermediates
  PROVE  Collecting'
<1> SUFFICES ASSUME slips = 0, ~readerClosed, Open' = 1
             PROVE  LET i == response.intermediates
                    IN  /\ \/ Mistaken(response.type, i)
                           \/ Lists(i \o Tail(Incoming), Own(i \o Tail(Incoming)), emitted[sent])
                        /\ Shaped(emitted[sent], response.type)
                        /\ tx # <<>> => Head(tx).api = response.type
                        /\ \A p \in DOMAIN Tail(Incoming) :
                             Tail(Incoming)[p].k = "PROMPT" => response.type = "sms"
  BY DEF Collecting
<1> DEFINE i == response.intermediates
<1>t. Incoming \in Seq(Lines) /\ i \in Seq(Lines) /\ Open = 1
  BY LagTypes, CollectTypes
<1>1. /\ \/ Mistaken(response.type, i)
         \/ Lists(i \o Incoming, Own(i \o Incoming), emitted[sent])
      /\ Shaped(emitted[sent], response.type)
      /\ tx # <<>> => Head(tx).api = response.type
      /\ \A p \in DOMAIN Incoming : Incoming[p].k = "PROMPT" => response.type = "sms"
  BY <1>t DEF Collecting
<1>m. ~Intermediate(Head(Incoming)) \/ Mistaken(response.type, i)
  OBVIOUS
<1> HIDE DEF i
<1>2. \/ Mistaken(response.type, i)
      \/ Lists(i \o Tail(Incoming), Own(i \o Tail(Incoming)), emitted[sent])
  BY <1>t, <1>m, <1>1, ListsLost
<1>3. \A p \in DOMAIN Tail(Incoming) : \E o \in DOMAIN Incoming : Tail(Incoming)[p] = Incoming[o]
  <2>1. /\ DOMAIN Incoming = 1 .. Len(Incoming) /\ Len(Incoming) \in Nat
        /\ DOMAIN Tail(Incoming) = 1 .. Len(Incoming) - 1
        /\ \A p \in 1 .. Len(Incoming) - 1 : Tail(Incoming)[p] = Incoming[p + 1]
    BY <1>t, Ends
  <2>2. \A p \in DOMAIN Tail(Incoming) : p + 1 \in DOMAIN Incoming
    BY <2>1
  <2> QED
    BY <2>1, <2>2
<1> QED
  BY <1>1, <1>2, <1>3 DEF i

\* Handling a line keeps the lines of a command together.
LEMMA CollectProcess ==
  ASSUME TypeInv, TypeInv', Book, ReaderGone, Streaming, CollectInv, ProcessLine
  PROVE  CollectInv'
<1>t. /\ Incoming \in Seq(Lines) /\ rx \in Seq(Lines) /\ tx \in Seq(Commands)
      /\ sent \in Nat /\ slips \in Nat /\ Open \in {0, 1}
      /\ line \in Lines /\ line # None /\ Incoming # <<>>
      /\ Head(Incoming) = line /\ Tail(Incoming) = rx /\ ~readerClosed
  BY LagTypes DEF ProcessLine, ReaderGone
<1>u. /\ UNCHANGED <<rx, tx, sent, slips, emitted, result, hungup, readerClosed>>
      /\ reader' = "read" /\ Incoming' = rx
  BY DEF ProcessLine, Incoming
<1>g. Good(Incoming, tx, sent, slips, Open)
  BY <1>t DEF Streaming
<1>h. 1 \in DOMAIN Incoming /\ Incoming[1] = line
  BY <1>t, Ends
<1>q. slips = 0 /\ Open = 0 => ~Asked(line)
  BY <1>t, <1>g, <1>h, GoodQuiet
<1>e. slips = 0 /\ Final(line) => Own(rx) = {}
  <2> SUFFICES ASSUME slips = 0, Final(line) PROVE Own(rx) = {}
    OBVIOUS
  <2>1. Good(rx, tx, sent, 0, 0)
    BY <1>t, <1>g, GoodDrop
  <2>2. \A p \in DOMAIN rx : ~Asked(rx[p])
    BY <1>t, <2>1, GoodQuiet
  <2> QED
    BY <2>2 DEF Own, Asked, Intermediate
<1>a. line.k # "TEXT" => line.cls = "other"
  BY <1>h DEF CollectInv, Unasked
<1>1. (DeviceGone /\ Paired)'
  BY <1>u DEF CollectInv, DeviceGone, Paired
<1>2. Unasked'
  BY <1>t, <1>u, UnaskedTail DEF CollectInv
<1>n. CASE response = None
  <2>1. response' = None /\ UNCHANGED modem
    BY <1>n DEF ProcessLine
  <2>2. Open' = 0
    BY <2>1 DEF Open
  <2>3. (Progress /\ Collecting /\ Taken /\ Collected)'
    BY <1>u, <2>1, <2>2 DEF CollectInv, Progress, Collecting, Taken, Collected
  <2> QED
    BY <1>n, <1>u, <1>1, <1>2, <2>1, <2>3, CollectFlow
<1>r. CASE response # None
  <2> DEFINE i == response.intermediates
  <2>i. i \in Seq(Lines) /\ response.type \in AllApis
    BY <1>r, CollectTypes
  <2>c. /\ response' # None /\ response'.type = response.type
        /\ modem'.inter = modem.inter
        /\ \/ Final(line) /\ response'.finalResponse = line /\ response'.intermediates = i
           \/ /\ ~Final(line) /\ response'.finalResponse = response.finalResponse
              /\ \/ /\ line.k = "PROMPT" \/ ~IsIntermediate(line, response)
                    /\ response'.intermediates = i
                 \/ /\ IsIntermediate(line, response)
                    /\ response'.intermediates = Append(i, line)
    BY <1>r, ProcessLists
  <2>o. Open' = 1 => Open = 1 /\ response'.finalResponse = response.finalResponse
    BY <1>t, <1>r, <2>c DEF Open
  <2>oo. Open = 1 <=> response.finalResponse = None
    BY <1>r DEF Open
  <2>3. Progress'
    BY <1>u, <2>c DEF CollectInv, Progress
  <2>f. Final(line) => ~Intermediate(line)
    BY DEF Intermediate
  <2>4. CASE response'.intermediates = i
    <3>1. Taken'
      BY <1>r, <1>u, <2>c, <2>4 DEF CollectInv, Taken
    <3>2. Collecting'
      <4>1. CASE slips = 0 /\ Open' = 1
        <5>1. ~Intermediate(line) \/ Mistaken(response.type, i)
          BY <1>t, <2>c, <2>o, <2>4, <4>1, OwnTaken DEF Intermediate
        <5> QED
          BY <1>t, <1>u, <2>c, <2>o, <2>4, <5>1, CollectDrop DEF CollectInv
      <4>2. CASE ~(slips = 0 /\ Open' = 1)
        BY <1>u, <4>2 DEF Collecting
      <4> QED
        BY <4>1, <4>2
    <3>3. Collected'
      <4> SUFFICES ASSUME slips = 0, response'.finalResponse # None
                   PROVE  Mistaken(response.type, i) \/ Lists(i, Own(i), emitted[sent])
        BY <1>u, <2>c, <2>4 DEF Collected
      <4>1. CASE Open = 0
        BY <1>t, <1>r, <2>oo, <4>1 DEF CollectInv, Collected
      <4>2. CASE Open = 1
        <5>1. Final(line)
          BY <2>c, <2>oo, <4>2
        <5>2. Mistaken(response.type, i) \/ Lists(i \o Incoming, Own(i \o Incoming), emitted[sent])
          BY <1>t, <4>2 DEF CollectInv, Collecting
        <5>3. Mistaken(response.type, i) \/ Lists(i \o rx, Own(i \o rx), emitted[sent])
          BY <1>t, <2>i, <2>f, <5>1, <5>2, ListsLost
        <5> HIDE DEF i
        <5> QED
          BY <1>t, <1>e, <2>i, <5>1, <5>3, ListsEnd
      <4> QED
        BY <1>t, <4>1, <4>2
    <3> QED
      BY <1>r, <1>u, <1>1, <1>2, <2>c, <2>3, <3>1, <3>2, <3>3, CollectFlow
  <2>5. CASE /\ ~Final(line) /\ IsIntermediate(line, response)
             /\ response'.finalResponse = response.finalResponse
             /\ response'.intermediates = Append(i, line)
    <3>d. /\ DOMAIN i = 1 .. Len(i) /\ Len(i) \in Nat
          /\ DOMAIN Append(i, line) = 1 .. Len(i) + 1
          /\ Append(i, line)[Len(i) + 1] = line
          /\ \A p \in 1 .. Len(i) : Append(i, line)[p] = i[p]
      BY <1>t, <2>i, Ends
    <3>k. slips = 0 => line.k # "PROMPT"
      <4> SUFFICES ASSUME slips = 0, line.k = "PROMPT" PROVE FALSE
        OBVIOUS
      <4>1. Open = 1
        BY <1>t, <1>q, <2>5 DEF Asked
      <4>2. response.type = "sms"
        BY <1>t, <1>h, <4>1 DEF CollectInv, Collecting
      <4> QED
        BY <1>a, <2>5, <4>2 DEF IsIntermediate
    <3>z. LooksLike(line, response.type) \/ (response.type = "cmgr" /\ i # <<>>)
      BY <2>i, <2>5 DEF IsIntermediate, AllApis, LooksLike
    <3>m. NeedsIntermediate(response.type) => i = <<>>
      BY <2>5 DEF IsIntermediate, NeedsIntermediate
    <3>mm. ~Mistaken(response.type, i)
      BY <3>m DEF Mistaken
    <3>1. Taken'
      <4>0. i # <<>> => Len(i) + 1 > 1
        BY <2>i, <3>d
      <4>l. NeedsIntermediate(response.type) => Len(Append(i, line)) <= 1
        BY <3>m
      <4> SUFFICES ASSUME slips = 0, NEW p \in 1 .. Len(i) + 1
                   PROVE  /\ ~Final(Append(i, line)[p])
                          /\ Append(i, line)[p].k # "PROMPT"
                          /\ \/ LooksLike(Append(i, line)[p], response.type)
                             \/ response.type = "cmgr" /\ p > 1
        BY <1>u, <2>c, <2>5, <3>d, <4>l DEF Taken
      <4>1. CASE p = Len(i) + 1
        BY <2>5, <3>d, <3>k, <3>z, <4>0, <4>1
      <4>2. CASE p \in 1 .. Len(i)
        BY <1>r, <3>d, <4>2 DEF CollectInv, Taken
      <4> QED
        BY <3>d, <4>1, <4>2
    <3>2. Collecting'
      <4> SUFFICES ASSUME slips = 0, Open' = 1
                   PROVE  /\ Lists(Append(i, line) \o rx, Own(Append(i, line) \o rx),
                                   emitted[sent])
                          /\ Shaped(emitted[sent], response.type)
                          /\ tx # <<>> => Head(tx).api = response.type
                          /\ \A p \in DOMAIN rx : rx[p].k = "PROMPT" => response.type = "sms"
        BY <1>u, <2>c, <2>5 DEF Collecting
      <4>1. /\ Lists(i \o Incoming, Own(i \o Incoming), emitted[sent])
            /\ Shaped(emitted[sent], response.type)
            /\ tx # <<>> => Head(tx).api = response.type
            /\ \A p \in DOMAIN Incoming : Incoming[p].k = "PROMPT" => response.type = "sms"
        BY <1>t, <2>o, <3>mm DEF CollectInv, Collecting
      <4>2. Append(i, line) \o rx = i \o Incoming
        BY <1>t, <2>i, Moved
      <4>3. \A p \in DOMAIN rx : p + 1 \in DOMAIN Incoming /\ rx[p] = Incoming[p + 1]
        BY <1>t, Ends
      <4> HIDE DEF i
      <4>4. Lists(Append(i, line) \o rx, Own(Append(i, line) \o rx), emitted[sent])
        BY <4>1, <4>2
      <4> QED
        BY <4>1, <4>3, <4>4
    <3>3. Collected'
      <4> SUFFICES ASSUME slips = 0, response.finalResponse # None
                   PROVE  Lists(Append(i, line), Own(Append(i, line)), emitted[sent])
        BY <1>u, <2>5 DEF Collected
      <4>1. ~Intermediate(line)
        BY <1>t, <1>q, <2>oo DEF Asked, Intermediate
      <4>2. Lists(i, Own(i), emitted[sent])
        BY <1>t, <1>r, <3>mm DEF CollectInv, Collected
      <4> QED
        BY <1>t, <2>i, <4>1, <4>2, ListsOther
    <3> QED
      BY <1>r, <1>u, <1>1, <1>2, <2>c, <2>3, <3>1, <3>2, <3>3, CollectFlow
  <2> QED
    BY <2>c, <2>4, <2>5
<1> QED
  BY <1>n, <1>r

\* A line behind two lists is behind the second of them.
LEMMA JoinedEnd ==
  ASSUME NEW a \in Seq(Lines), NEW q \in Seq(Lines), NEW l \in Lines
  PROVE  a \o Append(q, l) = Append(a \o q, l)
<1>1. <<l>> \in Seq(Lines) /\ a \o q \in Seq(Lines)
  BY Joined
<1>2. Append(q, l) = q \o <<l>> /\ Append(a \o q, l) = (a \o q) \o <<l>>
  BY <1>1, AppendIsConcat
<1> QED
  BY <1>1, <1>2, ConcatAssociative

\* The new line is like those the modem sends unasked, or is an answer.
LEMMA UnaskedAppend ==
  ASSUME TypeInv, Unasked, NEW l \in Lines, Incoming' = Append(Incoming, l),
         l.k # "TEXT" => l.cls = "other"
  PROVE  Unasked'
<1>1. Incoming \in Seq(Lines)
  BY LagTypes
<1>2. /\ DOMAIN Incoming = 1 .. Len(Incoming) /\ Len(Incoming) \in Nat
      /\ DOMAIN Incoming' = 1 .. Len(Incoming) + 1
      /\ Incoming'[Len(Incoming) + 1] = l
      /\ \A p \in 1 .. Len(Incoming) : Incoming'[p] = Incoming[p]
  BY <1>1, Ends
<1>3. \A p \in DOMAIN Incoming' : p \in DOMAIN Incoming \/ p = Len(Incoming) + 1
  BY <1>2
<1> QED
  BY <1>2, <1>3 DEF Unasked

\* A line that is no SMS leaves the two lines of an SMS together.
LEMMA PairedAppend ==
  ASSUME TypeInv, Paired, NEW l \in Lines, rx' = Append(rx, l), UNCHANGED reader,
         l.k \notin {"SMS", "PDU"}
  PROVE  Paired'
<1>1. rx \in Seq(Lines)
  BY LagTypes
<1>2. /\ DOMAIN rx = 1 .. Len(rx) /\ Len(rx) \in Nat
      /\ DOMAIN rx' = 1 .. Len(rx) + 1
      /\ rx'[Len(rx) + 1] = l
      /\ \A p \in 1 .. Len(rx) : rx'[p] = rx[p]
  BY <1>1, Ends
<1>3. \A p \in DOMAIN rx' : p \in DOMAIN rx \/ p = Len(rx) + 1
  BY <1>2
<1>4. Pairs(rx')
  <2> SUFFICES ASSUME NEW p \in DOMAIN rx'
               PROVE  /\ rx'[p].k \in {"SMS", "PDU"} => rx'[p].of = 0
                      /\ rx'[p].k = "SMS" => p + 1 \in DOMAIN rx' /\ rx'[p + 1].k = "PDU"
    BY DEF Pairs
  <2>1. CASE p = Len(rx) + 1
    BY <1>2, <2>1
  <2>2. CASE p \in DOMAIN rx
    <3>1. /\ rx[p].k \in {"SMS", "PDU"} => rx[p].of = 0
          /\ rx[p].k = "SMS" => p + 1 \in DOMAIN rx /\ rx[p + 1].k = "PDU"
      BY <2>2 DEF Paired, Pairs
    <3> QED
      BY <1>2, <2>2, <3>1
  <2> QED
    BY <1>3, <2>1, <2>2
<1>5. rx # <<>> => rx' # <<>> /\ Head(rx') = Head(rx)
  BY <1>1
<1> QED
  BY <1>4, <1>5 DEF Paired

\* An unsolicited SMS is sent with both of its lines.
LEMMA PairedSms ==
  ASSUME TypeInv, Paired, NEW m \in Lines, NEW l \in Lines, rx' = Append(Append(rx, m), l),
         UNCHANGED reader, m.k = "SMS", l.k = "PDU", m.of = 0, l.of = 0
  PROVE  Paired'
<1>1. rx \in Seq(Lines)
  BY LagTypes
<1>2. /\ DOMAIN rx = 1 .. Len(rx) /\ Len(rx) \in Nat
      /\ DOMAIN rx' = 1 .. Len(rx) + 2
      /\ rx'[Len(rx) + 1] = m /\ rx'[Len(rx) + 2] = l
      /\ \A p \in 1 .. Len(rx) : rx'[p] = rx[p]
  BY <1>1
<1>3. \A p \in DOMAIN rx' : p \in DOMAIN rx \/ p = Len(rx) + 1 \/ p = Len(rx) + 2
  BY <1>2
<1>4. Pairs(rx')
  <2> SUFFICES ASSUME NEW p \in DOMAIN rx'
               PROVE  /\ rx'[p].k \in {"SMS", "PDU"} => rx'[p].of = 0
                      /\ rx'[p].k = "SMS" => p + 1 \in DOMAIN rx' /\ rx'[p + 1].k = "PDU"
    BY DEF Pairs
  <2>1. CASE p = Len(rx) + 1
    <3>1. p + 1 = Len(rx) + 2 /\ p + 1 \in DOMAIN rx'
      BY <1>2, <2>1
    <3> QED
      BY <1>2, <2>1, <3>1
  <2>2. CASE p = Len(rx) + 2
    BY <1>2, <2>2
  <2>3. CASE p \in DOMAIN rx
    <3>1. /\ rx[p].k \in {"SMS", "PDU"} => rx[p].of = 0
          /\ rx[p].k = "SMS" => p + 1 \in DOMAIN rx /\ rx[p + 1].k = "PDU"
      BY <2>3 DEF Paired, Pairs
    <3> QED
      BY <1>2, <2>3, <3>1
  <2> QED
    BY <1>3, <2>1, <2>2, <2>3
<1>5. rx # <<>> => rx' # <<>> /\ Head(rx') = Head(rx)
  BY <1>1
<1> QED
  BY <1>4, <1>5 DEF Paired

\* The modem sends what is no intermediate line.
LEMMA CollectSay ==
  ASSUME TypeInv, Streaming, CollectInv, Unasked', Paired',
         UNCHANGED <<reader, line, hungup, response, readerClosed, sent, slips, emitted, result>>,
         \A a, e : a \in Seq(Lines) /\ Lists(a \o Incoming, Own(a \o Incoming), e)
                     => Lists(a \o Incoming', Own(a \o Incoming'), e),
         \A p \in DOMAIN Incoming' : Incoming'[p].k = "PROMPT" =>
           \/ p \in DOMAIN Incoming /\ Incoming'[p] = Incoming[p]
           \/ tx # <<>> /\ Head(tx).api = "sms",
         \/ tx' = tx /\ modem'.inter = modem.inter
         \/ tx # <<>> /\ tx' = Tail(tx) /\ modem'.inter = 0
  PROVE  CollectInv'
<1>t. /\ Incoming \in Seq(Lines) /\ tx \in Seq(Commands) /\ sent \in Nat
      /\ Open \in {0, 1}
  BY LagTypes
<1>o. Open' = Open
  BY DEF Open
<1>q. slips = 0 /\ ~readerClosed => (tx' = tx /\ modem'.inter = modem.inter)
                                    \/ (tx' = <<>> /\ modem'.inter = 0)
  <2> SUFFICES ASSUME slips = 0, ~readerClosed, tx # <<>>, tx' = Tail(tx), modem'.inter = 0
               PROVE  tx' = <<>>
    OBVIOUS
  <2>1. Good(Incoming, tx, sent, 0, Open)
    BY DEF Streaming
  <2> QED
    BY <1>t, <2>1, GoodQuiet
<1>1. DeviceGone'
  BY DEF CollectInv, DeviceGone
<1>2. Progress'
  BY <1>q DEF CollectInv, Progress
<1>3. Collecting'
  <2> SUFFICES ASSUME slips = 0, ~readerClosed, Open = 1
               PROVE  LET i == response.intermediates
                      IN  /\ \/ Mistaken(response.type, i)
                             \/ Lists(i \o Incoming', Own(i \o Incoming'), emitted[sent])
                          /\ Shaped(emitted[sent], response.type)
                          /\ tx' # <<>> => Head(tx').api = response.type
                          /\ \A p \in DOMAIN Incoming' :
                               Incoming'[p].k = "PROMPT" => response.type = "sms"
    BY <1>o DEF Collecting
  <2>1. /\ \/ Mistaken(response.type, response.intermediates)
           \/ Lists(response.intermediates \o Incoming,
                    Own(response.intermediates \o Incoming), emitted[sent])
        /\ Shaped(emitted[sent], response.type)
        /\ tx # <<>> => Head(tx).api = response.type
        /\ \A p \in DOMAIN Incoming : Incoming[p].k = "PROMPT" => response.type = "sms"
    BY DEF CollectInv, Collecting
  <2>2. response.intermediates \in Seq(Lines)
    BY CollectTypes
  <2> QED
    BY <1>q, <2>1, <2>2
<1>4. (Taken /\ Collected)'
  BY DEF CollectInv, Taken, Collected
<1> QED
  BY <1>1, <1>2, <1>3, <1>4, CollectFlow

\* A line behind the others changes the answers only if it belongs to one.
LEMMA SayOne ==
  ASSUME NEW q \in Seq(Lines), NEW l \in Lines, ~Intermediate(l)
  PROVE  \A a, e : a \in Seq(Lines) /\ Lists(a \o q, Own(a \o q), e)
                     => Lists(a \o Append(q, l), Own(a \o Append(q, l)), e)
<1> SUFFICES ASSUME NEW a \in Seq(Lines), NEW e, Lists(a \o q, Own(a \o q), e)
             PROVE  Lists(a \o Append(q, l), Own(a \o Append(q, l)), e)
  OBVIOUS
<1>1. a \o q \in Seq(Lines) /\ a \o Append(q, l) = Append(a \o q, l)
  BY Joined, JoinedEnd
<1>2. Lists(Append(a \o q, l), Own(Append(a \o q, l)), e)
  BY <1>1, ListsOther
<1> QED
  BY <1>1, <1>2

\* Replacing one element of a sequence changes neither its length nor the others.
LEMMA Replaced ==
  ASSUME NEW S, NEW s \in Seq(S), NEW n \in 1 .. Len(s), NEW v,
         NEW r, r = [s EXCEPT ![n] = v]
  PROVE  /\ Len(r) = Len(s) /\ r[n] = v /\ s[n] \in S
         /\ \A m \in 1 .. Len(s) : m # n => r[m] = s[m]
<1>1. DOMAIN s = 1 .. Len(s) /\ s[n] \in S
  OBVIOUS
<1>2. r[n] = v /\ \A m \in 1 .. Len(s) : m # n => r[m] = s[m]
  BY <1>1
<1>3. Len(r) = Len(s)
  OBVIOUS
<1> QED
  BY <1>1, <1>2, <1>3

\* The modem sends an intermediate line of the command it works on.
LEMMA CollectInter ==
  ASSUME TypeInv, TypeInv', Book, ReaderGone, Streaming, CollectInv, ModemInter
  PROVE  CollectInv'
<1> DEFINE t == Head(tx)
           i == response.intermediates
           c == CASE t.api = "numeric" -> "digit"
                  [] t.api = "cmgr" /\ modem.inter > 0 -> "other"
                  [] OTHER -> "prefix"
           l == Text(c, t.id)
<1>t. /\ Incoming \in Seq(Lines) /\ tx \in Seq(Commands) /\ sent \in Nat /\ slips \in Nat
      /\ Open \in {0, 1} /\ emitted \in Seq(Seq(Lines)) /\ Len(emitted) = sent
      /\ modem \in [inter : Nat, prompt : {"none", "asked", "sent"}]
  BY LagTypes, CollectTypes DEF CollectInv, Recorded, TypeInv, TypeOK, ModemTypes
<1>u. /\ UNCHANGED <<reader, line, hungup, response, readerClosed, sent, slips, result, tx>>
      /\ tx # <<>> /\ ~hungup /\ modem' = [modem EXCEPT !.inter = @ + 1]
      /\ modem.inter < InterLimit(t.api)
      /\ rx' = Append(rx, l)
      /\ emitted' = [emitted EXCEPT ![t.id] = Append(@, l)]
  BY DEF ModemInter, Emit, threadVars, channelVars, readerVars
<1>m. modem'.inter = modem.inter + 1 /\ modem.inter \in Nat
  BY <1>t, <1>u
<1>h. t \in Commands /\ t.id \in Nat /\ t.api \in AllApis
  <2>1. t \in Commands
    BY <1>t, <1>u, HeadTailType
  <2> QED
    BY <2>1 DEF Commands
<1>c. c \in Classes
  BY DEF Classes
<1> HIDE DEF c
<1>l. l \in Lines /\ l.k = "TEXT" /\ l.of = t.id /\ l.cls = c
  BY <1>h, <1>c, LineType DEF Text
<1>z. t.id \in 1 .. sent /\ ~readerClosed
  <2>1. ~readerClosed
    BY <1>u DEF CollectInv, DeviceGone, ReaderGone
  <2>2. Ordered(Incoming, tx, sent)
    BY <2>1 DEF Streaming, Good
  <2>3. 1 \in DOMAIN tx /\ tx[1] = t
    BY <1>t, <1>u, Ends
  <2> QED
    BY <2>1, <2>2, <2>3 DEF Ordered
<1>i. Incoming' = Append(Incoming, l) /\ Open' = Open
  BY <1>u, <1>l, Joining DEF Open
<1>1. DeviceGone'
  BY <1>u DEF CollectInv, DeviceGone
<1>2. Unasked'
  BY <1>i, <1>l, <1>z, UnaskedAppend DEF CollectInv
<1>3. Paired'
  BY <1>u, <1>l, PairedAppend DEF CollectInv
<1>e. /\ Len(emitted') = sent /\ emitted'[t.id] = Append(emitted[t.id], l)
      /\ \A n \in 1 .. sent : n # t.id => emitted'[n] = emitted[n]
      /\ emitted[t.id] \in Seq(Lines)
  <2>1. emitted \in Seq(Seq(Lines)) /\ t.id \in 1 .. Len(emitted) /\ Len(emitted) = sent
    BY <1>t, <1>z
  <2>2. emitted' = [emitted EXCEPT ![t.id] = Append(emitted[t.id], l)]
    BY <1>u
  <2> QED
    BY <2>1, <2>2, Replaced
<1>4. Recorded'
  BY <1>u, <1>e DEF Recorded
<1>s. ASSUME slips = 0
      PROVE  /\ Open = 1 /\ t.id = sent /\ modem.inter = Len(emitted[sent])
             /\ t.api = response.type /\ response # None
  <2>1. Good(Incoming, tx, sent, 0, Open)
    BY <1>s, <1>z DEF Streaming
  <2>2. Open = 1 /\ t.id = sent
    BY <1>t, <1>u, <2>1, GoodQuiet
  <2>3. modem.inter = Len(emitted[sent])
    BY <1>s, <1>u, <1>z DEF CollectInv, Progress
  <2>4. t.api = response.type
    BY <1>s, <1>u, <1>z, <2>2 DEF CollectInv, Collecting
  <2> QED
    BY <2>2, <2>3, <2>4 DEF Open
<1>5. Progress'
  <2> SUFFICES ASSUME slips = 0 PROVE modem'.inter = Len(emitted'[sent])
    BY <1>u DEF Progress
  <2>1. Len(Append(emitted[sent], l)) = Len(emitted[sent]) + 1
    BY <1>e, <1>l, <1>s, Ends
  <2> QED
    BY <1>e, <1>m, <1>s, <2>1
<1>6. Collecting'
  <2> SUFFICES ASSUME slips = 0
               PROVE  /\ \/ Mistaken(response.type, i)
                         \/ Lists(i \o Incoming', Own(i \o Incoming'), emitted'[sent])
                      /\ Shaped(emitted'[sent], response.type)
                      /\ tx # <<>> => Head(tx).api = response.type
                      /\ \A p \in DOMAIN Incoming' :
                           Incoming'[p].k = "PROMPT" => response.type = "sms"
    BY <1>u DEF Collecting
  <2> DEFINE e == emitted[sent]
  <2>1. /\ Mistaken(response.type, i) \/ Lists(i \o Incoming, Own(i \o Incoming), e)
        /\ Shaped(e, response.type)
        /\ \A p \in DOMAIN Incoming : Incoming[p].k = "PROMPT" => response.type = "sms"
    BY <1>s, <1>z DEF CollectInv, Collecting
  <2>2. /\ e \in Seq(Lines) /\ emitted'[sent] = Append(e, l) /\ modem.inter = Len(e)
        /\ i \in Seq(Lines)
    BY <1>e, <1>s, CollectTypes
  <2>d. /\ DOMAIN e = 1 .. Len(e) /\ Len(e) \in Nat /\ Len(Append(e, l)) = Len(e) + 1
        /\ DOMAIN Append(e, l) = 1 .. Len(e) + 1
        /\ Append(e, l)[Len(e) + 1] = l
        /\ \A p \in 1 .. Len(e) : Append(e, l)[p] = e[p]
    BY <1>l, <2>2, Ends
  <2> HIDE DEF e, i, t, l
  <2>3. \/ Mistaken(response.type, i)
        \/ Lists(i \o Incoming', Own(i \o Incoming'), emitted'[sent])
    <3>1. i \o Incoming \in Seq(Lines) /\ i \o Incoming' = Append(i \o Incoming, l)
      BY <1>t, <1>i, <1>l, <2>2, Joined, JoinedEnd, SMTT(30)
    <3>2. Intermediate(l)
      BY <1>l, <1>z DEF Intermediate, Final
    <3> QED
      BY <1>l, <2>1, <2>2, <3>1, <3>2, ListsSent
  <2>4. Shaped(Append(e, l), response.type)
    <3>1. response.type = "plain" => FALSE
      BY <1>m, <1>s, <1>u DEF InterLimit
    <3>2. NeedsIntermediate(response.type) => Len(e) = 0
      <4>1. NeedsIntermediate(response.type) => modem.inter < 1
        BY <1>s, <1>u DEF InterLimit, NeedsIntermediate
      <4> QED
        BY <1>m, <2>2, <4>1
    <3>3. response.type # "cmgr" \/ Len(e) = 0 =>
            LooksLike(l, response.type)
      BY <1>l, <1>s, <2>2 DEF c, LooksLike
    <3>4. ASSUME NEW p \in DOMAIN Append(e, l), response.type # "cmgr" \/ p = 1
          PROVE  LooksLike(Append(e, l)[p], response.type)
      <4>1. CASE p \in 1 .. Len(e)
        BY <2>1, <2>d, <3>4, <4>1 DEF Shaped
      <4>2. CASE p = Len(e) + 1
        <5>1. response.type # "cmgr" \/ Len(e) = 0
          BY <2>d, <3>4, <4>2
        <5> QED
          BY <2>d, <3>3, <4>2, <5>1
      <4> QED
        BY <2>d, <4>1, <4>2
    <3> QED
      BY <2>d, <3>1, <3>2, <3>4 DEF Shaped
  <2>5. \A p \in DOMAIN Incoming' : Incoming'[p].k = "PROMPT" => response.type = "sms"
    <3>1. /\ DOMAIN Incoming' = 1 .. Len(Incoming) + 1 /\ Incoming'[Len(Incoming) + 1] = l
          /\ DOMAIN Incoming = 1 .. Len(Incoming) /\ Len(Incoming) \in Nat
          /\ \A p \in 1 .. Len(Incoming) : Incoming'[p] = Incoming[p]
      BY <1>t, <1>i, <1>l, Ends
    <3>2. \A p \in DOMAIN Incoming' : p \in DOMAIN Incoming \/ p = Len(Incoming) + 1
      BY <3>1
    <3> QED
      BY <1>l, <2>1, <3>1, <3>2
  <2> QED
    BY <1>s, <2>2, <2>3, <2>4, <2>5 DEF t
<1>7. (Taken /\ Collected)'
  <2>1. Taken'
    BY <1>u DEF CollectInv, Taken
  <2>2. slips = 0 => response.finalResponse = None
    BY <1>s DEF Open
  <2> QED
    BY <1>u, <2>1, <2>2 DEF Collected
<1>8. Returned'
  <2> SUFFICES ASSUME slips' = 0, NEW d \in Callers, Answered(result'[d])
               PROVE  /\ result'[d].cmd \in 1 .. sent'
                      /\ result'[d].cmd = sent' => response' = None
                      /\ Complete(result'[d].inter, result'[d].type, emitted'[result'[d].cmd])
    BY DEF Returned, Answered
  <2>1. \A n \in 1 .. sent : (n = sent => response = None)
          => emitted'[n] = emitted[n] /\ (n = sent' => response' = None)
    BY <1>e, <1>s, <1>u
  <2>2. /\ Returned /\ sent \in Nat /\ sent' \in Nat /\ sent <= sent'
        /\ (slips' = 0 => slips = 0) /\ result'[d] = result[d]
    BY <1>t, <1>u DEF CollectInv
  <2> QED
    BY <2>1, <2>2, ReturnedKept
<1> QED
  BY <1>1, <1>2, <1>3, <1>4, <1>5, <1>6, <1>7, <1>8 DEF CollectInv

\* Nothing was sent at the start.
LEMMA CollectInit == Init => CollectInv
<1> SUFFICES ASSUME Init PROVE CollectInv
  OBVIOUS
<1>1. /\ rx = <<>> /\ Incoming = <<>> /\ Open = 0 /\ tx = <<>> /\ sent = 0 /\ hungup
      /\ response = None /\ emitted = <<>> /\ reader = "dead" /\ modem.inter = 0
  BY DEF Init, Incoming, Open, IdleModem
<1>2. \A c \in Callers : ~Answered(result[c])
  BY DEF Init, Answered
<1>3. DOMAIN <<>> = {} /\ Len(<<>>) = 0
  OBVIOUS
<1> QED
  BY <1>1, <1>2, <1>3
     DEF CollectInv, DeviceGone, Unasked, Paired, Pairs, Recorded, Progress, Collecting,
         Taken, Collected, Returned

\* Every step of the threads keeps the lines of a command together.
LEMMA CollectThreads ==
  ASSUME Serialized, WaitInv, TypeInv', LagInv, CollectInv,
         (\E c \in Callers : CallerStep(c)) \/ ShakerStep
  PROVE  CollectInv'
<1>0. Shaker \in Callers
  BY ChannelAssumption
<1>a. /\ TypeInv /\ TypeOK /\ slips \in Nat /\ Book /\ Streaming /\ PendingWaits
      /\ result \in [Callers -> Results \cup {None}]
      /\ api \in [Callers -> AllApis]
  BY LagTypes DEF WaitInv, TypeInv, TypeOK, ThreadTypes, LagInv
<1>u. UNCHANGED <<rx, modem, hungup, reader, line, readerClosed>>
  BY DEF CallerStep, Call, LockG, Start, Spurious, Wake, ShakerStep, Handshake, HsLock, HsTry,
         HsExpire, HsTimeout, HsWake, HsSleepEnd, channelVars, readerVars, modemVars
<1>i. Incoming' = Incoming /\ DeviceGone' /\ Paired'
  BY <1>u DEF Incoming, CollectInv, DeviceGone, Paired
<1>k. ASSUME UNCHANGED <<tx, sent, emitted>>, slips' \in Nat, slips <= slips',
             response' = response \/ response' = None,
             \A c \in Callers :
               \/ result'[c] = result[c]
               \/ ~Answered(result'[c])
               \/ /\ response # None /\ response.finalResponse # None /\ ~readerClosed
                  /\ result'[c] = Outcome(response) /\ response' = None
      PROVE  CollectInv'
  BY <1>a, <1>u, <1>i, <1>k, CollectKept
<1>1. ASSUME UNCHANGED <<tx, sent, emitted, slips, response, result>> PROVE CollectInv'
  BY <1>1, <1>a, <1>k
<1>e. \A e : ~Answered(Failed(e))
  BY FailedType
<1>3. ASSUME NEW c \in Callers, CallerStep(c) PROVE CollectInv'
  <2>1. CASE (\E a \in Apis : Call(c, a)) \/ LockG(c) \/ Spurious(c)
    BY <2>1, <1>1 DEF Call, LockG, Spurious, channelVars, modemVars, history
  <2>2. CASE Start(c)
    <3>1. response = None /\ UNCHANGED slips
      BY <2>2, <1>a, NonePending DEF Start, Busy, Waiting
    <3>2. CASE Post(c, api[c]) /\ UNCHANGED result
      BY <3>1, <3>2, <1>a, <1>u, CollectPost
    <3>3. CASE /\ \E w \in {"closed", "generic"} : Return(c, Failed(w))
               /\ UNCHANGED <<response, tx, sent, emitted>>
      <4>1. PICK w \in {"closed", "generic"} :
              result' = [result EXCEPT ![c] = Failed(w)]
        BY <3>3 DEF Return
      <4>2. \A d \in Callers : result'[d] = result[d] \/ ~Answered(result'[d])
        BY <4>1, <1>a, <1>e
      <4> QED
        BY <3>1, <3>3, <4>2, <1>a, <1>k
    <3> QED
      BY <2>2, <3>1, <3>2, <3>3 DEF Start
  <2>3. CASE Wake(c)
    <3>1. response # None /\ UNCHANGED <<tx, sent, emitted, slips>>
      BY <2>3 DEF Wake, WaitInv, WaitRest, WaiterOwnsResponse, Waiting, history, modemVars
    <3>2. CASE UNCHANGED <<response, result>>
      BY <3>1, <3>2, <1>1
    <3>3. CASE /\ response.finalResponse # None \/ readerClosed
               /\ Return(c, Outcome(response)) /\ response' = None
      <4>1. result' = [result EXCEPT ![c] = Outcome(response)]
        BY <3>3 DEF Return
      <4>2. readerClosed => ~Answered(Outcome(response))
        BY DEF Answered, Outcome, Result
      <4>3. \A d \in Callers : \/ result'[d] = result[d]
                               \/ result'[d] = Outcome(response)
        BY <4>1, <1>a
      <4> QED
        BY <3>1, <3>3, <4>2, <4>3, <1>a, <1>k
    <3> QED
      BY <2>3, <3>1, <3>2, <3>3 DEF Wake
  <2> QED
    BY <1>3, <2>1, <2>2, <2>3 DEF CallerStep
<1>4. ASSUME NEW e, HsNext(e), UNCHANGED <<tx, sent, emitted>>, slips' \in Nat, slips <= slips',
             response' = response \/ response' = None
      PROVE  CollectInv'
  <2>1. \A d \in Callers : result'[d] = result[d] \/ ~Answered(result'[d])
    BY <1>4, <1>a, <1>e, <1>0 DEF HsNext
  <2> QED
    BY <1>4, <1>k, <2>1
<1>5. ASSUME ShakerStep PROVE CollectInv'
  <2>1. CASE Handshake \/ HsLock \/ HsExpire
    BY <2>1, <1>1 DEF Handshake, HsLock, HsExpire, channelVars, modemVars, history
  <2>2. CASE HsTry
    <3>1. response = None /\ UNCHANGED slips
      BY <2>2, <1>0, <1>a, NonePending DEF HsTry, Busy, Waiting
    <3>2. CASE Post(Shaker, "plain") /\ UNCHANGED result
      <4>1. "plain" \in AllApis
        BY DEF AllApis
      <4> QED
        BY <3>1, <3>2, <4>1, <1>0, <1>a, <1>u, CollectPost
    <3>3. CASE /\ \E w \in {"closed", "generic"} : HsNext(w)
               /\ UNCHANGED <<response, tx, sent, emitted>>
      BY <3>1, <3>3, <1>4, <1>a
    <3> QED
      BY <2>2, <3>1, <3>2, <3>3 DEF HsTry
  <2>3. CASE HsTimeout
    <3>1. slips' \in Nat /\ slips <= slips'
      BY <2>3, <1>a DEF HsTimeout
    <3> QED
      BY <2>3, <3>1, <1>4 DEF HsTimeout, modemVars
  <2>4. CASE HsWake
    <3>1. response # None /\ UNCHANGED <<tx, sent, emitted, slips>>
      BY <2>4, <1>0 DEF HsWake, WaitInv, WaitRest, WaiterOwnsResponse, Waiting, history, modemVars
    <3>2. CASE UNCHANGED result /\ (response' = response \/ response' = None)
      BY <3>1, <3>2, <1>a, <1>k
    <3>3. CASE HsNext("closed") /\ response' = None
      BY <3>1, <3>3, <1>4, <1>a
    <3> QED
      BY <2>4, <3>1, <3>2, <3>3 DEF HsWake
  <2>5. CASE HsSleepEnd
    <3>1. /\ result' = [result EXCEPT ![Shaker] = Failed("ok")]
          /\ UNCHANGED <<tx, sent, emitted, slips, response>>
      BY <2>5 DEF HsSleepEnd, channelVars, modemVars, history
    <3>2. \A d \in Callers : result'[d] = result[d] \/ ~Answered(result'[d])
      BY <3>1, <1>0, <1>a, <1>e
    <3> QED
      BY <3>1, <3>2, <1>a, <1>k
  <2> QED
    BY <1>5, <2>1, <2>2, <2>3, <2>4, <2>5 DEF ShakerStep
<1> QED
  BY <1>3, <1>5

\* Reading a line takes an unsolicited SMS away and nothing else.
LEMMA CollectReader ==
  ASSUME TypeInv, TypeInv', LagInv, CollectInv, ReaderStep
  PROVE  CollectInv'
<1>t. /\ Incoming \in Seq(Lines) /\ rx \in Seq(Lines) /\ slips \in Nat
  BY LagTypes
<1>b. Book /\ Streaming /\ ReaderGone
  BY DEF LagInv
<1>p. rx # <<>> /\ rx' = Tail(rx) => Pairs(rx')
  <2> SUFFICES ASSUME rx # <<>>, rx' = Tail(rx) PROVE Pairs(rx')
    OBVIOUS
  <2>1. /\ DOMAIN rx = 1 .. Len(rx) /\ Len(rx) \in Nat
        /\ DOMAIN rx' = 1 .. Len(rx) - 1
        /\ \A p \in 1 .. Len(rx) - 1 : rx'[p] = rx[p + 1]
    BY <1>t, Ends
  <2>2. ASSUME NEW p \in DOMAIN rx'
        PROVE  /\ rx'[p].k \in {"SMS", "PDU"} => rx'[p].of = 0
               /\ rx'[p].k = "SMS" => p + 1 \in DOMAIN rx' /\ rx'[p + 1].k = "PDU"
    <3>1. p + 1 \in DOMAIN rx /\ rx'[p] = rx[p + 1]
      BY <2>1, <2>2
    <3>2. /\ rx[p + 1].k \in {"SMS", "PDU"} => rx[p + 1].of = 0
          /\ rx[p + 1].k = "SMS" => (p + 1) + 1 \in DOMAIN rx /\ rx[(p + 1) + 1].k = "PDU"
      BY <3>1 DEF CollectInv, Paired, Pairs
    <3> QED
      BY <2>1, <2>2, <3>1, <3>2
  <2> QED
    BY <2>2 DEF Pairs
<1>d. ASSUME UNCHANGED <<tx, modem, sent, slips, emitted, result, response, readerClosed>>,
             Incoming # <<>>, Incoming' = Tail(Incoming), ~Intermediate(Head(Incoming)),
             DeviceGone', Paired'
      PROVE  CollectInv'
  <2>1. Open' = Open
    BY <1>d DEF Open
  <2>2. Collecting'
    BY <1>d, <2>1, CollectDrop DEF CollectInv
  <2>3. Unasked'
    BY <1>d, UnaskedTail DEF CollectInv
  <2>4. (Progress /\ Taken /\ Collected)'
    BY <1>d DEF CollectInv, Progress, Taken, Collected
  <2> QED
    BY <1>d, <2>2, <2>3, <2>4, CollectFlow
<1>k. ASSUME UNCHANGED <<tx, rx, modem, sent, slips, emitted, result, response>>,
             Incoming' = Incoming, DeviceGone', Paired', readerClosed => readerClosed'
      PROVE  CollectInv'
  BY <1>b, <1>k, <1>t, CollectKept
<1>1. CASE ReadLine
  <2>1. /\ UNCHANGED <<tx, modem, sent, slips, emitted, result, response, readerClosed>>
        /\ reader = "read" /\ rx # <<>> /\ rx' = Tail(rx) /\ line' = Head(rx)
        /\ reader' = IF Head(rx).k = "SMS" THEN "second" ELSE "process"
    BY <1>1 DEF ReadLine, channelVars, threadVars, history, isSMSUnsolicited
  <2>2. Incoming = rx
    BY <2>1 DEF Incoming
  <2>3. DeviceGone'
    BY <2>1 DEF DeviceGone
  <2>h. 1 \in DOMAIN rx /\ Head(rx) = rx[1] /\ Head(rx) \in Lines
    BY <1>t, <2>1, Ends
  <2>4. CASE Head(rx).k # "SMS"
    <3>1. reader' = "process"
      BY <2>1, <2>4
    <3>2. Incoming' = <<Head(rx)>> \o Tail(rx)
      BY <2>1, <3>1 DEF Incoming
    <3>3. Incoming' = Incoming
      BY <1>t, <2>1, <2>2, <3>2, HeadTailType, Held
    <3>4. Paired'
      BY <1>p, <2>1, <3>1 DEF Paired
    <3>5. Open' = Open
      BY <2>1 DEF Open
    <3>6. (Unasked /\ Progress /\ Collecting /\ Taken /\ Collected)'
      BY <2>1, <3>3, <3>5 DEF CollectInv, Unasked, Progress, Collecting, Taken, Collected
    <3> QED
      BY <2>1, <2>3, <3>4, <3>6, CollectFlow
  <2>5. CASE Head(rx).k = "SMS"
    <3>1. reader' = "second"
      BY <2>1, <2>5
    <3>2. Incoming' = Tail(Incoming)
      BY <2>1, <2>2, <3>1 DEF Incoming
    <3>3. Head(rx).of = 0 /\ 2 \in DOMAIN rx /\ rx[2].k = "PDU"
      <4>1. Head(rx).of = 0 /\ 1 + 1 \in DOMAIN rx /\ rx[1 + 1].k = "PDU"
        BY <2>h, <2>5 DEF CollectInv, Paired, Pairs
      <4> QED
        BY <4>1
    <3>4. rx' # <<>> /\ Head(rx').k = "PDU"
      <4>1. Len(rx) >= 2
        BY <1>t, <3>3
      <4>2. Tail(rx) # <<>> /\ Head(Tail(rx)) = rx[2]
        BY <1>t, <4>1, SMTT(30)
      <4> QED
        BY <2>1, <3>3, <4>2
    <3>5. Paired'
      BY <1>p, <2>1, <3>4 DEF Paired
    <3>6. ~Intermediate(Head(Incoming))
      BY <2>2, <3>3 DEF Intermediate
    <3> QED
      BY <1>d, <2>1, <2>2, <2>3, <3>2, <3>5, <3>6
  <2> QED
    BY <2>4, <2>5
<1>2. CASE ReadSecond
  <2>1. /\ UNCHANGED <<tx, modem, sent, slips, emitted, result, response, readerClosed>>
        /\ reader = "second" /\ rx # <<>> /\ rx' = Tail(rx) /\ reader' = "read"
    BY <1>2 DEF ReadSecond, channelVars, threadVars, history
  <2>2. Incoming = rx /\ Incoming' = Tail(rx)
    BY <2>1 DEF Incoming
  <2>h. 1 \in DOMAIN rx /\ Head(rx) = rx[1]
    BY <1>t, <2>1, Ends
  <2>3. Head(rx).of = 0
    BY <2>1, <2>h DEF CollectInv, Paired, Pairs
  <2>4. ~Intermediate(Head(Incoming))
    BY <2>2, <2>3 DEF Intermediate
  <2>5. DeviceGone' /\ Paired'
    BY <1>p, <2>1 DEF DeviceGone, Paired
  <2> QED
    BY <1>d, <2>1, <2>2, <2>4, <2>5
<1>3. CASE ProcessLine
  BY <1>3, <1>b, CollectProcess
<1>4. CASE ReadEOF \/ OnReaderClosedTest \/ OnReaderClosed \/ AtClose \/ AtCloseSignal
  <2>1. /\ UNCHANGED <<rx, tx, modem, hungup, sent, slips, emitted, result, response>>
        /\ reader # "process" /\ reader' \notin {"process", "second"}
        /\ readerClosed => readerClosed'
        /\ \/ hungup
           \/ reader \in {"eof", "closing", "callback", "closefd", "dead"}
    BY <1>4 DEF ReadEOF, OnReaderClosedTest, OnReaderClosed, AtClose, AtCloseSignal,
                channelVars, modemVars, threadVars, history
  <2>2. Incoming' = Incoming /\ DeviceGone' /\ Paired'
    BY <2>1 DEF Incoming, CollectInv, DeviceGone, Paired
  <2> QED
    BY <1>k, <2>1, <2>2
<1> QED
  BY <1>1, <1>2, <1>3, <1>4 DEF ReaderStep

\* Whatever the modem sends keeps the lines of a command together.
LEMMA CollectModem ==
  ASSUME TypeInv, TypeInv', LagInv, CollectInv, ModemStep
  PROVE  CollectInv'
<1>t. /\ Incoming \in Seq(Lines) /\ rx \in Seq(Lines) /\ tx \in Seq(Commands)
      /\ slips \in Nat /\ sent \in Nat
      /\ modem \in [inter : Nat, prompt : {"none", "asked", "sent"}]
  BY LagTypes DEF TypeInv, TypeOK, ModemTypes
<1>b. Book /\ Streaming /\ ReaderGone
  BY DEF LagInv
<1>l. /\ \A k \in LineKinds, n \in Nat : /\ Word(k, n) \in Lines /\ Word(k, n).k = k
                                         /\ Word(k, n).of = n /\ Word(k, n).cls = "other"
      /\ \A c \in Classes, n \in Nat : /\ Text(c, n) \in Lines /\ Text(c, n).k = "TEXT"
                                       /\ Text(c, n).of = n /\ Text(c, n).cls = c
  BY LineType DEF Word, Text
<1>h. tx # <<>> => Head(tx).id \in Nat
  <2>1. tx # <<>> => Head(tx) \in Commands
    BY <1>t, HeadTailType
  <2> QED
    BY <2>1 DEF Commands
<1>s. ASSUME NEW l \in Lines, ~Intermediate(l), l.k \notin {"SMS", "PDU"},
             l.k # "TEXT" => l.cls = "other",
             l.k = "PROMPT" => tx # <<>> /\ Head(tx).api = "sms",
             rx' = Append(rx, l),
             UNCHANGED <<reader, line, hungup, response, readerClosed, sent, slips, emitted,
                         result>>,
             \/ tx' = tx /\ modem'.inter = modem.inter
             \/ tx # <<>> /\ tx' = Tail(tx) /\ modem'.inter = 0
      PROVE  CollectInv'
  <2>1. Incoming' = Append(Incoming, l)
    BY <1>s, Joining
  <2>2. Unasked' /\ Paired'
    BY <1>s, <2>1, UnaskedAppend, PairedAppend DEF CollectInv
  <2>3. \A a, e : a \in Seq(Lines) /\ Lists(a \o Incoming, Own(a \o Incoming), e)
                    => Lists(a \o Incoming', Own(a \o Incoming'), e)
    <3>1. \A a, e : a \in Seq(Lines) /\ Lists(a \o Incoming, Own(a \o Incoming), e)
            => Lists(a \o Append(Incoming, l), Own(a \o Append(Incoming, l)), e)
      BY <1>t, <1>s, SayOne
    <3> QED
      BY <2>1, <3>1
  <2>4. \A p \in DOMAIN Incoming' : Incoming'[p].k = "PROMPT" =>
          \/ p \in DOMAIN Incoming /\ Incoming'[p] = Incoming[p]
          \/ tx # <<>> /\ Head(tx).api = "sms"
    <3>1. /\ DOMAIN Incoming' = 1 .. Len(Incoming) + 1 /\ Incoming'[Len(Incoming) + 1] = l
          /\ DOMAIN Incoming = 1 .. Len(Incoming) /\ Len(Incoming) \in Nat
          /\ \A p \in 1 .. Len(Incoming) : Incoming'[p] = Incoming[p]
      BY <1>t, <2>1, Ends
    <3>2. \A p \in DOMAIN Incoming' : p \in DOMAIN Incoming \/ p = Len(Incoming) + 1
      BY <3>1
    <3> QED
      BY <1>s, <3>1, <3>2
  <2> QED
    BY <1>b, <1>s, <2>2, <2>3, <2>4, CollectSay
<1>1. CASE ModemInter
  BY <1>1, <1>b, CollectInter
<1>2. CASE ModemPrompt
  <2> DEFINE l == Word("PROMPT", Head(tx).id)
  <2>1. /\ tx # <<>> /\ Head(tx).api = "sms" /\ rx' = Append(rx, l)
        /\ modem' = [modem EXCEPT !.prompt = "asked"]
        /\ UNCHANGED <<reader, line, hungup, response, readerClosed, sent, slips, emitted,
                       result, tx>>
    BY <1>2 DEF ModemPrompt, Emit, threadVars, channelVars, readerVars, history
  <2>2. modem'.inter = modem.inter
    BY <1>t, <2>1
  <2>3. l \in Lines /\ l.k = "PROMPT" /\ l.cls = "other"
    BY <1>l, <1>h, <2>1 DEF LineKinds
  <2> HIDE DEF l
  <2>4. ~Intermediate(l)
    BY <2>3 DEF Intermediate
  <2> QED
    BY <1>s, <2>1, <2>2, <2>3, <2>4
<1>3. CASE \E k \in {"OK", "ERROR"} : ModemFinal(k)
  <2>1. PICK k \in {"OK", "ERROR"} : ModemFinal(k)
    BY <1>3
  <2> DEFINE l == Word(k, Head(tx).id)
  <2>2. /\ tx # <<>> /\ rx' = Append(rx, l) /\ tx' = Tail(tx) /\ modem'.inter = 0
        /\ UNCHANGED <<reader, line, hungup, response, readerClosed, sent, slips, emitted,
                       result>>
    BY <2>1 DEF ModemFinal, Emit, IdleModem, threadVars, channelVars, readerVars, history
  <2>3. l \in Lines /\ l.k = k /\ l.cls = "other"
    BY <1>l, <1>h, <2>2 DEF LineKinds
  <2> HIDE DEF l
  <2>4. ~Intermediate(l) /\ l.k \notin {"SMS", "PDU", "PROMPT"}
    BY <2>3 DEF Intermediate, Final
  <2> QED
    BY <1>s, <2>2, <2>3, <2>4
<1>4. CASE ModemUnsolicited
  <2>u. UNCHANGED <<reader, line, hungup, response, readerClosed, sent, slips, emitted,
                    result, tx, modem>>
    BY <1>4 DEF ModemUnsolicited, threadVars, channelVars, readerVars
  <2>1. CASE \E cls \in UrcClasses : Emit(Text(cls, 0))
    <3>0. PICK cls \in UrcClasses : Emit(Text(cls, 0))
      BY <2>1
    <3> DEFINE l == Text(cls, 0)
    <3>1. rx' = Append(rx, l) /\ cls \in Classes
      BY <3>0, ChannelAssumption DEF Emit, Classes
    <3>2. l \in Lines /\ l.k = "TEXT" /\ l.of = 0
      BY <1>l, <3>1
    <3> HIDE DEF l
    <3>3. ~Intermediate(l)
      BY <3>2 DEF Intermediate
    <3> QED
      BY <1>s, <2>u, <3>1, <3>2, <3>3
  <2>2. CASE rx' = rx \o <<Word("SMS", 0), Word("PDU", 0)>>
    <3> DEFINE m == Word("SMS", 0)
               l == Word("PDU", 0)
    <3>1. /\ m \in Lines /\ m.k = "SMS" /\ m.of = 0 /\ m.cls = "other"
          /\ l \in Lines /\ l.k = "PDU" /\ l.of = 0 /\ l.cls = "other"
      BY <1>l DEF LineKinds
    <3>2. rx' = rx \o <<m, l>>
      BY <2>2
    <3> HIDE DEF m, l
    <3>3. rx' = Append(Append(rx, m), l)
      BY <1>t, <3>1, <3>2
    <3>4. Incoming' = Append(Append(Incoming, m), l)
      <4>1. CASE reader = "process"
        <5>1. line \in Lines
          BY <4>1, LagTypes
        <5>2. <<line>> \o Append(Append(rx, m), l) = Append(Append(<<line>> \o rx, m), l)
          BY <1>t, <3>1, <5>1, Held, AppendType
        <5> QED
          BY <2>u, <3>3, <4>1, <5>2 DEF Incoming
      <4>2. CASE reader # "process"
        BY <2>u, <3>3, <4>2 DEF Incoming
      <4> QED
        BY <4>1, <4>2
    <3>5. Paired'
      BY <2>u, <3>1, <3>3, PairedSms DEF CollectInv
    <3>d. /\ DOMAIN Incoming = 1 .. Len(Incoming) /\ Len(Incoming) \in Nat
          /\ DOMAIN Incoming' = 1 .. Len(Incoming) + 2
          /\ Incoming'[Len(Incoming) + 1] = m /\ Incoming'[Len(Incoming) + 2] = l
          /\ \A p \in 1 .. Len(Incoming) : Incoming'[p] = Incoming[p]
      BY <1>t, <3>1, <3>4
    <3>p. \A p \in DOMAIN Incoming' : \/ p \in DOMAIN Incoming
                                      \/ p = Len(Incoming) + 1 \/ p = Len(Incoming) + 2
      BY <3>d
    <3>6. Unasked'
      BY <3>1, <3>d, <3>p DEF CollectInv, Unasked
    <3>7. \A a, e : a \in Seq(Lines) /\ Lists(a \o Incoming, Own(a \o Incoming), e)
                      => Lists(a \o Incoming', Own(a \o Incoming'), e)
      <4> DEFINE q == Append(Incoming, m)
      <4>1. ~Intermediate(m) /\ ~Intermediate(l) /\ q \in Seq(Lines)
        BY <1>t, <3>1, AppendType DEF Intermediate
      <4>2. \A a, e : a \in Seq(Lines) /\ Lists(a \o Incoming, Own(a \o Incoming), e)
                        => Lists(a \o q, Own(a \o q), e)
        BY <1>t, <3>1, <4>1, SayOne
      <4> HIDE DEF q
      <4>3. \A a, e : a \in Seq(Lines) /\ Lists(a \o q, Own(a \o q), e)
                        => Lists(a \o Append(q, l), Own(a \o Append(q, l)), e)
        BY <3>1, <4>1, SayOne
      <4>4. Incoming' = Append(q, l)
        BY <3>4 DEF q
      <4> QED
        BY <4>2, <4>3, <4>4
    <3>8. \A p \in DOMAIN Incoming' : Incoming'[p].k = "PROMPT" =>
            p \in DOMAIN Incoming /\ Incoming'[p] = Incoming[p]
      BY <3>1, <3>d, <3>p
    <3> QED
      BY <1>b, <2>u, <3>5, <3>6, <3>7, <3>8, CollectSay
  <2> QED
    BY <1>4, <2>1, <2>2 DEF ModemUnsolicited
<1>5. CASE ModemStray
  <2> DEFINE l == Word("ERROR", 0)
  <2>1. /\ rx' = Append(rx, l) /\ slips' = slips + 1
        /\ UNCHANGED <<reader, line, hungup, emitted, sent>>
    BY <1>5 DEF ModemStray, Emit, readerVars
  <2>2. l \in Lines /\ l.k = "ERROR" /\ l.cls = "other"
    BY <1>l DEF LineKinds
  <2> HIDE DEF l
  <2>3. Incoming' = Append(Incoming, l) /\ slips' # 0
    BY <1>t, <2>1, <2>2, Joining
  <2>4. Unasked' /\ Paired'
    BY <2>1, <2>2, <2>3, UnaskedAppend, PairedAppend DEF CollectInv
  <2>5. (DeviceGone /\ Recorded)'
    BY <2>1 DEF CollectInv, DeviceGone, Recorded
  <2>6. (Progress /\ Collecting /\ Taken /\ Collected /\ Returned)'
    BY <2>3 DEF Progress, Collecting, Taken, Collected, Returned
  <2> QED
    BY <2>4, <2>5, <2>6 DEF CollectInv
<1>6. CASE ModemHangup
  <2>1. /\ UNCHANGED <<rx, tx, modem, reader, line, response, readerClosed, sent, slips,
                       emitted, result>>
        /\ hungup'
    BY <1>6 DEF ModemHangup, threadVars, channelVars, readerVars, history
  <2>2. Incoming' = Incoming /\ DeviceGone' /\ Paired'
    BY <2>1 DEF Incoming, CollectInv, DeviceGone, Paired
  <2> QED
    BY <1>b, <1>t, <2>1, <2>2, CollectKept
<1> QED
  BY <1>1, <1>2, <1>3, <1>4, <1>5, <1>6 DEF ModemStep

\* Every step keeps the invariant.
LEMMA CollectNext ==
  ASSUME Serialized, WaitInv, LagInv, CollectInv, [Next]_vars
  PROVE  CollectInv'
<1>a. TypeInv /\ TypeInv'
  BY WaitNext DEF WaitInv
<1>1. CASE (\E c \in Callers : CallerStep(c)) \/ ShakerStep
  BY <1>a, <1>1, CollectThreads
<1>2. CASE ReaderStep
  BY <1>a, <1>2, CollectReader
<1>3. CASE ModemStep
  BY <1>a, <1>3, CollectModem
<1>4. CASE AtOpen
  <2>1. /\ UNCHANGED <<sent, slips, emitted, result>> /\ response' = None
        /\ rx' = <<>> /\ tx' = <<>> /\ reader' = "read" /\ modem'.inter = 0
    BY <1>4 DEF AtOpen, threadVars, IdleModem
  <2>2. Incoming' = <<>> /\ Open' = 0 /\ DOMAIN <<>> = {}
    BY <2>1 DEF Incoming, Open
  <2>3. (DeviceGone /\ Unasked /\ Paired /\ Recorded /\ Progress)'
    BY <2>1, <2>2 DEF CollectInv, DeviceGone, Unasked, Paired, Pairs, Recorded, Progress
  <2>4. (Collecting /\ Taken /\ Collected)'
    BY <2>1, <2>2 DEF Collecting, Taken, Collected
  <2>5. Returned'
    <3> SUFFICES ASSUME slips' = 0, NEW d \in Callers, Answered(result'[d])
                 PROVE  /\ result'[d].cmd \in 1 .. sent'
                        /\ result'[d].cmd = sent' => response' = None
                        /\ Complete(result'[d].inter, result'[d].type, emitted'[result'[d].cmd])
      BY DEF Returned, Answered
    <3>1. sent \in Nat
      BY <1>a, LagTypes
    <3> QED
      BY <2>1, <3>1, ReturnedKept DEF CollectInv
  <2> QED
    BY <2>3, <2>4, <2>5 DEF CollectInv
<1>5. CASE UNCHANGED vars
  BY <1>5
     DEF CollectInv, DeviceGone, Unasked, Paired, Pairs, Recorded, Progress, Collecting, Taken,
         Collected, Returned, Answered, Incoming, Open, vars, threadVars, channelVars,
         readerVars, modemVars, history
<1> QED
  BY <1>1, <1>2, <1>3, <1>4, <1>5 DEF Next

\* When commands are serialized, a command that met no answer left over
\* returns every intermediate line the modem sent for it, in order, whatever
\* else the modem sends: processLine() hands each line to the command it
\* belongs to.  Among them are unsolicited lines only where CompleteResponse
\* says so, and only a command for a single line may lose its own to one.
THEOREM AlwaysCompleteResponse ==
  Serialized => (Spec => []CompleteResponse)
<1> SUFFICES ASSUME Serialized PROVE Spec => []CompleteResponse
  OBVIOUS
<1>1. Init => WaitInv /\ LagInv /\ CollectInv
  BY WaitInit, LagInit, CollectInit
<1>2. (WaitInv /\ LagInv /\ CollectInv) /\ [Next]_vars => (WaitInv /\ LagInv /\ CollectInv)'
  BY WaitNext, LagNext, CollectNext
<1>3. CollectInv => CompleteResponse
  BY DEF CollectInv, Returned, CompleteResponse
<1> QED
  BY <1>1, <1>2, <1>3, PTL DEF Spec
=============================================================================
