------------------------- MODULE RilLifecycleProofs -------------------------
(***************************************************************************)
(* Theorems about the life of a RIL, for any number of sessions, requests  *)
(* and unsolicited lines: the specification keeps its types, and once a    *)
(* close is known the radio is UNAVAILABLE or about to be, and the state    *)
(* the RIL reports agrees with the radio whenever nobody is changing it.    *)
(***************************************************************************)
EXTENDS RilLifecycle, TLAPS

\* A session that mainLoop has not opened yet has no reader thread, and
\* mainLoop is only about to open one of the sessions there are.
FreshReaders ==
  /\ \A s \in Readers : s > session => pc[s] = "none"
  /\ main = "atopen" => session < MaxSessions

\* The inductive invariant.  ClosedUnavailable alone is not inductive: the
\* reader that at_open() creates must not be the one that it speaks of.
IInv == TypeOK /\ FreshReaders /\ ClosedUnavailable

Pcs == LoopPcs \cup ReaderPcs \cup CallPcs
Frames == [new : RadioStates, old : RadioStates, then : LoopPcs \cup ReaderPcs]

\* The control points that exist, written out for the provers.
LEMMA PcsFact ==
  /\ "read" \in Pcs /\ "closed" \in Pcs /\ "set" \in Pcs
  /\ Pcs = {"idle", "initcmds", "power", "request", "cfun", "query", "none",
            "read", "unlock", "closed", "dead", "set", "after", "notify",
            "poll", "cpin"}
  /\ LoopPcs \cup ReaderPcs \subseteq Pcs
  /\ 0 \notin Readers /\ Loop \in Threads /\ Readers \subseteq Threads
  BY LifecycleAssumption DEF Pcs, LoopPcs, ReaderPcs, CallPcs, Loop, Threads, Readers

\* A call of setRadioState() by any thread keeps the types of the control
\* points and of the activations.
LEMMA CallType ==
  ASSUME TypeOK, NEW t \in Threads, NEW new \in RadioStates,
         NEW p \in LoopPcs \cup ReaderPcs, CallSetRadioState(t, new, p)
  PROVE  pc' \in [Threads -> Pcs] /\ frame' \in [Threads -> Frames]
  BY PcsFact DEF TypeOK, CallSetRadioState, Goto, Pcs, Frames

\* A jump of any thread keeps the types of the control points.
LEMMA GotoType ==
  ASSUME TypeOK, NEW t \in Threads, NEW p \in Pcs, Goto(t, p)
  PROVE  pc' \in [Threads -> Pcs]
  BY DEF TypeOK, Goto, Pcs

\* A thread that moves, and is not about to change the radio state, leaves
\* the closing reader where it is and creates no reader.
LEMMA CloserStays ==
  ASSUME FreshReaders, ClosedUnavailable, NEW t \in Threads,
         pc[t] \notin {"set", "none"},
         UNCHANGED <<sState, s_closed, session, main>>,
         \A u \in Threads \ {t} : pc'[u] = pc[u] /\ frame'[u] = frame[u]
  PROVE  FreshReaders' /\ ClosedUnavailable'
<1>1. FreshReaders'
  BY PcsFact DEF FreshReaders
<1>2. ClosedUnavailable'
  BY PcsFact DEF ClosedUnavailable
<1> QED
  BY <1>1, <1>2

\* A jump touches one thread only.
LEMMA GotoOther ==
  ASSUME TypeOK, NEW t \in Threads, NEW p, Goto(t, p), UNCHANGED frame
  PROVE  /\ \A u \in Threads \ {t} : pc'[u] = pc[u] /\ frame'[u] = frame[u]
         /\ pc'[t] = p
  BY DEF TypeOK, Goto

\* A call of setRadioState() touches one thread only.
LEMMA CallOther ==
  ASSUME TypeOK, NEW t \in Threads, NEW new, NEW p,
         CallSetRadioState(t, new, p)
  PROVE  /\ \A u \in Threads \ {t} : pc'[u] = pc[u] /\ frame'[u] = frame[u]
         /\ pc'[t] = "set"
         /\ frame'[t] = [new |-> new, old |-> sState, then |-> p]
  BY DEF TypeOK, CallSetRadioState, Goto
-----------------------------------------------------------------------------
(* Type correctness                                                        *)

\* The types that only the control points and activations do not have.
RestOK ==
  /\ sState \in RadioStates
  /\ s_closed \in BOOLEAN
  /\ session \in 0 .. MaxSessions
  /\ chan \in {0, session}
  /\ hung \in BOOLEAN
  /\ main \in {"open", "atopen", "request", "test", "wait", "ended"}
  /\ inits \in Nat
  /\ polls \in Nat
  /\ cmdmutex \in 0 .. MaxSessions
  /\ radioOn \in BOOLEAN
  /\ offs \in Nat
  /\ requests \in 0 .. MaxRequests
  /\ offsSent \in 0 .. MaxOffs
  /\ reported \in BOOLEAN
  /\ blind \in BOOLEAN

\* The types alone, and what TypeOK says of the threads besides.
Typed == RestOK /\ pc \in [Threads -> Pcs] /\ frame \in [Threads -> Frames]

ThreadsOK ==
  /\ \A t \in Threads : /\ pc[t] \in Own(t) \cup CallPcs
                        /\ frame[t].then \in Own(t)
  /\ frame[Loop].then \in {"idle", "initcmds"}
  /\ req \in RequestAt(pc[Loop])

LEMMA TypeParts ==
  /\ TypeOK <=> Typed /\ ThreadsOK
  /\ TypeOK' <=> Typed' /\ ThreadsOK'
  /\ Typed <=> RestOK /\ pc \in [Threads -> Pcs] /\ frame \in [Threads -> Frames]
  /\ Typed' <=> RestOK' /\ pc' \in [Threads -> Pcs] /\ frame' \in [Threads -> Frames]
<1>1. /\ Typed <=> RestOK /\ pc \in [Threads -> Pcs] /\ frame \in [Threads -> Frames]
      /\ Typed' <=> RestOK' /\ pc' \in [Threads -> Pcs] /\ frame' \in [Threads -> Frames]
  BY DEF Typed
<1>2. TypeOK <=> Typed /\ ThreadsOK
  BY DEF TypeOK, Typed, RestOK, ThreadsOK, Pcs, Frames
<1>3. TypeOK' <=> Typed' /\ ThreadsOK'
  BY DEF TypeOK, Typed, RestOK, ThreadsOK, Pcs, Frames
<1> QED
  BY <1>1, <1>2, <1>3

\* The initial state has no reader and nothing is closed.
LEMMA InitIInv == Init => IInv
<1> SUFFICES ASSUME Init PROVE IInv
  OBVIOUS
<1>1. pc \in [Threads -> Pcs] /\ frame \in [Threads -> Frames]
  BY PcsFact DEF Init, First, Frames, RadioStates, LoopPcs, ReaderPcs
<1>2. RestOK
  <2>1. /\ session \in 0 .. MaxSessions /\ cmdmutex \in 0 .. MaxSessions
        /\ requests \in 0 .. MaxRequests /\ offsSent \in 0 .. MaxOffs
        /\ inits \in Nat /\ polls \in Nat /\ offs \in Nat
    BY LifecycleAssumption DEF Init, LifecycleAssumption
  <2>2. s_closed \in BOOLEAN /\ hung \in BOOLEAN /\ reported \in BOOLEAN
        /\ blind \in BOOLEAN /\ radioOn \in BOOLEAN
    BY DEF Init
  <2> QED
    BY <2>1, <2>2 DEF Init, RestOK, RadioStates
<1>3. FreshReaders
  BY PcsFact DEF Init, First, FreshReaders, Loop
<1>5. ThreadsOK
  BY PcsFact DEF Init, First, ThreadsOK, Own, RequestAt, LoopPcs, ReaderPcs, CallPcs
<1>4. ClosedUnavailable
  BY DEF Init, ClosedUnavailable
<1> QED
  BY <1>1, <1>2, <1>3, <1>4, <1>5, TypeParts DEF IInv

\* What the steps of a thread inside setRadioState() and pollSIMState() keep.
LEMMA ThreadType ==
  ASSUME TypeOK, NEW t \in Threads, ThreadStep(t)
  PROVE  Typed'
<1>0. RestOK /\ pc \in [Threads -> Pcs] /\ frame \in [Threads -> Frames]
  BY TypeParts
<1>f. frame[t].new \in RadioStates /\ frame[t].then \in Pcs
  BY <1>0, PcsFact DEF Frames
<1>1. CASE SetRadioState(t)
  <2>1. RestOK'
    <3>1. sState' \in RadioStates
      BY <1>1, <1>f DEF SetRadioState, RadioStates
    <3>2. main' \in {"open", "atopen", "request", "test", "wait", "ended"}
      BY <1>1, <1>0 DEF SetRadioState, RestOK
    <3>3. reported' \in BOOLEAN
      BY <1>1 DEF SetRadioState
    <3> QED
      BY <3>1, <3>2, <3>3, <1>0, <1>1 DEF SetRadioState, RestOK, modemVars
  <2>2. pc' \in [Threads -> Pcs]
    BY <1>1, <1>0, PcsFact DEF SetRadioState, Goto
  <2>3. frame' \in [Threads -> Frames]
    BY <1>1, <1>0 DEF SetRadioState, Frames, RestOK
  <2> QED
    BY <2>1, <2>2, <2>3, TypeParts
<1>2. CASE AfterSet(t)
  <2>1. RestOK' /\ UNCHANGED frame
    BY <1>2, <1>0 DEF AfterSet, RestOK, stateVars, modemVars, history
  <2>2. pc' \in [Threads -> Pcs]
    BY <1>2, <1>0, <1>f, PcsFact DEF AfterSet, Goto
  <2> QED
    BY <2>1, <2>2, <1>0, TypeParts
<1>3. CASE AfterNotify(t)
  <2>1. RestOK' /\ UNCHANGED frame
    BY <1>3, <1>0 DEF AfterNotify, RestOK, stateVars, modemVars, history
  <2>2. pc' \in [Threads -> Pcs]
    BY <1>3, <1>0, <1>f, PcsFact DEF AfterNotify, Goto
  <2> QED
    BY <2>1, <2>2, <1>0, TypeParts
<1>4. CASE PollTest(t)
  <2>1. RestOK' /\ UNCHANGED frame
    BY <1>4, <1>0 DEF PollTest, RestOK, stateVars, modemVars, history
  <2>2. pc' \in [Threads -> Pcs]
    BY <1>4, <1>0, <1>f, PcsFact DEF PollTest, Goto
  <2> QED
    BY <2>1, <2>2, <1>0, TypeParts
<1>5. ASSUME NEW sim \in SimStatuses, PollCpin(t, sim)
      PROVE  Typed'
  <2>a. polls' = polls \/ polls' = polls + 1
    BY <1>5 DEF PollCpin
  <2>b. reported' \in BOOLEAN
    <3>1. reported' = TRUE \/ reported' = reported
      BY <1>5 DEF PollCpin
    <3> QED
      BY <3>1, <1>0 DEF RestOK
  <2>c. polls' \in Nat
    BY <2>a, <1>0 DEF RestOK
  <2>2. RestOK' /\ UNCHANGED frame
    BY <2>b, <2>c, <1>5, <1>0 DEF PollCpin, RestOK, stateVars, modemVars
  <2>3. pc' \in [Threads -> Pcs]
    BY <1>5, <1>0, <1>f, PcsFact DEF PollCpin, Goto
  <2> QED
    BY <2>2, <2>3, <1>0, TypeParts
<1> QED
  BY <1>1, <1>2, <1>3, <1>4, <1>5 DEF ThreadStep

\* What the event loop's own steps keep.
LEMMA LoopType ==
  ASSUME TypeOK, LoopStep
  PROVE  Typed'
<1>0. RestOK /\ pc \in [Threads -> Pcs] /\ frame \in [Threads -> Frames]
  BY TypeParts
<1>c. /\ "idle" \in LoopPcs /\ "initcmds" \in LoopPcs /\ Loop \in Threads
      /\ "OFF" \in RadioStates /\ "ON" \in RadioStates
      /\ {"idle", "cfun", "query", "poll"} \subseteq Pcs
  BY PcsFact DEF LoopPcs, RadioStates
<1>1. CASE LoopInit
  <2>1. pc' \in [Threads -> Pcs] /\ frame' \in [Threads -> Frames]
    BY <1>1, <1>c, CallType DEF LoopInit
  <2>2. inits' \in Nat
    BY <1>1, <1>0 DEF LoopInit, RestOK
  <2>3. RestOK'
    BY <2>2, <1>1, <1>0 DEF LoopInit, RestOK, stateVars, modemVars, history
  <2> QED
    BY <2>1, <2>3, TypeParts
<1>2. CASE InitCommands
  <2>1. pc' \in [Threads -> Pcs] /\ frame' \in [Threads -> Frames]
    <3>1. \/ CallSetRadioState(Loop, "ON", "idle")
          \/ Goto(Loop, "idle") /\ UNCHANGED frame
      BY <1>2 DEF InitCommands
    <3> QED
      BY <3>1, <1>0, <1>c, CallType, GotoType
  <2>2. blind' \in BOOLEAN
    BY <1>2 DEF InitCommands
  <2>3. RestOK'
    BY <2>2, <1>2, <1>0 DEF InitCommands, RestOK, stateVars, modemVars
  <2> QED
    BY <2>1, <2>3, TypeParts
<1>3. CASE LoopPoll
  <2>1. pc' \in [Threads -> Pcs]
    BY <1>3, <1>c, GotoType DEF LoopPoll
  <2>2. frame' \in [Threads -> Frames]
    BY <1>3, <1>0, <1>c DEF LoopPoll, Frames
  <2>3. polls' \in Nat
    BY <1>3, <1>0 DEF LoopPoll, RestOK
  <2>4. RestOK'
    BY <2>3, <1>3, <1>0 DEF LoopPoll, RestOK, stateVars, modemVars, history
  <2> QED
    BY <2>1, <2>2, <2>4, TypeParts
<1>4. CASE Request
  <2>1. pc' \in [Threads -> Pcs] /\ UNCHANGED frame
    BY <1>4, <1>c, GotoType DEF Request, Complete
  <2>2. RestOK'
    BY <1>4, <1>0 DEF Request, Complete, RestOK, stateVars, modemVars, history
  <2> QED
    BY <2>1, <2>2, <1>0, TypeParts
<1>5. CASE PowerTest
  <2>1. pc' \in [Threads -> Pcs] /\ UNCHANGED frame
    BY <1>5, <1>c, GotoType DEF PowerTest, Complete
  <2>2. req' \in {"none", req}
    BY <1>5 DEF PowerTest, Complete
  <2>3. RestOK'
    BY <2>2, <1>5, <1>0 DEF PowerTest, RestOK, stateVars, modemVars, history
  <2> QED
    BY <2>1, <2>3, <1>0, TypeParts
<1>6. CASE PowerOff
  <2>1. \/ CallSetRadioState(Loop, "OFF", "idle") /\ blind' = FALSE
        \/ Goto(Loop, "idle") /\ UNCHANGED <<frame, blind>>
    BY <1>6 DEF PowerOff, Complete
  <2>2. pc' \in [Threads -> Pcs] /\ frame' \in [Threads -> Frames]
    BY <2>1, <1>0, <1>c, CallType, GotoType
  <2>3. blind' \in BOOLEAN
    BY <2>1, <1>0 DEF RestOK
  <2>4. radioOn' \in {radioOn, FALSE} /\ req' = "none"
    BY <1>6 DEF PowerOff, Complete
  <2>5. RestOK'
    BY <2>3, <2>4, <1>6, <1>0 DEF PowerOff, RestOK, stateVars
  <2> QED
    BY <2>2, <2>5, TypeParts
<1>7. CASE PowerOn
  <2>1. \/ CallSetRadioState(Loop, "ON", "idle") /\ blind' = FALSE
        \/ Goto(Loop, "query") /\ UNCHANGED <<frame, blind>>
    BY <1>7 DEF PowerOn
  <2>2. pc' \in [Threads -> Pcs] /\ frame' \in [Threads -> Frames]
    BY <2>1, <1>0, <1>c, CallType, GotoType
  <2>3. blind' \in BOOLEAN
    BY <2>1, <1>0 DEF RestOK
  <2>4. radioOn' \in {radioOn, TRUE} /\ req' \in {"none", req}
    BY <1>7 DEF PowerOn
  <2>5. RestOK'
    BY <2>3, <2>4, <1>7, <1>0 DEF PowerOn, RestOK, stateVars
  <2> QED
    BY <2>2, <2>5, TypeParts
<1>8. CASE PowerQuery
  <2>1. \/ CallSetRadioState(Loop, "ON", "idle")
        \/ Goto(Loop, "idle") /\ UNCHANGED frame
    BY <1>8 DEF PowerQuery, Complete
  <2>2. pc' \in [Threads -> Pcs] /\ frame' \in [Threads -> Frames]
    BY <2>1, <1>0, <1>c, CallType, GotoType
  <2>3. blind' \in BOOLEAN
    BY <1>8 DEF PowerQuery
  <2>4. req' = "none"
    BY <1>8 DEF PowerQuery, Complete
  <2>5. RestOK'
    BY <2>3, <2>4, <1>8, <1>0 DEF PowerQuery, RestOK, stateVars, modemVars
  <2> QED
    BY <2>2, <2>5, TypeParts
<1> QED
  BY <1>1, <1>2, <1>3, <1>4, <1>5, <1>6, <1>7, <1>8 DEF LoopStep

\* What the other steps keep; at_open() needs a session that is left.
LEMMA OtherType ==
  ASSUME TypeOK, FreshReaders,
         \/ \E q \in {"on", "off", "sim", "other"} : OnRequest(q)
         \/ \E s \in Readers : ReaderStep(s)
         \/ MainStep
         \/ Hangup
         \/ RadioGoesOff
  PROVE  Typed'
<1>0. RestOK /\ pc \in [Threads -> Pcs] /\ frame \in [Threads -> Frames]
  BY TypeParts
<1>1. ASSUME NEW q \in {"on", "off", "sim", "other"}, OnRequest(q)
      PROVE  Typed'
  <2>1. pc' \in [Threads -> Pcs] /\ UNCHANGED frame
    <3>1. \E p \in {"idle", "power", "request"} : Goto(Loop, p)
      BY <1>1 DEF OnRequest
    <3> QED
      BY <3>1, <1>1, PcsFact, GotoType DEF OnRequest
  <2>2. requests' \in 0 .. MaxRequests
    BY <1>1, <1>0, LifecycleAssumption
       DEF OnRequest, RestOK, LifecycleAssumption
  <2>3. req' \in {"none", q}
    BY <1>1 DEF OnRequest
  <2>4. RestOK'
    BY <2>2, <2>3, <1>1, <1>0 DEF OnRequest, RestOK, stateVars, modemVars
  <2> QED
    BY <2>1, <2>4, <1>0, TypeParts
<1>2. ASSUME NEW s \in Readers, ReaderStep(s)
      PROVE  Typed'
  <2>0. s \in Threads /\ s \in 0 .. MaxSessions /\ 0 \in 0 .. MaxSessions
    BY LifecycleAssumption DEF Threads, Readers, LifecycleAssumption
  <2>c. /\ "unlock" \in ReaderPcs /\ "dead" \in ReaderPcs
        /\ "OFF" \in RadioStates /\ "UNAVAILABLE" \in RadioStates
        /\ "read" \in Pcs /\ "closed" \in Pcs
    BY PcsFact DEF ReaderPcs, RadioStates
  <2>1. CASE ReadCfunOff(s)
    <3>1. \/ UNCHANGED <<pc, frame, cmdmutex>>
          \/ CallSetRadioState(s, "OFF", "unlock") /\ cmdmutex' = s
      BY <2>1 DEF ReadCfunOff
    <3>2. pc' \in [Threads -> Pcs] /\ frame' \in [Threads -> Frames]
      BY <3>1, <1>0, <2>0, <2>c, CallType
    <3>3. offs' \in Nat
      BY <2>1, <1>0 DEF ReadCfunOff, RestOK
    <3>4. cmdmutex' \in {cmdmutex, s}
      BY <3>1
    <3>5. RestOK'
      BY <3>3, <3>4, <2>0, <2>1, <1>0
         DEF ReadCfunOff, RestOK, stateVars, history
    <3> QED
      BY <3>2, <3>5, TypeParts
  <2>2. CASE Unlock(s)
    <3>1. pc' \in [Threads -> Pcs] /\ UNCHANGED frame
      BY <2>2, <2>0, <2>c, GotoType DEF Unlock
    <3>2. RestOK'
      BY <2>0, <2>2, <1>0 DEF Unlock, RestOK, stateVars, modemVars, history
    <3> QED
      BY <3>1, <3>2, <1>0, TypeParts
  <2>3. CASE ReaderClosed(s)
    <3>1. pc' \in [Threads -> Pcs] /\ UNCHANGED frame
      BY <2>3, <2>0, <2>c, GotoType DEF ReaderClosed
    <3>2. RestOK'
      BY <2>3, <1>0 DEF ReaderClosed, RestOK, stateVars, modemVars, history
    <3> QED
      BY <3>1, <3>2, <1>0, TypeParts
  <2>4. CASE SetClosed(s)
    <3>1. pc' \in [Threads -> Pcs] /\ frame' \in [Threads -> Frames]
      BY <2>4, <2>0, <2>c, CallType DEF SetClosed
    <3>2. RestOK'
      BY <2>4, <1>0 DEF SetClosed, RestOK, modemVars, history
    <3> QED
      BY <3>1, <3>2, TypeParts
  <2> QED
    BY <1>2, <2>1, <2>2, <2>3, <2>4 DEF ReaderStep
<1>3. CASE MainStep
  <2>1. CASE MainOpen \/ MainRequest \/ MainTest
    <3>1. UNCHANGED <<pc, frame>>
      BY <2>1 DEF MainOpen, MainRequest, MainTest
    <3>2. inits' \in Nat
      BY <2>1, <1>0 DEF MainOpen, MainRequest, MainTest, RestOK
    <3>3. s_closed' \in {s_closed, FALSE}
      BY <2>1 DEF MainOpen, MainRequest, MainTest, stateVars
    <3>4. RestOK'
      BY <3>2, <3>3, <2>1, <1>0, ZenonT(60) DEF MainOpen, MainRequest, MainTest, RestOK,
         stateVars, modemVars, history
    <3> QED
      BY <3>1, <3>4, <1>0, TypeParts
  <2>2. CASE MainAtOpen
    <3>1. session' \in 0 .. MaxSessions /\ session + 1 \in Threads
      BY <2>2, <1>0, LifecycleAssumption DEF MainAtOpen, RestOK, FreshReaders,
         Threads, Readers, LifecycleAssumption
    <3>2. pc' \in [Threads -> Pcs] /\ UNCHANGED frame
      <4>1. UNCHANGED pc \/ Goto(session + 1, "read")
        BY <2>2 DEF MainAtOpen
      <4> QED
        BY <2>2, <3>1, <4>1, <1>0, PcsFact, GotoType DEF MainAtOpen
    <3>3. chan' = session'
      BY <2>2 DEF MainAtOpen
    <3>4. RestOK'
      BY <3>1, <3>3, <2>2, <1>0 DEF MainAtOpen, RestOK, stateVars, history
    <3> QED
      BY <3>2, <3>4, <1>0, TypeParts
  <2> QED
    BY <1>3, <2>1, <2>2 DEF MainStep
<1>4. CASE Hangup
  <2>1. RestOK' /\ UNCHANGED <<pc, frame>>
    BY <1>4, <1>0 DEF Hangup, RestOK, stateVars, history
  <2> QED
    BY <2>1, <1>0, TypeParts
<1>5. CASE RadioGoesOff
  <2>1. offs' \in Nat /\ offsSent' \in 0 .. MaxOffs
    BY <1>5, <1>0, LifecycleAssumption
       DEF RadioGoesOff, RestOK, LifecycleAssumption
  <2>2. RestOK' /\ UNCHANGED <<pc, frame>>
    BY <2>1, <1>5, <1>0 DEF RadioGoesOff, RestOK, stateVars, history
  <2> QED
    BY <2>2, <1>0, TypeParts
<1> QED
  BY <1>1, <1>2, <1>3, <1>4, <1>5

\* A step of one thread keeps what TypeOK says of the threads when that
\* thread ends where it may be.
LEMMA OneMoves ==
  ASSUME ThreadsOK, NEW t \in Threads,
         \A u \in Threads \ {t} : pc'[u] = pc[u] /\ frame'[u] = frame[u],
         pc'[t] \in Own(t) \cup CallPcs, frame'[t].then \in Own(t),
         t = Loop => /\ frame'[Loop].then \in {"idle", "initcmds"}
                     /\ req' \in RequestAt(pc'[Loop]),
         t # Loop => UNCHANGED req
  PROVE  ThreadsOK'
<1>1. \A u \in Threads : /\ pc'[u] \in Own(u) \cup CallPcs
                         /\ frame'[u].then \in Own(u)
  BY DEF ThreadsOK
<1>2. /\ frame'[Loop].then \in {"idle", "initcmds"}
      /\ req' \in RequestAt(pc'[Loop])
  BY PcsFact DEF ThreadsOK
<1> QED
  BY <1>1, <1>2 DEF ThreadsOK, Own

\* The request at each control point of the event loop, written out.
LEMMA RequestAtFact ==
  /\ RequestAt("request") = {"sim", "other"}
  /\ RequestAt("power") = {"on", "off"} /\ RequestAt("cfun") = {"on", "off"}
  /\ RequestAt("query") = {"on"}
  /\ \A p \in {"idle", "initcmds"} \cup CallPcs : RequestAt(p) = {"none"}
  BY DEF RequestAt, CallPcs

\* The steps inside setRadioState() and pollSIMState().
LEMMA ThreadKept ==
  ASSUME TypeOK, NEW t \in Threads, ThreadStep(t)
  PROVE  ThreadsOK'
<1>0. ThreadsOK /\ Typed
  BY TypeParts
<1>1. UNCHANGED req /\ pc[t] \in CallPcs
  BY DEF ThreadStep, SetRadioState, AfterSet, AfterNotify, PollTest, PollCpin, CallPcs
<1>2. /\ \A u \in Threads \ {t} : pc'[u] = pc[u] /\ frame'[u] = frame[u]
      /\ frame'[t].then = frame[t].then
  BY DEF TypeOK, ThreadStep, SetRadioState, AfterSet, AfterNotify, PollTest, PollCpin, Goto
<1>3. pc'[t] \in CallPcs \cup {frame[t].then}
  BY DEF TypeOK, ThreadStep, SetRadioState, AfterSet, AfterNotify, PollTest, PollCpin, Goto,
         CallPcs
<1>4. frame[t].then \in Own(t)
  BY <1>0 DEF ThreadsOK
<1>5. ASSUME t = Loop
      PROVE  /\ frame'[Loop].then \in {"idle", "initcmds"}
             /\ req' \in RequestAt(pc'[Loop])
  <2>1. frame[Loop].then \in {"idle", "initcmds"} /\ req \in RequestAt(pc[Loop])
    BY <1>0 DEF ThreadsOK
  <2>2. req = "none"
    BY <1>1, <1>5, <2>1, RequestAtFact
  <2> QED
    BY <1>1, <1>2, <1>3, <1>5, <2>1, <2>2, RequestAtFact
<1> QED
  BY <1>0, <1>1, <1>2, <1>3, <1>4, <1>5, OneMoves

\* The event loop's own steps: every path that ends a request completes it.
LEMMA LoopKept ==
  ASSUME TypeOK, LoopStep \/ \E q \in {"on", "off", "sim", "other"} : OnRequest(q)
  PROVE  ThreadsOK'
<1>0. ThreadsOK /\ Typed
  BY TypeParts
<1>1. Loop \in Threads /\ pc \in [Threads -> Pcs] /\ frame \in [Threads -> Frames]
  BY <1>0, PcsFact, TypeParts
<1>2. frame[Loop].then \in {"idle", "initcmds"} /\ req \in RequestAt(pc[Loop])
  BY <1>0 DEF ThreadsOK
<1>d. {"idle", "initcmds"} \subseteq Own(Loop) /\ LoopPcs \subseteq Own(Loop)
  BY DEF Own, LoopPcs
<1>3. ASSUME NEW p, p \in LoopPcs \cup {"poll"}, Goto(Loop, p), UNCHANGED frame,
             req' \in RequestAt(p)
      PROVE  ThreadsOK'
  <2>1. /\ pc'[Loop] = p
        /\ \A u \in Threads \ {Loop} : pc'[u] = pc[u] /\ frame'[u] = frame[u]
    BY <1>1, <1>3, GotoOther
  <2>2. pc'[Loop] \in Own(Loop) \cup CallPcs
    BY <1>3, <2>1, <1>d DEF CallPcs
  <2>3. frame'[Loop].then \in {"idle", "initcmds"}
    BY <1>2, <1>3
  <2> QED
    BY <1>0, <1>1, <1>3, <1>d, <2>1, <2>2, <2>3, OneMoves
<1>4. ASSUME NEW new, NEW p, p \in {"idle", "initcmds"}, CallSetRadioState(Loop, new, p),
             req' = "none"
      PROVE  ThreadsOK'
  <2>1. /\ pc'[Loop] = "set"
        /\ frame'[Loop] = [new |-> new, old |-> sState, then |-> p]
        /\ \A u \in Threads \ {Loop} : pc'[u] = pc[u] /\ frame'[u] = frame[u]
    BY <1>1, <1>4, CallOther
  <2>2. frame'[Loop].then = p /\ "set" \in CallPcs
    BY <2>1 DEF CallPcs
  <2>3. req' \in RequestAt(pc'[Loop])
    BY <1>4, <2>1, <2>2, RequestAtFact
  <2> QED
    BY <1>0, <1>1, <1>4, <1>d, <2>1, <2>2, <2>3, OneMoves
<1>5. CASE LoopInit
  <2>1. CallSetRadioState(Loop, "OFF", "initcmds") /\ req' = req /\ pc[Loop] = "idle"
    BY <1>5 DEF LoopInit
  <2> QED
    BY <1>2, <1>4, <2>1, RequestAtFact
<1>6. CASE InitCommands
  <2>1. /\ \/ CallSetRadioState(Loop, "ON", "idle")
           \/ Goto(Loop, "idle") /\ UNCHANGED frame
        /\ req' = req /\ pc[Loop] = "initcmds"
    BY <1>6 DEF InitCommands
  <2>2. req' = "none" /\ req' \in RequestAt("idle") /\ "idle" \in LoopPcs
    BY <1>2, <2>1, RequestAtFact DEF LoopPcs
  <2> QED
    BY <1>3, <1>4, <2>1, <2>2
<1>7. CASE LoopPoll
  <2>1. /\ Goto(Loop, "poll") /\ frame' = [frame EXCEPT ![Loop].then = "idle"]
        /\ req' = req /\ pc[Loop] = "idle"
    BY <1>7 DEF LoopPoll
  <2>2. /\ pc'[Loop] = "poll" /\ frame'[Loop].then = "idle"
        /\ \A u \in Threads \ {Loop} : pc'[u] = pc[u] /\ frame'[u] = frame[u]
    BY <1>1, <2>1 DEF Goto, Frames
  <2>3. req' \in RequestAt("poll") /\ "poll" \in CallPcs
    BY <1>2, <2>1, RequestAtFact DEF CallPcs
  <2> QED
    BY <1>0, <1>1, <1>d, <2>2, <2>3, OneMoves
<1>8. CASE Request \/ PowerTest \/ \E q \in {"on", "off", "sim", "other"} : OnRequest(q)
  <2>1. UNCHANGED frame
    BY <1>8 DEF Request, PowerTest, OnRequest
  <2>2. \E p \in {"idle", "cfun", "power", "request"} :
          Goto(Loop, p) /\ req' \in RequestAt(p)
    <3>1. CASE Request
      BY <3>1, RequestAtFact DEF Request, Complete
    <3>2. CASE PowerTest
      <4>1. req \in {"on", "off"}
        BY <3>2, <1>2, RequestAtFact DEF PowerTest
      <4> QED
        BY <3>2, <4>1, RequestAtFact DEF PowerTest, Complete
    <3>3. ASSUME NEW q \in {"on", "off", "sim", "other"}, OnRequest(q)
          PROVE  \E p \in {"idle", "cfun", "power", "request"} :
                   Goto(Loop, p) /\ req' \in RequestAt(p)
      BY <3>3, RequestAtFact DEF OnRequest
    <3> QED
      BY <1>8, <3>1, <3>2, <3>3
  <2>3. {"idle", "cfun", "power", "request"} \subseteq LoopPcs
    BY DEF LoopPcs
  <2> QED
    BY <1>3, <2>1, <2>2, <2>3
<1>9. CASE PowerOff \/ PowerOn \/ PowerQuery
  <2>1. req' = req \/ req' = "none"
    BY <1>9 DEF PowerOff, PowerOn, PowerQuery, Complete
  <2>2. \/ \E new : CallSetRadioState(Loop, new, "idle") /\ req' = "none"
        \/ Goto(Loop, "idle") /\ UNCHANGED frame /\ req' = "none"
        \/ PowerOn /\ Goto(Loop, "query") /\ UNCHANGED frame /\ req' = req
    BY <1>9 DEF PowerOff, PowerOn, PowerQuery, Complete
  <2>3. /\ req' = "none" => req' \in RequestAt("idle")
        /\ PowerOn /\ req' = req => req' \in RequestAt("query")
        /\ {"idle", "query"} \subseteq LoopPcs
    BY RequestAtFact DEF PowerOn, LoopPcs
  <2> QED
    BY <1>3, <1>4, <2>2, <2>3
<1> QED
  BY <1>5, <1>6, <1>7, <1>8, <1>9 DEF LoopStep

\* The steps of the readers, of mainLoop and of the modem.
LEMMA OtherKept ==
  ASSUME TypeOK, FreshReaders,
         \/ \E s \in Readers : ReaderStep(s)
         \/ MainStep
         \/ Hangup
         \/ RadioGoesOff
         \/ UNCHANGED vars
  PROVE  ThreadsOK'
<1>0. ThreadsOK /\ Typed
  BY TypeParts
<1>r. \A s \in Readers : s \in Threads /\ s # Loop /\ Own(s) = ReaderPcs
  BY PcsFact DEF Own, Loop
<1>1. ASSUME NEW s \in Readers, ReaderStep(s)
      PROVE  ThreadsOK'
  <2>0. UNCHANGED req
    BY <1>1 DEF ReaderStep, ReadCfunOff, Unlock, ReaderClosed, SetClosed
  <2>1. CASE UNCHANGED <<pc, frame>>
    BY <1>0, <2>0, <2>1 DEF ThreadsOK
  <2>2. ASSUME NEW new, NEW p \in {"unlock", "dead"}, CallSetRadioState(s, new, p)
        PROVE  ThreadsOK'
    <3>1. /\ pc'[s] = "set"
          /\ frame'[s] = [new |-> new, old |-> sState, then |-> p]
          /\ \A u \in Threads \ {s} : pc'[u] = pc[u] /\ frame'[u] = frame[u]
      BY <1>r, <2>2, CallOther
    <3>2. frame'[s].then \in ReaderPcs /\ pc'[s] \in CallPcs
      BY <3>1 DEF CallPcs, ReaderPcs
    <3> QED
      BY <1>0, <1>r, <2>0, <3>1, <3>2, OneMoves
  <2>3. ASSUME NEW p \in {"read", "closed"}, Goto(s, p), UNCHANGED frame
        PROVE  ThreadsOK'
    <3>1. /\ pc'[s] = p
          /\ \A u \in Threads \ {s} : pc'[u] = pc[u] /\ frame'[u] = frame[u]
      BY <1>r, <2>3, GotoOther
    <3>2. pc'[s] \in ReaderPcs /\ frame'[s].then \in Own(s)
      BY <1>0, <1>r, <2>3, <3>1 DEF ReaderPcs, ThreadsOK
    <3> QED
      BY <1>0, <1>r, <2>0, <3>1, <3>2, OneMoves
  <2>4. \/ UNCHANGED <<pc, frame>>
        \/ \E new, p \in {"unlock", "dead", "OFF", "UNAVAILABLE"} :
             p \in {"unlock", "dead"} /\ CallSetRadioState(s, new, p)
        \/ UNCHANGED frame /\ \E p \in {"read", "closed"} : Goto(s, p)
    BY <1>1 DEF ReaderStep, ReadCfunOff, Unlock, ReaderClosed, SetClosed
  <2> QED
    BY <2>1, <2>2, <2>3, <2>4
<1>2. CASE MainAtOpen
  <2>1. session + 1 \in Readers
    BY <1>2, <1>0, LifecycleAssumption, TypeParts DEF MainAtOpen, RestOK, FreshReaders, Readers
  <2>2. UNCHANGED <<frame, req>> /\ (UNCHANGED pc \/ Goto(session + 1, "read"))
    BY <1>2 DEF MainAtOpen
  <2>3. CASE UNCHANGED pc
    BY <1>0, <2>2, <2>3 DEF ThreadsOK
  <2>4. CASE Goto(session + 1, "read")
    <3>1. /\ pc'[session + 1] = "read"
          /\ \A u \in Threads \ {session + 1} : pc'[u] = pc[u] /\ frame'[u] = frame[u]
      BY <1>r, <2>1, <2>2, <2>4, GotoOther
    <3>2. pc'[session + 1] \in ReaderPcs /\ frame'[session + 1].then \in Own(session + 1)
      BY <1>0, <1>r, <2>1, <2>2, <3>1 DEF ReaderPcs, ThreadsOK
    <3> QED
      BY <1>0, <1>r, <2>1, <2>2, <3>1, <3>2, OneMoves
  <2> QED
    BY <2>2, <2>3, <2>4
<1>3. CASE MainOpen \/ MainRequest \/ MainTest \/ Hangup \/ RadioGoesOff \/ UNCHANGED vars
  <2>1. UNCHANGED <<pc, frame, req>>
    BY <1>3 DEF MainOpen, MainRequest, MainTest, Hangup, RadioGoesOff, vars
  <2> QED
    BY <1>0, <2>1 DEF ThreadsOK
<1> QED
  BY <1>1, <1>2, <1>3 DEF MainStep

-----------------------------------------------------------------------------
(* The close                                                               *)

\* Every step keeps the inductive invariant.
LEMMA NextIInv == IInv /\ [Next]_vars => IInv'
<1> SUFFICES ASSUME IInv, [Next]_vars
             PROVE  IInv'
  OBVIOUS
<1>a. TypeOK /\ FreshReaders /\ ClosedUnavailable
  BY DEF IInv
<1>1. ASSUME NEW t \in Threads, ThreadStep(t)
      PROVE  IInv'
  <2>1. TypeOK'
    BY <1>1, <1>a, ThreadType, ThreadKept, TypeParts
  <2>2. CASE SetRadioState(t)
    <3>1. \A u \in Threads : pc'[u] = "none" <=> pc[u] = "none"
      BY <2>2, <1>a DEF SetRadioState, Goto, TypeOK
    <3>2. FreshReaders'
      BY <3>1, <2>2, <1>a, PcsFact DEF SetRadioState, FreshReaders
    <3>3. ClosedUnavailable'
      BY <2>2 DEF SetRadioState, ClosedUnavailable
    <3> QED
      BY <2>1, <3>2, <3>3 DEF IInv
  <2>3. CASE ~SetRadioState(t)
    <3>1. /\ pc[t] \notin {"set", "none"}
          /\ UNCHANGED <<sState, s_closed, session, main, frame>>
          /\ \E p : Goto(t, p)
      BY <1>1, <2>3 DEF ThreadStep, AfterSet, AfterNotify, PollTest, PollCpin,
         stateVars
    <3>2. \A u \in Threads \ {t} : pc'[u] = pc[u] /\ frame'[u] = frame[u]
      BY <3>1, <1>a, GotoOther
    <3> QED
      BY <2>1, <3>1, <3>2, <1>a, CloserStays DEF IInv
  <2> QED
    BY <2>2, <2>3
<1>2. CASE LoopStep
  <2>1. TypeOK'
    BY <1>2, <1>a, LoopType, LoopKept, TypeParts
  <2>2. Loop \in Threads
    BY PcsFact
  <2>3. /\ pc[Loop] \notin {"set", "none"}
        /\ UNCHANGED <<sState, s_closed, session, main>>
    BY <1>2 DEF LoopStep, LoopInit, InitCommands, LoopPoll, Request, PowerTest,
       PowerOff, PowerOn, PowerQuery, stateVars
  <2>4. \/ \E new, p : CallSetRadioState(Loop, new, p)
        \/ UNCHANGED frame /\ \E p : Goto(Loop, p)
        \/ LoopPoll
    BY <1>2 DEF LoopStep, LoopInit, InitCommands, Request, PowerTest, PowerOff,
       PowerOn, PowerQuery, Complete
  <2>5. \A u \in Threads \ {Loop} : pc'[u] = pc[u] /\ frame'[u] = frame[u]
    <3>1. CASE \E new, p : CallSetRadioState(Loop, new, p)
      BY <3>1, <2>2, <1>a, CallOther
    <3>2. CASE UNCHANGED frame /\ \E p : Goto(Loop, p)
      BY <3>2, <2>2, <1>a, GotoOther
    <3>3. CASE LoopPoll
      BY <3>3, <2>2, <1>a DEF LoopPoll, Goto, TypeOK
    <3> QED
      BY <2>4, <3>1, <3>2, <3>3
  <2> QED
    BY <2>1, <2>2, <2>3, <2>5, <1>a, CloserStays DEF IInv
<1>3. ASSUME NEW q \in {"on", "off", "sim", "other"}, OnRequest(q)
      PROVE  IInv'
  <2>1. TypeOK'
    BY <1>3, <1>a, OtherType, LoopKept, TypeParts
  <2>2. /\ pc[Loop] \notin {"set", "none"} /\ Loop \in Threads
        /\ UNCHANGED <<sState, s_closed, session, main, frame>>
        /\ \E p : Goto(Loop, p)
    BY <1>3, PcsFact DEF OnRequest, stateVars
  <2>3. \A u \in Threads \ {Loop} : pc'[u] = pc[u] /\ frame'[u] = frame[u]
    BY <2>2, <1>a, GotoOther
  <2> QED
    BY <2>1, <2>2, <2>3, <1>a, CloserStays DEF IInv
<1>4. ASSUME NEW s \in Readers, ReaderStep(s)
      PROVE  IInv'
  <2>1. TypeOK'
    BY <1>4, <1>a, OtherType, OtherKept, TypeParts
  <2>2. /\ pc[s] \notin {"set", "none"} /\ s \in Threads
        /\ UNCHANGED <<sState, session, main>>
    BY <1>4, PcsFact
       DEF ReaderStep, ReadCfunOff, Unlock, ReaderClosed, SetClosed, stateVars
  <2>3. \A u \in Threads \ {s} : pc'[u] = pc[u] /\ frame'[u] = frame[u]
    <3>1. \/ UNCHANGED <<pc, frame>>
          \/ \E new, p : CallSetRadioState(s, new, p)
          \/ UNCHANGED frame /\ \E p : Goto(s, p)
      BY <1>4
         DEF ReaderStep, ReadCfunOff, Unlock, ReaderClosed, SetClosed
    <3> QED
      BY <3>1, <2>2, <1>a, CallOther, GotoOther
  <2>4. CASE SetClosed(s)
    <3>1. pc'[s] = "set" /\ frame'[s].then = "dead"
      <4>1. CallSetRadioState(s, "UNAVAILABLE", "dead")
        BY <2>4 DEF SetClosed
      <4>2. /\ pc'[s] = "set"
            /\ frame'[s] = [new |-> "UNAVAILABLE", old |-> sState,
                            then |-> "dead"]
        BY <4>1, <2>2, <1>a, CallOther
      <4> QED
        BY <4>2
    <3>2. ClosedUnavailable'
      BY <3>1 DEF ClosedUnavailable
    <3>3. FreshReaders'
      BY <2>2, <2>3, <1>a, PcsFact DEF FreshReaders
    <3> QED
      BY <2>1, <3>2, <3>3 DEF IInv
  <2>5. CASE ~SetClosed(s)
    <3>1. UNCHANGED s_closed
      BY <1>4, <2>5
         DEF ReaderStep, ReadCfunOff, Unlock, ReaderClosed, stateVars
    <3> QED
      BY <2>1, <2>2, <2>3, <3>1, <1>a, CloserStays DEF IInv
  <2> QED
    BY <2>4, <2>5
<1>5. CASE MainStep
  <2>1. TypeOK'
    BY <1>5, <1>a, OtherType, OtherKept, TypeParts
  <2>2. CASE MainOpen \/ MainRequest \/ MainTest
    <3>1. FreshReaders'
      BY <2>2, <1>a DEF MainOpen, MainRequest, MainTest, FreshReaders
    <3>2. ClosedUnavailable'
      BY <2>2, <1>a DEF MainOpen, MainRequest, MainTest, ClosedUnavailable,
         stateVars
    <3> QED
      BY <2>1, <3>1, <3>2 DEF IInv
  <2>3. CASE MainAtOpen
    <3>1. /\ session \in Nat /\ session' = session + 1
          /\ session + 1 \in Readers /\ pc[session + 1] = "none"
      BY <2>3, <1>a, LifecycleAssumption DEF MainAtOpen, TypeOK, FreshReaders,
         Readers, LifecycleAssumption
    <3>2. \A u \in Threads \ {session + 1} :
            pc'[u] = pc[u] /\ frame'[u] = frame[u]
      <4>1. UNCHANGED frame /\ (UNCHANGED pc \/ Goto(session + 1, "read"))
        BY <2>3 DEF MainAtOpen
      <4> QED
        BY <3>1, <4>1, <1>a, PcsFact, GotoOther
    <3>3. FreshReaders'
      BY <2>3, <3>1, <3>2, <1>a, PcsFact
         DEF MainAtOpen, FreshReaders, Readers
    <3>4. ClosedUnavailable'
      BY <2>3, <3>1, <3>2, <1>a, PcsFact
         DEF MainAtOpen, ClosedUnavailable, stateVars
    <3> QED
      BY <2>1, <3>3, <3>4 DEF IInv
  <2> QED
    BY <1>5, <2>2, <2>3 DEF MainStep
<1>6. CASE Hangup \/ RadioGoesOff
  <2>1. TypeOK'
    BY <1>6, <1>a, OtherType, OtherKept, TypeParts
  <2>2. FreshReaders' /\ ClosedUnavailable'
    BY <1>6, <1>a DEF Hangup, RadioGoesOff, FreshReaders, ClosedUnavailable,
       stateVars
  <2> QED
    BY <2>1, <2>2 DEF IInv
<1>7. CASE UNCHANGED vars
  <2>1. UNCHANGED <<sState, s_closed, session, chan, hung, main, pc, frame, req,
                    inits, polls, cmdmutex, radioOn, offs, requests, offsSent,
                    reported, blind>>
    BY <1>7 DEF vars, stateVars, modemVars, history
  <2>2. TypeOK'
    BY <2>1, <1>a DEF TypeOK
  <2>3. FreshReaders' /\ ClosedUnavailable'
    BY <2>1, <1>a DEF FreshReaders, ClosedUnavailable
  <2> QED
    BY <2>2, <2>3 DEF IInv
<1> QED
  BY <1>1, <1>2, <1>3, <1>4, <1>5, <1>6, <1>7 DEF Next

\* Type correctness of the radio state, of the control points of every
\* thread and of their setRadioState() activations, however many sessions
\* mainLoop opens.
THEOREM LifecycleTypeCorrect == Spec => []TypeOK
<1>1. IInv => TypeOK
  BY DEF IInv
<1> QED
  BY <1>1, InitIInv, NextIInv, PTL DEF Spec

\* Once onATReaderClosed() has set s_closed, the radio is UNAVAILABLE or
\* the closing reader is about to say so: setRadioState() calls of the event
\* loop that race with the close cannot turn it ON.
THEOREM CloseUnavailable == Spec => []ClosedUnavailable
<1>1. IInv => ClosedUnavailable
  BY DEF IInv
<1> QED
  BY <1>1, InitIInv, NextIInv, PTL DEF Spec
-----------------------------------------------------------------------------
(* The radio state and the modem                                           *)

\* As long as the modem has not switched off by itself no line says so, and a
\* reader only sets the radio UNAVAILABLE.
QuietReaders ==
  offs = 0 /\ \A s \in Readers : pc[s] = "set" => frame[s].new = "UNAVAILABLE"

\* The event loop is about to say what the modem has told it, or is at the
\* beginning of initializeCallback().
Truthful ==
  pc[Loop] = "set" =>
    \/ frame[Loop].new = "ON" /\ radioOn
    \/ frame[Loop].new = "OFF" /\ (frame[Loop].then = "initcmds" \/ ~radioOn)

\* An ON that the modem does not share dates from a command that the close cut
\* off, and the initialization of the next session is still to come.
OnAgrees ==
  sState = "ON" /\ ~radioOn =>
    \/ chan = 0 \/ main \in {"request", "ended"} \/ inits > 0
    \/ pc[Loop] = "set" /\ frame[Loop].new = "OFF"

\* An OFF that the modem does not share is one that initializeCallback() has
\* set and not yet verified, or one before the second look.
OffAgrees ==
  sState = "OFF" /\ ~blind /\ radioOn =>
    \/ pc[Loop] \in {"initcmds", "query"}
    \/ pc[Loop] \in CallPcs /\ frame[Loop].then = "initcmds"
    \/ pc[Loop] = "set" /\ frame[Loop].new = "ON"

AgreeInv == offsSent = 0 => QuietReaders /\ Truthful /\ OnAgrees /\ OffAgrees

\* A call of setRadioState() by the event loop.
LEMMA LoopCalls ==
  ASSUME TypeOK, NEW new, NEW p, CallSetRadioState(Loop, new, p)
  PROVE  /\ pc'[Loop] = "set" /\ frame'[Loop].new = new /\ frame'[Loop].then = p
         /\ \A s \in Readers : pc'[s] = pc[s] /\ frame'[s] = frame[s]
<1>1. /\ \A u \in Threads \ {Loop} : pc'[u] = pc[u] /\ frame'[u] = frame[u]
      /\ pc'[Loop] = "set"
      /\ frame'[Loop] = [new |-> new, old |-> sState, then |-> p]
  BY PcsFact, CallOther
<1>2. frame'[Loop].new = new /\ frame'[Loop].then = p
  BY <1>1
<1>3. \A s \in Readers : s \in Threads \ {Loop}
  BY PcsFact DEF Loop
<1> QED
  BY <1>1, <1>2, <1>3

\* A jump of the event loop.
LEMMA LoopGoes ==
  ASSUME TypeOK, NEW p, Goto(Loop, p), UNCHANGED frame
  PROVE  /\ pc'[Loop] = p /\ frame'[Loop] = frame[Loop]
         /\ \A s \in Readers : pc'[s] = pc[s] /\ frame'[s] = frame[s]
<1>1. /\ \A u \in Threads \ {Loop} : pc'[u] = pc[u] /\ frame'[u] = frame[u]
      /\ pc'[Loop] = p
  BY PcsFact, GotoOther
<1>2. \A s \in Readers : s \in Threads \ {Loop}
  BY PcsFact DEF Loop
<1> QED
  BY <1>1, <1>2

\* The steps inside setRadioState() and pollSIMState().
LEMMA AgreeThread ==
  ASSUME IInv, AgreeInv, NEW t \in Threads, ThreadStep(t), offsSent' = 0
  PROVE  QuietReaders' /\ Truthful' /\ OnAgrees' /\ OffAgrees'
<1>u. UNCHANGED <<chan, inits, radioOn, offs, offsSent, blind>>
  BY DEF ThreadStep, SetRadioState, AfterSet, AfterNotify, PollTest, PollCpin, modemVars, history
<1>i. /\ TypeOK /\ QuietReaders /\ Truthful /\ OnAgrees /\ OffAgrees
  BY <1>u DEF AgreeInv, IInv
<1>m. main' = main \/ (main = "wait" /\ main' = "test")
  BY DEF ThreadStep, SetRadioState, AfterSet, AfterNotify, PollTest, PollCpin
<1>o. \A u \in Threads \ {t} : pc'[u] = pc[u] /\ frame'[u] = frame[u]
  BY <1>i DEF TypeOK, ThreadStep, SetRadioState, AfterSet, AfterNotify, PollTest, PollCpin, Goto
<1>p. pc'[t] # "set"
  <2>1. frame[t].then \in LoopPcs \cup ReaderPcs
    BY <1>i DEF TypeOK
  <2>2. frame[t].then # "set"
    BY <2>1 DEF LoopPcs, ReaderPcs
  <2>3. CASE SetRadioState(t)
    BY <1>i, <2>3 DEF TypeOK, SetRadioState, Goto
  <2>4. CASE AfterSet(t) \/ AfterNotify(t) \/ PollTest(t)
    BY <1>i, <2>2, <2>4 DEF TypeOK, AfterSet, AfterNotify, PollTest, Goto
  <2>5. ASSUME NEW sim \in SimStatuses, PollCpin(t, sim) PROVE pc'[t] # "set"
    BY <1>i, <2>2, <2>5 DEF TypeOK, PollCpin, Goto
  <2> QED
    BY <2>3, <2>4, <2>5 DEF ThreadStep
<1>q. QuietReaders'
  BY <1>i, <1>u, <1>o, <1>p, PcsFact DEF QuietReaders
<1>1. CASE ~SetRadioState(t)
  <2>1. sState' = sState /\ frame' = frame
    BY <1>1 DEF ThreadStep, AfterSet, AfterNotify, PollTest, PollCpin, stateVars
  <2>2. CASE t # Loop
    <3>1. pc'[Loop] = pc[Loop] /\ frame'[Loop] = frame[Loop]
      BY <1>o, <2>2, PcsFact
    <3> QED
      BY <1>i, <1>u, <1>m, <1>q, <2>1, <3>1 DEF Truthful, OnAgrees, OffAgrees
  <2>3. CASE t = Loop
    <3>1. pc[Loop] \in {"after", "notify", "poll", "cpin"}
      BY <1>1, <2>3 DEF ThreadStep, AfterSet, AfterNotify, PollTest, PollCpin
    <3>2. pc'[Loop] \in {"notify", "poll", "cpin"} \/ pc'[Loop] = frame[Loop].then
      BY <1>1, <1>i, <2>3, PcsFact
         DEF TypeOK, ThreadStep, AfterSet, AfterNotify, PollTest, PollCpin, Goto
    <3>3. Truthful' /\ OnAgrees'
      BY <1>i, <1>u, <1>m, <1>p, <2>1, <2>3, <3>1 DEF Truthful, OnAgrees
    <3>4. OffAgrees'
      BY <1>i, <1>u, <2>1, <3>1, <3>2 DEF OffAgrees, CallPcs
    <3> QED
      BY <1>q, <3>3, <3>4
  <2> QED
    BY <2>2, <2>3
<1>2. CASE SetRadioState(t)
  <2>1. /\ pc[t] = "set" /\ pc'[t] = "after"
        /\ sState' = (IF s_closed THEN "UNAVAILABLE" ELSE frame[t].new)
    BY <1>2, <1>i DEF SetRadioState, Goto, TypeOK
  <2>2. frame'[t].then = frame[t].then
    BY <1>2, <1>i DEF SetRadioState, TypeOK
  <2>3. CASE t # Loop
    <3>1. pc'[Loop] = pc[Loop] /\ frame'[Loop] = frame[Loop]
      BY <1>o, <2>3, PcsFact
    <3>2. sState' = "UNAVAILABLE"
      BY <1>i, <2>1, <2>3 DEF QuietReaders, Threads
    <3> QED
      BY <1>i, <1>u, <1>q, <3>1, <3>2 DEF Truthful, OnAgrees, OffAgrees
  <2>4. CASE t = Loop
    <3>1. sState' = "ON" => radioOn
      BY <1>i, <2>1, <2>4 DEF Truthful
    <3>2. sState' = "OFF" /\ radioOn => frame[Loop].then = "initcmds"
      BY <1>i, <2>1, <2>4 DEF Truthful
    <3> QED
      BY <1>u, <1>q, <2>1, <2>2, <2>4, <3>1, <3>2 DEF Truthful, OnAgrees, OffAgrees, CallPcs
  <2> QED
    BY <2>3, <2>4
<1> QED
  BY <1>1, <1>2

\* The event loop's own steps.
LEMMA AgreeLoop ==
  ASSUME IInv, AgreeInv, offsSent' = 0, LoopStep \/ \E q \in {"on", "off", "sim", "other"} : OnRequest(q)
  PROVE  QuietReaders' /\ Truthful' /\ OnAgrees' /\ OffAgrees'
<1>u. UNCHANGED <<sState, chan, main, offs, offsSent>>
  BY DEF LoopStep, LoopInit, InitCommands, LoopPoll, Request, PowerTest, PowerOff, PowerOn,
         PowerQuery, OnRequest, stateVars, modemVars
<1>i. /\ TypeOK /\ QuietReaders /\ Truthful /\ OnAgrees /\ OffAgrees
  BY <1>u DEF AgreeInv, IInv
<1>1. CASE LoopInit
  <2>1. CallSetRadioState(Loop, "OFF", "initcmds") /\ UNCHANGED <<radioOn, blind>>
    BY <1>1 DEF LoopInit, modemVars, history
  <2>2. /\ pc'[Loop] = "set" /\ frame'[Loop].new = "OFF" /\ frame'[Loop].then = "initcmds"
        /\ \A s \in Readers : pc'[s] = pc[s] /\ frame'[s] = frame[s]
    BY <1>i, <2>1, LoopCalls
  <2> QED
    BY <1>i, <1>u, <2>1, <2>2 DEF QuietReaders, Truthful, OnAgrees, OffAgrees, CallPcs
<1>2. CASE InitCommands \/ PowerQuery
  <2>1. PICK r \in {"ok", "error", "closed"} :
          /\ blind' = (r # "ok")
          /\ \/ IsRadioOn(r) /\ CallSetRadioState(Loop, "ON", "idle")
             \/ ~IsRadioOn(r) /\ Goto(Loop, "idle") /\ UNCHANGED frame
    BY <1>2 DEF InitCommands, PowerQuery, Complete
  <2>u. UNCHANGED <<radioOn, inits>> /\ pc[Loop] \in {"initcmds", "query"}
    BY <1>2 DEF InitCommands, PowerQuery, modemVars
  <2>2. CASE IsRadioOn(r)
    <3>1. /\ pc'[Loop] = "set" /\ frame'[Loop].new = "ON"
          /\ \A s \in Readers : pc'[s] = pc[s] /\ frame'[s] = frame[s]
      BY <1>i, <2>1, <2>2, LoopCalls
    <3>2. radioOn
      BY <2>2 DEF IsRadioOn
    <3> QED
      BY <1>i, <1>u, <2>u, <3>1, <3>2 DEF QuietReaders, Truthful, OnAgrees, OffAgrees
  <2>3. CASE ~IsRadioOn(r)
    <3>1. /\ pc'[Loop] = "idle"
          /\ \A s \in Readers : pc'[s] = pc[s] /\ frame'[s] = frame[s]
      BY <1>i, <2>1, <2>3, LoopGoes
    <3>2. blind' \/ ~radioOn
      BY <2>1, <2>3 DEF IsRadioOn
    <3> QED
      BY <1>i, <1>u, <2>u, <3>1, <3>2 DEF QuietReaders, Truthful, OnAgrees, OffAgrees
  <2> QED
    BY <2>2, <2>3
<1>3. CASE LoopPoll
  <2>1. /\ pc[Loop] = "idle" /\ pc'[Loop] = "poll" /\ UNCHANGED <<radioOn, blind, inits>>
        /\ \A u \in Threads \ {Loop} : pc'[u] = pc[u] /\ frame'[u] = frame[u]
    BY <1>3, <1>i, PcsFact DEF LoopPoll, Goto, TypeOK, modemVars, history
  <2>2. \A s \in Readers : pc'[s] = pc[s] /\ frame'[s] = frame[s]
    BY <2>1, PcsFact DEF Loop
  <2> QED
    BY <1>i, <1>u, <2>1, <2>2 DEF QuietReaders, Truthful, OnAgrees, OffAgrees, CallPcs
<1>4. CASE Request \/ PowerTest \/ \E q \in {"on", "off", "sim", "other"} : OnRequest(q)
  <2>1. /\ \E p \in {"idle", "cfun", "power", "request"} : Goto(Loop, p)
        /\ UNCHANGED <<frame, radioOn, blind, inits>>
        /\ pc[Loop] \in {"idle", "request", "power"}
    BY <1>4 DEF Request, PowerTest, OnRequest, Complete, modemVars, history
  <2>2. /\ pc'[Loop] \in {"idle", "cfun", "power", "request"}
        /\ \A s \in Readers : pc'[s] = pc[s] /\ frame'[s] = frame[s]
    BY <1>i, <2>1, LoopGoes
  <2> QED
    BY <1>i, <1>u, <2>1, <2>2 DEF QuietReaders, Truthful, OnAgrees, OffAgrees, CallPcs
<1>5. CASE PowerOff
  <2>1. PICK r \in {"ok", "error", "closed"} :
          /\ Command(Loop, r)
          /\ \/ r = "ok" /\ radioOn' = FALSE
             \/ r = "error" /\ UNCHANGED radioOn
             \/ r = "closed" /\ radioOn' \in {radioOn, FALSE}
          /\ IF r = "ok"
             THEN /\ CallSetRadioState(Loop, "OFF", "idle")
                  /\ blind' = FALSE
                  /\ req' = "none"
             ELSE Complete /\ UNCHANGED <<frame, blind>>
    BY <1>5 DEF PowerOff
  <2>u. inits' = inits /\ pc[Loop] = "cfun"
    BY <1>5 DEF PowerOff
  <2>2. CASE r = "ok"
    <3>1. /\ pc'[Loop] = "set" /\ frame'[Loop].new = "OFF"
          /\ \A s \in Readers : pc'[s] = pc[s] /\ frame'[s] = frame[s]
      BY <1>i, <2>1, <2>2, LoopCalls
    <3>2. ~radioOn'
      BY <2>1, <2>2
    <3> QED
      BY <1>i, <1>u, <2>u, <3>1, <3>2 DEF QuietReaders, Truthful, OnAgrees, OffAgrees
  <2>3. CASE r # "ok"
    <3>1. Goto(Loop, "idle") /\ UNCHANGED <<frame, blind>>
      BY <2>1, <2>3 DEF Complete
    <3>2. /\ pc'[Loop] = "idle"
          /\ \A s \in Readers : pc'[s] = pc[s] /\ frame'[s] = frame[s]
      BY <1>i, <3>1, LoopGoes
    <3>3. r = "closed" => chan = 0
      BY <2>1, PcsFact DEF Command, Loop
    <3>a. radioOn' = radioOn \/ (radioOn' = FALSE /\ r = "closed")
      BY <2>1, <2>3, Zenon
    <3>4. (radioOn' => radioOn) /\ (radioOn /\ ~radioOn' => chan = 0)
      <4>1. CASE radioOn' = radioOn
        BY <4>1
      <4>2. CASE radioOn' = FALSE /\ r = "closed"
        <5>1. chan = 0
          BY <4>2, <3>3
        <5>2. ~radioOn'
          BY <4>2
        <5> QED
          BY <5>1, <5>2
      <4> QED
        BY <3>a, <4>1, <4>2
    <3> QED
      BY <1>i, <1>u, <2>u, <3>1, <3>2, <3>4 DEF QuietReaders, Truthful, OnAgrees, OffAgrees, CallPcs
  <2> QED
    BY <2>2, <2>3
<1>6. CASE PowerOn
  <2>1. PICK r \in {"ok", "error", "closed"} :
          IF r = "ok"
          THEN /\ radioOn' = TRUE
               /\ CallSetRadioState(Loop, "ON", "idle")
               /\ blind' = FALSE
               /\ req' = "none"
          ELSE /\ radioOn' \in {radioOn, TRUE}
               /\ Goto(Loop, "query")
               /\ UNCHANGED <<frame, blind, req>>
    BY <1>6 DEF PowerOn
  <2>u. inits' = inits /\ pc[Loop] = "cfun"
    BY <1>6 DEF PowerOn
  <2>2. CASE r = "ok"
    <3>1. /\ pc'[Loop] = "set" /\ frame'[Loop].new = "ON"
          /\ \A s \in Readers : pc'[s] = pc[s] /\ frame'[s] = frame[s]
      BY <1>i, <2>1, <2>2, LoopCalls
    <3>2. radioOn'
      BY <2>1, <2>2
    <3> QED
      BY <1>i, <1>u, <2>u, <3>1, <3>2 DEF QuietReaders, Truthful, OnAgrees, OffAgrees
  <2>3. CASE r # "ok"
    <3>1. Goto(Loop, "query") /\ UNCHANGED <<frame, blind>> /\ (~radioOn' => ~radioOn)
      BY <2>1, <2>3
    <3>2. /\ pc'[Loop] = "query"
          /\ \A s \in Readers : pc'[s] = pc[s] /\ frame'[s] = frame[s]
      BY <1>i, <3>1, LoopGoes
    <3> QED
      BY <1>i, <1>u, <2>u, <3>1, <3>2 DEF QuietReaders, Truthful, OnAgrees, OffAgrees
  <2> QED
    BY <2>2, <2>3
<1> QED
  BY <1>1, <1>2, <1>3, <1>4, <1>5, <1>6 DEF LoopStep

\* The readers' own steps.
LEMMA AgreeReader ==
  ASSUME IInv, AgreeInv, NEW s \in Readers, ReaderStep(s), offsSent' = 0
  PROVE  QuietReaders' /\ Truthful' /\ OnAgrees' /\ OffAgrees'
<1>u. UNCHANGED <<sState, radioOn, offsSent, blind, main, inits>>
  BY DEF ReaderStep, ReadCfunOff, Unlock, ReaderClosed, SetClosed, stateVars, modemVars, history
<1>c. chan' = chan \/ chan' = 0
  BY DEF ReaderStep, ReadCfunOff, Unlock, ReaderClosed, SetClosed
<1>i. /\ TypeOK /\ QuietReaders /\ Truthful /\ OnAgrees /\ OffAgrees
  BY <1>u DEF AgreeInv, IInv
<1>n. ~ReadCfunOff(s)
  BY <1>i DEF ReadCfunOff, QuietReaders
<1>o. offs' = offs
  BY <1>n DEF ReaderStep, Unlock, ReaderClosed, SetClosed, modemVars
<1>s. s \in Threads /\ s # Loop
  BY PcsFact DEF Loop
<1>1. CASE SetClosed(s)
  <2>1. CallSetRadioState(s, "UNAVAILABLE", "dead")
    BY <1>1 DEF SetClosed
  <2>2. /\ \A u \in Threads \ {s} : pc'[u] = pc[u] /\ frame'[u] = frame[u]
        /\ frame'[s] = [new |-> "UNAVAILABLE", old |-> sState, then |-> "dead"]
    BY <1>i, <1>s, <2>1, CallOther
  <2>3. frame'[s].new = "UNAVAILABLE"
    BY <2>2
  <2>4. pc'[Loop] = pc[Loop] /\ frame'[Loop] = frame[Loop]
    BY <1>s, <2>2, PcsFact
  <2>5. QuietReaders'
    BY <1>i, <1>o, <2>2, <2>3, PcsFact DEF QuietReaders
  <2> QED
    BY <1>i, <1>u, <1>c, <2>4, <2>5 DEF Truthful, OnAgrees, OffAgrees
<1>2. CASE Unlock(s) \/ ReaderClosed(s)
  <2>1. UNCHANGED frame /\ \E p \in {"read", "closed"} : Goto(s, p)
    BY <1>2 DEF Unlock, ReaderClosed
  <2>2. /\ \A u \in Threads \ {s} : pc'[u] = pc[u] /\ frame'[u] = frame[u]
        /\ pc'[s] \in {"read", "closed"}
    BY <1>i, <1>s, <2>1, GotoOther
  <2>4. pc'[Loop] = pc[Loop] /\ frame'[Loop] = frame[Loop]
    BY <1>s, <2>2, PcsFact
  <2>5. QuietReaders'
    BY <1>i, <1>o, <2>2, PcsFact DEF QuietReaders
  <2> QED
    BY <1>i, <1>u, <1>c, <2>4, <2>5 DEF Truthful, OnAgrees, OffAgrees
<1> QED
  BY <1>n, <1>1, <1>2 DEF ReaderStep

\* mainLoop and the modem.
LEMMA AgreeMain ==
  ASSUME IInv, AgreeInv, MainStep \/ Hangup \/ RadioGoesOff \/ UNCHANGED vars, offsSent' = 0
  PROVE  QuietReaders' /\ Truthful' /\ OnAgrees' /\ OffAgrees'
<1>t. TypeOK /\ offsSent \in Nat
  BY LifecycleAssumption DEF IInv, TypeOK
<1>n. ~RadioGoesOff
  BY <1>t DEF RadioGoesOff
<1>u. UNCHANGED <<sState, radioOn, offs, offsSent, blind, frame>>
  BY <1>n DEF MainStep, MainOpen, MainAtOpen, MainRequest, MainTest, Hangup, vars, stateVars,
              modemVars, history
<1>i. /\ TypeOK /\ QuietReaders /\ Truthful /\ OnAgrees /\ OffAgrees
  BY <1>t, <1>u DEF AgreeInv
<1>1. CASE MainAtOpen
  <2>1. /\ session + 1 \in Readers /\ (UNCHANGED pc \/ Goto(session + 1, "read"))
        /\ main' \in {"request", "ended"}
    BY <1>1, <1>t, LifecycleAssumption DEF IInv, FreshReaders, MainAtOpen, TypeOK, Readers
  <2>2. /\ \A u \in Threads \ {session + 1} : pc'[u] = pc[u]
        /\ pc'[session + 1] \in {"read", pc[session + 1]} /\ session + 1 # Loop /\ session + 1 \in Threads
    BY <1>t, <1>u, <2>1, GotoOther, PcsFact DEF Loop
  <2>3. pc'[Loop] = pc[Loop]
    BY <2>2, PcsFact
  <2>4. QuietReaders'
    BY <1>i, <1>u, <2>2, PcsFact DEF QuietReaders
  <2> QED
    BY <1>i, <1>u, <2>1, <2>3, <2>4 DEF Truthful, OnAgrees, OffAgrees
<1>2. CASE MainOpen \/ MainRequest \/ MainTest \/ Hangup \/ UNCHANGED vars
  <2>1. /\ inits' = inits \/ inits' = inits + 1
        /\ main = "request" => main' = main \/ inits' = inits + 1
        /\ main = "ended" => main' = main
    BY <1>2 DEF MainOpen, MainRequest, MainTest, Hangup, vars
  <2>2. inits \in Nat
    BY <1>t DEF TypeOK
  <2>3. UNCHANGED <<pc, chan>>
    BY <1>2 DEF MainOpen, MainRequest, MainTest, Hangup, vars
  <2>4. /\ inits > 0 => inits' > 0
        /\ main \in {"request", "ended"} => main' = main \/ inits' > 0
    BY <2>1, <2>2
  <2> QED
    BY <1>i, <1>u, <2>3, <2>4 DEF QuietReaders, Truthful, OnAgrees, OffAgrees
<1> QED
  BY <1>n, <1>1, <1>2 DEF MainStep

\* Between requests, with the channel open and initialized, the radio state is
\* what the modem's is: a command that the close cut off leaves a doubt, and the
\* initialization of the next session ends it.
THEOREM AlwaysRadioStateAgrees == Spec => []RadioStateAgrees
<1>1. Init => AgreeInv
  <2> SUFFICES ASSUME Init PROVE AgreeInv
    OBVIOUS
  <2>1. \A u \in Threads : pc[u] # "set"
    BY DEF Init, First
  <2>2. QuietReaders /\ Truthful
    BY <2>1, PcsFact DEF Init, QuietReaders, Truthful
  <2>3. OnAgrees /\ OffAgrees
    BY DEF Init, OnAgrees, OffAgrees
  <2> QED
    BY <2>2, <2>3 DEF AgreeInv
<1>2. IInv /\ AgreeInv /\ [Next]_vars => AgreeInv'
  <2> SUFFICES ASSUME IInv, AgreeInv, [Next]_vars, offsSent' = 0
               PROVE  QuietReaders' /\ Truthful' /\ OnAgrees' /\ OffAgrees'
    BY DEF AgreeInv
  <2> QED
    BY AgreeThread, AgreeLoop, AgreeReader, AgreeMain DEF Next
<1>3. AgreeInv => RadioStateAgrees
  <2> SUFFICES ASSUME AgreeInv, Settled, offsSent = 0
               PROVE  (sState = "ON" => radioOn) /\ (sState = "OFF" /\ ~blind => ~radioOn)
    BY DEF RadioStateAgrees
  <2>1. ~(inits > 0)
    BY DEF Settled
  <2> QED
    BY <2>1 DEF AgreeInv, Settled, OnAgrees, OffAgrees, CallPcs
<1> QED
  BY <1>1, <1>2, <1>3, InitIInv, NextIInv, PTL DEF Spec
=============================================================================
