----------------------------- MODULE SmsProofs -----------------------------
(***************************************************************************)
(* Proofs about Sms.  Five invariants build on each other:                 *)
(*                                                                         *)
(*   SmsInv   every variable has its type, and while AT+CMGR is answered   *)
(*            the message is there and the line after the header is its    *)
(*            pdu, another line or none;                                   *)
(*   KeptInv  the callback that is about to delete has delivered what is   *)
(*            there, unless its answer or an empty location was misread;   *)
(*   OnceInv  a message is at one location, and what was delivered and is  *)
(*            still stored is what the callback is about to delete;        *)
(*   PureInv  without an announcement inside an answer every line that is  *)
(*            reported is a pdu;                                           *)
(*   RightInv as long as nobody was disturbed there is one callback at a   *)
(*            time before its AT+CPMS, and the globals are its own.        *)
(***************************************************************************)
EXTENDS Sms, TLAPS

Line == [msg : Messages, storage : Storages, index : Places]
Loops == [at : {"idle", "query", "select", "read", "header", "answered", "delete",
                "restore"},
          msg : Messages \cup {None}, index : Places \cup {0}, old : Storages,
          line : Messages \cup {None, Other}]
Notice == [msg : Messages \cup {Other}, report : BOOLEAN]

Held ==
  /\ InAnswer => Here \in Messages /\ loop.line \in {None, Other, Here}
  /\ loop.at \in {"query", "select", "read"} => loop.line = None
  /\ loop.at = "header" => loop.line \in {None, Other}

SmsInv == TypeOK /\ Held

Misread == lenient /\ missed
KeptInv ==
  ~Misread => /\ loop.at = "header" => loop.line = None \/ Here \in spoilt
              /\ loop.at = "answered" => loop.line = Here \/ Here \in spoilt
              /\ loop.at = "delete" => Here \in Given \cup spoilt
              /\ DeletedWasDelivered

OnePlace ==
  \A s, t \in Storages, p, q \in Places :
    store[s][p] = store[t][q] /\ store[s][p] # None => s = t /\ p = q
Known ==
  /\ \A s \in Storages, p \in Places : store[s][p] # None => store[s][p] \in arrived
  /\ \A i \in DOMAIN delivered : delivered[i].msg \in arrived \cup {Other}
Gone ==
  \A s \in Storages, p \in Places : \A i \in DOMAIN delivered :
    store[s][p] = delivered[i].msg
      => s = cpms /\ p = loop.index /\ loop.at = "delete"
Once ==
  \A i, j \in DOMAIN delivered :
    delivered[i].msg = delivered[j].msg /\ delivered[i].msg # Other => i = j
OnceInv == OnePlace /\ Known /\ (fails = 0 => Gone /\ Once)

PureInv ==
  swallowed = {} => loop.line # Other /\ \A i \in DOMAIN delivered : delivered[i].msg # Other

\* The announcements are of different messages, each where it was announced.
Announced ==
  /\ \A i \in DOMAIN lines :
       lines[i].msg \in arrived /\ store[lines[i].storage][lines[i].index] = lines[i].msg
  /\ \A i, j \in DOMAIN lines : lines[i].msg = lines[j].msg => i = j
\* The reader has no callback before it, and has put the index.
Reading ==
  reader # "idle" => /\ callbacks = <<>> /\ loop.at \notin {"query", "select"}
                     /\ smsStorageIndex = lines[1].index
\* One callback waits, and the globals say where its message is.
Waiting ==
  callbacks # <<>> =>
    /\ Len(callbacks) = 1 /\ reader = "idle" /\ loop.at \notin {"query", "select"}
    /\ smsReadStorage \in Storages /\ callbacks[1] \in arrived
    /\ store[smsReadStorage][smsStorageIndex] = callbacks[1]
    /\ \A i \in DOMAIN lines : lines[i].msg # callbacks[1]
\* The callback that runs, before and after it has used the globals.
Running ==
  /\ loop.at \in {"query", "select"} =>
       /\ loop.index = smsStorageIndex /\ smsReadStorage \in Storages
       /\ store[smsReadStorage][smsStorageIndex] = loop.msg
  /\ loop.at \in {"read", "header", "answered", "delete"} => store[cpms][loop.index] = loop.msg
  /\ loop.at \in {"query", "select", "read", "header", "answered", "delete"} =>
       /\ loop.msg \in arrived
       /\ callbacks # <<>> => callbacks[1] # loop.msg
       /\ \A i \in DOMAIN lines : lines[i].msg # loop.msg
Right ==
  \A i \in DOMAIN delivered :
    delivered[i].msg # Other => delivered[i].report = Kind(delivered[i].msg)
RightInv == disturbed = {} => Announced /\ Reading /\ Waiting /\ Running /\ Right

-----------------------------------------------------------------------------
(***************************************************************************)
(* What every step keeps.                                                  *)
(***************************************************************************)

USE DEF None, Other

\* A sequence at its ends.
LEMMA SeqFacts ==
  ASSUME NEW S, NEW s \in Seq(S)
  PROVE  /\ \A a \in S : /\ Append(s, a) \in Seq(S) /\ Append(s, a) # <<>>
                         /\ Len(Append(s, a)) = Len(s) + 1
                         /\ Append(s, a)[Len(s) + 1] = a
                         /\ \A i \in 1 .. Len(s) : Append(s, a)[i] = s[i]
         /\ s # <<>> => /\ Head(s) \in S /\ Tail(s) \in Seq(S) /\ Head(s) = s[1]
                        /\ Len(s) \in Nat \ {0} /\ Len(Tail(s)) = Len(s) - 1
                        /\ \A i \in 1 .. Len(s) - 1 : Tail(s)[i] = s[i + 1]
         /\ DOMAIN s = 1 .. Len(s) /\ Len(s) \in Nat
         /\ \A i \in 1 .. Len(s) : s[i] \in S
<1>1. \A a \in S : Append(s, a) \in Seq(S) /\ Append(s, a) # <<>>
  BY SMTT(40)
<1>2. \A a \in S : /\ Len(Append(s, a)) = Len(s) + 1 /\ Append(s, a)[Len(s) + 1] = a
                    /\ \A i \in 1 .. Len(s) : Append(s, a)[i] = s[i]
  OBVIOUS
<1>3. s # <<>> => Head(s) \in S /\ Tail(s) \in Seq(S) /\ Head(s) = s[1]
  OBVIOUS
<1>4. s # <<>> => Len(s) \in Nat \ {0} /\ Len(Tail(s)) = Len(s) - 1
  OBVIOUS
<1>5. s # <<>> => \A i \in 1 .. Len(s) - 1 : Tail(s)[i] = s[i + 1]
  OBVIOUS
<1>6. DOMAIN s = 1 .. Len(s) /\ Len(s) \in Nat /\ \A i \in 1 .. Len(s) : s[i] \in S
  OBVIOUS
<1> QED
  BY <1>1, <1>2, <1>3, <1>4, <1>5, <1>6

LEMMA NoElements ==
  ASSUME NEW S, NEW s \in Seq(S), Len(s) = 0
  PROVE  s = <<>>
  OBVIOUS

LEMMA InitTypes == Init => SmsInv
<1> SUFFICES ASSUME Init PROVE SmsInv
  OBVIOUS
<1>1. loop \in Loops /\ loop.at = "idle"
  BY SmsAssumption DEF Init, Idle, Loops
<1>2. store \in [Storages -> [Places -> Messages \cup {None}]]
  BY DEF Init
<1>3. /\ lines = <<>> /\ callbacks = <<>> /\ delivered = <<>> /\ reader = "idle"
      /\ arrived = {} /\ disturbed = {} /\ fails \in 0..MaxFails
      /\ swallowed = {} /\ spoilt = {}
  BY SmsAssumption DEF Init
<1>4. /\ cpms \in Storages /\ lenient \in BOOLEAN /\ missed \in BOOLEAN
      /\ smsStorageIndex = 0 /\ smsReadStorage = None
  BY SmsAssumption DEF Init
<1>5. TypeOK
  BY <1>1, <1>2, <1>3, <1>4 DEF TypeOK, Loops
<1> QED
  BY <1>1, <1>5 DEF SmsInv, Held, InAnswer

LEMMA StepTypes ==
  ASSUME SmsInv, [Next]_vars
  PROVE  TypeOK'
<1> USE DEF SmsInv
<1>l. /\ lines \in Seq(Line) /\ callbacks \in Seq(Messages) /\ delivered \in Seq(Notice)
      /\ loop \in Loops
  BY DEF TypeOK, Line, Notice, Loops
<1>a. ASSUME NEW m \in Messages, NEW s \in Storages, Arrive(m, s) PROVE TypeOK'
  <2>1. PICK p \in Places :
          /\ store' = [store EXCEPT ![s][p] = m]
          /\ lines' = Append(lines, [msg |-> m, storage |-> s, index |-> p])
    BY <1>a DEF Arrive
  <2>2. [msg |-> m, storage |-> s, index |-> p] \in Line
    BY DEF Line
  <2>3. lines' \in Seq(Line) /\ lines' # <<>>
    BY <1>l, <2>1, <2>2, SeqFacts
  <2>4. store' \in [Storages -> [Places -> Messages \cup {None}]]
    BY <2>1 DEF TypeOK
  <2>5. arrived' \subseteq Messages
    BY <1>a DEF Arrive, TypeOK
  <2> QED
    BY <1>a, <2>3, <2>4, <2>5 DEF Arrive, TypeOK, globals, ghosts, Line
<1>b. CASE OnIndex
  <2>1. Head(lines) \in Line
    BY <1>b, <1>l, SeqFacts DEF OnIndex
  <2>2. smsStorageIndex' \in Places
    BY <1>b, <2>1 DEF OnIndex, Line
  <2>3. Pending \subseteq Messages
    BY <1>l, SeqFacts DEF Pending, TypeOK
  <2> QED
    BY <1>b, <2>2, <2>3 DEF OnIndex, TypeOK, modem
<1>c. CASE OnStorageCleared
  BY <1>c DEF OnStorageCleared, TypeOK, modem, ghosts
<1>d. CASE OnStorage
  <2>1. lines # <<>> /\ Head(lines) \in Line /\ Tail(lines) \in Seq(Line)
    BY <1>d, <1>l, SeqFacts DEF OnStorage, TypeOK
  <2>2. Head(lines).msg \in Messages /\ Head(lines).storage \in Storages
    BY <2>1 DEF Line
  <2>3. callbacks' \in Seq(Messages) /\ lines' \in Seq(Line)
    BY <1>d, <1>l, <2>1, <2>2, SeqFacts DEF OnStorage
  <2> QED
    BY <1>d, <2>2, <2>3 DEF OnStorage, TypeOK, modem, ghosts, Line
<1>s. CASE Swallow
  <2>1. Head(lines) \in Line /\ lines' \in Seq(Line)
    BY <1>s, <1>l, SeqFacts DEF Swallow
  <2>2. swallowed' \subseteq Messages /\ spoilt' \subseteq Messages
    BY <1>s, <2>1 DEF Swallow, Line, Held, TypeOK
  <2>3. loop' \in Loops /\ loop'.msg = loop.msg /\ loop'.index = loop.index /\ loop'.at = loop.at
    BY <1>s, <1>l DEF Swallow, Loops
  <2> QED
    BY <1>s, <2>1, <2>2, <2>3 DEF Swallow, TypeOK, modem, globals, Line, Loops
<1>e. CASE Start
  <2>1. Head(callbacks) \in Messages /\ callbacks' \in Seq(Messages)
    BY <1>e, <1>l, SeqFacts DEF Start
  <2>2. smsStorageIndex \in Places
    BY <1>e DEF Start, TypeOK
  <2>3. loop' \in Loops /\ loop'.msg \in Messages /\ loop'.index \in Places
    BY <1>e, <2>1, <2>2, SmsAssumption DEF Start, Loops
  <2> QED
    BY <1>e, <2>1, <2>2, <2>3 DEF Start, TypeOK, modem, ghosts, globals, Loops
<1>f. CASE Query
  <2>1. loop' \in Loops /\ loop'.msg = loop.msg /\ loop'.index = loop.index
    BY <1>f, <1>l DEF Query, TypeOK, Loops, Go
  <2>2. fails' \in 0..MaxFails /\ disturbed' \subseteq Messages
    BY <1>f, SmsAssumption DEF Query, TypeOK, Fails
  <2> QED
    BY <1>f, <2>1, <2>2 DEF Query, TypeOK, modem, globals, Loops
<1>g. CASE Select
  <2>1. loop' \in Loops /\ loop'.msg = loop.msg /\ loop'.index = loop.index
    BY <1>g, <1>l DEF Select, TypeOK, Loops, Go
  <2>2. fails' \in 0..MaxFails /\ disturbed' \subseteq Messages
    BY <1>g, SmsAssumption DEF Select, TypeOK, Fails
  <2>3. cpms' \in Storages
    BY <1>g DEF Select, TypeOK
  <2> QED
    BY <1>g, <2>1, <2>2, <2>3 DEF Select, TypeOK, globals, Loops
<1>h. CASE Read
  <2>1. loop' \in Loops /\ loop'.msg = loop.msg /\ loop'.index = loop.index
    BY <1>h, <1>l DEF Read, Loops, Go
  <2>2. fails' \in 0..MaxFails /\ disturbed' \subseteq Messages
    BY <1>h, SmsAssumption DEF Read, TypeOK, Fails
  <2>6. missed' \in BOOLEAN
    BY <1>h DEF Read, TypeOK
  <2> QED
    BY <1>h, <2>1, <2>2, <2>6 DEF Read, TypeOK, globals, modem, Loops
<1>p. CASE Answer
  <2>h. Here \in Messages /\ loop.at = "header"
    BY <1>p DEF Answer, Held, InAnswer
  <2>1. loop' \in Loops /\ loop'.msg = loop.msg /\ loop'.index = loop.index
    BY <1>p, <1>l, <2>h DEF Answer, Loops, Go
  <2>2. spoilt' \subseteq Messages
    BY <1>p, <2>h DEF Answer, TypeOK
  <2> QED
    BY <1>p, <2>1, <2>2, <2>h DEF Answer, TypeOK, globals, modem, Loops
<1>r. CASE ReportPdu
  <2>1. loop' \in Loops /\ loop'.msg = loop.msg /\ loop'.index = loop.index
    BY <1>r, <1>l DEF ReportPdu, Loops, Go
  <2>2. fails' \in 0..MaxFails /\ disturbed' \subseteq Messages
    BY <1>r, SmsAssumption DEF ReportPdu, TypeOK, Fails
  <2>4. loop.line # None => [msg |-> loop.line, report |-> Kind(loop.msg)] \in Notice
    BY <1>l DEF Notice, Kind, Loops
  <2>5. delivered' \in Seq(Notice)
    <3>1. ASSUME loop.line # None, Deliver(loop.line) PROVE delivered' \in Seq(Notice)
      BY <1>l, <2>4, <3>1, SeqFacts DEF Deliver
    <3> QED
      BY <1>r, <1>l, <3>1 DEF ReportPdu
  <2> QED
    BY <1>r, <2>1, <2>2, <2>5 DEF ReportPdu, TypeOK, globals, modem, Loops, Notice
<1>i. CASE Delete
  <2>1. loop' \in Loops /\ loop'.msg = loop.msg /\ loop'.index = loop.index
    BY <1>i, <1>l DEF Delete, Loops, Go
  <2>2. fails' \in 0..MaxFails /\ disturbed' \subseteq Messages
    BY <1>i, SmsAssumption DEF Delete, TypeOK, Fails
  <2>3. store' \in [Storages -> [Places -> Messages \cup {None}]]
    <3>1. store \in [Storages -> [Places -> Messages \cup {None}]]
      BY DEF TypeOK
    <3> QED
      BY <1>i, <3>1 DEF Delete
  <2> QED
    BY <1>i, <2>1, <2>2, <2>3 DEF Delete, TypeOK, globals, Loops
<1>j. CASE Restore
  <2>1. loop' \in Loops /\ loop'.at = "idle"
    BY <1>j, SmsAssumption DEF Restore, Loops, Idle
  <2>2. fails' \in 0..MaxFails /\ disturbed' \subseteq Messages
    BY <1>j, SmsAssumption DEF Restore, TypeOK, Fails
  <2>3. cpms' \in Storages
    BY <1>j DEF Restore, TypeOK
  <2> QED
    BY <1>j, <2>1, <2>2, <2>3 DEF Restore, TypeOK, globals, Loops
<1>k. CASE UNCHANGED vars
  BY <1>k DEF vars, modem, globals, ghosts, TypeOK
<1> QED
  BY <1>a, <1>b, <1>c, <1>d, <1>e, <1>f, <1>g, <1>h, <1>i, <1>j, <1>k, <1>p, <1>r, <1>s
     DEF Next, Reader, Loop

\* What is being read stays where it is: only the callback deletes.
LEMMA StepHeld ==
  ASSUME SmsInv, [Next]_vars
  PROVE  Held'
<1>l. loop \in Loops /\ store \in [Storages -> [Places -> Messages \cup {None}]]
      /\ cpms \in Storages
  BY DEF SmsInv, TypeOK, Loops
<1>h. Held
  BY DEF SmsInv
<1>a. ASSUME NEW m \in Messages, NEW s \in Storages, Arrive(m, s) PROVE Held'
  <2>1. PICK p \in Places : store[s][p] = None /\ store' = [store EXCEPT ![s][p] = m]
    BY <1>a DEF Arrive
  <2>2. UNCHANGED <<cpms, loop>>
    BY <1>a DEF Arrive
  <2>3. InAnswer => Here' = Here
    BY <1>h, <1>l, <2>1, <2>2, SmsAssumption DEF Held, Here, InAnswer, SmsInv, TypeOK
  <2> QED
    BY <1>h, <2>2, <2>3 DEF Held, InAnswer
<1>b. CASE OnIndex \/ OnStorageCleared \/ OnStorage \/ UNCHANGED vars
  <2>1. UNCHANGED <<store, cpms, loop>>
    BY <1>b DEF OnIndex, OnStorageCleared, OnStorage, vars, modem
  <2> QED
    BY <1>h, <2>1 DEF Held, InAnswer, Here
<1>c. CASE Swallow
  <2>1. /\ UNCHANGED <<store, cpms>> /\ loop'.index = loop.index /\ loop'.at = loop.at
        /\ loop'.line = (IF loop.line = None THEN Other ELSE loop.line) /\ InAnswer
    BY <1>c, <1>l DEF Swallow, modem, Loops
  <2> QED
    BY <1>h, <2>1 DEF Held, InAnswer, Here
<1>d. CASE Start \/ Query \/ Select \/ ReportPdu \/ Delete \/ Restore
  <2>1. loop'.at \notin {"header", "answered"}
    <3>1. CASE Start \/ Restore
      BY <3>1 DEF Start, Restore, Idle
    <3>2. CASE Query \/ Select \/ ReportPdu \/ Delete
      BY <1>l, <3>2 DEF Query, Select, ReportPdu, Delete, Go, Loops
    <3> QED
      BY <1>d, <3>1, <3>2
  <2>2. loop'.at \in {"query", "select", "read"} => loop'.line = None
    <3>1. CASE Start \/ Restore
      BY <3>1 DEF Start, Restore, Idle
    <3>2. CASE Query \/ Select \/ ReportPdu \/ Delete
      BY <1>h, <1>l, <3>2 DEF Query, Select, ReportPdu, Delete, Go, Loops, Held
    <3> QED
      BY <1>d, <3>1, <3>2
  <2> QED
    BY <2>1, <2>2 DEF Held, InAnswer
<1>e. CASE Read
  <2>1. /\ UNCHANGED <<store, cpms>> /\ loop'.index = loop.index /\ loop'.line = loop.line
        /\ loop'.at = "header" => Here # None
        /\ loop'.at \in {"header", "delete", "idle"} /\ loop.at = "read"
    BY <1>e, <1>l DEF Read, Go, modem, Loops
  <2>2. Here \in Messages \cup {None}
    BY <1>l, <2>1 DEF Here, SmsInv, TypeOK
  <2> QED
    BY <1>h, <2>1, <2>2 DEF Held, InAnswer, Here
<1>f. CASE Answer
  <2>1. /\ UNCHANGED <<store, cpms>> /\ loop'.index = loop.index /\ loop'.at = "answered"
        /\ loop'.line \in {loop.line, Here} /\ loop.at = "header"
    BY <1>f, <1>l DEF Answer, Go, modem, Loops
  <2> QED
    BY <1>h, <2>1 DEF Held, InAnswer, Here
<1> QED
  BY <1>a, <1>b, <1>c, <1>d, <1>e, <1>f DEF Next, Reader, Loop

\* A report is added to what was given.
LEMMA GivenGrows ==
  ASSUME SmsInv, NEW m \in Messages \cup {Other}, Deliver(m)
  PROVE  /\ Given' = Given \cup {m}
         /\ Len(delivered') = Len(delivered) + 1
         /\ delivered'[Len(delivered) + 1] = [msg |-> m, report |-> Kind(loop.msg)]
         /\ \A i \in 1 .. Len(delivered) : delivered'[i] = delivered[i]
         /\ DOMAIN delivered = 1 .. Len(delivered) /\ Len(delivered) \in Nat
         /\ DOMAIN delivered' = 1 .. Len(delivered) + 1
<1> DEFINE r == [msg |-> m, report |-> Kind(loop.msg)]
<1>2. r \in Notice /\ delivered \in Seq(Notice)
  BY DEF SmsInv, TypeOK, Notice, Kind
<1>3. r.msg = m
  OBVIOUS
<1>4. delivered' = Append(delivered, r)
  BY DEF Deliver
<1> HIDE DEF r
<1>5. /\ Len(delivered') = Len(delivered) + 1 /\ delivered'[Len(delivered) + 1] = r
      /\ \A i \in 1 .. Len(delivered) : delivered'[i] = delivered[i]
      /\ DOMAIN delivered = 1 .. Len(delivered) /\ Len(delivered) \in Nat
      /\ DOMAIN delivered' = 1 .. Len(delivered) + 1
  <2>1. delivered' \in Seq(Notice)
    BY <1>2, <1>4, SeqFacts
  <2> QED
    BY <1>2, <1>4, <2>1, SeqFacts
<1>6. Given' = Given \cup {m}
  <2>1. \A x : x \in Given' => x \in Given \cup {m}
    BY <1>3, <1>5 DEF Given
  <2>2. \A x : x \in Given => x \in Given'
    <3> SUFFICES ASSUME NEW i \in 1 .. Len(delivered) PROVE delivered[i].msg \in Given'
      BY <1>5 DEF Given
    <3>1. i \in DOMAIN delivered' /\ delivered'[i].msg = delivered[i].msg
      BY <1>5
    <3> QED
      BY <3>1 DEF Given
  <2>3. m \in Given'
    <3>1. Len(delivered) + 1 \in DOMAIN delivered'
      BY <1>5
    <3> QED
      BY <1>3, <1>5, <3>1 DEF Given
  <2> QED
    BY <2>1, <2>2, <2>3
<1> QED
  BY <1>5, <1>6 DEF r

LEMMA GivenTyped == SmsInv => Given \subseteq Messages \cup {Other}
<1> SUFFICES ASSUME SmsInv PROVE Given \subseteq Messages \cup {Other}
  OBVIOUS
<1>1. delivered \in Seq(Notice)
  BY DEF SmsInv, TypeOK, Notice
<1>2. \A i \in DOMAIN delivered : delivered[i] \in Notice
  BY <1>1, SeqFacts
<1> QED
  BY <1>2 DEF Given, Notice

\* What the steps do that neither store a message, take a line, deliver a message
\* nor delete one.
Idles ==
  /\ UNCHANGED <<store, delivered, arrived, lenient, spoilt>> /\ (missed => missed')
  /\ \/ loop.at # "delete" /\ loop'.at \notin {"header", "answered", "delete"}
     \/ loop' = loop /\ cpms' = cpms
     \/ loop'.at \notin {"header", "answered", "delete"} /\ fails' # 0
  /\ fails' = 0 => fails = 0

\* The steps that do: an arrival, a line of the answer taken, a line reported, an
\* empty location read, and a location deleted.
Arrives ==
  \E m \in Messages, s \in Storages, p \in Places :
    /\ m \notin arrived /\ arrived' = arrived \cup {m} /\ store[s][p] = None
    /\ store' = [store EXCEPT ![s][p] = m]
    /\ UNCHANGED <<cpms, lenient, loop, delivered, fails, reader, globals, callbacks, ghosts>>
    /\ lines' = Append(lines, [msg |-> m, storage |-> s, index |-> p])
Takes ==
  /\ UNCHANGED <<store, cpms, lenient, arrived, delivered, fails, missed>>
  /\ loop.at \in {"read", "header", "answered"} /\ loop'.at \in {"header", "answered"}
  /\ loop'.index = loop.index
  /\ \/ loop'.at = "header" /\ loop'.line = None /\ UNCHANGED spoilt
     \/ Swallow
     \/ Answer
HandsOver ==
  /\ loop.at = "answered" /\ loop'.at = "delete" /\ loop'.index = loop.index
  /\ UNCHANGED <<store, cpms, lenient, arrived, fails, missed, spoilt>>
  /\ IF loop.line = None THEN UNCHANGED delivered ELSE Deliver(loop.line)
Empties ==
  /\ loop.at = "read" /\ loop'.at = "delete" /\ loop'.index = loop.index
  /\ Here = None /\ lenient /\ missed'
  /\ UNCHANGED <<store, cpms, lenient, arrived, delivered, fails>>
Deletes ==
  /\ loop.at = "delete" /\ loop'.at = "restore" /\ loop'.index = loop.index
  /\ store' = [store EXCEPT ![cpms][loop.index] = None]
  /\ UNCHANGED <<cpms, lenient, arrived, fails, delivered, missed, spoilt>>

LEMMA StepKinds ==
  ASSUME SmsInv, [Next]_vars
  PROVE  Idles \/ Arrives \/ Takes \/ HandsOver \/ Empties \/ Deletes
<1>l. loop \in Loops /\ fails \in Nat
  BY SmsAssumption DEF SmsInv, TypeOK, Loops
<1>a. ASSUME NEW m \in Messages, NEW s \in Storages, Arrive(m, s) PROVE Arrives
  BY <1>a DEF Arrive, Arrives
<1>b. CASE OnIndex \/ OnStorageCleared \/ OnStorage
  BY <1>b DEF OnIndex, OnStorageCleared, OnStorage, Idles, modem, ghosts
<1>s. CASE Swallow
  <2>1. /\ UNCHANGED <<store, cpms, lenient, arrived, delivered, fails, missed>> /\ InAnswer
        /\ loop'.index = loop.index /\ loop'.at = loop.at
    BY <1>s, <1>l DEF Swallow, modem, Loops
  <2> QED
    BY <1>s, <2>1 DEF Takes, InAnswer
<1>c. CASE Start \/ Query \/ Select
  <2>1. loop.at # "delete" /\ loop'.at \notin {"header", "answered", "delete"}
    <3>1. CASE Start
      BY <3>1, <1>l DEF Start, Loops
    <3>2. CASE Query
      BY <3>2, <1>l DEF Query, Go, Loops
    <3>3. CASE Select
      BY <3>3, <1>l DEF Select, Go, Loops
    <3> QED
      BY <1>c, <3>1, <3>2, <3>3
  <2>2. fails' = 0 => fails = 0
    BY <1>c, <1>l DEF Start, Query, Select, Fails
  <2>3. UNCHANGED <<store, delivered, arrived, lenient, spoilt, missed>>
    BY <1>c DEF Start, Query, Select, modem, ghosts
  <2> QED
    BY <2>1, <2>2, <2>3 DEF Idles
<1>d. CASE Read
  <2>u. UNCHANGED <<store, cpms, lenient, arrived, delivered, spoilt>> /\ loop.at = "read"
    BY <1>d DEF Read, modem
  <2>1. CASE Here # None /\ Go("header") /\ UNCHANGED <<fails, disturbed, missed>>
    <3>1. loop'.at = "header" /\ loop'.index = loop.index /\ loop'.line = loop.line
      BY <1>l, <2>1 DEF Go, Loops
    <3>2. loop.line = None
      BY <2>u DEF SmsInv, Held
    <3> QED
      BY <2>1, <2>u, <3>1, <3>2 DEF Takes
  <2>2. ASSUME Here = None, missed' = TRUE, Go(IF lenient THEN "delete" ELSE "idle"),
               UNCHANGED <<fails, disturbed>>
        PROVE  Idles \/ Empties
    <3>1. CASE lenient
      BY <2>u, <1>l, <2>2, <3>1 DEF Go, Empties, Loops
    <3>2. CASE ~lenient
      BY <2>u, <1>l, <2>2, <3>2 DEF Go, Idles, Loops
    <3> QED
      BY <3>1, <3>2
  <2>3. ASSUME Fails, Go("idle"), UNCHANGED missed PROVE Idles
    BY <2>u, <1>l, <2>3 DEF Fails, Go, Idles, Loops
  <2> QED
    BY <1>d, <2>1, <2>2, <2>3 DEF Read
<1>p. CASE Answer
  <2>1. /\ UNCHANGED <<store, cpms, lenient, arrived, delivered, fails, missed>>
        /\ loop.at = "header" /\ loop'.index = loop.index /\ loop'.at = "answered"
    BY <1>p, <1>l DEF Answer, Go, modem, Loops
  <2> QED
    BY <1>p, <2>1 DEF Takes
<1>r. CASE ReportPdu
  <2>u. /\ UNCHANGED <<store, cpms, lenient, arrived, missed, spoilt>> /\ loop.at = "answered"
    BY <1>r DEF ReportPdu, modem
  <2>1. CASE /\ IF loop.line = None THEN UNCHANGED delivered ELSE Deliver(loop.line)
             /\ Go("delete") /\ UNCHANGED fails
    BY <1>l, <2>u, <2>1 DEF HandsOver, Go, Loops
  <2>2. CASE Fails /\ Go("restore") /\ UNCHANGED delivered
    BY <1>l, <2>u, <2>2 DEF Idles, Fails, Go, Loops
  <2> QED
    BY <1>r, <2>1, <2>2 DEF ReportPdu
<1>e. CASE Delete
  BY <1>e, <1>l DEF Delete, Fails, Go, Idles, Deletes, Loops
<1>f. CASE Restore
  BY <1>f, <1>l DEF Restore, Fails, Go, Idles, Idle, Loops
<1>g. CASE UNCHANGED vars
  BY <1>g DEF vars, Idles, modem, ghosts
<1> QED
  BY <1>a, <1>b, <1>c, <1>d, <1>e, <1>f, <1>g, <1>p, <1>r, <1>s DEF Next, Reader, Loop

\* What is stored, after an arrival and after a deletion.
LEMMA StoredMoves ==
  ASSUME SmsInv
  PROVE  /\ \A m \in Messages, s \in Storages, p \in Places :
              store[s][p] = None /\ store' = [store EXCEPT ![s][p] = m]
                => Stored' = Stored \cup {m}
         /\ \A s \in Storages, p \in Places :
              store' = [store EXCEPT ![s][p] = None] => Stored \subseteq Stored' \cup {store[s][p]}
<1>t. store \in [Storages -> [Places -> Messages \cup {None}]]
  BY DEF SmsInv, TypeOK
<1>1. ASSUME NEW m \in Messages, NEW s \in Storages, NEW p \in Places,
             store[s][p] = None, store' = [store EXCEPT ![s][p] = m]
      PROVE  Stored' = Stored \cup {m}
  <2>1. \A t \in Storages, q \in Places :
          store'[t][q] = IF t = s /\ q = p THEN m ELSE store[t][q]
    BY <1>1, <1>t
  <2> QED
    BY <1>1, <2>1, SmsAssumption DEF Stored
<1>2. ASSUME NEW s \in Storages, NEW p \in Places, store' = [store EXCEPT ![s][p] = None]
      PROVE  Stored \subseteq Stored' \cup {store[s][p]}
  <2>1. \A t \in Storages, q \in Places :
          store'[t][q] = IF t = s /\ q = p THEN None ELSE store[t][q]
    BY <1>2, <1>t
  <2> QED
    BY <1>2, <2>1 DEF Stored
<1> QED
  BY <1>1, <1>2

LEMMA StepKept ==
  ASSUME SmsInv, KeptInv, [Next]_vars
  PROVE  KeptInv'
<1> SUFFICES ASSUME ~Misread'
             PROVE  /\ (loop.at = "header" => loop.line = None \/ Here \in spoilt)'
                    /\ (loop.at = "answered" => loop.line = Here \/ Here \in spoilt)'
                    /\ (loop.at = "delete" => Here \in Given \cup spoilt)'
                    /\ (arrived \subseteq Stored \cup Given \cup spoilt)'
  BY DEF KeptInv, DeletedWasDelivered
<1>w. /\ Misread => Misread'
      /\ ~Misread => /\ (loop.at = "header" => loop.line = None \/ Here \in spoilt)
                     /\ (loop.at = "answered" => loop.line = Here \/ Here \in spoilt)
                     /\ (loop.at = "delete" => Here \in Given \cup spoilt)
                     /\ arrived \subseteq Stored \cup Given \cup spoilt
  <2>1. lenient' = lenient /\ (missed => missed')
    <3>1. Arrives => lenient' = lenient /\ missed' = missed
      BY DEF Arrives, ghosts
    <3> QED
      BY <3>1, StepKinds DEF Idles, Takes, HandsOver, Empties, Deletes
  <2> QED
    BY <2>1 DEF KeptInv, DeletedWasDelivered, Misread
<1>k. /\ loop.at = "header" => loop.line = None \/ Here \in spoilt
      /\ loop.at = "answered" => loop.line = Here \/ Here \in spoilt
      /\ loop.at = "delete" => Here \in Given \cup spoilt
      /\ arrived \subseteq Stored \cup Given \cup spoilt
  BY <1>w
<1>l. loop \in Loops
  BY DEF SmsInv, TypeOK, Loops
<1>1. CASE Idles
  <2>1. Stored' = Stored /\ Given' = Given /\ spoilt' = spoilt /\ arrived' = arrived
    BY <1>1 DEF Idles, Stored, Given
  <2>2. \/ loop'.at \notin {"header", "answered", "delete"}
        \/ loop' = loop /\ Here' = Here
    BY <1>1 DEF Idles, Here
  <2> QED
    BY <1>k, <2>1, <2>2
<1>2. CASE Arrives
  <2>1. PICK m \in Messages, s \in Storages, p \in Places :
          /\ arrived' = arrived \cup {m} /\ store[s][p] = None
          /\ store' = [store EXCEPT ![s][p] = m]
          /\ UNCHANGED <<cpms, loop, delivered, ghosts>>
    BY <1>2 DEF Arrives
  <2>2. Stored' = Stored \cup {m}
    BY <2>1, StoredMoves
  <2>g. Given' = Given /\ spoilt' = spoilt
    BY <2>1 DEF Given, ghosts
  <2>3. ASSUME loop.at \in {"header", "answered", "delete"} PROVE Here' = Here
    <3>1. Here # None
      <4>1. CASE InAnswer
        BY <4>1, SmsAssumption DEF SmsInv, Held
      <4>2. CASE loop.at = "delete"
        BY <4>2, <1>k, GivenTyped, SmsAssumption DEF SmsInv, TypeOK
      <4> QED
        BY <2>3, <4>1, <4>2 DEF InAnswer
    <3> QED
      BY <2>1, <2>3, <3>1 DEF Here, SmsInv, TypeOK
  <2> QED
    BY <1>k, <2>1, <2>2, <2>g, <2>3
<1>3. CASE Takes
  <2>1. /\ Here' = Here /\ Stored' = Stored /\ Given' = Given /\ arrived' = arrived
        /\ loop'.at \in {"header", "answered"}
    BY <1>3 DEF Takes, Here, Stored, Given
  <2>2. CASE loop'.at = "header" /\ loop'.line = None /\ UNCHANGED spoilt
    BY <1>k, <2>1, <2>2
  <2>3. CASE Swallow
    <3>1. /\ loop'.at = loop.at /\ loop.at \in {"header", "answered"}
          /\ loop.line # None => loop'.line = loop.line
          /\ spoilt \subseteq spoilt' /\ (loop.at = "header" => Here \in spoilt')
      BY <1>l, <2>3 DEF Swallow, InAnswer, Loops
    <3>2. loop.at = "answered" /\ loop.line = Here => loop.line # None
      BY SmsAssumption DEF SmsInv, Held, InAnswer
    <3> QED
      BY <1>k, <2>1, <3>1, <3>2
  <2>4. CASE Answer
    <3>1. /\ loop'.at = "answered" /\ spoilt \subseteq spoilt' /\ loop.at = "header"
          /\ \/ loop'.line = IF loop.line = None THEN Here ELSE loop.line
             \/ Here \in spoilt'
      BY <1>l, <2>4 DEF Answer, Go, Loops
    <3> QED
      BY <1>k, <2>1, <3>1
  <2> QED
    BY <1>3, <2>2, <2>3, <2>4 DEF Takes
<1>4. CASE HandsOver
  <2>1. /\ Here' = Here /\ Stored' = Stored /\ arrived' = arrived /\ spoilt' = spoilt
        /\ loop.at = "answered" /\ loop'.at = "delete"
    BY <1>4 DEF HandsOver, Here, Stored
  <2>2. loop.line = Here => loop.line \in Messages
    BY <2>1 DEF SmsInv, Held, InAnswer
  <2>3. Given \subseteq Given' /\ (loop.line = Here => Here \in Given')
    <3>1. CASE loop.line = None
      <4>1. Given' = Given
        BY <1>4, <3>1 DEF HandsOver, Given
      <4> QED
        BY <2>2, <3>1, <4>1, SmsAssumption
    <3>2. CASE loop.line # None
      <4>1. loop.line \in Messages \cup {Other} /\ Deliver(loop.line)
        BY <1>4, <1>l, <3>2 DEF HandsOver, Loops
      <4> QED
        BY <4>1, GivenGrows
    <3> QED
      BY <3>1, <3>2
  <2> QED
    BY <1>k, <2>1, <2>3
<1>5. CASE Empties
  BY <1>5 DEF Empties, Misread
<1>6. CASE Deletes
  <2>t. cpms \in Storages /\ loop.index \in Places
    BY <1>6 DEF Deletes, SmsInv, TypeOK
  <2>1. Stored \subseteq Stored' \cup {Here}
    BY <1>6, <2>t, StoredMoves DEF Deletes, Here
  <2>g. Given' = Given
    BY <1>6 DEF Deletes, Given
  <2> QED
    BY <1>6, <1>k, <2>1, <2>g DEF Deletes
<1> QED
  BY <1>1, <1>2, <1>3, <1>4, <1>5, <1>6, StepKinds

LEMMA StepOnce ==
  ASSUME SmsInv, OnceInv, [Next]_vars
  PROVE  OnceInv'
<1>t. /\ store \in [Storages -> [Places -> Messages \cup {None}]]
      /\ cpms \in Storages /\ (loop.at # "idle" => loop.index \in Places) /\ loop \in Loops
  BY DEF SmsInv, TypeOK, Loops
<1>1. CASE Idles \/ Takes
  <2>1. OnePlace' /\ Known'
    BY <1>1 DEF Idles, Takes, OnceInv, OnePlace, Known
  <2>2. ASSUME fails' = 0 PROVE Gone' /\ Once'
    BY <1>1, <2>2 DEF Idles, Takes, OnceInv, Gone, Once
  <2> QED
    BY <2>1, <2>2 DEF OnceInv
<1>2. CASE Arrives
  <2>1. PICK m \in Messages, s \in Storages, p \in Places :
          /\ m \notin arrived /\ arrived' = arrived \cup {m} /\ store[s][p] = None
          /\ store' = [store EXCEPT ![s][p] = m]
          /\ UNCHANGED <<cpms, lenient, loop, delivered, fails>>
    BY <1>2 DEF Arrives
  <2>2. \A t \in Storages, q \in Places :
          store'[t][q] = IF t = s /\ q = p THEN m ELSE store[t][q]
    BY <1>t, <2>1
  <2>3. OnePlace'
    BY <2>1, <2>2 DEF OnceInv, OnePlace, Known
  <2>4. Known'
    BY <2>1, <2>2 DEF OnceInv, Known
  <2>5. ASSUME fails = 0 PROVE Gone' /\ Once'
    <3>1. \A i \in DOMAIN delivered : delivered[i].msg # m
      BY <2>1, SmsAssumption DEF OnceInv, Known
    <3>2. Once'
      BY <2>1, <2>5 DEF OnceInv, Once
    <3>3. Gone'
      <4>g. Gone /\ UNCHANGED <<cpms, loop, delivered>>
        BY <2>1, <2>5 DEF OnceInv
      <4> QED
        BY <4>g, <2>2, <3>1 DEF Gone
    <3> QED
      BY <3>2, <3>3
  <2> QED
    BY <2>1, <2>3, <2>4, <2>5 DEF OnceInv
<1>3. CASE Empties \/ (HandsOver /\ loop.line = None)
  <2>1. OnePlace' /\ fails' = fails
    BY <1>3 DEF HandsOver, Empties, OnceInv, OnePlace
  <2>2. Known'
    BY <1>3 DEF HandsOver, Empties, OnceInv, Known
  <2>3. ASSUME fails = 0 PROVE Gone' /\ Once'
    BY <1>3, <2>3 DEF HandsOver, Empties, OnceInv, Gone, Once
  <2> QED
    BY <2>1, <2>2, <2>3 DEF OnceInv
<1>5. CASE HandsOver /\ loop.line # None
  <2> DEFINE n == Len(delivered)
             x == loop.line
  <2>0. x \in Messages \cup {Other} /\ x \in {Other, Here} /\ Here \in Messages /\ Deliver(x)
    BY <1>t, <1>5 DEF HandsOver, Loops, SmsInv, Held, InAnswer
  <2>1. /\ delivered'[n + 1].msg = x
        /\ \A i \in 1 .. n : delivered'[i] = delivered[i]
        /\ DOMAIN delivered = 1 .. n /\ n \in Nat /\ DOMAIN delivered' = 1 .. n + 1
    <3> HIDE DEF x
    <3>2. /\ delivered'[n + 1] = [msg |-> x, report |-> Kind(loop.msg)]
          /\ \A i \in 1 .. n : delivered'[i] = delivered[i]
          /\ DOMAIN delivered = 1 .. n /\ n \in Nat /\ DOMAIN delivered' = 1 .. n + 1
      BY <2>0, GivenGrows
    <3> QED
      BY <3>2
  <2>2. /\ store' = store /\ cpms' = cpms /\ arrived' = arrived /\ fails' = fails
        /\ loop'.at = "delete" /\ loop'.index = loop.index /\ loop.at = "answered"
    BY <1>5 DEF HandsOver
  <2>i. \A i \in 1 .. n + 1 : i = n + 1 \/ i \in 1 .. n
    BY <2>1
  <2> HIDE DEF n, x
  <2>o. OnePlace'
    BY <2>2 DEF OnceInv, OnePlace
  <2>3. Known'
    <3>1. Here \in arrived
      BY <1>t, <2>0, <2>2, SmsAssumption DEF OnceInv, Known, Here
    <3> QED
      BY <2>0, <2>1, <2>2, <3>1, <2>i DEF OnceInv, Known
  <2>4. ASSUME fails = 0 PROVE Gone' /\ Once'
    <3>1. \A i \in 1 .. n : delivered[i].msg # Here
      BY <1>t, <2>1, <2>2, <2>4 DEF OnceInv, Gone, Here
    <3>3. Once'
      BY <2>0, <2>1, <2>4, <3>1, <2>i DEF OnceInv, Once
    <3>4. \A s \in Storages, q \in Places : store[s][q] = Here => s = cpms /\ q = loop.index
      <4>1. Here # None /\ loop.index \in Places /\ cpms \in Storages
        BY <1>t, <2>0, <2>2, SmsAssumption
      <4> QED
        BY <4>1 DEF OnceInv, OnePlace, Here
    <3>o. \A s \in Storages, q \in Places : store[s][q] # Other
      BY <1>t, SmsAssumption
    <3>5. Gone'
      BY <2>0, <2>1, <2>2, <2>4, <2>i, <3>4, <3>o DEF OnceInv, Gone
    <3> QED
      BY <3>3, <3>5
  <2> QED
    BY <2>2, <2>o, <2>3, <2>4 DEF OnceInv
<1>4. CASE Deletes
  <2>1. /\ cpms' = cpms /\ arrived' = arrived /\ fails' = fails /\ delivered' = delivered
        /\ loop.at = "delete" /\ loop'.at = "restore" /\ loop.index \in Places
    BY <1>4, <1>t DEF Deletes
  <2>2. \A t \in Storages, q \in Places :
          store'[t][q] = IF t = cpms /\ q = loop.index THEN None ELSE store[t][q]
    BY <1>t, <1>4, <2>1 DEF Deletes
  <2>3. OnePlace' /\ Known'
    BY <2>1, <2>2 DEF OnceInv, OnePlace, Known
  <2>4. ASSUME fails = 0 PROVE Gone' /\ Once'
    <3>1. Once'
      BY <2>1, <2>4 DEF OnceInv, Once
    <3>2. None \notin Given
      BY GivenTyped, SmsAssumption
    <3>3. \A i \in DOMAIN delivered : delivered[i].msg # None
      BY <3>2 DEF Given
    <3>4. Gone'
      BY <2>1, <2>2, <2>4, <3>3 DEF OnceInv, Gone
    <3> QED
      BY <3>1, <3>4
  <2> QED
    BY <2>1, <2>3, <2>4 DEF OnceInv
<1> QED
  BY <1>1, <1>2, <1>3, <1>4, <1>5, StepKinds

\* A line that is no pdu is reported only after an announcement was taken for one.
LEMMA StepPure ==
  ASSUME SmsInv, PureInv, [Next]_vars
  PROVE  PureInv'
<1> SUFFICES ASSUME swallowed' = {}
             PROVE  loop'.line # Other /\ \A i \in DOMAIN delivered' : delivered'[i].msg # Other
  BY DEF PureInv
<1>l. loop \in Loops
  BY DEF SmsInv, TypeOK, Loops
<1>n. ~Swallow
  BY DEF Swallow
<1>s. swallowed = {}
  BY <1>n DEF Next, Reader, Loop, Arrive, OnIndex, OnStorageCleared, OnStorage, Start, Query,
         Select, Read, Answer, ReportPdu, Delete, Restore, vars, ghosts
<1>i. loop.line # Other /\ \A i \in DOMAIN delivered : delivered[i].msg # Other
  BY <1>s DEF PureInv
<1>1. loop'.line # Other
  <2>1. CASE Start \/ Restore
    BY <2>1 DEF Start, Restore, Idle
  <2>2. CASE Query \/ Select \/ Read \/ ReportPdu \/ Delete
    BY <1>i, <1>l, <2>2 DEF Query, Select, Read, ReportPdu, Delete, Go, Loops
  <2>3. CASE Answer
    <3>1. Here \in Messages
      BY <2>3 DEF Answer, SmsInv, Held, InAnswer
    <3> QED
      BY <1>i, <1>l, <2>3, <3>1, SmsAssumption DEF Answer, Go, Loops
  <2>4. CASE UNCHANGED loop
    BY <1>i, <2>4
  <2> QED
    BY <1>n, <2>1, <2>2, <2>3, <2>4 DEF Next, Reader, Loop, Arrive, OnIndex, OnStorageCleared,
       OnStorage, vars
<1>2. \A i \in DOMAIN delivered' : delivered'[i].msg # Other
  <2>1. CASE UNCHANGED delivered
    BY <1>i, <2>1
  <2>2. CASE loop.line # None /\ Deliver(loop.line)
    <3> DEFINE n == Len(delivered)
    <3>1. loop.line \in Messages \cup {Other}
      BY <1>l, <2>2 DEF Loops
    <3>2. /\ delivered'[n + 1] = [msg |-> loop.line, report |-> Kind(loop.msg)]
          /\ \A i \in 1 .. n : delivered'[i] = delivered[i]
          /\ DOMAIN delivered = 1 .. n /\ n \in Nat /\ DOMAIN delivered' = 1 .. n + 1
      BY <2>2, <3>1, GivenGrows
    <3>3. delivered'[n + 1].msg # Other
      BY <1>i, <3>2
    <3>4. \A i \in 1 .. n + 1 : i = n + 1 \/ i \in 1 .. n
      BY <3>2
    <3> HIDE DEF n
    <3> QED
      BY <1>i, <3>2, <3>3, <3>4
  <2> QED
    BY <1>n, <2>1, <2>2 DEF Next, Reader, Loop, Arrive, OnIndex, OnStorageCleared, OnStorage,
       Start, Query, Select, Read, Answer, ReportPdu, Delete, Restore, vars
<1> QED
  BY <1>1, <1>2

\* The sequences, as the steps of the reader and of the callback change them.
LEMMA LinesAppended ==
  ASSUME SmsInv, NEW l \in Line, lines' = Append(lines, l)
  PROVE  /\ DOMAIN lines = 1 .. Len(lines) /\ Len(lines) \in Nat
         /\ DOMAIN lines' = 1 .. Len(lines) + 1 /\ lines'[Len(lines) + 1] = l
         /\ \A i \in 1 .. Len(lines) : lines'[i] = lines[i]
<1>1. lines \in Seq(Line)
  BY DEF SmsInv, TypeOK, Line
<1>2. lines' \in Seq(Line)
  BY <1>1, SeqFacts
<1> QED
  BY <1>1, <1>2, SeqFacts

LEMMA LinesTail ==
  ASSUME SmsInv, lines # <<>>, lines' = Tail(lines)
  PROVE  \A i \in DOMAIN lines' :
           i + 1 \in DOMAIN lines /\ lines'[i] = lines[i + 1] /\ i + 1 # 1 /\ i \in Nat
<1>1. lines \in Seq(Line)
  BY DEF SmsInv, TypeOK, Line
<1>2. /\ DOMAIN lines = 1 .. Len(lines) /\ Len(lines) \in Nat \ {0}
      /\ DOMAIN lines' = 1 .. Len(lines) - 1
      /\ \A i \in 1 .. Len(lines) - 1 : lines'[i] = lines[i + 1]
  <2>1. lines' \in Seq(Line) /\ Len(lines') = Len(lines) - 1
    BY <1>1, SeqFacts
  <2> QED
    BY <1>1, <2>1, SeqFacts
<1> QED
  BY <1>2

LEMMA LineTyped ==
  ASSUME SmsInv
  PROVE  /\ \A i \in DOMAIN lines : /\ lines[i].msg \in Messages
                                   /\ lines[i].storage \in Storages /\ lines[i].index \in Places
         /\ lines # <<>> => 1 \in DOMAIN lines /\ Head(lines) = lines[1]
         /\ callbacks # <<>> => callbacks[1] \in Messages /\ Head(callbacks) = callbacks[1]
<1>1. lines \in Seq(Line) /\ callbacks \in Seq(Messages)
  BY DEF SmsInv, TypeOK, Line
<1>2. \A i \in DOMAIN lines : lines[i] \in Line
  BY <1>1, SeqFacts
<1>3. lines # <<>> => 1 \in DOMAIN lines /\ Head(lines) = lines[1]
  BY <1>1, SeqFacts
<1>4. callbacks # <<>> => callbacks[1] \in Messages /\ Head(callbacks) = callbacks[1]
  BY <1>1, SeqFacts
<1> QED
  BY <1>2, <1>3, <1>4 DEF Line

LEMMA StepRight ==
  ASSUME SmsInv, RightInv, [Next]_vars
  PROVE  RightInv'
<1> SUFFICES ASSUME disturbed' = {}
             PROVE  Announced' /\ Reading' /\ Waiting' /\ Running' /\ Right'
  BY DEF RightInv
<1>t. /\ store \in [Storages -> [Places -> Messages \cup {None}]]
      /\ cpms \in Storages /\ (loop.at # "idle" => loop.index \in Places /\ loop.msg \in Messages)
      /\ loop \in Loops /\ (callbacks # <<>> => smsStorageIndex \in Places)
      /\ (reader # "idle" => smsStorageIndex \in Places)
  BY DEF SmsInv, TypeOK, Loops
<1>n. ~Fails
  BY DEF Fails
<1>d. disturbed = {}
  BY DEF Next, Reader, Loop, Arrive, OnIndex, OnStorageCleared, OnStorage, Start, Query,
         Select, Read, Answer, ReportPdu, Swallow, Delete, Restore, Fails, vars, ghosts
<1>i. Announced /\ Reading /\ Waiting /\ Running /\ Right
  BY <1>d DEF RightInv
<1>a. CASE Arrives
  <2>1. PICK m \in Messages, s \in Storages, p \in Places :
          /\ m \notin arrived /\ arrived' = arrived \cup {m} /\ store[s][p] = None
          /\ store' = [store EXCEPT ![s][p] = m]
          /\ UNCHANGED <<cpms, loop, delivered, reader, globals, callbacks>>
          /\ lines' = Append(lines, [msg |-> m, storage |-> s, index |-> p])
    BY <1>a DEF Arrives
  <2>u. UNCHANGED <<cpms, loop, delivered, reader, smsStorageIndex, smsReadStorage, callbacks>>
    BY <2>1 DEF globals
  <2> DEFINE n == Len(lines)
             l == [msg |-> m, storage |-> s, index |-> p]
  <2>2. /\ DOMAIN lines = 1 .. n /\ n \in Nat /\ DOMAIN lines' = 1 .. n + 1
        /\ lines'[n + 1] = l
        /\ \A i \in 1 .. n : lines'[i] = lines[i]
    <3>1. l \in Line
      BY DEF Line
    <3> HIDE DEF l
    <3> QED
      BY <2>1, <3>1, LinesAppended DEF l
  <2>3. /\ \A i \in 1 .. n + 1 : i = n + 1 \/ i \in 1 .. n
        /\ lines'[n + 1].msg = m /\ lines'[n + 1].storage = s /\ lines'[n + 1].index = p
    BY <2>2
  <2> HIDE DEF n, l
  <2>4. \A t \in Storages, q \in Places :
          /\ store'[t][q] = IF t = s /\ q = p THEN m ELSE store[t][q]
          /\ store[t][q] \in Messages => store'[t][q] = store[t][q]
    BY <1>t, <2>1, SmsAssumption
  <2>5. \A i \in 1 .. n : lines[i].msg \in arrived /\ lines[i].msg # m
    BY <1>i, <2>1, <2>2 DEF Announced
  <2>6. Announced'
    <3>1. \A i \in 1 .. n : store'[lines[i].storage][lines[i].index] = lines[i].msg
      BY <1>i, <2>2, <2>4, LineTyped DEF Announced
    <3>2. store'[s][p] = m
      BY <2>4
    <3> QED
      BY <1>i, <2>1, <2>2, <2>3, <2>5, <3>1, <3>2 DEF Announced
  <2>7. Reading'
    <3>1. reader # "idle" => lines # <<>>
      BY DEF SmsInv, TypeOK
    <3>2. lines # <<>> => lines'[1] = lines[1]
      BY <2>2, LineTyped
    <3> QED
      BY <1>i, <2>u, <3>1, <3>2 DEF Reading
  <2>8. Waiting'
    <3>1. callbacks # <<>> => callbacks[1] # m
      BY <1>i, <2>1 DEF Waiting
    <3>2. callbacks # <<>> => store'[smsReadStorage][smsStorageIndex] = callbacks[1]
      BY <1>i, <1>t, <2>4, LineTyped DEF Waiting
    <3> QED
      BY <1>i, <2>1, <2>u, <2>2, <2>3, <3>1, <3>2 DEF Waiting
  <2>9. Running'
    <3>1. loop.at \in {"query", "select", "read", "header", "answered", "delete"} => loop.msg # m
      BY <1>i, <2>1 DEF Running
    <3>2. loop.at \in {"query", "select"} => store'[smsReadStorage][smsStorageIndex] = loop.msg
      BY <1>i, <1>t, <2>4 DEF Running
    <3>3. loop.at \in {"read", "header", "answered", "delete"} => store'[cpms][loop.index] = loop.msg
      BY <1>i, <1>t, <2>4 DEF Running
    <3> QED
      BY <1>i, <2>1, <2>u, <2>2, <2>3, <3>1, <3>2, <3>3 DEF Running
  <2> QED
    BY <1>i, <2>u, <2>6, <2>7, <2>8, <2>9 DEF Right
<1>b. CASE OnIndex
  <2>1. callbacks = <<>> /\ loop.at \notin {"query", "select"}
    <3>1. Pending = {}
      BY <1>b DEF OnIndex
    <3>2. callbacks # <<>> => 1 \in DOMAIN callbacks
      <4>1. callbacks \in Seq(Messages)
        BY DEF SmsInv, TypeOK
      <4> QED
        BY <4>1, SeqFacts
    <3> QED
      BY <3>1, <3>2 DEF Pending
  <2>2. smsStorageIndex' = lines[1].index
    BY <1>b, LineTyped DEF OnIndex
  <2> QED
    BY <1>b, <1>i, <2>1, <2>2 DEF OnIndex, modem, Announced, Reading, Waiting, Running, Right
<1>c. CASE OnStorageCleared
  BY <1>c, <1>i DEF OnStorageCleared, modem, Announced, Reading, Waiting, Running, Right
<1>e. CASE OnStorage
  <2>1. /\ callbacks = <<>> /\ loop.at \notin {"query", "select"}
        /\ smsStorageIndex = lines[1].index /\ 1 \in DOMAIN lines
        /\ Head(lines) = lines[1]
    BY <1>e, <1>i, LineTyped DEF OnStorage, Reading, SmsInv, TypeOK
  <2>2. /\ callbacks' = <<lines[1].msg>> /\ smsReadStorage' = lines[1].storage
        /\ UNCHANGED <<store, cpms, arrived, smsStorageIndex, loop, delivered>>
        /\ reader' = "idle"
    BY <1>e, <2>1 DEF OnStorage, modem
  <2>3. callbacks' # <<>> /\ Len(callbacks') = 1 /\ callbacks'[1] = lines[1].msg
    BY <2>2
  <2>4. \A i \in DOMAIN lines' : i + 1 \in DOMAIN lines /\ lines'[i] = lines[i + 1] /\ i + 1 # 1
                              /\ i \in Nat
    <3>1. lines # <<>> /\ lines' = Tail(lines)
      BY <1>e DEF OnStorage, SmsInv, TypeOK
    <3> QED
      BY <3>1, LinesTail
  <2>5. Announced'
    <3>1. \A i \in DOMAIN lines' :
            lines'[i].msg \in arrived /\ store[lines'[i].storage][lines'[i].index] = lines'[i].msg
      BY <1>i, <2>4 DEF Announced
    <3>2. \A i, j \in DOMAIN lines' : lines'[i].msg = lines'[j].msg => i + 1 = j + 1
      BY <1>i, <2>4 DEF Announced
    <3>3. \A i, j \in DOMAIN lines' : i + 1 = j + 1 => i = j
      BY <2>4
    <3> QED
      BY <2>2, <3>1, <3>2, <3>3 DEF Announced
  <2>6. \A i \in DOMAIN lines' : lines'[i].msg # lines[1].msg
    BY <1>i, <2>1, <2>4 DEF Announced
  <2>7. Waiting'
    <3>1. /\ lines[1].storage \in Storages /\ lines[1].msg \in arrived
          /\ store[lines[1].storage][lines[1].index] = lines[1].msg
      BY <1>i, <2>1, LineTyped DEF Announced
    <3> QED
      BY <2>1, <2>2, <2>3, <2>6, <3>1 DEF Waiting
  <2>8. Running'
    <3>1. loop.at \in {"read", "header", "answered", "delete"} =>
            /\ lines[1].msg # loop.msg /\ \A i \in DOMAIN lines' : lines'[i].msg # loop.msg
      BY <1>i, <2>1, <2>4 DEF Running
    <3> QED
      BY <1>i, <2>1, <2>2, <2>3, <3>1 DEF Running
  <2> QED
    BY <1>i, <2>2, <2>5, <2>7, <2>8 DEF Reading, Right
<1>f. CASE Start
  <2>1. callbacks' = <<>> /\ loop' = [at |-> "query", msg |-> callbacks[1],
                                     index |-> smsStorageIndex, old |-> Home,
                                     line |-> None]
    <3>1. callbacks \in Seq(Messages) /\ callbacks # <<>> /\ Len(callbacks) = 1
      BY <1>f, <1>i DEF Start, SmsInv, TypeOK, Waiting
    <3>2. Tail(callbacks) = <<>>
      <4>1. Tail(callbacks) \in Seq(Messages) /\ Len(Tail(callbacks)) = 0
        BY <3>1, SeqFacts
      <4> QED
        BY <4>1, NoElements
    <3> QED
      BY <1>f, <3>1, <3>2, LineTyped DEF Start
  <2>2. loop'.at = "query" /\ loop'.msg = callbacks[1] /\ loop'.index = smsStorageIndex
    BY <2>1
  <2>3. UNCHANGED <<store, cpms, arrived, lines, reader, smsStorageIndex, smsReadStorage, delivered>>
    BY <1>f DEF Start, modem, globals
  <2>4. /\ reader = "idle" /\ smsReadStorage \in Storages /\ callbacks[1] \in arrived
        /\ store[smsReadStorage][smsStorageIndex] = callbacks[1]
        /\ \A i \in DOMAIN lines : lines[i].msg # callbacks[1]
    BY <1>f, <1>i DEF Start, Waiting
  <2>5. Running' /\ Waiting' /\ Reading'
    BY <2>1, <2>2, <2>3, <2>4 DEF Running, Waiting, Reading
  <2> QED
    BY <1>i, <2>3, <2>5 DEF Announced, Right
<1>g. CASE Query
  <2>1. /\ loop.at = "query" /\ loop'.at = "select" /\ loop'.msg = loop.msg
        /\ loop'.index = loop.index
    BY <1>g, <1>t, <1>n DEF Query, Loops
  <2>2. UNCHANGED <<store, cpms, arrived, lines, reader, smsStorageIndex, smsReadStorage,
                    callbacks, delivered>>
    BY <1>g DEF Query, modem, globals
  <2> QED
    BY <1>i, <2>1, <2>2 DEF Announced, Reading, Waiting, Running, Right
<1>h. CASE Select
  <2>1. /\ loop.at = "select" /\ loop'.at = "read" /\ loop'.msg = loop.msg
        /\ loop'.index = loop.index
    BY <1>h, <1>t DEF Select, Go, Loops
  <2>2. /\ UNCHANGED <<store, arrived, lines, reader, smsStorageIndex, smsReadStorage,
                       callbacks, delivered>>
        /\ cpms' = smsReadStorage
    BY <1>h, <1>i, <1>n, SmsAssumption DEF Select, globals, Running
  <2> QED
    BY <1>i, <2>1, <2>2 DEF Announced, Reading, Waiting, Running, Right
<1>s. CASE Swallow
  <2>1. /\ loop'.at = loop.at /\ loop'.msg = loop.msg /\ loop'.index = loop.index
        /\ UNCHANGED <<store, cpms, arrived, reader, smsStorageIndex, smsReadStorage, callbacks,
                       delivered>>
        /\ reader = "idle" /\ lines # <<>> /\ lines' = Tail(lines)
    BY <1>s, <1>t DEF Swallow, modem, globals, Loops
  <2>4. \A i \in DOMAIN lines' : i + 1 \in DOMAIN lines /\ lines'[i] = lines[i + 1] /\ i \in Nat
    BY <2>1, LinesTail
  <2>5. Announced'
    <3>1. \A i \in DOMAIN lines' :
            lines'[i].msg \in arrived /\ store[lines'[i].storage][lines'[i].index] = lines'[i].msg
      BY <1>i, <2>4 DEF Announced
    <3>2. \A i, j \in DOMAIN lines' : lines'[i].msg = lines'[j].msg => i + 1 = j + 1
      BY <1>i, <2>4 DEF Announced
    <3>3. \A i, j \in DOMAIN lines' : i + 1 = j + 1 => i = j
      BY <2>4
    <3> QED
      BY <2>1, <3>1, <3>2, <3>3 DEF Announced
  <2>7. Waiting'
    BY <1>i, <2>1, <2>4 DEF Waiting
  <2>8. Running'
    BY <1>i, <2>1, <2>4 DEF Running
  <2> QED
    BY <1>i, <2>1, <2>5, <2>7, <2>8 DEF Reading, Right
<1>j. CASE Read \/ Answer
  <2>1. /\ loop.at \in {"read", "header"} /\ loop'.at \in {"header", "answered", "delete", "idle"}
        /\ loop'.msg = loop.msg /\ loop'.index = loop.index
    BY <1>j, <1>t DEF Read, Answer, Go, Loops
  <2>2. UNCHANGED <<store, cpms, arrived, lines, reader, smsStorageIndex, smsReadStorage,
                    callbacks, delivered>>
    BY <1>j DEF Read, Answer, modem, globals
  <2> QED
    BY <1>i, <2>1, <2>2 DEF Announced, Reading, Waiting, Running, Right
<1>r. CASE ReportPdu
  <2>1. loop.at = "answered" /\ Here = loop.msg
    BY <1>r, <1>i DEF ReportPdu, Running, Here
  <2>2. /\ loop'.at = "delete" /\ loop'.msg = loop.msg /\ loop'.index = loop.index
        /\ IF loop.line = None THEN UNCHANGED delivered ELSE Deliver(loop.line)
    BY <1>r, <1>t, <1>n DEF ReportPdu, Go, Loops
  <2>3. UNCHANGED <<store, cpms, arrived, lines, reader, smsStorageIndex, smsReadStorage,
                    callbacks>>
    BY <1>r DEF ReportPdu, modem, globals
  <2>4. Announced' /\ Reading' /\ Waiting' /\ Running'
    BY <1>i, <2>1, <2>2, <2>3 DEF Announced, Reading, Waiting, Running
  <2>5. CASE loop.line = None
    BY <1>i, <2>2, <2>4, <2>5 DEF Right
  <2>6. CASE loop.line # None
    <3> DEFINE n == Len(delivered)
    <3>1. loop.line \in Messages \cup {Other} /\ loop.line \in {Other, loop.msg}
      BY <1>t, <2>1, <2>6 DEF SmsInv, Held, InAnswer, Loops
    <3>2. /\ delivered'[n + 1] = [msg |-> loop.line, report |-> Kind(loop.msg)]
          /\ \A i \in 1 .. n : delivered'[i] = delivered[i]
          /\ DOMAIN delivered = 1 .. n /\ n \in Nat /\ DOMAIN delivered' = 1 .. n + 1
      BY <2>2, <2>6, <3>1, GivenGrows
    <3>3. delivered'[n + 1].msg # Other => delivered'[n + 1].report = Kind(delivered'[n + 1].msg)
      BY <3>1, <3>2
    <3>4. \A i \in DOMAIN delivered' :
            i = n + 1 \/ (i \in DOMAIN delivered /\ delivered'[i] = delivered[i])
      BY <3>2
    <3> HIDE DEF n
    <3>5. Right'
      BY <1>i, <3>3, <3>4 DEF Right, Kind
    <3> QED
      BY <2>4, <3>5
  <2> QED
    BY <2>5, <2>6
<1>k. CASE Delete
  <2>1. /\ loop.at = "delete" /\ loop'.at = "restore" /\ loop.index \in Places
        /\ store[cpms][loop.index] = loop.msg
    BY <1>k, <1>t, <1>i DEF Delete, Go, Loops, Running
  <2>2. \A t \in Storages, q \in Places : store[t][q] # loop.msg => store'[t][q] = store[t][q]
    BY <1>k, <1>t, <1>n, <2>1 DEF Delete
  <2>3. UNCHANGED <<cpms, arrived, lines, reader, smsStorageIndex, smsReadStorage,
                    callbacks, delivered>>
    BY <1>k DEF Delete, globals
  <2>4. Announced'
    <3>1. \A i \in DOMAIN lines : store'[lines[i].storage][lines[i].index] = lines[i].msg
      BY <1>i, <2>1, <2>2, LineTyped DEF Announced, Running
    <3> QED
      BY <1>i, <2>3, <3>1 DEF Announced
  <2>5. Waiting'
    <3>1. callbacks # <<>> => store'[smsReadStorage][smsStorageIndex] = callbacks[1]
      BY <1>i, <1>t, <2>1, <2>2 DEF Waiting, Running
    <3> QED
      BY <1>i, <2>1, <2>3, <3>1 DEF Waiting
  <2> QED
    BY <1>i, <2>1, <2>3, <2>4, <2>5 DEF Reading, Running, Right
<1>l. CASE Restore
  <2>1. loop'.at = "idle" /\ loop.at = "restore"
    BY <1>l DEF Restore, Idle
  <2>2. UNCHANGED <<store, arrived, lines, reader, smsStorageIndex, smsReadStorage,
                    callbacks, delivered>>
    BY <1>l DEF Restore, globals
  <2> QED
    BY <1>i, <2>1, <2>2 DEF Announced, Reading, Waiting, Running, Right
<1>m. CASE UNCHANGED vars
  BY <1>i, <1>m DEF vars, modem, globals, Announced, Reading, Waiting, Running, Right
<1>o. ASSUME NEW m \in Messages, NEW s \in Storages, Arrive(m, s) PROVE Arrives
  BY <1>o DEF Arrive, Arrives
<1> QED
  BY <1>a, <1>b, <1>c, <1>e, <1>f, <1>g, <1>h, <1>j, <1>k, <1>l, <1>m, <1>o, <1>r, <1>s
     DEF Next, Reader, Loop

(***************************************************************************)
(* Theorems.                                                               *)
(***************************************************************************)

LEMMA InitKept == Init => KeptInv
<1> SUFFICES ASSUME Init PROVE KeptInv
  OBVIOUS
<1>1. loop.at = "idle" /\ arrived = {}
  BY DEF Init, Idle
<1> QED
  BY <1>1 DEF KeptInv, DeletedWasDelivered

LEMMA InitPure == Init => PureInv
<1> SUFFICES ASSUME Init PROVE PureInv
  OBVIOUS
<1>1. loop.line = None /\ DOMAIN delivered = {}
  BY DEF Init, Idle
<1> QED
  BY <1>1 DEF PureInv

LEMMA InitOnce == Init => OnceInv
<1> SUFFICES ASSUME Init PROVE OnceInv
  OBVIOUS
<1>1. \A s \in Storages, p \in Places : store[s][p] = None
  BY DEF Init
<1>2. DOMAIN delivered = {}
  BY DEF Init
<1> QED
  BY <1>1, <1>2 DEF OnceInv, OnePlace, Known, Gone, Once

LEMMA InitRight == Init => RightInv
<1> SUFFICES ASSUME Init PROVE RightInv
  OBVIOUS
<1>1. DOMAIN delivered = {} /\ DOMAIN lines = {} /\ loop.at = "idle"
  BY DEF Init, Idle
<1>2. reader = "idle" /\ callbacks = <<>>
  BY DEF Init
<1> QED
  BY <1>1, <1>2 DEF RightInv, Announced, Reading, Waiting, Running, Right

LEMMA AlwaysSmsInv == Spec => []SmsInv
<1>1. SmsInv /\ [Next]_vars => SmsInv'
  BY StepTypes, StepHeld DEF SmsInv
<1> QED
  BY InitTypes, <1>1, PTL DEF Spec

\* Every variable keeps its type, whatever the storages and the announcements.  A
\* callback that waits or runs has a location to read and to delete, never the 0 that
\* smsStorageIndex starts with, and the handler never runs without a line.
THEOREM TypeCorrect == Spec => []TypeOK
<1>1. SmsInv => TypeOK
  BY DEF SmsInv
<1> QED
  BY AlwaysSmsInv, <1>1, PTL

\* A message that has arrived is stored or was given to the framework: readNewSms()
\* deletes by its own index, and the announcements that overwrite the globals in
\* between do not reach it.  The exceptions are the two of the code: an answer of
\* AT+CMGR whose second line is not the pdu (AT+CMGD follows all the same), and a
\* modem that answers the read of an empty location with OK.
THEOREM LostOnlyMisread == Spec => []DeletedWasDelivered
<1>1. SmsInv /\ KeptInv /\ [Next]_vars => KeptInv'
  BY StepKept
<1>2. KeptInv => DeletedWasDelivered
  BY DEF KeptInv, DeletedWasDelivered, Misread
<1> QED
  BY AlwaysSmsInv, InitKept, <1>1, <1>2, PTL DEF Spec

\* A message is delivered twice only when a command failed; until two announcements
\* met or a command failed every message is delivered as the kind of message it is;
\* and a line that is no message is delivered only when an announcement fell inside
\* the answer of AT+CMGR.
THEOREM AlwaysDeliveredRight == Spec => []DeliveredRight
<1>1. SmsInv /\ OnceInv /\ [Next]_vars => OnceInv'
  BY StepOnce
<1>2. SmsInv /\ RightInv /\ [Next]_vars => RightInv'
  BY StepRight
<1>3. SmsInv /\ PureInv /\ [Next]_vars => PureInv'
  BY StepPure
<1>4. OnceInv /\ RightInv /\ PureInv => DeliveredRight
  BY DEF OnceInv, RightInv, PureInv, Once, Right, DeliveredRight
<1> QED
  BY AlwaysSmsInv, InitOnce, InitRight, InitPure, <1>1, <1>2, <1>3, <1>4, PTL DEF Spec
=============================================================================
