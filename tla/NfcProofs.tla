------------------------------ MODULE NfcProofs ------------------------------
(***************************************************************************)
(* Proofs about the two NFC drivers.                                       *)
(*                                                                         *)
(* Pn533Poll, the first part.  PollInv is inductive.  It has a part that   *)
(* always holds, PathOK and Alive, and a part that holds until the timer   *)
(* or stop_poll() has overlapped a completion, Unraced: the loop is then   *)
(* at one of the places named by its conjuncts, and whoever is about to    *)
(* send finds that nothing else was sent.                                  *)
(*                                                                         *)
(* Pn544, the second part, shares no variable with it.  MsgInv is what no  *)
(* message stranded needs, RegInv what balanced regulators need.           *)
(***************************************************************************)
EXTENDS Pn533Poll, Pn544, TLAPS

Items == {"poll", "complete", "cmd", "tg"}
Mods == NoMod..Listen
Distinct(q) == \A i, j \in DOMAIN q : q[i] = q[j] => i = j

Waits(w) == w \in ToSet(wq)
Sends == worker \in {"send", "send_listen"}
Queued == cmd_queue # <<>>
Status == cmd.status

\* Each work item of the command path stands for a state of the command, and the
\* flag of the timer for its handler or for the poll that the handler queues.
PathOK ==
  /\ Status = "none" => cmd = NoCmd
  /\ Waits("complete") \/ worker = "next_mod" <=> Status \in {"ok", "error", "enoent"}
  /\ worker = "next_mod" => Status = "ok" /\ ~Waits("complete")
  /\ Waits("cmd") => Status = "done"
  /\ Queued => Status # "none"
  /\ cancel_listen => timer = "running" \/ Waits("poll")
  /\ core = "start" => ~polling

\* The first half of LoopAlive, and what makes it go on after an abort.
Alive ==
  polling /\ poll_mod_count > 0 /\ core = "idle" /\ ~stalled =>
    /\ \/ Status = "sent" \/ Queued \/ worker # "idle"
       \/ timer = "running" \/ {"poll", "complete"} \cap ToSet(wq) # {}
    /\ Status = "enoent" => Queued \/ Sends

\* pn533_wq_poll() is about to send.
Sending ==
  Sends => /\ Status \in {"none", "done", "enoent"} /\ ~Queued
           /\ timer = "off" /\ ~Waits("poll") /\ ~cancel_listen /\ poll_mod_count > 0
           /\ worker = "send_listen" <=> Current = Listen
\* A poll is pending: nothing is in flight, or it aborts what is.
Turning ==
  Waits("poll") =>
    /\ timer = "off" /\ ~Sends
    /\ ~cancel_listen => /\ Status \in {"none", "done"} /\ ~Queued /\ worker = "idle"
                         /\ poll_mod_count > 0
\* The timer, which only a listen command arms.
Timing ==
  timer # "off" => /\ poll_mod_count > 0 /\ Current = Listen /\ worker = "idle"
                   /\ timer = "running" <=> cancel_listen
\* A command waits behind one that is over, or that was aborted.
Behind ==
  Queued => /\ Len(cmd_queue) = 1 /\ Status \in {"done", "enoent"} /\ worker = "idle"
            /\ poll_mod_count > 0
            /\ ~Waits("poll") => Head(cmd_queue) = Current
\* The command in flight, or answered, is of the current modulation.
Flying ==
  Status \in {"sent", "ok"} => /\ poll_mod_count > 0 /\ ~Sends
                               /\ ~Waits("poll") => cmd.mod = Current
\* Between the answer and the next modulation.
Moving == worker = "next_mod" => poll_mod_count > 0 /\ (Waits("poll") => cancel_listen)
\* When the core does not poll nothing goes on.
Rests == ~polling => Quiet
\* start_poll() arms no timer: it listens at once only if there is nothing else.
Starting ==
  core = "start" => /\ poll_mod_count > 0
                    /\ Current = Listen => poll_mod_count = 1
\* The second half of LoopAlive.
Ends ==
  polling /\ poll_mod_count > 1 /\ core = "idle" /\ timer = "off" /\ ~Waits("poll") =>
    /\ Status = "sent" => cmd.mod # Listen
    /\ Queued => Head(cmd_queue) # Listen

Unraced ==
  /\ Sending /\ Turning /\ Timing /\ Behind /\ Flying /\ Moving /\ Rests /\ Starting /\ Ends
  /\ oops = "none"

\* The second half of PollStopsAfterTarget.
Parsed ==
  misparsed => raced \/ \E i \in 0..Listen : poll_mod_active[i] \notin {i, NoMod, Listen}

PollInv == TypeOK /\ PathOK /\ Alive /\ (~raced => Unraced) /\ Parsed

-----------------------------------------------------------------------------
(***************************************************************************)
(* What every step keeps.                                                  *)
(***************************************************************************)

LEMMA SeqFacts ==
  ASSUME NEW S, NEW s \in Seq(S)
  PROVE  /\ \A a \in S : Append(s, a) \in Seq(S) /\ Append(s, a) # <<>>
         /\ \A a \in S : /\ Len(Append(s, a)) = Len(s) + 1 /\ Append(s, a)[Len(s) + 1] = a
                         /\ \A i \in 1 .. Len(s) : Append(s, a)[i] = s[i]
         /\ s # <<>> => Head(s) \in S /\ Tail(s) \in Seq(S) /\ Head(s) = s[1]
         /\ s # <<>> => Len(s) \in Nat \ {0} /\ Len(Tail(s)) = Len(s) - 1
         /\ s # <<>> => \A i \in 1 .. Len(s) - 1 : Tail(s)[i] = s[i + 1]
         /\ DOMAIN s = 1 .. Len(s) /\ Len(s) \in Nat /\ \A i \in 1 .. Len(s) : s[i] \in S
<1>1. \A a \in S : Append(s, a) \in Seq(S) /\ Append(s, a) # <<>>
  BY SMTT(40)
<1>2. \A a \in S : /\ Len(Append(s, a)) = Len(s) + 1 /\ Append(s, a)[Len(s) + 1] = a
                    /\ \A i \in 1 .. Len(s) : Append(s, a)[i] = s[i]
  OBVIOUS
<1>3. s # <<>> => Head(s) \in S /\ Tail(s) \in Seq(S) /\ Head(s) = s[1]
  OBVIOUS
<1>4. s # <<>> => Len(s) \in Nat \ {0} /\ Len(Tail(s)) = Len(s) - 1
  OBVIOUS
<1>5. s # <<>> => \A i \in 1 .. Len(s) - 1 : Tail(s)[i] = s[i + 1]
  OBVIOUS
<1>6. DOMAIN s = 1 .. Len(s) /\ Len(s) \in Nat /\ \A i \in 1 .. Len(s) : s[i] \in S
  OBVIOUS
<1> QED
  BY <1>1, <1>2, <1>3, <1>4, <1>5, <1>6

\* The workqueue is a set as far as the properties see it: what runs is taken out,
\* what is queued is put in once.
LEMMA TailOff ==
  ASSUME NEW q \in Seq(Items), Distinct(q), q # <<>>
  PROVE  /\ Tail(q) \in Seq(Items) /\ Distinct(Tail(q))
         /\ Head(q) \in ToSet(q) /\ ToSet(Tail(q)) = ToSet(q) \ {Head(q)}
<1> DEFINE n == Len(q)  t == Tail(q)
<1>1. /\ n \in Nat \ {0} /\ DOMAIN q = 1 .. n /\ Head(q) = q[1]
      /\ t \in Seq(Items) /\ Len(t) = n - 1
      /\ \A i \in 1 .. n - 1 : t[i] = q[i + 1]
  BY SeqFacts
<1>2. DOMAIN t = 1 .. n - 1
  BY <1>1, SeqFacts
<1> HIDE DEF n, t
<1>3. Distinct(t)
  <2> SUFFICES ASSUME NEW i \in 1 .. n - 1, NEW j \in 1 .. n - 1, t[i] = t[j] PROVE i = j
    BY <1>2 DEF Distinct
  <2>1. i + 1 \in DOMAIN q /\ j + 1 \in DOMAIN q /\ q[i + 1] = q[j + 1]
    BY <1>1
  <2>2. i + 1 = j + 1
    BY <2>1 DEF Distinct
  <2> QED
    BY <1>1, <2>2
<1>4. ASSUME NEW x \in ToSet(t) PROVE x \in ToSet(q) \ {q[1]}
  <2>1. PICK i \in 1 .. n - 1 : x = t[i]
    BY <1>2 DEF ToSet
  <2>2. i + 1 \in DOMAIN q /\ x = q[i + 1] /\ i + 1 # 1 /\ 1 \in DOMAIN q
    BY <1>1, <2>1
  <2>3. x # q[1]
    BY <2>2 DEF Distinct
  <2> QED
    BY <2>2, <2>3 DEF ToSet
<1>5. ASSUME NEW x \in ToSet(q), x # q[1] PROVE x \in ToSet(t)
  <2>1. PICK i \in 1 .. n : x = q[i]
    BY <1>1 DEF ToSet
  <2>2. i - 1 \in 1 .. n - 1 /\ t[i - 1] = x
    <3>1. i # 1
      BY <1>5, <2>1
    <3>2. i - 1 \in 1 .. n - 1
      BY <1>1, <3>1
    <3> QED
      BY <1>1, <2>1, <3>2
  <2> QED
    BY <1>2, <2>2 DEF ToSet
<1>6. q[1] \in ToSet(q)
  BY <1>1 DEF ToSet
<1> QED
  BY <1>1, <1>3, <1>4, <1>5, <1>6 DEF t

LEMMA QueuedOnce ==
  ASSUME NEW q \in Seq(Items), Distinct(q), NEW w \in Items
  PROVE  /\ QueueWork(q, w) \in Seq(Items) /\ Distinct(QueueWork(q, w))
         /\ ToSet(QueueWork(q, w)) = ToSet(q) \cup {w}
<1>1. CASE w \in ToSet(q)
  BY <1>1 DEF QueueWork
<1>2. CASE w \notin ToSet(q)
  <2> DEFINE n == Len(q)  a == Append(q, w)
  <2>1. /\ n \in Nat /\ DOMAIN q = 1 .. n /\ a \in Seq(Items) /\ Len(a) = n + 1
        /\ a[n + 1] = w /\ \A i \in 1 .. n : a[i] = q[i]
    BY SeqFacts
  <2>2. DOMAIN a = 1 .. n + 1
    BY <2>1, SeqFacts
  <2>q. QueueWork(q, w) = a
    BY <1>2 DEF QueueWork
  <2> HIDE DEF n, a
  <2>3. \A i \in 1 .. n : q[i] # w
    BY <1>2, <2>1 DEF ToSet
  <2>4. \A i \in 1 .. n + 1 : i = n + 1 \/ i \in 1 .. n
    BY <2>1
  <2>5. Distinct(a)
    BY <2>1, <2>2, <2>3, <2>4 DEF Distinct
  <2>6. \A x : x \in ToSet(a) => x \in ToSet(q) \cup {w}
    BY <2>1, <2>2, <2>4 DEF ToSet
  <2>7. \A x : x \in ToSet(q) => x \in ToSet(a)
    <3>1. \A i \in 1 .. n : i \in DOMAIN a /\ a[i] = q[i]
      BY <2>1, <2>2
    <3> QED
      BY <2>1, <3>1 DEF ToSet
  <2>8. w \in ToSet(a)
    <3>1. n + 1 \in DOMAIN a
      BY <2>1, <2>2
    <3> QED
      BY <2>1, <3>1 DEF ToSet
  <2> QED
    BY <2>q, <2>1, <2>5, <2>6, <2>7, <2>8
<1> QED
  BY <1>1, <1>2

\* What the type invariant says of the sequences and of the current modulation.
LEMMA TypeFacts ==
  ASSUME TypeOK
  PROVE  /\ wq \in Seq(Items) /\ Distinct(wq) /\ cmd_queue \in Seq(Mods)
         /\ Current \in Mods /\ Status \in {"none", "sent", "ok", "error", "enoent", "done"}
         /\ cmd.mod \in Mods /\ poll_mod_count \in Nat /\ poll_mod_curr \in Nat
         /\ cmd = [mod |-> cmd.mod, status |-> Status]
  BY DEF TypeOK, Items, Mods, Distinct, Current, Status, Listen, NoMod

\* pn533_send_cmd_async() with the path free, and with a command before it.
LEMMA SendFacts ==
  ASSUME TypeOK, PathOK, NEW m \in Mods, SendCmd(m)
  PROVE  /\ cmd' \in [mod : Mods, status : {"none", "sent", "ok", "error", "enoent", "done"}]
         /\ cmd_queue' \in Seq(Mods)
         /\ \/ /\ Status = "none" /\ ~Queued /\ ~Queued' /\ Status' = "sent" /\ cmd'.mod = m
               /\ UNCHANGED cmd_queue
            \/ /\ Status # "none" /\ Queued' /\ UNCHANGED cmd
               /\ ~Queued => Len(cmd_queue') = 1 /\ Head(cmd_queue') = m
<1>1. CASE cmd = NoCmd
  <2>1. Status = "none"
    BY <1>1 DEF Status, NoCmd
  <2>2. cmd' = [mod |-> m, status |-> "sent"] /\ UNCHANGED cmd_queue
    BY <1>1 DEF SendCmd
  <2>3. Status' = "sent" /\ cmd'.mod = m
    BY <2>2 DEF Status
  <2> QED
    BY <2>1, <2>2, <2>3, TypeFacts DEF PathOK, Queued
<1>2. CASE cmd # NoCmd
  <2>1. Status # "none"
    BY <1>2 DEF PathOK
  <2>2. cmd_queue' = Append(cmd_queue, m) /\ UNCHANGED cmd
    BY <1>2 DEF SendCmd
  <2>3. cmd_queue' \in Seq(Mods) /\ Queued'
    BY <2>2, TypeFacts, SeqFacts DEF Queued
  <2>4. ASSUME ~Queued PROVE Len(cmd_queue') = 1 /\ Head(cmd_queue') = m
    <3>1. cmd_queue' = <<m>>
      BY <2>2, <2>4 DEF Queued
    <3> QED
      BY <3>1
  <2> QED
    BY <2>1, <2>2, <2>3, <2>4 DEF TypeOK, Mods
<1> QED
  BY <1>1, <1>2

\* pn533_abort_cmd(), on a workqueue that q stands for.
LEMMA AbortFacts ==
  ASSUME TypeOK, NEW q \in Seq(Items), Distinct(q), Abort(q)
  PROVE  /\ cmd' \in [mod : Mods, status : {"none", "sent", "ok", "error", "enoent", "done"}]
         /\ wq' \in Seq(Items) /\ Distinct(wq') /\ cmd'.mod = cmd.mod
         /\ \/ /\ Status = "sent" /\ Status' = "enoent" /\ ToSet(wq') = ToSet(q) \cup {"complete"}
            \/ /\ Status # "sent" /\ UNCHANGED cmd /\ ToSet(wq') = ToSet(q)
<1>1. CASE Status = "sent"
  <2>1. cmd' = [mod |-> cmd.mod, status |-> "enoent"] /\ wq' = QueueWork(q, "complete")
    BY <1>1, TypeFacts DEF Abort, Status
  <2>2. cmd'.mod = cmd.mod /\ Status' = "enoent"
    BY <2>1 DEF Status
  <2>3. "complete" \in Items
    BY DEF Items
  <2> QED
    BY <1>1, <2>1, <2>2, <2>3, QueuedOnce, TypeFacts
<1>2. CASE Status # "sent"
  BY <1>2 DEF Abort, Status, TypeOK, Mods
<1> QED
  BY <1>1, <1>2

\* The end of a completion, on a workqueue that q stands for.
LEMMA CompletedFacts ==
  ASSUME TypeOK, NEW q \in Seq(Items), Distinct(q), Completed(q)
  PROVE  /\ cmd' \in [mod : Mods, status : {"none", "sent", "ok", "error", "enoent", "done"}]
         /\ wq' \in Seq(Items) /\ Distinct(wq') /\ cmd'.mod = cmd.mod /\ Status' = "done"
         /\ ToSet(wq') = ToSet(q) \cup {"cmd"}
<1>1. cmd' = [mod |-> cmd.mod, status |-> "done"] /\ wq' = QueueWork(q, "cmd")
  BY TypeFacts DEF Completed, Status
<1>2. "cmd" \in Items
  BY DEF Items
<1>3. cmd'.mod = cmd.mod /\ Status' = "done"
  BY <1>1 DEF Status
<1> QED
  BY <1>1, <1>2, <1>3, QueuedOnce, TypeFacts

\* The item that runs is the first of the workqueue.
LEMMA RunsFacts ==
  ASSUME TypeOK, NEW w, NEW n, Runs(w, n)
  PROVE  /\ worker = "idle" /\ worker' = n /\ Waits(w)
         /\ Tail(wq) \in Seq(Items) /\ Distinct(Tail(wq))
         /\ ToSet(Tail(wq)) = ToSet(wq) \ {w}
  BY TypeFacts, TailOff DEF Runs, Waits

\* The index after pn533_poll_next_mod().
LEMMA NextInside ==
  ASSUME NEW n \in 1 .. 6, NEW c \in Nat
  PROVE  (c + 1) % n \in 0 .. n - 1
  OBVIOUS

\* The three ends of pn533_start_poll_complete().
TargetFound ==
  /\ cmd.status = "ok" /\ Current # Listen
  /\ Runs("complete", "idle")
  /\ tgt_available' = TRUE /\ polling' = FALSE /\ poll_mod_count' = 0
  /\ misparsed' = (misparsed \/ cmd.mod # poll_mod_curr)
  /\ raced' = (raced \/ timer # "off" \/ "poll" \in ToSet(wq))
  /\ Completed(Tail(wq))
  /\ UNCHANGED <<poll_mod_active, poll_mod_curr, cancel_listen, tgt_mode, timer, cmd_queue,
                 core, oops, bounds, stalled>>
NothingFound ==
  /\ cmd.status = "ok" /\ Current # Listen
  /\ Runs("complete", "idle") /\ poll_mod_count = 0
  /\ Completed(Tail(wq))
  /\ UNCHANGED <<tgt_available, polling, poll_mod_count, misparsed, raced, poll_mod_active,
                 poll_mod_curr, cancel_listen, tgt_mode, timer, cmd_queue, core, oops, bounds,
                 stalled>>
NothingYet ==
  /\ cmd.status = "ok" /\ Current # Listen
  /\ Runs("complete", "next_mod") /\ poll_mod_count # 0
  /\ wq' = Tail(wq)
  /\ UNCHANGED <<tgt_available, polling, poll_mod_count, misparsed, raced, cmd, poll_mod_active,
                 poll_mod_curr, cancel_listen, tgt_mode, timer, cmd_queue, core, oops, bounds,
                 stalled>>

LEMMA CompleteCases == pn533_start_poll_complete => TargetFound \/ NothingFound \/ NothingYet
  BY DEF pn533_start_poll_complete, TargetFound, NothingFound, NothingYet

LEMMA Empty ==
  ASSUME NEW S, NEW s \in Seq(S), Len(s) = 0
  PROVE  s = <<>>
  OBVIOUS

LEMMA NoElements ==
  ASSUME NEW S, NEW s \in Seq(S), s # <<>>, Len(s) = 1
  PROVE  Tail(s) = <<>>
<1>1. Tail(s) \in Seq(S) /\ Len(Tail(s)) = 0
  BY SeqFacts
<1> QED
  BY <1>1, Empty

LEMMA Joined ==
  ASSUME NEW S, NEW s \in Seq(S), NEW t \in Seq(S)
  PROVE  /\ s \o t \in Seq(S) /\ Len(s \o t) = Len(s) + Len(t)
         /\ Len(s) \in Nat /\ Len(t) \in Nat
         /\ s # <<>> => (s \o t)[1] = s[1] /\ s[1] \in S
  OBVIOUS

LEMMA EmptyJoined ==
  ASSUME NEW S, NEW t \in Seq(S)
  PROVE  <<>> \o t = t
  OBVIOUS

\* pn533_poll_create_mod_list(): at most the six modulations, and listening first only
\* if there is nothing to poll for.
LEMMA ModListFacts ==
  ASSUME NEW im, NEW tm, NEW mods, mods = ModList(im, tm), mods # <<>>
  PROVE  /\ mods \in Seq(0..5) /\ Len(mods) \in 1 .. 6
         /\ mods[1] = 5 => Len(mods) = 1
<1> DEFINE a == IF "mifare" \in im THEN <<0>> ELSE <<>>
           b == IF "felica" \in im THEN <<1, 2>> ELSE <<>>
           c == IF "jewel" \in im THEN <<3>> ELSE <<>>
           d == IF "b" \in im THEN <<4>> ELSE <<>>
           e == IF tm THEN <<5>> ELSE <<>>
           P == 0..4
           x == ((a \o b) \o c) \o d
<1>m. mods = x \o e
  BY DEF ModList, Listen
<1>a. a \in Seq(P) /\ Len(a) <= 1 /\ Len(a) \in Nat
  <2>1. <<0>> \in Seq(P) /\ Len(<<0>>) = 1
    OBVIOUS
  <2>2. <<>> \in Seq(P) /\ Len(<<>>) = 0
    OBVIOUS
  <2>3. CASE "mifare" \in im
    <3>1. a = <<0>>
      BY <2>3
    <3> HIDE DEF a
    <3> QED
      BY <2>1, <3>1
  <2>4. CASE ~("mifare" \in im)
    <3>1. a = <<>>
      BY <2>4
    <3> HIDE DEF a
    <3> QED
      BY <2>2, <3>1
  <2> QED
    BY <2>3, <2>4
<1>b. b \in Seq(P) /\ Len(b) <= 2 /\ Len(b) \in Nat
  <2>1. <<1, 2>> \in Seq(P) /\ Len(<<1, 2>>) = 2
    OBVIOUS
  <2>2. <<>> \in Seq(P) /\ Len(<<>>) = 0
    OBVIOUS
  <2>3. CASE "felica" \in im
    <3>1. b = <<1, 2>>
      BY <2>3
    <3> HIDE DEF b
    <3> QED
      BY <2>1, <3>1
  <2>4. CASE ~("felica" \in im)
    <3>1. b = <<>>
      BY <2>4
    <3> HIDE DEF b
    <3> QED
      BY <2>2, <3>1
  <2> QED
    BY <2>3, <2>4
<1>c. c \in Seq(P) /\ Len(c) <= 1 /\ Len(c) \in Nat
  <2>1. <<3>> \in Seq(P) /\ Len(<<3>>) = 1
    OBVIOUS
  <2>2. <<>> \in Seq(P) /\ Len(<<>>) = 0
    OBVIOUS
  <2>3. CASE "jewel" \in im
    <3>1. c = <<3>>
      BY <2>3
    <3> HIDE DEF c
    <3> QED
      BY <2>1, <3>1
  <2>4. CASE ~("jewel" \in im)
    <3>1. c = <<>>
      BY <2>4
    <3> HIDE DEF c
    <3> QED
      BY <2>2, <3>1
  <2> QED
    BY <2>3, <2>4
<1>d. d \in Seq(P) /\ Len(d) <= 1 /\ Len(d) \in Nat
  <2>1. <<4>> \in Seq(P) /\ Len(<<4>>) = 1
    OBVIOUS
  <2>2. <<>> \in Seq(P) /\ Len(<<>>) = 0
    OBVIOUS
  <2>3. CASE "b" \in im
    <3>1. d = <<4>>
      BY <2>3
    <3> HIDE DEF d
    <3> QED
      BY <2>1, <3>1
  <2>4. CASE ~("b" \in im)
    <3>1. d = <<>>
      BY <2>4
    <3> HIDE DEF d
    <3> QED
      BY <2>2, <3>1
  <2> QED
    BY <2>3, <2>4
<1>e. e \in Seq(0..5) /\ Len(e) <= 1 /\ Len(e) \in Nat
  <2>1. <<5>> \in Seq(0..5) /\ Len(<<5>>) = 1
    OBVIOUS
  <2>2. <<>> \in Seq(0..5) /\ Len(<<>>) = 0
    OBVIOUS
  <2>3. CASE tm
    <3>1. e = <<5>>
      BY <2>3
    <3> HIDE DEF e
    <3> QED
      BY <2>1, <3>1
  <2>4. CASE ~(tm)
    <3>1. e = <<>>
      BY <2>4
    <3> HIDE DEF e
    <3> QED
      BY <2>2, <3>1
  <2> QED
    BY <2>3, <2>4
<1>p. \A s \in Seq(P) : s \in Seq(0..5)
  OBVIOUS
<1>q. \A i \in P : i # 5
  OBVIOUS
<1> HIDE DEF a, b, c, d, e, P
<1>1. a \o b \in Seq(P) /\ Len(a \o b) <= 3
  BY <1>a, <1>b, Joined
<1>2. (a \o b) \o c \in Seq(P) /\ Len((a \o b) \o c) <= 4
  BY <1>1, <1>c, Joined
<1>3. x \in Seq(P) /\ Len(x) <= 5 /\ Len(x) \in Nat
  BY <1>2, <1>d, Joined
<1> HIDE DEF x
<1>4. mods \in Seq(0..5) /\ Len(mods) <= 6 /\ Len(mods) \in Nat \ {0}
  <2> DEFINE M == 0..5
  <2>1. x \in Seq(M) /\ e \in Seq(M)
    BY <1>3, <1>e, <1>p
  <2> HIDE DEF M
  <2>2. mods \in Seq(M) /\ Len(mods) = Len(x) + Len(e)
    BY <1>m, <2>1, Joined
  <2>3. Len(mods) \in Nat \ {0}
    BY <2>2, SeqFacts
  <2> QED
    BY <1>3, <1>e, <2>2, <2>3 DEF M
<1>5. Len(mods) \in 1 .. 6
  <2>1. \A k \in Nat \ {0} : k <= 6 => k \in 1 .. 6
    OBVIOUS
  <2> QED
    BY <1>4, <2>1
<1>6. CASE x = <<>>
  <2>1. mods = e
    BY <1>m, <1>6, <1>e, EmptyJoined
  <2> QED
    BY <1>4, <1>5, <1>e, <2>1, SMTT(40)
<1>7. CASE x # <<>>
  <2>1. mods[1] = x[1] /\ x[1] \in P
    <3>1. x \in Seq(0..5)
      BY <1>3, <1>p
    <3>2. mods[1] = x[1]
      BY <1>m, <1>7, <1>e, <3>1, Joined
    <3> QED
      BY <1>3, <1>7, <3>2, SeqFacts
  <2> QED
    BY <1>4, <1>5, <1>q, <2>1
<1> QED
  BY <1>6, <1>7

LEMMA UrbCompleteStep ==
  ASSUME PollInv, oops = "none", UrbComplete
  PROVE  PollInv'
<1>i. TypeOK /\ PathOK /\ Alive /\ (~raced => Unraced) /\ Parsed
  BY DEF PollInv
<1> DEFINE W == ToSet(wq)
<1>e. /\ Status = "sent" /\ Status' \in {"ok", "error"} /\ cmd'.mod = cmd.mod
      /\ cmd' \in [mod : Mods, status : {"none", "sent", "ok", "error", "enoent", "done"}]
      /\ wq' \in Seq(Items) /\ Distinct(wq') /\ ToSet(wq') = W \cup {"complete"}
      /\ Current' = Current /\ errors' \in 0..MaxErrors
      /\ UNCHANGED <<poll_mod_active, poll_mod_count, poll_mod_curr, cancel_listen, tgt_mode,
                      tgt_available, timer, worker, cmd_queue, core, polling, oops, polls,
                      raced, stalled, misparsed>>
  <2>1. wq' = QueueWork(wq, "complete") /\ "complete" \in Items
    BY DEF UrbComplete, Items
  <2>2. wq' \in Seq(Items) /\ Distinct(wq') /\ ToSet(wq') = W \cup {"complete"}
    BY <1>i, <2>1, TypeFacts, QueuedOnce
  <2>3. PICK st \in {"ok", "error"} : cmd' = [mod |-> cmd.mod, status |-> st]
    BY <1>i, TypeFacts DEF UrbComplete, Status
  <2>4. Status' \in {"ok", "error"} /\ cmd'.mod = cmd.mod
    BY <2>3 DEF Status
  <2>5. errors' \in 0..MaxErrors
    BY <1>i, PollAssumption DEF UrbComplete, Error, TypeOK
  <2> QED
    BY <1>i, <2>2, <2>3, <2>4, <2>5, TypeFacts
       DEF UrbComplete, Status, Current, list, target, ghosts
<1>y. TypeOK'
  BY <1>i, <1>e DEF TypeOK, Items, Mods, Distinct
<1>r. ~raced' => ~raced
  BY <1>i, <1>e DEF TypeOK
<1> HIDE DEF W
<1>1. PathOK'
  BY <1>i, <1>e DEF W, PathOK, Alive, Waits, Sends, Queued, Status
<1>2. Alive'
  BY <1>i, <1>e DEF W, PathOK, Alive, Waits, Sends, Queued, Status
<1>3. ASSUME ~raced' PROVE Unraced'
  <2>1. Unraced /\ ~raced
    BY <1>i, <1>r, <1>3
  <2>2. Sending'
    BY <1>i, <1>e, <2>1 DEF W, Unraced, PathOK, Sending, Turning, Timing, Behind, Flying,
         Moving, Rests, Starting, Ends, Quiet, Waits, Sends, Queued, Status
  <2>3. Turning'
    BY <1>i, <1>e, <2>1 DEF W, Unraced, PathOK, Sending, Turning, Timing, Behind, Flying,
         Moving, Rests, Starting, Ends, Quiet, Waits, Sends, Queued, Status
  <2>4. Timing'
    BY <1>i, <1>e, <2>1 DEF W, Unraced, PathOK, Sending, Turning, Timing, Behind, Flying,
         Moving, Rests, Starting, Ends, Quiet, Waits, Sends, Queued, Status
  <2>5. Behind'
    BY <1>i, <1>e, <2>1 DEF W, Unraced, PathOK, Sending, Turning, Timing, Behind, Flying,
         Moving, Rests, Starting, Ends, Quiet, Waits, Sends, Queued, Status
  <2>6. Flying'
    BY <1>i, <1>e, <2>1 DEF W, Unraced, PathOK, Sending, Turning, Timing, Behind, Flying,
         Moving, Rests, Starting, Ends, Quiet, Waits, Sends, Queued, Status
  <2>7. Moving'
    BY <1>i, <1>e, <2>1 DEF W, Unraced, PathOK, Sending, Turning, Timing, Behind, Flying,
         Moving, Rests, Starting, Ends, Quiet, Waits, Sends, Queued, Status
  <2>8. Rests'
    BY <1>i, <1>e, <2>1 DEF W, Unraced, PathOK, Sending, Turning, Timing, Behind, Flying,
         Moving, Rests, Starting, Ends, Quiet, Waits, Sends, Queued, Status
  <2>9. Starting'
    BY <1>i, <1>e, <2>1 DEF W, Unraced, PathOK, Sending, Turning, Timing, Behind, Flying,
         Moving, Rests, Starting, Ends, Quiet, Waits, Sends, Queued, Status
  <2>10. Ends'
    BY <1>i, <1>e, <2>1 DEF W, Unraced, PathOK, Sending, Turning, Timing, Behind, Flying,
         Moving, Rests, Starting, Ends, Quiet, Waits, Sends, Queued, Status
  <2>11. oops' = "none"
    BY <1>e, <2>1 DEF Unraced, Timing, Moving
  <2> QED
    BY <2>2, <2>3, <2>4, <2>5, <2>6, <2>7, <2>8, <2>9, <2>10, <2>11 DEF Unraced
<1>4. Parsed'
  BY <1>i, <1>e DEF Parsed
<1> QED
  BY <1>y, <1>1, <1>2, <1>3, <1>4 DEF PollInv

LEMMA TimerFiresStep ==
  ASSUME PollInv, oops = "none", TimerFires
  PROVE  PollInv'
<1>i. TypeOK /\ PathOK /\ Alive /\ (~raced => Unraced) /\ Parsed
  BY DEF PollInv
<1> DEFINE W == ToSet(wq)
<1>e. /\ timer = "armed" /\ timer' = "running" /\ cancel_listen' = TRUE
      /\ Current' = Current /\ ToSet(wq') = W /\ Status' = Status
      /\ UNCHANGED <<poll_mod_active, poll_mod_count, poll_mod_curr, tgt_mode, tgt_available, wq,
                      worker, cmd, cmd_queue, core, polling, oops, polls, errors, raced, stalled,
                      misparsed>>
  BY DEF TimerFires, Status, Current, list, target, ghosts, bounds
<1>y. TypeOK'
  BY <1>i, <1>e DEF TypeOK
<1>r. ~raced' => ~raced
  BY <1>i, <1>e DEF TypeOK
<1> HIDE DEF W
<1>1. PathOK'
  BY <1>i, <1>e DEF W, PathOK, Alive, Waits, Sends, Queued, Status
<1>2. Alive'
  BY <1>i, <1>e DEF W, PathOK, Alive, Waits, Sends, Queued, Status
<1>3. ASSUME ~raced' PROVE Unraced'
  <2>1. Unraced /\ ~raced
    BY <1>i, <1>r, <1>3
  <2>2. Sending'
    BY <1>i, <1>e, <2>1 DEF W, Unraced, PathOK, Sending, Turning, Timing, Behind, Flying,
         Moving, Rests, Starting, Ends, Quiet, Waits, Sends, Queued, Status
  <2>3. Turning'
    BY <1>i, <1>e, <2>1 DEF W, Unraced, PathOK, Sending, Turning, Timing, Behind, Flying,
         Moving, Rests, Starting, Ends, Quiet, Waits, Sends, Queued, Status
  <2>4. Timing'
    BY <1>i, <1>e, <2>1 DEF W, Unraced, PathOK, Sending, Turning, Timing, Behind, Flying,
         Moving, Rests, Starting, Ends, Quiet, Waits, Sends, Queued, Status
  <2>5. Behind'
    BY <1>i, <1>e, <2>1 DEF W, Unraced, PathOK, Sending, Turning, Timing, Behind, Flying,
         Moving, Rests, Starting, Ends, Quiet, Waits, Sends, Queued, Status
  <2>6. Flying'
    BY <1>i, <1>e, <2>1 DEF W, Unraced, PathOK, Sending, Turning, Timing, Behind, Flying,
         Moving, Rests, Starting, Ends, Quiet, Waits, Sends, Queued, Status
  <2>7. Moving'
    BY <1>i, <1>e, <2>1 DEF W, Unraced, PathOK, Sending, Turning, Timing, Behind, Flying,
         Moving, Rests, Starting, Ends, Quiet, Waits, Sends, Queued, Status
  <2>8. Rests'
    BY <1>i, <1>e, <2>1 DEF W, Unraced, PathOK, Sending, Turning, Timing, Behind, Flying,
         Moving, Rests, Starting, Ends, Quiet, Waits, Sends, Queued, Status
  <2>9. Starting'
    BY <1>i, <1>e, <2>1 DEF W, Unraced, PathOK, Sending, Turning, Timing, Behind, Flying,
         Moving, Rests, Starting, Ends, Quiet, Waits, Sends, Queued, Status
  <2>10. Ends'
    BY <1>i, <1>e, <2>1 DEF W, Unraced, PathOK, Sending, Turning, Timing, Behind, Flying,
         Moving, Rests, Starting, Ends, Quiet, Waits, Sends, Queued, Status
  <2>11. oops' = "none"
    BY <1>e, <2>1 DEF Unraced, Timing, Moving
  <2> QED
    BY <2>2, <2>3, <2>4, <2>5, <2>6, <2>7, <2>8, <2>9, <2>10, <2>11 DEF Unraced
<1>4. Parsed'
  BY <1>i, <1>e DEF Parsed
<1> QED
  BY <1>y, <1>1, <1>2, <1>3, <1>4 DEF PollInv

LEMMA pn533_listen_mode_timerStep ==
  ASSUME PollInv, oops = "none", pn533_listen_mode_timer
  PROVE  PollInv'
<1>i. TypeOK /\ PathOK /\ Alive /\ (~raced => Unraced) /\ Parsed
  BY DEF PollInv
<1> DEFINE W == ToSet(wq)
<1>e. /\ timer = "running" /\ timer' = "off" /\ Status' = Status
      /\ wq' \in Seq(Items) /\ Distinct(wq') /\ ToSet(wq') = W \cup {"poll"}
      /\ poll_mod_count = 0 => oops' = "division" /\ poll_mod_curr' = poll_mod_curr
      /\ poll_mod_count # 0 =>
           oops' = oops /\ poll_mod_curr' = (poll_mod_curr + 1) % poll_mod_count
      /\ UNCHANGED <<poll_mod_active, poll_mod_count, cancel_listen, tgt_mode, tgt_available,
                      worker, cmd, cmd_queue, core, polling, polls, errors, raced, stalled,
                      misparsed>>
  <2>1. wq' = QueueWork(wq, "poll") /\ "poll" \in Items
    BY DEF pn533_listen_mode_timer, Items
  <2>2. wq' \in Seq(Items) /\ Distinct(wq') /\ ToSet(wq') = W \cup {"poll"}
    BY <1>i, <2>1, TypeFacts, QueuedOnce
  <2> QED
    BY <2>2 DEF pn533_listen_mode_timer, pn533_poll_next_mod, Status, target, ghosts, bounds
<1>y. TypeOK'
  <2>1. poll_mod_curr' \in 0..Listen /\ (poll_mod_count > 0 => poll_mod_curr' < poll_mod_count)
    <3>1. CASE poll_mod_count = 0
      BY <1>i, <1>e, <3>1 DEF TypeOK, Listen
    <3>2. CASE poll_mod_count # 0
      <4>1. poll_mod_count \in 1 .. 6 /\ poll_mod_curr \in Nat
        BY <1>i, <3>2 DEF TypeOK, Listen
      <4>2. poll_mod_curr' \in 0 .. poll_mod_count - 1
        BY <1>e, <3>2, <4>1, NextInside
      <4> QED
        BY <4>1, <4>2 DEF Listen
    <3> QED
      BY <3>1, <3>2
  <2> QED
    BY <1>i, <1>e, <2>1 DEF TypeOK, Items, Mods, Distinct
<1>r. ~raced' => ~raced
  BY <1>i, <1>e DEF TypeOK
<1> HIDE DEF W
<1>1. PathOK'
  BY <1>i, <1>e DEF W, PathOK, Alive, Waits, Sends, Queued, Status
<1>2. Alive'
  BY <1>i, <1>e DEF W, PathOK, Alive, Waits, Sends, Queued, Status
<1>3. ASSUME ~raced' PROVE Unraced'
  <2>1. Unraced /\ ~raced
    BY <1>i, <1>r, <1>3
  <2>2. Sending'
    BY <1>i, <1>e, <2>1 DEF W, Unraced, PathOK, Sending, Turning, Timing, Behind, Flying,
         Moving, Rests, Starting, Ends, Quiet, Waits, Sends, Queued, Status
  <2>3. Turning'
    BY <1>i, <1>e, <2>1 DEF W, Unraced, PathOK, Sending, Turning, Timing, Behind, Flying,
         Moving, Rests, Starting, Ends, Quiet, Waits, Sends, Queued, Status
  <2>4. Timing'
    BY <1>i, <1>e, <2>1 DEF W, Unraced, PathOK, Sending, Turning, Timing, Behind, Flying,
         Moving, Rests, Starting, Ends, Quiet, Waits, Sends, Queued, Status
  <2>5. Behind'
    BY <1>i, <1>e, <2>1 DEF W, Unraced, PathOK, Sending, Turning, Timing, Behind, Flying,
         Moving, Rests, Starting, Ends, Quiet, Waits, Sends, Queued, Status
  <2>6. Flying'
    BY <1>i, <1>e, <2>1 DEF W, Unraced, PathOK, Sending, Turning, Timing, Behind, Flying,
         Moving, Rests, Starting, Ends, Quiet, Waits, Sends, Queued, Status
  <2>7. Moving'
    BY <1>i, <1>e, <2>1 DEF W, Unraced, PathOK, Sending, Turning, Timing, Behind, Flying,
         Moving, Rests, Starting, Ends, Quiet, Waits, Sends, Queued, Status
  <2>8. Rests'
    BY <1>i, <1>e, <2>1 DEF W, Unraced, PathOK, Sending, Turning, Timing, Behind, Flying,
         Moving, Rests, Starting, Ends, Quiet, Waits, Sends, Queued, Status
  <2>9. Starting'
    BY <1>i, <1>e, <2>1 DEF W, Unraced, PathOK, Sending, Turning, Timing, Behind, Flying,
         Moving, Rests, Starting, Ends, Quiet, Waits, Sends, Queued, Status
  <2>10. Ends'
    BY <1>i, <1>e, <2>1 DEF W, Unraced, PathOK, Sending, Turning, Timing, Behind, Flying,
         Moving, Rests, Starting, Ends, Quiet, Waits, Sends, Queued, Status
  <2>11. oops' = "none"
    BY <1>e, <2>1 DEF Unraced, Timing, Moving
  <2> QED
    BY <2>2, <2>3, <2>4, <2>5, <2>6, <2>7, <2>8, <2>9, <2>10, <2>11 DEF Unraced
<1>4. Parsed'
  BY <1>i, <1>e DEF Parsed
<1> QED
  BY <1>y, <1>1, <1>2, <1>3, <1>4 DEF PollInv

LEMMA pn533_wq_pollStep ==
  ASSUME PollInv, oops = "none", pn533_wq_poll
  PROVE  PollInv'
<1>i. TypeOK /\ PathOK /\ Alive /\ (~raced => Unraced) /\ Parsed
  BY DEF PollInv
<1> DEFINE W == ToSet(wq)
<1>e. /\ worker = "idle" /\ Waits("poll")
      /\ worker' = IF Current = Listen THEN "send_listen" ELSE "send"
      /\ cmd' \in [mod : Mods, status : {"none", "sent", "ok", "error", "enoent", "done"}]
      /\ wq' \in Seq(Items) /\ Distinct(wq') /\ cmd'.mod = cmd.mod /\ Current' = Current
      /\ \/ /\ cancel_listen /\ Status = "sent" /\ Status' = "enoent"
            /\ ToSet(wq') = (W \ {"poll"}) \cup {"complete"}
         \/ /\ ~cancel_listen \/ Status # "sent"
            /\ Status' = Status /\ cmd' = cmd /\ ToSet(wq') = W \ {"poll"}
      /\ cancel_listen' = FALSE /\ raced' = (raced \/ (cancel_listen /\ Status # "sent"))
      /\ UNCHANGED <<poll_mod_active, poll_mod_count, poll_mod_curr, tgt_mode, tgt_available,
                      timer, cmd_queue, core, polling, oops, polls, errors, stalled, misparsed>>
  <2>1. Runs("poll", IF Current = Listen THEN "send_listen" ELSE "send")
    BY DEF pn533_wq_poll
  <2>2. /\ worker = "idle" /\ worker' = IF Current = Listen THEN "send_listen" ELSE "send"
        /\ Waits("poll") /\ Tail(wq) \in Seq(Items) /\ Distinct(Tail(wq))
        /\ ToSet(Tail(wq)) = W \ {"poll"}
    BY <1>i, <2>1, RunsFacts
  <2>u. /\ cancel_listen' = FALSE /\ raced' = (raced \/ (cancel_listen /\ Status # "sent"))
        /\ Current' = Current
        /\ UNCHANGED <<poll_mod_active, poll_mod_count, poll_mod_curr, tgt_mode, tgt_available,
                       timer, cmd_queue, core, polling, oops, polls, errors, stalled, misparsed>>
    BY DEF pn533_wq_poll, list, target, bounds, Status, Current
  <2>3. CASE cancel_listen
    <3>1. Abort(Tail(wq))
      BY <2>3 DEF pn533_wq_poll
    <3>2. /\ cmd' \in [mod : Mods, status : {"none", "sent", "ok", "error", "enoent", "done"}]
          /\ wq' \in Seq(Items) /\ Distinct(wq') /\ cmd'.mod = cmd.mod
          /\ \/ /\ Status = "sent" /\ Status' = "enoent"
                /\ ToSet(wq') = ToSet(Tail(wq)) \cup {"complete"}
             \/ Status # "sent" /\ UNCHANGED cmd /\ ToSet(wq') = ToSet(Tail(wq))
      BY <1>i, <2>2, <3>1, AbortFacts
    <3> QED
      BY <2>2, <2>u, <2>3, <3>2 DEF Status
  <2>4. CASE ~cancel_listen
    <3>1. wq' = Tail(wq) /\ cmd' = cmd
      BY <2>4 DEF pn533_wq_poll
    <3> QED
      BY <1>i, <2>2, <2>u, <2>4, <3>1 DEF Status, TypeOK, Mods
  <2> QED
    BY <2>3, <2>4
<1>y. TypeOK'
  BY <1>i, <1>e, ZenonT(40) DEF TypeOK, Items, Mods, Distinct
<1>r. ~raced' => ~raced /\ (cancel_listen => Status = "sent")
  BY <1>i, <1>e DEF TypeOK
<1> HIDE DEF W
<1>1. PathOK'
  BY <1>i, <1>e DEF W, PathOK, Alive, Waits, Sends, Queued, Status
<1>2. Alive'
  BY <1>i, <1>e DEF W, PathOK, Alive, Waits, Sends, Queued, Status
<1>3. ASSUME ~raced' PROVE Unraced'
  <2>1. Unraced /\ ~raced /\ (cancel_listen => Status = "sent")
    BY <1>i, <1>r, <1>3
  <2>2. Sending'
    BY <1>i, <1>e, <2>1 DEF W, Unraced, PathOK, Sending, Turning, Timing, Behind, Flying,
         Moving, Rests, Starting, Ends, Quiet, Waits, Sends, Queued, Status
  <2>3. Turning'
    BY <1>i, <1>e, <2>1 DEF W, Unraced, PathOK, Sending, Turning, Timing, Behind, Flying,
         Moving, Rests, Starting, Ends, Quiet, Waits, Sends, Queued, Status
  <2>4. Timing'
    BY <1>i, <1>e, <2>1 DEF W, Unraced, PathOK, Sending, Turning, Timing, Behind, Flying,
         Moving, Rests, Starting, Ends, Quiet, Waits, Sends, Queued, Status
  <2>5. Behind'
    BY <1>i, <1>e, <2>1 DEF W, Unraced, PathOK, Sending, Turning, Timing, Behind, Flying,
         Moving, Rests, Starting, Ends, Quiet, Waits, Sends, Queued, Status
  <2>6. Flying'
    BY <1>i, <1>e, <2>1 DEF W, Unraced, PathOK, Sending, Turning, Timing, Behind, Flying,
         Moving, Rests, Starting, Ends, Quiet, Waits, Sends, Queued, Status
  <2>7. Moving'
    BY <1>i, <1>e, <2>1 DEF W, Unraced, PathOK, Sending, Turning, Timing, Behind, Flying,
         Moving, Rests, Starting, Ends, Quiet, Waits, Sends, Queued, Status
  <2>8. Rests'
    BY <1>i, <1>e, <2>1 DEF W, Unraced, PathOK, Sending, Turning, Timing, Behind, Flying,
         Moving, Rests, Starting, Ends, Quiet, Waits, Sends, Queued, Status
  <2>9. Starting'
    BY <1>i, <1>e, <2>1 DEF W, Unraced, PathOK, Sending, Turning, Timing, Behind, Flying,
         Moving, Rests, Starting, Ends, Quiet, Waits, Sends, Queued, Status
  <2>10. Ends'
    BY <1>i, <1>e, <2>1 DEF W, Unraced, PathOK, Sending, Turning, Timing, Behind, Flying,
         Moving, Rests, Starting, Ends, Quiet, Waits, Sends, Queued, Status
  <2>11. oops' = "none"
    BY <1>e, <2>1 DEF Unraced, Timing, Moving
  <2> QED
    BY <2>2, <2>3, <2>4, <2>5, <2>6, <2>7, <2>8, <2>9, <2>10, <2>11 DEF Unraced
<1>4. Parsed'
  BY <1>i, <1>e DEF Parsed
<1> QED
  BY <1>y, <1>1, <1>2, <1>3, <1>4 DEF PollInv

LEMMA WqPollSendStep ==
  ASSUME PollInv, oops = "none", WqPollSend
  PROVE  PollInv'
<1>i. TypeOK /\ PathOK /\ Alive /\ (~raced => Unraced) /\ Parsed
  BY DEF PollInv
<1> DEFINE W == ToSet(wq)
<1>e. /\ Sends /\ worker' = "idle" /\ timer # "running"
      /\ cmd' \in [mod : Mods, status : {"none", "sent", "ok", "error", "enoent", "done"}]
      /\ cmd_queue' \in Seq(Mods) /\ Current' = Current /\ ToSet(wq') = W
      /\ \/ /\ stalled' = TRUE /\ UNCHANGED <<cmd, cmd_queue, timer>> /\ Status' = Status
         \/ /\ stalled' = stalled
            /\ timer' = IF worker = "send_listen" /\ poll_mod_count > 1 THEN "armed" ELSE timer
            /\ \/ /\ Status = "none" /\ ~Queued /\ ~Queued' /\ Status' = "sent" /\ cmd'.mod = Current
                  /\ UNCHANGED cmd_queue
               \/ /\ Status # "none" /\ Queued' /\ Status' = Status /\ UNCHANGED cmd
                  /\ ~Queued => Len(cmd_queue') = 1 /\ Head(cmd_queue') = Current
      /\ errors' \in 0..MaxErrors
      /\ UNCHANGED <<poll_mod_active, poll_mod_count, poll_mod_curr, cancel_listen, tgt_mode,
                     tgt_available, wq, core, polling, oops, polls, raced, misparsed>>
  <2>u. /\ Sends /\ worker' = "idle" /\ timer # "running" /\ Current' = Current /\ ToSet(wq') = W
        /\ UNCHANGED <<poll_mod_active, poll_mod_count, poll_mod_curr, cancel_listen, tgt_mode,
                       tgt_available, wq, core, polling, oops, polls, raced, misparsed>>
    BY DEF WqPollSend, Sends, Current, list, target
  <2>1. CASE /\ SendCmd(Current)
             /\ timer' = IF worker = "send_listen" /\ poll_mod_count > 1 THEN "armed" ELSE timer
             /\ UNCHANGED <<errors, stalled>>
    <3>1. Current \in Mods
      BY <1>i, TypeFacts
    <3>2. /\ cmd' \in [mod : Mods, status : {"none", "sent", "ok", "error", "enoent", "done"}]
          /\ cmd_queue' \in Seq(Mods)
          /\ \/ /\ Status = "none" /\ ~Queued /\ ~Queued' /\ Status' = "sent" /\ cmd'.mod = Current
                /\ UNCHANGED cmd_queue
             \/ /\ Status # "none" /\ Queued' /\ UNCHANGED cmd
                /\ ~Queued => Len(cmd_queue') = 1 /\ Head(cmd_queue') = Current
      BY <1>i, <2>1, <3>1, SendFacts
    <3>3. cmd' = cmd => Status' = Status
      BY DEF Status
    <3>4. errors' \in 0..MaxErrors
      BY <1>i, <2>1 DEF TypeOK
    <3> QED
      BY <2>u, <2>1, <3>2, <3>3, <3>4
  <2>2. CASE Error /\ stalled' = TRUE /\ UNCHANGED <<cmd, cmd_queue, timer>>
    <3>1. errors' \in 0..MaxErrors /\ Status' = Status
      BY <1>i, <2>2, PollAssumption DEF Error, TypeOK, Status
    <3>2. cmd' \in [mod : Mods, status : {"none", "sent", "ok", "error", "enoent", "done"}]
          /\ cmd_queue' \in Seq(Mods)
      BY <1>i, <2>2, TypeFacts DEF TypeOK, Mods
    <3> QED
      BY <2>u, <2>2, <3>1, <3>2
  <2> QED
    BY <2>1, <2>2 DEF WqPollSend
<1>y. TypeOK'
  <2>1. timer' \in {"off", "armed", "running"} /\ stalled' \in BOOLEAN
    BY <1>i, <1>e DEF TypeOK
  <2>2. worker' = "idle" /\ cmd_queue' \in Seq(Mods) /\ cmd' \in [mod : Mods, status : {"none", "sent", "ok", "error", "enoent", "done"}]
        /\ errors' \in 0..MaxErrors
    BY <1>e
  <2>3. UNCHANGED <<poll_mod_active, poll_mod_count, poll_mod_curr, cancel_listen, tgt_mode,
                    tgt_available, wq, core, polling, oops, polls, raced, misparsed>>
    BY <1>e
  <2> QED
    BY <1>i, <2>1, <2>2, <2>3 DEF TypeOK, Mods
<1>r. ~raced' => ~raced
  BY <1>i, <1>e DEF TypeOK
<1> HIDE DEF W
<1>1. PathOK'
  BY <1>i, <1>e DEF W, PathOK, Alive, Waits, Sends, Queued, Status
<1>2. Alive'
  BY <1>i, <1>e DEF W, PathOK, Alive, Waits, Sends, Queued, Status
<1>3. ASSUME ~raced' PROVE Unraced'
  <2>1. Unraced /\ ~raced
    BY <1>i, <1>r, <1>3
  <2>2. Sending'
    BY <1>i, <1>e, <2>1 DEF W, Unraced, PathOK, Sending, Turning, Timing, Behind, Flying,
         Moving, Rests, Starting, Ends, Quiet, Waits, Sends, Queued, Status
  <2>3. Turning'
    BY <1>i, <1>e, <2>1 DEF W, Unraced, PathOK, Sending, Turning, Timing, Behind, Flying,
         Moving, Rests, Starting, Ends, Quiet, Waits, Sends, Queued, Status
  <2>4. Timing'
    BY <1>i, <1>e, <2>1 DEF W, Unraced, PathOK, Sending, Turning, Timing, Behind, Flying,
         Moving, Rests, Starting, Ends, Quiet, Waits, Sends, Queued, Status
  <2>5. Behind'
    BY <1>i, <1>e, <2>1 DEF W, Unraced, PathOK, Sending, Turning, Timing, Behind, Flying,
         Moving, Rests, Starting, Ends, Quiet, Waits, Sends, Queued, Status
  <2>6. Flying'
    BY <1>i, <1>e, <2>1 DEF W, Unraced, PathOK, Sending, Turning, Timing, Behind, Flying,
         Moving, Rests, Starting, Ends, Quiet, Waits, Sends, Queued, Status
  <2>7. Moving'
    BY <1>i, <1>e, <2>1 DEF W, Unraced, PathOK, Sending, Turning, Timing, Behind, Flying,
         Moving, Rests, Starting, Ends, Quiet, Waits, Sends, Queued, Status
  <2>8. Rests'
    BY <1>i, <1>e, <2>1 DEF W, Unraced, PathOK, Sending, Turning, Timing, Behind, Flying,
         Moving, Rests, Starting, Ends, Quiet, Waits, Sends, Queued, Status
  <2>9. Starting'
    BY <1>i, <1>e, <2>1 DEF W, Unraced, PathOK, Sending, Turning, Timing, Behind, Flying,
         Moving, Rests, Starting, Ends, Quiet, Waits, Sends, Queued, Status
  <2>10. Ends'
    BY <1>i, <1>e, <2>1 DEF W, Unraced, PathOK, Sending, Turning, Timing, Behind, Flying,
         Moving, Rests, Starting, Ends, Quiet, Waits, Sends, Queued, Status
  <2>11. oops' = "none"
    BY <1>e, <2>1 DEF Unraced, Timing, Moving
  <2> QED
    BY <2>2, <2>3, <2>4, <2>5, <2>6, <2>7, <2>8, <2>9, <2>10, <2>11 DEF Unraced
<1>4. Parsed'
  BY <1>i, <1>e DEF Parsed
<1> QED
  BY <1>y, <1>1, <1>2, <1>3, <1>4 DEF PollInv

LEMMA PollErrorStep ==
  ASSUME PollInv, oops = "none", PollError
  PROVE  PollInv'
<1>i. TypeOK /\ PathOK /\ Alive /\ (~raced => Unraced) /\ Parsed
  BY DEF PollInv
<1> DEFINE W == ToSet(wq)
<1>e. /\ worker = "idle" /\ worker' = "idle" /\ Waits("complete")
      /\ Status \in {"enoent", "error"} /\ Status' = "done" /\ cmd'.mod = cmd.mod
      /\ cmd' \in [mod : Mods, status : {"none", "sent", "ok", "error", "enoent", "done"}]
      /\ wq' \in Seq(Items) /\ Distinct(wq') /\ Current' = Current
      /\ ToSet(wq') = (W \ {"complete"}) \cup {"cmd"}
      /\ \/ /\ Status = "enoent" /\ poll_mod_count # 0
            /\ poll_mod_count' = poll_mod_count /\ raced' = raced
         \/ /\ ~(Status = "enoent" /\ poll_mod_count # 0)
            /\ poll_mod_count' = 0 /\ raced' = (raced \/ timer # "off")
      /\ UNCHANGED <<poll_mod_active, poll_mod_curr, cancel_listen, tgt_mode, tgt_available, timer,
                     cmd_queue, core, polling, oops, polls, errors, stalled, misparsed>>
  <2>1. Runs("complete", "idle") /\ Completed(Tail(wq))
    BY DEF PollError
  <2>2. /\ worker = "idle" /\ worker' = "idle" /\ Waits("complete")
        /\ Tail(wq) \in Seq(Items) /\ Distinct(Tail(wq)) /\ ToSet(Tail(wq)) = W \ {"complete"}
    BY <1>i, <2>1, RunsFacts
  <2>3. /\ cmd' \in [mod : Mods, status : {"none", "sent", "ok", "error", "enoent", "done"}]
        /\ wq' \in Seq(Items) /\ Distinct(wq') /\ cmd'.mod = cmd.mod /\ Status' = "done"
        /\ ToSet(wq') = ToSet(Tail(wq)) \cup {"cmd"}
    BY <1>i, <2>1, <2>2, CompletedFacts
  <2>4. \/ /\ Status = "enoent" /\ poll_mod_count # 0
           /\ poll_mod_count' = poll_mod_count /\ raced' = raced
        \/ /\ ~(Status = "enoent" /\ poll_mod_count # 0)
           /\ poll_mod_count' = 0 /\ raced' = (raced \/ timer # "off")
    BY DEF PollError, StopPollLabel, Status
  <2> QED
    BY <2>2, <2>3, <2>4 DEF PollError, Status, Current, target, bounds
<1>y. TypeOK'
  <2>1. poll_mod_count' = poll_mod_count \/ poll_mod_count' = 0
    BY <1>e
  <2>2. raced' \in BOOLEAN
    BY <1>i, <1>e DEF TypeOK
  <2> QED
    BY <1>i, <1>e, <2>1, <2>2, SMTT(40) DEF TypeOK, Items, Mods, Distinct, Listen
<1>r. ~raced' => ~raced /\ (poll_mod_count' = poll_mod_count \/ timer = "off")
  BY <1>i, <1>e DEF TypeOK
<1> HIDE DEF W
<1>1. PathOK'
  BY <1>i, <1>e DEF W, PathOK, Alive, Waits, Sends, Queued, Status
<1>2. Alive'
  BY <1>i, <1>e DEF W, PathOK, Alive, Waits, Sends, Queued, Status
<1>3. ASSUME ~raced' PROVE Unraced'
  <2>1. Unraced /\ ~raced /\ (poll_mod_count' = poll_mod_count \/ timer = "off")
    BY <1>i, <1>r, <1>3
  <2>2. Sending'
    BY <1>i, <1>e, <2>1 DEF W, Unraced, PathOK, Sending, Turning, Timing, Behind, Flying,
         Moving, Rests, Starting, Ends, Quiet, Waits, Sends, Queued, Status
  <2>3. Turning'
    BY <1>i, <1>e, <2>1 DEF W, Unraced, PathOK, Sending, Turning, Timing, Behind, Flying,
         Moving, Rests, Starting, Ends, Quiet, Waits, Sends, Queued, Status
  <2>4. Timing'
    BY <1>i, <1>e, <2>1 DEF W, Unraced, PathOK, Sending, Turning, Timing, Behind, Flying,
         Moving, Rests, Starting, Ends, Quiet, Waits, Sends, Queued, Status
  <2>5. Behind'
    BY <1>i, <1>e, <2>1 DEF W, Unraced, PathOK, Sending, Turning, Timing, Behind, Flying,
         Moving, Rests, Starting, Ends, Quiet, Waits, Sends, Queued, Status
  <2>6. Flying'
    BY <1>i, <1>e, <2>1 DEF W, Unraced, PathOK, Sending, Turning, Timing, Behind, Flying,
         Moving, Rests, Starting, Ends, Quiet, Waits, Sends, Queued, Status
  <2>7. Moving'
    BY <1>i, <1>e, <2>1 DEF W, Unraced, PathOK, Sending, Turning, Timing, Behind, Flying,
         Moving, Rests, Starting, Ends, Quiet, Waits, Sends, Queued, Status
  <2>8. Rests'
    BY <1>i, <1>e, <2>1 DEF W, Unraced, PathOK, Sending, Turning, Timing, Behind, Flying,
         Moving, Rests, Starting, Ends, Quiet, Waits, Sends, Queued, Status
  <2>9. Starting'
    BY <1>i, <1>e, <2>1 DEF W, Unraced, PathOK, Sending, Turning, Timing, Behind, Flying,
         Moving, Rests, Starting, Ends, Quiet, Waits, Sends, Queued, Status
  <2>10. Ends'
    BY <1>i, <1>e, <2>1 DEF W, Unraced, PathOK, Sending, Turning, Timing, Behind, Flying,
         Moving, Rests, Starting, Ends, Quiet, Waits, Sends, Queued, Status
  <2>11. oops' = "none"
    BY <1>e, <2>1 DEF Unraced, Timing, Moving
  <2> QED
    BY <2>2, <2>3, <2>4, <2>5, <2>6, <2>7, <2>8, <2>9, <2>10, <2>11 DEF Unraced
<1>4. Parsed'
  <2>1. raced => raced'
    BY <1>e
  <2>2. poll_mod_active' = poll_mod_active /\ misparsed' = misparsed
    BY <1>e
  <2> QED
    BY <1>i, <2>1, <2>2 DEF Parsed
<1> QED
  BY <1>y, <1>1, <1>2, <1>3, <1>4 DEF PollInv

LEMMA pn533_init_target_completeStep ==
  ASSUME PollInv, oops = "none", pn533_init_target_complete
  PROVE  PollInv'
<1>i. TypeOK /\ PathOK /\ Alive /\ (~raced => Unraced) /\ Parsed
  BY DEF PollInv
<1> DEFINE W == ToSet(wq)
<1>e. /\ worker = "idle" /\ worker' = "idle" /\ Waits("complete")
      /\ Status = "ok" /\ Status' = "done" /\ Current = Listen /\ Current' = Current
      /\ cmd' \in [mod : Mods, status : {"none", "sent", "ok", "error", "enoent", "done"}] /\ cmd'.mod = cmd.mod
      /\ wq' \in Seq(Items) /\ Distinct(wq')
      /\ timer' = (IF timer = "armed" THEN "off" ELSE timer)
      /\ raced' = (raced \/ timer = "running" \/ Waits("poll"))
      /\ misparsed' = (misparsed \/ cmd.mod # Listen)
      /\ \/ /\ tgt_mode' = TRUE /\ polling' = FALSE /\ stalled' = stalled
            /\ ToSet(wq') = (W \ {"complete"}) \cup {"tg", "cmd"}
         \/ /\ stalled' = TRUE /\ UNCHANGED <<tgt_mode, polling>>
            /\ ToSet(wq') = (W \ {"complete"}) \cup {"cmd"}
      /\ UNCHANGED <<poll_mod_active, poll_mod_count, poll_mod_curr, cancel_listen, tgt_available,
                     cmd_queue, core, oops, polls, errors>>
  <2>1. Runs("complete", "idle")
    BY DEF pn533_init_target_complete
  <2>2. /\ worker = "idle" /\ worker' = "idle" /\ Waits("complete")
        /\ Tail(wq) \in Seq(Items) /\ Distinct(Tail(wq)) /\ ToSet(Tail(wq)) = W \ {"complete"}
    BY <1>i, <2>1, RunsFacts
  <2>u. /\ Status = "ok" /\ Current = Listen /\ Current' = Current
        /\ timer' = (IF timer = "armed" THEN "off" ELSE timer)
        /\ raced' = (raced \/ timer = "running" \/ Waits("poll"))
        /\ misparsed' = (misparsed \/ cmd.mod # Listen)
        /\ UNCHANGED <<poll_mod_active, poll_mod_count, poll_mod_curr, cancel_listen, tgt_available,
                       cmd_queue, core, oops, polls, errors>>
    BY DEF pn533_init_target_complete, DelTimer, Status, Current, Waits, list, bounds
  <2>3. CASE /\ tgt_mode' = TRUE /\ polling' = FALSE
             /\ Completed(QueueWork(Tail(wq), "tg")) /\ UNCHANGED stalled
    <3> DEFINE q == QueueWork(Tail(wq), "tg")
    <3>1. "tg" \in Items
      BY DEF Items
    <3>2. q \in Seq(Items) /\ Distinct(q) /\ ToSet(q) = ToSet(Tail(wq)) \cup {"tg"}
      BY <2>2, <3>1, QueuedOnce
    <3>q. Completed(q)
      BY <2>3
    <3> HIDE DEF q
    <3>3. /\ cmd' \in [mod : Mods, status : {"none", "sent", "ok", "error", "enoent", "done"}]
          /\ wq' \in Seq(Items) /\ Distinct(wq') /\ cmd'.mod = cmd.mod /\ Status' = "done"
          /\ ToSet(wq') = ToSet(q) \cup {"cmd"}
      BY <1>i, <3>q, <3>2, CompletedFacts
    <3>4. ToSet(wq') = (W \ {"complete"}) \cup {"tg", "cmd"}
      BY <2>2, <3>2, <3>3
    <3> QED
      BY <2>2, <2>u, <2>3, <3>3, <3>4
  <2>4. CASE /\ stalled' = TRUE
             /\ Completed(Tail(wq)) /\ UNCHANGED <<tgt_mode, polling>>
    <3>3. /\ cmd' \in [mod : Mods, status : {"none", "sent", "ok", "error", "enoent", "done"}]
          /\ wq' \in Seq(Items) /\ Distinct(wq') /\ cmd'.mod = cmd.mod /\ Status' = "done"
          /\ ToSet(wq') = ToSet(Tail(wq)) \cup {"cmd"}
      BY <1>i, <2>2, <2>4, CompletedFacts
    <3> QED
      BY <2>2, <2>u, <2>4, <3>3
  <2> QED
    BY <2>3, <2>4 DEF pn533_init_target_complete
<1>y. TypeOK'
  <2>1. raced' \in BOOLEAN /\ misparsed' \in BOOLEAN
    BY <1>i, <1>e DEF TypeOK
  <2> QED
    BY <1>i, <1>e, <2>1 DEF TypeOK, Items, Mods, Distinct
<1>r. ~raced' => ~raced /\ timer # "running" /\ ~Waits("poll")
  BY <1>i, <1>e DEF TypeOK
<1> HIDE DEF W
<1>1. PathOK'
  BY <1>i, <1>e DEF W, PathOK, Alive, Waits, Sends, Queued, Status
<1>2. Alive'
  BY <1>i, <1>e DEF W, PathOK, Alive, Waits, Sends, Queued, Status
<1>3. ASSUME ~raced' PROVE Unraced'
  <2>1. Unraced /\ ~raced /\ timer # "running" /\ ~Waits("poll")
    BY <1>i, <1>r, <1>3
  <2>2. Sending'
    BY <1>i, <1>e, <2>1 DEF W, Unraced, PathOK, Sending, Turning, Timing, Behind, Flying,
         Moving, Rests, Starting, Ends, Quiet, Waits, Sends, Queued, Status
  <2>3. Turning'
    BY <1>i, <1>e, <2>1 DEF W, Unraced, PathOK, Sending, Turning, Timing, Behind, Flying,
         Moving, Rests, Starting, Ends, Quiet, Waits, Sends, Queued, Status
  <2>4. Timing'
    BY <1>i, <1>e, <2>1 DEF W, Unraced, PathOK, Sending, Turning, Timing, Behind, Flying,
         Moving, Rests, Starting, Ends, Quiet, Waits, Sends, Queued, Status
  <2>5. Behind'
    BY <1>i, <1>e, <2>1 DEF W, Unraced, PathOK, Sending, Turning, Timing, Behind, Flying,
         Moving, Rests, Starting, Ends, Quiet, Waits, Sends, Queued, Status
  <2>6. Flying'
    BY <1>i, <1>e, <2>1 DEF W, Unraced, PathOK, Sending, Turning, Timing, Behind, Flying,
         Moving, Rests, Starting, Ends, Quiet, Waits, Sends, Queued, Status
  <2>7. Moving'
    BY <1>i, <1>e, <2>1 DEF W, Unraced, PathOK, Sending, Turning, Timing, Behind, Flying,
         Moving, Rests, Starting, Ends, Quiet, Waits, Sends, Queued, Status
  <2>8. Rests'
    <3>1. ~Queued /\ timer' = "off"
      BY <1>i, <1>e, <2>1 DEF Unraced, Behind, TypeOK
    <3>2. "poll" \notin ToSet(wq')
      BY <1>e, <2>1 DEF W, Waits
    <3> QED
      BY <1>e, <3>1, <3>2 DEF Rests, Quiet, Queued, Status
  <2>9. Starting'
    BY <1>i, <1>e, <2>1 DEF W, Unraced, PathOK, Sending, Turning, Timing, Behind, Flying,
         Moving, Rests, Starting, Ends, Quiet, Waits, Sends, Queued, Status
  <2>10. Ends'
    BY <1>i, <1>e, <2>1 DEF W, Unraced, PathOK, Sending, Turning, Timing, Behind, Flying,
         Moving, Rests, Starting, Ends, Quiet, Waits, Sends, Queued, Status
  <2>11. oops' = "none"
    BY <1>e, <2>1 DEF Unraced, Timing, Moving
  <2> QED
    BY <2>2, <2>3, <2>4, <2>5, <2>6, <2>7, <2>8, <2>9, <2>10, <2>11 DEF Unraced
<1>4. Parsed'
  <2>1. ASSUME ~raced' PROVE misparsed' = misparsed /\ ~raced
    <3>1. cmd.mod = Listen /\ ~raced
      BY <1>i, <1>e, <1>r, <2>1 DEF Unraced, Flying
    <3> QED
      BY <1>i, <1>e, <3>1 DEF TypeOK
  <2>2. poll_mod_active' = poll_mod_active
    BY <1>e
  <2> QED
    BY <1>i, <2>1, <2>2 DEF Parsed
<1> QED
  BY <1>y, <1>1, <1>2, <1>3, <1>4 DEF PollInv

LEMMA TargetFoundStep ==
  ASSUME PollInv, oops = "none", TargetFound
  PROVE  PollInv'
<1>i. TypeOK /\ PathOK /\ Alive /\ (~raced => Unraced) /\ Parsed
  BY DEF PollInv
<1> DEFINE W == ToSet(wq)
<1>e. /\ worker = "idle" /\ Waits("complete") /\ Status = "ok"
      /\ Current # Listen /\ Current' = Current
      /\ cmd' \in [mod : Mods, status : {"none", "sent", "ok", "error", "enoent", "done"}] /\ cmd'.mod = cmd.mod
      /\ wq' \in Seq(Items) /\ Distinct(wq')
      /\ worker' = "idle" /\ tgt_available' = TRUE /\ polling' = FALSE
      /\ poll_mod_count' = 0 /\ misparsed' = (misparsed \/ cmd.mod # poll_mod_curr)
      /\ raced' = (raced \/ timer # "off" \/ Waits("poll")) /\ Status' = "done"
      /\ ToSet(wq') = (W \ {"complete"}) \cup {"cmd"}
      /\ UNCHANGED <<poll_mod_active, poll_mod_curr, cancel_listen, tgt_mode, timer, cmd_queue,
                     core, oops, polls, errors, stalled>>
  <2>u. /\ Status = "ok" /\ Current # Listen /\ Current' = Current
        /\ UNCHANGED <<poll_mod_active, poll_mod_curr, cancel_listen, tgt_mode, timer, cmd_queue,
                       core, oops, polls, errors, stalled>>
    BY DEF TargetFound, Status, Current, bounds
  <2>1. Runs("complete", "idle") /\ Completed(Tail(wq))
    BY DEF TargetFound
  <2>2. /\ worker = "idle" /\ worker' = "idle" /\ Waits("complete")
        /\ Tail(wq) \in Seq(Items) /\ Distinct(Tail(wq)) /\ ToSet(Tail(wq)) = W \ {"complete"}
    BY <1>i, <2>1, RunsFacts
  <2>3. /\ cmd' \in [mod : Mods, status : {"none", "sent", "ok", "error", "enoent", "done"}]
        /\ wq' \in Seq(Items) /\ Distinct(wq') /\ cmd'.mod = cmd.mod /\ Status' = "done"
        /\ ToSet(wq') = ToSet(Tail(wq)) \cup {"cmd"}
    BY <1>i, <2>1, <2>2, CompletedFacts
  <2> QED
    BY <2>u, <2>2, <2>3 DEF TargetFound, Waits
<1>y. TypeOK'
  <2>2. raced' \in BOOLEAN /\ misparsed' \in BOOLEAN
    BY <1>i, <1>e DEF TypeOK
  <2>b. polling' \in BOOLEAN
    BY Zenon DEF TargetFound
  <2>3. /\ worker' = "idle" /\ tgt_available' = TRUE /\ poll_mod_count' = 0
        /\ cmd' \in [mod : Mods, status : {"none", "sent", "ok", "error", "enoent", "done"}]
        /\ wq' \in Seq(Items) /\ Distinct(wq')
        /\ UNCHANGED <<poll_mod_active, poll_mod_curr, cancel_listen, tgt_mode, timer, cmd_queue,
                       core, oops, polls, errors, stalled>>
    BY <1>e
  <2> QED
    BY <1>i, <2>b, <2>2, <2>3 DEF TypeOK, Items, Mods, Distinct, Listen
<1>r. ~raced' => ~raced /\ timer = "off" /\ ~Waits("poll")
  BY <1>i, <1>e DEF TypeOK
<1> HIDE DEF W
<1>1. PathOK'
  BY <1>i, <1>e DEF W, PathOK, Alive, Waits, Sends, Queued, Status
<1>2. Alive'
  BY <1>i, <1>e DEF W, PathOK, Alive, Waits, Sends, Queued, Status
<1>3. ASSUME ~raced' PROVE Unraced'
  <2>1. Unraced /\ ~raced /\ timer = "off" /\ ~Waits("poll")
    BY <1>i, <1>r, <1>3
  <2>2. Sending'
    BY <1>i, <1>e, <2>1 DEF W, Unraced, PathOK, Sending, Turning, Timing, Behind, Flying,
         Moving, Rests, Starting, Ends, Quiet, Waits, Sends, Queued, Status
  <2>3. Turning'
    BY <1>i, <1>e, <2>1 DEF W, Unraced, PathOK, Sending, Turning, Timing, Behind, Flying,
         Moving, Rests, Starting, Ends, Quiet, Waits, Sends, Queued, Status
  <2>4. Timing'
    BY <1>i, <1>e, <2>1 DEF W, Unraced, PathOK, Sending, Turning, Timing, Behind, Flying,
         Moving, Rests, Starting, Ends, Quiet, Waits, Sends, Queued, Status
  <2>5. Behind'
    BY <1>i, <1>e, <2>1 DEF W, Unraced, PathOK, Sending, Turning, Timing, Behind, Flying,
         Moving, Rests, Starting, Ends, Quiet, Waits, Sends, Queued, Status
  <2>6. Flying'
    BY <1>i, <1>e, <2>1 DEF W, Unraced, PathOK, Sending, Turning, Timing, Behind, Flying,
         Moving, Rests, Starting, Ends, Quiet, Waits, Sends, Queued, Status
  <2>7. Moving'
    BY <1>i, <1>e, <2>1 DEF W, Unraced, PathOK, Sending, Turning, Timing, Behind, Flying,
         Moving, Rests, Starting, Ends, Quiet, Waits, Sends, Queued, Status
  <2>8. Rests'
    BY <1>i, <1>e, <2>1 DEF W, Unraced, PathOK, Sending, Turning, Timing, Behind, Flying,
         Moving, Rests, Starting, Ends, Quiet, Waits, Sends, Queued, Status
  <2>9. Starting'
    BY <1>i, <1>e, <2>1 DEF W, Unraced, PathOK, Sending, Turning, Timing, Behind, Flying,
         Moving, Rests, Starting, Ends, Quiet, Waits, Sends, Queued, Status
  <2>10. Ends'
    BY <1>i, <1>e, <2>1 DEF W, Unraced, PathOK, Sending, Turning, Timing, Behind, Flying,
         Moving, Rests, Starting, Ends, Quiet, Waits, Sends, Queued, Status
  <2>11. oops' = "none"
    BY <1>e, <2>1 DEF Unraced, Timing, Moving
  <2> QED
    BY <2>2, <2>3, <2>4, <2>5, <2>6, <2>7, <2>8, <2>9, <2>10, <2>11 DEF Unraced
<1>4. Parsed'
  <2>1. ASSUME ~raced', misparsed' # misparsed,
               \A i \in 0..Listen : poll_mod_active[i] \in {i, NoMod, Listen}
        PROVE  FALSE
    <3>2. cmd.mod = Current /\ poll_mod_count > 0
      BY <1>i, <1>e, <1>r, <2>1 DEF Unraced, Flying
    <3>3. poll_mod_curr \in 0..Listen /\ Current # NoMod
      BY <1>i, <3>2, TypeFacts DEF TypeOK, Current
    <3>4. Current = poll_mod_curr
      BY <1>e, <2>1, <3>3 DEF Current
    <3> QED
      BY <1>i, <1>e, <2>1, <3>2, <3>4 DEF TypeOK
  <2>2. raced => raced'
    BY <1>e
  <2>3. poll_mod_active' = poll_mod_active
    BY <1>e
  <2> QED
    BY <1>i, <2>1, <2>2, <2>3 DEF Parsed
<1> QED
  BY <1>y, <1>1, <1>2, <1>3, <1>4 DEF PollInv

LEMMA NothingFoundStep ==
  ASSUME PollInv, oops = "none", NothingFound
  PROVE  PollInv'
<1>i. TypeOK /\ PathOK /\ Alive /\ (~raced => Unraced) /\ Parsed
  BY DEF PollInv
<1> DEFINE W == ToSet(wq)
<1>e. /\ worker = "idle" /\ Waits("complete") /\ Status = "ok"
      /\ Current # Listen /\ Current' = Current
      /\ cmd' \in [mod : Mods, status : {"none", "sent", "ok", "error", "enoent", "done"}] /\ cmd'.mod = cmd.mod
      /\ wq' \in Seq(Items) /\ Distinct(wq')
      /\ worker' = "idle" /\ poll_mod_count = 0 /\ Status' = "done"
      /\ ToSet(wq') = (W \ {"complete"}) \cup {"cmd"}
      /\ UNCHANGED <<tgt_available, polling, poll_mod_count, misparsed, raced>>
      /\ UNCHANGED <<poll_mod_active, poll_mod_curr, cancel_listen, tgt_mode, timer, cmd_queue,
                     core, oops, polls, errors, stalled>>
  <2>u. /\ Status = "ok" /\ Current # Listen /\ Current' = Current
        /\ UNCHANGED <<poll_mod_active, poll_mod_curr, cancel_listen, tgt_mode, timer, cmd_queue,
                       core, oops, polls, errors, stalled>>
    BY DEF NothingFound, Status, Current, bounds
  <2>1. Runs("complete", "idle") /\ Completed(Tail(wq))
    BY DEF NothingFound
  <2>2. /\ worker = "idle" /\ worker' = "idle" /\ Waits("complete")
        /\ Tail(wq) \in Seq(Items) /\ Distinct(Tail(wq)) /\ ToSet(Tail(wq)) = W \ {"complete"}
    BY <1>i, <2>1, RunsFacts
  <2>3. /\ cmd' \in [mod : Mods, status : {"none", "sent", "ok", "error", "enoent", "done"}]
        /\ wq' \in Seq(Items) /\ Distinct(wq') /\ cmd'.mod = cmd.mod /\ Status' = "done"
        /\ ToSet(wq') = ToSet(Tail(wq)) \cup {"cmd"}
    BY <1>i, <2>1, <2>2, CompletedFacts
  <2> QED
    BY <2>u, <2>2, <2>3 DEF NothingFound, Waits
<1>y. TypeOK'
  BY <1>i, <1>e DEF TypeOK, Items, Mods, Distinct
<1>r. ~raced' => ~raced
  BY <1>i, <1>e DEF TypeOK
<1> HIDE DEF W
<1>1. PathOK'
  BY <1>i, <1>e DEF W, PathOK, Alive, Waits, Sends, Queued, Status
<1>2. Alive'
  BY <1>i, <1>e DEF W, PathOK, Alive, Waits, Sends, Queued, Status
<1>3. ASSUME ~raced' PROVE Unraced'
  <2>1. Unraced /\ ~raced
    BY <1>i, <1>r, <1>3
  <2>2. Sending'
    BY <1>i, <1>e, <2>1 DEF W, Unraced, PathOK, Sending, Turning, Timing, Behind, Flying,
         Moving, Rests, Starting, Ends, Quiet, Waits, Sends, Queued, Status
  <2>3. Turning'
    BY <1>i, <1>e, <2>1 DEF W, Unraced, PathOK, Sending, Turning, Timing, Behind, Flying,
         Moving, Rests, Starting, Ends, Quiet, Waits, Sends, Queued, Status
  <2>4. Timing'
    BY <1>i, <1>e, <2>1 DEF W, Unraced, PathOK, Sending, Turning, Timing, Behind, Flying,
         Moving, Rests, Starting, Ends, Quiet, Waits, Sends, Queued, Status
  <2>5. Behind'
    BY <1>i, <1>e, <2>1 DEF W, Unraced, PathOK, Sending, Turning, Timing, Behind, Flying,
         Moving, Rests, Starting, Ends, Quiet, Waits, Sends, Queued, Status
  <2>6. Flying'
    BY <1>i, <1>e, <2>1 DEF W, Unraced, PathOK, Sending, Turning, Timing, Behind, Flying,
         Moving, Rests, Starting, Ends, Quiet, Waits, Sends, Queued, Status
  <2>7. Moving'
    BY <1>i, <1>e, <2>1 DEF W, Unraced, PathOK, Sending, Turning, Timing, Behind, Flying,
         Moving, Rests, Starting, Ends, Quiet, Waits, Sends, Queued, Status
  <2>8. Rests'
    BY <1>i, <1>e, <2>1 DEF W, Unraced, PathOK, Sending, Turning, Timing, Behind, Flying,
         Moving, Rests, Starting, Ends, Quiet, Waits, Sends, Queued, Status
  <2>9. Starting'
    BY <1>i, <1>e, <2>1 DEF W, Unraced, PathOK, Sending, Turning, Timing, Behind, Flying,
         Moving, Rests, Starting, Ends, Quiet, Waits, Sends, Queued, Status
  <2>10. Ends'
    BY <1>i, <1>e, <2>1 DEF W, Unraced, PathOK, Sending, Turning, Timing, Behind, Flying,
         Moving, Rests, Starting, Ends, Quiet, Waits, Sends, Queued, Status
  <2>11. oops' = "none"
    BY <1>e, <2>1 DEF Unraced, Timing, Moving
  <2> QED
    BY <2>2, <2>3, <2>4, <2>5, <2>6, <2>7, <2>8, <2>9, <2>10, <2>11 DEF Unraced
<1>4. Parsed'
  BY <1>i, <1>e DEF Parsed
<1> QED
  BY <1>y, <1>1, <1>2, <1>3, <1>4 DEF PollInv

LEMMA NothingYetStep ==
  ASSUME PollInv, oops = "none", NothingYet
  PROVE  PollInv'
<1>i. TypeOK /\ PathOK /\ Alive /\ (~raced => Unraced) /\ Parsed
  BY DEF PollInv
<1> DEFINE W == ToSet(wq)
<1>e. /\ worker = "idle" /\ Waits("complete") /\ Status = "ok"
      /\ Current # Listen /\ Current' = Current
      /\ cmd' \in [mod : Mods, status : {"none", "sent", "ok", "error", "enoent", "done"}] /\ cmd'.mod = cmd.mod
      /\ wq' \in Seq(Items) /\ Distinct(wq')
      /\ worker' = "next_mod" /\ poll_mod_count # 0 /\ Status' = "ok"
      /\ ToSet(wq') = W \ {"complete"}
      /\ UNCHANGED <<tgt_available, polling, poll_mod_count, misparsed, raced>>
      /\ UNCHANGED <<poll_mod_active, poll_mod_curr, cancel_listen, tgt_mode, timer, cmd_queue,
                     core, oops, polls, errors, stalled>>
  <2>u. /\ Status = "ok" /\ Current # Listen /\ Current' = Current /\ Status' = "ok"
        /\ UNCHANGED <<poll_mod_active, poll_mod_curr, cancel_listen, tgt_mode, timer, cmd_queue,
                       core, oops, polls, errors, stalled, cmd>>
    BY DEF NothingYet, Status, Current, bounds
  <2>1. Runs("complete", "next_mod") /\ wq' = Tail(wq)
    BY DEF NothingYet
  <2>2. /\ worker = "idle" /\ worker' = "next_mod" /\ Waits("complete")
        /\ Tail(wq) \in Seq(Items) /\ Distinct(Tail(wq)) /\ ToSet(Tail(wq)) = W \ {"complete"}
    BY <1>i, <2>1, RunsFacts
  <2>3. cmd' \in [mod : Mods, status : {"none", "sent", "ok", "error", "enoent", "done"}]
    BY <1>i, <2>u DEF TypeOK, Mods
  <2> QED
    BY <2>u, <2>1, <2>2, <2>3 DEF NothingYet
<1>y. TypeOK'
  BY <1>i, <1>e DEF TypeOK, Items, Mods, Distinct
<1>r. ~raced' => ~raced
  BY <1>i, <1>e DEF TypeOK
<1> HIDE DEF W
<1>1. PathOK'
  BY <1>i, <1>e DEF W, PathOK, Alive, Waits, Sends, Queued, Status
<1>2. Alive'
  BY <1>i, <1>e DEF W, PathOK, Alive, Waits, Sends, Queued, Status
<1>3. ASSUME ~raced' PROVE Unraced'
  <2>1. Unraced /\ ~raced
    BY <1>i, <1>r, <1>3
  <2>2. Sending'
    BY <1>i, <1>e, <2>1 DEF W, Unraced, PathOK, Sending, Turning, Timing, Behind, Flying,
         Moving, Rests, Starting, Ends, Quiet, Waits, Sends, Queued, Status
  <2>3. Turning'
    BY <1>i, <1>e, <2>1 DEF W, Unraced, PathOK, Sending, Turning, Timing, Behind, Flying,
         Moving, Rests, Starting, Ends, Quiet, Waits, Sends, Queued, Status
  <2>4. Timing'
    BY <1>i, <1>e, <2>1 DEF W, Unraced, PathOK, Sending, Turning, Timing, Behind, Flying,
         Moving, Rests, Starting, Ends, Quiet, Waits, Sends, Queued, Status
  <2>5. Behind'
    BY <1>i, <1>e, <2>1 DEF W, Unraced, PathOK, Sending, Turning, Timing, Behind, Flying,
         Moving, Rests, Starting, Ends, Quiet, Waits, Sends, Queued, Status
  <2>6. Flying'
    BY <1>i, <1>e, <2>1 DEF W, Unraced, PathOK, Sending, Turning, Timing, Behind, Flying,
         Moving, Rests, Starting, Ends, Quiet, Waits, Sends, Queued, Status
  <2>7. Moving'
    BY <1>i, <1>e, <2>1 DEF W, Unraced, PathOK, Sending, Turning, Timing, Behind, Flying,
         Moving, Rests, Starting, Ends, Quiet, Waits, Sends, Queued, Status
  <2>8. Rests'
    BY <1>i, <1>e, <2>1 DEF W, Unraced, PathOK, Sending, Turning, Timing, Behind, Flying,
         Moving, Rests, Starting, Ends, Quiet, Waits, Sends, Queued, Status
  <2>9. Starting'
    BY <1>i, <1>e, <2>1 DEF W, Unraced, PathOK, Sending, Turning, Timing, Behind, Flying,
         Moving, Rests, Starting, Ends, Quiet, Waits, Sends, Queued, Status
  <2>10. Ends'
    BY <1>i, <1>e, <2>1 DEF W, Unraced, PathOK, Sending, Turning, Timing, Behind, Flying,
         Moving, Rests, Starting, Ends, Quiet, Waits, Sends, Queued, Status
  <2>11. oops' = "none"
    BY <1>e, <2>1 DEF Unraced, Timing, Moving
  <2> QED
    BY <2>2, <2>3, <2>4, <2>5, <2>6, <2>7, <2>8, <2>9, <2>10, <2>11 DEF Unraced
<1>4. Parsed'
  BY <1>i, <1>e DEF Parsed
<1> QED
  BY <1>y, <1>1, <1>2, <1>3, <1>4 DEF PollInv

LEMMA PollNextStep ==
  ASSUME PollInv, oops = "none", PollNext
  PROVE  PollInv'
<1>i. TypeOK /\ PathOK /\ Alive /\ (~raced => Unraced) /\ Parsed
  BY DEF PollInv
<1> DEFINE W == ToSet(wq)
<1>e. /\ worker = "next_mod" /\ worker' = "idle" /\ Status' = "done" /\ cmd'.mod = cmd.mod
      /\ cmd' \in [mod : Mods, status : {"none", "sent", "ok", "error", "enoent", "done"}]
      /\ wq' \in Seq(Items) /\ Distinct(wq') /\ ToSet(wq') = W \cup {"poll", "cmd"}
      /\ poll_mod_count = 0 => oops' = "division" /\ poll_mod_curr' = poll_mod_curr
      /\ poll_mod_count # 0 =>
           oops' = oops /\ poll_mod_curr' = (poll_mod_curr + 1) % poll_mod_count
      /\ UNCHANGED <<poll_mod_active, poll_mod_count, cancel_listen, tgt_mode, tgt_available, timer,
                     cmd_queue, core, polling, polls, errors, raced, stalled, misparsed>>
  <2> DEFINE q == QueueWork(wq, "poll")
  <2>1. "poll" \in Items
    BY DEF Items
  <2>2. q \in Seq(Items) /\ Distinct(q) /\ ToSet(q) = W \cup {"poll"}
    BY <1>i, <2>1, TypeFacts, QueuedOnce
  <2>q. Completed(q)
    BY DEF PollNext
  <2> HIDE DEF q
  <2>3. /\ cmd' \in [mod : Mods, status : {"none", "sent", "ok", "error", "enoent", "done"}]
        /\ wq' \in Seq(Items) /\ Distinct(wq') /\ cmd'.mod = cmd.mod /\ Status' = "done"
        /\ ToSet(wq') = ToSet(q) \cup {"cmd"}
    BY <1>i, <2>q, <2>2, CompletedFacts
  <2>4. ToSet(wq') = W \cup {"poll", "cmd"}
    BY <2>2, <2>3
  <2> QED
    BY <2>3, <2>4 DEF PollNext, pn533_poll_next_mod, target, bounds, ghosts
<1>y. TypeOK'
  <2>1. poll_mod_curr' \in 0..Listen /\ (poll_mod_count > 0 => poll_mod_curr' < poll_mod_count)
    <3>1. CASE poll_mod_count = 0
      BY <1>i, <1>e, <3>1 DEF TypeOK, Listen
    <3>2. CASE poll_mod_count # 0
      <4>1. poll_mod_count \in 1 .. 6 /\ poll_mod_curr \in Nat
        BY <1>i, <3>2 DEF TypeOK, Listen
      <4>2. poll_mod_curr' \in 0 .. poll_mod_count - 1
        BY <1>e, <3>2, <4>1, NextInside
      <4> QED
        BY <4>1, <4>2 DEF Listen
    <3> QED
      BY <3>1, <3>2
  <2> QED
    BY <1>i, <1>e, <2>1 DEF TypeOK, Items, Mods, Distinct
<1>r. ~raced' => ~raced
  BY <1>i, <1>e DEF TypeOK
<1> HIDE DEF W
<1>1. PathOK'
  BY <1>i, <1>e DEF W, PathOK, Alive, Waits, Sends, Queued, Status
<1>2. Alive'
  BY <1>i, <1>e DEF W, PathOK, Alive, Waits, Sends, Queued, Status
<1>3. ASSUME ~raced' PROVE Unraced'
  <2>1. Unraced /\ ~raced
    BY <1>i, <1>r, <1>3
  <2>2. Sending'
    BY <1>i, <1>e, <2>1 DEF W, Unraced, PathOK, Sending, Turning, Timing, Behind, Flying,
         Moving, Rests, Starting, Ends, Quiet, Waits, Sends, Queued, Status
  <2>3. Turning'
    BY <1>i, <1>e, <2>1 DEF W, Unraced, PathOK, Sending, Turning, Timing, Behind, Flying,
         Moving, Rests, Starting, Ends, Quiet, Waits, Sends, Queued, Status
  <2>4. Timing'
    BY <1>i, <1>e, <2>1 DEF W, Unraced, PathOK, Sending, Turning, Timing, Behind, Flying,
         Moving, Rests, Starting, Ends, Quiet, Waits, Sends, Queued, Status
  <2>5. Behind'
    BY <1>i, <1>e, <2>1 DEF W, Unraced, PathOK, Sending, Turning, Timing, Behind, Flying,
         Moving, Rests, Starting, Ends, Quiet, Waits, Sends, Queued, Status
  <2>6. Flying'
    BY <1>i, <1>e, <2>1 DEF W, Unraced, PathOK, Sending, Turning, Timing, Behind, Flying,
         Moving, Rests, Starting, Ends, Quiet, Waits, Sends, Queued, Status
  <2>7. Moving'
    BY <1>i, <1>e, <2>1 DEF W, Unraced, PathOK, Sending, Turning, Timing, Behind, Flying,
         Moving, Rests, Starting, Ends, Quiet, Waits, Sends, Queued, Status
  <2>8. Rests'
    BY <1>i, <1>e, <2>1 DEF W, Unraced, PathOK, Sending, Turning, Timing, Behind, Flying,
         Moving, Rests, Starting, Ends, Quiet, Waits, Sends, Queued, Status
  <2>9. Starting'
    BY <1>i, <1>e, <2>1 DEF W, Unraced, PathOK, Sending, Turning, Timing, Behind, Flying,
         Moving, Rests, Starting, Ends, Quiet, Waits, Sends, Queued, Status
  <2>10. Ends'
    BY <1>i, <1>e, <2>1 DEF W, Unraced, PathOK, Sending, Turning, Timing, Behind, Flying,
         Moving, Rests, Starting, Ends, Quiet, Waits, Sends, Queued, Status
  <2>11. oops' = "none"
    BY <1>e, <2>1 DEF Unraced, Timing, Moving
  <2> QED
    BY <2>2, <2>3, <2>4, <2>5, <2>6, <2>7, <2>8, <2>9, <2>10, <2>11 DEF Unraced
<1>4. Parsed'
  BY <1>i, <1>e DEF Parsed
<1> QED
  BY <1>y, <1>1, <1>2, <1>3, <1>4 DEF PollInv

LEMMA pn533_wq_cmdStep ==
  ASSUME PollInv, oops = "none", pn533_wq_cmd
  PROVE  PollInv'
<1>i. TypeOK /\ PathOK /\ Alive /\ (~raced => Unraced) /\ Parsed
  BY DEF PollInv
<1> DEFINE W == ToSet(wq)
<1>e. /\ worker = "idle" /\ worker' = "idle" /\ Waits("cmd")
      /\ cmd' \in [mod : Mods, status : {"none", "sent", "ok", "error", "enoent", "done"}] /\ cmd_queue' \in Seq(Mods)
      /\ wq' \in Seq(Items) /\ Distinct(wq') /\ ToSet(wq') = W \ {"cmd"} /\ Current' = Current
      /\ \/ /\ ~Queued /\ ~Queued' /\ cmd' = NoCmd /\ Status' = "none" /\ stalled' = stalled
         \/ /\ Queued /\ (Len(cmd_queue) = 1 => ~Queued') /\ cmd'.mod = Head(cmd_queue)
            /\ Status' = "sent" /\ stalled' = stalled
         \/ /\ Queued /\ (Len(cmd_queue) = 1 => ~Queued') /\ cmd' = cmd /\ Status' = Status
            /\ stalled' = TRUE
      /\ errors' \in 0..MaxErrors
      /\ UNCHANGED <<poll_mod_active, poll_mod_count, poll_mod_curr, cancel_listen, tgt_mode,
                     tgt_available, timer, core, polling, oops, polls, raced, misparsed>>
  <2>1. Runs("cmd", "idle") /\ wq' = Tail(wq)
    BY DEF pn533_wq_cmd
  <2>2. /\ worker = "idle" /\ worker' = "idle" /\ Waits("cmd")
        /\ Tail(wq) \in Seq(Items) /\ Distinct(Tail(wq)) /\ ToSet(Tail(wq)) = W \ {"cmd"}
    BY <1>i, <2>1, RunsFacts
  <2>u. /\ Current' = Current
        /\ UNCHANGED <<poll_mod_active, poll_mod_count, poll_mod_curr, cancel_listen, tgt_mode,
                       tgt_available, timer, core, polling, oops, polls, raced, misparsed>>
    BY DEF pn533_wq_cmd, list, target, Current
  <2>e. errors' \in 0..MaxErrors
    BY <1>i, PollAssumption, SMTT(40) DEF pn533_wq_cmd, Error, TypeOK
  <2>t. ASSUME Queued
        PROVE  /\ Tail(cmd_queue) \in Seq(Mods) /\ Head(cmd_queue) \in Mods
               /\ Len(cmd_queue) = 1 => Tail(cmd_queue) = <<>>
    <3>1. cmd_queue \in Seq(Mods) /\ cmd_queue # <<>>
      BY <1>i, <2>t, TypeFacts DEF Queued
    <3> QED
      BY <3>1, SeqFacts, NoElements
  <2>3. CASE cmd_queue = <<>> /\ cmd' = NoCmd /\ UNCHANGED <<cmd_queue, errors, stalled>>
    <3>1. Status' = "none" /\ cmd' \in [mod : Mods, status : {"none", "sent", "ok", "error", "enoent", "done"}]
      BY <2>3 DEF Status, NoCmd, Mods, NoMod, Listen
    <3> QED
      BY <1>i, <2>1, <2>2, <2>u, <2>e, <2>3, <3>1, TypeFacts DEF Queued
  <2>4. CASE /\ cmd_queue # <<>> /\ cmd_queue' = Tail(cmd_queue)
             /\ cmd' = [mod |-> Head(cmd_queue), status |-> "sent"] /\ UNCHANGED <<errors, stalled>>
    <3>1. Queued /\ cmd_queue' \in Seq(Mods) /\ (Len(cmd_queue) = 1 => ~Queued')
      BY <2>4, <2>t DEF Queued
    <3>2. /\ Status' = "sent" /\ cmd'.mod = Head(cmd_queue)
          /\ cmd' \in [mod : Mods, status : {"none", "sent", "ok", "error", "enoent", "done"}]
      BY <2>4, <2>t, <3>1 DEF Status
    <3> QED
      BY <2>1, <2>2, <2>u, <2>e, <2>4, <3>1, <3>2
  <2>5. CASE /\ cmd_queue # <<>> /\ cmd_queue' = Tail(cmd_queue)
             /\ Error /\ stalled' = TRUE /\ UNCHANGED cmd
    <3>1. Queued /\ cmd_queue' \in Seq(Mods) /\ (Len(cmd_queue) = 1 => ~Queued')
      BY <2>5, <2>t DEF Queued
    <3>2. cmd' \in [mod : Mods, status : {"none", "sent", "ok", "error", "enoent", "done"}]
          /\ Status' = Status
      BY <1>i, <2>5 DEF Status, TypeOK, Mods
    <3> QED
      BY <2>1, <2>2, <2>u, <2>e, <2>5, <3>1, <3>2
  <2> QED
    BY <2>3, <2>4, <2>5 DEF pn533_wq_cmd
<1>y. TypeOK'
  <2>1. stalled' \in BOOLEAN
    BY <1>i, <1>e DEF TypeOK
  <2> QED
    BY <1>i, <1>e, <2>1 DEF TypeOK, Items, Mods, Distinct
<1>r. ~raced' => ~raced
  BY <1>i, <1>e DEF TypeOK
<1> HIDE DEF W
<1>1. PathOK'
  BY <1>i, <1>e DEF W, PathOK, Alive, Waits, Sends, Queued, Status
<1>2. Alive'
  BY <1>i, <1>e DEF W, PathOK, Alive, Waits, Sends, Queued, Status
<1>3. ASSUME ~raced' PROVE Unraced'
  <2>1. Unraced /\ ~raced
    BY <1>i, <1>r, <1>3
  <2>2. Sending'
    BY <1>i, <1>e, <2>1 DEF W, Unraced, PathOK, Sending, Turning, Timing, Behind, Flying,
         Moving, Rests, Starting, Ends, Quiet, Waits, Sends, Queued, Status
  <2>3. Turning'
    BY <1>i, <1>e, <2>1 DEF W, Unraced, PathOK, Sending, Turning, Timing, Behind, Flying,
         Moving, Rests, Starting, Ends, Quiet, Waits, Sends, Queued, Status
  <2>4. Timing'
    BY <1>i, <1>e, <2>1 DEF W, Unraced, PathOK, Sending, Turning, Timing, Behind, Flying,
         Moving, Rests, Starting, Ends, Quiet, Waits, Sends, Queued, Status
  <2>5. Behind'
    BY <1>i, <1>e, <2>1 DEF W, Unraced, PathOK, Sending, Turning, Timing, Behind, Flying,
         Moving, Rests, Starting, Ends, Quiet, Waits, Sends, Queued, Status
  <2>6. Flying'
    BY <1>i, <1>e, <2>1 DEF W, Unraced, PathOK, Sending, Turning, Timing, Behind, Flying,
         Moving, Rests, Starting, Ends, Quiet, Waits, Sends, Queued, Status
  <2>7. Moving'
    BY <1>i, <1>e, <2>1 DEF W, Unraced, PathOK, Sending, Turning, Timing, Behind, Flying,
         Moving, Rests, Starting, Ends, Quiet, Waits, Sends, Queued, Status
  <2>8. Rests'
    BY <1>i, <1>e, <2>1 DEF W, Unraced, PathOK, Sending, Turning, Timing, Behind, Flying,
         Moving, Rests, Starting, Ends, Quiet, Waits, Sends, Queued, Status
  <2>9. Starting'
    BY <1>i, <1>e, <2>1 DEF W, Unraced, PathOK, Sending, Turning, Timing, Behind, Flying,
         Moving, Rests, Starting, Ends, Quiet, Waits, Sends, Queued, Status
  <2>10. Ends'
    BY <1>i, <1>e, <2>1 DEF W, Unraced, PathOK, Sending, Turning, Timing, Behind, Flying,
         Moving, Rests, Starting, Ends, Quiet, Waits, Sends, Queued, Status
  <2>11. oops' = "none"
    BY <1>e, <2>1 DEF Unraced, Timing, Moving
  <2> QED
    BY <2>2, <2>3, <2>4, <2>5, <2>6, <2>7, <2>8, <2>9, <2>10, <2>11 DEF Unraced
<1>4. Parsed'
  BY <1>i, <1>e DEF Parsed
<1> QED
  BY <1>y, <1>1, <1>2, <1>3, <1>4 DEF PollInv

LEMMA pn533_wq_tg_get_dataStep ==
  ASSUME PollInv, oops = "none", pn533_wq_tg_get_data
  PROVE  PollInv'
<1>i. TypeOK /\ PathOK /\ Alive /\ (~raced => Unraced) /\ Parsed
  BY DEF PollInv
<1> DEFINE W == ToSet(wq)
<1>e. /\ worker = "idle" /\ worker' = "idle" /\ tgt_mode' = FALSE /\ Status' = Status
      /\ wq' \in Seq(Items) /\ Distinct(wq') /\ ToSet(wq') = W \ {"tg"} /\ Current' = Current
      /\ UNCHANGED <<poll_mod_active, poll_mod_count, poll_mod_curr, cancel_listen, tgt_available,
                     timer, cmd, cmd_queue, core, polling, oops, polls, errors, raced, stalled,
                     misparsed>>
  <2>1. Runs("tg", "idle") /\ wq' = Tail(wq)
    BY DEF pn533_wq_tg_get_data
  <2>2. /\ worker = "idle" /\ worker' = "idle" /\ Waits("tg")
        /\ Tail(wq) \in Seq(Items) /\ Distinct(Tail(wq)) /\ ToSet(Tail(wq)) = W \ {"tg"}
    BY <1>i, <2>1, RunsFacts
  <2> QED
    BY <2>1, <2>2 DEF pn533_wq_tg_get_data, Status, Current, list, bounds, ghosts
<1>y. TypeOK'
  <2>1. tgt_mode' \in BOOLEAN
    BY Zenon DEF pn533_wq_tg_get_data
  <2> QED
    BY <1>i, <1>e, <2>1 DEF TypeOK, Items, Mods, Distinct
<1>r. ~raced' => ~raced
  BY <1>i, <1>e DEF TypeOK
<1> HIDE DEF W
<1>1. PathOK'
  BY <1>i, <1>e DEF W, PathOK, Alive, Waits, Sends, Queued, Status
<1>2. Alive'
  BY <1>i, <1>e DEF W, PathOK, Alive, Waits, Sends, Queued, Status
<1>3. ASSUME ~raced' PROVE Unraced'
  <2>1. Unraced /\ ~raced
    BY <1>i, <1>r, <1>3
  <2>2. Sending'
    BY <1>i, <1>e, <2>1 DEF W, Unraced, PathOK, Sending, Turning, Timing, Behind, Flying,
         Moving, Rests, Starting, Ends, Quiet, Waits, Sends, Queued, Status
  <2>3. Turning'
    BY <1>i, <1>e, <2>1 DEF W, Unraced, PathOK, Sending, Turning, Timing, Behind, Flying,
         Moving, Rests, Starting, Ends, Quiet, Waits, Sends, Queued, Status
  <2>4. Timing'
    BY <1>i, <1>e, <2>1 DEF W, Unraced, PathOK, Sending, Turning, Timing, Behind, Flying,
         Moving, Rests, Starting, Ends, Quiet, Waits, Sends, Queued, Status
  <2>5. Behind'
    BY <1>i, <1>e, <2>1 DEF W, Unraced, PathOK, Sending, Turning, Timing, Behind, Flying,
         Moving, Rests, Starting, Ends, Quiet, Waits, Sends, Queued, Status
  <2>6. Flying'
    BY <1>i, <1>e, <2>1 DEF W, Unraced, PathOK, Sending, Turning, Timing, Behind, Flying,
         Moving, Rests, Starting, Ends, Quiet, Waits, Sends, Queued, Status
  <2>7. Moving'
    BY <1>i, <1>e, <2>1 DEF W, Unraced, PathOK, Sending, Turning, Timing, Behind, Flying,
         Moving, Rests, Starting, Ends, Quiet, Waits, Sends, Queued, Status
  <2>8. Rests'
    BY <1>i, <1>e, <2>1 DEF W, Unraced, PathOK, Sending, Turning, Timing, Behind, Flying,
         Moving, Rests, Starting, Ends, Quiet, Waits, Sends, Queued, Status
  <2>9. Starting'
    BY <1>i, <1>e, <2>1 DEF W, Unraced, PathOK, Sending, Turning, Timing, Behind, Flying,
         Moving, Rests, Starting, Ends, Quiet, Waits, Sends, Queued, Status
  <2>10. Ends'
    BY <1>i, <1>e, <2>1 DEF W, Unraced, PathOK, Sending, Turning, Timing, Behind, Flying,
         Moving, Rests, Starting, Ends, Quiet, Waits, Sends, Queued, Status
  <2>11. oops' = "none"
    BY <1>e, <2>1 DEF Unraced, Timing, Moving
  <2> QED
    BY <2>2, <2>3, <2>4, <2>5, <2>6, <2>7, <2>8, <2>9, <2>10, <2>11 DEF Unraced
<1>4. Parsed'
  BY <1>i, <1>e DEF Parsed
<1> QED
  BY <1>y, <1>1, <1>2, <1>3, <1>4 DEF PollInv

LEMMA StartPollSendStep ==
  ASSUME PollInv, oops = "none", StartPollSend
  PROVE  PollInv'
<1>i. TypeOK /\ PathOK /\ Alive /\ (~raced => Unraced) /\ Parsed
  BY DEF PollInv
<1> DEFINE W == ToSet(wq)
<1>e. /\ core = "start" /\ core' = "idle"
      /\ cmd' \in [mod : Mods, status : {"none", "sent", "ok", "error", "enoent", "done"}]
      /\ cmd_queue' \in Seq(Mods) /\ Current' = Current /\ ToSet(wq') = W
      /\ \/ /\ polling' = polling /\ UNCHANGED <<cmd, cmd_queue>> /\ Status' = Status
         \/ /\ polling' = TRUE
            /\ \/ /\ Status = "none" /\ ~Queued /\ ~Queued' /\ Status' = "sent" /\ cmd'.mod = Current
                  /\ UNCHANGED cmd_queue
               \/ /\ Status # "none" /\ Queued' /\ Status' = Status /\ UNCHANGED cmd
                  /\ ~Queued => Len(cmd_queue') = 1 /\ Head(cmd_queue') = Current
      /\ errors' \in 0..MaxErrors
      /\ UNCHANGED <<poll_mod_active, poll_mod_count, poll_mod_curr, cancel_listen, tgt_mode,
                     tgt_available, timer, wq, worker, oops, polls, raced, stalled, misparsed>>
  <2>u. /\ core = "start" /\ core' = "idle" /\ Current' = Current /\ ToSet(wq') = W
        /\ UNCHANGED <<poll_mod_active, poll_mod_count, poll_mod_curr, cancel_listen, tgt_mode,
                       tgt_available, timer, wq, worker, oops, polls, raced, stalled, misparsed>>
    BY DEF StartPollSend, Current, list, target, ghosts
  <2>1. CASE SendCmd(Current) /\ polling' = TRUE /\ UNCHANGED errors
    <3>1. Current \in Mods
      BY <1>i, TypeFacts
    <3>2. /\ cmd' \in [mod : Mods, status : {"none", "sent", "ok", "error", "enoent", "done"}]
          /\ cmd_queue' \in Seq(Mods)
          /\ \/ /\ Status = "none" /\ ~Queued /\ ~Queued' /\ Status' = "sent" /\ cmd'.mod = Current
                /\ UNCHANGED cmd_queue
             \/ /\ Status # "none" /\ Queued' /\ UNCHANGED cmd
                /\ ~Queued => Len(cmd_queue') = 1 /\ Head(cmd_queue') = Current
      BY <1>i, <2>1, <3>1, SendFacts
    <3>3. cmd' = cmd => Status' = Status
      BY DEF Status
    <3>4. errors' \in 0..MaxErrors
      BY <1>i, <2>1 DEF TypeOK
    <3> QED
      BY <2>u, <2>1, <3>2, <3>3, <3>4
  <2>2. CASE Error /\ UNCHANGED <<cmd, cmd_queue, polling>>
    <3>1. errors' \in 0..MaxErrors /\ Status' = Status
      BY <1>i, <2>2, PollAssumption DEF Error, TypeOK, Status
    <3>2. cmd' \in [mod : Mods, status : {"none", "sent", "ok", "error", "enoent", "done"}]
          /\ cmd_queue' \in Seq(Mods)
      BY <1>i, <2>2, TypeFacts DEF TypeOK, Mods
    <3> QED
      BY <2>u, <2>2, <3>1, <3>2
  <2> QED
    BY <2>1, <2>2 DEF StartPollSend
<1>y. TypeOK'
  <2>1. polling' \in BOOLEAN
    BY <1>i, <1>e DEF TypeOK
  <2>2. core' = "idle" /\ cmd_queue' \in Seq(Mods) /\ cmd' \in [mod : Mods, status : {"none", "sent", "ok", "error", "enoent", "done"}]
        /\ errors' \in 0..MaxErrors
    BY <1>e
  <2>3. UNCHANGED <<poll_mod_active, poll_mod_count, poll_mod_curr, cancel_listen, tgt_mode,
                    tgt_available, timer, wq, worker, oops, polls, raced, stalled, misparsed>>
    BY <1>e
  <2> QED
    BY <1>i, <2>1, <2>2, <2>3 DEF TypeOK, Mods
<1>r. ~raced' => ~raced
  BY <1>i, <1>e DEF TypeOK
<1> HIDE DEF W
<1>1. PathOK'
  BY <1>i, <1>e DEF W, PathOK, Alive, Waits, Sends, Queued, Status
<1>2. Alive'
  BY <1>i, <1>e DEF W, PathOK, Alive, Waits, Sends, Queued, Status
<1>3. ASSUME ~raced' PROVE Unraced'
  <2>1. Unraced /\ ~raced
    BY <1>i, <1>r, <1>3
  <2>2. Sending'
    BY <1>i, <1>e, <2>1 DEF W, Unraced, PathOK, Sending, Turning, Timing, Behind, Flying,
         Moving, Rests, Starting, Ends, Quiet, Waits, Sends, Queued, Status
  <2>3. Turning'
    BY <1>i, <1>e, <2>1 DEF W, Unraced, PathOK, Sending, Turning, Timing, Behind, Flying,
         Moving, Rests, Starting, Ends, Quiet, Waits, Sends, Queued, Status
  <2>4. Timing'
    BY <1>i, <1>e, <2>1 DEF W, Unraced, PathOK, Sending, Turning, Timing, Behind, Flying,
         Moving, Rests, Starting, Ends, Quiet, Waits, Sends, Queued, Status
  <2>5. Behind'
    BY <1>i, <1>e, <2>1 DEF W, Unraced, PathOK, Sending, Turning, Timing, Behind, Flying,
         Moving, Rests, Starting, Ends, Quiet, Waits, Sends, Queued, Status
  <2>6. Flying'
    BY <1>i, <1>e, <2>1 DEF W, Unraced, PathOK, Sending, Turning, Timing, Behind, Flying,
         Moving, Rests, Starting, Ends, Quiet, Waits, Sends, Queued, Status
  <2>7. Moving'
    BY <1>i, <1>e, <2>1 DEF W, Unraced, PathOK, Sending, Turning, Timing, Behind, Flying,
         Moving, Rests, Starting, Ends, Quiet, Waits, Sends, Queued, Status
  <2>8. Rests'
    BY <1>i, <1>e, <2>1 DEF W, Unraced, PathOK, Sending, Turning, Timing, Behind, Flying,
         Moving, Rests, Starting, Ends, Quiet, Waits, Sends, Queued, Status
  <2>9. Starting'
    BY <1>i, <1>e, <2>1 DEF W, Unraced, PathOK, Sending, Turning, Timing, Behind, Flying,
         Moving, Rests, Starting, Ends, Quiet, Waits, Sends, Queued, Status
  <2>10. Ends'
    <3>1. ~Queued /\ Status # "sent" /\ (Current = Listen => poll_mod_count = 1)
      BY <1>i, <1>e, <2>1 DEF Unraced, PathOK, Rests, Starting, Quiet, Queued, Status
    <3>2. /\ Status' = "sent" => cmd'.mod = Current
          /\ Queued' => Head(cmd_queue') = Current
      BY <1>e, <3>1 DEF Queued
    <3>3. poll_mod_count > 1 => Current # Listen
      BY <1>i, <3>1, TypeFacts
    <3> QED
      BY <1>e, <3>2, <3>3 DEF Ends
  <2>11. oops' = "none"
    BY <1>e, <2>1 DEF Unraced, Timing, Moving
  <2> QED
    BY <2>2, <2>3, <2>4, <2>5, <2>6, <2>7, <2>8, <2>9, <2>10, <2>11 DEF Unraced
<1>4. Parsed'
  BY <1>i, <1>e DEF Parsed
<1> QED
  BY <1>y, <1>1, <1>2, <1>3, <1>4 DEF PollInv

LEMMA pn533_stop_pollStep ==
  ASSUME PollInv, oops = "none", pn533_stop_poll
  PROVE  PollInv'
<1>i. TypeOK /\ PathOK /\ Alive /\ (~raced => Unraced) /\ Parsed
  BY DEF PollInv
<1> DEFINE W == ToSet(wq)
<1>e. /\ core = "idle" /\ polling /\ timer' = (IF timer = "armed" THEN "off" ELSE timer)
      /\ Current' = Current /\ ToSet(wq') = W /\ Status' = Status
      /\ \/ /\ poll_mod_count = 0 /\ polling' = FALSE /\ raced' = (raced \/ ~Quiet) /\ core' = core
         \/ /\ poll_mod_count # 0 /\ core' = "abort" /\ polling' = polling /\ raced' = raced
      /\ UNCHANGED <<poll_mod_active, poll_mod_count, poll_mod_curr, cancel_listen, tgt_mode,
                     tgt_available, wq, worker, cmd, cmd_queue, oops, polls, errors, stalled,
                     misparsed>>
  BY DEF pn533_stop_poll, DelTimer, Current, Status, list, target, bounds
<1>y. TypeOK'
  <2>1. raced' \in BOOLEAN
    BY <1>i, <1>e DEF TypeOK
  <2>2. timer' \in {"off", "armed", "running"} /\ core' \in {"idle", "abort"} /\ polling' \in BOOLEAN
    BY <1>i, <1>e DEF TypeOK
  <2>3. UNCHANGED <<poll_mod_active, poll_mod_count, poll_mod_curr, cancel_listen, tgt_mode,
                    tgt_available, wq, worker, cmd, cmd_queue, oops, polls, errors, stalled,
                    misparsed>>
    BY <1>e
  <2> QED
    BY <1>i, <2>1, <2>2, <2>3 DEF TypeOK
<1>r. ~raced' => ~raced /\ (polling' = FALSE => Quiet)
  BY <1>i, <1>e DEF TypeOK
<1> HIDE DEF W
<1>1. PathOK'
  BY <1>i, <1>e DEF W, PathOK, Alive, Waits, Sends, Queued, Status
<1>2. Alive'
  BY <1>i, <1>e DEF W, PathOK, Alive, Waits, Sends, Queued, Status
<1>3. ASSUME ~raced' PROVE Unraced'
  <2>1. Unraced /\ ~raced /\ (polling' = FALSE => Quiet)
    BY <1>i, <1>r, <1>3
  <2>2. Sending'
    BY <1>i, <1>e, <2>1 DEF W, Unraced, PathOK, Sending, Turning, Timing, Behind, Flying,
         Moving, Rests, Starting, Ends, Quiet, Waits, Sends, Queued, Status
  <2>3. Turning'
    BY <1>i, <1>e, <2>1 DEF W, Unraced, PathOK, Sending, Turning, Timing, Behind, Flying,
         Moving, Rests, Starting, Ends, Quiet, Waits, Sends, Queued, Status
  <2>4. Timing'
    BY <1>i, <1>e, <2>1 DEF W, Unraced, PathOK, Sending, Turning, Timing, Behind, Flying,
         Moving, Rests, Starting, Ends, Quiet, Waits, Sends, Queued, Status
  <2>5. Behind'
    BY <1>i, <1>e, <2>1 DEF W, Unraced, PathOK, Sending, Turning, Timing, Behind, Flying,
         Moving, Rests, Starting, Ends, Quiet, Waits, Sends, Queued, Status
  <2>6. Flying'
    BY <1>i, <1>e, <2>1 DEF W, Unraced, PathOK, Sending, Turning, Timing, Behind, Flying,
         Moving, Rests, Starting, Ends, Quiet, Waits, Sends, Queued, Status
  <2>7. Moving'
    BY <1>i, <1>e, <2>1 DEF W, Unraced, PathOK, Sending, Turning, Timing, Behind, Flying,
         Moving, Rests, Starting, Ends, Quiet, Waits, Sends, Queued, Status
  <2>8. Rests'
    BY <1>i, <1>e, <2>1 DEF W, Unraced, PathOK, Sending, Turning, Timing, Behind, Flying,
         Moving, Rests, Starting, Ends, Quiet, Waits, Sends, Queued, Status
  <2>9. Starting'
    BY <1>i, <1>e, <2>1 DEF W, Unraced, PathOK, Sending, Turning, Timing, Behind, Flying,
         Moving, Rests, Starting, Ends, Quiet, Waits, Sends, Queued, Status
  <2>10. Ends'
    BY <1>i, <1>e, <2>1 DEF W, Unraced, PathOK, Sending, Turning, Timing, Behind, Flying,
         Moving, Rests, Starting, Ends, Quiet, Waits, Sends, Queued, Status
  <2>11. oops' = "none"
    BY <1>e, <2>1 DEF Unraced, Timing, Moving
  <2> QED
    BY <2>2, <2>3, <2>4, <2>5, <2>6, <2>7, <2>8, <2>9, <2>10, <2>11 DEF Unraced
<1>4. Parsed'
  <2>1. raced => raced'
    BY <1>e
  <2>2. poll_mod_active' = poll_mod_active /\ misparsed' = misparsed
    BY <1>e
  <2> QED
    BY <1>i, <2>1, <2>2 DEF Parsed
<1> QED
  BY <1>y, <1>1, <1>2, <1>3, <1>4 DEF PollInv

LEMMA StopPollAbortStep ==
  ASSUME PollInv, oops = "none", StopPollAbort
  PROVE  PollInv'
<1>i. TypeOK /\ PathOK /\ Alive /\ (~raced => Unraced) /\ Parsed
  BY DEF PollInv
<1> DEFINE W == ToSet(wq)
<1>e. /\ core = "abort" /\ core' = "reset" /\ Current' = Current
      /\ cmd' \in [mod : Mods, status : {"none", "sent", "ok", "error", "enoent", "done"}]
      /\ wq' \in Seq(Items) /\ Distinct(wq') /\ cmd'.mod = cmd.mod
      /\ \/ /\ Status = "sent" /\ Status' = "enoent" /\ ToSet(wq') = W \cup {"complete"}
         \/ /\ Status # "sent" /\ cmd' = cmd /\ Status' = Status /\ ToSet(wq') = W
      /\ UNCHANGED <<poll_mod_active, poll_mod_count, poll_mod_curr, cancel_listen, tgt_mode,
                     tgt_available, timer, worker, cmd_queue, polling, oops, polls, errors, raced,
                     stalled, misparsed>>
  <2>1. /\ cmd' \in [mod : Mods, status : {"none", "sent", "ok", "error", "enoent", "done"}]
        /\ wq' \in Seq(Items) /\ Distinct(wq') /\ cmd'.mod = cmd.mod
        /\ \/ Status = "sent" /\ Status' = "enoent" /\ ToSet(wq') = ToSet(wq) \cup {"complete"}
           \/ Status # "sent" /\ UNCHANGED cmd /\ ToSet(wq') = ToSet(wq)
    BY <1>i, TypeFacts, AbortFacts DEF StopPollAbort
  <2>2. cmd' = cmd => Status' = Status
    BY DEF Status
  <2> QED
    BY <2>1, <2>2 DEF StopPollAbort, Current, list, target, bounds, ghosts
<1>y. TypeOK'
  BY <1>i, <1>e DEF TypeOK, Items, Mods, Distinct
<1>r. ~raced' => ~raced
  BY <1>i, <1>e DEF TypeOK
<1> HIDE DEF W
<1>1. PathOK'
  BY <1>i, <1>e DEF W, PathOK, Alive, Waits, Sends, Queued, Status
<1>2. Alive'
  BY <1>i, <1>e DEF W, PathOK, Alive, Waits, Sends, Queued, Status
<1>3. ASSUME ~raced' PROVE Unraced'
  <2>1. Unraced /\ ~raced
    BY <1>i, <1>r, <1>3
  <2>2. Sending'
    BY <1>i, <1>e, <2>1 DEF W, Unraced, PathOK, Sending, Turning, Timing, Behind, Flying,
         Moving, Rests, Starting, Ends, Quiet, Waits, Sends, Queued, Status
  <2>3. Turning'
    BY <1>i, <1>e, <2>1 DEF W, Unraced, PathOK, Sending, Turning, Timing, Behind, Flying,
         Moving, Rests, Starting, Ends, Quiet, Waits, Sends, Queued, Status
  <2>4. Timing'
    BY <1>i, <1>e, <2>1 DEF W, Unraced, PathOK, Sending, Turning, Timing, Behind, Flying,
         Moving, Rests, Starting, Ends, Quiet, Waits, Sends, Queued, Status
  <2>5. Behind'
    BY <1>i, <1>e, <2>1 DEF W, Unraced, PathOK, Sending, Turning, Timing, Behind, Flying,
         Moving, Rests, Starting, Ends, Quiet, Waits, Sends, Queued, Status
  <2>6. Flying'
    BY <1>i, <1>e, <2>1 DEF W, Unraced, PathOK, Sending, Turning, Timing, Behind, Flying,
         Moving, Rests, Starting, Ends, Quiet, Waits, Sends, Queued, Status
  <2>7. Moving'
    BY <1>i, <1>e, <2>1 DEF W, Unraced, PathOK, Sending, Turning, Timing, Behind, Flying,
         Moving, Rests, Starting, Ends, Quiet, Waits, Sends, Queued, Status
  <2>8. Rests'
    BY <1>i, <1>e, <2>1 DEF W, Unraced, PathOK, Sending, Turning, Timing, Behind, Flying,
         Moving, Rests, Starting, Ends, Quiet, Waits, Sends, Queued, Status
  <2>9. Starting'
    BY <1>i, <1>e, <2>1 DEF W, Unraced, PathOK, Sending, Turning, Timing, Behind, Flying,
         Moving, Rests, Starting, Ends, Quiet, Waits, Sends, Queued, Status
  <2>10. Ends'
    BY <1>i, <1>e, <2>1 DEF W, Unraced, PathOK, Sending, Turning, Timing, Behind, Flying,
         Moving, Rests, Starting, Ends, Quiet, Waits, Sends, Queued, Status
  <2>11. oops' = "none"
    BY <1>e, <2>1 DEF Unraced, Timing, Moving
  <2> QED
    BY <2>2, <2>3, <2>4, <2>5, <2>6, <2>7, <2>8, <2>9, <2>10, <2>11 DEF Unraced
<1>4. Parsed'
  BY <1>i, <1>e DEF Parsed
<1> QED
  BY <1>y, <1>1, <1>2, <1>3, <1>4 DEF PollInv

LEMMA StopPollResetStep ==
  ASSUME PollInv, oops = "none", StopPollReset
  PROVE  PollInv'
<1>i. TypeOK /\ PathOK /\ Alive /\ (~raced => Unraced) /\ Parsed
  BY DEF PollInv
<1> DEFINE W == ToSet(wq)
<1>e. /\ core = "reset" /\ core' = "idle" /\ poll_mod_count' = 0 /\ polling' = FALSE
      /\ raced' = (raced \/ ~Quiet) /\ Current' = Current /\ ToSet(wq') = W /\ Status' = Status
      /\ UNCHANGED <<poll_mod_active, poll_mod_curr, cancel_listen, tgt_mode, tgt_available, timer,
                     wq, worker, cmd, cmd_queue, oops, polls, errors, stalled, misparsed>>
  BY DEF StopPollReset, Current, Status, target, bounds
<1>y. TypeOK'
  <2>1. raced' \in BOOLEAN
    BY <1>i, <1>e DEF TypeOK
  <2>b. polling' \in BOOLEAN
    BY Zenon DEF StopPollReset
  <2>2. core' = "idle" /\ poll_mod_count' = 0
        /\ UNCHANGED <<poll_mod_active, poll_mod_curr, cancel_listen, tgt_mode, tgt_available, timer,
                       wq, worker, cmd, cmd_queue, oops, polls, errors, stalled, misparsed>>
    BY <1>e
  <2> QED
    BY <1>i, <2>b, <2>1, <2>2 DEF TypeOK, Listen
<1>r. ~raced' => ~raced /\ Quiet
  BY <1>i, <1>e DEF TypeOK
<1> HIDE DEF W
<1>1. PathOK'
  BY <1>i, <1>e DEF W, PathOK, Alive, Waits, Sends, Queued, Status
<1>2. Alive'
  BY <1>i, <1>e DEF W, PathOK, Alive, Waits, Sends, Queued, Status
<1>3. ASSUME ~raced' PROVE Unraced'
  <2>1. Unraced /\ ~raced /\ Quiet
    BY <1>i, <1>r, <1>3
  <2>2. Sending'
    BY <1>i, <1>e, <2>1 DEF W, Unraced, PathOK, Sending, Turning, Timing, Behind, Flying,
         Moving, Rests, Starting, Ends, Quiet, Waits, Sends, Queued, Status
  <2>3. Turning'
    BY <1>i, <1>e, <2>1 DEF W, Unraced, PathOK, Sending, Turning, Timing, Behind, Flying,
         Moving, Rests, Starting, Ends, Quiet, Waits, Sends, Queued, Status
  <2>4. Timing'
    BY <1>i, <1>e, <2>1 DEF W, Unraced, PathOK, Sending, Turning, Timing, Behind, Flying,
         Moving, Rests, Starting, Ends, Quiet, Waits, Sends, Queued, Status
  <2>5. Behind'
    BY <1>i, <1>e, <2>1 DEF W, Unraced, PathOK, Sending, Turning, Timing, Behind, Flying,
         Moving, Rests, Starting, Ends, Quiet, Waits, Sends, Queued, Status
  <2>6. Flying'
    BY <1>i, <1>e, <2>1 DEF W, Unraced, PathOK, Sending, Turning, Timing, Behind, Flying,
         Moving, Rests, Starting, Ends, Quiet, Waits, Sends, Queued, Status
  <2>7. Moving'
    BY <1>i, <1>e, <2>1 DEF W, Unraced, PathOK, Sending, Turning, Timing, Behind, Flying,
         Moving, Rests, Starting, Ends, Quiet, Waits, Sends, Queued, Status
  <2>8. Rests'
    BY <1>i, <1>e, <2>1 DEF W, Unraced, PathOK, Sending, Turning, Timing, Behind, Flying,
         Moving, Rests, Starting, Ends, Quiet, Waits, Sends, Queued, Status
  <2>9. Starting'
    BY <1>i, <1>e, <2>1 DEF W, Unraced, PathOK, Sending, Turning, Timing, Behind, Flying,
         Moving, Rests, Starting, Ends, Quiet, Waits, Sends, Queued, Status
  <2>10. Ends'
    BY <1>i, <1>e, <2>1 DEF W, Unraced, PathOK, Sending, Turning, Timing, Behind, Flying,
         Moving, Rests, Starting, Ends, Quiet, Waits, Sends, Queued, Status
  <2>11. oops' = "none"
    BY <1>e, <2>1 DEF Unraced, Timing, Moving
  <2> QED
    BY <2>2, <2>3, <2>4, <2>5, <2>6, <2>7, <2>8, <2>9, <2>10, <2>11 DEF Unraced
<1>4. Parsed'
  <2>1. raced => raced'
    BY <1>e
  <2>2. poll_mod_active' = poll_mod_active /\ misparsed' = misparsed
    BY <1>e
  <2> QED
    BY <1>i, <2>1, <2>2 DEF Parsed
<1> QED
  BY <1>y, <1>1, <1>2, <1>3, <1>4 DEF PollInv

LEMMA UseTargetStep ==
  ASSUME PollInv, oops = "none", UseTarget
  PROVE  PollInv'
<1>i. TypeOK /\ PathOK /\ Alive /\ (~raced => Unraced) /\ Parsed
  BY DEF PollInv
<1> DEFINE W == ToSet(wq)
<1>e. /\ tgt_available' = FALSE /\ Current' = Current /\ ToSet(wq') = W /\ Status' = Status
      /\ UNCHANGED <<poll_mod_active, poll_mod_count, poll_mod_curr, cancel_listen, tgt_mode, timer,
                     wq, worker, cmd, cmd_queue, core, polling, oops, polls, errors, raced, stalled,
                     misparsed>>
  BY DEF UseTarget, Current, Status, list, bounds, ghosts
<1>y. TypeOK'
  <2>1. tgt_available' \in BOOLEAN
    BY Zenon DEF UseTarget
  <2> QED
    BY <1>i, <1>e, <2>1 DEF TypeOK
<1>r. ~raced' => ~raced
  BY <1>i, <1>e DEF TypeOK
<1> HIDE DEF W
<1>1. PathOK'
  BY <1>i, <1>e DEF W, PathOK, Alive, Waits, Sends, Queued, Status
<1>2. Alive'
  BY <1>i, <1>e DEF W, PathOK, Alive, Waits, Sends, Queued, Status
<1>3. ASSUME ~raced' PROVE Unraced'
  <2>1. Unraced /\ ~raced
    BY <1>i, <1>r, <1>3
  <2>2. Sending'
    BY <1>i, <1>e, <2>1 DEF W, Unraced, PathOK, Sending, Turning, Timing, Behind, Flying,
         Moving, Rests, Starting, Ends, Quiet, Waits, Sends, Queued, Status
  <2>3. Turning'
    BY <1>i, <1>e, <2>1 DEF W, Unraced, PathOK, Sending, Turning, Timing, Behind, Flying,
         Moving, Rests, Starting, Ends, Quiet, Waits, Sends, Queued, Status
  <2>4. Timing'
    BY <1>i, <1>e, <2>1 DEF W, Unraced, PathOK, Sending, Turning, Timing, Behind, Flying,
         Moving, Rests, Starting, Ends, Quiet, Waits, Sends, Queued, Status
  <2>5. Behind'
    BY <1>i, <1>e, <2>1 DEF W, Unraced, PathOK, Sending, Turning, Timing, Behind, Flying,
         Moving, Rests, Starting, Ends, Quiet, Waits, Sends, Queued, Status
  <2>6. Flying'
    BY <1>i, <1>e, <2>1 DEF W, Unraced, PathOK, Sending, Turning, Timing, Behind, Flying,
         Moving, Rests, Starting, Ends, Quiet, Waits, Sends, Queued, Status
  <2>7. Moving'
    BY <1>i, <1>e, <2>1 DEF W, Unraced, PathOK, Sending, Turning, Timing, Behind, Flying,
         Moving, Rests, Starting, Ends, Quiet, Waits, Sends, Queued, Status
  <2>8. Rests'
    BY <1>i, <1>e, <2>1 DEF W, Unraced, PathOK, Sending, Turning, Timing, Behind, Flying,
         Moving, Rests, Starting, Ends, Quiet, Waits, Sends, Queued, Status
  <2>9. Starting'
    BY <1>i, <1>e, <2>1 DEF W, Unraced, PathOK, Sending, Turning, Timing, Behind, Flying,
         Moving, Rests, Starting, Ends, Quiet, Waits, Sends, Queued, Status
  <2>10. Ends'
    BY <1>i, <1>e, <2>1 DEF W, Unraced, PathOK, Sending, Turning, Timing, Behind, Flying,
         Moving, Rests, Starting, Ends, Quiet, Waits, Sends, Queued, Status
  <2>11. oops' = "none"
    BY <1>e, <2>1 DEF Unraced, Timing, Moving
  <2> QED
    BY <2>2, <2>3, <2>4, <2>5, <2>6, <2>7, <2>8, <2>9, <2>10, <2>11 DEF Unraced
<1>4. Parsed'
  BY <1>i, <1>e DEF Parsed
<1> QED
  BY <1>y, <1>1, <1>2, <1>3, <1>4 DEF PollInv

LEMMA pn533_start_pollStep ==
  ASSUME PollInv, oops = "none", NEW im, NEW tm, pn533_start_poll(im, tm)
  PROVE  PollInv'
<1>i. TypeOK /\ PathOK /\ Alive /\ (~raced => Unraced) /\ Parsed
  BY DEF PollInv
<1> DEFINE W == ToSet(wq)
<1>e. /\ core = "idle" /\ core' = "start" /\ ~polling /\ ToSet(wq') = W /\ Status' = Status
      /\ polls' \in 0..MaxPolls /\ poll_mod_curr' = 0 /\ poll_mod_count' \in 1 .. 6
      /\ poll_mod_active' \in [0..Listen -> Mods]
      /\ \A i \in 0..Listen : i < poll_mod_count' => poll_mod_active'[i] # NoMod
      /\ Current' = Listen => poll_mod_count' = 1
      /\ misparsed' = FALSE /\ misparsed' \in BOOLEAN
      /\ UNCHANGED <<cancel_listen, tgt_mode, tgt_available, timer, wq, worker, cmd, cmd_queue,
                     polling, oops, errors, raced, stalled>>
  <2> DEFINE mods == ModList(im, tm)
  <2>u. /\ core = "idle" /\ core' = "start" /\ ~polling /\ ToSet(wq') = W /\ Status' = Status
        /\ poll_mod_curr' = 0 /\ poll_mod_count' = Len(mods) /\ mods # <<>> /\ misparsed' = FALSE
        /\ poll_mod_active' = [i \in 0..Listen |->
             IF i < Len(mods) THEN mods[i + 1] ELSE poll_mod_active[i]]
        /\ UNCHANGED <<cancel_listen, tgt_mode, tgt_available, timer, wq, worker, cmd, cmd_queue,
                       polling, oops, errors, raced, stalled>>
    BY DEF pn533_start_poll, Status, target
  <2>b. misparsed' \in BOOLEAN
    BY Zenon DEF pn533_start_poll
  <2>p. polls' \in 0..MaxPolls
    BY <1>i, PollAssumption DEF pn533_start_poll, TypeOK
  <2>1. mods \in Seq(0..5) /\ Len(mods) \in 1 .. 6 /\ (mods[1] = 5 => Len(mods) = 1)
    BY <2>u, ModListFacts
  <2> HIDE DEF mods
  <2>2. \A i \in 0..5 : i < Len(mods) => mods[i + 1] \in 0..5
    BY <2>1, SeqFacts
  <2>3. \A i \in 0..Listen : i < Len(mods) => poll_mod_active'[i] = mods[i + 1]
    BY <2>u
  <2>4. poll_mod_active' \in [0..Listen -> Mods]
    <3>1. poll_mod_active \in [0..5 -> -1..5]
      BY <1>i DEF TypeOK, Listen, NoMod
    <3> QED
      BY <2>u, <2>2, <3>1 DEF Listen, Mods, NoMod
  <2>5. \A i \in 0..Listen : i < poll_mod_count' => poll_mod_active'[i] # NoMod
    BY <2>u, <2>2, <2>3 DEF Listen, NoMod
  <2>6. Current' = mods[1]
    BY <2>u, <2>1, <2>3 DEF Current, Listen
  <2> QED
    BY <2>u, <2>b, <2>p, <2>1, <2>4, <2>5, <2>6 DEF Listen
<1>y. TypeOK'
  <2>1. /\ polls' \in 0..MaxPolls /\ poll_mod_curr' = 0 /\ poll_mod_count' \in 1 .. 6
        /\ poll_mod_active' \in [0..Listen -> Mods] /\ core' = "start" /\ misparsed' \in BOOLEAN
        /\ \A i \in 0..Listen : i < poll_mod_count' => poll_mod_active'[i] # NoMod
        /\ UNCHANGED <<cancel_listen, tgt_mode, tgt_available, timer, wq, worker, cmd, cmd_queue,
                       polling, oops, errors, raced, stalled>>
    BY <1>e
  <2> QED
    BY <1>i, <2>1 DEF TypeOK, Mods, Listen
<1>r. ~raced' => ~raced
  BY <1>i, <1>e DEF TypeOK
<1> HIDE DEF W
<1>1. PathOK'
  BY <1>i, <1>e DEF W, PathOK, Alive, Waits, Sends, Queued, Status
<1>2. Alive'
  BY <1>i, <1>e DEF W, PathOK, Alive, Waits, Sends, Queued, Status
<1>3. ASSUME ~raced' PROVE Unraced'
  <2>1. Unraced /\ ~raced
    BY <1>i, <1>r, <1>3
  <2>2. Sending'
    BY <1>i, <1>e, <2>1 DEF W, Unraced, PathOK, Sending, Turning, Timing, Behind, Flying,
         Moving, Rests, Starting, Ends, Quiet, Waits, Sends, Queued, Status
  <2>3. Turning'
    BY <1>i, <1>e, <2>1 DEF W, Unraced, PathOK, Sending, Turning, Timing, Behind, Flying,
         Moving, Rests, Starting, Ends, Quiet, Waits, Sends, Queued, Status
  <2>4. Timing'
    BY <1>i, <1>e, <2>1 DEF W, Unraced, PathOK, Sending, Turning, Timing, Behind, Flying,
         Moving, Rests, Starting, Ends, Quiet, Waits, Sends, Queued, Status
  <2>5. Behind'
    BY <1>i, <1>e, <2>1 DEF W, Unraced, PathOK, Sending, Turning, Timing, Behind, Flying,
         Moving, Rests, Starting, Ends, Quiet, Waits, Sends, Queued, Status
  <2>6. Flying'
    BY <1>i, <1>e, <2>1 DEF W, Unraced, PathOK, Sending, Turning, Timing, Behind, Flying,
         Moving, Rests, Starting, Ends, Quiet, Waits, Sends, Queued, Status
  <2>7. Moving'
    BY <1>i, <1>e, <2>1 DEF W, Unraced, PathOK, Sending, Turning, Timing, Behind, Flying,
         Moving, Rests, Starting, Ends, Quiet, Waits, Sends, Queued, Status
  <2>8. Rests'
    BY <1>i, <1>e, <2>1 DEF W, Unraced, PathOK, Sending, Turning, Timing, Behind, Flying,
         Moving, Rests, Starting, Ends, Quiet, Waits, Sends, Queued, Status
  <2>9. Starting'
    BY <1>i, <1>e, <2>1 DEF W, Unraced, PathOK, Sending, Turning, Timing, Behind, Flying,
         Moving, Rests, Starting, Ends, Quiet, Waits, Sends, Queued, Status
  <2>10. Ends'
    BY <1>i, <1>e, <2>1 DEF W, Unraced, PathOK, Sending, Turning, Timing, Behind, Flying,
         Moving, Rests, Starting, Ends, Quiet, Waits, Sends, Queued, Status
  <2>11. oops' = "none"
    BY <1>e, <2>1 DEF Unraced, Timing, Moving
  <2> QED
    BY <2>2, <2>3, <2>4, <2>5, <2>6, <2>7, <2>8, <2>9, <2>10, <2>11 DEF Unraced
<1>4. Parsed'
  BY <1>i, <1>e DEF Parsed
<1> QED
  BY <1>y, <1>1, <1>2, <1>3, <1>4 DEF PollInv

LEMMA StutterStep ==
  ASSUME PollInv, UNCHANGED vars
  PROVE  PollInv'
  BY DEF PollInv, vars, list, target, bounds, ghosts, TypeOK, PathOK, Alive, Unraced, Parsed,
         Sending, Turning, Timing, Behind, Flying, Moving, Rests, Starting, Ends, Quiet,
         Waits, Sends, Queued, Status, Current

(***************************************************************************)
(* Theorems.                                                               *)
(***************************************************************************)

LEMMA InitPoll == Init => PollInv
<1> SUFFICES ASSUME Init PROVE PollInv
  OBVIOUS
<1>1. /\ cmd \in [mod : Mods, status : {"none", "sent", "ok", "error", "enoent", "done"}]
      /\ Status = "none"
  BY DEF Init, NoCmd, Status, Mods, NoMod, Listen
<1>2. ToSet(wq) = {}
  BY DEF Init, ToSet
<1>3. poll_mod_active \in [0..Listen -> Mods]
  BY DEF Init, Mods, NoMod, Listen
<1>f. /\ cancel_listen \in BOOLEAN /\ tgt_mode \in BOOLEAN /\ tgt_available \in BOOLEAN
      /\ polling \in BOOLEAN /\ raced \in BOOLEAN /\ stalled \in BOOLEAN /\ misparsed \in BOOLEAN
  BY Zenon DEF Init
<1>4. TypeOK
  BY <1>1, <1>3, <1>f, PollAssumption DEF Init, TypeOK, Mods, Listen
<1>5. PathOK /\ Alive /\ Parsed
  BY <1>1, <1>2 DEF Init, PathOK, Alive, Parsed, Waits, Queued
<1>6. Unraced
  BY <1>1, <1>2 DEF Init, Unraced, Sending, Turning, Timing, Behind, Flying, Moving, Rests,
                    Starting, Ends, Quiet, Waits, Queued, Sends, Status
<1> QED
  BY <1>4, <1>5, <1>6 DEF PollInv

LEMMA AlwaysPollInv == Spec => []PollInv
<1>1. PollInv /\ [Next]_vars => PollInv'
  <2> SUFFICES ASSUME PollInv, Next PROVE PollInv'
    BY StutterStep
  <2>1. oops = "none"
    BY DEF Next
  <2>2. CASE Worker
    BY <2>1, <2>2, pn533_wq_pollStep, WqPollSendStep, PollErrorStep,
       pn533_init_target_completeStep, CompleteCases, TargetFoundStep, NothingFoundStep,
       NothingYetStep, PollNextStep, pn533_wq_cmdStep, pn533_wq_tg_get_dataStep DEF Worker
  <2>3. CASE Core
    BY <2>1, <2>3, pn533_start_pollStep, StartPollSendStep, pn533_stop_pollStep,
       StopPollAbortStep, StopPollResetStep, UseTargetStep DEF Core
  <2> QED
    BY <2>1, <2>2, <2>3, UrbCompleteStep, TimerFiresStep, pn533_listen_mode_timerStep DEF Next
<1> QED
  BY InitPoll, <1>1, PTL DEF Spec

\* The index stays inside the list of modulations and no work item is pending twice,
\* whatever the timer, the completions and the core do, in any order.
THEOREM TypeCorrect == Spec => []TypeOK
<1>1. PollInv => TypeOK
  BY DEF PollInv
<1> QED
  BY AlwaysPollInv, <1>1, PTL

\* pn533_poll_next_mod() divides by zero only after the timer or stop_poll() has
\* overlapped a completion.
THEOREM AlwaysDivisionNeedsRace == Spec => []DivisionNeedsRace
<1>1. PollInv => DivisionNeedsRace
  BY DEF PollInv, Unraced, DivisionNeedsRace, TypeOK
<1> QED
  BY AlwaysPollInv, <1>1, PTL

\* Without such a race there is one poll command outstanding.
THEOREM AlwaysOneLoop == Spec => []OneLoop
<1>1. PollInv => OneLoop
  <2> SUFFICES ASSUME PollInv, ~raced
               PROVE  Len(cmd_queue) + (IF cmd.status = "sent" THEN 1 ELSE 0) <= 1
    BY DEF OneLoop
  <2>1. CASE Queued
    <3>1. cmd.status # "sent" /\ Len(cmd_queue) = 1
      BY <2>1 DEF PollInv, Unraced, Behind, Status
    <3> QED
      BY <3>1
  <2>2. CASE ~Queued
    BY <2>2 DEF Queued
  <2> QED
    BY <2>1, <2>2
<1> QED
  BY AlwaysPollInv, <1>1, PTL

\* A poll that neither ended nor failed to send goes on, race or not; and without a
\* race the listen command has the timer that ends it.
THEOREM AlwaysLoopAlive == Spec => []LoopAlive
<1>1. PollInv => LoopAlive
  <2> SUFFICES ASSUME PollInv PROVE LoopAlive
    OBVIOUS
  <2>1. polling /\ poll_mod_count > 0 /\ core = "idle" /\ ~stalled
          => \/ cmd.status = "sent" \/ cmd_queue # <<>> \/ worker # "idle"
             \/ timer = "running" \/ {"poll", "complete"} \cap ToSet(wq) # {}
    BY DEF PollInv, Alive, Queued, Status
  <2>2. ASSUME polling, poll_mod_count > 1, core = "idle", ~raced,
               cmd = [mod |-> Listen, status |-> "sent"]
        PROVE  timer # "off" \/ "poll" \in ToSet(wq)
    <3>1. Status = "sent" /\ cmd.mod = Listen
      BY <2>2 DEF Status
    <3> QED
      BY <2>2, <3>1 DEF PollInv, Unraced, Ends, Waits
  <2> QED
    BY <2>1, <2>2 DEF LoopAlive
<1> QED
  BY AlwaysPollInv, <1>1, PTL

\* Nothing is in flight, pending or armed once a target is reported, and it was read
\* by the parser of the modulation that was polled.
THEOREM AlwaysPollStopsAfterTarget == Spec => []PollStopsAfterTarget
<1>1. PollInv => PollStopsAfterTarget
  <2> SUFFICES ASSUME PollInv PROVE PollStopsAfterTarget
    OBVIOUS
  <2>1. ~polling /\ ~raced => timer = "off" /\ "poll" \notin ToSet(wq) /\ cmd.status # "sent"
    BY DEF PollInv, Unraced, Rests, Quiet
  <2>2. Parsed
    BY DEF PollInv
  <2> QED
    BY <2>1, <2>2 DEF PollStopsAfterTarget, Parsed
<1> QED
  BY AlwaysPollInv, <1>1, PTL

-----------------------------------------------------------------------------
(* The PN544 driver, which shares nothing with the PN533 driver.             *)

Points == Ops \cup Inside \cup {"idle"}
Calls == [at : Points, file : Files \cup {None}, mode : Modes]

-----------------------------------------------------------------------------
(* What the steps do, thread by thread                                     *)

\* Thread t comes to point p with file f, every other thread stays.
Moved(t, p, f) ==
  /\ thread' \in [Threads -> Calls]
  /\ thread'[t].at = p /\ thread'[t].file = f
  /\ \A u \in Threads \ {t} : thread'[u] = thread[u]

\* A call of op on the file f begins.
Enters(t, f, op) ==
  /\ thread[t].at = "idle" /\ thread[t].file = None
  /\ op = "open" => f \notin files
  /\ op # "open" => f \in files
  /\ op = "close" => \A u \in Threads : thread[u].file # f
  /\ files' = IF op = "close" THEN files \ {f} ELSE files
  /\ Moved(t, op, f)
  /\ UNCHANGED <<state, read_irq, mutex, read_mutex, regs, ven, unread, edge, missed,
                 overrun, fails, failed>>

\* A call that returns without having touched the chip or the regulators; one
\* that was to switch on again has failed.
Returns(t) ==
  /\ mutex = t /\ thread[t].at \in (Ops \ {"close"}) \cup {"asleep", "on"}
  /\ mutex' = None /\ Moved(t, "idle", None)
  /\ IF thread[t].at = "on" THEN failed' = TRUE ELSE failed' = failed
  /\ fails' = fails \/ (fails < MaxFails /\ fails' = fails + 1)
  /\ UNCHANGED <<state, read_irq, read_mutex, regs, files, ven, unread, edge, missed,
                 overrun>>

\* A read that goes on inside the call.
GoesOn(t, p) ==
  /\ mutex = t /\ <<thread[t].at, p>> \in {<<"read", "i2c">>, <<"read", "asleep">>,
                                           <<"asleep", "i2c">>}
  /\ Moved(t, p, thread[t].file)
  /\ UNCHANGED <<state, read_irq, mutex, read_mutex, regs, files, ven, unread, edge,
                 missed, overrun, fails, failed>>

\* The regulators are switched on.
TurnsOn(t) ==
  /\ mutex = t /\ (thread[t].at = "on" \/ (thread[t].at = "open" /\ state = "cold"))
  /\ regs' = regs + 1 /\ read_irq' = FALSE
  /\ Moved(t, "enable", thread[t].file)
  /\ UNCHANGED <<state, mutex, read_mutex, files, ven, unread, edge, missed, overrun,
                 fails, failed>>

\* Then the chip.
ComesUp(t) ==
  /\ mutex = t /\ thread[t].at = "enable"
  /\ ven' = TRUE /\ state' \in Modes
  /\ files' = files \cup {thread[t].file}
  /\ mutex' = None /\ Moved(t, "idle", None)
  /\ UNCHANGED <<read_irq, read_mutex, regs, unread, edge, missed, overrun, fails,
                 failed>>

\* The chip is switched off.
TurnsOff(t, p) ==
  /\ mutex = t /\ <<thread[t].at, p>> \in {<<"close", "closing">>, <<"ioctl", "off">>}
  /\ p = "off" => state # "cold"
  /\ ven' = FALSE /\ unread' = 0 /\ missed' = FALSE /\ state' = "cold"
  /\ Moved(t, p, thread[t].file)
  /\ UNCHANGED <<read_irq, mutex, read_mutex, regs, files, edge, overrun, fails, failed>>

\* Then the regulators: the call is over, or the mode switch goes on.
IsOff(t) ==
  /\ mutex = t /\ read_irq' = FALSE /\ regs' = regs - 1
  /\ \/ thread[t].at = "closing" /\ mutex' = None /\ Moved(t, "idle", None)
     \/ thread[t].at = "off" /\ mutex' = mutex /\ Moved(t, "on", thread[t].file)
  /\ UNCHANGED <<state, read_mutex, files, ven, unread, edge, missed, overrun, fails,
                 failed>>

\* A frame is read, or the transfer fails.
Transfers(t) ==
  /\ mutex = t /\ thread[t].at = "i2c" /\ read_mutex = None
  /\ read_mutex' = t /\ Moved(t, "clear", thread[t].file)
  /\ overrun' \in BOOLEAN
  /\ \/ /\ unread > 0 /\ unread' = unread - 1
        /\ edge' = (edge \/ unread' > 0) /\ missed' = missed
     \/ missed' = (missed \/ unread > 0) /\ unread' = unread /\ edge' = edge
  /\ UNCHANGED <<state, read_irq, mutex, regs, files, ven, fails, failed>>

\* Then read_irq is reset.
ReadsEnd(t) ==
  /\ mutex = t /\ thread[t].at = "clear"
  /\ read_irq' = FALSE /\ read_mutex' = None
  /\ mutex' = None /\ Moved(t, "idle", None)
  /\ UNCHANGED <<state, regs, files, ven, unread, edge, missed, overrun, fails, failed>>

Takes(t) ==
  /\ thread[t].at \in Ops /\ mutex = None /\ mutex' = t
  /\ UNCHANGED <<state, read_irq, read_mutex, regs, thread, files, ven, unread, edge,
                 missed, overrun, fails, failed>>

\* A jump inside a call, and a return, touch one thread only.
LEMMA GoFact ==
  ASSUME thread \in [Threads -> Calls], NEW t \in Threads, NEW p \in Points, Go(t, p)
  PROVE  Moved(t, p, thread[t].file)
  BY DEF Go, Calls, Moved

LEMMA ReturnFact ==
  ASSUME thread \in [Threads -> Calls], NEW t \in Threads, Return(t)
  PROVE  mutex' = None /\ Moved(t, "idle", None)
  BY DEF Return, Calls, Idle, Points, Modes, Moved

\* So does the beginning of a call.
LEMMA CallFact ==
  ASSUME thread \in [Threads -> Calls], NEW t \in Threads, NEW f \in Files,
         NEW op \in Ops, NEW m \in Modes, Call(t, f, op, m)
  PROVE  Enters(t, f, op)
<1>1. Moved(t, op, f) /\ thread[t].at = "idle" /\ thread[t].file = None
  BY DEF Call, Calls, Idle, Points, Moved
<1> QED
  BY <1>1 DEF Call, Enters, Busy, chip, faults

\* Whatever a thread does inside a call is one of the steps above.
LEMMA BodySteps ==
  ASSUME thread \in [Threads -> Calls], NEW t \in Threads, Body(t) \/ Signal(t)
  PROVE  \/ Returns(t) \/ TurnsOn(t) \/ ComesUp(t) \/ Transfers(t) \/ ReadsEnd(t)
         \/ GoesOn(t, "i2c") \/ GoesOn(t, "asleep")
         \/ TurnsOff(t, "closing") \/ TurnsOff(t, "off") \/ IsOff(t)
<1>p. {"enable", "closing", "off", "on", "asleep", "i2c", "clear"} \subseteq Points
  BY DEF Points, Inside
<1>r. Return(t) => mutex' = None /\ Moved(t, "idle", None)
  BY ReturnFact
<1>g. \A p \in Points : Go(t, p) => Moved(t, p, thread[t].file)
  BY GoFact
<1>m. thread[t].mode \in Modes
  BY DEF Calls
<1>1. CASE /\ mutex = t /\ thread[t].at \in (Ops \ {"close"}) \cup {"asleep"}
           /\ Return(t)
           /\ UNCHANGED <<state, read_irq, read_mutex, regs, files, chip, faults>>
  BY <1>1, <1>r DEF Returns, chip, faults, Ops
<1>2. CASE /\ mutex = t /\ thread[t].at \in {"open", "on"}
           /\ EnableFails(t)
           /\ IF thread[t].at = "on" THEN failed' = TRUE ELSE failed' = failed
  BY <1>2, <1>r DEF Returns, EnableFails, chip, Ops
<1>3. CASE /\ mutex = t /\ (thread[t].at = "on" \/ (thread[t].at = "open" /\ state = "cold"))
           /\ Enable(t)
  BY <1>3, <1>g, <1>p DEF TurnsOn, Enable, chip, faults
<1>4. CASE EnableChip(t)
  BY <1>4, <1>r, <1>m DEF EnableChip, ComesUp, Has, At, faults
<1>5. CASE \E q \in {"closing", "off"} :
             /\ mutex = t /\ <<thread[t].at, q>> \in {<<"close", "closing">>, <<"ioctl",
                   "off">>}
             /\ q = "off" => state # "cold"
             /\ Disable(t, q)
  BY <1>5, <1>g, <1>p DEF TurnsOff, Disable, faults
<1>6. CASE Has(t, "closing") /\ DisableEnd(t, "return")
  BY <1>6, <1>r DEF IsOff, DisableEnd, Has, At, chip, faults
<1>7. CASE Has(t, "off") /\ DisableEnd(t, "on")
  BY <1>7, <1>g, <1>p DEF IsOff, DisableEnd, Has, At, chip, faults
<1>8. CASE \E q \in {"i2c", "asleep"} :
             /\ mutex = t /\ <<thread[t].at, q>> \in {<<"read", "i2c">>, <<"read",
                   "asleep">>,
                                                     <<"asleep", "i2c">>}
             /\ Go(t, q)
             /\ UNCHANGED <<state, read_irq, mutex, read_mutex, regs, files, chip,
                   faults>>
  BY <1>8, <1>g, <1>p DEF GoesOn, chip, faults
<1>9. CASE I2cRead(t)
  <2>1. Moved(t, "clear", thread[t].file)
    BY <1>9, <1>g, <1>p DEF I2cRead
  <2>2. overrun' \in BOOLEAN
    BY <1>9 DEF I2cRead
  <2>3. \/ /\ unread > 0 /\ unread' = unread - 1
           /\ edge' = (edge \/ unread' > 0) /\ missed' = missed
        \/ missed' = (missed \/ unread > 0) /\ unread' = unread /\ edge' = edge
    BY <1>9 DEF I2cRead
  <2> QED
    BY <1>9, <2>1, <2>2, <2>3 DEF I2cRead, Transfers, Has, At
<1>10. CASE ReadEnd(t)
  BY <1>10, <1>r DEF ReadEnd, ReadsEnd, Has, At, chip, faults
<1> USE DEF Has, At, Ops
<1>11. CASE NoDevice(t) \/ pn544_poll(t) \/ pn544_write(t) \/ Signal(t)
  BY <1>1, <1>11 DEF NoDevice, pn544_poll, pn544_write, Signal
<1>12. CASE pn544_open(t)
  BY <1>1, <1>2, <1>3, <1>12 DEF pn544_open
<1>13. CASE pn544_close(t)
  BY <1>5, <1>6, <1>13 DEF pn544_close
<1>14. CASE pn544_read(t) \/ WakeUp(t)
  BY <1>1, <1>8, <1>14 DEF pn544_read, WakeUp
<1>15. CASE SwitchMode(t)
  BY <1>1, <1>2, <1>3, <1>5, <1>7, <1>15 DEF SwitchMode, Modes
<1> QED
  BY <1>4, <1>9, <1>10, <1>11, <1>12, <1>13, <1>14, <1>15 DEF Body

\* A step of the driver is one of these, a word of the chip or an interrupt.
LEMMA NextSteps ==
  ASSUME thread \in [Threads -> Calls], [Pn544Next]_pn544Vars
  PROVE  \/ \E t \in Threads, f \in Files, op \in Ops : Enters(t, f, op)
         \/ \E t \in Threads : Takes(t)
         \/ \E t \in Threads : \/ Returns(t) \/ TurnsOn(t) \/ ComesUp(t) \/ Transfers(t)
                               \/ ReadsEnd(t) \/ GoesOn(t, "i2c") \/ GoesOn(t, "asleep")
                               \/ TurnsOff(t, "closing") \/ TurnsOff(t, "off") \/ IsOff(t)
         \/ ChipSpeaks \/ pn544_irq_thread_fn \/ UNCHANGED pn544Vars
<1>1. ASSUME NEW t \in Threads, Lock(t) PROVE Takes(t)
  BY <1>1 DEF Lock, Takes, chip, faults
<1> QED
  BY <1>1, CallFact, BodySteps DEF Pn544Next

-----------------------------------------------------------------------------
(* Types, locks and power                                                  *)

\* TypeOK, in the two parts that the provers treat differently.
DataOK ==
  /\ state \in Modes \cup {"cold"}
  /\ mutex \in Threads \cup {None} /\ read_mutex \in Threads \cup {None}
  /\ regs \in Int
  /\ files \subseteq Files
  /\ thread \in [Threads -> Calls]
  /\ unread \in 0..MaxUnread /\ fails \in 0..MaxFails

FlagsOK ==
  /\ read_irq \in BOOLEAN /\ ven \in BOOLEAN /\ edge \in BOOLEAN
  /\ missed \in BOOLEAN /\ overrun \in BOOLEAN /\ failed \in BOOLEAN

LEMMA TypeParts == (Pn544TypeOK <=> DataOK /\ FlagsOK) /\ (Pn544TypeOK' <=> DataOK' /\ FlagsOK')
  BY DEF Pn544TypeOK, DataOK, FlagsOK, Calls, Points

LEMMA TypeThreads == Pn544TypeOK => thread \in [Threads -> Calls]
  BY DEF Pn544TypeOK, Calls, Points

\* A thread in a call has a file; inside it, the thread holds the mutex, and the
\* one that has read a frame holds read_mutex, until both are returned.  No thread
\* returns from a call with the mutex.
Locked ==
  /\ \A t \in Threads : thread[t].at # "idle" => thread[t].file \in Files
  /\ \A t \in Threads : thread[t].at \in Inside => mutex = t
  /\ \A t \in Threads : mutex = t => thread[t].at # "idle"
  /\ \A t \in Threads : thread[t].at = "clear" <=> read_mutex = t

\* The chip is enabled exactly while the driver is not COLD, and holds no message
\* while it is off; a switch on or off goes on while the driver is COLD.
Switched ==
  /\ ven <=> state # "cold"
  /\ ~ven => unread = 0
  /\ \A t \in Threads : thread[t].at \in {"enable", "closing", "off", "on"}
                          => state = "cold"

\* The driver serves one file at a time, until a mode switch fails: at most one file
\* is open or being closed, it keeps the driver from COLD except while the thread
\* that switches its mode has it off, and whoever is inside a call uses that file.
OneFile ==
  /\ \A f, g \in files : f = g
  /\ \A t, u \in Threads : thread[t].at = "close" /\ thread[u].at = "close" => t = u
  /\ \A t \in Threads : thread[t].at = "close" => files = {}
  /\ \A t \in Threads : thread[t].at \in {"enable", "off", "on"}
       => files \subseteq {thread[t].file} /\ \A u \in Threads : thread[u].at # "close"
  /\ \A t \in Threads : thread[t].at \in {"read", "poll", "write", "ioctl", "asleep",
                                         "i2c", "clear", "off", "on"}
       => thread[t].file \in files
  /\ (files # {} \/ \E t \in Threads : thread[t].at = "close")
       => \/ state # "cold"
          \/ \E t \in Threads : thread[t].at \in {"enable", "off", "on"}

\* The regulators are on while the driver is not COLD, before the chip is switched
\* on and after it is switched off.
Counted ==
  /\ state # "cold" => regs = 1
  /\ \A t \in Threads : thread[t].at \in {"enable", "closing", "off"} => regs = 1
  /\ (state = "cold" /\ \A t \in Threads : thread[t].at \notin {"enable", "closing", "off"})
       => regs = 0

\* The inductive invariant for the regulators.
RegInv == Pn544TypeOK /\ Locked /\ Switched /\ (failed \/ (OneFile /\ Counted))

\* The inductive invariant for the messages.
MsgInv == Pn544TypeOK /\ Locked /\ Switched /\ NoMessageStranded

\* In the initial state every thread is idle and the chip is off.
LEMMA InitMsg == Pn544Init => MsgInv /\ RegInv
<1> SUFFICES ASSUME Pn544Init PROVE MsgInv /\ RegInv
  OBVIOUS
<1>1. thread \in [Threads -> Calls] /\ \A t \in Threads : thread[t].at = "idle"
  BY DEF Pn544Init, Calls, Idle, Points, Modes
<1>2. DataOK
  BY <1>1, Pn544Assumption DEF Pn544Init, DataOK
<1>3. FlagsOK
  BY DEF Pn544Init, FlagsOK
<1>4. Locked
  BY <1>1, Pn544Assumption DEF Pn544Init, Locked, Inside, None
<1>5. Switched /\ NoMessageStranded
  BY <1>1 DEF Pn544Init, Switched, NoMessageStranded
<1>6. OneFile /\ Counted
  BY <1>1 DEF Pn544Init, OneFile, Counted
<1> QED
  BY <1>2, <1>3, <1>4, <1>5, <1>6, TypeParts DEF MsgInv, RegInv

\* The numbers, sets and records keep their types.
LEMMA NextData == Pn544TypeOK /\ Locked /\ [Pn544Next]_pn544Vars => DataOK'
<1> SUFFICES ASSUME Pn544TypeOK /\ Locked, [Pn544Next]_pn544Vars PROVE DataOK'
  OBVIOUS
<1>t. thread \in [Threads -> Calls]
  BY TypeThreads
<1> USE Pn544Assumption DEF Pn544TypeOK, DataOK, Locked, Modes, Ops
<1>1. ASSUME NEW t \in Threads, NEW f \in Files, NEW op \in Ops, Enters(t, f, op)
      PROVE  DataOK'
  BY <1>1, <1>t DEF Enters, Moved
<1>2. ASSUME NEW t \in Threads, Takes(t) PROVE DataOK'
  BY <1>2, <1>t DEF Takes
<1>3. ASSUME NEW t \in Threads, Returns(t) PROVE DataOK'
  BY <1>3, <1>t DEF Returns, Moved
<1>4. ASSUME NEW t \in Threads, TurnsOn(t) PROVE DataOK'
  BY <1>4, <1>t DEF TurnsOn, Moved
<1>5. ASSUME NEW t \in Threads, ComesUp(t) PROVE DataOK'
  BY <1>5, <1>t DEF ComesUp, Moved
<1>6. ASSUME NEW t \in Threads, Transfers(t) PROVE DataOK'
  BY <1>6, <1>t DEF Transfers, Moved
<1>7. ASSUME NEW t \in Threads, ReadsEnd(t) PROVE DataOK'
  BY <1>7, <1>t DEF ReadsEnd, Moved
<1>8. ASSUME NEW t \in Threads, NEW p \in {"i2c", "asleep"}, GoesOn(t, p) PROVE DataOK'
  BY <1>8, <1>t DEF GoesOn, Moved
<1>9. ASSUME NEW t \in Threads, NEW p \in {"closing", "off"}, TurnsOff(t, p)
      PROVE  DataOK'
  BY <1>9, <1>t DEF TurnsOff, Moved
<1>10. ASSUME NEW t \in Threads, IsOff(t) PROVE DataOK'
  BY <1>10, <1>t DEF IsOff, Moved
<1>11. CASE ChipSpeaks
  BY <1>11, <1>t DEF ChipSpeaks, chip, faults
<1>12. CASE pn544_irq_thread_fn
  BY <1>12, <1>t DEF pn544_irq_thread_fn, chip, faults
<1>13. CASE UNCHANGED pn544Vars
  BY <1>13, <1>t DEF pn544Vars, chip, faults
<1> QED
  BY <1>1, <1>2, <1>3, <1>4, <1>5, <1>6, <1>7, <1>8, <1>9,
     <1>10, <1>11, <1>12, <1>13, <1>t, NextSteps

\* The flags keep theirs.
LEMMA NextFlags == Pn544TypeOK /\ [Pn544Next]_pn544Vars => FlagsOK'
<1> SUFFICES ASSUME Pn544TypeOK, [Pn544Next]_pn544Vars PROVE FlagsOK'
  OBVIOUS
<1>t. thread \in [Threads -> Calls]
  BY TypeThreads
<1> USE Pn544Assumption DEF Pn544TypeOK, FlagsOK
<1>1. ASSUME NEW t \in Threads, NEW f \in Files, NEW op \in Ops, Enters(t, f, op)
      PROVE  FlagsOK'
  BY <1>1, <1>t DEF Enters, Moved
<1>2. ASSUME NEW t \in Threads, Takes(t) PROVE FlagsOK'
  BY <1>2, <1>t DEF Takes
<1>3. ASSUME NEW t \in Threads, Returns(t) PROVE FlagsOK'
  BY <1>3, <1>t DEF Returns, Moved
<1>4. ASSUME NEW t \in Threads, TurnsOn(t) PROVE FlagsOK'
  BY <1>4, <1>t DEF TurnsOn, Moved
<1>5. ASSUME NEW t \in Threads, ComesUp(t) PROVE FlagsOK'
  BY <1>5, <1>t DEF ComesUp, Moved
<1>6. ASSUME NEW t \in Threads, Transfers(t) PROVE FlagsOK'
  BY <1>6, <1>t DEF Transfers, Moved
<1>7. ASSUME NEW t \in Threads, ReadsEnd(t) PROVE FlagsOK'
  BY <1>7, <1>t DEF ReadsEnd, Moved
<1>8. ASSUME NEW t \in Threads, NEW p \in {"i2c", "asleep"}, GoesOn(t, p) PROVE FlagsOK'
  BY <1>8, <1>t DEF GoesOn, Moved
<1>9. ASSUME NEW t \in Threads, NEW p \in {"closing", "off"}, TurnsOff(t, p)
      PROVE  FlagsOK'
  BY <1>9, <1>t DEF TurnsOff, Moved
<1>10. ASSUME NEW t \in Threads, IsOff(t) PROVE FlagsOK'
  BY <1>10, <1>t DEF IsOff, Moved
<1>11. CASE ChipSpeaks
  BY <1>11, <1>t DEF ChipSpeaks, chip, faults
<1>12. CASE pn544_irq_thread_fn
  BY <1>12, <1>t DEF pn544_irq_thread_fn, chip, faults
<1>13. CASE UNCHANGED pn544Vars
  BY <1>13, <1>t DEF pn544Vars, chip, faults
<1> QED
  BY <1>1, <1>2, <1>3, <1>4, <1>5, <1>6, <1>7, <1>8, <1>9,
     <1>10, <1>11, <1>12, <1>13, <1>t, NextSteps

\* The mutexes are held where they have to be.
LEMMA NextLocked == Pn544TypeOK /\ Locked /\ [Pn544Next]_pn544Vars => Locked'
<1> SUFFICES ASSUME Pn544TypeOK /\ Locked, [Pn544Next]_pn544Vars PROVE Locked'
  OBVIOUS
<1>t. thread \in [Threads -> Calls]
  BY TypeThreads
<1> USE Pn544Assumption DEF Pn544TypeOK, Locked, None, Inside, Ops
<1>1. ASSUME NEW t \in Threads, NEW f \in Files, NEW op \in Ops, Enters(t, f, op)
      PROVE  Locked'
  BY <1>1, <1>t DEF Enters, Moved
<1>2. ASSUME NEW t \in Threads, Takes(t) PROVE Locked'
  BY <1>2, <1>t DEF Takes
<1>3. ASSUME NEW t \in Threads, Returns(t) PROVE Locked'
  BY <1>3, <1>t DEF Returns, Moved
<1>4. ASSUME NEW t \in Threads, TurnsOn(t) PROVE Locked'
  BY <1>4, <1>t DEF TurnsOn, Moved
<1>5. ASSUME NEW t \in Threads, ComesUp(t) PROVE Locked'
  BY <1>5, <1>t DEF ComesUp, Moved
<1>6. ASSUME NEW t \in Threads, Transfers(t) PROVE Locked'
  BY <1>6, <1>t DEF Transfers, Moved
<1>7. ASSUME NEW t \in Threads, ReadsEnd(t) PROVE Locked'
  BY <1>7, <1>t DEF ReadsEnd, Moved
<1>8. ASSUME NEW t \in Threads, NEW p \in {"i2c", "asleep"}, GoesOn(t, p) PROVE Locked'
  BY <1>8, <1>t DEF GoesOn, Moved
<1>9. ASSUME NEW t \in Threads, NEW p \in {"closing", "off"}, TurnsOff(t, p)
      PROVE  Locked'
  BY <1>9, <1>t DEF TurnsOff, Moved
<1>10. ASSUME NEW t \in Threads, IsOff(t) PROVE Locked'
  BY <1>10, <1>t DEF IsOff, Moved
<1>11. CASE ChipSpeaks
  BY <1>11, <1>t DEF ChipSpeaks, chip, faults
<1>12. CASE pn544_irq_thread_fn
  BY <1>12, <1>t DEF pn544_irq_thread_fn, chip, faults
<1>13. CASE UNCHANGED pn544Vars
  BY <1>13, <1>t DEF pn544Vars, chip, faults
<1> QED
  BY <1>1, <1>2, <1>3, <1>4, <1>5, <1>6, <1>7, <1>8, <1>9,
     <1>10, <1>11, <1>12, <1>13, <1>t, NextSteps

\* The chip and the state are switched together.
LEMMA NextSwitched == Pn544TypeOK /\ Locked /\ Switched /\ [Pn544Next]_pn544Vars => Switched'
<1> SUFFICES ASSUME Pn544TypeOK /\ Locked /\ Switched, [Pn544Next]_pn544Vars PROVE Switched'
  OBVIOUS
<1>t. thread \in [Threads -> Calls]
  BY TypeThreads
<1> USE Pn544Assumption DEF Pn544TypeOK, Locked, Switched, Modes, Inside,
     Ops, None
<1>1. ASSUME NEW t \in Threads, NEW f \in Files, NEW op \in Ops, Enters(t, f, op)
      PROVE  Switched'
  BY <1>1, <1>t DEF Enters, Moved
<1>2. ASSUME NEW t \in Threads, Takes(t) PROVE Switched'
  BY <1>2, <1>t DEF Takes
<1>3. ASSUME NEW t \in Threads, Returns(t) PROVE Switched'
  BY <1>3, <1>t DEF Returns, Moved
<1>4. ASSUME NEW t \in Threads, TurnsOn(t) PROVE Switched'
  BY <1>4, <1>t DEF TurnsOn, Moved
<1>5. ASSUME NEW t \in Threads, ComesUp(t) PROVE Switched'
  BY <1>5, <1>t DEF ComesUp, Moved
<1>6. ASSUME NEW t \in Threads, Transfers(t) PROVE Switched'
  BY <1>6, <1>t DEF Transfers, Moved
<1>7. ASSUME NEW t \in Threads, ReadsEnd(t) PROVE Switched'
  BY <1>7, <1>t DEF ReadsEnd, Moved
<1>8. ASSUME NEW t \in Threads, NEW p \in {"i2c", "asleep"}, GoesOn(t, p)
      PROVE  Switched'
  BY <1>8, <1>t DEF GoesOn, Moved
<1>9. ASSUME NEW t \in Threads, NEW p \in {"closing", "off"}, TurnsOff(t, p)
      PROVE  Switched'
  BY <1>9, <1>t DEF TurnsOff, Moved
<1>10. ASSUME NEW t \in Threads, IsOff(t) PROVE Switched'
  BY <1>10, <1>t DEF IsOff, Moved
<1>11. CASE ChipSpeaks
  BY <1>11, <1>t DEF ChipSpeaks, chip, faults
<1>12. CASE pn544_irq_thread_fn
  BY <1>12, <1>t DEF pn544_irq_thread_fn, chip, faults
<1>13. CASE UNCHANGED pn544Vars
  BY <1>13, <1>t DEF pn544Vars, chip, faults
<1> QED
  BY <1>1, <1>2, <1>3, <1>4, <1>5, <1>6, <1>7, <1>8, <1>9,
     <1>10, <1>11, <1>12, <1>13, <1>t, NextSteps

\* No step strands a message.
LEMMA NextMessages == MsgInv /\ [Pn544Next]_pn544Vars => NoMessageStranded'
<1> SUFFICES ASSUME MsgInv, [Pn544Next]_pn544Vars PROVE NoMessageStranded'
  OBVIOUS
<1>t. thread \in [Threads -> Calls]
  BY TypeThreads DEF MsgInv
<1> USE Pn544Assumption DEF MsgInv, Pn544TypeOK, Locked, Switched,
     NoMessageStranded, At, Inside, Ops, None
<1>1. ASSUME NEW t \in Threads, NEW f \in Files, NEW op \in Ops, Enters(t, f, op)
      PROVE  NoMessageStranded'
  BY <1>1, <1>t DEF Enters, Moved
<1>2. ASSUME NEW t \in Threads, Takes(t) PROVE NoMessageStranded'
  BY <1>2, <1>t DEF Takes
<1>3. ASSUME NEW t \in Threads, Returns(t) PROVE NoMessageStranded'
  BY <1>3, <1>t DEF Returns, Moved
<1>4. ASSUME NEW t \in Threads, TurnsOn(t) PROVE NoMessageStranded'
  BY <1>4, <1>t DEF TurnsOn, Moved
<1>5. ASSUME NEW t \in Threads, ComesUp(t) PROVE NoMessageStranded'
  BY <1>5, <1>t DEF ComesUp, Moved
<1>6. ASSUME NEW t \in Threads, Transfers(t) PROVE NoMessageStranded'
  BY <1>6, <1>t DEF Transfers, Moved
<1>7. ASSUME NEW t \in Threads, ReadsEnd(t) PROVE NoMessageStranded'
  BY <1>7, <1>t DEF ReadsEnd, Moved
<1>8. ASSUME NEW t \in Threads, NEW p \in {"i2c", "asleep"}, GoesOn(t, p)
      PROVE  NoMessageStranded'
  BY <1>8, <1>t DEF GoesOn, Moved
<1>9. ASSUME NEW t \in Threads, NEW p \in {"closing", "off"}, TurnsOff(t, p)
      PROVE  NoMessageStranded'
  BY <1>9, <1>t DEF TurnsOff, Moved
<1>10. ASSUME NEW t \in Threads, IsOff(t) PROVE NoMessageStranded'
  BY <1>10, <1>t DEF IsOff, Moved
<1>11. CASE ChipSpeaks
  <2>1. CASE unread = 0
    BY <1>11, <2>1 DEF ChipSpeaks
  <2>2. CASE unread # 0
    <3>1. edge => edge'
      BY <1>11 DEF ChipSpeaks
    <3>2. ven /\ unread > 0 /\ (~missed' => ~missed)
      BY <1>11, <2>2 DEF ChipSpeaks
    <3> QED
      BY <1>11, <3>1, <3>2 DEF ChipSpeaks
  <2> QED
    BY <2>1, <2>2
<1>12. CASE pn544_irq_thread_fn
  BY <1>12, <1>t DEF pn544_irq_thread_fn, chip, faults
<1>13. CASE UNCHANGED pn544Vars
  BY <1>13, <1>t DEF pn544Vars, chip, faults
<1> QED
  BY <1>1, <1>2, <1>3, <1>4, <1>5, <1>6, <1>7, <1>8, <1>9,
     <1>10, <1>11, <1>12, <1>13, <1>t, NextSteps

\* The driver goes on serving one file, unless a mode switch fails.
LEMMA NextOneFile == RegInv /\ ~failed /\ [Pn544Next]_pn544Vars => (failed \/ OneFile)'
<1> SUFFICES ASSUME RegInv /\ ~failed, [Pn544Next]_pn544Vars PROVE (failed \/ OneFile)'
  OBVIOUS
<1>t. thread \in [Threads -> Calls]
  BY TypeThreads DEF RegInv
<1> USE Pn544Assumption DEF RegInv, Pn544TypeOK, Modes, Locked, Switched,
     OneFile, Inside, Ops, None
<1>1. ASSUME NEW t \in Threads, NEW f \in Files, NEW op \in Ops, Enters(t, f, op)
      PROVE  (failed \/ OneFile)'
  BY <1>1, <1>t DEF Enters, Moved
<1>2. ASSUME NEW t \in Threads, Takes(t) PROVE (failed \/ OneFile)'
  BY <1>2, <1>t DEF Takes
<1>3. ASSUME NEW t \in Threads, Returns(t) PROVE (failed \/ OneFile)'
  BY <1>3, <1>t DEF Returns, Moved
<1>4. ASSUME NEW t \in Threads, TurnsOn(t) PROVE (failed \/ OneFile)'
  BY <1>4, <1>t DEF TurnsOn, Moved
<1>5. ASSUME NEW t \in Threads, ComesUp(t) PROVE (failed \/ OneFile)'
  BY <1>5, <1>t DEF ComesUp, Moved
<1>6. ASSUME NEW t \in Threads, Transfers(t) PROVE (failed \/ OneFile)'
  BY <1>6, <1>t DEF Transfers, Moved
<1>7. ASSUME NEW t \in Threads, ReadsEnd(t) PROVE (failed \/ OneFile)'
  BY <1>7, <1>t DEF ReadsEnd, Moved
<1>8. ASSUME NEW t \in Threads, NEW p \in {"i2c", "asleep"}, GoesOn(t, p)
      PROVE  (failed \/ OneFile)'
  BY <1>8, <1>t DEF GoesOn, Moved
<1>9. ASSUME NEW t \in Threads, NEW p \in {"closing", "off"}, TurnsOff(t, p)
      PROVE  (failed \/ OneFile)'
  BY <1>9, <1>t DEF TurnsOff, Moved
<1>10. ASSUME NEW t \in Threads, IsOff(t) PROVE (failed \/ OneFile)'
  BY <1>10, <1>t DEF IsOff, Moved
<1>11. CASE ChipSpeaks
  BY <1>11, <1>t DEF ChipSpeaks, chip, faults
<1>12. CASE pn544_irq_thread_fn
  BY <1>12, <1>t DEF pn544_irq_thread_fn, chip, faults
<1>13. CASE UNCHANGED pn544Vars
  BY <1>13, <1>t DEF pn544Vars, chip, faults
<1> HIDE DEF RegInv, Pn544TypeOK, Modes, Locked, Switched, OneFile, Inside, Ops, None
<1> QED
  BY <1>1, <1>2, <1>3, <1>4, <1>5, <1>6, <1>7, <1>8, <1>9,
     <1>10, <1>11, <1>12, <1>13, <1>t, NextSteps

\* The regulators stay counted, unless a mode switch fails.
LEMMA NextCounted == RegInv /\ ~failed /\ [Pn544Next]_pn544Vars => (failed \/ Counted)'
<1> SUFFICES ASSUME RegInv /\ ~failed, [Pn544Next]_pn544Vars PROVE (failed \/ Counted)'
  OBVIOUS
<1>t. thread \in [Threads -> Calls]
  BY TypeThreads DEF RegInv
<1> USE Pn544Assumption DEF RegInv, Pn544TypeOK, Modes, Locked, Switched,
     OneFile, Counted, Inside, Ops, None
<1>1. ASSUME NEW t \in Threads, NEW f \in Files, NEW op \in Ops, Enters(t, f, op)
      PROVE  (failed \/ Counted)'
  BY <1>1, <1>t DEF Enters, Moved
<1>2. ASSUME NEW t \in Threads, Takes(t) PROVE (failed \/ Counted)'
  BY <1>2, <1>t DEF Takes
<1>3. ASSUME NEW t \in Threads, Returns(t) PROVE (failed \/ Counted)'
  BY <1>3, <1>t DEF Returns, Moved
<1>4. ASSUME NEW t \in Threads, TurnsOn(t) PROVE (failed \/ Counted)'
  BY <1>4, <1>t DEF TurnsOn, Moved
<1>5. ASSUME NEW t \in Threads, ComesUp(t) PROVE (failed \/ Counted)'
  BY <1>5, <1>t DEF ComesUp, Moved
<1>6. ASSUME NEW t \in Threads, Transfers(t) PROVE (failed \/ Counted)'
  BY <1>6, <1>t DEF Transfers, Moved
<1>7. ASSUME NEW t \in Threads, ReadsEnd(t) PROVE (failed \/ Counted)'
  BY <1>7, <1>t DEF ReadsEnd, Moved
<1>8. ASSUME NEW t \in Threads, NEW p \in {"i2c", "asleep"}, GoesOn(t, p)
      PROVE  (failed \/ Counted)'
  BY <1>8, <1>t DEF GoesOn, Moved
<1>9. ASSUME NEW t \in Threads, NEW p \in {"closing", "off"}, TurnsOff(t, p)
      PROVE  (failed \/ Counted)'
  BY <1>9, <1>t DEF TurnsOff, Moved
<1>10. ASSUME NEW t \in Threads, IsOff(t) PROVE (failed \/ Counted)'
  BY <1>10, <1>t DEF IsOff, Moved
<1>11. CASE ChipSpeaks
  BY <1>11, <1>t DEF ChipSpeaks, chip, faults
<1>12. CASE pn544_irq_thread_fn
  BY <1>12, <1>t DEF pn544_irq_thread_fn, chip, faults
<1>13. CASE UNCHANGED pn544Vars
  BY <1>13, <1>t DEF pn544Vars, chip, faults
<1> QED
  BY <1>1, <1>2, <1>3, <1>4, <1>5, <1>6, <1>7, <1>8, <1>9,
     <1>10, <1>11, <1>12, <1>13, <1>t, NextSteps

-----------------------------------------------------------------------------
(* The theorems                                                            *)

\* Every call keeps the variables in their types, and the mutexes where the threads
\* say they are: whoever is past mutex_lock() holds info->mutex, only the thread that
\* has read a frame and not yet reset read_irq holds read_mutex, and no error path
\* returns with info->mutex.
THEOREM Pn544TypeCorrect == Pn544Spec => [](Pn544TypeOK /\ Locked)
<1>1. Pn544TypeOK /\ Locked /\ [Pn544Next]_pn544Vars => (Pn544TypeOK /\ Locked)'
  BY NextData, NextFlags, NextLocked, TypeParts
<1>2. Pn544Init => Pn544TypeOK /\ Locked
  BY InitMsg DEF MsgInv
<1> QED
  BY <1>1, <1>2, PTL DEF Pn544Spec

\* No message is stranded in the chip: whatever calls, interrupts, mode switches and
\* messages interleave, a message that no failed read has dropped is announced by
\* read_irq or by a pending interrupt.  pn544_read() resets read_irq only in the
\* thread that holds both mutexes, before the line can rise for the next message
\* and go unseen, and pn544_enable() and pn544_disable() reset it only while the
\* chip is off and empty: that is what MsgInv adds.
THEOREM MessagesAnnounced == Pn544Spec => []NoMessageStranded
<1>1. MsgInv /\ [Pn544Next]_pn544Vars => MsgInv'
  BY NextData, NextFlags, NextLocked, NextSwitched, NextMessages, TypeParts DEF MsgInv
<1>2. MsgInv => NoMessageStranded
  BY DEF MsgInv
<1> QED
  BY <1>1, <1>2, InitMsg, PTL DEF Pn544Spec

\* The regulators are balanced whenever no call is inside the driver, unless a mode
\* switch has failed: the driver serves one file at a time, because open() answers
\* -EBUSY unless it is COLD, and so the close that switches off finds it switched
\* on.
THEOREM PowerBalanced == Pn544Spec => []RegulatorsBalanced
<1>1. RegInv /\ [Pn544Next]_pn544Vars => RegInv'
  <2> SUFFICES ASSUME RegInv, [Pn544Next]_pn544Vars PROVE RegInv'
    OBVIOUS
  <2>1. (Pn544TypeOK /\ Locked /\ Switched)'
    BY NextData, NextFlags, NextLocked, NextSwitched, TypeParts DEF RegInv
  <2>2. failed => failed'
    <3>1. thread \in [Threads -> Calls]
      BY TypeThreads DEF RegInv
    <3> QED
      BY <3>1, NextSteps DEF Enters, Takes, Returns, TurnsOn, ComesUp, Transfers,
           ReadsEnd, GoesOn, TurnsOff, IsOff, ChipSpeaks, pn544_irq_thread_fn,
                 pn544Vars, faults
  <2> QED
    BY <2>1, <2>2, NextOneFile, NextCounted DEF RegInv
<1>2. RegInv => RegulatorsBalanced
  <2> SUFFICES ASSUME RegInv, mutex = None, ~failed
               PROVE  regs = IF state = "cold" THEN 0 ELSE 1
    BY DEF RegulatorsBalanced
  <2>1. \A t \in Threads : thread[t].at \notin Inside
    BY Pn544Assumption DEF RegInv, Locked, None
  <2> QED
    BY <2>1 DEF RegInv, Counted, Inside
<1> QED
  BY <1>1, <1>2, InitMsg, PTL DEF Pn544Spec

\* pn544_i2c_read() and pn544_fw_read() read at most len bytes, whatever length the
\* frame claims: the test in front of the second transfer is the right one.
LEMMA BytesFit ==
  ASSUME NEW claim \in Nat, NEW len \in Nat
  PROVE  Bytes(claim, len) <= len
  BY Pn544Assumption DEF Bytes, HciBytes, FwBytes

\* No transfer is longer than its buffer, for any frame sizes.
THEOREM FramesAlwaysFit == Pn544Spec => []FramesFit
<1>1. Pn544Init => FramesFit
  BY DEF Pn544Init, FramesFit
<1>2. FramesFit /\ [Pn544Next]_pn544Vars => FramesFit'
  <2> SUFFICES ASSUME FramesFit, [Pn544Next]_pn544Vars PROVE FramesFit'
    OBVIOUS
  <2>1. ASSUME NEW t \in Threads, I2cRead(t) PROVE FramesFit'
    <3>1. PICK claim \in 0 .. BufLen + 1, count \in 0 .. BufLen + 1 :
            LET len == IF count < BufLen THEN count ELSE BufLen
            IN  overrun' = (overrun \/ Bytes(claim, len) > len)
      BY <2>1 DEF I2cRead
    <3> DEFINE len == IF count < BufLen THEN count ELSE BufLen
    <3>2. len \in Nat /\ claim \in Nat
      BY Pn544Assumption
    <3>3. Bytes(claim, len) <= len
      BY <3>2, BytesFit
    <3>4. Bytes(claim, len) \in Int
      BY <3>2, Pn544Assumption DEF Bytes, HciBytes, FwBytes
    <3>5. ~(Bytes(claim, len) > len)
      BY <3>2, <3>3, <3>4
    <3> QED
      BY <3>1, <3>5 DEF FramesFit
  <2> USE DEF FramesFit, faults
  <2>2. ASSUME NEW t \in Threads, Body(t), ~I2cRead(t) PROVE FramesFit'
    BY <2>2 DEF Body, NoDevice, pn544_open, Enable, EnableFails,
         pn544_close, Disable,
         DisableEnd, pn544_read, WakeUp, ReadEnd, pn544_poll,
               pn544_write, SwitchMode,
         EnableChip
  <2>3. ASSUME NEW t \in Threads, Lock(t) \/ Signal(t) PROVE FramesFit'
    BY <2>3 DEF Lock, Signal
  <2>4. ASSUME NEW t \in Threads, NEW f \in Files, NEW op \in Ops,
        NEW m \in Modes,
               Call(t, f, op, m)
        PROVE  FramesFit'
    BY <2>4 DEF Call
  <2>5. CASE ChipSpeaks \/ pn544_irq_thread_fn \/ UNCHANGED pn544Vars
    BY <2>5 DEF ChipSpeaks, pn544_irq_thread_fn, pn544Vars
  <2> QED
    BY <2>1, <2>2, <2>3, <2>4, <2>5 DEF Pn544Next
<1> QED
  BY <1>1, <1>2, PTL DEF Pn544Spec
=============================================================================
