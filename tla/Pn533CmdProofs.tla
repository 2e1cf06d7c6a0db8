--------------------------- MODULE Pn533CmdProofs ---------------------------
(***************************************************************************)
(* Theorems about the command path of the PN533 driver, for any number of  *)
(* commands, chunks, failures and aborts, with and without the ack: one    *)
(* thing at a time drives it, commands are answered in order, a chain of   *)
(* chunks is not broken by another command, and a response is whole; and   *)
(* the types.                                                              *)
(***************************************************************************)
EXTENDS Pn533Cmd, TLAPS

-----------------------------------------------------------------------------
(* The inductive invariant                                                 *)

Answers == [id : Ids, status : {"ok", "EIO", "ENOENT"}, chunks : Seq(Ids \X Nat)]

\* The types of what the command path is about.
CoreOK ==
  /\ cmd \in 0 .. MaxCommands /\ sending \in 0 .. MaxCommands
  /\ mi_arg \in 0 .. MaxCommands
  /\ caller \in [at : {"idle", "sent", "wait", "done", "release", "purge"},
                 id : 0 .. MaxCommands]
  /\ in_urb \in {"idle", "ack", "resp"}
  /\ status \in {"ok", "EIO", "ENOENT"}
  /\ kinds \in Seq(Kinds) /\ Len(kinds) <= MaxCommands
  /\ cmd_queue \in Seq(Ids)
  /\ resp_q \in Seq(Ids \X Nat)
  /\ got \in [Ids -> Nat]
  /\ answered \in Seq(Answers)
  /\ lost \subseteq Ids

Done == {answered[i].id : i \in DOMAIN answered}

\* The command that the driver carries out: it is in flight, or its next chunk is
\* to be asked for.
Cur == IF CmdLock THEN caller.id
       ELSE IF sending # 0 THEN sending
       ELSE IF cmd # 0 THEN cmd
       ELSE IF work = <<"mi">> THEN mi_arg ELSE 0

\* The last command that has left the queue.
Left == Len(kinds) - Len(cmd_queue)

\* One thing drives the path: the URB or one item of work, and each of them has
\* what it needs.  cmd_pending says so, except while the caller still holds the
\* lock, and except after pn533_wq_cmd() has failed to send.
Driven ==
  /\ work \in {<<>>, <<"cmd">>, <<"complete">>, <<"mi">>}
  /\ CmdLock => /\ ~cmd_pending /\ in_urb # "idle" /\ work = <<>>
                /\ cmd = 0 /\ sending = 0 /\ cmd_queue = <<>> /\ caller.id # 0
  /\ ~cmd_pending /\ ~CmdLock => /\ in_urb = "idle" /\ work = <<>>
                                 /\ cmd = 0 /\ sending = 0 /\ cmd_queue = <<>>
  /\ in_urb # "idle" => work = <<>> /\ (cmd # 0 \/ sending # 0 \/ CmdLock)
  /\ cmd_pending => in_urb # "idle" \/ work # <<>> \/ stalled
  /\ sending # 0 => in_urb # "idle" /\ cmd = 0
  /\ cmd # 0 <=> (in_urb # "idle" /\ sending = 0 /\ ~CmdLock) \/ work = <<"complete">>
  /\ work = <<"mi">> => mi_arg # 0

\* What is in flight has its command, also where a completion came too early.
Carried == in_urb # "idle" => cmd # 0 \/ sending # 0 \/ CmdLock

\* The queue holds the latest commands, the current one is the last that has left
\* it, and those before were answered, in order, or lost.
Ordered ==
  /\ Len(cmd_queue) <= Len(kinds)
  /\ \A i \in 1 .. Len(cmd_queue) : cmd_queue[i] = Left + i
  /\ Cur # 0 => Cur = Left
  /\ \A id \in Done \cup lost : id <= Left /\ id # Cur
  /\ \A id \in 1 .. Left : id \in Done \cup lost \cup {Cur}
  /\ \A i, j \in DOMAIN answered : i < j => answered[i].id < answered[j].id

\* Chunks come for the current command or came for one that is over, and resp_q
\* holds those of the current one, as long as none were thrown away.
Chained ==
  /\ \A id \in Ids : got[id] > 0 => id \in Done \cup lost \cup {Cur} /\ kinds[id] = "xchg"
  /\ ~purged /\ lost = {}
       => resp_q = IF Cur = 0 THEN <<>> ELSE [n \in 1 .. got[Cur] |-> <<Cur, n>>]

PathInv == CoreOK /\ (~oops => Driven) /\ Carried /\ Ordered /\ InOrder /\ Chained
           /\ WholeResponse
-----------------------------------------------------------------------------
(* The steps, by what they do to the command path                          *)

drive == <<cmd, cmd_pending, in_urb, work, sending, mi_arg, oops, stalled>>
order == <<kinds, cmd_queue, answered, lost>>
chunks == <<resp_q, got, purged>>

Callers == [at : {"idle", "sent", "wait", "done", "release", "purge"},
            id : 0 .. MaxCommands]

\* A command is sent at once, by the caller, which has the lock until dev->cmd is
\* set.
Starts(k) ==
  /\ ~oops /\ ~CmdLock /\ ~cmd_pending /\ Len(kinds) + 1 \in Ids
  /\ kinds' = Append(kinds, k)
  /\ in_urb' \in {"ack", "resp"}
  /\ caller' = [at |-> "sent", id |-> Len(kinds) + 1]
  /\ UNCHANGED <<cmd, status, cmd_pending, cmd_queue, work, sending, mi_arg, oops, stalled,
                 answered, lost, chunks>>

\* It is queued.
Queues(k) ==
  /\ ~oops /\ ~CmdLock /\ cmd_pending /\ Len(kinds) + 1 \in Ids
  /\ kinds' = Append(kinds, k)
  /\ cmd_queue' = Append(cmd_queue, Len(kinds) + 1)
  /\ caller' \in Callers /\ ~CmdLock'
  /\ UNCHANGED <<status, drive, answered, lost, chunks>>

\* The caller goes on and leaves the command path alone.
Turns ==
  /\ ~oops /\ ~CmdLock /\ caller' \in Callers /\ ~CmdLock'
  /\ UNCHANGED <<status, drive, order, chunks>>

\* It throws the chunks away.
Purges ==
  /\ ~oops /\ ~CmdLock /\ caller' \in Callers /\ ~CmdLock'
  /\ resp_q' = <<>> /\ purged' = (purged \/ resp_q # <<>>)
  /\ UNCHANGED <<status, drive, order, got>>

\* The URB is completed, by the chip or by an abort.
UrbEnds ==
  /\ ~oops /\ in_urb # "idle" /\ in_urb' = "idle"
  /\ oops' = (cmd = 0) /\ work' = QueueWork(work, "complete")
  /\ status' \in {"ok", "EIO", "ENOENT"}
  /\ caller' = caller \/ (caller' \in Callers /\ ~CmdLock /\ ~CmdLock')
  /\ UNCHANGED <<cmd, cmd_pending, sending, mi_arg, stalled, order, chunks>>

\* The ack has come.
UrbGoesOn ==
  /\ ~oops /\ in_urb = "ack" /\ in_urb' = "resp"
  /\ oops' = (cmd = 0) /\ status' = "ok"
  /\ UNCHANGED <<cmd, cmd_pending, work, sending, mi_arg, stalled, caller, order, chunks>>

\* The worker answers a command other than an exchange.
Completes(s) ==
  /\ Takes("complete") /\ cmd # 0 /\ kinds[cmd] # "xchg"
  /\ answered' = Append(answered, [id |-> cmd, status |-> s, chunks |-> <<>>])
  /\ work' = QueueWork(Tail(work), "cmd") /\ cmd' = 0
  /\ caller' = caller \/ (caller' \in Callers /\ ~CmdLock')
  /\ UNCHANGED <<status, cmd_pending, cmd_queue, in_urb, sending, mi_arg, oops, stalled,
                 kinds, lost, chunks>>

\* It sends the next command of the queue, or loses it.
SendsNext ==
  /\ Takes("cmd") /\ ~CmdLock /\ cmd_queue # <<>>
  /\ cmd_queue' = Tail(cmd_queue) /\ work' = Tail(work)
  /\ in_urb' \in {"ack", "resp"} /\ sending' = Head(cmd_queue)
  /\ UNCHANGED <<cmd, status, cmd_pending, mi_arg, oops, stalled, caller, kinds, answered,
                 lost, chunks>>

LosesNext ==
  /\ Takes("cmd") /\ ~CmdLock /\ cmd_queue # <<>>
  /\ cmd_queue' = Tail(cmd_queue) /\ work' = Tail(work)
  /\ lost' = lost \cup {Head(cmd_queue)} /\ stalled' = TRUE
  /\ UNCHANGED <<cmd, status, cmd_pending, in_urb, sending, mi_arg, oops, caller, kinds,
                 answered, chunks>>

\* It asks for the next chunk, or loses the command.
AsksNext ==
  /\ Takes("mi") /\ work' = Tail(work)
  /\ in_urb' \in {"ack", "resp"} /\ sending' = mi_arg
  /\ UNCHANGED <<cmd, status, cmd_pending, mi_arg, oops, stalled, caller, order, chunks>>

LosesChunk ==
  /\ Takes("mi") /\ work' = QueueWork(Tail(work), "cmd")
  /\ lost' = lost \cup {mi_arg}
  /\ UNCHANGED <<cmd, status, cmd_pending, in_urb, sending, mi_arg, oops, stalled, caller,
                 kinds, cmd_queue, answered, chunks>>

\* A step of the driver is one of these, and none is taken after a completion went
\* through a NULL dev->cmd.
LEMMA NextSteps ==
  ASSUME CoreOK, [Next]_vars
  PROVE  \/ \E k \in Kinds : Starts(k) \/ Queues(k)
         \/ Turns \/ Purges \/ UrbEnds \/ UrbGoesOn \/ SetCmd
         \/ \E s \in {"ok", "EIO", "ENOENT"} : Completes(s)
         \/ MoreChunks \/ LastChunk \/ ExchangeFails \/ QueueEmpty
         \/ SendsNext \/ LosesNext \/ AsksNext \/ LosesChunk \/ WorkerSetCmd
         \/ UNCHANGED vars
<1> USE DEF chunks, drive, order
<1>c. \A p \in {"idle", "wait", "done", "release", "purge"}, id \in 0 .. MaxCommands :
        Goto(p, id) => caller' \in Callers /\ ~CmdLock'
  BY DEF Goto, Callers, CmdLock
<1>z. 0 \in 0 .. MaxCommands /\ Ids \subseteq 0 .. MaxCommands
  BY Pn533Assumption DEF Ids
<1>1. ASSUME NEW k \in Kinds, Send(k) PROVE Starts(k) \/ Queues(k)
  <2>1. ~oops /\ ~CmdLock
    BY <1>1 DEF Send, Permitted, At, CmdLock, Kinds, SyncKinds
  <2>2. CASE cmd_pending /\ Goto(Accepted(k), Len(kinds) + 1)
    <3>1. caller' \in Callers /\ ~CmdLock'
      BY <1>1, <1>c, <1>z, <2>2 DEF Send, Accepted
    <3> QED
      BY <1>1, <2>1, <2>2, <3>1 DEF Send, Queues, Enqueue
  <2>3. CASE ~cmd_pending
    BY <1>1, <2>1, <2>3 DEF Send, Starts, SendFrame, Goto
  <2> QED
    BY <1>1, <2>2, <2>3 DEF Send
<1>2. ASSUME NEW k \in Kinds, SendFails(k) PROVE Turns
  <2>1. ~oops /\ ~CmdLock
    BY <1>2 DEF SendFails, Permitted, At, CmdLock, Kinds, SyncKinds
  <2> QED
    BY <1>2, <1>c, <1>z, <2>1 DEF SendFails, Turns
<1>3. CASE Activate
  BY <1>3 DEF Activate, Turns, At, CmdLock, CoreOK, Callers, history
<1>4. CASE Deactivate \/ LinkDownPurge
  BY <1>4, <1>c, <1>z DEF Deactivate, LinkDownPurge, Purges, Purge, At, CmdLock
<1>5. CASE StopPoll \/ LinkDown
  <2>1. ~oops /\ ~CmdLock /\ caller' \in Callers /\ ~CmdLock'
    BY <1>5, <1>c, <1>z DEF StopPoll, LinkDown, At, CmdLock, CoreOK, Callers
  <2>2. CASE UNCHANGED <<cmd, status, work, in_urb, oops>>
    BY <1>5, <2>1, <2>2 DEF StopPoll, LinkDown, Turns
  <2>3. CASE in_urb # "idle" /\ CompleteUrb("ENOENT") /\ UNCHANGED cmd
    BY <1>5, <2>1, <2>3 DEF StopPoll, LinkDown, UrbEnds, CompleteUrb
  <2> QED
    BY <1>5, <2>2, <2>3 DEF StopPoll, LinkDown, AbortCmd, KillUrb
<1>6. ASSUME NEW ok \in BOOLEAN, SyncReturn(ok) PROVE Turns
  BY <1>6, <1>c, <1>z DEF SyncReturn, Turns, At, CmdLock, history
<1>7. CASE RecvAck
  BY <1>7 DEF RecvAck, UrbEnds, UrbGoesOn, CompleteUrb
<1>8. ASSUME NEW s \in {"ok", "EIO"}, RecvResponse(s) PROVE UrbEnds
  BY <1>8 DEF RecvResponse, UrbEnds, CompleteUrb, history
<1>9. CASE SyncComplete
  <2>1. kinds[cmd] # "xchg" /\ caller' \in Callers /\ ~CmdLock'
    BY <1>9, <1>c DEF SyncComplete, SyncKinds, CoreOK
  <2> QED
    BY <1>9, <2>1 DEF SyncComplete, Completes, Answer, NextCommand, FreeCmd, CoreOK
<1>10. ASSUME NEW found \in BOOLEAN, PollComplete(found)
       PROVE  \E s \in {"ok", "EIO", "ENOENT"} : Completes(s)
  BY <1>10 DEF PollComplete, Completes, Answer, NextCommand, FreeCmd, CoreOK
<1>11. CASE SendNext
  BY <1>11 DEF SendNext, SendsNext, LosesNext, SendFrame
<1>12. CASE NextChunk
  BY <1>12 DEF NextChunk, AsksNext, LosesChunk, SendFrame
<1> QED
  BY <1>1, <1>2, <1>3, <1>4, <1>5, <1>6, <1>7, <1>8, <1>9, <1>10, <1>11, <1>12
     DEF Next, CallStep, UrbStep, WorkerStep

-----------------------------------------------------------------------------
(* Sequences                                                               *)

\* What queue_work() does to a workqueue that holds at most one item.
LEMMA QueueWorkFact ==
  ASSUME NEW w
  PROVE  /\ QueueWork(<<>>, w) = <<w>>
         /\ \A v : Tail(<<v>>) = <<>> /\ Head(<<v>>) = v /\ <<v>> # <<>>
         /\ \A v : <<v>> = <<w>> => v = w
<1>1. ToSet(<<>>) = {}
  BY DEF ToSet
<1> QED
  BY <1>1 DEF QueueWork

\* What the worker takes is all there is.
LEMMA TakesFact ==
  ASSUME ~oops => Driven, NEW w \in {"cmd", "complete", "mi"}, Takes(w)
  PROVE  /\ ~oops /\ sending = 0 /\ work = <<w>>
         /\ in_urb = "idle" /\ ~CmdLock /\ cmd_pending
         /\ Tail(work) = <<>> /\ QueueWork(Tail(work), "cmd") = <<"cmd">>
         /\ QueueWork(Tail(work), "mi") = <<"mi">>
<1>1. work = <<w>>
  BY DEF Takes, Driven
<1> QED
  BY <1>1, QueueWorkFact DEF Takes, Driven

\* One more answer.
LEMMA AnswerFact ==
  ASSUME answered \in Seq(Answers), NEW a \in Answers, answered' = Append(answered, a)
  PROVE  /\ answered' \in Seq(Answers)
         /\ Done' = Done \cup {a.id}
         /\ Len(answered') = Len(answered) + 1 /\ Len(answered) \in Nat
         /\ DOMAIN answered' = 1 .. Len(answered) + 1 /\ DOMAIN answered = 1 .. Len(answered)
         /\ \A i \in 1 .. Len(answered) : answered'[i] = answered[i]
         /\ answered'[Len(answered) + 1] = a
<1>1. /\ answered' \in Seq(Answers)
      /\ Len(answered') = Len(answered) + 1 /\ Len(answered) \in Nat
      /\ DOMAIN answered' = 1 .. Len(answered) + 1 /\ DOMAIN answered = 1 .. Len(answered)
      /\ \A i \in 1 .. Len(answered) : answered'[i] = answered[i]
      /\ answered'[Len(answered) + 1] = a
  OBVIOUS
<1>2. Done' = Done \cup {a.id}
  BY <1>1 DEF Done
<1> QED
  BY <1>1, <1>2

\* One more chunk.
LEMMA ChunkFact ==
  ASSUME CoreOK, cmd # 0, got' = [got EXCEPT ![cmd] = @ + 1]
  PROVE  /\ cmd \in Ids /\ got' \in [Ids -> Nat]
         /\ got'[cmd] = got[cmd] + 1 /\ \A id \in Ids \ {cmd} : got'[id] = got[id]
         /\ Append(resp_q, <<cmd, got'[cmd]>>) \in Seq(Ids \X Nat)
<1>1. cmd \in Ids
  BY Pn533Assumption DEF CoreOK, Ids
<1>2. /\ got' \in [Ids -> Nat]
      /\ got'[cmd] = got[cmd] + 1 /\ \A id \in Ids \ {cmd} : got'[id] = got[id]
  BY <1>1 DEF CoreOK
<1>3. <<cmd, got'[cmd]>> \in Ids \X Nat /\ resp_q \in Seq(Ids \X Nat)
  BY <1>1, <1>2 DEF CoreOK
<1> QED
  BY <1>1, <1>2, <1>3

\* The commands that were answered are commands.
LEMMA DoneFact ==
  ASSUME CoreOK
  PROVE  /\ Done \subseteq Ids
         /\ \A i \in DOMAIN answered :
              answered[i] \in Answers /\ answered[i].id \in Done /\ answered[i].id \in Ids
<1>1. \A i \in DOMAIN answered : answered[i] \in Answers
  BY DEF CoreOK
<1>2. \A a \in Answers : a.id \in Ids
  BY DEF Answers
<1> QED
  BY <1>1, <1>2 DEF Done

\* The queue without its head.
LEMMA QueueFact ==
  ASSUME CoreOK, cmd_queue # <<>>
  PROVE  /\ Head(cmd_queue) \in Ids /\ Head(cmd_queue) # 0 /\ Head(cmd_queue) = cmd_queue[1]
         /\ Tail(cmd_queue) \in Seq(Ids)
         /\ Len(cmd_queue) \in Nat \ {0} /\ Len(Tail(cmd_queue)) = Len(cmd_queue) - 1
         /\ \A i \in 1 .. Len(cmd_queue) - 1 : Tail(cmd_queue)[i] = cmd_queue[i + 1]
<1>1. cmd_queue \in Seq(Ids)
  BY DEF CoreOK
<1>2. /\ Head(cmd_queue) \in Ids /\ Head(cmd_queue) = cmd_queue[1]
      /\ Tail(cmd_queue) \in Seq(Ids)
      /\ Len(cmd_queue) \in Nat \ {0} /\ Len(Tail(cmd_queue)) = Len(cmd_queue) - 1
      /\ \A i \in 1 .. Len(cmd_queue) - 1 : Tail(cmd_queue)[i] = cmd_queue[i + 1]
  BY <1>1
<1> QED
  BY <1>2 DEF Ids

-----------------------------------------------------------------------------
(* Types and the driver                                                    *)

\* The types are kept.
LEMMA NextCore == CoreOK /\ (~oops => Driven) /\ [Next]_vars => CoreOK'
<1> SUFFICES ASSUME CoreOK, ~oops => Driven, [Next]_vars PROVE CoreOK'
  OBVIOUS
<1>q. cmd # 0 => cmd \in Ids
  BY Pn533Assumption DEF CoreOK, Ids
<1>a. /\ <<>> \in Seq(Ids \X Nat)
      /\ \A id \in Ids, s \in {"ok", "EIO", "ENOENT"}, c \in Seq(Ids \X Nat) :
           [id |-> id, status |-> s, chunks |-> c] \in Answers
  BY DEF Answers
<1>n. \A a \in Answers : Append(answered, a) \in Seq(Answers)
  BY DEF CoreOK
<1>b. 0 \in 0 .. MaxCommands /\ Ids \subseteq 0 .. MaxCommands
  BY Pn533Assumption DEF Ids
<1> USE DEF Callers, drive, order, chunks
<1>1. ASSUME NEW k \in Kinds, Starts(k) PROVE CoreOK'
  <2>1. Append(kinds, k) \in Seq(Kinds) /\ Len(Append(kinds, k)) <= MaxCommands
    BY <1>1, Pn533Assumption DEF Starts, CoreOK, Ids
  <2> QED
    BY <1>1, <1>b, <2>1 DEF Starts, CoreOK
<1>2. ASSUME NEW k \in Kinds, Queues(k) PROVE CoreOK'
  <2>1. Append(kinds, k) \in Seq(Kinds) /\ Len(Append(kinds, k)) <= MaxCommands
    BY <1>2, Pn533Assumption DEF Queues, CoreOK, Ids
  <2>2. Append(cmd_queue, Len(kinds) + 1) \in Seq(Ids)
    BY <1>2 DEF Queues, CoreOK
  <2> QED
    BY <1>2, <1>b, <2>1, <2>2 DEF Queues, CoreOK
<1>3. CASE Turns
  BY <1>3, <1>b DEF Turns, CoreOK
<1>4. CASE Purges
  BY <1>4, <1>b DEF Purges, CoreOK
<1>5. CASE UrbEnds
  BY <1>5, <1>b DEF UrbEnds, CoreOK
<1>6. CASE UrbGoesOn
  BY <1>6, <1>b DEF UrbGoesOn, CoreOK
<1>7. CASE SetCmd
  BY <1>7, <1>b DEF CoreOK, SetCmd, At, Goto, Accepted, history
<1>8. ASSUME NEW s \in {"ok", "EIO", "ENOENT"}, Completes(s) PROVE CoreOK'
  <2>1. Append(answered, [id |-> cmd, status |-> s, chunks |-> <<>>]) \in Seq(Answers)
    BY <1>8, <1>q, <1>a, <1>n DEF Completes
  <2> QED
    BY <1>8, <1>b, <2>1 DEF Completes, CoreOK
<1>9. CASE MoreChunks
  BY <1>9, <1>b, ChunkFact DEF MoreChunks, RequestChunk, FreeCmd, CoreOK
<1>10. CASE LastChunk
  <2>1. got' \in [Ids -> Nat] /\ Append(resp_q, <<cmd, got'[cmd]>>) \in Seq(Ids \X Nat)
    BY <1>10, ChunkFact DEF LastChunk
  <2>2. answered' \in Seq(Answers)
    BY <1>10, <1>q, <1>a, <1>n, <2>1 DEF LastChunk, Answer
  <2> QED
    BY <1>10, <1>a, <1>b, <2>1, <2>2 DEF LastChunk, FreeCmd, CoreOK
<1>11. CASE ExchangeFails
  <2>0. (IF status = "ok" THEN "EIO" ELSE status) \in {"ok", "EIO", "ENOENT"}
    BY DEF CoreOK
  <2>1. answered' \in Seq(Answers)
    BY <1>11, <1>q, <1>a, <1>n, <2>0 DEF ExchangeFails, Answer
  <2> QED
    BY <1>11, <1>a, <1>b, <2>1 DEF ExchangeFails, DropChunks, FreeCmd, CoreOK
<1>12. CASE QueueEmpty
  BY <1>12 DEF QueueEmpty, history, CoreOK
<1>13. CASE SendsNext
  BY <1>13, <1>b, QueueFact DEF SendsNext, CoreOK
<1>14. CASE LosesNext
  BY <1>14, <1>b, QueueFact DEF LosesNext, CoreOK
<1>15. CASE AsksNext
  BY <1>15, <1>b DEF AsksNext, CoreOK
<1>16. CASE LosesChunk
  <2>1. mi_arg \in Ids
    BY <1>16, TakesFact, Pn533Assumption DEF LosesChunk, Takes, Driven, CoreOK, Ids
  <2> QED
    BY <1>16, <2>1 DEF LosesChunk, CoreOK
<1>17. CASE WorkerSetCmd
  BY <1>17, <1>b DEF WorkerSetCmd, history, CoreOK
<1>18. CASE UNCHANGED vars
  BY <1>18 DEF vars, devVars, history, CoreOK
<1> QED
  BY NextSteps, <1>1, <1>2, <1>3, <1>4, <1>5, <1>6, <1>7, <1>8, <1>9, <1>10, <1>11,
     <1>12, <1>13, <1>14, <1>15, <1>16, <1>17, <1>18

\* One thing goes on driving the path.
LEMMA NextDriven ==
  CoreOK /\ (~oops => Driven) /\ [Next]_vars => (~oops => Driven)'
<1> SUFFICES ASSUME CoreOK, ~oops => Driven, [Next]_vars PROVE (~oops => Driven)'
  OBVIOUS
<1> USE Pn533Assumption, QueueWorkFact DEF CoreOK, Driven, CmdLock, drive, order, chunks, Ids
<1>1. ASSUME NEW k \in Kinds, Starts(k) PROVE (~oops => Driven)'
  BY <1>1, TakesFact DEF Starts
<1>2. ASSUME NEW k \in Kinds, Queues(k) PROVE (~oops => Driven)'
  BY <1>2, TakesFact DEF Queues
<1>3. CASE Turns
  BY <1>3, TakesFact DEF Turns
<1>4. CASE Purges
  BY <1>4, TakesFact DEF Purges
<1>5. CASE UrbEnds
  <2>1. work' = <<"complete">>
    BY <1>5 DEF UrbEnds
  <2>2. caller' = caller \/ (caller.at # "sent" /\ caller'.at # "sent")
    BY <1>5 DEF UrbEnds
  <2> QED
    BY <1>5, <2>1, <2>2 DEF UrbEnds
<1>6. CASE UrbGoesOn
  BY <1>6, TakesFact DEF UrbGoesOn
<1>7. CASE SetCmd
  BY <1>7, TakesFact DEF SetCmd, At, Goto, Accepted
<1>8. ASSUME NEW s \in {"ok", "EIO", "ENOENT"}, Completes(s) PROVE (~oops => Driven)'
  BY <1>8, TakesFact DEF Completes
<1>9. CASE MoreChunks
  BY <1>9, TakesFact DEF MoreChunks, RequestChunk, FreeCmd
<1>10. CASE LastChunk
  BY <1>10, TakesFact DEF LastChunk, Answer, NextCommand, FreeCmd
<1>11. CASE ExchangeFails
  BY <1>11, TakesFact DEF ExchangeFails, Answer, DropChunks, NextCommand, FreeCmd
<1>12. CASE QueueEmpty
  BY <1>12, TakesFact DEF QueueEmpty
<1>13. CASE SendsNext
  <2>1. Head(cmd_queue) # 0 /\ work = <<"cmd">> /\ work' = <<>>
    BY <1>13, QueueFact, TakesFact DEF SendsNext
  <2> QED
    BY <1>13, <2>1, TakesFact DEF SendsNext
<1>14. CASE LosesNext
  BY <1>14, TakesFact DEF LosesNext
<1>15. CASE AsksNext
  BY <1>15, TakesFact DEF AsksNext
<1>16. CASE LosesChunk
  BY <1>16, TakesFact DEF LosesChunk
<1>17. CASE WorkerSetCmd
  BY <1>17, TakesFact DEF WorkerSetCmd
<1>18. CASE UNCHANGED vars
  BY <1>18 DEF vars, devVars, history
<1> QED
  BY NextSteps, <1>1, <1>2, <1>3, <1>4, <1>5, <1>6, <1>7, <1>8, <1>9, <1>10, <1>11,
     <1>12, <1>13, <1>14, <1>15, <1>16, <1>17, <1>18

\* A URB in flight is for somebody, even when its completion has gone wrong.
LEMMA NextCarried ==
  CoreOK /\ (~oops => Driven) /\ Carried /\ [Next]_vars => Carried'
<1> SUFFICES ASSUME CoreOK, ~oops => Driven, Carried, [Next]_vars PROVE Carried'
  OBVIOUS
<1>1. CASE UrbEnds \/ UrbGoesOn \/ UNCHANGED vars
  BY <1>1 DEF UrbEnds, UrbGoesOn, Carried, CmdLock, vars, devVars
<1>2. CASE ~oops'
  BY <1>2, NextDriven DEF Driven, Carried
<1>3. CASE oops' = oops /\ ~oops
  BY <1>2, <1>3
<1> QED
  BY <1>1, <1>3, NextSteps DEF drive, Starts, Queues, Turns, Purges, SetCmd, At, Completes,
       MoreChunks, LastChunk, ExchangeFails, QueueEmpty, SendsNext, LosesNext, AsksNext,
       LosesChunk, WorkerSetCmd, Takes

-----------------------------------------------------------------------------
(* The steps, by what they do to the current command                       *)

\* It stays, nothing comes or is thrown away.
Keeps == Cur' = Cur /\ UNCHANGED <<order, chunks>>

\* It stays, and the chunks are thrown away.
Drops ==
  /\ Cur' = Cur /\ resp_q' = <<>> /\ purged' = (purged \/ resp_q # <<>>)
  /\ UNCHANGED <<order, got>>

\* It stays, and a chunk comes.
Grows ==
  /\ Cur \in Ids /\ Cur' = Cur /\ kinds[Cur] = "xchg"
  /\ got' = [got EXCEPT ![Cur] = @ + 1]
  /\ resp_q' = Append(resp_q, <<Cur, got'[Cur]>>)
  /\ UNCHANGED <<order, purged>>

\* There is none, and a new command becomes the current one.
Opens(k) ==
  /\ Cur = 0 /\ cmd_queue = <<>> /\ Len(kinds) + 1 \in Ids
  /\ Cur' = Len(kinds) + 1 /\ kinds' = Append(kinds, k)
  /\ UNCHANGED <<cmd_queue, answered, lost, chunks>>

\* It stays, and a new command is queued.
Joins(k) ==
  /\ Cur' = Cur /\ Len(kinds) + 1 \in Ids
  /\ kinds' = Append(kinds, k) /\ cmd_queue' = Append(cmd_queue, Len(kinds) + 1)
  /\ UNCHANGED <<answered, lost, chunks>>

\* There is none, and the first of the queue becomes the current one, or is lost.
Leaves ==
  /\ Cur = 0 /\ cmd_queue # <<>> /\ Cur' = Head(cmd_queue) /\ cmd_queue' = Tail(cmd_queue)
  /\ UNCHANGED <<kinds, answered, lost, chunks>>

Vanishes ==
  /\ Cur = 0 /\ cmd_queue # <<>> /\ Cur' = 0 /\ cmd_queue' = Tail(cmd_queue)
  /\ lost' = lost \cup {Head(cmd_queue)}
  /\ UNCHANGED <<kinds, answered, chunks>>

\* It is lost.
Dies ==
  /\ Cur \in Ids /\ Cur' = 0 /\ lost' = lost \cup {Cur}
  /\ UNCHANGED <<kinds, cmd_queue, answered, chunks>>

\* It is answered: an exchange with all the chunks or an error, another one as it
\* is.
Retires(a) ==
  /\ Cur \in Ids /\ Cur' = 0 /\ a.id = Cur /\ answered' = Append(answered, a)
  /\ \/ kinds[Cur] # "xchg" /\ UNCHANGED <<got, resp_q>>
     \/ a.status # "ok" /\ resp_q' = <<>> /\ UNCHANGED got
     \/ /\ kinds[Cur] = "xchg" /\ got' = [got EXCEPT ![Cur] = @ + 1]
        /\ a.chunks = Append(resp_q, <<Cur, got'[Cur]>>) /\ resp_q' = <<>>
  /\ UNCHANGED <<kinds, cmd_queue, lost, purged>>

Moves == \/ Keeps \/ Drops \/ Grows \/ Leaves \/ Vanishes \/ Dies
         \/ \E k \in Kinds : Opens(k) \/ Joins(k)
         \/ \E a \in Answers : Retires(a)

\* Every step is one of these: that is what the driver's locks and flags are for.
LEMMA CurSteps == CoreOK /\ (~oops => Driven) /\ [Next]_vars => Moves
<1> SUFFICES ASSUME CoreOK, ~oops => Driven, [Next]_vars PROVE Moves
  OBVIOUS
<1>q. cmd # 0 => cmd \in Ids
  BY Pn533Assumption DEF CoreOK, Ids
<1>a. <<>> \in Seq(Ids \X Nat)
  OBVIOUS
<1> USE DEF drive, order, chunks
<1>1. ASSUME NEW k \in Kinds, Starts(k) PROVE Moves
  <2>1. Opens(k)
    BY <1>1 DEF Starts, Opens, Cur, Driven, CmdLock
  <2> QED
    BY <2>1 DEF Moves
<1>2. ASSUME NEW k \in Kinds, Queues(k) PROVE Moves
  <2>1. Joins(k)
    BY <1>2 DEF Queues, Joins, Cur, CmdLock
  <2> QED
    BY <2>1 DEF Moves
<1>3. CASE Turns
  BY <1>3 DEF Turns, Keeps, Moves, Cur, CmdLock
<1>4. CASE Purges
  BY <1>4 DEF Purges, Drops, Moves, Cur, CmdLock
<1>5. CASE UrbEnds
  <2>1. Cur' = Cur
    BY <1>5 DEF UrbEnds, Cur, CmdLock, Driven
  <2> QED
    BY <1>5, <2>1 DEF UrbEnds, Keeps, Moves
<1>6. CASE UrbGoesOn
  BY <1>6 DEF UrbGoesOn, Keeps, Moves, Cur, CmdLock
<1>7. CASE SetCmd
  <2>1. Cur' = Cur
    BY <1>7 DEF SetCmd, At, Goto, Accepted, Cur, CmdLock, Driven
  <2> QED
    BY <1>7, <2>1 DEF SetCmd, history, Keeps, Moves
<1>8. ASSUME NEW s \in {"ok", "EIO", "ENOENT"}, Completes(s) PROVE Moves
  <2>1. Cur = cmd /\ Cur' = 0 /\ cmd \in Ids
    BY <1>8, <1>q, TakesFact, QueueWorkFact DEF Completes, Cur, CmdLock
  <2>2. [id |-> cmd, status |-> s, chunks |-> <<>>] \in Answers
    BY <1>a, <2>1 DEF Answers
  <2>3. Retires([id |-> cmd, status |-> s, chunks |-> <<>>])
    BY <1>8, <2>1 DEF Completes, Retires
  <2> QED
    BY <2>2, <2>3 DEF Moves
<1>9. CASE MoreChunks
  <2>1. Cur = cmd /\ Cur' = Cur /\ cmd \in Ids
    BY <1>9, <1>q, TakesFact, QueueWorkFact
       DEF MoreChunks, RequestChunk, FreeCmd, Cur, CmdLock
  <2> QED
    BY <1>9, <2>1 DEF MoreChunks, Grows, Moves
<1>10. CASE LastChunk
  <2> DEFINE a == [id |-> cmd, status |-> "ok", chunks |-> Append(resp_q, <<cmd, got'[cmd]>>)]
  <2>1. Cur = cmd /\ Cur' = 0 /\ cmd \in Ids
    BY <1>10, <1>q, TakesFact, QueueWorkFact DEF LastChunk, NextCommand, FreeCmd, Cur, CmdLock
  <2>2. a \in Answers
    BY <1>10, <2>1, ChunkFact DEF LastChunk, Answers
  <2>3. Retires(a)
    BY <1>10, <2>1 DEF LastChunk, Answer, Retires
  <2> QED
    BY <2>2, <2>3 DEF Moves
<1>11. CASE ExchangeFails
  <2> DEFINE s == IF status = "ok" THEN "EIO" ELSE status
             a == [id |-> cmd, status |-> s, chunks |-> <<>>]
  <2>1. Cur = cmd /\ Cur' = 0 /\ cmd \in Ids
    BY <1>11, <1>q, TakesFact, QueueWorkFact
       DEF ExchangeFails, NextCommand, FreeCmd, Cur, CmdLock
  <2>2. s \in {"EIO", "ENOENT"}
    BY DEF CoreOK
  <2>3. a \in Answers
    BY <1>a, <2>1, <2>2 DEF Answers
  <2>4. Retires(a)
    BY <1>11, <2>1, <2>2 DEF ExchangeFails, DropChunks, Answer, Retires
  <2> QED
    BY <2>3, <2>4 DEF Moves
<1>12. CASE QueueEmpty
  <2>1. Cur' = Cur
    BY <1>12, TakesFact, QueueWorkFact DEF QueueEmpty, Cur, CmdLock
  <2> QED
    BY <1>12, <2>1 DEF QueueEmpty, history, Keeps, Moves
<1>13. CASE SendsNext
  <2>1. Cur = 0 /\ Cur' = Head(cmd_queue)
    BY <1>13, TakesFact, QueueWorkFact, QueueFact DEF SendsNext, Cur, CmdLock, Driven
  <2> QED
    BY <1>13, <2>1 DEF SendsNext, Leaves, Moves
<1>14. CASE LosesNext
  <2>1. Cur = 0 /\ Cur' = 0
    BY <1>14, TakesFact, QueueWorkFact DEF LosesNext, Cur, CmdLock, Driven
  <2> QED
    BY <1>14, <2>1 DEF LosesNext, Vanishes, Moves
<1>15. CASE AsksNext
  <2>1. Cur' = Cur
    BY <1>15, TakesFact, QueueWorkFact DEF AsksNext, Cur, CmdLock, Driven
  <2> QED
    BY <1>15, <2>1 DEF AsksNext, Keeps, Moves
<1>16. CASE LosesChunk
  <2>1. Cur = mi_arg /\ Cur' = 0 /\ mi_arg # 0
    BY <1>16, TakesFact, QueueWorkFact DEF LosesChunk, Cur, CmdLock, Driven
  <2>2. Cur \in Ids
    BY <2>1, Pn533Assumption DEF CoreOK, Ids
  <2> QED
    BY <1>16, <2>1, <2>2 DEF LosesChunk, Dies, Moves
<1>17. CASE WorkerSetCmd
  <2>1. Cur' = Cur
    BY <1>17 DEF WorkerSetCmd, Cur, CmdLock, Driven
  <2> QED
    BY <1>17, <2>1 DEF WorkerSetCmd, history, Keeps, Moves
<1>18. CASE UNCHANGED vars
  BY <1>18 DEF vars, devVars, history, Cur, CmdLock, Keeps, Moves
<1> QED
  BY NextSteps, <1>1, <1>2, <1>3, <1>4, <1>5, <1>6, <1>7, <1>8, <1>9, <1>10, <1>11,
     <1>12, <1>13, <1>14, <1>15, <1>16, <1>17, <1>18

-----------------------------------------------------------------------------
(* Order                                                                   *)

\* The commands stay in order.
LEMMA NextOrdered == CoreOK /\ Ordered /\ Moves => Ordered'
<1> SUFFICES ASSUME CoreOK, Ordered, Moves PROVE Ordered'
  OBVIOUS
<1>l. Len(kinds) \in Nat /\ Len(cmd_queue) \in Nat /\ Left \in Nat
  BY DEF CoreOK, Left, Ordered
<1>i. Done \cup lost \subseteq Ids
  BY DoneFact DEF CoreOK
<1>d. \A id \in Done \cup lost : id \in Nat \ {0}
  BY <1>i, Pn533Assumption DEF Ids
<1> USE DEF order, chunks
<1>1. CASE Keeps \/ Drops \/ Grows
  <2>1. UNCHANGED order /\ Cur' = Cur
    BY <1>1 DEF Keeps, Drops, Grows
  <2> QED
    BY <2>1 DEF Ordered, Left, Done
<1>2. ASSUME NEW k \in Kinds, Opens(k) PROVE Ordered'
  <2>1. Len(kinds') = Len(kinds) + 1
    BY <1>2 DEF Opens, CoreOK
  <2>2. Left = Len(kinds) /\ Left' = Len(kinds) + 1 /\ Done' = Done /\ lost' = lost
    BY <1>2, <1>l, <2>1 DEF Opens, Left, Done
  <2> QED
    BY <1>2, <1>l, <1>d, <2>1, <2>2 DEF Opens, Ordered
<1>3. ASSUME NEW k \in Kinds, Joins(k) PROVE Ordered'
  <2>1. Cur' = Cur /\ Done' = Done /\ lost' = lost /\ answered' = answered
    BY <1>3 DEF Joins, Done
  <2>2. /\ Len(kinds') = Len(kinds) + 1 /\ Len(cmd_queue') = Len(cmd_queue) + 1
        /\ \A i \in 1 .. Len(cmd_queue) : cmd_queue'[i] = cmd_queue[i]
        /\ cmd_queue'[Len(cmd_queue) + 1] = Len(kinds) + 1
    BY <1>3 DEF Joins, CoreOK
  <2>3. Left' = Left
    BY <1>l, <2>2 DEF Left
  <2>4. \A i \in 1 .. Len(cmd_queue') : cmd_queue'[i] = Left + i
    <3>1. ASSUME NEW i \in 1 .. Len(cmd_queue) PROVE cmd_queue'[i] = Left + i
      BY <2>2, <3>1 DEF Ordered
    <3>2. cmd_queue'[Len(cmd_queue) + 1] = Left + (Len(cmd_queue) + 1)
      BY <1>l, <2>2 DEF Left
    <3> QED
      BY <1>l, <2>2, <3>1, <3>2, SMTT(40)
  <2> QED
    BY <1>l, <2>1, <2>2, <2>3, <2>4 DEF Ordered
<1>4. CASE Leaves
  <2>1. Head(cmd_queue) = Left + 1 /\ Left' = Left + 1 /\ Done' = Done /\ lost' = lost
    BY <1>4, <1>l, QueueFact DEF Leaves, Left, Done, Ordered
  <2> QED
    BY <1>4, <1>l, <1>d, <2>1, QueueFact DEF Leaves, Ordered
<1>5. CASE Vanishes
  <2>1. /\ Head(cmd_queue) = Left + 1 /\ Left' = Left + 1 /\ Done' = Done
        /\ lost' = lost \cup {Left + 1}
    BY <1>5, <1>l, QueueFact DEF Vanishes, Left, Done, Ordered
  <2> QED
    BY <1>5, <1>l, <1>d, <2>1, QueueFact, SMTT(40) DEF Vanishes, Ordered
<1>6. CASE Dies
  <2>1. Left' = Left /\ Done' = Done /\ Cur = Left /\ Left # 0
    BY <1>6 DEF Dies, Left, Done, Ordered, Ids
  <2> QED
    BY <1>6, <1>l, <1>d, <2>1 DEF Dies, Ordered
<1>7. ASSUME NEW a \in Answers, Retires(a) PROVE Ordered'
  <2>1. Done' = Done \cup {Cur} /\ Left' = Left
    BY <1>7, AnswerFact DEF Retires, CoreOK, Left
  <2>2. \A i \in DOMAIN answered : answered[i].id < Cur
    BY <1>7, <1>l, <1>d, DoneFact DEF Ordered, Ids, Retires
  <2>3. \A i, j \in DOMAIN answered' : i < j => answered'[i].id < answered'[j].id
    <3>1. /\ DOMAIN answered' = 1 .. Len(answered) + 1 /\ DOMAIN answered = 1 .. Len(answered)
          /\ Len(answered) \in Nat /\ answered'[Len(answered) + 1].id = Cur
          /\ \A i \in 1 .. Len(answered) : answered'[i] = answered[i]
      BY <1>7, AnswerFact DEF CoreOK, Retires
    <3>2. ASSUME NEW i \in DOMAIN answered, NEW j \in DOMAIN answered, i < j
          PROVE  answered'[i].id < answered'[j].id
      BY <3>1, <3>2 DEF Ordered
    <3>3. ASSUME NEW i \in DOMAIN answered
          PROVE  answered'[i].id < answered'[Len(answered) + 1].id
      BY <2>2, <3>1, <3>3
    <3> QED
      BY <3>1, <3>2, <3>3
  <2> QED
    BY <1>7, <1>d, <1>l, <2>1, <2>3 DEF Ordered, Ids, Retires
<1> QED
  BY <1>1, <1>2, <1>3, <1>4, <1>5, <1>6, <1>7 DEF Moves

\* Answers stay in the order of the commands: the one that is given is for the
\* last command that has left the queue, and whatever lies between it and the last
\* answer was lost.
LEMMA NextInOrder == CoreOK /\ Ordered /\ InOrder /\ Moves => InOrder'
<1> SUFFICES ASSUME CoreOK, Ordered, InOrder, Moves PROVE InOrder'
  OBVIOUS
<1> USE DEF order, chunks
<1>1. CASE answered' = answered /\ lost \subseteq lost'
  BY <1>1 DEF InOrder
<1>2. ASSUME NEW a \in Answers, Retires(a) PROVE InOrder'
  <2> DEFINE n == Len(answered)
             before(ans, i) == IF i = 1 THEN 0 ELSE ans[i - 1].id
  <2>1. /\ DOMAIN answered' = 1 .. n + 1 /\ DOMAIN answered = 1 .. n
        /\ n \in Nat /\ answered'[n + 1].id = Cur
        /\ \A i \in 1 .. n : answered'[i] = answered[i]
    BY <1>2, AnswerFact DEF CoreOK, Retires
  <2>2. \A i \in 1 .. n : answered[i].id \in Nat \ {0} /\ answered[i].id \in Done
    BY <2>1, DoneFact DEF Ids
  <2>3. Cur \in Nat \ {0} /\ Cur = Left
    BY <1>2 DEF Retires, Ids, Ordered
  <2>4. before(answered', n + 1) \in Nat /\ before(answered', n + 1) < Cur
    BY <2>1, <2>2, <2>3 DEF Ordered
  <2>m. ASSUME NEW i \in 1 .. n PROVE answered[i].id <= before(answered', n + 1)
    <3>1. n # 0 /\ before(answered', n + 1) = answered[n].id
      BY <2>1
    <3>2. i = n \/ i < n
      <4>1. n \in Nat
        BY <2>1
      <4> QED
        BY <4>1
    <3>3. i \in DOMAIN answered /\ n \in DOMAIN answered
      BY <2>1, <3>1
    <3> QED
      BY <2>1, <2>2, <3>1, <3>2, <3>3 DEF Ordered
  <2>5. ASSUME NEW id \in (before(answered', n + 1) + 1) .. (Cur - 1) PROVE id \in lost
    <3>1. id \in 1 .. Left /\ id # Cur
      BY <2>3, <2>4
    <3>3. id \notin Done
      BY <2>1, <2>2, <2>3, <2>4, <2>m DEF Done
    <3> QED
      BY <3>1, <3>3 DEF Ordered
  <2>6. ASSUME NEW i \in 1 .. n
        PROVE  before(answered', i) = before(answered, i) /\ answered'[i] = answered[i]
    BY <2>1
  <2>7. lost' = lost
    BY <1>2 DEF Retires
  <2>8. \A i \in 1 .. n : /\ before(answered, i) < answered[i].id
                          /\ \A id \in (before(answered, i) + 1) .. (answered[i].id - 1) : id \in lost
    BY <2>1 DEF InOrder
  <2>9. \A i \in 1 .. n + 1 : /\ before(answered', i) < answered'[i].id
                              /\ \A id \in (before(answered', i) + 1) .. (answered'[i].id - 1) :
                                   id \in lost
    BY <2>1, <2>4, <2>5, <2>6, <2>8
  <2> QED
    BY <2>1, <2>7, <2>9 DEF InOrder
<1> QED
  BY <1>1, <1>2 DEF Moves, Keeps, Drops, Grows, Leaves, Vanishes, Dies, Opens, Joins

-----------------------------------------------------------------------------
(* Chunks                                                                  *)

\* No chunk has come for a command that has not left the queue.
LEMMA NoChunkYet ==
  ASSUME CoreOK, Ordered, Chained, Cur = 0, NEW id \in Ids, id = Left + 1
  PROVE  got[id] = 0 /\ [n \in 1 .. got[id] |-> <<id, n>>] = <<>>
<1>1. id \notin Done \cup lost \cup {Cur}
  BY DEF Ordered, Ids, Left, CoreOK
<1>2. got[id] \in Nat /\ ~(got[id] > 0)
  BY <1>1 DEF Chained, CoreOK
<1> QED
  BY <1>2

\* The kinds of the commands that have left the queue stay what they are.
LEMMA KindsKept ==
  ASSUME CoreOK, Ordered, Moves, NEW id \in Done \cup lost \cup {Cur}, id # 0
  PROVE  kinds'[id] = kinds[id]
<1>1. id \in 1 .. Len(kinds)
  <2>0. Done \cup lost \subseteq Ids
    BY DoneFact DEF CoreOK
  <2>1. id \in Int /\ 1 <= id /\ id <= Left
    <3>1. CASE id \in Done \cup lost
      BY <2>0, <3>1, Pn533Assumption DEF Ordered, Ids
    <3>2. CASE id = Cur
      <4>1. id = Left
        BY <3>2 DEF Ordered
      <4>2. Left \in Nat
        BY DEF Ordered, Left, CoreOK
      <4> QED
        BY <4>1, <4>2
    <3> QED
      BY <3>1, <3>2
  <2> QED
    BY <2>1 DEF Left, CoreOK
<1>2. \A k \in Kinds : \A i \in 1 .. Len(kinds) : Append(kinds, k)[i] = kinds[i]
  BY DEF CoreOK
<1>3. kinds' = kinds \/ \E k \in Kinds : kinds' = Append(kinds, k)
  BY DEF Moves, Keeps, Drops, Grows, Leaves, Vanishes, Dies, Opens, Joins, Retires, order
<1> QED
  BY <1>1, <1>2, <1>3

\* The chunks of the current command, in order, as long as none were thrown away.
Whole(q, id) == q = [n \in 1 .. got[id] |-> <<id, n>>]

\* One chunk more is still in order.
LEMMA ChainGrows ==
  ASSUME CoreOK, NEW id \in Ids, Whole(resp_q, id), got' = [got EXCEPT ![id] = @ + 1]
  PROVE  Append(resp_q, <<id, got'[id]>>) = [n \in 1 .. got'[id] |-> <<id, n>>]
<1>1. got[id] \in Nat /\ got'[id] = got[id] + 1
  BY DEF CoreOK
<1>2. ASSUME NEW m \in Nat, NEW q, q = [n \in 1 .. m |-> <<id, n>>]
      PROVE  Append(q, <<id, m + 1>>) = [n \in 1 .. m + 1 |-> <<id, n>>]
  BY <1>2
<1> QED
  BY <1>1, <1>2 DEF Whole

\* Chunks are kept with their command.
LEMMA NextChained == CoreOK /\ Ordered /\ Chained /\ Moves => Chained'
<1> SUFFICES ASSUME CoreOK, Ordered, Chained, Moves PROVE Chained'
  OBVIOUS
<1>i. Done \cup lost \subseteq Ids /\ 0 \notin Ids
  <2>1. 0 \notin Ids
    BY DEF Ids
  <2> QED
    BY <2>1, DoneFact DEF CoreOK
<1>k. \A id \in Ids : id \in Done \cup lost \cup {Cur} => kinds'[id] = kinds[id]
  BY <1>i, KindsKept
<1>g. \A id \in Ids : got[id] \in Nat
  BY DEF CoreOK
<1>l. Left = Len(kinds) - Len(cmd_queue) /\ Len(kinds) \in Nat /\ Len(cmd_queue) \in Nat
  BY DEF Left, CoreOK
<1> USE DEF order, chunks
<1>1. CASE Keeps
  BY <1>1 DEF Keeps, Chained, Done
<1>2. CASE Drops
  BY <1>2 DEF Drops, Chained, Done
<1>3. CASE Grows
  <2>1. /\ \A id \in Ids \ {Cur} : got'[id] = got[id]
        /\ Done' = Done /\ lost' = lost /\ purged' = purged /\ kinds' = kinds
        /\ Cur' = Cur /\ Cur \in Ids /\ kinds[Cur] = "xchg"
    BY <1>3 DEF Grows, CoreOK, Done
  <2>2. ASSUME ~purged, lost = {}
        PROVE  resp_q' = [n \in 1 .. got'[Cur] |-> <<Cur, n>>]
    <3>1. Whole(resp_q, Cur)
      BY <1>i, <2>1, <2>2 DEF Chained, Whole
    <3> QED
      BY <1>3, <3>1, ChainGrows DEF Grows
  <2> QED
    BY <1>i, <2>1, <2>2 DEF Chained
<1>4. ASSUME NEW k \in Kinds, Opens(k) PROVE Chained'
  <2>1. Cur = 0 /\ Cur' \in Ids /\ Cur' = Left + 1
    BY <1>4, <1>l DEF Opens
  <2>2. got[Cur'] = 0 /\ [n \in 1 .. got[Cur'] |-> <<Cur', n>>] = <<>>
    BY <2>1, NoChunkYet
  <2>3. UNCHANGED <<got, resp_q, purged, lost>> /\ Done' = Done
    BY <1>4 DEF Opens, Done
  <2> QED
    BY <1>i, <1>k, <2>1, <2>2, <2>3 DEF Chained
<1>5. ASSUME NEW k \in Kinds, Joins(k) PROVE Chained'
  BY <1>5, <1>k DEF Joins, Chained, Done
<1>6. CASE Leaves
  <2>1. Cur = 0 /\ Cur' \in Ids /\ Cur' = Left + 1
    BY <1>6, <1>l, QueueFact DEF Leaves, Ordered
  <2>2. got[Cur'] = 0 /\ [n \in 1 .. got[Cur'] |-> <<Cur', n>>] = <<>>
    BY <2>1, NoChunkYet
  <2>3. UNCHANGED <<got, resp_q, purged, lost>> /\ Done' = Done
    BY <1>6 DEF Leaves, Done
  <2> QED
    BY <1>i, <1>k, <2>1, <2>2, <2>3 DEF Chained
<1>7. CASE Vanishes \/ Dies
  <2>1. lost' # {} /\ lost \subseteq lost' /\ (Cur = Cur' \/ Cur \in lost')
    BY <1>7 DEF Vanishes, Dies
  <2>2. Done' = Done /\ got' = got
    BY <1>7 DEF Vanishes, Dies, Done
  <2> QED
    BY <1>k, <2>1, <2>2 DEF Chained
<1>8. ASSUME NEW a \in Answers, Retires(a) PROVE Chained'
  <2>1. Done' = Done \cup {Cur} /\ lost' = lost /\ Cur \in Ids /\ Cur' = 0 /\ purged' = purged
    BY <1>8, AnswerFact DEF Retires, CoreOK
  <2>2. ASSUME NEW id \in Ids, got'[id] > 0
        PROVE  id \in Done' \cup lost' \cup {Cur'} /\ kinds'[id] = "xchg"
    <3>1. CASE got' = got
      BY <1>k, <2>1, <2>2, <3>1 DEF Chained
    <3>2. CASE kinds[Cur] = "xchg" /\ got' = [got EXCEPT ![Cur] = @ + 1]
      BY <1>k, <2>1, <2>2, <3>2 DEF Chained, CoreOK
    <3> QED
      BY <1>8, <3>1, <3>2 DEF Retires
  <2>3. ASSUME ~purged, lost = {} PROVE resp_q' = <<>>
    <3>1. CASE kinds[Cur] # "xchg" /\ resp_q' = resp_q
      <4>1. got[Cur] = 0
        BY <1>g, <2>1, <3>1 DEF Chained
      <4>2. resp_q = [n \in 1 .. got[Cur] |-> <<Cur, n>>]
        BY <1>i, <2>1, <2>3 DEF Chained
      <4> QED
        BY <3>1, <4>1, <4>2
    <3> QED
      BY <1>8, <3>1 DEF Retires
  <2> QED
    BY <2>1, <2>2, <2>3 DEF Chained
<1> QED
  BY <1>1, <1>2, <1>3, <1>4, <1>5, <1>6, <1>7, <1>8 DEF Moves

\* What was handed over stays whole, and so is what is handed over.
LEMMA NextWhole == CoreOK /\ Ordered /\ Chained /\ WholeResponse /\ Moves => WholeResponse'
<1> SUFFICES ASSUME CoreOK, Ordered, Chained, WholeResponse, Moves PROVE WholeResponse'
  OBVIOUS
<1> USE DEF order, chunks
<1>i. Done \subseteq Ids /\ 0 \notin Ids
  BY DoneFact DEF Ids
<1>k. \A id \in Done \cup ({Cur} \ {0}) : kinds'[id] = kinds[id]
  BY <1>i, KindsKept
<1>m. (purged => purged') /\ lost \subseteq lost'
  <2>1. purged' = purged \/ purged' = (purged \/ resp_q # <<>>)
    BY DEF Moves, Keeps, Drops, Grows, Leaves, Vanishes, Dies, Opens, Joins, Retires
  <2>2. lost \subseteq lost'
    BY DEF Moves, Keeps, Drops, Grows, Leaves, Vanishes, Dies, Opens, Joins, Retires
  <2>3. purged' = (purged \/ resp_q # <<>>) => (purged => purged')
    BY Zenon
  <2>4. purged => purged'
    BY <2>1, <2>3, Zenon
  <2> QED
    BY <2>2, <2>4
<1>g. \A id \in Done : id # Cur /\ got'[id] = got[id]
  <2>1. got' = got \/ (Cur \in Ids /\ got' = [got EXCEPT ![Cur] = @ + 1])
    BY DEF Moves, Keeps, Drops, Grows, Leaves, Vanishes, Dies, Opens, Joins, Retires
  <2> QED
    BY <1>i, <2>1 DEF Ordered, CoreOK
<1> DEFINE Right(a) == kinds'[a.id] = "xchg" /\ a.status = "ok" /\ ~purged' /\ lost' = {}
                         => a.chunks = [n \in 1 .. got'[a.id] |-> <<a.id, n>>]
<1>1. \A a \in ToSet(answered) : a.id \in Done
  BY DEF ToSet, Done
<1>2. ASSUME NEW a \in ToSet(answered) PROVE Right(a)
  BY <1>1, <1>k, <1>m, <1>g DEF WholeResponse
<1>3. CASE answered' = answered
  BY <1>2, <1>3 DEF WholeResponse
<1>4. ASSUME NEW a \in Answers, Retires(a) PROVE WholeResponse'
  <2>1. Right(a)
    <3> SUFFICES ASSUME kinds'[a.id] = "xchg", a.status = "ok", ~purged', lost' = {}
                 PROVE  a.chunks = [n \in 1 .. got'[a.id] |-> <<a.id, n>>]
      OBVIOUS
    <3>1. a.id = Cur /\ Cur \in Ids /\ kinds[Cur] = "xchg" /\ ~purged /\ lost = {}
      BY <1>4, <1>m DEF Retires
    <3>2. Whole(resp_q, Cur)
      BY <1>i, <3>1 DEF Chained, Whole
    <3>3. /\ got' = [got EXCEPT ![Cur] = @ + 1]
          /\ a.chunks = Append(resp_q, <<Cur, got'[Cur]>>)
      BY <1>4, <3>1 DEF Retires
    <3> QED
      BY <3>1, <3>2, <3>3, ChainGrows
  <2>2. ASSUME NEW b \in ToSet(answered') PROVE b \in ToSet(answered) \/ b = a
    <3>1. answered' = Append(answered, a) /\ answered \in Seq(Answers)
      BY <1>4 DEF Retires, CoreOK
    <3>2. PICK i \in DOMAIN answered' : b = answered'[i]
      BY DEF ToSet
    <3>3. i \in DOMAIN answered \/ b = a
      BY <3>1, <3>2, AnswerFact
    <3>4. i \in DOMAIN answered => b = answered[i]
      BY <3>1, <3>2, AnswerFact
    <3> QED
      BY <3>3, <3>4 DEF ToSet
  <2>3. \A b \in ToSet(answered') : Right(b)
    BY <1>2, <2>1, <2>2
  <2> QED
    BY <2>3 DEF WholeResponse
<1> QED
  BY <1>3, <1>4 DEF Moves, Keeps, Drops, Grows, Leaves, Vanishes, Dies, Opens, Joins

-----------------------------------------------------------------------------
(* The theorems                                                            *)

\* Before the first command there is nothing to do.
LEMMA InitPath == Init => PathInv
<1> SUFFICES ASSUME Init PROVE PathInv
  OBVIOUS
<1>1. CoreOK
  BY Pn533Assumption DEF Init, CoreOK, Ids
<1>2. Driven /\ Carried
  BY DEF Init, Driven, Carried, CmdLock
<1>3. Cur = 0 /\ Left = 0 /\ Done = {} /\ DOMAIN answered = {}
  BY QueueWorkFact DEF Init, Cur, CmdLock, Left, Done
<1>4. Ordered
  BY <1>3 DEF Init, Ordered
<1>5. InOrder
  BY <1>3 DEF InOrder
<1>6. Chained
  BY <1>3 DEF Init, Chained
<1>7. WholeResponse
  BY <1>3 DEF WholeResponse, ToSet
<1> QED
  BY <1>1, <1>2, <1>4, <1>5, <1>6, <1>7 DEF PathInv

\* The invariant is inductive.
LEMMA NextPath == PathInv /\ [Next]_vars => PathInv'
  BY NextCore, NextDriven, CurSteps, NextOrdered, NextInOrder, NextChained, NextWhole,
     NextCarried DEF PathInv

\* The invariant gives the properties.
LEMMA PathImplies == PathInv => OneDriver /\ ChainUnbroken
<1> SUFFICES ASSUME PathInv PROVE OneDriver /\ ChainUnbroken
  OBVIOUS
<1> USE DEF PathInv
<1>w. ToSet(<<>>) = {} /\ \A w : ToSet(<<w>>) = {w}
  BY DEF ToSet
<1>1. OneDriver
  <2>1. CompletionHasCommand
    BY <1>w DEF CompletionHasCommand, Driven
  <2>2. ASSUME ~oops
        PROVE  \/ work = <<>> /\ ToSet(work) = {}
               \/ \E w \in {"cmd", "complete", "mi"} :
                    work = <<w>> /\ ToSet(work) = {w} /\ in_urb = "idle"
    BY <1>w, <2>2 DEF Driven
  <2>3. ASSUME ~oops
        PROVE  Busy = ToSet(work) \cup (IF in_urb = "idle" THEN {} ELSE {"urb"})
    BY <2>2, <2>3 DEF Busy
  <2>4. ASSUME ~oops, ~stalled, cmd_pending \/ CmdLock
        PROVE  \E w \in {"urb", "cmd", "complete", "mi"} : Busy = {w}
    <3>1. CASE work = <<>>
      <4>1. in_urb # "idle"
        BY <2>4, <3>1 DEF Driven
      <4> QED
        BY <1>w, <2>3, <2>4, <3>1, <4>1
    <3>2. CASE work # <<>>
      BY <2>2, <2>3, <2>4, <3>2
    <3> QED
      BY <3>1, <3>2
  <2>5. ASSUME ~oops, ~(cmd_pending \/ CmdLock)
        PROVE  Busy = {} /\ cmd_queue = <<>>
    BY <1>w, <2>3, <2>5 DEF Driven
  <2> QED
    BY <2>1, <2>4, <2>5 DEF OneDriver
<1>2. ChainUnbroken
  <2> SUFFICES ASSUME NEW id \in DOMAIN kinds, got[id] > 0, Unanswered(id), in_urb # "idle"
               PROVE  InFlight = id
    BY DEF ChainUnbroken
  <2>1. id \in Ids
    BY Pn533Assumption DEF CoreOK, Ids
  <2>2. \A i \in DOMAIN answered : answered[i].id # id
    BY DEF Unanswered, ToSet
  <2>3. id \notin Done \cup lost
    BY <2>2 DEF Unanswered, Done
  <2>4. id = Cur
    BY <2>1, <2>3 DEF Chained
  <2>5. id # 0
    BY <2>1 DEF Ids
  <2> QED
    BY <2>4, <2>5 DEF Cur, InFlight, Carried
<1> QED
  BY <1>1, <1>2

\* The command path is driven by one thing at a time, for any number of commands,
\* aborts and failures, and for both protocols: a URB in flight, a completion, a
\* chunk to ask for or a next command to send, never two of them, and never none
\* while cmd_pending is set, unless pn533_wq_cmd() has failed to send.
THEOREM AlwaysOneDriver == Spec => []OneDriver
<1>1. PathInv => OneDriver
  BY PathImplies
<1> QED
  BY <1>1, InitPath, NextPath, PTL DEF Spec

\* Commands are answered in the order in which they were accepted, each at most
\* once, and only a lost one is passed over: the queue holds exactly the commands
\* after the one that is being carried out.
THEOREM AlwaysInOrder == Spec => []InOrder
<1>1. PathInv => InOrder
  BY DEF PathInv
<1> QED
  BY <1>1, InitPath, NextPath, PTL DEF Spec

\* No command of the queue comes between the chunks of a response: from the first
\* chunk to the answer, what is in flight is the request for the next chunk.
THEOREM AlwaysChainUnbroken == Spec => []ChainUnbroken
<1>1. PathInv => ChainUnbroken
  BY PathImplies
<1> QED
  BY <1>1, InitPath, NextPath, PTL DEF Spec

\* A successful exchange hands over all chunks of its own response, in order, and
\* no others, unless chunks were purged or a command was lost: resp_q belongs to
\* the current command.
THEOREM AlwaysWholeResponse == Spec => []WholeResponse
<1>1. PathInv => WholeResponse
  BY DEF PathInv
<1> QED
  BY <1>1, InitPath, NextPath, PTL DEF Spec
-----------------------------------------------------------------------------
(* Type correctness                                                        *)

\* The workqueue never holds more than one item, also after a completion came too
\* early, and a pending mi_work has its argument.
WorkOK ==
  /\ work \in {<<>>, <<"cmd">>, <<"complete">>, <<"mi">>}
  /\ work = <<"mi">> => mi_arg # 0

FlagsOK ==
  /\ cmd_pending \in BOOLEAN
  /\ tgt_active_prot \in BOOLEAN
  /\ tgt_available_prots \in BOOLEAN
  /\ polling \in BOOLEAN
  /\ oops \in BOOLEAN
  /\ stalled \in BOOLEAN
  /\ purged \in BOOLEAN

CountsOK == txErrors \in 0 .. MaxTxErrors /\ aborts \in 0 .. MaxAborts

TypeInv == PathInv /\ WorkOK /\ FlagsOK /\ CountsOK

\* A step is taken from a state in which one thing drives the path; what it queues
\* is the only item.
LEMMA NextWork == CoreOK /\ (~oops => Driven) /\ WorkOK /\ [Next]_vars => WorkOK'
<1> SUFFICES ASSUME CoreOK, ~oops => Driven, WorkOK, [Next]_vars PROVE WorkOK'
  OBVIOUS
<1> USE DEF drive
<1>1. CASE UrbEnds
  <2>1. work' = <<"complete">>
    BY <1>1, QueueWorkFact DEF UrbEnds, Driven
  <2> QED
    BY <2>1 DEF WorkOK
<1>2. CASE (\E s \in {"ok", "EIO", "ENOENT"} : Completes(s)) \/ LastChunk \/ ExchangeFails
  <2>1. work' = <<"cmd">>
    BY <1>2, TakesFact DEF Completes, LastChunk, ExchangeFails, NextCommand
  <2> QED
    BY <2>1 DEF WorkOK
<1>3. CASE MoreChunks
  <2>1. work' = <<"mi">> /\ mi_arg' # 0
    BY <1>3, TakesFact DEF MoreChunks, RequestChunk
  <2> QED
    BY <2>1 DEF WorkOK
<1>4. CASE QueueEmpty \/ SendsNext \/ LosesNext \/ AsksNext \/ LosesChunk
  <2>1. work' \in {<<>>, <<"cmd">>}
    BY <1>4, TakesFact DEF QueueEmpty, SendsNext, LosesNext, AsksNext, LosesChunk
  <2> QED
    BY <2>1 DEF WorkOK
<1>5. CASE UNCHANGED <<work, mi_arg>>
  BY <1>5 DEF WorkOK
<1>6. CASE UNCHANGED vars
  BY <1>5, <1>6 DEF vars, devVars
<1> QED
  BY NextSteps, <1>1, <1>2, <1>3, <1>4, <1>5, <1>6
     DEF Starts, Queues, Turns, Purges, UrbGoesOn, SetCmd, WorkerSetCmd

\* A flag is set to a truth value, or to a combination of flags.
LEMMA NextFlags == FlagsOK /\ [Next]_vars => FlagsOK'
<1> SUFFICES ASSUME FlagsOK, [Next]_vars PROVE FlagsOK'
  OBVIOUS
<1>c. ASSUME NEW s, CompleteUrb(s) PROVE oops' \in BOOLEAN
  BY <1>c DEF CompleteUrb
<1>k. ASSUME AbortCmd PROVE oops' \in BOOLEAN
  BY <1>c, <1>k, Zenon DEF AbortCmd, KillUrb, FlagsOK
<1>p. ASSUME Purge PROVE purged' \in BOOLEAN
  BY <1>p, Zenon DEF Purge, FlagsOK
<1>1. ASSUME NEW k \in Kinds, Send(k) \/ SendFails(k) PROVE FlagsOK'
  BY <1>1, Zenon DEF Send, SendFails, FlagsOK
<1>2. CASE Activate \/ Deactivate \/ LinkDownPurge
  BY <1>2, <1>p, Zenon DEF Activate, Deactivate, LinkDownPurge, FlagsOK, history
<1>3. CASE StopPoll \/ LinkDown
  BY <1>3, <1>k, Zenon DEF StopPoll, LinkDown, FlagsOK
<1>4. CASE SetCmd
  BY <1>4, Zenon DEF SetCmd, FlagsOK, history
<1>5. ASSUME NEW ok \in BOOLEAN, SyncReturn(ok) PROVE FlagsOK'
  BY <1>5, Zenon DEF SyncReturn, FlagsOK, history
<1>6. CASE RecvAck
  <2>1. oops' \in BOOLEAN
    BY <1>6, <1>c, Zenon DEF RecvAck
  <2> QED
    BY <1>6, <2>1, Zenon DEF RecvAck, FlagsOK
<1>7. ASSUME NEW s \in {"ok", "EIO"}, RecvResponse(s) PROVE FlagsOK'
  BY <1>7, <1>c, Zenon DEF RecvResponse, FlagsOK, history
<1>8. CASE SyncComplete \/ MoreChunks \/ LastChunk \/ ExchangeFails
  BY <1>8, Zenon DEF SyncComplete, MoreChunks, LastChunk, ExchangeFails, FlagsOK
<1>9. ASSUME NEW found \in BOOLEAN, PollComplete(found) PROVE FlagsOK'
  BY <1>9, Zenon DEF PollComplete, FlagsOK
<1>10. CASE QueueEmpty \/ WorkerSetCmd
  BY <1>10, Zenon DEF QueueEmpty, WorkerSetCmd, FlagsOK, history
<1>11. CASE SendNext \/ NextChunk
  BY <1>11, Zenon DEF SendNext, NextChunk, FlagsOK
<1>12. CASE UNCHANGED vars
  BY <1>12, Zenon DEF vars, devVars, history, FlagsOK
<1> QED
  BY <1>1, <1>2, <1>3, <1>4, <1>5, <1>6, <1>7, <1>8, <1>9, <1>10, <1>11, <1>12
     DEF Next, CallStep, UrbStep, WorkerStep

\* Failures and aborts stay within their bounds.
LEMMA NextCounts == CountsOK /\ [Next]_vars => CountsOK'
<1> SUFFICES ASSUME CountsOK, [Next]_vars PROVE CountsOK'
  OBVIOUS
<1>1. UNCHANGED txErrors \/ TxError
  BY DEF Next, CallStep, UrbStep, WorkerStep, Send, SendFails, Activate, Deactivate,
         LinkDownPurge, StopPoll, LinkDown, SetCmd, SyncReturn, RecvAck, RecvResponse,
         SyncComplete, PollComplete, MoreChunks, LastChunk, ExchangeFails, QueueEmpty,
         SendNext, NextChunk, WorkerSetCmd, history, vars
<1>2. UNCHANGED aborts \/ (aborts < MaxAborts /\ aborts' = aborts + 1)
  BY DEF Next, CallStep, UrbStep, WorkerStep, Send, SendFails, Activate, Deactivate,
         LinkDownPurge, StopPoll, LinkDown, SetCmd, SyncReturn, RecvAck, RecvResponse,
         SyncComplete, PollComplete, MoreChunks, LastChunk, ExchangeFails, QueueEmpty,
         SendNext, NextChunk, WorkerSetCmd, AbortCmd, history, vars
<1> QED
  BY <1>1, <1>2, Pn533Assumption DEF CountsOK, TxError

\* Type correctness, for any bounds: in particular a pending mi_work has the command
\* that it is to continue, and the workqueue never holds two items.
THEOREM TypeCorrect == Spec => []TypeOK
<1>1. Init => TypeInv
  <2> SUFFICES ASSUME Init PROVE TypeInv
    OBVIOUS
  <2>1. WorkOK /\ FlagsOK
    BY DEF Init, WorkOK, FlagsOK
  <2>2. CountsOK
    BY Pn533Assumption DEF Init, CountsOK
  <2> QED
    BY InitPath, <2>1, <2>2 DEF TypeInv
<1>2. TypeInv /\ [Next]_vars => TypeInv'
  BY NextPath, NextWork, NextFlags, NextCounts DEF TypeInv, PathInv
<1>3. TypeInv => TypeOK
  <2> SUFFICES ASSUME TypeInv PROVE TypeOK
    OBVIOUS
  <2>1. ToSet(<<>>) = {} /\ \A w : ToSet(<<w>>) = {w}
    BY DEF ToSet
  <2>2. "mi" \in ToSet(work) => mi_arg # 0
    BY <2>1 DEF TypeInv, WorkOK
  <2>3. work \in Seq({"cmd", "complete", "mi"})
    <3> DEFINE W == {"cmd", "complete", "mi"}
    <3>1. work = <<>> \/ \E w \in W : work = <<w>>
      BY DEF TypeInv, WorkOK
    <3> HIDE DEF W
    <3>2. <<>> \in Seq(W) /\ \A w \in W : <<w>> \in Seq(W)
      OBVIOUS
    <3> QED
      BY <3>1, <3>2 DEF W
  <2>4. CoreOK /\ FlagsOK /\ CountsOK
    BY DEF TypeInv, PathInv
  <2> QED
    BY <2>2, <2>3, <2>4, Zenon DEF CoreOK, FlagsOK, CountsOK, TypeOK
<1> QED
  BY <1>1, <1>2, <1>3, PTL DEF Spec
=============================================================================
