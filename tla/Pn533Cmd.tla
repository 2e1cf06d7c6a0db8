------------------------------ MODULE Pn533Cmd ------------------------------
(***************************************************************************)
(* The command path of the PN533 driver (pn533.c): the command queue, the  *)
(* in-bound URB with its completion handlers, the ordered workqueue that   *)
(* completes commands and sends the next one, the chaining of a response   *)
(* that comes in several chunks, and the abort of the command in flight.   *)
(*                                                                         *)
(* The NFC core calls the driver under its device lock, so there is one    *)
(* caller.  A command has a kind: "poll", "xchg" (data exchange), or one   *)
(* of the synchronous "atr" and "release".  Commands are numbered in the   *)
(* order in which the driver accepts them.  Of the polling loop only its   *)
(* commands are here, and those that poll_work sends count as the caller's;*)
(* modulations, the listen timer and the target mode are left out.         *)
(***************************************************************************)
EXTENDS Naturals, Sequences, SequencesExt

CONSTANTS
  Acked,        \* PN533_PROTO_REQ_ACK_RESP: not the ACR122U
  MaxCommands,  \* bound: commands that the driver accepts
  MaxChunks,    \* bound: chunks of one response
  MaxTxErrors,  \* bound: failures of usb_submit_urb()
  MaxAborts     \* bound: calls of pn533_abort_cmd()

ASSUME Pn533Assumption ==
  /\ Acked \in BOOLEAN
  /\ MaxCommands \in Nat \ {0}
  /\ MaxChunks \in Nat \ {0}
  /\ MaxTxErrors \in Nat
  /\ MaxAborts \in Nat

VARIABLES
  cmd,          \* dev->cmd, 0 for NULL
  status,       \* its status
  cmd_pending,
  cmd_queue,
  resp_q,       \* the chunks <<command, number>> received so far
  mi_arg,       \* dev->cmd_complete_mi_arg
  tgt_active_prot, tgt_available_prots,  \* whether they are not 0
  polling,      \* whether poll_mod_count is not 0
  in_urb,       \* "idle", or whether "ack" or "resp" is waited for
  work,         \* the pending items of the ordered workqueue
  sending,      \* command of the worker with its frame sent and dev->cmd unset
  caller,       \* control point and command of the NFC core's thread
  oops,         \* a completion went through a NULL dev->cmd
  kinds,        \* history: the kinds of the accepted commands
  got,          \* history: number of chunks the chip sent for a command
  answered,     \* history: the callbacks that were called
  lost,         \* history: commands freed without their callback
  stalled,      \* history: pn533_wq_cmd() failed to send
  purged,       \* history: a deactivation threw chunks away
  txErrors, aborts

devVars == <<cmd, status, cmd_pending, cmd_queue, resp_q, mi_arg,
             tgt_active_prot, tgt_available_prots, polling>>
history == <<kinds, got, answered, lost, stalled, purged, txErrors, aborts>>
vars == <<devVars, in_urb, work, sending, caller, oops, history>>

Ids == 1 .. MaxCommands
SyncKinds == {"atr", "release"}
Kinds == SyncKinds \cup {"poll", "xchg"}

Init ==
  /\ cmd = 0 /\ status = "ok"
  /\ cmd_pending = FALSE /\ cmd_queue = <<>>
  /\ resp_q = <<>> /\ mi_arg = 0
  /\ tgt_active_prot = FALSE /\ tgt_available_prots = FALSE
  /\ polling = FALSE
  /\ in_urb = "idle" /\ work = <<>> /\ sending = 0
  /\ caller = [at |-> "idle", id |-> 0]
  /\ oops = FALSE
  /\ kinds = <<>> /\ got = [i \in Ids |-> 0]
  /\ answered = <<>> /\ lost = {}
  /\ stalled = FALSE /\ purged = FALSE
  /\ txErrors = 0 /\ aborts = 0

\* queue_work(): an item that is pending is not queued again
QueueWork(q, w) == IF w \in ToSet(q) THEN q ELSE Append(q, w)

\* __pn533_send_frame_async(): the command and the URB that waits for the
\* ack or for the response
SendFrame == in_urb' = IF Acked THEN "ack" ELSE "resp"

\* usb_submit_urb() fails
TxError == txErrors < MaxTxErrors /\ txErrors' = txErrors + 1
-----------------------------------------------------------------------------
(* The caller                                                              *)

At(p) == ~oops /\ caller.at = p
Goto(p, id) == caller' = [at |-> p, id |-> id]

\* where the caller of an accepted command goes: wait_for_completion(), or
\* back to the core
Accepted(k) == IF k \in SyncKinds THEN "wait" ELSE "idle"

Unanswered(id) == id \notin {a.id : a \in ToSet(answered)} \cup lost

CanActivate == ~polling /\ ~tgt_active_prot /\ tgt_available_prots

\* What the driver's operations test before they send a command.  A poll is
\* started when none goes on, or continued when its last command is over.
Permitted(k) ==
  CASE k = "poll" -> /\ At("idle") /\ ~tgt_active_prot
                     /\ polling => \A id \in DOMAIN kinds :
                          kinds[id] = "poll" => ~Unanswered(id)
    [] k = "atr" -> At("idle") /\ CanActivate
    [] k = "xchg" -> At("idle") /\ tgt_active_prot
    [] k = "release" -> At("release")

\* mutant: the command is put at the head of the queue
Push(id) == cmd_queue' = <<id>> \o cmd_queue

\* list_add_tail(&cmd->queue, &dev->cmd_queue)
Enqueue(id) == cmd_queue' = Append(cmd_queue, id)

\* __pn533_send_async(): the command is queued, or sent at once.  The caller
\* holds cmd_lock until dev->cmd is set.
Send(k) ==
  LET id == Len(kinds) + 1
  IN /\ Permitted(k)
     /\ id \in Ids
     /\ kinds' = Append(kinds, k)
     /\ polling' = (polling \/ k = "poll")
     /\ \/ /\ cmd_pending
           /\ Enqueue(id)
           /\ Goto(Accepted(k), id)
           /\ UNCHANGED in_urb
        \/ /\ ~cmd_pending
           /\ SendFrame
           /\ Goto("sent", id)
           /\ UNCHANGED cmd_queue
     /\ UNCHANGED <<cmd, status, cmd_pending, resp_q, mi_arg,
                    tgt_active_prot, tgt_available_prots, work, sending,
                    oops, got, answered, lost, stalled, purged, txErrors,
                    aborts>>

\* The frame cannot be sent: the caller gets the error.  The modulations of
\* a poll stay set.
SendFails(k) ==
  /\ Permitted(k)
  /\ ~cmd_pending
  /\ TxError
  /\ polling' = (polling \/ k = "poll")
  /\ Goto("idle", 0)
  /\ UNCHANGED <<cmd, status, cmd_pending, cmd_queue, resp_q, mi_arg,
                 tgt_active_prot, tgt_available_prots, in_urb, work, sending,
                 oops, kinds, got, answered, lost, stalled, purged, aborts>>

CmdLock == caller.at = "sent"

\* cmd_pending and dev->cmd are set after the URBs are submitted.
SetCmd ==
  /\ At("sent")
  /\ cmd_pending' = TRUE
  /\ cmd' = caller.id
  /\ Goto(Accepted(kinds[caller.id]), caller.id)
  /\ UNCHANGED <<status, cmd_queue, resp_q, mi_arg, tgt_active_prot,
                 tgt_available_prots, polling, in_urb, work, sending, oops,
                 history>>

\* A synchronous call returns with its response or the error; ATR makes the
\* target active.
SyncReturn(ok) ==
  /\ At("done")
  /\ ok => Last(SelectSeq(answered, LAMBDA a : a.id = caller.id)).status = "ok"
  /\ LET activated == kinds[caller.id] = "atr" /\ ok
     IN /\ tgt_active_prot' = (tgt_active_prot \/ activated)
        /\ tgt_available_prots' = (tgt_available_prots /\ ~activated)
  /\ Goto("idle", 0)
  /\ UNCHANGED <<cmd, status, cmd_pending, cmd_queue, resp_q, mi_arg,
                 polling, in_urb, work, sending, oops, history>>

\* pn533_activate_target() with another protocol sends no command.
Activate ==
  /\ At("idle")
  /\ CanActivate
  /\ tgt_active_prot' = TRUE
  /\ tgt_available_prots' = FALSE
  /\ UNCHANGED <<cmd, status, cmd_pending, cmd_queue, resp_q, mi_arg,
                 polling, in_urb, work, sending, caller, oops, history>>

Purge ==
  /\ resp_q' = <<>>
  /\ purged' = (purged \/ resp_q # <<>>)

\* pn533_deactivate_target() until it sends IN_RELEASE
Deactivate ==
  /\ At("idle")
  /\ tgt_active_prot
  /\ tgt_active_prot' = FALSE
  /\ Purge
  /\ Goto("release", 0)
  /\ UNCHANGED <<cmd, status, cmd_pending, cmd_queue, mi_arg,
                 tgt_available_prots, polling, in_urb, work, sending, oops,
                 kinds, got, answered, lost, stalled, txErrors, aborts>>

\* The completion handler of the in-bound URB stores a status in *dev->cmd
\* and schedules the completion of the command.
CompleteUrb(s) ==
  /\ in_urb' = "idle"
  /\ oops' = (cmd = 0)
  /\ status' = s
  /\ work' = QueueWork(work, "complete")

\* usb_kill_urb(dev->in_urb) runs the completion handler with -ENOENT.
KillUrb ==
  IF in_urb = "idle" THEN UNCHANGED <<cmd, status, work, in_urb, oops>>
  ELSE CompleteUrb("ENOENT") /\ UNCHANGED cmd

\* pn533_abort_cmd(): the ACR122U has no abort
AbortCmd ==
  /\ aborts < MaxAborts
  /\ aborts' = aborts + 1
  /\ IF Acked THEN KillUrb ELSE UNCHANGED <<cmd, status, work, in_urb, oops>>

\* pn533_stop_poll()
StopPoll ==
  /\ At("idle")
  /\ polling
  /\ AbortCmd
  /\ polling' = FALSE
  /\ UNCHANGED <<cmd_pending, cmd_queue, resp_q, mi_arg, tgt_active_prot,
                 tgt_available_prots, sending, caller, kinds, got, answered,
                 lost, stalled, purged, txErrors>>

\* pn533_dep_link_down(): the abort, and then the rest
LinkDown ==
  /\ At("idle")
  /\ tgt_active_prot
  /\ AbortCmd
  /\ polling' = FALSE
  /\ Goto("purge", 0)
  /\ UNCHANGED <<cmd_pending, cmd_queue, resp_q, mi_arg, tgt_active_prot,
                 tgt_available_prots, sending, kinds, got, answered, lost,
                 stalled, purged, txErrors>>

LinkDownPurge ==
  /\ At("purge")
  /\ tgt_active_prot' = FALSE
  /\ Purge
  /\ Goto("idle", 0)
  /\ UNCHANGED <<cmd, status, cmd_pending, cmd_queue, mi_arg,
                 tgt_available_prots, polling, in_urb, work, sending, oops,
                 kinds, got, answered, lost, stalled, txErrors, aborts>>
-----------------------------------------------------------------------------
(* The completion handlers of the in-bound URB                             *)

\* pn533_recv_ack(): the ack is good and the response is waited for, the
\* ack or the URB is bad, or the URB cannot be submitted again.
RecvAck ==
  /\ ~oops /\ in_urb = "ack"
  /\ \/ /\ in_urb' = "resp"
        /\ oops' = (cmd = 0)
        /\ status' = "ok"
        /\ UNCHANGED <<work, txErrors>>
     \/ CompleteUrb("EIO") /\ UNCHANGED txErrors
     \/ CompleteUrb("EIO") /\ TxError
  /\ UNCHANGED <<cmd, cmd_pending, cmd_queue, resp_q, mi_arg,
                 tgt_active_prot, tgt_available_prots, polling, sending,
                 caller, kinds, got, answered, lost, stalled, purged,
                 aborts>>

\* pn533_recv_response(): a response to the command, or an invalid frame,
\* another response, or a failure of the URB
RecvResponse(s) ==
  /\ ~oops /\ in_urb = "resp"
  /\ CompleteUrb(s)
  /\ UNCHANGED <<cmd, cmd_pending, cmd_queue, resp_q, mi_arg,
                 tgt_active_prot, tgt_available_prots, polling, sending,
                 caller, history>>
-----------------------------------------------------------------------------
(* The workqueue                                                           *)

\* The worker takes the next item.
Takes(w) == ~oops /\ sending = 0 /\ work # <<>> /\ Head(work) = w

\* The callback of the current command is called.
Answer(s, chunks) ==
  answered' = Append(answered, [id |-> cmd, status |-> s, chunks |-> chunks])

\* mutant: cmd_work is only queued after a success
NextCommandIfOk == IF status = "ok" THEN QueueWork(Tail(work), "cmd")
                   ELSE Tail(work)

\* pn533_wq_cmd_complete(): the callback is over, the next command may go
NextCommand == QueueWork(Tail(work), "cmd")

\* the end of pn533_send_async_complete()
FreeCmd == cmd' = 0

\* pn533_send_sync_complete()
SyncComplete ==
  /\ Takes("complete") /\ cmd # 0
  /\ kinds[cmd] \in SyncKinds
  /\ Answer(status, <<>>)
  /\ Goto("done", cmd)
  /\ work' = NextCommand
  /\ FreeCmd
  /\ UNCHANGED <<status, cmd_pending, cmd_queue, resp_q, mi_arg,
                 tgt_active_prot, tgt_available_prots, polling, in_urb,
                 sending, oops, kinds, got, lost, stalled, purged, txErrors,
                 aborts>>

\* pn533_poll_complete(): a target is found, there is none and the poll goes
\* on, or an error ends it.  In the code -ENOENT keeps poll_mod_count, but
\* only an abort by the listen timer leaves it set.
PollComplete(found) ==
  /\ Takes("complete") /\ cmd # 0
  /\ kinds[cmd] = "poll"
  /\ found => status = "ok"
  /\ Answer(status, <<>>)
  /\ tgt_available_prots' = (tgt_available_prots \/ found)
  /\ polling' = (polling /\ ~found /\ status # "EIO")
  /\ work' = NextCommand
  /\ FreeCmd
  /\ UNCHANGED <<status, cmd_pending, cmd_queue, resp_q, mi_arg,
                 tgt_active_prot, in_urb, sending, caller, oops, kinds, got,
                 lost, stalled, purged, txErrors, aborts>>

\* mutant: the next command is let go as well
RequestChunkAndNext ==
  /\ mi_arg' = cmd
  /\ work' = QueueWork(QueueWork(Tail(work), "mi"), "cmd")

\* mi_work is to ask for the next chunk, and -EINPROGRESS keeps the next
\* command back
RequestChunk == mi_arg' = cmd /\ work' = QueueWork(Tail(work), "mi")

\* pn533_data_exchange_complete() with the MI bit
MoreChunks ==
  /\ Takes("complete") /\ cmd # 0
  /\ kinds[cmd] = "xchg" /\ status = "ok"
  /\ got[cmd] + 1 < MaxChunks
  /\ got' = [got EXCEPT ![cmd] = @ + 1]
  /\ resp_q' = Append(resp_q, <<cmd, got'[cmd]>>)
  /\ RequestChunk
  /\ FreeCmd
  /\ UNCHANGED <<status, cmd_pending, cmd_queue, tgt_active_prot,
                 tgt_available_prots, polling, in_urb, sending, caller,
                 oops, kinds, answered, lost, stalled, purged, txErrors,
                 aborts>>

\* The last chunk: pn533_build_response() joins all of resp_q.
LastChunk ==
  /\ Takes("complete") /\ cmd # 0
  /\ kinds[cmd] = "xchg" /\ status = "ok"
  /\ got' = [got EXCEPT ![cmd] = @ + 1]
  /\ Answer("ok", Append(resp_q, <<cmd, got'[cmd]>>))
  /\ resp_q' = <<>>
  /\ work' = NextCommand
  /\ FreeCmd
  /\ UNCHANGED <<status, cmd_pending, cmd_queue, mi_arg, tgt_active_prot,
                 tgt_available_prots, polling, in_urb, sending, caller,
                 oops, kinds, lost, stalled, purged, txErrors, aborts>>

\* mutant: the chunks before the error are kept
KeepChunks == UNCHANGED resp_q

\* skb_queue_purge() of the error path
DropChunks == resp_q' = <<>>

\* The URB failed, or the chip reports an error.
ExchangeFails ==
  /\ Takes("complete") /\ cmd # 0
  /\ kinds[cmd] = "xchg"
  /\ Answer(IF status = "ok" THEN "EIO" ELSE status, <<>>)
  /\ DropChunks
  /\ work' = NextCommand
  /\ FreeCmd
  /\ UNCHANGED <<status, cmd_pending, cmd_queue, mi_arg, tgt_active_prot,
                 tgt_available_prots, polling, in_urb, sending, caller,
                 oops, kinds, got, lost, stalled, purged, txErrors, aborts>>

\* pn533_wq_cmd(): nothing to send
QueueEmpty ==
  /\ Takes("cmd") /\ ~CmdLock
  /\ cmd_queue = <<>>
  /\ cmd_pending' = FALSE
  /\ work' = Tail(work)
  /\ UNCHANGED <<cmd, status, cmd_queue, resp_q, mi_arg, tgt_active_prot,
                 tgt_available_prots, polling, in_urb, sending, caller,
                 oops, history>>

\* pn533_wq_cmd(): the next command is sent, or freed when that fails
SendNext ==
  /\ Takes("cmd") /\ ~CmdLock
  /\ cmd_queue # <<>>
  /\ cmd_queue' = Tail(cmd_queue)
  /\ work' = Tail(work)
  /\ \/ /\ SendFrame
        /\ sending' = Head(cmd_queue)
        /\ UNCHANGED <<lost, stalled, txErrors>>
     \/ /\ TxError
        /\ lost' = lost \cup {Head(cmd_queue)}
        /\ stalled' = TRUE
        /\ UNCHANGED <<in_urb, sending>>
  /\ UNCHANGED <<cmd, status, cmd_pending, resp_q, mi_arg, tgt_active_prot,
                 tgt_available_prots, polling, caller, oops, kinds, got,
                 answered, purged, aborts>>

\* mutant: the request for the next chunk goes through the queue
NextChunkQueued ==
  /\ Takes("mi")
  /\ cmd_queue' = Append(cmd_queue, mi_arg)
  /\ work' = QueueWork(Tail(work), "cmd")
  /\ UNCHANGED <<cmd, status, cmd_pending, resp_q, mi_arg, tgt_active_prot,
                 tgt_available_prots, polling, in_urb, sending, caller,
                 oops, history>>

\* pn533_wq_mi_recv(): the request for the next chunk bypasses the queue.
\* When it cannot be sent the next command may go.
NextChunk ==
  /\ Takes("mi")
  /\ \/ /\ SendFrame
        /\ sending' = mi_arg
        /\ work' = Tail(work)
        /\ UNCHANGED <<lost, txErrors>>
     \/ /\ TxError
        /\ lost' = lost \cup {mi_arg}
        /\ work' = QueueWork(Tail(work), "cmd")
        /\ UNCHANGED <<in_urb, sending>>
  /\ UNCHANGED <<cmd, status, cmd_pending, cmd_queue, resp_q, mi_arg,
                 tgt_active_prot, tgt_available_prots, polling, caller,
                 oops, kinds, got, answered, stalled, purged, aborts>>

\* The worker sets dev->cmd after the URBs are submitted.
WorkerSetCmd ==
  /\ ~oops /\ sending # 0
  /\ cmd' = sending
  /\ sending' = 0
  /\ UNCHANGED <<status, cmd_pending, cmd_queue, resp_q, mi_arg,
                 tgt_active_prot, tgt_available_prots, polling, in_urb,
                 work, caller, oops, history>>
-----------------------------------------------------------------------------
UrbStep == RecvAck \/ \E s \in {"ok", "EIO"} : RecvResponse(s)

WorkerStep ==
  \/ SyncComplete
  \/ \E found \in BOOLEAN : PollComplete(found)
  \/ MoreChunks
  \/ LastChunk
  \/ ExchangeFails
  \/ QueueEmpty
  \/ SendNext
  \/ NextChunk
  \/ WorkerSetCmd

CallStep == SetCmd \/ (\E ok \in BOOLEAN : SyncReturn(ok)) \/ LinkDownPurge

Next ==
  \/ \E k \in Kinds : Send(k) \/ SendFails(k)
  \/ Activate \/ Deactivate \/ StopPoll \/ LinkDown
  \/ CallStep
  \/ UrbStep
  \/ WorkerStep

Spec == Init /\ [][Next]_vars

\* The worker and the caller run, and the chip answers every command or its
\* URB fails: pn533_send_cmd_sync() waits without a timeout.
Fairness == WF_vars(WorkerStep) /\ WF_vars(CallStep) /\ WF_vars(UrbStep)
FairSpec == Spec /\ Fairness
-----------------------------------------------------------------------------
(* Properties                                                              *)

\* Type correctness; a pending mi_work has its argument.
TypeOK ==
  /\ cmd \in 0 .. MaxCommands
  /\ status \in {"ok", "EIO", "ENOENT"}
  /\ cmd_pending \in BOOLEAN
  /\ cmd_queue \in Seq(Ids)
  /\ resp_q \in Seq(Ids \X Nat)
  /\ mi_arg \in 0 .. MaxCommands
  /\ "mi" \in ToSet(work) => mi_arg # 0
  /\ tgt_active_prot \in BOOLEAN
  /\ tgt_available_prots \in BOOLEAN
  /\ polling \in BOOLEAN
  /\ in_urb \in {"idle", "ack", "resp"}
  /\ work \in Seq({"cmd", "complete", "mi"})
  /\ sending \in 0 .. MaxCommands
  /\ caller \in [at : {"idle", "sent", "wait", "done", "release", "purge"},
                 id : 0 .. MaxCommands]
  /\ oops \in BOOLEAN
  /\ kinds \in Seq(Kinds)
  /\ got \in [Ids -> Nat]
  /\ lost \subseteq Ids
  /\ stalled \in BOOLEAN
  /\ purged \in BOOLEAN
  /\ txErrors \in 0 .. MaxTxErrors
  /\ aborts \in 0 .. MaxAborts

Busy == {w \in {"urb", "cmd", "complete", "mi"} :
           IF w = "urb" THEN in_urb # "idle" ELSE w \in ToSet(work)}

\* dev->cmd is set whenever a completion uses it, except in the window
\* between the submission of the URBs and the assignment.
CompletionHasCommand ==
  ~oops => /\ "complete" \in ToSet(work) => cmd # 0
           /\ in_urb # "idle" => cmd # 0 \/ sending # 0 \/ CmdLock

\* The command path is driven by one thing at a time: while cmd_pending is
\* set there is a URB in flight, or a completion, or a chunk to ask for, or a
\* next command to send, never two of them and, unless pn533_wq_cmd() failed
\* to send, never none.  Otherwise the chip would get two commands at once,
\* or the queue would be forgotten.  And what drives it has its command.
OneDriver ==
  /\ ~oops /\ ~stalled =>
       IF cmd_pending \/ CmdLock
       THEN \E w \in {"urb", "cmd", "complete", "mi"} : Busy = {w}
       ELSE Busy = {} /\ cmd_queue = <<>>
  /\ CompletionHasCommand

\* Commands are answered in the order in which they were accepted, each at
\* most once, and none is passed over unless it was lost.
InOrder ==
  \A i \in DOMAIN answered :
    LET before == IF i = 1 THEN 0 ELSE answered[i - 1].id
    IN /\ before < answered[i].id
       /\ \A id \in (before + 1) .. (answered[i].id - 1) : id \in lost

InFlight == IF CmdLock THEN caller.id ELSE IF sending # 0 THEN sending ELSE cmd

\* What the comment at pn533_send_cmd_direct_async() asks for: every chunk
\* of a response is requested before the next command from the queue.
ChainUnbroken ==
  \A id \in DOMAIN kinds :
    got[id] > 0 /\ Unanswered(id) /\ in_urb # "idle" => InFlight = id

\* A successful exchange hands over all chunks of its own response, in
\* order, and no others, unless the target was deactivated in the middle of
\* a chain or the request for a chunk could not be sent.
WholeResponse ==
  \A a \in ToSet(answered) :
    kinds[a.id] = "xchg" /\ a.status = "ok" /\ ~purged /\ lost = {} =>
      a.chunks = [n \in 1 .. got[a.id] |-> <<a.id, n>>]

\* A synchronous call, which waits without a timeout, returns, unless
\* pn533_wq_cmd() failed to send a command and left the queue stuck.
SyncReturns == caller.at = "wait" ~> (caller.at # "wait" \/ oops \/ stalled)
=============================================================================
