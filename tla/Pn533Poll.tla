----------------------------- MODULE Pn533Poll -----------------------------
(***************************************************************************)
(* The polling loop of the PN533 driver (pn533.c): the list of modulations *)
(* and the index into it, the listen timer, poll_work and the completion   *)
(* of poll commands on the ordered workqueue, and the calls of the NFC     *)
(* core.  The four run concurrently and share the list, its length and the *)
(* index without a lock.  The command path, Pn533Cmd, is here one command  *)
(* in flight and a queue; an abort kills the command in flight (on every   *)
(* reader but the ACR122U, where it does nothing).                         *)
(***************************************************************************)
EXTENDS Integers, Sequences, SequencesExt

CONSTANTS
  Protocols,       \* the sets of protocols the core asks for, as initiator
  MaxPolls,        \* calls of start_poll()
  MaxQueue,        \* poll commands behind the one in flight, after a race
  MaxErrors        \* URBs and allocations that fail

ASSUME PollAssumption ==
  /\ Protocols \subseteq SUBSET {"mifare", "felica", "jewel", "b"}
  /\ {MaxPolls, MaxQueue, MaxErrors} \subseteq Nat

VARIABLES
  poll_mod_active, poll_mod_count, poll_mod_curr, cancel_listen,
  tgt_mode, tgt_available,
  timer,           \* listen_timer: off, armed, or its handler runs
  wq,              \* the pending items of the workqueue
  worker,          \* where the running item is
  cmd, cmd_queue,  \* the command in flight with its status; those behind it
  core,            \* where the core's thread is
  polling,         \* the core's dev->polling
  oops,            \* a division by zero
  polls, errors,
  raced,           \* the timer or stop_poll() overlapped a completion
  stalled,         \* the loop was left although the list is not empty
  misparsed        \* a response of this poll was taken for one of another modulation

list == <<poll_mod_active, poll_mod_count, poll_mod_curr>>
target == <<tgt_mode, tgt_available>>
ghosts == <<raced, stalled, misparsed>>
bounds == <<polls, errors>>
vars == <<list, cancel_listen, target, timer, wq, worker, cmd, cmd_queue, core,
          polling, oops, bounds, ghosts>>

\* enum: the modulations by number, the last one is PN533_LISTEN_MOD.
Listen == 5
NoMod == -1
NoCmd == [mod |-> NoMod, status |-> "none"]

Init ==
  /\ poll_mod_active = [i \in 0..Listen |-> NoMod]
  /\ poll_mod_count = 0 /\ poll_mod_curr = 0 /\ cancel_listen = FALSE
  /\ tgt_mode = FALSE /\ tgt_available = FALSE
  /\ timer = "off" /\ wq = <<>> /\ worker = "idle"
  /\ cmd = NoCmd /\ cmd_queue = <<>>
  /\ core = "idle" /\ polling = FALSE /\ oops = "none"
  /\ polls = 0 /\ errors = 0
  /\ raced = FALSE /\ stalled = FALSE /\ misparsed = FALSE

(***************************************************************************)
(* Helpers.                                                                *)
(***************************************************************************)

\* queue_work(): an item that is pending is not queued again.
QueueWork(q, w) == IF w \in ToSet(q) THEN q ELSE Append(q, w)

Current == poll_mod_active[poll_mod_curr]

\* del_timer() does not wait for a handler that runs.
DelTimer == timer' = IF timer = "armed" THEN "off" ELSE timer

\* pn533_poll_create_mod_list().
ModList(im, tm) ==
  (IF "mifare" \in im THEN <<0>> ELSE <<>>)
  \o (IF "felica" \in im THEN <<1, 2>> ELSE <<>>)
  \o (IF "jewel" \in im THEN <<3>> ELSE <<>>)
  \o (IF "b" \in im THEN <<4>> ELSE <<>>)
  \o (IF tm THEN <<Listen>> ELSE <<>>)

\* pn533_send_cmd_async(): sent, or queued behind the command that is pending.
SendCmd(mod) ==
  IF cmd = NoCmd
    THEN cmd' = [mod |-> mod, status |-> "sent"] /\ UNCHANGED cmd_queue
    ELSE Len(cmd_queue) < MaxQueue /\ cmd_queue' = Append(cmd_queue, mod) /\ UNCHANGED cmd

Error == errors < MaxErrors /\ errors' = errors + 1

\* pn533_abort_cmd(): the URB in flight completes with -ENOENT.
Abort(q) ==
  IF cmd.status = "sent"
    THEN cmd' = [cmd EXCEPT !.status = "enoent"] /\ wq' = QueueWork(q, "complete")
    ELSE wq' = q /\ UNCHANGED cmd

(***************************************************************************)
(* The chip and the timer.                                                 *)
(***************************************************************************)

UrbComplete ==
  /\ cmd.status = "sent"
  /\ \/ cmd' = [cmd EXCEPT !.status = "ok"] /\ UNCHANGED errors
     \/ cmd' = [cmd EXCEPT !.status = "error"] /\ Error
  /\ wq' = QueueWork(wq, "complete")
  /\ UNCHANGED <<list, cancel_listen, target, timer, worker, cmd_queue, core, polling,
                 oops, polls, ghosts>>

\* pn533_listen_mode_timer(), in a softirq.
TimerFires ==
  /\ timer = "armed" /\ timer' = "running"
  /\ cancel_listen' = TRUE
  /\ UNCHANGED <<list, target, wq, worker, cmd, cmd_queue, core, polling, oops, bounds,
                 ghosts>>

\* poll_mod_curr = (poll_mod_curr + 1) % poll_mod_count
pn533_poll_next_mod ==
  IF poll_mod_count = 0
    THEN oops' = "division" /\ UNCHANGED poll_mod_curr
    ELSE poll_mod_curr' = (poll_mod_curr + 1) % poll_mod_count /\ UNCHANGED oops

pn533_listen_mode_timer ==
  /\ timer = "running" /\ timer' = "off"
  /\ pn533_poll_next_mod
  /\ wq' = QueueWork(wq, "poll")
  /\ UNCHANGED <<poll_mod_active, poll_mod_count, cancel_listen, target, worker, cmd,
                 cmd_queue, core, polling, bounds, ghosts>>

(***************************************************************************)
(* pn533_wq_poll().                                                        *)
(***************************************************************************)

Runs(item, next) ==
  /\ worker = "idle" /\ wq # <<>> /\ Head(wq) = item
  /\ worker' = next

pn533_wq_pollBehind ==
  /\ Runs("poll", IF Current = Listen THEN "send_listen" ELSE "send")
  /\ cancel_listen' = FALSE /\ wq' = Tail(wq)
  /\ raced' = (raced \/ (cancel_listen /\ cmd.status # "sent"))
  /\ UNCHANGED <<list, target, timer, cmd, cmd_queue, core, polling, oops, bounds,
                 stalled, misparsed>>

pn533_wq_poll ==
  /\ Runs("poll", IF Current = Listen THEN "send_listen" ELSE "send")
  /\ cancel_listen' = FALSE
  /\ IF cancel_listen THEN Abort(Tail(wq)) ELSE wq' = Tail(wq) /\ UNCHANGED cmd
  /\ raced' = (raced \/ (cancel_listen /\ cmd.status # "sent"))
  /\ UNCHANGED <<list, target, timer, cmd_queue, core, polling, oops, bounds, stalled,
                 misparsed>>

WqPollSendOffByOne ==
  /\ worker \in {"send", "send_listen"} /\ worker' = "idle"
  /\ SendCmd(Current)
  /\ timer' = IF worker = "send_listen" /\ poll_mod_count > 2 THEN "armed" ELSE timer
  /\ UNCHANGED <<list, cancel_listen, target, wq, core, polling, oops, bounds, ghosts>>

\* pn533_send_poll_frame(); when it fails the loop is left as it is.  The timer's
\* handler, a few instructions in a softirq, is over before the timer is set again.
WqPollSend ==
  /\ worker \in {"send", "send_listen"} /\ worker' = "idle"
  /\ timer # "running"
  /\ \/ /\ SendCmd(Current)
        /\ timer' = IF worker = "send_listen" /\ poll_mod_count > 1 THEN "armed" ELSE timer
        /\ UNCHANGED <<errors, stalled>>
     \/ Error /\ stalled' = TRUE /\ UNCHANGED <<cmd, cmd_queue, timer>>
  /\ UNCHANGED <<list, cancel_listen, target, wq, core, polling, oops, polls, raced,
                 misparsed>>

(***************************************************************************)
(* pn533_poll_complete() and what follows it on the workqueue.             *)
(***************************************************************************)

\* pn533_wq_cmd_complete(): the callback is over and cmd_work follows, behind the
\* items that are pending; the path stays taken until it has run.
Completed(q) == cmd' = [cmd EXCEPT !.status = "done"] /\ wq' = QueueWork(q, "cmd")

\* The label stop_poll: the list is emptied, a timer that is armed stays so.
StopPollLabel ==
  /\ poll_mod_count' = 0
  /\ raced' = (raced \/ timer # "off")

PollError ==
  /\ Runs("complete", "idle") /\ cmd.status \in {"enoent", "error"}
  /\ IF cmd.status = "enoent" /\ poll_mod_count # 0
       THEN UNCHANGED <<poll_mod_count, raced>> ELSE StopPollLabel
  /\ Completed(Tail(wq))
  /\ UNCHANGED <<poll_mod_active, poll_mod_curr, cancel_listen, target, timer, cmd_queue,
                 core, polling, oops, bounds, stalled, misparsed>>

\* Target mode, when the current modulation is the listen one: an initiator has
\* activated the device, or the response is none the driver can use.
pn533_init_target_complete ==
  /\ Runs("complete", "idle") /\ cmd.status = "ok" /\ Current = Listen
  /\ DelTimer
  /\ raced' = (raced \/ timer = "running" \/ "poll" \in ToSet(wq))
  /\ misparsed' = (misparsed \/ cmd.mod # Listen)
  /\ \/ /\ tgt_mode' = TRUE /\ polling' = FALSE
        /\ Completed(QueueWork(Tail(wq), "tg")) /\ UNCHANGED stalled
     \/ /\ stalled' = TRUE
        /\ Completed(Tail(wq)) /\ UNCHANGED <<tgt_mode, polling>>
  /\ UNCHANGED <<list, cancel_listen, tgt_available, cmd_queue, core, oops, bounds>>

pn533_start_poll_completeUntested ==
  /\ cmd.status = "ok" /\ Current # Listen
  /\ Runs("complete", "next_mod")
  /\ \/ /\ tgt_available' = TRUE /\ polling' = FALSE /\ poll_mod_count' = 0
        /\ misparsed' = (misparsed \/ cmd.mod # poll_mod_curr)
     \/ UNCHANGED <<tgt_available, polling, poll_mod_count, misparsed>>
  /\ Completed(Tail(wq))
  /\ UNCHANGED <<poll_mod_active, poll_mod_curr, cancel_listen, tgt_mode, timer, cmd_queue,
                 core, oops, bounds, raced, stalled>>

pn533_start_poll_completeGoingOn ==
  /\ cmd.status = "ok" /\ Current # Listen
  /\ Runs("complete", "next_mod")
  /\ \/ /\ tgt_available' = TRUE /\ polling' = FALSE /\ UNCHANGED poll_mod_count
        /\ misparsed' = (misparsed \/ cmd.mod # poll_mod_curr)
     \/ UNCHANGED <<tgt_available, polling, poll_mod_count, misparsed>>
  /\ Completed(Tail(wq))
  /\ UNCHANGED <<poll_mod_active, poll_mod_curr, cancel_listen, tgt_mode, timer, cmd_queue,
                 core, oops, bounds, raced, stalled>>

\* A target, read by the parser that poll_mod_curr itself stands for
\* (pn533_target_found), or none.
pn533_start_poll_complete ==
  /\ cmd.status = "ok" /\ Current # Listen
  /\ \/ /\ Runs("complete", "idle")
        /\ tgt_available' = TRUE /\ polling' = FALSE /\ poll_mod_count' = 0
        /\ misparsed' = (misparsed \/ cmd.mod # poll_mod_curr)
        /\ raced' = (raced \/ timer # "off" \/ "poll" \in ToSet(wq))
        /\ Completed(Tail(wq))
     \/ /\ Runs("complete", "idle") /\ poll_mod_count = 0
        /\ Completed(Tail(wq))
        /\ UNCHANGED <<tgt_available, polling, poll_mod_count, misparsed, raced>>
     \/ /\ Runs("complete", "next_mod") /\ poll_mod_count # 0
        /\ wq' = Tail(wq)
        /\ UNCHANGED <<tgt_available, polling, poll_mod_count, misparsed, raced, cmd>>
  /\ UNCHANGED <<poll_mod_active, poll_mod_curr, cancel_listen, tgt_mode, timer, cmd_queue,
                 core, oops, bounds, stalled>>

PollNext ==
  /\ worker = "next_mod" /\ worker' = "idle"
  /\ pn533_poll_next_mod
  /\ Completed(QueueWork(wq, "poll"))
  /\ UNCHANGED <<poll_mod_active, poll_mod_count, cancel_listen, target, timer, cmd_queue,
                 core, polling, bounds, ghosts>>

\* The next command goes out; one that cannot be sent is dropped, and the path
\* stays taken for ever.
pn533_wq_cmd ==
  /\ Runs("cmd", "idle") /\ wq' = Tail(wq)
  /\ \/ /\ cmd_queue = <<>> /\ cmd' = NoCmd
        /\ UNCHANGED <<cmd_queue, errors, stalled>>
     \/ /\ cmd_queue # <<>> /\ cmd_queue' = Tail(cmd_queue)
        /\ cmd' = [mod |-> Head(cmd_queue), status |-> "sent"]
        /\ UNCHANGED <<errors, stalled>>
     \/ /\ cmd_queue # <<>> /\ cmd_queue' = Tail(cmd_queue)
        /\ Error /\ stalled' = TRUE /\ UNCHANGED cmd
  /\ UNCHANGED <<list, cancel_listen, target, timer, core, polling, oops, polls, raced,
                 misparsed>>

\* The session as a target: data is exchanged until the initiator is gone.
pn533_wq_tg_get_data ==
  /\ Runs("tg", "idle")
  /\ tgt_mode' = FALSE /\ wq' = Tail(wq)
  /\ UNCHANGED <<list, cancel_listen, tgt_available, timer, cmd, cmd_queue, core,
                 polling, oops, bounds, ghosts>>

(***************************************************************************)
(* The NFC core, under its device lock.                                    *)
(***************************************************************************)

\* At least one protocol, or general bytes to listen with, is there.
pn533_start_poll(im, tm) ==
  LET mods == ModList(im, tm)
  IN  /\ core = "idle" /\ ~polling /\ ~tgt_mode
      /\ mods # <<>>
      /\ polls < MaxPolls /\ polls' = polls + 1
      /\ core' = "start" /\ misparsed' = FALSE
      /\ poll_mod_curr' = 0 /\ poll_mod_count' = Len(mods)
      /\ poll_mod_active' = [i \in 0..Listen |->
           IF i < Len(mods) THEN mods[i + 1] ELSE poll_mod_active[i]]
      /\ UNCHANGED <<cancel_listen, target, timer, wq, worker, cmd, cmd_queue, polling,
                     oops, errors, raced, stalled>>

\* A poll that cannot be sent leaves the list as it is.
StartPollSend ==
  /\ core = "start" /\ core' = "idle"
  /\ \/ SendCmd(Current) /\ polling' = TRUE /\ UNCHANGED errors
     \/ Error /\ UNCHANGED <<cmd, cmd_queue, polling>>
  /\ UNCHANGED <<list, cancel_listen, target, timer, wq, worker, oops, polls, ghosts>>

\* The poll is over: its command was aborted or is about to be forgotten, and
\* nothing goes on with it.
Quiet ==
  /\ timer = "off" /\ "poll" \notin ToSet(wq) /\ cmd_queue = <<>>
  /\ worker = "idle" /\ cmd.status \in {"none", "enoent", "done"}

pn533_stop_poll ==
  /\ core = "idle" /\ polling
  /\ DelTimer
  /\ IF poll_mod_count = 0
       THEN polling' = FALSE /\ raced' = (raced \/ ~Quiet) /\ UNCHANGED core
       ELSE core' = "abort" /\ UNCHANGED <<polling, raced>>
  /\ UNCHANGED <<list, cancel_listen, target, wq, worker, cmd, cmd_queue, oops, bounds,
                 stalled, misparsed>>

StopPollAbort ==
  /\ core = "abort" /\ core' = "reset"
  /\ Abort(wq)
  /\ UNCHANGED <<list, cancel_listen, target, timer, worker, cmd_queue, polling, oops,
                 bounds, ghosts>>

StopPollReset ==
  /\ core = "reset" /\ core' = "idle"
  /\ poll_mod_count' = 0 /\ polling' = FALSE
  /\ raced' = (raced \/ ~Quiet)
  /\ UNCHANGED <<poll_mod_active, poll_mod_curr, cancel_listen, target, timer, wq,
                 worker, cmd, cmd_queue, oops, bounds, stalled, misparsed>>

\* The target is activated, used and deactivated.
UseTarget ==
  /\ core = "idle" /\ ~polling /\ poll_mod_count = 0 /\ tgt_available
  /\ tgt_available' = FALSE
  /\ UNCHANGED <<list, cancel_listen, tgt_mode, timer, wq, worker, cmd, cmd_queue, core,
                 polling, oops, bounds, ghosts>>

(***************************************************************************)

Worker ==
  \/ pn533_wq_poll \/ WqPollSend \/ PollError \/ pn533_init_target_complete
  \/ pn533_start_poll_complete \/ PollNext \/ pn533_wq_cmd \/ pn533_wq_tg_get_data

Core ==
  \/ \E im \in Protocols, tm \in BOOLEAN : pn533_start_poll(im, tm)
  \/ StartPollSend \/ pn533_stop_poll \/ StopPollAbort \/ StopPollReset \/ UseTarget

\* The kernel does not go on after an oops.
Next ==
  /\ oops = "none"
  /\ UrbComplete \/ TimerFires \/ pn533_listen_mode_timer \/ Worker \/ Core

Spec == Init /\ [][Next]_vars

(***************************************************************************)
(* Properties.  The loop has no lock, and what it does after a race of the *)
(* timer or of stop_poll() with a completion is not what was meant: those  *)
(* races are marked, and the properties say that nothing else upsets it.   *)
(***************************************************************************)

\* Every variable keeps its type, the index stays inside the list, and no work item
\* is pending twice.
TypeOK ==
  /\ poll_mod_active \in [0..Listen -> NoMod..Listen]
  /\ poll_mod_count \in 0 .. Listen + 1 /\ poll_mod_curr \in 0..Listen
  /\ poll_mod_count > 0 => poll_mod_curr < poll_mod_count
  /\ \A i \in 0..Listen : i < poll_mod_count => poll_mod_active[i] # NoMod
  /\ cancel_listen \in BOOLEAN /\ tgt_mode \in BOOLEAN /\ tgt_available \in BOOLEAN
  /\ polling \in BOOLEAN /\ raced \in BOOLEAN /\ stalled \in BOOLEAN
  /\ misparsed \in BOOLEAN
  /\ timer \in {"off", "armed", "running"}
  /\ wq \in Seq({"poll", "complete", "cmd", "tg"})
  /\ \A i, j \in DOMAIN wq : wq[i] = wq[j] => i = j
  /\ worker \in {"idle", "send", "send_listen", "next_mod"}
  /\ cmd \in [mod : NoMod..Listen,
             status : {"none", "sent", "ok", "error", "enoent", "done"}]
  /\ cmd_queue \in Seq(NoMod..Listen)
  /\ core \in {"idle", "start", "abort", "reset"} /\ oops \in {"none", "division"}
  /\ polls \in 0..MaxPolls /\ errors \in 0..MaxErrors

\* pn533_poll_next_mod() divides by the length of the list: the length is zero
\* there only after the timer outlived the list or stop_poll() overlapped a
\* completion, never through the completions and errors of a loop by itself.
DivisionNeedsRace == oops # "none" => raced

\* A loop has one poll command outstanding: the listen command is aborted before
\* the next one is sent, and a restarted poll finds no command of the last one.
OneLoop == ~raced => Len(cmd_queue) + (IF cmd.status = "sent" THEN 1 ELSE 0) <= 1

\* A poll that neither ended nor failed to send goes on: with a list that is not
\* empty there is always a command, a work item or a timer that continues it.  A
\* listen command has no answer of its own while no initiator comes: as long as
\* there are other modulations to poll, the timer that ends it is never missing.
LoopAlive ==
  /\ polling /\ poll_mod_count > 0 /\ core = "idle" /\ ~stalled
       => \/ cmd.status = "sent" \/ cmd_queue # <<>> \/ worker # "idle"
          \/ timer = "running" \/ {"poll", "complete"} \cap ToSet(wq) # {}
  /\ polling /\ poll_mod_count > 1 /\ core = "idle" /\ ~raced
       /\ cmd = [mod |-> Listen, status |-> "sent"] /\ worker = "idle"
       => timer # "off" \/ "poll" \in ToSet(wq)

\* "We must stop the poll after a valid target found": nothing is in flight,
\* pending or armed once a target is reported.  And it was read by the parser of
\* the modulation that was polled, as long as the lists have modulation i at index
\* i: pn533_target_found() takes the index.
PollStopsAfterTarget ==
  /\ tgt_available /\ ~polling /\ core = "idle" /\ worker = "idle" /\ ~raced
       => timer = "off" /\ "poll" \notin ToSet(wq) /\ cmd.status # "sent"
  /\ misparsed
       => raced \/ \E i \in 0..Listen : poll_mod_active[i] \notin {i, NoMod, Listen}
=============================================================================
