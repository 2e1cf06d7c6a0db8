------------------------------- MODULE Pn544 -------------------------------
(***************************************************************************)
(* The PN544 NFC driver (pn544.c): a character device whose calls run      *)
(* under info->mutex, and the interrupt thread, which shares read_irq with *)
(* them under read_mutex.  Threads of one or more processes make the       *)
(* calls; the chip answers writes, speaks up by itself, and raises its     *)
(* line for every message.  Messages are counted, of a frame only its      *)
(* length matters.  Suspend and resume change nothing in the driver.       *)
(***************************************************************************)
EXTENDS Integers

CONSTANTS
  Threads, Files,
  MsgMax, Overhead, FwHeader, BufLen,  \* PN544_MSG_MAX_SIZE, PN544_LLC_HCI_OVERHEAD, ...
  MaxUnread,       \* messages the chip holds
  MaxFails         \* failures of regulator_bulk_enable()

ASSUME Pn544Assumption ==
  /\ {MaxUnread, MaxFails, Overhead, MsgMax, FwHeader, BufLen} \subseteq Nat
  /\ 1 <= Overhead /\ Overhead < MsgMax /\ MsgMax <= BufLen /\ 1 <= FwHeader
  /\ "none" \notin Threads \cup Files

VARIABLES
  state,           \* info->state
  read_irq,        \* info->read_irq is PN544_INT
  mutex,           \* the holder of info->mutex
  read_mutex,      \* the holder of info->read_mutex
  regs,            \* the use count of the regulators
  thread,          \* where a thread is, and its file
  files,           \* the files that are open
  ven, unread,     \* the chip is enabled, messages it holds
  edge,            \* its line has risen, the interrupt thread has not run yet
  missed,          \* a read has failed and the message is still in the chip
  overrun,         \* a frame was longer than the buffer
  fails, failed    \* failures of the regulators; of a mode switch

chip == <<ven, unread, edge, missed>>
faults == <<overrun, fails, failed>>
pn544Vars == <<state, read_irq, mutex, read_mutex, regs, thread, files, chip, faults>>

None == "none"
Idle == [at |-> "idle", file |-> None, mode |-> "hci"]
Ops == {"open", "read", "poll", "write", "ioctl", "close"}
Modes == {"hci", "fw"}

Pn544Init ==
  /\ state = "cold" /\ read_irq = FALSE /\ mutex = None /\ read_mutex = None
  /\ regs = 0 /\ files = {} /\ thread = [t \in Threads |-> Idle]
  /\ ven = FALSE /\ unread = 0 /\ edge = FALSE /\ missed = FALSE
  /\ overrun = FALSE /\ fails = 0 /\ failed = FALSE

(***************************************************************************)
(* Calls.                                                                  *)
(***************************************************************************)

At(t, p) == thread[t].at = p
Go(t, p) == thread' = [thread EXCEPT ![t].at = p]

\* The file is released by the last user of it.
Busy(f) == \E t \in Threads : thread[t].file = f

Call(t, f, op, mode) ==
  /\ thread[t] = Idle
  /\ mode = "fw" => op = "ioctl"
  /\ op = "open" => f \notin files /\ ~Busy(f)
  /\ op # "open" => f \in files /\ \A u \in Threads : thread[u].file = f => thread[u].at # "close"
  /\ op = "close" => ~Busy(f)
  /\ files' = IF op = "close" THEN files \ {f} ELSE files
  /\ thread' = [thread EXCEPT ![t] = [at |-> op, file |-> f, mode |-> mode]]
  /\ UNCHANGED <<state, read_irq, mutex, read_mutex, regs, chip, faults>>

\* mutex_lock(&info->mutex): the first thing every call does.
Lock(t) ==
  /\ thread[t].at \in Ops /\ mutex = None
  /\ mutex' = t
  /\ UNCHANGED <<state, read_irq, read_mutex, regs, thread, files, chip, faults>>

Has(t, op) == mutex = t /\ At(t, op)

ReturnKeepsMutex(t) == mutex' = mutex /\ thread' = [thread EXCEPT ![t] = Idle]

\* out: mutex_unlock(&info->mutex) and return.
Return(t) == mutex' = None /\ thread' = [thread EXCEPT ![t] = Idle]

\* -ENODEV from read(), poll(), write() and ioctl() when the driver is COLD.
NoDevice(t) ==
  /\ \E op \in Ops \ {"open", "close"} : Has(t, op)
  /\ state = "cold"
  /\ Return(t)
  /\ UNCHANGED <<state, read_irq, read_mutex, regs, files, chip, faults>>

(***************************************************************************)
(* pn544_enable() and pn544_disable().                                     *)
(***************************************************************************)

\* The regulators; read_irq is reset while the chip is still off.
Enable(t) ==
  /\ regs' = regs + 1 /\ read_irq' = FALSE
  /\ Go(t, "enable")
  /\ UNCHANGED <<state, mutex, read_mutex, files, chip, faults>>

EnableFails(t) ==
  /\ fails < MaxFails /\ fails' = fails + 1
  /\ Return(t)
  /\ UNCHANGED <<state, read_irq, read_mutex, regs, files, chip, overrun>>

\* pdata->enable(mode).
EnableChip(t) ==
  /\ Has(t, "enable")
  /\ ven' = TRUE /\ state' = thread[t].mode
  /\ files' = files \cup {thread[t].file}
  /\ Return(t)
  /\ UNCHANGED <<read_irq, read_mutex, regs, unread, edge, missed, faults>>

\* pdata->disable() drops what the chip holds; the line may have risen before.
Disable(t, next) ==
  /\ ven' = FALSE /\ unread' = 0 /\ missed' = FALSE
  /\ state' = "cold"
  /\ Go(t, next)
  /\ UNCHANGED <<read_irq, mutex, read_mutex, regs, files, edge, faults>>

DisableEnd(t, next) ==
  /\ read_irq' = FALSE /\ regs' = regs - 1
  /\ IF next = "return" THEN Return(t) ELSE Go(t, next) /\ UNCHANGED mutex
  /\ UNCHANGED <<state, read_mutex, files, chip, faults>>

(***************************************************************************)
(* open(), close() and the ioctls.                                         *)
(***************************************************************************)

pn544_openAnyway(t) ==
  /\ Has(t, "open")
  /\ Enable(t) \/ (EnableFails(t) /\ UNCHANGED failed)

\* -EBUSY unless the driver is COLD.
pn544_open(t) ==
  /\ Has(t, "open")
  /\ \/ /\ state # "cold" /\ Return(t)
        /\ UNCHANGED <<state, read_irq, read_mutex, regs, files, chip, faults>>
     \/ state = "cold" /\ Enable(t)
     \/ state = "cold" /\ EnableFails(t) /\ UNCHANGED failed

pn544_close(t) ==
  \/ Has(t, "close") /\ Disable(t, "closing")
  \/ Has(t, "closing") /\ DisableEnd(t, "return")

\* PN544_SET_FW_MODE: the chip is switched off and on again.  When it cannot be
\* switched on, the file is open on a driver that is COLD.
SwitchMode(t) ==
  \/ /\ Has(t, "ioctl") /\ state = thread[t].mode /\ Return(t)
     /\ UNCHANGED <<state, read_irq, read_mutex, regs, files, chip, faults>>
  \/ Has(t, "ioctl") /\ state \in Modes \ {thread[t].mode} /\ Disable(t, "off")
  \/ Has(t, "off") /\ DisableEnd(t, "on")
  \/ Has(t, "on") /\ Enable(t)
  \/ Has(t, "on") /\ EnableFails(t) /\ failed' = TRUE

(***************************************************************************)
(* read(), poll() and write().                                             *)
(***************************************************************************)

\* With nothing to read, O_NONBLOCK returns at once and any other file sleeps,
\* with the mutex held.
pn544_read(t) ==
  /\ Has(t, "read") /\ state # "cold"
  /\ \/ read_irq /\ Go(t, "i2c") /\ UNCHANGED mutex
     \/ ~read_irq /\ Return(t)
     \/ ~read_irq /\ Go(t, "asleep") /\ UNCHANGED mutex
  /\ UNCHANGED <<state, read_irq, read_mutex, regs, files, chip, faults>>

\* wait_event_interruptible(): the message, or a signal.
WakeUp(t) ==
  /\ Has(t, "asleep") /\ read_irq
  /\ Go(t, "i2c")
  /\ UNCHANGED <<state, read_irq, mutex, read_mutex, regs, files, chip, faults>>

Signal(t) ==
  /\ Has(t, "asleep")
  /\ Return(t)
  /\ UNCHANGED <<state, read_irq, read_mutex, regs, files, chip, faults>>

\* pn544_i2c_read(): the length byte is clamped, -1 is -EMSGSIZE.
HciBytesOffByOne(claim, len) ==
  LET n == IF claim < Overhead THEN Overhead
           ELSE IF claim > MsgMax - 1 THEN MsgMax - 1 ELSE claim
  IN  IF n > len THEN -1 ELSE 1 + n

HciBytes(claim, len) ==
  LET n == IF claim < Overhead THEN Overhead
           ELSE IF claim > MsgMax - 1 THEN MsgMax - 1 ELSE claim
  IN  IF 1 + n > len THEN -1 ELSE 1 + n

\* pn544_fw_read(): a header with a length, then the data.
FwBytes(claim, len) ==
  IF len < FwHeader \/ claim > len - FwHeader THEN -1 ELSE FwHeader + claim

Bytes(claim, len) ==
  IF state = "fw" THEN FwBytes(claim, len) ELSE HciBytes(claim, len)

\* The I2C transfer, under read_mutex.  The line rises again for the next message.
I2cRead(t) ==
  /\ Has(t, "i2c") /\ read_mutex = None
  /\ read_mutex' = t /\ Go(t, "clear")
  /\ \E claim \in 0 .. BufLen + 1, count \in 0 .. BufLen + 1 :
       LET len == IF count < BufLen THEN count ELSE BufLen
           n   == Bytes(claim, len)
       IN  /\ overrun' = (overrun \/ n > len)
           /\ \/ /\ n >= 0 /\ unread > 0
                 /\ unread' = unread - 1 /\ edge' = (edge \/ unread' > 0)
                 /\ UNCHANGED missed
              \/ /\ missed' = (missed \/ unread > 0)
                 /\ UNCHANGED <<unread, edge>>
  /\ UNCHANGED <<state, read_irq, mutex, regs, files, ven, fails, failed>>

\* read_irq is reset whether the transfer succeeded or not.
ReadEnd(t) ==
  /\ Has(t, "clear")
  /\ read_irq' = FALSE /\ read_mutex' = None
  /\ Return(t)
  /\ UNCHANGED <<state, regs, files, chip, faults>>

pn544_poll(t) ==
  /\ Has(t, "poll") /\ state # "cold"
  /\ Return(t)
  /\ UNCHANGED <<state, read_irq, read_mutex, regs, files, chip, faults>>

\* The frame goes to the chip, or is illegal, or meets an I2C error twice: what the
\* chip makes of it is ChipSpeaks.
pn544_write(t) ==
  /\ Has(t, "write") /\ state # "cold"
  /\ Return(t)
  /\ UNCHANGED <<state, read_irq, read_mutex, regs, files, chip, faults>>

(***************************************************************************)
(* The chip and the interrupt thread.                                      *)
(***************************************************************************)

\* A message, of its own accord or as an answer.
ChipSpeaks ==
  /\ ven /\ unread < MaxUnread
  /\ unread' = unread + 1 /\ edge' = (edge \/ unread = 0)
  /\ UNCHANGED <<state, read_irq, mutex, read_mutex, regs, thread, files, ven, missed,
                 faults>>

InterruptUnlocked ==
  /\ edge /\ edge' = FALSE /\ read_irq' = TRUE
  /\ UNCHANGED <<state, mutex, read_mutex, regs, thread, files, ven, unread,
                 missed, faults>>

pn544_irq_thread_fn ==
  /\ edge /\ read_mutex = None
  /\ edge' = FALSE /\ read_irq' = TRUE
  /\ UNCHANGED <<state, mutex, read_mutex, regs, thread, files, ven, unread,
                 missed, faults>>

(***************************************************************************)

\* What a thread does inside a call, the sleep aside.
Body(t) ==
  \/ NoDevice(t) \/ pn544_open(t) \/ pn544_close(t) \/ pn544_read(t) \/ WakeUp(t)
  \/ I2cRead(t) \/ ReadEnd(t) \/ pn544_poll(t) \/ pn544_write(t)
  \/ SwitchMode(t) \/ EnableChip(t)

Pn544Next ==
  \/ \E t \in Threads : Lock(t) \/ Body(t) \/ Signal(t)
  \/ \E t \in Threads, f \in Files, op \in Ops, m \in Modes : Call(t, f, op, m)
  \/ ChipSpeaks \/ pn544_irq_thread_fn

\* Threads run, the mutex is handed out in turn, interrupts are taken.  The chip
\* owes nobody a message, and no signal has to come.
Pn544Spec ==
  /\ Pn544Init /\ [][Pn544Next]_pn544Vars
  /\ WF_pn544Vars(pn544_irq_thread_fn)
  /\ \A t \in Threads : WF_pn544Vars(Body(t)) /\ SF_pn544Vars(Lock(t))

(***************************************************************************)
(* Properties.                                                             *)
(***************************************************************************)

\* Where a thread is inside a call, with the mutex.
Inside == {"enable", "closing", "off", "on", "asleep", "i2c", "clear"}

\* Every variable keeps its type.
Pn544TypeOK ==
  /\ state \in Modes \cup {"cold"}
  /\ mutex \in Threads \cup {None} /\ read_mutex \in Threads \cup {None}
  /\ regs \in Int
  /\ files \subseteq Files
  /\ thread \in [Threads -> [at : Ops \cup Inside \cup {"idle"},
                              file : Files \cup {None}, mode : Modes]]
  /\ read_irq \in BOOLEAN /\ ven \in BOOLEAN /\ edge \in BOOLEAN
  /\ missed \in BOOLEAN /\ overrun \in BOOLEAN /\ failed \in BOOLEAN
  /\ unread \in 0..MaxUnread /\ fails \in 0..MaxFails

\* A message in the chip is known to read() and poll(), or its interrupt is about
\* to make it so, however reads, interrupts and mode switches meet; only a read
\* that failed, and reset read_irq all the same, leaves one behind.
NoMessageStranded ==
  (ven /\ unread > 0 /\ ~missed)
    => (edge \/ (read_irq /\ \A t \in Threads : ~At(t, "clear")))

\* The regulators are on while the driver is not COLD, and off while it is, except
\* after a mode switch that could not switch on again: the close that follows
\* disables them once more.
RegulatorsBalanced ==
  (mutex = None /\ ~failed) => regs = IF state = "cold" THEN 0 ELSE 1

\* No transfer is longer than the caller's buffer or the driver's, whatever length
\* the chip claims.
FramesFit == ~overrun

\* A call waits for the mutex for ever only behind a blocking read, which sleeps
\* with it.
CallsProceed ==
  \A t \in Threads :
    (thread[t].at \in Ops /\ mutex # t)
      ~> (mutex = t \/ \E u \in Threads : At(u, "asleep"))
=============================================================================
