----------------------------- MODULE Multitouch -----------------------------
(***************************************************************************)
(* The multitouch HID driver (hid-multitouch.c): contacts of a frame, in   *)
(* one or more packets, are assigned to slots, and the slots are reported  *)
(* when the frame is complete.  The driver sees fields of packets only:    *)
(* whether a frame is over it tells from two counters.  The panel is one   *)
(* of the driver's classes, with a number of contacts per packet and the   *)
(* contact count before or behind the contacts.  Coordinates are left out. *)
(***************************************************************************)
EXTENDS Integers, Sequences, FiniteSets, FiniteSetsExt, Functions

CONSTANTS
  maxcontacts,     \* the slots
  Ids,             \* the contact identifiers of the panel, from 0
  PacketSizes      \* contacts per packet, of the panels considered

ASSUME MultitouchAssumption ==
  /\ maxcontacts \in Nat \ {0} /\ PacketSizes \subseteq Nat \ {0}
  /\ 0 .. maxcontacts \subseteq Ids /\ Ids \subseteq Nat /\ IsFiniteSet(Ids)

VARIABLES
  panel,           \* what the panel is: its class, packet size and layout
  fingers,         \* the contacts on the panel
  rest, left,      \* the contacts still to come, in the frame and in the packet
  due, count,      \* the contact count is still to come, and its value
  slots,           \* td->slots, none before mt_probe() has allocated them
  num_received, num_expected,
  reported,        \* the contact of each slot in the input layer
  frame,           \* the contacts this frame changes or leaves out, too
  emits, whole,    \* reports since the frame began, which found the slots allocated
  missed           \* mt_probe() came in the middle of a frame

device == <<panel, fingers, rest, left, due, count, frame>>
driver == <<slots, num_received, num_expected, reported>>
ghosts == <<emits, whole, missed>>
vars == <<device, driver, ghosts>>

None == -1
NoSlots == <<>>
Slots == 0 .. maxcontacts - 1
Free == [contactid |-> 0, touch_state |-> FALSE, seen |-> FALSE]

\* mt_classes[]: what makes a contact valid, how its slot is found, and whether a
\* contact that is not seen is up.  3M and eGalax are as contactid.
mt_classes ==
  { [valid |-> "tip",    slot |-> "find",      up |-> TRUE],
    [valid |-> "inrange", slot |-> "find",     up |-> FALSE],
    [valid |-> "inrange", slot |-> "minus_one", up |-> FALSE],
    [valid |-> "inrange", slot |-> "id",       up |-> FALSE],
    [valid |-> "inrange", slot |-> "number",   up |-> FALSE],
    [valid |-> "tip",    slot |-> "id",        up |-> TRUE],
    [valid |-> "tip",    slot |-> "cypress",   up |-> TRUE] }

Init ==
  /\ panel \in [class : mt_classes, size : PacketSizes, layout : {"first", "last"}]
  /\ fingers = {} /\ rest = <<>> /\ left = 0 /\ due = FALSE /\ count = 0 /\ frame = {}
  /\ slots = NoSlots /\ num_received = 0 /\ num_expected = 0
  /\ reported = [s \in Slots |-> None]
  /\ emits = 0 /\ whole = FALSE /\ missed = FALSE

(***************************************************************************)
(* The panel.                                                              *)
(***************************************************************************)

\* The identifiers a panel of this class uses.
PanelIds ==
  CASE panel.class.slot = "find" -> Ids
    [] panel.class.slot = "minus_one" -> 1..maxcontacts
    [] OTHER -> Slots

\* The orders in which a panel sends contacts; one that identifies them by number
\* sends every position, one of class Cypress sends contact 0 first.
Orders(sent) ==
  IF panel.class.slot = "number" THEN {[i \in 1..maxcontacts |-> i - 1]}
  ELSE {o \in [1 .. Cardinality(sent) -> sent] :
          /\ IsInjective(o)
          /\ panel.class.slot = "cypress" /\ 0 \in sent => o[1] = 0}

Padding(n) == [i \in 1 .. (-n % panel.size) |->
                 [contactid |-> 0, touch_state |-> FALSE, valid |-> FALSE]]

\* Fingers come and go.  A frame has the contacts that are down and those that went
\* up, some of which a panel may leave out if that means up.
SendFrame ==
  /\ left = 0 /\ rest = <<>> /\ ~due
  /\ \E now \in SUBSET PanelIds, omitted \in SUBSET fingers :
       LET sent == now \cup (fingers \ omitted)
       IN  /\ Cardinality(now) <= maxcontacts /\ sent # {}
           /\ omitted \cap now = {} /\ (omitted # {} => panel.class.up)
           /\ \E o \in Orders(sent) :
                LET contact(id) == [contactid |-> id, touch_state |-> id \in now,
                                    valid |-> id \in sent]
                IN  /\ rest' = [i \in DOMAIN o |-> contact(o[i])] \o Padding(Len(o))
                    /\ count' = Len(o)
           /\ fingers' = now /\ frame' = now \cup fingers
  /\ left' = panel.size /\ due' = TRUE
  /\ emits' = 0 /\ whole' = (slots # NoSlots)
  /\ UNCHANGED <<panel, driver, missed>>

\* Further packets of the frame have a contact count of zero.
NextPacket ==
  /\ left = 0 /\ rest # <<>> /\ ~due
  /\ left' = panel.size /\ due' = TRUE /\ count' = 0
  /\ UNCHANGED <<panel, fingers, rest, frame, driver, ghosts>>

(***************************************************************************)
(* The driver.                                                             *)
(***************************************************************************)

\* The device sends events from hid_hw_start() on; they are dropped until the
\* slots are there.
mt_probe ==
  /\ slots = NoSlots
  /\ slots' = [s \in Slots |-> Free]
  /\ missed' = (left > 0 \/ due \/ rest # <<>>)
  /\ UNCHANGED <<device, num_received, num_expected, reported, emits, whole>>

ContactCountAlways ==
  /\ due /\ due' = FALSE
  /\ left = IF panel.layout = "first" THEN panel.size ELSE 0
  /\ num_expected' = count
  /\ UNCHANGED <<panel, fingers, rest, left, count, frame, slots, num_received, reported,
                 ghosts>>

\* mt_event(HID_DG_CONTACTCOUNT): the count of a further packet is not taken.
ContactCount ==
  /\ due /\ due' = FALSE
  /\ left = IF panel.layout = "first" THEN panel.size ELSE 0
  /\ num_expected' = IF slots # NoSlots /\ count # 0 THEN count ELSE num_expected
  /\ UNCHANGED <<panel, fingers, rest, left, count, frame, slots, num_received, reported,
                 ghosts>>

\* The lowest slot with the property, or none.
Lowest(S) == IF S = {} THEN None ELSE Min(S)

FindSlotTouched(id) ==
  LET mine == {s \in Slots : slots[s].contactid = id /\ slots[s].touch_state}
      free == {s \in Slots : ~slots[s].touch_state}
  IN  IF mine # {} THEN Lowest(mine) ELSE Lowest(free)

find_slot_from_contactid(id) ==
  LET mine == {s \in Slots : slots[s].contactid = id /\ slots[s].touch_state}
      free == {s \in Slots : ~slots[s].seen /\ ~slots[s].touch_state}
  IN  IF mine # {} THEN Lowest(mine) ELSE Lowest(free)

\* Class Cypress: contact 0 behind another contact is an empty one.
cypress_compute_slot(id) == IF id # 0 \/ num_received = 0 THEN id ELSE None

mt_compute_slot(id) ==
  CASE panel.class.slot = "id" -> id
    [] panel.class.slot = "cypress" -> cypress_compute_slot(id)
    [] panel.class.slot = "number" -> num_received
    [] panel.class.slot = "minus_one" -> id - 1
    [] OTHER -> find_slot_from_contactid(id)

\* The slots after mt_complete_slot(); a contact without a slot is ignored.
mt_complete_slot(c) ==
  LET n     == mt_compute_slot(c.contactid)
      valid == IF panel.class.valid = "tip" THEN c.touch_state ELSE c.valid
  IN  IF valid /\ n \in Slots
        THEN [slots EXCEPT ![n] = [contactid |-> c.contactid,
                                   touch_state |-> c.touch_state, seen |-> TRUE]]
        ELSE slots

\* What mt_emit_event() makes of the slots.
Emitted(sl) ==
  [s \in Slots |-> [sl[s] EXCEPT
     !.touch_state = @ /\ (panel.class.up => sl[s].seen), !.seen = FALSE]]

mt_emit_event(sl) ==
  /\ slots' = Emitted(sl)
  /\ reported' = [s \in Slots |->
       IF slots'[s].touch_state THEN slots'[s].contactid ELSE None]
  /\ num_received' = 0 /\ emits' = emits + 1

\* The frame is over: all the expected contacts are there at the end of a packet.
Complete(received) == left = 1 /\ received >= num_expected

\* mt_event() for the fields of one contact.
mt_event ==
  LET done == mt_complete_slot(Head(rest))
  IN  /\ left > 0 /\ (panel.layout = "first" => ~due)
      /\ left' = left - 1 /\ rest' = Tail(rest)
      /\ IF slots = NoSlots THEN UNCHANGED <<slots, num_received, reported, emits>>
         ELSE IF Complete(num_received + 1) THEN mt_emit_event(done)
         ELSE /\ slots' = done /\ num_received' = num_received + 1
              /\ UNCHANGED <<reported, emits>>
      /\ UNCHANGED <<panel, fingers, due, count, frame, num_expected, whole, missed>>

Next == SendFrame \/ NextPacket \/ mt_probe \/ ContactCount \/ mt_event

Spec == Init /\ [][Next]_vars

(***************************************************************************)
(* Properties.                                                             *)
(***************************************************************************)

\* Every variable keeps its type.
TypeOK ==
  /\ fingers \subseteq Ids /\ left \in 0..panel.size
  /\ slots = NoSlots \/ slots \in [Slots -> [contactid : Ids, touch_state : BOOLEAN,
                                          seen : BOOLEAN]]
  /\ reported \in [Slots -> Ids \cup {None}]
  /\ num_expected \in 0 .. 2 * maxcontacts
  /\ num_received \in 0 .. 2 * maxcontacts + panel.size

FrameOver == left = 0 /\ rest = <<>> /\ ~due /\ whole

\* num_expected is that of this frame when the last contact arrives: the count
\* came first, or the frame is one packet and the test is true with any count.
Aligned == panel.layout = "first" \/ panel.size >= 2 * maxcontacts

\* Where the slot is the number of the contact in the frame, a frame whose start
\* was missed shifts the contacts, and a slot can be left behind with a touch.
Shifted == panel.class.slot = "number" /\ (missed \/ ~Aligned)

\* A frame of any number of packets is reported once, when its last contact is in,
\* and the input layer then has the fingers that are on the panel, unless the frame
\* had more contacts, up or down, than there are slots.
ReportMatches ==
  FrameOver /\ Aligned =>
    /\ emits = 1
    /\ ~Shifted /\ Cardinality(frame) <= maxcontacts
         => {reported[s] : s \in Slots} \ {None} = fingers

\* A finger stays in its slot, and a slot is reported up before it has another
\* finger, for the input layer takes a slot for a finger.
TracksFingers ==
  [][Aligned /\ ~Shifted =>
       \A s, r \in Slots :
         reported[s] # None /\ reported'[r] # None
           => (reported[s] = reported'[r] <=> s = r)]_vars
=============================================================================
