--------------------------- MODULE MultitouchProofs ---------------------------
(***************************************************************************)
(* Theorems about the multitouch driver, for any number of slots, any set  *)
(* of contact identifiers and any packet sizes: a frame is reported once,  *)
(* with the fingers that are on the panel, and a slot keeps its finger.    *)
(***************************************************************************)
EXTENDS Multitouch, SequenceTheorems, FiniteSetTheorems, FunctionTheorems, TLAPS

-----------------------------------------------------------------------------
(* The inductive invariant: types and counters                             *)

Contacts == [contactid : Ids, touch_state : BOOLEAN, valid : BOOLEAN]
SlotStates == [contactid : Ids, touch_state : BOOLEAN, seen : BOOLEAN]
Panels == [class : mt_classes, size : PacketSizes, layout : {"first", "last"}]

PanelOK ==
  /\ panel \in Panels
  /\ fingers \subseteq PanelIds /\ Cardinality(fingers) <= maxcontacts
  /\ frame \subseteq PanelIds /\ fingers \subseteq frame
  /\ rest \in Seq(Contacts) /\ left \in 0 .. panel.size
  /\ due \in BOOLEAN /\ count \in 0 .. 2 * maxcontacts

DriverOK ==
  /\ slots = NoSlots \/ slots \in [Slots -> SlotStates]
  /\ reported \in [Slots -> Ids \cup {None}]
  /\ num_expected \in 0 .. 2 * maxcontacts /\ num_received \in Nat
  /\ emits \in Nat /\ whole \in BOOLEAN /\ missed \in BOOLEAN

\* Before mt_probe() has allocated the slots no event has any effect.
Before ==
  slots = NoSlots => /\ num_received = 0 /\ num_expected = 0 /\ ~whole /\ ~missed
                     /\ \A s \in Slots : reported[s] = None

\* A report is never put off once as many contacts as any frame has are there.
Bounded == num_received < 2 * maxcontacts + (IF left > 0 THEN panel.size - left ELSE 0)

\* The contacts still to come fill whole packets, and the count is at its end.
Packets ==
  /\ \E m \in Nat : Len(rest) = left + m * panel.size
  /\ panel.layout = "first" /\ due => left = panel.size
  /\ panel.layout = "last" /\ left > 0 => due

\* The contacts of the frame: the fingers that are down are sent as such, and no
\* contact is sent twice.
Sending ==
  /\ \A i \in DOMAIN rest : rest[i].touch_state => rest[i].valid
  /\ \A i \in DOMAIN rest : rest[i].valid =>
       /\ rest[i].contactid \in frame
       /\ rest[i].touch_state <=> rest[i].contactid \in fingers
  /\ \A i, j \in DOMAIN rest :
       rest[i].valid /\ rest[j].valid /\ rest[i].contactid = rest[j].contactid => i = j

\* The count of a frame is still to come; it is reached in the last packet.
Fresh == due /\ count # 0
Announced == panel.layout = "first" /\ Fresh =>
               Len(rest) - panel.size < count /\ count <= Len(rest)

\* With the count before the contacts, the expected number is reached in the last
\* packet; a driver that has missed every count reports at the end of each packet.
CountFirst ==
  panel.layout = "first" /\ rest # <<>> =>
    /\ Fresh => num_received = 0
    /\ ~Fresh =>
         \/ /\ num_expected = 0 /\ ~whole /\ num_received <= panel.size - left
            /\ left = 0 => num_received = 0
         \/ /\ num_expected > 0
            /\ Len(rest) - panel.size < num_expected - num_received
            /\ num_expected - num_received <= Len(rest)

\* With the count behind them and a packet for every frame, any count is reached.
CountLast ==
  panel.layout = "last" /\ panel.size >= 2 * maxcontacts =>
    /\ Len(rest) = left
    /\ slots # NoSlots /\ left > 0 =>
         /\ num_received <= panel.size - left
         /\ whole => num_received = panel.size - left
         /\ ~whole => num_expected = 0

\* A frame seen from its start is reported at its end, and not before.
Counted ==
  slots # NoSlots /\ Aligned =>
    /\ rest = <<>> => num_received = 0
    /\ whole => emits = IF rest = <<>> THEN 1 ELSE 0
    /\ ~missed /\ rest # <<>> => whole

\* Where the slot depends on the number of the contact, the number is right.
Numbered ==
  whole /\ Aligned => \A i \in DOMAIN rest : rest[i].valid =>
    /\ panel.class.slot = "number" => rest[i].contactid = num_received + i - 1
    /\ panel.class.slot = "cypress" /\ rest[i].contactid = 0 => i = 1 /\ num_received = 0

CountInv == /\ PanelOK /\ DriverOK /\ Before /\ Bounded /\ Packets /\ Sending
            /\ Announced /\ CountFirst /\ CountLast /\ Counted /\ Numbered

-----------------------------------------------------------------------------
(* The inductive invariant: slots and fingers                              *)

\* The contacts of the frame that are in r.
ToCome(r) == {r[i].contactid : i \in {j \in DOMAIN r : r[j].valid}}

\* A slot in use: it has a finger, or had one in this frame.
Held(sl, s) == sl[s].touch_state \/ sl[s].seen

\* The contact of a slot, where the class decides it.
Home(s) == IF panel.class.slot = "minus_one" THEN s + 1 ELSE s

\* The slots in use have different contacts, all of this frame.  Those seen are
\* not in u, the contacts still to come, and a finger that is not seen is either
\* on the panel or still to come, unless not being seen means up.
Settled(sl, u) ==
  /\ panel.class.slot # "find" =>
       \A s \in Slots : Held(sl, s) => sl[s].contactid = Home(s)
  /\ \A s, r \in Slots :
       Held(sl, s) /\ Held(sl, r) /\ sl[s].contactid = sl[r].contactid => s = r
  /\ \A s \in Slots : Held(sl, s) => sl[s].contactid \in frame
  /\ \A s \in Slots : sl[s].seen => sl[s].contactid \notin u
  /\ \A s \in Slots : sl[s].seen /\ sl[s].touch_state => sl[s].contactid \in fingers
  /\ ~panel.class.up => \A s \in Slots :
       sl[s].touch_state /\ ~sl[s].seen => sl[s].contactid \in u \cup fingers

\* What the input layer has of a slot is what the slot was given.
Reported(sl) ==
  \A s \in Slots : reported[s] # None => Held(sl, s) /\ reported[s] = sl[s].contactid

\* Every finger has been seen or is still to come.
Found(sl, u) ==
  \A f \in fingers : f \in u \/ \E s \in Slots :
    sl[s].touch_state /\ sl[s].seen /\ sl[s].contactid = f

\* Between frames the input layer has the slots, which have fingers.
Between(sl) ==
  \A s \in Slots :
    /\ ~sl[s].seen /\ (sl[s].touch_state => sl[s].contactid \in fingers)
    /\ reported[s] = IF sl[s].touch_state THEN sl[s].contactid ELSE None
AllFound(sl) ==
  \A f \in fingers : \E s \in Slots : sl[s].touch_state /\ sl[s].contactid = f

Fits == whole /\ Cardinality(frame) <= maxcontacts

Tracked ==
  slots # NoSlots /\ Aligned /\ ~Shifted =>
    /\ Settled(slots, ToCome(rest)) /\ Reported(slots)
    /\ rest = <<>> => Between(slots) /\ (Fits => AllFound(slots))
    /\ rest # <<>> /\ Fits => Found(slots, ToCome(rest))

TouchInv == CountInv /\ Tracked

-----------------------------------------------------------------------------
(* Numbers and sequences                                                   *)

\* A set of natural numbers that is not empty has a least one.
LEMMA LeastNatural ==
  ASSUME NEW S \in SUBSET Nat, S # {}
  PROVE  \E x \in S : \A y \in S : x <= y
<1> DEFINE T == {0 .. x : x \in S}
<1>1. IsWellFoundedOn(StrictSubsetOrdering(Nat), FiniteSubsetsOf(Nat))
  BY FS_StrictSubsetOrderingWellFounded
<1>2. T \subseteq FiniteSubsetsOf(Nat) /\ T # {}
  <2>1. ASSUME NEW x \in S PROVE 0 .. x \in FiniteSubsetsOf(Nat)
    <3>1. IsFiniteSet(0 .. x)
      BY FS_Interval
    <3>2. 0 .. x \subseteq Nat
      OBVIOUS
    <3> QED
      BY <3>1, <3>2 DEF FiniteSubsetsOf
  <2>2. T # {}
    OBVIOUS
  <2> QED
    BY <2>1, <2>2
<1>3. PICK t \in T : \A u \in T : ~ (<<u, t>> \in StrictSubsetOrdering(Nat))
  BY <1>1, <1>2, WFMin
<1>4. PICK x \in S : t = 0 .. x
  BY <1>3
<1>5. ASSUME NEW y \in S PROVE x <= y
  <2> SUFFICES ASSUME y < x PROVE FALSE
    OBVIOUS
  <2>1. 0 .. y \in T /\ 0 .. y \subseteq t /\ 0 .. y # t
    BY <1>4
  <2>2. t \in SUBSET Nat /\ 0 .. y \in SUBSET Nat
    BY <1>4
  <2> QED
    BY <1>3, <2>1, <2>2 DEF StrictSubsetOrdering
<1> QED
  BY <1>5

\* Lowest() picks an element, if there is one.
LEMMA LowestIn ==
  ASSUME NEW S \in SUBSET Slots
  PROVE  /\ S # {} => Lowest(S) \in S
         /\ S = {} => Lowest(S) = None
<1>1. Slots \subseteq Nat
  BY MultitouchAssumption DEF Slots
<1>2. ASSUME S # {} PROVE Min(S) \in S
  <2>1. \E x \in S : \A y \in S : x <= y
    BY <1>1, <1>2, LeastNatural
  <2> QED
    BY <2>1 DEF Min
<1> QED
  BY <1>2 DEF Lowest

\* Multiples of a packet size.
LEMMA Multiples ==
  ASSUME NEW m \in Nat, NEW s \in Nat \ {0}
  PROVE  /\ m * s \in Nat
         /\ m = 0 => m * s = 0
         /\ m > 0 => m * s >= s /\ (m - 1) * s = m * s - s
         /\ m > 1 => m * s >= 2 * s
<1>1. m * s \in Nat
  OBVIOUS
<1>2. m > 0 => m * s >= s /\ (m - 1) * s = m * s - s
  OBVIOUS
<1>3. m > 1 => m * s >= 2 * s
  OBVIOUS
<1> QED
  BY <1>1, <1>2, <1>3

\* The padding fills the last packet.
LEMMA PaddingFills ==
  ASSUME NEW n \in Nat \ {0}, NEW s \in Nat \ {0}
  PROVE  \E k \in Nat \ {0} : (-n) % s \in 0 .. s - 1 /\ n + ((-n) % s) = k * s
<1>1. (-n) % s \in 0 .. s - 1
  OBVIOUS
<1> DEFINE q == (-n) \div s
<1>2. q \in Int /\ -n = s * q + ((-n) % s)
  OBVIOUS
<1>3. n + ((-n) % s) = (-q) * s
  BY <1>1, <1>2
<1>4. -q > 0
  BY <1>1, <1>2, <1>3
<1>5. -q \in Nat \ {0}
  BY <1>2, <1>4
<1> HIDE DEF q
<1> WITNESS -q \in Nat \ {0}
<1> QED
  BY <1>1, <1>3

\* A function on the first numbers is a sequence.
LEMMA FunctionIsSeq ==
  ASSUME NEW S, NEW n \in Nat, NEW f \in [1 .. n -> S]
  PROVE  f \in Seq(S) /\ Len(f) = n /\ DOMAIN f = 1 .. n
<1>1. f \in Seq(S)
  BY SeqDef
<1> QED
  BY <1>1, LenProperties

\* A class takes a contact that is not seen for up exactly if it goes by the tip.
LEMMA Classes ==
  ASSUME NEW c \in mt_classes
  PROVE  /\ c.slot \in {"find", "minus_one", "id", "number", "cypress"}
         /\ \/ c.up = TRUE /\ c.valid = "tip"
            \/ c.up = FALSE /\ c.valid = "inrange" /\ c.slot # "cypress"
  BY DEF mt_classes

\* A contact is one of Contacts.
LEMMA ContactType ==
  ASSUME NEW id \in Ids, NEW a \in BOOLEAN, NEW b \in BOOLEAN
  PROVE  [contactid |-> id, touch_state |-> a, valid |-> b] \in Contacts
  BY DEF Contacts

\* The identifiers, and what a class has of the panel.
LEMMA Panel ==
  ASSUME panel \in Panels
  PROVE  /\ PanelIds \subseteq Ids /\ IsFiniteSet(PanelIds) /\ PanelIds \subseteq Nat
         /\ panel.size \in Nat \ {0} /\ panel.layout \in {"first", "last"}
         /\ panel.class.slot \in {"find", "minus_one", "id", "number", "cypress"}
         /\ panel.class.up \in BOOLEAN
         /\ panel.class.up <=> panel.class.valid = "tip"
         /\ panel.class.slot = "cypress" => panel.class.up
         /\ panel.class.slot \notin {"find", "minus_one"} => PanelIds = Slots
         /\ panel.class.slot = "minus_one" => PanelIds = 1 .. maxcontacts
<1>1. panel.class \in mt_classes /\ panel.size \in Nat \ {0}
      /\ panel.layout \in {"first", "last"}
  BY MultitouchAssumption DEF Panels
<1>2. /\ panel.class.slot \in {"find", "minus_one", "id", "number", "cypress"}
      /\ panel.class.up \in BOOLEAN
      /\ panel.class.up <=> panel.class.valid = "tip"
      /\ panel.class.slot = "cypress" => panel.class.up
  BY <1>1, Classes
<1>3. /\ panel.class.slot = "find" => PanelIds = Ids
      /\ panel.class.slot \notin {"find", "minus_one"} => PanelIds = Slots
      /\ panel.class.slot = "minus_one" => PanelIds = 1 .. maxcontacts
  BY <1>2 DEF PanelIds
<1>4. PanelIds \subseteq Ids
  BY <1>2, <1>3, MultitouchAssumption DEF Slots
<1>5. IsFiniteSet(PanelIds)
  BY <1>4, FS_Subset, MultitouchAssumption
<1>6. PanelIds \subseteq Nat
  BY <1>4, MultitouchAssumption
<1> QED
  BY <1>1, <1>2, <1>3, <1>4, <1>5, <1>6

\* An order has every contact of the frame once.
LEMMA OrderFacts ==
  ASSUME panel \in Panels, NEW sent \in SUBSET PanelIds, sent # {},
         Cardinality(sent) <= 2 * maxcontacts, NEW o \in Orders(sent)
  PROVE  \E n \in 1 .. 2 * maxcontacts :
           /\ o \in [1 .. n -> PanelIds] /\ Len(o) = n /\ DOMAIN o = 1 .. n
           /\ \A i, j \in 1 .. n : o[i] = o[j] => i = j
           /\ \A id \in sent : \E i \in 1 .. n : o[i] = id
           /\ panel.class.slot = "number" => \A i \in 1 .. n : o[i] = i - 1
           /\ panel.class.slot = "cypress" => \A i \in 1 .. n : o[i] = 0 => i = 1
<1>0. maxcontacts \in Nat \ {0}
  BY MultitouchAssumption
<1>1. CASE panel.class.slot = "number"
  <2>1. PanelIds = 0 .. maxcontacts - 1
    BY <1>1, Panel DEF Slots
  <2>2. o = [i \in 1 .. maxcontacts |-> i - 1]
    BY <1>1 DEF Orders
  <2>3. o \in [1 .. maxcontacts -> PanelIds]
    BY <2>1, <2>2, <1>0
  <2>4. Len(o) = maxcontacts
    BY <2>3, <1>0, FunctionIsSeq
  <2>5. ASSUME NEW id \in sent PROVE id + 1 \in 1 .. maxcontacts /\ o[id + 1] = id
    BY <2>1, <2>2, <1>0
  <2>6. maxcontacts \in 1 .. 2 * maxcontacts
    BY <1>0
  <2>7. \A i, j \in 1 .. maxcontacts : o[i] = o[j] => i = j
    BY <2>2, <1>0
  <2>8. \A i \in 1 .. maxcontacts : o[i] = i - 1
    BY <2>2
  <2> WITNESS maxcontacts \in 1 .. 2 * maxcontacts
  <2> QED
    BY <1>1, <2>3, <2>4, <2>5, <2>7, <2>8
<1>2. CASE panel.class.slot # "number"
  <2> DEFINE n == Cardinality(sent)
  <2>1. IsFiniteSet(sent)
    BY Panel, FS_Subset
  <2>2. n \in Nat /\ n # 0
    BY <2>1, FS_CardinalityType, FS_EmptySet
  <2>3. /\ o \in [1 .. n -> sent] /\ IsInjective(o)
        /\ panel.class.slot = "cypress" /\ 0 \in sent => o[1] = 0
    BY <1>2 DEF Orders
  <2>4. Len(o) = n /\ DOMAIN o = 1 .. n
    BY <2>2, <2>3, FunctionIsSeq
  <2>5. o \in Injection(1 .. n, sent)
    BY <2>3 DEF Injection
  <2>6. Cardinality(1 .. n) = n
    BY <2>2, FS_Interval
  <2>7. o \in Surjection(1 .. n, sent)
    BY <2>1, <2>5, <2>6, FS_Injection
  <2>8. \A id \in sent : \E i \in 1 .. n : o[i] = id
    BY <2>7 DEF Surjection
  <2>9. \A i, j \in 1 .. n : o[i] = o[j] => i = j
    BY <2>3, <2>4 DEF IsInjective
  <2>10. ASSUME panel.class.slot = "cypress", NEW i \in 1 .. n, o[i] = 0 PROVE i = 1
    <3>1. 0 \in sent /\ 1 \in 1 .. n
      BY <2>2, <2>3, <2>10
    <3> QED
      BY <3>1, <2>3, <2>9, <2>10
  <2>11. n \in 1 .. 2 * maxcontacts
    BY <1>0, <2>2
  <2>12. o \in [1 .. n -> PanelIds]
    BY <2>3
  <2> HIDE DEF n
  <2> WITNESS n \in 1 .. 2 * maxcontacts
  <2> QED
    BY <1>2, <2>4, <2>8, <2>9, <2>10, <2>12
<1> QED
  BY <1>1, <1>2

\* What SendFrame puts on its way.
LEMMA FrameSent ==
  ASSUME PanelOK, SendFrame
  PROVE  /\ count' \in 1 .. 2 * maxcontacts /\ rest' \in Seq(Contacts)
         /\ \E k \in Nat \ {0} : Len(rest') = k * panel.size
         /\ Len(rest') - panel.size < count' /\ count' <= Len(rest')
         /\ fingers' \subseteq PanelIds /\ Cardinality(fingers') <= maxcontacts
         /\ frame' \subseteq PanelIds /\ frame' = fingers \cup fingers'
         /\ Sending'
         /\ \A i \in DOMAIN rest' : rest'[i].valid =>
              /\ panel.class.slot = "number" => rest'[i].contactid = i - 1
              /\ panel.class.slot = "cypress" /\ rest'[i].contactid = 0 => i = 1
         /\ fingers' \subseteq ToCome(rest')
         /\ ~panel.class.up => fingers \subseteq ToCome(rest')
<1>0. maxcontacts \in Nat \ {0} /\ panel \in Panels /\ fingers \subseteq PanelIds
      /\ Cardinality(fingers) <= maxcontacts
  BY MultitouchAssumption DEF PanelOK
<1>1. PICK now \in SUBSET PanelIds, omitted \in SUBSET fingers :
        LET sent == now \cup (fingers \ omitted)
        IN  /\ Cardinality(now) <= maxcontacts /\ sent # {}
            /\ omitted \cap now = {} /\ (omitted # {} => panel.class.up)
            /\ \E o \in Orders(sent) :
                 LET contact(id) == [contactid |-> id, touch_state |-> id \in now,
                                     valid |-> id \in sent]
                 IN  /\ rest' = [i \in DOMAIN o |-> contact(o[i])] \o Padding(Len(o))
                     /\ count' = Len(o)
            /\ fingers' = now /\ frame' = now \cup fingers
  BY DEF SendFrame
<1> DEFINE sent == now \cup (fingers \ omitted)
           contact(id) == [contactid |-> id, touch_state |-> id \in now,
                           valid |-> id \in sent]
<1>2. PICK o \in Orders(sent) :
        /\ rest' = [i \in DOMAIN o |-> contact(o[i])] \o Padding(Len(o))
        /\ count' = Len(o)
  BY <1>1
<1>3. sent \subseteq PanelIds /\ sent # {} /\ Cardinality(sent) <= 2 * maxcontacts
  <2>1. sent \subseteq PanelIds /\ sent # {}
    BY <1>0, <1>1
  <2>2. IsFiniteSet(now) /\ IsFiniteSet(fingers)
    BY <1>0, Panel, FS_Subset
  <2>3. IsFiniteSet(fingers \ omitted) /\ Cardinality(fingers \ omitted) <= Cardinality(fingers)
    BY <2>2, FS_Subset
  <2>4. Cardinality(sent) = Cardinality(now) + Cardinality(fingers \ omitted)
                              - Cardinality(now \cap (fingers \ omitted))
    BY <2>2, <2>3, FS_Union
  <2>5. IsFiniteSet(now \cap (fingers \ omitted))
    BY <2>2, FS_Intersection
  <2>6. /\ Cardinality(now) \in Nat /\ Cardinality(fingers) \in Nat
        /\ Cardinality(fingers \ omitted) \in Nat
        /\ Cardinality(now \cap (fingers \ omitted)) \in Nat
    BY <2>2, <2>3, <2>5, FS_CardinalityType
  <2>7. Cardinality(now) <= maxcontacts
    BY <1>1
  <2> HIDE DEF sent
  <2> QED
    BY <2>1, <2>3, <2>4, <2>6, <2>7, <1>0
<1>4. PICK n \in 1 .. 2 * maxcontacts :
           /\ o \in [1 .. n -> PanelIds] /\ Len(o) = n /\ DOMAIN o = 1 .. n
           /\ \A i, j \in 1 .. n : o[i] = o[j] => i = j
           /\ \A id \in sent : \E i \in 1 .. n : o[i] = id
           /\ panel.class.slot = "number" => \A i \in 1 .. n : o[i] = i - 1
           /\ panel.class.slot = "cypress" => \A i \in 1 .. n : o[i] = 0 => i = 1
  <2> HIDE DEF sent
  <2> QED
    BY <1>0, <1>3, OrderFacts
<1> DEFINE pad == (-n) % panel.size
           t == [i \in 1 .. n |-> contact(o[i])]
           p == [i \in 1 .. pad |->
                  [contactid |-> 0, touch_state |-> FALSE, valid |-> FALSE]]
<1>5. panel.size \in Nat \ {0} /\ PanelIds \subseteq Ids /\ n \in Nat \ {0}
  BY <1>0, Panel
<1>6. PICK k \in Nat \ {0} : pad \in 0 .. panel.size - 1 /\ n + pad = k * panel.size
  BY <1>5, PaddingFills
<1> HIDE DEF pad
<1>7. t \in Seq(Contacts) /\ Len(t) = n
  <2>1. \A i \in 1 .. n : contact(o[i]) \in Contacts
    <3> SUFFICES ASSUME NEW i \in 1 .. n PROVE contact(o[i]) \in Contacts
      OBVIOUS
    <3>1. o[i] \in Ids
      BY <1>4, <1>5
    <3>2. (o[i] \in now) \in BOOLEAN /\ (o[i] \in sent) \in BOOLEAN
      OBVIOUS
    <3> QED
      BY <3>1, <3>2, ContactType
  <2>2. t \in [1 .. n -> Contacts]
    BY <2>1
  <2> HIDE DEF t
  <2> QED
    BY <2>2, <1>5, FunctionIsSeq
<1>8. p \in Seq(Contacts) /\ Len(p) = pad
  <2>1. 0 \in Ids
    BY MultitouchAssumption
  <2>2. p \in [1 .. pad -> Contacts]
    BY <2>1 DEF Contacts
  <2> HIDE DEF p
  <2> QED
    BY <2>2, <1>5, <1>6, FunctionIsSeq
<1>9. rest' = t \o p
  BY <1>2, <1>4 DEF Padding, pad
<1>10. /\ rest' \in Seq(Contacts) /\ Len(rest') = n + pad
       /\ \A i \in 1 .. n + pad : rest'[i] = IF i <= n THEN t[i] ELSE p[i - n]
  <2> HIDE DEF t, p
  <2> QED
    BY <1>7, <1>8, <1>9, ConcatProperties, ZenonT(40)
<1>11. DOMAIN rest' = 1 .. n + pad
  BY <1>10, LenProperties
<1>12. \A i \in 1 .. n : i \in DOMAIN rest' /\ rest'[i] = contact(o[i])
  BY <1>5, <1>6, <1>10, <1>11
<1>13. \A i \in DOMAIN rest' : i \notin 1 .. n => ~rest'[i].valid /\ ~rest'[i].touch_state
  <2> SUFFICES ASSUME NEW i \in DOMAIN rest', i \notin 1 .. n
               PROVE  ~rest'[i].valid /\ ~rest'[i].touch_state
    OBVIOUS
  <2>1. i - n \in 1 .. pad /\ rest'[i] = p[i - n]
    BY <1>5, <1>6, <1>10, <1>11
  <2> QED
    BY <2>1
<1>14. \A i \in 1 .. n : /\ rest'[i].contactid = o[i]
                         /\ rest'[i].touch_state <=> o[i] \in now
                         /\ rest'[i].valid <=> o[i] \in sent
  <2> SUFFICES ASSUME NEW i \in 1 .. n
               PROVE  /\ rest'[i].contactid = o[i]
                      /\ rest'[i].touch_state <=> o[i] \in now
                      /\ rest'[i].valid <=> o[i] \in sent
    OBVIOUS
  <2>1. rest'[i] = contact(o[i])
    BY <1>12
  <2>2. contact(o[i]).contactid = o[i]
    BY Zenon
  <2>3. contact(o[i]).touch_state = (o[i] \in now)
    BY Zenon
  <2>4. contact(o[i]).valid = (o[i] \in sent)
    BY Zenon
  <2> HIDE DEF contact, sent
  <2> QED
    BY <2>1, <2>2, <2>3, <2>4, Zenon
<1> HIDE DEF t, p, contact
<1>15. fingers' = now /\ frame' = now \cup fingers /\ Cardinality(now) <= maxcontacts
       /\ (~panel.class.up => omitted = {})
  BY <1>1
<1>16. Sending'
  <2>1. ASSUME NEW i \in DOMAIN rest', rest'[i].touch_state PROVE rest'[i].valid
    BY <1>13, <1>14, <2>1
  <2>2. ASSUME NEW i \in DOMAIN rest', rest'[i].valid
        PROVE  /\ rest'[i].contactid \in frame'
               /\ rest'[i].touch_state <=> rest'[i].contactid \in fingers'
    BY <1>13, <1>14, <1>15, <2>2
  <2>3. ASSUME NEW i \in DOMAIN rest', NEW j \in DOMAIN rest', rest'[i].valid, rest'[j].valid,
               rest'[i].contactid = rest'[j].contactid
        PROVE  i = j
    BY <1>4, <1>13, <1>14, <2>3
  <2> QED
    BY <2>1, <2>2, <2>3 DEF Sending
<1>17. \A i \in DOMAIN rest' : rest'[i].valid =>
         /\ panel.class.slot = "number" => rest'[i].contactid = i - 1
         /\ panel.class.slot = "cypress" /\ rest'[i].contactid = 0 => i = 1
  BY <1>4, <1>13, <1>14
<1>18. sent \subseteq ToCome(rest')
  <2> SUFFICES ASSUME NEW id \in sent PROVE id \in ToCome(rest')
    OBVIOUS
  <2>1. PICK i \in 1 .. n : o[i] = id
    BY <1>4
  <2>2. i \in DOMAIN rest' /\ rest'[i].valid /\ rest'[i].contactid = id
    BY <1>12, <1>14, <2>1
  <2> QED
    BY <2>2 DEF ToCome
<1>19. fingers' \subseteq ToCome(rest') /\ (~panel.class.up => fingers \subseteq ToCome(rest'))
  BY <1>15, <1>18
<1>20. count' \in 1 .. 2 * maxcontacts /\ count' = n
  BY <1>2, <1>4
<1>21. Len(rest') = k * panel.size /\ Len(rest') - panel.size < n /\ n <= Len(rest')
  BY <1>5, <1>6, <1>10
<1> QED
  BY <1>0, <1>6, <1>10, <1>15, <1>16, <1>17, <1>19, <1>20, <1>21

-----------------------------------------------------------------------------
(* What one contact does                                                   *)

\* The slots are none, or one for each number.
LEMMA SlotsExist ==
  ASSUME NEW sl \in [Slots -> SlotStates]
  PROVE  sl # NoSlots
<1>1. 0 \in DOMAIN sl
  BY MultitouchAssumption DEF Slots
<1>2. DOMAIN NoSlots = {}
  BY DEF NoSlots
<1> QED
  BY <1>1, <1>2

\* Only the empty sequence has no elements.
LEMMA EmptyIff ==
  ASSUME NEW S, NEW q \in Seq(S)
  PROVE  q = <<>> <=> Len(q) = 0
  BY EmptySeq

\* The contacts still to come, after the next one.
LEMMA EventRest ==
  ASSUME PanelOK, Packets, left > 0
  PROVE  /\ rest # <<>> /\ Len(rest) \in Nat \ {0} /\ DOMAIN rest = 1 .. Len(rest)
         /\ Head(rest) = rest[1] /\ Head(rest) \in Contacts
         /\ Tail(rest) \in Seq(Contacts) /\ Len(Tail(rest)) = Len(rest) - 1
         /\ DOMAIN Tail(rest) = 1 .. Len(rest) - 1
         /\ \A i \in DOMAIN Tail(rest) : i + 1 \in DOMAIN rest /\ Tail(rest)[i] = rest[i + 1]
         /\ Tail(rest) = <<>> <=> Len(rest) = 1
<1>1. rest \in Seq(Contacts) /\ left \in Nat /\ panel.size \in Nat \ {0}
  BY Panel DEF PanelOK
<1>2. PICK m \in Nat : Len(rest) = left + m * panel.size
  BY DEF Packets
<1>3. m * panel.size \in Nat
  BY <1>1, Multiples
<1>4. Len(rest) \in Nat \ {0}
  BY <1>1, <1>2, <1>3
<1>5. rest # <<>> /\ DOMAIN rest = 1 .. Len(rest)
  BY <1>1, <1>4, LenProperties, EmptySeq
<1>6. /\ Head(rest) \in Contacts /\ Tail(rest) \in Seq(Contacts)
      /\ Len(Tail(rest)) = Len(rest) - 1
      /\ \A i \in 1 .. Len(Tail(rest)) : Tail(rest)[i] = rest[i + 1]
  BY <1>1, <1>5, HeadTailProperties
<1>7. DOMAIN Tail(rest) = 1 .. Len(rest) - 1
  BY <1>6, LenProperties
<1>8. Tail(rest) = <<>> <=> Len(rest) = 1
  BY <1>4, <1>6, EmptyIff
<1>9. Head(rest) = rest[1]
  BY <1>1, <1>5
<1> QED
  BY <1>4, <1>5, <1>6, <1>7, <1>8, <1>9

\* A slot keeps its type.
LEMMA SlotType ==
  ASSUME NEW id \in Ids, NEW a \in BOOLEAN, NEW b \in BOOLEAN
  PROVE  [contactid |-> id, touch_state |-> a, seen |-> b] \in SlotStates
  BY DEF SlotStates

LEMMA CompleteType ==
  ASSUME slots \in [Slots -> SlotStates], NEW c \in Contacts
  PROVE  mt_complete_slot(c) \in [Slots -> SlotStates]
<1>1. [contactid |-> c.contactid, touch_state |-> c.touch_state, seen |-> TRUE] \in SlotStates
  BY SlotType DEF Contacts
<1> QED
  BY <1>1 DEF mt_complete_slot

LEMMA SlotExcept ==
  ASSUME NEW r \in SlotStates, NEW x \in BOOLEAN
  PROVE  LET e == [r EXCEPT !.touch_state = x, !.seen = FALSE] IN
         e \in SlotStates /\ e.contactid = r.contactid /\ e.seen = FALSE /\ e.touch_state = x
  BY DEF SlotStates

\* mt_emit_event() takes back seen, and the touch of what was not seen.
LEMMA EmittedSlots ==
  ASSUME NEW sl \in [Slots -> SlotStates], panel \in Panels
  PROVE  /\ Emitted(sl) \in [Slots -> SlotStates]
         /\ \A s \in Slots :
              /\ Emitted(sl)[s].contactid = sl[s].contactid
              /\ Emitted(sl)[s].seen = FALSE
              /\ Emitted(sl)[s].touch_state
                   <=> sl[s].touch_state /\ (panel.class.up => sl[s].seen)
<1> DEFINE x(s) == sl[s].touch_state /\ (panel.class.up => sl[s].seen)
           e(s) == [sl[s] EXCEPT !.touch_state = x(s), !.seen = FALSE]
<1>1. \A s \in Slots : x(s) \in BOOLEAN /\ sl[s] \in SlotStates
  OBVIOUS
<1>2. Emitted(sl) = [s \in Slots |-> e(s)]
  BY Zenon DEF Emitted
<1>3. ASSUME NEW s \in Slots
      PROVE  /\ e(s) \in SlotStates /\ e(s).contactid = sl[s].contactid
             /\ e(s).seen = FALSE /\ e(s).touch_state = x(s)
  <2> DEFINE r == sl[s]
             y == x(s)
  <2>1. r \in SlotStates /\ y \in BOOLEAN
    BY <1>1
  <2> HIDE DEF r, y
  <2>2. LET f == [r EXCEPT !.touch_state = y, !.seen = FALSE] IN
        f \in SlotStates /\ f.contactid = r.contactid /\ f.seen = FALSE /\ f.touch_state = y
    BY <2>1, SlotExcept
  <2> QED
    BY <2>2, Zenon DEF r, y
<1> HIDE DEF e
<1>4. Emitted(sl) \in [Slots -> SlotStates] /\ \A s \in Slots : Emitted(sl)[s] = e(s)
  BY <1>2, <1>3
<1>5. \A s \in Slots : e(s).touch_state <=> x(s)
  <2> HIDE DEF x
  <2> QED
    BY <1>3, Zenon
<1> QED
  BY <1>3, <1>4, <1>5, Zenon

\* The three things that mt_event() can do with a contact.
LEMMA EventCases ==
  ASSUME CountInv, mt_event
  PROVE  LET done == mt_complete_slot(Head(rest)) IN
         /\ left > 0 /\ left' = left - 1 /\ rest' = Tail(rest)
         /\ panel' = panel /\ fingers' = fingers /\ due' = due /\ count' = count
         /\ frame' = frame /\ num_expected' = num_expected /\ whole' = whole
         /\ missed' = missed
         /\ \/ /\ slots = NoSlots
               /\ slots' = slots /\ num_received' = num_received
               /\ reported' = reported /\ emits' = emits
            \/ /\ slots \in [Slots -> SlotStates] /\ done \in [Slots -> SlotStates]
               /\ Complete(num_received + 1)
               /\ slots' = Emitted(done) /\ slots' \in [Slots -> SlotStates]
               /\ reported' = [s \in Slots |->
                    IF slots'[s].touch_state THEN slots'[s].contactid ELSE None]
               /\ num_received' = 0 /\ emits' = emits + 1
            \/ /\ slots \in [Slots -> SlotStates] /\ done \in [Slots -> SlotStates]
               /\ ~Complete(num_received + 1)
               /\ slots' = done /\ num_received' = num_received + 1
               /\ reported' = reported /\ emits' = emits
<1> USE DEF CountInv
<1> DEFINE done == mt_complete_slot(Head(rest))
<1>1. slots # NoSlots => slots \in [Slots -> SlotStates]
  BY DEF DriverOK
<1>2. left > 0
  BY DEF mt_event
<1>3. Head(rest) \in Contacts
  BY <1>2, EventRest
<1>4. slots # NoSlots => done \in [Slots -> SlotStates]
  BY <1>1, <1>3, CompleteType
<1>5. panel \in Panels
  BY DEF PanelOK
<1>6. /\ left' = left - 1 /\ rest' = Tail(rest)
      /\ panel' = panel /\ fingers' = fingers /\ due' = due /\ count' = count
      /\ frame' = frame /\ num_expected' = num_expected /\ whole' = whole
      /\ missed' = missed
  BY DEF mt_event
<1>7. CASE slots = NoSlots
  BY <1>2, <1>6, <1>7 DEF mt_event
<1>8. CASE slots # NoSlots /\ Complete(num_received + 1)
  <2>1. mt_emit_event(done)
    BY <1>8 DEF mt_event
  <2> HIDE DEF done
  <2>2. Emitted(done) \in [Slots -> SlotStates]
    BY <1>4, <1>5, <1>8, EmittedSlots
  <2> QED
    BY <1>1, <1>2, <1>4, <1>6, <1>8, <2>1, <2>2 DEF mt_emit_event, done
<1>9. CASE slots # NoSlots /\ ~Complete(num_received + 1)
  BY <1>1, <1>2, <1>4, <1>6, <1>9 DEF mt_event
<1> QED
  BY <1>7, <1>8, <1>9

\* The last contact of a frame completes it; no earlier one does, if the driver
\* has seen the frame from its start.
LEMMA EventEnds ==
  ASSUME CountInv, left > 0, panel.layout = "first" => ~due, slots # NoSlots, Aligned
  PROVE  /\ Len(rest) = 1 => Complete(num_received + 1)
         /\ whole /\ Len(rest) # 1 => ~Complete(num_received + 1)
<1> USE DEF CountInv
<1>1. /\ panel.size \in Nat \ {0} /\ left \in 0 .. panel.size /\ maxcontacts \in Nat \ {0}
      /\ num_received \in Nat /\ num_expected \in Nat /\ num_expected <= 2 * maxcontacts
      /\ panel.layout \in {"first", "last"}
  BY Panel, MultitouchAssumption DEF PanelOK, DriverOK
<1>2. PICK m \in Nat : Len(rest) = left + m * panel.size
  BY DEF Packets
<1>3. m * panel.size \in Nat /\ (m = 0 \/ m * panel.size >= panel.size)
      /\ (m = 0 => m * panel.size = 0)
  BY <1>1, Multiples
<1>4. rest # <<>> /\ Len(rest) \in Nat \ {0}
  BY EventRest
<1>5. CASE panel.layout = "first"
  <2>1. ~Fresh
    BY <1>5 DEF Fresh
  <2>2. \/ /\ num_expected = 0 /\ ~whole
        \/ /\ num_expected > 0
           /\ Len(rest) - panel.size < num_expected - num_received
           /\ num_expected - num_received <= Len(rest)
    BY <1>4, <1>5, <2>1 DEF CountFirst
  <2> QED
    BY <1>1, <1>2, <1>3, <1>4, <2>2 DEF Complete
<1>6. CASE panel.layout = "last"
  <2>1. panel.size >= 2 * maxcontacts
    BY <1>6 DEF Aligned
  <2>2. /\ Len(rest) = left
        /\ num_received <= panel.size - left
        /\ whole => num_received = panel.size - left
        /\ ~whole => num_expected = 0
    BY <1>6, <2>1 DEF CountLast
  <2>3. whole \in BOOLEAN
    BY DEF DriverOK
  <2> QED
    BY <1>1, <1>4, <2>1, <2>2, <2>3 DEF Complete
<1> QED
  BY <1>1, <1>5, <1>6

-----------------------------------------------------------------------------
(* The types and the counters are kept                                     *)

LEMMA CountInit == Init => CountInv
<1> SUFFICES ASSUME Init PROVE CountInv
  OBVIOUS
<1>1. /\ panel \in Panels /\ fingers = {} /\ rest = <<>> /\ left = 0 /\ due = FALSE
      /\ count = 0 /\ frame = {} /\ slots = NoSlots /\ num_received = 0 /\ num_expected = 0
      /\ reported = [s \in Slots |-> None] /\ emits = 0 /\ whole = FALSE /\ missed = FALSE
  BY DEF Init, Panels
<1>2. maxcontacts \in Nat \ {0} /\ panel.size \in Nat \ {0}
  BY <1>1, Panel, MultitouchAssumption
<1>3. Len(rest) = 0 /\ rest \in Seq(Contacts) /\ DOMAIN rest = {}
  BY <1>1
<1>4. PanelOK
  <2>1. Cardinality({}) = 0
    BY FS_EmptySet
  <2>2. Cardinality(fingers) <= maxcontacts
    BY <1>1, <1>2, <2>1
  <2>3. left \in 0 .. panel.size /\ count \in 0 .. 2 * maxcontacts
    BY <1>1, <1>2
  <2>4. due \in BOOLEAN
    BY <1>1
  <2> QED
    BY <1>1, <1>3, <2>2, <2>3, <2>4 DEF PanelOK
<1>5. DriverOK
  <2>1. num_received \in Nat /\ num_expected \in 0 .. 2 * maxcontacts /\ emits \in Nat
    BY <1>1, <1>2
  <2>2. whole \in BOOLEAN /\ missed \in BOOLEAN
    BY <1>1
  <2>3. reported \in [Slots -> Ids \cup {None}]
    BY <1>1
  <2> QED
    BY <1>1, <2>1, <2>2, <2>3 DEF DriverOK
<1>6. Before /\ Bounded /\ Sending /\ Announced /\ CountFirst /\ Counted /\ Numbered
  BY <1>1, <1>2, <1>3 DEF Before, Bounded, Sending, Announced, Fresh, CountFirst, Counted,
                           Numbered
<1>7. Packets
  <2>1. Len(rest) = left + 0 * panel.size
    BY <1>1, <1>2, <1>3
  <2> QED
    BY <1>1, <2>1 DEF Packets
<1>8. CountLast
  BY <1>1, <1>3 DEF CountLast
<1> QED
  BY <1>4, <1>5, <1>6, <1>7, <1>8 DEF CountInv

LEMMA CountSend ==
  ASSUME CountInv, SendFrame
  PROVE  CountInv'
<1> USE DEF CountInv
<1>1. /\ count' \in 1 .. 2 * maxcontacts /\ rest' \in Seq(Contacts)
      /\ Len(rest') - panel.size < count' /\ count' <= Len(rest')
      /\ fingers' \subseteq PanelIds /\ Cardinality(fingers') <= maxcontacts
      /\ frame' \subseteq PanelIds /\ frame' = fingers \cup fingers'
      /\ Sending'
      /\ \A i \in DOMAIN rest' : rest'[i].valid =>
           /\ panel.class.slot = "number" => rest'[i].contactid = i - 1
           /\ panel.class.slot = "cypress" /\ rest'[i].contactid = 0 => i = 1
  BY FrameSent
<1>2. PICK k \in Nat \ {0} : Len(rest') = k * panel.size
  BY FrameSent
<1>3. /\ left = 0 /\ rest = <<>> /\ ~due /\ left' = panel.size /\ due' = TRUE /\ emits' = 0
      /\ whole' = (slots # NoSlots) /\ panel' = panel /\ slots' = slots
      /\ num_received' = num_received /\ num_expected' = num_expected
      /\ reported' = reported /\ missed' = missed
  BY DEF SendFrame, driver
<1>4. /\ panel.size \in Nat \ {0} /\ maxcontacts \in Nat \ {0} /\ panel \in Panels
      /\ panel.layout \in {"first", "last"} /\ num_received \in Nat
  BY Panel, MultitouchAssumption DEF PanelOK, DriverOK
<1>5. /\ k * panel.size \in Nat /\ k * panel.size >= panel.size
      /\ (k - 1) * panel.size = k * panel.size - panel.size /\ k - 1 \in Nat
      /\ k > 1 => k * panel.size >= 2 * panel.size
  BY <1>4, Multiples
<1>6. rest' # <<>>
  BY <1>1, <1>2, <1>4, <1>5, EmptySeq
<1>7. Aligned => num_received = 0
  BY <1>3 DEF Before, Counted
<1>8. PanelIds' = PanelIds /\ Aligned' = Aligned
  BY <1>3 DEF PanelIds, Aligned
<1>9. PanelOK'
  BY <1>1, <1>3, <1>4, <1>8 DEF PanelOK
<1>10. DriverOK'
  BY <1>3 DEF DriverOK
<1>11. Before'
  BY <1>3 DEF Before
<1>12. Bounded'
  BY <1>3, <1>4 DEF Bounded
<1>13. Packets'
  <2>1. Len(rest') = left' + (k - 1) * panel.size
    BY <1>2, <1>3, <1>4, <1>5
  <2> QED
    BY <1>3, <1>5, <2>1 DEF Packets
<1>14. Announced'
  BY <1>1, <1>3 DEF Announced
<1>15. CountFirst'
  <2>1. ASSUME panel.layout = "first" PROVE Fresh' /\ num_received' = 0
    BY <1>1, <1>3, <1>7, <2>1 DEF Fresh, Aligned
  <2> QED
    BY <1>3, <2>1 DEF CountFirst
<1>16. CountLast'
  <2> SUFFICES ASSUME panel.layout = "last", panel.size >= 2 * maxcontacts
               PROVE  /\ Len(rest') = left'
                      /\ slots # NoSlots => num_received = 0 /\ whole'
    BY <1>3, <1>4 DEF CountLast
  <2>1. count' <= panel.size /\ Len(rest') < 2 * panel.size
    BY <1>1, <1>2, <1>4, <1>5
  <2>2. k = 1
    BY <1>2, <1>4, <1>5, <2>1
  <2>3. Len(rest') = panel.size
    BY <1>2, <1>4, <2>2
  <2> QED
    BY <1>3, <1>7, <2>3 DEF Aligned
<1>17. Counted'
  BY <1>3, <1>6 DEF Counted
<1>18. Numbered'
  <2> SUFFICES ASSUME Aligned, NEW i \in DOMAIN rest', rest'[i].valid
               PROVE  /\ panel.class.slot = "number" => rest'[i].contactid = num_received + i - 1
                      /\ panel.class.slot = "cypress" /\ rest'[i].contactid = 0
                           => i = 1 /\ num_received = 0
    BY <1>3, <1>8 DEF Numbered
  <2>1. i \in Nat
    BY <1>1, LenProperties
  <2> QED
    BY <1>1, <1>7, <2>1
<1> QED
  BY <1>1, <1>9, <1>10, <1>11, <1>12, <1>13, <1>14, <1>15, <1>16, <1>17, <1>18

LEMMA CountPacket ==
  ASSUME CountInv, NextPacket
  PROVE  CountInv'
<1> USE DEF CountInv
<1>1. /\ left = 0 /\ rest # <<>> /\ ~due /\ left' = panel.size /\ due' = TRUE /\ count' = 0
      /\ panel' = panel /\ fingers' = fingers /\ rest' = rest /\ frame' = frame
      /\ slots' = slots /\ num_received' = num_received /\ num_expected' = num_expected
      /\ reported' = reported /\ emits' = emits /\ whole' = whole /\ missed' = missed
  BY DEF NextPacket, driver, ghosts
<1>2. /\ panel.size \in Nat \ {0} /\ maxcontacts \in Nat \ {0} /\ panel \in Panels
      /\ num_received \in Nat /\ num_expected \in Nat /\ rest \in Seq(Contacts)
  BY Panel, MultitouchAssumption DEF PanelOK, DriverOK
<1>3. PICK m \in Nat : Len(rest) = left + m * panel.size
  BY DEF Packets
<1>4. Len(rest) \in Nat \ {0}
  BY <1>1, <1>2, EmptySeq
<1>5. m > 0 /\ m * panel.size \in Nat /\ (m - 1) * panel.size = m * panel.size - panel.size
  BY <1>1, <1>2, <1>3, <1>4, Multiples
<1>6. ~Fresh /\ ~Fresh'
  BY <1>1 DEF Fresh
<1>7. PanelIds' = PanelIds /\ Aligned' = Aligned
  BY <1>1 DEF PanelIds, Aligned
<1>8. PanelOK'
  BY <1>1, <1>2, <1>7 DEF PanelOK
<1>9. DriverOK' /\ Before'
  BY <1>1 DEF DriverOK, Before
<1>10. Bounded'
  BY <1>1, <1>2 DEF Bounded
<1>11. Packets'
  <2>1. Len(rest') = left' + (m - 1) * panel.size /\ m - 1 \in Nat
    BY <1>1, <1>2, <1>3, <1>5
  <2> QED
    BY <1>1, <2>1 DEF Packets
<1>12. Sending' /\ Announced' /\ Numbered'
  BY <1>1, <1>6, <1>7 DEF Sending, Announced, Numbered
<1>13. CountFirst'
  BY <1>1, <1>2, <1>6 DEF CountFirst
<1>14. CountLast'
  BY <1>1, <1>2, <1>4 DEF CountLast
<1>15. Counted'
  BY <1>1, <1>7 DEF Counted
<1> QED
  BY <1>8, <1>9, <1>10, <1>11, <1>12, <1>13, <1>14, <1>15

LEMMA CountProbe ==
  ASSUME CountInv, mt_probe
  PROVE  CountInv'
<1> USE DEF CountInv
<1>1. /\ slots = NoSlots /\ slots' = [s \in Slots |-> Free]
      /\ missed' = (left > 0 \/ due \/ rest # <<>>)
      /\ panel' = panel /\ fingers' = fingers /\ rest' = rest /\ left' = left /\ due' = due
      /\ count' = count /\ frame' = frame /\ num_received' = num_received
      /\ num_expected' = num_expected /\ reported' = reported /\ emits' = emits
      /\ whole' = whole
  BY DEF mt_probe, device
<1>2. num_received = 0 /\ num_expected = 0 /\ ~whole
  BY <1>1 DEF Before
<1>3. slots' \in [Slots -> SlotStates]
  <2>1. Free \in SlotStates
    <3>1. 0 \in Ids /\ FALSE \in BOOLEAN
      BY MultitouchAssumption
    <3> QED
      BY <3>1, SlotType DEF Free
  <2> QED
    BY <1>1, <2>1
<1>4. slots' # NoSlots
  BY <1>3, SlotsExist
<1>5. /\ panel.size \in Nat \ {0} /\ maxcontacts \in Nat \ {0} /\ left \in 0 .. panel.size
  BY Panel, MultitouchAssumption DEF PanelOK
<1>6. PanelIds' = PanelIds /\ Aligned' = Aligned
  BY <1>1 DEF PanelIds, Aligned
<1>7. PanelOK'
  BY <1>1, <1>6 DEF PanelOK
<1>8. DriverOK' /\ Before'
  BY <1>1, <1>3, <1>4 DEF DriverOK, Before
<1>9. Bounded' /\ Packets' /\ Sending' /\ Announced'
  BY <1>1 DEF Bounded, Packets, Sending, Announced, Fresh
<1>10. CountFirst' /\ CountLast'
  BY <1>1, <1>2, <1>5 DEF CountFirst, CountLast, Fresh
<1>11. Counted' /\ Numbered'
  BY <1>1, <1>2 DEF Counted, Numbered
<1> QED
  BY <1>7, <1>8, <1>9, <1>10, <1>11

LEMMA CountCount ==
  ASSUME CountInv, ContactCount
  PROVE  CountInv'
<1> USE DEF CountInv
<1>1. /\ due /\ due' = FALSE /\ left = (IF panel.layout = "first" THEN panel.size ELSE 0)
      /\ num_expected' = (IF slots # NoSlots /\ count # 0 THEN count ELSE num_expected)
      /\ panel' = panel /\ fingers' = fingers /\ rest' = rest /\ left' = left
      /\ count' = count /\ frame' = frame /\ slots' = slots /\ num_received' = num_received
      /\ reported' = reported /\ emits' = emits /\ whole' = whole /\ missed' = missed
  BY DEF ContactCount, ghosts
<1>2. /\ panel.size \in Nat \ {0} /\ maxcontacts \in Nat \ {0} /\ left \in 0 .. panel.size
      /\ num_received \in Nat /\ num_expected \in Nat /\ rest \in Seq(Contacts)
      /\ count \in Nat /\ panel.layout \in {"first", "last"}
  BY Panel, MultitouchAssumption DEF PanelOK, DriverOK
<1>3. PanelIds' = PanelIds /\ Aligned' = Aligned
  BY <1>1 DEF PanelIds, Aligned
<1>4. PanelOK' /\ DriverOK' /\ Before'
  BY <1>1, <1>3 DEF PanelOK, DriverOK, Before
<1>5. Bounded' /\ Packets' /\ Sending' /\ Announced'
  <2>1. Bounded'
    BY <1>1 DEF Bounded
  <2>2. Packets'
    <3>1. \E m \in Nat : Len(rest') = left' + m * panel.size
      BY <1>1 DEF Packets
    <3>2. panel.layout = "last" => ~(left' > 0)
      BY <1>1
    <3> QED
      BY <1>1, <3>1, <3>2 DEF Packets
  <2>3. Sending'
    BY <1>1 DEF Sending
  <2>4. Announced'
    BY <1>1 DEF Announced, Fresh
  <2> QED
    BY <2>1, <2>2, <2>3, <2>4
<1>6. CountFirst'
  <2> SUFFICES ASSUME panel.layout = "first", rest # <<>>
               PROVE  CountFirst'
    BY <1>1 DEF CountFirst
  <2>1. ~Fresh' /\ (Fresh <=> count # 0) /\ left = panel.size /\ Len(rest) \in Nat
    BY <1>1, <1>2 DEF Fresh
  <2>2. CASE slots = NoSlots
    BY <1>1, <1>2, <2>1, <2>2 DEF CountFirst, Before
  <2>3. CASE slots # NoSlots /\ count # 0
    BY <1>1, <1>2, <2>1, <2>3 DEF CountFirst, Announced
  <2>4. CASE slots # NoSlots /\ count = 0
    BY <1>1, <1>2, <2>1, <2>4 DEF CountFirst
  <2> QED
    BY <2>2, <2>3, <2>4
<1>7. CountLast'
  BY <1>1, <1>2 DEF CountLast
<1>8. Counted' /\ Numbered'
  BY <1>1, <1>3 DEF Counted, Numbered
<1> QED
  BY <1>4, <1>5, <1>6, <1>7, <1>8

LEMMA CountEvent ==
  ASSUME CountInv, mt_event
  PROVE  CountInv'
<1> USE DEF CountInv
<1> DEFINE done == mt_complete_slot(Head(rest))
<1>1. /\ left > 0 /\ left' = left - 1 /\ rest' = Tail(rest)
      /\ panel' = panel /\ fingers' = fingers /\ due' = due /\ count' = count
      /\ frame' = frame /\ num_expected' = num_expected /\ whole' = whole
      /\ missed' = missed
  BY EventCases
<1>2. \/ /\ slots = NoSlots
         /\ slots' = slots /\ num_received' = num_received
         /\ reported' = reported /\ emits' = emits
      \/ /\ slots # NoSlots /\ Complete(num_received + 1)
         /\ slots' # NoSlots /\ num_received' = 0 /\ emits' = emits + 1
      \/ /\ slots # NoSlots /\ ~Complete(num_received + 1)
         /\ slots' # NoSlots /\ num_received' = num_received + 1 /\ emits' = emits
  BY EventCases, SlotsExist
<1>3. (panel.layout = "first" => ~due) /\ ~(panel.layout = "first" /\ Fresh)
  BY DEF mt_event, Fresh
<1>4. /\ panel.size \in Nat \ {0} /\ maxcontacts \in Nat \ {0} /\ left \in 0 .. panel.size
      /\ num_received \in Nat /\ num_expected \in Nat /\ num_expected <= 2 * maxcontacts
      /\ panel.layout \in {"first", "last"} /\ emits \in Nat
      /\ whole \in BOOLEAN /\ missed \in BOOLEAN
  BY Panel, MultitouchAssumption DEF PanelOK, DriverOK
<1>5. /\ rest # <<>> /\ Len(rest) \in Nat \ {0} /\ DOMAIN rest = 1 .. Len(rest)
      /\ rest' \in Seq(Contacts) /\ Len(rest') = Len(rest) - 1
      /\ DOMAIN rest' = 1 .. Len(rest) - 1
      /\ \A i \in DOMAIN rest' : i + 1 \in DOMAIN rest /\ rest'[i] = rest[i + 1]
      /\ rest' = <<>> <=> Len(rest) = 1
  BY <1>1, EventRest
<1>6. PICK m \in Nat : Len(rest) = left + m * panel.size
  BY DEF Packets
<1>7. m * panel.size \in Nat /\ (m = 0 \/ m * panel.size >= panel.size)
  BY <1>4, Multiples
<1>8. PanelIds' = PanelIds /\ Aligned' = Aligned /\ Aligned \in BOOLEAN
  BY <1>1 DEF PanelIds, Aligned
<1>9. slots # NoSlots /\ Aligned =>
        /\ Len(rest) = 1 => Complete(num_received + 1)
        /\ whole /\ Len(rest) # 1 => ~Complete(num_received + 1)
  BY <1>1, <1>3, EventEnds
<1>10. PanelOK'
  <2>1. panel \in Panels /\ fingers \subseteq PanelIds /\ Cardinality(fingers) <= maxcontacts
        /\ frame \subseteq PanelIds /\ fingers \subseteq frame
        /\ due \in BOOLEAN /\ count \in 0 .. 2 * maxcontacts
    BY DEF PanelOK
  <2> QED
    BY <1>1, <1>4, <1>5, <1>8, <2>1 DEF PanelOK
<1>11. DriverOK'
  <2>1. num_received' \in Nat /\ emits' \in Nat
    BY <1>2, <1>4
  <2>2. num_expected' \in 0 .. 2 * maxcontacts /\ whole' \in BOOLEAN /\ missed' \in BOOLEAN
    BY <1>1 DEF DriverOK
  <2>3. slots' = NoSlots \/ slots' \in [Slots -> SlotStates]
    BY EventCases
  <2>4. reported' \in [Slots -> Ids \cup {None}]
    <3>1. CASE reported' = reported
      BY <3>1 DEF DriverOK
    <3>2. CASE slots' \in [Slots -> SlotStates] /\ reported' = [s \in Slots |->
                 IF slots'[s].touch_state THEN slots'[s].contactid ELSE None]
      <4>1. \A s \in Slots : slots'[s].contactid \in Ids
        BY <3>2 DEF SlotStates
      <4> QED
        BY <3>2, <4>1
    <3> QED
      BY <3>1, <3>2, EventCases
  <2> QED
    BY <2>1, <2>2, <2>3, <2>4 DEF DriverOK
<1>12. Before'
  BY <1>1, <1>2 DEF Before
<1>13. Bounded'
  <2>1. num_received < 2 * maxcontacts + (panel.size - left)
    BY <1>1 DEF Bounded
  <2>2. CASE num_received' = 0
    BY <1>1, <1>4, <2>2 DEF Bounded
  <2>3. CASE slots = NoSlots /\ num_received' = num_received
    BY <1>1, <1>4, <2>3 DEF Before, Bounded
  <2>4. CASE ~Complete(num_received + 1) /\ num_received' = num_received + 1
    <3>1. CASE left = 1
      <4>1. num_received + 1 < num_expected
        BY <1>4, <2>4, <3>1 DEF Complete
      <4> QED
        BY <1>1, <1>4, <2>4, <3>1, <4>1 DEF Bounded
    <3>2. CASE left # 1
      BY <1>1, <1>4, <2>1, <2>4, <3>2 DEF Bounded
    <3> QED
      BY <3>1, <3>2
  <2> QED
    BY <1>2, <2>2, <2>3, <2>4
<1>14. Packets'
  <2>1. Len(rest') = left' + m * panel.size
    BY <1>1, <1>4, <1>5, <1>6, <1>7
  <2>2. panel.layout = "first" => ~due'
    BY <1>1, <1>3
  <2>3. panel.layout = "last" => due'
    BY <1>1 DEF Packets
  <2> QED
    BY <1>1, <2>1, <2>2, <2>3 DEF Packets
<1>15. Sending'
  <2>1. ASSUME NEW i \in DOMAIN rest'
        PROVE  /\ rest'[i].touch_state => rest'[i].valid
               /\ rest'[i].valid => /\ rest'[i].contactid \in frame'
                                    /\ rest'[i].touch_state <=> rest'[i].contactid \in fingers'
    BY <1>1, <1>5 DEF Sending
  <2>2. ASSUME NEW i \in DOMAIN rest', NEW j \in DOMAIN rest', rest'[i].valid, rest'[j].valid,
               rest'[i].contactid = rest'[j].contactid
        PROVE  i = j
    <3>1. i + 1 \in DOMAIN rest /\ j + 1 \in DOMAIN rest /\ i + 1 = j + 1
      BY <1>5, <2>2 DEF Sending
    <3> QED
      BY <1>5, <3>1
  <2> QED
    BY <2>1, <2>2 DEF Sending
<1>16. Announced'
  BY <1>1, <1>3 DEF Announced, Fresh
<1>17. CountFirst'
  <2> SUFFICES ASSUME panel.layout = "first", rest' # <<>>
               PROVE  CountFirst'
    BY <1>1 DEF CountFirst
  <2>1. ~Fresh /\ ~Fresh' /\ Len(rest) > 1
    BY <1>1, <1>3, <1>5 DEF Fresh
  <2>2. \/ /\ num_expected = 0 /\ ~whole /\ num_received <= panel.size - left
        \/ /\ num_expected > 0
           /\ Len(rest) - panel.size < num_expected - num_received
           /\ num_expected - num_received <= Len(rest)
    BY <1>5, <2>1 DEF CountFirst
  <2>3. CASE slots = NoSlots
    BY <1>1, <1>2, <1>4, <2>1, <2>3 DEF Before, CountFirst
  <2>4. CASE slots # NoSlots /\ num_expected = 0
    BY <1>1, <1>2, <1>4, <2>1, <2>2, <2>4, SMTT(30) DEF Complete, CountFirst
  <2>5. CASE slots # NoSlots /\ num_expected > 0
    <3>1. ~Complete(num_received + 1)
      BY <1>4, <1>5, <1>6, <1>7, <2>1, <2>2, <2>5, SMTT(30) DEF Complete
    <3>2. num_received' = num_received + 1
      BY <1>2, <2>5, <3>1
    <3>3. /\ Len(rest') - panel.size < num_expected - num_received'
          /\ num_expected - num_received' <= Len(rest')
      BY <1>4, <1>5, <2>2, <2>5, <3>2
    <3> QED
      BY <1>1, <2>1, <2>5, <3>3 DEF CountFirst
  <2> QED
    BY <1>4, <2>3, <2>4, <2>5
<1>18. CountLast'
  BY <1>1, <1>2, <1>4, <1>5 DEF CountLast, Complete
<1>19. Counted'
  BY <1>1, <1>2, <1>4, <1>5, <1>8, <1>9 DEF Counted
<1>20. Numbered'
  <2> SUFFICES ASSUME whole, Aligned, NEW i \in DOMAIN rest', rest'[i].valid
               PROVE  /\ panel.class.slot = "number" =>
                           rest'[i].contactid = num_received' + i - 1
                      /\ panel.class.slot = "cypress" /\ rest'[i].contactid = 0
                           => i = 1 /\ num_received' = 0
    BY <1>1, <1>8 DEF Numbered
  <2>1. i \in Nat /\ i + 1 \in DOMAIN rest /\ rest'[i] = rest[i + 1] /\ Len(rest) # 1
    BY <1>5
  <2>2. num_received' = num_received + 1
    BY <1>2, <1>9, <2>1 DEF Before
  <2>3. /\ panel.class.slot = "number" => rest[i + 1].contactid = num_received + (i + 1) - 1
        /\ panel.class.slot = "cypress" => rest[i + 1].contactid # 0
    BY <2>1, <1>5 DEF Numbered
  <2> QED
    BY <1>4, <2>1, <2>2, <2>3
<1> QED
  BY <1>10, <1>11, <1>12, <1>13, <1>14, <1>15, <1>16, <1>17, <1>18, <1>19, <1>20

LEMMA CountNext == CountInv /\ [Next]_vars => CountInv'
<1> SUFFICES ASSUME CountInv, [Next]_vars PROVE CountInv'
  OBVIOUS
<1>1. CASE UNCHANGED vars
  BY <1>1 DEF vars, device, driver, ghosts, CountInv, PanelOK, PanelIds, DriverOK, Before,
              Bounded, Packets, Sending, Announced, Fresh, CountFirst, CountLast, Counted,
              Aligned, Numbered
<1> QED
  BY <1>1, CountSend, CountPacket, CountProbe, CountCount, CountEvent DEF Next

\* Every variable keeps its type: the slots exist or do not, and no counter of
\* contacts runs away, whatever the panel sends and whenever the driver is probed.
THEOREM TypeCorrect == Spec => []TypeOK
<1>1. CountInv => TypeOK
  <2> SUFFICES ASSUME CountInv PROVE TypeOK
    OBVIOUS
  <2>1. /\ panel.size \in Nat \ {0} /\ maxcontacts \in Nat \ {0} /\ left \in 0 .. panel.size
        /\ num_received \in Nat /\ PanelIds \subseteq Ids
    BY Panel, MultitouchAssumption DEF CountInv, PanelOK, DriverOK
  <2>2. num_received \in 0 .. 2 * maxcontacts + panel.size
    BY <2>1 DEF CountInv, Bounded
  <2> QED
    BY <2>1, <2>2 DEF CountInv, PanelOK, DriverOK, TypeOK, SlotStates
<1> QED
  BY <1>1, CountInit, CountNext, PTL DEF Spec

-----------------------------------------------------------------------------
(* The slot of a contact                                                   *)

\* The contacts still to come behind the next one.
LEMMA ToComeNext ==
  ASSUME CountInv, left > 0
  PROVE  /\ ToCome(Tail(rest)) \subseteq ToCome(rest)
         /\ Head(rest).valid =>
              /\ ToCome(rest) = ToCome(Tail(rest)) \cup {Head(rest).contactid}
              /\ Head(rest).contactid \notin ToCome(Tail(rest))
         /\ ~Head(rest).valid => ToCome(rest) = ToCome(Tail(rest))
<1> DEFINE c == Head(rest)
           t == Tail(rest)
<1>1. /\ Len(rest) \in Nat \ {0} /\ DOMAIN rest = 1 .. Len(rest) /\ c = rest[1]
      /\ DOMAIN t = 1 .. Len(rest) - 1
      /\ \A i \in DOMAIN t : i + 1 \in DOMAIN rest /\ t[i] = rest[i + 1]
  BY EventRest DEF CountInv
<1>2. \A i, j \in DOMAIN rest :
        rest[i].valid /\ rest[j].valid /\ rest[i].contactid = rest[j].contactid => i = j
  BY DEF CountInv, Sending
<1> HIDE DEF c, t
<1>3. ASSUME NEW x \in ToCome(t) PROVE x \in ToCome(rest) /\ (c.valid => x # c.contactid)
  <2>1. PICK i \in DOMAIN t : t[i].valid /\ x = t[i].contactid
    BY <1>3 DEF ToCome
  <2>2. i + 1 \in DOMAIN rest /\ rest[i + 1].valid /\ x = rest[i + 1].contactid
        /\ i + 1 # 1 /\ 1 \in DOMAIN rest
    BY <1>1, <2>1
  <2>3. x \in ToCome(rest)
    BY <2>2 DEF ToCome
  <2>4. c.valid => x # c.contactid
    BY <1>1, <1>2, <2>2
  <2> QED
    BY <2>3, <2>4
<1>4. ASSUME NEW x \in ToCome(rest) PROVE x \in ToCome(t) \/ (c.valid /\ x = c.contactid)
  <2>1. PICK i \in DOMAIN rest : rest[i].valid /\ x = rest[i].contactid
    BY <1>4 DEF ToCome
  <2>2. CASE i = 1
    BY <1>1, <2>1, <2>2
  <2>3. CASE i # 1
    <3>1. i - 1 \in DOMAIN t /\ t[i - 1] = rest[i]
      BY <1>1, <2>3
    <3> QED
      BY <2>1, <3>1 DEF ToCome
  <2> QED
    BY <2>2, <2>3
<1>5. c.valid => c.contactid \in ToCome(rest)
  <2>1. 1 \in DOMAIN rest
    BY <1>1
  <2> QED
    BY <1>1, <2>1 DEF ToCome
<1> QED
  BY <1>3, <1>4, <1>5 DEF c, t

\* What the driver knows of the next contact.
LEMMA NextContact ==
  ASSUME CountInv, left > 0, Head(rest).valid
  PROVE  LET c == Head(rest) IN
         /\ c.contactid \in PanelIds /\ c.contactid \in frame /\ c.contactid \in Nat
         /\ c.touch_state <=> c.contactid \in fingers
         /\ whole /\ Aligned =>
              /\ panel.class.slot = "number" => c.contactid = num_received
              /\ panel.class.slot = "cypress" /\ c.contactid = 0 => num_received = 0
<1> DEFINE c == Head(rest)
<1>1. 1 \in DOMAIN rest /\ c = rest[1]
  BY EventRest DEF CountInv
<1>2. c.contactid \in frame /\ (c.touch_state <=> c.contactid \in fingers)
  BY <1>1 DEF CountInv, Sending
<1>3. frame \subseteq PanelIds /\ PanelIds \subseteq Nat /\ num_received \in Nat
  BY Panel DEF CountInv, PanelOK, DriverOK
<1>4. whole /\ Aligned =>
        /\ panel.class.slot = "number" => c.contactid = num_received
        /\ panel.class.slot = "cypress" /\ c.contactid = 0 => num_received = 0
  BY <1>1, <1>3 DEF CountInv, Numbered
<1> QED
  BY <1>2, <1>3, <1>4

\* A frame that has as many contacts as there are slots, or less, leaves one free
\* for a contact that has none.
LEMMA RoomLeft ==
  ASSUME NEW sl, NEW F, IsFiniteSet(F), Cardinality(F) <= maxcontacts, NEW id \in F,
         \A s \in Slots : sl[s].contactid \in F /\ sl[s].contactid # id,
         \A s, r \in Slots : sl[s].contactid = sl[r].contactid => s = r
  PROVE  FALSE
<1> DEFINE g == [s \in Slots |-> sl[s].contactid]
           G == F \ {id}
<1>1. g \in [Slots -> G]
  OBVIOUS
<1>2. IsInjective(g)
  BY DEF IsInjective
<1>3. g \in Injection(Slots, G)
  BY <1>1, <1>2 DEF Injection
<1>4. IsFiniteSet(G) /\ Cardinality(G) = Cardinality(F) - 1
  BY FS_RemoveElement
<1>5. maxcontacts \in Nat /\ Cardinality(F) \in Nat
  BY FS_CardinalityType, MultitouchAssumption
<1>6. Cardinality(Slots) = maxcontacts
  <2>1. Cardinality(0 .. maxcontacts - 1) = (maxcontacts - 1) - 0 + 1
    BY MultitouchAssumption, FS_Interval
  <2> QED
    BY <1>5, <2>1 DEF Slots
<1> HIDE DEF g, G
<1>7. Cardinality(Slots) <= Cardinality(G)
  BY <1>3, <1>4, FS_Injection
<1> QED
  BY <1>4, <1>5, <1>6, <1>7

\* mt_compute_slot() gives a contact the slot that it has, if it has one, and a slot
\* that no other contact has; while the frame fits there is a slot for each.
LEMMA SlotOf ==
  ASSUME CountInv, left > 0, Head(rest).valid, slots \in [Slots -> SlotStates],
         Aligned, ~Shifted, Settled(slots, ToCome(rest))
  PROVE  LET id == Head(rest).contactid
             n  == mt_compute_slot(id)
         IN  /\ n \in Slots /\ panel.class.slot # "find" => Home(n) = id
             /\ n \in Slots /\ Held(slots, n) => slots[n].contactid = id
             /\ \A s \in Slots : Held(slots, s) /\ slots[s].contactid = id
                                 /\ (n \in Slots \/ panel.class.slot # "cypress") => n = s
             /\ Fits => n \in Slots
<1> DEFINE id == Head(rest).contactid
           n == mt_compute_slot(id)
<1>1. /\ id \in PanelIds /\ id \in frame /\ id \in Nat
      /\ whole /\ Aligned =>
           /\ panel.class.slot = "number" => id = num_received
           /\ panel.class.slot = "cypress" /\ id = 0 => num_received = 0
  BY NextContact
<1>2. /\ panel.class.slot \in {"find", "minus_one", "id", "number", "cypress"}
      /\ panel.class.slot \notin {"find", "minus_one"} => PanelIds = Slots
      /\ panel.class.slot = "minus_one" => PanelIds = 1 .. maxcontacts
      /\ IsFiniteSet(PanelIds) /\ frame \subseteq PanelIds
      /\ maxcontacts \in Nat \ {0} /\ Slots = 0 .. maxcontacts - 1
  BY Panel, MultitouchAssumption DEF CountInv, PanelOK, Slots
<1>3. panel.class.slot = "number" => whole
  <2>1. slots # NoSlots /\ rest # <<>>
    BY SlotsExist, EventRest DEF CountInv
  <2> QED
    BY <2>1 DEF Shifted, CountInv, Counted
<1>4. id \in ToCome(rest)
  BY ToComeNext
<1>5. /\ \A s \in Slots : slots[s].seen => slots[s].contactid # id
      /\ \A s, r \in Slots :
           Held(slots, s) /\ Held(slots, r) /\ slots[s].contactid = slots[r].contactid => s = r
      /\ \A s \in Slots : Held(slots, s) => slots[s].contactid \in frame
      /\ panel.class.slot # "find" =>
           \A s \in Slots : Held(slots, s) => slots[s].contactid = Home(s)
  BY <1>4 DEF Settled
<1>6. CASE panel.class.slot # "find"
  <2>1. /\ panel.class.slot = "id" => n = id
        /\ panel.class.slot = "minus_one" => n = id - 1
        /\ panel.class.slot = "number" => n = id
        /\ panel.class.slot = "cypress" => n = id \/ n = None
        /\ panel.class.slot = "cypress" /\ whole => n = id
    BY <1>1, <1>2, <1>3 DEF mt_compute_slot, cypress_compute_slot
  <2>2. None \notin Slots
    BY <1>2 DEF None
  <2> HIDE DEF id, n
  <2>3. n \in Slots \/ panel.class.slot # "cypress" =>
          n = IF panel.class.slot = "minus_one" THEN id - 1 ELSE id
    BY <1>2, <1>6, <2>1, <2>2
  <2>4. n \in Slots => Home(n) = id
    BY <1>1, <1>2, <2>3 DEF Home
  <2>5. n \in Slots /\ Held(slots, n) => slots[n].contactid = id
    BY <1>5, <1>6, <2>4
  <2>6. ASSUME NEW s \in Slots, Held(slots, s), slots[s].contactid = id,
               n \in Slots \/ panel.class.slot # "cypress"
        PROVE  n = s
    <3>1. Home(s) = id
      BY <1>5, <1>6, <2>6
    <3> QED
      BY <1>1, <1>2, <2>3, <2>6, <3>1 DEF Home
  <2>7. Fits => n \in Slots
    BY <1>1, <1>2, <1>6, <2>1 DEF Fits
  <2> QED
    BY <2>4, <2>5, <2>6, <2>7 DEF id, n
<1>7. CASE panel.class.slot = "find"
  <2> DEFINE mine == {s \in Slots : slots[s].contactid = id /\ slots[s].touch_state}
             free == {s \in Slots : ~slots[s].seen /\ ~slots[s].touch_state}
  <2>1. n = IF mine # {} THEN Lowest(mine) ELSE Lowest(free)
    BY <1>7 DEF mt_compute_slot, find_slot_from_contactid
  <2>2. /\ mine # {} => n \in mine
        /\ mine = {} /\ free # {} => n \in free
        /\ mine = {} /\ free = {} => n = None
    <3>1. mine \subseteq Slots /\ free \subseteq Slots
      OBVIOUS
    <3> HIDE DEF mine, free, n
    <3> QED
      BY <2>1, <3>1, LowestIn
  <2>3. None \notin Slots
    BY <1>2 DEF None
  <2> HIDE DEF id, n
  <2>4. ASSUME NEW s \in Slots, Held(slots, s), slots[s].contactid = id PROVE s \in mine
    BY <1>5, <2>4 DEF Held
  <2>5. n \in Slots /\ Held(slots, n) => slots[n].contactid = id
    BY <2>2, <2>3 DEF Held
  <2>6. ASSUME NEW s \in Slots, Held(slots, s), slots[s].contactid = id PROVE n = s
    <3>1. n \in mine
      BY <2>2, <2>4, <2>6
    <3>2. n \in Slots /\ Held(slots, n) /\ slots[n].contactid = id
      BY <3>1 DEF Held
    <3> QED
      BY <1>5, <2>6, <3>2
  <2>7. ASSUME Fits, mine = {}, free = {} PROVE FALSE
    <3>1. \A s \in Slots : Held(slots, s)
      BY <2>7 DEF Held
    <3>2. \A s \in Slots : slots[s].contactid \in frame /\ slots[s].contactid # id
      BY <1>5, <2>4, <2>7, <3>1
    <3>3. \A s, r \in Slots : slots[s].contactid = slots[r].contactid => s = r
      BY <1>5, <3>1
    <3>4. IsFiniteSet(frame) /\ Cardinality(frame) <= maxcontacts
      BY <1>2, <2>7, FS_Subset DEF Fits
    <3>5. id \in frame
      BY <1>1 DEF id
    <3> QED
      BY <3>2, <3>3, <3>4, <3>5, RoomLeft
  <2>8. Fits => n \in Slots
    BY <2>2, <2>7
  <2> QED
    BY <1>7, <2>5, <2>6, <2>8 DEF id, n
<1> QED
  BY <1>6, <1>7

-----------------------------------------------------------------------------
(* Slots and fingers are kept                                              *)

\* The slots after mt_complete_slot(): one has the contact, or none has changed.
LEMMA CompletedSlots ==
  ASSUME slots \in [Slots -> SlotStates], panel \in Panels, NEW c \in Contacts,
         c.touch_state => c.valid
  PROVE  LET done == mt_complete_slot(c)
             n    == mt_compute_slot(c.contactid)
         IN  \/ /\ n \in Slots /\ c.valid
                /\ done[n].contactid = c.contactid /\ done[n].seen
                /\ done[n].touch_state <=> c.touch_state
                /\ \A s \in Slots : s # n => done[s] = slots[s]
             \/ /\ done = slots
                /\ c.valid => n \notin Slots \/ (panel.class.up /\ ~c.touch_state)
<1> DEFINE done == mt_complete_slot(c)
           n == mt_compute_slot(c.contactid)
           new == [contactid |-> c.contactid, touch_state |-> c.touch_state, seen |-> TRUE]
           ok == IF panel.class.valid = "tip" THEN c.touch_state ELSE c.valid
<1>1. done = IF ok /\ n \in Slots THEN [slots EXCEPT ![n] = new] ELSE slots
  BY DEF mt_complete_slot
<1>2. new.contactid = c.contactid /\ new.seen = TRUE /\ new.touch_state = c.touch_state
  OBVIOUS
<1>3. panel.class.up <=> panel.class.valid = "tip"
  BY Panel
<1>4. (ok => c.valid) /\ (c.valid /\ ~ok => panel.class.up /\ ~c.touch_state)
  BY <1>3
<1> HIDE DEF done, n, new, ok
<1>5. CASE ok /\ n \in Slots
  <2>1. done[n] = new /\ \A s \in Slots : s # n => done[s] = slots[s]
    BY <1>1, <1>5
  <2>2. done[n].seen /\ (done[n].touch_state <=> c.touch_state)
    BY <1>2, <2>1, Zenon
  <2> QED
    BY <1>2, <1>4, <1>5, <2>1, <2>2 DEF done, n
<1>6. CASE ~(ok /\ n \in Slots)
  BY <1>1, <1>4, <1>6 DEF done, n
<1> QED
  BY <1>5, <1>6

\* A contact that gets its slot leaves the slots settled, and so does one that is
\* ignored; no finger is lost if the frame fits.
LEMMA Completed ==
  ASSUME CountInv, left > 0, slots \in [Slots -> SlotStates],
         Aligned, ~Shifted, Settled(slots, ToCome(rest)), Reported(slots)
  PROVE  LET done == mt_complete_slot(Head(rest))
         IN  /\ Settled(done, ToCome(Tail(rest))) /\ Reported(done)
             /\ Fits /\ Found(slots, ToCome(rest)) => Found(done, ToCome(Tail(rest)))
<1> DEFINE c == Head(rest)
           id == c.contactid
           n == mt_compute_slot(id)
           done == mt_complete_slot(c)
           u == ToCome(rest)
           v == ToCome(Tail(rest))
<1>1. c \in Contacts /\ (c.touch_state => c.valid) /\ panel \in Panels
  <2>1. c = rest[1] /\ 1 \in DOMAIN rest /\ c \in Contacts
    BY EventRest DEF CountInv
  <2> QED
    BY <2>1 DEF CountInv, PanelOK, Sending
<1>2. \/ /\ n \in Slots /\ c.valid
         /\ done[n].contactid = id /\ done[n].seen
         /\ done[n].touch_state <=> c.touch_state
         /\ \A s \in Slots : s # n => done[s] = slots[s]
      \/ /\ done = slots
         /\ c.valid => n \notin Slots \/ (panel.class.up /\ ~c.touch_state)
  BY <1>1, CompletedSlots
<1>3. /\ v \subseteq u
      /\ c.valid => u = v \cup {id} /\ id \notin v
      /\ ~c.valid => u = v
  BY ToComeNext
<1>4. c.valid =>
        /\ n \in Slots /\ panel.class.slot # "find" => Home(n) = id
        /\ n \in Slots /\ Held(slots, n) => slots[n].contactid = id
        /\ \A s \in Slots : Held(slots, s) /\ slots[s].contactid = id
                            /\ (n \in Slots \/ panel.class.slot # "cypress") => n = s
        /\ Fits => n \in Slots
  BY SlotOf
<1>5. c.valid => id \in frame /\ (c.touch_state <=> id \in fingers)
  BY NextContact
<1>6. panel.class.slot = "cypress" => panel.class.up
  BY <1>1, Panel
<1> HIDE DEF c, id, n, done, u, v
<1>7. /\ panel.class.slot # "find" =>
           \A s \in Slots : Held(slots, s) => slots[s].contactid = Home(s)
      /\ \A s, r \in Slots :
           Held(slots, s) /\ Held(slots, r) /\ slots[s].contactid = slots[r].contactid => s = r
      /\ \A s \in Slots : Held(slots, s) => slots[s].contactid \in frame
      /\ \A s \in Slots : slots[s].seen => slots[s].contactid \notin u
      /\ \A s \in Slots : slots[s].seen /\ slots[s].touch_state => slots[s].contactid \in fingers
      /\ ~panel.class.up => \A s \in Slots :
           slots[s].touch_state /\ ~slots[s].seen => slots[s].contactid \in u \cup fingers
  BY DEF Settled, u
<1>8. \A s \in Slots : reported[s] # None => Held(slots, s) /\ reported[s] = slots[s].contactid
  BY DEF Reported
<1>9. CASE /\ n \in Slots /\ c.valid
           /\ done[n].contactid = id /\ done[n].seen
           /\ done[n].touch_state <=> c.touch_state
           /\ \A s \in Slots : s # n => done[s] = slots[s]
  <2>1. Held(done, n) /\ \A s \in Slots : s # n => (Held(done, s) <=> Held(slots, s))
    BY <1>9 DEF Held
  <2>2. panel.class.slot # "find" =>
          \A s \in Slots : Held(done, s) => done[s].contactid = Home(s)
    BY <1>4, <1>7, <1>9, <2>1
  <2>3. ASSUME NEW s \in Slots, NEW r \in Slots, Held(done, s), Held(done, r),
               done[s].contactid = done[r].contactid
        PROVE  s = r
    BY <1>4, <1>7, <1>9, <2>1, <2>3
  <2>4. \A s \in Slots : Held(done, s) => done[s].contactid \in frame
    BY <1>5, <1>7, <1>9, <2>1
  <2>5. \A s \in Slots : done[s].seen => done[s].contactid \notin v
    BY <1>3, <1>7, <1>9
  <2>6. \A s \in Slots : done[s].seen /\ done[s].touch_state => done[s].contactid \in fingers
    BY <1>5, <1>7, <1>9
  <2>7. ASSUME ~panel.class.up, NEW s \in Slots, done[s].touch_state, ~done[s].seen
        PROVE  done[s].contactid \in v \cup fingers
    <3>1. s # n /\ done[s] = slots[s] /\ Held(slots, s)
      BY <1>9, <2>7 DEF Held
    <3>2. slots[s].contactid # id
      BY <1>4, <1>9, <3>1
    <3> QED
      BY <1>3, <1>7, <1>9, <2>7, <3>1, <3>2
  <2>8. Settled(done, v)
    BY <2>2, <2>3, <2>4, <2>5, <2>6, <2>7 DEF Settled
  <2>9. Reported(done)
    BY <1>4, <1>8, <1>9, <2>1 DEF Reported
  <2>10. ASSUME Found(slots, u), NEW f \in fingers
         PROVE  f \in v \/ \E s \in Slots :
                  done[s].touch_state /\ done[s].seen /\ done[s].contactid = f
    <3>1. CASE f \in u
      BY <1>3, <1>5, <1>9, <3>1
    <3>2. CASE f \notin u
      <4>1. PICK s \in Slots : slots[s].touch_state /\ slots[s].seen /\ slots[s].contactid = f
        BY <2>10, <3>2 DEF Found
      <4>2. s # n
        BY <1>3, <1>4, <1>7, <1>9, <3>2, <4>1 DEF Held
      <4> QED
        BY <1>9, <4>1, <4>2
    <3> QED
      BY <3>1, <3>2
  <2> QED
    BY <2>8, <2>9, <2>10 DEF Found, c, id, n, done, u, v
<1>10. CASE /\ done = slots
            /\ c.valid => n \notin Slots \/ (panel.class.up /\ ~c.touch_state)
  <2>1. ASSUME ~panel.class.up, NEW s \in Slots, slots[s].touch_state, ~slots[s].seen
        PROVE  slots[s].contactid \in v \cup fingers
    <3>1. c.valid => slots[s].contactid # id
      BY <1>4, <1>6, <1>10, <2>1 DEF Held
    <3> QED
      BY <1>3, <1>7, <2>1, <3>1
  <2>2. \A s \in Slots : slots[s].seen => slots[s].contactid \notin v
    BY <1>3, <1>7
  <2>3. Settled(slots, v)
    BY <1>7, <2>1, <2>2 DEF Settled
  <2>4. Fits /\ Found(slots, u) => Found(slots, v)
    <3>1. ASSUME Fits, NEW f \in fingers PROVE f \in u => f \in v
      BY <1>3, <1>4, <1>5, <1>10, <3>1
    <3> QED
      BY <3>1 DEF Found
  <2> QED
    BY <1>10, <2>3, <2>4 DEF c, id, n, done, u, v
<1> QED
  BY <1>2, <1>9, <1>10

\* mt_emit_event() leaves the slots settled, and at the end of a frame each has a
\* finger of the panel or none.
LEMMA EmitSettled ==
  ASSUME panel \in Panels, NEW sl \in [Slots -> SlotStates], NEW u, Settled(sl, u)
  PROVE  /\ Settled(Emitted(sl), u)
         /\ u = {} => \A s \in Slots : Emitted(sl)[s].touch_state
                                         => Emitted(sl)[s].contactid \in fingers
         /\ Found(sl, {}) => AllFound(Emitted(sl))
<1> DEFINE e == Emitted(sl)
<1>1. \A s \in Slots :
        /\ e[s].contactid = sl[s].contactid
        /\ e[s].seen = FALSE
        /\ e[s].touch_state <=> sl[s].touch_state /\ (panel.class.up => sl[s].seen)
  BY EmittedSlots
<1> HIDE DEF e
<1>2. \A s \in Slots : ~e[s].seen
  BY <1>1, Zenon
<1>3. \A s \in Slots : Held(e, s) => e[s].touch_state /\ Held(sl, s)
  BY <1>1, <1>2 DEF Held
<1>4. panel.class.up \in BOOLEAN
  BY Panel
<1>5. \A s \in Slots : e[s].touch_state => e[s].contactid \in u \cup fingers
  BY <1>1, <1>4 DEF Settled
<1>6. Settled(e, u)
  BY <1>1, <1>2, <1>3, <1>5 DEF Settled
<1>7. Found(sl, {}) => AllFound(e)
  BY <1>1 DEF Found, AllFound
<1> QED
  BY <1>5, <1>6, <1>7 DEF e

\* The parts of Tracked depend on these variables only.
LEMMA SameFrame ==
  ASSUME panel' = panel, fingers' = fingers, frame' = frame
  PROVE  /\ Settled(slots, ToCome(rest))' <=> Settled(slots', ToCome(rest'))
         /\ Found(slots, ToCome(rest))' <=> Found(slots', ToCome(rest'))
         /\ AllFound(slots)' <=> AllFound(slots')
<1>1. Settled(slots, ToCome(rest))' <=> Settled(slots', ToCome(rest'))
  BY DEF Settled, Held, Home, ToCome
<1>2. Found(slots, ToCome(rest))' <=> Found(slots', ToCome(rest'))
  BY DEF Found, ToCome
<1>3. AllFound(slots)' <=> AllFound(slots')
  BY DEF AllFound
<1> QED
  BY <1>1, <1>2, <1>3

LEMMA TrackedInit == Init => Tracked
  BY DEF Init, Tracked

LEMMA TrackedSend ==
  ASSUME TouchInv, SendFrame
  PROVE  Tracked'
<1>1. /\ rest = <<>> /\ panel' = panel /\ slots' = slots /\ reported' = reported
      /\ missed' = missed
  BY DEF SendFrame, driver
<1>2. /\ frame' = fingers \cup fingers' /\ fingers' \subseteq ToCome(rest')
      /\ ~panel.class.up => fingers \subseteq ToCome(rest')
  BY FrameSent DEF TouchInv, CountInv
<1>3. rest' # <<>>
  <2>1. PICK k \in Nat \ {0} : Len(rest') = k * panel.size /\ rest' \in Seq(Contacts)
    BY FrameSent DEF TouchInv, CountInv
  <2>2. panel.size \in Nat \ {0}
    BY Panel DEF TouchInv, CountInv, PanelOK
  <2>3. k * panel.size # 0
    BY <2>1, <2>2, Multiples
  <2> QED
    BY <2>1, <2>3, EmptyIff
<1> SUFFICES ASSUME slots # NoSlots, Aligned, ~Shifted
             PROVE  /\ Settled(slots, ToCome(rest))' /\ Reported(slots)'
                    /\ Found(slots, ToCome(rest))'
  BY <1>1, <1>3 DEF Tracked, Aligned, Shifted
<1>4. Settled(slots, ToCome(rest)) /\ Reported(slots) /\ Between(slots)
  BY <1>1 DEF TouchInv, Tracked
<1>5. \A s \in Slots : Held(slots, s) => slots[s].touch_state /\ slots[s].contactid \in fingers
  BY <1>4 DEF Between, Held
<1>6. \A s \in Slots : ~slots[s].seen
  BY <1>4 DEF Between
<1>7. Settled(slots, ToCome(rest))'
  BY <1>1, <1>2, <1>4, <1>5, <1>6 DEF Settled, Held, Home
<1>8. Reported(slots)'
  BY <1>1, <1>4 DEF Reported, Held
<1>9. Found(slots, ToCome(rest))'
  BY <1>2 DEF Found, ToCome
<1> QED
  BY <1>7, <1>8, <1>9

LEMMA TrackedPacket ==
  ASSUME TouchInv, NextPacket
  PROVE  Tracked'
<1>1. /\ panel' = panel /\ fingers' = fingers /\ rest' = rest /\ frame' = frame
      /\ slots' = slots /\ reported' = reported /\ whole' = whole /\ missed' = missed
  BY DEF NextPacket, driver, ghosts
<1> QED
  BY <1>1 DEF TouchInv, Tracked, Aligned, Shifted, Settled, Held, Home, ToCome, Reported,
              Between, AllFound, Fits, Found

LEMMA TrackedCount ==
  ASSUME TouchInv, ContactCount
  PROVE  Tracked'
<1>1. /\ panel' = panel /\ fingers' = fingers /\ rest' = rest /\ frame' = frame
      /\ slots' = slots /\ reported' = reported /\ whole' = whole /\ missed' = missed
  BY DEF ContactCount, ghosts
<1> QED
  BY <1>1 DEF TouchInv, Tracked, Aligned, Shifted, Settled, Held, Home, ToCome, Reported,
              Between, AllFound, Fits, Found

\* The slots that mt_probe() allocates have no contact.
LEMMA TrackedProbe ==
  ASSUME TouchInv, mt_probe
  PROVE  Tracked'
<1>1. /\ slots = NoSlots /\ slots' = [s \in Slots |-> Free] /\ reported' = reported
      /\ whole' = whole
  BY DEF mt_probe
<1>2. ~whole /\ \A s \in Slots : reported[s] = None
  BY <1>1 DEF TouchInv, CountInv, Before
<1>3. \A s \in Slots : ~slots'[s].touch_state /\ ~slots'[s].seen
  BY <1>1 DEF Free
<1>4. \A s \in Slots : ~Held(slots, s)'
  BY <1>3 DEF Held
<1>5. Settled(slots, ToCome(rest))'
  BY <1>3, <1>4 DEF Settled
<1>6. Reported(slots)' /\ Between(slots)'
  BY <1>1, <1>2, <1>3 DEF Reported, Between
<1> QED
  BY <1>1, <1>2, <1>5, <1>6 DEF Tracked, Fits

LEMMA TrackedEvent ==
  ASSUME TouchInv, mt_event
  PROVE  Tracked'
<1> DEFINE done == mt_complete_slot(Head(rest))
           u == ToCome(rest)
           v == ToCome(Tail(rest))
<1>1. /\ left > 0 /\ rest' = Tail(rest) /\ panel' = panel /\ fingers' = fingers
      /\ frame' = frame /\ whole' = whole /\ missed' = missed
      /\ \/ slots = NoSlots /\ slots' = slots
         \/ /\ slots \in [Slots -> SlotStates] /\ done \in [Slots -> SlotStates]
            /\ Complete(num_received + 1)
            /\ slots' = Emitted(done)
            /\ reported' = [s \in Slots |->
                 IF slots'[s].touch_state THEN slots'[s].contactid ELSE None]
         \/ /\ slots \in [Slots -> SlotStates] /\ done \in [Slots -> SlotStates]
            /\ ~Complete(num_received + 1)
            /\ slots' = done /\ reported' = reported
  BY EventCases DEF TouchInv
<1> SUFFICES ASSUME slots' # NoSlots, Aligned, ~Shifted
             PROVE  /\ Settled(slots, ToCome(rest))' /\ Reported(slots)'
                    /\ rest' = <<>> => Between(slots)' /\ (Fits' => AllFound(slots)')
                    /\ rest' # <<>> /\ Fits' => Found(slots, ToCome(rest))'
  BY <1>1 DEF Tracked, Aligned, Shifted
<1>2. slots # NoSlots /\ slots \in [Slots -> SlotStates] /\ done \in [Slots -> SlotStates]
  BY <1>1, SlotsExist
<1>3. /\ Len(rest) = 1 <=> rest' = <<>>
      /\ rest # <<>>
  BY <1>1, EventRest DEF TouchInv, CountInv
<1>4. /\ Len(rest) = 1 => Complete(num_received + 1)
      /\ whole /\ Len(rest) # 1 => ~Complete(num_received + 1)
  <2>1. panel.layout = "first" => ~due
    BY DEF mt_event
  <2> QED
    BY <1>1, <1>2, <2>1, EventEnds DEF TouchInv
<1>5. Settled(slots, u) /\ Reported(slots) /\ (Fits => Found(slots, u))
  BY <1>2, <1>3 DEF TouchInv, Tracked
<1>6. Settled(done, v) /\ Reported(done) /\ (Fits => Found(done, v))
  BY <1>1, <1>2, <1>5, Completed DEF TouchInv
<1>7. v = ToCome(rest') /\ (Fits' <=> Fits) /\ panel \in Panels
  BY <1>1 DEF Fits, TouchInv, CountInv, PanelOK
<1>8. rest' = <<>> => v = {}
  BY <1>1 DEF ToCome
<1>9. /\ Settled(slots, ToCome(rest))' <=> Settled(slots', v)
      /\ Found(slots, ToCome(rest))' <=> Found(slots', v)
      /\ AllFound(slots)' <=> AllFound(slots')
  BY <1>1, <1>7, SameFrame
<1> HIDE DEF done, u, v
<1>10. CASE slots' = done /\ reported' = reported /\ ~Complete(num_received + 1)
  <2>1. Reported(slots)'
    BY <1>6, <1>10 DEF Reported, Held
  <2> QED
    BY <1>3, <1>4, <1>6, <1>7, <1>9, <1>10, <2>1
<1>11. CASE /\ Complete(num_received + 1) /\ slots' = Emitted(done)
            /\ reported' = [s \in Slots |->
                 IF slots'[s].touch_state THEN slots'[s].contactid ELSE None]
  <2>1. /\ Settled(slots', v)
        /\ v = {} => \A s \in Slots : slots'[s].touch_state => slots'[s].contactid \in fingers
        /\ Found(done, {}) => AllFound(slots')
    BY <1>2, <1>6, <1>7, <1>11, EmitSettled
  <2>2. \A s \in Slots : ~slots'[s].seen
    <3>1. \A s \in Slots : slots'[s].seen = FALSE
      BY <1>2, <1>7, <1>11, EmittedSlots
    <3> QED
      BY <3>1, Zenon
  <2>3. Reported(slots)'
    BY <1>11 DEF Reported, Held
  <2>4. ASSUME rest' = <<>> PROVE Between(slots)'
    BY <1>1, <1>8, <1>11, <2>1, <2>2, <2>4 DEF Between
  <2>5. rest' = <<>> /\ Fits => AllFound(slots')
    BY <1>6, <1>8, <2>1
  <2>6. rest' # <<>> => ~Fits
    BY <1>3, <1>4, <1>11 DEF Fits
  <2> QED
    BY <1>7, <1>9, <2>1, <2>3, <2>4, <2>5, <2>6
<1> QED
  BY <1>1, <1>2, <1>10, <1>11 DEF done

LEMMA TouchInit == Init => TouchInv
  BY CountInit, TrackedInit DEF TouchInv

LEMMA TouchNext == TouchInv /\ [Next]_vars => TouchInv'
<1> SUFFICES ASSUME TouchInv, [Next]_vars PROVE TouchInv'
  OBVIOUS
<1>1. CountInv'
  BY CountNext DEF TouchInv
<1>2. CASE UNCHANGED vars
  <2>1. Tracked'
    BY <1>2 DEF vars, device, driver, ghosts, TouchInv, Tracked, Aligned, Shifted, Settled,
                Held, Home, ToCome, Reported, Between, AllFound, Fits, Found
  <2> QED
    BY <1>1, <2>1 DEF TouchInv
<1> QED
  BY <1>1, <1>2, TrackedSend, TrackedPacket, TrackedProbe, TrackedCount, TrackedEvent
     DEF Next, TouchInv

LEMMA AlwaysTouchInv == Spec => []TouchInv
  BY TouchInit, TouchNext, PTL DEF Spec

\* A frame of any number of packets is reported once, when its last contact is in,
\* and the input layer then has the fingers that are on the panel: whatever the
\* class, the packet size, and the moment at which mt_probe() comes.
THEOREM AlwaysReportMatches == Spec => []ReportMatches
<1>1. TouchInv => ReportMatches
  <2> SUFFICES ASSUME TouchInv, FrameOver, Aligned
               PROVE  /\ emits = 1
                      /\ ~Shifted /\ Cardinality(frame) <= maxcontacts
                           => {reported[s] : s \in Slots} \ {None} = fingers
    BY DEF ReportMatches
  <2>1. whole /\ rest = <<>> /\ slots # NoSlots
    BY DEF FrameOver, TouchInv, CountInv, Before
  <2>2. emits = 1
    BY <2>1 DEF TouchInv, CountInv, Counted
  <2>3. ASSUME ~Shifted, Cardinality(frame) <= maxcontacts
        PROVE  {reported[s] : s \in Slots} \ {None} = fingers
    <3>1. Between(slots) /\ AllFound(slots)
      BY <2>1, <2>3 DEF TouchInv, Tracked, Fits
    <3>2. fingers \subseteq Nat
      BY Panel DEF TouchInv, CountInv, PanelOK
    <3>3. None \notin fingers
      BY <3>2 DEF None
    <3>4. ASSUME NEW f \in fingers PROVE \E s \in Slots : reported[s] = f
      <4>1. PICK s \in Slots : slots[s].touch_state /\ slots[s].contactid = f
        BY <3>1 DEF AllFound
      <4> QED
        BY <3>1, <4>1 DEF Between
    <3>5. ASSUME NEW s \in Slots, reported[s] # None PROVE reported[s] \in fingers
      BY <3>1, <3>5 DEF Between
    <3> QED
      BY <3>3, <3>4, <3>5
  <2> QED
    BY <2>2, <2>3
<1> QED
  BY <1>1, AlwaysTouchInv, PTL

\* A finger stays in its slot, and a slot is reported up before it has another
\* finger: no report of mt_emit_event() moves a finger to another slot or passes a
\* slot on to another finger.
THEOREM AlwaysTracksFingers == Spec => TracksFingers
<1>1. ASSUME TouchInv, [Next]_vars, Aligned, ~Shifted, NEW s \in Slots, NEW r \in Slots,
             reported[s] # None, reported'[r] # None
      PROVE  reported[s] = reported'[r] <=> s = r
  <2>1. slots # NoSlots
    BY <1>1 DEF TouchInv, CountInv, Before
  <2>2. Settled(slots, ToCome(rest)) /\ Reported(slots)
    BY <1>1, <2>1 DEF TouchInv, Tracked
  <2>3. CASE reported' = reported
    BY <1>1, <2>2, <2>3 DEF Reported, Settled
  <2>4. CASE mt_event /\ reported' # reported
    <3> DEFINE done == mt_complete_slot(Head(rest))
    <3>1. /\ slots \in [Slots -> SlotStates] /\ done \in [Slots -> SlotStates]
          /\ slots' = Emitted(done) /\ left > 0
          /\ reported' = [q \in Slots |->
                 IF slots'[q].touch_state THEN slots'[q].contactid ELSE None]
      BY <1>1, <2>1, <2>4, EventCases DEF TouchInv
    <3>2. Settled(done, ToCome(Tail(rest))) /\ Reported(done)
      BY <1>1, <2>2, <3>1, Completed DEF TouchInv
    <3>3. panel \in Panels
      BY <1>1 DEF TouchInv, CountInv, PanelOK
    <3> HIDE DEF done
    <3>4. Held(done, r) /\ reported'[r] = done[r].contactid
      <4>1. /\ slots'[r].contactid = done[r].contactid
            /\ slots'[r].touch_state => done[r].touch_state
        <5>1. \A q \in Slots :
                /\ Emitted(done)[q].contactid = done[q].contactid
                /\ Emitted(done)[q].touch_state
                     <=> done[q].touch_state /\ (panel.class.up => done[q].seen)
          BY <3>1, <3>3, EmittedSlots
        <5> QED
          BY <3>1, <5>1, Zenon
      <4> QED
        BY <1>1, <3>1, <4>1 DEF Held
    <3>5. Held(done, s) /\ reported[s] = done[s].contactid
      BY <1>1, <3>2 DEF Reported
    <3> QED
      BY <3>2, <3>4, <3>5 DEF Settled
  <2>5. UNCHANGED vars \/ SendFrame \/ NextPacket \/ mt_probe \/ ContactCount
          => reported' = reported
    BY DEF vars, driver, SendFrame, NextPacket, mt_probe, ContactCount
  <2> QED
    BY <1>1, <2>3, <2>4, <2>5 DEF Next
<1> DEFINE Tracks == Aligned /\ ~Shifted =>
             \A s, r \in Slots :
               reported[s] # None /\ reported'[r] # None
                 => (reported[s] = reported'[r] <=> s = r)
<1>2. TouchInv /\ [Next]_vars => [Tracks]_vars
  BY <1>1
<1> QED
  BY <1>2, AlwaysTouchInv, PTL DEF Spec, TracksFingers
=============================================================================
