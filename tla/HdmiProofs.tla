------------------------------ MODULE HdmiProofs ------------------------------
(***************************************************************************)
(* Theorems about the HDMI driver, for any set of video modes and any      *)
(* number of changes of the cable: how far the clocks can get out of       *)
(* balance over suspend, resume and blank, and that every step of the      *)
(* driver is a step of module Hotplug or leaves what its users see as it   *)
(* was.                                                                    *)
(***************************************************************************)
EXTENDS Hdmi, TLAPS

-----------------------------------------------------------------------------
(* Types and clocks                                                        *)

\* TypeOK, in the two parts that the provers treat differently.
FlagsOK ==
  /\ cable \in BOOLEAN /\ pol \in BOOLEAN /\ masked \in BOOLEAN
  /\ hdmi_inited \in BOOLEAN /\ fb_reg \in BOOLEAN /\ registered \in BOOLEAN
  /\ cable_plugin \in BOOLEAN /\ unblanked \in BOOLEAN /\ suspended \in BOOLEAN
  /\ phy_enabled \in BOOLEAN /\ dft_mode_set \in BOOLEAN
  /\ requesting_vga \in BOOLEAN /\ reported \in BOOLEAN /\ lit \in BOOLEAN

DataOK ==
  /\ plugs \in 0..MaxPlugs /\ suspends \in 0..MaxSuspends
  /\ work \in WorkStates /\ store \in {"idle", "phy", "phy_init"}
  /\ target \in Modes \cup {"none"} /\ var \in Modes \cup {"none"}
  /\ previous_mode \in Modes \cup {"none"}
  /\ previous_non_vga_mode \in Modes \cup {"none"}
  /\ modelist \subseteq Modes

\* A framebuffer is registered and suspended only after the driver is initialised,
\* and before that the clocks are off.  A resume is one of those that a suspend had
\* begun, so that no more of them crossed than there were suspends.
Clocked ==
  /\ fb_reg \/ suspended => hdmi_inited
  /\ ~hdmi_inited => clk = 0
  /\ clk \in Int /\ suspends \in Nat /\ crossed \in Nat
  /\ crossed + (IF suspended THEN 1 ELSE 0) <= suspends

\* The inductive invariant for the types and the clocks.
ClockInv == FlagsOK /\ DataOK /\ Clocked /\ ClocksBalanced

\* It holds initially.
LEMMA InitClock == Init => ClockInv
<1> SUFFICES ASSUME Init PROVE ClockInv
  OBVIOUS
<1>1. FlagsOK
  BY DEF Init, FlagsOK
<1>2. DataOK
  BY HdmiAssumption DEF Init, DataOK, WorkStates
<1>3. Clocked /\ ClocksBalanced
  BY DEF Init, Clocked, ClocksBalanced, Expected
<1> QED
  BY <1>1, <1>2, <1>3 DEF ClockInv

\* Flags stay flags.
LEMMA NextFlags == FlagsOK /\ [Next]_vars => FlagsOK'
<1> SUFFICES ASSUME FlagsOK, [Next]_vars PROVE FlagsOK'
  OBVIOUS
<1> USE DEF FlagsOK, line, irq, fb, power, mode, list, history
<1>1. CASE Plug
  BY <1>1 DEF Plug
<1>2. CASE mxc_hdmi_hotplug
  BY <1>2 DEF mxc_hdmi_hotplug
<1>3. CASE hotplug_worker
  BY <1>3 DEF hotplug_worker
<1>4. CASE mxc_hdmi_cable_connected
  BY <1>4 DEF mxc_hdmi_cable_connected
<1>5. CASE mxc_hdmi_read_edid
  BY <1>5 DEF mxc_hdmi_read_edid
<1>6. CASE mxc_hdmi_set_mode
  BY <1>6 DEF mxc_hdmi_set_mode, Nearest
<1>7. CASE WorkerSetup
  BY <1>7 DEF WorkerSetup, SaveMode
<1>8. CASE WorkerPhyTest
  BY <1>8 DEF WorkerPhyTest
<1>9. CASE WorkerPhyInit
  BY <1>9 DEF WorkerPhyInit
<1>10. CASE mxc_hdmi_set_mode_to_vga_dvi
  BY <1>10, ZenonT(60) DEF mxc_hdmi_set_mode_to_vga_dvi
<1>11. CASE VgaSet
  <2>1. phy_enabled' \in BOOLEAN
    BY <1>11 DEF VgaSet, ModeChange, SaveMode, mxc_hdmi_phy_init
  <2> QED
    BY <1>11, <2>1, ZenonT(60) DEF VgaSet
<1>12. CASE mxc_hdmi_notify_fb
  BY <1>12, ZenonT(60) DEF mxc_hdmi_notify_fb
<1>13. CASE ModeSet
  BY <1>13 DEF ModeSet, ModeChange, SaveMode, mxc_hdmi_phy_init
<1>14. CASE PlugInReported
  <2>1. CASE pol' = FALSE /\ UNCHANGED reported
    BY <1>14, <2>1, ZenonT(60) DEF PlugInReported
  <2>2. CASE reported' = TRUE /\ UNCHANGED pol
    BY <1>14, <2>2 DEF PlugInReported
  <2> QED
    BY <1>14, <2>1, <2>2 DEF PlugInReported, PlugIn
<1>15. CASE PlugOutReported
  BY <1>15, ZenonT(60) DEF PlugOutReported
<1>16. CASE mxc_hdmi_cable_disconnected
  <2>1. phy_enabled' \in BOOLEAN /\ cable_plugin' \in BOOLEAN
    BY <1>16, ZenonT(60) DEF mxc_hdmi_cable_disconnected
  <2> QED
    BY <1>16, <2>1, ZenonT(60) DEF mxc_hdmi_cable_disconnected
<1>17. CASE PlugOutPolarity
  BY <1>17, ZenonT(60) DEF PlugOutPolarity
<1>18. CASE Unmask
  BY <1>18, ZenonT(60) DEF Unmask
<1>19. CASE mxc_hdmi_disp_init
  BY <1>19 DEF mxc_hdmi_disp_init
<1>20. CASE mxc_hdmi_fb_registered
  BY <1>20 DEF mxc_hdmi_fb_registered
<1>21. CASE FB_EVENT_FB_UNREGISTERED
  BY <1>21, ZenonT(60) DEF FB_EVENT_FB_UNREGISTERED
<1>22. CASE FB_EVENT_MODE_CHANGE
  <2>1. phy_enabled' \in BOOLEAN
    BY <1>22 DEF FB_EVENT_MODE_CHANGE, ModeChange, SaveMode, mxc_hdmi_phy_init
  <2> QED
    BY <1>22, <2>1, ZenonT(60) DEF FB_EVENT_MODE_CHANGE
<1>23. CASE FB_EVENT_UNBLANK
  BY <1>23 DEF FB_EVENT_UNBLANK, SaveMode
<1>24. CASE FB_EVENT_BLANK
  BY <1>24 DEF FB_EVENT_BLANK
<1>25. CASE FB_EVENT_SUSPEND
  <2>1. phy_enabled' \in BOOLEAN
    BY <1>25 DEF FB_EVENT_SUSPEND
  <2> QED
    BY <1>25, <2>1, ZenonT(60) DEF FB_EVENT_SUSPEND
<1>26. CASE FB_EVENT_RESUME
  <2>1. phy_enabled' \in BOOLEAN
    BY <1>26 DEF FB_EVENT_RESUME, mxc_hdmi_phy_init
  <2> QED
    BY <1>26, <2>1, ZenonT(60) DEF FB_EVENT_RESUME
<1>27. CASE mxc_hdmi_power
  <2>1. phy_enabled' \in BOOLEAN
    BY <1>27, ZenonT(60) DEF mxc_hdmi_power, mxc_hdmi_phy_init
  <2> QED
    BY <1>27, <2>1, ZenonT(60) DEF mxc_hdmi_power
<1>28. CASE Store
  <2>1. CASE UNCHANGED phy_enabled
    BY <1>28, <2>1, ZenonT(60) DEF Store
  <2>2. CASE phy_enabled' = TRUE
    BY <1>28, <2>2, ZenonT(60) DEF Store
  <2> QED
    BY <1>28, <2>1, <2>2 DEF Store, mxc_hdmi_store
<1>29. CASE UNCHANGED vars
  BY <1>29 DEF vars
<1> QED   BY <1>1, <1>2, <1>3, <1>4, <1>5, <1>6, <1>7, <1>8, <1>9, <1>10, <1>11, <1>12,
     <1>13, <1>14, <1>15, <1>16, <1>17, <1>18, <1>19, <1>20, <1>21, <1>22, <1>23, <1>24,
     <1>25, <1>26, <1>27, <1>28, <1>29 DEF Next, Worker, Event

\* Names of modes stay names of modes, and the worker is at one of its steps.
LEMMA NextDataOK == DataOK /\ [Next]_vars => DataOK'
<1> SUFFICES ASSUME DataOK, [Next]_vars PROVE DataOK'
  OBVIOUS
<1> USE HdmiAssumption DEF DataOK, line, irq, fb, power, mode, list, history, WorkStates
<1>1. CASE Plug
  BY <1>1 DEF Plug
<1>2. CASE mxc_hdmi_hotplug
  BY <1>2 DEF mxc_hdmi_hotplug
<1>3. CASE hotplug_worker
  BY <1>3 DEF hotplug_worker
<1>4. CASE mxc_hdmi_cable_connected
  BY <1>4 DEF mxc_hdmi_cable_connected
<1>5. CASE mxc_hdmi_read_edid
  BY <1>5 DEF mxc_hdmi_read_edid
<1>6. CASE mxc_hdmi_set_mode
  BY <1>6 DEF mxc_hdmi_set_mode, Nearest
<1>7. CASE WorkerSetup
  BY <1>7 DEF WorkerSetup, SaveMode
<1>8. CASE WorkerPhyTest
  BY <1>8 DEF WorkerPhyTest
<1>9. CASE WorkerPhyInit
  BY <1>9 DEF WorkerPhyInit
<1>10. CASE mxc_hdmi_set_mode_to_vga_dvi
  BY <1>10 DEF mxc_hdmi_set_mode_to_vga_dvi
<1>11. CASE VgaSet
  BY <1>11 DEF VgaSet, ModeChange, SaveMode, mxc_hdmi_phy_init
<1>12. CASE mxc_hdmi_notify_fb
  BY <1>12 DEF mxc_hdmi_notify_fb
<1>13. CASE ModeSet
  BY <1>13 DEF ModeSet, ModeChange, SaveMode, mxc_hdmi_phy_init
<1>14. CASE PlugInReported
  BY <1>14 DEF PlugInReported, PlugIn
<1>15. CASE PlugOutReported
  BY <1>15 DEF PlugOutReported
<1>16. CASE mxc_hdmi_cable_disconnected
  BY <1>16 DEF mxc_hdmi_cable_disconnected
<1>17. CASE PlugOutPolarity
  BY <1>17 DEF PlugOutPolarity
<1>18. CASE Unmask
  BY <1>18 DEF Unmask
<1>19. CASE mxc_hdmi_disp_init
  BY <1>19 DEF mxc_hdmi_disp_init
<1>20. CASE mxc_hdmi_fb_registered
  BY <1>20 DEF mxc_hdmi_fb_registered
<1>21. CASE FB_EVENT_FB_UNREGISTERED
  BY <1>21 DEF FB_EVENT_FB_UNREGISTERED
<1>22. CASE FB_EVENT_MODE_CHANGE
  BY <1>22 DEF FB_EVENT_MODE_CHANGE, ModeChange, SaveMode, mxc_hdmi_phy_init
<1>23. CASE FB_EVENT_UNBLANK
  BY <1>23 DEF FB_EVENT_UNBLANK, SaveMode
<1>24. CASE FB_EVENT_BLANK
  BY <1>24 DEF FB_EVENT_BLANK
<1>25. CASE FB_EVENT_SUSPEND
  BY <1>25 DEF FB_EVENT_SUSPEND
<1>26. CASE FB_EVENT_RESUME
  BY <1>26 DEF FB_EVENT_RESUME, mxc_hdmi_phy_init
<1>27. CASE mxc_hdmi_power
  BY <1>27 DEF mxc_hdmi_power, mxc_hdmi_phy_init
<1>28. CASE Store
  BY <1>28 DEF Store, mxc_hdmi_store, SaveMode
<1>29. CASE UNCHANGED vars
  BY <1>29 DEF vars
<1> QED   BY <1>1, <1>2, <1>3, <1>4, <1>5, <1>6, <1>7, <1>8, <1>9, <1>10, <1>11, <1>12,
     <1>13, <1>14, <1>15, <1>16, <1>17, <1>18, <1>19, <1>20, <1>21, <1>22, <1>23, <1>24,
     <1>25, <1>26, <1>27, <1>28, <1>29 DEF Next, Worker, Event

\* Suspend switches the clocks off where it finds a picture and resume switches them
\* on where it finds one: the difference is one where the two find different states.
LEMMA NextClocks ==
  FlagsOK /\ Clocked /\ ClocksBalanced /\ [Next]_vars => (Clocked /\ ClocksBalanced)'
<1> SUFFICES ASSUME FlagsOK, Clocked, ClocksBalanced, [Next]_vars
             PROVE  (Clocked /\ ClocksBalanced)'
  OBVIOUS
<1> USE DEF FlagsOK, Clocked, ClocksBalanced, Expected, line, irq, fb, power, mode, list, history
<1>1. CASE Plug \/ mxc_hdmi_hotplug
  BY <1>1 DEF Plug, mxc_hdmi_hotplug
<1>2. CASE hotplug_worker \/ mxc_hdmi_cable_connected \/ mxc_hdmi_read_edid \/
        mxc_hdmi_set_mode \/ WorkerSetup \/ WorkerPhyTest \/ WorkerPhyInit \/
        mxc_hdmi_set_mode_to_vga_dvi \/ VgaSet \/ mxc_hdmi_notify_fb \/ ModeSet \/
        PlugInReported \/ PlugOutReported \/ mxc_hdmi_cable_disconnected \/
        PlugOutPolarity \/ Unmask
  BY <1>2 DEF hotplug_worker, mxc_hdmi_cable_connected, mxc_hdmi_read_edid,
       mxc_hdmi_set_mode, Nearest, WorkerSetup, SaveMode, WorkerPhyTest, WorkerPhyInit,
       mxc_hdmi_set_mode_to_vga_dvi, VgaSet, ModeChange, mxc_hdmi_phy_init,
       mxc_hdmi_notify_fb, ModeSet, PlugInReported, PlugIn, PlugOutReported,
       mxc_hdmi_cable_disconnected, PlugOutPolarity, Unmask
<1>3. CASE mxc_hdmi_disp_init
  BY <1>3 DEF mxc_hdmi_disp_init
<1>4. CASE mxc_hdmi_fb_registered
  BY <1>4 DEF mxc_hdmi_fb_registered
<1>5. CASE FB_EVENT_FB_UNREGISTERED
  BY <1>5 DEF FB_EVENT_FB_UNREGISTERED
<1>6. CASE FB_EVENT_MODE_CHANGE
  BY <1>6 DEF FB_EVENT_MODE_CHANGE, ModeChange, SaveMode, mxc_hdmi_phy_init
<1>7. CASE FB_EVENT_UNBLANK
  BY <1>7 DEF FB_EVENT_UNBLANK, SaveMode
<1>8. CASE FB_EVENT_BLANK
  BY <1>8 DEF FB_EVENT_BLANK
<1>9. CASE FB_EVENT_SUSPEND
  BY <1>9 DEF FB_EVENT_SUSPEND
<1>10. CASE FB_EVENT_RESUME
  BY <1>10 DEF FB_EVENT_RESUME, mxc_hdmi_phy_init
<1>11. CASE mxc_hdmi_power
  BY <1>11 DEF mxc_hdmi_power, mxc_hdmi_phy_init
<1>12. CASE Store
  BY <1>12 DEF Store, mxc_hdmi_store, SaveMode
<1>13. CASE UNCHANGED vars
  BY <1>13 DEF vars
<1> QED   BY <1>1, <1>2, <1>3, <1>4, <1>5, <1>6, <1>7, <1>8, <1>9, <1>10, <1>11, <1>12,
     <1>13 DEF Next, Worker, Event

-----------------------------------------------------------------------------
(* The hot plug interrupt                                                  *)

\* Where the worker is on its way to report that the cable is in.
PluggingIn == {"connected", "edid", "set_mode", "setup", "phy", "phy_init", "vga",
               "vga_set", "mode", "mode_set", "polarity", "report"}

\* The interrupt waits for the edge that the users do not know of: while the worker
\* does nothing, and when it starts and ends, the polarity is the opposite of what
\* was reported; on its way it goes by what it has not yet reported; and before the
\* framebuffer is registered the interrupt is masked and nothing goes on.
Turned ==
  /\ registered => hdmi_inited
  /\ ~registered => masked /\ work = "idle" /\ ~reported
  /\ hdmi_inited /\ work \in {"idle", "queued", "unmask"} => pol = ~reported
  /\ work \in PluggingIn \cup {"phy_off", "gone", "out"} => ~reported
  /\ work = "plugout" => reported
  /\ work = "report" => ~pol

\* The inductive invariant for the interrupt.
PlugInv == FlagsOK /\ DataOK /\ Turned

\* Nothing is masked, reported or under way before the driver is set up.
LEMMA InitTurned == Init => Turned
  BY DEF Init, Turned, PluggingIn

\* Every step keeps the polarity turned to what has not been reported.
LEMMA NextTurned == PlugInv /\ [Next]_vars => Turned'
<1> SUFFICES ASSUME PlugInv, [Next]_vars PROVE Turned'
  OBVIOUS
<1> USE DEF PlugInv, FlagsOK, Turned, PluggingIn, line, irq, fb, power, mode, list, history
<1>1. CASE Plug
  BY <1>1 DEF Plug
<1>2. CASE mxc_hdmi_hotplug
  BY <1>2 DEF mxc_hdmi_hotplug
<1>3. CASE hotplug_worker
  BY <1>3 DEF hotplug_worker
<1>4. CASE mxc_hdmi_cable_connected
  BY <1>4 DEF mxc_hdmi_cable_connected
<1>5. CASE mxc_hdmi_read_edid
  BY <1>5 DEF mxc_hdmi_read_edid
<1>6. CASE mxc_hdmi_set_mode
  BY <1>6 DEF mxc_hdmi_set_mode, Nearest
<1>7. CASE WorkerSetup
  BY <1>7 DEF WorkerSetup, SaveMode
<1>8. CASE WorkerPhyTest
  BY <1>8 DEF WorkerPhyTest
<1>9. CASE WorkerPhyInit
  BY <1>9 DEF WorkerPhyInit
<1>10. CASE mxc_hdmi_set_mode_to_vga_dvi
  BY <1>10 DEF mxc_hdmi_set_mode_to_vga_dvi
<1>11. CASE VgaSet
  BY <1>11 DEF VgaSet, ModeChange, SaveMode, mxc_hdmi_phy_init
<1>12. CASE mxc_hdmi_notify_fb
  BY <1>12 DEF mxc_hdmi_notify_fb
<1>13. CASE ModeSet
  BY <1>13 DEF ModeSet, ModeChange, SaveMode, mxc_hdmi_phy_init
<1>14. CASE PlugInReported
  BY <1>14 DEF PlugInReported, PlugIn
<1>15. CASE PlugOutReported
  BY <1>15 DEF PlugOutReported
<1>16. CASE mxc_hdmi_cable_disconnected
  BY <1>16 DEF mxc_hdmi_cable_disconnected
<1>17. CASE PlugOutPolarity
  BY <1>17 DEF PlugOutPolarity
<1>18. CASE Unmask
  BY <1>18 DEF Unmask
<1>19. CASE mxc_hdmi_disp_init
  BY <1>19 DEF mxc_hdmi_disp_init
<1>20. CASE mxc_hdmi_fb_registered
  BY <1>20 DEF mxc_hdmi_fb_registered
<1>21. CASE FB_EVENT_FB_UNREGISTERED
  BY <1>21 DEF FB_EVENT_FB_UNREGISTERED
<1>22. CASE FB_EVENT_MODE_CHANGE
  BY <1>22 DEF FB_EVENT_MODE_CHANGE, ModeChange, SaveMode, mxc_hdmi_phy_init
<1>23. CASE FB_EVENT_UNBLANK
  BY <1>23 DEF FB_EVENT_UNBLANK, SaveMode
<1>24. CASE FB_EVENT_BLANK
  BY <1>24 DEF FB_EVENT_BLANK
<1>25. CASE FB_EVENT_SUSPEND
  BY <1>25 DEF FB_EVENT_SUSPEND
<1>26. CASE FB_EVENT_RESUME
  BY <1>26 DEF FB_EVENT_RESUME, mxc_hdmi_phy_init
<1>27. CASE mxc_hdmi_power
  BY <1>27 DEF mxc_hdmi_power, mxc_hdmi_phy_init
<1>28. CASE Store
  BY <1>28 DEF Store, mxc_hdmi_store, SaveMode
<1>29. CASE UNCHANGED vars
  BY <1>29 DEF vars
<1> QED   BY <1>1, <1>2, <1>3, <1>4, <1>5, <1>6, <1>7, <1>8, <1>9, <1>10, <1>11, <1>12,
     <1>13, <1>14, <1>15, <1>16, <1>17, <1>18, <1>19, <1>20, <1>21, <1>22, <1>23, <1>24,
     <1>25, <1>26, <1>27, <1>28, <1>29 DEF Next, Worker, Event

-----------------------------------------------------------------------------
(* The driver implements Hotplug                                           *)

\* The refinement mapping of the worker: what it has noticed and not reported.
Noticed == work \in WorkStates \ {"idle", "phy_off", "gone", "out", "unmask"}

\* An initial state of the driver is one of Hotplug.
LEMMA InitMaps == Init => Abstract!Init
  BY DEF Init, Abstract!Init, WorkStates

\* A step that touches neither the worker nor what the users see is a stutter.
LEMMA StutterMaps ==
  ASSUME UNCHANGED <<cable, reported, registered>>, Noticed' = Noticed
  PROVE  UNCHANGED Abstract!vars
  BY DEF Abstract!vars, Noticed

\* Every step maps to a step of Hotplug or to a stutter.
LEMMA NextMaps == PlugInv /\ [Next]_vars => [Abstract!Next]_(Abstract!vars)
<1> SUFFICES ASSUME PlugInv, [Next]_vars PROVE [Abstract!Next]_(Abstract!vars)
  OBVIOUS
<1> USE DEF line, irq, fb, power, mode, list, history
<1>1. CASE Plug
  <2>1. Abstract!Plug
    BY <1>1 DEF Plug, Abstract!Plug
  <2> QED
    BY <2>1 DEF Abstract!Next
<1>2. CASE mxc_hdmi_hotplug
  <2>1. registered /\ work = "idle" /\ work' = "queued" /\ UNCHANGED <<cable, reported, registered>>
    BY <1>2 DEF mxc_hdmi_hotplug, PlugInv, Turned
  <2>2. cable # reported
    BY <1>2, <2>1 DEF mxc_hdmi_hotplug, PlugInv, Turned, FlagsOK
  <2>3. Abstract!Notice
    BY <2>1, <2>2 DEF Abstract!Notice, WorkStates
  <2> QED
    BY <2>3 DEF Abstract!Next
<1>3. CASE work = "report" /\ PlugInReported
  <2>1. work' = "unmask" /\ reported' = TRUE /\ ~reported /\ UNCHANGED <<cable, registered>>
    BY <1>3 DEF PlugInReported, PlugIn, PlugInv, Turned, PluggingIn
  <2>2. reported' = ~reported
    BY <2>1
  <2>3. Abstract!Report
    BY <1>3, <2>1, <2>2 DEF Abstract!Report, WorkStates
  <2> QED
    BY <2>3 DEF Abstract!Next
<1>4. CASE PlugOutReported
  <2>1. work = "plugout" /\ work' = "phy_off" /\ reported' = FALSE /\ reported
        /\ UNCHANGED <<cable, registered>>
    BY <1>4 DEF PlugOutReported, PlugInv, Turned
  <2>2. reported' = ~reported
    BY <2>1
  <2>3. Abstract!Report
    BY <2>1, <2>2 DEF Abstract!Report, WorkStates
  <2> QED
    BY <2>3 DEF Abstract!Next
<1>5. CASE mxc_hdmi_fb_registered
  <2>1. Abstract!Arm
    BY <1>5 DEF mxc_hdmi_fb_registered, Abstract!Arm
  <2> QED
    BY <2>1 DEF Abstract!Next
<1> USE StutterMaps DEF Noticed, WorkStates
<1>6. CASE hotplug_worker
  BY <1>6 DEF hotplug_worker
<1>7. CASE mxc_hdmi_cable_connected
  BY <1>7 DEF mxc_hdmi_cable_connected
<1>8. CASE mxc_hdmi_read_edid
  BY <1>8 DEF mxc_hdmi_read_edid
<1>9. CASE mxc_hdmi_set_mode
  BY <1>9 DEF mxc_hdmi_set_mode
<1>10. CASE WorkerSetup
  BY <1>10 DEF WorkerSetup
<1>11. CASE WorkerPhyTest
  BY <1>11 DEF WorkerPhyTest
<1>12. CASE WorkerPhyInit
  BY <1>12 DEF WorkerPhyInit
<1>13. CASE mxc_hdmi_set_mode_to_vga_dvi
  BY <1>13 DEF mxc_hdmi_set_mode_to_vga_dvi
<1>14. CASE VgaSet
  BY <1>14 DEF VgaSet
<1>15. CASE mxc_hdmi_notify_fb
  BY <1>15 DEF mxc_hdmi_notify_fb
<1>16. CASE ModeSet
  BY <1>16 DEF ModeSet
<1>17. CASE work = "polarity" /\ PlugInReported
  BY <1>17 DEF PlugInReported, PlugIn
<1>18. CASE mxc_hdmi_cable_disconnected
  BY <1>18 DEF mxc_hdmi_cable_disconnected
<1>19. CASE PlugOutPolarity
  BY <1>19 DEF PlugOutPolarity
<1>20. CASE Unmask
  BY <1>20 DEF Unmask
<1>21. CASE mxc_hdmi_disp_init
  BY <1>21 DEF mxc_hdmi_disp_init
<1>22. CASE FB_EVENT_FB_UNREGISTERED
  BY <1>22 DEF FB_EVENT_FB_UNREGISTERED
<1>23. CASE FB_EVENT_MODE_CHANGE
  BY <1>23 DEF FB_EVENT_MODE_CHANGE
<1>24. CASE FB_EVENT_UNBLANK
  BY <1>24 DEF FB_EVENT_UNBLANK
<1>25. CASE FB_EVENT_BLANK
  BY <1>25 DEF FB_EVENT_BLANK
<1>26. CASE FB_EVENT_SUSPEND
  BY <1>26 DEF FB_EVENT_SUSPEND
<1>27. CASE FB_EVENT_RESUME
  BY <1>27 DEF FB_EVENT_RESUME
<1>28. CASE mxc_hdmi_power
  BY <1>28 DEF mxc_hdmi_power
<1>29. CASE Store
  BY <1>29 DEF Store
<1>30. CASE UNCHANGED vars
  BY <1>30 DEF vars
<1>w. PlugInReported => work \in {"report", "polarity"}
  BY DEF PlugInReported, PlugIn
<1> QED
  BY <1>w, <1>1, <1>2, <1>3, <1>4, <1>5, <1>6, <1>7, <1>8, <1>9, <1>10, <1>11, <1>12,
     <1>13, <1>14, <1>15, <1>16, <1>17, <1>18, <1>19, <1>20, <1>21, <1>22, <1>23, <1>24,
     <1>25, <1>26, <1>27, <1>28, <1>29, <1>30 DEF Next, Worker, Event

-----------------------------------------------------------------------------
(* The theorems                                                            *)

\* Every variable keeps its type, and no more resumes crossed a change of the blank
\* state than there were suspends.
THEOREM TypeCorrect == Spec => []TypeOK
<1>1. ClockInv /\ [Next]_vars => ClockInv'
  BY NextFlags, NextDataOK, NextClocks DEF ClockInv
<1>2. ClockInv => TypeOK
  <2> SUFFICES ASSUME ClockInv PROVE TypeOK
    OBVIOUS
  <2>1. clk \in Int /\ crossed \in 0..suspends
    BY DEF ClockInv, Clocked
  <2> QED
    BY <2>1 DEF ClockInv, FlagsOK, DataOK, TypeOK
<1> QED
  BY <1>1, <1>2, InitClock, PTL DEF Spec

\* FB_EVENT_SUSPEND and FB_EVENT_RESUME go by the blank state each of them finds, and
\* FB_EVENT_BLANK may change it between the two, any number of times.  The enable
\* count of the clocks is right as long as every resume finds what its suspend had
\* found, and is wrong by no more than the number of resumes that did not.
THEOREM ClocksDriftByCrossings == Spec => []ClocksBalanced
<1>1. ClockInv /\ [Next]_vars => ClockInv'
  BY NextFlags, NextDataOK, NextClocks DEF ClockInv
<1>2. ClockInv => ClocksBalanced
  BY DEF ClockInv
<1> QED
  BY <1>1, <1>2, InitClock, PTL DEF Spec

\* The safety half of FollowsCable: whatever the cable, the worker, the events and
\* the sysfs files do, a change is reported only after it was noticed, is noticed
\* only when the cable differs from what was reported, and plugging in and out are
\* reported in turn.  mxc_hdmi_hotplug() relies on the polarity for that, and the
\* invariant is that hotplug_worker() leaves it turned to the unreported edge.
THEOREM ImplementsHotplug == Spec => Abstract!Safety
<1>1. Init => PlugInv
  BY InitClock, InitTurned DEF ClockInv, PlugInv
<1>2. PlugInv /\ [Next]_vars => PlugInv'
  BY NextFlags, NextDataOK, NextTurned DEF PlugInv
<1> QED
  BY <1>1, <1>2, InitMaps, NextMaps, PTL DEF Spec, Abstract!Safety
=============================================================================
