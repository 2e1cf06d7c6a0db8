-------------------------------- MODULE Hdmi --------------------------------
(***************************************************************************)
(* The hot plug, mode and power control of the HDMI transmitter driver     *)
(* (mxc_hdmi.c).  Four actors share struct mxc_hdmi: the interrupt, the    *)
(* hot plug worker, the framebuffer events (which run under the console    *)
(* lock, so one at a time) and the writers of the sysfs files.  Video      *)
(* modes are names; the registers are the polarity and the mask of the hot *)
(* plug interrupt.                                                         *)
(***************************************************************************)
EXTENDS Integers

CONSTANTS
  Modes,          \* video modes, "vga" among them
  DefaultMode,    \* dft_mode_str
  MaxPlugs,       \* how often the cable changes
  MaxSuspends     \* how often the framebuffer is suspended

ASSUME HdmiAssumption ==
  /\ Modes \subseteq STRING /\ {"vga", DefaultMode} \subseteq Modes
  /\ "none" \notin Modes /\ MaxPlugs \in Nat /\ MaxSuspends \in Nat

VARIABLES
  cable, plugs,         \* the hot plug line and how often it changed
  pol, masked,          \* HDMI_PHY_POL0 and the mask and mute registers
  work,                 \* hotplug_work: idle, queued or where it is
  store,                \* a writer of rgb_out_enable or hdcp_enable
  target,               \* the mode mxc_hdmi_set_mode() has found
  hdmi_inited, fb_reg, registered, cable_plugin, unblanked, suspended,
  phy_enabled, clk,     \* the PHY, and the enable count of the two clocks
  dft_mode_set, requesting_vga, var, previous_mode, previous_non_vga_mode,
  modelist,             \* the modes of the monitor
  suspends,             \* how often the framebuffer was suspended
  lit,                  \* the last suspend found a picture
  crossed,              \* resumes that found another blank state than their suspend
  reported              \* state of the switches hdmi and hdmi_audio

line == <<cable, plugs>>
irq == <<pol, masked>>
fb == <<hdmi_inited, fb_reg, registered, unblanked, suspended>>
power == <<phy_enabled, clk>>
mode == <<requesting_vga, var, previous_mode, previous_non_vga_mode>>
list == <<dft_mode_set, modelist, target>>
history == <<suspends, lit, crossed>>
vars == <<line, irq, work, store, fb, cable_plugin, power, mode, list, reported, history>>

Init ==
  /\ cable \in BOOLEAN /\ plugs = 0
  /\ pol = FALSE /\ masked = TRUE
  /\ work = "idle" /\ store = "idle" /\ target = "none"
  /\ hdmi_inited = FALSE /\ fb_reg = FALSE /\ registered = FALSE
  /\ cable_plugin = FALSE /\ unblanked = FALSE /\ suspended = FALSE
  /\ phy_enabled = FALSE /\ clk = 0
  /\ dft_mode_set = FALSE /\ requesting_vga = FALSE /\ var = "none"
  /\ previous_mode = "none" /\ previous_non_vga_mode = "none"
  /\ modelist = {} /\ reported = FALSE
  /\ suspends = 0 /\ lit = FALSE /\ crossed = 0

(***************************************************************************)
(* Helpers.                                                                *)
(***************************************************************************)

\* fb_find_nearest_mode(): the mode itself when the list has it.
Nearest(m, modes) == IF m \in modes THEN {m} ELSE modes

\* mxc_hdmi_phy_init() starts only with a framebuffer, a cable and a picture.
PhyMayInit == fb_reg /\ cable_plugin /\ unblanked

mxc_hdmi_phy_init == phy_enabled' = (phy_enabled \/ PhyMayInit)

\* mxc_hdmi_setup() up to the PHY: the mode is remembered, unless it is the
\* VGA mode the driver itself asks for on the way to another one.
SaveMode(m) ==
  /\ previous_mode' = m
  /\ previous_non_vga_mode' = IF requesting_vga THEN previous_non_vga_mode ELSE m

\* FB_EVENT_MODE_CHANGE, sent by fb_set_var(m).
ModeChange(m) ==
  /\ var' = m
  /\ IF fb_reg /\ previous_mode # m
       THEN SaveMode(m) /\ mxc_hdmi_phy_init
       ELSE UNCHANGED <<previous_mode, previous_non_vga_mode, phy_enabled>>

(***************************************************************************)
(* The cable and the interrupt.  The controller raises the interrupt while *)
(* the line has the polarity and the interrupt is not masked.              *)
(***************************************************************************)

Plug ==
  /\ plugs < MaxPlugs
  /\ cable' = ~cable /\ plugs' = plugs + 1
  /\ UNCHANGED <<irq, work, store, fb, cable_plugin, power, mode, list, reported, history>>

\* The handler masks its own interrupt until the worker is done, so the worker is
\* never queued while it runs.
mxc_hdmi_hotplug ==
  /\ ~masked /\ cable = pol
  /\ masked' = TRUE
  /\ work = "idle" /\ work' = "queued"
  /\ UNCHANGED <<line, pol, store, fb, cable_plugin, power, mode, list, reported, history>>

(***************************************************************************)
(* hotplug_worker(), 20 ms later, goes by the polarity.                    *)
(***************************************************************************)

hotplug_worker ==
  /\ work = "queued"
  /\ work' = IF pol THEN "connected" ELSE "plugout"
  /\ UNCHANGED <<line, irq, store, fb, cable_plugin, power, mode, list, reported, history>>

mxc_hdmi_cable_connected ==
  /\ work = "connected" /\ work' = "edid"
  /\ cable_plugin' = TRUE
  /\ UNCHANGED <<line, irq, store, fb, power, mode, list, reported, history>>

\* The EDID is the same as before, gives modes, or, after a second try, gives
\* none: then the default list is used.
mxc_hdmi_read_edid ==
  /\ work = "edid" /\ work' = "set_mode"
  /\ \/ modelist' \in {modes \in SUBSET Modes : "vga" \in modes}
     \/ modelist' = modelist
     \/ modelist' = Modes
  /\ UNCHANGED <<line, irq, store, fb, cable_plugin, power, mode, dft_mode_set,
                 target, reported, history>>

\* The default mode is looked for once, then the last mode that was not the
\* driver's own VGA request.
mxc_hdmi_set_mode ==
  /\ work = "set_mode"
  /\ dft_mode_set' = TRUE
  /\ target' \in Nearest(IF dft_mode_set THEN previous_non_vga_mode ELSE DefaultMode,
                         modelist)
  /\ work' = IF target' = previous_non_vga_mode THEN "setup" ELSE "vga"
  /\ UNCHANGED <<line, irq, store, fb, cable_plugin, power, mode, modelist, reported, history>>

\* The mode is the same: mxc_hdmi_setup() without the console lock, so an event
\* may come between the test in mxc_hdmi_phy_init() and its end.
WorkerSetup ==
  /\ work = "setup" /\ work' = "phy"
  /\ SaveMode(var)
  /\ UNCHANGED <<line, irq, store, fb, cable_plugin, power, requesting_vga, var, list,
                 reported, history>>

WorkerPhyTest ==
  /\ work = "phy" /\ work' = IF PhyMayInit THEN "phy_init" ELSE "polarity"
  /\ UNCHANGED <<line, irq, store, fb, cable_plugin, power, mode, list, reported, history>>

WorkerPhyInit ==
  /\ work = "phy_init" /\ work' = "polarity"
  /\ phy_enabled' = TRUE
  /\ UNCHANGED <<line, irq, store, fb, cable_plugin, clk, mode, list, reported, history>>

\* The mode is new: first VGA, then the mode.  mxc_hdmi_notify_fb() disables the
\* PHY and then waits for the console lock.
mxc_hdmi_set_mode_to_vga_dvi ==
  /\ work = "vga" /\ work' = "vga_set"
  /\ var' = "vga" /\ requesting_vga' = TRUE /\ phy_enabled' = FALSE
  /\ UNCHANGED <<line, irq, store, fb, cable_plugin, clk, previous_mode,
                 previous_non_vga_mode, list, reported, history>>

VgaSet ==
  /\ work = "vga_set" /\ work' = "mode"
  /\ ModeChange(var) /\ requesting_vga' = FALSE
  /\ UNCHANGED <<line, irq, store, fb, cable_plugin, clk, list, reported, history>>

mxc_hdmi_notify_fb ==
  /\ work = "mode" /\ work' = "mode_set"
  /\ var' = target /\ phy_enabled' = FALSE
  /\ UNCHANGED <<line, irq, store, fb, cable_plugin, clk, requesting_vga,
                 previous_mode, previous_non_vga_mode, list, reported, history>>

ModeSet ==
  /\ work = "mode_set" /\ work' = "polarity"
  /\ ModeChange(var)
  /\ UNCHANGED <<line, irq, store, fb, cable_plugin, clk, requesting_vga, list, reported, history>>

\* The interrupt is turned to the other edge before the users are told.
PlugIn ==
  \/ /\ work = "polarity" /\ work' = "report"
     /\ pol' = FALSE
     /\ UNCHANGED reported
  \/ /\ work = "report" /\ work' = "unmask"
     /\ reported' = TRUE
     /\ UNCHANGED pol

PlugInReported ==
  /\ PlugIn
  /\ UNCHANGED <<line, masked, store, fb, cable_plugin, power, mode, list, history>>

\* Plugging out: the users are told first.
PlugOutReported ==
  /\ work = "plugout" /\ work' = "phy_off"
  /\ reported' = FALSE
  /\ UNCHANGED <<line, irq, store, fb, cable_plugin, power, mode, list, history>>

mxc_hdmi_cable_disconnected ==
  /\ \/ work = "phy_off" /\ work' = "gone" /\ phy_enabled' = FALSE /\ UNCHANGED cable_plugin
     \/ work = "gone" /\ work' = "out" /\ cable_plugin' = FALSE /\ UNCHANGED phy_enabled
  /\ UNCHANGED <<line, irq, store, fb, clk, mode, list, reported, history>>

PlugOutPolarityKept ==
  /\ work = "out" /\ work' = "unmask"
  /\ UNCHANGED <<line, irq, store, fb, cable_plugin, power, mode, list, reported, history>>

PlugOutPolarity ==
  /\ work = "out" /\ work' = "unmask"
  /\ pol' = TRUE
  /\ UNCHANGED <<line, masked, store, fb, cable_plugin, power, mode, list, reported, history>>

Unmask ==
  /\ work = "unmask" /\ work' = "idle"
  /\ masked' = FALSE /\ target' = "none"
  /\ UNCHANGED <<line, pol, store, fb, cable_plugin, power, mode, dft_mode_set,
                 modelist, reported, history>>

Worker ==
  \/ hotplug_worker \/ mxc_hdmi_cable_connected \/ mxc_hdmi_read_edid
  \/ mxc_hdmi_set_mode \/ WorkerSetup \/ WorkerPhyTest \/ WorkerPhyInit
  \/ mxc_hdmi_set_mode_to_vga_dvi \/ VgaSet \/ mxc_hdmi_notify_fb \/ ModeSet
  \/ PlugInReported \/ PlugOutReported \/ mxc_hdmi_cable_disconnected
  \/ PlugOutPolarity \/ Unmask

(***************************************************************************)
(* The display driver: init, and the events of the framebuffer.  The core  *)
(* registers the framebuffer once and resumes what it suspended; other     *)
(* events may come in between.                                             *)
(***************************************************************************)

mxc_hdmi_disp_init ==
  /\ ~hdmi_inited
  /\ hdmi_inited' = TRUE
  /\ clk' = clk + 1 /\ unblanked' = FALSE /\ dft_mode_set' = FALSE
  /\ var' = DefaultMode /\ modelist' = Modes
  /\ pol' = TRUE
  /\ UNCHANGED <<line, masked, work, store, fb_reg, registered, suspended,
                 cable_plugin, phy_enabled, requesting_vga, previous_mode,
                 previous_non_vga_mode, target, reported, history>>

mxc_hdmi_fb_registered ==
  /\ hdmi_inited /\ ~registered
  /\ fb_reg' = TRUE /\ registered' = TRUE /\ masked' = FALSE
  /\ UNCHANGED <<line, pol, work, store, hdmi_inited, unblanked, suspended,
                 cable_plugin, power, mode, list, reported, history>>

FB_EVENT_FB_UNREGISTERED ==
  /\ fb_reg /\ fb_reg' = FALSE
  /\ UNCHANGED <<line, irq, work, store, hdmi_inited, registered, unblanked,
                 suspended, cable_plugin, power, mode, list, reported, history>>

FB_EVENT_MODE_CHANGE ==
  /\ fb_reg
  /\ \E m \in Modes : ModeChange(m)
  /\ UNCHANGED <<line, irq, work, store, fb, cable_plugin, clk, requesting_vga, list,
                 reported, history>>

\* A picture again: the transmitter is set up, if there is a cable.
FB_EVENT_UNBLANK ==
  /\ fb_reg /\ ~unblanked
  /\ unblanked' = TRUE
  /\ IF cable_plugin
       THEN SaveMode(var) /\ phy_enabled' = TRUE
       ELSE UNCHANGED <<previous_mode, previous_non_vga_mode, phy_enabled>>
  /\ UNCHANGED <<line, irq, work, store, hdmi_inited, fb_reg, registered, suspended,
                 cable_plugin, clk, requesting_vga, var, list, reported, history>>

FB_EVENT_BLANK ==
  /\ fb_reg /\ unblanked
  /\ unblanked' = FALSE /\ phy_enabled' = FALSE
  /\ UNCHANGED <<line, irq, work, store, hdmi_inited, fb_reg, registered, suspended,
                 cable_plugin, clk, mode, list, reported, history>>

FB_EVENT_SUSPENDWithCable ==
  /\ fb_reg /\ ~suspended /\ suspends < MaxSuspends
  /\ suspended' = TRUE /\ suspends' = suspends + 1 /\ lit' = unblanked /\ UNCHANGED crossed
  /\ IF phy_enabled THEN phy_enabled' = FALSE /\ clk' = clk - 1 ELSE UNCHANGED power
  /\ UNCHANGED <<line, irq, work, store, hdmi_inited, fb_reg, registered, unblanked,
                 cable_plugin, mode, list, reported>>

FB_EVENT_SUSPEND ==
  /\ fb_reg /\ ~suspended /\ suspends < MaxSuspends
  /\ suspended' = TRUE /\ suspends' = suspends + 1 /\ lit' = unblanked /\ UNCHANGED crossed
  /\ IF unblanked THEN phy_enabled' = FALSE /\ clk' = clk - 1 ELSE UNCHANGED power
  /\ UNCHANGED <<line, irq, work, store, hdmi_inited, fb_reg, registered, unblanked,
                 cable_plugin, mode, list, reported>>

FB_EVENT_RESUME ==
  /\ fb_reg /\ suspended /\ suspended' = FALSE
  /\ crossed' = IF lit = unblanked THEN crossed ELSE crossed + 1
  /\ UNCHANGED <<suspends, lit>>
  /\ IF unblanked THEN mxc_hdmi_phy_init /\ clk' = clk + 1 ELSE UNCHANGED power
  /\ UNCHANGED <<line, irq, work, store, hdmi_inited, fb_reg, registered, unblanked,
                 cable_plugin, mode, list, reported>>

\* The display driver's enable and disable.
mxc_hdmi_power ==
  /\ fb_reg
  /\ mxc_hdmi_phy_init \/ phy_enabled' = FALSE
  /\ UNCHANGED <<line, irq, work, store, fb, cable_plugin, clk, mode, list, reported, history>>

(***************************************************************************)
(* The sysfs files: mxc_hdmi_setup() in the writer's context, without a    *)
(* lock.                                                                   *)
(***************************************************************************)

mxc_hdmi_store ==
  \/ /\ hdmi_inited /\ store = "idle" /\ store' = "phy"
     /\ SaveMode(var) /\ UNCHANGED phy_enabled
  \/ /\ store = "phy" /\ store' = IF PhyMayInit THEN "phy_init" ELSE "idle"
     /\ UNCHANGED <<phy_enabled, previous_mode, previous_non_vga_mode>>
  \/ /\ store = "phy_init" /\ store' = "idle" /\ phy_enabled' = TRUE
     /\ UNCHANGED <<previous_mode, previous_non_vga_mode>>

Store ==
  /\ mxc_hdmi_store
  /\ UNCHANGED <<line, irq, work, fb, cable_plugin, clk, requesting_vga, var, list,
                 reported, history>>

(***************************************************************************)

Event ==
  \/ mxc_hdmi_disp_init \/ mxc_hdmi_fb_registered \/ FB_EVENT_FB_UNREGISTERED
  \/ FB_EVENT_MODE_CHANGE \/ FB_EVENT_UNBLANK \/ FB_EVENT_BLANK
  \/ FB_EVENT_SUSPEND \/ FB_EVENT_RESUME \/ mxc_hdmi_power

Next == Plug \/ mxc_hdmi_hotplug \/ Worker \/ Event \/ Store

\* The work queue runs the worker and an interrupt that is raised is taken.
Spec == Init /\ [][Next]_vars /\ WF_vars(mxc_hdmi_hotplug) /\ WF_vars(Worker)

(***************************************************************************)
(* Properties.                                                             *)
(***************************************************************************)

WorkStates == {"idle", "queued", "connected", "edid", "set_mode", "setup", "phy",
               "phy_init", "vga", "vga_set", "mode", "mode_set", "polarity", "report",
               "plugout", "phy_off", "gone", "out", "unmask"}

\* Every variable keeps its type.
TypeOK ==
  /\ cable \in BOOLEAN /\ pol \in BOOLEAN /\ masked \in BOOLEAN
  /\ hdmi_inited \in BOOLEAN /\ fb_reg \in BOOLEAN /\ registered \in BOOLEAN
  /\ cable_plugin \in BOOLEAN /\ unblanked \in BOOLEAN /\ suspended \in BOOLEAN
  /\ phy_enabled \in BOOLEAN /\ dft_mode_set \in BOOLEAN
  /\ requesting_vga \in BOOLEAN /\ reported \in BOOLEAN /\ lit \in BOOLEAN
  /\ plugs \in 0..MaxPlugs /\ clk \in Int
  /\ suspends \in 0..MaxSuspends /\ crossed \in 0..suspends
  /\ work \in WorkStates /\ store \in {"idle", "phy", "phy_init"}
  /\ target \in Modes \cup {"none"} /\ var \in Modes \cup {"none"}
  /\ previous_mode \in Modes \cup {"none"}
  /\ previous_non_vga_mode \in Modes \cup {"none"}
  /\ modelist \subseteq Modes

\* The clocks run, but for a suspend that found a picture.
Expected == IF suspended /\ lit THEN 0 ELSE 1

\* Suspend and resume go by the blank state each finds.  However often it changes in
\* between, the enable count comes out right if the resume finds the state that the
\* suspend had found, and each resume that does not puts it wrong by one at most,
\* for good.
ClocksBalanced ==
  hdmi_inited => Expected - crossed <= clk /\ clk <= Expected + crossed

Abstract == INSTANCE Hotplug WITH
  noticed <- work \in WorkStates \ {"idle", "phy_off", "gone", "out", "unmask"},
  armed <- registered

\* The driver follows the cable (module Hotplug), however often it changes while
\* the worker is still busy with an earlier change: interrupt, polarity and mask.
FollowsCable == Abstract!Spec
=============================================================================
