------------------------------ MODULE Hotplug ------------------------------
(***************************************************************************)
(* What the HDMI driver promises its users: it follows the cable.  A       *)
(* change is reported only after it was noticed, plugging in and out are   *)
(* reported in turn, and a cable that stays as it is is reported as it is. *)
(***************************************************************************)
VARIABLES
  cable,       \* the plug is in
  reported,    \* what the users were told last
  noticed,     \* a difference was seen and is not yet reported
  armed        \* the driver listens

vars == <<cable, reported, noticed, armed>>

Init == cable \in BOOLEAN /\ reported = FALSE /\ noticed = FALSE /\ armed = FALSE

Arm == armed' = TRUE /\ UNCHANGED <<cable, reported, noticed>>

Plug == cable' = ~cable /\ UNCHANGED <<reported, noticed, armed>>

Notice ==
  /\ armed /\ ~noticed /\ cable # reported
  /\ noticed' = TRUE
  /\ UNCHANGED <<cable, reported, armed>>

Report ==
  /\ noticed
  /\ reported' = ~reported /\ noticed' = FALSE
  /\ UNCHANGED <<cable, armed>>

Next == Arm \/ Plug \/ Notice \/ Report

\* What happens, and, with the fairness of noticing and reporting, what has to.
Safety == Init /\ [][Next]_vars

Spec == Safety /\ WF_vars(Notice) /\ WF_vars(Report)
=============================================================================
