--------------------------- MODULE MCATReadline ---------------------------
(* Instances of ATReadline for TLC. *)
EXTENDS ATReadline

\* ">" and "sp" are ordinary text unless they form the SMS prompt
Letters == {"eol", ">", "sp"}
===========================================================================
