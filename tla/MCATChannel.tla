---------------------------- MODULE MCATChannel ----------------------------
(***************************************************************************)
(* Model-checking instances of ATChannel.  RilThread is the RIL event      *)
(* loop; SocketThread the AT socket thread of altair-ril.                  *)
(***************************************************************************)
EXTENDS ATChannel

CONSTANTS RilThread, SocketThread

RefCallers == {RilThread}
AltairCallers == {RilThread, SocketThread}
=============================================================================
