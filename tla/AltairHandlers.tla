--------------------------- MODULE AltairHandlers ---------------------------
(***************************************************************************)
(* The request handlers and timed callbacks of altair-ril.c, in the        *)
(* language of AtHandler.  Functions that are the reference code unchanged *)
(* are taken from ReferenceHandlers.  The requests of the VoLTE build      *)
(* (RIL_FEATURE_ENABLE_VOLTE) are in the table beside the others.  The     *)
(* modem is always LTE, so the handlers for CDMA modems are never reached. *)
(***************************************************************************)
EXTENDS AtHandler, TLC

CONSTANTS PppRetry, RepollMax,
          Retransmit,      \* NUM_OF_RETRANSMIT
          MaxRounds        \* bound: AT+CGCONTRDP commands for one list

Reference == INSTANCE ReferenceHandlers

FixedAnswer == Fn("null", <<Done>>)

(***************************************************************************)
(* Functions called by handlers.                                           *)
(***************************************************************************)

\* A command is repeated after an error result or a failure; the caller is
\* handed the last response, which is freed by then unless it succeeded.
at_send_command_reliable_interenal(kind, go, fail, err) ==
  LET send[n \in 0..Retransmit] ==
        IF n = 0 THEN <<Send(kind, <<Free>> \o fail, <<Free>> \o err)>> \o go
        ELSE <<Try(kind, <<Free>> \o send[n - 1])>> \o go
  IN  send[Retransmit]

\* pollSIMState() is left at its first test: no state of this RIL is
\* RADIO_STATE_SIM_NOT_READY.
pollSIMState == Fn("null", <<>>)

setRadioStateOn == Fn("null", <<Maybe(Return), Call(pollSIMState)>>)

getSIMStatus == Reference!getSIMStatus

isRadioOn == Reference!isRadioOn

\* Neither path frees the response.
getPdnTable ==
  LET error == <<Result("error")>>
  IN  Fn("null", <<Try("multi", error), Deref, Maybe(error), Result("ok")>>)

getPdnByApnName ==
  Fn("null", <<Call(getPdnTable), Returned("error", Return),
               Maybe(<<Result("error")>>)>>)

isDelayAtChannel == Either({<<>>, <<Tell>>})

\* ifc_config() may fail after the modem has agreed.
activateDataSessionPdn ==
  LET exit == <<Free, Result("error")>>
  IN  Fn("null", <<isDelayAtChannel,
                   Case("plain", <<Result("ok")>>, <<Result("error")>>),
                   isDelayAtChannel, Returned("error", exit), Maybe(exit), Free>>)

\* Both return err: a refusal by the modem counts as success.
disconnectLTE ==
  Fn("null", <<Borrow("plain", <<Free, Result("error")>>), Free, Result("ok")>>)

connectLTE ==
  Fn("null", <<GiveBack("plain", <<Free, Result("error")>>), Free, Result("ok")>>)

getConnectModeAndPlmnName ==
  Fn("null", <<Check("null", <<Free>>), Try("single", <<Free>>), Line,
               Maybe(<<Free>>), Free>>)

requestSignalStrength_helper ==
  LET error == <<Free, Result("error")>>
  IN  Fn("null", <<Try("single", error), Line, Maybe(error), Free, Result("ok")>>)

\* at_handshake() is ATChannel's; here it is one command.
initializeCallback ==
  Fn("null", <<Tell, isDelayAtChannel>> \o Tells(8)
             \o <<Call(isRadioOn), Maybe(Return), Call(setRadioStateOn)>>)

(***************************************************************************)
(* Radio, SIM and data calls.                                              *)
(***************************************************************************)

\* The data interfaces are taken down first.
requestRadioPower ==
  LET error == FreeDone
      test  == <<Call(isRadioOn), Maybe(error), Call(setRadioStateOn)>> \o FreeDone
      off   == <<Call(getPdnTable), Returned("error", error), Maybe(error)>>
               \o at_send_command_reliable_interenal("plain", FreeDone,
                                                     <<Deref>> \o error, error)
      on    == at_send_command_reliable_interenal("plain",
                 <<Call(setRadioStateOn)>> \o FreeDone, <<Deref>> \o test, test)
  IN  Fn("null", <<Goto({off, on, FreeDone})>>)

\* One AT+CGCONTRDP for each active PDN, into the same pointer.  Looking up the
\* cid of an answer overwrites the index of the loop, and compares with entries
\* not yet filled in: an answer for another PDN sends the loop back or ahead, so
\* that a list may take any number of rounds.  An address without a mask is
\* written to through NULL.
requestOrSendDataCallList(report, given) ==
  LET error == report \o <<Free>>
      list[n \in 0..MaxRounds] ==
        IF n = 0 THEN <<Free>> \o report
        ELSE <<Try("multi", error), Deref, Either({<<>>, <<Wild>>}),
               Maybe(error)>> \o list[n - 1]
      table == <<Call(getPdnTable), Returned("error", error)>>
  IN  Fn("null", IF given THEN list[1]
                 ELSE table \o <<Goto({list[n] : n \in 0..MaxRounds})>>)

requestDataCallList == requestOrSendDataCallList(<<Done>>, FALSE)
onDataCallListChanged == requestOrSendDataCallList(<<>>, FALSE)

\* An unknown APN is defined with AT%APNN and looked for once more.
requestSetupDataCall ==
  LET error == DoneFree
      again == <<Tell, Call(getPdnByApnName), Returned("error", error)>>
  IN  Fn("null", <<Call(getPdnByApnName), If("ret", "error", again, <<>>),
                   Call(activateDataSessionPdn), Returned("error", error),
                   Call(requestOrSendDataCallList(<<Done>>, TRUE)), Free>>)

\* mutant: the return before the error label is missing
requestDeactivateDataCallFallsThrough ==
  LET error == <<Done>>
  IN  Fn("null", <<Call(getPdnTable), Returned("error", error),
                   Either({<<>>, <<Wild>>}),
                   Check("null", error), Maybe(error), Done>> \o error)

\* The comma in the condition of the search drops its bound: a cid that is not
\* in the table is looked for beyond it, and the test after the loop never
\* fails.  What is found there gives the session that is deactivated.
requestDeactivateDataCall ==
  LET error == <<Done>>
  IN  Fn("null", <<Call(getPdnTable), Returned("error", error),
                   Either({<<>>, <<Wild>>}),
                   Check("null", error), Maybe(error), Done>>)

requestSIM_IO ==
  Fn("null", <<Try("single", DoneFree), Line, Maybe(DoneFree), Reply, Free>>)

requestEnterSimPin ==
  Fn("null", <<Maybe(DoneFree), Try("single", DoneFree)>> \o DoneFree)

GET_SIM_STATUS == Fn("null", <<Call(getSIMStatus), Done>>)

NumericRequest == Reference!NumericRequest

DELETE_SMS_ON_SIM == Reference!DELETE_SMS_ON_SIM

\* The version is asked for twice when the first prefix finds no line; only
\* the intermediate line is tested.
requestLteBaseBandVersion ==
  LET error  == DoneFree
      reply  == <<Line, Maybe(error), Reply, Free>>
      second == <<Try("single", error)>> \o reply
  IN  Fn("null", <<Try("single", second)>> \o reply)

(***************************************************************************)
(* Calls and messages.                                                     *)
(***************************************************************************)

requestDial == Fn("null", <<Try("single", DoneFree)>> \o DoneFree)

requestHangup == Fn("null", <<Tell, Done>>)

ANSWER == Reference!ANSWER

SEPARATE_CONNECTION == Reference!SEPARATE_CONNECTION

requestGetCurrentCallsVoLTE == Reference!requestGetCurrentCalls

requestGetLastCallFailCause ==
  Fn("null", <<Try("single", FreeDone), Line, Maybe(FreeDone)>> \o DoneFree)

requestQuaryCallWaiting ==
  Fn("null", <<Try("single", FreeDone), Line, Maybe(FreeDone)>> \o DoneFree)

requestSetCallWaiting == Fn("null", <<Try("plain", DoneFree)>> \o DoneFree)

requestWriteSmsToSim == Reference!requestWriteSmsToSim

\* The response of a message that was sent is not freed.
sendCdmaFormatedSMS ==
  Fn("null", <<Maybe(FreeDone), Try("single", FreeDone), Line, Maybe(FreeDone), Done>>)

requestSendSMS ==
  Fn("null", <<Try("single", DoneFree), Line, Maybe(DoneFree)>> \o DoneFree)

\* Only 3GPP2 is supported.
RequestImsSendSms ==
  Fn("null", <<Goto({<<Done>>, <<Call(sendCdmaFormatedSMS)>>})>>)

requestCdmaSendSMS == Fn("null", <<Call(sendCdmaFormatedSMS)>>)

requestSMSAcknowledge == Reference!requestSMSAcknowledge

\* Success falls into the error path here too.
requestCDMASMSAcknowledge == Fn("null", <<Tell, Done, Done>>)

(***************************************************************************)
(* Network.                                                                *)
(***************************************************************************)

requestQueryNetworkSelectionMode == Reference!requestQueryNetworkSelectionMode

requestSignalStrength ==
  Fn("null", <<Call(requestSignalStrength_helper), Returned("error", <<Done>>)>>
             \o [i \in 1..4 |-> Call(requestSignalStrength_helper)] \o <<Done>>)

\* Only err is tested: an error result has no line to parse.
requestRegistrationState ==
  Fn("null", <<Check("single", DoneFree), Line, Maybe(DoneFree),
               Either({<<>>, <<Call(getPdnTable)>>})>> \o DoneFree)

\* The same, three times, and each answer overwrites the one before.
requestOperator ==
  LET round == <<Check("null", DoneFree), Check("single", DoneFree), Line,
                 Maybe(DoneFree)>>
  IN  Fn("null", round \o round \o round \o <<Reply, Free>>)

requestSetNetworkSelectionAutomatic ==
  LET error == <<Done>>
  IN  Fn("null", <<Call(getConnectModeAndPlmnName), Maybe(<<Done>>),
                   Call(disconnectLTE), Returned("error", error),
                   Check("null", error),
                   Call(connectLTE), Returned("error", error), Done>>)

requestSetNetworkSelectionManual ==
  LET error   == <<Done>>
      connect == <<Call(connectLTE), Returned("error", error), Done>>
  IN  Fn("null", <<Call(getConnectModeAndPlmnName), Maybe(connect),
                   Call(disconnectLTE), Returned("error", error),
                   Try("plain", <<Free>> \o error), Free>> \o connect)

requestQueryAvailableNetworksDetached ==
  Fn("null", <<Call(disconnectLTE), Returned("error", DoneFree),
               Try("single", DoneFree), Line, Reply, Free>>)

\* A failed search leaves the modem detached.
requestQueryAvailableNetworks ==
  LET error == DoneFree
  IN  Fn("null", <<Call(disconnectLTE), Returned("error", error),
                   Try("single", error), Line,
                   Call(connectLTE), Returned("error", error), Reply, Free>>)

(***************************************************************************)
(* onRequest(): the table.  Requests with the same handler appear once.    *)
(***************************************************************************)

AltairRequests ==
  "GET_SIM_STATUS" :> GET_SIM_STATUS
  @@ "GET_CURRENT_CALLS" :> FixedAnswer
  @@ "GET_CURRENT_CALLS_VOLTE" :> requestGetCurrentCallsVoLTE
  @@ "DIAL" :> requestDial @@ "HANGUP" :> requestHangup
  @@ "ANSWER" :> ANSWER @@ "SEPARATE_CONNECTION" :> SEPARATE_CONNECTION
  @@ "SIGNAL_STRENGTH" :> requestSignalStrength
  @@ "REGISTRATION_STATE" :> requestRegistrationState
  @@ "OPERATOR" :> requestOperator @@ "RADIO_POWER" :> requestRadioPower
  @@ "SEND_SMS" :> requestSendSMS @@ "CDMA_SEND_SMS" :> requestCdmaSendSMS
  @@ "IMS_SEND_SMS" :> RequestImsSendSms
  @@ "SETUP_DATA_CALL" :> requestSetupDataCall
  @@ "DEACTIVATE_DATA_CALL" :> requestDeactivateDataCall
  @@ "SMS_ACKNOWLEDGE" :> requestSMSAcknowledge
  @@ "CDMA_SMS_ACKNOWLEDGE" :> requestCDMASMSAcknowledge
  @@ "GET_IMSI" :> NumericRequest @@ "SIM_IO" :> requestSIM_IO
  @@ "DATA_CALL_LIST" :> requestDataCallList
  @@ "QUERY_NETWORK_SELECTION_MODE" :> requestQueryNetworkSelectionMode
  @@ "WRITE_SMS_TO_SIM" :> requestWriteSmsToSim
  @@ "DELETE_SMS_ON_SIM" :> DELETE_SMS_ON_SIM
  @@ "ENTER_SIM_PIN" :> requestEnterSimPin
  @@ "BASEBAND_VERSION" :> requestLteBaseBandVersion
  @@ "LAST_CALL_FAIL_CAUSE" :> requestGetLastCallFailCause
  @@ "QUERY_CALL_WAITING" :> requestQuaryCallWaiting
  @@ "SET_CALL_WAITING" :> requestSetCallWaiting
  @@ "SET_NETWORK_SELECTION_MANUAL" :> requestSetNetworkSelectionManual
  @@ "SET_NETWORK_SELECTION_AUTOMATIC" :> requestSetNetworkSelectionAutomatic
  @@ "QUERY_AVAILABLE_NETWORKS" :> requestQueryAvailableNetworks

AltairCallbacks ==
  "initializeCallback" :> initializeCallback
  @@ "onDataCallListChanged" :> onDataCallListChanged
=============================================================================
