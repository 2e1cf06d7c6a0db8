------------------------- MODULE ReferenceHandlers -------------------------
(***************************************************************************)
(* The request handlers and timed callbacks of reference-ril.c, in the     *)
(* language of AtHandler.  Each definition has the name of the function it *)
(* stands for.                                                             *)
(***************************************************************************)
EXTENDS AtHandler, TLC

CONSTANTS
  PppRetry,        \* polls of the ppp interface (POLL_PPP_SYSFS_RETRY)
  RepollMax        \* REPOLL_CALLS_COUNT_MAX

ASSUME RefAssumption == PppRetry \in Nat \ {0} /\ RepollMax \in Nat \ {0}

(***************************************************************************)
(* Functions called by handlers.                                           *)
(***************************************************************************)

onSIMReady == Fn("null", Tells(4))

\* "PH-NET PIN" returns without at_response_free().
getSIMStatus ==
  LET done == <<Free>>
  IN  Fn("null", <<Maybe(done), Send("single", <<Deref, Free>>, done), Line,
                   Maybe(done), Maybe(Return), Free, Null, Free>>)

pollSIMState ==
  Fn("null", <<Maybe(Return), Call(getSIMStatus), Maybe(Return), Call(onSIMReady)>>)

\* setRadioState(RADIO_STATE_ON) on the event loop; the other states run no
\* further code.
setRadioStateOn == Fn("null", <<Maybe(Return), Call(pollSIMState)>>)

isRadioOn == Fn("null", <<Try("single", <<Free>>), Line, Maybe(<<Free>>), Free>>)

query_ctec ==
  Fn("null", <<Maybe(Return), Try("single", <<Free>>), Line, Free>>)

\* The pointer has no initial value, and the success path keeps the response.
query_supported_techs ==
  Fn("uninit", <<Try("single", <<Free>>), Line, Maybe(<<Free>>)>>)

is_multimode_modem ==
  Fn("uninit", <<Call(query_ctec), Maybe(Return), Call(query_supported_techs)>>)

probeForModemMode ==
  Fn("uninit", <<Maybe(Return), Call(is_multimode_modem), Maybe(Return),
                 Send("single", <<Free>>, Return), Free>>)

\* The registration reports, asked for at start-up and again with AT+CSQ.
CregReport ==
  LET failed == <<Set("creg", TRUE)>>
      ok     == <<Set("creg", FALSE)>>
  IN  <<Case("plain", ok, <<Free, Case("plain", ok, failed)>>), Free>>

CgregReport ==
  <<Case("plain", <<Set("cgreg", FALSE)>>, <<Set("cgreg", TRUE)>>), Free>>

\* at_handshake() is ATChannel's; here it is one command.
initializeCallback ==
  Fn("null",
     <<Tell, Call(probeForModemMode)>> \o Tells(3) \o CregReport \o CgregReport
     \o Tells(9) \o <<Call(isRadioOn), Maybe(Return), Call(setRadioStateOn)>>)

\* UiccType is a static cache, looked at first.
getUICCType ==
  Fn("null", <<Maybe(Return), Try("single", <<Free>>), Line, Free>>)

(***************************************************************************)
(* Messages stored by the modem, data calls.                               *)
(***************************************************************************)

\* Early returns keep the response and leave the modem with another message
\* storage (AT+CPMS); the second answer overwrites the first.
readNewSms ==
  LET error   == <<Free>>
      restore == <<Case("null", <<Set("owed", FALSE)>>, <<>>), Free>>
  IN  Fn("uninit", <<Try("single", Return), Line, Maybe(error),
                     Case("null", <<Set("owed", TRUE)>>, <<>>),
                     Try("multi", Return), Deref, Maybe(restore), Tell>> \o restore)

\* report is RIL_onRequestComplete() when there is a token and nothing (an
\* unsolicited response) when there is none.
requestOrSendDataCallList(report) ==
  LET error == report \o <<Free>>
  IN  Fn("uninit", <<Try("multi", report), Deref, Maybe(error), Free,
                     Try("multi", report), Deref, Maybe(error), Free>> \o report)

requestDataCallList == requestOrSendDataCallList(<<Done>>)
onDataCallListChanged == requestOrSendDataCallList(<<>>)

requestDeactivateDataCall == Fn("null", <<Set("pppd_runs", FALSE), Tell, Done>>)

\* A pppd that was started is stopped before another one starts.
StopPppd ==
  <<If("pppd", TRUE, <<Set("pppd_runs", FALSE), Set("pppd", FALSE)>>, <<>>)>>

\* An unknown modem uses /dev/qmi or a plain dial, the others pppd, whose
\* interface is polled until it is up or pppd has exited.
requestSetupDataCall ==
  LET error     == DoneFree
      ppp_error == <<Tell>> \o StopPppd \o error
      ok        == <<Call(requestDataCallList), Free>>
      wait[n \in 0..PppRetry] ==
        IF n = 0 THEN ppp_error ELSE <<Goto({ok, ppp_error, wait[n - 1]})>>
      dial   == Tells(5) \o <<Try("plain", error)>>
      amazon == Tells(3) \o <<Check("null", error)>>
      start  == <<Set("pppd", TRUE), Maybe(ppp_error), Set("pppd_runs", TRUE)>>
      ppp    == StopPppd \o <<Either({dial, amazon})>> \o start \o wait[PppRetry]
  IN  Fn("null", <<Goto({error, ok, dial \o ok, ppp})>>)

(***************************************************************************)
(* Calls.                                                                  *)
(***************************************************************************)

\* AT+CLCC: what was incoming at the last poll is forgotten first.
AskCalls == <<Set("incoming", FALSE), Try("multi", <<Done>>), Deref>>

\* A call that was incoming at the last poll, is active now and was never
\* answered is reported as an error, to have the framework ask again.
requestGetCurrentCalls ==
  LET error   == DoneFree
      success == <<Set("expect", FALSE), Set("repoll", 0), Reply, Free>>
      retry[n \in 0..RepollMax] ==
        IF n = RepollMax THEN success
        ELSE <<If("repoll", n, <<Inc("repoll"), Goto({error})>>, retry[n + 1])>>
      suspect == <<If("expect", FALSE, retry[0], success), Goto({Return})>>
      lines == {success, <<Set("incoming", TRUE)>> \o success}
  IN  Fn("uninit", <<If("incoming", TRUE, AskCalls \o <<Goto(lines \cup {suspect})>>,
                                          AskCalls \o <<Goto(lines)>>)>>)

\* Also HANGUP and the requests that send AT+CHLD, ATH or AT+VTS.
requestDial == Fn("null", <<Tell, Done>>)

ANSWER == Fn("null", <<Tell, Set("expect", TRUE), Done>>)

SEPARATE_CONNECTION == Fn("null", <<Maybe(<<Done>>), Tell, Done>>)

(***************************************************************************)
(* Network.                                                                *)
(***************************************************************************)

requestQueryNetworkSelectionMode ==
  Fn("null", <<Try("single", FreeDone), Line, Maybe(FreeDone)>> \o DoneFree)

requestSignalStrength ==
  Fn("null",
     <<If("creg", TRUE, CregReport, <<>>), If("cgreg", TRUE, CgregReport, <<>>),
       Try("single", <<Done>> \o DoneFree), Line, Maybe(DoneFree)>> \o DoneFree)

\* The response of AT+CTEC is not freed.
requestSetPreferredNetworkType ==
  LET failed == <<Done>>
  IN  Fn("null", <<Maybe(failed), Call(query_ctec), Maybe(failed), Maybe(<<Done>>),
                   Try("single", failed), Line, Done>>)

requestGetPreferredNetworkType == Fn("null", <<Call(query_ctec), Done>>)

requestRegistrationState ==
  Fn("null", <<Try("single", DoneFree), Line, Maybe(DoneFree)>> \o DoneFree)

\* Only err is tested, not success.
requestOperator ==
  Fn("null", <<Check("multi", DoneFree), Deref, Maybe(DoneFree), Reply, Free>>)

requestSetNetworkSelectionAutomatic == Fn("null", <<Try("null", <<Done>>), Done>>)

requestSetNetworkSelectionManual ==
  Fn("null", <<Maybe(DoneFree), Try("plain", DoneFree)>> \o DoneFree)

\* The networks are copied, so the answer does not point into the response.
requestQueryAvailableNetworks ==
  Fn("null", <<Try("multi", DoneFree), Deref, Maybe(DoneFree)>> \o DoneFree)

(***************************************************************************)
(* CDMA.  Most of these never free their response.                         *)
(***************************************************************************)

requestCdmaDeviceIdentity ==
  Fn("null", <<Try("single", <<Done>>), Line, Reply, Free>>)

requestCdmaGetSubscriptionSource ==
  Fn("null", <<Try("single", <<Done>>), Line, Maybe(<<Done>>), Done>>)

requestCdmaSetSubscriptionSource ==
  Fn("null", <<Maybe(<<Done>>), Try("plain", <<Done>>), Done>>)

requestCdmaGetRoamingPreference ==
  Fn("null", <<Try("single", <<Done>>), Line, Maybe(<<Done>>), Done>>)

requestCdmaSetRoamingPreference == Fn("null", <<Try("plain", <<Done>>), Done>>)

requestExitEmergencyMode == Fn("null", <<Try("plain", <<Done>>), Done>>)

\* Answers with fixed values: requestCdmaSubscription and the like.
FixedAnswer == Fn("null", <<Done>>)

(***************************************************************************)
(* Messages.                                                               *)
(***************************************************************************)

requestWriteSmsToSim == Fn("null", <<Try("single", DoneFree)>> \o DoneFree)

\* Always fails.
requestCdmaSendSMS == Fn("null", <<Done>>)

requestSendSMS ==
  Fn("null", <<Maybe(DoneFree), Try("single", DoneFree)>> \o DoneFree)

requestImsSendSMS ==
  Fn("null", <<Goto({<<Done>>, <<Call(requestSendSMS)>>, <<Call(requestCdmaSendSMS)>>})>>)

\* There is no return before the label: success falls into the error path.
requestSMSAcknowledge == Fn("null", <<Maybe(<<Done>>), Tell, Done, Done>>)

(***************************************************************************)
(* SIM and radio.                                                          *)
(***************************************************************************)

requestSIM_IOUntested ==
  Fn("null", <<Check("single", DoneFree), Line, Maybe(DoneFree), Reply, Free>>)

\* The file control parameters of a USIM are converted; that may fail too.
requestSIM_IO ==
  LET reply == <<Reply, Free>>
  IN  Fn("null", <<Try("single", DoneFree), Line, Maybe(DoneFree), Maybe(reply),
                   Call(getUICCType), Maybe(DoneFree)>> \o reply)

\* After the answer the whole initialization runs again, on every path with
\* err = 0; a wrong datalen leaves err without a value.
requestEnterSimPin ==
  LET again == <<Call(initializeCallback), Call(pollSIMState),
                 Case("multi", <<>>, <<>>), Free>>
  IN  Fn("null", <<Maybe(<<Done, Maybe(again), Free>>),
                   Either({<<>>, <<Call(getSIMStatus)>>}),
                   Send("plain", <<Done>> \o again, DoneFree), Done>> \o again)

requestChangePassword ==
  Fn("null", <<Maybe(DoneFree), Try("plain", DoneFree)>> \o DoneFree)

requestSetFacilityLock == Fn("null", <<Try("plain", FreeDone)>> \o FreeDone)

requestQueryFacilityLock ==
  Fn("null", <<Try("multi", DoneFree), Deref, Maybe(DoneFree)>> \o DoneFree)

requestBasebandVersion ==
  Fn("null", <<Try("single", DoneFree), Line, Maybe(DoneFree), Reply, Free>>)

requestRadioPower ==
  LET off == <<Try("plain", FreeDone)>>
      on  == <<Case("plain", <<>>, <<Call(isRadioOn), Maybe(FreeDone)>>),
               Call(setRadioStateOn)>>
  IN  Fn("null", <<Either({off, on, <<>>})>> \o FreeDone)

(***************************************************************************)
(* onRequest(): the cases without a handler of their own, and the table.   *)
(***************************************************************************)

\* GET_IMSI, GET_IMEI and CANCEL_USSD.
NumericRequest == Fn("null", <<Try("single", DoneFree), Line, Reply, Free>>)

DELETE_SMS_ON_SIM == Fn("null", <<Try("plain", DoneFree)>> \o DoneFree)

GET_SIM_STATUS == Fn("null", <<Call(getSIMStatus), Done>>)

\* The chain of CDMA requests: on another modem a case falls through to the
\* next one, the last into CHANGE_SIM_PIN.
CdmaFallThrough ==
  Fn("null",
     <<Goto({<<Call(f)>> : f \in {requestCdmaSetSubscriptionSource,
         requestCdmaGetSubscriptionSource, requestCdmaGetRoamingPreference,
         requestCdmaSetRoamingPreference, requestExitEmergencyMode,
         requestChangePassword}})>>)

CdmaIdentity == Fn("null", <<Goto({<<Call(requestCdmaDeviceIdentity)>>, <<Done>>})>>)

BASEBAND_VERSION == Fn("null", <<Goto({<<Call(requestBasebandVersion)>>, <<Done>>})>>)

ReferenceRequests ==
  "GET_SIM_STATUS" :> GET_SIM_STATUS
  @@ "GET_CURRENT_CALLS" :> requestGetCurrentCalls
  @@ "DIAL" :> requestDial @@ "ANSWER" :> ANSWER
  @@ "SEPARATE_CONNECTION" :> SEPARATE_CONNECTION
  @@ "SIGNAL_STRENGTH" :> requestSignalStrength
  @@ "REGISTRATION_STATE" :> requestRegistrationState
  @@ "OPERATOR" :> requestOperator @@ "RADIO_POWER" :> requestRadioPower
  @@ "SEND_SMS" :> requestSendSMS @@ "IMS_SEND_SMS" :> requestImsSendSMS
  @@ "SETUP_DATA_CALL" :> requestSetupDataCall
  @@ "DEACTIVATE_DATA_CALL" :> requestDeactivateDataCall
  @@ "SMS_ACKNOWLEDGE" :> requestSMSAcknowledge
  @@ "GET_IMSI" :> NumericRequest @@ "SIM_IO" :> requestSIM_IO
  @@ "DATA_CALL_LIST" :> requestDataCallList
  @@ "QUERY_NETWORK_SELECTION_MODE" :> requestQueryNetworkSelectionMode
  @@ "OEM_HOOK_RAW" :> FixedAnswer
  @@ "WRITE_SMS_TO_SIM" :> requestWriteSmsToSim
  @@ "DELETE_SMS_ON_SIM" :> DELETE_SMS_ON_SIM
  @@ "ENTER_SIM_PIN" :> requestEnterSimPin
  @@ "SET_PREFERRED_NETWORK_TYPE" :> requestSetPreferredNetworkType
  @@ "GET_PREFERRED_NETWORK_TYPE" :> requestGetPreferredNetworkType
  @@ "BASEBAND_VERSION" :> BASEBAND_VERSION @@ "DEVICE_IDENTITY" :> CdmaIdentity
  @@ "CDMA_SET_SUBSCRIPTION_SOURCE" :> CdmaFallThrough
  @@ "SET_FACILITY_LOCK" :> requestSetFacilityLock
  @@ "QUERY_FACILITY_LOCK" :> requestQueryFacilityLock
  @@ "SET_NETWORK_SELECTION_MANUAL" :> requestSetNetworkSelectionManual
  @@ "SET_NETWORK_SELECTION_AUTOMATIC" :> requestSetNetworkSelectionAutomatic
  @@ "QUERY_AVAILABLE_NETWORKS" :> requestQueryAvailableNetworks

\* What onUnsolicited(), mainLoop() and the handlers leave to the event loop.
ReferenceCallbacks ==
  "initializeCallback" :> initializeCallback @@ "pollSIMState" :> pollSIMState
  @@ "onDataCallListChanged" :> onDataCallListChanged @@ "onNewSmsArrived" :> readNewSms
=============================================================================
