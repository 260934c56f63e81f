------------------------- MODULE GprsSession_proofs -------------------------
(***************************************************************************)
(* Proofs about GprsSession for every set of configurations and every link *)
(* an earlier process may have left.  SessionInv is inductive; the safety  *)
(* properties are its conjuncts, and the action properties follow from it  *)
(* step by step.                                                           *)
(***************************************************************************)
EXTENDS GprsSession, TLAPS

USE DEF Sims, SIM_1, SIM_2, Places, BootPlaces, SelectPlaces, ApnPlaces, DialPlaces

(* What a chosen door is: 0, or a SIM whose door is closed. *)
LEMMA UsableDoorType == UsableDoor \in {0} \cup Sims
  BY DEF UsableDoor

(* What ppp_term leaves of the link is the link or nothing. *)
LEMMA TermKeepsOrClears ==
  ASSUME NEW t \in ppp_term
  PROVE  t.link \in {link, NoLink}
  BY DEF ppp_term

(* The structure the daemon starts with satisfies the invariant. *)
LEMMA InitEstablishes == Init => SessionInv
  <1> SUFFICES ASSUME Init PROVE SessionInv
    OBVIOUS
  <1>1. TypeOK
    BY LeftoverAssumption
    DEF Init, TypeOK, APN_FLAG, HistorySource
  <1>2. /\ DialsSelectedSim /\ DialHasCredentials /\ FailureFlagConsumed
        /\ SimUnderTest /\ FlagsNameSources
        /\ NoTableApnForSim2
    BY DEF Init, DialsSelectedSim, DialHasCredentials, FailureFlagConsumed,
           SimUnderTest, FlagsNameSources, NoTableApnForSim2
  <1> QED
    BY <1>1, <1>2 DEF SessionInv

(* select_apn up to the apns table: the flag it stores names a source that holds
   an APN. *)
LEMMA SelectApn_Keeps == SessionInv /\ SelectApn => SessionInv'
  <1> SUFFICES ASSUME SessionInv, SelectApn PROVE SessionInv'
    OBVIOUS
  <1> USE DEF SessionInv, TypeOK
  <1> DEFINE s == curSimNo
             f == NextSource(s)
  <1>1. s \in Sims /\ s = slot /\ pc = "apn"
    BY DEF SelectApn, DialsSelectedSim
  <1>2. CASE f \in {"APN_HISTORY", "APN_GPRS_CONF"} /\ apnFlag' = [apnFlag EXCEPT ![s] = f]
             /\ pc' = "start"
    <2>1. /\ f = "APN_HISTORY" => history[s] # "APN_NULL"
          /\ f = "APN_GPRS_CONF" => s \in gprsConf
      BY <1>2 DEF NextSource
    <2>2. apnFlag' \in [Sims -> APN_FLAG] /\ apnFlag'[s] = f
      BY <1>1, <1>2 DEF APN_FLAG
    <2>3. UNCHANGED <<gprsConf, history, apnsConf, curSimNo, slot>>
      BY DEF SelectApn, simVars
    <2>4. DialHasCredentials' /\ FlagsNameSources'
      BY <1>1, <1>2, <2>1, <2>2, <2>3 DEF DialHasCredentials, FlagsNameSources
    <2> QED
      BY <1>1, <1>2, <2>2, <2>4
        DEF SelectApn, mainVars, simVars, DialsSelectedSim, FailureFlagConsumed,
            SimUnderTest, NoTableApnForSim2
  <1>3. CASE /\ pc' \in {"carrier", "noapn"}
             /\ apnFlag' \in {apnFlag, [apnFlag EXCEPT ![s] = "APN_NULL"]}
    <2>1. apnFlag' \in [Sims -> APN_FLAG]
      BY <1>3 DEF APN_FLAG
    <2>2. FlagsNameSources'
      BY <1>1, <1>3 DEF SelectApn, simVars, FlagsNameSources
    <2> QED
      BY <1>1, <1>3, <2>1, <2>2
        DEF SelectApn, mainVars, simVars, DialsSelectedSim, DialHasCredentials,
            FailureFlagConsumed, SimUnderTest,
            NoTableApnForSim2
  <1> QED
    BY <1>2, <1>3 DEF SelectApn, SetApn, NoApnLeft

(* The apns table: a dial follows only for SIM 1, the one parse_apn_conf fills,
   so curSimNo still agrees with the slot. *)
LEMMA SelectApnOfCarrier_Keeps == SessionInv /\ SelectApnOfCarrier => SessionInv'
  <1> SUFFICES ASSUME SessionInv, SelectApnOfCarrier PROVE SessionInv'
    OBVIOUS
  <1> USE DEF SessionInv, TypeOK
  <1>1. /\ curSimNo \in Sims /\ curSimNo = slot
        /\ pc = "carrier" /\ sim_1_Failure # 1
    BY
      DEF SelectApnOfCarrier, DialsSelectedSim, FailureFlagConsumed
  <1>2. slot' = slot /\ dial' \in Links \cup {NoLink}
    BY <1>1 DEF SelectApnOfCarrier, SlotSet, SlotKept
  <1>3. /\ listed' \in [Sims -> BOOLEAN]
        /\ apnsConf' \in [Sims -> BOOLEAN]
        /\ apnsConf[SIM_1] => apnsConf'[SIM_1]
        /\ ~apnsConf'[SIM_2]
    <2>1. listed' \in [Sims -> BOOLEAN]
      BY <1>1 DEF SelectApnOfCarrier, CarrierFails, CarrierKnown
    <2>2. CASE UNCHANGED apnsConf
      BY <2>1, <2>2 DEF NoTableApnForSim2
    <2>3. CASE apnsConf' = [apnsConf EXCEPT ![SIM_1] = @ \/ listed'[SIM_1]]
      <3> DEFINE v == apnsConf[SIM_1] \/ listed'[SIM_1]
      <3>1. v \in BOOLEAN
        BY Zenon
      <3>2. apnsConf' = [apnsConf EXCEPT ![SIM_1] = v]
        BY <2>3, Zenon
      <3> HIDE DEF v
      <3>3. apnsConf' \in [Sims -> BOOLEAN] /\ apnsConf'[SIM_1] = v
            /\ apnsConf'[SIM_2] = apnsConf[SIM_2]
        BY <3>1, <3>2
      <3>4. apnsConf[SIM_1] => v
        BY Zenon DEF v
      <3> QED
        BY <2>1, <3>3, <3>4 DEF NoTableApnForSim2
    <2> QED
      BY <2>2, <2>3 DEF SelectApnOfCarrier, CarrierFails, CarrierKnown, FilledSim
  <1>4. CASE pc' = "noapn" /\ curSimNo' \in {curSimNo, SIM_1}
             /\ apnFlag' \in {apnFlag, [apnFlag EXCEPT ![curSimNo] = "APN_NULL"]}
    <2>1. apnFlag' \in [Sims -> APN_FLAG]
      BY <1>4 DEF APN_FLAG
    <2>2. FlagsNameSources'
      BY <1>1, <1>3, <1>4 DEF SelectApnOfCarrier, FlagsNameSources, NoTableApnForSim2
    <2> QED
      BY <1>1, <1>2, <1>3, <1>4, <2>1, <2>2
        DEF SelectApnOfCarrier, mainVars, DialsSelectedSim, DialHasCredentials,
            FailureFlagConsumed, SimUnderTest,
            NoTableApnForSim2
  <1>5. CASE pc' = "start" /\ curSimNo' = SIM_1 /\ apnsConf'[curSimNo]
             /\ apnFlag' = [apnFlag EXCEPT ![curSimNo] = "APN_APNS_CONF"]
    <2>1. curSimNo = SIM_1
      BY <1>1, <1>3, <1>5
    <2>2. apnFlag' \in [Sims -> APN_FLAG] /\ apnFlag'[SIM_1] = "APN_APNS_CONF"
      BY <1>5, <2>1 DEF APN_FLAG
    <2>3. FlagsNameSources' /\ DialHasCredentials'
      BY <1>1, <1>3, <1>5, <2>1, <2>2
        DEF SelectApnOfCarrier, FlagsNameSources, DialHasCredentials,
            NoTableApnForSim2
    <2> QED
      BY <1>1, <1>2, <1>3, <1>5, <2>1, <2>2, <2>3
        DEF SelectApnOfCarrier, mainVars, DialsSelectedSim, FailureFlagConsumed,
            SimUnderTest, NoTableApnForSim2
  <1>6. CarrierFails => /\ pc' = "noapn" /\ curSimNo' = curSimNo
                        /\ apnFlag' = [apnFlag EXCEPT ![curSimNo] = "APN_NULL"]
    BY DEF CarrierFails, NoApnLeft
  <1>7. CarrierKnown => \/ /\ pc' = "noapn" /\ curSimNo' = SIM_1
                           /\ apnFlag' \in {apnFlag, [apnFlag EXCEPT ![curSimNo] = "APN_NULL"]}
                        \/ /\ pc' = "start" /\ curSimNo' = SIM_1 /\ apnsConf'[curSimNo]
                           /\ apnFlag' = [apnFlag EXCEPT ![curSimNo] = "APN_APNS_CONF"]
    BY DEF CarrierKnown, NoApnLeft, SetApn
  <1> QED
    BY <1>4, <1>5, <1>6, <1>7 DEF SelectApnOfCarrier

(* What is dialled is a link of a known SIM and source. *)
LEMMA Dial_Keeps == SessionInv /\ Dial => SessionInv'
  <1> SUFFICES ASSUME SessionInv, Dial PROVE SessionInv'
    OBVIOUS
  <1> USE DEF SessionInv, TypeOK
  <1>1. curSimNo \in Sims /\ pc = "dial"
    BY DEF Dial, DialsSelectedSim
  <1>2. Dialled(curSimNo) \in Links
    BY <1>1 DEF Dialled, Links, DialHasCredentials, APN_FLAG, HistorySource
  <1>3. dial' \in Links \cup {NoLink}
    BY <1>2 DEF Dial
  <1> QED
    BY <1>1, <1>3
      DEF Dial, mainVars, simVars, apnVars, DialsSelectedSim, DialHasCredentials,
          FailureFlagConsumed, SimUnderTest,
          FlagsNameSources, NoTableApnForSim2

(* The record keeps the flags and the history in agreement. *)
LEMMA Verify_Keeps == SessionInv /\ Verify => SessionInv'
  <1> SUFFICES ASSUME SessionInv, Verify PROVE SessionInv'
    OBVIOUS
  <1> USE DEF SessionInv, TypeOK
  <1> DEFINE s == curSimNo
  <1>1. s \in Sims /\ s = slot /\ pc = "verify"
    BY DEF Verify, DialsSelectedSim
  <1>2. RecordedSource(s) \in HistorySource \ {"APN_NULL"}
    BY <1>1 DEF RecordedSource, DialHasCredentials, APN_FLAG, HistorySource
  <1>3. link' \in Links \cup {NoLink}
    BY TermKeepsOrClears DEF Verify
  <1>4. CASE /\ history' = [history EXCEPT ![s] = RecordedSource(s)]
             /\ apnFlag' = [apnFlag EXCEPT ![s] = "APN_NULL"]
             /\ pc' = "sleep"
    <2>1. history' \in [Sims -> HistorySource] /\ apnFlag' \in [Sims -> APN_FLAG]
      BY <1>2, <1>4 DEF APN_FLAG
    <2>2. FlagsNameSources'
      BY <1>1, <1>2, <1>4 DEF Verify, FlagsNameSources
    <2> QED
      BY <1>1, <1>3, <1>4, <2>1, <2>2
        DEF Verify, mainVars, simVars, DialsSelectedSim, DialHasCredentials,
            FailureFlagConsumed, SimUnderTest,
            NoTableApnForSim2
  <1>5. CASE pc' = "apn" /\ UNCHANGED <<history, apnFlag>>
    BY <1>1, <1>3, <1>5
      DEF Verify, mainVars, simVars, DialsSelectedSim, DialHasCredentials,
          FailureFlagConsumed, SimUnderTest,
          FlagsNameSources, NoTableApnForSim2
  <1> QED
    BY <1>4, <1>5 DEF Verify

(* The steps that leave the flags and the history of the APNs alone. *)
LEMMA OtherStepsKeep ==
  ASSUME SessionInv
  PROVE  /\ Boot \/ select_sim \/ ApnsExhausted \/ ppp_start => SessionInv'
         /\ LoopTop \/ CheckDoors \/ CheckAlive \/ TermDeadLink => SessionInv'
         /\ LinkAlive \/ Sleep \/ ThreadExit => SessionInv'
         /\ Main \/ Environment => SessionInv'
  <1> USE DEF SessionInv, TypeOK, DialsSelectedSim, DialHasCredentials, FailureFlagConsumed,
          SimUnderTest, FlagsNameSources, NoTableApnForSim2,
          mainVars, simVars, apnVars
  <1>1. nc_mobiled_config => SessionInv'
    BY ConfigsAssumption DEF nc_mobiled_config
  <1>2. initial_gprs => SessionInv'
    BY DEF initial_gprs
  <1>3. CreateThread => SessionInv'
    BY DEF CreateThread
  <1>4. PickSim => SessionInv'
    BY DEF PickSim, SelectDone, SlotSet, SlotKept, UsableDoor, VerdictUsed
  <1>5. CheckSim => SessionInv'
    BY DEF CheckSim, SelectDone
  <1>6. ApnsExhausted => SessionInv'
    BY DEF ApnsExhausted
  <1>7. ppp_start => SessionInv'
    BY TermKeepsOrClears DEF ppp_start
  <1>8. LoopTop => SessionInv'
    BY DEF LoopTop, TokenHeld
  <1>9. CheckDoors => SessionInv'
    BY DEF CheckDoors
  <1>10. CheckAlive => SessionInv'
    BY DEF CheckAlive, check_ppp_alive
  <1>11. TermDeadLink => SessionInv'
    BY TermKeepsOrClears DEF TermDeadLink
  <1>12. LinkAlive => SessionInv'
    BY TermKeepsOrClears DEF LinkAlive, FallbackTimer
  <1>13. Sleep => SessionInv'
    BY DEF Sleep
  <1>14. ThreadExit => SessionInv'
    BY TermKeepsOrClears DEF ThreadExit
  <1>15. StopServing => SessionInv'
    BY DEF StopServing
  <1>16. ClearContext => SessionInv'
    BY DEF ClearContext, ThreadEnded
  <1>17. Sigterm => SessionInv'
    BY DEF Sigterm
  <1>18. FallbackTimePasses => SessionInv'
    BY DEF FallbackTimePasses
  <1>19. DialComesUp => SessionInv'
    BY DEF DialComesUp
  <1>20. DialFails => SessionInv'
    BY DEF DialFails
  <1>21. LinkDrops => SessionInv'
    BY DEF LinkDrops
  <1> QED
    BY <1>1, <1>2, <1>3, <1>4, <1>5, <1>6, <1>7, <1>8, <1>9, <1>10,
       <1>11, <1>12, <1>13, <1>14, <1>15, <1>16, <1>17, <1>18, <1>19, <1>20, <1>21
      DEF Boot, select_sim, Main, Environment

(* A stuttering step keeps the invariant, as it keeps every variable. *)
LEMMA StutterKeeps == SessionInv /\ UNCHANGED vars => SessionInv'
  BY DEF vars, SessionInv, TypeOK, DialsSelectedSim, DialHasCredentials,
         FailureFlagConsumed, SimUnderTest, FlagsNameSources,
         NoTableApnForSim2

(* Every step of the daemon, of its environment and of neither keeps SessionInv. *)
LEMMA NextKeeps == SessionInv /\ [Next]_vars => SessionInv'
  <1> SUFFICES ASSUME SessionInv, [Next]_vars PROVE SessionInv'
    OBVIOUS
  <1>1. CASE Boot \/ select_sim
    BY <1>1, OtherStepsKeep
  <1>2. CASE PPP_Thread
    BY <1>2, OtherStepsKeep, SelectApn_Keeps, SelectApnOfCarrier_Keeps, Dial_Keeps,
       Verify_Keeps DEF PPP_Thread, select_apn
  <1>3. CASE Main \/ Environment
    BY <1>3, OtherStepsKeep
  <1>4. CASE Ended \/ UNCHANGED vars
    BY <1>4, StutterKeeps DEF Ended
  <1> QED
    BY <1>1, <1>2, <1>3, <1>4 DEF Next

(* The invariant holds throughout: in every run of the daemon, whatever the
   modem, the scripts and pppd do. *)
THEOREM SessionInvariant == Spec => []SessionInv
  BY InitEstablishes, NextKeeps, PTL DEF Spec

(* Every variable keeps its type. *)
THEOREM TypeCorrect == Spec => []TypeOK
  <1>1. SessionInv => TypeOK
    BY DEF SessionInv
  <1> QED
    BY <1>1, SessionInvariant, PTL

(* The SIM that is dialled is the SIM the switch connects, although three
   functions write curSimNo and one of them ignores which SIM is in use. *)
THEOREM SelectedSimIsDialled == Spec => []DialsSelectedSim
  <1>1. SessionInv => DialsSelectedSim
    BY DEF SessionInv
  <1> QED
    BY <1>1, SessionInvariant, PTL

(* ppp_start never passes arguments it did not set. *)
THEOREM CredentialsAreSet == Spec => []DialHasCredentials
  <1>1. SessionInv => DialHasCredentials
    BY DEF SessionInv
  <1> QED
    BY <1>1, SessionInvariant, PTL

(* A failure of SIM 1 weighs on one choice only. *)
THEOREM FailureWeighsOnce == Spec => []FailureFlagConsumed
  <1>1. SessionInv => FailureFlagConsumed
    BY DEF SessionInv
  <1> QED
    BY <1>1, SessionInvariant, PTL

-----------------------------------------------------------------------------
(* Steps other than select_apn and Verify keep the flags and the history. *)
LEMMA FlagsKept ==
  ASSUME [Next]_vars, ~SelectApn, ~SelectApnOfCarrier, ~Verify
  PROVE  UNCHANGED <<apnFlag, history>>
  <1> USE DEF apnVars
  <1>1. CASE Boot \/ select_sim
    BY <1>1 DEF Boot, select_sim, nc_mobiled_config, initial_gprs, CreateThread, PickSim,
                CheckSim
  <1>2. CASE PPP_Thread
    BY <1>2 DEF PPP_Thread, select_apn, LoopTop, CheckDoors, CheckAlive, TermDeadLink,
                ApnsExhausted, ppp_start, Dial, LinkAlive, Sleep, ThreadExit
  <1>3. CASE Main \/ Environment
    BY <1>3 DEF Main, Environment, StopServing, ClearContext, Sigterm, FallbackTimePasses,
                DialComesUp, DialFails, LinkDrops
  <1>4. CASE Ended \/ UNCHANGED vars
    BY <1>4 DEF Ended, vars
  <1> QED
    BY <1>1, <1>2, <1>3, <1>4 DEF Next

(* A record is of the SIM in the slot, of a link that is up, and resets the search. *)
THEOREM RecordIsOfLiveSim == Spec => RecordsLiveSim
  <1> DEFINE Good == \A s \in Sims : history'[s] # history[s] =>
                        /\ s = slot
                        /\ link # NoLink
                        /\ apnFlag'[s] = "APN_NULL"
  <1>1. ASSUME SessionInv, Verify PROVE Good
    BY <1>1 DEF SessionInv, TypeOK, DialsSelectedSim, Verify, check_ppp_alive
  <1>2. ASSUME [Next]_vars, ~Verify PROVE UNCHANGED history
    BY <1>2, FlagsKept DEF SelectApn, SelectApnOfCarrier
  <1>3. SessionInv /\ [Next]_vars => [Good]_vars
    BY <1>1, <1>2
  <1> QED
    BY <1>3, SessionInvariant, PTL DEF Spec, RecordsLiveSim

(* The search of a SIM moves in one direction through its sources. *)
THEOREM SearchMovesOn == Spec => SourcesInOrder
  <1> DEFINE Good == \A s \in Sims : apnFlag'[s] # apnFlag[s] =>
                        apnFlag'[s] = "APN_NULL" \/ <<apnFlag[s], apnFlag'[s]>> \in Later
  <1>1. ASSUME SessionInv, SelectApn PROVE Good
    BY <1>1 DEF SessionInv, TypeOK, APN_FLAG, DialsSelectedSim, SelectApn, SetApn, NoApnLeft,
                NextSource, Later
  <1>2. ASSUME SessionInv, SelectApnOfCarrier PROVE Good
    BY <1>2 DEF SessionInv, TypeOK, APN_FLAG, DialsSelectedSim, SelectApnOfCarrier,
                CarrierFails, CarrierKnown, SetApn, NoApnLeft, Later
  <1>3. ASSUME SessionInv, Verify PROVE Good
    BY <1>3 DEF SessionInv, TypeOK, DialsSelectedSim, Verify
  <1>4. SessionInv /\ [Next]_vars => [Good]_vars
    BY <1>1, <1>2, <1>3, FlagsKept
  <1> QED
    BY <1>4, SessionInvariant, PTL DEF Spec, SourcesInOrder

=============================================================================
