--------------------------- MODULE StaConnectProofs ---------------------------
(***************************************************************************)
(* Type correctness of StaConnect, that success is never invented, and     *)
(* that the network is given up only for want of it, for any number of     *)
(* attempts, any timeout and any polling interval that leave a look.       *)
(***************************************************************************)
EXTENDS StaConnect, TLAPS

(* Whatever says that there is an address, DHCP gave one.  The two bounds   *)
(* are what makes the counters stop at their limits.                        *)
SInv ==
  /\ StaTypeOK
  /\ "IP" \in {status, connectionStatus} => everUp
  /\ address => everUp
  /\ OkHadAddress
  /\ pc \notin {"sta", "ap"} => numRetries > 0
  /\ pc = "sleep" => elapsed < Timeout /\ sinceCheck < CheckEvery

(* The driver's answer is read as an address only when there is one. *)
LEMMA StatusTells ==
  ASSUME NEW l \in Failures \cup {"JOIN", "NOIP", "UP"}
  PROVE  StatusOf(l) \in Statuses /\ (StatusOf(l) = "IP" => l = "UP")
  BY DEF Failures, StatusOf, Statuses

LEMMA LinkStatusType ==
  StaTypeOK => /\ LinkStatus \in Failures \cup {"JOIN", "NOIP", "UP"}
               /\ LinkStatus = "UP" => address
  BY DEF StaTypeOK, LinkStatus, Failures

(* The invariant holds at power-on. *)
LEMMA SInvInit == Init => SInv
<1> SUFFICES ASSUME Init PROVE SInv
  OBVIOUS
<1>1. 0 \in 0 .. Timeout /\ 0 \in 0 .. CheckEvery /\ 0 \in 0 .. Settled /\ NumRetries \in 0 .. NumRetries
  BY StaAssumption DEF StaAssumption, Settled
<1>2. StaTypeOK
  BY <1>1 DEF Init, StaTypeOK, Errors, Statuses, Failures
<1>3. NumRetries > 0
  BY StaAssumption DEF StaAssumption
<1> QED BY <1>2, <1>3 DEF Init, SInv, OkHadAddress

(* An attempt that returns, with an error or with an address behind it.     *)
LEMMA Returns ==
  ASSUME SInv, NEW err \in Errors \cup {"OK"}, err = "OK" => everUp,
         pc \notin {"sta", "ap"}, Return(err), everUp' = everUp
  PROVE  /\ pc' \in {"pause", "sta", "ap"}
         /\ numRetries' \in 0 .. NumRetries
         /\ staErr' \in Errors \cup {"OK"}
         /\ staErr' = "OK" => everUp'
         /\ pc' \notin {"sta", "ap"} => numRetries' > 0
  BY StaAssumption DEF StaAssumption, SInv, StaTypeOK, Return, Errors

(* The steps of the program keep the invariant. *)
LEMMA ProgramKeeps == SInv /\ Program => SInv'
<1> SUFFICES ASSUME SInv, Program PROVE SInv'
  OBVIOUS
<1> USE StaAssumption DEF StaAssumption
<1>1. CASE Pause
  BY <1>1 DEF Pause, SInv, StaTypeOK, OkHadAddress, loopVars, driverVars, historyVars, Settled
<1>2. CASE StartAttempt
  <2>1. CASE \E err \in {"MAC_FAILED", "NO_SSID"} : Return(err)
    BY <1>2, <2>1, Returns
    DEF StartAttempt, SInv, StaTypeOK, OkHadAddress, driverVars, historyVars, Errors, Settled
  <2>2. CASE pc' \in {"resolve", "join"} /\ UNCHANGED <<numRetries, staErr>>
    BY <1>2, <2>2 DEF StartAttempt, SInv, StaTypeOK, OkHadAddress, driverVars, historyVars, Settled
  <2> QED BY <1>2, <2>1, <2>2 DEF StartAttempt
<1>3. CASE Resolve
  <2>1. CASE Return("NO_SSID")
    BY <1>3, <2>1, Returns
    DEF Resolve, SInv, StaTypeOK, OkHadAddress, loopVars, driverVars, historyVars, Errors, Settled
  <2>2. CASE pc' = "join" /\ UNCHANGED <<numRetries, staErr>>
    BY <1>3, <2>2 DEF Resolve, SInv, StaTypeOK, OkHadAddress, loopVars, driverVars, historyVars, Settled
  <2> QED BY <1>3, <2>1, <2>2 DEF Resolve
<1>4. CASE Join
  <2>1. CASE Return("CONNECTION_FAILED") /\ UNCHANGED <<link, elapsed, sinceCheck, upInAttempt>>
    BY <1>4, <2>1, Returns DEF Join, SInv, StaTypeOK, OkHadAddress, Errors, Settled
  <2>2. CASE JoinSent /\ pc' = "poll" /\ elapsed' = 0 /\ sinceCheck' = 0
             /\ upInAttempt' = Up /\ UNCHANGED <<numRetries, staErr>>
    BY <1>4, <2>2 DEF Join, JoinSent, SInv, StaTypeOK, OkHadAddress, Up, Settled
  <2> QED BY <1>4, <2>1, <2>2 DEF Join
<1>5. CASE Poll
  <2>1. CASE elapsed >= Timeout
    BY <1>5, <2>1, Returns
    DEF Poll, SInv, StaTypeOK, OkHadAddress, driverVars, historyVars, Errors, Settled
  <2>2. CASE elapsed < Timeout
    <3>1. connectionStatus' \in Statuses /\ (connectionStatus' = "IP" => everUp)
      BY <1>5, <2>2, LinkStatusType, StatusTells DEF Poll, SInv, StaTypeOK
    <3>2. sinceCheck' \in 0 .. CheckEvery /\ sinceCheck' < CheckEvery
      BY <1>5, <2>2 DEF Poll, SInv, StaTypeOK, Due
    <3> QED BY <1>5, <2>2, <3>1, <3>2
      DEF Poll, SInv, StaTypeOK, OkHadAddress, driverVars, historyVars, Settled
  <2> QED BY <2>1, <2>2 DEF SInv, StaTypeOK
<1>6. CASE Sleep
  BY <1>6 DEF Sleep, SInv, StaTypeOK, OkHadAddress, driverVars, Settled
<1>7. CASE Rejoin
  <2>1. CASE Return("CONNECTION_FAILED") /\ UNCHANGED <<link, connectUsingBssid>>
    BY <1>7, <2>1, Returns DEF Rejoin, SInv, StaTypeOK, OkHadAddress, historyVars, Errors, Settled
  <2>2. CASE JoinSent /\ pc' = "poll" /\ connectUsingBssid' = FALSE /\ UNCHANGED <<numRetries, staErr>>
    BY <1>7, <2>2 DEF Rejoin, JoinSent, SInv, StaTypeOK, OkHadAddress, historyVars, Settled
  <2> QED BY <1>7, <2>1, <2>2 DEF Rejoin
<1>8. CASE Leave
  BY <1>8, Returns
  DEF Leave, SInv, StaTypeOK, OkHadAddress, loopVars, driverVars, historyVars, Errors, Settled
<1>9. CASE KeepWaiting
  BY <1>9 DEF KeepWaiting, SInv, StaTypeOK, OkHadAddress, loopVars, driverVars, historyVars, Settled
<1> QED BY <1>1, <1>2, <1>3, <1>4, <1>5, <1>6, <1>7, <1>8, <1>9 DEF Program

(* The steps of the driver keep the invariant. *)
LEMMA DriverKeeps == SInv /\ Driver => SInv'
<1> SUFFICES ASSUME SInv, Driver PROVE SInv'
  OBVIOUS
<1> USE DEF SInv, StaTypeOK, OkHadAddress, progVars, loopVars, historyVars, Settled
<1>1. CASE Associate
  BY <1>1 DEF Associate
<1>2. CASE JoinFails
  BY <1>2 DEF JoinFails
<1>3. CASE LinkLost
  <2>1. 0 \in 0 .. CheckEvery + 2
    BY StaAssumption DEF StaAssumption
  <2> QED BY <1>3, <2>1 DEF LinkLost, Failures
<1>4. CASE AddressGiven
  BY <1>4 DEF AddressGiven, networkStatusCallback, Statuses
<1>5. CASE AddressRefused
  <2>1. 0 \in 0 .. CheckEvery + 2
    BY StaAssumption DEF StaAssumption
  <2>2. /\ address' = FALSE /\ connectionStatus' = "IP" /\ upFor' = 0 /\ everUp
        /\ UNCHANGED <<pc, numRetries, staErr, target, connectUsingBssid, elapsed, sinceCheck, status,
                       link, upInAttempt, everUp>>
    BY <1>5 DEF AddressRefused, networkStatusCallback
  <2>3. upFor' \in 0 .. Settled /\ connectionStatus' \in Statuses
    BY <2>1, <2>2 DEF Statuses
  <2> HIDE DEF Settled
  <2> QED BY <2>2, <2>3
<1> QED BY <1>1, <1>2, <1>3, <1>4, <1>5 DEF Driver

LEMMA SInvAlways == Spec => []SInv
<1>1. SInv /\ [Next]_vars => SInv'
  <2> SUFFICES ASSUME SInv, [Next]_vars PROVE SInv'
    OBVIOUS
  <2>1. CASE UNCHANGED vars
    BY <2>1 DEF vars, SInv, StaTypeOK, OkHadAddress, loopVars, driverVars, historyVars, Settled
  <2> QED BY <2>1, ProgramKeeps, DriverKeeps DEF Next
<1> QED BY <1>1, SInvInit, PTL DEF Spec

(* For how long the link may have been up without the loop's having seen    *)
(* it: never beyond the last look at the driver, but for the turns before   *)
(* the first look of an attempt; and one turn more while the attempt ends.  *)
Looked == sinceCheck < elapsed

UpInv ==
  /\ upFor > 0 => Up
  /\ pc \in {"poll", "sleep", "decide"} => sinceCheck <= elapsed
  /\ pc = "poll" /\ Looked => upFor <= sinceCheck
  /\ pc \in {"sleep", "decide"} /\ status # "IP" /\ Looked => upFor <= sinceCheck
  /\ pc = "sleep" /\ status = "IP" => elapsed + 1 < Timeout \/ upFor <= CheckEvery
  /\ pc = "decide" /\ status = "IP" => elapsed < Timeout \/ upFor <= CheckEvery + 1
  /\ GivesUpOnlyWhenDown

LEMMA UpInvInit == Init => UpInv
  BY DEF Init, UpInv, GivesUpOnlyWhenDown

(* A look at a link that is up and has an address. *)
LEMMA LookSees == LinkStatus = "UP" => StatusOf(LinkStatus) = "IP"
  BY DEF StatusOf

(* Joining again does not take a link down. *)
LEMMA StillUp ==
  ASSUME StaTypeOK, link' = link \/ JoinSent, address' = address, Up
  PROVE  Up'
  BY DEF StaTypeOK, Failures, JoinSent, Up, LinkStatus

(* The steps of the program keep the bounds. *)
LEMMA ProgramKeepsUp == SInv /\ UpInv /\ Program => UpInv'
<1> SUFFICES ASSUME SInv, UpInv, Program PROVE UpInv'
  OBVIOUS
<1>0. /\ CheckEvery \in Nat \ {0} /\ Timeout \in Nat /\ Timeout > CheckEvery + 1
      /\ elapsed \in Nat /\ sinceCheck \in 0 .. CheckEvery /\ upFor \in 0 .. CheckEvery + 2
      /\ Settled = CheckEvery + 2
  BY StaAssumption DEF SInv, StaTypeOK, Settled
<1> USE <1>0 DEF UpInv, GivesUpOnlyWhenDown, Looked
<1>1. CASE Pause \/ Resolve
  BY <1>1 DEF Pause, Resolve, Return, loopVars, driverVars, historyVars, Up, LinkStatus
<1>2. CASE StartAttempt
  BY <1>2 DEF StartAttempt, Return, driverVars, historyVars, Up, LinkStatus
<1>3. CASE Join
  <2>1. upFor' = upFor /\ (upFor > 0 => Up')
    <3>1. (link' = link \/ JoinSent) /\ UNCHANGED <<address, upFor>>
      BY <1>3 DEF Join
    <3> QED BY <3>1, StillUp DEF SInv
  <2>2. CASE pc' = "poll" /\ elapsed' = 0 /\ sinceCheck' = 0
    BY <2>1, <2>2
  <2>3. CASE Return("CONNECTION_FAILED")
    BY <2>1, <2>3 DEF Return
  <2> QED BY <1>3, <2>2, <2>3 DEF Join
<1>4. CASE Poll
  <2>1. CASE elapsed >= Timeout
    BY <1>4, <2>1 DEF Poll, Return, driverVars, historyVars, Up, LinkStatus
  <2>2. CASE elapsed < Timeout /\ Due
    <3>1. /\ pc = "poll" /\ pc' = "sleep" /\ sinceCheck' = 0 /\ sinceCheck = CheckEvery
          /\ status' = StatusOf(LinkStatus)
          /\ UNCHANGED <<elapsed, link, address, upFor, staErr>>
      BY <1>4, <2>2 DEF Poll, Due, driverVars, historyVars
    <3>2. status' # "IP" => upFor = 0
      BY <3>1, LookSees DEF Up
    <3> QED BY <3>1, <3>2 DEF Up, LinkStatus
  <2>3. CASE elapsed < Timeout /\ ~Due
    <3>1. /\ pc = "poll" /\ pc' = "sleep" /\ sinceCheck < CheckEvery
          /\ UNCHANGED <<sinceCheck, elapsed, link, address, upFor, staErr>>
      BY <1>4, <2>3 DEF Poll, Due, driverVars, historyVars
    <3> QED BY <3>1 DEF Up, LinkStatus
  <2> QED BY <2>1, <2>2, <2>3
<1>5. CASE Sleep
  BY <1>5 DEF Sleep, driverVars, Up, LinkStatus
<1>6. CASE Rejoin
  <2>1. upFor' = upFor /\ (upFor > 0 => Up')
    <3>1. (link' = link \/ JoinSent) /\ UNCHANGED <<address, upFor>>
      BY <1>6 DEF Rejoin, historyVars
    <3> QED BY <3>1, StillUp DEF SInv
  <2>2. pc = "decide" /\ status # "IP" /\ UNCHANGED <<elapsed, sinceCheck>>
    BY <1>6 DEF Rejoin, BssidFailed
  <2>3. CASE pc' = "poll" /\ UNCHANGED staErr
    BY <2>1, <2>2, <2>3
  <2>4. CASE Return("CONNECTION_FAILED")
    BY <2>1, <2>2, <2>4 DEF Return
  <2> QED BY <1>6, <2>3, <2>4 DEF Rejoin
<1>7. CASE Leave
  BY <1>7 DEF Leave, Return, loopVars, driverVars, historyVars, Up, LinkStatus
<1>8. CASE KeepWaiting
  BY <1>8 DEF KeepWaiting, loopVars, driverVars, historyVars, Up, LinkStatus
<1> QED BY <1>1, <1>2, <1>3, <1>4, <1>5, <1>6, <1>7, <1>8 DEF Program

(* The driver only ever ends an up time. *)
LEMMA DriverKeepsUp == SInv /\ UpInv /\ Driver => UpInv'
<1> SUFFICES ASSUME SInv, UpInv, Driver PROVE UpInv'
  OBVIOUS
<1>1. /\ UNCHANGED <<pc, staErr, status, elapsed, sinceCheck>>
      /\ upFor' = 0 \/ (upFor' = upFor /\ (Up => Up'))
  BY DEF Driver, Associate, JoinFails, LinkLost, AddressGiven, AddressRefused, progVars, loopVars,
     historyVars, Up, LinkStatus
<1>2. upFor \in 0 .. CheckEvery + 2 /\ sinceCheck \in 0 .. CheckEvery /\ CheckEvery \in Nat
  BY StaAssumption DEF SInv, StaTypeOK, Settled
<1> QED BY <1>1, <1>2 DEF UpInv, GivesUpOnlyWhenDown, Looked, Settled

(* The attempts and the driver stay within their types, and so the loop     *)
(* within its deadline and mngr_init within its attempts.                   *)
THEOREM StaTypeCorrect == Spec => []StaTypeOK
<1>1. SInv => StaTypeOK
  BY DEF SInv
<1> QED BY <1>1, SInvAlways, PTL

(* An attempt that returns OK (network_wifiStaConnect) has a DHCP address   *)
(* behind it, given at some time since power-on.                            *)
THEOREM SuccessIsNotInvented == Spec => []OkHadAddress
<1>1. SInv => OkHadAddress
  BY DEF SInv
<1> QED BY <1>1, SInvAlways, PTL

(* When the last attempt runs out of time and mngr_init gives the network   *)
(* up for the access point, the link had not been up, with an address, for  *)
(* more than a turn longer than the interval at which                       *)
(* network_wifiConnStatus asks the driver, whatever callbacks came before.  *)
THEOREM GivesUpForAReason == Spec => []GivesUpOnlyWhenDown
<1>1. SInv /\ UpInv /\ [Next]_vars => UpInv'
  <2> SUFFICES ASSUME SInv, UpInv, [Next]_vars PROVE UpInv'
    OBVIOUS
  <2>1. CASE UNCHANGED vars
    BY <2>1 DEF vars, loopVars, driverVars, historyVars, UpInv, GivesUpOnlyWhenDown, Looked, Up, LinkStatus
  <2> QED BY <2>1, ProgramKeepsUp, DriverKeepsUp DEF Next
<1>2. UpInv => GivesUpOnlyWhenDown
  BY DEF UpInv
<1> QED BY <1>1, <1>2, UpInvInit, SInvAlways, PTL DEF Spec
=============================================================================
