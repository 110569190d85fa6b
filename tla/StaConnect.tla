------------------------------ MODULE StaConnect ------------------------------
(***************************************************************************)
(* Joining the configured network: the attempts of mngr_init and what one  *)
(* call of network_wifiStaConnect does, with the driver and DHCP client    *)
(* running behind it.  network_wifiConnStatus asks the driver at most once *)
(* a second; between two questions the loop, which turns ten times a       *)
(* second, lives on connectionStatus, a static that also survives from one *)
(* attempt to the next and that networkStatusCallback writes from the      *)
(* interrupt of the network stack.                                         *)
(*                                                                         *)
(* Time is counted in turns of the loop.  The driver, the radio and the    *)
(* DHCP client are external.                                               *)
(***************************************************************************)
EXTENDS Integers

CONSTANTS
  NumRetries,   \* attempts (mngr.c:40)
  CheckEvery,   \* turns in the interval of network_wifiConnStatus
  Timeout       \* turns in NETWORK_CONNECT_TIMEOUT

ASSUME StaAssumption ==
  /\ NumRetries \in Nat \ {0}
  /\ CheckEvery \in Nat \ {0}
  /\ Timeout \in Nat /\ Timeout > CheckEvery + 1

VARIABLES
  pc,                \* where mngr_init and network_wifiStaConnect have got to
  numRetries,        \* attempts left
  staErr,            \* what the last attempt returned
  target,            \* what WIFI_SSID holds: a name, a BSSID, or nothing usable
  connectUsingBssid, \* the join under way insists on the BSSID
  elapsed,           \* turns since the deadline of this attempt was set
  sinceCheck,        \* turns since the driver was last asked
  status,            \* the loop's copy of the connection status
  connectionStatus,  \* the static
  link, address,     \* the driver's link, and whether DHCP holds an address
  upFor, upInAttempt, everUp   \* history: turns up without a break (at most Settled),
                               \* up in this attempt, an address at any time

driverVars == <<link, address>>
historyVars == <<upFor, upInAttempt, everUp>>
loopVars == <<connectUsingBssid, elapsed, sinceCheck, status>>
vars == <<pc, numRetries, staErr, target, loopVars, connectionStatus, driverVars, historyVars>>

Failures == {"FAIL", "NONET", "BADAUTH", "DOWN"}
Errors == {"NO_SSID", "MAC_FAILED", "CONNECTION_FAILED", "TIMEOUT"}

(* cyw43_tcpip_link_status: once the link is up, whether it has an address. *)
LinkStatus == IF link # "LINK" THEN link ELSE IF address THEN "UP" ELSE "NOIP"
Up == LinkStatus = "UP"

(* Faulty variant: a link without an address counts as connected. *)
StatusOf_NoIpIsIp(l) ==
  [DOWN |-> "DISCONNECTED", JOIN |-> "WIFI", NOIP |-> "IP", UP |-> "IP",
   FAIL |-> "GENERIC", NONET |-> "CONNECT_FAILED", BADAUTH |-> "BADAUTH"][l]

StatusOf(l) ==
  [DOWN |-> "DISCONNECTED", JOIN |-> "WIFI", NOIP |-> "NO_IP", UP |-> "IP",
   FAIL |-> "GENERIC", NONET |-> "CONNECT_FAILED", BADAUTH |-> "BADAUTH"][l]
-----------------------------------------------------------------------------
(* mngr_init, on the value an attempt returns. *)

Return(err) ==
  /\ staErr' = err
  /\ numRetries' = IF err = "OK" THEN numRetries ELSE numRetries - 1
  /\ pc' = IF err = "OK" THEN "sta" ELSE IF numRetries > 1 THEN "pause" ELSE "ap"

Pause ==
  /\ pc = "pause"
  /\ pc' = "connect"
  /\ UNCHANGED <<numRetries, staErr, target, loopVars, connectionStatus, driverVars, historyVars>>

(* The start of an attempt: the checks before anything is sent. *)
StartAttempt ==
  /\ pc = "connect"
  /\ \/ Return("MAC_FAILED")
     \/ target = "none" /\ Return("NO_SSID")
     \/ /\ target # "none"
        /\ pc' = IF target = "bssid" THEN "resolve" ELSE "join"
        /\ UNCHANGED <<numRetries, staErr>>
  /\ connectUsingBssid' = (target = "bssid")
  /\ UNCHANGED <<target, elapsed, sinceCheck, status, connectionStatus, driverVars, historyVars>>

(* The scan that looks for the name of a BSSID, at most six seconds. *)
Resolve ==
  /\ pc = "resolve"
  /\ \/ pc' = "join" /\ UNCHANGED <<numRetries, staErr>>
     \/ Return("NO_SSID")
  /\ UNCHANGED <<target, loopVars, connectionStatus, driverVars, historyVars>>

(* A join accepted by the driver.  A link that is up stays so until the     *)
(* driver reports that it went.                                             *)
JoinSent == link' = (IF link = "LINK" THEN "LINK" ELSE "JOIN")

Join ==
  /\ pc = "join"
  /\ \/ /\ Return("CONNECTION_FAILED")
        /\ UNCHANGED <<link, elapsed, sinceCheck, upInAttempt>>
     \/ /\ JoinSent
        /\ pc' = "poll"
        /\ elapsed' = 0 /\ sinceCheck' = 0
        /\ upInAttempt' = Up
        /\ UNCHANGED <<numRetries, staErr>>
  /\ UNCHANGED <<target, connectUsingBssid, status, connectionStatus, address, upFor, everUp>>

(* Faulty variant: the driver is asked once an attempt. *)
Due_Once == sinceCheck = CheckEvery /\ elapsed = CheckEvery

Due == sinceCheck >= CheckEvery

(* The head of the loop and network_wifiConnStatus. *)
Poll ==
  /\ pc = "poll"
  /\ \/ /\ elapsed < Timeout
        /\ connectionStatus' = IF Due THEN StatusOf(LinkStatus) ELSE connectionStatus
        /\ sinceCheck' = IF Due THEN 0 ELSE sinceCheck
        /\ status' = connectionStatus'
        /\ pc' = "sleep"
        /\ UNCHANGED <<numRetries, staErr>>
     \/ /\ elapsed >= Timeout
        /\ Return("TIMEOUT")
        /\ UNCHANGED <<connectionStatus, sinceCheck, status>>
  /\ UNCHANGED <<target, connectUsingBssid, elapsed, driverVars, historyVars>>

(* An up time that is long enough for the loop to have noticed: the         *)
(* interval, a turn for its end and one for the attempt's.                  *)
Settled == CheckEvery + 2

Sleep ==
  /\ pc = "sleep"
  /\ pc' = "decide"
  /\ elapsed' = elapsed + 1
  /\ sinceCheck' = sinceCheck + 1
  /\ upFor' = IF ~Up THEN 0 ELSE IF upFor < Settled THEN upFor + 1 ELSE upFor
  /\ UNCHANGED <<numRetries, staErr, target, connectUsingBssid, status, connectionStatus,
                 driverVars, upInAttempt, everUp>>

(* A BSSID join is taken to have failed by the status read before the sleep. *)
BssidFailed == connectUsingBssid /\ status \in {"GENERIC", "CONNECT_FAILED"}

(* Faulty variant: the second join starts the attempt over. *)
Rejoin_StartsOver ==
  /\ pc = "decide" /\ BssidFailed
  /\ JoinSent /\ pc' = "poll" /\ elapsed' = 0
  /\ UNCHANGED <<numRetries, staErr, target, connectUsingBssid, sinceCheck, status,
                 connectionStatus, address, historyVars>>

Rejoin ==
  /\ pc = "decide" /\ BssidFailed
  /\ \/ /\ Return("CONNECTION_FAILED")
        /\ UNCHANGED <<link, connectUsingBssid>>
     \/ /\ JoinSent
        /\ pc' = "poll"
        /\ connectUsingBssid' = FALSE
        /\ UNCHANGED <<numRetries, staErr>>
  /\ UNCHANGED <<target, elapsed, sinceCheck, status, connectionStatus, address, historyVars>>

(* Connected ends the loop, and counts only before the deadline. *)
Leave ==
  /\ pc = "decide" /\ ~BssidFailed /\ status = "IP"
  /\ Return(IF elapsed < Timeout THEN "OK" ELSE "TIMEOUT")
  /\ UNCHANGED <<target, loopVars, connectionStatus, driverVars, historyVars>>

KeepWaiting ==
  /\ pc = "decide" /\ ~BssidFailed /\ status # "IP"
  /\ pc' = "poll"
  /\ UNCHANGED <<numRetries, staErr, target, loopVars, connectionStatus, driverVars, historyVars>>
-----------------------------------------------------------------------------
(* The driver and the DHCP client.  An address outlives its link; getting   *)
(* one and losing one both change the interface's address, which runs       *)
(* networkStatusCallback.  Whenever the interface is up, as it is from      *)
(* here on, the callback notes that there is an address.                    *)

networkStatusCallback == connectionStatus' = "IP"

progVars == <<pc, numRetries, staErr, target, loopVars>>

Associate ==
  /\ link = "JOIN"
  /\ link' = "LINK"
  /\ upInAttempt' = (upInAttempt \/ address)
  /\ UNCHANGED <<progVars, connectionStatus, address, upFor, everUp>>

JoinFails ==
  /\ link = "JOIN"
  /\ link' \in Failures
  /\ UNCHANGED <<progVars, connectionStatus, address, historyVars>>

LinkLost ==
  /\ link = "LINK"
  /\ link' \in {"JOIN", "DOWN"}
  /\ upFor' = 0
  /\ UNCHANGED <<progVars, connectionStatus, address, upInAttempt, everUp>>

AddressGiven ==
  /\ link = "LINK" /\ ~address
  /\ address' = TRUE
  /\ networkStatusCallback
  /\ upInAttempt' = TRUE /\ everUp' = TRUE
  /\ UNCHANGED <<progVars, link, upFor>>

AddressRefused ==
  /\ link = "LINK" /\ address
  /\ address' = FALSE
  /\ networkStatusCallback
  /\ upFor' = 0
  /\ UNCHANGED <<progVars, link, upInAttempt, everUp>>
-----------------------------------------------------------------------------
Init ==
  /\ pc = "connect" /\ numRetries = NumRetries /\ staErr = "TIMEOUT"
  /\ target \in {"ssid", "bssid", "none"}
  /\ connectUsingBssid = FALSE /\ elapsed = 0 /\ sinceCheck = 0
  /\ status = "DISCONNECTED" /\ connectionStatus = "DISCONNECTED"
  /\ link = "DOWN" /\ address = FALSE
  /\ upFor = 0 /\ upInAttempt = FALSE /\ everUp = FALSE

Program == Pause \/ StartAttempt \/ Resolve \/ Join \/ Poll \/ Sleep \/ Rejoin \/ Leave \/ KeepWaiting
Driver == Associate \/ JoinFails \/ LinkLost \/ AddressGiven \/ AddressRefused

Next == Program \/ Driver

Spec == Init /\ [][Next]_vars

(* The processor runs on and sleep_ms returns; nothing is asked of the      *)
(* driver or the network.                                                   *)
FairSpec == Spec /\ WF_vars(Program)
-----------------------------------------------------------------------------
Statuses == {"DISCONNECTED", "WIFI", "NO_IP", "IP", "GENERIC", "CONNECT_FAILED", "BADAUTH"}

(* Type correctness of the attempt and of the driver behind it. *)
StaTypeOK ==
  /\ pc \in {"connect", "resolve", "join", "poll", "sleep", "decide", "pause", "sta", "ap"}
  /\ numRetries \in 0 .. NumRetries
  /\ staErr \in Errors \cup {"OK"}
  /\ target \in {"ssid", "bssid", "none"}
  /\ connectUsingBssid \in BOOLEAN
  /\ elapsed \in 0 .. Timeout
  /\ sinceCheck \in 0 .. CheckEvery
  /\ status \in Statuses /\ connectionStatus \in Statuses
  /\ link \in Failures \cup {"JOIN", "LINK"} /\ address \in BOOLEAN
  /\ upFor \in 0 .. Settled /\ upInAttempt \in BOOLEAN /\ everUp \in BOOLEAN

(* Success is never invented: whatever the order of callbacks, stale        *)
(* statuses and retries, an attempt returns OK only if DHCP gave an address *)
(* at some time since power-on.                                             *)
OkHadAddress == staErr = "OK" => everUp

(* The access point replaces the network only for a reason: when the last   *)
(* attempt ran out of time, the link had not been up, with an address, for  *)
(* more than a turn longer than the interval at which the driver is asked   *)
(* (network.c:902-952).                                                     *)
GivesUpOnlyWhenDown == pc = "ap" /\ staErr = "TIMEOUT" => upFor < Settled

(* An attempt that returned OK saw the network: the link was up, with an    *)
(* address, at some time during that attempt (network.h:68).                *)
OkMeansConnected == staErr = "OK" => upInAttempt

(* Whatever the network does, mngr_init gets to its web server, on the      *)
(* network or on its own access point.                                      *)
Decided == <>(pc \in {"sta", "ap"})
=============================================================================
