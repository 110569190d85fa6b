---------------------------- MODULE PairingProofs ----------------------------
(***************************************************************************)
(* Type correctness of Pairing, and that names and keys part only in the   *)
(* ways it lists, for any set of devices of any class.                     *)
(***************************************************************************)
EXTENDS Pairing, TLAPS

(* What the two lists of exceptions cover at each point of the handlers:    *)
(* after the key and before the name in an unpairing, the name of the entry *)
(* is one more exception, and its key is gone; while the keys are being     *)
(* deleted, any name is.  When nothing runs, what is in RAM is in flash.    *)
PInv ==
  /\ PairingTypeOK
  /\ pc # Off => cfg \in Tables
  /\ pc = Idle => durable = cfg
  /\ pc # Off => keys \ Named(cfg) \subseteq unnamed
  /\ pc = Off => keys \ Named(durable) \subseteq unnamed
  /\ pc \in {Idle, Save} => Named(cfg) \ keys \subseteq keyless
  /\ pc = Off => Named(durable) \ keys \subseteq keyless
  /\ \A i \in Entries : pc = Unpair(i) => /\ cfg[i] \notin keys
                                          /\ Named(cfg) \ keys \subseteq keyless \cup {cfg[i]}

(* The points are distinct. *)
LEMMA PointsDiffer ==
  /\ Off # Idle /\ Off # Save /\ Off # Clean /\ Idle # Save /\ Idle # Clean /\ Save # Clean
  /\ \A i \in Entries : Unpair(i) \notin {Off, Idle, Save, Clean}
  /\ \A i, j \in Entries : Unpair(i) = Unpair(j) => i = j
  BY DEF Off, Idle, Save, Clean, Unpair

LEMMA NamesType ==
  ASSUME NEW t \in Tables
  PROVE  Named(t) \subseteq Devices
  BY DEF Tables, Named

(* What a shortened table holds is a table. *)
LEMMA ShortenedType ==
  ASSUME NEW t, NEW u \in Store!Shortened(t)
  PROVE  u \in Tables
<1>1. 0 .. 3 - 1 = Entries
  BY DEF Entries, BT_KEYBOARD, BT_MOUSE, BT_GAMEPAD
<1> QED BY <1>1 DEF Store!Shortened, Store!Slots, Tables

LEMMA NoNamesType == NoNames \in Tables /\ Named(NoNames) = {}
  BY DEF NoNames, Tables, Named

LEMMA PInvInit == Init => PInv
  BY NoNamesType, PointsDiffer DEF Init, PInv, PairingTypeOK

(* The handlers and callbacks that leave the settings alone. *)
LEMMA QuietKeeps ==
  PInv /\ (btloop_enable \/ btloop_disable \/ btloop_on_init_complete \/ btloop_clear_pairings
             \/ SaveForm \/ \E d \in Devices : Disconnect(d)) => PInv'
<1> SUFFICES ASSUME PInv, pc = Idle, pc' \in {Idle, Save, Clean}, UNCHANGED <<storeVars, keys, historyVars>>,
                    radio' \in {"off", "starting", "scanning"}, btloop_active' \in BOOLEAN,
                    connecting' \subseteq Devices
             PROVE  PInv'
  BY PointsDiffer DEF btloop_enable, btloop_disable, btloop_on_init_complete, btloop_clear_pairings,
     SaveForm, Disconnect, btVars, PInv, PairingTypeOK
<1> QED BY PointsDiffer DEF PInv, PairingTypeOK, storeVars, historyVars, Tables

LEMMA ReadyKeeps ==
  ASSUME PInv, NEW d \in Devices, btloop_on_device_ready(d)
  PROVE  PInv'
<1>1. cfg \in Tables /\ pc = Idle
  BY PointsDiffer DEF btloop_on_device_ready, PInv
<1>2. cfg' \in Tables
  BY <1>1 DEF btloop_on_device_ready, Persist, Tables
<1>3. Named(cfg') \subseteq Named(cfg) \cup {d}
  BY <1>1, <1>2 DEF btloop_on_device_ready, Persist, Named, Tables
<1>4. pc' \in {Idle, Save}
  BY DEF btloop_on_device_ready
<1>5. pc' = Idle => cfg' = cfg
  BY <1>1, PointsDiffer DEF btloop_on_device_ready, Persist, Tables
<1>6. PairingTypeOK'
  BY <1>1, <1>2, <1>4, NamesType DEF btloop_on_device_ready, PInv, PairingTypeOK
<1>7. keys' \ Named(cfg') \subseteq unnamed'
  BY <1>1, PointsDiffer DEF btloop_on_device_ready, PInv
<1>8. Named(cfg') \ keys' \subseteq keyless'
  BY <1>1, <1>3, PointsDiffer DEF btloop_on_device_ready, PInv
<1> QED BY <1>1, <1>2, <1>4, <1>5, <1>6, <1>7, <1>8, PointsDiffer DEF btloop_on_device_ready, PInv

LEMMA ConnectKeeps ==
  ASSUME PInv, NEW d \in Devices, Connect(d)
  PROVE  PInv'
  BY PointsDiffer DEF Connect, PInv, PairingTypeOK, storeVars, Tables

(* Unpairing, and cleaning: the keys first. *)
LEMMA UnpairKeeps ==
  ASSUME PInv, NEW i \in Entries, cgi_btunpair(i) \/ UnpairName(i)
  PROVE  PInv'
<1>1. CASE cgi_btunpair(i)
  <2>1. cfg \in Tables /\ pc = Idle /\ pc' = Unpair(i)
    BY <1>1, PointsDiffer DEF cgi_btunpair, PInv
  <2>2. PairingTypeOK'
    BY <1>1, <2>1 DEF cgi_btunpair, PInv, PairingTypeOK, storeVars, historyVars
  <2> QED BY <1>1, <2>1, <2>2, PointsDiffer DEF cgi_btunpair, PInv, storeVars, historyVars, Tables
<1>2. CASE UnpairName(i)
  <2>1. cfg \in Tables /\ pc = Unpair(i) /\ pc' = Save
    BY <1>2, PointsDiffer DEF UnpairName, PInv
  <2>2. cfg' \in Tables
    BY <1>2, <2>1 DEF UnpairName, Tables
  <2>3. Named(cfg') \subseteq Named(cfg) /\ Named(cfg) \subseteq Named(cfg') \cup {cfg[i]}
    BY <1>2, <2>1 DEF UnpairName, Named, Tables
  <2>4. PairingTypeOK'
    BY <1>2, <2>1, <2>2, NamesType DEF UnpairName, PInv, PairingTypeOK, btVars
  <2>5. keys' \ Named(cfg') \subseteq unnamed'
    BY <1>2, <2>1, <2>3, PointsDiffer DEF UnpairName, PInv, btVars
  <2>6. Named(cfg') \ keys' \subseteq keyless'
    BY <1>2, <2>1, <2>3, PointsDiffer DEF UnpairName, PInv, btVars
  <2> QED BY <2>1, <2>2, <2>4, <2>5, <2>6, PointsDiffer DEF PInv
<1> QED BY <1>1, <1>2

LEMMA CleanKeeps ==
  ASSUME PInv, ClearNames \/ \E d \in Devices : DropKey(d)
  PROVE  PInv'
<1>1. CASE ClearNames
  <2>1. pc' = Save /\ cfg' = NoNames /\ keys' = {} /\ Named(cfg') = {}
    BY <1>1, NoNamesType DEF ClearNames, btVars
  <2>2. PairingTypeOK'
    BY <1>1, <2>1, NoNamesType DEF ClearNames, PInv, PairingTypeOK, btVars, historyVars
  <2> QED BY <2>1, <2>2, NoNamesType, PointsDiffer DEF PInv
<1>2. CASE \E d \in Devices : DropKey(d)
  BY <1>2, PointsDiffer DEF DropKey, PInv, PairingTypeOK, storeVars, historyVars, Tables
<1> QED BY <1>1, <1>2

(* A save ends with what it was given; until then only the next start sees  *)
(* the difference.                                                          *)
LEMMA SaveKeeps == PInv /\ SaveStep => PInv'
<1> SUFFICES ASSUME PInv, SaveStep PROVE PInv'
  OBVIOUS
<1>1. pc = Save /\ pc' \in {Save, Idle} /\ cfg' = cfg /\ cfg \in Tables
  BY PointsDiffer DEF SaveStep, PInv, Store!BeginSave, Store!ContinueSave, Store!EndSave
<1>2. durable' \in Tables /\ saving' \in BOOLEAN
  BY <1>1, NoNamesType, ShortenedType
  DEF SaveStep, PInv, PairingTypeOK, Store!BeginSave, Store!ContinueSave, Store!EndSave
<1>3. pc' = Idle => durable' = cfg'
  BY <1>1, PointsDiffer DEF SaveStep, Store!BeginSave, Store!ContinueSave, Store!EndSave
<1>4. PairingTypeOK'
  BY <1>1, <1>2 DEF SaveStep, PInv, PairingTypeOK, btVars, historyVars
<1> QED BY <1>1, <1>2, <1>3, <1>4, PointsDiffer DEF SaveStep, PInv, btVars, historyVars

LEMMA PowerKeeps == PInv /\ (PowerOn \/ PowerCut) => PInv'
<1> SUFFICES ASSUME PInv, PowerOn \/ PowerCut PROVE PInv'
  OBVIOUS
<1>1. CASE PowerOn
  <2>1. pc = Off /\ pc' = Save /\ cfg' = durable /\ durable' = durable /\ saving' = saving /\ durable \in Tables
    BY <1>1 DEF PowerOn, Store!Open, PInv, PairingTypeOK
  <2>2. PairingTypeOK'
    BY <1>1, <2>1 DEF PowerOn, PInv, PairingTypeOK, btVars, historyVars
  <2> QED BY <1>1, <2>1, <2>2, PointsDiffer DEF PowerOn, PInv, btVars, historyVars
<1>2. CASE PowerCut
  <2>1. pc # Off /\ pc' = Off /\ cfg' = NoTable /\ saving' \in BOOLEAN /\ keys' = keys
    BY <1>2 DEF PowerCut, Store!Crash, Store!CrashInErase, PInv, PairingTypeOK
  <2>2. durable' \in Tables /\ (pc = Idle => durable' = cfg)
    BY <1>2, ShortenedType, PointsDiffer
    DEF PowerCut, Store!Crash, Store!CrashInErase, PInv, PairingTypeOK
  <2>3. cfg \in Tables
    BY <2>1 DEF PInv
  <2>4. PairingTypeOK'
    BY <1>2, <2>1, <2>2, <2>3, NamesType DEF PowerCut, PInv, PairingTypeOK
  <2>5. keys' \ Named(durable') \subseteq unnamed'
    BY <1>2, <2>1, <2>2 DEF PowerCut, PInv
  <2>6. Named(durable') \ keys' \subseteq keyless'
    BY <1>2, <2>1, <2>2 DEF PowerCut, PInv
  <2> QED BY <2>1, <2>2, <2>4, <2>5, <2>6, PointsDiffer DEF PInv
<1> QED BY <1>1, <1>2

LEMMA PInvAlways == Spec => []PInv
<1>1. PInv /\ [Next]_vars => PInv'
  <2> SUFFICES ASSUME PInv, [Next]_vars PROVE PInv'
    OBVIOUS
  <2>1. CASE UNCHANGED vars
    BY <2>1 DEF vars, PInv, PairingTypeOK, storeVars, btVars, historyVars, Tables
  <2> QED BY <2>1, QuietKeeps, ReadyKeeps, ConnectKeeps, UnpairKeeps, CleanKeeps, SaveKeeps, PowerKeeps DEF Next
<1> QED BY <1>1, PInvInit, PTL DEF Spec

(* The settings, the keys and the handlers stay within their types. *)
THEOREM PairingTypeCorrect == Spec => []PairingTypeOK
<1>1. PInv => PairingTypeOK
  BY DEF PInv
<1> QED BY <1>1, PInvAlways, PTL

(* cgi_btunpair and btloop_clear_pairings leave no key behind, wherever the *)
(* power cuts them; what else leaves one is listed.                         *)
THEOREM NoKeyLeftBehind == Spec => []KeysAreNamed
<1>1. PInv => KeysAreNamed
  BY PointsDiffer DEF PInv, KeysAreNamed
<1> QED BY <1>1, PInvAlways, PTL

(* What leaves a name whose device cannot reconnect is listed. *)
THEOREM NoNameLeftBehind == Spec => []NamesHaveKeys
<1>1. PInv => NamesHaveKeys
  BY PointsDiffer DEF PInv, NamesHaveKeys
<1> QED BY <1>1, PInvAlways, PTL
=============================================================================
