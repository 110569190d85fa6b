-------------------------------- MODULE Pairing --------------------------------
(***************************************************************************)
(* Bluetooth pairing (booster/src/btloop.c and the unpair and clean        *)
(* handlers of mngr_httpd.c): the keys the Bluetooth stack keeps in its    *)
(* own part of the flash, and the names under which the settings remember  *)
(* the keyboard, the mouse and the gamepad.  The two are changed one after *)
(* the other by callbacks of the stack and by CGI handlers, all of which   *)
(* run to their end one at a time in the same interrupt; only the power    *)
(* stops them half way.                                                    *)
(*                                                                         *)
(* The settings are used through what they promise, ConfigStore, which     *)
(* Settings is shown to implement.  The Bluetooth stack and Bluepad32 are  *)
(* external.                                                               *)
(***************************************************************************)
EXTENDS Integers

CONSTANTS
  Devices,
  None,          \* no device: the empty string
  NoTable,       \* no table is loaded
  MinorBits,     \* the minor bits of each device's class
  KnownAs,       \* what the HID layer takes each device for, or None
  PowerFails     \* whether the power may go

VARIABLES
  pc,            \* what the firmware is doing: off, idle, or a handler's next step
  cfg, durable, saving,   \* the settings: in RAM, as the next start reads them, being saved
  radio,         \* the Bluetooth stack: off, starting, scanning
  btloop_active,
  keys,          \* the devices the stack has keys for
  connecting,    \* the devices connected that are not ready yet
  unnamed,       \* history: the devices that were left a key and no name
  keyless        \* history: the devices that were left a name and no key

storeVars == <<cfg, durable, saving>>
btVars == <<radio, btloop_active, keys, connecting>>
historyVars == <<unnamed, keyless>>
vars == <<pc, storeVars, btVars, historyVars>>

(* The entries that name a device, in the order of the table. *)
BT_KEYBOARD == 0
BT_MOUSE == 1
BT_GAMEPAD == 2
Entries == {BT_KEYBOARD, BT_MOUSE, BT_GAMEPAD}
NoNames == [i \in Entries |-> None]

Store == INSTANCE ConfigStore
           WITH NumEntries <- 3, Values <- Devices \cup {None}, Defaults <- NoNames

Named(t) == {t[i] : i \in Entries} \ {None}

(* The class covers keyboards and mice with one mask, tested first. *)
bt_class_to_type(d) ==
  IF MinorBits[d] \cap {"keyboard", "mouse"} # {} THEN {"Keyboard", "Mouse"}
  ELSE IF MinorBits[d] # {} THEN {"Gamepad"} ELSE {}

TypesOf(d) == IF KnownAs[d] # None THEN {KnownAs[d]} ELSE bt_class_to_type(d)

(* The entries a device is remembered under. *)
EntriesOf(d) ==
  {i \in Entries : \/ i = BT_KEYBOARD /\ "Keyboard" \in TypesOf(d)
                   \/ i = BT_MOUSE /\ "Mouse" \in TypesOf(d)
                   \/ i = BT_GAMEPAD /\ "Gamepad" \in TypesOf(d)}
-----------------------------------------------------------------------------
Off == <<"off">>
Idle == <<"idle">>
Save == <<"save">>      \* about to save, or saving
Clean == <<"clean">>
Unpair(i) == <<"unpair", i>>

(* btloop_enable starts the stack the first time.  Nothing else looks at    *)
(* btloop_active but btloop_poll, which has nothing left to do: the stack   *)
(* runs in the background.                                                  *)
btloop_enable ==
  /\ pc = Idle
  /\ btloop_active' = TRUE
  /\ radio' = IF radio = "off" THEN "starting" ELSE radio
  /\ UNCHANGED <<pc, storeVars, keys, connecting, historyVars>>

btloop_disable ==
  /\ pc = Idle
  /\ btloop_active' = FALSE
  /\ UNCHANGED <<pc, storeVars, radio, keys, connecting, historyVars>>

btloop_on_init_complete ==
  /\ pc = Idle /\ radio = "starting"
  /\ radio' = "scanning"
  /\ UNCHANGED <<pc, storeVars, btloop_active, keys, connecting, historyVars>>

(* Faulty variant: the type is stored in place of the device. *)
Persist_Swapped(d) == [i \in Entries |-> IF i \in EntriesOf(d) THEN TypesOf(d) ELSE cfg[i]]

(* btloop_persist_pairing: the name replaces the one the entry had, whose   *)
(* key stays.                                                               *)
Persist(d) == [i \in Entries |-> IF i \in EntriesOf(d) THEN d ELSE cfg[i]]

(* A device may get here whose key was dropped while it was connecting.     *)
btloop_on_device_ready(d) ==
  /\ pc = Idle /\ d \in connecting
  /\ connecting' = connecting \ {d}
  /\ cfg' = Persist(d)
  /\ pc' = IF EntriesOf(d) # {} THEN Save ELSE Idle
  /\ unnamed' = (unnamed \cup Named(cfg)) \ Named(cfg')
  /\ keyless' = keyless \cup ({d} \ keys)
  /\ UNCHANGED <<durable, saving, radio, btloop_active, keys>>

(* Faulty variant: the name goes and the key stays. *)
cgi_btunpair_NameOnly(i) ==
  /\ pc = Idle
  /\ pc' = Unpair(i)
  /\ UNCHANGED <<storeVars, btVars, historyVars>>

(* cgi_btunpair: first the key of the device named, then the name. *)
cgi_btunpair(i) ==
  /\ pc = Idle
  /\ keys' = keys \ {cfg[i]}
  /\ pc' = Unpair(i)
  /\ UNCHANGED <<storeVars, radio, btloop_active, connecting, historyVars>>

(* Another entry may still name the device. *)
UnpairName(i) ==
  /\ pc = Unpair(i)
  /\ cfg' = [cfg EXCEPT ![i] = None]
  /\ pc' = Save
  /\ keyless' = keyless \cup ({cfg[i]} \cap Named(cfg'))
  /\ UNCHANGED <<durable, saving, btVars, unnamed>>

(* btloop_clear_pairings: the keys, one by one, then the names. *)
btloop_clear_pairings ==
  /\ pc = Idle
  /\ pc' = Clean
  /\ UNCHANGED <<storeVars, btVars, historyVars>>

DropKey(d) ==
  /\ pc = Clean /\ d \in keys
  /\ keys' = keys \ {d}
  /\ UNCHANGED <<pc, storeVars, radio, btloop_active, connecting, historyVars>>

(* Faulty variant: the names of two of the entries are cleared. *)
ClearNames_Two ==
  /\ pc = Clean /\ keys = {}
  /\ cfg' = [NoNames EXCEPT ![BT_MOUSE] = cfg[BT_MOUSE]]
  /\ pc' = Save
  /\ UNCHANGED <<durable, saving, btVars, historyVars>>

ClearNames ==
  /\ pc = Clean /\ keys = {}
  /\ cfg' = NoNames
  /\ pc' = Save
  /\ UNCHANGED <<durable, saving, btVars, historyVars>>

(* cgi_saveparams saves the whole table, whatever entries the form has. *)
SaveForm ==
  /\ pc = Idle
  /\ pc' = Save
  /\ UNCHANGED <<storeVars, btVars, historyVars>>

SaveStep ==
  /\ pc = Save
  /\ \/ Store!BeginSave \/ Store!ContinueSave
     \/ Store!EndSave
  /\ pc' = IF saving' THEN Save ELSE Idle
  /\ UNCHANGED <<btVars, historyVars>>

(* A start saves the table once, to record the boot feature. *)
PowerOn ==
  /\ pc = Off
  /\ Store!Open
  /\ pc' = Save
  /\ UNCHANGED <<btVars, historyVars>>
-----------------------------------------------------------------------------
(* The Bluetooth stack.  A device that answers the scan and is let in by    *)
(* btloop_on_device_discovered, or one that has a key, connects; it has a   *)
(* key from then on.                                                        *)

Connect(d) ==
  /\ pc = Idle /\ radio = "scanning"
  /\ d \notin connecting
  /\ d \in keys \/ MinorBits[d] # {}
  /\ connecting' = connecting \cup {d}
  /\ keys' = keys \cup {d}
  /\ unnamed' = IF d \in Named(cfg) THEN unnamed ELSE unnamed \cup {d}
  /\ keyless' = keyless \ {d}
  /\ UNCHANGED <<pc, storeVars, radio, btloop_active>>

Disconnect(d) ==
  /\ pc = Idle /\ d \in connecting
  /\ connecting' = connecting \ {d}
  /\ UNCHANGED <<pc, storeVars, radio, btloop_active, keys, historyVars>>

(* The power goes.  In the middle of a handler or of a save it leaves names *)
(* and keys as far as they had got.                                         *)
PowerCut ==
  /\ PowerFails /\ pc # Off
  /\ Store!Crash \/ (pc = Save /\ Store!CrashInErase)
  /\ pc' = Off
  /\ radio' = "off" /\ btloop_active' = FALSE /\ connecting' = {}
  /\ unnamed' = IF pc = Idle THEN unnamed ELSE unnamed \cup (Named(cfg) \ Named(durable'))
  /\ keyless' = IF pc = Idle THEN keyless ELSE keyless \cup (Named(durable') \ keys)
  /\ UNCHANGED keys
-----------------------------------------------------------------------------
Init ==
  /\ pc = Off
  /\ cfg = NoTable /\ durable = NoNames /\ saving = FALSE
  /\ radio = "off" /\ btloop_active = FALSE /\ keys = {} /\ connecting = {}
  /\ unnamed = {} /\ keyless = {}

Next ==
  \/ PowerOn \/ SaveStep \/ SaveForm
  \/ btloop_enable \/ btloop_disable \/ btloop_on_init_complete
  \/ \E d \in Devices : Connect(d) \/ Disconnect(d) \/ btloop_on_device_ready(d)
  \/ \E i \in Entries : cgi_btunpair(i) \/ UnpairName(i)
  \/ btloop_clear_pairings \/ ClearNames \/ \E d \in Devices : DropKey(d)
  \/ PowerCut

Spec == Init /\ [][Next]_vars
-----------------------------------------------------------------------------
Tables == [Entries -> Devices \cup {None}]

(* Type correctness of the settings, the stack and the handlers. *)
PairingTypeOK ==
  /\ pc \in {Off, Idle, Save, Clean} \cup {Unpair(i) : i \in Entries}
  /\ cfg \in Tables \cup {NoTable} /\ durable \in Tables /\ saving \in BOOLEAN
  /\ radio \in {"off", "starting", "scanning"} /\ btloop_active \in BOOLEAN
  /\ keys \subseteq Devices /\ connecting \subseteq Devices
  /\ unnamed \subseteq Devices /\ keyless \subseteq Devices

(* A device has a key and no name, in RAM or at the next start, only if its *)
(* pairing was never completed, another device took its entry, or the power *)
(* went before its name was saved or in a save.  Unpairing and cleaning     *)
(* never leave a key behind, even when the power goes half way.             *)
KeysAreNamed ==
  /\ pc = Idle => keys \ Named(cfg) \subseteq unnamed
  /\ pc = Off => keys \ Named(durable) \subseteq unnamed

(* A device has a name and no key only if its key was dropped while it was  *)
(* connecting, it is named twice and one of the two was unpaired, or the    *)
(* power went between the key and the name.                                 *)
NamesHaveKeys ==
  /\ pc = Idle => Named(cfg) \ keys \subseteq keyless
  /\ pc = Off => Named(durable) \ keys \subseteq keyless

(* Nothing is paired while pairing is stopped (mngr_btpair.shtml:254, 269). *)
StopStops == [][~btloop_active => keys' \subseteq keys]_vars
=============================================================================
