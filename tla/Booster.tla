-------------------------------- MODULE Booster --------------------------------
(***************************************************************************)
(* The Booster from power-on to a web server (booster/src/main.c, mngr.c,  *)
(* the settings network_wifiInit reads and fills in, the Wi-Fi page), on   *)
(* top of the settings store.  Every step that saves is cut in two, what   *)
(* it puts in RAM and the save, and the power may go at any point, any     *)
(* number of times.                                                        *)
(*                                                                         *)
(* Until mngr_httpd_start nothing but main runs the store.  From then on   *)
(* the CGI handlers do, one at a time, in the interrupt of the network     *)
(* stack; main only blinks a LED (mngr_loop).                              *)
(***************************************************************************)
EXTENDS Settings

CONSTANTS
  NumRetries,   \* attempts to join the configured network (mngr.c:40)
  Forms,        \* what users fill in: functions from some entries to values
  Refused,      \* the good items of forms that have a bad one, too
  Countries,    \* the WIFI_COUNTRY values another firmware may have stored
  CountryOf,    \* getCountryCode: the code a WIFI_COUNTRY value stands for
  Clipped,      \* the first WIFI_AP_PASS_MAX_LENGTH - 1 characters of a value
  NoAp          \* no access point is up

VARIABLES
  pc,           \* where main, mngr_init or a CGI handler has got to
  retries,      \* mngr_init: numRetries
  ap,           \* the access point on the air
  edited,       \* history: a form was saved since the server started
  unsaved,      \* history: the entries refused forms have put in RAM since the last save
  strays        \* history: those a later save has taken to flash

refusals == <<unsaved, strays>>
fwvars == <<ram, flash, cursor, pc, retries, ap, edited, refusals>>

(* The entries of gconfig.c:3-31 these components use; 0 is MAGICVERSION. *)
BOOT_FEATURE == 1
HOSTNAME == 2
WIFI_AUTH == 3
WIFI_COUNTRY == 5
WIFI_PASSWORD == 6
WIFI_SSID == 8
WIFI_MODE == 9
WifiEntries == {HOSTNAME, WIFI_AUTH, WIFI_PASSWORD, WIFI_SSID, WIFI_MODE}

AP == "0"
STA == "1"

(* The saves of the firmware, by the point that starts one, and the point  *)
(* its caller goes on to when settings_save returns.                       *)
AfterSave ==
  [first |-> "reload", featureSave |-> "mngr", fallbackSave |-> "wifiAp",
   apSave |-> "serve", formSave |-> "serve"]

Points ==
  DOMAIN AfterSave \cup
    {"off", "reload", "feature", "mngr", "wifiSta", "join", "joining", "wifiAp", "ap", "serve", "dark", "halted"}

At(p) == pc = p /\ Idle
-----------------------------------------------------------------------------
(* main: load the table, or save the defaults and load those. *)

PowerOn ==
  /\ At("off")
  /\ settings_init
  /\ pc' = IF MagicFound(flash) THEN "feature" ELSE "first"
  /\ UNCHANGED <<retries, ap, edited, refusals>>

(* settings_deinit, then gconfig_init again; main returns if that fails. *)
Reload ==
  /\ At("reload")
  /\ ram' = Load(flash)
  /\ pc' = IF MagicFound(flash) THEN "feature" ELSE "halted"
  /\ UNCHANGED <<flash, cursor, retries, ap, edited, refusals>>

(* Faulty variant: the save is made without the put. *)
SetBootFeature_NoPut ==
  /\ At("feature")
  /\ pc' = "featureSave"
  /\ UNCHANGED <<ram, flash, cursor, retries, ap, edited, refusals>>

(* "The next time we boot in IKBD mode." *)
SetBootFeature ==
  /\ At("feature")
  /\ ram' = [ram EXCEPT ![BOOT_FEATURE] = "IKBD"]
  /\ pc' = "featureSave"
  /\ UNCHANGED <<flash, cursor, retries, ap, edited, refusals>>

(* The erase of a save its caller has reached, and the rest of the save. *)
StartSave ==
  /\ pc \in DOMAIN AfterSave
  /\ settings_save
  /\ pc' = AfterSave[pc]
  /\ UNCHANGED <<retries, ap, edited, refusals>>

SavePage == ProgramPage /\ UNCHANGED <<pc, retries, ap, edited, refusals>>
-----------------------------------------------------------------------------
(* mngr_init and network_wifiInit. *)

ReadMode ==
  /\ At("mngr")
  /\ pc' = IF ram[WIFI_MODE] = STA THEN "wifiSta" ELSE "wifiAp"
  /\ retries' = NumRetries
  /\ UNCHANGED <<ram, flash, cursor, ap, edited, refusals>>

(* The chip comes up, or mngr_init returns and mngr_loop runs without a     *)
(* network; the country is put in RAM first, and not saved.                 *)
StartChip(point, next) ==
  /\ At(point)
  /\ ram' = [ram EXCEPT ![WIFI_COUNTRY] = CountryOf[@]]
  /\ pc' \in {next, "dark"}
  /\ UNCHANGED <<flash, cursor, retries, ap, edited, refusals>>

(* mngr_httpd_start. *)
Serve == pc' = "serve" /\ edited' = FALSE

StaStarts ==
  /\ At("join")
  /\ retries > 0
  /\ pc' = "joining"
  /\ UNCHANGED <<ram, flash, cursor, retries, ap, edited, refusals>>

StaJoins ==
  /\ At("joining")
  /\ ram[WIFI_SSID] # ""
  /\ Serve
  /\ UNCHANGED <<ram, flash, cursor, retries, ap, refusals>>

(* Faulty variant: a failed attempt is not counted. *)
StaFails_NotCounted ==
  /\ At("joining")
  /\ pc' = "join"
  /\ UNCHANGED <<ram, flash, cursor, retries, ap, edited, refusals>>

(* network_wifiStaConnect returns an error, whichever it is. *)
StaFails ==
  /\ At("joining")
  /\ retries' = retries - 1
  /\ pc' = "join"
  /\ UNCHANGED <<ram, flash, cursor, ap, edited, refusals>>

(* Faulty variant: WIFI_MODE is left as it is. *)
GiveUp_KeepMode ==
  /\ At("join")
  /\ retries = 0
  /\ ram' = [ram EXCEPT ![HOSTNAME] = "croissant", ![WIFI_PASSWORD] = "sidecart", ![WIFI_AUTH] = "5"]
  /\ pc' = "fallbackSave"
  /\ UNCHANGED <<flash, cursor, retries, ap, edited, refusals>>

(* After the last attempt the AP defaults replace the credentials. *)
GiveUp ==
  /\ At("join")
  /\ retries = 0
  /\ ram' = [ram EXCEPT ![WIFI_MODE] = AP, ![HOSTNAME] = "croissant",
                        ![WIFI_PASSWORD] = "sidecart", ![WIFI_AUTH] = "5"]
  /\ pc' = "fallbackSave"
  /\ UNCHANGED <<flash, cursor, retries, ap, edited, refusals>>

Filled(t) ==
  [t EXCEPT ![HOSTNAME] = IF @ = "" THEN "croissant" ELSE @,
            ![WIFI_PASSWORD] = IF @ = "" THEN "sidecart" ELSE @,
            ![WIFI_AUTH] = IF @ = "0" THEN "5" ELSE @]

(* The SSID is the hostname, followed by the board's id for "croissant" only. *)
Announced(t) ==
  [host |-> t[HOSTNAME], withId |-> t[HOSTNAME] = "croissant",
   password |-> Clipped[t[WIFI_PASSWORD]], auth |-> t[WIFI_AUTH]]

(* Faulty variant: a password filled in does not ask for a save. *)
StartAp_PasswordUnsaved ==
  /\ At("ap")
  /\ ram' = Filled(ram)
  /\ ap' = Announced(ram')
  /\ \/ /\ ram'[HOSTNAME] = ram[HOSTNAME] /\ ram'[WIFI_AUTH] = ram[WIFI_AUTH]
        /\ Serve
     \/ /\ ram'[HOSTNAME] # ram[HOSTNAME] \/ ram'[WIFI_AUTH] # ram[WIFI_AUTH]
        /\ pc' = "apSave" /\ edited' = FALSE
  /\ UNCHANGED <<flash, cursor, retries, refusals>>

(* The access point; what had to be filled in is saved (apSettingsUpdated). *)
StartAp ==
  /\ At("ap")
  /\ ram' = Filled(ram)
  /\ ap' = Announced(ram')
  /\ \/ ram' = ram /\ Serve
     \/ ram' # ram /\ pc' = "apSave" /\ edited' = FALSE
  /\ UNCHANGED <<flash, cursor, retries, refusals>>
-----------------------------------------------------------------------------
(* The Wi-Fi page sends its five entries together, or refuses to. *)
Accepted(f) ==
  WIFI_MODE \in DOMAIN f =>
    /\ f[WIFI_MODE] = STA => f[WIFI_SSID] # ""
    /\ f[HOSTNAME] # ""

With(t, f) == [i \in Slots |-> IF i \in DOMAIN f THEN f[i] ELSE t[i]]

(* cgi_saveparams: every item is put, then the table is saved, with what    *)
(* refused forms have put.                                                  *)
SaveForm ==
  /\ At("serve")
  /\ \E f \in Forms :
       /\ Accepted(f)
       /\ ram' = With(ram, f)
       /\ strays' = strays \cup (unsaved \ DOMAIN f)
  /\ pc' = "formSave"
  /\ edited' = TRUE /\ unsaved' = {}
  /\ UNCHANGED <<flash, cursor, retries, ap>>

(* An item is bad: the others are put all the same, and nothing is saved. *)
RefuseForm ==
  /\ At("serve")
  /\ \E g \in Refused : ram' = With(ram, g) /\ unsaved' = unsaved \cup DOMAIN g
  /\ UNCHANGED <<flash, cursor, pc, retries, ap, edited, strays>>

Off ==
  /\ pc' = "off" /\ retries' = 0 /\ ap' = NoAp
  /\ edited' = FALSE /\ unsaved' = {} /\ UNCHANGED strays

PowerCut == pc # "off" /\ PowerLoss /\ Off
PowerCutInErase == pc \in DOMAIN AfterSave /\ PowerLossInErase /\ Off
-----------------------------------------------------------------------------
(* A new board, or one whose IKBD firmware asks for the Booster. *)
FirmwareInit ==
  /\ flash \in {Blank} \cup
       {Full([Defaults EXCEPT ![BOOT_FEATURE] = "CONFIG", ![WIFI_COUNTRY] = c]) : c \in Countries}
  /\ ram = NoTable /\ cursor = Pages
  /\ pc = "off" /\ retries = 0 /\ ap = NoAp
  /\ edited = FALSE /\ unsaved = {} /\ strays = {}

(* What the firmware does by itself once it has power. *)
Progress ==
  \/ Reload \/ SetBootFeature \/ StartSave \/ SavePage
  \/ ReadMode \/ StartChip("wifiSta", "join") \/ StartChip("wifiAp", "ap")
  \/ StaStarts \/ StaJoins \/ StaFails \/ GiveUp \/ StartAp

FirmwareNext == PowerOn \/ Progress \/ SaveForm \/ RefuseForm \/ PowerCut \/ PowerCutInErase

FirmwareSpec == FirmwareInit /\ [][FirmwareNext]_fwvars

(* The firmware is one sequential program: it takes its next step. *)
FairFirmwareSpec == FirmwareSpec /\ WF_fwvars(Progress)
-----------------------------------------------------------------------------
ASSUME FirmwareAssumption ==
  /\ NumRetries \in Nat
  /\ {BOOT_FEATURE, HOSTNAME, WIFI_AUTH, WIFI_COUNTRY, WIFI_PASSWORD, WIFI_SSID, WIFI_MODE} \subseteq Slots
  /\ {"IKBD", "CONFIG", "croissant", "sidecart", "5", AP} \subseteq Values
  /\ Defaults[BOOT_FEATURE] = "IKBD" /\ Defaults[WIFI_MODE] = AP
  /\ Countries \subseteq Values
  /\ CountryOf \in [Values -> Values]
  /\ Clipped \in [Values -> Values]
  /\ \A f \in Forms : /\ f \in [DOMAIN f -> Values] /\ DOMAIN f \subseteq Slots \ {0}
                      /\ WifiEntries \subseteq DOMAIN f \/ DOMAIN f \cap (WifiEntries \cup {BOOT_FEATURE}) = {}
                      /\ BOOT_FEATURE \notin DOMAIN f
  /\ \A g \in Refused : \E f \in Forms : DOMAIN g \subseteq DOMAIN f /\ \A i \in DOMAIN g : g[i] = f[i]

(* A code getCountryCode gives is one it knows (network.c:39-70); no page    *)
(* has a field for the country.                                             *)
ASSUME CountryAssumption ==
  /\ \A v \in Values : CountryOf[CountryOf[v]] = CountryOf[v]
  /\ \A f \in Forms : WIFI_COUNTRY \notin DOMAIN f

FirmwareTypeOK ==
  /\ TypeOK
  /\ pc \in Points /\ (pc = "off" <=> ram = NoTable)
  /\ retries \in 0 .. NumRetries
  /\ ap \in [host : Values, withId : BOOLEAN, password : Values, auth : Values] \cup {NoAp}
  /\ edited \in BOOLEAN /\ unsaved \subseteq Slots /\ strays \subseteq Slots

(* Once main has saved the boot feature, whatever is saved or cut later in  *)
(* this session the next start finds IKBD, even in the middle of a save     *)
(* (main.c:103-106).                                                        *)
BootFeatureSticks ==
  pc \notin {"off", "first", "reload", "feature", "featureSave"} =>
    Load(flash)[BOOT_FEATURE] = "IKBD"

(* No sequence of saves and cuts makes a start join a network with a        *)
(* hostname, a password, an auth mode and an SSID that were not submitted   *)
(* together (mngr_wifi.shtml:295-316, mngr.c:56-65): WIFI_MODE comes after  *)
(* the others in the table, and the loader stops at the first bad entry.    *)
(* Only what a refused form has put and the save of another form has taken  *)
(* to flash does not count (mngr_httpd.c:307-379).                          *)
StaCredentialsTogether ==
  Load(flash)[WIFI_MODE] = STA /\ WIFI_MODE \notin strays =>
    \E f \in Forms : /\ WifiEntries \subseteq DOMAIN f
                     /\ Accepted(f)
                     /\ \A i \in WifiEntries \ strays : Load(flash)[i] = f[i]

(* While the server runs, the table in use is the one in flash, but for the *)
(* country code, which every start corrects alike (network.c:463-470), and  *)
(* for what refused forms have put since the last save (mngr_httpd.c:350-   *)
(* 369); the next save makes that durable, too.                             *)
ServedTableIsDurable ==
  At("serve") =>
    \A i \in Slots \ unsaved : [Load(flash) EXCEPT ![WIFI_COUNTRY] = CountryOf[@]][i] = ram[i]

(* A device serving as access point is the same access point after a power  *)
(* cycle, unless a form was saved: a fallback from a network that cannot be *)
(* joined is not undone, nothing filled in is lost (mngr.c:56-76,           *)
(* network.c:490-569).                                                      *)
SameApNextTime ==
  At("serve") /\ ap # NoAp /\ ~edited =>
    /\ Load(flash)[WIFI_MODE] # STA
    /\ Announced(Filled(Load(flash))) = ap

(* Whatever was in flash and wherever earlier sessions were cut, a start    *)
(* that keeps its power ends up serving, or with a chip that does not come  *)
(* up; it neither stops in main nor tries to join for ever.                 *)
Booted == pc # "off" ~> pc \in {"serve", "dark", "off"}
=============================================================================
