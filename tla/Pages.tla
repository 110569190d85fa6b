---------------------------------- MODULE Pages ----------------------------------
(***************************************************************************)
(* The settings pages in the tabs of one or more browsers                  *)
(* (booster/src/fs/mngr_usb.shtml, mngr_bt.shtml, mngr_native.shtml,       *)
(* mngr_wifi.shtml), the tags that fill them in (ssi_handler) and          *)
(* cgi_saveparams, which saves what they send.  A page shows the settings  *)
(* as they were when it was loaded.  Its request travels for a while, may  *)
(* be lost, and may arrive twice; so may the answer be lost.  A handler    *)
(* runs to its end in one callback, and only the power stops it.           *)
(*                                                                         *)
(* The settings are used through what they promise, ConfigStore; parsing   *)
(* the form is in Form.                                                    *)
(***************************************************************************)
EXTENDS Integers

CONSTANTS
  Tabs,
  Values,       \* what a setting may hold
  Defaults,     \* the table of a new board
  Offered,      \* what the user may choose or type, for each setting
  Literal,      \* what a page's script makes of a value between quotes, or Broken
  Lower, Trim,  \* a value in lower case, and without spaces at its ends
  Found,        \* the tables a board may come with
  NoTable,      \* no table is loaded
  NoTab,        \* whose request it is when its page is gone
  Broken,       \* the script does not run: a quote ended the literal
  MaxActions    \* loads, edits, clicks and power cuts in all

VARIABLES
  pc,                     \* off, idle, or save: about to save, or saving
  cfg, durable, saving,   \* the settings: in RAM, as the next start reads them, being saved
  tabs,                   \* the page of each tab, its widgets and its initialState
  requests,               \* the forms under way to the Booster
  answers,                \* the answers of status 200 under way to a tab
  actions                 \* how many of these there were

storeVars == <<cfg, durable, saving>>
vars == <<pc, storeVars, tabs, requests, answers, actions>>

(* The settings of the pages, in the order of the table (gconfig.c:3-31). *)
HOSTNAME == 0
WIFI_AUTH == 1
WIFI_PASSWORD == 2
WIFI_SSID == 3
WIFI_MODE == 4
MODE == 5
MOUSE_SPEED == 6
USB_KB_LAYOUT == 7
JOYSTICK_USB == 8
JOYSTICK_USB_PORT == 9
JOYSTICK_USB_SHOOT == 10
MOUSE_ORIGINAL == 11
BT_KB_LAYOUT == 12
BT_GAMEPAD_SHOOT == 13
NumEntries == 14
Slots == 0 .. NumEntries - 1
Tables == [Slots -> Values]

Store == INSTANCE ConfigStore

Empty == ""   \* no text, and what a select without an option sends
Layouts == {USB_KB_LAYOUT, BT_KB_LAYOUT}
Texts == {HOSTNAME, WIFI_PASSWORD, WIFI_SSID}
Checkboxes == {JOYSTICK_USB, MOUSE_ORIGINAL}
Trimmed == {HOSTNAME, WIFI_SSID}

SettingsOf ==
  [usb |-> {MODE, MOUSE_SPEED, USB_KB_LAYOUT, JOYSTICK_USB, JOYSTICK_USB_PORT,
            JOYSTICK_USB_SHOOT, MOUSE_ORIGINAL},
   bt |-> {MODE, MOUSE_SPEED, BT_KB_LAYOUT, BT_GAMEPAD_SHOOT},
   native |-> {MODE},
   wifi |-> {HOSTNAME, WIFI_AUTH, WIFI_PASSWORD, WIFI_SSID, WIFI_MODE}]
Pages == DOMAIN SettingsOf

(* What the checkbox of the mode sends, checked or not. *)
ModeOn == [usb |-> "1", bt |-> "2", native |-> "0"]
ModeOff == [usb |-> "0", bt |-> "0", native |-> "255"]

(* What takes the place of an empty value. *)
WhenEmpty(i) ==
  CASE i = HOSTNAME -> "croissant"
    [] i \in {MODE, WIFI_AUTH, WIFI_MODE, JOYSTICK_USB_SHOOT, BT_GAMEPAD_SHOOT} -> "0"
    [] i = MOUSE_SPEED -> "5"
    [] i = JOYSTICK_USB_PORT -> "1"
    [] i \in Layouts -> "us"
    [] OTHER -> Empty
-----------------------------------------------------------------------------
(* Faulty variant: the tag of the gamepad sends the joystick's setting. *)
ssi_handler_OtherTag(table, i) ==
  CASE i = BT_GAMEPAD_SHOOT -> table[JOYSTICK_USB_SHOOT]
    [] i \in Layouts -> Lower[table[i]]
    [] OTHER -> table[i]

(* Each tag sends one setting; those of the layouts go to lower case. *)
ssi_handler(table, i) == IF i \in Layouts THEN Lower[table[i]] ELSE table[i]

IsDead(p, table) == \E i \in SettingsOf[p] : Literal[ssi_handler(table, i)] = Broken

(* initialState, as the script of a page p reads it. *)
InitialState(p, table) ==
  [i \in SettingsOf[p] |->
     LET read == Trim[Literal[ssi_handler(table, i)]]
         v == IF read = Empty THEN WhenEmpty(i) ELSE read
     IN  CASE i = MODE -> IF v = ModeOn[p] THEN v ELSE ModeOff[p]
           [] i \in Checkboxes -> IF v = "true" THEN "Yes" ELSE "No"
           [] OTHER -> v]

(* Faulty variant: the port is only changed when the box is clicked on. *)
PortFollows_NotApplied(w) == w

(* updateJoystickPortOptions: the original mouse has port 1. *)
PortFollows(w) ==
  IF MOUSE_ORIGINAL \in DOMAIN w /\ w[MOUSE_ORIGINAL] = "Yes"
  THEN [w EXCEPT ![JOYSTICK_USB_PORT] = "2"] ELSE w

(* The selects applyState gives their default when initialState has no text  *)
(* for them, and what a widget then shows: nothing, if a select has no such  *)
(* option.                                                                   *)
Refilled == {USB_KB_LAYOUT, WIFI_AUTH, WIFI_MODE, JOYSTICK_USB_SHOOT, BT_GAMEPAD_SHOOT}
Shows(i, v) ==
  LET w == IF i \in Refilled /\ v = Empty THEN WhenEmpty(i) ELSE v
  IN  IF i \in Texts \cup Checkboxes \cup {MODE} \/ w \in Offered[i] THEN w ELSE Empty

applyState(s) == PortFollows([i \in DOMAIN s |-> Shows(i, s[i])])

(* The settings group is shown while the mode is checked, the row of the    *)
(* SSID for a station, the joystick's while there is one.                   *)
IsShown(p, w, i) ==
  \/ i = MODE
  \/ p \in {"usb", "bt"} /\ w[MODE] = ModeOn[p]
       /\ (i \in {JOYSTICK_USB_PORT, JOYSTICK_USB_SHOOT} => w[JOYSTICK_USB] = "Yes")
  \/ p = "wifi" /\ (i = WIFI_SSID => w[WIFI_MODE] = "1")

(* Save is a button of the settings group; the Wi-Fi page checks first. *)
MaySave(p, w) ==
  /\ p \in {"usb", "bt"} => w[MODE] = ModeOn[p]
  /\ p = "wifi" => /\ w[WIFI_MODE] = "1" => Trim[w[WIFI_SSID]] # Empty
                   /\ Trim[w[HOSTNAME]] # Empty

(* Faulty variant: only a checked mode is sent. *)
buildPayload_NoMode(w) ==
  [i \in {j \in DOMAIN w : j = MODE => w[j] # "255"} |-> IF i \in Trimmed THEN Trim[w[i]] ELSE w[i]]

buildPayload(w) == [i \in DOMAIN w |-> IF i \in Trimmed THEN Trim[w[i]] ELSE w[i]]
-----------------------------------------------------------------------------
(* A tab: history is whether its page still shows the settings as they are  *)
(* and nobody touched it (fresh), the form it last loaded or was told saved *)
(* (saved), and whether it was edited with a request or an answer under way *)
(* (raced).                                                                 *)
NoPage == [page |-> "none"]

Act == actions < MaxActions /\ actions' = actions + 1

UnderWay(t) == \E r \in requests \cup answers : r.tab = t

(* A page whose script does not run is as good as none. *)
Load(t, p) ==
  /\ pc = "idle" /\ Act
  /\ LET initial == InitialState(p, cfg)
     IN  tabs' = [tabs EXCEPT ![t] =
                    IF IsDead(p, cfg) THEN NoPage
                    ELSE [page |-> p, widgets |-> applyState(initial), initial |-> initial,
                          fresh |-> TRUE, saved |-> initial, raced |-> FALSE]]
  /\ requests' = {[tab |-> IF r.tab = t THEN NoTab ELSE r.tab, form |-> r.form, fresh |-> r.fresh] :
                    r \in requests}
  /\ answers' = {a \in answers : a.tab # t}
  /\ UNCHANGED <<pc, storeVars>>

Choices(i) == IF i = MODE THEN {"0", "1", "2", "255"} ELSE Offered[i]

Edit(t, i, v) ==
  /\ tabs[t] # NoPage /\ Act
  /\ LET w == tabs[t].widgets
     IN  /\ i \in DOMAIN w /\ IsShown(tabs[t].page, w, i) /\ v # w[i]
         /\ i = MODE => v \in {ModeOn[tabs[t].page], ModeOff[tabs[t].page]}
         /\ i = JOYSTICK_USB_PORT /\ w[MOUSE_ORIGINAL] = "Yes" => v = "2"
         /\ tabs' = [tabs EXCEPT ![t].widgets = PortFollows([w EXCEPT ![i] = v]),
                                 ![t].fresh = FALSE,
                                 ![t].raced = @ \/ UnderWay(t)]
  /\ UNCHANGED <<pc, storeVars, requests, answers>>

(* What the Reset button of the Wi-Fi page puts in. *)
resetState ==
  [i \in SettingsOf["wifi"] |->
     CASE i = HOSTNAME -> "croissant"
       [] i = WIFI_AUTH -> "5"
       [] i = WIFI_PASSWORD -> "sidecart"
       [] i = WIFI_SSID -> Empty
       [] i = WIFI_MODE -> "0"]

Reset(t) ==
  /\ tabs[t] # NoPage /\ Act
  /\ IsShown(tabs[t].page, tabs[t].widgets, MOUSE_SPEED) \/ tabs[t].page \in {"native", "wifi"}
  /\ tabs' = [tabs EXCEPT ![t].widgets =
                            IF tabs[t].page = "wifi" THEN resetState ELSE applyState(tabs[t].initial),
                          ![t].fresh = FALSE,
                          ![t].raced = @ \/ UnderWay(t)]
  /\ UNCHANGED <<pc, storeVars, requests, answers>>

Save(t) ==
  /\ tabs[t] # NoPage /\ Act
  /\ MaySave(tabs[t].page, tabs[t].widgets)
  /\ requests' = requests \cup
       {[tab |-> t, form |-> buildPayload(tabs[t].widgets), fresh |-> tabs[t].fresh]}
  /\ UNCHANGED <<pc, storeVars, tabs, answers>>
-----------------------------------------------------------------------------
(* What a put leaves in the table: Yes is true, no number is 0.             *)
Converted(i, v) ==
  CASE i \in Checkboxes -> IF v = "Yes" THEN "true" ELSE "false"
    [] i = USB_KB_LAYOUT -> Lower[v]
    [] i \in Texts \cup {BT_KB_LAYOUT} -> v
    [] OTHER -> IF v = Empty THEN "0" ELSE v

With(t, form) == [i \in Slots |-> IF i \in DOMAIN form THEN Converted(i, form[i]) ELSE t[i]]

(* Nobody's page is as the settings are once these have changed. *)
Stale(ts) == [t \in Tabs |-> IF ts[t] = NoPage THEN NoPage ELSE [ts[t] EXCEPT !.fresh = FALSE]]
StaleAll(rs) == {[tab |-> r.tab, form |-> r.form, fresh |-> FALSE] : r \in rs}

(* cgi_saveparams: all items are put, then the table is saved.  The request *)
(* may come once more; one that is lost, or whose answer is, is one that    *)
(* never comes.                                                             *)
cgi_saveparams(r) ==
  /\ pc = "idle" /\ r \in requests
  /\ cfg' = With(cfg, r.form)
  /\ pc' = "save"
  /\ \E left \in {requests, requests \ {r}} :
       IF cfg' = cfg THEN requests' = left /\ tabs' = tabs
       ELSE requests' = StaleAll(left) /\ tabs' = Stale(tabs)
  /\ answers' = IF r.tab = NoTab THEN answers ELSE answers \cup {[tab |-> r.tab, form |-> r.form]}
  /\ UNCHANGED <<durable, saving, actions>>

(* Faulty variant: initialState stays as it was loaded. *)
Answer_Ignored(a) ==
  /\ pc = "idle" /\ a \in answers
  /\ answers' = answers \ {a}
  /\ tabs' = [tabs EXCEPT ![a.tab].saved = a.form]
  /\ UNCHANGED <<pc, storeVars, requests, actions>>

(* The answer, once the table is saved.  The Bluetooth and the Wi-Fi page   *)
(* take what their widgets say by then for their initialState.              *)
Answer(a) ==
  /\ pc = "idle" /\ a \in answers
  /\ answers' = answers \ {a}
  /\ tabs' = [tabs EXCEPT ![a.tab].saved = a.form,
                          ![a.tab].initial = IF tabs[a.tab].page \in {"bt", "wifi"}
                                             THEN buildPayload(tabs[a.tab].widgets) ELSE @]
  /\ UNCHANGED <<pc, storeVars, requests, actions>>

(* The tables a save or an erase leaves when it is cut: the first n entries *)
(* of t, and the defaults.                                                  *)
Cut(t, n) == [i \in Slots |-> IF i < n THEN t[i] ELSE Defaults[i]]
Cuts(t) == {Cut(t, n) : n \in 0 .. NumEntries}

SaveStep ==
  /\ pc = "save"
  /\ \/ Store!BeginSave
     \/ saving /\ durable' \in Cuts(cfg) /\ UNCHANGED <<cfg, saving>>
     \/ Store!EndSave
  /\ pc' = IF saving' THEN "save" ELSE "idle"
  /\ UNCHANGED <<tabs, requests, answers, actions>>

(* A start saves the table once, to record the boot feature. *)
PowerOn ==
  /\ pc = "off"
  /\ Store!Open
  /\ pc' = "save"
  /\ UNCHANGED <<tabs, requests, answers, actions>>

(* The power goes, and the connections with it. *)
PowerCut ==
  /\ pc # "off" /\ Act
  /\ \/ Store!Crash
     \/ /\ pc = "save" /\ ~saving
        /\ durable' \in Cuts(durable) /\ cfg' = NoTable /\ UNCHANGED saving
  /\ pc' = "off"
  /\ IF durable' = cfg THEN UNCHANGED <<tabs, requests>>
     ELSE tabs' = Stale(tabs) /\ requests' = StaleAll(requests)
  /\ answers' = {}
-----------------------------------------------------------------------------
Init ==
  /\ pc = "off"
  /\ cfg = NoTable /\ durable \in Found /\ saving = FALSE
  /\ tabs = [t \in Tabs |-> NoPage] /\ requests = {} /\ answers = {} /\ actions = 0

Next ==
  \/ \E t \in Tabs : \/ \E p \in Pages : Load(t, p)
                     \/ \E i \in Slots : \E v \in Choices(i) : Edit(t, i, v)
                     \/ Reset(t) \/ Save(t)
  \/ \E r \in requests : cgi_saveparams(r)
  \/ \E a \in answers : Answer(a)
  \/ SaveStep \/ PowerOn \/ PowerCut

Spec == Init /\ [][Next]_vars
-----------------------------------------------------------------------------
ASSUME PagesAssumption ==
  /\ NoTable \notin Tables /\ Broken \notin Values /\ NoTab \notin Tabs
  /\ Defaults \in Tables /\ Found \subseteq Tables
  /\ {Empty, "0", "1", "2", "5", "255", "true", "false", "us", "croissant", "sidecart"} \subseteq Values
  /\ Lower \in [Values -> Values] /\ Trim \in [Values -> Values]
  /\ Literal \in [Values -> Values \cup {Broken}]
  /\ \A i \in Slots : Offered[i] \subseteq IF i \in Checkboxes THEN {"Yes", "No"} ELSE Values
  /\ MaxActions \in Nat
  /\ Defaults[MOUSE_ORIGINAL] # "true"
  /\ \A t \in Found : t[MOUSE_ORIGINAL] = "true" => t[JOYSTICK_USB_PORT] = "2"

(* What the next two add: a layout is offered in lower case and the value of *)
(* an option is neither empty nor changed on its way through a script; nor   *)
(* is a mode or a truth value; checkboxes stand for truth values.            *)
ASSUME OfferedAssumption ==
  /\ \A i \in Slots \ (Texts \cup Checkboxes) : \A v \in Offered[i] :
       v # Empty /\ Literal[v] = v /\ Trim[v] = v /\ (i \in Layouts => Lower[v] = v)
  /\ \A v \in {"0", "1", "2", "255", "true", "false"} : Literal[v] = v /\ Trim[v] = v
  /\ \A t \in Found \cup {Defaults} : /\ t[MODE] \in {"0", "1", "2", "255"}
                                      /\ \A i \in Checkboxes : t[i] \in {"true", "false"}

(* The forms of a page p. *)
IsForm(p, f) ==
  /\ f \in [SettingsOf[p] -> Values \cup {"Yes", "No"}]
  /\ \A i \in SettingsOf[p] \ Checkboxes : f[i] \in Values

IsTab(t) ==
  \/ t = NoPage
  \/ /\ t = [page |-> t.page, widgets |-> t.widgets, initial |-> t.initial,
             fresh |-> t.fresh, saved |-> t.saved, raced |-> t.raced]
     /\ t.page \in Pages /\ t.fresh \in BOOLEAN /\ t.raced \in BOOLEAN
     /\ IsForm(t.page, t.widgets) /\ IsForm(t.page, t.initial) /\ IsForm(t.page, t.saved)

(* Type correctness of the settings and of what is open or under way; each  *)
(* answer belongs to the page that asked, if it is still there.             *)
PagesTypeOK ==
  /\ pc \in {"off", "idle", "save"}
  /\ cfg \in Tables \cup {NoTable} /\ (pc = "off" <=> cfg = NoTable)
  /\ durable \in Tables /\ saving \in BOOLEAN /\ (saving => pc = "save")
  /\ tabs = [t \in Tabs |-> tabs[t]] /\ \A t \in Tabs : IsTab(tabs[t])
  /\ \A r \in requests : /\ r = [tab |-> r.tab, form |-> r.form, fresh |-> r.fresh]
                          /\ r.fresh \in BOOLEAN
                          /\ \E p \in Pages : IsForm(p, r.form)
  /\ \A a \in answers : a = [tab |-> a.tab, form |-> a.form] /\ a.tab # NoTab
  /\ \A r \in requests \cup answers :
       r.tab # NoTab => r.tab \in Tabs /\ tabs[r.tab] # NoPage /\ IsForm(tabs[r.tab].page, r.form)
  /\ actions \in 0 .. MaxActions

(* The original mouse is plugged into port 1, so the joystick never is when *)
(* the mouse is used: not in the table in use and not in what the next      *)
(* start would read, with pages of any age saving in any order, requests    *)
(* that come twice, and the power going in any save (mngr_usb.shtml:342-    *)
(* 355; the port comes before the mouse in gconfig.c:17-19).                *)
PortsDiffer ==
  \A t \in {cfg, durable} \ {NoTable} :
    t[MOUSE_ORIGINAL] = "true" => t[JOYSTICK_USB_PORT] = "2"

(* What the pages can show: an option, and a text without quotes, escapes   *)
(* or spaces at its ends.                                                   *)
CanShow(i, v) ==
  IF i \in Texts THEN Literal[v] = v /\ Trim[v] = v /\ (v = Empty => WhenEmpty(i) = Empty)
  ELSE i \in Checkboxes \cup {MODE} \/ (IF i \in Layouts THEN Lower[v] ELSE v) \in Offered[i]

(* Saving a page that nobody touched, while the settings are as it shows    *)
(* them, changes none of them but the case of a layout's letters, whatever  *)
(* their types and however they travelled from the table through a tag, the *)
(* script and a form back to the table; only the native page, which shows   *)
(* every other mode alike, may change the mode (mngr_httpd.c:756-890,       *)
(* mngr_usb.shtml:293-303, 357-372, mngr_bt.shtml:279-284).                 *)
SavesWhatItShows ==
  [][\A r \in requests : cgi_saveparams(r) /\ r.fresh =>
       \A i \in DOMAIN r.form :
         CanShow(i, cfg[i]) =>
           \/ cfg'[i] = cfg[i]
           \/ i \in Layouts /\ cfg'[i] = Lower[cfg[i]]
           \/ i = MODE /\ DOMAIN r.form = SettingsOf["native"]]_vars

(* The Reset of a Bluetooth page goes back to what the page last loaded or  *)
(* was told saved, unless somebody edited it with a request or an answer    *)
(* under way: what it says by the time of the answer counts (mngr_bt.shtml: *)
(* 369-372, 385-388).                                                       *)
ResetIsSaved ==
  \A t \in Tabs : tabs[t] # NoPage /\ tabs[t].page = "bt" /\ ~tabs[t].raced =>
                    tabs[t].initial = tabs[t].saved
=============================================================================
