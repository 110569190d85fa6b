------------------------------ MODULE PagesProofs ------------------------------
(***************************************************************************)
(* PagesTypeOK, PortsDiffer, ResetIsSaved and SavesWhatItShows for any     *)
(* number of tabs, any values and offers, any tables a board may come with,*)
(* and any number of actions.                                              *)
(***************************************************************************)
EXTENDS Pages, TLAPS

(* Only the USB page sends the mouse or the port, and never the mouse with  *)
(* another port than 2.                                                     *)
PortFits(f) == MOUSE_ORIGINAL \in DOMAIN f /\ f[MOUSE_ORIGINAL] = "Yes" => f[JOYSTICK_USB_PORT] = "2"

StoreFits ==
  /\ pc \in {"off", "idle", "save"}
  /\ cfg \in Tables \cup {NoTable} /\ (pc = "off" <=> cfg = NoTable)
  /\ durable \in Tables /\ saving \in BOOLEAN /\ (saving => pc = "save")
  /\ actions \in 0 .. MaxActions
  /\ PortsDiffer

TabFits(x) ==
  /\ IsTab(x)
  /\ x # NoPage => PortFits(x.widgets) /\ (x.page = "bt" /\ ~x.raced => x.initial = x.saved)

TabsFit == tabs = [t \in Tabs |-> tabs[t]] /\ \A t \in Tabs : TabFits(tabs[t])

IsRequest(r) ==
  /\ r = [tab |-> r.tab, form |-> r.form, fresh |-> r.fresh] /\ r.fresh \in BOOLEAN
  /\ \E p \in Pages : IsForm(p, r.form)
  /\ PortFits(r.form)

IsAnswer(a) == a = [tab |-> a.tab, form |-> a.form] /\ a.tab # NoTab

(* What is under way belongs to the page that asked and, unless somebody    *)
(* edited that page meanwhile, is what the page says.                       *)
IsOf(ts, r) ==
  r.tab # NoTab =>
    /\ r.tab \in Tabs /\ ts[r.tab] # NoPage /\ IsForm(ts[r.tab].page, r.form)
    /\ ~ts[r.tab].raced => r.form = buildPayload(ts[r.tab].widgets)

UnderWayFits ==
  /\ \A r \in requests : IsRequest(r)
  /\ \A a \in answers : IsAnswer(a)
  /\ \A r \in requests \cup answers : IsOf(tabs, r)

PagesInv == StoreFits /\ TabsFit /\ UnderWayFits

LEMMA PageSettings ==
  /\ Pages = {"usb", "bt", "native", "wifi"}
  /\ \A p \in Pages : SettingsOf[p] \subseteq Slots
  /\ \A p \in Pages : MOUSE_ORIGINAL \in SettingsOf[p] <=> JOYSTICK_USB_PORT \in SettingsOf[p]
  /\ MODE \notin SettingsOf["wifi"] /\ MODE \notin Checkboxes
  /\ Trimmed \cap Checkboxes = {} /\ Layouts \cap Checkboxes = {} /\ Texts \cap Checkboxes = {}
  /\ USB_KB_LAYOUT \in Layouts /\ BT_KB_LAYOUT \in Layouts
BY DEF Pages, SettingsOf, Slots, NumEntries, HOSTNAME, WIFI_AUTH, WIFI_PASSWORD, WIFI_SSID, WIFI_MODE,
       MODE, MOUSE_SPEED, USB_KB_LAYOUT, JOYSTICK_USB, JOYSTICK_USB_PORT, JOYSTICK_USB_SHOOT,
       MOUSE_ORIGINAL, BT_KB_LAYOUT, BT_GAMEPAD_SHOOT, Checkboxes, Trimmed, Layouts, Texts

(* The mouse is a checkbox, the port is not. *)
LEMMA PortSlots ==
  /\ MOUSE_ORIGINAL \in Slots /\ JOYSTICK_USB_PORT \in Slots /\ MOUSE_ORIGINAL \in Checkboxes
  /\ JOYSTICK_USB_PORT \notin Checkboxes \cup Texts \cup Layouts \cup Trimmed
  /\ MOUSE_ORIGINAL \notin Trimmed
  /\ JOYSTICK_USB_PORT < MOUSE_ORIGINAL /\ MOUSE_ORIGINAL # JOYSTICK_USB_PORT
BY DEF Slots, NumEntries, Checkboxes, Texts, Layouts, Trimmed, HOSTNAME, WIFI_PASSWORD, WIFI_SSID,
       USB_KB_LAYOUT, JOYSTICK_USB, JOYSTICK_USB_PORT, MOUSE_ORIGINAL, BT_KB_LAYOUT

LEMMA Words ==
  /\ Empty \in Values /\ Empty # "2" /\ "0" \in Values /\ "1" \in Values /\ "2" \in Values /\ "5" \in Values
  /\ "255" \in Values /\ "true" \in Values /\ "false" \in Values /\ "us" \in Values
  /\ "croissant" \in Values /\ "sidecart" \in Values
<1>1. Empty # "2"
  BY Zenon DEF Empty
<1> QED BY <1>1, PagesAssumption

LEMMA Conversions ==
  ASSUME NEW v \in Values
  PROVE  Lower[v] \in Values /\ Trim[v] \in Values /\ Literal[v] \in Values \cup {Broken}
BY PagesAssumption
-----------------------------------------------------------------------------
(* What the pages compute from a form or a table of the right type. *)

LEMMA ShowsIs ==
  ASSUME NEW i, NEW v
  PROVE  /\ i \in Texts \cup Checkboxes \cup {MODE} => Shows(i, v) = v
         /\ v # Empty /\ v \in Offered[i] => Shows(i, v) = v
         /\ Shows(i, v) = v \/ Shows(i, v) = WhenEmpty(i) \/ Shows(i, v) = Empty
BY DEF Shows, Refilled, Texts, Checkboxes, MODE, USB_KB_LAYOUT, WIFI_AUTH, WIFI_MODE, JOYSTICK_USB_SHOOT,
       BT_GAMEPAD_SHOOT, HOSTNAME, WIFI_PASSWORD, WIFI_SSID, JOYSTICK_USB, MOUSE_ORIGINAL

LEMMA WhenEmptyTypes == \A i : WhenEmpty(i) \in Values
BY Words DEF WhenEmpty

LEMMA FollowsFits ==
  ASSUME NEW p \in Pages, NEW w, IsForm(p, w)
  PROVE  IsForm(p, PortFollows(w)) /\ PortFits(PortFollows(w))
BY PageSettings, PortSlots, PagesAssumption DEF IsForm, PortFollows, PortFits

LEMMA InitialStateTypes ==
  ASSUME NEW p \in Pages, NEW table \in Tables, ~IsDead(p, table)
  PROVE  IsForm(p, InitialState(p, table))
<1> DEFINE v(i) == Trim[Literal[ssi_handler(table, i)]]
           w(i) == IF v(i) = Empty THEN WhenEmpty(i) ELSE v(i)
<1>1. ASSUME NEW i \in SettingsOf[p] PROVE v(i) \in Values
  BY PageSettings, Conversions DEF IsDead, ssi_handler, Tables
<1>2. MODE \in SettingsOf[p] => ModeOff[p] \in Values
  BY PageSettings, Words DEF ModeOff
<1>3. \A i : WhenEmpty(i) \in Values
  BY WhenEmptyTypes
<1>4. ASSUME NEW i \in SettingsOf[p] PROVE w(i) \in Values
  BY <1>1, <1>3
<1>5. InitialState(p, table) =
        [i \in SettingsOf[p] |-> CASE i = MODE -> IF w(i) = ModeOn[p] THEN w(i) ELSE ModeOff[p]
                                   [] i \in Checkboxes -> IF w(i) = "true" THEN "Yes" ELSE "No"
                                   [] OTHER -> w(i)]
  BY DEF InitialState
<1> HIDE DEF w
<1> QED BY <1>2, <1>4, <1>5 DEF IsForm

LEMMA applyStateTypes ==
  ASSUME NEW p \in Pages, NEW s, IsForm(p, s)
  PROVE  IsForm(p, applyState(s)) /\ PortFits(applyState(s))
<1> DEFINE shown == [i \in DOMAIN s |-> Shows(i, s[i])]
<1>1. IsForm(p, shown)
  BY Words, ShowsIs, WhenEmptyTypes DEF IsForm
<1>2. applyState(s) = PortFollows(shown)
  BY DEF applyState
<1> HIDE DEF shown
<1> QED BY <1>1, <1>2, FollowsFits

LEMMA PayloadTypes ==
  ASSUME NEW p \in Pages, NEW w, IsForm(p, w), PortFits(w)
  PROVE  IsForm(p, buildPayload(w)) /\ PortFits(buildPayload(w))
<1>1. IsForm(p, buildPayload(w))
  BY Conversions, PageSettings DEF IsForm, buildPayload
<1>2. PortFits(buildPayload(w))
  BY PageSettings, PortSlots DEF IsForm, buildPayload, PortFits
<1> QED BY <1>1, <1>2

LEMMA ResetTypes == IsForm("wifi", resetState) /\ PortFits(resetState)
BY Words
   DEF IsForm, resetState, PortFits, SettingsOf, Checkboxes, HOSTNAME, WIFI_AUTH, WIFI_PASSWORD,
       WIFI_SSID, WIFI_MODE, MOUSE_ORIGINAL, JOYSTICK_USB

LEMMA PortConverted ==
  /\ \A v : Converted(MOUSE_ORIGINAL, v) = "true" => v = "Yes"
  /\ Converted(JOYSTICK_USB_PORT, "2") = "2"
BY PortSlots, Words DEF Converted, Layouts, Checkboxes, Texts, HOSTNAME, WIFI_PASSWORD, WIFI_SSID,
   USB_KB_LAYOUT, JOYSTICK_USB, JOYSTICK_USB_PORT, MOUSE_ORIGINAL, BT_KB_LAYOUT

(* Saving a form keeps the table a table, and the port off the mouse. *)
LEMMA WithTypes ==
  ASSUME NEW p \in Pages, NEW f, IsForm(p, f), PortFits(f), NEW t \in Tables,
         t[MOUSE_ORIGINAL] = "true" => t[JOYSTICK_USB_PORT] = "2"
  PROVE  /\ With(t, f) \in Tables
         /\ With(t, f)[MOUSE_ORIGINAL] = "true" => With(t, f)[JOYSTICK_USB_PORT] = "2"
<1>1. ASSUME NEW i \in DOMAIN f PROVE Converted(i, f[i]) \in Values
  BY <1>1, PageSettings, Words, Conversions DEF Converted, IsForm
<1>2. With(t, f) \in Tables
  BY <1>1 DEF With, Tables
<1>3. With(t, f)[MOUSE_ORIGINAL] = "true" => With(t, f)[JOYSTICK_USB_PORT] = "2"
  <2> SUFFICES ASSUME With(t, f)[MOUSE_ORIGINAL] = "true" PROVE With(t, f)[JOYSTICK_USB_PORT] = "2"
    OBVIOUS
  <2>1. CASE MOUSE_ORIGINAL \in DOMAIN f
    <3>1. f[MOUSE_ORIGINAL] = "Yes"
      BY <2>1, PortSlots, PortConverted DEF With
    <3>2. JOYSTICK_USB_PORT \in DOMAIN f /\ f[JOYSTICK_USB_PORT] = "2"
      BY <2>1, <3>1, PageSettings DEF PortFits, IsForm
    <3> QED BY <3>2, PortSlots, PortConverted DEF With
  <2>2. CASE MOUSE_ORIGINAL \notin DOMAIN f
    <3>1. t[MOUSE_ORIGINAL] = "true"
      BY <2>2, PortSlots DEF With
    <3>2. JOYSTICK_USB_PORT \notin DOMAIN f
      BY <2>2, PageSettings DEF IsForm
    <3> QED BY <3>1, <3>2, PortSlots DEF With
  <2> QED BY <2>1, <2>2
<1> QED BY <1>2, <1>3

(* A cut keeps an initial run of the entries, in which the port comes first. *)
LEMMA CutTypes ==
  ASSUME NEW t \in Tables, t[MOUSE_ORIGINAL] = "true" => t[JOYSTICK_USB_PORT] = "2", NEW d \in Cuts(t)
  PROVE  d \in Tables /\ (d[MOUSE_ORIGINAL] = "true" => d[JOYSTICK_USB_PORT] = "2")
<1>1. PICK n \in 0 .. NumEntries : d = Cut(t, n)
  BY DEF Cuts
<1>2. d \in Tables
  BY <1>1, PagesAssumption DEF Cut, Tables
<1>3. ASSUME d[MOUSE_ORIGINAL] = "true" PROVE d[JOYSTICK_USB_PORT] = "2"
  <2>1. MOUSE_ORIGINAL < n /\ t[MOUSE_ORIGINAL] = "true"
    BY <1>1, <1>3, PortSlots, PagesAssumption DEF Cut
  <2>2. JOYSTICK_USB_PORT < n
    BY <2>1 DEF MOUSE_ORIGINAL, JOYSTICK_USB_PORT, NumEntries
  <2> QED BY <1>1, <2>1, <2>2, PortSlots DEF Cut
<1> QED BY <1>2, <1>3
-----------------------------------------------------------------------------
(* What marks pages and requests as out of date changes nothing else. *)

LEMMA NewTab ==
  ASSUME NEW p \in Pages, NEW w, NEW s, NEW f \in BOOLEAN, NEW v, NEW r \in BOOLEAN,
         IsForm(p, w), IsForm(p, s), IsForm(p, v), PortFits(w), p = "bt" /\ ~r => s = v
  PROVE  LET x == [page |-> p, widgets |-> w, initial |-> s, fresh |-> f, saved |-> v, raced |-> r]
         IN  TabFits(x) /\ x # NoPage
<1> DEFINE x == [page |-> p, widgets |-> w, initial |-> s, fresh |-> f, saved |-> v, raced |-> r]
<1>1. /\ x.page = p /\ x.widgets = w /\ x.initial = s /\ x.fresh = f /\ x.saved = v /\ x.raced = r
      /\ x = [page |-> x.page, widgets |-> x.widgets, initial |-> x.initial,
              fresh |-> x.fresh, saved |-> x.saved, raced |-> x.raced]
  OBVIOUS
<1>2. x # NoPage
  BY <1>1, PageSettings DEF NoPage
<1> HIDE DEF x
<1>3. TabFits(x)
  BY <1>1, <1>2 DEF TabFits, IsTab
<1> QED BY <1>2, <1>3 DEF x

LEMMA StaleFits ==
  ASSUME TabsFit
  PROVE  /\ Stale(tabs) = [t \in Tabs |-> Stale(tabs)[t]]
         /\ \A t \in Tabs : TabFits(Stale(tabs)[t])
         /\ \A r : IsOf(tabs, r) => IsOf(Stale(tabs), r)
<1>1. ASSUME NEW t \in Tabs, tabs[t] # NoPage
      PROVE  /\ Stale(tabs)[t].page = tabs[t].page /\ Stale(tabs)[t].widgets = tabs[t].widgets
             /\ Stale(tabs)[t].raced = tabs[t].raced /\ TabFits(Stale(tabs)[t])
             /\ Stale(tabs)[t] # NoPage
  <2> DEFINE x == tabs[t]
  <2>1. TabFits(x)
    BY DEF TabsFit
  <2>2. Stale(tabs)[t] = [page |-> x.page, widgets |-> x.widgets, initial |-> x.initial,
                          fresh |-> FALSE, saved |-> x.saved, raced |-> x.raced]
    BY <1>1, <2>1 DEF Stale, TabFits, IsTab
  <2>3. /\ x.page \in Pages /\ x.raced \in BOOLEAN
        /\ IsForm(x.page, x.widgets) /\ IsForm(x.page, x.initial) /\ IsForm(x.page, x.saved)
        /\ PortFits(x.widgets) /\ (x.page = "bt" /\ ~x.raced => x.initial = x.saved)
    BY <1>1, <2>1 DEF TabFits, IsTab
  <2>4. TabFits(Stale(tabs)[t]) /\ Stale(tabs)[t] # NoPage
    <3> HIDE DEF x
    <3> QED BY <2>2, <2>3, NewTab
  <2> QED BY <2>2, <2>4
<1>2. ASSUME NEW t \in Tabs PROVE TabFits(Stale(tabs)[t]) /\ (tabs[t] = NoPage => Stale(tabs)[t] = NoPage)
  BY <1>1 DEF TabsFit, Stale
<1>3. Stale(tabs) = [t \in Tabs |-> Stale(tabs)[t]]
  BY DEF Stale
<1>4. ASSUME NEW r, IsOf(tabs, r) PROVE IsOf(Stale(tabs), r)
  BY <1>1, <1>4 DEF IsOf
<1> QED BY <1>2, <1>3, <1>4

(* A request keeps its type and its owner with another mark, and its type   *)
(* without the owner.                                                       *)
LEMMA NewRequest ==
  ASSUME NEW r, IsRequest(r), NEW ts, NEW f \in BOOLEAN, NEW o
  PROVE  LET q == [tab |-> o, form |-> r.form, fresh |-> f]
         IN  IsRequest(q) /\ (o = r.tab /\ IsOf(ts, r) => IsOf(ts, q)) /\ (o = NoTab => IsOf(ts, q))
BY DEF IsRequest, IsOf

LEMMA StaleAllFits ==
  ASSUME NEW rs, \A r \in rs : IsRequest(r), NEW ts, \A r \in rs : IsOf(ts, r)
  PROVE  \A r \in StaleAll(rs) : IsRequest(r) /\ IsOf(ts, r)
BY NewRequest DEF StaleAll
-----------------------------------------------------------------------------
(* One tab changes. *)

LEMMA OneTabChanges ==
  ASSUME TabsFit, NEW t \in Tabs, NEW y, TabFits(y), tabs' = [tabs EXCEPT ![t] = y]
  PROVE  /\ TabsFit' /\ tabs'[t] = y
         /\ \A r : r.tab # t /\ IsOf(tabs, r) => IsOf(tabs', r)
<1>1. \A u \in Tabs : tabs'[u] = IF u = t THEN y ELSE tabs[u]
  BY DEF TabsFit
<1>2. tabs' = [u \in Tabs |-> tabs'[u]]
  BY DEF TabsFit
<1>3. TabsFit'
  BY <1>1, <1>2 DEF TabsFit
<1>4. ASSUME NEW r, r.tab # t, IsOf(tabs, r) PROVE IsOf(tabs', r)
  BY <1>1, <1>4 DEF IsOf
<1> QED BY <1>1, <1>3, <1>4

(* Two fields of a record, one after the other: the provers need the record *)
(* between.                                                                 *)
LEMMA Edited ==
  ASSUME NEW x, NEW w, NEW u,
         x = [page |-> x.page, widgets |-> x.widgets, initial |-> x.initial,
              fresh |-> x.fresh, saved |-> x.saved, raced |-> x.raced]
  PROVE  [x EXCEPT !.widgets = w, !.fresh = FALSE, !.raced = @ \/ u] =
           [page |-> x.page, widgets |-> w, initial |-> x.initial,
            fresh |-> FALSE, saved |-> x.saved, raced |-> x.raced \/ u]
<1>1. PICK y : y = [x EXCEPT !.widgets = w]
  OBVIOUS
<1>2. y = [page |-> x.page, widgets |-> w, initial |-> x.initial,
           fresh |-> x.fresh, saved |-> x.saved, raced |-> x.raced]
  BY <1>1
<1>3. /\ y.page = x.page /\ y.widgets = w /\ y.initial = x.initial
      /\ y.fresh = x.fresh /\ y.saved = x.saved /\ y.raced = x.raced
  BY <1>2
<1>4. y = [page |-> y.page, widgets |-> y.widgets, initial |-> y.initial,
           fresh |-> y.fresh, saved |-> y.saved, raced |-> y.raced]
  BY <1>2, <1>3
<1>5. PICK z : z = [y EXCEPT !.fresh = FALSE]
  OBVIOUS
<1>6. z = [page |-> y.page, widgets |-> y.widgets, initial |-> y.initial,
           fresh |-> FALSE, saved |-> y.saved, raced |-> y.raced]
  BY <1>4, <1>5
<1>7. /\ z.page = x.page /\ z.widgets = w /\ z.initial = x.initial
      /\ z.fresh = FALSE /\ z.saved = x.saved /\ z.raced = x.raced
  BY <1>3, <1>6
<1>8. z = [page |-> z.page, widgets |-> z.widgets, initial |-> z.initial,
           fresh |-> z.fresh, saved |-> z.saved, raced |-> z.raced]
  BY <1>6
<1>9. [z EXCEPT !.raced = @ \/ u] =
        [page |-> z.page, widgets |-> z.widgets, initial |-> z.initial,
         fresh |-> z.fresh, saved |-> z.saved, raced |-> z.raced \/ u]
  BY <1>8
<1>10. [x EXCEPT !.widgets = w, !.fresh = FALSE, !.raced = @ \/ u] = [z EXCEPT !.raced = @ \/ u]
  BY <1>1, <1>5
<1> QED BY <1>7, <1>9, <1>10

LEMMA EditedTab ==
  ASSUME TabsFit, NEW t \in Tabs, tabs[t] # NoPage, NEW w, NEW u,
         tabs' = [tabs EXCEPT ![t].widgets = w, ![t].fresh = FALSE, ![t].raced = @ \/ u]
  PROVE  tabs' = [tabs EXCEPT ![t] = [page |-> tabs[t].page, widgets |-> w, initial |-> tabs[t].initial,
                                      fresh |-> FALSE, saved |-> tabs[t].saved,
                                      raced |-> tabs[t].raced \/ u]]
<1> DEFINE x == tabs[t]
           e == [x EXCEPT !.widgets = w, !.fresh = FALSE, !.raced = @ \/ u]
<1>1. tabs' = [tabs EXCEPT ![t] = e]
  BY DEF TabsFit
<1>2. x = [page |-> x.page, widgets |-> x.widgets, initial |-> x.initial,
           fresh |-> x.fresh, saved |-> x.saved, raced |-> x.raced]
  BY DEF TabsFit, TabFits, IsTab
<1>3. e = [page |-> x.page, widgets |-> w, initial |-> x.initial,
           fresh |-> FALSE, saved |-> x.saved, raced |-> x.raced \/ u]
  <2> HIDE DEF x
  <2> QED BY <1>2, Edited
<1> QED BY <1>1, <1>3

(* The user changes the widgets: what is under way is then no longer what    *)
(* the page says.                                                           *)
LEMMA WidgetsKeep ==
  ASSUME PagesInv, NEW t \in Tabs, tabs[t] # NoPage, Act,
         NEW w, IsForm(tabs[t].page, w), PortFits(w),
         tabs' = [tabs EXCEPT ![t].widgets = w, ![t].fresh = FALSE, ![t].raced = @ \/ UnderWay(t)],
         UNCHANGED <<pc, storeVars, requests, answers>>
  PROVE  PagesInv'
<1> DEFINE x == tabs[t]
           y == [page |-> x.page, widgets |-> w, initial |-> x.initial,
                 fresh |-> FALSE, saved |-> x.saved, raced |-> x.raced \/ UnderWay(t)]
<1>1. TabFits(x) /\ x # NoPage
  BY DEF PagesInv, TabsFit
<1>2. tabs' = [tabs EXCEPT ![t] = y]
  BY EditedTab DEF PagesInv
<1>3. /\ x.page \in Pages /\ x.raced \in BOOLEAN /\ IsForm(x.page, x.initial) /\ IsForm(x.page, x.saved)
      /\ (x.page = "bt" /\ ~x.raced => x.initial = x.saved)
  BY <1>1 DEF TabFits, IsTab
<1>4. TabFits(y) /\ y # NoPage
  BY <1>3, NewTab
<1>5. y.page = x.page /\ y.widgets = w /\ y.raced = (x.raced \/ UnderWay(t))
  OBVIOUS
<1> HIDE DEF y
<1>6. TabsFit' /\ tabs'[t] = y /\ \A r : r.tab # t /\ IsOf(tabs, r) => IsOf(tabs', r)
  BY <1>2, <1>4, OneTabChanges DEF PagesInv
<1>7. ASSUME NEW r \in requests \cup answers PROVE IsOf(tabs', r)
  <2>1. IsOf(tabs, r)
    BY DEF PagesInv, UnderWayFits
  <2>2. CASE r.tab = t
    BY <2>1, <2>2, <1>4, <1>5, <1>6 DEF IsOf, UnderWay
  <2> QED BY <2>1, <2>2, <1>6
<1>8. StoreFits'
  BY PagesAssumption DEF PagesInv, StoreFits, PortsDiffer, storeVars, Act
<1> QED BY <1>6, <1>7, <1>8 DEF PagesInv, UnderWayFits

LEMMA EditKeeps ==
  ASSUME PagesInv, NEW t \in Tabs, NEW i \in Slots, NEW v \in Choices(i), Edit(t, i, v)
  PROVE  PagesInv'
<1> DEFINE x == tabs[t]
           w == [x.widgets EXCEPT ![i] = v]
<1>1. x # NoPage /\ x.page \in Pages /\ IsForm(x.page, x.widgets)
  BY DEF Edit, PagesInv, TabsFit, TabFits, IsTab
<1>2. i \in Checkboxes => v \in {"Yes", "No"}
  BY PagesAssumption, PageSettings DEF Choices
<1>3. i \notin Checkboxes => v \in Values
  BY PagesAssumption, Words DEF Choices
<1>4. IsForm(x.page, w)
  BY <1>1, <1>2, <1>3 DEF IsForm
<1>5. IsForm(x.page, PortFollows(w)) /\ PortFits(PortFollows(w))
  BY <1>1, <1>4, FollowsFits
<1> QED BY <1>5, WidgetsKeep DEF Edit

LEMMA ResetKeeps ==
  ASSUME PagesInv, NEW t \in Tabs, Reset(t)
  PROVE  PagesInv'
<1> DEFINE x == tabs[t]
           w == IF x.page = "wifi" THEN resetState ELSE applyState(x.initial)
<1>1. x # NoPage /\ x.page \in Pages /\ IsForm(x.page, x.initial)
  BY DEF Reset, PagesInv, TabsFit, TabFits, IsTab
<1>2. IsForm(x.page, w) /\ PortFits(w)
  BY <1>1, applyStateTypes, ResetTypes
<1> QED BY <1>2, WidgetsKeep DEF Reset

LEMMA LoadKeeps ==
  ASSUME PagesInv, NEW t \in Tabs, NEW p \in Pages, Load(t, p)
  PROVE  PagesInv'
<1> DEFINE s == InitialState(p, cfg)
           y == IF IsDead(p, cfg) THEN NoPage
                ELSE [page |-> p, widgets |-> applyState(s), initial |-> s,
                      fresh |-> TRUE, saved |-> s, raced |-> FALSE]
<1>1. cfg \in Tables
  BY DEF Load, PagesInv, StoreFits
<1>2. TabFits(y)
  <2>1. CASE IsDead(p, cfg)
    BY <2>1 DEF TabFits, IsTab
  <2>2. CASE ~IsDead(p, cfg)
    <3>1. IsForm(p, s) /\ IsForm(p, applyState(s)) /\ PortFits(applyState(s))
      BY <1>1, <2>2, InitialStateTypes, applyStateTypes
    <3> HIDE DEF s
    <3> QED BY <2>2, <3>1, NewTab
  <2> QED BY <2>1, <2>2
<1>3. tabs' = [tabs EXCEPT ![t] = y]
  BY DEF Load
<1> HIDE DEF y
<1>4. TabsFit' /\ \A r : r.tab # t /\ IsOf(tabs, r) => IsOf(tabs', r)
  BY <1>2, <1>3, OneTabChanges DEF PagesInv
<1>5. \A r \in requests : IsRequest(r)
  BY DEF PagesInv, UnderWayFits
<1>6. ASSUME NEW q \in requests' PROVE IsRequest(q) /\ IsOf(tabs', q)
  <2>1. PICK r \in requests :
          q = [tab |-> IF r.tab = t THEN NoTab ELSE r.tab, form |-> r.form, fresh |-> r.fresh]
    BY DEF Load
  <2>2. IsRequest(r) /\ IsOf(tabs, r) /\ r.fresh \in BOOLEAN
    BY DEF PagesInv, UnderWayFits, IsRequest
  <2>3. CASE r.tab = t
    BY <2>1, <2>2, <2>3, NewRequest
  <2>4. CASE r.tab # t
    BY <2>1, <2>2, <2>4, <1>4, NewRequest
  <2> QED BY <2>3, <2>4
<1>7. ASSUME NEW a \in answers' PROVE IsAnswer(a) /\ IsOf(tabs', a)
  BY <1>4 DEF Load, PagesInv, UnderWayFits
<1>8. StoreFits'
  BY PagesAssumption DEF PagesInv, StoreFits, PortsDiffer, storeVars, Load, Act
<1> QED BY <1>4, <1>6, <1>7, <1>8 DEF PagesInv, UnderWayFits

LEMMA SaveKeeps ==
  ASSUME PagesInv, NEW t \in Tabs, Save(t)
  PROVE  PagesInv'
<1> DEFINE x == tabs[t]
           q == [tab |-> t, form |-> buildPayload(x.widgets), fresh |-> x.fresh]
<1>1. x # NoPage /\ x.page \in Pages /\ x.fresh \in BOOLEAN /\ IsForm(x.page, x.widgets) /\ PortFits(x.widgets)
  BY DEF Save, PagesInv, TabsFit, TabFits, IsTab
<1>2. IsForm(x.page, buildPayload(x.widgets)) /\ PortFits(buildPayload(x.widgets))
  BY <1>1, PayloadTypes
<1>3. IsRequest(q) /\ IsOf(tabs, q)
  <2>1. q.tab = t /\ q.form = buildPayload(x.widgets) /\ q.fresh = x.fresh
        /\ q = [tab |-> q.tab, form |-> q.form, fresh |-> q.fresh]
    OBVIOUS
  <2> HIDE DEF q
  <2> QED BY <1>1, <1>2, <2>1 DEF IsRequest, IsOf
<1>4. requests' = requests \cup {q} /\ UNCHANGED <<pc, cfg, durable, saving, tabs, answers>>
  BY DEF Save, storeVars
<1> HIDE DEF q
<1>5. UnderWayFits'
  BY <1>3, <1>4 DEF PagesInv, UnderWayFits
<1>6. StoreFits' /\ TabsFit'
  BY <1>4, PagesAssumption DEF PagesInv, StoreFits, TabsFit, PortsDiffer, Save, Act
<1> QED BY <1>5, <1>6 DEF PagesInv
-----------------------------------------------------------------------------
(* The Booster's own steps. *)

LEMMA AnsweredTab ==
  ASSUME PagesInv, NEW a \in answers, Answer(a)
  PROVE  LET x == tabs[a.tab]
         IN  tabs' = [tabs EXCEPT ![a.tab] =
                        [page |-> x.page, widgets |-> x.widgets,
                         initial |-> IF x.page \in {"bt", "wifi"} THEN buildPayload(x.widgets) ELSE x.initial,
                         fresh |-> x.fresh, saved |-> a.form, raced |-> x.raced]]
<1> DEFINE t == a.tab
           x == tabs[t]
           w == buildPayload(x.widgets)
           y == [page |-> x.page, widgets |-> x.widgets, initial |-> IF x.page \in {"bt", "wifi"} THEN w ELSE x.initial,
                 fresh |-> x.fresh, saved |-> a.form, raced |-> x.raced]
<1>0. t \in Tabs /\ x # NoPage /\ TabFits(x)
  BY DEF PagesInv, UnderWayFits, IsAnswer, IsOf, TabsFit
<1>1. tabs' = [tabs EXCEPT ![t] = [x EXCEPT !.saved = a.form, !.initial = IF x.page \in {"bt", "wifi"} THEN w ELSE @]]
  BY <1>0 DEF PagesInv, TabsFit, Answer
<1>2. x = [page |-> x.page, widgets |-> x.widgets, initial |-> x.initial,
           fresh |-> x.fresh, saved |-> x.saved, raced |-> x.raced]
  BY <1>0 DEF TabFits, IsTab
<1>3. [x EXCEPT !.saved = a.form, !.initial = IF x.page \in {"bt", "wifi"} THEN w ELSE @] = y
  <2>1. PICK z, f, v : /\ z = x /\ f = a.form
                       /\ v = IF x.page \in {"bt", "wifi"} THEN w ELSE x.initial
    BY Zenon
  <2>2. z = [page |-> z.page, widgets |-> z.widgets, initial |-> z.initial,
             fresh |-> z.fresh, saved |-> z.saved, raced |-> z.raced]
    BY <1>2, <2>1
  <2>3. PICK q : q = [z EXCEPT !.saved = f]
    OBVIOUS
  <2>4. q = [page |-> z.page, widgets |-> z.widgets, initial |-> z.initial,
             fresh |-> z.fresh, saved |-> f, raced |-> z.raced]
    BY <2>2, <2>3
  <2>5. /\ q.page = z.page /\ q.widgets = z.widgets /\ q.initial = z.initial
        /\ q.fresh = z.fresh /\ q.saved = f /\ q.raced = z.raced
    BY <2>4
  <2>6. q = [page |-> q.page, widgets |-> q.widgets, initial |-> q.initial,
             fresh |-> q.fresh, saved |-> q.saved, raced |-> q.raced]
    BY <2>4, <2>5
  <2>7. [q EXCEPT !.initial = v] =
          [page |-> q.page, widgets |-> q.widgets, initial |-> v,
           fresh |-> q.fresh, saved |-> q.saved, raced |-> q.raced]
    BY <2>6
  <2>8. [z EXCEPT !.saved = f, !.initial = v] = [q EXCEPT !.initial = v]
    BY <2>3
  <2> QED BY <2>1, <2>5, <2>7, <2>8
<1> QED BY <1>1, <1>3

LEMMA AnswerKeeps ==
  ASSUME PagesInv, NEW a \in answers, Answer(a)
  PROVE  PagesInv'
<1> DEFINE t == a.tab
           x == tabs[t]
           w == buildPayload(x.widgets)
           y == [page |-> x.page, widgets |-> x.widgets, initial |-> IF x.page \in {"bt", "wifi"} THEN w ELSE x.initial,
                 fresh |-> x.fresh, saved |-> a.form, raced |-> x.raced]
<1>1. t \in Tabs /\ x # NoPage /\ IsForm(x.page, a.form) /\ (~x.raced => a.form = w)
  BY DEF PagesInv, UnderWayFits, IsAnswer, IsOf
<1>2. TabFits(x)
  BY <1>1 DEF PagesInv, TabsFit
<1>3. /\ x.page \in Pages /\ x.raced \in BOOLEAN /\ x.fresh \in BOOLEAN
      /\ IsForm(x.page, x.initial) /\ IsForm(x.page, x.widgets) /\ PortFits(x.widgets)
  BY <1>1, <1>2 DEF TabFits, IsTab
<1>4. IsForm(x.page, w)
  BY <1>3, PayloadTypes
<1>5. tabs' = [tabs EXCEPT ![t] = y]
  BY AnsweredTab
<1>6. TabFits(y) /\ y # NoPage
  <2> HIDE DEF w, x
  <2> QED BY <1>1, <1>3, <1>4, NewTab
<1>7. y.page = x.page /\ y.widgets = x.widgets /\ y.raced = x.raced
  OBVIOUS
<1> HIDE DEF y
<1>8. TabsFit' /\ tabs'[t] = y /\ \A r : r.tab # t /\ IsOf(tabs, r) => IsOf(tabs', r)
  BY <1>1, <1>5, <1>6, OneTabChanges DEF PagesInv
<1>9. \A r : IsOf(tabs, r) => IsOf(tabs', r)
  BY <1>1, <1>6, <1>7, <1>8 DEF IsOf
<1>10. UnderWayFits'
  BY <1>9 DEF PagesInv, UnderWayFits, Answer
<1>11. StoreFits'
  BY DEF PagesInv, StoreFits, PortsDiffer, storeVars, Answer
<1> QED BY <1>8, <1>10, <1>11 DEF PagesInv

LEMMA HandlerKeeps ==
  ASSUME PagesInv, NEW r \in requests, cgi_saveparams(r)
  PROVE  PagesInv'
<1>1. IsRequest(r) /\ IsOf(tabs, r)
  BY DEF PagesInv, UnderWayFits
<1>2. PICK p \in Pages : IsForm(p, r.form)
  BY <1>1 DEF IsRequest
<1>3. cfg \in Tables /\ (cfg[MOUSE_ORIGINAL] = "true" => cfg[JOYSTICK_USB_PORT] = "2")
  BY PagesAssumption DEF PagesInv, StoreFits, PortsDiffer, cgi_saveparams
<1>4. cfg' \in Tables /\ (cfg'[MOUSE_ORIGINAL] = "true" => cfg'[JOYSTICK_USB_PORT] = "2")
  BY <1>1, <1>2, <1>3, WithTypes DEF cgi_saveparams, IsRequest
<1>5. StoreFits'
  BY <1>4, PagesAssumption DEF PagesInv, StoreFits, PortsDiffer, cgi_saveparams
<1>6. PICK left \in {requests, requests \ {r}} :
        IF cfg' = cfg THEN requests' = left /\ tabs' = tabs
        ELSE requests' = StaleAll(left) /\ tabs' = Stale(tabs)
  BY DEF cgi_saveparams
<1>7. \A q \in left : IsRequest(q) /\ IsOf(tabs, q)
  BY <1>6 DEF PagesInv, UnderWayFits
<1>8. TabsFit' /\ \A q : IsOf(tabs, q) => IsOf(tabs', q)
  BY <1>6, StaleFits DEF PagesInv, TabsFit
<1>9. \A q \in requests' : IsRequest(q) /\ IsOf(tabs', q)
  BY <1>6, <1>7, <1>8, StaleAllFits
<1>10. ASSUME NEW a \in answers' PROVE IsAnswer(a) /\ IsOf(tabs', a)
  <2>1. CASE a \in answers
    BY <2>1, <1>8 DEF PagesInv, UnderWayFits
  <2>2. CASE a \notin answers
    <3>1. a = [tab |-> r.tab, form |-> r.form] /\ r.tab # NoTab
      BY <2>2 DEF cgi_saveparams
    <3>2. IsAnswer(a) /\ IsOf(tabs, a)
      BY <1>1, <3>1 DEF IsAnswer, IsOf
    <3> QED BY <3>2, <1>8
  <2> QED BY <2>1, <2>2
<1> QED BY <1>5, <1>8, <1>9, <1>10 DEF PagesInv, UnderWayFits

LEMMA SaveStepKeeps ==
  ASSUME PagesInv, SaveStep
  PROVE  PagesInv'
<1>1. cfg \in Tables /\ (cfg[MOUSE_ORIGINAL] = "true" => cfg[JOYSTICK_USB_PORT] = "2")
  BY PagesAssumption DEF PagesInv, StoreFits, PortsDiffer, SaveStep
<1>2. /\ durable' \in Tables /\ (durable'[MOUSE_ORIGINAL] = "true" => durable'[JOYSTICK_USB_PORT] = "2")
      /\ saving' \in BOOLEAN /\ cfg' = cfg
  <2>1. CASE Store!BeginSave
    BY <2>1, PagesAssumption DEF Store!BeginSave
  <2>2. CASE saving /\ durable' \in Cuts(cfg) /\ UNCHANGED <<cfg, saving>>
    BY <1>1, <2>2, CutTypes DEF PagesInv, StoreFits
  <2>3. CASE Store!EndSave
    BY <1>1, <2>3 DEF Store!EndSave
  <2> QED BY <2>1, <2>2, <2>3 DEF SaveStep
<1>3. StoreFits'
  BY <1>1, <1>2, PagesAssumption DEF PagesInv, StoreFits, PortsDiffer, SaveStep
<1> QED BY <1>3 DEF PagesInv, TabsFit, UnderWayFits, SaveStep

LEMMA PowerOnKeeps ==
  ASSUME PagesInv, PowerOn
  PROVE  PagesInv'
<1>1. StoreFits'
  BY PagesAssumption DEF PagesInv, StoreFits, PortsDiffer, PowerOn, Store!Open
<1> QED BY <1>1 DEF PagesInv, TabsFit, UnderWayFits, PowerOn

LEMMA PowerCutKeeps ==
  ASSUME PagesInv, PowerCut
  PROVE  PagesInv'
<1>1. durable \in Tables /\ (durable[MOUSE_ORIGINAL] = "true" => durable[JOYSTICK_USB_PORT] = "2")
  BY PagesAssumption DEF PagesInv, StoreFits, PortsDiffer
<1>2. /\ durable' \in Tables /\ (durable'[MOUSE_ORIGINAL] = "true" => durable'[JOYSTICK_USB_PORT] = "2")
      /\ saving' = FALSE /\ cfg' = NoTable
  <2>1. CASE Store!Crash
    BY <1>1, <2>1 DEF Store!Crash
  <2>2. CASE pc = "save" /\ ~saving /\ durable' \in Cuts(durable) /\ cfg' = NoTable /\ UNCHANGED saving
    BY <1>1, <2>2, CutTypes DEF PagesInv, StoreFits
  <2> QED BY <2>1, <2>2 DEF PowerCut
<1>3. StoreFits'
  <2>1. PortsDiffer'
    BY <1>2 DEF PortsDiffer
  <2>2. pc' = "off" /\ actions' \in 0 .. MaxActions
    BY PagesAssumption DEF PagesInv, StoreFits, PowerCut, Act
  <2> QED BY <1>2, <2>1, <2>2 DEF StoreFits
<1>4. TabsFit' /\ \A q : IsOf(tabs, q) => IsOf(tabs', q)
  BY StaleFits DEF PowerCut, PagesInv, TabsFit
<1>5. \A q \in requests' : IsRequest(q) /\ IsOf(tabs', q)
  BY <1>4, StaleAllFits DEF PowerCut, PagesInv, UnderWayFits
<1> QED BY <1>3, <1>4, <1>5 DEF PagesInv, UnderWayFits, PowerCut
-----------------------------------------------------------------------------
LEMMA PagesInvHolds == Spec => []PagesInv
<1>1. Init => PagesInv
  <2> SUFFICES ASSUME Init PROVE PagesInv
    OBVIOUS
  <2>1. durable \in Tables /\ PortsDiffer
    BY PagesAssumption DEF Init, PortsDiffer
  <2>2. actions \in 0 .. MaxActions
    BY PagesAssumption DEF Init
  <2>3. StoreFits
    BY <2>1, <2>2 DEF Init, StoreFits
  <2>4. TabsFit
    <3>1. TabFits(NoPage)
      BY DEF TabFits, IsTab
    <3> QED BY <3>1 DEF Init, TabsFit
  <2>5. UnderWayFits
    BY DEF Init, UnderWayFits
  <2> QED BY <2>3, <2>4, <2>5 DEF PagesInv
<1>2. PagesInv /\ [Next]_vars => PagesInv'
  <2> SUFFICES ASSUME PagesInv, [Next]_vars PROVE PagesInv'
    OBVIOUS
  <2>1. ASSUME NEW t \in Tabs, NEW p \in Pages, Load(t, p) PROVE PagesInv'
    BY <2>1, LoadKeeps
  <2>2. ASSUME NEW t \in Tabs, NEW i \in Slots, NEW v \in Choices(i), Edit(t, i, v) PROVE PagesInv'
    BY <2>2, EditKeeps
  <2>3. ASSUME NEW t \in Tabs, Reset(t) PROVE PagesInv'
    BY <2>3, ResetKeeps
  <2>4. ASSUME NEW t \in Tabs, Save(t) PROVE PagesInv'
    BY <2>4, SaveKeeps
  <2>5. ASSUME NEW r \in requests, cgi_saveparams(r) PROVE PagesInv'
    BY <2>5, HandlerKeeps
  <2>6. ASSUME NEW a \in answers, Answer(a) PROVE PagesInv'
    BY <2>6, AnswerKeeps
  <2>7. CASE SaveStep
    BY <2>7, SaveStepKeeps
  <2>8. CASE PowerOn
    BY <2>8, PowerOnKeeps
  <2>9. CASE PowerCut
    BY <2>9, PowerCutKeeps
  <2>10. CASE UNCHANGED vars
    BY <2>10 DEF vars, storeVars, PagesInv, StoreFits, TabsFit, UnderWayFits, PortsDiffer
  <2> QED BY <2>1, <2>2, <2>3, <2>4, <2>5, <2>6, <2>7, <2>8, <2>9, <2>10 DEF Next
<1> QED BY <1>1, <1>2, PTL DEF Spec

(* Types of the settings, of the pages and of what is under way.            *)
THEOREM PagesTypeCorrect == Spec => []PagesTypeOK
<1>1. PagesInv => PagesTypeOK
  BY DEF PagesInv, StoreFits, TabsFit, TabFits, UnderWayFits, IsRequest, IsAnswer, IsOf, PagesTypeOK
<1> QED BY <1>1, PagesInvHolds, PTL

(* Whatever pages save in whatever order, and wherever saves are cut, the   *)
(* joystick is off the port of the original mouse, which only the page's    *)
(* script takes care of (mngr_usb.shtml:342-355, mngr_httpd.c:352-371).     *)
THEOREM JoystickIsOffTheMouse == Spec => []PortsDiffer
<1>1. PagesInv => PortsDiffer
  BY DEF PagesInv, StoreFits
<1> QED BY <1>1, PagesInvHolds, PTL

(* Reset goes back to what the Booster was last known to have, unless the   *)
(* page was edited while a request or an answer was under way (mngr_bt.shtml*)
(* :369-372, 385-388).                                                      *)
THEOREM ResetGoesBack == Spec => []ResetIsSaved
<1>1. PagesInv => ResetIsSaved
  BY DEF PagesInv, TabsFit, TabFits, ResetIsSaved
<1> QED BY <1>1, PagesInvHolds, PTL

(* A cut of this model is one that the settings store promises not to go    *)
(* beyond (settings.c:307-316): SaveStep and PowerCut use it as it is.      *)
THEOREM CutsAreShortened ==
  ASSUME NEW t \in Tables, NEW d \in Cuts(t)
  PROVE  d \in Store!Shortened(t)
<1>1. PICK n \in 0 .. NumEntries : d = Cut(t, n)
  BY DEF Cuts
<1>2. d \in [Slots -> Values]
  BY <1>1, PagesAssumption DEF Cut, Tables
<1>3. ASSUME NEW i \in Slots, d[i] # t[i], NEW j \in i .. NumEntries - 1 PROVE d[j] = Defaults[j]
  BY <1>1, <1>3 DEF Cut, Slots, NumEntries
<1> QED BY <1>2, <1>3 DEF Store!Shortened, Store!Slots, Slots, NumEntries
-----------------------------------------------------------------------------
(* From here on, what an untouched page shows is what is saved: the way of  *)
(* a setting from the table through tag, script, widget and form back.      *)

Modes == {"0", "1", "2", "255"}

(* A checkbox stands for a truth value, and the mode is one of the modes.   *)
Plain(t) == t[MODE] \in Modes /\ \A i \in Checkboxes : t[i] \in {"true", "false"}

HasMode(f) == MODE \in DOMAIN f => f[MODE] \in Modes

LEMMA SlotKinds ==
  /\ MODE \in Slots /\ MODE \notin Texts \cup Layouts \cup Checkboxes \cup Trimmed /\ MODE # JOYSTICK_USB_PORT
  /\ Layouts \cap Texts = {} /\ Layouts \subseteq Slots /\ Texts \subseteq Slots /\ Checkboxes \subseteq Slots
  /\ Trimmed \subseteq Texts /\ Texts \cap Checkboxes = {} /\ Layouts \cap Checkboxes = {}
BY DEF Slots, NumEntries, Checkboxes, Texts, Layouts, Trimmed, HOSTNAME, WIFI_PASSWORD, WIFI_SSID, MODE,
       USB_KB_LAYOUT, JOYSTICK_USB, JOYSTICK_USB_PORT, MOUSE_ORIGINAL, BT_KB_LAYOUT

LEMMA TruthWords == "true" # Empty /\ "false" # Empty
BY Zenon DEF Empty

LEMMA ModeWords ==
  /\ \A v \in Modes : v \in Values /\ v # Empty /\ Literal[v] = v /\ Trim[v] = v
  /\ \A p \in {"usb", "bt", "native"} : ModeOn[p] \in Modes /\ ModeOff[p] \in Modes /\ ModeOn[p] # ModeOff[p]
<1>1. "0" # Empty /\ "1" # Empty /\ "2" # Empty /\ "255" # Empty
  BY Zenon DEF Empty
<1>2. \A v \in Modes : v \in Values /\ v # Empty
  BY <1>1, Words DEF Modes
<1>3. \A v \in Modes : Literal[v] = v /\ Trim[v] = v
  BY OfferedAssumption DEF Modes
<1>4. \A p \in {"usb", "bt", "native"} : ModeOn[p] \in Modes /\ ModeOff[p] \in Modes /\ ModeOn[p] # ModeOff[p]
  BY DEF ModeOn, ModeOff, Modes
<1> QED BY <1>2, <1>3, <1>4

(* What the widget of one setting holds on a page just loaded. *)
Read(T, i) ==
  LET read == Trim[Literal[ssi_handler(T, i)]]
  IN  IF read = Empty THEN WhenEmpty(i) ELSE read

LEMMA ReadState ==
  ASSUME NEW p, NEW T, NEW i \in SettingsOf[p]
  PROVE  /\ DOMAIN InitialState(p, T) = SettingsOf[p]
         /\ i = MODE => InitialState(p, T)[i] = IF Read(T, i) = ModeOn[p] THEN Read(T, i) ELSE ModeOff[p]
         /\ i \in Checkboxes => InitialState(p, T)[i] = IF Read(T, i) = "true" THEN "Yes" ELSE "No"
         /\ i \notin Checkboxes \cup {MODE} => InitialState(p, T)[i] = Read(T, i)
BY SlotKinds DEF InitialState, Read

LEMMA SameSettings ==
  ASSUME NEW p \in Pages, NEW s, DOMAIN s = SettingsOf[p]
  PROVE  DOMAIN applyState(s) = SettingsOf[p]
<1> DEFINE g == [i \in DOMAIN s |-> Shows(i, s[i])]
<1>1. DOMAIN g = SettingsOf[p] /\ applyState(s) = PortFollows(g)
  BY DEF applyState
<1> HIDE DEF g
<1> QED BY <1>1 DEF PortFollows

LEMMA Applied ==
  ASSUME NEW p \in Pages, NEW s, DOMAIN s = SettingsOf[p], NEW i \in SettingsOf[p]
  PROVE  /\ DOMAIN applyState(s) = SettingsOf[p]
         /\ i \in Texts \cup Checkboxes \cup {MODE} => applyState(s)[i] = s[i]
         /\ i # JOYSTICK_USB_PORT /\ s[i] # Empty /\ s[i] \in Offered[i] => applyState(s)[i] = s[i]
         /\ i = JOYSTICK_USB_PORT /\ s[MOUSE_ORIGINAL] = "Yes" => applyState(s)[i] = "2"
         /\ i = JOYSTICK_USB_PORT /\ s[MOUSE_ORIGINAL] # "Yes" /\ s[i] # Empty /\ s[i] \in Offered[i] => applyState(s)[i] = s[i]
<1> DEFINE g == [j \in DOMAIN s |-> Shows(j, s[j])]
<1>1. applyState(s) = PortFollows(g)
  BY DEF applyState
<1>2. DOMAIN g = SettingsOf[p] /\ g = [j \in SettingsOf[p] |-> g[j]]
  OBVIOUS
<1>3. i \in Texts \cup Checkboxes \cup {MODE} \/ (s[i] # Empty /\ s[i] \in Offered[i]) => g[i] = s[i]
  BY ShowsIs
<1>4. MOUSE_ORIGINAL \in SettingsOf[p] => g[MOUSE_ORIGINAL] = s[MOUSE_ORIGINAL]
  BY PortSlots, ShowsIs
<1> HIDE DEF g
<1>5. /\ DOMAIN PortFollows(g) = SettingsOf[p]
      /\ i # JOYSTICK_USB_PORT => PortFollows(g)[i] = g[i]
      /\ i = JOYSTICK_USB_PORT /\ g[MOUSE_ORIGINAL] = "Yes" => PortFollows(g)[i] = "2"
      /\ i = JOYSTICK_USB_PORT /\ g[MOUSE_ORIGINAL] # "Yes" => PortFollows(g)[i] = g[i]
  BY <1>2, PageSettings DEF PortFollows
<1>6. i = JOYSTICK_USB_PORT => MOUSE_ORIGINAL \in SettingsOf[p]
  BY PageSettings
<1>7. JOYSTICK_USB_PORT \notin Texts \cup Checkboxes \cup {MODE}
  BY PortSlots, SlotKinds
<1> QED BY <1>1, <1>3, <1>4, <1>5, <1>6, <1>7

LEMMA Payload ==
  ASSUME NEW w, NEW i \in DOMAIN w
  PROVE  /\ DOMAIN buildPayload(w) = DOMAIN w
         /\ buildPayload(w)[i] = IF i \in Trimmed THEN Trim[w[i]] ELSE w[i]
BY DEF buildPayload

(* The form of an untouched page, setting by setting. *)
Untouched(p, T) == buildPayload(applyState(InitialState(p, T)))

LEMMA ShownIsSaved ==
  ASSUME NEW p \in Pages, NEW T \in Tables, Plain(T),
         T[MOUSE_ORIGINAL] = "true" => T[JOYSTICK_USB_PORT] = "2",
         p \in {"usb", "bt"} => Untouched(p, T)[MODE] = ModeOn[p],
         NEW i \in SettingsOf[p], CanShow(i, T[i])
  PROVE  LET v == Converted(i, Untouched(p, T)[i])
         IN  v = T[i] \/ (i \in Layouts /\ v = Lower[T[i]]) \/ (i = MODE /\ p = "native")
<1> DEFINE s == InitialState(p, T)
           f == Untouched(p, T)
<1>0. i \in Slots /\ T[i] \in Values /\ DOMAIN s = SettingsOf[p]
  BY PageSettings, ReadState DEF Tables
<1>f. f[i] = IF i \in Trimmed THEN Trim[applyState(s)[i]] ELSE applyState(s)[i]
  BY <1>0, Applied, Payload DEF Untouched
<1>1. CASE i = MODE
  <2> SUFFICES ASSUME p # "native" PROVE Converted(i, f[i]) = T[i]
    BY <1>1
  <2>1. p \in {"usb", "bt"}
    BY <1>1, PageSettings
  <2>2. f[i] = s[i]
    BY <1>0, <1>f, <1>1, Applied, SlotKinds
  <2>3. Read(T, i) = T[i]
    BY <1>1, ModeWords, SlotKinds DEF Read, ssi_handler, Plain
  <2>4. s[i] = ModeOn[p] /\ s[i] = T[i]
    BY <1>1, <2>1, <2>2, <2>3, ReadState, ModeWords
  <2>5. Converted(i, T[i]) = T[i]
    BY <1>1, SlotKinds, ModeWords DEF Converted, Plain, Layouts
  <2> QED BY <2>2, <2>4, <2>5
<1>2. CASE i \in Checkboxes
  <2>1. f[i] = s[i]
    BY <1>0, <1>f, <1>2, Applied, PageSettings
  <2>2. Read(T, i) = T[i] /\ T[i] \in {"true", "false"}
    BY <1>2, OfferedAssumption, SlotKinds, TruthWords DEF Read, ssi_handler, Plain
  <2>3. s[i] = IF T[i] = "true" THEN "Yes" ELSE "No"
    BY <1>2, <2>2, ReadState
  <2>4. \A v : Converted(i, v) = IF v = "Yes" THEN "true" ELSE "false"
    BY <1>2, SlotKinds DEF Converted, Layouts
  <2> QED BY <2>1, <2>2, <2>3, <2>4
<1>3. CASE i \in Texts
  <2>1. Literal[T[i]] = T[i] /\ Trim[T[i]] = T[i] /\ (T[i] = Empty => WhenEmpty(i) = Empty)
    BY <1>3 DEF CanShow
  <2>2. Read(T, i) = T[i]
    BY <1>3, <2>1, SlotKinds DEF Read, ssi_handler
  <2>3. s[i] = T[i]
    BY <1>3, <2>1, <2>2, ReadState, SlotKinds
  <2>4. f[i] = T[i]
    BY <1>0, <1>f, <1>3, <2>1, <2>3, Applied
  <2>5. Converted(i, T[i]) = T[i]
    BY <1>3, SlotKinds DEF Converted, Layouts
  <2> QED BY <2>4, <2>5
<1>4. CASE i \in Layouts
  <2> DEFINE v == Lower[T[i]]
  <2>1. v \in Offered[i]
    BY <1>4, SlotKinds DEF CanShow
  <2>2. v # Empty /\ Literal[v] = v /\ Trim[v] = v /\ Lower[v] = v
    BY <1>0, <1>4, <2>1, OfferedAssumption, SlotKinds
  <2>3. Read(T, i) = v
    BY <1>4, <2>2 DEF Read, ssi_handler
  <2> HIDE DEF v
  <2>4. s[i] = v
    BY <1>4, <2>2, <2>3, ReadState, SlotKinds
  <2>5. f[i] = v
    BY <1>0, <1>f, <1>4, <2>1, <2>2, <2>4, Applied, PortSlots, SlotKinds
  <2>6. Converted(i, v) = v
    BY <1>4, <2>2, SlotKinds DEF Converted, Layouts
  <2> QED BY <1>4, <2>5, <2>6 DEF v
<1>5. CASE i \notin Texts \cup Checkboxes \cup Layouts \cup {MODE}
  <2>1. T[i] \in Offered[i]
    BY <1>5 DEF CanShow
  <2>2. T[i] # Empty /\ Literal[T[i]] = T[i] /\ Trim[T[i]] = T[i]
    BY <1>0, <1>5, <2>1, OfferedAssumption
  <2>3. s[i] = T[i]
    BY <1>5, <2>2, ReadState DEF Read, ssi_handler
  <2>4. Converted(i, T[i]) = T[i]
    BY <1>5, <2>2 DEF Converted, Layouts
  <2>5. applyState(s)[i] = T[i]
    <3>1. CASE i # JOYSTICK_USB_PORT
      BY <1>0, <2>1, <2>2, <2>3, <3>1, Applied
    <3>2. CASE i = JOYSTICK_USB_PORT /\ s[MOUSE_ORIGINAL] # "Yes"
      BY <1>0, <2>1, <2>2, <2>3, <3>2, Applied
    <3>3. CASE i = JOYSTICK_USB_PORT /\ s[MOUSE_ORIGINAL] = "Yes"
      <4>1. MOUSE_ORIGINAL \in SettingsOf[p] /\ MOUSE_ORIGINAL \in Checkboxes
        BY <3>3, PageSettings, PortSlots
      <4>2. Read(T, MOUSE_ORIGINAL) = "true"
        BY <3>3, <4>1, ReadState
      <4>3. Read(T, MOUSE_ORIGINAL) = T[MOUSE_ORIGINAL]
        BY <4>1, OfferedAssumption, SlotKinds, TruthWords DEF Read, ssi_handler, Plain
      <4> QED BY <1>0, <2>3, <3>3, <4>2, <4>3, Applied
    <3> QED BY <3>1, <3>2, <3>3
  <2> QED BY <1>f, <1>5, <2>4, <2>5, SlotKinds
<1> QED BY <1>1, <1>2, <1>3, <1>4, <1>5
-----------------------------------------------------------------------------
(* The table a page is loaded from now, or at the next start. *)
Current == IF cfg = NoTable THEN durable ELSE cfg

ShownTab(x, T) ==
  x # NoPage =>
    /\ HasMode(x.widgets) /\ HasMode(x.initial)
    /\ x.fresh => x.widgets = applyState(InitialState(x.page, T))

ShownRequest(r, T) ==
  /\ HasMode(r.form)
  /\ r.fresh => \E p \in Pages : /\ r.form = Untouched(p, T)
                                 /\ p \in {"usb", "bt"} => r.form[MODE] = ModeOn[p]

(* Besides PagesInv: what is fresh shows the current table. *)
ShowInv ==
  /\ Plain(durable) /\ (cfg # NoTable => Plain(cfg))
  /\ \A t \in Tabs : ShownTab(tabs[t], Current)
  /\ \A r \in requests : ShownRequest(r, Current)

LEMMA ModesKept ==
  ASSUME NEW p \in Pages
  PROVE  /\ \A T : HasMode(InitialState(p, T))
         /\ \A w : HasMode(w) => HasMode(buildPayload(w))
         /\ \A s : DOMAIN s = SettingsOf[p] /\ HasMode(s) => HasMode(applyState(s))
         /\ HasMode(resetState)
<1>1. ASSUME NEW T PROVE HasMode(InitialState(p, T))
  <2>1. CASE MODE \in SettingsOf[p]
    <3>1. p \in {"usb", "bt", "native"}
      BY <2>1, PageSettings
    <3> QED BY <2>1, <3>1, ReadState, ModeWords DEF HasMode
  <2>2. CASE MODE \notin SettingsOf[p]
    BY <2>2 DEF HasMode, InitialState
  <2> QED BY <2>1, <2>2
<1>2. ASSUME NEW w, HasMode(w) PROVE HasMode(buildPayload(w))
  BY <1>2, SlotKinds DEF HasMode, buildPayload
<1>3. ASSUME NEW s, DOMAIN s = SettingsOf[p], HasMode(s) PROVE HasMode(applyState(s))
  <2>1. DOMAIN applyState(s) = SettingsOf[p]
    BY <1>3, SameSettings
  <2> QED BY <1>3, <2>1, Applied DEF HasMode
<1>4. HasMode(resetState)
  BY PageSettings DEF HasMode, resetState
<1> QED BY <1>1, <1>2, <1>3, <1>4

(* A form puts a mode and truth values; a cut keeps entries or defaults.     *)
LEMMA PlainKept ==
  ASSUME NEW t \in Tables, Plain(t)
  PROVE  /\ \A f : HasMode(f) => Plain(With(t, f))
         /\ \A d \in Cuts(t) : Plain(d)
<1>1. ASSUME NEW f, HasMode(f) PROVE Plain(With(t, f))
  <2>1. With(t, f)[MODE] \in Modes
    <3>1. \A v \in Modes : Converted(MODE, v) = v
      BY SlotKinds, ModeWords DEF Converted, Layouts
    <3> QED BY <1>1, <3>1, SlotKinds DEF With, HasMode, Plain
  <2>2. ASSUME NEW i \in Checkboxes PROVE With(t, f)[i] \in {"true", "false"}
    <3>1. \A v : Converted(i, v) \in {"true", "false"}
      BY SlotKinds DEF Converted, Layouts
    <3> QED BY <3>1, SlotKinds DEF With, Plain
  <2> QED BY <2>1, <2>2 DEF Plain
<1>2. ASSUME NEW d \in Cuts(t) PROVE Plain(d)
  <2>1. PICK n \in 0 .. NumEntries : d = Cut(t, n)
    BY DEF Cuts
  <2>2. \A i \in Slots : d[i] \in {t[i], Defaults[i]}
    BY <2>1 DEF Cut
  <2>3. Plain(Defaults)
    BY OfferedAssumption DEF Plain, Modes
  <2> QED BY <2>2, <2>3, SlotKinds DEF Plain
<1> QED BY <1>1, <1>2

(* Nothing is fresh any more. *)
LEMMA StaleShows ==
  ASSUME TabsFit, NEW t \in Tabs, NEW T, ShownTab(tabs[t], T), NEW U
  PROVE  ShownTab(Stale(tabs)[t], U)
<1>1. CASE tabs[t] = NoPage
  BY <1>1 DEF Stale, ShownTab
<1>2. CASE tabs[t] # NoPage
  <2> DEFINE x == tabs[t]
  <2>1. x = [page |-> x.page, widgets |-> x.widgets, initial |-> x.initial,
             fresh |-> x.fresh, saved |-> x.saved, raced |-> x.raced]
    BY <1>2 DEF TabsFit, TabFits, IsTab
  <2>2. Stale(tabs)[t] = [x EXCEPT !.fresh = FALSE]
    BY <1>2 DEF Stale
  <2>3. HasMode(x.widgets) /\ HasMode(x.initial)
    BY <1>2 DEF ShownTab
  <2> HIDE DEF x
  <2>4. /\ Stale(tabs)[t].fresh = FALSE /\ Stale(tabs)[t].widgets = x.widgets
        /\ Stale(tabs)[t].initial = x.initial
    BY <2>1, <2>2
  <2> QED BY <2>3, <2>4 DEF ShownTab
<1> QED BY <1>1, <1>2

LEMMA StaleAllShows ==
  ASSUME NEW rs, NEW T, \A r \in rs : ShownRequest(r, T), NEW U
  PROVE  \A r \in StaleAll(rs) : ShownRequest(r, U)
<1>1. ASSUME NEW r \in rs
      PROVE  ShownRequest([tab |-> r.tab, form |-> r.form, fresh |-> FALSE], U)
  BY DEF ShownRequest
<1> QED BY <1>1 DEF StaleAll

(* An edited page says nothing of the table. *)
LEMMA EditShows ==
  ASSUME PagesInv, ShowInv, NEW t \in Tabs, tabs[t] # NoPage, NEW w, HasMode(w), NEW u,
         tabs' = [tabs EXCEPT ![t].widgets = w, ![t].fresh = FALSE, ![t].raced = @ \/ u],
         UNCHANGED <<storeVars, requests>>
  PROVE  ShowInv'
<1> DEFINE x == tabs[t]
           y == [page |-> x.page, widgets |-> w, initial |-> x.initial,
                 fresh |-> FALSE, saved |-> x.saved, raced |-> x.raced \/ u]
<1>1. tabs' = [tabs EXCEPT ![t] = y]
  BY EditedTab DEF PagesInv
<1>2. tabs'[t] = y /\ \A v \in Tabs \ {t} : tabs'[v] = tabs[v]
  BY <1>1 DEF PagesInv, TabsFit
<1>3. y.widgets = w /\ y.initial = x.initial /\ y.fresh = FALSE
  OBVIOUS
<1>4. HasMode(x.initial)
  BY DEF ShowInv, ShownTab
<1> HIDE DEF y
<1>5. ShownTab(y, Current')
  BY <1>3, <1>4 DEF ShownTab
<1> QED BY <1>2, <1>5 DEF ShowInv, Current, storeVars

LEMMA LoadShows ==
  ASSUME PagesInv, ShowInv, NEW t \in Tabs, NEW p \in Pages, Load(t, p)
  PROVE  ShowInv'
<1> DEFINE s == InitialState(p, cfg)
           y == IF IsDead(p, cfg) THEN NoPage
                ELSE [page |-> p, widgets |-> applyState(s), initial |-> s,
                      fresh |-> TRUE, saved |-> s, raced |-> FALSE]
<1>1. cfg # NoTable
  BY DEF Load, PagesInv, StoreFits
<1>2. HasMode(s) /\ HasMode(applyState(s))
  BY ModesKept DEF InitialState
<1>3. ShownTab(y, cfg)
  <2> HIDE DEF s
  <2>1. s = InitialState(p, cfg)
    BY DEF s
  <2> QED BY <1>2, <2>1 DEF ShownTab
<1>4. tabs' = [tabs EXCEPT ![t] = y]
  BY DEF Load
<1> HIDE DEF y
<1>5. tabs'[t] = y /\ \A u \in Tabs \ {t} : tabs'[u] = tabs[u]
  BY <1>4 DEF PagesInv, TabsFit
<1>6. Current' = Current /\ Current = cfg /\ UNCHANGED <<cfg, durable>>
  BY <1>1 DEF Load, storeVars, Current
<1>7. ASSUME NEW q \in requests' PROVE ShownRequest(q, Current)
  <2>1. PICK r \in requests :
          q = [tab |-> IF r.tab = t THEN NoTab ELSE r.tab, form |-> r.form, fresh |-> r.fresh]
    BY DEF Load
  <2>2. q.form = r.form /\ q.fresh = r.fresh /\ ShownRequest(r, Current)
    BY <2>1 DEF ShowInv
  <2> QED BY <2>2 DEF ShownRequest
<1> QED BY <1>3, <1>5, <1>6, <1>7 DEF ShowInv

LEMMA EditKeepsShown ==
  ASSUME PagesInv, ShowInv, NEW t \in Tabs, NEW i \in Slots, NEW v \in Choices(i), Edit(t, i, v)
  PROVE  ShowInv'
<1> DEFINE x == tabs[t]
           w == [x.widgets EXCEPT ![i] = v]
<1>1. x # NoPage /\ x.page \in Pages /\ HasMode(x.widgets) /\ DOMAIN x.widgets = SettingsOf[x.page]
  BY DEF Edit, PagesInv, TabsFit, TabFits, IsTab, IsForm, ShowInv, ShownTab
<1>2. i = MODE => v \in Modes
  BY DEF Choices, Modes
<1>3. DOMAIN w = SettingsOf[x.page] /\ HasMode(w)
  BY <1>1, <1>2 DEF HasMode
<1> HIDE DEF w
<1>4. HasMode(PortFollows(w))
  BY <1>3, SlotKinds DEF HasMode, PortFollows
<1> QED BY <1>1, <1>4, EditShows DEF Edit, w

LEMMA ResetKeepsShown ==
  ASSUME PagesInv, ShowInv, NEW t \in Tabs, Reset(t)
  PROVE  ShowInv'
<1> DEFINE x == tabs[t]
           w == IF x.page = "wifi" THEN resetState ELSE applyState(x.initial)
<1>1. x # NoPage /\ x.page \in Pages /\ HasMode(x.initial) /\ DOMAIN x.initial = SettingsOf[x.page]
  BY DEF Reset, PagesInv, TabsFit, TabFits, IsTab, IsForm, ShowInv, ShownTab
<1>2. HasMode(w)
  BY <1>1, ModesKept
<1> QED BY <1>1, <1>2, EditShows DEF Reset

LEMMA SaveKeepsShown ==
  ASSUME PagesInv, ShowInv, NEW t \in Tabs, Save(t)
  PROVE  ShowInv'
<1> DEFINE x == tabs[t]
           q == [tab |-> t, form |-> buildPayload(x.widgets), fresh |-> x.fresh]
<1>1. /\ x # NoPage /\ x.page \in Pages /\ DOMAIN x.widgets = SettingsOf[x.page]
      /\ ShownTab(x, Current) /\ MaySave(x.page, x.widgets)
  BY DEF Save, PagesInv, TabsFit, TabFits, IsTab, IsForm, ShowInv
<1>2. HasMode(buildPayload(x.widgets))
  BY <1>1, ModesKept DEF ShownTab
<1>3. x.page \in {"usb", "bt"} => buildPayload(x.widgets)[MODE] = ModeOn[x.page]
  <2>1. x.page \in {"usb", "bt"} => MODE \in SettingsOf[x.page]
    BY DEF SettingsOf
  <2> QED BY <1>1, <2>1, Payload, SlotKinds DEF MaySave
<1>4. x.fresh => buildPayload(x.widgets) = Untouched(x.page, Current)
  BY <1>1 DEF ShownTab, Untouched
<1>5. q.form = buildPayload(x.widgets) /\ q.fresh = x.fresh
  OBVIOUS
<1>6. requests' = requests \cup {q} /\ UNCHANGED <<cfg, durable, tabs>>
  BY DEF Save, storeVars
<1> HIDE DEF q, x
<1>7. ShownRequest(q, Current)
  BY <1>1, <1>2, <1>3, <1>4, <1>5 DEF ShownRequest
<1> QED BY <1>6, <1>7 DEF ShowInv, Current

LEMMA AnswerKeepsShown ==
  ASSUME PagesInv, ShowInv, NEW a \in answers, Answer(a)
  PROVE  ShowInv'
<1> DEFINE t == a.tab
           x == tabs[t]
           y == [page |-> x.page, widgets |-> x.widgets,
                 initial |-> IF x.page \in {"bt", "wifi"} THEN buildPayload(x.widgets) ELSE x.initial,
                 fresh |-> x.fresh, saved |-> a.form, raced |-> x.raced]
<1>1. t \in Tabs /\ x # NoPage /\ x.page \in Pages
  BY DEF PagesInv, UnderWayFits, IsAnswer, IsOf, TabsFit, TabFits, IsTab
<1>2. tabs' = [tabs EXCEPT ![t] = y]
  BY AnsweredTab
<1>3. tabs'[t] = y /\ \A u \in Tabs \ {t} : tabs'[u] = tabs[u]
  BY <1>1, <1>2 DEF PagesInv, TabsFit
<1>4. ShownTab(x, Current)
  BY <1>1 DEF ShowInv
<1>5. HasMode(buildPayload(x.widgets))
  BY <1>1, <1>4, ModesKept DEF ShownTab
<1>6. /\ y.page = x.page /\ y.widgets = x.widgets /\ y.fresh = x.fresh
      /\ y.initial = IF x.page \in {"bt", "wifi"} THEN buildPayload(x.widgets) ELSE x.initial
  OBVIOUS
<1> HIDE DEF y
<1>7. ShownTab(y, Current)
  BY <1>1, <1>4, <1>5, <1>6 DEF ShownTab
<1> QED BY <1>3, <1>7 DEF ShowInv, Current, Answer, storeVars

LEMMA HandlerKeepsShown ==
  ASSUME PagesInv, ShowInv, NEW r \in requests, cgi_saveparams(r)
  PROVE  ShowInv'
<1>1. cfg \in Tables /\ cfg' = With(cfg, r.form) /\ UNCHANGED durable
  BY DEF cgi_saveparams, PagesInv, StoreFits
<1>2. cfg # NoTable /\ cfg' # NoTable /\ Plain(cfg')
  <2>1. PagesInv' /\ pc' = "save"
    BY HandlerKeeps DEF cgi_saveparams
  <2>2. cfg # NoTable /\ cfg' # NoTable
    BY <2>1 DEF cgi_saveparams, PagesInv, StoreFits
  <2>3. Plain(cfg) /\ HasMode(r.form)
    BY <2>2 DEF ShowInv, ShownRequest
  <2> QED BY <1>1, <2>2, <2>3, PlainKept
<1>3. PICK left \in {requests, requests \ {r}} :
        IF cfg' = cfg THEN requests' = left /\ tabs' = tabs
        ELSE requests' = StaleAll(left) /\ tabs' = Stale(tabs)
  BY DEF cgi_saveparams
<1>4. \A q \in left : ShownRequest(q, Current)
  BY <1>3 DEF ShowInv
<1>5. Current = cfg /\ Current' = cfg'
  BY <1>2 DEF Current
<1>6. \A t \in Tabs : ShownTab(tabs'[t], Current')
  BY <1>3, <1>5, StaleShows DEF ShowInv, PagesInv
<1>7. \A q \in requests' : ShownRequest(q, Current')
  BY <1>3, <1>4, <1>5, StaleAllShows
<1> QED BY <1>1, <1>2, <1>6, <1>7 DEF ShowInv

LEMMA StoreKeepsShown ==
  ASSUME PagesInv, ShowInv, SaveStep \/ PowerOn
  PROVE  ShowInv'
<1>1. CASE SaveStep
  <2>1. cfg \in Tables /\ cfg # NoTable /\ Plain(cfg)
    BY <1>1 DEF SaveStep, PagesInv, StoreFits, ShowInv
  <2>2. cfg' = cfg /\ Plain(durable')
    <3>1. CASE Store!BeginSave
      BY <3>1, OfferedAssumption DEF Store!BeginSave, Plain, Modes
    <3>2. CASE saving /\ durable' \in Cuts(cfg) /\ UNCHANGED <<cfg, saving>>
      BY <2>1, <3>2, PlainKept
    <3>3. CASE Store!EndSave
      BY <2>1, <3>3 DEF Store!EndSave
    <3> QED BY <1>1, <3>1, <3>2, <3>3 DEF SaveStep
  <2> QED BY <1>1, <2>1, <2>2 DEF ShowInv, Current, SaveStep
<1>2. CASE PowerOn
  BY <1>2 DEF PowerOn, Store!Open, ShowInv, Current, PagesInv, StoreFits
<1> QED BY <1>1, <1>2

LEMMA PowerCutKeepsShown ==
  ASSUME PagesInv, ShowInv, PowerCut
  PROVE  ShowInv'
<1>1. cfg \in Tables /\ cfg # NoTable /\ durable \in Tables
  BY DEF PowerCut, PagesInv, StoreFits
<1>2. cfg' = NoTable /\ Plain(durable')
  <2>1. CASE Store!Crash
    BY <2>1 DEF Store!Crash, ShowInv
  <2>2. CASE pc = "save" /\ ~saving /\ durable' \in Cuts(durable) /\ cfg' = NoTable /\ UNCHANGED saving
    BY <1>1, <2>2, PlainKept DEF ShowInv
  <2> QED BY <2>1, <2>2 DEF PowerCut
<1>3. Current = cfg /\ Current' = durable'
  BY <1>1, <1>2 DEF Current
<1>4. CASE durable' = cfg
  BY <1>2, <1>3, <1>4 DEF PowerCut, ShowInv
<1>5. CASE durable' # cfg
  <2>1. tabs' = Stale(tabs) /\ requests' = StaleAll(requests)
    BY <1>5 DEF PowerCut
  <2>2. \A t \in Tabs : ShownTab(tabs'[t], Current')
    BY <2>1, StaleShows DEF ShowInv, PagesInv
  <2>3. \A q \in requests' : ShownRequest(q, Current')
    BY <2>1, StaleAllShows DEF ShowInv
  <2> QED BY <1>2, <2>2, <2>3 DEF ShowInv
<1> QED BY <1>4, <1>5

LEMMA ShowInvStep == PagesInv /\ ShowInv /\ [Next]_vars => ShowInv'
<1> SUFFICES ASSUME PagesInv, ShowInv, [Next]_vars PROVE ShowInv'
  OBVIOUS
<1>1. ASSUME NEW t \in Tabs, NEW p \in Pages, Load(t, p) PROVE ShowInv'
  BY <1>1, LoadShows
<1>2. ASSUME NEW t \in Tabs, NEW i \in Slots, NEW v \in Choices(i), Edit(t, i, v) PROVE ShowInv'
  BY <1>2, EditKeepsShown
<1>3. ASSUME NEW t \in Tabs, Reset(t) PROVE ShowInv'
  BY <1>3, ResetKeepsShown
<1>4. ASSUME NEW t \in Tabs, Save(t) PROVE ShowInv'
  BY <1>4, SaveKeepsShown
<1>5. ASSUME NEW r \in requests, cgi_saveparams(r) PROVE ShowInv'
  BY <1>5, HandlerKeepsShown
<1>6. ASSUME NEW a \in answers, Answer(a) PROVE ShowInv'
  BY <1>6, AnswerKeepsShown
<1>7. CASE SaveStep \/ PowerOn
  BY <1>7, StoreKeepsShown
<1>8. CASE PowerCut
  BY <1>8, PowerCutKeepsShown
<1>9. CASE UNCHANGED vars
  BY <1>9 DEF vars, storeVars, ShowInv, Current
<1> QED BY <1>1, <1>2, <1>3, <1>4, <1>5, <1>6, <1>7, <1>8, <1>9 DEF Next

LEMMA ShowInvInit == Init => ShowInv
<1> SUFFICES ASSUME Init PROVE ShowInv
  OBVIOUS
<1>1. Plain(durable) /\ cfg = NoTable
  BY OfferedAssumption DEF Init, Plain, Modes
<1>2. \A t \in Tabs : ShownTab(tabs[t], Current)
  BY DEF Init, ShownTab
<1> QED BY <1>1, <1>2 DEF Init, ShowInv

(* Whatever was saved, cut or sent twice before: to save a page that nobody *)
(* touched, while the settings are as it shows them, changes nothing that a *)
(* page can show (mngr_httpd.c:756-890, mngr_usb.shtml:293-303, 357-372).   *)
THEOREM UntouchedPagesChangeNothing == Spec => SavesWhatItShows
<1> DEFINE A == \A r \in requests : cgi_saveparams(r) /\ r.fresh =>
                  \A i \in DOMAIN r.form :
                    CanShow(i, cfg[i]) =>
                      \/ cfg'[i] = cfg[i]
                      \/ i \in Layouts /\ cfg'[i] = Lower[cfg[i]]
                      \/ i = MODE /\ DOMAIN r.form = SettingsOf["native"]
<1>1. PagesInv /\ ShowInv => A
  <2> SUFFICES ASSUME PagesInv, ShowInv, NEW r \in requests, cgi_saveparams(r), r.fresh,
                      NEW i \in DOMAIN r.form, CanShow(i, cfg[i])
               PROVE  \/ cfg'[i] = cfg[i]
                      \/ i \in Layouts /\ cfg'[i] = Lower[cfg[i]]
                      \/ i = MODE /\ DOMAIN r.form = SettingsOf["native"]
    OBVIOUS
  <2>1. /\ cfg \in Tables /\ cfg # NoTable /\ Plain(cfg) /\ cfg' = With(cfg, r.form)
        /\ cfg[MOUSE_ORIGINAL] = "true" => cfg[JOYSTICK_USB_PORT] = "2"
    BY DEF cgi_saveparams, PagesInv, StoreFits, PortsDiffer, ShowInv
  <2>2. PICK p \in Pages : /\ r.form = Untouched(p, cfg)
                           /\ p \in {"usb", "bt"} => r.form[MODE] = ModeOn[p]
    BY <2>1 DEF ShowInv, ShownRequest, Current
  <2>3. DOMAIN r.form = SettingsOf[p]
    BY <2>2, SameSettings DEF Untouched, InitialState, buildPayload
  <2>4. i \in Slots /\ cfg'[i] = Converted(i, r.form[i])
    BY <2>1, <2>3, PageSettings DEF With
  <2> QED BY <2>1, <2>2, <2>3, <2>4, ShownIsSaved
<1>2. SavesWhatItShows <=> [][A]_vars
  BY DEF SavesWhatItShows
<1> HIDE DEF A
<1> QED BY <1>1, <1>2, PagesInvHolds, ShowInvInit, ShowInvStep, PTL DEF Spec
=============================================================================
