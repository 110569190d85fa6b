# The Booster in TLA+

A model of the Booster firmware of this repository: the configuration program of
a Raspberry Pi Pico W that plays an Atari ST's keyboard processor. The Booster
starts when the settings ask for it, serves a web page over Wi-Fi (its own
access point or a network it joins), lets the user change settings and pair
Bluetooth devices, and hands the board back to the emulator at the next start.
Everything it is for depends on what is in flash after somebody pulled the plug.

Line numbers are those of this repository; `PROJECT.json` maps every definition
to its lines.

## 1. Inventory

| Component | State | Operations | Spoken to by | Hard behaviour |
|---|---|---|---|---|
| Settings store (`settings/settings.c`) | table in RAM, one flash sector | init/load, put, save, deinit, erase | everything | a power cut at any byte of an erase or a program; what the loader makes of the rest |
| Global configuration (`gconfig.c`) | default table of 25 entries | `gconfig_init` | main | first start on a blank sector |
| Boot and manager (`main.c`, `mngr.c`) | program point, retries, LED | load, boot feature, `mngr_init`, `mngr_loop` | calls settings, network, httpd | four saves in one start, each of which may be cut; falling back |
| Access point (`network.c:440-620`) | settings it fills in; SSID, password, auth on the air | `network_wifiInit` | mngr | RAM, flash and air agree only by the order of puts and saves |
| Station (`network.c:281-352, 700-1030`) | `connectionStatus`, deadline, join target | `network_wifiStaConnect`, status callback | mngr; driver interrupt | stale status, deadline against a late answer, retries, BSSID then SSID |
| DHCP server (`dhcpserver/dhcpserver.c`) | leases (MAC, 16-bit expiry), socket | discover, request | clients, by UDP | concurrent clients, loss and repetition, a clock that wraps |
| Bluetooth (`btloop.c`) | 16-device scan list, `btloop_active`, keys in the stack, names in the settings | enable, disable, discovered, ready, clear | stack callbacks, CGI handlers | two stores changed one after the other, power cuts between |
| Web server handlers (`mngr_httpd.c`) | shared status, message, JSON payload | eight CGI handlers, SSI tags | lwIP httpd callbacks | answers shared between connections; forms refused half way |
| JSON parser (`cjson/cJSON.c`) | a tree in the heap | parse, look up, delete | `cgi_saveparams` | an allocation that fails anywhere, nesting, escapes sized before they are read |
| Web pages (`fs/*.shtml`) | widgets, `initialState` | fill in, show, check, send, take the answer | the browser | pages of any age, requests twice or never, answers late |
| UF2 tools (`*.py`), linker scripts | files, address ranges | merge, filter, validate | the build | ranges and off-by-ones, an update that clears settings |
| Placeholder, `fsdata_srv.c`, library configuration | none of their own | | | stand-in, generated, constants |

How they run: the build is `pico_cyw43_arch_lwip_threadsafe_background`
(`booster/src/CMakeLists.txt:198`). Callbacks of lwIP, the Wi-Fi driver and the
Bluetooth stack run one at a time in a low-priority interrupt and pre-empt
`main`; none pre-empts another. `main` is done with the settings before
`mngr_httpd_start`, and from then on only callbacks use them. `settings_save`
turns interrupts off. So the interleavings that exist are: driver callbacks
against the connection loop (StaConnect), DHCP messages against each other
(DhcpServer), callbacks and handlers in any order (Pairing), pages of several
connections sent piece by piece between handlers (Web), pages loaded at one time
and saved at another (Pages), and the power against everything (Settings,
Booster, Pairing, Pages). A form is parsed inside one callback, where only
allocations can go wrong (Form).

What makes each component correct:

- *settings*: a start reads whole values of one table; what is lost is a suffix;
  nothing else ever changes what a start reads.
- *boot*: the machine comes back to the emulator after one visit; every start
  ends in a web server; nothing joins a network with mixed credentials.
- *access point*: what is served, what is stored and what the next start
  announces agree.
- *station*: success means there was an address; falling back means there was
  none; the loop ends.
- *DHCP*: no address twice, no lease forgotten while in use, no client with two,
  everyone served.
- *Bluetooth*: a key and its name come and go together, cuts included.
- *web server*: an answer is about the request it answers, whole, and an OK
  means that what was sent is in flash.
- *JSON and forms*: exactly the JSON texts are parsed, into the tree they mean;
  nothing is used after it was freed, nothing is kept; what is saved is what the
  items of the form ask for.
- *web pages*: saving what a page shows changes nothing; the port of the joystick
  and that of the mouse differ, which only a script takes care of.
- *UF2 tools*: an image is the programs' own bytes, with zeros where the tool promises
  them and nowhere else, and an update keeps the settings.

## 2. Modules

```
Uf2 <-- EXTENDS -- Install      <-- EXTENDS --.
                      | EXTENDS               |
ConfigStore <-- refines -- Settings        BoosterProofs
     ^                | EXTENDS               |
     |             Booster      <-- EXTENDS --'
     | INSTANCE
  Pairing, Pages
  PairingProofs, PagesProofs         DhcpServer, DhcpServerProofs
                                     StaConnect, StaConnectProofs
CJson, CJsonString <-- EXTENDS -- Form <-- FormProofs <-- JsonProofs
                                     Web, WebProofs
```

| Module | Models | State and actions against the code |
|---|---|---|
| `ConfigStore` | the promise of the store | `cfg` is the table in RAM, `durable` what a start would read, `saving` a save under way. `Shortened(t)`: an initial run of t, then defaults |
| `Settings` | `settings.c` | `ram`, `flash` (what each 256-byte page holds a slice of), `cursor` (pages programmed). One action per function; `settings_save` is the erase, `ProgramPage` each page of `flash_range_program`, `PowerLoss`, `PowerLossInErase`. `Load` is the loader with its magic, key and type checks worked out from byte positions |
| `Booster` | `main`, `mngr_init`, `network_wifiInit`, a form that is saved and one that is refused | extends `Settings`; `pc` names the point reached, every point that saves is followed by `StartSave` and the pages; `AfterSave` is where each caller goes on. `unsaved` and `strays` are history: what refused forms have left in RAM, and what of it a later save has taken to flash |
| `StaConnect` | attempts to join | `pc` walks through `network_wifiStaConnect`; driver and DHCP client actions interleave at every point; time is counted in turns of the loop |
| `DhcpServer` | the DHCP server | one action per message kind and outcome; requests and replies on the air are lost, late or repeated; a client may join again at any time and ask for an address it remembers. `asked` is history: what each asked for that way |
| `Pairing` | keys and names | callbacks and handlers, cut in steps where keys and names are changed; the settings through `ConfigStore` |
| `Web` | the web server's answers and the list of devices found | one action per CGI handler and per Bluetooth callback; `Send` is `ssi_handler` on one tag of a page. Texts are their length and who wrote them; `told` is what a browser has received |
| `CJson` | `cJSON_Parse` and `cJSON_Delete` | a text is a sequence of tokens (`at` is the offset, `depth` the nesting count). The C stack of `parse_value`, `parse_array` and `parse_object` is `stack`: the head, the last item and the kind of each open list. `nodes` and `strings` are the heap; every allocation may fail, and each failure unwinds as the code's `fail:` labels do |
| `CJsonString` | `parse_string`, `parse_hex4`, `utf16_literal_to_utf8` | operators on character codes: how large a buffer is asked for, what is written in it |
| `Form` | `cgi_saveparams` from the decoded parameter to the save | `Receive*` are the ways a request comes in, `NotJson`, `FirstItem`, `NextOfForm`, `EndOfForm` the handler. `Held` is what RAM may hold when the request comes, `before` what it did hold |
| `Pages` | the scripts of the four settings pages, the tags that fill them, `cgi_saveparams` | `Load` is a page loaded into a tab, `Edit`, `Reset`, `Save` what the user does; `requests` and `answers` are under way; `cgi_saveparams` puts a whole form, `SaveStep` is the save it ends with, through `ConfigStore`; `fresh`, `saved` and `raced` are history |
| `Uf2` | `build_uf2.py`, `merge_uf2.py` | one operator per function, on sequences of blocks |
| `Install` | the images the tools make, copied to the board | extends `Settings`: `Copy` writes an image, or its first blocks, between two starts |
| `MC*` | instances for TLC | values only |
| `*Proofs` | theorems | section 5; `BoosterProofs` has those of `Settings`, `Install` and `Booster`, `FormProofs` and `JsonProofs` those of `Form` with `CJson` and `CJsonString` |

Because `Settings` implements `ConfigStore` (checked and proved), `Pairing` and
`Pages` may use the small module and still cover every cut of a save. `Pages`
takes the cuts that keep the first n entries, for every n, which TLC enumerates
more quickly than `Shortened`; `CutsAreShortened` shows that they are within the
promise, and with n the first entry that differs there are no others.

## 3. Runs

| Run | Instance | Shows |
|---|---|---|
| `settings` | the firmware's own layout: 26 entries of 127 bytes, real key lengths, 16 pages; puts on entries 1, 10 and 25; four shapes of a cut erase; and six pairs of files for the UF2 tools on a flash of 53 bytes in blocks of two, copied whole or broken off after 1 or 22 blocks (13,738 states) | `NoTornValue`, `OneTable`, `ImplementsConfigStore`; `ImageIsWhole`, `KeptOrCleared` |
| `booster` | the first 11 entries at their own places, six pages, three retries, six forms, two that are refused, two stored countries, any number of cuts (44,965 states) | `BootFeatureSticks`, `StaCredentialsTogether`, `ServedTableIsDurable`, `SameApNextTime`, `Booted` |
| `dhcp` | two clients, three leases, one of them remembered, a clock of 12 ticks in units of 3, a lease of 2 (3,762,600 states, clients symmetric) | `Exclusive`, `BoundIsRecorded`, `NoHoarding` |
| `dhcp_live` | the same without time; a lease and an address out of range remembered (8,563 states) | `EveryoneServed` |
| `merge_doc` | as `settings`, one pair of files with a gap between them and a hole in one | violation of `MergedAsDocumented` |
| `sta` | three attempts of six turns, the driver asked every two (54,378 states) | `OkHadAddress`, `GivesUpOnlyWhenDown`, `Decided` |
| `sta_ok` | the same | violation of `OkMeansConnected` |
| `pairing` | a keyboard, a keyboard-and-mouse, a gamepad, power cuts (78,823 states) | `KeysAreNamed`, `NamesHaveKeys` |
| `pairing_stop` | the same without cuts | violation of `StopStops` |
| `web` | two connections, two devices of two lengths, a payload of 8 characters in parts of 3 (167,936 states) | `OwnAnswer`, `CutOnlyIfTooLong`, `OkIsSaved`, `ReadsInside`, `AnswersEnd` |
| `form` | every sequence of up to four of eight tokens, longer ones of brackets beyond the nesting limit of 2, and about 500 forms: every name, type and value, two items, members in another order, doubled or missing, a form with each token replaced or left out; each on the stored table and on one that a refused form has changed; 10,000 strings of characters (183,284 states) | `AllOwned`, `ParsesJson`, `SavedAsAsked`, `DecodesJson`, `Answered` |
| `pages` | two tabs, four pages, one or two values of each setting, three stored tables, five actions of the user and the power (622,591 states, tabs symmetric) | `PortsDiffer`, `ResetIsSaved`, `SavesWhatItShows` |

Each run also checks its module's type invariant.

Why the bounds are enough:

- *Layout.* Nothing is scaled in `settings`: the positions of entries and pages
  are the firmware's, since the property turns on them. Entry 10 (MODE) is the
  one with a page boundary behind the text of its key, where only the type check
  stops the loader; 1 lies inside a page, 25 is the last. For the other entries
  there is the theorem.
- *Cut erases.* A cut erase may leave any set of pages: the proofs take any
  subset; TLC takes a prefix, everything, all but the first page, and a gap.
- *Booster.* Eleven entries hold every setting the start uses. The forms are two
  networks, one the page refuses, one access point with everything to fill in, one with
  a long password and OPEN, and one form without Wi-Fi entries. Two forms the handler
  refuses leave part of another form in RAM, once the name of a network alone and once
  the mode with the hostname; they come in any number, before and between saves.
- *DHCP.* Two clients, a lease for each and one more that they remember are the least
  for a race, and for a client that takes a second lease while the other is served.
  The clock is short enough to wrap many times within a session, and
  the assumption the real numbers satisfy (`TimeAssumption`) is kept.
- *Station.* Three attempts is the code's number; a timeout of three intervals
  lets a status be read, become stale and be read again within one attempt.
- *Pairing.* Two devices compete for one entry, one device has two entries, one
  stands apart.
- *Web.* Two connections are what it takes to overtake. The lengths are such that
  a list ends short of the payload's end, where only one of the two closing
  characters fits, exactly at the end and beyond it, and that a payload is one
  part, several whole parts, or ends inside one. A third device can only come
  after the loop has stopped or the list has overflowed.

- *Images.* The addresses keep the order of the real ones; the ends are chosen so
  that the gap and the flash end inside a block. The files have a gap, touch, end in
  a short block, reach the erase region and the settings sector, hold a block only
  one of the tools takes for one and a block beyond the flash, or are in the wrong
  order. `merge_doc` takes a pair with a hole.
- *Form.* Two levels are what a form needs (an array of objects; its strings are on the
  second), and the texts of brackets go one beyond. The limit of the code is 1000. The
  words begin with y and t in both cases where the code looks at the first letter only,
  and one layout is longer than the 15 characters the code compares. Strings hold
  control characters, 1 and 31 among them, beside 32 and 255. `ParsesJson` and
  `SavedAsAsked` compare with a definition of JSON by spans of the text, which knows
  nothing of the parser.
- *Pages.* A stale page needs a load, a load, an edit and two saves: five actions. Every
  setting, page and type of widget is there; the values are those on which the
  conversions differ (upper case, a space at the end, a quote, no option for it).

Fairness. `Booster` and `StaConnect` assume weak fairness of the program's own
steps only: it is one sequential program, flash operations and `sleep_ms`
return, and nothing is asked of the user, the driver or the network, nor of a form that
is refused. The result
of each blocking call is free. `DhcpServer` assumes that a client keeps trying,
that nothing stays on the air for ever, and strong fairness for serving and
receiving each kind of message: a radio that loses every message of one kind for
ever cannot be served through. `TimePasses = FALSE` there keeps a lease from
running out between its grant and its receipt for ever. `Web` assumes weak
fairness of sending, per connection: lwIP's poll and sent callbacks take up a page
that waits for memory; handlers and browsers owe nothing. `Form` assumes weak
fairness of the handler's own steps, which run in one callback to their end; nobody
has to send a form. `Pages` and `Install` assume none: a request that is lost is one
that never comes.

`sta`, `form` and `pages` set `CHECK_DEADLOCK FALSE`: the models end where the web
server starts, where the answer is given, and where the actions are used up.

## 4. What the violation runs show

- `merge_doc` (docstring): `merge_uf2.py` promises an image of every block from
  0x10000000 to 0x101E0000 (`:14-18, 27`). The code fills to `FLASH_END_ADDR`, which is
  0x10200000 (`:41`) and inclusive, so that the last block is of one byte, one beyond the
  "2 MB" of `:170`; and a hole inside one of the programs stays a hole (`:178`), since only
  what lies before, between and behind the two is filled. Either breaks the property by
  itself. `ImageIsWhole`, of the run `settings`, is what the code does do.
- `sta_ok` (code): `connectionStatus` survives from one attempt to the next. An
  address that comes just after a deadline makes the following attempt return OK
  at once, though the link may be down by then, and the fallback to the access
  point does not happen (`network.c:909`).
- `pairing_stop` (code): stopping clears a flag that gates nothing in this build.

Found while reading and modelling, and not in a run:

- The page promises another access point than the one the code sets up: the
  board's id is appended to the hostname `croissant` only (`network.c:504`), eight
  characters of the password are used (`:515`), and OPEN becomes WPA2 (`:531`); see
  `mngr_wifi.shtml:166-168, 202, 213`.
- Pairing a second device of a kind drops the first from the list of "Current
  pairings" (`mngr_btpair.shtml:74`) and keeps its key; no Unpair button deletes that
  (`btloop.c:73`).
- A select that has no option for the stored value shows nothing and sends an empty
  value, which `atoi` stores as 0. A password is stored as it was typed
  (`mngr_wifi.shtml:300`) and read back without the spaces at its ends (`:249`). A
  quote in a stored text ends the literal it stands in, and the page's script does
  not run. `CanShow` excepts these three from `SavesWhatItShows`.
- The native page sends 255 for every mode that is not native. The USB and native
  pages leave `initialState` as it was loaded after a save; `mngr_bt.shtml:369`
  takes what the widgets say when the answer comes, which `ResetIsSaved` excepts.
- The first lease should disable the DHCP server (`dhcpserver.c:378`); the test before
  it looks at `options[2]`, a byte of the magic cookie, and never holds (`:377`). In effect
  the server works for everyone, which is what `EveryoneServed` needs: mending the test
  alone would shut out the second client.
- The server grants a free address without looking whether the client has another
  (`dhcpserver.c:244-263`): one that joins again with an address it remembers takes a
  second lease, and the first is lost to the others until it runs out. `NoHoarding`
  excepts what a client `asked` for that way.
- `parse_string` takes control characters as they are (`cJSON.c:842-845`), which JSON
  forbids, and a `\u` without four hexadecimal digits.
- The Booster's flash region ends 8 KB inside `CONFIG_FLASH`
  (`memmap_booster.ld:27, 34`).

## 5. Proofs

All theorems hold for every value of the constants within the named assumptions.

- **Settings** (`BoosterProofs`, first part). Assumptions: sizes are positive and the table
  fits (`SizeAssumption`), no page boundary lies between an entry's type and the
  end of its value (`LayoutAssumption`), sentinels differ from data
  (`ValueAssumption`). `FirmwareLayout` proves the layout assumption for the
  firmware's numbers; it is where the accident of 127-byte entries on 256-byte
  pages is written down. The inductive invariant is `TypeOK /\ OneTable`:
  a sector holds slices of one table, and during a save the first `cursor` pages
  of the table in RAM; without the second half nothing could be said of what a
  cut leaves. From it: what `Load` returns for such a sector is `Shortened` of
  its table (lemmas `LoadShortened`, `LoadFull`), hence `NeverTorn` and
  `Refinement`.
- **Install** (`BoosterProofs`, second part). For any two files, blocks of any length
  in any order, and any flash within `InstallAssumption` and `FilesAssumption` (a file
  is a sequence of blocks, none of them zeros when it comes from the linker).
  `ImagesAreWhole` works out what each tool's image is, a selection of the files'
  blocks (`Selected`) between runs of zero blocks, and what bytes those cover: for a
  merged image the bytes of both programs, those between the two, and those behind up
  to `FLASH_END_ADDR`, no more and no fewer. That the greatest end exists is the lemma
  `Greatest`. For `UpdateKeepsSettings` no block of an
  update comes near the sector, while a zero block of the other images covers its first
  byte or its last. A merged image of programs that reach beyond the settings may have
  a hole of the files over the sector, and then leaves the settings as they are: the
  property excepts such files. The docstring of `merge_uf2.py` does not, which is the
  violation of `MergedAsDocumented`. A copy is an erase of the store
  or nothing to it, so that `InstallKeepsStore` and `InstallRefinement` follow from the
  proofs of the store.
- **Booster** (`BoosterProofs`). `FInv` adds to the store's invariant that the
  table in RAM and the one a start would read hold Wi-Fi credentials of one form,
  that IKBD is in both from the save on, and which mode the table has at the
  points of the access-point path. Shortening keeps both facts: the mode comes
  after the credentials in the table and its default is the access point
  (`ShortenedKeeps`). This is the argument for why losing a suffix is harmless,
  and it breaks if `WIFI_MODE` is moved before the other entries. `Together(t, but)` is
  the property of a table but for some entries: of the table in flash
  but for the `strays`, of the one in RAM but for `unsaved`, too. A form that is saved hands on what it does not overwrite from the one set to the other
  (`FormKeeps`), a refused one adds its own items (`RefusedKeeps`), and the sets may grow
  (`LessTogether`).
- **The served Booster** (`BoosterProofs`, last part). `DurableInv` follows one start:
  which points of `mngr_init` have the same table in RAM and in flash, which have it but
  for the country, or while serving for what is `unsaved`, and that the access point on
  the air is the one the table in RAM asks for. A put leaves such a point, the end of
  the save reaches the next one (`SaveEnds`). `CountryAssumption` says what makes the
  country harmless: a code that `getCountryCode` gives is one it knows, and no page has
  a field for it. `FilledOnce` is why the next start has nothing left to fill in.
- **StaConnect** (`StaConnectProofs`). `SInv`: any copy of the status that says
  "address" was made after an address had been given. `UpInv`, for
  `GivesUpOnlyWhenDown`, bounds for how long the link may have been up unseen: since
  the last look at the driver, and since the attempt began where there was none yet.
  `StaAssumption` asks that the timeout leaves room for one look (`Timeout >
  CheckEvery + 1`; 30 s against 1 s in the code).
- **DHCP** (`DhcpServerProofs`). The arithmetic comes first: `Remains` of a lease just
  granted lies between the lease time and half the clock (`RemainsOfNew`), falls by
  one a tick and so stays positive as long as the client counts (`LeasesCount`), though
  the end of a lease is kept in units and the clock wraps. `TimeAssumption` asks that
  lease and unit together are less than half the clock, and `FirmwareTimes` shows it of the
  firmware's numbers. `OneEach` bounds what is on the air: a request or an offer is
  for the lease its client has, if it has one, or for one it `asked` for; without it a
  late offer could make two. `NobodyTakesTwo` then holds for any remembered addresses,
  joined with as often as one likes.
- **Pairing** (`PairingProofs`). `PInv` states, for each point of a handler,
  which devices may have a key without a name, or the reverse.
- **Web** (`WebProofs`), all of its safety. The list of devices first: `UpTo` goes along
  the loop that adds up the entries, and shows that the loop, which counts an entry
  that does not fit with its full length, stops where the whole list would not have
  fitted (`CutOnlyWhenTooLong`), and that what it leaves is within the payload
  (`WebTypeCorrect`, `NeverReadsBeyond`). `PayloadSize > 2` in `WebAssumption` is for the
  two characters an empty list takes; the code has 1024. `OwnInv` says what a page that
  is not overtaken has been told so far: the first `part` parts of its payload
  (`PartIs`), and no byte twice. `WInv`: while a page is not overtaken, an OK that it is
  about to repeat, or has repeated, is true of what its connection put in RAM.
- **Form** (`FormProofs`). What an item's pointers reach is the least set that holds the
  item and is closed under them (`ReachedIs`); everything said of the heap rests on that
  and never on how the set is found. `FormInv`: the regions that hang from the root and
  from the heads of the open lists are apart and together are the heap, and each open
  list ends in its last item (`Hung`); each string belongs to one item (`Owned`); the
  item that is filled in has no child and no value yet, nor a name before one was read
  (`ListsOpen`), which is why an assignment to it loses nothing; there is no tree
  outside the parser (`Outside`). TLC checked `FormInv` on the run `form` before it was
  proved. The steps that are hard are those where regions meet: a list that is closed
  joins that of the list around it, and a failure makes every head a child again.
  `EverythingIsOwned` follows, for any set of texts and any pattern of failed
  allocations.
- **Strings** (`FormProofs`, second part). `NeverOutgrows`: for any string of bytes
  (`RawsAssumption`) the buffer of `parse_string` is large enough. The two passes over the
  text are functions defined by recursion from the end (`Backwards` shows that they
  exist). The budget of a place (`IsBudget`) is the number of characters up to
  the quote, less the backslashes the first pass counted from there, or from the next
  place where the second pass has come out of step with the first, as it does after a
  `\u` with an escape in its digits. A character takes one byte of the budget and an
  escape of two at most one (`BudgetOfOne`, `BudgetOfTwo`); six characters leave three and
  twelve six (`BudgetOfSix`), which is enough for any UTF-8.
  `StringsMeanJson` adds that what is decoded is what JSON says. `Readings` goes through the
  text from its front and by what may end at a character, the code from its back and by
  what may begin there; `Agrees` is where they meet: if there is a reading of the first
  k characters, the first pass comes to the next one, and the second has written that
  reading so far. Hence one reading at most, one closing quote, and the same codes
  (`AllAgree`). Conversely, from a place that can be read to, a piece that the code
  accepts is one of JSON's unless it is a broken `\u` or a control character
  (`TakenEnds`), so that the quote can be read to (`AcceptedIsRead`): all that is accepted
  beyond JSON has one of the two.
- **The tree** (`FormProofs`, last part, and `JsonProofs`, first part), for `ParsesJson`.
  Nothing in the state says which part of the text an item stands for once its list is
  open, so the invariant claims that there are such things (`IsGhost`): the items of each
  list in their order, the places where an item's value begins and ends, the lists it is
  in. `Tree` says that the pointers are those of that order (`Row`, `Parted`), that an
  item that is complete stands on a value of the text of no more lists than are left to
  open (`Complete`), and that the items of an open list stand one behind the other, with
  their names and commas, up to `at` (`FrameIs`, `Stands`). Each step of the parser
  extends the four functions at one item and is proved to make a tree of a tree
  (`TreeParse`); the step that matters is the one that closes a list, where the commas
  between its items are the cuts that `Lists` asks for (`BetweenIs`, `CutGrows`).
  `ReadInv` is the converse, that the parser gives up on no JSON: if the text has a
  value at its start, each open list can be closed (`ListsOneEnd`: a value has one end,
  so what the parser took for an item is what the value has there), and every way to
  fail contradicts what must stand at `at` (`ValueThere`, `ReadFails`). `Values` and
  `Printed` are functions on the depth of nesting: `ValuesExist` and `PrintIs` show that
  they exist, and an induction up to the nesting limit, over the items of each list in
  turn, that an item prints to the tokens between its two places (`TreePrints`).
- **What a form saves** (`JsonProofs`), for `SavedAsAsked`. The handler looks at the tree;
  the specification never does: it counts brackets. The level of a place is what has been
  opened less what has been closed before it (`LevelIs`). Over an item that is complete
  the level comes back to where it was and is higher inside (`TreeShut`), so that all
  items of a list stand at one level and no other place of that level is led to by a
  bracket, a comma or a colon (`ListLevels`, `ItemPlacesAre`). Hence the root's children are
  `ItemPlaces` in their order (`ItemsOfForm`), and the first member of a name is the one
  `GetObjectItem` finds (`ObjectsAgree`), also when names are repeated; an array has no
  member in either (`OthersHaveNone`). `LoopInv` then goes along the children: after m of
  them, unless one was refused, each key has the value of the last of them with that name
  or the value it had in RAM `before`, and `requested_mode` that of the last of them about the mode
  (`PutLast`, `ModeLast`). The save then takes the whole table, what earlier refused forms
  have left included (`Held` is any set of tables), and a form that is refused leaves RAM
  with what its good items say and flash as it was.
- **Pages** (`PagesProofs`). `PagesInv`: each page and each request has a form of its
  page's settings, none with the original mouse and another port than 2
  (`applyStateTypes`, `FollowsFits`); the tables in RAM and in flash keep the rule,
  because a save puts both settings or neither (`WithTypes`) and a cut that keeps the
  mouse keeps the port, which comes first (`CutTypes`). The latter needs that the
  default mouse is not the original one: `Defaults[MOUSE_ORIGINAL] # "true"` in
  `PagesAssumption`, which a first attempt at the proof found missing. For
  `ResetIsSaved`: what is under way for a page that nobody edited meanwhile is what that
  page says. For `SavesWhatItShows` a second invariant, `ShowInv`: a page, or a form,
  that is fresh is what the script makes of the table in use, or of the one in flash
  while the power is off (`Current`). `Shows` is the tag and the script together, with
  the "0" that two pages' scripts put for an empty selection (`WhenEmpty`).
  `ShownIsSaved` takes each kind of setting from the table through tag, script, widget
  and form back into the table, and needs that the options of a select come through
  unchanged (`OfferedAssumption`).
- **Induction.** The library's induction theorems take an operator as a parameter, which
  the provers cannot instantiate; `UpTo` states induction along an interval over a set,
  from the well-foundedness of the numbers. `Recursion`, `Forwards` and `Backwards` use it
  to show that a function defined by recursion from either end exists, so that such a
  definition may be unfolded in a proof. The modules that need these lemmas begin with
  them.

Only model-checked: liveness (`Booted`, `Decided`, `EveryoneServed`, `AnswersEnd`,
`Answered`), which is beyond the prover, as is `ENABLED`, and the three violations. Every
invariant, action property and refinement that a passing run checks is a theorem.

## 6. Abstractions and what is left out

- A cut leaves each flash page as it was or blank. A page half programmed is not
  modelled; the magic, key and type checks cannot see one either.
- The 0xFF of an erased byte is neither a legal key character nor a legal type:
  that is what `checkKeyFormat` and `checkTypeFormat` do here. Values are
  indivisible and carry their type.
- A hostname that is `croissant` but for the case of its letters is not told apart,
  nor one too long for an SSID.
- Callers use the keys of the table, except that a form that names MAGICVERSION
  would change entry 0; the pages do not send it.
- Memory allocation succeeds and strings are short enough for their entry. The
  Wi-Fi chip may fail to come up each time it is started (`dark`: the Booster
  runs on without a network, since main ignores the result of `mngr_init`).
- DHCP: a client has one exchange in flight (an answer to an earlier one has
  another transaction id and counts as lost); a restart of the server takes the
  Wi-Fi link down, and clients ask again, as they may at any other time. The options of
  a reply are left out.
- StaConnect: the scan for a BSSID ends within its six seconds or fails; driver
  and DHCP client may do anything else at any time.
- Pairing: the Bluetooth stack keeps a key for a device from the moment it
  connects until it is deleted; devices that are connected stay so when their
  key is deleted. The allow list, which is only ever emptied, is not modelled.
- Web: `overtaken` marks a page during which another handler ran; what the browser
  is told then may be the other's, in part or whole, and is left free. That is how
  three statics serve eight connections. A list longer than the payload is cut and
  is then not valid JSON: sixteen devices all called "Unknown" are too many. A
  form that is refused leaves its good items in RAM, and the next save of any
  handler makes them durable: `OkIsSaved` says that an OK is true, `Form` and `Booster`
  what becomes of the rest. The status and
  message of a handler are at most a tag long; the power stays on; the SSI tags
  that only read a setting are left out.
- Form: white space is not a token, the text of a number and the error position are
  left out, and so is the allocator but for its failures. Decoding percent signs and
  base64 either succeeds or not. A string is indivisible in CJson; its characters are
  in CJsonString, where any bytes from 128 on are characters: neither the parser nor
  `DecodesJson` asks for valid UTF-8. Names are compared through `Folded`. The C stack of the
  model has no end: each level of nesting takes two frames, and on the board,
  whose stack lies in the 4 KB of SCRATCH_Y (`memmap_booster.ld:253-263`), a text would
  run over it long before the limit of 1000.
- Pages: each tab has one page; a browser that shows a page from its cache shows one
  loaded earlier, which `Load` covers. The power may go at any point; a user's actions and cuts
  are counted together.
- Install: the boot loader erases the sector a block falls in before it writes; flags,
  container and payload bytes are left out.

Not modelled:

- `fsdata_srv.c`, half of the source lines, is generated from `fs/`: a table of bytes.
- The rest of `cJSON.c`, which the firmware links but never calls: printing,
  adding, copying, comparing and shrinking trees, numbers' values.
- `network.c`: set-up and tear-down that nothing calls, the list of networks for the
  page, conversions of addresses to text; `dhcpserver.c`: writing options.
- The IKBD placeholder, which prints in a loop; the emulator itself is a submodule
  that is not in the repository.
- The constants that configure the SDK's libraries; `show_uf2.py`, which prints.

## 7. Plan

In this order:

1. Settings of an older or newer firmware: a stored table with other entries,
   the tail of the sector, the assertion at `settings.c:221`.
2. The memory a DHCP reply takes (`dhcpserver.c:340-385`).
3. `Web` over `ConfigStore`, so that a cut falls between a handler's put and its
   answer.
