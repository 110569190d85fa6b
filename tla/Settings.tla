------------------------------- MODULE Settings -------------------------------
(***************************************************************************)
(* The settings store: booster/src/settings/settings.c.  A table of        *)
(* entries (key, type, value) lives in RAM; settings_save erases one flash *)
(* sector and programs the table into it page by page; settings_init loads *)
(* the defaults, checks the magic stored in entry 0 and copies entries     *)
(* from flash until the first one whose key or type is not valid.          *)
(*                                                                         *)
(* The power may go at any step.  Interrupts are off during a save, so no  *)
(* other code runs between its erase and its last page: what a cut leaves  *)
(* is the only thing that can come between.  A cut is taken to leave every *)
(* page either as it was or erased (0xFF); a page is identified by the     *)
(* table it holds its slice of.                                            *)
(***************************************************************************)
EXTENDS Integers

CONSTANTS
  NumEntries,   \* configData.count: the defaults plus MAGICVERSION
  KeyLen,       \* strlen of the key of each entry
  KeyMax,       \* SETTINGS_MAX_KEY_LENGTH
  TypeSize,     \* sizeof(SettingsDataType)
  ValueMax,     \* SETTINGS_MAX_VALUE_LENGTH
  PageSize,     \* bytes programmed at a time
  Pages,        \* pages of the sector (flashSettingsSize / PageSize)
  Values,       \* the type and value of an entry, taken together
  Defaults,     \* the default table, MAGICVERSION first
  Puts,         \* the <<entry, value>> pairs callers put
  CutErases,    \* the sets of pages an interrupted erase may leave intact
  NoTable,      \* configData.entries == NULL
  Erased,       \* a page of 0xFF bytes
  Torn          \* a value only part of which is in flash

VARIABLES
  ram,          \* configData.entries
  flash,        \* the sector: what each page holds
  cursor        \* pages programmed by the save under way; Pages when idle

vars == <<ram, flash, cursor>>

Slots == 0 .. NumEntries - 1
PageIds == 0 .. Pages - 1
Magic == Defaults[0]

(* Tables the program can hold: MAGICVERSION is entry 0 and no caller puts it. *)
Tables == {t \in [Slots -> Values] : t[0] = Magic}

(* Where entry i lies in the sector: SettingsConfigEntry is packed. *)
EntrySize == KeyMax + TypeSize + ValueMax
KeyAt(i) == i * EntrySize
TypeAt(i) == KeyAt(i) + KeyMax
ValueAt(i) == TypeAt(i) + TypeSize
PageOf(byte) == byte \div PageSize

-----------------------------------------------------------------------------
(* Reading the sector back: settingsLoadAllEntries. *)

Programmed(f, first, last) ==
  \A p \in PageOf(first) .. PageOf(last) : f[p] # Erased

(* An erased byte is 0xFF: neither a key character nor the final NUL. *)
checkKeyFormat(f, i) == Programmed(f, KeyAt(i), KeyAt(i) + KeyLen[i])

(* Faulty variant: the loader does not look at the type. *)
checkTypeFormat_Dropped(f, i) == TRUE

(* An erased type byte is 255, none of the three types. *)
checkTypeFormat(f, i) == Programmed(f, TypeAt(i), ValueAt(i) - 1)

ReadValue(f, i) ==
  LET head == f[PageOf(ValueAt(i))]
      tail == f[PageOf(KeyAt(i + 1) - 1)]
  IN  IF head # Erased /\ tail # Erased /\ head[i] = tail[i] THEN head[i] ELSE Torn

MagicFound(f) == ReadValue(f, 0) = Magic

(* Faulty variant: the loop skips an invalid entry and goes on. *)
Reached_Skipping(f, i) == checkKeyFormat(f, i) /\ checkTypeFormat(f, i)

(* The loop has not stopped before entry i, nor at it. *)
Reached(f, i) == \A j \in 0 .. i : checkKeyFormat(f, j) /\ checkTypeFormat(f, j)

(* Faulty variant: the defaults are not loaded first. *)
Load_NoDefaults(f) ==
  [i \in Slots |-> IF MagicFound(f) /\ Reached(f, i) THEN ReadValue(f, i) ELSE Torn]

(* The table a start reads: entries copied over the defaults. *)
Load(f) ==
  [i \in Slots |-> IF MagicFound(f) /\ Reached(f, i) THEN ReadValue(f, i) ELSE Defaults[i]]

-----------------------------------------------------------------------------
Blank == [p \in PageIds |-> Erased]
Full(t) == [p \in PageIds |-> t]
Idle == cursor = Pages
Fits == NumEntries * EntrySize <= Pages * PageSize

(* A sector never written, or one holding a table saved before. *)
Init ==
  /\ ram = NoTable
  /\ flash \in {Blank, Full(Defaults)} \cup {Full([Defaults EXCEPT ![w[1]] = w[2]]) : w \in Puts}
  /\ cursor = Pages

settings_init ==
  /\ ram = NoTable
  /\ ram' = Load(flash)
  /\ UNCHANGED <<flash, cursor>>

(* settings_put_string, _integer and _bool: all update an entry in RAM. *)
settings_put(i, v) ==
  /\ ram # NoTable
  /\ Idle
  /\ ram' = [ram EXCEPT ![i] = v]
  /\ UNCHANGED <<flash, cursor>>

(* Faulty variant: the erase is left out. *)
settings_save_NoErase ==
  /\ ram # NoTable
  /\ Idle
  /\ Fits
  /\ cursor' = 0
  /\ UNCHANGED <<ram, flash>>

(* settings_save up to the end of flash_range_erase. *)
settings_save ==
  /\ ram # NoTable
  /\ Idle
  /\ Fits
  /\ flash' = Blank
  /\ cursor' = 0
  /\ UNCHANGED ram

(* flash_range_program writes the buffer one page after the other. *)
ProgramPage ==
  /\ cursor < Pages
  /\ flash' = [flash EXCEPT ![cursor] = ram]
  /\ cursor' = cursor + 1
  /\ UNCHANGED ram

settings_deinit ==
  /\ Idle
  /\ ram' = NoTable
  /\ UNCHANGED <<flash, cursor>>

settings_erase ==
  /\ Idle
  /\ flash' = Blank
  /\ ram' = NoTable
  /\ UNCHANGED cursor

(* The power goes: the table is lost and a save stops where it is. *)
PowerLoss ==
  /\ ram' = NoTable
  /\ cursor' = Pages
  /\ UNCHANGED flash

(* The power goes during flash_range_erase. *)
PowerLossInErase ==
  /\ ram # NoTable
  /\ Idle
  /\ \E kept \in CutErases : flash' = [p \in PageIds |-> IF p \in kept THEN flash[p] ELSE Erased]
  /\ ram' = NoTable
  /\ UNCHANGED cursor

Next ==
  \/ settings_init
  \/ \E w \in Puts : settings_put(w[1], w[2])
  \/ settings_save
  \/ ProgramPage
  \/ settings_deinit
  \/ settings_erase
  \/ PowerLoss
  \/ PowerLossInErase

Spec == Init /\ [][Next]_vars
-----------------------------------------------------------------------------
(* Assumptions on the constants; BoosterProofs shows that the firmware's    *)
(* own numbers satisfy the layout one.                                      *)

ASSUME SizeAssumption ==
  /\ NumEntries \in Nat \ {0}
  /\ KeyMax \in Nat \ {0} /\ TypeSize \in Nat \ {0} /\ ValueMax \in Nat \ {0}
  /\ PageSize \in Nat \ {0} /\ Pages \in Nat \ {0}
  /\ KeyLen \in [Slots -> 1 .. KeyMax - 1]
  /\ Fits

(* No page boundary falls between the type of an entry and the end of its value. *)
ASSUME LayoutAssumption == \A i \in Slots : PageOf(TypeAt(i)) = PageOf(KeyAt(i + 1) - 1)

ASSUME ValueAssumption ==
  /\ Torn \notin Values
  /\ Defaults \in [Slots -> Values]
  /\ Puts \subseteq (Slots \ {0}) \X Values
  /\ NoTable \notin [Slots -> Values \cup {Torn}]
  /\ Erased \notin [Slots -> Values]
  /\ CutErases \subseteq SUBSET PageIds

-----------------------------------------------------------------------------
TypeOK ==
  /\ ram \in Tables \cup {NoTable}
  /\ flash \in [PageIds -> Tables \cup {Erased}]
  /\ cursor \in 0 .. Pages

(***************************************************************************)
(* Whatever step of whatever save the power cut, no entry a start would    *)
(* read is half-programmed: a value is either one the program put, whole,  *)
(* or a default (settings.c:156-191).  It holds by an accident of numbers: *)
(* 127-byte entries on 256-byte pages put every page boundary inside a key *)
(* or at a type byte, and there the key and type checks stop the loader.   *)
(***************************************************************************)
NoTornValue == \A i \in Slots : Load(flash)[i] # Torn

(***************************************************************************)
(* The sector never holds pages of two different tables (settings.c:307:   *)
(* the whole sector is erased before the first page is programmed), and    *)
(* the pages of the save under way are the first `cursor` of them.         *)
(***************************************************************************)
OneTable ==
  /\ \A p, q \in PageIds : flash[p] # Erased /\ flash[q] # Erased => flash[p] = flash[q]
  /\ ~Idle => /\ ram # NoTable
              /\ \A p \in PageIds : flash[p] = IF p < cursor THEN ram ELSE Erased

(* The store keeps the promises of ConfigStore: durable is what a start    *)
(* would load now (settings_init, settings_save, settings.c:102-317).      *)
Store == INSTANCE ConfigStore
           WITH cfg <- ram, durable <- Load(flash), saving <- ~Idle
ImplementsConfigStore == Store!Spec
=============================================================================
