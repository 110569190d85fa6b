----------------------------- MODULE ConfigStore -----------------------------
(***************************************************************************)
(* What the settings store (booster/src/settings/settings.c) promises to   *)
(* the rest of the firmware, without pages, erases or a loader: a table in *)
(* use (cfg), the table the next start would read (durable), and whether a *)
(* save is under way.  A completed save makes durable equal to cfg.  While *)
(* a save is under way, or when the power goes in the middle of its erase, *)
(* durable degrades in one way only: an initial run of the entries is kept *)
(* and every later entry falls back to its default.  Values of an older    *)
(* table and of a newer one are never mixed, and nothing but a save or an  *)
(* erase touches durable.                                                  *)
(***************************************************************************)
EXTENDS Integers

CONSTANTS
  NumEntries,   \* entries of the table, MAGICVERSION included
  Values,       \* what an entry may hold
  Defaults,     \* the default table
  NoTable       \* no table is loaded

VARIABLES
  cfg,          \* the table in use, or NoTable
  durable,      \* the table the next start would read
  saving        \* a save is under way

vars == <<cfg, durable, saving>>

Slots == 0 .. NumEntries - 1

(* The tables that keep an initial run of t's entries and default the rest: *)
(* once one entry differs from t, it and all later ones are defaults.       *)
Shortened(t) ==
  {d \in [Slots -> Values] :
     \A i \in Slots : d[i] # t[i] => \A j \in i .. NumEntries - 1 : d[j] = Defaults[j]}

Init ==
  /\ cfg = NoTable
  /\ durable \in [Slots -> Values]
  /\ saving = FALSE

Open ==
  /\ cfg = NoTable
  /\ cfg' = durable
  /\ UNCHANGED <<durable, saving>>

Put ==
  /\ cfg # NoTable
  /\ ~saving
  /\ \E i \in Slots, v \in Values : cfg' = [cfg EXCEPT ![i] = v]
  /\ UNCHANGED <<durable, saving>>

BeginSave ==
  /\ cfg # NoTable
  /\ ~saving
  /\ saving' = TRUE
  /\ durable' = Defaults
  /\ UNCHANGED cfg

ContinueSave ==
  /\ saving
  /\ durable' \in Shortened(cfg)
  /\ UNCHANGED <<cfg, saving>>

EndSave ==
  /\ saving
  /\ saving' = FALSE
  /\ durable' = cfg
  /\ UNCHANGED cfg

Close ==
  /\ ~saving
  /\ cfg' = NoTable
  /\ UNCHANGED <<durable, saving>>

Erase ==
  /\ ~saving
  /\ cfg' = NoTable
  /\ durable' = Defaults
  /\ UNCHANGED saving

Crash ==
  /\ cfg' = NoTable
  /\ saving' = FALSE
  /\ UNCHANGED durable

CrashInErase ==
  /\ ~saving
  /\ cfg' = NoTable
  /\ durable' \in Shortened(durable)
  /\ UNCHANGED saving

Next ==
  \/ Open \/ Put \/ BeginSave \/ ContinueSave \/ EndSave
  \/ Close \/ Erase \/ Crash \/ CrashInErase

Spec == Init /\ [][Next]_vars
=============================================================================
