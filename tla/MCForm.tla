--------------------------------- MODULE MCForm ---------------------------------
(* The texts: every sequence of up to four of eight tokens; longer ones of    *)
(* brackets, to the limit of nesting and beyond; and forms.  A form is an    *)
(* item of every name, type and value, or two items, or one whose members    *)
(* are in another order, doubled or missing, or an object in place of the    *)
(* array; and one form with each token replaced by each other or left out.   *)
EXTENDS Form

MCStrings ==
  {"name", "Type", "value", "MODE", "mode", "USB_KB_LAYOUT", "HOSTNAME", "X",
   "STRING", "INT", "bool", "1", "7x", "Yep", "ES_LATIN_AMERICAN"}
MCKeys == {"MODE", "USB_KB_LAYOUT", "HOSTNAME"}
MCFolded ==
  [s \in MCStrings |->
     CASE s = "Type" -> "type" [] s = "MODE" -> "mode" [] s = "USB_KB_LAYOUT" -> "usb_kb_layout"
       [] s = "HOSTNAME" -> "hostname" [] s = "X" -> "x" [] s = "STRING" -> "string"
       [] s = "INT" -> "int" [] s = "Yep" -> "yep"
       [] s = "ES_LATIN_AMERICAN" -> "es_latin_american" [] OTHER -> s]
MCAtoi == [s \in MCStrings |-> CASE s = "1" -> "1" [] s = "7x" -> "7" [] OTHER -> "0"]
MCLowerCopy == [MCFolded EXCEPT !["ES_LATIN_AMERICAN"] = "es_latin_americ"]
MCBeginsYT == {"Yep", "Type"}
MCDefault == [k \in MCKeys |-> "default"]

(* A refused form may have left a name or a mode. *)
MCHeld == {MCDefault, [MCDefault EXCEPT !["MODE"] = "7", !["HOSTNAME"] = "Yep"]}

Upto(n, alphabet) == UNION {[1 .. m -> alphabet] : m \in 0 .. n}
Alphabet == {"[", "]", "{", "}", ",", ":", "name", "number"}

Member(k, v) == <<k, ":", v>>
Object(members) ==
  <<"{">> \o FlattenSeq([m \in DOMAIN members |->
               IF m = 1 THEN members[m] ELSE <<",">> \o members[m]]) \o <<"}">>
Array(items) ==
  <<"[">> \o FlattenSeq([m \in DOMAIN items |->
               IF m = 1 THEN items[m] ELSE <<",">> \o items[m]]) \o <<"]">>
Setting(n, t, v) == Object(<<Member("name", n), Member("Type", t), Member("value", v)>>)

Settings ==
  {Setting(n, t, v) : n \in {"MODE", "mode", "USB_KB_LAYOUT", "HOSTNAME", "X"},
                      t \in {"STRING", "INT", "bool", "X"}, v \in {"1", "7x", "Yep", "ES_LATIN_AMERICAN"}}
Pairs ==
  {Setting(n, t, v) : n \in {"MODE", "mode"}, t \in {"STRING", "INT"}, v \in {"1", "7x"}}
    \cup {Setting("HOSTNAME", t, "Yep") : t \in {"STRING", "X"}} \cup {<<"number">>, <<"[", "]">>}

Base == Array(<<Setting("MODE", "INT", "1")>>)
Replaced == {[Base EXCEPT ![k] = x] : k \in DOMAIN Base, x \in Alphabet \cup {"bad string", "open string"}}
Dropped == {SubSeq(Base, 1, k - 1) \o SubSeq(Base, k + 1, Len(Base)) : k \in DOMAIN Base}
Members == {Member("name", "MODE"), Member("Type", "INT"), Member("value", "1")}

MCTexts ==
  Upto(4, Alphabet)
    \cup [1 .. 5 -> {"[", "]", ",", "number"}] \cup [1 .. 6 -> {"[", "]"}]
    \cup {<<"bom", "number">>, <<"-">>, <<"[", "-", "]">>, <<"true", "bom">>, <<"bom">>, <<"null", "false">>}
    \cup {<<"{", "name", ":">> \o s \o <<"}", "}">> : s \in Upto(3, {"[", "]", "{", "}", "number"})}
    \cup {Array(<<s>>) : s \in Settings} \cup {Array(<<s, t>>) : s, t \in Pairs}
    \cup {Array(<<Object(m)>>) : m \in [1 .. 4 -> Members] \cup [1 .. 3 -> Members]}
    \cup {Object(<<<<"X", ":">> \o s>>) : s \in Pairs}
    \cup Replaced \cup Dropped

(* The characters of strings: up to five of six, and escapes of UTF-16, at  *)
(* the bounds of the lengths and of the halves of a pair, alone, in pairs   *)
(* and broken off; and control characters and the first that is none, as    *)
(* they are, behind a backslash and beside a broken \u.                     *)
Characters == {Quote, Backslash, Letters.u, Letters.n, 48, 120}
Hex(h) == <<Backslash, Letters.u>> \o h
Hexes == {<<48, 48, 55, 70>>, <<48, 48, 56, 48>>, <<48, 55, 70, 102>>, <<48, 56, 48, 48>>,
          <<68, 55, 102, 102>>, <<68, 56, 48, 48>>, <<100, 98, 70, 70>>, <<68, 67, 48, 48>>,
          <<68, 70, 70, 70>>, <<69, 48, 48, 48>>, <<48, 48, 48, 120>>, <<48, 48, Backslash, Quote>>,
          <<48, 48, 48, Backslash>>}
MCRaws ==
  Upto(5, Characters)
    \cup {Hex(h) \o c : h \in Hexes, c \in Upto(3, {Quote, Backslash, Letters.u})}
    \cup {Hex(h) \o Hex(g) \o <<Quote>> : h, g \in Hexes}
    \cup {c \o <<Quote>> : c \in Upto(4, {1, 10, 31, 32, 255, Backslash, Letters.n})}
    \cup {Hex(h) \o c \o <<Quote>> : h \in Hexes, c \in Upto(2, {10, 31, Letters.u})}
=============================================================================
