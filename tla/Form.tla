---------------------------------- MODULE Form ----------------------------------
(***************************************************************************)
(* A form's way from the request to the settings: cgi_saveparams of        *)
(* booster/src/mngr_httpd.c, which decodes the parameter json, parses it   *)
(* (CJson) and puts its items one by one.  It runs to its end inside one   *)
(* callback, so nothing comes between; what may go wrong is the text, and  *)
(* every allocation.  ram and flash are the table as Settings keeps it: a  *)
(* put changes a key of the table and nothing else, and the save writes    *)
(* the whole table.                                                        *)
(*                                                                         *)
(* What a text ought to mean is said below without the parser: which spans *)
(* of it are JSON values, and which strings stand where.                   *)
(***************************************************************************)
EXTENDS CJson, CJsonString

CONSTANTS
  Texts,       \* the texts a request may carry
  Keys,        \* the keys of the table
  Mode,        \* PARAM_MODE
  KbLayout,    \* PARAM_USB_KB_LAYOUT
  Folded,      \* tolower of each string
  LowerCopy,   \* to_lowercase_copy of each string into the 16 bytes of lower_buf
  Atoi,        \* atoi of each string, printed again
  BeginsYT,    \* the strings that begin with Y, y, T or t
  Default,     \* the table in flash before the request
  Held         \* the tables RAM may hold then: the one in flash, or what
               \* forms refused before have left there

VARIABLES
  item,             \* the item of the form the loop has come to
  requested_mode,
  valid_json,
  ram, flash,
  before,           \* history: the table in RAM when the request came
  message,          \* what get_status_message allocated, NULL or the block
  response_status

formVars == <<item, requested_mode, valid_json, ram, flash, before, message, response_status>>
vars == <<text, parserVars, pc, formVars>>

Block == 1
NoMode == "none"
Types == {"string", "int", "bool"}
-----------------------------------------------------------------------------
Init ==
  /\ text = <<>> /\ at = 1 /\ depth = 0 /\ stack = <<>>
  /\ nodes = <<>> /\ strings = <<>> /\ root = NULL /\ starved = FALSE
  /\ pc = "idle"
  /\ item = NULL /\ requested_mode = NoMode /\ valid_json = TRUE
  /\ ram \in Held /\ before = ram /\ flash = Default
  /\ message = NULL /\ response_status = "none"

(* The parameter json is there and decodes. *)
Receive ==
  /\ pc = "idle"
  /\ text' \in Texts
  /\ pc' = "parse"
  /\ UNCHANGED <<parserVars, formVars>>

(* No json, a percent sign before what is no hex number, or too long. *)
ReceiveNone ==
  /\ pc = "idle"
  /\ response_status' = "bad request" /\ pc' = "answered"
  /\ UNCHANGED <<text, parserVars, item, requested_mode, valid_json, ram, flash, before, message>>

(* Not base64: the error's text is allocated, if it can be, and printed. *)
ReceiveBad ==
  /\ pc = "idle"
  /\ message' \in {NULL, Block}
  /\ response_status' = "bad request" /\ pc' = "answered"
  /\ UNCHANGED <<text, parserVars, item, requested_mode, valid_json, ram, flash, before>>

NotJson ==
  /\ pc = "parsed" /\ root = NULL
  /\ valid_json' = FALSE
  /\ response_status' = "bad request" /\ pc' = "answered"
  /\ UNCHANGED <<text, parserVars, item, requested_mode, ram, flash, before, message>>

(* cJSON_ArrayForEach: the children of the root, whatever the root is. *)
FirstItem ==
  /\ pc = "parsed" /\ root # NULL
  /\ item' = nodes[root].child
  /\ pc' = "items"
  /\ UNCHANGED <<text, parserVars, requested_mode, valid_json, ram, flash, before, message, response_status>>
-----------------------------------------------------------------------------
(* The children of an item from the first on, as its next pointers go. *)
Children(n) ==
  LET after == [m \in DOMAIN nodes \cup {NULL} |-> IF m = NULL THEN NULL ELSE nodes[m].next]
      child[k \in 1 .. Cardinality(DOMAIN nodes)] == IF k = 1 THEN nodes[n].child ELSE after[child[k - 1]]
  IN  [k \in {j \in DOMAIN child : child[j] # NULL} |-> child[k]]

(* cJSON_GetObjectItem: the first child of that name, in upper or lower     *)
(* case; items of an array have no name.                                    *)
GetObjectItem(n, name) ==
  LET named == {k \in DOMAIN Children(n) :
                  LET s == nodes[Children(n)[k]].string
                  IN  s # NULL /\ Folded[strings[s]] = name}
  IN  IF named = {} THEN NULL ELSE Children(n)[Min(named)]

IsString(n) == n # NULL /\ nodes[n].type = "string"
StringAt(n) == strings[nodes[n].valuestring]

(* The table with a key put to a value; only keys it has. *)
Put(table, key, value) == IF key \in DOMAIN table THEN [table EXCEPT ![key] = value] ELSE table

(* What an item of a type puts in the table: a boolean is true if it begins *)
(* with Y or T, and a keyboard layout is cut and goes to lower case.        *)
Converted(name, type, value) ==
  CASE type = "string" -> IF Folded[name] = Folded[KbLayout] THEN LowerCopy[value] ELSE value
    [] type = "int" -> Atoi[value]
    [] type = "bool" -> IF value \in BeginsYT THEN "true" ELSE "false"

IsMode(name) == Folded[name] = Folded[Mode]

PutItem ==
  LET name == GetObjectItem(item, "name")
      type == GetObjectItem(item, "type")
      value == GetObjectItem(item, "value")
      kind == Folded[StringAt(type)]
  IN  IF IsString(name) /\ IsString(type) /\ IsString(value) /\ kind \in Types
      THEN /\ ram' = Put(ram, StringAt(name), Converted(StringAt(name), kind, StringAt(value)))
           /\ requested_mode' = IF kind = "int" /\ IsMode(StringAt(name))
                                THEN Atoi[StringAt(value)] ELSE requested_mode
           /\ UNCHANGED <<valid_json, response_status>>
      ELSE /\ valid_json' = FALSE /\ response_status' = "bad request"
           /\ UNCHANGED <<ram, requested_mode>>

(* Faulty variant: the loop does not go on after an item it refuses. *)
NextOfForm_Stays ==
  /\ pc = "items" /\ item # NULL
  /\ PutItem
  /\ item' = IF valid_json' THEN nodes[item].next ELSE item
  /\ UNCHANGED <<text, parserVars, pc, flash, before, message>>

NextOfForm ==
  /\ pc = "items" /\ item # NULL
  /\ PutItem
  /\ item' = nodes[item].next
  /\ UNCHANGED <<text, parserVars, pc, flash, before, message>>

(* Faulty variant: the table is saved though an item was refused. *)
SavedAs_Always(table) == flash' = table /\ response_status' = "ok"

SavedAs(table) ==
  IF valid_json THEN flash' = table /\ response_status' = "ok"
  ELSE UNCHANGED <<flash, response_status>>

(* The tree is freed; a form without a bad item is saved, its mode last.    *)
EndOfForm ==
  /\ pc = "items" /\ item = NULL
  /\ cJSON_Delete(root)
  /\ root' = NULL
  /\ ram' = IF valid_json /\ requested_mode \in {"1", "2"} THEN Put(ram, Mode, requested_mode) ELSE ram
  /\ SavedAs(ram')
  /\ pc' = "answered"
  /\ UNCHANGED <<text, at, depth, stack, starved, item, requested_mode, valid_json, before, message>>

Handle == NotJson \/ FirstItem \/ NextOfForm \/ EndOfForm

ParseStep == Parse /\ UNCHANGED formVars

Next == Receive \/ ReceiveNone \/ ReceiveBad \/ ParseStep \/ Handle

Spec == Init /\ [][Next]_vars

(* The handler is a sequential program in a callback. *)
FairSpec == Spec /\ WF_vars(ParseStep \/ Handle)
-----------------------------------------------------------------------------
(* What a text means.  A span is a value of at most d open lists if it is   *)
(* one scalar or string, or brackets around such values of one list less    *)
(* with commas between, each after a name and a colon in an object.         *)

Spans(t) == {span \in (DOMAIN t) \X (DOMAIN t) : span[1] <= span[2]}

FirstAfter(places, p) == Min({q \in places : q > p})

(* Nothing between two brackets, or some of the elements and commas between. *)
Between(t, open, close, elements) ==
  \/ close = open + 1
  \/ \E commas \in SUBSET {p \in open + 1 .. close - 1 : t[p] = ","} :
       \A p \in commas \cup {open} :
         <<p + 1, FirstAfter(commas \cup {close}, p) - 1>> \in elements

Scalars(t) == {<<i, i>> : i \in {p \in DOMAIN t : t[p] \in Literals \cup {"number"} \cup Strings}}

NamedSpans(t, values) ==
  {span \in Spans(t) : /\ t[span[1]] \in Strings /\ span[1] + 2 <= span[2] /\ t[span[1] + 1] = ":"
                       /\ <<span[1] + 2, span[2]>> \in values}

Lists(t, values) ==
  LET members == NamedSpans(t, values)
  IN  {span \in Spans(t) :
         \/ t[span[1]] = "[" /\ t[span[2]] = "]" /\ Between(t, span[1], span[2], values)
         \/ t[span[1]] = "{" /\ t[span[2]] = "}" /\ Between(t, span[1], span[2], members)}

Values(t) ==
  LET upTo[d \in 0 .. NestingLimit] ==
        IF d = 0 THEN Scalars(t) ELSE LET inner == upTo[d - 1] IN inner \cup Lists(t, inner)
  IN  upTo[NestingLimit]

Start(t) == IF t # <<>> /\ t[1] = "bom" THEN 2 ELSE 1
ReadsAsJson(t) == \E j \in DOMAIN t : <<Start(t), j>> \in Values(t)

(* How many lists are open before a place, and where the root's items are.  *)
Level(p) ==
  Cardinality({q \in 1 .. p - 1 : text[q] \in Opening})
    - Cardinality({q \in 1 .. p - 1 : text[q] \in {"]", "}"}})
ItemPlaces ==
  LET lead == IF text[Start(text)] = "[" THEN {"[", ","} ELSE {":"}
  IN  {p \in Start(text) + 1 .. at - 1 : text[p - 1] \in lead /\ text[p] # "]" /\ Level(p) = 1}

(* The string of the first member of a name, of the item at a place. *)
MemberPlaces(p, name) ==
  {q \in p + 1 .. at - 2 : /\ text[q + 1] = ":" /\ text[q] \in Strings /\ Folded[text[q]] = name
                           /\ Level(q) = 2 /\ \A r \in p + 1 .. q : Level(r) >= 2}
HasString(p, name) ==
  text[p] = "{" /\ MemberPlaces(p, name) # {} /\ text[Min(MemberPlaces(p, name)) + 2] \in Strings
StringIn(p, name) == text[Min(MemberPlaces(p, name)) + 2]

IsSetting(p) ==
  /\ HasString(p, "name") /\ HasString(p, "type") /\ HasString(p, "value")
  /\ Folded[StringIn(p, "type")] \in Types

(* The last word of a text's settings on a key, or what the key held. *)
LastWord(key) ==
  LET under == {p \in ItemPlaces : IsSetting(p) /\ StringIn(p, "name") = key}
      last == Max(under)
  IN  IF under = {} THEN before[key]
      ELSE Converted(key, Folded[StringIn(last, "type")], StringIn(last, "value"))

(* What a text of settings asks for: a mode of 1 or 2 counts last. *)
Asked(key) ==
  LET modes == {p \in ItemPlaces : /\ Folded[StringIn(p, "name")] = Folded[Mode]
                                   /\ Folded[StringIn(p, "type")] = "int"}
      mode == Atoi[StringIn(Max(modes), "value")]
  IN  IF key = Mode /\ modes # {} /\ mode \in {"1", "2"} THEN mode ELSE LastWord(key)
-----------------------------------------------------------------------------
(* What a text may hold besides strings, and what follows it. *)
Marks == Literals \cup BadStrings \cup Opening \cup {"number", "-", "]", "}", ",", ":", "bom", "end"}

ASSUME FormAssumption ==
  /\ NestingLimit \in Nat \ {0}
  /\ Mode \in Keys /\ KbLayout \in Keys
  /\ Strings \cap Marks = {}
  /\ Texts \subseteq Seq(Strings \cup Marks)
  /\ Folded \in [Strings \cup {Mode, KbLayout} -> STRING]
  /\ LowerCopy \in [Strings -> STRING]
  /\ Atoi \in [Strings -> STRING]
  /\ BeginsYT \subseteq Strings
  /\ \A table \in {Default} \cup Held : DOMAIN table = Keys

(* Type correctness. *)
FormTypeOK ==
  /\ text \in Texts \cup {<<>>} /\ at \in 1 .. Len(text) + 1 /\ depth \in 0 .. NestingLimit
  /\ \A n \in DOMAIN nodes : DOMAIN nodes[n] = DOMAIN Zeroed
  /\ \A s \in DOMAIN strings : strings[s] \in Strings
  /\ DOMAIN ram = Keys /\ DOMAIN flash = Keys /\ DOMAIN before = Keys
  /\ message \in {NULL, Block} /\ valid_json \in BOOLEAN /\ starved \in BOOLEAN
  /\ response_status \in {"none", "ok", "bad request"}

(* No item points to what is not allocated, no string belongs to two items, *)
(* and everything in the heap can be reached from the root or from the head *)
(* of an open list: whatever fails then, cJSON_Delete frees all of it.      *)
(* When the request is answered nothing is left, but for the text of a      *)
(* base64 error, which nobody frees (cJSON.c:254-278, 1547-1553, 1728-1734, *)
(* mngr_httpd.c:291-294, 372).                                              *)
AllOwned ==
  LET starts == {root} \cup {stack[k].head : k \in DOMAIN stack}
      owned == UNION {Reached(nodes, n) : n \in starts}
  IN  /\ owned = DOMAIN nodes
      /\ StringsOf(DOMAIN nodes) \ {NULL} = DOMAIN strings
      /\ \A m, n \in DOMAIN nodes : m # n => StringsOf({m}) \cap StringsOf({n}) \subseteq {NULL}
      /\ \A n \in DOMAIN nodes :
           {nodes[n].next, nodes[n].prev, nodes[n].child} \subseteq DOMAIN nodes \cup {NULL}
      /\ pc = "answered" => nodes = <<>> /\ (message # NULL => text = <<>>)

(* The tokens an item was made from. *)
Printed(n) ==
  LET list(k) == Children(k)
      print[d \in 0 .. NestingLimit] ==
        [k \in DOMAIN nodes |->
           IF nodes[k].type \notin Opening
           THEN IF nodes[k].type = "string" THEN <<StringAt(k)>> ELSE <<nodes[k].type>>
           ELSE IF d = 0 THEN <<>>
           ELSE LET inner == print[d - 1]
                    elements == [c \in DOMAIN list(k) |->
                       (IF c = 1 THEN <<>> ELSE <<",">>)
                       \o (IF nodes[k].type = "[" THEN <<>> ELSE <<strings[nodes[list(k)[c]].string], ":">>)
                       \o inner[list(k)[c]]]
                IN  <<nodes[k].type>> \o FlattenSeq(elements) \o <<ClosingOf(nodes[k].type)>>]
  IN  print[NestingLimit][n]

(* With memory, a text is parsed if it begins with a value that is not too  *)
(* deep, and only then; what follows the value does not count.  The tree    *)
(* says what the text said, in its order, and its lists can be walked from  *)
(* the last item to the first (cJSON.c:1111-1194, 1342-1396, 1500-1545,     *)
(* 1661-1726).                                                              *)
ParsesJson ==
  pc = "parsed" =>
    /\ root # NULL <=> ~starved /\ ReadsAsJson(text)
    /\ root # NULL =>
         /\ Printed(root) = SubSeq(text, Start(text), at - 1)
         /\ \A n \in DOMAIN nodes : LET list == Children(n) IN
              \A k \in DOMAIN list :
                nodes[list[k]].prev = list[IF k = 1 THEN Len(list) ELSE k - 1]

(* Whatever string parse_string comes to, its output never outgrows its     *)
(* allocation, even if an escape turns out bad; it is read to its own       *)
(* closing quote and means what JSON says, surrogate pairs included.  Two   *)
(* things are accepted beyond JSON: a \u without four hex digits, which     *)
(* counts as U+0000, and control characters as they are (cJSON.c:634-666,   *)
(* 671-770, 803-898).                                                       *)
DecodesJson == pc \in {"value", "name"} => EachFits /\ EachDecodes

(* A form is saved if and only if each item of its text is a setting; flash *)
(* then holds what the text asks for, the last word on each key and a mode  *)
(* of 1 or 2 whatever follows it, and else what RAM held, be it left there  *)
(* by a form that was refused.  A form that is refused changes nothing in   *)
(* flash, and in RAM what its good items say, which the next save will      *)
(* write; a text that is no JSON changes neither (mngr_httpd.c:294-386).    *)
SavedAsAsked ==
  pc = "answered" =>
    LET reads == ~starved /\ ReadsAsJson(text)
    IN  IF reads /\ \A p \in ItemPlaces : IsSetting(p)
        THEN response_status = "ok" /\ ram = flash /\ \A key \in Keys : flash[key] = Asked(key)
        ELSE /\ response_status = "bad request" /\ flash = Default
             /\ \A key \in Keys : ram[key] = IF reads THEN LastWord(key) ELSE before[key]

(* Every request is answered, whatever its text (cJSON.c:1496-1526).        *)
Answered == pc = "parse" ~> pc = "answered"
=============================================================================
