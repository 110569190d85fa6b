--------------------------------- MODULE CJson ---------------------------------
(***************************************************************************)
(* The parser of booster/src/cjson/cJSON.c, as cJSON_Parse calls it.  A    *)
(* text is a sequence of tokens.  The parser builds its tree in the heap,  *)
(* item by item and string by string, and any of these allocations may     *)
(* fail.  The C stack of parse_value, parse_array and parse_object is the  *)
(* variable stack, one frame for each list that is open.                   *)
(*                                                                         *)
(* White space is not a token: it is skipped before every value, name and  *)
(* separator.  The terminating zero is part of the buffer (:1105), so that *)
(* every look at the next character finds one; the code's tests for the    *)
(* end of the buffer never hold.  The error position, which nobody reads,  *)
(* is left out.                                                            *)
(***************************************************************************)
EXTENDS Integers, Sequences, SequencesExt, FiniteSetsExt

CONSTANTS
  Strings,        \* the strings a text may hold
  NestingLimit    \* CJSON_NESTING_LIMIT

VARIABLES
  text,      \* the buffer, without its terminating zero
  at,        \* input_buffer->offset, in tokens
  depth,     \* input_buffer->depth
  stack,     \* head, current_item and kind of each open list
  nodes,     \* the items in the heap, by address
  strings,   \* the strings in the heap, by address
  root,      \* what cJSON_Parse returns
  starved,   \* history: an allocation failed
  pc

parserVars == <<at, depth, stack, nodes, strings, root, starved>>

NULL == 0

Opening == {"[", "{"}
ClosingOf(open) == IF open = "[" THEN "]" ELSE "}"
Literals == {"null", "false", "true"}

(* A string with a bad escape, and one without its closing quote. What the  *)
(* characters of a string mean is in CJsonString; a token here is the       *)
(* string they stand for.                                                   *)
BadStrings == {"bad string", "open string"}

Peek == IF at <= Len(text) THEN text[at] ELSE "end"

(* malloc: an address that is free, perhaps one that was given back. *)
Fresh(heap) == Min({a \in 1 .. Cardinality(DOMAIN heap) + 1 : a \notin DOMAIN heap})

Grown(heap, a, block) == [x \in DOMAIN heap \cup {a} |-> IF x = a THEN block ELSE heap[x]]

(* What memset leaves of a new item. *)
Zeroed ==
  [type |-> "invalid", next |-> NULL, prev |-> NULL, child |-> NULL,
   string |-> NULL, valuestring |-> NULL]

(* The item that is being filled in: the last of the innermost open list,   *)
(* and the item whose list that is.                                         *)
Item == IF stack = <<>> THEN root ELSE Last(stack).current
Owner == IF Len(stack) = 1 THEN root ELSE stack[Len(stack) - 1].current
-----------------------------------------------------------------------------
(* cJSON_Delete, from item on: its followers, and the children of each.     *)

Reached(heap, item) ==
  LET step[k \in 0 .. Cardinality(DOMAIN heap)] ==
        IF k = 0 THEN {item}
        ELSE UNION {{n, heap[n].next, heap[n].child} : n \in step[k - 1] \cap DOMAIN heap}
  IN  step[Cardinality(DOMAIN heap)] \cap DOMAIN heap

StringsOf(items) == {nodes[n].string : n \in items} \cup {nodes[n].valuestring : n \in items}

cJSON_Delete(item) ==
  /\ nodes' = [n \in DOMAIN nodes \ Reached(nodes, item) |-> nodes[n]]
  /\ strings' = [s \in DOMAIN strings \ StringsOf(Reached(nodes, item)) |-> strings[s]]
-----------------------------------------------------------------------------
(* The root item; the byte order mark is skipped at the beginning only. *)
cJSON_Parse ==
  /\ pc = "parse"
  /\ at' = IF text # <<>> /\ text[1] = "bom" THEN 2 ELSE 1
  /\ depth' = 0 /\ stack' = <<>>
  /\ \/ /\ root' = Fresh(nodes)
        /\ nodes' = Grown(nodes, Fresh(nodes), Zeroed)
        /\ starved' = FALSE
        /\ pc' = "value"
     \/ root' = NULL /\ starved' = TRUE /\ pc' = "parsed" /\ UNCHANGED nodes
  /\ UNCHANGED <<text, strings>>

(* An item with a string, in the field of its name or in that of its value. *)
Holding(n, field, s) ==
  IF field = "string" THEN [n EXCEPT !.type = "string", !.string = s]
  ELSE [n EXCEPT !.type = "string", !.valuestring = s]

(* parse_string: the string is allocated before its escapes are looked at,  *)
(* and freed again at a bad one.                                            *)
parse_string(field, then) ==
  \/ /\ Peek \in Strings
     /\ strings' = Grown(strings, Fresh(strings), Peek)
     /\ nodes' = [nodes EXCEPT ![Item] = Holding(@, field, Fresh(strings))]
     /\ at' = at + 1
     /\ pc' = then
     /\ UNCHANGED starved
  \/ /\ starved' = TRUE \/ (Peek \notin Strings /\ UNCHANGED starved)
     /\ pc' = "fail"
     /\ UNCHANGED <<at, nodes, strings>>

(* parse_value, by what comes next. *)
ParseLiteral ==
  /\ pc = "value" /\ Peek \in Literals
  /\ nodes' = [nodes EXCEPT ![Item].type = Peek]
  /\ at' = at + 1
  /\ pc' = "next"
  /\ UNCHANGED <<text, depth, stack, strings, root, starved>>

(* parse_number: a token is what strtod takes of the characters of numbers, *)
(* and a sign that it takes nothing of.                                     *)
ParseNumber ==
  /\ pc = "value" /\ Peek \in {"number", "-"}
  /\ IF Peek = "number"
     THEN nodes' = [nodes EXCEPT ![Item].type = Peek] /\ at' = at + 1 /\ pc' = "next"
     ELSE pc' = "fail" /\ UNCHANGED <<nodes, at>>
  /\ UNCHANGED <<text, depth, stack, strings, root, starved>>

ParseString ==
  /\ pc = "value" /\ Peek \in Strings \cup BadStrings
  /\ parse_string("valuestring", "next")
  /\ UNCHANGED <<text, depth, stack, root>>

(* Faulty variant: one list more than the limit. *)
TooDeep_OffByOne == depth > NestingLimit

(* A bracket too deep, and one that is not. *)
TooDeep == depth >= NestingLimit

OpenList ==
  /\ pc = "value" /\ Peek \in Opening
  /\ IF TooDeep
     THEN pc' = "fail" /\ UNCHANGED <<at, depth, stack>>
     ELSE /\ depth' = depth + 1
          /\ stack' = Append(stack, [head |-> NULL, current |-> NULL, open |-> Peek])
          /\ at' = at + 1
          /\ pc' = "first"
  /\ UNCHANGED <<text, nodes, strings, root, starved>>

NoValue ==
  /\ pc = "value" /\ Peek \notin Literals \cup {"number", "-"} \cup Strings \cup BadStrings \cup Opening
  /\ pc' = "fail"
  /\ UNCHANGED <<text, parserVars>>
-----------------------------------------------------------------------------
(* parse_array and parse_object. *)

(* Faulty variant: the item before it is not told. *)
Attached_Loose(n) == Grown(nodes, n, [Zeroed EXCEPT !.prev = Last(stack).current])

(* The new item n at the end of the innermost list. *)
Attached(n) ==
  LET last == Last(stack).current
      with == Grown(nodes, n, [Zeroed EXCEPT !.prev = last])
  IN  IF last = NULL THEN with ELSE [with EXCEPT ![last].next = n]

(* An item for what follows the bracket or a comma. *)
NextItem ==
  /\ stack # <<>>
  /\ \/ pc = "first" /\ Peek # ClosingOf(Last(stack).open) /\ at' = at
     \/ pc = "next" /\ Peek = "," /\ at' = at + 1
  /\ LET n == Fresh(nodes)
         frame == Last(stack)
     IN  \/ /\ nodes' = Attached(n)
            /\ stack' = [stack EXCEPT ![Len(stack)] =
                           [@ EXCEPT !.current = n, !.head = IF frame.head = NULL THEN n ELSE frame.head]]
            /\ pc' = IF frame.open = "[" THEN "value" ELSE "name"
            /\ UNCHANGED starved
         \/ pc' = "fail" /\ starved' = TRUE /\ UNCHANGED <<nodes, stack>>
  /\ UNCHANGED <<text, depth, strings, root>>

(* The name of a member, swapped from valuestring into string. *)
ParseName ==
  /\ pc = "name"
  /\ parse_string("string", "colon")
  /\ UNCHANGED <<text, depth, stack, root>>

ParseColon ==
  /\ pc = "colon"
  /\ IF Peek = ":" THEN at' = at + 1 /\ pc' = "value" ELSE pc' = "fail" /\ UNCHANGED at
  /\ UNCHANGED <<text, depth, stack, nodes, strings, root, starved>>

(* Faulty variant: the first item is not told of the last. *)
Closed_NoPrev == [nodes EXCEPT ![Owner].type = Last(stack).open, ![Owner].child = Last(stack).head]

(* The list becomes its owner's; the first item's prev is the last item. *)
Closed ==
  LET frame == Last(stack)
      owned == [nodes EXCEPT ![Owner].type = frame.open, ![Owner].child = frame.head]
  IN  IF frame.head = NULL THEN owned ELSE [owned EXCEPT ![frame.head].prev = frame.current]

CloseList ==
  /\ stack # <<>> /\ pc \in {"first", "next"} /\ Peek = ClosingOf(Last(stack).open)
  /\ nodes' = Closed
  /\ stack' = Front(stack)
  /\ depth' = depth - 1
  /\ at' = at + 1
  /\ pc' = "next"
  /\ UNCHANGED <<text, strings, root, starved>>

NoSeparator ==
  /\ stack # <<>> /\ pc = "next" /\ Peek \notin {",", ClosingOf(Last(stack).open)}
  /\ pc' = "fail"
  /\ UNCHANGED <<text, parserVars>>

(* A failure takes the open lists down one after the other, and the root    *)
(* last.                                                                    *)
Fail ==
  /\ pc = "fail"
  /\ IF stack # <<>>
     THEN cJSON_Delete(Last(stack).head) /\ stack' = Front(stack) /\ UNCHANGED <<root, pc>>
     ELSE cJSON_Delete(root) /\ root' = NULL /\ pc' = "parsed" /\ UNCHANGED stack
  /\ UNCHANGED <<text, at, depth, starved>>

(* The root's value is complete; what follows it is not looked at. *)
Succeed ==
  /\ pc = "next" /\ stack = <<>>
  /\ pc' = "parsed"
  /\ UNCHANGED <<text, parserVars>>

Parse ==
  \/ cJSON_Parse \/ ParseLiteral \/ ParseNumber \/ ParseString \/ OpenList \/ NoValue \/ NextItem
  \/ ParseName \/ ParseColon \/ CloseList \/ NoSeparator \/ Fail \/ Succeed
=============================================================================
