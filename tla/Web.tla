---------------------------------- MODULE Web ----------------------------------
(***************************************************************************)
(* The web server's handlers (booster/src/mngr_httpd.c) and the list of    *)
(* Bluetooth devices found (booster/src/btloop.c).  A CGI handler runs to  *)
(* its end inside a callback of the network stack and leaves its answer in *)
(* three statics, the status, the message and the JSON payload.  The page  *)
(* that reports them is sent piece by piece, and each piece is made when   *)
(* its turn comes: between two pieces, when the stack is short of memory,  *)
(* other connections' handlers and the Bluetooth callbacks run.            *)
(*                                                                         *)
(* An answer is known by the connection whose handler wrote it.  lwIP's    *)
(* httpd and Bluepad32 are external.  The power stays on; what it leaves   *)
(* of a save is the matter of Settings and Pairing.                        *)
(***************************************************************************)
EXTENDS Integers, Sequences

CONSTANTS
  Conns,         \* the connections that may be open at a time
  Nobody,        \* the writer of what no open connection asked for
  MaxDevices,    \* length of bt_devices
  PayloadSize,   \* sizeof httpd_json_payload
  Chunk,         \* chunk_size, the bytes of the payload in one part
  InsertSize,    \* LWIP_HTTPD_MAX_TAG_INSERT_LEN, the iInsertLen of ssi_handler
  HeadLen,       \* the length of {"devices":[
  TailLen,       \* the length of ]}
  EntryLens,     \* the lengths a device's own JSON may have
  PairingsLens   \* the lengths the answer of btpairings may have

VARIABLES
  unsaved,                  \* history: whose items are in RAM and not in flash
  bluetooth,                \* the stack: "off", "starting" or "on"
  bt_devices,               \* the devices found, by the length of their JSON
  response_status,          \* who wrote it and whether it is OK
  httpd_response_message,   \* who wrote it
  httpd_json_payload,       \* who wrote it, its strlen, the whole text's length
  page,          \* for each connection, the piece to be made next
  part,          \* next_tag_part
  told,          \* what its browser has: is it all its own?, an OK?, the payload's bytes
  due,           \* history: the bytes of payload its own handler left
  overtaken      \* history: another handler ran while the page was being sent

btVars == <<bluetooth, bt_devices>>
answerVars == <<response_status, httpd_response_message, httpd_json_payload>>
connVars == <<page, part, told, due, overtaken>>
vars == <<unsaved, btVars, answerVars, connVars>>

LastPart == -1   \* what next_tag_part says unless the handler sets it
Nothing == [own |-> TRUE, ok |-> FALSE, bytes |-> 0]

Min2(a, b) == IF a < b THEN a ELSE b
-----------------------------------------------------------------------------
(* Handlers.  Each ends by naming the page that reports its answer.  What a *)
(* connection's earlier request left counts as nobody's.                    *)

Sending(c) == page[c] \in {"status", "message", "json"}
Stale(x, c) == IF x = c THEN Nobody ELSE x

Opens(c, first, bytes) ==
  /\ page[c] = "none"
  /\ page' = [page EXCEPT ![c] = first]
  /\ part' = [part EXCEPT ![c] = 0]
  /\ told' = [told EXCEPT ![c] = Nothing]
  /\ due' = [due EXCEPT ![c] = bytes]
  /\ overtaken' = [d \in Conns |-> IF d = c THEN FALSE ELSE overtaken[d] \/ Sending(d)]

(* Faulty variant: a handler leaves the message of the one before. *)
Response_NoMessage(c, ok) ==
  /\ Opens(c, "status", 0)
  /\ response_status' = [by |-> c, ok |-> ok]
  /\ httpd_response_message' = Stale(httpd_response_message, c)
  /\ httpd_json_payload' = [httpd_json_payload EXCEPT !.by = Stale(@, c)]

(* "/response.shtml", on a status and a message of this handler's. *)
Response(c, ok) ==
  /\ Opens(c, "status", 0)
  /\ response_status' = [by |-> c, ok |-> ok]
  /\ httpd_response_message' = c
  /\ httpd_json_payload' = [httpd_json_payload EXCEPT !.by = Stale(@, c)]

(* "/json.shtml": the payload is the first len bytes of a text. *)
Json(c, len, text) ==
  /\ Opens(c, "json", len)
  /\ response_status' = [by |-> c, ok |-> TRUE]
  /\ httpd_response_message' = c
  /\ httpd_json_payload' = [by |-> c, len |-> len, text |-> text]

(* settings_save writes the whole table, whoever put what is in it. *)
Saved == unsaved' = {}
NotSaved(c) == unsaved' = {Stale(d, c) : d \in unsaved}

(* Faulty variant: an accepted form is not saved. *)
cgi_saveparams_NotSaved(c) ==
  /\ UNCHANGED btVars
  /\ \/ Response(c, FALSE) /\ NotSaved(c)
     \/ Response(c, FALSE) /\ unsaved' = unsaved \cup {c}
     \/ Response(c, TRUE) /\ unsaved' = unsaved \cup {c}

(* A form cannot be decoded; or its good items are put in RAM and a bad one *)
(* keeps the table from being saved; or all is put and saved.               *)
cgi_saveparams(c) ==
  /\ UNCHANGED btVars
  /\ \/ Response(c, FALSE) /\ NotSaved(c)
     \/ Response(c, FALSE) /\ unsaved' = unsaved \cup {c}
     \/ Response(c, TRUE) /\ Saved

(* The first start initialises the stack, which calls back when it is up. *)
cgi_btstart(c) ==
  /\ Response(c, TRUE)
  /\ bluetooth' = IF bluetooth = "off" THEN "starting" ELSE bluetooth
  /\ bt_devices' = <<>>
  /\ NotSaved(c)

cgi_btstop(c) == Response(c, TRUE) /\ NotSaved(c) /\ UNCHANGED btVars

cgi_btclean(c) ==
  /\ Response(c, TRUE)
  /\ bt_devices' = <<>>
  /\ Saved
  /\ UNCHANGED bluetooth

(* An unknown type is refused before anything is done; a known one clears   *)
(* the name of its pairing and saves.                                       *)
cgi_btunpair(c) ==
  /\ UNCHANGED btVars
  /\ \/ Response(c, FALSE) /\ NotSaved(c)
     \/ Response(c, TRUE) /\ Saved

cgi_btpairings(c) ==
  /\ \E len \in PairingsLens : Json(c, len, len)
  /\ NotSaved(c)
  /\ UNCHANGED btVars

(* An entry of the list, with a comma before it but for the first. *)
Entry(i) == bt_devices[i] + (IF i > 1 THEN 1 ELSE 0)

(* Where the loop of cgi_btlist is after each entry: one that does not fit  *)
(* counts with its full length, and nothing is tried once the payload is    *)
(* full.                                                                    *)
offset[i \in 0 .. Len(bt_devices)] ==
  IF i = 0 THEN HeadLen
  ELSE IF offset[i - 1] >= PayloadSize - 1 THEN offset[i - 1]
  ELSE offset[i - 1] + Entry(i)

Offset == offset[Len(bt_devices)]

(* Faulty variants: the closing characters are written only when both fit; *)
(* they are written whether or not they fit.                               *)
ListLen_TailOrNothing ==
  IF Offset + TailLen < PayloadSize THEN Offset + TailLen ELSE Min2(Offset, PayloadSize - 1)
ListLen_Overrun == IF Offset < PayloadSize - 1 THEN Offset + TailLen ELSE PayloadSize - 1

(* strlen of the list, closed where there is room for one character more. *)
ListLen == IF Offset < PayloadSize - 1 THEN Min2(Offset + TailLen, PayloadSize - 1) ELSE PayloadSize - 1

(* The length of the whole list, of which the payload is as much as fits. *)
whole[i \in 0 .. Len(bt_devices)] == IF i = 0 THEN HeadLen ELSE whole[i - 1] + Entry(i)
TextLen == whole[Len(bt_devices)] + TailLen

cgi_btlist(c) ==
  /\ Json(c, ListLen, TextLen)
  /\ NotSaved(c)
  /\ UNCHANGED btVars
-----------------------------------------------------------------------------
(* ssi_handler, on the tags of the two pages. *)

(* A piece by the connection's own handler, or by one that ran since. *)
Piece(c, by, ok, bytes) ==
  told' = [told EXCEPT ![c] = [own |-> @.own /\ by = c, ok |-> ok, bytes |-> @.bytes + bytes]]

SendStatus(c) ==
  /\ page[c] = "status"
  /\ Piece(c, response_status.by, response_status.ok, 0)
  /\ page' = [page EXCEPT ![c] = "message"]
  /\ UNCHANGED <<unsaved, btVars, answerVars, part, due, overtaken>>

SendMessage(c) ==
  /\ page[c] = "message"
  /\ Piece(c, httpd_response_message, told[c].ok, 0)
  /\ page' = [page EXCEPT ![c] = "sent"]
  /\ UNCHANGED <<unsaved, btVars, answerVars, part, due, overtaken>>

Remains(k) == httpd_json_payload.len - k * Chunk

(* Faulty variant: the offset is not compared with the end, and what        *)
(* remains, being unsigned, is then a large number.                         *)
PartLen_Unchecked(k) ==
  LET remain == IF Remains(k) < 0 THEN PayloadSize ELSE Remains(k)
  IN  Min2(Min2(remain, Chunk), InsertSize - 1)

(* The bytes of part k, none beyond the end. *)
PartLen(k) == IF Remains(k) <= 0 THEN 0 ELSE Min2(Min2(Remains(k), Chunk), InsertSize - 1)

(* Faulty variant: a part that finds nothing left asks for itself again. *)
NextPart_AskAgain(k) ==
  IF Remains(k) > PartLen(k) THEN k + 1 ELSE IF Remains(k) < 0 THEN k ELSE LastPart

NextPart(k) == IF Remains(k) > PartLen(k) THEN k + 1 ELSE LastPart

(* JSONPLD: one part of what the payload is now, and whether one follows. *)
SendPart(c) ==
  /\ page[c] = "json"
  /\ Piece(c, httpd_json_payload.by, FALSE, PartLen(part[c]))
  /\ LET next == NextPart(part[c])
     IN  IF next = LastPart
         THEN page' = [page EXCEPT ![c] = "sent"] /\ UNCHANGED part
         ELSE part' = [part EXCEPT ![c] = next] /\ UNCHANGED page
  /\ UNCHANGED <<unsaved, btVars, answerVars, due, overtaken>>

Send(c) == SendStatus(c) \/ SendMessage(c) \/ SendPart(c)

(* The connection is closed, by the server when all is sent or before by    *)
(* the browser.                                                             *)
Close(c) ==
  /\ page[c] # "none"
  /\ page' = [page EXCEPT ![c] = "none"]
  /\ part' = [part EXCEPT ![c] = 0]
  /\ told' = [told EXCEPT ![c] = Nothing]
  /\ due' = [due EXCEPT ![c] = 0]
  /\ overtaken' = [overtaken EXCEPT ![c] = FALSE]
  /\ response_status' = [response_status EXCEPT !.by = Stale(@, c)]
  /\ httpd_response_message' = Stale(httpd_response_message, c)
  /\ httpd_json_payload' = [httpd_json_payload EXCEPT !.by = Stale(@, c)]
  /\ NotSaved(c)
  /\ UNCHANGED btVars
-----------------------------------------------------------------------------
(* Bluetooth callbacks. *)

(* A device is found, again perhaps, and then with a name of another length; *)
(* the list does not grow beyond its end.                                    *)
btloop_store_device ==
  \E len \in EntryLens :
    \/ Len(bt_devices) < MaxDevices /\ bt_devices' = Append(bt_devices, len)
    \/ Len(bt_devices) = MaxDevices /\ UNCHANGED bt_devices
    \/ \E i \in DOMAIN bt_devices : bt_devices' = [bt_devices EXCEPT ![i] = len]

btloop_on_device_discovered ==
  /\ bluetooth = "on"
  /\ btloop_store_device
  /\ UNCHANGED <<unsaved, bluetooth, answerVars, connVars>>

(* A device that is ready is listed, and its pairing, if its type is known, *)
(* saved with the rest of the table.                                        *)
btloop_on_device_ready ==
  /\ bluetooth = "on"
  /\ btloop_store_device
  /\ Saved \/ UNCHANGED unsaved
  /\ UNCHANGED <<bluetooth, answerVars, connVars>>

btloop_on_init_complete ==
  /\ bluetooth = "starting"
  /\ bluetooth' = "on"
  /\ bt_devices' = <<>>
  /\ UNCHANGED <<unsaved, answerVars, connVars>>
-----------------------------------------------------------------------------
(* The payload starts as "[]". *)
Init ==
  /\ unsaved = {}
  /\ bluetooth = "off" /\ bt_devices = <<>>
  /\ response_status = [by |-> Nobody, ok |-> TRUE] /\ httpd_response_message = Nobody
  /\ httpd_json_payload = [by |-> Nobody, len |-> 2, text |-> 2]
  /\ page = [c \in Conns |-> "none"] /\ part = [c \in Conns |-> 0]
  /\ told = [c \in Conns |-> Nothing]
  /\ due = [c \in Conns |-> 0] /\ overtaken = [c \in Conns |-> FALSE]

Handler(c) ==
  \/ cgi_saveparams(c) \/ cgi_btlist(c) \/ cgi_btstart(c) \/ cgi_btstop(c)
  \/ cgi_btpairings(c) \/ cgi_btclean(c) \/ cgi_btunpair(c)

Next ==
  \/ \E c \in Conns : Handler(c) \/ Send(c) \/ Close(c)
  \/ btloop_on_device_discovered \/ btloop_on_device_ready \/ btloop_on_init_complete

Spec == Init /\ [][Next]_vars

(* The stack goes on with a page when it has memory again (its poll and     *)
(* sent callbacks).                                                         *)
FairSpec == Spec /\ \A c \in Conns : WF_vars(Send(c))
-----------------------------------------------------------------------------
ASSUME WebAssumption ==
  /\ MaxDevices \in Nat /\ PayloadSize \in Nat /\ Chunk \in Nat \ {0}
  /\ HeadLen \in Nat /\ TailLen \in Nat /\ HeadLen + TailLen < PayloadSize /\ PayloadSize > 2
  /\ InsertSize \in Nat /\ InsertSize > Chunk
  /\ EntryLens \subseteq Nat \ {0} /\ PairingsLens \subseteq 1 .. PayloadSize - 1
  /\ Nobody \notin Conns

(* Type correctness; the payload ends before the end of its buffer. *)
WebTypeOK ==
  /\ unsaved \subseteq Conns \cup {Nobody}
  /\ bluetooth \in {"off", "starting", "on"} /\ (bluetooth # "on" => bt_devices = <<>>)
  /\ bt_devices \in Seq(EntryLens) /\ Len(bt_devices) <= MaxDevices
  /\ response_status \in [by : Conns \cup {Nobody}, ok : BOOLEAN]
  /\ httpd_response_message \in Conns \cup {Nobody}
  /\ httpd_json_payload \in [by : Conns \cup {Nobody}, len : 0 .. PayloadSize - 1, text : Nat]
  /\ page \in [Conns -> {"none", "status", "message", "json", "sent"}]
  /\ part \in [Conns -> 0 .. PayloadSize \div Chunk]
  /\ told \in [Conns -> [own : BOOLEAN, ok : BOOLEAN, bytes : Nat]]
  /\ due \in [Conns -> 0 .. PayloadSize - 1]
  /\ overtaken \in [Conns -> BOOLEAN]

(* A browser gets its own answer, the whole of it and nothing twice, unless *)
(* another request was handled while the page was being sent, as it may be  *)
(* when the stack runs short of memory (mngr_httpd.c:74-76, 722-759).       *)
OwnAnswer ==
  \A c \in Conns : page[c] = "sent" /\ ~overtaken[c] => told[c].own /\ told[c].bytes = due[c]

(* The list of devices is cut only when it does not fit, and then at the    *)
(* last byte (mngr_httpd.c:406-429).                                        *)
CutOnlyIfTooLong == httpd_json_payload.len = Min2(httpd_json_payload.text, PayloadSize - 1)

(* A browser whose page says OK has what its form put in flash, unless      *)
(* another request was handled meanwhile: the OK may then be that one's,    *)
(* while its own form was refused (mngr_httpd.c:307-381, 771-780).          *)
OkIsSaved ==
  \A c \in Conns : page[c] = "sent" /\ ~overtaken[c] /\ told[c].ok => c \notin unsaved

(* No part is read beyond the end of the payload, though the payload may    *)
(* have become shorter since the part before it (mngr_httpd.c:727-747).     *)
ReadsInside ==
  [][\A c \in Conns : told'[c].bytes > told[c].bytes =>
       part[c] * Chunk + told'[c].bytes - told[c].bytes <= httpd_json_payload.len]_vars

(* Every page that is not given up is sent to its end, though handlers keep *)
(* changing the payload under it (mngr_httpd.c:730-757).                    *)
AnswersEnd == \A c \in Conns : Sending(c) ~> ~Sending(c)
=============================================================================
