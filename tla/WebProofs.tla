------------------------------- MODULE WebProofs -------------------------------
(***************************************************************************)
(* The answers of the web server, for any number of connections and        *)
(* devices and any sizes of the payload and its parts: whose they are,     *)
(* that they are whole, that nothing is read or written beyond the payload *)
(* and that a page that says OK says the truth.                            *)
(***************************************************************************)
EXTENDS Web, TLAPS, WellFoundedInduction, SequenceTheorems

(* Induction along an interval: a set that holds 0, and with each number   *)
(* the next, holds the interval.                                            *)
LEMMA UpTo ==
  ASSUME NEW n \in Nat, NEW T, 0 \in T, \A i \in 1 .. n : i - 1 \in T => i \in T
  PROVE  0 .. n \subseteq T
<1> DEFINE R == {ss \in Nat \X Nat : ss[1] < ss[2]}
           Missing == {i \in 0 .. n : i \notin T}
<1> SUFFICES ASSUME Missing # {} PROVE FALSE
  OBVIOUS
<1>1. IsWellFoundedOn(R, Nat)
  BY NatLessThanWellFounded DEF OpToRel
<1>2. Missing \subseteq Nat
  OBVIOUS
<1> HIDE DEF R, Missing
<1>3. PICK i \in Missing : \A j \in Missing : ~(<<j, i>> \in R)
  BY <1>1, <1>2, WFMin
<1>4. i \in 1 .. n /\ i - 1 \in Nat /\ i \in Nat /\ i - 1 < i
  BY DEF Missing
<1>5. <<i - 1, i>> \in R
  <2>1. <<i - 1, i>> \in Nat \X Nat /\ <<i - 1, i>>[1] < <<i - 1, i>>[2]
    BY <1>4
  <2> QED BY <2>1 DEF R
<1>6. i - 1 \in T
  BY <1>3, <1>4, <1>5 DEF Missing
<1> QED BY <1>4, <1>6 DEF Missing

(* The results of n steps from the first, one after the other. *)
Iterations(n, S, first, step) ==
  {f \in [0 .. n -> S] : f[0] = first /\ \A i \in 1 .. n : f[i] = step[i][f[i - 1]]}

(* There is a function to define by recursion.                              *)
LEMMA Recursion ==
  ASSUME NEW n \in Nat, NEW S, NEW first \in S, NEW step \in [1 .. n -> [S -> S]]
  PROVE  Iterations(n, S, first, step) # {}
<1> DEFINE Is(f, m) == f[0] = first /\ \A i \in 1 .. m : f[i] = step[i][f[i - 1]]
           T == {m \in 0 .. n : \E f \in [0 .. m -> S] : Is(f, m)}
<1>1. 0 \in T
  <2> DEFINE g == [i \in 0 .. 0 |-> first]
  <2>1. g \in [0 .. 0 -> S]
    OBVIOUS
  <2>2. Is(g, 0)
    OBVIOUS
  <2> HIDE DEF g
  <2> QED BY <2>1, <2>2
<1>2. ASSUME NEW m \in 1 .. n, m - 1 \in T PROVE m \in T
  <2>1. PICK f \in [0 .. m - 1 -> S] : Is(f, m - 1)
    BY <1>2
  <2> DEFINE g == [i \in 0 .. m |-> IF i = m THEN step[m][f[m - 1]] ELSE f[i]]
  <2>2. m \in 0 .. n /\ m - 1 \in 0 .. m - 1 /\ f[m - 1] \in S /\ m # 0
    OBVIOUS
  <2>3. g \in [0 .. m -> S]
    BY <2>2
  <2>4. g[0] = first
    BY <2>1, <2>2
  <2>5. ASSUME NEW i \in 1 .. m PROVE g[i] = step[i][g[i - 1]]
    <3>1. i - 1 \in 0 .. m /\ i - 1 # m /\ i \in 0 .. m
      OBVIOUS
    <3>2. i # m => i \in 1 .. m - 1
      OBVIOUS
    <3> QED BY <2>1, <3>1, <3>2
  <2>6. Is(g, m)
    BY <2>4, <2>5
  <2> HIDE DEF g, Is
  <2> QED BY <2>2, <2>3, <2>6
<1> HIDE DEF T
<1>3. 0 .. n \subseteq T
  BY <1>1, <1>2, UpTo
<1>4. n \in T
  BY <1>3
<1> QED BY <1>4 DEF T, Iterations


(* The list of devices. *)

(* The loop over the devices does what its definition says.                 *)
LEMMA OffsetIs ==
  ASSUME bt_devices \in Seq(Nat)
  PROVE  /\ offset = [i \in 0 .. Len(bt_devices) |->
                        IF i = 0 THEN HeadLen
                        ELSE IF offset[i - 1] >= PayloadSize - 1 THEN offset[i - 1]
                        ELSE offset[i - 1] + Entry(i)]
         /\ offset \in [0 .. Len(bt_devices) -> Nat]
<1> DEFINE n == Len(bt_devices)
           Is(f) == f = [i \in 0 .. n |->
                      IF i = 0 THEN HeadLen
                      ELSE IF f[i - 1] >= PayloadSize - 1 THEN f[i - 1]
                      ELSE f[i - 1] + Entry(i)]
           step == [i \in 1 .. n |-> [at \in Nat |-> IF at >= PayloadSize - 1 THEN at ELSE at + Entry(i)]]
<1>1. n \in Nat /\ HeadLen \in Nat /\ PayloadSize \in Nat
  BY WebAssumption
<1>2. \A i \in 1 .. n : Entry(i) \in Nat
  BY DEF Entry
<1> HIDE DEF n
<1>3. step \in [1 .. n -> [Nat -> Nat]]
  BY <1>1, <1>2
<1> HIDE DEF step
<1>4. PICK f \in [0 .. n -> Nat] : f[0] = HeadLen /\ \A i \in 1 .. n : f[i] = step[i][f[i - 1]]
  <2>1. Iterations(n, Nat, HeadLen, step) # {}
    BY <1>1, <1>3, Recursion
  <2> QED BY <2>1 DEF Iterations
<1>5. Is(f)
  <2>1. ASSUME NEW i \in 1 .. n
        PROVE  f[i] = IF f[i - 1] >= PayloadSize - 1 THEN f[i - 1] ELSE f[i - 1] + Entry(i)
    <3>1. f[i - 1] \in Nat
      BY <1>1
    <3> QED BY <1>4, <3>1 DEF step
  <2>2. \A i \in 0 .. n : i # 0 => i \in 1 .. n
    BY <1>1
  <2> QED BY <1>4, <2>1, <2>2
<1>6. Is(offset)
  <2>1. offset = CHOOSE g : Is(g)
    BY DEF offset, n
  <2> HIDE DEF Is
  <2> QED BY <1>5, <2>1
<1>7. ASSUME NEW i \in 1 .. n, offset[i - 1] \in Nat PROVE offset[i] \in Nat
  <2>1. i \in 0 .. n /\ i # 0 /\ Entry(i) \in Nat
    BY <1>1, <1>2
  <2>2. offset[i] = IF offset[i - 1] >= PayloadSize - 1 THEN offset[i - 1] ELSE offset[i - 1] + Entry(i)
    BY <1>6, <2>1
  <2> QED BY <1>7, <2>1, <2>2
<1>8. 0 .. n \subseteq {i \in 0 .. n : offset[i] \in Nat}
  <2> DEFINE T == {i \in 0 .. n : offset[i] \in Nat}
  <2>1. 0 \in T
    BY <1>1, <1>6
  <2>2. \A i \in 1 .. n : i - 1 \in T => i \in T
    BY <1>1, <1>7
  <2> HIDE DEF T
  <2>3. 0 .. n \subseteq T
    BY <1>1, <2>1, <2>2, UpTo
  <2> QED BY <2>3 DEF T
<1> QED BY <1>6, <1>8 DEF n

LEMMA WholeIs ==
  ASSUME bt_devices \in Seq(Nat)
  PROVE  /\ whole = [i \in 0 .. Len(bt_devices) |-> IF i = 0 THEN HeadLen ELSE whole[i - 1] + Entry(i)]
         /\ whole \in [0 .. Len(bt_devices) -> Nat]
<1> DEFINE n == Len(bt_devices)
           Is(f) == f = [i \in 0 .. n |-> IF i = 0 THEN HeadLen ELSE f[i - 1] + Entry(i)]
           step == [i \in 1 .. n |-> [sum \in Nat |-> sum + Entry(i)]]
<1>1. n \in Nat /\ HeadLen \in Nat
  BY WebAssumption
<1>2. \A i \in 1 .. n : Entry(i) \in Nat
  BY DEF Entry
<1> HIDE DEF n
<1>3. step \in [1 .. n -> [Nat -> Nat]]
  BY <1>1, <1>2
<1> HIDE DEF step
<1>4. PICK f \in [0 .. n -> Nat] : f[0] = HeadLen /\ \A i \in 1 .. n : f[i] = step[i][f[i - 1]]
  <2>1. Iterations(n, Nat, HeadLen, step) # {}
    BY <1>1, <1>3, Recursion
  <2> QED BY <2>1 DEF Iterations
<1>5. Is(f)
  <2>1. ASSUME NEW i \in 1 .. n PROVE f[i] = f[i - 1] + Entry(i)
    <3>1. f[i - 1] \in Nat
      BY <1>1
    <3> QED BY <1>4, <3>1 DEF step
  <2>2. \A i \in 0 .. n : i # 0 => i \in 1 .. n
    BY <1>1
  <2> QED BY <1>4, <2>1, <2>2
<1>6. Is(whole)
  <2>1. whole = CHOOSE g : Is(g)
    BY DEF whole, n
  <2> HIDE DEF Is
  <2> QED BY <1>5, <2>1
<1>7. ASSUME NEW i \in 1 .. n, whole[i - 1] \in Nat PROVE whole[i] \in Nat
  <2>1. i \in 0 .. n /\ i # 0 /\ Entry(i) \in Nat
    BY <1>1, <1>2
  <2>2. whole[i] = whole[i - 1] + Entry(i)
    BY <1>6, <2>1
  <2> QED BY <1>7, <2>1, <2>2
<1>8. 0 .. n \subseteq {i \in 0 .. n : whole[i] \in Nat}
  <2> DEFINE T == {i \in 0 .. n : whole[i] \in Nat}
  <2>1. 0 \in T
    BY <1>1, <1>6
  <2>2. \A i \in 1 .. n : i - 1 \in T => i \in T
    BY <1>1, <1>7
  <2> HIDE DEF T
  <2>3. 0 .. n \subseteq T
    BY <1>1, <2>1, <2>2, UpTo
  <2> QED BY <2>3 DEF T
<1> QED BY <1>6, <1>8 DEF n

(* The loop has counted all of the list, or has reached the payload's end.  *)
LEMMA OffsetCounts ==
  ASSUME bt_devices \in Seq(Nat), NEW i \in 0 .. Len(bt_devices)
  PROVE  offset[i] = whole[i] \/ (PayloadSize - 1 <= offset[i] /\ offset[i] <= whole[i])
<1> DEFINE n == Len(bt_devices)
           T == {k \in 0 .. n : offset[k] = whole[k] \/ (PayloadSize - 1 <= offset[k] /\ offset[k] <= whole[k])}
<1>1. n \in Nat /\ PayloadSize \in Nat
  BY WebAssumption
<1>2. 0 \in T
  <2>1. 0 \in 0 .. n
    BY <1>1
  <2>2. offset[0] = HeadLen /\ whole[0] = HeadLen
    BY <2>1, OffsetIs, WholeIs
  <2> QED BY <2>1, <2>2
<1>3. ASSUME NEW k \in 1 .. n, k - 1 \in T PROVE k \in T
  <2>1. k \in 0 .. n /\ k # 0 /\ k - 1 \in 0 .. n /\ Entry(k) \in Nat
    BY <1>1 DEF Entry
  <2>2. /\ offset[k] = IF offset[k - 1] >= PayloadSize - 1 THEN offset[k - 1] ELSE offset[k - 1] + Entry(k)
        /\ offset[k - 1] \in Nat
    BY <2>1, OffsetIs
  <2>3. whole[k] = whole[k - 1] + Entry(k) /\ whole[k - 1] \in Nat
    BY <2>1, WholeIs
  <2> QED BY <1>1, <1>3, <2>1, <2>2, <2>3
<1> HIDE DEF T
<1>4. 0 .. n \subseteq T
  BY <1>1, <1>2, <1>3, UpTo
<1> QED BY <1>4 DEF T

(* The list in the payload is the whole list, or as much as fits.           *)
LEMMA ListIsCut ==
  ASSUME bt_devices \in Seq(Nat)
  PROVE  /\ ListLen \in 0 .. PayloadSize - 1
         /\ TextLen \in Nat
         /\ ListLen = Min2(TextLen, PayloadSize - 1)
<1>1. Len(bt_devices) \in 0 .. Len(bt_devices)
  OBVIOUS
<1>2. Offset \in Nat
  BY <1>1, OffsetIs DEF Offset
<1>3. whole[Len(bt_devices)] \in Nat
  BY <1>1, WholeIs
<1>4. Offset = whole[Len(bt_devices)]
        \/ (PayloadSize - 1 <= Offset /\ Offset <= whole[Len(bt_devices)])
  BY <1>1, OffsetCounts DEF Offset
<1> QED BY <1>2, <1>3, <1>4, WebAssumption DEF ListLen, TextLen, Min2
-----------------------------------------------------------------------------
(* Types, and with them the bounds of the payload and of its parts. *)

(* A part is what remains of the payload, or a chunk of it, and a part      *)
(* follows only if it has not reached the end.                              *)
LEMMA PartIs ==
  ASSUME httpd_json_payload.len \in 0 .. PayloadSize - 1, NEW k \in Nat
  PROVE  /\ Remains(k) \in Int /\ PartLen(k) \in Nat
         /\ Remains(k) <= 0 => PartLen(k) = 0
         /\ Remains(k) > 0 => PartLen(k) = Min2(Remains(k), Chunk)
         /\ k * Chunk + Remains(k) = httpd_json_payload.len
         /\ Remains(k) > PartLen(k) => k + 1 \in 0 .. PayloadSize \div Chunk
         /\ k * Chunk \in Nat /\ (k + 1) * Chunk = k * Chunk + Chunk
<1>1. Chunk \in Nat \ {0} /\ PayloadSize \in Nat /\ InsertSize \in Nat /\ InsertSize > Chunk
  BY WebAssumption
<1>2. k * Chunk \in Nat /\ (k + 1) * Chunk = k * Chunk + Chunk
  BY <1>1
<1>3. Remains(k) \in Int /\ k * Chunk + Remains(k) = httpd_json_payload.len
  BY <1>2 DEF Remains
<1>4. /\ PartLen(k) \in Nat
      /\ Remains(k) <= 0 => PartLen(k) = 0
      /\ Remains(k) > 0 => PartLen(k) = Min2(Remains(k), Chunk)
  BY <1>1, <1>3 DEF PartLen, Min2
<1>5. ASSUME Remains(k) > PartLen(k) PROVE k + 1 \in 0 .. PayloadSize \div Chunk
  <2>1. PartLen(k) = Chunk
    BY <1>1, <1>3, <1>4, <1>5 DEF Min2
  <2>2. (k + 1) * Chunk <= PayloadSize
    BY <1>1, <1>2, <1>3, <1>5, <2>1
  <2> QED BY <1>1, <2>2
<1> QED BY <1>2, <1>3, <1>4, <1>5

(* The conjuncts of WebTypeOK, by the part of the state they speak of. *)
BtType ==
  /\ bluetooth \in {"off", "starting", "on"} /\ (bluetooth # "on" => bt_devices = <<>>)
  /\ bt_devices \in Seq(EntryLens) /\ Len(bt_devices) <= MaxDevices
AnswerType ==
  /\ response_status \in [by : Conns \cup {Nobody}, ok : BOOLEAN]
  /\ httpd_response_message \in Conns \cup {Nobody}
  /\ httpd_json_payload \in [by : Conns \cup {Nobody}, len : 0 .. PayloadSize - 1, text : Nat]
ConnType ==
  /\ page \in [Conns -> {"none", "status", "message", "json", "sent"}]
  /\ part \in [Conns -> 0 .. PayloadSize \div Chunk]
  /\ told \in [Conns -> [own : BOOLEAN, ok : BOOLEAN, bytes : Nat]]
  /\ due \in [Conns -> 0 .. PayloadSize - 1]
  /\ overtaken \in [Conns -> BOOLEAN]
UnsavedType == unsaved \subseteq Conns \cup {Nobody}

LEMMA TypeParts == WebTypeOK <=> UnsavedType /\ BtType /\ AnswerType /\ ConnType
BY DEF WebTypeOK, UnsavedType, BtType, AnswerType, ConnType

LEMMA OpensType ==
  ASSUME ConnType, NEW c \in Conns, NEW first \in {"status", "json"}, NEW bytes \in 0 .. PayloadSize - 1,
         Opens(c, first, bytes)
  PROVE  ConnType'
<1>1. 0 \in 0 .. PayloadSize \div Chunk
  BY WebAssumption
<1>2. Nothing \in [own : BOOLEAN, ok : BOOLEAN, bytes : Nat]
  BY DEF Nothing
<1>3. \A d \in Conns : overtaken[d] \/ Sending(d) \in BOOLEAN
  BY DEF ConnType, Sending
<1> QED BY <1>1, <1>2, <1>3 DEF ConnType, Opens

LEMMA StaleType ==
  ASSUME NEW c \in Conns, NEW x \in Conns \cup {Nobody}
  PROVE  Stale(x, c) \in Conns \cup {Nobody} /\ Stale(x, c) # c /\ (x # c => Stale(x, c) = x)
BY WebAssumption DEF Stale

LEMMA NotSavedType ==
  ASSUME UnsavedType, NEW c \in Conns, NotSaved(c)
  PROVE  UnsavedType'
BY StaleType DEF UnsavedType, NotSaved

LEMMA ResponseType ==
  ASSUME AnswerType, ConnType, NEW c \in Conns, NEW ok \in BOOLEAN, Response(c, ok)
  PROVE  AnswerType' /\ ConnType'
<1>1. ConnType'
  <2>1. 0 \in 0 .. PayloadSize - 1
    BY WebAssumption
  <2> QED BY <2>1, OpensType DEF Response
<1>2. Stale(httpd_json_payload.by, c) \in Conns \cup {Nobody}
  BY StaleType DEF AnswerType
<1>3. AnswerType'
  BY <1>2 DEF AnswerType, Response
<1> QED BY <1>1, <1>3

LEMMA JsonType ==
  ASSUME AnswerType, ConnType, NEW c \in Conns, NEW len \in 0 .. PayloadSize - 1, NEW t \in Nat,
         Json(c, len, t)
  PROVE  AnswerType' /\ ConnType'
<1>1. ConnType'
  BY OpensType DEF Json
<1> QED BY <1>1 DEF AnswerType, Json

LEMMA DevicesAreNat ==
  ASSUME BtType
  PROVE  bt_devices \in Seq(Nat)
<1>1. EntryLens \subseteq Nat
  BY WebAssumption
<1> QED BY <1>1, SeqMonotonic DEF BtType

(* What is listed, answered and saved keeps its type, handler by handler.   *)
LEMMA HandlerType ==
  ASSUME UnsavedType, BtType, AnswerType, ConnType, NEW c \in Conns, Handler(c)
  PROVE  UnsavedType' /\ BtType' /\ AnswerType' /\ ConnType'
<1>1. CASE cgi_saveparams(c)
  <2>1. BtType'
    BY <1>1 DEF cgi_saveparams, btVars, BtType
  <2>2. AnswerType' /\ ConnType'
    BY <1>1, ResponseType DEF cgi_saveparams
  <2>3. UnsavedType'
    BY <1>1, NotSavedType DEF cgi_saveparams, UnsavedType, Saved
  <2> QED BY <2>1, <2>2, <2>3
<1>2. CASE cgi_btlist(c)
  <2>1. AnswerType' /\ ConnType'
    BY <1>2, JsonType, DevicesAreNat, ListIsCut DEF cgi_btlist
  <2> QED BY <1>2, <2>1, NotSavedType DEF cgi_btlist, btVars, BtType
<1>3. CASE cgi_btstart(c)
  <2>1. BtType'
    BY <1>3, WebAssumption DEF cgi_btstart, BtType
  <2> QED BY <1>3, <2>1, ResponseType, NotSavedType DEF cgi_btstart
<1>4. CASE cgi_btstop(c)
  BY <1>4, ResponseType, NotSavedType DEF cgi_btstop, btVars, BtType
<1>5. CASE cgi_btpairings(c)
  <2>1. PICK len \in PairingsLens : Json(c, len, len)
    BY <1>5 DEF cgi_btpairings
  <2>2. len \in 0 .. PayloadSize - 1 /\ len \in Nat
    BY WebAssumption
  <2>3. AnswerType' /\ ConnType'
    BY <2>1, <2>2, JsonType
  <2> QED BY <1>5, <2>3, NotSavedType DEF cgi_btpairings, btVars, BtType
<1>6. CASE cgi_btclean(c)
  <2>1. BtType'
    BY <1>6, WebAssumption DEF cgi_btclean, BtType
  <2> QED BY <1>6, <2>1, ResponseType DEF cgi_btclean, Saved, UnsavedType
<1>7. CASE cgi_btunpair(c)
  <2>1. BtType'
    BY <1>7 DEF cgi_btunpair, btVars, BtType
  <2>2. AnswerType' /\ ConnType'
    BY <1>7, ResponseType DEF cgi_btunpair
  <2> QED BY <1>7, <2>1, <2>2, NotSavedType DEF cgi_btunpair, UnsavedType, Saved
<1> QED BY <1>1, <1>2, <1>3, <1>4, <1>5, <1>6, <1>7 DEF Handler

LEMMA PieceType ==
  ASSUME ConnType, NEW c \in Conns, NEW by, NEW ok \in BOOLEAN, NEW bytes \in Nat, Piece(c, by, ok, bytes)
  PROVE  told' \in [Conns -> [own : BOOLEAN, ok : BOOLEAN, bytes : Nat]]
<1>1. told[c] \in [own : BOOLEAN, ok : BOOLEAN, bytes : Nat]
  BY DEF ConnType
<1>2. (told[c].own /\ by = c) \in BOOLEAN /\ told[c].bytes + bytes \in Nat
  BY <1>1
<1> QED BY <1>2 DEF ConnType, Piece

LEMMA SendType ==
  ASSUME UnsavedType, BtType, AnswerType, ConnType, NEW c \in Conns, Send(c)
  PROVE  UnsavedType' /\ BtType' /\ AnswerType' /\ ConnType'
<1>1. UnsavedType' /\ BtType' /\ AnswerType' /\ due' = due /\ overtaken' = overtaken
  BY DEF Send, SendStatus, SendMessage, SendPart, UnsavedType, BtType, AnswerType, btVars, answerVars
<1>2. CASE SendStatus(c)
  <2>1. told' \in [Conns -> [own : BOOLEAN, ok : BOOLEAN, bytes : Nat]]
    <3>1. response_status.ok \in BOOLEAN /\ response_status.by \in Conns \cup {Nobody} /\ 0 \in Nat
      BY DEF AnswerType
    <3>2. PICK by \in Conns \cup {Nobody}, ok \in BOOLEAN, bytes \in Nat : Piece(c, by, ok, bytes)
      BY <1>2, <3>1 DEF SendStatus
    <3> QED BY <3>2, PieceType
  <2> QED BY <1>1, <1>2, <2>1 DEF SendStatus, ConnType
<1>3. CASE SendMessage(c)
  <2>1. told' \in [Conns -> [own : BOOLEAN, ok : BOOLEAN, bytes : Nat]]
    <3>1. told[c].ok \in BOOLEAN /\ httpd_response_message \in Conns \cup {Nobody} /\ 0 \in Nat
      BY DEF AnswerType, ConnType
    <3>2. PICK by \in Conns \cup {Nobody}, ok \in BOOLEAN, bytes \in Nat : Piece(c, by, ok, bytes)
      BY <1>3, <3>1 DEF SendMessage
    <3> QED BY <3>2, PieceType
  <2> QED BY <1>1, <1>3, <2>1 DEF SendMessage, ConnType
<1>4. CASE SendPart(c)
  <2>1. part[c] \in Nat
    BY DEF ConnType
  <2>2. PartLen(part[c]) \in Nat
    BY <2>1, PartIs DEF AnswerType
  <2>3. told' \in [Conns -> [own : BOOLEAN, ok : BOOLEAN, bytes : Nat]]
    BY <1>4, <2>2, PieceType DEF SendPart
  <2>4. NextPart(part[c]) # LastPart => NextPart(part[c]) \in 0 .. PayloadSize \div Chunk
    BY <2>1, PartIs DEF AnswerType, NextPart
  <2> QED BY <1>1, <1>4, <2>3, <2>4 DEF SendPart, ConnType
<1> QED BY <1>2, <1>3, <1>4 DEF Send

LEMMA CloseType ==
  ASSUME UnsavedType, BtType, AnswerType, ConnType, NEW c \in Conns, Close(c)
  PROVE  UnsavedType' /\ BtType' /\ AnswerType' /\ ConnType'
<1>1. 0 \in 0 .. PayloadSize \div Chunk /\ 0 \in 0 .. PayloadSize - 1
  BY WebAssumption
<1>2. Nothing \in [own : BOOLEAN, ok : BOOLEAN, bytes : Nat]
  BY DEF Nothing
<1>3. ConnType'
  BY <1>1, <1>2 DEF Close, ConnType
<1>4. AnswerType'
  <2>1. /\ Stale(response_status.by, c) \in Conns \cup {Nobody}
        /\ Stale(httpd_response_message, c) \in Conns \cup {Nobody}
        /\ Stale(httpd_json_payload.by, c) \in Conns \cup {Nobody}
    BY StaleType DEF AnswerType
  <2> QED BY <2>1 DEF Close, AnswerType
<1> QED BY <1>3, <1>4, NotSavedType DEF Close, btVars, BtType

LEMMA StoreType ==
  ASSUME BtType, bluetooth = "on", btloop_store_device
  PROVE  bt_devices' \in Seq(EntryLens) /\ Len(bt_devices') <= MaxDevices
<1> PICK len \in EntryLens :
      \/ Len(bt_devices) < MaxDevices /\ bt_devices' = Append(bt_devices, len)
      \/ Len(bt_devices) = MaxDevices /\ UNCHANGED bt_devices
      \/ \E i \in DOMAIN bt_devices : bt_devices' = [bt_devices EXCEPT ![i] = len]
  BY DEF btloop_store_device
<1>1. bt_devices \in Seq(EntryLens) /\ Len(bt_devices) \in Nat /\ MaxDevices \in Nat /\ Len(bt_devices) <= MaxDevices
  BY WebAssumption DEF BtType
<1>2. CASE Len(bt_devices) < MaxDevices /\ bt_devices' = Append(bt_devices, len)
  BY <1>1, <1>2, AppendProperties
<1>3. ASSUME NEW i \in DOMAIN bt_devices, bt_devices' = [bt_devices EXCEPT ![i] = len]
      PROVE  bt_devices' \in Seq(EntryLens) /\ Len(bt_devices') = Len(bt_devices)
  BY <1>1, <1>3, ExceptSeq
<1> QED BY <1>1, <1>2, <1>3

LEMMA TypeStep == WebTypeOK /\ [Next]_vars => WebTypeOK'
<1> SUFFICES ASSUME WebTypeOK, [Next]_vars PROVE WebTypeOK'
  OBVIOUS
<1>0. UnsavedType /\ BtType /\ AnswerType /\ ConnType
  BY TypeParts
<1> SUFFICES UnsavedType' /\ BtType' /\ AnswerType' /\ ConnType'
  BY DEF WebTypeOK, UnsavedType, BtType, AnswerType, ConnType
<1>1. ASSUME NEW c \in Conns, Handler(c) PROVE UnsavedType' /\ BtType' /\ AnswerType' /\ ConnType'
  BY <1>0, <1>1, HandlerType
<1>2. ASSUME NEW c \in Conns, Send(c) PROVE UnsavedType' /\ BtType' /\ AnswerType' /\ ConnType'
  BY <1>0, <1>2, SendType
<1>3. ASSUME NEW c \in Conns, Close(c) PROVE UnsavedType' /\ BtType' /\ AnswerType' /\ ConnType'
  BY <1>0, <1>3, CloseType
<1>4. CASE btloop_on_device_discovered
  <2>1. BtType'
    BY <1>0, <1>4, StoreType DEF btloop_on_device_discovered, BtType
  <2> QED BY <1>0, <1>4, <2>1
        DEF btloop_on_device_discovered, answerVars, connVars, UnsavedType, AnswerType, ConnType
<1>5. CASE btloop_on_device_ready
  <2>1. BtType'
    BY <1>0, <1>5, StoreType DEF btloop_on_device_ready, BtType
  <2> QED BY <1>0, <1>5, <2>1
        DEF btloop_on_device_ready, Saved, answerVars, connVars, UnsavedType, AnswerType, ConnType
<1>6. CASE btloop_on_init_complete
  BY <1>0, <1>6, WebAssumption
     DEF btloop_on_init_complete, answerVars, connVars, UnsavedType, BtType, AnswerType, ConnType
<1>7. CASE UNCHANGED vars
  BY <1>0, <1>7 DEF vars, btVars, answerVars, connVars, UnsavedType, BtType, AnswerType, ConnType
<1> QED BY <1>1, <1>2, <1>3, <1>4, <1>5, <1>6, <1>7 DEF Next

LEMMA TypeInit == Init => WebTypeOK
<1> SUFFICES ASSUME Init PROVE WebTypeOK
  OBVIOUS
<1>1. 0 \in 0 .. PayloadSize \div Chunk /\ 0 \in 0 .. PayloadSize - 1
  BY WebAssumption
<1>2. Nothing \in [own : BOOLEAN, ok : BOOLEAN, bytes : Nat]
  BY DEF Nothing
<1> QED BY <1>1, <1>2, WebAssumption DEF Init, WebTypeOK

(* The payload ends before the end of its buffer, however many devices are  *)
(* found and however long their names (mngr_httpd.c:406-429).               *)
THEOREM WebTypeCorrect == Spec => []WebTypeOK
BY TypeInit, TypeStep, PTL DEF Spec

(* Only the two handlers that answer with a payload change its length.      *)
LEMMA CutStep == WebTypeOK /\ CutOnlyIfTooLong /\ [Next]_vars => CutOnlyIfTooLong'
<1> SUFFICES ASSUME WebTypeOK, CutOnlyIfTooLong, [Next]_vars PROVE CutOnlyIfTooLong'
  OBVIOUS
<1>0. httpd_json_payload \in [by : Conns \cup {Nobody}, len : 0 .. PayloadSize - 1, text : Nat]
  BY DEF WebTypeOK
<1>1. ASSUME httpd_json_payload'.len = httpd_json_payload.len, httpd_json_payload'.text = httpd_json_payload.text
      PROVE  CutOnlyIfTooLong'
  BY <1>1 DEF CutOnlyIfTooLong
<1>2. ASSUME NEW c \in Conns, NEW ok \in BOOLEAN, Response(c, ok) PROVE CutOnlyIfTooLong'
  BY <1>0, <1>1, <1>2 DEF Response
<1>3. ASSUME NEW c \in Conns, Handler(c) PROVE CutOnlyIfTooLong'
  <2>1. CASE cgi_btlist(c)
    <3>1. httpd_json_payload'.len = ListLen /\ httpd_json_payload'.text = TextLen
      BY <2>1 DEF cgi_btlist, Json
    <3>2. ListLen = Min2(TextLen, PayloadSize - 1)
      BY DevicesAreNat, TypeParts, ListIsCut
    <3> QED BY <3>1, <3>2 DEF CutOnlyIfTooLong
  <2>2. CASE cgi_btpairings(c)
    <3>1. PICK len \in PairingsLens : Json(c, len, len)
      BY <2>2 DEF cgi_btpairings
    <3>2. httpd_json_payload'.len = len /\ httpd_json_payload'.text = len
      BY <3>1 DEF Json
    <3> QED BY <3>2, WebAssumption DEF CutOnlyIfTooLong, Min2
  <2> QED BY <1>2, <1>3, <2>1, <2>2
          DEF Handler, cgi_saveparams, cgi_btstart, cgi_btstop, cgi_btclean, cgi_btunpair
<1>4. ASSUME NEW c \in Conns, Send(c) PROVE CutOnlyIfTooLong'
  BY <1>1, <1>4 DEF Send, SendStatus, SendMessage, SendPart, answerVars
<1>5. ASSUME NEW c \in Conns, Close(c) PROVE CutOnlyIfTooLong'
  BY <1>0, <1>1, <1>5 DEF Close
<1>6. CASE btloop_on_device_discovered \/ btloop_on_device_ready \/ btloop_on_init_complete \/ UNCHANGED vars
  BY <1>1, <1>6 DEF btloop_on_device_discovered, btloop_on_device_ready, btloop_on_init_complete, vars, answerVars
<1> QED BY <1>3, <1>4, <1>5, <1>6 DEF Next

(* The list of devices is cut only when it does not fit, and then at the    *)
(* last byte (mngr_httpd.c:406-429).                                        *)
THEOREM CutOnlyWhenTooLong == Spec => []CutOnlyIfTooLong
<1>1. Init => CutOnlyIfTooLong
  BY WebAssumption DEF Init, CutOnlyIfTooLong, Min2
<1> QED BY <1>1, TypeInit, TypeStep, CutStep, PTL DEF Spec

(* Only SendPart gives a browser bytes, and never beyond the payload's end. *)
LEMMA ReadsStep ==
  ASSUME WebTypeOK, [Next]_vars, NEW c \in Conns, told'[c].bytes > told[c].bytes
  PROVE  part[c] * Chunk + told'[c].bytes - told[c].bytes <= httpd_json_payload.len
<1>0. AnswerType /\ ConnType /\ told[c].bytes \in Nat /\ part[c] \in Nat
  BY TypeParts DEF ConnType
<1>1. PICK d \in Conns : SendPart(d)
  <2>1. ASSUME NEW d \in Conns, Handler(d) PROVE FALSE
    <3>1. PICK first, bytes : Opens(d, first, bytes)
      BY <2>1 DEF Handler, cgi_saveparams, cgi_btlist, cgi_btstart, cgi_btstop, cgi_btpairings,
                  cgi_btclean, cgi_btunpair, Response, Json
    <3>2. told'[c] = told[c] \/ told'[c].bytes = 0
      BY <1>0, <3>1 DEF Opens, Nothing, ConnType
    <3> QED BY <1>0, <3>2
  <2>2. ASSUME NEW d \in Conns, Close(d) PROVE FALSE
    <3>1. told'[c] = told[c] \/ told'[c].bytes = 0
      BY <1>0, <2>2 DEF Close, Nothing, ConnType
    <3> QED BY <1>0, <3>1
  <2>3. ASSUME NEW d \in Conns, SendStatus(d) \/ SendMessage(d) PROVE FALSE
    BY <1>0, <2>3 DEF SendStatus, SendMessage, Piece, ConnType
  <2>4. CASE UNCHANGED told
    BY <1>0, <2>4
  <2> QED BY <2>1, <2>2, <2>3, <2>4
          DEF Next, Send, btloop_on_device_discovered, btloop_on_device_ready, btloop_on_init_complete, vars, connVars
<1>2. d = c /\ told'[c].bytes = told[c].bytes + PartLen(part[c])
  BY <1>0, <1>1 DEF SendPart, Piece, ConnType
<1>3. /\ PartLen(part[c]) \in Nat /\ Remains(part[c]) \in Int
      /\ Remains(part[c]) <= 0 => PartLen(part[c]) = 0
      /\ Remains(part[c]) > 0 => PartLen(part[c]) = Min2(Remains(part[c]), Chunk)
      /\ part[c] * Chunk + Remains(part[c]) = httpd_json_payload.len
      /\ part[c] * Chunk \in Nat
  BY <1>0, PartIs DEF AnswerType
<1> QED BY <1>0, <1>2, <1>3, WebAssumption DEF Min2

(* No part is read beyond the end of the payload, though another handler    *)
(* may have made it shorter since the part before (mngr_httpd.c:727-747).   *)
THEOREM NeverReadsBeyond == Spec => ReadsInside
<1>1. WebTypeOK /\ [Next]_vars =>
        [\A c \in Conns : told'[c].bytes > told[c].bytes =>
           part[c] * Chunk + told'[c].bytes - told[c].bytes <= httpd_json_payload.len]_vars
  BY ReadsStep
<1> QED BY <1>1, TypeInit, TypeStep, PTL DEF Spec, ReadsInside
-----------------------------------------------------------------------------
(* Whose an answer is. *)

(* What a browser has of a page that was not overtaken is its own, and the  *)
(* rest of it still waits in the three statics.                             *)
StatusIsOwn(c) ==
  page[c] = "status" =>
    response_status.by = c /\ httpd_response_message = c /\ told[c].own /\ told[c].bytes = 0 /\ due[c] = 0
MessageIsOwn(c) ==
  page[c] = "message" => httpd_response_message = c /\ told[c].own /\ told[c].bytes = 0 /\ due[c] = 0
PayloadIsOwn(c) ==
  page[c] = "json" =>
    /\ httpd_json_payload.by = c /\ httpd_json_payload.len = due[c]
    /\ told[c].own /\ told[c].bytes = part[c] * Chunk /\ told[c].bytes <= due[c]
SentIsOwn(c) == page[c] = "sent" => told[c].own /\ told[c].bytes = due[c]

IsOwn(c) == ~overtaken[c] => StatusIsOwn(c) /\ MessageIsOwn(c) /\ PayloadIsOwn(c) /\ SentIsOwn(c)
OwnInv == \A c \in Conns : IsOwn(c)

(* A connection that nothing happens to keeps its own. *)
LEMMA UntouchedKeeps ==
  ASSUME NEW d \in Conns, IsOwn(d), overtaken'[d] = overtaken[d],
         page'[d] = page[d], part'[d] = part[d], told'[d] = told[d], due'[d] = due[d],
         overtaken[d] \/ page[d] \in {"none", "sent"} \/
           /\ response_status'.by = d <=> response_status.by = d
           /\ httpd_response_message' = d <=> httpd_response_message = d
           /\ httpd_json_payload'.by = d <=> httpd_json_payload.by = d
           /\ httpd_json_payload'.len = httpd_json_payload.len
  PROVE  IsOwn(d)'
BY DEF IsOwn, StatusIsOwn, MessageIsOwn, PayloadIsOwn, SentIsOwn

(* A handler overtakes every page under way, and leaves its own answer. *)
LEMMA OpensOwn ==
  ASSUME WebTypeOK, OwnInv, NEW c \in Conns, NEW first \in {"status", "json"}, NEW bytes,
         Opens(c, first, bytes),
         first = "status" => response_status'.by = c /\ httpd_response_message' = c /\ bytes = 0,
         first = "json" => httpd_json_payload'.by = c /\ httpd_json_payload'.len = bytes /\ bytes \in Nat
  PROVE  OwnInv'
<1> SUFFICES ASSUME NEW d \in Conns PROVE IsOwn(d)'
  BY DEF OwnInv
<1>0. ConnType
  BY TypeParts
<1>1. CASE d = c
  <2>1. page'[d] = first /\ part'[d] = 0 /\ told'[d] = Nothing /\ due'[d] = bytes
    BY <1>0, <1>1 DEF Opens, ConnType
  <2>2. Nothing.own /\ Nothing.bytes = 0 /\ 0 * Chunk = 0
    BY WebAssumption DEF Nothing
  <2> QED BY <1>1, <2>1, <2>2 DEF IsOwn, StatusIsOwn, MessageIsOwn, PayloadIsOwn, SentIsOwn
<1>2. CASE d # c
  <2>1. page'[d] = page[d] /\ part'[d] = part[d] /\ told'[d] = told[d] /\ due'[d] = due[d]
    BY <1>0, <1>2 DEF Opens, ConnType
  <2>2. overtaken'[d] = (overtaken[d] \/ Sending(d))
    BY <1>2 DEF Opens
  <2>3. CASE Sending(d) /\ ~overtaken[d]
    BY <2>2, <2>3 DEF IsOwn
  <2>4. CASE ~(Sending(d) /\ ~overtaken[d])
    <3>1. overtaken'[d] = overtaken[d]
      BY <1>0, <2>2, <2>4 DEF ConnType
    <3>2. overtaken[d] \/ page[d] \in {"none", "sent"}
      BY <1>0, <2>4 DEF Sending, ConnType
    <3> QED BY <2>1, <3>1, <3>2, UntouchedKeeps DEF OwnInv
  <2> QED BY <2>3, <2>4
<1> QED BY <1>1, <1>2

LEMMA HandlerOwn ==
  ASSUME WebTypeOK, OwnInv, NEW c \in Conns, Handler(c)
  PROVE  OwnInv'
<1>0. AnswerType /\ BtType
  BY TypeParts
<1>1. ASSUME NEW ok, Response(c, ok) PROVE OwnInv'
  <2>1. Opens(c, "status", 0) /\ response_status'.by = c /\ httpd_response_message' = c
    BY <1>1 DEF Response
  <2> QED BY <2>1, OpensOwn
<1>2. ASSUME NEW len \in Nat, NEW t, Json(c, len, t) PROVE OwnInv'
  <2>1. Opens(c, "json", len) /\ httpd_json_payload'.by = c /\ httpd_json_payload'.len = len
    BY <1>2 DEF Json
  <2> QED BY <2>1, OpensOwn
<1>3. CASE cgi_btlist(c)
  <2>1. ListLen \in Nat
    BY <1>0, DevicesAreNat, ListIsCut
  <2> QED BY <1>2, <1>3, <2>1 DEF cgi_btlist
<1>4. CASE cgi_btpairings(c)
  <2>1. PairingsLens \subseteq Nat
    BY WebAssumption
  <2> QED BY <1>2, <1>4, <2>1 DEF cgi_btpairings
<1> QED BY <1>1, <1>3, <1>4
        DEF Handler, cgi_saveparams, cgi_btstart, cgi_btstop, cgi_btclean, cgi_btunpair

LEMMA SendOwn ==
  ASSUME WebTypeOK, OwnInv, NEW c \in Conns, Send(c)
  PROVE  OwnInv'
<1> SUFFICES ASSUME NEW d \in Conns PROVE IsOwn(d)'
  BY DEF OwnInv
<1>0. ConnType /\ AnswerType /\ part[c] \in Nat /\ told[c].bytes \in Nat
  BY TypeParts DEF ConnType
<1>1. /\ response_status' = response_status /\ httpd_response_message' = httpd_response_message
      /\ httpd_json_payload' = httpd_json_payload /\ due' = due /\ overtaken' = overtaken
  BY DEF Send, SendStatus, SendMessage, SendPart, answerVars
<1>2. CASE d # c
  <2>1. page'[d] = page[d] /\ part'[d] = part[d] /\ told'[d] = told[d]
    BY <1>0, <1>2 DEF Send, SendStatus, SendMessage, SendPart, Piece, ConnType
  <2> QED BY <1>1, <2>1, UntouchedKeeps DEF OwnInv
<1>3. CASE d = c
  <2>0. ~overtaken[c] => StatusIsOwn(c) /\ MessageIsOwn(c) /\ PayloadIsOwn(c)
    BY DEF OwnInv, IsOwn
  <2>1. CASE SendStatus(c)
    <3>1. /\ page[c] = "status" /\ page'[c] = "message"
          /\ told'[c].own = (told[c].own /\ response_status.by = c)
          /\ told'[c].bytes = told[c].bytes
      BY <1>0, <2>1 DEF SendStatus, Piece, ConnType
    <3> QED BY <1>1, <1>3, <2>0, <3>1 DEF IsOwn, StatusIsOwn, MessageIsOwn, PayloadIsOwn, SentIsOwn
  <2>2. CASE SendMessage(c)
    <3>1. /\ page[c] = "message" /\ page'[c] = "sent"
          /\ told'[c].own = (told[c].own /\ httpd_response_message = c)
          /\ told'[c].bytes = told[c].bytes
      BY <1>0, <2>2 DEF SendMessage, Piece, ConnType
    <3> QED BY <1>1, <1>3, <2>0, <3>1 DEF IsOwn, StatusIsOwn, MessageIsOwn, PayloadIsOwn, SentIsOwn
  <2>3. CASE SendPart(c)
    <3> DEFINE k == part[c]
    <3>1. /\ page[c] = "json"
          /\ told'[c].own = (told[c].own /\ httpd_json_payload.by = c)
          /\ told'[c].bytes = told[c].bytes + PartLen(k)
      BY <1>0, <2>3 DEF SendPart, Piece, ConnType
    <3>2. /\ Remains(k) \in Int /\ PartLen(k) \in Nat
          /\ Remains(k) <= 0 => PartLen(k) = 0
          /\ Remains(k) > 0 => PartLen(k) = Min2(Remains(k), Chunk)
          /\ k * Chunk + Remains(k) = httpd_json_payload.len
          /\ k * Chunk \in Nat /\ (k + 1) * Chunk = k * Chunk + Chunk
      BY <1>0, PartIs DEF AnswerType
    <3>3. Chunk \in Nat /\ k \in Nat /\ due[c] \in Nat
      BY <1>0, WebAssumption DEF ConnType
    <3>4. CASE Remains(k) > PartLen(k)
      <4>1. page'[c] = "json" /\ part'[c] = k + 1
        BY <1>0, <2>3, <3>1, <3>3, <3>4 DEF SendPart, NextPart, LastPart, ConnType
      <4>2. PartLen(k) = Chunk
        BY <3>2, <3>3, <3>4 DEF Min2
      <4>3. ASSUME ~overtaken[c] PROVE PayloadIsOwn(c)'
        <5>1. httpd_json_payload.by = c /\ httpd_json_payload.len = due[c] /\ told[c].own /\ told[c].bytes = k * Chunk
          BY <2>0, <3>1, <4>3 DEF PayloadIsOwn
        <5>2. told'[c].bytes = (k + 1) * Chunk /\ told'[c].bytes <= due[c]
          BY <3>1, <3>2, <3>3, <3>4, <4>2, <5>1
        <5> QED BY <1>1, <3>1, <4>1, <5>1, <5>2 DEF PayloadIsOwn
      <4> QED BY <1>1, <1>3, <4>1, <4>3 DEF IsOwn, StatusIsOwn, MessageIsOwn, SentIsOwn
    <3>5. CASE ~(Remains(k) > PartLen(k))
      <4>1. page'[c] = "sent"
        BY <1>0, <2>3, <3>5 DEF SendPart, NextPart, ConnType
      <4>2. ASSUME ~overtaken[c] PROVE SentIsOwn(c)'
        <5>1. /\ httpd_json_payload.by = c /\ httpd_json_payload.len = due[c]
              /\ told[c].own /\ told[c].bytes = k * Chunk /\ told[c].bytes <= due[c]
          BY <2>0, <3>1, <4>2 DEF PayloadIsOwn
        <5>2. told'[c].bytes = due[c]
          BY <3>1, <3>2, <3>3, <3>5, <5>1 DEF Min2
        <5> QED BY <1>1, <3>1, <5>1, <5>2 DEF SentIsOwn
      <4> QED BY <1>1, <1>3, <4>1, <4>2 DEF IsOwn, StatusIsOwn, MessageIsOwn, PayloadIsOwn
    <3> QED BY <3>4, <3>5
  <2> QED BY <2>1, <2>2, <2>3 DEF Send
<1> QED BY <1>2, <1>3

(* What a closed connection leaves in the statics becomes nobody's. *)
LEMMA CloseOwn ==
  ASSUME WebTypeOK, OwnInv, NEW c \in Conns, Close(c)
  PROVE  OwnInv'
<1> SUFFICES ASSUME NEW d \in Conns PROVE IsOwn(d)'
  BY DEF OwnInv
<1>0. ConnType /\ AnswerType
  BY TypeParts
<1>1. CASE d = c
  <2>1. page'[d] = "none"
    BY <1>0, <1>1 DEF Close, ConnType
  <2> QED BY <2>1 DEF IsOwn, StatusIsOwn, MessageIsOwn, PayloadIsOwn, SentIsOwn
<1>2. CASE d # c
  <2>1. /\ page'[d] = page[d] /\ part'[d] = part[d] /\ told'[d] = told[d] /\ due'[d] = due[d]
        /\ overtaken'[d] = overtaken[d]
    BY <1>0, <1>2 DEF Close, ConnType
  <2>2. /\ response_status'.by = Stale(response_status.by, c)
        /\ httpd_response_message' = Stale(httpd_response_message, c)
        /\ httpd_json_payload'.by = Stale(httpd_json_payload.by, c)
        /\ httpd_json_payload'.len = httpd_json_payload.len
    BY <1>0 DEF Close, AnswerType
  <2>3. \A x : Stale(x, c) = d <=> x = d
    BY <1>2, WebAssumption DEF Stale
  <2> QED BY <2>1, <2>2, <2>3, UntouchedKeeps DEF OwnInv
<1> QED BY <1>1, <1>2

LEMMA OwnStep == WebTypeOK /\ OwnInv /\ [Next]_vars => OwnInv'
<1> SUFFICES ASSUME WebTypeOK, OwnInv, [Next]_vars PROVE OwnInv'
  OBVIOUS
<1>1. CASE btloop_on_device_discovered \/ btloop_on_device_ready \/ btloop_on_init_complete \/ UNCHANGED vars
  BY <1>1 DEF btloop_on_device_discovered, btloop_on_device_ready, btloop_on_init_complete, vars,
              answerVars, connVars, OwnInv, IsOwn, StatusIsOwn, MessageIsOwn, PayloadIsOwn, SentIsOwn
<1> QED BY <1>1, HandlerOwn, SendOwn, CloseOwn DEF Next

(* A browser whose page was not overtaken gets its own answer, the whole of *)
(* it and nothing twice (mngr_httpd.c:74-76, 722-759).                      *)
THEOREM AnswersAreOwn == Spec => []OwnAnswer
<1>1. Init => OwnInv
  BY DEF Init, OwnInv, IsOwn, StatusIsOwn, MessageIsOwn, PayloadIsOwn, SentIsOwn
<1>2. OwnInv => OwnAnswer
  BY DEF OwnInv, IsOwn, SentIsOwn, OwnAnswer
<1> QED BY <1>1, <1>2, TypeInit, TypeStep, OwnStep, PTL DEF Spec
-----------------------------------------------------------------------------
(* Whether an OK is true. *)

(* Nobody else's status can be sent before its page is overtaken, and what *)
(* that status says was true when it was written and stays true.           *)
WShape ==
  /\ page \in [Conns -> {"none", "status", "message", "json", "sent"}]
  /\ told = [c \in Conns |-> told[c]]
  /\ overtaken \in [Conns -> BOOLEAN]

StatusHolds ==
  \A c \in Conns : page[c] = "status" /\ ~overtaken[c] /\ response_status.ok => c \notin unsaved

ToldHolds ==
  \A c \in Conns : page[c] \in {"message", "sent"} /\ ~overtaken[c] /\ told[c].ok => c \notin unsaved

WInv == WShape /\ StatusHolds /\ ToldHolds

(* A handler that opens its page on a status that holds for it, and puts   *)
(* nothing of another's in RAM, disturbs nobody.                           *)
LEMMA OpensKeeps ==
  ASSUME WInv, NEW c \in Conns, NEW first \in {"status", "json"}, NEW bytes,
         Opens(c, first, bytes),
         unsaved' \subseteq unsaved \cup {c, Nobody},
         first = "status" /\ response_status'.ok => c \notin unsaved'
  PROVE  WInv'
<1>1. WShape'
  BY DEF WInv, WShape, Opens, Nothing
<1>2. StatusHolds'
  <2> SUFFICES ASSUME NEW d \in Conns, page'[d] = "status", ~overtaken'[d], response_status'.ok
               PROVE  d \notin unsaved'
    BY DEF StatusHolds
  <2>1. CASE d = c
    BY <2>1 DEF WInv, WShape, Opens
  <2>2. CASE d # c
    BY <2>2 DEF WInv, WShape, Opens, Sending
  <2> QED BY <2>1, <2>2
<1>3. ToldHolds'
  <2> SUFFICES ASSUME NEW d \in Conns, page'[d] \in {"message", "sent"}, ~overtaken'[d], told'[d].ok
               PROVE  d \notin unsaved'
    BY DEF ToldHolds
  <2>1. d # c
    BY DEF WInv, WShape, Opens
  <2>2. page[d] = page'[d] /\ ~overtaken[d] /\ told[d] = told'[d]
    BY <2>1 DEF WInv, WShape, Opens
  <2>3. d \notin unsaved /\ d # Nobody
    BY <2>2, WebAssumption DEF WInv, ToldHolds
  <2> QED BY <2>1, <2>3
<1> QED BY <1>1, <1>2, <1>3 DEF WInv

(* What a handler that saves nothing leaves in RAM is not its connection's. *)
LEMMA NotSavedKeeps ==
  ASSUME NEW c \in Conns, NotSaved(c)
  PROVE  c \notin unsaved' /\ unsaved' \subseteq unsaved \cup {Nobody}
BY WebAssumption DEF NotSaved, Stale

(* Every handler either answers OK with nothing of its own left in RAM, or  *)
(* does not answer OK.                                                      *)
LEMMA HandlerKeeps ==
  ASSUME WInv, NEW c \in Conns, Handler(c)
  PROVE  WInv'
<1>1. ASSUME NEW ok, Response(c, ok), unsaved' \subseteq unsaved \cup {c, Nobody},
             ok => c \notin unsaved'
      PROVE  WInv'
  BY <1>1, OpensKeeps DEF Response
<1>2. ASSUME NEW len, NEW text, Json(c, len, text), NotSaved(c)
      PROVE  WInv'
  BY <1>2, OpensKeeps, NotSavedKeeps DEF Json
<1>3. CASE cgi_saveparams(c)
  BY <1>1, <1>3, NotSavedKeeps DEF cgi_saveparams, Saved
<1>4. CASE cgi_btlist(c)
  BY <1>2, <1>4 DEF cgi_btlist
<1>5. CASE cgi_btstart(c)
  BY <1>1, <1>5, NotSavedKeeps DEF cgi_btstart
<1>6. CASE cgi_btstop(c)
  BY <1>1, <1>6, NotSavedKeeps DEF cgi_btstop
<1>7. CASE cgi_btpairings(c)
  BY <1>2, <1>7 DEF cgi_btpairings
<1>8. CASE cgi_btclean(c)
  BY <1>1, <1>8 DEF cgi_btclean, Saved
<1>9. CASE cgi_btunpair(c)
  BY <1>1, <1>9, NotSavedKeeps DEF cgi_btunpair, Saved
<1> QED BY <1>3, <1>4, <1>5, <1>6, <1>7, <1>8, <1>9 DEF Handler

(* A page repeats the status as it is when its turn comes. *)
LEMMA SendKeeps ==
  ASSUME WInv, NEW c \in Conns, Send(c)
  PROVE  WInv'
<1>1. CASE SendStatus(c)
  BY <1>1 DEF SendStatus, Piece, WInv, WShape, StatusHolds, ToldHolds, answerVars
<1>2. CASE SendMessage(c)
  BY <1>2 DEF SendMessage, Piece, WInv, WShape, StatusHolds, ToldHolds, answerVars
<1>3. CASE SendPart(c)
  BY <1>3 DEF SendPart, Piece, WInv, WShape, StatusHolds, ToldHolds, answerVars
<1> QED BY <1>1, <1>2, <1>3 DEF Send

LEMMA CloseKeeps ==
  ASSUME WInv, NEW c \in Conns, Close(c)
  PROVE  WInv'
<1>1. c \notin unsaved' /\ unsaved' \subseteq unsaved \cup {Nobody}
  BY NotSavedKeeps DEF Close
<1>2. response_status'.ok = response_status.ok
  BY DEF Close
<1>3. WShape'
  BY DEF Close, WInv, WShape, Nothing
<1>4. StatusHolds' /\ ToldHolds'
  BY <1>1, <1>2, WebAssumption DEF Close, WInv, WShape, StatusHolds, ToldHolds
<1> QED BY <1>3, <1>4 DEF WInv

LEMMA WInvHolds == Spec => []WInv
<1>1. Init => WInv
  BY DEF Init, WInv, WShape, StatusHolds, ToldHolds
<1>2. WInv /\ [Next]_vars => WInv'
  <2> SUFFICES ASSUME WInv, [Next]_vars PROVE WInv'
    OBVIOUS
  <2>1. ASSUME NEW c \in Conns, Handler(c) PROVE WInv'
    BY <2>1, HandlerKeeps
  <2>2. ASSUME NEW c \in Conns, Send(c) PROVE WInv'
    BY <2>2, SendKeeps
  <2>3. ASSUME NEW c \in Conns, Close(c) PROVE WInv'
    BY <2>3, CloseKeeps
  <2>4. CASE btloop_on_device_discovered
    BY <2>4 DEF btloop_on_device_discovered, answerVars, connVars, WInv, WShape, StatusHolds, ToldHolds
  <2>5. CASE btloop_on_device_ready
    BY <2>5 DEF btloop_on_device_ready, Saved, answerVars, connVars, WInv, WShape, StatusHolds, ToldHolds
  <2>6. CASE btloop_on_init_complete
    BY <2>6 DEF btloop_on_init_complete, answerVars, connVars, WInv, WShape, StatusHolds, ToldHolds
  <2>7. CASE UNCHANGED vars
    BY <2>7 DEF vars, answerVars, connVars, WInv, WShape, StatusHolds, ToldHolds
  <2> QED BY <2>1, <2>2, <2>3, <2>4, <2>5, <2>6, <2>7 DEF Next
<1> QED BY <1>1, <1>2, PTL DEF Spec

(* A browser whose page says OK, and whose page no other request overtook,  *)
(* has nothing of its form in RAM only (mngr_httpd.c:307-381, 771-780).     *)
THEOREM OkMeansSaved == Spec => []OkIsSaved
<1>1. WInv => OkIsSaved
  BY DEF WInv, ToldHolds, OkIsSaved
<1> QED BY <1>1, WInvHolds, PTL
=============================================================================
