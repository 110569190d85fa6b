------------------------------ MODULE CJsonString ------------------------------
(***************************************************************************)
(* What parse_string, parse_hex4 and utf16_literal_to_utf8 of              *)
(* booster/src/cjson/cJSON.c make of the characters of a string, which are *)
(* bytes here: those beyond ASCII stay as they are, and nobody asks        *)
(* whether they are UTF-8.  A string s is what follows the opening quote,  *)
(* up to the zero that ends the text; the result is a sequence of          *)
(* characters and of code points, and the bytes of output they take.       *)
(*                                                                         *)
(* The output is allocated before the escapes are looked at, from a count  *)
(* of the backslashes alone, and nothing checks it afterwards.             *)
(***************************************************************************)
EXTENDS Integers, Sequences, SequencesExt

CONSTANT Raws   \* the sequences of characters a run looks at

Byte == 1 .. 255

ASSUME RawsAssumption == Raws \subseteq Seq(Byte)

Quote == 34
Backslash == 92
Letters == [b |-> 98, f |-> 102, n |-> 110, r |-> 114, t |-> 116, u |-> 117]
NoQuote == 0
-----------------------------------------------------------------------------
(* The search for the closing quote: where it is, and how many backslashes  *)
(* were skipped on the way.                                                 *)
Ends(s) ==
  LET from[i \in 1 .. Len(s) + 2] ==
        IF i > Len(s) THEN NoQuote
        ELSE IF s[i] = Quote THEN i
        ELSE from[IF s[i] = Backslash THEN i + 2 ELSE i + 1]
  IN  from[1]

Skipped(s) ==
  LET from[i \in 1 .. Len(s) + 2] ==
        IF i > Len(s) THEN 0
        ELSE IF s[i] = Quote THEN 0
        ELSE IF s[i] = Backslash THEN 1 + from[i + 2] ELSE from[i + 1]
  IN  from[1]

(* allocation_length, and one for the terminating zero. *)
Allocated(s) == Ends(s) - Skipped(s) + 1

(* parse_hex4: zero if one of the four is no hex digit. *)
HexDigit(c) ==
  IF c \in 48 .. 57 THEN c - 48
  ELSE IF c \in 65 .. 70 THEN c - 55
  ELSE IF c \in 97 .. 102 THEN c - 87
  ELSE -1

AllHex(s, i) == \A k \in i .. i + 3 : HexDigit(s[k]) >= 0

parse_hex4(s, i) ==
  IF AllHex(s, i)
  THEN 16 * (16 * (16 * HexDigit(s[i]) + HexDigit(s[i + 1])) + HexDigit(s[i + 2])) + HexDigit(s[i + 3])
  ELSE 0

(* Surrogates, 0xD800 .. 0xDBFF and 0xDC00 .. 0xDFFF, and what they make.  *)
HighHalf(code) == code \div 1024 = 54
LowHalf(code) == code \div 1024 = 55
Supplementary == 256 * 256
Joined(high, low) == Supplementary + 1024 * (high % 1024) + (low % 1024)

Bytes(code) == IF code < 128 THEN 1 ELSE IF code < 2048 THEN 2 ELSE IF code < Supplementary THEN 3 ELSE 4

(* A piece: how many characters, what they give and how many bytes that is. *)
Piece(length, code, size) == [length |-> length, codes |-> <<code>>, size |-> size]
Failure == [length |-> 0, codes |-> <<>>, size |-> 0]

Pair(first, second) == Piece(12, Joined(first, second), Bytes(Joined(first, second)))

(* Faulty variant: the second half is not asked to be one. *)
utf16_literal_to_utf8_AnySecond(s, i, end) ==
  LET first == parse_hex4(s, i + 2)
      second == parse_hex4(s, i + 8)
  IN  IF end - i < 6 \/ LowHalf(first) THEN Failure
      ELSE IF ~HighHalf(first) THEN Piece(6, first, Bytes(first))
      ELSE IF end - (i + 6) < 6 \/ s[i + 6] # Backslash \/ s[i + 7] # Letters.u THEN Failure
      ELSE Pair(first, second)

utf16_literal_to_utf8(s, i, end) ==
  LET first == parse_hex4(s, i + 2)
      second == parse_hex4(s, i + 8)
  IN  IF end - i < 6 \/ LowHalf(first) THEN Failure
      ELSE IF ~HighHalf(first) THEN Piece(6, first, Bytes(first))
      ELSE IF end - (i + 6) < 6 \/ s[i + 6] # Backslash \/ s[i + 7] # Letters.u THEN Failure
      ELSE IF ~LowHalf(second) THEN Failure
      ELSE Pair(first, second)

(* The piece at i: a character, or an escape, whose letter may be the       *)
(* closing quote when a broken \u has swallowed half an escape before it.   *)
PieceAt(s, i, end) ==
  IF s[i] # Backslash THEN Piece(1, s[i], 1)
  ELSE CASE s[i + 1] = Letters.b -> Piece(2, 8, 1)
         [] s[i + 1] = Letters.f -> Piece(2, 12, 1)
         [] s[i + 1] = Letters.n -> Piece(2, 10, 1)
         [] s[i + 1] = Letters.r -> Piece(2, 13, 1)
         [] s[i + 1] = Letters.t -> Piece(2, 9, 1)
         [] s[i + 1] \in {Quote, Backslash, 47} -> Piece(2, s[i + 1], 1)
         [] s[i + 1] = Letters.u -> utf16_literal_to_utf8(s, i, end)
         [] OTHER -> Failure

(* The second pass: what has been written when it ends, and whether at the  *)
(* quote.                                                                   *)
Written(ok, codes, size) == [ok |-> ok, codes |-> codes, size |-> size]

Unescape(s) ==
  LET end == Ends(s)
      from[i \in 1 .. Len(s) + 2] ==
        IF i >= end THEN Written(TRUE, <<>>, 0)
        ELSE LET piece == PieceAt(s, i, end)
                 rest == from[i + piece.length]
             IN  IF piece.length = 0 THEN Written(FALSE, <<>>, 0)
                 ELSE Written(rest.ok, piece.codes \o rest.codes, piece.size + rest.size)
  IN  IF end = NoQuote THEN Written(FALSE, <<>>, 0) ELSE from[1]
-----------------------------------------------------------------------------
(* JSON's own strings: what the first n characters of s stand for, if they  *)
(* are a sequence of characters and escapes.                                *)

Escaped == {98, 102, 110, 114, 116, Quote, Backslash, 47}
Meaning(c) ==
  CASE c = 98 -> 8 [] c = 102 -> 12 [] c = 110 -> 10 [] c = 114 -> 13 [] c = 116 -> 9 [] OTHER -> c

IsUnit(s, i) == /\ i + 5 <= Len(s) /\ s[i] = Backslash /\ s[i + 1] = Letters.u /\ AllHex(s, i + 2)
Unit(s, i) == parse_hex4(s, i + 2)

(* RFC 8259: a control character must be escaped.                           *)
IsControl(c) == c < 32

(* What the k-th character may end: itself, an escape, a unit, two units.   *)
EndsPlain(s, k) == s[k] \notin {Quote, Backslash} /\ ~IsControl(s[k])
EndsEscape(s, k) == k >= 2 /\ s[k - 1] = Backslash /\ s[k] \in Escaped
EndsUnit(s, k) ==
  k >= 6 /\ IsUnit(s, k - 5) /\ ~LowHalf(Unit(s, k - 5)) /\ ~HighHalf(Unit(s, k - 5))
EndsPair(s, k) ==
  /\ k >= 12 /\ IsUnit(s, k - 11) /\ IsUnit(s, k - 5)
  /\ HighHalf(Unit(s, k - 11)) /\ LowHalf(Unit(s, k - 5))

Then(readings, code) == {Append(r, code) : r \in readings}

Longer(s, k, to) ==
  UNION {IF EndsPlain(s, k) THEN Then(to[k - 1], s[k]) ELSE {},
         IF EndsEscape(s, k) THEN Then(to[k - 2], Meaning(s[k])) ELSE {},
         IF EndsUnit(s, k) THEN Then(to[k - 6], Unit(s, k - 5)) ELSE {},
         IF EndsPair(s, k) THEN Then(to[k - 12], Joined(Unit(s, k - 11), Unit(s, k - 5))) ELSE {}}

(* The readings of the first n characters: none, or the one there is. *)
Readings(s, n) ==
  LET to[k \in 0 .. n] == IF k = 0 THEN {<<>>} ELSE Longer(s, k, to)
  IN  to[n]

(* The output never outgrows its allocation. *)
EachFits ==
  \A s \in Raws : Ends(s) # NoQuote => Unescape(s).size + 1 <= Allocated(s)

(* JSON strings are read to their own closing quotes and mean what they     *)
(* should; what is accepted beyond them has a control character that is not *)
(* escaped, or a \u without four hex digits, which counts as U+0000.        *)
EachDecodes ==
  \A s \in Raws :
    LET quotes == {q \in DOMAIN s : s[q] = Quote /\ Readings(s, q - 1) # {}}
    IN  IF quotes # {}
        THEN quotes = {Ends(s)} /\ Unescape(s).ok
             /\ Readings(s, Ends(s) - 1) = {Unescape(s).codes}
        ELSE Unescape(s).ok =>
             \/ \E i \in 1 .. Ends(s) - 1 : IsControl(s[i])
             \/ \E i \in 1 .. Len(s) - 5 : s[i] = Backslash /\ s[i + 1] = Letters.u /\ ~AllHex(s, i + 2)
=============================================================================
