------------------------------ MODULE MCSettings ------------------------------
(* The settings store on the firmware's own layout: 26 entries of 127 bytes, *)
(* keys as long as those of gconfig.c:3-31, 16 pages of 256 bytes; and the   *)
(* images of the UF2 tools on a flash of 53 bytes, with the sector in it.    *)
EXTENDS Install

\* MAGICVERSION, then gconfig.c:4-30 in order.
MCKeyLen == [i \in 0 .. 25 |->
  <<12, 12, 8, 9, 20, 12, 13, 17, 9, 9, 4, 11, 13, 11, 12, 17, 18, 14, 10, 7,
    12, 10, 11, 8, 10, 16>>[i + 1]]

MCDefaults == [i \in 0 .. 25 |-> IF i = 0 THEN "magic" ELSE "default"]
MCValues == {"magic", "default", "new"}

\* BOOT_FEATURE (inside page 0), MODE (a page boundary inside its key, after the
\* final NUL: only the type check stops the loader there) and the last entry.
MCPuts == {1, 10, 25} \X {"default", "new"}

\* An erase cut short spares pages at the front, at the back, or around a gap.
MCCutErases == {0 .. 4, 0 .. 15, 1 .. 15, 0 .. 1 \cup 5 .. 15}

\* A block of a program.
MCBlock(at, size) ==
  [at |-> at, size |-> size, start |-> TRUE, end |-> TRUE, zero |-> FALSE, num |-> 0, of |-> 1]

\* Two programs with a gap; two that touch, after a short block; one that reaches
\* the erase region, with a block the readers do not agree on and one beyond the
\* flash; one inside the settings sector; one with a hole over it; and two in the
\* wrong order.
MCFiles ==
  LET p(at) == MCBlock(at, 2)
  IN  {<< <<p(0), p(2)>>, <<p(11), p(13)>> >>,
       << <<p(0), MCBlock(2, 1)>>, <<MCBlock(3, 3)>> >>,
       << <<p(0), [p(2) EXCEPT !.end = FALSE]>>, <<p(21), p(23), p(25), p(90)>> >>,
       << <<p(0)>>, <<p(20), p(41)>> >>,
       << <<p(0)>>, <<p(38), p(48)>> >>,
       << <<p(8)>>, <<p(2)>> >>}

\* Two programs with a gap, the first of which has a hole.
MCMerged == {<< <<MCBlock(0, 2), MCBlock(4, 2)>>, <<MCBlock(11, 2), MCBlock(13, 2)>> >>}
=============================================================================
