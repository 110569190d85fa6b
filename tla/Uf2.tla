----------------------------------- MODULE Uf2 -----------------------------------
(***************************************************************************)
(* The tools that make an image for the board out of two (build_uf2.py,    *)
(* merge_uf2.py).  A file is a sequence of blocks, each of which carries a *)
(* few bytes for an address of the flash.                                  *)
(***************************************************************************)
EXTENDS Integers, Sequences, FiniteSetsExt

CONSTANTS
  PAYLOAD_SIZE,
  MaxPayload,            \* what fits between the header and the end marker
  FLASH_END_ADDR,        \* merge_uf2.py, inclusive
  IGNORE_ADDR_FROM,
  ERASE_START_ADDRESS,   \* build_uf2.py
  ERASE_END_ADDRESS

(* UF2Block; a block is zero if a tool made it, to hold nothing but zeros. *)
Block == [at : Nat, size : Nat \ {0}, start : BOOLEAN, end : BOOLEAN, zero : BOOLEAN,
          num : Nat, of : Nat]

LastOf(b) == b.at + b.size - 1

(* The loops that append the blocks at the chosen places to a list. *)
Selected(file, chosen) ==
  LET upTo[k \in 0 .. Len(file)] ==
        IF k = 0 THEN <<>>
        ELSE IF k \in chosen THEN Append(upTo[k - 1], file[k]) ELSE upTo[k - 1]
  IN  upTo[Len(file)]

(* read_uf2_blocks of the two tools. *)
IsValidUf2(b) == b.start /\ b.end /\ b.size \in 1 .. MaxPayload
ReadForBuild(file) == Selected(file, {k \in DOMAIN file : IsValidUf2(file[k])})
ReadForMerge(file) ==
  Selected(file, {k \in DOMAIN file : file[k].start /\ file[k].at < IGNORE_ADDR_FROM})

(* Blocks of zeros from an address to another. *)
Zeroed(first, last) ==
  [k \in 1 .. (last - first) \div PAYLOAD_SIZE + 1 |->
     LET at == first + (k - 1) * PAYLOAD_SIZE
     IN  [at |-> at, size |-> Min({PAYLOAD_SIZE, last - at + 1}),
          start |-> TRUE, end |-> TRUE, zero |-> TRUE, num |-> 0, of |-> 0]]

(* Faulty variant: the blocks keep the numbers of their files. *)
Numbered_Total(blocks) == [k \in DOMAIN blocks |-> [blocks[k] EXCEPT !.of = Len(blocks)]]

Numbered(blocks) ==
  [k \in DOMAIN blocks |-> [blocks[k] EXCEPT !.num = k - 1, !.of = Len(blocks)]]
-----------------------------------------------------------------------------
(* build_uf2.py. *)

Below(blocks, address) == Selected(blocks, {k \in DOMAIN blocks : LastOf(blocks[k]) < address})

(* validate_uf2_file. *)
IsValidFile(file) ==
  /\ file # <<>>
  /\ \A k \in DOMAIN file : IsValidUf2(file[k]) /\ file[k].of = Len(file)
  /\ Cardinality({file[k].num : k \in DOMAIN file}) = Len(file)

(* Faulty variant: the ends of the erase region are swapped. *)
Build_Swapped(a, b, includeErase) ==
  LET both == ReadForBuild(a) \o ReadForBuild(b)
  IN  Numbered(IF includeErase THEN both \o Zeroed(ERASE_END_ADDRESS, ERASE_START_ADDRESS)
               ELSE Below(both, ERASE_START_ADDRESS))

Build(a, b, includeErase) ==
  LET both == ReadForBuild(a) \o ReadForBuild(b)
  IN  Numbered(IF includeErase THEN both \o Zeroed(ERASE_START_ADDRESS, ERASE_END_ADDRESS)
               ELSE Below(both, ERASE_START_ADDRESS))
-----------------------------------------------------------------------------
(* merge_uf2.py. *)

Starts(blocks) == Min({blocks[k].at : k \in DOMAIN blocks})
Ends(blocks) == Max({LastOf(blocks[k]) : k \in DOMAIN blocks})

IsRefused(a, b) ==
  \/ a = <<>> \/ b = <<>>
  \/ Ends(a) >= Starts(b)
  \/ Ends(b) > FLASH_END_ADDR

MergeBlocks(first, second) ==
  LET gap == IF Ends(first) + 1 <= Starts(second) - 1
             THEN Zeroed(Ends(first) + 1, Starts(second) - 1) ELSE <<>>
      tail == IF Ends(second) < FLASH_END_ADDR
              THEN Zeroed(Ends(second) + 1, FLASH_END_ADDR) ELSE <<>>
  IN  Numbered(first \o gap \o second \o tail)

Merge(a, b) == MergeBlocks(ReadForMerge(a), ReadForMerge(b))
MayMerge(a, b) == ~IsRefused(ReadForMerge(a), ReadForMerge(b))
=============================================================================
