--------------------------------- MODULE Install ---------------------------------
(***************************************************************************)
(* Images and the settings of the board they are copied to.  The board is  *)
(* in its boot loader then, and no firmware runs.  The boot loader writes  *)
(* block after block, erasing a sector before the first block it writes    *)
(* there, and the copy may be broken off after any of them.                *)
(***************************************************************************)
EXTENDS Settings, Uf2

CONSTANTS
  Files,        \* the pairs of files the tools are given
  SectorFirst,  \* GLOBAL_CONFIG_FLASH of memmap_booster.ld: first byte
  SectorLast,   \* and last byte
  FLASH_BASE_ADDR,  \* merge_uf2.py
  DocumentedEnd,    \* where the docstring of merge_uf2.py ends the flash
  BreakOffs,    \* the numbers of blocks after which a copying may be broken off
  NoImage

VARIABLE image   \* history: the image that was just copied, of what, and how far

installVars == <<ram, flash, cursor, image>>

(* What the tools make of two files, if they do not refuse them. *)
Built(a, b, erase) ==
  LET blocks == Build(a, b, erase)
  IN  IF IsValidFile(blocks)
      THEN {[blocks |-> blocks, from |-> <<ReadForBuild(a), ReadForBuild(b)>>,
             tool |-> IF erase THEN "build --include-erase" ELSE "build"]}
      ELSE {}

Merged(a, b) ==
  IF MayMerge(a, b)
  THEN {[blocks |-> Merge(a, b), from |-> <<ReadForMerge(a), ReadForMerge(b)>>, tool |-> "merge"]}
  ELSE {}

Images ==
  UNION {Built(f[1], f[2], FALSE) \cup Built(f[1], f[2], TRUE) \cup Merged(f[1], f[2]) : f \in Files}

WritesSector(b) == b.at <= SectorLast /\ SectorFirst <= LastOf(b)

(* The first n blocks of an image are copied.  A second image right after a  *)
(* first finds a sector that it could have found before, and is left out.    *)
Copy(i, n) ==
  /\ ram = NoTable /\ Idle
  /\ image = NoImage
  /\ flash' = IF \E k \in 1 .. n : WritesSector(i.blocks[k]) THEN Blank ELSE flash
  /\ image' = [blocks |-> i.blocks, from |-> i.from, tool |-> i.tool,
               whole |-> n = Len(i.blocks)]
  /\ UNCHANGED <<ram, cursor>>

InstallInit == Init /\ image = NoImage
InstallNext ==
  \/ Next /\ image' = NoImage
  \/ \E i \in Images : \E n \in (BreakOffs \cap 1 .. Len(i.blocks)) \cup {Len(i.blocks)} : Copy(i, n)

InstallSpec == InstallInit /\ [][InstallNext]_installVars
-----------------------------------------------------------------------------
ASSUME InstallAssumption ==
  /\ PAYLOAD_SIZE \in Nat \ {0} /\ MaxPayload \in Nat /\ MaxPayload >= PAYLOAD_SIZE
  /\ {SectorFirst, SectorLast, ERASE_START_ADDRESS, ERASE_END_ADDRESS, FLASH_END_ADDR,
      IGNORE_ADDR_FROM, FLASH_BASE_ADDR, DocumentedEnd} \subseteq Nat
  /\ ERASE_START_ADDRESS <= SectorFirst /\ SectorFirst < SectorLast
  /\ SectorLast <= ERASE_END_ADDRESS
  /\ ERASE_END_ADDRESS < FLASH_END_ADDR /\ FLASH_END_ADDR < IGNORE_ADDR_FROM

(* The files come from the linker: each block carries bytes of a program. *)
ASSUME FilesAssumption ==
  \A f \in Files : \A program \in {f[1], f[2]} :
    program \in Seq(Block) /\ \A k \in DOMAIN program : ~program[k].zero

Bytes(b) == b.at .. LastOf(b)
AllBytes(blocks) == UNION {Bytes(blocks[k]) : k \in DOMAIN blocks}
AreApart(blocks) == \A j, k \in DOMAIN blocks : j # k => Bytes(blocks[j]) \cap Bytes(blocks[k]) = {}

(* Whatever two files the tools are given, an image they put out counts its *)
(* blocks.  A merged one holds every byte of the two programs, once, with   *)
(* no zero on top of any, and fills what lies between the programs and      *)
(* behind them up to FLASH_END_ADDR; one built without --include-erase      *)
(* holds just what the programs have below ERASE_START_ADDRESS, in whole    *)
(* blocks (merge_uf2.py:41, 159-187, build_uf2.py:236-242).  The docstring  *)
(* of merge_uf2.py asks for something else: see MergedAsDocumented.         *)
ImageIsWhole ==
  image # NoImage =>
    LET blocks == image.blocks
        zeros == {k \in DOMAIN blocks : blocks[k].zero}
        bytes == AllBytes(blocks)
        from == image.from[1] \o image.from[2]
        given == AllBytes(from)
    IN  /\ \A k \in DOMAIN blocks : blocks[k].num = k - 1 /\ blocks[k].of = Len(blocks)
        /\ image.tool = "merge" =>
             /\ bytes = given \cup (Ends(image.from[1]) .. Starts(image.from[2]))
                              \cup (Ends(image.from[2]) .. FLASH_END_ADDR)
             /\ \A k \in zeros : Bytes(blocks[k]) \cap given = {}
             /\ AreApart(from) => AreApart(blocks)
        /\ image.tool = "build" =>
             /\ bytes \subseteq given
             /\ \A x \in bytes : x < ERASE_START_ADDRESS
             /\ \A k \in DOMAIN from :
                  LastOf(from[k]) < ERASE_START_ADDRESS => Bytes(from[k]) \subseteq bytes

(* merge_uf2.py:14-18: zero blocks are generated "up to the end of the flash *)
(* region used here (0x101E0000 inclusive)", so that "every block from       *)
(* 0x10000000 to 0x101E0000 is represented".                                 *)
MergedAsDocumented ==
  image # NoImage /\ image.tool = "merge" =>
    AllBytes(image.blocks) = FLASH_BASE_ADDR .. DocumentedEnd

(* An update, built without --include-erase, leaves the board's settings as *)
(* they were, whatever the programs reach and wherever its copying is       *)
(* broken off; an image with the erase region, and a merged one of programs *)
(* that do not reach beyond the settings, leave the next start the defaults *)
(* once they are copied, and before that either all the settings or none    *)
(* (build_uf2.py:80-94, 211-241, merge_uf2.py:149-205).                     *)
KeptOrCleared ==
  [][image' # NoImage =>
       LET kept == Load(flash') = Load(flash)
           cleared == Load(flash') = Defaults
           from == image'.from[1] \o image'.from[2]
       IN  /\ kept \/ cleared
           /\ image'.tool = "build" => kept
           /\ image'.tool = "build --include-erase" /\ image'.whole => cleared
           /\ image'.tool = "merge" /\ image'.whole
                /\ (\A k \in DOMAIN from : LastOf(from[k]) <= SectorLast) => cleared]_installVars
=============================================================================
