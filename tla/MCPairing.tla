------------------------------- MODULE MCPairing -------------------------------
(***************************************************************************)
(* A keyboard, a device of the combined keyboard and mouse class, which    *)
(* takes two entries and competes with the keyboard for one, and a gamepad.*)
(***************************************************************************)
EXTENDS Pairing

CONSTANTS kb, combo, pad

MCDevices == {kb, combo, pad}
MCMinorBits == [d \in MCDevices |-> IF d = pad THEN {"gamepad"} ELSE {"keyboard"}]
MCKnownAs == [d \in MCDevices |-> IF d = kb THEN "Keyboard" ELSE None]
=============================================================================
