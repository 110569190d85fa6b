----------------------------- MODULE MCStaConnect -----------------------------
(* Three attempts of six turns, the driver asked every two. *)
EXTENDS StaConnect
=============================================================================
