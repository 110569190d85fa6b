---------------------------- MODULE MCDhcpServer ----------------------------
(* The DHCP server with model-value clients, which it treats alike. *)
EXTENDS DhcpServer, TLC

ClientSymmetry == Permutations(Clients)
=============================================================================
