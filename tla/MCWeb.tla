--------------------------------- MODULE MCWeb ---------------------------------
(* Two connections and two devices.  Two short entries fill the payload to *)
(* one byte short of full, where the closing characters no longer both     *)
(* fit; a short and a long fill it, two long ones overflow it.  A payload  *)
(* is one part of three bytes to three.                                    *)
EXTENDS Web
=============================================================================
