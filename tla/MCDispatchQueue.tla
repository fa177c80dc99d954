--------------------------- MODULE MCDispatchQueue ---------------------------
(* Instances of DispatchQueue for TLC.  The cfg files give the constants. *)
EXTENDS DispatchQueue, TLC
==============================================================================
