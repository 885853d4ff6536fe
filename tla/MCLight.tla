------------------------------ MODULE MCLight ------------------------------
(* The lamp starts at the lower end of the advertised range; its upper end,  *)
(* and pure red.                                                             *)
EXTENDS Light

temps == {20000}
colours == {[h |-> 0, s |-> 15, l |-> 7]}
=============================================================================
