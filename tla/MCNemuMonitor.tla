--------------------------- MODULE MCNemuMonitor ---------------------------
(* Two mapped keys, a ring of three slots, and a checkregs that may give   *)
(* either verdict.                                                         *)
EXTENDS NemuMonitor

=============================================================================
