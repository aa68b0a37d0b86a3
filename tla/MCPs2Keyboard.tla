--------------------------- MODULE MCPs2Keyboard ---------------------------
(* A receiver of one data bit and four slots, on every line and with every *)
(* reader.                                                                 *)
EXTENDS Ps2Keyboard

MCBreak == <<1>>
=============================================================================
