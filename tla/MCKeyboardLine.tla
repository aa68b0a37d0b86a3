--------------------------- MODULE MCKeyboardLine ---------------------------
(* The circuit on every line, with one-bit codes and four slots: frames are *)
(* four bits long, and so arrive as fast as the line allows.                *)
EXTENDS KeyboardTop

MCBreak == <<1>>
=============================================================================
