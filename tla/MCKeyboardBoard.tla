-------------------------- MODULE MCKeyboardBoard --------------------------
(* The board at the code's sizes: eight-bit codes, eight slots; the key A  *)
(* and the cursor key UP, which has an extended code.                      *)
EXTENDS KeyboardBoard

CONSTANTS A, UP
Byte(v) == [i \in 1..8 |-> (v \div 2^(i - 1)) % 2]
MCBreak  == Byte(240)
MCExtend == Byte(224)
MCmap0   == [k \in {A, UP} |-> IF k = A THEN Byte(28) ELSE MCExtend]
MCmap1   == [k \in {A, UP} |-> IF k = A THEN Byte(0) ELSE Byte(117)]
=============================================================================
