------------------------------ MODULE ScanCode ------------------------------
(* The values the keyboard circuit and the virtual board exchange: bits,   *)
(* and scan codes as sequences of bits, least significant bit first.       *)
EXTENDS Integers, Sequences, FiniteSets

CONSTANTS DataBits,    \* bits of a scan code: 8 in the code
          BreakCode    \* 8'hF0, sent before the code of a released key

Bit      == {0, 1}
Code     == [1..DataBits -> Bit]
ZeroCode == [i \in 1..DataBits |-> 0]

ASSUME CodeAssumption == DataBits \in Nat \ {0} /\ BreakCode \in Code
=============================================================================
