---------------------------- MODULE KeyboardTop ----------------------------
(***************************************************************************)
(* npc/E5-2/7-keyboard/vsrc/top.v: the receiver and the state machine      *)
(* wired together, with the counter of key presses.  LineSpec puts the     *)
(* circuit on an arbitrary line: every clock edge sees any reset, any      *)
(* PS2_CLK and any PS2_DAT.                                                *)
(***************************************************************************)
EXTENDS Ps2Keyboard, KeyboardFsm

CONSTANT CountMod     \* 2^8: values of the press counter

ASSUME CountAssumption == CountMod \in Nat \ {0}

VARIABLE key_count    \* top's register count

topVars == <<ps2Vars, fsmVars, key_count>>

\* posedge clk of the whole circuit with the given pins.
top(rst, ps2_clk, ps2_data) ==
    /\ ps2_keyboard(1 - rst, ps2_clk, ps2_data, nextdata_n)
    /\ keyboard_fsm(rst, data, ready, overflow)
    /\ key_count' = IF rst = 1 THEN 0 ELSE (key_count + en_count) % CountMod

TopInit == Ps2Init /\ FsmInit /\ key_count = 0

LineNext == \E rst, ps2_clk, ps2_data \in Bit : top(rst, ps2_clk, ps2_data)

LineSpec == TopInit /\ [][LineNext]_topVars

-----------------------------------------------------------------------------
(* Whatever the line does, the state machine empties the ring faster than  *)
(* frames can fill it: at most one code ever waits, and the overflow reset *)
(* of keyboard_fsm.v is never needed.                                      *)
ReaderKeepsUp == overflow = 0 /\ Unread <= 1

(* A code leaves the ring only on an edge at which the machine is in a     *)
(* state that looks at it: although the requests are registered and so one *)
(* state late, none of them swallows a code unseen.                        *)
NoCodeTakenUnseen == Pops(nextdata_n) => state \in {"IDLE", "HOLD", "WAIT_REL"}
=============================================================================
