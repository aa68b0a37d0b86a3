---------------------------- MODULE KeyboardFsm ----------------------------
(***************************************************************************)
(* npc/E5-2/7-keyboard/vsrc/keyboard_fsm.v: the reader of the receiver's   *)
(* ring.  It lights the display while a key is down and pulses en_count    *)
(* once per press.  The state moves on the inputs of the edge; the outputs *)
(* are registers too, so nextdata_n goes low one edge after the machine    *)
(* enters an ACK state, when the machine is already one state further.     *)
(***************************************************************************)
EXTENDS ScanCode

VARIABLES state, nextdata_n, en_count, seg_data, is_pressed

fsmVars == <<state, nextdata_n, en_count, seg_data, is_pressed>>

FsmState == {"IDLE", "ACK_MAKE", "HOLD", "ACK_REP", "ACK_F0", "WAIT_REL", "ACK_REL"}

\* The states that take a code from the ring, and where each goes next.
AckState_no_rep == {"ACK_MAKE", "ACK_F0", "ACK_REL"}
AckState        == {"ACK_MAKE", "ACK_REP", "ACK_F0", "ACK_REL"}

after_ack_unheld  == CASE state = "ACK_F0" -> "WAIT_REL"
                       [] state = "ACK_REP" -> "HOLD"
                       [] OTHER -> "IDLE"
after_ack_no_wait == CASE state = "ACK_F0" -> "ACK_REL"
                       [] state = "ACK_REL" -> "IDLE"
                       [] OTHER -> "HOLD"
after_ack         == CASE state = "ACK_F0" -> "WAIT_REL"
                       [] state = "ACK_REL" -> "IDLE"
                       [] OTHER -> "HOLD"

\* The second always block: the next state.
next_state(data, ready) ==
    CASE state = "IDLE" /\ ready = 1 ->
             IF data = BreakCode THEN "ACK_F0" ELSE "ACK_MAKE"
      [] state = "HOLD" /\ ready = 1 ->
             IF data = BreakCode THEN "ACK_F0" ELSE "ACK_REP"
      [] state = "WAIT_REL" /\ ready = 1 -> "ACK_REL"
      [] state \in AckState -> after_ack
      [] OTHER -> state

\* The third always block: the output registers.
keyboard_fsm_out(data, ready) ==
    LET make == state = "IDLE" /\ ready = 1 /\ data # BreakCode
    IN  /\ nextdata_n' =
             IF state \in AckState THEN 0 ELSE 1
        /\ en_count' = CASE make -> 1
                         [] ~make /\ state \in {"IDLE", "ACK_MAKE"} -> 0
                         [] OTHER -> en_count
        /\ is_pressed' = CASE make -> 1
                           [] ~make /\ state \in {"IDLE", "ACK_REL"} -> 0
                           [] OTHER -> is_pressed
        /\ seg_data' = IF make THEN data ELSE seg_data

\* posedge clk with the given inputs; overflow is a reset.
keyboard_fsm(rst, data, ready, overflow) ==
    \/ /\ rst = 1 \/ overflow = 1
       /\ state' = "IDLE"
       /\ nextdata_n' = 1 /\ en_count' = 0 /\ is_pressed' = 0
       /\ seg_data' = ZeroCode
    \/ /\ rst = 0 /\ overflow = 0
       /\ state' = next_state(data, ready)
       /\ keyboard_fsm_out(data, ready)

FsmInit == /\ state = "IDLE"
           /\ nextdata_n = 0 /\ en_count = 0 /\ is_pressed = 0
           /\ seg_data = ZeroCode
=============================================================================
