--------------------------- MODULE KeyboardBoard ---------------------------
(***************************************************************************)
(* npc/E5-2/7-keyboard/csrc/main.cpp: the simulation loop that clocks the  *)
(* keyboard circuit beside the virtual board's keyboard.                   *)
(*                                                                         *)
(* reset() runs the first cycles with rst low and leaves it high, which is *)
(* this design's reset; afterwards rst belongs to the board switch the pin *)
(* constraints bind it to.                                                 *)
(***************************************************************************)
EXTENDS KeyboardTop, NvboardKeyboard, SequencesExt

CONSTANTS ResetCycles,  \* cycles of reset(): 10 in the code
          MaxEvents,    \* bound on key events
          MaxToggles    \* bound on uses of the rst switch

\* The keyboard holds a bit on the line longer than the circuit takes to see it.
ASSUME HarnessAssumption == ClkNum > 1 /\ ResetCycles \in Nat

VARIABLES rst,
          n,            \* cycles reset() still has to run
          events, toggles,
          sent,         \* history: codes sent since the last reset edge
          recvd,        \* history: codes written to the ring since then
          clean         \* history: no frame was under way at that edge

harness  == <<rst, n, events, toggles>>
history  == <<sent, recvd, clean>>
vars     == <<topVars, kbVars, harness, history>>
\* One cycle of reset(n): the board is not updated.
reset == /\ n > 0
         /\ top(rst, ps2_clk, ps2_dat)
         /\ n' = n - 1
         /\ rst' = IF n = 1 THEN 1 ELSE 0
         /\ UNCHANGED <<kbVars, events, toggles, history>>

QuietLine == data_idx = 0 /\ ps2_clk_sync = <<ps2_clk, ps2_clk, ps2_clk>>

Record ==
    IF rst = 1
    THEN sent' = <<>> /\ recvd' = <<>> /\ clean' = QuietLine'
    ELSE /\ sent' = IF Len(all_keys') < Len(all_keys)
                    THEN Append(sent, Head(all_keys)) ELSE sent
         /\ recvd' = IF Pushes(ps2_dat') THEN Append(recvd, ReceivedCode) ELSE recvd
         /\ UNCHANGED clean

\* One turn of the main loop: nvboard_update, then step_sim on the new pins.
step_sim == /\ n = 0
            /\ kb_update
            /\ top(rst, ps2_clk', ps2_dat')
            /\ Record
            /\ UNCHANGED harness

\* A key event read_event takes from SDL.  SDL repeats KEYDOWN while a key is
\* held; a release comes without its press where the terminal had the focus at
\* the press and has lost it since.  (Whether the event comes before or after
\* this turn's step_sim makes no difference: only the next kb_update looks at
\* the queue.)
KeyEvent == /\ n = 0 /\ events < MaxEvents
            /\ events' = events + 1
            /\ \E k \in Key, is_keydown \in BOOLEAN : push_key(k, is_keydown)
            /\ UNCHANGED <<topVars, rst, n, toggles, history>>

\* The switch bound to rst is flipped.
ToggleRst == /\ n = 0 /\ toggles < MaxToggles
             /\ rst' = 1 - rst
             /\ toggles' = toggles + 1
             /\ UNCHANGED <<topVars, kbVars, n, events, history>>

Init == /\ TopInit /\ KbInit
        /\ rst = 0 /\ n = ResetCycles /\ events = 0 /\ toggles = 0
        /\ sent = <<>> /\ recvd = <<>> /\ clean = TRUE

Next == reset \/ step_sim \/ KeyEvent \/ ToggleRst

(* The loop of main.cpp never stops; nobody has to press a key.            *)
Spec == Init /\ [][Next]_vars /\ WF_vars(reset) /\ WF_vars(step_sim)

-----------------------------------------------------------------------------
(* The circuit on the board: line and ring at rest, no request pending.    *)
Settled == /\ is_kb_idle /\ QuietLine
           /\ Unread = 0 /\ nextdata_n = 1
           /\ state \in {"IDLE", "HOLD", "WAIT_REL"}

BoardTypeOK == /\ Ps2TypeOK
               /\ state \in FsmState
               /\ all_keys \in Seq(Code)
               /\ data_idx \in 0..FrameLen
               /\ left_clk \in 0..ClkNum
               /\ cur_key # NOT_A_KEY => all_keys # <<>>
               /\ ~is_kb_idle \/ all_keys = <<>>

(* Unless a reset cut a frame in two, the ring receives the codes the      *)
(* keyboard sent: in order, none twice, at most the last one still on its  *)
(* way, and none missing once the line is quiet.                           *)
LineFaithful == clean => /\ IsPrefix(recvd, sent)
                         /\ Len(sent) <= Len(recvd) + 1
                         /\ QuietLine => recvd = sent

(* The display shows a code that really arrived, not one read from a slot  *)
(* the reader had already left.                                            *)
LampShowsReceived == is_pressed = 1 => seg_data \in Range(recvd)

(* What the counter really counts: the codes that are first or come after  *)
(* a break code, so each release like a press, and no repeated code.       *)
Runs       == {i \in DOMAIN recvd : recvd[i] # BreakCode /\ (i = 1 \/ recvd[i - 1] = BreakCode)}
CountsRuns == Unread = 0 => (key_count + en_count) % CountMod = Cardinality(Runs) % CountMod

(* Every key event is sent out, received and taken from the ring.          *)
KeysReachReader == all_keys # <<>> ~> (all_keys = <<>> /\ Unread = 0)

(* What the display really says: with no code left to read, is_pressed is  *)
(* 1 exactly if the last code that came is not the break code.  A release  *)
(* ends with the key's code, so it leaves the display lit.                 *)
LastIsBreak     == recvd = <<>> \/ recvd[Len(recvd)] = BreakCode
LampFollowsLast ==
    Unread = 0 /\ state \in {"IDLE", "HOLD"} => (is_pressed = 0 <=> LastIsBreak)

(* keyboard_fsm.v declares is_pressed as 1 while a key is down and 0 once  *)
(* it is released: when the last thing received is a key's press and its   *)
(* release (the code, the break code, the code again), no key is down and  *)
(* everything has settled, it must be 0.                                   *)
ReleaseReceived == LET l == Len(recvd)
                   IN  l > 2 /\ recvd[l - 1] = BreakCode /\ recvd[l - 2] = recvd[l]
ReleasedMeansDark ==
    pressing = {} /\ clean /\ ReleaseReceived /\ Settled => is_pressed = 0
=============================================================================
