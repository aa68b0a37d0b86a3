-------------------------- MODULE NvboardKeyboard --------------------------
(***************************************************************************)
(* nvboard/src/keyboard.cpp: the PS/2 keyboard of the virtual board.  Key  *)
(* events queue scan codes; update_state, called once per simulated cycle  *)
(* while the keyboard is not idle, sends them bit by bit on the pins       *)
(* PS2_CLK and PS2_DAT.  PS2_CLK rests low: a frame is eleven periods of   *)
(* high then low, the data changing where the clock rises.                 *)
(***************************************************************************)
EXTENDS ScanCode

CONSTANTS ClkNum,      \* CLK_NUM: calls between two edges of PS2_CLK
          Key,         \* the keys of the keyboard
          map0, map1,  \* their first and second scan code
          ExtendCode   \* 0xe0, first code of a key with two

ASSUME KeyboardAssumption == /\ ClkNum \in Nat
                             /\ map0 \in [Key -> Code]
                             /\ map1 \in [Key -> Code]
                             /\ ExtendCode \in Code

VARIABLES all_keys,   \* codes to send, the one being sent in front
          cur_key,    \* bits of the current code still to send, or NOT_A_KEY
          data_idx,   \* bit of the frame to send next
          left_clk,   \* calls until the next edge
          is_kb_idle,
          pressing,   \* history: keys whose press came, and no release since
          ps2_clk, ps2_dat

kbVars == <<all_keys, cur_key, data_idx, left_clk, is_kb_idle, pressing, ps2_clk, ps2_dat>>

NOT_A_KEY == <<-1>>
PS2_PARTIAL == DataBits + 1
PS2_STOP    == DataBits + 2
FrameLen    == DataBits + 3

ScanCodes(k, is_keydown) ==
    LET ext == map0[k] = ExtendCode
    IN  (IF ext THEN <<ExtendCode>> ELSE <<>>)
          \o (IF is_keydown THEN <<>> ELSE <<BreakCode>>)
          \o <<IF ext THEN map1[k] ELSE map0[k]>>

push_key_unwoken(k, is_keydown) ==
    /\ all_keys' = all_keys \o ScanCodes(k, is_keydown)
    /\ pressing' = IF is_keydown THEN pressing \cup {k} ELSE pressing \ {k}
    /\ UNCHANGED <<is_kb_idle, cur_key, data_idx, left_clk, ps2_clk, ps2_dat>>

push_key(k, is_keydown) ==
    /\ all_keys' = all_keys \o ScanCodes(k, is_keydown)
    /\ is_kb_idle' = FALSE
    /\ pressing' = IF is_keydown THEN pressing \cup {k} ELSE pressing \ {k}
    /\ UNCHANGED <<cur_key, data_idx, left_clk, ps2_clk, ps2_dat>>

Xor(code) == Cardinality({i \in 1..DataBits : code[i] = 1}) % 2

FrameBit(code) == CASE data_idx = PS2_PARTIAL -> 1 - Xor(Head(all_keys))
                    [] data_idx = PS2_STOP -> 1
                    [] data_idx \in 1..DataBits -> Head(code)
                    [] OTHER -> 0

\* An edge of PS2_CLK: a bit is put on PS2_DAT where it rises, the code is
\* done where it falls for the last time.  code is cur_key, already loaded.
clk_edge(code) ==
    /\ ps2_clk' = 1 - ps2_clk
    /\ left_clk' = ClkNum
    /\ \/ /\ ps2_clk = 0
          /\ ps2_dat' = FrameBit(code)
          /\ cur_key' = IF data_idx \in 1..DataBits THEN Tail(code) ELSE code
          /\ data_idx' = data_idx + 1
          /\ UNCHANGED all_keys
       \/ /\ ps2_clk = 1 /\ data_idx = FrameLen
          /\ data_idx' = 0
          /\ cur_key' = NOT_A_KEY
          /\ all_keys' = Tail(all_keys)
          /\ UNCHANGED ps2_dat
       \/ /\ ps2_clk = 1 /\ data_idx # FrameLen
          /\ cur_key' = code
          /\ UNCHANGED <<data_idx, all_keys, ps2_dat>>

update_state ==
    LET loading == cur_key = NOT_A_KEY
        code    == IF loading THEN Head(all_keys) ELSE cur_key
        clks    == IF loading THEN ClkNum ELSE left_clk
    IN  \/ /\ loading /\ all_keys = <<>>
           /\ is_kb_idle' = TRUE
           /\ UNCHANGED <<all_keys, cur_key, data_idx, left_clk, pressing, ps2_clk, ps2_dat>>
        \/ /\ ~(loading /\ all_keys = <<>>)
           /\ \/ clks = 0 /\ clk_edge(code)
              \/ /\ clks # 0
                 /\ cur_key' = code
                 /\ left_clk' = clks - 1
                 /\ UNCHANGED <<all_keys, data_idx, ps2_clk, ps2_dat>>
           /\ UNCHANGED <<is_kb_idle, pressing>>

\* kb_update as nvboard_update calls it.
kb_update == IF is_kb_idle THEN UNCHANGED kbVars ELSE update_state

KbInit == /\ all_keys = <<>> /\ cur_key = NOT_A_KEY
          /\ data_idx = 0 /\ left_clk = 0 /\ is_kb_idle = TRUE
          /\ pressing = {}
          /\ ps2_clk = 0 /\ ps2_dat = 0
=============================================================================
