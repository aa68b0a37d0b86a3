---------------------------- MODULE KeyboardProofs ---------------------------
(***************************************************************************)
(* Theorems about the keyboard circuit on every line, and on the virtual   *)
(* board's keyboard, for every code width, ring size, keyboard and speed.  *)
(*                                                                         *)
(* ReaderKeepsUp is not inductive: it does not say why no frame can end    *)
(* while a code waits.  Pace does: after the edge that wrote the code, the *)
(* machine needs at most three more edges to take it, and in three edges   *)
(* the line can deliver one bit at most.                                   *)
(*                                                                         *)
(* For the board, Sender says where the keyboard is in its frame, Timing   *)
(* that an edge of the line is two turns old before the next, and Aligned  *)
(* which of the frame's bits the receiver has: it is at most one falling   *)
(* edge behind, so that a code it completes is the one that was sent.      *)
(***************************************************************************)
EXTENDS KeyboardBoard, Ps2KeyboardProofs, FiniteSetTheorems

Deciding == {"IDLE", "HOLD", "WAIT_REL"}

\* What the counters of the receiver are known to be.
Counting == /\ count \in 0..StopBit
            /\ w_ptr \in Ptr /\ r_ptr \in Ptr
            /\ ready \in Bit /\ nextdata_n \in Bit
            /\ state \in FsmState

\* At most one code waits, and the flag is down.
OneWaits == /\ overflow = 0
            /\ ready = 0 => w_ptr = r_ptr
            /\ ready = 1 => w_ptr = Succ(r_ptr)

\* While a code waits, how far the line can have come.
Pace == ready = 1 => \/ state \in Deciding /\ nextdata_n = 1 /\ count = 0 /\ ~sampling
                     \/ state \notin Deciding /\ count = 0
                     \/ state \in Deciding /\ nextdata_n = 0 /\ count <= 1

LineInv == Counting /\ OneWaits /\ Pace /\ NoCodeTakenUnseen

LEMMA LineInvInit == TopInit => LineInv
BY CodeAssumption, DepthAssumption
DEF TopInit, Ps2Init, FsmInit, LineInv, Counting, OneWaits, Pace, NoCodeTakenUnseen,
    Pops, StopBit, Ptr, Bit, FsmState

(* An edge with reset starts over. *)
LEMMA LineInvReset ==
    ASSUME LineInv, NEW clk \in Bit, NEW dat \in Bit, top(1, clk, dat)
    PROVE  LineInv'
BY CodeAssumption, DepthAssumption
DEF top, ps2_keyboard, ps2_keyboard_reset, keyboard_fsm, LineInv, Counting, OneWaits,
    Pace, NoCodeTakenUnseen, Pops, StopBit, Ptr, Bit, FsmState

(* An edge without reset. *)
LEMMA LineInvEdge ==
    ASSUME LineInv, NEW clk \in Bit, NEW dat \in Bit, top(0, clk, dat)
    PROVE  LineInv'
<1> DEFINE push == Pushes(dat)
           pop  == Pops(nextdata_n)
<1> USE DEF LineInv
<1>1. /\ ps2_clk_sync' = <<clk, ps2_clk_sync[1], ps2_clk_sync[2]>>
      /\ count' = IF sampling THEN IF count # StopBit THEN count + 1 ELSE 0 ELSE count
      /\ ps2_keyboard_ring(push, pop)
  BY DEF top, ps2_keyboard, ps2_keyboard_frame
<1>2. state' = next_state(data, ready) /\ keyboard_fsm_out(data, ready)
  BY DEF top, keyboard_fsm, OneWaits
<1>3. push => ready = 0
  BY CodeAssumption DEF Pushes, Pace, Counting, StopBit, Bit
<1>4. push => sampling /\ count = StopBit
  BY DEF Pushes
<1>5. sampling => ~sampling'
  BY <1>1 DEF sampling
<1>6. pop <=> ready = 1 /\ nextdata_n = 0
  BY DEF Pops
<1> HIDE DEF push, pop
<1>7. OneWaits'
  BY <1>1, <1>3, <1>6, DepthAssumption
  DEF ps2_keyboard_ring, Empties, Overflows, OneWaits, Counting, Succ, Ptr, Bit
<1>8. Counting'
  <2>1. count' \in 0..StopBit
    BY <1>1, CodeAssumption DEF Counting, StopBit
  <2>2. w_ptr' \in Ptr /\ r_ptr' \in Ptr /\ ready' \in Bit
    BY <1>1, DepthAssumption DEF ps2_keyboard_ring, Empties, Overflows, Counting, Succ, Ptr, Bit
  <2>3. nextdata_n' \in Bit /\ state' \in FsmState
    BY <1>2 DEF keyboard_fsm_out, AckState, next_state, after_ack, Counting, Bit, FsmState
  <2>4. QED
    BY <2>1, <2>2, <2>3 DEF Counting
<1>9. state \notin Deciding => state' \in Deciding /\ nextdata_n' = 0
  BY <1>2 DEF next_state, AckState, after_ack, keyboard_fsm_out, Counting, FsmState, Deciding
<1>10. state \in Deciding => /\ nextdata_n' = 1
                             /\ ready = 1 => state' \notin Deciding
                             /\ ready = 0 => state' = state
  BY <1>2 DEF next_state, AckState, after_ack, keyboard_fsm_out, Counting, FsmState, Deciding, Bit
<1>11. Pace'
  <2>1. CASE push
    <3>1. count' = 0 /\ ~sampling' /\ nextdata_n' \in {0, 1}
      BY <2>1, <1>1, <1>4, <1>5, <1>8 DEF Counting, Bit
    <3>2. state' \notin Deciding \/ (state' \in Deciding /\ nextdata_n' = 1)
            \/ (state' \in Deciding /\ nextdata_n' = 0)
      BY <3>1
    <3>3. QED
      BY <3>1, <3>2 DEF Pace
  <2>2. CASE ~push /\ ready = 0
    BY <2>2, <1>1 DEF ps2_keyboard_ring, Empties, Overflows, Pace
  <2>3. CASE ~push /\ ready = 1
    <3>1. CASE state \in Deciding /\ nextdata_n = 1 /\ count = 0 /\ ~sampling
      BY <3>1, <2>3, <1>1, <1>10 DEF Pace
    <3>2. CASE state \notin Deciding /\ count = 0
      BY <3>2, <1>1, <1>9, CodeAssumption DEF Pace, StopBit
    <3>3. CASE state \in Deciding /\ nextdata_n = 0 /\ count <= 1
      <4>1. ready' = 0
        BY <3>3, <2>3, <1>1, <1>6 DEF ps2_keyboard_ring, Empties, Overflows, OneWaits
      <4>2. QED
        BY <4>1 DEF Pace
    <3>4. QED
      BY <2>3, <3>1, <3>2, <3>3 DEF Pace
  <2>4. QED
    BY <2>1, <2>2, <2>3 DEF Counting, Bit
<1>12. NoCodeTakenUnseen'
  BY <1>9, <1>10 DEF NoCodeTakenUnseen, Pops, Deciding
<1>13. QED
  BY <1>7, <1>8, <1>11, <1>12

LEMMA LineInvariant == LineSpec => []LineInv
<1>1. LineInv /\ [LineNext]_topVars => LineInv'
  <2> SUFFICES ASSUME LineInv, [LineNext]_topVars PROVE LineInv'
    OBVIOUS
  <2>1. CASE LineNext
    BY <2>1, LineInvReset, LineInvEdge DEF LineNext, Bit
  <2>2. CASE UNCHANGED topVars
    BY <2>2 DEF topVars, ps2Vars, fsmVars, LineInv, Counting, OneWaits, Pace,
                NoCodeTakenUnseen, Pops, sampling
  <2>3. QED
    BY <2>1, <2>2
<1>2. QED
  BY <1>1, LineInvInit, PTL DEF LineSpec

(* On every line, at most one code ever waits for the state machine and    *)
(* the overflow it treats as a reset never happens.                        *)
THEOREM LineReaderKeepsUp == LineSpec => []ReaderKeepsUp
<1>1. LineInv => ReaderKeepsUp
  BY DepthAssumption
  DEF LineInv, Counting, OneWaits, ReaderKeepsUp, Unread, Succ, Ptr, Bit
<1>2. QED
  BY <1>1, LineInvariant, PTL

(* No code is taken from the ring on an edge at which the state machine    *)
(* does not look at it.                                                    *)
THEOREM LineNoCodeTakenUnseen == LineSpec => []NoCodeTakenUnseen
BY LineInvariant, PTL DEF LineInv

-----------------------------------------------------------------------------
(***************************************************************************)
(* The keyboard of the board.                                              *)
(***************************************************************************)

\* Bit i of the frame of a code, and how many data bits have been put.
BitOf(code, i) == CASE i = 0 -> 0
                    [] i \in 1..DataBits -> code[i]
                    [] i = PS2_PARTIAL -> 1 - Xor(code)
                    [] OTHER -> 1
Put == IF data_idx = 0 THEN 0 ELSE IF data_idx > DataBits THEN DataBits ELSE data_idx - 1

\* left_clk, which is stale between two codes.
Left == IF cur_key = NOT_A_KEY THEN ClkNum ELSE left_clk

Rest(code) == /\ code \in Seq(Bit) /\ Len(code) = DataBits - Put
              /\ \A j \in 1..Len(code) : code[j] = Head(all_keys)[j + Put]

SenderTypes == /\ all_keys \in Seq(Code)
               /\ data_idx \in 0..FrameLen
               /\ left_clk \in 0..ClkNum
               /\ ps2_clk \in Bit /\ ps2_dat \in Bit
               /\ is_kb_idle \in BOOLEAN

\* Where the keyboard is in its frame.
Sender == /\ SenderTypes
          /\ is_kb_idle => all_keys = <<>>
          /\ cur_key = NOT_A_KEY => data_idx = 0
          /\ cur_key # NOT_A_KEY => all_keys # <<>> /\ Rest(cur_key)
          /\ data_idx = 0 => ps2_clk = 0
          /\ data_idx = FrameLen => ps2_clk = 1
          /\ data_idx > 0 => ps2_dat = BitOf(Head(all_keys), data_idx - 1)

\* What an update can do to the line.
Holds    == /\ UNCHANGED <<all_keys, data_idx, ps2_clk, ps2_dat>>
            /\ Left' \in {Left, Left - 1}
Rises    == /\ Left = 0 /\ Left' = ClkNum
            /\ ps2_clk = 0 /\ ps2_clk' = 1
            /\ data_idx' = data_idx + 1 /\ UNCHANGED all_keys
Falls    == /\ Left = 0 /\ Left' = ClkNum
            /\ ps2_clk = 1 /\ ps2_clk' = 0
            /\ data_idx # FrameLen /\ UNCHANGED <<all_keys, data_idx, ps2_dat>>
Finishes == /\ Left = 0 /\ Left' = ClkNum
            /\ ps2_clk = 1 /\ ps2_clk' = 0
            /\ data_idx = FrameLen /\ data_idx' = 0
            /\ all_keys # <<>> /\ all_keys' = Tail(all_keys) /\ UNCHANGED ps2_dat

LEMMA NoKeySeq == ASSUME NEW s \in Seq(Bit) PROVE s # NOT_A_KEY
<1> SUFFICES ASSUME s = <<-1>> PROVE FALSE
  BY DEF NOT_A_KEY
<1>1. Len(s) = 1 /\ s[1] = -1
  OBVIOUS
<1>2. s[1] \in Bit
  BY <1>1, ElementOfSeq
<1> QED BY <1>1, <1>2 DEF Bit

LEMMA CodeSeq ==
    ASSUME NEW code \in Code
    PROVE  /\ code \in Seq(Bit) /\ Len(code) = DataBits /\ code # NOT_A_KEY
           /\ \A i \in 1..DataBits : code[i] \in Bit
<1>1. code \in Seq(Bit) /\ Len(code) = DataBits
  BY CodeAssumption DEF Code
<1>2. \A i \in 1..DataBits : code[i] \in Bit
  BY DEF Code
<1>3. code # NOT_A_KEY
  BY <1>1, NoKeySeq
<1> QED BY <1>1, <1>2, <1>3

LEMMA XorBit == ASSUME NEW code \in Code PROVE Xor(code) \in Bit
<1> DEFINE S == {i \in 1..DataBits : code[i] = 1}
<1>1. IsFiniteSet(1..DataBits)
  BY FS_Interval, CodeAssumption
<1>2. S \in SUBSET (1..DataBits)
  OBVIOUS
<1>3. IsFiniteSet(S)
  BY <1>1, <1>2, FS_Subset
<1>4. Cardinality(S) \in Nat
  BY <1>3, FS_CardinalityType
<1> QED BY <1>4 DEF Xor, Bit

LEMMA BitOfBit == ASSUME NEW code \in Code, NEW i PROVE BitOf(code, i) \in Bit
BY XorBit, CodeSeq DEF BitOf, Bit

(* One call of update_state. *)
LEMMA SenderMoves ==
    ASSUME Sender, kb_update
    PROVE  Sender' /\ (Holds \/ Rises \/ Falls \/ Finishes)
<1> DEFINE loading == cur_key = NOT_A_KEY
           code    == IF loading THEN Head(all_keys) ELSE cur_key
<1> USE CodeAssumption, KeyboardAssumption, HarnessAssumption
<1>1. CASE is_kb_idle \/ (loading /\ all_keys = <<>>)
  <2>1. /\ UNCHANGED <<all_keys, cur_key, data_idx, left_clk, ps2_clk, ps2_dat>>
        /\ is_kb_idle' \in BOOLEAN /\ all_keys = <<>>
    <3>1. CASE is_kb_idle
      BY <3>1 DEF kb_update, kbVars, Sender, SenderTypes
    <3>2. CASE ~is_kb_idle
      <4>1. update_state /\ loading /\ all_keys = <<>>
        BY <3>2, <1>1 DEF kb_update
      <4> QED BY <4>1 DEF update_state
    <3> QED BY <3>1, <3>2
  <2>2. Sender'
    BY <2>1 DEF Sender, SenderTypes, Rest, Put
  <2> QED BY <2>1, <2>2 DEF Holds, Left
<1>2. CASE ~is_kb_idle /\ ~(loading /\ all_keys = <<>>)
  <2>1. all_keys # <<>> /\ Head(all_keys) \in Code /\ is_kb_idle' = is_kb_idle
    BY <1>2 DEF Sender, SenderTypes, kb_update, update_state
  <2>2. Rest(code) /\ code # NOT_A_KEY
    BY <2>1, CodeSeq DEF Sender, Rest, Put
  <2>0. Put \in 0..DataBits
    BY DEF Put, Sender, SenderTypes, FrameLen
  <2>3. \/ Left = 0 /\ clk_edge(code)
        \/ /\ Left # 0 /\ cur_key' = code /\ left_clk' = Left - 1
           /\ UNCHANGED <<all_keys, data_idx, ps2_clk, ps2_dat>>
    BY <1>2 DEF kb_update, update_state, Left
  <2>4. Left \in 0..ClkNum
    BY DEF Left, Sender, SenderTypes
  <2> HIDE DEF loading, code
  <2>5. CASE Left # 0 /\ cur_key' = code /\ left_clk' = Left - 1
             /\ UNCHANGED <<all_keys, data_idx, ps2_clk, ps2_dat>>
    <3>1. Holds
      BY <2>5, <2>2 DEF Holds, Left
    <3>2. Rest(cur_key)'
      BY <2>5, <2>2 DEF Rest, Put
    <3>3. left_clk' \in 0..ClkNum
      BY <2>5, <2>4
    <3>4. Sender'
      BY <2>5, <2>1, <2>2, <3>2, <3>3 DEF Sender, SenderTypes
    <3> QED BY <3>1, <3>4
  <2>6. CASE Left = 0 /\ clk_edge(code) /\ ps2_clk = 0
    <3>1. /\ ps2_clk' = 1 /\ left_clk' = ClkNum /\ data_idx' = data_idx + 1
          /\ ps2_dat' = FrameBit(code) /\ all_keys' = all_keys
          /\ cur_key' = IF data_idx \in 1..DataBits THEN Tail(code) ELSE code
      BY <2>6 DEF clk_edge
    <3>2. data_idx \in 0..StopBit
      BY <2>6 DEF Sender, SenderTypes, FrameLen, StopBit
    <3>3. ps2_dat' = BitOf(Head(all_keys), data_idx)
      <4>1. CASE data_idx \in 1..DataBits
        <5>1. Len(code) = DataBits - data_idx + 1 /\ Put = data_idx - 1
          BY <4>1, <2>2 DEF Rest, Put
        <5>2. code \in Seq(Bit) /\ code # <<>> /\ 1 \in 1..Len(code)
          BY <5>1, <4>1, <2>2 DEF Rest
        <5>3. code[1] = Head(all_keys)[data_idx] /\ Head(code) = code[1]
          BY <5>1, <5>2, <4>1, <2>2 DEF Rest
        <5> QED BY <5>3, <4>1, <3>1 DEF FrameBit, BitOf, PS2_PARTIAL, PS2_STOP
      <4>2. CASE data_idx \notin 1..DataBits
        BY <4>2, <3>1, <3>2 DEF FrameBit, BitOf, PS2_PARTIAL, PS2_STOP, StopBit
      <4> QED BY <4>1, <4>2
    <3>4. Rest(cur_key)' /\ cur_key' # NOT_A_KEY
      <4>1. CASE data_idx \in 1..DataBits
        <5>1. code # <<>> /\ cur_key' = Tail(code)
          <6>1. Len(code) = DataBits - data_idx + 1
            BY <4>1, <2>2 DEF Rest, Put
          <6>2. code # <<>>
            BY <6>1, <4>1
          <6> QED BY <6>2, <4>1, <3>1
        <5>2. /\ cur_key' \in Seq(Bit) /\ Len(cur_key') = Len(code) - 1
              /\ \A j \in 1..Len(cur_key') : cur_key'[j] = code[j + 1]
          BY <5>1, <2>2, HeadTailProperties DEF Rest
        <5>3. Put' = Put + 1 /\ Put \in 0..DataBits
          BY <4>1, <3>1 DEF Put
        <5>4. Rest(cur_key)'
          BY <5>2, <5>3, <2>2, <3>1 DEF Rest
        <5>5. cur_key' # NOT_A_KEY
          BY <5>2, NoKeySeq
        <5> QED BY <5>4, <5>5
      <4>2. CASE data_idx \notin 1..DataBits
        <5>1. cur_key' = code /\ Put' = Put
          BY <4>2, <3>1, <3>2 DEF Put, StopBit
        <5> QED BY <5>1, <2>2, <3>1 DEF Rest
      <4> QED BY <4>1, <4>2
    <3>5. ps2_dat' \in Bit
      BY <3>3, <2>1, BitOfBit
    <3>6. Sender'
      BY <3>1, <3>2, <3>3, <3>4, <3>5, <2>1
      DEF Sender, SenderTypes, FrameLen, StopBit, Bit
    <3>7. Rises
      BY <3>1, <3>4, <2>6 DEF Rises, Left
    <3> QED BY <3>6, <3>7
  <2>7. CASE Left = 0 /\ clk_edge(code) /\ ps2_clk = 1 /\ data_idx = FrameLen
    <3>1. /\ ps2_clk' = 0 /\ left_clk' = ClkNum /\ data_idx' = 0 /\ cur_key' = NOT_A_KEY
          /\ all_keys' = Tail(all_keys) /\ ps2_dat' = ps2_dat
      BY <2>7 DEF clk_edge
    <3>2. all_keys' \in Seq(Code)
      BY <3>1, <2>1, HeadTailProperties DEF Sender, SenderTypes
    <3>3. Sender'
      BY <3>1, <3>2, <2>1, <1>2 DEF Sender, SenderTypes, FrameLen, Bit
    <3> QED BY <3>3, <3>1, <2>1, <2>7 DEF Finishes, Left
  <2>8. CASE Left = 0 /\ clk_edge(code) /\ ps2_clk = 1 /\ data_idx # FrameLen
    <3>1. /\ ps2_clk' = 0 /\ left_clk' = ClkNum /\ cur_key' = code
          /\ UNCHANGED <<data_idx, all_keys, ps2_dat>>
      BY <2>8 DEF clk_edge
    <3>2. Rest(cur_key)'
      BY <3>1, <2>2 DEF Rest, Put
    <3>3. left_clk' \in 0..ClkNum /\ ps2_clk' \in Bit
      BY <3>1 DEF Bit
    <3>4. data_idx # 0
      BY <2>8 DEF Sender
    <3>5. Sender'
      BY <3>1, <3>2, <3>3, <3>4, <2>1, <2>2, <2>8 DEF Sender, SenderTypes
    <3> QED BY <3>1, <3>5, <2>2, <2>8 DEF Falls, Left
  <2> QED BY <2>3, <2>5, <2>6, <2>7, <2>8 DEF Sender, SenderTypes, Bit
<1> QED BY <1>1, <1>2 DEF Sender, SenderTypes

-----------------------------------------------------------------------------
(***************************************************************************)
(* The line between the two.                                               *)
(***************************************************************************)

\* An edge of the line is at least two turns of the loop old before the next.
Timing == /\ ps2_clk_sync \in Bit \X Bit \X Bit
          /\ ps2_clk_sync[1] = ps2_clk
          /\ ps2_clk_sync[1] # ps2_clk_sync[2] =>
                ps2_clk_sync[2] = ps2_clk_sync[3] /\ Left = ClkNum
          /\ ps2_clk_sync[2] # ps2_clk_sync[3] => Left >= ClkNum - 1

\* A falling edge the circuit has yet to sample; how many the frame has had;
\* and the code whose frame the circuit is in.
Pending  == ps2_clk_sync[1] = 0 /\ ps2_clk_sync[3] = 1
Fallen   == data_idx - ps2_clk
OnWire   == IF data_idx = 0 THEN sent[Len(sent)] ELSE Head(all_keys)
Finished == Pending /\ data_idx = 0

Counted   == count = IF Finished THEN StopBit ELSE IF Pending THEN Fallen - 1 ELSE Fallen
Bits      == \A i \in 0..(count - 1) : buffer[i] = BitOf(OnWire, i)
Offered   == Pending => ps2_dat = BitOf(OnWire, count)
Delivered == /\ Finished => /\ Len(sent) = Len(recvd) + 1
                            /\ \A i \in 1..Len(recvd) : sent[i] = recvd[i]
             /\ ~Finished => sent = recvd
Aligned   == Counted /\ Bits /\ Offered /\ Delivered

Histories == sent \in Seq(Code) /\ recvd \in Seq(Code)

(* A whole frame is accepted, and gives its code.                          *)
LEMMA FrameGives ==
    ASSUME NEW code \in Code, Ps2TypeOK,
           \A i \in 0..(DataBits + 1) : buffer[i] = BitOf(code, i)
    PROVE  GoodFrame(1) /\ ReceivedCode = code
<1> USE CodeAssumption
<1> DEFINE S == {i \in 1..DataBits : code[i] = 1}
           T == {i \in 1..(DataBits + 1) : buffer[i] = 1}
<1>1. ASSUME NEW i \in 1..DataBits PROVE buffer[i] = code[i]
  <2>1. i \in 0..(DataBits + 1) /\ i # 0
    OBVIOUS
  <2> QED BY <2>1 DEF BitOf, PS2_PARTIAL
<1>2. buffer[0] = 0 /\ buffer[DataBits + 1] = 1 - Xor(code)
  BY DEF BitOf, PS2_PARTIAL
<1>3. ReceivedCode = code
  BY <1>1 DEF ReceivedCode, Code
<1>4. IsFiniteSet(S) /\ Cardinality(S) \in Nat
  <2>1. IsFiniteSet(1..DataBits)
    BY FS_Interval
  <2>2. S \in SUBSET (1..DataBits)
    OBVIOUS
  <2>3. IsFiniteSet(S)
    BY <2>1, <2>2, FS_Subset
  <2> QED BY <2>3, FS_CardinalityType
<1>5. Cardinality(S) % 2 = Xor(code)
  BY DEF Xor
<1>6. CASE Xor(code) = 1
  <2>1. T = S
    BY <1>1, <1>2, <1>6
  <2> QED BY <2>1, <1>2, <1>3, <1>5, <1>6 DEF OddParity, GoodFrame
<1>7. CASE Xor(code) = 0
  <2>1. T = S \cup {DataBits + 1}
    BY <1>1, <1>2, <1>7
  <2>2. Cardinality(T) = Cardinality(S) + 1
    <3>1. DataBits + 1 \notin S
      OBVIOUS
    <3> HIDE DEF S, T
    <3> QED BY <2>1, <3>1, <1>4, FS_AddElement
  <2>3. Cardinality(T) % 2 = 1
    BY <2>2, <1>4, <1>5, <1>7
  <2> QED BY <2>3, <1>2, <1>3 DEF OddParity, GoodFrame
<1> QED BY <1>6, <1>7, XorBit DEF Bit

(* What a turn of the loop without reset does to the receiver's frame.     *)
Turn == /\ ps2_clk_sync' = <<ps2_clk', ps2_clk_sync[1], ps2_clk_sync[2]>>
        /\ ps2_keyboard_frame(ps2_dat')
        /\ sent' = IF Len(all_keys') < Len(all_keys)
                   THEN Append(sent, Head(all_keys)) ELSE sent
        /\ recvd' = IF Pushes(ps2_dat') THEN Append(recvd, ReceivedCode) ELSE recvd

LEMMA TimingKept ==
    ASSUME Sender, Sender', Timing, Holds \/ Rises \/ Falls \/ Finishes,
           ps2_clk_sync' = <<ps2_clk', ps2_clk_sync[1], ps2_clk_sync[2]>>
    PROVE  Timing'
<1> USE KeyboardAssumption, HarnessAssumption
<1>1. ps2_clk \in Bit /\ ps2_clk' \in Bit /\ Left \in 0..ClkNum /\ Left' \in 0..ClkNum
  BY DEF Sender, SenderTypes, Left
<1>2. PICK a \in Bit, b \in Bit, c \in Bit : ps2_clk_sync = <<a, b, c>>
  BY DEF Timing
<1>3. ps2_clk_sync' = <<ps2_clk', a, b>>
  BY <1>2
<1>4. /\ a = ps2_clk
      /\ a # b => b = c /\ Left = ClkNum
      /\ b # c => Left >= ClkNum - 1
  BY <1>2 DEF Timing
<1>5. CASE Holds
  BY <1>1, <1>3, <1>4, <1>5 DEF Holds, Timing
<1>6. CASE Rises \/ Falls \/ Finishes
  BY <1>1, <1>3, <1>4, <1>6 DEF Rises, Falls, Finishes, Timing
<1> QED BY <1>5, <1>6

(* Before an edge the line has been still.                                 *)
LEMMA StillBefore ==
    ASSUME Sender, Timing, Left = 0
    PROVE  ps2_clk_sync = <<ps2_clk, ps2_clk, ps2_clk>> /\ ~sampling /\ ~Pending
<1>1. PICK a \in Bit, b \in Bit, c \in Bit : ps2_clk_sync = <<a, b, c>>
  BY DEF Timing
<1>2. a = ps2_clk /\ b = a /\ c = a
  BY <1>1, KeyboardAssumption, HarnessAssumption DEF Timing
<1> QED BY <1>1, <1>2 DEF sampling, Pending

LEMMA Unsampled ==
    ASSUME Turn, ~sampling, Ps2TypeOK
    PROVE  count' = count /\ buffer' = buffer /\ recvd' = recvd
BY DEF Turn, ps2_keyboard_frame, Pushes

LEMMA RiseAligned ==
    ASSUME Sender, Timing, Ps2TypeOK, Aligned, Turn, Rises
    PROVE  Aligned'
<1> USE CodeAssumption
<1>1. ps2_clk_sync = <<0, 0, 0>> /\ ~sampling /\ ~Pending
  BY StillBefore DEF Rises
<1>2. ps2_clk_sync' = <<1, 0, 0>>
  BY <1>1 DEF Turn, Rises
<1>3. count' = count /\ buffer' = buffer /\ recvd' = recvd
  BY <1>1, Unsampled
<1>4. all_keys' = all_keys /\ sent' = sent
  BY DEF Turn, Rises, Sender, SenderTypes
<1>5. ~Pending' /\ ~Finished'
  BY <1>2 DEF Pending, Finished
<1>6. data_idx \in Nat /\ data_idx' = data_idx + 1 /\ ps2_clk = 0 /\ ps2_clk' = 1
  BY DEF Rises, Sender, SenderTypes, FrameLen
<1>7. Counted' /\ count = data_idx
  BY <1>1, <1>3, <1>5, <1>6 DEF Aligned, Counted, Fallen, Finished
<1>8. Bits'
  <2>1. CASE data_idx = 0
    BY <2>1, <1>3, <1>7 DEF Bits
  <2>2. CASE data_idx # 0
    BY <2>2, <1>3, <1>4, <1>6 DEF Aligned, Bits, OnWire
  <2> QED BY <2>1, <2>2
<1>9. Offered' /\ Delivered'
  BY <1>1, <1>3, <1>4, <1>5 DEF Aligned, Offered, Delivered, Finished
<1> QED BY <1>7, <1>8, <1>9 DEF Aligned

LEMMA FallAligned ==
    ASSUME Sender, Timing, Ps2TypeOK, Aligned, Turn, Falls
    PROVE  Aligned'
<1> USE CodeAssumption
<1>1. ps2_clk_sync = <<1, 1, 1>> /\ ~sampling /\ ~Pending
  BY StillBefore DEF Falls
<1>2. ps2_clk_sync' = <<0, 1, 1>>
  BY <1>1 DEF Turn, Falls
<1>3. count' = count /\ buffer' = buffer /\ recvd' = recvd
  BY <1>1, Unsampled
<1>4. all_keys' = all_keys /\ sent' = sent
  BY DEF Turn, Falls, Sender, SenderTypes
<1>5. data_idx \in Nat \ {0} /\ data_idx' = data_idx /\ ps2_clk = 1 /\ ps2_clk' = 0
  BY DEF Falls, Sender, SenderTypes, FrameLen
<1>6. Pending' /\ ~Finished' /\ ~Finished
  BY <1>1, <1>2, <1>5 DEF Pending, Finished
<1>7. Counted' /\ count = data_idx - 1
  BY <1>1, <1>3, <1>5, <1>6 DEF Aligned, Counted, Fallen
<1>8. OnWire' = OnWire /\ OnWire = Head(all_keys)
  BY <1>4, <1>5 DEF OnWire
<1>9. Bits'
  BY <1>3, <1>8 DEF Aligned, Bits, BitOf, Xor
<1>10. Offered'
  <2>1. ps2_dat' = BitOf(Head(all_keys), data_idx - 1)
    BY <1>5 DEF Falls, Sender
  <2> QED BY <2>1, <1>3, <1>7, <1>8 DEF Offered, BitOf, Xor
<1>11. Delivered'
  BY <1>3, <1>4, <1>6 DEF Aligned, Delivered
<1> QED BY <1>7, <1>9, <1>10, <1>11 DEF Aligned

LEMMA FinishAligned ==
    ASSUME Sender, Timing, Ps2TypeOK, Histories, Aligned, Turn, Finishes
    PROVE  Aligned'
<1> USE CodeAssumption
<1>1. ps2_clk_sync = <<1, 1, 1>> /\ ~sampling /\ ~Pending
  BY StillBefore DEF Finishes
<1>2. ps2_clk_sync' = <<0, 1, 1>>
  BY <1>1 DEF Turn, Finishes
<1>3. count' = count /\ buffer' = buffer /\ recvd' = recvd
  BY <1>1, Unsampled
<1>4. Head(all_keys) \in Code /\ Len(all_keys') < Len(all_keys)
  BY HeadTailProperties DEF Finishes, Sender, SenderTypes
<1>5. sent' = Append(sent, Head(all_keys)) /\ sent = recvd
  BY <1>1, <1>4 DEF Turn, Aligned, Delivered, Finished
<1>6. /\ Len(sent') = Len(sent) + 1 /\ sent'[Len(sent')] = Head(all_keys)
      /\ \A i \in 1..Len(sent) : sent'[i] = sent[i]
  BY <1>4, <1>5, AppendProperties DEF Histories
<1>7. data_idx = FrameLen /\ data_idx' = 0 /\ ps2_clk = 1 /\ ps2_clk' = 0 /\ ps2_dat' = ps2_dat
  BY DEF Finishes
<1>8. Finished' /\ Pending'
  BY <1>2, <1>7 DEF Pending, Finished
<1>9. Counted' /\ count = StopBit
  BY <1>1, <1>3, <1>7, <1>8 DEF Aligned, Counted, Fallen, Finished, FrameLen, StopBit
<1>10. OnWire' = OnWire /\ OnWire = Head(all_keys)
  BY <1>6, <1>7 DEF OnWire, FrameLen
<1>11. Bits'
  BY <1>3, <1>10 DEF Aligned, Bits, BitOf, Xor
<1>12. Offered'
  <2>1. ps2_dat' = BitOf(Head(all_keys), StopBit)
    BY <1>7 DEF Sender, FrameLen, StopBit
  <2> QED BY <2>1, <1>3, <1>9, <1>10 DEF Offered, BitOf, Xor
<1>13. Delivered'
  BY <1>3, <1>5, <1>6, <1>8 DEF Delivered
<1> QED BY <1>9, <1>11, <1>12, <1>13 DEF Aligned

LEMMA HoldAligned ==
    ASSUME Sender, Timing, Timing', Ps2TypeOK, Histories, Aligned, Turn, Holds
    PROVE  Aligned'
<1> USE CodeAssumption
<1>1. PICK a \in Bit, b \in Bit, c \in Bit : ps2_clk_sync = <<a, b, c>>
  BY DEF Timing
<1>2. /\ ps2_clk_sync' = <<a, a, b>> /\ a = ps2_clk
      /\ a # b => b = c
  BY <1>1 DEF Timing, Turn, Holds
<1>3. all_keys' = all_keys /\ data_idx' = data_idx /\ ps2_clk' = ps2_clk /\ ps2_dat' = ps2_dat
  BY DEF Holds
<1>4. sent' = sent /\ Fallen' = Fallen /\ OnWire' = OnWire
  BY <1>3 DEF Turn, Sender, SenderTypes, Fallen, OnWire
<1>5. data_idx \in 0..FrameLen /\ ps2_clk \in Bit /\ (data_idx = 0 => ps2_clk = 0)
      /\ (data_idx = FrameLen => ps2_clk = 1)
  BY DEF Sender, SenderTypes
<1>6. CASE ~sampling
  <2>1. count' = count /\ buffer' = buffer /\ recvd' = recvd
    BY <1>6, Unsampled
  <2>2. Pending' = Pending /\ Finished' = Finished
    BY <1>1, <1>2, <1>3, <1>6 DEF sampling, Pending, Finished, Bit
  <2>3. Counted' /\ Offered'
    BY <2>1, <2>2, <1>3, <1>4 DEF Aligned, Counted, Offered, BitOf, Xor
  <2>4. Bits'
    BY <2>1, <1>4 DEF Aligned, Bits, BitOf, Xor
  <2>5. Delivered'
    BY <2>1, <2>2, <1>4 DEF Aligned, Delivered
  <2> QED BY <2>3, <2>4, <2>5 DEF Aligned
<1>7. CASE sampling
  <2>1. c = 1 /\ b = 0 /\ a = 0
    BY <1>1, <1>2, <1>7 DEF sampling, Bit
  <2>2. Pending /\ ~Pending' /\ ~Finished' /\ ps2_clk = 0
    BY <2>1, <1>1, <1>2 DEF Pending, Finished
  <2>3. ps2_dat = BitOf(OnWire, count)
    BY <2>2 DEF Aligned, Offered
  <2>4. CASE data_idx = 0
    <3>1. Finished /\ count = StopBit /\ Fallen = 0
      BY <2>2, <2>4 DEF Finished, Aligned, Counted, Fallen
    <3>2. sent # <<>> /\ OnWire = sent[Len(sent)] /\ OnWire \in Code
      BY <3>1, <2>4, ElementOfSeq DEF Aligned, Delivered, OnWire, Histories
    <3>3. \A i \in 0..(DataBits + 1) : buffer[i] = BitOf(OnWire, i)
      BY <3>1 DEF Aligned, Bits, StopBit
    <3>4. ps2_dat' = 1
      BY <2>3, <3>1, <1>3 DEF BitOf, StopBit, PS2_PARTIAL
    <3>5. Pushes(ps2_dat') /\ ReceivedCode = OnWire
      BY <3>1, <3>2, <3>3, <3>4, <1>7, FrameGives DEF Pushes
    <3>6. count' = 0 /\ recvd' = Append(recvd, OnWire)
      BY <3>1, <3>5, <1>7 DEF Turn, ps2_keyboard_frame
    <3>7. /\ Append(recvd, OnWire) \in Seq(Code) /\ Len(Append(recvd, OnWire)) = Len(recvd) + 1
          /\ \A i \in 1..Len(recvd) : Append(recvd, OnWire)[i] = recvd[i]
          /\ Append(recvd, OnWire)[Len(recvd) + 1] = OnWire
      BY <3>2, AppendProperties DEF Histories
    <3>8. /\ Len(sent) = Len(recvd) + 1 /\ sent[Len(recvd) + 1] = OnWire
          /\ \A i \in 1..Len(recvd) : sent[i] = recvd[i]
      BY <3>1, <3>2 DEF Aligned, Delivered
    <3>9. recvd' = sent
      <4>1. sent \in Seq(Code) /\ recvd \in Seq(Code) /\ Len(recvd) \in Nat
        BY LenProperties DEF Histories
      <4>2. \A i \in 1..Len(sent) : Append(recvd, OnWire)[i] = sent[i]
        BY <3>7, <3>8, <4>1
      <4> QED BY <3>6, <3>7, <3>8, <4>1, <4>2, SeqEqual
    <3> QED BY <3>1, <3>6, <3>9, <2>2, <1>4
            DEF Aligned, Counted, Bits, Offered, Delivered, Finished, Fallen
  <2>5. CASE data_idx # 0
    <3>1. ~Finished /\ count = Fallen - 1 /\ Fallen = data_idx
      BY <2>2, <2>5, <1>5 DEF Finished, Aligned, Counted, Fallen, FrameLen
    <3>2. count \in 0..(DataBits + 1) /\ count # StopBit
      BY <3>1, <2>2, <2>5, <1>5 DEF StopBit, FrameLen
    <3>3. count' = count + 1 /\ buffer' = [buffer EXCEPT ![count] = ps2_dat'] /\ recvd' = recvd
      BY <3>2, <1>7 DEF Turn, ps2_keyboard_frame, Pushes
    <3>4. Counted'
      <4>1. ~Pending' /\ ~Finished' /\ Fallen' = Fallen /\ Fallen \in Int
        BY <2>2, <1>4, <1>5 DEF Fallen, FrameLen, Bit
      <4> QED BY <4>1, <3>1, <3>3 DEF Counted
    <3>5. Bits'
      <4> SUFFICES ASSUME NEW i \in 0..count PROVE buffer'[i] = BitOf(OnWire, i)
        <5>1. count' - 1 = count /\ OnWire' = OnWire
          BY <3>2, <3>3, <1>4
        <5> QED BY <5>1 DEF Bits, BitOf, Xor
      <4>1. CASE i = count
        BY <4>1, <3>2, <3>3, <2>3, <1>3 DEF Ps2TypeOK
      <4>2. CASE i # count
        BY <4>2, <3>2, <3>3 DEF Ps2TypeOK, Aligned, Bits
      <4> QED BY <4>1, <4>2
    <3>6. Offered' /\ Delivered'
      BY <3>1, <3>3, <2>2, <1>4 DEF Aligned, Offered, Delivered
    <3> QED BY <3>4, <3>5, <3>6 DEF Aligned
  <2> QED BY <2>4, <2>5
<1> QED BY <1>6, <1>7

-----------------------------------------------------------------------------
(***************************************************************************)
(* The circuit on that line.                                               *)
(***************************************************************************)

\* The code in front of the ring is one that came, and so is the one shown.
Reading == /\ ready = 1 => data \in Range(recvd)
           /\ LampShowsReceived

\* The codes that may be presses, and the one that may be about to be counted.
Presses == {i \in DOMAIN recvd : recvd[i] # BreakCode}
Due     == IF /\ ready = 1 /\ data # BreakCode
              /\ state \in {"IDLE", "ACK_F0", "WAIT_REL", "ACK_REL"} THEN 1 ELSE 0
Pressed == /\ key_count + en_count + Due <= Cardinality(Presses)
           /\ en_count = 1 => state = "ACK_MAKE"

CircuitTypes == key_count \in Nat /\ en_count \in Bit /\ is_pressed \in Bit

Circuit == Ps2TypeOK /\ LineInv /\ CircuitTypes /\ Reading /\ Pressed

\* What is written to the ring is recorded.
Recorded(d) == recvd' = IF Pushes(d) THEN Append(recvd, ReceivedCode) ELSE recvd

LEMMA Modulo == ASSUME NEW a \in Nat PROVE a % CountMod \in Nat /\ a % CountMod <= a
BY CountAssumption

(* One code at a time is in the ring. *)
LEMMA RingMoves ==
    ASSUME Ps2TypeOK, LineInv, NEW c \in Bit, NEW d \in Bit, top(0, c, d)
    PROVE  \/ Pushes(d) /\ ready = 0 /\ ready' = 1 /\ data' = ReceivedCode
           \/ ~Pushes(d) /\ (ready' = 1 => ready = 1 /\ data' = data)
<1>1. ps2_keyboard_ring(Pushes(d), Pops(nextdata_n))
  BY DEF top, ps2_keyboard
<1>2. Pushes(d) => ready = 0
  BY CodeAssumption DEF Pushes, LineInv, Pace, Counting, StopBit, Bit
<1>3. CASE Pushes(d)
  <2>1. w_ptr = r_ptr /\ ready = 0
    BY <1>2, <1>3 DEF LineInv, OneWaits
  <2>2. r_ptr' = r_ptr /\ fifo' = [fifo EXCEPT ![w_ptr] = ReceivedCode] /\ ready' = 1
    BY <1>1, <1>3, <2>1 DEF ps2_keyboard_ring, Pops, Empties
  <2>3. data' = ReceivedCode
    BY <2>1, <2>2 DEF data, Ps2TypeOK
  <2> QED BY <1>3, <2>1, <2>2, <2>3
<1>4. CASE ~Pushes(d)
  <2> SUFFICES ASSUME ready' = 1 PROVE ready = 1 /\ data' = data
    BY <1>4
  <2>1. ready = 1 /\ ~Empties(Pushes(d), Pops(nextdata_n))
    BY <1>1, <1>4 DEF ps2_keyboard_ring
  <2>2. ~Pops(nextdata_n)
    BY <2>1, <1>4 DEF Empties, LineInv, OneWaits
  <2> QED BY <1>1, <1>4, <2>1, <2>2 DEF ps2_keyboard_ring, data
<1> QED BY <1>3, <1>4

LEMMA HistoryGrows ==
    ASSUME Ps2TypeOK, recvd \in Seq(Code), NEW d \in Bit, Recorded(d)
    PROVE  /\ recvd' \in Seq(Code)
           /\ Range(recvd) \subseteq Range(recvd')
           /\ Pushes(d) => ReceivedCode \in Range(recvd')
           /\ Cardinality(Presses) \in Nat
           /\ Cardinality(Presses') = Cardinality(Presses)
                + IF Pushes(d) /\ ReceivedCode # BreakCode THEN 1 ELSE 0
<1>1. IsFiniteSet(Presses) /\ Cardinality(Presses) \in Nat
  <2>1. DOMAIN recvd = 1..Len(recvd) /\ Len(recvd) \in Nat
    BY LenProperties
  <2>2. IsFiniteSet(1..Len(recvd))
    BY <2>1, FS_Interval
  <2>3. Presses \in SUBSET (1..Len(recvd))
    BY <2>1 DEF Presses
  <2>4. IsFiniteSet(Presses)
    BY <2>2, <2>3, FS_Subset
  <2> QED BY <2>4, FS_CardinalityType
<1>2. CASE Pushes(d)
  <2>1. ReceivedCode \in Code
    BY ReceivedType
  <2>2. recvd' = Append(recvd, ReceivedCode)
    BY <1>2 DEF Recorded
  <2>3. /\ recvd' \in Seq(Code) /\ Len(recvd') = Len(recvd) + 1 /\ Len(recvd) \in Nat
        /\ \A i \in 1..Len(recvd) : recvd'[i] = recvd[i]
        /\ recvd'[Len(recvd) + 1] = ReceivedCode
    BY <2>1, <2>2, AppendProperties, LenProperties
  <2>4. DOMAIN recvd' = 1..(Len(recvd) + 1) /\ DOMAIN recvd = 1..Len(recvd)
    BY <2>3, LenProperties
  <2>5. Range(recvd) \subseteq Range(recvd') /\ ReceivedCode \in Range(recvd')
    BY <2>3, <2>4 DEF Range
  <2>6. Presses' = IF ReceivedCode # BreakCode THEN Presses \cup {Len(recvd) + 1} ELSE Presses
    BY <2>3, <2>4 DEF Presses
  <2>7. Len(recvd) + 1 \notin Presses
    BY <2>3, <2>4 DEF Presses
  <2>8. Cardinality(Presses') = Cardinality(Presses)
                + IF ReceivedCode # BreakCode THEN 1 ELSE 0
    <3>1. CASE ReceivedCode # BreakCode
      <4>1. Cardinality(Presses \cup {Len(recvd) + 1}) = Cardinality(Presses) + 1
        BY <2>7, <1>1, FS_AddElement
      <4> QED BY <4>1, <2>6, <3>1
    <3>2. CASE ReceivedCode = BreakCode
      BY <2>6, <3>2, <1>1
    <3> QED BY <3>1, <3>2
  <2> QED BY <2>3, <2>5, <2>8, <1>1, <1>2
<1>3. CASE ~Pushes(d)
  <2>1. recvd' = recvd
    BY <1>3 DEF Recorded
  <2> QED BY <2>1, <1>1, <1>3 DEF Presses
<1> QED BY <1>2, <1>3

(* Sums. *)
LEMMA NoMore ==
    ASSUME NEW k \in Nat, NEW l \in Nat, NEW e \in {0, 1}, l <= k + e
    PROVE  l + 0 <= k + e
OBVIOUS

LEMMA SumKept ==
    ASSUME NEW k \in Nat, NEW l \in Nat, NEW x \in Nat, NEW y \in Nat, NEW e \in {0, 1},
           NEW f \in {0, 1}, NEW u \in {0, 1}, NEW v \in {0, 1},
           l + f <= k + e, k + e + u <= x, v - u <= y - x
    PROVE  l + f + v <= y
OBVIOUS

(* A clock edge without reset. *)
LEMMA CircuitEdge ==
    ASSUME Circuit, recvd \in Seq(Code), NEW c \in Bit, NEW d \in Bit, top(0, c, d), Recorded(d)
    PROVE  Circuit'
<1> USE DEF Circuit
<1> DEFINE make == state = "IDLE" /\ ready = 1 /\ data # BreakCode
<1>1. state' = next_state(data, ready) /\ keyboard_fsm_out(data, ready)
  BY DEF top, keyboard_fsm, LineInv, OneWaits
<1>2. state \in FsmState /\ ready \in Bit /\ nextdata_n \in Bit
  BY DEF LineInv, Counting
<1>3. /\ en_count' = IF make THEN 1 ELSE IF state \in {"IDLE", "ACK_MAKE"} THEN 0 ELSE en_count
      /\ is_pressed' = IF make THEN 1
                       ELSE IF state \in {"IDLE", "ACK_REL"} THEN 0 ELSE is_pressed
      /\ seg_data' = IF make THEN data ELSE seg_data
  BY <1>1 DEF keyboard_fsm_out
<1>4. key_count' = (key_count + en_count) % CountMod
  BY DEF top
<1>5. key_count + en_count \in Nat
  BY DEF CircuitTypes, Bit
<1>6. key_count' \in Nat /\ key_count' <= key_count + en_count
  BY <1>4, <1>5, Modulo
<1>7. CircuitTypes'
  BY <1>3, <1>6 DEF CircuitTypes, Bit
<1>8. Ps2TypeOK'
  <2>1. Ps2Next
    <3>1. ps2_keyboard(1, c, d, nextdata_n)
      BY DEF top
    <3> QED BY <3>1, <1>2 DEF Ps2Next, Bit
  <2> QED BY <2>1, Ps2TypeStep
<1>9. LineInv'
  BY LineInvEdge
<1> HIDE DEF make
<1>10. Reading'
  <2>1. ready' = 1 => data' \in Range(recvd')
    BY RingMoves, HistoryGrows DEF Reading
  <2>2. LampShowsReceived'
    <3>1. CASE make
      <4>1. data \in Range(recvd')
        BY <3>1, HistoryGrows DEF make, Reading
      <4> QED BY <4>1, <3>1, <1>3 DEF LampShowsReceived
    <3>2. CASE ~make
      <4> SUFFICES ASSUME is_pressed' = 1 PROVE seg_data' \in Range(recvd')
        BY DEF LampShowsReceived
      <4>1. is_pressed = 1 /\ seg_data' = seg_data
        BY <1>3, <3>2
      <4> QED BY <4>1, HistoryGrows DEF Reading, LampShowsReceived
    <3> QED BY <3>1, <3>2
  <2> QED BY <2>1, <2>2 DEF Reading
<1>11. en_count' = 1 => state' = "ACK_MAKE"
  <2>1. CASE make
    BY <2>1, <1>1 DEF make, next_state, AckState
  <2>2. CASE ~make
    BY <2>2, <1>3 DEF Pressed
  <2> QED BY <2>1, <2>2
<1>12. Due \in {0, 1} /\ Due' \in {0, 1}
  BY DEF Due
<1>13. /\ key_count \in Nat /\ key_count' \in Nat
      /\ en_count \in {0, 1} /\ en_count' \in {0, 1}
      /\ key_count' <= key_count + en_count
  BY <1>6, <1>7 DEF CircuitTypes, Bit
<1>14. en_count = 1 => state = "ACK_MAKE"
  BY DEF Pressed
<1>15. /\ Cardinality(Presses) \in Nat
      /\ Cardinality(Presses') = Cardinality(Presses)
            + IF Pushes(d) /\ ReceivedCode # BreakCode THEN 1 ELSE 0
  BY HistoryGrows
<1>16. key_count + en_count + Due <= Cardinality(Presses)
  BY DEF Pressed
<1>17. ~make => key_count' + en_count' <= key_count + en_count
  <2> SUFFICES ASSUME ~make PROVE key_count' + en_count' <= key_count + en_count
    OBVIOUS
  <2>1. en_count' = 0
    BY <1>3, <1>13, <1>14
  <2> QED BY <2>1, <1>13, NoMore
<1>18. Cardinality(Presses') \in Nat
  BY <1>15
<1>19. key_count' + en_count' + Due' <= Cardinality(Presses')
  <2>1. CASE Pushes(d)
    <3>1. ready = 0 /\ data' = ReceivedCode
      BY <2>1, RingMoves
    <3>2. Due = 0 /\ ~make
      BY <3>1 DEF Due, make
    <3>3. Due' = 1 => ReceivedCode # BreakCode
      BY <3>1 DEF Due
    <3>4. CASE ReceivedCode # BreakCode
      <4>1. Cardinality(Presses') = Cardinality(Presses) + 1
        BY <2>1, <3>4, <1>15
      <4>2. Due' - Due <= Cardinality(Presses') - Cardinality(Presses)
        BY <4>1, <3>2, <1>15, <1>12
      <4> QED BY <4>2, <3>2, <1>13, <1>15, <1>16, <1>17, <1>18, <1>12, SumKept
    <3>5. CASE ReceivedCode = BreakCode
      <4>1. Cardinality(Presses') = Cardinality(Presses) + 0
        BY <2>1, <3>5, <1>15
      <4>2. Due' = 0
        BY <3>3, <3>5, <1>12
      <4>3. Due' - Due <= Cardinality(Presses') - Cardinality(Presses)
        BY <4>1, <4>2, <3>2, <1>15
      <4> QED BY <4>3, <3>2, <1>13, <1>15, <1>16, <1>17, <1>18, <1>12, SumKept
    <3> QED BY <3>4, <3>5
  <2>2. CASE ~Pushes(d)
    <3>1. Cardinality(Presses') = Cardinality(Presses)
      BY <2>2, <1>15
    <3>2. ready' = 1 => ready = 1 /\ data' = data
      BY <2>2, RingMoves
    <3>3. CASE make
      <4>1. state' = "ACK_MAKE" /\ en_count' = 1 /\ en_count = 0
        BY <3>3, <1>1, <1>3, <1>13, <1>14 DEF make, next_state, AckState
      <4>2. Due = 1 /\ Due' = 0
        BY <3>3, <4>1 DEF Due, make
      <4> QED BY <4>1, <4>2, <3>1, <1>13, <1>15, <1>16
    <3>4. CASE ~make
      <4>2. Due' = 1 => Due = 1
        <5> SUFFICES ASSUME Due' = 1 PROVE Due = 1
          OBVIOUS
        <5>1. /\ ready = 1 /\ data # BreakCode
              /\ state' \in {"IDLE", "ACK_F0", "WAIT_REL", "ACK_REL"}
          BY <3>2 DEF Due
        <5>2. state \in {"IDLE", "ACK_F0", "WAIT_REL", "ACK_REL"}
          BY <5>1, <1>1, <1>2 DEF next_state, after_ack, AckState, FsmState
        <5> QED BY <5>1, <5>2 DEF Due
      <4>3. Due' - Due <= Cardinality(Presses') - Cardinality(Presses)
        BY <4>2, <3>1, <1>15, <1>12
      <4> QED BY <4>3, <3>4, <1>13, <1>15, <1>16, <1>17, <1>18, <1>12, SumKept
    <3> QED BY <3>3, <3>4
  <2> QED BY <2>1, <2>2
<1> QED BY <1>7, <1>8, <1>9, <1>10, <1>11, <1>19 DEF Pressed

(* A clock edge with reset. *)
LEMMA CircuitReset ==
    ASSUME Circuit, NEW c \in Bit, NEW d \in Bit, top(1, c, d), recvd' = <<>>
    PROVE  Circuit' /\ count' = 0
<1>1. ps2_keyboard(0, c, d, nextdata_n) /\ nextdata_n \in Bit
  BY DEF top, Circuit, LineInv, Counting
<1>2. Ps2TypeOK'
  BY <1>1, Ps2TypeStep DEF Circuit, Ps2Next, Bit
<1>3. LineInv'
  BY LineInvReset DEF Circuit
<1>4. ready' = 0 /\ count' = 0
  BY <1>1 DEF ps2_keyboard, ps2_keyboard_reset
<1>5. state' = "IDLE" /\ en_count' = 0 /\ is_pressed' = 0 /\ key_count' = 0
  BY DEF top, keyboard_fsm
<1>6. Presses' = {} /\ Due' = 0
  BY <1>4 DEF Presses, Due
<1>7. Cardinality(Presses') = 0
  BY <1>6, FS_EmptySet
<1> QED BY <1>2, <1>3, <1>4, <1>5, <1>6, <1>7
        DEF Circuit, CircuitTypes, Reading, LampShowsReceived, Pressed, Bit

-----------------------------------------------------------------------------
(***************************************************************************)
(* The board.                                                              *)
(***************************************************************************)

HarnessTypes == rst \in Bit /\ n \in Nat /\ clean \in BOOLEAN

\* Until reset() is over nothing has happened.
Starting == n > 0 => /\ is_kb_idle /\ cur_key = NOT_A_KEY
                     /\ ps2_clk_sync = <<0, 0, 0>> /\ count = 0
                     /\ ready = 0 /\ is_pressed = 0 /\ key_count = 0 /\ en_count = 0
                     /\ sent = <<>> /\ recvd = <<>>

BoardInv == /\ HarnessTypes /\ Histories /\ Starting
            /\ Sender /\ Timing /\ Circuit
            /\ clean => Aligned

LEMMA EmptyAligned ==
    ASSUME data_idx = 0, ps2_clk = 0, ~Pending, count = 0, sent = <<>>, recvd = <<>>
    PROVE  Aligned
BY DEF Aligned, Counted, Bits, Offered, Delivered, Finished, Fallen

LEMMA BoardStarts == Init => BoardInv
<1> SUFFICES ASSUME Init PROVE BoardInv
  OBVIOUS
<1> USE CodeAssumption, DepthAssumption, KeyboardAssumption, HarnessAssumption
<1>1. HarnessTypes /\ Histories
  BY DEF Init, HarnessTypes, Histories, Bit
<1>2. Sender
  BY DEF Init, KbInit, Sender, SenderTypes, Bit, FrameLen
<1>3. Timing
  BY DEF Init, KbInit, TopInit, Ps2Init, Timing, Bit
<1>4. Circuit
  <2>1. Ps2TypeOK
    BY DEF Init, TopInit, Ps2Init, Ps2TypeOK, Bit, StopBit, Ptr, Code, ZeroCode
  <2>2. LineInv
    BY LineInvInit DEF Init
  <2>3. ready = 0 /\ is_pressed = 0 /\ key_count = 0 /\ en_count = 0 /\ recvd = <<>>
    BY DEF Init, TopInit, Ps2Init, FsmInit
  <2>4. Presses = {} /\ Due = 0
    BY <2>3 DEF Presses, Due
  <2>5. Cardinality(Presses) = 0
    BY <2>4, FS_EmptySet
  <2> QED BY <2>1, <2>2, <2>3, <2>4, <2>5
          DEF Circuit, CircuitTypes, Reading, LampShowsReceived, Pressed, Bit
<1>5. Aligned
  <2>1. ~Pending
    BY DEF Init, TopInit, Ps2Init, Pending
  <2> QED BY <2>1, EmptyAligned DEF Init, KbInit, TopInit, Ps2Init
<1>6. Starting
  BY DEF Init, KbInit, TopInit, Ps2Init, FsmInit, Starting
<1> QED BY <1>1, <1>2, <1>3, <1>4, <1>5, <1>6 DEF BoardInv

(* A cycle of reset(): the line rests. *)
LEMMA ResetKeeps == BoardInv /\ reset => BoardInv'
<1> SUFFICES ASSUME BoardInv, reset PROVE BoardInv'
  OBVIOUS
<1> USE CodeAssumption
<1>1. /\ n \in Nat \ {0} /\ top(rst, ps2_clk, ps2_dat) /\ n' = n - 1
      /\ rst \in Bit /\ rst' \in Bit
      /\ UNCHANGED <<all_keys, cur_key, data_idx, left_clk, is_kb_idle, ps2_clk, ps2_dat,
                     sent, recvd, clean>>
  BY DEF reset, BoardInv, HarnessTypes, kbVars, history, Bit
<1>2. /\ is_kb_idle /\ cur_key = NOT_A_KEY /\ data_idx = 0 /\ ps2_clk = 0
      /\ ps2_clk_sync = <<0, 0, 0>> /\ count = 0 /\ ready = 0 /\ is_pressed = 0
      /\ key_count = 0 /\ en_count = 0 /\ sent = <<>> /\ recvd = <<>>
  BY <1>1 DEF BoardInv, Starting, Sender
<1>3. Sender'
  BY <1>1 DEF BoardInv, Sender, SenderTypes, Rest, Put, BitOf, Xor
<1>4. ps2_clk_sync' = <<0, 0, 0>> /\ ~sampling /\ ~Pushes(ps2_dat)
  BY <1>1, <1>2 DEF top, ps2_keyboard, sampling, Pushes
<1>5. Timing' /\ ~Pending'
  BY <1>1, <1>2, <1>4 DEF Timing, Pending, Bit
<1>6. ps2_clk \in Bit /\ ps2_dat \in Bit /\ recvd \in Seq(Code)
  BY DEF BoardInv, Sender, SenderTypes, Histories
<1>7. Circuit' /\ count' = 0
  <2>1. CASE rst = 1
    BY <2>1, <1>1, <1>2, <1>6, CircuitReset DEF BoardInv
  <2>2. CASE rst = 0
    <3>1. Recorded(ps2_dat)
      BY <1>1, <1>4 DEF Recorded
    <3>2. count' = 0
      BY <2>2, <1>1, <1>2, <1>4 DEF top, ps2_keyboard, ps2_keyboard_frame
    <3> QED BY <2>2, <3>1, <3>2, <1>1, <1>6, CircuitEdge DEF BoardInv
  <2> QED BY <2>1, <2>2, <1>1 DEF Bit
<1>8. ready' = 0 /\ is_pressed' = 0 /\ key_count' = 0 /\ en_count' = 0
  <2>1. CASE rst = 1
    BY <2>1, <1>1 DEF top, ps2_keyboard, ps2_keyboard_reset, keyboard_fsm
  <2>2. CASE rst = 0
    <3>1. ready' = 0
      BY <2>2, <1>1, <1>2, <1>4 DEF top, ps2_keyboard, ps2_keyboard_ring
    <3>2. keyboard_fsm_out(data, ready)
      BY <2>2, <1>1 DEF top, keyboard_fsm, BoardInv, Circuit, LineInv, OneWaits
    <3>3. is_pressed' = 0 /\ en_count' = 0
      BY <3>2, <1>2 DEF keyboard_fsm_out
    <3>4. key_count' = 0 % CountMod
      BY <2>2, <1>1, <1>2 DEF top
    <3>5. key_count' = 0
      BY <3>4, Modulo
    <3> QED BY <3>1, <3>3, <3>5
  <2> QED BY <2>1, <2>2, <1>1 DEF Bit
<1>9. Aligned'
  BY <1>1, <1>2, <1>5, <1>7 DEF Aligned, Counted, Bits, Offered, Delivered, Finished, Fallen
<1>10. HarnessTypes' /\ Histories' /\ Starting'
  BY <1>1, <1>2, <1>4, <1>7, <1>8 DEF BoardInv, HarnessTypes, Histories, Starting
<1> QED BY <1>3, <1>5, <1>7, <1>9, <1>10 DEF BoardInv

(* A turn of the loop. *)
LEMMA TurnKeeps == BoardInv /\ step_sim => BoardInv'
<1> SUFFICES ASSUME BoardInv, step_sim PROVE BoardInv'
  OBVIOUS
<1>1. /\ n = 0 /\ kb_update /\ top(rst, ps2_clk', ps2_dat') /\ Record
      /\ rst' = rst /\ n' = n /\ rst \in Bit
  BY DEF step_sim, harness, BoardInv, HarnessTypes
<1>2. Sender' /\ (Holds \/ Rises \/ Falls \/ Finishes)
  BY <1>1, SenderMoves DEF BoardInv
<1>3. ps2_clk' \in Bit /\ ps2_dat' \in Bit
  BY <1>2 DEF Sender, SenderTypes
<1>4. ps2_clk_sync' = <<ps2_clk', ps2_clk_sync[1], ps2_clk_sync[2]>>
  BY <1>1 DEF top, ps2_keyboard
<1>5. Timing'
  BY <1>2, <1>4, TimingKept DEF BoardInv
<1>6. CASE rst = 1
  <2>1. top(1, ps2_clk', ps2_dat') /\ sent' = <<>> /\ recvd' = <<>> /\ clean' = QuietLine'
    BY <1>1, <1>6 DEF Record
  <2>2. Circuit' /\ count' = 0
    BY <2>1, <1>3, CircuitReset DEF BoardInv
  <2>3. clean' => Aligned'
    <3> SUFFICES ASSUME clean' PROVE Aligned'
      OBVIOUS
    <3>1. data_idx' = 0 /\ ps2_clk' = 0 /\ ps2_clk_sync' = <<0, 0, 0>>
      BY <2>1, <1>2 DEF QuietLine, Sender
    <3>2. ~Pending'
      BY <3>1 DEF Pending
    <3> QED BY <2>1, <2>2, <3>1, <3>2
            DEF Aligned, Counted, Bits, Offered, Delivered, Finished, Fallen
  <2>4. HarnessTypes' /\ Histories' /\ Starting'
    <3>1. clean' \in BOOLEAN
      BY <2>1 DEF QuietLine
    <3> QED BY <3>1, <2>1, <1>1 DEF BoardInv, HarnessTypes, Histories, Starting
  <2> QED BY <1>2, <1>5, <2>2, <2>3, <2>4 DEF BoardInv
<1>7. CASE rst = 0
  <2>1. /\ top(0, ps2_clk', ps2_dat') /\ Recorded(ps2_dat') /\ clean' = clean
        /\ sent' = IF Len(all_keys') < Len(all_keys)
                   THEN Append(sent, Head(all_keys)) ELSE sent
    BY <1>1, <1>7 DEF Record, Recorded
  <2>2. Turn
    BY <2>1, <1>4 DEF Turn, Recorded, top, ps2_keyboard
  <2>3. Circuit'
    BY <2>1, <1>3, CircuitEdge DEF BoardInv, Histories
  <2>4. Histories'
    <3>1. recvd' \in Seq(Code)
      BY <2>1, <1>3, HistoryGrows DEF BoardInv, Circuit, Histories
    <3>2. sent' \in Seq(Code)
      <4>1. CASE Len(all_keys') < Len(all_keys)
        <5>1. Finishes
          BY <4>1, <1>2 DEF Holds, Rises, Falls, BoardInv, Sender, SenderTypes
        <5>2. Head(all_keys) \in Code
          BY <5>1, HeadTailProperties DEF Finishes, BoardInv, Sender, SenderTypes
        <5> QED BY <4>1, <5>2, <2>1, AppendProperties DEF BoardInv, Histories
      <4>2. CASE ~(Len(all_keys') < Len(all_keys))
        BY <4>2, <2>1 DEF BoardInv, Histories
      <4> QED BY <4>1, <4>2
    <3> QED BY <3>1, <3>2 DEF Histories
  <2>5. clean' => Aligned'
    BY <2>1, <2>2, <1>2, <1>5, RiseAligned, FallAligned, FinishAligned, HoldAligned
    DEF BoardInv, Circuit
  <2>6. HarnessTypes' /\ Starting'
    BY <2>1, <1>1 DEF BoardInv, HarnessTypes, Starting
  <2> QED BY <1>2, <1>5, <2>3, <2>4, <2>5, <2>6 DEF BoardInv
<1> QED BY <1>1, <1>6, <1>7 DEF Bit

(* The circuit and what it has received are let alone. *)
LEMMA OthersKeep ==
    ASSUME BoardInv, UNCHANGED <<topVars, sent, recvd, clean, ps2_clk, Left>>
    PROVE  Timing' /\ Circuit' /\ Histories'
<1>1. /\ UNCHANGED <<ps2_clk_sync, buffer, count, fifo, w_ptr, r_ptr, ready, overflow>>
      /\ UNCHANGED <<state, nextdata_n, en_count, seg_data, is_pressed, key_count>>
      /\ sent' = sent /\ recvd' = recvd /\ ps2_clk' = ps2_clk /\ Left' = Left
  BY DEF topVars, ps2Vars, fsmVars
<1>2. Timing'
  BY <1>1 DEF BoardInv, Timing
<1>3. Ps2TypeOK' /\ LineInv' /\ CircuitTypes'
  BY <1>1 DEF BoardInv, Circuit, Ps2TypeOK, CircuitTypes, LineInv, Counting, OneWaits, Pace,
              NoCodeTakenUnseen, Pops, sampling
<1>4. Reading' /\ Pressed'
  BY <1>1 DEF BoardInv, Circuit, Reading, LampShowsReceived, Pressed, Presses, Due, data
<1> QED BY <1>1, <1>2, <1>3, <1>4 DEF BoardInv, Circuit, Histories

LEMMA ScanCodesType ==
    ASSUME NEW k \in Key, NEW down \in BOOLEAN
    PROVE  ScanCodes(k, down) \in Seq(Code)
<1>1. ExtendCode \in Code /\ BreakCode \in Code /\ map0[k] \in Code /\ map1[k] \in Code
  BY CodeAssumption, KeyboardAssumption
<1> QED BY <1>1 DEF ScanCodes

(* A key event: codes are queued behind the one on the line. *)
LEMMA KeyKeeps == BoardInv /\ KeyEvent => BoardInv'
<1> SUFFICES ASSUME BoardInv, KeyEvent PROVE BoardInv'
  OBVIOUS
<1>1. PICK k \in Key, down \in BOOLEAN : push_key(k, down)
  BY DEF KeyEvent
<1>2. /\ all_keys' = all_keys \o ScanCodes(k, down) /\ is_kb_idle' = FALSE
      /\ UNCHANGED <<cur_key, data_idx, left_clk, ps2_clk, ps2_dat>>
  BY <1>1 DEF push_key
<1>3. n = 0 /\ UNCHANGED <<topVars, rst, n, sent, recvd, clean>>
  BY DEF KeyEvent, history
<1>4. /\ all_keys \in Seq(Code) /\ all_keys' \in Seq(Code)
      /\ all_keys # <<>> => all_keys' # <<>> /\ Head(all_keys') = Head(all_keys)
  <2>1. all_keys \in Seq(Code) /\ ScanCodes(k, down) \in Seq(Code)
    BY ScanCodesType DEF BoardInv, Sender, SenderTypes
  <2>2. /\ all_keys' \in Seq(Code)
        /\ Len(all_keys') = Len(all_keys) + Len(ScanCodes(k, down))
        /\ \A i \in 1..Len(all_keys) : all_keys'[i] = all_keys[i]
    BY <2>1, <1>2, ConcatProperties, LenProperties
  <2>3. ASSUME all_keys # <<>>
        PROVE  all_keys' # <<>> /\ Head(all_keys') = Head(all_keys)
    <3>1. Len(all_keys) \in Nat \ {0} /\ Len(ScanCodes(k, down)) \in Nat
      BY <2>1, <2>3, EmptySeq, LenProperties
    <3>2. Len(all_keys') # 0 /\ all_keys'[1] = all_keys[1]
      BY <2>2, <3>1
    <3> QED BY <3>2, <2>1, <2>2
  <2> QED BY <2>1, <2>2, <2>3
<1>5. Sender'
  <2>1. cur_key' # NOT_A_KEY => all_keys' # <<>> /\ Rest(cur_key)'
    BY <1>2, <1>4 DEF BoardInv, Sender, Rest, Put
  <2>2. data_idx' > 0 => ps2_dat' = BitOf(Head(all_keys'), data_idx' - 1)
    <3> SUFFICES ASSUME data_idx' > 0 PROVE ps2_dat' = BitOf(Head(all_keys'), data_idx' - 1)
      OBVIOUS
    <3>1. data_idx > 0 /\ Head(all_keys') = Head(all_keys)
      BY <1>2, <1>4 DEF BoardInv, Sender
    <3> QED BY <3>1, <1>2 DEF BoardInv, Sender
  <2> QED BY <2>1, <2>2, <1>2, <1>4 DEF BoardInv, Sender, SenderTypes
<1>6. Timing' /\ Circuit' /\ Histories'
  <2>1. Left' = Left
    BY <1>2 DEF Left
  <2> QED BY <2>1, <1>2, <1>3, OthersKeep
<1>7. clean' => Aligned'
  <2> SUFFICES ASSUME clean' PROVE Aligned'
    OBVIOUS
  <2>1. Aligned
    BY <1>3 DEF BoardInv
  <2>2. /\ UNCHANGED <<ps2_clk_sync, buffer, count, sent, recvd>>
        /\ UNCHANGED <<data_idx, ps2_clk, ps2_dat>>
    BY <1>2, <1>3 DEF topVars, ps2Vars
  <2>3. OnWire' = OnWire
    BY <1>2, <1>4, <2>2 DEF OnWire, BoardInv, Sender
  <2>4. Pending' = Pending /\ Finished' = Finished /\ Fallen' = Fallen
    BY <2>2 DEF Pending, Finished, Fallen
  <2>5. Counted' /\ Delivered'
    BY <2>1, <2>2, <2>4 DEF Aligned, Counted, Delivered
  <2>6. Bits'
    BY <2>1, <2>2, <2>3 DEF Aligned, Bits, BitOf, Xor
  <2>7. Offered'
    BY <2>1, <2>2, <2>3, <2>4 DEF Aligned, Offered, BitOf, Xor
  <2> QED BY <2>5, <2>6, <2>7 DEF Aligned
<1>8. HarnessTypes' /\ Starting'
  BY <1>3 DEF BoardInv, HarnessTypes, Starting
<1> QED BY <1>5, <1>6, <1>7, <1>8 DEF BoardInv

(* The switch, or nothing. *)
LEMMA SwitchKeeps ==
    ASSUME BoardInv, UNCHANGED <<topVars, kbVars, n, history>>, rst' \in Bit
    PROVE  BoardInv'
<1>1. /\ UNCHANGED <<all_keys, cur_key, data_idx, left_clk, is_kb_idle, ps2_clk, ps2_dat>>
      /\ UNCHANGED <<topVars, n, sent, recvd, clean>>
  BY DEF kbVars, history
<1>2. Left' = Left
  BY <1>1 DEF Left
<1>3. Timing' /\ Circuit' /\ Histories'
  BY <1>1, <1>2, OthersKeep
<1>4. Sender'
  BY <1>1 DEF BoardInv, Sender, SenderTypes, Rest, Put, BitOf, Xor
<1>5. /\ UNCHANGED <<ps2_clk_sync, buffer, count, ready, is_pressed, key_count, en_count>>
  BY <1>1 DEF topVars, ps2Vars, fsmVars
<1>6. clean' => Aligned'
  BY <1>1, <1>5 DEF BoardInv, Aligned, Counted, Bits, Offered, Delivered, Finished, Pending,
                    Fallen, OnWire, BitOf, Xor
<1>7. HarnessTypes' /\ Starting'
  BY <1>1, <1>5 DEF BoardInv, HarnessTypes, Starting
<1> QED BY <1>3, <1>4, <1>6, <1>7 DEF BoardInv

LEMMA BoardInvariant == Spec => []BoardInv
<1>1. BoardInv /\ [Next]_vars => BoardInv'
  <2> SUFFICES ASSUME BoardInv, [Next]_vars PROVE BoardInv'
    OBVIOUS
  <2>1. CASE reset
    BY <2>1, ResetKeeps
  <2>2. CASE step_sim
    BY <2>2, TurnKeeps
  <2>3. CASE KeyEvent
    BY <2>3, KeyKeeps
  <2>4. CASE ToggleRst
    BY <2>4, SwitchKeeps DEF ToggleRst, BoardInv, HarnessTypes, Bit
  <2>5. CASE UNCHANGED vars
    BY <2>5, SwitchKeeps DEF vars, harness, BoardInv, HarnessTypes
  <2> QED BY <2>1, <2>2, <2>3, <2>4, <2>5 DEF Next
<1> QED BY <1>1, BoardStarts, PTL DEF Spec

(* The board's keyboard is one of the lines that the circuit copes with.   *)
THEOREM BoardIsALine == Spec => LineSpec
<1>1. Init => TopInit
  BY DEF Init
<1>2. BoardInv /\ BoardInv' /\ [Next]_vars => [LineNext]_topVars
  <2> SUFFICES ASSUME BoardInv, BoardInv', [Next]_vars PROVE [LineNext]_topVars
    OBVIOUS
  <2>1. rst \in Bit /\ ps2_clk \in Bit /\ ps2_dat \in Bit /\ ps2_clk' \in Bit /\ ps2_dat' \in Bit
    BY DEF BoardInv, HarnessTypes, Sender, SenderTypes
  <2>2. CASE reset \/ step_sim
    BY <2>1, <2>2 DEF reset, step_sim, LineNext
  <2>3. CASE KeyEvent \/ ToggleRst \/ UNCHANGED vars
    BY <2>3 DEF KeyEvent, ToggleRst, vars
  <2> QED BY <2>2, <2>3 DEF Next
<1> QED BY <1>1, <1>2, BoardInvariant, PTL DEF Spec, LineSpec

(* Circuit and keyboard stay in range: no bit is put outside a frame, no   *)
(* code is sent that is not queued, and no queued code finds the keyboard  *)
(* asleep.                                                                 *)
THEOREM BoardTypes == Spec => []BoardTypeOK
<1>1. BoardInv => BoardTypeOK
  BY DEF BoardInv, BoardTypeOK, Circuit, LineInv, Counting, Sender, SenderTypes
<1> QED BY <1>1, BoardInvariant, PTL

(* Whatever is typed, and whenever the circuit is reset on a quiet line,   *)
(* the ring gets exactly the codes sent, in order.                         *)
THEOREM BoardLineFaithful == Spec => []LineFaithful
<1>1. BoardInv => LineFaithful
  <2> SUFFICES ASSUME BoardInv, clean
               PROVE  /\ IsPrefix(recvd, sent)
                      /\ Len(sent) <= Len(recvd) + 1
                      /\ QuietLine => recvd = sent
    BY DEF LineFaithful
  <2>1. Delivered /\ sent \in Seq(Code) /\ recvd \in Seq(Code)
    BY DEF BoardInv, Aligned, Histories
  <2>2. Len(sent) \in Nat /\ Len(recvd) \in Nat
    BY <2>1, LenProperties
  <2>3. CASE ~Finished
    <3>1. sent = recvd
      BY <2>1, <2>3 DEF Delivered
    <3> QED BY <3>1, <2>2 DEF IsPrefix
  <2>4. CASE Finished
    <3>1. Len(sent) = Len(recvd) + 1 /\ \A i \in 1..Len(recvd) : sent[i] = recvd[i]
      BY <2>1, <2>4 DEF Delivered
    <3>2. ~QuietLine
      BY <2>4 DEF Finished, Pending, QuietLine, BoardInv, Timing
    <3>3. SubSeq(recvd, 1, Len(recvd)) = SubSeq(sent, 1, Len(recvd))
      BY <3>1, <2>1, <2>2
    <3> QED BY <3>1, <3>2, <3>3, <2>2 DEF IsPrefix
  <2> QED BY <2>3, <2>4
<1> QED BY <1>1, BoardInvariant, PTL

(* The display shows only codes that came. *)
THEOREM BoardLamp == Spec => []LampShowsReceived
<1>1. BoardInv => LampShowsReceived
  BY DEF BoardInv, Circuit, Reading
<1> QED BY <1>1, BoardInvariant, PTL

-----------------------------------------------------------------------------
(***************************************************************************)
(* What the display says.                                                  *)
(***************************************************************************)

\* Which code the machine has in hand in each state.  ACK_MAKE and ACK_REP go
\* to HOLD, which sees the code that is leaving the ring and goes to ACK_REP
\* once more; ACK_F0 goes to WAIT_REL, which in the same way sees the break
\* code and does not wait.
Lamp ==
    /\ ready = 1 => recvd # <<>> /\ data = recvd[Len(recvd)]
    /\ state = "ACK_MAKE" => ready = 1 /\ ~LastIsBreak /\ is_pressed = 1
    /\ state = "ACK_REP" => ~LastIsBreak /\ is_pressed = 1 /\ (ready = 1 \/ count <= 2)
    /\ state = "HOLD" => is_pressed = 1 /\ (ready = 0 \/ nextdata_n = 0 => ~LastIsBreak)
    /\ state \in {"ACK_F0", "WAIT_REL"} => ready = 1 /\ LastIsBreak
    /\ state = "WAIT_REL" => nextdata_n = 0
    /\ state = "ACK_REL" => ready = 0 /\ LastIsBreak /\ count <= 2
    /\ state = "IDLE" => is_pressed = 0 /\ (nextdata_n = 0 => ready = 0)
                                        /\ (ready = 0 => LastIsBreak)

(* What an edge does to the last code. *)
LEMMA LastCode ==
    ASSUME Circuit, recvd \in Seq(Code), NEW c \in Bit, NEW d \in Bit, top(0, c, d), Recorded(d),
           Lamp
    PROVE  /\ Pushes(d) => /\ ready = 0 /\ ready' = 1 /\ count = StopBit
                           /\ LastIsBreak' <=> data' = BreakCode
           /\ ~Pushes(d) => /\ recvd' = recvd
                            /\ ready' = 1 => ready = 1 /\ data' = data
                            /\ Pops(nextdata_n) => ready' = 0
           /\ ready' = 1 => recvd' # <<>> /\ data' = recvd'[Len(recvd')]
<1>1. CASE Pushes(d)
  <2>1. ready = 0 /\ ready' = 1 /\ data' = ReceivedCode /\ count = StopBit
    BY <1>1, RingMoves DEF Circuit, Pushes
  <2>2. ReceivedCode \in Code /\ recvd' = Append(recvd, ReceivedCode)
    BY <1>1, ReceivedType DEF Circuit, Recorded
  <2>3. recvd' # <<>> /\ recvd'[Len(recvd')] = ReceivedCode
    BY <2>2, AppendProperties, LenProperties
  <2> QED BY <1>1, <2>1, <2>3 DEF LastIsBreak
<1>2. CASE ~Pushes(d)
  <2>1. recvd' = recvd
    BY <1>2 DEF Recorded
  <2>2. ready' = 1 => ready = 1 /\ data' = data
    BY <1>2, RingMoves DEF Circuit
  <2>3. Pops(nextdata_n) => ready' = 0
    BY <1>2 DEF top, ps2_keyboard, ps2_keyboard_ring, Empties, Circuit, LineInv, OneWaits, Pops
  <2> QED BY <1>2, <2>1, <2>2, <2>3 DEF Lamp
<1> QED BY <1>1, <1>2

LEMMA LampEdge ==
    ASSUME Circuit, recvd \in Seq(Code), NEW c \in Bit, NEW d \in Bit, top(0, c, d), Recorded(d),
           Lamp
    PROVE  Lamp'
<1> DEFINE make == state = "IDLE" /\ ready = 1 /\ data # BreakCode
<1>1. state' = next_state(data, ready) /\ keyboard_fsm_out(data, ready)
  BY DEF top, keyboard_fsm, Circuit, LineInv, OneWaits
<1>2. /\ state \in FsmState /\ ready \in Bit /\ nextdata_n \in Bit /\ is_pressed \in Bit
      /\ ready' \in Bit /\ count' \in 0..StopBit /\ count \in 0..StopBit /\ StopBit \in Nat /\ StopBit > 2
  <2>1. ready' \in Bit /\ count' \in 0..StopBit
    BY CircuitEdge DEF Circuit, Ps2TypeOK, LineInv, Counting
  <2> QED BY <2>1, CodeAssumption DEF Circuit, LineInv, Counting, CircuitTypes, StopBit
<1>3. /\ nextdata_n' = IF state \in AckState THEN 0 ELSE 1
      /\ is_pressed' = IF make THEN 1
                       ELSE IF state \in {"IDLE", "ACK_REL"} THEN 0 ELSE is_pressed
  BY <1>1 DEF keyboard_fsm_out
<1> HIDE DEF make
<1>4. count' <= count + 1
  BY <1>2 DEF top, ps2_keyboard, ps2_keyboard_frame
<1>5. /\ Pushes(d) => /\ ready = 0 /\ ready' = 1 /\ count = StopBit
                      /\ LastIsBreak' <=> data' = BreakCode
      /\ ~Pushes(d) => /\ recvd' = recvd
                       /\ ready' = 1 => ready = 1 /\ data' = data
                       /\ Pops(nextdata_n) => ready' = 0
      /\ ready' = 1 => recvd' # <<>> /\ data' = recvd'[Len(recvd')]
  BY LastCode
<1>6. ~Pushes(d) => (LastIsBreak' <=> LastIsBreak)
  BY <1>5 DEF LastIsBreak
<1>7. ready = 1 => (LastIsBreak <=> data = BreakCode)
  BY DEF Lamp, LastIsBreak
<1>8. CASE state = "IDLE"
  <2>1. CASE ready = 1
    <3>1. nextdata_n = 1 /\ ~Pushes(d)
      BY <2>1, <1>2, <1>5, <1>8 DEF Lamp, Bit
    <3>2. ready' = 1
      BY <3>1, <2>1 DEF top, ps2_keyboard, ps2_keyboard_ring, Empties, Pops
    <3>3. state' = IF data = BreakCode THEN "ACK_F0" ELSE "ACK_MAKE"
      BY <1>1, <1>8, <2>1 DEF next_state, AckState
    <3>4. data # BreakCode => is_pressed' = 1
      BY <1>3, <1>8, <2>1 DEF make
    <3> QED BY <1>5, <1>6, <1>7, <2>1, <3>1, <3>2, <3>3, <3>4 DEF Lamp
  <2>2. CASE ready = 0
    <3>1. state' = "IDLE" /\ is_pressed' = 0 /\ nextdata_n' = 1
      BY <1>1, <1>3, <1>8, <2>2 DEF next_state, AckState, make
    <3>2. ready' = 0 => LastIsBreak'
      BY <1>5, <1>6, <1>8, <2>2 DEF Lamp
    <3> QED BY <1>5, <3>1, <3>2 DEF Lamp
  <2> QED BY <2>1, <2>2, <1>2 DEF Bit
<1>9. CASE state = "HOLD"
  <2>1. is_pressed' = 1 /\ nextdata_n' = 1
    BY <1>3, <1>9 DEF Lamp, AckState, make
  <2>2. CASE ready = 1
    <3>1. ~Pushes(d) /\ (LastIsBreak' <=> LastIsBreak)
      BY <2>2, <1>5, <1>6
    <3>2. state' = IF data = BreakCode THEN "ACK_F0" ELSE "ACK_REP"
      BY <1>1, <1>9, <2>2 DEF next_state, AckState
    <3>3. nextdata_n = 1 => ready' = 1
      BY <3>1, <2>2 DEF top, ps2_keyboard, ps2_keyboard_ring, Empties, Pops
    <3>4. nextdata_n = 0 => data # BreakCode /\ count <= 1
      BY <1>7, <1>9, <2>2 DEF Lamp, Circuit, LineInv, Pace, Deciding
    <3>5. CASE data = BreakCode
      <4>1. nextdata_n = 1 /\ ready' = 1 /\ state' = "ACK_F0"
        BY <3>2, <3>3, <3>4, <3>5, <1>2 DEF Bit
      <4> QED BY <4>1, <3>1, <3>5, <1>5, <1>7, <2>2 DEF Lamp
    <3>6. CASE data # BreakCode
      <4>1. state' = "ACK_REP" /\ ~LastIsBreak'
        BY <3>1, <3>2, <3>6, <1>7, <2>2
      <4>2. ready' = 1 \/ count' <= 2
        BY <3>3, <3>4, <1>2, <1>4 DEF Bit
      <4> QED BY <4>1, <4>2, <2>1, <1>5 DEF Lamp
    <3> QED BY <3>5, <3>6
  <2>3. CASE ready = 0
    <3>1. state' = "HOLD"
      BY <1>1, <1>9, <2>3 DEF next_state, AckState
    <3>2. ready' = 0 => ~LastIsBreak'
      BY <1>5, <1>6, <1>9, <2>3 DEF Lamp
    <3> QED BY <1>5, <2>1, <3>1, <3>2 DEF Lamp
  <2> QED BY <2>2, <2>3, <1>2 DEF Bit
<1>10. CASE state \in {"ACK_MAKE", "ACK_REP"}
  <2>1. ~Pushes(d)
    BY <1>2, <1>5, <1>10 DEF Lamp
  <2>2. state' = "HOLD" /\ is_pressed' = 1 /\ nextdata_n' = 0
    BY <1>1, <1>3, <1>10 DEF next_state, after_ack, AckState, Lamp, make
  <2>3. ~LastIsBreak'
    BY <1>6, <1>10, <2>1 DEF Lamp
  <2> QED BY <1>5, <2>2, <2>3 DEF Lamp
<1>11. CASE state = "ACK_F0"
  <2>1. ready = 1 /\ LastIsBreak /\ ~Pushes(d) /\ nextdata_n = 1
    <3>1. ready = 1 /\ LastIsBreak
      BY <1>11 DEF Lamp
    <3>2. nextdata_n = 1
      BY <1>2, <1>11, <3>1 DEF Circuit, LineInv, NoCodeTakenUnseen, Pops, Bit
    <3> QED BY <3>1, <3>2, <1>5
  <2>2. state' = "WAIT_REL" /\ nextdata_n' = 0
    BY <1>1, <1>3, <1>11 DEF next_state, after_ack, AckState
  <2>3. ready' = 1 /\ LastIsBreak'
    BY <1>6, <2>1 DEF top, ps2_keyboard, ps2_keyboard_ring, Empties, Pops
  <2> QED BY <1>5, <2>2, <2>3 DEF Lamp
<1>12. CASE state = "WAIT_REL"
  <2>1. ready = 1 /\ nextdata_n = 0 /\ LastIsBreak /\ ~Pushes(d) /\ count <= 1
    BY <1>5, <1>12 DEF Lamp, Circuit, LineInv, Pace, Deciding
  <2>2. state' = "ACK_REL" /\ ready' = 0 /\ LastIsBreak' /\ count' <= 2
    BY <1>1, <1>2, <1>4, <1>5, <1>6, <1>12, <2>1 DEF next_state, AckState, Pops
  <2> QED BY <1>5, <2>2 DEF Lamp
<1>13. CASE state = "ACK_REL"
  <2>1. ready = 0 /\ LastIsBreak /\ ~Pushes(d)
    BY <1>2, <1>5, <1>13 DEF Lamp
  <2>2. state' = "IDLE" /\ is_pressed' = 0 /\ ready' = 0 /\ LastIsBreak'
    BY <1>1, <1>2, <1>3, <1>5, <1>6, <1>13, <2>1 DEF next_state, after_ack, AckState, make, Bit
  <2> QED BY <1>5, <2>2 DEF Lamp
<1> QED BY <1>2, <1>8, <1>9, <1>10, <1>11, <1>12, <1>13 DEF FsmState

LEMMA LampInvariant == Spec => []Lamp
<1>1. Init => Lamp
  BY DEF Init, TopInit, Ps2Init, FsmInit, Lamp, LastIsBreak
<1>2. BoardInv /\ BoardInv' /\ Lamp /\ [Next]_vars => Lamp'
  <2> SUFFICES ASSUME BoardInv, BoardInv', Lamp, [Next]_vars PROVE Lamp'
    OBVIOUS
  <2>1. /\ recvd \in Seq(Code) /\ rst \in Bit
        /\ ps2_clk \in Bit /\ ps2_dat \in Bit /\ ps2_clk' \in Bit /\ ps2_dat' \in Bit
    BY DEF BoardInv, HarnessTypes, Histories, Sender, SenderTypes
  <2>2. ASSUME NEW c \in Bit, NEW d \in Bit, top(1, c, d), recvd' = <<>> PROVE Lamp'
    <3>1. ready' = 0 /\ state' = "IDLE" /\ nextdata_n' = 1 /\ is_pressed' = 0
      BY <2>2 DEF top, keyboard_fsm, ps2_keyboard, ps2_keyboard_reset
    <3> QED BY <2>2, <3>1 DEF Lamp, LastIsBreak
  <2>3. CASE reset
    <3>1. n > 0 /\ n \in Nat /\ top(rst, ps2_clk, ps2_dat) /\ recvd' = recvd
      BY <2>3 DEF reset, history, BoardInv, HarnessTypes
    <3>2. recvd = <<>> /\ ps2_clk_sync = <<0, 0, 0>>
      BY <3>1 DEF BoardInv, Starting
    <3>3. ~Pushes(ps2_dat)
      BY <3>2 DEF Pushes, sampling
    <3>4. Recorded(ps2_dat)
      BY <3>1, <3>3 DEF Recorded
    <3> QED BY <2>1, <2>2, <3>1, <3>2, <3>4, LampEdge DEF BoardInv, Bit
  <2>4. CASE step_sim
    <3>1. top(rst, ps2_clk', ps2_dat') /\ Record
      BY <2>4 DEF step_sim
    <3>2. CASE rst = 1
      BY <2>1, <2>2, <3>1, <3>2 DEF Record
    <3>3. CASE rst = 0
      <4>1. Recorded(ps2_dat')
        BY <3>1, <3>3 DEF Record, Recorded
      <4> QED BY <2>1, <3>1, <3>3, <4>1, LampEdge DEF BoardInv
    <3> QED BY <2>1, <3>2, <3>3 DEF Bit
  <2>5. CASE KeyEvent \/ ToggleRst \/ UNCHANGED vars
    <3>1. UNCHANGED <<topVars, recvd>>
      BY <2>5 DEF KeyEvent, ToggleRst, vars, history
    <3>2. UNCHANGED <<state, nextdata_n, is_pressed, count, fifo, r_ptr, ready, recvd>>
      BY <3>1 DEF topVars, ps2Vars, fsmVars
    <3> QED BY <3>2 DEF Lamp, LastIsBreak, data
  <2> QED BY <2>3, <2>4, <2>5 DEF Next
<1> QED BY <1>1, <1>2, BoardInvariant, PTL DEF Spec

(* Whatever is typed and however it is reset: when no code is left to read *)
(* the display is lit, unless the last code that came is the break code.   *)
(* So every release that is received leaves it lit, and not only the one   *)
(* that a run of TLC finds.                                                *)
THEOREM BoardLampFollowsLast == Spec => []LampFollowsLast
<1>1. BoardInv /\ Lamp => LampFollowsLast
  <2> SUFFICES ASSUME BoardInv, Lamp, Unread = 0, state \in {"IDLE", "HOLD"}
               PROVE  is_pressed = 0 <=> LastIsBreak
    BY DEF LampFollowsLast
  <2>1. ready = 0
    BY DepthAssumption DEF Unread, BoardInv, Circuit, LineInv, Counting, OneWaits, Succ, Ptr, Bit
  <2> QED BY <2>1 DEF Lamp
<1> QED BY <1>1, BoardInvariant, LampInvariant, PTL

(* WAIT_REL never waits for the release code: it is entered with the break *)
(* code still in front of the ring, and left on the next edge.             *)
THEOREM BoardWaitRelNeverWaits ==
    Spec => [](state = "WAIT_REL" => Pops(nextdata_n) /\ data = BreakCode)
<1>1. Lamp => (state = "WAIT_REL" => Pops(nextdata_n) /\ data = BreakCode)
  BY DEF Lamp, LastIsBreak, Pops
<1> QED BY <1>1, LampInvariant, PTL

-----------------------------------------------------------------------------
(***************************************************************************)
(* What the counter counts.                                                *)
(***************************************************************************)
LEMMA Division ==
    ASSUME NEW a \in Nat, NEW m \in Nat, m > 0
    PROVE  \E q \in Nat, r \in 0..(m - 1) : a = m * q + r /\ r = a % m
<1>1. a = m * (a \div m) + (a % m)
  BY SMT
<1>2. a \div m \in Nat /\ a % m \in 0..(m - 1)
  BY SMT
<1> QED BY <1>1, <1>2, Zenon

LEMMA Remainder ==
    ASSUME NEW m \in Nat, m > 0, NEW q \in Nat, NEW r \in 0..(m - 1)
    PROVE  (m * q + r) % m = r
  BY SMT

(* A counter modulo m counts on from its remainder.                        *)
LEMMA ModuloCountsOn ==
    ASSUME NEW a \in Nat, NEW m \in Nat, m > 0 PROVE ((a % m) + 1) % m = (a + 1) % m
<1>1. PICK q \in Nat, r \in 0..(m - 1) : a = m * q + r /\ r = a % m
  BY Division
<1>2. CASE r + 1 < m
  <2>1. (m * q + (r + 1)) % m = r + 1
    BY <1>2, Remainder
  <2>2. (r + 1) % m = r + 1
    BY <1>2, SMT
  <2>3. a + 1 = m * q + (r + 1)
    BY <1>1, SMT
  <2> QED BY <2>1, <2>2, <2>3, <1>1, Zenon
<1>3. CASE r + 1 = m
  <2>1. (m * (q + 1) + 0) % m = 0
    BY Remainder
  <2>2. m * (q + 1) + 0 = a + 1
    BY <1>1, <1>3, SMT
  <2>3. m % m = 0
    BY SMT
  <2> QED BY <2>1, <2>2, <2>3, <1>1, <1>3
<1> QED BY <1>2, <1>3

(* Adding the same 0 or 1 keeps remainders equal.                          *)
LEMMA SameRemainder ==
    ASSUME NEW a \in Nat, NEW b \in Nat, NEW d \in {0, 1}, a % CountMod = b % CountMod
    PROVE  ((a % CountMod) + d) % CountMod = (b + d) % CountMod
<1>1. CountMod \in Nat /\ CountMod > 0
  BY CountAssumption
<1>2. (b % CountMod) % CountMod = b % CountMod
  <2>1. PICK q \in Nat, r \in 0..(CountMod - 1) : r = b % CountMod
    BY <1>1, Division
  <2>2. r % CountMod = r
    BY <1>1, SMT
  <2> QED BY <2>1, <2>2
<1>3. ((b % CountMod) + 1) % CountMod = (b + 1) % CountMod
  BY <1>1, ModuloCountsOn
<1>4. b % CountMod \in Nat
  BY Modulo
<1>5. CASE d = 0
  <2>1. (b % CountMod) + d = b % CountMod /\ b + d = b
    BY <1>4, <1>5
  <2> QED BY <2>1, <1>2
<1>6. CASE d = 1
  BY <1>3, <1>6
<1> QED BY <1>5, <1>6

\* A code that begins a run and that IDLE has still to look at.
RunDue  == IF state = "IDLE" /\ ready = 1 /\ data # BreakCode THEN 1 ELSE 0
RunsInv == (key_count + en_count + RunDue) % CountMod = Cardinality(Runs) % CountMod

LEMMA RunsFinite ==
    ASSUME recvd \in Seq(Code)
    PROVE  IsFiniteSet(Runs) /\ Cardinality(Runs) \in Nat /\ Len(recvd) + 1 \notin Runs
<1>1. DOMAIN recvd = 1..Len(recvd) /\ Len(recvd) \in Nat
  BY LenProperties
<1>2. IsFiniteSet(1..Len(recvd)) /\ Runs \in SUBSET (1..Len(recvd))
  BY <1>1, FS_Interval DEF Runs
<1>3. IsFiniteSet(Runs)
  BY <1>2, FS_Subset
<1> QED BY <1>1, <1>2, <1>3, FS_CardinalityType

(* A code begins a run if it is none itself and follows a break code.      *)
LEMMA RunsAppend ==
    ASSUME recvd \in Seq(Code), NEW code \in Code, recvd' = Append(recvd, code)
    PROVE  Cardinality(Runs)' = Cardinality(Runs)
                                + IF code # BreakCode /\ LastIsBreak THEN 1 ELSE 0
<1> DEFINE k == Len(recvd)
<1>1. /\ k \in Nat /\ DOMAIN recvd = 1..k /\ DOMAIN recvd' = 1..(k + 1)
      /\ recvd'[k + 1] = code /\ \A i \in 1..k : recvd'[i] = recvd[i]
  BY LenProperties, AppendProperties
<1>2. k = 0 <=> recvd = <<>>
  BY LenProperties, EmptySeq
<1> HIDE DEF k
<1>3. \A i \in 1..k : i \in Runs' <=> i \in Runs
  BY <1>1 DEF Runs
<1>4. k + 1 \in Runs' <=> code # BreakCode /\ LastIsBreak
  <2>1. k + 1 \in Runs' <=> code # BreakCode /\ (k = 0 \/ recvd'[k] = BreakCode)
    BY <1>1 DEF Runs
  <2>2. CASE k = 0
    BY <1>2, <2>1, <2>2 DEF LastIsBreak, k
  <2>3. CASE k # 0
    <3>1. recvd'[k] = recvd[k] /\ recvd # <<>>
      BY <1>1, <1>2, <2>3
    <3> QED BY <2>1, <2>3, <3>1 DEF LastIsBreak, k
  <2> QED BY <2>2, <2>3
<1>5. Runs \subseteq 1..k /\ Runs' \subseteq 1..k \cup {k + 1} /\ k + 1 \notin 1..k
  BY <1>1 DEF Runs
<1>6. CASE code # BreakCode /\ LastIsBreak
  <2>1. Runs' = Runs \cup {k + 1}
    BY <1>3, <1>4, <1>5, <1>6, Zenon
  <2> QED BY <2>1, <1>6, RunsFinite, FS_AddElement DEF k
<1>7. CASE ~(code # BreakCode /\ LastIsBreak)
  <2>1. Runs' = Runs
    BY <1>3, <1>4, <1>5, <1>7, Zenon
  <2> QED BY <2>1, <1>7, RunsFinite
<1> QED BY <1>6, <1>7

LEMMA RunsEdge ==
    ASSUME Circuit, Circuit', recvd \in Seq(Code), NEW c \in Bit, NEW d \in Bit, top(0, c, d),
           Recorded(d), Lamp, RunsInv
    PROVE  RunsInv'
<1>1. /\ state \in FsmState /\ ready \in Bit /\ StopBit \in Nat /\ StopBit > 2
      /\ key_count \in Nat /\ en_count \in Bit /\ RunDue \in {0, 1} /\ RunDue' \in {0, 1}
      /\ en_count = 1 => state = "ACK_MAKE"
  BY CodeAssumption DEF Circuit, LineInv, Counting, CircuitTypes, StopBit, Pressed, RunDue
<1>2. /\ Pushes(d) => /\ ready = 0 /\ ready' = 1 /\ count = StopBit
                      /\ LastIsBreak' <=> data' = BreakCode
      /\ ~Pushes(d) => /\ recvd' = recvd
                       /\ ready' = 1 => ready = 1 /\ data' = data
                       /\ Pops(nextdata_n) => ready' = 0
  BY LastCode
<1>3. state' = next_state(data, ready) /\ keyboard_fsm_out(data, ready)
      /\ key_count' = (key_count + en_count) % CountMod
  BY DEF top, keyboard_fsm, Circuit, LineInv, OneWaits
<1>4. en_count' = RunDue
  BY <1>1, <1>3 DEF keyboard_fsm_out, RunDue, Bit, FsmState
<1>5. RunDue' = IF Pushes(d) /\ data' # BreakCode /\ LastIsBreak THEN 1 ELSE 0
  <2>1. ASSUME RunDue' = 1 PROVE Pushes(d) /\ data' # BreakCode /\ LastIsBreak
    <3>1. state' = "IDLE" /\ ready' = 1 /\ data' # BreakCode
      BY <2>1 DEF RunDue
    <3>2. (state = "IDLE" /\ ready = 0) \/ state = "ACK_REL"
      BY <1>1, <1>3, <3>1 DEF next_state, after_ack, AckState, FsmState, Bit
    <3>3. ready = 0
      BY <3>2 DEF Lamp
    <3> QED BY <1>2, <3>1, <3>2, <3>3 DEF Lamp
  <2>2. ASSUME Pushes(d), data' # BreakCode, LastIsBreak PROVE RunDue' = 1
    <3>1. state = "IDLE" /\ ready = 0
      BY <1>1, <1>2, <2>2 DEF Lamp, FsmState
    <3>2. state' = "IDLE"
      BY <1>3, <3>1 DEF next_state, AckState
    <3> QED BY <1>2, <2>2, <3>2 DEF RunDue
  <2> QED BY <1>1, <2>1, <2>2
<1>6. Cardinality(Runs)' = Cardinality(Runs) + RunDue'
  <2>1. CASE Pushes(d)
    <3>1. ReceivedCode \in Code /\ recvd' = Append(recvd, ReceivedCode) /\ data' = ReceivedCode
      BY <2>1, <1>2, ReceivedType, RingMoves DEF Circuit, Recorded
    <3> QED BY <1>5, <2>1, <3>1, RunsAppend
  <2>2. CASE ~Pushes(d)
    <3>1. Cardinality(Runs)' = Cardinality(Runs)
      BY <1>2, <2>2 DEF Runs
    <3> QED BY <1>5, <2>2, <3>1, RunsFinite
  <2> QED BY <2>1, <2>2
<1> DEFINE seen == key_count + en_count
<1>7. (seen + RunDue) % CountMod = Cardinality(Runs) % CountMod /\ seen \in Nat
  BY <1>1 DEF RunsInv, Bit
<1>8. ((seen % CountMod) + RunDue) % CountMod = (seen + RunDue) % CountMod
  BY <1>1, <1>7, SameRemainder
<1>9. (((seen % CountMod) + RunDue) + RunDue') % CountMod
        = (Cardinality(Runs) + RunDue') % CountMod
  <2> DEFINE a == (seen % CountMod) + RunDue
  <2>1. a \in Nat /\ seen + RunDue \in Nat /\ Cardinality(Runs) \in Nat
    <3>1. seen % CountMod \in Nat
      BY <1>7, Modulo
    <3> QED BY <1>1, <1>7, <3>1, RunsFinite
  <2>2. a % CountMod = Cardinality(Runs) % CountMod
    BY <1>7, <1>8
  <2> HIDE DEF a
  <2>3. \A e \in {0, 1} : ((a % CountMod) + e) % CountMod = (Cardinality(Runs) + e) % CountMod
    BY <2>1, <2>2, SameRemainder
  <2>4. \A e \in {0, 1} : ((a % CountMod) + e) % CountMod = (a + e) % CountMod
    BY <2>1, SameRemainder
  <2>5. (a + RunDue') % CountMod = (Cardinality(Runs) + RunDue') % CountMod
    BY <1>1, <2>3, <2>4
  <2> QED BY <2>5 DEF a
<1> HIDE DEF seen
<1>10. key_count' + en_count' + RunDue' = ((seen % CountMod) + RunDue) + RunDue'
  BY <1>3, <1>4 DEF seen
<1> QED BY <1>6, <1>9, <1>10 DEF RunsInv

LEMMA RunsInvariant == Spec => []RunsInv
<1>1. Init => RunsInv
  <2> SUFFICES ASSUME Init PROVE RunsInv
    OBVIOUS
  <2>1. recvd = <<>> /\ key_count = 0 /\ en_count = 0 /\ RunDue = 0
    BY DEF Init, TopInit, Ps2Init, FsmInit, RunDue
  <2>2. Runs = {}
    BY <2>1 DEF Runs
  <2> QED BY <2>1, <2>2, FS_EmptySet DEF RunsInv
<1>2. BoardInv /\ BoardInv' /\ Lamp /\ RunsInv /\ [Next]_vars => RunsInv'
  <2> SUFFICES ASSUME BoardInv, BoardInv', Lamp, RunsInv, [Next]_vars PROVE RunsInv'
    OBVIOUS
  <2>1. /\ recvd \in Seq(Code) /\ rst \in Bit /\ Circuit /\ Circuit'
        /\ ps2_clk \in Bit /\ ps2_dat \in Bit /\ ps2_clk' \in Bit /\ ps2_dat' \in Bit
    BY DEF BoardInv, HarnessTypes, Histories, Sender, SenderTypes
  <2>2. ASSUME NEW c \in Bit, NEW d \in Bit, top(1, c, d), recvd' = <<>> PROVE RunsInv'
    <3>1. ready' = 0 /\ key_count' = 0 /\ en_count' = 0
      BY <2>2 DEF top, keyboard_fsm, ps2_keyboard, ps2_keyboard_reset
    <3>2. Runs' = {}
      BY <2>2 DEF Runs
    <3> QED BY <3>1, <3>2, FS_EmptySet DEF RunsInv, RunDue
  <2>3. CASE reset
    <3>1. n > 0 /\ n \in Nat /\ top(rst, ps2_clk, ps2_dat) /\ recvd' = recvd
      BY <2>3 DEF reset, history, BoardInv, HarnessTypes
    <3>2. recvd = <<>> /\ ps2_clk_sync = <<0, 0, 0>>
      BY <3>1 DEF BoardInv, Starting
    <3>3. Recorded(ps2_dat)
      BY <3>1, <3>2 DEF Recorded, Pushes, sampling
    <3> QED BY <2>1, <2>2, <3>1, <3>2, <3>3, RunsEdge DEF Bit
  <2>4. CASE step_sim
    <3>1. top(rst, ps2_clk', ps2_dat') /\ Record
      BY <2>4 DEF step_sim
    <3>2. CASE rst = 1
      BY <2>1, <2>2, <3>1, <3>2 DEF Record
    <3>3. CASE rst = 0
      <4>1. Recorded(ps2_dat')
        BY <3>1, <3>3 DEF Record, Recorded
      <4> QED BY <2>1, <3>1, <3>3, <4>1, RunsEdge
    <3> QED BY <2>1, <3>2, <3>3 DEF Bit
  <2>5. CASE KeyEvent \/ ToggleRst \/ UNCHANGED vars
    <3>1. UNCHANGED <<topVars, recvd>>
      BY <2>5 DEF KeyEvent, ToggleRst, vars, history
    <3>2. UNCHANGED <<state, key_count, en_count, fifo, r_ptr, ready, recvd>>
      BY <3>1 DEF topVars, ps2Vars, fsmVars
    <3> QED BY <3>2 DEF RunsInv, RunDue, Runs, data
  <2> QED BY <2>3, <2>4, <2>5 DEF Next
<1> QED BY <1>1, <1>2, BoardInvariant, LampInvariant, PTL DEF Spec

(* Whatever is typed and however it is reset: the counter counts the codes *)
(* that are first or follow a break code, modulo CountMod.                 *)
THEOREM BoardCountsRuns == Spec => []CountsRuns
<1>1. BoardInv /\ RunsInv => CountsRuns
  <2> SUFFICES ASSUME BoardInv, RunsInv, Unread = 0
               PROVE  (key_count + en_count) % CountMod = Cardinality(Runs) % CountMod
    BY DEF CountsRuns
  <2>1. ready = 0
    BY DepthAssumption DEF Unread, BoardInv, Circuit, LineInv, Counting, OneWaits, Succ, Ptr, Bit
  <2>2. key_count + en_count + RunDue = key_count + en_count
    BY <2>1 DEF RunDue, BoardInv, Circuit, CircuitTypes, Bit
  <2> QED BY <2>2 DEF RunsInv
<1> QED BY <1>1, BoardInvariant, RunsInvariant, PTL

CountsOnlyCodes == key_count + en_count <= Cardinality(Presses)

(* No more presses are counted than codes came that can be one.            *)
THEOREM BoardCounts == Spec => []CountsOnlyCodes
<1>1. BoardInv => CountsOnlyCodes
  <2> SUFFICES ASSUME BoardInv PROVE key_count + en_count <= Cardinality(Presses)
    BY DEF CountsOnlyCodes
  <2>1. key_count \in Nat /\ en_count \in {0, 1} /\ Due \in {0, 1}
        /\ key_count + en_count + Due <= Cardinality(Presses)
    BY DEF BoardInv, Circuit, CircuitTypes, Pressed, Due, Bit
  <2>2. Cardinality(Presses) \in Nat
    <3>1. DOMAIN recvd = 1..Len(recvd) /\ Len(recvd) \in Nat
      BY LenProperties DEF BoardInv, Histories
    <3>2. IsFiniteSet(1..Len(recvd)) /\ Presses \in SUBSET (1..Len(recvd))
      BY <3>1, FS_Interval DEF Presses
    <3>3. IsFiniteSet(Presses)
      BY <3>2, FS_Subset
    <3> QED BY <3>3, FS_CardinalityType
  <2> QED BY <2>1, <2>2
<1> QED BY <1>1, BoardInvariant, PTL
=============================================================================
