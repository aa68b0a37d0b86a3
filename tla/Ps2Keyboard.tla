---------------------------- MODULE Ps2Keyboard ----------------------------
(***************************************************************************)
(* npc/E5-2/7-keyboard/vsrc/ps2_keyboard.v: the receiver of a PS/2         *)
(* keyboard.  It finds the falling edges of ps2_clk, shifts eleven bits    *)
(* (start, data, odd parity, stop) into a frame and writes the scan code   *)
(* of a well-formed frame into a ring of Depth slots, from which the       *)
(* reader takes one code on each clock edge with nextdata_n low.           *)
(*                                                                         *)
(* One step is one rising edge of clk.  Every register is assigned with    *)
(* <=, so the right-hand sides read the values before the edge; where two  *)
(* assignments to ready meet on one edge, the later one in the text wins.  *)
(*                                                                         *)
(* The code is the instance DataBits = 8, Depth = 8.                       *)
(***************************************************************************)
EXTENDS ScanCode

CONSTANT Depth  \* slots of the ring

ASSUME DepthAssumption == Depth \in Nat \ {0, 1}

VARIABLES ps2_clk_sync,  \* last three samples of ps2_clk, newest first
          buffer,        \* the bits of the frame before its stop bit
          count,         \* bits of the frame received
          fifo, w_ptr, r_ptr, ready, overflow

ps2Vars == <<ps2_clk_sync, buffer, count, fifo, w_ptr, r_ptr, ready, overflow>>

StopBit == DataBits + 2              \* place of the stop bit in a frame
Ptr     == 0..(Depth - 1)
Succ(p) == IF p = Depth - 1 THEN 0 ELSE p + 1

data == fifo[r_ptr]

\* A falling edge of ps2_clk, seen through the synchroniser.
sampling == ps2_clk_sync[3] = 1 /\ ps2_clk_sync[2] = 0

OddParity == Cardinality({i \in 1..(DataBits + 1) : buffer[i] = 1}) % 2 = 1

GoodFrame(ps2_data) == buffer[0] = 0 /\ ps2_data = 1 /\ OddParity

ReceivedCode_shifted == [i \in 1..DataBits |-> buffer[i - 1]]
ReceivedCode         == [i \in 1..DataBits |-> buffer[i]]

\* This edge writes a code into the ring / takes one out of it.
Pushes(ps2_data)  == sampling /\ count = StopBit /\ GoodFrame(ps2_data)
Pops_unready(nextdata_n) == nextdata_n = 0
Pops(nextdata_n)  == ready = 1 /\ nextdata_n = 0

ps2_keyboard_reset ==
    /\ count' = 0 /\ w_ptr' = 0 /\ r_ptr' = 0 /\ overflow' = 0 /\ ready' = 0
    /\ UNCHANGED <<buffer, fifo>>

\* The count is not returned to zero.
ps2_keyboard_frame_endless(ps2_data) ==
    /\ count' = IF sampling THEN count + 1 ELSE count
    /\ buffer' = IF sampling /\ count # StopBit
                 THEN [buffer EXCEPT ![count] = ps2_data] ELSE buffer

ps2_keyboard_frame(ps2_data) ==
    IF sampling /\ count # StopBit
    THEN /\ buffer' = [buffer EXCEPT ![count] = ps2_data]
         /\ count' = count + 1
    ELSE /\ buffer' = buffer
         /\ count' = IF sampling THEN 0 ELSE count

\* A push and a pop on one edge: the assignment that comes later in the text
\* wins, so ready stays up.
Empties_late(push, pop)   == ~push /\ pop /\ w_ptr = r_ptr
Empties_anyway(push, pop) == pop /\ w_ptr = Succ(r_ptr)
Empties(push, pop)        == ~push /\ pop /\ w_ptr = Succ(r_ptr)

Overflows_late(push) == push /\ ready = 1 /\ r_ptr = w_ptr
Overflows(push)      == push /\ r_ptr = Succ(w_ptr)

ps2_keyboard_ring(push, pop) ==
    /\ r_ptr' = IF pop THEN Succ(r_ptr) ELSE r_ptr
    /\ w_ptr' = IF push THEN Succ(w_ptr) ELSE w_ptr
    /\ fifo'  = IF push THEN [fifo EXCEPT ![w_ptr] = ReceivedCode] ELSE fifo
    /\ ready' = IF Empties(push, pop) THEN 0 ELSE IF push THEN 1 ELSE ready
    /\ overflow' = IF Overflows(push) THEN 1 ELSE overflow

\* posedge clk with the given inputs.
ps2_keyboard(clrn, ps2_clk, ps2_data, nextdata_n) ==
    /\ ps2_clk_sync' = <<ps2_clk, ps2_clk_sync[1], ps2_clk_sync[2]>>
    /\ \/ clrn = 0 /\ ps2_keyboard_reset
       \/ /\ clrn = 1
          /\ ps2_keyboard_frame(ps2_data)
          /\ ps2_keyboard_ring(Pushes(ps2_data), Pops(nextdata_n))

-----------------------------------------------------------------------------
(* Registers start at zero (the Makefile builds with --x-initial fast). *)
Ps2Init == /\ ps2_clk_sync = <<0, 0, 0>>
           /\ buffer = [i \in 0..(DataBits + 1) |-> 0]
           /\ count = 0
           /\ fifo = [p \in Ptr |-> ZeroCode]
           /\ w_ptr = 0 /\ r_ptr = 0 /\ ready = 0 /\ overflow = 0

(* Any line, any reader: the receiver must cope with every input.          *)
Ps2Next == \E clrn, ps2_clk, ps2_data, nextdata_n \in Bit :
               ps2_keyboard(clrn, ps2_clk, ps2_data, nextdata_n)

Ps2Spec == Ps2Init /\ [][Ps2Next]_ps2Vars

-----------------------------------------------------------------------------
(* Every register stays within its width; the frame counter never passes  *)
(* the stop bit, so buffer[count] is never written out of range.           *)
Ps2TypeOK == /\ ps2_clk_sync \in Bit \X Bit \X Bit
             /\ buffer \in [0..(DataBits + 1) -> Bit]
             /\ count \in 0..StopBit
             /\ fifo \in [Ptr -> Code]
             /\ w_ptr \in Ptr /\ r_ptr \in Ptr
             /\ ready \in Bit /\ overflow \in Bit

(* As long as the ring has not overflowed, ready says exactly whether a    *)
(* code is waiting: the pointers meet only when the ring is empty.         *)
ReadyMeansWaiting == overflow = 0 => (ready = 0 <=> w_ptr = r_ptr)

(* Codes waiting in the ring, in the order in which they will be read.     *)
Unread == IF ready = 0 THEN 0
          ELSE IF w_ptr > r_ptr THEN w_ptr - r_ptr ELSE w_ptr + Depth - r_ptr
Slot(i) == IF r_ptr + i - 1 < Depth THEN r_ptr + i - 1 ELSE r_ptr + i - 1 - Depth
Waiting == [i \in 1..Unread |-> fifo[Slot(i)]]

(* No edge overwrites an unread code while the flag is still down, the     *)
(* edge that raises it included: overflow comes before the first loss.     *)
FlagBeforeLoss ==
    [][overflow = 0 => \A i \in 1..Unread : fifo'[Slot(i)] = fifo[Slot(i)]]_ps2Vars

(* The receiver implements the queue of ScanFifo, which holds one code     *)
(* fewer than the ring has slots.                                          *)
Abs == INSTANCE ScanFifo
           WITH Capacity <- Depth - 1,
                queue    <- IF overflow = 1 THEN <<>> ELSE Waiting,
                overrun  <- overflow
ImplementsScanFifo == Abs!AbsSpec
=============================================================================
