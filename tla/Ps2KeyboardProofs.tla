------------------------- MODULE Ps2KeyboardProofs -------------------------
(***************************************************************************)
(* Theorems about the PS/2 receiver, for every number of data bits, every  *)
(* ring size, every line and every reader.                                 *)
(*                                                                         *)
(* The inductive invariant is Ps2TypeOK /\ ReadyMeansWaiting.  Types alone *)
(* do not say how many codes wait when the two pointers are equal; with    *)
(* ReadyMeansWaiting, Waiting is a faithful picture of the ring, and each  *)
(* clock edge is a step of the queue ScanFifo.                             *)
(***************************************************************************)
EXTENDS Ps2Keyboard, SequenceTheorems, TLAPS

(* The wrap-around of a ring pointer stays in the ring.                    *)
LEMMA SuccType == ASSUME NEW p \in Ptr PROVE Succ(p) \in Ptr
BY DepthAssumption DEF Ptr, Succ

(* Assembling the data bits of the frame buffer gives a scan code.         *)
LEMMA ReceivedType == Ps2TypeOK => ReceivedCode \in Code
BY CodeAssumption DEF Ps2TypeOK, ReceivedCode, Code, Bit

(* One edge, or none. *)
LEMMA Ps2TypeStep == Ps2TypeOK /\ [Ps2Next]_ps2Vars => Ps2TypeOK'
<1> SUFFICES ASSUME Ps2TypeOK, [Ps2Next]_ps2Vars PROVE Ps2TypeOK'
  OBVIOUS
<1>1. CASE UNCHANGED ps2Vars
  BY <1>1 DEF ps2Vars, Ps2TypeOK
<1>2. ASSUME NEW clrn \in Bit, NEW ps2_clk \in Bit, NEW ps2_data \in Bit,
             NEW nextdata_n \in Bit,
             ps2_keyboard(clrn, ps2_clk, ps2_data, nextdata_n)
      PROVE  Ps2TypeOK'
  <2>1. ps2_clk_sync' \in Bit \X Bit \X Bit
    BY <1>2 DEF ps2_keyboard, Ps2TypeOK
  <2>2. CASE clrn = 0
    BY <1>2, <2>1, <2>2, DepthAssumption, CodeAssumption
    DEF ps2_keyboard, ps2_keyboard_reset, Ps2TypeOK, Bit, Ptr, StopBit
  <2>3. CASE clrn = 1
    <3>1. buffer' \in [0..(DataBits + 1) -> Bit] /\ count' \in 0..StopBit
      BY <1>2, <2>3, CodeAssumption
      DEF ps2_keyboard, ps2_keyboard_frame, Ps2TypeOK, StopBit
    <3>2. fifo' \in [Ptr -> Code]
      BY <1>2, <2>3, ReceivedType DEF ps2_keyboard, ps2_keyboard_ring, Empties, Overflows, Ps2TypeOK
    <3>3. w_ptr' \in Ptr /\ r_ptr' \in Ptr
      BY <1>2, <2>3, SuccType DEF ps2_keyboard, ps2_keyboard_ring, Empties, Overflows, Ps2TypeOK
    <3>4. ready' \in Bit /\ overflow' \in Bit
      BY <1>2, <2>3 DEF ps2_keyboard, ps2_keyboard_ring, Empties, Overflows, Ps2TypeOK, Bit
    <3>5. QED
      BY <2>1, <3>1, <3>2, <3>3, <3>4 DEF Ps2TypeOK
  <2>4. QED
    BY <2>2, <2>3 DEF Bit
<1>3. QED
  BY <1>1, <1>2 DEF Ps2Next

(* Every register of ps2_keyboard.v stays within its width.                *)
THEOREM Ps2TypeCorrect == Ps2Spec => []Ps2TypeOK
<1>1. Ps2Init => Ps2TypeOK
  BY CodeAssumption, DepthAssumption
  DEF Ps2Init, Ps2TypeOK, Bit, StopBit, Ptr, Code, ZeroCode
<1>2. QED
  BY <1>1, Ps2TypeStep, PTL DEF Ps2Spec

-----------------------------------------------------------------------------
Ps2Inv == Ps2TypeOK /\ ReadyMeansWaiting

(* ready is exact until the overflow, whatever coincides on an edge: the   *)
(* last code taken as a new one arrives included.                          *)
THEOREM Ps2ReadyExact == Ps2Spec => []ReadyMeansWaiting
<1>1. Ps2Init => ReadyMeansWaiting
  BY DEF Ps2Init, ReadyMeansWaiting
<1>2. Ps2TypeOK /\ ReadyMeansWaiting /\ [Ps2Next]_ps2Vars => ReadyMeansWaiting'
  <2> SUFFICES ASSUME Ps2TypeOK, ReadyMeansWaiting, [Ps2Next]_ps2Vars
               PROVE  ReadyMeansWaiting'
    OBVIOUS
  <2>1. CASE UNCHANGED ps2Vars
    BY <2>1 DEF ps2Vars, ReadyMeansWaiting
  <2>2. ASSUME NEW clrn \in Bit, NEW ps2_clk \in Bit, NEW ps2_data \in Bit,
               NEW nextdata_n \in Bit,
               ps2_keyboard(clrn, ps2_clk, ps2_data, nextdata_n)
        PROVE  ReadyMeansWaiting'
    <3>1. CASE clrn = 0
      BY <2>2, <3>1 DEF ps2_keyboard, ps2_keyboard_reset, ReadyMeansWaiting
    <3>2. CASE clrn = 1
      BY <2>2, <3>2, DepthAssumption
      DEF ps2_keyboard, ps2_keyboard_ring, Empties, Overflows, Pops, ReadyMeansWaiting, Ps2TypeOK,
          Succ, Ptr, Bit
    <3>3. QED
      BY <3>1, <3>2 DEF Bit
  <2>3. QED
    BY <2>1, <2>2 DEF Ps2Next
<1>3. QED
  BY <1>1, <1>2, Ps2TypeCorrect, PTL DEF Ps2Spec

(* Where the waiting codes lie: their slots are slots of the ring, none of *)
(* them is the slot written next, and that one is the slot after the last. *)
LEMMA WaitingSlots ==
    ASSUME Ps2Inv, overflow = 0
    PROVE  /\ Unread \in 0..(Depth - 1)
           /\ ready = 1 <=> Unread > 0
           /\ \A i \in 1..Unread : Slot(i) \in Ptr /\ Slot(i) # w_ptr
           /\ Slot(Unread + 1) = w_ptr
           /\ r_ptr = Succ(w_ptr) <=> Unread = Depth - 1
BY DepthAssumption
DEF Ps2Inv, Ps2TypeOK, ReadyMeansWaiting, Unread, Slot, Ptr, Succ, Bit

(* The codes waiting form a sequence, one per unread slot.                 *)
WaitingSeq == /\ Unread \in Nat
              /\ Waiting \in Seq(Code)
              /\ Len(Waiting) = Unread
              /\ \A i \in 1..Unread : Waiting[i] = fifo[Slot(i)]

LEMMA WaitingIsSeq == Ps2Inv /\ overflow = 0 => WaitingSeq
<1> SUFFICES ASSUME Ps2Inv, overflow = 0 PROVE WaitingSeq
  OBVIOUS
<1>1. Unread \in Nat /\ \A i \in 1..Unread : fifo[Slot(i)] \in Code
  BY WaitingSlots, DepthAssumption DEF Ps2Inv, Ps2TypeOK
<1>2. QED
  BY <1>1 DEF Waiting, WaitingSeq

(* No edge overwrites an unread code before overflow has been raised.      *)
THEOREM Ps2FlagBeforeLoss == Ps2Spec => FlagBeforeLoss
<1>1. Ps2Inv /\ [Ps2Next]_ps2Vars
        => [overflow = 0 => \A i \in 1..Unread : fifo'[Slot(i)] = fifo[Slot(i)]]_ps2Vars
  <2> SUFFICES ASSUME Ps2Inv, Ps2Next, overflow = 0, NEW i \in 1..Unread
               PROVE  fifo'[Slot(i)] = fifo[Slot(i)]
    OBVIOUS
  <2>1. Slot(i) \in Ptr /\ Slot(i) # w_ptr
    BY WaitingSlots
  <2>2. PICK clrn \in Bit, ps2_clk \in Bit, ps2_data \in Bit, nextdata_n \in Bit :
               ps2_keyboard(clrn, ps2_clk, ps2_data, nextdata_n)
    BY DEF Ps2Next
  <2>3. fifo' = fifo \/ fifo' = [fifo EXCEPT ![w_ptr] = ReceivedCode]
    BY <2>2 DEF ps2_keyboard, ps2_keyboard_reset, ps2_keyboard_ring, Empties, Overflows
  <2>4. QED
    BY <2>1, <2>3 DEF Ps2Inv, Ps2TypeOK
<1>2. QED
  BY <1>1, Ps2TypeCorrect, Ps2ReadyExact, PTL DEF Ps2Spec, Ps2Inv, FlagBeforeLoss

-----------------------------------------------------------------------------
(* What an edge without reset does to the waiting codes, by what coincides *)
(* on it.  These four facts are the refinement.                            *)
LEMMA EdgeKeeps ==
    ASSUME Ps2Inv, Ps2Inv', overflow = 0, ps2_keyboard_ring(FALSE, FALSE)
    PROVE  overflow' = 0 /\ Waiting' = Waiting
<1>1. overflow' = 0 /\ Unread' = Unread /\ fifo' = fifo /\ r_ptr' = r_ptr
  BY DEF ps2_keyboard_ring, Empties, Overflows, Unread
<1>2. QED
  BY <1>1 DEF Waiting, Slot

LEMMA EdgeTakes ==
    ASSUME Ps2Inv, Ps2Inv', overflow = 0, ready = 1, ps2_keyboard_ring(FALSE, TRUE)
    PROVE  overflow' = 0 /\ Waiting # <<>> /\ Waiting' = Tail(Waiting)
<1>1. overflow' = 0 /\ fifo' = fifo
  BY DEF ps2_keyboard_ring, Empties, Overflows
<1>2. Unread > 0 /\ Unread' = Unread - 1 /\ \A i \in 1..Unread' : Slot(i)' = Slot(i + 1)
  BY DepthAssumption
  DEF ps2_keyboard_ring, Empties, Overflows, Ps2Inv, Ps2TypeOK, ReadyMeansWaiting, Unread, Slot, Succ, Ptr, Bit
<1>3. WaitingSeq
  BY WaitingIsSeq
<1>4. WaitingSeq'
  <2>1. (Ps2Inv /\ overflow = 0)'
    BY <1>1
  <2>2. QED
    BY <2>1, WaitingIsSeq, PTL
<1>5. Waiting # <<>>
  BY <1>2, <1>3, EmptySeq DEF WaitingSeq
<1>6. /\ Tail(Waiting) \in Seq(Code) /\ Len(Tail(Waiting)) = Unread - 1
      /\ \A i \in 1..(Unread - 1) : Tail(Waiting)[i] = Waiting[i + 1]
  BY <1>3, <1>5, HeadTailProperties DEF WaitingSeq
<1>7. \A i \in 1..(Unread - 1) : Waiting'[i] = Tail(Waiting)[i]
  BY <1>1, <1>2, <1>3, <1>4, <1>6 DEF WaitingSeq
<1>8. QED
  BY <1>1, <1>2, <1>4, <1>5, <1>6, <1>7, SeqEqual DEF WaitingSeq

(* An arriving code lands in the first free slot and changes no other.     *)
LEMMA EdgeArrives ==
    ASSUME Ps2Inv, Ps2Inv', overflow = 0, r_ptr # Succ(w_ptr),
           ps2_keyboard_ring(TRUE, FALSE)
    PROVE  /\ overflow' = 0
           /\ Len(Waiting) < Depth - 1
           /\ Waiting' = Append(Waiting, ReceivedCode)
<1>1. /\ overflow' = 0 /\ r_ptr' = r_ptr /\ ready' = 1 /\ w_ptr' = Succ(w_ptr)
      /\ fifo' = [fifo EXCEPT ![w_ptr] = ReceivedCode]
  BY DEF ps2_keyboard_ring, Empties, Overflows
<1>2. /\ Unread' = Unread + 1
      /\ \A i \in 1..Unread' : Slot(i)' = Slot(i)
  BY <1>1, DepthAssumption
  DEF Ps2Inv, Ps2TypeOK, ReadyMeansWaiting, Unread, Slot, Succ, Ptr, Bit
<1>3. WaitingSeq
  BY WaitingIsSeq
<1>4. WaitingSeq'
  <2>1. (Ps2Inv /\ overflow = 0)'
    BY <1>1
  <2>2. QED
    BY <2>1, WaitingIsSeq, PTL
<1>5. ReceivedCode \in Code
  BY ReceivedType DEF Ps2Inv
<1>6. /\ Append(Waiting, ReceivedCode) \in Seq(Code)
      /\ Len(Append(Waiting, ReceivedCode)) = Unread + 1
      /\ \A i \in 1..Unread : Append(Waiting, ReceivedCode)[i] = Waiting[i]
      /\ Append(Waiting, ReceivedCode)[Unread + 1] = ReceivedCode
  BY <1>3, <1>5, AppendProperties DEF WaitingSeq
<1>7. /\ \A i \in 1..Unread : Slot(i) \in Ptr /\ Slot(i) # w_ptr
      /\ Slot(Unread + 1) = w_ptr /\ w_ptr \in Ptr /\ Unread < Depth - 1
  BY WaitingSlots, DepthAssumption DEF Ps2Inv, Ps2TypeOK
<1>8. \A i \in 1..Unread : Waiting'[i] = Append(Waiting, ReceivedCode)[i]
  BY <1>1, <1>2, <1>3, <1>4, <1>6, <1>7 DEF Ps2Inv, Ps2TypeOK, WaitingSeq
<1>9. Waiting'[Unread + 1] = ReceivedCode
  BY <1>1, <1>2, <1>3, <1>4, <1>7 DEF Ps2Inv, Ps2TypeOK, WaitingSeq
<1>10. QED
  BY <1>1, <1>2, <1>3, <1>4, <1>6, <1>7, <1>8, <1>9, SeqEqual DEF WaitingSeq

(* Both on one edge: the oldest code goes, the new one comes last.         *)
LEMMA EdgeTakesAndArrives ==
    ASSUME Ps2Inv, Ps2Inv', overflow = 0, ready = 1, r_ptr # Succ(w_ptr),
           ps2_keyboard_ring(TRUE, TRUE)
    PROVE  /\ overflow' = 0
           /\ Len(Waiting) < Depth - 1
           /\ Waiting # <<>>
           /\ Waiting' = Append(Tail(Waiting), ReceivedCode)
<1> DEFINE new == Append(Tail(Waiting), ReceivedCode)
<1>1. /\ overflow' = 0 /\ r_ptr' = Succ(r_ptr) /\ ready' = 1 /\ w_ptr' = Succ(w_ptr)
      /\ fifo' = [fifo EXCEPT ![w_ptr] = ReceivedCode]
  BY DEF ps2_keyboard_ring, Empties, Overflows
<1>2. /\ Unread > 0 /\ Unread' = Unread
      /\ \A i \in 1..Unread' : Slot(i)' = Slot(i + 1)
  BY <1>1, DepthAssumption
  DEF Ps2Inv, Ps2TypeOK, ReadyMeansWaiting, Unread, Slot, Succ, Ptr, Bit
<1>3. WaitingSeq
  BY WaitingIsSeq
<1>4. WaitingSeq'
  <2>1. (Ps2Inv /\ overflow = 0)'
    BY <1>1
  <2>2. QED
    BY <2>1, WaitingIsSeq, PTL
<1>5. ReceivedCode \in Code
  BY ReceivedType DEF Ps2Inv
<1>6. Waiting # <<>>
  BY <1>2, <1>3, EmptySeq DEF WaitingSeq
<1>7. /\ Tail(Waiting) \in Seq(Code) /\ Len(Tail(Waiting)) = Unread - 1
      /\ \A i \in 1..(Unread - 1) : Tail(Waiting)[i] = Waiting[i + 1]
  BY <1>3, <1>6, HeadTailProperties DEF WaitingSeq
<1>8. /\ new \in Seq(Code) /\ Len(new) = Unread /\ new[Unread] = ReceivedCode
      /\ \A i \in 1..(Unread - 1) : new[i] = Tail(Waiting)[i]
  BY <1>2, <1>3, <1>5, <1>7, AppendProperties DEF WaitingSeq
<1>9. /\ \A i \in 1..Unread : Slot(i) \in Ptr /\ Slot(i) # w_ptr
      /\ Slot(Unread + 1) = w_ptr /\ w_ptr \in Ptr /\ Unread < Depth - 1
  BY WaitingSlots, DepthAssumption DEF Ps2Inv, Ps2TypeOK
<1>10. \A i \in 1..(Unread - 1) : Waiting'[i] = new[i]
  BY <1>1, <1>2, <1>3, <1>4, <1>7, <1>8, <1>9 DEF Ps2Inv, Ps2TypeOK, WaitingSeq
<1>11. Waiting'[Unread] = ReceivedCode
  BY <1>1, <1>2, <1>3, <1>4, <1>9 DEF Ps2Inv, Ps2TypeOK, WaitingSeq
<1>12. \A i \in 1..Unread : Waiting'[i] = new[i]
  BY <1>2, <1>3, <1>8, <1>10, <1>11 DEF WaitingSeq
<1>13. Waiting' = new
  BY <1>2, <1>4, <1>8, <1>12, SeqEqual DEF WaitingSeq
<1>14. QED
  BY <1>1, <1>3, <1>6, <1>9, <1>13 DEF WaitingSeq

-----------------------------------------------------------------------------
(* A code too many: the flag goes up exactly when the queue was full.      *)
LEMMA EdgeOverflows ==
    ASSUME Ps2Inv, overflow = 0, r_ptr = Succ(w_ptr),
           NEW pop \in BOOLEAN, ps2_keyboard_ring(TRUE, pop)
    PROVE  overflow' = 1 /\ Len(Waiting) = Depth - 1
BY WaitingSlots, WaitingIsSeq DEF ps2_keyboard_ring, Empties, Overflows, WaitingSeq

(* After a reset nothing waits.                                            *)
LEMMA ResetEmpties == ready = 0 => Waiting = <<>>
<1> SUFFICES ASSUME ready = 0 PROVE Waiting = <<>>
  OBVIOUS
<1>1. Waiting = [i \in 1..0 |-> fifo[Slot(i)]]
  BY DEF Waiting, Unread
<1>2. QED
  BY <1>1

(* The receiver implements the queue: in order, without loss or            *)
(* duplication until the overflow it announces.                            *)
THEOREM Ps2ImplementsScanFifo == Ps2Spec => ImplementsScanFifo
<1>1. Ps2Init => Abs!AbsInit
  BY ResetEmpties DEF Ps2Init, Abs!AbsInit
<1>2. Ps2Inv /\ Ps2Inv' /\ [Ps2Next]_ps2Vars => [Abs!AbsNext]_(Abs!absVars)
  <2> SUFFICES ASSUME Ps2Inv, Ps2Inv', [Ps2Next]_ps2Vars
               PROVE  Abs!AbsNext \/ UNCHANGED Abs!absVars
    OBVIOUS
  <2>1. CASE UNCHANGED ps2Vars
    BY <2>1 DEF ps2Vars, Abs!absVars, Waiting, Unread, Slot
  <2>2. ASSUME NEW clrn \in Bit, NEW ps2_clk \in Bit, NEW ps2_data \in Bit,
               NEW nextdata_n \in Bit,
               ps2_keyboard(clrn, ps2_clk, ps2_data, nextdata_n)
        PROVE  Abs!AbsNext \/ UNCHANGED Abs!absVars
    <3>1. CASE clrn = 0
      <4>1. overflow' = 0 /\ ready' = 0
        BY <2>2, <3>1 DEF ps2_keyboard, ps2_keyboard_reset
      <4>2. (ready = 0 => Waiting = <<>>)'
        BY ResetEmpties, PTL
      <4>3. Abs!Clear
        BY <4>1, <4>2 DEF Abs!Clear
      <4>4. QED
        BY <4>3 DEF Abs!AbsNext
    <3>2. CASE clrn = 1 /\ overflow = 1
      BY <2>2, <3>2 DEF ps2_keyboard, ps2_keyboard_ring, Empties, Overflows, Abs!absVars
    <3>3. CASE clrn = 1 /\ overflow = 0
      <4> DEFINE push == Pushes(ps2_data)
                 pop  == Pops(nextdata_n)
      <4>1. ps2_keyboard_ring(push, pop)
        BY <2>2, <3>3 DEF ps2_keyboard
      <4>2. ReceivedCode \in Code
        BY ReceivedType DEF Ps2Inv
      <4>3. pop => ready = 1
        BY DEF Pops
      <4> HIDE DEF push, pop
      <4>4. CASE ~push /\ ~pop
        <5>1. ps2_keyboard_ring(FALSE, FALSE)
          BY <4>1, <4>4 DEF ps2_keyboard_ring, Empties, Overflows
        <5>2. QED
          BY <3>3, <5>1, EdgeKeeps DEF Abs!absVars
      <4>5. CASE ~push /\ pop
        <5>1. ps2_keyboard_ring(FALSE, TRUE)
          BY <4>1, <4>5 DEF ps2_keyboard_ring, Empties, Overflows
        <5>2. Abs!Take
          BY <3>3, <4>3, <4>5, <5>1, EdgeTakes DEF Abs!Take
        <5>3. QED
          BY <5>2 DEF Abs!AbsNext
      <4>6. CASE push /\ ~pop /\ r_ptr # Succ(w_ptr)
        <5>1. ps2_keyboard_ring(TRUE, FALSE)
          BY <4>1, <4>6 DEF ps2_keyboard_ring, Empties, Overflows
        <5>2. Abs!Arrive(ReceivedCode)
          BY <3>3, <4>6, <5>1, EdgeArrives DEF Abs!Arrive, Abs!Room
        <5>3. QED
          BY <4>2, <5>2 DEF Abs!AbsNext
      <4>7. CASE push /\ pop /\ r_ptr # Succ(w_ptr)
        <5>1. ps2_keyboard_ring(TRUE, TRUE)
          BY <4>1, <4>7 DEF ps2_keyboard_ring, Empties, Overflows
        <5>2. Abs!TakeAndArrive(ReceivedCode)
          BY <3>3, <4>3, <4>7, <5>1, EdgeTakesAndArrives
          DEF Abs!TakeAndArrive, Abs!Room
        <5>3. QED
          BY <4>2, <5>2 DEF Abs!AbsNext
      <4>8. CASE push /\ r_ptr = Succ(w_ptr)
        <5>1. PICK b \in BOOLEAN : ps2_keyboard_ring(TRUE, b)
          BY <4>1, <4>8 DEF ps2_keyboard_ring, Empties, Overflows
        <5>2. overflow = 0 /\ r_ptr = Succ(w_ptr)
          BY <3>3, <4>8
        <5>3. overflow' = 1 /\ Len(Waiting) = Depth - 1
          BY <5>1, <5>2, EdgeOverflows
        <5>4. Abs!Overrun
          BY <5>2, <5>3 DEF Abs!Overrun
        <5>5. QED
          BY <5>4 DEF Abs!AbsNext
      <4>9. QED
        BY <4>4, <4>5, <4>6, <4>7, <4>8
    <3>4. QED
      BY <3>1, <3>2, <3>3 DEF Ps2Inv, Ps2TypeOK, Bit
  <2>3. QED
    BY <2>1, <2>2 DEF Ps2Next
<1>3. QED
  BY <1>1, <1>2, Ps2TypeCorrect, Ps2ReadyExact, PTL
  DEF Ps2Spec, Ps2Inv, ImplementsScanFifo, Abs!AbsSpec
=============================================================================
