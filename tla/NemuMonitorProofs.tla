------------------------- MODULE NemuMonitorProofs -------------------------
(***************************************************************************)
(* Proofs about NemuMonitor, for every size of the key ring, every set of  *)
(* keys, every verdict of the register comparison and every bound.         *)
(***************************************************************************)
EXTENDS NemuMonitor, SequenceTheorems, TLAPS

Running == where \in {"exec", "update", "poll"}

(* What keeps an instruction from running after the one that follows the   *)
(* close: once it has run, the state is one that cpu_exec refuses.         *)
LateInv == late = 0 \/ (late = 1 /\ state \in Ended /\ ~Running)

(* Where the states that main takes for success come from.                 *)
CauseInv == /\ state = "END" => (halt_ret = 0 => cause = "good")
            /\ state = "QUIT" => cause \in {"closed", "q"}
            /\ cause = "q" => where = "exited" /\ ~is_batch_mode

MonitorInv == MonitorTypeOK /\ LateInv /\ CauseInv

-----------------------------------------------------------------------------
(* The ring keeps its type, whichever end moves.                           *)
LEMMA KeyNextType == ASSUME NEW i \in KeySlot PROVE KeyNext(i) \in KeySlot
BY KeyQueueAssumption DEF KeySlot, KeyNext

LEMMA EnqueueType ==
    ASSUME KeyQueueTypeOK, NEW k \in AmKey, key_enqueue(k)
    PROVE  KeyQueueTypeOK'
BY KeyNextType DEF KeyQueueTypeOK, key_enqueue

LEMMA DequeueType ==
    ASSUME KeyQueueTypeOK, i8042_data_io_handler
    PROVE  KeyQueueTypeOK' /\ FrontKey \in AmKey \cup {NoKey}
BY KeyNextType DEF KeyQueueTypeOK, i8042_data_io_handler, FrontKey

LEMMA KeptType == ASSUME KeyQueueTypeOK, UNCHANGED keyVars PROVE KeyQueueTypeOK'
BY DEF KeyQueueTypeOK, keyVars

(* The end of a loop turn keeps the invariant, from where it is reached.   *)
LEMMA NextTurn ==
    ASSUME MonitorInv, where \in {"update", "poll"}, next_turn
    PROVE  MonitorInv'
<1>1. KeyQueueTypeOK'
  BY KeptType DEF MonitorInv, MonitorTypeOK, next_turn
<1>2. /\ left' \in Nat \cup {Forever}
      /\ where' \in {"exec", "prompt", "exited"}
      /\ where' = "exec" => left' # 0 /\ state' \in {"RUNNING", "QUIT"}
      /\ where' # "exec" => state' \in {"STOP", "QUIT"}
  BY DEF MonitorInv, MonitorTypeOK, next_turn, Returns, Forever, Becomes
<1>3. MonitorTypeOK'
  BY <1>1, <1>2 DEF MonitorInv, MonitorTypeOK, next_turn, Location, State
<1>4. LateInv'
  BY DEF MonitorInv, LateInv, Running, next_turn
<1>5. CauseInv'
  BY DEF MonitorInv, MonitorTypeOK, CauseInv, next_turn, Becomes
<1>6. QED
  BY <1>3, <1>4, <1>5 DEF MonitorInv

(* So does the entry of cpu_exec, whatever the command's other effects.    *)
LEMMA CpuExec ==
    ASSUME MonitorInv, where = "prompt", NEW m \in Nat \cup {Forever}, m # 0, cpu_exec(m),
           is_batch_mode' = is_batch_mode, is_skip_ref' = is_skip_ref,
           events' \in Seq(AmKey \cup {NoKey, Closed}), arrived' = arrived,
           sent' = sent, got' = got, UNCHANGED keyVars
    PROVE  MonitorInv'
<1>1. KeyQueueTypeOK'
  BY KeptType DEF MonitorInv, MonitorTypeOK
<1>2. MonitorTypeOK'
  BY <1>1 DEF MonitorInv, MonitorTypeOK, cpu_exec, Returns, Becomes, Location, State
<1>3. LateInv' /\ CauseInv'
  BY DEF MonitorInv, MonitorTypeOK, LateInv, CauseInv, Running, cpu_exec, Returns, Becomes, Ended
<1>4. QED
  BY <1>2, <1>3 DEF MonitorInv

(* What an instruction that does not panic leaves in nemu_state.           *)
LEMMA Instruction ==
    ASSUME MonitorInv, where = "exec", NEW kind \in Kind, difftest_step(kind)
    PROVE  /\ state' \in {state, "END", "ABORT"}
           /\ state' = state => cause' = cause
           /\ state' # state => cause' \in {"good", "bad", "invalid", "difftest"}
           /\ state' = "END" => (halt_ret' = 0 => cause' = "good")
           /\ halt_ret' \in {-1, 0, 1}
           /\ is_skip_ref' = FALSE
<1>1. \/ exec_once(kind)
      \/ \E same \in Verdict : checkregs(same)
  BY DEF difftest_step
<1>2. is_skip_ref' = FALSE /\ state \in {"RUNNING", "QUIT"} /\ halt_ret \in {-1, 0, 1}
  BY DEF difftest_step, skip_done, MonitorInv, MonitorTypeOK
<1>3. CASE exec_once(kind)
  BY <1>2, <1>3 DEF exec_once, Becomes, Kind
<1>4. CASE \E same \in Verdict : checkregs(same)
  BY <1>2, <1>4 DEF checkregs, Becomes
<1>5. QED
  BY <1>1, <1>3, <1>4

LEMMA Executes ==
    ASSUME MonitorInv, NEW kind \in Kind, execute(kind)
    PROVE  MonitorInv'
<1>1. where = "exec" /\ late = 0 /\ state \in {"RUNNING", "QUIT"} /\ left # 0
  BY DEF execute, MonitorInv, MonitorTypeOK, LateInv, Running
<1>2. CASE kind = "hole"
  <2>1. KeyQueueTypeOK'
    BY <1>2, KeptType DEF execute, panic, MonitorInv, MonitorTypeOK
  <2>2. QED
    BY <1>1, <1>2, <2>1
    DEF execute, panic, MonitorInv, MonitorTypeOK, LateInv, CauseInv, Running, Location
<1>3. CASE kind # "hole"
  <2>1. /\ difftest_step(kind)
        /\ IF Breaks THEN Returns ELSE where' = "update"
        /\ late' = IF state = "QUIT" THEN late + 1 ELSE late
        /\ UNCHANGED <<left, is_batch_mode, events, arrived, sent>>
    BY <1>3 DEF execute
  <2>2. KeyQueueTypeOK' /\ got' \in Seq(AmKey)
    <3>1. CASE kind = "keyboard"
      <4>1. i8042_data_io_handler
            /\ got' = IF FrontKey = NoKey THEN got ELSE Append(got, FrontKey)
        BY <1>3, <3>1 DEF execute
      <4>2. KeyQueueTypeOK /\ got \in Seq(AmKey)
        BY DEF MonitorInv, MonitorTypeOK
      <4>3. KeyQueueTypeOK' /\ FrontKey \in AmKey \cup {NoKey}
        BY <4>1, <4>2, DequeueType
      <4>4. QED
        BY <4>1, <4>2, <4>3
    <3>2. CASE kind # "keyboard"
      BY <1>3, <3>2, KeptType DEF execute, MonitorInv, MonitorTypeOK
    <3>3. QED
      BY <3>1, <3>2
  <2>3. /\ state' \in {state, "END", "ABORT"}
        /\ state' = state => cause' = cause
        /\ state' # state => cause' \in {"good", "bad", "invalid", "difftest"}
        /\ state' = "END" => (halt_ret' = 0 => cause' = "good")
        /\ halt_ret' \in {-1, 0, 1}
        /\ is_skip_ref' = FALSE
    BY <1>1, <2>1, Instruction
  <2>4. \/ where' = "update" /\ state' = "RUNNING"
        \/ where' \in {"prompt", "exited"} /\ state' \in Ended
    BY <1>1, <2>1, <2>3 DEF Breaks, Returns, Ended
  <2>5. MonitorTypeOK'
    <3>1. late' \in Nat /\ state' \in State /\ where' \in Location
      BY <1>1, <2>1, <2>3, <2>4 DEF Location, State
    <3>2. where' = "update" => state' = "RUNNING" /\ left' # 0
      BY <1>1, <2>1, <2>4
    <3>3. where' \notin {"exec", "poll"}
      BY <2>4
    <3>4. QED
      BY <2>1, <2>2, <2>3, <3>1, <3>2, <3>3 DEF MonitorInv, MonitorTypeOK
  <2>6. LateInv'
    BY <1>1, <2>1, <2>3, <2>4 DEF LateInv, Running, Ended
  <2>7. CauseInv'
    BY <1>1, <2>1, <2>3, <2>4 DEF MonitorInv, CauseInv
  <2>8. QED
    BY <2>5, <2>6, <2>7 DEF MonitorInv
<1>4. QED
  BY <1>2, <1>3

LEMMA Polls ==
    ASSUME MonitorInv, SDL_PollEvent
    PROVE  MonitorInv'
<1> DEFINE e == Head(events)
<1>1. /\ where = "poll" /\ late = 0 /\ state \in {"RUNNING", "QUIT"} /\ left # 0
      /\ e \in AmKey \cup {NoKey, Closed}
      /\ events' \in Seq(AmKey \cup {NoKey, Closed})
      /\ late' = 0
  BY HeadTailProperties DEF SDL_PollEvent, MonitorInv, MonitorTypeOK, LateInv, Running
<1>2. /\ KeyQueueTypeOK' /\ sent' \in Seq(AmKey)
      /\ where' \in {"poll", "panicked"}
      /\ \/ state' = "QUIT" /\ cause' = "closed"
         \/ state' = state /\ cause' = cause
  <2>1. CASE e = Closed
    BY <2>1, <1>1, KeptType DEF SDL_PollEvent, Becomes, MonitorInv, MonitorTypeOK
  <2>2. CASE e # Closed
    <3>1. send_key(e) /\ UNCHANGED <<state, cause>> /\ where' \in {"poll", "panicked"}
      BY <2>2 DEF SDL_PollEvent
    <3>2. CASE state = "RUNNING" /\ e # NoKey
      <4>1. e \in AmKey /\ key_enqueue(e) /\ sent' = Append(sent, e)
        BY <1>1, <2>2, <3>1, <3>2 DEF send_key
      <4>2. KeyQueueTypeOK /\ sent \in Seq(AmKey)
        BY DEF MonitorInv, MonitorTypeOK
      <4>3. KeyQueueTypeOK'
        BY <4>1, <4>2, EnqueueType
      <4>4. QED
        BY <3>1, <4>1, <4>2, <4>3
    <3>3. CASE ~(state = "RUNNING" /\ e # NoKey)
      BY <3>1, <3>3, KeptType DEF send_key, MonitorInv, MonitorTypeOK
    <3>4. QED
      BY <3>1, <3>2, <3>3
  <2>3. QED
    BY <2>1, <2>2
<1>3. QED
  BY <1>1, <1>2
  DEF SDL_PollEvent, MonitorInv, MonitorTypeOK, LateInv, CauseInv, Running, Location, State

(* Commands that leave the loop alone.                                     *)
LEMMA Examines ==
    ASSUME MonitorInv, cmd_x
    PROVE  MonitorInv'
<1>1. /\ where = "prompt" /\ where' \in {"prompt", "panicked"}
      /\ UNCHANGED <<state, halt_ret, left, cause, late, arrived, is_batch_mode, sent, got>>
      /\ events' = <<>> /\ is_skip_ref' \in BOOLEAN
      /\ i8042_data_io_handler \/ UNCHANGED keyVars
  BY DEF cmd_x, sdl_clear_event_queue, MonitorInv, MonitorTypeOK
<1>2. KeyQueueTypeOK'
  BY <1>1, KeptType, DequeueType DEF MonitorInv, MonitorTypeOK
<1>3. QED
  BY <1>1, <1>2 DEF MonitorInv, MonitorTypeOK, LateInv, CauseInv, Running, Location

(* The invariant is inductive: one step per action.                        *)
LEMMA MonitorInvInductive == Spec => []MonitorInv
<1>1. Init => MonitorInv
  BY KeyQueueAssumption
  DEF Init, KeyQueueInit, MonitorInv, MonitorTypeOK, KeyQueueTypeOK, KeySlot, LateInv,
      CauseInv, Location, State
<1>2. MonitorInv /\ [Next]_vars => MonitorInv'
  <2> SUFFICES ASSUME MonitorInv, [Next]_vars PROVE MonitorInv'
    OBVIOUS
  <2>1. ASSUME NEW kind \in Kind, execute(kind) PROVE MonitorInv'
    BY <2>1, Executes
  <2>2. CASE too_early \/ poll_ends
    BY <2>2, NextTurn DEF too_early, poll_ends
  <2>3. CASE tick
    <3>1. KeyQueueTypeOK'
      BY <2>3, KeptType DEF tick, MonitorInv, MonitorTypeOK
    <3>2. QED
      BY <2>3, <3>1
      DEF tick, MonitorInv, MonitorTypeOK, LateInv, CauseInv, Running, Location
  <2>4. CASE SDL_PollEvent
    BY <2>4, Polls
  <2>5. CASE cmd_c
    <3>1. cpu_exec(Forever) /\ where = "prompt" /\ Forever # 0
      BY <2>5 DEF cmd_c, sdl_clear_event_queue, Forever
    <3>2. /\ events' = <<>> /\ UNCHANGED keyVars
          /\ UNCHANGED <<arrived, is_batch_mode, sent, got, is_skip_ref>>
      BY <2>5 DEF cmd_c, sdl_clear_event_queue
    <3>3. events' \in Seq(AmKey \cup {NoKey, Closed})
      BY <3>2
    <3>4. QED
      BY <3>1, <3>2, <3>3, CpuExec
  <2>6. CASE cmd_si
    <3>1. PICK m \in 1..MaxSi : cpu_exec(m)
      BY <2>6 DEF cmd_si
    <3>2. m \in Nat /\ m # 0
      BY MonitorAssumption
    <3>3. QED
      BY <2>6, <3>1, <3>2, CpuExec DEF cmd_si, sdl_clear_event_queue
  <2>7. CASE cmd_q
    <3>1. KeyQueueTypeOK'
      BY <2>7, KeptType DEF cmd_q, MonitorInv, MonitorTypeOK
    <3>2. QED
      BY <2>7, <3>1
      DEF cmd_q, sdl_clear_event_queue, Becomes, MonitorInv, MonitorTypeOK, LateInv,
          CauseInv, Running, Location, State, Ended
  <2>8. CASE cmd_x
    BY <2>8, Examines
  <2>9. CASE other_cmd
    <3>1. KeyQueueTypeOK'
      BY <2>9, KeptType DEF other_cmd, MonitorInv, MonitorTypeOK
    <3>2. QED
      BY <2>9, <3>1
      DEF other_cmd, sdl_clear_event_queue, loopVars, MonitorInv, MonitorTypeOK,
          LateInv, CauseInv, Running
  <2>10. CASE batch
    <3>1. cpu_exec(Forever) /\ where = "prompt" /\ Forever # 0
      BY <2>10 DEF batch, Forever
    <3>2. events' \in Seq(AmKey \cup {NoKey, Closed})
      BY <2>10 DEF batch, MonitorInv, MonitorTypeOK
    <3>3. QED
      BY <2>10, <3>1, <3>2, CpuExec DEF batch
  <2>11. CASE SDL_event
    <3>1. events' \in Seq(AmKey \cup {NoKey, Closed}) /\ arrived' \in Nat
      BY <2>11 DEF SDL_event, MonitorInv, MonitorTypeOK
    <3>2. KeyQueueTypeOK'
      BY <2>11, KeptType DEF SDL_event, MonitorInv, MonitorTypeOK
    <3>3. QED
      BY <2>11, <3>1, <3>2
      DEF SDL_event, loopVars, MonitorInv, MonitorTypeOK, LateInv, CauseInv, Running
  <2>12. CASE UNCHANGED vars
    <3>1. KeyQueueTypeOK'
      BY <2>12, KeptType DEF vars, MonitorInv, MonitorTypeOK
    <3>2. QED
      BY <2>12, <3>1
      DEF vars, loopVars, MonitorInv, MonitorTypeOK, LateInv, CauseInv, Running
  <2>13. CASE eof
    <3>1. KeyQueueTypeOK'
      BY <2>13, KeptType DEF eof, MonitorInv, MonitorTypeOK
    <3>2. QED
      BY <2>13, <3>1
      DEF eof, MonitorInv, MonitorTypeOK, LateInv, CauseInv, Running, Location
  <2>14. QED
    BY <2>1, <2>2, <2>3, <2>4, <2>5, <2>6, <2>7, <2>8, <2>9, <2>10, <2>11, <2>12, <2>13
    DEF Next, loop, command
<1>3. QED
  BY <1>1, <1>2, PTL DEF Spec

-----------------------------------------------------------------------------
(* The loop runs only with instructions left, in a state it may be in.     *)
THEOREM MonitorTypeCorrect == Spec => []MonitorTypeOK
BY MonitorInvInductive, PTL DEF MonitorInv

(* After the window is closed at most one more instruction runs.           *)
THEOREM MonitorQuits == Spec => []QuitRunsOneMore
<1>1. MonitorInv => QuitRunsOneMore
  BY DEF MonitorInv, LateInv, QuitRunsOneMore
<1>2. QED
  BY <1>1, MonitorInvInductive, PTL

(* A batch run that reports success hit the good trap or was closed.       *)
THEOREM MonitorBatchSuccess == Spec => []BatchSuccess
<1>1. MonitorInv => BatchSuccess
  BY DEF MonitorInv, CauseInv, BatchSuccess, is_exit_status_bad
<1>2. QED
  BY <1>1, MonitorInvInductive, PTL

(* A verdict stands: no command runs the program again or rewrites it.     *)
THEOREM MonitorVerdictStands == Spec => VerdictStands
<1>1. MonitorInv /\ [Next]_vars => [Judged => KeepsVerdict \/ Quits]_vars
  <2> SUFFICES ASSUME MonitorInv, Next, Judged PROVE KeepsVerdict \/ Quits
    OBVIOUS
  <2>1. where \notin {"exec", "update", "poll"} /\ state \in Ended
    BY DEF MonitorInv, MonitorTypeOK, Judged, Ended
  <2>2. CASE loop
    BY <2>1, <2>2 DEF loop, execute, too_early, tick, SDL_PollEvent, poll_ends
  <2>3. CASE command
    BY <2>1, <2>3
    DEF command, cmd_c, cmd_si, cmd_q, cmd_x, other_cmd, eof, batch, cpu_exec, loopVars,
        Becomes, KeepsVerdict, Quits
  <2>4. CASE SDL_event
    BY <2>4 DEF SDL_event, loopVars, KeepsVerdict
  <2>5. QED
    BY <2>2, <2>3, <2>4 DEF Next
<1>2. QED
  BY <1>1, MonitorInvInductive, PTL DEF Spec, VerdictStands

(* As long as x is not pointed at a device, difftest checks every          *)
(* instruction that did not itself ask to be skipped.                      *)
THEOREM MonitorSkipsOnlyItself ==
    ASSUME Examinable \cap {"keyboard", "device"} = {}
    PROVE  Spec => []SkipsOnlyItself
<1> DEFINE Clear == is_skip_ref = FALSE
<1>1. Init => Clear
  BY DEF Init
<1>2. Clear /\ [Next]_vars => Clear'
  <2> SUFFICES ASSUME Clear, [Next]_vars PROVE Clear'
    OBVIOUS
  <2>1. CASE loop
    BY <2>1
    DEF loop, execute, panic, difftest_step, skip_done, too_early, tick, next_turn,
        SDL_PollEvent, poll_ends
  <2>2. CASE command
    BY <2>2 DEF command, cmd_c, cmd_si, cmd_q, cmd_x, other_cmd, eof, batch
  <2>3. CASE SDL_event \/ UNCHANGED vars
    BY <2>3 DEF SDL_event, vars
  <2>4. QED
    BY <2>1, <2>2, <2>3 DEF Next
<1>3. Clear => SkipsOnlyItself
  BY DEF SkipsOnlyItself
<1>4. QED
  BY <1>1, <1>2, <1>3, PTL DEF Spec

-----------------------------------------------------------------------------
(* The waiting events form a sequence, one per slot between the two ends.  *)
PendingSlot(i) == IF key_f + i - 1 < KeyQueueLen
                  THEN key_f + i - 1 ELSE key_f + i - 1 - KeyQueueLen

PendingOK == /\ NrPending \in 0..(KeyQueueLen - 1)
             /\ PendingKey \in Seq(AmKey \cup {NoKey})
             /\ Len(PendingKey) = NrPending
             /\ \A i \in 1..NrPending : /\ PendingSlot(i) \in KeySlot \ {key_r}
                                       /\ PendingKey[i] = key_queue[PendingSlot(i)]

LEMMA PendingIsSeq == KeyQueueTypeOK => PendingOK
<1> SUFFICES ASSUME KeyQueueTypeOK PROVE PendingOK
  OBVIOUS
<1>1. /\ NrPending \in 0..(KeyQueueLen - 1)
      /\ \A i \in 1..NrPending : PendingSlot(i) \in KeySlot \ {key_r}
  BY KeyQueueAssumption DEF KeyQueueTypeOK, NrPending, PendingSlot, KeySlot
<1>2. \A i \in 1..NrPending : key_queue[PendingSlot(i)] \in AmKey \cup {NoKey}
  BY <1>1 DEF KeyQueueTypeOK
<1>3. PendingKey = [i \in 1..NrPending |-> key_queue[PendingSlot(i)]]
  BY DEF PendingKey, PendingSlot
<1>4. QED
  BY <1>1, <1>2, <1>3 DEF PendingOK

(* An event that fits comes last.                                          *)
LEMMA EnqueueAppends ==
    ASSUME KeyQueueTypeOK, KeyQueueTypeOK', ~KeyQueueFull,
           NEW k \in AmKey, key_enqueue(k)
    PROVE  PendingKey' = Append(PendingKey, k)
<1> DEFINE new == Append(PendingKey, k)
<1>1. PendingOK /\ PendingOK'
  BY PendingIsSeq, PTL
<1>2. /\ NrPending' = NrPending + 1
      /\ \A i \in 1..(NrPending + 1) : PendingSlot(i)' = PendingSlot(i)
      /\ PendingSlot(NrPending + 1) = key_r
  BY KeyQueueAssumption
  DEF KeyQueueTypeOK, KeyQueueFull, KeyNext, key_enqueue, NrPending, PendingSlot, KeySlot
<1>3. /\ new \in Seq(AmKey \cup {NoKey}) /\ Len(new) = NrPending + 1
      /\ \A i \in 1..NrPending : new[i] = PendingKey[i]
      /\ new[NrPending + 1] = k
  BY <1>1, AppendProperties DEF PendingOK
<1>4. \A i \in 1..NrPending : PendingKey'[i] = new[i]
  BY <1>1, <1>2, <1>3 DEF PendingOK, KeyQueueTypeOK, key_enqueue
<1>5. PendingKey'[NrPending + 1] = k
  BY <1>1, <1>2 DEF PendingOK, KeyQueueTypeOK, key_enqueue
<1>6. QED
  BY <1>1, <1>2, <1>3, <1>4, <1>5, SeqEqual DEF PendingOK

(* The event a read of the port takes was the first.                       *)
LEMMA DequeueTakes ==
    ASSUME KeyQueueTypeOK, KeyQueueTypeOK', key_f # key_r, i8042_data_io_handler
    PROVE  /\ PendingKey # <<>>
           /\ FrontKey = Head(PendingKey)
           /\ PendingKey' = Tail(PendingKey)
<1>1. PendingOK /\ PendingOK'
  BY PendingIsSeq, PTL
<1>2. /\ NrPending > 0 /\ NrPending' = NrPending - 1
      /\ \A i \in 1..(NrPending - 1) : PendingSlot(i)' = PendingSlot(i + 1)
      /\ PendingSlot(1) = key_f /\ FrontKey = key_queue[key_f] /\ key_queue' = key_queue
  BY KeyQueueAssumption
  DEF KeyQueueTypeOK, KeyNext, i8042_data_io_handler, NrPending, PendingSlot, KeySlot, FrontKey
<1>3. PendingKey # <<>> /\ Head(PendingKey) = PendingKey[1]
  BY <1>1, <1>2, EmptySeq DEF PendingOK
<1>4. /\ Tail(PendingKey) \in Seq(AmKey \cup {NoKey}) /\ Len(Tail(PendingKey)) = NrPending - 1
      /\ \A i \in 1..(NrPending - 1) : Tail(PendingKey)[i] = PendingKey[i + 1]
  BY <1>1, <1>3, HeadTailProperties DEF PendingOK
<1>5. \A i \in 1..(NrPending - 1) : PendingKey'[i] = Tail(PendingKey)[i]
  BY <1>1, <1>2, <1>4 DEF PendingOK
<1>6. PendingKey' = Tail(PendingKey)
  BY <1>1, <1>2, <1>4, <1>5, SeqEqual DEF PendingOK
<1>7. FrontKey = PendingKey[1]
  BY <1>1, <1>2 DEF PendingOK
<1>8. QED
  BY <1>3, <1>6, <1>7

(* Moving the first element of one sequence to the end of another leaves   *)
(* their concatenation as it was.                                          *)
LEMMA HeadMoves ==
    ASSUME NEW S, NEW s \in Seq(S), NEW t \in Seq(S), t # <<>>
    PROVE  s \o t = Append(s, Head(t)) \o Tail(t)
BY HeadTailProperties, AppendProperties, ConcatProperties

(* While the emulator lives, what was sent is what was read and then what  *)
(* waits.  A command that reads the port takes an event from the guest, so *)
(* x must not be pointed at the keyboard.                                  *)
THEOREM MonitorKeysInOrder ==
    ASSUME "keyboard" \notin Examinable
    PROVE  Spec => []KeysInOrder
<1> DEFINE Tracked == where # "panicked" => sent = got \o PendingKey
<1>1. Init => Tracked
  BY KeyQueueAssumption DEF Init, KeyQueueInit, PendingKey, NrPending, KeySlot
<1>2. ASSUME MonitorInv, MonitorInv', Tracked, [Next]_vars PROVE Tracked'
  <2>1. /\ KeyQueueTypeOK /\ KeyQueueTypeOK'
        /\ sent \in Seq(AmKey) /\ got \in Seq(AmKey)
        /\ PendingKey \in Seq(AmKey \cup {NoKey})
    BY <1>2, PendingIsSeq DEF MonitorInv, MonitorTypeOK, PendingOK
  <2>2. where' # "panicked" => where # "panicked" \/ UNCHANGED vars
    BY <1>2
    DEF Next, loop, command, execute, too_early, tick, SDL_PollEvent, poll_ends, vars,
        loopVars, cmd_c, cmd_si, cmd_q, cmd_x, other_cmd, eof, batch, SDL_event,
        sdl_clear_event_queue
  <2>3. CASE UNCHANGED <<keyVars, sent, got>>
    BY <1>2, <2>2, <2>3 DEF keyVars, vars, loopVars, PendingKey, NrPending
  <2>4. ASSUME where # "panicked", i8042_data_io_handler, sent' = sent,
               got' = IF FrontKey = NoKey THEN got ELSE Append(got, FrontKey)
        PROVE  Tracked'
    <3>1. CASE key_f = key_r
      BY <1>2, <2>4, <3>1 DEF i8042_data_io_handler, FrontKey, PendingKey, NrPending
    <3>2. CASE key_f # key_r
      <4>1. /\ PendingKey # <<>> /\ FrontKey = Head(PendingKey)
            /\ PendingKey' = Tail(PendingKey)
        BY <2>1, <2>4, <3>2, DequeueTakes
      <4>2. sent = got \o PendingKey
        BY <1>2, <2>4
      <4>3. FrontKey \in AmKey
        <5>1. Len(PendingKey) > 0 /\ Head(PendingKey) = sent[Len(got) + 1]
          BY <2>1, <4>1, <4>2, EmptySeq, ConcatProperties
        <5>2. Len(got) + 1 \in 1..Len(sent)
          BY <2>1, <4>2, <5>1, ConcatProperties
        <5>3. QED
          BY <2>1, <4>1, <5>1, <5>2, ElementOfSeq
      <4>4. got' = Append(got, Head(PendingKey))
        BY <2>4, <4>1, <4>3, KeyQueueAssumption
      <4>5. got \in Seq(AmKey \cup {NoKey})
        BY <2>1
      <4>6. QED
        BY <2>1, <2>4, <4>1, <4>2, <4>4, <4>5, HeadMoves
    <3>3. QED
      BY <3>1, <3>2
  <2>5. ASSUME NEW k \in AmKey, key_enqueue(k), ~KeyQueueFull, where # "panicked",
               sent' = Append(sent, k), got' = got
        PROVE  Tracked'
    <3>1. PendingKey' = Append(PendingKey, k)
      BY <2>1, <2>5, EnqueueAppends
    <3>2. got \in Seq(AmKey \cup {NoKey})
      BY <2>1
    <3>3. got \o Append(PendingKey, k) = Append(got \o PendingKey, k)
      BY <2>1, <3>2, AppendProperties, ConcatProperties
    <3>4. QED
      BY <1>2, <2>5, <3>1, <3>3
  <2>6. CASE loop
    <3>1. ASSUME NEW kind \in Kind, execute(kind) PROVE Tracked'
      <4>1. CASE kind = "keyboard"
        BY <2>4, <3>1, <4>1 DEF execute
      <4>2. CASE kind # "keyboard"
        BY <2>3, <3>1, <4>2 DEF execute, panic
      <4>3. QED
        BY <4>1, <4>2
    <3>2. CASE too_early \/ tick \/ poll_ends
      BY <2>3, <3>2 DEF too_early, tick, poll_ends, next_turn
    <3>3. CASE SDL_PollEvent
      <4> DEFINE e == Head(events)
      <4>1. CASE e # Closed /\ state = "RUNNING" /\ e # NoKey
        <5>1. /\ e \in AmKey /\ key_enqueue(e) /\ sent' = Append(sent, e) /\ got' = got
              /\ where = "poll"
              /\ KeyQueueFull => where' = "panicked"
          BY <1>2, <3>3, <4>1, HeadTailProperties
          DEF SDL_PollEvent, send_key, MonitorInv, MonitorTypeOK
        <5>2. CASE KeyQueueFull
          BY <5>1, <5>2
        <5>3. CASE ~KeyQueueFull
          BY <2>5, <5>1, <5>3
        <5>4. QED
          BY <5>2, <5>3
      <4>2. CASE ~(e # Closed /\ state = "RUNNING" /\ e # NoKey)
        BY <2>3, <3>3, <4>2 DEF SDL_PollEvent, send_key
      <4>3. QED
        BY <4>1, <4>2
    <3>4. QED
      BY <2>6, <3>1, <3>2, <3>3 DEF loop
  <2>7. CASE command
    BY <2>3, <2>7
    DEF command, cmd_c, cmd_si, cmd_q, cmd_x, other_cmd, eof, batch, sdl_clear_event_queue
  <2>8. CASE SDL_event \/ UNCHANGED vars
    BY <2>3, <2>8 DEF SDL_event, vars
  <2>9. QED
    BY <1>2, <2>6, <2>7, <2>8 DEF Next
<1>3. Tracked => KeysInOrder
  BY DEF KeysInOrder
<1>4. QED
  BY <1>1, <1>2, <1>3, MonitorInvInductive, PTL DEF Spec
=============================================================================
