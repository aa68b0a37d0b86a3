---------------------------- MODULE NemuMonitor ----------------------------
(***************************************************************************)
(* The control of the NEMU emulator: the debugger's command loop           *)
(* (monitor/sdb/sdb.c), the execution loop and its states                  *)
(* (cpu/cpu-exec.c, utils/state.c), the polling of SDL events between      *)
(* instructions (device/device.c) and the skipping of instructions the     *)
(* reference machine cannot reproduce (cpu/difftest/dut.c), with           *)
(* CONFIG_DEVICE, the keyboard and CONFIG_DIFFTEST enabled.                *)
(*                                                                         *)
(* An instruction is what it does to that control: its kind.  The verdict  *)
(* of isa_difftest_checkregs, a stub in this tree, is left open.           *)
(* difftest_skip_dut has no caller, so skip_dut_nr_inst stays 0 and its    *)
(* branch of difftest_step is left out.                                    *)
(***************************************************************************)
EXTENDS NemuKeyQueue, Integers

CONSTANTS Verdict,      \* what isa_difftest_checkregs may answer
          Examinable,   \* what the debugger's x command is pointed at
          MaxSi,        \* bound on the N of si N
          MaxEvents     \* bound on SDL events

Kind   == {"plain", "keyboard", "device", "hole", "good", "bad", "invalid"}
Region == {"pmem", "keyboard", "device", "hole"}
Closed == "SDL_QUIT"

ASSUME MonitorAssumption == /\ Verdict \subseteq BOOLEAN
                            /\ Examinable \subseteq Region
                            /\ MaxSi \in Nat /\ MaxEvents \in Nat
                            /\ Closed \notin AmKey \cup {NoKey}

VARIABLES where,        \* "prompt", "exec", "update", "poll", "exited", "panicked"
          state,        \* nemu_state.state, without the prefix NEMU_
          halt_ret,     \* nemu_state.halt_ret
          left,         \* instructions cpu_exec still has to execute
          is_skip_ref,
          is_batch_mode,
          events,       \* SDL's event queue
          arrived,      \* number of events so far
          cause,        \* history: what gave state its value
          late,         \* history: instructions executed in state QUIT
          sent, got     \* history: keys enqueued, keys read by the guest

loopVars == <<where, state, halt_ret, left, cause, late>>
vars     == <<loopVars, is_skip_ref, is_batch_mode, events, arrived, sent, got, keyVars>>

Forever == -1           \* the n of the c command, 2^64 - 1 in the code

Becomes(s, why) == state' = s /\ cause' = why

\* cpu_exec returns: to the debugger, or to main in batch mode.
Returns_prompt == where' = "prompt"
Returns        == where' = IF is_batch_mode THEN "exited" ELSE "prompt"

\* An assertion fails: the process dies.
panic == /\ where' = "panicked"
         /\ UNCHANGED <<state, halt_ret, left, cause, late, is_skip_ref,
                        is_batch_mode, events, arrived, sent, got, keyVars>>

-----------------------------------------------------------------------------
(* cpu_exec up to the loop, which a program that has ended does not enter. *)
Ended_abortless == {"END", "QUIT"}
Ended           == {"END", "ABORT", "QUIT"}

cpu_exec(n) ==
    /\ \/ /\ state \in Ended
          /\ Returns
          /\ UNCHANGED <<state, cause, left>>
       \/ /\ state \notin Ended
          /\ Becomes("RUNNING", "cpu_exec")
          /\ where' = "exec" /\ left' = n
    /\ UNCHANGED <<halt_ret, late>>

(* One instruction.  find_mapid_by_addr calls difftest_skip_ref for every  *)
(* access to a device, set_nemu_state for every trap.                      *)
Skips(kind) == kind \notin {"plain", "hole"}

exec_once(kind) ==
    CASE kind = "good"    -> Becomes("END", "good") /\ halt_ret' = 0
      [] kind = "bad"     -> Becomes("END", "bad") /\ halt_ret' = 1
      [] kind = "invalid" -> Becomes("ABORT", "invalid") /\ halt_ret' = -1
      [] OTHER            -> UNCHANGED <<state, cause, halt_ret>>

checkregs(same) == IF same THEN UNCHANGED <<state, cause, halt_ret>>
                   ELSE Becomes("ABORT", "difftest") /\ UNCHANGED halt_ret

skip_done_never(kind) == is_skip_ref' = (is_skip_ref \/ Skips(kind))
skip_done(kind)       == is_skip_ref' = FALSE

\* exec_once, then the check of difftest_step or the skipping of it.
difftest_step(kind) ==
    /\ \/ /\ is_skip_ref \/ Skips(kind)
          /\ exec_once(kind)
       \/ /\ ~is_skip_ref /\ ~Skips(kind)
          /\ \E same \in Verdict : checkregs(same)
    /\ skip_done(kind)

Breaks_ended == state' \in {"END", "ABORT"}
Breaks       == state' # "RUNNING"

\* The first half of a turn of execute's loop.
execute(kind) ==
    /\ where = "exec"
    /\ \/ kind = "hole" /\ panic
       \/ /\ kind # "hole"
          /\ difftest_step(kind)
          /\ IF Breaks THEN Returns ELSE where' = "update"
          /\ IF kind = "keyboard"
             THEN /\ i8042_data_io_handler
                  /\ got' = IF FrontKey = NoKey THEN got ELSE Append(got, FrontKey)
             ELSE UNCHANGED <<keyVars, got>>
          /\ late' = IF state = "QUIT" THEN late + 1 ELSE late
          /\ UNCHANGED <<left, is_batch_mode, events, arrived, sent>>

(* The second half: device_update, which polls SDL only once a tick has    *)
(* passed since it last did, and the loop's test.                          *)
next_turn ==
    /\ \/ /\ left = 1
          /\ left' = 0
          /\ Returns
          /\ IF state = "RUNNING" THEN Becomes("STOP", "cpu_exec")
             ELSE UNCHANGED <<state, cause>>
       \/ /\ left # 1
          /\ left' = IF left = Forever THEN Forever ELSE left - 1
          /\ where' = "exec"
          /\ UNCHANGED <<state, cause>>
    /\ UNCHANGED <<halt_ret, late, is_skip_ref, is_batch_mode, events, arrived,
                   sent, got, keyVars>>

too_early == where = "update" /\ next_turn

tick == /\ where = "update"
        /\ where' = "poll"
        /\ UNCHANGED <<state, halt_ret, left, cause, late, is_skip_ref,
                       is_batch_mode, events, arrived, sent, got, keyVars>>

send_key(k) ==
    IF state = "RUNNING" /\ k # NoKey
    THEN key_enqueue(k) /\ sent' = Append(sent, k)
    ELSE UNCHANGED <<keyVars, sent>>

SDL_PollEvent ==
    /\ where = "poll" /\ events # <<>>
    /\ LET e == Head(events)
       IN  \/ /\ e = Closed
              /\ Becomes("QUIT", "closed")
              /\ UNCHANGED <<where, keyVars, sent>>
           \/ /\ e # Closed
              /\ where' = IF state = "RUNNING" /\ e # NoKey /\ KeyQueueFull
                          THEN "panicked" ELSE "poll"
              /\ send_key(e)
              /\ UNCHANGED <<state, cause>>
    /\ events' = Tail(events)
    /\ UNCHANGED <<halt_ret, left, late, is_skip_ref, is_batch_mode, arrived, got>>

poll_ends == where = "poll" /\ events = <<>> /\ next_turn

-----------------------------------------------------------------------------
(* The commands.  Every one starts with sdl_clear_event_queue; help, info  *)
(* and an unknown command do nothing else.                                 *)
sdl_clear_event_queue == /\ where = "prompt" /\ ~is_batch_mode
                         /\ events' = <<>>
                         /\ UNCHANGED <<arrived, is_batch_mode, sent, got>>

cmd_c == sdl_clear_event_queue /\ cpu_exec(Forever) /\ UNCHANGED <<is_skip_ref, keyVars>>

cmd_si == /\ sdl_clear_event_queue
          /\ \E n \in 1..MaxSi : cpu_exec(n)
          /\ UNCHANGED <<is_skip_ref, keyVars>>

cmd_q == /\ sdl_clear_event_queue
         /\ Becomes("QUIT", "q")
         /\ where' = "exited"
         /\ UNCHANGED <<halt_ret, left, late, is_skip_ref, keyVars>>

\* Each word of x N ADDR is read like a load of the guest.
cmd_x == /\ sdl_clear_event_queue
         /\ \E r \in Examinable :
               /\ where' = IF r = "hole" THEN "panicked" ELSE where
               /\ is_skip_ref' = (is_skip_ref \/ r \in {"keyboard", "device"})
               /\ IF r = "keyboard" THEN i8042_data_io_handler ELSE UNCHANGED keyVars
         /\ UNCHANGED <<state, halt_ret, left, cause, late>>

other_cmd == sdl_clear_event_queue /\ UNCHANGED <<loopVars, is_skip_ref, keyVars>>

\* rl_gets returns NULL: end of the input.
eof == /\ where = "prompt" /\ ~is_batch_mode
       /\ where' = "exited"
       /\ UNCHANGED <<state, halt_ret, left, cause, late, is_skip_ref,
                      is_batch_mode, events, arrived, sent, got, keyVars>>

\* sdb_mainloop in batch mode: one cmd_c, and no clearing of events.
batch == /\ where = "prompt" /\ is_batch_mode
         /\ cpu_exec(Forever)
         /\ UNCHANGED <<is_skip_ref, is_batch_mode, events, arrived, sent, got, keyVars>>

\* The user: a key with or without a keymap entry, or the window is closed.
SDL_event == /\ arrived < MaxEvents
             /\ where \notin {"exited", "panicked"}
             /\ arrived' = arrived + 1
             /\ \E e \in AmKey \cup {NoKey, Closed} : events' = Append(events, e)
             /\ UNCHANGED <<loopVars, is_skip_ref, is_batch_mode, sent, got, keyVars>>

\* What main returns.
is_exit_status_bad_any == state \notin {"END", "QUIT"}
is_exit_status_bad     == ~((state = "END" /\ halt_ret = 0) \/ state = "QUIT")

-----------------------------------------------------------------------------
Init == /\ where = "prompt" /\ state = "STOP" /\ halt_ret = 0 /\ left = 0
        /\ is_batch_mode \in BOOLEAN
        /\ is_skip_ref = FALSE
        /\ events = <<>> /\ arrived = 0
        /\ cause = "init" /\ late = 0 /\ sent = <<>> /\ got = <<>>
        /\ KeyQueueInit

loop    == (\E kind \in Kind : execute(kind)) \/ too_early \/ tick \/ SDL_PollEvent \/ poll_ends
command == cmd_c \/ cmd_si \/ cmd_q \/ cmd_x \/ other_cmd \/ eof \/ batch

Next == loop \/ command \/ SDL_event

(* The emulator runs; ticks keep passing while it does, so infinitely many *)
(* calls of device_update poll; batch mode starts the program.  Nobody has *)
(* to type a command.                                                      *)
Spec == Init /\ [][Next]_vars /\ WF_vars(loop) /\ SF_vars(tick) /\ WF_vars(batch)

-----------------------------------------------------------------------------
Location == {"prompt", "exec", "update", "poll", "exited", "panicked"}
State    == {"RUNNING", "STOP", "END", "ABORT", "QUIT"}

(* The loop runs only with instructions left and in a state it may be in.  *)
MonitorTypeOK == /\ KeyQueueTypeOK
                 /\ where \in Location /\ state \in State
                 /\ is_batch_mode \in BOOLEAN /\ is_skip_ref \in BOOLEAN
                 /\ halt_ret \in {-1, 0, 1}
                 /\ left \in Nat \cup {Forever}
                 /\ events \in Seq(AmKey \cup {NoKey, Closed}) /\ arrived \in Nat
                 /\ sent \in Seq(AmKey) /\ got \in Seq(AmKey)
                 /\ late \in Nat
                 /\ where = "update" => state = "RUNNING"
                 /\ where \in {"exec", "update", "poll"} =>
                        left # 0 /\ state \in {"RUNNING", "QUIT"}

(* Once the program has ended or was aborted, that verdict stands: no      *)
(* command runs it again or rewrites the state, except that q says QUIT.   *)
Judged        == state \in {"END", "ABORT"}
KeepsVerdict  == UNCHANGED <<state, halt_ret>>
Quits         == state' = "QUIT" /\ cause' = "q" /\ UNCHANGED halt_ret
VerdictStands == [][Judged => KeepsVerdict \/ Quits]_vars

(* Closing the window stops the guest: device_update comes after the       *)
(* loop's test of the state, so one more instruction runs, but only one.   *)
QuitRunsOneMore == late <= 1

(* A batch run reports success only if the guest hit the good trap or the  *)
(* window was closed: a bad trap, an invalid instruction, or a difference  *)
(* found by difftest, makes it fail, after the close as well.              *)
BatchSuccess == where = "exited" /\ is_batch_mode /\ ~is_exit_status_bad
                    => cause \in {"good", "closed"}

(* difftest_skip_ref is for instructions that cannot be reproduced: what   *)
(* is skipped is the instruction that asked for it, so no instruction      *)
(* begins with the flag already up.                                        *)
SkipsOnlyItself == where = "exec" => ~is_skip_ref

(* The guest reads every key event it was sent, once and in order, up to   *)
(* the event that overflows the ring and kills the emulator.               *)
KeysInOrder == where # "panicked" => sent = got \o PendingKey

(* In batch mode closing the window while the program runs ends it.        *)
BatchQuits == is_batch_mode /\ where \in {"exec", "update", "poll"}
                  /\ (\E i \in DOMAIN events : events[i] = Closed)
              ~> where \in {"exited", "panicked"}
=============================================================================
