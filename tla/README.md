# Specifications of ysyx-workbench

TLA+ models of the parts of this workbench that have behaviour of their own:
circuits and the virtual board that drives them (`npc`, `nvboard`), the NEMU
emulator (`nemu`), the native machine of AM (`abstract-machine`) and a kernel
that runs on it (`am-kernels/kernels/thread-os`). TLC checks small instances,
TLAPS proves the main results for every instance. `PROJECT.json` maps every
definition to the lines it stands for and lists runs, findings, hazards and
theorems.

Run `tlc -config X.cfg M` and `tlapm M.tla` in this directory.

## 1. The system

| component | state | operations | who it talks to |
|---|---|---|---|
| PS/2 receiver, `ps2_keyboard.v` | synchroniser, frame, bit count, ring of 8 codes, `ready`, `overflow` | clock edge: sample, shift, store, pop, reset | samples the line; read by the state machine |
| keyboard state machine, `keyboard_fsm.v`, `top.v` | state, registered outputs, press counter | clock edge | receiver (`ready`, `data`, `nextdata_n`), displays |
| harness, `csrc/main.cpp` | - | `reset`, the loop of `nvboard_update` and `step_sim` | board and circuit share pins |
| NVBoard keyboard, `keyboard.cpp` | queue of codes, current code, frame position, clock divider, idle flag | `push_key`, `update_state` | SDL events in, pins `PS2_CLK`, `PS2_DAT` out |
| NVBoard UART, `uart.cpp` | frame position and byte of each direction, baud counter, string to send, idle flag | `tx_receive`, `rx_send`, `rx_getchar`, `update_state` | pins `UART_TX`, `UART_RX`; feeds the terminal |
| NVBoard terminal, `term.cpp` | lines, cursor, first line shown, dirty marks, focus | `feed_ch`, `newline`, `backspace`, `update_gui`, `set_focus` | fed by the UART; SDL's window |
| NVBoard event loop, `nvboard.cpp`, `event.cpp` | focus of the terminal, frame timer | `nvboard_update`, `read_event` | all components |
| NVBoard VGA and other components | textures | drawing | pins, SDL |
| NEMU debugger, `sdb.c` | batch flag | the commands `c si q x info help`, end of input | execution loop, memory |
| NEMU execution, `cpu-exec.c`, `state.c`, `hostcall.c` | `nemu_state`, instructions left | `cpu_exec`, `execute`, traps | difftest, devices, debugger |
| NEMU difftest, `difftest/dut.c` | `is_skip_ref`, `skip_dut_nr_inst` | `difftest_skip_ref`, `difftest_step` | reference machine |
| NEMU devices, `device/` | key ring, clock, SD card, port contents | MMIO handlers, `device_update` | SDL, host clock |
| AM native start-up, `mpe.c`, `ioe.c`, `platform.c` | processes, pipe, cpuid, "devices initialised" | `mpe_init`, `ioe_init`, `do_io` | every program |
| AM native contexts, `cte.c` | saved contexts, signal mask | `yield`, timer signal, `iset`, switch | kernel's handler |
| AM native memory, `vme.c` | list and hash table of mapped pages per space, the space in force | `protect`, `map`, `ucontext`, `__am_switch` | kernel, host `mmap` |
| AM native audio, `ioe/audio.c` | pipe, `count` | `audio_write`, SDL's callback `audio_play` | program, SDL's audio thread |
| AM native devices, `ioe/` | key ring, framebuffer, clock | event thread, polling | program |
| AM x86 memory and contexts, `x86/qemu/vme.c`, `cte.c` | page directories and tables, register `cr3`, contexts | `protect`, `unprotect`, `map`, `ucontext`, `kcontext`, trap and return | kernel (gives the pages), processor (walks the tables) |
| AM x86 start-up and devices; riscv, mips, loongarch | APs; mostly stubs | `mpe_init` | kernel |
| thread-os, yield-os | tasks, contexts, spin lock | `on_interrupt`, `lock`, `func` | AM |
| other npc circuits (sCPU, VGA, ALU, LFSR), fceux-am, benchmarks, tools | | | |

What is hard here: registered outputs that are a cycle late and are tested as if
they were not; two assignments to a register on one edge; a line, a reset and a
reader that do not wait for each other; global flags that outlive the operation
that set them; events polled between instructions; processes let loose in shared
memory; preemption in a critical section and inside the scheduler; page tables
that are freed while something still points at them, and translations cached
beyond them; a list that is relinked while it is the record of what is mapped; a
window that is redrawn only where it is marked; a counter that two threads change
without a lock. `hazards` in
`PROJECT.json` lists each at its line, with the properties that cover it or the
reason why none does yet.

## 2. Modules

    ScanCode            bits and scan codes
    ScanFifo            abstract: a queue that loses nothing until it says so
    Ps2Keyboard         ps2_keyboard.v                   refines ScanFifo
    KeyboardFsm         keyboard_fsm.v
    KeyboardTop         top.v = Ps2Keyboard + KeyboardFsm, on an arbitrary line
    NvboardKeyboard     nvboard/src/keyboard.cpp
    KeyboardBoard       csrc/main.cpp = KeyboardTop + NvboardKeyboard + user
    NemuKeyQueue        nemu/src/device/keyboard.c
    NemuMonitor         sdb.c, cpu-exec.c, difftest/dut.c, device.c + NemuKeyQueue
    NativeMpe           native/mpe.c, ioe.c, what platform.c shares
    LockedTasks         abstract: tasks that go through func and one lock
    ThreadOs            thread-os.c + the contexts of native/cte.c + NativeMpe,
                                                         refines LockedTasks
    AddressSpace        abstract: tables of pages, and what a running thread sees
    VmeProgram          the kernel on top: its spaces, threads and pages (external)
    X86Vme              x86/qemu/vme.c, cte.c            refines AddressSpace
    NativeVme           native/vme.c, switch of cte.c    refines AddressSpace
    Vme                 VmeProgram on either machine
    NvboardTerm         nvboard/src/term.cpp
    NvboardUart         nvboard/src/uart.cpp + NvboardTerm
    BoardTerminal       nvboard.cpp, event.cpp, example/vsrc/uart.v + NvboardUart + user
    NativeAudio         native/ioe/audio.c under am-tests' audio.c
    MC...               constants for TLC
    ...Proofs           theorems

**Circuits.** One step is one rising clock edge. Registers are assigned with
`<=`, so an operator such as `ps2_keyboard` relates the values before and after
the edge and reads only the former; where two assignments meet, the later one in
the text wins (`Empties`). Pins are the operator's parameters. `top` conjoins
the two circuits, each reading the other's old registers. `DataBits` and `Depth`
are 8 in the code; the modules take any.

**NVBoard.** One call of `update_state` is one disjunct of the operator of that
name. The board's pins are the variables `ps2_clk` and `ps2_dat`; `cur_key`
holds the bits still to send, as the C++ field holds the shifted byte.
`KeyboardBoard` runs `kb_update` and `top` in one step, as the loop does; the
circuit sees the pins the board has just set. The variables `sent`, `recvd` and
`clean` record history and constrain nothing, and so does `pressing`: `KeyEvent`
may release any key, because a press that came while the terminal had the focus
was never heard of.

**NEMU.** `where` is the program counter of the emulator: prompt, before an
instruction, after it, in the polling loop, gone. `execute` is one instruction
with all it calls (device handlers, traps, the difftest check), up to the test of
the state; `too_early`, `tick`, `SDL_PollEvent` and `poll_ends` are
`device_update` and the rest of the loop's turn. Instructions are kinds. A
command is one action and begins with `sdl_clear_event_queue`, as in the code.
`left` is -1 for `c`, whose 2^64 - 1 instructions nobody counts down. A key that
overflows the ring trips the assertion: `where = "panicked"`.

**Native machine.** A processor is a process; `at` says how far it is in
`mpe_init`. Globals are shared because `platform.c` remaps them; `cpuid` is
private and inherited. Before `mpe_init` and after it a processor may call
`ioe_init` and access devices whenever it likes. An access that finds
`ioe_init_done` false starts the initialisation (`do_io`), and so does `mpe_init`;
the flag is set by another step, `__am_ioe_init`, when the initialisation is over,
and in between any other processor may find it false too. A misplaced `ioe_init`
panics, which ends every process (`halted`). Accesses that find the flag set change
nothing here.

**thread-os.** `pc[c]` is where processor `c` executes, `stack[c]` on which
stack, `resume[c]` where the interrupted code goes on. `on_interrupt` is four
steps (save, advance, test, switch) because other processors run in between. A
context is the pair of stack and place. Timer interrupts hit anywhere in `func`.
`LockedTasks` knows no processors, stacks or contexts: a task has a place in `func`
and goes on from it, and takes the lock only while no other is inside. `Where(t)` is
that place: what the processor executes, what it was interrupted at, or, for
a task on no processor, the place in its saved context.

**Virtual memory.** `arch` says which machine the kernel was built for; it never
changes. The kernel is `VmeProgram`: it protects, maps, creates, kills and
resumes in any order, with one restraint on its own part, that it unprotects no
space in which a thread lives (and, on x86, none that is still in `cr3` or in a
saved context, `Loaded`). Its allocator may refuse a page at any time, as it serves
others too; both machines then panic. A panic or an endless loop is `stopped`.
In `X86Vme` `mem` is the contents of the pages the kernel's allocator gives: a
directory of kernel and user entries, page tables below the user entries, frames.
`ptwalk` hangs a fresh table in, `map` writes the entry, `teardown` frees what is
reachable through present user entries. `tlb` is what the processor may have
cached: any translation can get in, and only loading `cr3` empties it.
In `NativeVme` a space is a head with a hash table and a linked list of nodes;
`node`, `next` and `hash` are that memory, and `host` is what is mapped in the
process. `__am_switch` walks two lists; a walk of a list that has become a ring
does not end (`hung`).

**Terminal.** `lines`, `cursor_x` and `cursor_y` are the text, `screen_y` the first line
of the window, `drawn` what each of its cells shows and `dirty` the marks: `feed_ch` and what
it calls change the text and mark, `update_gui` draws the marked cells and the
cursor. `NvboardUart` has one disjunct per state of the two frames.
`nvboard_update` is one turn of the board's loop: the baud counter, then receive,
then send; the circuit of the example joins `UART_RX` to `UART_TX`, so what is typed
comes back. `Redrawn` is the part of the turn that runs once per frame;
`mousedown_handler` and `KeyTyped` are events, read then. `typed` and `fed` record
history. No key types a carriage return, so the arm of `feed_ch` for it is
modelled and proved about, but not exercised by the run.

**Audio.** Two threads and one `count`: each `count += n` is a read and a later
write, because the variable is volatile and not atomic.

## 3. Runs

| run | instance | states | shows |
|---|---|---|---|
| MCPs2Keyboard | 1 data bit, 4 slots, any line, any reader, any reset | 147 456 | registers in range, `ready` exact, flag before loss, refinement of ScanFifo |
| MCKeyboardLine | 1 data bit, 4 slots, any line | 46 849 | the reader keeps up; no code is taken unseen |
| MCKeyboardBoard | 8 bits, 8 slots, keys A and UP, 2 events, 2 uses of the rst switch | 498 663 | codes arrive faithfully; the lamp follows the last code and the counter counts runs of codes; everything typed is read |
| MCKeyboardRelease | same | | **violation**: released and still lit |
| MCNemuMonitor | ring of 3, 2 keys, 3 events, `si` up to 2, `x` on memory only | 26 873 | quit, batch status, verdicts, difftest skipping, key order |
| MCNemuExamine | same, `x` on devices too | | **violation**: the instruction after `x` goes unchecked |
| MCNativeMpe | 4 processors, any use of the devices | 2 140 | devices first and never again where main asked for them, distinct numbers, one byte in the pipe for each process that waits, everyone enters |
| MCNativeMpeTwice | same | | **violation**: devices initialised twice |
| MCThreadOs | 2 processors, 3 tasks | 16 381 | stacks exclusive, mutual exclusion, refinement of LockedTasks, release, no starvation |
| MCVme | 2 spaces, 2 pages under one page table, 1 frame, 2 threads, 4 pages for tables, 4 nodes | 505 488 | both machines: pages owned once, kernel always mapped, the list whole, refinement of AddressSpace |
| MCBoardTerminal | window 2 by 2, characters of 3 bits, `divisor` 2, 5 characters typed | 345 114 | window shows the text; echo is exact and appears |
| MCNativeAudio | pipe of 4, 3 chunks of 1, callbacks ask for 2 | | **violation**: the wait for the audio ends too early |

Why the bounds are enough. A frame of one data bit has the same start, parity
and stop bits and makes frames arrive as often as a line can deliver them, which
is the worst case for the reader; four slots reach full, overflow and wrap-around
of both pointers. The board runs at the code's sizes except that `ClkNum` is 2
instead of 10 (an edge of the line every three cycles instead of eleven): the
circuit has less time, not more, and two events of keys with one and with two
codes make up to six frames and interleave with the resets anywhere in them. A ring of three holds two events,
so three events overflow it. Two processors and three tasks give one
processor two tasks and the other one. Larger instances (4 tasks) have been run
once with the same result. Two spaces of a directory and a page table each use the
four free pages up; whether pages are left or not, each allocation may also fail;
the two pages share a table, so
that one walk finds it and another makes it; two threads are one that switches and
one that is switched to. Four nodes are enough to map both pages, take them away and
map them again. A window of two lines of two characters scrolls, wraps and goes back
over a line's start within five characters; three bits give newline, backspace, a
letter and one character that is not ASCII.

Deadlock is checked where the system never stops: circuits and thread-os.
`CHECK_DEADLOCK FALSE` is given to NemuMonitor, whose process exits, and to
NativeMpe, which ends when everyone is in the program, to Vme, whose machine may
panic or hang, to BoardTerminal, where a character that is not ASCII ends the
board, and to NativeAudio, whose program ends.

`MaxEvents`, `MaxToggles`, `MaxSi`, `MaxTyped` bound the user; `Chunks` bounds the
audio program. Nothing else is bounded: the
loop of the circuit and thread-os run for ever in a finite state space.

### Findings

* **The display lights up again after a release** (MCKeyboardRelease,
  `keyboard_fsm.v:63`). `nextdata_n` is a register, so the break code requested in
  ACK_F0 leaves the ring while the machine is already in WAIT_REL with `ready`
  still up. WAIT_REL does not wait, and the release code that follows is read in
  IDLE as a new press: lit, and counted. The proofs show that this is no race: on
  every board whose resets fall on a quiet line WAIT_REL lasts one edge
  (`BoardWaitRelNeverWaits`), with nothing left to read the display is dark only
  before the first code and after a break code (`BoardLampFollowsLast`), and the counter counts that code too
  (`BoardCountsRuns`).
* **Examining a device skips a check** (MCNemuExamine, `map.h:41`).
  `find_mapid_by_addr` raises `is_skip_ref` for the debugger's accesses too; the
  next instruction is not compared, and the reference is overwritten. Nothing else
  does this (`MonitorSkipsOnlyItself`).
* **Devices initialised twice** (MCNativeMpeTwice, `mpe.c:27`). `mpe_init` does not
  test `ioe_init_done`, so an access to a device in `main` and `mpe_init` both
  initialise. There is a second way: `do_io` tests the flag (`ioe.c:78`) and
  `__am_ioe_init` sets it last (`ioe.c:74`), so that all processors whose first
  accesses overlap initialise. There is no third (`MpeDevicesOnce`), and a program
  whose `main` calls `ioe_init` and then `mpe_init` without an access in between is
  safe from both (`MpeAskedOnce`). In the worst case every processor initialises
  once, the boot processor twice (`MpeDevicesBound`).
* **The wait for the audio ends too early** (MCNativeAudio, `audio.c:27`). The
  program's `count += n` and the callback's `count -= nread` overlap; when the
  increase is lost, `count` is 0 with samples still in the pipe. With both updates
  made in one step the same instance satisfies the property, and `AudioWaitPlaysAll`
  proves that nothing but the overlap is to blame, whatever the size of the pipe and
  of the chunks.

## 4. Fairness

* `KeyboardBoard`: weak fairness of `reset` and `step_sim`: the loop of `main.cpp`
  never stops. None of `KeyEvent` and `ToggleRst`.
* `NemuMonitor`: weak fairness of the emulator's loop and of the batch start;
  strong fairness of `tick`, because `device_update` is called infinitely often
  while the loop runs, and host time passes between the calls. Commands are not
  fair: nobody has to type.
* `NativeMpe`: weak fairness of start-up steps and of the end of an initialisation:
  the host runs every process, and initialising a device does not wait for another
  process. None of accesses and of `ioe_init`, which the program need not make.
  `AllEnter` is up to a panic.
* `ThreadOs`: weak fairness of each processor's handler and of `lock` when it is
  free; strong fairness of each timer, which fires again and again although
  interrupts are off in between and although `setup_stack` drops a signal that
  hits library code: that infinitely many ticks find the program elsewhere is
  assumed here, so the dropping (`cte.c:48`) is a hazard no run covers; strong fairness of a task's own steps outside the lock: a
  tick is longer than a step. Whether a spinning task ever finds the lock free is
  not assumed (an `atomic_xchg` loop guarantees nothing), so `EveryTaskRuns` only
  says that a task gets a processor, and nothing is claimed about it getting the
  lock.
* `BoardTerminal`: weak fairness of `nvboard_update`, which the loop of `main.cpp`
  calls for ever, and of `Redrawn`: host time passes, so frames recur. None of
  typing and clicking.
* `Vme` and `NativeAudio` state none: their properties are about safety.

## 5. Proofs

Every theorem holds for all values of the constants that satisfy the named
assumptions (`CodeAssumption`, `DepthAssumption`, `KeyQueueAssumption`,
`MonitorAssumption`, `CpuAssumption`, `TaskAssumption`, `ProgramAssumption`,
`X86Assumption`, `NativeAssumption`, `TermAssumption`, `UartAssumption`,
`BoardAssumption`, `HarnessAssumption`,
`CountAssumption`).

* **Ps2KeyboardProofs.** Types; `ReadyMeansWaiting`, inductive together with the
  types; `FlagBeforeLoss`, from where the waiting codes lie in the ring; and
  `Ps2ImplementsScanFifo`: each clock edge is, by the values of push and pop, one
  of Arrive, Take, TakeAndArrive, Overrun, Clear or a stutter of ScanFifo. The
  lemmas `EdgeArrives`, `EdgeTakes`, ... compute the abstract queue after the edge.
* **KeyboardProofs.** On an arbitrary line, `ReaderKeepsUp` is not inductive, as it does not say why no
  frame ends while a code waits. `Pace` does: after the edge that stored a code the
  machine needs at most three more edges to take it, and in that time the line
  delivers at most one of the frame's bits. Hence the overflow reset of
  `keyboard_fsm.v` is never needed. On the board (`BoardIsALine` shows that it is one
  of these lines) the invariant is `BoardInv`: `Sender`, what is left of the code
  and of the frame on the keyboard's side; `Timing`, that with `ClkNum > 1` the last
  edge of the line is sampled before the next; `Aligned`, that the receiver is at
  most one falling edge behind and its buffer holds the bits of the code being sent,
  the code counted as sent but not yet received included. From it follow that a
  complete frame has the right parity and gives that code (`FrameGives`), and so
  `LineFaithful`. `Reading` and `Pressed` add what is in front of the ring and what
  may still be counted, for the lamp and the counter. `Lamp` relates each state of
  the machine to the last code taken, one edge late as the outputs are, and
  `RunsInvariant` the counter, which wraps, to the number of runs of codes up to
  there, by congruence modulo `CountMod`. With `ClkNum` 0 or 1 a data
  bit would change before it is sampled; the code has 10.
* **NemuMonitorProofs.** `MonitorInv` adds to the types that an instruction run in
  state QUIT is the last one (`LateInv`) and where each final state came from
  (`CauseInv`). `KeysInOrder` needs lemmas on what enqueueing and dequeueing do to
  the sequence of pending keys in the ring, wrap-around included. Two theorems
  assume what MCNemuMonitor's constants say: `x` is not pointed at devices.
* **ThreadOsProofs**, start-up. `MpeInv`: before the boot processor's writing loop the
  pipe is empty, so nobody else has left its `read`. `BytesInv` counts: during the
  loop the bytes in the pipe and those still to write are together the processes
  that wait, and so `BytesMatch` when it ends. `Devices`: once `mpe_init` has seen
  that main asked for the devices, the boot processor is at them alone, with
  nobody let go, or they are done for good; `DevicesFirst` follows. `BoundInv`: an
  initialisation that has begun shows in the flag or in its process, which bounds
  them. `OnceInv`: nobody has begun one, or exactly one process has; it is kept by
  every step but the two that `LazyInMain` and `Overlaps` name, and those
  are the hypotheses of `MpeDevicesOnce`. `MpeAskedOnce` shows that a program that
  asks in time has no `Overlaps`. The module restricts none of this.
* **ThreadOsProofs**, tasks. `Local`, per processor: it is on its task's stack, and
  the task is its own (`t % NCpu = c`); past `save` the context of the stack it still
  runs on is the place it was interrupted at. From it follow the exclusiveness of
  stacks and that each task goes on where it was. `LockInv` is mutual exclusion
  together with `LockExact`, that `locked` is 1 exactly while a task is in the
  critical section: mutual exclusion alone is not inductive, as a task could find
  the lock free that another holds. The two give `ThreadImplements`: saving,
  searching, switching and every timer are stutters of LockedTasks. The search
  `current = current->next` ends within `NrTask` tests on a processor that has a
  task (`ThreadSearchEnds`: the distance to the task with the processor's own number
  drops by one with each step, and there it ends), and never on one with a number
  that no task has, which stays on its boot stack (`ThreadSearchEndless`).
* **NativeAudioProofs.** `Apart` says that the two read-modify-writes of `count` are not
  both under way. While it holds, `count` is what is in the pipe, corrected by the
  update that has begun, and the wait and the callback are right. `count` is also
  read twice by the callback; `AudioReadsAsked` needs only that the program does not
  finish an addition in between. The only run of this module expects a violation,
  so that the theorems state the sizes they need (`Sizes`) themselves instead of
  taking them from an assumption of the module.

* **X86VmeProofs, VmeProofs.** For x86 the invariant is the layout of the tables: a
  live space has a directory whose kernel entries are those of `Kpt` and whose user
  entries, if present, point at tables no other directory points at; every allocator
  page is free or in exactly one space. `X86VmeProofs` has the lemmas on `ptwalk`,
  `teardown` and translation under that layout; `VmeProofs` shows every action
  keeps it. For native the invariant says which nodes a list holds and that
  the host maps exactly what the space in force says, as long as no address was
  mapped twice. `VmeImplements` maps each action to its counterpart in AddressSpace;
  the set `seen` is the cached translations together with those the tables give.
* **BoardTerminalProofs.** `TermInv` adds to the types and `WindowFaithful` that the
  lines below the cursor are blank, without which a line that scrolls in could show
  old text. `Wire` says, for each position of the two frames, which bits of the
  character are still to come and that sender and receiver are one state apart; with
  it `Echoing` (what is in the string, on the wire and in the terminal is what was
  typed) is inductive.

Only model-checked: all liveness (`KeysReachReader`, `BatchQuits`, `AllEnter`,
`LockReleased`, `EveryTaskRuns`, `EchoShown`), which the prover does not handle. The
inductive steps behind some of it are theorems: that the search of the handler comes
nearer with each step, and `Pace` for the reader of the keyboard. Every
invariant and action property of the passing runs is proved. Each of the four
properties that the code violates has theorems that say under which condition it
holds, or how it fails: see the findings.

## 6. Not modelled

The components with status `not_modelled` in `PROJECT.json`, with reasons: vendored
and third-party code (fceux-am, kconfig, libgcc, benchmarks), drawing, stubs left
for students (most of klib, riscv/npc, mips, loongarch, expressions and
watchpoints), table lookups. Within modelled components: the data path of
instructions, memory contents, argument parsing, logging; user space in `cte.c`;
`difftest_skip_dut`, which nothing calls.

Four hazards are reached by no property, although the module has them, because a
premise or an assumption leaves them out, and `PROJECT.json` lists them so: a reset
inside a frame (`clean` in `LineFaithful`), dropped ticks (the fairness of `timer`),
an address of native mapped again (`again` in `ListWhole`; the machine then hangs),
and a directory that x86 unprotects while a saved context or `cr3` holds it
(`Loaded`, an obligation of the kernel).

## 7. Plan

What the next work on this project would take, in this order.

1. NEMU devices: the rtc latch, the SD card's command sequence, the width of an
   access against the end of a region (`map.c:57`).
2. `X86Mpe`: start of the processors one at a time, and several processors in one
   address space on top of `X86Vme`.
3. The buffer of SDL's callback and the contents of the audio pipe: short writes
   (`audio.c:36`) and a second opening (`audio.c:52`).
4. `SCpu` against the interpreter of the same instruction set in
   `am-kernels/tests/self/C_mini/C_sISA` (refinement).
5. The keyboard and the terminal of one board, with the focus between them.
