----------------------------- MODULE NativeMpe -----------------------------
(***************************************************************************)
(* abstract-machine/am/src/native: how a native program becomes a machine  *)
(* of several processors.  mpe_init (mpe.c) forks one process for each     *)
(* application processor, initialises the devices when ioe_init asked for  *)
(* it, and only then lets the others go, each by one byte in a pipe.       *)
(* Otherwise the devices are initialised by an access to them that finds   *)
(* them not to be (do_io in ioe.c), in main or in the program and by any   *)
(* processor; ioe_init_done is set at the end of the initialisation.       *)
(*                                                                         *)
(* Writable data is mapped MAP_SHARED (platform.c), so the processes share *)
(* every global; the per-cpu structure behind thiscpu is private, and a    *)
(* child's cpuid is its parent's until it sets its own.  Nobody sees the   *)
(* end of the pipe: a waiting child holds a write end open itself.         *)
(***************************************************************************)
EXTENDS Naturals, FiniteSets

CONSTANT NCpu          \* __am_ncpu, the environment's smp

ASSUME CpuAssumption == NCpu \in Nat \ {0}

VARIABLES at,          \* where each process is; "none" before its fork
          i,           \* mpe_init's loop variable
          pipe,        \* bytes in sync_pipe
          cpuid,       \* thiscpu->cpuid
          has_ioe,     \* __am_has_ioe
          ioe_init_done,
          initing,     \* processes inside __am_ioe_init
          halted,      \* a panic: every process is killed
          asked,       \* history: has_ioe where mpe_init tests it
          inits        \* history: each process's runs of __am_ioe_init

bootVars == <<at, i, pipe, cpuid>>
ioeVars  == <<has_ioe, ioe_init_done, initing, halted, asked, inits>>
mpeVars  == <<bootVars, ioeVars>>

Cpu == 0..(NCpu - 1)

cpu_current(c) == cpuid[c]

\* main or the program may call what it likes.
Calls(c) == ~halted /\ at[c] \in {"main", "entry"} /\ c \notin initing

Misplaced(c) == cpu_current(c) # 0 \/ ioe_init_done
ioe_init(c)  == /\ Calls(c)
                /\ \/ Misplaced(c) /\ halted' = TRUE /\ UNCHANGED has_ioe
                   \/ ~Misplaced(c) /\ has_ioe' = TRUE /\ UNCHANGED halted
                /\ UNCHANGED <<bootVars, ioe_init_done, initing, asked, inits>>

\* __am_ioe_init begins, and ends with the flag.
Initialises(c)   == /\ initing' = initing \cup {c}
                    /\ inits' = [inits EXCEPT ![c] = @ + 1]
__am_ioe_init(c) == /\ ~halted /\ c \in initing
                    /\ ioe_init_done' = TRUE
                    /\ initing' = initing \ {c}
                    /\ UNCHANGED <<bootVars, has_ioe, halted, asked, inits>>

\* An access to a device that initialises.
do_io(c) == /\ Calls(c) /\ ~ioe_init_done
            /\ Initialises(c)
            /\ UNCHANGED <<bootVars, has_ioe, ioe_init_done, halted, asked>>

\* The test of both loops over the other processors.
More_inclusive == i <= NCpu
More_short     == i < NCpu - 1
More           == i < NCpu

mpe_init == /\ at[0] = "main" /\ 0 \notin initing
            /\ at' = [at EXCEPT ![0] = "fork"]
            /\ i' = 1
            /\ UNCHANGED <<pipe, cpuid, ioeVars>>

mpe_init_fork == /\ at[0] = "fork"
                 /\ \/ /\ More
                       /\ at' = [at EXCEPT ![i] = "read"]
                       /\ i' = i + 1
                    \/ /\ ~More
                       /\ at' = [at EXCEPT ![0] = "ioe"]
                       /\ i' = 1
                 /\ UNCHANGED <<pipe, cpuid, ioeVars>>

mpe_init_ioe == /\ at[0] = "ioe"
                /\ at' = [at EXCEPT ![0] = "write"]
                /\ asked' = has_ioe
                /\ \/ has_ioe /\ Initialises(0)
                   \/ ~has_ioe /\ UNCHANGED <<initing, inits>>
                /\ UNCHANGED <<i, pipe, cpuid, has_ioe, ioe_init_done, halted>>

ReleaseAt_ioe == {"ioe", "write"}
ReleaseAt     == {"write"}

\* One byte for each child; then the boot processor calls entry itself.
mpe_init_write == /\ at[0] \in ReleaseAt /\ 0 \notin initing
                  /\ \/ More /\ pipe' = pipe + 1 /\ i' = i + 1 /\ UNCHANGED at
                     \/ /\ ~More /\ at[0] = "write"
                        /\ at' = [at EXCEPT ![0] = "entry"]
                        /\ UNCHANGED <<i, pipe>>
                  /\ UNCHANGED <<cpuid, ioeVars>>

\* A child's read returns; the child then takes its own number.
ap_read(c) == /\ at[c] = "read" /\ pipe > 0
              /\ at' = [at EXCEPT ![c] = "released"]
              /\ pipe' = pipe - 1
              /\ UNCHANGED <<i, cpuid, ioeVars>>

SetsCpuid_late(c) == UNCHANGED cpuid
SetsCpuid(c)      == cpuid' = [cpuid EXCEPT ![c] = c]

ap_start(c) == /\ at[c] = "released"
               /\ SetsCpuid(c)
               /\ at' = [at EXCEPT ![c] = "entry"]
               /\ UNCHANGED <<i, pipe, ioeVars>>

MpeInit == /\ at = [c \in Cpu |-> IF c = 0 THEN "main" ELSE "none"]
           /\ i = 0 /\ pipe = 0
           /\ cpuid = [c \in Cpu |-> 0]
           /\ has_ioe = FALSE /\ ioe_init_done = FALSE
           /\ initing = {} /\ halted = FALSE
           /\ asked = FALSE /\ inits = [c \in Cpu |-> 0]

MpeBoot == /\ ~halted
           /\ \/ mpe_init \/ mpe_init_fork \/ mpe_init_ioe \/ mpe_init_write
              \/ \E c \in Cpu : ap_read(c) \/ ap_start(c)

MpeNext == MpeBoot \/ \E c \in Cpu : ioe_init(c) \/ do_io(c) \/ __am_ioe_init(c)

(* Every process runs; main calls mpe_init.                                *)
MpeSpec == /\ MpeInit /\ [][MpeNext]_mpeVars
           /\ WF_mpeVars(MpeBoot)
           /\ \A c \in Cpu : WF_mpeVars(__am_ioe_init(c))

-----------------------------------------------------------------------------
Place == {"none", "main", "fork", "ioe", "write", "read", "released", "entry"}

(* Ranges of the variables.                                                *)
MpeTypeOK == /\ at \in [Cpu -> Place]
             /\ i \in 0..NCpu /\ pipe \in Nat
             /\ cpuid \in [Cpu -> Cpu]
             /\ has_ioe \in BOOLEAN /\ ioe_init_done \in BOOLEAN
             /\ initing \subseteq Cpu
             /\ halted \in BOOLEAN /\ asked \in BOOLEAN
             /\ inits \in [Cpu -> Nat]

(* Where main asked for the devices before mpe_init, the boot processor    *)
(* has initialised them when the first processor enters the program, and   *)
(* nobody initialises them from then on.                                   *)
DevicesFirst == asked /\ (\E c \in Cpu : at[c] = "entry") => ioe_init_done /\ initing = {}

(* The processors in the program have different numbers.                   *)
DistinctCpus == \A c, d \in Cpu : at[c] = "entry" /\ at[d] = "entry" /\ c # d
                                      => cpu_current(c) # cpu_current(d)

(* When the boot processor enters the program, the pipe holds one byte for *)
(* each process that still waits for one: nobody is left behind, and no    *)
(* byte is left over.                                                      *)
Waiting    == {c \in Cpu : at[c] = "read"}
BytesMatch == at[0] = "entry" => pipe = Cardinality(Waiting)

(* The devices are initialised once, and by one processor: ioe_init calls  *)
(* it "double-initialization" and panics when they are already.            *)
DevicesOnce == /\ \A c \in Cpu : inits[c] <= 1
               /\ \A c, d \in Cpu : inits[c] > 0 /\ inits[d] > 0 => c = d

(* Every processor enters the program, unless a misplaced ioe_init panics. *)
AllEnter == <>(halted \/ \A c \in Cpu : at[c] = "entry")
=============================================================================
