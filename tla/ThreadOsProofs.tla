--------------------------- MODULE ThreadOsProofs ---------------------------
(***************************************************************************)
(* Proofs about the processors of the native machine and thread-os on      *)
(* them, for every number of processors and tasks.  The processors start   *)
(* one after the other and have their own numbers.  The tasks are pinned   *)
(* to those, so no stack is shared; so a task is always where it was; so   *)
(* the lock excludes, and the tasks behave as LockedTasks says.            *)
(***************************************************************************)
EXTENDS ThreadOs, FiniteSetTheorems, TLAPS

-----------------------------------------------------------------------------
(* The start of the processors: NativeMpe.                                 *)
\* Before the boot processor's turn to write, nobody else has been let go.
Early == {"main", "fork", "ioe"}

MpeInv == /\ MpeTypeOK
          /\ at[0] \in Early \cup {"write", "entry"}
          /\ at[0] \in Early => pipe = 0
          /\ at[0] \in {"fork", "ioe", "write"} => i > 0
          /\ cpuid[0] = 0
          /\ \A c \in Cpu : /\ c # 0 => at[c] \in {"none", "read", "released", "entry"}
                            /\ at[0] \in Early => at[c] \notin {"released", "entry"}
                            /\ at[c] = "entry" => cpuid[c] = c

(* The boot processor is one of them.                                      *)
LEMMA ZeroIsCpu == 0 \in Cpu
  BY CpuAssumption, SMT DEF Cpu

(* Starting the processors keeps the invariant.                            *)
LEMMA MpeBootKeeps == ASSUME MpeInv, MpeBoot PROVE MpeInv'
<1> USE ZeroIsCpu, CpuAssumption DEF MpeInv, MpeTypeOK, Place, Early, ioeVars
<1>1. CASE mpe_init
  BY <1>1 DEF mpe_init
<1>2. CASE mpe_init_fork
  <2>1. CASE i < NCpu
    <3>1. i \in Cpu /\ i # 0
      BY <1>2, <2>1 DEF mpe_init_fork, Cpu
    <3>2. at' = [at EXCEPT ![i] = "read"] /\ i' = i + 1 /\ UNCHANGED <<pipe, cpuid, ioeVars>>
      BY <1>2, <2>1 DEF mpe_init_fork, More
    <3>3. MpeTypeOK'
      BY <2>1, <3>1, <3>2
    <3> QED BY <1>2, <3>1, <3>2, <3>3 DEF mpe_init_fork
  <2>2. CASE ~(i < NCpu)
    BY <1>2, <2>2 DEF mpe_init_fork, More
  <2> QED BY <2>1, <2>2
<1>3. CASE mpe_init_ioe
  BY <1>3 DEF mpe_init_ioe, Initialises
<1>4. CASE mpe_init_write
  BY <1>4 DEF mpe_init_write, ReleaseAt, More
<1>5. ASSUME NEW c \in Cpu, ap_read(c) PROVE MpeInv'
  BY <1>5 DEF ap_read
<1>6. ASSUME NEW c \in Cpu, ap_start(c) PROVE MpeInv'
  BY <1>6 DEF ap_start, SetsCpuid
<1> QED BY <1>1, <1>2, <1>3, <1>4, <1>5, <1>6 DEF MpeBoot

(* So does the initial state.                                              *)
LEMMA MpeStarts == MpeInit => MpeInv
<1> SUFFICES ASSUME MpeInit PROVE MpeInv
  OBVIOUS
<1> USE ZeroIsCpu
<1>1. at[0] = "main" /\ \A c \in Cpu : at[c] \in {"main", "none"} /\ (c # 0 => at[c] = "none")
  BY DEF MpeInit
<1>2. i \in 0..NCpu /\ pipe \in Nat /\ pipe = 0
  BY CpuAssumption DEF MpeInit
<1>3. at \in [Cpu -> Place] /\ cpuid \in [Cpu -> Cpu] /\ cpuid[0] = 0
  BY DEF MpeInit, Place
<1>4. /\ has_ioe \in BOOLEAN /\ ioe_init_done \in BOOLEAN /\ initing \subseteq Cpu
      /\ halted \in BOOLEAN /\ asked \in BOOLEAN /\ inits \in [Cpu -> Nat]
  BY DEF MpeInit
<1> QED BY <1>1, <1>2, <1>3, <1>4 DEF MpeInv, MpeTypeOK, Early

(* The invariant is inductive.                                             *)
LEMMA MpeInvInductive == MpeSpec => []MpeInv
<1>1. MpeInv /\ [MpeNext]_mpeVars => MpeInv'
  <2> SUFFICES ASSUME MpeInv, [MpeNext]_mpeVars PROVE MpeInv'
    OBVIOUS
  <2>1. CASE MpeBoot
    BY <2>1, MpeBootKeeps
  <2>2. ASSUME NEW c \in Cpu, ioe_init(c) PROVE MpeInv'
    BY <2>2 DEF ioe_init, bootVars, MpeInv, MpeTypeOK
  <2>3. ASSUME NEW c \in Cpu, do_io(c) PROVE MpeInv'
    BY <2>3 DEF do_io, Initialises, bootVars, MpeInv, MpeTypeOK
  <2>4. ASSUME NEW c \in Cpu, __am_ioe_init(c) PROVE MpeInv'
    BY <2>4 DEF __am_ioe_init, bootVars, MpeInv, MpeTypeOK
  <2>5. CASE UNCHANGED mpeVars
    BY <2>5 DEF mpeVars, bootVars, ioeVars, MpeInv, MpeTypeOK
  <2> QED BY <2>1, <2>2, <2>3, <2>4, <2>5 DEF MpeNext
<1> QED BY MpeStarts, <1>1, PTL DEF MpeSpec

(* mpe_init keeps its variables in range, for every number of processors.  *)
THEOREM MpeTypeCorrect == MpeSpec => []MpeTypeOK
<1>1. MpeInv => MpeTypeOK
  BY DEF MpeInv
<1> QED BY <1>1, MpeInvInductive, PTL

(* Processors that have entered the program have different numbers.        *)
THEOREM MpeDistinctCpus == MpeSpec => []DistinctCpus
<1>1. MpeInv => DistinctCpus
  BY DEF MpeInv, DistinctCpus, cpu_current
<1> QED BY <1>1, MpeInvInductive, PTL
-----------------------------------------------------------------------------
(* The bytes in the pipe.  While the boot processor writes, those it still *)
(* has to write are counted with those that are there.                     *)
BytesInv ==
    /\ at[0] = "main" => \A c \in Cpu \ {0} : at[c] = "none"
    /\ at[0] = "fork" => \A c \in Cpu \ {0} : at[c] = IF c < i THEN "read" ELSE "none"
    /\ at[0] = "ioe" => i = 1 /\ \A c \in Cpu \ {0} : at[c] = "read"
    /\ at[0] = "write" => pipe + NCpu = Cardinality(Waiting) + i
    /\ BytesMatch

LEMMA WaitingFinite == IsFiniteSet(Waiting) /\ Cardinality(Waiting) \in Nat
<1>1. IsFiniteSet(Cpu)
  BY CpuAssumption, FS_Interval DEF Cpu
<1>2. IsFiniteSet(Waiting)
  BY <1>1, FS_Subset DEF Waiting
<1> QED BY <1>2, FS_CardinalityType

(* A read takes one byte and one waiting process.                          *)
LEMMA ReadTakes ==
    ASSUME MpeInv, NEW c \in Cpu, ap_read(c)
    PROVE  Cardinality(Waiting') = Cardinality(Waiting) - 1 /\ pipe' = pipe - 1
<1>1. Waiting' = Waiting \ {c} /\ c \in Waiting
  BY DEF ap_read, Waiting, MpeInv, MpeTypeOK
<1>2. Cardinality(Waiting \ {c}) = Cardinality(Waiting) - 1
  BY <1>1, WaitingFinite, FS_RemoveElement
<1> QED BY <1>1, <1>2 DEF ap_read

LEMMA BytesKept == ASSUME MpeInv, BytesInv, MpeBoot PROVE BytesInv'
<1> USE ZeroIsCpu, CpuAssumption DEF MpeInv, MpeTypeOK, Early
<1>1. CASE mpe_init
  BY <1>1 DEF mpe_init, BytesInv, BytesMatch, Cpu
<1>2. CASE mpe_init_fork
  <2>1. CASE More
    <3>1. /\ at' = [at EXCEPT ![i] = "read"] /\ i' = i + 1 /\ at[0] = "fork"
          /\ i \in Cpu /\ i # 0
      BY <1>2, <2>1 DEF mpe_init_fork, More, Cpu
    <3>2. at'[0] = "fork"
      BY <3>1
    <3>3. \A c \in Cpu \ {0} : at'[c] = IF c < i + 1 THEN "read" ELSE "none"
      BY <3>1 DEF BytesInv, Cpu
    <3> QED BY <3>1, <3>2, <3>3 DEF BytesInv, BytesMatch
  <2>2. CASE ~More
    <3>1. at[0] = "fork" /\ at' = [at EXCEPT ![0] = "ioe"] /\ i' = 1
      BY <1>2, <2>2 DEF mpe_init_fork
    <3>2. \A c \in Cpu \ {0} : c < i
      BY <2>2 DEF More, Cpu
    <3> QED BY <3>1, <3>2 DEF BytesInv, BytesMatch
  <2> QED BY <2>1, <2>2
<1>3. CASE mpe_init_ioe
  <2>1. at[0] = "ioe" /\ at' = [at EXCEPT ![0] = "write"] /\ i' = 1 /\ pipe' = 0
    BY <1>3 DEF mpe_init_ioe, BytesInv
  <2>2. Waiting' = Cpu \ {0}
    BY <2>1 DEF Waiting, BytesInv
  <2>3. Cpu \ {0} = 1..(NCpu - 1)
    BY DEF Cpu
  <2>4. Cardinality(1..(NCpu - 1)) = NCpu - 1
    BY FS_Interval
  <2>5. Cardinality(Waiting') = NCpu - 1
    BY <2>2, <2>3, <2>4
  <2>6. pipe' + NCpu = Cardinality(Waiting') + i' /\ at'[0] = "write"
    BY <2>1, <2>5
  <2> QED BY <2>6 DEF BytesInv, BytesMatch
<1>4. CASE mpe_init_write
  <2>1. at[0] = "write" /\ pipe + NCpu = Cardinality(Waiting) + i
    BY <1>4 DEF mpe_init_write, ReleaseAt, BytesInv
  <2>2. CASE More
    <3>1. pipe' = pipe + 1 /\ i' = i + 1 /\ at' = at
      BY <1>4, <2>1, <2>2 DEF mpe_init_write
    <3>2. Waiting' = Waiting
      BY <3>1 DEF Waiting
    <3> QED BY <2>1, <3>1, <3>2, WaitingFinite DEF BytesInv, BytesMatch
  <2>3. CASE ~More
    <3>1. i = NCpu /\ at' = [at EXCEPT ![0] = "entry"] /\ pipe' = pipe
      BY <1>4, <2>1, <2>3 DEF mpe_init_write, More
    <3>2. Waiting' = Waiting
      BY <2>1, <3>1 DEF Waiting
    <3> QED BY <2>1, <3>1, <3>2, WaitingFinite DEF BytesInv, BytesMatch
  <2> QED BY <2>2, <2>3
<1>5. ASSUME NEW c \in Cpu, ap_read(c) PROVE BytesInv'
  <2>1. at'[0] = at[0] /\ at[0] \notin Early /\ i' = i
    BY <1>5 DEF ap_read
  <2> QED BY <1>5, <2>1, ReadTakes, WaitingFinite DEF BytesInv, BytesMatch
<1>6. ASSUME NEW c \in Cpu, ap_start(c) PROVE BytesInv'
  <2>1. /\ at[c] = "released" /\ at' = [at EXCEPT ![c] = "entry"] /\ UNCHANGED <<i, pipe>>
        /\ c # 0
    BY <1>6 DEF ap_start
  <2>2. Waiting' = Waiting /\ at[0] \notin Early /\ at'[0] = at[0]
    BY <2>1 DEF Waiting
  <2> QED BY <2>1, <2>2 DEF BytesInv, BytesMatch
<1> QED BY <1>1, <1>2, <1>3, <1>4, <1>5, <1>6 DEF MpeBoot

LEMMA BytesInvariant == MpeSpec => []BytesInv
<1>1. MpeInit => BytesInv
  BY ZeroIsCpu DEF MpeInit, BytesInv, BytesMatch
<1>2. MpeInv /\ BytesInv /\ [MpeNext]_mpeVars => BytesInv'
  <2> SUFFICES ASSUME MpeInv, BytesInv, [MpeNext]_mpeVars PROVE BytesInv'
    OBVIOUS
  <2>1. CASE MpeBoot
    BY <2>1, BytesKept
  <2>2. CASE UNCHANGED bootVars
    BY <2>2 DEF bootVars, BytesInv, BytesMatch, Waiting
  <2> QED BY <2>1, <2>2 DEF MpeNext, ioe_init, do_io, __am_ioe_init, mpeVars
<1> QED BY <1>1, <1>2, MpeInvInductive, PTL DEF MpeSpec

(* Every process that waits has its byte, for every number of processors.  *)
THEOREM MpeBytesMatch == MpeSpec => []BytesMatch
<1>1. BytesInv => BytesMatch
  BY DEF BytesInv
<1> QED BY <1>1, BytesInvariant, PTL

-----------------------------------------------------------------------------
(* The devices: who initialises them, and how often.                       *)

\* If main has asked for the devices, then from mpe_init's test of that on
\* the boot processor is at them alone and everyone else waits, or they are
\* done for good.
AtWork  == /\ initing = {0} /\ at[0] = "write" /\ pipe = 0
           /\ \A c \in Cpu : at[c] \notin {"released", "entry"}
Ready   == initing = {} /\ ioe_init_done
Devices == /\ at[0] \in Early => ~asked /\ initing \subseteq {0}
           /\ at[0] \in {"fork", "ioe"} => initing = {}
           /\ asked => AtWork \/ Ready

(* The start of the processors keeps that.                                 *)
LEMMA DevicesBoot == ASSUME MpeInv, Devices, MpeBoot PROVE Devices'
<1> USE ZeroIsCpu, CpuAssumption DEF MpeInv, MpeTypeOK, Early, Devices, AtWork, Ready, ioeVars
<1>1. CASE mpe_init
  BY <1>1 DEF mpe_init
<1>2. CASE mpe_init_fork
  BY <1>2 DEF mpe_init_fork
<1>3. CASE mpe_init_ioe
  <2>1. at[0] = "ioe" /\ at' = [at EXCEPT ![0] = "write"] /\ pipe' = pipe /\ asked' = has_ioe
    BY <1>3 DEF mpe_init_ioe
  <2>2. \A c \in Cpu : at'[c] \notin {"released", "entry"}
    BY <2>1
  <2>3. CASE has_ioe
    BY <1>3, <2>1, <2>2, <2>3 DEF mpe_init_ioe, Initialises
  <2>4. CASE ~has_ioe
    BY <2>1, <2>4
  <2> QED BY <2>3, <2>4
<1>4. CASE mpe_init_write
  BY <1>4 DEF mpe_init_write, ReleaseAt
<1>5. ASSUME NEW c \in Cpu, ap_read(c) PROVE Devices'
  BY <1>5 DEF ap_read
<1>6. ASSUME NEW c \in Cpu, ap_start(c) PROVE Devices'
  BY <1>6 DEF ap_start
<1> QED BY <1>1, <1>2, <1>3, <1>4, <1>5, <1>6 DEF MpeBoot

(* Who begins to initialise lazily is in main, or main has not asked.      *)
LEMMA LazyBegins ==
    ASSUME MpeInv, Devices, NEW c \in Cpu, do_io(c)
    PROVE  ~asked /\ (at[0] \in Early => at[0] = "main" /\ c = 0)
<1>1. ~asked
  BY DEF do_io, Calls, Devices, AtWork, Ready, MpeInv, MpeTypeOK
<1>2. at[0] \in Early => at[0] = "main" /\ c = 0
  BY ZeroIsCpu DEF do_io, Calls, MpeInv, Early
<1> QED BY <1>1, <1>2

LEMMA DevicesInductive == MpeSpec => []Devices
<1>1. MpeInit => Devices
  BY ZeroIsCpu DEF MpeInit, Devices, AtWork, Ready, Early
<1>2. MpeInv /\ Devices /\ [MpeNext]_mpeVars => Devices'
  <2> SUFFICES ASSUME MpeInv, Devices, [MpeNext]_mpeVars PROVE Devices'
    OBVIOUS
  <2>1. CASE MpeBoot
    BY <2>1, DevicesBoot
  <2>2. ASSUME NEW c \in Cpu, ioe_init(c) PROVE Devices'
    BY <2>2 DEF ioe_init, bootVars, Devices, AtWork, Ready
  <2>3. ASSUME NEW c \in Cpu, do_io(c) PROVE Devices'
    <3>1. ~asked' /\ UNCHANGED bootVars /\ initing' = initing \cup {c}
      BY <2>3, LazyBegins DEF do_io, Initialises
    <3> QED BY <2>3, <3>1, LazyBegins DEF bootVars, Devices, Early
  <2>4. ASSUME NEW c \in Cpu, __am_ioe_init(c) PROVE Devices'
    BY <2>4 DEF __am_ioe_init, bootVars, Devices, AtWork, Ready
  <2>5. CASE UNCHANGED mpeVars
    BY <2>5 DEF mpeVars, bootVars, ioeVars, Devices, AtWork, Ready
  <2> QED BY <2>1, <2>2, <2>3, <2>4, <2>5 DEF MpeNext
<1> QED BY <1>1, <1>2, MpeInvInductive, PTL DEF MpeSpec

(* No processor enters the program before its devices are initialised, and *)
(* after that nobody initialises them, if main asked for them.             *)
THEOREM MpeDevicesFirst == MpeSpec => []DevicesFirst
<1>1. Devices => DevicesFirst
  BY DEF Devices, AtWork, Ready, DevicesFirst
<1> QED BY <1>1, DevicesInductive, PTL

-----------------------------------------------------------------------------
\* An initialisation that was begun shows, in the flag or in its process.
BoundInv == /\ \A c \in Cpu : inits[c] <= IF c = 0 /\ asked THEN 2 ELSE 1
            /\ \A c \in Cpu : inits[c] > 0 => c \in initing \/ ioe_init_done

LEMMA BoundKept ==
    ASSUME MpeInv, Devices, BoundInv, [MpeNext]_mpeVars
    PROVE  BoundInv'
<1> USE ZeroIsCpu DEF MpeInv, MpeTypeOK, BoundInv
<1>1. CASE mpe_init_ioe
  <2>1. ~asked /\ asked' = has_ioe /\ ioe_init_done' = ioe_init_done
    BY <1>1 DEF mpe_init_ioe, Devices, Early
  <2>2. CASE has_ioe
    <3>1. initing' = initing \cup {0} /\ inits' = [inits EXCEPT ![0] = @ + 1]
      BY <1>1, <2>2 DEF mpe_init_ioe, Initialises
    <3> QED BY <2>1, <2>2, <3>1
  <2>3. CASE ~has_ioe
    BY <1>1, <2>1, <2>3 DEF mpe_init_ioe
  <2> QED BY <2>2, <2>3
<1>2. ASSUME NEW c \in Cpu, do_io(c) PROVE BoundInv'
  <2>1. inits[c] = 0
    BY <1>2 DEF do_io, Calls
  <2>2. /\ initing' = initing \cup {c} /\ inits' = [inits EXCEPT ![c] = @ + 1]
        /\ UNCHANGED <<ioe_init_done, asked>>
    BY <1>2 DEF do_io, Initialises
  <2> QED BY <2>1, <2>2
<1>3. ASSUME NEW c \in Cpu, __am_ioe_init(c) PROVE BoundInv'
  BY <1>3 DEF __am_ioe_init
<1>4. CASE UNCHANGED <<ioe_init_done, initing, asked, inits>>
  BY <1>4
<1> QED BY <1>1, <1>2, <1>3, <1>4
        DEF MpeNext, MpeBoot, mpe_init, mpe_init_fork, mpe_init_write, ap_read, ap_start,
            ioe_init, mpeVars, ioeVars

(* However the program races: no processor initialises the devices more    *)
(* than once, but for the boot processor, which may do so twice if main    *)
(* asked for them before mpe_init.                                         *)
THEOREM MpeDevicesBound == MpeSpec => [](\A c \in Cpu : inits[c] <= IF c = 0 /\ asked THEN 2 ELSE 1)
<1>1. MpeInit => BoundInv
  BY DEF MpeInit, BoundInv
<1>2. BoundInv => \A c \in Cpu : inits[c] <= IF c = 0 /\ asked THEN 2 ELSE 1
  BY DEF BoundInv
<1> QED BY <1>1, <1>2, BoundKept, MpeInvInductive, DevicesInductive, PTL DEF MpeSpec

-----------------------------------------------------------------------------
\* main accesses a device before it calls mpe_init and initialises it so.
LazyInMain == \E c \in Cpu : at[c] = "main" /\ do_io(c)

\* An access begins to initialise while another process is still at it.
Overlaps == \E c \in Cpu : do_io(c) /\ initing # {}

Untouched == \A c \in Cpu : inits[c] = 0
OnlyBy(c) == inits[c] = 1 /\ \A d \in Cpu \ {c} : inits[d] = 0
OnceInv   == /\ at[0] \in Early => Untouched
             /\ \/ Untouched /\ initing = {} /\ ~ioe_init_done
                \/ \E c \in Cpu : /\ OnlyBy(c)
                                  /\ \/ initing = {c}
                                     \/ initing = {} /\ ioe_init_done

LEMMA OnceKept ==
    ASSUME MpeInv, Devices, OnceInv, [MpeNext]_mpeVars, ~LazyInMain, ~Overlaps
    PROVE  OnceInv'
<1> USE ZeroIsCpu DEF MpeInv, MpeTypeOK, OnceInv
<1>1. CASE mpe_init_ioe
  <2>1. Untouched /\ initing = {} /\ ~ioe_init_done /\ at'[0] \notin Early /\ UNCHANGED ioe_init_done
    BY <1>1 DEF mpe_init_ioe, Early, Untouched, OnlyBy
  <2>2. CASE has_ioe
    <3>1. initing' = {0} /\ inits' = [inits EXCEPT ![0] = @ + 1]
      BY <1>1, <2>1, <2>2 DEF mpe_init_ioe, Initialises
    <3>2. OnlyBy(0)'
      BY <2>1, <3>1 DEF Untouched, OnlyBy
    <3> QED BY <2>1, <3>1, <3>2
  <2>3. CASE ~has_ioe
    BY <1>1, <2>1, <2>3 DEF mpe_init_ioe, Untouched
  <2> QED BY <2>2, <2>3
<1>2. ASSUME NEW c \in Cpu, do_io(c) PROVE OnceInv'
  <2>1. initing = {} /\ ~ioe_init_done /\ at[0] \notin Early
    BY <1>2, LazyBegins DEF do_io, LazyInMain, Overlaps
  <2>2. Untouched
    BY <2>1
  <2>3. initing' = {c} /\ inits' = [inits EXCEPT ![c] = @ + 1] /\ at' = at
    BY <1>2, <2>1 DEF do_io, Initialises, bootVars
  <2>4. OnlyBy(c)'
    BY <2>2, <2>3 DEF Untouched, OnlyBy
  <2> QED BY <2>1, <2>3, <2>4
<1>3. ASSUME NEW c \in Cpu, __am_ioe_init(c) PROVE OnceInv'
  BY <1>3 DEF __am_ioe_init, bootVars, Untouched, OnlyBy
<1>4. CASE UNCHANGED <<ioe_init_done, initing, inits>> /\ (at'[0] \in Early => at[0] \in Early)
  BY <1>4 DEF Untouched, OnlyBy
<1> QED BY <1>1, <1>2, <1>3, <1>4
        DEF MpeNext, MpeBoot, mpe_init, mpe_init_fork, mpe_init_write, ReleaseAt, ap_read, ap_start,
            ioe_init, mpeVars, bootVars, ioeVars, Early

(* The only ways to a double initialization are a device that main         *)
(* accesses before it calls mpe_init, and two processors whose first       *)
(* accesses overlap: where neither happens there is none.                  *)
THEOREM MpeDevicesOnce ==
    MpeSpec /\ [][~LazyInMain]_mpeVars /\ [][~Overlaps]_mpeVars => []DevicesOnce
<1>1. MpeInit => OnceInv
  BY DEF MpeInit, OnceInv, Untouched
<1>2. MpeInv /\ Devices /\ OnceInv /\ [MpeNext]_mpeVars /\ [~LazyInMain]_mpeVars /\ [~Overlaps]_mpeVars
        => OnceInv'
  <2>1. OnceInv /\ UNCHANGED mpeVars => OnceInv'
    BY DEF OnceInv, Untouched, OnlyBy, mpeVars, bootVars, ioeVars
  <2> QED BY <2>1, OnceKept
<1>3. OnceInv => DevicesOnce
  BY DEF OnceInv, Untouched, OnlyBy, DevicesOnce
<1> QED BY <1>1, <1>2, <1>3, MpeInvInductive, DevicesInductive, PTL DEF MpeSpec

(* So a program whose main calls ioe_init before mpe_init, and accesses no *)
(* device in between, has its devices initialised once, by whatever        *)
(* processors and in whatever order it accesses them afterwards.           *)
THEOREM MpeAskedOnce ==
    MpeSpec /\ [][~LazyInMain]_mpeVars /\ [][mpe_init_ioe => has_ioe]_mpeVars => []DevicesOnce
<1> DEFINE Asked == at[0] \notin Early => asked
<1>1. MpeInit => Asked
  BY ZeroIsCpu DEF MpeInit, Early
<1>2. MpeInv /\ Devices /\ Asked /\ [MpeNext]_mpeVars /\ [mpe_init_ioe => has_ioe]_mpeVars => Asked'
  <2> SUFFICES ASSUME MpeInv, Asked, [MpeNext]_mpeVars, [mpe_init_ioe => has_ioe]_mpeVars PROVE Asked'
    OBVIOUS
  <2> USE ZeroIsCpu DEF MpeInv, MpeTypeOK, Early
  <2>1. CASE mpe_init_ioe
    BY <2>1 DEF mpe_init_ioe, mpeVars, bootVars
  <2>2. CASE asked' = asked /\ (at'[0] \notin Early => at[0] \notin Early)
    BY <2>2
  <2> QED BY <2>1, <2>2
          DEF MpeNext, MpeBoot, mpe_init, mpe_init_fork, mpe_init_write, ReleaseAt, ap_read, ap_start,
              ioe_init, do_io, __am_ioe_init, mpeVars, bootVars, ioeVars
<1>3. MpeInv /\ Devices /\ Asked /\ [~LazyInMain]_mpeVars => [~Overlaps]_mpeVars
  BY LazyBegins DEF LazyInMain, Overlaps
<1> HIDE DEF Asked
<1> QED BY <1>1, <1>2, <1>3, MpeDevicesOnce, MpeInvInductive, DevicesInductive, PTL DEF MpeSpec
-----------------------------------------------------------------------------
(* The processors and their tasks: ThreadOs.                               *)
Searching == {"advance", "test", "switch"}

\* What holds of one processor: it is on its task's stack, and that task is
\* its own; a handler past save has left the task's context where it will
\* be found.
Local(c) ==
    /\ pc[c] # "iset" => at[c] = "entry"
    /\ pc[c] # "returned"
    /\ pc[c] \in {"iset", "yield"} => currents[c] = NULL /\ stack[c] = Boot
    /\ pc[c] \in Code \cup {"save"} => stack[c] = currents[c]
    /\ pc[c] \in Searching => currents[c] \in Task
    /\ pc[c] = "switch" => Mine(currents[c], c)
    /\ stack[c] \in Task => Mine(stack[c], c)
    /\ pc[c] \in Handler /\ stack[c] \in Task => resume[c] \in Code
    /\ pc[c] \in Searching /\ stack[c] \in Task => context[stack[c]].at = resume[c]

ThreadInv == /\ MpeInv /\ ThreadTypeOK
             /\ \A c \in Cpu : Local(c)
             /\ \A t \in Task : context[t].on = t

(* A processor past iset has its own number.                               *)
LEMMA OwnNumber == ASSUME ThreadInv, NEW c \in Cpu, pc[c] # "iset" PROVE cpu_current(c) = c
  BY DEF ThreadInv, Local, MpeInv, cpu_current

(* Different processors are never on the same task's stack.                *)
LEMMA Pinned == ThreadInv => StackExclusive
<1> SUFFICES ASSUME ThreadInv, NEW c \in Cpu, NEW d \in Cpu, c # d, stack[c] \in Task,
                    stack[d] = stack[c]
             PROVE  FALSE
  BY DEF StackExclusive
<1>1. Mine(stack[c], c) /\ Mine(stack[d], d)
  BY DEF ThreadInv, Local
<1> QED BY <1>1 DEF Mine

(* There are tasks, and NULL is none of them.                              *)
LEMMA TaskFacts == /\ 0 \in Task /\ NULL \notin Task /\ Boot = NULL
                   /\ \A t \in Task : NextOf(t) \in Task
  BY TaskAssumption DEF Task, NULL, Boot, NextOf

(* Starting processors keeps the invariant.                                *)
LEMMA BootKeeps == ASSUME ThreadInv, boot PROVE ThreadInv'
<1>1. MpeInv'
  BY MpeBootKeeps DEF ThreadInv, boot
<1>2. \A c \in Cpu : at[c] = "entry" => at'[c] = "entry"
  <2>1. MpeInv /\ MpeBoot
    BY DEF ThreadInv, boot
  <2> QED BY <2>1, ZeroIsCpu DEF MpeInv, MpeTypeOK, Early, MpeBoot, mpe_init, mpe_init_fork, More, Cpu,
             mpe_init_ioe, mpe_init_write, ReleaseAt, ap_read, ap_start
<1>3. ThreadTypeOK'
  BY <1>1 DEF ThreadInv, ThreadTypeOK, MpeInv, boot, threadVars
<1> QED BY <1>1, <1>2, <1>3 DEF ThreadInv, Local, boot, threadVars

(* An interrupt keeps it.                                                  *)
LEMMA InterruptKeeps ==
    ASSUME ThreadInv, NEW c \in Cpu,
           (pc[c] = "yield" /\ interrupt(c, "returned")) \/ timer(c)
    PROVE  ThreadInv'
<1> USE DEF interrupt, timer, IntrOn, Goes
<1>1. UNCHANGED <<mpeVars, currents, context, locked, stack>> /\ pc' = [pc EXCEPT ![c] = "save"]
  OBVIOUS
<1>2. PICK ret \in Code \cup {"yield", "returned"} :
          /\ resume' = [resume EXCEPT ![c] = ret]
          /\ ret \in Code => pc[c] \in Code
          /\ ret \notin Code => pc[c] = "yield"
  BY DEF Code
<1>3. MpeInv'
  BY <1>1 DEF ThreadInv, MpeInv, MpeTypeOK, mpeVars, bootVars, ioeVars
<1>4. ThreadTypeOK'
  BY <1>1, <1>2, <1>3 DEF ThreadInv, ThreadTypeOK, MpeInv, Handler, Code
<1>5. Local(c)'
  BY <1>1, <1>2, TaskFacts DEF ThreadInv, ThreadTypeOK, Local, mpeVars, bootVars, ioeVars, Code, Handler, Searching
<1>6. \A d \in Cpu \ {c} : Local(d)'
  BY <1>1, <1>2 DEF ThreadInv, ThreadTypeOK, Local, mpeVars, bootVars, ioeVars
<1> QED BY <1>1, <1>3, <1>4, <1>5, <1>6 DEF ThreadInv

(* Saving keeps it: a processor saves only into the task it is on.         *)
LEMMA SaveKeeps == ASSUME ThreadInv, NEW c \in Cpu, save(c) PROVE ThreadInv'
<1>1. cpu_current(c) = c /\ pc[c] = "save" /\ stack[c] = currents[c]
  BY OwnNumber DEF save, ThreadInv, Local
<1>2. UNCHANGED <<mpeVars, locked, stack, resume>> /\ pc' = [pc EXCEPT ![c] = "advance"]
  BY DEF save, Goes
<1>3. MpeInv'
  BY <1>2 DEF ThreadInv, MpeInv, MpeTypeOK, mpeVars, bootVars, ioeVars
<1>4. CASE stack[c] = Boot
  <2>1. currents' = [currents EXCEPT ![c] = 0]
    BY <1>1, <1>4, TaskFacts DEF save
  <2>2. context' = context
    BY <1>1, <1>4, TaskFacts DEF save, SaveTo, ThreadInv, ThreadTypeOK
  <2>3. ThreadTypeOK'
    BY <1>2, <1>3, <2>1, <2>2, TaskFacts DEF ThreadInv, ThreadTypeOK, MpeInv, Handler, Code
  <2>4. Local(c)'
    BY <1>1, <1>2, <1>4, <2>1, <2>2, TaskFacts
       DEF ThreadInv, ThreadTypeOK, Local, mpeVars, bootVars, ioeVars, Code, Handler, Searching
  <2>5. \A d \in Cpu \ {c} : Local(d)'
    BY <1>2, <2>1, <2>2 DEF ThreadInv, ThreadTypeOK, Local, mpeVars, bootVars, ioeVars
  <2> QED BY <1>2, <1>3, <2>2, <2>3, <2>4, <2>5 DEF ThreadInv
<1>5. CASE stack[c] \in Task
  <2>1. currents' = currents
    BY <1>1, <1>5, TaskFacts DEF save
  <2>2. context' = [t \in Task |-> IF t = stack[c] THEN [on |-> stack[c], at |-> resume[c]]
                                   ELSE context[t]]
    BY <1>1 DEF save, SaveTo
  <2>3. resume[c] \in Code
    BY <1>1, <1>5 DEF ThreadInv, Local, Handler
  <2>4. /\ context' \in [Task -> [on : Task, at : Code]]
        /\ \A t \in Task : context'[t].on = t
    BY <1>5, <2>2, <2>3 DEF ThreadInv, ThreadTypeOK
  <2>5. ThreadTypeOK'
    BY <1>2, <1>3, <2>1, <2>4 DEF ThreadInv, ThreadTypeOK, MpeInv, Handler, Code
  <2>6. Local(c)'
    BY <1>1, <1>2, <1>5, <2>1, <2>2, <2>3, TaskFacts
       DEF ThreadInv, ThreadTypeOK, Local, mpeVars, bootVars, ioeVars, Code, Handler, Searching
  <2>7. ASSUME NEW d \in Cpu \ {c} PROVE Local(d)'
    <3>1. stack[d] \in Task => stack[d] # stack[c]
      BY Pinned, <1>5 DEF StackExclusive
    <3>2. stack[d] \in Task => context'[stack[d]] = context[stack[d]]
      BY <2>2, <3>1
    <3> QED BY <1>2, <2>1, <3>2 DEF ThreadInv, ThreadTypeOK, Local, mpeVars, bootVars, ioeVars
  <2> QED BY <1>2, <1>3, <2>4, <2>5, <2>6, <2>7 DEF ThreadInv
<1> QED BY <1>4, <1>5 DEF ThreadInv, ThreadTypeOK

(* The search's step to the next task keeps it.                            *)
LEMMA AdvanceKeeps == ASSUME ThreadInv, NEW c \in Cpu, advance(c) PROVE ThreadInv'
<1>1. cpu_current(c) = c /\ pc[c] = "advance" /\ currents[c] \in Task
  BY OwnNumber DEF advance, ThreadInv, Local, Searching
<1>2. /\ UNCHANGED <<mpeVars, context, locked, stack, resume>>
      /\ pc' = [pc EXCEPT ![c] = "test"]
      /\ currents' = [currents EXCEPT ![c] = NextOf(currents[c])]
  BY <1>1 DEF advance, Goes
<1>3. MpeInv'
  BY <1>2 DEF ThreadInv, MpeInv, MpeTypeOK, mpeVars, bootVars, ioeVars
<1>4. ThreadTypeOK'
  BY <1>1, <1>2, <1>3, TaskFacts DEF ThreadInv, ThreadTypeOK, MpeInv, Handler, Code
<1>5. Local(c)'
  BY <1>1, <1>2, TaskFacts
     DEF ThreadInv, ThreadTypeOK, Local, mpeVars, bootVars, ioeVars, Code, Handler, Searching
<1>6. \A d \in Cpu \ {c} : Local(d)'
  BY <1>2 DEF ThreadInv, ThreadTypeOK, Local, mpeVars, bootVars, ioeVars
<1> QED BY <1>2, <1>3, <1>4, <1>5, <1>6 DEF ThreadInv

(* The search's test keeps it: what it lets through is the processor's own. *)
LEMMA TestKeeps == ASSUME ThreadInv, NEW c \in Cpu, test(c) PROVE ThreadInv'
<1>1. cpu_current(c) = c /\ pc[c] = "test"
  BY OwnNumber DEF test
<1>2. /\ UNCHANGED <<mpeVars, currents, context, locked, stack, resume>>
      /\ pc' = [pc EXCEPT ![c] = IF Mine(currents[c], c) THEN "switch" ELSE "advance"]
  BY <1>1 DEF test, Goes
<1>3. MpeInv'
  BY <1>2 DEF ThreadInv, MpeInv, MpeTypeOK, mpeVars, bootVars, ioeVars
<1>4. ThreadTypeOK'
  BY <1>1, <1>2, <1>3 DEF ThreadInv, ThreadTypeOK, MpeInv, Handler, Code
<1>5. Local(c)'
  BY <1>1, <1>2, TaskFacts
     DEF ThreadInv, ThreadTypeOK, Local, mpeVars, bootVars, ioeVars, Code, Handler, Searching
<1>6. \A d \in Cpu \ {c} : Local(d)'
  BY <1>2 DEF ThreadInv, ThreadTypeOK, Local, mpeVars, bootVars, ioeVars
<1> QED BY <1>2, <1>3, <1>4, <1>5, <1>6 DEF ThreadInv

(* The switch keeps it: the context found is one saved on the task's stack. *)
LEMMA SwitchKeeps == ASSUME ThreadInv, NEW c \in Cpu, switch(c) PROVE ThreadInv'
<1>1. cpu_current(c) = c /\ pc[c] = "switch" /\ currents[c] \in Task /\ Mine(currents[c], c)
  BY OwnNumber DEF switch, ThreadInv, Local, Searching
<1>2. context[currents[c]] \in [on : Task, at : Code] /\ context[currents[c]].on = currents[c]
  BY <1>1 DEF ThreadInv, ThreadTypeOK
<1>3. /\ UNCHANGED <<mpeVars, currents, context, locked, resume>>
      /\ stack' = [stack EXCEPT ![c] = currents[c]]
      /\ pc' = [pc EXCEPT ![c] = context[currents[c]].at]
  BY <1>1, <1>2 DEF switch, Goes
<1>4. MpeInv'
  BY <1>3 DEF ThreadInv, MpeInv, MpeTypeOK, mpeVars, bootVars, ioeVars
<1>5. ThreadTypeOK'
  BY <1>1, <1>2, <1>3, <1>4 DEF ThreadInv, ThreadTypeOK, MpeInv
<1>6. Local(c)'
  BY <1>1, <1>2, <1>3, TaskFacts
     DEF ThreadInv, ThreadTypeOK, Local, mpeVars, bootVars, ioeVars, Code, Handler, Searching
<1>7. \A d \in Cpu \ {c} : Local(d)'
  BY <1>3 DEF ThreadInv, ThreadTypeOK, Local, mpeVars, bootVars, ioeVars
<1> QED BY <1>3, <1>4, <1>5, <1>6, <1>7 DEF ThreadInv

\* The steps of func.
Funcs(c) == lock(c) \/ unlock(c) \/ work(c)

(* func keeps it: it touches neither stacks nor contexts.                  *)
LEMMA FuncKeeps == ASSUME ThreadInv, NEW c \in Cpu, Funcs(c) PROVE ThreadInv'
<1>1. /\ UNCHANGED <<mpeVars, currents, context, stack, resume>>
      /\ pc[c] \in Code /\ locked' \in {0, 1}
  BY DEF Funcs, lock, unlock, work, Code, ThreadInv, ThreadTypeOK
<1>2. PICK to \in Code : pc' = [pc EXCEPT ![c] = to]
  BY DEF Funcs, lock, unlock, work, Goes, Code
<1>3. MpeInv'
  BY <1>1 DEF ThreadInv, MpeInv, MpeTypeOK, mpeVars, bootVars, ioeVars
<1>4. ThreadTypeOK'
  BY <1>1, <1>2, <1>3 DEF ThreadInv, ThreadTypeOK, MpeInv
<1>5. Local(c)'
  BY <1>1, <1>2 DEF ThreadInv, ThreadTypeOK, Local, mpeVars, bootVars, ioeVars, Code, Handler, Searching
<1>6. \A d \in Cpu \ {c} : Local(d)'
  BY <1>1, <1>2 DEF ThreadInv, ThreadTypeOK, Local, mpeVars, bootVars, ioeVars
<1> QED BY <1>1, <1>3, <1>4, <1>5, <1>6 DEF ThreadInv

(* Enabling interrupts keeps it.                                          *)
LEMMA IsetKeeps == ASSUME ThreadInv, iset PROVE ThreadInv'
<1>1. PICK c \in Cpu : /\ pc[c] = "iset" /\ at[c] = "entry"
                       /\ pc' = [pc EXCEPT ![c] = "yield"]
                       /\ UNCHANGED <<mpeVars, currents, context, locked, stack, resume>>
  BY DEF iset, Goes
<1>2. MpeInv'
  BY <1>1 DEF ThreadInv, MpeInv, MpeTypeOK, mpeVars, bootVars, ioeVars
<1>3. ThreadTypeOK'
  BY <1>1, <1>2 DEF ThreadInv, ThreadTypeOK, MpeInv, Code
<1>4. \A d \in Cpu : Local(d)'
  BY <1>1, TaskFacts DEF ThreadInv, ThreadTypeOK, Local, mpeVars, bootVars, ioeVars, Code, Handler, Searching
<1> QED BY <1>1, <1>2, <1>3, <1>4 DEF ThreadInv

(* The invariant is inductive.                                             *)
LEMMA ThreadInvInductive == Spec => []ThreadInv
<1>1. Init => ThreadInv
  <2> SUFFICES ASSUME Init PROVE ThreadInv
    OBVIOUS
  <2>1. MpeInv
    BY MpeStarts DEF Init
  <2>2. ThreadTypeOK
    BY <2>1, TaskFacts DEF Init, ThreadTypeOK, MpeInv, Code
  <2>3. \A c \in Cpu : Local(c)
    BY TaskFacts DEF Init, Local, Code, Handler, Searching
  <2> QED BY <2>1, <2>2, <2>3 DEF Init, ThreadInv
<1>2. ThreadInv /\ [Next]_vars => ThreadInv'
  <2> SUFFICES ASSUME ThreadInv, [Next]_vars PROVE ThreadInv'
    OBVIOUS
  <2>1. CASE boot
    BY <2>1, BootKeeps
  <2>2. CASE iset
    BY <2>2, IsetKeeps
  <2>3. CASE yield
    BY <2>3, InterruptKeeps DEF yield
  <2>4. ASSUME NEW c \in Cpu, on_interrupt(c) PROVE ThreadInv'
    BY <2>4, SaveKeeps, AdvanceKeeps, TestKeeps, SwitchKeeps DEF on_interrupt
  <2>5. ASSUME NEW c \in Cpu, lock(c) \/ unlock(c) \/ work(c) PROVE ThreadInv'
    BY <2>5, FuncKeeps DEF Funcs
  <2>6. ASSUME NEW c \in Cpu, timer(c) PROVE ThreadInv'
    BY <2>6, InterruptKeeps
  <2>7. CASE UNCHANGED vars
    BY <2>7 DEF vars, threadVars, mpeVars, bootVars, ioeVars, ThreadInv, ThreadTypeOK, MpeInv, MpeTypeOK, Local
  <2> QED BY <2>1, <2>2, <2>3, <2>4, <2>5, <2>6, <2>7 DEF Next
<1> QED BY <1>1, <1>2, PTL DEF Spec

(* Every variable stays in range; no boot stack becomes a task's context.  *)
THEOREM ThreadTypeCorrect == Spec => []ThreadTypeOK
<1>1. ThreadInv => ThreadTypeOK
  BY DEF ThreadInv
<1> QED BY <1>1, ThreadInvInductive, PTL

(* No two processors ever use the same task's stack.                       *)
THEOREM ThreadStacksExclusive == Spec => []StackExclusive
<1> QED BY Pinned, ThreadInvInductive, PTL

(* No processor ever comes back to mp_entry.                               *)
THEOREM ThreadEntryNeverReturns == Spec => []EntryNeverReturns
<1>1. ThreadInv => EntryNeverReturns
  BY DEF ThreadInv, Local, EntryNeverReturns
<1> QED BY <1>1, ThreadInvInductive, PTL

-----------------------------------------------------------------------------
(* Where a task is, by the one processor that is on its stack, if one is.  *)
Here(c) == IF pc[c] \in Handler THEN resume[c] ELSE pc[c]
Found   == \A t \in Task :
              /\ \A c \in Cpu : stack[c] = t => Where(t) = Here(c)
              /\ (\A c \in Cpu : stack[c] # t) => Where(t) = context[t].at

LEMMA WhereFound == ThreadInv => Found
<1> SUFFICES ASSUME ThreadInv, NEW t \in Task
             PROVE  /\ \A c \in Cpu : stack[c] = t => Where(t) = Here(c)
                    /\ (\A c \in Cpu : stack[c] # t) => Where(t) = context[t].at
  BY DEF Found
<1>1. ASSUME NEW c \in Cpu, stack[c] = t PROVE Where(t) = Here(c)
  <2>1. \A d \in Cpu : stack[d] = t => d = c
    BY <1>1, Pinned DEF StackExclusive
  <2>2. (CHOOSE d \in Cpu : stack[d] = t) = c
    BY <1>1, <2>1
  <2> QED BY <1>1, <2>2 DEF Where, Here
<1>2. ASSUME \A c \in Cpu : stack[c] # t PROVE Where(t) = context[t].at
  BY <1>2 DEF Where
<1> QED BY <1>1, <1>2

\* No task moves.
Still == \A t \in Task : Where(t)' = Where(t)

(* Only the steps of func move a task: no interrupt, search or switch does. *)
LEMMA OthersStill ==
    ASSUME ThreadInv, Found, Found', [Next]_vars, \A c \in Cpu : ~Funcs(c)
    PROVE  Still /\ UNCHANGED locked
<1> SUFFICES ASSUME NEW t \in Task PROVE Where(t)' = Where(t) /\ UNCHANGED locked
  BY TaskFacts DEF Still
<1>1. ASSUME UNCHANGED <<stack, context, locked>>, \A c \in Cpu : stack[c] \in Task => Here(c)' = Here(c)
      PROVE  Where(t)' = Where(t) /\ UNCHANGED locked
  BY <1>1 DEF Found
<1>2. ASSUME NEW c \in Cpu, (pc[c] = "yield" /\ interrupt(c, "returned")) \/ timer(c)
      PROVE  Where(t)' = Where(t) /\ UNCHANGED locked
  <2>1. stack[c] \in Task => Here(c)' = Here(c)
    BY <1>2, TaskFacts DEF timer, interrupt, Goes, Here, ThreadInv, ThreadTypeOK, Local, IntrOn, Code, Handler
  <2>2. \A d \in Cpu \ {c} : Here(d)' = Here(d)
    BY <1>2 DEF timer, interrupt, Goes, Here, ThreadInv, ThreadTypeOK
  <2> QED BY <1>1, <1>2, <2>1, <2>2 DEF timer, interrupt
<1>3. ASSUME NEW c \in Cpu, save(c) PROVE Where(t)' = Where(t) /\ UNCHANGED locked
  <2>1. cpu_current(c) = c /\ pc[c] = "save" /\ stack[c] = currents[c]
    BY <1>3, OwnNumber DEF save, ThreadInv, Local
  <2>2. \A d \in Cpu : Here(d)' = Here(d)
    BY <1>3 DEF save, Goes, Here, ThreadInv, ThreadTypeOK, Handler
  <2>3. t # stack[c] => context'[t] = context[t]
    BY <1>3, <2>1 DEF save, SaveTo
  <2> QED BY <1>3, <2>2, <2>3 DEF Found, save
<1>4. ASSUME NEW c \in Cpu, advance(c) \/ test(c) PROVE Where(t)' = Where(t) /\ UNCHANGED locked
  <2>1. \A d \in Cpu : Here(d)' = Here(d)
    BY <1>4 DEF advance, test, Goes, Here, ThreadInv, ThreadTypeOK, Handler
  <2> QED BY <1>1, <1>4, <2>1 DEF advance, test
<1>5. ASSUME NEW c \in Cpu, switch(c) PROVE Where(t)' = Where(t) /\ UNCHANGED locked
  <2> DEFINE u == currents[c]
  <2>1. /\ cpu_current(c) = c /\ pc[c] = "switch" /\ u \in Task /\ Mine(u, c)
        /\ stack[c] \in Task => context[stack[c]].at = resume[c]
    BY <1>5, OwnNumber DEF switch, ThreadInv, Local, Searching
  <2>2. context[u] \in [on : Task, at : Code] /\ context[u].on = u
    BY <2>1 DEF ThreadInv, ThreadTypeOK
  <2>3. /\ UNCHANGED <<context, locked, resume>>
        /\ stack' = [stack EXCEPT ![c] = u] /\ pc' = [pc EXCEPT ![c] = context[u].at]
    BY <1>5, <2>1, <2>2 DEF switch, Goes
  <2>4. \A d \in Cpu \ {c} : Here(d)' = Here(d) /\ stack'[d] = stack[d] /\ stack[d] # u
    <3>1. \A d \in Cpu \ {c} : stack[d] # u
      BY <2>1 DEF ThreadInv, Local, Mine
    <3> QED BY <2>3, <3>1 DEF Here, ThreadInv, ThreadTypeOK
  <2>5. stack'[c] = u /\ Here(c)' = context[u].at
    BY <2>2, <2>3 DEF Here, ThreadInv, ThreadTypeOK, Code, Handler
  <2>6. stack[c] \in Task => Here(c) = context[stack[c]].at
    BY <2>1 DEF Here, Handler
  <2>7. CASE t = u
    <3>1. Where(t)' = context[u].at
      BY <2>1, <2>5, <2>7 DEF Found
    <3>2. Where(t) = context[u].at
      BY <2>4, <2>6, <2>7 DEF Found
    <3> QED BY <2>3, <3>1, <3>2
  <2>8. CASE t # u
    <3>1. CASE stack[c] = t
      <4>1. Where(t) = context[t].at
        BY <2>6, <3>1 DEF Found
      <4>2. \A d \in Cpu : stack'[d] # t
        BY <2>4, <2>5, <2>8, <3>1, Pinned DEF StackExclusive
      <4> QED BY <2>3, <4>1, <4>2 DEF Found
    <3>2. CASE stack[c] # t
      <4>1. \A d \in Cpu : stack'[d] = t <=> stack[d] = t
        BY <2>4, <2>5, <2>8, <3>2
      <4> QED BY <2>3, <2>4, <3>2, <4>1 DEF Found
    <3> QED BY <3>1, <3>2
  <2> QED BY <2>7, <2>8
<1>6. CASE iset
  <2>1. PICK c \in Cpu : /\ pc[c] = "iset" /\ pc' = [pc EXCEPT ![c] = "yield"]
                         /\ UNCHANGED <<currents, context, locked, stack, resume>>
    BY <1>6 DEF iset, Goes
  <2>2. stack[c] = Boot
    BY <2>1 DEF ThreadInv, Local
  <2>3. \A d \in Cpu \ {c} : Here(d)' = Here(d)
    BY <2>1 DEF Here, ThreadInv, ThreadTypeOK
  <2> QED BY <1>1, <2>1, <2>2, <2>3, TaskFacts
<1>7. CASE boot \/ UNCHANGED vars
  BY <1>1, <1>7 DEF boot, vars, threadVars, Here
<1>8. CASE yield
  BY <1>2, <1>8 DEF yield
<1>9. ASSUME NEW c \in Cpu, timer(c) PROVE Where(t)' = Where(t) /\ UNCHANGED locked
  BY <1>2, <1>9
<1>10. ASSUME NEW c \in Cpu, on_interrupt(c) PROVE Where(t)' = Where(t) /\ UNCHANGED locked
  BY <1>3, <1>4, <1>5, <1>10 DEF on_interrupt
<1> QED BY <1>6, <1>7, <1>8, <1>9, <1>10 DEF Next, Funcs

\* A task goes through func in order: however it is interrupted, saved and
\* switched, it goes on where it was.
Flow == {<<"lock", "printf">>, <<"printf", "unlock">>, <<"unlock", "delay">>, <<"delay", "lock">>}
InOrder(t)   == Where(t)' # Where(t) => <<Where(t), Where(t)'>> \in Flow
TasksInOrder == [][\A t \in Task : InOrder(t)]_vars

(* A step of func moves one task, along func.                              *)
LEMMA FuncMoves ==
    ASSUME ThreadInv, Found, Found', NEW c \in Cpu, Funcs(c)
    PROVE  \E s \in Task : /\ Where(s) = pc[c] /\ Where(s)' = pc'[c]
                           /\ <<pc[c], pc'[c]>> \in Flow
                           /\ \A t \in Task : t # s => Where(t)' = Where(t)
<1>1. /\ UNCHANGED <<context, stack, resume>> /\ pc[c] \in Code
  BY DEF Funcs, lock, unlock, work, Code
<1>2. PICK to \in Code : pc' = [pc EXCEPT ![c] = to] /\ <<pc[c], to>> \in Flow
  BY DEF Funcs, lock, unlock, work, Goes, Code, Flow
<1>3. pc'[c] = to
  BY <1>2 DEF ThreadInv, ThreadTypeOK
<1>4. Here(c) = pc[c] /\ Here(c)' = pc'[c]
  BY <1>1, <1>2, <1>3 DEF Here, Code, Handler
<1>5. \A d \in Cpu \ {c} : Here(d)' = Here(d)
  BY <1>1, <1>2 DEF Here, ThreadInv, ThreadTypeOK
<1>6. PICK s \in Task : s = stack[c]
  BY <1>1 DEF ThreadInv, ThreadTypeOK
<1>7. Where(s) = pc[c] /\ Where(s)' = pc'[c]
  BY <1>1, <1>4, <1>6 DEF Found
<1>8. ASSUME NEW t \in Task, t # s PROVE Where(t)' = Where(t)
  BY <1>1, <1>5, <1>6, <1>8 DEF Found
<1> QED BY <1>2, <1>3, <1>7, <1>8

(* A task goes on where it was, whatever interrupts it.                    *)
THEOREM ThreadTasksInOrder == Spec => TasksInOrder
<1>1. ThreadInv /\ Found /\ Found' /\ [Next]_vars => [\A t \in Task : InOrder(t)]_vars
  <2> SUFFICES ASSUME ThreadInv, Found, Found', [Next]_vars, NEW t \in Task PROVE InOrder(t)
    OBVIOUS
  <2>1. CASE \A c \in Cpu : ~Funcs(c)
    BY <2>1, OthersStill DEF Still, InOrder
  <2>2. ASSUME NEW c \in Cpu, Funcs(c) PROVE InOrder(t)
    BY <2>2, FuncMoves DEF InOrder
  <2> QED BY <2>1, <2>2
<1> QED BY <1>1, WhereFound, ThreadInvInductive, PTL DEF Spec, TasksInOrder

(* The lock is held while, and only while, one task is in between.         *)
LockExact == locked = 0 <=> \A t \in Task : Where(t) \notin Critical
LockInv   == MutualExclusion /\ LockExact

LEMMA LockInvariant == Spec => []LockInv
<1>1. Init /\ Found => LockInv
  <2> SUFFICES ASSUME Init, Found, NEW t \in Task PROVE Where(t) \notin Critical
    BY DEF Init, LockInv, LockExact, MutualExclusion
  <2>1. \A c \in Cpu : stack[c] # t
    BY TaskFacts DEF Init
  <2> QED BY <2>1 DEF Init, Found, Critical
<1>2. LockInv /\ ThreadInv /\ Found /\ Found' /\ [Next]_vars => LockInv'
  <2> SUFFICES ASSUME LockInv, ThreadInv, Found, Found', [Next]_vars PROVE LockInv'
    OBVIOUS
  <2>1. CASE \A c \in Cpu : ~Funcs(c)
    BY <2>1, OthersStill DEF Still, LockInv, LockExact, MutualExclusion
  <2>2. ASSUME NEW c \in Cpu, Funcs(c) PROVE LockInv'
    <3>1. PICK s \in Task : /\ Where(s) = pc[c] /\ Where(s)' = pc'[c]
                            /\ \A t \in Task : t # s => Where(t)' = Where(t)
      BY <2>2, FuncMoves
    <3>2. CASE lock(c)
      <4>1. locked = 0 /\ locked' = 1
        BY <3>2 DEF lock
      <4>2. \A t \in Task : t # s => Where(t)' \notin Critical
        BY <3>1, <4>1 DEF LockInv, LockExact
      <4>3. Where(s)' \in Critical
        BY <3>1, <3>2 DEF lock, Goes, Critical, ThreadInv, ThreadTypeOK
      <4> QED BY <4>1, <4>2, <4>3 DEF LockInv, LockExact, MutualExclusion
    <3>3. CASE unlock(c)
      <4>1. Where(s) \in Critical /\ Where(s)' \notin Critical
        BY <3>1, <3>3 DEF unlock, Goes, Critical, ThreadInv, ThreadTypeOK
      <4>2. \A t \in Task : Where(t)' \notin Critical
        BY <3>1, <4>1 DEF LockInv, LockExact, MutualExclusion
      <4>3. locked' = 0
        BY <3>3 DEF unlock
      <4> QED BY <4>2, <4>3 DEF LockInv, LockExact, MutualExclusion
    <3>4. CASE work(c)
      <4>1. Where(s)' \in Critical <=> Where(s) \in Critical
        BY <3>1, <3>4 DEF work, Goes, Critical, ThreadInv, ThreadTypeOK
      <4>2. UNCHANGED locked
        BY <3>4 DEF work
      <4>3. \A t \in Task : Where(t)' \in Critical <=> Where(t) \in Critical
        BY <3>1, <4>1
      <4> QED BY <4>2, <4>3 DEF LockInv, LockExact, MutualExclusion
    <3> QED BY <2>2, <3>2, <3>3, <3>4 DEF Funcs
  <2> QED BY <2>1, <2>2
<1> QED BY <1>1, <1>2, WhereFound, ThreadInvInductive, PTL DEF Spec

(* Only one task at a time is between lock and unlock.                     *)
THEOREM ThreadMutualExclusion == Spec => []MutualExclusion
<1>1. LockInv => MutualExclusion
  BY DEF LockInv
<1> QED BY <1>1, LockInvariant, PTL

(* The lock is never left behind: when it is held, a task is inside that   *)
(* will give it back.                                                      *)
THEOREM ThreadLockExact == Spec => []LockExact
<1>1. LockInv => LockExact
  BY DEF LockInv
<1> QED BY <1>1, LockInvariant, PTL

-----------------------------------------------------------------------------
(* The refinement: Goes of the abstract specification, for the task that a *)
(* step of func moves.                                                     *)
LEMMA TaskGoes ==
    ASSUME NEW s \in Task, \A t \in Task : t # s => Where(t)' = Where(t),
           NEW from, NEW to, Where(s) = from, Where(s)' = to
    PROVE  LT!Goes(s, from, to)
<1>1. [t \in Task |-> Where(t)]' = [[t \in Task |-> Where(t)] EXCEPT ![s] = to]
  OBVIOUS
<1> QED BY <1>1 DEF LT!Goes

(* The tasks behave as if there were no processors, interrupts and stacks. *)
THEOREM ThreadImplements == Spec => ImplementsLockedTasks
<1>1. Init /\ Found => LT!Init
  <2> SUFFICES ASSUME Init, Found, NEW t \in Task PROVE Where(t) = "lock"
    BY DEF LT!Init
  <2>1. \A c \in Cpu : stack[c] # t
    BY TaskFacts DEF Init
  <2> QED BY <2>1 DEF Init, Found
<1>2. ThreadInv /\ Found /\ Found' /\ LockInv /\ [Next]_vars
      => [LT!Next]_([t \in Task |-> Where(t)])
  <2> SUFFICES ASSUME ThreadInv, Found, Found', LockInv, [Next]_vars,
                      ~ UNCHANGED [t \in Task |-> Where(t)]
               PROVE  LT!Next
    OBVIOUS
  <2>1. CASE \A c \in Cpu : ~Funcs(c)
    BY <2>1, OthersStill DEF Still
  <2>2. ASSUME NEW c \in Cpu, Funcs(c) PROVE LT!Next
    <3>1. PICK s \in Task : /\ Where(s) = pc[c] /\ Where(s)' = pc'[c]
                            /\ \A t \in Task : t # s => Where(t)' = Where(t)
      BY <2>2, FuncMoves
    <3>2. pc[c] \in Code /\ \A to : Goes(c, to) => pc'[c] = to
      BY <2>2 DEF Funcs, lock, unlock, work, Goes, Code, ThreadInv, ThreadTypeOK
    <3>3. CASE lock(c)
      <4>1. LT!Goes(s, "lock", "printf")
        BY <3>1, <3>2, <3>3, TaskGoes DEF lock
      <4>2. \A u \in Task : Where(u) \notin LT!Inside
        BY <3>3 DEF lock, LockInv, LockExact, Critical, LT!Inside
      <4> QED BY <4>1, <4>2 DEF LT!Next, LT!Lock
    <3>4. CASE unlock(c)
      <4>1. LT!Goes(s, "unlock", "delay")
        BY <3>1, <3>2, <3>4, TaskGoes DEF unlock
      <4> QED BY <4>1 DEF LT!Next, LT!Unlock
    <3>5. CASE work(c)
      <4>1. LT!Goes(s, "printf", "unlock") \/ LT!Goes(s, "delay", "lock")
        BY <3>1, <3>2, <3>5, TaskGoes DEF work
      <4> QED BY <4>1 DEF LT!Next, LT!Printf, LT!Delay
    <3> QED BY <2>2, <3>3, <3>4, <3>5 DEF Funcs
  <2> QED BY <2>1, <2>2
<1> QED BY <1>1, <1>2, WhereFound, LockInvariant, ThreadInvInductive, PTL
        DEF Spec, ImplementsLockedTasks, LT!Spec
-----------------------------------------------------------------------------
(***************************************************************************)
(* The search of on_interrupt.  A processor whose number is a task's comes *)
(* one task nearer to that one with every advance, and the test takes it:  *)
(* the search passes at most NrTask tasks.  A processor with a higher      *)
(* number has no task, and its search never ends.                          *)
(***************************************************************************)
Distance(t, c) == IF t <= c THEN c - t ELSE c - t + NrTask

LEMMA Nearer ==
    ASSUME NEW c \in Task, NEW t \in Task
    PROVE  /\ Distance(t, c) \in 0..(NrTask - 1)
           /\ Distance(t, c) = 0 <=> t = c
           /\ t # c => Distance(NextOf(t), c) = Distance(t, c) - 1
  BY TaskAssumption DEF Task, NextOf, Distance

LEMMA SmallMine ==
    ASSUME NEW c \in Cpu, NEW t \in Task
    PROVE  /\ Mine(c, c)
           /\ c >= NrTask => ~Mine(t, c)
<1>1. \A a \in Cpu : a % NCpu = a
  BY CpuAssumption DEF Cpu
<1>2. c >= NrTask => t \in Cpu /\ t # c
  BY CpuAssumption, TaskAssumption DEF Cpu, Task
<1> QED BY <1>1, <1>2 DEF Mine

\* Between save and switch.
NearerOrThere(c) ==
    /\ advance(c) /\ currents[c] # c
       => Distance(currents[c], c)' = Distance(currents[c], c) - 1
    /\ test(c) /\ currents[c] = c => pc'[c] = "switch"
    /\ Distance(currents[c], c) < NrTask

SearchSteps  == \A c \in Cpu : c < NrTask /\ pc[c] \in Searching => NearerOrThere(c)
SearchEnds   == [][SearchSteps]_vars

(* The search of a processor whose number is a task's ends.                *)
THEOREM ThreadSearchEnds == Spec => SearchEnds
<1>1. ASSUME ThreadInv, NEW c \in Cpu, c < NrTask, pc[c] \in Searching
      PROVE  NearerOrThere(c)
  <2>1. c \in Task /\ currents[c] \in Task /\ cpu_current(c) = c
    <3>1. pc[c] # "iset"
      BY <1>1 DEF Searching
    <3> QED BY <1>1, <3>1, OwnNumber, CpuAssumption, TaskAssumption
            DEF ThreadInv, Local, Cpu, Task
  <2>2. advance(c) => currents'[c] = NextOf(currents[c])
    BY <1>1, <2>1 DEF advance, ThreadInv, ThreadTypeOK
  <2>3. test(c) /\ currents[c] = c => pc'[c] = "switch"
    BY <1>1, <2>1, SmallMine DEF test, Goes, ThreadInv, ThreadTypeOK
  <2>4. advance(c) /\ currents[c] # c
        => Distance(currents[c], c)' = Distance(currents[c], c) - 1
    BY <2>1, <2>2, Nearer DEF Distance
  <2>5. Distance(currents[c], c) < NrTask
    BY <2>1, Nearer, TaskAssumption
  <2> QED BY <2>3, <2>4, <2>5 DEF NearerOrThere
<1>2. ThreadInv => SearchSteps
  BY <1>1 DEF SearchSteps
<1> QED BY <1>2, ThreadInvInductive, PTL DEF SearchEnds

TasklessSearches == \A c \in Cpu : c >= NrTask => pc[c] # "switch" /\ stack[c] = Boot

(* A processor with no task never leaves the search it has once entered:   *)
(* it stays on its boot stack and never gets to a switch.                  *)
THEOREM ThreadSearchEndless == Spec => []TasklessSearches
<1>1. ASSUME ThreadInv, NEW c \in Cpu, c >= NrTask PROVE pc[c] # "switch" /\ stack[c] = Boot
  BY <1>1, SmallMine DEF ThreadInv, ThreadTypeOK, Local, Searching
<1>2. ThreadInv => TasklessSearches
  BY <1>1 DEF TasklessSearches
<1> QED BY <1>2, ThreadInvInductive, PTL
=============================================================================
