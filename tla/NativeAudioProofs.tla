-------------------------- MODULE NativeAudioProofs -------------------------
(***************************************************************************)
(* Proofs about the audio of the native machine.  WaitPlaysAll fails, as a *)
(* run shows; here it is shown to fail through one thing only, an update   *)
(* of count by one thread between the other's load and store of it.        *)
(***************************************************************************)
EXTENDS NativeAudio, TLAPS

\* What the sizes are.
Sizes == Chunk \in Nat /\ Asked \in Nat

\* The two read-modify-writes of count are not under way together.
Apart == ~(main = "store" /\ play = "store")

\* A read that a callback still has to make finds all that it asks for.
ReadsWhole == play = "read" /\ b < nread => pipe >= nread

\* Written and not yet counted; taken out and still counted.
Uncounted == IF main \in {"load", "store"} THEN n ELSE 0
Taken     == IF play \in {"read", "store"} THEN b ELSE 0

AudioTypes ==
    /\ pipe \in Nat /\ count \in Nat /\ n \in Nat /\ seen \in Nat
    /\ nread \in Nat /\ b \in Nat /\ held \in Nat /\ opened \in BOOLEAN
    /\ main \in {"ctrl", "write", "load", "store", "wait", "done"}
    /\ play \in {"idle", "cap", "read", "store"}

AudioInv ==
    /\ AudioTypes
    /\ main = "ctrl" => ~opened /\ play = "idle" /\ pipe = 0
    /\ count + Uncounted = pipe + Taken
    /\ main = "store" => seen = count
    /\ play \in {"read", "store"} => nread <= count /\ b \in {0, nread}
    /\ play = "cap" => b = 0
    /\ play = "store" => held = count /\ b = nread
    /\ main = "done" => pipe = 0

(* The program's steps.                                                    *)
LEMMA MainKeeps ==
    ASSUME Sizes, AudioInv, Apart,
           am_audio_ctrl \/ audio_write \/ write_load \/ write_store \/ audio_status
    PROVE  AudioInv'
<1> USE DEF Sizes, AudioInv, AudioTypes, Uncounted, Taken, playVars
<1>1. CASE am_audio_ctrl
  BY <1>1 DEF am_audio_ctrl
<1>2. CASE audio_write
  <2>1. n' \in Nat
    BY <1>2 DEF audio_write
  <2> QED BY <1>2, <2>1 DEF audio_write
<1>3. CASE write_load
  BY <1>3 DEF write_load
<1>4. CASE write_store
  <2>1. count' = count + n /\ play # "store" /\ main' \in {"write", "wait"}
    BY <1>4 DEF write_store, Apart
  <2> QED BY <1>4, <2>1 DEF write_store
<1>5. CASE audio_status
  BY <1>5 DEF audio_status
<1> QED BY <1>1, <1>2, <1>3, <1>4, <1>5

(* The callback's steps.                                                   *)
LEMMA PlayKeeps ==
    ASSUME Sizes, AudioInv, Apart,
           audio_play \/ play_cap \/ play_read \/ play_load \/ play_store
    PROVE  AudioInv'
<1> USE DEF Sizes, AudioInv, AudioTypes, Uncounted, Taken, mainVars
<1>1. CASE audio_play
  BY <1>1 DEF audio_play
<1>2. CASE play_cap
  BY <1>2 DEF play_cap
<1>3. CASE play_read
  <2>1. b = 0 /\ nread <= pipe
    BY <1>3 DEF play_read
  <2>2. b' = nread /\ pipe' = pipe - nread
    BY <1>3, <2>1 DEF play_read
  <2> QED BY <1>3, <2>1, <2>2 DEF play_read
<1>4. CASE play_load
  BY <1>4 DEF play_load
<1>5. CASE play_store
  <2>1. count' = count - nread /\ main # "store"
    BY <1>5 DEF play_store, Apart
  <2> QED BY <1>5, <2>1 DEF play_store
<1> QED BY <1>1, <1>2, <1>3, <1>4, <1>5

LEMMA AudioInvariant == ASSUME Sizes PROVE Spec /\ []Apart => []AudioInv
<1>1. Init => AudioInv
  <2>1. Init => ~opened /\ opened \in BOOLEAN
    BY DEF Init
  <2> QED BY <2>1 DEF Init, AudioInv, AudioTypes, Uncounted, Taken
<1>2. AudioInv /\ Apart /\ [Next]_vars => AudioInv'
  <2>1. ASSUME AudioInv, UNCHANGED vars PROVE AudioInv'
    BY <2>1 DEF vars, mainVars, playVars, AudioInv, AudioTypes, Uncounted, Taken
  <2> QED BY <2>1, MainKeeps, PlayKeeps DEF Next
<1> QED BY <1>1, <1>2, PTL DEF Spec

(* Where the two updates of count never overlap, the program that waits    *)
(* for count to be 0 ends with nothing left in the pipe.                   *)
THEOREM AudioWaitPlaysAll == ASSUME Sizes PROVE Spec /\ []Apart => []WaitPlaysAll
<1>1. AudioInv => WaitPlaysAll
  BY DEF AudioInv, WaitPlaysAll
<1> QED BY <1>1, AudioInvariant, PTL

(* And a callback never waits in its loop for samples that are not there.  *)
THEOREM AudioReadsWhole == ASSUME Sizes PROVE Spec /\ []Apart => []ReadsWhole
<1>1. AudioInv => ReadsWhole
  BY DEF AudioInv, AudioTypes, ReadsWhole, Uncounted, Taken
<1> QED BY <1>1, AudioInvariant, PTL
-----------------------------------------------------------------------------
\* The program counts a write between the callback's two readings of count.
CountsBetween == play = "cap" /\ write_store

ReadsAsked == play = "read" => nread <= Asked

AskedInv == /\ Asked \in Nat /\ n \in Nat /\ count \in Int
            /\ seen \in Int /\ held \in Int /\ nread \in Int
            /\ play = "cap" => count < Asked
            /\ ReadsAsked
            /\ main = "ctrl" => play = "idle" /\ ~opened

(* A callback takes at most what it was asked for, unless the program      *)
(* counts a write between the two readings of count by which it caps it.   *)
THEOREM AudioReadsAsked ==
    ASSUME Sizes PROVE Spec /\ [][~CountsBetween]_vars => []ReadsAsked
<1>1. Init => AskedInv
  <2>1. Init => ~opened
    BY DEF Init
  <2> QED BY <2>1 DEF Init, Sizes, AskedInv, ReadsAsked
<1>2. AskedInv /\ [Next]_vars /\ [~CountsBetween]_vars => AskedInv'
  <2> SUFFICES ASSUME AskedInv, Next, ~CountsBetween PROVE AskedInv'
    BY DEF AskedInv, ReadsAsked, vars, mainVars, playVars
  <2> USE DEF AskedInv, ReadsAsked, mainVars, playVars
  <2>1. CASE am_audio_ctrl
    BY <2>1 DEF am_audio_ctrl
  <2>2. CASE audio_write
    <3>1. n' \in Nat
      BY <2>2 DEF audio_write, Sizes
    <3> QED BY <2>2, <3>1 DEF audio_write
  <2>3. CASE write_load \/ audio_status
    BY <2>3 DEF write_load, audio_status
  <2>4. CASE write_store
    <3>1. play # "cap" /\ count' = seen + n /\ main' \in {"wait", "write"}
      BY <2>4 DEF write_store, CountsBetween
    <3> QED BY <2>4, <3>1 DEF write_store
  <2>5. CASE audio_play
    BY <2>5 DEF audio_play
  <2>6. CASE play_cap
    BY <2>6 DEF play_cap
  <2>7. CASE play_read \/ play_load
    BY <2>7 DEF play_read, play_load
  <2>8. CASE play_store
    BY <2>8 DEF play_store
  <2> QED BY <2>1, <2>2, <2>3, <2>4, <2>5, <2>6, <2>7, <2>8 DEF Next
<1>3. AskedInv => ReadsAsked
  BY DEF AskedInv
<1> QED BY <1>1, <1>2, <1>3, PTL DEF Spec
=============================================================================
