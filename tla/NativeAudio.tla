----------------------------- MODULE NativeAudio ----------------------------
(***************************************************************************)
(* am/src/native/ioe/audio.c under am-tests/src/tests/audio.c: the program *)
(* writes its samples to a pipe, SDL's audio thread takes them out in a    *)
(* callback, and count says how many are in between.  count is volatile,   *)
(* not atomic: "count += n" and "count -= nread" read it, and then write.  *)
(*                                                                         *)
(* Only the number of bytes is kept.  A chunk fits PIPE_BUF, so that a     *)
(* write takes all of it or nothing; the capacity of the pipe, the chunks  *)
(* and what SDL asks for are units of one size here.                       *)
(***************************************************************************)
EXTENDS Integers

CONSTANTS Capacity,     \* of the pipe
          Chunk,        \* what the program writes at once, at most Capacity
          Chunks,       \* how often
          Asked         \* len of a callback

VARIABLES pipe, count,
          opened,               \* SDL calls audio_play
          main, left,           \* the program: where it is, chunks to write
          n, seen,              \* audio_write's n, the count it has read
          play, nread, b, held  \* audio_play: where it is, its variables,
                                \* the count it has read

mainVars == <<main, left, n, seen>>
playVars == <<play, nread, b, held>>
vars     == <<pipe, count, opened, mainVars, playVars>>

Init == /\ pipe = 0 /\ count = 0 /\ opened = FALSE
        /\ main = "ctrl" /\ left = Chunks /\ n = 0 /\ seen = 0
        /\ play = "idle" /\ nread = 0 /\ b = 0 /\ held = 0

\* SDL_InitSubSystem may fail; nothing is ever played then.
am_audio_ctrl == /\ main = "ctrl"
                 /\ count' = 0
                 /\ \E ok \in BOOLEAN : opened' = ok
                 /\ main' = "write"
                 /\ UNCHANGED <<pipe, left, n, seen, playVars>>

\* write(): a full pipe is -1, which counts for nothing.
audio_write == /\ main = "write"
               /\ n' = IF pipe + Chunk <= Capacity THEN Chunk ELSE 0
               /\ pipe' = pipe + n'
               /\ main' = "load"
               /\ UNCHANGED <<count, opened, left, seen, playVars>>

write_load == /\ main = "load"
              /\ seen' = count
              /\ main' = "store"
              /\ UNCHANGED <<pipe, count, opened, left, n, playVars>>

write_store == /\ main = "store"
               /\ count' = seen + n
               /\ left' = IF n = 0 THEN left ELSE left - 1
               /\ main' = IF left' = 0 THEN "wait" ELSE "write"
               /\ UNCHANGED <<pipe, opened, n, seen, playVars>>

\* The test's last loop.
audio_status == /\ main = "wait" /\ count <= 0
                /\ main' = "done"
                /\ UNCHANGED <<pipe, count, opened, left, n, seen, playVars>>

-----------------------------------------------------------------------------
audio_play == /\ opened /\ play = "idle"
              /\ b' = 0
              /\ IF count < Asked THEN play' = "cap" /\ UNCHANGED nread
                 ELSE play' = "read" /\ nread' = Asked
              /\ UNCHANGED <<pipe, count, opened, mainVars, held>>

\* count is read a second time.
play_cap == /\ play = "cap"
            /\ nread' = count
            /\ play' = "read"
            /\ UNCHANGED <<pipe, count, opened, mainVars, b, held>>

play_read == /\ play = "read" /\ b < nread /\ pipe > 0
             /\ LET got == IF pipe < nread THEN pipe ELSE nread IN
                   /\ b' = b + got
                   /\ pipe' = pipe - got
             /\ UNCHANGED <<count, opened, mainVars, play, nread, held>>

play_load == /\ play = "read" /\ b >= nread
             /\ held' = count
             /\ play' = "store"
             /\ UNCHANGED <<pipe, count, opened, mainVars, nread, b>>

play_store == /\ play = "store"
              /\ count' = held - nread
              /\ play' = "idle"
              /\ UNCHANGED <<pipe, opened, mainVars, nread, b, held>>

Next == \/ am_audio_ctrl \/ audio_write \/ write_load \/ write_store \/ audio_status
        \/ audio_play \/ play_cap \/ play_read \/ play_load \/ play_store

Spec == Init /\ [][Next]_vars

-----------------------------------------------------------------------------
(* am-tests/src/tests/audio.c:25 "wait until the audio finishes": when the *)
(* loop on AM_AUDIO_STATUS ends, nothing of what was written is left in    *)
(* the pipe.  It needs count never to be less than what the pipe holds     *)
(* while the program waits.                                                *)
WaitPlaysAll == main = "done" => pipe = 0
=============================================================================
