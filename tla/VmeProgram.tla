----------------------------- MODULE VmeProgram -----------------------------
(***************************************************************************)
(* A kernel on top of AM's virtual memory, as far as it matters to the     *)
(* machine below: which address spaces it has, which threads, in which     *)
(* space each lives and which one runs.  It may call anything at any time, *)
(* except that it works only on spaces it has protected and unprotects     *)
(* none that it still uses.  It also hands out the pages.  It is external: *)
(* no kernel in this repository uses more of the interface than            *)
(* am-kernels/tests/am-tests/src/tests/vm.c.  arch is what it was built    *)
(* for.                                                                    *)
(***************************************************************************)
CONSTANTS Space, Va, Frame, Thread,
          Boot,                     \* the thread that main runs in
          Null, Kernel, Absent,
          pgalloc(_)                \* of the pages left, those the kernel may give

VARIABLES arch, live, home, running,
          stopped       \* "no", "panicked", "hung"

programVars == <<arch, live, home, running, stopped>>

ASSUME ProgramAssumption == /\ Boot \in Thread
                            /\ Kernel \notin Space /\ Absent \notin Space
                            /\ Kernel # Absent
                            /\ Null \notin Frame

\* What it gives is one of the pages there are.  It may also give none, at any
\* time: it has others to give pages to.
Pgalloc(Page) == \A left \in SUBSET Page : pgalloc(left) \subseteq left

MaybeFrame == Frame \cup {Null}

ProgramInit == /\ live = {}
               /\ home = [t \in Thread |-> IF t = Boot THEN Kernel ELSE Absent]
               /\ running = Boot
               /\ stopped = "no"

Goes(on)   == arch = on /\ stopped = "no" /\ UNCHANGED arch
Stops(how) == stopped' = how /\ UNCHANGED <<live, home, running>>

Opens(s)  == /\ s \notin live /\ live' = live \cup {s}
             /\ UNCHANGED <<home, running, stopped>>
Closes(s) == /\ s \in live /\ (\A t \in Thread : home[t] # s)
             /\ live' = live \ {s}
             /\ UNCHANGED <<home, running, stopped>>
Works(s)  == s \in live /\ UNCHANGED <<live, home, running, stopped>>

Creates(t, h) == /\ home[t] = Absent
                 /\ home' = [home EXCEPT ![t] = h]
                 /\ UNCHANGED <<live, running, stopped>>
Kills(t)      == /\ t # running /\ home[t] # Absent
                 /\ home' = [home EXCEPT ![t] = Absent]
                 /\ UNCHANGED <<live, running, stopped>>
Resumes(t)    == /\ home[t] # Absent
                 /\ running' = t
                 /\ UNCHANGED <<live, home, stopped>>

ProgramTypeOK == /\ arch \in {"x86", "native"}
                 /\ live \subseteq Space
                 /\ home \in [Thread -> Space \cup {Kernel, Absent}]
                 /\ running \in Thread
                 /\ stopped \in {"no", "panicked", "hung"}
                 /\ home[running] # Absent
                 /\ \A t \in Thread : home[t] \in Space => home[t] \in live
=============================================================================
