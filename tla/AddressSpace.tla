---------------------------- MODULE AddressSpace ----------------------------
(***************************************************************************)
(* What AM promises of its virtual memory (abstract-machine/am/include/    *)
(* am.h): a space is a table from pages to frames that only map changes,   *)
(* and the thread that runs sees the table of the space it was created     *)
(* in.  A page taken away from the running thread may be seen a little     *)
(* longer, until the next switch: hardware caches translations.            *)
(***************************************************************************)
CONSTANTS Space, Va, Frame, Null, Thread, Kernel, Absent

VARIABLES live,         \* spaces between protect and unprotect
          table,        \* table[s][v]: the frame of page v, or Null
          home,         \* the space of a thread, Kernel, or Absent
          running,
          seen          \* the pairs <<page, frame>> the running thread can use

vars == <<live, table, home, running, seen>>

Empty     == [v \in Va |-> Null]
Mapped(m) == {<<v, m[v]>> : v \in {w \in Va : m[w] # Null}}

\* What the running thread sees after a step.
Sees == IF home'[running'] \in Space
        THEN /\ Mapped(table'[home'[running']]) \subseteq seen'
             /\ seen' \subseteq Mapped(table'[home'[running']])
                                  \cup (IF running' = running THEN seen ELSE {})
        ELSE seen' = {}

Protect(s) == /\ s \notin live
              /\ live' = live \cup {s} /\ table' = [table EXCEPT ![s] = Empty]
              /\ UNCHANGED <<home, running>>

Unprotect(s) == /\ s \in live /\ \A t \in Thread : home[t] # s
                /\ live' = live \ {s} /\ table' = [table EXCEPT ![s] = Empty]
                /\ UNCHANGED <<home, running>>

Map(s, v, f) == /\ s \in live
                /\ table' = [table EXCEPT ![s][v] = f]
                /\ UNCHANGED <<live, home, running>>

Create(t, h) == /\ home[t] = Absent /\ h \in live \cup {Kernel}
                /\ home' = [home EXCEPT ![t] = h]
                /\ UNCHANGED <<live, table, running>>

Exit(t) == /\ t # running
           /\ home' = [home EXCEPT ![t] = Absent]
           /\ UNCHANGED <<live, table, running>>

Switch(t) == /\ home[t] # Absent
             /\ running' = t
             /\ UNCHANGED <<live, table, home>>

Init == /\ live = {} /\ table = [s \in Space |-> Empty]
        /\ running \in Thread
        /\ home = [t \in Thread |-> IF t = running THEN Kernel ELSE Absent]
        /\ seen = {}

Step == \/ \E s \in Space : \/ Protect(s)
                            \/ Unprotect(s)
                            \/ \E v \in Va, f \in Frame \cup {Null} : Map(s, v, f)
        \/ \E t \in Thread : \/ \E h \in Space \cup {Kernel} : Create(t, h)
                             \/ Exit(t)
                             \/ Switch(t)
Next == Step /\ Sees

Spec == Init /\ [][Next]_vars
=============================================================================
