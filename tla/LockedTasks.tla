---------------------------- MODULE LockedTasks ----------------------------
(***************************************************************************)
(* What thread-os promises its tasks: each goes round func on its own, and *)
(* no task enters lock while another is between lock and unlock.  There    *)
(* are no processors here, no interrupts and no stacks: ThreadOs is shown  *)
(* to implement this.                                                      *)
(***************************************************************************)
CONSTANT Task

VARIABLE doing         \* where each task is in func

Inside == {"printf", "unlock"}

Goes(t, from, to) == doing[t] = from /\ doing' = [doing EXCEPT ![t] = to]

Lock(t)   == (\A u \in Task : doing[u] \notin Inside) /\ Goes(t, "lock", "printf")
Printf(t) == Goes(t, "printf", "unlock")
Unlock(t) == Goes(t, "unlock", "delay")
Delay(t)  == Goes(t, "delay", "lock")

Init == doing = [t \in Task |-> "lock"]
Next == \E t \in Task : Lock(t) \/ Printf(t) \/ Unlock(t) \/ Delay(t)
Spec == Init /\ [][Next]_doing
=============================================================================
