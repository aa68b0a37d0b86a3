------------------------------ MODULE ThreadOs ------------------------------
(***************************************************************************)
(* am-kernels/kernels/thread-os/thread-os.c on the native machine: five    *)
(* tasks that print under a spin lock, and the interrupt handler that      *)
(* switches between them.  Task t is run only by processor t % NCpu.       *)
(*                                                                         *)
(* A context is the stack it was saved on and where it goes on: a task, or *)
(* the boot stack of a processor.  The handler runs on the interrupted     *)
(* stack with interrupts off (setup_stack and irq_handle in native/cte.c). *)
(* The program calls no ioe_init and accesses no device.                   *)
(***************************************************************************)
EXTENDS NativeMpe

CONSTANT NrTask        \* LENGTH(tasks): 5 in the code

ASSUME TaskAssumption == NrTask \in Nat \ {0}

VARIABLES currents,    \* the task each processor is on, or NULL
          context,     \* tasks[t].context
          locked,
          stack,       \* the stack each processor runs on
          pc,          \* where it is
          resume       \* where the interrupted code goes on

threadVars == <<currents, context, locked, stack, pc, resume>>
vars       == <<mpeVars, threadVars>>

Task == 0..(NrTask - 1)
NULL == NrTask         \* no task
Boot == NrTask         \* a boot stack, private to its processor
NextOf_last(t) == IF t = NrTask - 1 THEN t ELSE t + 1
NextOf(t)      == IF t = NrTask - 1 THEN 0 ELSE t + 1

Code     == {"lock", "printf", "unlock", "delay"}   \* of func
Critical == {"printf", "unlock"}
Handler  == {"save", "advance", "test", "switch"}   \* of on_interrupt

Goes(c, to) == pc' = [pc EXCEPT ![c] = to]

\* ienabled: iset(true) has run and no handler does.
IntrOn(c) == pc[c] \in Code \cup {"yield"}

\* mp_entry, on the boot stack.
iset == \E c \in Cpu :
    /\ pc[c] = "iset" /\ at[c] = "entry"
    /\ Goes(c, "yield")
    /\ UNCHANGED <<mpeVars, currents, context, locked, stack, resume>>

\* An interrupt on c that will return to ret.
interrupt(c, ret) == /\ Goes(c, "save")
                     /\ resume' = [resume EXCEPT ![c] = ret]
                     /\ UNCHANGED <<mpeVars, currents, context, locked, stack>>

yield == \E c \in Cpu : pc[c] = "yield" /\ interrupt(c, "returned")

timer(c) == IntrOn(c) /\ interrupt(c, pc[c])

-----------------------------------------------------------------------------
(* on_interrupt: the context is saved, unless the processor had no task    *)
(* yet; the search for its next task; the switch to that task's context.   *)
SaveTo_always(c) == IF currents[cpu_current(c)] = NULL THEN 0 ELSE currents[cpu_current(c)]
SaveTo_next(c)   == IF currents[cpu_current(c)] = NULL THEN NULL
                    ELSE NextOf(currents[cpu_current(c)])
SaveTo(c)        == currents[cpu_current(c)]

save(c) ==
    /\ pc[c] = "save"
    /\ currents' = IF currents[cpu_current(c)] = NULL
                   THEN [currents EXCEPT ![cpu_current(c)] = 0] ELSE currents
    /\ context' = [t \in Task |-> IF t = SaveTo(c)
                                  THEN [on |-> stack[c], at |-> resume[c]] ELSE context[t]]
    /\ Goes(c, "advance")
    /\ UNCHANGED <<mpeVars, locked, stack, resume>>

advance(c) ==
    /\ pc[c] = "advance"
    /\ currents' = [currents EXCEPT ![cpu_current(c)] = NextOf(@)]
    /\ Goes(c, "test")
    /\ UNCHANGED <<mpeVars, context, locked, stack, resume>>

Mine_any(t, n) == TRUE
Mine(t, n)     == t % NCpu = n

test(c) ==
    /\ pc[c] = "test"
    /\ Goes(c, IF Mine(currents[cpu_current(c)], cpu_current(c)) THEN "switch" ELSE "advance")
    /\ UNCHANGED <<mpeVars, currents, context, locked, stack, resume>>

switch(c) ==
    /\ pc[c] = "switch"
    /\ LET ctx == context[currents[cpu_current(c)]]
       IN  stack' = [stack EXCEPT ![c] = ctx.on] /\ Goes(c, ctx.at)
    /\ UNCHANGED <<mpeVars, currents, context, locked, resume>>

on_interrupt(c) == save(c) \/ advance(c) \/ test(c) \/ switch(c)

-----------------------------------------------------------------------------
(* func, on the task's stack.  lock spins on atomic_xchg.                  *)
lock(c) == /\ pc[c] = "lock"
           /\ locked = 0
           /\ locked' = 1
           /\ Goes(c, "printf")
           /\ UNCHANGED <<mpeVars, currents, context, stack, resume>>

unlock(c) == /\ pc[c] = "unlock"
             /\ locked' = 0
             /\ Goes(c, "delay")
             /\ UNCHANGED <<mpeVars, currents, context, stack, resume>>

\* printf, and the delay loop.
work(c) == /\ \/ pc[c] = "printf" /\ Goes(c, "unlock")
              \/ pc[c] = "delay" /\ Goes(c, "lock")
           /\ UNCHANGED <<mpeVars, currents, context, locked, stack, resume>>

runs(t) == \E c \in Cpu : stack[c] = t /\ (unlock(c) \/ work(c))

-----------------------------------------------------------------------------
(* main has called cte_init and given every task its first context.        *)
Init == /\ MpeInit
        /\ currents = [c \in Cpu |-> NULL]
        /\ context = [t \in Task |-> [on |-> t, at |-> "lock"]]
        /\ locked = 0
        /\ stack = [c \in Cpu |-> Boot]
        /\ pc = [c \in Cpu |-> "iset"]
        /\ resume = [c \in Cpu |-> "iset"]

boot == MpeBoot /\ UNCHANGED threadVars

Next == \/ boot \/ iset \/ yield
        \/ \E c \in Cpu : on_interrupt(c) \/ lock(c) \/ unlock(c) \/ work(c) \/ timer(c)

(* Processors run and their timers keep firing; a tick is long enough for  *)
(* a task that is switched to often enough to get on.  Whether a spinning  *)
(* task ever finds the lock free is left to chance.                        *)
Spec == /\ Init /\ [][Next]_vars
        /\ WF_vars(boot) /\ WF_vars(iset) /\ WF_vars(yield)
        /\ \A c \in Cpu : WF_vars(on_interrupt(c)) /\ SF_vars(timer(c)) /\ WF_vars(lock(c))
        /\ \A t \in Task : SF_vars(runs(t))

-----------------------------------------------------------------------------
(* Ranges.  No boot stack is ever saved as a task's context, and func runs *)
(* on the stacks of tasks.                                                 *)
ThreadTypeOK ==
    /\ MpeTypeOK
    /\ currents \in [Cpu -> Task \cup {NULL}]
    /\ context \in [Task -> [on : Task, at : Code]]
    /\ locked \in {0, 1}
    /\ stack \in [Cpu -> Task \cup {Boot}]
    /\ pc \in [Cpu -> Code \cup Handler \cup {"iset", "yield", "returned"}]
    /\ resume \in [Cpu -> Code \cup {"iset", "yield", "returned"}]
    /\ \A c \in Cpu : pc[c] \in Code => stack[c] \in Task

(* No stack is ever in use on two processors, the handler that still runs  *)
(* on the stack of the task it has just put back included.                 *)
StackExclusive ==
    \A c, d \in Cpu : c # d /\ stack[c] \in Task => stack[d] # stack[c]

(* Where task t is in func: on a processor, interrupted there, or saved.   *)
Where(t) == IF \E c \in Cpu : stack[c] = t
            THEN LET c == CHOOSE c \in Cpu : stack[c] = t
                 IN  IF pc[c] \in Handler THEN resume[c] ELSE pc[c]
            ELSE context[t].at

(* Only one task is between lock and unlock, the preempted ones included.  *)
MutualExclusion == \A t, u \in Task : Where(t) \in Critical /\ Where(u) \in Critical => t = u

(* mp_entry's first interrupt never returns to it: mpe_init would panic.   *)
EntryNeverReturns == \A c \in Cpu : pc[c] # "returned"

(* The tasks behave as if there were no processors: a step of the machine  *)
(* is a step of one task through func, which enters lock only when no task *)
(* is inside, or a step no task sees.                                      *)
LT == INSTANCE LockedTasks WITH doing <- [t \in Task |-> Where(t)]
ImplementsLockedTasks == LT!Spec

(* A lock that is held is released again, although its holder may be       *)
(* preempted and the others spin with its processor.                       *)
LockReleased == locked = 1 ~> locked = 0

(* Every task gets its processor again and again.                          *)
EveryTaskRuns == \A t \in Task : []<>(\E c \in Cpu : stack[c] = t)
=============================================================================
