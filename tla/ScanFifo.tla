------------------------------ MODULE ScanFifo ------------------------------
(***************************************************************************)
(* What the PS/2 receiver promises its reader: a queue of scan codes that  *)
(* loses, duplicates and reorders nothing, until one code more than it     *)
(* can hold arrives.  From then on it only promises to say so, with the    *)
(* overflow flag, until it is cleared.                                     *)
(***************************************************************************)
EXTENDS Naturals, Sequences

CONSTANTS Code,     \* the scan codes
          Capacity  \* codes the queue holds before it overflows

VARIABLES queue,    \* codes received and not yet taken, oldest first
          overrun   \* 1 once a code arrived that did not fit

absVars == <<queue, overrun>>

AbsInit == queue = <<>> /\ overrun = 0

Room == overrun = 0 /\ Len(queue) < Capacity

Arrive(c) == /\ Room
             /\ queue' = Append(queue, c)
             /\ UNCHANGED overrun

Take == /\ overrun = 0
        /\ queue # <<>>
        /\ queue' = Tail(queue)
        /\ UNCHANGED overrun

\* A code arrives on the clock edge at which the oldest one is taken.
TakeAndArrive(c) == /\ Room
                    /\ queue # <<>>
                    /\ queue' = Append(Tail(queue), c)
                    /\ UNCHANGED overrun

\* The code that does not fit: the flag is raised and the content is no
\* longer specified (<<>> stands for "unspecified").
Overrun == /\ overrun = 0
           /\ Len(queue) = Capacity
           /\ queue' = <<>>
           /\ overrun' = 1

Clear == queue' = <<>> /\ overrun' = 0

AbsNext == \/ \E c \in Code : Arrive(c) \/ TakeAndArrive(c)
           \/ Take
           \/ Overrun
           \/ Clear

AbsSpec == AbsInit /\ [][AbsNext]_absVars
=============================================================================
