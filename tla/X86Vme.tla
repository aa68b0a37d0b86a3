------------------------------- MODULE X86Vme -------------------------------
(***************************************************************************)
(* Page tables of x86-qemu, 32 bits (abstract-machine/am/src/x86/qemu/     *)
(* vme.c): a directory per space, whose kernel entries are copies of the   *)
(* kernel's own and whose user entries lead to page tables of that space   *)
(* alone.  cte.c saves the directory with every context and loads it with  *)
(* every context that has one; kernel contexts are created without.        *)
(*                                                                         *)
(* The translation cache is the processor's.  PTE_W and what a page holds  *)
(* are left out; the kernel's page tables never change and are one value.  *)
(***************************************************************************)
EXTENDS VmeProgram

CONSTANTS UIndex, KIndex,   \* directory entries of uvm_area and of the kernel
          Table,            \* pages that pgalloc hands out, and kpt
          Kpt, KernelTable

Index == UIndex \cup KIndex

ASSUME X86Assumption == /\ Va \subseteq UIndex \X Index
                        /\ UIndex \cap KIndex = {}
                        /\ Kpt \in Table /\ KernelTable \notin Table
                        /\ Null \notin Table /\ KernelTable # Null
                        /\ Pgalloc(Table)

VARIABLES ptr,      \* as->ptr of each space, without its flags
          mem,      \* contents of tables
          free,     \* the pages pgalloc may return
          cr3,
          tlb,      \* cached translations
          ctx       \* the cr3 saved in each thread's context

x86Vars == <<ptr, mem, free, cr3, tlb, ctx>>

(* An entry: where it leads, Null without PTE_P, and PTE_U.                *)
NoEntry      == [to |-> Null, user |-> FALSE]
UserEntry(p) == [to |-> p, user |-> TRUE]
Present(e)   == e.to # Null
Zeroed       == [i \in Index |-> NoEntry]

\* The processor's own walk, for an access from user mode.
Translate(m, pd, v) == LET pde == m[pd][v[1]]
                       IN  IF pde.user /\ pde.to \in Table
                           THEN m[pde.to][v[2]].to ELSE Null

vme_init == /\ mem = [p \in Table |-> [i \in Index |->
                        IF p = Kpt /\ i \in KIndex
                        THEN [to |-> KernelTable, user |-> FALSE] ELSE NoEntry]]
            /\ free = Table \ {Kpt}
            /\ cr3 = Kpt /\ tlb = {}
            /\ ptr = [s \in Space |-> Null]
            /\ ctx = [t \in Thread |-> Null]

\* panic_on, no page from pgalloc among its reasons: the machine is halted.
panic == Stops("panicked") /\ UNCHANGED <<ptr, cr3, tlb, ctx>>

KernelEntries_none == Zeroed
KernelEntries      == [i \in Index |-> IF i \in KIndex THEN mem[Kpt][i] ELSE NoEntry]

protect_x86(s) ==
    /\ Goes("x86")
    /\ \/ /\ s \notin live
          /\ panic /\ UNCHANGED <<mem, free>>
       \/ \E upt \in pgalloc(free) :
             /\ Opens(s)
             /\ free' = free \ {upt}
             /\ mem' = [mem EXCEPT ![upt] = KernelEntries]
             /\ ptr' = [ptr EXCEPT ![s] = upt]
             /\ UNCHANGED <<cr3, tlb, ctx>>

(* teardown frees the tables behind user entries and the directory, and    *)
(* none of the kernel's.                                                   *)
PageTables(pd)      == {mem[pd][i].to : i \in {j \in Index : mem[pd][j].user}}
teardown_flat(pd)   == {pd}
teardown(pd)        == {pd} \cup PageTables(pd)

(* No context that will run again may have the space's directory in it.    *)
(* That is more than no thread living there: a kernel thread keeps the     *)
(* directory it was entered with, and saves it when it is interrupted.     *)
Loaded(s) == \/ cr3 = ptr[s]
             \/ \E t \in Thread \ {running} : home[t] # Absent /\ ctx[t] = ptr[s]

unprotect_x86(s) == /\ Goes("x86") /\ ~Loaded(s)
                    /\ Closes(s)
                    /\ free' = free \cup teardown(ptr[s])
                    /\ UNCHANGED <<ptr, mem, cr3, tlb, ctx>>

(* ptwalk: the page table of directory entry i, or a fresh one, and the    *)
(* tables after it has been hung in.                                       *)
ptwalk(pd, i)       == IF Present(mem[pd][i]) THEN {mem[pd][i].to} ELSE pgalloc(free)
Walked_dirty(pd, i, pt) == IF Present(mem[pd][i]) THEN mem
                           ELSE [mem EXCEPT ![pd][i] = UserEntry(pt)]
Walked(pd, i, pt)   == IF Present(mem[pd][i]) THEN mem
                       ELSE [mem EXCEPT ![pt] = Zeroed, ![pd][i] = UserEntry(pt)]

(* map with MMAP_NONE, here the frame Null, takes a mapped page away; with *)
(* anything else it maps a page that was not.  Nothing is flushed.         *)
Misused(f, pte) == (f = Null) # Present(pte)

map_x86(s, v, f) ==
    /\ Goes("x86") /\ s \in live
    /\ \/ /\ ~Present(mem[ptr[s]][v[1]])
          /\ panic /\ UNCHANGED <<mem, free>>
       \/ \E pt \in ptwalk(ptr[s], v[1]) :
             LET m == Walked(ptr[s], v[1], pt) IN
             /\ free' = free \ {pt}
             /\ \/ /\ Misused(f, m[pt][v[2]])
                   /\ mem' = m
                   /\ panic
                \/ /\ ~Misused(f, m[pt][v[2]])
                   /\ mem' = [m EXCEPT ![pt][v[2]] = IF f = Null THEN NoEntry
                                                     ELSE UserEntry(f)]
                   /\ Works(s)
                   /\ UNCHANGED <<ptr, cr3, tlb, ctx>>

ucontext_x86(t, s) == /\ Goes("x86") /\ s \in live /\ Creates(t, s)
                      /\ ctx' = [ctx EXCEPT ![t] = ptr[s]]
                      /\ UNCHANGED <<ptr, mem, free, cr3, tlb>>

kcontext_x86(t) == /\ Goes("x86") /\ Creates(t, Kernel)
                   /\ ctx' = [ctx EXCEPT ![t] = Null]
                   /\ UNCHANGED <<ptr, mem, free, cr3, tlb>>

exit_x86(t) == /\ Goes("x86") /\ Kills(t)
               /\ ctx' = [ctx EXCEPT ![t] = Null]
               /\ UNCHANGED <<ptr, mem, free, cr3, tlb>>

\* A trap of the running thread, whose handler returns the context of t.
set_cr3(pd) == cr3' = pd /\ tlb' = {}

Loads_always(pd) == set_cr3(pd)
Loads(pd)        == \/ pd # Null /\ set_cr3(pd)
                    \/ pd = Null /\ UNCHANGED <<cr3, tlb>>

irq_handle_x86(t) ==
    /\ Goes("x86") /\ Resumes(t)
    /\ ctx' = [ctx EXCEPT ![running] = cr3]
    /\ Loads(ctx'[t])
    /\ UNCHANGED <<ptr, mem, free>>

\* The processor caches a translation it has used.
tlb_fill(v) == /\ Goes("x86") /\ Translate(mem, cr3, v) # Null
               /\ tlb' = tlb \cup {<<v, Translate(mem, cr3, v)>>}
               /\ UNCHANGED <<live, home, running, stopped, ptr, mem, free, cr3, ctx>>

X86Next ==
    \/ \E s \in Space : \/ protect_x86(s) \/ unprotect_x86(s)
                        \/ \E v \in Va, f \in MaybeFrame : map_x86(s, v, f)
                        \/ \E t \in Thread : ucontext_x86(t, s)
    \/ \E t \in Thread : kcontext_x86(t) \/ exit_x86(t) \/ irq_handle_x86(t)
    \/ \E v \in Va : tlb_fill(v)

-----------------------------------------------------------------------------
X86TypeOK == /\ ptr \in [Space -> Table \cup {Null}]
             /\ mem \in [Table -> [Index -> [to   : Table \cup Frame \cup {KernelTable, Null},
                                             user : BOOLEAN]]]
             /\ free \subseteq Table
             /\ cr3 \in Table
             /\ tlb \subseteq Va \X Frame
             /\ ctx \in [Thread -> Table \cup {Null}]

\* What the tables say, for the abstract specification.
X86Table == [s \in Space |-> [v \in Va |->
                IF s \in live THEN Translate(mem, ptr[s], v) ELSE Null]]
X86Seen  == tlb \cup {<<v, Translate(mem, cr3, v)>> :
                         v \in {w \in Va : Translate(mem, cr3, w) # Null}}

(* Every page that pgalloc can hand out is in exactly one place: free, or  *)
(* a table of exactly one space.  None is lost and none is used twice,     *)
(* whatever is mapped, taken away, torn down and protected again.          *)
Tables(s)   == {ptr[s]} \cup PageTables(ptr[s])
TablesOwned == arch = "x86" =>
                 /\ \A s \in live : Tables(s) \cap (free \cup {Kpt}) = {}
                 /\ \A s, r \in live : s # r => Tables(s) \cap Tables(r) = {}
                 /\ Table = free \cup {Kpt} \cup UNION {Tables(s) : s \in live}

(* Whatever directory is loaded, the kernel is mapped in it: the handlers  *)
(* of cte.c run on it, and a directory that was freed and given to someone *)
(* else, or filled without the kernel's entries, would end in a triple     *)
(* fault.                                                                  *)
KernelAlwaysMapped == arch = "x86" => \A k \in KIndex : mem[cr3][k] = mem[Kpt][k]
=============================================================================
