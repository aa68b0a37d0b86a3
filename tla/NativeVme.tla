----------------------------- MODULE NativeVme ------------------------------
(***************************************************************************)
(* Virtual memory of AM's native machine (abstract-machine/am/src/native/  *)
(* vme.c): a space is a list of pages, found by address in a hash table;   *)
(* switching to a space unmaps the pages of the list before and maps those *)
(* of the new one in the host process.  A page mapped with MMAP_NONE is a  *)
(* node with the frame Null.                                               *)
(***************************************************************************)
EXTENDS VmeProgram

CONSTANT Mem                    \* pages that pgalloc hands out

ASSUME NativeAssumption == Null \notin Mem /\ Pgalloc(Mem)

VARIABLES as_ptr,               \* as->ptr of each space: its VMHead
          head, hash,           \* the fields of a VMHead
          node,                 \* the fields of a PageMap
          unused,               \* pages not handed out yet; none comes back
          vm_head,              \* thiscpu->vm_head
          context,              \* the vm_head in each thread's context
          host,                 \* what is mapped in the host process
          again                 \* history: VMHeads with a page mapped twice

nativeVars == <<as_ptr, head, hash, node, unused, vm_head, context, host, again>>

Blank == [va |-> Null, pa |-> Null, next |-> Null, is_mapped |-> FALSE]

NativeInit == /\ as_ptr = [s \in Space |-> Null]
              /\ head = [p \in Mem |-> Null]
              /\ hash = [p \in Mem |-> [v \in Va |-> Null]]
              /\ node = [p \in Mem |-> Blank]
              /\ unused = Mem
              /\ vm_head = Null /\ context = [t \in Thread |-> Null]
              /\ host = [v \in Va |-> Null]
              /\ again = {}

\* An assertion fails, or pgalloc's Null is written to.
dies(how) == Stops(how) /\ UNCHANGED nativeVars

protect_native(s) ==
    /\ Goes("native")
    /\ \/ s \notin live /\ dies("panicked")
       \/ \E h \in pgalloc(unused) :
             /\ Opens(s)
             /\ unused' = unused \ {h}
             /\ as_ptr' = [as_ptr EXCEPT ![s] = h]
             /\ UNCHANGED <<head, hash, node, vm_head, context, host, again>>

unprotect_native(s) == Goes("native") /\ Closes(s) /\ UNCHANGED nativeVars

(* map finds the page's node or makes one, and links it in front, also if  *)
(* it was in the list already.                                             *)
NodeFor(h, v) == IF hash[h][v] = Null THEN pgalloc(unused) ELSE {hash[h][v]}

Following_lost(h) == Null
Following(h)      == head[h]

MapsNow(h) == h = vm_head

map_native(s, v, f) ==
    LET h == as_ptr[s] IN
    /\ Goes("native") /\ s \in live
    /\ \/ hash[h][v] = Null /\ dies("panicked")
       \/ \E pp \in NodeFor(h, v) :
             /\ Works(s)
             /\ again'  = IF hash[h][v] = Null THEN again ELSE again \cup {h}
             /\ hash'   = [hash EXCEPT ![h][v] = pp]
             /\ unused' = unused \ {pp}
             /\ node'   = [node EXCEPT ![pp] = [va |-> v, pa |-> f, next |-> Following(h),
                                                is_mapped |-> MapsNow(h)]]
             /\ head'   = [head EXCEPT ![h] = pp]
             /\ host'   = IF MapsNow(h) THEN [host EXCEPT ![v] = f] ELSE host
             /\ UNCHANGED <<as_ptr, vm_head, context>>

ucontext_native(t, s) == /\ Goes("native") /\ s \in live /\ Creates(t, s)
                         /\ context' = [context EXCEPT ![t] = as_ptr[s]]
                         /\ UNCHANGED <<as_ptr, head, hash, node, unused, vm_head, host, again>>

kcontext_native(t) == /\ Goes("native") /\ Creates(t, Kernel)
                      /\ context' = [context EXCEPT ![t] = Null]
                      /\ UNCHANGED <<as_ptr, head, hash, node, unused, vm_head, host, again>>

exit_native(t) == /\ Goes("native") /\ Kills(t)
                  /\ context' = [context EXCEPT ![t] = Null]
                  /\ UNCHANGED <<as_ptr, head, hash, node, unused, vm_head, host, again>>

(* The pages list_foreach comes by, and Null if it comes to an end.        *)
Follows(S)  == \A p \in S : p # Null => node[p].next \in S
Visited(h)  == {p \in Mem \cup {Null} :
                    \A S \in SUBSET (Mem \cup {Null}) : head[h] \in S /\ Follows(S) => p \in S}
List(h)     == IF h = Null THEN {} ELSE Visited(h) \ {Null}
Ends(h)     == IF h = Null THEN TRUE ELSE Null \in Visited(h)

\* The trap of the running thread; user_handler returns the context of t.
Unmapped(p) == p \in List(vm_head) /\ node[p].is_mapped

Host(new) == [v \in Va |->
    IF \E p \in List(new) : node[p].va = v
    THEN node[CHOOSE p \in List(new) : node[p].va = v].pa
    ELSE IF \E p \in Mem : Unmapped(p) /\ node[p].va = v THEN Null ELSE host[v]]

Flags_kept(new) == node
Flags(new) == [p \in Mem |-> [node[p] EXCEPT !.is_mapped =
                                 p \in List(new) \/ (@ /\ ~Unmapped(p))]]

__am_switch(new) ==
    \/ /\ new = vm_head
       /\ UNCHANGED <<node, host, vm_head>>
    \/ /\ new # vm_head
       /\ Ends(vm_head) /\ Ends(new)
       /\ host' = Host(new)
       /\ node' = Flags(new)
       /\ vm_head' = new

Returned(t) == IF t = running THEN vm_head ELSE context[t]

irq_handle_native(t) ==
    /\ Goes("native")
    /\ \/ /\ Resumes(t)
          /\ context' = [context EXCEPT ![running] = vm_head]
          /\ __am_switch(Returned(t))
          /\ UNCHANGED <<as_ptr, head, hash, unused, again>>
       \/ /\ home[t] # Absent /\ Returned(t) # vm_head
          /\ ~(Ends(vm_head) /\ Ends(Returned(t)))
          /\ dies("hung")

NativeNext ==
    \/ \E s \in Space : \/ protect_native(s) \/ unprotect_native(s)
                        \/ \E v \in Va, f \in MaybeFrame : map_native(s, v, f)
                        \/ \E t \in Thread : ucontext_native(t, s)
    \/ \E t \in Thread : kcontext_native(t) \/ exit_native(t) \/ irq_handle_native(t)

-----------------------------------------------------------------------------
NativeTypeOK == /\ as_ptr \in [Space -> Mem \cup {Null}]
                /\ head \in [Mem -> Mem \cup {Null}]
                /\ hash \in [Mem -> [Va -> Mem \cup {Null}]]
                /\ node \in [Mem -> [va : Va \cup {Null}, pa : MaybeFrame,
                                     next : Mem \cup {Null}, is_mapped : BOOLEAN]]
                /\ unused \subseteq Mem
                /\ vm_head \in Mem \cup {Null}
                /\ context \in [Thread -> Mem \cup {Null}]
                /\ host \in [Va -> MaybeFrame]
                /\ again \subseteq Mem

\* What the hash tables say, and what the host maps.
NativeTable == [s \in Space |-> [v \in Va |->
                   IF s \in live /\ hash[as_ptr[s]][v] # Null
                   THEN node[hash[as_ptr[s]][v]].pa ELSE Null]]
NativeSeen  == {<<v, host[v]>> : v \in {w \in Va : host[w] # Null}}

(* The list of a space ends, and holds exactly the pages its hash table    *)
(* knows, unless the kernel has mapped one of them a second time: map      *)
(* links that node again and makes the list a ring.  So only such a        *)
(* kernel's switches hang.                                                 *)
ListWhole == arch = "native" =>
    /\ \A h \in Mem \ again : /\ Ends(h)
                              /\ List(h) = {hash[h][v] : v \in Va} \ {Null}
    /\ stopped = "hung" => again # {}
=============================================================================
