------------------------------ MODULE VmeProofs -----------------------------
(***************************************************************************)
(* Theorems of Vme: the types, the tables of x86, the lists of native, and *)
(* that both machines keep the promise of AddressSpace, for any number of  *)
(* spaces, threads and pages.  The invariant of x86 is in X86VmeProofs,    *)
(* that of native here.                                                    *)
(***************************************************************************)
EXTENDS Vme, X86VmeProofs

(* The pages that a list with the links n passes when it starts at a.      *)
Link        == Mem \cup {Null}
Closed(n, S) == \A q \in S : q # Null => n[q].next \in S
Reach(n, a) == {p \in Link : \A S \in SUBSET Link : a \in S /\ Closed(n, S) => p \in S}

\* A list with the links n that starts at a stays in K, where n2 has the same.
Inside(n, n2, a, K) == /\ K \in SUBSET Mem /\ a \in K \cup {Null}
                       /\ Closed(n, K \cup {Null})
                       /\ \A q \in K : n2[q].next = n[q].next

LEMMA ReachClosed ==
    ASSUME NEW n, \A q \in Mem : n[q].next \in Link, NEW a \in Link
    PROVE  a \in Reach(n, a) /\ Reach(n, a) \subseteq Link /\ Closed(n, Reach(n, a))
BY DEF Reach, Closed, Link

LEMMA ReachLeast ==
    ASSUME NEW n, NEW a, NEW S \in SUBSET Link, a \in S, Closed(n, S)
    PROVE  Reach(n, a) \subseteq S
BY DEF Reach

(* A list that stays in K is not disturbed by links outside of it.         *)
LEMMA ReachSame ==
    ASSUME NEW n, NEW n2, \A q \in Mem : n[q].next \in Link /\ n2[q].next \in Link,
           NEW K, NEW a, Inside(n, n2, a, K)
    PROVE  Reach(n2, a) = Reach(n, a)
<1> DEFINE U == K \cup {Null}
<1> USE DEF Inside
<1>1. U \in SUBSET Link /\ a \in U /\ a \in Link /\ Closed(n2, U)
  BY DEF Link, Closed
<1>2. Reach(n, a) \subseteq U /\ Reach(n2, a) \subseteq U
  BY <1>1, ReachLeast
<1>3. Reach(n, a) \in SUBSET Link /\ Closed(n, Reach(n, a)) /\ a \in Reach(n, a)
  BY <1>1, ReachClosed
<1>4. Reach(n2, a) \in SUBSET Link /\ Closed(n2, Reach(n2, a)) /\ a \in Reach(n2, a)
  BY <1>1, ReachClosed
<1>5. Closed(n2, Reach(n, a)) /\ Closed(n, Reach(n2, a))
  BY <1>2, <1>3, <1>4 DEF Closed
<1>6. Reach(n, a) \subseteq Reach(n2, a)
  BY <1>4, <1>5, ReachLeast
<1>7. Reach(n2, a) \subseteq Reach(n, a)
  BY <1>3, <1>5, ReachLeast
<1> QED BY <1>6, <1>7

(* A page put in front of it is passed first.                              *)
LEMMA ReachFront ==
    ASSUME NEW n, NEW n2, \A q \in Mem : n[q].next \in Link /\ n2[q].next \in Link,
           NEW K, NEW a, Inside(n, n2, a, K), NEW p \in Mem \ K, p # Null, n2[p].next = a
    PROVE  Reach(n2, p) = {p} \cup Reach(n, a)
<1> DEFINE U == K \cup {Null}
           T == {p} \cup Reach(n, a)
           V == Reach(n2, p) \cap U
<1> USE DEF Inside
<1>1. U \in SUBSET Link /\ a \in U /\ a \in Link /\ p \in Link
  BY DEF Link
<1>2. /\ Reach(n, a) \in SUBSET Link /\ Closed(n, Reach(n, a)) /\ a \in Reach(n, a)
      /\ Reach(n, a) \subseteq U
  BY <1>1, ReachClosed, ReachLeast
<1>3. Reach(n2, p) \in SUBSET Link /\ Closed(n2, Reach(n2, p)) /\ p \in Reach(n2, p)
  BY <1>1, ReachClosed
<1>4. Closed(n2, T) /\ T \in SUBSET Link /\ p \in T
  BY <1>1, <1>2 DEF Closed
<1>5. Reach(n2, p) \subseteq T
  BY <1>4, ReachLeast
<1>6. a \in V /\ V \in SUBSET Link /\ Closed(n, V)
  BY <1>1, <1>3 DEF Closed
<1>7. Reach(n, a) \subseteq V
  BY <1>6, ReachLeast
<1> QED BY <1>3, <1>5, <1>7

(* A page of the list put in front of it makes it a ring: what is passed   *)
(* before p is passed again after it, and its end was after p.             *)
LEMMA ReachRing ==
    ASSUME NEW n, NEW n2, \A q \in Mem : n[q].next \in Link /\ n2[q].next \in Link,
           NEW a \in Link, NEW p \in Mem, p # Null, p \in Reach(n, a),
           \A q \in Mem \ {p} : n2[q].next = n[q].next, n2[p].next = a
    PROVE  Null \notin Reach(n2, p)
<1> DEFINE Stays(S) == \A q \in S : q # Null /\ q # p => n[q].next \in S
           R(x)     == {y \in Link : \A S \in SUBSET Link : x \in S /\ Stays(S) => y \in S}
           Q        == {x \in Link : Null \in R(x)}
<1>1. \A x \in Link : R(x) \in SUBSET Link /\ x \in R(x) /\ Stays(R(x))
  BY DEF Link
<1>2. \A x \in Link, S \in SUBSET Link : x \in S /\ Stays(S) => R(x) \subseteq S
  OBVIOUS
<1>3. p \in R(a)
  <2> SUFFICES ASSUME p \notin R(a) PROVE FALSE
    OBVIOUS
  <2>1. Closed(n, R(a)) /\ R(a) \in SUBSET Link /\ a \in R(a)
    BY <1>1 DEF Closed
  <2> HIDE DEF R
  <2> QED BY <2>1, ReachLeast
<1>4. R(p) \subseteq {p}
  <2>1. {p} \in SUBSET Link /\ Stays({p})
    BY DEF Link
  <2> HIDE DEF R, Stays
  <2> QED BY <1>2, <2>1 DEF Link
<1>5. Stays(Q)
  <2> SUFFICES ASSUME NEW q \in Q, q # Null, q # p
               PROVE  n[q].next \in Q
    OBVIOUS
  <2> DEFINE c == n[q].next
             S == {q} \cup R(c)
  <2>1. q \in Link /\ c \in Link /\ Null \in R(q) /\ q \in Mem
    BY DEF Link
  <2>2. R(c) \in SUBSET Link /\ c \in R(c) /\ Stays(R(c))
    BY <1>1, <2>1
  <2>3. S \in SUBSET Link /\ Stays(S)
    <3> HIDE DEF R
    <3> QED BY <2>1, <2>2
  <2>4. R(q) \subseteq S
    <3> HIDE DEF R, Stays
    <3> QED BY <1>2, <2>1, <2>3
  <2> QED BY <2>1, <2>4
<1>6. Null \notin R(a)
  <2> SUFFICES ASSUME Null \in R(a) PROVE FALSE
    OBVIOUS
  <2>1. a \in Q /\ Q \in SUBSET Link
    OBVIOUS
  <2>2. R(a) \subseteq Q
    <3> HIDE DEF R, Q, Stays
    <3> QED BY <1>2, <1>5, <2>1
  <2>3. p \in Q
    BY <1>3, <2>2
  <2>4. Null \in R(p)
    BY <2>3
  <2> HIDE DEF R
  <2> QED BY <2>4, <1>4
<1>7. Closed(n2, R(a)) /\ R(a) \in SUBSET Link
  <2>1. R(a) \in SUBSET Link /\ a \in R(a) /\ Stays(R(a))
    BY <1>1
  <2> HIDE DEF R
  <2> QED BY <2>1 DEF Closed, Link
<1> HIDE DEF R
<1> QED BY <1>3, <1>6, <1>7, ReachLeast

\* And a ring stays one, whatever is put in front of it.
LEMMA RingStays ==
    ASSUME NEW n, NEW n2, \A q \in Mem : n[q].next \in Link /\ n2[q].next \in Link,
           NEW a \in Link, Null \notin Reach(n, a), NEW p \in Mem, p # Null,
           \A q \in Reach(n, a) \ {p} : n2[q].next = n[q].next, n2[p].next = a
    PROVE  Null \notin Reach(n2, p)
<1> DEFINE T == {p} \cup Reach(n, a)
<1>1. /\ Reach(n, a) \in SUBSET Link /\ Closed(n, Reach(n, a)) /\ a \in Reach(n, a)
  BY ReachClosed
<1>2. T \in SUBSET Link /\ Closed(n2, T) /\ p \in T
  BY <1>1 DEF Closed, Link
<1>3. Reach(n2, p) \subseteq T
  BY <1>2, ReachLeast
<1> QED BY <1>3

-----------------------------------------------------------------------------
(* The pages a space's hash table knows, and the list through them.        *)
Known(h) == {hash[h][v] : v \in Va} \ {Null}

HashRight ==
    /\ \A h \in Mem, v \in Va : hash[h][v] # Null =>
          h \notin unused /\ hash[h][v] \notin unused /\ node[hash[h][v]].va = v
    /\ \A h, g \in Mem : \A v, w \in Va :
          hash[h][v] # Null /\ hash[h][v] = hash[g][w] => h = g /\ v = w

ListRight(h) == /\ head[h] \in Known(h) \cup {Null}
                /\ \A p \in Known(h) : node[p].next \in Known(h) \cup {Null}
                /\ IF h \in again THEN Null \notin Reach(node, head[h])
                   ELSE Reach(node, head[h]) = Known(h) \cup {Null}

(* What is loaded, and whose pages the host process has mapped.            *)
SpacesRight == /\ \A s \in live : as_ptr[s] \in Mem \ unused
               /\ \A s, r \in live : as_ptr[s] = as_ptr[r] => s = r
               /\ home[running] \in Space => vm_head = as_ptr[home[running]]
               /\ \A t \in Thread \ {running} :
                     home[t] \in Space => context[t] = as_ptr[home[t]]

HostRight == \A v \in Va :
    IF vm_head = Null THEN host[v] = Null
    ELSE IF hash[vm_head][v] = Null THEN host[v] = Null
    ELSE host[v] = node[hash[vm_head][v]].pa /\ node[hash[vm_head][v]].is_mapped

NativeInv == /\ NativeTypeOK
             /\ HashRight
             /\ \A h \in Mem : ListRight(h)
             /\ HostRight
             /\ arch = "native" => SpacesRight
             /\ arch = "native" /\ stopped = "hung" => again # {}

LEMMA InitNative == ASSUME ProgramInit, NativeInit
                    PROVE  NativeInv
<1> USE NativeAssumption, ProgramAssumption DEF ProgramInit, NativeInit
<1>1. NativeTypeOK
  <2>1. Blank \in [va : Va \cup {Null}, pa : MaybeFrame, next : Mem \cup {Null},
                   is_mapped : BOOLEAN]
    BY DEF Blank, MaybeFrame
  <2> QED BY <2>1 DEF NativeTypeOK, MaybeFrame
<1>2. HashRight /\ HostRight /\ SpacesRight
  BY DEF HashRight, HostRight, SpacesRight
<1>3. ASSUME NEW h \in Mem PROVE ListRight(h)
  <2>1. Known(h) = {} /\ head[h] = Null /\ h \notin again
    BY DEF Known
  <2>2. Reach(node, Null) = {Null}
    <3>1. Null \in Reach(node, Null)
      BY DEF Reach, Link
    <3>2. {Null} \in SUBSET Link /\ Closed(node, {Null})
      BY DEF Link, Closed
    <3>3. Reach(node, Null) \subseteq {Null}
      BY <3>2, ReachLeast
    <3> QED BY <3>1, <3>3
  <2> QED BY <2>1, <2>2 DEF ListRight
<1> QED BY <1>1, <1>2, <1>3 DEF NativeInv

-----------------------------------------------------------------------------
(* Steps that leave the lists and what is loaded alone.                    *)
LEMMA QuietNative ==
    ASSUME NativeInv, arch = "native",
           UNCHANGED <<arch, head, hash, node, vm_head, host, again>>,
           unused' \subseteq unused, NativeTypeOK',
           SpacesRight', stopped' = "hung" => again # {}
    PROVE  NativeInv'
<1>a. HashRight /\ HostRight /\ \A h \in Mem : ListRight(h)
  BY DEF NativeInv
<1>1. HashRight'
  BY <1>a DEF HashRight
<1>2. HostRight'
  BY <1>a DEF HostRight
<1>3. ASSUME NEW h \in Mem PROVE ListRight(h)'
  <2>1. Known(h)' = Known(h) /\ Reach(node, head[h])' = Reach(node, head[h])
    BY DEF Known, Reach, Closed
  <2> QED BY <1>a, <2>1 DEF ListRight
<1> QED BY <1>1, <1>2, <1>3 DEF NativeInv

LEMMA NativeProtectStep ==
    ASSUME NativeInv, ProgramTypeOK, NEW s \in Space, protect_native(s)
    PROVE  /\ NativeInv'
           /\ \/ dies("panicked")
              \/ /\ Opens(s) /\ UNCHANGED <<vm_head, host>>
                 /\ NativeTable' = [NativeTable EXCEPT ![s] = [v \in Va |-> Null]]
<1>1. arch = "native" /\ UNCHANGED arch /\ SpacesRight /\ NativeTypeOK
  BY DEF protect_native, Goes, NativeInv
<1>2. CASE dies("panicked")
  <2>1. /\ UNCHANGED <<as_ptr, head, hash, node, unused, vm_head, context, host, again,
                       live, home, running>>
        /\ stopped' = "panicked"
    BY <1>2 DEF dies, Stops, nativeVars
  <2>2. NativeTypeOK' /\ SpacesRight'
    BY <1>1, <2>1 DEF NativeTypeOK, SpacesRight
  <2> QED BY <1>1, <1>2, <2>1, <2>2, QuietNative
<1>3. CASE ~dies("panicked")
  <2>1. PICK h \in pgalloc(unused) :
             /\ Opens(s)
             /\ unused' = unused \ {h}
             /\ as_ptr' = [as_ptr EXCEPT ![s] = h]
             /\ UNCHANGED <<head, hash, node, vm_head, context, host, again>>
    BY <1>3 DEF protect_native
  <2>2. h \in unused /\ h \in Mem /\ h # Null
    BY <1>1, NativeAssumption DEF Pgalloc, NativeTypeOK
  <2>3. s \notin live /\ live' = live \cup {s} /\ UNCHANGED <<home, running, stopped>>
    BY <2>1 DEF Opens
  <2>4. /\ as_ptr' \in [Space -> Mem \cup {Null}] /\ as_ptr'[s] = h
        /\ \A r \in Space \ {s} : as_ptr'[r] = as_ptr[r]
    BY <1>1, <2>1, <2>2 DEF NativeTypeOK
  <2>5. NativeTypeOK'
    BY <1>1, <2>1, <2>2, <2>4 DEF NativeTypeOK
  <2>6. live \subseteq Space \ {s} /\ \A t \in Thread : home[t] # s
    BY <2>3 DEF ProgramTypeOK
  <2>7. SpacesRight'
    BY <1>1, <2>1, <2>2, <2>3, <2>4, <2>6 DEF SpacesRight, ProgramTypeOK
  <2>8. stopped' # "hung"
    BY <2>3 DEF protect_native, Goes
  <2>9. NativeInv'
    BY <1>1, <2>1, <2>5, <2>7, <2>8, QuietNative
  <2>10. \A v \in Va : hash[h][v] = Null
    BY <2>2 DEF NativeInv, HashRight
  <2>11. NativeTable' = [NativeTable EXCEPT ![s] = [v \in Va |-> Null]]
    BY <2>1, <2>3, <2>4, <2>6, <2>10 DEF NativeTable
  <2> QED BY <2>1, <2>9, <2>11
<1> QED BY <1>2, <1>3

LEMMA NativeUnprotectStep ==
    ASSUME NativeInv, ProgramTypeOK, NEW s \in Space, unprotect_native(s)
    PROVE  /\ NativeInv' /\ UNCHANGED <<vm_head, host>>
           /\ NativeTable' = [NativeTable EXCEPT ![s] = [v \in Va |-> Null]]
<1>1. /\ arch = "native" /\ SpacesRight /\ NativeTypeOK /\ stopped' # "hung"
      /\ live' = live \ {s} /\ s \in live
      /\ UNCHANGED <<arch, as_ptr, head, hash, node, unused, vm_head, context, host, again,
                     home, running, stopped>>
  BY DEF unprotect_native, Goes, Closes, NativeInv, nativeVars
<1>2. NativeTypeOK' /\ SpacesRight'
  BY <1>1 DEF NativeTypeOK, SpacesRight
<1>3. NativeInv'
  BY <1>1, <1>2, QuietNative
<1>4. NativeTable' = [NativeTable EXCEPT ![s] = [v \in Va |-> Null]]
  BY <1>1 DEF NativeTable
<1> QED BY <1>1, <1>3, <1>4

LEMMA NativeContextStep ==
    ASSUME NativeInv, ProgramTypeOK, NEW t \in Thread,
           \/ kcontext_native(t) \/ exit_native(t)
           \/ \E s \in Space : ucontext_native(t, s)
    PROVE  NativeInv' /\ UNCHANGED <<NativeTable, vm_head, host>>
<1>1. /\ arch = "native" /\ SpacesRight /\ NativeTypeOK /\ stopped' # "hung"
      /\ UNCHANGED <<arch, as_ptr, head, hash, node, unused, vm_head, host, again,
                     live, running, stopped>>
  BY DEF kcontext_native, exit_native, ucontext_native, Goes, Creates, Kills, NativeInv
<1>2. Kernel \notin Space /\ Absent \notin Space
  BY ProgramAssumption
<1>3. NativeTypeOK' /\ SpacesRight'
  <2>1. CASE kcontext_native(t)
    BY <1>1, <1>2, <2>1 DEF kcontext_native, Creates, NativeTypeOK, SpacesRight, ProgramTypeOK
  <2>2. CASE exit_native(t)
    BY <1>1, <1>2, <2>2 DEF exit_native, Kills, NativeTypeOK, SpacesRight, ProgramTypeOK
  <2>3. CASE \E s \in Space : ucontext_native(t, s)
    <3> PICK s \in Space : ucontext_native(t, s)
      BY <2>3
    <3>1. /\ home[t] = Absent /\ home' = [home EXCEPT ![t] = s]
          /\ context' = [context EXCEPT ![t] = as_ptr[s]]
      BY DEF ucontext_native, Creates
    <3>2. t # running
      BY <3>1 DEF ProgramTypeOK
    <3> QED BY <3>1, <3>2, <1>1, <1>2 DEF NativeTypeOK, SpacesRight, ProgramTypeOK
  <2> QED BY <2>1, <2>2, <2>3
<1>4. NativeInv'
  BY <1>1, <1>3, QuietNative
<1>5. UNCHANGED NativeTable
  BY <1>1 DEF NativeTable
<1> QED BY <1>1, <1>4, <1>5

-----------------------------------------------------------------------------
(* map: what it writes, in plain terms, for the page v of the VMHead h.    *)
Relinks(h, v, pp) ==
    /\ IF hash[h][v] = Null THEN pp \in unused ELSE pp = hash[h][v]
    /\ \A g \in Mem, w \in Va :
          hash'[g][w] = IF g = h /\ w = v THEN pp ELSE hash[g][w]
    /\ unused' = unused \ {pp}
    /\ \A g \in Mem : head'[g] = IF g = h THEN pp ELSE head[g]
    /\ \A p \in Mem \ {pp} : node'[p] = node[p]
    /\ node'[pp].va = v /\ node'[pp].next = head[h]
    /\ again' = IF hash[h][v] = Null THEN again ELSE again \cup {h}

LEMMA MapLists ==
    ASSUME NativeTypeOK, HashRight, \A g \in Mem : ListRight(g),
           NEW h \in Mem \ unused, NEW v \in Va, NEW pp \in Mem, Relinks(h, v, pp)
    PROVE  HashRight' /\ \A g \in Mem : ListRight(g)'
<1> USE DEF Relinks
<1>1. \A g \in Mem, w \in Va : ~(g = h /\ w = v) => hash[g][w] # pp
  BY NativeAssumption DEF HashRight
<1>2. HashRight'
  <2>1. \A g \in Mem, w \in Va : hash[g][w] \in Mem \cup {Null}
    BY DEF NativeTypeOK
  <2>2. \A g \in Mem, w \in Va : hash'[g][w] # Null =>
          g \notin unused' /\ hash'[g][w] \notin unused' /\ node'[hash'[g][w]].va = w
    BY <1>1, <2>1 DEF HashRight
  <2>3. \A g, k \in Mem : \A w, u \in Va :
          hash'[g][w] # Null /\ hash'[g][w] = hash'[k][u] => g = k /\ w = u
    BY <1>1 DEF HashRight
  <2> QED BY <2>2, <2>3 DEF HashRight
<1>3. /\ \A q \in Mem : node[q].next \in Link
      /\ \A g \in Mem : head[g] \in Link /\ Known(g) \in SUBSET Mem
      /\ pp # Null
  BY NativeAssumption DEF NativeTypeOK, Link, Known
<1>4. /\ \A q \in Mem : node[q].next \in Link /\ node'[q].next \in Link
      /\ \A q \in Mem \ {pp} : node'[q].next = node[q].next
  BY <1>3
<1>5. \A g \in Mem : /\ head[g] \in Known(g) \cup {Null}
                     /\ Closed(node, Known(g) \cup {Null})
  BY DEF ListRight, Closed
<1>6. ASSUME NEW g \in Mem, g # h
      PROVE  ListRight(g)'
  <2>1. Known(g)' = Known(g) /\ pp \notin Known(g)
    BY <1>1, <1>6 DEF Known
  <2>2. head'[g] = head[g] /\ (g \in again' <=> g \in again)
    BY <1>6
  <2>3. \A q \in Known(g) : node'[q].next = node[q].next
    BY <1>3, <2>1
  <2>4. Reach(node', head[g]) = Reach(node, head[g])
    <3> DEFINE K == Known(g)
    <3>1. Inside(node, node', head[g], K)
      BY <1>3, <1>5, <2>3 DEF Inside
    <3> HIDE DEF K
    <3> QED BY <3>1, <1>4, ReachSame
  <2>5. Reach(node, head[g])' = Reach(node', head'[g])
    BY DEF Reach, Closed
  <2> QED BY <2>1, <2>2, <2>3, <2>4, <2>5 DEF ListRight
<1>7. Reach(node, head[h])' = Reach(node', pp)
  BY DEF Reach, Closed
<1>8. ListRight(h)'
  <2>1. CASE hash[h][v] = Null
    <3>1. Known(h)' = Known(h) \cup {pp} /\ pp \notin Known(h)
      <4>1. \A w \in Va : w # v => hash'[h][w] = hash[h][w] /\ hash[h][w] # pp
        BY <1>1
      <4>2. hash'[h][v] = pp
        OBVIOUS
      <4> QED BY <2>1, <4>1, <4>2, <1>3 DEF Known
    <3>2. \A q \in Known(h) : node'[q] = node[q]
      BY <1>3, <3>1
    <3>3. /\ head'[h] = pp /\ pp \in Known(h)'
          /\ \A p \in Known(h)' : node'[p].next \in Known(h)' \cup {Null}
      BY <3>1, <3>2, <1>5 DEF ListRight
    <3>4. CASE h \in again
      <4>1. Null \notin Reach(node, head[h])
        BY <3>4 DEF ListRight
      <4>2. \A q \in Reach(node, head[h]) \ {pp} : node'[q].next = node[q].next
        <5>1. Reach(node, head[h]) \subseteq Link
          BY <1>3, ReachClosed
        <5> QED BY <5>1, <4>1 DEF Link
      <4>3. Null \notin Reach(node', pp)
        BY <1>3, <1>4, <4>1, <4>2, RingStays
      <4> QED BY <2>1, <3>3, <3>4, <4>3, <1>7 DEF ListRight
    <3>5. CASE h \notin again
      <4>1. Reach(node', pp) = {pp} \cup Reach(node, head[h])
        <5> DEFINE K == Known(h)
        <5>1. Inside(node, node', head[h], K) /\ pp \in Mem \ K
          BY <1>3, <1>5, <3>1, <3>2 DEF Inside
        <5> HIDE DEF K
        <5> QED BY <5>1, <1>3, <1>4, ReachFront
      <4>2. Reach(node, head[h]) = Known(h) \cup {Null}
        BY <3>5 DEF ListRight
      <4> QED BY <2>1, <3>1, <3>3, <3>5, <4>1, <4>2, <1>7 DEF ListRight
    <3> QED BY <3>4, <3>5
  <2>2. CASE hash[h][v] # Null
    <3>1. Known(h)' = Known(h) /\ pp \in Known(h)
      BY <2>2 DEF Known
    <3>2. /\ head'[h] = pp /\ h \in again'
          /\ \A p \in Known(h) : node'[p].next \in Known(h) \cup {Null}
      BY <2>2, <1>3, <1>5 DEF ListRight
    <3>3. Null \notin Reach(node', pp)
      <4>1. CASE h \in again
        <5>1. Null \notin Reach(node, head[h])
          BY <4>1 DEF ListRight
        <5>2. \A q \in Reach(node, head[h]) \ {pp} : node'[q].next = node[q].next
          <6>1. Reach(node, head[h]) \subseteq Link
            BY <1>3, ReachClosed
          <6> QED BY <6>1, <5>1 DEF Link
        <5> QED BY <1>3, <1>4, <5>1, <5>2, RingStays
      <4>2. CASE h \notin again
        <5>1. pp \in Reach(node, head[h])
          BY <4>2, <3>1 DEF ListRight
        <5>2. head[h] \in Link /\ pp # Null /\ node'[pp].next = head[h]
          BY <1>3
        <5> QED BY <1>4, <5>1, <5>2, ReachRing
      <4> QED BY <4>1, <4>2
    <3> QED BY <3>1, <3>2, <3>3, <1>7 DEF ListRight
  <2> QED BY <2>1, <2>2
<1> QED BY <1>2, <1>6, <1>8

LEMMA NativeMapStep ==
    ASSUME NativeInv, ProgramTypeOK,
           NEW s \in Space, NEW v \in Va, NEW f \in MaybeFrame, map_native(s, v, f)
    PROVE  /\ NativeInv'
           /\ \/ dies("panicked")
              \/ /\ Works(s) /\ UNCHANGED vm_head
                 /\ NativeTable' = [NativeTable EXCEPT ![s] = [@ EXCEPT ![v] = f]]
<1>1. /\ arch = "native" /\ UNCHANGED arch /\ s \in live /\ stopped = "no"
      /\ SpacesRight /\ NativeTypeOK /\ HashRight /\ HostRight
      /\ \A g \in Mem : ListRight(g)
  BY DEF map_native, Goes, NativeInv
<1>2. CASE dies("panicked")
  <2>1. /\ UNCHANGED <<as_ptr, head, hash, node, unused, vm_head, context, host, again,
                       live, home, running>>
        /\ stopped' = "panicked"
    BY <1>2 DEF dies, Stops, nativeVars
  <2>2. NativeTypeOK' /\ SpacesRight'
    BY <1>1, <2>1 DEF NativeTypeOK, SpacesRight
  <2> QED BY <1>1, <1>2, <2>1, <2>2, QuietNative
<1>3. CASE ~dies("panicked")
  <2> DEFINE h == as_ptr[s]
  <2>1. PICK pp \in NodeFor(h, v) :
             /\ Works(s)
             /\ again'  = IF hash[h][v] = Null THEN again ELSE again \cup {h}
             /\ hash'   = [hash EXCEPT ![h][v] = pp]
             /\ unused' = unused \ {pp}
             /\ node'   = [node EXCEPT ![pp] = [va |-> v, pa |-> f, next |-> Following(h),
                                                is_mapped |-> MapsNow(h)]]
             /\ head'   = [head EXCEPT ![h] = pp]
             /\ host'   = IF MapsNow(h) THEN [host EXCEPT ![v] = f] ELSE host
             /\ UNCHANGED <<as_ptr, vm_head, context>>
    BY <1>3 DEF map_native
  <2>2. UNCHANGED <<live, home, running, stopped>>
    BY <2>1 DEF Works
  <2>3. h \in Mem \ unused
    BY <1>1 DEF SpacesRight
  <2>4. /\ pp \in Mem
        /\ IF hash[h][v] = Null THEN pp \in unused ELSE pp = hash[h][v]
    BY <1>1, <2>1, <2>3, NativeAssumption DEF NodeFor, Pgalloc, NativeTypeOK
  <2> HIDE DEF h
  <2>5. /\ \A g \in Mem, w \in Va :
              hash'[g][w] = IF g = h /\ w = v THEN pp ELSE hash[g][w]
        /\ hash' \in [Mem -> [Va -> Mem \cup {Null}]]
    BY <1>1, <2>1, <2>3, <2>4 DEF NativeTypeOK
  <2>6. /\ \A p \in Mem \ {pp} : node'[p] = node[p]
        /\ node'[pp].va = v /\ node'[pp].next = head[h]
        /\ node'[pp].pa = f /\ node'[pp].is_mapped = (h = vm_head)
        /\ node' \in [Mem -> [va : Va \cup {Null}, pa : MaybeFrame,
                              next : Mem \cup {Null}, is_mapped : BOOLEAN]]
    <3>1. node \in [Mem -> [va : Va \cup {Null}, pa : MaybeFrame,
                            next : Mem \cup {Null}, is_mapped : BOOLEAN]]
          /\ head[h] \in Mem \cup {Null}
      BY <1>1, <2>3 DEF NativeTypeOK
    <3> QED BY <2>1, <2>4, <3>1 DEF Following, MapsNow
  <2>7. \A g \in Mem : head'[g] = IF g = h THEN pp ELSE head[g]
    BY <1>1, <2>1, <2>3 DEF NativeTypeOK
  <2>8. HashRight' /\ \A g \in Mem : ListRight(g)'
    <3>1. Relinks(h, v, pp)
      BY <2>1, <2>4, <2>5, <2>6, <2>7 DEF Relinks
    <3> QED BY <1>1, <2>3, <2>4, <3>1, MapLists
  <2>9. /\ host' \in [Va -> MaybeFrame]
        /\ \A w \in Va : host'[w] = IF h = vm_head /\ w = v THEN f ELSE host[w]
    BY <1>1, <2>1 DEF MapsNow, NativeTypeOK
  <2>10. NativeTypeOK'
    BY <1>1, <2>1, <2>3, <2>4, <2>5, <2>6, <2>9 DEF NativeTypeOK
  <2>11. SpacesRight'
    BY <1>1, <2>1, <2>2 DEF SpacesRight
  <2>12. pp # Null
    BY <2>4, NativeAssumption
  <2>13. \A g \in Mem, w \in Va : ~(g = h /\ w = v) => hash[g][w] # pp
    BY <1>1, <2>3, <2>4, <2>12 DEF HashRight
  <2>14. \A g \in Mem, w \in Va : hash[g][w] \in Mem \cup {Null}
    BY <1>1 DEF NativeTypeOK
  <2>15. HostRight'
    <3> SUFFICES ASSUME NEW w \in Va, vm_head # Null \/ host'[w] # Null
                 PROVE  IF vm_head = Null THEN host'[w] = Null
                        ELSE IF hash'[vm_head][w] = Null THEN host'[w] = Null
                        ELSE host'[w] = node'[hash'[vm_head][w]].pa
                             /\ node'[hash'[vm_head][w]].is_mapped
      BY <2>1 DEF HostRight
    <3>1. CASE vm_head = h /\ w = v
      BY <3>1, <2>3, <2>5, <2>6, <2>9, <2>12, NativeAssumption
    <3>2. CASE vm_head # Null /\ ~(vm_head = h /\ w = v)
      <4>1. vm_head \in Mem /\ hash'[vm_head][w] = hash[vm_head][w]
            /\ host'[w] = host[w] /\ hash[vm_head][w] # pp
        BY <1>1, <3>2, <2>5, <2>9, <2>13 DEF NativeTypeOK
      <4>2. hash[vm_head][w] # Null =>
              node'[hash[vm_head][w]] = node[hash[vm_head][w]]
        BY <4>1, <2>6, <2>14
      <4> QED BY <1>1, <3>2, <4>1, <4>2 DEF HostRight
    <3>3. CASE vm_head = Null
      BY <3>3, <1>1, <2>3, <2>9, NativeAssumption DEF HostRight
    <3> QED BY <3>1, <3>2, <3>3
  <2>16. NativeInv'
    BY <1>1, <2>2, <2>8, <2>10, <2>11, <2>15 DEF NativeInv
  <2>17. \A r \in live, w \in Va : NativeTable'[r][w] = IF r = s /\ w = v THEN f
                                                       ELSE NativeTable[r][w]
    <3> SUFFICES ASSUME NEW r \in live, NEW w \in Va
                 PROVE  NativeTable'[r][w] = IF r = s /\ w = v THEN f ELSE NativeTable[r][w]
      OBVIOUS
    <3> DEFINE g == as_ptr[r]
    <3>1. r \in Space /\ g \in Mem /\ (g = h <=> r = s)
      BY <1>1 DEF SpacesRight, ProgramTypeOK, h
    <3>2. /\ NativeTable'[r][w] = IF hash'[g][w] # Null THEN node'[hash'[g][w]].pa ELSE Null
          /\ NativeTable[r][w]  = IF hash[g][w] # Null THEN node[hash[g][w]].pa ELSE Null
      BY <3>1, <2>1, <2>2 DEF NativeTable
    <3> HIDE DEF g, NativeTable
    <3>3. CASE r = s /\ w = v
      BY <3>1, <3>2, <3>3, <2>5, <2>6, <2>12
    <3>4. CASE ~(r = s /\ w = v)
      <4>1. hash'[g][w] = hash[g][w] /\ hash[g][w] # pp
        BY <3>1, <3>4, <2>5, <2>13
      <4>2. hash[g][w] # Null => node'[hash[g][w]] = node[hash[g][w]]
        BY <3>1, <4>1, <2>6, <2>14
      <4> QED BY <3>2, <3>4, <4>1, <4>2
    <3> QED BY <3>3, <3>4
  <2>18. NativeTable' = [NativeTable EXCEPT ![s] = [@ EXCEPT ![v] = f]]
    <3> DEFINE T == [r \in Space |-> [w \in Va |-> IF r = s /\ w = v THEN f
                                                  ELSE NativeTable[r][w]]]
    <3>1. \A r \in Space, w \in Va : NativeTable'[r][w] = IF r = s /\ w = v THEN f
                                                         ELSE NativeTable[r][w]
      <4>1. \A r \in Space \ live, w \in Va : NativeTable'[r][w] = NativeTable[r][w]
        BY <2>2 DEF NativeTable
      <4> QED BY <4>1, <2>17, <1>1
    <3> DEFINE T1 == [r \in Space |-> [w \in Va |-> NativeTable'[r][w]]]
    <3>2. NativeTable' = T1
      BY DEF NativeTable
    <3>3. T1 = T
      <4> HIDE DEF NativeTable
      <4> QED BY <3>1
    <3>4. [NativeTable EXCEPT ![s] = [@ EXCEPT ![v] = f]] = T
      BY DEF NativeTable
    <3> QED BY <3>2, <3>3, <3>4
  <2> QED BY <2>1, <2>16, <2>18
<1> QED BY <1>2, <1>3

-----------------------------------------------------------------------------
(* What list_foreach comes by.                                             *)
LEMMA Lists ==
    ASSUME NativeInv, NEW h \in Mem
    PROVE  /\ Ends(h) <=> h \notin again
           /\ h \notin again => List(h) = Known(h)
<1>1. Visited(h) = Reach(node, head[h])
  BY DEF Visited, Follows, Reach, Closed, Link
<1>2. ListRight(h) /\ h # Null /\ Null \notin Known(h)
  BY NativeAssumption DEF NativeInv, Known
<1> QED BY <1>1, <1>2 DEF ListRight, Ends, List

LEMMA NativeImplies == ASSUME NativeInv PROVE ListWhole
<1>1. \A h \in Mem : Known(h) = {hash[h][v] : v \in Va} \ {Null}
  BY DEF Known
<1>2. arch = "native" /\ stopped = "hung" => again # {}
  BY DEF NativeInv
<1> QED BY <1>1, <1>2, Lists DEF ListWhole

(* __am_switch: unmaps the pages of one space and maps those of another.   *)
LEMMA SwitchLists ==
    ASSUME NativeInv, NEW new \in Mem \cup {Null}, new # vm_head,
           Ends(vm_head), Ends(new),
           host' = Host(new), node' = Flags(new), vm_head' = new,
           UNCHANGED <<head, hash, unused, again>>
    PROVE  /\ HashRight' /\ HostRight' /\ \A h \in Mem : ListRight(h)'
           /\ node' \in [Mem -> [va : Va \cup {Null}, pa : MaybeFrame,
                                 next : Mem \cup {Null}, is_mapped : BOOLEAN]]
           /\ host' \in [Va -> MaybeFrame]
           /\ \A p \in Mem : node'[p].pa = node[p].pa
<1>a. NativeTypeOK /\ HashRight /\ HostRight /\ \A h \in Mem : ListRight(h)
  BY DEF NativeInv
<1>b. /\ \A h \in Mem : Ends(h) => List(h) = Known(h)
      /\ List(Null) = {} /\ vm_head \in Mem \cup {Null} /\ Null \notin Mem
  BY <1>a, Lists, NativeAssumption DEF List, NativeTypeOK
<1>1. \A p \in Mem : /\ node'[p].va = node[p].va /\ node'[p].pa = node[p].pa
                     /\ node'[p].next = node[p].next
                     /\ node'[p] \in [va : Va \cup {Null}, pa : MaybeFrame,
                                      next : Mem \cup {Null}, is_mapped : BOOLEAN]
                     /\ p \in List(new) => node'[p].is_mapped
  <2> SUFFICES ASSUME NEW p \in Mem
               PROVE  /\ node'[p].va = node[p].va /\ node'[p].pa = node[p].pa
                      /\ node'[p].next = node[p].next
                      /\ node'[p] \in [va : Va \cup {Null}, pa : MaybeFrame,
                                       next : Mem \cup {Null}, is_mapped : BOOLEAN]
                      /\ p \in List(new) => node'[p].is_mapped
    OBVIOUS
  <2> DEFINE b == p \in List(new) \/ (node[p].is_mapped /\ ~Unmapped(p))
  <2>1. node'[p] = [node[p] EXCEPT !.is_mapped = b]
    BY DEF Flags
  <2>2. b \in BOOLEAN /\ (p \in List(new) => b)
    OBVIOUS
  <2>3. node[p] \in [va : Va \cup {Null}, pa : MaybeFrame,
                     next : Mem \cup {Null}, is_mapped : BOOLEAN]
    BY <1>a DEF NativeTypeOK
  <2> HIDE DEF b
  <2> QED BY <2>1, <2>2, <2>3
<1>2. node' \in [Mem -> [va : Va \cup {Null}, pa : MaybeFrame,
                         next : Mem \cup {Null}, is_mapped : BOOLEAN]]
  <2>1. node' = [p \in Mem |-> node'[p]]
    BY DEF Flags
  <2> QED BY <2>1, <1>1
<1>3. \A h \in Mem, v \in Va : hash[h][v] \in Mem \cup {Null}
  BY <1>a DEF NativeTypeOK
<1>4. HashRight'
  BY <1>a, <1>1, <1>3 DEF HashRight
<1>5. ASSUME NEW h \in Mem PROVE ListRight(h)'
  <2>1. Inside(node, node', head[h], Mem)
    BY <1>a, <1>1 DEF Inside, Closed, NativeTypeOK
  <2>2. \A q \in Mem : node[q].next \in Link /\ node'[q].next \in Link
    BY <1>a, <1>1 DEF NativeTypeOK, Link
  <2>3. Reach(node', head[h]) = Reach(node, head[h])
    BY <2>1, <2>2, ReachSame
  <2>4. Reach(node, head[h])' = Reach(node', head[h]) /\ Known(h)' = Known(h)
        /\ Known(h) \subseteq Mem
    BY <1>3 DEF Reach, Closed, Known
  <2> QED BY <1>a, <1>1, <2>3, <2>4 DEF ListRight
<1>6. ASSUME NEW v \in Va, ~\E p \in List(new) : node[p].va = v
      PROVE  host'[v] = Null
  <2>1. host'[v] = IF \E p \in Mem : Unmapped(p) /\ node[p].va = v THEN Null ELSE host[v]
    BY <1>6 DEF Host
  <2>2. ASSUME host[v] # Null
        PROVE  \E p \in Mem : Unmapped(p) /\ node[p].va = v
    <3> DEFINE p == hash[vm_head][v]
    <3>1. vm_head \in Mem /\ p # Null /\ node[p].is_mapped
      BY <1>a, <1>b, <2>2 DEF HostRight
    <3>2. p \in Mem /\ p \in Known(vm_head) /\ node[p].va = v
      BY <1>a, <1>3, <3>1 DEF HashRight, Known
    <3>3. p \in List(vm_head)
      BY <1>b, <3>1, <3>2
    <3> QED BY <3>1, <3>2, <3>3 DEF Unmapped
  <2> QED BY <2>1, <2>2
<1>7. ASSUME NEW v \in Va, new \in Mem, hash[new][v] # Null
      PROVE  /\ host'[v] = node[hash[new][v]].pa
             /\ hash[new][v] \in List(new) /\ hash[new][v] \in Mem
  <2> DEFINE p == hash[new][v]
  <2>1. List(new) = Known(new)
    BY <1>b, <1>7
  <2>2. p \in Mem /\ p \in List(new) /\ node[p].va = v
    BY <1>a, <1>3, <1>7, <2>1 DEF HashRight, Known
  <2>3. \A q \in List(new) : node[q].va = v => q = p
    BY <1>a, <1>7, <2>1 DEF HashRight, Known
  <2>4. (CHOOSE q \in List(new) : node[q].va = v) = p
    BY <2>2, <2>3
  <2>5. host'[v] = node[CHOOSE q \in List(new) : node[q].va = v].pa
    BY <2>2 DEF Host
  <2> QED BY <2>2, <2>4, <2>5
<1>8. ASSUME NEW v \in Va, new = Null \/ hash[new][v] = Null
      PROVE  host'[v] = Null
  <2>1. ~\E p \in List(new) : node[p].va = v
    <3>1. CASE new = Null
      BY <3>1, <1>b
    <3>2. CASE new \in Mem
      BY <3>2, <1>8, <1>a, <1>b DEF HashRight, Known
    <3> QED BY <3>1, <3>2
  <2> QED BY <2>1, <1>6
<1>9. HostRight'
  BY <1>1, <1>7, <1>8 DEF HostRight
<1>10. host' \in [Va -> MaybeFrame]
  <2>1. \A v \in Va : host'[v] \in MaybeFrame
    <3> SUFFICES ASSUME NEW v \in Va PROVE host'[v] \in MaybeFrame
      OBVIOUS
    <3>1. CASE new = Null \/ hash[new][v] = Null
      BY <3>1, <1>8 DEF MaybeFrame
    <3>2. CASE new \in Mem /\ hash[new][v] # Null
      BY <3>2, <1>7, <1>a DEF NativeTypeOK
    <3> QED BY <3>1, <3>2
  <2>2. host' = [v \in Va |-> host'[v]]
    BY DEF Host
  <2> QED BY <2>1, <2>2
<1> QED BY <1>1, <1>2, <1>4, <1>5, <1>9, <1>10

LEMMA NativeIrqStep ==
    ASSUME NativeInv, ProgramTypeOK, NEW t \in Thread, irq_handle_native(t)
    PROVE  /\ NativeInv' /\ UNCHANGED NativeTable
           /\ dies("hung") \/ Resumes(t)
<1>1. /\ arch = "native" /\ UNCHANGED arch /\ stopped = "no"
      /\ SpacesRight /\ NativeTypeOK
  BY DEF irq_handle_native, Goes, NativeInv
<1>2. CASE /\ ~(Ends(vm_head) /\ Ends(Returned(t)))
           /\ dies("hung")
  <2>1. /\ UNCHANGED <<as_ptr, head, hash, node, unused, vm_head, context, host, again,
                       live, home, running>>
        /\ stopped' = "hung"
    BY <1>2 DEF dies, Stops, nativeVars
  <2>2. NativeTypeOK' /\ SpacesRight'
    BY <1>1, <2>1 DEF NativeTypeOK, SpacesRight
  <2>3. again # {}
    <3>1. PICK h \in {vm_head, Returned(t)} : ~Ends(h)
      BY <1>2
    <3>2. h \in Mem
      BY <1>1, <3>1 DEF Returned, NativeTypeOK, Ends
    <3> QED BY <3>1, <3>2, Lists
  <2>4. UNCHANGED NativeTable
    BY <2>1 DEF NativeTable
  <2> QED BY <1>1, <1>2, <2>1, <2>2, <2>3, <2>4, QuietNative
<1>3. CASE /\ Resumes(t)
           /\ context' = [context EXCEPT ![running] = vm_head]
           /\ __am_switch(Returned(t))
           /\ UNCHANGED <<as_ptr, head, hash, unused, again>>
  <2> DEFINE new == Returned(t)
  <2>1. running' = t /\ UNCHANGED <<live, home, stopped>>
    BY <1>3 DEF Resumes
  <2>2. /\ new \in Mem \cup {Null}
        /\ home[t] \in Space => new = as_ptr[home[t]]
    BY <1>1 DEF Returned, SpacesRight, NativeTypeOK
  <2> HIDE DEF new
  <2>3. vm_head' = new
    BY <1>3 DEF __am_switch, new
  <2>4. SpacesRight'
    BY <1>1, <1>3, <2>1, <2>2, <2>3 DEF SpacesRight, NativeTypeOK, ProgramTypeOK
  <2>5. CASE new = vm_head /\ UNCHANGED <<node, host, vm_head>>
    <3>1. NativeTypeOK'
      BY <1>1, <1>3, <2>5 DEF NativeTypeOK
    <3>2. UNCHANGED NativeTable
      BY <1>3, <2>1, <2>5 DEF NativeTable
    <3> QED BY <1>1, <1>3, <2>1, <2>4, <2>5, <3>1, <3>2, QuietNative
  <2>6. CASE /\ new # vm_head /\ Ends(vm_head) /\ Ends(new)
             /\ host' = Host(new) /\ node' = Flags(new)
    <3>1. UNCHANGED <<head, hash, unused, again>>
      BY <1>3
    <3>2. /\ HashRight' /\ HostRight' /\ \A h \in Mem : ListRight(h)'
          /\ node' \in [Mem -> [va : Va \cup {Null}, pa : MaybeFrame,
                                next : Mem \cup {Null}, is_mapped : BOOLEAN]]
          /\ host' \in [Va -> MaybeFrame]
          /\ \A p \in Mem : node'[p].pa = node[p].pa
      BY <2>2, <2>3, <2>6, <3>1, SwitchLists
    <3>3. NativeTypeOK'
      BY <1>1, <1>3, <2>2, <2>3, <3>2 DEF NativeTypeOK
    <3>4. UNCHANGED NativeTable
      <4>1. \A s \in live, v \in Va : hash[as_ptr[s]][v] \in Mem \cup {Null}
        BY <1>1 DEF NativeTypeOK, SpacesRight
      <4> QED BY <1>3, <2>1, <3>2, <4>1 DEF NativeTable
    <3>5. NativeInv'
      BY <1>1, <2>1, <2>4, <3>2, <3>3 DEF NativeInv
    <3> QED BY <1>3, <3>4, <3>5
  <2> QED BY <1>3, <2>5, <2>6 DEF __am_switch, new
<1> QED BY <1>2, <1>3 DEF irq_handle_native

-----------------------------------------------------------------------------
Inv == /\ arch \in {"x86", "native"}
       /\ X86Inv /\ NativeInv

LEMMA InitInv == ASSUME Init PROVE Inv
BY X86Init, InitNative DEF Init, Inv

(* The steps of native, for the half of the invariant that is not x86's.   *)
LEMMA NativeStep == ASSUME ProgramTypeOK, NativeInv, NativeNext
                    PROVE  ProgramTypeOK' /\ NativeInv' /\ UNCHANGED arch
<1>1. UNCHANGED arch
  BY DEF NativeNext, Goes, protect_native, unprotect_native, map_native, ucontext_native,
         kcontext_native, exit_native, irq_handle_native
<1>2. CASE \E s \in Space : protect_native(s)
  BY <1>1, <1>2, NativeProtectStep, ProgramTypes DEF dies
<1>3. CASE \E s \in Space : unprotect_native(s)
  BY <1>1, <1>3, NativeUnprotectStep, ProgramTypes DEF unprotect_native
<1>4. CASE \E s \in Space : \E v \in Va, f \in MaybeFrame : map_native(s, v, f)
  BY <1>1, <1>4, NativeMapStep, ProgramTypes DEF dies, Works
<1>5. CASE \E t \in Thread : \/ kcontext_native(t) \/ exit_native(t)
                             \/ \E s \in Space : ucontext_native(t, s)
  BY <1>1, <1>5, NativeContextStep, ProgramTypes
  DEF kcontext_native, exit_native, ucontext_native
<1>6. CASE \E t \in Thread : irq_handle_native(t)
  BY <1>1, <1>6, NativeIrqStep, ProgramTypes DEF dies
<1> QED BY <1>2, <1>3, <1>4, <1>5, <1>6 DEF NativeNext

LEMMA StepInv == ASSUME Inv, [Next]_vars PROVE Inv'
<1>1. CASE X86Next /\ UNCHANGED nativeVars
  <2>1. X86Inv' /\ arch = "x86" /\ UNCHANGED arch
    BY <1>1, X86Step DEF Inv, X86Next, Goes, protect_x86, unprotect_x86, map_x86,
       ucontext_x86, kcontext_x86, exit_x86, irq_handle_x86, tlb_fill
  <2>2. NativeInv'
    <3>1. UNCHANGED <<as_ptr, head, hash, node, unused, vm_head, context, host, again>>
      BY <1>1 DEF nativeVars
    <3>2. NativeTypeOK' /\ HashRight' /\ HostRight'
      BY <3>1 DEF Inv, NativeInv, NativeTypeOK, HashRight, HostRight
    <3>3. ASSUME NEW h \in Mem PROVE ListRight(h)'
      <4>1. Known(h)' = Known(h) /\ Reach(node, head[h])' = Reach(node, head[h])
        BY <3>1 DEF Known, Reach, Closed
      <4> QED BY <3>1, <4>1 DEF ListRight, Inv, NativeInv
    <3> QED BY <2>1, <3>2, <3>3 DEF NativeInv
  <2> QED BY <2>1, <2>2 DEF Inv
<1>2. CASE NativeNext /\ UNCHANGED x86Vars
  <2>1. ProgramTypeOK' /\ NativeInv' /\ UNCHANGED arch /\ arch = "native"
    BY <1>2, NativeStep DEF Inv, X86Inv, NativeNext, Goes, protect_native, unprotect_native,
       map_native, ucontext_native, kcontext_native, exit_native, irq_handle_native
  <2>2. X86TypeOK'
    BY <1>2 DEF Inv, X86Inv, X86TypeOK, x86Vars
  <2> QED BY <2>1, <2>2 DEF Inv, X86Inv
<1>3. CASE UNCHANGED vars
  <2>1. UNCHANGED <<programVars, x86Vars>> /\ UNCHANGED arch
    BY <1>3 DEF vars, programVars
  <2>2. UNCHANGED <<as_ptr, head, hash, node, unused, vm_head, context, host, again,
                    live, home, running, stopped>>
    BY <1>3 DEF vars, nativeVars, programVars
  <2>3. NativeInv'
    <3>1. NativeTypeOK' /\ HashRight' /\ HostRight'
      BY <2>2 DEF Inv, NativeInv, NativeTypeOK, HashRight, HostRight
    <3>2. ASSUME NEW h \in Mem PROVE ListRight(h)'
      <4>1. Known(h)' = Known(h) /\ Reach(node, head[h])' = Reach(node, head[h])
        BY <2>2 DEF Known, Reach, Closed
      <4> QED BY <2>2, <4>1 DEF ListRight, Inv, NativeInv
    <3> QED BY <2>1, <2>2, <3>1, <3>2 DEF Inv, NativeInv, SpacesRight
  <2> QED BY <2>1, <2>3, X86Stutter DEF Inv
<1> QED BY <1>1, <1>2, <1>3 DEF Next

LEMMA InvAlways == Spec => []Inv
BY InitInv, StepInv, PTL DEF Spec

(* Every variable of the kernel and of both machines keeps its type.       *)
THEOREM VmeTypes == Spec => []VmeTypeOK
<1>1. Inv => VmeTypeOK
  BY DEF Inv, X86Inv, NativeInv, VmeTypeOK
<1> QED BY <1>1, InvAlways, PTL

(* x86: every page of pgalloc is free or a table of one space, whatever is *)
(* mapped, torn down and protected again.                                  *)
THEOREM VmeTablesOwned == Spec => []TablesOwned
<1>1. Inv => TablesOwned
  BY X86Implies DEF Inv
<1> QED BY <1>1, InvAlways, PTL

(* x86: the directory that is loaded has the kernel in it.                 *)
THEOREM VmeKernelMapped == Spec => []KernelAlwaysMapped
<1>1. Inv => KernelAlwaysMapped
  BY X86Implies DEF Inv
<1> QED BY <1>1, InvAlways, PTL

(* native: the list of a space ends and holds what its hash table knows,   *)
(* until a page of it is mapped a second time.                             *)
THEOREM VmeListWhole == Spec => []ListWhole
<1>1. Inv => ListWhole
  BY NativeImplies DEF Inv
<1> QED BY <1>1, InvAlways, PTL

-----------------------------------------------------------------------------
(* What the running thread sees is its table, and on x86 what the          *)
(* processor has cached.                                                   *)
AbsTable == IF arch = "x86" THEN X86Table ELSE NativeTable
Cached   == IF arch = "x86" THEN tlb ELSE {}

MappedIn(m) == {<<v, m[v]>> : v \in {w \in Va : m[w] # Null}}

SeenShape == Seen = IF home[running] = Kernel THEN {}
                    ELSE Cached \cup MappedIn(AbsTable[home[running]])

LEMMA SeenIs == Inv => SeenShape
<1> SUFFICES ASSUME Inv, home[running] # Kernel
             PROVE  Seen = Cached \cup MappedIn(AbsTable[home[running]])
  BY DEF Seen, SeenShape
<1>1. home[running] \in Space /\ home[running] \in live /\ running \in Thread
  BY DEF Inv, X86Inv, ProgramTypeOK
<1>2. CASE arch = "x86"
  <2>1. \A v \in Va : X86Table[home[running]][v] = Translate(mem, cr3, v)
    BY <1>1, <1>2, LoadedTranslate DEF Inv
  <2>2. X86Seen = tlb \cup MappedIn(X86Table[home[running]])
    <3> DEFINE m == X86Table[home[running]]
    <3> HIDE DEF m
    <3>1. \A v \in Va : m[v] = Translate(mem, cr3, v)
      BY <2>1 DEF m
    <3>2. MappedIn(m) = {<<v, Translate(mem, cr3, v)>> :
                            v \in {w \in Va : Translate(mem, cr3, w) # Null}}
      BY <3>1 DEF MappedIn
    <3> QED BY <3>2 DEF X86Seen, m
  <2> QED BY <1>2, <2>2 DEF Seen, Cached, AbsTable
<1>3. CASE arch = "native"
  <2>1. /\ SpacesRight /\ HostRight /\ vm_head = as_ptr[home[running]] /\ vm_head # Null
    BY <1>1, <1>3, NativeAssumption DEF Inv, NativeInv, SpacesRight
  <2>2. \A v \in Va : NativeTable[home[running]][v] = host[v]
    BY <1>1, <2>1 DEF NativeTable, HostRight
  <2>3. NativeSeen = MappedIn(NativeTable[home[running]])
    <3> DEFINE m == NativeTable[home[running]]
    <3> HIDE DEF m
    <3>1. \A v \in Va : m[v] = host[v]
      BY <2>2 DEF m
    <3>2. MappedIn(m) = {<<v, host[v]>> : v \in {w \in Va : host[w] # Null}}
      BY <3>1 DEF MappedIn
    <3> QED BY <3>2 DEF NativeSeen, m
  <2> QED BY <1>3, <2>3 DEF Seen, Cached, AbsTable
<1> QED BY <1>2, <1>3 DEF Inv

(* A step that caches nothing, and empties the cache when it switches.     *)
CacheRight == home'[running'] \in Space =>
                 Cached' = {} \/ (Cached' = Cached /\ running' = running
                                  /\ home[running] # Kernel)

LEMMA SeesRight == ASSUME Inv, Inv', CacheRight PROVE AS!Sees
<1> DEFINE T == MappedIn(AbsTable'[home'[running']])
<1>1. home'[running'] \in Space \cup {Kernel} /\ Kernel \notin Space
  BY ProgramAssumption DEF Inv, X86Inv, ProgramTypeOK
<1>2. Seen' = IF home'[running'] = Kernel THEN {} ELSE Cached' \cup T
  <2>1. SeenShape'
    BY SeenIs, PTL
  <2>2. MappedIn(AbsTable[home[running]])' = T
    BY DEF MappedIn
  <2> QED BY <2>1, <2>2 DEF SeenShape
<1>3. home'[running'] \in Space =>
         T \subseteq Seen' /\ Seen' \subseteq T \cup (IF running' = running THEN Seen ELSE {})
  BY <1>1, <1>2, SeenIs DEF CacheRight, SeenShape
<1>4. T = AS!Mapped((IF arch = "x86" THEN X86Table ELSE NativeTable)'[home'[running']])
  BY DEF MappedIn, AS!Mapped, AbsTable
<1> QED BY <1>1, <1>2, <1>3, <1>4 DEF AS!Sees

(* How a step of either machine is one of AddressSpace.                    *)
AbsStep == \/ UNCHANGED <<live, home, running, AbsTable, Cached>>
           \/ UNCHANGED <<live, home, running, AbsTable, Seen>>
           \/ /\ CacheRight
              /\ \/ \E s \in Space :
                      /\ Opens(s) \/ Closes(s)
                      /\ AbsTable' = [AbsTable EXCEPT ![s] = [v \in Va |-> Null]]
                 \/ \E s \in Space, v \in Va, f \in MaybeFrame :
                      Works(s) /\ AbsTable' = [AbsTable EXCEPT ![s] = [@ EXCEPT ![v] = f]]
                 \/ /\ UNCHANGED AbsTable
                    /\ \E t \in Thread :
                         \/ \E h \in live \cup {Kernel} : Creates(t, h)
                         \/ Kills(t) \/ Resumes(t)

LEMMA AbsStepIs == ASSUME Inv, Inv', AbsStep PROVE [AS!Next]_(AS!vars)
<1>1. CASE UNCHANGED <<live, home, running, AbsTable, Cached>>
  <2>1. SeenShape /\ SeenShape'
    BY SeenIs, PTL
  <2>2. MappedIn(AbsTable[home[running]])' = MappedIn(AbsTable[home[running]])
    BY <1>1 DEF MappedIn
  <2>3. UNCHANGED Seen
    BY <1>1, <2>1, <2>2 DEF SeenShape
  <2> QED BY <1>1, <2>3 DEF AS!vars, AbsTable
<1>2. CASE UNCHANGED <<live, home, running, AbsTable, Seen>>
  BY <1>2 DEF AS!vars, AbsTable
<1>3. CASE CacheRight /\ ~UNCHANGED <<live, home, running, AbsTable, Cached>>
                      /\ ~UNCHANGED <<live, home, running, AbsTable, Seen>>
  <2>1. AS!Sees
    BY <1>3, SeesRight
  <2>2. AS!Step
    <3>1. CASE \E s \in Space : (Opens(s) \/ Closes(s))
                  /\ AbsTable' = [AbsTable EXCEPT ![s] = [v \in Va |-> Null]]
      BY <3>1 DEF Opens, Closes, AbsTable, AS!Step, AS!Protect, AS!Unprotect, AS!Empty
    <3>2. CASE \E s \in Space, v \in Va, f \in MaybeFrame :
                 Works(s) /\ AbsTable' = [AbsTable EXCEPT ![s] = [@ EXCEPT ![v] = f]]
      BY <3>2 DEF Works, AbsTable, AS!Step, AS!Map, MaybeFrame
    <3>3. CASE /\ UNCHANGED AbsTable
               /\ \E t \in Thread : \E h \in live \cup {Kernel} : Creates(t, h)
      <4>1. live \subseteq Space
        BY DEF Inv, X86Inv, ProgramTypeOK
      <4> QED BY <3>3, <4>1 DEF Creates, AbsTable, AS!Step, AS!Create
    <3>4. CASE UNCHANGED AbsTable /\ \E t \in Thread : Kills(t) \/ Resumes(t)
      BY <3>4 DEF Kills, Resumes, AbsTable, AS!Step, AS!Exit, AS!Switch
    <3> QED BY <1>3, <3>1, <3>2, <3>3, <3>4 DEF AbsStep
  <2> QED BY <2>1, <2>2 DEF AS!Next
<1> QED BY <1>1, <1>2, <1>3 DEF AbsStep

LEMMA X86AbsStep == ASSUME Inv, Inv', X86Next PROVE AbsStep
<1>1. /\ arch = "x86" /\ arch' = "x86" /\ X86Inv /\ ProgramTypeOK
      /\ Kernel \notin Space /\ Kernel # Absent
  BY ProgramAssumption DEF Inv, X86Inv, X86Next, Goes, protect_x86, unprotect_x86, map_x86,
     ucontext_x86, kcontext_x86, exit_x86, irq_handle_x86, tlb_fill
<1>2. /\ AbsTable = X86Table /\ AbsTable' = X86Table'
      /\ Cached = tlb /\ Cached' = tlb'
  BY <1>1 DEF AbsTable, Cached
<1>3. ASSUME UNCHANGED <<tlb, running>>, home'[running] = home[running]
      PROVE  CacheRight
  BY <1>1, <1>2, <1>3 DEF CacheRight
<1>4. CASE \E s \in Space : protect_x86(s)
  <2> PICK s \in Space : protect_x86(s)
    BY <1>4
  <2>1. CASE Stops("panicked") /\ UNCHANGED <<X86Table, tlb>>
    BY <1>2, <2>1 DEF Stops, AbsStep
  <2>2. CASE Opens(s) /\ X86Table' = [X86Table EXCEPT ![s] = [v \in Va |-> Null]]
    <3>1. UNCHANGED <<tlb, running, home>>
      BY <2>2 DEF protect_x86, Opens, panic
    <3> QED BY <1>2, <1>3, <2>2, <3>1 DEF AbsStep
  <2> QED BY <1>1, <2>1, <2>2, ProtectStep
<1>5. CASE \E s \in Space : unprotect_x86(s)
  <2> PICK s \in Space : unprotect_x86(s)
    BY <1>5
  <2>1. Closes(s) /\ UNCHANGED <<tlb, running, home>>
    BY DEF unprotect_x86, Closes
  <2> QED BY <1>1, <1>2, <1>3, <2>1, UnprotectStep DEF AbsStep
<1>6. CASE \E s \in Space : \E v \in Va, f \in MaybeFrame : map_x86(s, v, f)
  <2> PICK s \in Space, v \in Va, f \in MaybeFrame : map_x86(s, v, f)
    BY <1>6
  <2>1. CASE Stops("panicked") /\ UNCHANGED <<X86Table, tlb>>
    BY <1>2, <2>1 DEF Stops, AbsStep
  <2>2. CASE Works(s) /\ X86Table' = [X86Table EXCEPT ![s] = [@ EXCEPT ![v] = f]]
    <3>1. UNCHANGED <<tlb, running, home>>
      BY <2>2 DEF map_x86, Works, panic
    <3> QED BY <1>2, <1>3, <2>2, <3>1 DEF AbsStep
  <2> QED BY <1>1, <2>1, <2>2, MapStep
<1>7. CASE \E t \in Thread : kcontext_x86(t) \/ \E s \in Space : ucontext_x86(t, s)
  <2> PICK t \in Thread : kcontext_x86(t) \/ \E s \in Space : ucontext_x86(t, s)
    BY <1>7
  <2>1. /\ \E h \in live \cup {Kernel} : Creates(t, h)
        /\ UNCHANGED tlb
    BY DEF kcontext_x86, ucontext_x86
  <2>2. UNCHANGED running /\ home'[running] = home[running]
    BY <1>1, <2>1 DEF Creates, ProgramTypeOK
  <2>3. UNCHANGED X86Table
    BY <1>1, ContextStep
  <2> QED BY <1>2, <1>3, <2>1, <2>2, <2>3 DEF AbsStep
<1>8. CASE \E t \in Thread : exit_x86(t)
  <2> PICK t \in Thread : exit_x86(t)
    BY <1>8
  <2>1. Kills(t) /\ UNCHANGED tlb
    BY DEF exit_x86
  <2>2. UNCHANGED running /\ home'[running] = home[running]
    BY <1>1, <2>1 DEF Kills, ProgramTypeOK
  <2>3. UNCHANGED X86Table
    BY <1>1, ContextStep
  <2> QED BY <1>2, <1>3, <2>1, <2>2, <2>3 DEF AbsStep
<1>9. CASE \E t \in Thread : irq_handle_x86(t)
  <2> PICK t \in Thread : irq_handle_x86(t)
    BY <1>9
  <2>1. /\ Resumes(t) /\ running' = t /\ UNCHANGED <<home, ptr>>
        /\ ctx' = [ctx EXCEPT ![running] = cr3] /\ Loads(ctx'[t])
    BY DEF irq_handle_x86, Resumes
  <2>2. UNCHANGED X86Table
    BY <1>1, ContextStep
  <2>3. ASSUME home[t] \in Space PROVE ctx'[t] # Null
    <3>1. /\ cr3 # Null /\ ctx \in [Thread -> Table \cup {Null}] /\ home[t] \in live
          /\ t # running => ctx[t] = ptr[home[t]]
          /\ \A s \in live : ptr[s] # Null
      BY <1>1, <2>3, X86Assumption DEF X86Inv, X86TypeOK, ContextsRight, Layout, Directories,
                                       ProgramTypeOK
    <3> QED BY <2>1, <3>1
  <2>4. CacheRight
    BY <1>2, <2>1, <2>3 DEF CacheRight, Loads, set_cr3
  <2> QED BY <1>2, <2>1, <2>2, <2>4 DEF AbsStep
<1>10. CASE \E v \in Va : tlb_fill(v)
  <2> PICK v \in Va : tlb_fill(v)
    BY <1>10
  <2>1. UNCHANGED <<X86Table, X86Seen, live, home, running>>
    BY <1>1, FillStep DEF tlb_fill
  <2>2. UNCHANGED Seen
    BY <1>1, <2>1 DEF Seen
  <2> QED BY <1>2, <2>1, <2>2 DEF AbsStep
<1> QED BY <1>4, <1>5, <1>6, <1>7, <1>8, <1>9, <1>10 DEF X86Next

LEMMA NativeAbsStep == ASSUME Inv, Inv', NativeNext PROVE AbsStep
<1>1. arch = "native" /\ arch' = "native" /\ NativeInv /\ ProgramTypeOK
  BY DEF Inv, X86Inv, NativeNext, Goes, protect_native, unprotect_native, map_native,
     ucontext_native, kcontext_native, exit_native, irq_handle_native
<1>2. /\ AbsTable = NativeTable /\ AbsTable' = NativeTable'
      /\ Cached = {} /\ Cached' = {} /\ CacheRight
  BY <1>1 DEF AbsTable, Cached, CacheRight
<1>3. ASSUME NEW how, dies(how) PROVE AbsStep
  <2>1. UNCHANGED <<live, home, running, as_ptr, hash, node>>
    BY <1>3 DEF dies, Stops, nativeVars
  <2>2. UNCHANGED NativeTable
    BY <2>1 DEF NativeTable
  <2> QED BY <1>2, <2>1, <2>2 DEF AbsStep
<1>4. CASE \E s \in Space : protect_native(s)
  BY <1>1, <1>2, <1>3, <1>4, NativeProtectStep DEF AbsStep
<1>5. CASE \E s \in Space : unprotect_native(s)
  BY <1>1, <1>2, <1>5, NativeUnprotectStep DEF AbsStep, unprotect_native
<1>6. CASE \E s \in Space : \E v \in Va, f \in MaybeFrame : map_native(s, v, f)
  BY <1>1, <1>2, <1>3, <1>6, NativeMapStep DEF AbsStep
<1>7. CASE \E t \in Thread : \/ kcontext_native(t) \/ exit_native(t)
                             \/ \E s \in Space : ucontext_native(t, s)
  BY <1>1, <1>2, <1>7, NativeContextStep
  DEF AbsStep, kcontext_native, exit_native, ucontext_native
<1>8. CASE \E t \in Thread : irq_handle_native(t)
  BY <1>1, <1>2, <1>3, <1>8, NativeIrqStep DEF AbsStep
<1> QED BY <1>4, <1>5, <1>6, <1>7, <1>8 DEF NativeNext

(* Both machines keep the promise of AddressSpace: map changes one page of *)
(* one space, and a thread sees the pages of its own space and no other.   *)
THEOREM VmeImplements == Spec => ImplementsAddressSpace
<1>1. Init => AS!Init
  <2> SUFFICES ASSUME Init PROVE AS!Init
    OBVIOUS
  <2>1. live = {} /\ running \in Thread
        /\ home = [t \in Thread |-> IF t = running THEN Kernel ELSE Absent]
    BY ProgramAssumption DEF Init, ProgramInit
  <2>2. home[running] = Kernel
    BY <2>1
  <2>3. (IF arch = "x86" THEN X86Table ELSE NativeTable) = [s \in Space |-> AS!Empty]
    BY <2>1 DEF X86Table, NativeTable, AS!Empty
  <2> QED BY <2>1, <2>2, <2>3 DEF AS!Init, Seen
<1>2. Inv /\ Inv' /\ [Next]_vars => [AS!Next]_(AS!vars)
  <2> SUFFICES ASSUME Inv, Inv', [Next]_vars PROVE [AS!Next]_(AS!vars)
    OBVIOUS
  <2>1. CASE X86Next
    BY <2>1, X86AbsStep, AbsStepIs
  <2>2. CASE NativeNext
    BY <2>2, NativeAbsStep, AbsStepIs
  <2>3. CASE UNCHANGED vars
    <3>1. UNCHANGED <<arch, live, home, running, ptr, mem, tlb, as_ptr, hash, node>>
      BY <2>3 DEF vars, programVars, x86Vars, nativeVars
    <3>2. UNCHANGED <<AbsTable, Cached>>
      BY <3>1 DEF AbsTable, Cached, X86Table, NativeTable, Translate
    <3> QED BY <3>1, <3>2, AbsStepIs DEF AbsStep
  <2> QED BY <2>1, <2>2, <2>3 DEF Next
<1> QED BY <1>1, <1>2, InvAlways, PTL DEF Spec, ImplementsAddressSpace, AS!Spec
=============================================================================
