---------------------------- MODULE X86VmeProofs ----------------------------
(***************************************************************************)
(* What holds of the page tables of X86Vme after every step, for any       *)
(* number of spaces, threads and pages.  VmeProofs states the theorems.    *)
(***************************************************************************)
EXTENDS X86Vme, TLAPS

HasTable(P, m, s, i) == m[P[s]][i].user
TableOf(P, m, s, i)  == m[P[s]][i].to

Entry      == [to : Table \cup Frame \cup {KernelTable, Null}, user : BOOLEAN]
TablesType == [Table -> [Index -> Entry]]

(* The shape of the tables of the spaces L with directories P, when m is   *)
(* the memory and F is free.                                               *)
Directories(L, P, m, F) ==
    /\ \A s \in L : P[s] \in Table \ (F \cup {Kpt})
    /\ \A s, r \in L : P[s] = P[r] => s = r

KernelPart(L, P, m) ==
    /\ \A i \in Index : ~m[Kpt][i].user
    /\ \A s \in L, k \in KIndex : m[P[s]][k] = m[Kpt][k]

UserPart(L, P, m, F) == \A s \in L, i \in UIndex :
    /\ ~HasTable(P, m, s, i) => m[P[s]][i].to = Null
    /\ HasTable(P, m, s, i) =>
         /\ TableOf(P, m, s, i) \in Table \ (F \cup {Kpt})
         /\ \A r \in L : TableOf(P, m, s, i) # P[r]
         /\ \A j \in Index : m[TableOf(P, m, s, i)][j].to \in MaybeFrame

OneOwner(L, P, m) == \A s, r \in L : \A i, j \in UIndex :
    /\ HasTable(P, m, s, i) /\ HasTable(P, m, r, j)
    /\ TableOf(P, m, s, i) = TableOf(P, m, r, j)
    => s = r /\ i = j

NoneLost(L, P, m, F) == \A p \in Table \ (F \cup {Kpt}) :
    \E s \in L : \/ p = P[s]
                 \/ \E i \in UIndex : HasTable(P, m, s, i) /\ TableOf(P, m, s, i) = p

Layout(L, P, m, F) == /\ L \subseteq Space /\ P \in [Space -> Table \cup {Null}]
                      /\ m \in TablesType /\ F \subseteq Table \ {Kpt}
                      /\ Directories(L, P, m, F)
                      /\ KernelPart(L, P, m)
                      /\ UserPart(L, P, m, F)
                      /\ OneOwner(L, P, m)
                      /\ NoneLost(L, P, m, F)

(* Whose directory is loaded, and which the contexts hold.                 *)
Directory(pd) == pd = Kpt \/ \E s \in live : pd = ptr[s]

ContextsRight ==
    /\ Directory(cr3)
    /\ home[running] \in Space => cr3 = ptr[home[running]]
    /\ \A t \in Thread \ {running} :
          /\ home[t] # Absent => ctx[t] = Null \/ Directory(ctx[t])
          /\ home[t] \in Space => ctx[t] = ptr[home[t]]

X86Inv == /\ ProgramTypeOK /\ X86TypeOK
          /\ arch = "x86" => Layout(live, ptr, mem, free) /\ ContextsRight

-----------------------------------------------------------------------------
(* A page that pgalloc gives is a free one.                                *)
LEMMA FreePages == ASSUME NEW F \in SUBSET Table, NEW p \in pgalloc(F)
                   PROVE  p \in F
BY X86Assumption DEF Pgalloc

(* protect: the new directory has the kernel's part and an empty user's.   *)
LEMMA ProtectLayout ==
    ASSUME NEW L, NEW P, NEW m, NEW F, Layout(L, P, m, F),
           NEW s \in Space \ L, NEW upt \in F,
           NEW m2 \in TablesType,
           \A p \in Table \ {upt} : m2[p] = m[p],
           \A k \in KIndex : m2[upt][k] = m[Kpt][k],
           \A i \in UIndex : ~m2[upt][i].user /\ m2[upt][i].to = Null
    PROVE  Layout(L \cup {s}, [P EXCEPT ![s] = upt], m2, F \ {upt})
<1> DEFINE P2 == [P EXCEPT ![s] = upt]
           L2 == L \cup {s}
           F2 == F \ {upt}
<1> USE DEF HasTable, TableOf
<1>a. /\ Directories(L, P, m, F) /\ KernelPart(L, P, m) /\ UserPart(L, P, m, F)
      /\ OneOwner(L, P, m) /\ NoneLost(L, P, m, F)
      /\ L \subseteq Space /\ P \in [Space -> Table \cup {Null}]
      /\ m \in TablesType /\ F \subseteq Table \ {Kpt}
  BY DEF Layout
<1>b. Kpt \in Table /\ UIndex \cap KIndex = {}
  BY X86Assumption
<1>1. /\ P2 \in [Space -> Table \cup {Null}] /\ F2 \subseteq Table \ {Kpt}
      /\ L2 \subseteq Space /\ upt # Kpt
  BY <1>a
<1>3. /\ \A r \in L : P2[r] = P[r] /\ P[r] # upt /\ P[r] \in Table
      /\ P2[s] = upt /\ s \notin L
  BY <1>a DEF Directories
<1>5. Directories(L2, P2, m2, F2)
  BY <1>a, <1>1, <1>3 DEF Directories
<1>6. KernelPart(L2, P2, m2)
  <2>1. m2[Kpt] = m[Kpt]
    BY <1>1, <1>b
  <2>2. \A r \in L : m2[P2[r]] = m[P[r]]
    BY <1>3
  <2> QED BY <2>1, <2>2, <1>3, <1>a DEF KernelPart
<1>8. \A r \in L, i \in UIndex : m2[P2[r]][i] = m[P[r]][i]
  BY <1>3
<1>9. UserPart(L2, P2, m2, F2)
  <2> SUFFICES ASSUME NEW r \in L2, NEW i \in UIndex
               PROVE  /\ ~HasTable(P2, m2, r, i) => m2[P2[r]][i].to = Null
                      /\ HasTable(P2, m2, r, i) =>
                           /\ TableOf(P2, m2, r, i) \in Table \ (F2 \cup {Kpt})
                           /\ \A q \in L2 : TableOf(P2, m2, r, i) # P2[q]
                           /\ \A j \in Index : m2[TableOf(P2, m2, r, i)][j].to \in MaybeFrame
    BY DEF UserPart
  <2>1. CASE r = s
    BY <2>1, <1>3
  <2>2. CASE r \in L
    BY <2>2, <1>3, <1>8, <1>a DEF UserPart
  <2> QED BY <2>1, <2>2
<1>10. OneOwner(L2, P2, m2)
  BY <1>3, <1>8, <1>a DEF OneOwner
<1>11. NoneLost(L2, P2, m2, F2)
  <2> SUFFICES ASSUME NEW p \in Table \ (F2 \cup {Kpt}), p # upt
               PROVE  \E r \in L2 : \/ p = P2[r]
                                    \/ \E i \in UIndex : /\ HasTable(P2, m2, r, i)
                                                         /\ TableOf(P2, m2, r, i) = p
    BY <1>3 DEF NoneLost
  <2>1. PICK r \in L : \/ p = P[r]
                       \/ \E i \in UIndex : HasTable(P, m, r, i) /\ TableOf(P, m, r, i) = p
    BY <1>a DEF NoneLost
  <2> QED BY <2>1, <1>3, <1>8
<1> QED BY <1>1, <1>5, <1>6, <1>9, <1>10, <1>11 DEF Layout

(* unprotect: what teardown frees belongs to no other space.               *)
LEMMA UnprotectLayout ==
    ASSUME NEW L, NEW P, NEW m, NEW F, Layout(L, P, m, F), NEW s \in L, NEW G,
           \A g : g \in G <=> \E i \in UIndex : HasTable(P, m, s, i) /\ TableOf(P, m, s, i) = g
    PROVE  Layout(L \ {s}, P, m, F \cup {P[s]} \cup G)
<1> DEFINE L2 == L \ {s}
           F2 == F \cup {P[s]} \cup G
<1>1. F2 \subseteq Table \ {Kpt}
  BY DEF Layout, Directories, UserPart
<1>2. Directories(L2, P, m, F2)
  BY DEF Layout, Directories, UserPart
<1>3. UserPart(L2, P, m, F2)
  BY DEF Layout, UserPart, OneOwner
<1>4. NoneLost(L2, P, m, F2)
  BY DEF Layout, NoneLost
<1> QED BY <1>1, <1>2, <1>3, <1>4 DEF Layout, KernelPart, OneOwner

(* ptwalk: the table it hangs in is empty and was nobody's.                *)
LEMMA WalkLayout ==
    ASSUME NEW L, NEW P, NEW m, NEW F, Layout(L, P, m, F), NEW s \in L, NEW i \in UIndex,
           ~HasTable(P, m, s, i), NEW pt \in F,
           NEW m2 \in TablesType,
           \A p \in Table \ {pt, P[s]} : m2[p] = m[p],
           \A j \in Index : m2[pt][j] = NoEntry,
           \A j \in Index \ {i} : m2[P[s]][j] = m[P[s]][j],
           m2[P[s]][i] = UserEntry(pt)
    PROVE  Layout(L, P, m2, F \ {pt})
<1> DEFINE F2 == F \ {pt}
<1> USE DEF HasTable, TableOf
<1>a. /\ Directories(L, P, m, F) /\ KernelPart(L, P, m) /\ UserPart(L, P, m, F)
      /\ OneOwner(L, P, m) /\ NoneLost(L, P, m, F)
      /\ L \subseteq Space /\ P \in [Space -> Table \cup {Null}]
      /\ m \in TablesType /\ F \subseteq Table \ {Kpt}
  BY DEF Layout
<1>b. Kpt \in Table /\ UIndex \cap KIndex = {} /\ Kpt # pt /\ Kpt # P[s] /\ pt # P[s]
  BY X86Assumption, <1>a DEF Directories
<1>1. \A r \in L : P[r] \in Table /\ P[r] # pt /\ (P[r] = P[s] => r = s)
  BY <1>a DEF Directories
<1>2. /\ m2[P[s]][i].user /\ m2[P[s]][i].to = pt
      /\ \A j \in Index : ~m2[pt][j].user /\ m2[pt][j].to = Null
  BY DEF UserEntry, NoEntry
<1>3. \A r \in L, j \in Index : r # s \/ j # i => m2[P[r]][j] = m[P[r]][j]
  BY <1>1
<1>4. Directories(L, P, m2, F2)
  BY <1>a DEF Directories
<1>5. KernelPart(L, P, m2)
  <2>1. m2[Kpt] = m[Kpt]
    BY <1>b
  <2> QED BY <2>1, <1>3, <1>a, <1>b DEF KernelPart, Index
<1>6. UserPart(L, P, m2, F2)
  <2> SUFFICES ASSUME NEW r \in L, NEW j \in UIndex
               PROVE  /\ ~HasTable(P, m2, r, j) => m2[P[r]][j].to = Null
                      /\ HasTable(P, m2, r, j) =>
                           /\ TableOf(P, m2, r, j) \in Table \ (F2 \cup {Kpt})
                           /\ \A q \in L : TableOf(P, m2, r, j) # P[q]
                           /\ \A k \in Index : m2[TableOf(P, m2, r, j)][k].to \in MaybeFrame
    BY DEF UserPart
  <2>1. CASE r = s /\ j = i
    BY <2>1, <1>a, <1>b, <1>1, <1>2 DEF MaybeFrame
  <2>2. CASE ~(r = s /\ j = i)
    <3>1. m2[P[r]][j] = m[P[r]][j]
      BY <2>2, <1>3 DEF Index
    <3>2. ASSUME HasTable(P, m, r, j)
          PROVE  m2[TableOf(P, m, r, j)] = m[TableOf(P, m, r, j)]
      BY <3>2, <1>a DEF UserPart
    <3> QED BY <3>1, <3>2, <1>a DEF UserPart
  <2> QED BY <2>1, <2>2
<1>7. OneOwner(L, P, m2)
  <2>1. \A r \in L, j \in UIndex : /\ r # s \/ j # i
                                   /\ HasTable(P, m2, r, j)
                                   => TableOf(P, m2, r, j) # pt
    BY <1>3, <1>a DEF UserPart, Index
  <2> SUFFICES ASSUME NEW r \in L, NEW q \in L, NEW j \in UIndex, NEW k \in UIndex,
                      HasTable(P, m2, r, j), HasTable(P, m2, q, k),
                      TableOf(P, m2, r, j) = TableOf(P, m2, q, k)
               PROVE  r = q /\ j = k
    BY DEF OneOwner
  <2>2. CASE r = s /\ j = i
    BY <2>1, <2>2, <1>2
  <2>3. CASE q = s /\ k = i
    BY <2>1, <2>3, <1>2
  <2>4. CASE (r # s \/ j # i) /\ (q # s \/ k # i)
    BY <2>4, <1>3, <1>a DEF OneOwner, Index
  <2> QED BY <2>2, <2>3, <2>4
<1>8. NoneLost(L, P, m2, F2)
  <2> SUFFICES ASSUME NEW p \in Table \ (F2 \cup {Kpt}), p # pt
               PROVE  \E r \in L : \/ p = P[r]
                                   \/ \E j \in UIndex : /\ HasTable(P, m2, r, j)
                                                        /\ TableOf(P, m2, r, j) = p
    BY <1>2 DEF NoneLost
  <2>1. PICK r \in L : \/ p = P[r]
                       \/ \E j \in UIndex : HasTable(P, m, r, j) /\ TableOf(P, m, r, j) = p
    BY <1>a DEF NoneLost
  <2> QED BY <2>1, <1>3 DEF Index
<1> QED BY <1>a, <1>4, <1>5, <1>6, <1>7, <1>8 DEF Layout

(* map: what it writes goes into a page table, and is a frame or nothing.  *)
LEMMA WriteLayout ==
    ASSUME NEW L, NEW P, NEW m, NEW F, Layout(L, P, m, F), NEW s \in L, NEW i \in UIndex,
           HasTable(P, m, s, i),
           NEW m2 \in TablesType,
           \A p \in Table \ {TableOf(P, m, s, i)} : m2[p] = m[p],
           \A j \in Index : \/ m2[TableOf(P, m, s, i)][j] = m[TableOf(P, m, s, i)][j]
                            \/ m2[TableOf(P, m, s, i)][j].to \in MaybeFrame
    PROVE  Layout(L, P, m2, F)
<1> USE DEF HasTable, TableOf
<1>a. /\ Directories(L, P, m, F) /\ KernelPart(L, P, m) /\ UserPart(L, P, m, F)
      /\ OneOwner(L, P, m) /\ NoneLost(L, P, m, F)
  BY DEF Layout
<1>1. /\ TableOf(P, m, s, i) # Kpt
      /\ \A r \in L : P[r] \in Table /\ P[r] # TableOf(P, m, s, i)
  BY <1>a DEF UserPart, Directories
<1>2. m2[Kpt] = m[Kpt] /\ \A r \in L : m2[P[r]] = m[P[r]]
  BY <1>1, X86Assumption
<1>3. UserPart(L, P, m2, F)
  BY <1>a, <1>2 DEF UserPart
<1>4. /\ Directories(L, P, m2, F) /\ KernelPart(L, P, m2)
      /\ OneOwner(L, P, m2) /\ NoneLost(L, P, m2, F)
  BY <1>a, <1>2 DEF Directories, KernelPart, OneOwner, NoneLost
<1> QED BY <1>3, <1>4 DEF Layout

-----------------------------------------------------------------------------
(* What the processor's walk finds in such tables.                         *)
LEMMA TranslateType ==
    ASSUME NEW L, NEW P, NEW m, NEW F, Layout(L, P, m, F), NEW v \in Va
    PROVE  /\ Translate(m, Kpt, v) = Null
           /\ \A s \in L : Translate(m, P[s], v) \in MaybeFrame
<1>1. v[1] \in UIndex /\ v[2] \in Index /\ v[1] \in Index
  BY X86Assumption DEF Index
<1>2. ~m[Kpt][v[1]].user
  BY <1>1 DEF Layout, KernelPart
<1>3. \A s \in L : HasTable(P, m, s, v[1]) =>
                      m[TableOf(P, m, s, v[1])][v[2]].to \in MaybeFrame
  BY <1>1 DEF Layout, UserPart
<1> QED BY <1>2, <1>3 DEF Translate, HasTable, TableOf, MaybeFrame

\* Hanging in an empty table changes no translation.
LEMMA WalkTranslate ==
    ASSUME NEW L, NEW P, NEW m, NEW F, Layout(L, P, m, F), NEW s \in L, NEW i \in UIndex,
           ~HasTable(P, m, s, i), NEW pt \in F, NEW m2,
           \A p \in Table \ {pt, P[s]} : m2[p] = m[p],
           \A j \in Index : m2[pt][j] = NoEntry,
           \A j \in Index \ {i} : m2[P[s]][j] = m[P[s]][j],
           m2[P[s]][i] = UserEntry(pt),
           NEW r \in L, NEW w \in Va
    PROVE  Translate(m2, P[r], w) = Translate(m, P[r], w)
<1>1. w[1] \in UIndex /\ w[2] \in Index /\ w[1] \in Index
  BY X86Assumption DEF Index
<1>2. /\ pt \in Table /\ P[r] \in Table /\ P[r] # pt /\ P[s] # pt
      /\ P[r] = P[s] => r = s
  BY DEF Layout, Directories
<1>3. CASE r = s /\ w[1] = i
  <2>1. m2[P[r]][w[1]].to = pt /\ m2[pt][w[2]].to = Null
    BY <1>1, <1>3 DEF UserEntry, NoEntry
  <2>2. ~m[P[r]][w[1]].user
    BY <1>3 DEF HasTable
  <2> QED BY <2>1, <2>2, <1>2 DEF Translate
<1>4. CASE ~(r = s /\ w[1] = i)
  <2>1. m2[P[r]][w[1]] = m[P[r]][w[1]]
    BY <1>1, <1>2, <1>4
  <2>2. HasTable(P, m, r, w[1]) => m2[TableOf(P, m, r, w[1])] = m[TableOf(P, m, r, w[1])]
    BY <1>1 DEF Layout, UserPart
  <2> QED BY <2>1, <2>2 DEF Translate, HasTable, TableOf
<1> QED BY <1>3, <1>4

\* Writing one entry of a page table changes one translation of one space.
LEMMA WriteTranslate ==
    ASSUME NEW L, NEW P, NEW m, NEW F, Layout(L, P, m, F), NEW s \in L, NEW v \in Va,
           HasTable(P, m, s, v[1]), NEW m2, NEW e,
           \A p \in Table \ {TableOf(P, m, s, v[1])} : m2[p] = m[p],
           \A j \in Index \ {v[2]} : m2[TableOf(P, m, s, v[1])][j] =
                                      m[TableOf(P, m, s, v[1])][j],
           m2[TableOf(P, m, s, v[1])][v[2]] = e,
           NEW r \in L, NEW w \in Va
    PROVE  Translate(m2, P[r], w) = IF r = s /\ w = v THEN e.to ELSE Translate(m, P[r], w)
<1> DEFINE pt == TableOf(P, m, s, v[1])
<1>1. /\ w[1] \in UIndex /\ w[2] \in Index /\ v[1] \in UIndex /\ v[2] \in Index
      /\ w = v <=> w[1] = v[1] /\ w[2] = v[2]
  BY X86Assumption DEF Index
<1>2. pt \in Table /\ P[r] \in Table /\ P[r] # pt /\ P[s] \in Table /\ P[s] # pt
  BY <1>1 DEF Layout, UserPart, Directories
<1>3. m2[P[r]] = m[P[r]]
  BY <1>2
<1>4. CASE r = s /\ w = v
  <2>1. m[P[s]][v[1]].user /\ m[P[s]][v[1]].to = pt
    BY DEF HasTable, TableOf
  <2> QED BY <2>1, <1>2, <1>3, <1>4 DEF Translate
<1>5. CASE ~(r = s /\ w = v)
  <2>1. HasTable(P, m, r, w[1]) =>
          m2[TableOf(P, m, r, w[1])][w[2]] = m[TableOf(P, m, r, w[1])][w[2]]
    <3> SUFFICES ASSUME HasTable(P, m, r, w[1])
                 PROVE  m2[TableOf(P, m, r, w[1])][w[2]] = m[TableOf(P, m, r, w[1])][w[2]]
      OBVIOUS
    <3>1. TableOf(P, m, r, w[1]) \in Table
      BY <1>1 DEF Layout, UserPart
    <3>2. CASE TableOf(P, m, r, w[1]) = pt
      <4>1. r = s /\ w[1] = v[1]
        BY <3>2, <1>1 DEF Layout, OneOwner
      <4> QED BY <4>1, <3>2, <1>1, <1>5
    <3>3. CASE TableOf(P, m, r, w[1]) # pt
      BY <3>1, <3>3
    <3> QED BY <3>2, <3>3
  <2> QED BY <2>1, <1>3, <1>5 DEF Translate, HasTable, TableOf
<1> QED BY <1>4, <1>5

-----------------------------------------------------------------------------
(* The kernel's half of a step, on any machine.                            *)
LEMMA ProgramTypes ==
    ASSUME ProgramTypeOK, arch' = arch,
           \/ UNCHANGED <<live, home, running, stopped>>
           \/ \E s \in Space : Opens(s) \/ Closes(s)
           \/ \E t \in Thread : \/ Creates(t, Kernel) \/ Kills(t) \/ Resumes(t)
                                \/ \E s \in live : Creates(t, s)
           \/ Stops("panicked") \/ Stops("hung")
    PROVE  ProgramTypeOK'
<1> USE ProgramAssumption DEF ProgramTypeOK
<1>1. CASE UNCHANGED <<live, home, running, stopped>>
  BY <1>1
<1>2. CASE \E s \in Space : Opens(s) \/ Closes(s)
  BY <1>2 DEF Opens, Closes
<1>3. CASE \E t \in Thread : \/ Creates(t, Kernel)
                             \/ \E s \in live : Creates(t, s)
  <2> PICK t \in Thread, h \in live \cup {Kernel} : Creates(t, h)
    BY <1>3
  <2>1. /\ home' = [home EXCEPT ![t] = h] /\ home[t] = Absent /\ h # Absent
        /\ UNCHANGED <<live, running, stopped>>
    BY DEF Creates
  <2> QED BY <2>1
<1>4. CASE \E t \in Thread : Kills(t) \/ Resumes(t)
  BY <1>4 DEF Kills, Resumes
<1>5. CASE Stops("panicked") \/ Stops("hung")
  BY <1>5 DEF Stops
<1> QED BY <1>1, <1>2, <1>3, <1>4, <1>5

LEMMA X86Init == ASSUME ProgramInit, vme_init, arch \in {"x86", "native"}
                 PROVE  X86Inv
<1> USE ProgramAssumption, X86Assumption DEF ProgramInit, vme_init
<1>1. ProgramTypeOK
  BY DEF ProgramTypeOK
<1>2. mem \in TablesType
  BY DEF TablesType, Entry, NoEntry
<1>3. X86TypeOK
  BY <1>2 DEF X86TypeOK, TablesType, Entry
<1>4. Layout(live, ptr, mem, free)
  <2>1. KernelPart(live, ptr, mem)
    BY DEF KernelPart, NoEntry
  <2> QED BY <2>1, <1>2 DEF Layout, Directories, UserPart, OneOwner, NoneLost
<1>5. ContextsRight
  BY DEF ContextsRight, Directory
<1> QED BY <1>1, <1>3, <1>4, <1>5 DEF X86Inv

(* protect adds a space in which nothing is mapped.                        *)
LEMMA ProtectStep ==
    ASSUME X86Inv, NEW s \in Space, protect_x86(s)
    PROVE  /\ X86Inv'
           /\ \/ Stops("panicked") /\ UNCHANGED <<X86Table, ptr, cr3, tlb, mem>>
              \/ Opens(s) /\ X86Table' = [X86Table EXCEPT ![s] = [v \in Va |-> Null]]
<1>1. /\ arch = "x86" /\ arch' = "x86" /\ X86TypeOK /\ ProgramTypeOK
      /\ Layout(live, ptr, mem, free) /\ ContextsRight
  BY DEF protect_x86, Goes, X86Inv
<1>2. ProgramTypeOK'
  BY <1>1, ProgramTypes DEF protect_x86, panic
<1>3. CASE panic /\ UNCHANGED <<mem, free>>
  <2>1. /\ UNCHANGED <<ptr, mem, free, cr3, tlb, ctx, live, home, running>>
        /\ Stops("panicked")
    BY <1>3 DEF panic, Stops
  <2> QED BY <1>1, <1>2, <2>1 DEF X86Inv, X86TypeOK, ContextsRight, Directory, X86Table
<1>4. CASE ~(panic /\ UNCHANGED <<mem, free>>)
  <2>1. PICK upt \in pgalloc(free) : /\ Opens(s)
                                     /\ free' = free \ {upt}
                                     /\ mem' = [mem EXCEPT ![upt] = KernelEntries]
                                     /\ ptr' = [ptr EXCEPT ![s] = upt]
                                     /\ UNCHANGED <<cr3, tlb, ctx>>
    BY <1>4 DEF protect_x86
  <2>2. upt \in free /\ upt \in Table /\ mem \in TablesType /\ free \subseteq Table
    BY <1>1, FreePages DEF X86TypeOK, TablesType, Entry
  <2>3. KernelEntries \in [Index -> Entry]
    BY <2>2, X86Assumption DEF KernelEntries, NoEntry, TablesType, Entry, Index
  <2>4. mem' \in TablesType
    BY <2>1, <2>2, <2>3 DEF TablesType
  <2>5. /\ \A p \in Table \ {upt} : mem'[p] = mem[p]
        /\ mem'[upt] = KernelEntries
    BY <2>1, <2>2 DEF TablesType
  <2>6. /\ \A k \in KIndex : mem'[upt][k] = mem[Kpt][k]
        /\ \A i \in UIndex : ~mem'[upt][i].user /\ mem'[upt][i].to = Null
    BY <2>5, X86Assumption DEF KernelEntries, NoEntry, Index
  <2>7. /\ s \notin live /\ live' = live \cup {s}
        /\ UNCHANGED <<home, running, stopped>>
    BY <2>1 DEF Opens
  <2>8. Layout(live', ptr', mem', free')
    BY <1>1, <2>1, <2>2, <2>4, <2>5, <2>6, <2>7, ProtectLayout
  <2>9. /\ ptr' \in [Space -> Table \cup {Null}] /\ ptr'[s] = upt
        /\ \A r \in live : ptr'[r] = ptr[r] /\ ptr[r] \in Table /\ ptr[r] # upt
    BY <1>1, <2>1, <2>2, <2>7 DEF Layout, Directories
  <2>10. X86TypeOK'
    BY <1>1, <2>1, <2>2, <2>4, <2>9 DEF X86TypeOK, TablesType, Entry
  <2>11. ContextsRight'
    BY <1>1, <2>1, <2>7, <2>9 DEF ContextsRight, Directory, ProgramTypeOK
  <2>12. \A v \in Va : Translate(mem', ptr'[s], v) = Null
    BY <2>6, <2>9, X86Assumption DEF Translate
  <2>13. \A r \in live, v \in Va : Translate(mem', ptr'[r], v) = Translate(mem, ptr[r], v)
    <3> SUFFICES ASSUME NEW r \in live, NEW v \in Va
                 PROVE  Translate(mem', ptr'[r], v) = Translate(mem, ptr[r], v)
      OBVIOUS
    <3>1. mem'[ptr'[r]] = mem[ptr[r]] /\ v[1] \in UIndex
      BY <2>5, <2>9, X86Assumption
    <3>2. HasTable(ptr, mem, r, v[1]) => TableOf(ptr, mem, r, v[1]) \in Table \ {upt}
      BY <1>1, <2>2, <3>1 DEF Layout, UserPart
    <3> QED BY <3>1, <3>2, <2>5 DEF Translate, HasTable, TableOf
  <2>14. X86Table' = [X86Table EXCEPT ![s] = [v \in Va |-> Null]]
    BY <2>7, <2>12, <2>13 DEF X86Table
  <2> QED BY <1>1, <1>2, <2>1, <2>8, <2>10, <2>11, <2>14 DEF X86Inv
<1> QED BY <1>3, <1>4

(* unprotect takes a space away that nothing refers to any more.           *)
LEMMA UnprotectStep ==
    ASSUME X86Inv, NEW s \in Space, unprotect_x86(s)
    PROVE  /\ X86Inv'
           /\ X86Table' = [X86Table EXCEPT ![s] = [v \in Va |-> Null]]
<1>1. /\ arch = "x86" /\ arch' = "x86" /\ X86TypeOK /\ ProgramTypeOK
      /\ Layout(live, ptr, mem, free) /\ ContextsRight
      /\ ~Loaded(s) /\ UNCHANGED <<ptr, mem, cr3, tlb, ctx>>
      /\ free' = free \cup teardown(ptr[s])
  BY DEF unprotect_x86, Goes, X86Inv
<1>2. /\ live' = live \ {s} /\ s \in live /\ \A t \in Thread : home[t] # s
      /\ UNCHANGED <<home, running, stopped>>
  BY DEF unprotect_x86, Closes
<1>3. ProgramTypeOK'
  BY <1>1, ProgramTypes DEF unprotect_x86
<1>4. Layout(live', ptr', mem', free')
  <2> DEFINE G == PageTables(ptr[s])
  <2>1. \A g : g \in G <=> \E i \in UIndex : HasTable(ptr, mem, s, i)
                                             /\ TableOf(ptr, mem, s, i) = g
    <3>1. \A k \in KIndex : ~mem[ptr[s]][k].user
      BY <1>1, <1>2 DEF Layout, KernelPart, Index
    <3> QED BY <3>1 DEF PageTables, HasTable, TableOf, Index
  <2>2. free' = free \cup {ptr[s]} \cup G
    BY <1>1 DEF teardown
  <2> HIDE DEF G
  <2>3. Layout(live \ {s}, ptr, mem, free \cup {ptr[s]} \cup G)
    BY <1>1, <1>2, <2>1, UnprotectLayout
  <2> QED BY <1>1, <1>2, <2>2, <2>3
<1>5. X86TypeOK'
  BY <1>1, <1>4 DEF X86TypeOK, Layout
<1>6. ContextsRight'
  BY <1>1, <1>2 DEF ContextsRight, Directory, Loaded
<1>7. X86Table' = [X86Table EXCEPT ![s] = [v \in Va |-> Null]]
  BY <1>1, <1>2 DEF X86Table, Translate
<1> QED BY <1>1, <1>3, <1>4, <1>5, <1>6, <1>7 DEF X86Inv

(* The tables after ptwalk, with a page table for entry i of space s.      *)
LEMMA WalkStep ==
    ASSUME Layout(live, ptr, mem, free), NEW s \in live, NEW i \in UIndex,
           NEW pt \in ptwalk(ptr[s], i), NEW m, m = Walked(ptr[s], i, pt)
    PROVE  /\ Layout(live, ptr, m, free \ {pt})
           /\ HasTable(ptr, m, s, i) /\ TableOf(ptr, m, s, i) = pt
           /\ \A r \in live, v \in Va : Translate(m, ptr[r], v) = Translate(mem, ptr[r], v)
<1>1. /\ ptr[s] \in Table /\ ptr[s] \notin free /\ free \subseteq Table /\ i \in Index
      /\ mem \in TablesType
  BY DEF Layout, Directories, Index
<1>2. CASE Present(mem[ptr[s]][i])
  <2>1. HasTable(ptr, mem, s, i) /\ pt = TableOf(ptr, mem, s, i) /\ m = mem
    BY <1>2 DEF Layout, UserPart, Present, ptwalk, Walked, TableOf
  <2>2. free \ {pt} = free
    BY <2>1 DEF Layout, UserPart
  <2> QED BY <2>1, <2>2
<1>3. CASE ~Present(mem[ptr[s]][i])
  <2>1. pt \in free /\ m = [mem EXCEPT ![pt] = Zeroed, ![ptr[s]][i] = UserEntry(pt)]
    BY <1>1, <1>3, FreePages DEF ptwalk, Walked
  <2>2. ~HasTable(ptr, mem, s, i)
    BY <1>1, <1>3, X86Assumption DEF Layout, UserPart, Present, HasTable, TableOf
  <2>0. pt \in free
    BY <2>1
  <2>3. /\ \A p \in Table \ {pt, ptr[s]} : m[p] = mem[p]
        /\ \A j \in Index : m[pt][j] = NoEntry
        /\ \A j \in Index \ {i} : m[ptr[s]][j] = mem[ptr[s]][j]
        /\ m[ptr[s]][i] = UserEntry(pt)
    BY <1>1, <2>1 DEF TablesType, Zeroed
  <2>4. m \in TablesType
    <3>1. pt \in Table /\ Zeroed \in [Index -> Entry] /\ UserEntry(pt) \in Entry
      BY <1>1, <2>1 DEF Zeroed, NoEntry, UserEntry, Entry
    <3> QED BY <1>1, <2>1, <3>1 DEF TablesType
  <2>5. Layout(live, ptr, m, free \ {pt})
    BY <2>0, <2>2, <2>3, <2>4, WalkLayout
  <2>6. \A r \in live, v \in Va : Translate(m, ptr[r], v) = Translate(mem, ptr[r], v)
    BY <2>0, <2>2, <2>3, WalkTranslate
  <2> QED BY <2>3, <2>5, <2>6 DEF HasTable, TableOf, UserEntry
<1> QED BY <1>2, <1>3

(* map changes one page of one space, or halts the machine.                *)
LEMMA MapStep ==
    ASSUME X86Inv, NEW s \in Space, NEW v \in Va, NEW f \in MaybeFrame, map_x86(s, v, f)
    PROVE  /\ X86Inv'
           /\ \/ /\ Stops("panicked") /\ UNCHANGED <<X86Table, ptr, cr3, tlb>>
                 /\ \A r \in live, w \in Va : Translate(mem', ptr[r], w) = Translate(mem, ptr[r], w)
              \/ Works(s) /\ X86Table' = [X86Table EXCEPT ![s] = [@ EXCEPT ![v] = f]]
<1>1. /\ arch = "x86" /\ arch' = "x86" /\ X86TypeOK /\ ProgramTypeOK
      /\ Layout(live, ptr, mem, free) /\ ContextsRight /\ s \in live
  BY DEF map_x86, Goes, X86Inv
<1>2. /\ UNCHANGED <<ptr, cr3, tlb, ctx, live, home, running>>
      /\ Stops("panicked") \/ Works(s)
  BY DEF map_x86, panic, Works, Stops
<1>3. ProgramTypeOK'
  BY <1>1, <1>2, ProgramTypes DEF Works
<1>4. ContextsRight'
  BY <1>1, <1>2 DEF ContextsRight, Directory
<1>5. v[1] \in UIndex /\ v[2] \in Index
  BY X86Assumption
<1>6. ASSUME Layout(live, ptr, mem', free')
      PROVE  X86Inv'
  <2>1. X86TypeOK'
    BY <1>1, <1>2, <1>6 DEF X86TypeOK, Layout, TablesType, Entry
  <2> QED BY <1>1, <1>2, <1>3, <1>4, <1>6, <2>1 DEF X86Inv
<1>7. CASE panic /\ UNCHANGED <<mem, free>>
  BY <1>1, <1>2, <1>6, <1>7 DEF panic, X86Table
<1>8. CASE ~(panic /\ UNCHANGED <<mem, free>>)
  <2>1. PICK pt \in ptwalk(ptr[s], v[1]) :
          LET m == Walked(ptr[s], v[1], pt) IN
          /\ free' = free \ {pt}
          /\ \/ mem' = m /\ panic
             \/ /\ mem' = [m EXCEPT ![pt][v[2]] = IF f = Null THEN NoEntry ELSE UserEntry(f)]
                /\ Works(s)
    BY <1>8 DEF map_x86
  <2> DEFINE m == Walked(ptr[s], v[1], pt)
             e == IF f = Null THEN NoEntry ELSE UserEntry(f)
  <2>2. /\ Layout(live, ptr, m, free')
        /\ HasTable(ptr, m, s, v[1]) /\ TableOf(ptr, m, s, v[1]) = pt
        /\ \A r \in live, w \in Va : Translate(m, ptr[r], w) = Translate(mem, ptr[r], w)
    BY <1>1, <1>5, <2>1, WalkStep
  <2>3. CASE mem' = m /\ panic
    <3> HIDE DEF m
    <3> QED BY <1>1, <1>2, <1>6, <2>2, <2>3 DEF panic, X86Table
  <2>4. CASE /\ mem' = [m EXCEPT ![pt][v[2]] = e]
             /\ Works(s)
    <3>1. e.to = f /\ f \in Frame \cup {Null} /\ e \in Entry
      BY DEF MaybeFrame, NoEntry, UserEntry, Entry
    <3> HIDE DEF m, e
    <3>2. pt \in Table /\ m \in TablesType
      BY <1>1, <1>5, <2>2 DEF Layout, UserPart
    <3>3. /\ \A p \in Table \ {pt} : mem'[p] = m[p]
          /\ \A j \in Index \ {v[2]} : mem'[pt][j] = m[pt][j]
          /\ mem'[pt][v[2]] = e
      BY <1>5, <2>4, <3>2 DEF TablesType
    <3>4. mem' \in TablesType
      BY <1>5, <2>4, <3>1, <3>2 DEF TablesType
    <3>5. \A j \in Index : mem'[pt][j] = m[pt][j] \/ mem'[pt][j].to \in MaybeFrame
      BY <3>1, <3>3
    <3>6. Layout(live, ptr, mem', free')
      BY <1>1, <1>5, <2>2, <3>3, <3>4, <3>5, WriteLayout
    <3>7. \A r \in live, w \in Va :
            Translate(mem', ptr[r], w) = IF r = s /\ w = v THEN f
                                         ELSE Translate(m, ptr[r], w)
      BY <1>1, <2>2, <3>1, <3>3, WriteTranslate
    <3>8. X86Table' = [X86Table EXCEPT ![s] = [@ EXCEPT ![v] = f]]
      <4>1. \A r \in live, w \in Va : X86Table'[r][w] = IF r = s /\ w = v THEN f
                                                       ELSE X86Table[r][w]
        <5>1. \A r \in live, w \in Va : /\ X86Table[r][w] = Translate(mem, ptr[r], w)
                                        /\ X86Table'[r][w] = Translate(mem', ptr'[r], w)
          BY <1>1, <1>2 DEF X86Table, Layout
        <5> QED BY <5>1, <1>2, <2>2, <3>7
      <4>2. \A r \in Space \ live, w \in Va : X86Table'[r][w] = X86Table[r][w]
        BY <1>2 DEF X86Table
      <4> DEFINE T == [r \in Space |-> [w \in Va |-> IF r = s /\ w = v THEN f
                                                      ELSE X86Table[r][w]]]
      <4>3. X86Table' = T
        <5>1. \A r \in Space, w \in Va : X86Table'[r][w] = IF r = s /\ w = v THEN f
                                                           ELSE X86Table[r][w]
          BY <1>1, <4>1, <4>2
        <5> DEFINE T1[r \in Space] == [w \in Va |-> X86Table'[r][w]]
        <5>2. X86Table' = T1
          BY DEF X86Table
        <5> HIDE DEF X86Table
        <5>3. T1 = T
          BY <5>1
        <5> QED BY <5>2, <5>3
      <4>4. [X86Table EXCEPT ![s] = [@ EXCEPT ![v] = f]] = T
        BY DEF X86Table
      <4> QED BY <4>3, <4>4
    <3> QED BY <1>6, <2>4, <3>6, <3>8
  <2> QED BY <2>1, <2>3, <2>4
<1> QED BY <1>7, <1>8

(* The steps that leave the tables alone.                                  *)
LEMMA ContextStep ==
    ASSUME X86Inv, NEW t \in Thread,
           \/ kcontext_x86(t) \/ exit_x86(t) \/ irq_handle_x86(t)
           \/ \E s \in Space : ucontext_x86(t, s)
    PROVE  X86Inv' /\ UNCHANGED X86Table
<1>1. /\ arch = "x86" /\ arch' = "x86" /\ X86TypeOK /\ ProgramTypeOK
      /\ Layout(live, ptr, mem, free) /\ ContextsRight
      /\ UNCHANGED <<ptr, mem, free>>
  BY DEF kcontext_x86, exit_x86, irq_handle_x86, ucontext_x86, Goes, X86Inv
<1>2. UNCHANGED live
  BY DEF kcontext_x86, exit_x86, irq_handle_x86, ucontext_x86, Creates, Kills, Resumes
<1>3. ProgramTypeOK'
  BY <1>1, ProgramTypes DEF kcontext_x86, exit_x86, irq_handle_x86, ucontext_x86
<1>4. UNCHANGED X86Table
  BY <1>1, <1>2 DEF X86Table
<1>5. \A s \in live : s \in Space /\ ptr[s] \in Table
  BY <1>1 DEF Layout, Directories
<1>6. Kernel \notin Space /\ Absent \notin Space /\ Kernel # Absent
  BY ProgramAssumption
<1>7. X86TypeOK' /\ ContextsRight'
  <2>1. CASE kcontext_x86(t)
    BY <2>1, <1>1, <1>2, <1>6 DEF kcontext_x86, Creates, X86TypeOK, ContextsRight,
                                  Directory, ProgramTypeOK
  <2>2. CASE exit_x86(t)
    BY <2>2, <1>1, <1>2, <1>6 DEF exit_x86, Kills, X86TypeOK, ContextsRight, Directory,
                                  ProgramTypeOK
  <2>3. CASE \E s \in Space : ucontext_x86(t, s)
    <3> PICK s \in Space : ucontext_x86(t, s)
      BY <2>3
    <3>1. /\ s \in live /\ home[t] = Absent /\ home' = [home EXCEPT ![t] = s]
          /\ ctx' = [ctx EXCEPT ![t] = ptr[s]] /\ UNCHANGED <<running, cr3, tlb>>
      BY DEF ucontext_x86, Creates
    <3>2. t # running
      BY <3>1, <1>1 DEF ProgramTypeOK
    <3> QED BY <3>1, <3>2, <1>1, <1>2, <1>5, <1>6 DEF X86TypeOK, ContextsRight, Directory,
                                                      ProgramTypeOK
  <2>4. CASE irq_handle_x86(t)
    <3>1. /\ home[t] # Absent /\ running' = t /\ UNCHANGED home
          /\ ctx' = [ctx EXCEPT ![running] = cr3]
          /\ Loads(ctx'[t])
      BY <2>4 DEF irq_handle_x86, Resumes
    <3>2. /\ \A r \in Thread \ {running} : ctx'[r] = ctx[r]
          /\ ctx'[running] = cr3 /\ cr3 # Null
      BY <3>1, <1>1, X86Assumption DEF X86TypeOK, ProgramTypeOK
    <3>3. ctx'[t] = Null \/ Directory(ctx'[t])
      BY <3>1, <3>2, <1>1 DEF ContextsRight
    <3>4. \/ cr3' = ctx'[t] /\ tlb' = {} /\ Directory(cr3') /\ cr3' \in Table
          \/ ctx'[t] = Null /\ UNCHANGED <<cr3, tlb>>
      BY <3>1, <3>3, <1>5, X86Assumption DEF Loads, set_cr3, Directory
    <3>5. X86TypeOK'
      BY <1>1, <3>1, <3>4 DEF X86TypeOK
    <3>6. home[t] \in Space => /\ home[t] \in live /\ ctx'[t] = ptr[home[t]]
                               /\ ctx'[t] # Null
      BY <1>1, <1>5, <3>2, X86Assumption DEF ContextsRight, ProgramTypeOK
    <3>7. ContextsRight'
      BY <1>1, <1>2, <3>1, <3>2, <3>4, <3>6 DEF ContextsRight, Directory, ProgramTypeOK
    <3> QED BY <3>5, <3>7
  <2> QED BY <2>1, <2>2, <2>3, <2>4
<1> QED BY <1>1, <1>2, <1>3, <1>4, <1>7 DEF X86Inv

\* The processor's walk of the directory loaded.
LEMMA LoadedTranslate ==
    ASSUME X86Inv, arch = "x86", NEW v \in Va
    PROVE  /\ Translate(mem, cr3, v) \in MaybeFrame
           /\ home[running] \in Space =>
                X86Table[home[running]][v] = Translate(mem, cr3, v)
<1>1. /\ Layout(live, ptr, mem, free) /\ ContextsRight /\ ProgramTypeOK
  BY DEF X86Inv
<1>2. Translate(mem, cr3, v) \in MaybeFrame
  BY <1>1, TranslateType DEF ContextsRight, Directory, MaybeFrame
<1>3. home[running] \in Space => X86Table[home[running]][v] = Translate(mem, cr3, v)
  BY <1>1 DEF ContextsRight, ProgramTypeOK, X86Table
<1> QED BY <1>2, <1>3

LEMMA FillStep ==
    ASSUME X86Inv, NEW v \in Va, tlb_fill(v)
    PROVE  X86Inv' /\ UNCHANGED <<X86Table, X86Seen>>
<1>1. /\ arch = "x86" /\ arch' = "x86" /\ X86TypeOK /\ ProgramTypeOK
      /\ UNCHANGED <<live, home, running, stopped, ptr, mem, free, cr3, ctx>>
      /\ tlb' = tlb \cup {<<v, Translate(mem, cr3, v)>>}
      /\ Translate(mem, cr3, v) # Null
  BY DEF tlb_fill, Goes, X86Inv
<1>2. Translate(mem, cr3, v) \in Frame
  BY <1>1, LoadedTranslate DEF MaybeFrame
<1>3. X86TypeOK'
  BY <1>1, <1>2 DEF X86TypeOK
<1>4. ProgramTypeOK' /\ (ContextsRight <=> ContextsRight')
  BY <1>1 DEF ProgramTypeOK, ContextsRight, Directory
<1>5. UNCHANGED X86Table
  BY <1>1 DEF X86Table
<1>6. UNCHANGED X86Seen
  <2> DEFINE W == {<<w, Translate(mem, cr3, w)>> :
                      w \in {u \in Va : Translate(mem, cr3, u) # Null}}
  <2>1. X86Seen = tlb \cup W /\ X86Seen' = tlb' \cup W
    BY <1>1 DEF X86Seen
  <2>2. <<v, Translate(mem, cr3, v)>> \in W
    BY <1>1
  <2> HIDE DEF W
  <2> QED BY <1>1, <2>1, <2>2
<1> QED BY <1>1, <1>3, <1>4, <1>5, <1>6 DEF X86Inv

(* Every step keeps X86Inv.                                                *)
LEMMA X86Step == ASSUME X86Inv, X86Next PROVE X86Inv'
BY ProtectStep, UnprotectStep, MapStep, ContextStep, FillStep DEF X86Next

LEMMA X86Stutter == ASSUME X86Inv, UNCHANGED <<programVars, x86Vars>> PROVE X86Inv'
<1>1. UNCHANGED <<arch, live, home, running, stopped, ptr, mem, free, cr3, tlb, ctx>>
  BY DEF programVars, x86Vars
<1> QED BY <1>1 DEF X86Inv, ProgramTypeOK, X86TypeOK, ContextsRight, Directory

(* The two invariants of the tables.                                       *)
LEMMA X86Implies == ASSUME X86Inv PROVE TablesOwned /\ KernelAlwaysMapped
<1>1. TablesOwned
  <2> SUFFICES ASSUME arch = "x86"
               PROVE  /\ \A s \in live : Tables(s) \cap (free \cup {Kpt}) = {}
                      /\ \A s, r \in live : s # r => Tables(s) \cap Tables(r) = {}
                      /\ Table = free \cup {Kpt} \cup UNION {Tables(s) : s \in live}
    BY DEF TablesOwned
  <2>1. Layout(live, ptr, mem, free)
    BY DEF X86Inv
  <2>2. \A s \in live : \A p : p \in Tables(s) <=>
           p = ptr[s] \/ \E i \in UIndex : HasTable(ptr, mem, s, i)
                                           /\ TableOf(ptr, mem, s, i) = p
    <3>1. \A s \in live, k \in KIndex : ~mem[ptr[s]][k].user
      BY <2>1 DEF Layout, KernelPart, Index
    <3> QED BY <3>1 DEF Tables, PageTables, HasTable, TableOf, Index
  <2>3. \A s \in live : Tables(s) \subseteq Table \ (free \cup {Kpt})
    BY <2>1, <2>2 DEF Layout, Directories, UserPart
  <2>4. \A s, r \in live : s # r => Tables(s) \cap Tables(r) = {}
    BY <2>1, <2>2 DEF Layout, Directories, UserPart, OneOwner
  <2>5. Table \subseteq free \cup {Kpt} \cup UNION {Tables(s) : s \in live}
    BY <2>1, <2>2 DEF Layout, NoneLost
  <2>6. free \cup {Kpt} \subseteq Table
    BY <2>1, X86Assumption DEF Layout
  <2> QED BY <2>3, <2>4, <2>5, <2>6
<1>2. KernelAlwaysMapped
  BY DEF X86Inv, KernelAlwaysMapped, ContextsRight, Directory, Layout, KernelPart
<1> QED BY <1>1, <1>2
=============================================================================
