--------------------------- MODULE MemPoolProofs ----------------------------
(***************************************************************************)
(* The allocator of malloc.c is correct for every pool size and every set  *)
(* of request sizes, called one call at a time by callers that free what   *)
(* they hold.                                                              *)
(***************************************************************************)
EXTENDS MemPool, TLAPS

RunSet == [off : Blocks, n : Nat \ {0}]

(* A table agrees with a set of held runs.                                 *)
Consistent(m, runs) ==
  /\ m \in [Blocks -> Nat]
  /\ runs \subseteq RunSet
  /\ \A r, s \in runs : r # s => Cells(r) \cap Cells(s) = {}
  /\ \A r \in runs : \A b \in Cells(r) : b \in Blocks /\ m[b] = r.n
  /\ \A b \in Blocks : m[b] # 0 => \E r \in runs : b \in Cells(r)

(* The inductive invariant.  NoOverlap alone is not inductive: that a new  *)
(* run is disjoint from the held ones follows from the table, so the table *)
(* has to agree with them, and that freeing one run leaves the others'     *)
(* marks alone follows from the runs being disjoint.                       *)
IInv == TypeOK /\ NoOverlap /\ TableMatchesLive /\ ReadyWhenLive

(* The invariant says that the table, also as a call sees it, agrees with  *)
(* the runs that are held.                                                 *)
LEMMA TableFacts ==
  ASSUME IInv
  PROVE  Consistent(memmap, live) /\ Table = memmap
BY DEF IInv, TypeOK, NoOverlap, TableMatchesLive, ReadyWhenLive, Table,
       Consistent, RunSet

(* The blocks wanted by a request that is not for nothing.                 *)
LEMMA RequestLength ==
  ASSUME NEW s \in Sizes, s # 0
  PROVE  nmemb(s) \in Nat \ {0}
BY RequestsFit

(* A run the scan finds lies in the table, all its blocks are free, and no *)
(* held run has any of them.                                               *)
LEMMA FoundIsFree ==
  ASSUME NEW m, NEW runs, Consistent(m, runs),
         NEW n \in Nat \ {0}, NEW o \in Found(m, n)
  PROVE  /\ o \in Blocks
         /\ o + n <= MEMTBLSIZE
         /\ \A b \in o .. (o + n - 1) : b \in Blocks /\ m[b] = 0
         /\ \A r \in runs : Cells(r) \cap (o .. (o + n - 1)) = {}
<1>1. /\ o \in Blocks
      /\ o + n <= MEMTBLSIZE
      /\ \A b \in o .. (o + n - 1) : b \in Blocks /\ m[b] = 0
  BY PoolShape DEF Found, Candidates, Blocks
<1>2. \A r \in runs : \A b \in Cells(r) : m[b] # 0
  BY DEF Consistent, RunSet
<1>3. QED
  BY <1>1, <1>2

(* Marking a found run adds it to what the table says and changes no mark  *)
(* of a held run.                                                          *)
LEMMA MarkConsistent ==
  ASSUME NEW m, NEW runs, Consistent(m, runs),
         NEW n \in Nat \ {0}, NEW o \in Found(m, n)
  PROVE  /\ Consistent(Marked(m, o, n), runs \cup {Run(o, n)})
         /\ \A r \in runs : \A b \in Cells(r) : Marked(m, o, n)[b] = m[b]
<1> DEFINE new == Run(o, n)
           m2  == Marked(m, o, n)
<1>1. /\ o \in Blocks
      /\ o + n <= MEMTBLSIZE
      /\ \A b \in o .. (o + n - 1) : b \in Blocks /\ m[b] = 0
      /\ \A r \in runs : Cells(r) \cap (o .. (o + n - 1)) = {}
  BY FoundIsFree
<1>2. Cells(new) = o .. (o + n - 1) /\ new \in RunSet /\ new.n = n
  BY <1>1 DEF Cells, Run, RunSet
<1>3. m2 \in [Blocks -> Nat] /\ runs \cup {new} \subseteq RunSet
  BY <1>2 DEF Marked, Consistent
<1>4. ASSUME NEW r \in runs, NEW b \in Cells(r)
      PROVE  b \in Blocks /\ m2[b] = m[b] /\ m2[b] = r.n
  <2>1. b \in Blocks /\ m[b] = r.n
    BY <1>4 DEF Consistent
  <2>2. b \notin o .. (o + n - 1)
    BY <1>1, <1>4
  <2>3. QED
    BY <2>1, <2>2 DEF Marked
<1>5. \A b \in Cells(new) : b \in Blocks /\ m2[b] = new.n
  BY <1>1, <1>2 DEF Marked
<1>6. ASSUME NEW b \in Blocks, m2[b] # 0
      PROVE  \E r \in runs \cup {new} : b \in Cells(r)
  <2>1. CASE b \in o .. (o + n - 1)
    BY <2>1, <1>2
  <2>2. CASE b \notin o .. (o + n - 1)
    BY <2>2, <1>6 DEF Marked, Consistent
  <2>3. QED
    BY <2>1, <2>2
<1>7. \A r, s \in runs \cup {new} : r # s => Cells(r) \cap Cells(s) = {}
  BY <1>1, <1>2 DEF Consistent
<1>8. QED
  BY <1>3, <1>4, <1>5, <1>6, <1>7 DEF Consistent

(* Freeing a held run takes exactly that run out of what the table says.   *)
LEMMA FreeConsistent ==
  ASSUME NEW m, NEW runs, Consistent(m, runs), NEW r \in runs
  PROVE  /\ Consistent(Freed(m, r.off), runs \ {r})
         /\ \A s \in runs \ {r} : \A b \in Cells(s) : Freed(m, r.off)[b] = m[b]
<1> DEFINE m2 == Freed(m, r.off)
<1>1. r.off \in Blocks /\ r.n \in Nat \ {0}
  BY DEF Consistent, RunSet
<1>2. r.off \in Cells(r)
  BY <1>1 DEF Cells, Blocks
<1>3. m[r.off] = r.n
  BY <1>2 DEF Consistent
<1>4. r.off .. (r.off + m[r.off] - 1) = Cells(r)
  BY <1>3 DEF Cells
<1>5. m2 = [b \in Blocks |-> IF b \in Cells(r) THEN 0 ELSE m[b]]
  BY <1>4 DEF Freed
<1>6. m2 \in [Blocks -> Nat] /\ runs \ {r} \subseteq RunSet
  BY <1>5 DEF Consistent
<1>7. ASSUME NEW s \in runs \ {r}, NEW b \in Cells(s)
      PROVE  b \in Blocks /\ m2[b] = m[b] /\ m2[b] = s.n
  <2>1. b \in Blocks /\ b \notin Cells(r) /\ m[b] = s.n
    BY <1>7 DEF Consistent
  <2>2. QED
    BY <2>1, <1>5
<1>8. ASSUME NEW b \in Blocks, m2[b] # 0
      PROVE  \E s \in runs \ {r} : b \in Cells(s)
  <2>1. m[b] # 0 /\ b \notin Cells(r)
    BY <1>5, <1>8
  <2>2. QED
    BY <2>1 DEF Consistent
<1>9. QED
  BY <1>6, <1>7, <1>8 DEF Consistent

-----------------------------------------------------------------------------
(* What each call does to table and runs, read off under the invariant.    *)
LEMMA ServedStep ==
  ASSUME IInv, NEW s \in Sizes, mymallocServed(s)
  PROVE  /\ nmemb(s) \in Nat \ {0}
         /\ \E o \in Found(memmap, nmemb(s)) :
              /\ memmap' = Marked(memmap, o, nmemb(s))
              /\ live' = live \cup {Run(o, nmemb(s))}
              /\ ret' = Answer(nmemb(s), o)
         /\ memrdy' = TRUE
BY TableFacts, RequestLength DEF mymallocServed

LEMMA ResizedStep ==
  ASSUME IInv, NEW r \in live, NEW s \in Sizes, myreallocServed(r, s)
  PROVE  /\ nmemb(s) \in Nat \ {0}
         /\ \E o \in Found(memmap, nmemb(s)) :
              /\ memmap' = Freed(Marked(memmap, o, nmemb(s)), r.off)
              /\ live' = (live \cup {Run(o, nmemb(s))}) \ {r}
              /\ ret' = Answer(nmemb(s), o)
         /\ memrdy' = TRUE
BY TableFacts, RequestLength DEF myreallocServed

(* One step keeps the invariant.                                           *)
LEMMA StepPreserves ==
  ASSUME IInv, [Next]_vars
  PROVE  IInv'
<1> DEFINE RetOK == ret' \in [want : Nat, got : Blocks \cup {NULL}]
<1>0. Consistent(memmap, live) /\ Table = memmap
  BY TableFacts
<1>a. ASSUME Consistent(memmap', live'), memrdy' = TRUE, RetOK
      PROVE  IInv'
  BY <1>a DEF IInv, TypeOK, NoOverlap, TableMatchesLive, ReadyWhenLive,
              Consistent, RunSet, Cells
<1>b. ASSUME UNCHANGED <<memmap, live>>
      PROVE  Consistent(memmap', live')
  BY <1>0, <1>b
<1>1. CASE my_mem_init
  <2>1. live' = live /\ memmap' = memmap /\ memrdy' = TRUE
    BY <1>1 DEF my_mem_init, IInv, ReadyWhenLive
  <2>2. RetOK
    BY <1>1 DEF my_mem_init, Answer
  <2>3. QED
    BY <2>1, <2>2, <1>a, <1>b
<1>2. ASSUME NEW s \in Sizes, mymallocServed(s)
      PROVE  IInv'
  <2>1. nmemb(s) \in Nat \ {0} /\ memrdy' = TRUE
    BY <1>2, ServedStep
  <2>2. PICK o \in Found(memmap, nmemb(s)) :
          /\ memmap' = Marked(memmap, o, nmemb(s))
          /\ live' = live \cup {Run(o, nmemb(s))}
          /\ ret' = Answer(nmemb(s), o)
    BY <1>2, ServedStep
  <2>3. Consistent(memmap', live')
    BY <1>0, <2>1, <2>2, MarkConsistent
  <2>4. RetOK
    BY <1>0, <2>1, <2>2, FoundIsFree DEF Answer
  <2>5. QED
    BY <2>1, <2>3, <2>4, <1>a
<1>3. ASSUME NEW s \in Sizes, mymallocRefused(s)
      PROVE  IInv'
  <2>1. memmap' = memmap /\ live' = live /\ memrdy' = TRUE
    BY <1>0, <1>3 DEF mymallocRefused
  <2>2. RetOK
    BY <1>3, RequestsFit DEF mymallocRefused, Answer
  <2>3. QED
    BY <2>1, <2>2, <1>a, <1>b
<1>4. ASSUME NEW r \in live, myfree(r)
      PROVE  IInv'
  <2>1. memmap' = Freed(memmap, r.off) /\ live' = live \ {r} /\ memrdy' = TRUE
    BY <1>4 DEF myfree, IInv, ReadyWhenLive
  <2>2. Consistent(memmap', live')
    BY <1>0, <2>1, FreeConsistent
  <2>3. RetOK
    BY <1>4 DEF myfree, Answer
  <2>4. QED
    BY <2>1, <2>2, <2>3, <1>a
<1>5. CASE myfreeNull
  BY <1>5 DEF myfreeNull, IInv, TypeOK, NoOverlap, TableMatchesLive,
              ReadyWhenLive, Cells, Answer
<1>6. ASSUME NEW r \in live, NEW s \in Sizes, myreallocServed(r, s)
      PROVE  IInv'
  <2>1. nmemb(s) \in Nat \ {0} /\ memrdy' = TRUE
    BY <1>6, ResizedStep
  <2>2. PICK o \in Found(memmap, nmemb(s)) :
          /\ memmap' = Freed(Marked(memmap, o, nmemb(s)), r.off)
          /\ live' = (live \cup {Run(o, nmemb(s))}) \ {r}
          /\ ret' = Answer(nmemb(s), o)
    BY <1>6, ResizedStep
  <2> DEFINE m1 == Marked(memmap, o, nmemb(s))
             l1 == live \cup {Run(o, nmemb(s))}
  <2>3. Consistent(m1, l1)
    BY <1>0, <2>1, <2>2, MarkConsistent
  <2>4. Consistent(memmap', live')
    <3>1. r \in l1 /\ memmap' = Freed(m1, r.off) /\ live' = l1 \ {r}
      BY <2>2
    <3> HIDE DEF m1, l1
    <3>2. QED
      BY <2>3, <3>1, FreeConsistent
  <2>5. RetOK
    BY <1>0, <2>1, <2>2, FoundIsFree DEF Answer
  <2>6. QED
    BY <2>1, <2>4, <2>5, <1>a
<1>7. CASE UNCHANGED vars
  BY <1>7 DEF vars, IInv, TypeOK, NoOverlap, TableMatchesLive, ReadyWhenLive,
              Cells
<1>8. QED
  BY <1>1, <1>2, <1>3, <1>4, <1>5, <1>6, <1>7 DEF Next, mymalloc, myrealloc

(* The initial table is empty and nobody holds anything.                   *)
LEMMA InitInv == Init => IInv
<1> SUFFICES ASSUME Init PROVE IInv
  OBVIOUS
<1>1. TypeOK
  BY DEF Init, TypeOK, Cleared, Answer
<1>2. NoOverlap /\ ReadyWhenLive
  BY DEF Init, NoOverlap, ReadyWhenLive
<1>3. TableMatchesLive
  BY DEF Init, TableMatchesLive, Cleared
<1>4. QED
  BY <1>1, <1>2, <1>3 DEF IInv

(* The allocator keeps its inductive invariant.                            *)
THEOREM PoolInvariant == Spec => []IInv
<1>1. IInv /\ [Next]_vars => IInv'
  BY StepPreserves
<1>2. QED
  BY InitInv, <1>1, PTL DEF Spec

(* The variables of the allocator keep their types.                        *)
THEOREM PoolTypes == Spec => []TypeOK
<1>1. IInv => TypeOK
  BY DEF IInv
<1>2. QED
  BY PoolInvariant, <1>1, PTL

(* my_mem_malloc never hands out a block that another caller holds.        *)
THEOREM PoolNoOverlap == Spec => []NoOverlap
<1>1. IInv => NoOverlap
  BY DEF IInv
<1>2. QED
  BY PoolInvariant, <1>1, PTL

(* The table marks exactly the blocks of held runs, with their length.     *)
THEOREM PoolTable == Spec => []TableMatchesLive
<1>1. IInv => TableMatchesLive
  BY DEF IInv
<1>2. QED
  BY PoolInvariant, <1>1, PTL

-----------------------------------------------------------------------------
(* A found run is a gap of the abstract pool, and where the scan finds no  *)
(* candidate the abstract pool has no gap.                                 *)
LEMMA CandidateIsGap ==
  ASSUME IInv, NEW n \in Nat \ {0}, NEW o \in Blocks
  PROVE  o \in Candidates(memmap, n) <=> Pool!Gap(o, n)
<1>0. Consistent(memmap, live)
  BY TableFacts
<1>1. ASSUME o \in Candidates(memmap, n)
      PROVE  Pool!Gap(o, n)
  <2>1. o + n <= MEMTBLSIZE /\ \A b \in o .. (o + n - 1) : memmap[b] = 0
    BY <1>1 DEF Candidates
  <2>2. \A r \in live : \A b \in Cells(r) : memmap[b] # 0
    BY <1>0 DEF Consistent, RunSet
  <2>3. QED
    BY <2>1, <2>2 DEF Pool!Gap, Pool!Cells, Cells
<1>2. ASSUME Pool!Gap(o, n)
      PROVE  o \in Candidates(memmap, n)
  <2>1. o + n <= MEMTBLSIZE
    BY <1>2 DEF Pool!Gap
  <2>2. ASSUME NEW b \in o .. (o + n - 1)
        PROVE  memmap[b] = 0
    <3>1. b \in Blocks
      BY <2>1, PoolShape DEF Blocks
    <3>2. \A r \in live : b \notin Cells(r)
      BY <1>2 DEF Pool!Gap, Pool!Cells, Cells
    <3>3. QED
      BY <3>1, <3>2, <1>0 DEF Consistent
  <2>3. QED
    BY <2>1, <2>2 DEF Candidates
<1>3. QED
  BY <1>1, <1>2

(* Every call of the allocator is a call, or no call, of the abstract pool.*)
LEMMA StepRefines ==
  ASSUME IInv, [Next]_vars
  PROVE  [Pool!Next]_(Pool!vars)
<1> DEFINE Lengths == {nmemb(s) : s \in Sizes \ {0}}
<1>0. Table = memmap
  BY TableFacts
<1>1. CASE my_mem_init
  BY <1>1 DEF my_mem_init, Pool!Next, Pool!Nothing, Pool!Answer, Pool!NULL,
              Answer, NULL
<1>2. ASSUME NEW s \in Sizes, mymallocServed(s)
      PROVE  Pool!Next
  <2>1. nmemb(s) \in Nat \ {0} /\ nmemb(s) \in Lengths
    BY <1>2, ServedStep DEF mymallocServed
  <2>2. PICK o \in Found(memmap, nmemb(s)) :
          /\ live' = live \cup {Run(o, nmemb(s))}
          /\ ret' = Answer(nmemb(s), o)
    BY <1>2, ServedStep
  <2>3. o \in Blocks /\ Pool!Gap(o, nmemb(s))
    BY <2>1, CandidateIsGap DEF Found, Candidates
  <2>4. Pool!Alloc(nmemb(s))
    BY <2>2, <2>3 DEF Pool!Alloc, Pool!Run, Pool!Answer, Run, Answer, Blocks
  <2>5. QED
    BY <2>1, <2>4 DEF Pool!Next
<1>3. ASSUME NEW s \in Sizes, mymallocRefused(s)
      PROVE  Pool!Next
  <2>1. CASE s = 0
    BY <1>3, <2>1 DEF mymallocRefused, Pool!Next, Pool!Nothing, Pool!Answer,
                      Pool!NULL, Answer, NULL
  <2>2. CASE s # 0
    <3>1. nmemb(s) \in Nat \ {0} /\ nmemb(s) \in Lengths
      BY <2>2, RequestLength
    <3>2. \A o \in Blocks : ~Pool!Gap(o, nmemb(s))
      BY <1>0, <1>3, <2>2, <3>1, CandidateIsGap DEF mymallocRefused
    <3>3. Pool!Refuse(nmemb(s))
      BY <1>3, <2>2, <3>2 DEF mymallocRefused, Pool!Refuse, Pool!Answer,
                              Pool!NULL, Answer, NULL, Blocks
    <3>4. QED
      BY <3>1, <3>3 DEF Pool!Next
  <2>3. QED
    BY <2>1, <2>2
<1>4. ASSUME NEW r \in live, myfree(r)
      PROVE  Pool!Next
  BY <1>4 DEF myfree, Pool!Next, Pool!Release, Pool!Answer, Pool!NULL, Answer, NULL
<1>5. CASE myfreeNull
  BY <1>5 DEF myfreeNull, Pool!Next, Pool!Nothing, Pool!Answer, Pool!NULL,
              Answer, NULL
<1>6. ASSUME NEW r \in live, NEW s \in Sizes, myreallocServed(r, s)
      PROVE  Pool!Next
  <2>1. nmemb(s) \in Nat \ {0} /\ nmemb(s) \in Lengths
    BY <1>6, ResizedStep DEF myreallocServed
  <2>2. PICK o \in Found(memmap, nmemb(s)) :
          /\ live' = (live \cup {Run(o, nmemb(s))}) \ {r}
          /\ ret' = Answer(nmemb(s), o)
    BY <1>6, ResizedStep
  <2>3. o \in Blocks /\ Pool!Gap(o, nmemb(s))
    BY <2>1, CandidateIsGap DEF Found, Candidates
  <2>4. Pool!Resize(r, nmemb(s))
    BY <2>2, <2>3 DEF Pool!Resize, Pool!Run, Pool!Answer, Run, Answer, Blocks
  <2>5. QED
    BY <2>1, <2>4 DEF Pool!Next
<1>7. CASE UNCHANGED vars
  BY <1>7 DEF vars, Pool!vars
<1>8. QED
  BY <1>1, <1>2, <1>3, <1>4, <1>5, <1>6, <1>7 DEF Next, mymalloc, myrealloc

(* The allocator implements the abstract pool: it hands out disjoint runs  *)
(* and refuses a request only when no free run is long enough.             *)
THEOREM PoolRefinement == Spec => ImplementsPool
<1>1. Init => Pool!Init
  BY DEF Init, Pool!Init, Pool!Answer, Pool!NULL, Answer, NULL
<1>2. IInv /\ [Next]_vars => [Pool!Next]_(Pool!vars)
  BY StepRefines
<1>3. QED
  BY <1>1, <1>2, PoolInvariant, PTL DEF Spec, ImplementsPool, Pool!Spec
=============================================================================
