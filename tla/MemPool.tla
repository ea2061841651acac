------------------------------ MODULE MemPool -------------------------------
(***************************************************************************)
(* The block allocator of MALLOC/malloc.c, one call at a time.             *)
(*                                                                         *)
(* The management table memmap has one u16 per block of MEMBLKSIZE bytes:  *)
(* 0 for a free block, otherwise the length of the run the block belongs   *)
(* to, repeated in every block of the run.  A pointer is identified with   *)
(* the number of the block it points at: offsets handed out are multiples  *)
(* of the block size and my_mem_free divides by it again.                  *)
(*                                                                         *)
(* Callers here free only what they were given, once; the queue buffers    *)
(* of EventPath are freed again and again.                                 *)
(***************************************************************************)
EXTENDS Integers

CONSTANTS
  MEMTBLSIZE,  (* memtblsize[memx]: blocks in the pool                 *)
  MEMBLKSIZE,  (* memblksize[memx]: bytes in a block                   *)
  U16,         (* 2^16, the modulus of the u16 nmemb                   *)
  Sizes        (* the sizes, in bytes, that callers ask for            *)

(* Blocks needed for size bytes: size/blk rounded up, kept in a u16.       *)
nmemb(size) ==
  ((size \div MEMBLKSIZE) + IF size % MEMBLKSIZE # 0 THEN 1 ELSE 0) % U16

ASSUME PoolShape ==
  /\ MEMTBLSIZE \in Nat \ {0}
  /\ MEMBLKSIZE \in Nat \ {0}
  /\ U16 \in Nat \ {0}

(* No caller asks for so much that the block count wraps to 0 (a multiple  *)
(* of 2 MB with the pool of 40 KB): my_mem_malloc would then return the    *)
(* first used block it meets.                                              *)
ASSUME RequestsFit ==
  /\ Sizes \subseteq Nat
  /\ \A s \in Sizes : nmemb(s) \in Nat
  /\ \A s \in Sizes : s # 0 => nmemb(s) # 0

VARIABLES
  memrdy,   (* mallco_dev.memrdy                                       *)
  memmap,   (* mallco_dev.memmap                                       *)
  live,     (* history: the runs callers hold                          *)
  ret       (* history: blocks wanted and first block got by the last  *)
            (* call                                                    *)

vars == <<memrdy, memmap, live, ret>>

Blocks == 0 .. (MEMTBLSIZE - 1)

NULL == -1

Run(o, n) == [off |-> o, n |-> n]

Cells(r) == r.off .. (r.off + r.n - 1)

Answer(n, o) == [want |-> n, got |-> o]

Cleared == [b \in Blocks |-> 0]

-----------------------------------------------------------------------------
(* The table my_mem_malloc and my_mem_free work on: an allocator that is   *)
(* not ready initialises itself first.                                     *)
Table == IF memrdy THEN memmap ELSE Cleared

(* Mutant: the scan misses the last block of the run it counts.            *)
CandidatesOffByOne(m, n) ==
  {o \in Blocks : o + n <= MEMTBLSIZE /\ \A b \in o .. (o + n - 2) : m[b] = 0}

(* Mutant: the loop condition is offset > 0, so block 0 is never reached.  *)
CandidatesAboveZero(m, n) ==
  {o \in Blocks \ {0} :
     o + n <= MEMTBLSIZE /\ \A b \in o .. (o + n - 1) : m[b] = 0}

(* Offsets at which the downward scan has just counted n free blocks.      *)
Candidates(m, n) ==
  {o \in Blocks : o + n <= MEMTBLSIZE /\ \A b \in o .. (o + n - 1) : m[b] = 0}

(* The scan starts at the top of the table and stops at the first one.     *)
Found(m, n) ==
  {o \in Candidates(m, n) : \A p \in Candidates(m, n) : p <= o}

Marked(m, o, n) == [b \in Blocks |-> IF b \in o .. (o + n - 1) THEN n ELSE m[b]]

(* Mutant: only the first block of the run is cleared.                     *)
FreedFirstOnly(m, o) == [m EXCEPT ![o] = 0]

(* my_mem_free believes the length it finds in the first block.            *)
Freed(m, o) ==
  [b \in Blocks |-> IF b \in o .. (o + m[o] - 1) THEN 0 ELSE m[b]]

-----------------------------------------------------------------------------
Init ==
  /\ memrdy = FALSE
  /\ memmap = Cleared
  /\ live = {}
  /\ ret = Answer(0, NULL)

(* Called once by main, before any task exists.                            *)
my_mem_init ==
  /\ ~memrdy
  /\ memrdy' = TRUE
  /\ memmap' = Cleared
  /\ ret' = Answer(0, NULL)
  /\ UNCHANGED live

mymallocServed(size) ==
  /\ size # 0
  /\ LET n == nmemb(size) IN
     \E o \in Found(Table, n) :
         /\ memmap' = Marked(Table, o, n)
         /\ live' = live \cup {Run(o, n)}
         /\ ret' = Answer(n, o)
  /\ memrdy' = TRUE

mymallocRefused(size) ==
  /\ size = 0 \/ Candidates(Table, nmemb(size)) = {}
  /\ memrdy' = TRUE
  /\ memmap' = Table
  /\ ret' = Answer(IF size = 0 THEN 0 ELSE nmemb(size), NULL)
  /\ UNCHANGED live

mymalloc(size) == mymallocServed(size) \/ mymallocRefused(size)

(* myfree of a pointer some caller holds.                                  *)
myfree(r) ==
  /\ memrdy' = TRUE
  /\ memmap' = IF memrdy THEN Freed(memmap, r.off) ELSE Cleared
  /\ live' = live \ {r}
  /\ ret' = Answer(0, NULL)

(* myfree(NULL), which led_task does on every idle turn, returns at once.  *)
myfreeNull ==
  /\ ret' = Answer(0, NULL)
  /\ UNCHANGED <<memrdy, memmap, live>>

(* Allocate, copy, free the old run.  When there is no room the old run is *)
(* kept.                                                                   *)
myreallocServed(r, size) ==
  /\ size # 0
  /\ LET n == nmemb(size) IN
     \E o \in Found(Table, n) :
         /\ memmap' = Freed(Marked(Table, o, n), r.off)
         /\ live' = (live \cup {Run(o, n)}) \ {r}
         /\ ret' = Answer(n, o)
  /\ memrdy' = TRUE

myrealloc(r, size) == myreallocServed(r, size) \/ mymallocRefused(size)

Next ==
  \/ my_mem_init
  \/ \E s \in Sizes : mymalloc(s)
  \/ \E r \in live : myfree(r)
  \/ myfreeNull
  \/ \E r \in live, s \in Sizes : myrealloc(r, s)

Spec == Init /\ [][Next]_vars

-----------------------------------------------------------------------------
(* Type invariant.                                                         *)
TypeOK ==
  /\ memrdy \in BOOLEAN
  /\ memmap \in [Blocks -> Nat]
  /\ live \subseteq [off : Blocks, n : Nat \ {0}]
  /\ ret \in [want : Nat, got : Blocks \cup {NULL}]

(* No block is in two runs that callers hold (malloc.c:92-104 together     *)
(* with the clearing loop of my_mem_free).                                 *)
NoOverlap ==
  \A r, s \in live : r # s => Cells(r) \cap Cells(s) = {}

(* The table agrees with what callers hold: every block of a run carries   *)
(* the run's length, so that freeing it clears exactly the run, and no     *)
(* block is marked that nobody holds, so that nothing leaks.               *)
TableMatchesLive ==
  /\ \A r \in live : \A b \in Cells(r) : b \in Blocks /\ memmap[b] = r.n
  /\ \A b \in Blocks : memmap[b] # 0 => \E r \in live : b \in Cells(r)

(* Nothing is handed out by an allocator that would still wipe its table.  *)
ReadyWhenLive == ~memrdy => live = {} /\ memmap = Cleared

(* The allocator implements the pool its callers rely on.                  *)
Pool == INSTANCE AbstractPool WITH
          TableSize <- MEMTBLSIZE,
          Lengths   <- {nmemb(s) : s \in Sizes \ {0}}

ImplementsPool == Pool!Spec
=============================================================================
