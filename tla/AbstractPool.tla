---------------------------- MODULE AbstractPool ----------------------------
(***************************************************************************)
(* What callers of mymalloc / myfree / myrealloc rely on: a pool of        *)
(* TableSize blocks that hands out runs of consecutive blocks, never two   *)
(* overlapping ones, and that refuses a request only when no run of that   *)
(* length is free.  Which free run is handed out is left open.             *)
(***************************************************************************)
EXTENDS Integers

CONSTANTS
  TableSize,  (* number of blocks in the pool                   *)
  Lengths     (* run lengths, in blocks, that callers ask for   *)

VARIABLES
  live,       (* the runs callers hold                          *)
  ret         (* the last call: blocks wanted, first block got  *)

vars == <<live, ret>>

NULL == -1

Run(o, n) == [off |-> o, n |-> n]

Cells(r) == r.off .. (r.off + r.n - 1)

Answer(n, o) == [want |-> n, got |-> o]

(* Blocks o .. o+n-1 exist and no caller holds any of them.                *)
Gap(o, n) ==
  /\ o + n <= TableSize
  /\ \A r \in live : Cells(r) \cap (o .. (o + n - 1)) = {}

Init ==
  /\ live = {}
  /\ ret = Answer(0, NULL)

(* A request is served from some gap.                                      *)
Alloc(n) ==
  \E o \in 0 .. (TableSize - 1) :
    /\ Gap(o, n)
    /\ live' = live \cup {Run(o, n)}
    /\ ret' = Answer(n, o)

(* A request, or the new run of a resize, is refused only without a gap.   *)
Refuse(n) ==
  /\ \A o \in 0 .. (TableSize - 1) : ~Gap(o, n)
  /\ ret' = Answer(n, NULL)
  /\ UNCHANGED live

Release(r) ==
  /\ live' = live \ {r}
  /\ ret' = Answer(0, NULL)

(* The new run is found while the old one is still held.                   *)
Resize(r, n) ==
  \E o \in 0 .. (TableSize - 1) :
    /\ Gap(o, n)
    /\ live' = (live \cup {Run(o, n)}) \ {r}
    /\ ret' = Answer(n, o)

(* A call that asks for nothing: size 0, a NULL pointer.                   *)
Nothing ==
  /\ ret' = Answer(0, NULL)
  /\ UNCHANGED live

Next ==
  \/ \E n \in Lengths : Alloc(n) \/ Refuse(n)
  \/ \E r \in live : Release(r)
  \/ \E r \in live, n \in Lengths : Resize(r, n)
  \/ Nothing

Spec == Init /\ [][Next]_vars
=============================================================================
