------------------------------ MODULE Allocator ------------------------------
(***************************************************************************)
(* What malloc and free (src/mem/mem.h) promise the kernel and its         *)
(* programs, with no chunk, header or counter in sight: a live region lies *)
(* inside the memory the allocator was given and overlaps no other live    *)
(* region, and stays as it is until its owner frees it.  Heap implements   *)
(* this specification.                                                     *)
(***************************************************************************)
EXTENDS Naturals

CONSTANTS Base,    \* the first address malloc may hand out
          Limit,   \* the end of the memory
          Sizes    \* the sizes asked for

VARIABLE live      \* pointer -> the size its owner asked for

\* The n bytes at p and the m bytes at q share no byte.
Apart(p, n, q, m) == p + n <= q \/ q + m <= p

Init == live = [p \in {} |-> 0]

\* malloc succeeds with any region that is inside the memory and free.
Malloc(p, n) ==
    /\ p \notin DOMAIN live
    /\ Base <= p /\ p + n <= Limit
    /\ \A q \in DOMAIN live : Apart(p, n, q, live[q])
    /\ live' = [q \in DOMAIN live \cup {p} |-> IF q = p THEN n ELSE live[q]]

\* Only the owner ends a region's life; every other region keeps its size.
Free(p) ==
    /\ p \in DOMAIN live
    /\ live' = [q \in DOMAIN live \ {p} |-> live[q]]

Next == \/ \E p \in Base .. Limit, n \in Sizes : Malloc(p, n)
        \/ \E p \in DOMAIN live : Free(p)

Spec == Init /\ [][Next]_live
=============================================================================
