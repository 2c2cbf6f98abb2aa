------------------------------- MODULE MCHeap -------------------------------
(***************************************************************************)
(* A small heap for TLC.  hb->used sinks a little with every chunk that is *)
(* taken whole or merged backward, so a run is bounded by how far below    *)
(* zero the counter may sink.                                              *)
(***************************************************************************)
EXTENDS Heap

CONSTANT MaxDrift      \* how far below zero hb->used may go

Signed(w) == IF 2 * w >= Word THEN w - Word ELSE w

DriftBound == Signed(used) >= -MaxDrift

MCNext == Next /\ DriftBound'

MCSpec == Init /\ [][MCNext]_vars
=============================================================================
