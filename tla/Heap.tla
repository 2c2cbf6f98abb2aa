-------------------------------- MODULE Heap --------------------------------
(***************************************************************************)
(* The kernel heap (src/mem/heap.h), as malloc and free (src/mem/mem.h)    *)
(* drive it once pmem_init has given it its one block.                     *)
(*                                                                         *)
(* Addresses are byte offsets from the block `hb`.  A chunk is an 8-byte   *)
(* header (prevsize, flagsize) followed by its payload; `hdrs` maps the    *)
(* offset of every header to its fields, with flagsize's top bit as the    *)
(* Boolean `taken`.  Chunks lie one behind the other, so the walk          *)
(* `hdr = &hdr[1] + sz` of k_heapLCABAlloc visits DOMAIN hdrs in order.    *)
(*                                                                         *)
(* lastdsize and lastdhdr are left out: the code that reads them is        *)
(* commented out (heap.h:190-197).                                         *)
(***************************************************************************)
EXTENDS Integers, Sequences, FiniteSets, Functions

CONSTANTS BlockSize,   \* hb->size, as passed to k_heapLCABAddBlock
          Sizes,       \* the sizes malloc is asked for
          Word,        \* number of values of a uint32 counter (2^32)
          FirstPrev    \* what the RAM under the first header's prevsize may hold

HDR    == 8            \* sizeof(KHEAPHDRLCAB)
BLKHDR == 20           \* sizeof(KHEAPBLOCKLCAB)
SLACK  == 32           \* the 32 of k_heapLCABAddBlock
SPARE  == 16           \* the smallest remainder worth a chunk of its own

ASSUME BlockAssumption == /\ BlockSize \in Nat
                          /\ BlockSize >= BLKHDR + SLACK + 1
ASSUME SizesAssumption == Sizes \subseteq Nat \ {0}
ASSUME WordAssumption  == Word \in Nat /\ Word > 2 * BlockSize
ASSUME PrevAssumption  == FirstPrev \subseteq Nat

VARIABLES hdrs,        \* header offset -> [taken, size, prev]
          used,        \* hb->used
          mem_in_use,  \* heap->mem_in_use
          spill,       \* what was stored just past the block's end, 0 if nothing
          live         \* pointer -> the size its owner asked for (history)

vars == <<hdrs, used, mem_in_use, spill, live>>

First == BLKHDR

Header == [taken : BOOLEAN, size : Nat, prev : Nat]

Hdr(taken, size, prev) == [taken |-> taken, size |-> size, prev |-> prev]

\* f with v stored at k, which may be a new place.
Put(f, k, v) == [x \in DOMAIN f \cup {k} |-> IF x = k THEN v ELSE f[x]]

\* The offset of the header behind the chunk at h, or the end of the block.
Behind(f, h) == h + HDR + f[h].size

-----------------------------------------------------------------------------
(* k_heapLCABInit and k_heapLCABAddBlock.  The one real chunk stops 24      *)
(* bytes short of the block's end.  The walk does not know that: it reads   *)
(* those bytes as headers, and in zeroed RAM they are three free chunks of  *)
(* size 0.                                                                  *)

LastEnd == BlockSize - (SLACK - HDR)

Phantoms == {LastEnd, LastEnd + HDR, LastEnd + 2 * HDR}

AddBlock(p) ==
    [h \in {First} \cup Phantoms |->
        IF h = First
        THEN Hdr(FALSE, BlockSize - (BLKHDR + SLACK), p)
        ELSE Hdr(FALSE, 0, 0)]

Init == /\ \E p \in FirstPrev : hdrs = AddBlock(p)
        /\ used = 0
        /\ mem_in_use = 0
        /\ spill = 0
        /\ live = [p \in {} |-> 0]

-----------------------------------------------------------------------------
(* k_heapLCABAlloc                                                         *)

\* hb->size - hb->used >= size + sizeof(KHEAPHDRLCAB), on 32-bit words.
EnoughLeft(size) == (BlockSize - used) % Word >= size + HDR

\* The headers in the order the loop meets them, walking `hdr = &hdr[1] + sz` from the
\* first one while hdr < hb + hb->size.  In the code the walk is what tells where the
\* headers are.
Walk ==
    LET walk[h \in Nat] == IF h \in DOMAIN hdrs THEN <<h>> \o walk[Behind(hdrs, h)] ELSE <<>>
    IN  walk[First]

\* Wrong: the walk does not look at the used flag.
AnyFits(size) == {h \in DOMAIN hdrs : hdrs[h].size >= size}

FreeFits(size) == {h \in DOMAIN hdrs : ~hdrs[h].taken /\ hdrs[h].size >= size}

\* The walk stops at the first chunk that is free and large enough.
FirstFit(h, size) == /\ h \in FreeFits(size)
                     /\ \A g \in FreeFits(size) : h <= g

WorthSplitting(h, size) == hdrs[h].size > size + HDR + SPARE

\* Wrong: the second half placed `size` behind the header, not behind the payload.
SplitFromHeader(h, size) ==
    LET half == Hdr(TRUE, size, hdrs[h].prev)
        rest == Hdr(FALSE, hdrs[h].size - size, size)
    IN  /\ hdrs' = Put(Put(hdrs, h, half), h + size, rest)
        /\ used' = (used + HDR + size) % Word
        /\ mem_in_use' = (mem_in_use + HDR + size) % Word

\* Wrong: the new header's own bytes are not taken out of the remainder.
SplitForgetsHeader(h, size) ==
    LET half == Hdr(TRUE, size, hdrs[h].prev)
        rest == Hdr(FALSE, hdrs[h].size - size, size)
    IN  /\ hdrs' = Put(Put(hdrs, h, half), h + HDR + size, rest)
        /\ used' = (used + HDR + size) % Word
        /\ mem_in_use' = (mem_in_use + HDR + size) % Word

\* Cut the chunk at h in two.  The chunk behind the second half keeps its
\* prevsize: the code does not touch it.
Split(h, size) ==
    LET half == Hdr(TRUE, size, hdrs[h].prev)
        rest == Hdr(FALSE, hdrs[h].size - (size + HDR), size)
    IN  /\ hdrs' = Put(Put(hdrs, h, half), h + HDR + size, rest)
        /\ used' = (used + HDR + size) % Word
        /\ mem_in_use' = (mem_in_use + HDR + size) % Word

\* Take the chunk at h as it is; the counters grow by what was asked for.
TakeWhole(h, size) ==
    /\ hdrs' = Put(hdrs, h, Hdr(TRUE, hdrs[h].size, hdrs[h].prev))
    /\ used' = (used + size) % Word
    /\ mem_in_use' = (mem_in_use + size) % Word

\* malloc finds a chunk and returns &hdr[1].
Malloc(size) ==
    /\ EnoughLeft(size)
    /\ \E h \in DOMAIN hdrs :
         /\ FirstFit(h, size)
         /\ IF WorthSplitting(h, size) THEN Split(h, size) ELSE TakeWhole(h, size)
         /\ live' = Put(live, h + HDR, size)
    /\ UNCHANGED spill

\* malloc returns 0: the block is thought to be full, or no chunk fits.
MallocFails(size) ==
    /\ ~EnoughLeft(size) \/ FreeFits(size) = {}
    /\ UNCHANGED vars

-----------------------------------------------------------------------------
(* k_heapLCABFree                                                          *)

\* Wrong: swallows the chunk behind even when it is taken.
MergesAnything(h) == Behind(hdrs, h) \in DOMAIN hdrs

MergesForward(h) == Behind(hdrs, h) \in DOMAIN hdrs /\ ~hdrs[Behind(hdrs, h)].taken

\* The size of the chunk at h once it has swallowed the free chunk behind it.
FreedSize(h) ==
    IF MergesForward(h) THEN hdrs[h].size + HDR + hdrs[Behind(hdrs, h)].size
                        ELSE hdrs[h].size

\* The chunk at h as a free one.
Freed(h) == Hdr(FALSE, FreedSize(h), hdrs[h].prev)

\* The headers without the one that was merged into the chunk at h.
Kept(h) == IF MergesForward(h) THEN Restrict(hdrs, DOMAIN hdrs \ {Behind(hdrs, h)})
                               ELSE hdrs

\* Wrong: the header behind a merged chunk learns the size before the merge.
RelinkOldSize(f, h) ==
    LET b == h + HDR + FreedSize(h)
    IN  IF MergesForward(h) /\ b \in DOMAIN f
        THEN Put(f, b, Hdr(f[b].taken, f[b].size, hdrs[h].size)) ELSE f

\* The header behind a merged chunk learns the chunk's size.
Relink(f, h) ==
    LET b == h + HDR + FreedSize(h)
    IN  IF MergesForward(h) /\ b \in DOMAIN f
        THEN Put(f, b, Hdr(f[b].taken, f[b].size, FreedSize(h))) ELSE f

FreedHeaders(h) == Relink(Put(Kept(h), h, Freed(h)), h)

\* When the chunk behind was the last one, that store falls past the block.
Spilled(h) ==
    IF MergesForward(h) /\ h + HDR + FreedSize(h) = BlockSize
    THEN FreedSize(h) ELSE spill

\* The backward merge takes the address of its own variable `hdr` for the
\* chunk's (heap.h:97), so the "previous header" is a word of the kernel's
\* image or stack.  No chunk is merged; if the word's top bit happens to be
\* clear, the counters lose a header.  Its two stores are left out: the one
\* to that word (heap.h:132), and the one to the word it then takes for the
\* next header's prevsize (heap.h:139), which the test of heap.h:138 lets
\* through below the block's end, inside the block too.  They are assumed to
\* meet no header and no payload that is taken.
BackMerges(h) == IF hdrs[h].prev = 0 THEN {FALSE} ELSE BOOLEAN

\* Wrong: a merge does not give the swallowed header back to the counters.
ReleaseKeepsHeader(h, back) ==
    /\ hdrs' = FreedHeaders(h)
    /\ used' = (used - hdrs[h].size) % Word
    /\ mem_in_use' = (mem_in_use - hdrs[h].size) % Word
    /\ spill' = Spilled(h)

\* Wrong: counters that do not wrap.
ReleaseSigned(h, back) ==
    /\ hdrs' = FreedHeaders(h)
    /\ used' = used - hdrs[h].size
    /\ mem_in_use' = mem_in_use - hdrs[h].size
    /\ spill' = Spilled(h)

Release(h, back) ==
    LET lost == hdrs[h].size + (IF MergesForward(h) THEN HDR ELSE 0)
                             + (IF back THEN HDR ELSE 0)
    IN  /\ hdrs' = FreedHeaders(h)
        /\ used' = (used - lost) % Word
        /\ mem_in_use' = (mem_in_use - lost) % Word
        /\ spill' = Spilled(h)

\* free(p) by the owner of p.
Free(p) ==
    /\ \E back \in BackMerges(p - HDR) : Release(p - HDR, back)
    /\ live' = Restrict(live, DOMAIN live \ {p})

Next == \/ \E size \in Sizes : Malloc(size) \/ MallocFails(size)
        \/ \E p \in DOMAIN live : Free(p)

Spec == Init /\ [][Next]_vars

-----------------------------------------------------------------------------
(* Properties                                                              *)

TypeOK == /\ DOMAIN hdrs \subseteq Nat
          /\ hdrs \in [DOMAIN hdrs -> Header]
          /\ used \in 0 .. Word - 1
          /\ mem_in_use \in 0 .. Word - 1
          /\ spill \in Nat
          /\ DOMAIN live \subseteq Nat
          /\ live \in [DOMAIN live -> Sizes]

\* The chunks tile the block from the first header to the block's end: the
\* place behind a chunk is another header or the end, and no header lies inside
\* a chunk.  This is what makes the walk of k_heapLCABAlloc (heap.h:203-244)
\* and the next-header step of k_heapLCABFree (heap.h:104) meet headers only.
Tiling ==
    /\ First \in DOMAIN hdrs
    /\ \A h \in DOMAIN hdrs :
         /\ First <= h /\ h < BlockSize
         /\ Behind(hdrs, h) \in DOMAIN hdrs \cup {BlockSize}
    /\ \A h, g \in DOMAIN hdrs : h < g => Behind(hdrs, h) <= g

\* The walk ends, meets every header once and nothing else: DOMAIN hdrs is what the
\* code would find in memory (heap.h:203-244).
WalkMeetsHeaders == /\ Range(Walk) = DOMAIN hdrs
                    /\ Len(Walk) = Cardinality(DOMAIN hdrs)

\* Pointers and taken chunks correspond: every pointer malloc returned and
\* nobody freed is the payload of a taken chunk that holds the bytes asked for
\* and at most 24 more, and no chunk is taken without an owner (heap.h:211-239).
OwnedChunks ==
    /\ \A p \in DOMAIN live :
         /\ p - HDR \in DOMAIN hdrs
         /\ hdrs[p - HDR].taken
         /\ live[p] <= hdrs[p - HDR].size
         /\ hdrs[p - HDR].size <= live[p] + HDR + SPARE
    /\ \A h \in DOMAIN hdrs : hdrs[h].taken => h + HDR \in DOMAIN live

\* What an owner may write never reaches a header, taken or free, nor the end
\* of the block: malloc(n) gives n bytes to the caller alone (mem.h:236-242).
PayloadsClear ==
    \A p \in DOMAIN live :
        /\ p + live[p] <= BlockSize
        /\ \A h \in DOMAIN hdrs : h + HDR <= p \/ p + live[p] <= h

\* As long as hb->used has not sunk below zero by almost a machine word, the test
\* on it that k_heapLCABAlloc makes before it looks at any chunk (heap.h:187) never
\* turns down a request some free chunk could serve.
PrecheckSound ==
    \A size \in Sizes : FreeFits(size) # {} => EnoughLeft(size)

\* A back link is absent or reaches at least to the header before it: it may be
\* out of date (a split does not update it, heap.h:217-221) but never points
\* into the payload of the chunk directly before (heap.h:121, 221).
BackLinksReach ==
    \A h \in DOMAIN hdrs :
        LET b == Behind(hdrs, h)
        IN  b \in DOMAIN hdrs =>
                hdrs[b].prev = 0 \/ hdrs[b].prev >= hdrs[h].size

\* A free stores nothing outside the block.  The store after a merge is meant to
\* "set next header prevsize" (the comment of heap.h:119).
StoresInBlock == spill = 0

\* Freed chunks are "merged back": after a free no two free chunks are
\* neighbours (the comment of heap.h:60).
NoFreeNeighbours ==
    \A h \in DOMAIN hdrs :
        LET b == Behind(hdrs, h)
        IN  ~hdrs[h].taken /\ b \in DOMAIN hdrs \ Phantoms => hdrs[b].taken

\* The heap implements the allocator its users think of.
Pool == INSTANCE Allocator WITH Base <- First + HDR, Limit <- BlockSize
Allocates == Pool!Spec
=============================================================================
