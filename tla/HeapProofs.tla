----------------------------- MODULE HeapProofs -----------------------------
(***************************************************************************)
(* Proofs about the kernel heap, for every block size, every set of        *)
(* request sizes and every width of the counters.                          *)
(*                                                                         *)
(* The inductive invariant is HeapInv, types with Tiling, OwnedChunks and  *)
(* BackLinksReach: a free must know that its pointer stands behind a header*)
(* (OwnedChunks), and that the place behind a chunk is a header (Tiling),  *)
(* to preserve either.  It does not say which sizes are asked for, so that *)
(* it serves every user of the heap.  UsedInv adds that hb->used does not  *)
(* exceed the bytes in use, and Gap is by how much it falls short of them. *)
(* What the walk over the chunks finds is shown for the largest headers    *)
(* first: a least counterexample takes the place of an induction.          *)
(***************************************************************************)
EXTENDS Heap, FiniteSetTheorems, SequenceTheorems, WellFoundedInduction, TLAPS

\* The types of the heap's variables, for requests of any size.
HeapTypes == /\ DOMAIN hdrs \subseteq Nat
             /\ hdrs \in [DOMAIN hdrs -> Header]
             /\ used \in 0 .. Word - 1
             /\ mem_in_use \in 0 .. Word - 1
             /\ spill \in Nat
             /\ DOMAIN live \subseteq Nat
             /\ live \in [DOMAIN live -> Nat]

HeapInv == HeapTypes /\ Tiling /\ OwnedChunks /\ BackLinksReach

\* And for the requests of the module Heap.
IInv == HeapInv /\ live \in [DOMAIN live -> Sizes]

\* A counter of the code is a machine word whatever is added or taken.
LEMMA WordRange ==
    ASSUME NEW x \in Int
    PROVE  x % Word \in 0 .. Word - 1
  BY WordAssumption, BlockAssumption DEF BLKHDR, SLACK

\* The fields of a header have their types.
LEMMA HeaderFields ==
    ASSUME HeapTypes, NEW h \in DOMAIN hdrs
    PROVE  /\ h \in Nat
           /\ hdrs[h] \in Header
           /\ hdrs[h].size \in Nat
           /\ hdrs[h].prev \in Nat
           /\ hdrs[h].taken \in BOOLEAN
           /\ Behind(hdrs, h) \in Nat
  BY DEF HeapTypes, Header, Behind, HDR

\* A header built from three fields has them.
LEMMA HdrFields ==
    ASSUME NEW t \in BOOLEAN, NEW s \in Nat, NEW q \in Nat
    PROVE  /\ Hdr(t, s, q) \in Header
           /\ Hdr(t, s, q).taken = t
           /\ Hdr(t, s, q).size = s
           /\ Hdr(t, s, q).prev = q
  BY DEF Hdr, Header

\* Storing a value of the right kind keeps a function's type.
LEMMA PutType ==
    ASSUME NEW S, NEW f, f \in [DOMAIN f -> S], NEW k, NEW v \in S
    PROVE  Put(f, k, v) \in [DOMAIN Put(f, k, v) -> S]
  BY DEF Put

\* AddBlock builds a tiling whatever the RAM held under the first header.
LEMMA InitInv == Init => IInv
  <1> SUFFICES ASSUME Init PROVE IInv
    OBVIOUS
  <1>1. PICK p \in FirstPrev : hdrs = AddBlock(p)
    BY DEF Init
  <1>2. p \in Nat
    BY PrevAssumption
  <1> DEFINE D == {First} \cup Phantoms
             big == BlockSize - (BLKHDR + SLACK)
  <1>3. big \in Nat /\ big = BlockSize - 52
    BY BlockAssumption DEF BLKHDR, SLACK
  <1>4. First \notin Phantoms
    BY BlockAssumption DEF Phantoms, LastEnd, First, BLKHDR, SLACK, HDR
  <1>5. /\ DOMAIN hdrs = D
        /\ hdrs[First] = Hdr(FALSE, big, p)
        /\ \A h \in Phantoms : hdrs[h] = Hdr(FALSE, 0, 0)
        /\ hdrs = [h \in DOMAIN hdrs |-> hdrs[h]]
    BY <1>1, <1>4 DEF AddBlock
  <1>6. \A h \in D : hdrs[h] \in Header /\ hdrs[h].taken = FALSE
    <2>1. Hdr(FALSE, big, p) \in Header /\ Hdr(FALSE, big, p).taken = FALSE
      BY <1>2, <1>3 DEF Hdr, Header
    <2>2. Hdr(FALSE, 0, 0) \in Header /\ Hdr(FALSE, 0, 0).taken = FALSE
      BY DEF Hdr, Header
    <2> QED
      BY <1>5, <2>1, <2>2, Zenon
  <1>7. hdrs[First].size = big /\ \A h \in Phantoms : hdrs[h].size = 0
    BY <1>5 DEF Hdr
  <1>8. HeapTypes
    <2>1. D \subseteq Nat
      BY BlockAssumption DEF Phantoms, LastEnd, First, BLKHDR, SLACK, HDR
    <2>2. hdrs \in [DOMAIN hdrs -> Header]
      BY <1>5, <1>6
    <2>3. /\ used \in 0 .. Word - 1
          /\ mem_in_use \in 0 .. Word - 1
          /\ spill \in Nat
      BY WordAssumption, BlockAssumption DEF Init, BLKHDR, SLACK
    <2>4. DOMAIN live = {} /\ live \in [DOMAIN live -> Nat]
      BY DEF Init
    <2> QED
      BY <1>5, <2>1, <2>2, <2>3, <2>4 DEF HeapTypes
  <1>9. Tiling
    <2> DEFINE L == BlockSize - 24
    <2>1. L \in Nat /\ L >= 29 /\ BlockSize \in Nat
      BY BlockAssumption DEF BLKHDR, SLACK
    <2>2. First = 20 /\ Phantoms = {L, L + 8, L + 16}
      BY BlockAssumption DEF Phantoms, LastEnd, First, BLKHDR, SLACK, HDR
    <2>3. /\ Behind(hdrs, 20) = L
          /\ Behind(hdrs, L) = L + 8
          /\ Behind(hdrs, L + 8) = L + 16
          /\ Behind(hdrs, L + 16) = BlockSize
      BY <1>3, <1>7, <2>1, <2>2 DEF Behind, HDR
    <2>4. DOMAIN hdrs = {20, L, L + 8, L + 16}
      BY <1>5, <2>2
    <2> QED
      BY <2>1, <2>2, <2>3, <2>4 DEF Tiling
  <1>10. OwnedChunks
    BY <1>5, <1>6 DEF OwnedChunks, Init
  <1>11. BackLinksReach
    <2>1. \A h \in Phantoms : hdrs[h].prev = 0
      BY <1>5 DEF Hdr
    <2>2. \A h \in DOMAIN hdrs : Behind(hdrs, h) # First
      BY <1>5, <1>7, <1>8, HeaderFields, BlockAssumption
         DEF Behind, HDR, First, BLKHDR, Phantoms, LastEnd, SLACK
    <2> QED
      BY <1>5, <2>1, <2>2 DEF BackLinksReach
  <1>12. live \in [DOMAIN live -> Sizes]
    BY DEF Init
  <1> QED
    BY <1>8, <1>9, <1>10, <1>11, <1>12 DEF IInv, HeapInv

\* Cutting a free chunk in two keeps the tiling: the new header stands strictly
\* inside the old chunk, and what was behind the old chunk is now behind the
\* second half (heap.h:217-224).
LEMMA SplitTiles ==
    ASSUME HeapTypes, Tiling, BackLinksReach, NEW h \in DOMAIN hdrs, NEW size \in Nat,
           WorthSplitting(h, size), Split(h, size)
    PROVE  /\ DOMAIN hdrs' = DOMAIN hdrs \cup {h + HDR + size}
           /\ h + HDR + size \notin DOMAIN hdrs
           /\ DOMAIN hdrs' \subseteq Nat
           /\ hdrs' \in [DOMAIN hdrs' -> Header]
           /\ hdrs'[h].taken /\ hdrs'[h].size = size
           /\ ~hdrs'[h + HDR + size].taken
           /\ \A g \in DOMAIN hdrs \ {h} : hdrs'[g] = hdrs[g]
           /\ Tiling' /\ BackLinksReach'
  <1> DEFINE rest == h + HDR + size
             left == hdrs[h].size - (size + HDR)
             F == Put(hdrs, h, Hdr(TRUE, size, hdrs[h].prev))
  <1>0. /\ \A g \in DOMAIN hdrs : /\ g \in Nat
                                  /\ hdrs[g] \in Header
                                  /\ hdrs[g].size \in Nat
                                  /\ hdrs[g].prev \in Nat
                                  /\ Behind(hdrs, g) = g + 8 + hdrs[g].size
        /\ hdrs[h].size > size + 24
        /\ rest = h + 8 + size
        /\ rest \in Nat
        /\ left \in Nat /\ left = hdrs[h].size - size - 8
    BY HeaderFields DEF WorthSplitting, HDR, SPARE, Behind
  <1>1. rest \notin DOMAIN hdrs /\ rest # h
    BY <1>0 DEF Tiling
  <1>2. hdrs' = Put(F, rest, Hdr(FALSE, left, size))
    BY DEF Split
  <1>3. /\ DOMAIN F = DOMAIN hdrs
        /\ F[h] = Hdr(TRUE, size, hdrs[h].prev)
        /\ \A g \in DOMAIN hdrs \ {h} : F[g] = hdrs[g]
    BY DEF Put
  <1>4. /\ DOMAIN hdrs' = DOMAIN hdrs \cup {rest}
        /\ hdrs'[rest] = Hdr(FALSE, left, size)
        /\ hdrs'[h] = Hdr(TRUE, size, hdrs[h].prev)
        /\ \A g \in DOMAIN hdrs \ {h} : hdrs'[g] = hdrs[g]
    <2> HIDE DEF F, rest, left
    <2> QED
      BY <1>1, <1>2, <1>3 DEF Put
  <1>5. hdrs'[h].taken /\ hdrs'[h].size = size
    BY <1>4 DEF Hdr
  <1>6. hdrs'[rest].size = left /\ ~hdrs'[rest].taken
    BY <1>4 DEF Hdr
  <1>7. hdrs' \in [DOMAIN hdrs' -> Header]
    <2>1. F \in [DOMAIN F -> Header]
      BY <1>0, HdrFields, PutType DEF HeapTypes
    <2> HIDE DEF F
    <2> QED
      BY <1>0, <1>2, <2>1, HdrFields, PutType
  <1>8. /\ Behind(hdrs', rest) = Behind(hdrs, h)
        /\ Behind(hdrs', h) = rest
        /\ \A g \in DOMAIN hdrs \ {h} : Behind(hdrs', g) = Behind(hdrs, g)
    <2> HIDE DEF rest, left
    <2>1. Behind(hdrs', rest) = Behind(hdrs, h)
      BY <1>0, <1>6 DEF Behind, HDR
    <2>2. Behind(hdrs', h) = rest
      BY <1>0, <1>5 DEF Behind, HDR
    <2>3. \A g \in DOMAIN hdrs \ {h} : Behind(hdrs', g) = Behind(hdrs, g)
      BY <1>4 DEF Behind
    <2> QED
      BY <2>1, <2>2, <2>3
  <1>9. Tiling'
    <2> HIDE DEF rest, left
    <2>1. First \in DOMAIN hdrs'
      BY <1>4 DEF Tiling
    <2>2. First <= rest /\ rest < BlockSize
      BY <1>0, BlockAssumption DEF Tiling, First, BLKHDR
    <2>3. \A g \in DOMAIN hdrs' :
            /\ First <= g /\ g < BlockSize
            /\ Behind(hdrs', g) \in DOMAIN hdrs' \cup {BlockSize}
      BY <1>4, <1>8, <2>2 DEF Tiling
    <2>4. \A f, g \in DOMAIN hdrs : f < g => Behind(hdrs', f) <= g
      BY <1>0, <1>8 DEF Tiling
    <2>5. \A g \in DOMAIN hdrs : rest < g => Behind(hdrs', rest) <= g
      BY <1>0, <1>8 DEF Tiling
    <2>6. \A f \in DOMAIN hdrs : f < rest => Behind(hdrs', f) <= rest
      BY <1>0, <1>8 DEF Tiling
    <2>7. \A f, g \in DOMAIN hdrs' : f < g => Behind(hdrs', f) <= g
      BY <1>0, <1>4, <2>4, <2>5, <2>6
    <2> QED
      BY <2>1, <2>3, <2>7 DEF Tiling
  <1>10. BackLinksReach'
    <2> HIDE DEF rest, left
    <2>1. /\ hdrs'[rest].prev = size
          /\ \A g \in DOMAIN hdrs : hdrs'[g].prev = hdrs[g].prev
      BY <1>4 DEF Hdr
    <2>2. \A g \in DOMAIN hdrs \ {h} : Behind(hdrs', g) # rest /\ hdrs'[g].size = hdrs[g].size
      BY <1>0, <1>1, <1>4, <1>8, BlockAssumption DEF Tiling
    <2>3. Behind(hdrs', rest) # rest
      BY <1>0, <1>8
    <2>4. ASSUME NEW g \in DOMAIN hdrs', Behind(hdrs', g) \in DOMAIN hdrs'
          PROVE  \/ hdrs'[Behind(hdrs', g)].prev = 0
                 \/ hdrs'[Behind(hdrs', g)].prev >= hdrs'[g].size
      <3>1. CASE g = h
        BY <1>0, <1>5, <1>8, <2>1, <3>1
      <3>2. CASE g = rest
        <4>1. /\ Behind(hdrs, h) \in DOMAIN hdrs
              /\ \/ hdrs[Behind(hdrs, h)].prev = 0
                 \/ hdrs[Behind(hdrs, h)].prev >= hdrs[h].size
          BY <1>4, <1>8, <2>3, <2>4, <3>2 DEF BackLinksReach
        <4> QED
          BY <1>0, <1>6, <1>8, <2>1, <3>2, <4>1
      <3>3. CASE g \in DOMAIN hdrs \ {h}
        <4>1. Behind(hdrs', g) \in DOMAIN hdrs
          BY <1>4, <2>2, <2>4, <3>3
        <4> QED
          BY <1>8, <2>1, <2>2, <3>3, <4>1 DEF BackLinksReach
      <3> QED
        BY <1>4, <3>1, <3>2, <3>3
    <2> QED
      BY <2>4 DEF BackLinksReach
  <1> QED
    BY <1>0, <1>1, <1>4, <1>5, <1>6, <1>7, <1>9, <1>10 DEF HeapTypes

\* Taking a chunk whole moves no header (heap.h:231).
LEMMA TakeTiles ==
    ASSUME HeapTypes, Tiling, BackLinksReach, NEW h \in DOMAIN hdrs, NEW size,
           TakeWhole(h, size)
    PROVE  /\ DOMAIN hdrs' = DOMAIN hdrs
           /\ hdrs' \in [DOMAIN hdrs' -> Header]
           /\ hdrs'[h].taken /\ hdrs'[h].size = hdrs[h].size
           /\ \A g \in DOMAIN hdrs \ {h} : hdrs'[g] = hdrs[g]
           /\ Tiling' /\ BackLinksReach'
  <1>1. /\ DOMAIN hdrs' = DOMAIN hdrs
        /\ hdrs'[h] = Hdr(TRUE, hdrs[h].size, hdrs[h].prev)
        /\ \A g \in DOMAIN hdrs \ {h} : hdrs'[g] = hdrs[g]
    BY DEF TakeWhole, Put
  <1>2. hdrs'[h].taken /\ hdrs'[h].size = hdrs[h].size
    BY <1>1 DEF Hdr
  <1>3. hdrs' \in [DOMAIN hdrs' -> Header]
    BY HeaderFields, HdrFields, PutType DEF TakeWhole, HeapTypes
  <1>4. \A g \in DOMAIN hdrs : Behind(hdrs', g) = Behind(hdrs, g)
    BY <1>1, <1>2 DEF Behind
  <1>5. Tiling'
    BY <1>1, <1>4 DEF Tiling
  <1>6. \A g \in DOMAIN hdrs : hdrs'[g].prev = hdrs[g].prev /\ hdrs'[g].size = hdrs[g].size
    BY <1>1, <1>2 DEF Hdr
  <1>7. BackLinksReach'
    BY <1>1, <1>4, <1>6 DEF BackLinksReach
  <1> QED
    BY <1>1, <1>2, <1>3, <1>5, <1>7

\* Freeing the chunk at h removes the header behind it when that chunk is free,
\* and only that one; every other chunk keeps its place, size and state
\* (heap.h:85-123).
LEMMA ReleaseTiles ==
    ASSUME HeapTypes, Tiling, BackLinksReach, NEW h \in DOMAIN hdrs,
           hdrs' = FreedHeaders(h)
    PROVE  /\ DOMAIN hdrs' = DOMAIN hdrs \ (IF MergesForward(h) THEN {Behind(hdrs, h)} ELSE {})
           /\ h \in DOMAIN hdrs'
           /\ hdrs' \in [DOMAIN hdrs' -> Header]
           /\ ~hdrs'[h].taken /\ hdrs'[h].size = FreedSize(h)
           /\ \A g \in DOMAIN hdrs' \ {h} : /\ hdrs'[g].taken = hdrs[g].taken
                                            /\ hdrs'[g].size = hdrs[g].size
           /\ Tiling' /\ BackLinksReach'
  <1> DEFINE n == Behind(hdrs, h)
             K == Kept(h)
             F == Put(K, h, Freed(h))
             b == h + HDR + FreedSize(h)
  <1>0. \A g \in DOMAIN hdrs : /\ g \in Nat
                              /\ hdrs[g] \in Header
                              /\ hdrs[g].taken \in BOOLEAN
                              /\ hdrs[g].size \in Nat
                              /\ hdrs[g].prev \in Nat
                              /\ Behind(hdrs, g) = g + 8 + hdrs[g].size
    BY HeaderFields DEF Behind, HDR
  <1>1. FreedSize(h) \in Nat
    BY <1>0 DEF FreedSize, MergesForward, HDR
  <1>2. n # h
    BY <1>0
  <1>3. /\ DOMAIN K = DOMAIN hdrs \ (IF MergesForward(h) THEN {n} ELSE {})
        /\ \A g \in DOMAIN K : K[g] = hdrs[g]
        /\ K \in [DOMAIN K -> Header]
    <2>1. CASE MergesForward(h)
      BY <2>1 DEF Kept, Restrict, HeapTypes
    <2>2. CASE ~MergesForward(h)
      BY <2>2 DEF Kept, HeapTypes
    <2> QED
      BY <2>1, <2>2
  <1>4. h \in DOMAIN K
    BY <1>2, <1>3
  <1>5. /\ DOMAIN F = DOMAIN K
        /\ F[h] = Freed(h)
        /\ \A g \in DOMAIN K \ {h} : F[g] = hdrs[g]
    <2> HIDE DEF K
    <2> QED
      BY <1>3, <1>4 DEF Put
  <1>6. /\ Freed(h) \in Header
        /\ Freed(h).taken = FALSE
        /\ Freed(h).size = FreedSize(h)
        /\ Freed(h).prev = hdrs[h].prev
    BY <1>0, <1>1 DEF Freed, Hdr, Header
  <1>7. F \in [DOMAIN F -> Header]
    <2> HIDE DEF K
    <2> QED
      BY <1>3, <1>6, PutType
  <1>8. hdrs' = Relink(F, h)
    BY DEF FreedHeaders
  <1>9. /\ DOMAIN hdrs' = DOMAIN K
        /\ \A g \in DOMAIN K : /\ hdrs'[g].taken = F[g].taken
                               /\ hdrs'[g].size = F[g].size
                               /\ hdrs'[g].prev = IF MergesForward(h) /\ g = b
                                                  THEN FreedSize(h) ELSE F[g].prev
        /\ hdrs' \in [DOMAIN hdrs' -> Header]
    <2> HIDE DEF K, F, b
    <2>1. CASE MergesForward(h) /\ b \in DOMAIN F
      <3>1. hdrs' = Put(F, b, Hdr(F[b].taken, F[b].size, FreedSize(h)))
        BY <1>8, <2>1 DEF Relink, b
      <3>2. F[b].taken \in BOOLEAN /\ F[b].size \in Nat
        BY <1>7, <2>1 DEF Header
      <3>3. /\ DOMAIN hdrs' = DOMAIN F
            /\ hdrs'[b] = Hdr(F[b].taken, F[b].size, FreedSize(h))
            /\ \A g \in DOMAIN F \ {b} : hdrs'[g] = F[g]
        BY <2>1, <3>1 DEF Put
      <3>4. /\ hdrs'[b].taken = F[b].taken /\ hdrs'[b].size = F[b].size
            /\ hdrs'[b].prev = FreedSize(h)
        BY <3>3 DEF Hdr
      <3>5. hdrs' \in [DOMAIN hdrs' -> Header]
        BY <1>1, <1>7, <3>1, <3>2, HdrFields, PutType
      <3> QED
        BY <1>5, <2>1, <3>3, <3>4, <3>5
    <2>2. CASE ~(MergesForward(h) /\ b \in DOMAIN F)
      BY <1>5, <1>7, <1>8, <2>2 DEF Relink, b
    <2> QED
      BY <2>1, <2>2
  <1>10. ~hdrs'[h].taken /\ hdrs'[h].size = FreedSize(h)
    BY <1>4, <1>5, <1>6, <1>9
  <1>11. \A g \in DOMAIN hdrs' \ {h} : /\ hdrs'[g].taken = hdrs[g].taken
                                       /\ hdrs'[g].size = hdrs[g].size
                                       /\ Behind(hdrs', g) = Behind(hdrs, g)
    <2> HIDE DEF K, F
    <2> QED
      BY <1>5, <1>9 DEF Behind
  <1>12. Tiling'
    <2> HIDE DEF K, F, b
    <2>1. CASE MergesForward(h)
      <3>1. /\ n \in DOMAIN hdrs
            /\ DOMAIN hdrs' = DOMAIN hdrs \ {n}
            /\ Behind(hdrs', h) = Behind(hdrs, n)
        BY <1>0, <1>3, <1>9, <1>10, <2>1, SMTT(30) DEF MergesForward, FreedSize, Behind, HDR
      <3> HIDE DEF n
      <3>2. /\ n = h + 8 + hdrs[h].size
            /\ \A g \in DOMAIN hdrs \ {h} : Behind(hdrs, g) # n
            /\ Behind(hdrs, n) # n
        BY <1>0, <3>1 DEF Tiling, n
      <3>3. First \in DOMAIN hdrs'
        BY <1>0, <3>1, <3>2 DEF Tiling
      <3>4. \A g \in DOMAIN hdrs' :
              /\ First <= g /\ g < BlockSize
              /\ Behind(hdrs', g) \in DOMAIN hdrs' \cup {BlockSize}
        BY <1>11, <3>1, <3>2 DEF Tiling
      <3>5. \A f, g \in DOMAIN hdrs' : f < g => Behind(hdrs', f) <= g
        <4>1. \A g \in DOMAIN hdrs' : h < g => Behind(hdrs', h) <= g
          <5>1. \A g \in DOMAIN hdrs' : h < g => n < g
            BY <1>0, <3>1 DEF Tiling, n
          <5> QED
            BY <3>1, <5>1 DEF Tiling
        <4> QED
          BY <1>11, <3>1, <4>1 DEF Tiling
      <3> QED
        BY <3>3, <3>4, <3>5 DEF Tiling
    <2>2. CASE ~MergesForward(h)
      <3>1. DOMAIN hdrs' = DOMAIN hdrs /\ Behind(hdrs', h) = Behind(hdrs, h)
        BY <1>3, <1>9, <1>10, <2>2 DEF FreedSize, Behind
      <3> QED
        BY <1>11, <3>1 DEF Tiling
    <2> QED
      BY <2>1, <2>2
  <1>13. BackLinksReach'
    <2> HIDE DEF K, F, b, n
    <2>1. \A g \in DOMAIN hdrs' : hdrs'[g].prev = IF MergesForward(h) /\ g = b
                                                  THEN FreedSize(h) ELSE hdrs[g].prev
      BY <1>4, <1>5, <1>6, <1>9
    <2>2. MergesForward(h) => /\ n \in DOMAIN hdrs /\ n \notin DOMAIN hdrs'
                              /\ b = Behind(hdrs, n) /\ b = Behind(hdrs', h)
      <3>1. MergesForward(h) => n \in DOMAIN hdrs /\ n \notin DOMAIN hdrs'
        BY <1>3, <1>9 DEF MergesForward, n
      <3>2. MergesForward(h) => FreedSize(h) = hdrs[h].size + 8 + hdrs[n].size
        BY DEF FreedSize, n, HDR
      <3>3. n = h + 8 + hdrs[h].size /\ Behind(hdrs', h) = b
        BY <1>0, <1>10 DEF Behind, HDR, n, b
      <3> QED
        BY <1>0, <3>1, <3>2, <3>3 DEF b, HDR
    <2>3. ASSUME NEW g \in DOMAIN hdrs', Behind(hdrs', g) \in DOMAIN hdrs'
          PROVE  \/ hdrs'[Behind(hdrs', g)].prev = 0
                 \/ hdrs'[Behind(hdrs', g)].prev >= hdrs'[g].size
      <3>1. CASE g = h /\ MergesForward(h)
        BY <1>1, <1>10, <2>1, <2>2, <2>3, <3>1
      <3>2. CASE g = h /\ ~MergesForward(h)
        <4>1. hdrs'[h].size = hdrs[h].size /\ Behind(hdrs', h) = Behind(hdrs, h)
          BY <1>10, <3>2 DEF FreedSize, Behind
        <4>2. Behind(hdrs, h) \in DOMAIN hdrs
          BY <1>3, <1>9, <2>3, <3>2, <4>1
        <4> QED
          BY <2>1, <2>3, <3>2, <4>1, <4>2 DEF BackLinksReach
      <3>3. CASE g # h
        <4>1. /\ g \in DOMAIN hdrs /\ Behind(hdrs, g) \in DOMAIN hdrs
              /\ Behind(hdrs', g) = Behind(hdrs, g) /\ hdrs'[g].size = hdrs[g].size
          BY <1>3, <1>9, <1>11, <2>3, <3>3
        <4>2. MergesForward(h) => Behind(hdrs, g) # b
          <5> SUFFICES ASSUME MergesForward(h), Behind(hdrs, g) = b PROVE FALSE
            OBVIOUS
          <5>1. g # n /\ n \in DOMAIN hdrs /\ b = Behind(hdrs, n)
            BY <2>2
          <5> QED
            BY <1>0, <4>1, <5>1 DEF Tiling
        <4> QED
          BY <2>1, <2>3, <4>1, <4>2 DEF BackLinksReach
      <3> QED
        BY <3>1, <3>2, <3>3
    <2> QED
      BY <2>3 DEF BackLinksReach
  <1> QED
    BY <1>3, <1>4, <1>9, <1>10, <1>11, <1>12, <1>13

-----------------------------------------------------------------------------
(* One lemma per action.                                                   *)

\* The chunk malloc picks is free, so nobody owns its payload yet.
LEMMA FitIsUnowned ==
    ASSUME HeapInv, NEW size, NEW h \in FreeFits(size)
    PROVE  /\ h \in DOMAIN hdrs
           /\ ~hdrs[h].taken
           /\ hdrs[h].size >= size
           /\ h + HDR \notin DOMAIN live
           /\ \A q \in DOMAIN live : q \in Nat /\ q - HDR # h
  <1>1. h \in DOMAIN hdrs /\ ~hdrs[h].taken /\ hdrs[h].size >= size
    BY DEF FreeFits
  <1>2. \A q \in DOMAIN live : q \in Nat /\ q - HDR # h
    BY <1>1 DEF HeapInv, OwnedChunks, HeapTypes
  <1>3. h + HDR \notin DOMAIN live
    BY <1>1, <1>2 DEF HeapInv, HeapTypes, HDR
  <1> QED
    BY <1>1, <1>2, <1>3

\* malloc keeps the invariant, whether it splits the chunk or takes it whole.
LEMMA MallocInv ==
    ASSUME HeapInv, NEW size \in Nat, Malloc(size)
    PROVE  /\ HeapInv'
           /\ \E p \in Nat \ {0} : p \notin DOMAIN live /\ live' = Put(live, p, size)
  <1>1. PICK h \in DOMAIN hdrs :
          /\ FirstFit(h, size)
          /\ IF WorthSplitting(h, size) THEN Split(h, size) ELSE TakeWhole(h, size)
          /\ live' = Put(live, h + HDR, size)
    BY DEF Malloc
  <1>2. h \in FreeFits(size)
    BY <1>1 DEF FirstFit
  <1>3. size \in Nat
    OBVIOUS
  <1>4. /\ ~hdrs[h].taken
        /\ hdrs[h].size >= size
        /\ h + HDR \notin DOMAIN live
        /\ \A q \in DOMAIN live : q \in Nat /\ q - HDR # h
    BY <1>2, FitIsUnowned
  <1>5. /\ DOMAIN live' = DOMAIN live \cup {h + HDR}
        /\ live'[h + HDR] = size
        /\ \A q \in DOMAIN live \ {h + HDR} : live'[q] = live[q]
        /\ live' \in [DOMAIN live' -> Nat]
    BY <1>1 DEF Put, HeapInv, HeapTypes
  <1>6. h \in Nat /\ hdrs[h].size \in Nat
    BY HeaderFields DEF HeapInv
  <1>7. /\ used' \in 0 .. Word - 1
        /\ mem_in_use' \in 0 .. Word - 1
        /\ spill' \in Nat
    <2>1. used + HDR + size \in Int /\ mem_in_use + HDR + size \in Int
          /\ used + size \in Int /\ mem_in_use + size \in Int
      BY <1>3, WordAssumption DEF HeapInv, HeapTypes, HDR
    <2>2. spill' \in Nat
      BY DEF Malloc, HeapInv, HeapTypes
    <2>3. used' \in 0 .. Word - 1 /\ mem_in_use' \in 0 .. Word - 1
      BY <1>1, <2>1, WordRange DEF Split, TakeWhole
    <2> QED
      BY <2>2, <2>3
  <1>8. /\ DOMAIN hdrs' \subseteq Nat
        /\ hdrs' \in [DOMAIN hdrs' -> Header]
        /\ Tiling' /\ BackLinksReach'
        /\ h \in DOMAIN hdrs'
        /\ hdrs'[h].taken
        /\ size <= hdrs'[h].size /\ hdrs'[h].size <= size + HDR + SPARE
        /\ \A g \in DOMAIN hdrs \ {h} : g \in DOMAIN hdrs' /\ hdrs'[g] = hdrs[g]
        /\ \A g \in DOMAIN hdrs' \ DOMAIN hdrs : ~hdrs'[g].taken
    <2>1. CASE WorthSplitting(h, size)
      <3>1. Split(h, size)
        BY <1>1, <2>1
      <3>2. /\ DOMAIN hdrs' = DOMAIN hdrs \cup {h + HDR + size}
            /\ DOMAIN hdrs' \subseteq Nat
            /\ hdrs' \in [DOMAIN hdrs' -> Header]
            /\ hdrs'[h].taken /\ hdrs'[h].size = size
            /\ ~hdrs'[h + HDR + size].taken
            /\ \A g \in DOMAIN hdrs \ {h} : hdrs'[g] = hdrs[g]
            /\ Tiling' /\ BackLinksReach'
        BY <1>3, <2>1, <3>1, SplitTiles DEF HeapInv
      <3>3. size <= size /\ size <= size + HDR + SPARE
        BY <1>3 DEF HDR, SPARE
      <3> QED
        BY <3>2, <3>3
    <2>2. CASE ~WorthSplitting(h, size)
      <3>1. TakeWhole(h, size)
        BY <1>1, <2>2
      <3>2. /\ DOMAIN hdrs' = DOMAIN hdrs
            /\ hdrs' \in [DOMAIN hdrs' -> Header]
            /\ hdrs'[h].taken /\ hdrs'[h].size = hdrs[h].size
            /\ \A g \in DOMAIN hdrs \ {h} : hdrs'[g] = hdrs[g]
            /\ Tiling' /\ BackLinksReach'
        BY <3>1, TakeTiles DEF HeapInv
      <3>3. hdrs[h].size <= size + HDR + SPARE
        BY <1>3, <1>6, <2>2 DEF WorthSplitting, HDR, SPARE
      <3>4. DOMAIN hdrs \subseteq Nat
        BY DEF HeapInv, HeapTypes
      <3> QED
        BY <1>3, <1>4, <1>6, <3>2, <3>3, <3>4
    <2> QED
      BY <2>1, <2>2
  <1>9. HeapTypes'
    <2>1. DOMAIN live' \subseteq Nat
      BY <1>5, <1>6 DEF HeapInv, HeapTypes, HDR
    <2> QED
      BY <1>5, <1>7, <1>8, <2>1 DEF HeapTypes
  <1>10. OwnedChunks'
    <2>1. ASSUME NEW q \in DOMAIN live'
          PROVE  /\ q - HDR \in DOMAIN hdrs'
                 /\ hdrs'[q - HDR].taken
                 /\ live'[q] <= hdrs'[q - HDR].size
                 /\ hdrs'[q - HDR].size <= live'[q] + HDR + SPARE
      <3>1. CASE q = h + HDR
        <4>1. q - HDR = h
          BY <1>6, <3>1 DEF HDR
        <4> QED
          BY <1>5, <1>8, <3>1, <4>1
      <3>2. CASE q # h + HDR
        <4>1. /\ q \in DOMAIN live
              /\ live'[q] = live[q]
              /\ q - HDR \in DOMAIN hdrs \ {h}
          BY <1>4, <1>5, <3>2 DEF HeapInv, OwnedChunks
        <4> QED
          BY <1>8, <4>1 DEF HeapInv, OwnedChunks
      <3> QED
        BY <3>1, <3>2
    <2>2. ASSUME NEW g \in DOMAIN hdrs', hdrs'[g].taken
          PROVE  g + HDR \in DOMAIN live'
      BY <1>5, <1>8, <2>2 DEF HeapInv, OwnedChunks
    <2> QED
      BY <2>1, <2>2 DEF OwnedChunks
  <1>11. h + HDR \in Nat \ {0}
    BY <1>6 DEF HDR
  <1> QED
    BY <1>1, <1>4, <1>8, <1>9, <1>10, <1>11 DEF HeapInv

\* Releasing any chunk keeps the invariant, whether it was taken or not, when its owner
\* gives it up: the chunk swallowed was free, so no other owner loses one.
LEMMA ReleaseInv ==
    ASSUME HeapInv, NEW h \in DOMAIN hdrs, NEW back \in BOOLEAN, Release(h, back),
           live' = Restrict(live, DOMAIN live \ {h + HDR})
    PROVE  HeapInv' /\ h \in DOMAIN hdrs' /\ ~hdrs'[h].taken
  <1> DEFINE p == h + HDR
  <1>1. h \in Nat /\ p \in Nat /\ p = h + 8
    BY DEF HeapInv, HeapTypes, HDR
  <1>2. Release(h, back)
    OBVIOUS
  <1> HIDE DEF p
  <1>3. /\ DOMAIN hdrs' = DOMAIN hdrs \ (IF MergesForward(h) THEN {Behind(hdrs, h)} ELSE {})
        /\ h \in DOMAIN hdrs'
        /\ hdrs' \in [DOMAIN hdrs' -> Header]
        /\ ~hdrs'[h].taken
        /\ \A g \in DOMAIN hdrs' \ {h} : /\ hdrs'[g].taken = hdrs[g].taken
                                         /\ hdrs'[g].size = hdrs[g].size
        /\ Tiling' /\ BackLinksReach'
    BY <1>2, ReleaseTiles DEF HeapInv, Release
  <1>4. /\ DOMAIN live' = DOMAIN live \ {p}
        /\ \A q \in DOMAIN live' : live'[q] = live[q]
        /\ live' \in [DOMAIN live' -> Nat]
    BY DEF p, Restrict, HeapInv, HeapTypes
  <1>5. /\ used' \in 0 .. Word - 1
        /\ mem_in_use' \in 0 .. Word - 1
        /\ spill' \in Nat
    <2> DEFINE lost == hdrs[h].size + (IF MergesForward(h) THEN HDR ELSE 0)
                                    + (IF back THEN HDR ELSE 0)
    <2>1. hdrs[h].size \in Nat /\ FreedSize(h) \in Nat
      BY HeaderFields DEF HeapInv, FreedSize, MergesForward, HDR
    <2>2. lost \in Int
      BY <2>1 DEF HDR
    <2>3. used' = (used - lost) % Word /\ mem_in_use' = (mem_in_use - lost) % Word
      BY <1>2 DEF Release
    <2>4. used - lost \in Int /\ mem_in_use - lost \in Int
      BY <2>2, WordAssumption DEF HeapInv, HeapTypes
    <2>5. spill' \in Nat
      BY <1>2, <2>1 DEF Release, Spilled, HeapInv, HeapTypes
    <2> QED
      BY <2>3, <2>4, <2>5, WordRange
  <1>6. HeapTypes'
    BY <1>3, <1>4, <1>5 DEF HeapInv, HeapTypes
  <1>7. OwnedChunks'
    <2>1. ASSUME NEW q \in DOMAIN live'
          PROVE  /\ q - HDR \in DOMAIN hdrs'
                 /\ hdrs'[q - HDR].taken
                 /\ live'[q] <= hdrs'[q - HDR].size
                 /\ hdrs'[q - HDR].size <= live'[q] + HDR + SPARE
      <3>1. /\ q \in DOMAIN live /\ live'[q] = live[q]
            /\ q - HDR \in DOMAIN hdrs
            /\ hdrs[q - HDR].taken
        BY <1>4 DEF HeapInv, OwnedChunks
      <3>2. q - HDR # h
        BY <1>1, <1>4, <3>1 DEF HeapInv, HeapTypes, HDR
      <3>3. q - HDR \in DOMAIN hdrs'
        BY <1>3, <3>1 DEF MergesForward
      <3> QED
        BY <1>3, <3>1, <3>2, <3>3 DEF HeapInv, OwnedChunks
    <2>2. ASSUME NEW g \in DOMAIN hdrs', hdrs'[g].taken
          PROVE  g + HDR \in DOMAIN live'
      <3>1. g # h /\ g \in DOMAIN hdrs /\ hdrs[g].taken
        BY <1>3, <2>2
      <3>2. g + HDR # p
        BY <1>1, <3>1, HeaderFields DEF HeapInv, HDR
      <3> QED
        BY <1>4, <3>1, <3>2 DEF HeapInv, OwnedChunks
    <2> QED
      BY <2>1, <2>2 DEF OwnedChunks
  <1> QED
    BY <1>3, <1>6, <1>7 DEF HeapInv

\* free by the owner keeps the invariant.
LEMMA FreeInv ==
    ASSUME HeapInv, NEW p \in DOMAIN live, Free(p)
    PROVE  /\ HeapInv'
           /\ DOMAIN live' = DOMAIN live \ {p}
           /\ \A q \in DOMAIN live' : live'[q] = live[q]
           /\ p - HDR \in DOMAIN hdrs' /\ ~hdrs'[p - HDR].taken
  <1>1. p - HDR \in DOMAIN hdrs /\ p = (p - HDR) + HDR
    BY DEF HeapInv, OwnedChunks, HeapTypes, HDR
  <1>2. PICK back \in BackMerges(p - HDR) : Release(p - HDR, back)
    BY DEF Free
  <1>3. back \in BOOLEAN
    BY DEF BackMerges
  <1>4. live' = Restrict(live, DOMAIN live \ {p})
    BY DEF Free
  <1>5. HeapInv' /\ p - HDR \in DOMAIN hdrs' /\ ~hdrs'[p - HDR].taken
    BY <1>1, <1>2, <1>3, <1>4, ReleaseInv
  <1> QED
    BY <1>4, <1>5 DEF Restrict

-----------------------------------------------------------------------------
(* The theorems.                                                           *)

\* Every step of the heap keeps the inductive invariant.
LEMMA StepInv == IInv /\ [Next]_vars => IInv'
  <1> SUFFICES ASSUME IInv, [Next]_vars PROVE IInv'
    OBVIOUS
  <1>1. ASSUME NEW size \in Sizes, Malloc(size) PROVE IInv'
    <2>1. size \in Nat
      BY SizesAssumption
    <2>2. HeapInv' /\ \E p : live' = Put(live, p, size)
      BY <1>1, <2>1, MallocInv DEF IInv
    <2> QED
      BY <2>2, PutType DEF IInv
  <1>2. ASSUME UNCHANGED vars PROVE IInv'
    BY <1>2 DEF IInv, HeapInv, HeapTypes, Tiling, OwnedChunks, BackLinksReach, vars
  <1>3. ASSUME NEW size \in Sizes, MallocFails(size) PROVE IInv'
    BY <1>2, <1>3 DEF MallocFails
  <1>4. ASSUME NEW p \in DOMAIN live, Free(p) PROVE IInv'
    BY <1>4, FreeInv DEF IInv, Free, Restrict
  <1> QED
    BY <1>1, <1>2, <1>3, <1>4 DEF Next

\* The inductive invariant holds always.
THEOREM Invariance == Spec => []IInv
  BY InitInv, StepInv, PTL DEF Spec

\* The heap's variables always have their types: the counters stay machine
\* words, every header a header (heap.h:7-25).
THEOREM TypeCorrect == Spec => []TypeOK
  <1>1. IInv => TypeOK
    BY DEF IInv, HeapInv, HeapTypes, TypeOK
  <1> QED
    BY <1>1, Invariance, PTL

\* Whatever is allocated and freed in whatever order, the chunks tile the block:
\* the walk of k_heapLCABAlloc never reads a payload as a header.
THEOREM AlwaysTiled == Spec => []Tiling
  <1>1. IInv => Tiling
    BY DEF IInv, HeapInv
  <1> QED
    BY <1>1, Invariance, PTL

\* Pointers handed out and taken chunks always correspond, with at most 24 bytes
\* wasted in each.
THEOREM AlwaysOwned == Spec => []OwnedChunks
  <1>1. IInv => OwnedChunks
    BY DEF IInv, HeapInv
  <1> QED
    BY <1>1, Invariance, PTL

\* A tiled heap whose pointers stand for taken chunks keeps payloads and headers
\* apart.
LEMMA PayloadsClearLemma == HeapInv => PayloadsClear
  <1> SUFFICES ASSUME HeapInv, NEW p \in DOMAIN live
               PROVE  /\ p + live[p] <= BlockSize
                      /\ \A h \in DOMAIN hdrs : h + HDR <= p \/ p + live[p] <= h
    BY DEF PayloadsClear
  <1>1. /\ p \in Nat /\ live[p] \in Nat
        /\ p - 8 \in DOMAIN hdrs /\ p - 8 \in Nat
        /\ hdrs[p - 8].size \in Nat
        /\ live[p] <= hdrs[p - 8].size
        /\ Behind(hdrs, p - 8) = p + hdrs[p - 8].size
    BY HeaderFields DEF HeapInv, HeapTypes, OwnedChunks, HDR, Behind
  <1>2. p + live[p] <= BlockSize
    <2>1. \/ Behind(hdrs, p - 8) = BlockSize
          \/ Behind(hdrs, p - 8) < BlockSize
      BY <1>1 DEF HeapInv, Tiling
    <2> QED
      BY <1>1, <2>1, BlockAssumption
  <1>3. ASSUME NEW h \in DOMAIN hdrs PROVE h + HDR <= p \/ p + live[p] <= h
    BY <1>1, HeaderFields DEF HeapInv, Tiling, HDR
  <1> QED
    BY <1>2, <1>3

\* No owner's bytes ever reach a header, another owner's bytes or the end of the
\* block: malloc(n) really gives n bytes (mem.h:236-242).
THEOREM PayloadsAlwaysClear == Spec => []PayloadsClear
  <1>1. IInv => PayloadsClear
    BY PayloadsClearLemma DEF IInv
  <1> QED
    BY <1>1, Invariance, PTL

\* Back links may be out of date, but never too short: a prevsize that is not 0 leads
\* k_heapLCABFree to the header before or further back, never into the payload of the
\* chunk before (heap.h:90-101).
THEOREM BackLinksAlwaysReach == Spec => []BackLinksReach
  <1>1. IInv => BackLinksReach
    BY DEF IInv, HeapInv
  <1> QED
    BY <1>1, Invariance, PTL

\* A step of the heap is a step of the allocator or leaves its state alone.
LEMMA StepImplements == IInv /\ [Next]_vars => [Pool!Next]_live
  <1> SUFFICES ASSUME IInv, [Next]_vars PROVE [Pool!Next]_live
    OBVIOUS
  <1>1. ASSUME NEW size \in Sizes, Malloc(size) PROVE Pool!Next
    <2>1. PICK h \in DOMAIN hdrs :
            FirstFit(h, size) /\ live' = Put(live, h + HDR, size)
      BY <1>1 DEF Malloc
    <2>2. h \in FreeFits(size)
      BY <2>1 DEF FirstFit
    <2>3. /\ hdrs[h].size >= size
          /\ h + HDR \notin DOMAIN live
          /\ \A q \in DOMAIN live : q \in Nat /\ q - HDR # h
      BY <2>2, FitIsUnowned DEF IInv
    <2>4. /\ h \in Nat /\ hdrs[h].size \in Nat /\ size \in Nat
          /\ Behind(hdrs, h) = h + 8 + hdrs[h].size
          /\ BlockSize \in Nat
      BY HeaderFields, SizesAssumption, BlockAssumption DEF IInv, HeapInv, Behind, HDR
    <2>5. /\ First + HDR <= h + HDR
          /\ h + HDR + size <= BlockSize
          /\ h + HDR \in First + HDR .. BlockSize
      BY <2>3, <2>4 DEF IInv, HeapInv, Tiling, First, BLKHDR, HDR
    <2>6. ASSUME NEW q \in DOMAIN live
          PROVE  Pool!Apart(h + HDR, size, q, live[q])
      <3>1. /\ q \in Nat /\ live[q] \in Nat
            /\ q - 8 \in DOMAIN hdrs /\ q - 8 \in Nat /\ q - 8 # h
            /\ hdrs[q - 8].size \in Nat
            /\ live[q] <= hdrs[q - 8].size
            /\ Behind(hdrs, q - 8) = q + hdrs[q - 8].size
        BY <2>3, SizesAssumption, HeaderFields
           DEF IInv, HeapInv, HeapTypes, OwnedChunks, HDR, Behind
      <3> QED
        BY <2>3, <2>4, <3>1 DEF IInv, HeapInv, Tiling, Pool!Apart, HDR
    <2>7. Pool!Malloc(h + HDR, size)
      BY <2>1, <2>3, <2>5, <2>6 DEF Pool!Malloc, Put
    <2> QED
      BY <2>5, <2>7 DEF Pool!Next
  <1>2. ASSUME NEW size \in Sizes, MallocFails(size) PROVE UNCHANGED live
    BY <1>2 DEF MallocFails, vars
  <1>3. ASSUME NEW p \in DOMAIN live, Free(p) PROVE Pool!Next
    BY <1>3 DEF Free, Restrict, Pool!Free, Pool!Next
  <1>4. CASE UNCHANGED vars
    BY <1>4 DEF vars
  <1> QED
    BY <1>1, <1>2, <1>3, <1>4 DEF Next

\* The heap implements the allocator: seen through the pointers it hands out and
\* takes back, k_heapLCABAlloc and k_heapLCABFree are malloc and free.
THEOREM HeapImplementsAllocator == Spec => Allocates
  <1>1. Init => Pool!Init
    BY DEF Init, Pool!Init
  <1> QED
    BY <1>1, StepImplements, Invariance, PTL DEF Spec, Allocates, Pool!Spec

-----------------------------------------------------------------------------
(* The walk of k_heapLCABAlloc.  It goes up, so where it gets to from a     *)
(* header is known once it is known for all headers above.                 *)

\* What the walk is from each place, in terms of what it is from the places above.
WalkOf(w) == [h \in Nat |-> IF h \in DOMAIN hdrs THEN <<h>> \o w[Behind(hdrs, h)] ELSE <<>>]

\* The headers from h on.
From(h) == {g \in DOMAIN hdrs : h <= g}

WalksFrom(w, h) == /\ w[h] \in Seq(Nat)
                   /\ Range(w[h]) = From(h) /\ Len(w[h]) = Cardinality(From(h))

\* A set of natural numbers has a smallest element.
LEMMA LeastOf ==
    ASSUME NEW S, S \subseteq Nat, S # {}
    PROVE  \E x \in S : \A y \in S : x <= y
  <1> DEFINE R == OpToRel(<, Nat)
  <1>1. \A x, y \in Nat : x < y => <<x, y>> \in R
    BY DEF OpToRel
  <1>2. IsWellFoundedOn(R, Nat)
    BY NatLessThanWellFounded
  <1> HIDE DEF R
  <1>3. PICK x \in S : \A y \in S : ~(<<y, x>> \in R)
    BY <1>2, WFMin
  <1>4. ASSUME NEW y \in S PROVE x <= y
    <2>1. x \in Nat /\ y \in Nat
      OBVIOUS
    <2>2. ~(y < x)
      BY <1>1, <1>3, <2>1
    <2> QED
      BY <2>1, <2>2
  <1> QED
    BY <1>4

LEMMA GoesUp ==
    ASSUME HeapTypes, Tiling, NEW h \in DOMAIN hdrs
    PROVE  /\ h \in Nat /\ h < BlockSize
           /\ Behind(hdrs, h) \in Nat /\ h < Behind(hdrs, h) /\ Behind(hdrs, h) <= BlockSize
           /\ Behind(hdrs, h) \in DOMAIN hdrs \cup {BlockSize}
  <1> DEFINE b == Behind(hdrs, h)
             s == hdrs[h].size
  <1>1. h \in Nat /\ s \in Nat /\ b \in Nat /\ b = h + 8 + s
    BY HeaderFields DEF Behind, HDR
  <1>2. h < BlockSize /\ b \in DOMAIN hdrs \cup {BlockSize}
    BY DEF Tiling
  <1>3. b \in DOMAIN hdrs => b < BlockSize
    BY DEF Tiling
  <1> HIDE DEF b, s
  <1>4. h < b /\ b <= BlockSize
    BY <1>1, <1>2, <1>3, BlockAssumption
  <1> QED
    BY <1>1, <1>2, <1>4 DEF b

\* There is such a function: it is extended downwards from the end of the block.
LEMMA WalkExists ==
    ASSUME HeapTypes, Tiling
    PROVE  \E w : w = WalkOf(w)
  <1> DEFINE Good(w, k) == /\ w \in [Nat -> Seq(Nat)]
                           /\ \A h \in Nat : BlockSize <= h + k => w[h] = WalkOf(w)[h]
             Bad == {k \in 0 .. BlockSize : \A w : ~Good(w, k)}
  <1>1. BlockSize \in Nat
    BY BlockAssumption
  <1>2. ASSUME NEW w, NEW h \in Nat
        PROVE  WalkOf(w)[h] = IF h \in DOMAIN hdrs THEN <<h>> \o w[Behind(hdrs, h)] ELSE <<>>
    BY DEF WalkOf
  <1>3. ASSUME Bad # {} PROVE FALSE
    <2>1. Bad \subseteq Nat
      BY <1>1
    <2>2. PICK k \in Bad : \A j \in Bad : k <= j
      BY <1>3, <2>1, LeastOf
    <2>3. k \in Nat /\ k \in 0 .. BlockSize /\ \A w : ~Good(w, k)
      BY <1>1
    <2>4. CASE k = 0
      <3> DEFINE w == [h \in Nat |-> <<>>]
      <3>1. w \in [Nat -> Seq(Nat)]
        OBVIOUS
      <3>2. ASSUME NEW h \in Nat, BlockSize <= h + 0 PROVE w[h] = WalkOf(w)[h]
        <4>1. h \notin DOMAIN hdrs
          <5>1. h \in DOMAIN hdrs => h < BlockSize
            BY GoesUp
          <5> QED
            BY <1>1, <3>2, <5>1
        <4> QED
          BY <1>2, <4>1
      <3> QED
        BY <2>3, <2>4, <3>1, <3>2
    <2>5. CASE k > 0
      <3>1. k - 1 \in 0 .. BlockSize /\ ~(k <= k - 1)
        BY <1>1, <2>3, <2>5
      <3>2. PICK v : Good(v, k - 1)
        BY <2>2, <3>1
      <3>3. v \in [Nat -> Seq(Nat)] /\ \A h \in Nat : BlockSize <= h + (k - 1) => v[h] = WalkOf(v)[h]
        BY <3>2
      <3> DEFINE w == [h \in Nat |-> IF h + k = BlockSize THEN WalkOf(v)[h] ELSE v[h]]
      <3>4. ASSUME NEW h \in Nat PROVE WalkOf(v)[h] \in Seq(Nat)
        <4>1. CASE h \in DOMAIN hdrs
          <5>1. v[Behind(hdrs, h)] \in Seq(Nat)
            BY <3>3, <4>1, GoesUp
          <5>2. <<h>> \o v[Behind(hdrs, h)] \in Seq(Nat)
            BY <5>1
          <5> QED
            BY <1>2, <4>1, <5>2
        <4>2. CASE h \notin DOMAIN hdrs
          <5>1. WalkOf(v)[h] = <<>>
            BY <1>2, <4>2, Zenon
          <5>2. <<>> \in Seq(Nat)
            OBVIOUS
          <5> QED
            BY <5>1, <5>2, Zenon
        <4> QED
          BY <4>1, <4>2
      <3>5. w \in [Nat -> Seq(Nat)]
        BY <3>3, <3>4
      <3>6. ASSUME NEW h \in Nat, BlockSize <= h + k PROVE w[h] = WalkOf(w)[h]
        <4>1. w[h] = WalkOf(v)[h]
          <5>1. CASE h + k = BlockSize
            BY <5>1
          <5>2. CASE h + k # BlockSize
            <6>1. BlockSize <= h + (k - 1)
              BY <1>1, <2>3, <3>6, <5>2
            <6> QED
              BY <3>3, <5>2, <6>1
          <5> QED
            BY <5>1, <5>2
        <4>2. ASSUME h \in DOMAIN hdrs PROVE w[Behind(hdrs, h)] = v[Behind(hdrs, h)]
          <5> DEFINE b == Behind(hdrs, h)
          <5>1. b \in Nat /\ h < b
            BY <4>2, GoesUp
          <5> HIDE DEF b
          <5>2. b + k # BlockSize
            BY <1>1, <2>3, <3>6, <5>1
          <5>3. w[b] = v[b]
            BY <5>1, <5>2
          <5> QED
            BY <5>3 DEF b
        <4> HIDE DEF w
        <4>3. WalkOf(w)[h] = WalkOf(v)[h]
          BY <1>2, <4>2
        <4> QED
          BY <4>1, <4>3
      <3> HIDE DEF w
      <3>7. Good(w, k)
        BY <3>5, <3>6
      <3> QED
        BY <2>3, <3>7
    <2> QED
      BY <2>3, <2>4, <2>5
  <1>4. BlockSize \in 0 .. BlockSize
    BY <1>1
  <1>5. PICK w : Good(w, BlockSize)
    BY <1>3, <1>4
  <1>6. w \in [Nat -> Seq(Nat)] /\ \A h \in Nat : BlockSize <= h + BlockSize => w[h] = WalkOf(w)[h]
    BY <1>5
  <1>7. \A h \in Nat : w[h] = WalkOf(w)[h]
    BY <1>1, <1>6
  <1>8. WalkOf(w) = [h \in Nat |-> WalkOf(w)[h]]
    BY DEF WalkOf
  <1>9. w = WalkOf(w)
    BY <1>6, <1>7, <1>8
  <1> QED
    BY <1>9

LEMMA RangeCons ==
    ASSUME NEW s \in Seq(Nat), NEW x \in Nat
    PROVE  /\ <<x>> \o s \in Seq(Nat) /\ Len(<<x>> \o s) = Len(s) + 1
           /\ Range(<<x>> \o s) = {x} \cup Range(s)
  <1> DEFINE c == <<x>> \o s
  <1>1. /\ c \in Seq(Nat) /\ Len(c) = Len(s) + 1 /\ c[1] = x
        /\ \A i \in 2 .. Len(s) + 1 : c[i] = s[i - 1]
    OBVIOUS
  <1>2. DOMAIN c = 1 .. Len(s) + 1 /\ DOMAIN s = 1 .. Len(s) /\ Len(s) \in Nat
    BY <1>1
  <1> HIDE DEF c
  <1>3. Range(c) \subseteq {x} \cup Range(s)
    <2> SUFFICES ASSUME NEW i \in 1 .. Len(s) + 1, i # 1 PROVE c[i] \in Range(s)
      BY <1>1, <1>2 DEF Range
    <2>1. i \in 2 .. Len(s) + 1 /\ i - 1 \in DOMAIN s
      BY <1>2
    <2> QED
      BY <1>1, <2>1 DEF Range
  <1>4. {x} \cup Range(s) \subseteq Range(c)
    <2>1. x \in Range(c)
      <3>1. 1 \in DOMAIN c
        BY <1>2
      <3> QED
        BY <1>1, <3>1 DEF Range
    <2>2. ASSUME NEW i \in DOMAIN s PROVE s[i] \in Range(c)
      <3>1. i + 1 \in 2 .. Len(s) + 1 /\ (i + 1) - 1 = i /\ i + 1 \in DOMAIN c
        BY <1>2
      <3> QED
        BY <1>1, <3>1 DEF Range
    <2> QED
      BY <2>1, <2>2 DEF Range
  <1> QED
    BY <1>1, <1>3, <1>4 DEF c

\* From a header on the walk meets that header and all above it, each once.
LEMMA WalkCounts ==
    ASSUME HeapTypes, Tiling, NEW w, w = WalkOf(w), NEW start \in DOMAIN hdrs
    PROVE  WalksFrom(w, start)
  <1> DEFINE All == DOMAIN hdrs \cup {BlockSize}
             Bad == {k \in Nat : \E h \in All : h + k = BlockSize /\ ~WalksFrom(w, h)}
  <1>1. BlockSize \in Nat
    BY BlockAssumption
  <1>2. ASSUME NEW h \in Nat
        PROVE  w[h] = IF h \in DOMAIN hdrs THEN <<h>> \o w[Behind(hdrs, h)] ELSE <<>>
    BY DEF WalkOf
  <1>3. IsFiniteSet(DOMAIN hdrs)
    <2>1. DOMAIN hdrs \subseteq 0 .. BlockSize
      <3> SUFFICES ASSUME NEW h \in DOMAIN hdrs PROVE h \in 0 .. BlockSize
        OBVIOUS
      <3>1. h \in Nat /\ h < BlockSize
        BY GoesUp
      <3> QED
        BY <1>1, <3>1
    <2>2. IsFiniteSet(0 .. BlockSize)
      BY <1>1, FS_Interval
    <2> QED
      BY <2>1, <2>2, FS_Subset
  <1>4. ASSUME NEW h \in DOMAIN hdrs, WalksFrom(w, Behind(hdrs, h)) PROVE WalksFrom(w, h)
    <2> DEFINE b == Behind(hdrs, h)
    <2>1. h \in Nat /\ b \in Nat /\ h < b
      BY GoesUp
    <2>2. w[b] \in Seq(Nat) /\ Range(w[b]) = From(b) /\ Len(w[b]) = Cardinality(From(b))
      BY <1>4 DEF WalksFrom
    <2>3. w[h] = <<h>> \o w[b]
      BY <1>2, <2>1
    <2>4. From(h) = {h} \cup From(b) /\ h \notin From(b)
      <3>1. ASSUME NEW g \in DOMAIN hdrs PROVE g \in Nat /\ (h <= g <=> (g = h \/ b <= g))
        <4>1. g \in Nat /\ (h < g => b <= g)
          BY GoesUp DEF Tiling
        <4> HIDE DEF b
        <4> QED
          BY <2>1, <4>1
      <3>2. ~(b <= h)
        <4> HIDE DEF b
        <4> QED
          BY <2>1
      <3> QED
        BY <3>1, <3>2 DEF From
    <2> HIDE DEF b
    <2>5. IsFiniteSet(From(b))
      BY <1>3, FS_Subset DEF From
    <2>6. Cardinality(From(h)) = Cardinality(From(b)) + 1
      BY <2>4, <2>5, FS_AddElement, SMTT(30)
    <2>7. w[h] \in Seq(Nat) /\ Len(w[h]) = Len(w[b]) + 1 /\ Range(w[h]) = {h} \cup Range(w[b])
      BY <2>1, <2>2, <2>3, RangeCons
    <2> QED
      BY <2>2, <2>4, <2>6, <2>7 DEF WalksFrom
  <1>5. WalksFrom(w, BlockSize)
    <2>1. ASSUME NEW g \in DOMAIN hdrs PROVE ~(BlockSize <= g)
      <3>1. g \in Nat /\ g < BlockSize
        BY GoesUp
      <3> QED
        BY <1>1, <3>1
    <2>2. From(BlockSize) = {} /\ w[BlockSize] = <<>>
      <3>1. BlockSize \notin DOMAIN hdrs
        BY <1>1, <2>1
      <3> QED
        BY <1>1, <1>2, <2>1, <3>1 DEF From
    <2>3. <<>> \in Seq(Nat) /\ Len(<<>>) = 0 /\ Range(<<>>) = {}
      BY DEF Range
    <2> QED
      BY <2>2, <2>3, FS_EmptySet DEF WalksFrom
  <1>6. ASSUME Bad # {} PROVE FALSE
    <2>1. Bad \subseteq Nat
      OBVIOUS
    <2>2. PICK k \in Bad : \A j \in Bad : k <= j
      BY <1>6, <2>1, LeastOf
    <2>3. PICK h \in All : h + k = BlockSize /\ ~WalksFrom(w, h)
      OBVIOUS
    <2>4. h \in DOMAIN hdrs
      BY <1>5, <2>3
    <2> DEFINE b == Behind(hdrs, h)
    <2>5. b \in All /\ b \in Nat /\ h \in Nat /\ h < b /\ b <= BlockSize
      BY <2>4, GoesUp
    <2>6. ~WalksFrom(w, b)
      BY <1>4, <2>3, <2>4
    <2> HIDE DEF b
    <2>7. BlockSize - b \in Nat /\ b + (BlockSize - b) = BlockSize /\ ~(k <= BlockSize - b)
      BY <1>1, <2>3, <2>5
    <2>8. BlockSize - b \in Bad
      BY <2>5, <2>6, <2>7
    <2> QED
      BY <2>2, <2>7, <2>8
  <1>7. BlockSize - start \in Nat /\ start + (BlockSize - start) = BlockSize
    <2>1. start \in Nat /\ start < BlockSize
      BY GoesUp
    <2> QED
      BY <1>1, <2>1
  <1> QED
    BY <1>6, <1>7

LEMMA WalkLemma == HeapInv => WalkMeetsHeaders
  <1> SUFFICES ASSUME HeapInv PROVE WalkMeetsHeaders
    OBVIOUS
  <1>1. HeapTypes /\ Tiling
    BY DEF HeapInv
  <1> DEFINE w == CHOOSE f : f = WalkOf(f)
  <1>2. \E f : f = WalkOf(f)
    BY <1>1, WalkExists
  <1>3. w = WalkOf(w)
    BY <1>2, Zenon
  <1>4. Walk = w[First]
    BY DEF Walk, WalkOf
  <1> HIDE DEF w
  <1>5. First \in DOMAIN hdrs /\ \A h \in DOMAIN hdrs : First <= h
    BY <1>1 DEF Tiling
  <1>6. WalksFrom(w, First)
    BY <1>1, <1>3, <1>5, WalkCounts
  <1>7. From(First) = DOMAIN hdrs
    BY <1>5 DEF From
  <1> QED
    BY <1>4, <1>6, <1>7 DEF WalksFrom, WalkMeetsHeaders

\* The loop of k_heapLCABAlloc (heap.h:203-244) ends in every reachable heap, and has then
\* read every header once and nothing that is not a header, however chunks were split,
\* merged and freed before.
THEOREM WalkAlwaysMeetsHeaders == Spec => []WalkMeetsHeaders
  <1>1. IInv => WalkMeetsHeaders
    BY WalkLemma DEF IInv
  <1> QED
    BY <1>1, Invariance, PTL

-----------------------------------------------------------------------------
(* hb->used.  It counts at most the bytes that are in use, those of the    *)
(* headers and of the taken payloads; it may have sunk below zero, which   *)
(* on a machine word is above the size of the block.                       *)

Top(f, h) == IF f[h].taken THEN Behind(f, h) ELSE h + HDR

Covers(f, x) == \E h \in DOMAIN f : h <= x /\ x < Top(f, h)

Busy(f) == {x \in First .. BlockSize - 1 : Covers(f, x)}

Level(w) == IF w <= BlockSize THEN w ELSE w - Word

UsedInv == Level(used) <= Cardinality(Busy(hdrs))

\* The counter has not yet sunk almost as far as a machine word reaches, when it would
\* be taken for a large one.  A malloc and its free take it down by at most 40 bytes.
NotSunk == used \notin BlockSize + 1 .. 2 * BlockSize

LEMMA BusyFinite ==
    ASSUME NEW f
    PROVE  /\ IsFiniteSet(Busy(f)) /\ Cardinality(Busy(f)) \in Nat
           /\ Cardinality(Busy(f)) <= BlockSize - First
  <1>1. /\ First \in Int /\ BlockSize - 1 \in Int
        /\ (IF First > BlockSize - 1 THEN 0 ELSE BlockSize - 1 - First + 1) = BlockSize - First
    BY BlockAssumption DEF First, BLKHDR, SLACK
  <1>2. IsFiniteSet(First .. BlockSize - 1) /\ Cardinality(First .. BlockSize - 1) = BlockSize - First
    BY <1>1, FS_Interval
  <1>3. Busy(f) \in SUBSET (First .. BlockSize - 1)
    BY DEF Busy
  <1> QED
    BY <1>2, <1>3, FS_Subset, FS_CardinalityType

\* n numbers from a on.
LEMMA Run ==
    ASSUME NEW a \in Int, NEW n \in Nat
    PROVE  IsFiniteSet(a .. a + n - 1) /\ Cardinality(a .. a + n - 1) = n
  <1>1. a + n - 1 \in Int
    OBVIOUS
  <1>2. (IF a > a + n - 1 THEN 0 ELSE a + n - 1 - a + 1) = n
    OBVIOUS
  <1> QED
    BY <1>1, <1>2, FS_Interval

LEMMA Grows ==
    ASSUME NEW B, IsFiniteSet(B), NEW C, IsFiniteSet(C), NEW R, IsFiniteSet(R),
           B \cup R \subseteq C, B \cap R = {}
    PROVE  Cardinality(B) + Cardinality(R) <= Cardinality(C)
  <1>1. /\ IsFiniteSet(B \cup R)
        /\ Cardinality(B \cup R) = Cardinality(B) + Cardinality(R) - Cardinality(B \cap R)
    BY FS_Union
  <1>2. Cardinality(B \cap R) = 0
    BY FS_EmptySet
  <1>3. Cardinality(B \cup R) <= Cardinality(C)
    BY FS_Subset
  <1>4. Cardinality(B) \in Nat /\ Cardinality(R) \in Nat /\ Cardinality(C) \in Nat
    BY FS_CardinalityType
  <1> QED
    BY <1>1, <1>2, <1>3, <1>4

LEMMA Shrinks ==
    ASSUME NEW B, IsFiniteSet(B), NEW C, IsFiniteSet(C), NEW R, IsFiniteSet(R),
           B \subseteq C \cup R
    PROVE  Cardinality(B) <= Cardinality(C) + Cardinality(R)
  <1>1. /\ IsFiniteSet(C \cup R)
        /\ Cardinality(C \cup R) = Cardinality(C) + Cardinality(R) - Cardinality(C \cap R)
    BY FS_Union
  <1>2. IsFiniteSet(C \cap R)
    BY FS_Subset
  <1>3. Cardinality(B) <= Cardinality(C \cup R)
    BY <1>1, FS_Subset
  <1>4. /\ Cardinality(B) \in Nat /\ Cardinality(R) \in Nat /\ Cardinality(C) \in Nat
        /\ Cardinality(C \cap R) \in Nat
    BY <1>2, FS_CardinalityType
  <1> QED
    BY <1>1, <1>3, <1>4

\* The payload of a free chunk is not in use.
LEMMA FreePayload ==
    ASSUME HeapTypes, Tiling, NEW h \in DOMAIN hdrs, ~hdrs[h].taken,
           NEW x \in Int, h + HDR <= x, x < Behind(hdrs, h)
    PROVE  ~Covers(hdrs, x) /\ x \in First .. BlockSize - 1
  <1>0. \A g \in DOMAIN hdrs : g \in Nat /\ hdrs[g].size \in Nat /\ Behind(hdrs, g) = g + 8 + hdrs[g].size
    BY HeaderFields DEF Behind, HDR
  <1>1. h + 8 <= x
    BY DEF HDR
  <1>2. ASSUME NEW g \in DOMAIN hdrs, g <= x, x < Top(hdrs, g) PROVE FALSE
    <2>1. Top(hdrs, g) <= Behind(hdrs, g)
      BY <1>0 DEF Top, HDR
    <2>2. g = h
      BY <1>0, <1>1, <1>2, <2>1 DEF Tiling, Top, HDR
    <2>3. Top(hdrs, h) = h + 8
      BY DEF Top, HDR
    <2> QED
      BY <1>0, <1>1, <1>2, <2>2, <2>3
  <1>3. Behind(hdrs, h) <= BlockSize /\ First <= h
    BY <1>0, BlockAssumption DEF Tiling
  <1>4. First \in Int /\ BlockSize \in Int
    BY BlockAssumption DEF First, BLKHDR
  <1> QED
    BY <1>0, <1>1, <1>2, <1>3, <1>4 DEF Covers

\* A free chunk is no larger than what hb->used leaves.
LEMMA FreeLeaves ==
    ASSUME HeapTypes, Tiling, NEW h \in DOMAIN hdrs, ~hdrs[h].taken
    PROVE  Cardinality(Busy(hdrs)) + hdrs[h].size <= BlockSize - First
  <1> DEFINE R == h + HDR .. h + HDR + hdrs[h].size - 1
             A == First .. BlockSize - 1
  <1>1. h \in Nat /\ hdrs[h].size \in Nat /\ h + HDR \in Int /\ Behind(hdrs, h) = h + HDR + hdrs[h].size
    BY HeaderFields DEF Behind, HDR
  <1>2. IsFiniteSet(R) /\ Cardinality(R) = hdrs[h].size
    BY <1>1, Run
  <1>3. ASSUME NEW x \in R PROVE x \notin Busy(hdrs) /\ x \in A
    <2>1. x \in Int /\ h + HDR <= x /\ x < Behind(hdrs, h)
      BY <1>1
    <2> QED
      BY <2>1, FreePayload DEF Busy
  <1>4. Busy(hdrs) \subseteq A
    BY DEF Busy
  <1>5. IsFiniteSet(A) /\ Cardinality(A) = BlockSize - First
    <2>1. /\ First \in Int /\ BlockSize - 1 \in Int
          /\ (IF First > BlockSize - 1 THEN 0 ELSE BlockSize - 1 - First + 1) = BlockSize - First
      BY BlockAssumption DEF First, BLKHDR, SLACK
    <2> QED
      BY <2>1, FS_Interval
  <1> HIDE DEF R, A
  <1>6. Busy(hdrs) \cup R \subseteq A /\ Busy(hdrs) \cap R = {}
    BY <1>3, <1>4
  <1> QED
    BY <1>2, <1>5, <1>6, BusyFinite, Grows

\* malloc makes as many bytes busy as it counts, or the chunk's if it takes it whole.
LEMMA SplitUses ==
    ASSUME HeapTypes, Tiling, BackLinksReach, NEW h \in DOMAIN hdrs, NEW size \in Nat,
           ~hdrs[h].taken, WorthSplitting(h, size), Split(h, size)
    PROVE  Cardinality(Busy(hdrs')) = Cardinality(Busy(hdrs)) + size + HDR
  <1> DEFINE rest == h + HDR + size
             R == h + HDR .. h + HDR + (size + HDR) - 1
  <1>1. /\ DOMAIN hdrs' = DOMAIN hdrs \cup {rest}
        /\ hdrs'[h].taken /\ hdrs'[h].size = size
        /\ ~hdrs'[rest].taken
        /\ \A g \in DOMAIN hdrs \ {h} : hdrs'[g] = hdrs[g]
    BY SplitTiles
  <1>2. /\ h \in Nat /\ hdrs[h].size \in Nat /\ h + HDR \in Int
        /\ Behind(hdrs, h) = h + 8 + hdrs[h].size
        /\ hdrs[h].size > size + 24 /\ rest = h + 8 + size
    BY HeaderFields DEF Behind, HDR, WorthSplitting, SPARE
  <1>3. IsFiniteSet(R) /\ Cardinality(R) = size + HDR
    <2>1. size + HDR \in Nat
      BY DEF HDR
    <2> QED
      BY <1>2, <2>1, Run
  <1>4. Top(hdrs', h) = rest /\ Top(hdrs', rest) = rest + 8 /\ Top(hdrs, h) = h + 8
    BY <1>1, <1>2 DEF Top, Behind, HDR
  <1>5. \A g \in DOMAIN hdrs \ {h} : Top(hdrs', g) = Top(hdrs, g)
    BY <1>1 DEF Top, Behind
  <1> HIDE DEF rest
  <1>6. ASSUME NEW x \in R PROVE x \notin Busy(hdrs) /\ x \in Busy(hdrs')
    <2>1. x \in Int /\ h + 8 <= x /\ x < rest + 8 /\ x < Behind(hdrs, h) /\ h + HDR <= x
      BY <1>2 DEF HDR
    <2>2. ~Covers(hdrs, x) /\ x \in First .. BlockSize - 1
      BY <2>1, FreePayload
    <2>3. Covers(hdrs', x)
      <3>1. CASE x < rest
        BY <1>1, <1>2, <1>4, <2>1, <3>1 DEF Covers
      <3>2. CASE ~(x < rest)
        BY <1>1, <1>2, <1>4, <2>1, <3>2 DEF Covers
      <3> QED
        BY <3>1, <3>2
    <2> QED
      BY <2>2, <2>3 DEF Busy
  <1>7. ASSUME NEW x \in Busy(hdrs) PROVE x \in Busy(hdrs')
    <2>1. x \in First .. BlockSize - 1 /\ x \in Int
      BY BlockAssumption DEF Busy, First, BLKHDR
    <2>2. PICK g \in DOMAIN hdrs : g <= x /\ x < Top(hdrs, g)
      BY DEF Busy, Covers
    <2>3. g \in DOMAIN hdrs' /\ x < Top(hdrs', g)
      BY <1>1, <1>2, <1>4, <1>5, <2>1, <2>2
    <2> QED
      BY <2>1, <2>2, <2>3 DEF Busy, Covers
  <1>10. ASSUME NEW x \in Busy(hdrs'), x \notin R PROVE x \in Busy(hdrs)
    <2>1. x \in First .. BlockSize - 1 /\ x \in Int
      BY BlockAssumption DEF Busy, First, BLKHDR
    <2>2. PICK g \in DOMAIN hdrs' : g <= x /\ x < Top(hdrs', g)
      BY DEF Busy, Covers
    <2>3. ~(h + 8 <= x /\ x < rest + 8)
      BY <1>2, <1>10, <2>1 DEF HDR, R
    <2>4. \E f \in DOMAIN hdrs : f <= x /\ x < Top(hdrs, f)
      BY <1>1, <1>2, <1>4, <1>5, <2>1, <2>2, <2>3
    <2> QED
      BY <2>1, <2>4 DEF Busy, Covers
  <1> HIDE DEF R
  <1>8. Busy(hdrs) \cup R \subseteq Busy(hdrs') /\ Busy(hdrs) \cap R = {}
    BY <1>6, <1>7
  <1>9. Cardinality(Busy(hdrs)) + Cardinality(R) <= Cardinality(Busy(hdrs'))
    BY <1>3, <1>8, BusyFinite, Grows
  <1>11. Cardinality(Busy(hdrs')) <= Cardinality(Busy(hdrs)) + Cardinality(R)
    <2>1. Busy(hdrs') \subseteq Busy(hdrs) \cup R
      BY <1>10
    <2> QED
      BY <1>3, <2>1, BusyFinite, Shrinks
  <1> QED
    BY <1>3, <1>9, <1>11, BusyFinite DEF HDR

LEMMA TakeUses ==
    ASSUME HeapTypes, Tiling, BackLinksReach, NEW h \in DOMAIN hdrs, NEW size \in Nat,
           ~hdrs[h].taken, TakeWhole(h, size)
    PROVE  Cardinality(Busy(hdrs')) = Cardinality(Busy(hdrs)) + hdrs[h].size
  <1> DEFINE R == h + HDR .. h + HDR + hdrs[h].size - 1
  <1>1. /\ DOMAIN hdrs' = DOMAIN hdrs
        /\ hdrs'[h].taken /\ hdrs'[h].size = hdrs[h].size
        /\ \A g \in DOMAIN hdrs \ {h} : hdrs'[g] = hdrs[g]
    BY TakeTiles
  <1>2. /\ h \in Nat /\ hdrs[h].size \in Nat /\ h + HDR \in Int
        /\ Behind(hdrs, h) = h + HDR + hdrs[h].size
    BY HeaderFields DEF Behind, HDR
  <1>3. IsFiniteSet(R) /\ Cardinality(R) = hdrs[h].size
    BY <1>2, Run
  <1>4. Top(hdrs', h) = h + 8 + hdrs[h].size /\ Top(hdrs, h) = h + 8
    BY <1>1, <1>2 DEF Top, Behind, HDR
  <1>5. \A g \in DOMAIN hdrs \ {h} : Top(hdrs', g) = Top(hdrs, g)
    BY <1>1 DEF Top, Behind
  <1>6. ASSUME NEW x \in R PROVE x \notin Busy(hdrs) /\ x \in Busy(hdrs')
    <2>1. x \in Int /\ h + HDR <= x /\ x < Behind(hdrs, h)
      BY <1>2
    <2>2. ~Covers(hdrs, x) /\ x \in First .. BlockSize - 1
      BY <2>1, FreePayload
    <2>3. Covers(hdrs', x)
      BY <1>1, <1>2, <1>4, <2>1 DEF Covers, HDR
    <2> QED
      BY <2>2, <2>3 DEF Busy
  <1>7. ASSUME NEW x \in Busy(hdrs) PROVE x \in Busy(hdrs')
    <2>1. x \in First .. BlockSize - 1 /\ x \in Int
      BY BlockAssumption DEF Busy, First, BLKHDR
    <2>2. PICK g \in DOMAIN hdrs : g <= x /\ x < Top(hdrs, g)
      BY DEF Busy, Covers
    <2>3. x < Top(hdrs', g)
      BY <1>2, <1>4, <1>5, <2>1, <2>2
    <2> QED
      BY <1>1, <2>1, <2>2, <2>3 DEF Busy, Covers
  <1>10. ASSUME NEW x \in Busy(hdrs'), x \notin R PROVE x \in Busy(hdrs)
    <2>1. x \in First .. BlockSize - 1 /\ x \in Int
      BY BlockAssumption DEF Busy, First, BLKHDR
    <2>2. PICK g \in DOMAIN hdrs' : g <= x /\ x < Top(hdrs', g)
      BY DEF Busy, Covers
    <2>3. ~(h + 8 <= x /\ x < h + 8 + hdrs[h].size)
      BY <1>2, <1>10, <2>1 DEF HDR, R
    <2>4. \E f \in DOMAIN hdrs : f <= x /\ x < Top(hdrs, f)
      BY <1>1, <1>2, <1>4, <1>5, <2>1, <2>2, <2>3
    <2> QED
      BY <2>1, <2>4 DEF Busy, Covers
  <1> HIDE DEF R
  <1>8. Busy(hdrs) \cup R \subseteq Busy(hdrs') /\ Busy(hdrs) \cap R = {}
    BY <1>6, <1>7
  <1>9. Cardinality(Busy(hdrs)) + Cardinality(R) <= Cardinality(Busy(hdrs'))
    BY <1>3, <1>8, BusyFinite, Grows
  <1>11. Cardinality(Busy(hdrs')) <= Cardinality(Busy(hdrs)) + Cardinality(R)
    <2>1. Busy(hdrs') \subseteq Busy(hdrs) \cup R
      BY <1>10
    <2> QED
      BY <1>3, <2>1, BusyFinite, Shrinks
  <1> QED
    BY <1>2, <1>3, <1>9, <1>11, BusyFinite

\* What a free takes off the counters, without and with what it does for a backward
\* merge.
Given(h) == hdrs[h].size + (IF MergesForward(h) THEN HDR ELSE 0)
Lost(h, back) == Given(h) + (IF back THEN HDR ELSE 0)

\* free gives back at most as many bytes as it takes off the counters, and exactly as
\* many when the chunk was taken and nothing is merged backward.
LEMMA ReleaseUses ==
    ASSUME HeapTypes, Tiling, BackLinksReach, NEW h \in DOMAIN hdrs,
           hdrs' = FreedHeaders(h)
    PROVE  /\ Given(h) \in Nat
           /\ Cardinality(Busy(hdrs)) <= Cardinality(Busy(hdrs')) + Given(h)
           /\ Cardinality(Busy(hdrs')) <= Cardinality(Busy(hdrs))
           /\ hdrs[h].taken => Cardinality(Busy(hdrs')) + Given(h) <= Cardinality(Busy(hdrs))
  <1> DEFINE n == Behind(hdrs, h)
             lost == Given(h)
             R == h + HDR .. h + HDR + lost - 1
  <1>1. /\ DOMAIN hdrs' = DOMAIN hdrs \ (IF MergesForward(h) THEN {n} ELSE {})
        /\ h \in DOMAIN hdrs'
        /\ ~hdrs'[h].taken
        /\ \A g \in DOMAIN hdrs' \ {h} : /\ hdrs'[g].taken = hdrs[g].taken
                                         /\ hdrs'[g].size = hdrs[g].size
    BY ReleaseTiles
  <1>2. /\ h \in Nat /\ hdrs[h].size \in Nat /\ h + HDR \in Int
        /\ n = h + 8 + hdrs[h].size /\ lost \in Nat
        /\ lost = IF MergesForward(h) THEN hdrs[h].size + 8 ELSE hdrs[h].size
    BY HeaderFields DEF Behind, HDR, Given
  <1> HIDE DEF lost
  <1>3. IsFiniteSet(R) /\ Cardinality(R) = lost
    BY <1>2, Run
  <1>4. Top(hdrs', h) = h + 8 /\ (Top(hdrs, h) = n \/ Top(hdrs, h) = h + 8)
    BY <1>1 DEF Top, HDR
  <1>5. \A g \in DOMAIN hdrs' \ {h} : Top(hdrs', g) = Top(hdrs, g)
    BY <1>1 DEF Top, Behind
  <1>6. MergesForward(h) => Top(hdrs, n) = n + 8
    BY DEF Top, HDR, MergesForward
  <1> HIDE DEF n
  <1>7. ASSUME NEW x \in Busy(hdrs), x \notin R PROVE x \in Busy(hdrs')
    <2>1. x \in First .. BlockSize - 1 /\ x \in Int
      BY BlockAssumption DEF Busy, First, BLKHDR
    <2>2. PICK g \in DOMAIN hdrs : g <= x /\ x < Top(hdrs, g)
      BY DEF Busy, Covers
    <2>3. ~(h + 8 <= x /\ x < h + 8 + lost)
      BY <1>2, <1>7, <2>1 DEF HDR
    <2>4. CASE g = h
      <3>1. x < h + 8
        BY <1>2, <1>4, <2>1, <2>2, <2>3, <2>4
      <3> QED
        BY <1>1, <1>4, <2>1, <2>2, <2>4, <3>1 DEF Busy, Covers
    <2>5. CASE g # h /\ g \in DOMAIN hdrs'
      BY <1>5, <2>1, <2>2, <2>5 DEF Busy, Covers
    <2>6. CASE g # h /\ g \notin DOMAIN hdrs'
      <3>1. MergesForward(h) /\ g = n
        BY <1>1, <2>6
      <3> QED
        BY <1>2, <1>6, <2>1, <2>2, <2>3, <3>1
    <2> QED
      BY <2>4, <2>5, <2>6
  <1>10. ASSUME NEW x \in Busy(hdrs')
         PROVE  x \in Busy(hdrs) /\ x \notin R
    <2>1. x \in First .. BlockSize - 1 /\ x \in Int
      BY BlockAssumption DEF Busy, First, BLKHDR
    <2>2. PICK g \in DOMAIN hdrs' : g <= x /\ x < Top(hdrs', g)
      BY <1>10 DEF Busy, Covers
    <2>3. g \in DOMAIN hdrs /\ g \in Nat
      BY <1>1, HeaderFields
    <2>4. x < Top(hdrs, g)
      BY <1>1, <1>2, <1>4, <1>5, <2>1, <2>2
    <2>5. x \notin R
      <3>1. \A f \in DOMAIN hdrs : f \in Nat /\ hdrs[f].size \in Nat /\ Behind(hdrs, f) = f + 8 + hdrs[f].size
        BY HeaderFields DEF Behind, HDR
      <3>2. CASE g = h
        BY <1>2, <1>4, <2>1, <2>2, <3>2 DEF R, HDR
      <3>3. CASE g < h
        <4>1. Behind(hdrs, g) <= h /\ Top(hdrs, g) <= Behind(hdrs, g)
          BY <2>3, <3>1, <3>3 DEF Tiling, Top, HDR
        <4> QED
          BY <1>2, <2>1, <2>4, <3>1, <2>3, <4>1 DEF R, HDR, Top
      <3>4. CASE g > h
        <4>1. n <= g
          BY <2>3, <3>4 DEF Tiling, n
        <4>2. MergesForward(h) => n \in DOMAIN hdrs /\ Behind(hdrs, n) <= g
          <5>1. MergesForward(h) => n \in DOMAIN hdrs /\ g # n
            BY <1>1 DEF MergesForward, n
          <5>2. MergesForward(h) => n \in DOMAIN hdrs /\ n < g
            BY <2>3, <3>1, <4>1, <5>1
          <5> QED
            BY <2>3, <5>2 DEF Tiling
        <4>3. h + 8 + lost <= g
          BY <1>2, <2>3, <3>1, <4>1, <4>2
        <4> QED
          BY <1>2, <2>1, <2>2, <2>3, <4>3 DEF R, HDR
      <3> QED
        BY <1>2, <2>3, <3>2, <3>3, <3>4
    <2> QED
      BY <2>1, <2>2, <2>3, <2>4, <2>5 DEF Busy, Covers
  <1>11. ASSUME NEW x \in R, hdrs[h].taken PROVE x \in Busy(hdrs)
    <2>1. x \in Int /\ h <= x /\ x < h + 8 + lost
      BY <1>2 DEF R, HDR
    <2>2. Top(hdrs, h) = n
      BY <1>11 DEF Top, n
    <2>3. \E f \in DOMAIN hdrs : f <= x /\ x < Top(hdrs, f)
      <3>1. CASE x < n
        BY <2>1, <2>2, <3>1
      <3>2. CASE ~(x < n)
        BY <1>2, <1>6, <2>1, <3>2 DEF MergesForward, n
      <3> QED
        BY <3>1, <3>2
    <2>4. x \in First .. BlockSize - 1
      <3>1. h \in Nat /\ First <= h /\ n <= BlockSize
        BY <1>2, BlockAssumption DEF Tiling, n
      <3>2. MergesForward(h) => n + 8 <= BlockSize
        <4>1. MergesForward(h) => n \in DOMAIN hdrs /\ n \in Nat
                                  /\ Behind(hdrs, n) = n + 8 + hdrs[n].size /\ hdrs[n].size \in Nat
          BY HeaderFields DEF MergesForward, Behind, HDR, n
        <4> QED
          BY <4>1, BlockAssumption DEF Tiling
      <3> QED
        BY <1>2, <2>1, <3>1, <3>2, BlockAssumption DEF First, BLKHDR
    <2> QED
      BY <2>3, <2>4 DEF Busy, Covers
  <1> HIDE DEF R
  <1>8. Busy(hdrs) \subseteq Busy(hdrs') \cup R
    BY <1>7
  <1>9. Cardinality(Busy(hdrs)) <= Cardinality(Busy(hdrs')) + Cardinality(R)
    BY <1>3, <1>8, BusyFinite, Shrinks
  <1>12. Cardinality(Busy(hdrs')) <= Cardinality(Busy(hdrs))
    <2>1. Busy(hdrs') \subseteq Busy(hdrs)
      BY <1>10
    <2> QED
      BY <2>1, BusyFinite, FS_Subset
  <1>13. hdrs[h].taken => Cardinality(Busy(hdrs')) + Cardinality(R) <= Cardinality(Busy(hdrs))
    <2> SUFFICES ASSUME hdrs[h].taken
                 PROVE  Cardinality(Busy(hdrs')) + Cardinality(R) <= Cardinality(Busy(hdrs))
      OBVIOUS
    <2>1. Busy(hdrs') \cup R \subseteq Busy(hdrs) /\ Busy(hdrs') \cap R = {}
      BY <1>10, <1>11
    <2> QED
      BY <1>3, <2>1, BusyFinite, Grows
  <1> QED
    BY <1>2, <1>3, <1>9, <1>12, <1>13 DEF lost

\* The counter follows on a machine word.
LEMMA LevelUp ==
    ASSUME NEW u \in 0 .. Word - 1, NEW d \in Nat, Level(u) + d <= BlockSize
    PROVE  Level((u + d) % Word) = Level(u) + d
  <1>1. Word \in Nat /\ BlockSize \in Nat /\ Word > 2 * BlockSize /\ u \in Int
    BY WordAssumption, BlockAssumption
  <1>2. CASE u <= BlockSize
    <2>1. u + d \in 0 .. Word - 1 /\ u + d <= BlockSize
      BY <1>1, <1>2 DEF Level
    <2>2. (u + d) % Word = u + d
      BY <1>1, <2>1
    <2> QED
      BY <1>2, <2>1, <2>2 DEF Level
  <1>3. CASE u > BlockSize
    <2>1. u + d - Word <= BlockSize
      BY <1>1, <1>3 DEF Level
    <2>2. CASE u + d < Word
      <3>1. (u + d) % Word = u + d
        BY <1>1, <2>2
      <3> QED
        BY <1>1, <1>3, <3>1 DEF Level
    <2>3. CASE u + d >= Word
      <3>1. u + d - Word \in 0 .. Word - 1
        BY <1>1, <2>1, <2>3
      <3>2. (u + d) % Word = u + d - Word
        BY <1>1, <3>1, <2>3
      <3> QED
        BY <1>1, <1>3, <2>1, <3>2 DEF Level
    <2> QED
      BY <1>1, <2>2, <2>3
  <1> QED
    BY <1>1, <1>2, <1>3

LEMMA LevelDown ==
    ASSUME NEW u \in 0 .. Word - 1, NEW d \in 0 .. BlockSize, Level(u) - d > BlockSize - Word
    PROVE  Level((u - d) % Word) = Level(u) - d
  <1>1. Word \in Nat /\ BlockSize \in Nat /\ Word > 2 * BlockSize /\ u \in Int
    BY WordAssumption, BlockAssumption
  <1>2. CASE u >= d
    <2>1. u - d \in 0 .. Word - 1
      BY <1>1, <1>2
    <2>2. (u - d) % Word = u - d
      BY <1>1, <2>1
    <2> QED
      BY <1>1, <2>2 DEF Level
  <1>3. CASE u < d
    <2>1. u - d + Word \in 0 .. Word - 1 /\ u <= BlockSize /\ u - d + Word > BlockSize
      BY <1>1, <1>3
    <2>2. (u - d) % Word = u - d + Word
      BY <1>1, <1>3, <2>1
    <2> QED
      BY <1>1, <2>1, <2>2 DEF Level
  <1> QED
    BY <1>1, <1>2, <1>3

\* How many bytes are in use that hb->used does not count.
Gap == Cardinality(Busy(hdrs)) - Level(used)

LEMMA MallocCounts ==
    ASSUME HeapInv, UsedInv, NEW size \in Nat, Malloc(size)
    PROVE  UsedInv' /\ Gap' <= Gap + 24
  <1>1. PICK h \in DOMAIN hdrs :
          /\ FirstFit(h, size)
          /\ IF WorthSplitting(h, size) THEN Split(h, size) ELSE TakeWhole(h, size)
    BY DEF Malloc
  <1>2. ~hdrs[h].taken /\ hdrs[h].size >= size /\ hdrs[h].size \in Nat
    BY <1>1, HeaderFields DEF FirstFit, FreeFits, HeapInv
  <1> DEFINE before == Cardinality(Busy(hdrs))
             after == Cardinality(Busy(hdrs'))
  <1>3. before \in Nat /\ after \in Nat /\ after <= BlockSize
    <2>1. before \in Nat /\ after \in Nat /\ after <= BlockSize - First
      BY BusyFinite
    <2> HIDE DEF before, after
    <2> QED
      BY <2>1, BlockAssumption DEF First, BLKHDR
  <1>4. used \in 0 .. Word - 1 /\ Level(used) <= before /\ Level(used) \in Int
    BY WordAssumption, BlockAssumption DEF HeapInv, HeapTypes, UsedInv, Level
  <1>5. \E d \in Nat : used' = (used + d) % Word /\ before + d <= after /\ after <= before + d + 24
    <2>1. CASE WorthSplitting(h, size)
      <3>1. Split(h, size)
        BY <1>1, <2>1
      <3>2. after = before + size + HDR
        BY <1>2, <2>1, <3>1, SplitUses DEF HeapInv
      <3>3. used' = (used + HDR + size) % Word
        BY <3>1 DEF Split
      <3> HIDE DEF before, after
      <3>4. /\ HDR + size \in Nat /\ used + HDR + size = used + (HDR + size)
            /\ before + (HDR + size) <= after /\ after <= before + (HDR + size) + 24
        BY <1>3, <1>4, <3>2, WordAssumption DEF HDR
      <3> QED
        BY <3>3, <3>4
    <2>2. CASE ~WorthSplitting(h, size)
      <3>1. TakeWhole(h, size)
        BY <1>1, <2>2
      <3>2. after = before + hdrs[h].size
        BY <1>2, <3>1, TakeUses DEF HeapInv
      <3>3. hdrs[h].size <= size + 24
        BY <1>2, <2>2 DEF WorthSplitting, HDR, SPARE
      <3>4. used' = (used + size) % Word
        BY <3>1 DEF TakeWhole
      <3> HIDE DEF before, after
      <3>5. before + size <= after /\ after <= before + size + 24
        BY <1>2, <1>3, <3>2, <3>3
      <3> QED
        BY <3>4, <3>5
    <2> QED
      BY <2>1, <2>2
  <1> HIDE DEF before, after
  <1>6. PICK d \in Nat : used' = (used + d) % Word /\ before + d <= after /\ after <= before + d + 24
    BY <1>5
  <1>7. Level(used) + d <= BlockSize /\ Level(used) + d <= after
    BY <1>3, <1>4, <1>6, BlockAssumption
  <1>8. Level(used') = Level(used) + d
    BY <1>4, <1>6, <1>7, LevelUp
  <1>9. UsedInv'
    BY <1>7, <1>8 DEF UsedInv, after
  <1>10. Gap = before - Level(used) /\ Gap' = after - Level(used')
    BY DEF Gap, before, after
  <1> QED
    BY <1>3, <1>4, <1>6, <1>8, <1>9, <1>10

\* A free takes at most the block off the counters.
LEMMA LostFits ==
    ASSUME HeapInv, NEW h \in DOMAIN hdrs, NEW back \in BOOLEAN
    PROVE  /\ Lost(h, back) \in 0 .. BlockSize /\ Given(h) \in Nat
           /\ Given(h) <= Lost(h, back) /\ Lost(h, back) <= Given(h) + 8
  <1>1. /\ h \in Nat /\ hdrs[h].size \in Nat /\ h >= 20
        /\ h + 8 + hdrs[h].size <= BlockSize
    BY HeaderFields, BlockAssumption DEF HeapInv, Tiling, Behind, HDR, First, BLKHDR
  <1> QED
    BY <1>1, BlockAssumption DEF Lost, Given, HDR

\* A free takes too much off only for a backward merge, unless the chunk was free.
LEMMA ReleaseCounts ==
    ASSUME HeapInv, UsedInv, NEW h \in DOMAIN hdrs, NEW back \in BOOLEAN, Release(h, back),
           Level(used) - Lost(h, back) > BlockSize - Word
    PROVE  /\ UsedInv'
           /\ Gap' <= Gap + BlockSize
           /\ hdrs[h].taken => Gap' <= Gap + 8
  <1> DEFINE before == Cardinality(Busy(hdrs))
             after == Cardinality(Busy(hdrs'))
             given == Given(h)
             lost == Lost(h, back)
  <1>1. /\ given \in Nat /\ before <= after + given /\ after <= before
        /\ hdrs[h].taken => after + given <= before
    BY ReleaseUses DEF HeapInv, Release
  <1>2. before \in Nat /\ after \in Nat
    BY BusyFinite
  <1>3. used \in 0 .. Word - 1 /\ Level(used) <= before /\ Level(used) \in Int
    BY WordAssumption, BlockAssumption DEF HeapInv, HeapTypes, UsedInv, Level
  <1>4. used' = (used - lost) % Word
    BY DEF Release, Lost, Given
  <1>5. lost \in 0 .. BlockSize /\ given <= lost /\ lost <= given + 8
    BY LostFits
  <1>6. Gap = before - Level(used) /\ Gap' = after - Level(used')
    BY DEF Gap
  <1> HIDE DEF before, after, given, lost
  <1>7. Level(used') = Level(used) - lost
    BY <1>3, <1>4, <1>5, LevelDown DEF lost
  <1>8. Level(used') <= after
    BY <1>1, <1>2, <1>3, <1>5, <1>7, BlockAssumption
  <1>9. UsedInv'
    BY <1>8 DEF UsedInv, after
  <1>10. Gap' <= Gap + BlockSize
    BY <1>1, <1>2, <1>3, <1>5, <1>6, <1>7, BlockAssumption
  <1>11. hdrs[h].taken => Gap' <= Gap + 8
    BY <1>1, <1>2, <1>3, <1>5, <1>6, <1>7, BlockAssumption
  <1> QED
    BY <1>9, <1>10, <1>11

LEMMA UsedInvKept == IInv /\ UsedInv /\ NotSunk /\ [Next]_vars => UsedInv'
  <1> SUFFICES ASSUME IInv, UsedInv, NotSunk, [Next]_vars PROVE UsedInv'
    OBVIOUS
  <1>1. ASSUME NEW size \in Sizes, Malloc(size) PROVE UsedInv'
    BY <1>1, SizesAssumption, MallocCounts DEF IInv
  <1>2. ASSUME UNCHANGED vars PROVE UsedInv'
    BY <1>2 DEF UsedInv, vars
  <1>3. ASSUME NEW size \in Sizes, MallocFails(size) PROVE UsedInv'
    BY <1>2, <1>3 DEF MallocFails
  <1>4. ASSUME NEW p \in DOMAIN live, Free(p) PROVE UsedInv'
    <2>1. p - HDR \in DOMAIN hdrs
      BY DEF IInv, HeapInv, OwnedChunks
    <2>2. PICK back \in BackMerges(p - HDR) : Release(p - HDR, back)
      BY <1>4 DEF Free
    <2>3. back \in BOOLEAN
      BY DEF BackMerges
    <2>4. Lost(p - HDR, back) \in 0 .. BlockSize
      BY <2>1, <2>3, LostFits DEF IInv
    <2>5. used \in 0 .. Word - 1
      BY DEF IInv, HeapInv, HeapTypes
    <2>6. Level(used) - Lost(p - HDR, back) > BlockSize - Word
      BY <2>4, <2>5, WordAssumption, BlockAssumption DEF NotSunk, Level
    <2> QED
      BY <2>1, <2>2, <2>3, <2>6, ReleaseCounts DEF IInv
  <1> QED
    BY <1>1, <1>2, <1>3, <1>4 DEF Next

\* A free chunk that is large enough passes the test before the walk.
LEMMA Passes ==
    ASSUME HeapInv, UsedInv, NEW size \in Nat, FreeFits(size) # {}
    PROVE  EnoughLeft(size)
  <1>1. PICK h \in DOMAIN hdrs : ~hdrs[h].taken /\ hdrs[h].size >= size
    BY DEF FreeFits
  <1> DEFINE busy == Cardinality(Busy(hdrs))
             level == Level(used)
  <1>2. busy \in Nat /\ busy + hdrs[h].size <= BlockSize - First /\ hdrs[h].size \in Nat
    BY <1>1, BusyFinite, FreeLeaves, HeaderFields DEF HeapInv
  <1>3. Word \in Nat /\ BlockSize \in Nat /\ Word > 2 * BlockSize /\ used \in 0 .. Word - 1
    BY WordAssumption, BlockAssumption DEF HeapInv, HeapTypes
  <1>4. level \in Int /\ level <= busy
    BY <1>3 DEF UsedInv, Level
  <1>5. (BlockSize - used) % Word = BlockSize - level
    <2>1. CASE used <= BlockSize
      <3>1. level = used /\ BlockSize - used \in 0 .. Word - 1
        BY <1>3, <2>1 DEF Level
      <3> HIDE DEF level
      <3> QED
        BY <1>3, <3>1
    <2>2. CASE ~(used <= BlockSize)
      <3>1. level = used - Word /\ BlockSize - used + Word \in 0 .. Word - 1
        BY <1>3, <2>2 DEF Level
      <3> HIDE DEF level
      <3> QED
        BY <1>3, <2>2, <3>1
    <2> QED
      BY <2>1, <2>2
  <1> HIDE DEF busy, level
  <1>6. BlockSize - level >= size + 8
    BY <1>1, <1>2, <1>3, <1>4 DEF First, BLKHDR
  <1> QED
    BY <1>5, <1>6 DEF EnoughLeft, HDR

\* Until hb->used has sunk almost as far as a machine word reaches, the test that
\* k_heapLCABAlloc makes before it looks at any chunk turns down no request that a free
\* chunk could serve: the counter never exceeds the bytes that are in use, whatever is
\* allocated and freed and however often it was taken down too far (heap.h:97-101, 187).
THEOREM PrecheckAlwaysSound == Spec /\ []NotSunk => []PrecheckSound
  <1>1. Init => UsedInv
    <2> SUFFICES ASSUME Init PROVE UsedInv
      OBVIOUS
    <2>1. Level(used) = 0
      BY BlockAssumption DEF Init, Level
    <2>2. Cardinality(Busy(hdrs)) \in Nat
      BY BusyFinite
    <2> QED
      BY <2>1, <2>2 DEF UsedInv
  <1>2. IInv /\ UsedInv => PrecheckSound
    BY Passes, SizesAssumption DEF IInv, PrecheckSound
  <1> QED
    BY <1>1, <1>2, UsedInvKept, Invariance, PTL DEF Spec
=============================================================================
