--------------------------- MODULE PhysMemProofs ----------------------------
(***************************************************************************)
(* Proofs about the frame bitmap, for every memory map, every ramdisk and  *)
(* every size of memory that the assumptions of PhysMem allow, whatever    *)
(* the memory behind the bitmap contained.                                 *)
(*                                                                         *)
(* blocks_used is an unsigned number that starts at blocks_max although    *)
(* half of the bits are clear, so that it does not fall below 0 has to be  *)
(* shown: what is freed more than taken are bits that were set at first    *)
(* and belong to usable regions, and there are at most blocks_max of them. *)
(* The invariant therefore says that the other bits set at first stay set. *)
(*                                                                         *)
(* What lies in memory before the heap is placed there in ascending order  *)
(* (LayoutInv), and the bits that are changed behind the bitmap are those  *)
(* of few frames, either close behind it or far above the heap (StrayInv). *)
(***************************************************************************)
EXTENDS PhysMem, FiniteSetTheorems, SequenceTheorems, WellFoundedInduction, TLAPS

\* Steps at which there is a bitmap.
Mapped == {"map", "reserve", "kernel", "up"}

Fresh == FreshBits(machine, junk)

\* How many regions of the memory map were handled.
Done == Len(machine.map) - Len(todo)

\* The rest of the memory map is the end of it.
TodoInv ==
    /\ todo \in Seq(Regions) /\ Len(todo) <= Len(machine.map)
    /\ \A j \in 1 .. Len(todo) : todo[j] = machine.map[Done + j]
    /\ pc \in {"verify", "initrd", "pmem"} => Done = 0
    /\ pc \in {"reserve", "kernel", "up"} => Len(todo) = 0
    /\ pc \notin {"up", "dead"} => owned = {}

\* blocks_used follows the bits.
Counted ==
    /\ IsFiniteSet(bits)
    /\ blocks_max = BlocksMax(machine)
    /\ FreeMem = Cardinality(Fresh) - Cardinality(bits)
    /\ Fresh \ UsableBlocks(machine) \subseteq bits \ owned

\* Frame 0 is set in mem_init_region, uncounted, but it was set already.
CountInv == /\ pc \in Mapped => Counted
            /\ pc = "map" => 0 \in bits

\* Frames that are reserved by a region of the memory map, for the ramdisk, for the kernel.
RegionFrames(m, i) ==
    {frame \in Nat : /\ ~Usable(m.map[i]) /\ LeavesNoneOut(m.map[i].offset, m.map[i].length)
                     /\ Wholly(frame, m.map[i].frame, m.map[i].offset, m.map[i].length)}

RamdiskFrames(m) ==
    {frame \in Nat : Wholly(frame, 0, m.location, InitrdEnd(m) - m.location)}

KernelFrames(m) == {frame \in Nat : Wholly(frame, 0, K_ENTRY, m.kernel \div 4)}

\* What was reserved so far stays set.
ReserveInv ==
    /\ pc \in Mapped => \A i \in 1 .. Done : RegionFrames(machine, i) \subseteq bits \ owned
    /\ pc \in {"kernel", "up"} => RamdiskFrames(machine) \subseteq bits \ owned
    /\ pc = "up" => KernelFrames(machine) \subseteq bits \ owned

MemInv == TypeOK /\ TodoInv /\ CountInv /\ ReserveInv

-----------------------------------------------------------------------------
(* The machine.                                                            *)

\* A set of natural numbers has a smallest element.
LEMMA LeastOf ==
    ASSUME NEW S, S \subseteq Nat, S # {}
    PROVE  \E x \in S : \A y \in S : x <= y
  <1> DEFINE R == OpToRel(<, Nat)
  <1>1. \A x, y \in Nat : x < y => <<x, y>> \in R
    BY DEF OpToRel
  <1>2. IsWellFoundedOn(R, Nat)
    BY NatLessThanWellFounded
  <1> HIDE DEF R
  <1>3. PICK x \in S : \A y \in S : ~(<<y, x>> \in R)
    BY <1>2, WFMin
  <1>4. ASSUME NEW y \in S PROVE x <= y
    <2>1. x \in Nat /\ y \in Nat
      OBVIOUS
    <2>2. ~(y < x)
      BY <1>1, <1>3, <2>1
    <2> QED
      BY <2>1, <2>2
  <1> QED
    BY <1>4

\* g is what off has been after every file that is packed, from none of them to n.
Packs(g, s, n) == /\ g \in [0 .. n -> Nat] /\ g[0] = HEADERS
                  /\ \A i \in 1 .. n : g[i] = g[i - 1] + s[i]

\* There is such a function, whatever the files: the shortest sequence without one would
\* have one that is extended by its last file.
LEMMA PacksExists ==
    ASSUME NEW s \in Seq(Nat)
    PROVE  \E g : Packs(g, s, Len(s))
  <1> DEFINE Bad == {n \in 0 .. Len(s) : \A g : ~Packs(g, s, n)}
  <1>1. Len(s) \in Nat /\ \A i \in 1 .. Len(s) : s[i] \in Nat
    BY LenProperties, ElementOfSeq
  <1>2. ASSUME Bad # {} PROVE FALSE
    <2>1. Bad \subseteq Nat
      BY <1>1
    <2>2. PICK n \in Bad : \A k \in Bad : n <= k
      BY <1>2, <2>1, LeastOf
    <2>3. n \in 0 .. Len(s) /\ n \in Nat /\ \A g : ~Packs(g, s, n)
      BY <1>1
    <2>4. CASE n = 0
      <3> DEFINE g == [i \in 0 .. 0 |-> HEADERS]
      <3>1. g \in [0 .. 0 -> Nat] /\ g[0] = HEADERS
        BY DEF HEADERS
      <3>2. \A i \in 1 .. 0 : FALSE
        OBVIOUS
      <3> HIDE DEF g
      <3>3. Packs(g, s, n)
        BY <2>4, <3>1, <3>2 DEF Packs
      <3> QED
        BY <2>3, <3>3
    <2>5. CASE n > 0
      <3>1. n - 1 \in 0 .. Len(s) /\ ~(n <= n - 1)
        BY <1>1, <2>3, <2>5
      <3>2. PICK f : Packs(f, s, n - 1)
        BY <2>2, <3>1
      <3> DEFINE g == [i \in 0 .. n |-> IF i = n THEN f[n - 1] + s[n] ELSE f[i]]
      <3>3. /\ f \in [0 .. n - 1 -> Nat] /\ f[0] = HEADERS
            /\ \A i \in 1 .. n - 1 : f[i] = f[i - 1] + s[i]
        BY <3>2 DEF Packs
      <3>4. f[n - 1] \in Nat /\ s[n] \in Nat
        <4>1. n - 1 \in 0 .. n - 1 /\ n \in 1 .. Len(s)
          BY <1>1, <2>3, <2>5
        <4> QED
          BY <1>1, <3>3, <4>1
      <3>5. g \in [0 .. n -> Nat]
        <4> SUFFICES ASSUME NEW i \in 0 .. n, i # n PROVE f[i] \in Nat
          BY <3>4
        <4>1. i \in 0 .. n - 1
          BY <2>3
        <4> QED
          BY <3>3, <4>1
      <3>6. g[0] = HEADERS
        BY <2>3, <2>5, <3>3
      <3>7. ASSUME NEW i \in 1 .. n PROVE g[i] = g[i - 1] + s[i]
        <4>1. i \in 0 .. n /\ i - 1 \in 0 .. n /\ i - 1 # n
          BY <2>3
        <4>2. g[i - 1] = f[i - 1]
          BY <4>1
        <4>3. CASE i = n
          BY <4>1, <4>2, <4>3
        <4>4. CASE i # n
          <5>1. i \in 1 .. n - 1 /\ g[i] = f[i]
            BY <2>3, <4>1, <4>4
          <5> QED
            BY <3>3, <4>2, <5>1
        <4> QED
          BY <4>3, <4>4
      <3> HIDE DEF g
      <3>8. Packs(g, s, n)
        BY <3>5, <3>6, <3>7 DEF Packs
      <3> QED
        BY <2>3, <3>8
    <2> QED
      BY <2>3, <2>4, <2>5
  <1>3. Len(s) \in 0 .. Len(s)
    BY <1>1
  <1> QED
    BY <1>2, <1>3

\* put_to_ramdisk's off.
LEMMA OffPacks ==
    ASSUME NEW s \in Seq(Nat)
    PROVE  Packs(Off(s), s, Len(s))
  <1> DEFINE n == Len(s)
             LoopOf(g) == [i \in 0 .. n |-> IF i = 0 THEN HEADERS ELSE g[i - 1] + s[i]]
  <1>1. n \in Nat
    BY LenProperties
  <1>2. PICK g : Packs(g, s, n)
    BY PacksExists
  <1>3. /\ g \in [0 .. n -> Nat] /\ g[0] = HEADERS
        /\ \A i \in 1 .. n : g[i] = g[i - 1] + s[i]
    BY <1>2 DEF Packs
  <1>4. \A i \in 0 .. n : i = 0 \/ (i \in 1 .. n /\ i - 1 \in 0 .. n)
    BY <1>1
  <1>5. g = LoopOf(g)
    <2>1. \A i \in 0 .. n : g[i] = LoopOf(g)[i]
      BY <1>3, <1>4
    <2> QED
      BY <1>3, <2>1
  <1>6. Off(s) = CHOOSE f : f = LoopOf(f)
    BY DEF Off
  <1> DEFINE o == Off(s)
  <1>7. o = LoopOf(o)
    BY <1>5, <1>6, Zenon
  <1> HIDE DEF o
  <1>8. /\ DOMAIN o = 0 .. n
        /\ \A i \in 0 .. n : o[i] = IF i = 0 THEN HEADERS ELSE o[i - 1] + s[i]
    BY <1>7, Zenon
  <1> HIDE DEF n, LoopOf
  <1> DEFINE Bad == {i \in 0 .. n : o[i] # g[i]}
  <1>9. ASSUME Bad # {} PROVE FALSE
    <2>1. Bad \subseteq Nat
      BY <1>1
    <2>2. PICK i \in Bad : \A k \in Bad : i <= k
      BY <1>9, <2>1, LeastOf
    <2>3. i \in 0 .. n /\ o[i] # g[i]
      OBVIOUS
    <2>4. CASE i = 0
      BY <1>3, <1>8, <2>3, <2>4
    <2>5. CASE i \in 1 .. n /\ i - 1 \in 0 .. n
      <3>1. ~(i <= i - 1)
        BY <1>1, <2>5
      <3>2. o[i - 1] = g[i - 1]
        BY <2>2, <2>5, <3>1
      <3>3. i # 0
        BY <1>1, <2>5
      <3>4. o[i] = o[i - 1] + s[i]
        BY <1>8, <2>3, <3>3
      <3> QED
        BY <1>3, <2>3, <2>5, <3>2, <3>4
    <2> QED
      BY <1>4, <2>3, <2>4, <2>5
  <1>10. o = [i \in 0 .. n |-> o[i]]
    BY <1>7, <1>8 DEF LoopOf
  <1>11. o = g
    BY <1>3, <1>9, <1>10
  <1> QED
    BY <1>2, <1>11 DEF o, n

\* Files lie one behind the other.
LEMMA OffGrows ==
    ASSUME NEW s \in Seq(Nat), NEW i \in 0 .. Len(s), NEW j \in i .. Len(s)
    PROVE  Off(s)[i] \in Nat /\ Off(s)[j] \in Nat /\ Off(s)[i] <= Off(s)[j]
  <1> DEFINE n == Len(s)
             o == Off(s)
             Bad == {k \in i .. n : ~(o[i] <= o[k])}
  <1>1. n \in Nat /\ \A k \in 1 .. n : s[k] \in Nat
    BY LenProperties, ElementOfSeq
  <1>2. o \in [0 .. n -> Nat] /\ \A k \in 1 .. n : o[k] = o[k - 1] + s[k]
    BY OffPacks DEF Packs
  <1>3. i \in 0 .. n /\ j \in i .. n
    OBVIOUS
  <1> HIDE DEF n, o
  <1>4. ASSUME Bad # {} PROVE FALSE
    <2>1. Bad \subseteq Nat
      BY <1>1, <1>3
    <2>2. PICK k \in Bad : \A l \in Bad : k <= l
      BY <1>4, <2>1, LeastOf
    <2>3. k \in i .. n /\ ~(o[i] <= o[k]) /\ o[i] \in Nat
      BY <1>2, <1>3
    <2>4. k # i
      BY <2>3
    <2>5. k - 1 \in i .. n /\ k \in 1 .. n /\ k - 1 \in 0 .. n /\ k \in 0 .. n /\ ~(k <= k - 1)
      BY <1>1, <1>3, <2>3, <2>4
    <2>6. o[i] <= o[k - 1]
      BY <2>2, <2>5
    <2>7. o[k] = o[k - 1] + s[k] /\ s[k] \in Nat /\ o[k - 1] \in Nat
      BY <1>1, <1>2, <2>5
    <2> QED
      BY <2>3, <2>6, <2>7
  <1>5. i \in 0 .. n /\ j \in 0 .. n
    BY <1>1, <1>3
  <1>6. o[i] \in Nat /\ o[j] \in Nat /\ o[i] <= o[j]
    BY <1>2, <1>3, <1>4, <1>5
  <1> QED
    BY <1>6 DEF o

LEMMA MachineFacts ==
    ASSUME NEW m \in Machines
    PROVE  /\ m.kernel \in Nat \ {0} /\ m.upper \in Nat /\ m.files \in Seq(Nat)
           /\ m.location \in Nat /\ m.location % BLOCK_SIZE = 0
           /\ InitrdEnd(m) \in Nat /\ InitrdEnd(m) - m.location \in Nat
           /\ m.map \in Seq(Regions)
           /\ \A i \in 1 .. Len(m.map) : m.map[i] \in Regions
  <1>1. /\ m.kernel \in Nat \ {0} /\ m.upper \in Nat /\ m.files \in Seq(Nat)
        /\ m.location \in Nat /\ m.location % BLOCK_SIZE = 0
        /\ InitrdEnd(m) \in m.location + HEADERS .. K_ENTRY + m.upper * 1024
        /\ m.map \in Seq(Regions)
    BY MachineAssumption
  <1>2. InitrdEnd(m) \in Nat /\ InitrdEnd(m) - m.location \in Nat
    <2> DEFINE e == InitrdEnd(m)
    <2>1. /\ e \in m.location + HEADERS .. K_ENTRY + m.upper * 1024
          /\ m.location \in Nat /\ m.upper \in Nat
      BY <1>1
    <2> HIDE DEF e
    <2>2. e \in Nat /\ e - m.location \in Nat
      BY <2>1 DEF HEADERS, K_ENTRY
    <2> QED
      BY <2>2 DEF e
  <1>3. \A i \in 1 .. Len(m.map) : m.map[i] \in Regions
    BY <1>1, ElementOfSeq
  <1> QED
    BY <1>1, <1>2, <1>3

LEMMA CoveredFinite ==
    ASSUME NEW f \in Nat, NEW s \in Nat
    PROVE  /\ Covered(f, s) \subseteq Nat /\ IsFiniteSet(Covered(f, s))
           /\ Cardinality(Covered(f, s)) = s \div BLOCK_SIZE
  <1> DEFINE b == f + (s \div BLOCK_SIZE) - 1
  <1>1. b \in Int /\ f \in Int /\ s \div BLOCK_SIZE \in Nat
    BY DEF BLOCK_SIZE
  <1>2. Covered(f, s) = f .. b
    BY DEF Covered
  <1>3. (IF f > b THEN 0 ELSE b - f + 1) = s \div BLOCK_SIZE
    BY <1>1
  <1> HIDE DEF b
  <1>4. IsFiniteSet(f .. b) /\ Cardinality(f .. b) = IF f > b THEN 0 ELSE b - f + 1
    BY <1>1, FS_Interval
  <1> QED
    BY <1>1, <1>2, <1>3, <1>4

\* Blocks of regions are finitely many.
LEMMA RegionsFinite ==
    ASSUME NEW m \in Machines, NEW I, I \subseteq 1 .. Len(m.map)
    PROVE  LET U == UNION {Covered(m.map[i].frame, m.map[i].length) : i \in I}
           IN  IsFiniteSet(U) /\ U \subseteq Nat
  <1> DEFINE C == {Covered(m.map[i].frame, m.map[i].length) : i \in I}
             F == [i \in I |-> Covered(m.map[i].frame, m.map[i].length)]
  <1>1. Len(m.map) \in Nat
    BY MachineFacts, LenProperties
  <1>2. IsFiniteSet(1 .. Len(m.map))
    BY <1>1, FS_Interval
  <1>3. IsFiniteSet(I)
    BY <1>2, FS_Subset
  <1>4. C = Range(F)
    BY DEF Range
  <1>5. F \in Surjection(I, C)
    BY DEF Surjection
  <1>6. IsFiniteSet(C)
    BY <1>3, <1>5, FS_Surjection
  <1>7. \A T \in C : IsFiniteSet(T) /\ T \subseteq Nat
    <2> SUFFICES ASSUME NEW i \in I
                 PROVE  LET T == Covered(m.map[i].frame, m.map[i].length)
                        IN  IsFiniteSet(T) /\ T \subseteq Nat
      OBVIOUS
    <2>1. m.map[i] \in Regions
      BY MachineFacts
    <2>2. m.map[i].frame \in Nat /\ m.map[i].length \in Nat
      BY <2>1 DEF Regions
    <2> QED
      BY <2>2, CoveredFinite
  <1> HIDE DEF C
  <1>8. IsFiniteSet(UNION C)
    BY <1>6, <1>7, FS_UNION
  <1>9. UNION C \subseteq Nat
    BY <1>7
  <1> QED
    BY <1>8, <1>9 DEF C

LEMMA UsableFinite ==
    ASSUME NEW m \in Machines
    PROVE  /\ IsFiniteSet(UsableBlocks(m)) /\ UsableBlocks(m) \subseteq Nat
           /\ Cardinality(UsableBlocks(m)) \in Nat
           /\ Cardinality(UsableBlocks(m)) <= BlocksMax(m)
           /\ BlocksMax(m) \in Nat /\ BlocksMax(m) >= 8
  <1> DEFINE I == {j \in DOMAIN m.map : Usable(m.map[j])}
  <1>1. m.map \in Seq(Regions) /\ DOMAIN m.map = 1 .. Len(m.map)
    BY MachineFacts, LenProperties
  <1>2. IsFiniteSet(UsableBlocks(m)) /\ UsableBlocks(m) \subseteq Nat
    <2>1. I \subseteq 1 .. Len(m.map)
      BY <1>1
    <2> HIDE DEF I
    <2>2. UsableBlocks(m) = UNION {Covered(m.map[i].frame, m.map[i].length) : i \in I}
      BY DEF UsableBlocks, I
    <2> QED
      BY <2>1, <2>2, RegionsFinite
  <1>3. Cardinality(UsableBlocks(m)) \in Nat
    BY <1>2, FS_CardinalityType
  <1>4. Cardinality(UsableBlocks(m)) <= BlocksMax(m)
    BY MapAssumption
  <1>5. BlocksMax(m) \in Nat
    <2>1. m.upper \in Nat
      BY MachineFacts
    <2> QED
      BY <2>1 DEF BlocksMax, BLOCK_SIZE
  <1>6. PICK i \in DOMAIN m.map : Usable(m.map[i]) /\ m.map[i].length > SizePa(m) + SPARE
    BY MachineAssumption
  <1> DEFINE C == Covered(m.map[i].frame, m.map[i].length)
  <1>7. m.map[i].frame \in Nat /\ m.map[i].length \in Nat /\ m.kernel \in Nat
    <2>1. m.map[i] \in Regions
      BY <1>1, MachineFacts
    <2> QED
      BY <2>1, MachineFacts DEF Regions
  <1>8. m.map[i].length \div BLOCK_SIZE >= 8
    BY <1>6, <1>7 DEF SizePa, SPARE, BLOCK_SIZE
  <1>9. Cardinality(C) = m.map[i].length \div BLOCK_SIZE
    BY <1>7, CoveredFinite
  <1>10. C \subseteq UsableBlocks(m)
    BY <1>6 DEF UsableBlocks
  <1> HIDE DEF C
  <1>11. Cardinality(C) <= Cardinality(UsableBlocks(m))
    BY <1>2, <1>10, FS_Subset
  <1>12. Cardinality(C) \in Nat
    BY <1>7, <1>9 DEF BLOCK_SIZE
  <1>13. BlocksMax(m) >= 8
    BY <1>3, <1>4, <1>5, <1>8, <1>9, <1>11, <1>12
  <1> QED
    BY <1>2, <1>3, <1>4, <1>5, <1>13

LEMMA FreshFacts ==
    ASSUME NEW m \in Machines, NEW j \in BOOLEAN
    PROVE  /\ IsFiniteSet(FreshBits(m, j)) /\ FreshBits(m, j) \subseteq Nat
           /\ 0 \in FreshBits(m, j)
  <1> DEFINE n == BlocksMax(m)
             B == {b \in MappedBits(n) : b % 8 < 4}
             U == UNION {Covered(m.map[i].frame, m.map[i].length) : i \in DOMAIN m.map}
  <1>1. n \in Nat /\ n >= 8
    BY UsableFinite
  <1>2. MappedBits(n) \subseteq Nat /\ IsFiniteSet(MappedBits(n)) /\ 0 \in MappedBits(n)
    <2> HIDE DEF n
    <2> DEFINE k == 8 * MmapLen(n) - 1
    <2>1. k \in Int /\ 0 <= k
      BY <1>1 DEF MmapLen
    <2>2. MappedBits(n) = 0 .. k
      BY DEF MappedBits
    <2> HIDE DEF k
    <2>3. IsFiniteSet(0 .. k)
      BY <2>1, FS_Interval
    <2> QED
      BY <2>1, <2>2, <2>3
  <1> HIDE DEF n
  <1>3. IsFiniteSet(B) /\ B \subseteq Nat /\ 0 \in B
    <2>1. B \subseteq MappedBits(n) /\ B \subseteq Nat /\ 0 \in B
      BY <1>2
    <2> QED
      BY <1>2, <2>1, FS_Subset
  <1>4. IsFiniteSet(U) /\ U \subseteq Nat
    <2>1. DOMAIN m.map = 1 .. Len(m.map)
      BY MachineFacts, LenProperties
    <2> QED
      BY <2>1, RegionsFinite
  <1> DEFINE V == IF j THEN U \ MappedBits(n) ELSE {}
  <1>5. FreshBits(m, j) = B \cup V
    BY DEF FreshBits, n
  <1> HIDE DEF U, B
  <1>6. IsFiniteSet(V) /\ V \subseteq Nat
    <2>1. IsFiniteSet(U \ MappedBits(n))
      BY <1>4, FS_Difference
    <2> QED
      BY <1>4, <2>1, FS_EmptySet
  <1> HIDE DEF V
  <1>7. IsFiniteSet(B \cup V)
    BY <1>3, <1>6, FS_Union
  <1> QED
    BY <1>3, <1>5, <1>6, <1>7

-----------------------------------------------------------------------------
(* The bitmap.                                                             *)

\* Frames of a region that were set are covered by mem_deinit_region.
LEMMA WhollyCovered ==
    ASSUME NEW f \in Nat, NEW o \in Offsets, NEW s \in Nat, NEW frame \in Nat,
           LeavesNoneOut(o, s), Wholly(frame, f, o, s)
    PROVE  frame \in Covered(f, s)
  <1> DEFINE q == s \div 4096
             r == s % 4096
  <1>1. q \in Nat /\ r \in 0 .. 4095 /\ s = 4096 * q + r
    OBVIOUS
  <1>0. o \in 0 .. 4095
    BY DEF Offsets, BLOCK_SIZE
  <1>2. /\ s < 4096 \/ o + r < 4096
        /\ f <= frame /\ o <= (frame - f) * 4096 /\ (frame + 1 - f) * 4096 <= o + s
    BY DEF LeavesNoneOut, Wholly, BLOCK_SIZE
  <1>3. Covered(f, s) = f .. f + q - 1
    BY DEF Covered, BLOCK_SIZE
  <1> HIDE DEF q, r
  <1>4. frame <= f + q - 1
    BY <1>0, <1>1, <1>2
  <1> QED
    BY <1>1, <1>2, <1>3, <1>4

LEMMA RamdiskCovered ==
    ASSUME NEW m \in Machines
    PROVE  RamdiskFrames(m) \subseteq
               Covered(m.location \div BLOCK_SIZE, InitrdEnd(m) - m.location)
  <1> SUFFICES ASSUME NEW frame \in RamdiskFrames(m)
               PROVE  frame \in Covered(m.location \div BLOCK_SIZE, InitrdEnd(m) - m.location)
    OBVIOUS
  <1> DEFINE l == m.location
             s == InitrdEnd(m) - m.location
             f == l \div 4096
  <1>1. l \in Nat /\ l % 4096 = 0 /\ s \in Nat
    BY MachineFacts DEF BLOCK_SIZE
  <1>2. frame \in Nat /\ l <= frame * 4096 /\ (frame + 1) * 4096 <= l + s
    <2>1. frame \in Nat /\ Wholly(frame, 0, l, s)
      BY DEF RamdiskFrames
    <2> HIDE DEF l, s
    <2> QED
      BY <2>1 DEF Wholly, BLOCK_SIZE
  <1>3. Covered(m.location \div BLOCK_SIZE, InitrdEnd(m) - m.location) = Covered(f, s)
    BY DEF BLOCK_SIZE
  <1> HIDE DEF l, s
  <1>4. f \in Nat /\ l = 4096 * f
    BY <1>1
  <1> HIDE DEF f
  <1>5. Wholly(frame, f, 0, s)
    BY <1>1, <1>2, <1>4 DEF Wholly, BLOCK_SIZE
  <1>6. frame \in Covered(f, s)
    <2>1. 0 \in Offsets
      BY DEF Offsets, BLOCK_SIZE
    <2>2. LeavesNoneOut(0, s)
      BY <1>1 DEF LeavesNoneOut, BLOCK_SIZE
    <2> QED
      BY <1>1, <1>2, <1>4, <1>5, <2>1, <2>2, WhollyCovered
  <1> QED
    BY <1>3, <1>6

LEMMA KernelCovered ==
    ASSUME NEW m \in Machines
    PROVE  KernelFrames(m) \subseteq Covered(K_ENTRY \div BLOCK_SIZE, m.kernel \div 4)
  <1> SUFFICES ASSUME NEW frame \in KernelFrames(m)
               PROVE  frame \in Covered(K_ENTRY \div BLOCK_SIZE, m.kernel \div 4)
    OBVIOUS
  <1> DEFINE s == m.kernel \div 4
  <1>1. s \in Nat
    BY MachineFacts
  <1>2. frame \in Nat /\ Wholly(frame, 0, K_ENTRY, s)
    BY DEF KernelFrames
  <1>3. Covered(K_ENTRY \div BLOCK_SIZE, m.kernel \div 4) = Covered(256, s)
    <2>1. K_ENTRY \div BLOCK_SIZE = 256
      BY DEF K_ENTRY, BLOCK_SIZE
    <2> QED
      BY <2>1
  <1> HIDE DEF s
  <1>4. Wholly(frame, 256, 0, s)
    BY <1>1, <1>2 DEF Wholly, BLOCK_SIZE, K_ENTRY
  <1>5. frame \in Covered(256, s)
    <2>1. 0 \in Offsets /\ 256 \in Nat
      BY DEF Offsets, BLOCK_SIZE
    <2>2. LeavesNoneOut(0, s)
      BY <1>1 DEF LeavesNoneOut, BLOCK_SIZE
    <2> QED
      BY <1>1, <1>2, <1>4, <2>1, <2>2, WhollyCovered
  <1> QED
    BY <1>3, <1>5

LEMMA RegionCovered ==
    ASSUME NEW m \in Machines, NEW i \in 1 .. Len(m.map)
    PROVE  RegionFrames(m, i) \subseteq Covered(m.map[i].frame, m.map[i].length)
  <1> SUFFICES ASSUME NEW frame \in RegionFrames(m, i)
               PROVE  frame \in Covered(m.map[i].frame, m.map[i].length)
    OBVIOUS
  <1>1. m.map[i] \in Regions
    BY MachineFacts
  <1>2. m.map[i].frame \in Nat /\ m.map[i].offset \in Offsets /\ m.map[i].length \in Nat
    BY <1>1 DEF Regions
  <1>3. /\ frame \in Nat /\ LeavesNoneOut(m.map[i].offset, m.map[i].length)
        /\ Wholly(frame, m.map[i].frame, m.map[i].offset, m.map[i].length)
    BY DEF RegionFrames
  <1> QED
    BY <1>2, <1>3, WhollyCovered

\* What is subtracted from blocks_used is at most what it is.
LEMMA NeverNegative ==
    ASSUME NEW m \in Machines, NEW j \in BOOLEAN, NEW S, IsFiniteSet(S), NEW u \in Int,
           FreshBits(m, j) \ UsableBlocks(m) \subseteq S,
           BlocksMax(m) - u = Cardinality(FreshBits(m, j)) - Cardinality(S)
    PROVE  u \in Nat
  <1> DEFINE F == FreshBits(m, j)
             U == UsableBlocks(m)
  <1>1. IsFiniteSet(F) /\ IsFiniteSet(U) /\ Cardinality(U) <= BlocksMax(m) /\ BlocksMax(m) \in Nat
    BY FreshFacts, UsableFinite
  <1>2. BlocksMax(m) - u = Cardinality(F) - Cardinality(S) /\ F \ U \subseteq S
    OBVIOUS
  <1> HIDE DEF F, U
  <1>3. Cardinality(F \ U) = Cardinality(F) - Cardinality(F \cap U)
    BY <1>1, FS_Difference
  <1>4. Cardinality(F \ U) <= Cardinality(S)
    BY <1>2, FS_Subset
  <1>5. Cardinality(F \cap U) <= Cardinality(U)
    BY <1>1, FS_Intersection
  <1>6. IsFiniteSet(F \cap U) /\ IsFiniteSet(F \ U)
    BY <1>1, FS_Intersection, FS_Difference
  <1>7. /\ Cardinality(F) \in Nat /\ Cardinality(U) \in Nat /\ Cardinality(S) \in Nat
        /\ Cardinality(F \cap U) \in Nat /\ Cardinality(F \ U) \in Nat
    BY <1>1, <1>6, FS_CardinalityType
  <1> QED
    BY <1>1, <1>2, <1>3, <1>4, <1>5, <1>7

\* Where a bit behind the bitmap is.
LEMMA BehindNat ==
    ASSUME memory_map \in Nat, NEW S, S \subseteq Nat
    PROVE  Behind(S) \subseteq Nat
  <1>1. \A b \in S : memory_map + b \div 8 \in Nat
    <2> SUFFICES ASSUME NEW b \in S PROVE memory_map + b \div 8 \in Nat
      OBVIOUS
    <2>1. b \in Nat
      OBVIOUS
    <2> QED
      BY <2>1
  <1> QED
    BY <1>1 DEF Behind

\* mem_deinit_region
LEMMA Deinit ==
    ASSUME TypeOK, Counted, NEW f \in Nat, NEW s \in Nat, MemDeinitRegion(f, s),
           UNCHANGED <<machine, junk, memory_map, blocks_max, owned>>
    PROVE  /\ Counted' /\ bits \subseteq bits' /\ Covered(f, s) \subseteq bits'
           /\ bits' \subseteq Nat /\ blocks_used' \in Nat /\ stray' \subseteq Nat
  <1> DEFINE T == Covered(f, s) \ bits
  <1>1. /\ bits' = bits \cup T /\ blocks_used' = blocks_used + Cardinality(T)
        /\ stray' = stray \/ stray' = stray \cup Behind(T)
    BY DEF MemDeinitRegion
  <1>2. /\ machine \in Machines /\ junk \in BOOLEAN /\ memory_map \in Nat
        /\ blocks_used \in Nat /\ blocks_max \in Nat /\ bits \subseteq Nat /\ stray \subseteq Nat
    BY DEF TypeOK
  <1>3. IsFiniteSet(T) /\ T \subseteq Nat /\ T \cap bits = {}
    BY CoveredFinite, FS_Difference
  <1>4. Covered(f, s) \subseteq bits' /\ bits \subseteq bits'
    BY <1>1
  <1> HIDE DEF T
  <1>5. /\ IsFiniteSet(bits) /\ blocks_max = BlocksMax(machine)
        /\ blocks_max - blocks_used = Cardinality(Fresh) - Cardinality(bits)
        /\ Fresh \ UsableBlocks(machine) \subseteq bits \ owned
    BY DEF Counted, FreeMem
  <1>6. /\ IsFiniteSet(bits')
        /\ Cardinality(bits') = Cardinality(bits) + Cardinality(T) - Cardinality(bits \cap T)
    BY <1>1, <1>3, <1>5, FS_Union
  <1>7. Cardinality(bits \cap T) = 0
    BY <1>3, FS_EmptySet
  <1>8. /\ Cardinality(bits) \in Nat /\ Cardinality(T) \in Nat /\ Cardinality(Fresh) \in Nat
        /\ Cardinality(bits') \in Nat
    BY <1>2, <1>3, <1>5, <1>6, FS_CardinalityType, FreshFacts DEF Fresh
  <1>9. blocks_max' = blocks_max /\ Fresh' = Fresh /\ BlocksMax(machine)' = BlocksMax(machine)
        /\ UsableBlocks(machine)' = UsableBlocks(machine) /\ owned' = owned
    BY DEF Fresh
  <1>10. blocks_max' - blocks_used' = Cardinality(Fresh') - Cardinality(bits')
    BY <1>1, <1>2, <1>5, <1>6, <1>7, <1>8, <1>9
  <1>11. Counted'
    BY <1>4, <1>5, <1>6, <1>9, <1>10 DEF Counted, FreeMem
  <1>12. bits' \subseteq Nat /\ stray' \subseteq Nat
    BY <1>1, <1>2, <1>3, BehindNat
  <1>13. blocks_used' \in Nat
    BY <1>1, <1>2, <1>8
  <1> QED
    BY <1>4, <1>11, <1>12, <1>13

\* mem_init_region
LEMMA InitRegion ==
    ASSUME TypeOK, Counted, 0 \in bits, owned = {}, NEW f \in Nat \ {0}, NEW s \in Nat,
           Covered(f, s) \subseteq UsableBlocks(machine), MemInitRegion(f, s),
           UNCHANGED <<machine, junk, memory_map, blocks_max, owned>>
    PROVE  /\ Counted' /\ bits' = bits \ Covered(f, s) /\ 0 \in bits'
           /\ bits' \subseteq Nat /\ blocks_used' \in Nat /\ stray' \subseteq Nat
  <1> DEFINE T == bits \cap Covered(f, s)
  <1>1. /\ bits' = (bits \ T) \cup {0} /\ blocks_used' = blocks_used - Cardinality(T)
        /\ stray' = stray \/ stray' = stray \cup Behind(T)
    BY DEF MemInitRegion
  <1>2. /\ machine \in Machines /\ junk \in BOOLEAN /\ memory_map \in Nat
        /\ blocks_used \in Nat /\ blocks_max \in Nat /\ bits \subseteq Nat /\ stray \subseteq Nat
    BY DEF TypeOK
  <1>3. 0 \notin Covered(f, s)
    BY DEF Covered
  <1>4. bits' = bits \ T /\ bits' = bits \ Covered(f, s) /\ T \subseteq bits /\ 0 \in bits'
    BY <1>1, <1>3
  <1>5. /\ IsFiniteSet(bits) /\ blocks_max = BlocksMax(machine)
        /\ blocks_max - blocks_used = Cardinality(Fresh) - Cardinality(bits)
        /\ Fresh \ UsableBlocks(machine) \subseteq bits \ owned
    BY DEF Counted, FreeMem
  <1>6. Fresh \ UsableBlocks(machine) \subseteq bits'
    BY <1>4, <1>5
  <1>7. IsFiniteSet(T) /\ T \subseteq Nat
    BY <1>2, <1>4, <1>5, FS_Subset
  <1> HIDE DEF T
  <1>8. bits \cap T = T
    BY <1>4
  <1>9. IsFiniteSet(bits') /\ Cardinality(bits') = Cardinality(bits) - Cardinality(T)
    <2>1. /\ IsFiniteSet(bits \ T)
          /\ Cardinality(bits \ T) = Cardinality(bits) - Cardinality(bits \cap T)
      BY <1>5, FS_Difference
    <2> QED
      BY <1>4, <1>8, <2>1, Zenon
  <1>10. /\ Cardinality(bits) \in Nat /\ Cardinality(T) \in Nat /\ Cardinality(Fresh) \in Nat
         /\ Cardinality(bits') \in Nat
    BY <1>2, <1>5, <1>7, <1>9, FS_CardinalityType, FreshFacts DEF Fresh
  <1>11. blocks_max' = blocks_max /\ Fresh' = Fresh /\ BlocksMax(machine)' = BlocksMax(machine)
         /\ UsableBlocks(machine)' = UsableBlocks(machine) /\ owned' = {}
    BY DEF Fresh
  <1>12. blocks_max - blocks_used' = Cardinality(Fresh) - Cardinality(bits')
    BY <1>1, <1>2, <1>5, <1>9, <1>10
  <1>13. Counted'
    BY <1>5, <1>6, <1>9, <1>11, <1>12 DEF Counted, FreeMem
  <1>14. bits' \subseteq Nat /\ stray' \subseteq Nat
    BY <1>1, <1>2, <1>4, <1>7, BehindNat
  <1>15. blocks_used' \in Nat
    <2>1. blocks_used' \in Int
      BY <1>1, <1>2, <1>10
    <2> QED
      BY <1>2, <1>5, <1>6, <1>9, <1>12, <2>1, NeverNegative DEF Fresh
  <1> QED
    BY <1>4, <1>13, <1>14, <1>15

-----------------------------------------------------------------------------
(* The steps.                                                              *)

LEMMA InitMem == Init => MemInv
  <1> SUFFICES ASSUME Init PROVE MemInv
    OBVIOUS
  <1>1. machine \in Machines /\ todo = machine.map /\ pc = "verify" /\ owned = {}
    BY DEF Init
  <1>2. TypeOK
    BY DEF Init, TypeOK
  <1>3. todo \in Seq(Regions) /\ Len(todo) \in Nat
    BY <1>1, MachineFacts, LenProperties
  <1>4. Len(todo) <= Len(machine.map) /\ Done = 0
    BY <1>1, <1>3 DEF Done
  <1>5. TodoInv
    BY <1>1, <1>3, <1>4 DEF TodoInv
  <1> QED
    BY <1>1, <1>2, <1>5 DEF MemInv, CountInv, ReserveInv, Mapped

\* The steps before there is a bitmap.
LEMMA VerifyStep ==
    ASSUME MemInv, Verify
    PROVE  MemInv'
  <1>1. pc' \in {"initrd", "dead"} /\ UNCHANGED <<machine, todo, owned>>
    BY DEF Verify
  <1>2. TypeOK'
    BY DEF MemInv, TypeOK, Verify, ramdisk, frames, heap
  <1>3. Done' = Done
    BY <1>1 DEF Done
  <1>4. owned' = {} /\ Done = 0
    BY <1>1 DEF MemInv, TodoInv, Verify
  <1>5. TodoInv'
    BY <1>1, <1>3, <1>4 DEF MemInv, TodoInv
  <1> QED
    BY <1>1, <1>2, <1>5 DEF MemInv, CountInv, ReserveInv, Mapped

LEMMA InitrdStep ==
    ASSUME MemInv, InitrdInit
    PROVE  MemInv'
  <1>1. /\ pc = "initrd" /\ pc' = "pmem"
        /\ UNCHANGED <<machine, junk, memory_map, blocks_max, blocks_used, bits, todo, owned,
                       cell, kernel_mem, stray>>
    BY DEF InitrdInit, frames, heap
  <1>2. mem_unused' = InitrdEnd(machine) + 1 + NODE + NODE + NODE * Len(machine.files)
    BY DEF InitrdInit, Bump
  <1>3. machine \in Machines
    BY DEF MemInv, TypeOK
  <1>4. InitrdEnd(machine) \in Nat /\ Len(machine.files) \in Nat
    BY <1>3, MachineFacts, LenProperties
  <1>5. mem_unused' \in Nat
    BY <1>2, <1>4 DEF NODE
  <1>6. TypeOK'
    BY <1>1, <1>5 DEF MemInv, TypeOK
  <1>7. Done' = Done
    BY <1>1 DEF Done
  <1>8. TodoInv'
    BY <1>1, <1>7 DEF MemInv, TodoInv
  <1> QED
    BY <1>1, <1>6, <1>8 DEF MemInv, CountInv, ReserveInv, Mapped

LEMMA PmemStep ==
    ASSUME MemInv, PmemInit
    PROVE  MemInv'
  <1> DEFINE n == BlocksMax(machine)
  <1>1. /\ pc = "pmem" /\ pc' = "map" /\ blocks_max' = n /\ blocks_used' = n
        /\ memory_map' = mem_unused /\ mem_unused' = mem_unused + MmapLen(n)
        /\ bits' = FreshBits(machine, junk)
        /\ UNCHANGED <<machine, junk, todo, owned, cell, kernel_mem, stray>>
    BY DEF PmemInit, Bump, heap
  <1>2. machine \in Machines /\ junk \in BOOLEAN /\ mem_unused \in Nat /\ owned = {}
    BY <1>1 DEF MemInv, TypeOK, TodoInv
  <1>3. n \in Nat
    BY <1>2, UsableFinite
  <1> HIDE DEF n
  <1>4. mem_unused' \in Nat
    BY <1>1, <1>2, <1>3 DEF MmapLen
  <1>5. IsFiniteSet(Fresh) /\ Fresh \subseteq Nat /\ 0 \in Fresh
    BY <1>2, FreshFacts DEF Fresh
  <1>6. bits' = Fresh /\ Fresh' = Fresh /\ owned' = {}
    BY <1>1, <1>2 DEF Fresh
  <1>7. TypeOK'
    BY <1>1, <1>2, <1>3, <1>4, <1>5, <1>6 DEF MemInv, TypeOK
  <1>8. Done' = Done
    BY <1>1 DEF Done
  <1>9. TodoInv'
    BY <1>1, <1>6, <1>8 DEF MemInv, TodoInv
  <1>10. FreeMem' = Cardinality(Fresh') - Cardinality(bits')
    <2>1. Cardinality(Fresh) \in Nat
      BY <1>5, FS_CardinalityType
    <2>2. Cardinality(Fresh') = Cardinality(Fresh) /\ Cardinality(bits') = Cardinality(Fresh)
      BY <1>6
    <2>3. FreeMem' = 0
      BY <1>1, <1>3 DEF FreeMem
    <2> QED
      BY <2>1, <2>2, <2>3
  <1>11. blocks_max' = BlocksMax(machine)' /\ UsableBlocks(machine)' = UsableBlocks(machine)
    BY <1>1 DEF n
  <1>12. CountInv'
    BY <1>5, <1>6, <1>10, <1>11 DEF CountInv, Counted
  <1>13. Done' = 0
    BY <1>1, <1>8 DEF MemInv, TodoInv
  <1>14. ReserveInv'
    BY <1>1, <1>13 DEF ReserveInv
  <1> QED
    BY <1>7, <1>9, <1>12, <1>14 DEF MemInv

\* The region that is handled next.
LEMMA NextRegion ==
    ASSUME MemInv, Region
    PROVE  /\ Done \in Nat /\ Done + 1 \in 1 .. Len(machine.map) /\ Done' = Done + 1
           /\ Head(todo) = machine.map[Done + 1] /\ Head(todo) \in Regions
           /\ todo' \in Seq(Regions) /\ Len(todo') <= Len(machine.map)
           /\ \A j \in 1 .. Len(todo') : todo'[j] = machine.map[Done' + j]
           /\ pc' = "reserve" => Len(todo') = 0
  <1>1. todo # <<>> /\ todo' = Tail(todo) /\ machine' = machine
    BY DEF Region
  <1>2. /\ machine \in Machines /\ todo \in Seq(Regions) /\ Len(todo) <= Len(machine.map)
        /\ \A j \in 1 .. Len(todo) : todo[j] = machine.map[Done + j]
    BY DEF MemInv, TypeOK, TodoInv
  <1>3. /\ Len(todo) \in Nat /\ Len(todo) >= 1 /\ Head(todo) = todo[1]
        /\ todo' \in Seq(Regions) /\ Len(todo') = Len(todo) - 1
        /\ \A j \in 1 .. Len(todo') : todo'[j] = todo[j + 1]
    BY <1>1, <1>2, HeadTailProperties, EmptySeq, LenProperties
  <1>4. Len(machine.map) \in Nat
    BY <1>2, MachineFacts, LenProperties
  <1>5. /\ Done \in Nat /\ Done + 1 \in 1 .. Len(machine.map) /\ Done' = Done + 1
        /\ Len(todo') <= Len(machine.map)
    BY <1>1, <1>2, <1>3, <1>4 DEF Done
  <1>6. Head(todo) = machine.map[Done + 1]
    BY <1>2, <1>3
  <1>7. Head(todo) \in Regions
    BY <1>2, <1>5, <1>6, MachineFacts
  <1>8. ASSUME NEW j \in 1 .. Len(todo') PROVE todo'[j] = machine.map[Done' + j]
    <2>1. j + 1 \in 1 .. Len(todo) /\ Done + (j + 1) = Done' + j
      BY <1>3, <1>5
    <2>2. todo'[j] = todo[j + 1] /\ todo[j + 1] = machine.map[Done + (j + 1)]
      BY <1>2, <1>3, <2>1
    <2> QED
      BY <2>1, <2>2
  <1>9. pc' = "reserve" => Len(todo') = 0
    <2>1. pc = "map" /\ pc' = IF todo' = <<>> THEN "reserve" ELSE pc
      BY DEF Region
    <2>2. pc' = "reserve" => todo' = <<>>
      BY <2>1
    <2> QED
      BY <1>3, <2>2, EmptySeq
  <1> QED
    BY <1>3, <1>5, <1>6, <1>7, <1>8, <1>9

\* A usable region leaves the frames that other regions reserved before it.
LEMMA UsableSpares ==
    ASSUME NEW m \in Machines, NEW i \in 1 .. Len(m.map), Usable(m.map[i]),
           NEW j \in 1 .. i - 1
    PROVE  RegionFrames(m, j) \cap Covered(m.map[i].frame, m.map[i].length) = {}
  <1>1. i \in DOMAIN m.map
    BY MachineFacts, LenProperties
  <1>2. ~Usable(m.map[j]) =>
            \A frame \in Covered(m.map[i].frame, m.map[i].length) :
                ~Wholly(frame, m.map[j].frame, m.map[j].offset, m.map[j].length)
    BY <1>1, MapAssumption
  <1> QED
    BY <1>2 DEF RegionFrames

\* What the first usable region changes besides.
LEMMA HeapMade ==
    ASSUME MemInv, Region
    PROVE  mem_unused' \in Nat /\ (kernel_mem' = <<>> <=> cell' = <<>>)
  <1>1. mem_unused \in Nat /\ (kernel_mem = <<>> <=> cell = <<>>)
    BY DEF MemInv, TypeOK
  <1>2. CASE UNCHANGED <<mem_unused, heap>>
    BY <1>1, <1>2 DEF heap
  <1>3. CASE /\ cell' = Bump(mem_unused, MEM_T) /\ mem_unused' = cell'[2]
             /\ kernel_mem' = HeapOf(Head(todo))
    <2>1. mem_unused' = mem_unused + MEM_T
      BY <1>3 DEF Bump
    <2>2. cell' # <<>> /\ kernel_mem' # <<>>
      BY <1>3 DEF Bump, HeapOf
    <2> QED
      BY <1>1, <2>1, <2>2 DEF MEM_T
  <1> QED
    BY <1>2, <1>3 DEF Region

LEMMA RegionStep ==
    ASSUME MemInv, Region
    PROVE  MemInv'
  <1> DEFINE r == Head(todo)
             k == Done + 1
             C == Covered(r.frame, r.length)
  <1>1. /\ pc = "map" /\ pc' \in {"map", "reserve"}
        /\ UNCHANGED <<machine, junk, memory_map, blocks_max, owned>>
    BY DEF Region
  <1>2. /\ TypeOK /\ Counted /\ 0 \in bits /\ owned = {}
        /\ machine \in Machines
        /\ \A i \in 1 .. Done : RegionFrames(machine, i) \subseteq bits \ owned
    BY <1>1 DEF MemInv, TypeOK, TodoInv, CountInv, ReserveInv, Mapped
  <1>3. /\ Done \in Nat /\ k \in 1 .. Len(machine.map) /\ Done' = k
        /\ r = machine.map[k] /\ r \in Regions
    BY NextRegion
  <1>4. r.frame \in Nat /\ r.length \in Nat
    BY <1>3 DEF Regions
  <1>5. \A i \in 1 .. k : i = k \/ (i \in 1 .. Done /\ i \in 1 .. k - 1)
    BY <1>3
  <1>6. k \in DOMAIN machine.map
    BY <1>2, <1>3, MachineFacts, LenProperties
  <1> HIDE DEF r, k
  <1>7. /\ Counted' /\ bits' \subseteq Nat /\ blocks_used' \in Nat /\ stray' \subseteq Nat
        /\ 0 \in bits'
        /\ \A i \in 1 .. k : RegionFrames(machine, i) \subseteq bits'
    <2>1. CASE Usable(r)
      <3>1. MemInitRegion(r.frame, r.length)
        BY <2>1 DEF Region, r
      <3>2. r.frame \in Nat \ {0}
        <4>1. r.frame > 0
          BY <1>2, <1>3, <1>6, <2>1, MapAssumption
        <4> QED
          BY <1>4, <4>1
      <3>3. C \subseteq UsableBlocks(machine)
        BY <1>3, <1>6, <2>1 DEF UsableBlocks
      <3>4. /\ Counted' /\ bits' = bits \ C /\ 0 \in bits'
            /\ bits' \subseteq Nat /\ blocks_used' \in Nat /\ stray' \subseteq Nat
        BY <1>1, <1>2, <1>4, <3>1, <3>2, <3>3, InitRegion
      <3>5. ASSUME NEW i \in 1 .. k PROVE RegionFrames(machine, i) \subseteq bits'
        <4>1. CASE i = k
          BY <1>3, <2>1, <4>1 DEF RegionFrames
        <4>2. CASE i \in 1 .. Done /\ i \in 1 .. k - 1
          <5>1. RegionFrames(machine, i) \cap C = {}
            BY <1>2, <1>3, <2>1, <4>2, UsableSpares
          <5>2. RegionFrames(machine, i) \subseteq bits
            BY <1>2, <4>2
          <5> QED
            BY <3>4, <5>1, <5>2
        <4> QED
          BY <1>5, <4>1, <4>2
      <3> QED
        BY <3>4, <3>5
    <2>2. CASE ~Usable(r)
      <3>1. MemDeinitRegion(r.frame, r.length)
        BY <2>2 DEF Region, r
      <3>2. /\ Counted' /\ bits \subseteq bits' /\ C \subseteq bits'
            /\ bits' \subseteq Nat /\ blocks_used' \in Nat /\ stray' \subseteq Nat
        BY <1>1, <1>2, <1>4, <3>1, Deinit
      <3>3. ASSUME NEW i \in 1 .. k PROVE RegionFrames(machine, i) \subseteq bits'
        <4>1. CASE i = k
          BY <1>2, <1>3, <3>2, <4>1, RegionCovered
        <4>2. CASE i \in 1 .. Done
          BY <1>2, <3>2, <4>2
        <4> QED
          BY <1>5, <4>1, <4>2
      <3> QED
        BY <1>2, <3>2, <3>3
    <2> QED
      BY <2>1, <2>2
  <1>8. owned' = {} /\ blocks_max' \in Nat /\ memory_map' \in Nat /\ junk' \in BOOLEAN
    BY <1>1, <1>2 DEF TypeOK
  <1>9. TypeOK'
    <2>1. mem_unused' \in Nat /\ (kernel_mem' = <<>> <=> cell' = <<>>)
      BY HeapMade
    <2> QED
      BY <1>1, <1>2, <1>7, <1>8, <2>1 DEF TypeOK
  <1>10. TodoInv'
    <2>1. /\ todo' \in Seq(Regions) /\ Len(todo') <= Len(machine.map)
          /\ \A j \in 1 .. Len(todo') : todo'[j] = machine.map[Done' + j]
          /\ pc' = "reserve" => Len(todo') = 0
      BY NextRegion
    <2> QED
      BY <1>1, <1>8, <2>1 DEF TodoInv
  <1>11. CountInv' /\ ReserveInv'
    BY <1>1, <1>3, <1>7, <1>8 DEF CountInv, ReserveInv
  <1> QED
    BY <1>9, <1>10, <1>11 DEF MemInv

\* mem_deinit_region behind the memory map: what was reserved stays.
LEMMA ReserveStep ==
    ASSUME MemInv, NEW f \in Nat, NEW s \in Nat, MemDeinitRegion(f, s),
           pc \in {"reserve", "kernel"}, pc' \in {"kernel", "up"},
           UNCHANGED <<machine, junk, mem_unused, memory_map, blocks_max, todo, cell,
                       kernel_mem, owned>>
    PROVE  /\ TypeOK' /\ TodoInv' /\ CountInv' /\ owned' = {}
           /\ \A i \in 1 .. Done' : RegionFrames(machine', i) \subseteq bits'
           /\ pc = "kernel" => RamdiskFrames(machine) \subseteq bits'
           /\ Covered(f, s) \subseteq bits'
  <1>1. /\ TypeOK /\ Counted /\ owned = {}
        /\ \A i \in 1 .. Done : RegionFrames(machine, i) \subseteq bits \ owned
        /\ pc = "kernel" => RamdiskFrames(machine) \subseteq bits \ owned
    BY DEF MemInv, TodoInv, CountInv, ReserveInv, Mapped
  <1>2. /\ Counted' /\ bits \subseteq bits' /\ Covered(f, s) \subseteq bits'
        /\ bits' \subseteq Nat /\ blocks_used' \in Nat /\ stray' \subseteq Nat
    BY <1>1, Deinit
  <1>3. TypeOK'
    BY <1>1, <1>2 DEF TypeOK
  <1>4. Done' = Done
    BY DEF Done
  <1>5. TodoInv'
    BY <1>1, <1>4 DEF MemInv, TodoInv
  <1>6. CountInv'
    BY <1>2 DEF CountInv
  <1> QED
    BY <1>1, <1>2, <1>3, <1>4, <1>5, <1>6

LEMMA RamdiskStep ==
    ASSUME MemInv, ReserveRamdisk
    PROVE  MemInv'
  <1> DEFINE f == machine.location \div BLOCK_SIZE
             s == InitrdEnd(machine) - machine.location
  <1>1. /\ pc = "reserve" /\ pc' = "kernel" /\ MemDeinitRegion(f, s)
        /\ UNCHANGED <<machine, junk, mem_unused, memory_map, blocks_max, todo, cell,
                       kernel_mem, owned>>
    BY DEF ReserveRamdisk, heap
  <1>2. machine \in Machines
    BY DEF MemInv, TypeOK
  <1>3. f \in Nat /\ s \in Nat
    <2>1. machine.location \in Nat /\ s \in Nat
      BY <1>2, MachineFacts
    <2> HIDE DEF s
    <2> QED
      BY <2>1 DEF BLOCK_SIZE
  <1>4. RamdiskFrames(machine) \subseteq Covered(f, s)
    BY <1>2, RamdiskCovered
  <1> HIDE DEF f, s
  <1>5. /\ TypeOK' /\ TodoInv' /\ CountInv' /\ owned' = {}
        /\ \A i \in 1 .. Done' : RegionFrames(machine', i) \subseteq bits'
        /\ Covered(f, s) \subseteq bits'
    BY <1>1, <1>3, ReserveStep
  <1>6. RamdiskFrames(machine)' \subseteq bits'
    BY <1>1, <1>4, <1>5
  <1>7. ReserveInv'
    BY <1>1, <1>5, <1>6 DEF ReserveInv
  <1> QED
    BY <1>5, <1>7 DEF MemInv

LEMMA KernelStep ==
    ASSUME MemInv, ReserveKernel
    PROVE  MemInv'
  <1> DEFINE f == K_ENTRY \div BLOCK_SIZE
             s == machine.kernel \div 4
  <1>1. /\ pc = "kernel" /\ pc' = "up" /\ MemDeinitRegion(f, s)
        /\ UNCHANGED <<machine, junk, mem_unused, memory_map, blocks_max, todo, cell,
                       kernel_mem, owned>>
    BY DEF ReserveKernel, heap
  <1>2. machine \in Machines
    BY DEF MemInv, TypeOK
  <1>3. f \in Nat /\ s \in Nat
    <2>1. machine.kernel \in Nat
      BY <1>2, MachineFacts
    <2> QED
      BY <2>1 DEF BLOCK_SIZE, K_ENTRY
  <1>4. KernelFrames(machine) \subseteq Covered(f, s)
    BY <1>2, KernelCovered
  <1> HIDE DEF f, s
  <1>5. /\ TypeOK' /\ TodoInv' /\ CountInv' /\ owned' = {}
        /\ \A i \in 1 .. Done' : RegionFrames(machine', i) \subseteq bits'
        /\ RamdiskFrames(machine) \subseteq bits'
        /\ Covered(f, s) \subseteq bits'
    BY <1>1, <1>3, ReserveStep
  <1>6. RamdiskFrames(machine)' \subseteq bits' /\ KernelFrames(machine)' \subseteq bits'
    BY <1>1, <1>4, <1>5
  <1>7. ReserveInv'
    BY <1>1, <1>5, <1>6 DEF ReserveInv
  <1> QED
    BY <1>5, <1>7 DEF MemInv

-----------------------------------------------------------------------------
(* alloc_block and free_block.                                             *)

LEMMA SmallestOf ==
    ASSUME NEW S, S \subseteq Nat, S # {}
    PROVE  Min(S) \in S
  <1>1. PICK x \in S : \A y \in S : x <= y
    BY LeastOf
  <1> QED
    BY <1>1 DEF Min

\* Neither disturbs the frames that are set and not handed out.
LEMMA KeepsReserved ==
    ASSUME MemInv, pc = "up", pc' = "up",
           UNCHANGED <<machine, junk, mem_unused, memory_map, blocks_max, todo, cell,
                       kernel_mem, stray>>,
           bits' \ owned' = bits \ owned,
           bits' \subseteq Nat, owned' \subseteq bits', IsFiniteSet(bits'),
           blocks_used' \in Int, blocks_used' - blocks_used = Cardinality(bits') - Cardinality(bits)
    PROVE  MemInv'
  <1>1. /\ machine \in Machines /\ junk \in BOOLEAN /\ blocks_used \in Nat /\ blocks_max \in Nat
        /\ IsFiniteSet(bits) /\ blocks_max = BlocksMax(machine)
        /\ blocks_max - blocks_used = Cardinality(Fresh) - Cardinality(bits)
        /\ Fresh \ UsableBlocks(machine) \subseteq bits \ owned
    BY DEF MemInv, TypeOK, CountInv, Counted, Mapped, FreeMem
  <1>2. /\ blocks_max' = blocks_max /\ Fresh' = Fresh /\ BlocksMax(machine)' = BlocksMax(machine)
        /\ UsableBlocks(machine)' = UsableBlocks(machine)
    BY DEF Fresh
  <1>3. Cardinality(bits) \in Nat /\ Cardinality(bits') \in Nat /\ Cardinality(Fresh) \in Nat
    BY <1>1, FS_CardinalityType, FreshFacts DEF Fresh
  <1>4. blocks_max - blocks_used' = Cardinality(Fresh) - Cardinality(bits')
    BY <1>1, <1>3
  <1>5. blocks_used' \in Nat
    <2>1. Fresh \ UsableBlocks(machine) \subseteq bits'
      BY <1>1
    <2> QED
      BY <1>1, <1>4, <2>1, NeverNegative DEF Fresh
  <1>6. Counted'
    BY <1>1, <1>2, <1>4 DEF Counted, FreeMem
  <1>7. TypeOK'
    BY <1>5 DEF MemInv, TypeOK
  <1>8. Done' = Done
    BY DEF Done
  <1>9. TodoInv'
    BY <1>8 DEF MemInv, TodoInv
  <1>10. ReserveInv'
    <2>1. /\ \A i \in 1 .. Done : RegionFrames(machine, i) \subseteq bits \ owned
          /\ RamdiskFrames(machine) \subseteq bits \ owned
          /\ KernelFrames(machine) \subseteq bits \ owned
      BY DEF MemInv, ReserveInv, Mapped
    <2> QED
      BY <1>8, <2>1 DEF ReserveInv
  <1> QED
    BY <1>6, <1>7, <1>9, <1>10 DEF MemInv, CountInv

LEMMA AllocStep ==
    ASSUME MemInv, AllocBlock
    PROVE  MemInv'
  <1>0. /\ pc = "up"
        /\ UNCHANGED <<machine, junk, mem_unused, memory_map, blocks_max, todo, cell,
                       kernel_mem, stray>>
    BY DEF AllocBlock, heap
  <1>1. CASE blocks_used >= blocks_max \/ FreeFrames = {}
    <2>1. pc' = "dead" /\ UNCHANGED <<blocks_used, bits, owned>>
      BY <1>1 DEF AllocBlock
    <2>2. TypeOK'
      BY <1>0, <2>1 DEF MemInv, TypeOK
    <2>3. Done' = Done
      BY <1>0 DEF Done
    <2>4. TodoInv'
      BY <1>0, <2>1, <2>3 DEF MemInv, TodoInv
    <2> QED
      BY <2>1, <2>2, <2>4 DEF MemInv, CountInv, ReserveInv, Mapped
  <1>2. CASE ~(blocks_used >= blocks_max \/ FreeFrames = {})
    <2> DEFINE frame == Min(FreeFrames)
    <2>1. /\ bits' = bits \cup {frame} /\ blocks_used' = blocks_used + 1
          /\ owned' = owned \cup {frame} /\ pc' = pc
      BY <1>2 DEF AllocBlock, MmapSet
    <2>2. /\ bits \subseteq Nat /\ owned \subseteq bits /\ blocks_used \in Nat /\ blocks_max \in Nat
          /\ IsFiniteSet(bits)
      BY <1>0 DEF MemInv, TypeOK, CountInv, Counted, Mapped
    <2>3. FreeFrames \subseteq Nat /\ FreeFrames # {} /\ FreeFrames \cap bits = {}
      <3>1. \A b \in 0 .. 32 * (blocks_max \div 32) - 1 : b \in Nat
        BY <2>2
      <3> QED
        BY <1>2, <3>1 DEF FreeFrames
    <2>4. frame \in FreeFrames
      BY <2>3, SmallestOf
    <2> HIDE DEF frame
    <2>5. frame \in Nat /\ frame \notin bits
      BY <2>3, <2>4
    <2>6. IsFiniteSet(bits') /\ Cardinality(bits') = Cardinality(bits) + 1
      BY <2>1, <2>2, <2>5, FS_AddElement
    <2>7. bits' \ owned' = bits \ owned /\ bits' \subseteq Nat /\ owned' \subseteq bits'
      BY <2>1, <2>2, <2>5
    <2>8. /\ blocks_used' \in Int
          /\ blocks_used' - blocks_used = Cardinality(bits') - Cardinality(bits)
      <3>1. Cardinality(bits) \in Nat
        BY <2>2, FS_CardinalityType
      <3> QED
        BY <2>1, <2>2, <2>6, <3>1
    <2> QED
      BY <1>0, <2>1, <2>6, <2>7, <2>8, KeepsReserved
  <1> QED
    BY <1>1, <1>2

LEMMA FreeStep ==
    ASSUME MemInv, NEW frame \in owned, FreeBlock(frame)
    PROVE  MemInv'
  <1>1. /\ pc = "up" /\ pc' = pc
        /\ bits' = bits \ {frame} /\ blocks_used' = blocks_used - 1 /\ owned' = owned \ {frame}
        /\ UNCHANGED <<machine, junk, mem_unused, memory_map, blocks_max, todo, cell,
                       kernel_mem, stray>>
    BY DEF FreeBlock, MmapUnset, heap
  <1>2. /\ bits \subseteq Nat /\ owned \subseteq bits /\ blocks_used \in Nat /\ IsFiniteSet(bits)
    BY <1>1 DEF MemInv, TypeOK, CountInv, Counted, Mapped
  <1>3. IsFiniteSet(bits') /\ Cardinality(bits') = Cardinality(bits) - 1
    BY <1>1, <1>2, FS_RemoveElement
  <1>4. bits' \ owned' = bits \ owned /\ bits' \subseteq Nat /\ owned' \subseteq bits'
    BY <1>1, <1>2
  <1>5. /\ blocks_used' \in Int
        /\ blocks_used' - blocks_used = Cardinality(bits') - Cardinality(bits)
    <2>1. Cardinality(bits) \in Nat
      BY <1>2, FS_CardinalityType
    <2> QED
      BY <1>1, <1>2, <1>3, <2>1
  <1> QED
    BY <1>1, <1>3, <1>4, <1>5, KeepsReserved

-----------------------------------------------------------------------------
(* The theorems.                                                           *)

LEMMA MemInvariance == Spec => []MemInv
  <1>1. Init => MemInv
    BY InitMem
  <1>2. MemInv /\ [Next]_vars => MemInv'
    <2> SUFFICES ASSUME MemInv, [Next]_vars PROVE MemInv'
      OBVIOUS
    <2>1. CASE UNCHANGED vars
      <3>1. UNCHANGED <<machine, junk, pc, mem_unused, memory_map, blocks_max, blocks_used, bits,
                        todo, cell, kernel_mem, stray, owned>>
        BY <2>1 DEF vars, frames, heap
      <3>2. Fresh' = Fresh /\ Done' = Done /\ FreeMem' = FreeMem
        BY <3>1 DEF Fresh, Done, FreeMem
      <3>3. TypeOK' /\ TodoInv'
        BY <3>1, <3>2 DEF MemInv, TypeOK, TodoInv
      <3>4. CountInv' /\ ReserveInv'
        BY <3>1, <3>2 DEF MemInv, CountInv, Counted, ReserveInv
      <3> QED
        BY <3>3, <3>4 DEF MemInv
    <2>2. CASE Verify
      BY <2>2, VerifyStep
    <2>3. CASE InitrdInit
      BY <2>3, InitrdStep
    <2>4. CASE PmemInit
      BY <2>4, PmemStep
    <2>5. CASE Region
      BY <2>5, RegionStep
    <2>6. CASE ReserveRamdisk
      BY <2>6, RamdiskStep
    <2>7. CASE ReserveKernel
      BY <2>7, KernelStep
    <2>8. CASE AllocBlock
      BY <2>8, AllocStep
    <2>9. CASE \E frame \in owned : FreeBlock(frame)
      BY <2>9, FreeStep
    <2> QED
      BY <2>1, <2>2, <2>3, <2>4, <2>5, <2>6, <2>7, <2>8, <2>9 DEF Next
  <1> QED
    BY <1>1, <1>2, PTL DEF Spec

\* In every reachable state of kmain's memory set-up the variables have their types: in
\* particular blocks_used, which mem_init_region and free_block count down (mem.h:46, 114),
\* never falls below 0, and no frame that is handed out is marked free.
THEOREM PhysMemTypeCorrect == Spec => []TypeOK
  <1>1. MemInv => TypeOK
    BY DEF MemInv
  <1> QED
    BY <1>1, MemInvariance, PTL

\* From pmem_init on blocks_used moves with the number of set bits, through every region,
\* reservation, alloc_block and free_block.
THEOREM UsedAlwaysFollowsBits == Spec => []UsedFollowsBits
  <1>1. MemInv => UsedFollowsBits
    <2> SUFFICES ASSUME MemInv, pc \notin {"verify", "initrd", "pmem", "dead"}
                 PROVE  FreeMem = Cardinality(Fresh) - Cardinality(bits)
      BY DEF UsedFollowsBits, Fresh
    <2>1. pc \in Mapped
      BY DEF MemInv, TypeOK, Mapped
    <2> QED
      BY <2>1 DEF MemInv, CountInv, Counted
  <1> QED
    BY <1>1, MemInvariance, PTL

\* Frames of the ramdisk, of the quarter of the kernel that kmain reserves and of the
\* regions that are not usable stay set, however often alloc_block and free_block are
\* called, and are never handed out.
THEOREM ReservedFramesAlwaysStay == Spec => []ReservedFramesStay
  <1>1. MemInv => ReservedFramesStay
    <2> SUFFICES ASSUME MemInv, pc = "up", NEW frame \in 0 .. blocks_max - 1, Reserved(frame)
                 PROVE  frame \in bits \ owned
      BY DEF ReservedFramesStay
    <2>1. /\ \A i \in 1 .. Done : RegionFrames(machine, i) \subseteq bits \ owned
          /\ RamdiskFrames(machine) \subseteq bits \ owned
          /\ KernelFrames(machine) \subseteq bits \ owned
          /\ machine \in Machines /\ Len(todo) = 0 /\ blocks_max \in Nat
      BY DEF MemInv, TypeOK, TodoInv, ReserveInv, Mapped
    <2>2. DOMAIN machine.map = 1 .. Len(machine.map) /\ Len(machine.map) \in Nat
      BY <2>1, MachineFacts, LenProperties
    <2>3. Done = Len(machine.map)
      BY <2>1, <2>2 DEF Done
    <2>4. frame \in Nat
      BY <2>1
    <2>5. CASE Wholly(frame, 0, machine.location, InitrdEnd(machine) - machine.location)
      BY <2>1, <2>4, <2>5 DEF RamdiskFrames
    <2>6. CASE Wholly(frame, 0, K_ENTRY, machine.kernel \div 4)
      BY <2>1, <2>4, <2>6 DEF KernelFrames
    <2>7. CASE \E i \in DOMAIN machine.map : frame \in RegionFrames(machine, i)
      BY <2>1, <2>2, <2>3, <2>7
    <2> QED
      BY <2>4, <2>5, <2>6, <2>7 DEF Reserved, RegionFrames
  <1> QED
    BY <1>1, MemInvariance, PTL
-----------------------------------------------------------------------------
(* What is where.  Every area is described by the machine alone; the       *)
(* areas are shown to ascend one part of Areas at a time.                  *)

NodesEnd(m) == InitrdEnd(m) + 1 + NODE + NODE + NODE * Len(m.files)

NodesOf(m) ==
    LET e == InitrdEnd(m) + 1
    IN  <<<<e, e + NODE>>, <<e + NODE, e + NODE + NODE>>,
          <<e + NODE + NODE, e + NODE + NODE + NODE * Len(m.files)>>>>

OffsetsOf(m) == [i \in DOMAIN m.files |-> PackedAt(m, i) + m.location]

\* The bitmap's end, where kernel_mem is put.
MapEnd(m) == NodesEnd(m) + MmapLen(BlocksMax(m))

FirstUsable(m, i) == Usable(m.map[i]) /\ \A j \in 1 .. i - 1 : ~Usable(m.map[j])

RamdiskPlaced == nodes = NodesOf(machine) /\ offsets = OffsetsOf(machine)

MapPlaced == memory_map = NodesEnd(machine) /\ blocks_max = BlocksMax(machine)

\* kernel_mem is the last thing that is put behind the ramdisk, and the heap is made in
\* the first usable region.
HeapPlaced == /\ RamdiskPlaced /\ MapPlaced
              /\ cell = <<MapEnd(machine), MapEnd(machine) + MEM_T>>
              /\ \E i \in 1 .. Len(machine.map) :
                    FirstUsable(machine, i) /\ kernel_mem = HeapOf(machine.map[i])

LayoutInv ==
    /\ pc \in {"verify", "initrd", "pmem"} => cell = <<>>
    /\ pc = "pmem" => RamdiskPlaced /\ mem_unused = NodesEnd(machine)
    /\ pc \in Mapped => RamdiskPlaced /\ MapPlaced
    /\ (pc \in Mapped /\ cell = <<>>) =>
            /\ mem_unused = MapEnd(machine)
            /\ \A j \in 1 .. Done : ~Usable(machine.map[j])
    /\ cell # <<>> => HeapPlaced

\* Steps that allocate nothing.
LEMMA LayoutKept ==
    ASSUME LayoutInv,
           UNCHANGED <<machine, mem_unused, nodes, offsets, memory_map, blocks_max, cell,
                       kernel_mem, todo>>,
           \/ pc' = pc
           \/ pc = "verify" /\ pc' \in {"initrd", "dead"}
           \/ pc \in Mapped /\ pc' \in {"kernel", "up", "dead"}
    PROVE  LayoutInv'
  <1>1. /\ Done' = Done /\ (RamdiskPlaced' <=> RamdiskPlaced) /\ (MapPlaced' <=> MapPlaced)
        /\ (HeapPlaced' <=> HeapPlaced)
    BY DEF Done, RamdiskPlaced, MapPlaced, HeapPlaced, HeapOf
  <1>2. NodesEnd(machine)' = NodesEnd(machine) /\ MapEnd(machine)' = MapEnd(machine)
    OBVIOUS
  <1> QED
    BY <1>1, <1>2 DEF LayoutInv, Mapped

LEMMA InitrdLayout ==
    ASSUME LayoutInv, InitrdInit
    PROVE  LayoutInv'
  <1>1. pc' = "pmem" /\ machine' = machine /\ cell' = <<>>
    BY DEF LayoutInv, InitrdInit, heap
  <1>2. /\ nodes' = NodesOf(machine) /\ offsets' = OffsetsOf(machine)
        /\ mem_unused' = NodesEnd(machine)
    BY DEF InitrdInit, Bump, NodesOf, NodesEnd, OffsetsOf
  <1>3. RamdiskPlaced' /\ mem_unused' = NodesEnd(machine')
    BY <1>1, <1>2 DEF RamdiskPlaced
  <1> QED
    BY <1>1, <1>3 DEF LayoutInv, Mapped

LEMMA PmemLayout ==
    ASSUME MemInv, LayoutInv, PmemInit
    PROVE  LayoutInv'
  <1>1. /\ pc = "pmem" /\ pc' = "map" /\ UNCHANGED <<machine, nodes, offsets, todo, cell>>
        /\ memory_map' = mem_unused /\ blocks_max' = BlocksMax(machine)
        /\ mem_unused' = mem_unused + MmapLen(BlocksMax(machine))
    BY DEF PmemInit, Bump, ramdisk, heap
  <1>2. cell = <<>> /\ RamdiskPlaced /\ mem_unused = NodesEnd(machine)
    BY <1>1 DEF LayoutInv
  <1>3. RamdiskPlaced' /\ MapPlaced' /\ mem_unused' = MapEnd(machine)'
    BY <1>1, <1>2 DEF RamdiskPlaced, MapPlaced, MapEnd
  <1>4. Done' = 0
    BY <1>1 DEF MemInv, TodoInv, Done
  <1>5. \A j \in 1 .. 0 : FALSE
    OBVIOUS
  <1> QED
    BY <1>1, <1>2, <1>3, <1>4, <1>5 DEF LayoutInv

LEMMA RegionLayout ==
    ASSUME MemInv, LayoutInv, Region
    PROVE  LayoutInv'
  <1> DEFINE r == Head(todo)
  <1>1. /\ pc = "map" /\ pc' \in {"map", "reserve"}
        /\ UNCHANGED <<machine, nodes, offsets, memory_map, blocks_max>>
    BY DEF Region, ramdisk
  <1>2. RamdiskPlaced /\ MapPlaced
    BY <1>1 DEF LayoutInv, Mapped
  <1>3. RamdiskPlaced' /\ MapPlaced'
    BY <1>1, <1>2 DEF RamdiskPlaced, MapPlaced
  <1>4. /\ Done \in Nat /\ Done + 1 \in 1 .. Len(machine.map) /\ Done' = Done + 1
        /\ r = machine.map[Done + 1]
    BY NextRegion
  <1>5. \A j \in 1 .. Done + 1 : j \in 1 .. Done \/ j = Done + 1
    BY <1>4
  <1> HIDE DEF r
  <1>6. CASE Usable(r) /\ cell = <<>>
    <2>1. /\ cell' = <<mem_unused, mem_unused + MEM_T>> /\ kernel_mem' = HeapOf(r)
      BY <1>6 DEF Region, Bump, r
    <2>2. mem_unused = MapEnd(machine) /\ \A j \in 1 .. Done : ~Usable(machine.map[j])
      BY <1>1, <1>6 DEF LayoutInv, Mapped
    <2>3. (Done + 1) - 1 = Done
      BY <1>4
    <2>4. FirstUsable(machine, Done + 1)
      BY <1>4, <1>6, <2>2, <2>3 DEF FirstUsable
    <2>5. PICK k \in 1 .. Len(machine.map) : k = Done + 1
      BY <1>4
    <2>6. \E i \in 1 .. Len(machine'.map) :
             FirstUsable(machine', i) /\ kernel_mem' = HeapOf(machine.map[i])'
      <3>1. FirstUsable(machine', k)
        BY <1>1, <2>4, <2>5
      <3>2. kernel_mem' = HeapOf(machine.map[k])'
        BY <1>1, <1>4, <2>1, <2>5 DEF HeapOf
      <3> QED
        BY <1>1, <3>1, <3>2
    <2>7. HeapPlaced'
      BY <1>1, <1>3, <2>1, <2>2, <2>6 DEF HeapPlaced
    <2>8. cell' # <<>>
      BY <2>1
    <2> QED
      BY <1>1, <1>3, <2>7, <2>8 DEF LayoutInv
  <1>7. CASE ~(Usable(r) /\ cell = <<>>)
    <2>1. UNCHANGED <<mem_unused, cell, kernel_mem>>
      BY <1>7 DEF Region, heap, r
    <2>2. CASE cell = <<>>
      <3>1. \A j \in 1 .. Done' : ~Usable(machine'.map[j])
        BY <1>1, <1>4, <1>5, <1>7, <2>2 DEF LayoutInv, Mapped
      <3>2. mem_unused' = MapEnd(machine')
        BY <1>1, <2>1, <2>2 DEF LayoutInv, Mapped
      <3> QED
        BY <1>1, <1>3, <2>1, <2>2, <3>1, <3>2 DEF LayoutInv
    <2>3. CASE cell # <<>>
      <3>1. HeapPlaced
        BY <2>3 DEF LayoutInv
      <3>2. HeapPlaced'
        BY <1>1, <1>3, <2>1, <3>1 DEF HeapPlaced, HeapOf
      <3> QED
        BY <1>1, <1>3, <2>1, <2>3, <3>2 DEF LayoutInv
    <2> QED
      BY <2>2, <2>3
  <1> QED
    BY <1>6, <1>7

LEMMA LayoutInvariance == Spec => []LayoutInv
  <1>1. Init => LayoutInv
    BY DEF Init, LayoutInv, Mapped
  <1>2. MemInv /\ LayoutInv /\ [Next]_vars => LayoutInv'
    <2> SUFFICES ASSUME MemInv, LayoutInv, [Next]_vars PROVE LayoutInv'
      OBVIOUS
    <2>1. CASE UNCHANGED vars
      BY <2>1, LayoutKept DEF vars, ramdisk, frames, heap
    <2>2. CASE Verify
      BY <2>2, LayoutKept DEF Verify, ramdisk, frames, heap
    <2>3. CASE InitrdInit
      BY <2>3, InitrdLayout
    <2>4. CASE PmemInit
      BY <2>4, PmemLayout
    <2>5. CASE Region
      BY <2>5, RegionLayout
    <2>6. CASE ReserveRamdisk
      <3>1. /\ pc = "reserve" /\ pc' = "kernel"
            /\ UNCHANGED <<machine, mem_unused, nodes, offsets, memory_map, blocks_max, cell,
                           kernel_mem, todo>>
        BY <2>6 DEF ReserveRamdisk, ramdisk, heap
      <3> QED
        BY <3>1, LayoutKept DEF Mapped
    <2>7. CASE ReserveKernel
      <3>1. /\ pc = "kernel" /\ pc' = "up"
            /\ UNCHANGED <<machine, mem_unused, nodes, offsets, memory_map, blocks_max, cell,
                           kernel_mem, todo>>
        BY <2>7 DEF ReserveKernel, ramdisk, heap
      <3> QED
        BY <3>1, LayoutKept DEF Mapped
    <2>8. CASE AllocBlock
      <3>1. /\ pc = "up" /\ pc' \in {"up", "dead"}
            /\ UNCHANGED <<machine, mem_unused, nodes, offsets, memory_map, blocks_max, cell,
                           kernel_mem, todo>>
        BY <2>8 DEF AllocBlock, ramdisk, heap
      <3> QED
        BY <3>1, LayoutKept DEF Mapped
    <2>9. CASE \E frame \in owned : FreeBlock(frame)
      BY <2>9, LayoutKept DEF FreeBlock, ramdisk, heap
    <2> QED
      BY <2>1, <2>2, <2>3, <2>4, <2>5, <2>6, <2>7, <2>8, <2>9 DEF Next
  <1> QED
    BY <1>1, <1>2, MemInvariance, PTL DEF Spec
\* Areas that ascend from a to b.
Ascends(s, a, b) ==
    /\ s \in Seq(Nat \X Nat)
    /\ \A i \in 1 .. Len(s) : a <= s[i][1] /\ s[i][1] <= s[i][2] /\ s[i][2] <= b
    /\ \A i, j \in 1 .. Len(s) : i < j => s[i][2] <= s[j][1]

LEMMA AscendsConcat ==
    ASSUME NEW s, NEW t, NEW a \in Nat, NEW b \in Nat, NEW c \in Nat, a <= b, b <= c,
           Ascends(s, a, b), Ascends(t, b, c)
    PROVE  Ascends(s \o t, a, c)
  <1> DEFINE u == s \o t
             k == Len(s)
             l == Len(t)
  <1>1. s \in Seq(Nat \X Nat) /\ t \in Seq(Nat \X Nat)
    BY DEF Ascends
  <1>2. /\ u \in Seq(Nat \X Nat) /\ Len(u) = k + l /\ k \in Nat /\ l \in Nat
        /\ \A i \in 1 .. k + l : u[i] = IF i <= k THEN s[i] ELSE t[i - k]
    BY <1>1, ConcatProperties, LenProperties
  <1>3. \A i \in 1 .. k : s[i] \in Nat \X Nat
    BY <1>1, ElementOfSeq
  <1>4. \A i \in 1 .. l : t[i] \in Nat \X Nat
    BY <1>1, ElementOfSeq
  <1>5. /\ \A i \in 1 .. k : a <= s[i][1] /\ s[i][1] <= s[i][2] /\ s[i][2] <= b
        /\ \A i, j \in 1 .. k : i < j => s[i][2] <= s[j][1]
        /\ \A i \in 1 .. l : b <= t[i][1] /\ t[i][1] <= t[i][2] /\ t[i][2] <= c
        /\ \A i, j \in 1 .. l : i < j => t[i][2] <= t[j][1]
    BY DEF Ascends
  <1> HIDE DEF k, l, u
  <1>6. ASSUME NEW i \in 1 .. k + l
        PROVE  \/ i <= k /\ i \in 1 .. k /\ u[i] = s[i]
               \/ i > k /\ i - k \in 1 .. l /\ u[i] = t[i - k]
    BY <1>2
  <1>7. ASSUME NEW x \in Nat \X Nat PROVE x[1] \in Nat /\ x[2] \in Nat
    OBVIOUS
  <1>8. ASSUME NEW i \in 1 .. k + l PROVE a <= u[i][1] /\ u[i][1] <= u[i][2] /\ u[i][2] <= c
    <2>1. CASE i \in 1 .. k /\ u[i] = s[i]
      <3>1. s[i][1] \in Nat /\ s[i][2] \in Nat
        BY <1>3, <1>7, <2>1
      <3> QED
        BY <1>5, <2>1, <3>1
    <2>2. CASE i - k \in 1 .. l /\ u[i] = t[i - k]
      <3>1. t[i - k][1] \in Nat /\ t[i - k][2] \in Nat
        BY <1>4, <1>7, <2>2
      <3> QED
        BY <1>5, <2>2, <3>1
    <2> QED
      BY <1>6, <2>1, <2>2
  <1>9. ASSUME NEW i \in 1 .. k + l, NEW j \in 1 .. k + l, i < j PROVE u[i][2] <= u[j][1]
    <2>1. CASE j \in 1 .. k /\ u[j] = s[j]
      <3>1. i \in 1 .. k /\ i <= k
        BY <1>2, <1>9, <2>1
      <3>2. u[i] = s[i]
        BY <1>2, <3>1
      <3> QED
        BY <1>5, <1>9, <2>1, <3>1, <3>2
    <2>2. CASE i > k /\ i - k \in 1 .. l /\ u[i] = t[i - k]
      <3>0. k \in Nat /\ l \in Nat
        BY <1>2
      <3>1. j - k \in 1 .. l /\ i - k < j - k /\ ~(j <= k)
        BY <1>9, <2>2, <3>0
      <3>2. u[j] = t[j - k]
        BY <1>2, <3>1
      <3> QED
        BY <1>5, <2>2, <3>1, <3>2
    <2>3. CASE i \in 1 .. k /\ u[i] = s[i] /\ j - k \in 1 .. l /\ u[j] = t[j - k]
      <3>1. s[i][2] \in Nat /\ t[j - k][1] \in Nat
        BY <1>3, <1>4, <1>7, <2>3
      <3> QED
        BY <1>5, <2>3, <3>1
    <2> QED
      BY <1>6, <2>1, <2>2, <2>3
  <1>10. Len(u) = k + l /\ u \in Seq(Nat \X Nat)
    BY <1>2
  <1> QED
    BY <1>8, <1>9, <1>10 DEF Ascends, u

LEMMA AscendsPair ==
    ASSUME NEW p \in Nat, NEW q \in Nat, NEW v \in Nat, NEW w \in Nat, NEW a \in Nat, NEW b \in Nat,
           a <= p, p <= q, q <= v, v <= w, w <= b
    PROVE  Ascends(<<<<p, q>>, <<v, w>>>>, a, b)
  <1> DEFINE s == <<<<p, q>>, <<v, w>>>>
  <1>1. s \in Seq(Nat \X Nat) /\ Len(s) = 2 /\ s[1] = <<p, q>> /\ s[2] = <<v, w>>
    OBVIOUS
  <1> HIDE DEF s
  <1>2. \A i \in 1 .. 2 : i = 1 \/ i = 2
    OBVIOUS
  <1>3. \A i \in 1 .. 2 : a <= s[i][1] /\ s[i][1] <= s[i][2] /\ s[i][2] <= b
    BY <1>1, <1>2
  <1>4. \A i, j \in 1 .. 2 : i < j => s[i][2] <= s[j][1]
    BY <1>1, <1>2
  <1> QED
    BY <1>1, <1>3, <1>4 DEF Ascends, s

LEMMA AscendsTriple ==
    ASSUME NEW p \in Nat, NEW q \in Nat, NEW v \in Nat, NEW w \in Nat, NEW a \in Nat,
           a <= p, p <= q, q <= v, v <= w
    PROVE  Ascends(<<<<p, q>>, <<q, v>>, <<v, w>>>>, a, w)
  <1> DEFINE s == <<<<p, q>>, <<q, v>>, <<v, w>>>>
  <1>1. /\ s \in Seq(Nat \X Nat) /\ Len(s) = 3
        /\ s[1] = <<p, q>> /\ s[2] = <<q, v>> /\ s[3] = <<v, w>>
    OBVIOUS
  <1> HIDE DEF s
  <1>2. \A i \in 1 .. 3 : i = 1 \/ i = 2 \/ i = 3
    OBVIOUS
  <1>3. \A i \in 1 .. 3 : a <= s[i][1] /\ s[i][1] <= s[i][2] /\ s[i][2] <= w
    BY <1>1, <1>2
  <1>4. \A i, j \in 1 .. 3 : i < j => s[i][2] <= s[j][1]
    BY <1>1, <1>2
  <1> QED
    BY <1>1, <1>3, <1>4 DEF Ascends, s

\* The files.
LEMMA FilesAscend ==
    ASSUME NEW m \in Machines
    PROVE  Ascends([i \in DOMAIN m.files |->
                       <<OffsetsOf(m)[i], OffsetsOf(m)[i] + m.files[i]>>],
                   m.location + HEADERS, InitrdEnd(m))
  <1> DEFINE F == [i \in DOMAIN m.files |->
                      <<OffsetsOf(m)[i], OffsetsOf(m)[i] + m.files[i]>>]
             n == Len(m.files)
             o == Off(m.files)
             x == m.location
  <1>1. x \in Nat /\ m.files \in Seq(Nat)
    BY MachineFacts
  <1>2. n \in Nat /\ DOMAIN m.files = 1 .. n /\ \A i \in 1 .. n : m.files[i] \in Nat
    BY <1>1, LenProperties, ElementOfSeq
  <1>3. /\ o \in [0 .. n -> Nat] /\ o[0] = HEADERS
        /\ \A i \in 1 .. n : o[i] = o[i - 1] + m.files[i]
    BY <1>1, OffPacks DEF Packs
  <1>4. \A i \in 0 .. n : \A j \in i .. n : o[i] \in Nat /\ o[j] \in Nat /\ o[i] <= o[j]
    BY <1>1, OffGrows
  <1>5. InitrdEnd(m) = x + o[n]
    BY DEF InitrdEnd
  <1>6. \A i \in 1 .. n : OffsetsOf(m)[i] = o[i - 1] + x
    BY <1>2 DEF OffsetsOf, PackedAt
  <1> HIDE DEF n, o, x, F
  <1>7. ASSUME NEW i \in 1 .. n
        PROVE  /\ i - 1 \in 0 .. n /\ i \in 0 .. n /\ i \in i - 1 .. n
               /\ i - 1 \in 0 .. n /\ n \in i .. n
    BY <1>2
  <1>8. ASSUME NEW i \in 1 .. n
        PROVE  F[i] = <<x + o[i - 1], x + o[i]>> /\ o[i - 1] \in Nat /\ o[i] \in Nat
    <2>1. o[i - 1] \in Nat /\ o[i] \in Nat /\ m.files[i] \in Nat
      BY <1>2, <1>4, <1>7
    <2>2. F[i] = <<OffsetsOf(m)[i], OffsetsOf(m)[i] + m.files[i]>>
      BY <1>2 DEF F
    <2>3. OffsetsOf(m)[i] = o[i - 1] + x /\ o[i] = o[i - 1] + m.files[i]
      BY <1>3, <1>6
    <2>4. o[i - 1] + x = x + o[i - 1] /\ (o[i - 1] + x) + m.files[i] = x + o[i]
      BY <1>1, <2>1, <2>3
    <2> QED
      BY <2>1, <2>2, <2>3, <2>4
  <1>9. DOMAIN F = 1 .. n /\ F = [i \in 1 .. n |-> F[i]]
    BY <1>2 DEF F
  <1>10. \A i \in 1 .. n : F[i] \in Nat \X Nat
    <2> SUFFICES ASSUME NEW i \in 1 .. n PROVE F[i] \in Nat \X Nat
      OBVIOUS
    <2>1. x + o[i - 1] \in Nat /\ x + o[i] \in Nat
      BY <1>1, <1>8
    <2>2. <<x + o[i - 1], x + o[i]>> \in Nat \X Nat
      BY <2>1
    <2>3. F[i] = <<x + o[i - 1], x + o[i]>>
      BY <1>8
    <2> QED
      BY <2>2, <2>3
  <1>11. F \in Seq(Nat \X Nat) /\ Len(F) = n
    <2>1. F \in [1 .. n -> Nat \X Nat]
      BY <1>9, <1>10
    <2> QED
      BY <1>2, <2>1, SeqDef, LenProperties
  <1>12. ASSUME NEW i \in 1 .. n
         PROVE  x + HEADERS <= F[i][1] /\ F[i][1] <= F[i][2] /\ F[i][2] <= x + o[n]
    <2>1. o[0] <= o[i - 1] /\ o[i - 1] <= o[i] /\ o[i] <= o[n] /\ o[n] \in Nat
      <3>1. 0 \in 0 .. n /\ i - 1 \in 0 .. n
        BY <1>2
      <3> QED
        BY <1>4, <1>7, <3>1
    <2>2. F[i][1] = x + o[i - 1] /\ F[i][2] = x + o[i] /\ o[i - 1] \in Nat /\ o[i] \in Nat
      BY <1>8
    <2> QED
      BY <1>1, <1>3, <2>1, <2>2 DEF HEADERS
  <1>13. ASSUME NEW i \in 1 .. n, NEW j \in 1 .. n, i < j PROVE F[i][2] <= F[j][1]
    <2>1. i \in 0 .. n /\ j - 1 \in i .. n
      BY <1>2, <1>13
    <2>2. o[i] <= o[j - 1]
      BY <1>4, <2>1
    <2>3. F[i][2] = x + o[i] /\ F[j][1] = x + o[j - 1] /\ o[i] \in Nat /\ o[j - 1] \in Nat
      BY <1>8
    <2> QED
      BY <1>1, <2>2, <2>3
  <1> QED
    BY <1>5, <1>11, <1>12, <1>13 DEF Ascends, x, F

\* Where things end.
LEMMA EndFacts ==
    ASSUME NEW m \in Machines
    PROVE  /\ m.location + HEADERS <= InitrdEnd(m) /\ InitrdEnd(m) <= NodesEnd(m)
           /\ NodesEnd(m) <= MapEnd(m)
           /\ InitrdEnd(m) \in Nat /\ NodesEnd(m) \in Nat /\ MapEnd(m) \in Nat
           /\ K_ENTRY + m.kernel <= m.location
           /\ m.location \in Nat /\ m.kernel \in Nat /\ Len(m.files) \in Nat
           /\ MmapLen(BlocksMax(m)) \in Nat
  <1> DEFINE e == InitrdEnd(m)
             n == Len(m.files)
             l == MmapLen(BlocksMax(m))
  <1>1. /\ m.location >= K_ENTRY + m.kernel
        /\ e \in m.location + HEADERS .. K_ENTRY + m.upper * 1024
    BY MachineAssumption
  <1>2. m.location \in Nat /\ m.kernel \in Nat /\ e \in Nat /\ m.upper \in Nat
    BY MachineFacts
  <1>3. n \in Nat
    BY MachineFacts, LenProperties
  <1>4. l \in Nat
    BY UsableFinite DEF MmapLen
  <1>5. /\ NodesEnd(m) = e + 1 + NODE + NODE + NODE * n
        /\ MapEnd(m) = e + 1 + NODE + NODE + NODE * n + l
    BY DEF NodesEnd, MapEnd
  <1> HIDE DEF e, n, l
  <1>6. m.location + HEADERS <= e /\ K_ENTRY + m.kernel <= m.location
    BY <1>1, <1>2 DEF HEADERS, K_ENTRY
  <1>7. /\ e <= NodesEnd(m) /\ NodesEnd(m) <= MapEnd(m)
        /\ NodesEnd(m) \in Nat /\ MapEnd(m) \in Nat
    BY <1>2, <1>3, <1>4, <1>5 DEF NODE
  <1> QED
    BY <1>2, <1>3, <1>4, <1>6, <1>7 DEF e, n, l

\* Everything in memory ascends, from the kernel to kernel_mem.
LEMMA AreasAscend ==
    ASSUME TypeOK, HeapPlaced
    PROVE  Ascends(Areas, K_ENTRY, MapEnd(machine) + MEM_T)
  <1> DEFINE m == machine
             x == m.location
             e == InitrdEnd(m)
             d == NodesEnd(m)
             t == MapEnd(m)
             A == <<<<K_ENTRY, K_ENTRY + m.kernel>>, <<x, x + HEADERS>>>>
             F == [i \in DOMAIN offsets |-> FileAt(i)]
             Z == <<<<d, t>>, <<t, t + MEM_T>>>>
  <1>1. m \in Machines
    BY DEF TypeOK
  <1>2. /\ x \in Nat /\ m.kernel \in Nat /\ e \in Nat /\ d \in Nat /\ t \in Nat
        /\ K_ENTRY + m.kernel <= x /\ x + HEADERS <= e /\ e <= d /\ d <= t
    BY <1>1, EndFacts
  <1>3. Ascends(F, x + HEADERS, e)
    <2>1. offsets = OffsetsOf(m) /\ DOMAIN offsets = DOMAIN m.files
      BY DEF HeapPlaced, RamdiskPlaced, OffsetsOf
    <2>2. F = [i \in DOMAIN m.files |-> <<OffsetsOf(m)[i], OffsetsOf(m)[i] + m.files[i]>>]
      BY <2>1 DEF FileAt
    <2> QED
      BY <1>1, <2>2, FilesAscend
  <1>4. Ascends(nodes, e, d)
    <2> DEFINE p == e + 1
               q == p + NODE
               v == q + NODE
               n == Len(m.files)
    <2>1. nodes = <<<<p, q>>, <<q, v>>, <<v, d>>>>
      BY DEF HeapPlaced, RamdiskPlaced, NodesOf, NodesEnd
    <2>2. n \in Nat
      BY <1>1, EndFacts
    <2>3. d = v + NODE * n
      BY DEF NodesEnd
    <2> HIDE DEF e, d, n
    <2>4. p \in Nat /\ q \in Nat /\ v \in Nat /\ e <= p /\ p <= q /\ q <= v /\ v <= d
      BY <1>2, <2>2, <2>3 DEF NODE
    <2> HIDE DEF p, q, v
    <2> QED
      BY <1>2, <2>1, <2>4, AscendsTriple
  <1>5. memory_map = d /\ memory_map + MmapLen(blocks_max) = t /\ cell = <<t, t + MEM_T>>
    BY DEF HeapPlaced, MapPlaced, MapEnd
  <1>6. Areas = ((A \o F) \o nodes) \o Z
    BY <1>5 DEF Areas
  <1> HIDE DEF x, e, d, t, F
  <1>7. /\ K_ENTRY \in Nat /\ K_ENTRY + m.kernel \in Nat /\ x + HEADERS \in Nat
        /\ K_ENTRY <= K_ENTRY + m.kernel /\ x <= x + HEADERS /\ t + MEM_T \in Nat
        /\ t <= t + MEM_T /\ K_ENTRY <= x + HEADERS /\ K_ENTRY <= e /\ K_ENTRY <= d
        /\ d <= t + MEM_T /\ K_ENTRY <= K_ENTRY /\ x + HEADERS <= x + HEADERS
        /\ d <= d /\ t <= t /\ t + MEM_T <= t + MEM_T
    BY <1>2 DEF K_ENTRY, HEADERS, MEM_T
  <1>8. Ascends(A, K_ENTRY, x + HEADERS)
    BY <1>2, <1>7, AscendsPair
  <1>9. Ascends(Z, d, t + MEM_T)
    BY <1>2, <1>7, AscendsPair
  <1> HIDE DEF A, Z
  <1>10. Ascends(A \o F, K_ENTRY, e)
    BY <1>2, <1>3, <1>7, <1>8, AscendsConcat
  <1>11. Ascends((A \o F) \o nodes, K_ENTRY, d)
    BY <1>2, <1>4, <1>7, <1>10, AscendsConcat
  <1>12. Ascends(((A \o F) \o nodes) \o Z, K_ENTRY, t + MEM_T)
    BY <1>2, <1>7, <1>9, <1>11, AscendsConcat
  <1> QED
    BY <1>6, <1>12 DEF t

\* kernel_mem of the first usable region.
LEMMA HeapBounds ==
    ASSUME TypeOK, HeapPlaced
    PROVE  /\ kernel_mem[1] = K_ENTRY + SizePa(machine) + SPARE /\ kernel_mem[1] \in Nat
           /\ kernel_mem[2] \in Nat /\ kernel_mem[1] < kernel_mem[2]
           /\ \E i \in DOMAIN machine.map :
                 /\ Usable(machine.map[i])
                 /\ kernel_mem[2] = Base(machine.map[i]) + machine.map[i].length
  <1>1. machine \in Machines
    BY DEF TypeOK
  <1>2. PICK i \in 1 .. Len(machine.map) :
            FirstUsable(machine, i) /\ kernel_mem = HeapOf(machine.map[i])
    BY DEF HeapPlaced
  <1>3. DOMAIN machine.map = 1 .. Len(machine.map) /\ Len(machine.map) \in Nat
    BY <1>1, MachineFacts, LenProperties
  <1>4. PICK k \in DOMAIN machine.map :
            /\ Usable(machine.map[k]) /\ Base(machine.map[k]) = K_ENTRY
            /\ machine.map[k].length > SizePa(machine) + SPARE
            /\ \A j \in 1 .. k - 1 : ~Usable(machine.map[j])
    BY <1>1, MachineAssumption
  <1>5. i = k
    <2>1. i \in Nat /\ k \in Nat /\ (i < k \/ k < i \/ i = k)
      BY <1>3
    <2>2. ~(i < k)
      <3>1. i < k => i \in 1 .. k - 1
        BY <1>3
      <3> QED
        BY <1>2, <1>4, <3>1 DEF FirstUsable
    <2>3. ~(k < i)
      <3>1. k < i => k \in 1 .. i - 1
        BY <1>3
      <3> QED
        BY <1>2, <1>4, <3>1 DEF FirstUsable
    <2> QED
      BY <2>1, <2>2, <2>3
  <1> DEFINE l == machine.map[k].length
             z == SizePa(machine)
  <1>6. kernel_mem[1] = K_ENTRY + z + SPARE /\ kernel_mem[2] = K_ENTRY + l
    BY <1>2, <1>4, <1>5 DEF HeapOf
  <1>7. l \in Nat /\ l > z + SPARE
    <2>1. machine.map[k] \in Regions
      BY <1>1, <1>3, MachineFacts
    <2> QED
      BY <1>4, <2>1 DEF Regions
  <1>8. z \in Nat
    <2>1. machine.kernel \in Nat
      BY <1>1, MachineFacts
    <2> QED
      BY <2>1 DEF SizePa, BLOCK_SIZE
  <1>9. kernel_mem[2] = Base(machine.map[k]) + machine.map[k].length
    BY <1>4, <1>6
  <1> HIDE DEF l, z
  <1>10. kernel_mem[1] \in Nat /\ kernel_mem[2] \in Nat /\ kernel_mem[1] < kernel_mem[2]
    BY <1>6, <1>7, <1>8 DEF K_ENTRY, SPARE, BLOCK_SIZE
  <1> QED
    BY <1>4, <1>6, <1>9, <1>10 DEF z

\* If everything fits into the spare pages, the heap starts behind kernel_mem.
LEMMA HeapBehind ==
    ASSUME TypeOK, HeapPlaced, NEW bytes \in Nat, Fits(bytes)
    PROVE  MapEnd(machine) + MEM_T + bytes <= kernel_mem[1]
  <1> DEFINE x == machine.location
             e == InitrdEnd(machine)
             n == Len(machine.files)
             l == MmapLen(BlocksMax(machine))
             z == SizePa(machine)
  <1>1. machine \in Machines
    BY DEF TypeOK
  <1>2. x <= K_ENTRY + z /\ (e - x) + 1 + NODE * (2 + n) + l + MEM_T + bytes <= SPARE
    BY DEF Fits, HeapPlaced, MapPlaced
  <1>3. x \in Nat /\ e \in Nat /\ n \in Nat /\ l \in Nat
    BY <1>1, EndFacts
  <1>4. MapEnd(machine) = e + 1 + NODE + NODE + NODE * n + l
    BY DEF MapEnd, NodesEnd
  <1>5. kernel_mem[1] = K_ENTRY + z + SPARE
    BY HeapBounds
  <1>6. z \in Nat
    <2>1. machine.kernel \in Nat
      BY <1>1, MachineFacts
    <2> QED
      BY <2>1 DEF SizePa, BLOCK_SIZE
  <1> HIDE DEF x, e, n, l, z
  <1> QED
    BY <1>2, <1>3, <1>4, <1>5, <1>6 DEF K_ENTRY, NODE, MEM_T, SPARE, BLOCK_SIZE

\* On every machine the kernel, the ramdisk's headers and files, its nodes, the bitmap and
\* kernel_mem share no byte, from the moment kernel_mem is allocated (mem.h:190); and if the
\* ramdisk and what is allocated behind it fit into the pages that are spared for them, the
\* heap (mem.h:191-192) overlaps none of them, is not empty and ends with its region.
THEOREM MemoryAlwaysDivided == Spec => []MemoryDivided
  <1>1. MemInv /\ LayoutInv => MemoryDivided
    <2> SUFFICES ASSUME MemInv, LayoutInv, cell # <<>>
                 PROVE  /\ \A i, j \in DOMAIN Areas : i < j => ~Overlap(Areas[i], Areas[j])
                        /\ Fits(0) =>
                              /\ \A i \in DOMAIN Areas : ~Overlap(Areas[i], kernel_mem)
                              /\ kernel_mem[1] < kernel_mem[2]
                              /\ \E i \in DOMAIN machine.map :
                                    /\ Usable(machine.map[i])
                                    /\ kernel_mem[2] = Base(machine.map[i]) + machine.map[i].length
      BY DEF MemoryDivided
    <2>1. TypeOK /\ HeapPlaced
      BY DEF MemInv, LayoutInv
    <2> DEFINE t == MapEnd(machine) + MEM_T
    <2>2. Ascends(Areas, K_ENTRY, t)
      BY <2>1, AreasAscend
    <2>3. /\ Areas \in Seq(Nat \X Nat)
          /\ \A i \in 1 .. Len(Areas) : Areas[i][1] <= Areas[i][2] /\ Areas[i][2] <= t
          /\ \A i, j \in 1 .. Len(Areas) : i < j => Areas[i][2] <= Areas[j][1]
      BY <2>2 DEF Ascends
    <2>4. DOMAIN Areas = 1 .. Len(Areas)
      BY <2>3, LenProperties
    <2>5. ASSUME NEW i \in DOMAIN Areas PROVE Areas[i][1] \in Nat /\ Areas[i][2] \in Nat
      <3>1. Areas[i] \in Nat \X Nat
        BY <2>3, <2>4, ElementOfSeq
      <3> QED
        BY <3>1
    <2>6. ASSUME NEW i \in DOMAIN Areas, NEW j \in DOMAIN Areas, i < j
          PROVE  ~Overlap(Areas[i], Areas[j])
      <3>1. Areas[i][2] <= Areas[j][1]
        BY <2>3, <2>4, <2>6
      <3>2. Areas[i][2] \in Nat /\ Areas[j][1] \in Nat
        BY <2>5
      <3>3. ~(Areas[j][1] < Areas[i][2])
        BY <3>1, <3>2
      <3> QED
        BY <3>3 DEF Overlap
    <2>7. ASSUME Fits(0), NEW i \in DOMAIN Areas PROVE ~Overlap(Areas[i], kernel_mem)
      <3>1. t + 0 <= kernel_mem[1]
        BY <2>1, <2>7, HeapBehind
      <3>2. Areas[i][2] <= t /\ Areas[i][2] \in Nat
        BY <2>3, <2>4, <2>5
      <3>3. kernel_mem[1] \in Nat
        BY <2>1, HeapBounds
      <3>4. t \in Nat
        <4>1. MapEnd(machine) \in Nat
          BY <2>1, EndFacts DEF TypeOK
        <4> QED
          BY <4>1 DEF MEM_T
      <3> HIDE DEF t
      <3>5. ~(kernel_mem[1] < Areas[i][2])
        <4> DEFINE u == Areas[i][2]
                   v == kernel_mem[1]
        <4>1. t + 0 <= v /\ u <= t /\ u \in Nat /\ v \in Nat
          BY <3>1, <3>2, <3>3
        <4> HIDE DEF u, v
        <4>2. ~(v < u)
          BY <3>4, <4>1
        <4> QED
          BY <4>2 DEF u, v
      <3> QED
        BY <3>5 DEF Overlap
    <2> QED
      BY <2>1, <2>6, <2>7, HeapBounds
  <1> QED
    BY <1>1, MemInvariance, LayoutInvariance, PTL

-----------------------------------------------------------------------------
(* The bits behind the bitmap.                                             *)

\* What was changed there belongs to blocks that are handled behind the first usable
\* region.
StrayInv ==
    /\ cell = <<>> => stray = {}
    /\ (pc \in Mapped /\ cell # <<>>) => \E j \in 1 .. Done : Usable(machine.map[j])
    /\ \A a \in stray : \E b \in LaterBlocks(machine) \ MappedBits(BlocksMax(machine)) :
          a = NodesEnd(machine) + b \div 8

\* mem_init_region and mem_deinit_region.
LEMMA StrayGrows ==
    ASSUME LayoutInv, StrayInv, pc \in Mapped, NEW S, NEW T, T \subseteq S,
           cell # <<>> => S \subseteq LaterBlocks(machine), machine' = machine,
           stray' = IF cell = <<>> THEN stray ELSE stray \cup Behind(T)
    PROVE  /\ cell = <<>> => stray' = {}
           /\ \A a \in stray' :
                 \E b \in LaterBlocks(machine') \ MappedBits(BlocksMax(machine')) :
                     a = NodesEnd(machine') + b \div 8
  <1>1. memory_map = NodesEnd(machine) /\ blocks_max = BlocksMax(machine)
    BY DEF LayoutInv, MapPlaced
  <1>2. ASSUME cell # <<>>, NEW a \in Behind(T)
        PROVE  \E b \in LaterBlocks(machine) \ MappedBits(BlocksMax(machine)) :
                   a = NodesEnd(machine) + b \div 8
    BY <1>1, <1>2 DEF Behind
  <1> QED
    BY <1>2 DEF StrayInv

LEMMA StrayKept ==
    ASSUME StrayInv, UNCHANGED <<machine, todo, cell, stray>>,
           pc' = pc \/ pc \in Mapped \/ cell = <<>>
    PROVE  StrayInv'
  <1>1. Done' = Done
    BY DEF Done
  <1> QED
    BY <1>1 DEF StrayInv

LEMMA StrayRegion ==
    ASSUME MemInv, LayoutInv, StrayInv, Region
    PROVE  StrayInv'
  <1> DEFINE r == Head(todo)
             C == Covered(r.frame, r.length)
  <1>1. pc = "map" /\ machine' = machine /\ pc \in Mapped
    BY DEF Region, Mapped
  <1>2. PICK k \in 1 .. Len(machine.map) : k = Done + 1
    BY NextRegion
  <1>3. Done \in Nat /\ Done' = k /\ r = machine.map[k] /\ machine \in Machines
    BY <1>2, NextRegion DEF MemInv, TypeOK
  <1>4. k \in DOMAIN machine.map /\ 1 .. k - 1 = 1 .. Done /\ k \in 1 .. k /\ 1 .. Done \subseteq 1 .. k
    <2>1. k \in DOMAIN machine.map
      BY <1>3, MachineFacts, LenProperties
    <2>2. k - 1 = Done /\ k \in 1 .. k /\ 1 .. Done \subseteq 1 .. k
      BY <1>2, <1>3
    <2> QED
      BY <2>1, <2>2
  <1>5. cell # <<>> => \E j \in 1 .. Done : Usable(machine.map[j])
    BY <1>1 DEF StrayInv
  <1>6. cell # <<>> => C \subseteq LaterBlocks(machine)
    BY <1>3, <1>4, <1>5 DEF LaterBlocks
  <1>7. PICK T : T \subseteq C /\ stray' = IF cell = <<>> THEN stray ELSE stray \cup Behind(T)
    <2>1. CASE Usable(r)
      <3> WITNESS bits \cap C
      <3> QED
        BY <2>1 DEF Region, MemInitRegion
    <2>2. CASE ~Usable(r)
      <3> WITNESS C \ bits
      <3> QED
        BY <2>2 DEF Region, MemDeinitRegion
    <2> QED
      BY <2>1, <2>2
  <1> HIDE DEF C
  <1>8. /\ cell = <<>> => stray' = {}
        /\ \A a \in stray' :
              \E b \in LaterBlocks(machine') \ MappedBits(BlocksMax(machine')) :
                  a = NodesEnd(machine') + b \div 8
    BY <1>1, <1>6, <1>7, StrayGrows
  <1>9. cell' = cell \/ (cell = <<>> /\ Usable(r) /\ cell' # <<>>)
    BY DEF Region, heap, Bump
  <1>10. cell' # <<>> => \E j \in 1 .. Done' : Usable(machine'.map[j])
    BY <1>1, <1>3, <1>4, <1>5, <1>9
  <1> QED
    BY <1>8, <1>9, <1>10 DEF StrayInv

LEMMA StrayReserve ==
    ASSUME LayoutInv, StrayInv, NEW f, NEW s, MemDeinitRegion(f, s),
           Covered(f, s) \subseteq LaterBlocks(machine), pc \in Mapped,
           UNCHANGED <<machine, todo, cell>>
    PROVE  StrayInv'
  <1> DEFINE T == Covered(f, s) \ bits
  <1>1. stray' = IF cell = <<>> THEN stray ELSE stray \cup Behind(T)
    BY DEF MemDeinitRegion
  <1>2. T \subseteq Covered(f, s)
    OBVIOUS
  <1> HIDE DEF T
  <1>3. /\ cell = <<>> => stray' = {}
        /\ \A a \in stray' :
              \E b \in LaterBlocks(machine') \ MappedBits(BlocksMax(machine')) :
                  a = NodesEnd(machine') + b \div 8
    BY <1>1, <1>2, StrayGrows
  <1>4. Done' = Done
    BY DEF Done
  <1> QED
    BY <1>3, <1>4 DEF StrayInv

LEMMA StrayInvariance == Spec => []StrayInv
  <1>1. Init => StrayInv
    BY DEF Init, StrayInv
  <1>2. MemInv /\ LayoutInv /\ StrayInv /\ [Next]_vars => StrayInv'
    <2> SUFFICES ASSUME MemInv, LayoutInv, StrayInv, [Next]_vars PROVE StrayInv'
      OBVIOUS
    <2>1. CASE UNCHANGED vars
      BY <2>1, StrayKept DEF vars, heap
    <2>2. CASE Verify
      BY <2>2, StrayKept DEF Verify, heap, LayoutInv
    <2>3. CASE InitrdInit
      BY <2>3, StrayKept DEF InitrdInit, heap, LayoutInv
    <2>4. CASE PmemInit
      BY <2>4, StrayKept DEF PmemInit, heap, LayoutInv
    <2>5. CASE Region
      BY <2>5, StrayRegion
    <2>6. CASE ReserveRamdisk
      <3> DEFINE f == machine.location \div BLOCK_SIZE
                 s == InitrdEnd(machine) - machine.location
      <3>1. Covered(f, s) \subseteq LaterBlocks(machine)
        BY DEF LaterBlocks
      <3>2. pc \in Mapped /\ MemDeinitRegion(f, s) /\ UNCHANGED <<machine, todo, cell>>
        BY <2>6 DEF ReserveRamdisk, heap, Mapped
      <3> HIDE DEF f, s
      <3> QED
        BY <3>1, <3>2, StrayReserve
    <2>7. CASE ReserveKernel
      <3> DEFINE f == K_ENTRY \div BLOCK_SIZE
                 s == machine.kernel \div 4
      <3>1. Covered(f, s) \subseteq LaterBlocks(machine)
        BY DEF LaterBlocks
      <3>2. pc \in Mapped /\ MemDeinitRegion(f, s) /\ UNCHANGED <<machine, todo, cell>>
        BY <2>7 DEF ReserveKernel, heap, Mapped
      <3> HIDE DEF f, s
      <3> QED
        BY <3>1, <3>2, StrayReserve
    <2>8. CASE AllocBlock
      BY <2>8, StrayKept DEF AllocBlock, heap, Mapped
    <2>9. CASE \E frame \in owned : FreeBlock(frame)
      BY <2>9, StrayKept DEF FreeBlock, heap
    <2> QED
      BY <2>1, <2>2, <2>3, <2>4, <2>5, <2>6, <2>7, <2>8, <2>9 DEF Next
  <1> QED
    BY <1>1, <1>2, MemInvariance, LayoutInvariance, PTL DEF Spec

\* Where the bit of such a block is, if the bitmap at d has l bytes.
LEMMA StrayPlace ==
    ASSUME NEW d \in Nat, NEW l \in Nat, NEW b \in Nat, ~(b < 8 * l),
           \/ b < 8 * l
           \/ b >= 8 * l + 64 /\ (b < 8 * l + 256 \/ b >= 8 * (SPARE + BLOCK_SIZE))
    PROVE  /\ d + b \div 8 \in Nat /\ d + l + 8 <= d + b \div 8
           /\ d + b \div 8 < d + l + 32 \/ d + b \div 8 >= d + SPARE + BLOCK_SIZE
  <1>1. PICK q \in Nat : q = b \div 8 /\ 8 * q <= b /\ b < 8 * q + 8
    OBVIOUS
  <1>2. d + q \in Nat /\ d + l + 8 <= d + q
    BY <1>1 DEF SPARE, BLOCK_SIZE
  <1>3. d + q < d + l + 32 \/ d + q >= d + SPARE + BLOCK_SIZE
    BY <1>1 DEF SPARE, BLOCK_SIZE
  <1> QED
    BY <1>1, <1>2, <1>3

LEMMA LaterNat ==
    ASSUME NEW m \in Machines
    PROVE  LaterBlocks(m) \subseteq Nat
  <1> DEFINE I == {k \in DOMAIN m.map : \E j \in 1 .. k - 1 : Usable(m.map[j])}
             U == UNION {Covered(m.map[i].frame, m.map[i].length) : i \in I}
  <1>1. DOMAIN m.map = 1 .. Len(m.map)
    BY MachineFacts, LenProperties
  <1>2. I \subseteq 1 .. Len(m.map)
    BY <1>1
  <1> HIDE DEF I
  <1>3. U \subseteq Nat
    BY <1>2, RegionsFinite
  <1>4. LaterBlocks(m) = U \cup Covered(m.location \div BLOCK_SIZE, InitrdEnd(m) - m.location)
                           \cup Covered(K_ENTRY \div BLOCK_SIZE, m.kernel \div 4)
    BY DEF LaterBlocks, I
  <1>5. m.location \in Nat /\ InitrdEnd(m) - m.location \in Nat /\ m.kernel \in Nat
    BY MachineFacts
  <1>6. Covered(m.location \div BLOCK_SIZE, InitrdEnd(m) - m.location) \subseteq Nat
    <2>1. m.location \div BLOCK_SIZE \in Nat
      BY <1>5 DEF BLOCK_SIZE
    <2> QED
      BY <1>5, <2>1, CoveredFinite
  <1>7. Covered(K_ENTRY \div BLOCK_SIZE, m.kernel \div 4) \subseteq Nat
    <2>1. K_ENTRY \div BLOCK_SIZE \in Nat /\ m.kernel \div 4 \in Nat
      BY <1>5 DEF BLOCK_SIZE, K_ENTRY
    <2> QED
      BY <2>1, CoveredFinite
  <1> HIDE DEF U
  <1> QED
    BY <1>3, <1>4, <1>6, <1>7

\* Whatever else is on a machine like a PC, the bits that the kernel sets and clears behind
\* its bitmap (mem.h:44-45, 58-59) once there is a heap never hit kernel_mem, and not the
\* first headers of a heap that starts 24 bytes behind kernel_mem or further.
THEOREM StrayBitsAlwaysMissHeap == Spec /\ LikePC(machine) => []StrayBitsMissHeap
  <1>1. TypeOK /\ LayoutInv /\ StrayInv /\ LikePC(machine) => StrayBitsMissHeap
    <2> SUFFICES ASSUME TypeOK, LayoutInv, StrayInv, LikePC(machine), NEW a \in stray
                 PROVE  /\ ~(cell[1] <= a /\ a < cell[2])
                        /\ Fits(24) => ~(/\ kernel_mem[1] <= a
                                         /\ a < kernel_mem[1] + HEAP_HEADERS)
      BY DEF StrayBitsMissHeap
    <2> DEFINE d == NodesEnd(machine)
               l == MmapLen(BlocksMax(machine))
               x == machine.location
               k == machine.kernel
               h == kernel_mem[1]
    <2>1. machine \in Machines /\ HeapPlaced
      BY DEF TypeOK, StrayInv, LayoutInv
    <2>2. PICK b \in LaterBlocks(machine) \ MappedBits(BlocksMax(machine)) : a = d + b \div 8
      BY DEF StrayInv
    <2>3. /\ d \in Nat /\ l \in Nat /\ x \in Nat /\ k \in Nat
          /\ x + HEADERS <= d /\ K_ENTRY + k <= x
      <3> DEFINE e == InitrdEnd(machine)
      <3>1. /\ d \in Nat /\ l \in Nat /\ x \in Nat /\ k \in Nat /\ e \in Nat
            /\ x + HEADERS <= e /\ e <= d /\ K_ENTRY + k <= x
        BY <2>1, EndFacts
      <3> HIDE DEF d, l, x, k, e
      <3> QED
        BY <3>1 DEF HEADERS
    <2>4. cell = <<d + l, d + l + MEM_T>>
      BY <2>1 DEF HeapPlaced, MapEnd
    <2>5. h = K_ENTRY + SizePa(machine) + SPARE /\ h \in Nat
      BY <2>1, HeapBounds
    <2>6. SizePa(machine) \in Nat /\ SizePa(machine) <= k + 4096
      <3> HIDE DEF d, l
      <3> QED
        BY <2>3 DEF SizePa, BLOCK_SIZE
    <2>7. Fits(24) => d + l + MEM_T + 24 <= h
      BY <2>1, HeapBehind DEF MapEnd
    <2>8. b \in Nat
      BY <2>1, LaterNat
    <2>9. \/ b < 8 * l
          \/ b >= 8 * l + 64 /\ (b < 8 * l + 256 \/ b >= 8 * (SPARE + BLOCK_SIZE))
      BY DEF LikePC, MmapLen
    <2>10. ~(b < 8 * l)
      <3>1. b \notin 0 .. 8 * l - 1
        BY DEF MappedBits
      <3> HIDE DEF d, l, x, k
      <3> QED
        BY <2>3, <2>8, <3>1
    <2> HIDE DEF d, l, x, k, h
    <2>11. /\ a \in Nat /\ d + l + 8 <= a
           /\ a < d + l + 32 \/ a >= d + SPARE + BLOCK_SIZE
      BY <2>2, <2>3, <2>8, <2>9, <2>10, StrayPlace
    <2>12. ~(cell[1] <= a /\ a < cell[2])
      <3>1. cell[2] = d + l + 8
        BY <2>4 DEF MEM_T
      <3>2. ~(a < d + l + 8)
        BY <2>3, <2>11
      <3> QED
        BY <3>1, <3>2
    <2>13. ASSUME Fits(24) PROVE ~(h <= a /\ a < h + HEAP_HEADERS)
      <3> DEFINE z == SizePa(machine)
      <3>1. z \in Nat /\ z <= k + 4096 /\ h = K_ENTRY + z + SPARE /\ d + l + 32 <= h
        BY <2>3, <2>5, <2>6, <2>7, <2>13 DEF MEM_T
      <3> HIDE DEF z
      <3>2. CASE a < d + l + 32
        BY <2>3, <2>5, <2>11, <3>1, <3>2
      <3>3. CASE a >= d + SPARE + BLOCK_SIZE
        BY <2>3, <2>5, <2>11, <3>1, <3>3 DEF SPARE, BLOCK_SIZE, HEADERS, K_ENTRY, HEAP_HEADERS
      <3> QED
        BY <2>11, <3>2, <3>3
    <2> QED
      BY <2>12, <2>13 DEF h
  <1>2. LikePC(machine) /\ [Next]_vars => LikePC(machine)'
    <2> SUFFICES ASSUME [Next]_vars PROVE machine' = machine
      OBVIOUS
    <2> QED
      BY DEF Next, vars, Verify, InitrdInit, PmemInit, Region, ReserveRamdisk, ReserveKernel,
             AllocBlock, FreeBlock
  <1> QED
    BY <1>1, <1>2, PhysMemTypeCorrect, LayoutInvariance, StrayInvariance, PTL DEF Spec

=============================================================================
