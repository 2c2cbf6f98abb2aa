------------------------------ MODULE PhysMem -------------------------------
(***************************************************************************)
(* How the kernel divides the machine's memory at boot: kmain up to        *)
(* kernel_calls_init (src/kernel.c), initrd_init's structures              *)
(* (src/io/initrd.h), pmem_init, the frame bitmap and the pointer that     *)
(* malloc moves before there is a heap (src/mem/mem.h).  The ramdisk image *)
(* is laid out as src/utils/put_to_ramdisk.c packs it.                     *)
(*                                                                         *)
(* A machine is what the boot loader hands over: `files` are the lengths   *)
(* of the packed files, `location` is where it put the image, `map` its    *)
(* memory map.  The base of a region is given as `frame` and `offset`, for *)
(* TLC has no 32-bit addresses; of a region above 4 GB the kernel reads    *)
(* the low words.  Interrupts are off until kbd_init.                      *)
(*                                                                         *)
(* The kernel tests and sets a bit for every frame of every region, far    *)
(* behind the bitmap for most of them.  `bits` holds these bits as well,   *)
(* `junk` is what the memory there contained, and `stray` are the          *)
(* addresses behind the bitmap that were changed after the heap was made.  *)
(***************************************************************************)
EXTENDS Integers, Sequences, FiniteSets, FiniteSetsExt

CONSTANTS Machines,
          MaxOwned    \* bound: frames handed out by alloc_block at a time

K_ENTRY       == 1048576          \* linker.ld
BLOCK_SIZE    == 4096
SPARE         == 30 * BLOCK_SIZE
NODE          == 184              \* sizeof(fs_node_t)
HEADERS       == 4 + 64 * 76      \* the count and the file headers of an image
MEM_T         == 8                \* sizeof(mem_t)
HEAP_HEADERS  == 28               \* a block's header and that of its first chunk

\* ((kernel_size & 0xFFFFF000) + 0x1000)
SizePa(m) == (m.kernel \div BLOCK_SIZE) * BLOCK_SIZE + BLOCK_SIZE

\* A region of the memory map.
Offsets == 0 .. BLOCK_SIZE - 1
Regions == [frame : Nat, offset : Offsets, length : Nat, type : Nat]

Usable(r) == r.type = 1 /\ (r.frame > 0 \/ r.offset > 0)
Base(r)   == r.frame * BLOCK_SIZE + r.offset

-----------------------------------------------------------------------------
(* The machine.                                                            *)

\* put_to_ramdisk's off when i files are packed: behind the headers and those files.
Off(lengths) ==
    LET off[i \in 0 .. Len(lengths)] == IF i = 0 THEN HEADERS ELSE off[i - 1] + lengths[i]
    IN  off

PackedAt(m, i) == Off(m.files)[i - 1]

InitrdEnd(m) == m.location + Off(m.files)[Len(m.files)]

BlocksMax(m) == (m.upper * 1024) \div BLOCK_SIZE

\* The blocks counted down in mem_init_region and mem_deinit_region.
Covered(frame, size) == frame .. frame + (size \div BLOCK_SIZE) - 1

\* The frame is wholly within the bytes from, .., from + size - 1 behind frame f.
Wholly(frame, f, from, size) ==
    /\ f <= frame
    /\ from <= (frame - f) * BLOCK_SIZE
    /\ (frame + 1 - f) * BLOCK_SIZE <= from + size

\* The blocks the usable regions cover.
UsableBlocks(m) == UNION {Covered(m.map[i].frame, m.map[i].length) :
                             i \in {j \in DOMAIN m.map : Usable(m.map[j])}}

\* The first usable region is the one the kernel was loaded to, and has room for a heap.
\* The boot loader puts the image behind the kernel, on a page (MBALIGN in bootstrap.asm)
\* and within the memory that mem_upper tells of.
ASSUME MachineAssumption ==
    \A m \in Machines :
        /\ m.kernel \in Nat \ {0} /\ m.upper \in Nat /\ m.files \in Seq(Nat)
        /\ Len(m.files) <= 64
        /\ m.location \in Nat /\ m.location % BLOCK_SIZE = 0
        /\ m.location >= K_ENTRY + m.kernel
        /\ InitrdEnd(m) \in m.location + HEADERS .. K_ENTRY + m.upper * 1024
        /\ m.map \in Seq(Regions)
        /\ \E i \in DOMAIN m.map :
              /\ Usable(m.map[i]) /\ Base(m.map[i]) = K_ENTRY /\ m.map[i].length > SizePa(m) + SPARE
              /\ \A j \in 1 .. i - 1 : ~Usable(m.map[j])

\* The usable memory is above the first megabyte's first frame and no more than mem_upper
\* tells of, and the firmware's map gives no byte out as usable that it has given out as
\* something else before.
ASSUME MapAssumption ==
    \A m \in Machines :
        /\ Cardinality(UsableBlocks(m)) <= BlocksMax(m)
        /\ \A i \in DOMAIN m.map : Usable(m.map[i]) =>
              /\ m.map[i].frame > 0
              /\ \A j \in 1 .. i - 1 : ~Usable(m.map[j]) =>
                    \A frame \in Covered(m.map[i].frame, m.map[i].length) :
                        ~Wholly(frame, m.map[j].frame, m.map[j].offset, m.map[j].length)

VARIABLES machine, junk,
          pc,           \* where kmain is
          mem_unused,
          nodes,        \* what initrd_init has allocated: sequence of <<from, to>>
          offsets,      \* file_headers[i].offset
          memory_map, blocks_max, blocks_used, bits,
          todo,         \* the rest of the memory map
          cell, kernel_mem,   \* where kernel_mem points, <<>> when NULL; what it holds
          stray,
          owned         \* frames handed out (history)

ramdisk == <<nodes, offsets>>
frames  == <<memory_map, blocks_max, blocks_used, bits>>
heap    == <<cell, kernel_mem>>
vars    == <<machine, junk, pc, mem_unused, ramdisk, frames, todo, heap, stray, owned>>

Init == /\ machine \in Machines /\ junk \in BOOLEAN
        /\ pc = "verify"
        /\ mem_unused = 0
        /\ nodes = <<>> /\ offsets = <<>>
        /\ memory_map = 0 /\ blocks_max = 0 /\ blocks_used = 0 /\ bits = {}
        /\ todo = machine.map
        /\ cell = <<>> /\ kernel_mem = <<>>
        /\ stray = {} /\ owned = {}

-----------------------------------------------------------------------------
(* verify_multiboot and initrd_init.                                       *)

Verify == /\ pc = "verify"
          /\ pc' = IF machine.magic /\ machine.mods > 0 THEN "initrd" ELSE "dead"
          /\ UNCHANGED <<machine, junk, mem_unused, ramdisk, frames, todo, heap, stray, owned>>

\* alloc, for malloc without a heap: from, to.
Bump(from, size) == <<from, from + size>>

InitrdInit ==
    LET root  == Bump(InitrdEnd(machine) + 1, NODE)
        mtp   == Bump(root[2], NODE)
        files == Bump(mtp[2], NODE * Len(machine.files))
    IN  /\ pc = "initrd" /\ pc' = "pmem"
        /\ nodes' = <<root, mtp, files>>
        /\ mem_unused' = files[2]
        /\ offsets' = [i \in DOMAIN machine.files |-> PackedAt(machine, i) + machine.location]
        /\ UNCHANGED <<machine, junk, frames, todo, heap, stray, owned>>

-----------------------------------------------------------------------------
(* The bitmap.  blocks_max is set once the map is being made.              *)

\* Wrong: one byte for every 32 blocks.
WordsLen(n) == n \div 32

MmapLen(n) == n \div 8

MappedBits(n) == 0 .. 8 * MmapLen(n) - 1

\* memset to 0x0f, and what lies behind.
FreshBits(m, j) ==
    LET n == BlocksMax(m)
    IN  {b \in MappedBits(n) : b % 8 < 4}
        \cup IF j THEN (UNION {Covered(m.map[i].frame, m.map[i].length) : i \in DOMAIN m.map})
                        \ MappedBits(n)
             ELSE {}

\* Addresses of the bits of a set that are behind the bitmap.
Behind(set) == {memory_map + b \div 8 : b \in set \ MappedBits(blocks_max)}

\* Wrong: counts blocks that are free already.
InitCountingAll(frame, size) ==
    /\ bits' = (bits \ Covered(frame, size)) \cup {0}
    /\ blocks_used' = blocks_used - Cardinality(Covered(frame, size))
    /\ stray' = IF cell = <<>> THEN stray ELSE stray \cup Behind(bits \cap Covered(frame, size))

\* mem_init_region.  Frame 0 is set in the end, uncounted.
MemInitRegion(frame, size) ==
    LET freed == bits \cap Covered(frame, size)
    IN  /\ bits' = (bits \ freed) \cup {0}
        /\ blocks_used' = blocks_used - Cardinality(freed)
        /\ stray' = IF cell = <<>> THEN stray ELSE stray \cup Behind(freed)

\* Wrong: the last block is left out.
DeinitButLast(frame, size) ==
    LET taken == Covered(frame, size - BLOCK_SIZE) \ bits
    IN  /\ bits' = bits \cup taken
        /\ blocks_used' = blocks_used + Cardinality(taken)
        /\ stray' = IF cell = <<>> THEN stray ELSE stray \cup Behind(taken)

\* mem_deinit_region
MemDeinitRegion(frame, size) ==
    LET taken == Covered(frame, size) \ bits
    IN  /\ bits' = bits \cup taken
        /\ blocks_used' = blocks_used + Cardinality(taken)
        /\ stray' = IF cell = <<>> THEN stray ELSE stray \cup Behind(taken)

-----------------------------------------------------------------------------
(* pmem_init                                                               *)

\* The bitmap is allocated behind what initrd_init allocated, and filled.
PmemInit ==
    LET n == BlocksMax(machine)
        m == Bump(mem_unused, MmapLen(n))
    IN  /\ pc = "pmem" /\ pc' = "map"
        /\ blocks_max' = n /\ blocks_used' = n
        /\ memory_map' = m[1] /\ mem_unused' = m[2]
        /\ bits' = FreshBits(machine, junk)
        /\ UNCHANGED <<machine, junk, ramdisk, todo, heap, stray, owned>>

\* Wrong: without the pages that are spared behind the kernel.
HeapBehindKernel(r) == <<Base(r) + SizePa(machine), Base(r) + r.length>>

\* kernel_mem->start and end
HeapOf(r) == <<Base(r) + SizePa(machine) + SPARE, Base(r) + r.length>>

\* A region of the memory map.  The first usable one becomes the heap: kernel_mem is
\* the last thing malloc takes from behind the ramdisk.
Region ==
    LET r == Head(todo)
    IN  /\ pc = "map" /\ todo # <<>>
        /\ todo' = Tail(todo)
        /\ pc' = IF todo' = <<>> THEN "reserve" ELSE pc
        /\ IF Usable(r) THEN MemInitRegion(r.frame, r.length)
                        ELSE MemDeinitRegion(r.frame, r.length)
        /\ IF Usable(r) /\ cell = <<>>
           THEN /\ cell' = Bump(mem_unused, MEM_T)
                /\ mem_unused' = cell'[2]
                /\ kernel_mem' = HeapOf(r)
           ELSE UNCHANGED <<mem_unused, heap>>
        /\ UNCHANGED <<machine, junk, ramdisk, memory_map, blocks_max, owned>>

\* mem_deinit_region of the ramdisk.
ReserveRamdisk ==
    /\ pc = "reserve" /\ pc' = "kernel"
    /\ MemDeinitRegion(machine.location \div BLOCK_SIZE, InitrdEnd(machine) - machine.location)
    /\ UNCHANGED <<machine, junk, mem_unused, ramdisk, memory_map, blocks_max, todo, heap, owned>>

\* And of the kernel, whose size is in units of four bytes here.
ReserveKernel ==
    /\ pc = "kernel" /\ pc' = "up"
    /\ MemDeinitRegion(K_ENTRY \div BLOCK_SIZE, machine.kernel \div 4)
    /\ UNCHANGED <<machine, junk, mem_unused, ramdisk, memory_map, blocks_max, todo, heap, owned>>

-----------------------------------------------------------------------------
(* alloc_block and free_block, the interface src/mem/paging.h uses.        *)

\* find_free_block looks at whole words.
FreeFrames == (0 .. 32 * (blocks_max \div 32) - 1) \ bits

\* Wrong: the bit stays clear.
MmapKeep(frame) == bits

\* mmap_set and mmap_unset
MmapSet(frame)   == bits \cup {frame}
MmapUnset(frame) == bits \ {frame}

AllocBlock ==
    /\ pc = "up" /\ Cardinality(owned) < MaxOwned
    /\ IF blocks_used >= blocks_max \/ FreeFrames = {}
       THEN pc' = "dead" /\ UNCHANGED <<blocks_used, bits, owned>>
       ELSE LET frame == Min(FreeFrames)
            IN  /\ bits' = MmapSet(frame)
                /\ blocks_used' = blocks_used + 1
                /\ owned' = owned \cup {frame}
                /\ UNCHANGED pc
    /\ UNCHANGED <<machine, junk, mem_unused, ramdisk, memory_map, blocks_max, todo, heap, stray>>

FreeBlock(frame) ==
    /\ pc = "up"
    /\ bits' = MmapUnset(frame)
    /\ blocks_used' = blocks_used - 1
    /\ owned' = owned \ {frame}
    /\ UNCHANGED <<machine, junk, pc, mem_unused, ramdisk, memory_map, blocks_max, todo, heap,
                   stray>>

\* get_free_mem, in blocks
FreeMem == blocks_max - blocks_used

Next == \/ Verify \/ InitrdInit \/ PmemInit \/ Region \/ ReserveRamdisk \/ ReserveKernel
        \/ AllocBlock
        \/ \E frame \in owned : FreeBlock(frame)

Spec == Init /\ [][Next]_vars

-----------------------------------------------------------------------------
(* Properties                                                              *)

TypeOK == /\ machine \in Machines /\ junk \in BOOLEAN
          /\ pc \in {"verify", "initrd", "pmem", "map", "reserve", "kernel", "up", "dead"}
          /\ mem_unused \in Nat /\ memory_map \in Nat
          /\ blocks_max \in Nat /\ blocks_used \in Nat
          /\ bits \subseteq Nat /\ stray \subseteq Nat /\ owned \subseteq bits
          /\ kernel_mem = <<>> <=> cell = <<>>

Overlap(a, b) == a[1] < b[2] /\ b[1] < a[2]

FileAt(i) == <<offsets[i], offsets[i] + machine.files[i]>>

\* Everything that is in memory when the heap is made.
Areas == <<<<K_ENTRY, K_ENTRY + machine.kernel>>,
           <<machine.location, machine.location + HEADERS>>>>
         \o [i \in DOMAIN offsets |-> FileAt(i)] \o nodes
         \o <<<<memory_map, memory_map + MmapLen(blocks_max)>>, cell>>

\* The ramdisk and what is put behind it fit into the pages the kernel spares, with
\* so many bytes to spare.
Fits(bytes) ==
    /\ machine.location <= K_ENTRY + SizePa(machine)
    /\ (InitrdEnd(machine) - machine.location) + 1 + NODE * (2 + Len(machine.files))
            + MmapLen(blocks_max) + MEM_T + bytes <= SPARE

\* The kernel, the headers and files of the ramdisk, its nodes, the frame bitmap and
\* kernel_mem share no byte, and the heap overlaps none of them and ends with its
\* region, if the ramdisk and what is allocated behind it take no more than 30 pages.
\* Nothing checks that they do (mem.h:191), and the boot loader rounds the ramdisk's
\* place up to a page as SizePa rounds the kernel's end.
MemoryDivided ==
    cell # <<>> =>
        /\ \A i, j \in DOMAIN Areas : i < j => ~Overlap(Areas[i], Areas[j])
        /\ Fits(0) =>
              /\ \A i \in DOMAIN Areas : ~Overlap(Areas[i], kernel_mem)
              /\ kernel_mem[1] < kernel_mem[2]
              /\ \E i \in DOMAIN machine.map :
                    Usable(machine.map[i]) /\ kernel_mem[2] = Base(machine.map[i]) + machine.map[i].length

\* Changes behind the bitmap, made for the firmware's region at the end of memory and
\* for the BIOS (mem.h:44-45, 58-59: no index is checked), leave kernel_mem alone, which
\* was allocated just behind the bitmap: the first megabyte's 256 blocks, of which
\* mem_upper does not tell, keep the two apart.  They also miss the first headers of a
\* heap that starts 24 bytes behind kernel_mem or further.
StrayBitsMissHeap ==
    \A a \in stray : /\ ~(cell[1] <= a /\ a < cell[2])
                     /\ Fits(24) => ~(kernel_mem[1] <= a /\ a < kernel_mem[1] + HEAP_HEADERS)

\* Blocks whose bits are changed once there is a heap: of the regions behind the first
\* usable one, of the ramdisk and of the kernel.
LaterBlocks(m) ==
    (UNION {Covered(m.map[i].frame, m.map[i].length) :
               i \in {k \in DOMAIN m.map : \E j \in 1 .. k - 1 : Usable(m.map[j])}})
    \cup Covered(m.location \div BLOCK_SIZE, InitrdEnd(m) - m.location)
    \cup Covered(K_ENTRY \div BLOCK_SIZE, m.kernel \div 4)

\* On a PC without devices in between they have a bit in the map, or are 64 blocks or more
\* behind the last that has one, and either among the next 192 (the end of memory, 256
\* blocks above mem_upper's count) or in the last 128 MB below 4 GB.
LikePC(m) ==
    LET n == 8 * (BlocksMax(m) \div 8)
    IN  \A b \in LaterBlocks(m) :
            \/ b < n
            \/ b >= n + 64 /\ (b < n + 256 \/ b >= 8 * (SPARE + BLOCK_SIZE))

\* blocks_used starts at the number of all blocks although half of the bits are clear
\* (mem.h:174-175): from then on it exceeds the number of set bits by the number of
\* those that were clear, so get_free_mem tells how many blocks more are free than
\* were at that moment.
UsedFollowsBits ==
    pc \notin {"verify", "initrd", "pmem", "dead"} =>
        FreeMem = Cardinality(FreshBits(machine, junk)) - Cardinality(bits)

\* mem_deinit_region rounds the base and the length of a region down: when it starts
\* within a frame, the frame its last bytes complete may be left out.
LeavesNoneOut(offset, length) ==
    length < BLOCK_SIZE \/ offset + (length % BLOCK_SIZE) < BLOCK_SIZE

Reserved(frame) ==
    \/ Wholly(frame, 0, machine.location, InitrdEnd(machine) - machine.location)
    \/ Wholly(frame, 0, K_ENTRY, machine.kernel \div 4)
    \/ \E i \in DOMAIN machine.map :
          LET r == machine.map[i]
          IN  /\ ~Usable(r) /\ LeavesNoneOut(r.offset, r.length)
              /\ Wholly(frame, r.frame, r.offset, r.length)

\* Once kmain has reserved them, the frames of the ramdisk, of a quarter of the kernel
\* (kernel.c:74) and of every region that is not usable stay set, and alloc_block
\* hands none of them out: of a region that starts within a frame, if rounding its base
\* and its length down (mem.h:53-54) leaves out no frame.
ReservedFramesStay ==
    pc = "up" => \A frame \in 0 .. blocks_max - 1 :
                    Reserved(frame) => frame \in bits \ owned
=============================================================================
