----------------------------- MODULE MCPhysMem ------------------------------
(***************************************************************************)
(* Machines of four and eight megabytes for TLC.                           *)
(***************************************************************************)
EXTENDS PhysMem

R(frame, offset, length, type) ==
    [frame |-> frame, offset |-> offset, length |-> length, type |-> type]

\* The memory map of a PC with `top` blocks, the last 32 of them taken by the firmware.
\* Of the adapter's region from frame 163 on the second frame is left out; the region of
\* the BIOS ends at 4 GB.
PC(top) == <<R(0, 0, 654336, 1), R(159, 3072, 1024, 2), R(163, 3000, 5192, 2),
             R(240, 0, 65536, 2),
             R(256, 0, (top - 288) * 4096, 1), R(top - 32, 0, 131072, 2),
             R(1048512, 0, 262144, 2)>>

\* With a second usable region, and memory above 4 GB, of which the low words remain.
Split == <<R(0, 0, 651264, 1), R(256, 0, 2097152, 1), R(768, 0, 8192, 3),
           R(770, 0, 40960, 1), R(780, 100, 8192, 4), R(0, 0, 1048576, 1)>>

Machine(kernel, files, location, upper, map) ==
    [magic |-> TRUE, mods |-> 1, kernel |-> kernel, files |-> files,
     location |-> location, upper |-> upper, map |-> map]

Small == Machine(200000, <<12, 64, 13252>>, K_ENTRY + 200704, 3072, PC(1024))

\* Room for the files of a ramdisk with n of them on a machine with `upper` blocks.
Room(n, upper) == SPARE - HEADERS - 1 - NODE * (2 + n) - upper \div 8 - MEM_T

MCMachines ==
    {Small,
     [Small EXCEPT !.magic = FALSE],
     [Small EXCEPT !.mods = 0],
     [Small EXCEPT !.files = <<>>],
     \* exactly as much as fits, 24 bytes less, and more
     [Small EXCEPT !.files = <<20000, Room(2, 768) - 20000>>],
     [Small EXCEPT !.files = <<20000, Room(2, 768) - 20024>>],
     [Small EXCEPT !.files = <<60000, 60000>>],
     \* a kernel of whole pages
     Machine(204800, <<0, 13252>>, K_ENTRY + 204800, 7168, PC(2048)),
     Machine(190000, <<5000>>, K_ENTRY + 192512, 2090, Split)}

\* PC's maps are like a PC's, for all of these ramdisks and kernels.
ASSUME PCAssumption == \A m \in MCMachines : m.map = Split \/ LikePC(m)
=============================================================================
