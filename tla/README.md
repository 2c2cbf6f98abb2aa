# Owmice: TLA+ models and proofs

Owmice is a small 32-bit x86 kernel: GRUB loads it with a ramdisk, it sets up
memory, keyboard and timer, and calls the shell named in `autostart.dat`.  There
is one thread, which runs the kernel and every program, and two interrupt
handlers.  Programs are called like functions and call the kernel like a
function; interrupts stay on all the time.  Paging returns before it does
anything and tasking is commented out.

This directory holds TLA+ models of the parts with logic of their own, the TLC
runs that check them on small instances, and TLAPS proofs for every instance.
`PROJECT.json` maps every definition to the lines it models.

## The system

| Part | State | Operations | Talks to |
|---|---|---|---|
| Kernel heap (`mem/heap.h`) | one block of chunks with headers in memory; `used`, `mem_in_use` | add block, alloc (first fit, split), free (merge) | `malloc`, `free` of `mem.h`; every part that allocates |
| Keyboard (`io/keyboard.h`) | `con_input`, `bufpos`, `request`, `keychar`, `shift_down` | `kbd_get_string`, `kbd_get_char`, the IRQ 1 handler | shared variables between handler and thread; echoes on the terminal |
| Timer (`io/timer.h`) | `kticks`, `sleep_amt` | `sleep`, the IRQ 0 handler | wakes every `hlt` each 10 ms |
| Interrupt set-up (`io/idt.h`, `bootstrap.asm`) | IDT, PIC masks | map a gate, unmask, mask all | `kbd_init`, `timer_init`, `die` |
| Ramdisk, VFS (`io/initrd.h`, `io/vfs.h`) | file headers (constant after boot) | finddir, readdir, read, `cat`, `ls` | heap for buffers |
| Program execution (`exec_initrd`, `kernel.c`) | the window at `EXEC_ADDR`, `shell_buf`, `shell_size` | boot the shell, exec, return | ramdisk, shell, programs |
| Physical memory (`mem/mem.h`) | frame bitmap, `blocks_used`, bump pointer | regions, alloc/free frames, bump allocation | multiboot map; decides where the heap lies |
| Terminal (`screen/terminal.h`) | row, column, colour, scroll flag | put character, scroll, backspace, status bar | called by thread and by the keyboard handler |
| ATA (`io/ATA.h`) | none but the drive's | identify, read and write a sector | polled at boot |
| CMOS (`io/cmos.h`) | none | date, time, seconds | `owmice_now`, the shell's banner |
| Strings, printf (`standard/`) | none | pure functions | everyone |
| Shell (`programs/owshell.c`) | `cmd`, `tbuf` | read a line, split it, exec | kernel calls |

What is hard here: handlers between any two instructions of the thread
(keyboard, echo, timer), headers and payloads of the heap in the same memory, one
window of memory and one copy for a stack of programs, and machine words that
wrap.  There is no crash recovery, no network and no second processor.  The
`hazards` of `PROJECT.json` list each of these at its line.

## Modules

| Module | What it is |
|---|---|
| `Allocator` | what `malloc` and `free` promise: live regions inside the memory, disjoint, ended only by their owner |
| `Heap`, `MCHeap`, `HeapProofs` | `heap.h` on one block, its bounded instance, its proofs |
| `Console`, `MCConsole`, `ConsoleProofs` | thread, keyboard handler, timer handler, gates and masks |
| `Ramdisk` | finddir and read, as operators on a constant set of files |
| `Exec`, `MCExec`, `ExecProofs` | the end of `kmain` and `exec_initrd` |
| `PhysMem`, `MCPhysMem`, `PhysMemProofs` | `kmain` up to the heap: ramdisk, bump allocator, frame bitmap |
| `Terminal`, `MCTerminal`, `TerminalProofs`, `ScreenProofs` | the text screen with its two writers; proofs about the cursor, and about what the screen shows |
| `Clock`, `Disk`, `Devices`, `MCDevices`, `DevicesProofs` | the CMOS clock, the ATA driver, and the thread that polls both |
| `Shell`, `MCShell`, `ShellProofs` | the shell's lines and a program's calls; extends `Heap` and `Ramdisk` |

Definitions whose comment starts with "Wrong:" are not part of any
specification.  They are plausible mistakes in the definition that follows; each
property is known to fail when one of them takes its place.

### Heap

Addresses are offsets from the block.  `hdrs` maps the offset of each header to
its `prevsize`, size and used bit.  `Malloc` is one whole call of
`k_heapLCABAlloc`: the test on `used`, the first chunk that fits, the split or
the taking of the whole chunk, the counters.  `MallocFails` is the call that
returns 0.  `Free` is one whole call of `k_heapLCABFree`.  `live`, a history
variable, knows which pointers their owners still hold, and only those are freed.
`Walk` is the way of `k_heapLCABAlloc` from header to header.

Three oddities of the code are modelled as they are:

* the last 24 bytes of the block belong to no chunk, and the walk reads them as
  headers.  They are taken to be zero, as RAM is after QEMU's reset, and appear
  as three free chunks of size 0 (`Phantoms`).  A merge may swallow them;
* after a forward merge with the last of them, a word is stored behind the block
  (`spill`);
* the backward merge starts from the address of a local variable (heap.h:97).
  What it finds there is not known, so `BackMerges` chooses whether it merges.  The
  counters follow.  Its two stores are left out: one goes to the word it found
  (heap.h:132), the other to a word at a distance from there that depends on what it
  found (heap.h:139), and the test before it (heap.h:138) only asks that the word is below
  the block's end.  That word may lie inside the block.  The model assumes that neither
  store meets a header or a payload that is taken; nothing in the code ensures it.

`used` and `mem_in_use` wrap at `Word`.

### Console

The thread is a small program counter: boot steps, `run`, then a call.  Waiting is
three steps, `test` of the condition, the `gap` before `hlt`, and `hlt`, because
an interrupt in the gap does not wake the `hlt` that follows.  `strcpy` and
`clearchar` of `con_input` are taken byte by byte or call by call, since the
handler may run between.  Handlers are single actions: their gates clear the
interrupt flag and nothing nests.  Each branch of `keyboard_handler_main` is an
action.  Keys are known by what the handler tells apart: backspace, release, shift,
arrow or nothing, Enter, a character that shift changes and one it does not.

`attended` is chosen at the start and never changes.  On an attended console keys
are struck only while a program waits for one; otherwise they come at any time.
The properties of the line returned hold on attended consoles; the two violation
runs show what type-ahead does.

### Exec

All programs are linked for the same address, so a stack of programs shares one
window.  A byte of the window is known by the depth of the frame that put it
there.  Before loading, `exec_initrd` copies the first `shell_size` bytes to
`shell_buf`, unless the shell itself is to be loaded, and copies them back when
the program returns.  `Extent` is what a program writes at run time, which is more
than its file: uninitialised data lies behind it.  `left`, a history variable of each
frame, is the window at the moment of the call.  A program whose code has been
overwritten takes no step.

### PhysMem

A `machine` is what the boot loader hands over: kernel size, place and files of the
ramdisk, memory map.  `Verify`, `InitrdInit`, `PmemInit`, one `Region` per entry of the
memory map, `ReserveRamdisk` and `ReserveKernel` follow `kmain`, and `AllocBlock` and
`FreeBlock` are the interface that is there afterwards.  Sizes of structures are the
compiler's (184 bytes for a node, 76 for a file header).  The image's layout is that of
`put_to_ramdisk`: each file starts where the one before it ends (`Off`, `PackedAt`,
`InitrdEnd`).  Bits the kernel tests and sets behind the bitmap are part of the
state: `junk` chooses whether they were set or clear, `stray` collects the addresses that
change after the heap is there.  `LikePC` is true of machines without devices between
their memory and the last 128 MB below 4 GB.  Regions are given by frame and offset since TLC's
integers have 32 bits.

### Terminal

`term_putchar` by the keyboard handler is one action (`Echo`).  The thread's calls are
cut at every load and store of `term_row` and `term_column` (the increment of a variable
in memory is one instruction), and the handler may run at each cut; where a compiler may use either the register or the variable
(`term_row--` behind the test) both happen.  Values of the unsigned `term_column` just
below 2^32 are written as negative numbers.  A backspace that is echoed while the column is
-1, or a character while it is the width, goes further off the row instead of back: the
code's tests do not see it.  `slips` counts these keys.  `quiet` machines get no key while the
thread prints.  On them the content of the screen is followed, together with the `lines`
it should show; `plain` becomes false when something is done after which the two need
not agree.  Positions that programs draw at are on the screen.  Colours and the hardware
cursor are left out.

### Clock, Disk and Devices

The chip's time may advance between any two registers that `cmos_dump` reads, and only
the six that are used count.  `Now` and `GetToday` are the two calls; `get_today` dumps
twice.  A register's byte passes through the signed `char` of `read_port` into 16 bits
(`Stored`): the BCD bytes of the years 80 to 99 come out as 0xFF80 and more.  Seconds since 1970
are kept as days and seconds of the day, and start again after 2^32 seconds (`Wrapped`).
`YearDays` is the loop over the years since 1970; since a sign-extended year is above
40000, whole cycles of 400 years are taken off before it (`DaysOfYears`).  `NowRight` and
`TodayRight` speak of the years until 2079.

The drive is external: from a command on it is busy until it completes or reports an
error.  An absent drive reads as 0xFF, a silent controller as 0, and a packet device
fails every command.  Each look at the status register is a step, as is each word of a
transfer.  `ATA_read28` and `ATA_write28` are modelled although the code does not get to
their calls yet.

`Devices` lets the one thread use one of the two at a time.

### Shell

`Boot` allocates what `kmain` and `owshell_main` allocate, in their order; `kmain`'s read
buffer for the shell's file is freed again in between.  Then lines are typed.  `Execute`
is `execute` with `strchr`, `strtok`, `strshl` and `substr` on the bytes of `cmd` and
`tbuf`, which keep what earlier lines left in them; `Leftover` are the contents that memory
may have at first.  `MakeName`, `ExecInitrd` and `FreeName` are `bin_file_exec`.  The shell is
itself a file of the ramdisk, and may be typed as a command: `ExecShell` starts
`owshell_main` once more, which takes buffers of its own (`NewCmd`, `NewTbuf`) and never
returns, so that the name's buffer and the two of the shell that waits stay taken.  `shells`
counts the shells that wait.  A new shell that gets no buffer goes on with one at address 0
and is not followed (`lost`).  A program
may call `malloc`, `free`, `cat_initrd`, `read_initrd` and `ls_initrd`, and frees what it
holds, the last chunk first, before it returns.  Each `malloc` and `free` of these
functions is a step on the state of `Heap`.  `malloc` may fail: then the functions store to
address 0, and the free of 0 that follows never returns (heap.h:164, `hung`).  `stores` is
the last store through such a pointer.  `Drift` is how far `used` may have sunk below the
bytes in use: up to 32 bytes for every request that was made, and the whole block for every
second free.

## Runs

| Run | Expects | What it shows |
|---|---|---|
| `heap` | pass | `Tiling`, `OwnedChunks`, `PayloadsClear`, `WalkMeetsHeaders`: headers and payloads never meet. `PrecheckSound`: the early test on `used` turns nobody down wrongly. `BackLinksReach`: back links may be stale but never short. `Allocates`: refinement of `Allocator` |
| `heap_merge` | violation of `NoFreeNeighbours` | no backward merge ever happens (heap.h:97 against the comment of heap.h:60) |
| `heap_spill` | violation of `StoresInBlock` | a store past the block (heap.h:121) |
| `console` | pass | `GatesFirst`, `RequestHasWaiter`, `BufferFits`, `EchoedIsReturned`, `SleepLength`, `DeadForever`; under fairness `AnsweredReturns` and `SleepEnds` |
| `console_overflow` | violation of `BufferNeverOverflows` | type-ahead overflows `in_buffer` |
| `console_anykey` | violation of `AnyKeyAnswers` | a full `bufpos` swallows the key that should answer |
| `exec` | pass | `CallerComesBack`, `OwnCode`: when one copy is enough |
| `exec_large` | violation of `TooLargeRefused` | files that are too large are cut and run |
| `physmem` | pass | `MemoryDivided`: nothing in memory overlaps, and the heap overlaps nothing if the rest fits. `StrayBitsMissHeap`: what is changed behind the bitmap. `UsedFollowsBits`: `blocks_used` against the bits. `ReservedFramesStay`: which frames `alloc_block` never hands out |
| `terminal` | pass | `StoresNearScreen` and `CursorSettles`: how far off the screen echoes may go, whatever they interrupt, and where the cursor comes back to. `ScreenShowsText`: the screen against the text printed |
| `devices` | pass | `NowRight`, `TodayRight`: torn readings, calendar and time zone. `TransfersWhole`; under fairness `DiskAnswers` |
| `shell` | pass | `SplitExact`: the split of a line in place. `StoresOwned`, `HeapKept`, `BufferAvailable`: error paths, second frees and a full heap. `ListsAll`: listing against lookup |

Bounds, and why they are enough:

* `heap`: a block of 116 bytes holds up to three chunks besides the phantoms.  With
  requests of 9 and 24 bytes both a split and a taking of the whole chunk happen in
  free chunks of several sizes, merges swallow real chunks and phantoms, and freed
  chunks are reused.  `FirstPrev` covers an absent and a present back link of the
  first chunk.  `MaxDrift` = 24 stops a run when `used` has sunk 24 below zero: the
  counter sinks without end in the code, and this much is three sinking frees.
* `console`: a buffer of two characters reaches its limit, its overflow and every
  length between; one key with and without shift gives two characters; sleeps of 15
  (not a multiple of a tick) and 200 (does not fit an 8-bit signed `sleep_amt`) stand
  for their classes.  `TickWord` = 2 makes `kticks` wrap.  `MaxBuf` stops type-ahead
  at the buffer's size in the passing run and one beyond in the others.
* `exec`: the shell's file has 2 bytes and one more of uninitialised data; the others are
  empty, smaller, as large (and a caller), larger, and larger than the read
  buffer.  `MaxDepth` = 5 allows programs to nest three calls below the shell.
* `physmem`: ramdisks without files, with the smallest room that is left, with none left and
  with too much; memory maps with one and two usable regions, with regions that start
  inside a frame (one of them loses its last frame), lie at 4 GB or above (whose low words the kernel reads), a kernel of
  whole pages; boot without a ramdisk or with a wrong magic number.  `MaxOwned` = 3
  frames handed out at a time.  `die` ends a behaviour, so deadlock is not checked.
* `terminal`: three columns and rows 1 to 3, so that every second line wraps and the third
  scrolls.  `MaxTyped` = 2 characters in the input line and `MaxKeys` = 5 keys: enough for
  several lost updates to add up in one call, for stores up to three cells before the first
  row and for a column behind the last.  Fewer text rows would be too few: with two
  of them a race and `term_undo_nl` reach the status bar, which takes 28 rows on the real
  screen.
* `devices`: 546 pairs of a drive and a time, the times being the first, middle and last days
  of every month of a leap year and another, of February 2000, the last day of 2079, behind
  which the year's byte has its top bit set, and the century's last, at hours where the
  day ends for the clock or for the time zone, some of them a second before the end.  `MaxTicks` = 2 seconds
  pass during a call.  A sector of two words has a first and a last.
* `shell`: buffers of five bytes, lines of every shape of zero to two spaces, two lines in
  a session, of which both may start the shell again.  The heap has room for their buffers: `lost`
  is not reached.
  Three calls of programs (`MaxCalls`), two chunks held at a time (`MaxHeld`) in a heap with
  room for two read buffers: `malloc` fails in each place where it is called by a program.
  `Word` is so small that `used` comes round within a session: with `Word` = 2600 two second
  frees leave `BlockSize + Drift` below it, a third does not, so both sides of the condition
  in `BufferAvailable` are met.  `MaxLines` ends a
  session, so deadlock is not checked.

Fairness: in `console`, weak fairness of the thread's own steps and of the timer
interrupt.  The processor goes on whenever no handler runs, and the PIT ticks every
10 ms from `timer_init` on.  Nothing is assumed of the keyboard.  In `devices`, weak fairness of
the thread inside the disk driver, and of the drive: it comes to an end of a command, well or
not.  The driver has no timeout, so nothing holds for a drive that stays busy for ever.

## Proofs

All hold for every value of the constants that satisfies the named assumptions.

* `HeapProofs`.  The inductive invariant is `TypeOK /\ Tiling /\ OwnedChunks`.
  Neither half is inductive alone: a free needs its pointer to stand behind a header
  to keep the tiling, and the tiling to know that what it swallows is a whole, free
  chunk nobody owns.  From it follow `PayloadsClear` and the refinement
  `Spec => Allocates`; with it, `BackLinksReach` is inductive.  `WalkMeetsHeaders` is shown by
  a least counterexample: a first header that the walk misses would have one before it, which
  the walk meets and steps from to the missed one.  `PrecheckSound` needs `UsedInv`: `used`,
  read as a number that may be negative, is at most the number of bytes that belong to
  headers and taken chunks (`Busy`), since whole chunks are counted short and frees take off
  too much, never too little.  It is proved as long as `used` has not sunk almost as far as a
  word reaches (`NotSunk`, a hypothesis of the theorem): from there the code takes it
  for a large number, after some hundred million calls or more on the real machine.  Assumptions: the block has
  room for its headers, requests are positive, the counters are wider than two blocks.
* `ConsoleProofs`.  Layers above the types, each inductive relative to those
  before: `Control` (where the thread is tells its call, its request and the masks),
  `SleepInv` (what is left of `sleep_amt` and the ticks that have passed make up the
  argument), `BufferInv` (the length of `con_input` never exceeds `bufpos`, and the two
  never add up to more than twice `INPUT_MAXLEN`, although a backspace raises one and
  lowers the other), `LineInv` (screen, buffer and copy agree).  They give `GatesFirst`,
  `RequestHasWaiter`, `SleepLength`, `BufferFits`, `EchoedIsReturned` and `DeadForever`.
* `ExecProofs`.  `Copy` says that while the program on top has not called
  `exec_initrd`, `shell_buf` is the window as its caller left it and nothing behind
  the program's extent has changed; `Sole` that while only the shell starts programs
  all frames below the top are shells.  They give `OwnCode` and `CallerComesBack`.
  Assumption: an autostart program that starts others never returns (the shell loops
  forever).
* `ShellProofs`.  `ShellInv` is the heap's invariant with `TextInv` (what string is in which
  buffer at each step of `execute`, whatever bytes are behind its end), `OwnInv` (the chunks
  that are taken are those the kernel, the shell and the shells that wait, the name, the
  read buffer and the program hold, all different, and how many outlive a command),
  `StoreInv` and `ListInv`.  The heap's half has to be shown again,
  since the second free of `cat_initrd` is no call an owner makes: the chunk is free already,
  and the lemmas say that freeing it again merges at most what is free.  They give
  `SplitExact`, `StoresOwned`, `HeapKept` and `ListsAll`.

  `BufferAvailable` is about the shell that the kernel starts: each shell started from a shell
  takes three chunks for good, and in the end no room is left.  It is about programs that
  return, and that free in reverse order what they hold.  It rests on two further invariants.  `RoomInv` says that there is always a
  reserve: a stretch of chunks, long enough for a read buffer, which starts and ends with
  a chunk and in which nothing is taken but what the running command gives back.  First fit
  may put a program's chunk into it, and frees merge only forward, but a command frees its
  latest chunk first and the name's buffer last, and by the prompt the stretch is one free
  chunk again (`Older` keeps track of that order).  While the kernel has a read buffer of its
  own, that buffer's chunk is the next reserve.  `SinkInv` bounds by `Drift` the bytes in use
  that `used` does not count, so that the test on `used` lets the request pass.  `RoomAssumption`
  asks that the block has room for what boot allocates, a second read buffer and 17 bytes
  to split from, and that the read buffer is larger than a program's name.

  Assumptions besides: lines have no NUL and
  fit the buffer, the ramdisk's names are all different and none is `mtp` or `null`, the
  shell's file is not empty and fits the read buffer.  `LeftoverAssumption`: the last byte of
  the memory a shell gets for `cmd` and `tbuf` is NUL.  `malloc` does not clear memory, so this
  need not be so: `clearchar(tbuf)` (owshell.c:43) would then run on behind the buffer up to
  the first NUL.  It holds in memory that was never used before.
* `TerminalProofs`.  `CursorInv` says for every step of the thread which rows and columns the
  cursor may be at (`RowInv`, `ColumnInv`) and which call the thread is in (`CallInv`).  It
  has to hold for a cursor that the echo of a key moved between the thread's load and
  its store.  `CursorSettles` follows, `TypeOK` needs `ScreenInv` besides.
  `StoresNearScreen` is proved for any number of keys: `ColumnInv` bounds how far the
  column can be outside of its row by `slips`.  Assumptions: at least two columns and
  three text rows, titles no longer than a row, drawings on the screen.
* `ScreenProofs`.  `TextInv` compares the screen with the text at every step: with the place
  the cursor is coming to and the screen as it will be scrolled, while a character is
  being put; with the cursor that was saved, while the status bar is drawn to.
  It gives `ScreenShowsText`.
* `PhysMemProofs`.  `blocks_used` is unsigned, starts at the number of all blocks and is counted
  down for every set bit of a usable region.  That it never falls below 0 needs
  that the bits set at first outside usable regions stay set (`Counted`), for then no
  more than `blocks_max` can have been freed.  Frame 0 is set again uncounted in
  `mem_init_region`, and `CountInv` says that it was set.  `TodoInv` says where in the
  memory map the kernel is, `ReserveInv` which frames were reserved so far.  They give
  `TypeOK`, `UsedFollowsBits` and `ReservedFramesStay`.  Assumptions: the image is on a page
  (as bootstrap.asm's `MBALIGN` asks) and inside memory; usable regions other than the one
  at 0, which the kernel skips, do not start in frame 0 and are no more than `mem_upper`
  tells of; no byte is given out as usable after it was given out as something else.  For
  machines whose memory above a hole is larger than `mem_upper` and whose memory behind
  the bitmap was not clear, `blocks_used` may wrap.

  `LayoutInv` says where boot has put what it placed so far.  The areas ascend (`Ascends`,
  with a lemma for sequences that are joined and one for the files, by a least
  counterexample), which gives `MemoryDivided` for every machine.  `StrayInv` traces every
  byte changed behind the bitmap to a block that is handled after the first usable region.
  `StrayBitsMissHeap` follows for machines `LikePC`: their blocks without a bit are
  either so close behind the last that the byte is between the bitmap and the heap, or so
  high that it is behind the heap's first headers.  This is a hypothesis of the theorem
  since a map with device regions at other places could name any block; whether such a map's
  bytes meet the heap depends on its addresses.  `MCPhysMem` has TLC evaluate it on the
  instance's machines (`PCAssumption`): all but those with a second usable region above a
  hole satisfy it, and on these the run checks the property directly.
* `DevicesProofs`.  `DiskInv` relates the status the thread read last to what the drive has come
  to since: a drive that was busy may be anything, one that was not has stayed.  It gives
  `TransfersWhole` for every number of words.  `ClockInv` says which registers hold the time of
  the call, as long as the minute is the same, and how far the seconds are; the calendar
  is checked month by month (`DayFound`).  It gives `TodayRight` for every time.
  For `NowRight` the minute may have turned (`Turned`), and a torn reading has its first fields
  from before the turn and the rest from after it (`Torn`), which is never before the
  time of the call since the fields are read from the lowest up.  The loop over the
  years is brought to the closed form of the calendar, again by a least counterexample.
  Both theorems end with 2079, like the properties.
  Assumption: less than a minute passes in a call.

Only model-checked are the liveness properties `AnsweredReturns`, `SleepEnds` and `DiskAnswers`:
TLAPS does not reach fairness.  Every other property of a passing run is a theorem;
`PrecheckSound` and `StrayBitsMissHeap` under the hypotheses named above,
while the runs check them on their instances, within their bounds.

## What the checks say about the code

* The heap gives owners disjoint bytes in every order of calls, and writes no header over
  them, in spite of stale back links and drifting counters.  This leaves out the two stores
  of the backward merge, whose places depend on the kernel's stack.  It fragments, since it never merges backward, and it
  stores four bytes behind its block.
* The wait loops lose no wakeup for longer than a tick, but only because the timer ticks.
* A line typed while a program waits comes back exactly.  A line typed ahead may
  overflow the buffer.
* One copy of the shell is enough while only the shell starts programs.  A program that
  calls `exec_initrd`, even in vain, replaces the shell's copy by itself, and its return
  resumes the shell in the wrong code.  `OwnCode` and `CallerComesBack` exclude
  exactly these calls.
* The ramdisk, its nodes, the bitmap and `kernel_mem` must fit into the 30 pages (120 KB)
  that `pmem_init` spares behind the kernel.  Nothing checks it.  The repository's own
  ramdisk takes about 97 KB and leaves some 18 KB.  With less than 24 bytes left, bits set
  for the firmware's region meet the heap's first headers.
* The bitmap protects the ramdisk, regions that are not usable and a quarter of the kernel.
  Of a region that starts inside a frame the last frame may be left out, since its base
  and its length are both rounded down.  Half of the frames that no region names are free in it, video memory among them, and
  `blocks_used` counts from a wrong start.  Only the paging code, which is not reached,
  allocates frames.
* Keys struck while a program prints garble its output.  A backspace echoed inside a newline
  (between terminal.h:131 and :151) leaves `term_column` left of the screen's edge, one place for
  each such key, and a key echoed while the thread is in the status bar's row is then stored
  before video memory, from 0xB7FFE down.  Nothing in the code limits the number of such
  keys.  The cursor finds back to a text row.
* `now` may run ahead by a minute, an hour or as much as a year when the clock is read at such a
  turn, but never behind the moment of the call.  `get_today` errs on the last days of August to December: it takes
  August, October and December for months of 30 days and November for one of 31, September
  has no end, and December is followed by month 13.  From 2080 on both are wrong: the
  year's byte is read as a negative number and the year comes out above 40000.
* The waits of the ATA driver end if the drive's commands do, except in `ATA_write28`, which
  waits for ever when the drive refuses to write or the controller is silent.  Its early
  returns leave interrupts off.  `ATA_read28` returns a sector read behind an error.
* A shell that is started from the shell never gives back its three chunks.  No other
  command leaks.
* The shell splits every line right, if the memory `tbuf` got was zero at first.  Otherwise
  a byte behind the first NUL may join a program's name.
* `cat_initrd` of an empty file or a directory frees its buffer twice.  No chunk suffers, since
  nothing is allocated in between, but `used` loses the whole free chunk once more:
  repeated often enough (three times in the small instance), it comes round to where
  `malloc` refuses every large request with the heap empty.
* At every prompt of the first shell there is a free chunk for the read buffer, however the
  heap is cut up, and the shell's own `malloc` does not fail while `used` has not come round.
* When `malloc` fails for a program, because it holds memory or because the heap is
  cut up, `cat_initrd` and `read_initrd` write the
  file to address 0 and then stop the machine in the free of 0.

## Plan

1. Done: heap with allocator, console, program execution, physical memory, terminal,
   clock and disk, shell with ramdisk calls.
2. Done: proofs of the safety invariants of every component.
3. Done: proofs of what depended on sizes: the early test on `used`, the division of memory,
   the stray bits, the clock's days, the shell's buffer.
4. Left: the liveness properties stay with TLC.

## Not modelled

* `paging.h`: `paging_init` returns before it does anything, so no page table is ever used.
  `task.h`: its include and calls are commented out.  A model of either would show a
  system that does not run.
* `vga.h`, `kbdmap.h` beyond shift, `multiboot.h` beyond `verify_multiboot`: tables, a font and
  declarations.
* `printf`, `itoa`, `atoi`, `trim`, `rand`: formatting and pure arithmetic, without state that
  others depend on.
* `alloc_blocks`, `mmap_first_free_s`, `free_blocks`, `amalloc`, `setprompt`, `write_fs`,
  `open_fs`, `close_fs`: never called by code that is reached.
* The bits of descriptor tables, the PIC's remapping words, the register dump, colours and the
  hardware cursor: output to devices.
* `kticks` read in two halves by programs: the carry comes once in 497 days.
