------------------------------- MODULE Shell --------------------------------
(***************************************************************************)
(* The shell (src/programs/owshell.c) and what a program it runs asks of   *)
(* the kernel's heap and ramdisk: malloc, free, cat_initrd, read_initrd    *)
(* and ls_initrd (src/io/initrd.h), after the chunks kmain allocates.      *)
(* There is one thread.  exec_initrd is the module Exec's; here it runs a  *)
(* program, the shell once more, or nothing.                               *)
(*                                                                         *)
(* The shell splits a command line in place.  cmd and tbuf are its two     *)
(* buffers byte by byte, with what earlier lines and the memory's former   *)
(* users have left behind the terminator.  A program frees what it holds   *)
(* in the opposite order and before it returns.                            *)
(***************************************************************************)
EXTENDS Heap, Ramdisk, Sequences, SequencesExt, FiniteSetsExt

CONSTANTS InputSize,    \* INPUT_BUFFER_SIZE
          Chars,        \* the characters of a line, without the space
          Lines,        \* lines that are typed
          Programs,     \* names of files with the extension .owb, the shell's left out
          ShellName,    \* the shell's, without the extension
          FileOrder,    \* the files in the order of the ramdisk's headers
          Leftover,     \* what a new buffer may contain
          ShellSize,    \* length of the shell's file
          MaxLines,     \* bound: lines typed
          MaxHeld,      \* bound: chunks a program holds
          MaxCalls      \* bound: calls of programs

NUL     == "nul"
SPACE   == "space"
BIN_EXT == 4
FNAME   == 128           \* of shell_fname
ATA     == 20            \* sizeof(struct ATA_INTERFACE)

Places == 0 .. InputSize - 1

ASSUME InputAssumption == InputSize \in Nat \ {0}
ASSUME LineAssumption  == /\ NUL \notin Chars /\ SPACE \notin Chars
                          /\ Lines \subseteq Seq(Chars \cup {SPACE})
                          /\ \A l \in Lines : Len(l) < InputSize
ASSUME FileAssumption  == /\ FileOrder \in Seq(Files)
                          /\ ToSet(FileOrder) = Files /\ Len(FileOrder) = Cardinality(Files)
                          /\ {"mtp", "null"} \cap Files = {}
ASSUME ShellAssumption == ShellSize \in 1 .. BufferSize /\ ShellName \notin Programs
\* The heap has room for what boot allocates, a read buffer, and 17 bytes to split from;
\* a read buffer is larger than a program's name.
ASSUME RoomAssumption ==
    /\ BlockSize - (BLKHDR + SLACK) >=
         2 * BufferSize + 17 + ATA + FNAME + ShellSize + 2 * InputSize + 6 * HDR
    /\ InputSize + BIN_EXT <= BufferSize
\* malloc does not clear what it returns.  A terminator in the buffer's last byte is
\* assumed: without one clearchar(tbuf) (owshell.c:43) runs on into the chunk behind.
ASSUME LeftoverAssumption ==
    \A b \in Leftover : b \in [Places -> Chars \cup {NUL}] /\ b[InputSize - 1] = NUL

VARIABLES pc,
          cmd, tbuf,            \* the bytes of the buffers
          name, arg,            \* what bin_file_exec is called with; <<>> is NULL
          bin_name,             \* its buffer, 0 when malloc failed
          held,                 \* the chunks the program holds, the last one first
          shells,               \* shells that wait for the one they started
          buf, file,            \* of cat_initrd and read_initrd
          listed,               \* entries ls_initrd has printed
          clean, line,          \* tbuf was zero at first; the line typed (history)
          stores,               \* the last store: its pointer and bytes (history)
          again,                \* second frees of cat_initrd (history)
          lines, calls          \* lines typed, calls of programs, so far

buffers   == <<cmd, tbuf>>
command   == <<name, arg, bin_name>>
chunks    == <<held, shells>>
kernel    == <<buf, file, listed>>
typing    == <<clean, line, lines>>
shellVars == <<pc, buffers, command, chunks, kernel, typing, stores, again, calls>>

ShellInit == /\ Init
             /\ pc = "boot"
             /\ cmd \in Leftover /\ tbuf \in Leftover
             /\ name = <<>> /\ arg = <<>> /\ bin_name = 0
             /\ clean = (tbuf = [i \in Places |-> NUL])
             /\ held = <<>> /\ shells = 0 /\ buf = 0 /\ file = "none" /\ listed = <<>>
             /\ line = <<>> /\ stores = <<0, 0>>
             /\ again = 0 /\ lines = 0 /\ calls = 0

-----------------------------------------------------------------------------
(* strings.h, on buffers.                                                  *)

\* Wrong: counts the terminator.
StrSize(b) == 1 + Min({i \in Places : b[i] = NUL})

StrLen(b) == Min({i \in Places : b[i] = NUL})

Str(b) == [i \in 1 .. StrLen(b) |-> b[i - 1]]

StrCpy(b, s) == [i \in Places |-> CASE i < Len(s) -> s[i + 1]
                                    [] i = Len(s) -> NUL
                                    [] OTHER      -> b[i]]

ClearChar(b) == [i \in Places |-> IF i < StrLen(b) THEN NUL ELSE b[i]]

\* strchr(com, ' ')
HasSpace(b) == \E i \in 0 .. StrLen(b) - 1 : b[i] = SPACE

\* Wrong: what was behind the shifted text is not cut off.
StrshlUncut(b, amt) ==
    LET size == StrLen(b)
    IN  IF amt >= size THEN ClearChar(b)
        ELSE [i \in Places |-> IF i < size - amt THEN b[i + amt]
                               ELSE IF i >= amt /\ i < size THEN NUL ELSE b[i]]

\* Every byte moved leaves a terminator behind; bytes between the two ranges stay,
\* and substr puts a terminator before them.
Strshl(b, amt) ==
    LET size  == StrLen(b)
        moved == [i \in Places |-> IF i < size - amt THEN b[i + amt]
                                   ELSE IF i >= amt /\ i < size THEN NUL ELSE b[i]]
    IN  IF amt >= size THEN ClearChar(b)
        ELSE IF StrLen(moved) > size - amt THEN [moved EXCEPT ![size - amt] = NUL] ELSE moved

\* strtok's loop ends at the first space or terminator.
TokenLen(src) == Min({i \in Places : src[i] \in {SPACE, NUL}})

\* What strtok leaves in dest, which it does not terminate.
Token(dest, src) ==
    LET clear == ClearChar(dest)
    IN  [i \in Places |-> IF i < TokenLen(src) THEN src[i] ELSE clear[i]]

-----------------------------------------------------------------------------
(* malloc and free as the shell and the kernel use them: without a check.  *)

Alloc(size) == Malloc(size) \/ MallocFails(size)

\* The pointer it returned.
Got == IF DOMAIN live' = DOMAIN live THEN 0 ELSE CHOOSE p \in DOMAIN live' : p \notin DOMAIN live

\* The program's chunks, one more if it got one.
Holding == IF Got = 0 THEN held ELSE <<Got>> \o held

\* free of a pointer that may be 0: k_heapLCABFree finds no block and does not return.
FreePtr(p, to) == IF p = 0 THEN pc' = "hung" /\ UNCHANGED vars ELSE pc' = to /\ Free(p)

\* A free of a chunk that is free already: nothing tells k_heapLCABFree.
FreeAgain(p) == (\E back \in BackMerges(p - HDR) : Release(p - HDR, back)) /\ UNCHANGED live

-----------------------------------------------------------------------------
(* The chunks kmain allocates, in a heap that has room for them, and those  *)
(* of owshell_main.                                                         *)

Keep(from, to, size) ==
    /\ pc = from /\ pc' = to /\ Malloc(size)
    /\ UNCHANGED <<buffers, command, chunks, kernel, typing, stores, again, calls>>

ReadBuffer == Keep("boot", "ata", BufferSize)
NewATA     == Keep("ata", "fname", ATA)
ShellFname == Keep("fname", "load", FNAME)

\* The shell's file is read for its length.
LoadShell == /\ pc = "load" /\ pc' = "unload"
             /\ Malloc(BufferSize) /\ buf' = Got /\ stores' = <<Got, ShellSize>>
             /\ UNCHANGED <<buffers, command, chunks, file, listed, typing, again, calls>>

UnloadShell == /\ pc = "unload" /\ FreePtr(buf, "save")
               /\ buf' = 0 /\ stores' = <<0, 0>>
               /\ UNCHANGED <<buffers, command, chunks, file, listed, typing, again, calls>>

ShellBuf  == Keep("save", "cmd", ShellSize)
AllocCmd  == Keep("cmd", "tbuf", InputSize)
AllocTbuf == Keep("tbuf", "prompt", InputSize)

Boot == ReadBuffer \/ NewATA \/ ShellFname \/ LoadShell \/ UnloadShell \/ ShellBuf
        \/ AllocCmd \/ AllocTbuf

-----------------------------------------------------------------------------
(* The loop of owshell_main.                                               *)

\* owmice_kbd_get_string(cmd)
GetString(l) == /\ pc = "prompt" /\ lines < MaxLines
                /\ pc' = "execute"
                /\ cmd' = StrCpy(cmd, l) /\ line' = l /\ lines' = lines + 1
                /\ UNCHANGED <<vars, tbuf, command, chunks, kernel, clean, stores, again, calls>>

\* execute.  When the line starts with the space, strtok has shifted it already and
\* the rest is taken for the program's name.
Execute ==
    LET clear  == ClearChar(tbuf)
        token  == Token(clear, cmd)
        rest   == Strshl(cmd, TokenLen(cmd) + 1)
    IN  /\ pc = "execute" /\ pc' = "name"
        /\ IF HasSpace(cmd)
           THEN /\ tbuf' = token /\ cmd' = rest
                /\ IF token[0] # NUL THEN name' = Str(token) /\ arg' = <<Str(rest)>>
                                     ELSE name' = Str(rest) /\ arg' = <<>>
           ELSE /\ tbuf' = clear /\ name' = Str(cmd) /\ arg' = <<>>
                /\ UNCHANGED cmd
        /\ UNCHANGED <<vars, bin_name, chunks, kernel, typing, stores, again, calls>>

\* Wrong: no room for the terminator.
NameSizeShort(n) == Len(n) + BIN_EXT

NameSize(n) == Len(n) + BIN_EXT + 1

\* bin_file_exec up to exec_initrd: with bin_name 0 strcpy returns and strcat stores.
MakeName ==
    /\ pc = "name" /\ pc' = "exec"
    /\ Alloc(NameSize(name)) /\ bin_name' = Got
    /\ stores' = <<bin_name', Len(name) + BIN_EXT + 1>>
    /\ UNCHANGED <<buffers, name, arg, chunks, kernel, typing, again, calls>>

ExecInitrd ==
    /\ pc = "exec" /\ (bin_name # 0 => name # ShellName)
    /\ pc' = IF bin_name # 0 /\ name \in Programs THEN "program" ELSE "return"
    /\ UNCHANGED <<vars, buffers, command, chunks, kernel, typing, stores, again, calls>>

\* The command is the shell: its file is loaded again and owshell_main called, which
\* does not return.  The name's buffer and the two buffers of the shell that waits stay.
ExecShell ==
    /\ pc = "exec" /\ bin_name # 0 /\ name = ShellName
    /\ pc' = "newcmd" /\ shells' = shells + 1
    /\ bin_name' = 0 /\ name' = <<>> /\ arg' = <<>> /\ stores' = <<0, 0>>
    /\ UNCHANGED <<vars, buffers, held, kernel, typing, again, calls>>

\* The new shell's buffers.  With one at address 0 it goes on, and is not followed.
NewCmd ==
    /\ pc = "newcmd" /\ Alloc(InputSize)
    /\ pc' = IF Got = 0 THEN "lost" ELSE "newtbuf"
    /\ cmd' \in Leftover
    /\ UNCHANGED <<tbuf, command, chunks, kernel, typing, stores, again, calls>>

NewTbuf ==
    /\ pc = "newtbuf" /\ Alloc(InputSize)
    /\ pc' = IF Got = 0 THEN "lost" ELSE "prompt"
    /\ tbuf' \in Leftover /\ clean' = (tbuf' = [i \in Places |-> NUL])
    /\ UNCHANGED <<cmd, command, chunks, kernel, line, lines, stores, again, calls>>

\* Wrong: the name's buffer is kept.
ForgetName ==
    /\ pc = "return" /\ pc' = "prompt"
    /\ bin_name' = 0 /\ name' = <<>> /\ arg' = <<>> /\ stores' = <<0, 0>>
    /\ UNCHANGED <<vars, buffers, chunks, kernel, typing, again, calls>>

FreeName ==
    /\ pc = "return" /\ FreePtr(bin_name, "prompt")
    /\ bin_name' = 0 /\ name' = <<>> /\ arg' = <<>> /\ stores' = <<0, 0>>
    /\ UNCHANGED <<buffers, chunks, kernel, typing, again, calls>>

-----------------------------------------------------------------------------
(* The program.                                                            *)

At(from) == pc = from /\ UNCHANGED <<buffers, command, typing, shells>>

Step(from, to) == At(from) /\ pc' = to /\ UNCHANGED again

Asks(to) == Step("program", to) /\ calls < MaxCalls /\ calls' = calls + 1

ProgramMalloc(size) ==
    /\ Asks("program") /\ Len(held) < MaxHeld
    /\ Alloc(size) /\ held' = Holding
    /\ UNCHANGED <<kernel, stores>>

ProgramFree ==
    /\ Step("program", "program") /\ held # <<>>
    /\ Free(Head(held)) /\ held' = Tail(held)
    /\ UNCHANGED <<kernel, stores, calls>>

ProgramReturns ==
    /\ Step("program", "return") /\ held = <<>>
    /\ listed' = <<>>
    /\ UNCHANGED <<vars, held, buf, file, stores, calls>>

\* cat_initrd and read_initrd look the name up and allocate a buffer, or return.
Open(f, to) ==
    /\ IF Finds(f)
       THEN /\ Asks(to)
            /\ Alloc(BufferSize) /\ buf' = Got /\ file' = f
       ELSE Asks("program") /\ UNCHANGED <<vars, buf, file>>
    /\ UNCHANGED <<held, listed, stores>>

Cat(f)  == Open(f, "cat")
Read(f) == Len(held) < MaxHeld /\ Open(f, "read")

\* The file is read to the buffer, to address 0 if there is none.
Reads(from, to) ==
    /\ Step(from, to)
    /\ stores' = <<buf, ReadFs(file, BufferSize)>>
    /\ UNCHANGED <<vars, held, kernel, calls>>

CatReads  == Reads("cat", IF ReadFs(file, BufferSize) = 0 THEN "catfails" ELSE "catends")
ReadReads == Reads("read", IF ReadFs(file, BufferSize) = 0 THEN "readends" ELSE "copy")

\* Nothing was read: cat_initrd frees the buffer here, prints nothing, and goes on.
CatFails == /\ At("catfails") /\ FreePtr(buf, "catagain")
            /\ UNCHANGED <<held, kernel, stores, again, calls>>

\* The call is over, and its buffer freed.
Ends == buf' = 0 /\ file' = "none" /\ stores' = <<0, 0>> /\ UNCHANGED <<held, listed, calls>>

CatAgain == /\ At("catagain") /\ pc' = "program" /\ FreeAgain(buf) /\ again' = again + 1
            /\ Ends

\* Wrong: only a failed cat_initrd frees its buffer.
CatKeeps == /\ Step("catends", "program") /\ UNCHANGED vars
            /\ Ends

CatEnds  == /\ At("catends") /\ FreePtr(buf, "program") /\ UNCHANGED again
            /\ Ends

\* read_initrd copies what was read to a chunk of its size, which the program gets.
Copy == LET sz == ReadFs(file, BufferSize)
        IN  /\ Step("copy", "readends")
            /\ Alloc(sz) /\ held' = Holding /\ stores' = <<Got, sz>>
            /\ UNCHANGED <<kernel, calls>>

ReadEnds == /\ At("readends") /\ FreePtr(buf, "program") /\ UNCHANGED again
            /\ Ends

\* Wrong: the index of the first file is that of the directory.
ReaddirFromZero(i) == IF i = 0 THEN "mtp" ELSE IF i >= Len(FileOrder) THEN "null" ELSE FileOrder[i]

\* initrd_readdir on the root: index - 1 >= nroot_nodes ends the list.
Readdir(i) == IF i = 0 THEN "mtp" ELSE IF i - 1 >= Len(FileOrder) THEN "null" ELSE FileOrder[i]

\* ls_initrd: an entry is looked up by its name for its colour.
Ls == /\ Asks("ls") /\ listed' = <<>>
      /\ UNCHANGED <<vars, held, buf, file, stores>>

LsEntry ==
    LET entry == Readdir(Len(listed))
    IN  /\ Step("ls", "ls") /\ entry # "null"
        /\ listed' = Append(listed, [name |-> entry, directory |-> IsDirectory(entry)])
        /\ UNCHANGED <<vars, held, buf, file, stores, calls>>

LsEnds == /\ Step("ls", "program") /\ Readdir(Len(listed)) = "null"
          /\ UNCHANGED <<vars, held, kernel, stores, calls>>

Program == \/ \E size \in Sizes : ProgramMalloc(size)
           \/ \E f \in Files \cup {"mtp", "none"} : Cat(f) \/ Read(f)
           \/ ProgramFree \/ ProgramReturns
           \/ CatReads \/ CatFails \/ CatAgain \/ CatEnds
           \/ ReadReads \/ Copy \/ ReadEnds
           \/ Ls \/ LsEntry \/ LsEnds

ShellNext == \/ Boot
             \/ \E l \in Lines : GetString(l)
             \/ Execute \/ MakeName \/ ExecInitrd \/ FreeName
             \/ ExecShell \/ NewCmd \/ NewTbuf
             \/ Program

ShellSpec == ShellInit /\ [][ShellNext]_<<vars, shellVars>>

-----------------------------------------------------------------------------
(* Properties                                                              *)

ShellTypeOK ==
    /\ pc \in {"boot", "ata", "fname", "load", "unload", "save", "cmd", "tbuf",
               "prompt", "execute", "name", "exec", "return", "program", "cat", "catfails",
               "catagain", "catends", "read", "copy", "readends", "ls", "hung",
               "newcmd", "newtbuf", "lost"}
    /\ cmd \in [Places -> Chars \cup {SPACE, NUL}]
    /\ tbuf \in [Places -> Chars \cup {SPACE, NUL}]
    /\ cmd[InputSize - 1] = NUL /\ tbuf[InputSize - 1] = NUL
    /\ name \in Seq(Chars \cup {SPACE})
    /\ {bin_name, buf, again, shells} \cup ToSet(held) \subseteq Nat

\* A line cut at its first space: the name and, if there is something before the
\* space, the argument.
Cut(l) ==
    IF \A i \in DOMAIN l : l[i] # SPACE THEN <<l, <<>>>>
    ELSE LET k    == Min({i \in DOMAIN l : l[i] = SPACE})
             rest == SubSeq(l, k + 1, Len(l))
         IN  IF k > 1 THEN <<SubSeq(l, 1, k - 1), <<rest>>>> ELSE <<rest, <<>>>>

\* Whatever lines came before and left their bytes in the buffers, the shell runs the
\* program before the line's first space with all that follows as its argument, if
\* tbuf's memory was zero when it was allocated (owshell.c:42-48: strtok does not
\* terminate the word, strings.h:134-165).
SplitExact == pc \in {"name", "exec"} /\ clean => <<name, arg>> = Cut(line)

\* What kmain, bin_file_exec, cat_initrd and read_initrd store through a pointer that
\* malloc gave them goes to a chunk nobody has freed since, and fits into what they asked
\* for (owshell.c:36-38, initrd.h:121-128, 141-142).
StoresOwned ==
    stores[2] > 0 /\ stores[1] # 0 =>
        stores[1] \in DOMAIN live /\ stores[2] <= live[stores[1]]

\* The second free of cat_initrd (initrd.h:145, 153) does the heap's chunks no harm:
\* headers tile the block and no owner loses a byte, and at every prompt the kernel's
\* four chunks and the shell's two are all that is taken, and three more for each shell
\* that was started from a shell and is never returned to: its buffers and the name's
\* (owshell.c:21-22, 36-40).
HeapKept == /\ Tiling /\ OwnedChunks /\ PayloadsClear
            /\ pc = "prompt" => Cardinality(DOMAIN live) = 6 + 3 * shells

\* How far hb->used may have sunk below the bytes in use.  A chunk that is taken whole is
\* counted up to 24 bytes short (heap.h:229-234), a backward merge takes a header off that
\* nobody counted (heap.h:97-101), and the first four headers are not counted; there are
\* seven chunks from boot, one for each line and at most two for each call.  A second free
\* may take the whole block off.
Drift == (HDR + SPARE + HDR) * (8 + lines + 2 * calls) + again * BlockSize

\* Although chunks are never merged backward and read_initrd frees its buffer before
\* the chunk behind it, every command of the first shell finds a free chunk that is large
\* enough for the read buffer.  As long as hb->used has not come round, the test on it (heap.h:187) does
\* not hide the chunk, and bin_file_exec gets its buffer: the kernel stops in a free of
\* 0 (heap.h:164) only in a call of a program, never in the shell's own
\* (owshell.c:36-40, initrd.h:121-128, 141-153).  The shells started from it take three
\* chunks each for good, and in the end no room is left.
BufferAvailable == shells = 0 =>
    /\ pc = "prompt" => FreeFits(BufferSize) # {}
    /\ BlockSize + Drift < Word =>
          /\ pc = "prompt" => EnoughLeft(BufferSize)
          /\ pc \in {"exec", "return", "program", "hung"} => bin_name # 0

\* ls_initrd prints the directory and every file once, in the ramdisk's order, each
\* under a name that the lookup finds (initrd.h:40-63, 156-170: its result is
\* dereferenced unchecked).
ListsAll ==
    pc = "program" /\ listed # <<>> =>
        /\ [i \in DOMAIN listed |-> listed[i].name] = <<"mtp">> \o FileOrder
        /\ \A i \in DOMAIN listed : Finds(listed[i].name) /\ (listed[i].directory <=> i = 1)
=============================================================================
