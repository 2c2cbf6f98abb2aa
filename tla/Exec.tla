-------------------------------- MODULE Exec --------------------------------
(***************************************************************************)
(* Running programs (exec_initrd in src/io/initrd.h, the end of kmain in   *)
(* src/kernel.c).                                                          *)
(*                                                                         *)
(* All programs are linked for one address, EXEC_ADDR, and are called like *)
(* functions, so the frames of a stack of programs share one window of     *)
(* memory.  exec_initrd copies the window's first shell_size bytes to      *)
(* shell_buf before it loads a program and back after the program returns. *)
(*                                                                         *)
(* A byte of the window is known by the frame that put it there: 1 for the *)
(* shell, 2 for the program it started, 0 for bytes no frame has touched.  *)
(***************************************************************************)
EXTENDS Ramdisk, Sequences

CONSTANTS Autostart,    \* what autostart.dat may hold, NoFile if it is missing
          Asked,        \* the names exec_initrd is called with
          Extent,       \* file -> bytes it writes at run time: its image and
                        \*         its uninitialised data, which no file holds
          Callers,      \* the programs that call exec_initrd
          Endless,      \* the programs that never return
          Room,         \* bytes of exec_space
          MaxDepth      \* bound: programs on the stack

NoFile == "none"
NoName == "unset"

Image(f) == ReadFs(f, BufferSize)

ASSUME RoomAssumption    == Room \in Nat /\ BufferSize <= Room
ASSUME ExtentAssumption  == /\ Extent \in [Files -> 0 .. Room]
                            /\ \A f \in Files : Image(f) <= Extent[f]
ASSUME ProgramAssumption == /\ Callers \subseteq Files /\ Endless \subseteq Files
                            /\ Autostart \cap Callers \subseteq Endless
ASSUME NameAssumption    == NoFile \notin Files /\ NoName \notin Files
ASSUME DepthAssumption   == MaxDepth \in Nat

VARIABLES pc,           \* "boot", "running" or "dead"
          stack,        \* the programs called and not yet returned
          window,       \* the bytes at EXEC_ADDR
          shell_fname, shell_size, shell_buf,
          nested        \* a program other than the shell has called exec_initrd (history)

vars == <<pc, stack, window, shell_fname, shell_size, shell_buf, nested>>

Cells   == 0 .. Room - 1
Bytes(n) == 0 .. n - 1         \* the first n bytes
Depth   == Len(stack)
Top     == stack[Depth]

Init == /\ pc = "boot"
        /\ stack = <<>>
        /\ window = [c \in Cells |-> 0]
        /\ shell_fname = NoName /\ shell_size = 0 /\ shell_buf = [c \in {} |-> 0]
        /\ nested = FALSE

-----------------------------------------------------------------------------
(* exec_initrd up to the call of the program.                              *)

\* A program on the stack: whether it has called exec_initrd itself, and what
\* was in the window when it was called itself (history).
Frame(f) == [prog |-> f, called |-> FALSE, left |-> window]

\* The first memmove: every program but the shell is preceded by a copy of what
\* is in the window, whoever runs there and whether or not the file exists.
Saved(f) == IF f = shell_fname THEN shell_buf
                               ELSE [c \in Bytes(shell_size) |-> window[c]]

\* Wrong: copies after the program has been loaded.
LoadThenSave(f, d) ==
    LET loaded == [c \in Cells |-> IF c < Image(f) THEN d ELSE window[c]]
    IN  /\ window' = loaded
        /\ shell_buf' = IF f = shell_fname THEN shell_buf
                                           ELSE [c \in Bytes(shell_size) |-> loaded[c]]

\* The copy, then the file over the window, for the frame d.
Load(f, d) ==
    /\ window' = [c \in Cells |-> IF c < Image(f) THEN d ELSE window[c]]
    /\ shell_buf' = Saved(f)

-----------------------------------------------------------------------------
(* The end of kmain.                                                       *)

\* Wrong: the size of the file, not what is read of it.
BootUnread(f) == shell_fname' = f /\ shell_size' = Length[f]

\* The shell's name, its size, and a buffer for its copies.
Shell(f) == shell_fname' = f /\ shell_size' = Image(f)

\* The shell is read once for its size and run by exec_initrd.  What malloc
\* returns for shell_buf has been touched by no frame.
Boot(f) ==
    /\ pc = "boot"
    /\ IsFile(f) /\ Image(f) > 0
    /\ pc' = "running"
    /\ Shell(f)
    /\ window' = [c \in Cells |-> IF c < Image(f) THEN 1 ELSE window[c]]
    /\ shell_buf' = [c \in Bytes(Image(f)) |-> 0]
    /\ stack' = <<Frame(f)>>
    /\ UNCHANGED nested

\* No autostart.dat, no such file, or nothing to read: die.
BootFails(f) ==
    /\ pc = "boot"
    /\ f = NoFile \/ ~Finds(f) \/ Image(f) = 0
    /\ pc' = "dead"
    /\ shell_fname' = IF f = NoFile THEN shell_fname ELSE f
    /\ UNCHANGED <<stack, window, shell_size, shell_buf, nested>>

-----------------------------------------------------------------------------
(* Steps of the program in control.  One whose code is not in the window    *)
(* takes no step that could be foreseen, and none is modelled.              *)

Intact(d) == \A c \in Bytes(Image(stack[d].prog)) : window[c] = d

Runs == pc = "running" /\ Depth > 0 /\ Intact(Depth)

\* The program stores into its uninitialised data.
Store ==
    /\ Runs
    /\ window' = [c \in Cells |-> IF Image(Top.prog) <= c /\ c < Extent[Top.prog]
                                  THEN Depth ELSE window[c]]
    /\ UNCHANGED <<pc, stack, shell_fname, shell_size, shell_buf, nested>>

\* It calls exec_initrd; a shell started by name replaces what is in the window.
Calls ==
    /\ Runs
    /\ Top.prog \in Callers
    /\ nested' = (nested \/ Top.prog # shell_fname)
    /\ UNCHANGED <<pc, shell_fname, shell_size>>

Marked == [stack EXCEPT ![Depth].called = TRUE]

Exec(f) ==
    /\ Calls
    /\ Depth < MaxDepth
    /\ IsFile(f) /\ Image(f) > 0
    /\ Load(f, Depth + 1)
    /\ stack' = Append(Marked, Frame(f))

\* No such file, a directory, or an empty file: the copy has been made already.
ExecFails(f) ==
    /\ Calls
    /\ ~Finds(f) \/ Image(f) = 0
    /\ shell_buf' = Saved(f)
    /\ stack' = Marked
    /\ UNCHANGED window

\* Wrong: copies one byte too few back.
RestoreShort(f) ==
    window' = IF f = shell_fname THEN window
              ELSE [c \in Cells |-> IF c < shell_size - 1 THEN shell_buf[c] ELSE window[c]]

\* The second memmove, after the program f has returned.
Restore(f) ==
    window' = IF f = shell_fname THEN window
              ELSE [c \in Cells |-> IF c < shell_size THEN shell_buf[c] ELSE window[c]]

\* It returns to exec_initrd, which returns to the program below.
Return ==
    /\ Runs
    /\ Top.prog \notin Endless
    /\ Depth > 1
    /\ Restore(Top.prog)
    /\ stack' = SubSeq(stack, 1, Depth - 1)
    /\ UNCHANGED <<pc, shell_fname, shell_size, shell_buf, nested>>

\* The shell returns to kmain, or a program calls die.
Die ==
    /\ Runs
    /\ pc' = "dead"
    /\ UNCHANGED <<stack, window, shell_fname, shell_size, shell_buf, nested>>

\* The code in control is lost, or the machine has stopped.
Stopped ==
    /\ pc = "dead" \/ (pc = "running" /\ ~Intact(Depth))
    /\ UNCHANGED vars

Next == \/ \E f \in Autostart : Boot(f) \/ BootFails(f)
        \/ \E f \in Asked : Exec(f) \/ ExecFails(f)
        \/ Store \/ Return \/ Die \/ Stopped

Spec == Init /\ [][Next]_vars

-----------------------------------------------------------------------------
(* Properties                                                              *)

Frames == [prog : Files, called : BOOLEAN, left : [Cells -> Nat]]

TypeOK == /\ pc \in {"boot", "running", "dead"}
          /\ stack \in Seq(Frames)
          /\ window \in [Cells -> Nat]
          /\ shell_fname \in Autostart \cup {NoName}
          /\ shell_size \in 0 .. BufferSize
          /\ shell_buf \in [Bytes(shell_size) -> Nat]
          /\ nested \in BOOLEAN

\* One of two programs stays inside the bytes that are copied.
Narrow(f, g) == Extent[f] <= shell_size \/ Extent[g] <= shell_size

\* A program that has called exec_initrd finds its code and data as they were
\* when the program it started returns, at every depth, if that program has not
\* called exec_initrd and one of the two is no larger in memory than the shell's
\* file (initrd.h:178-179, 194-195).
CallerComesBack ==
    [][\A f \in Files :
         /\ Return /\ ~Top.called /\ Top.prog # shell_fname
         /\ f = stack[Depth - 1].prog /\ Narrow(f, Top.prog)
         => \A c \in Bytes(Extent[f]) : window'[c] = Top.left[c]]_vars

\* As long as only the shell starts programs, the program in control is always
\* running its own bytes: the one copy of exec_initrd is enough, whatever the
\* sizes, failed calls and shells started from the shell (initrd.h:176-198).
OwnCode == pc = "running" /\ ~nested => Intact(Depth)

\* A file that does not fit in the read buffer is never run: exec_initrd answers
\* "Invalid file entry or the file is too large." (initrd.h:187).
TooLargeRefused == \A d \in 1 .. Depth : Length[stack[d].prog] <= BufferSize
==============================================================================
