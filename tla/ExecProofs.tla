----------------------------- MODULE ExecProofs -----------------------------
(***************************************************************************)
(* Proofs about exec_initrd, for every ramdisk, every size of programs and *)
(* every depth of the stack of programs.                                   *)
(*                                                                         *)
(* Neither property is inductive.  Copy says what shell_buf holds while a  *)
(* program that has started no other is on top, and Sole which programs    *)
(* can be on the stack while only the shell starts programs.               *)
(***************************************************************************)
EXTENDS Exec, SequenceTheorems, TLAPS

\* The stack grows from the shell, and a program below another has called
\* exec_initrd.
Shape ==
    pc = "running" =>
        /\ Depth > 0 /\ stack[1].prog = shell_fname
        /\ shell_fname \in Autostart /\ shell_size = Image(shell_fname)
        /\ \A d \in 1 .. Depth : stack[d].called => stack[d].prog \in Callers
        /\ \A d \in 1 .. Depth - 1 : stack[d].called

\* The copy is of the window as it was when the program on top was called.
Copy ==
    pc = "running" /\ Depth > 1 /\ ~Top.called =>
        /\ Top.prog # shell_fname =>
               \A c \in Bytes(shell_size) : shell_buf[c] = Top.left[c]
        /\ \A c \in Cells : c >= Extent[Top.prog] => window[c] = Top.left[c]

\* Only the program on top may be another than the shell.
Sole ==
    pc = "running" /\ ~nested =>
        /\ \A d \in 1 .. Depth - 1 : stack[d].prog = shell_fname
        /\ Top.prog # shell_fname => ~Top.called
        /\ Intact(Depth)
        /\ Depth > 1 /\ Top.prog # shell_fname =>
               \A c \in Bytes(shell_size) : Top.left[c] = Depth - 1

ExecInv == TypeOK /\ Shape /\ Copy /\ Sole

\* What is read of a file fits in the window and in what the file's program uses
\* (initrd.h:27-37).
LEMMA ImageFits ==
    ASSUME NEW f \in Files
    PROVE  /\ Image(f) \in Nat /\ Image(f) <= BufferSize
           /\ Image(f) <= Extent[f]
           /\ Extent[f] \in Nat /\ Extent[f] <= Room
           /\ Room \in Nat /\ BufferSize \in Nat /\ BufferSize <= Room
  BY DiskAssumption, RoomAssumption, ExtentAssumption DEF Image, ReadFs, InitrdRead

\* A frame put on the stack starts without a call and remembers the window.
LEMMA FrameFields ==
    ASSUME TypeOK, NEW f \in Files
    PROVE  /\ Frame(f) \in Frames
           /\ Frame(f).prog = f /\ ~Frame(f).called /\ Frame(f).left = window
  BY DEF TypeOK, Frame, Frames

\* The fields of a frame, and of a frame that has been marked as a caller.
LEMMA FramesFields ==
    ASSUME NEW r \in Frames
    PROVE  /\ r.prog \in Files /\ r.called \in BOOLEAN /\ r.left \in [Cells -> Nat]
           /\ [r EXCEPT !.called = TRUE] \in Frames
           /\ [r EXCEPT !.called = TRUE].called = TRUE
           /\ [r EXCEPT !.called = TRUE].prog = r.prog
           /\ [r EXCEPT !.called = TRUE].left = r.left
  BY DEF Frames

\* The program on the stack's top is a file, and so is every one below.
LEMMA StackFields ==
    ASSUME TypeOK
    PROVE  /\ Depth \in Nat
           /\ \A d \in 1 .. Depth : /\ stack[d] \in Frames
                                    /\ stack[d].prog \in Files
                                    /\ stack[d].called \in BOOLEAN
                                    /\ stack[d].left \in [Cells -> Nat]
  <1>1. stack \in Seq(Frames)
    BY DEF TypeOK
  <1>2. Depth \in Nat /\ \A d \in 1 .. Depth : stack[d] \in Frames
    BY <1>1, ElementOfSeq, LenProperties DEF Depth
  <1> QED
    BY <1>2, FramesFields

\* Marking the top changes only its mark.
LEMMA MarkedFields ==
    ASSUME TypeOK, Depth > 0
    PROVE  /\ Marked \in Seq(Frames) /\ Len(Marked) = Depth
           /\ Marked[Depth].called
           /\ Marked[Depth].prog = Top.prog /\ Marked[Depth].left = Top.left
           /\ \A d \in 1 .. Depth - 1 : Marked[d] = stack[d]
  <1>1. stack \in Seq(Frames) /\ Depth = Len(stack) /\ Depth \in 1 .. Len(stack)
    BY LenProperties DEF TypeOK, Depth
  <1>2. /\ Top \in Frames
        /\ [Top EXCEPT !.called = TRUE] \in Frames
        /\ [Top EXCEPT !.called = TRUE].called = TRUE
        /\ [Top EXCEPT !.called = TRUE].prog = Top.prog
        /\ [Top EXCEPT !.called = TRUE].left = Top.left
    <2>1. Top \in Frames
      BY <1>1, StackFields DEF Top
    <2> QED
      BY <2>1, FramesFields
  <1>3. Marked = [stack EXCEPT ![Depth] = [Top EXCEPT !.called = TRUE]]
    BY <1>1 DEF Marked, Top
  <1>4. /\ Marked \in Seq(Frames) /\ Len(Marked) = Len(stack)
        /\ \A d \in 1 .. Len(stack) :
             Marked[d] = IF d = Depth THEN [Top EXCEPT !.called = TRUE] ELSE stack[d]
    BY <1>1, <1>2, <1>3, ExceptSeq
  <1>5. Marked[Depth] = [Top EXCEPT !.called = TRUE]
    BY <1>1, <1>4
  <1>6. Marked[Depth].called /\ Marked[Depth].prog = Top.prog /\ Marked[Depth].left = Top.left
    BY <1>2, <1>5
  <1>7. \A d \in 1 .. Depth - 1 : Marked[d] = stack[d]
    BY <1>1, <1>4
  <1> QED
    BY <1>1, <1>4, <1>6, <1>7

\* exec_initrd puts one frame on the stack.
LEMMA PushFields ==
    ASSUME TypeOK, Depth > 0, NEW f \in Files, stack' = Append(Marked, Frame(f))
    PROVE  /\ stack' \in Seq(Frames) /\ Depth' = Depth + 1
           /\ Top' = Frame(f) /\ stack'[Depth + 1] = Frame(f)
           /\ stack'[Depth].called /\ stack'[Depth].prog = stack[Depth].prog
           /\ \A d \in 1 .. Depth - 1 : stack'[d] = stack[d]
  <1>1. Depth \in Nat /\ Marked \in Seq(Frames) /\ Len(Marked) = Depth /\ Frame(f) \in Frames
    BY MarkedFields, FrameFields, StackFields
  <1>2. /\ stack' \in Seq(Frames) /\ Len(stack') = Depth + 1
        /\ \A d \in 1 .. Depth : stack'[d] = Marked[d]
        /\ stack'[Depth + 1] = Frame(f)
    BY <1>1, AppendProperties
  <1>3. Depth' = Depth + 1 /\ Top' = Frame(f)
    BY <1>2 DEF Depth, Top
  <1>4. stack'[Depth].called /\ stack'[Depth].prog = stack[Depth].prog
    BY <1>1, <1>2, MarkedFields DEF Top
  <1>5. \A d \in 1 .. Depth - 1 : stack'[d] = stack[d]
    BY <1>1, <1>2, MarkedFields
  <1> QED
    BY <1>2, <1>3, <1>4, <1>5

\* A program's return takes one frame off the stack.
LEMMA PopFields ==
    ASSUME TypeOK, Depth > 1, stack' = SubSeq(stack, 1, Depth - 1)
    PROVE  /\ stack' \in Seq(Frames) /\ Depth' = Depth - 1
           /\ \A d \in 1 .. Depth - 1 : stack'[d] = stack[d]
           /\ Top' = stack[Depth - 1]
  <1>1. Depth \in Nat /\ \A d \in 1 .. Depth - 1 : stack[d] \in Frames
    BY StackFields
  <1>2. /\ stack' \in Seq(Frames) /\ Len(stack') = Depth - 1
        /\ \A d \in 1 .. Depth - 1 : stack'[d] = stack[d]
    BY <1>1, SubSeqProperties
  <1> QED
    BY <1>1, <1>2 DEF Depth, Top

\* Before kmain runs the shell nothing is on the stack.
LEMMA InitExec == Init => ExecInv
  <1> SUFFICES ASSUME Init PROVE ExecInv
    OBVIOUS
  <1>1. TypeOK
    <2>1. <<>> \in Seq(Frames)
      BY EmptySeq
    <2>2. window \in [Cells -> Nat]
      BY DEF Init
    <2>3. shell_buf \in [Bytes(shell_size) -> Nat]
      BY DEF Init, Bytes
    <2>4. shell_size \in 0 .. BufferSize
      BY DiskAssumption DEF Init
    <2> QED
      BY <2>1, <2>2, <2>3, <2>4 DEF Init, TypeOK
  <1> QED
    BY <1>1 DEF Init, ExecInv, Shape, Copy, Sole

\* kmain's call of exec_initrd for the shell (kernel.c:97-110).
LEMMA BootInv ==
    ASSUME ExecInv, NEW f \in Autostart, Boot(f)
    PROVE  ExecInv'
  <1>1. f \in Files
    BY DEF Boot, IsFile
  <1>2. /\ Image(f) \in Nat /\ Image(f) <= BufferSize /\ BufferSize \in Nat
        /\ Image(f) <= Room /\ Room \in Nat
    BY <1>1, ImageFits
  <1>3. /\ Frame(f) \in Frames /\ Frame(f).prog = f /\ ~Frame(f).called
        /\ stack' = <<Frame(f)>>
    BY <1>1, FrameFields DEF ExecInv, Boot
  <1>4. /\ stack' \in Seq(Frames) /\ Depth' = 1
        /\ stack'[1] = Frame(f) /\ Top' = Frame(f)
    BY <1>3 DEF Depth, Top
  <1>5. TypeOK'
    <2>1. window \in [Cells -> Nat]
      BY DEF ExecInv, TypeOK
    <2>2. window' \in [Cells -> Nat]
      BY <2>1 DEF Boot
    <2>3. shell_size' = Image(f) /\ shell_fname' = f
      BY DEF Boot, Shell
    <2>4. shell_buf' \in [Bytes(shell_size') -> Nat]
      BY <2>3 DEF Boot
    <2> QED
      BY <1>1, <1>2, <1>4, <2>2, <2>3, <2>4 DEF Boot, ExecInv, TypeOK
  <1>6. Shape'
    BY <1>3, <1>4 DEF Shape, Boot, Shell
  <1>7. Copy'
    BY <1>4 DEF Copy
  <1>8. Sole'
    <2>1. \A c \in Bytes(Image(f)) : c \in Cells
      BY <1>2 DEF Bytes, Cells
    <2>2. \A c \in Bytes(Image(f)) : window'[c] = 1
      BY <1>2, <2>1 DEF Boot, Bytes
    <2>3. Intact(Depth)'
      BY <1>3, <1>4, <2>2 DEF Intact
    <2> QED
      BY <1>3, <1>4, <2>3 DEF Sole
  <1> QED
    BY <1>5, <1>6, <1>7, <1>8 DEF ExecInv

\* A program starts another (initrd.h:176-192): the copy is taken from the window
\* before the file is read over it.
LEMMA ExecStepInv ==
    ASSUME ExecInv, NEW f \in Asked, Exec(f)
    PROVE  ExecInv'
  <1>1. f \in Files /\ TypeOK /\ pc = "running" /\ Depth > 0 /\ Depth \in Nat
    BY StackFields DEF Exec, Calls, Runs, IsFile, ExecInv
  <1>2. /\ Image(f) \in Nat /\ Image(f) <= Extent[f] /\ Extent[f] \in Nat
        /\ BufferSize \in Nat /\ BufferSize <= Room /\ Room \in Nat /\ Image(f) <= Room
    BY <1>1, ImageFits
  <1>3. /\ Frame(f) \in Frames
        /\ Frame(f).prog = f /\ ~Frame(f).called /\ Frame(f).left = window
    BY <1>1, FrameFields
  <1>4. /\ stack' \in Seq(Frames) /\ Depth' = Depth + 1
        /\ Top' = Frame(f) /\ stack'[Depth + 1] = Frame(f)
        /\ stack'[Depth].called /\ stack'[Depth].prog = stack[Depth].prog
        /\ \A d \in 1 .. Depth - 1 : stack'[d] = stack[d]
    BY <1>1, PushFields DEF Exec
  <1>5. /\ pc' = pc /\ shell_fname' = shell_fname /\ shell_size' = shell_size
        /\ shell_size \in Nat /\ shell_size <= Room
        /\ nested' = (nested \/ Top.prog # shell_fname) /\ Top.prog \in Callers
    BY <1>1, <1>2 DEF Exec, Calls, TypeOK
  <1>6. /\ window' = [c \in Cells |-> IF c < Image(f) THEN Depth + 1 ELSE window[c]]
        /\ shell_buf' = Saved(f)
    BY DEF Exec, Load
  <1>7. Bytes(shell_size) \subseteq Cells /\ Bytes(Image(f)) \subseteq Cells
    BY <1>2, <1>5 DEF Bytes, Cells
  <1>8. TypeOK'
    <2>1. window \in [Cells -> Nat] /\ shell_buf \in [Bytes(shell_size) -> Nat]
      BY <1>1 DEF TypeOK
    <2>2. window' \in [Cells -> Nat]
      BY <1>1, <1>6, <2>1
    <2>3. shell_buf' \in [Bytes(shell_size) -> Nat]
      BY <1>6, <1>7, <2>1 DEF Saved
    <2>4. nested' \in BOOLEAN
      BY <1>5
    <2> QED
      BY <1>1, <1>4, <1>5, <2>2, <2>3, <2>4 DEF TypeOK
  <1>9. Shape'
    <2>1. /\ stack[1].prog = shell_fname
          /\ shell_fname \in Autostart /\ shell_size = Image(shell_fname)
          /\ \A d \in 1 .. Depth : stack[d].called => stack[d].prog \in Callers
          /\ \A d \in 1 .. Depth - 1 : stack[d].called
      BY <1>1 DEF ExecInv, Shape
    <2>2. stack'[1].prog = shell_fname
      BY <1>1, <1>4, <2>1
    <2>3. \A d \in 1 .. Depth : stack'[d].called
      BY <1>1, <1>4, <2>1
    <2>4. \A d \in 1 .. Depth : stack'[d].prog \in Callers
      BY <1>1, <1>4, <1>5, <2>1 DEF Top
    <2>5. \A d \in 1 .. Depth + 1 : stack'[d].called => stack'[d].prog \in Callers
      BY <1>1, <1>3, <1>4, <2>4
    <2> QED
      BY <1>1, <1>4, <1>5, <2>1, <2>2, <2>3, <2>5 DEF Shape
  <1>10. Copy'
    <2>1. ASSUME f # shell_fname, NEW c \in Bytes(shell_size)
          PROVE  shell_buf'[c] = window[c]
      BY <1>6, <2>1 DEF Saved
    <2>2. ASSUME NEW c \in Cells, c >= Extent[f]
          PROVE  window'[c] = window[c]
      BY <1>2, <1>6, <2>2 DEF Cells
    <2> QED
      BY <1>3, <1>4, <1>5, <2>1, <2>2 DEF Copy
  <1>11. Sole'
    <2> SUFFICES ASSUME ~nested' PROVE Sole'
      BY DEF Sole
    <2>1. ~nested /\ Top.prog = shell_fname
      BY <1>5
    <2>2. /\ \A d \in 1 .. Depth - 1 : stack[d].prog = shell_fname
          /\ Intact(Depth)
      BY <1>1, <2>1 DEF ExecInv, Sole
    <2>3. \A d \in 1 .. Depth : stack'[d].prog = shell_fname
      BY <1>1, <1>4, <2>1, <2>2 DEF Top
    <2>4. \A c \in Bytes(shell_size) : window[c] = Depth
      BY <1>1, <2>1, <2>2 DEF Intact, ExecInv, Shape, Top
    <2>5. \A c \in Bytes(Image(f)) : window'[c] = Depth + 1
      BY <1>2, <1>6, <1>7 DEF Bytes
    <2>6. Intact(Depth)'
      BY <1>3, <1>4, <2>5 DEF Intact
    <2>7. \A c \in Bytes(shell_size) : Top'.left[c] = Depth' - 1
      BY <1>1, <1>3, <1>4, <2>4
    <2>8. /\ \A d \in 1 .. Depth' - 1 : stack'[d].prog = shell_fname'
          /\ ~Top'.called
      BY <1>1, <1>3, <1>4, <1>5, <2>3
    <2> QED
      BY <1>5, <2>6, <2>7, <2>8 DEF Sole
  <1> QED
    BY <1>8, <1>9, <1>10, <1>11 DEF ExecInv

\* A call that finds nothing to run has made its copy all the same, and its caller
\* counts as one that has called exec_initrd (initrd.h:178-190).
LEMMA ExecFailsInv ==
    ASSUME ExecInv, NEW f \in Asked, ExecFails(f)
    PROVE  ExecInv'
  <1>1. TypeOK /\ pc = "running" /\ Depth > 0 /\ Depth \in Nat
    BY StackFields DEF ExecFails, Calls, Runs, ExecInv
  <1>2. /\ pc' = pc /\ shell_fname' = shell_fname /\ shell_size' = shell_size
        /\ window' = window /\ shell_buf' = Saved(f) /\ stack' = Marked
        /\ nested' = (nested \/ Top.prog # shell_fname) /\ Top.prog \in Callers
    BY DEF ExecFails, Calls
  <1>3. /\ stack' \in Seq(Frames) /\ Depth' = Depth
        /\ stack'[Depth].called /\ stack'[Depth].prog = Top.prog
        /\ Top' = stack'[Depth]
        /\ \A d \in 1 .. Depth - 1 : stack'[d] = stack[d]
    BY <1>1, <1>2, MarkedFields DEF Depth, Top
  <1>4. \A d \in 1 .. Depth : stack'[d].prog = stack[d].prog
    BY <1>1, <1>3 DEF Top
  <1>5. TypeOK'
    <2>1. /\ window \in [Cells -> Nat] /\ shell_buf \in [Bytes(shell_size) -> Nat]
          /\ shell_size \in 0 .. BufferSize
      BY <1>1 DEF TypeOK
    <2>2. Bytes(shell_size) \subseteq Cells
      BY <2>1, RoomAssumption, DiskAssumption DEF Bytes, Cells
    <2>3. shell_buf' \in [Bytes(shell_size) -> Nat]
      BY <1>2, <2>1, <2>2 DEF Saved
    <2>4. nested' \in BOOLEAN
      BY <1>2
    <2> QED
      BY <1>1, <1>2, <1>3, <2>3, <2>4 DEF TypeOK
  <1>6. Shape'
    <2>1. /\ stack[1].prog = shell_fname
          /\ shell_fname \in Autostart /\ shell_size = Image(shell_fname)
          /\ \A d \in 1 .. Depth : stack[d].called => stack[d].prog \in Callers
          /\ \A d \in 1 .. Depth - 1 : stack[d].called
      BY <1>1 DEF ExecInv, Shape
    <2>2. \A d \in 1 .. Depth : stack'[d].prog \in Callers
      BY <1>1, <1>2, <1>4, <2>1 DEF Top
    <2>3. \A d \in 1 .. Depth - 1 : stack'[d].called
      BY <1>3, <2>1
    <2> QED
      BY <1>1, <1>2, <1>3, <1>4, <2>1, <2>2, <2>3 DEF Shape
  <1>7. Copy'
    BY <1>3 DEF Copy
  <1>8. Sole'
    <2> SUFFICES ASSUME ~nested' PROVE Sole'
      BY DEF Sole
    <2>1. ~nested /\ Top.prog = shell_fname
      BY <1>2
    <2>2. /\ \A d \in 1 .. Depth - 1 : stack[d].prog = shell_fname
          /\ Intact(Depth)
      BY <1>1, <2>1 DEF ExecInv, Sole
    <2>3. Intact(Depth)'
      BY <1>1, <1>2, <1>3, <1>4, <2>2 DEF Intact
    <2>4. \A d \in 1 .. Depth - 1 : stack'[d].prog = shell_fname
      BY <1>3, <2>2
    <2>5. Top'.prog = shell_fname
      BY <1>3, <2>1
    <2> QED
      BY <1>2, <1>3, <2>3, <2>4, <2>5 DEF Sole
  <1> QED
    BY <1>5, <1>6, <1>7, <1>8 DEF ExecInv

\* A program that stores into its uninitialised data stays below its extent.
LEMMA StoreInv ==
    ASSUME ExecInv, Store
    PROVE  ExecInv'
  <1>1. TypeOK /\ pc = "running" /\ Depth > 0 /\ Depth \in Nat /\ Top.prog \in Files
    BY StackFields DEF Store, Runs, ExecInv, Top
  <1>2. /\ pc' = pc /\ stack' = stack /\ shell_fname' = shell_fname
        /\ shell_size' = shell_size /\ shell_buf' = shell_buf /\ nested' = nested
        /\ Depth' = Depth /\ Top' = Top
    BY DEF Store, Depth, Top
  <1>3. window' = [c \in Cells |-> IF Image(Top.prog) <= c /\ c < Extent[Top.prog]
                                   THEN Depth ELSE window[c]]
    BY DEF Store
  <1>4. /\ Image(Top.prog) \in Nat /\ Extent[Top.prog] \in Nat /\ Room \in Nat
        /\ Image(Top.prog) <= Room
    BY <1>1, ImageFits
  <1>5. TypeOK'
    <2>1. window \in [Cells -> Nat]
      BY <1>1 DEF TypeOK
    <2>2. window' \in [Cells -> Nat]
      BY <1>1, <1>3, <2>1
    <2> QED
      BY <1>1, <1>2, <2>2 DEF TypeOK
  <1>6. Shape'
    BY <1>1, <1>2 DEF ExecInv, Shape
  <1>7. Copy'
    <2>1. \A c \in Cells : c >= Extent[Top.prog] => window'[c] = window[c]
      BY <1>3, <1>4 DEF Cells
    <2> QED
      BY <1>1, <1>2, <2>1 DEF ExecInv, Copy
  <1>8. Sole'
    <2>1. Intact(Depth)
      BY DEF Store, Runs
    <2>2. \A c \in Bytes(Image(Top.prog)) : window'[c] = window[c]
      BY <1>3, <1>4 DEF Bytes, Cells
    <2>3. Intact(Depth)'
      BY <1>2, <2>1, <2>2 DEF Intact, Top
    <2> QED
      BY <1>1, <1>2, <2>3 DEF ExecInv, Sole
  <1> QED
    BY <1>5, <1>6, <1>7, <1>8 DEF ExecInv

\* A program returns and the copy goes back into the window (initrd.h:194-197).
\* It is not the shell: a shell below another program is a caller, and so never
\* returns.
LEMMA ReturnInv ==
    ASSUME ExecInv, Return
    PROVE  ExecInv'
  <1>1. /\ TypeOK /\ pc = "running" /\ Depth > 1 /\ Depth \in Nat /\ Top.prog \notin Endless
        /\ stack' = SubSeq(stack, 1, Depth - 1) /\ Restore(Top.prog)
    BY StackFields DEF Return, Runs, ExecInv
  <1>2. /\ pc' = pc /\ shell_fname' = shell_fname /\ shell_size' = shell_size
        /\ shell_buf' = shell_buf /\ nested' = nested
    BY DEF Return
  <1>3. /\ stack' \in Seq(Frames) /\ Depth' = Depth - 1
        /\ \A d \in 1 .. Depth - 1 : stack'[d] = stack[d]
        /\ Top' = stack[Depth - 1]
    BY <1>1, PopFields
  <1>4. /\ stack[1].prog = shell_fname
        /\ shell_fname \in Autostart /\ shell_size = Image(shell_fname)
        /\ \A d \in 1 .. Depth : stack[d].called => stack[d].prog \in Callers
        /\ \A d \in 1 .. Depth - 1 : stack[d].called
    BY <1>1 DEF ExecInv, Shape
  <1>5. shell_fname \in Endless /\ Top.prog # shell_fname
    BY <1>1, <1>4, ProgramAssumption
  <1>6. window' = [c \in Cells |-> IF c < shell_size THEN shell_buf[c] ELSE window[c]]
    BY <1>1, <1>5 DEF Restore
  <1>7. /\ window \in [Cells -> Nat] /\ shell_buf \in [Bytes(shell_size) -> Nat]
        /\ shell_size \in Nat /\ shell_size <= Room /\ Room \in Nat
    BY <1>1, RoomAssumption, DiskAssumption DEF TypeOK
  <1>8. \A c \in Bytes(shell_size) : c \in Cells /\ window'[c] = shell_buf[c]
    BY <1>6, <1>7 DEF Bytes, Cells
  <1>9. TypeOK'
    <2>1. window' \in [Cells -> Nat]
      BY <1>6, <1>7 DEF Bytes, Cells
    <2> QED
      BY <1>1, <1>2, <1>3, <2>1 DEF TypeOK
  <1>10. Shape'
    BY <1>1, <1>2, <1>3, <1>4 DEF Shape
  <1>11. Copy'
    BY <1>1, <1>3, <1>4 DEF Copy
  <1>12. Sole'
    <2> SUFFICES ASSUME ~nested PROVE Sole'
      BY <1>2 DEF Sole
    <2>1. /\ \A d \in 1 .. Depth - 1 : stack[d].prog = shell_fname
          /\ ~Top.called
          /\ \A c \in Bytes(shell_size) : Top.left[c] = Depth - 1
      BY <1>1, <1>5 DEF ExecInv, Sole
    <2>2. \A c \in Bytes(shell_size) : shell_buf[c] = Top.left[c]
      BY <1>1, <1>5, <2>1 DEF ExecInv, Copy
    <2>3. \A c \in Bytes(shell_size) : window'[c] = Depth - 1
      BY <1>8, <2>1, <2>2
    <2>4. stack'[Depth - 1].prog = shell_fname /\ Top'.prog = shell_fname
      BY <1>1, <1>3, <2>1
    <2>5. Intact(Depth)'
      BY <1>3, <1>4, <2>3, <2>4 DEF Intact
    <2>6. \A d \in 1 .. Depth' - 1 : stack'[d].prog = shell_fname'
      BY <1>1, <1>2, <1>3, <2>1
    <2> QED
      BY <1>2, <2>4, <2>5, <2>6 DEF Sole
  <1> QED
    BY <1>9, <1>10, <1>11, <1>12 DEF ExecInv

\* Every step of kmain or a program keeps the invariant.
LEMMA StepExec == ExecInv /\ [Next]_vars => ExecInv'
  <1> SUFFICES ASSUME ExecInv, [Next]_vars PROVE ExecInv'
    OBVIOUS
  <1>1. ASSUME UNCHANGED vars PROVE ExecInv'
    BY <1>1 DEF vars, ExecInv, TypeOK, Shape, Copy, Sole, Depth, Top, Intact
  <1>2. ASSUME UNCHANGED <<stack, window, shell_size, shell_buf, nested>>,
               pc' = "dead", shell_fname' \in Autostart \cup {shell_fname}
        PROVE  ExecInv'
    BY <1>2 DEF ExecInv, TypeOK, Shape, Copy, Sole
  <1>3. ASSUME NEW f \in Autostart, BootFails(f) PROVE ExecInv'
    BY <1>2, <1>3 DEF BootFails
  <1>4. ASSUME Die PROVE ExecInv'
    BY <1>2, <1>4 DEF Die
  <1>5. ASSUME Stopped PROVE ExecInv'
    BY <1>1, <1>5 DEF Stopped
  <1> QED
    BY <1>1, <1>3, <1>4, <1>5, BootInv, ExecStepInv, ExecFailsInv, StoreInv, ReturnInv
       DEF Next

\* The inductive invariant holds always.
THEOREM ExecInvariance == Spec => []ExecInv
  BY InitExec, StepExec, PTL DEF Spec

\* The variables of exec_initrd always have their types: the window is never
\* written outside exec_space, shell_buf never outside its shell_size bytes.
THEOREM ExecTypes == Spec => []TypeOK
  <1>1. ExecInv => TypeOK
    BY DEF ExecInv
  <1> QED
    BY <1>1, ExecInvariance, PTL

\* While only the shell starts programs, the program in control always runs its own
\* bytes (initrd.h:176-198), for every ramdisk and every depth.
THEOREM ShellOwnsItsCode == Spec => []OwnCode
  <1>1. ExecInv => OwnCode
    BY DEF ExecInv, Sole, OwnCode
  <1> QED
    BY <1>1, ExecInvariance, PTL

\* The caller of a program that has not called exec_initrd finds code and data as
\* it left them, at every depth, if one of the two stays inside the copied bytes.
THEOREM CallerAlwaysComesBack == Spec => CallerComesBack
  <1>1. ASSUME ExecInv, NEW f \in Files, Return, ~Top.called, Top.prog # shell_fname,
               f = stack[Depth - 1].prog, Narrow(f, Top.prog),
               NEW c \in Bytes(Extent[f])
        PROVE  window'[c] = Top.left[c]
    <2>1. TypeOK /\ pc = "running" /\ Depth > 1 /\ Depth \in Nat /\ Top.prog \in Files
      BY <1>1, StackFields DEF Return, Runs, ExecInv, Top
    <2>2. /\ \A b \in Bytes(shell_size) : shell_buf[b] = Top.left[b]
          /\ \A b \in Cells : b >= Extent[Top.prog] => window[b] = Top.left[b]
      BY <1>1, <2>1 DEF ExecInv, Copy
    <2>3. window' = [b \in Cells |-> IF b < shell_size THEN shell_buf[b] ELSE window[b]]
      BY <1>1 DEF Return, Restore
    <2>4. /\ Extent[f] \in Nat /\ Extent[f] <= Room /\ Room \in Nat
          /\ Extent[Top.prog] \in Nat /\ shell_size \in Nat
      BY <1>1, <2>1, ImageFits, DiskAssumption DEF TypeOK
    <2>5. c \in Cells /\ c \in Nat
      BY <2>4 DEF Bytes, Cells
    <2>6. CASE c < shell_size
      BY <2>2, <2>3, <2>4, <2>5, <2>6 DEF Bytes
    <2>7. CASE ~(c < shell_size)
      <3>1. Extent[Top.prog] <= shell_size
        BY <1>1, <2>4, <2>5, <2>7 DEF Narrow, Bytes
      <3> QED
        BY <2>2, <2>3, <2>4, <2>5, <2>7, <3>1
    <2> QED
      BY <2>6, <2>7
  <1>2. ExecInv /\ [Next]_vars =>
          [\A f \in Files :
             /\ Return /\ ~Top.called /\ Top.prog # shell_fname
             /\ f = stack[Depth - 1].prog /\ Narrow(f, Top.prog)
             => \A c \in Bytes(Extent[f]) : window'[c] = Top.left[c]]_vars
    BY <1>1
  <1> QED
    BY <1>2, ExecInvariance, PTL DEF Spec, CallerComesBack
==============================================================================
