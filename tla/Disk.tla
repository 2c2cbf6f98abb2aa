-------------------------------- MODULE Disk --------------------------------
(***************************************************************************)
(* The ATA driver (src/io/ATA.h), which polls the drive's status register  *)
(* and moves a sector word by word.  kmain's test_disk calls ATA_identify; *)
(* ATA_read28 and ATA_write28 are the rest of the interface, with no call  *)
(* that is reached yet (kernel.c:45).  Where newATA and ATA_read28 call    *)
(* malloc, the heap is the module Heap's.                                  *)
(*                                                                         *)
(* The drive is external.  It goes busy with a command and becomes ready,  *)
(* wants data moved or reports an error when it likes.                     *)
(***************************************************************************)
EXTENDS Integers

CONSTANTS Drives,     \* what may be connected: "absent", "silent", "packet", "disk"
          Words       \* words of a sector (256)

ASSUME WordsAssumption  == Words \in Nat \ {0}
ASSUME DrivesAssumption == Drives \subseteq {"absent", "silent", "packet", "disk"}

VARIABLES attached,   \* the kind of drive
          drive,      \* "ready", "busy", "data" or "error"
          pending,    \* words the drive has to move
          command,    \* the command it was given last
          diskCall,   \* "none", or the function the thread is in
          step,       \* where the thread is in it
          status,     \* the status read last: a set of bits
          count,      \* words moved by the loop
          moved,      \* those of them the drive took part in (history)
          interrupts, \* the processor's interrupt flag
          returned    \* what the last call returned

driveVars  == <<drive, pending, command>>
threadVars == <<diskCall, step, status, count, moved, interrupts, returned>>
diskVars   == <<attached, driveVars, threadVars>>

AllBits == {"BSY", "RDY", "DF", "DRQ", "ERR"}

\* test_disk has just called ATA_identify.
DiskInit == /\ attached \in Drives
            /\ drive = "ready" /\ pending = 0 /\ command = "none"
            /\ diskCall = "identify" /\ step = "select"
            /\ status = {} /\ count = 0 /\ moved = 0
            /\ interrupts = TRUE /\ returned = "none"

-----------------------------------------------------------------------------
(* The drive.                                                              *)

\* The bus floats high without a drive.  A silent controller answers 0.
Present == attached \in {"packet", "disk"}

Status == IF ~Present THEN IF attached = "absent" THEN AllBits ELSE {}
          ELSE CASE drive = "ready" -> {"RDY"}
                 [] drive = "busy"  -> {"BSY"}
                 [] drive = "data"  -> {"RDY", "DRQ"}
                 [] drive = "error" -> {"RDY", "ERR"}

Command(c) == /\ command' = c /\ pending' = 0
              /\ drive' = IF Present THEN "busy" ELSE drive

\* A packet drive refuses all of these commands, a disk any that it cannot do.
Completes == /\ drive = "busy" /\ attached = "disk"
             /\ IF command = "flush" THEN drive' = "ready" /\ UNCHANGED pending
                                     ELSE drive' = "data" /\ pending' = Words
             /\ UNCHANGED <<attached, command, threadVars>>

Fails == /\ drive = "busy"
         /\ drive' = "error"
         /\ UNCHANGED <<attached, pending, command, threadVars>>

\* The drive's side of read_port16 or port_write16.  Behind the last word of a write
\* the drive is busy for a moment, which the model leaves out.
MovesWord == IF drive = "data"
             THEN /\ moved' = moved + 1
                  /\ pending' = pending - 1
                  /\ drive' = IF pending = 1 THEN "ready" ELSE "data"
             ELSE UNCHANGED <<moved, pending, drive>>

-----------------------------------------------------------------------------
(* The thread.                                                             *)

Goto(from, to) == /\ step = from /\ step' = to
                  /\ UNCHANGED <<attached, diskCall, returned>>

Return(value) == /\ diskCall' = "none" /\ step' = "none" /\ returned' = value
                 /\ status' = {} /\ UNCHANGED <<attached, count, moved>>

DiskIdle == diskCall = "none"

Call(f) == /\ DiskIdle
           /\ diskCall' = f /\ step' = "select"
           /\ status' = {} /\ count' = 0 /\ moved' = 0 /\ returned' = "none"
           /\ interrupts' = IF f = "write" THEN FALSE ELSE interrupts
           /\ UNCHANGED <<attached, driveVars>>

\* ATA_identify, ATA_read28 and ATA_write28; cli is the first thing the last one does.
Identify == Call("identify")
Read28   == Call("read")
Write28  == Call("write")

\* A sector that 28 bits cannot name is refused before anything is done.
BeyondRange == /\ DiskIdle /\ returned' \in {"null", "1"}
               /\ UNCHANGED <<attached, driveVars, diskCall, step, status, count, moved, interrupts>>

\* Drive select, and a look at the status: without a drive the calls fail here.
Failure == CASE diskCall = "read" -> "null" [] OTHER -> "1"

Select == /\ step = "select"
          /\ IF Status = AllBits
             THEN Return(Failure) /\ UNCHANGED <<driveVars, interrupts>>
             ELSE /\ Goto("select", IF diskCall = "write" THEN "accept" ELSE "first")
                  /\ Command(diskCall) /\ status' = Status
                  /\ UNCHANGED <<count, moved, interrupts>>

\* The first status behind the command.  Only identify looks for 0.
FirstStatus ==
    /\ step = "first"
    /\ IF diskCall = "identify" /\ Status = {}
       THEN Return("1")
       ELSE Goto("first", "poll") /\ status' = Status /\ UNCHANGED <<count, moved>>
    /\ UNCHANGED <<driveVars, interrupts>>

Waits(s) == "BSY" \in s /\ "ERR" \notin s

\* Wrong: waits for an error to go away.
PollBusyOnly ==
    /\ step = "poll"
    /\ IF "BSY" \in status \/ "ERR" \in status
       THEN Goto("poll", "poll") /\ status' = Status /\ UNCHANGED <<count, moved>>
       ELSE Goto("poll", "move") /\ count' = 0 /\ moved' = 0 /\ UNCHANGED status
    /\ UNCHANGED <<driveVars, interrupts>>

\* The loop of identify and read28.  Only identify looks for an error behind it.
Poll ==
    /\ step = "poll"
    /\ IF Waits(status)
       THEN Goto("poll", "poll") /\ status' = Status /\ UNCHANGED <<count, moved>>
       ELSE IF diskCall = "identify" /\ "ERR" \in status
       THEN Return("1")
       ELSE Goto("poll", "move") /\ UNCHANGED <<status, count, moved>>
    /\ UNCHANGED <<driveVars, interrupts>>

\* The loop of write28 starts with the status of before the command and does not
\* end with an error.
Accept ==
    /\ step = "accept"
    /\ IF "BSY" \in status \/ "DRQ" \notin status
       THEN Goto("accept", "accept") /\ status' = Status /\ UNCHANGED <<count, moved>>
       ELSE IF "ERR" \in status
       THEN Return("2")
       ELSE Goto("accept", "move") /\ UNCHANGED <<status, count, moved>>
    /\ UNCHANGED <<driveVars, interrupts>>

\* Wrong: one word less.
MoveButLast ==
    /\ step = "move"
    /\ IF count + 1 < Words
       THEN /\ Goto("move", "move") /\ count' = count + 1 /\ MovesWord
            /\ UNCHANGED <<command, status, interrupts>>
       ELSE /\ IF diskCall = "write"
               THEN Goto("move", "flush") /\ Command("flush") /\ UNCHANGED <<status, count, moved>>
               ELSE Return("0") /\ UNCHANGED driveVars
            /\ UNCHANGED interrupts

\* Wrong: one word more.
MoveOneMore ==
    /\ step = "move"
    /\ IF count <= Words
       THEN /\ Goto("move", "move") /\ count' = count + 1 /\ MovesWord
            /\ UNCHANGED <<command, status, interrupts>>
       ELSE /\ IF diskCall = "write"
               THEN Goto("move", "flush") /\ Command("flush") /\ UNCHANGED <<status, count, moved>>
               ELSE Return("0") /\ UNCHANGED driveVars
            /\ UNCHANGED interrupts

\* The words, whatever the drive's state, and then the end or the flush command.
Move ==
    /\ step = "move"
    /\ IF count < Words
       THEN /\ Goto("move", "move") /\ count' = count + 1 /\ MovesWord
            /\ UNCHANGED <<command, status, interrupts>>
       ELSE /\ IF diskCall = "write"
               THEN Goto("move", "flush") /\ Command("flush") /\ UNCHANGED <<status, count, moved>>
               ELSE Return("0") /\ UNCHANGED driveVars
            /\ UNCHANGED interrupts

\* Five readings of the status, of which the last counts.
Flush ==
    /\ step = "flush"
    /\ IF Status = {}
       THEN Return("3")
       ELSE Goto("flush", "flushing") /\ status' = Status /\ UNCHANGED <<count, moved>>
    /\ UNCHANGED <<driveVars, interrupts>>

Flushing ==
    /\ step = "flushing"
    /\ IF Waits(status)
       THEN /\ Goto("flushing", "flushing") /\ status' = Status
            /\ UNCHANGED <<count, moved, interrupts>>
       ELSE Return("0") /\ interrupts' = TRUE
    /\ UNCHANGED driveVars

DiskThread == Select \/ FirstStatus \/ Poll \/ Accept \/ Move \/ Flush \/ Flushing
Drive      == Completes \/ Fails
DiskCalls  == Identify \/ Read28 \/ Write28 \/ BeyondRange
DiskNext   == DiskCalls \/ DiskThread \/ Drive

-----------------------------------------------------------------------------
(* Properties                                                              *)

DiskTypeOK ==
    /\ drive \in {"ready", "busy", "data", "error"}
    /\ pending \in 0 .. Words /\ count \in 0 .. Words /\ moved \in 0 .. count
    /\ diskCall \in {"none", "identify", "read", "write"}
    /\ (diskCall = "none") = (step = "none")
    /\ status \subseteq AllBits /\ interrupts \in BOOLEAN

\* A transfer is over when the call is: no call leaves words behind for which the drive
\* would still wait when it gets the next command (ATA.h:55, 80, 115), and a call that
\* was answered moved all of them, unless read28 went on behind an error (ATA.h:77-84).
TransfersWhole ==
    DiskIdle => /\ drive # "data"
                /\ returned = "0" /\ drive # "error" /\ Present => moved = Words

\* Every wait of the driver ends, for a drive that comes to an end of its command
\* (ATA.h:49, 77, 128), but for the one in write28 when the drive refuses to write
\* or is not there at all (ATA.h:109).
Hangs == step = "accept" /\ (drive = "error" \/ attached = "silent")
DiskAnswers == []<>(DiskIdle \/ Hangs)
=============================================================================
