------------------------------ MODULE Devices -------------------------------
(***************************************************************************)
(* The disk and the clock, polled by the one thread: kmain looks for a     *)
(* disk, then programs ask for the time or use the disk.                   *)
(***************************************************************************)
EXTENDS Clock, Disk

CONSTANT Machines     \* pairs of a drive and a time

ASSUME DevicesAssumption == Machines \subseteq Drives \X Starts

vars == <<clockVars, diskVars>>

Init == ClockInit /\ DiskInit /\ <<attached, rtc>> \in Machines

ClockTurn == DiskIdle /\ ClockNext /\ UNCHANGED diskVars
DiskTurn  == ClockIdle /\ DiskNext /\ UNCHANGED clockVars

Next == ClockTurn \/ DiskTurn

\* The thread runs on, and a drive comes to an end of a command.
Spec == /\ Init /\ [][Next]_vars
        /\ WF_vars(DiskThread /\ UNCHANGED clockVars)
        /\ WF_vars(Drive /\ UNCHANGED clockVars)

-----------------------------------------------------------------------------
(* Properties                                                              *)

TypeOK == ClockTypeOK /\ DiskTypeOK
=============================================================================
