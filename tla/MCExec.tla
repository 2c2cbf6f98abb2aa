------------------------------- MODULE MCExec -------------------------------
(***************************************************************************)
(* A ramdisk for TLC.  The shell's file has two bytes, and one more of      *)
(* uninitialised data follows it in memory.  The other programs are smaller *)
(* than the shell, larger, and larger than the read buffer; one of them     *)
(* starts programs itself.                                                  *)
(***************************************************************************)
EXTENDS Exec

FileLengths == [owshell |-> 2, small |-> 1, large |-> 3, runner |-> 2, huge |-> 5, empty |-> 0]
FileExtents == [owshell |-> 3, small |-> 1, large |-> 4, runner |-> 2, huge |-> 4, empty |-> 0]
==============================================================================
