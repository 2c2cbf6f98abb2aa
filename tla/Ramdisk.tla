------------------------------- MODULE Ramdisk -------------------------------
(***************************************************************************)
(* The ramdisk (src/io/initrd.h) as read through src/io/vfs.h.             *)
(* Nothing writes to it after initrd_init, so it is a constant: the files  *)
(* packed by utils/packinitrd, under different names, and the empty        *)
(* directory "mtp".                                                        *)
(***************************************************************************)
EXTENDS Integers

CONSTANTS Files,        \* names of the files
          Length,       \* file -> header.length
          BufferSize    \* INITRD_BUFFER_SIZE

ASSUME DiskAssumption == /\ Length \in [Files -> Nat]
                         /\ BufferSize \in Nat \ {0}

\* initrd_finddir on fs_root: the directory hides a file of its name.
IsDirectory(name) == name = "mtp"
IsFile(name)      == name \in Files /\ ~IsDirectory(name)
Finds(name)       == IsDirectory(name) \/ IsFile(name)

\* initrd_read from offset 0: the size is cut to the file's length, and only
\* then compared with the buffer's.
InitrdRead(f, size) ==
    LET n == IF size > Length[f] THEN Length[f] ELSE size
    IN  IF n > BufferSize THEN 0 ELSE n

\* read_fs: a directory has no read function.
ReadFs(name, size) == IF IsFile(name) THEN InitrdRead(name, size) ELSE 0
==============================================================================
