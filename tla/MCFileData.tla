----------------------------- MODULE MCFileData -----------------------------
(* Small instances of FileData, in which inode 0 is the directory's.  In       *)
(* TwoFiles inode 1 has two blocks, out of order, and a byte free in the last; *)
(* inode 2 has one full block.  In TwoCreated both were just created.  As in   *)
(* the shipped image, the disk transfer covers the boot block and the first    *)
(* inodes only: inode 1 and not inode 2.                                       *)
EXTENDS FileData, TLC

File(size, b0, b1) ==
    [size |-> size, blocks |-> [k \in 0 .. 2 |-> CASE k = 0 -> b0 [] k = 1 -> b1 [] k = 2 -> 0]]

TwoFiles == [i \in 0 .. 2 |-> CASE i = 0 -> File(0, 0, 0)
                                [] i = 1 -> File(3, 4, 1)
                                [] i = 2 -> File(2, 3, 0)]

TwoCreated == [i \in 0 .. 2 |-> File(0, 0, 0)]

\* The processes differ in nothing.
PidSymmetry == Permutations(Pid)
=============================================================================
