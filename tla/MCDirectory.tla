---------------------------- MODULE MCDirectory ----------------------------
(***************************************************************************)
(* A small installed image: the directory itself, with inode 0, and one    *)
(* file, whose inode 4 has the data blocks 1 and 3; one more only fits     *)
(* when a dentry has been deleted.                                         *)
(***************************************************************************)
EXTENDS Directory, TLC

Dir == "."
OneFile == <<[name |-> Dir, type |-> "dir", inode |-> 0],
             [name |-> "a", type |-> "file", inode |-> 4]>>
\* The processes differ in nothing.
PidSymmetry == Permutations(Pid)

Counts == [i \in 0 .. 4 |-> IF i = 4 THEN 2 ELSE 0]

\* Nothing is claimed of a directory that misled calls have changed, and what calls
\* do to it further is not explored.
Unmixed == ~mixed
=============================================================================
