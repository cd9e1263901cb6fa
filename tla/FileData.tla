------------------------------ MODULE FileData ------------------------------
(***************************************************************************)
(* File contents: the inode table and the data blocks in memory, how       *)
(* read_data() and write_data() walk a file's blocks, the file positions   *)
(* read() and write() advance, and the copy on the ATA disk.               *)
(*                                                                         *)
(* Every process holds one descriptor.  A byte of the image is the number  *)
(* of its place on it and byte i of a written buffer is -(i + 1), so that  *)
(* every misplaced byte is visible.  System calls can be preempted, and    *)
(* the build does not optimise: every access to the size, to a place of    *)
(* the block list, to a byte of a block and to a block of the disk is a    *)
(* step.  contents and raced are history: what programs have written, byte *)
(* by byte and without blocks, and the ways in which it is known to go.    *)
(***************************************************************************)
EXTENDS Integers, FiniteSetsExt

CONSTANTS
    Pid,                \* processes, each with one descriptor
    inode_count, data_block_count,
    FS_BLOCK_SIZE,
    SectorsPerBlock,    \* FS_BLOCK_SIZE / ATA_SECTOR_SIZE
    Image,              \* Image[i]: the size and the blocks of inode i as installed
    MaxLen,             \* bound: bytes of one read or write
    MaxCalls,           \* bound: calls of read() and write()
    PosModulus          \* file_pos is unsigned: 2^32, scaled down

Inode == 0 .. (inode_count - 1)
Block == 0 .. (data_block_count - 1)
Offset == 0 .. (FS_BLOCK_SIZE - 1)

\* A place in a file's block list; 0 is no block.
Slots == DOMAIN Image[1].blocks

Tables == [Inode -> [size : Nat, blocks : [Slots -> Block]]]
Data == [Block -> [Offset -> Int]]

\* The bytes a file can have, and what stands for one of which nothing is known.
Byte == 0 .. (FS_BLOCK_SIZE * Cardinality(Slots) - 1)
Lost == data_block_count * FS_BLOCK_SIZE

\* The byte at offset n of a file has a place in its block list.
HasSlot(n) == n \div FS_BLOCK_SIZE \in Slots

ASSUME FileDataAssumption ==
    /\ {FS_BLOCK_SIZE, SectorsPerBlock, MaxLen, MaxCalls, PosModulus} \subseteq Nat \ {0}
    /\ inode_count \in Nat \ {0, 1} /\ data_block_count \in Nat \ {0}
    /\ Slots = 0 .. (Cardinality(Slots) - 1) /\ Cardinality(Slots) \in Nat
    /\ FS_BLOCK_SIZE * Cardinality(Slots) <= PosModulus
    /\ Image \in Tables
    /\ \A i \in Inode : HasSlot(Image[i].size)

VARIABLES
    inode_blocks,       \* the inode table in memory
    data_blocks,        \* the data blocks in memory
    data_block_bitmap,  \* blocks file_system_init() found in use
    disk,               \* inode table and data blocks on the ATA disk
    file,               \* file[p]: inode and file_pos of p's descriptor
    call,               \* call[p]: where p is in read() or write(), and the call's variables
    calls,              \* calls of read() and write() so far, up to MaxCalls
    contents,           \* history: contents[i][k], byte k of inode i as last written
    raced               \* history: inodes whose size another write() changed between a
                        \* write()'s comparison with it and its store

memory == <<inode_blocks, data_blocks>>
history == <<contents, raced>>
vars == <<memory, data_block_bitmap, disk, file, call, calls, history>>

\* pc: where in the call; count: what it was called with; len: how much of that it
\* transfers; done: bytes transferred; slot, block, off: the place in the block list,
\* its block and the offset of the next byte in it; upto: done when this block is; saved:
\* blocks on the disk; seen: the size it compared with; moved: history, the place in the
\* list has been given another block since.
Idle == [op |-> "none", pc |-> "idle", count |-> 0, len |-> 0, done |-> 0, slot |-> 0,
         block |-> 0, off |-> 0, upto |-> 0, saved |-> 0, seen |-> 0, moved |-> FALSE]

Locations == {"idle", "clip", "compare", "size", "alloc", "load", "copy", "save", "return"}

Calls == [op : {"none", "read", "write"}, pc : Locations, count : 0 .. MaxLen, len : 0 .. MaxLen,
          done : 0 .. MaxLen, slot : Nat, block : Block, off : 0 .. FS_BLOCK_SIZE,
          upto : 0 .. MaxLen, saved : Nat, seen : Nat, moved : BOOLEAN]

TypeOK ==
    /\ inode_blocks \in Tables
    /\ data_blocks \in Data
    /\ data_block_bitmap \subseteq Block
    /\ disk \in [inodes : Tables, blocks : Data]
    /\ file \in [Pid -> [inode : Inode, pos : 0 .. (PosModulus - 1)]]
    /\ call \in [Pid -> Calls]
    /\ calls \in 0 .. MaxCalls
    /\ contents \in [Inode -> [Byte -> Int]] /\ raced \subseteq Inode

-----------------------------------------------------------------------------
(* What a file holds, block list and sizes taken as they stand.             *)

\* Byte k of inode i.
ByteAt(inodes, blocks, i, k) ==
    blocks[inodes[i].blocks[k \div FS_BLOCK_SIZE]][k % FS_BLOCK_SIZE]

Contents(inodes, blocks) ==
    [i \in Inode |-> [k \in Byte |-> IF k < inodes[i].size THEN ByteAt(inodes, blocks, i, k)
                                     ELSE Lost]]

\* The blocks file_system_init() marks: those of every file, up to the first 0.
BlocksInUse(inodes) ==
    {b \in Block : \E i \in Inode, k \in Slots :
        /\ inodes[i].blocks[k] = b
        /\ \A j \in Slots : j <= k => inodes[i].blocks[j] # 0}

InstalledBlocks == [b \in Block |-> [k \in Offset |-> b * FS_BLOCK_SIZE + k]]

Init ==
    /\ inode_blocks = Image
    /\ data_blocks = InstalledBlocks
    /\ data_block_bitmap = BlocksInUse(Image)
    /\ disk = [inodes |-> Image, blocks |-> InstalledBlocks]
    /\ file \in {f \in [Pid -> [inode : Inode \ {0}, pos : 0 .. (PosModulus - 1)]] :
                    \A p \in Pid : f[p].pos <= Image[f[p].inode].size}    \* as reading has left it
    /\ call = [p \in Pid |-> Idle]
    /\ calls = 0
    /\ contents = Contents(Image, InstalledBlocks) /\ raced = {}

-----------------------------------------------------------------------------
(* Transfers: what read_data() and write_data() share.                      *)

At(p, l) == call[p].pc = l
Size(p) == inode_blocks[file[p].inode].size
BlockIn(p, slot) == inode_blocks[file[p].inode].blocks[slot]
End(p) == file[p].pos + call[p].len

FirstSlot(p) == file[p].pos \div FS_BLOCK_SIZE
\* The bytes of a transfer that fit in the block it starts in.
FirstPart(p) == FS_BLOCK_SIZE - (file[p].pos % FS_BLOCK_SIZE)

\* The transfer of len bytes starts at the position.
Starts(p, l, len) ==
    call' = [call EXCEPT ![p].pc = l, ![p].len = len, ![p].seen = Size(p),
                         ![p].slot = FirstSlot(p), ![p].off = file[p].pos % FS_BLOCK_SIZE]

\* How far the transfer gets in the block it has come to.
ChunkEnd(p) == Min({call[p].len, call[p].done + FS_BLOCK_SIZE - call[p].off})

\* At the end of a block there is another one, also for no more bytes if a block after
\* the first one was filled.
MoreBlocks(p, c) ==
    \/ c.done < c.len
    \/ c.off = FS_BLOCK_SIZE /\ c.slot # FirstSlot(p)

\* Mutant: the block list is not moved along.
OnwardSameSlot(p, c) ==
    IF c.done < c.upto THEN c
    ELSE IF MoreBlocks(p, c)
    THEN [c EXCEPT !.pc = IF c.op = "read" THEN "load" ELSE "alloc", !.off = 0]
    ELSE [c EXCEPT !.pc = IF c.op = "read" THEN "return" ELSE "save"]

\* Where p goes on, with these variables.
Onward(p, c) ==
    IF c.done < c.upto THEN c
    ELSE IF MoreBlocks(p, c)
    THEN [c EXCEPT !.pc = IF c.op = "read" THEN "load" ELSE "alloc", !.slot = @ + 1, !.off = 0]
    ELSE [c EXCEPT !.pc = IF c.op = "read" THEN "return" ELSE "save"]

\* The place in the block list is read ...
LoadBlock(p) ==
    /\ At(p, "load")
    /\ call' = [call EXCEPT ![p] = Onward(p,
                   [call[p] EXCEPT !.pc = "copy", !.block = BlockIn(p, call[p].slot),
                                   !.upto = ChunkEnd(p), !.moved = FALSE])]
    /\ UNCHANGED <<memory, data_block_bitmap, disk, file, calls, history>>

\* ... a byte of the block is copied ...
NextByteOf(p) ==
    call' = [call EXCEPT ![p] = Onward(p, [call[p] EXCEPT !.done = @ + 1, !.off = @ + 1])]

\* ... and, after the last one and the save, read() or write() moves the position.
Returns(p) ==
    /\ At(p, "return")
    /\ file' = [file EXCEPT ![p].pos = End(p) % PosModulus]
    /\ call' = [call EXCEPT ![p] = Idle]
    /\ UNCHANGED <<memory, data_block_bitmap, disk, calls, history>>

-----------------------------------------------------------------------------
(* read().                                                                  *)

\* read_data() reads nothing at or after the end of the file ...
ReadBegins(p, count) ==
    /\ At(p, "idle") /\ file[p].pos < Size(p)
    /\ calls < MaxCalls /\ calls' = calls + 1
    /\ call' = [call EXCEPT ![p] = [Idle EXCEPT !.op = "read", !.pc = "clip", !.count = count]]
    /\ UNCHANGED <<memory, data_block_bitmap, disk, file, history>>

\* ... and up to it, from the size it then has; if that is smaller by now, the
\* difference wraps.
ReadClips(p) ==
    LET remain == (Size(p) - file[p].pos) % PosModulus
        len    == Min({call[p].count, remain})
    IN  /\ At(p, "clip")
        /\ HasSlot(file[p].pos + len)             \* bound: the block list's end
        /\ Starts(p, "load", len)
        /\ UNCHANGED <<memory, data_block_bitmap, disk, file, calls, history>>

\* The byte that read_data() stores in the buffer.
NextByte(p) == data_blocks[call[p].block][call[p].off]

ReadCopies(p) ==
    /\ At(p, "copy") /\ call[p].op = "read" /\ call[p].done < call[p].upto
    /\ NextByteOf(p)
    /\ UNCHANGED <<memory, data_block_bitmap, disk, file, calls, history>>

-----------------------------------------------------------------------------
(* write().                                                                 *)

\* find_free_datablock(): nothing marks what it returns.
FreeBlocks == {b \in Block \ {0} : b \notin data_block_bitmap}
find_free_datablock == Min(FreeBlocks)

\* Byte i of what is written.
Payload(i) == -(i + 1)

\* Blocks, counted from the boot block, that one transfer to or from the disk
\* covers: one sector for every block of the file system.
Transferred == (inode_count + data_block_count + 1) \div SectorsPerBlock

\* A position past the end of the file writes nothing ...
WriteBegins(p, count) ==
    /\ At(p, "idle") /\ file[p].pos <= Size(p)
    /\ calls < MaxCalls /\ calls' = calls + 1
    /\ HasSlot(file[p].pos + count)               \* bound: the block list's end
    /\ call' = [call EXCEPT ![p] = [Idle EXCEPT !.op = "write", !.pc = "compare", !.count = count]]
    /\ UNCHANGED <<memory, data_block_bitmap, disk, file, history>>

\* Mutant: a write that ends one byte behind the end of the file does not grow it.
GrowsByMore(size, end) == end > size + 1

\* The write changes the file's size.
Grows(size, end) == end > size

\* ... write_data() finds out whether the file grows ...
WriteCompares(p) ==
    LET grows == Grows(Size(p), file[p].pos + call[p].count)
    IN  /\ At(p, "compare")
        /\ Starts(p, IF grows THEN "size" ELSE "alloc", call[p].count)
        /\ UNCHANGED <<memory, data_block_bitmap, disk, file, calls, history>>

\* ... if so, records the size ...
WriteGrows(p) ==
    LET i == file[p].inode
    IN  /\ At(p, "size")
        /\ inode_blocks' = [inode_blocks EXCEPT ![i].size = End(p)]
        /\ call' = [call EXCEPT ![p].pc = "alloc"]
        /\ raced' = IF Size(p) = call[p].seen THEN raced ELSE raced \cup {i}
        /\ UNCHANGED <<data_blocks, data_block_bitmap, disk, file, calls, contents>>

\* ... takes a free block: if it leaves the first one, when that was none, and in every
\* place behind, whatever was there.  (The test for none and the store are one step:
\* nothing marks the block, and two writers would store the same.) ...
TakesBlock(p) ==
    IF call[p].slot = FirstSlot(p)
    THEN FirstPart(p) < call[p].len /\ BlockIn(p, call[p].slot) = 0
    ELSE TRUE

WriteAllocates(p) ==
    LET i == file[p].inode
        slot == call[p].slot
        others == {q \in Pid \ {p} : At(q, "copy") /\ file[q].inode = i /\ call[q].slot = slot}
    IN  /\ At(p, "alloc") /\ TakesBlock(p)
        /\ FreeBlocks # {}                        \* bound: -1 is no block
        /\ inode_blocks' = [inode_blocks EXCEPT ![i].blocks[slot] = find_free_datablock]
        /\ call' = [q \in Pid |-> IF q = p THEN [call[q] EXCEPT !.pc = "load"]
                                  ELSE IF q \in others THEN [call[q] EXCEPT !.moved = TRUE]
                                  ELSE call[q]]
        /\ contents' = [contents EXCEPT ![i] = [k \in Byte |->
               IF k \div FS_BLOCK_SIZE = slot THEN Lost ELSE contents[i][k]]]
        /\ UNCHANGED <<data_blocks, data_block_bitmap, disk, file, calls, raced>>

WriteKeepsBlock(p) ==
    /\ At(p, "alloc") /\ ~TakesBlock(p)
    /\ call' = [call EXCEPT ![p].pc = "load"]
    /\ UNCHANGED <<memory, data_block_bitmap, disk, file, calls, history>>

\* The bytes that share block b's byte k with another: the same block is in two
\* places, or a file has none and all of those have block 0.
Sharing(b, k) ==
    {ik \in Inode \X Byte : /\ inode_blocks[ik[1]].blocks[ik[2] \div FS_BLOCK_SIZE] = b
                            /\ ik[2] % FS_BLOCK_SIZE = k}

\* What a byte stored in block b at k does to what programs know: it is byte n of
\* inode i, unless the file has another block there by now, and of no other.
ContentsAfter(i, n, b, k, byte, moved) ==
    [j \in Inode |-> [m \in Byte |->
        IF j = i /\ m = n THEN (IF moved THEN Lost ELSE byte)
        ELSE IF <<j, m>> \in Sharing(b, k) THEN Lost
        ELSE contents[j][m]]]

\* ... copies ...
WriteCopies(p) ==
    LET n == file[p].pos + call[p].done
    IN  /\ At(p, "copy") /\ call[p].op = "write" /\ call[p].done < call[p].upto
        /\ data_blocks' = [data_blocks EXCEPT ![call[p].block][call[p].off] = Payload(call[p].done)]
        /\ NextByteOf(p)
        /\ contents' = ContentsAfter(file[p].inode, n, call[p].block, n % FS_BLOCK_SIZE,
                                     Payload(call[p].done), call[p].moved)
        /\ UNCHANGED <<inode_blocks, data_block_bitmap, disk, file, calls, raced>>

\* ... and saves the image, from the boot block on, block by block.
WriteSaves(p) ==
    LET b == call[p].saved
    IN  /\ At(p, "save")
        /\ disk' = [inodes |-> [i \in Inode |-> IF 1 + i = b THEN inode_blocks[i] ELSE disk.inodes[i]],
                    blocks |-> [k \in Block |-> IF 1 + inode_count + k = b THEN data_blocks[k]
                                                ELSE disk.blocks[k]]]
        /\ call' = [call EXCEPT ![p].saved = b + 1,
                                ![p].pc = IF b + 1 < Transferred THEN "save" ELSE "return"]
        /\ UNCHANGED <<memory, data_block_bitmap, file, calls, history>>

\* write_data() returns -1 for an empty write; the result is unsigned in
\* write(), so the test for an error is always passed.
WriteFails(p) ==
    /\ At(p, "idle") /\ calls < MaxCalls /\ calls' = calls + 1
    /\ file' = [file EXCEPT ![p].pos = (@ + PosModulus - 1) % PosModulus]
    /\ UNCHANGED <<memory, data_block_bitmap, disk, call, history>>

-----------------------------------------------------------------------------
\* open() of a file, in the descriptor p had: close() has no effect of its own.
open(p, i) ==
    /\ At(p, "idle")
    /\ file' = [file EXCEPT ![p] = [inode |-> i, pos |-> 0]]
    /\ UNCHANGED <<memory, data_block_bitmap, disk, call, calls, history>>

\* Ctrl+C halts p in the middle of a call.
halt(p) ==
    /\ ~At(p, "idle")
    /\ call' = [call EXCEPT ![p] = Idle]
    /\ UNCHANGED <<memory, data_block_bitmap, disk, file, calls, history>>

\* The image of which the transferred part is new and the rest is old.
Merged(new, old) ==
    [inodes |-> [i \in Inode |-> IF 1 + i < Transferred THEN new.inodes[i] ELSE old.inodes[i]],
     blocks |-> [b \in Block |-> IF 1 + inode_count + b < Transferred
                                 THEN new.blocks[b] ELSE old.blocks[b]]]

\* A restart: the boot loader puts the installed image in memory, and
\* file_system_init() reads the disk over it and rebuilds the bitmap.
file_system_init ==
    LET loaded == Merged(disk, [inodes |-> Image, blocks |-> InstalledBlocks])
    IN  /\ inode_blocks' = loaded.inodes
        /\ data_blocks' = loaded.blocks
        /\ data_block_bitmap' = BlocksInUse(loaded.inodes)
        /\ file' = [p \in Pid |-> [inode |-> 1, pos |-> 0]]
        /\ call' = [p \in Pid |-> Idle]
        /\ contents' = Contents(loaded.inodes, loaded.blocks) /\ raced' = {}
        /\ UNCHANGED <<disk, calls>>

read(p) == ReadClips(p) \/ ReadCopies(p)
write(p) ==
    \/ WriteCompares(p) \/ WriteGrows(p) \/ WriteAllocates(p) \/ WriteKeepsBlock(p)
    \/ WriteCopies(p) \/ WriteSaves(p) \/ WriteFails(p)

Next ==
    \/ \E p \in Pid : \/ \E count \in 1 .. MaxLen : ReadBegins(p, count) \/ WriteBegins(p, count)
                      \/ read(p) \/ write(p) \/ LoadBlock(p) \/ Returns(p)
                      \/ \E i \in Inode \ {0} : open(p, i)
                      \/ halt(p)
    \/ file_system_init

Spec == Init /\ [][Next]_vars

-----------------------------------------------------------------------------
(* Properties.                                                              *)

\* A byte that a program has written, or the image had, is where the block list says
\* it is, and inside the file, however the writes of several processes to one file or
\* to several interleave and are cut short.  It is lost only when its place in the
\* list is given another block (filesys.c does that to every block behind the first of
\* a write), when the block is in two places or none and a byte is stored through the
\* other one, or when it is stored while the place gets another block; and it can be
\* outside the file only after a race of two writes for the size.
FilesAsWritten ==
    \A i \in Inode, k \in Byte : contents[i][k] # Lost =>
        /\ ByteAt(inode_blocks, data_blocks, i, k) = contents[i][k]
        /\ i \in raced \/ k < inode_blocks[i].size

\* read() delivers the bytes of the file that follow the descriptor's position, in
\* order, each as it was last written when it is copied, none from behind the end, and
\* fewer than asked for only at the end; unless the place in the block list has been
\* given another block since read() looked there, or the size was raced for.
ReadsContents ==
    \A p \in Pid : call[p].op = "read" =>
        LET n == file[p].pos + call[p].done IN
        /\ /\ At(p, "copy") /\ call[p].done < call[p].upto /\ ~call[p].moved
           /\ contents[file[p].inode][n] # Lost
           => NextByte(p) = contents[file[p].inode][n]
        /\ file[p].inode \in raced \/ At(p, "clip") \/ End(p) <= Size(p)
        /\ At(p, "return") => call[p].done = call[p].len
        /\ At(p, "return") /\ call[p].done < call[p].count =>
              file[p].inode \in raced \/ End(p) = call[p].seen

\* write() changes no byte of any file but those it is asked to.
WriteIsolated ==
    [][\A p \in Pid : WriteCopies(p) =>
        \A i \in Inode \ {0}, k \in Byte :
            \/ k >= inode_blocks[i].size
            \/ i = file[p].inode /\ k = file[p].pos + call[p].done
            \/ ByteAt(inode_blocks', data_blocks', i, k) = ByteAt(inode_blocks, data_blocks, i, k)]_vars
=============================================================================
