--------------------------- MODULE FileDataProofs ---------------------------
(***************************************************************************)
(* FileData for every number of files, blocks and processes, block size    *)
(* and block list: a byte that was written is where the block list says,   *)
(* and read() delivers it, however calls interleave and are cut short.     *)
(*                                                                         *)
(* Both properties come from one fact of arithmetic, that a quotient and a *)
(* remainder are the only pair that makes up a number: the place in the    *)
(* block list and the offset to which a call has come, counted up as it    *)
(* crosses block boundaries, are those of byte pos + done of the file.     *)
(* The invariant says so of every call under way, keeps sizes and calls    *)
(* within the block list, and relates the size a write compared with to    *)
(* the one it stores.                                                      *)
(*                                                                         *)
(* The second part is about the directory on the same disk, module Volume. *)
(* What a cut save loses follows from two places of every kept name, one   *)
(* in memory and one on the disk: a dentry only ever moves to the front,   *)
(* so that the sector its memory place is in is written no later than the  *)
(* one that holds its disk place is overwritten.                           *)
(***************************************************************************)
EXTENDS FileData, Sequences, FiniteSetTheorems, WellFoundedInduction, TLAPS

CONSTANTS Names, OnImage, Places, FirstSector, PerSector

VARIABLES names, entries, stored, sector, kept, deleted, deletions, gone, stale

V == INSTANCE Volume WITH Image <- OnImage, count <- entries, disk <- stored

\* What the assumption on the constants says of the numbers.
LEMMA Sizes == FS_BLOCK_SIZE \in Nat \ {0} /\ MaxLen \in Nat \ {0} /\ MaxCalls \in Nat \ {0}
               /\ PosModulus \in Nat \ {0} /\ SectorsPerBlock \in Nat \ {0}
  BY FileDataAssumption

\* Multiplication is monotonic.
LEMMA MulMono ==
    ASSUME NEW a \in Nat, NEW b \in Nat, NEW c \in Nat, a <= b
    PROVE  c * a <= c * b
  OBVIOUS

\* Quotient and remainder ...
LEMMA DivMod ==
    ASSUME NEW a \in Nat, NEW b \in Nat \ {0}
    PROVE  /\ a \div b \in Nat /\ a % b \in 0 .. (b - 1)
           /\ a = b * (a \div b) + (a % b)
  OBVIOUS

\* ... are the only ones.
LEMMA DivModUnique ==
    ASSUME NEW a \in Nat, NEW b \in Nat \ {0}, NEW q \in Nat, NEW r \in 0 .. (b - 1), a = b * q + r
    PROVE  a \div b = q /\ a % b = r
  <1> DEFINE d == a \div b
             m == a % b
  <1>1. d \in Nat /\ m \in 0 .. (b - 1) /\ a = b * d + m
    BY DivMod
  <1> HIDE DEF d, m
  <1>2. ~(q < d)
    <2> SUFFICES ASSUME q + 1 <= d PROVE FALSE
      BY <1>1
    <2>1. b * (q + 1) <= b * d
      BY <1>1, MulMono
    <2>2. b * (q + 1) = b * q + b
      OBVIOUS
    <2>3. QED
      BY <1>1, <2>1, <2>2
  <1>3. ~(d < q)
    <2> SUFFICES ASSUME d + 1 <= q PROVE FALSE
      BY <1>1
    <2>1. b * (d + 1) <= b * q
      BY <1>1, MulMono
    <2>2. b * (d + 1) = b * d + b
      BY <1>1
    <2>3. QED
      BY <1>1, <2>1, <2>2
  <1>4. d = q
    BY <1>1, <1>2, <1>3
  <1>5. m = r
    BY <1>1, <1>4
  <1>6. QED
    BY <1>4, <1>5 DEF d, m
\* Quotients grow with what is divided.
LEMMA DivMono ==
    ASSUME NEW m \in Nat, NEW n \in Nat, n <= m
    PROVE  n \div FS_BLOCK_SIZE <= m \div FS_BLOCK_SIZE
  <1> DEFINE b == FS_BLOCK_SIZE
             d == n \div b
             e == m \div b
  <1>1. b \in Nat \ {0} /\ d \in Nat /\ e \in Nat
        /\ n = b * d + (n % b) /\ m = b * e + (m % b) /\ m % b \in 0 .. (b - 1) /\ n % b \in 0 .. (b - 1)
    BY Sizes, DivMod
  <1> HIDE DEF d, e, b
  <1>2. d <= e
    <2> SUFFICES ASSUME e + 1 <= d PROVE FALSE
      BY <1>1
    <2>1. b * (e + 1) <= b * d /\ b * (e + 1) = b * e + b
      BY <1>1, MulMono
    <2>2. QED
      BY <1>1, <2>1
  <1>3. QED
    BY <1>2 DEF b, d, e

\* A file that has a place for byte m has one for every byte before.
LEMMA SlotsBefore ==
    ASSUME NEW m \in Nat, NEW n \in Nat, n <= m, HasSlot(m)
    PROVE  HasSlot(n)
  <1> DEFINE d == n \div FS_BLOCK_SIZE
             e == m \div FS_BLOCK_SIZE
  <1>1. d \in Nat /\ e \in Nat /\ d <= e
    BY Sizes, DivMod, DivMono
  <1>2. e \in Slots /\ Slots = 0 .. (Cardinality(Slots) - 1) /\ Cardinality(Slots) \in Nat
    BY FileDataAssumption DEF HasSlot
  <1> HIDE DEF d, e
  <1>3. d \in Slots
    BY <1>1, <1>2
  <1>4. QED
    BY <1>3 DEF HasSlot, d

\* Positions in a file do not wrap round.
LEMMA SlotsBounded ==
    ASSUME NEW n \in Nat, HasSlot(n)
    PROVE  n < PosModulus
  <1> DEFINE b == FS_BLOCK_SIZE
             d == n \div b
             c == Cardinality(Slots)
  <1>1. b \in Nat \ {0} /\ d \in Nat /\ n = b * d + (n % b) /\ n % b \in 0 .. (b - 1)
    BY Sizes, DivMod
  <1>2. d \in Slots /\ Slots = 0 .. (c - 1) /\ c \in Nat /\ b * c <= PosModulus /\ PosModulus \in Nat
    BY FileDataAssumption DEF HasSlot
  <1> HIDE DEF b, d, c
  <1>3. d + 1 <= c
    BY <1>1, <1>2
  <1>4. b * (d + 1) <= b * c /\ b * (d + 1) = b * d + b
    BY <1>1, <1>2, <1>3, MulMono
  <1>5. QED
    BY <1>1, <1>2, <1>4

\* The least member of a set of natural numbers is one of its members.
LEMMA MinMember ==
    ASSUME NEW S, S \subseteq Nat, S # {}
    PROVE  Min(S) \in S
  <1>1. PICK x \in S : \A y \in S : ~(<<y, x>> \in OpToRel(<, Nat))
    BY NatLessThanWellFounded, WFMin, Zenon
  <1>2. \A y \in S : y < x => <<y, x>> \in OpToRel(<, Nat)
    BY DEF OpToRel
  <1>3. \A y \in S : ~(y < x)
    BY <1>1, <1>2
  <1>4. \A y \in S : x =< y
    <2>1. x \in Nat /\ \A y \in S : y \in Nat
      OBVIOUS
    <2>2. QED
      BY <1>3, <2>1
  <1>5. QED
    BY <1>4 DEF Min
-----------------------------------------------------------------------------
(* The inductive invariant.                                                 *)

\* The end of every file, in memory and on the disk, is in its block list ...
SizesFit ==
    \A i \in Inode : HasSlot(inode_blocks[i].size) /\ HasSlot(disk.inodes[i].size)

\* ... and so is the end of every transfer under way, or the one asked for.
TransferFits(p) ==
    /\ call[p].pc \notin {"idle", "clip", "compare"} => HasSlot(End(p))
    /\ At(p, "compare") => HasSlot(file[p].pos + call[p].count)

\* What is done where.
Phase(p) ==
    /\ At(p, "idle") => call[p].op = "none"
    /\ At(p, "clip") => call[p].op = "read"
    /\ call[p].pc \in {"compare", "size", "alloc", "save"} => call[p].op = "write"
    /\ call[p].pc \in {"load", "copy", "return"} => call[p].op \in {"read", "write"}
    /\ call[p].pc \in {"idle", "clip", "compare", "size"} => call[p].done = 0
    /\ At(p, "return") /\ call[p].op = "read" => call[p].done = call[p].len

\* The place and the offset are those of the next byte, ...
Placed(p) ==
    call[p].pc \in {"size", "alloc", "load", "copy"} =>
        /\ call[p].off \in Offset /\ call[p].done <= call[p].len
        /\ file[p].pos + call[p].done = FS_BLOCK_SIZE * call[p].slot + call[p].off

\* ... the transfer goes on in this block up to its end, or to that of the block ...
Chunk(c) ==
    /\ c.done <= c.upto /\ c.upto <= c.len /\ c.upto - c.done <= FS_BLOCK_SIZE - c.off
    /\ c.upto = c.len \/ c.upto - c.done = FS_BLOCK_SIZE - c.off

\* ... and the block is the one at that place, unless it has got another.
Loaded(p) ==
    At(p, "copy") => /\ Chunk(call[p]) /\ call[p].done < call[p].upto
                     /\ call[p].moved \/ call[p].block = BlockIn(p, call[p].slot)

\* Where nobody has raced for the size: the transfer is inside the file, once that has
\* grown.
Inside(p) ==
    \/ file[p].inode \in raced
    \/ /\ At(p, "clip") => file[p].pos <= Size(p)
       /\ At(p, "size") => call[p].seen < End(p)
       /\ call[p].pc \in {"alloc", "load", "copy", "save", "return"} => End(p) <= Size(p)
       /\ call[p].op = "read" /\ call[p].pc \in {"load", "copy", "return"} =>
              call[p].len = call[p].count \/ End(p) = call[p].seen

CallInv(p) == TransferFits(p) /\ Phase(p) /\ Placed(p) /\ Loaded(p) /\ Inside(p)

FileInv == TypeOK /\ SizesFit /\ (\A p \in Pid : CallInv(p)) /\ FilesAsWritten

\* that fit if they do in both.
LEMMA MergedType ==
    ASSUME NEW new \in [inodes : Tables, blocks : Data],
           NEW old \in [inodes : Tables, blocks : Data],
           \A i \in Inode : HasSlot(new.inodes[i].size) /\ HasSlot(old.inodes[i].size)
    PROVE  /\ Merged(new, old) \in [inodes : Tables, blocks : Data]
           /\ \A i \in Inode : HasSlot(Merged(new, old).inodes[i].size)
  <1> DEFINE ins == [i \in Inode |-> IF 1 + i < Transferred THEN new.inodes[i] ELSE old.inodes[i]]
             bls == [b \in Block |-> IF 1 + inode_count + b < Transferred
                                     THEN new.blocks[b] ELSE old.blocks[b]]
  <1>1. Merged(new, old) = [inodes |-> ins, blocks |-> bls]
    BY DEF Merged
  <1>2. ins \in Tables
    BY DEF Tables
  <1>3. bls \in Data
    BY DEF Data
  <1>4. \A i \in Inode : HasSlot(ins[i].size)
    OBVIOUS
  <1> HIDE DEF ins, bls
  <1>5. QED
    BY <1>1, <1>2, <1>3, <1>4
\* The installed blocks are data, and the installed files fit.
LEMMA Installed ==
    /\ [inodes |-> Image, blocks |-> InstalledBlocks] \in [inodes : Tables, blocks : Data]
    /\ \A i \in Inode : HasSlot(Image[i].size)
  <1>1. InstalledBlocks \in Data
    BY Sizes DEF InstalledBlocks, Data, Block, Offset
  <1>2. QED
    BY <1>1, FileDataAssumption
\* A byte below the end of what is in the block list is one a file can have.
LEMMA ByteBefore ==
    ASSUME NEW m \in Nat, HasSlot(m), NEW n \in Nat, n <= m
    PROVE  n \in Byte
  <1> DEFINE b == FS_BLOCK_SIZE
             d == n \div b
             c == Cardinality(Slots)
  <1>1. b \in Nat \ {0} /\ d \in Nat /\ n = b * d + (n % b) /\ n % b \in 0 .. (b - 1)
    BY Sizes, DivMod
  <1>2. d \in Slots /\ Slots = 0 .. (c - 1) /\ c \in Nat
    BY SlotsBefore, FileDataAssumption DEF HasSlot
  <1> HIDE DEF b, d, c
  <1>3. d + 1 <= c
    BY <1>1, <1>2
  <1>4. b * (d + 1) <= b * c /\ b * (d + 1) = b * d + b
    BY <1>1, <1>2, <1>3, MulMono
  <1>5. n <= b * c - 1
    BY <1>1, <1>2, <1>4
  <1>6. n \in 0 .. (b * c - 1)
    BY <1>1, <1>2, <1>5
  <1>7. QED
    BY <1>6 DEF Byte, b, c

\* Place and offset of a byte.
LEMMA BytePlace ==
    ASSUME NEW k \in Byte
    PROVE  /\ k \in Nat /\ k \div FS_BLOCK_SIZE \in Slots /\ k % FS_BLOCK_SIZE \in Offset
  <1> DEFINE b == FS_BLOCK_SIZE
             d == k \div b
             m == k % b
             c == Cardinality(Slots)
  <1>1. b \in Nat \ {0} /\ c \in Nat /\ Slots = 0 .. (c - 1) /\ k \in 0 .. (b * c - 1)
    BY Sizes, FileDataAssumption DEF Byte
  <1>2. k \in Nat
    BY <1>1
  <1>3. d \in Nat /\ k = b * d + m /\ m \in 0 .. (b - 1)
    BY <1>1, <1>2, DivMod
  <1> HIDE DEF b, d, c, m
  <1>4. d < c
    <2> SUFFICES ASSUME c <= d PROVE FALSE
      BY <1>1, <1>3
    <2>1. b * c <= b * d
      BY <1>1, <1>3, MulMono
    <2>2. b * c \in Nat
      BY <1>1
    <2>3. QED
      BY <1>1, <1>2, <1>3, <2>1, <2>2
  <1>5. d \in Slots
    BY <1>1, <1>3, <1>4
  <1>6. QED
    BY <1>2, <1>3, <1>5 DEF b, d, m, Offset

\* The place and the offset that a call has come to.
LEMMA PlaceOfNext ==
    ASSUME NEW n \in Nat, NEW s \in Nat, NEW o \in Offset, n = FS_BLOCK_SIZE * s + o
    PROVE  n \div FS_BLOCK_SIZE = s /\ n % FS_BLOCK_SIZE = o
  BY Sizes, DivModUnique DEF Offset

\* The smaller of two numbers.
LEMMA MinOfTwo ==
    ASSUME NEW a \in Nat, NEW b \in Nat
    PROVE  Min({a, b}) = IF a <= b THEN a ELSE b
  <1> DEFINE least == IF a <= b THEN a ELSE b
  <1>1. least \in {a, b} /\ \A y \in {a, b} : least =< y
    OBVIOUS
  <1>2. \A x \in {a, b} : (\A y \in {a, b} : x =< y) => x = least
    OBVIOUS
  <1> HIDE DEF least
  <1>3. Min({a, b}) = least
    BY <1>1, <1>2 DEF Min
  <1>4. QED
    BY <1>3 DEF least

\* What is left of a transfer of so many bytes is one of those lengths.
LEMMA Lengths == 0 \in 0 .. MaxLen /\ MaxLen \in Nat /\ FS_BLOCK_SIZE \in Nat \ {0} /\ 0 \in Block
  BY Sizes, FileDataAssumption DEF Block

-----------------------------------------------------------------------------
(* How a call goes on.                                                      *)

\* p's descriptor and the call c, which has come to the end of a block, or not.
OnwardInv(p, c, d) ==
    /\ d \in Calls /\ d.op = c.op /\ d.count = c.count /\ d.len = c.len /\ d.done = c.done
    /\ d.seen = c.seen /\ d.moved = c.moved /\ d.block = c.block
    /\ \/ d = c /\ c.done < c.upto
       \/ /\ d.pc \in {"load", "alloc"} /\ d.pc = (IF c.op = "read" THEN "load" ELSE "alloc")
          /\ d.off = 0 /\ file[p].pos + d.done = FS_BLOCK_SIZE * d.slot
       \/ /\ d.pc \in {"return", "save"} /\ d.pc = (IF c.op = "read" THEN "return" ELSE "save")
          /\ d.done = d.len

\* Onward() keeps place and offset together.
LEMMA OnwardKeeps ==
    ASSUME NEW p \in Pid, file[p].pos \in Nat, NEW c \in Calls, c.pc = "copy", Chunk(c),
           file[p].pos + c.done = FS_BLOCK_SIZE * c.slot + c.off
    PROVE  OnwardInv(p, c, Onward(p, c))
  <1>1. c.done \in 0 .. MaxLen /\ c.upto \in 0 .. MaxLen /\ c.len \in 0 .. MaxLen /\ c.slot \in Nat
        /\ c.off \in 0 .. FS_BLOCK_SIZE /\ MaxLen \in Nat /\ FS_BLOCK_SIZE \in Nat \ {0}
    BY Lengths DEF Calls
  <1>2. CASE c.done < c.upto
    BY <1>2 DEF Onward, OnwardInv
  <1>3. CASE ~(c.done < c.upto) /\ MoreBlocks(p, c)
    <2> DEFINE l == IF c.op = "read" THEN "load" ELSE "alloc"
               d == [c EXCEPT !.pc = l, !.slot = c.slot + 1, !.off = 0]
    <2>1. Onward(p, c) = d
      BY <1>3 DEF Onward
    <2>2. c.done = c.upto /\ c.off = FS_BLOCK_SIZE
      BY <1>1, <1>3 DEF MoreBlocks, Chunk
    <2>3. file[p].pos + c.done = FS_BLOCK_SIZE * (c.slot + 1)
      <3>1. FS_BLOCK_SIZE * (c.slot + 1) = FS_BLOCK_SIZE * c.slot + FS_BLOCK_SIZE
        BY <1>1
      <3>2. QED
        BY <2>2, <3>1
    <2>4. l \in Locations /\ c.slot + 1 \in Nat /\ 0 \in 0 .. FS_BLOCK_SIZE
      BY <1>1 DEF Locations
    <2>5. d \in Calls
      BY <2>4 DEF Calls
    <2>6. QED
      BY <2>1, <2>3, <2>5 DEF OnwardInv, Calls
  <1>4. CASE ~(c.done < c.upto) /\ ~MoreBlocks(p, c)
    <2> DEFINE l == IF c.op = "read" THEN "return" ELSE "save"
               d == [c EXCEPT !.pc = l]
    <2>1. Onward(p, c) = d
      BY <1>4 DEF Onward
    <2>2. c.done = c.len
      <3>1. ~(c.done < c.len) /\ c.done <= c.upto /\ c.upto <= c.len
        BY <1>4 DEF MoreBlocks, Chunk
      <3>2. c.done \in Int /\ c.upto \in Int /\ c.len \in Int
        BY <1>1
      <3>3. \A x, y, z \in Int : ~(x < z) /\ x <= y /\ y <= z => x = z
        OBVIOUS
      <3>4. QED
        BY <3>1, <3>2, <3>3
    <2>3. d \in Calls
      BY DEF Calls, Locations
    <2>4. QED
      BY <2>1, <2>2, <2>3 DEF OnwardInv, Calls
  <1>5. QED
    BY <1>2, <1>3, <1>4

\* What the invariant says of the calls of others, whom p's step leaves alone.
LEMMA OthersKeep ==
    ASSUME NEW q \in Pid, CallInv(q), call'[q] = call[q], file'[q] = file[q],
           UNCHANGED <<inode_blocks, raced>>
    PROVE  CallInv(q)'
  BY DEF CallInv, TransferFits, Phase, Placed, Loaded, Inside, At, End, Size, BlockIn

\* A step that changes nothing but p's call.
Private(p, c) ==
    /\ c \in Calls /\ call' = [call EXCEPT ![p] = c]
    /\ UNCHANGED <<memory, data_block_bitmap, file, history>>

LEMMA PrivateKeeps ==
    ASSUME FileInv, NEW p \in Pid, NEW c, Private(p, c), CallInv(p)',
           disk' = disk, calls' \in 0 .. MaxCalls
    PROVE  FileInv'
  <1>1. TypeOK'
    <2>1. call' \in [Pid -> Calls]
      BY DEF FileInv, TypeOK, Private
    <2>2. QED
      BY <2>1 DEF FileInv, TypeOK, Private, memory, history
  <1>2. \A q \in Pid : CallInv(q)'
    <2> SUFFICES ASSUME NEW q \in Pid, q # p PROVE CallInv(q)'
      OBVIOUS
    <2>1. CallInv(q) /\ call'[q] = call[q] /\ file'[q] = file[q] /\ UNCHANGED <<inode_blocks, raced>>
      BY DEF FileInv, TypeOK, Private, memory, history
    <2>2. QED
      BY <2>1, OthersKeep
  <1>3. SizesFit' /\ FilesAsWritten'
    BY DEF FileInv, Private, memory, history, SizesFit, FilesAsWritten, ByteAt
  <1>4. QED
    BY <1>1, <1>2, <1>3 DEF FileInv

\* Types of what p's call is about.
LEMMA CallTypes ==
    ASSUME TypeOK, NEW p \in Pid
    PROVE  /\ call[p] \in Calls /\ call[p].done \in Nat /\ call[p].len \in Nat
           /\ call[p].count \in Nat /\ call[p].upto \in Nat /\ call[p].slot \in Nat
           /\ call[p].off \in Nat /\ call[p].seen \in Nat /\ call[p].saved \in Nat
           /\ file[p].pos \in Nat /\ file[p].pos < PosModulus /\ file[p].inode \in Inode
           /\ Size(p) \in Nat /\ End(p) \in Nat
  <1>1. call[p] \in Calls /\ file[p] \in [inode : Inode, pos : 0 .. (PosModulus - 1)]
    BY DEF TypeOK
  <1>2. file[p].pos \in Nat /\ file[p].pos < PosModulus /\ file[p].inode \in Inode
    BY <1>1, Sizes
  <1>3. inode_blocks[file[p].inode].size \in Nat
    BY <1>2 DEF TypeOK, Tables
  <1>4. MaxLen \in Nat /\ FS_BLOCK_SIZE \in Nat
    BY Lengths
  <1>5. call[p].done \in Nat /\ call[p].len \in Nat /\ call[p].count \in Nat
        /\ call[p].upto \in Nat /\ call[p].slot \in Nat /\ call[p].off \in Nat
        /\ call[p].seen \in Nat /\ call[p].saved \in Nat
    BY <1>1, <1>4 DEF Calls
  <1>6. QED
    BY <1>1, <1>2, <1>3, <1>5 DEF Size, End

-----------------------------------------------------------------------------
(* Every step of p keeps the invariant.                                     *)

\* The call begins, and nothing is done yet.
LEMMA BeginKeeps ==
    ASSUME FileInv, NEW p \in Pid, NEW n \in 1 .. MaxLen, ReadBegins(p, n) \/ WriteBegins(p, n)
    PROVE  FileInv'
  <1> DEFINE op == IF ReadBegins(p, n) THEN "read" ELSE "write"
             l == IF ReadBegins(p, n) THEN "clip" ELSE "compare"
             c == [Idle EXCEPT !.op = op, !.pc = l, !.count = n]
  <1>1. calls' \in 0 .. MaxCalls
    BY Sizes DEF FileInv, TypeOK, ReadBegins, WriteBegins
  <1>2. call' = [call EXCEPT ![p] = c] /\ UNCHANGED <<memory, data_block_bitmap, disk, file, history>>
    BY DEF ReadBegins, WriteBegins
  <1>3. c \in Calls
    <2>1. n \in 0 .. MaxLen /\ 0 \in Nat /\ 0 \in 0 .. FS_BLOCK_SIZE
      BY Lengths
    <2>2. QED
      BY <2>1, Lengths DEF Calls, Idle, Locations
  <1>4. Private(p, c)
    BY <1>2, <1>3 DEF Private
  <1>5. call'[p] = c /\ UNCHANGED <<file, inode_blocks, raced>>
    BY <1>2 DEF FileInv, TypeOK, memory, history
  <1>6. c.pc = l /\ c.op = op /\ c.count = n /\ c.done = 0
    BY DEF Idle
  <1>7. op = "read" => file[p].pos <= Size(p)
    BY CallTypes DEF FileInv, ReadBegins
  <1>8. op = "write" => HasSlot(file[p].pos + n)
    BY DEF WriteBegins
  <1>9. l = (IF op = "read" THEN "clip" ELSE "compare") /\ op \in {"read", "write"}
    OBVIOUS
  <1> HIDE DEF c, op, l
  <1>10. CallInv(p)'
    BY <1>5, <1>6, <1>7, <1>8, <1>9
       DEF CallInv, TransferFits, Phase, Placed, Loaded, Inside, At, Size
  <1>11. QED
    BY <1>1, <1>2, <1>4, <1>10, PrivateKeeps

\* The transfer starts at the position's place and offset.
LEMMA StartsAt ==
    ASSUME TypeOK, NEW p \in Pid
    PROVE  /\ FirstSlot(p) \in Nat /\ file[p].pos % FS_BLOCK_SIZE \in Offset
           /\ file[p].pos = FS_BLOCK_SIZE * FirstSlot(p) + (file[p].pos % FS_BLOCK_SIZE)
           /\ file[p].pos % FS_BLOCK_SIZE \in 0 .. FS_BLOCK_SIZE
  <1> DEFINE m == file[p].pos % FS_BLOCK_SIZE
  <1>1. file[p].pos \in Nat /\ FS_BLOCK_SIZE \in Nat \ {0}
    BY CallTypes, Sizes
  <1>2. FirstSlot(p) \in Nat /\ m \in 0 .. (FS_BLOCK_SIZE - 1)
        /\ file[p].pos = FS_BLOCK_SIZE * FirstSlot(p) + m
    BY <1>1, DivMod DEF FirstSlot
  <1> HIDE DEF m
  <1>3. m \in 0 .. FS_BLOCK_SIZE
    BY <1>1, <1>2
  <1>4. QED
    BY <1>2, <1>3 DEF m, Offset

\* The call with the variables it starts with.
Started(p, l, len) ==
    [call[p] EXCEPT !.pc = l, !.len = len, !.seen = Size(p), !.slot = FirstSlot(p),
                    !.off = file[p].pos % FS_BLOCK_SIZE]

LEMMA StartedCall ==
    ASSUME TypeOK, NEW p \in Pid, NEW l \in Locations, NEW len \in 0 .. MaxLen
    PROVE  LET c == Started(p, l, len) IN
           /\ c \in Calls /\ c.pc = l /\ c.len = len /\ c.seen = Size(p) /\ c.off \in Offset
           /\ c.op = call[p].op /\ c.done = call[p].done /\ c.count = call[p].count
           /\ file[p].pos = FS_BLOCK_SIZE * c.slot + c.off
  <1>1. call[p] \in Calls /\ Size(p) \in Nat
    BY CallTypes
  <1>2. /\ FirstSlot(p) \in Nat /\ file[p].pos % FS_BLOCK_SIZE \in Offset
        /\ file[p].pos = FS_BLOCK_SIZE * FirstSlot(p) + (file[p].pos % FS_BLOCK_SIZE)
        /\ file[p].pos % FS_BLOCK_SIZE \in 0 .. FS_BLOCK_SIZE
    BY StartsAt
  <1> DEFINE m == file[p].pos % FS_BLOCK_SIZE
  <1> HIDE DEF m
  <1>3. QED
    BY <1>1, <1>2 DEF Started, Calls, m

\* read_data() clips the transfer to the size it finds.
LEMMA ClipKeeps ==
    ASSUME FileInv, NEW p \in Pid, ReadClips(p)
    PROVE  FileInv'
  <1> DEFINE remain == (Size(p) - file[p].pos) % PosModulus
             len == Min({call[p].count, remain})
             c == Started(p, "load", len)
  <1>1. TypeOK /\ CallInv(p) /\ At(p, "clip") /\ HasSlot(file[p].pos + len)
        /\ call' = [call EXCEPT ![p] = c]
        /\ UNCHANGED <<memory, data_block_bitmap, disk, file, calls, history>>
    BY DEF FileInv, ReadClips, Starts, Started
  <1>2. remain \in Nat
    <2>1. Size(p) - file[p].pos \in Int /\ PosModulus \in Nat \ {0}
      BY <1>1, CallTypes, Sizes
    <2>2. QED
      BY <2>1
  <1>3. call[p].count \in 0 .. MaxLen /\ MaxLen \in Nat /\ call[p].count \in Nat
    BY <1>1, CallTypes, Lengths DEF Calls
  <1>4. len = IF call[p].count <= remain THEN call[p].count ELSE remain
    BY <1>2, <1>3, MinOfTwo
  <1>5. len \in 0 .. MaxLen
    BY <1>2, <1>3, <1>4
  <1>6. file[p].pos <= Size(p) => remain = Size(p) - file[p].pos
    <2> SUFFICES ASSUME file[p].pos <= Size(p) PROVE remain = Size(p) - file[p].pos
      OBVIOUS
    <2> DEFINE a == Size(p) - file[p].pos
               M == PosModulus
    <2>1. Size(p) \in Nat /\ file[p].pos \in Nat /\ M \in Nat \ {0}
      BY <1>1, CallTypes, Sizes
    <2>2. Size(p) < M
      <3>1. file[p].inode \in Inode
        BY <1>1, CallTypes
      <3>2. HasSlot(Size(p))
        BY <3>1 DEF FileInv, SizesFit, Size
      <3>3. QED
        BY <2>1, <3>2, SlotsBounded
    <2>3. a \in 0 .. (M - 1) /\ a = M * 0 + a /\ a \in Nat
      BY <2>1, <2>2
    <2> HIDE DEF a, M
    <2>4. a % M = a
      BY <2>1, <2>3, DivModUnique
    <2>5. QED
      BY <2>4 DEF a, M
  <1>7. /\ c \in Calls /\ c.pc = "load" /\ c.len = len /\ c.seen = Size(p) /\ c.off \in Offset
        /\ c.op = call[p].op /\ c.done = call[p].done /\ c.count = call[p].count
        /\ file[p].pos = FS_BLOCK_SIZE * c.slot + c.off
    BY <1>1, <1>5, StartedCall DEF Locations
  <1>8. call[p].op = "read" /\ call[p].done = 0
    BY <1>1 DEF CallInv, Phase, At
  <1>9. file[p].inode \in raced \/ file[p].pos <= Size(p)
    BY <1>1 DEF CallInv, Inside
  <1> HIDE DEF remain, len
  <1>10. file[p].inode \in raced
         \/ (file[p].pos + len <= Size(p) /\ (len = c.count \/ file[p].pos + len = Size(p)))
    <2>1. file[p].pos \in Nat /\ Size(p) \in Nat
      BY <1>1, CallTypes
    <2>2. QED
      BY <1>3, <1>4, <1>6, <1>7, <1>9, <2>1
  <1> HIDE DEF c
  <1>11. call'[p] = c /\ UNCHANGED <<file, inode_blocks, raced>>
    BY <1>1 DEF TypeOK, memory, history
  <1>12. file[p].pos + c.done = file[p].pos /\ 0 <= len
    BY <1>1, <1>5, <1>7, <1>8, CallTypes
  <1>13. TransferFits(p)' /\ Phase(p)' /\ Loaded(p)'
    BY <1>1, <1>7, <1>8, <1>11 DEF TransferFits, Phase, Loaded, At, End
  <1>14. Placed(p)'
    BY <1>7, <1>8, <1>11, <1>12 DEF Placed
  <1>15. Inside(p)'
    BY <1>7, <1>8, <1>10, <1>11 DEF Inside, At, End, Size
  <1>16. Private(p, c)
    BY <1>1, <1>7 DEF Private
  <1>17. CallInv(p)'
    BY <1>13, <1>14, <1>15 DEF CallInv
  <1>18. calls' \in 0 .. MaxCalls
    BY <1>1 DEF TypeOK
  <1>19. QED
    BY <1>1, <1>16, <1>17, <1>18, PrivateKeeps

\* write_data() compares.
LEMMA CompareKeeps ==
    ASSUME FileInv, NEW p \in Pid, WriteCompares(p)
    PROVE  FileInv'
  <1> DEFINE grows == Grows(Size(p), file[p].pos + call[p].count)
             l == IF grows THEN "size" ELSE "alloc"
             len == call[p].count
             c == Started(p, l, len)
  <1>1. TypeOK /\ CallInv(p) /\ At(p, "compare") /\ call' = [call EXCEPT ![p] = c]
        /\ UNCHANGED <<memory, data_block_bitmap, disk, file, calls, history>>
    BY DEF FileInv, WriteCompares, Starts, Started
  <1>2. len \in 0 .. MaxLen /\ len \in Nat /\ file[p].pos \in Nat /\ Size(p) \in Nat
    BY <1>1, CallTypes DEF Calls
  <1>3. l \in Locations /\ l \in {"size", "alloc"} /\ (l = "size" => Size(p) < file[p].pos + len)
        /\ (l = "alloc" => file[p].pos + len <= Size(p))
    BY <1>2 DEF Locations, Grows
  <1>4. HasSlot(file[p].pos + len) /\ call[p].op = "write" /\ call[p].done = 0
    BY <1>1 DEF CallInv, TransferFits, Phase, At
  <1> HIDE DEF l, len
  <1>5. /\ c \in Calls /\ c.pc = l /\ c.len = len /\ c.seen = Size(p) /\ c.off \in Offset
        /\ c.op = call[p].op /\ c.done = call[p].done /\ c.count = call[p].count
        /\ file[p].pos = FS_BLOCK_SIZE * c.slot + c.off
    BY <1>1, <1>2, <1>3, StartedCall
  <1> HIDE DEF c
  <1>6. call'[p] = c /\ UNCHANGED <<file, inode_blocks, raced>>
    BY <1>1 DEF TypeOK, memory, history
  <1>7. file[p].pos + c.done = file[p].pos /\ 0 <= len
    BY <1>2, <1>4, <1>5
  <1>8. TransferFits(p)' /\ Phase(p)' /\ Loaded(p)'
    BY <1>3, <1>4, <1>5, <1>6 DEF TransferFits, Phase, Loaded, At, End
  <1>9. Placed(p)'
    BY <1>4, <1>5, <1>6, <1>7 DEF Placed
  <1>10. Inside(p)'
    BY <1>3, <1>4, <1>5, <1>6 DEF Inside, At, End, Size
  <1>11. Private(p, c) /\ CallInv(p)' /\ calls' \in 0 .. MaxCalls
    BY <1>1, <1>5, <1>8, <1>9, <1>10 DEF Private, CallInv, TypeOK
  <1>12. QED
    BY <1>1, <1>11, PrivateKeeps

\* The invariant after Onward(), of a call that is in a block.
LEMMA OnwardInvKeeps ==
    ASSUME FileInv, NEW p \in Pid, NEW c \in Calls, NEW d, OnwardInv(p, c, d),
           call' = [call EXCEPT ![p] = d], UNCHANGED <<inode_blocks, file, raced>>,
           c.pc = "copy", c.op = call[p].op, c.op \in {"read", "write"}, Chunk(c), c.len = call[p].len,
           c.count = call[p].count, c.seen = call[p].seen, call[p].pc \in {"load", "copy"},
           c.done < c.upto => c.off \in Offset /\ (c.moved \/ c.block = BlockIn(p, c.slot)),
           file[p].pos + c.done = FS_BLOCK_SIZE * c.slot + c.off
    PROVE  CallInv(p)'
  <1>1. call'[p] = d /\ d \in Calls /\ TypeOK /\ CallInv(p)
    BY DEF FileInv, TypeOK, OnwardInv
  <1>2. /\ d.op = c.op /\ d.count = c.count /\ d.len = c.len /\ d.done = c.done /\ d.seen = c.seen
        /\ \/ d = c /\ c.done < c.upto
           \/ /\ d.pc \in {"load", "alloc"} /\ d.pc = (IF c.op = "read" THEN "load" ELSE "alloc")
              /\ d.off = 0 /\ file[p].pos + d.done = FS_BLOCK_SIZE * d.slot
           \/ /\ d.pc \in {"return", "save"} /\ d.pc = (IF c.op = "read" THEN "return" ELSE "save")
              /\ d.done = d.len
    BY DEF OnwardInv
  <1>3. TransferFits(p)' /\ Phase(p)'
    BY <1>1, <1>2 DEF CallInv, TransferFits, Phase, At, End
  <1>4. 0 \in Offset /\ c.done \in Nat /\ c.upto \in Nat /\ c.len \in Nat /\ d.slot \in Nat /\ FS_BLOCK_SIZE \in Nat
    BY <1>1, Lengths DEF Offset, Calls
  <1>5. Placed(p)'
    <2>1. d.done <= d.len
      BY <1>2, <1>4 DEF Chunk
    <2>2. d.pc \in {"load", "alloc"} => d.off = 0 /\ file[p].pos + d.done = FS_BLOCK_SIZE * d.slot
      BY <1>2
    <2>3. FS_BLOCK_SIZE * d.slot + 0 = FS_BLOCK_SIZE * d.slot
      BY <1>4
    <2>4. d.pc = "copy" => d = c /\ c.done < c.upto
      BY <1>2
    <2>5. d.pc \in {"size", "alloc", "load", "copy"} =>
              /\ d.off \in Offset
              /\ file[p].pos + d.done = FS_BLOCK_SIZE * d.slot + d.off
      BY <1>2, <1>4, <2>2, <2>3, <2>4
    <2>6. QED
      BY <1>1, <2>1, <2>5 DEF Placed
  <1>6. Loaded(p)'
    BY <1>1, <1>2 DEF Loaded, At, BlockIn
  <1>7. Inside(p)'
    <2>1. d.pc \in {"copy", "load", "alloc", "return", "save"}
      BY <1>2
    <2>2. d.op = call[p].op /\ d.len = call[p].len /\ d.count = call[p].count /\ d.seen = call[p].seen
      BY <1>2
    <2>3. QED
      BY <1>1, <2>1, <2>2 DEF CallInv, Inside, At, End, Size
  <1>8. QED
    BY <1>3, <1>5, <1>6, <1>7 DEF CallInv

\* Loading the place in the block list.
LEMMA LoadKeeps ==
    ASSUME FileInv, NEW p \in Pid, LoadBlock(p)
    PROVE  FileInv'
  <1> DEFINE c == [call[p] EXCEPT !.pc = "copy", !.block = BlockIn(p, call[p].slot),
                                  !.upto = ChunkEnd(p), !.moved = FALSE]
             d == Onward(p, c)
  <1>1. TypeOK /\ CallInv(p) /\ At(p, "load") /\ call' = [call EXCEPT ![p] = d]
        /\ UNCHANGED <<memory, data_block_bitmap, disk, file, calls, history>>
    BY DEF FileInv, LoadBlock
  <1>2. /\ call[p] \in Calls /\ call[p].done \in Nat /\ call[p].len \in Nat /\ call[p].slot \in Nat
        /\ file[p].pos \in Nat /\ file[p].inode \in Inode
    BY <1>1, CallTypes
  <1>3. /\ call[p].off \in Offset /\ call[p].done <= call[p].len
        /\ file[p].pos + call[p].done = FS_BLOCK_SIZE * call[p].slot + call[p].off
        /\ call[p].op \in {"read", "write"} /\ HasSlot(End(p))
    BY <1>1 DEF CallInv, Placed, Phase, TransferFits, At
  <1>4. call[p].slot \in Slots
    <2>1. (file[p].pos + call[p].done) \div FS_BLOCK_SIZE = call[p].slot
      BY <1>2, <1>3, PlaceOfNext
    <2>2. End(p) \in Nat /\ file[p].pos + call[p].done \in Nat /\ file[p].pos + call[p].done <= End(p)
      BY <1>2, <1>3 DEF End
    <2>3. HasSlot(file[p].pos + call[p].done)
      BY <1>3, <2>2, SlotsBefore
    <2>4. QED
      BY <2>1, <2>3 DEF HasSlot
  <1>5. BlockIn(p, call[p].slot) \in Block
    BY <1>1, <1>2, <1>4 DEF TypeOK, Tables, BlockIn
  <1>6. /\ ChunkEnd(p) \in 0 .. MaxLen /\ call[p].done <= ChunkEnd(p) /\ ChunkEnd(p) <= call[p].len
        /\ ChunkEnd(p) - call[p].done <= FS_BLOCK_SIZE - call[p].off
        /\ ChunkEnd(p) = call[p].len \/ ChunkEnd(p) - call[p].done = FS_BLOCK_SIZE - call[p].off
    <2>1. call[p].off \in Nat /\ call[p].off < FS_BLOCK_SIZE /\ FS_BLOCK_SIZE \in Nat /\ MaxLen \in Nat
          /\ call[p].len \in 0 .. MaxLen
      BY <1>2, <1>3, Lengths DEF Offset, Calls
    <2>2. call[p].done + FS_BLOCK_SIZE - call[p].off \in Nat
      BY <1>2, <2>1
    <2>3. ChunkEnd(p) = IF call[p].len <= call[p].done + FS_BLOCK_SIZE - call[p].off THEN call[p].len
                        ELSE call[p].done + FS_BLOCK_SIZE - call[p].off
      BY <1>2, <2>2, MinOfTwo DEF ChunkEnd
    <2>4. QED
      BY <1>2, <1>3, <2>1, <2>2, <2>3
  <1>7. c \in Calls
    BY <1>2, <1>5, <1>6 DEF Calls, Locations
  <1>8. /\ c.pc = "copy" /\ c.op = call[p].op /\ c.len = call[p].len /\ c.count = call[p].count
        /\ c.seen = call[p].seen /\ c.done = call[p].done /\ c.slot = call[p].slot
        /\ c.off = call[p].off /\ c.upto = ChunkEnd(p) /\ c.moved = FALSE
        /\ c.block = BlockIn(p, call[p].slot)
    BY <1>2 DEF Calls
  <1> HIDE DEF c
  <1>9. Chunk(c)
    BY <1>6, <1>8 DEF Chunk
  <1>10. OnwardInv(p, c, d)
    BY <1>2, <1>3, <1>7, <1>8, <1>9, OnwardKeeps
  <1> HIDE DEF d
  <1>11. CallInv(p)'
    BY <1>1, <1>3, <1>7, <1>8, <1>9, <1>10, OnwardInvKeeps DEF memory, history, At
  <1>12. Private(p, d) /\ calls' \in 0 .. MaxCalls
    BY <1>1, <1>10 DEF Private, OnwardInv, TypeOK
  <1>13. QED
    BY <1>1, <1>11, <1>12, PrivateKeeps

\* A byte has been copied: the call's variables, before it goes on.
Copied(p) == [call[p] EXCEPT !.done = @ + 1, !.off = @ + 1]

LEMMA CopiedKeeps ==
    ASSUME FileInv, NEW p \in Pid, At(p, "copy"), NextByteOf(p),
           UNCHANGED <<inode_blocks, file, raced>>
    PROVE  CallInv(p)' /\ call' = [call EXCEPT ![p] = Onward(p, Copied(p))]
           /\ Onward(p, Copied(p)) \in Calls
  <1> DEFINE c == Copied(p)
             d == Onward(p, c)
  <1>1. TypeOK /\ CallInv(p) /\ call' = [call EXCEPT ![p] = d]
    BY DEF FileInv, NextByteOf, Copied
  <1>2. /\ call[p] \in Calls /\ call[p].done \in Nat /\ call[p].len \in Nat /\ call[p].slot \in Nat
        /\ call[p].off \in Nat /\ call[p].upto \in Nat /\ file[p].pos \in Nat
    BY <1>1, CallTypes
  <1>3. /\ call[p].off \in Offset /\ call[p].done <= call[p].len
        /\ file[p].pos + call[p].done = FS_BLOCK_SIZE * call[p].slot + call[p].off
        /\ call[p].op \in {"read", "write"} /\ call[p].pc = "copy"
        /\ Chunk(call[p]) /\ call[p].done < call[p].upto
        /\ call[p].moved \/ call[p].block = BlockIn(p, call[p].slot)
    BY <1>1 DEF CallInv, Placed, Phase, Loaded, At
  <1>4. FS_BLOCK_SIZE \in Nat /\ MaxLen \in Nat /\ call[p].off < FS_BLOCK_SIZE
        /\ call[p].upto \in 0 .. MaxLen
    BY <1>2, <1>3, Lengths DEF Offset, Calls
  <1>5. c \in Calls
    <2>1. call[p].done + 1 \in 0 .. MaxLen /\ call[p].off + 1 \in 0 .. FS_BLOCK_SIZE
      BY <1>2, <1>3, <1>4
    <2>2. QED
      BY <1>2, <2>1 DEF Calls, Copied
  <1>6. /\ c.pc = "copy" /\ c.op = call[p].op /\ c.len = call[p].len /\ c.count = call[p].count
        /\ c.seen = call[p].seen /\ c.done = call[p].done + 1 /\ c.slot = call[p].slot
        /\ c.off = call[p].off + 1 /\ c.upto = call[p].upto /\ c.moved = call[p].moved
        /\ c.block = call[p].block
    BY <1>2, <1>3 DEF Calls, Copied
  <1> HIDE DEF c
  <1>7. Chunk(c)
    <2>1. /\ call[p].done < call[p].upto /\ call[p].upto <= call[p].len
          /\ call[p].upto - call[p].done <= FS_BLOCK_SIZE - call[p].off
          /\ \/ call[p].upto = call[p].len
             \/ call[p].upto - call[p].done = FS_BLOCK_SIZE - call[p].off
      BY <1>3 DEF Chunk
    <2>2. /\ call[p].done + 1 <= call[p].upto /\ call[p].upto <= call[p].len
          /\ call[p].upto - (call[p].done + 1) <= FS_BLOCK_SIZE - (call[p].off + 1)
          /\ \/ call[p].upto = call[p].len
             \/ call[p].upto - (call[p].done + 1) = FS_BLOCK_SIZE - (call[p].off + 1)
      BY <1>2, <1>4, <2>1
    <2>3. QED
      BY <1>6, <2>2 DEF Chunk
  <1>8. file[p].pos + c.done = FS_BLOCK_SIZE * c.slot + c.off
    <2>1. FS_BLOCK_SIZE * call[p].slot \in Nat
      BY <1>2, <1>4
    <2>2. QED
      BY <1>2, <1>3, <1>6, <2>1
  <1>9. OnwardInv(p, c, d)
    BY <1>2, <1>3, <1>5, <1>6, <1>7, <1>8, OnwardKeeps
  <1> HIDE DEF d
  <1>10. c.done < c.upto => c.off \in Offset /\ (c.moved \/ c.block = BlockIn(p, c.slot))
    BY <1>2, <1>3, <1>4, <1>6 DEF Chunk, Offset
  <1>11. CallInv(p)'
    BY <1>1, <1>3, <1>5, <1>6, <1>7, <1>8, <1>9, <1>10, OnwardInvKeeps
  <1>12. QED
    BY <1>1, <1>9, <1>11 DEF c, d, OnwardInv

\* read_data() copies.
LEMMA ReadCopyKeeps ==
    ASSUME FileInv, NEW p \in Pid, ReadCopies(p)
    PROVE  FileInv'
  <1>1. At(p, "copy") /\ NextByteOf(p)
        /\ UNCHANGED <<memory, data_block_bitmap, disk, file, calls, history>>
    BY DEF ReadCopies
  <1>2. CallInv(p)' /\ call' = [call EXCEPT ![p] = Onward(p, Copied(p))]
        /\ Onward(p, Copied(p)) \in Calls
    BY <1>1, CopiedKeeps DEF memory, history
  <1>3. Private(p, Onward(p, Copied(p))) /\ calls' \in 0 .. MaxCalls
    BY <1>1, <1>2 DEF Private, FileInv, TypeOK
  <1>4. QED
    BY <1>1, <1>2, <1>3, PrivateKeeps

\* An idle call satisfies the invariant, whatever the descriptor.
LEMMA IdleKeeps ==
    /\ Idle \in Calls
    /\ \A p \in Pid : call'[p] = Idle => CallInv(p)'
  <1>1. Idle \in Calls
    BY Lengths DEF Calls, Locations, Idle
  <1>2. Idle.pc = "idle" /\ Idle.op = "none" /\ Idle.done = 0
    BY DEF Idle
  <1>3. \A p \in Pid : call'[p] = Idle => CallInv(p)'
    BY <1>2 DEF CallInv, TransferFits, Phase, Placed, Loaded, Inside, At
  <1>4. QED
    BY <1>1, <1>3

\* Descriptors change, and the calls of their processes are over or have not begun.
LEMMA PositionKeeps ==
    ASSUME FileInv, NEW p \in Pid, NEW f, f \in [inode : Inode, pos : 0 .. (PosModulus - 1)],
           file' = [file EXCEPT ![p] = f], calls' \in 0 .. MaxCalls,
           UNCHANGED <<memory, data_block_bitmap, disk, history>>,
           call' = [call EXCEPT ![p] = Idle]
    PROVE  FileInv'
  <1>1. TypeOK'
    <2>1. file' \in [Pid -> [inode : Inode, pos : 0 .. (PosModulus - 1)]] /\ call' \in [Pid -> Calls]
      BY IdleKeeps DEF FileInv, TypeOK
    <2>2. QED
      BY <2>1 DEF FileInv, TypeOK, memory, history
  <1>2. ASSUME NEW q \in Pid PROVE CallInv(q)'
    <2>1. CASE q = p
      BY <2>1, IdleKeeps DEF FileInv, TypeOK
    <2>2. CASE q # p
      <3>1. CallInv(q) /\ call'[q] = call[q] /\ file'[q] = file[q]
            /\ UNCHANGED <<inode_blocks, raced>>
        BY <2>2 DEF FileInv, TypeOK, memory, history
      <3>2. QED
        BY <3>1, OthersKeep
    <2>3. QED
      BY <2>1, <2>2
  <1>3. SizesFit' /\ FilesAsWritten'
    BY DEF FileInv, memory, history, SizesFit, FilesAsWritten, ByteAt
  <1>4. QED
    BY <1>1, <1>2, <1>3 DEF FileInv

\* The position after a remainder.
LEMMA PositionType ==
    ASSUME TypeOK, NEW p \in Pid, NEW n \in Nat
    PROVE  [file[p] EXCEPT !.pos = n % PosModulus] \in [inode : Inode, pos : 0 .. (PosModulus - 1)]
  <1>1. n % PosModulus \in 0 .. (PosModulus - 1)
    BY Sizes, DivMod
  <1>2. QED
    BY <1>1 DEF TypeOK

\* A call is idle exactly when its variables are reset: what the steps of an idle process
\* leave alone is Idle.
LEMMA DescriptorKeeps ==
    ASSUME FileInv, NEW p \in Pid,
           Returns(p) \/ WriteFails(p) \/ halt(p) \/ \E i \in Inode \ {0} : open(p, i)
    PROVE  FileInv'
  <1>1. TypeOK
    BY DEF FileInv
  <1>2. CASE Returns(p)
    <2>1. End(p) \in Nat
      BY <1>1, CallTypes
    <2>2. file' = [file EXCEPT ![p] = [file[p] EXCEPT !.pos = End(p) % PosModulus]]
      BY <1>1, <1>2 DEF Returns, TypeOK
    <2>3. QED
      BY <1>1, <1>2, <2>1, <2>2, PositionType, PositionKeeps DEF Returns, TypeOK
  <1>3. CASE halt(p)
    <2>1. file' = [file EXCEPT ![p] = file[p]]
      BY <1>1, <1>3 DEF halt, TypeOK
    <2>2. file[p] \in [inode : Inode, pos : 0 .. (PosModulus - 1)]
      BY <1>1 DEF TypeOK
    <2>3. QED
      BY <1>1, <1>3, <2>1, <2>2, PositionKeeps DEF halt, TypeOK
  <1>4. ASSUME NEW f, f \in [inode : Inode, pos : 0 .. (PosModulus - 1)],
               file' = [file EXCEPT ![p] = f], calls' \in 0 .. MaxCalls, At(p, "idle"),
               UNCHANGED <<memory, data_block_bitmap, disk, history, call>>
        PROVE  FileInv'
    <2>1. TypeOK'
      BY <1>1, <1>4 DEF TypeOK, memory, history
    <2>2. ASSUME NEW q \in Pid PROVE CallInv(q)'
      <3>1. CASE q = p
        <4>1. CallInv(p) /\ call'[p] = call[p] /\ call[p].pc = "idle"
          BY <1>4 DEF FileInv, At
        <4>2. call[p].done = 0 /\ call[p].op = "none"
          BY <4>1 DEF CallInv, Phase, At
        <4>3. QED
          BY <3>1, <4>1, <4>2 DEF CallInv, TransferFits, Phase, Placed, Loaded, Inside, At
      <3>2. CASE q # p
        <4>1. CallInv(q) /\ call'[q] = call[q] /\ file'[q] = file[q]
              /\ UNCHANGED <<inode_blocks, raced>>
          BY <1>4, <3>2 DEF FileInv, TypeOK, memory, history
        <4>2. QED
          BY <4>1, OthersKeep
      <3>3. QED
        BY <3>1, <3>2
    <2>3. SizesFit' /\ FilesAsWritten'
      BY <1>4 DEF FileInv, memory, history, SizesFit, FilesAsWritten, ByteAt
    <2>4. QED
      BY <2>1, <2>2, <2>3 DEF FileInv
  <1>5. CASE WriteFails(p)
    <2>1. file[p].pos + PosModulus - 1 \in Nat
      BY <1>1, CallTypes, Sizes
    <2>2. file' = [file EXCEPT ![p] = [file[p] EXCEPT !.pos = (file[p].pos + PosModulus - 1) % PosModulus]]
      BY <1>1, <1>5 DEF WriteFails, TypeOK
    <2>3. calls' \in 0 .. MaxCalls
      BY <1>1, <1>5, Sizes DEF WriteFails, TypeOK
    <2>4. QED
      BY <1>1, <1>4, <1>5, <2>1, <2>2, <2>3, PositionType DEF WriteFails
  <1>6. CASE \E i \in Inode \ {0} : open(p, i)
    <2>1. PICK i \in Inode : open(p, i)
      BY <1>6
    <2>2. [inode |-> i, pos |-> 0] \in [inode : Inode, pos : 0 .. (PosModulus - 1)]
      BY Sizes
    <2>3. QED
      BY <1>1, <1>4, <2>1, <2>2 DEF open, TypeOK
  <1>7. QED
    BY <1>2, <1>3, <1>5, <1>6

\* The block stays.
LEMMA KeepsBlockKeeps ==
    ASSUME FileInv, NEW p \in Pid, WriteKeepsBlock(p)
    PROVE  FileInv'
  <1> DEFINE c == [call[p] EXCEPT !.pc = "load"]
  <1>1. TypeOK /\ CallInv(p) /\ At(p, "alloc") /\ call' = [call EXCEPT ![p] = c]
        /\ UNCHANGED <<memory, data_block_bitmap, disk, file, calls, history>>
    BY DEF FileInv, WriteKeepsBlock
  <1>2. c \in Calls
    BY <1>1, CallTypes DEF Calls, Locations
  <1>3. /\ c.pc = "load" /\ c.op = call[p].op /\ c.len = call[p].len /\ c.count = call[p].count
        /\ c.seen = call[p].seen /\ c.done = call[p].done /\ c.slot = call[p].slot
        /\ c.off = call[p].off
    BY <1>1, CallTypes DEF Calls
  <1> HIDE DEF c
  <1>4. call'[p] = c /\ UNCHANGED <<file, inode_blocks, raced>>
    BY <1>1 DEF TypeOK, memory, history
  <1>5. CallInv(p)'
    BY <1>1, <1>3, <1>4 DEF CallInv, TransferFits, Phase, Placed, Loaded, Inside, At, End, Size
  <1>6. Private(p, c) /\ calls' \in 0 .. MaxCalls
    BY <1>1, <1>2 DEF Private, TypeOK
  <1>7. QED
    BY <1>1, <1>5, <1>6, PrivateKeeps

\* The size is stored.
LEMMA GrowKeeps ==
    ASSUME FileInv, NEW p \in Pid, WriteGrows(p)
    PROVE  FileInv'
  <1> DEFINE i == file[p].inode
             end == End(p)
             c == [call[p] EXCEPT !.pc = "alloc"]
  <1>1. TypeOK /\ CallInv(p) /\ At(p, "size") /\ call' = [call EXCEPT ![p] = c]
        /\ inode_blocks' = [inode_blocks EXCEPT ![i].size = end]
        /\ raced' = (IF Size(p) = call[p].seen THEN raced ELSE raced \cup {i})
        /\ UNCHANGED <<data_blocks, data_block_bitmap, disk, file, calls, contents>>
    BY DEF FileInv, WriteGrows
  <1>2. i \in Inode /\ end \in Nat /\ call[p] \in Calls /\ Size(p) \in Nat /\ Size(p) = inode_blocks[i].size
    BY <1>1, CallTypes DEF Size
  <1>3. HasSlot(end) /\ (i \in raced \/ call[p].seen < end) /\ call[p].op = "write"
    BY <1>1 DEF CallInv, TransferFits, Inside, Phase, At
  <1>4. \A j \in Inode : /\ inode_blocks'[j].size = (IF j = i THEN end ELSE inode_blocks[j].size)
                         /\ inode_blocks'[j].blocks = inode_blocks[j].blocks
                         /\ inode_blocks'[j] \in [size : Nat, blocks : [Slots -> Block]]
    BY <1>1, <1>2 DEF TypeOK, Tables
  <1>5. /\ c \in Calls /\ c.pc = "alloc" /\ c.op = call[p].op /\ c.len = call[p].len
        /\ c.count = call[p].count /\ c.seen = call[p].seen /\ c.done = call[p].done
        /\ c.slot = call[p].slot /\ c.off = call[p].off
    BY <1>2 DEF Calls, Locations
  <1>6. call'[p] = c /\ file'[p] = file[p] /\ \A q \in Pid : q # p => call'[q] = call[q]
    BY <1>1 DEF TypeOK
  <1>7. raced \subseteq raced' /\ raced' \subseteq Inode /\ (i \in raced' \/ inode_blocks[i].size < end)
    BY <1>1, <1>2, <1>3 DEF TypeOK
  <1>8. TypeOK'
    <2>1. call' \in [Pid -> Calls]
      BY <1>1, <1>5 DEF TypeOK
    <2>2. inode_blocks' \in Tables
      <3>1. inode_blocks' = [j \in Inode |-> inode_blocks'[j]]
        BY <1>1 DEF TypeOK, Tables
      <3>2. QED
        BY <1>4, <3>1 DEF Tables
    <2>3. QED
      BY <1>1, <1>7, <2>1, <2>2 DEF TypeOK
  <1>9. SizesFit'
    BY <1>1, <1>3, <1>4 DEF FileInv, SizesFit
  <1> HIDE DEF c, i, end
  <1>10. \A q \in Pid : /\ file[q].inode \in Inode
                        /\ \A s : BlockIn(q, s)' = BlockIn(q, s)
                        /\ file[q].inode \in raced' \/ Size(q) <= Size(q)'
                        /\ file[q].inode = i => Size(q)' = end
                        /\ file[q].inode # i => Size(q)' = Size(q)
    <2> SUFFICES ASSUME NEW q \in Pid
                 PROVE  /\ file[q].inode \in Inode
                        /\ \A s : BlockIn(q, s)' = BlockIn(q, s)
                        /\ file[q].inode \in raced' \/ Size(q) <= Size(q)'
                        /\ file[q].inode = i => Size(q)' = end
                        /\ file[q].inode # i => Size(q)' = Size(q)
      OBVIOUS
    <2>1. file[q].inode \in Inode /\ Size(q) \in Nat /\ file'[q] = file[q]
      BY <1>1, CallTypes
    <2>2. QED
      BY <1>2, <1>4, <1>7, <2>1 DEF BlockIn, Size
  <1>11. CallInv(p)'
    <2>1. TransferFits(p)' /\ Phase(p)' /\ Placed(p)' /\ Loaded(p)'
      BY <1>1, <1>3, <1>5, <1>6 DEF CallInv, TransferFits, Phase, Placed, Loaded, At, End
    <2>2. Size(p)' = End(p)' /\ End(p)' \in Nat
      BY <1>2, <1>5, <1>6, <1>10 DEF End, i, end
    <2>3. Inside(p)'
      BY <1>3, <1>5, <1>6, <2>2 DEF Inside, At
    <2>4. QED
      BY <2>1, <2>3 DEF CallInv
  <1>12. ASSUME NEW q \in Pid, q # p PROVE CallInv(q)'
    <2>1. CallInv(q) /\ call'[q] = call[q] /\ file'[q] = file[q]
      BY <1>1, <1>6, <1>12 DEF FileInv
    <2>2. \A s : BlockIn(q, s)' = BlockIn(q, s)
      BY <1>10
    <2>3. TransferFits(q)' /\ Phase(q)' /\ Placed(q)'
      BY <2>1 DEF CallInv, TransferFits, Phase, Placed, At, End
    <2>4. Loaded(q)'
      BY <2>1, <2>2 DEF CallInv, Loaded, At
    <2>5. Inside(q)'
      <3>1. file[q].inode \in raced' \/ Size(q) <= Size(q)'
        BY <1>10
      <3>2. Size(q) \in Nat /\ Size(q)' \in Nat /\ End(q) \in Nat /\ file[q].pos \in Nat /\ End(q)' = End(q)
        BY <1>1, <1>8, <2>1, CallTypes DEF End, Size, TypeOK, Tables
      <3>3. QED
        BY <1>7, <2>1, <3>1, <3>2 DEF CallInv, Inside, At
    <2>6. QED
      BY <2>3, <2>4, <2>5 DEF CallInv
  <1>13. FilesAsWritten'
    <2> SUFFICES ASSUME NEW j \in Inode, NEW k \in Byte, contents'[j][k] # Lost
                 PROVE  /\ ByteAt(inode_blocks', data_blocks', j, k) = contents'[j][k]
                        /\ j \in raced' \/ k < inode_blocks'[j].size
      BY DEF FilesAsWritten
    <2>1. /\ ByteAt(inode_blocks, data_blocks, j, k) = contents[j][k]
          /\ j \in raced \/ k < inode_blocks[j].size
      BY <1>1 DEF FileInv, FilesAsWritten
    <2>2. ByteAt(inode_blocks', data_blocks', j, k) = contents'[j][k]
      BY <1>1, <1>4, <2>1 DEF ByteAt
    <2>3. k \in Nat /\ inode_blocks[j].size \in Nat
      BY <1>1, BytePlace DEF TypeOK, Tables
    <2>4. QED
      BY <1>2, <1>4, <1>7, <2>1, <2>2, <2>3
  <1>14. QED
    BY <1>8, <1>9, <1>11, <1>12, <1>13 DEF FileInv

\* Free blocks are blocks.
LEMMA FreeBlock ==
    ASSUME FreeBlocks # {}
    PROVE  find_free_datablock \in Block
  <1>1. FreeBlocks \subseteq Nat /\ FreeBlocks \subseteq Block
    BY FileDataAssumption DEF FreeBlocks, Block
  <1>2. QED
    BY <1>1, MinMember DEF find_free_datablock

\* A place in the block list gets a free block.
LEMMA AllocateKeeps ==
    ASSUME FileInv, NEW p \in Pid, WriteAllocates(p)
    PROVE  FileInv'
  <1> DEFINE i == file[p].inode
             slot == call[p].slot
             b == find_free_datablock
  <1>1. TypeOK /\ CallInv(p) /\ At(p, "alloc") /\ b \in Block
        /\ inode_blocks' = [inode_blocks EXCEPT ![i].blocks[slot] = b]
        /\ UNCHANGED <<data_blocks, data_block_bitmap, disk, file, calls, raced>>
    BY FreeBlock DEF FileInv, WriteAllocates
  <1>2. contents' = [contents EXCEPT ![i] = [k \in Byte |->
                        IF k \div FS_BLOCK_SIZE = slot THEN Lost ELSE contents[i][k]]]
    BY DEF WriteAllocates
  <1>3. /\ \A q \in Pid : call'[q] \in {call[q], [call[q] EXCEPT !.moved = TRUE]} \/ q = p
        /\ \A q \in Pid : q # p /\ At(q, "copy") /\ file[q].inode = i /\ call[q].slot = slot =>
                              call'[q] = [call[q] EXCEPT !.moved = TRUE]
        /\ call'[p] = [call[p] EXCEPT !.pc = "load"]
        /\ call' = [q \in Pid |-> call'[q]]
    BY DEF WriteAllocates
  <1>4. i \in Inode /\ slot \in Nat /\ call[p] \in Calls
    BY <1>1, CallTypes
  <1> HIDE DEF i, slot, b
  <1>5. \A j \in Inode : /\ inode_blocks'[j].size = inode_blocks[j].size
                         /\ inode_blocks'[j] \in [size : Nat, blocks : [Slots -> Block]]
                         /\ \A s \in Slots : j # i \/ s # slot =>
                                inode_blocks'[j].blocks[s] = inode_blocks[j].blocks[s]
    BY <1>1, <1>4 DEF TypeOK, Tables
  <1>6. ASSUME NEW q \in Pid
        PROVE  /\ call'[q] \in Calls /\ call'[q].op = call[q].op /\ call'[q].len = call[q].len
               /\ call'[q].count = call[q].count /\ call'[q].seen = call[q].seen
               /\ call'[q].done = call[q].done /\ call'[q].slot = call[q].slot
               /\ call'[q].off = call[q].off /\ call'[q].upto = call[q].upto
               /\ call'[q].block = call[q].block
               /\ call'[q].pc = (IF q = p THEN "load" ELSE call[q].pc)
               /\ call'[q].moved \/ call'[q].moved = call[q].moved
               /\ q # p /\ At(q, "copy") /\ file[q].inode = i /\ call[q].slot = slot => call'[q].moved
    <2>1. call[q] \in Calls
      BY <1>1, CallTypes
    <2>2. CASE q = p
      BY <1>3, <2>1, <2>2 DEF Calls, Locations
    <2>3. CASE q # p /\ call'[q] = [call[q] EXCEPT !.moved = TRUE]
      BY <2>1, <2>3 DEF Calls
    <2>4. CASE q # p /\ call'[q] = call[q] /\ call'[q] # [call[q] EXCEPT !.moved = TRUE]
      BY <1>3, <2>1, <2>4 DEF Calls
    <2>5. QED
      BY <1>3, <2>2, <2>3, <2>4
  <1>7. TypeOK'
    <2>1. call' \in [Pid -> Calls]
      BY <1>3, <1>6
    <2>2. inode_blocks' \in Tables
      <3>1. inode_blocks' = [j \in Inode |-> inode_blocks'[j]]
        BY <1>1 DEF TypeOK, Tables
      <3>2. QED
        BY <1>5, <3>1 DEF Tables
    <2>3. contents' \in [Inode -> [Byte -> Int]]
      <3>1. Lost \in Int
        BY Sizes, FileDataAssumption DEF Lost
      <3>2. [k \in Byte |-> IF k \div FS_BLOCK_SIZE = slot THEN Lost ELSE contents[i][k]] \in [Byte -> Int]
        BY <1>1, <1>4, <3>1 DEF TypeOK
      <3>3. QED
        BY <1>1, <1>2, <3>2 DEF TypeOK
    <2>4. QED
      BY <1>1, <2>1, <2>2, <2>3 DEF TypeOK
  <1>8. SizesFit'
    BY <1>1, <1>5 DEF FileInv, SizesFit
  <1>9. ASSUME NEW q \in Pid PROVE CallInv(q)'
    <2>1. CallInv(q) /\ file'[q] = file[q] /\ file[q].inode \in Inode /\ raced' = raced
      BY <1>1, CallTypes DEF FileInv
    <2>2. Size(q)' = Size(q) /\ End(q)' = End(q)
      BY <1>5, <1>6, <2>1 DEF Size, End
    <2>3. TransferFits(q)' /\ Phase(q)' /\ Placed(q)'
      BY <1>1, <1>6, <2>1, <2>2 DEF CallInv, TransferFits, Phase, Placed, At
    <2>4. Inside(q)'
      <3>1. CASE q = p
        <4>1. call'[p].pc = "load" /\ call[p].pc = "alloc" /\ call[p].op = "write"
              /\ call'[p].op = "write" /\ Size(p)' = Size(p) /\ End(p)' = End(p)
          BY <1>1, <1>6, <2>2, <3>1 DEF CallInv, Phase, At
        <4>2. file[p].inode \in raced \/ End(p) <= Size(p)
          BY <1>1, <4>1 DEF CallInv, Inside
        <4>3. QED
          BY <2>1, <3>1, <4>1, <4>2 DEF Inside, At
      <3>2. CASE q # p
        <4>1. call'[q].pc = call[q].pc /\ call'[q].op = call[q].op /\ call'[q].len = call[q].len
              /\ call'[q].count = call[q].count /\ call'[q].seen = call[q].seen
          BY <1>6, <3>2
        <4>2. QED
          BY <2>1, <2>2, <4>1 DEF CallInv, Inside, At
      <3>3. QED
        BY <3>1, <3>2
    <2>5. Loaded(q)'
      <3> SUFFICES ASSUME At(q, "copy")', q # p PROVE Loaded(q)'
        BY <1>6 DEF Loaded, At
      <3>1. Chunk(call[q]) /\ call[q].done < call[q].upto /\ At(q, "copy")
            /\ (call[q].moved \/ call[q].block = BlockIn(q, call[q].slot))
        BY <1>6, <2>1 DEF CallInv, Loaded, At
      <3>2. Chunk(call'[q]) /\ call'[q].done < call'[q].upto
        BY <1>6, <3>1 DEF Chunk
      <3>3. call[q].slot \in Slots
        <4>1. /\ call[q].off \in Offset /\ call[q].done <= call[q].len
              /\ file[q].pos + call[q].done = FS_BLOCK_SIZE * call[q].slot + call[q].off
              /\ HasSlot(End(q))
          BY <2>1, <3>1 DEF CallInv, Placed, TransferFits, At
        <4>2. call[q].done \in Nat /\ call[q].len \in Nat /\ file[q].pos \in Nat /\ call[q].slot \in Nat
          BY <1>1, CallTypes
        <4>3. (file[q].pos + call[q].done) \div FS_BLOCK_SIZE = call[q].slot
          BY <4>1, <4>2, PlaceOfNext
        <4>4. End(q) \in Nat /\ file[q].pos + call[q].done \in Nat /\ file[q].pos + call[q].done <= End(q)
          BY <4>1, <4>2 DEF End
        <4>5. HasSlot(file[q].pos + call[q].done)
          BY <4>1, <4>4, SlotsBefore
        <4>6. QED
          BY <4>3, <4>5 DEF HasSlot
      <3>4. CASE file[q].inode = i /\ call[q].slot = slot
        BY <1>6, <3>1, <3>2, <3>4 DEF Loaded
      <3>5. CASE ~(file[q].inode = i /\ call[q].slot = slot)
        <4>1. BlockIn(q, call[q].slot)' = BlockIn(q, call[q].slot)
          BY <1>5, <1>6, <2>1, <3>3, <3>5 DEF BlockIn
        <4>2. call'[q].moved \/ call'[q].block = BlockIn(q, call[q].slot)'
          BY <1>6, <3>1, <4>1
        <4>3. QED
          BY <1>6, <3>2, <4>2 DEF Loaded, BlockIn
      <3>6. QED
        BY <3>4, <3>5
    <2>6. QED
      BY <2>3, <2>4, <2>5 DEF CallInv
  <1>10. FilesAsWritten'
    <2> SUFFICES ASSUME NEW j \in Inode, NEW k \in Byte, contents'[j][k] # Lost
                 PROVE  /\ ByteAt(inode_blocks', data_blocks', j, k) = contents'[j][k]
                        /\ j \in raced' \/ k < inode_blocks'[j].size
      BY DEF FilesAsWritten
    <2> DEFINE s == k \div FS_BLOCK_SIZE
    <2>1. s \in Slots
      BY BytePlace
    <2>2. contents'[j][k] = contents[j][k] /\ (j # i \/ s # slot)
      BY <1>1, <1>2, <1>4 DEF TypeOK
    <2> HIDE DEF s
    <2>3. /\ ByteAt(inode_blocks, data_blocks, j, k) = contents[j][k]
          /\ j \in raced \/ k < inode_blocks[j].size
      BY <2>2 DEF FileInv, FilesAsWritten
    <2>4. inode_blocks'[j].blocks[s] = inode_blocks[j].blocks[s]
      BY <1>5, <2>1, <2>2
    <2>5. QED
      BY <1>1, <1>5, <2>2, <2>3, <2>4 DEF ByteAt, s
  <1>11. QED
    BY <1>7, <1>8, <1>9, <1>10 DEF FileInv

\* A byte is stored.
LEMMA WriteCopyKeeps ==
    ASSUME FileInv, NEW p \in Pid, WriteCopies(p)
    PROVE  FileInv'
  <1> DEFINE i == file[p].inode
             n == file[p].pos + call[p].done
             b == call[p].block
             o == call[p].off
             byte == Payload(call[p].done)
  <1>1. /\ TypeOK /\ CallInv(p) /\ At(p, "copy") /\ call[p].op = "write"
        /\ call[p].done < call[p].upto /\ NextByteOf(p)
        /\ data_blocks' = [data_blocks EXCEPT ![b][o] = byte]
        /\ contents' = ContentsAfter(i, n, b, n % FS_BLOCK_SIZE, byte, call[p].moved)
        /\ UNCHANGED <<inode_blocks, data_block_bitmap, disk, file, calls, raced>>
    BY DEF FileInv, WriteCopies
  <1>2. /\ i \in Inode /\ call[p].done \in Nat /\ call[p].len \in Nat /\ call[p].slot \in Nat
        /\ file[p].pos \in Nat /\ call[p].upto \in Nat /\ Size(p) \in Nat /\ b \in Block
        /\ Size(p) = inode_blocks[i].size
    BY <1>1, CallTypes DEF Calls, Size
  <1>3. /\ o \in Offset /\ n = FS_BLOCK_SIZE * call[p].slot + o
        /\ HasSlot(End(p)) /\ Chunk(call[p])
        /\ call[p].moved \/ b = BlockIn(p, call[p].slot)
        /\ i \in raced \/ End(p) <= Size(p)
    BY <1>1 DEF CallInv, Placed, TransferFits, Loaded, Inside, At
  <1>4. n \in Nat /\ n < End(p) /\ End(p) \in Nat /\ byte \in Int
    BY <1>1, <1>2, <1>3 DEF End, Chunk, Payload
  <1>5. n \in Byte
    BY <1>3, <1>4, ByteBefore
  <1>6. n \div FS_BLOCK_SIZE = call[p].slot /\ n % FS_BLOCK_SIZE = o
    BY <1>2, <1>3, <1>4, PlaceOfNext
  <1>7. CallInv(p)' /\ call' = [call EXCEPT ![p] = Onward(p, Copied(p))]
        /\ Onward(p, Copied(p)) \in Calls
    BY <1>1, CopiedKeeps
  <1>8. contents' = [j \in Inode |-> [m \in Byte |->
                        IF j = i /\ m = n THEN (IF call[p].moved THEN Lost ELSE byte)
                        ELSE IF <<j, m>> \in Sharing(b, o) THEN Lost ELSE contents[j][m]]]
    BY <1>1, <1>6 DEF ContentsAfter
  <1> HIDE DEF i, n, b, o, byte
  <1>9. TypeOK'
    <2>1. call' \in [Pid -> Calls]
      BY <1>1, <1>7 DEF TypeOK
    <2>2. data_blocks' \in Data
      BY <1>1, <1>2, <1>3, <1>4 DEF TypeOK, Data
    <2>3. contents' \in [Inode -> [Byte -> Int]]
      <3>1. Lost \in Int
        BY Sizes, FileDataAssumption DEF Lost
      <3>2. ASSUME NEW j \in Inode, NEW m \in Byte
            PROVE  (IF j = i /\ m = n THEN (IF call[p].moved THEN Lost ELSE byte)
                    ELSE IF <<j, m>> \in Sharing(b, o) THEN Lost ELSE contents[j][m]) \in Int
        <4>1. contents[j][m] \in Int
          BY <1>1 DEF TypeOK
        <4> DEFINE shared == <<j, m>> \in Sharing(b, o)
        <4> HIDE DEF shared
        <4>2. QED
          BY <1>4, <3>1, <4>1 DEF shared
      <3>3. QED
        BY <1>8, <3>2, Zenon
    <2>4. QED
      BY <1>1, <2>1, <2>2, <2>3 DEF TypeOK
  <1>10. SizesFit'
    BY <1>1 DEF FileInv, SizesFit
  <1>11. ASSUME NEW q \in Pid PROVE CallInv(q)'
    <2>1. CASE q = p
      BY <1>7, <2>1
    <2>2. CASE q # p
      <3>1. CallInv(q) /\ call'[q] = call[q] /\ file'[q] = file[q]
            /\ UNCHANGED <<inode_blocks, raced>>
        BY <1>1, <1>7, <2>2 DEF FileInv, TypeOK
      <3>2. QED
        BY <3>1, OthersKeep
    <2>3. QED
      BY <2>1, <2>2
  <1>12. FilesAsWritten'
    <2> SUFFICES ASSUME NEW j \in Inode, NEW k \in Byte, contents'[j][k] # Lost
                 PROVE  /\ ByteAt(inode_blocks', data_blocks', j, k) = contents'[j][k]
                        /\ j \in raced' \/ k < inode_blocks'[j].size
      BY DEF FilesAsWritten
    <2> DEFINE s == k \div FS_BLOCK_SIZE
               m == k % FS_BLOCK_SIZE
               c == inode_blocks[j].blocks[s]
    <2>1. s \in Slots /\ m \in Offset /\ k \in Nat
      BY BytePlace
    <2>2. c \in Block
      BY <1>1, <2>1 DEF TypeOK, Tables
    <2>3. ByteAt(inode_blocks', data_blocks', j, k) = data_blocks'[c][m]
          /\ ByteAt(inode_blocks, data_blocks, j, k) = data_blocks[c][m]
      BY <1>1 DEF ByteAt
    <2>4. data_blocks'[c][m] = IF c = b /\ m = o THEN byte ELSE data_blocks[c][m]
      BY <1>1, <1>2, <1>3, <2>1, <2>2 DEF TypeOK, Data
    <2>5. CASE j = i /\ k = n
      <3>1. ~call[p].moved /\ contents'[j][k] = byte
        BY <1>8, <2>5
      <3>2. c = b /\ m = o
        BY <1>3, <1>6, <2>5, <3>1 DEF BlockIn, i
      <3>3. j \in raced \/ k < inode_blocks[j].size
        BY <1>2, <1>3, <1>4, <2>5
      <3>4. QED
        BY <1>1, <2>3, <2>4, <3>1, <3>2, <3>3
    <2>6. CASE ~(j = i /\ k = n)
      <3>1. <<j, k>> \notin Sharing(b, o) /\ contents'[j][k] = contents[j][k]
        BY <1>8, <2>6
      <3>2. ~(c = b /\ m = o)
        BY <3>1 DEF Sharing
      <3>3. /\ ByteAt(inode_blocks, data_blocks, j, k) = contents[j][k]
            /\ j \in raced \/ k < inode_blocks[j].size
        BY <3>1 DEF FileInv, FilesAsWritten
      <3>4. QED
        BY <1>1, <2>3, <2>4, <3>1, <3>2, <3>3
    <2>7. QED
      BY <2>5, <2>6
  <1>13. QED
    BY <1>9, <1>10, <1>11, <1>12 DEF FileInv

\* A block of the image is saved.
LEMMA SaveKeeps ==
    ASSUME FileInv, NEW p \in Pid, WriteSaves(p)
    PROVE  FileInv'
  <1> DEFINE b == call[p].saved
             l == IF b + 1 < Transferred THEN "save" ELSE "return"
             c == [call[p] EXCEPT !.saved = b + 1, !.pc = l]
             ins == [i \in Inode |-> IF 1 + i = b THEN inode_blocks[i] ELSE disk.inodes[i]]
             bls == [k \in Block |-> IF 1 + inode_count + k = b THEN data_blocks[k] ELSE disk.blocks[k]]
  <1>1. TypeOK /\ CallInv(p) /\ At(p, "save") /\ call' = [call EXCEPT ![p] = c]
        /\ disk' = [inodes |-> ins, blocks |-> bls]
        /\ UNCHANGED <<memory, data_block_bitmap, file, calls, history>>
    BY DEF FileInv, WriteSaves
  <1>2. ins \in Tables /\ bls \in Data
    BY <1>1 DEF TypeOK, Tables, Data
  <1>3. \A i \in Inode : HasSlot(ins[i].size)
    BY DEF FileInv, SizesFit
  <1>4. b \in Nat /\ call[p] \in Calls
    BY <1>1, CallTypes
  <1>5. l \in {"save", "return"} /\ call[p].op = "write"
    BY <1>1 DEF CallInv, Phase, At
  <1>6. l \in Locations /\ b + 1 \in Nat
    BY <1>4, <1>5 DEF Locations
  <1> HIDE DEF l, b
  <1>7. /\ c \in Calls /\ c.pc = l /\ c.op = call[p].op /\ c.len = call[p].len
        /\ c.count = call[p].count /\ c.seen = call[p].seen /\ c.done = call[p].done
    BY <1>4, <1>6 DEF Calls
  <1> HIDE DEF c, ins, bls, b
  <1>8. call'[p] = c /\ UNCHANGED <<file, inode_blocks, raced>>
        /\ \A q \in Pid : q # p => call'[q] = call[q]
    BY <1>1 DEF TypeOK, memory, history
  <1>9. TypeOK'
    <2>1. call' \in [Pid -> Calls]
      BY <1>1, <1>7 DEF TypeOK
    <2>2. disk' \in [inodes : Tables, blocks : Data]
      BY <1>1, <1>2
    <2>3. QED
      BY <1>1, <2>1, <2>2 DEF TypeOK, memory, history
  <1>10. SizesFit'
    BY <1>1, <1>3 DEF FileInv, SizesFit, memory
  <1>11. CallInv(p)'
    BY <1>1, <1>7, <1>5, <1>8 DEF CallInv, TransferFits, Phase, Placed, Loaded, Inside, At, End, Size
  <1>12. ASSUME NEW q \in Pid, q # p PROVE CallInv(q)'
    <2>1. CallInv(q) /\ call'[q] = call[q] /\ file'[q] = file[q]
      BY <1>8, <1>12 DEF FileInv
    <2>2. QED
      BY <1>8, <2>1, OthersKeep
  <1>13. FilesAsWritten'
    BY <1>1 DEF FileInv, FilesAsWritten, memory, history
  <1>14. QED
    BY <1>9, <1>10, <1>11, <1>12, <1>13 DEF FileInv

\* What an image holds.
LEMMA ContentsHold ==
    ASSUME NEW inodes \in Tables, NEW blocks \in Data,
           inode_blocks = inodes, data_blocks = blocks, contents = Contents(inodes, blocks)
    PROVE  contents \in [Inode -> [Byte -> Int]] /\ FilesAsWritten
  <1>1. ASSUME NEW i \in Inode, NEW k \in Byte PROVE ByteAt(inodes, blocks, i, k) \in Int
    <2>1. k \div FS_BLOCK_SIZE \in Slots /\ k % FS_BLOCK_SIZE \in Offset
      BY BytePlace
    <2>2. inodes[i].blocks[k \div FS_BLOCK_SIZE] \in Block
      BY <2>1 DEF Tables
    <2>3. QED
      BY <2>1, <2>2 DEF ByteAt, Data
  <1>2. Lost \in Int
    BY Sizes, FileDataAssumption DEF Lost
  <1>3. contents = [i \in Inode |-> [k \in Byte |->
                       IF k < inodes[i].size THEN ByteAt(inodes, blocks, i, k) ELSE Lost]]
    BY DEF Contents
  <1>4. contents \in [Inode -> [Byte -> Int]]
    BY <1>1, <1>2, <1>3
  <1>5. FilesAsWritten
    BY <1>3 DEF FilesAsWritten
  <1>6. QED
    BY <1>4, <1>5

\* The installed system satisfies the invariant.
LEMMA InitInv == Init => FileInv
  <1> SUFFICES ASSUME Init PROVE FileInv
    OBVIOUS
  <1>1. inode_blocks \in Tables /\ data_blocks \in Data /\ disk \in [inodes : Tables, blocks : Data]
        /\ \A i \in Inode : HasSlot(inode_blocks[i].size) /\ HasSlot(disk.inodes[i].size)
    BY Installed DEF Init
  <1>2. contents \in [Inode -> [Byte -> Int]] /\ FilesAsWritten
    BY <1>1, ContentsHold DEF Init
  <1>3. call \in [Pid -> Calls] /\ calls \in 0 .. MaxCalls
    BY IdleKeeps, Sizes DEF Init
  <1>4. TypeOK
    BY <1>1, <1>2, <1>3 DEF Init, TypeOK, BlocksInUse
  <1>5. \A p \in Pid : CallInv(p)
    BY DEF Init, CallInv, TransferFits, Phase, Placed, Loaded, Inside, At, Idle
  <1>6. QED
    BY <1>1, <1>2, <1>4, <1>5 DEF FileInv, SizesFit

\* A restart loads part of the saved image over the installed one.
LEMMA RestartKeeps ==
    ASSUME FileInv, file_system_init
    PROVE  FileInv'
  <1> DEFINE image == [inodes |-> Image, blocks |-> InstalledBlocks]
             loaded == Merged(disk, image)
  <1>1. disk \in [inodes : Tables, blocks : Data] /\ \A i \in Inode : HasSlot(disk.inodes[i].size)
    BY DEF FileInv, TypeOK, SizesFit
  <1>2. image \in [inodes : Tables, blocks : Data]
        /\ \A i \in Inode : HasSlot(image.inodes[i].size)
    BY Installed
  <1>3. /\ inode_blocks' = loaded.inodes /\ data_blocks' = loaded.blocks
        /\ data_block_bitmap' = BlocksInUse(loaded.inodes)
        /\ file' = [p \in Pid |-> [inode |-> 1, pos |-> 0]]
        /\ call' = [p \in Pid |-> Idle]
        /\ contents' = Contents(loaded.inodes, loaded.blocks) /\ raced' = {}
        /\ UNCHANGED <<disk, calls>>
    BY DEF file_system_init
  <1> HIDE DEF image
  <1>4. loaded \in [inodes : Tables, blocks : Data] /\ \A i \in Inode : HasSlot(loaded.inodes[i].size)
    BY <1>1, <1>2, MergedType
  <1> HIDE DEF loaded
  <1>5. 1 \in Inode /\ 0 \in 0 .. (PosModulus - 1)
    BY Sizes, FileDataAssumption DEF Inode
  <1>6. contents' \in [Inode -> [Byte -> Int]] /\ FilesAsWritten'
    <2>1. loaded.inodes \in Tables /\ loaded.blocks \in Data
      BY <1>4
    <2>2. ASSUME NEW i \in Inode, NEW k \in Byte PROVE ByteAt(loaded.inodes, loaded.blocks, i, k) \in Int
      <3>1. k \div FS_BLOCK_SIZE \in Slots /\ k % FS_BLOCK_SIZE \in Offset
        BY BytePlace
      <3>2. loaded.inodes[i].blocks[k \div FS_BLOCK_SIZE] \in Block
        BY <2>1, <3>1 DEF Tables
      <3>3. QED
        BY <2>1, <3>1, <3>2 DEF ByteAt, Data
    <2>3. Lost \in Int
      BY Sizes, FileDataAssumption DEF Lost
    <2>4. contents' = [i \in Inode |-> [k \in Byte |->
              IF k < loaded.inodes[i].size THEN ByteAt(loaded.inodes, loaded.blocks, i, k) ELSE Lost]]
      BY <1>3 DEF Contents
    <2>5. FilesAsWritten'
      BY <1>3, <2>4 DEF FilesAsWritten
    <2>6. QED
      BY <2>2, <2>3, <2>4, <2>5
  <1>7. TypeOK'
    <2>1. inode_blocks' \in Tables /\ data_blocks' \in Data /\ data_block_bitmap' \subseteq Block
      BY <1>3, <1>4 DEF BlocksInUse
    <2>2. file' \in [Pid -> [inode : Inode, pos : 0 .. (PosModulus - 1)]]
      BY <1>3, <1>5
    <2>3. call' \in [Pid -> Calls]
      BY <1>3, IdleKeeps
    <2>4. QED
      BY <1>3, <1>6, <2>1, <2>2, <2>3 DEF FileInv, TypeOK
  <1>8. SizesFit'
    BY <1>1, <1>3, <1>4 DEF SizesFit
  <1>9. \A p \in Pid : CallInv(p)'
    BY <1>3, IdleKeeps
  <1>10. QED
    BY <1>6, <1>7, <1>8, <1>9 DEF FileInv

\* Every step preserves the invariant.
LEMMA NextKeeps == FileInv /\ [Next]_vars => FileInv'
  <1> SUFFICES ASSUME FileInv, [Next]_vars PROVE FileInv'
    OBVIOUS
  <1>1. CASE \E p \in Pid, count \in 1 .. MaxLen : ReadBegins(p, count) \/ WriteBegins(p, count)
    BY <1>1, BeginKeeps
  <1>2. CASE \E p \in Pid : read(p)
    BY <1>2, ClipKeeps, ReadCopyKeeps DEF read
  <1>3. CASE \E p \in Pid : write(p)
    BY <1>3, CompareKeeps, GrowKeeps, AllocateKeeps, KeepsBlockKeeps, WriteCopyKeeps, SaveKeeps,
       DescriptorKeeps DEF write
  <1>4. CASE \E p \in Pid : LoadBlock(p)
    BY <1>4, LoadKeeps
  <1>5. CASE \E p \in Pid : Returns(p) \/ halt(p) \/ \E i \in Inode \ {0} : open(p, i)
    BY <1>5, DescriptorKeeps
  <1>6. CASE file_system_init
    BY <1>6, RestartKeeps
  <1>7. CASE UNCHANGED vars
    <2>1. UNCHANGED <<inode_blocks, data_blocks, data_block_bitmap, disk, file, call, calls,
                      contents, raced>>
      BY <1>7 DEF vars, memory, history
    <2>2. \A p \in Pid : CallInv(p)'
      BY <2>1, OthersKeep DEF FileInv
    <2>3. TypeOK' /\ SizesFit' /\ FilesAsWritten'
      BY <2>1 DEF FileInv, TypeOK, SizesFit, FilesAsWritten
    <2>4. QED
      BY <2>2, <2>3 DEF FileInv
  <1>8. QED
    BY <1>1, <1>2, <1>3, <1>4, <1>5, <1>6, <1>7 DEF Next

\* The tables, the data, the disk, the descriptors and the calls keep their types, no
\* file's size and no transfer reaches past the end of the block list, every call has
\* come to the place and offset of its next byte, and files are as written.
THEOREM FileInvariant == Spec => []FileInv
  <1>1. QED
    BY InitInv, NextKeeps, PTL DEF Spec

-----------------------------------------------------------------------------
(* The properties.                                                          *)

\* Every byte written is where the block list says, and inside the file, for every
\* number of processes, block size and block list, and every interleaving of their
\* read() and write() calls with restarts, save the losses that the property names.
THEOREM FilesStayAsWritten == Spec => []FilesAsWritten
  <1>1. FileInv => FilesAsWritten
    BY DEF FileInv
  <1>2. QED
    BY <1>1, FileInvariant, PTL

\* read() delivers the bytes from the position on, each as last written when it is
\* copied, and none from behind the end.
THEOREM ReadsAreContents == Spec => []ReadsContents
  <1>1. FileInv => ReadsContents
    <2> SUFFICES ASSUME FileInv, NEW p \in Pid, call[p].op = "read"
                 PROVE  LET n == file[p].pos + call[p].done IN
                        /\ /\ At(p, "copy") /\ call[p].done < call[p].upto /\ ~call[p].moved
                           /\ contents[file[p].inode][n] # Lost
                           => NextByte(p) = contents[file[p].inode][n]
                        /\ file[p].inode \in raced \/ At(p, "clip") \/ End(p) <= Size(p)
                        /\ At(p, "return") => call[p].done = call[p].len
                        /\ At(p, "return") /\ call[p].done < call[p].count =>
                              file[p].inode \in raced \/ End(p) = call[p].seen
      BY DEF ReadsContents
    <2> DEFINE n == file[p].pos + call[p].done
               i == file[p].inode
    <2>1. TypeOK /\ CallInv(p) /\ call[p].pc \in Locations
      BY CallTypes DEF FileInv, Calls
    <2>2. /\ call[p].done \in Nat /\ call[p].len \in Nat /\ call[p].slot \in Nat
          /\ call[p].upto \in Nat /\ call[p].count \in Nat
          /\ file[p].pos \in Nat /\ i \in Inode /\ Size(p) \in Nat /\ End(p) \in Nat
      BY <2>1, CallTypes
    <2>3. ASSUME At(p, "copy"), call[p].done < call[p].upto, ~call[p].moved, contents[i][n] # Lost
          PROVE  NextByte(p) = contents[i][n]
      <3>1. /\ call[p].off \in Offset /\ n = FS_BLOCK_SIZE * call[p].slot + call[p].off
            /\ Chunk(call[p]) /\ call[p].block = BlockIn(p, call[p].slot) /\ HasSlot(End(p))
        BY <2>1, <2>3 DEF CallInv, Placed, Loaded, TransferFits, At
      <3>2. n \in Nat /\ n <= End(p)
        BY <2>2, <2>3, <3>1 DEF Chunk, End
      <3>3. n \in Byte
        BY <2>2, <3>1, <3>2, ByteBefore
      <3>4. n \div FS_BLOCK_SIZE = call[p].slot /\ n % FS_BLOCK_SIZE = call[p].off
        BY <2>2, <3>1, <3>2, PlaceOfNext
      <3> HIDE DEF n
      <3>5. ByteAt(inode_blocks, data_blocks, i, n) = contents[i][n]
        BY <2>2, <2>3, <3>3 DEF FileInv, FilesAsWritten
      <3>6. QED
        BY <3>1, <3>4, <3>5 DEF ByteAt, NextByte, BlockIn
    <2>4. i \in raced \/ At(p, "clip") \/ End(p) <= Size(p)
      <3>1. call[p].pc \notin {"idle", "compare", "size", "alloc", "save"} \/ call[p].pc = "idle"
        BY <2>1 DEF CallInv, Phase
      <3>2. CASE call[p].pc = "idle"
        BY <2>1, <3>2 DEF CallInv, Phase, At
      <3>3. CASE call[p].pc # "idle"
        BY <2>1, <3>1, <3>3 DEF CallInv, Inside, At, Locations
      <3>4. QED
        BY <3>2, <3>3
    <2>5. At(p, "return") => call[p].done = call[p].len
      BY <2>1 DEF CallInv, Phase
    <2>6. At(p, "return") /\ call[p].done < call[p].count => i \in raced \/ End(p) = call[p].seen
      BY <2>1, <2>2, <2>5 DEF CallInv, Inside, At
    <2>7. QED
      BY <2>3, <2>4, <2>5, <2>6
  <1>2. QED
    BY <1>1, FileInvariant, PTL

-----------------------------------------------------------------------------
(* The directory on the disk.                                               *)

\* Memory behind the count is empty, unless a start read something there.
Cleared == stale \/ \A i \in V!Place : i > entries => names[i] = V!Empty

\* No name deleted for good is in memory or anywhere in the table on the disk.
GoneIsGone ==
    stale \/ /\ V!InMemory \cap gone = {}
             /\ \A i \in V!Place : stored.names[i] \notin gone

\* The sectors written so far agree with memory, except for what was created since.
SavedAgrees ==
    /\ sector > 0 => stored.count <= entries
    /\ \A i \in V!Place : V!SectorOf(i) < sector =>
          \/ stored.names[i] = names[i]
          \/ i > stored.count /\ (stale \/ stored.names[i] = V!Empty)

\* m is a place of name n in memory and j one on the disk.
AtPlace(n, m, j) ==
    /\ names[m] = n /\ stored.names[j] = n
    /\ m <= j /\ m <= entries
    /\ j <= entries + deletions /\ j <= stored.count + deletions
    /\ sector > 0 => m <= stored.count

KeptHasPlaces == \A n \in kept : \E m, j \in V!Place : AtPlace(n, m, j)

VolumeInv ==
    /\ V!TypeOK
    /\ Cleared
    /\ GoneIsGone
    /\ SavedAgrees
    /\ KeptHasPlaces

-----------------------------------------------------------------------------
(* Sectors.                                                                 *)

\* Places of one sector follow each other: SectorOf() is monotonic.
LEMMA Monotonic ==
    ASSUME V!VolumeAssumption, NEW i \in V!Place, NEW j \in V!Place, i <= j
    PROVE  V!SectorOf(i) \in Nat /\ V!SectorOf(j) \in Nat /\ V!SectorOf(i) <= V!SectorOf(j)
  <1>1. /\ PerSector \in Nat /\ PerSector > 0 /\ FirstSector \in Nat
        /\ i \in Nat /\ j \in Nat
    BY DEF V!VolumeAssumption, V!Place
  <1>2. ASSUME NEW a \in Nat, NEW b \in Nat, a <= b
        PROVE  a \div PerSector \in Nat /\ b \div PerSector \in Nat /\ a \div PerSector <= b \div PerSector
    <2> DEFINE q == a \div PerSector
               r == b \div PerSector
    <2>1. q \in Nat /\ r \in Nat
      BY <1>1
    <2>2. q * PerSector <= a /\ b < (r + 1) * PerSector
      BY <1>1
    <2>3. q < r + 1
      <3> HIDE DEF q, r
      <3>1. SUFFICES ASSUME r + 1 <= q PROVE FALSE
        BY <2>1
      <3>2. (r + 1) * PerSector <= q * PerSector
        BY <1>1, <2>1, <3>1
      <3>3. QED
        BY <1>1, <1>2, <2>1, <2>2, <3>2
    <2>4. QED
      BY <2>1, <2>3
  <1>3. QED
    BY <1>1, <1>2 DEF V!SectorOf

\* Every place is in one of the sectors a save writes.
LEMMA AllSectors ==
    ASSUME V!VolumeAssumption, NEW i \in V!Place
    PROVE  V!SectorOf(i) \in Nat /\ V!SectorOf(i) < V!SectorCount /\ V!SectorCount \in Nat \ {0}
  <1>1. Places \in V!Place /\ i <= Places
    BY DEF V!VolumeAssumption, V!Place
  <1>2. QED
    BY <1>1, Monotonic DEF V!SectorCount

\* There are no more sectors than places, so that a save does not end beyond them.
LEMMA FewSectors ==
    ASSUME V!VolumeAssumption
    PROVE  V!SectorCount \in Nat \ {0} /\ V!SectorCount <= Places
  <1>1. /\ Places \in Nat \ {0} /\ FirstSector \in Nat \ {0} /\ PerSector \in Nat \ {0}
    BY DEF V!VolumeAssumption
  <1>2. ASSUME NEW a \in Nat
        PROVE  a \div PerSector \in Nat /\ a \div PerSector <= a
    <2> DEFINE q == a \div PerSector
    <2>1. q \in Nat /\ q * PerSector <= a
      BY <1>1
    <2>2. q <= q * PerSector
      <3> HIDE DEF q
      <3>1. QED
        BY <1>1, <2>1
    <2>3. QED
      BY <1>1, <2>1, <2>2
  <1>3. QED
    BY <1>1, <1>2 DEF V!SectorOf, V!SectorCount

-----------------------------------------------------------------------------
(* Types.                                                                   *)

\* Closing the gap leaves a table ...
LEMMA RemovedType ==
    ASSUME V!VolumeAssumption, V!TypeOK, NEW i \in 1 .. entries
    PROVE  V!Removed(i) \in [V!Place -> Names \cup {V!Empty}]
  <1>1. \A j \in V!Place : j < entries => j + 1 \in V!Place
    BY DEF V!TypeOK, V!Place, V!VolumeAssumption
  <1>2. QED
    BY <1>1 DEF V!Removed, V!TypeOK

\* ... and a table shows names.
LEMMA DiskType ==
    ASSUME V!VolumeAssumption, V!TypeOK
    PROVE  V!OnDisk \subseteq Names
  <1>1. 1 .. stored.count \subseteq V!Place
    BY DEF V!TypeOK, V!Place, V!VolumeAssumption
  <1>2. QED
    BY <1>1 DEF V!TypeOK, V!OnDisk, V!NamesIn

\* Every step keeps the types.
LEMMA NextTypes == V!VolumeAssumption /\ V!TypeOK /\ [V!Next]_V!vars => V!TypeOK'
  <1> SUFFICES ASSUME V!VolumeAssumption, V!TypeOK, [V!Next]_V!vars PROVE V!TypeOK'
    OBVIOUS
  <1> USE DEF V!TypeOK
  <1>1. ASSUME NEW name \in Names, V!create(name) PROVE V!TypeOK'
    BY <1>1 DEF V!create, V!VolumeAssumption, V!Place
  <1>2. ASSUME NEW name \in Names, V!delete(name) PROVE V!TypeOK'
    <2>1. PICK i \in 1 .. entries : names' = V!Removed(i)
      BY <1>2 DEF V!delete
    <2>2. names' \in [V!Place -> Names \cup {V!Empty}]
      BY <2>1, RemovedType
    <2>3. entries' \in 0 .. Places
      BY <1>2, <2>1 DEF V!delete, V!VolumeAssumption
    <2>4. QED
      BY <1>2, <2>2, <2>3 DEF V!delete, V!SaveBegins, V!VolumeAssumption
  <1>3. CASE V!write_data
    BY <1>3 DEF V!write_data, V!SaveBegins, V!memory, V!saved, V!VolumeAssumption
  <1>4. CASE V!write_ata_sectors
    <2>1. sector + 1 \in 0 .. Places
      BY <1>4, FewSectors DEF V!write_ata_sectors, V!VolumeAssumption
    <2>2. QED
      BY <1>4, <2>1 DEF V!write_ata_sectors, V!memory, V!saved, V!VolumeAssumption
  <1>5. CASE V!SaveEnds
    BY <1>5, DiskType DEF V!SaveEnds, V!memory, V!VolumeAssumption
  <1>6. CASE V!halt
    BY <1>6 DEF V!halt, V!memory, V!saved
  <1>7. CASE V!file_system_init
    BY <1>7, DiskType DEF V!file_system_init, V!VolumeAssumption
  <1>8. CASE UNCHANGED V!vars
    BY <1>8 DEF V!vars, V!memory, V!saved
  <1>9. QED
    BY <1>1, <1>2, <1>3, <1>4, <1>5, <1>6, <1>7, <1>8 DEF V!Next

-----------------------------------------------------------------------------
(* Deleted files stay deleted.                                              *)

\* The names a table shows are those in its first places, and none is empty.
LEMMA Shown ==
    ASSUME V!VolumeAssumption,
           NEW table \in [V!Place -> Names \cup {V!Empty}], NEW n \in 0 .. Places
    PROVE  V!NamesIn(table, n) = {name \in Names : \E i \in V!Place : i <= n /\ table[i] = name}
  <1>1. \A i : i \in 1 .. n <=> i \in V!Place /\ i <= n
    BY DEF V!VolumeAssumption, V!Place
  <1>2. QED
    BY <1>1 DEF V!NamesIn, V!VolumeAssumption

\* The names in memory.
LEMMA ShownInMemory ==
    V!VolumeAssumption /\ V!TypeOK
        => V!InMemory = {name \in Names : \E i \in V!Place : i <= entries /\ names[i] = name}
  BY Shown DEF V!InMemory, V!TypeOK

\* ... and on the disk.
LEMMA ShownOnDisk ==
    V!VolumeAssumption /\ V!TypeOK
        => V!OnDisk = {name \in Names :
                \E i \in V!Place : i <= stored.count /\ stored.names[i] = name}
  BY Shown DEF V!OnDisk, V!TypeOK

\* create() stores a name that is then not gone, behind the count.
LEMMA CreateKeepsGone ==
    ASSUME V!VolumeAssumption, V!TypeOK, V!TypeOK', Cleared, GoneIsGone, SavedAgrees,
           NEW name \in Names, V!create(name)
    PROVE  Cleared' /\ GoneIsGone' /\ SavedAgrees'
  <1> USE DEF V!VolumeAssumption, V!TypeOK
  <1>1. \A i \in V!Place : names'[i] = IF i = entries + 1 THEN name ELSE names[i]
    BY DEF V!create
  <1>2. /\ entries' = entries + 1 /\ stored' = stored /\ sector' = sector /\ stale' = stale
        /\ gone' = gone \ {name} /\ entries + 1 \in V!Place
    BY DEF V!create, V!Place
  <1>3. Cleared'
    BY <1>1, <1>2 DEF Cleared, V!Place
  <1>4. V!InMemory' \subseteq V!InMemory \cup {name}
    <2>1. V!InMemory' = {n \in Names : \E i \in V!Place : i <= entries' /\ names'[i] = n}
      BY Shown DEF V!InMemory
    <2>2. \A i \in V!Place : i <= entries + 1 <=> i <= entries \/ i = entries + 1
      BY DEF V!Place
    <2>3. QED
      BY <2>1, <2>2, <1>1, <1>2, ShownInMemory
  <1>5. GoneIsGone'
    BY <1>2, <1>4 DEF GoneIsGone
  <1>6. SavedAgrees'
    <2>1. ASSUME sector > 0 PROVE stored.count < entries + 1
      BY <2>1, <1>2 DEF SavedAgrees
    <2>2. ASSUME NEW i \in V!Place, V!SectorOf(i) < sector
          PROVE  \/ stored.names[i] = names'[i]
                 \/ (i > stored.count /\ (stale \/ stored.names[i] = V!Empty))
      <3>1. sector > 0
        BY <2>2, AllSectors DEF V!IDLE
      <3>2. CASE i = entries + 1
        <4>1. stored.names[i] = names[i] \/ (i > stored.count /\ (stale \/ stored.names[i] = V!Empty))
          BY <2>2 DEF SavedAgrees
        <4>2. i > stored.count /\ i > entries
          BY <3>1, <3>2, <2>1 DEF V!Place
        <4>3. QED
          BY <4>1, <4>2 DEF Cleared
      <3>3. CASE i # entries + 1
        BY <2>2, <3>3, <1>1 DEF SavedAgrees
      <3>4. QED
        BY <3>2, <3>3
    <2>3. QED
      BY <1>2, <2>1, <2>2 DEF SavedAgrees, V!IDLE
  <1>7. QED
    BY <1>3, <1>5, <1>6

\* delete() shows no name anew.
LEMMA DeleteKeepsGone ==
    ASSUME V!VolumeAssumption, V!TypeOK, V!TypeOK', Cleared, GoneIsGone,
           NEW name \in Names, V!delete(name)
    PROVE  Cleared' /\ GoneIsGone' /\ SavedAgrees'
  <1> USE DEF V!VolumeAssumption, V!TypeOK
  <1>1. PICK i \in 1 .. entries : names' = V!Removed(i)
    BY DEF V!delete
  <1>2. /\ entries' = entries - 1 /\ stored' = stored /\ sector' = 0 /\ stale' = stale /\ gone' = gone
    BY DEF V!delete, V!SaveBegins
  <1>3. \A j \in V!Place : names'[j] = IF j < i \/ j > entries THEN names[j]
                                     ELSE IF j < entries THEN names[j + 1] ELSE V!Empty
    BY <1>1 DEF V!Removed
  <1>4. Cleared'
    BY <1>2, <1>3 DEF Cleared, V!Place
  <1>5. V!InMemory' \subseteq V!InMemory
    <2>1. V!InMemory' = {n \in Names : \E j \in V!Place : j <= entries' /\ names'[j] = n}
      BY Shown DEF V!InMemory
    <2>2. ASSUME NEW j \in V!Place, j <= entries'
          PROVE  \E k \in V!Place : k <= entries /\ names[k] = names'[j]
      <3>1. j < entries /\ ~(j > entries)
        BY <2>2, <1>2 DEF V!Place
      <3>2. j + 1 \in V!Place /\ j + 1 <= entries /\ j <= entries
        BY <3>1 DEF V!Place
      <3>3. QED
        BY <3>1, <3>2, <1>3
    <2>3. QED
      BY <2>1, <2>2, ShownInMemory
  <1>6. GoneIsGone'
    BY <1>2, <1>5 DEF GoneIsGone
  <1>7. SavedAgrees'
    BY <1>2, AllSectors DEF SavedAgrees
  <1>8. QED
    BY <1>4, <1>6, <1>7

\* A sector written agrees with memory, where nothing gone is.
LEMMA WriteKeepsGone ==
    ASSUME V!VolumeAssumption, V!TypeOK, V!TypeOK', Cleared, GoneIsGone, SavedAgrees,
           V!write_ata_sectors
    PROVE  Cleared' /\ GoneIsGone' /\ SavedAgrees'
  <1> USE DEF V!VolumeAssumption, V!TypeOK
  <1>1. /\ names' = names /\ entries' = entries /\ stale' = stale /\ gone' = gone
        /\ sector \in Nat /\ sector' = sector + 1
    BY DEF V!write_ata_sectors, V!memory, V!saved
  <1>2. \A i \in V!Place : stored'.names[i] = IF V!SectorOf(i) = sector THEN names[i] ELSE stored.names[i]
    BY DEF V!write_ata_sectors
  <1>3. stored'.count = IF sector = 0 THEN entries ELSE stored.count
    BY DEF V!write_ata_sectors
  <1>4. Cleared'
    BY <1>1 DEF Cleared
  <1>5. GoneIsGone'
    <2>1. ASSUME ~stale, NEW i \in V!Place PROVE names[i] \notin gone
      <3>1. CASE i > entries
        BY <2>1, <3>1 DEF Cleared
      <3>2. CASE i <= entries
        <4>1. names[i] = V!Empty \/ names[i] \in V!InMemory
          BY <3>2, ShownInMemory
        <4>2. QED
          BY <2>1, <4>1 DEF GoneIsGone
      <3>3. QED
        BY <3>1, <3>2 DEF V!Place
    <2>2. V!InMemory' = V!InMemory
      BY <1>1 DEF V!InMemory
    <2>3. QED
      BY <1>1, <1>2, <2>1, <2>2 DEF GoneIsGone
  <1>6. SavedAgrees'
    <2>1. stored'.count <= entries
      BY <1>1, <1>3 DEF SavedAgrees
    <2>2. ASSUME NEW i \in V!Place, V!SectorOf(i) < sector + 1
          PROVE  \/ stored'.names[i] = names[i]
                 \/ (i > stored'.count /\ (stale \/ stored'.names[i] = V!Empty))
      <3>1. CASE V!SectorOf(i) = sector
        BY <3>1, <1>2
      <3>2. CASE V!SectorOf(i) < sector
        <4>1. sector # 0 /\ V!SectorOf(i) # sector
          BY <3>2, AllSectors
        <4>2. QED
          BY <3>2, <4>1, <1>2, <1>3 DEF SavedAgrees
      <3>3. QED
        BY <3>1, <3>2, <2>2, <1>1, AllSectors
    <2>3. QED
      BY <1>1, <2>1, <2>2 DEF SavedAgrees
  <1>7. QED
    BY <1>4, <1>5, <1>6

\* A save that is over has made the table on the disk that of memory.
LEMMA SavedTable ==
    ASSUME V!VolumeAssumption, V!TypeOK, SavedAgrees, sector = V!SectorCount
    PROVE  /\ stored.count <= entries
           /\ \A i \in V!Place : \/ stored.names[i] = names[i]
                                 \/ i > stored.count /\ (stale \/ stored.names[i] = V!Empty)
  BY FewSectors, AllSectors DEF SavedAgrees

\* After a complete save no deleted name is left on the disk.
LEMMA SaveEndsKeepsGone ==
    ASSUME V!VolumeAssumption, V!TypeOK, V!TypeOK', Cleared, GoneIsGone, SavedAgrees, V!SaveEnds
    PROVE  Cleared' /\ GoneIsGone' /\ SavedAgrees'
  <1> USE DEF V!VolumeAssumption, V!TypeOK
  <1>1. /\ names' = names /\ entries' = entries /\ stored' = stored /\ stale' = stale
        /\ sector = V!SectorCount /\ sector' = V!IDLE
        /\ gone' = (gone \cup deleted) \ V!InMemory
    BY DEF V!SaveEnds, V!memory
  <1>2. Cleared'
    BY <1>1 DEF Cleared
  <1>3. GoneIsGone'
    <2>1. V!InMemory' = V!InMemory
      BY <1>1 DEF V!InMemory
    <2>2. ASSUME ~stale, NEW i \in V!Place
          PROVE  stored.names[i] \in V!InMemory \cup {V!Empty}
      <3>1. stored.names[i] = V!Empty \/ stored.names[i] = names[i]
        BY <2>2, <1>1, SavedTable
      <3>2. names[i] = V!Empty \/ names[i] \in V!InMemory
        <4>1. i <= entries => names[i] = V!Empty \/ names[i] \in V!InMemory
          BY ShownInMemory
        <4>2. QED
          BY <2>2, <4>1 DEF Cleared, V!Place
      <3>3. QED
        BY <3>1, <3>2
    <2>3. V!Empty \notin gone'
      BY <1>1
    <2>4. QED
      BY <1>1, <2>1, <2>2, <2>3 DEF GoneIsGone
  <1>4. SavedAgrees'
    BY <1>1, AllSectors DEF SavedAgrees, V!IDLE
  <1>5. QED
    BY <1>2, <1>3, <1>4

\* A start shows what the disk shows.
LEMMA RestartKeepsGone ==
    ASSUME V!VolumeAssumption, V!TypeOK, V!TypeOK', GoneIsGone, V!file_system_init
    PROVE  Cleared' /\ GoneIsGone' /\ SavedAgrees'
  <1> USE DEF V!VolumeAssumption, V!TypeOK
  <1>1. /\ names' = stored.names /\ entries' = stored.count /\ stored' = stored /\ gone' = gone
        /\ sector' = V!IDLE
        /\ stale' = (stale \/ \E i \in V!Place : i > stored.count /\ stored.names[i] # V!Empty)
    BY DEF V!file_system_init
  <1>2. Cleared'
    BY <1>1 DEF Cleared
  <1>3. GoneIsGone'
    <2>1. V!InMemory' = V!OnDisk
      BY <1>1 DEF V!InMemory, V!OnDisk
    <2>2. QED
      BY <1>1, <2>1, ShownOnDisk DEF GoneIsGone
  <1>4. SavedAgrees'
    BY <1>1, AllSectors DEF SavedAgrees, V!IDLE
  <1>5. QED
    BY <1>2, <1>3, <1>4

-----------------------------------------------------------------------------
(* Kept files have their two places.                                        *)

\* create() moves no dentry.
LEMMA CreateKeepsPlaces ==
    ASSUME V!VolumeAssumption, V!TypeOK, KeptHasPlaces, NEW name \in Names, V!create(name)
    PROVE  KeptHasPlaces'
  <1> USE DEF V!VolumeAssumption, V!TypeOK
  <1>1. /\ names' = [names EXCEPT ![entries + 1] = name] /\ entries' = entries + 1
        /\ UNCHANGED <<stored, sector, kept, deletions>>
    BY DEF V!create
  <1>2. ASSUME NEW n \in kept, NEW m \in V!Place, NEW j \in V!Place, AtPlace(n, m, j)
        PROVE  AtPlace(n, m, j)'
    BY <1>1, <1>2 DEF AtPlace, V!Place
  <1>3. QED
    BY <1>1, <1>2 DEF KeptHasPlaces

\* The dentries behind the deleted one move to the front by one place.
LEMMA DeleteKeepsPlaces ==
    ASSUME V!VolumeAssumption, V!TypeOK, KeptHasPlaces, NEW name \in Names, V!delete(name)
    PROVE  KeptHasPlaces'
  <1> USE DEF V!VolumeAssumption, V!TypeOK
  <1>1. PICK i \in 1 .. entries : names[i] = name /\ names' = V!Removed(i)
    BY DEF V!delete
  <1>2. /\ entries' = entries - 1 /\ stored' = stored /\ sector' = 0 /\ kept' = kept \ {name}
        /\ deletions' = IF deletions < Places THEN deletions + 1 ELSE Places
    BY DEF V!delete, V!SaveBegins
  <1>3. ASSUME NEW n \in kept', NEW m \in V!Place, NEW j \in V!Place, AtPlace(n, m, j)
        PROVE  \E k \in V!Place : AtPlace(n, k, j)'
    <2>1. names[m] = n /\ n # name /\ m # i
      BY <1>1, <1>2, <1>3 DEF AtPlace
    <2>2. /\ stored'.names[j] = n /\ m <= j /\ m <= entries
          /\ j <= entries' + deletions' /\ j <= stored'.count + deletions'
      BY <1>2, <1>3 DEF AtPlace, V!Place
    <2>3. CASE m < i
      <3>1. names'[m] = n /\ m <= entries'
        BY <1>1, <1>2, <2>1, <2>2, <2>3 DEF V!Removed, V!Place
      <3>2. QED
        BY <1>2, <2>2, <3>1 DEF AtPlace
    <2>4. CASE m > i
      <3>1. m - 1 \in V!Place /\ m - 1 >= i /\ m - 1 < entries
        BY <2>2, <2>4 DEF V!Place
      <3>2. names'[m - 1] = n /\ m - 1 <= entries' /\ m - 1 <= j
        BY <1>1, <1>2, <2>1, <2>2, <3>1 DEF V!Removed, V!Place
      <3>3. QED
        BY <1>2, <2>2, <3>1, <3>2 DEF AtPlace
    <2>5. QED
      BY <2>1, <2>3, <2>4 DEF V!Place
  <1>4. QED
    BY <1>2, <1>3 DEF KeptHasPlaces

\* The sector with a name's place in memory is written before, or with, the one
\* that holds its place on the disk.
LEMMA WriteKeepsPlaces ==
    ASSUME V!VolumeAssumption, V!TypeOK, SavedAgrees, KeptHasPlaces, V!write_ata_sectors
    PROVE  KeptHasPlaces'
  <1> USE DEF V!VolumeAssumption, V!TypeOK
  <1>1. /\ UNCHANGED <<names, entries, kept, deletions>>
        /\ sector \in Nat /\ sector' = sector + 1
    BY DEF V!write_ata_sectors, V!memory, V!saved
  <1>2. \A i \in V!Place : stored'.names[i] = IF V!SectorOf(i) = sector THEN names[i] ELSE stored.names[i]
    BY DEF V!write_ata_sectors
  <1>3. stored'.count = IF sector = 0 THEN entries ELSE stored.count
    BY DEF V!write_ata_sectors
  <1>4. ASSUME NEW n \in kept, NEW m \in V!Place, NEW j \in V!Place, AtPlace(n, m, j)
        PROVE  \E k \in V!Place : AtPlace(n, m, k)'
    <2>1. /\ names[m] = n /\ stored.names[j] = n /\ m <= j /\ m <= entries
          /\ j <= entries + deletions /\ j <= stored.count + deletions
          /\ sector > 0 => m <= stored.count
      BY <1>4 DEF AtPlace
    <2>2. m <= stored'.count
      BY <1>1, <1>3, <2>1
    <2>3. CASE V!SectorOf(j) # sector
      <3>1. stored'.names[j] = n /\ j <= stored'.count + deletions
        BY <1>2, <1>3, <2>1, <2>3
      <3>2. QED
        BY <1>1, <2>1, <2>2, <3>1 DEF AtPlace
    <2>4. CASE V!SectorOf(j) = sector
      <3>1. V!SectorOf(m) \in Nat /\ V!SectorOf(m) <= sector
        BY <2>1, <2>4, Monotonic
      <3>2. stored'.names[m] = n
        <4>1. CASE V!SectorOf(m) = sector
          BY <4>1, <1>2, <2>1
        <4>2. CASE V!SectorOf(m) < sector
          <5>1. sector > 0 /\ m <= stored.count
            BY <4>2, <3>1, <2>1, <1>1
          <5>2. stored.names[m] = names[m]
            BY <4>2, <5>1 DEF SavedAgrees, V!Place
          <5>3. QED
            BY <4>2, <5>2, <1>2, <2>1, <3>1, <1>1
        <4>3. QED
          BY <3>1, <4>1, <4>2, <1>1
      <3>3. m <= entries + deletions /\ m <= stored'.count + deletions
        BY <2>1, <2>2, <1>3 DEF V!Place
      <3>4. QED
        BY <1>1, <2>1, <2>2, <3>2, <3>3 DEF AtPlace, V!Place
    <2>5. QED
      BY <2>3, <2>4
  <1>5. QED
    BY <1>1, <1>4 DEF KeptHasPlaces

\* A name shown on the disk has the same place in memory when a save is over.
LEMMA SaveEndsKeepsPlaces ==
    ASSUME V!VolumeAssumption, V!TypeOK, SavedAgrees, V!SaveEnds
    PROVE  KeptHasPlaces'
  <1> USE DEF V!VolumeAssumption, V!TypeOK
  <1>1. /\ UNCHANGED <<names, entries, stored>> /\ kept' = V!OnDisk /\ deletions' = 0
        /\ sector = V!SectorCount /\ sector' = V!IDLE
    BY DEF V!SaveEnds, V!memory
  <1>2. ASSUME NEW n \in V!OnDisk PROVE \E i \in V!Place : AtPlace(n, i, i)'
    <2>1. PICK i \in V!Place : i <= stored.count /\ stored.names[i] = n
      BY ShownOnDisk
    <2>2. names[i] = n /\ i <= entries
      BY <2>1, <1>1, SavedTable DEF V!Place
    <2>3. QED
      BY <1>1, <2>1, <2>2 DEF AtPlace, V!IDLE, V!Place
  <1>3. QED
    BY <1>1, <1>2 DEF KeptHasPlaces

\* A start begins again with what the disk holds.
LEMMA RestartKeepsPlaces ==
    ASSUME V!VolumeAssumption, V!TypeOK, V!file_system_init
    PROVE  KeptHasPlaces'
  <1> USE DEF V!VolumeAssumption, V!TypeOK
  <1>1. /\ names' = stored.names /\ entries' = stored.count /\ stored' = stored
        /\ kept' = V!OnDisk /\ deletions' = 0 /\ sector' = V!IDLE
    BY DEF V!file_system_init
  <1>2. ASSUME NEW n \in V!OnDisk PROVE \E i \in V!Place : AtPlace(n, i, i)'
    <2>1. PICK i \in V!Place : i <= stored.count /\ stored.names[i] = n
      BY ShownOnDisk
    <2>2. QED
      BY <1>1, <2>1 DEF AtPlace, V!IDLE, V!Place
  <1>3. QED
    BY <1>1, <1>2 DEF KeptHasPlaces

-----------------------------------------------------------------------------
(* The theorems.                                                            *)

\* Memory and disk agree as installed.
LEMMA InitVolumeInv == V!VolumeAssumption /\ V!Init => VolumeInv
  <1> SUFFICES ASSUME V!VolumeAssumption, V!Init PROVE VolumeInv
    OBVIOUS
  <1> USE DEF V!VolumeAssumption, V!Init
  <1>1. /\ names = stored.names /\ entries = stored.count /\ sector = V!IDLE /\ deletions = 0
        /\ kept = V!OnDisk /\ gone = {} /\ deleted = {} /\ stale = FALSE
        /\ entries = Len(OnImage)
    OBVIOUS
  <1>2. names \in [V!Place -> Names \cup {V!Empty}] /\ entries \in 0 .. Places
    <2>1. \A i \in V!Place : i <= Len(OnImage) => OnImage[i] \in Names
      BY DEF V!Place
    <2>2. QED
      BY <1>1, <2>1
  <1>3. V!TypeOK
    <2>1. V!OnDisk \subseteq Names
      BY <1>1, <1>2, Shown DEF V!OnDisk
    <2>2. kept \cup deleted \cup gone \subseteq Names
      BY <1>1, <2>1
    <2>3. stored.names \in [V!Place -> Names \cup {V!Empty}] /\ stored.count \in 0 .. Places
      BY <1>1, <1>2
    <2>4. sector \in {V!IDLE} \cup 0 .. Places /\ deletions \in 0 .. Places
      BY <1>1
    <2>5. stale \in BOOLEAN
      BY <1>1, Zenon
    <2>6. QED
      BY <1>2, <2>2, <2>3, <2>4, <2>5, Zenon DEF V!TypeOK
  <1>4. Cleared
    BY <1>1 DEF Cleared, V!Place
  <1>5. GoneIsGone
    BY <1>1 DEF GoneIsGone
  <1>6. SavedAgrees
    BY <1>1, AllSectors DEF SavedAgrees, V!IDLE
  <1>7. KeptHasPlaces
    <2>1. ASSUME NEW n \in V!OnDisk PROVE \E i \in V!Place : AtPlace(n, i, i)
      <3>1. PICK i \in V!Place : i <= stored.count /\ stored.names[i] = n
        BY <1>3, ShownOnDisk
      <3>2. QED
        BY <1>1, <1>2, <3>1 DEF AtPlace, V!IDLE, V!Place
    <2>2. QED
      BY <1>1, <2>1 DEF KeptHasPlaces
  <1>8. QED
    BY <1>3, <1>4, <1>5, <1>6, <1>7 DEF VolumeInv

\* Every step preserves the invariant.
LEMMA NextVolumeInv == V!VolumeAssumption /\ VolumeInv /\ [V!Next]_V!vars => VolumeInv'
  <1> SUFFICES ASSUME V!VolumeAssumption, VolumeInv, [V!Next]_V!vars PROVE VolumeInv'
    OBVIOUS
  <1> USE DEF VolumeInv
  <1>1. V!TypeOK'
    BY NextTypes
  <1>2. ASSUME NEW name \in Names, V!create(name) PROVE VolumeInv'
    BY <1>1, <1>2, CreateKeepsGone, CreateKeepsPlaces
  <1>3. ASSUME NEW name \in Names, V!delete(name) PROVE VolumeInv'
    BY <1>1, <1>3, DeleteKeepsGone, DeleteKeepsPlaces
  <1>4. CASE V!write_ata_sectors
    BY <1>1, <1>4, WriteKeepsGone, WriteKeepsPlaces
  <1>5. CASE V!SaveEnds
    BY <1>1, <1>5, SaveEndsKeepsGone, SaveEndsKeepsPlaces
  <1>6. CASE V!file_system_init
    BY <1>1, <1>6, RestartKeepsGone, RestartKeepsPlaces
  <1>7. CASE V!write_data \/ V!halt \/ UNCHANGED V!vars
    <2>1. UNCHANGED <<names, entries, stored, kept, deleted, deletions, gone, stale>>
      BY <1>7 DEF V!write_data, V!halt, V!vars, V!memory, V!saved
    <2>2. sector' \in {V!IDLE, 0, sector}
      BY <1>7 DEF V!write_data, V!halt, V!SaveBegins, V!vars
    <2>3. Cleared' /\ GoneIsGone'
      BY <2>1 DEF Cleared, GoneIsGone, V!InMemory
    <2>4. SavedAgrees'
      BY <2>1, <2>2, AllSectors DEF SavedAgrees, V!IDLE
    <2>5. KeptHasPlaces'
      BY <2>1, <2>2 DEF KeptHasPlaces, AtPlace, V!IDLE
    <2>6. QED
      BY <1>1, <2>3, <2>4, <2>5
  <1>8. QED
    BY <1>2, <1>3, <1>4, <1>5, <1>6, <1>7 DEF V!Next

\* For any names, table and sectors: the inductive invariant.
THEOREM VolumeInvariant == ASSUME V!VolumeAssumption PROVE V!Spec => []VolumeInv
  BY InitVolumeInv, NextVolumeInv, PTL DEF V!Spec

\* delete() and the saves, cut short anywhere by halt() or a power failure: no
\* restart brings a deleted name back.
THEOREM VolumeDeletedStaysDeleted ==
    ASSUME V!VolumeAssumption PROVE V!Spec => []V!DeletedStaysDeleted
  <1>1. VolumeInv => V!DeletedStaysDeleted
    BY ShownOnDisk DEF VolumeInv, GoneIsGone, V!DeletedStaysDeleted
  <1>2. QED
    BY <1>1, VolumeInvariant, PTL

\* Module Volume counts as this one does.
LEMMA SameCardinality == \A S : V!Cardinality(S) = Cardinality(S)
  BY DEF V!Cardinality, Cardinality

\* Each lost name has a place of its own among those the new count leaves out.
LEMMA LostCount ==
    ASSUME V!VolumeAssumption, VolumeInv
    PROVE  V!FewFilesLost
  <1>0. stored.count \in Nat /\ deletions \in Nat
    BY DEF V!VolumeAssumption, VolumeInv, V!TypeOK
  <1> USE DEF V!VolumeAssumption, VolumeInv, V!TypeOK
  <1> DEFINE LostNames == kept \ V!OnDisk
             Left == stored.count + 1 .. stored.count + deletions
  <1>1. CASE sector = V!SectorCount
    <2>1. ASSUME NEW n \in kept PROVE n \in V!OnDisk
      <3>1. PICK m \in V!Place : names[m] = n /\ m <= stored.count
        BY <1>1, FewSectors DEF KeptHasPlaces, AtPlace
      <3>2. stored.names[m] = n
        BY <3>1, <1>1, SavedTable DEF V!Place
      <3>3. QED
        BY <3>1, <3>2, ShownOnDisk
    <2>2. Cardinality(LostNames) = 0
      BY <2>1, FS_EmptySet
    <2>3. QED
      BY <1>1, <2>2, SameCardinality DEF V!FewFilesLost
  <1>2. CASE sector # V!SectorCount
    <2> DEFINE place == [n \in LostNames |-> CHOOSE j \in V!Place : stored.names[j] = n /\ j \in Left]
    <2>1. ASSUME NEW n \in LostNames
          PROVE  place[n] \in Left /\ stored.names[place[n]] = n
      <3>1. PICK j \in V!Place : stored.names[j] = n /\ j <= stored.count + deletions
        BY DEF KeptHasPlaces, AtPlace
      <3>2. j > stored.count
        BY <3>1, ShownOnDisk DEF V!Place
      <3>3. j \in Left
        BY <3>1, <3>2 DEF V!Place
      <3>4. QED
        BY <3>1, <3>3
    <2>2. place \in Injection(LostNames, Left)
      BY <2>1 DEF Injection, IsInjective
    <2>3. IsFiniteSet(Left) /\ Cardinality(Left) = deletions
      <3> DEFINE first == stored.count + 1
                 last == stored.count + deletions
      <3>1. /\ first \in Int /\ last \in Int
            /\ deletions = IF first > last THEN 0 ELSE last - first + 1
        BY <1>0
      <3> HIDE DEF first, last
      <3>2. IsFiniteSet(first .. last)
            /\ Cardinality(first .. last) = IF first > last THEN 0 ELSE last - first + 1
        BY <3>1, FS_Interval
      <3>3. IsFiniteSet(first .. last) /\ Cardinality(first .. last) = deletions
        BY <3>1, <3>2
      <3>4. QED
        BY <3>3 DEF first, last
    <2>4. Cardinality(LostNames) <= deletions
      BY <2>2, <2>3, FS_Injection
    <2>5. QED
      BY <1>2, <2>4, SameCardinality DEF V!FewFilesLost
  <1>3. QED
    BY <1>1, <1>2

\* A complete save loses nothing; one cut short, no more files than delete() was
\* called since the last complete one.
THEOREM VolumeFewFilesLost ==
    ASSUME V!VolumeAssumption PROVE V!Spec => []V!FewFilesLost
  <1>1. VolumeInv => V!FewFilesLost
    BY LostCount
  <1>2. QED
    BY <1>1, VolumeInvariant, PTL
=============================================================================
