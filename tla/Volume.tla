------------------------------- MODULE Volume -------------------------------
(***************************************************************************)
(* The directory across restarts.  create() changes the directory in       *)
(* memory only; delete() and write() save the whole image, one sector      *)
(* after the other, and the power may fail between any two; at the next    *)
(* start file_system_init() reads what is there.  A dentry is its name:    *)
(* descriptors and the preemption of calls are module Directory, inodes    *)
(* and data blocks module FileData.                                        *)
(*                                                                         *)
(* Two transfers at once would program the same ATA ports: a save begins   *)
(* when none is going on.  kept, deleted, deletions, gone and stale are    *)
(* history variables.                                                      *)
(***************************************************************************)
EXTENDS Integers, Sequences, FiniteSets

CONSTANTS
    Names,              \* names programs use, without the empty one
    Image,              \* the names as installed, a sequence
    Places,             \* bound: dentries; the table has 63
    FirstSector,        \* dentries in the first sector, after the counts: 7
    PerSector           \* dentries in every other: 8

Empty == ""

VolumeAssumption ==
    /\ Empty \notin Names
    /\ Places \in Nat \ {0} /\ FirstSector \in Nat \ {0} /\ PerSector \in Nat \ {0}
    /\ Image \in Seq(Names) /\ Len(Image) <= Places

VARIABLES
    names, count,       \* boot_block->dentries[.].file_name and dentry_count
    disk,               \* the two on the disk
    sector,             \* sectors the save has written, IDLE when none goes on
    kept, deleted,      \* names on the disk at the last complete save, those not
                        \* deleted since and those that were
    deletions,          \* calls of delete() since then, up to Places
    gone,               \* names deleted before it and not created since
    stale               \* a start has read a dentry from behind the count

memory == <<names, count>>
saved == <<kept, deleted, deletions, gone, stale>>
vars == <<memory, disk, sector, saved>>

IDLE == -1
Place == 1 .. Places

\* The names a table shows.
NamesIn(table, n) == {table[i] : i \in 1 .. n} \ {Empty}
InMemory == NamesIn(names, count)
OnDisk == NamesIn(disk.names, disk.count)

TypeOK ==
    /\ names \in [Place -> Names \cup {Empty}] /\ count \in 0 .. Places
    /\ disk.names \in [Place -> Names \cup {Empty}] /\ disk.count \in 0 .. Places
    /\ sector \in {IDLE} \cup 0 .. Places
    /\ kept \cup deleted \cup gone \subseteq Names /\ stale \in BOOLEAN
    /\ deletions \in 0 .. Places

Init ==
    /\ names = [i \in Place |-> IF i <= Len(Image) THEN Image[i] ELSE Empty]
    /\ count = Len(Image)
    /\ disk = [names |-> names, count |-> count]
    /\ sector = IDLE
    /\ kept = OnDisk /\ deleted = {} /\ deletions = 0 /\ gone = {} /\ stale = FALSE

-----------------------------------------------------------------------------
\* Mutant: the dentries after it are cleared, not moved.
RemovedTail(i) == [j \in Place |-> IF j < i THEN names[j] ELSE Empty]

\* The table without dentry i: the gap is closed and the last place cleared.
Removed(i) ==
    [j \in Place |-> IF j < i \/ j > count THEN names[j]
                     ELSE IF j < count THEN names[j + 1] ELSE Empty]

\* create() appends and leaves the disk alone.
create(name) ==
    /\ name \notin InMemory
    /\ count < Places
    /\ names' = [names EXCEPT ![count + 1] = name] /\ count' = count + 1
    /\ gone' = gone \ {name}
    /\ UNCHANGED <<disk, sector, kept, deleted, deletions, stale>>

SaveBegins == sector = IDLE /\ sector' = 0

\* delete() saves, ...
delete(name) ==
    /\ \E i \in 1 .. count : /\ names[i] = name /\ \A j \in 1 .. i - 1 : names[j] # name
                             /\ names' = Removed(i)
    /\ count' = count - 1
    /\ SaveBegins
    /\ kept' = kept \ {name} /\ deleted' = deleted \cup {name}
    /\ deletions' = IF deletions < Places THEN deletions + 1 ELSE Places
    /\ UNCHANGED <<disk, gone, stale>>

\* ... and so does a write() to any file.
write_data ==
    /\ SaveBegins
    /\ UNCHANGED <<memory, disk, saved>>

-----------------------------------------------------------------------------
\* The sector place i is in; sector 0 also has the counts.
SectorOf(i) == IF i <= FirstSector THEN 0 ELSE 1 + (i - FirstSector - 1) \div PerSector

\* Mutant: the block after the directory is left out of the count.
SectorCountShort == SectorOf(Places)

\* The sectors of the directory.
SectorCount == SectorOf(Places) + 1

\* write_ata_sectors() writes a sector; those after the directory's hold other things.
write_ata_sectors ==
    /\ sector \in 0 .. SectorCount - 1
    /\ disk' = [names |-> [i \in Place |-> IF SectorOf(i) = sector THEN names[i] ELSE disk.names[i]],
                count |-> IF sector = 0 THEN count ELSE disk.count]
    /\ sector' = sector + 1
    /\ UNCHANGED <<memory, saved>>

\* delete() or write() returns.
SaveEnds ==
    /\ sector = SectorCount /\ sector' = IDLE
    /\ kept' = OnDisk /\ deleted' = {} /\ deletions' = 0 /\ gone' = (gone \cup deleted) \ InMemory
    /\ UNCHANGED <<memory, disk, stale>>

\* Ctrl+C halts the process that saves.
halt ==
    /\ sector # IDLE /\ sector' = IDLE
    /\ UNCHANGED <<memory, disk, saved>>

\* The power fails, or the machine is restarted, and the disk is read back.
file_system_init ==
    /\ names' = disk.names /\ count' = disk.count
    /\ sector' = IDLE
    /\ kept' = OnDisk /\ deleted' = {} /\ deletions' = 0
    /\ stale' = (stale \/ \E i \in Place : i > disk.count /\ disk.names[i] # Empty)
    /\ UNCHANGED <<disk, gone>>

Next ==
    \/ \E name \in Names : create(name) \/ delete(name)
    \/ write_data \/ write_ata_sectors \/ SaveEnds \/ halt
    \/ file_system_init

Spec == Init /\ [][Next]_vars

-----------------------------------------------------------------------------
(* Properties.                                                              *)

\* A deleted file stays deleted: once delete() has returned, or a later save has,
\* no restart brings the name back unless it is created again, although create()
\* saves nothing and other saves may be cut short anywhere.  What a delete() cut
\* short leaves behind the count, and a start reads, can become visible again.
DeletedStaysDeleted == stale \/ OnDisk \cap gone = {}

\* A complete save loses nothing, and one cut short loses no more files than calls of
\* delete() since the last complete one: those in the last places of the table, which
\* the new count leaves out, if the sector they were to move to is not written.  Calls,
\* not names: after a save cut short a name may stand in two places, and be deleted twice.
FewFilesLost ==
    Cardinality(kept \ OnDisk) <= IF sector = SectorCount THEN 0 ELSE deletions
=============================================================================
