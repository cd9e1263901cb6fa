----------------------------- MODULE Directory -----------------------------
(***************************************************************************)
(* The directory and the descriptor tables: open(), close(), create() and  *)
(* delete() of several processes.  What files hold is module FileData, and *)
(* reading the directory is module Listing.                                *)
(*                                                                         *)
(* System calls run with interrupts enabled, none of these takes a lock,   *)
(* and the build does not optimise: a lookup compares dentry after dentry, *)
(* then copies the fields of the one it found; create() and delete() store *)
(* field by field and load and store the count.  Each of these is a step.  *)
(* (A name is compared or stored in one: whoever compares it in between    *)
(* sees it differ from the old one, or from the new, as before or after.)  *)
(* expected, tainted, mixed and a descriptor's name and sure are history:  *)
(* what the calls so far should have left, and which calls overlapped one  *)
(* that can mislead them.                                                  *)
(***************************************************************************)
EXTENDS Integers, Sequences

CONSTANTS
    Pid,                \* the processes whose descriptors delete() looks at
    Fd,                 \* descriptors: 2 .. 7
    Names,              \* names programs use
    inode_count,
    MaxDentries,        \* bound: dentries; create() itself has no limit
    Image,              \* the directory as installed
    BlockCount,         \* BlockCount[i]: data blocks of inode i
    InUse               \* data blocks in use on the installed image

Inode == 0 .. (inode_count - 1)
Types == {"rtc", "dir", "file"}         \* file_type 0, 1, 2, and the operations they stand for
Place == 0 .. (MaxDentries - 1)
NoName == "no name"
Dentry == [name : Names \cup {NoName}, type : Types, inode : Inode]
Blank == [name |-> NoName, type |-> "rtc", inode |-> 0]     \* a dentry of zeros

ASSUME DirectoryAssumption ==
    /\ NoName \notin Names
    /\ Fd \subseteq Nat
    /\ inode_count \in Nat \ {0}
    /\ MaxDentries \in Nat
    /\ Image \in Seq([name : Names, type : Types, inode : Inode]) /\ Len(Image) <= MaxDentries
    /\ BlockCount \in [Inode -> Nat]
    /\ InUse \subseteq Nat
    /\ \A i, j \in DOMAIN Image : Image[i].name = Image[j].name => i = j

VARIABLES
    file_name, file_type, inode_num,    \* boot_block->dentries, field by field
    dentry_count,
    data_block_bitmap,  \* the blocks marked as in use
    files,              \* files[p][fd]: p's descriptors
    call,               \* call[p]: where p is in which call, and the call's variables
    expected,           \* history: the dentries that the calls so far should have left
    tainted,            \* history: processes whose call overlapped one that misleads it
    mixed               \* history: a misled call, or half of one, has changed the directory

table == <<file_name, file_type, inode_num, dentry_count>>
vars == <<table, data_block_bitmap, files, call, expected, tainted, mixed>>

Closed == [present |-> FALSE, inode |-> 0, type |-> "rtc", name |-> NoName, sure |-> FALSE]

\* op: the call, or "none"; pc: where in it; name: its argument; at: a dentry's place;
\* type, inode: its copy of a dentry; n: what it loaded of dentry_count, or a block's
\* place; left: the processes delete() has yet to look at.
Idle == [op |-> "none", pc |-> "idle", name |-> NoName, at |-> 0, type |-> "rtc", inode |-> 0,
         n |-> 0, left |-> {}]

\* While they store into the directory ...
Storing == {"name", "type", "inode", "last", "lower", "lowered"}
\* ... and before and after.
Locations == Storing \cup {"idle", "scan", "copy type", "copy inode", "again", "load",
                           "count", "users", "bits", "install"}

\* Every variable has its type.
TypeOK ==
    /\ file_name \in [Place -> Names \cup {NoName}] /\ file_type \in [Place -> Types]
    /\ inode_num \in [Place -> Inode]
    /\ dentry_count \in 0 .. MaxDentries
    /\ data_block_bitmap \subseteq Nat
    /\ files \in [Pid -> [Fd -> [present : BOOLEAN, inode : Inode, type : Types,
                                 name : Names \cup {NoName}, sure : BOOLEAN]]]
    /\ call \in [Pid -> [op : {"none", "open", "create", "delete"}, pc : Locations,
                         name : Names \cup {NoName}, at : Nat, type : Types, inode : Inode,
                         n : Nat, left : SUBSET Pid]]
    /\ expected \subseteq Dentry /\ tainted \subseteq Pid /\ mixed \in BOOLEAN

DentryAt(i) == [name |-> file_name[i], type |-> file_type[i], inode |-> inode_num[i]]
Dentries == {DentryAt(i) : i \in {i \in Place : i < dentry_count}}

ImageAt(i) == IF i < Len(Image) THEN Image[i + 1] ELSE Blank

Init ==
    /\ file_name = [i \in Place |-> ImageAt(i).name]
    /\ file_type = [i \in Place |-> ImageAt(i).type]
    /\ inode_num = [i \in Place |-> ImageAt(i).inode]
    /\ dentry_count = Len(Image)
    /\ data_block_bitmap = InUse
    /\ files = [p \in Pid |-> [fd \in Fd |-> Closed]]
    /\ call = [p \in Pid |-> Idle]
    /\ expected = Dentries /\ tainted = {} /\ mixed = FALSE

-----------------------------------------------------------------------------
(* Calls and their overlaps.                                                *)

At(p, l) == call[p].pc = l
Goto(p, l) == call' = [call EXCEPT ![p].pc = l]

\* A call for op and name can be misled by q's: by any delete(), which moves dentries;
\* a create() or delete() by any that changes the directory as well; a lookup by a
\* create() of the same name.
Misleads(q, op, name) ==
    \/ call[q].op = "delete"
    \/ op = "delete" /\ call[q].op # "none"
    \/ call[q].op = "create" /\ (op = "create" \/ call[q].name = name)
    \/ op = "create" /\ call[q].op = "open" /\ call[q].name = name

Begin(p, op, name) ==
    LET others == {q \in Pid \ {p} : Misleads(q, op, name)} IN
    /\ At(p, "idle")
    /\ call' = [call EXCEPT ![p] = [Idle EXCEPT !.op = op, !.pc = "scan", !.name = name]]
    /\ tainted' = tainted \cup others \cup (IF others = {} THEN {} ELSE {p})

\* The call is over, and its variables with it.
Return(p) == call' = [call EXCEPT ![p] = Idle] /\ tainted' = tainted \ {p}

\* p's call is about to change the directory.
Commit(p, dentries) == mixed' = (mixed \/ p \in tainted) /\ expected' = dentries

\* The first free descriptor.
FreeFd(p, fd) == ~files[p][fd].present /\ \A g \in Fd : g < fd => files[p][g].present

-----------------------------------------------------------------------------
(* Lookups.                                                                 *)

\* open() and create() need a descriptor; then all three look the name up.
Calls(p, op, name) ==
    /\ op # "delete" => \E fd \in Fd : FreeFd(p, fd)
    /\ Begin(p, op, name)
    /\ UNCHANGED <<table, data_block_bitmap, files, expected, mixed>>

\* Mutant: the last dentry is not looked at.
MoreDentriesButLast(p) == call[p].at + 1 < dentry_count

\* read_dentry_by_name() has dentries left to compare.
MoreDentries(p) == call[p].at < dentry_count

Matches(p) == MoreDentries(p) /\ file_name[call[p].at] = call[p].name

\* It compares one dentry after the other, for open() also in file_open() or
\* dir_open() ...
Compare(p) ==
    /\ At(p, "scan") \/ At(p, "again")
    /\ MoreDentries(p) /\ ~Matches(p)
    /\ call' = [call EXCEPT ![p].at = @ + 1]
    /\ UNCHANGED <<table, data_block_bitmap, files, expected, tainted, mixed>>

\* ... until one matches; open() finds it again ...
Match(p) ==
    /\ Matches(p)
    /\ \/ At(p, "scan") /\ call[p].op # "create" /\ Goto(p, "copy type")
       \/ At(p, "again") /\ Goto(p, "install")
    /\ UNCHANGED <<table, data_block_bitmap, files, expected, tainted, mixed>>

\* ... and copies it: its type ...
CopyType(p) ==
    /\ At(p, "copy type")
    /\ call' = [call EXCEPT ![p].pc = "copy inode", ![p].type = file_type[call[p].at]]
    /\ UNCHANGED <<table, data_block_bitmap, files, expected, tainted, mixed>>

\* ... and its inode.  delete() goes on with both, open() looks the name up again
\* unless it is the rtc's.
CopyInode(p) ==
    LET to == IF call[p].op = "delete" THEN "users"
              ELSE IF call[p].type = "rtc" THEN "install" ELSE "again"
    IN  /\ At(p, "copy inode")
        /\ call' = [call EXCEPT ![p].pc = to, ![p].inode = inode_num[call[p].at],
                                ![p].at = IF to = "again" THEN 0 ELSE @,
                                ![p].left = IF to = "users" THEN Pid ELSE {}]
        /\ UNCHANGED <<table, data_block_bitmap, files, expected, tainted, mixed>>

\* -1: create() of a name that exists, anything else of one that does not.
LookupFails(p) ==
    /\ \/ At(p, "scan") /\ (IF call[p].op = "create" THEN Matches(p) ELSE ~MoreDentries(p))
       \/ At(p, "again") /\ ~MoreDentries(p)
    /\ Return(p)
    /\ UNCHANGED <<table, data_block_bitmap, files, expected, mixed>>

\* open() and create() end with a descriptor.
Install(p) ==
    /\ At(p, "install")
    /\ \E fd \in Fd :
           /\ FreeFd(p, fd)
           /\ files' = [files EXCEPT ![p][fd] =
                           [present |-> TRUE, inode |-> call[p].inode, type |-> call[p].type,
                            name |-> call[p].name, sure |-> p \notin tainted]]
    /\ Return(p)
    /\ UNCHANGED <<table, data_block_bitmap, expected, mixed>>

close(p, fd) ==
    /\ At(p, "idle")
    /\ files[p][fd].present
    /\ files' = [files EXCEPT ![p][fd] = Closed]
    /\ UNCHANGED <<table, data_block_bitmap, call, expected, tainted, mixed>>

-----------------------------------------------------------------------------
(* Storing dentries: a created one, or on delete() each from the next one,  *)
(* the last one zeros.                                                      *)

\* The place is written up to the last one that delete() counted.
LastPlace(p) == call[p].at = call[p].n - 1

StoredName(p) ==
    IF call[p].op = "create" THEN call[p].name
    ELSE IF LastPlace(p) THEN Blank.name ELSE file_name[call[p].at + 1]

StoreName(p) ==
    /\ At(p, "name") /\ Goto(p, "type")
    /\ file_name' = [file_name EXCEPT ![call[p].at] = StoredName(p)]
    /\ UNCHANGED <<file_type, inode_num, dentry_count, data_block_bitmap, files, expected,
                   tainted, mixed>>

StoredType(p) ==
    IF call[p].op = "create" THEN call[p].type
    ELSE IF LastPlace(p) THEN Blank.type ELSE file_type[call[p].at + 1]

StoreType(p) ==
    /\ At(p, "type") /\ Goto(p, "inode")
    /\ file_type' = [file_type EXCEPT ![call[p].at] = StoredType(p)]
    /\ UNCHANGED <<file_name, inode_num, dentry_count, data_block_bitmap, files, expected,
                   tainted, mixed>>

StoredInode(p) ==
    IF call[p].op = "create" THEN call[p].inode
    ELSE IF LastPlace(p) THEN Blank.inode ELSE inode_num[call[p].at + 1]

\* Where to go on: at the next place, or, before the last one, by clearing that.
StoreInode(p) ==
    /\ At(p, "inode")
    /\ inode_num' = [inode_num EXCEPT ![call[p].at] = StoredInode(p)]
    /\ \/ call[p].op = "create" /\ Goto(p, "install")
       \/ call[p].op = "delete" /\ LastPlace(p) /\ Goto(p, "lower")
       \/ /\ call[p].op = "delete" /\ ~LastPlace(p)
          /\ call' = [call EXCEPT ![p].pc = IF call[p].at + 2 = call[p].n THEN "last" ELSE "name",
                                  ![p].at = @ + 1]
    /\ UNCHANGED <<file_name, file_type, dentry_count, data_block_bitmap, files, expected,
                   tainted, mixed>>

-----------------------------------------------------------------------------
(* create().                                                                *)

\* find_free_inode() looks at the data blocks' bitmap, and marks nothing.
find_free_inode(i) ==
    /\ i \in Inode \ {0} /\ i \notin data_block_bitmap
    /\ \A j \in Inode \ {0} : j < i => j \in data_block_bitmap

\* create() has not found the name: it chooses an inode, or returns -1 ...
CreateChooses(p) ==
    /\ At(p, "scan") /\ call[p].op = "create" /\ ~MoreDentries(p)
    /\ \/ \E i \in Inode : /\ find_free_inode(i)
                           /\ call' = [call EXCEPT ![p].pc = "load", ![p].type = "file",
                                                   ![p].inode = i]
                           /\ UNCHANGED tainted
       \/ (\A i \in Inode : ~find_free_inode(i)) /\ Return(p)
    /\ UNCHANGED <<table, data_block_bitmap, files, expected, mixed>>

\* ... loads the count ...
CreateLoads(p) ==
    /\ At(p, "load") /\ dentry_count < MaxDentries
    /\ call' = [call EXCEPT ![p].pc = "count", ![p].n = dentry_count, ![p].at = dentry_count]
    /\ UNCHANGED <<table, data_block_bitmap, files, expected, tainted, mixed>>

\* ... and stores it, with one dentry more, before the dentry.
CreateCounts(p) ==
    /\ At(p, "count") /\ Goto(p, "name")
    /\ dentry_count' = call[p].n + 1
    /\ Commit(p, expected \cup {[name |-> call[p].name, type |-> call[p].type,
                                 inode |-> call[p].inode]})
    /\ UNCHANGED <<file_name, file_type, inode_num, data_block_bitmap, files, tainted>>

-----------------------------------------------------------------------------
(* delete().                                                                *)

Uses(q, inode) == \E fd \in Fd : files[q][fd].present /\ files[q][fd].inode = inode

\* Mutant: only the caller's descriptors are looked at.
LooksAtOwn(p, q) ==
    /\ At(p, "users") /\ q \in call[p].left
    /\ \/ /\ q # p \/ ~Uses(q, call[p].inode)
          /\ call' = [call EXCEPT ![p].left = @ \ {q}]
          /\ UNCHANGED tainted
       \/ q = p /\ Uses(q, call[p].inode) /\ Return(p)
    /\ UNCHANGED <<table, data_block_bitmap, files, expected, mixed>>

\* delete() looks at every process's descriptors, and gives up if one is the file's ...
LooksAt(p, q) ==
    /\ At(p, "users") /\ q \in call[p].left
    /\ \/ /\ ~Uses(q, call[p].inode)
          /\ call' = [call EXCEPT ![p].left = @ \ {q}]
          /\ UNCHANGED tainted
       \/ Uses(q, call[p].inode) /\ Return(p)
    /\ UNCHANGED <<table, data_block_bitmap, files, expected, mixed>>

\* ... goes through the file's blocks ...
Unused(p) ==
    /\ At(p, "users") /\ call[p].left = {}
    /\ call' = [call EXCEPT ![p].pc = "bits", ![p].n = 0]
    /\ UNCHANGED <<table, data_block_bitmap, files, expected, tainted, mixed>>

\* ... and clears as many bits, those of the first blocks and not of the file's ...
ClearBit(p) ==
    /\ At(p, "bits") /\ call[p].n < BlockCount[call[p].inode]
    /\ data_block_bitmap' = data_block_bitmap \ {call[p].n}
    /\ call' = [call EXCEPT ![p].n = @ + 1]
    /\ UNCHANGED <<table, files, expected, tainted, mixed>>

\* Mutant: the dentry behind the one found goes.
PlaceToGoNext(p) == IF call[p].at + 1 < dentry_count THEN call[p].at + 1 ELSE call[p].at

\* Where memmove() starts to store.
PlaceToGo(p) == call[p].at

\* ... moves up the dentries behind the one it found, if there is one at that place
\* (memmove() with a negative length otherwise) ...
Moves(p) ==
    /\ At(p, "bits") /\ call[p].n >= BlockCount[call[p].inode]
    /\ call[p].at < dentry_count
    /\ call' = [call EXCEPT ![p].pc = IF PlaceToGo(p) + 1 = dentry_count THEN "last" ELSE "name",
                            ![p].at = PlaceToGo(p), ![p].n = dentry_count]
    /\ Commit(p, {d \in expected : d.name # call[p].name})
    /\ UNCHANGED <<table, data_block_bitmap, files, tainted>>

\* ... clears the last one ...
ClearsLast(p) ==
    /\ At(p, "last") /\ dentry_count > 0
    /\ call' = [call EXCEPT ![p].pc = "name", ![p].at = dentry_count - 1, ![p].n = dentry_count]
    /\ UNCHANGED <<table, data_block_bitmap, files, expected, tainted, mixed>>

\* ... and lowers the count, if it is not zero by now: a load and a store.
Lowers(p) ==
    /\ At(p, "lower") /\ dentry_count > 0
    /\ call' = [call EXCEPT ![p].pc = "lowered", ![p].n = dentry_count]
    /\ UNCHANGED <<table, data_block_bitmap, files, expected, tainted, mixed>>

\* Mutant: the count stays.
DeleteEndsUncounted(p) ==
    /\ At(p, "lowered")
    /\ Return(p)
    /\ UNCHANGED <<table, data_block_bitmap, files, expected, mixed>>

DeleteEnds(p) ==
    /\ At(p, "lowered")
    /\ dentry_count' = call[p].n - 1
    /\ Return(p)
    /\ UNCHANGED <<file_name, file_type, inode_num, data_block_bitmap, files, expected, mixed>>

-----------------------------------------------------------------------------
\* halt(), by the process or by Ctrl+C in the middle of a call, closes everything;
\* the slot may be taken again.
halt(p) ==
    /\ files' = [files EXCEPT ![p] = [fd \in Fd |-> Closed]]
    /\ Return(p)
    /\ mixed' = (mixed \/ call[p].pc \in Storing)
    /\ UNCHANGED <<table, data_block_bitmap, expected>>

Lookup(p) == Compare(p) \/ Match(p) \/ CopyType(p) \/ CopyInode(p) \/ LookupFails(p)
Store(p) == StoreName(p) \/ StoreType(p) \/ StoreInode(p)
create(p) == CreateChooses(p) \/ CreateLoads(p) \/ CreateCounts(p)
delete(p) ==
    \/ \E q \in Pid : LooksAt(p, q)
    \/ Unused(p) \/ ClearBit(p) \/ Moves(p) \/ ClearsLast(p) \/ Lowers(p) \/ DeleteEnds(p)

Next ==
    \E p \in Pid :
        \/ \E op \in {"open", "create", "delete"}, name \in Names : Calls(p, op, name)
        \/ Lookup(p) \/ Store(p) \/ create(p) \/ delete(p)
        \/ Install(p) \/ halt(p)
        \/ \E fd \in Fd : close(p, fd)

Spec == Init /\ [][Next]_vars

-----------------------------------------------------------------------------
(* Properties.  They hold until a call that another one has misled changes  *)
(* the directory, or half a change is left behind.                          *)

\* Nobody is in the middle of changing the directory.
Quiet == \A p \in Pid : call[p].pc \notin Storing

\* No two dentries have the same name, so that read_dentry_by_name() finds the file
\* every program means.
NamesUnique ==
    ~mixed /\ Quiet =>
        \A i, j \in {i \in Place : i < dentry_count} : file_name[i] = file_name[j] => i = j

\* The directory holds the dentries that the completed calls of create() and delete()
\* ask for, each with its own type and inode, whatever was looked up, opened and
\* closed while they were stored field by field.
DirectoryAsAsked == ~mixed /\ Quiet => Dentries = expected

\* delete() never takes a file from under a process: the directory has, also in the
\* middle of a change, the whole dentry that a descriptor was opened from, with the
\* name it was opened by; unless the open() overlapped a delete(), or the create() of
\* that name.
OpenFilesNamed ==
    ~mixed => \A p \in Pid, fd \in Fd : files[p][fd].present /\ files[p][fd].sure =>
        \E i \in Place : /\ i < dentry_count
                         /\ DentryAt(i) = [name |-> files[p][fd].name, type |-> files[p][fd].type,
                                           inode |-> files[p][fd].inode]

\* A lookup that no delete() overlaps fails only for a name that is not there, also
\* while create() appends to the dentries it goes through.
LookupsComplete ==
    ~mixed => \A p \in Pid \ tainted :
        (At(p, "scan") \/ At(p, "again")) /\ ~MoreDentries(p) =>
            \A d \in expected : d.name # call[p].name
=============================================================================
