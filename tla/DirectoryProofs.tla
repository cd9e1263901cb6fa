--------------------------- MODULE DirectoryProofs ---------------------------
(***************************************************************************)
(* Proofs about module Directory, for any image, any set of processes,     *)
(* descriptors and names, and any number of inodes and dentries.           *)
(*                                                                         *)
(* A call works with what it has read of the tables.  The inductive        *)
(* invariant says that this is still so for as long as no call that        *)
(* another can mislead has changed the directory: what a lookup has passed *)
(* is not the name it looks for, the dentry it found is there and in its   *)
(* place, the file delete() found unused is unused.  In the middle of a    *)
(* change all dentries are whole but the one at the place being stored.    *)
(*                                                                         *)
(* The second half is about module Listing.                                *)
(***************************************************************************)
EXTENDS Directory, FiniteSetTheorems, TLAPS

\* The place and the count in the variables c of a call are within the table, and its
\* location is one of its operation.
InBounds(c) ==
    /\ c.pc = "idle" <=> c.op = "none"
    /\ c.op # "none" => c.name \in Names
    /\ c.pc \in {"copy type", "copy inode"} => c.at \in Place /\ c.op # "create"
    /\ c.pc = "again" => c.op = "open"
    /\ c.pc \in {"load", "count"} => c.op = "create"
    /\ c.pc = "install" => c.op # "delete"
    /\ c.pc = "count" => c.n < MaxDentries
    /\ c.pc \in {"users", "bits", "last", "lower", "lowered"} => c.op = "delete"
    /\ c.pc \in {"name", "type", "inode"} =>
           /\ c.op \in {"create", "delete"}
           /\ c.op = "delete" => c.at < c.n /\ c.n <= MaxDentries
    /\ c.pc = "lowered" => c.n \in 1 .. MaxDentries

\* q's call can mislead p's.
Misled(p, q) == Misleads(q, call[p].op, call[p].name)

\* A call that another one can mislead is recorded.
OverlapsRecorded ==
    \A p, q \in Pid : p # q /\ call[p].op # "none" /\ Misled(p, q) => p \in tainted

\* One process at most stores into the directory.
OneStores == \A p, q \in Pid : call[p].pc \in Storing /\ call[q].pc \in Storing => p = q

\* The dentry at place i is nobody's to store.
Whole(i) == \A q \in Pid : call[q].pc \in Storing => call[q].at # i

\* The directory has the whole dentry d.
Has(d) == \E i \in Place : i < dentry_count /\ Whole(i) /\ DentryAt(i) = d

\* The dentry that create() stores.
Created(p) == [name |-> call[p].name, type |-> call[p].type, inode |-> call[p].inode]

\* The whole dentries, and the one that is being created, are those asked for; their
\* names are distinct; behind them is none.
TableSound ==
    /\ \A d \in Dentry : d \in expected <=>
           Has(d) \/ \E p \in Pid : call[p].pc \in Storing /\ call[p].op = "create" /\ Created(p) = d
    /\ \A i, j \in Place : i < dentry_count /\ j < dentry_count /\ Whole(i) /\ Whole(j)
                           /\ file_name[i] = file_name[j] => i = j
    /\ \A i \in Place : i >= dentry_count => file_name[i] = NoName

\* create() stores the last dentry, of a name that no other has; delete() has stored of
\* its place what it is to store, and the last place is clear before the count goes down.
StoreSound(p) ==
    /\ call[p].op = "create" =>
           /\ call[p].at + 1 = dentry_count
           /\ \A i \in Place : i < dentry_count /\ i # call[p].at => file_name[i] # call[p].name
           /\ At(p, "name") => file_name[call[p].at] = NoName
    /\ call[p].op = "delete" =>
           /\ call[p].n = dentry_count /\ call[p].at < dentry_count
           /\ call[p].pc \in {"last", "lower", "lowered"} => call[p].at + 1 = dentry_count
           /\ call[p].pc \in {"lower", "lowered"} => file_name[call[p].at] = NoName
    /\ call[p].pc \in {"type", "inode"} => file_name[call[p].at] = StoredName(p)
    /\ At(p, "inode") => file_type[call[p].at] = StoredType(p)

\* What a call has read of the tables is still so, unless another can mislead it.
CallSound(p) ==
    /\ At(p, "scan") \/ At(p, "again") =>
           \A i \in Place : i < call[p].at => file_name[i] # call[p].name
    /\ call[p].pc \in {"copy type", "copy inode", "users", "bits"} =>
           call[p].at < dentry_count /\ Whole(call[p].at) /\ file_name[call[p].at] = call[p].name
    /\ At(p, "copy inode") => file_type[call[p].at] = call[p].type
    /\ call[p].pc \in {"again", "install"} => Has(Created(p))
    /\ call[p].pc \in {"load", "count"} =>
           \A i \in Place : i < dentry_count => file_name[i] # call[p].name
    /\ At(p, "count") => call[p].n = dentry_count /\ call[p].at = dentry_count
    /\ call[p].pc \in {"users", "bits"} => inode_num[call[p].at] = call[p].inode
    /\ At(p, "users") => \A q \in Pid \ call[p].left : ~Uses(q, call[p].inode)
    /\ At(p, "bits") => \A q \in Pid : ~Uses(q, call[p].inode)

\* The dentries of open files are there.
FilesSound ==
    \A p \in Pid, fd \in Fd : files[p][fd].present /\ files[p][fd].sure =>
        Has([name |-> files[p][fd].name, type |-> files[p][fd].type, inode |-> files[p][fd].inode])

\* What holds until a misled call changes the directory.
Sound ==
    /\ OneStores /\ TableSound /\ FilesSound
    /\ \A p \in Pid : call[p].pc \in Storing => StoreSound(p)
    /\ \A p \in Pid \ tainted : CallSound(p)

\* The inductive invariant.
DirectoryInv ==
    /\ TypeOK /\ OverlapsRecorded /\ \A p \in Pid : InBounds(call[p])
    /\ ~mixed => Sound

-----------------------------------------------------------------------------
(* Types and bounds.                                                        *)

CallType == [op : {"none", "open", "create", "delete"}, pc : Locations,
             name : Names \cup {NoName}, at : Nat, type : Types, inode : Inode,
             n : Nat, left : SUBSET Pid]

\* A step of p leaves the calls of the others alone, and leaves its own in bounds.
CallStep(p) ==
    /\ call' \in [Pid -> CallType]
    /\ \A q \in Pid : q # p => call'[q] = call[q]
    /\ InBounds(call'[p])

\* It goes on with the call it is in.
SameCall(p) == call'[p].op = call[p].op /\ call'[p].name = call[p].name

LEMMA Constants ==
    /\ 0 \in Inode /\ MaxDentries \in Nat /\ NoName \notin Names
    /\ Idle \in CallType /\ InBounds(Idle)
  BY DirectoryAssumption DEF Inode, Idle, CallType, Locations, Storing, Types, InBounds

LEMMA CallTyped == TypeOK => /\ call \in [Pid -> CallType] /\ \A p \in Pid : call[p] \in CallType
                             /\ dentry_count \in 0 .. MaxDentries
  BY DEF TypeOK, CallType

\* d are the variables c of a call that goes on, with these values.
Are(d, c, pc, at, type, inode, n, left) ==
    /\ d.op = c.op /\ d.name = c.name /\ d.pc = pc /\ d.at = at /\ d.type = type
    /\ d.inode = inode /\ d.n = n /\ d.left = left

\* A step that makes d of the variables of p's call.
LEMMA CallUpdated ==
    ASSUME TypeOK, NEW p \in Pid, NEW d \in CallType, call' = [call EXCEPT ![p] = d], InBounds(d)
    PROVE  CallStep(p) /\ call'[p] = d
  BY CallTyped DEF CallStep

\* A call that is over.
LEMMA ReturnStep ==
    ASSUME TypeOK, NEW p \in Pid, Return(p)
    PROVE  CallStep(p) /\ call'[p] = Idle /\ tainted' = tainted \ {p}
  BY CallUpdated, Constants DEF Return

LEMMA CallsStep ==
    ASSUME TypeOK, NEW p \in Pid, NEW op \in {"open", "create", "delete"},
           NEW name \in Names, Calls(p, op, name)
    PROVE  /\ CallStep(p) /\ call'[p].op = op /\ call'[p].pc = "scan" /\ call'[p].name = name
           /\ call'[p].at = 0
  <1> DEFINE c == [Idle EXCEPT !.op = op, !.pc = "scan", !.name = name]
  <1>1. /\ c \in CallType /\ InBounds(c)
        /\ c.op = op /\ c.pc = "scan" /\ c.name = name /\ c.at = 0
    BY Constants DEF Idle, CallType, Locations, Types, InBounds
  <1>2. call' = [call EXCEPT ![p] = c]
    BY DEF Calls, Begin
  <1> HIDE DEF c
  <1>3. QED
    BY <1>1, <1>2, CallUpdated

\* The next place, and a block more.
LEMMA PlaceAfter ==
    ASSUME TypeOK, NEW p \in Pid
    PROVE  /\ call[p].at \in Nat /\ call[p].n \in Nat
           /\ call[p].at + 1 \in Nat /\ call[p].n + 1 \in Nat
           /\ call[p].at < call[p].n /\ call[p].at # call[p].n - 1 => call[p].at + 1 < call[p].n
  <1>1. ASSUME NEW c \in CallType
        PROVE  c.at \in Nat /\ c.n \in Nat
    BY DEF CallType
  <1>2. call[p].at \in Nat /\ call[p].n \in Nat
    BY <1>1, CallTyped
  <1>3. QED
    BY <1>2

LEMMA CompareStep ==
    ASSUME TypeOK, NEW p \in Pid, InBounds(call[p]), Compare(p)
    PROVE  /\ CallStep(p)
           /\ Are(call'[p], call[p], call[p].pc, call[p].at + 1, call[p].type, call[p].inode,
                  call[p].n, call[p].left)
  <1> DEFINE d(c, k) == [c EXCEPT !.at = k]
  <1>1. /\ call[p].pc \in {"scan", "again"}
        /\ call[p].at + 1 \in Nat
    BY PlaceAfter DEF Compare, At
  <1>2. ASSUME NEW c \in CallType, NEW k \in Nat, InBounds(c),
               c.pc \in {"scan", "again"}
        PROVE  /\ d(c, k) \in CallType /\ InBounds(d(c, k))
               /\ Are(d(c, k), c, c.pc, k, c.type, c.inode, c.n, c.left)
    BY <1>2 DEF InBounds, CallType, Are
  <1>3. call' = [call EXCEPT ![p] = d(call[p], call[p].at + 1)]
    BY DEF Compare
  <1>4. call[p] \in CallType
    BY CallTyped
  <1> HIDE DEF d
  <1>5. /\ d(call[p], call[p].at + 1) \in CallType /\ InBounds(d(call[p], call[p].at + 1))
        /\ Are(d(call[p], call[p].at + 1), call[p], call[p].pc, call[p].at + 1, call[p].type,
               call[p].inode, call[p].n, call[p].left)
    BY <1>1, <1>2, <1>4
  <1>6. QED
    BY <1>3, <1>5, CallUpdated

LEMMA MatchPlace ==
    ASSUME TypeOK, NEW p \in Pid, Matches(p)
    PROVE  call[p].at \in Place
  <1>1. /\ call[p] \in CallType /\ dentry_count \in 0 .. MaxDentries
        /\ call[p].at < dentry_count
    BY CallTyped DEF Matches, MoreDentries
  <1>2. ASSUME NEW c \in CallType, c.at < dentry_count
        PROVE  c.at \in Place
    BY <1>1, <1>2, Constants DEF CallType, Place
  <1>3. QED
    BY <1>1, <1>2

LEMMA FoundStep ==
    ASSUME TypeOK, NEW p \in Pid, InBounds(call[p]), Match(p), ~At(p, "again")
    PROVE  /\ CallStep(p)
           /\ Are(call'[p], call[p], "copy type", call[p].at, call[p].type, call[p].inode,
                  call[p].n, call[p].left)
  <1> DEFINE d(c) == [c EXCEPT !.pc = "copy type"]
  <1>1. /\ call[p].at \in Place
        /\ call[p].pc = "scan" /\ call[p].op # "create"
    BY MatchPlace DEF Match, At
  <1>2. ASSUME NEW c \in CallType, InBounds(c),
               c.at \in Place,
               c.pc = "scan" /\ c.op # "create",
               "copy type" \in Locations
        PROVE  /\ d(c) \in CallType /\ InBounds(d(c))
               /\ Are(d(c), c, "copy type", c.at, c.type, c.inode, c.n, c.left)
    BY <1>2 DEF InBounds, CallType, Are
  <1>3. "copy type" \in Locations
    BY DEF Locations, Storing
  <1>4. call' = [call EXCEPT ![p] = d(call[p])]
    BY DEF Match, Goto
  <1>5. call[p] \in CallType
    BY CallTyped
  <1> HIDE DEF d
  <1>6. /\ d(call[p]) \in CallType /\ InBounds(d(call[p]))
        /\ Are(d(call[p]), call[p], "copy type", call[p].at, call[p].type, call[p].inode,
               call[p].n, call[p].left)
    BY <1>1, <1>2, <1>3, <1>5
  <1>7. QED
    BY <1>4, <1>6, CallUpdated

LEMMA FoundAgainStep ==
    ASSUME TypeOK, NEW p \in Pid, InBounds(call[p]), Match(p), At(p, "again")
    PROVE  /\ CallStep(p)
           /\ Are(call'[p], call[p], "install", call[p].at, call[p].type, call[p].inode, call[p].n,
                  call[p].left)
  <1> DEFINE d(c) == [c EXCEPT !.pc = "install"]
  <1>1. /\ call[p].pc = "again"
    BY DEF Match, At
  <1>2. ASSUME NEW c \in CallType, InBounds(c),
               c.pc = "again",
               "install" \in Locations
        PROVE  /\ d(c) \in CallType /\ InBounds(d(c))
               /\ Are(d(c), c, "install", c.at, c.type, c.inode, c.n, c.left)
    BY <1>2 DEF InBounds, CallType, Are
  <1>3. "install" \in Locations
    BY DEF Locations, Storing
  <1>4. call' = [call EXCEPT ![p] = d(call[p])]
    BY DEF Match, Goto, At
  <1>5. call[p] \in CallType
    BY CallTyped
  <1> HIDE DEF d
  <1>6. /\ d(call[p]) \in CallType /\ InBounds(d(call[p]))
        /\ Are(d(call[p]), call[p], "install", call[p].at, call[p].type, call[p].inode, call[p].n,
               call[p].left)
    BY <1>1, <1>2, <1>3, <1>5
  <1>7. QED
    BY <1>4, <1>6, CallUpdated

LEMMA CopyTypeStep ==
    ASSUME TypeOK, NEW p \in Pid, InBounds(call[p]), CopyType(p)
    PROVE  /\ CallStep(p)
           /\ Are(call'[p], call[p], "copy inode", call[p].at, file_type[call[p].at],
                  call[p].inode, call[p].n, call[p].left)
  <1> DEFINE d(c, t) == [c EXCEPT !.pc = "copy inode", !.type = t]
  <1>1. /\ call[p].pc = "copy type"
        /\ file_type[call[p].at] \in Types
    BY DEF CopyType, At, InBounds, TypeOK
  <1>2. ASSUME NEW c \in CallType, NEW t \in Types, InBounds(c),
               c.pc = "copy type",
               "copy inode" \in Locations
        PROVE  /\ d(c, t) \in CallType /\ InBounds(d(c, t))
               /\ Are(d(c, t), c, "copy inode", c.at, t, c.inode, c.n, c.left)
    BY <1>2 DEF InBounds, CallType, Are
  <1>3. "copy inode" \in Locations
    BY DEF Locations, Storing
  <1>4. call' = [call EXCEPT ![p] = d(call[p], file_type[call[p].at])]
    BY DEF CopyType
  <1>5. call[p] \in CallType
    BY CallTyped
  <1> HIDE DEF d
  <1>6. /\ d(call[p], file_type[call[p].at]) \in CallType
        /\ InBounds(d(call[p], file_type[call[p].at]))
        /\ Are(d(call[p], file_type[call[p].at]), call[p], "copy inode", call[p].at,
               file_type[call[p].at], call[p].inode, call[p].n, call[p].left)
    BY <1>1, <1>2, <1>3, <1>5
  <1>7. QED
    BY <1>4, <1>6, CallUpdated

\* Where a lookup goes on from the dentry it has copied.
AfterCopy(p) == IF call[p].op = "delete" THEN "users"
                ELSE IF call[p].type = "rtc" THEN "install" ELSE "again"

LEMMA CopyInodeStep ==
    ASSUME TypeOK, NEW p \in Pid, InBounds(call[p]), CopyInode(p)
    PROVE  /\ CallStep(p)
           /\ Are(call'[p], call[p], AfterCopy(p),
                  IF AfterCopy(p) = "again" THEN 0 ELSE call[p].at, call[p].type,
                  inode_num[call[p].at], call[p].n, IF AfterCopy(p) = "users" THEN Pid ELSE {})
  <1> DEFINE d(c, l, i) == [c EXCEPT !.pc = l, !.inode = i,
               !.at = IF l = "again" THEN 0 ELSE c.at, !.left = IF l = "users" THEN Pid ELSE {}]
  <1>1. /\ call[p].pc = "copy inode"
        /\ AfterCopy(p) = "users" <=> call[p].op = "delete"
        /\ AfterCopy(p) \in {"users", "install", "again"}
        /\ inode_num[call[p].at] \in Inode
    BY DEF CopyInode, At, InBounds, TypeOK, AfterCopy
  <1>2. ASSUME NEW c \in CallType, NEW l \in {"users", "install", "again"}, NEW i \in Inode, InBounds(c),
               c.pc = "copy inode",
               l = "users" <=> c.op = "delete",
               "users" \in Locations,
               "install" \in Locations,
               "again" \in Locations
        PROVE  /\ d(c, l, i) \in CallType /\ InBounds(d(c, l, i))
               /\ Are(d(c, l, i), c, l, IF l = "again" THEN 0 ELSE c.at, c.type, i, c.n,
                      IF l = "users" THEN Pid ELSE {})
    BY <1>2 DEF InBounds, CallType, Are
  <1>3. "users" \in Locations /\ "install" \in Locations /\ "again" \in Locations
    BY DEF Locations, Storing
  <1>4. call' = [call EXCEPT ![p] = d(call[p], AfterCopy(p), inode_num[call[p].at])]
    BY DEF CopyInode, AfterCopy
  <1>5. call[p] \in CallType
    BY CallTyped
  <1> HIDE DEF d
  <1>6. /\ d(call[p], AfterCopy(p), inode_num[call[p].at]) \in CallType
        /\ InBounds(d(call[p], AfterCopy(p), inode_num[call[p].at]))
        /\ Are(d(call[p], AfterCopy(p), inode_num[call[p].at]), call[p], AfterCopy(p),
               IF AfterCopy(p) = "again" THEN 0 ELSE call[p].at, call[p].type,
               inode_num[call[p].at], call[p].n, IF AfterCopy(p) = "users" THEN Pid ELSE {})
    BY <1>1, <1>2, <1>3, <1>5
  <1>7. QED
    BY <1>4, <1>6, CallUpdated

LEMMA StoreNameStep ==
    ASSUME TypeOK, NEW p \in Pid, InBounds(call[p]), StoreName(p)
    PROVE  /\ CallStep(p)
           /\ Are(call'[p], call[p], "type", call[p].at, call[p].type, call[p].inode, call[p].n,
                  call[p].left)
  <1> DEFINE d(c) == [c EXCEPT !.pc = "type"]
  <1>1. /\ call[p].pc = "name"
    BY DEF StoreName, At
  <1>2. ASSUME NEW c \in CallType, InBounds(c),
               c.pc = "name",
               "type" \in Locations
        PROVE  /\ d(c) \in CallType /\ InBounds(d(c))
               /\ Are(d(c), c, "type", c.at, c.type, c.inode, c.n, c.left)
    BY <1>2 DEF InBounds, CallType, Are
  <1>3. "type" \in Locations
    BY DEF Locations, Storing
  <1>4. call' = [call EXCEPT ![p] = d(call[p])]
    BY DEF StoreName, Goto
  <1>5. call[p] \in CallType
    BY CallTyped
  <1> HIDE DEF d
  <1>6. /\ d(call[p]) \in CallType /\ InBounds(d(call[p]))
        /\ Are(d(call[p]), call[p], "type", call[p].at, call[p].type, call[p].inode, call[p].n,
               call[p].left)
    BY <1>1, <1>2, <1>3, <1>5
  <1>7. QED
    BY <1>4, <1>6, CallUpdated

LEMMA StoreTypeStep ==
    ASSUME TypeOK, NEW p \in Pid, InBounds(call[p]), StoreType(p)
    PROVE  /\ CallStep(p)
           /\ Are(call'[p], call[p], "inode", call[p].at, call[p].type, call[p].inode, call[p].n,
                  call[p].left)
  <1> DEFINE d(c) == [c EXCEPT !.pc = "inode"]
  <1>1. /\ call[p].pc = "type"
    BY DEF StoreType, At
  <1>2. ASSUME NEW c \in CallType, InBounds(c),
               c.pc = "type",
               "inode" \in Locations
        PROVE  /\ d(c) \in CallType /\ InBounds(d(c))
               /\ Are(d(c), c, "inode", c.at, c.type, c.inode, c.n, c.left)
    BY <1>2 DEF InBounds, CallType, Are
  <1>3. "inode" \in Locations
    BY DEF Locations, Storing
  <1>4. call' = [call EXCEPT ![p] = d(call[p])]
    BY DEF StoreType, Goto
  <1>5. call[p] \in CallType
    BY CallTyped
  <1> HIDE DEF d
  <1>6. /\ d(call[p]) \in CallType /\ InBounds(d(call[p]))
        /\ Are(d(call[p]), call[p], "inode", call[p].at, call[p].type, call[p].inode, call[p].n,
               call[p].left)
    BY <1>1, <1>2, <1>3, <1>5
  <1>7. QED
    BY <1>4, <1>6, CallUpdated

LEMMA StoredStep ==
    ASSUME TypeOK, NEW p \in Pid, InBounds(call[p]), StoreInode(p), call[p].op = "create"
    PROVE  /\ CallStep(p)
           /\ Are(call'[p], call[p], "install", call[p].at, call[p].type, call[p].inode, call[p].n,
                  call[p].left)
  <1> DEFINE d(c) == [c EXCEPT !.pc = "install"]
  <1>1. /\ call[p].pc = "inode" /\ call[p].op = "create"
    BY DEF StoreInode, At
  <1>2. ASSUME NEW c \in CallType, InBounds(c),
               c.pc = "inode" /\ c.op = "create",
               "install" \in Locations
        PROVE  /\ d(c) \in CallType /\ InBounds(d(c))
               /\ Are(d(c), c, "install", c.at, c.type, c.inode, c.n, c.left)
    BY <1>2 DEF InBounds, CallType, Are
  <1>3. "install" \in Locations
    BY DEF Locations, Storing
  <1>4. call' = [call EXCEPT ![p] = d(call[p])]
    BY DEF StoreInode, Goto
  <1>5. call[p] \in CallType
    BY CallTyped
  <1> HIDE DEF d
  <1>6. /\ d(call[p]) \in CallType /\ InBounds(d(call[p]))
        /\ Are(d(call[p]), call[p], "install", call[p].at, call[p].type, call[p].inode, call[p].n,
               call[p].left)
    BY <1>1, <1>2, <1>3, <1>5
  <1>7. QED
    BY <1>4, <1>6, CallUpdated

LEMMA ClearedStep ==
    ASSUME TypeOK, NEW p \in Pid, InBounds(call[p]), StoreInode(p), call[p].op = "delete",
           LastPlace(p)
    PROVE  /\ CallStep(p)
           /\ Are(call'[p], call[p], "lower", call[p].at, call[p].type, call[p].inode, call[p].n,
                  call[p].left)
  <1> DEFINE d(c) == [c EXCEPT !.pc = "lower"]
  <1>1. /\ call[p].pc = "inode" /\ call[p].op = "delete"
    BY DEF StoreInode, At
  <1>2. ASSUME NEW c \in CallType, InBounds(c),
               c.pc = "inode" /\ c.op = "delete",
               "lower" \in Locations
        PROVE  /\ d(c) \in CallType /\ InBounds(d(c))
               /\ Are(d(c), c, "lower", c.at, c.type, c.inode, c.n, c.left)
    BY <1>2 DEF InBounds, CallType, Are
  <1>3. "lower" \in Locations
    BY DEF Locations, Storing
  <1>4. call' = [call EXCEPT ![p] = d(call[p])]
    BY DEF StoreInode, Goto
  <1>5. call[p] \in CallType
    BY CallTyped
  <1> HIDE DEF d
  <1>6. /\ d(call[p]) \in CallType /\ InBounds(d(call[p]))
        /\ Are(d(call[p]), call[p], "lower", call[p].at, call[p].type, call[p].inode, call[p].n,
               call[p].left)
    BY <1>1, <1>2, <1>3, <1>5
  <1>7. QED
    BY <1>4, <1>6, CallUpdated

\* Where delete() goes on from a dentry it has moved to.
AfterMove(p) == IF call[p].at + 2 = call[p].n THEN "last" ELSE "name"

LEMMA MovedStep ==
    ASSUME TypeOK, NEW p \in Pid, InBounds(call[p]), StoreInode(p), call[p].op = "delete",
           ~LastPlace(p)
    PROVE  /\ CallStep(p)
           /\ Are(call'[p], call[p], AfterMove(p), call[p].at + 1, call[p].type, call[p].inode,
                  call[p].n, call[p].left)
  <1> DEFINE d(c, l, k) == [c EXCEPT !.pc = l, !.at = k]
  <1>1. /\ call[p].pc = "inode" /\ call[p].op = "delete"
        /\ call[p].at + 1 < call[p].n
        /\ AfterMove(p) \in {"last", "name"}
        /\ call[p].at + 1 \in Nat
    BY PlaceAfter DEF StoreInode, At, LastPlace, AfterMove, InBounds
  <1>2. ASSUME NEW c \in CallType, NEW l \in {"last", "name"}, NEW k \in Nat, InBounds(c),
               c.pc = "inode" /\ c.op = "delete",
               k < c.n,
               "last" \in Locations,
               "name" \in Locations
        PROVE  /\ d(c, l, k) \in CallType /\ InBounds(d(c, l, k))
               /\ Are(d(c, l, k), c, l, k, c.type, c.inode, c.n, c.left)
    BY <1>2 DEF InBounds, CallType, Are
  <1>3. "last" \in Locations /\ "name" \in Locations
    BY DEF Locations, Storing
  <1>4. call' = [call EXCEPT ![p] = d(call[p], AfterMove(p), call[p].at + 1)]
    BY DEF StoreInode, AfterMove
  <1>5. call[p] \in CallType
    BY CallTyped
  <1> HIDE DEF d
  <1>6. /\ d(call[p], AfterMove(p), call[p].at + 1) \in CallType
        /\ InBounds(d(call[p], AfterMove(p), call[p].at + 1))
        /\ Are(d(call[p], AfterMove(p), call[p].at + 1), call[p], AfterMove(p), call[p].at + 1,
               call[p].type, call[p].inode, call[p].n, call[p].left)
    BY <1>1, <1>2, <1>3, <1>5
  <1>7. QED
    BY <1>4, <1>6, CallUpdated

LEMMA ChosenStep ==
    ASSUME TypeOK, NEW p \in Pid, InBounds(call[p]), CreateChooses(p), NEW j \in Inode,
           call' = [call EXCEPT ![p].pc = "load", ![p].type = "file", ![p].inode = j]
    PROVE  /\ CallStep(p)
           /\ Are(call'[p], call[p], "load", call[p].at, "file", j, call[p].n, call[p].left)
  <1> DEFINE d(c, i) == [c EXCEPT !.pc = "load", !.type = "file", !.inode = i]
  <1>1. /\ call[p].pc = "scan" /\ call[p].op = "create"
        /\ "file" \in Types
        /\ j \in Inode
    BY DEF CreateChooses, At, Types
  <1>2. ASSUME NEW c \in CallType, NEW i \in Inode, InBounds(c),
               c.pc = "scan" /\ c.op = "create",
               "file" \in Types,
               "load" \in Locations
        PROVE  /\ d(c, i) \in CallType /\ InBounds(d(c, i))
               /\ Are(d(c, i), c, "load", c.at, "file", i, c.n, c.left)
    BY <1>2 DEF InBounds, CallType, Are
  <1>3. "load" \in Locations
    BY DEF Locations, Storing
  <1>4. call' = [call EXCEPT ![p] = d(call[p], j)]
    OBVIOUS
  <1>5. call[p] \in CallType
    BY CallTyped
  <1> HIDE DEF d
  <1>6. /\ d(call[p], j) \in CallType /\ InBounds(d(call[p], j))
        /\ Are(d(call[p], j), call[p], "load", call[p].at, "file", j, call[p].n, call[p].left)
    BY <1>1, <1>2, <1>3, <1>5
  <1>7. QED
    BY <1>4, <1>6, CallUpdated

LEMMA CreateLoadsStep ==
    ASSUME TypeOK, NEW p \in Pid, InBounds(call[p]), CreateLoads(p)
    PROVE  /\ CallStep(p)
           /\ Are(call'[p], call[p], "count", dentry_count, call[p].type, call[p].inode,
                  dentry_count, call[p].left)
  <1> DEFINE d(c, k) == [c EXCEPT !.pc = "count", !.n = k, !.at = k]
  <1>1. /\ call[p].pc = "load"
        /\ dentry_count < MaxDentries
        /\ dentry_count \in Nat
    BY CallTyped, Constants DEF CreateLoads, At
  <1>2. ASSUME NEW c \in CallType, NEW k \in Nat, InBounds(c),
               c.pc = "load",
               k < MaxDentries,
               "count" \in Locations
        PROVE  /\ d(c, k) \in CallType /\ InBounds(d(c, k))
               /\ Are(d(c, k), c, "count", k, c.type, c.inode, k, c.left)
    BY <1>2 DEF InBounds, CallType, Are
  <1>3. "count" \in Locations
    BY DEF Locations, Storing
  <1>4. call' = [call EXCEPT ![p] = d(call[p], dentry_count)]
    BY DEF CreateLoads
  <1>5. call[p] \in CallType
    BY CallTyped
  <1> HIDE DEF d
  <1>6. /\ d(call[p], dentry_count) \in CallType /\ InBounds(d(call[p], dentry_count))
        /\ Are(d(call[p], dentry_count), call[p], "count", dentry_count, call[p].type,
               call[p].inode, dentry_count, call[p].left)
    BY <1>1, <1>2, <1>3, <1>5
  <1>7. QED
    BY <1>4, <1>6, CallUpdated

LEMMA CreateCountsStep ==
    ASSUME TypeOK, NEW p \in Pid, InBounds(call[p]), CreateCounts(p)
    PROVE  /\ CallStep(p)
           /\ Are(call'[p], call[p], "name", call[p].at, call[p].type, call[p].inode, call[p].n,
                  call[p].left)
  <1> DEFINE d(c) == [c EXCEPT !.pc = "name"]
  <1>1. /\ call[p].pc = "count"
    BY DEF CreateCounts, At
  <1>2. ASSUME NEW c \in CallType, InBounds(c),
               c.pc = "count",
               "name" \in Locations
        PROVE  /\ d(c) \in CallType /\ InBounds(d(c))
               /\ Are(d(c), c, "name", c.at, c.type, c.inode, c.n, c.left)
    BY <1>2 DEF InBounds, CallType, Are
  <1>3. "name" \in Locations
    BY DEF Locations, Storing
  <1>4. call' = [call EXCEPT ![p] = d(call[p])]
    BY DEF CreateCounts, Goto
  <1>5. call[p] \in CallType
    BY CallTyped
  <1> HIDE DEF d
  <1>6. /\ d(call[p]) \in CallType /\ InBounds(d(call[p]))
        /\ Are(d(call[p]), call[p], "name", call[p].at, call[p].type, call[p].inode, call[p].n,
               call[p].left)
    BY <1>1, <1>2, <1>3, <1>5
  <1>7. QED
    BY <1>4, <1>6, CallUpdated

LEMMA LookedAtStep ==
    ASSUME TypeOK, NEW p \in Pid, InBounds(call[p]), NEW q \in Pid, LooksAt(p, q),
           call' = [call EXCEPT ![p].left = @ \ {q}]
    PROVE  /\ CallStep(p)
           /\ Are(call'[p], call[p], call[p].pc, call[p].at, call[p].type, call[p].inode,
                  call[p].n, call[p].left \ {q})
  <1> DEFINE d(c, r) == [c EXCEPT !.left = c.left \ {r}]
  <1>1. /\ call[p].pc = "users"
        /\ q \in Pid
    BY DEF LooksAt, At
  <1>2. ASSUME NEW c \in CallType, NEW r \in Pid, InBounds(c),
               c.pc = "users"
        PROVE  /\ d(c, r) \in CallType /\ InBounds(d(c, r))
               /\ Are(d(c, r), c, c.pc, c.at, c.type, c.inode, c.n, c.left \ {r})
    BY <1>2 DEF InBounds, CallType, Are
  <1>3. call' = [call EXCEPT ![p] = d(call[p], q)]
    OBVIOUS
  <1>4. call[p] \in CallType
    BY CallTyped
  <1> HIDE DEF d
  <1>5. /\ d(call[p], q) \in CallType /\ InBounds(d(call[p], q))
        /\ Are(d(call[p], q), call[p], call[p].pc, call[p].at, call[p].type, call[p].inode,
               call[p].n, call[p].left \ {q})
    BY <1>1, <1>2, <1>4
  <1>6. QED
    BY <1>3, <1>5, CallUpdated

LEMMA UnusedStep ==
    ASSUME TypeOK, NEW p \in Pid, InBounds(call[p]), Unused(p)
    PROVE  /\ CallStep(p)
           /\ Are(call'[p], call[p], "bits", call[p].at, call[p].type, call[p].inode, 0,
                  call[p].left)
  <1> DEFINE d(c) == [c EXCEPT !.pc = "bits", !.n = 0]
  <1>1. /\ call[p].pc = "users"
    BY DEF Unused, At
  <1>2. ASSUME NEW c \in CallType, InBounds(c),
               c.pc = "users",
               "bits" \in Locations
        PROVE  /\ d(c) \in CallType /\ InBounds(d(c))
               /\ Are(d(c), c, "bits", c.at, c.type, c.inode, 0, c.left)
    BY <1>2 DEF InBounds, CallType, Are
  <1>3. "bits" \in Locations
    BY DEF Locations, Storing
  <1>4. call' = [call EXCEPT ![p] = d(call[p])]
    BY DEF Unused
  <1>5. call[p] \in CallType
    BY CallTyped
  <1> HIDE DEF d
  <1>6. /\ d(call[p]) \in CallType /\ InBounds(d(call[p]))
        /\ Are(d(call[p]), call[p], "bits", call[p].at, call[p].type, call[p].inode, 0,
               call[p].left)
    BY <1>1, <1>2, <1>3, <1>5
  <1>7. QED
    BY <1>4, <1>6, CallUpdated

LEMMA ClearBitStep ==
    ASSUME TypeOK, NEW p \in Pid, InBounds(call[p]), ClearBit(p)
    PROVE  /\ CallStep(p)
           /\ Are(call'[p], call[p], call[p].pc, call[p].at, call[p].type, call[p].inode,
                  call[p].n + 1, call[p].left)
  <1> DEFINE d(c, k) == [c EXCEPT !.n = k]
  <1>1. /\ call[p].pc = "bits"
        /\ call[p].n + 1 \in Nat
    BY PlaceAfter DEF ClearBit, At
  <1>2. ASSUME NEW c \in CallType, NEW k \in Nat, InBounds(c),
               c.pc = "bits"
        PROVE  /\ d(c, k) \in CallType /\ InBounds(d(c, k))
               /\ Are(d(c, k), c, c.pc, c.at, c.type, c.inode, k, c.left)
    BY <1>2 DEF InBounds, CallType, Are
  <1>3. call' = [call EXCEPT ![p] = d(call[p], call[p].n + 1)]
    BY DEF ClearBit
  <1>4. call[p] \in CallType
    BY CallTyped
  <1> HIDE DEF d
  <1>5. /\ d(call[p], call[p].n + 1) \in CallType /\ InBounds(d(call[p], call[p].n + 1))
        /\ Are(d(call[p], call[p].n + 1), call[p], call[p].pc, call[p].at, call[p].type,
               call[p].inode, call[p].n + 1, call[p].left)
    BY <1>1, <1>2, <1>4
  <1>6. QED
    BY <1>3, <1>5, CallUpdated

\* Where delete() starts to store.
FirstMove(p) == IF call[p].at + 1 = dentry_count THEN "last" ELSE "name"

LEMMA MovesStep ==
    ASSUME TypeOK, NEW p \in Pid, InBounds(call[p]), Moves(p)
    PROVE  /\ CallStep(p)
           /\ Are(call'[p], call[p], FirstMove(p), call[p].at, call[p].type, call[p].inode,
                  dentry_count, call[p].left)
  <1> DEFINE d(c, l, k) == [c EXCEPT !.pc = l, !.at = c.at, !.n = k]
  <1>1. /\ call[p].pc = "bits"
        /\ call[p].at < dentry_count /\ dentry_count <= MaxDentries
        /\ FirstMove(p) \in {"last", "name"}
        /\ dentry_count \in Nat
    BY CallTyped, Constants DEF Moves, At, FirstMove
  <1>2. ASSUME NEW c \in CallType, NEW l \in {"last", "name"}, NEW k \in Nat, InBounds(c),
               c.pc = "bits",
               c.at < k /\ k <= MaxDentries,
               "last" \in Locations,
               "name" \in Locations
        PROVE  /\ d(c, l, k) \in CallType /\ InBounds(d(c, l, k))
               /\ Are(d(c, l, k), c, l, c.at, c.type, c.inode, k, c.left)
    BY <1>2 DEF InBounds, CallType, Are
  <1>3. "last" \in Locations /\ "name" \in Locations
    BY DEF Locations, Storing
  <1>4. call' = [call EXCEPT ![p] = d(call[p], FirstMove(p), dentry_count)]
    BY DEF Moves, PlaceToGo, FirstMove
  <1>5. call[p] \in CallType
    BY CallTyped
  <1> HIDE DEF d
  <1>6. /\ d(call[p], FirstMove(p), dentry_count) \in CallType
        /\ InBounds(d(call[p], FirstMove(p), dentry_count))
        /\ Are(d(call[p], FirstMove(p), dentry_count), call[p], FirstMove(p), call[p].at,
               call[p].type, call[p].inode, dentry_count, call[p].left)
    BY <1>1, <1>2, <1>3, <1>5
  <1>7. QED
    BY <1>4, <1>6, CallUpdated

LEMMA ClearsLastStep ==
    ASSUME TypeOK, NEW p \in Pid, InBounds(call[p]), ClearsLast(p)
    PROVE  /\ CallStep(p)
           /\ Are(call'[p], call[p], "name", dentry_count - 1, call[p].type, call[p].inode,
                  dentry_count, call[p].left)
  <1> DEFINE d(c, j, k) == [c EXCEPT !.pc = "name", !.at = j, !.n = k]
  <1>1. /\ call[p].pc = "last"
        /\ dentry_count - 1 < dentry_count /\ dentry_count <= MaxDentries
        /\ dentry_count - 1 \in Nat
        /\ dentry_count \in Nat
    BY CallTyped, Constants DEF ClearsLast, At
  <1>2. ASSUME NEW c \in CallType, NEW j \in Nat, NEW k \in Nat, InBounds(c),
               c.pc = "last",
               j < k /\ k <= MaxDentries,
               "name" \in Locations
        PROVE  /\ d(c, j, k) \in CallType /\ InBounds(d(c, j, k))
               /\ Are(d(c, j, k), c, "name", j, c.type, c.inode, k, c.left)
    BY <1>2 DEF InBounds, CallType, Are
  <1>3. "name" \in Locations
    BY DEF Locations, Storing
  <1>4. call' = [call EXCEPT ![p] = d(call[p], dentry_count - 1, dentry_count)]
    BY DEF ClearsLast
  <1>5. call[p] \in CallType
    BY CallTyped
  <1> HIDE DEF d
  <1>6. /\ d(call[p], dentry_count - 1, dentry_count) \in CallType
        /\ InBounds(d(call[p], dentry_count - 1, dentry_count))
        /\ Are(d(call[p], dentry_count - 1, dentry_count), call[p], "name", dentry_count - 1,
               call[p].type, call[p].inode, dentry_count, call[p].left)
    BY <1>1, <1>2, <1>3, <1>5
  <1>7. QED
    BY <1>4, <1>6, CallUpdated

LEMMA LowersStep ==
    ASSUME TypeOK, NEW p \in Pid, InBounds(call[p]), Lowers(p)
    PROVE  /\ CallStep(p)
           /\ Are(call'[p], call[p], "lowered", call[p].at, call[p].type, call[p].inode,
                  dentry_count, call[p].left)
  <1> DEFINE d(c, k) == [c EXCEPT !.pc = "lowered", !.n = k]
  <1>1. /\ call[p].pc = "lower"
        /\ dentry_count \in 1 .. MaxDentries
        /\ dentry_count \in Nat
    BY CallTyped, Constants DEF Lowers, At
  <1>2. ASSUME NEW c \in CallType, NEW k \in Nat, InBounds(c),
               c.pc = "lower",
               k \in 1 .. MaxDentries,
               "lowered" \in Locations
        PROVE  /\ d(c, k) \in CallType /\ InBounds(d(c, k))
               /\ Are(d(c, k), c, "lowered", c.at, c.type, c.inode, k, c.left)
    BY <1>2 DEF InBounds, CallType, Are
  <1>3. "lowered" \in Locations
    BY DEF Locations, Storing
  <1>4. call' = [call EXCEPT ![p] = d(call[p], dentry_count)]
    BY DEF Lowers
  <1>5. call[p] \in CallType
    BY CallTyped
  <1> HIDE DEF d
  <1>6. /\ d(call[p], dentry_count) \in CallType /\ InBounds(d(call[p], dentry_count))
        /\ Are(d(call[p], dentry_count), call[p], "lowered", call[p].at, call[p].type,
               call[p].inode, dentry_count, call[p].left)
    BY <1>1, <1>2, <1>3, <1>5
  <1>7. QED
    BY <1>4, <1>6, CallUpdated

-----------------------------------------------------------------------------
(* Types and overlaps.                                                      *)

\* Goes on with the call it is in, or ends it.
GoesOn(p) == call'[p].op = call[p].op /\ call'[p].name = call[p].name /\ UNCHANGED tainted
Ends(p) == call'[p] = Idle /\ tainted' = tainted \ {p}

\* A step of p keeps the calls in bounds; it begins a call, goes on with it or ends it.
LEMMA NextStep ==
    ASSUME TypeOK, NEW p \in Pid, InBounds(call[p]),
           \/ Lookup(p) \/ Store(p) \/ create(p) \/ delete(p) \/ Install(p) \/ halt(p)
           \/ \E fd \in Fd : close(p, fd)
    PROVE  CallStep(p) /\ (GoesOn(p) \/ Ends(p))
  <1>1. ASSUME Lookup(p) PROVE CallStep(p) /\ (GoesOn(p) \/ Ends(p))
    <2>1. CASE Compare(p)
      BY <2>1, CompareStep DEF Compare, Are, GoesOn
    <2>2. CASE Match(p) /\ At(p, "again")
      BY <2>2, FoundAgainStep DEF Match, Are, GoesOn
    <2>3. CASE Match(p) /\ ~At(p, "again")
      BY <2>3, FoundStep DEF Match, Are, GoesOn
    <2>4. CASE CopyType(p)
      BY <2>4, CopyTypeStep DEF CopyType, Are, GoesOn
    <2>5. CASE CopyInode(p)
      BY <2>5, CopyInodeStep DEF CopyInode, Are, GoesOn
    <2>6. CASE LookupFails(p)
      BY <2>6, ReturnStep DEF LookupFails, Ends
    <2>7. QED
      BY <1>1, <2>1, <2>2, <2>3, <2>4, <2>5, <2>6 DEF Lookup
  <1>2. ASSUME Store(p) PROVE CallStep(p) /\ (GoesOn(p) \/ Ends(p))
    <2>1. CASE StoreName(p)
      BY <2>1, StoreNameStep DEF StoreName, Are, GoesOn
    <2>2. CASE StoreType(p)
      BY <2>2, StoreTypeStep DEF StoreType, Are, GoesOn
    <2>3. CASE StoreInode(p) /\ call[p].op = "create"
      BY <2>3, StoredStep DEF StoreInode, Are, GoesOn
    <2>4. CASE StoreInode(p) /\ call[p].op = "delete" /\ LastPlace(p)
      BY <2>4, ClearedStep DEF StoreInode, Are, GoesOn
    <2>5. CASE StoreInode(p) /\ call[p].op = "delete" /\ ~LastPlace(p)
      BY <2>5, MovedStep DEF StoreInode, Are, GoesOn
    <2>6. QED
      BY <1>2, <2>1, <2>2, <2>3, <2>4, <2>5 DEF Store, StoreInode
  <1>3. ASSUME create(p) PROVE CallStep(p) /\ (GoesOn(p) \/ Ends(p))
    <2>1. CASE CreateChooses(p)
      <3>1. CASE Return(p)
        BY <3>1, ReturnStep DEF Ends
      <3>2. ASSUME NEW i \in Inode, UNCHANGED tainted,
                   call' = [call EXCEPT ![p].pc = "load", ![p].type = "file", ![p].inode = i]
            PROVE  CallStep(p) /\ GoesOn(p)
        BY <2>1, <3>2, ChosenStep DEF Are, GoesOn
      <3>3. QED
        BY <2>1, <3>1, <3>2 DEF CreateChooses
    <2>2. CASE CreateLoads(p)
      BY <2>2, CreateLoadsStep DEF CreateLoads, Are, GoesOn
    <2>3. CASE CreateCounts(p)
      BY <2>3, CreateCountsStep DEF CreateCounts, Are, GoesOn
    <2>4. QED
      BY <1>3, <2>1, <2>2, <2>3 DEF create
  <1>4. ASSUME delete(p) PROVE CallStep(p) /\ (GoesOn(p) \/ Ends(p))
    <2>1. ASSUME NEW q \in Pid, LooksAt(p, q)
          PROVE  CallStep(p) /\ (GoesOn(p) \/ Ends(p))
      <3>1. CASE Return(p)
        BY <3>1, ReturnStep DEF Ends
      <3>2. CASE call' = [call EXCEPT ![p].left = @ \ {q}] /\ UNCHANGED tainted
        BY <2>1, <3>2, LookedAtStep DEF Are, GoesOn
      <3>3. QED
        BY <2>1, <3>1, <3>2 DEF LooksAt
    <2>2. CASE Unused(p)
      BY <2>2, UnusedStep DEF Unused, Are, GoesOn
    <2>3. CASE ClearBit(p)
      BY <2>3, ClearBitStep DEF ClearBit, Are, GoesOn
    <2>4. CASE Moves(p)
      BY <2>4, MovesStep DEF Moves, Are, GoesOn
    <2>5. CASE ClearsLast(p)
      BY <2>5, ClearsLastStep DEF ClearsLast, Are, GoesOn
    <2>6. CASE Lowers(p)
      BY <2>6, LowersStep DEF Lowers, Are, GoesOn
    <2>7. CASE DeleteEnds(p)
      BY <2>7, ReturnStep DEF DeleteEnds, Ends
    <2>8. QED
      BY <1>4, <2>1, <2>2, <2>3, <2>4, <2>5, <2>6, <2>7 DEF delete
  <1>5. ASSUME Install(p) PROVE CallStep(p) /\ Ends(p)
    BY <1>5, ReturnStep DEF Install, Ends
  <1>6. ASSUME halt(p) PROVE CallStep(p) /\ Ends(p)
    BY <1>6, ReturnStep DEF halt, Ends
  <1>7. ASSUME NEW fd \in Fd, close(p, fd) PROVE CallStep(p) /\ GoesOn(p)
    BY <1>7, CallTyped DEF close, CallStep, GoesOn
  <1>8. QED
    BY <1>1, <1>2, <1>3, <1>4, <1>5, <1>6, <1>7

LEMMA BoundsKept ==
    ASSUME NEW p \in Pid, CallStep(p), \A q \in Pid : InBounds(call[q])
    PROVE  \A q \in Pid : InBounds(call[q])'
  <1>1. \A q \in Pid : InBounds(call'[q])
    BY DEF CallStep
  <1>2. \A q \in Pid : InBounds(call[q])' <=> InBounds(call'[q])
    BY DEF InBounds
  <1>3. QED
    BY <1>1, <1>2

\* Going on with a call and ending it adds no overlap.
LEMMA OverlapsKept ==
    ASSUME OverlapsRecorded, NEW p \in Pid, CallStep(p), GoesOn(p) \/ Ends(p)
    PROVE  OverlapsRecorded'
  <1> SUFFICES ASSUME NEW r \in Pid, NEW q \in Pid, r # q, call'[r].op # "none",
                      Misled(r, q)'
               PROVE  r \in tainted'
    BY DEF OverlapsRecorded
  <1>1. ASSUME NEW s \in Pid, call'[s].op # "none"
        PROVE  call'[s].op = call[s].op /\ call'[s].name = call[s].name
               /\ (s \in tainted => s \in tainted')
    BY <1>1 DEF CallStep, GoesOn, Ends, Idle
  <1>2. call'[q].op # "none"
    BY DEF Misled, Misleads
  <1>3. Misled(r, q)
    BY <1>1, <1>2 DEF Misled, Misleads
  <1>4. r \in tainted
    BY <1>1, <1>3 DEF OverlapsRecorded
  <1>5. QED
    BY <1>1, <1>4

LEMMA OverlapsBegin ==
    ASSUME TypeOK, OverlapsRecorded, NEW p \in Pid, NEW op \in {"open", "create", "delete"},
           NEW name \in Names, Calls(p, op, name)
    PROVE  OverlapsRecorded'
  <1>1. CallStep(p) /\ call'[p].op = op /\ call'[p].name = name
    BY CallsStep
  <1>2. \A q \in Pid \ {p} : call'[q] = call[q]
    BY <1>1 DEF CallStep
  <1>3. /\ tainted \subseteq tainted'
        /\ \A q \in Pid \ {p} : Misleads(q, op, name) => q \in tainted' /\ p \in tainted'
    BY DEF Calls, Begin
  <1> SUFFICES ASSUME NEW r \in Pid, NEW q \in Pid, r # q, call'[r].op # "none",
                      Misled(r, q)'
               PROVE  r \in tainted'
    BY DEF OverlapsRecorded
  <1>4. CASE r = p
    <2>1. Misleads(q, op, name)
      BY <1>1, <1>2, <1>4 DEF Misled, Misleads
    <2>2. QED
      BY <1>3, <1>4, <2>1
  <1>5. CASE r # p /\ q = p
    <2>1. call'[r] = call[r]
      BY <1>2, <1>5
    <2>2. Misleads(r, op, name)
      <3>1. call[r].op \in {"open", "create", "delete"}
        BY <2>1, CallTyped DEF CallType
      <3>2. QED
        BY <1>1, <1>5, <2>1, <3>1 DEF Misled, Misleads
    <2>3. QED
      BY <1>3, <1>5, <2>2
  <1>6. CASE r # p /\ q # p
    <2>1. Misled(r, q) /\ call[r].op # "none"
      BY <1>2, <1>6 DEF Misled, Misleads
    <2>2. QED
      BY <1>3, <2>1 DEF OverlapsRecorded
  <1>7. QED
    BY <1>4, <1>5, <1>6

\* A step of p changes these tables in their types only.
LEMMA TypesKept ==
    ASSUME TypeOK, NEW p \in Pid, InBounds(call[p]), CallStep(p),
           \/ \E op \in {"open", "create", "delete"}, name \in Names : Calls(p, op, name)
           \/ Lookup(p) \/ Store(p) \/ create(p) \/ delete(p) \/ Install(p) \/ halt(p)
           \/ \E fd \in Fd : close(p, fd)
    PROVE  TypeOK'
  <1> DEFINE FileType == [Fd -> [present : BOOLEAN, inode : Inode, type : Types,
                                 name : Names \cup {NoName}, sure : BOOLEAN]]
             Tables == /\ file_name \in [Place -> Names \cup {NoName}]
                       /\ file_type \in [Place -> Types]
                       /\ inode_num \in [Place -> Inode]
             Rest == /\ dentry_count \in 0 .. MaxDentries
                     /\ data_block_bitmap \subseteq Nat
                     /\ files \in [Pid -> FileType]
                     /\ expected \subseteq Dentry /\ tainted \subseteq Pid /\ mixed \in BOOLEAN
  <1>1. Tables /\ Rest
    BY DEF TypeOK
  <1>2. call[p].type \in Types /\ call[p].inode \in Inode /\ call[p].name \in Names \cup {NoName}
        /\ call[p].at \in Nat /\ call[p].n \in Nat /\ call[p].op \in {"none", "open", "create", "delete"}
    BY CallTyped DEF CallType
  <1>3. /\ 0 \in Inode /\ "rtc" \in Types /\ BOOLEAN = {TRUE, FALSE}
    BY Constants DEF Types
  <1>4. [fd \in Fd |-> Closed] \in FileType
    BY <1>3 DEF Closed
  <1>5. ASSUME call' \in [Pid -> CallType], Tables', Rest' PROVE TypeOK'
    BY <1>5 DEF TypeOK, CallType
  <1>6. call' \in [Pid -> CallType]
    BY DEF CallStep
  <1>7. ASSUME \E op \in {"open", "create", "delete"}, name \in Names : Calls(p, op, name)
        PROVE  Tables' /\ Rest'
    BY <1>1, <1>7 DEF Calls, Begin, table
  <1>8. ASSUME Lookup(p) PROVE Tables' /\ Rest'
    BY <1>1, <1>8 DEF Lookup, Compare, Match, CopyType, CopyInode, LookupFails, Return, table
  <1>9. ASSUME Store(p) PROVE Tables' /\ Rest'
    <2>1. /\ StoreName(p) \/ StoreType(p) \/ StoreInode(p) => Rest'
      BY <1>1 DEF StoreName, StoreType, StoreInode
    <2>2. /\ call[p].op \in {"create", "delete"}
          /\ call[p].op = "delete" => call[p].at < call[p].n /\ call[p].n <= MaxDentries
      BY <1>9 DEF Store, StoreName, StoreType, StoreInode, At, InBounds
    <2>3. \A i, n \in Nat : i < n /\ n <= MaxDentries /\ i # n - 1 => i + 1 \in Place
      BY Constants DEF Place
    <2>4. call[p].op = "delete" /\ ~LastPlace(p) => call[p].at + 1 \in Place
      BY <1>2, <2>2, <2>3 DEF LastPlace
    <2>5. CASE StoreName(p)
      <3>1. StoredName(p) \in Names \cup {NoName}
        BY <1>1, <1>2, <2>2, <2>4 DEF StoredName, Blank
      <3>2. QED
        BY <1>1, <2>1, <2>5, <3>1 DEF StoreName
    <2>6. CASE StoreType(p)
      <3>1. StoredType(p) \in Types
        BY <1>1, <1>2, <1>3, <2>2, <2>4 DEF StoredType, Blank
      <3>2. QED
        BY <1>1, <2>1, <2>6, <3>1 DEF StoreType
    <2>7. CASE StoreInode(p)
      <3>1. StoredInode(p) \in Inode
        BY <1>1, <1>2, <1>3, <2>2, <2>4 DEF StoredInode, Blank
      <3>2. QED
        BY <1>1, <2>1, <2>7, <3>1 DEF StoreInode
    <2>8. QED
      BY <1>9, <2>5, <2>6, <2>7 DEF Store
  <1>10. ASSUME create(p) PROVE Tables' /\ Rest'
    <2>1. CASE CreateChooses(p)
      BY <1>1, <2>1 DEF CreateChooses, Return, table
    <2>2. CASE CreateLoads(p)
      BY <1>1, <2>2 DEF CreateLoads, table
    <2>3. CASE CreateCounts(p)
      <3>1. call[p].n < MaxDentries /\ dentry_count' = call[p].n + 1
        BY <2>3 DEF CreateCounts, At, InBounds
      <3>2. dentry_count' \in 0 .. MaxDentries
        BY <1>2, <3>1, Constants
      <3>3. expected' \subseteq Dentry
        BY <1>1, <1>2, <2>3 DEF CreateCounts, Commit, Dentry
      <3>4. QED
        BY <1>1, <2>3, <3>2, <3>3 DEF CreateCounts, Commit
    <2>4. QED
      BY <1>10, <2>1, <2>2, <2>3 DEF create
  <1>11. ASSUME delete(p) PROVE Tables' /\ Rest'
    <2>1. ASSUME NEW q \in Pid, LooksAt(p, q) PROVE Tables' /\ Rest'
      BY <1>1, <2>1 DEF LooksAt, Return, table
    <2>2. CASE Unused(p) \/ ClearBit(p) \/ Moves(p)
      BY <1>1, <2>2 DEF Unused, ClearBit, Moves, Commit, table
    <2>3. CASE ClearsLast(p) \/ Lowers(p)
      BY <1>1, <2>3 DEF ClearsLast, Lowers, table
    <2>4. CASE DeleteEnds(p)
      <3>1. call[p].n \in 1 .. MaxDentries /\ dentry_count' = call[p].n - 1
        BY <2>4 DEF DeleteEnds, At, InBounds
      <3>2. dentry_count' \in 0 .. MaxDentries
        BY <3>1, Constants
      <3>3. QED
        BY <1>1, <2>4, <3>2 DEF DeleteEnds, Return
    <2>5. QED
      BY <1>11, <2>1, <2>2, <2>3, <2>4 DEF delete
  <1>12. ASSUME Install(p) PROVE Tables' /\ Rest'
    <2>1. /\ Tables' /\ (files' \in [Pid -> FileType] => Rest')
      BY <1>1, <1>12 DEF Install, Return, table
    <2>2. PICK fd \in Fd :
              files' = [files EXCEPT ![p][fd] =
                           [present |-> TRUE, inode |-> call[p].inode, type |-> call[p].type,
                            name |-> call[p].name, sure |-> p \notin tainted]]
      BY <1>12 DEF Install
    <2>3. QED
      BY <1>1, <1>2, <2>1, <2>2
  <1>13. ASSUME halt(p) PROVE Tables' /\ Rest'
    <2>1. /\ Tables' /\ (files' \in [Pid -> FileType] => Rest')
      BY <1>1, <1>13 DEF halt, Return, table
    <2>2. files' \in [Pid -> FileType]
      <3> HIDE DEF FileType
      <3>1. QED
        BY <1>1, <1>4, <1>13 DEF halt
    <2>3. QED
      BY <2>1, <2>2
  <1>14. ASSUME NEW fd \in Fd, close(p, fd) PROVE Tables' /\ Rest'
    <2>1. Closed \in [present : BOOLEAN, inode : Inode, type : Types,
                      name : Names \cup {NoName}, sure : BOOLEAN]
      BY <1>3 DEF Closed
    <2>2. QED
      BY <1>1, <1>14, <2>1 DEF close, table
  <1>15. QED
    BY <1>5, <1>6, <1>7, <1>8, <1>9, <1>10, <1>11, <1>12, <1>13, <1>14

-----------------------------------------------------------------------------
(* What a call can rely on.                                                 *)

\* While a call is not misled, nobody deletes, and who creates does so beside an open()
\* of another name.
LEMMA NotMisled ==
    ASSUME TypeOK, OverlapsRecorded, NEW p \in Pid \ tainted, NEW q \in Pid \ {p},
           call[p].op # "none"
    PROVE  /\ call[q].op # "delete"
           /\ call[p].op = "delete" => call[q].op = "none"
           /\ call[q].op = "create" => call[p].op = "open" /\ call[q].name # call[p].name
  <1>1. ~Misled(p, q)
    BY DEF OverlapsRecorded
  <1>2. call[p].op \in {"open", "create", "delete"}
    BY CallTyped DEF CallType
  <1>3. QED
    BY <1>1, <1>2 DEF Misled, Misleads

\* Who stores creates or deletes.
LEMMA StoringOp ==
    ASSUME NEW q \in Pid, InBounds(call[q]), call[q].pc \in Storing
    PROVE  call[q].op \in {"create", "delete"}
  BY DEF InBounds, Storing

\* A call that is not misled, of create() or delete(), stores alone; beside open() only
\* create() of another name stores.
LEMMA OthersStoring ==
    ASSUME DirectoryInv, NEW p \in Pid \ tainted, call[p].op # "none",
           NEW q \in Pid \ {p}, call[q].pc \in Storing
    PROVE  call[p].op = "open" /\ call[q].op = "create" /\ call[q].name # call[p].name
  <1>1. call[q].op \in {"create", "delete"}
    BY StoringOp DEF DirectoryInv
  <1>2. QED
    BY <1>1, NotMisled DEF DirectoryInv

\* The place of a name that a lookup has not been misled about is not being stored.
LEMMA FoundWhole ==
    ASSUME DirectoryInv, ~mixed, NEW p \in Pid \ tainted, call[p].op # "none",
           call[p].pc \notin Storing, NEW i \in Place, file_name[i] = call[p].name
    PROVE  Whole(i)
  <1> SUFFICES ASSUME NEW q \in Pid, call[q].pc \in Storing, call[q].at = i
               PROVE  FALSE
    BY DEF Whole
  <1>1. q # p
    OBVIOUS
  <1>2. call[q].op = "create" /\ call[q].name # call[p].name
    BY <1>1, OthersStoring
  <1>3. StoreSound(q)
    BY DEF DirectoryInv, Sound
  <1>4. call[p].name # NoName
    BY Constants DEF DirectoryInv, InBounds
  <1>5. call[q].pc \in {"name", "type", "inode"}
    BY <1>2 DEF DirectoryInv, InBounds, Storing
  <1>6. QED
    BY <1>2, <1>3, <1>4, <1>5 DEF StoreSound, StoredName, At

-----------------------------------------------------------------------------
(* Steps that do not change the directory.                                  *)

\* A step of p that neither changes the directory nor begins or ends to.
Looks(p) ==
    /\ CallStep(p) /\ UNCHANGED <<table, expected, mixed>>
    /\ call[p].pc \notin Storing /\ call'[p].pc \notin Storing

LEMMA WholeStays ==
    ASSUME NEW p \in Pid, Looks(p)
    PROVE  /\ \A i : Whole(i)' <=> Whole(i)
           /\ \A d : Has(d)' <=> Has(d)
           /\ \A q \in Pid : call'[q].pc \in Storing <=> call[q].pc \in Storing
           /\ \A q \in Pid : call[q].pc \in Storing => call'[q] = call[q]
  <1>1. \A q \in Pid : q # p => call'[q] = call[q]
    BY DEF Looks, CallStep
  <1>2. \A q \in Pid : call[q].pc \in Storing <=> call'[q].pc \in Storing
    BY <1>1 DEF Looks
  <1>3. \A q \in Pid : call[q].pc \in Storing => call'[q] = call[q]
    BY <1>1 DEF Looks
  <1>4. Storing' = Storing
    BY DEF Storing
  <1>5. ASSUME NEW i PROVE Whole(i)' <=> Whole(i)
    BY <1>2, <1>3, <1>4 DEF Whole
  <1>6. UNCHANGED <<file_name, file_type, inode_num, dentry_count>>
    BY DEF Looks, table
  <1>7. ASSUME NEW d PROVE Has(d)' <=> Has(d)
    BY <1>5, <1>6 DEF Has, DentryAt, Place
  <1>8. QED
    BY <1>2, <1>3, <1>5, <1>7

LEMMA PlaceStaysWhole ==
    ASSUME NEW p \in Pid, Looks(p), NEW q \in Pid, call'[q].at = call[q].at, Whole(call[q].at)
    PROVE  Whole(call[q].at)'
  <1>1. \A r \in Pid : (call[r].pc \in Storing)' => call'[r] = call[r] /\ call[r].pc \in Storing
    BY WholeStays DEF Storing
  <1>2. \A r \in Pid : call[r].pc \in Storing => call[r].at # call[q].at
    BY DEF Whole
  <1>3. \A r \in Pid : (call[r].pc \in Storing)' => call'[r].at # call'[q].at
    BY <1>1, <1>2
  <1>4. QED
    BY <1>3 DEF Whole

LEMMA TableStays ==
    ASSUME DirectoryInv, ~mixed, NEW p \in Pid, Looks(p)
    PROVE  /\ OneStores' /\ TableSound'
           /\ \A q \in Pid : (call[q].pc \in Storing)' => StoreSound(q)'
  <1>1. UNCHANGED <<file_name, file_type, inode_num, dentry_count, expected>>
    BY DEF Looks, table
  <1>2. Sound
    BY DEF DirectoryInv
  <1>3. OneStores'
    BY <1>2, WholeStays DEF Sound, OneStores, Storing
  <1>4. \A d \in Dentry :
            (\E q \in Pid : call[q].pc \in Storing /\ call[q].op = "create" /\ Created(q) = d)'
            <=> \E q \in Pid : call[q].pc \in Storing /\ call[q].op = "create" /\ Created(q) = d
    BY WholeStays DEF Created, Storing
  <1>5. TableSound'
    <2>1. TableSound
      BY <1>2 DEF Sound
    <2>2. (\A d \in Dentry : d \in expected <=>
           Has(d) \/ \E q \in Pid : call[q].pc \in Storing /\ call[q].op = "create" /\ Created(q) = d)'
      BY <1>1, <1>4, <2>1, WholeStays DEF TableSound, Dentry
    <2>3. (\A i, j \in Place : i < dentry_count /\ j < dentry_count /\ Whole(i) /\ Whole(j)
                           /\ file_name[i] = file_name[j] => i = j)'
      BY <1>1, <2>1, WholeStays DEF TableSound, Place
    <2>4. (\A i \in Place : i >= dentry_count => file_name[i] = NoName)'
      BY <1>1, <2>1 DEF TableSound, Place
    <2>5. QED
      BY <2>2, <2>3, <2>4 DEF TableSound
  <1>6. ASSUME NEW q \in Pid, (call[q].pc \in Storing)'
        PROVE  StoreSound(q)'
    <2>1. StoreSound(q) /\ call'[q] = call[q]
      BY <1>2, <1>6, WholeStays DEF Sound, Storing
    <2>2. QED
      BY <1>1, <2>1 DEF StoreSound, StoredName, StoredType, LastPlace, At, Place
  <1>7. QED
    BY <1>3, <1>5, <1>6

\* What another call has read is still so if no descriptor is added, or if that other
\* call is not delete().
LEMMA OtherCallStays ==
    ASSUME NEW p \in Pid, Looks(p), NEW q \in Pid \ {p}, CallSound(q),
           \/ call[q].op # "delete" /\ InBounds(call[q])
           \/ \A r \in Pid, fd \in Fd :
                  files'[r][fd].present => files'[r][fd] = files[r][fd]
    PROVE  CallSound(q)'
  <1>1. call'[q] = call[q]
    BY DEF Looks, CallStep
  <1>2. UNCHANGED <<file_name, file_type, inode_num, dentry_count>>
    BY DEF Looks, table
  <1>3. /\ (At(q, "users") => \A r \in Pid \ call[q].left : ~Uses(r, call[q].inode))'
        /\ (At(q, "bits") => \A r \in Pid : ~Uses(r, call[q].inode))'
    <2>1. CASE call[q].op # "delete" /\ InBounds(call[q])
      BY <1>1, <2>1 DEF At, InBounds
    <2>2. CASE \A r \in Pid, fd \in Fd : files'[r][fd].present => files'[r][fd] = files[r][fd]
      <3>1. \A r \in Pid : Uses(r, call[q].inode)' => Uses(r, call[q].inode)
        BY <1>1, <2>2 DEF Uses
      <3>2. QED
        BY <1>1, <3>1 DEF CallSound, At
    <2>3. QED
      BY <2>1, <2>2
  <1>4. Has(Created(q))' <=> Has(Created(q))
    <2>1. Created(q)' = Created(q)
      BY <1>1 DEF Created
    <2>2. QED
      BY <2>1, WholeStays DEF Has, DentryAt
  <1>5. Whole(call[q].at)' <=> Whole(call[q].at)
    BY <1>1, WholeStays DEF Whole
  <1>6. QED
    BY <1>1, <1>2, <1>3, <1>4, <1>5 DEF CallSound, At, Place

\* No descriptor is added.
NoneOpened ==
    \A q \in Pid, fd \in Fd : files'[q][fd].present => files'[q][fd] = files[q][fd]

LEMMA LookPreserves ==
    ASSUME DirectoryInv, ~mixed, NEW p \in Pid, Looks(p), NoneOpened, tainted \ {p} \subseteq tainted',
           p \notin tainted' => CallSound(p)'
    PROVE  Sound'
  <1>1. Sound
    BY DEF DirectoryInv
  <1>2. OneStores' /\ TableSound' /\ \A q \in Pid : (call[q].pc \in Storing)' => StoreSound(q)'
    BY TableStays
  <1>3. ASSUME NEW q \in Pid, NEW fd \in Fd, files'[q][fd].present, files'[q][fd].sure
        PROVE  Has([name |-> files[q][fd].name, type |-> files[q][fd].type,
                    inode |-> files[q][fd].inode])'
    <2>1. files'[q][fd] = files[q][fd]
      BY <1>3 DEF NoneOpened
    <2>2. Has([name |-> files[q][fd].name, type |-> files[q][fd].type,
               inode |-> files[q][fd].inode])
      BY <1>1, <1>3, <2>1 DEF Sound, FilesSound
    <2>3. QED
      BY <2>1, <2>2, WholeStays DEF Has, DentryAt
  <1>4. FilesSound'
    BY <1>3 DEF FilesSound
  <1>5. ASSUME NEW q \in Pid \ tainted'
        PROVE  CallSound(q)'
    <2>1. CASE q = p
      BY <2>1
    <2>2. CASE q # p
      <3>1. CallSound(q)
        BY <1>1, <2>2 DEF Sound
      <3>2. QED
        BY <2>2, <3>1, OtherCallStays DEF NoneOpened
    <2>3. QED
      BY <2>1, <2>2
  <1>6. QED
    BY <1>2, <1>4, <1>5 DEF Sound

\* A call that begins.
LEMMA CallsPreserves ==
    ASSUME DirectoryInv, ~mixed, NEW p \in Pid, NEW op \in {"open", "create", "delete"},
           NEW name \in Names, Calls(p, op, name)
    PROVE  Sound'
  <1>1. /\ CallStep(p) /\ call'[p].op = op /\ call'[p].pc = "scan" /\ call'[p].name = name
        /\ call'[p].at = 0
    BY CallsStep DEF DirectoryInv
  <1>2. Looks(p) /\ NoneOpened /\ tainted \subseteq tainted'
    BY <1>1 DEF Calls, Begin, At, Looks, Storing, NoneOpened
  <1>3. CallSound(p)'
    BY <1>1 DEF CallSound, At, Place
  <1>4. QED
    BY <1>2, <1>3, LookPreserves

\* A call that ends without having changed anything.
LEMMA EndPreserves ==
    ASSUME DirectoryInv, ~mixed, NEW p \in Pid, Return(p), call[p].pc \notin Storing,
           UNCHANGED <<table, expected, mixed>>, NoneOpened
    PROVE  Sound'
  <1>1. CallStep(p) /\ call'[p] = Idle /\ tainted' = tainted \ {p}
    BY ReturnStep DEF DirectoryInv
  <1>2. call'[p].pc = "idle"
    BY <1>1 DEF Idle
  <1>3. Looks(p)
    BY <1>1, <1>2 DEF Looks, Storing
  <1>4. CallSound(p)'
    BY <1>2 DEF CallSound, At
  <1>5. QED
    BY <1>1, <1>3, <1>4, LookPreserves

LEMMA ComparePreserves ==
    ASSUME DirectoryInv, ~mixed, NEW p \in Pid, Compare(p)
    PROVE  Sound'
  <1>1. /\ CallStep(p) /\ call'[p].pc = call[p].pc /\ call'[p].at = call[p].at + 1
        /\ call'[p].name = call[p].name /\ call[p].pc \in {"scan", "again"}
        /\ call'[p].type = call[p].type /\ call'[p].inode = call[p].inode
    BY CompareStep DEF DirectoryInv, Are, Compare, At
  <1>2. Looks(p) /\ NoneOpened /\ UNCHANGED <<file_name, tainted>>
    BY <1>1 DEF Compare, Looks, Storing, NoneOpened, table
  <1>3. ASSUME p \notin tainted'
        PROVE  CallSound(p)'
    <2>1. CallSound(p)
      BY <1>2, <1>3 DEF DirectoryInv, Sound
    <2>2. call[p].at \in Nat
      BY CallTyped DEF DirectoryInv, CallType
    <2>3. /\ \A i \in Place : i < call[p].at => file_name[i] # call[p].name
          /\ file_name[call[p].at] # call[p].name
      BY <1>1, <2>1 DEF CallSound, At, Compare, Matches
    <2>4. \A i \in Place : i < call[p].at + 1 => file_name[i] # call[p].name
      BY <2>2, <2>3, Constants DEF Place
    <2>5. Has(Created(p))' <=> Has(Created(p))
      <3>1. Created(p)' = Created(p)
        BY <1>1 DEF Created
      <3>2. QED
        BY <1>2, <3>1, WholeStays DEF Has, DentryAt
    <2>6. QED
      BY <1>1, <1>2, <2>1, <2>4, <2>5 DEF CallSound, At
  <1>4. QED
    BY <1>2, <1>3, LookPreserves

LEMMA MatchPreserves ==
    ASSUME DirectoryInv, ~mixed, NEW p \in Pid, Match(p)
    PROVE  Sound'
  <1>1. CASE At(p, "again")
    <2>1. /\ CallStep(p) /\ call'[p].pc = "install" /\ Created(p)' = Created(p)
      BY <1>1, FoundAgainStep DEF DirectoryInv, Are, Created
    <2>2. Looks(p) /\ NoneOpened /\ UNCHANGED tainted
      BY <1>1, <2>1 DEF Match, At, Looks, Storing, NoneOpened, table
    <2>3. ASSUME p \notin tainted'
          PROVE  CallSound(p)'
      <3>1. Has(Created(p))
        BY <1>1, <2>2, <2>3 DEF DirectoryInv, Sound, CallSound, At
      <3>2. Has(Created(p))'
        BY <2>1, <2>2, <3>1, WholeStays DEF Has, DentryAt
      <3>3. QED
        BY <2>1, <3>2 DEF CallSound, At
    <2>4. QED
      BY <2>2, <2>3, LookPreserves
  <1>2. CASE ~At(p, "again")
    <2>1. /\ CallStep(p) /\ call'[p].pc = "copy type" /\ call'[p].at = call[p].at
          /\ call'[p].name = call[p].name /\ call[p].pc = "scan"
      BY <1>2, FoundStep DEF DirectoryInv, Are, Match, At
    <2>2. /\ Looks(p) /\ NoneOpened /\ UNCHANGED <<tainted, file_name, dentry_count>>
      BY <2>1 DEF Match, Looks, Storing, NoneOpened, table
    <2>3. ASSUME p \notin tainted'
          PROVE  CallSound(p)'
      <3>1. /\ call[p].at \in Place /\ call[p].at < dentry_count
            /\ file_name[call[p].at] = call[p].name
        BY MatchPlace DEF DirectoryInv, Match, Matches, MoreDentries
      <3>2. call[p].op # "none" /\ call[p].pc \notin Storing
        BY <2>1 DEF DirectoryInv, InBounds, Storing
      <3>3. Whole(call[p].at)
        BY <2>2, <2>3, <3>1, <3>2, FoundWhole
      <3>4. Whole(call[p].at)'
        BY <2>1, <2>2, <3>3, PlaceStaysWhole
      <3>5. QED
        BY <2>1, <2>2, <3>1, <3>4 DEF CallSound, At
    <2>4. QED
      BY <2>2, <2>3, LookPreserves
  <1>3. QED
    BY <1>1, <1>2

LEMMA CopyTypePreserves ==
    ASSUME DirectoryInv, ~mixed, NEW p \in Pid, CopyType(p)
    PROVE  Sound'
  <1>1. /\ CallStep(p) /\ call'[p].pc = "copy inode" /\ call'[p].at = call[p].at
        /\ call'[p].name = call[p].name /\ call'[p].type = file_type[call[p].at]
        /\ call[p].pc = "copy type"
    BY CopyTypeStep DEF DirectoryInv, Are, CopyType, At
  <1>2. /\ Looks(p) /\ NoneOpened /\ UNCHANGED <<tainted, file_name, file_type, dentry_count>>
    BY <1>1 DEF CopyType, Looks, Storing, NoneOpened, table
  <1>3. ASSUME p \notin tainted'
        PROVE  CallSound(p)'
    <2>1. call[p].at < dentry_count /\ Whole(call[p].at) /\ file_name[call[p].at] = call[p].name
      BY <1>1, <1>2, <1>3 DEF DirectoryInv, Sound, CallSound
    <2>2. Whole(call[p].at)'
      BY <1>1, <1>2, <2>1, PlaceStaysWhole
    <2>3. QED
      BY <1>1, <1>2, <2>1, <2>2 DEF CallSound, At
  <1>4. QED
    BY <1>2, <1>3, LookPreserves

LEMMA CopyInodePreserves ==
    ASSUME DirectoryInv, ~mixed, NEW p \in Pid, CopyInode(p)
    PROVE  Sound'
  <1>1. /\ CallStep(p) /\ call'[p].pc = AfterCopy(p) /\ call'[p].name = call[p].name
        /\ call'[p].at = (IF AfterCopy(p) = "again" THEN 0 ELSE call[p].at)
        /\ call'[p].type = call[p].type /\ call'[p].inode = inode_num[call[p].at]
        /\ call'[p].left = (IF AfterCopy(p) = "users" THEN Pid ELSE {})
        /\ call[p].pc = "copy inode" /\ AfterCopy(p) \in {"users", "install", "again"}
    BY CopyInodeStep DEF DirectoryInv, Are, CopyInode, At, AfterCopy
  <1>2. /\ Looks(p) /\ NoneOpened
        /\ UNCHANGED <<tainted, file_name, file_type, inode_num, dentry_count>>
    BY <1>1 DEF CopyInode, Looks, Storing, NoneOpened, table
  <1>3. ASSUME p \notin tainted'
        PROVE  CallSound(p)'
    <2>1. /\ call[p].at < dentry_count /\ Whole(call[p].at) /\ file_name[call[p].at] = call[p].name
          /\ file_type[call[p].at] = call[p].type
      BY <1>1, <1>2, <1>3 DEF DirectoryInv, Sound, CallSound, At
    <2>2. call[p].at \in Place
      BY <1>1 DEF DirectoryInv, InBounds
    <2>3. CASE AfterCopy(p) = "users"
      <3>1. Whole(call[p].at)'
        BY <1>1, <1>2, <2>1, <2>3, PlaceStaysWhole
      <3>2. QED
        BY <1>1, <1>2, <2>1, <2>3, <3>1 DEF CallSound, At
    <2>4. CASE AfterCopy(p) # "users"
      <3>1. Has(DentryAt(call[p].at))
        BY <2>1, <2>2 DEF Has
      <3>2. Created(p)' = DentryAt(call[p].at)
        BY <1>1, <2>1 DEF Created, DentryAt
      <3>3. Has(Created(p))'
        BY <1>2, <3>1, <3>2, WholeStays DEF Has, DentryAt
      <3>4. call'[p].pc = "again" => call'[p].at = 0
        BY <1>1
      <3>5. \A i \in Place : ~(i < 0)
        BY DEF Place
      <3>6. call'[p].pc \in {"install", "again"}
        BY <1>1, <2>4
      <3>7. QED
        BY <3>3, <3>4, <3>5, <3>6 DEF CallSound, At
    <2>5. QED
      BY <2>3, <2>4
  <1>4. QED
    BY <1>2, <1>3, LookPreserves

LEMMA CreateChoosesPreserves ==
    ASSUME DirectoryInv, ~mixed, NEW p \in Pid, CreateChooses(p)
    PROVE  Sound'
  <1>1. call[p].pc = "scan" /\ call[p].pc \notin Storing /\ UNCHANGED <<table, expected, mixed, files>>
    BY DEF CreateChooses, At, Storing
  <1>2. CASE Return(p)
    BY <1>1, <1>2, EndPreserves DEF NoneOpened
  <1>3. ASSUME NEW j \in Inode, UNCHANGED tainted,
               call' = [call EXCEPT ![p].pc = "load", ![p].type = "file", ![p].inode = j]
        PROVE  Sound'
    <2>1. CallStep(p) /\ call'[p].pc = "load" /\ call'[p].name = call[p].name
      BY <1>3, ChosenStep DEF DirectoryInv, Are
    <2>2. /\ Looks(p) /\ NoneOpened /\ UNCHANGED <<file_name, dentry_count>>
      BY <1>1, <2>1 DEF Looks, Storing, NoneOpened, table
    <2>3. ASSUME p \notin tainted'
          PROVE  CallSound(p)'
      <3>1. \A i \in Place : i < call[p].at => file_name[i] # call[p].name
        BY <1>1, <1>3, <2>3 DEF DirectoryInv, Sound, CallSound, At
      <3>2. ~(call[p].at < dentry_count)
        BY DEF CreateChooses, MoreDentries
      <3>3. call[p].at \in Nat /\ dentry_count \in Nat
        BY CallTyped, Constants DEF DirectoryInv, CallType
      <3>4. \A i \in Place : i < dentry_count => file_name[i] # call[p].name
        BY <3>1, <3>2, <3>3, Constants DEF Place
      <3>5. QED
        BY <2>1, <2>2, <3>4 DEF CallSound, At
    <2>4. QED
      BY <1>3, <2>2, <2>3, LookPreserves
  <1>4. QED
    BY <1>2, <1>3 DEF CreateChooses

LEMMA CreateLoadsPreserves ==
    ASSUME DirectoryInv, ~mixed, NEW p \in Pid, CreateLoads(p)
    PROVE  Sound'
  <1>1. /\ CallStep(p) /\ call'[p].pc = "count" /\ call'[p].name = call[p].name
        /\ call'[p].n = dentry_count /\ call'[p].at = dentry_count /\ call[p].pc = "load"
    BY CreateLoadsStep DEF DirectoryInv, Are, CreateLoads, At
  <1>2. /\ Looks(p) /\ NoneOpened /\ UNCHANGED <<tainted, file_name, dentry_count>>
    BY <1>1 DEF CreateLoads, Looks, Storing, NoneOpened, table
  <1>3. ASSUME p \notin tainted'
        PROVE  CallSound(p)'
    <2>1. \A i \in Place : i < dentry_count => file_name[i] # call[p].name
      BY <1>1, <1>2, <1>3 DEF DirectoryInv, Sound, CallSound
    <2>2. QED
      BY <1>1, <1>2, <2>1 DEF CallSound, At
  <1>4. QED
    BY <1>2, <1>3, LookPreserves

LEMMA LooksAtPreserves ==
    ASSUME DirectoryInv, ~mixed, NEW p \in Pid, NEW q \in Pid, LooksAt(p, q)
    PROVE  Sound'
  <1>1. call[p].pc = "users" /\ call[p].pc \notin Storing /\ UNCHANGED <<table, expected, mixed, files>>
    BY DEF LooksAt, At, Storing
  <1>2. CASE Return(p)
    BY <1>1, <1>2, EndPreserves DEF NoneOpened
  <1>3. CASE call' = [call EXCEPT ![p].left = @ \ {q}] /\ tainted' = tainted
             /\ ~Uses(q, call[p].inode)
    <2>1. /\ CallStep(p) /\ call'[p].pc = "users" /\ call'[p].name = call[p].name
          /\ call'[p].at = call[p].at /\ call'[p].inode = call[p].inode
          /\ call'[p].left = call[p].left \ {q}
      BY <1>1, <1>3, LookedAtStep DEF DirectoryInv, Are
    <2>2. /\ Looks(p) /\ NoneOpened /\ UNCHANGED <<file_name, inode_num, dentry_count>>
      BY <1>1, <2>1 DEF Looks, Storing, NoneOpened, table
    <2>3. ASSUME p \notin tainted'
          PROVE  CallSound(p)'
      <3>1. /\ call[p].at < dentry_count /\ Whole(call[p].at)
            /\ file_name[call[p].at] = call[p].name /\ inode_num[call[p].at] = call[p].inode
            /\ \A r \in Pid \ call[p].left : ~Uses(r, call[p].inode)
        BY <1>1, <1>3, <2>3 DEF DirectoryInv, Sound, CallSound, At
      <3>2. Whole(call[p].at)'
        BY <2>1, <2>2, <3>1, PlaceStaysWhole
      <3>3. \A r \in Pid \ call'[p].left : ~Uses(r, call[p].inode)
        BY <1>3, <2>1, <3>1
      <3>4. \A r \in Pid : Uses(r, call[p].inode)' <=> Uses(r, call[p].inode)
        BY <1>1, <2>1 DEF Uses
      <3>5. QED
        BY <2>1, <2>2, <3>1, <3>2, <3>3, <3>4 DEF CallSound, At
    <2>4. QED
      BY <1>3, <2>2, <2>3, LookPreserves
  <1>4. QED
    BY <1>2, <1>3 DEF LooksAt

LEMMA BitsPreserves ==
    ASSUME DirectoryInv, ~mixed, NEW p \in Pid, Unused(p) \/ ClearBit(p)
    PROVE  Sound'
  <1>1. /\ call[p].pc = "bits" \/ (call[p].pc = "users" /\ call[p].left = {})
        /\ UNCHANGED <<table, expected, mixed, files, tainted>>
    BY DEF Unused, ClearBit, At
  <1>2. /\ CallStep(p) /\ call'[p].pc = "bits" /\ call'[p].name = call[p].name
        /\ call'[p].at = call[p].at /\ call'[p].inode = call[p].inode
    <2>1. CASE Unused(p)
      BY <2>1, UnusedStep DEF DirectoryInv, Are
    <2>2. CASE ClearBit(p)
      BY <2>2, ClearBitStep DEF DirectoryInv, Are, ClearBit, At
    <2>3. QED
      BY <2>1, <2>2
  <1>3. /\ Looks(p) /\ NoneOpened /\ UNCHANGED <<file_name, inode_num, dentry_count>>
    BY <1>1, <1>2 DEF Looks, Storing, NoneOpened, table
  <1>4. ASSUME p \notin tainted'
        PROVE  CallSound(p)'
    <2>1. /\ call[p].at < dentry_count /\ Whole(call[p].at)
          /\ file_name[call[p].at] = call[p].name /\ inode_num[call[p].at] = call[p].inode
          /\ \A r \in Pid : ~Uses(r, call[p].inode)
      BY <1>1, <1>4 DEF DirectoryInv, Sound, CallSound, At
    <2>2. Whole(call[p].at)'
      BY <1>2, <1>3, <2>1, PlaceStaysWhole
    <2>3. \A r \in Pid : Uses(r, call[p].inode)' <=> Uses(r, call[p].inode)
      BY <1>1, <1>2 DEF Uses
    <2>4. QED
      BY <1>2, <1>3, <2>1, <2>2, <2>3 DEF CallSound, At
  <1>5. QED
    BY <1>1, <1>3, <1>4, LookPreserves

\* Closing a descriptor, outside of a call.
LEMMA ClosePreserves ==
    ASSUME DirectoryInv, ~mixed, NEW p \in Pid, NEW fd \in Fd, close(p, fd)
    PROVE  Sound'
  <1>1. CallStep(p) /\ call'[p].pc = "idle" /\ call[p].pc = "idle"
    BY CallTyped DEF DirectoryInv, close, At, CallStep
  <1>2. Looks(p)
    BY <1>1 DEF close, Looks, Storing
  <1>3. NoneOpened
    <2>1. ~Closed.present
      BY DEF Closed
    <2>2. QED
      BY <2>1 DEF close, NoneOpened, DirectoryInv, TypeOK
  <1>4. CallSound(p)'
    BY <1>1 DEF CallSound, At
  <1>5. QED
    BY <1>2, <1>3, <1>4, LookPreserves DEF close

\* A process halted between changes; in the middle of one it leaves the directory mixed.
LEMMA HaltPreserves ==
    ASSUME DirectoryInv, ~mixed', NEW p \in Pid, halt(p)
    PROVE  Sound'
  <1>1. ~mixed /\ call[p].pc \notin Storing
    BY DEF halt
  <1>2. UNCHANGED mixed
    <2>1. mixed = FALSE
      BY <1>1 DEF DirectoryInv, TypeOK
    <2>2. mixed' = FALSE
      BY DEF halt
    <2>3. QED
      BY <2>1, <2>2
  <1>3. NoneOpened
    <2>1. \A fd \in Fd : ~[g \in Fd |-> Closed][fd].present
      BY DEF Closed
    <2>2. files' = [files EXCEPT ![p] = [g \in Fd |-> Closed]] /\ files \in [Pid -> [Fd -> UNION {{files[q][g] : g \in Fd} : q \in Pid}]]
      BY DEF halt, DirectoryInv, TypeOK
    <2>3. QED
      BY <2>1, <2>2 DEF NoneOpened
  <1>4. QED
    BY <1>1, <1>3, <1>2, EndPreserves DEF halt

LEMMA LookupFailsPreserves ==
    ASSUME DirectoryInv, ~mixed, NEW p \in Pid, LookupFails(p)
    PROVE  Sound'
  BY EndPreserves DEF LookupFails, At, Storing, NoneOpened

\* open() and create() install a descriptor for a dentry that is there.
LEMMA InstallPreserves ==
    ASSUME DirectoryInv, ~mixed, NEW p \in Pid, Install(p)
    PROVE  Sound'
  <1> DEFINE alone == p \notin tainted
  <1>1. CallStep(p) /\ call'[p] = Idle /\ tainted' = tainted \ {p} /\ call[p].pc = "install"
    BY ReturnStep DEF DirectoryInv, Install, At
  <1>2. call'[p].pc = "idle"
    BY <1>1 DEF Idle
  <1>3. Looks(p)
    BY <1>1, <1>2 DEF Install, Looks, Storing
  <1>4. Sound
    BY DEF DirectoryInv
  <1>5. OneStores' /\ TableSound' /\ \A q \in Pid : (call[q].pc \in Storing)' => StoreSound(q)'
    BY <1>3, TableStays
  <1>6. PICK g \in Fd :
            files' = [files EXCEPT ![p][g] =
                         [present |-> TRUE, inode |-> call[p].inode, type |-> call[p].type,
                          name |-> call[p].name, sure |-> alone]]
    BY DEF Install
  <1> HIDE DEF alone
  <1>7. ASSUME NEW q \in Pid, NEW fd \in Fd
        PROVE  \/ files'[q][fd] = files[q][fd]
               \/ files'[q][fd] = [present |-> TRUE, inode |-> call[p].inode, type |-> call[p].type,
                                   name |-> call[p].name, sure |-> alone]
    BY <1>6 DEF DirectoryInv, TypeOK
  <1>8. ASSUME NEW q \in Pid, NEW fd \in Fd, files'[q][fd].present, files'[q][fd].sure
        PROVE  Has([name |-> files'[q][fd].name, type |-> files'[q][fd].type,
                    inode |-> files'[q][fd].inode])
    <2>1. CASE files'[q][fd] = files[q][fd]
      BY <1>4, <1>8, <2>1 DEF Sound, FilesSound
    <2>2. CASE files'[q][fd] = [present |-> TRUE, inode |-> call[p].inode, type |-> call[p].type,
                                name |-> call[p].name, sure |-> alone]
      <3>1. p \notin tainted
        <4>1. alone
          BY <1>8, <2>2
        <4>2. QED
          BY <4>1 DEF alone
      <3>2. Has(Created(p))
        BY <1>1, <1>4, <3>1 DEF Sound, CallSound
      <3>3. /\ files'[q][fd].name = call[p].name /\ files'[q][fd].type = call[p].type
            /\ files'[q][fd].inode = call[p].inode
        BY <2>2
      <3>4. QED
        BY <3>2, <3>3 DEF Created
    <2>3. QED
      BY <1>7, <2>1, <2>2
  <1>9. FilesSound'
    BY <1>3, <1>8, WholeStays, ZenonT(60) DEF FilesSound, Has, DentryAt
  <1>10. ASSUME NEW q \in Pid \ tainted'
         PROVE  CallSound(q)'
    <2>1. CASE q = p
      BY <1>2, <2>1 DEF CallSound, At
    <2>2. CASE q # p
      <3>1. CallSound(q) /\ q \notin tainted
        BY <1>1, <1>4, <2>2 DEF Sound
      <3>2. call[p].op # "none"
        BY <1>1 DEF DirectoryInv, InBounds
      <3>3. call[q].op # "delete"
        BY <2>2, <3>1, <3>2, NotMisled DEF DirectoryInv
      <3>4. QED
        BY <1>3, <2>2, <3>1, <3>3, OtherCallStays DEF DirectoryInv
    <2>3. QED
      BY <2>1, <2>2
  <1>11. QED
    BY <1>5, <1>9, <1>10 DEF Sound

-----------------------------------------------------------------------------
(* Steps that store.                                                        *)

\* While p stores, it alone does, and the other calls that are not misled are those of
\* open(), of another name than the one p creates.
LEMMA WhileStoring ==
    ASSUME DirectoryInv, ~mixed, NEW p \in Pid, call[p].pc \in Storing
    PROVE  /\ StoreSound(p) /\ call[p].op \in {"create", "delete"} /\ Sound
           /\ call[p].at \in Place /\ call[p].at < dentry_count
           /\ \A q \in Pid : q # p => call[q].pc \notin Storing
           /\ \A i : Whole(i) <=> i # call[p].at
           /\ \A q \in Pid \ tainted : q # p /\ call[q].op # "none" =>
                  call[q].op = "open" /\ call[p].op = "create" /\ call[q].name # call[p].name
  <1>1. Sound /\ StoreSound(p) /\ call[p].op \in {"create", "delete"}
    BY StoringOp DEF DirectoryInv, Sound
  <1>2. \A q \in Pid : q # p => call[q].pc \notin Storing
    BY <1>1 DEF Sound, OneStores
  <1>3. \A i : Whole(i) <=> i # call[p].at
    BY <1>2 DEF Whole
  <1>4. call[p].at \in Nat /\ dentry_count \in 0 .. MaxDentries
    BY CallTyped DEF DirectoryInv, CallType
  <1>5. call[p].at < dentry_count
    BY <1>1, <1>4 DEF StoreSound
  <1>6. call[p].at \in Place
    BY <1>4, <1>5, Constants DEF Place
  <1>7. ASSUME NEW q \in Pid \ tainted, q # p, call[q].op # "none"
        PROVE  call[q].op = "open" /\ call[p].op = "create" /\ call[q].name # call[p].name
    BY <1>1, <1>7, NotMisled DEF DirectoryInv
  <1>8. QED
    BY <1>1, <1>2, <1>3, <1>5, <1>6, <1>7

\* p stores at its place, where what others look for does not appear, and goes on there.
StoresHere(p) ==
    /\ CallStep(p) /\ call[p].pc \in Storing /\ call'[p].pc \in Storing
    /\ call'[p].op = call[p].op /\ call'[p].name = call[p].name /\ call'[p].type = call[p].type
    /\ call'[p].inode = call[p].inode /\ call'[p].at = call[p].at /\ call'[p].n = call[p].n
    /\ UNCHANGED <<dentry_count, files, expected, tainted, mixed>>
    /\ \A i \in Place : i # call[p].at =>
           /\ file_name'[i] = file_name[i] /\ file_type'[i] = file_type[i]
           /\ inode_num'[i] = inode_num[i]
    /\ call[p].op = "create" => file_name'[call[p].at] \in {file_name[call[p].at], call[p].name}

LEMMA StoresHerePreserves ==
    ASSUME DirectoryInv, ~mixed, NEW p \in Pid, StoresHere(p), StoreSound(p)'
    PROVE  Sound'
  <1>1. /\ StoreSound(p) /\ call[p].op \in {"create", "delete"} /\ Sound
        /\ call[p].at \in Place /\ call[p].at < dentry_count
        /\ \A q \in Pid : q # p => call[q].pc \notin Storing
        /\ \A i : Whole(i) <=> i # call[p].at
        /\ \A q \in Pid \ tainted : q # p /\ call[q].op # "none" =>
               call[q].op = "open" /\ call[p].op = "create" /\ call[q].name # call[p].name
    BY WhileStoring DEF StoresHere
  <1>2. \A q \in Pid : q # p => call'[q] = call[q]
    BY DEF StoresHere, CallStep
  <1>3. \A q \in Pid : (call[q].pc \in Storing)' <=> q = p
    BY <1>1, <1>2 DEF StoresHere, Storing
  <1>4. \A i : Whole(i)' <=> i # call[p].at
    BY <1>3 DEF Whole, StoresHere, Storing
  <1>5. \A d : Has(d)' <=> Has(d)
    BY <1>1, <1>4 DEF Has, DentryAt, StoresHere, Place
  <1>6. OneStores'
    BY <1>3 DEF OneStores, Storing
  <1>7. TableSound'
    <2>1. TableSound
      BY <1>1 DEF Sound
    <2>2. \A d : (\E q \in Pid : call[q].pc \in Storing /\ call[q].op = "create" /\ Created(q) = d)'
                 <=> (call[p].op = "create" /\ Created(p) = d)
      BY <1>3 DEF StoresHere, Created, Storing
    <2>3. \A d : (\E q \in Pid : call[q].pc \in Storing /\ call[q].op = "create" /\ Created(q) = d)
                 <=> (call[p].op = "create" /\ Created(p) = d)
      BY <1>1 DEF StoresHere
    <2>4. (\A d \in Dentry : d \in expected <=>
           Has(d) \/ \E q \in Pid : call[q].pc \in Storing /\ call[q].op = "create" /\ Created(q) = d)'
      BY <1>5, <2>1, <2>2, <2>3 DEF TableSound, Dentry, StoresHere
    <2>5. (\A i, j \in Place : i < dentry_count /\ j < dentry_count /\ Whole(i) /\ Whole(j)
                           /\ file_name[i] = file_name[j] => i = j)'
      BY <1>1, <1>4, <2>1 DEF TableSound, Place, StoresHere
    <2>6. (\A i \in Place : i >= dentry_count => file_name[i] = NoName)'
      <3>1. ASSUME NEW i \in Place, i >= dentry_count
            PROVE  i # call[p].at
        BY <1>1, <3>1, Constants DEF Place, DirectoryInv, TypeOK
      <3>2. QED
        BY <2>1, <3>1 DEF TableSound, Place, StoresHere
    <2>7. QED
      BY <2>4, <2>5, <2>6 DEF TableSound
  <1>8. FilesSound'
    <2>1. ASSUME NEW q \in Pid, NEW fd \in Fd, files'[q][fd].present, files'[q][fd].sure
          PROVE  Has([name |-> files[q][fd].name, type |-> files[q][fd].type,
                      inode |-> files[q][fd].inode])'
      <3>1. files' = files
        BY DEF StoresHere
      <3>2. Has([name |-> files[q][fd].name, type |-> files[q][fd].type,
                 inode |-> files[q][fd].inode])
        BY <1>1, <2>1, <3>1 DEF Sound, FilesSound
      <3>3. QED
        BY <1>5, <3>1, <3>2 DEF Has, DentryAt
    <2>2. QED
      BY <2>1 DEF FilesSound
  <1>9. ASSUME NEW q \in Pid \ tainted'
        PROVE  CallSound(q)'
    <2>1. q \notin tainted
      BY DEF StoresHere
    <2>2. CASE q = p
      BY <2>2 DEF StoresHere, Storing, CallSound, At
    <2>3. CASE q # p /\ call[q].op = "none"
      <3>1. call'[q].pc = "idle"
        BY <1>2, <2>3 DEF DirectoryInv, InBounds
      <3>2. QED
        BY <3>1 DEF CallSound, At
    <2>4. CASE q # p /\ call[q].op # "none"
      <3>1. /\ call[q].op = "open" /\ call[p].op = "create" /\ call[q].name # call[p].name
            /\ CallSound(q) /\ call'[q] = call[q]
        BY <1>1, <1>2, <2>1, <2>4 DEF Sound
      <3>2. At(q, "scan") \/ At(q, "again") =>
                \A i \in Place : i < call[q].at => file_name'[i] # call[q].name
        <4>1. ASSUME At(q, "scan") \/ At(q, "again"), NEW i \in Place, i < call[q].at
              PROVE  file_name'[i] # call[q].name
          <5>1. file_name[i] # call[q].name
            BY <3>1, <4>1 DEF CallSound
          <5>2. QED
            BY <3>1, <5>1 DEF StoresHere
        <4>2. QED
          BY <4>1
      <3>3. call[q].pc \in {"copy type", "copy inode"} =>
                /\ call[q].at < dentry_count /\ call[q].at # call[p].at
                /\ file_name'[call[q].at] = call[q].name
                /\ (At(q, "copy inode") => file_type'[call[q].at] = call[q].type)
        <4>1. ASSUME call[q].pc \in {"copy type", "copy inode"}
              PROVE  /\ call[q].at < dentry_count /\ call[q].at # call[p].at
                     /\ call[q].at \in Place /\ file_name[call[q].at] = call[q].name
                     /\ (At(q, "copy inode") => file_type[call[q].at] = call[q].type)
          BY <1>1, <3>1, <4>1 DEF CallSound, DirectoryInv, InBounds
        <4>2. QED
          BY <4>1 DEF StoresHere
      <3>4. call[q].pc \in {"again", "install"} => Has(Created(q))'
        <4>1. Created(q)' = Created(q)
          BY <3>1 DEF Created
        <4>2. call[q].pc \in {"again", "install"} => Has(Created(q))
          BY <3>1 DEF CallSound
        <4>3. QED
          BY <1>5, <4>1, <4>2 DEF Has, DentryAt
      <3>5. call[q].pc \notin {"load", "count", "users", "bits"}
        BY <3>1 DEF DirectoryInv, InBounds
      <3>6. Whole(call[q].at)' <=> call[q].at # call[p].at
        BY <1>4, <3>1 DEF Whole
      <3>7. QED
        BY <3>1, <3>2, <3>3, <3>4, <3>5, <3>6, ZenonT(60) DEF CallSound, At, StoresHere, Place
    <2>5. QED
      BY <2>2, <2>3, <2>4
  <1>10. ASSUME NEW q \in Pid, (call[q].pc \in Storing)'
         PROVE  StoreSound(q)'
    <2>1. q = p
      BY <1>3, <1>10
    <2>2. QED
      BY <2>1
  <1>11. QED
    BY <1>6, <1>7, <1>8, <1>9, <1>10 DEF Sound

LEMMA StoreNamePreserves ==
    ASSUME DirectoryInv, ~mixed, NEW p \in Pid, StoreName(p)
    PROVE  Sound'
  <1>1. /\ CallStep(p) /\ Are(call'[p], call[p], "type", call[p].at, call[p].type, call[p].inode,
                              call[p].n, call[p].left)
        /\ call[p].pc = "name"
    BY StoreNameStep DEF DirectoryInv, StoreName, At
  <1>2. call[p].pc \in Storing /\ call'[p].pc \in Storing
    BY <1>1 DEF Storing, Are
  <1>3. /\ StoreSound(p) /\ call[p].op \in {"create", "delete"}
        /\ call[p].at \in Place /\ call[p].at < dentry_count
    BY <1>2, WhileStoring
  <1>4. /\ file_name \in [Place -> Names \cup {NoName}]
        /\ file_name' = [file_name EXCEPT ![call[p].at] = StoredName(p)]
        /\ UNCHANGED <<file_type, inode_num, dentry_count, files, expected, tainted, mixed>>
    BY DEF StoreName, DirectoryInv, TypeOK
  <1>5. /\ file_name'[call[p].at] = StoredName(p)
        /\ \A i \in Place : i # call[p].at => file_name'[i] = file_name[i]
    BY <1>3, <1>4
  <1>6. StoresHere(p)
    BY <1>1, <1>2, <1>4, <1>5 DEF StoresHere, Are, StoredName
  <1>7. StoredName(p)' = StoredName(p)
    <2>1. CASE call[p].op = "create" \/ LastPlace(p)
      BY <1>1, <2>1 DEF StoredName, Are, LastPlace, Blank
    <2>2. CASE call[p].op = "delete" /\ ~LastPlace(p)
      <3>1. call[p].at + 1 \in Place /\ call[p].at + 1 # call[p].at
        <4>1. /\ call[p].n = dentry_count /\ dentry_count \in 0 .. MaxDentries
              /\ call[p].at # call[p].n - 1
          BY <1>3, <2>2 DEF StoreSound, LastPlace, DirectoryInv, TypeOK
        <4>2. QED
          BY <1>3, <4>1, Constants DEF Place
      <3>2. file_name'[call[p].at + 1] = file_name[call[p].at + 1]
        BY <1>5, <3>1
      <3>3. QED
        BY <1>1, <2>2, <3>2 DEF StoredName, Are, LastPlace
    <2>3. QED
      BY <1>3, <2>1, <2>2
  <1>8. StoreSound(p)'
    <2>1. call[p].op = "create" =>
              /\ call[p].at + 1 = dentry_count
              /\ \A i \in Place : i < dentry_count /\ i # call[p].at => file_name'[i] # call[p].name
      BY <1>3, <1>5 DEF StoreSound
    <2>2. call[p].op = "delete" => call[p].n = dentry_count /\ call[p].at < dentry_count
      BY <1>3 DEF StoreSound
    <2>3. QED
      BY <1>1, <1>4, <1>5, <1>7, <2>1, <2>2 DEF StoreSound, Are, At, Place
  <1>9. QED
    BY <1>6, <1>8, StoresHerePreserves

LEMMA StoreTypePreserves ==
    ASSUME DirectoryInv, ~mixed, NEW p \in Pid, StoreType(p)
    PROVE  Sound'
  <1>1. /\ CallStep(p) /\ Are(call'[p], call[p], "inode", call[p].at, call[p].type, call[p].inode,
                              call[p].n, call[p].left)
        /\ call[p].pc = "type"
    BY StoreTypeStep DEF DirectoryInv, StoreType, At
  <1>2. call[p].pc \in Storing /\ call'[p].pc \in Storing
    BY <1>1 DEF Storing, Are
  <1>3. /\ StoreSound(p) /\ call[p].op \in {"create", "delete"}
        /\ call[p].at \in Place /\ call[p].at < dentry_count
    BY <1>2, WhileStoring
  <1>4. /\ file_type \in [Place -> Types]
        /\ file_type' = [file_type EXCEPT ![call[p].at] = StoredType(p)]
        /\ UNCHANGED <<file_name, inode_num, dentry_count, files, expected, tainted, mixed>>
    BY DEF StoreType, DirectoryInv, TypeOK
  <1>5. /\ file_type'[call[p].at] = StoredType(p)
        /\ \A i \in Place : i # call[p].at => file_type'[i] = file_type[i]
    BY <1>3, <1>4
  <1>6. StoresHere(p)
    BY <1>1, <1>2, <1>4, <1>5 DEF StoresHere, Are
  <1>7. StoredType(p)' = StoredType(p) /\ StoredName(p)' = StoredName(p)
    <2>1. StoredName(p)' = StoredName(p)
      BY <1>1, <1>4 DEF StoredName, Are, LastPlace, Blank
    <2>2. CASE call[p].op = "create" \/ LastPlace(p)
      BY <1>1, <2>1, <2>2 DEF StoredType, Are, LastPlace, Blank
    <2>3. CASE call[p].op = "delete" /\ ~LastPlace(p)
      <3>1. call[p].at + 1 \in Place /\ call[p].at + 1 # call[p].at
        <4>1. /\ call[p].n = dentry_count /\ dentry_count \in 0 .. MaxDentries
              /\ call[p].at # call[p].n - 1
          BY <1>3, <2>3 DEF StoreSound, LastPlace, DirectoryInv, TypeOK
        <4>2. QED
          BY <1>3, <4>1, Constants DEF Place
      <3>2. file_type'[call[p].at + 1] = file_type[call[p].at + 1]
        BY <1>5, <3>1
      <3>3. QED
        BY <1>1, <2>1, <2>3, <3>2 DEF StoredType, Are, LastPlace
    <2>4. QED
      BY <1>3, <2>1, <2>2, <2>3
  <1>8. StoreSound(p)'
    BY <1>1, <1>3, <1>4, <1>5, <1>7 DEF StoreSound, Are, At, Place
  <1>9. QED
    BY <1>6, <1>8, StoresHerePreserves

\* delete() has cleared the last place.
LEMMA ClearedPreserves ==
    ASSUME DirectoryInv, ~mixed, NEW p \in Pid, StoreInode(p), call[p].op = "delete", LastPlace(p)
    PROVE  Sound'
  <1>1. /\ CallStep(p) /\ Are(call'[p], call[p], "lower", call[p].at, call[p].type, call[p].inode,
                              call[p].n, call[p].left)
        /\ call[p].pc = "inode"
    BY ClearedStep DEF DirectoryInv, StoreInode, At
  <1>2. call[p].pc \in Storing /\ call'[p].pc \in Storing
    BY <1>1 DEF Storing, Are
  <1>3. StoreSound(p) /\ call[p].at \in Place /\ call[p].at < dentry_count
    BY <1>2, WhileStoring
  <1>4. /\ inode_num \in [Place -> Inode]
        /\ inode_num' = [inode_num EXCEPT ![call[p].at] = StoredInode(p)]
        /\ UNCHANGED <<file_name, file_type, dentry_count, files, expected, tainted, mixed>>
    BY DEF StoreInode, DirectoryInv, TypeOK
  <1>5. \A i \in Place : i # call[p].at => inode_num'[i] = inode_num[i]
    BY <1>3, <1>4
  <1>6. StoresHere(p)
    BY <1>1, <1>2, <1>4, <1>5 DEF StoresHere, Are
  <1>7. file_name[call[p].at] = NoName /\ call[p].at + 1 = dentry_count /\ call[p].n = dentry_count
    <2>1. file_name[call[p].at] = NoName /\ call[p].n = dentry_count
      BY <1>1, <1>3 DEF StoreSound, StoredName, Blank
    <2>2. call[p].at = call[p].n - 1 /\ dentry_count \in Nat
      BY Constants DEF LastPlace, DirectoryInv, TypeOK
    <2>3. QED
      BY <2>1, <2>2
  <1>8. StoreSound(p)'
    BY <1>1, <1>3, <1>4, <1>7 DEF StoreSound, Are, At
  <1>9. QED
    BY <1>6, <1>8, StoresHerePreserves

LEMMA ClearsLastPreserves ==
    ASSUME DirectoryInv, ~mixed, NEW p \in Pid, ClearsLast(p)
    PROVE  Sound'
  <1>1. /\ CallStep(p) /\ Are(call'[p], call[p], "name", dentry_count - 1, call[p].type,
                              call[p].inode, dentry_count, call[p].left)
        /\ call[p].pc = "last" /\ call[p].op = "delete"
    BY ClearsLastStep DEF DirectoryInv, ClearsLast, At, InBounds
  <1>2. call[p].pc \in Storing /\ call'[p].pc \in Storing
    BY <1>1 DEF Storing, Are
  <1>3. StoreSound(p) /\ call[p].at \in Place /\ call[p].at < dentry_count
    BY <1>2, WhileStoring
  <1>4. call[p].n = dentry_count /\ call[p].at = dentry_count - 1
    <2>1. call[p].n = dentry_count /\ call[p].at + 1 = dentry_count
      BY <1>1, <1>3 DEF StoreSound
    <2>2. QED
      BY <1>3, <2>1 DEF Place
  <1>5. UNCHANGED <<file_name, file_type, inode_num, dentry_count, files, expected, tainted, mixed>>
    BY DEF ClearsLast, table
  <1>6. StoresHere(p)
    BY <1>1, <1>2, <1>4, <1>5 DEF StoresHere, Are
  <1>7. StoreSound(p)'
    BY <1>1, <1>3, <1>4, <1>5 DEF StoreSound, Are, At
  <1>8. QED
    BY <1>6, <1>7, StoresHerePreserves

LEMMA LowersPreserves ==
    ASSUME DirectoryInv, ~mixed, NEW p \in Pid, Lowers(p)
    PROVE  Sound'
  <1>1. /\ CallStep(p) /\ Are(call'[p], call[p], "lowered", call[p].at, call[p].type,
                              call[p].inode, dentry_count, call[p].left)
        /\ call[p].pc = "lower" /\ call[p].op = "delete"
    BY LowersStep DEF DirectoryInv, Lowers, At, InBounds
  <1>2. call[p].pc \in Storing /\ call'[p].pc \in Storing
    BY <1>1 DEF Storing, Are
  <1>3. StoreSound(p) /\ call[p].at \in Place /\ call[p].at < dentry_count
    BY <1>2, WhileStoring
  <1>4. /\ call[p].n = dentry_count /\ call[p].at + 1 = dentry_count
        /\ file_name[call[p].at] = NoName
    BY <1>1, <1>3 DEF StoreSound
  <1>5. UNCHANGED <<file_name, file_type, inode_num, dentry_count, files, expected, tainted, mixed>>
    BY DEF Lowers, table
  <1>6. StoresHere(p)
    BY <1>1, <1>2, <1>4, <1>5 DEF StoresHere, Are
  <1>7. StoreSound(p)'
    BY <1>1, <1>3, <1>4, <1>5 DEF StoreSound, Are, At
  <1>8. QED
    BY <1>6, <1>7, StoresHerePreserves

\* While delete() stores, whoever else is in a call is misled.
LEMMA BesideDelete ==
    ASSUME DirectoryInv, ~mixed, NEW p \in Pid, CallStep(p), tainted \ {p} \subseteq tainted',
           call[p].op = "delete", call[p].pc \in Storing,
           call'[p].pc \in Storing \cup {"idle"}
    PROVE  \A q \in Pid \ tainted' : CallSound(q)'
  <1> SUFFICES ASSUME NEW q \in Pid \ tainted' PROVE CallSound(q)'
    OBVIOUS
  <1>1. CASE q = p
    BY <1>1 DEF CallSound, At, Storing
  <1>2. CASE q # p
    <2>1. call[q].op = "none"
      BY <1>2, WhileStoring
    <2>2. call'[q].pc = "idle"
      BY <1>2, <2>1 DEF CallStep, DirectoryInv, InBounds
    <2>3. QED
      BY <2>2 DEF CallSound, At
  <1>3. QED
    BY <1>1, <1>2

\* With the same whole dentries, and no create() about to store, the files stay named and
\* the table holds what is expected.
LEMMA SameDentries ==
    ASSUME DirectoryInv, ~mixed, UNCHANGED <<files, expected>>,
           \A q \in Pid : call[q].pc \in Storing => call[q].op # "create",
           \A q \in Pid : call'[q].pc \in Storing => call'[q].op # "create",
           \A d : Has(d)' <=> Has(d)
    PROVE  /\ FilesSound'
           /\ (\A d \in Dentry : d \in expected <=>
               Has(d) \/ \E q \in Pid : call[q].pc \in Storing /\ call[q].op = "create" /\ Created(q) = d)'
  <1>1. FilesSound /\ TableSound
    BY DEF DirectoryInv, Sound
  <1>2. ASSUME NEW q \in Pid, NEW fd \in Fd, files'[q][fd].present, files'[q][fd].sure
        PROVE  Has([name |-> files[q][fd].name, type |-> files[q][fd].type,
                    inode |-> files[q][fd].inode])'
    <2>1. Has([name |-> files[q][fd].name, type |-> files[q][fd].type,
               inode |-> files[q][fd].inode])
      BY <1>1, <1>2 DEF FilesSound
    <2>2. QED
      BY <2>1 DEF Has, DentryAt
  <1>3. FilesSound'
    BY <1>2 DEF FilesSound
  <1>4. \A d \in Dentry : d \in expected <=> Has(d)
    BY <1>1 DEF TableSound
  <1>5. QED
    BY <1>3, <1>4 DEF Dentry, Storing

\* delete() has moved a dentry, and goes on with the next.
LEMMA MovedPreserves ==
    ASSUME DirectoryInv, ~mixed, NEW p \in Pid, StoreInode(p), call[p].op = "delete", ~LastPlace(p)
    PROVE  Sound'
  <1>1. /\ CallStep(p) /\ Are(call'[p], call[p], AfterMove(p), call[p].at + 1, call[p].type,
                              call[p].inode, call[p].n, call[p].left)
        /\ call[p].pc = "inode" /\ AfterMove(p) \in {"last", "name"}
    BY MovedStep DEF DirectoryInv, StoreInode, At, AfterMove
  <1>2. call[p].pc \in Storing /\ call'[p].pc \in Storing /\ call'[p].op = "delete"
    BY <1>1 DEF Storing, Are
  <1>3. /\ StoreSound(p) /\ Sound /\ call[p].at \in Place /\ call[p].at < dentry_count
        /\ \A q \in Pid : q # p => call[q].pc \notin Storing
        /\ \A i : Whole(i) <=> i # call[p].at
    BY <1>2, WhileStoring
  <1>4. /\ UNCHANGED <<file_name, file_type, dentry_count, files, expected, tainted, mixed>>
        /\ inode_num' = [inode_num EXCEPT ![call[p].at] = StoredInode(p)]
        /\ inode_num \in [Place -> Inode]
    BY DEF StoreInode, DirectoryInv, TypeOK
  <1> DEFINE k == call[p].at
  <1>5. /\ k \in Nat /\ k + 1 \in Place /\ k + 1 < dentry_count /\ k # k + 1
        /\ call[p].n = dentry_count
    <2>1. call[p].n = dentry_count /\ call[p].at # call[p].n - 1
      BY <1>3 DEF StoreSound, LastPlace
    <2>2. dentry_count \in 0 .. MaxDentries
      BY DEF DirectoryInv, TypeOK
    <2>3. QED
      BY <1>3, <2>1, <2>2, Constants DEF Place
  <1>6. /\ \A q \in Pid : q # p => call'[q] = call[q]
        /\ \A q \in Pid : call'[q].pc \in Storing <=> q = p
    BY <1>1, <1>2, <1>3 DEF CallStep
  <1>7. \A i : Whole(i)' <=> i # k + 1
    BY <1>1, <1>6 DEF Whole, Are, Storing
  <1>8. /\ file_name[k] = file_name[k + 1] /\ file_type[k] = file_type[k + 1]
        /\ inode_num'[k] = inode_num[k + 1]
        /\ \A i \in Place : i # k => inode_num'[i] = inode_num[i]
    <2>1. file_name[k] = StoredName(p) /\ file_type[k] = StoredType(p)
      BY <1>1, <1>3 DEF StoreSound, At
    <2>2. inode_num'[k] = StoredInode(p) /\ \A i \in Place : i # k => inode_num'[i] = inode_num[i]
      BY <1>3, <1>4
    <2>3. QED
      BY <2>1, <2>2 DEF StoredName, StoredType, StoredInode
  <1>9. \A d : Has(d)' <=> Has(d)
    <2> TAKE d
    <2>1. ASSUME NEW i \in Place, i < dentry_count, i # k, DentryAt(i) = d
          PROVE  Has(d)'
      <3>1. CASE i = k + 1
        <4>1. PICK j \in Place : j = k
          BY <1>3
        <4>2. DentryAt(j)' = d
          BY <1>4, <1>8, <2>1, <3>1, <4>1 DEF DentryAt
        <4>3. QED
          BY <1>3, <1>4, <1>5, <1>7, <4>1, <4>2 DEF Has, Place
      <3>2. CASE i # k + 1
        <4>1. DentryAt(i)' = d
          BY <1>4, <1>8, <2>1 DEF DentryAt
        <4>2. QED
          BY <1>4, <1>7, <2>1, <3>2, <4>1 DEF Has, Place
      <3>3. QED
        BY <3>1, <3>2
    <2>2. ASSUME NEW i \in Place, i < dentry_count, i # k + 1, DentryAt(i)' = d
          PROVE  Has(d)
      <3>1. CASE i = k
        <4>1. DentryAt(k + 1) = d
          BY <1>4, <1>8, <2>2, <3>1 DEF DentryAt
        <4>2. QED
          BY <1>3, <1>5, <4>1 DEF Has
      <3>2. CASE i # k
        <4>1. DentryAt(i) = d
          BY <1>4, <1>8, <2>2, <3>2 DEF DentryAt
        <4>2. QED
          BY <1>3, <2>2, <3>2, <4>1 DEF Has
      <3>3. QED
        BY <3>1, <3>2
    <2>3. Has(d) => Has(d)'
      BY <1>3, <2>1 DEF Has
    <2>4. Has(d)' => Has(d)
      BY <1>4, <1>7, <2>2 DEF Has, Place
    <2>5. QED
      BY <2>3, <2>4
  <1>10. /\ FilesSound'
         /\ (\A d \in Dentry : d \in expected <=>
             Has(d) \/ \E q \in Pid : call[q].pc \in Storing /\ call[q].op = "create" /\ Created(q) = d)'
    BY <1>2, <1>3, <1>4, <1>6, <1>9, SameDentries
  <1>11. OneStores'
    BY <1>6 DEF OneStores, Storing
  <1>12. TableSound'
    <2>1. TableSound
      BY <1>3 DEF Sound
    <2>2. (\A i, j \in Place : i < dentry_count /\ j < dentry_count /\ Whole(i) /\ Whole(j)
                           /\ file_name[i] = file_name[j] => i = j)'
      <3>1. ASSUME NEW i \in Place, NEW j \in Place, i < dentry_count, j < dentry_count,
                   i # k + 1, j # k + 1, file_name[i] = file_name[j], i = k, j # k
            PROVE  FALSE
        <4>1. file_name[k + 1] = file_name[j] /\ Whole(k + 1) /\ Whole(j)
          BY <1>3, <1>5, <1>8, <3>1
        <4>2. QED
          BY <1>5, <2>1, <3>1, <4>1 DEF TableSound
      <3>2. ASSUME NEW i \in Place, NEW j \in Place, i < dentry_count, j < dentry_count,
                   i # k + 1, j # k + 1, file_name[i] = file_name[j]
            PROVE  i = j
        <4>1. CASE i # k /\ j # k
          BY <1>3, <2>1, <3>2, <4>1 DEF TableSound
        <4>2. QED
          BY <3>1, <3>2, <4>1
      <3>3. QED
        BY <1>4, <1>7, <3>2 DEF Place
    <2>3. (\A i \in Place : i >= dentry_count => file_name[i] = NoName)'
      BY <1>4, <2>1 DEF TableSound, Place
    <2>4. QED
      BY <1>10, <2>2, <2>3 DEF TableSound
  <1>13. ASSUME NEW q \in Pid, (call[q].pc \in Storing)'
         PROVE  StoreSound(q)'
    <2>1. q = p
      BY <1>6, <1>13 DEF Storing
    <2>2. AfterMove(p) = "last" => (k + 1) + 1 = dentry_count
      BY <1>5 DEF AfterMove
    <2>3. StoreSound(p)'
      BY <1>1, <1>2, <1>4, <1>5, <2>2 DEF StoreSound, Are, At
    <2>4. QED
      BY <2>1, <2>3
  <1>14. \A q \in Pid \ tainted' : CallSound(q)'
    BY <1>1, <1>2, <1>4, BesideDelete
  <1>15. QED
    BY <1>10, <1>11, <1>12, <1>13, <1>14 DEF Sound

\* delete() has lowered the count.
LEMMA DeleteEndsPreserves ==
    ASSUME DirectoryInv, ~mixed, NEW p \in Pid, DeleteEnds(p)
    PROVE  Sound'
  <1>1. /\ CallStep(p) /\ call'[p] = Idle /\ tainted' = tainted \ {p}
        /\ call[p].pc = "lowered" /\ call[p].op = "delete"
    BY ReturnStep DEF DirectoryInv, DeleteEnds, At, InBounds
  <1>2. call[p].pc \in Storing /\ call'[p].pc = "idle"
    BY <1>1 DEF Storing, Idle
  <1>3. /\ StoreSound(p) /\ Sound /\ call[p].at \in Place
        /\ \A q \in Pid : q # p => call[q].pc \notin Storing
        /\ \A i : Whole(i) <=> i # call[p].at
    BY <1>2, WhileStoring
  <1>4. /\ UNCHANGED <<file_name, file_type, inode_num, files, expected>>
        /\ dentry_count' = call[p].n - 1
    BY DEF DeleteEnds
  <1> DEFINE k == call[p].at
  <1>5. /\ k \in Nat /\ k + 1 = dentry_count /\ dentry_count' = k /\ file_name[k] = NoName
    <2>1. call[p].n = dentry_count /\ k + 1 = dentry_count /\ file_name[k] = NoName
      BY <1>1, <1>3 DEF StoreSound
    <2>2. QED
      BY <1>3, <1>4, <2>1 DEF Place
  <1>6. \A q \in Pid : call'[q].pc \notin Storing
    BY <1>1, <1>2, <1>3 DEF CallStep, Storing
  <1>7. \A i : Whole(i)'
    BY <1>6 DEF Whole, Storing
  <1>8. \A i \in Place : i < dentry_count' <=> i < dentry_count /\ i # k
    BY <1>5 DEF Place
  <1>9. \A d : Has(d)' <=> Has(d)
    BY <1>3, <1>4, <1>7, <1>8 DEF Has, DentryAt, Place
  <1>10. /\ FilesSound'
         /\ (\A d \in Dentry : d \in expected <=>
             Has(d) \/ \E q \in Pid : call[q].pc \in Storing /\ call[q].op = "create" /\ Created(q) = d)'
    BY <1>1, <1>3, <1>4, <1>6, <1>9, SameDentries
  <1>11. OneStores'
    BY <1>6 DEF OneStores, Storing
  <1>12. TableSound'
    <2>1. TableSound
      BY <1>3 DEF Sound
    <2>2. (\A i, j \in Place : i < dentry_count /\ j < dentry_count /\ Whole(i) /\ Whole(j)
                           /\ file_name[i] = file_name[j] => i = j)'
      BY <1>3, <1>4, <1>8, <2>1 DEF TableSound, Place
    <2>3. ASSUME NEW i \in Place, i >= dentry_count'
          PROVE  file_name[i] = NoName
      <3>1. i = k \/ i >= dentry_count
        BY <1>5, <2>3 DEF Place
      <3>2. QED
        BY <1>5, <2>1, <3>1 DEF TableSound
    <2>4. (\A i \in Place : i >= dentry_count => file_name[i] = NoName)'
      BY <1>4, <2>3 DEF Place
    <2>5. QED
      BY <1>10, <2>2, <2>4 DEF TableSound
  <1>13. \A q \in Pid : ~(call[q].pc \in Storing)'
    BY <1>6 DEF Storing
  <1>14. \A q \in Pid \ tainted' : CallSound(q)'
    BY <1>1, <1>2, BesideDelete
  <1>15. QED
    BY <1>10, <1>11, <1>12, <1>13, <1>14 DEF Sound

\* create() has stored the dentry.
LEMMA StoredPreserves ==
    ASSUME DirectoryInv, ~mixed, NEW p \in Pid, StoreInode(p), call[p].op = "create"
    PROVE  Sound'
  <1>1. /\ CallStep(p) /\ Are(call'[p], call[p], "install", call[p].at, call[p].type,
                              call[p].inode, call[p].n, call[p].left)
        /\ call[p].pc = "inode"
    BY StoredStep DEF DirectoryInv, StoreInode, At
  <1>2. call[p].pc \in Storing /\ call'[p].pc = "install"
    BY <1>1 DEF Storing, Are
  <1>3. /\ StoreSound(p) /\ Sound /\ call[p].at \in Place /\ call[p].at < dentry_count
        /\ \A q \in Pid : q # p => call[q].pc \notin Storing
        /\ \A i : Whole(i) <=> i # call[p].at
        /\ \A q \in Pid \ tainted : q # p /\ call[q].op # "none" =>
               call[q].op = "open" /\ call[p].op = "create" /\ call[q].name # call[p].name
    BY <1>2, WhileStoring
  <1>4. /\ UNCHANGED <<file_name, file_type, dentry_count, files, expected, tainted, mixed>>
        /\ inode_num' = [inode_num EXCEPT ![call[p].at] = call[p].inode]
        /\ inode_num \in [Place -> Inode]
    BY DEF StoreInode, StoredInode, DirectoryInv, TypeOK
  <1>5. PICK k \in Place : k = call[p].at
    BY <1>3
  <1>6. /\ \A q \in Pid : q # p => call'[q] = call[q]
        /\ \A q \in Pid : call'[q].pc \notin Storing
    BY <1>1, <1>2, <1>3 DEF CallStep, Storing
  <1>7. \A i : Whole(i)'
    BY <1>6 DEF Whole, Storing
  <1>8. /\ file_name[k] = call[p].name /\ file_type[k] = call[p].type
        /\ inode_num'[k] = call[p].inode
        /\ \A i \in Place : i # k => inode_num'[i] = inode_num[i]
    <2>1. file_name[k] = StoredName(p) /\ file_type[k] = StoredType(p)
      BY <1>1, <1>3, <1>5 DEF StoreSound, At
    <2>2. QED
      BY <1>4, <1>5, <2>1 DEF StoredName, StoredType
  <1>9. \A i \in Place : i # k => DentryAt(i)' = DentryAt(i)
    BY <1>4, <1>8 DEF DentryAt
  <1>10. DentryAt(k)' = Created(p)
    BY <1>4, <1>8 DEF DentryAt, Created
  <1>11. \A d : Has(d)' <=> Has(d) \/ d = Created(p)
    <2> TAKE d
    <2>1. Has(d)' <=> \E i \in Place : i < dentry_count /\ DentryAt(i)' = d
      BY <1>4, <1>7 DEF Has, Place
    <2>2. Has(d) <=> \E i \in Place : i < dentry_count /\ i # k /\ DentryAt(i) = d
      BY <1>3, <1>5 DEF Has
    <2>3. QED
      BY <1>3, <1>5, <1>9, <1>10, <2>1, <2>2
  <1>12. FilesSound'
    <2>1. ASSUME NEW q \in Pid, NEW fd \in Fd, files'[q][fd].present, files'[q][fd].sure
          PROVE  Has([name |-> files[q][fd].name, type |-> files[q][fd].type,
                      inode |-> files[q][fd].inode])'
      <3>1. Has([name |-> files[q][fd].name, type |-> files[q][fd].type,
                 inode |-> files[q][fd].inode])
        BY <1>3, <1>4, <2>1 DEF Sound, FilesSound
      <3>2. QED
        BY <1>4, <1>11, <3>1, ZenonT(60) DEF Has, DentryAt
    <2>2. QED
      BY <2>1 DEF FilesSound
  <1>13. OneStores'
    BY <1>6 DEF OneStores, Storing
  <1>14. TableSound'
    <2>1. TableSound
      BY <1>3 DEF Sound
    <2>2. ASSUME NEW d \in Dentry
          PROVE  d \in expected' <=> Has(d)'
      <3>1. d \in expected <=> Has(d) \/ Created(p) = d
        BY <1>2, <1>3, <2>1 DEF TableSound
      <3>2. QED
        BY <1>4, <1>11, <3>1
    <2>3. (\A d \in Dentry : d \in expected <=>
           Has(d) \/ \E q \in Pid : call[q].pc \in Storing /\ call[q].op = "create" /\ Created(q) = d)'
      <3>1. \A q \in Pid : ~(call[q].pc \in Storing)'
        BY <1>6 DEF Storing
      <3>2. QED
        BY <2>2, <3>1 DEF Dentry
    <2>4. ASSUME NEW i \in Place, i < dentry_count, i # k
          PROVE  file_name[i] # file_name[k]
      BY <1>3, <1>5, <1>8, <2>4 DEF StoreSound
    <2>5. ASSUME NEW i \in Place, NEW j \in Place, i < dentry_count, j < dentry_count,
                 file_name[i] = file_name[j]
          PROVE  i = j
      <3>1. CASE i # k /\ j # k
        BY <1>3, <1>5, <2>1, <2>5, <3>1 DEF TableSound
      <3>2. CASE i = k \/ j = k
        BY <2>4, <2>5, <3>2
      <3>3. QED
        BY <3>1, <3>2
    <2>6. (\A i, j \in Place : i < dentry_count /\ j < dentry_count /\ Whole(i) /\ Whole(j)
                           /\ file_name[i] = file_name[j] => i = j)'
      BY <1>4, <2>5 DEF Place
    <2>7. (\A i \in Place : i >= dentry_count => file_name[i] = NoName)'
      BY <1>4, <2>1 DEF TableSound, Place
    <2>8. QED
      BY <2>3, <2>6, <2>7 DEF TableSound
  <1>15. \A q \in Pid : ~(call[q].pc \in Storing)'
    BY <1>6 DEF Storing
  <1>16. ASSUME NEW q \in Pid \ tainted'
         PROVE  CallSound(q)'
    <2>1. CASE q = p
      <3>1. Created(p)' = Created(p)
        BY <1>1 DEF Created, Are
      <3>2. Has(Created(p))'
        BY <1>11, <3>1 DEF Has, DentryAt
      <3>3. QED
        BY <1>2, <2>1, <3>2 DEF CallSound, At
    <2>2. CASE q # p /\ call[q].op = "none"
      <3>1. call'[q].pc = "idle"
        BY <1>6, <2>2 DEF DirectoryInv, InBounds
      <3>2. QED
        BY <3>1 DEF CallSound, At
    <2>3. CASE q # p /\ call[q].op # "none"
      <3>1. call[q].op = "open" /\ CallSound(q) /\ call'[q] = call[q]
        BY <1>3, <1>4, <1>6, <2>3 DEF Sound
      <3>2. call[q].pc \in {"again", "install"} => Has(Created(q))'
        <4>1. Created(q)' = Created(q)
          BY <3>1 DEF Created
        <4>2. call[q].pc \in {"again", "install"} => Has(Created(q))
          BY <3>1 DEF CallSound
        <4>3. QED
          BY <1>11, <4>1, <4>2 DEF Has, DentryAt
      <3>3. call[q].pc \notin {"load", "count", "users", "bits"}
        BY <3>1 DEF DirectoryInv, InBounds
      <3>4. Whole(call[q].at)'
        BY <1>6 DEF Whole, Storing
      <3>5. QED
        BY <1>4, <3>1, <3>2, <3>3, <3>4 DEF CallSound, At, Place
    <2>4. QED
      BY <2>1, <2>2, <2>3
  <1>17. QED
    BY <1>12, <1>13, <1>14, <1>15, <1>16 DEF Sound

\* create() and delete() begin to store while nobody else does.
LEMMA BeginsAlone ==
    ASSUME DirectoryInv, ~mixed, NEW p \in Pid \ tainted, call[p].op \in {"create", "delete"},
           call[p].pc \notin Storing, CallStep(p), call'[p].pc \in Storing
    PROVE  /\ \A q \in Pid : call[q].pc \notin Storing
           /\ \A i : Whole(i)
           /\ \A q \in Pid : (call[q].pc \in Storing)' <=> q = p
           /\ \A i : Whole(i)' <=> i # call'[p].at
           /\ OneStores'
           /\ \A d \in Dentry : d \in expected <=> Has(d)
           /\ \A i, j \in Place : i < dentry_count /\ j < dentry_count
                                  /\ file_name[i] = file_name[j] => i = j
  <1>1. \A q \in Pid : call[q].pc \notin Storing
    BY OthersStoring
  <1>2. \A i : Whole(i)
    BY <1>1 DEF Whole
  <1>3. \A q \in Pid : (call[q].pc \in Storing)' <=> q = p
    BY <1>1 DEF CallStep, Storing
  <1>4. \A i : Whole(i)' <=> i # call'[p].at
    BY <1>3 DEF Whole, Storing
  <1>5. OneStores'
    BY <1>3 DEF OneStores, Storing
  <1>6. TableSound
    BY DEF DirectoryInv, Sound
  <1>7. \A d \in Dentry : d \in expected <=> Has(d)
    BY <1>1, <1>6 DEF TableSound
  <1>8. \A i, j \in Place : i < dentry_count /\ j < dentry_count
                            /\ file_name[i] = file_name[j] => i = j
    BY <1>2, <1>6 DEF TableSound
  <1>9. QED
    BY <1>1, <1>2, <1>3, <1>4, <1>5, <1>7, <1>8

\* A misled call that changes the directory leaves it mixed.
LEMMA CommitsAlone ==
    ASSUME NEW p \in Pid, NEW dentries, Commit(p, dentries), ~mixed'
    PROVE  p \notin tainted /\ ~mixed
  BY DEF Commit

\* create() has raised the count.
LEMMA CreateCountsPreserves ==
    ASSUME DirectoryInv, ~mixed', NEW p \in Pid, CreateCounts(p)
    PROVE  Sound'
  <1>1. p \notin tainted /\ ~mixed
    BY CommitsAlone DEF CreateCounts
  <1>2. /\ CallStep(p) /\ Are(call'[p], call[p], "name", call[p].at, call[p].type,
                              call[p].inode, call[p].n, call[p].left)
        /\ call[p].pc = "count" /\ call[p].op = "create"
    BY CreateCountsStep DEF DirectoryInv, CreateCounts, At, InBounds
  <1>3. /\ call[p].pc \notin Storing /\ call'[p].pc \in Storing /\ call'[p].pc = "name"
        /\ call'[p].op = "create" /\ call'[p].at = call[p].at /\ call'[p].name = call[p].name
    BY <1>2 DEF Storing, Are
  <1>4. /\ \A q \in Pid : call[q].pc \notin Storing
        /\ \A i : Whole(i)
        /\ \A q \in Pid : (call[q].pc \in Storing)' <=> q = p
        /\ \A i : Whole(i)' <=> i # call'[p].at
        /\ OneStores'
        /\ \A d \in Dentry : d \in expected <=> Has(d)
        /\ \A i, j \in Place : i < dentry_count /\ j < dentry_count
                               /\ file_name[i] = file_name[j] => i = j
    BY <1>1, <1>2, <1>3, BeginsAlone
  <1>5. /\ UNCHANGED <<file_name, file_type, inode_num, files, tainted>>
        /\ dentry_count' = call[p].n + 1 /\ expected' = expected \cup {Created(p)}
    BY DEF CreateCounts, Commit, Created
  <1>6. /\ Sound /\ CallSound(p)
    BY <1>1 DEF DirectoryInv, Sound
  <1>7. PICK k \in Place : k = call[p].at /\ k = dentry_count /\ dentry_count' = k + 1
    <2>1. call[p].n = dentry_count /\ call[p].at = dentry_count
      BY <1>2, <1>6 DEF CallSound, At
    <2>2. call[p].n < MaxDentries
      BY <1>2 DEF DirectoryInv, InBounds
    <2>3. dentry_count \in Place
      BY <2>1, <2>2, Constants DEF Place, DirectoryInv, TypeOK
    <2>4. QED
      BY <1>5, <2>1, <2>3
  <1>8. /\ \A i \in Place : i < dentry_count => file_name[i] # call[p].name
        /\ file_name[k] = NoName
    <2>1. TableSound /\ k >= dentry_count
      BY <1>6, <1>7, Constants DEF Sound, Place
    <2>2. QED
      BY <1>2, <1>6, <2>1 DEF CallSound, TableSound
  <1>9. \A i \in Place : i < dentry_count' /\ i # k <=> i < dentry_count
    BY <1>7 DEF Place
  <1>10. \A d : Has(d)' <=> Has(d)
    <2> TAKE d
    <2>1. Has(d)' <=> \E i \in Place : i < dentry_count' /\ i # k /\ DentryAt(i) = d
      BY <1>3, <1>4, <1>5, <1>7 DEF Has, DentryAt, Place
    <2>2. Has(d) <=> \E i \in Place : i < dentry_count /\ DentryAt(i) = d
      BY <1>4 DEF Has
    <2>3. QED
      BY <1>9, <2>1, <2>2
  <1>11. FilesSound'
    <2>1. ASSUME NEW q \in Pid, NEW fd \in Fd, files'[q][fd].present, files'[q][fd].sure
          PROVE  Has([name |-> files[q][fd].name, type |-> files[q][fd].type,
                      inode |-> files[q][fd].inode])'
      <3>1. Has([name |-> files[q][fd].name, type |-> files[q][fd].type,
                 inode |-> files[q][fd].inode])
        BY <1>5, <1>6, <2>1 DEF Sound, FilesSound
      <3>2. QED
        BY <1>5, <1>10, <3>1 DEF Has, DentryAt
    <2>2. QED
      BY <1>5, <2>1 DEF FilesSound
  <1>12. TableSound'
    <2>1. Created(p)' = Created(p)
      BY <1>2 DEF Created, Are
    <2>2. (\A d \in Dentry : d \in expected <=>
           Has(d) \/ \E q \in Pid : call[q].pc \in Storing /\ call[q].op = "create" /\ Created(q) = d)'
      <3>1. \A d : (\E q \in Pid : call[q].pc \in Storing /\ call[q].op = "create" /\ Created(q) = d)'
                   <=> Created(p) = d
        BY <1>3, <1>4, <2>1
      <3>2. \A d \in Dentry : d \in expected' <=> d \in expected \/ Created(p) = d
        BY <1>5
      <3>3. QED
        BY <1>4, <1>10, <3>1, <3>2 DEF Dentry
    <2>3. (\A i, j \in Place : i < dentry_count /\ j < dentry_count /\ Whole(i) /\ Whole(j)
                           /\ file_name[i] = file_name[j] => i = j)'
      BY <1>3, <1>4, <1>5, <1>7, <1>9 DEF Place
    <2>4. (\A i \in Place : i >= dentry_count => file_name[i] = NoName)'
      <3>1. \A i \in Place : i >= dentry_count => file_name[i] = NoName
        BY <1>6 DEF Sound, TableSound
      <3>2. QED
        BY <1>5, <1>7, <3>1 DEF Place
    <2>5. QED
      BY <2>2, <2>3, <2>4 DEF TableSound
  <1>13. ASSUME NEW q \in Pid, (call[q].pc \in Storing)'
         PROVE  StoreSound(q)'
    <2>1. q = p
      BY <1>4, <1>13
    <2>2. \A i \in Place : i < dentry_count' /\ i # k => file_name[i] # call[p].name
      BY <1>8, <1>9
    <2>3. StoreSound(p)'
      BY <1>3, <1>5, <1>7, <1>8, <2>2 DEF StoreSound, At, Place
    <2>4. QED
      BY <2>1, <2>3
  <1>14. ASSUME NEW q \in Pid \ tainted'
         PROVE  CallSound(q)'
    <2>1. CASE q = p
      BY <1>3, <2>1 DEF CallSound, At
    <2>2. CASE q # p /\ call[q].op = "none"
      <3>1. call'[q].pc = "idle"
        BY <1>2, <2>2 DEF CallStep, DirectoryInv, InBounds
      <3>2. QED
        BY <3>1 DEF CallSound, At
    <2>3. CASE q # p /\ call[q].op # "none"
      <3>1. CallSound(q) /\ call'[q] = call[q] /\ q \in Pid \ tainted /\ p \in Pid \ {q}
        BY <1>2, <1>5, <1>6, <2>3 DEF Sound, CallStep
      <3>2. call[q].op = "open"
        BY <1>2, <2>3, <3>1, NotMisled DEF DirectoryInv
      <3>3. call[q].pc \in {"again", "install"} => Has(Created(q))'
        <4>1. Created(q)' = Created(q)
          BY <3>1 DEF Created
        <4>2. call[q].pc \in {"again", "install"} => Has(Created(q))
          BY <3>1 DEF CallSound
        <4>3. QED
          BY <1>10, <4>1, <4>2 DEF Has, DentryAt
      <3>4. call[q].pc \notin {"load", "count", "users", "bits"}
        BY <3>2 DEF DirectoryInv, InBounds
      <3>5. call[q].pc \in {"copy type", "copy inode"} =>
                call[q].at < dentry_count' /\ call[q].at # k
        <4>1. ASSUME call[q].pc \in {"copy type", "copy inode"}
              PROVE  call[q].at < dentry_count /\ call[q].at \in Place
          BY <3>1, <4>1 DEF CallSound, DirectoryInv, InBounds
        <4>2. QED
          BY <1>9, <4>1
      <3>6. Whole(call[q].at)' <=> call[q].at # k
        BY <1>3, <1>4, <1>7, <3>1 DEF Whole
      <3>7. QED
        BY <1>5, <3>1, <3>3, <3>4, <3>5, <3>6 DEF CallSound, At, Place
    <2>4. QED
      BY <2>1, <2>2, <2>3
  <1>15. QED
    BY <1>4, <1>11, <1>12, <1>13, <1>14 DEF Sound

\* delete() begins to store over the dentry it has found, of which nobody has a
\* descriptor.
LEMMA MovesPreserves ==
    ASSUME DirectoryInv, ~mixed', NEW p \in Pid, Moves(p)
    PROVE  Sound'
  <1>1. p \notin tainted /\ ~mixed
    BY CommitsAlone DEF Moves
  <1>2. /\ CallStep(p) /\ Are(call'[p], call[p], FirstMove(p), call[p].at, call[p].type,
                              call[p].inode, dentry_count, call[p].left)
        /\ call[p].pc = "bits" /\ call[p].op = "delete" /\ FirstMove(p) \in {"last", "name"}
    BY MovesStep DEF DirectoryInv, Moves, At, InBounds, FirstMove
  <1>3. /\ call[p].pc \notin Storing /\ call'[p].pc \in Storing /\ call'[p].pc = FirstMove(p)
        /\ call'[p].op = "delete" /\ call'[p].at = call[p].at /\ call'[p].n = dentry_count
    BY <1>2 DEF Storing, Are
  <1>4. /\ \A q \in Pid : call[q].pc \notin Storing
        /\ \A i : Whole(i)
        /\ \A q \in Pid : (call[q].pc \in Storing)' <=> q = p
        /\ \A i : Whole(i)' <=> i # call'[p].at
        /\ OneStores'
        /\ \A d \in Dentry : d \in expected <=> Has(d)
        /\ \A i, j \in Place : i < dentry_count /\ j < dentry_count
                               /\ file_name[i] = file_name[j] => i = j
    BY <1>1, <1>2, <1>3, BeginsAlone
  <1>5. /\ UNCHANGED <<file_name, file_type, inode_num, dentry_count, files, tainted>>
        /\ expected' = {d \in expected : d.name # call[p].name}
    BY DEF Moves, Commit, table
  <1>6. Sound /\ CallSound(p) /\ call[p].at < dentry_count
    BY <1>1 DEF DirectoryInv, Sound, Moves
  <1>7. PICK k \in Place : k = call[p].at /\ k < dentry_count
    <2>1. call[p].at \in Nat /\ dentry_count \in 0 .. MaxDentries
      BY CallTyped DEF DirectoryInv, CallType
    <2>2. QED
      BY <1>6, <2>1, Constants DEF Place
  <1>8. /\ file_name[k] = call[p].name /\ inode_num[k] = call[p].inode
        /\ \A q \in Pid : ~Uses(q, call[p].inode)
    BY <1>2, <1>6, <1>7 DEF CallSound, At
  <1>9. \A d : Has(d) <=> \E i \in Place : i < dentry_count /\ DentryAt(i) = d
    BY <1>4 DEF Has
  <1>10. \A d : Has(d)' <=> \E i \in Place : i < dentry_count /\ i # k /\ DentryAt(i) = d
    BY <1>3, <1>4, <1>5, <1>7 DEF Has, DentryAt, Place
  <1>11. \A d : Has(d)' <=> Has(d) /\ d.name # call[p].name
    <2>1. ASSUME NEW i \in Place, i < dentry_count
          PROVE  DentryAt(i).name # call[p].name <=> i # k
      BY <1>4, <1>7, <1>8, <2>1 DEF DentryAt
    <2>2. QED
      BY <1>9, <1>10, <2>1
  <1>12. FilesSound'
    <2>1. ASSUME NEW q \in Pid, NEW fd \in Fd, files'[q][fd].present, files'[q][fd].sure
          PROVE  Has([name |-> files[q][fd].name, type |-> files[q][fd].type,
                      inode |-> files[q][fd].inode])'
      <3> DEFINE d == [name |-> files[q][fd].name, type |-> files[q][fd].type,
                       inode |-> files[q][fd].inode]
      <3>1. Has(d)
        BY <1>5, <1>6, <2>1 DEF Sound, FilesSound
      <3>2. PICK i \in Place : i < dentry_count /\ DentryAt(i) = d
        BY <1>9, <3>1
      <3>3. files[q][fd].inode # call[p].inode
        BY <1>5, <1>8, <2>1 DEF Uses
      <3>4. inode_num[i] = files[q][fd].inode
        BY <3>2 DEF DentryAt
      <3>5. i # k
        BY <1>8, <3>3, <3>4
      <3>6. DentryAt(i)' = [name |-> files[q][fd].name, type |-> files[q][fd].type,
                            inode |-> files[q][fd].inode]'
        BY <1>5, <3>2 DEF DentryAt
      <3>7. Whole(i)'
        BY <1>3, <1>4, <1>7, <3>5
      <3>8. QED
        BY <1>5, <3>2, <3>6, <3>7 DEF Has, Place
    <2>2. QED
      BY <1>5, <2>1 DEF FilesSound
  <1>13. TableSound'
    <2>1. (\A d \in Dentry : d \in expected <=>
           Has(d) \/ \E q \in Pid : call[q].pc \in Storing /\ call[q].op = "create" /\ Created(q) = d)'
      <3>1. \A d : ~(\E q \in Pid : call[q].pc \in Storing /\ call[q].op = "create" /\ Created(q) = d)'
        BY <1>3, <1>4
      <3>2. \A d \in Dentry : d \in expected' <=> d \in expected /\ d.name # call[p].name
        BY <1>5
      <3>3. QED
        BY <1>4, <1>11, <3>1, <3>2 DEF Dentry
    <2>2. (\A i, j \in Place : i < dentry_count /\ j < dentry_count /\ Whole(i) /\ Whole(j)
                           /\ file_name[i] = file_name[j] => i = j)'
      BY <1>4, <1>5 DEF Place
    <2>3. (\A i \in Place : i >= dentry_count => file_name[i] = NoName)'
      BY <1>5, <1>6 DEF Sound, TableSound, Place
    <2>4. QED
      BY <2>1, <2>2, <2>3 DEF TableSound
  <1>14. ASSUME NEW q \in Pid, (call[q].pc \in Storing)'
         PROVE  StoreSound(q)'
    <2>1. q = p
      BY <1>4, <1>14
    <2>2. /\ call'[p].pc = "last" => k + 1 = dentry_count
          /\ call'[p].pc \in {"last", "name"}
      BY <1>2, <1>3, <1>7 DEF FirstMove
    <2>3. StoreSound(p)'
      BY <1>3, <1>5, <1>7, <2>2 DEF StoreSound, At
    <2>4. QED
      BY <2>1, <2>3
  <1>15. ASSUME NEW q \in Pid \ tainted'
         PROVE  CallSound(q)'
    <2>1. CASE q = p
      BY <1>3, <2>1 DEF CallSound, At, Storing
    <2>2. CASE q # p
      <3>1. call[q].op = "none"
        BY <1>1, <1>2, <2>2, NotMisled DEF DirectoryInv
      <3>2. call'[q].pc = "idle"
        BY <1>2, <2>2, <3>1 DEF CallStep, DirectoryInv, InBounds
      <3>3. QED
        BY <3>2 DEF CallSound, At
    <2>3. QED
      BY <2>1, <2>2
  <1>16. QED
    BY <1>4, <1>12, <1>13, <1>14, <1>15 DEF Sound

-----------------------------------------------------------------------------
(* The theorems.                                                            *)

LEMMA InitInv == Init => DirectoryInv
  <1> SUFFICES ASSUME Init PROVE DirectoryInv
    OBVIOUS
  <1>1. /\ Image \in Seq([name : Names, type : Types, inode : Inode]) /\ Len(Image) \in Nat
        /\ Len(Image) <= MaxDentries /\ MaxDentries \in Nat /\ DOMAIN Image = 1 .. Len(Image)
        /\ \A i \in 1 .. Len(Image) : Image[i] \in [name : Names, type : Types, inode : Inode]
        /\ \A i, j \in DOMAIN Image : Image[i].name = Image[j].name => i = j
    <2>1. /\ Image \in Seq([name : Names, type : Types, inode : Inode])
          /\ Len(Image) <= MaxDentries /\ MaxDentries \in Nat
          /\ \A i, j \in DOMAIN Image : Image[i].name = Image[j].name => i = j
      BY DirectoryAssumption, Zenon
    <2>2. ASSUME NEW S, NEW s \in Seq(S)
          PROVE  /\ Len(s) \in Nat /\ DOMAIN s = 1 .. Len(s)
                 /\ \A i \in 1 .. Len(s) : s[i] \in S
      OBVIOUS
    <2>3. QED
      BY <2>1, <2>2
  <1>2. Blank \in Dentry
    BY Constants DEF Blank, Dentry, Types
  <1>3. ASSUME NEW i \in Place
        PROVE  ImageAt(i) \in Dentry /\ (i >= Len(Image) => ImageAt(i).name = NoName)
    <2>1. CASE i < Len(Image)
      <3>1. i + 1 \in 1 .. Len(Image)
        BY <1>1, <2>1 DEF Place
      <3>2. Image[i + 1] \in Dentry
        BY <1>1, <3>1 DEF Dentry
      <3>3. QED
        BY <1>1, <2>1, <3>2 DEF ImageAt, Place
    <2>2. CASE ~(i < Len(Image))
      BY <1>2, <2>2 DEF ImageAt, Blank
    <2>3. QED
      BY <2>1, <2>2
  <1>4. \A i \in Place : ImageAt(i).name \in Names \cup {NoName} /\ ImageAt(i).type \in Types
                         /\ ImageAt(i).inode \in Inode
    BY <1>3 DEF Dentry
  <1>5. /\ file_name = [i \in Place |-> ImageAt(i).name]
        /\ file_type = [i \in Place |-> ImageAt(i).type]
        /\ inode_num = [i \in Place |-> ImageAt(i).inode]
        /\ dentry_count = Len(Image)
        /\ call = [p \in Pid |-> Idle] /\ files = [p \in Pid |-> [fd \in Fd |-> Closed]]
        /\ expected = Dentries /\ tainted = {} /\ mixed = FALSE
        /\ data_block_bitmap = InUse /\ InUse \subseteq Nat
    BY DirectoryAssumption DEF Init
  <1>6. \A p \in Pid : call[p] = Idle /\ call[p].pc = "idle" /\ call[p].op = "none"
    BY <1>5 DEF Idle
  <1>7. /\ file_name \in [Place -> Names \cup {NoName}] /\ file_type \in [Place -> Types]
        /\ inode_num \in [Place -> Inode]
    BY <1>4, <1>5
  <1>8. \A i \in Place : DentryAt(i) \in Dentry
    BY <1>7 DEF DentryAt, Dentry
  <1>9. expected \subseteq Dentry
    BY <1>5, <1>8 DEF Dentries
  <1>10. \A p \in Pid, fd \in Fd : files[p][fd] = Closed /\ ~files[p][fd].present
    BY <1>5 DEF Closed
  <1>11. files \in [Pid -> [Fd -> [present : BOOLEAN, inode : Inode, type : Types,
                                   name : Names \cup {NoName}, sure : BOOLEAN]]]
    <2>1. Closed \in [present : BOOLEAN, inode : Inode, type : Types,
                      name : Names \cup {NoName}, sure : BOOLEAN]
      BY Constants DEF Closed, Types
    <2>2. QED
      BY <1>5, <2>1
  <1>12. TypeOK
    <2>1. call \in [Pid -> CallType]
      BY <1>5, Constants
    <2>2. dentry_count \in 0 .. MaxDentries
      BY <1>1, <1>5
    <2>3. QED
      BY <1>5, <1>7, <1>9, <1>11, <2>1, <2>2 DEF TypeOK, CallType
  <1>13. \A p \in Pid : InBounds(call[p])
    BY <1>6, Constants
  <1>14. OverlapsRecorded
    BY <1>6 DEF OverlapsRecorded
  <1>15. \A p \in Pid : call[p].pc \notin Storing /\ CallSound(p)
    BY <1>6 DEF Storing, CallSound, At
  <1>16. OneStores /\ FilesSound
    BY <1>10, <1>15 DEF OneStores, FilesSound
  <1>17. TableSound
    <2>1. \A i : Whole(i)
      BY <1>15 DEF Whole
    <2>2. \A d : d \in expected <=> Has(d)
      BY <1>5, <2>1 DEF Dentries, Has
    <2>3. ASSUME NEW i \in Place, NEW j \in Place, i < dentry_count, j < dentry_count,
                 file_name[i] = file_name[j]
          PROVE  i = j
      <3>1. i + 1 \in DOMAIN Image /\ j + 1 \in DOMAIN Image
        BY <1>1, <1>5, <2>3 DEF Place
      <3>2. Image[i + 1].name = Image[j + 1].name
        BY <1>5, <2>3 DEF ImageAt
      <3>3. i + 1 = j + 1
        BY <1>1, <3>1, <3>2
      <3>4. QED
        BY <1>1, <3>1, <3>3 DEF Place
    <2>4. \A i \in Place : i >= dentry_count => file_name[i] = NoName
      BY <1>3, <1>5
    <2>5. QED
      BY <1>15, <2>2, <2>3, <2>4 DEF TableSound
  <1>18. QED
    BY <1>12, <1>13, <1>14, <1>15, <1>16, <1>17 DEF DirectoryInv, Sound

LEMMA StutterInv == DirectoryInv /\ UNCHANGED vars => DirectoryInv'
  <1> SUFFICES ASSUME DirectoryInv, UNCHANGED vars PROVE DirectoryInv'
    OBVIOUS
  <1>1. UNCHANGED <<file_name, file_type, inode_num, dentry_count, data_block_bitmap, files, call,
                    expected, tainted, mixed>>
    BY DEF vars, table
  <1>2. /\ TypeOK' /\ OverlapsRecorded' /\ (\A p \in Pid : InBounds(call[p]))'
    BY <1>1 DEF DirectoryInv, TypeOK, OverlapsRecorded, Misled, Misleads, InBounds
  <1>3. \A i : Whole(i)' <=> Whole(i)
    BY <1>1 DEF Whole
  <1>4. \A d : Has(d)' <=> Has(d)
    BY <1>1, <1>3 DEF Has, DentryAt
  <1>5. ASSUME Sound PROVE Sound'
    <2>1. OneStores'
      BY <1>1, <1>5 DEF Sound, OneStores
    <2>2. TableSound'
      BY <1>1, <1>3, <1>4, <1>5 DEF Sound, TableSound, Created
    <2>3. ASSUME NEW q \in Pid, NEW fd \in Fd, files'[q][fd].present, files'[q][fd].sure
          PROVE  Has([name |-> files[q][fd].name, type |-> files[q][fd].type,
                      inode |-> files[q][fd].inode])'
      <3>1. Has([name |-> files[q][fd].name, type |-> files[q][fd].type,
                 inode |-> files[q][fd].inode])
        BY <1>1, <1>5, <2>3 DEF Sound, FilesSound
      <3>2. QED
        BY <1>1, <1>4, <3>1 DEF Has, DentryAt
    <2>4. FilesSound'
      BY <2>3 DEF FilesSound
    <2>5. ASSUME NEW q \in Pid, StoreSound(q) PROVE StoreSound(q)'
      BY <1>1, <2>5 DEF StoreSound, StoredName, StoredType, LastPlace, At
    <2>6. ASSUME NEW q \in Pid, CallSound(q) PROVE CallSound(q)'
      <3>1. Whole(call[q].at)' <=> Whole(call[q].at)
        BY <1>1 DEF Whole
      <3>2. Has(Created(q))' <=> Has(Created(q))
        BY <1>1 DEF Has, Created, DentryAt, Whole
      <3>3. QED
        BY <1>1, <2>6, <3>1, <3>2 DEF CallSound, At, Uses
    <2>7. QED
      BY <1>1, <1>5, <2>1, <2>2, <2>4, <2>5, <2>6 DEF Sound
  <1>6. QED
    BY <1>1, <1>2, <1>5 DEF DirectoryInv

\* Every step of one process preserves what holds until the directory is mixed.
LEMMA StepSound ==
    ASSUME DirectoryInv, ~mixed', NEW p \in Pid,
           \/ Lookup(p) \/ Store(p) \/ create(p) \/ delete(p) \/ Install(p) \/ halt(p)
           \/ \E fd \in Fd : close(p, fd)
    PROVE  Sound'
  <1>1. ~mixed
    <2>1. CASE halt(p)
      BY <2>1 DEF halt
    <2>2. CASE CreateCounts(p) \/ Moves(p)
      BY <2>2, CommitsAlone DEF CreateCounts, Moves
    <2>3. CASE Lookup(p)
      BY <2>3 DEF Lookup, Compare, Match, CopyType, CopyInode, LookupFails
    <2>4. CASE Store(p)
      BY <2>4 DEF Store, StoreName, StoreType, StoreInode
    <2>5. CASE create(p) /\ ~CreateCounts(p)
      BY <2>5 DEF create, CreateChooses, CreateLoads
    <2>6. CASE delete(p) /\ ~Moves(p)
      BY <2>6 DEF delete, LooksAt, Unused, ClearBit, ClearsLast, Lowers, DeleteEnds
    <2>7. CASE Install(p) \/ \E fd \in Fd : close(p, fd)
      BY <2>7 DEF Install, close
    <2>8. QED
      BY <2>1, <2>2, <2>3, <2>4, <2>5, <2>6, <2>7
  <1>2. CASE Lookup(p)
    BY <1>1, <1>2, ComparePreserves, MatchPreserves, CopyTypePreserves, CopyInodePreserves,
       LookupFailsPreserves DEF Lookup
  <1>3. CASE Store(p)
    BY <1>1, <1>3, StoreNamePreserves, StoreTypePreserves, StoredPreserves, ClearedPreserves,
       MovedPreserves DEF Store, StoreInode
  <1>4. CASE create(p)
    BY <1>1, <1>4, CreateChoosesPreserves, CreateLoadsPreserves, CreateCountsPreserves DEF create
  <1>5. CASE delete(p)
    BY <1>1, <1>5, LooksAtPreserves, BitsPreserves, MovesPreserves, ClearsLastPreserves,
       LowersPreserves, DeleteEndsPreserves DEF delete
  <1>6. CASE Install(p) \/ halt(p) \/ \E fd \in Fd : close(p, fd)
    BY <1>1, <1>6, InstallPreserves, HaltPreserves, ClosePreserves
  <1>7. QED
    BY <1>2, <1>3, <1>4, <1>5, <1>6

LEMMA NextInv == DirectoryInv /\ Next => DirectoryInv'
  <1> SUFFICES ASSUME DirectoryInv, Next PROVE DirectoryInv'
    OBVIOUS
  <1>1. TypeOK /\ OverlapsRecorded /\ \A p \in Pid : InBounds(call[p])
    BY DEF DirectoryInv
  <1>2. PICK p \in Pid :
            \/ \E op \in {"open", "create", "delete"}, name \in Names : Calls(p, op, name)
            \/ Lookup(p) \/ Store(p) \/ create(p) \/ delete(p) \/ Install(p) \/ halt(p)
            \/ \E fd \in Fd : close(p, fd)
    BY DEF Next
  <1>3. ASSUME NEW op \in {"open", "create", "delete"}, NEW name \in Names, Calls(p, op, name)
        PROVE  CallStep(p) /\ OverlapsRecorded' /\ (~mixed' => Sound')
    <2>1. CallStep(p)
      BY <1>1, <1>3, CallsStep
    <2>2. OverlapsRecorded'
      BY <1>1, <1>3, OverlapsBegin
    <2>3. ~mixed' => ~mixed
      BY <1>3 DEF Calls
    <2>4. ~mixed => Sound'
      BY <1>3, CallsPreserves
    <2>5. QED
      BY <2>1, <2>2, <2>3, <2>4
  <1>4. ASSUME \/ Lookup(p) \/ Store(p) \/ create(p) \/ delete(p) \/ Install(p) \/ halt(p)
               \/ \E fd \in Fd : close(p, fd)
        PROVE  CallStep(p) /\ OverlapsRecorded' /\ (~mixed' => Sound')
    <2>1. CallStep(p) /\ (GoesOn(p) \/ Ends(p))
      BY <1>1, <1>4, NextStep
    <2>2. OverlapsRecorded'
      BY <1>1, <2>1, OverlapsKept
    <2>3. ~mixed' => Sound'
      BY <1>4, StepSound
    <2>4. QED
      BY <2>1, <2>2, <2>3
  <1>5. CallStep(p) /\ OverlapsRecorded' /\ (~mixed' => Sound')
    BY <1>2, <1>3, <1>4
  <1>6. TypeOK'
    BY <1>1, <1>2, <1>5, TypesKept
  <1>7. (\A q \in Pid : InBounds(call[q]))'
    BY <1>1, <1>5, BoundsKept
  <1>8. QED
    BY <1>5, <1>6, <1>7 DEF DirectoryInv

\* The inductive invariant holds in every state.
THEOREM DirectoryInvariant == Spec => []DirectoryInv
  <1>1. DirectoryInv /\ [Next]_vars => DirectoryInv'
    BY NextInv, StutterInv
  <1>2. QED
    BY InitInv, <1>1, PTL DEF Spec

\* read_dentry_by_name() finds the file a program means: no two dentries have one name.
THEOREM NamesStayUnique == Spec => []NamesUnique
  <1>1. DirectoryInv => NamesUnique
    BY DEF DirectoryInv, Sound, TableSound, Whole, Quiet, NamesUnique
  <1>2. QED
    BY <1>1, DirectoryInvariant, PTL

\* The directory holds the dentries that the completed create()s and delete()s ask for,
\* although these store and move them field by field.
THEOREM DirectoryStaysAsAsked == Spec => []DirectoryAsAsked
  <1>1. ASSUME DirectoryInv, ~mixed, Quiet
        PROVE  Dentries = expected
    <2>1. TypeOK /\ TableSound
      BY <1>1 DEF DirectoryInv, Sound
    <2>2. \A d : Has(d) <=> d \in Dentries
      BY <1>1 DEF Quiet, Has, Whole, Dentries
    <2>3. \A d \in Dentry : d \in expected <=> Has(d)
      BY <1>1, <2>1 DEF Quiet, TableSound
    <2>4. \A d \in Dentries : d \in Dentry
      BY <2>1 DEF Dentries, DentryAt, Dentry, TypeOK
    <2>5. expected \subseteq Dentry
      BY <2>1 DEF TypeOK
    <2>6. QED
      BY <2>2, <2>3, <2>4, <2>5
  <1>2. DirectoryInv => DirectoryAsAsked
    BY <1>1 DEF DirectoryAsAsked
  <1>3. QED
    BY <1>2, DirectoryInvariant, PTL

\* delete() never takes a file from under a process that has it open.
THEOREM OpenFilesStayNamed == Spec => []OpenFilesNamed
  <1>1. DirectoryInv => OpenFilesNamed
    BY DEF DirectoryInv, Sound, FilesSound, Has, OpenFilesNamed
  <1>2. QED
    BY <1>1, DirectoryInvariant, PTL

\* A lookup that no delete() overlaps fails only for a name that is not there.
THEOREM LookupsStayComplete == Spec => []LookupsComplete
  <1>1. ASSUME DirectoryInv, ~mixed, NEW p \in Pid \ tainted, At(p, "scan") \/ At(p, "again"),
               ~MoreDentries(p), NEW d \in expected
        PROVE  d.name # call[p].name
    <2>1. TypeOK /\ Sound /\ CallSound(p)
      BY <1>1 DEF DirectoryInv, Sound
    <2>2. d \in Dentry
      BY <2>1 DEF TypeOK
    <2>3. CASE Has(d)
      <3>1. PICK i \in Place : i < dentry_count /\ DentryAt(i) = d
        BY <2>3 DEF Has
      <3>2. i < call[p].at
        <4>1. ~(call[p].at < dentry_count) /\ dentry_count \in 0 .. MaxDentries /\ call[p].at \in Nat
          BY <1>1, <2>1, CallTyped DEF MoreDentries, CallType
        <4>2. QED
          BY <3>1, <4>1, Constants DEF Place
      <3>3. file_name[i] # call[p].name
        BY <1>1, <2>1, <3>2 DEF CallSound
      <3>4. QED
        BY <3>1, <3>3 DEF DentryAt
    <2>4. CASE ~Has(d)
      <3>1. PICK q \in Pid : call[q].pc \in Storing /\ call[q].op = "create" /\ Created(q) = d
        BY <2>1, <2>2, <2>4 DEF Sound, TableSound
      <3>2. q # p /\ call[p].op # "none"
        BY <1>1, <3>1 DEF At, Storing, DirectoryInv, InBounds
      <3>3. call[q].name # call[p].name
        BY <1>1, <3>1, <3>2, OthersStoring
      <3>4. QED
        BY <3>1, <3>3 DEF Created
    <2>5. QED
      BY <2>3, <2>4
  <1>2. DirectoryInv => LookupsComplete
    BY <1>1 DEF LookupsComplete
  <1>3. QED
    BY <1>2, DirectoryInvariant, PTL
-----------------------------------------------------------------------------
(* Listing, on one directory, for any number of readers, names and          *)
(* dentries.                                                                *)

CONSTANTS Readers, MaxPos
VARIABLES names, count, change, place, name, pos, pc, got, next, missing, overlapping, excuses

L == INSTANCE Listing

Copied == Names \cup {L!NoName, L!Torn}

\* The names in the directory from place q on.
Ahead(q) == {names[i] : i \in {j \in L!Place : q <= j /\ j < count}}

\* The names that a listing would miss that goes on at q, having returned n.
Skipped(q, n) == missing \ (Ahead(q) \cup {n})

\* A deletion that is to move one more name from q on to before q.
Twice(q) ==
    IF \/ change = "move" /\ (place < q \/ (place = q /\ names[place] # name))
       \/ change \in {"torn", "count"} /\ place < q
    THEN 1 ELSE 0

\* The calls that may pass over a name that they have not copied.
Astray == {r \in overlapping : pc[r] \in {"copy", "load"}}

\* What a listing that goes on at q, having returned n, may come to miss ...
Cost(q, n) == Cardinality(Skipped(q, n)) + Twice(q) + Cardinality(Astray)

\* ... is excused.
Excused(q, n) == excuses = Cardinality(Names) \/ Cost(q, n) <= excuses

\* It goes on at the position, or where a call that is about to store it will.
ListsFrom(q, n) ==
    \/ q = pos /\ n = L!NoName
    \/ \E r \in Readers : pc[r] = "store" /\ q = next[r] /\ n = got[r]

\* Behind the last dentry is no name; the one that create() or delete() stores is torn
\* in between, and delete() has stored it before, at the place in front.
NamesSound ==
    /\ \A i \in L!Place : i >= count => names[i] = L!NoName
    /\ change # "none" => place < count
    /\ change \in {"append", "count"} => names[place] = L!NoName
    /\ change \in {"name", "torn"} => names[place] = L!Torn
    /\ change = "move" => names[place] = name \/ (place > 0 /\ names[place] = names[place - 1])
    /\ change = "count" => place = count - 1

\* A call that overlaps none: what it has copied is still at the position, if missing.
Alone(r) ==
    /\ L!Busy = {r} /\ ~L!Deleting
    /\ pc[r] = "load" /\ pos \in L!Place /\ names[pos] \in missing => got[r] = names[pos]

\* The inductive invariant: wherever a listing goes on, what it may come to miss is
\* excused.
ListingInv ==
    /\ L!TypeOK
    /\ NamesSound
    /\ missing \subseteq L!InDirectory \ {name}
    /\ overlapping \subseteq L!Busy
    /\ \A r \in L!Busy \ overlapping : Alone(r)
    /\ \A q \in Nat, n \in Copied : ListsFrom(q, n) => Excused(q, n)

\* The instance counts as this module does.
LEMMA ListingCounts ==
    /\ \A S : L!Cardinality(S) = Cardinality(S)
    /\ \A S : L!IsFiniteSet(S) <=> IsFiniteSet(S)
    /\ \A n : L!Capped(n) = IF n < Cardinality(Names) THEN n ELSE Cardinality(Names)
  <1>1. ASSUME NEW S PROVE L!Cardinality(S) = Cardinality(S)
    BY DEF L!Cardinality, Cardinality
  <1>2. ASSUME NEW S PROVE L!IsFiniteSet(S) <=> IsFiniteSet(S)
    BY DEF L!IsFiniteSet, IsFiniteSet
  <1>3. QED
    BY <1>1, <1>2, Zenon DEF L!Capped

\* What is assumed of the constants, and the types, in this module's terms.
LEMMA ListingTypes ==
    ASSUME L!ListingAssumption, L!TypeOK
    PROVE  /\ IsFiniteSet(Readers) /\ IsFiniteSet(Names) /\ Cardinality(Names) \in Nat
           /\ L!NoName \notin Names /\ L!Torn \notin Names
           /\ MaxDentries \in Nat /\ MaxPos \in Nat
           /\ names \in [L!Place -> Copied] /\ count \in 0 .. MaxDentries
           /\ change \in L!Changes /\ place \in Nat /\ name \in Names \cup {L!NoName}
           /\ pos \in Nat
           /\ pc \in [Readers -> L!Locations] /\ got \in [Readers -> Copied]
           /\ next \in [Readers -> Nat]
           /\ missing \subseteq Names /\ overlapping \subseteq Readers
           /\ excuses \in Nat /\ excuses <= Cardinality(Names)
  <1>1. /\ IsFiniteSet(Readers) /\ IsFiniteSet(Names)
        /\ L!NoName \notin Names /\ L!Torn \notin Names
        /\ MaxDentries \in Nat /\ MaxPos \in Nat
    BY ListingCounts DEF L!ListingAssumption
  <1>2. Cardinality(Names) \in Nat /\ L!Cardinality(Names) = Cardinality(Names)
    BY <1>1, FS_CardinalityType, ListingCounts
  <1>3. QED
    BY <1>1, <1>2 DEF L!TypeOK, Copied

\* The costs are numbers, and do not grow with sets that do not.
LEMMA CostTyped ==
    ASSUME L!ListingAssumption, L!TypeOK, NEW q \in Nat, NEW n
    PROVE  /\ IsFiniteSet(Skipped(q, n)) /\ Cardinality(Skipped(q, n)) \in Nat
           /\ IsFiniteSet(Astray) /\ Cardinality(Astray) \in Nat
           /\ Twice(q) \in {0, 1} /\ Cost(q, n) \in Nat
  <1>1. Skipped(q, n) \subseteq Names /\ Astray \subseteq Readers
    BY ListingTypes DEF Skipped, Astray
  <1>2. /\ IsFiniteSet(Skipped(q, n)) /\ Cardinality(Skipped(q, n)) \in Nat
        /\ IsFiniteSet(Astray) /\ Cardinality(Astray) \in Nat
    BY <1>1, ListingTypes, FS_Subset, FS_CardinalityType
  <1>3. Twice(q) \in {0, 1}
    BY DEF Twice
  <1>4. QED
    BY <1>2, <1>3 DEF Cost

LEMMA CostStays ==
    ASSUME L!ListingAssumption, L!TypeOK, L!TypeOK',
           NEW q \in Nat, NEW n, NEW q2 \in Nat, NEW n2,
           Skipped(q, n)' \subseteq Skipped(q2, n2), Twice(q)' <= Twice(q2), Astray' \subseteq Astray
    PROVE  Cost(q, n)' <= Cost(q2, n2)
  <1>1. Cardinality(Skipped(q, n)') <= Cardinality(Skipped(q2, n2))
    BY CostTyped, FS_Subset
  <1>2. Cardinality(Astray') <= Cardinality(Astray)
    BY CostTyped, FS_Subset
  <1>3. /\ Cardinality(Skipped(q, n)') \in Nat /\ Cardinality(Astray') \in Nat /\ Twice(q)' \in {0, 1}
    <2>1. Skipped(q, n)' \subseteq Skipped(q2, n2) /\ Astray' \subseteq Astray
      OBVIOUS
    <2>2. IsFiniteSet(Skipped(q, n)') /\ IsFiniteSet(Astray')
      BY <2>1, CostTyped, FS_Subset
    <2>3. QED
      BY <2>2, FS_CardinalityType DEF Twice
  <1>4. QED
    BY <1>1, <1>2, <1>3, CostTyped DEF Cost

\* Excuses that grow with the costs are enough.
LEMMA ExcusedKept ==
    ASSUME L!ListingAssumption, ListingInv, L!TypeOK', NEW more \in Nat,
           excuses' = L!Capped(excuses + more),
           \A q \in Nat, n \in Copied :
               ListsFrom(q, n)' => \E q2 \in Nat, n2 \in Copied :
                   ListsFrom(q2, n2) /\ Cost(q, n)' \in Nat /\ Cost(q, n)' <= Cost(q2, n2) + more
    PROVE  (\A q \in Nat, n \in Copied : ListsFrom(q, n) => Excused(q, n))'
  <1> SUFFICES ASSUME NEW q \in Nat, NEW n \in Copied, ListsFrom(q, n)'
               PROVE  Excused(q, n)'
    BY DEF Copied, L!Torn, L!NoName
  <1>1. PICK q2 \in Nat, n2 \in Copied :
            ListsFrom(q2, n2) /\ Cost(q, n)' \in Nat /\ Cost(q, n)' <= Cost(q2, n2) + more
    OBVIOUS
  <1>2. Excused(q2, n2) /\ L!TypeOK
    BY <1>1 DEF ListingInv
  <1>3. /\ Cost(q2, n2) \in Nat /\ excuses \in Nat /\ excuses <= Cardinality(Names)
        /\ Cardinality(Names) \in Nat
    BY <1>2, CostTyped, ListingTypes
  <1>4. excuses' = IF excuses + more < Cardinality(Names) THEN excuses + more ELSE Cardinality(Names)
    BY <1>3, ListingCounts
  <1>5. excuses' = Cardinality(Names) \/ Cost(q, n)' <= excuses'
    BY <1>1, <1>2, <1>3, <1>4 DEF Excused
  <1>6. QED
    BY <1>5 DEF Excused

\* With M more members at most, a set has so many more at most.
LEMMA UnionBounded ==
    ASSUME NEW A, NEW M, NEW B, IsFiniteSet(A), IsFiniteSet(M), B \subseteq A \cup M
    PROVE  Cardinality(B) \in Nat /\ Cardinality(B) <= Cardinality(A) + Cardinality(M)
  <1>1. /\ IsFiniteSet(A \cup M)
        /\ Cardinality(A \cup M) = Cardinality(A) + Cardinality(M) - Cardinality(A \cap M)
    BY FS_Union
  <1>2. IsFiniteSet(A \cap M) /\ IsFiniteSet(B) /\ Cardinality(B) <= Cardinality(A \cup M)
    BY <1>1, FS_Subset
  <1>3. /\ Cardinality(A) \in Nat /\ Cardinality(M) \in Nat /\ Cardinality(A \cap M) \in Nat
        /\ Cardinality(B) \in Nat /\ Cardinality(A \cup M) \in Nat
    BY <1>1, <1>2, FS_CardinalityType
  <1>4. QED
    BY <1>1, <1>2, <1>3

\* A step of create() or delete() that takes at most one name from where the listing
\* goes on, and no more than was to come.
LEMMA NamesStep ==
    ASSUME L!ListingAssumption, ListingInv,
           UNCHANGED <<pos, pc, got, next, missing, overlapping, excuses>>,
           L!TypeOK', NamesSound',
           missing \subseteq L!InDirectory' \ {name'},
           L!Deleting \/ (/\ ~L!Deleting'
                          /\ \A i \in L!Place : names'[i] = names[i] \/ names'[i] \notin missing),
           \A q \in Nat :
               \/ Twice(q)' <= Twice(q) /\ Ahead(q) \cap missing \subseteq Ahead(q)'
               \/ /\ Twice(q)' = 0 /\ Twice(q) = 1
                  /\ \E m : Ahead(q) \cap missing \subseteq Ahead(q)' \cup {m}
    PROVE  ListingInv'
  <1>1. /\ L!TypeOK /\ missing' = missing /\ overlapping' = overlapping /\ excuses' = excuses
        /\ pos' = pos /\ pc' = pc /\ got' = got /\ next' = next
    BY DEF ListingInv
  <1>2. (missing \subseteq L!InDirectory \ {name})'
    BY <1>1
  <1>3. (overlapping \subseteq L!Busy)'
    BY <1>1 DEF ListingInv, L!Busy
  <1>4. (\A r \in L!Busy \ overlapping : Alone(r))'
    <2> SUFFICES ASSUME NEW r \in L!Busy \ overlapping PROVE Alone(r)'
      BY <1>1 DEF L!Busy
    <2>1. Alone(r)
      BY DEF ListingInv
    <2>2. QED
      BY <1>1, <2>1 DEF Alone, L!Busy, L!Place
  <1>5. (\A q \in Nat, n \in Copied : ListsFrom(q, n) => Excused(q, n))'
    <2>1. excuses' = L!Capped(excuses + 0)
      BY <1>1, ListingTypes, ListingCounts
    <2>2. ASSUME NEW q \in Nat, NEW n \in Copied, ListsFrom(q, n)'
          PROVE  ListsFrom(q, n) /\ Cost(q, n)' \in Nat /\ Cost(q, n)' <= Cost(q, n) + 0
      <3>1. ListsFrom(q, n)
        BY <1>1, <2>2 DEF ListsFrom
      <3>2. Astray' = Astray
        BY <1>1 DEF Astray
      <3>3. /\ IsFiniteSet(Skipped(q, n)) /\ Cardinality(Skipped(q, n)) \in Nat
            /\ Cardinality(Astray) \in Nat /\ Twice(q) \in {0, 1}
        BY <1>1, CostTyped
      <3>4. CASE Twice(q)' <= Twice(q) /\ Ahead(q) \cap missing \subseteq Ahead(q)'
        <4>1. Skipped(q, n)' \subseteq Skipped(q, n)
          BY <1>1, <3>4 DEF Skipped
        <4>2. IsFiniteSet(Skipped(q, n)') /\ Cardinality(Skipped(q, n)') <= Cardinality(Skipped(q, n))
          BY <3>3, <4>1, FS_Subset
        <4>3. Cardinality(Skipped(q, n)') \in Nat /\ Twice(q)' \in {0, 1}
          BY <4>2, FS_CardinalityType DEF Twice
        <4>4. QED
          BY <3>1, <3>2, <3>3, <3>4, <4>2, <4>3 DEF Cost
      <3>5. CASE /\ Twice(q)' = 0 /\ Twice(q) = 1
                 /\ \E m : Ahead(q) \cap missing \subseteq Ahead(q)' \cup {m}
        <4>1. PICK m : Ahead(q) \cap missing \subseteq Ahead(q)' \cup {m}
          BY <3>5
        <4>2. Skipped(q, n)' \subseteq Skipped(q, n) \cup {m}
          BY <1>1, <4>1 DEF Skipped
        <4>3. /\ IsFiniteSet(Skipped(q, n) \cup {m})
              /\ Cardinality(Skipped(q, n) \cup {m}) <= Cardinality(Skipped(q, n)) + 1
              /\ Cardinality(Skipped(q, n) \cup {m}) \in Nat
          <5> DEFINE skipped == Skipped(q, n)
          <5>1. IsFiniteSet(skipped) /\ Cardinality(skipped) \in Nat
            BY <3>3
          <5> HIDE DEF skipped
          <5>2. /\ IsFiniteSet(skipped \cup {m})
                /\ Cardinality(skipped \cup {m})
                      = IF m \in skipped THEN Cardinality(skipped) ELSE Cardinality(skipped) + 1
            BY <5>1, FS_AddElement
          <5>3. /\ Cardinality(skipped \cup {m}) <= Cardinality(skipped) + 1
                /\ Cardinality(skipped \cup {m}) \in Nat
            BY <5>1, <5>2
          <5>4. QED
            BY <5>2, <5>3 DEF skipped
        <4>4. /\ IsFiniteSet(Skipped(q, n)')
              /\ Cardinality(Skipped(q, n)') <= Cardinality(Skipped(q, n) \cup {m})
          BY <4>2, <4>3, FS_Subset
        <4>5. Cardinality(Skipped(q, n)') \in Nat
          BY <4>4, FS_CardinalityType
        <4>6. QED
          BY <3>1, <3>2, <3>3, <3>5, <4>3, <4>4, <4>5 DEF Cost
      <3>6. QED
        BY <3>4, <3>5
    <2>3. QED
      BY <2>1, <2>2, ExcusedKept
  <1>6. QED
    BY <1>2, <1>3, <1>4, <1>5 DEF ListingInv

\* create() makes room behind the last dentry.
LEMMA CreateCountsListing ==
    ASSUME L!ListingAssumption, ListingInv, NEW n \in Names, L!CreateCounts(n)
    PROVE  ListingInv'
  <1>1. /\ change = "none" /\ n \notin L!InDirectory /\ count < MaxDentries
        /\ count' = count + 1 /\ change' = "append" /\ place' = count /\ name' = n /\ names' = names
        /\ UNCHANGED <<pos, pc, got, next, missing, overlapping, excuses>>
    BY DEF L!CreateCounts, L!readVars, L!listingVars
  <1>2. L!TypeOK /\ NamesSound /\ missing \subseteq L!InDirectory \ {name}
    BY DEF ListingInv
  <1>3. count \in Nat /\ count + 1 \in 0 .. MaxDentries /\ count \in L!Place
    BY <1>1, <1>2, ListingTypes DEF L!Place
  <1>4. L!TypeOK'
    BY <1>1, <1>2, <1>3 DEF L!TypeOK, L!Changes
  <1>5. NamesSound'
    BY <1>1, <1>2, <1>3 DEF NamesSound, L!Place
  <1>6. missing \subseteq L!InDirectory' \ {name'}
    BY <1>1, <1>2, <1>3 DEF L!InDirectory, L!Place
  <1>7. ~L!Deleting'
    BY <1>1 DEF L!Deleting
  <1>8. ASSUME NEW q \in Nat
        PROVE  Twice(q)' <= Twice(q) /\ Ahead(q) \cap missing \subseteq Ahead(q)'
    BY <1>1, <1>3 DEF Twice, Ahead, L!Place
  <1>9. QED
    BY <1>1, <1>4, <1>5, <1>6, <1>7, <1>8, NamesStep

\* It stores a name where none is missing ...
LEMMA CreateTearsListing ==
    ASSUME L!ListingAssumption, ListingInv, L!CreateTears
    PROVE  ListingInv'
  <1>1. /\ change = "append" /\ change' = "name" /\ names' = [names EXCEPT ![place] = L!Torn]
        /\ count' = count /\ place' = place /\ name' = name
        /\ UNCHANGED <<pos, pc, got, next, missing, overlapping, excuses>>
    BY DEF L!CreateTears, L!readVars, L!listingVars
  <1>2. L!TypeOK /\ NamesSound /\ missing \subseteq L!InDirectory \ {name}
    BY DEF ListingInv
  <1>3. /\ count \in Nat /\ place \in Nat /\ place < count /\ place \in L!Place
        /\ names \in [L!Place -> Copied] /\ names[place] = L!NoName
        /\ L!NoName \notin Names /\ L!Torn \notin Names /\ missing \subseteq Names
    BY <1>1, <1>2, ListingTypes DEF L!Place, NamesSound
  <1>4. /\ names' \in [L!Place -> Copied] /\ names'[place] = L!Torn
        /\ \A i \in L!Place : i # place => names'[i] = names[i]
    BY <1>1, <1>3 DEF Copied
  <1>5. L!TypeOK'
    BY <1>1, <1>2, <1>4 DEF L!TypeOK, L!Changes, Copied
  <1>6. NamesSound'
    BY <1>1, <1>2, <1>3, <1>4 DEF NamesSound, L!Place
  <1>7. missing \subseteq L!InDirectory' \ {name'}
    BY <1>1, <1>2, <1>3, <1>4 DEF L!InDirectory, L!Place
  <1>8. ~L!Deleting'
    BY <1>1 DEF L!Deleting
  <1>9. ASSUME NEW q \in Nat
        PROVE  Twice(q)' <= Twice(q) /\ Ahead(q) \cap missing \subseteq Ahead(q)'
    BY <1>1, <1>3, <1>4 DEF Twice, Ahead, L!Place
  <1>10. \A i \in L!Place : names'[i] = names[i] \/ names'[i] \notin missing
    BY <1>3, <1>4
  <1>11. QED
    BY <1>1, <1>5, <1>6, <1>7, <1>8, <1>9, <1>10, NamesStep

\* ... a name that is not missing.
LEMMA CreateNamesListing ==
    ASSUME L!ListingAssumption, ListingInv, L!CreateNames
    PROVE  ListingInv'
  <1>1. /\ change = "name" /\ change' = "none" /\ names' = [names EXCEPT ![place] = name]
        /\ count' = count /\ place' = 0 /\ name' = L!NoName
        /\ UNCHANGED <<pos, pc, got, next, missing, overlapping, excuses>>
    BY DEF L!CreateNames, L!readVars, L!listingVars
  <1>2. L!TypeOK /\ NamesSound /\ missing \subseteq L!InDirectory \ {name}
    BY DEF ListingInv
  <1>3. /\ count \in Nat /\ place \in Nat /\ place < count /\ place \in L!Place
        /\ names \in [L!Place -> Copied] /\ names[place] = L!Torn /\ name \in Copied
        /\ L!NoName \notin Names /\ L!Torn \notin Names /\ missing \subseteq Names /\ name \notin missing
    BY <1>1, <1>2, ListingTypes DEF L!Place, NamesSound, Copied
  <1>4. /\ names' \in [L!Place -> Copied] /\ names'[place] = name
        /\ \A i \in L!Place : i # place => names'[i] = names[i]
    BY <1>1, <1>3
  <1>5. L!TypeOK'
    BY <1>1, <1>2, <1>4 DEF L!TypeOK, L!Changes, Copied
  <1>6. NamesSound'
    BY <1>1, <1>2, <1>3, <1>4 DEF NamesSound, L!Place
  <1>7. missing \subseteq L!InDirectory' \ {name'}
    BY <1>1, <1>2, <1>3, <1>4 DEF L!InDirectory, L!Place
  <1>8. ~L!Deleting'
    BY <1>1 DEF L!Deleting
  <1>9. ASSUME NEW q \in Nat
        PROVE  Twice(q)' <= Twice(q) /\ Ahead(q) \cap missing \subseteq Ahead(q)'
    BY <1>1, <1>3, <1>4 DEF Twice, Ahead, L!Place
  <1>10. \A i \in L!Place : names'[i] = names[i] \/ names'[i] \notin missing
    BY <1>3, <1>4
  <1>11. QED
    BY <1>1, <1>5, <1>6, <1>7, <1>8, <1>9, <1>10, NamesStep

\* delete() tears a dentry whose name is its victim's, or is in front of it already.
LEMMA DeleteTearsListing ==
    ASSUME L!ListingAssumption, ListingInv, L!DeleteTears
    PROVE  ListingInv'
  <1>1. /\ change = "move" /\ change' = "torn" /\ names' = [names EXCEPT ![place] = L!Torn]
        /\ count' = count /\ place' = place /\ name' = name
        /\ UNCHANGED <<pos, pc, got, next, missing, overlapping, excuses>>
    BY DEF L!DeleteTears, L!readVars, L!listingVars
  <1>2. L!TypeOK /\ NamesSound /\ missing \subseteq L!InDirectory \ {name}
    BY DEF ListingInv
  <1>3. /\ count \in Nat /\ place \in Nat /\ place < count /\ place \in L!Place
        /\ names \in [L!Place -> Copied]
        /\ names[place] = name \/ (place - 1 \in L!Place /\ names[place] = names[place - 1])
        /\ L!NoName \notin Names /\ L!Torn \notin Names /\ missing \subseteq Names /\ name \notin missing
    BY <1>1, <1>2, ListingTypes DEF L!Place, NamesSound
  <1>4. /\ names' \in [L!Place -> Copied] /\ names'[place] = L!Torn
        /\ \A i \in L!Place : i # place => names'[i] = names[i]
    BY <1>1, <1>3 DEF Copied
  <1>5. L!TypeOK'
    BY <1>1, <1>2, <1>4 DEF L!TypeOK, L!Changes, Copied
  <1>6. NamesSound'
    BY <1>1, <1>2, <1>3, <1>4 DEF NamesSound, L!Place
  <1>7. missing \subseteq L!InDirectory' \ {name'}
    BY <1>1, <1>2, <1>3, <1>4 DEF L!InDirectory, L!Place
  <1>8. L!Deleting
    BY <1>1 DEF L!Deleting
  <1>9. ASSUME NEW q \in Nat
        PROVE  \/ Twice(q)' <= Twice(q) /\ Ahead(q) \cap missing \subseteq Ahead(q)'
               \/ /\ Twice(q)' = 0 /\ Twice(q) = 1
                  /\ \E m : Ahead(q) \cap missing \subseteq Ahead(q)' \cup {m}
    <2>1. Twice(q)' <= Twice(q)
      BY <1>1, <1>3 DEF Twice
    <2>2. CASE place = q /\ names[place] # name
      <3>1. Twice(q)' = 0 /\ Twice(q) = 1
        BY <1>1, <1>3, <2>2 DEF Twice
      <3>2. Ahead(q) \cap missing \subseteq Ahead(q)' \cup {names[place]}
        BY <1>1, <1>3, <1>4 DEF Ahead, L!Place
      <3>3. QED
        BY <3>1, <3>2
    <2>3. CASE ~(place = q /\ names[place] # name)
      <3>1. Ahead(q) \cap missing \subseteq Ahead(q)'
        BY <1>1, <1>3, <1>4, <2>3 DEF Ahead, L!Place
      <3>2. QED
        BY <2>1, <3>1
    <2>4. QED
      BY <2>2, <2>3
  <1>10. QED
    BY <1>1, <1>5, <1>6, <1>7, <1>8, <1>9, NamesStep

\* It stores the next name at the torn dentry.
LEMMA DeleteMovesListing ==
    ASSUME L!ListingAssumption, ListingInv, L!DeleteMoves
    PROVE  ListingInv'
  <1>1. /\ change = "torn" /\ place + 1 < count /\ change' = "move" /\ place' = place + 1
        /\ names' = [names EXCEPT ![place] = names[place + 1]]
        /\ count' = count /\ name' = name
        /\ UNCHANGED <<pos, pc, got, next, missing, overlapping, excuses>>
    BY DEF L!DeleteMoves, L!readVars, L!listingVars
  <1>2. L!TypeOK /\ NamesSound /\ missing \subseteq L!InDirectory \ {name}
    BY DEF ListingInv
  <1>3. /\ count \in Nat /\ place \in Nat /\ place \in L!Place /\ place + 1 \in L!Place
        /\ names \in [L!Place -> Copied] /\ names[place] = L!Torn
        /\ L!NoName \notin Names /\ L!Torn \notin Names /\ missing \subseteq Names
    BY <1>1, <1>2, ListingTypes DEF L!Place, NamesSound
  <1>4. /\ names' \in [L!Place -> Copied] /\ names'[place] = names[place + 1]
        /\ \A i \in L!Place : i # place => names'[i] = names[i]
    BY <1>1, <1>3
  <1>5. L!TypeOK'
    BY <1>1, <1>2, <1>3, <1>4 DEF L!TypeOK, L!Changes, Copied
  <1>6. NamesSound'
    <2>1. names'[place'] = names'[place' - 1] /\ place' > 0
      BY <1>1, <1>3, <1>4
    <2>2. QED
      BY <1>1, <1>2, <1>3, <1>4, <2>1 DEF NamesSound, L!Place
  <1>7. missing \subseteq L!InDirectory' \ {name'}
    BY <1>1, <1>2, <1>3, <1>4 DEF L!InDirectory, L!Place
  <1>8. L!Deleting
    BY <1>1 DEF L!Deleting
  <1>9. ASSUME NEW q \in Nat
        PROVE  Twice(q)' <= Twice(q) /\ Ahead(q) \cap missing \subseteq Ahead(q)'
    <2>1. Twice(q)' <= Twice(q)
      BY <1>1, <1>3 DEF Twice
    <2>2. Ahead(q) \cap missing \subseteq Ahead(q)'
      BY <1>1, <1>3, <1>4 DEF Ahead, L!Place
    <2>3. QED
      BY <2>1, <2>2
  <1>10. QED
    BY <1>1, <1>5, <1>6, <1>7, <1>8, <1>9, NamesStep

\* It clears the last dentry, torn, ...
LEMMA DeleteClearsListing ==
    ASSUME L!ListingAssumption, ListingInv, L!DeleteClears
    PROVE  ListingInv'
  <1>1. /\ change = "torn" /\ place + 1 >= count /\ change' = "count"
        /\ names' = [names EXCEPT ![place] = L!NoName]
        /\ count' = count /\ name' = name /\ place' = place
        /\ UNCHANGED <<pos, pc, got, next, missing, overlapping, excuses>>
    BY DEF L!DeleteClears, L!readVars, L!listingVars
  <1>2. L!TypeOK /\ NamesSound /\ missing \subseteq L!InDirectory \ {name}
    BY DEF ListingInv
  <1>3. /\ count \in Nat /\ place \in Nat /\ place \in L!Place /\ place = count - 1
        /\ names \in [L!Place -> Copied] /\ names[place] = L!Torn
        /\ L!NoName \notin Names /\ L!Torn \notin Names /\ missing \subseteq Names
    BY <1>1, <1>2, ListingTypes DEF L!Place, NamesSound
  <1>4. /\ names' \in [L!Place -> Copied] /\ names'[place] = L!NoName
        /\ \A i \in L!Place : i # place => names'[i] = names[i]
    BY <1>1, <1>3 DEF Copied
  <1>5. L!TypeOK'
    BY <1>1, <1>2, <1>3, <1>4 DEF L!TypeOK, L!Changes, Copied
  <1>6. NamesSound'
    BY <1>1, <1>2, <1>3, <1>4 DEF NamesSound, L!Place
  <1>7. missing \subseteq L!InDirectory' \ {name'}
    BY <1>1, <1>2, <1>3, <1>4 DEF L!InDirectory, L!Place
  <1>8. L!Deleting
    BY <1>1 DEF L!Deleting
  <1>9. ASSUME NEW q \in Nat
        PROVE  Twice(q)' <= Twice(q) /\ Ahead(q) \cap missing \subseteq Ahead(q)'
    BY <1>1, <1>3, <1>4 DEF Twice, Ahead, L!Place
  <1>10. QED
    BY <1>1, <1>5, <1>6, <1>7, <1>8, <1>9, NamesStep

\* ... and lowers the count by it.
LEMMA DeleteCountsListing ==
    ASSUME L!ListingAssumption, ListingInv, L!DeleteCounts
    PROVE  ListingInv'
  <1>1. /\ change = "count" /\ change' = "none" /\ count' = count - 1
        /\ place' = 0 /\ name' = L!NoName /\ names' = names
        /\ UNCHANGED <<pos, pc, got, next, missing, overlapping, excuses>>
    BY DEF L!DeleteCounts, L!readVars, L!listingVars
  <1>2. L!TypeOK /\ NamesSound /\ missing \subseteq L!InDirectory \ {name}
    BY DEF ListingInv
  <1>3. /\ count \in Nat /\ count - 1 \in 0 .. MaxDentries /\ place = count - 1 /\ place \in L!Place
        /\ names[place] = L!NoName
        /\ L!NoName \notin Names /\ missing \subseteq Names
    BY <1>1, <1>2, ListingTypes DEF L!Place, NamesSound
  <1>4. L!TypeOK'
    BY <1>1, <1>2, <1>3 DEF L!TypeOK, L!Changes
  <1>5. NamesSound'
    BY <1>1, <1>2, <1>3 DEF NamesSound, L!Place
  <1>6. missing \subseteq L!InDirectory' \ {name'}
    BY <1>1, <1>2, <1>3 DEF L!InDirectory, L!Place
  <1>7. L!Deleting
    BY <1>1 DEF L!Deleting
  <1>8. ASSUME NEW q \in Nat
        PROVE  Twice(q)' <= Twice(q) /\ Ahead(q) \cap missing \subseteq Ahead(q)'
    BY <1>1, <1>3 DEF Twice, Ahead, L!Place
  <1>9. QED
    BY <1>1, <1>4, <1>5, <1>6, <1>7, <1>8, NamesStep

\* delete() begins: what it may take from where the listing goes on is excused, and so
\* are the calls that it overlaps.
LEMMA DeleteBeginsListing ==
    ASSUME L!ListingAssumption, ListingInv, NEW n \in Names, L!DeleteBegins(n)
    PROVE  ListingInv'
  <1> DEFINE newly == L!Busy \ overlapping
  <1>1. /\ change = "none" /\ change' = "move" /\ name' = n /\ names' = names /\ count' = count
        /\ missing' = missing \ {n}
        /\ overlapping' = overlapping \cup L!Busy
        /\ excuses' = L!Capped(excuses + 1 + L!Cardinality(newly))
        /\ UNCHANGED <<pos, pc, got, next>>
    BY DEF L!DeleteBegins, L!readVars, L!Overlap
  <1>2. PICK v \in L!Place : v < count /\ names[v] = n /\ place' = v
    BY DEF L!DeleteBegins
  <1>3. /\ L!TypeOK /\ NamesSound /\ missing \subseteq L!InDirectory \ {name}
        /\ overlapping \subseteq L!Busy
    BY DEF ListingInv
  <1>4. /\ IsFiniteSet(Readers) /\ newly \subseteq Readers /\ L!Busy \subseteq Readers
        /\ v \in Nat /\ excuses \in Nat /\ Cardinality(Names) \in Nat
    BY <1>3, ListingTypes DEF L!Busy, L!Place
  <1>5. IsFiniteSet(newly) /\ Cardinality(newly) \in Nat
    BY <1>4, FS_Subset, FS_CardinalityType
  <1> HIDE DEF newly
  <1>6. excuses' = L!Capped(excuses + (1 + Cardinality(newly)))
    BY <1>1, <1>4, <1>5, ListingCounts
  <1>7. L!TypeOK'
    <2>1. excuses' \in 0 .. L!Cardinality(Names)
      BY <1>4, <1>5, <1>6, ListingCounts
    <2>2. QED
      BY <1>1, <1>2, <1>3, <1>4, <2>1 DEF L!TypeOK, L!Changes
  <1>8. NamesSound'
    BY <1>1, <1>2, <1>3 DEF NamesSound
  <1>9. (missing \subseteq L!InDirectory \ {name})'
    BY <1>1, <1>3 DEF L!InDirectory
  <1>10. L!Busy' = L!Busy /\ (overlapping \subseteq L!Busy)'
         /\ (\A r \in L!Busy \ overlapping : Alone(r))'
    BY <1>1, <1>3 DEF L!Busy
  <1>11. (\A q \in Nat, m \in Copied : ListsFrom(q, m) => Excused(q, m))'
    <2>1. ASSUME NEW q \in Nat, NEW m \in Copied, ListsFrom(q, m)'
          PROVE  /\ ListsFrom(q, m) /\ Cost(q, m)' \in Nat
                 /\ Cost(q, m)' <= Cost(q, m) + (1 + Cardinality(newly))
      <3>1. ListsFrom(q, m)
        BY <1>1, <2>1 DEF ListsFrom
      <3>2. Skipped(q, m)' \subseteq Skipped(q, m)
        BY <1>1 DEF Skipped, Ahead, L!Place
      <3>3. /\ IsFiniteSet(Skipped(q, m)) /\ Cardinality(Skipped(q, m)) \in Nat
            /\ IsFiniteSet(Astray) /\ Cardinality(Astray) \in Nat
            /\ Twice(q) \in {0, 1}
        BY <1>3, CostTyped
      <3>4. /\ IsFiniteSet(Skipped(q, m)')
            /\ Cardinality(Skipped(q, m)') <= Cardinality(Skipped(q, m))
            /\ Cardinality(Skipped(q, m)') \in Nat
        BY <3>2, <3>3, FS_Subset, FS_CardinalityType
      <3>5. Astray' \subseteq Astray \cup newly
        BY <1>1 DEF Astray, newly
      <3>6. /\ Cardinality(Astray') \in Nat
            /\ Cardinality(Astray') <= Cardinality(Astray) + Cardinality(newly)
        BY <1>5, <3>3, <3>5, UnionBounded
      <3>7. Twice(q)' \in {0, 1}
        BY DEF Twice
      <3>8. QED
        BY <1>5, <3>1, <3>3, <3>4, <3>6, <3>7 DEF Cost
    <2>2. 1 + Cardinality(newly) \in Nat
      BY <1>5
    <2>3. QED
      BY <1>6, <1>7, <2>1, <2>2, ExcusedKept
  <1>12. QED
    BY <1>7, <1>8, <1>9, <1>10, <1>11 DEF ListingInv

\* dir_read() begins, and may overlap others.
LEMMA ReadBeginsListing ==
    ASSUME L!ListingAssumption, ListingInv, NEW r \in Readers, L!ReadBegins(r)
    PROVE  ListingInv'
  <1> DEFINE callers == IF L!Busy # {} \/ L!Deleting THEN L!Busy \cup {r} ELSE {}
             newly == callers \ overlapping
  <1>1. /\ pc[r] = "idle"
        /\ pc' = [pc EXCEPT ![r] = IF L!AtEnd THEN "rewind" ELSE "copy"]
        /\ overlapping' = overlapping \cup callers
        /\ excuses' = L!Capped(excuses + 0 + L!Cardinality(newly))
        /\ UNCHANGED <<names, count, change, place, name, pos, got, next, missing>>
    BY DEF L!ReadBegins, L!tableVars, L!Overlap, L!At, L!Goto
  <1>2. /\ L!TypeOK /\ NamesSound /\ missing \subseteq L!InDirectory \ {name}
        /\ overlapping \subseteq L!Busy
    BY DEF ListingInv
  <1>3. /\ IsFiniteSet(Readers) /\ newly \subseteq Readers /\ callers \subseteq Readers
        /\ overlapping \subseteq Readers
        /\ pc \in [Readers -> L!Locations] /\ excuses \in Nat /\ Cardinality(Names) \in Nat
    BY <1>2, ListingTypes DEF L!Busy
  <1>4. IsFiniteSet(newly) /\ Cardinality(newly) \in Nat
    BY <1>3, FS_Subset, FS_CardinalityType
  <1>5. excuses' = L!Capped(excuses + Cardinality(newly))
    <2> HIDE DEF newly
    <2>1. QED
      BY <1>1, <1>3, <1>4, ListingCounts
  <1>6. /\ pc' \in [Readers -> L!Locations] /\ pc'[r] \in {"rewind", "copy"}
        /\ \A s \in Readers : s # r => pc'[s] = pc[s]
    BY <1>1, <1>3 DEF L!Locations
  <1>7. L!TypeOK'
    <2>1. excuses' \in 0 .. L!Cardinality(Names)
      <3> HIDE DEF newly
      <3>1. QED
        BY <1>3, <1>4, <1>5, ListingCounts
    <2>2. overlapping' \subseteq Readers
      BY <1>1, <1>3
    <2>3. QED
      BY <1>1, <1>2, <1>6, <2>1, <2>2 DEF L!TypeOK
  <1>8. NamesSound' /\ (missing \subseteq L!InDirectory \ {name})'
    BY <1>1, <1>2 DEF NamesSound, L!InDirectory, L!Place
  <1>9. L!Busy' = L!Busy \cup {r}
    BY <1>1, <1>6 DEF L!Busy
  <1>10. (overlapping \subseteq L!Busy)'
    BY <1>1, <1>2, <1>9
  <1>11. (\A s \in L!Busy \ overlapping : Alone(s))'
    <2> SUFFICES ASSUME NEW s, s \in L!Busy', s \notin overlapping'
                 PROVE  Alone(s)'
      OBVIOUS
    <2>1. L!Busy = {} /\ ~L!Deleting /\ s = r
      BY <1>1, <1>9
    <2>2. QED
      BY <1>1, <1>6, <1>9, <2>1 DEF Alone, L!Deleting
  <1>12. (\A q \in Nat, m \in Copied : ListsFrom(q, m) => Excused(q, m))'
    <2>1. ASSUME NEW q \in Nat, NEW m \in Copied, ListsFrom(q, m)'
          PROVE  /\ ListsFrom(q, m) /\ Cost(q, m)' \in Nat
                 /\ Cost(q, m)' <= Cost(q, m) + Cardinality(newly)
      <3>1. ListsFrom(q, m)
        BY <1>1, <1>6, <2>1 DEF ListsFrom
      <3>2. Skipped(q, m)' = Skipped(q, m) /\ Twice(q)' = Twice(q)
        BY <1>1 DEF Skipped, Ahead, L!Place, Twice
      <3>3. /\ IsFiniteSet(Skipped(q, m)) /\ Cardinality(Skipped(q, m)) \in Nat
            /\ IsFiniteSet(Astray) /\ Cardinality(Astray) \in Nat
            /\ Twice(q) \in {0, 1}
        BY <1>2, CostTyped
      <3>4. Astray' \subseteq Astray \cup newly
        BY <1>1, <1>2, <1>6 DEF Astray, L!Busy
      <3> HIDE DEF newly
      <3>5. /\ Cardinality(Astray') \in Nat
            /\ Cardinality(Astray') <= Cardinality(Astray) + Cardinality(newly)
        BY <1>4, <3>3, <3>4, UnionBounded
      <3>6. QED
        BY <1>4, <3>1, <3>2, <3>3, <3>5 DEF Cost
    <2>2. QED
      <3> HIDE DEF newly
      <3>1. QED
        BY <1>4, <1>5, <1>7, <2>1, ExcusedKept
  <1>13. QED
    BY <1>7, <1>8, <1>10, <1>11, <1>12 DEF ListingInv

\* It rewinds: all names are ahead, and the calls under way are excused.
LEMMA ReadRewindsListing ==
    ASSUME L!ListingAssumption, ListingInv, NEW r \in Readers, L!ReadRewinds(r)
    PROVE  ListingInv'
  <1> DEFINE others == L!Busy \ {r}
  <1>1. /\ pc[r] = "rewind" /\ pos' = 0
        /\ pc' = [q \in Readers |-> IF q = r THEN "idle" ELSE IF pc[q] = "store" THEN "late" ELSE pc[q]]
        /\ missing' = L!InDirectory \ {name}
        /\ overlapping' = others
        /\ excuses' = L!Capped(L!Cardinality(others))
        /\ UNCHANGED <<names, count, change, place, name, got, next>>
    BY DEF L!ReadRewinds, L!tableVars, L!At
  <1>2. L!TypeOK /\ NamesSound
    BY DEF ListingInv
  <1>3. /\ IsFiniteSet(Readers) /\ others \subseteq Readers
        /\ pc \in [Readers -> L!Locations] /\ Cardinality(Names) \in Nat
        /\ change \in L!Changes /\ place \in Nat /\ count \in 0 .. MaxDentries /\ MaxDentries \in Nat
    BY <1>2, ListingTypes DEF L!Busy
  <1>4. IsFiniteSet(others) /\ Cardinality(others) \in Nat
    BY <1>3, FS_Subset, FS_CardinalityType
  <1>5. excuses' = L!Capped(Cardinality(others)) /\ excuses' \in 0 .. L!Cardinality(Names)
    <2> HIDE DEF others
    <2>1. QED
      BY <1>1, <1>3, <1>4, ListingCounts
  <1>6. pc' \in [Readers -> L!Locations]
    BY <1>1, <1>3 DEF L!Locations
  <1>7. L!TypeOK'
    BY <1>1, <1>2, <1>3, <1>5, <1>6 DEF L!TypeOK, L!InDirectory
  <1>8. NamesSound' /\ (missing \subseteq L!InDirectory \ {name})'
    BY <1>1, <1>2 DEF NamesSound, L!InDirectory, L!Place
  <1>9. (overlapping = L!Busy)'
    BY <1>1 DEF L!Busy
  <1>10. (\A q \in Nat, m \in Copied : ListsFrom(q, m) => Excused(q, m))'
    <2> SUFFICES ASSUME NEW q \in Nat, NEW m \in Copied, ListsFrom(q, m)'
                 PROVE  Excused(q, m)'
      BY DEF Copied, L!NoName, L!Torn
    <2>1. q = 0
      BY <1>1 DEF ListsFrom
    <2>2. Skipped(q, m)' = {}
      BY <1>1, <1>3, <2>1 DEF Skipped, Ahead, L!InDirectory, L!Place
    <2>3. Twice(q)' = 0
      BY <1>1, <1>2, <1>3, <2>1 DEF Twice, NamesSound
    <2>4. Astray' \subseteq others
      BY <1>1 DEF Astray
    <2> HIDE DEF others
    <2>5. Cardinality(Astray') \in Nat /\ Cardinality(Astray') <= Cardinality(others)
      BY <1>4, <2>4, FS_Subset, FS_CardinalityType
    <2>6. Cost(q, m)' = Cardinality(Astray')
      BY <2>2, <2>3, <2>5, FS_EmptySet DEF Cost
    <2>7. QED
      BY <1>3, <1>4, <1>5, <2>5, <2>6, ListingCounts DEF Excused
  <1>11. QED
    BY <1>7, <1>8, <1>9, <1>10 DEF ListingInv

\* It copies the name at the position.
LEMMA ReadCopiesListing ==
    ASSUME L!ListingAssumption, ListingInv, NEW r \in Readers, L!ReadCopies(r)
    PROVE  ListingInv'
  <1> DEFINE copy == IF pos \in L!Place THEN names[pos] ELSE L!NoName
  <1>1. /\ pc[r] = "copy" /\ pc' = [pc EXCEPT ![r] = "load"] /\ got' = [got EXCEPT ![r] = copy]
        /\ UNCHANGED <<names, count, change, place, name, pos, next, missing, overlapping, excuses>>
    BY DEF L!ReadCopies, L!tableVars, L!listingVars, L!At, L!Goto
  <1>2. /\ L!TypeOK /\ NamesSound /\ missing \subseteq L!InDirectory \ {name}
        /\ overlapping \subseteq L!Busy /\ \A s \in L!Busy \ overlapping : Alone(s)
    BY DEF ListingInv
  <1>3. /\ pc \in [Readers -> L!Locations] /\ got \in [Readers -> Copied]
        /\ names \in [L!Place -> Copied]
    BY <1>2, ListingTypes
  <1>4. copy \in Copied
    BY <1>3 DEF Copied
  <1>5. /\ pc' \in [Readers -> L!Locations] /\ pc'[r] = "load"
        /\ got' \in [Readers -> Copied] /\ got'[r] = copy
        /\ \A s \in Readers : s # r => pc'[s] = pc[s] /\ got'[s] = got[s]
    BY <1>1, <1>3, <1>4 DEF L!Locations
  <1>6. L!TypeOK'
    BY <1>1, <1>2, <1>5 DEF L!TypeOK, Copied
  <1>7. NamesSound' /\ (missing \subseteq L!InDirectory \ {name})'
    BY <1>1, <1>2 DEF NamesSound, L!InDirectory, L!Place
  <1>8. L!Busy' = L!Busy
    BY <1>1, <1>5 DEF L!Busy
  <1>9. (\A s \in L!Busy \ overlapping : Alone(s))'
    <2> SUFFICES ASSUME NEW s, s \in L!Busy, s \notin overlapping
                 PROVE  Alone(s)'
      BY <1>1, <1>8
    <2>1. Alone(s) /\ r \in L!Busy
      BY <1>1, <1>2 DEF L!Busy
    <2>2. s = r
      BY <2>1 DEF Alone
    <2>3. QED
      BY <1>1, <1>5, <1>8, <2>1, <2>2 DEF Alone, L!Deleting
  <1>10. (\A q \in Nat, m \in Copied : ListsFrom(q, m) => Excused(q, m))'
    <2>1. excuses' = L!Capped(excuses + 0)
      BY <1>1, <1>2, ListingTypes, ListingCounts
    <2>2. ASSUME NEW q \in Nat, NEW m \in Copied, ListsFrom(q, m)'
          PROVE  ListsFrom(q, m) /\ Cost(q, m)' \in Nat /\ Cost(q, m)' <= Cost(q, m) + 0
      <3>1. ListsFrom(q, m)
        BY <1>1, <1>5, <2>2 DEF ListsFrom
      <3>2. Skipped(q, m)' = Skipped(q, m) /\ Twice(q)' = Twice(q)
        BY <1>1 DEF Skipped, Ahead, L!Place, Twice
      <3>3. Astray' = Astray
        BY <1>1, <1>2, <1>5 DEF Astray, L!Busy
      <3>4. Cost(q, m)' = Cost(q, m)
        BY <3>2, <3>3 DEF Cost
      <3>5. QED
        BY <1>2, <3>1, <3>4, CostTyped
    <2>3. QED
      BY <1>6, <2>1, <2>2, ExcusedKept
  <1>11. QED
    BY <1>2, <1>1, <1>6, <1>7, <1>8, <1>9, <1>10 DEF ListingInv

\* It loads the position.  If the name there is not the one it copied, it has overlapped
\* another call.
LEMMA ReadLoadsListing ==
    ASSUME L!ListingAssumption, ListingInv, NEW r \in Readers, L!ReadLoads(r)
    PROVE  ListingInv'
  <1>1. /\ pc[r] = "load" /\ pc' = [pc EXCEPT ![r] = "store"] /\ next' = [next EXCEPT ![r] = pos + 1]
        /\ UNCHANGED <<names, count, change, place, name, pos, got, missing, overlapping, excuses>>
    BY DEF L!ReadLoads, L!tableVars, L!listingVars, L!At, L!Goto
  <1>2. /\ L!TypeOK /\ NamesSound /\ missing \subseteq L!InDirectory \ {name}
        /\ overlapping \subseteq L!Busy /\ \A s \in L!Busy \ overlapping : Alone(s)
    BY DEF ListingInv
  <1>3. /\ pc \in [Readers -> L!Locations] /\ got \in [Readers -> Copied]
        /\ names \in [L!Place -> Copied] /\ next \in [Readers -> Nat] /\ pos \in Nat
        /\ place \in Nat /\ count \in Nat /\ missing \subseteq Names
        /\ L!NoName \notin Names /\ L!Torn \notin Names
    BY <1>2, ListingTypes
  <1>4. /\ pc' \in [Readers -> L!Locations] /\ pc'[r] = "store"
        /\ next' \in [Readers -> Nat] /\ next'[r] = pos + 1
        /\ \A s \in Readers : s # r => pc'[s] = pc[s] /\ next'[s] = next[s]
    BY <1>1, <1>3 DEF L!Locations
  <1>5. L!TypeOK'
    BY <1>1, <1>2, <1>4 DEF L!TypeOK
  <1>6. NamesSound' /\ (missing \subseteq L!InDirectory \ {name})'
    BY <1>1, <1>2 DEF NamesSound, L!InDirectory, L!Place
  <1>7. L!Busy' = L!Busy
    BY <1>1, <1>4 DEF L!Busy
  <1>8. (\A s \in L!Busy \ overlapping : Alone(s))'
    <2> SUFFICES ASSUME NEW s, s \in L!Busy, s \notin overlapping
                 PROVE  Alone(s)'
      BY <1>1, <1>7
    <2>1. Alone(s) /\ r \in L!Busy
      BY <1>1, <1>2 DEF L!Busy
    <2>2. s = r
      BY <2>1 DEF Alone
    <2>3. QED
      BY <1>1, <1>4, <1>7, <2>1, <2>2 DEF Alone, L!Deleting
  <1>9. (\A q \in Nat, m \in Copied : ListsFrom(q, m) => Excused(q, m))'
    <2>1. excuses' = L!Capped(excuses + 0)
      BY <1>1, <1>2, ListingTypes, ListingCounts
    <2>2. /\ \A q \in Nat : Twice(q)' = Twice(q)
          /\ \A q, m : Skipped(q, m)' = Skipped(q, m)
      BY <1>1 DEF Skipped, Ahead, L!Place, Twice
    <2>3. Astray' = Astray \ {r}
      BY <1>1, <1>2, <1>4 DEF Astray, L!Busy
    <2>4. /\ IsFiniteSet(Astray) /\ Cardinality(Astray) \in Nat
          /\ IsFiniteSet(Astray') /\ Cardinality(Astray') \in Nat
          /\ Cardinality(Astray') = IF r \in Astray THEN Cardinality(Astray) - 1 ELSE Cardinality(Astray)
      <3>1. IsFiniteSet(Astray) /\ Cardinality(Astray) \in Nat
        BY <1>2, CostTyped, <1>3
      <3>2. QED
        BY <2>3, <3>1, FS_RemoveElement, FS_CardinalityType
    <2>5. ASSUME NEW q \in Nat, NEW m \in Copied, ListsFrom(q, m)'
          PROVE  \E q2 \in Nat, m2 \in Copied :
                     ListsFrom(q2, m2) /\ Cost(q, m)' \in Nat /\ Cost(q, m)' <= Cost(q2, m2) + 0
      <3>1. CASE ListsFrom(q, m)
        <4>1. Cardinality(Skipped(q, m)) \in Nat /\ Twice(q) \in {0, 1}
          BY <1>2, CostTyped
        <4>2. Cost(q, m)' \in Nat /\ Cost(q, m)' <= Cost(q, m) + 0
          BY <2>2, <2>4, <4>1 DEF Cost
        <4>3. QED
          BY <3>1, <4>2
      <3>2. CASE ~ListsFrom(q, m)
        <4>1. q = pos + 1 /\ m = got[r]
          BY <1>1, <1>4, <2>5, <3>2 DEF ListsFrom
        <4>2. ListsFrom(pos, L!NoName) /\ L!NoName \in Copied
          BY DEF ListsFrom, Copied
        <4> DEFINE before == Skipped(pos, L!NoName)
                   after == Skipped(q, m)
        <4>3. /\ IsFiniteSet(before) /\ Cardinality(before) \in Nat /\ Twice(pos) \in {0, 1}
              /\ IsFiniteSet(after) /\ Cardinality(after) \in Nat /\ Twice(q) \in {0, 1}
          BY <1>2, <1>3, CostTyped
        <4>4. after \subseteq before \cup {names[pos]}
          BY <1>3, <4>1 DEF Skipped, Ahead, L!Place
        <4>5. CASE after \subseteq before
          <5>1. Cardinality(after) <= Cardinality(before)
            BY <4>3, <4>5, FS_Subset
          <5>2. Twice(q) <= Twice(pos) \/ r \in Astray
            BY <1>1, <1>2, <1>3, <4>1 DEF Twice, Astray, Alone, L!Busy, L!Deleting
          <5>3. Cost(q, m)' \in Nat /\ Cost(q, m)' <= Cost(pos, L!NoName) + 0
            <6> HIDE DEF before, after
            <6>1. /\ Cost(q, m)' = Cardinality(after) + Twice(q) + Cardinality(Astray')
                  /\ Cost(pos, L!NoName) = Cardinality(before) + Twice(pos) + Cardinality(Astray)
              BY <2>2 DEF Cost, before, after
            <6>2. QED
              BY <2>4, <4>3, <5>1, <5>2, <6>1
          <5>4. QED
            BY <1>3, <4>2, <5>3
        <4>6. CASE ~(after \subseteq before)
          <5>1. /\ names[pos] \in missing /\ names[pos] # got[r] /\ names[pos] \in Ahead(pos)
                /\ names[pos] \notin Ahead(q)
            BY <1>3, <4>1, <4>4, <4>6 DEF Skipped
          <5>2. pos \in L!Place /\ pos < count
            BY <1>3, <4>1, <5>1 DEF Ahead, L!Place
          <5>3. r \in Astray
            BY <1>1, <1>2, <5>1, <5>2 DEF Astray, Alone, L!Busy
          <5>4. Twice(q) <= Twice(pos)
            <6>1. CASE Twice(q) = 1
              <7>1. names[pos] # name /\ names[pos] \notin {L!Torn, L!NoName}
                BY <1>2, <1>3, <5>1
              <7>2. CASE change \in {"torn", "count"} /\ place < q
                <8>1. place # pos
                  BY <1>2, <7>1, <7>2 DEF NamesSound
                <8>2. QED
                  BY <1>3, <4>1, <7>2, <8>1 DEF Twice
              <7>3. CASE change = "move" /\ place < q
                BY <1>3, <4>1, <7>1, <7>3 DEF Twice
              <7>4. CASE change = "move" /\ place = q /\ names[place] # name
                <8>1. names[q] = names[pos] /\ q < count /\ q \in L!Place
                  BY <1>2, <1>3, <4>1, <7>4, ListingTypes DEF NamesSound, L!Place
                <8>2. names[pos] \in Ahead(q)
                  BY <8>1 DEF Ahead
                <8>3. QED
                  BY <5>1, <8>2
              <7>5. QED
                BY <6>1, <7>2, <7>3, <7>4 DEF Twice
            <6>2. QED
              BY <4>3, <6>1
          <5>5. Cardinality(after) <= Cardinality(before) + 1
            <6> HIDE DEF before, after
            <6>1. IsFiniteSet({names[pos]}) /\ Cardinality({names[pos]}) = 1
              BY FS_Singleton
            <6>2. QED
              BY <4>3, <4>4, <6>1, UnionBounded
          <5>6. Cost(q, m)' \in Nat /\ Cost(q, m)' <= Cost(pos, L!NoName) + 0
            <6> HIDE DEF before, after
            <6>1. /\ Cost(q, m)' = Cardinality(after) + Twice(q) + Cardinality(Astray')
                  /\ Cost(pos, L!NoName) = Cardinality(before) + Twice(pos) + Cardinality(Astray)
              BY <2>2 DEF Cost, before, after
            <6>2. QED
              BY <2>4, <4>3, <5>3, <5>4, <5>5, <6>1
          <5>7. QED
            BY <1>3, <4>2, <5>6
        <4>7. QED
          BY <4>5, <4>6
      <3>3. QED
        BY <3>1, <3>2
    <2>6. QED
      BY <1>5, <2>1, <2>5, ExcusedKept
  <1>10. QED
    BY <1>1, <1>2, <1>5, <1>6, <1>7, <1>8, <1>9 DEF ListingInv

\* A call that returns takes its name, and itself, out of the sets.
LEMMA ReturnListing ==
    ASSUME L!ListingAssumption, ListingInv, NEW r \in Readers, NEW n \in Copied,
           pc[r] # "idle", pc' = [pc EXCEPT ![r] = "idle"], L!Return(r, n),
           UNCHANGED <<names, count, change, place, name>>, pos' \in Nat,
           excuses' \in Nat, excuses' <= Cardinality(Names),
           \/ excuses' = Cardinality(Names)
           \/ excuses' = excuses /\ pos' = pos /\ n = L!NoName
           \/ excuses' = excuses /\ pos' = next[r] /\ n = got[r] /\ pc[r] = "store"
    PROVE  ListingInv'
  <1>1. /\ got' = [got EXCEPT ![r] = L!NoName] /\ next' = [next EXCEPT ![r] = 0]
        /\ missing' = missing \ {n} /\ overlapping' = overlapping \ {r}
    BY DEF L!Return
  <1>2. /\ L!TypeOK /\ NamesSound /\ missing \subseteq L!InDirectory \ {name}
        /\ overlapping \subseteq L!Busy /\ \A s \in L!Busy \ overlapping : Alone(s)
        /\ \A q \in Nat, m \in Copied : ListsFrom(q, m) => Excused(q, m)
    BY DEF ListingInv
  <1>3. /\ pc \in [Readers -> L!Locations] /\ got \in [Readers -> Copied]
        /\ next \in [Readers -> Nat] /\ pos \in Nat /\ missing \subseteq Names
        /\ L!NoName \notin Names /\ Cardinality(Names) \in Nat
        /\ excuses \in Nat /\ excuses <= Cardinality(Names)
    BY <1>2, ListingTypes
  <1>4. /\ pc' \in [Readers -> L!Locations] /\ pc'[r] = "idle"
        /\ got' \in [Readers -> Copied] /\ next' \in [Readers -> Nat]
        /\ \A s \in Readers : s # r => pc'[s] = pc[s] /\ got'[s] = got[s] /\ next'[s] = next[s]
    BY <1>1, <1>3 DEF L!Locations, Copied
  <1>5. L!TypeOK'
    <2>1. excuses' \in 0 .. L!Cardinality(Names)
      BY <1>3, ListingCounts
    <2>2. QED
      BY <1>1, <1>2, <1>4, <2>1 DEF L!TypeOK, Copied
  <1>6. NamesSound' /\ (missing \subseteq L!InDirectory \ {name})'
    BY <1>1, <1>2 DEF NamesSound, L!InDirectory, L!Place
  <1>7. L!Busy' = L!Busy \ {r} /\ r \in L!Busy
    BY <1>4 DEF L!Busy
  <1>8. (overlapping \subseteq L!Busy)' /\ (\A s \in L!Busy \ overlapping : Alone(s))'
    <2>1. (overlapping \subseteq L!Busy)'
      BY <1>1, <1>2, <1>7
    <2>2. (L!Busy \ overlapping)' = {}
      <3> SUFFICES ASSUME NEW s, s \in L!Busy', s \notin overlapping'
                   PROVE  FALSE
        OBVIOUS
      <3>1. s \in L!Busy /\ s \notin overlapping /\ s # r
        BY <1>1, <1>7
      <3>2. L!Busy = {s}
        BY <1>2, <3>1 DEF Alone
      <3>3. QED
        BY <1>7, <3>1, <3>2
    <2>3. QED
      BY <2>1, <2>2
  <1>9. (\A q \in Nat, m \in Copied : ListsFrom(q, m) => Excused(q, m))'
    <2> SUFFICES ASSUME NEW q \in Nat, NEW m \in Copied, ListsFrom(q, m)',
                        excuses' # Cardinality(Names)
                 PROVE  Excused(q, m)'
      <3>1. excuses' = Cardinality(Names) => \A q \in Nat, m \in Copied : Excused(q, m)'
        BY DEF Excused
      <3>2. Copied' = Copied
        BY DEF Copied, L!NoName, L!Torn
      <3>3. QED
        BY <3>1, <3>2
    <2>1. excuses' = excuses
      OBVIOUS
    <2>2. PICK m2 \in Copied : ListsFrom(q, m2) /\ Skipped(q, m)' \subseteq Skipped(q, m2)
      <3>1. Skipped(q, m)' = Skipped(q, m) \ {n}
        BY <1>1 DEF Skipped, Ahead, L!Place
      <3>2. CASE q = pos' /\ m = L!NoName /\ pos' = pos
        BY <1>3, <3>1, <3>2 DEF ListsFrom, Skipped, Copied
      <3>3. CASE q = pos' /\ m = L!NoName /\ pos' = next[r] /\ n = got[r] /\ pc[r] = "store"
        <4>1. ListsFrom(q, n)
          BY <3>3 DEF ListsFrom
        <4>2. Skipped(q, m)' \subseteq Skipped(q, n)
          BY <1>3, <3>1, <3>3 DEF Skipped
        <4>3. QED
          BY <4>1, <4>2
      <3>4. CASE \E s \in Readers : pc'[s] = "store" /\ q = next'[s] /\ m = got'[s]
        <4>1. ListsFrom(q, m)
          BY <1>4, <3>4 DEF ListsFrom
        <4>2. QED
          BY <3>1, <4>1
      <3>5. QED
        BY <2>1, <3>2, <3>3, <3>4 DEF ListsFrom
    <2>3. Astray' \subseteq Astray
      BY <1>1, <1>4 DEF Astray
    <2>4. Twice(q)' = Twice(q) /\ Twice(q) \in {0, 1}
      BY DEF Twice
    <2>5. Cost(q, m)' <= Cost(q, m2)
      BY <1>2, <1>5, <2>2, <2>3, <2>4, CostStays
    <2>6. Excused(q, m2) /\ Cost(q, m2) \in Nat
      BY <1>2, <2>2, CostTyped
    <2>7. Cost(q, m)' \in Nat
      <3>1. IsFiniteSet(Skipped(q, m)') /\ IsFiniteSet(Astray')
        BY <1>2, <2>2, <2>3, CostTyped, FS_Subset
      <3>2. QED
        BY <2>4, <3>1, FS_CardinalityType DEF Cost
    <2>8. QED
      BY <1>3, <2>1, <2>5, <2>6, <2>7 DEF Excused
  <1>10. QED
    BY <1>5, <1>6, <1>8, <1>9 DEF ListingInv

\* It stores the position and returns; or it is halted.
LEMMA ReadStoresListing ==
    ASSUME L!ListingAssumption, ListingInv, NEW r \in Readers, L!ReadStores(r) \/ L!Halted(r)
    PROVE  ListingInv'
  <1>1. L!TypeOK
    BY DEF ListingInv
  <1>2. /\ pos \in Nat /\ next[r] \in Nat /\ got[r] \in Copied /\ L!NoName \in Copied
        /\ excuses \in Nat /\ excuses <= Cardinality(Names) /\ Cardinality(Names) \in Nat
    BY <1>1, ListingTypes DEF Copied
  <1>3. CASE L!ReadStores(r)
    <2>1. /\ pc[r] \in {"store", "late"} /\ pc' = [pc EXCEPT ![r] = "idle"]
          /\ pos' = next[r] /\ L!Return(r, got[r])
          /\ excuses' = IF pc[r] = "late" THEN Cardinality(Names) ELSE excuses
          /\ UNCHANGED <<names, count, change, place, name>>
      BY <1>3, ListingCounts DEF L!ReadStores, L!tableVars, L!At, L!Goto
    <2>2. /\ pc[r] # "idle" /\ pos' \in Nat /\ excuses' \in Nat /\ excuses' <= Cardinality(Names)
          /\ \/ excuses' = Cardinality(Names)
             \/ excuses' = excuses /\ pos' = next[r] /\ pc[r] = "store"
      BY <1>2, <2>1
    <2>3. QED
      BY <1>2, <2>1, <2>2, ReturnListing
  <1>4. CASE L!Halted(r)
    <2>1. /\ pc[r] # "idle" /\ pc' = [pc EXCEPT ![r] = "idle"]
          /\ pos' = pos /\ L!Return(r, L!NoName) /\ excuses' = excuses
          /\ UNCHANGED <<names, count, change, place, name>>
      BY <1>4 DEF L!Halted, L!tableVars, L!At, L!Goto
    <2>2. QED
      BY <1>2, <2>1, ReturnListing
  <1>5. QED
    BY <1>3, <1>4

\* A listing starts with all names ahead and no call under way.
LEMMA InitListing ==
    ASSUME L!ListingAssumption, L!Init
    PROVE  ListingInv
  <1>1. /\ IsFiniteSet(Names) /\ Cardinality(Names) \in Nat /\ MaxDentries \in Nat
        /\ L!NoName \notin Names
    BY ListingCounts, FS_CardinalityType DEF L!ListingAssumption
  <1>2. /\ count \in 0 .. MaxDentries /\ names \in [L!Place -> Names \cup {L!NoName}]
        /\ \A i \in L!Place : names[i] = L!NoName <=> i >= count
        /\ change = "none" /\ place = 0 /\ name = L!NoName /\ pos = 0
        /\ pc = [r \in Readers |-> "idle"] /\ got = [r \in Readers |-> L!NoName]
        /\ next = [r \in Readers |-> 0]
        /\ missing = L!InDirectory /\ overlapping = {} /\ excuses = 0
    BY DEF L!Init
  <1>3. 0 \in 0 .. L!Cardinality(Names)
    BY <1>1, ListingCounts
  <1>4. L!TypeOK
    BY <1>1, <1>2, <1>3 DEF L!TypeOK, L!Changes, L!Locations, L!InDirectory
  <1>5. NamesSound /\ missing \subseteq L!InDirectory \ {name}
    BY <1>1, <1>2 DEF NamesSound, L!InDirectory
  <1>6. overlapping = {} /\ L!Busy = {}
    BY <1>2 DEF L!Busy
  <1>7. ASSUME NEW q \in Nat, NEW m \in Copied, ListsFrom(q, m)
        PROVE  Excused(q, m)
    <2>1. q = 0
      BY <1>2, <1>7 DEF ListsFrom
    <2>2. Skipped(q, m) = {} /\ Astray = {}
      BY <1>1, <1>2, <2>1 DEF Skipped, Ahead, Astray, L!InDirectory, L!Place
    <2>3. Twice(q) = 0
      BY <1>2 DEF Twice
    <2>4. QED
      BY <1>2, <2>2, <2>3, FS_EmptySet DEF Excused, Cost
  <1>8. QED
    BY <1>4, <1>5, <1>6, <1>7 DEF ListingInv

\* Every step preserves the listing's invariant.
LEMMA NextListing ==
    ASSUME L!ListingAssumption, ListingInv, [L!Next]_(L!vars)
    PROVE  ListingInv'
  <1>1. CASE L!create
    BY <1>1, CreateCountsListing, CreateTearsListing, CreateNamesListing DEF L!create
  <1>2. CASE L!delete
    BY <1>2, DeleteBeginsListing, DeleteTearsListing, DeleteMovesListing, DeleteClearsListing,
       DeleteCountsListing DEF L!delete
  <1>3. ASSUME NEW r \in Readers, L!dir_read(r) \/ L!Halted(r)
        PROVE  ListingInv'
    BY <1>3, ReadBeginsListing, ReadRewindsListing, ReadCopiesListing, ReadLoadsListing,
       ReadStoresListing DEF L!dir_read
  <1>4. CASE UNCHANGED L!vars
    <2>1. UNCHANGED <<names, count, change, place, name, pos, pc, got, next, missing,
                      overlapping, excuses>>
      BY <1>4 DEF L!vars, L!tableVars, L!readVars, L!listingVars
    <2>2. L!TypeOK' /\ NamesSound'
      BY <2>1 DEF ListingInv, L!TypeOK, NamesSound
    <2>3. (missing \subseteq L!InDirectory \ {name})'
      BY <2>1 DEF ListingInv, L!InDirectory
    <2>4. (overlapping \subseteq L!Busy)' /\ (\A r \in L!Busy \ overlapping : Alone(r))'
      BY <2>1 DEF ListingInv, L!Busy, Alone, L!Deleting
    <2>5. (\A q \in Nat, n \in Copied : ListsFrom(q, n) => Excused(q, n))'
      <3>1. ASSUME NEW q \in Nat, NEW n \in Copied, ListsFrom(q, n)'
            PROVE  Excused(q, n)'
        <4>1. Excused(q, n)
          BY <2>1, <3>1 DEF ListingInv, ListsFrom
        <4>2. Skipped(q, n)' = Skipped(q, n) /\ Twice(q)' = Twice(q) /\ Astray' = Astray
          BY <2>1 DEF Skipped, Ahead, Twice, Astray
        <4>3. Cost(q, n)' = Cost(q, n)
          BY <4>2 DEF Cost
        <4>4. QED
          BY <2>1, <4>1, <4>3 DEF Excused
      <3>2. QED
        BY <3>1
    <2>6. QED
      BY <2>2, <2>3, <2>4, <2>5 DEF ListingInv
  <1>5. QED
    BY <1>1, <1>2, <1>3, <1>4 DEF L!Next

\* A listing that has reached its end has returned every name that was there from
\* its start on, but one at most for every file deleted meanwhile and for every
\* dir_read() that overlapped a delete() or another dir_read(), wherever these were.
THEOREM ListingsComplete ==
    ASSUME L!ListingAssumption
    PROVE  L!Spec => []L!ListingComplete
  <1>1. ASSUME ListingInv
        PROVE  L!ListingComplete
    <2> SUFFICES ASSUME pos >= count
                 PROVE  Cardinality(missing) <= excuses
      BY ListingCounts DEF L!ListingComplete, L!AtEnd
    <2>1. L!TypeOK
      BY <1>1 DEF ListingInv
    <2>2. /\ pos \in Nat /\ count \in Nat /\ missing \subseteq Names /\ IsFiniteSet(Names)
          /\ Cardinality(Names) \in Nat /\ excuses \in Nat /\ L!NoName \notin Names
      BY <2>1, ListingTypes
    <2>3. Excused(pos, L!NoName)
      BY <1>1, <2>2 DEF ListingInv, ListsFrom, Copied
    <2>4. Skipped(pos, L!NoName) = missing
      BY <2>2 DEF Skipped, Ahead, L!Place
    <2>5. Cardinality(missing) <= Cardinality(Names) /\ Cardinality(missing) \in Nat
      BY <2>2, FS_Subset, FS_CardinalityType
    <2>6. Twice(pos) \in {0, 1} /\ Cardinality(Astray) \in Nat
      BY <2>1, <2>2, CostTyped
    <2>7. QED
      BY <2>2, <2>3, <2>4, <2>5, <2>6 DEF Excused, Cost
  <1>2. L!Init => ListingInv
    BY InitListing
  <1>3. ListingInv /\ [L!Next]_(L!vars) => ListingInv'
    BY NextListing
  <1>4. QED
    BY <1>1, <1>2, <1>3, PTL DEF L!Spec
=============================================================================
