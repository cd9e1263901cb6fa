------------------------------ MODULE Listing ------------------------------
(***************************************************************************)
(* Reading the directory while files come and go.  All processes share the *)
(* one position of dir_read(), which counts dentries, so that what a       *)
(* listing returns depends on every reader, create() and delete().         *)
(*                                                                         *)
(* None of the calls takes a lock and all run with interrupts enabled; the *)
(* build does not optimise, so each access of dir_read() to the position   *)
(* is a step, and so is each store of create() and delete() to a name.  A  *)
(* name is stored in several instructions: in between it is Torn.  Reading *)
(* it takes several too, but while it changes, every outcome is that of a  *)
(* moment: the old name, a torn one, or the new.  create() and delete()    *)
(* come one at a time here; overlapping ones are the subject of module     *)
(* Directory.                                                              *)
(***************************************************************************)
EXTENDS Integers, FiniteSets

CONSTANTS
    Readers,            \* processes that read the directory
    Names,              \* names programs use
    MaxDentries,        \* bound: dentries; create() itself has no limit
    MaxPos              \* bound: the position, which stores that come late can drive on

NoName == "no name"     \* a dentry of zeros
Torn == "torn name"

ListingAssumption ==
    /\ IsFiniteSet(Readers) /\ IsFiniteSet(Names) /\ NoName \notin Names /\ Torn \notin Names
    /\ MaxDentries \in Nat /\ MaxPos \in Nat

Place == 0 .. MaxDentries - 1

VARIABLES
    names,              \* boot_block->dentries[.].file_name
    count,              \* boot_block->dentry_count
    change, place, name,    \* create() or delete(): where it is, at which dentry, the name
    pos,                \* the static pos of dir_read()
    pc,                 \* where in dir_read() a process is
    got,                \* the name it copied
    next,               \* the value it is about to store into pos
    missing,            \* history: names there since the listing began, not returned
    overlapping,        \* history: calls that overlapped another one
    excuses             \* history: what the listing may have missed names for

tableVars == <<names, count, change, place, name>>
readVars == <<pos, pc, got, next>>
listingVars == <<missing, overlapping, excuses>>
vars == <<tableVars, readVars, listingVars>>

Locations == {"idle", "copy", "load", "store", "late", "rewind"}
Changes == {"none", "append", "name", "move", "torn", "count"}

\* Every variable has its type.
TypeOK ==
    /\ names \in [Place -> Names \cup {NoName, Torn}] /\ count \in 0 .. MaxDentries
    /\ change \in Changes /\ place \in Nat /\ name \in Names \cup {NoName}
    /\ pos \in Nat
    /\ pc \in [Readers -> Locations] /\ got \in [Readers -> Names \cup {NoName, Torn}]
    /\ next \in [Readers -> Nat]
    /\ missing \subseteq Names /\ overlapping \subseteq Readers
    /\ excuses \in 0 .. Cardinality(Names)

InDirectory == {names[i] : i \in {i \in Place : i < count}} \cap Names

Init ==
    /\ count \in 0 .. MaxDentries
    /\ names \in [Place -> Names \cup {NoName}]
    /\ \A i \in Place : names[i] = NoName <=> i >= count
    /\ \A i, j \in Place : names[i] = names[j] /\ i < count => i = j
    /\ change = "none" /\ place = 0 /\ name = NoName
    /\ pos = 0
    /\ pc = [r \in Readers |-> "idle"] /\ got = [r \in Readers |-> NoName]
    /\ next = [r \in Readers |-> 0]
    /\ missing = InDirectory /\ overlapping = {} /\ excuses = 0

-----------------------------------------------------------------------------
(* The history.  A file deleted, and a dir_read() that overlaps a delete()  *)
(* or another dir_read(), may each cost a listing one name.                 *)

Busy == {r \in Readers : pc[r] # "idle"}
Deleting == change \in {"move", "torn", "count"}

Capped(n) == IF n < Cardinality(Names) THEN n ELSE Cardinality(Names)

\* The calls of S overlap, if they have not already; so may the call of a deletion.
Overlap(S, deletions) ==
    /\ overlapping' = overlapping \cup S
    /\ excuses' = Capped(excuses + deletions + Cardinality(S \ overlapping))

-----------------------------------------------------------------------------
(* create() and delete(), once they have looked the name up.                *)

\* create() raises the count ...
CreateCounts(n) ==
    /\ change = "none" /\ n \notin InDirectory /\ count < MaxDentries
    /\ count' = count + 1
    /\ change' = "append" /\ place' = count /\ name' = n
    /\ UNCHANGED <<names, readVars, listingVars>>

\* ... and then stores the name ...
CreateTears ==
    /\ change = "append" /\ change' = "name"
    /\ names' = [names EXCEPT ![place] = Torn]
    /\ UNCHANGED <<count, place, name, readVars, listingVars>>

\* ... byte by byte.
CreateNames ==
    /\ change = "name" /\ change' = "none"
    /\ names' = [names EXCEPT ![place] = name]
    /\ place' = 0 /\ name' = NoName
    /\ UNCHANGED <<count, readVars, listingVars>>

\* delete() begins with the dentry it has found ...
DeleteBegins(n) ==
    /\ change = "none"
    /\ \E i \in Place : i < count /\ names[i] = n /\ place' = i
    /\ change' = "move" /\ name' = n
    /\ missing' = missing \ {n}
    /\ Overlap(Busy, 1)
    /\ UNCHANGED <<names, count, readVars>>

\* ... over which memmove() stores, from the front, ...
DeleteTears ==
    /\ change = "move" /\ change' = "torn"
    /\ names' = [names EXCEPT ![place] = Torn]
    /\ UNCHANGED <<count, place, name, readVars, listingVars>>

\* ... the one behind it, and so on to the last ...
DeleteMoves ==
    /\ change = "torn" /\ place + 1 < count
    /\ names' = [names EXCEPT ![place] = names[place + 1]]
    /\ change' = "move" /\ place' = place + 1
    /\ UNCHANGED <<count, name, readVars, listingVars>>

\* ... which is cleared ...
DeleteClears ==
    /\ change = "torn" /\ place + 1 >= count
    /\ names' = [names EXCEPT ![place] = NoName]
    /\ change' = "count"
    /\ UNCHANGED <<count, place, name, readVars, listingVars>>

\* ... before the count is lowered.
DeleteCounts ==
    /\ change = "count" /\ change' = "none"
    /\ count' = count - 1
    /\ place' = 0 /\ name' = NoName
    /\ UNCHANGED <<names, readVars, listingVars>>

-----------------------------------------------------------------------------
(* dir_read() of process r.                                                 *)

At(r, l) == pc[r] = l
Goto(r, l) == pc' = [pc EXCEPT ![r] = l]

\* Mutant: the listing ends one short.
AtEndEarly == pos + 1 >= count

AtEnd == pos >= count

\* dir_read() looks whether there are dentries left ...
ReadBegins(r) ==
    /\ At(r, "idle")
    /\ Goto(r, IF AtEnd THEN "rewind" ELSE "copy")
    /\ Overlap(IF Busy # {} \/ Deleting THEN Busy \cup {r} ELSE {}, 0)
    /\ UNCHANGED <<tableVars, pos, got, next, missing>>

\* The call is over, with a name or without one.
Return(r, n) ==
    /\ got' = [got EXCEPT ![r] = NoName] /\ next' = [next EXCEPT ![r] = 0]
    /\ missing' = missing \ {n}
    /\ overlapping' = overlapping \ {r}

\* ... rewinds if not: a new listing begins, with the calls under way that may cost
\* it a name; who is about to store the position does so later ...
ReadRewinds(r) ==
    /\ At(r, "rewind")
    /\ pos' = 0
    /\ pc' = [q \in Readers |-> IF q = r THEN "idle" ELSE IF At(q, "store") THEN "late" ELSE pc[q]]
    /\ missing' = InDirectory \ {name}
    /\ overlapping' = Busy \ {r}
    /\ excuses' = Capped(Cardinality(Busy \ {r}))
    /\ UNCHANGED <<tableVars, got, next>>

\* ... copies the dentry at the position, whatever that is by now; behind the table
\* there is no name ...
ReadCopies(r) ==
    /\ At(r, "copy") /\ Goto(r, "load")
    /\ got' = [got EXCEPT ![r] = IF pos \in Place THEN names[pos] ELSE NoName]
    /\ UNCHANGED <<tableVars, pos, next, listingVars>>

\* ... and increments the position: a load ...
ReadLoads(r) ==
    /\ At(r, "load") /\ Goto(r, "store")
    /\ pos < MaxPos
    /\ next' = [next EXCEPT ![r] = pos + 1]
    /\ UNCHANGED <<tableVars, pos, got, listingVars>>

\* ... and a store.  After a rewind it may pass over any number of names.
ReadStores(r) ==
    /\ pc[r] \in {"store", "late"} /\ Goto(r, "idle")
    /\ pos' = next[r]
    /\ Return(r, got[r])
    /\ excuses' = IF At(r, "late") THEN Cardinality(Names) ELSE excuses
    /\ UNCHANGED tableVars

\* The process is halted by Ctrl+C wherever it is.
Halted(r) ==
    /\ ~At(r, "idle") /\ Goto(r, "idle")
    /\ Return(r, NoName)
    /\ UNCHANGED <<tableVars, pos, excuses>>

-----------------------------------------------------------------------------
dir_read(r) ==
    \/ ReadBegins(r) \/ ReadRewinds(r) \/ ReadCopies(r) \/ ReadLoads(r) \/ ReadStores(r)

create == CreateTears \/ CreateNames \/ \E n \in Names : CreateCounts(n)

delete ==
    \/ DeleteTears \/ DeleteMoves \/ DeleteClears \/ DeleteCounts
    \/ \E n \in Names : DeleteBegins(n)

Next == create \/ delete \/ \E r \in Readers : dir_read(r) \/ Halted(r)

Spec == Init /\ [][Next]_vars

-----------------------------------------------------------------------------
(* Property.                                                                *)

\* A listing that has reached its end has returned every name that was there from
\* its start on, but one at most for every file deleted meanwhile and for every
\* dir_read() that overlapped a delete() or another dir_read(): so none if neither
\* happened.  (Nothing is said of a listing into which a dir_read() has stored the
\* position of the one before.)
ListingComplete == AtEnd => Cardinality(missing) <= excuses
=============================================================================
