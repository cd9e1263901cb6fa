------------------------------- MODULE Blink -------------------------------
(***************************************************************************)
(* The blinking characters of fish: a linked list inside an array.  A free *)
(* slot of the array is one whose location is 0; fish starts its picture   *)
(* at column 40, so no character has location 0.  Slot i of the model is   *)
(* blink_array[i - 1], NULL is 0.  What is drawn goes to the page of       *)
(* module Screen.                                                          *)
(***************************************************************************)
EXTENDS Integers, SequencesExt

CONSTANTS
    Locations,          \* the locations fish uses
    Rhythms,            \* the pairs <<on_length, off_length>> it may give
    SCREEN,             \* 80 * 25
    Capacity,           \* elements of blink_array
    WORD                \* 2^16: lengths and countdowns are 16 bits wide

BlinkAssumption ==
    /\ Capacity \in Nat /\ WORD \in Nat \ {0}
    /\ Locations \subseteq Nat \ {0}
    /\ Rhythms \subseteq (0 .. WORD - 1) \X (0 .. WORD - 1)

VARIABLES
    list_head,          \* mp1_list_head
    blink,              \* blink_array
    since               \* history: ticks since the slot's character changed

vars == <<list_head, blink, since>>

NULL == 0
Word == 0 .. WORD - 1
Slots == 1 .. Capacity
Zeroed == [location |-> 0, on_length |-> 0, off_length |-> 0,
           countdown |-> 0, status |-> 0, next |-> NULL]

Init ==
    /\ list_head = NULL
    /\ blink = [s \in Slots |-> Zeroed]
    /\ since = [s \in Slots |-> 0]

Successor(s) == IF s = NULL THEN NULL ELSE blink[s].next

\* The slots met when the next pointers are followed from the head.
Reached[k \in 1 .. Capacity + 1] == IF k = 1 THEN list_head ELSE Successor(Reached[k - 1])

\* The list ends with NULL; one that runs in a circle repeats its slots.
List ==
    LET at == Reached
        length == CHOOSE n \in 0 .. Capacity + 1 :
                      /\ n > 0 => at[n] # NULL
                      /\ n <= Capacity => at[n + 1] = NULL
    IN  [k \in 1 .. length |-> at[k]]

Listed == Range(List)

FirstAt(l) == CHOOSE k \in DOMAIN List :
    /\ blink[List[k]].location = l
    /\ \A j \in 1 .. k - 1 : blink[List[j]].location # l

\* Mutant: the search goes on to the end of the list.
mp1_find_helperLast(l) ==
    LET at == SelectSeq(List, LAMBDA s : blink[s].location = l)
    IN  IF at = <<>> THEN NULL ELSE Last(at)

\* The first slot of the list with location l, NULL when there is none.
mp1_find_helper(l) ==
    IF \E s \in Listed : blink[s].location = l THEN List[FirstAt(l)] ELSE NULL

\* The first slot with location 0, NULL when there is none.
mp1_malloc ==
    LET free == {s \in Slots : blink[s].location = 0}
    IN  IF free = {} THEN NULL ELSE CHOOSE s \in free : \A t \in free : s <= t

\* Nothing looks for a character already at l: two may share a location.
mp1_ioctl_add(l, on, off) ==
    LET s == mp1_malloc IN
    /\ l < SCREEN /\ s # NULL
    /\ blink' = [blink EXCEPT ![s] = [location |-> l, on_length |-> on, off_length |-> off,
                                      countdown |-> on, status |-> 1, next |-> list_head]]
    /\ list_head' = s
    /\ since' = [since EXCEPT ![s] = 0]

\* found_prev: whatever points to s, the head or a next, is given the next of s.
Unlinked(s) ==
    [t \in Slots |-> IF t \in Listed /\ blink[t].next = s
                     THEN [blink[t] EXCEPT !.next = blink[s].next] ELSE blink[t]]

mp1_ioctl_remove(l) ==
    LET s == mp1_find_helper(l) IN
    /\ s # NULL
    /\ list_head' = IF list_head = s THEN blink[s].next ELSE list_head
    /\ blink' = [Unlinked(s) EXCEPT ![s] = Zeroed]
    /\ since' = [since EXCEPT ![s] = 0]

\* The second character takes the rhythm and the phase of the first.
mp1_ioctl_sync(l, m) ==
    LET i == mp1_find_helper(l)
        j == mp1_find_helper(m)
    IN
    /\ i # NULL /\ j # NULL
    /\ blink' = [blink EXCEPT ![j] =
           [@ EXCEPT !.on_length = blink[i].on_length, !.off_length = blink[i].off_length,
                     !.countdown = blink[i].countdown, !.status = blink[i].status]]
    /\ since' = [since EXCEPT ![j] = since[i]]
    /\ UNCHANGED list_head

\* decw, cmpw, jg: the 16 bits count as a signed number.
Decremented(s) == (blink[s].countdown - 1) % WORD
\* Mutant: the countdown is compared as an unsigned number.
DueUnsigned(s) == Decremented(s) = 0
Due(s) == Decremented(s) \notin 1 .. WORD \div 2 - 1

Ticked(s) ==
    IF Due(s)
    THEN [blink[s] EXCEPT
             !.countdown = IF blink[s].status = 1 THEN blink[s].off_length ELSE blink[s].on_length,
             !.status = 1 - @]
    ELSE [blink[s] EXCEPT !.countdown = Decremented(s)]

mp1_rtc_tasklet ==
    /\ blink' = [s \in Slots |-> IF s \in Listed THEN Ticked(s) ELSE blink[s]]
    /\ since' = [s \in Slots |-> IF s \notin Listed \/ Due(s) THEN 0 ELSE since[s] + 1]
    /\ UNCHANGED list_head

Next ==
    \/ \E l \in Locations, r \in Rhythms : mp1_ioctl_add(l, r[1], r[2])
    \/ \E l \in Locations : mp1_ioctl_remove(l)
    \/ \E l, m \in Locations : mp1_ioctl_sync(l, m)
    \/ mp1_rtc_tasklet

Spec == Init /\ [][Next]_vars

-----------------------------------------------------------------------------
\* The list ends, and holds exactly the slots mp1_malloc takes for used, each
\* once: adding and removing never lose a character, share one, or close a
\* circle that would hang the tasklet.
ListIntact ==
    /\ IsInjective(List)
    /\ Listed = {s \in Slots : blink[s].location # 0}

\* Every variable has its type (the layout of struct mp1_blink_struct), and the
\* pointers form a list.
TypeOK ==
    /\ list_head \in Slots \cup {NULL}
    /\ blink \in [Slots -> [location : Locations \cup {0}, on_length : Word, off_length : Word,
                            countdown : Word, status : {0, 1}, next : Slots \cup {NULL}]]
    /\ since \in [Slots -> Word]
    /\ ListIntact

\* How long a character of length n shows: n ticks up to 2^15, then one.
Period(n) == IF n \in 1 .. WORD \div 2 THEN n ELSE 1

\* A character shows for exactly the length of its status, whatever was added,
\* removed or synchronized while it did.
FlipsOnTime ==
    mp1_rtc_tasklet =>
        \A s \in Listed :
            LET b == blink[s]
                length == Period(IF b.status = 1 THEN b.on_length ELSE b.off_length)
            IN  blink'[s].status # b.status <=> since[s] + 1 = length

PeriodKept == [][FlipsOnTime]_vars

\* The array with its pointers is the pile of characters fish asked for.
Items == [k \in DOMAIN List |->
             LET b == blink[List[k]]
             IN  [location |-> b.location, on_length |-> b.on_length,
                  off_length |-> b.off_length, countdown |-> b.countdown, status |-> b.status]]

Order == INSTANCE BlinkOrder WITH items <- Items
ImplementsOrder == Order!Spec
=============================================================================
