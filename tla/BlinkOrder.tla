----------------------------- MODULE BlinkOrder -----------------------------
(***************************************************************************)
(* What fish expects of its blinking characters: a pile of them, the last  *)
(* one added on top, found by location from the top.                       *)
(***************************************************************************)
EXTENDS Integers, SequencesExt

CONSTANTS
    Locations, Rhythms,
    SCREEN,             \* locations on the screen: 0 .. SCREEN - 1
    Capacity,
    WORD                \* 2^16: lengths and countdowns are 16 bits wide

VARIABLE items          \* the characters, top first

CurrentLength(it) == IF it.status = 1 THEN it.on_length ELSE it.off_length

AddOnTop ==
    \E l \in Locations, r \in Rhythms :
        /\ l < SCREEN /\ Len(items) < Capacity
        /\ items' = <<[location |-> l, on_length |-> r[1], off_length |-> r[2],
                       countdown |-> r[1], status |-> 1]>> \o items

\* The place of the topmost character at l.
Topmost(i, l) ==
    /\ i \in DOMAIN items /\ items[i].location = l
    /\ \A j \in DOMAIN items : j < i => items[j].location # l

RemoveTopmost == \E l \in Locations, i \in DOMAIN items : Topmost(i, l) /\ items' = RemoveAt(items, i)

\* The second character takes over rhythm and phase of the first.
Sync ==
    \E l, m \in Locations, i, j \in DOMAIN items :
        /\ Topmost(i, l) /\ Topmost(j, m)
        /\ items' = [items EXCEPT ![j] = [items[i] EXCEPT !.location = m]]

\* The character changes when it has shown for its length; a length beyond half
\* of WORD is negative, and the character changes with every tick.
Ticked(it) ==
    LET left == (it.countdown - 1) % WORD
        flip == [it EXCEPT !.status = 1 - it.status]
    IN  IF left \in 1 .. WORD \div 2 - 1 THEN [it EXCEPT !.countdown = left]
                                         ELSE [flip EXCEPT !.countdown = CurrentLength(flip)]

Tick == items' = [i \in DOMAIN items |-> Ticked(items[i])]

Spec == items = <<>> /\ [][AddOnTop \/ RemoveTopmost \/ Sync \/ Tick]_items
=============================================================================
