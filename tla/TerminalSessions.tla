-------------------------- MODULE TerminalSessions --------------------------
(***************************************************************************)
(* What execute() and halt() promise a user: each terminal holds a stack   *)
(* of programs, its own shell at the bottom.  Running a program pushes a   *)
(* process no terminal holds; ending one pops it and gives its terminal    *)
(* back to the program that started it; the bottom shell never goes away.  *)
(* Only the terminal that has the processor changes its stack, and getting *)
(* the processor may be what ends its top program (Ctrl+C).                *)
(***************************************************************************)
EXTENDS Integers, Sequences

CONSTANTS
    Terminals,      \* terminals, each named by the process of its own shell
    Processes       \* what can be running; contains Terminals

VARIABLES session, active

Held == UNION {{session[t][i] : i \in DOMAIN session[t]} : t \in Terminals}

Init ==
    /\ session = [t \in Terminals |-> <<t>>]
    /\ active \in Terminals

Start(p) ==
    /\ p \notin Held
    /\ session' = [session EXCEPT ![active] = Append(@, p)]
    /\ UNCHANGED active

End(t) ==
    /\ Len(session[t]) > 1
    /\ session' = [session EXCEPT ![t] = SubSeq(@, 1, Len(@) - 1)]
    /\ active' = t

Switch ==
    /\ active' \in Terminals
    /\ UNCHANGED session

Next ==
    \/ \E p \in Processes : Start(p)
    \/ \E t \in Terminals : End(t)
    \/ Switch

Spec == Init /\ [][Next]_<<session, active>>
=============================================================================
