--------------------------- MODULE KernelSessions ---------------------------
(***************************************************************************)
(* The kernel of module Kernel implements TerminalSessions.  A terminal's  *)
(* stack of programs is not stored anywhere: it is read off the pcbs, from *)
(* the terminal's process along the parent pointers.                       *)
(***************************************************************************)
EXTENDS Kernel, Sequences

\* Given the callers of a parent, outermost first, those of its child.
Extended(chains) ==
    [p \in Pid \cup {NULL} |-> IF p = NULL THEN <<>> ELSE Append(chains[parent[p]], p)]

\* Chain[n][p]: the programs down to p, n of them at most.
Chain[n \in 0 .. MAX_PROCESS] ==
    IF n = 0 THEN [p \in Pid \cup {NULL} |-> <<>>] ELSE Extended(Chain[n - 1])

\* The programs a terminal holds; a chain has no more than MAX_PROCESS members.
Session(t) == Chain[MAX_PROCESS][term_pid[t]]

Abstract == INSTANCE TerminalSessions WITH
    Terminals <- Term,
    Processes <- Pid,
    session   <- [t \in Term |-> Session(t)],
    active    <- active_term_id

\* execute() and halt(), with their parent pointers, reused slots, restarted base
\* shells, Ctrl+C and terminal switches between any two steps, are nothing but
\* pushes and pops on one stack of programs per terminal.
ImplementsSessions == Abstract!Spec
=============================================================================
