---------------------------- MODULE KernelProofs ----------------------------
(***************************************************************************)
(* Proofs about module Kernel, for every number of terminals and pcb       *)
(* slots.  They are about the kernel without the window between execute()'s *)
(* sti and iret (StiWindow = FALSE): with it, SwitchTargetsLive is false;  *)
(* and with the file "shell" in place (ShellMissing = FALSE): without it   *)
(* the next halt() of a base shell is the end.                             *)
(*                                                                         *)
(* The invariants need each other.  halt() returns to an existing parent   *)
(* only because the halted process is a member of the forest, which is so  *)
(* because the machine runs the active terminal's process; a switch        *)
(* preserves that only because the frame it continues through is live and  *)
(* every existing process has its own stack recorded.                      *)
(*                                                                         *)
(* The second part shows that the kernel implements TerminalSessions: from *)
(* every process the parent pointers lead down to a base shell, so that    *)
(* each terminal's processes are one line, which execute() makes longer    *)
(* and halt() shorter by its last.                                         *)
(***************************************************************************)
EXTENDS KernelSessions, FiniteSetTheorems, WellFoundedInduction, TLAPS

\* The inductive invariant: the conjunction of what the runs check.
KernelInv ==
    /\ TypeOK
    /\ ProcessForest
    /\ MachineFollowsTerminal
    /\ SwitchTargetsLive
    /\ KeyboardInService

-----------------------------------------------------------------------------
(* Constants.                                                               *)

\* What the assumption on the constants says of the numbers.
LEMMA Consts ==
    /\ TERMINAL_COUNT \in Nat /\ TERMINAL_COUNT # 0
    /\ MAX_PROCESS \in Nat /\ TERMINAL_COUNT <= MAX_PROCESS
  BY KernelAssumption

\* The base shells have pids, and the two non-pids are distinct.
LEMMA TermsArePids == Term \subseteq Pid /\ NULL \notin Pid /\ Lost \notin Pid /\ NULL # Lost /\ 0 \in Term
  BY Consts DEF Term, Pid, NULL, Lost
\* halt() and execute() recognise a base shell by its pid alone.
LEMMA BaseShells == \A p \in Pid : p < TERMINAL_COUNT <=> p \in Term
  BY Consts DEF Pid, Term

-----------------------------------------------------------------------------
(* The forest of processes.                                                 *)

\* execute() by a terminal's process, into a free slot, keeps the forest.
LEMMA ForestExecute ==
    ASSUME TypeOK, ProcessForest,
           NEW pid \in Pid, ~present[pid], NEW a \in Term,
           present' = [present EXCEPT ![pid] = TRUE],
           parent' = [parent EXCEPT ![pid] = term_pid[a]],
           term_pid' = [term_pid EXCEPT ![a] = pid]
    PROVE  ProcessForest'
  <1> DEFINE caller == term_pid[a]
  <1>1. caller \in Pid /\ present[caller] /\ caller # pid /\ caller # NULL
    BY TermsArePids DEF TypeOK, ProcessForest
  <1>2. pid \notin Term /\ ~(pid < TERMINAL_COUNT)
    BY BaseShells DEF ProcessForest
  <1>3. \A p \in Pid : present'[p] <=> present[p] \/ p = pid
    BY DEF TypeOK
  <1>4. \A p \in Pid : parent'[p] = IF p = pid THEN caller ELSE parent[p]
    BY DEF TypeOK
  <1>5. \A t \in Term : term_pid'[t] = IF t = a THEN pid ELSE term_pid[t]
    BY DEF TypeOK
  <1>6. \A p \in Pid : present[p] => parent[p] # pid
    BY <1>2, TermsArePids, BaseShells DEF ProcessForest, TypeOK
  <1>7. \A p \in Pid : present[p] => parent[p] # caller
    BY <1>1 DEF ProcessForest, HasChild, Foreground
  <1>8. \A t \in Term : present'[term_pid'[t]]
    BY <1>3, <1>5 DEF ProcessForest, TypeOK
  <1>9. \A t, u \in Term : term_pid'[t] = term_pid'[u] => t = u
    BY <1>5 DEF ProcessForest
  <1>10. \A p \in Term : present'[p]
    BY <1>3, TermsArePids DEF ProcessForest
  <1>11. \A p \in Pid : present'[p] => IF p < TERMINAL_COUNT THEN parent'[p] = NULL
                                    ELSE parent'[p] # NULL /\ present'[parent'[p]]
    BY <1>1, <1>2, <1>3, <1>4 DEF ProcessForest, TypeOK
  <1>12. \A p, q \in Pid : /\ present'[p] /\ present'[q]
                         /\ parent'[p] = parent'[q] /\ parent'[p] # NULL
                         => p = q
    BY <1>1, <1>3, <1>4, <1>7 DEF ProcessForest
  <1>13. \A p \in Pid : HasChild(p)' <=> HasChild(p) \/ p = caller
    BY <1>3, <1>4, ~present[pid] DEF HasChild
  <1>14. \A p \in Pid : Foreground(p)' <=> p = pid \/ (Foreground(p) /\ p # caller)
    BY <1>5, <1>9 DEF Foreground, ProcessForest
  <1>15. \A p \in Pid : present'[p] => (Foreground(p)' <=> ~HasChild(p)')
    BY <1>1, <1>3, <1>6, <1>13, <1>14 DEF ProcessForest, HasChild
  <1>16. QED
    BY <1>8, <1>9, <1>10, <1>11, <1>12, <1>15 DEF ProcessForest

\* halt() of a terminal's process that is no base shell keeps the forest, and the
\* parent it returns to exists and is no terminal's process yet.
LEMMA ForestEnd ==
    ASSUME TypeOK, ProcessForest,
           NEW a \in Term, term_pid[a] \notin Term,
           present' = [present EXCEPT ![term_pid[a]] = FALSE],
           parent' = parent,
           term_pid' = [term_pid EXCEPT ![a] = parent[term_pid[a]]]
    PROVE  /\ ProcessForest'
           /\ parent[term_pid[a]] \in Pid /\ present[parent[term_pid[a]]]
           /\ parent[term_pid[a]] # term_pid[a]
           /\ ~Foreground(parent[term_pid[a]])
  <1> DEFINE p0 == term_pid[a]
             q0 == parent[p0]
  <1>1. p0 \in Pid /\ present[p0] /\ ~(p0 < TERMINAL_COUNT)
    BY BaseShells DEF TypeOK, ProcessForest
  <1>2. q0 \in Pid /\ present[q0] /\ HasChild(q0) /\ q0 # NULL
    BY <1>1 DEF TypeOK, ProcessForest, HasChild
  <1>3. ~HasChild(p0) /\ Foreground(p0) /\ ~Foreground(q0) /\ q0 # p0
    BY <1>1, <1>2 DEF ProcessForest, Foreground
  <1>4. \A p \in Pid : present'[p] <=> present[p] /\ p # p0
    BY <1>1 DEF TypeOK
  <1>5. \A t \in Term : term_pid'[t] = IF t = a THEN q0 ELSE term_pid[t]
    BY DEF TypeOK
  <1>6. \A t, u \in Term : term_pid'[t] = term_pid'[u] => t = u
    BY <1>3, <1>5 DEF ProcessForest, Foreground
  <1>7. \A t \in Term : present'[term_pid'[t]]
    BY <1>2, <1>3, <1>4, <1>5 DEF ProcessForest, TypeOK
  <1>8. \A p \in Term : present'[p]
    BY <1>4, TermsArePids DEF ProcessForest
  <1>9. \A p \in Pid : present'[p] => IF p < TERMINAL_COUNT THEN parent'[p] = NULL
                                    ELSE parent'[p] # NULL /\ present'[parent'[p]]
    BY <1>3, <1>4 DEF ProcessForest, TypeOK, HasChild
  <1>10. \A p, q \in Pid : /\ present'[p] /\ present'[q]
                         /\ parent'[p] = parent'[q] /\ parent'[p] # NULL
                         => p = q
    BY <1>4 DEF ProcessForest
  <1>11. \A p \in Pid : HasChild(p)' <=> HasChild(p) /\ p # q0
    BY <1>1, <1>2, <1>4 DEF HasChild, ProcessForest
  <1>12. \A p \in Pid : Foreground(p)' <=> p = q0 \/ (Foreground(p) /\ p # p0)
    BY <1>5, <1>6 DEF Foreground, ProcessForest
  <1>13. \A p \in Pid : present'[p] => (Foreground(p)' <=> ~HasChild(p)')
    BY <1>4, <1>11, <1>12 DEF ProcessForest
  <1>14. QED
    BY <1>2, <1>3, <1>6, <1>7, <1>8, <1>9, <1>10, <1>13 DEF ProcessForest

-----------------------------------------------------------------------------
(* Machine and pcb table.                                                   *)

\* Wherever a handler is entered, get_current_pcb() is the process of the active
\* terminal.
LEMMA CurrentPcb ==
    ASSUME KernelInv
    PROVE  /\ get_current_pcb = term_pid[active_term_id]
           /\ term_pid[active_term_id] \in Pid
           /\ present[term_pid[active_term_id]]
           /\ esp0[term_pid[active_term_id]] = term_pid[active_term_id]
  BY DEF KernelInv, MachineFollowsTerminal, get_current_pcb, ProcessForest, TypeOK

\* A base shell that is executed again gets its own slot back.
LEMMA BaseSlot ==
    ASSUME TypeOK, ProcessForest, NEW p \in Term, NEW pid \in Pid,
           FirstFree([present EXCEPT ![p] = FALSE], pid)
    PROVE  pid = p
  <1>1. \A q \in Term : q # p => [present EXCEPT ![p] = FALSE][q]
    BY TermsArePids DEF ProcessForest, TypeOK
  <1>2. ~[present EXCEPT ![p] = FALSE][p]
    BY TermsArePids DEF TypeOK
  <1>3. ~(p < pid)
    BY <1>2, TermsArePids DEF FirstFree
  <1>4. pid \in Term
    BY <1>3, Consts DEF Pid, Term
  <1>5. QED
    BY <1>1, <1>4 DEF FirstFree

\* halt() of the process of terminal n, which is active afterwards.
LEMMA HaltPreserves ==
    ASSUME StiWindow = FALSE, ShellMissing = FALSE, KernelInv,
           NEW n \in Term, active_term_id' = n, shown_term_id' = shown_term_id,
           NEW status \in {0, 6, 255},
           NEW stacks \in [Pid -> Pid],
           \A p \in Pid : present[p] => stacks[p] = p,
           ebp' \in [Pid -> Frames],
           \A t \in Term \ {n} : Live(ebp'[term_pid[t]]),
           \A t \in Term \ {n} : ebp'[term_pid[t]].by = "kbd" => irq1_owner = term_pid[t],
           halt(term_pid[n], status, stacks)
    PROVE  KernelInv'
  <1> DEFINE p0 == term_pid[n]
  <1>0. TypeOK /\ ProcessForest /\ MachineFollowsTerminal /\ KeyboardInService
    BY DEF KernelInv
  <1>1. p0 \in Pid /\ present[p0]
    BY <1>0 DEF TypeOK, ProcessForest
  <1>2. to_be_halt' \in [Term -> BOOLEAN]
    BY <1>0 DEF halt, HaltRequestCleared, TypeOK
  <1>3. irq1_owner' = IF irq1_owner = p0 THEN Lost ELSE irq1_owner
    BY DEF halt
  <1>4. irq1_owner' \in Pid \cup {NULL, Lost}
    BY <1>0, <1>3 DEF TypeOK
  <1>5. CASE p0 \in Term
    <2>1. PICK pid \in Pid : /\ FirstFree([present EXCEPT ![p0] = FALSE], pid)
                             /\ Launch(pid, p0, [present EXCEPT ![p0] = FALSE], stacks)
                             /\ UNCHANGED <<exception_occurred, eax>>
      <3>1. ~(p0 >= TERMINAL_COUNT)
        BY <1>1, <1>5, Consts DEF Term
      <3>2. QED
        BY <3>1, ShellMissing = FALSE, Zenon DEF halt
    <2>2. pid = p0
      BY <2>1, <1>0, <1>5, BaseSlot
    <2>3. present' = present
      BY <2>1, <2>2, <1>1, <1>0 DEF Launch, TypeOK
    <2>4. parent' = parent
      BY <2>1, <2>2, <1>0, <1>1, <1>5, BaseShells DEF Launch, TypeOK, ParentPcb, ProcessForest
    <2>5. term_pid' = term_pid
      BY <2>1, <2>2, <1>0 DEF Launch, TypeOK
    <2>6. esp0' = stacks
      BY <2>1, <2>2, <1>1 DEF Launch
    <2>7. user_page' = p0 /\ tss_esp0' = p0 /\ esp' = p0 /\ mode' = "user"
      BY <2>1, <2>2, StiWindow = FALSE DEF Launch
    <2>8. TypeOK'
      BY <2>1, <2>3, <2>4, <2>5, <2>6, <2>7, <1>0, <1>1, <1>2, <1>4 DEF TypeOK, Modes
    <2>9. ProcessForest'
      BY <2>3, <2>4, <2>5, <1>0 DEF ProcessForest, Foreground, HasChild
    <2>10. MachineFollowsTerminal'
      BY <2>3, <2>5, <2>6, <2>7 DEF MachineFollowsTerminal
    <2>11. SwitchTargetsLive'
      BY <2>5 DEF SwitchTargetsLive
    <2>12. KeyboardInService'
      <3>1. irq1_owner' \in Pid => Foreground(irq1_owner)'
        BY <2>5, <1>0, <1>3, TermsArePids DEF KeyboardInService, Foreground
      <3>2. \A t \in Term \ {n} : term_pid[t] # p0
        BY <1>0 DEF ProcessForest
      <3>3. QED
        BY <3>1, <3>2, <2>5, <1>3 DEF KeyboardInService
    <2>13. QED
      BY <2>8, <2>9, <2>10, <2>11, <2>12 DEF KernelInv
  <1>6. CASE p0 \notin Term
    <2> DEFINE q0 == parent[p0]
    <2>1. /\ present' = [present EXCEPT ![p0] = FALSE]
          /\ esp0' = stacks
          /\ term_pid' = [term_pid EXCEPT ![n] = q0]
          /\ user_page' = q0
          /\ tss_esp0' = stacks[q0]
          /\ esp' = q0
          /\ mode' = "kernel"
          /\ eax' = ReturnValue(status)
          /\ exception_occurred' = FALSE
          /\ parent' = parent
      BY <1>1, <1>6, BaseShells DEF halt
    <2>2. /\ ProcessForest'
          /\ q0 \in Pid /\ present[q0] /\ q0 # p0
          /\ ~Foreground(q0)
      BY <2>1, <1>0, <1>6, ForestEnd
    <2>3. \A t \in Term : term_pid'[t] = IF t = n THEN q0 ELSE term_pid[t]
      BY <2>1, <1>0 DEF TypeOK
    <2>4. stacks[q0] = q0
      BY <2>2
    <2>5. TypeOK'
      BY <2>1, <2>2, <2>4, <1>0, <1>1, <1>2, <1>4 DEF TypeOK, Modes, ReturnValue
    <2>6. MachineFollowsTerminal'
      BY <2>1, <2>3, <2>4, <1>0, <1>1 DEF MachineFollowsTerminal, TypeOK
    <2>7. SwitchTargetsLive'
      BY <2>3 DEF SwitchTargetsLive
    <2>8. KeyboardInService'
      <3>1. \A t \in Term \ {n} : term_pid[t] # p0
        BY <1>0 DEF ProcessForest
      <3>2. irq1_owner' \in Pid => Foreground(irq1_owner)'
        BY <2>3, <1>0, <1>3, TermsArePids DEF KeyboardInService, Foreground
      <3>3. QED
        BY <3>1, <3>2, <2>3, <1>3 DEF KeyboardInService
    <2>9. QED
      BY <2>2, <2>5, <2>6, <2>7, <2>8 DEF KernelInv
  <1>7. QED
    BY <1>5, <1>6

\* A switch to terminal n, by the timer or by a function key, up to its effect on
\* the keyboard interrupt in service.
LEMMA ResumePreserves ==
    ASSUME KernelInv, NEW n \in Term, NEW by \in {"pit", "kbd"}, mode # "crashed",
           active_term_id' = n, shown_term_id' \in Term,
           Resume(term_pid[n], SavedFrames(get_current_pcb, by),
                  SavedFrames(get_current_pcb, by)[term_pid[n]]),
           esp0' = SavedStacks(get_current_pcb),
           tss_esp0' = SavedStacks(get_current_pcb)[term_pid[n]],
           user_page' = term_pid[n],
           irq1_owner' \in Pid \cup {NULL, Lost},
           UNCHANGED <<present, parent, term_pid, to_be_halt, exception_occurred, eax>>
    PROVE  /\ TypeOK' /\ ProcessForest' /\ MachineFollowsTerminal' /\ SwitchTargetsLive'
           /\ \A t \in Term \ {n} : ebp'[term_pid[t]] =
                 IF t = active_term_id THEN Frame(by, mode) ELSE ebp[term_pid[t]]
  <1> DEFINE curr == term_pid[active_term_id]
             next == term_pid[n]
  <1>0. TypeOK /\ ProcessForest /\ MachineFollowsTerminal /\ SwitchTargetsLive
    BY DEF KernelInv
  <1>1. /\ get_current_pcb = curr /\ curr \in Pid /\ present[curr] /\ esp0[curr] = curr
        /\ next \in Pid /\ present[next] /\ tss_esp0 = curr
    BY <1>0, CurrentPcb DEF TypeOK, ProcessForest, MachineFollowsTerminal
  <1>2. SavedStacks(get_current_pcb) = esp0
    BY <1>0, <1>1 DEF SavedStacks, TypeOK
  <1>3. Frame(by, mode) \in Frames /\ Live(Frame(by, mode)) /\ StaleFrame \in Frames
    BY <1>0 DEF TypeOK, Frames, Frame, Modes, Live, StaleFrame
  <1>4. /\ SavedFrames(get_current_pcb, by) \in [Pid -> Frames]
        /\ \A p \in Pid : SavedFrames(get_current_pcb, by)[p] =
                             IF p = curr THEN Frame(by, mode) ELSE ebp[p]
    BY <1>0, <1>1, <1>3 DEF SavedFrames, TypeOK
  <1>5. next = curr <=> n = active_term_id
    BY <1>0 DEF TypeOK, ProcessForest
  <1>6. LET f == SavedFrames(get_current_pcb, by)[next] IN Live(f) /\ f \in Frames
    BY <1>0, <1>1, <1>3, <1>4, <1>5 DEF SwitchTargetsLive
  <1>7. /\ ebp' = [SavedFrames(get_current_pcb, by) EXCEPT ![next] = StaleFrame]
        /\ mode' \in Modes
        /\ esp' = next
    BY <1>6 DEF Resume, Frames
  <1>8. ebp' \in [Pid -> Frames] /\ \A p \in Pid : p # next => ebp'[p] =
                 IF p = curr THEN Frame(by, mode) ELSE ebp[p]
    BY <1>3, <1>4, <1>7
  <1>9. \A t \in Term \ {n} : ebp'[term_pid[t]] =
                 IF t = active_term_id THEN Frame(by, mode) ELSE ebp[term_pid[t]]
    BY <1>0, <1>8 DEF TypeOK, ProcessForest
  <1>10. TypeOK'
    BY <1>0, <1>1, <1>2, <1>7, <1>8 DEF TypeOK
  <1>11. ProcessForest'
    BY <1>0 DEF ProcessForest, Foreground, HasChild
  <1>12. MachineFollowsTerminal'
    BY <1>0, <1>1, <1>2, <1>7 DEF MachineFollowsTerminal, Modes
  <1>13. SwitchTargetsLive'
    BY <1>0, <1>3, <1>9 DEF SwitchTargetsLive
  <1>14. QED
    BY <1>9, <1>10, <1>11, <1>12, <1>13

\* The round robin stays among the terminals.
LEMMA NextTermType ==
    ASSUME active_term_id \in Term
    PROVE  NextTerm \in Term
  BY Consts DEF NextTerm, Term

-----------------------------------------------------------------------------
(* One lemma per kind of step.                                              *)

\* pit_handler(): it resumes the next process or halts it.
LEMMA PitPreserves ==
    ASSUME StiWindow = FALSE, ShellMissing = FALSE, KernelInv, pit_handler
    PROVE  KernelInv'
  <1> DEFINE n == NextTerm
             curr == get_current_pcb
             next == term_pid[n]
             frames == SavedFrames(curr, "pit")
             stacks == SavedStacks(curr)
             f == frames[next]
  <1>0. TypeOK /\ ProcessForest /\ MachineFollowsTerminal /\ SwitchTargetsLive /\ KeyboardInService
    BY DEF KernelInv
  <1>1. n \in Term /\ active_term_id' = n /\ shown_term_id' = shown_term_id /\ mode # "crashed"
    BY <1>0, NextTermType DEF TypeOK, pit_handler
  <1>2. /\ curr = term_pid[active_term_id] /\ curr \in Pid /\ tss_esp0 = curr /\ esp0[curr] = curr
        /\ next \in Pid /\ (next = curr <=> n = active_term_id)
    BY <1>0, <1>1, CurrentPcb DEF TypeOK, MachineFollowsTerminal, ProcessForest
  <1>3. Frame("pit", mode) \in Frames /\ Live(Frame("pit", mode)) /\ StaleFrame \in Frames
        /\ Frame("pit", mode).by = "pit"
    BY <1>0, <1>1 DEF TypeOK, Frames, Frame, Modes, Live, StaleFrame
  <1>4. /\ frames \in [Pid -> Frames]
        /\ \A p \in Pid : frames[p] = IF p = curr THEN Frame("pit", mode) ELSE ebp[p]
    BY <1>0, <1>2, <1>3 DEF SavedFrames, TypeOK
  <1>5. CASE /\ Resume(next, frames, f)
             /\ esp0' = stacks
             /\ tss_esp0' = stacks[next]
             /\ user_page' = next
             /\ irq1_owner' = EoiOnReturn(f)
             /\ UNCHANGED <<present, parent, term_pid, to_be_halt, exception_occurred, eax>>
    <2>1. irq1_owner' \in Pid \cup {NULL, Lost}
      BY <1>0, <1>5 DEF TypeOK, EoiOnReturn
    <2>2. /\ TypeOK' /\ ProcessForest' /\ MachineFollowsTerminal' /\ SwitchTargetsLive'
          /\ \A t \in Term \ {n} : ebp'[term_pid[t]] =
                 IF t = active_term_id THEN Frame("pit", mode) ELSE ebp[term_pid[t]]
      BY <1>0, <1>1, <1>5, <2>1, ResumePreserves DEF TypeOK
    <2>3. KeyboardInService'
      <3>1. f.by = "kbd" => n # active_term_id /\ irq1_owner = next
        BY <1>0, <1>1, <1>2, <1>3, <1>4 DEF KeyboardInService
      <3>2. irq1_owner' \in Pid => Foreground(irq1_owner)'
        BY <1>0, <1>5, TermsArePids DEF KeyboardInService, EoiOnReturn, Foreground
      <3>3. ASSUME NEW t \in Term \ {n}, ebp'[term_pid[t]].by = "kbd"
            PROVE  irq1_owner' = term_pid[t]
        <4>1. t # active_term_id /\ ebp[term_pid[t]].by = "kbd"
          BY <2>2, <3>3, <1>3
        <4>2. irq1_owner = term_pid[t] /\ irq1_owner # next
          BY <4>1, <1>0, <1>1 DEF KeyboardInService, ProcessForest
        <4>3. QED
          BY <4>2, <3>1, <1>5 DEF EoiOnReturn
      <3>4. QED
        BY <3>2, <3>3, <1>1, <1>5 DEF KeyboardInService
    <2>4. QED
      BY <2>2, <2>3 DEF KernelInv
  <1>6. CASE ebp' = [frames EXCEPT ![next] = StaleFrame] /\ halt(next, 6, stacks)
    <2>1. stacks = esp0
      BY <1>0, <1>2 DEF SavedStacks, TypeOK
    <2>2. stacks \in [Pid -> Pid] /\ \A p \in Pid : present[p] => stacks[p] = p
      BY <1>0, <2>1 DEF TypeOK, MachineFollowsTerminal
    <2>3. ebp' \in [Pid -> Frames]
      BY <1>3, <1>4, <1>6
    <2>4. \A t \in Term \ {n} : ebp'[term_pid[t]] =
                 IF t = active_term_id THEN Frame("pit", mode) ELSE ebp[term_pid[t]]
      <3>1. \A t \in Term \ {n} : term_pid[t] \in Pid /\ term_pid[t] # next
        BY <1>0, <1>1 DEF TypeOK, ProcessForest
      <3>2. \A t \in Term : term_pid[t] = curr <=> t = active_term_id
        BY <1>0, <1>2 DEF TypeOK, ProcessForest
      <3>3. QED
        BY <3>1, <3>2, <1>4, <1>6
    <2>5. \A t \in Term \ {n} : Live(ebp'[term_pid[t]])
      BY <2>4, <1>0, <1>3 DEF SwitchTargetsLive
    <2>6. \A t \in Term \ {n} : ebp'[term_pid[t]].by = "kbd" => irq1_owner = term_pid[t]
      BY <2>4, <1>0, <1>3 DEF KeyboardInService
    <2>7. QED
      BY <1>1, <1>6, <2>2, <2>3, <2>5, <2>6, HaltPreserves
  <1>7. QED
    BY <1>5, <1>6 DEF pit_handler

\* switch_terminal(): no process was inside keyboard_handler() before.
LEMMA SwitchPreserves ==
    ASSUME KernelInv, NEW n \in Term, switch_terminal(n)
    PROVE  KernelInv'
  <1> DEFINE curr == get_current_pcb
             frames == SavedFrames(curr, "kbd")
  <1>0. TypeOK /\ ProcessForest /\ MachineFollowsTerminal /\ SwitchTargetsLive /\ KeyboardInService
    BY DEF KernelInv
  <1>1. /\ mode # "crashed" /\ irq1_owner = NULL
        /\ active_term_id' = n /\ shown_term_id' = n
        /\ Resume(term_pid[n], frames, frames[term_pid[n]])
        /\ esp0' = SavedStacks(curr)
        /\ tss_esp0' = SavedStacks(curr)[term_pid[n]]
        /\ user_page' = term_pid[n]
        /\ irq1_owner' = curr
        /\ UNCHANGED <<present, parent, term_pid, to_be_halt, exception_occurred, eax>>
    BY DEF switch_terminal, KeyboardReady
  <1>2. curr = term_pid[active_term_id] /\ curr \in Pid
    BY CurrentPcb
  <1>3. /\ TypeOK' /\ ProcessForest' /\ MachineFollowsTerminal' /\ SwitchTargetsLive'
        /\ \A t \in Term \ {n} : ebp'[term_pid[t]] =
               IF t = active_term_id THEN Frame("kbd", mode) ELSE ebp[term_pid[t]]
    BY <1>1, <1>2, ResumePreserves
  <1>4. KeyboardInService'
    <2>1. \A t \in Term \ {active_term_id} : ebp[term_pid[t]].by # "kbd"
      BY <1>0, <1>1, TermsArePids DEF KeyboardInService, TypeOK
    <2>2. Foreground(irq1_owner)'
      BY <1>0, <1>1, <1>2 DEF Foreground, TypeOK
    <2>3. QED
      BY <2>1, <2>2, <1>1, <1>2, <1>3 DEF KeyboardInService
  <1>5. QED
    BY <1>3, <1>4 DEF KernelInv

\* execute(): the new process takes a slot that is no base shell's.
LEMMA ExecutePreserves ==
    ASSUME StiWindow = FALSE, ShellMissing = FALSE, KernelInv, Execute
    PROVE  KernelInv'
  <1> DEFINE a == active_term_id
             caller == term_pid[a]
  <1>0. TypeOK /\ ProcessForest /\ MachineFollowsTerminal /\ SwitchTargetsLive /\ KeyboardInService
    BY DEF KernelInv
  <1>1. a \in Term /\ caller \in Pid /\ esp = caller /\ irq1_owner # caller
    BY <1>0 DEF Execute, Running, get_current_pcb, TypeOK, MachineFollowsTerminal
  <1>2. PICK pid \in Pid : FirstFree(present, pid) /\ Launch(pid, caller, present, esp0)
    BY <1>1 DEF Execute
  <1>3. ~present[pid] /\ pid \notin Term /\ ~(pid < TERMINAL_COUNT)
    BY <1>0, <1>2, BaseShells DEF FirstFree, ProcessForest
  <1>4. /\ UNCHANGED <<active_term_id, shown_term_id, ebp, to_be_halt, irq1_owner,
                       exception_occurred, eax>>
        /\ present' = [present EXCEPT ![pid] = TRUE]
        /\ parent' = [parent EXCEPT ![pid] = caller]
        /\ esp0' = [esp0 EXCEPT ![pid] = pid]
        /\ term_pid' = [term_pid EXCEPT ![a] = pid]
        /\ user_page' = pid /\ tss_esp0' = pid /\ esp' = caller /\ mode' = "user"
    BY <1>2, <1>3, StiWindow = FALSE DEF Execute, Launch, ParentPcb
  <1>5. TypeOK'
    BY <1>0, <1>1, <1>4 DEF TypeOK, Modes
  <1>6. ProcessForest'
    BY <1>0, <1>1, <1>3, <1>4, ForestExecute
  <1>7. MachineFollowsTerminal'
    BY <1>0, <1>1, <1>4 DEF MachineFollowsTerminal, TypeOK
  <1>8. \A t \in Term : term_pid'[t] = IF t = a THEN pid ELSE term_pid[t]
    BY <1>0, <1>4 DEF TypeOK
  <1>9. SwitchTargetsLive'
    BY <1>0, <1>4, <1>8 DEF SwitchTargetsLive
  <1>10. KeyboardInService'
    BY <1>0, <1>1, <1>4, <1>8 DEF KeyboardInService, Foreground
  <1>11. QED
    BY <1>5, <1>6, <1>7, <1>9, <1>10 DEF KernelInv

\* The steps that leave the pcbs, the terminals' processes and the TSS alone.
LEMMA ModeChangePreserves ==
    ASSUME KernelInv,
           mode' \in Modes,
           esp' \in Pid, mode' # "user" => esp' = get_current_pcb,
           irq1_owner' = irq1_owner \/ (irq1_owner' = NULL /\ irq1_owner = get_current_pcb),
           eax' \in {-1, 0, 6, 255, 256},
           exception_occurred' \in BOOLEAN,
           to_be_halt' \in [Term -> BOOLEAN],
           UNCHANGED <<pcbVars, term_pid, active_term_id, shown_term_id, tss_esp0, user_page>>
    PROVE  KernelInv'
  <1>0. TypeOK /\ ProcessForest /\ MachineFollowsTerminal /\ SwitchTargetsLive /\ KeyboardInService
    BY DEF KernelInv
  <1>1. get_current_pcb = term_pid[active_term_id] /\ get_current_pcb \in Pid
    BY CurrentPcb
  <1>2. TypeOK'
    <2>1. irq1_owner' \in Pid \cup {NULL, Lost}
      BY <1>0 DEF TypeOK
    <2>2. QED
      BY <1>0, <2>1 DEF TypeOK, pcbVars
  <1>3. ProcessForest'
    BY <1>0 DEF ProcessForest, HasChild, Foreground, pcbVars
  <1>4. MachineFollowsTerminal'
    BY <1>0, <1>1 DEF MachineFollowsTerminal, Modes, pcbVars
  <1>5. SwitchTargetsLive'
    BY <1>0 DEF SwitchTargetsLive, pcbVars
  <1>6. KeyboardInService'
    <2>1. irq1_owner' \in Pid => Foreground(irq1_owner)'
      BY <1>0, TermsArePids DEF KeyboardInService, Foreground
    <2>2. \A t \in Term \ {active_term_id} : term_pid[t] # get_current_pcb
      BY <1>0, <1>1 DEF ProcessForest, TypeOK
    <2>3. QED
      BY <1>0, <2>1, <2>2 DEF KeyboardInService, pcbVars
  <1>7. QED
    BY <1>2, <1>3, <1>4, <1>5, <1>6 DEF KernelInv

\* halt() as a system call or out of an exception handler.
LEMMA HaltCallPreserves ==
    ASSUME StiWindow = FALSE, ShellMissing = FALSE, KernelInv, HaltCall \/ ExceptionHalt
    PROVE  KernelInv'
  <1>0. TypeOK /\ MachineFollowsTerminal /\ SwitchTargetsLive /\ KeyboardInService
    BY DEF KernelInv
  <1>1. /\ UNCHANGED <<active_term_id, shown_term_id, ebp>>
        /\ esp = term_pid[active_term_id]
    BY <1>0 DEF HaltCall, ExceptionHalt, Running, MachineFollowsTerminal
  <1>2. /\ active_term_id \in Term
        /\ esp0 \in [Pid -> Pid] /\ \A p \in Pid : present[p] => esp0[p] = p
        /\ ebp' \in [Pid -> Frames]
    BY <1>0, <1>1 DEF TypeOK, MachineFollowsTerminal
  <1>3. /\ \A t \in Term \ {active_term_id} : Live(ebp'[term_pid[t]])
        /\ \A t \in Term \ {active_term_id} :
               ebp'[term_pid[t]].by = "kbd" => irq1_owner = term_pid[t]
    BY <1>0, <1>1 DEF SwitchTargetsLive, KeyboardInService
  <1>4. CASE HaltCall
    <2>1. halt(term_pid[active_term_id], 0, esp0)
      BY <1>1, <1>4 DEF HaltCall, halt, Launch, ParentPcb
    <2>2. QED
      BY <1>1, <1>2, <1>3, <2>1, HaltPreserves
  <1>5. CASE ExceptionHalt
    <2>1. halt(term_pid[active_term_id], 255, esp0)
      BY <1>1, <1>5 DEF ExceptionHalt, halt, Launch, ParentPcb
    <2>2. QED
      BY <1>1, <1>2, <1>3, <2>1, HaltPreserves
  <1>6. QED
    BY <1>4, <1>5

\* Every step of the kernel preserves the invariant.
LEMMA NextPreserves ==
    ASSUME StiWindow = FALSE, ShellMissing = FALSE, KernelInv, [Next]_vars
    PROVE  KernelInv'
  <1>0. TypeOK /\ MachineFollowsTerminal
    BY DEF KernelInv
  <1>1. /\ get_current_pcb \in Pid /\ esp \in Pid /\ tss_esp0 \in Pid
        /\ to_be_halt \in [Term -> BOOLEAN]
        /\ eax \in {-1, 0, 6, 255, 256} /\ exception_occurred \in BOOLEAN
        /\ mode \in Modes
        /\ mode # "user" => get_current_pcb = esp
        /\ mode = "user" => get_current_pcb = tss_esp0
    BY <1>0 DEF get_current_pcb, TypeOK, MachineFollowsTerminal
  <1> USE DEF termVars, cpuVars, Running
  <1>2. CASE SystemCall
    BY <1>1, <1>2, ModeChangePreserves DEF SystemCall, Modes
  <1>3. CASE SystemCallReturn
    BY <1>1, <1>3, ModeChangePreserves DEF SystemCallReturn, Modes
  <1>4. CASE ExecuteFails
    BY <1>1, <1>4, ModeChangePreserves DEF ExecuteFails, Modes
  <1>5. CASE ExecuteIret
    BY <1>1, <1>5, ModeChangePreserves DEF ExecuteIret, Modes
  <1>6. CASE Exception
    BY <1>1, <1>6, ModeChangePreserves DEF Exception, Modes
  <1>7. CASE ExceptionRecorded
    BY <1>1, <1>7, ModeChangePreserves DEF ExceptionRecorded, Modes
  <1>8. CASE Execute
    BY <1>8, ExecutePreserves
  <1>9. CASE HaltCall \/ ExceptionHalt
    BY <1>9, HaltCallPreserves
  <1>10. CASE pit_handler
    BY <1>10, PitPreserves
  <1>11. CASE KeyCtrlC
    <2>1. to_be_halt' \in [Term -> BOOLEAN]
      BY <1>0, <1>11 DEF KeyCtrlC, TypeOK
    <2>2. QED
      BY <1>1, <1>11, <2>1, ModeChangePreserves DEF KeyCtrlC
  <1>12. CASE \E n \in Term : switch_terminal(n)
    BY <1>12, SwitchPreserves
  <1>13. CASE KeyboardEoi
    BY <1>1, <1>13, ModeChangePreserves DEF KeyboardEoi
  <1>14. CASE UNCHANGED vars
    BY <1>1, <1>14, ModeChangePreserves DEF vars
  <1>15. QED
    BY <1>2, <1>3, <1>4, <1>5, <1>6, <1>7, <1>8, <1>9, <1>10, <1>11, <1>12, <1>13, <1>14
       DEF Next, ProcessStep, keyboard_handler

\* initiate_shells() establishes the invariant.
LEMMA InitKernelInv == Init => KernelInv
  <1> SUFFICES ASSUME Init PROVE KernelInv
    OBVIOUS
  <1>1. TypeOK
    <2>1. present \in [Pid -> BOOLEAN] /\ parent \in [Pid -> Pid \cup {NULL}]
      BY DEF Init
    <2>2. ebp \in [Pid -> Frames]
      BY Zenon DEF Init, Frames, Frame, Modes
    <2>3. /\ esp0 \in [Pid -> Pid] /\ term_pid \in [Term -> Pid]
          /\ to_be_halt \in [Term -> BOOLEAN]
      BY TermsArePids DEF Init
    <2>4. QED
      BY <2>1, <2>2, <2>3, TermsArePids DEF Init, TypeOK, Modes
  <1>2. /\ \A p \in Pid : /\ present[p] <=> p \in Term
                          /\ parent[p] = NULL
                          /\ esp0[p] = IF p \in Term THEN p ELSE 0
        /\ \A t \in Term : term_pid[t] = t
    BY BaseShells DEF Init
  <1>3. ProcessForest
    BY <1>2, TermsArePids, BaseShells DEF ProcessForest, Foreground, HasChild
  <1>4. MachineFollowsTerminal
    BY <1>2, TermsArePids DEF Init, MachineFollowsTerminal
  <1>5. \A t \in Term \ {0} : ebp[term_pid[t]] = Frame("boot", "user")
    BY <1>2, TermsArePids DEF Init
  <1>6. SwitchTargetsLive
    BY <1>5 DEF Init, SwitchTargetsLive, Live, Frame
  <1>7. KeyboardInService
    BY <1>5, TermsArePids DEF Init, KeyboardInService, Frame
  <1>8. QED
    BY <1>1, <1>3, <1>4, <1>6, <1>7 DEF KernelInv

-----------------------------------------------------------------------------
(* The theorems.                                                            *)

\* The inductive invariant holds in every reachable state.
THEOREM KernelInvariant ==
    ASSUME StiWindow = FALSE, ShellMissing = FALSE
    PROVE  Spec => []KernelInv
  <1>1. KernelInv /\ [Next]_vars => KernelInv'
    BY NextPreserves
  <1>2. QED
    BY <1>1, InitKernelInv, PTL DEF Spec

\* pcb, terminal and machine state stay well typed; in particular halt() never
\* follows a NULL parent.
THEOREM TypeCorrect ==
    ASSUME StiWindow = FALSE, ShellMissing = FALSE
    PROVE  Spec => []TypeOK
  <1>1. KernelInv => TypeOK
    BY DEF KernelInv
  <1>2. QED
    BY <1>1, KernelInvariant, PTL

\* The processes are one line of callers per terminal, for any number of
\* terminals and slots.
THEOREM ForestCorrect ==
    ASSUME StiWindow = FALSE, ShellMissing = FALSE
    PROVE  Spec => []ProcessForest
  <1>1. KernelInv => ProcessForest
    BY DEF KernelInv
  <1>2. QED
    BY <1>1, KernelInvariant, PTL

\* The page, the TSS and the stack in use always belong to the active terminal's
\* process, and no switch crashes the machine.
THEOREM MachineCorrect ==
    ASSUME StiWindow = FALSE, ShellMissing = FALSE
    PROVE  Spec => []MachineFollowsTerminal
  <1>1. KernelInv => MachineFollowsTerminal
    BY DEF KernelInv
  <1>2. QED
    BY <1>1, KernelInvariant, PTL

\* Every terminal that is not active can be switched to.
THEOREM SwitchCorrect ==
    ASSUME StiWindow = FALSE, ShellMissing = FALSE
    PROVE  Spec => []SwitchTargetsLive
  <1>1. KernelInv => SwitchTargetsLive
    BY DEF KernelInv
  <1>2. QED
    BY <1>1, KernelInvariant, PTL

\* A keyboard interrupt in service belongs to a terminal's process.
THEOREM KeyboardCorrect ==
    ASSUME StiWindow = FALSE, ShellMissing = FALSE
    PROVE  Spec => []KeyboardInService
  <1>1. KernelInv => KeyboardInService
    BY DEF KernelInv
  <1>2. QED
    BY <1>1, KernelInvariant, PTL

\* What keeps the EOI when the user never presses Ctrl+C: no request is pending.
NoHaltRequest ==
    /\ \A t \in Term : ~to_be_halt[t]
    /\ EoiNotLost

\* Only the timer's halt(6) can halt a process inside keyboard_handler(): without
\* Ctrl+C the EOI of a keyboard interrupt is never lost.
THEOREM EoiKeptWithoutCtrlC ==
    ASSUME StiWindow = FALSE, ShellMissing = FALSE, CtrlC = FALSE
    PROVE  Spec => []EoiNotLost
  <1>1. Init => NoHaltRequest
    BY TermsArePids DEF Init, NoHaltRequest, EoiNotLost
  <1>2. ASSUME KernelInv, NoHaltRequest, [Next]_vars
        PROVE  NoHaltRequest'
    <2>0. TypeOK /\ MachineFollowsTerminal
      BY <1>2 DEF KernelInv
    <2>1. /\ get_current_pcb \in Pid /\ irq1_owner # Lost
          /\ \A t \in Term : ~to_be_halt[t]
          /\ NextTerm \in Term
      BY <1>2, <2>0, CurrentPcb, NextTermType DEF NoHaltRequest, EoiNotLost, TypeOK
    <2>2. CASE UNCHANGED <<to_be_halt, irq1_owner>>
      BY <2>1, <2>2 DEF NoHaltRequest, EoiNotLost
    <2>3. CASE HaltCall \/ ExceptionHalt
      <3>1. irq1_owner # esp
        BY <2>3 DEF HaltCall, ExceptionHalt, Running, get_current_pcb
      <3>2. active_term_id' = active_term_id
        BY <2>3 DEF HaltCall, ExceptionHalt
      <3>3. /\ to_be_halt' = [to_be_halt EXCEPT ![active_term_id'] = FALSE]
            /\ irq1_owner' = IF irq1_owner = esp THEN Lost ELSE irq1_owner
        BY <2>3 DEF HaltCall, ExceptionHalt, halt, HaltRequestCleared
      <3>4. QED
        BY <2>0, <2>1, <3>1, <3>2, <3>3 DEF NoHaltRequest, EoiNotLost, TypeOK
    <2>4. CASE pit_handler
      <3>1. to_be_halt' = to_be_halt /\ irq1_owner' \in {NULL, irq1_owner}
        BY <2>1, <2>4 DEF pit_handler, EoiOnReturn
      <3>2. QED
        BY <2>1, <3>1, TermsArePids DEF NoHaltRequest, EoiNotLost
    <2>5. CASE \E n \in Term : switch_terminal(n)
      <3>1. to_be_halt' = to_be_halt /\ irq1_owner' = get_current_pcb
        BY <2>5 DEF switch_terminal
      <3>2. QED
        BY <2>1, <3>1, TermsArePids DEF NoHaltRequest, EoiNotLost
    <2>6. CASE KeyboardEoi
      <3>1. to_be_halt' = to_be_halt /\ irq1_owner' = NULL
        BY <2>6 DEF KeyboardEoi, termVars
      <3>2. QED
        BY <2>1, <3>1, TermsArePids DEF NoHaltRequest, EoiNotLost
    <2>7. CASE ProcessStep /\ ~HaltCall /\ ~ExceptionHalt
      <3>1. UNCHANGED <<to_be_halt, irq1_owner>>
        BY <2>7 DEF ProcessStep, SystemCall, SystemCallReturn, Execute, ExecuteFails,
                    ExecuteIret, Exception, ExceptionRecorded, termVars
      <3>2. QED
        BY <3>1, <2>2
    <2>8. ~KeyCtrlC
      BY CtrlC = FALSE DEF KeyCtrlC
    <2>9. CASE UNCHANGED vars
      BY <2>2, <2>9 DEF vars, termVars
    <2>10. QED
      BY <1>2, <2>3, <2>4, <2>5, <2>6, <2>7, <2>8, <2>9 DEF Next, keyboard_handler
  <1>3. NoHaltRequest => EoiNotLost
    BY DEF NoHaltRequest
  <1>4. QED
    BY <1>1, <1>2, <1>3, KernelInvariant, PTL DEF Spec

-----------------------------------------------------------------------------
(* The stacks of programs.  Chain is a recursive function: that its equation   *)
(* has a solution, and that it finds the line of callers of a terminal's       *)
(* process, is proved by induction over a set of numbers.                      *)

\* Induction over the natural numbers, for the members of a set.
LEMMA SetInduction ==
    ASSUME NEW S, 0 \in S, \A n \in Nat : n \in S => n + 1 \in S
    PROVE  Nat \subseteq S
  <1> SUFFICES ASSUME Nat \ S # {} PROVE FALSE
    OBVIOUS
  <1>1. PICK x \in Nat \ S : \A y \in Nat \ S : ~(<<y, x>> \in OpToRel(<, Nat))
    <2>1. Nat \ S \subseteq Nat
      OBVIOUS
    <2>2. QED
      BY <2>1, NatLessThanWellFounded, WFMin, Zenon
  <1>2. x # 0 /\ x - 1 \in Nat /\ x - 1 < x /\ (x - 1) + 1 = x
    <2>1. x \in Nat /\ x \notin S
      OBVIOUS
    <2>2. x # 0
      BY <2>1
    <2>3. QED
      BY <2>1, <2>2
  <1>3. x - 1 \notin S
    BY <1>2
  <1>4. <<x - 1, x>> \in OpToRel(<, Nat)
    BY <1>1, <1>2 DEF OpToRel
  <1>5. QED
    BY <1>1, <1>2, <1>3, <1>4

\* The equation that defines Chain has a solution.
LEMMA ChainEquation ==
    Chain = [n \in 0 .. MAX_PROCESS |->
                IF n = 0 THEN [p \in Pid \cup {NULL} |-> <<>>] ELSE Extended(Chain[n - 1])]
  <1> DEFINE base == [p \in Pid \cup {NULL} |-> <<>>]
             Solves(g, m) == g = [n \in 0 .. m |-> IF n = 0 THEN base ELSE Extended(g[n - 1])]
             S == {m \in Nat : \E g : Solves(g, m)}
  <1> HIDE DEF base
  <1>1. 0 \in S
    <2> DEFINE g0 == [n \in 0 .. 0 |-> base]
    <2>1. Solves(g0, 0)
      OBVIOUS
    <2>2. 0 \in Nat
      OBVIOUS
    <2>3. QED
      BY <2>1, <2>2, Zenon
  <1>2. ASSUME NEW m \in Nat, m \in S
        PROVE  m + 1 \in S
    <2>1. PICK g : Solves(g, m)
      BY <1>2
    <2> DEFINE h == [n \in 0 .. (m + 1) |-> IF n = m + 1 THEN Extended(g[m]) ELSE g[n]]
    <2>2. \A n \in 0 .. (m + 1) : h[n] = IF n = 0 THEN base ELSE Extended(h[n - 1])
      <3> SUFFICES ASSUME NEW n \in 0 .. (m + 1)
                   PROVE  h[n] = IF n = 0 THEN base ELSE Extended(h[n - 1])
        OBVIOUS
      <3>1. CASE n = m + 1
        <4>1. h[n] = Extended(g[m]) /\ n # 0
          BY <3>1
        <4>2. n - 1 = m /\ n - 1 \in 0 .. (m + 1) /\ n - 1 # m + 1
          BY <3>1
        <4>3. h[n - 1] = g[m]
          BY <4>2
        <4>4. QED
          BY <4>1, <4>3
      <3>2. CASE n # m + 1
        <4>1. n \in 0 .. m
          BY <3>2
        <4>2. h[n] = g[n]
          BY <3>2
        <4>3. g[n] = IF n = 0 THEN base ELSE Extended(g[n - 1])
          BY <2>1, <4>1
        <4>4. n # 0 => h[n - 1] = g[n - 1]
          BY <4>1
        <4>5. QED
          BY <4>2, <4>3, <4>4
      <3>3. QED
        BY <3>1, <3>2
    <2>3. Solves(h, m + 1)
      <3> HIDE DEF h
      <3>1. h = [n \in 0 .. (m + 1) |-> h[n]]
        BY DEF h
      <3>2. QED
        BY <3>1, <2>2, Zenon
    <2>4. m + 1 \in Nat
      OBVIOUS
    <2>5. QED
      BY <2>3, <2>4, Zenon
  <1>3. MAX_PROCESS \in S
    <2> HIDE DEF S
    <2>1. QED
      BY <1>1, <1>2, SetInduction, Consts
  <1>4. \E g : Solves(g, MAX_PROCESS)
    BY <1>3
  <1>5. QED
    BY <1>4, Zenon DEF Chain, base

-----------------------------------------------------------------------------
(* Lines of callers.                                                        *)

\* s lists the callers of p, outermost first, and p itself.
IsLine(s, p) ==
    /\ s \in Seq(Pid) /\ Len(s) >= 1
    /\ s[Len(s)] = p
    /\ parent[s[1]] = NULL
    /\ \A i \in 2 .. Len(s) : parent[s[i]] = s[i - 1]
    /\ \A i \in 1 .. Len(s) : present[s[i]]
    /\ \A i, j \in 1 .. Len(s) : s[i] = s[j] => i = j

\* Every terminal's stack of programs is the line of callers of its process.
SessionsAreLines == \A t \in Term : IsLine(Session(t), term_pid[t])

\* What Chain gives for a process and for no process.
LEMMA ChainSteps ==
    TypeOK =>
        /\ \A q \in Pid \cup {NULL} : Chain[0][q] = <<>>
        /\ \A n \in 1 .. MAX_PROCESS : Chain[n][NULL] = <<>>
        /\ \A n \in 1 .. MAX_PROCESS : \A q \in Pid :
               Chain[n][q] = Append(Chain[n - 1][parent[q]], q)
  <1>1. 0 \in 0 .. MAX_PROCESS
    BY Consts
  <1>2. Chain[0] = [q \in Pid \cup {NULL} |-> <<>>]
    BY <1>1, ChainEquation
  <1>3. \A n \in 1 .. MAX_PROCESS : Chain[n] = Extended(Chain[n - 1])
    <2> TAKE n \in 1 .. MAX_PROCESS
    <2>1. n \in 0 .. MAX_PROCESS /\ n # 0
      BY Consts
    <2>2. QED
      BY <2>1, ChainEquation
  <1>4. NULL \notin Pid
    BY TermsArePids
  <1>5. QED
    BY <1>2, <1>3, <1>4 DEF Extended

\* A line has distinct members, so it is no longer than the pcb table.
LEMMA LineBounded ==
    ASSUME NEW s \in Seq(Pid), \A i, j \in 1 .. Len(s) : s[i] = s[j] => i = j
    PROVE  Len(s) <= MAX_PROCESS
  <1>1. IsFiniteSet(Pid) /\ Cardinality(Pid) = MAX_PROCESS
    <2> DEFINE last == MAX_PROCESS - 1
    <2>1. last \in Int /\ Pid = 0 .. last /\ (IF 0 > last THEN 0 ELSE last - 0 + 1) = MAX_PROCESS
      BY Consts DEF Pid
    <2> HIDE DEF last
    <2>2. QED
      BY <2>1, FS_Interval
  <1>2. IsFiniteSet(1 .. Len(s)) /\ Cardinality(1 .. Len(s)) = Len(s)
    <2> DEFINE len == Len(s)
    <2>1. len \in Int /\ (IF 1 > len THEN 0 ELSE len - 1 + 1) = len
      OBVIOUS
    <2> HIDE DEF len
    <2>2. IsFiniteSet(1 .. len) /\ Cardinality(1 .. len) = len
      BY <2>1, FS_Interval
    <2>3. QED
      BY <2>2 DEF len
  <1>3. s \in Injection(1 .. Len(s), Pid)
    <2>1. s \in [1 .. Len(s) -> Pid]
      OBVIOUS
    <2>2. QED
      BY <2>1 DEF Injection, IsInjective
  <1>4. Cardinality(1 .. Len(s)) <= Cardinality(Pid)
    BY <1>1, <1>3, FS_Injection
  <1>5. QED
    BY <1>1, <1>2, <1>4

\* There is one line to a process, and Chain finds it.
LEMMA ChainOfLine ==
    TypeOK => \A s, p : IsLine(s, p) => Chain[MAX_PROCESS][p] = s
  <1> SUFFICES ASSUME TypeOK, NEW s, NEW p, IsLine(s, p)
               PROVE  Chain[MAX_PROCESS][p] = s
    OBVIOUS
  <1>1. s \in Seq(Pid) /\ Len(s) \in Nat /\ Len(s) >= 1 /\ s[Len(s)] = p /\ parent[s[1]] = NULL
        /\ \A i \in 2 .. Len(s) : parent[s[i]] = s[i - 1]
    BY DEF IsLine
  <1>2. Len(s) <= MAX_PROCESS
    BY LineBounded DEF IsLine
  <1>3. \A n \in 0 .. MAX_PROCESS : Chain[n][NULL] = <<>>
    BY ChainSteps
  <1> DEFINE S == {k \in Nat : k \in 1 .. Len(s) =>
                      \A n \in k .. MAX_PROCESS : Chain[n][s[k]] = SubSeq(s, 1, k)}
  <1>4. 0 \in S
    OBVIOUS
  <1>5. ASSUME NEW k \in Nat, k \in S
        PROVE  k + 1 \in S
    <2> SUFFICES ASSUME k + 1 \in 1 .. Len(s), NEW n \in (k + 1) .. MAX_PROCESS
                 PROVE  Chain[n][s[k + 1]] = SubSeq(s, 1, k + 1)
      OBVIOUS
    <2>1. s[k + 1] \in Pid /\ n \in 1 .. MAX_PROCESS
      BY <1>1
    <2>2. Chain[n][s[k + 1]] = Append(Chain[n - 1][parent[s[k + 1]]], s[k + 1])
      BY <2>1, ChainSteps
    <2>3. SubSeq(s, 1, k + 1) = Append(SubSeq(s, 1, k), s[k + 1])
      BY <1>1
    <2>4. Chain[n - 1][parent[s[k + 1]]] = SubSeq(s, 1, k)
      <3>1. CASE k = 0
        <4>1. SubSeq(s, 1, k) = <<>>
          BY <3>1, <1>1
        <4>2. k + 1 = 1 /\ n - 1 \in 0 .. MAX_PROCESS
          BY <3>1, Consts
        <4>3. QED
          BY <4>1, <4>2, <1>1, <1>3
      <3>2. CASE k # 0
        <4>1. k \in 1 .. Len(s) /\ k + 1 \in 2 .. Len(s) /\ n - 1 \in k .. MAX_PROCESS
          BY <3>2, <1>1, Consts
        <4>2. parent[s[k + 1]] = s[k]
          BY <4>1, <1>1
        <4>3. QED
          BY <4>1, <4>2, <1>5
      <3>3. QED
        BY <3>1, <3>2
    <2>5. QED
      BY <2>2, <2>3, <2>4
  <1>6. Len(s) \in S
    <2> HIDE DEF S
    <2>1. QED
      BY <1>1, <1>4, <1>5, SetInduction
  <1>7. Chain[MAX_PROCESS][s[Len(s)]] = SubSeq(s, 1, Len(s))
    <2>1. Len(s) \in 1 .. Len(s) /\ MAX_PROCESS \in Len(s) .. MAX_PROCESS
      BY <1>1, <1>2, Consts
    <2>2. QED
      BY <1>6, <2>1
  <1>8. SubSeq(s, 1, Len(s)) = s
    BY <1>1
  <1>9. QED
    BY <1>1, <1>7, <1>8

\* The same after a step.
LEMMA ChainOfLineNext ==
    TypeOK' => (\A s, p : IsLine(s, p) => Chain[MAX_PROCESS][p] = s)'
  BY ChainOfLine, PTL

-----------------------------------------------------------------------------
(* The three kinds of steps of TerminalSessions.                            *)

\* If each terminal's process has a line after a step, those are the sessions.
LEMMA SessionsNext ==
    ASSUME TypeOK'
    PROVE  \A f : (\A t \in Term : IsLine(f[t], term_pid[t])')
                    => SessionsAreLines' /\ \A t \in Term : Session(t)' = f[t]
  <1> TAKE f
  <1> HAVE \A t \in Term : IsLine(f[t], term_pid[t])'
  <1>1. \A t \in Term : Session(t)' = f[t]
    BY ChainOfLineNext DEF Session
  <1>2. QED
    BY <1>1 DEF SessionsAreLines

\* The lines have no member that does not exist.
LEMMA HeldArePresent ==
    ASSUME TypeOK, SessionsAreLines, NEW p \in Abstract!Held
    PROVE  present[p]
  BY DEF SessionsAreLines, IsLine, Abstract!Held

\* A step that leaves pcbs and terminal processes alone is a Switch.
LEMMA StepSwitches ==
    ASSUME TypeOK, TypeOK', SessionsAreLines,
           UNCHANGED <<present, parent, term_pid>>
    PROVE  SessionsAreLines' /\ Abstract!Switch
  <1>1. PICK f : f = [t \in Term |-> Session(t)]
    OBVIOUS
  <1>2. \A t \in Term : IsLine(f[t], term_pid[t])'
    BY <1>1 DEF SessionsAreLines, IsLine
  <1>3. SessionsAreLines' /\ \A t \in Term : Session(t)' = f[t]
    BY <1>2, SessionsNext
  <1>4. QED
    BY <1>1, <1>3 DEF Abstract!Switch, TypeOK

\* execute() into slot pid is a Start.
LEMMA StepStarts ==
    ASSUME TypeOK, TypeOK', SessionsAreLines,
           NEW pid \in Pid, ~present[pid],
           active_term_id' = active_term_id,
           present' = [present EXCEPT ![pid] = TRUE],
           parent' = [parent EXCEPT ![pid] = term_pid[active_term_id]],
           term_pid' = [term_pid EXCEPT ![active_term_id] = pid]
    PROVE  SessionsAreLines' /\ Abstract!Start(pid)
  <1> DEFINE a == active_term_id
  <1>0. PICK f : f = [t \in Term |-> IF t = a THEN Append(Session(a), pid) ELSE Session(t)]
    OBVIOUS
  <1>1. a \in Term /\ \A t \in Term : f[t] = IF t = a THEN Append(Session(a), pid) ELSE Session(t)
    BY <1>0 DEF TypeOK
  <1>2. \A p \in Pid : /\ present'[p] <=> present[p] \/ p = pid
                       /\ parent'[p] = IF p = pid THEN term_pid[a] ELSE parent[p]
    BY DEF TypeOK
  <1>3. \A t \in Term : term_pid'[t] = IF t = a THEN pid ELSE term_pid[t]
    BY DEF TypeOK
  <1>4. ASSUME NEW t \in Term
        PROVE  IsLine(f[t], term_pid[t])'
    <2> DEFINE s == Session(t)
    <2>1. IsLine(s, term_pid[t])
      BY DEF SessionsAreLines
    <2>2. s \in Seq(Pid) /\ Len(s) \in Nat /\ Len(s) >= 1
          /\ \A i \in 1 .. Len(s) : s[i] \in Pid /\ present[s[i]] /\ s[i] # pid
      BY <2>1 DEF IsLine
    <2>3. CASE t # a
      <3>1. f[t] = s /\ term_pid'[t] = term_pid[t]
        BY <2>3, <1>1, <1>3
      <3>2. parent'[s[1]] = NULL
        BY <2>1, <2>2, <1>2 DEF IsLine
      <3>3. \A i \in 2 .. Len(s) : parent'[s[i]] = s[i - 1]
        BY <2>1, <2>2, <1>2 DEF IsLine
      <3>4. QED
        BY <2>1, <2>2, <3>1, <3>2, <3>3, <1>2 DEF IsLine
    <2>4. CASE t = a
      <3> DEFINE r == Append(s, pid)
      <3>1. f[t] = r /\ term_pid'[t] = pid
        BY <2>4, <1>1, <1>3
      <3>2. /\ r \in Seq(Pid) /\ Len(r) = Len(s) + 1 /\ r[Len(r)] = pid
            /\ \A i \in 1 .. Len(s) : r[i] = s[i]
        BY <2>2
      <3> HIDE DEF r, s
      <3>3. parent'[r[1]] = NULL
        BY <2>1, <2>2, <3>2, <1>2 DEF IsLine
      <3>4. \A i \in 2 .. Len(r) : parent'[r[i]] = r[i - 1]
        <4> TAKE i \in 2 .. Len(r)
        <4>1. CASE i = Len(r)
          <5>1. i - 1 = Len(s) /\ r[i - 1] = term_pid[a] /\ r[i] = pid
            BY <4>1, <2>1, <2>2, <2>4, <3>2 DEF IsLine
          <5>2. QED
            BY <5>1, <1>2
        <4>2. CASE i # Len(r)
          <5>1. i \in 2 .. Len(s) /\ i \in 1 .. Len(s) /\ i - 1 \in 1 .. Len(s)
            BY <4>2, <2>2, <3>2
          <5>2. r[i] = s[i] /\ r[i - 1] = s[i - 1] /\ parent'[s[i]] = parent[s[i]]
            BY <5>1, <2>2, <3>2, <1>2
          <5>3. parent[s[i]] = s[i - 1]
            BY <5>1, <2>1 DEF IsLine
          <5>4. QED
            BY <5>2, <5>3
        <4>3. QED
          BY <4>1, <4>2
      <3>5. \A i \in 1 .. Len(r) : i \in 1 .. Len(s) \/ i = Len(r)
        BY <2>2, <3>2
      <3>6. \A i \in 1 .. Len(r) : present'[r[i]]
        BY <2>2, <3>2, <3>5, <1>2
      <3>7. \A i, j \in 1 .. Len(r) : r[i] = r[j] => i = j
        BY <2>1, <2>2, <3>2, <3>5 DEF IsLine
      <3>8. QED
        BY <3>1, <3>2, <3>3, <3>4, <3>6, <3>7, <2>2 DEF IsLine
    <2>5. QED
      BY <2>3, <2>4
  <1>5. SessionsAreLines' /\ \A t \in Term : Session(t)' = f[t]
    BY <1>4, SessionsNext
  <1>6. pid \notin Abstract!Held
    BY HeldArePresent
  <1>7. [t \in Term |-> Session(t)]' = [[t \in Term |-> Session(t)] EXCEPT ![a] = Append(@, pid)]
    BY <1>1, <1>5
  <1>8. QED
    BY <1>5, <1>6, <1>7 DEF Abstract!Start

\* halt() of the process of terminal n, when that is no base shell, is an End.
LEMMA StepEnds ==
    ASSUME TypeOK, TypeOK', ProcessForest, SessionsAreLines,
           NEW n \in Term, active_term_id' = n, term_pid[n] \notin Term,
           present' = [present EXCEPT ![term_pid[n]] = FALSE],
           parent' = parent,
           term_pid' = [term_pid EXCEPT ![n] = parent[term_pid[n]]]
    PROVE  SessionsAreLines' /\ Abstract!End(n)
  <1> DEFINE p0 == term_pid[n]
             front == SubSeq(Session(n), 1, Len(Session(n)) - 1)
  <1>1. PICK f : f = [t \in Term |-> IF t = n THEN front ELSE Session(t)]
    OBVIOUS
  <1>2. p0 \in Pid /\ present[p0] /\ parent[p0] # NULL
    BY BaseShells DEF TypeOK, ProcessForest
  <1>3. \A p \in Pid : present'[p] <=> present[p] /\ p # p0
    BY DEF TypeOK
  <1>4. \A t \in Term : term_pid'[t] = IF t = n THEN parent[p0] ELSE term_pid[t]
    BY DEF TypeOK
  <1>5. Len(Session(n)) > 1
    BY <1>2 DEF SessionsAreLines, IsLine
  <1>6. \A c \in Pid : present[c] => parent[c] # p0
    BY <1>2 DEF ProcessForest, HasChild, Foreground
  <1>7. ASSUME NEW t \in Term
        PROVE  IsLine(f[t], term_pid[t])'
    <2> DEFINE s == Session(t)
    <2>1. IsLine(s, term_pid[t])
      BY DEF SessionsAreLines
    <2>2. s \in Seq(Pid) /\ Len(s) \in Nat /\ Len(s) >= 1
          /\ \A i \in 1 .. Len(s) : s[i] \in Pid /\ present[s[i]]
      BY <2>1 DEF IsLine
    <2>3. \A i \in 1 .. Len(s) : i # Len(s) => s[i] # p0
      <3> TAKE i \in 1 .. Len(s)
      <3> HAVE i # Len(s)
      <3>1. i + 1 \in 2 .. Len(s) /\ i + 1 \in 1 .. Len(s) /\ (i + 1) - 1 = i
        BY <2>2
      <3>2. parent[s[i + 1]] = s[i] /\ present[s[i + 1]] /\ s[i + 1] \in Pid
        BY <2>1, <2>2, <3>1 DEF IsLine
      <3>3. QED
        BY <3>2, <1>6
    <2>4. CASE t # n
      <3>1. f[t] = s /\ term_pid'[t] = term_pid[t]
        BY <2>4, <1>1, <1>4
      <3>2. s[Len(s)] # p0
        BY <2>1, <2>4 DEF IsLine, ProcessForest
      <3>3. \A i \in 1 .. Len(s) : present'[s[i]]
        BY <2>2, <2>3, <3>2, <1>3
      <3>4. QED
        BY <2>1, <3>1, <3>3 DEF IsLine
    <2>5. CASE t = n
      <3> DEFINE r == SubSeq(s, 1, Len(s) - 1)
      <3>1. f[t] = r /\ term_pid'[t] = parent[p0]
        BY <2>5, <1>1, <1>4
      <3>2. Len(s) - 1 \in Nat /\ Len(s) - 1 >= 1 /\ Len(s) \in 2 .. Len(s)
        BY <2>2, <2>5, <1>5
      <3>3. /\ r \in Seq(Pid) /\ Len(r) = Len(s) - 1
            /\ \A i \in 1 .. Len(r) : r[i] = s[i]
        BY <2>2, <3>2
      <3> HIDE DEF r, s
      <3>4. r[Len(r)] = parent[p0]
        BY <2>1, <2>5, <3>2, <3>3 DEF IsLine
      <3>5. parent'[r[1]] = NULL
        BY <2>1, <3>2, <3>3 DEF IsLine
      <3>6. \A i \in 2 .. Len(r) : parent'[r[i]] = r[i - 1]
        BY <2>1, <2>2, <3>2, <3>3 DEF IsLine
      <3>7. \A i \in 1 .. Len(r) : present'[r[i]]
        BY <2>2, <2>3, <3>2, <3>3, <1>3
      <3>8. \A i, j \in 1 .. Len(r) : r[i] = r[j] => i = j
        BY <2>1, <2>2, <3>2, <3>3 DEF IsLine
      <3>9. QED
        BY <3>1, <3>2, <3>3, <3>4, <3>5, <3>6, <3>7, <3>8 DEF IsLine
    <2>6. QED
      BY <2>4, <2>5
  <1>8. SessionsAreLines' /\ \A t \in Term : Session(t)' = f[t]
    BY <1>7, SessionsNext
  <1>9. [t \in Term |-> Session(t)]'
            = [[t \in Term |-> Session(t)] EXCEPT ![n] = SubSeq(@, 1, Len(@) - 1)]
    BY <1>1, <1>8
  <1>10. QED
    BY <1>5, <1>8, <1>9 DEF Abstract!End

\* What halt() of terminal n's process does to pcbs and terminals: a base shell is
\* found again in its own slot; any other process hands over to its parent.
LEMMA HaltShape ==
    ASSUME ShellMissing = FALSE, KernelInv, NEW n \in Term, active_term_id' = n,
           NEW status, NEW stacks, halt(term_pid[n], status, stacks)
    PROVE  \/ UNCHANGED <<present, parent, term_pid>>
           \/ /\ term_pid[n] \notin Term
              /\ present' = [present EXCEPT ![term_pid[n]] = FALSE]
              /\ parent' = parent
              /\ term_pid' = [term_pid EXCEPT ![n] = parent[term_pid[n]]]
  <1> DEFINE p0 == term_pid[n]
  <1>0. TypeOK /\ ProcessForest
    BY DEF KernelInv
  <1>1. p0 \in Pid /\ present[p0]
    BY <1>0 DEF TypeOK, ProcessForest
  <1>2. CASE p0 \in Term
    <2>1. PICK pid \in Pid : /\ FirstFree([present EXCEPT ![p0] = FALSE], pid)
                             /\ Launch(pid, p0, [present EXCEPT ![p0] = FALSE], stacks)
      <3>1. ~(p0 >= TERMINAL_COUNT)
        BY <1>1, <1>2, Consts DEF Term
      <3>2. QED
        BY <3>1, ShellMissing = FALSE, Zenon DEF halt
    <2>2. pid = p0
      BY <2>1, <1>0, <1>2, BaseSlot
    <2>3. present' = present /\ term_pid' = term_pid
      BY <2>1, <2>2, <1>1, <1>0 DEF Launch, TypeOK
    <2>4. parent' = parent
      BY <2>1, <2>2, <1>0, <1>1, <1>2, BaseShells DEF Launch, TypeOK, ParentPcb, ProcessForest
    <2>5. QED
      BY <2>3, <2>4
  <1>3. CASE p0 \notin Term
    BY <1>1, <1>3, BaseShells DEF halt
  <1>4. QED
    BY <1>2, <1>3

\* halt() is a Switch or an End.
LEMMA HaltImplements ==
    ASSUME ShellMissing = FALSE, KernelInv, TypeOK', SessionsAreLines, NEW n \in Term,
           active_term_id' = n,
           NEW status, NEW stacks, halt(term_pid[n], status, stacks)
    PROVE  SessionsAreLines' /\ Abstract!Next
  <1>0. TypeOK /\ ProcessForest
    BY DEF KernelInv
  <1>1. CASE UNCHANGED <<present, parent, term_pid>>
    BY <1>0, <1>1, StepSwitches DEF Abstract!Next
  <1>2. CASE ~UNCHANGED <<present, parent, term_pid>>
    BY <1>0, <1>2, HaltShape, StepEnds DEF Abstract!Next
  <1>3. QED
    BY <1>1, <1>2

\* Every step of the kernel is a step of TerminalSessions.
LEMMA NextImplements ==
    ASSUME StiWindow = FALSE, ShellMissing = FALSE, KernelInv, KernelInv', SessionsAreLines,
           [Next]_vars
    PROVE  SessionsAreLines' /\ Abstract!Next
  <1>0. TypeOK /\ ProcessForest /\ MachineFollowsTerminal /\ TypeOK'
    BY DEF KernelInv
  <1>1. active_term_id \in Term /\ NextTerm \in Term
    BY <1>0, NextTermType DEF TypeOK
  <1>2. CASE UNCHANGED <<present, parent, term_pid>>
    BY <1>0, <1>2, StepSwitches DEF Abstract!Next
  <1>3. CASE Execute
    <2>1. esp = term_pid[active_term_id] /\ active_term_id' = active_term_id
      BY <1>0, <1>3 DEF Execute, Running, MachineFollowsTerminal
    <2>2. PICK pid \in Pid : /\ FirstFree(present, pid)
                             /\ Launch(pid, term_pid[active_term_id], present, esp0)
      BY <1>3, <2>1 DEF Execute
    <2>3. ~present[pid] /\ ~(pid < TERMINAL_COUNT)
      BY <1>0, <2>2, BaseShells DEF FirstFree, ProcessForest
    <2>4. /\ present' = [present EXCEPT ![pid] = TRUE]
          /\ parent' = [parent EXCEPT ![pid] = term_pid[active_term_id]]
          /\ term_pid' = [term_pid EXCEPT ![active_term_id] = pid]
      BY <2>1, <2>2, <2>3 DEF Launch, ParentPcb
    <2>5. SessionsAreLines' /\ Abstract!Start(pid)
      BY <1>0, <2>1, <2>3, <2>4, StepStarts
    <2>6. QED
      BY <2>5 DEF Abstract!Next
  <1>4. CASE HaltCall \/ ExceptionHalt
    <2>1. esp = term_pid[active_term_id] /\ active_term_id' = active_term_id
      BY <1>0, <1>4 DEF HaltCall, ExceptionHalt, Running, MachineFollowsTerminal
    <2>2. halt(term_pid[active_term_id], 0, esp0) \/ halt(term_pid[active_term_id], 255, esp0)
      BY <1>4, <2>1 DEF HaltCall, ExceptionHalt, halt, Launch, ParentPcb
    <2>3. QED
      BY <1>0, <1>1, <2>1, <2>2, HaltImplements
  <1>5. CASE pit_handler
    <2>1. active_term_id' = NextTerm
      BY <1>5 DEF pit_handler
    <2>2. \/ UNCHANGED <<present, parent, term_pid>>
          \/ halt(term_pid[NextTerm], 6, SavedStacks(get_current_pcb))
      BY <1>5 DEF pit_handler
    <2>3. QED
      BY <1>0, <1>1, <1>2, <2>1, <2>2, HaltImplements
  <1>6. QED
    <2>1. SystemCall \/ SystemCallReturn \/ ExecuteFails \/ ExecuteIret \/ Exception
          \/ ExceptionRecorded \/ keyboard_handler \/ KeyboardEoi \/ UNCHANGED vars
            => UNCHANGED <<present, parent, term_pid>>
      BY DEF SystemCall, SystemCallReturn, ExecuteFails, ExecuteIret, Exception,
             ExceptionRecorded, keyboard_handler, KeyCtrlC, switch_terminal, KeyboardEoi,
             vars, pcbVars, termVars
    <2>2. QED
      BY <1>2, <1>3, <1>4, <1>5, <2>1 DEF Next, ProcessStep

\* Before the first step every terminal holds its own base shell.
LEMMA InitImplements == Init => SessionsAreLines /\ Abstract!Init
  <1> SUFFICES ASSUME Init PROVE SessionsAreLines /\ Abstract!Init
    OBVIOUS
  <1>1. TypeOK
    BY InitKernelInv DEF KernelInv
  <1>2. \A t \in Term : t \in Pid /\ term_pid[t] = t /\ present[t] /\ parent[t] = NULL
    BY TermsArePids, BaseShells DEF Init
  <1>3. \A t \in Term : IsLine(<<t>>, t)
    <2> TAKE t \in Term
    <2> DEFINE s == <<t>>
    <2>1. s \in Seq(Pid) /\ Len(s) = 1 /\ s[1] = t
      BY <1>2
    <2> HIDE DEF s
    <2>2. IsLine(s, t)
      BY <2>1, <1>2 DEF IsLine
    <2>3. QED
      BY <2>2 DEF s
  <1>4. \A t \in Term : Session(t) = <<t>>
    BY <1>1, <1>2, <1>3, ChainOfLine DEF Session
  <1>5. active_term_id \in Term
    BY TermsArePids DEF Init
  <1>6. QED
    BY <1>2, <1>3, <1>4, <1>5 DEF SessionsAreLines, Abstract!Init

\* execute(), halt(), Ctrl+C and the switches implement TerminalSessions: a user
\* sees one stack of programs per terminal, pushed and popped one at a time.
THEOREM SessionsImplemented ==
    ASSUME StiWindow = FALSE, ShellMissing = FALSE
    PROVE  Spec => ImplementsSessions
  <1> DEFINE absVars == <<[t \in Term |-> Session(t)], active_term_id>>
  <1>1. KernelInv /\ KernelInv' /\ SessionsAreLines /\ [Next]_vars
            => SessionsAreLines' /\ [Abstract!Next]_absVars
    BY NextImplements
  <1>2. Init => SessionsAreLines /\ Abstract!Init
    BY InitImplements
  <1> HIDE DEF absVars
  <1>3. Spec => Abstract!Init /\ [][Abstract!Next]_absVars
    BY <1>1, <1>2, KernelInvariant, PTL DEF Spec
  <1>4. QED
    BY <1>3, PTL DEF ImplementsSessions, Abstract!Spec, absVars
=============================================================================
