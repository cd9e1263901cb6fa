------------------------------- MODULE Kernel -------------------------------
(***************************************************************************)
(* Processes, the round-robin scheduler and terminal switching.            *)
(*                                                                         *)
(* The state is the pcb table, the terminal table and the machine state    *)
(* that decides who runs: the kernel stack in use, TSS.esp0 and the user   *)
(* page directory entry.  A stack is named by the pid that owns it, so     *)
(* pcb->esp0 and tss.esp0 hold a pid, and so does the user page entry      *)
(* (its frame is 2 + pid in the code).  pcb->ebp is the frame a            *)
(* descheduled process is resumed through: what saved it (a timer or a     *)
(* keyboard interrupt) and what the process was doing when interrupted.    *)
(* A frame that has been returned through is dead stack space (by =        *)
(* "stale"), and a pcb that never was descheduled has none; continuing     *)
(* through either is undefined and ends in mode "crashed".                 *)
(*                                                                         *)
(* System calls and exceptions enter through trap gates, so interrupts     *)
(* stay enabled in the kernel; interrupt gates and cli sections are        *)
(* single actions.                                                         *)
(***************************************************************************)
EXTENDS Integers

CONSTANTS
    TERMINAL_COUNT,  \* terminals, and base shells: pids 0 .. TERMINAL_COUNT-1
    MAX_PROCESS,     \* pcb slots
    CtrlC,           \* BOOLEAN: the user may press Ctrl+C
    StiWindow,       \* BOOLEAN: an interrupt may be delivered between
                     \* execute()'s sti and its iret
    ShellMissing     \* BOOLEAN: the file "shell" may have been deleted, or
                     \* overwritten so that it is no executable

ASSUME KernelAssumption ==
    /\ TERMINAL_COUNT \in Nat \ {0}
    /\ MAX_PROCESS \in Nat
    /\ TERMINAL_COUNT <= MAX_PROCESS
    /\ CtrlC \in BOOLEAN
    /\ StiWindow \in BOOLEAN
    /\ ShellMissing \in BOOLEAN

Term == 0 .. (TERMINAL_COUNT - 1)
Pid  == 0 .. (MAX_PROCESS - 1)
NULL == MAX_PROCESS                     \* a pcb pointer to no pcb
Lost == MAX_PROCESS + 1                 \* see irq1_owner

\* What the CPU, or a descheduled process, is in the middle of:
\*   user    user code               kernel   an interruptible system call
\*   exec    execute(), after its sti and before its iret
\*   fault   an exception handler, printing; faulted: after it has set
\*           exception_occurred and before halt()'s cli
Modes == {"user", "kernel", "exec", "fault", "faulted"}
Frames == [by : {"none", "stale", "boot", "pit", "kbd"}, mode : Modes]
Frame(by, m) == [by |-> by, mode |-> m]
StaleFrame == Frame("stale", "user")
Live(f) == f.by \in {"boot", "pit", "kbd"}

VARIABLES
    present, parent, ebp, esp0,         \* pcbs[.]
    term_pid, to_be_halt,               \* terms[.]
    active_term_id, shown_term_id,
    mode, esp, tss_esp0, user_page,     \* the machine
    irq1_owner,                         \* the process that entered keyboard_handler
                                        \* and has yet to send its EOI, or NULL; Lost
                                        \* when it was halted before sending it
    exception_occurred,                 \* idt.c
    eax                                 \* last value execute() returned

pcbVars  == <<present, parent, ebp, esp0>>
termVars == <<term_pid, to_be_halt, active_term_id, shown_term_id>>
cpuVars  == <<mode, esp, tss_esp0, user_page>>
vars == <<pcbVars, termVars, cpuVars, irq1_owner, exception_occurred, eax>>

TypeOK ==
    /\ present \in [Pid -> BOOLEAN]
    /\ parent \in [Pid -> Pid \cup {NULL}]
    /\ ebp \in [Pid -> Frames]
    /\ esp0 \in [Pid -> Pid]
    /\ term_pid \in [Term -> Pid]
    /\ to_be_halt \in [Term -> BOOLEAN]
    /\ active_term_id \in Term
    /\ shown_term_id \in Term
    /\ mode \in Modes \cup {"crashed"}
    /\ esp \in Pid
    /\ tss_esp0 \in Pid
    /\ user_page \in Pid
    /\ irq1_owner \in Pid \cup {NULL, Lost}
    /\ exception_occurred \in BOOLEAN
    /\ eax \in {-1, 0, 6, 255, 256}

-----------------------------------------------------------------------------
\* initiate_shells(): one shell per terminal, each with an iret frame built on
\* its own stack; the last one prepared, pid 0, is jumped into.
Init ==
    /\ present = [p \in Pid |-> p < TERMINAL_COUNT]
    /\ parent = [p \in Pid |-> NULL]
    /\ ebp = [p \in Pid |-> Frame(IF p \in Term \ {0} THEN "boot"
                                  ELSE IF p = 0 THEN "stale" ELSE "none", "user")]
    /\ esp0 = [p \in Pid |-> IF p \in Term THEN p ELSE 0]
    /\ term_pid = [t \in Term |-> t]
    /\ to_be_halt = [t \in Term |-> FALSE]
    /\ active_term_id = 0
    /\ shown_term_id = 0
    /\ mode = "user"
    /\ esp = 0
    /\ tss_esp0 = 0
    /\ user_page = 0
    /\ irq1_owner = NULL
    /\ exception_occurred = FALSE
    /\ eax = 0

\* Mutant: the stack in use is the one the last kernel code ran on.
get_current_pcb_no_tss == esp

\* get_current_pcb() in a handler: entering from user mode the CPU takes the
\* stack tss.esp0 names, otherwise the handler stays on the stack in use.
get_current_pcb == IF mode = "user" THEN tss_esp0 ELSE esp

\* The process is executing its own code, in one of the modes ms: it is not in
\* the tail of keyboard_handler().
Running(ms) == mode \in ms /\ irq1_owner # get_current_pcb

\* The keyboard can interrupt: IRQ1 is not in service.
KeyboardReady == mode # "crashed" /\ irq1_owner = NULL

-----------------------------------------------------------------------------
(* execute() and halt().  Both end by choosing whose user code runs next.   *)

\* Mutant: the search starts after the base shells' slots.
FirstFreeAfterBase(slots, pid) ==
    /\ ~slots[pid] /\ pid >= TERMINAL_COUNT
    /\ \A q \in Pid : q < pid /\ q >= TERMINAL_COUNT => slots[q]

\* The free slot execute() takes: the first one, in index order.
FirstFree(slots, pid) == ~slots[pid] /\ \A q \in Pid : q < pid => slots[q]

\* Mutant: every program's parent is the terminal's base shell.
ParentPcbIsBase(pid, caller) == IF pid < TERMINAL_COUNT THEN NULL ELSE active_term_id

\* pcb->parent of a new process.
ParentPcb(pid, caller) == IF pid < TERMINAL_COUNT THEN NULL ELSE caller

\* execute() once the file is known to be executable: set up the pcb in slot
\* pid, map its page, point the TSS at its stack and iret to user code.  caller
\* is the pcb whose stack execute() runs on, slots and stacks the pcb fields it
\* finds.
Launch(pid, caller, slots, stacks) ==
    /\ present' = [slots EXCEPT ![pid] = TRUE]
    /\ parent' = [parent EXCEPT ![pid] = ParentPcb(pid, caller)]
    /\ esp0' = [stacks EXCEPT ![pid] = pid]
    /\ term_pid' = [term_pid EXCEPT ![active_term_id'] = pid]
    /\ user_page' = pid
    /\ tss_esp0' = pid
    /\ esp' = caller
    /\ mode' = IF StiWindow THEN "exec" ELSE "user"

\* Mutant: the exception is reported by a bit added to the status.
ReturnValueFlagged(status) == IF exception_occurred THEN 256 + status ELSE status

\* The value halt() makes the parent's execute() return.
ReturnValue(status) == IF exception_occurred THEN 256 ELSE status

\* Mutant: the request is cleared for the terminal on the screen.
HaltRequestClearedShown == [to_be_halt EXCEPT ![shown_term_id] = FALSE]

\* halt() answers the Ctrl+C of the terminal it runs for.
HaltRequestCleared == [to_be_halt EXCEPT ![active_term_id'] = FALSE]

\* halt(status) of pcb p, on its own stack.  A base shell is executed again and
\* never reaches the code after that call, unless execute() does not find the file
\* "shell": then halt() goes on to its parent, which a base shell does not have, and
\* faults, with interrupts disabled, on its way to the next halt().  Any other process
\* hands its terminal, the page and the TSS to its parent and returns from the
\* parent's execute().
halt(p, status, stacks) ==
    LET slots == [present EXCEPT ![p] = FALSE] IN
    /\ to_be_halt' = HaltRequestCleared
    /\ irq1_owner' = IF irq1_owner = p THEN Lost ELSE irq1_owner
    /\ \/ /\ p < TERMINAL_COUNT
          /\ \E pid \in Pid : FirstFree(slots, pid) /\ Launch(pid, p, slots, stacks)
          /\ UNCHANGED <<exception_occurred, eax>>
       \/ /\ p < TERMINAL_COUNT /\ ShellMissing
          /\ present' = slots
          /\ esp0' = stacks
          /\ user_page' = p
          /\ tss_esp0' = stacks[p]
          /\ esp' = p
          /\ mode' = "crashed"
          /\ UNCHANGED <<parent, term_pid, exception_occurred, eax>>
       \/ /\ p >= TERMINAL_COUNT
          /\ present' = slots
          /\ esp0' = stacks
          /\ term_pid' = [term_pid EXCEPT ![active_term_id'] = parent[p]]
          /\ user_page' = parent[p]
          /\ tss_esp0' = stacks[parent[p]]
          /\ esp' = parent[p]
          /\ mode' = "kernel"
          /\ eax' = ReturnValue(status)
          /\ exception_occurred' = FALSE
          /\ UNCHANGED parent

-----------------------------------------------------------------------------
(* What the running process does.                                           *)

\* int $0x80 from user code, through system_call_wrapper.
SystemCall ==
    /\ Running({"user"})
    /\ mode' = "kernel"
    /\ esp' = tss_esp0
    /\ UNCHANGED <<pcbVars, termVars, tss_esp0, user_page, irq1_owner,
                   exception_occurred, eax>>

\* The iret that ends a system call.
SystemCallReturn ==
    /\ Running({"kernel"})
    /\ mode' = "user"
    /\ UNCHANGED <<pcbVars, termVars, esp, tss_esp0, user_page, irq1_owner,
                   exception_occurred, eax>>

\* execute() of an executable file with a free slot.
Execute ==
    /\ Running({"kernel"})
    /\ UNCHANGED active_term_id
    /\ \E pid \in Pid : FirstFree(present, pid) /\ Launch(pid, esp, present, esp0)
    /\ UNCHANGED <<ebp, to_be_halt, shown_term_id, irq1_owner,
                   exception_occurred, eax>>

\* execute() returns -1: for an empty command, or, with interrupts disabled
\* until the iret to user code, for no such executable or no free slot.
ExecuteFails ==
    /\ Running({"kernel"})
    /\ eax' = -1
    /\ mode' \in {"kernel", "user"}
    /\ UNCHANGED <<pcbVars, termVars, esp, tss_esp0, user_page, irq1_owner,
                   exception_occurred>>

\* The iret that ends execute(), when the window before it is modelled.
ExecuteIret ==
    /\ Running({"exec"})
    /\ mode' = "user"
    /\ UNCHANGED <<pcbVars, termVars, esp, tss_esp0, user_page, irq1_owner,
                   exception_occurred, eax>>

\* The halt system call, with a status that is not an error.
HaltCall ==
    /\ Running({"kernel"})
    /\ UNCHANGED <<active_term_id, shown_term_id, ebp>>
    /\ halt(esp, 0, esp0)

\* An exception, in user code or in a system call working for it.
Exception ==
    /\ Running({"user", "kernel"})
    /\ esp' = get_current_pcb
    /\ mode' = "fault"
    /\ UNCHANGED <<pcbVars, termVars, tss_esp0, user_page, irq1_owner,
                   exception_occurred, eax>>

\* ... after printing, the handler records it for halt() ...
ExceptionRecorded ==
    /\ Running({"fault"})
    /\ mode' = "faulted"
    /\ exception_occurred' = TRUE
    /\ UNCHANGED <<pcbVars, termVars, esp, tss_esp0, user_page, irq1_owner, eax>>

\* ... and calls halt(255), whose first instruction is cli.
ExceptionHalt ==
    /\ Running({"faulted"})
    /\ UNCHANGED <<active_term_id, shown_term_id, ebp>>
    /\ halt(esp, 255, esp0)

-----------------------------------------------------------------------------
(* Interrupts.                                                              *)

\* The stack half of a switch: the interrupted process saves its frame and its
\* esp0 where the handler finds them.
SavedFrames(curr, by) == [ebp EXCEPT ![curr] = Frame(by, mode)]
SavedStacks(curr) == [esp0 EXCEPT ![curr] = tss_esp0]

\* Mutant: the stack pointer is not loaded.
ResumeOnOldStack(next, frames, f) ==
    /\ ebp' = [frames EXCEPT ![next] = StaleFrame]
    /\ mode' = IF Live(f) THEN f.mode ELSE "crashed"
    /\ esp' = get_current_pcb

\* Continuing through frame f of process next, which is dead stack afterwards.
Resume(next, frames, f) ==
    /\ ebp' = [frames EXCEPT ![next] = StaleFrame]
    /\ mode' = IF Live(f) THEN f.mode ELSE "crashed"
    /\ esp' = next

\* Mutant: the last terminal is skipped.
NextTermSkipsLast == (active_term_id + 1) % (TERMINAL_COUNT - 1)

\* Whose turn it is after the active terminal.
NextTerm == (active_term_id + 1) % TERMINAL_COUNT

\* A process resumed inside keyboard_handler() sends its EOI.
EoiOnReturn(f) == IF f.by = "kbd" THEN NULL ELSE irq1_owner

\* pit_handler(): the next terminal's process, unless Ctrl+C was pressed there:
\* then halt(6) runs on that process's stack instead of the code its frame
\* returns to.  A process left inside keyboard_handler() goes on, with interrupts
\* disabled, to its send_eoi() and iret.
pit_handler ==
    LET next_id == NextTerm
        curr    == get_current_pcb
        next    == term_pid[next_id]
        frames  == SavedFrames(curr, "pit")
        stacks  == SavedStacks(curr)
        f       == frames[next]
    IN  /\ mode # "crashed"
        /\ active_term_id' = next_id
        /\ UNCHANGED shown_term_id
        /\ \/ /\ ~to_be_halt[next_id] \/ f.by = "none"
              /\ Resume(next, frames, f)
              /\ esp0' = stacks
              /\ tss_esp0' = stacks[next]
              /\ user_page' = next
              /\ irq1_owner' = EoiOnReturn(f)
              /\ UNCHANGED <<present, parent, term_pid, to_be_halt,
                             exception_occurred, eax>>
           \/ /\ to_be_halt[next_id] /\ f.by # "none"
              /\ ebp' = [frames EXCEPT ![next] = StaleFrame]
              /\ halt(next, 6, stacks)

\* Ctrl+C in keyboard_handler(), for the terminal on the screen.
KeyCtrlC ==
    /\ CtrlC
    /\ KeyboardReady
    /\ to_be_halt' = [to_be_halt EXCEPT ![shown_term_id] = TRUE]
    /\ UNCHANGED <<pcbVars, term_pid, active_term_id, shown_term_id, cpuVars,
                   irq1_owner, exception_occurred, eax>>

\* F1..F3 in keyboard_handler(): switch_terminal(next_id) leaves the interrupted
\* process inside the handler, before its send_eoi(), and continues the process
\* of the terminal now shown with interrupts enabled.  That may be the same one.
switch_terminal(next_id) ==
    LET curr    == get_current_pcb
        next    == term_pid[next_id]
        frames  == SavedFrames(curr, "kbd")
        stacks  == SavedStacks(curr)
    IN  /\ KeyboardReady
        /\ next_id # shown_term_id
        /\ active_term_id' = next_id
        /\ shown_term_id' = next_id
        /\ Resume(next, frames, frames[next])
        /\ esp0' = stacks
        /\ tss_esp0' = stacks[next]
        /\ user_page' = next
        /\ irq1_owner' = curr
        /\ UNCHANGED <<present, parent, term_pid, to_be_halt, exception_occurred, eax>>

\* Mutant: whoever runs next sends the EOI.
KeyboardEoiByAnyone ==
    /\ mode # "crashed"
    /\ irq1_owner \in Pid
    /\ irq1_owner' = NULL
    /\ UNCHANGED <<pcbVars, termVars, cpuVars, exception_occurred, eax>>

\* Mutant: a switch to the running process itself ends without an EOI.
KeyboardEoiForgotten ==
    /\ mode # "crashed"
    /\ irq1_owner = get_current_pcb
    /\ UNCHANGED vars

\* The send_eoi() and iret of a process whose switch_terminal() came back to
\* itself: it reaches them with interrupts enabled.
KeyboardEoi ==
    /\ mode # "crashed"
    /\ irq1_owner = get_current_pcb
    /\ irq1_owner' = NULL
    /\ UNCHANGED <<pcbVars, termVars, cpuVars, exception_occurred, eax>>

keyboard_handler == KeyCtrlC \/ \E n \in Term : switch_terminal(n)

-----------------------------------------------------------------------------
ProcessStep ==
    \/ SystemCall \/ SystemCallReturn
    \/ Execute \/ ExecuteFails \/ ExecuteIret \/ HaltCall
    \/ Exception \/ ExceptionRecorded \/ ExceptionHalt

Next == ProcessStep \/ pit_handler \/ keyboard_handler \/ KeyboardEoi

Spec == Init /\ [][Next]_vars

\* The timer is hardware: it fires again and again whatever the software does.
\* A time slice is long enough for the last instructions of keyboard_handler(),
\* so a process that gets slice after slice reaches its send_eoi().
FairSpec == Spec /\ WF_vars(pit_handler) /\ SF_vars(KeyboardEoi)

-----------------------------------------------------------------------------
(* Properties.                                                              *)

HasChild(p) == \E c \in Pid : present[c] /\ parent[c] = p
Foreground(p) == \E t \in Term : term_pid[t] = p

\* The processes are one line of callers per terminal, whatever execute() and
\* halt() calls of all terminals interleave: every terminal's process exists and
\* is no other terminal's; the base shells never go away; every other process
\* waits in the execute() of exactly one existing process, which waits for no
\* one else; and exactly the processes that wait for no child are some
\* terminal's process.
ProcessForest ==
    /\ \A t \in Term : present[term_pid[t]]
    /\ \A t, u \in Term : term_pid[t] = term_pid[u] => t = u
    /\ \A p \in Term : present[p]
    /\ \A p \in Pid : present[p] => IF p < TERMINAL_COUNT THEN parent[p] = NULL
                                    ELSE parent[p] # NULL /\ present[parent[p]]
    /\ \A p, q \in Pid : /\ present[p] /\ present[q]
                         /\ parent[p] = parent[q] /\ parent[p] # NULL
                         => p = q
    /\ \A p \in Pid : present[p] => (Foreground(p) <=> ~HasChild(p))

\* The machine is set up for the process of the active terminal: its page is
\* mapped, interrupts from user code take its kernel stack, kernel code runs on
\* that stack, and no existing process has another's stack recorded.
MachineFollowsTerminal ==
    /\ mode # "crashed"
    /\ user_page = term_pid[active_term_id]
    /\ tss_esp0 = term_pid[active_term_id]
    /\ mode # "user" => esp = term_pid[active_term_id]
    /\ \A p \in Pid : present[p] => esp0[p] = p

\* Every terminal that is not active can be switched to: its process has a frame
\* that no one has returned through.
SwitchTargetsLive ==
    \A t \in Term \ {active_term_id} : Live(ebp[term_pid[t]])

\* A keyboard interrupt in service belongs to a terminal's process: it is the
\* one running, or it has a frame to continue through; and a process suspended
\* inside keyboard_handler() is that one.
KeyboardInService ==
    /\ irq1_owner \in Pid => Foreground(irq1_owner)
    /\ \A t \in Term \ {active_term_id} :
           ebp[term_pid[t]].by = "kbd" => irq1_owner = term_pid[t]

\* keyboard_handler() sends its EOI: no process is halted between the two, which
\* would leave IRQ1 (and IRQ8 behind it) blocked for good.
EoiNotLost == irq1_owner # Lost

\* Once the user stops switching terminals, the round robin gives every terminal
\* the processor again and again.
RoundRobin ==
    <>[][\A n \in Term : ~switch_terminal(n)]_vars
        => \A t \in Term : []<>(active_term_id = t)

\* Once the user stops switching terminals, a Ctrl+C is acted upon.
CtrlCHonoured ==
    <>[][\A n \in Term : ~switch_terminal(n)]_vars
        => \A t \in Term : to_be_halt[t] ~> ~to_be_halt[t]

\* A process left inside keyboard_handler() by a terminal switch does not stay
\* there, however often the user switches: it sends its EOI, or it is halted.
KeyboardComesBack == (irq1_owner \in Pid) ~> (irq1_owner \notin Pid)
=============================================================================
