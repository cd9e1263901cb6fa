----------------------------- MODULE Interrupts -----------------------------
(***************************************************************************)
(* The two interrupt controllers from power-on: how entry() brings the     *)
(* lines up, and who owes which EOI afterwards.  Lines 0, 1, 2 and 8 are   *)
(* the timer, the keyboard, the slave and the clock; that is also their    *)
(* order of priority.  A requested line is remembered while it is masked   *)
(* or in service.                                                          *)
(*                                                                         *)
(* The clock chip raises its line when the flag in register C goes up, and *)
(* rtc_handler() takes the flag down: an interrupt that is lost is the     *)
(* last one.  Ctrl+C, which can lose the keyboard's EOI, is left to Kernel.*)
(***************************************************************************)
EXTENDS Integers, Sequences

VARIABLES
    boot,               \* how many steps of entry() and initiate_shells() are done
    interrupts,         \* the IF flag
    mask,               \* master_mask and slave_mask: the lines masked
    irr, isr,           \* the lines requested, and in service
    pie, flag,          \* the clock chip: register B's enable bit, register C's flag
    handler,            \* the handler that runs, and its next step
    parked              \* a keyboard_handler() inside switch_terminal() waits its turn

vars == <<boot, interrupts, mask, irr, isr, pie, flag, handler, parked>>

PIT_IRQ == 0
KEYBOARD_IRQ == 1
SLAVE_IRQ == 2
RTC_IRQ == 8
Lines == {PIT_IRQ, KEYBOARD_IRQ, SLAVE_IRQ, RTC_IRQ}
NONE == <<>>

\* Mutant: the clock is started before the controllers are.
BootOrderRtcFirst ==
    <<"cli", "rtc_init B", "rtc_init irq", "i8259_init", "keyboard_init", "sti",
      "initiate_shells", "pit_init">>

\* What entry() and the functions it calls do to this state, in order; rtc_init()
\* and rtc_set_rate() each end in a sti of their own, before the one of entry().
BootOrder ==
    <<"i8259_init", "keyboard_init", "cli", "rtc_init B", "rtc_init irq", "sti",
      "cli", "sti", "sti", "initiate_shells", "pit_init">>

Done(name) == \E i \in 1 .. boot : BootOrder[i] = name

Init ==
    /\ boot = 0 /\ interrupts = FALSE
    /\ mask = {} /\ irr = {} /\ isr = {}
    /\ pie = FALSE /\ flag = FALSE
    /\ handler = NONE /\ parked = FALSE

-----------------------------------------------------------------------------
\* master_mask is 0xFB, slave_mask 0xFF.
MaskAfterInit == Lines \ {SLAVE_IRQ}

enable_irq(irq) == mask' = mask \ {irq}

\* i8259_init() forgets every request.
BootEffect(name) ==
    /\ IF name = "i8259_init"
       THEN mask' = MaskAfterInit /\ irr' = {} /\ isr' = {}
       ELSE UNCHANGED <<irr, isr>> /\
            CASE name = "keyboard_init" -> enable_irq(KEYBOARD_IRQ)
              [] name = "rtc_init irq" -> enable_irq(RTC_IRQ)
              [] name = "pit_init" -> enable_irq(PIT_IRQ)
              [] OTHER -> UNCHANGED mask
    /\ pie' = (pie \/ name = "rtc_init B")
    /\ interrupts' = (name # "cli" /\ (interrupts \/ name = "sti"))

Boot ==
    /\ boot < Len(BootOrder) /\ handler = NONE
    /\ boot' = boot + 1
    /\ BootEffect(BootOrder[boot + 1])
    /\ UNCHANGED <<flag, handler, parked>>

-----------------------------------------------------------------------------
(* The devices.                                                             *)

Request(irq) == irr' = irr \cup {irq}

PitTick ==
    /\ Request(PIT_IRQ)
    /\ UNCHANGED <<boot, interrupts, mask, isr, pie, flag, handler, parked>>

KeyPress ==
    /\ Request(KEYBOARD_IRQ)
    /\ UNCHANGED <<boot, interrupts, mask, isr, pie, flag, handler, parked>>

RtcPeriod ==
    /\ pie /\ ~flag /\ flag' = TRUE
    /\ Request(RTC_IRQ)
    /\ UNCHANGED <<boot, interrupts, mask, isr, pie, handler, parked>>

-----------------------------------------------------------------------------
(* The processor.                                                           *)

\* The lines in service while irq is: the slave's come through SLAVE_IRQ.
Service(irq) == IF irq = RTC_IRQ THEN {SLAVE_IRQ, RTC_IRQ} ELSE {irq}

Deliverable(irq) ==
    /\ irq \in irr \ mask /\ Service(irq) \cap mask = {}
    /\ \A served \in isr : irq < served

Runs(irq, step) == handler = <<irq, step>>

Accept(irq) ==
    /\ interrupts /\ Deliverable(irq)
    /\ \A other \in irr : Deliverable(other) => irq <= other
    /\ irr' = irr \ {irq} /\ isr' = isr \cup Service(irq)
    /\ interrupts' = FALSE
    /\ handler' = <<irq, "entered">>
    /\ UNCHANGED <<boot, mask, pie, flag, parked>>

\* Mutant: the master is not told that a line of the slave has ended.
send_eoiSlaveOnly(irq) == isr' = isr \ {irq}

\* The EOI names the line; for the slave's lines both controllers get one.
send_eoi(irq) == isr' = isr \ Service(irq)

\* rtc_handler() reads register C at once, serves the processes (module Rtc) and
\* sends the EOI.
RtcReadC ==
    /\ Runs(RTC_IRQ, "entered")
    /\ flag' = FALSE /\ handler' = <<RTC_IRQ, "serving">>
    /\ UNCHANGED <<boot, interrupts, mask, irr, isr, pie, parked>>

RtcEnd ==
    /\ Runs(RTC_IRQ, "serving")
    /\ send_eoi(RTC_IRQ) /\ handler' = <<RTC_IRQ, "iret">>
    /\ UNCHANGED <<boot, interrupts, mask, irr, pie, flag, parked>>

\* pit_handler() sends its EOI first ...
PitEoi ==
    /\ Runs(PIT_IRQ, "entered")
    /\ send_eoi(PIT_IRQ) /\ handler' = <<PIT_IRQ, "iret">>
    /\ UNCHANGED <<boot, interrupts, mask, irr, pie, flag, parked>>

\* ... and may continue the process that was left in switch_terminal().
PitResumes ==
    /\ Runs(PIT_IRQ, "iret") /\ parked
    /\ parked' = FALSE /\ handler' = <<KEYBOARD_IRQ, "serving">>
    /\ UNCHANGED <<boot, interrupts, mask, irr, isr, pie, flag>>

\* Mutant: a handler that was switched out returns without its EOI.
KeyboardEndNoLateEoi ==
    /\ Runs(KEYBOARD_IRQ, "entered") \/ Runs(KEYBOARD_IRQ, "serving")
    /\ IF Runs(KEYBOARD_IRQ, "entered") THEN send_eoi(KEYBOARD_IRQ) ELSE UNCHANGED isr
    /\ handler' = <<KEYBOARD_IRQ, "iret">>
    /\ UNCHANGED <<boot, interrupts, mask, irr, pie, flag, parked>>

\* keyboard_handler() ends with its EOI ...
KeyboardEnd ==
    /\ Runs(KEYBOARD_IRQ, "entered") \/ Runs(KEYBOARD_IRQ, "serving")
    /\ send_eoi(KEYBOARD_IRQ) /\ handler' = <<KEYBOARD_IRQ, "iret">>
    /\ UNCHANGED <<boot, interrupts, mask, irr, pie, flag, parked>>

\* ... but F1-F3 continue another process first, which was interrupted itself.
\* They are not pressed before there are terminals to switch to.
KeyboardSwitches ==
    /\ Runs(KEYBOARD_IRQ, "entered") /\ Done("pit_init")
    /\ parked' = TRUE /\ handler' = <<KEYBOARD_IRQ, "iret">>
    /\ UNCHANGED <<boot, interrupts, mask, irr, isr, pie, flag>>

Iret ==
    /\ handler # NONE /\ handler[2] = "iret"
    /\ handler' = NONE /\ interrupts' = TRUE
    /\ UNCHANGED <<boot, mask, irr, isr, pie, flag, parked>>

HandlerStep == RtcReadC \/ RtcEnd \/ PitEoi \/ PitResumes \/ KeyboardEnd \/ KeyboardSwitches \/ Iret

Next ==
    \/ Boot \/ PitTick \/ KeyPress \/ RtcPeriod \/ HandlerStep
    \/ \E irq \in Lines \ {SLAVE_IRQ} : Accept(irq)

Spec == Init /\ [][Next]_vars

\* The processor goes on, with entry() too when no handler runs; the timer and the
\* clock tick for ever; no request is passed over for ever; and the process left in
\* switch_terminal() gets its turn (RoundRobin of Kernel).
FairSpec ==
    /\ Spec
    /\ SF_vars(Boot) /\ WF_vars(HandlerStep) /\ WF_vars(PitTick) /\ WF_vars(RtcPeriod)
    /\ SF_vars(Accept(PIT_IRQ)) /\ SF_vars(Accept(KEYBOARD_IRQ)) /\ SF_vars(Accept(RTC_IRQ))
    /\ SF_vars(PitResumes)

-----------------------------------------------------------------------------
\* Every variable has its type; the timer's handler has nothing left to do after
\* its EOI but to return, to one process or another.
TypeOK ==
    /\ boot \in 0 .. Len(BootOrder) /\ {interrupts, pie, flag, parked} \subseteq BOOLEAN
    /\ mask \subseteq Lines /\ irr \subseteq Lines /\ isr \subseteq Lines
    /\ handler \in {NONE} \cup ({PIT_IRQ} \X {"entered", "iret"})
                   \cup ({KEYBOARD_IRQ, RTC_IRQ} \X {"entered", "serving", "iret"})

\* Every line in service has one handler that still owes its EOI: running, or
\* parked in a process that was switched out.  A line is never stuck, and no EOI
\* ends another handler's line.
InServiceOwed ==
    isr = UNION {Service(irq) : irq \in
              {i \in Lines : \E step \in {"entered", "serving"} : Runs(i, step)}
              \cup (IF parked THEN {KEYBOARD_IRQ} ELSE {})}

\* A clock interrupt is never lost, so the clock never stops: while the flag in
\* register C is up, its line is requested or being served.
ClockNotLost == flag => RTC_IRQ \in irr \/ Runs(RTC_IRQ, "entered")

\* There is time between two timer interrupts, also while a switch is pending.
TimerLeavesTime == []<>(handler = NONE /\ interrupts /\ PIT_IRQ \notin irr)

\* The clock keeps interrupting once the user stops typing, which is what Rtc
\* assumes of rtc_handler; also when the last key was F1-F3 and its EOI is still to
\* come.
ClockServed ==
    (TimerLeavesTime /\ <>[][~KeyPress]_vars) => []<>Runs(RTC_IRQ, "serving")
=============================================================================
