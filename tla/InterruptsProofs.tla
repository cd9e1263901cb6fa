-------------------------- MODULE InterruptsProofs --------------------------
(***************************************************************************)
(* Proofs about module Interrupts.  Who owes an EOI can be said of each    *)
(* line because a handler is never interrupted, not even the keyboard's    *)
(* when it has continued another process: its own line stays in service    *)
(* and keeps the next key away (OneKeyboard).  The clock's interrupt is    *)
(* not lost at boot because i8259_init(), which forgets every request,     *)
(* comes before the clock is started (ClockAfterControllers).              *)
(***************************************************************************)
EXTENDS Interrupts, TLAPS

\* Interrupts are off in a handler.
HandlerAlone == interrupts => handler = NONE

\* A keyboard handler that waits in switch_terminal() is the only one.
OneKeyboard ==
    parked => /\ Done("pit_init")
              /\ ~Runs(KEYBOARD_IRQ, "entered") /\ ~Runs(KEYBOARD_IRQ, "serving")

\* The clock interrupts when register B says so, which is set after i8259_init().
ClockAfterControllers == (pie => boot >= 4) /\ (flag => pie)

InterruptsInv ==
    /\ TypeOK
    /\ InServiceOwed
    /\ ClockNotLost
    /\ HandlerAlone
    /\ OneKeyboard
    /\ ClockAfterControllers

USE DEF PIT_IRQ, KEYBOARD_IRQ, SLAVE_IRQ, RTC_IRQ, NONE

-----------------------------------------------------------------------------
\* The handlers that may run, and what each has left to do.
Handling == ({PIT_IRQ} \X {"entered", "iret"})
            \cup ({KEYBOARD_IRQ, RTC_IRQ} \X {"entered", "serving", "iret"})

\* The lines whose EOI is owed: of the handler that runs, and of the one that waits.
OwedBy(h) ==
    IF h = <<PIT_IRQ, "entered">> THEN {PIT_IRQ}
    ELSE IF h \in {<<KEYBOARD_IRQ, "entered">>, <<KEYBOARD_IRQ, "serving">>} THEN {KEYBOARD_IRQ}
    ELSE IF h \in {<<RTC_IRQ, "entered">>, <<RTC_IRQ, "serving">>} THEN {SLAVE_IRQ, RTC_IRQ}
    ELSE {}

Owed(h, p) == OwedBy(h) \cup (IF p THEN {KEYBOARD_IRQ} ELSE {})

LEMMA InServiceIs ==
    ASSUME handler \in {NONE} \cup Handling, parked \in BOOLEAN
    PROVE  InServiceOwed <=> isr = Owed(handler, parked)
  <1>1. UNION {Service(irq) : irq \in
              {i \in Lines : \E step \in {"entered", "serving"} : Runs(i, step)}
              \cup (IF parked THEN {KEYBOARD_IRQ} ELSE {})}
        = Owed(handler, parked)
    <2>1. CASE handler = NONE
      BY <2>1 DEF Service, Lines, Runs, Owed, OwedBy
    <2>2. CASE handler \in Handling
      <3>1. PICK irq \in Lines, step \in {"entered", "serving", "iret"} : handler = <<irq, step>>
        BY <2>2 DEF Handling, Lines
      <3>2. {i \in Lines : \E st \in {"entered", "serving"} : Runs(i, st)}
            = IF step = "iret" THEN {} ELSE {irq}
        BY <3>1 DEF Runs
      <3>3. OwedBy(handler) = IF step = "iret" THEN {} ELSE Service(irq)
        BY <2>2, <3>1 DEF OwedBy, Service, Handling, Lines
      <3>4. Service(KEYBOARD_IRQ) = {KEYBOARD_IRQ}
        BY DEF Service
      <3>5. QED
        BY <3>2, <3>3, <3>4 DEF Owed
    <2>3. QED
      BY <2>1, <2>2
  <1>2. QED
    BY <1>1 DEF InServiceOwed

\* The same of the next state.
LEMMA InServiceNext ==
    ASSUME handler' \in {NONE} \cup Handling, parked' \in BOOLEAN
    PROVE  InServiceOwed' <=> isr' = Owed(handler', parked')
  <1>1. (handler \in {NONE} \cup Handling /\ parked \in BOOLEAN
            => (InServiceOwed <=> isr = Owed(handler, parked)))'
    BY InServiceIs, PTL
  <1>2. QED
    BY <1>1 DEF Handling, Owed, OwedBy

\* How many steps entry() has.
LEMMA BootLength == Len(BootOrder) = 11
  BY DEF BootOrder

\* The invariant, for the types as the steps below use them.
LEMMA TypesAre ==
    TypeOK <=> /\ boot \in 0 .. 11
               /\ interrupts \in BOOLEAN /\ pie \in BOOLEAN /\ flag \in BOOLEAN
               /\ parked \in BOOLEAN
               /\ mask \subseteq Lines /\ irr \subseteq Lines /\ isr \subseteq Lines
               /\ handler \in {NONE} \cup Handling
  BY BootLength DEF TypeOK, Handling

LEMMA TypesNext ==
    TypeOK' <=> /\ boot' \in 0 .. 11
                /\ interrupts' \in BOOLEAN /\ pie' \in BOOLEAN /\ flag' \in BOOLEAN
                /\ parked' \in BOOLEAN
                /\ mask' \subseteq Lines /\ irr' \subseteq Lines /\ isr' \subseteq Lines
                /\ handler' \in {NONE} \cup Handling
  BY BootLength DEF TypeOK, Handling, Lines

\* The steps of entry() that matter here.
Nth(i) == BootOrder[i]

LEMMA BootOrderIs ==
    \A i \in 1 .. 11 : /\ Nth(i) = "i8259_init" <=> i = 1
                       /\ Nth(i) = "rtc_init B" <=> i = 4
                       /\ Nth(i) = "pit_init" => i = 11
  <1>1. /\ Nth(1) = "i8259_init" /\ Nth(2) = "keyboard_init"
        /\ Nth(3) = "cli" /\ Nth(4) = "rtc_init B" /\ Nth(5) = "rtc_init irq"
        /\ Nth(6) = "sti" /\ Nth(7) = "cli" /\ Nth(8) = "sti"
        /\ Nth(9) = "sti" /\ Nth(10) = "initiate_shells"
        /\ Nth(11) = "pit_init"
    BY DEF Nth, BootOrder
  <1>2. \A i \in 1 .. 11 : i \in {1, 2, 3, 4, 5, 6, 7, 8, 9, 10, 11}
    OBVIOUS
  <1>3. QED
    BY <1>1, <1>2

\* Nothing is requested, in service or enabled at power-on.
LEMMA InitInterrupts == Init => InterruptsInv
  <1> SUFFICES ASSUME Init PROVE InterruptsInv
    OBVIOUS
  <1> USE DEF Init
  <1>1. TypeOK
    <2>1. /\ interrupts \in BOOLEAN /\ pie \in BOOLEAN /\ flag \in BOOLEAN
          /\ parked \in BOOLEAN /\ handler \in {NONE} \cup Handling
      OBVIOUS
    <2>2. boot \in 0 .. 11 /\ mask \subseteq Lines /\ irr \subseteq Lines /\ isr \subseteq Lines
      OBVIOUS
    <2>3. QED
      BY <2>1, <2>2, TypesAre
  <1>2. InServiceOwed
    BY InServiceIs DEF Owed, OwedBy
  <1>3. QED
    BY <1>1, <1>2 DEF InterruptsInv, ClockNotLost, HandlerAlone, OneKeyboard,
                      ClockAfterControllers

-----------------------------------------------------------------------------
(* The steps.                                                               *)

\* A step of entry(); the first one forgets requests, when there are none of the clock.
LEMMA BootStep == InterruptsInv /\ Boot => InterruptsInv'
  <1> SUFFICES ASSUME InterruptsInv, Boot PROVE InterruptsInv'
    OBVIOUS
  <1>1. /\ boot \in 0 .. 10 /\ boot' = boot + 1 /\ handler = NONE
        /\ handler' = NONE /\ flag' = flag /\ parked' = parked
    BY TypesAre, BootLength DEF Boot, InterruptsInv
  <1> DEFINE name == Nth(boot + 1)
  <1>2. /\ boot = 0 <=> name = "i8259_init"
        /\ name = "rtc_init B" => boot = 3
    <2>1. boot + 1 \in 1 .. 11 /\ boot \in Nat
      BY <1>1
    <2>2. /\ name = "i8259_init" <=> boot + 1 = 1
          /\ name = "rtc_init B" <=> boot + 1 = 4
      BY <2>1, BootOrderIs
    <2>3. (boot + 1 = 1 <=> boot = 0) /\ (boot + 1 = 4 <=> boot = 3)
      BY <2>1
    <2>4. QED
      BY <2>2, <2>3, Zenon
  <1>3. /\ pie' = (pie \/ name = "rtc_init B")
        /\ interrupts' = (name # "cli" /\ (interrupts \/ name = "sti"))
        /\ name = "i8259_init" => mask' = MaskAfterInit /\ irr' = {} /\ isr' = {}
        /\ name # "i8259_init" => irr' = irr /\ isr' = isr /\ mask' \subseteq mask
    BY DEF Boot, BootEffect, enable_irq, Nth
  <1> HIDE DEF name
  <1>4. TypeOK'
    <2>1. mask' \subseteq Lines /\ irr' \subseteq Lines /\ isr' \subseteq Lines
      BY <1>3, TypesAre DEF InterruptsInv, MaskAfterInit, Lines
    <2>2. boot' \in 0 .. 11
      BY <1>1
    <2>3. /\ interrupts' \in BOOLEAN /\ pie' \in BOOLEAN /\ flag' \in BOOLEAN
          /\ parked' \in BOOLEAN /\ handler' \in {NONE} \cup Handling
      BY <1>1, <1>3, TypesAre DEF InterruptsInv
    <2>4. QED
      BY <2>1, <2>2, <2>3, TypesNext
  <1>5. ~parked
    <2>1. ~Done("pit_init")
      <3>1. \A i \in 1 .. boot : i \in 1 .. 11 /\ i # 11
        BY <1>1
      <3>2. \A i \in 1 .. boot : Nth(i) # "pit_init"
        BY <3>1, BootOrderIs
      <3>3. QED
        BY <3>2 DEF Done, Nth
    <2>2. QED
      BY <2>1 DEF InterruptsInv, OneKeyboard
  <1>6. InServiceOwed'
    <2>1. Owed(NONE, FALSE) = {}
      BY DEF Owed, OwedBy
    <2>2. /\ handler \in {NONE} \cup Handling /\ handler' \in {NONE} \cup Handling
          /\ parked = FALSE /\ parked' = FALSE
      BY <1>1, <1>5, TypesAre DEF InterruptsInv
    <2>3. isr = {}
      BY <1>1, <2>1, <2>2, InServiceIs DEF InterruptsInv
    <2>4. isr' = Owed(handler', parked')
      BY <1>1, <1>3, <2>1, <2>2, <2>3
    <2>5. QED
      BY <2>2, <2>4, InServiceNext
  <1>7. ClockNotLost'
    <2>1. boot = 0 => ~flag
      BY DEF InterruptsInv, ClockAfterControllers
    <2>2. QED
      BY <1>1, <1>2, <1>3, <2>1 DEF InterruptsInv, ClockNotLost, Runs
  <1>8. HandlerAlone' /\ OneKeyboard' /\ ClockAfterControllers'
    <2>1. HandlerAlone' /\ OneKeyboard'
      BY <1>1, <1>5 DEF HandlerAlone, OneKeyboard
    <2>2. ClockAfterControllers'
      <3>1. pie' => pie \/ name = "rtc_init B"
        BY <1>3, Zenon
      <3>2. flag => pie /\ pie'
        BY <1>3 DEF InterruptsInv, ClockAfterControllers
      <3>3. pie => boot >= 4
        BY DEF InterruptsInv, ClockAfterControllers
      <3>4. pie' => boot' >= 4
        <4>1. pie => boot' >= 4
          BY <1>1, <3>3
        <4>2. boot = 3 => boot' >= 4
          BY <1>1
        <4>3. QED
          BY <1>2, <3>1, <4>1, <4>2, Zenon
      <3>5. QED
        BY <1>1, <3>2, <3>4 DEF ClockAfterControllers
    <2>3. QED
      BY <2>1, <2>2
  <1>9. QED
    BY <1>4, <1>6, <1>7, <1>8 DEF InterruptsInv

\* A device requests its line.
LEMMA DeviceStep == InterruptsInv /\ (PitTick \/ KeyPress \/ RtcPeriod) => InterruptsInv'
  <1> SUFFICES ASSUME InterruptsInv, PitTick \/ KeyPress \/ RtcPeriod PROVE InterruptsInv'
    OBVIOUS
  <1>1. /\ boot' = boot /\ interrupts' = interrupts /\ mask' = mask /\ isr' = isr
        /\ pie' = pie /\ handler' = handler /\ parked' = parked
        /\ irr' \subseteq Lines /\ irr \subseteq irr'
        /\ \/ flag' = flag
           \/ pie /\ RTC_IRQ \in irr' /\ flag' = TRUE
    BY TypesAre DEF InterruptsInv, PitTick, KeyPress, RtcPeriod, Request, Lines
  <1>2. TypeOK'
    BY <1>1, TypesAre, TypesNext DEF InterruptsInv
  <1>3. InServiceOwed'
    BY <1>1, TypesAre, InServiceIs, InServiceNext DEF InterruptsInv
  <1>4. ClockNotLost'
    BY <1>1 DEF InterruptsInv, ClockNotLost, Runs
  <1>5. HandlerAlone' /\ OneKeyboard' /\ ClockAfterControllers'
    BY <1>1 DEF InterruptsInv, HandlerAlone, OneKeyboard, ClockAfterControllers, Done, Runs
  <1>6. QED
    BY <1>2, <1>3, <1>4, <1>5 DEF InterruptsInv

\* An interrupt is delivered: its line goes from requested to served.
LEMMA AcceptStep ==
    ASSUME InterruptsInv, NEW irq \in Lines \ {SLAVE_IRQ}, Accept(irq)
    PROVE  InterruptsInv'
  <1>1. /\ interrupts /\ irq \in irr /\ \A served \in isr : irq < served
        /\ irr' = irr \ {irq} /\ isr' = isr \cup Service(irq) /\ interrupts' = FALSE
        /\ handler' = <<irq, "entered">>
        /\ boot' = boot /\ mask' = mask /\ pie' = pie /\ flag' = flag /\ parked' = parked
    BY DEF Accept, Deliverable
  <1>2. handler = NONE
    BY <1>1 DEF InterruptsInv, HandlerAlone
  <1>3. irq \in {PIT_IRQ, KEYBOARD_IRQ, RTC_IRQ} /\ Service(irq) \subseteq Lines
    BY DEF Lines, Service
  <1>4. handler' \in Handling
    BY <1>1, <1>3 DEF Handling
  <1>5. TypeOK'
    BY <1>1, <1>3, <1>4, TypesAre, TypesNext DEF InterruptsInv
  <1>6. InServiceOwed'
    <2>1. isr = Owed(NONE, parked)
      BY <1>2, TypesAre, InServiceIs DEF InterruptsInv
    <2>2. OwedBy(NONE) = {} /\ OwedBy(<<irq, "entered">>) = Service(irq)
      BY <1>3 DEF OwedBy, Service
    <2>3. isr' = Owed(handler', parked')
      BY <1>1, <2>1, <2>2 DEF Owed
    <2>4. QED
      BY <1>4, <1>5, <2>3, InServiceNext, TypesNext
  <1>7. ClockNotLost'
    BY <1>1, <1>2 DEF InterruptsInv, ClockNotLost, Runs
  <1>8. parked => irq # KEYBOARD_IRQ
    <2>1. parked => KEYBOARD_IRQ \in isr
      BY <1>2, TypesAre, InServiceIs DEF InterruptsInv, Owed
    <2>2. QED
      BY <1>1, <2>1
  <1>9. HandlerAlone' /\ OneKeyboard' /\ ClockAfterControllers'
    BY <1>1, <1>8
       DEF InterruptsInv, HandlerAlone, OneKeyboard, ClockAfterControllers, Done, Runs
  <1>10. QED
    BY <1>5, <1>6, <1>7, <1>9 DEF InterruptsInv

\* A handler goes on: it sends its EOI, waits without one, or returns after it.
LEMMA HandlerStepPreserves == InterruptsInv /\ HandlerStep => InterruptsInv'
  <1> SUFFICES ASSUME InterruptsInv, HandlerStep PROVE InterruptsInv'
    OBVIOUS
  <1>1. /\ boot' = boot /\ mask' = mask /\ irr' = irr /\ pie' = pie
        /\ handler \in Handling /\ ~interrupts
        /\ \/ flag' = flag /\ ~Runs(RTC_IRQ, "entered")
           \/ flag' = FALSE
    BY TypesAre
       DEF HandlerStep, RtcReadC, RtcEnd, PitEoi, PitResumes, KeyboardEnd, KeyboardSwitches,
           Iret, Runs, InterruptsInv, HandlerAlone
  <1>2. isr = Owed(handler, parked) /\ parked \in BOOLEAN
    BY TypesAre, InServiceIs DEF InterruptsInv
  <1>3. /\ handler' \in {NONE} \cup Handling /\ parked' \in BOOLEAN
        /\ isr' = Owed(handler', parked')
    <2>1. CASE RtcReadC
      BY <1>2, <2>1 DEF RtcReadC, Runs, Handling, Owed, OwedBy
    <2>2. CASE RtcEnd
      BY <1>2, <2>2 DEF RtcEnd, Runs, send_eoi, Service, Handling, Owed, OwedBy
    <2>3. CASE PitEoi
      BY <1>2, <2>3 DEF PitEoi, Runs, send_eoi, Service, Handling, Owed, OwedBy
    <2>4. CASE PitResumes
      BY <1>2, <2>4 DEF PitResumes, Runs, Handling, Owed, OwedBy
    <2>5. CASE KeyboardEnd
      <3>1. ~parked
        BY <2>5 DEF KeyboardEnd, InterruptsInv, OneKeyboard
      <3>2. QED
        BY <1>2, <2>5, <3>1 DEF KeyboardEnd, Runs, send_eoi, Service, Handling, Owed, OwedBy
    <2>6. CASE KeyboardSwitches
      BY <1>2, <2>6 DEF KeyboardSwitches, Runs, Handling, Owed, OwedBy
    <2>7. CASE Iret
      <3>1. OwedBy(handler) = {} /\ OwedBy(NONE) = {}
        BY <1>1, <2>7 DEF Iret, Handling, OwedBy
      <3>2. QED
        BY <1>2, <2>7, <3>1 DEF Iret, Owed
    <2>8. QED
      BY <2>1, <2>2, <2>3, <2>4, <2>5, <2>6, <2>7 DEF HandlerStep
  <1>4. isr' \subseteq Lines /\ interrupts' \in BOOLEAN /\ flag' \in BOOLEAN
    <2>1. isr' \subseteq Lines
      BY <1>3 DEF Owed, OwedBy, Lines
    <2>2. interrupts' \in BOOLEAN /\ flag' \in BOOLEAN
      BY <1>1, TypesAre
         DEF InterruptsInv, HandlerStep, RtcReadC, RtcEnd, PitEoi, PitResumes, KeyboardEnd,
             KeyboardSwitches, Iret
    <2>3. QED
      BY <2>1, <2>2
  <1>5. TypeOK'
    BY <1>1, <1>3, <1>4, TypesAre, TypesNext DEF InterruptsInv
  <1>6. InServiceOwed'
    BY <1>3, InServiceNext
  <1>7. ClockNotLost'
    BY <1>1 DEF InterruptsInv, ClockNotLost, Runs
  <1>8. HandlerAlone' /\ OneKeyboard' /\ ClockAfterControllers'
    <2>1. HandlerAlone'
      BY <1>1 DEF InterruptsInv, HandlerAlone, HandlerStep, RtcReadC, RtcEnd, PitEoi,
                  PitResumes, KeyboardEnd, KeyboardSwitches, Iret
    <2>2. OneKeyboard'
      <3>1. Done("pit_init")' <=> Done("pit_init")
        BY <1>1 DEF Done
      <3>2. parked' => Done("pit_init")
        BY DEF InterruptsInv, OneKeyboard, HandlerStep, RtcReadC, RtcEnd, PitEoi, PitResumes,
               KeyboardEnd, KeyboardSwitches, Iret
      <3>3. parked' => /\ handler' # <<KEYBOARD_IRQ, "entered">>
                       /\ handler' # <<KEYBOARD_IRQ, "serving">>
        <4>1. PitResumes => ~parked'
          BY DEF PitResumes
        <4>2. RtcReadC \/ RtcEnd \/ PitEoi \/ KeyboardEnd \/ KeyboardSwitches \/ Iret =>
                  /\ handler' # <<KEYBOARD_IRQ, "entered">>
                  /\ handler' # <<KEYBOARD_IRQ, "serving">>
          BY DEF RtcReadC, RtcEnd, PitEoi, KeyboardEnd, KeyboardSwitches, Iret
        <4>3. QED
          BY <4>1, <4>2, Zenon DEF HandlerStep
      <3>4. QED
        BY <3>1, <3>2, <3>3 DEF OneKeyboard, Runs
    <2>3. ClockAfterControllers'
      BY <1>1 DEF InterruptsInv, ClockAfterControllers
    <2>4. QED
      BY <2>1, <2>2, <2>3
  <1>9. QED
    BY <1>5, <1>6, <1>7, <1>8 DEF InterruptsInv

-----------------------------------------------------------------------------
(* The theorems.                                                            *)

\* The inductive invariant, from power-on.
THEOREM InterruptsInvariant == Spec => []InterruptsInv
  <1>1. InterruptsInv /\ [Next]_vars => InterruptsInv'
    <2> SUFFICES ASSUME InterruptsInv, [Next]_vars PROVE InterruptsInv'
      OBVIOUS
    <2>1. CASE UNCHANGED vars
      BY <2>1 DEF vars, InterruptsInv, TypeOK, InServiceOwed, ClockNotLost, HandlerAlone,
                  OneKeyboard, ClockAfterControllers, Runs, Done
    <2>2. CASE Next
      BY <2>2, BootStep, DeviceStep, AcceptStep, HandlerStepPreserves DEF Next
    <2>3. QED
      BY <2>1, <2>2
  <1>2. QED
    BY <1>1, InitInterrupts, PTL DEF Spec

\* Between any two instructions of boot and of the handlers, each line in service has
\* exactly one handler that will still send its EOI.
THEOREM EveryEoiOwed == Spec => []InServiceOwed
  <1>1. InterruptsInv => InServiceOwed
    BY DEF InterruptsInv
  <1>2. QED
    BY <1>1, InterruptsInvariant, PTL

\* rtc_handler() reads register C after every interrupt of the clock, so that the clock
\* never waits for a read that does not come.
THEOREM ClockNeverLost == Spec => []ClockNotLost
  <1>1. InterruptsInv => ClockNotLost
    BY DEF InterruptsInv
  <1>2. QED
    BY <1>1, InterruptsInvariant, PTL
=============================================================================
