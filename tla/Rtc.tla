-------------------------------- MODULE Rtc --------------------------------
(***************************************************************************)
(* The virtualised real-time clock.  The hardware interrupts at one fixed  *)
(* rate; every process with the clock open has a countdown in its pcb that *)
(* rtc_handler() decrements and whose end rtc_read() busy-waits for.       *)
(*                                                                         *)
(* The system calls run with interrupts enabled, so every statement that   *)
(* shares a field with rtc_handler() is a step of its own; rtc_handler()   *)
(* runs in an interrupt gate and is one step.  A process may be halted     *)
(* between any two of its steps, and its slot taken by another.  since is  *)
(* a history variable; it counts interrupts and saturates at MaxRate.      *)
(***************************************************************************)
EXTENDS Integers

CONSTANTS
    Pid,            \* the pcb slots looked at
    Ticked,         \* the slots rtc_handler() walks: 3 .. 5
    RTC_MAX_FREQ,   \* the interrupt rate
    RTC_MIN_FREQ,
    Freqs           \* frequencies a program may ask for

ASSUME RtcAssumption ==
    /\ RTC_MIN_FREQ \in Nat \ {0}
    /\ RTC_MAX_FREQ \in Nat
    /\ RTC_MIN_FREQ <= RTC_MAX_FREQ
    /\ Freqs \subseteq Int

VARIABLES
    present, rtc, rtc_fired, rtc_curr, rtc_rate,    \* pcbs[.]
    pc,             \* where in the rtc_ call the process is
    since           \* interrupts since rtc_curr was last set to rtc_rate

vars == <<present, rtc, rtc_fired, rtc_curr, rtc_rate, pc, since>>

MaxRate == RTC_MAX_FREQ
Locations == {"idle", "open", "unfired", "read", "took", "write"}

TypeOK ==
    /\ present \in [Pid -> BOOLEAN]
    /\ rtc \in [Pid -> BOOLEAN]
    /\ rtc_fired \in [Pid -> 0 .. 1]
    /\ rtc_curr \in [Pid -> 0 .. MaxRate]
    /\ rtc_rate \in [Pid -> 0 .. MaxRate]
    /\ pc \in [Pid -> Locations]
    /\ since \in [Pid -> 0 .. MaxRate]

Init ==
    /\ present = [p \in Pid |-> FALSE]
    /\ rtc = [p \in Pid |-> FALSE]
    /\ rtc_fired = [p \in Pid |-> 0]
    /\ rtc_curr = [p \in Pid |-> 0]
    /\ rtc_rate = [p \in Pid |-> 0]
    /\ pc = [p \in Pid |-> "idle"]
    /\ since = [p \in Pid |-> 0]

-----------------------------------------------------------------------------
\* Mutant: the period is over at zero, which the test before the decrement skips.
CountedDownAtZero(p) == rtc_curr[p] = 0

\* The interrupt that ends the period, rather than shortening it.
CountedDown(p) == rtc_curr[p] <= 1

\* rtc_handler(): one hardware interrupt, for every process that has the clock
\* open and has no unconsumed end of period.
rtc_handler ==
    LET ticking == {p \in Pid \cap Ticked : present[p] /\ rtc[p] /\ rtc_fired[p] = 0}
    IN  /\ rtc_fired' = [p \in Pid |-> IF p \in ticking /\ CountedDown(p)
                                       THEN rtc_fired[p] + 1 ELSE rtc_fired[p]]
        /\ rtc_curr' = [p \in Pid |-> IF p \in ticking /\ ~CountedDown(p)
                                      THEN rtc_curr[p] - 1 ELSE rtc_curr[p]]
        /\ since' = [p \in Pid |-> IF since[p] < MaxRate THEN since[p] + 1 ELSE since[p]]
        /\ UNCHANGED <<present, rtc, rtc_rate, pc>>

-----------------------------------------------------------------------------
(* System calls of process p.                                               *)

At(p, l) == present[p] /\ pc[p] = l
Goto(p, l) == pc' = [pc EXCEPT ![p] = l]

\* rtc_curr = rtc_rate: a full period from now.
Restart(p, rate) ==
    /\ rtc_curr' = [rtc_curr EXCEPT ![p] = rate]
    /\ since' = [since EXCEPT ![p] = 0]

\* rtc_open(): the flag the handler looks at is set before anything else ...
OpenFlag(p) ==
    /\ At(p, "idle")
    /\ rtc' = [rtc EXCEPT ![p] = TRUE]
    /\ Goto(p, "open")
    /\ UNCHANGED <<present, rtc_fired, rtc_curr, rtc_rate, since>>

\* ... an end of period is forgotten ...
OpenFired(p) ==
    /\ At(p, "open")
    /\ rtc_fired' = [rtc_fired EXCEPT ![p] = 0]
    /\ Goto(p, "unfired")
    /\ UNCHANGED <<present, rtc, rtc_curr, rtc_rate, since>>

\* ... and the rate is set; the countdown follows as in rtc_write() (WriteCurr).
OpenRate(p) ==
    /\ At(p, "unfired")
    /\ rtc_rate' = [rtc_rate EXCEPT ![p] = RTC_MAX_FREQ \div RTC_MIN_FREQ]
    /\ Goto(p, "write")
    /\ UNCHANGED <<present, rtc, rtc_fired, rtc_curr, since>>

rtc_close(p) ==
    /\ At(p, "idle") /\ rtc[p]
    /\ rtc' = [rtc EXCEPT ![p] = FALSE]
    /\ UNCHANGED <<present, rtc_fired, rtc_curr, rtc_rate, pc, since>>

\* Mutant: a period that ended before the call counts.
ReadStartKeepsFired(p) ==
    /\ At(p, "idle")
    /\ Goto(p, "read")
    /\ UNCHANGED <<present, rtc, rtc_fired, rtc_curr, rtc_rate, since>>

\* rtc_read() forgets an earlier end of period ...
ReadStart(p) ==
    /\ At(p, "idle")
    /\ rtc_fired' = [rtc_fired EXCEPT ![p] = 0]
    /\ Goto(p, "read")
    /\ UNCHANGED <<present, rtc, rtc_curr, rtc_rate, since>>

\* Mutant: whether the clock is open is only looked at after the wait.
ReadFailsAfterWait(p) ==
    /\ At(p, "read") /\ ~rtc[p]
    /\ rtc_fired[p] > 0
    /\ Goto(p, "idle")
    /\ UNCHANGED <<present, rtc, rtc_fired, rtc_curr, rtc_rate, since>>

\* ... returns -1 if the clock is not open (another descriptor was closed) ...
ReadFails(p) ==
    /\ At(p, "read") /\ ~rtc[p]
    /\ Goto(p, "idle")
    /\ UNCHANGED <<present, rtc, rtc_fired, rtc_curr, rtc_rate, since>>

\* ... polls until there is one and consumes it ...
ReadTake(p) ==
    /\ At(p, "read") /\ rtc[p]
    /\ rtc_fired[p] > 0
    /\ rtc_fired' = [rtc_fired EXCEPT ![p] = @ - 1]
    /\ Goto(p, "took")
    /\ UNCHANGED <<present, rtc, rtc_curr, rtc_rate, since>>

\* ... starts the next period and returns 0.
ReadReturn(p) ==
    /\ At(p, "took")
    /\ Restart(p, rtc_rate[p])
    /\ Goto(p, "idle")
    /\ UNCHANGED <<present, rtc, rtc_fired, rtc_rate>>

\* freq & (freq - 1) = 0 for a positive freq.
PowerOf2(freq) == \E k \in 0 .. freq : freq = 2^k

\* Mutant: no lower limit but the one the bit test needs.
ValidFreqNoMinimum(freq) == freq > 0 /\ freq <= RTC_MAX_FREQ /\ PowerOf2(freq)

\* The frequencies rtc_write() accepts; it returns -1 for the others.
ValidFreq(freq) == freq >= RTC_MIN_FREQ /\ freq <= RTC_MAX_FREQ /\ PowerOf2(freq)

\* rtc_write(): the rate first ...
WriteRate(p, freq) ==
    /\ At(p, "idle") /\ rtc[p]
    /\ ValidFreq(freq)
    /\ rtc_rate' = [rtc_rate EXCEPT ![p] = RTC_MAX_FREQ \div freq]
    /\ Goto(p, "write")
    /\ UNCHANGED <<present, rtc, rtc_fired, rtc_curr, since>>

\* ... then the countdown, here and in rtc_open().
WriteCurr(p) ==
    /\ At(p, "write")
    /\ Restart(p, rtc_rate[p])
    /\ Goto(p, "idle")
    /\ UNCHANGED <<present, rtc, rtc_fired, rtc_rate>>

-----------------------------------------------------------------------------
(* The process table, as far as the clock sees it.                          *)

\* execute() takes the slot; of these fields it sets only present.
execute(p) ==
    /\ ~present[p]
    /\ present' = [present EXCEPT ![p] = TRUE]
    /\ UNCHANGED <<rtc, rtc_fired, rtc_curr, rtc_rate, pc, since>>

\* halt(), by the process itself or by Ctrl+C at any point of a system call.
halt(p) ==
    /\ present[p]
    /\ present' = [present EXCEPT ![p] = FALSE]
    /\ rtc' = [rtc EXCEPT ![p] = FALSE]
    /\ Goto(p, "idle")
    /\ UNCHANGED <<rtc_fired, rtc_curr, rtc_rate, since>>

-----------------------------------------------------------------------------
Call(p) ==
    \/ OpenFlag(p) \/ rtc_close(p) \/ ReadStart(p) \/ \E freq \in Freqs : WriteRate(p, freq)

\* What a process inside a call does next.
Continue(p) ==
    \/ OpenFired(p) \/ OpenRate(p)
    \/ ReadFails(p) \/ ReadTake(p) \/ ReadReturn(p)
    \/ WriteCurr(p)

Next ==
    \/ rtc_handler
    \/ \E p \in Pid : Call(p) \/ Continue(p) \/ execute(p) \/ halt(p)

Spec == Init /\ [][Next]_vars

\* The clock keeps interrupting (as long as IRQ1, which blocks it, gets its EOI),
\* and the round robin gives every process that is inside a call the processor
\* again and again.
FairSpec ==
    /\ Spec
    /\ WF_vars(rtc_handler)
    /\ \A p \in Pid : WF_vars(Continue(p))

-----------------------------------------------------------------------------
(* Properties.                                                              *)

\* The countdown of an open clock is within its period whenever the process is
\* not in the middle of setting the two, so that a read waits for at most
\* rtc_rate interrupts; and the period is that of an accepted frequency.
CountdownInPeriod ==
    \A p \in Pid : rtc[p] /\ pc[p] \notin {"open", "unfired", "write"} =>
        /\ 1 <= rtc_curr[p] /\ rtc_curr[p] <= rtc_rate[p]
        /\ rtc_rate[p] <= RTC_MAX_FREQ \div RTC_MIN_FREQ

\* rtc_read() never returns early, whatever interrupts fall between its
\* statements and whatever state an earlier call or an earlier owner of the slot
\* left: when it has seen the end of a period, at least rtc_rate interrupts have
\* passed since the previous read returned (or the clock was opened, or its
\* frequency set).
ReadNotEarly ==
    \A p \in Pid : pc[p] = "took" => since[p] >= rtc_rate[p]

\* rtc_read() returns: a process that waits for the clock stops waiting.
ReadReturns == \A p \in Pid : At(p, "read") ~> ~At(p, "read")
=============================================================================
