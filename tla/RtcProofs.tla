----------------------------- MODULE RtcProofs -----------------------------
(***************************************************************************)
(* Proofs about module Rtc, for any set of processes and any pair of       *)
(* limits.  ReadNotEarly is not inductive: it needs that the countdown and *)
(* the interrupts already seen make up the period (Accounted), and that    *)
(* the flag a waiting read polls is never one from before the read.        *)
(*                                                                         *)
(* The second part is about module Blink, the characters that fish makes   *)
(* blink: their pointers form a list that has a slot only once, and it has *)
(* the cells in use (IsList, CellsFit).  Following the pointers then finds *)
(* this list and no other, so that every operation is one on a sequence of *)
(* characters, and the one that module BlinkOrder describes.               *)
(***************************************************************************)
EXTENDS Rtc, FiniteSetTheorems, SequenceTheorems, WellFoundedInduction, TLAPS

CONSTANTS Spots, Rhythms, SCREEN, Capacity, WORD

VARIABLES list_head, blink, age

B == INSTANCE Blink WITH Locations <- Spots, since <- age

Longest == RTC_MAX_FREQ \div RTC_MIN_FREQ

\* An open clock has the period of an accepted frequency, also while rtc_write()
\* has yet to restart the countdown.
RateInRange ==
    \A p \in Pid : rtc[p] /\ pc[p] \notin {"open", "unfired"} => 1 <= rtc_rate[p] /\ rtc_rate[p] <= Longest

\* What is left of the period and what has passed since it began make it up.
Accounted ==
    \A p \in Pid : rtc[p] /\ pc[p] \notin {"open", "unfired", "write"} =>
        since[p] + rtc_curr[p] >= rtc_rate[p]

\* A flag that a waiting rtc_read() polls was raised at the end of a period.
FiredIsFresh ==
    \A p \in Pid : rtc[p] /\ pc[p] = "read" /\ rtc_fired[p] = 1 => since[p] >= rtc_rate[p]

RtcInv ==
    /\ TypeOK
    /\ CountdownInPeriod
    /\ ReadNotEarly
    /\ RateInRange
    /\ Accounted
    /\ FiredIsFresh

\* The limits are natural numbers, and so is the longest period.
LEMMA Limits ==
    /\ RTC_MIN_FREQ \in Nat /\ RTC_MIN_FREQ >= 1
    /\ RTC_MAX_FREQ \in Nat /\ RTC_MIN_FREQ <= RTC_MAX_FREQ
    /\ Longest \in Nat /\ 1 <= Longest /\ Longest <= MaxRate
    /\ MaxRate = RTC_MAX_FREQ
  BY RtcAssumption DEF Longest, MaxRate

\* A longer period for a lower frequency.
LEMMA Quotient ==
    ASSUME NEW a \in Nat, NEW f \in Nat, NEW g \in Nat, 1 <= f, f <= g, g <= a
    PROVE  a \div g \in Nat /\ 1 <= a \div g /\ a \div g <= a \div f
  OBVIOUS

\* The period rtc_write() computes for an accepted frequency.
LEMMA AcceptedRate ==
    ASSUME NEW freq \in Freqs, ValidFreq(freq)
    PROVE  /\ RTC_MAX_FREQ \div freq \in Nat
           /\ 1 <= RTC_MAX_FREQ \div freq /\ RTC_MAX_FREQ \div freq <= Longest
  <1>1. freq \in Nat /\ RTC_MIN_FREQ <= freq /\ freq <= RTC_MAX_FREQ
    BY Limits, RtcAssumption DEF ValidFreq
  <1>2. QED
    BY <1>1, Limits, Quotient DEF Longest

\* No clock is open at boot.
LEMMA InitRtcInv == Init => RtcInv
  BY Limits DEF Init, RtcInv, TypeOK, Locations, CountdownInPeriod, ReadNotEarly,
                RateInRange, Accounted, FiredIsFresh

\* An interrupt, between any two statements of the calls.
LEMMA HandlerPreserves ==
    ASSUME RtcInv, rtc_handler
    PROVE  RtcInv'
  <1> USE DEF RtcInv
  <1>1. /\ UNCHANGED <<present, rtc, rtc_rate, pc>>
        /\ rtc_fired' \in [Pid -> 0 .. 1]
        /\ rtc_curr' \in [Pid -> 0 .. MaxRate]
        /\ since' \in [Pid -> 0 .. MaxRate]
    BY Limits DEF rtc_handler, TypeOK, CountedDown
  <1>2. \A p \in Pid :
           /\ since'[p] = IF since[p] < MaxRate THEN since[p] + 1 ELSE since[p]
           /\ \/ rtc_fired'[p] = rtc_fired[p] /\ rtc_curr'[p] = rtc_curr[p]
              \/ rtc_fired[p] = 0 /\ rtc_fired'[p] = 1 /\ rtc_curr'[p] = rtc_curr[p]
                 /\ rtc_curr[p] <= 1
              \/ rtc_fired'[p] = rtc_fired[p] /\ rtc_curr'[p] = rtc_curr[p] - 1
                 /\ rtc_curr[p] > 1
    BY Limits DEF rtc_handler, TypeOK, CountedDown
  <1>3. TypeOK'
    BY <1>1 DEF TypeOK
  <1>4. \A p \in Pid : /\ since[p] \in 0 .. MaxRate /\ rtc_curr[p] \in 0 .. MaxRate
                       /\ rtc_rate[p] \in 0 .. MaxRate /\ rtc_fired[p] \in 0 .. 1
    BY DEF TypeOK
  <1>5. CountdownInPeriod'
    BY <1>1, <1>2, <1>4, Limits DEF CountdownInPeriod
  <1>6. ReadNotEarly'
    BY <1>1, <1>2, <1>4, Limits DEF ReadNotEarly
  <1>7. RateInRange'
    BY <1>1 DEF RateInRange
  <1>8. Accounted'
    BY <1>1, <1>2, <1>4, Limits DEF Accounted, RateInRange
  <1>9. FiredIsFresh'
    BY <1>1, <1>2, <1>4, Limits DEF FiredIsFresh, Accounted
  <1>10. QED
    BY <1>3, <1>5, <1>6, <1>7, <1>8, <1>9

\* Every step of process p leaves the other processes alone; what it does to p
\* decides the invariant.
LEMMA StepPreserves ==
    ASSUME RtcInv, NEW p \in Pid,
           TypeOK',
           \A q \in Pid : q # p =>
               /\ rtc'[q] = rtc[q] /\ rtc_fired'[q] = rtc_fired[q] /\ rtc_curr'[q] = rtc_curr[q]
               /\ rtc_rate'[q] = rtc_rate[q] /\ pc'[q] = pc[q] /\ since'[q] = since[q],
           rtc'[p] /\ pc'[p] \notin {"open", "unfired"} => 1 <= rtc_rate'[p] /\ rtc_rate'[p] <= Longest,
           rtc'[p] /\ pc'[p] \notin {"open", "unfired", "write"} =>
               /\ 1 <= rtc_curr'[p] /\ rtc_curr'[p] <= rtc_rate'[p]
               /\ since'[p] + rtc_curr'[p] >= rtc_rate'[p],
           rtc'[p] /\ pc'[p] = "read" /\ rtc_fired'[p] = 1 => since'[p] >= rtc_rate'[p],
           pc'[p] = "took" => since'[p] >= rtc_rate'[p]
    PROVE  RtcInv'
  <1> USE DEF RtcInv
  <1>1. CountdownInPeriod'
    BY DEF CountdownInPeriod, Longest
  <1>2. ReadNotEarly'
    BY DEF ReadNotEarly
  <1>3. RateInRange'
    BY DEF RateInRange
  <1>4. Accounted'
    BY DEF Accounted
  <1>5. FiredIsFresh'
    BY DEF FiredIsFresh
  <1>6. QED
    BY <1>1, <1>2, <1>3, <1>4, <1>5

\* Every step preserves the invariant.
LEMMA NextRtcInv ==
    ASSUME RtcInv, [Next]_vars
    PROVE  RtcInv'
  <1> USE DEF RtcInv
  <1>1. CASE rtc_handler
    BY <1>1, HandlerPreserves
  <1>2. CASE UNCHANGED vars
    BY <1>2 DEF vars, TypeOK, CountdownInPeriod, ReadNotEarly, RateInRange, Accounted, FiredIsFresh
  <1>3. ASSUME NEW p \in Pid, Call(p) \/ Continue(p) \/ execute(p) \/ halt(p)
        PROVE  RtcInv'
    <2> DEFINE Kept == /\ 1 <= rtc_curr[p] /\ rtc_curr[p] <= rtc_rate[p]
                       /\ since[p] + rtc_curr[p] >= rtc_rate[p]
    <2>0. /\ present[p] \in BOOLEAN /\ rtc[p] \in BOOLEAN /\ rtc_fired[p] \in 0 .. 1
          /\ rtc_curr[p] \in 0 .. MaxRate /\ rtc_rate[p] \in 0 .. MaxRate
          /\ pc[p] \in Locations /\ since[p] \in 0 .. MaxRate
          /\ rtc[p] /\ pc[p] \notin {"open", "unfired"} => 1 <= rtc_rate[p] /\ rtc_rate[p] <= Longest
          /\ rtc[p] /\ pc[p] \notin {"open", "unfired", "write"} => Kept
      BY DEF TypeOK, RateInRange, CountdownInPeriod, Accounted
    <2> USE DEF At, Goto, Restart
    <2>1. CASE OpenFlag(p)
      <3>1. TypeOK'
        BY <2>1 DEF OpenFlag, TypeOK, Locations
      <3>2. QED
        BY <2>1, <3>1, StepPreserves DEF OpenFlag, TypeOK
    <2>2. CASE rtc_close(p)
      <3>1. TypeOK'
        BY <2>2 DEF rtc_close, TypeOK
      <3>2. QED
        BY <2>2, <3>1, StepPreserves DEF rtc_close, TypeOK
    <2>3. CASE ReadStart(p)
      <3>1. TypeOK'
        BY <2>3 DEF ReadStart, TypeOK, Locations
      <3>2. QED
        BY <2>0, <2>3, <3>1, StepPreserves DEF ReadStart, TypeOK
    <2>4. CASE \E freq \in Freqs : WriteRate(p, freq)
      <3>1. PICK freq \in Freqs : WriteRate(p, freq)
        BY <2>4
      <3>2. /\ RTC_MAX_FREQ \div freq \in 0 .. MaxRate
            /\ 1 <= RTC_MAX_FREQ \div freq /\ RTC_MAX_FREQ \div freq <= Longest
        BY <3>1, AcceptedRate, Limits DEF WriteRate
      <3>3. TypeOK'
        BY <3>1, <3>2 DEF WriteRate, TypeOK, Locations
      <3>4. QED
        BY <3>1, <3>2, <3>3, StepPreserves DEF WriteRate, TypeOK
    <2>5. CASE OpenFired(p) \/ OpenRate(p)
      <3>1. Longest \in 0 .. MaxRate /\ 0 \in 0 .. 1
        BY Limits
      <3>2. CASE OpenFired(p)
        <4>1. TypeOK'
          BY <3>1, <3>2 DEF OpenFired, TypeOK, Locations
        <4>2. QED
          BY <2>0, <3>2, <4>1, StepPreserves DEF OpenFired, TypeOK
      <3>3. CASE OpenRate(p)
        <4>1. TypeOK'
          BY <3>1, <3>3 DEF OpenRate, TypeOK, Locations, Longest
        <4>2. rtc_rate'[p] = Longest /\ pc'[p] = "write"
          BY <3>3 DEF OpenRate, TypeOK, Longest
        <4>3. QED
          BY <3>3, <4>1, <4>2, Limits, StepPreserves DEF OpenRate, TypeOK
      <3>4. QED
        BY <2>5, <3>2, <3>3
    <2>6. CASE ReadFails(p)
      <3>1. TypeOK'
        BY <2>6 DEF ReadFails, TypeOK, Locations
      <3>2. QED
        BY <2>6, <3>1, StepPreserves DEF ReadFails, TypeOK
    <2>7. CASE ReadTake(p)
      <3>1. rtc_fired[p] = 1 /\ since[p] >= rtc_rate[p]
        BY <2>0, <2>7 DEF ReadTake, FiredIsFresh
      <3>2. TypeOK'
        BY <2>7, <3>1 DEF ReadTake, TypeOK, Locations
      <3>3. QED
        BY <2>0, <2>7, <3>1, <3>2, StepPreserves DEF ReadTake, TypeOK
    <2>8. CASE ReadReturn(p)
      <3>1. TypeOK'
        BY <2>0, <2>8, Limits DEF ReadReturn, TypeOK, Locations
      <3>2. rtc_curr'[p] = rtc_rate[p] /\ since'[p] = 0 /\ pc'[p] = "idle"
        BY <2>8 DEF ReadReturn, TypeOK
      <3>3. QED
        BY <2>0, <2>8, <3>1, <3>2, StepPreserves DEF ReadReturn, TypeOK
    <2>9. CASE WriteCurr(p)
      <3>1. TypeOK'
        BY <2>0, <2>9, Limits DEF WriteCurr, TypeOK, Locations
      <3>2. rtc_curr'[p] = rtc_rate[p] /\ since'[p] = 0 /\ pc'[p] = "idle"
        BY <2>9 DEF WriteCurr, TypeOK
      <3>3. QED
        BY <2>0, <2>9, <3>1, <3>2, StepPreserves DEF WriteCurr, TypeOK
    <2>10. CASE execute(p)
      BY <2>10 DEF execute, TypeOK, CountdownInPeriod, ReadNotEarly, RateInRange, Accounted,
                   FiredIsFresh
    <2>11. CASE halt(p)
      <3>1. TypeOK'
        BY <2>11 DEF halt, TypeOK, Locations
      <3>2. QED
        BY <2>11, <3>1, StepPreserves DEF halt, TypeOK
    <2>12. QED
      BY <1>3, <2>1, <2>2, <2>3, <2>4, <2>5, <2>6, <2>7, <2>8, <2>9, <2>10, <2>11
         DEF Call, Continue
  <1>4. QED
    BY <1>1, <1>2, <1>3 DEF Next

\* The inductive invariant of the clock.
THEOREM RtcInvariant == Spec => []RtcInv
  BY InitRtcInv, NextRtcInv, PTL DEF Spec

\* rtc_read() never returns before its period is over, for any limits, any
\* frequencies and any number of processes.
THEOREM RtcReadNotEarly == Spec => []ReadNotEarly
  <1>1. RtcInv => ReadNotEarly
    BY DEF RtcInv
  <1>2. QED
    BY <1>1, RtcInvariant, PTL

\* The countdown of an open clock stays within the period of an accepted
\* frequency.
THEOREM RtcCountdown == Spec => []CountdownInPeriod
  <1>1. RtcInv => CountdownInPeriod
    BY DEF RtcInv
  <1>2. QED
    BY <1>1, RtcInvariant, PTL

-----------------------------------------------------------------------------
(* The blinking characters.                                                 *)

\* A set of natural numbers has a least member.
LEMMA LeastMember ==
    ASSUME NEW S, S \subseteq Nat, S # {}
    PROVE  \E x \in S : \A y \in S : x <= y
  <1>1. PICK x \in S : \A y \in S : ~(<<y, x>> \in OpToRel(<, Nat))
    BY NatLessThanWellFounded, WFMin, Zenon
  <1>2. \A y \in S : y < x => <<y, x>> \in OpToRel(<, Nat)
    BY DEF OpToRel
  <1>3. \A y \in S : ~(y < x)
    BY <1>1, <1>2
  <1>4. x \in Nat /\ \A y \in S : y \in Nat
    OBVIOUS
  <1>5. QED
    BY <1>3, <1>4

-----------------------------------------------------------------------------
(* Lists.                                                                   *)

\* The k-th slot of the list l, NULL behind its end.
Entry(l, k) == IF k \in 1 .. Len(l) THEN l[k] ELSE B!NULL

\* The pointers form the list l: it starts at head, and each slot points to the next.
IsList(head, cells, l) ==
    /\ l \in Seq(B!Slots)
    /\ \A i, j \in 1 .. Len(l) : l[i] = l[j] => i = j
    /\ head = Entry(l, 1)
    /\ \A i \in 1 .. Len(l) : cells[l[i]].next = Entry(l, i + 1)

\* A list has a slot only once, so that there are no more than slots, and fewer when
\* one is left out.
LEMMA ShortList ==
    ASSUME B!BlinkAssumption, NEW l \in Seq(B!Slots),
           \A i, j \in 1 .. Len(l) : l[i] = l[j] => i = j
    PROVE  /\ Len(l) <= Capacity
           /\ (\E s \in B!Slots : \A i \in 1 .. Len(l) : l[i] # s) => Len(l) < Capacity
  <1>1. Capacity \in Nat
    BY DEF B!BlinkAssumption
  <1>2. IsFiniteSet(B!Slots) /\ Cardinality(B!Slots) = Capacity
    BY <1>1, FS_Interval DEF B!Slots
  <1> DEFINE len == Len(l)
  <1>3. IsFiniteSet(1 .. len) /\ Cardinality(1 .. len) = len /\ len \in Nat
    <2>1. len \in Int /\ len \in Nat /\ (IF 1 > len THEN 0 ELSE len - 1 + 1) = len
      OBVIOUS
    <2> HIDE DEF len
    <2>2. QED
      BY <2>1, FS_Interval
  <1>4. l \in Injection(1 .. len, B!Slots)
    BY DEF Injection, IsInjective
  <1>5. len <= Capacity
    BY <1>2, <1>3, <1>4, FS_Injection
  <1>6. ASSUME NEW s \in B!Slots, \A i \in 1 .. len : l[i] # s PROVE len # Capacity
    <2>1. l \notin Surjection(1 .. len, B!Slots)
      BY <1>6 DEF Surjection
    <2>2. QED
      BY <1>2, <1>3, <1>4, <2>1, FS_Injection
  <1>7. QED
    BY <1>1, <1>3, <1>5, <1>6 DEF len

\* A list is what following the pointers finds.
LEMMA ListIs ==
    B!BlinkAssumption => \A l : IsList(list_head, blink, l) => B!List = l
  <1> SUFFICES ASSUME B!BlinkAssumption, NEW l, IsList(list_head, blink, l) PROVE B!List = l
    OBVIOUS
  <1> DEFINE N == Capacity + 1
             f == [k \in 1 .. N |-> Entry(l, k)]
             Solves(g) == g = [k \in 1 .. N |->
                                  IF k = 1 THEN list_head ELSE B!Successor(g[k - 1])]
  <1>1. /\ Len(l) \in Nat /\ Len(l) < N /\ N \in Nat /\ 1 \in 1 .. N
        /\ \A i \in 1 .. Len(l) : l[i] \in B!Slots /\ l[i] # B!NULL
        /\ list_head = Entry(l, 1)
        /\ \A i \in 1 .. Len(l) : blink[l[i]].next = Entry(l, i + 1)
    <2>1. Len(l) <= Capacity /\ Capacity \in Nat
      BY ShortList DEF IsList, B!BlinkAssumption
    <2>2. QED
      BY <2>1 DEF IsList, B!Slots, B!NULL
  <1> HIDE DEF N
  <1>2. \A k \in 2 .. N : B!Successor(Entry(l, k - 1)) = Entry(l, k)
    <2> TAKE k \in 2 .. N
    <2>1. CASE k - 1 \in 1 .. Len(l)
      <3>1. Entry(l, k - 1) = l[k - 1] /\ l[k - 1] # B!NULL
        BY <1>1, <2>1 DEF Entry
      <3>2. blink[l[k - 1]].next = Entry(l, (k - 1) + 1) /\ (k - 1) + 1 = k
        BY <1>1, <2>1
      <3>3. QED
        BY <3>1, <3>2 DEF B!Successor
    <2>2. CASE k - 1 \notin 1 .. Len(l)
      <3>1. k \notin 1 .. Len(l)
        BY <1>1, <2>2
      <3>2. QED
        BY <2>2, <3>1 DEF Entry, B!Successor
    <2>3. QED
      BY <2>1, <2>2
  <1>3. Solves(f)
    <2> DEFINE F(k) == IF k = 1 THEN list_head ELSE B!Successor(f[k - 1])
    <2>1. \A k \in 1 .. N : f[k] = F(k)
      <3> TAKE k \in 1 .. N
      <3>1. CASE k = 1
        BY <1>1, <3>1
      <3>2. CASE k # 1
        <4>1. k \in 2 .. N /\ k - 1 \in 1 .. N
          BY <1>1, <3>2
        <4>2. f[k - 1] = Entry(l, k - 1)
          BY <4>1
        <4>3. QED
          BY <1>2, <3>2, <4>1, <4>2
      <3>3. QED
        BY <3>1, <3>2
    <2>2. f = [k \in 1 .. N |-> f[k]]
      OBVIOUS
    <2> HIDE DEF f
    <2>3. QED
      BY <2>1, <2>2, Zenon
  <1>4. Solves(B!Reached)
    <2>1. \E g : Solves(g)
      BY <1>3
    <2>2. QED
      BY <2>1, Zenon DEF B!Reached, N
  <1>5. B!Reached = f
    <2> DEFINE S == {k \in 1 .. N : B!Reached[k] # Entry(l, k)}
    <2>1. ASSUME S # {} PROVE FALSE
      <3>0. S \subseteq Nat
        BY <1>1
      <3>1. PICK k \in S : \A j \in S : k <= j
        <4> HIDE DEF S
        <4>1. QED
          BY <2>1, <3>0, LeastMember
      <3>2. CASE k = 1
        BY <1>1, <1>4, <3>1, <3>2
      <3>3. CASE k # 1
        <4>1. k \in 2 .. N /\ k - 1 \in 1 .. N /\ k - 1 \notin S
          BY <1>1, <3>1, <3>3
        <4>2. B!Reached[k] = B!Successor(B!Reached[k - 1])
          BY <1>4, <3>3, <4>1
        <4>3. QED
          BY <1>2, <3>1, <4>1, <4>2
      <3>4. QED
        BY <3>2, <3>3
    <2>2. \A k \in 1 .. N : B!Reached[k] = Entry(l, k)
      BY <2>1
    <2> HIDE DEF S
    <2>3. QED
      BY <1>4, <2>2
  <1> DEFINE Ends(n) == /\ n > 0 => B!Reached[n] # B!NULL
                        /\ n <= Capacity => B!Reached[n + 1] = B!NULL
  <1>6. \A n \in 0 .. N : Ends(n) <=> n = Len(l)
    <2> TAKE n \in 0 .. N
    <2>1. \A k \in 1 .. N : B!Reached[k] # B!NULL <=> k <= Len(l)
      BY <1>1, <1>5 DEF Entry
    <2>2. N = Capacity + 1 /\ Capacity \in Nat
      BY DEF N, B!BlinkAssumption
    <2>3. n > 0 => n \in 1 .. N
      BY <1>1
    <2>4. n <= Capacity => n + 1 \in 1 .. N
      BY <2>2
    <2>5. n > 0 => (B!Reached[n] # B!NULL <=> n <= Len(l))
      BY <2>1, <2>3
    <2>6. n <= Capacity => (B!Reached[n + 1] # B!NULL <=> n + 1 <= Len(l))
      BY <2>1, <2>4
    <2>7. QED
      BY <1>1, <2>2, <2>5, <2>6
  <1>7. Len(l) \in 0 .. N
    BY <1>1
  <1> HIDE DEF Ends
  <1>8. Len(l) = CHOOSE n \in 0 .. N : Ends(n)
    BY <1>6, <1>7
  <1>9. B!List = [k \in 1 .. Len(l) |-> B!Reached[k]]
    BY <1>8 DEF B!List, Ends, N
  <1>10. \A k \in 1 .. Len(l) : k \in 1 .. N /\ B!Reached[k] = l[k]
    BY <1>1, <1>5 DEF Entry
  <1>11. l = [k \in 1 .. Len(l) |-> l[k]]
    BY DEF IsList
  <1>12. QED
    BY <1>9, <1>10, <1>11

\* The step's version.
LEMMA ListIsNext ==
    B!BlinkAssumption => \A l : IsList(list_head', blink', l) => (B!List)' = l
  <1>1. (B!BlinkAssumption => \A l : IsList(list_head, blink, l) => B!List = l)'
    BY ListIs, PTL
  <1>2. B!BlinkAssumption' <=> B!BlinkAssumption
    BY DEF B!BlinkAssumption
  <1>3. QED
    BY <1>1, <1>2 DEF IsList, Entry, B!NULL, B!Slots

-----------------------------------------------------------------------------
(* The invariant.                                                           *)

Cell == [location : Spots \cup {0}, on_length : B!Word, off_length : B!Word,
         countdown : B!Word, status : {0, 1}, next : B!Slots \cup {B!NULL}]

\* The length of the status a character has.
Length(c) == IF c.status = 1 THEN c.on_length ELSE c.off_length

\* The countdown and the time since the last change make up the length; only a length
\* that is positive as a signed number takes more than one tick.
OnTime(c, n) ==
    /\ n = Length(c) - c.countdown
    /\ n # 0 => Length(c) \in 1 .. WORD \div 2 /\ c.countdown >= 1

\* The cells of the list are those in use, and keep their rhythm.
CellsFit(cells, times, l) ==
    /\ cells \in [B!Slots -> Cell] /\ times \in [B!Slots -> B!Word]
    /\ \A s \in B!Slots : cells[s].location # 0 <=> \E i \in 1 .. Len(l) : l[i] = s
    /\ \A s \in B!Slots : cells[s].location # 0 => OnTime(cells[s], times[s])

BlinkInv == \E l : IsList(list_head, blink, l) /\ CellsFit(blink, age, l)

\* What a list of slots shows.
ItemOf(c) == [location |-> c.location, on_length |-> c.on_length, off_length |-> c.off_length,
              countdown |-> c.countdown, status |-> c.status]
ItemsOf(cells, l) == [k \in 1 .. Len(l) |-> ItemOf(cells[l[k]])]

Shown == {ItemOf(c) : c \in Cell}

\* The items of a list of slots form a sequence as long as the list.
LEMMA ItemsAre ==
    ASSUME NEW cells \in [B!Slots -> Cell], NEW l \in Seq(B!Slots)
    PROVE  /\ ItemsOf(cells, l) \in Seq(Shown) /\ Len(ItemsOf(cells, l)) = Len(l)
           /\ \A k \in 1 .. Len(l) : ItemsOf(cells, l)[k] = ItemOf(cells[l[k]])
           /\ DOMAIN ItemsOf(cells, l) = 1 .. Len(l)
  <1>1. \A k \in 1 .. Len(l) : l[k] \in B!Slots /\ ItemOf(cells[l[k]]) \in Shown
    BY DEF Shown
  <1> DEFINE item(k) == ItemOf(cells[l[k]])
  <1>2. Len(l) \in Nat /\ \A k \in 1 .. Len(l) : item(k) \in Shown
    BY <1>1
  <1>3. ItemsOf(cells, l) = [k \in 1 .. Len(l) |-> item(k)]
    BY DEF ItemsOf
  <1> HIDE DEF item
  <1>4. [k \in 1 .. Len(l) |-> item(k)] \in Seq(Shown)
    BY <1>2
  <1>5. Len([k \in 1 .. Len(l) |-> item(k)]) = Len(l)
    BY <1>2
  <1>6. QED
    BY <1>3, <1>4, <1>5 DEF item

\* Cells that differ in their pointers only.
Alike(c, d) == /\ c.location = d.location /\ c.on_length = d.on_length
               /\ c.off_length = d.off_length /\ c.countdown = d.countdown
               /\ c.status = d.status

\* A pointer is no part of the item.
LEMMA Relinked ==
    ASSUME NEW c \in Cell, NEW next \in B!Slots \cup {B!NULL}
    PROVE  LET d == [c EXCEPT !.next = next]
           IN  d \in Cell /\ Alike(d, c) /\ d.next = next
  BY DEF Cell, Alike

\* Cells that differ in their pointers only show alike.
LEMMA AlikeItems ==
    ASSUME NEW c, NEW d, Alike(c, d)
    PROVE  ItemOf(c) = ItemOf(d) /\ \A n : OnTime(c, n) <=> OnTime(d, n)
  BY DEF Alike, ItemOf, OnTime, Length

\* What List and Items are in a state of the invariant.
LEMMA StateOf ==
    ASSUME B!BlinkAssumption, NEW l, IsList(list_head, blink, l)
    PROVE  B!List = l /\ B!Items = ItemsOf(blink, l) /\ B!Listed = {l[k] : k \in 1 .. Len(l)}
  <1>1. B!List = l
    BY ListIs
  <1>2. DOMAIN l = 1 .. Len(l)
    BY DEF IsList
  <1>3. QED
    BY <1>1, <1>2 DEF B!Items, ItemsOf, ItemOf, B!Listed, B!Range

\* The same of the next state.
LEMMA StateOfNext ==
    ASSUME B!BlinkAssumption, NEW l, IsList(list_head', blink', l)
    PROVE  (B!List)' = l /\ (B!Items)' = ItemsOf(blink', l)
  <1>1. (B!List)' = l
    BY ListIsNext
  <1>2. DOMAIN l = 1 .. Len(l)
    BY DEF IsList
  <1>3. QED
    BY <1>1, <1>2 DEF B!Items, ItemsOf, ItemOf

-----------------------------------------------------------------------------
(* Steps.                                                                   *)

\* The search finds the first slot of the list with the location.
LEMMA FindIs ==
    ASSUME B!BlinkAssumption, NEW l, IsList(list_head, blink, l), NEW loc,
           B!mp1_find_helper(loc) # B!NULL
    PROVE  \E i \in 1 .. Len(l) :
               /\ B!mp1_find_helper(loc) = l[i] /\ blink[l[i]].location = loc
               /\ \A j \in 1 .. Len(l) : j < i => blink[l[j]].location # loc
  <1> DEFINE S == {k \in 1 .. Len(l) : blink[l[k]].location = loc}
             First(k) == /\ blink[l[k]].location = loc
                         /\ \A j \in 1 .. k - 1 : blink[l[j]].location # loc
  <1>1. B!List = l /\ B!Listed = {l[k] : k \in 1 .. Len(l)} /\ Len(l) \in Nat
    BY StateOf DEF IsList
  <1>2. S # {}
    BY <1>1 DEF B!mp1_find_helper
  <1>3. \E k \in 1 .. Len(l) : First(k)
    <2>0. S \subseteq Nat
      OBVIOUS
    <2>1. PICK k \in S : \A j \in S : k <= j
      <3> HIDE DEF S
      <3>1. QED
        BY <1>2, <2>0, LeastMember
    <2>2. \A j \in 1 .. k - 1 : j \in 1 .. Len(l) /\ ~(k <= j)
      BY <1>1
    <2>3. QED
      BY <2>1, <2>2
  <1>4. B!FirstAt(loc) \in 1 .. Len(l) /\ First(B!FirstAt(loc))
    <2>1. DOMAIN l = 1 .. Len(l)
      BY DEF IsList
    <2>2. B!FirstAt(loc) = CHOOSE k \in 1 .. Len(l) : First(k)
      BY <1>1, <2>1 DEF B!FirstAt
    <2> HIDE DEF First
    <2>3. QED
      BY <1>3, <2>2
  <1>5. B!mp1_find_helper(loc) = l[B!FirstAt(loc)]
    BY <1>1, <1>2 DEF B!mp1_find_helper
  <1>6. \A j \in 1 .. Len(l) : j < B!FirstAt(loc) => j \in 1 .. B!FirstAt(loc) - 1
    BY <1>1, <1>4
  <1>7. QED
    BY <1>4, <1>5, <1>6

\* What is allocated is free.
LEMMA MallocIs ==
    ASSUME B!BlinkAssumption, B!mp1_malloc # B!NULL
    PROVE  B!mp1_malloc \in B!Slots /\ blink[B!mp1_malloc].location = 0
  <1> DEFINE free == {s \in B!Slots : blink[s].location = 0}
  <1>1. free # {} /\ free \subseteq Nat
    BY DEF B!mp1_malloc, B!Slots, B!BlinkAssumption
  <1>2. B!mp1_malloc = CHOOSE s \in free : \A t \in free : s <= t
    BY <1>1 DEF B!mp1_malloc
  <1>3. \A s \in free : s \in B!Slots /\ blink[s].location = 0
    OBVIOUS
  <1> HIDE DEF free
  <1>4. \E s \in free : \A t \in free : s <= t
    BY <1>1, LeastMember
  <1>5. QED
    BY <1>2, <1>3, <1>4

\* What is added is on top.
LEMMA AddStep ==
    ASSUME B!BlinkAssumption, NEW l, IsList(list_head, blink, l), CellsFit(blink, age, l),
           NEW loc \in Spots, NEW r \in Rhythms, B!mp1_ioctl_add(loc, r[1], r[2])
    PROVE  \E m : IsList(list_head', blink', m) /\ CellsFit(blink', age', m) /\ B!Order!AddOnTop
  <1> DEFINE s == B!mp1_malloc
             new == [location |-> loc, on_length |-> r[1], off_length |-> r[2],
                     countdown |-> r[1], status |-> 1, next |-> list_head]
             m == [k \in 1 .. Len(l) + 1 |-> IF k = 1 THEN s ELSE l[k - 1]]
  <1>1. /\ loc < SCREEN /\ s \in B!Slots /\ blink[s].location = 0
        /\ blink' = [blink EXCEPT ![s] = new]
        /\ list_head' = s /\ age' = [age EXCEPT ![s] = 0]
    BY MallocIs DEF B!mp1_ioctl_add
  <1>2. /\ Len(l) \in Nat /\ l \in Seq(B!Slots)
        /\ \A i \in 1 .. Len(l) : l[i] \in B!Slots /\ l[i] # s /\ blink[l[i]].location # 0
        /\ \A i, j \in 1 .. Len(l) : l[i] = l[j] => i = j
        /\ list_head \in B!Slots \cup {B!NULL} /\ list_head = Entry(l, 1)
        /\ \A i \in 1 .. Len(l) : blink[l[i]].next = Entry(l, i + 1)
    BY <1>1 DEF IsList, CellsFit, Entry
  <1>3. /\ loc \in Spots \cup {0} /\ loc # 0
        /\ r[1] \in B!Word /\ r[2] \in B!Word /\ 0 \in B!Word
        /\ WORD \in Nat
    BY DEF B!BlinkAssumption, B!Word
  <1>4. new \in Cell
    BY <1>2, <1>3 DEF Cell
  <1> HIDE DEF s
  <1>5. m \in Seq(B!Slots) /\ Len(m) = Len(l) + 1 /\ m[1] = s
        /\ \A k \in 2 .. Len(l) + 1 : m[k] = l[k - 1] /\ k - 1 \in 1 .. Len(l)
    BY <1>1, <1>2
  <1> HIDE DEF m
  <1>6. IsList(list_head', blink', m)
    <2>1. \A i, j \in 1 .. Len(m) : m[i] = m[j] => i = j
      <3> SUFFICES ASSUME NEW i \in 1 .. Len(m), NEW j \in 1 .. Len(m), m[i] = m[j] PROVE i = j
        OBVIOUS
      <3>1. CASE i = 1 /\ j = 1
        BY <3>1
      <3>2. CASE i \in 2 .. Len(l) + 1 /\ j \in 2 .. Len(l) + 1
        <4>1. i - 1 = j - 1
          BY <1>2, <1>5, <3>2
        <4>2. QED
          BY <4>1
      <3>3. CASE i = 1 /\ j \in 2 .. Len(l) + 1
        BY <1>2, <1>5, <3>3
      <3>4. CASE i \in 2 .. Len(l) + 1 /\ j = 1
        BY <1>2, <1>5, <3>4
      <3>5. QED
        BY <1>2, <1>5, <3>1, <3>2, <3>3, <3>4
    <2>2. list_head' = Entry(m, 1)
      BY <1>1, <1>2, <1>5 DEF Entry
    <2>3. ASSUME NEW i \in 1 .. Len(m) PROVE blink'[m[i]].next = Entry(m, i + 1)
      <3>1. CASE i = 1
        <4>1. blink'[m[i]].next = Entry(l, 1)
          BY <1>1, <1>2, <1>5, <3>1 DEF CellsFit
        <4>2. Entry(m, 2) = Entry(l, 1)
          BY <1>2, <1>5 DEF Entry
        <4>3. QED
          BY <3>1, <4>1, <4>2
      <3>2. CASE i \in 2 .. Len(l) + 1
        <4>1. m[i] = l[i - 1] /\ i - 1 \in 1 .. Len(l)
          BY <1>5, <3>2
        <4>2. blink'[m[i]].next = blink[l[i - 1]].next
          BY <1>1, <1>2, <4>1 DEF CellsFit
        <4>3. blink[l[i - 1]].next = Entry(l, (i - 1) + 1) /\ (i - 1) + 1 = i
          BY <1>2, <4>1
        <4>4. Entry(m, i + 1) = Entry(l, i)
          <5>1. i + 1 \in 1 .. Len(m) <=> i \in 1 .. Len(l)
            BY <1>2, <1>5, <3>2
          <5>2. i \in 1 .. Len(l) => m[i + 1] = l[(i + 1) - 1] /\ (i + 1) - 1 = i
            BY <1>2, <1>5, <3>2
          <5>3. QED
            BY <5>1, <5>2 DEF Entry
        <4>5. QED
          BY <4>2, <4>3, <4>4
      <3>3. QED
        BY <1>2, <1>5, <3>1, <3>2
    <2>4. QED
      BY <1>5, <2>1, <2>2, <2>3 DEF IsList
  <1>7. CellsFit(blink', age', m)
    <2>1. blink' \in [B!Slots -> Cell] /\ age' \in [B!Slots -> B!Word]
      BY <1>1, <1>3, <1>4 DEF CellsFit
    <2>2. \A t \in B!Slots : /\ blink'[t] = IF t = s THEN new ELSE blink[t]
                             /\ age'[t] = IF t = s THEN 0 ELSE age[t]
      BY <1>1 DEF CellsFit
    <2>3. \A t \in B!Slots : blink'[t].location # 0 <=> \E i \in 1 .. Len(m) : m[i] = t
      <3> SUFFICES ASSUME NEW t \in B!Slots
                   PROVE  blink'[t].location # 0 <=> \E i \in 1 .. Len(m) : m[i] = t
        OBVIOUS
      <3>1. CASE t = s
        BY <1>2, <1>3, <1>5, <2>2, <3>1
      <3>2. CASE t # s
        <4>1. blink'[t].location # 0 <=> \E i \in 1 .. Len(l) : l[i] = t
          BY <2>2, <3>2 DEF CellsFit
        <4>2. ASSUME NEW i \in 1 .. Len(l), l[i] = t PROVE \E k \in 1 .. Len(m) : m[k] = t
          <5>1. i + 1 \in 2 .. Len(l) + 1 /\ i + 1 \in 1 .. Len(m) /\ (i + 1) - 1 = i
            BY <1>2, <1>5
          <5>2. QED
            BY <1>5, <4>2, <5>1
        <4>3. ASSUME NEW k \in 1 .. Len(m), m[k] = t PROVE \E i \in 1 .. Len(l) : l[i] = t
          <5>1. k \in 2 .. Len(l) + 1
            BY <1>2, <1>5, <3>2, <4>3
          <5>2. QED
            BY <1>5, <4>3, <5>1
        <4>4. QED
          BY <4>1, <4>2, <4>3
      <3>3. QED
        BY <3>1, <3>2
    <2>4. OnTime(new, 0)
      BY <1>3 DEF OnTime, Length, B!Word
    <2>5. QED
      BY <2>1, <2>2, <2>3, <2>4 DEF CellsFit
  <1>8. B!Order!AddOnTop
    <2>1. B!Items = ItemsOf(blink, l) /\ (B!Items)' = ItemsOf(blink', m)
      BY <1>6, StateOf, StateOfNext
    <2>2. Len(l) < Capacity
      BY <1>1, <1>2, ShortList
    <2> DEFINE item == [location |-> loc, on_length |-> r[1], off_length |-> r[2],
                        countdown |-> r[1], status |-> 1]
               I == ItemsOf(blink, l)
               J == ItemsOf(blink', m)
               T == Shown
    <2>3. /\ I \in Seq(T) /\ J \in Seq(T)
          /\ Len(I) = Len(l) /\ Len(J) = Len(l) + 1
          /\ \A k \in 1 .. Len(l) : I[k] = ItemOf(blink[l[k]])
          /\ \A k \in 1 .. Len(l) + 1 : J[k] = ItemOf(blink'[m[k]])
      BY <1>2, <1>5, <1>7, ItemsAre DEF CellsFit
    <2>5. ItemOf(new) = item /\ item \in T
      <3>1. ItemOf(new) = item
        BY DEF ItemOf
      <3>2. QED
        BY <1>4, <3>1 DEF Shown
    <2>6. J[1] = item
      <3>1. blink'[m[1]] = new /\ 1 \in 1 .. Len(l) + 1
        BY <1>1, <1>2, <1>5 DEF CellsFit
      <3> HIDE DEF new, item, J
      <3>2. QED
        BY <2>3, <2>5, <3>1
    <2>7. \A k \in 2 .. Len(l) + 1 : J[k] = I[k - 1]
      <3> TAKE k \in 2 .. Len(l) + 1
      <3>1. m[k] = l[k - 1] /\ k - 1 \in 1 .. Len(l) /\ k \in 1 .. Len(l) + 1
        BY <1>2, <1>5
      <3>2. blink'[l[k - 1]] = blink[l[k - 1]]
        BY <1>1, <1>2, <3>1 DEF CellsFit
      <3>3. QED
        BY <2>3, <3>1, <3>2
    <2> HIDE DEF item, I, J, T
    <2>8. /\ <<item>> \o I \in Seq(T) /\ Len(<<item>> \o I) = 1 + Len(I)
          /\ \A k \in 1 .. 1 + Len(I) :
                 (<<item>> \o I)[k] = IF k <= 1 THEN <<item>>[k] ELSE I[k - 1]
      <3>1. <<item>> \in Seq(T) /\ Len(<<item>>) = 1
        BY <2>5
      <3>2. QED
        BY <2>3, <3>1, ConcatProperties
    <2>9. J = <<item>> \o I
      <3>1. \A k \in 1 .. Len(J) : J[k] = (<<item>> \o I)[k]
        BY <1>2, <2>3, <2>6, <2>7, <2>8
      <3>2. Len(J) = Len(<<item>> \o I)
        BY <1>2, <2>3, <2>8
      <3>3. QED
        BY <2>3, <2>8, <3>1, <3>2, SeqEqual
    <2>10. (B!Items)' = <<item>> \o B!Items /\ Len(B!Items) < Capacity
      BY <2>1, <2>2, <2>3, <2>9 DEF I, J
    <2>11. QED
      BY <1>1, <2>10, Zenon DEF B!Order!AddOnTop, item
  <1>9. QED
    BY <1>6, <1>7, <1>8

\* The list q without its i-th entry.
Without(q, i) == [k \in 1 .. Len(q) - 1 |-> IF k < i THEN q[k] ELSE q[k + 1]]

\* Leaving one place out of a sequence is RemoveAt.
LEMMA WithoutIs ==
    ASSUME NEW S, NEW q \in Seq(S), NEW i \in 1 .. Len(q)
    PROVE  /\ Without(q, i) \in Seq(S) /\ Len(Without(q, i)) = Len(q) - 1
           /\ \A k \in 1 .. Len(q) - 1 : Without(q, i)[k] = IF k < i THEN q[k] ELSE q[k + 1]
           /\ \A k \in Nat \ {0} :
                  Entry(Without(q, i), k) = IF k < i THEN Entry(q, k) ELSE Entry(q, k + 1)
           /\ B!Order!RemoveAt(q, i) = Without(q, i)
  <1> DEFINE e(k) == IF k < i THEN q[k] ELSE q[k + 1]
             n == Len(q) - 1
  <1>1. /\ n \in Nat /\ \A k \in 1 .. n : e(k) \in S
    BY ElementOfSeq
  <1> HIDE DEF e
  <1>2. /\ [k \in 1 .. n |-> e(k)] \in Seq(S) /\ Len([k \in 1 .. n |-> e(k)]) = n
    BY <1>1
  <1>3. /\ Without(q, i) \in Seq(S) /\ Len(Without(q, i)) = n
        /\ \A k \in 1 .. n : Without(q, i)[k] = e(k)
    BY <1>2 DEF Without, e
  <1>4. ASSUME NEW k \in Nat \ {0}
        PROVE  Entry(Without(q, i), k) = IF k < i THEN Entry(q, k) ELSE Entry(q, k + 1)
    BY <1>3 DEF Entry, e
  <1>5. B!Order!RemoveAt(q, i) = Without(q, i)
    <2> DEFINE a == SubSeq(q, 1, i - 1)
               b == SubSeq(q, i + 1, Len(q))
    <2>1. /\ a \in Seq(S) /\ Len(a) = i - 1
          /\ \A k \in 1 .. i - 1 : a[k] = q[k]
      OBVIOUS
    <2>2. /\ b \in Seq(S) /\ Len(b) = Len(q) - i
          /\ \A k \in 1 .. Len(q) - i : b[k] = q[i + k]
      OBVIOUS
    <2>3. B!Order!RemoveAt(q, i) = a \o b
      BY DEF B!Order!RemoveAt
    <2> HIDE DEF a, b
    <2>4. /\ a \o b \in Seq(S) /\ Len(a \o b) = n
          /\ \A k \in 1 .. n : (a \o b)[k] = IF k <= i - 1 THEN a[k] ELSE b[k - (i - 1)]
      <3>1. /\ a \o b \in Seq(S) /\ Len(a \o b) = Len(a) + Len(b)
            /\ \A k \in 1 .. Len(a) + Len(b) :
                   (a \o b)[k] = IF k <= Len(a) THEN a[k] ELSE b[k - Len(a)]
        BY <2>1, <2>2, ConcatProperties
      <3>2. Len(q) \in Nat /\ (i - 1) + (Len(q) - i) = n
        OBVIOUS
      <3>3. Len(a) + Len(b) = n
        BY <2>1, <2>2, <3>2
      <3>4. QED
        BY <2>1, <3>1, <3>3
    <2>5. ASSUME NEW k \in 1 .. n PROVE (a \o b)[k] = e(k)
      <3>1. CASE k < i
        BY <2>1, <2>4, <3>1 DEF e
      <3>2. CASE ~(k < i)
        <4>1. k - (i - 1) \in 1 .. Len(q) - i /\ i + (k - (i - 1)) = k + 1 /\ ~(k <= i - 1)
          BY <3>2
        <4>2. QED
          BY <2>2, <2>4, <3>2, <4>1 DEF e
      <3>3. QED
        BY <3>1, <3>2
    <2>6. QED
      BY <1>3, <2>3, <2>4, <2>5, SeqEqual
  <1>6. QED
    BY <1>3, <1>4, <1>5 DEF e

\* The topmost character at a location is removed.
LEMMA RemoveStep ==
    ASSUME B!BlinkAssumption, NEW l, IsList(list_head, blink, l), CellsFit(blink, age, l),
           NEW loc \in Spots, B!mp1_ioctl_remove(loc)
    PROVE  \E m : IsList(list_head', blink', m) /\ CellsFit(blink', age', m)
                  /\ B!Order!RemoveTopmost
  <1> DEFINE s == B!mp1_find_helper(loc)
  <1>1. PICK i \in 1 .. Len(l) :
            /\ s = l[i] /\ blink[l[i]].location = loc
            /\ \A j \in 1 .. Len(l) : j < i => blink[l[j]].location # loc
    BY FindIs DEF B!mp1_ioctl_remove
  <1>2. /\ list_head' = IF list_head = s THEN blink[s].next ELSE list_head
        /\ blink' = [B!Unlinked(s) EXCEPT ![s] = B!Zeroed]
        /\ age' = [age EXCEPT ![s] = 0]
    BY DEF B!mp1_ioctl_remove
  <1> HIDE DEF s
  <1>3. /\ Len(l) \in Nat /\ l \in Seq(B!Slots) /\ blink \in [B!Slots -> Cell]
        /\ \A k \in 1 .. Len(l) : l[k] \in B!Slots /\ l[k] # B!NULL
        /\ \A j, k \in 1 .. Len(l) : l[j] = l[k] => j = k
        /\ list_head = Entry(l, 1)
        /\ \A k \in 1 .. Len(l) : blink[l[k]].next = Entry(l, k + 1)
        /\ s \in B!Slots /\ s # B!NULL
    <2>1. \A k \in B!Slots : k # B!NULL
      BY DEF B!Slots, B!NULL
    <2>2. \A k \in 1 .. Len(l) : l[k] \in B!Slots /\ l[k] # B!NULL
      BY <2>1, ElementOfSeq DEF IsList
    <2>3. QED
      BY <1>1, <2>2 DEF IsList, CellsFit
  <1> DEFINE m == Without(l, i)
             Index(k) == IF k < i THEN k ELSE k + 1
  <1>4. /\ m \in Seq(B!Slots) /\ Len(m) = Len(l) - 1
        /\ \A k \in 1 .. Len(m) : m[k] = l[Index(k)] /\ Index(k) \in 1 .. Len(l) /\ Index(k) # i
        /\ \A k \in Nat \ {0} : Entry(m, k) = IF k < i THEN Entry(l, k) ELSE Entry(l, k + 1)
    <2>1. /\ m \in Seq(B!Slots) /\ Len(m) = Len(l) - 1
          /\ \A k \in 1 .. Len(l) - 1 : m[k] = IF k < i THEN l[k] ELSE l[k + 1]
          /\ \A k \in Nat \ {0} : Entry(m, k) = IF k < i THEN Entry(l, k) ELSE Entry(l, k + 1)
      BY <1>3, WithoutIs
    <2> HIDE DEF m
    <2>2. \A k \in 1 .. Len(m) : m[k] = l[Index(k)] /\ Index(k) \in 1 .. Len(l) /\ Index(k) # i
      <3> TAKE k \in 1 .. Len(m)
      <3>1. k \in 1 .. Len(l) - 1 /\ k \in Nat /\ Len(l) \in Nat /\ i \in Nat
        BY <1>3, <2>1
      <3>2. Index(k) \in 1 .. Len(l) /\ Index(k) # i
        BY <3>1
      <3>3. m[k] = IF k < i THEN l[k] ELSE l[k + 1]
        BY <2>1, <3>1
      <3>4. QED
        BY <3>2, <3>3
    <2>3. QED
      BY <2>1, <2>2
  <1>6. \A k \in 1 .. Len(l) : k # i => l[k] # s
    BY <1>1, <1>3
  <1> HIDE DEF m, Index
  <1>7. \A t \in B!Slots : /\ blink'[t] \in Cell
                           /\ t = s => blink'[t] = B!Zeroed /\ age'[t] = 0
                           /\ t # s => Alike(blink'[t], blink[t]) /\ age'[t] = age[t]
    <2> TAKE t \in B!Slots
    <2>1. CASE t = s
      <3>1. blink'[t] = B!Zeroed /\ age'[t] = 0
        BY <1>2, <1>3, <2>1 DEF B!Unlinked, CellsFit
      <3>2. B!Zeroed \in Cell
        BY DEF B!Zeroed, Cell, B!Word, B!BlinkAssumption
      <3>3. QED
        BY <2>1, <3>1, <3>2
    <2>2. CASE t # s
      <3>1. blink'[t] = IF t \in B!Listed /\ blink[t].next = s
                        THEN [blink[t] EXCEPT !.next = blink[s].next] ELSE blink[t]
        BY <1>2, <1>3, <2>2 DEF B!Unlinked
      <3>2. blink[t] \in Cell /\ blink[s].next \in B!Slots \cup {B!NULL}
        BY <1>3 DEF Cell
      <3>3. blink'[t] \in Cell /\ Alike(blink'[t], blink[t])
        <4>1. Alike(blink[t], blink[t])
          BY DEF Alike
        <4>2. QED
          BY <3>1, <3>2, <4>1, Relinked
      <3>4. age'[t] = age[t]
        BY <1>2, <1>3, <2>2 DEF CellsFit
      <3>5. QED
        BY <2>2, <3>3, <3>4
    <2>3. QED
      BY <2>1, <2>2
  <1>8. ASSUME NEW k \in 1 .. Len(l), k # i
        PROVE  blink'[l[k]].next = IF k + 1 = i THEN Entry(l, i + 1) ELSE Entry(l, k + 1)
    <2>1. l[k] \in B!Listed /\ l[k] # s /\ l[k] \in B!Slots
      BY <1>3, <1>6, <1>8, StateOf
    <2>2. blink'[l[k]] = IF blink[l[k]].next = s
                         THEN [blink[l[k]] EXCEPT !.next = blink[s].next] ELSE blink[l[k]]
      BY <1>2, <1>3, <2>1 DEF B!Unlinked
    <2>3. blink[l[k]].next = s <=> k + 1 = i
      <3>1. blink[l[k]].next = Entry(l, k + 1) /\ s # B!NULL
        BY <1>1, <1>3
      <3>2. k + 1 \in 1 .. Len(l) => (l[k + 1] = s <=> k + 1 = i)
        BY <1>1, <1>6
      <3>3. QED
        BY <1>1, <1>3, <3>1, <3>2 DEF Entry
    <2>4. blink[s].next = Entry(l, i + 1)
      BY <1>1, <1>3
    <2>5. QED
      BY <1>3, <2>1, <2>2, <2>3, <2>4 DEF Cell
  <1>9. IsList(list_head', blink', m)
    <2>1. \A j, k \in 1 .. Len(m) : m[j] = m[k] => j = k
      <3> SUFFICES ASSUME NEW j \in 1 .. Len(m), NEW k \in 1 .. Len(m), m[j] = m[k] PROVE j = k
        OBVIOUS
      <3>1. Index(j) = Index(k)
        <4>1. /\ Index(j) \in 1 .. Len(l) /\ Index(k) \in 1 .. Len(l)
              /\ l[Index(j)] = l[Index(k)]
          BY <1>4
        <4>2. QED
          BY <1>3, <4>1
      <3>2. j \in Nat /\ k \in Nat /\ i \in Nat
        BY <1>3, <1>4
      <3>3. QED
        BY <3>1, <3>2 DEF Index
    <2>2. list_head' = Entry(m, 1)
      <3>1. Entry(m, 1) = IF 1 < i THEN Entry(l, 1) ELSE Entry(l, 2)
        BY <1>4
      <3>2. 1 \in 1 .. Len(l) /\ Entry(l, 1) = l[1]
        BY <1>3 DEF Entry
      <3>3. CASE i = 1
        <4>1. list_head' = blink[s].next /\ blink[s].next = Entry(l, 1 + 1)
          BY <1>1, <1>2, <1>3, <3>2, <3>3
        <4>2. QED
          BY <3>1, <3>3, <4>1
      <3>4. CASE i # 1
        BY <1>2, <1>3, <1>6, <3>1, <3>2, <3>4
      <3>5. QED
        BY <3>3, <3>4
    <2>3. ASSUME NEW k \in 1 .. Len(m) PROVE blink'[m[k]].next = Entry(m, k + 1)
      <3>1. m[k] = l[Index(k)] /\ Index(k) \in 1 .. Len(l) /\ Index(k) # i
        BY <1>4
      <3>2. blink'[m[k]].next = IF Index(k) + 1 = i THEN Entry(l, i + 1)
                                ELSE Entry(l, Index(k) + 1)
        BY <1>8, <3>1
      <3>3. Entry(m, k + 1) = IF k + 1 < i THEN Entry(l, k + 1) ELSE Entry(l, (k + 1) + 1)
        BY <1>4
      <3>4. QED
        <4>1. k \in Nat /\ i \in Nat
          OBVIOUS
        <4>2. QED
          BY <3>2, <3>3, <4>1 DEF Index
    <2>4. QED
      BY <1>4, <2>1, <2>2, <2>3 DEF IsList
  <1>10. CellsFit(blink', age', m)
    <2>3. blink' \in [B!Slots -> Cell] /\ age' \in [B!Slots -> B!Word]
      <3>1. blink' = [t \in B!Slots |-> blink'[t]]
        BY <1>2 DEF B!Unlinked
      <3>2. blink' \in [B!Slots -> Cell]
        BY <1>7, <3>1
      <3>3. 0 \in B!Word
        BY DEF B!Word, B!BlinkAssumption
      <3>4. QED
        BY <1>2, <3>2, <3>3 DEF CellsFit
    <2>4. \A t \in B!Slots : blink'[t].location # 0 <=> \E k \in 1 .. Len(m) : m[k] = t
      <3> SUFFICES ASSUME NEW t \in B!Slots
                   PROVE  blink'[t].location # 0 <=> \E k \in 1 .. Len(m) : m[k] = t
        OBVIOUS
      <3>1. CASE t = s
        <4>1. blink'[t].location = 0
          BY <1>7, <3>1 DEF B!Zeroed
        <4>2. \A k \in 1 .. Len(m) : m[k] # s
          BY <1>4, <1>6
        <4>3. QED
          BY <3>1, <4>1, <4>2
      <3>2. CASE t # s
        <4>1. blink'[t].location # 0 <=> \E j \in 1 .. Len(l) : l[j] = t
          <5>1. blink'[t].location = blink[t].location
            BY <1>7, <3>2 DEF Alike
          <5>2. QED
            BY <5>1 DEF CellsFit
        <4>2. ASSUME NEW j \in 1 .. Len(l), l[j] = t PROVE \E k \in 1 .. Len(m) : m[k] = t
          <5>1. j # i
            BY <1>1, <3>2, <4>2
          <5>2. CASE j < i
            <6>1. j \in 1 .. Len(m) /\ Index(j) = j
              BY <1>3, <1>4, <5>2 DEF Index
            <6>2. QED
              BY <1>4, <4>2, <6>1
          <5>3. CASE j > i
            <6>1. j - 1 \in 1 .. Len(m) /\ Index(j - 1) = j
              BY <1>3, <1>4, <5>3 DEF Index
            <6>2. QED
              BY <1>4, <4>2, <6>1
          <5>4. QED
            BY <1>3, <5>1, <5>2, <5>3
        <4>3. ASSUME NEW k \in 1 .. Len(m), m[k] = t PROVE \E j \in 1 .. Len(l) : l[j] = t
          BY <1>4, <4>3
        <4>4. QED
          BY <4>1, <4>2, <4>3
      <3>3. QED
        BY <3>1, <3>2
    <2>5. ASSUME NEW t \in B!Slots, blink'[t].location # 0 PROVE OnTime(blink'[t], age'[t])
      <3>1. t # s /\ blink[t].location # 0 /\ OnTime(blink[t], age[t])
        BY <1>7, <2>5 DEF B!Zeroed, Alike, CellsFit
      <3>2. QED
        BY <1>7, <3>1, AlikeItems
    <2>6. QED
      BY <2>3, <2>4, <2>5 DEF CellsFit
  <1>11. B!Order!RemoveTopmost
    <2> DEFINE I == ItemsOf(blink, l)
               J == ItemsOf(blink', m)
    <2>1. B!Items = I /\ (B!Items)' = J
      BY <1>9, StateOf, StateOfNext
    <2>2. /\ I \in Seq(Shown) /\ J \in Seq(Shown)
          /\ Len(I) = Len(l) /\ Len(J) = Len(l) - 1 /\ DOMAIN I = 1 .. Len(l)
          /\ \A k \in 1 .. Len(l) : I[k] = ItemOf(blink[l[k]])
          /\ \A k \in 1 .. Len(l) - 1 : J[k] = ItemOf(blink'[m[k]])
      <3>1. blink \in [B!Slots -> Cell] /\ blink' \in [B!Slots -> Cell] /\ l \in Seq(B!Slots)
            /\ m \in Seq(B!Slots) /\ Len(m) = Len(l) - 1
        BY <1>3, <1>4, <1>10 DEF CellsFit
      <3>2. QED
        BY <3>1, ItemsAre
    <2> HIDE DEF I, J
    <2>9. Len(l) \in Nat /\ i \in 1 .. Len(l)
      BY <1>3
    <2>3. ASSUME NEW k \in 1 .. Len(l) - 1 PROVE J[k] = IF k < i THEN I[k] ELSE I[k + 1]
      <3>1. m[k] = l[Index(k)] /\ Index(k) \in 1 .. Len(l) /\ Index(k) # i
        BY <1>4, <2>9
      <3>2. ItemOf(blink'[m[k]]) = ItemOf(blink[l[Index(k)]])
        <4>1. l[Index(k)] \in B!Slots /\ l[Index(k)] # s
          BY <1>3, <1>6, <3>1
        <4>2. QED
          BY <1>7, <3>1, <4>1, AlikeItems
      <3>3. J[k] = I[Index(k)]
        BY <2>2, <3>1, <3>2
      <3>4. QED
        BY <3>3 DEF Index
    <2>4. J = Without(I, i)
      <3>1. /\ Without(I, i) \in Seq(Shown) /\ Len(Without(I, i)) = Len(l) - 1
            /\ \A k \in 1 .. Len(l) - 1 : Without(I, i)[k] = IF k < i THEN I[k] ELSE I[k + 1]
        <4>1. I \in Seq(Shown) /\ i \in 1 .. Len(I) /\ Len(I) = Len(l)
          BY <2>2, <2>9
        <4>2. QED
          BY <4>1, WithoutIs
      <3>2. \A k \in 1 .. Len(J) : J[k] = Without(I, i)[k]
        BY <2>2, <2>3, <3>1
      <3>3. QED
        BY <2>2, <3>1, <3>2, SeqEqual
    <2>5. J = B!Order!RemoveAt(I, i)
      BY <2>2, <2>4, <2>9, WithoutIs
    <2>6. B!Order!Topmost(i, loc)
      <3>1. \A k \in 1 .. Len(l) : I[k].location = blink[l[k]].location
        BY <2>2 DEF ItemOf
      <3>2. QED
        BY <1>1, <2>1, <2>2, <3>1 DEF B!Order!Topmost
    <2>7. i \in DOMAIN B!Items
      BY <2>1, <2>2
    <2>8. QED
      BY <2>1, <2>5, <2>6, <2>7, Zenon DEF B!Order!RemoveTopmost
  <1>12. QED
    BY <1>9, <1>10, <1>11

\* Synchronizing changes one character of the list.
LEMMA SyncStep ==
    ASSUME B!BlinkAssumption, NEW l, IsList(list_head, blink, l), CellsFit(blink, age, l),
           NEW loc \in Spots, NEW other \in Spots, B!mp1_ioctl_sync(loc, other)
    PROVE  IsList(list_head', blink', l) /\ CellsFit(blink', age', l) /\ B!Order!Sync
  <1> DEFINE s == B!mp1_find_helper(loc)
             t == B!mp1_find_helper(other)
             new == [blink[t] EXCEPT !.on_length = blink[s].on_length,
                                     !.off_length = blink[s].off_length,
                                     !.countdown = blink[s].countdown,
                                     !.status = blink[s].status]
  <1>1. PICK i \in 1 .. Len(l) :
            /\ s = l[i] /\ blink[l[i]].location = loc
            /\ \A k \in 1 .. Len(l) : k < i => blink[l[k]].location # loc
    BY FindIs DEF B!mp1_ioctl_sync
  <1>2. PICK j \in 1 .. Len(l) :
            /\ t = l[j] /\ blink[l[j]].location = other
            /\ \A k \in 1 .. Len(l) : k < j => blink[l[k]].location # other
    BY FindIs DEF B!mp1_ioctl_sync
  <1>3. /\ blink' = [blink EXCEPT ![t] = new]
        /\ age' = [age EXCEPT ![t] = age[s]] /\ list_head' = list_head
    BY DEF B!mp1_ioctl_sync
  <1> HIDE DEF s, t
  <1>4. /\ s \in B!Slots /\ t \in B!Slots /\ blink \in [B!Slots -> Cell]
        /\ age \in [B!Slots -> B!Word]
        /\ blink[s].location # 0 /\ blink[t].location # 0
        /\ \A k \in 1 .. Len(l) : l[k] \in B!Slots
        /\ \A k, h \in 1 .. Len(l) : l[k] = l[h] => k = h
    BY <1>1, <1>2 DEF IsList, CellsFit
  <1>5. /\ new \in Cell /\ new.next = blink[t].next /\ new.location = blink[t].location
        /\ new.on_length = blink[s].on_length /\ new.off_length = blink[s].off_length
        /\ new.countdown = blink[s].countdown /\ new.status = blink[s].status
    BY <1>4 DEF Cell
  <1> HIDE DEF new
  <1>6. \A u \in B!Slots : /\ blink'[u] = IF u = t THEN new ELSE blink[u]
                           /\ age'[u] = IF u = t THEN age[s] ELSE age[u]
                           /\ blink'[u].next = blink[u].next
                           /\ blink'[u].location = blink[u].location
    BY <1>3, <1>4, <1>5
  <1>7. IsList(list_head', blink', l)
    BY <1>3, <1>4, <1>6 DEF IsList
  <1>8. CellsFit(blink', age', l)
    <2>1. blink' \in [B!Slots -> Cell] /\ age' \in [B!Slots -> B!Word]
      BY <1>3, <1>4, <1>5
    <2>2. OnTime(blink[s], age[s])
      BY <1>4 DEF CellsFit
    <2>3. OnTime(new, age[s])
      BY <1>5, <2>2 DEF OnTime, Length
    <2>4. QED
      BY <1>6, <2>1, <2>3 DEF CellsFit
  <1>9. B!Order!Sync
    <2> DEFINE I == ItemsOf(blink, l)
               J == ItemsOf(blink', l)
               item == [I[i] EXCEPT !.location = other]
    <2>1. B!Items = I /\ (B!Items)' = J
      BY <1>7, StateOf, StateOfNext
    <2>2. /\ I \in Seq(Shown) /\ J \in Seq(Shown)
          /\ Len(I) = Len(l) /\ Len(J) = Len(l)
          /\ \A k \in 1 .. Len(l) : I[k] = ItemOf(blink[l[k]])
          /\ \A k \in 1 .. Len(l) : J[k] = ItemOf(blink'[l[k]])
      <3>1. blink' \in [B!Slots -> Cell] /\ l \in Seq(B!Slots)
        BY <1>8 DEF CellsFit, IsList
      <3>2. QED
        BY <1>4, <3>1, ItemsAre
    <2> HIDE DEF I, J
    <2>3. \A k \in 1 .. Len(l) : I[k].location = blink[l[k]].location
      <3>1. \A c : ItemOf(c).location = c.location
        BY DEF ItemOf
      <3>2. QED
        BY <2>2, <3>1
    <2>4. DOMAIN I = 1 .. Len(l)
      BY <2>2
    <2>5. B!Order!Topmost(i, loc) /\ B!Order!Topmost(j, other)
      BY <1>1, <1>2, <2>1, <2>3, <2>4 DEF B!Order!Topmost
    <2>6. item = ItemOf(new)
      <3>1. I[i] = ItemOf(blink[s])
        BY <1>1, <2>2
      <3>2. new.location = other
        BY <1>2, <1>5
      <3>3. QED
        BY <1>5, <3>1, <3>2 DEF ItemOf
    <2> HIDE DEF item
    <2>7. item \in Shown
      BY <1>5, <2>6 DEF Shown
    <2>8. \A k \in 1 .. Len(l) : J[k] = IF k = j THEN item ELSE I[k]
      <3> TAKE k \in 1 .. Len(l)
      <3>1. l[k] = t <=> k = j
        BY <1>2, <1>4
      <3>2. QED
        BY <1>4, <1>6, <2>2, <2>6, <3>1
    <2>9. J = [I EXCEPT ![j] = item]
      <3>1. /\ [I EXCEPT ![j] = item] \in Seq(Shown) /\ Len([I EXCEPT ![j] = item]) = Len(I)
            /\ \A k \in 1 .. Len(I) : [I EXCEPT ![j] = item][k] = IF k = j THEN item ELSE I[k]
        BY <1>2, <2>2, <2>7, ExceptSeq
      <3>2. \A k \in 1 .. Len(J) : J[k] = [I EXCEPT ![j] = item][k]
        BY <2>2, <2>8, <3>1
      <3>3. Len(J) = Len([I EXCEPT ![j] = item])
        BY <2>2, <3>1
      <3>4. QED
        BY <2>2, <3>1, <3>2, <3>3, SeqEqual
    <2>10. (B!Items)' = [B!Items EXCEPT ![j] = [B!Items[i] EXCEPT !.location = other]]
      BY <2>1, <2>9 DEF item
    <2>11. i \in DOMAIN B!Items /\ j \in DOMAIN B!Items
      BY <2>1, <2>4
    <2>12. QED
      BY <2>5, <2>10, <2>11, Zenon DEF B!Order!Sync
  <1>10. QED
    BY <1>7, <1>8, <1>9

\* A tick takes each character of the list one step further.
LEMMA TickStep ==
    ASSUME B!BlinkAssumption, NEW l, IsList(list_head, blink, l), CellsFit(blink, age, l),
           B!mp1_rtc_tasklet
    PROVE  /\ IsList(list_head', blink', l) /\ CellsFit(blink', age', l) /\ B!Order!Tick
           /\ B!FlipsOnTime
  <1>1. /\ WORD \in Nat \ {0} /\ WORD \div 2 \in Nat /\ WORD \div 2 <= WORD
        /\ \A n \in Nat : n \in B!Word => n < WORD
    BY DEF B!BlinkAssumption, B!Word
  <1>2. /\ blink' = [s \in B!Slots |-> IF s \in B!Listed THEN B!Ticked(s) ELSE blink[s]]
        /\ age' = [s \in B!Slots |-> IF s \notin B!Listed \/ B!Due(s) THEN 0 ELSE age[s] + 1]
        /\ list_head' = list_head
    BY DEF B!mp1_rtc_tasklet
  <1>3. /\ blink \in [B!Slots -> Cell] /\ age \in [B!Slots -> B!Word]
        /\ \A k \in 1 .. Len(l) : l[k] \in B!Slots
        /\ \A s \in B!Slots : s \in B!Listed <=> blink[s].location # 0
        /\ \A s \in B!Slots : blink[s].location # 0 => OnTime(blink[s], age[s])
    <2>1. B!Listed = {l[k] : k \in 1 .. Len(l)}
      BY StateOf
    <2>2. QED
      BY <2>1 DEF IsList, CellsFit
  <1>4. ASSUME NEW s \in B!Slots, blink[s].location # 0
        PROVE  /\ B!Ticked(s) \in Cell
               /\ B!Ticked(s).location = blink[s].location /\ B!Ticked(s).next = blink[s].next
               /\ OnTime(B!Ticked(s), age'[s]) /\ age'[s] \in B!Word
               /\ B!Ticked(s).status # blink[s].status <=> age[s] + 1 = B!Period(Length(blink[s]))
               /\ ItemOf(B!Ticked(s)) = B!Order!Ticked(ItemOf(blink[s]))
    <2> DEFINE c == blink[s]
               d == B!Ticked(s)
    <2>1. c \in Cell /\ OnTime(c, age[s]) /\ age[s] \in B!Word
      BY <1>3, <1>4
    <2>2. /\ c.countdown \in B!Word /\ c.on_length \in B!Word /\ c.off_length \in B!Word
          /\ c.status \in {0, 1} /\ Length(c) \in B!Word
      BY <2>1 DEF Cell, Length
    <2>3. B!Decremented(s) = IF c.countdown = 0 THEN WORD - 1 ELSE c.countdown - 1
      BY <1>1, <2>2 DEF B!Decremented, B!Word
    <2>4. /\ B!Due(s) <=> B!Decremented(s) \notin 1 .. WORD \div 2 - 1
          /\ B!Due(s) => d = [c EXCEPT !.countdown = IF c.status = 1 THEN c.off_length
                                                                     ELSE c.on_length,
                                       !.status = 1 - c.status]
          /\ ~B!Due(s) => d = [c EXCEPT !.countdown = B!Decremented(s)]
          /\ age'[s] = IF B!Due(s) THEN 0 ELSE age[s] + 1
      BY <1>2, <1>3, <1>4 DEF B!Due, B!Ticked
    <2>5. /\ \A e : ItemOf(e).status = e.status /\ ItemOf(e).countdown = e.countdown
          /\ B!Decremented(s) = (ItemOf(c).countdown - 1) % WORD
      BY DEF ItemOf, B!Decremented
    <2> HIDE DEF c, d
    <2>6. CASE B!Due(s)
      <3> DEFINE n == IF c.status = 1 THEN c.off_length ELSE c.on_length
      <3>1. d = [c EXCEPT !.countdown = n, !.status = 1 - c.status] /\ age'[s] = 0
        BY <2>4, <2>6
      <3>2. n \in B!Word /\ 1 - c.status \in {0, 1} /\ 1 - c.status # c.status
        BY <2>2
      <3>3. n = IF 1 - c.status = 1 THEN c.on_length ELSE c.off_length
        BY <2>2
      <3> HIDE DEF n
      <3>4. /\ d \in Cell /\ d.location = c.location /\ d.next = c.next
            /\ d.status = 1 - c.status /\ d.countdown = n
            /\ d.on_length = c.on_length /\ d.off_length = c.off_length
        BY <2>1, <3>1, <3>2 DEF Cell
      <3>5. Length(d) = d.countdown
        BY <3>3, <3>4 DEF Length
      <3>6. OnTime(d, 0) /\ 0 \in B!Word
        BY <1>1, <3>2, <3>4, <3>5 DEF OnTime, B!Word
      <3>7. age[s] + 1 = B!Period(Length(c))
        BY <1>1, <2>1, <2>2, <2>3, <2>4, <2>6 DEF B!Period, OnTime, B!Word
      <3>8. ItemOf(d) = B!Order!Ticked(ItemOf(c))
        <4> DEFINE it == ItemOf(c)
                   flip == [it EXCEPT !.status = 1 - it.status]
        <4>1. B!Order!Ticked(it) = [flip EXCEPT !.countdown = B!Order!CurrentLength(flip)]
          BY <2>4, <2>5, <2>6 DEF B!Order!Ticked
        <4>2. B!Order!CurrentLength(flip) = n
          BY <3>3 DEF B!Order!CurrentLength, ItemOf
        <4>3. [flip EXCEPT !.countdown = n] =
              [location |-> c.location, on_length |-> c.on_length, off_length |-> c.off_length,
               countdown |-> n, status |-> 1 - c.status]
          <5>1. it.status = c.status
            BY DEF ItemOf
          <5>2. flip = [location |-> c.location, on_length |-> c.on_length,
                        off_length |-> c.off_length, countdown |-> c.countdown,
                        status |-> 1 - c.status]
            BY <5>1 DEF ItemOf
          <5> HIDE DEF flip
          <5>3. QED
            BY <5>2
        <4>4. ItemOf(d) =
              [location |-> c.location, on_length |-> c.on_length, off_length |-> c.off_length,
               countdown |-> n, status |-> 1 - c.status]
          BY <3>4 DEF ItemOf
        <4>5. QED
          BY <4>1, <4>2, <4>3, <4>4
      <3>9. QED
        BY <3>1, <3>2, <3>4, <3>6, <3>7, <3>8 DEF c, d
    <2>7. CASE ~B!Due(s)
      <3>1. d = [c EXCEPT !.countdown = B!Decremented(s)] /\ age'[s] = age[s] + 1
        BY <2>4, <2>7
      <3>2. B!Decremented(s) \in 1 .. WORD \div 2 - 1
        BY <2>4, <2>7
      <3>3. /\ B!Decremented(s) = c.countdown - 1 /\ c.countdown - 1 \in B!Word
            /\ c.countdown - 1 \in 1 .. WORD \div 2 - 1
        BY <1>1, <2>2, <2>3, <3>2 DEF B!Word
      <3>4. /\ d \in Cell /\ d.location = c.location /\ d.next = c.next
            /\ d.status = c.status /\ d.countdown = c.countdown - 1
            /\ d.on_length = c.on_length /\ d.off_length = c.off_length
        BY <2>1, <3>1, <3>3 DEF Cell
      <3>5. Length(d) = Length(c)
        BY <3>4 DEF Length
      <3>6. OnTime(d, age[s] + 1) /\ age[s] + 1 \in B!Word /\ age[s] + 1 # B!Period(Length(c))
        BY <1>1, <2>1, <2>2, <3>3, <3>4, <3>5 DEF OnTime, B!Period, B!Word
      <3>7. ItemOf(d) = B!Order!Ticked(ItemOf(c))
        <4> DEFINE it == ItemOf(c)
        <4>1. B!Order!Ticked(it) = [it EXCEPT !.countdown = B!Decremented(s)]
          BY <2>4, <2>5, <2>7 DEF B!Order!Ticked
        <4>2. QED
          BY <3>3, <3>4, <4>1 DEF ItemOf
      <3>8. QED
        BY <3>1, <3>4, <3>6, <3>7 DEF c, d
    <2>8. QED
      BY <2>6, <2>7
  <1>5. \A s \in B!Slots : blink'[s] = IF blink[s].location # 0 THEN B!Ticked(s) ELSE blink[s]
    BY <1>2, <1>3
  <1>6. \A s \in B!Slots : /\ blink'[s] \in Cell /\ blink'[s].next = blink[s].next
                           /\ blink'[s].location = blink[s].location
    BY <1>3, <1>4, <1>5
  <1>7. IsList(list_head', blink', l)
    BY <1>2, <1>3, <1>6 DEF IsList
  <1>8. CellsFit(blink', age', l)
    <2>1. blink' \in [B!Slots -> Cell]
      BY <1>2, <1>6
    <2>2. \A s \in B!Slots : age'[s] \in B!Word
      <3> TAKE s \in B!Slots
      <3>1. blink[s].location = 0 => age'[s] = 0
        BY <1>2, <1>3
      <3>2. 0 \in B!Word
        BY <1>1 DEF B!Word
      <3>3. QED
        BY <1>4, <3>1, <3>2
    <2>3. age' \in [B!Slots -> B!Word]
      BY <1>2, <2>2
    <2>4. QED
      BY <1>4, <1>5, <1>6, <2>1, <2>3 DEF CellsFit
  <1>9. B!Order!Tick
    <2> DEFINE I == ItemsOf(blink, l)
               J == ItemsOf(blink', l)
    <2>1. B!Items = I /\ (B!Items)' = J
      BY <1>7, StateOf, StateOfNext
    <2>2. DOMAIN I = 1 .. Len(l) /\ J = [k \in 1 .. Len(l) |-> ItemOf(blink'[l[k]])]
      BY DEF ItemsOf
    <2>3. \A k \in 1 .. Len(l) : ItemOf(blink'[l[k]]) = B!Order!Ticked(I[k])
      <3> TAKE k \in 1 .. Len(l)
      <3>1. I[k] = ItemOf(blink[l[k]])
        BY DEF ItemsOf
      <3>2. l[k] \in B!Slots /\ blink[l[k]].location # 0
        BY <1>3 DEF CellsFit
      <3> HIDE DEF I
      <3>3. QED
        BY <1>4, <1>5, <3>1, <3>2
    <2> HIDE DEF I, J
    <2>4. J = [k \in DOMAIN I |-> B!Order!Ticked(I[k])]
      BY <2>2, <2>3
    <2>5. QED
      BY <2>1, <2>4 DEF B!Order!Tick
  <1>10. B!FlipsOnTime
    <2>1. \A s \in B!Listed : s \in B!Slots /\ blink[s].location # 0
      <3>1. B!Listed = {l[k] : k \in 1 .. Len(l)}
        BY StateOf
      <3>2. QED
        BY <1>3, <3>1
    <2>2. \A s \in B!Listed : blink'[s].status # blink[s].status
                              <=> age[s] + 1 = B!Period(Length(blink[s]))
      BY <1>4, <1>5, <2>1
    <2>3. QED
      BY <2>2 DEF B!FlipsOnTime, Length
  <1>11. QED
    BY <1>7, <1>8, <1>9, <1>10

-----------------------------------------------------------------------------
(* The theorems.                                                            *)

\* The invariant holds at first, and every step preserves it and is one of BlinkOrder's.
LEMMA InitBlink ==
    ASSUME B!BlinkAssumption, B!Init
    PROVE  BlinkInv /\ B!Items = <<>>
  <1>1. IsList(list_head, blink, <<>>)
    BY DEF B!Init, IsList, Entry
  <1>2. CellsFit(blink, age, <<>>)
    <2>1. B!Zeroed \in Cell /\ 0 \in B!Word
      BY DEF B!Zeroed, Cell, B!Word, B!BlinkAssumption
    <2>2. QED
      BY <2>1 DEF B!Init, CellsFit, B!Zeroed
  <1>3. B!Items = <<>>
    <2>1. B!Items = ItemsOf(blink, <<>>)
      BY <1>1, StateOf
    <2>2. QED
      BY <2>1 DEF ItemsOf
  <1>4. QED
    BY <1>1, <1>2, <1>3 DEF BlinkInv

OrderNext == B!Order!AddOnTop \/ B!Order!RemoveTopmost \/ B!Order!Sync \/ B!Order!Tick

\* Every step preserves the invariant and is BlinkOrder's.
LEMMA NextBlink ==
    ASSUME B!BlinkAssumption, BlinkInv, [B!Next]_B!vars
    PROVE  BlinkInv' /\ (OrderNext \/ (B!Items)' = B!Items) /\ [B!FlipsOnTime]_B!vars
  <1>1. PICK l : IsList(list_head, blink, l) /\ CellsFit(blink, age, l)
    BY DEF BlinkInv
  <1>2. ASSUME \E m : IsList(list_head', blink', m) /\ CellsFit(blink', age', m)
        PROVE  BlinkInv'
    BY <1>2 DEF BlinkInv, IsList, CellsFit, Entry, OnTime, Length, Cell, B!Slots, B!Word, B!NULL
  <1>3. ASSUME NEW loc \in Spots, NEW r \in Rhythms, B!mp1_ioctl_add(loc, r[1], r[2])
        PROVE  BlinkInv' /\ OrderNext
    BY <1>1, <1>2, <1>3, AddStep DEF OrderNext
  <1>4. ASSUME NEW loc \in Spots, B!mp1_ioctl_remove(loc)
        PROVE  BlinkInv' /\ OrderNext
    BY <1>1, <1>2, <1>4, RemoveStep DEF OrderNext
  <1>5. ASSUME NEW loc \in Spots, NEW other \in Spots, B!mp1_ioctl_sync(loc, other)
        PROVE  BlinkInv' /\ OrderNext
    BY <1>1, <1>2, <1>5, SyncStep DEF OrderNext
  <1>6. ASSUME B!mp1_rtc_tasklet
        PROVE  BlinkInv' /\ OrderNext /\ B!FlipsOnTime
    BY <1>1, <1>2, <1>6, TickStep DEF OrderNext
  <1>7. ASSUME UNCHANGED B!vars
        PROVE  BlinkInv' /\ (B!Items)' = B!Items
    <2>1. list_head' = list_head /\ blink' = blink /\ age' = age
      BY <1>7 DEF B!vars
    <2>2. IsList(list_head', blink', l) /\ CellsFit(blink', age', l)
      BY <1>1, <2>1
    <2>3. B!Items = ItemsOf(blink, l) /\ (B!Items)' = ItemsOf(blink', l)
      BY <1>1, <2>2, StateOf, StateOfNext
    <2>4. QED
      BY <1>2, <2>1, <2>2, <2>3
  <1>8. ~B!mp1_rtc_tasklet => B!FlipsOnTime
    BY DEF B!FlipsOnTime
  <1>9. QED
    BY <1>3, <1>4, <1>5, <1>6, <1>7, <1>8 DEF B!Next

\* What the invariant says of a state.
LEMMA BlinkTypes ==
    ASSUME B!BlinkAssumption, BlinkInv
    PROVE  B!TypeOK
  <1>1. PICK l : IsList(list_head, blink, l) /\ CellsFit(blink, age, l)
    BY DEF BlinkInv
  <1>2. B!List = l /\ B!Listed = {l[k] : k \in 1 .. Len(l)}
    BY <1>1, StateOf
  <1>3. B!IsInjective(l)
    <2>1. DOMAIN l = 1 .. Len(l)
      BY <1>1 DEF IsList
    <2>2. QED
      BY <1>1, <2>1 DEF IsList, B!IsInjective
  <1>4. l \in Seq(B!Slots)
    BY <1>1 DEF IsList
  <1>5. B!Listed = {s \in B!Slots : blink[s].location # 0}
    BY <1>1, <1>2, <1>4 DEF CellsFit
  <1>6. list_head \in B!Slots \cup {B!NULL}
    BY <1>1, <1>4 DEF IsList, Entry
  <1>7. QED
    BY <1>1, <1>2, <1>3, <1>5, <1>6 DEF B!TypeOK, B!ListIntact, CellsFit, Cell

\* Whatever was added, removed, synchronized or shown before, the pointers of the array
\* form one list that ends and holds the characters in use, each once, so that the
\* tasklet comes to its end and a character that fish removes is gone.
THEOREM BlinkListIntact ==
    ASSUME B!BlinkAssumption
    PROVE  B!Spec => []B!TypeOK
  <1>1. B!Init => BlinkInv
    BY InitBlink
  <1>2. BlinkInv /\ [B!Next]_B!vars => BlinkInv'
    BY NextBlink
  <1>3. BlinkInv => B!TypeOK
    BY BlinkTypes
  <1>4. QED
    BY <1>1, <1>2, <1>3, PTL DEF B!Spec

\* A character changes exactly when it has shown for the length of its status, whatever
\* becomes of the others meanwhile; a length beyond 2^15 shows for one tick.
THEOREM BlinkPeriodKept ==
    ASSUME B!BlinkAssumption
    PROVE  B!Spec => B!PeriodKept
  <1>1. B!Init => BlinkInv
    BY InitBlink
  <1>2. BlinkInv /\ [B!Next]_B!vars => BlinkInv' /\ [B!FlipsOnTime]_B!vars
    BY NextBlink
  <1>3. QED
    BY <1>1, <1>2, PTL DEF B!Spec, B!PeriodKept

\* The array with its pointers is a pile of characters: what is added comes on top,
\* removing and synchronizing take the topmost at a location, and a tick reaches every one.
THEOREM BlinkImplementsOrder ==
    ASSUME B!BlinkAssumption
    PROVE  B!Spec => B!ImplementsOrder
  <1>1. B!Init => BlinkInv /\ B!Items = <<>>
    BY InitBlink
  <1>2. /\ BlinkInv /\ [B!Next]_B!vars => BlinkInv'
        /\ BlinkInv /\ [B!Next]_B!vars =>
               [\/ B!Order!AddOnTop \/ B!Order!RemoveTopmost
                \/ B!Order!Sync \/ B!Order!Tick]_(B!Items)
    BY NextBlink DEF OrderNext
  <1>3. QED
    BY <1>1, <1>2, PTL DEF B!Spec, B!ImplementsOrder, B!Order!Spec
=============================================================================
