------------------------------- MODULE MCRtc -------------------------------
(* A small instance of Rtc: an interrupt rate of 4 Hz, so periods of 2 and 1 *)
(* interrupts, and requests on both sides of every limit.                    *)
EXTENDS Rtc

RequestedFreqs == {-2, 0, 1, 2, 3, 4, 6, 8}
=============================================================================
