----------------------------- MODULE MCFrameRate -----------------------------
(* Instances of FrameRate for TLC.  A frame time is within 7 seconds of     *)
(* 0, and an int ends at 4095, so that it can overflow.  On the last of the  *)
(* bases a window of three ticks ends or does not by the rounding.           *)
EXTENDS FrameRate

HalfSeconds == {<<1, 2>>}
Several     == {<<1, 2>>, <<2001, 3001>>}
Times       == -1..10
Forward     == 0..12
=============================================================================
