------------------------------ MODULE MCPulse ------------------------------
(***************************************************************************)
(* Small bytes for the sampler: with CharMod = 4 the run counters wrap     *)
(* after four samples, and MaxRun lets runs go on well past the wrap.      *)
(***************************************************************************)
EXTENDS PulseHistory

MCRawValues == {1, 11}       \* become the samples 0 and 2
MCLimits == {1, 3}           \* 2 is high for the first, low for the second
MCThresholds == 0 .. 2       \* every threshold the counters can exceed
MCAllThresholds == 0 .. 3    \* the largest char too, as the form allows
=============================================================================
