---------------------------- MODULE PulseHistory ----------------------------
(***************************************************************************)
(* PulseCounter with history variables, which record what the sampler has  *)
(* seen and never influence a step: the true length of the current high    *)
(* and low runs, the pulses counted within the current high run, and the   *)
(* latest samples in the order they were taken.                            *)
(***************************************************************************)
EXTENDS PulseCounter, Sequences

CONSTANT MaxRun   \* model bound: no run of equal samples is longer

ASSUME MaxRunAssumption == MaxRun \in Nat

VARIABLES highRun, lowRun, pulsesInRun, recent

historyVars == <<highRun, lowRun, pulsesInRun, recent>>
allVars == <<vars, historyVars>>

HInit ==
  /\ Init
  /\ highRun = 0
  /\ lowRun = 0
  /\ pulsesInRun = 0
  /\ recent = << >>

RecordHigh ==
  /\ highRun' = highRun + 1
  /\ lowRun' = 0
  /\ pulsesInRun' = pulsesInRun + (IF lPulses' # lPulses THEN 1 ELSE 0)

RecordLow ==
  /\ highRun' = 0
  /\ lowRun' = lowRun + 1
  /\ pulsesInRun' = 0

Latest(s) == IF Len(s) < iABufferSize THEN s ELSE Tail(s)

HSample(raw) ==
  /\ highRun < MaxRun /\ lowRun < MaxRun
  /\ addADCValueToBuffer(raw)
  /\ IF Sampled(raw) >= cLimit THEN RecordHigh ELSE RecordLow
  /\ recent' = Append(Latest(recent), Sampled(raw))

HSettings == handleGeneralSettings /\ UNCHANGED historyVars

HSetup ==
  /\ setup
  /\ highRun' = 0
  /\ lowRun' = 0
  /\ pulsesInRun' = 0
  /\ recent' = << >>

HNext ==
  \/ \E raw \in RawValues : HSample(raw)
  \/ HSettings
  \/ HSetup

HSpec == HInit /\ [][HNext]_allVars

-----------------------------------------------------------------------------
\* The sampler implements the abstract meter: its byte counters stand for
\* the true runs, its debounce flag for the held state and lPulses for the
\* register, through changes of the settings and restarts.  It is about
\* addADCValueToBuffer comparing counters that wrap at 256.
Meter == INSTANCE PulseMeter WITH
  Counts <- Thresholds, RegisterMod <- UlongMod, register <- lPulses,
  armed <- ~bLimitDebounce, highCount <- cLimitHigh,
  debounce <- cLimitDebounce

ImplementsMeter == Meter!MeterSpec

\* One peak is one pulse: however long the disc's mark or the LED stays over
\* the limit, and whatever settings are saved meanwhile, the high run adds at
\* most one to lPulses.
OnePulsePerRun == pulsesInRun <= 1

\* Why it holds: the run that has been counted is the run that set the flag, and
\* only a low sample clears it.
CountedRunIsHeld == pulsesInRun > 0 => bLimitDebounce

\* Why the byte counters are enough when no threshold is the largest char: the
\* counter the flag is waiting on has not wrapped, so it still is the true run.
RunsTracked ==
  /\ ~bLimitDebounce => highRun = cLimitCountHi /\ highRun <= CharMod - 2
  /\ bLimitDebounce => lowRun = cLimitCountLo /\ lowRun <= CharMod - 2

\* values.json serves cABuffer: its slots hold exactly the latest samples,
\* the newest in the slot before iABufferPos and the older ones behind it,
\* and slots not yet reached still hold 0.
RingHoldsRecent ==
  \A i \in 1 .. iABufferSize :
    cABuffer[(iABufferPos + iABufferSize - i) % iABufferSize] =
      IF i <= Len(recent) THEN recent[Len(recent) + 1 - i] ELSE 0

\* README: a run over the limit of ADC High Count cycles is a pulse.  Read
\* leniently: an armed sampler counts it at the latest in the next cycle.
LongRunIsCounted ==
  [][ (highRun' > cLimitHigh /\ highRun' = highRun + 1 /\ ~bLimitDebounce)
      => lPulses' # lPulses ]_allVars

\* graph.js plots values.json over an axis titled Time: entry i + 1 would be
\* a sample taken after entry i.
GraphInTimeOrder ==
  Len(recent) = iABufferSize =>
    \A i \in Slots : cABuffer[i] = recent[i + 1]
=============================================================================
