---------------------------- MODULE PulseCounter ----------------------------
(***************************************************************************)
(* The sampler of src/src/Other.ino and the state it keeps: the ring of    *)
(* ADC values, the two run counters, the debounce flag and the pulse count.*)
(* A char of this target is an unsigned byte, so every counter of type     *)
(* char is modelled modulo CharMod, 256 in the code.                       *)
(***************************************************************************)
EXTENDS Naturals

CONSTANTS
  CharMod,       \* one more than the largest char
  UlongMod,      \* one more than the largest unsigned long
  iABufferSize,  \* the size generateADCBuffer settled on
  RawValues,     \* the readings analogRead(A0) may return
  Limits,        \* the values cLimit is set to
  Thresholds     \* the values cLimitHigh and cLimitDebounce are set to

ASSUME PulseCounterAssumption ==
  /\ CharMod \in Nat /\ CharMod > 1
  /\ UlongMod \in Nat /\ UlongMod > 1
  /\ iABufferSize \in 1 .. CharMod - 1
  /\ RawValues \subseteq 0 .. 4 * CharMod - 1
  /\ Limits \subseteq 0 .. CharMod - 1
  /\ Thresholds \subseteq 0 .. CharMod - 1

VARIABLES
  bPowerMonEnabled, cLimit, cLimitHigh, cLimitDebounce,   \* settings
  cLimitCountHi, cLimitCountLo, bLimitDebounce, lPulses,  \* the detector
  cABuffer, iABufferPos                                   \* the ring

settingVars == <<bPowerMonEnabled, cLimit, cLimitHigh, cLimitDebounce>>
detectorVars == <<cLimitCountHi, cLimitCountLo, bLimitDebounce, lPulses>>
ringVars == <<cABuffer, iABufferPos>>
vars == <<settingVars, detectorVars, ringVars>>

Slots == 0 .. iABufferSize - 1
Char == 0 .. CharMod - 1

TypeOK ==
  /\ bPowerMonEnabled \in BOOLEAN
  /\ cLimit \in Limits
  /\ cLimitHigh \in Thresholds
  /\ cLimitDebounce \in Thresholds
  /\ cLimitCountHi \in Char
  /\ cLimitCountLo \in Char
  /\ bLimitDebounce \in BOOLEAN
  /\ lPulses \in 0 .. UlongMod - 1
  /\ cABuffer \in [Slots -> Char]
  /\ iABufferPos \in Slots

Init ==
  /\ bPowerMonEnabled \in BOOLEAN
  /\ cLimit \in Limits
  /\ cLimitHigh \in Thresholds
  /\ cLimitDebounce \in Thresholds
  /\ cLimitCountHi = 0
  /\ cLimitCountLo = 0
  /\ bLimitDebounce = FALSE
  /\ lPulses = 0
  /\ cABuffer = [i \in Slots |-> 0]
  /\ iABufferPos = 0

-----------------------------------------------------------------------------
\* analogRead(A0) >> 2, stored into a char.
Sampled(raw) == (raw \div 4) % CharMod

\* Mutants: the threshold compared with the count before this sample, and a
\* pulse that does not hold the detector.
CountHighLate ==
  /\ cLimitCountHi' = (cLimitCountHi + 1) % CharMod
  /\ cLimitCountLo' = 0
  /\ IF ~bLimitDebounce /\ cLimitCountHi > cLimitHigh
     THEN /\ lPulses' = (lPulses + 1) % UlongMod
          /\ bLimitDebounce' = TRUE
     ELSE UNCHANGED <<lPulses, bLimitDebounce>>

CountHighNotHeld ==
  /\ cLimitCountHi' = (cLimitCountHi + 1) % CharMod
  /\ cLimitCountLo' = 0
  /\ lPulses' = IF ~bLimitDebounce /\ cLimitCountHi' > cLimitHigh
                THEN (lPulses + 1) % UlongMod ELSE lPulses
  /\ UNCHANGED bLimitDebounce

CountHigh ==
  /\ cLimitCountHi' = (cLimitCountHi + 1) % CharMod
  /\ cLimitCountLo' = 0
  /\ IF ~bLimitDebounce /\ cLimitCountHi' > cLimitHigh
     THEN /\ lPulses' = (lPulses + 1) % UlongMod
          /\ bLimitDebounce' = TRUE
     ELSE UNCHANGED <<lPulses, bLimitDebounce>>

\* Mutant: the high count is not reset by a low sample.
CountLowKeepsHigh ==
  /\ cLimitCountLo' = (cLimitCountLo + 1) % CharMod
  /\ bLimitDebounce' = (bLimitDebounce /\ cLimitCountLo' <= cLimitDebounce)
  /\ UNCHANGED <<cLimitCountHi, lPulses>>

CountLow ==
  /\ cLimitCountLo' = (cLimitCountLo + 1) % CharMod
  /\ cLimitCountHi' = 0
  /\ bLimitDebounce' = (bLimitDebounce /\ cLimitCountLo' <= cLimitDebounce)
  /\ UNCHANGED lPulses

\* Mutant: one slot past the end.
NextPosPastEnd ==
  LET next == (iABufferPos + 1) % CharMod
  IN IF next > iABufferSize THEN 0 ELSE next

\* iABufferPos++ on a char, then back to the first slot at the end.
NextPos ==
  LET next == (iABufferPos + 1) % CharMod
  IN IF next >= iABufferSize THEN 0 ELSE next

\* Mutant: the position is advanced before the sample is stored.
addADCValueAfterStep(raw) ==
  /\ bPowerMonEnabled
  /\ cABuffer' = [cABuffer EXCEPT ![NextPos] = Sampled(raw)]
  /\ IF Sampled(raw) >= cLimit THEN CountHigh ELSE CountLow
  /\ iABufferPos' = NextPos
  /\ UNCHANGED settingVars

addADCValueToBuffer(raw) ==
  /\ bPowerMonEnabled
  /\ cABuffer' = [cABuffer EXCEPT ![iABufferPos] = Sampled(raw)]
  /\ IF Sampled(raw) >= cLimit THEN CountHigh ELSE CountLow
  /\ iABufferPos' = NextPos
  /\ UNCHANGED settingVars

\* Whatever the EEPROM holds becomes the settings.
loadSettings ==
  /\ bPowerMonEnabled' \in BOOLEAN
  /\ cLimit' \in Limits
  /\ cLimitHigh' \in Thresholds
  /\ cLimitDebounce' \in Thresholds

\* Mutant: loading the settings starts the detector afresh, as the defaults do.
handleGeneralSettingsAfresh ==
  /\ loadSettings
  /\ cLimitCountHi' = 0
  /\ cLimitCountLo' = 0
  /\ bLimitDebounce' = FALSE
  /\ UNCHANGED <<lPulses, ringVars>>

\* A request to general.html, as far as the sampler can see it: the settings
\* become what the EEPROM gives back, and nothing of the detector or the ring
\* is reset.
handleGeneralSettings ==
  /\ loadSettings
  /\ UNCHANGED <<detectorVars, ringVars>>

\* A reset of the chip in any cycle, and setup() after it.
setup ==
  /\ loadSettings
  /\ cLimitCountHi' = 0
  /\ cLimitCountLo' = 0
  /\ bLimitDebounce' = FALSE
  /\ lPulses' = 0
  /\ cABuffer' = [i \in Slots |-> 0]
  /\ iABufferPos' = 0

Next ==
  \/ \E raw \in RawValues : addADCValueToBuffer(raw)
  \/ handleGeneralSettings
  \/ setup

Spec == Init /\ [][Next]_vars
=============================================================================
