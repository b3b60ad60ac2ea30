---------------------------- MODULE PulseProofs ----------------------------
(***************************************************************************)
(* Proofs about the sampler, for every width of char and unsigned long,    *)
(* every buffer size, every set of readings and settings.                  *)
(***************************************************************************)
EXTENDS PulseHistory, TLAPS

HTypeOK ==
  /\ TypeOK
  /\ highRun \in Nat
  /\ lowRun \in Nat
  /\ pulsesInRun \in Nat
  /\ recent \in Seq(Char)
  /\ Len(recent) <= iABufferSize

-----------------------------------------------------------------------------
\* Incrementing a counter kept modulo m, as the chars of the sampler are.
LEMMA WrapStep ==
  ASSUME NEW m \in Nat, m > 0, NEW x \in 0 .. m - 1
  PROVE  (x + 1) % m = IF x + 1 = m THEN 0 ELSE x + 1
  BY SMT

\* The two char conversions of addADCValueToBuffer stay in their ranges.
LEMMA SampleRange ==
  /\ \A raw \in RawValues : Sampled(raw) \in Char
  /\ TypeOK => NextPos = IF iABufferPos + 1 = iABufferSize
                         THEN 0 ELSE iABufferPos + 1
  /\ TypeOK => NextPos \in Slots
<1>1. \A raw \in RawValues : Sampled(raw) \in Char
  BY PulseCounterAssumption DEF Sampled, Char
<1>2. ASSUME TypeOK
      PROVE  NextPos = IF iABufferPos + 1 = iABufferSize
                       THEN 0 ELSE iABufferPos + 1
  <2>1. iABufferPos \in 0 .. CharMod - 1 /\ iABufferPos + 1 < CharMod
    BY <1>2, PulseCounterAssumption DEF TypeOK, Slots
  <2>2. (iABufferPos + 1) % CharMod = iABufferPos + 1
    BY <2>1, WrapStep, PulseCounterAssumption
  <2> QED
    BY <1>2, <2>1, <2>2, PulseCounterAssumption DEF NextPos, TypeOK, Slots
<1>3. TypeOK => NextPos \in Slots
  BY <1>2, PulseCounterAssumption DEF TypeOK, Slots
<1> QED
  BY <1>1, <1>2, <1>3

\* A recorded history never outgrows the ring.
LEMMA LatestRange ==
  ASSUME NEW s \in Seq(Char), Len(s) <= iABufferSize, NEW v \in Char
  PROVE  /\ Append(Latest(s), v) \in Seq(Char)
         /\ Len(Append(Latest(s), v)) <= iABufferSize
         /\ Len(Append(Latest(s), v)) =
              IF Len(s) < iABufferSize THEN Len(s) + 1 ELSE Len(s)
<1>1. CASE Len(s) < iABufferSize
  BY <1>1, PulseCounterAssumption DEF Latest
<1>2. CASE Len(s) = iABufferSize
  <2>1. s # << >> /\ Tail(s) \in Seq(Char) /\ Len(Tail(s)) = Len(s) - 1
    BY <1>2, PulseCounterAssumption
  <2> QED
    BY <1>2, <2>1, PulseCounterAssumption DEF Latest
<1> QED
  BY <1>1, <1>2, PulseCounterAssumption

-----------------------------------------------------------------------------
\* Every variable keeps its type, the history included: iABufferPos++ never
\* leaves the ring, and no counter leaves the range of its C type.
THEOREM HistoryTypeCorrect == HSpec => []HTypeOK
<1>1. HInit => HTypeOK
  <2> SUFFICES ASSUME HInit PROVE HTypeOK
    OBVIOUS
  <2> USE PulseCounterAssumption DEF HInit, Init
  <2>1. bPowerMonEnabled \in BOOLEAN /\ bLimitDebounce \in BOOLEAN
    OBVIOUS
  <2>2. recent \in Seq(Char) /\ Len(recent) <= iABufferSize
    OBVIOUS
  <2>3. cABuffer \in [Slots -> Char] /\ iABufferPos \in Slots
    BY DEF Slots, Char
  <2>4. /\ cLimitCountHi \in Char /\ cLimitCountLo \in Char
        /\ lPulses \in 0 .. UlongMod - 1
    BY DEF Char
  <2>5. /\ cLimit \in Limits /\ cLimitHigh \in Thresholds
        /\ cLimitDebounce \in Thresholds
        /\ highRun \in Nat /\ lowRun \in Nat /\ pulsesInRun \in Nat
    OBVIOUS
  <2> QED
    BY <2>1, <2>2, <2>3, <2>4, <2>5 DEF HTypeOK, TypeOK
<1>2. HTypeOK /\ [HNext]_allVars => HTypeOK'
  <2> SUFFICES ASSUME HTypeOK, [HNext]_allVars PROVE HTypeOK'
    OBVIOUS
  <2> USE PulseCounterAssumption DEF HTypeOK
  <2>1. ASSUME NEW raw \in RawValues, HSample(raw) PROVE HTypeOK'
    <3>1. Sampled(raw) \in Char /\ NextPos \in Slots
      BY SampleRange
    <3>2. recent' \in Seq(Char) /\ Len(recent') <= iABufferSize
      BY <2>1, <3>1, LatestRange DEF HSample
    <3>3. CASE Sampled(raw) >= cLimit
      <4>1. CountHigh /\ RecordHigh
        BY <2>1, <3>3 DEF HSample, addADCValueToBuffer
      <4>2. /\ cLimitCountHi' \in Char /\ cLimitCountLo' \in Char
            /\ lPulses' \in 0 .. UlongMod - 1
        BY <4>1 DEF CountHigh, TypeOK, Char
      <4>4. bLimitDebounce' \in BOOLEAN
        BY <4>1, Zenon DEF CountHigh, TypeOK
      <4>3. highRun' \in Nat /\ lowRun' \in Nat /\ pulsesInRun' \in Nat
        BY <4>1 DEF RecordHigh
      <4> QED
        BY <2>1, <3>1, <3>2, <4>2, <4>3, <4>4
        DEF HSample, addADCValueToBuffer, TypeOK, settingVars
    <3>4. CASE ~(Sampled(raw) >= cLimit)
      <4>1. CountLow /\ RecordLow
        BY <2>1, <3>4 DEF HSample, addADCValueToBuffer
      <4>2. /\ cLimitCountHi' \in Char /\ cLimitCountLo' \in Char
            /\ bLimitDebounce' \in BOOLEAN /\ lPulses' \in 0 .. UlongMod - 1
        BY <4>1 DEF CountLow, TypeOK, Char
      <4>3. highRun' \in Nat /\ lowRun' \in Nat /\ pulsesInRun' \in Nat
        BY <4>1 DEF RecordLow
      <4> QED
        BY <2>1, <3>1, <3>2, <4>2, <4>3
        DEF HSample, addADCValueToBuffer, TypeOK, settingVars
    <3> QED
      BY <3>3, <3>4
  <2>2. CASE HSettings
    BY <2>2 DEF HSettings, handleGeneralSettings, loadSettings, historyVars,
                detectorVars, ringVars, TypeOK
  <2>3. CASE HSetup
    <3> USE <2>3 DEF HSetup, setup, loadSettings
    <3>1. bPowerMonEnabled' \in BOOLEAN /\ bLimitDebounce' \in BOOLEAN
      OBVIOUS
    <3>2. recent' \in Seq(Char) /\ Len(recent') <= iABufferSize
      OBVIOUS
    <3>3. cABuffer' \in [Slots -> Char] /\ iABufferPos' \in Slots
      BY DEF Slots, Char
    <3>4. /\ cLimitCountHi' \in Char /\ cLimitCountLo' \in Char
          /\ lPulses' \in 0 .. UlongMod - 1
      BY DEF Char
    <3>5. /\ cLimit' \in Limits /\ cLimitHigh' \in Thresholds
          /\ cLimitDebounce' \in Thresholds
          /\ highRun' \in Nat /\ lowRun' \in Nat /\ pulsesInRun' \in Nat
      OBVIOUS
    <3> QED
      BY <3>1, <3>2, <3>3, <3>4, <3>5 DEF TypeOK
  <2>4. CASE UNCHANGED allVars
    BY <2>4 DEF allVars, vars, settingVars, detectorVars, ringVars,
                historyVars, TypeOK
  <2> QED
    BY <2>1, <2>2, <2>3, <2>4 DEF HNext
<1> QED
  BY <1>1, <1>2, PTL DEF HSpec

\* The types of the sampler's own variables, the C types of Globals.h.
THEOREM TypeCorrect == HSpec => []TypeOK
BY HistoryTypeCorrect, PTL DEF HTypeOK

-----------------------------------------------------------------------------
\* A step of lPulses modulo UlongMod is always visible.
LEMMA PulseIsVisible == TypeOK => (lPulses + 1) % UlongMod # lPulses
<1> SUFFICES ASSUME TypeOK PROVE (lPulses + 1) % UlongMod # lPulses
  OBVIOUS
<1>1. (lPulses + 1) % UlongMod =
        IF lPulses + 1 = UlongMod THEN 0 ELSE lPulses + 1
  BY WrapStep, PulseCounterAssumption DEF TypeOK
<1> QED
  BY <1>1, PulseCounterAssumption DEF TypeOK

\* OnePulsePerRun is not inductive alone: a run is counted at most once because the
\* flag that its pulse set is still set.
PeakInv == OnePulsePerRun /\ CountedRunIsHeld

LEMMA PeakInvariant == HSpec => []PeakInv
<1> DEFINE Inv == PeakInv
<1>1. HInit => Inv
  BY DEF HInit, Init, PeakInv, OnePulsePerRun, CountedRunIsHeld
<1>2. HTypeOK /\ Inv /\ [HNext]_allVars => Inv'
  <2> SUFFICES ASSUME HTypeOK, Inv, [HNext]_allVars PROVE Inv'
    OBVIOUS
  <2> USE DEF HTypeOK, PeakInv, OnePulsePerRun, CountedRunIsHeld
  <2>1. ASSUME NEW raw \in RawValues, HSample(raw) PROVE Inv'
    <3>1. CASE Sampled(raw) >= cLimit
      <4>1. CountHigh /\ RecordHigh
        BY <2>1, <3>1 DEF HSample, addADCValueToBuffer
      <4>2. CASE ~bLimitDebounce /\ cLimitCountHi' > cLimitHigh
        <5>1. lPulses' # lPulses /\ bLimitDebounce'
          BY <4>1, <4>2, PulseIsVisible DEF CountHigh
        <5>2. pulsesInRun = 0
          BY <4>2
        <5> QED
          BY <4>1, <5>1, <5>2 DEF RecordHigh
      <4>3. CASE ~(~bLimitDebounce /\ cLimitCountHi' > cLimitHigh)
        <5>1. lPulses' = lPulses /\ bLimitDebounce' = bLimitDebounce
          BY <4>1, <4>3 DEF CountHigh
        <5>2. pulsesInRun' = pulsesInRun
          BY <4>1, <5>1 DEF RecordHigh
        <5> QED
          BY <5>1, <5>2
      <4> QED
        BY <4>2, <4>3
    <3>2. CASE ~(Sampled(raw) >= cLimit)
      BY <2>1, <3>2 DEF HSample, RecordLow
    <3> QED
      BY <3>1, <3>2
  <2>2. CASE HSettings
    BY <2>2 DEF HSettings, handleGeneralSettings, historyVars, detectorVars
  <2>3. CASE HSetup
    BY <2>3 DEF HSetup
  <2>4. CASE UNCHANGED allVars
    BY <2>4 DEF allVars, vars, detectorVars, historyVars
  <2> QED
    BY <2>1, <2>2, <2>3, <2>4 DEF HNext
<1> QED
  BY <1>1, <1>2, HistoryTypeCorrect, PTL DEF HSpec

\* One peak is one pulse, for every threshold the form accepts and whatever is
\* saved during the peak: the flag a pulse sets in addADCValueToBuffer is
\* cleared only in the branch of the low samples, which ends the run.
THEOREM PeakCountsOnce == HSpec => []OnePulsePerRun
<1>1. PeakInv => OnePulsePerRun
  BY DEF PeakInv
<1> QED
  BY <1>1, PeakInvariant, PTL

\* The run that has been counted still has bLimitDebounce set, which only the
\* branch of the low samples clears.
THEOREM CountedRunsAreHeld == HSpec => []CountedRunIsHeld
<1>1. PeakInv => CountedRunIsHeld
  BY DEF PeakInv
<1> QED
  BY <1>1, PeakInvariant, PTL

-----------------------------------------------------------------------------
\* No threshold is the largest char: the counters can exceed every threshold.
BelowWrap == Thresholds \subseteq 0 .. CharMod - 2

\* One sample keeps the counter that matters equal to the true run.
LEMMA TrackedStep ==
  ASSUME BelowWrap, HTypeOK, RunsTracked,
         NEW raw \in RawValues, HSample(raw)
  PROVE  RunsTracked'
<1> USE PulseCounterAssumption DEF HTypeOK
<1>1. cLimitHigh \in 0 .. CharMod - 2 /\ cLimitDebounce \in 0 .. CharMod - 2
  BY DEF BelowWrap, TypeOK
<1>2. CASE Sampled(raw) >= cLimit
  <2>1. CountHigh /\ RecordHigh
    BY <1>2 DEF HSample, addADCValueToBuffer
  <2>2. CASE bLimitDebounce
    BY <2>1, <2>2 DEF CountHigh, RecordHigh, RunsTracked
  <2>3. CASE ~bLimitDebounce
    <3>0. highRun = cLimitCountHi /\ highRun <= CharMod - 2
      BY <2>3 DEF RunsTracked
    <3>4. cLimitCountHi \in 0 .. CharMod - 1
      BY DEF TypeOK, Char
    <3>5. (cLimitCountHi + 1) % CharMod = cLimitCountHi + 1
      BY <3>0, <3>4, WrapStep
    <3>1. cLimitCountHi' = cLimitCountHi + 1 /\ highRun' = cLimitCountHi'
      BY <2>1, <3>0, <3>5 DEF CountHigh, RecordHigh
    <3>2. CASE cLimitCountHi' > cLimitHigh
      BY <2>1, <2>3, <3>2 DEF CountHigh, RecordHigh, RunsTracked
    <3>3. CASE ~(cLimitCountHi' > cLimitHigh)
      <4>1. bLimitDebounce' = bLimitDebounce
        BY <2>1, <3>3 DEF CountHigh
      <4>2. highRun' <= CharMod - 2
        BY <1>1, <3>0, <3>1, <3>3, <3>4
      <4> QED
        BY <2>3, <3>1, <4>1, <4>2 DEF RunsTracked
    <3> QED
      BY <3>2, <3>3
  <2> QED
    BY <2>2, <2>3
<1>3. CASE ~(Sampled(raw) >= cLimit)
  <2>1. CountLow /\ RecordLow
    BY <1>3 DEF HSample, addADCValueToBuffer
  <2>2. highRun' = cLimitCountHi' /\ highRun' <= CharMod - 2
    BY <2>1 DEF CountLow, RecordLow
  <2>3. CASE ~bLimitDebounce
    <3>1. ~bLimitDebounce'
      BY <2>1, <2>3 DEF CountLow
    <3> QED
      BY <2>2, <3>1 DEF RunsTracked
  <2>4. CASE bLimitDebounce
    <3>0. lowRun = cLimitCountLo /\ lowRun <= CharMod - 2
      BY <2>4 DEF RunsTracked
    <3>3. cLimitCountLo \in 0 .. CharMod - 1
      BY DEF TypeOK, Char
    <3>4. (cLimitCountLo + 1) % CharMod = cLimitCountLo + 1
      BY <3>0, <3>3, WrapStep
    <3>1. cLimitCountLo' = cLimitCountLo + 1 /\ lowRun' = cLimitCountLo'
      BY <2>1, <3>0, <3>4 DEF CountLow, RecordLow
    <3>5. bLimitDebounce' => cLimitCountLo' <= cLimitDebounce
      BY <2>1, Zenon DEF CountLow
    <3>6. cLimitCountLo' <= cLimitDebounce => lowRun' <= CharMod - 2
      BY <1>1, <3>0, <3>1, <3>3
    <3>2. bLimitDebounce' => lowRun' <= CharMod - 2
      BY <3>5, <3>6
    <3> QED
      BY <2>2, <3>1, <3>2 DEF RunsTracked
  <2> QED
    BY <2>3, <2>4
<1> QED
  BY <1>2, <1>3

\* The strengthening the refinement needs is an invariant.
THEOREM TrackedRuns == ASSUME BelowWrap PROVE HSpec => []RunsTracked
<1>1. HInit => RunsTracked
  BY PulseCounterAssumption DEF HInit, Init, RunsTracked
<1>2. HTypeOK /\ RunsTracked /\ [HNext]_allVars => RunsTracked'
  <2> SUFFICES ASSUME HTypeOK, RunsTracked, [HNext]_allVars PROVE RunsTracked'
    OBVIOUS
  <2>1. ASSUME NEW raw \in RawValues, HSample(raw) PROVE RunsTracked'
    BY <2>1, TrackedStep
  <2>2. CASE HSettings
    BY <2>2 DEF HSettings, handleGeneralSettings, historyVars, detectorVars,
                RunsTracked
  <2>3. CASE HSetup
    BY <2>3, PulseCounterAssumption DEF HSetup, setup, RunsTracked
  <2>4. CASE UNCHANGED allVars
    BY <2>4 DEF allVars, vars, detectorVars, historyVars, RunsTracked
  <2> QED
    BY <2>1, <2>2, <2>3, <2>4 DEF HNext
<1> QED
  BY <1>1, <1>2, HistoryTypeCorrect, PTL DEF HSpec

\* The sampler implements the abstract meter: with thresholds below the largest
\* char, addADCValueToBuffer registers a pulse exactly when the true high run
\* passes cLimitHigh and rearms exactly when the true low run passes
\* cLimitDebounce, although both of its counters wrap.
THEOREM SamplerImplementsMeter ==
  ASSUME BelowWrap PROVE HSpec => ImplementsMeter
<1>1. HInit => Meter!MeterInit
  BY DEF HInit, Init, Meter!MeterInit
<1>2. HTypeOK /\ RunsTracked /\ [HNext]_allVars
        => [Meter!MeterNext]_Meter!meterVars
  <2> SUFFICES ASSUME HTypeOK, RunsTracked, [HNext]_allVars
               PROVE  [Meter!MeterNext]_Meter!meterVars
    OBVIOUS
  <2>1. ASSUME NEW raw \in RawValues, HSample(raw)
        PROVE  Meter!HighSample \/ Meter!LowSample
    <3> USE PulseCounterAssumption
    <3>1. UNCHANGED <<cLimitHigh, cLimitDebounce>>
      BY <2>1 DEF HSample, addADCValueToBuffer, settingVars
    <3>2. /\ cLimitHigh \in Nat /\ cLimitDebounce \in Nat
          /\ cLimitCountHi \in 0 .. CharMod - 1
          /\ cLimitCountLo \in 0 .. CharMod - 1
      BY DEF HTypeOK, TypeOK, Char
    <3>3. CASE Sampled(raw) >= cLimit
      <4>1. CountHigh /\ RecordHigh
        BY <2>1, <3>3 DEF HSample, addADCValueToBuffer
      <4>2. highRun' = highRun + 1 /\ lowRun' = 0 /\ highRun \in Nat
        BY <4>1 DEF RecordHigh, HTypeOK
      <4>3. CASE bLimitDebounce
        <5>1. UNCHANGED <<lPulses, bLimitDebounce>>
          BY <4>1, <4>3 DEF CountHigh
        <5> QED
          BY <3>1, <4>2, <4>3, <5>1 DEF Meter!HighSample
      <4>4. CASE ~bLimitDebounce
        <5>1. highRun = cLimitCountHi /\ highRun <= CharMod - 2
          BY <4>4 DEF RunsTracked
        <5>2. (cLimitCountHi + 1) % CharMod = cLimitCountHi + 1
          BY <3>2, <5>1, WrapStep
        <5>3. cLimitCountHi' = highRun'
          BY <4>1, <4>2, <5>1, <5>2 DEF CountHigh
        <5>4. CASE highRun' > cLimitHigh
          <6>1. /\ lPulses' = (lPulses + 1) % UlongMod
                /\ bLimitDebounce' = TRUE
            BY <4>1, <4>4, <5>3, <5>4 DEF CountHigh
          <6>2. Meter!Register
            BY <4>4, <5>4, <6>1 DEF Meter!Register
          <6> QED
            BY <3>1, <4>2, <6>2 DEF Meter!HighSample
        <5>5. CASE ~(highRun' > cLimitHigh)
          <6>1. UNCHANGED <<lPulses, bLimitDebounce>>
            BY <4>1, <5>3, <5>5 DEF CountHigh
          <6>2. highRun' <= cLimitHigh
            BY <3>2, <4>2, <5>5
          <6> QED
            BY <3>1, <4>2, <6>1, <6>2 DEF Meter!HighSample
        <5> QED
          BY <5>4, <5>5
      <4> QED
        BY <4>3, <4>4
    <3>4. CASE ~(Sampled(raw) >= cLimit)
      <4>1. CountLow /\ RecordLow
        BY <2>1, <3>4 DEF HSample, addADCValueToBuffer
      <4>2. /\ highRun' = 0 /\ lowRun' = lowRun + 1 /\ lowRun \in Nat
            /\ lPulses' = lPulses
        BY <4>1 DEF CountLow, RecordLow, HTypeOK
      <4>3. (~bLimitDebounce') = (~bLimitDebounce \/ lowRun' > cLimitDebounce)
        <5>1. CASE ~bLimitDebounce
          BY <4>1, <5>1, Zenon DEF CountLow
        <5>2. CASE bLimitDebounce
          <6>1. lowRun = cLimitCountLo /\ lowRun <= CharMod - 2
            BY <5>2 DEF RunsTracked
          <6>2. (cLimitCountLo + 1) % CharMod = cLimitCountLo + 1
            BY <3>2, <6>1, WrapStep
          <6>3. cLimitCountLo' = lowRun'
            BY <4>1, <4>2, <6>1, <6>2 DEF CountLow
          <6>4. (cLimitCountLo' <= cLimitDebounce) <=> ~(lowRun' > cLimitDebounce)
            BY <3>2, <4>2, <6>3
          <6>5. bLimitDebounce' = (bLimitDebounce /\ cLimitCountLo' <= cLimitDebounce)
            BY <4>1, Zenon DEF CountLow
          <6>6. bLimitDebounce' <=> cLimitCountLo' <= cLimitDebounce
            BY <5>2, <6>5, Zenon
          <6>7. (~bLimitDebounce') <=> (lowRun' > cLimitDebounce)
            BY <6>4, <6>6, Zenon
          <6> QED
            BY <5>2, <6>7, Zenon
        <5> QED
          BY <5>1, <5>2
      <4> QED
        BY <3>1, <4>2, <4>3 DEF Meter!LowSample
    <3> QED
      BY <3>3, <3>4
  <2>2. ASSUME HSettings PROVE Meter!Configure
    BY <2>2 DEF HSettings, handleGeneralSettings, loadSettings, historyVars,
                detectorVars, Meter!Configure
  <2>3. ASSUME HSetup PROVE Meter!PowerCycle
    BY <2>3 DEF HSetup, setup, loadSettings, Meter!PowerCycle
  <2>4. ASSUME UNCHANGED allVars PROVE UNCHANGED Meter!meterVars
    BY <2>4 DEF allVars, vars, settingVars, detectorVars, historyVars,
                Meter!meterVars
  <2> QED
    BY <2>1, <2>2, <2>3, <2>4 DEF HNext, Meter!MeterNext
<1> QED
  BY <1>1, <1>2, HistoryTypeCorrect, TrackedRuns, PTL
  DEF HSpec, ImplementsMeter, Meter!MeterSpec

-----------------------------------------------------------------------------
\* The slot that is i slots behind position p of the ring.
Behind(p, i) == (p + iABufferSize - i) % iABufferSize

LEMMA BehindIs ==
  ASSUME NEW p \in Slots, NEW i \in 1 .. iABufferSize
  PROVE  /\ Behind(p, i) = IF i <= p THEN p - i ELSE p + iABufferSize - i
         /\ Behind(p, i) \in Slots
<1> USE PulseCounterAssumption DEF Slots
<1>1. CASE i <= p
  <2>1. p - i \in 0 .. iABufferSize - 1
    BY <1>1
  <2>2. (p - i + iABufferSize) % iABufferSize = p - i
    BY <2>1
  <2>3. p + iABufferSize - i = p - i + iABufferSize
    OBVIOUS
  <2> QED
    BY <1>1, <2>1, <2>2, <2>3 DEF Behind
<1>2. CASE ~(i <= p)
  <2>1. p + iABufferSize - i \in 0 .. iABufferSize - 1
    BY <1>2
  <2>2. (p + iABufferSize - i) % iABufferSize = p + iABufferSize - i
    BY <2>1
  <2> QED
    BY <1>2, <2>1, <2>2 DEF Behind
<1> QED
  BY <1>1, <1>2

\* The ring served as values.json is exactly the latest samples: iABufferPos++
\* of a char and its reset to 0 neither skip nor overwrite a slot early.
THEOREM RingIsRecent == HSpec => []RingHoldsRecent
<1>1. HInit => RingHoldsRecent
  <2> SUFFICES ASSUME HInit, NEW i \in 1 .. iABufferSize
               PROVE  cABuffer[Behind(iABufferPos, i)] = 0 /\ Len(recent) = 0
    BY PulseCounterAssumption DEF RingHoldsRecent, Behind
  <2>1. iABufferPos \in Slots
    BY PulseCounterAssumption DEF HInit, Init, Slots
  <2>2. Behind(iABufferPos, i) \in Slots
    BY <2>1, BehindIs
  <2> QED
    BY <2>2 DEF HInit, Init
<1>2. HTypeOK /\ RingHoldsRecent /\ [HNext]_allVars => RingHoldsRecent'
  <2> SUFFICES ASSUME HTypeOK, RingHoldsRecent, [HNext]_allVars
               PROVE  RingHoldsRecent'
    OBVIOUS
  <2>1. ASSUME NEW raw \in RawValues, HSample(raw) PROVE RingHoldsRecent'
    <3> DEFINE v == Sampled(raw)
               N == iABufferSize
    <3> SUFFICES ASSUME NEW i \in 1 .. N
                 PROVE  cABuffer'[Behind(iABufferPos', i)] =
                          IF i <= Len(recent') THEN recent'[Len(recent') + 1 - i]
                          ELSE 0
      BY DEF RingHoldsRecent, Behind
    <3> USE PulseCounterAssumption
    <3>1. /\ iABufferPos \in Slots /\ cABuffer \in [Slots -> Char]
          /\ recent \in Seq(Char) /\ Len(recent) <= N
          /\ v \in Char
      BY SampleRange DEF HTypeOK, TypeOK
    <3>2. /\ cABuffer' = [cABuffer EXCEPT ![iABufferPos] = v]
          /\ iABufferPos' = IF iABufferPos + 1 = N THEN 0 ELSE iABufferPos + 1
          /\ iABufferPos' \in Slots
          /\ recent' = Append(Latest(recent), v)
      BY <2>1, SampleRange DEF HSample, addADCValueToBuffer, HTypeOK
    <3>3. /\ Latest(recent) \in Seq(Char)
          /\ Len(Latest(recent)) = IF Len(recent) < N THEN Len(recent) ELSE N - 1
      <4>1. CASE Len(recent) < N
        BY <3>1, <4>1 DEF Latest
      <4>2. CASE Len(recent) = N
        <5>1. recent # << >>
          BY <3>1, <4>2
        <5>2. Tail(recent) \in Seq(Char) /\ Len(Tail(recent)) = Len(recent) - 1
          BY <3>1, <5>1
        <5> QED
          BY <4>2, <5>2 DEF Latest
      <4> QED
        BY <3>1, <4>1, <4>2
    <3>4. Len(recent') = Len(Latest(recent)) + 1 /\ recent' \in Seq(Char)
      BY <3>1, <3>2, <3>3
    <3>5. CASE i = 1
      <4>1. Behind(iABufferPos', i) = iABufferPos
        BY <3>1, <3>2, <3>5, BehindIs DEF Slots
      <4>2. cABuffer'[iABufferPos] = v
        BY <3>1, <3>2
      <4>3. recent'[Len(recent')] = v
        BY <3>1, <3>2, <3>3, <3>4
      <4> QED
        BY <3>3, <3>4, <3>5, <4>1, <4>2, <4>3
    <3>6. CASE i # 1
      <4> DEFINE j == i - 1
      <4>1. j \in 1 .. N /\ j < N
        BY <3>6
      <4>2. /\ Behind(iABufferPos', i) = Behind(iABufferPos, j)
            /\ Behind(iABufferPos, j) # iABufferPos
            /\ Behind(iABufferPos, j) \in Slots
        <5> DEFINE p == iABufferPos
                   q == iABufferPos'
        <5>1. p \in Slots /\ q \in Slots /\ (q = IF p + 1 = N THEN 0 ELSE p + 1)
          BY <3>1, <3>2
        <5>2. /\ Behind(q, i) = IF i <= q THEN q - i ELSE q + N - i
              /\ Behind(p, j) = IF j <= p THEN p - j ELSE p + N - j
              /\ Behind(p, j) \in Slots
          BY <4>1, <5>1, BehindIs
        <5> HIDE DEF p, q
        <5> QED
          BY <4>1, <5>1, <5>2 DEF Slots, p, q
      <4>3. cABuffer'[Behind(iABufferPos', i)] = cABuffer[Behind(iABufferPos, j)]
        BY <3>1, <3>2, <4>2
      <4>4. cABuffer[Behind(iABufferPos, j)] =
              IF j <= Len(recent) THEN recent[Len(recent) + 1 - j] ELSE 0
        BY <4>1 DEF RingHoldsRecent, Behind
      <4>5. CASE Len(recent) < N
        <5>1. Latest(recent) = recent /\ Len(recent') = Len(recent) + 1
          BY <3>3, <3>4, <4>5 DEF Latest
        <5>2. CASE j <= Len(recent)
          <6>1. Len(recent') + 1 - i = Len(recent) + 1 - j
            BY <3>1, <5>1
          <6>2. Len(recent) + 1 - j \in 1 .. Len(recent)
            BY <3>1, <4>1, <5>2
          <6>3. recent'[Len(recent') + 1 - i] = recent[Len(recent) + 1 - j]
            BY <3>1, <3>2, <5>1, <6>1, <6>2
          <6> QED
            BY <3>1, <4>3, <4>4, <5>1, <5>2, <6>3
        <5>3. CASE ~(j <= Len(recent))
          BY <3>1, <4>3, <4>4, <5>1, <5>3
        <5> QED
          BY <5>2, <5>3
      <4>6. CASE Len(recent) = N
        <5>1. Latest(recent) = Tail(recent) /\ Len(recent') = N
          BY <3>3, <3>4, <4>6 DEF Latest
        <5>2. Len(recent') + 1 - i \in 1 .. Len(Latest(recent))
          BY <3>3, <4>1, <4>6, <5>1
        <5>3. recent'[Len(recent') + 1 - i] = Tail(recent)[N + 1 - i]
          BY <3>1, <3>2, <3>3, <5>1, <5>2
        <5>4. Tail(recent)[N + 1 - i] = recent[N + 2 - i]
          BY <3>1, <3>3, <4>6, <5>1, <5>2
        <5> QED
          BY <3>1, <4>1, <4>3, <4>4, <4>6, <5>1, <5>3, <5>4
      <4> QED
        BY <3>1, <4>5, <4>6
    <3> QED
      BY <3>5, <3>6
  <2>2. CASE HSettings
    BY <2>2 DEF HSettings, handleGeneralSettings, historyVars, ringVars,
                RingHoldsRecent
  <2>3. CASE HSetup
    <3> SUFFICES ASSUME NEW i \in 1 .. iABufferSize
                 PROVE  cABuffer'[Behind(iABufferPos', i)] = 0 /\ Len(recent') = 0
      BY PulseCounterAssumption DEF RingHoldsRecent, Behind
    <3>1. iABufferPos' \in Slots
      BY <2>3, PulseCounterAssumption DEF HSetup, setup, Slots
    <3>2. Behind(iABufferPos', i) \in Slots
      BY <3>1, BehindIs
    <3> QED
      BY <2>3, <3>2 DEF HSetup, setup
  <2>4. CASE UNCHANGED allVars
    BY <2>4 DEF allVars, vars, ringVars, historyVars, RingHoldsRecent
  <2> QED
    BY <2>1, <2>2, <2>3, <2>4 DEF HNext
<1> QED
  BY <1>1, <1>2, HistoryTypeCorrect, PTL DEF HSpec
=============================================================================
