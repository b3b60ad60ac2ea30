SPECIFICATION MonitorSpec
CONSTANTS UlongMod = 3
ClockMod = 9
PushFreqs = {0, 3}
Factors = {1, 2}
CycleDelays = {1}
SampleDelay = 1
IdleDelay = 1
RequestTimes = {1}
ConnectTimes = {1}
Pulses = {0, 1}
INVARIANTS LightForSample
PROPERTIES PushesSpaced ToldFallsOnlyIf RequestServed SamplingGoesOn PushIsRetried
