---------------------------- MODULE MonitorProofs ----------------------------
(***************************************************************************)
(* Proofs about loop(): the light, the spacing of the pushes under a clock *)
(* that wraps, and what the server is told.  They hold for every range of  *)
(* millis() and of lPulses, and for all delays and settings.               *)
(***************************************************************************)
EXTENDS Monitor, TLAPS

LightInv ==
  /\ phase \in loopPhases
  /\ light \in BOOLEAN /\ bPowerMonEnabled \in BOOLEAN /\ bPulseLight \in BOOLEAN
  /\ LightForSample

LEMMA LightStep == LightInv /\ [MonitorNext]_monitorVars => LightInv'
<1> SUFFICES ASSUME LightInv, [MonitorNext]_monitorVars PROVE LightInv'
  OBVIOUS
<1> USE DEF LightInv, LightForSample, loopPhases
<1>1. CASE UNCHANGED monitorVars
  BY <1>1 DEF monitorVars, settingVars
<1>2. CASE noRequest
  BY <1>2 DEF noRequest, monitorOrNot, settingVars
<1>3. CASE \E t \in RequestTimes : serveRequest(t)
  <2> PICK t \in RequestTimes : serveRequest(t)
    BY <1>3
  <2>1. /\ phase' \in {"sample", "rest"}
        /\ bPowerMonEnabled' \in BOOLEAN /\ bPulseLight' \in BOOLEAN
    BY DEF serveRequest, monitorOrNot, settingVars
  <2>2. \/ phase' = "sample" /\ light' = TRUE
        \/ phase' = "rest" /\ light' = (light /\ ~bPulseLight')
    BY DEF serveRequest, monitorOrNot
  <2> QED
    BY <2>1, <2>2
<1>4. CASE \E p \in Pulses : sample(p)
  <2>1. /\ phase' = "rest" /\ light' = (light /\ ~bPulseLight)
        /\ bPowerMonEnabled' = bPowerMonEnabled /\ bPulseLight' = bPulseLight
    BY <1>4 DEF sample, settingVars
  <2> QED
    BY <2>1
<1>5. CASE rest
  BY <1>5 DEF rest, settingVars
<1>6. CASE \E c \in BOOLEAN, t \in ConnectTimes : push(c, t)
  BY <1>6 DEF push, AfterPush, settingVars
<1>7. CASE newRequest
  BY <1>7 DEF newRequest, settingVars
<1>8. CASE setup
  BY <1>8 DEF setup, settingVars
<1>9. CASE requestHangs \/ pushHangs
  BY <1>9 DEF requestHangs, pushHangs, settingVars
<1> HIDE DEF LightInv
<1> QED
  BY <1>1, <1>2, <1>3, <1>4, <1>5, <1>6, <1>7, <1>8, <1>9 DEF MonitorNext, loopStep

\* Every sample is taken under the light, and a pulsing light is dark between
\* them, whatever requests change in the middle.
THEOREM LightIsRight == MonitorSpec => []LightForSample
<1>1. MonitorInit => LightInv
  BY DEF MonitorInit, LightInv, LightForSample, loopPhases
<1>2. LightInv => LightForSample
  BY DEF LightInv
<1> QED
  BY <1>1, <1>2, LightStep, PTL DEF MonitorSpec
-----------------------------------------------------------------------------
(***************************************************************************)
(* The spacing of the pushes.                                              *)
(***************************************************************************)
After(now, t) == (now + t) % ClockMod
Longer(since, t) == IF since + t > MaxSince THEN MaxSince ELSE since + t
Seen(now, last, since) == Elapsed(now, last) <= since
Due(now, last, freq) == Elapsed(now, last) > freq

\* What millis() shows of the time since the last push is at most the true time,
\* and the monitor pushes only when it shows enough.
SpacedInv ==
  /\ ms \in 0 .. ClockMod - 1 /\ lLastConnectionTime \in 0 .. ClockMod - 1
  /\ sinceTold \in 0 .. MaxSince
  /\ iPushFreq \in PushFreqs /\ cPulseFreq \in CycleDelays
  /\ Seen(ms, lLastConnectionTime, sinceTold)
  /\ phase = "push" => Due(ms, lLastConnectionTime, iPushFreq)

LEMMA ElapsedIs ==
  ASSUME NEW m \in 0 .. ClockMod - 1, NEW l \in 0 .. ClockMod - 1
  PROVE  /\ m >= l => Elapsed(m, l) = m - l
         /\ m < l => Elapsed(m, l) = m - l + ClockMod
<1>1. ClockMod \in Nat \ {0}
  BY MonitorAssumption
<1>2. CASE m >= l
  <2>1. m - l \in 0 .. ClockMod - 1
    BY <1>1, <1>2
  <2>2. (m - l + ClockMod) % ClockMod = m - l
    BY <1>1, <2>1
  <2> QED
    BY <1>2, <2>2 DEF Elapsed
<1>3. CASE m < l
  <2>1. m - l + ClockMod \in 0 .. ClockMod - 1
    BY <1>1, <1>3
  <2>2. (m - l + ClockMod) % ClockMod = m - l + ClockMod
    BY <1>1, <2>1
  <2> QED
    BY <1>3, <2>2 DEF Elapsed
<1> QED
  BY <1>1, <1>2, <1>3

LEMMA RemainderIs ==
  ASSUME NEW a \in Nat
  PROVE  /\ a % ClockMod \in 0 .. ClockMod - 1
         /\ a < ClockMod => a % ClockMod = a
         /\ a >= ClockMod => a % ClockMod <= a - ClockMod
<1> DEFINE r == a % ClockMod
           q == a \div ClockMod
<1>1. ClockMod \in Nat \ {0}
  BY MonitorAssumption
<1>2. r \in 0 .. ClockMod - 1 /\ q \in Int /\ a = ClockMod * q + r
  BY <1>1
<1>3. a < ClockMod => r = a
  BY <1>1
<1> HIDE DEF r, q
<1>4. ASSUME a >= ClockMod PROVE r <= a - ClockMod
  <2>1. q >= 1
    <3> SUFFICES ASSUME q <= 0 PROVE FALSE
      BY <1>2
    <3>1. ClockMod * q <= 0
      BY <1>1, <1>2
    <3> QED
      BY <1>1, <1>2, <1>4, <3>1
  <2>2. ClockMod * q >= ClockMod
    BY <1>1, <1>2, <2>1
  <2> QED
    BY <1>1, <1>2, <2>2
<1> QED
  BY <1>2, <1>3, <1>4 DEF r

LEMMA AfterIs ==
  ASSUME NEW m \in 0 .. ClockMod - 1, NEW t \in Nat
  PROVE  /\ After(m, t) \in 0 .. ClockMod - 1
         /\ m + t < ClockMod => After(m, t) = m + t
         /\ m + t >= ClockMod => After(m, t) <= (m + t) - ClockMod
<1>1. m + t \in Nat
  BY MonitorAssumption
<1>2. /\ (m + t) % ClockMod \in 0 .. ClockMod - 1
      /\ m + t < ClockMod => (m + t) % ClockMod = m + t
      /\ m + t >= ClockMod => (m + t) % ClockMod <= (m + t) - ClockMod
  BY <1>1, RemainderIs
<1> QED
  BY <1>2, Zenon DEF After

LEMMA TimePasses ==
  ASSUME NEW m \in 0 .. ClockMod - 1, NEW l \in 0 .. ClockMod - 1,
         NEW s \in 0 .. MaxSince, NEW t \in Nat, Seen(m, l, s)
  PROVE  /\ After(m, t) \in 0 .. ClockMod - 1 /\ Longer(s, t) \in 0 .. MaxSince
         /\ Seen(After(m, t), l, Longer(s, t))
<1>1. ClockMod \in Nat \ {0} /\ MaxSince = ClockMod
  BY MonitorAssumption DEF MaxSince
<1> DEFINE n == After(m, t)
<1>2. n \in 0 .. ClockMod - 1 /\ (m + t < ClockMod => n = m + t)
      /\ (m + t >= ClockMod => n <= (m + t) - ClockMod)
  BY AfterIs
<1> HIDE DEF n
<1>3. /\ n >= l => Elapsed(n, l) = n - l
      /\ n < l => Elapsed(n, l) = n - l + ClockMod
  BY <1>2, ElapsedIs
<1>4. /\ m >= l => Elapsed(m, l) = m - l
      /\ m < l => Elapsed(m, l) = m - l + ClockMod
  BY ElapsedIs
<1>5. Elapsed(n, l) <= s + t /\ Elapsed(n, l) <= ClockMod
  BY <1>1, <1>2, <1>3, <1>4 DEF Seen
<1>6. Longer(s, t) \in 0 .. MaxSince /\ (Longer(s, t) = s + t \/ Longer(s, t) = ClockMod)
  BY <1>1 DEF Longer
<1>7. Seen(n, l, Longer(s, t))
  BY <1>5, <1>6 DEF Seen
<1> QED
  BY <1>2, <1>6, <1>7 DEF n

LEMMA NothingElapsed ==
  ASSUME NEW m \in 0 .. ClockMod - 1 PROVE Seen(m, m, 0)
<1>1. Elapsed(m, m) = 0
  BY ElapsedIs, MonitorAssumption
<1> QED
  BY <1>1 DEF Seen

LEMMA SpacedStart == MonitorInit => SpacedInv
<1> SUFFICES ASSUME MonitorInit PROVE SpacedInv
  OBVIOUS
<1>1. 0 \in 0 .. ClockMod - 1 /\ 0 \in 0 .. MaxSince
  BY MonitorAssumption DEF MaxSince
<1>2. Seen(0, 0, 0)
  BY <1>1, NothingElapsed
<1> QED
  BY <1>1, <1>2 DEF MonitorInit, SpacedInv

LEMMA SpacedStep == SpacedInv /\ [MonitorNext]_monitorVars => SpacedInv'
<1> SUFFICES ASSUME SpacedInv, [MonitorNext]_monitorVars PROVE SpacedInv'
  OBVIOUS
<1>1. ASSUME NEW t \in Nat, ms' = After(ms, t), sinceTold' = Longer(sinceTold, t),
             lLastConnectionTime' = lLastConnectionTime
      PROVE  /\ ms' \in 0 .. ClockMod - 1 /\ sinceTold' \in 0 .. MaxSince
             /\ lLastConnectionTime' \in 0 .. ClockMod - 1
             /\ Seen(ms', lLastConnectionTime', sinceTold')
  <2>1. /\ After(ms, t) \in 0 .. ClockMod - 1 /\ Longer(sinceTold, t) \in 0 .. MaxSince
        /\ Seen(After(ms, t), lLastConnectionTime, Longer(sinceTold, t))
    BY TimePasses DEF SpacedInv
  <2> QED
    BY <1>1, <2>1, Zenon DEF SpacedInv
<1>2. CASE UNCHANGED monitorVars \/ newRequest \/ noRequest \/ requestHangs \/ pushHangs
  <2>1. UNCHANGED <<ms, lLastConnectionTime, sinceTold, settingVars>>
        /\ (phase' = "push" => phase = "push")
    BY <1>2 DEF monitorVars, newRequest, noRequest, requestHangs, pushHangs, monitorOrNot
  <2> QED
    BY <2>1, Zenon DEF SpacedInv, settingVars
<1>3. CASE \E t \in RequestTimes : serveRequest(t)
  <2> PICK t \in RequestTimes : serveRequest(t)
    BY <1>3
  <2>1. t \in Nat /\ ms' = After(ms, t) /\ sinceTold' = Longer(sinceTold, t)
        /\ lLastConnectionTime' = lLastConnectionTime
    BY MonitorAssumption, Zenon DEF serveRequest, spend, After, Longer
  <2>2. iPushFreq' \in PushFreqs /\ cPulseFreq' \in CycleDelays /\ phase' # "push"
    BY DEF serveRequest, SpacedInv, settingVars, monitorOrNot
  <2> QED
    BY <1>1, <2>1, <2>2, Zenon DEF SpacedInv
<1>4. CASE \E p \in Pulses : sample(p)
  <2>1. SampleDelay \in Nat /\ ms' = After(ms, SampleDelay)
        /\ sinceTold' = Longer(sinceTold, SampleDelay)
        /\ lLastConnectionTime' = lLastConnectionTime
    BY <1>4, MonitorAssumption, Zenon DEF sample, spend, After, Longer
  <2>2. iPushFreq' = iPushFreq /\ cPulseFreq' = cPulseFreq /\ phase' # "push"
    BY <1>4 DEF sample, settingVars
  <2> QED
    BY <1>1, <2>1, <2>2, Zenon DEF SpacedInv
<1>5. CASE rest
  <2> DEFINE t == IF bPowerMonEnabled THEN cPulseFreq ELSE IdleDelay
  <2>1. t \in Nat
    BY MonitorAssumption DEF SpacedInv
  <2>2. ms' = After(ms, t) /\ sinceTold' = Longer(sinceTold, t)
        /\ lLastConnectionTime' = lLastConnectionTime
    BY <1>5, Zenon DEF rest, spend, After, Longer
  <2>3. iPushFreq' = iPushFreq /\ cPulseFreq' = cPulseFreq
        /\ (phase' = "push" => Due(ms', lLastConnectionTime, iPushFreq))
    BY <1>5, Zenon DEF rest, settingVars, PushDue, Due
  <2> QED
    BY <1>1, <2>1, <2>2, <2>3, Zenon DEF SpacedInv
<1>6. CASE \E c \in BOOLEAN, t \in ConnectTimes : push(c, t)
  <2> PICK c \in BOOLEAN, t \in ConnectTimes : push(c, t)
    BY <1>6
  <2>1. t \in Nat /\ ms' = After(ms, t)
    BY MonitorAssumption, Zenon DEF push, After
  <2>2. iPushFreq' = iPushFreq /\ cPulseFreq' = cPulseFreq /\ phase' # "push"
    BY DEF push, AfterPush, settingVars
  <2>3. CASE c
    <3>1. lLastConnectionTime' = ms' /\ sinceTold' = 0
      BY <2>3 DEF push, LastConnection
    <3>2. After(ms, t) \in 0 .. ClockMod - 1
      BY <2>1, AfterIs DEF SpacedInv
    <3>3. Seen(After(ms, t), After(ms, t), 0)
      BY <3>2, NothingElapsed
    <3>4. 0 \in 0 .. MaxSince
      BY MonitorAssumption DEF MaxSince
    <3> QED
      BY <2>1, <2>2, <3>1, <3>2, <3>3, <3>4, Zenon DEF SpacedInv
  <2>4. CASE ~c
    <3>1. lLastConnectionTime' = lLastConnectionTime /\ sinceTold' = Longer(sinceTold, t)
      BY <2>4, Zenon DEF push, LastConnection, Longer
    <3> QED
      BY <1>1, <2>1, <2>2, <3>1, Zenon DEF SpacedInv
  <2> QED
    BY <2>3, <2>4
<1>7. CASE setup
  <2>1. 0 \in 0 .. ClockMod - 1 /\ 0 \in 0 .. MaxSince
    BY MonitorAssumption DEF MaxSince
  <2>2. Seen(0, 0, 0)
    BY <2>1, NothingElapsed
  <2> QED
    BY <1>7, <2>1, <2>2 DEF setup, settingVars, SpacedInv
<1> QED
  BY <1>2, <1>3, <1>4, <1>5, <1>6, <1>7 DEF MonitorNext, loopStep

\* For every range of millis() two values reach the server more than iPushFreq
\* apart.
THEOREM PushesAreSpaced == MonitorSpec => PushesSpaced
<1>1. SpacedInv /\ [MonitorNext]_monitorVars
        => [lLastConnectionTime' # lLastConnectionTime /\ phase = "push"
              => sinceTold > iPushFreq]_monitorVars
  <2> SUFFICES ASSUME SpacedInv, phase = "push" PROVE sinceTold > iPushFreq
    OBVIOUS
  <2> DEFINE e == Elapsed(ms, lLastConnectionTime)
  <2>1. e <= sinceTold /\ e > iPushFreq
    BY DEF SpacedInv, Seen, Due
  <2>2. e \in Int
    BY ElapsedIs, MonitorAssumption DEF SpacedInv
  <2>3. sinceTold \in Int /\ iPushFreq \in Int
    BY MonitorAssumption DEF SpacedInv, MaxSince
  <2> HIDE DEF e
  <2> QED
    BY <2>1, <2>2, <2>3
<1> QED
  BY <1>1, SpacedStart, SpacedStep, PTL DEF MonitorSpec, PushesSpaced
-----------------------------------------------------------------------------
(***************************************************************************)
(* What the server is told.                                                *)
(***************************************************************************)
ToldInv ==
  /\ lPulses \in Nat /\ iPulseMultiFactor \in Nat
  /\ told.pulses \in Nat /\ told.factor \in Nat
  /\ told.value = (told.pulses * told.factor) % UlongMod

LEMMA ProductGrows ==
  ASSUME NEW p \in Nat, NEW f \in Nat, NEW p2 \in Nat, NEW f2 \in Nat, p2 >= p, f2 >= f
  PROVE  p2 * f2 >= p * f
<1>1. p2 * f2 >= p2 * f
  <2>1. p2 * (f2 - f) >= 0
    OBVIOUS
  <2>2. p2 * (f2 - f) = p2 * f2 - p2 * f
    OBVIOUS
  <2> QED
    BY <2>1, <2>2
<1>2. p2 * f >= p * f
  <2>1. (p2 - p) * f >= 0
    OBVIOUS
  <2>2. (p2 - p) * f = p2 * f - p * f
    OBVIOUS
  <2> QED
    BY <2>1, <2>2
<1> QED
  BY <1>1, <1>2

LEMMA ModBelow ==
  ASSUME NEW a \in Nat, NEW u \in Nat \ {0}
  PROVE  a % u \in Nat /\ a % u <= a /\ (a < u => a % u = a)
<1>1. a % u \in 0 .. u - 1 /\ (a < u => a % u = a)
  OBVIOUS
<1>2. a % u <= a
  BY <1>1
<1> QED
  BY <1>1, <1>2

LEMMA ToldStep == ToldInv /\ [MonitorNext]_monitorVars => ToldInv'
<1> SUFFICES ASSUME ToldInv, [MonitorNext]_monitorVars PROVE ToldInv'
  OBVIOUS
<1>1. CASE \E c \in BOOLEAN, t \in ConnectTimes : push(c, t)
  <2> PICK c \in BOOLEAN, t \in ConnectTimes : push(c, t)
    BY <1>1
  <2>1. lPulses' = lPulses /\ iPulseMultiFactor' = iPulseMultiFactor
    BY DEF push, settingVars
  <2>2. \/ told' = told
        \/ told' = [value |-> (lPulses * iPulseMultiFactor) % UlongMod,
                    pulses |-> lPulses, factor |-> iPulseMultiFactor]
    BY DEF push, PushedValue
  <2>3. CASE told' = told
    BY <2>1, <2>3, Zenon DEF ToldInv
  <2>4. CASE told' = [value |-> (lPulses * iPulseMultiFactor) % UlongMod,
                      pulses |-> lPulses, factor |-> iPulseMultiFactor]
    <3>1. told'.value = (lPulses * iPulseMultiFactor) % UlongMod
          /\ told'.pulses = lPulses /\ told'.factor = iPulseMultiFactor
      BY <2>4
    <3> QED
      BY <2>1, <3>1, Zenon DEF ToldInv
  <2> QED
    BY <2>2, <2>3, <2>4
<1>2. CASE \E p \in Pulses : sample(p)
  <2> PICK p \in Pulses : sample(p)
    BY <1>2
  <2>1. (lPulses + p) % UlongMod \in Nat
    <3>1. lPulses + p \in Nat
      BY MonitorAssumption DEF ToldInv
    <3> QED
      BY <3>1, ModBelow, MonitorAssumption
  <2>2. /\ lPulses' = (lPulses + p) % UlongMod /\ told' = told
        /\ iPulseMultiFactor' = iPulseMultiFactor
    BY DEF sample, settingVars
  <2> QED
    BY <2>1, <2>2, Zenon DEF ToldInv
<1>3. CASE setup \/ \E t \in RequestTimes : serveRequest(t)
  <2>1. lPulses' \in {lPulses, 0} /\ told' = told /\ iPulseMultiFactor' \in Nat
    BY <1>3, MonitorAssumption DEF setup, serveRequest, settingVars, ToldInv
  <2> QED
    BY <2>1 DEF ToldInv
<1>4. CASE \/ UNCHANGED monitorVars \/ noRequest \/ rest \/ newRequest
           \/ requestHangs \/ pushHangs
  <2>1. UNCHANGED <<lPulses, told, iPulseMultiFactor>>
    BY <1>4 DEF monitorVars, settingVars, noRequest, rest, newRequest, requestHangs, pushHangs
  <2> QED
    BY <2>1 DEF ToldInv
<1> QED
  BY <1>1, <1>2, <1>3, <1>4 DEF MonitorNext, loopStep

\* For every width of the register a value told is less than the one before only
\* after a reset, under a lower factor, or by a product that does not fit.
THEOREM ToldFallsAsStated == MonitorSpec => ToldFallsOnlyIf
<1> DEFINE Falls == told'.value < told.value
                      => \/ told'.pulses < told.pulses
                         \/ told'.factor < told.factor
                         \/ told'.pulses * told'.factor >= UlongMod
<1>1. ASSUME ToldInv, ToldInv' PROVE Falls
  <2>1. PICK p, f, v, p2, f2, v2 :
          /\ p = told.pulses /\ f = told.factor /\ v = told.value
          /\ p2 = told'.pulses /\ f2 = told'.factor /\ v2 = told'.value
    OBVIOUS
  <2>2. /\ p \in Nat /\ f \in Nat /\ v = (p * f) % UlongMod
        /\ p2 \in Nat /\ f2 \in Nat /\ v2 = (p2 * f2) % UlongMod
    BY <1>1, <2>1, Zenon DEF ToldInv
  <2>3. p * f \in Nat /\ p2 * f2 \in Nat
    BY <2>2
  <2>4. v <= p * f /\ (p2 * f2 < UlongMod => v2 = p2 * f2) /\ v \in Nat /\ v2 \in Nat
    BY <2>2, <2>3, ModBelow, MonitorAssumption
  <2>5. p2 >= p /\ f2 >= f => p2 * f2 >= p * f
    BY <2>2, ProductGrows
  <2>6. v2 < v => p2 < p \/ f2 < f \/ p2 * f2 >= UlongMod
    BY <2>2, <2>3, <2>4, <2>5, MonitorAssumption
  <2> QED
    BY <2>1, <2>6, Zenon
<1>2. ASSUME ToldInv, ToldInv' PROVE [Falls]_monitorVars
  BY <1>1, <1>2
<1>3. MonitorInit => ToldInv
  <2>1. 0 % UlongMod = 0 /\ 0 * 0 = 0
    BY MonitorAssumption
  <2> QED
    BY <2>1, MonitorAssumption DEF MonitorInit, ToldInv
<1> QED
  BY <1>2, <1>3, ToldStep, PTL DEF MonitorSpec, ToldFallsOnlyIf
=============================================================================
