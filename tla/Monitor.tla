------------------------------ MODULE Monitor ------------------------------
(***************************************************************************)
(* loop() of Main.ino and the push to the server of Other.ino.  One thread *)
(* serves requests, samples, drives the light and pushes; it gives way     *)
(* only in delays and while it waits for the network, and that is when     *)
(* requests arrive.  The server may be down whenever it is called, and two *)
(* calls may never return.  Time is millis(), which wraps; how long a step *)
(* may take is a constant.                                                 *)
(***************************************************************************)
EXTENDS Integers

CONSTANTS
  ClockMod,      \* the range of millis(), 2^32
  UlongMod,      \* the range of lPulses and of its product, 2^32
  PushFreqs,     \* values of iPushFreq*1000
  Factors,       \* values of iPulseMultiFactor
  CycleDelays,   \* values of cPulseFreq
  SampleDelay,   \* the delay(20) before a sample
  IdleDelay,     \* the delay(100) of a loop that does not sample
  RequestTimes,  \* how long a request takes, connectToWiFi included
  ConnectTimes,  \* how long client.connect takes, whatever it returns
  Pulses         \* what a sample may add to lPulses

ASSUME MonitorAssumption ==
  /\ UlongMod \in Nat \ {0} /\ ClockMod \in Nat \ {0}
  /\ PushFreqs \subseteq 0 .. ClockMod - 1 /\ Factors \subseteq Nat
  /\ CycleDelays \subseteq Nat /\ RequestTimes \subseteq Nat
  /\ ConnectTimes \subseteq Nat /\ SampleDelay \in Nat /\ IdleDelay \in Nat
  /\ Pulses \subseteq {0, 1}

VARIABLES
  phase,         \* where loop() is: see loopPhases
  ms,            \* millis()
  bPowerMonEnabled, bPulseLight, cPulseFreq, iPushFreq, iPulseMultiFactor,
  light,         \* the pin of the pulse light
  lPulses, lLastConnectionTime,
  request,       \* a request waits at the web server
  told,          \* history: the value of the last push, and what it was made of
  sinceTold      \* history: the true time since then, or since the reset

settingVars == <<bPowerMonEnabled, bPulseLight, cPulseFreq, iPushFreq,
                 iPulseMultiFactor>>
monitorVars == <<phase, ms, settingVars, light, lPulses, lLastConnectionTime,
                 request, told, sinceTold>>

loopPhases == {"handleClient", "sample", "rest", "push", "stuck"}
MaxSince == ClockMod   \* model bound: a longer time is not told from this one
-----------------------------------------------------------------------------
\* Time passes while the loop is in a delay, in a request or in connect.
spend(t) ==
  /\ ms' = (ms + t) % ClockMod
  /\ sinceTold' = IF sinceTold + t > MaxSince THEN MaxSince ELSE sinceTold + t

\* Mutant: the difference is taken of signed numbers.
ElapsedSigned(now, last) == now - last
\* millis() - lLastConnectionTime, in unsigned arithmetic.
Elapsed(now, last) == (now - last + ClockMod) % ClockMod

\* Mutant: a push falls due in the very millisecond.
PushDueAt(now) == Elapsed(now, lLastConnectionTime) >= iPushFreq
PushDue(now) == Elapsed(now, lLastConnectionTime) > iPushFreq

MonitorInit ==
  /\ phase = "handleClient" /\ ms = 0
  /\ bPowerMonEnabled \in BOOLEAN /\ bPulseLight \in BOOLEAN
  /\ cPulseFreq \in CycleDelays /\ iPushFreq \in PushFreqs
  /\ iPulseMultiFactor \in Factors
  /\ light = FALSE /\ lPulses = 0 /\ lLastConnectionTime = 0
  /\ request = FALSE
  /\ told = [value |-> 0, pulses |-> 0, factor |-> 0] /\ sinceTold = 0

\* Mutant: after a request the next one is waited for.
monitorOrNotServing(enabled, pulseLight) ==
  IF request THEN phase' = "handleClient" /\ UNCHANGED light
  ELSE IF enabled THEN phase' = "sample" /\ light' = TRUE
  ELSE phase' = "rest" /\ light' = (light /\ ~pulseLight)

\* Mutant: the light is left as it is.
monitorOrNotDark(enabled, pulseLight) ==
  /\ phase' = IF enabled THEN "sample" ELSE "rest"
  /\ light' = (light /\ ~pulseLight)

\* What follows server.handleClient: the light before the sample, or the light
\* off, about which bPulseLight decides without power monitoring too.
monitorOrNot(enabled, pulseLight) ==
  IF enabled THEN phase' = "sample" /\ light' = TRUE
             ELSE phase' = "rest" /\ light' = (light /\ ~pulseLight)

noRequest ==
  /\ phase = "handleClient" /\ ~request
  /\ monitorOrNot(bPowerMonEnabled, bPulseLight)
  /\ UNCHANGED <<ms, settingVars, lPulses, lLastConnectionTime, request,
                 told, sinceTold>>

\* One request: a page, connectToWiFi included, or new general settings.
serveRequest(t) ==
  /\ phase = "handleClient" /\ request
  /\ request' = FALSE /\ spend(t)
  /\ \/ UNCHANGED settingVars
     \/ /\ bPowerMonEnabled' \in BOOLEAN /\ bPulseLight' \in BOOLEAN
        /\ cPulseFreq' \in CycleDelays /\ iPushFreq' \in PushFreqs
        /\ iPulseMultiFactor' \in Factors
  /\ monitorOrNot(bPowerMonEnabled', bPulseLight')
  /\ UNCHANGED <<lPulses, lLastConnectionTime, told>>

\* handleClient does not return from a cut form, nor at once from a response that
\* runs behind its end: see RequestEnds in WebServer.  The request is not served.
requestHangs ==
  /\ phase = "handleClient" /\ request /\ phase' = "stuck"
  /\ UNCHANGED <<ms, settingVars, light, lPulses, lLastConnectionTime, request,
                 told, sinceTold>>

\* delay(20), addADCValueToBuffer, pulseLightOff.
sample(pulse) ==
  /\ phase = "sample" /\ phase' = "rest"
  /\ spend(SampleDelay)
  /\ lPulses' = (lPulses + pulse) % UlongMod
  /\ light' = (light /\ ~bPulseLight)
  /\ UNCHANGED <<settingVars, lLastConnectionTime, request, told>>

\* The delay of the cycle, then checkWhetherToPushData.
rest ==
  /\ phase = "rest"
  /\ spend(IF bPowerMonEnabled THEN cPulseFreq ELSE IdleDelay)
  /\ phase' = IF PushDue(ms') THEN "push" ELSE "handleClient"
  /\ UNCHANGED <<settingVars, light, lPulses, lLastConnectionTime, request,
                 told>>

\* Mutant: the pulses are added to what was told before.
PushedValueTotal(pulses, factor) == (pulses + told.value) % UlongMod
PushedValue(pulses, factor) == (pulses * factor) % UlongMod
LastConnection(now, connected) ==
  IF connected THEN now ELSE lLastConnectionTime

\* Mutant: a push that failed is made again at once.
AfterPushAgain(connected) == IF connected THEN "handleClient" ELSE "push"
AfterPush(connected) == "handleClient"

\* pushDataToServer: connect blocks until it has succeeded or failed.
push(connected, t) ==
  /\ phase = "push" /\ phase' = AfterPush(connected)
  /\ ms' = (ms + t) % ClockMod
  /\ lLastConnectionTime' = LastConnection(ms', connected)
  /\ IF connected
     THEN /\ told' = [value |-> PushedValue(lPulses, iPulseMultiFactor),
                      pulses |-> lPulses, factor |-> iPulseMultiFactor]
          /\ sinceTold' = 0
     ELSE /\ told' = told
          /\ sinceTold' = IF sinceTold + t > MaxSince THEN MaxSince ELSE sinceTold + t
  /\ UNCHANGED <<settingVars, light, lPulses, request>>

\* connect waits for a connection that tcp_connect has refused: see Refused in
\* TcpClient.
pushHangs ==
  /\ phase = "push" /\ phase' = "stuck"
  /\ UNCHANGED <<ms, settingVars, light, lPulses, lLastConnectionTime, request,
                 told, sinceTold>>

loopStep ==
  \/ noRequest \/ rest \/ requestHangs \/ pushHangs
  \/ \E t \in RequestTimes : serveRequest(t)
  \/ \E p \in Pulses : sample(p)
  \/ \E c \in BOOLEAN, t \in ConnectTimes : push(c, t)

\* A request arrives while the loop has given way.
newRequest ==
  /\ ~request /\ request' = TRUE
  /\ UNCHANGED <<phase, ms, settingVars, light, lPulses, lLastConnectionTime,
                 told, sinceTold>>

\* A reset: RAM is new, setup() loads what was saved.
setup ==
  /\ phase' = "handleClient" /\ ms' = 0
  /\ light' = FALSE /\ lPulses' = 0 /\ lLastConnectionTime' = 0
  /\ request' = FALSE /\ sinceTold' = 0
  /\ UNCHANGED <<settingVars, told>>

MonitorNext == loopStep \/ newRequest \/ setup

\* The loop task is always ready to run, and every call returns but the two that
\* leave it stuck; a reset is all that helps then, and nothing makes one come.
MonitorSpec ==
  MonitorInit /\ [][MonitorNext]_monitorVars /\ WF_monitorVars(loopStep)
-----------------------------------------------------------------------------
\* However millis() has wrapped since, two values reach the server more than
\* iPushFreq apart, and the first one that long after a reset.
PushesSpaced ==
  [][ lLastConnectionTime' # lLastConnectionTime /\ phase = "push"
        => sinceTold > iPushFreq ]_monitorVars

\* What the server is told only falls when lPulses did, in a reset or a wrap, when
\* the factor was lowered or when the product of both has wrapped: a failed push
\* leaves nothing behind that a later one would count again.
ToldFallsOnlyIf ==
  [][ told'.value < told.value
        => \/ told'.pulses < told.pulses
           \/ told'.factor < told.factor
           \/ told'.pulses * told'.factor >= UlongMod ]_monitorVars

\* A sample is taken under the light, which the meters with a disc need; and a
\* light that is to pulse is off again when the delay of the cycle begins, also
\* when the monitoring has just been switched off.
LightForSample ==
  /\ phase = "sample" => light
  /\ phase \in {"rest", "push"} /\ bPulseLight => ~light

\* A call has not returned and will not.
Stuck == phase = "stuck"

\* A request is served at the latest one cycle later, also when the server the
\* monitor pushes to is gone, unless a cut form or a refused connection has kept the
\* loop.
RequestServed == request ~> ~request \/ Stuck

\* The sampling goes on for as long as it is enabled: no push, request or
\* connection that ends stops it, however many requests there are, only resets
\* without end would, or a call that does not return.
ResetsStop == <>[][~setup]_monitorVars
SamplingGoesOn ==
  ResetsStop => []<>(phase = "sample" \/ ~bPowerMonEnabled \/ Stuck)

\* A push that fails is tried again and again: with no success for ever there is
\* always another attempt, also after millis() has caught up with the time of
\* the last success and the difference starts again from zero, unless a call does
\* not return.
PushIsRetried == ResetsStop => []<>(phase = "push" \/ Stuck)
=============================================================================
