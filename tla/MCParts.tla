------------------------------ MODULE MCParts ------------------------------
(***************************************************************************)
(* Four components that share no state, each explored on its own: the      *)
(* allocation of the sample ring in setup(), the clock behind millis(),    *)
(* the serial port, and the WiFi setup with the mDNS responder.            *)
(***************************************************************************)
EXTENDS AdcBuffer, SystemClock, SerialPort, WifiSetup

VARIABLE part    \* the component that runs

vars == <<part, adcVars, clockVars, serialVars, allWifiVars>>

\* Heaps at setup(): one that is whole, one with a large hole, one in pieces; and
\* one in so many that nothing is found until the multiplier is 250, which is
\* followed by 14, and once more before 234 ends the loop.
Holes(size, count) == [size |-> size, count |-> count]

MCHeapShapes ==
  {<<Holes(40000, 1)>>, <<Holes(1290, 1), Holes(200, 1), Holes(90, 1)>>,
   <<Holes(250, 2), Holes(230, 2), Holes(200, 2)>>,
   <<Holes(100, 260), Holes(112, 2)>>}

\* The hypothesis of RingHasASlot holds of them.
ASSUME MCHeapsAreLarge == HeapsAreLarge

MCNames == {<<65, 98>>, <<97, 98, 99>>}      \* Ab and abc

\* A question for ab.local after two bytes of a header, of which the second
\* could begin the question; one datagram with questions for ABC.local and
\* ab.local; and one that stops in the middle.
AbQuestion == <<2, 97, 98, 5, 108, 111, 99, 97, 108, 0, 0, 1, 0, 1>>
MCDatagrams ==
  {<<0, 2>> \o AbQuestion,
   <<0, 3, 65, 66, 67, 5, 76, 79, 67, 65, 108, 0, 0, 1, 0, 1>> \o AbQuestion,
   <<2, 97>>}

\* The hypothesis of QuestionsAnswered holds of them.
ASSUME MCNamesStandOut == NamesStandOut

Init ==
  /\ AdcInit /\ ClockInit /\ SerialInit /\ WifiInit
  /\ part \in {"adc", "clock", "serial", "wifi"}
  /\ part # "adc" => holes = <<Holes(40000, 1)>>

AdcPart ==
  part = "adc" /\ AdcNext /\ UNCHANGED <<part, clockVars, serialVars, allWifiVars>>
ClockPart ==
  part = "clock" /\ ClockNext /\ UNCHANGED <<part, adcVars, serialVars, allWifiVars>>
SerialPart ==
  part = "serial" /\ SerialNext /\ UNCHANGED <<part, adcVars, clockVars, allWifiVars>>
WifiPart ==
  part = "wifi" /\ WifiNext /\ UNCHANGED <<part, adcVars, clockVars, serialVars>>

Next == AdcPart \/ ClockPart \/ SerialPart \/ WifiPart

\* The fairness of each component's own specification, while it is explored.
Fairness ==
  /\ part = "adc" => WF_adcVars(tryBuffer)
  /\ part = "serial" => SerialFairness
  /\ part = "wifi" => WifiFairness

Spec == Init /\ [][Next]_vars /\ Fairness

\* generateADCBuffer returns; see BufferIsFound.
AllocationEnds == part = "adc" => BufferIsFound
=============================================================================
