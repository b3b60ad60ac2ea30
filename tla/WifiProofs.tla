----------------------------- MODULE WifiProofs -----------------------------
(***************************************************************************)
(* Proofs about connectToWiFi, the pages that call it, and the mDNS        *)
(* responder behind it: what is allocated, which networks there are, what  *)
(* is held of the traffic, and that each question in it is answered.  They *)
(* hold for every size of the heap and whatever the radio and the users    *)
(* do; the last holds for every name whose length is no byte of its        *)
(* question, the case the matcher of update() is made for.                 *)
(***************************************************************************)
EXTENDS WifiSetup, FiniteSetTheorems, SequenceTheorems, InductionLemmas, TLAPS

Places == {"setup", "loop", "post"} \cup Waiting

\* What connectToWiFi holds while it waits is exactly what it has allocated.
BlocksInv ==
  /\ allocated \subseteq Blocks /\ at \in Places
  /\ BlocksAccounted

NetworkInv ==
  /\ at \in Places
  /\ at \in {"loop", "post"} => \/ "ap" \in opmode /\ softAP # "factory"
                                \/ "sta" \in opmode /\ station = "stored"
  /\ at \in Waiting => "sta" \in opmode /\ station = "stored"

\* The first datagram is taken where it is, each later one frees the one before.
DatagramInv ==
  \/ rx = << >>
  \/ taken /\ (\E S : rx \in Seq(S)) /\ Len(rx) = 1 /\ rx[1] = heard[1]

LEMMA BlocksStart == WifiInit => BlocksInv
  BY DEF WifiInit, BlocksInv, BlocksAccounted, Places

LEMMA NoBlockIsNull == Null \notin Blocks
  BY WifiAssumption DEF Null, Blocks

\* malloc gives a block that is not in use, or NULL when all are.
LEMMA MallocGives ==
  ASSUME NEW inUse, inUse \subseteq Blocks
  PROVE  /\ inUse = Blocks => malloc_settings(inUse) = Null
         /\ inUse # Blocks => malloc_settings(inUse) \in Blocks \ inUse
<1>1. CASE inUse = Blocks
  BY <1>1 DEF malloc_settings
<1>2. CASE inUse # Blocks
  <2>1. \E block \in Blocks : block \notin inUse
    BY <1>2
  <2>2. malloc_settings(inUse) = CHOOSE block \in Blocks : block \notin inUse
    BY <1>2 DEF malloc_settings
  <2> QED
    BY <1>2, <2>1, <2>2
<1> QED
  BY <1>1, <1>2

LEMMA SettingsGiven ==
  ASSUME NEW inUse
  PROVE  /\ getWiFiAPSettings(inUse) = malloc_settings(inUse)
         /\ \A stored : \/ getWiFiSettings(inUse, stored) = Null
                        \/ getWiFiSettings(inUse, stored) = malloc_settings(inUse)
  BY DEF getWiFiAPSettings, getWiFiSettings, getDefaultWiFiAPSettings

\* The two blocks of a round of connectToWiFi, before and after they are freed.
LEMMA TwoBlocks ==
  ASSUME NEW inUse, inUse \subseteq Blocks, NEW stored
  PROVE  LET forAP == getWiFiAPSettings(inUse)
             forClient == getWiFiSettings(Taken(inUse, forAP), stored)
             held == Taken(Taken(inUse, forAP), forClient)
         IN  /\ held \subseteq Blocks
             /\ forAP = Null => inUse = Blocks /\ forClient = Null
             /\ forAP # Null => forAP \in held \ inUse
             /\ forClient # Null => forClient \in held \ inUse
             /\ forClient # Null => forClient # forAP
             /\ inUse = held \ {forAP, forClient}
<1> DEFINE x == getWiFiAPSettings(inUse)
           one == Taken(inUse, x)
           y == getWiFiSettings(one, stored)
           two == Taken(one, y)
<1>1. \/ x = Null /\ inUse = Blocks
      \/ x \in Blocks \ inUse /\ x # Null
  BY MallocGives, SettingsGiven, NoBlockIsNull
<1> HIDE DEF x
<1>2. one \subseteq Blocks /\ one = (IF x = Null THEN inUse ELSE inUse \cup {x})
  BY <1>1 DEF Taken
<1> HIDE DEF one
<1>3. \/ y = Null
      \/ y \in Blocks \ one /\ y # Null
  BY <1>2, MallocGives, SettingsGiven, NoBlockIsNull
<1>4. x = Null => y = Null
  BY <1>1, <1>2, MallocGives, SettingsGiven
<1> HIDE DEF y
<1>5. two = (IF y = Null THEN one ELSE one \cup {y})
  BY DEF Taken
<1> HIDE DEF two
<1>6. /\ two \subseteq Blocks
      /\ x = Null => inUse = Blocks /\ y = Null
      /\ x # Null => x \in two \ inUse
      /\ y # Null => y \in two \ inUse
      /\ y # Null => y # x
  BY <1>1, <1>2, <1>3, <1>4, <1>5
<1>7. inUse = two \ {x, y}
  <2>1. Null \notin inUse
    BY NoBlockIsNull
  <2> QED
    BY <1>1, <1>2, <1>3, <1>4, <1>5, <2>1
<1> QED
  BY <1>6, <1>7 DEF x, y, one, two

LEMMA BlocksStep == BlocksInv /\ [WifiNext]_allWifiVars => BlocksInv'
<1> SUFFICES ASSUME BlocksInv, [WifiNext]_allWifiVars PROVE BlocksInv'
  OBVIOUS
<1> USE DEF BlocksInv, BlocksAccounted, Places, Waiting
<1>1. ASSUME resetChip PROVE BlocksInv'
  BY <1>1 DEF resetChip
<1>2. CASE connectToWiFi /\ ~resetChip
  <2> DEFINE forAP == getWiFiAPSettings(allocated)
             forClient == getWiFiSettings(Taken(allocated, forAP), client)
             held == Taken(Taken(allocated, forAP), forClient)
             without == cleanupSettings(held, forAP)
             defaults == getDefaultWiFiAPSettings(without)
  <2>1. allocated \subseteq Blocks /\ allocated = leaked
    BY <1>2 DEF connectToWiFi
  <2>2. /\ held \subseteq Blocks
        /\ forAP = Null => allocated = Blocks /\ forClient = Null
        /\ forAP # Null => forAP \in held \ allocated
        /\ forClient # Null => forClient \in held \ allocated
        /\ forClient # Null => forClient # forAP
        /\ allocated = held \ {forAP, forClient}
    BY <2>1, TwoBlocks
  <2>3. CASE at' = "connectToWiFi"
    <3>1. /\ allocated' = held /\ settingsAP' = forAP /\ settingsClient' = forClient
          /\ forClient # Null /\ leaked' = leaked
      BY <1>2, <2>3, Zenon DEF connectToWiFi
    <3> HIDE DEF forAP, forClient, held
    <3> QED
      BY <2>1, <2>2, <2>3, <3>1
  <2>4. CASE at' # "connectToWiFi"
    <3>1. /\ at' = "loop" /\ leaked' = leaked
          /\ \/ allocated' = (held \ {forClient}) \ {forAP}
             \/ /\ defaults # Null
                /\ allocated' = (Taken(without, defaults) \ {forClient}) \ {defaults}
      BY <1>2, <2>4, Zenon DEF connectToWiFi, cleanupSettings
    <3>2. without = held \ {forAP}
      BY DEF cleanupSettings
    <3>3. defaults # Null => defaults \in Blocks \ without
      <4>1. without \subseteq Blocks
        BY <2>2, <3>2
      <4> HIDE DEF without
      <4> QED
        BY <4>1, MallocGives DEF getDefaultWiFiAPSettings
    <3> HIDE DEF forAP, forClient, held, without, defaults
    <3>4. allocated' = held \ {forAP, forClient}
      BY <3>1, <3>2, <3>3 DEF Taken
    <3> QED
      BY <2>1, <2>2, <2>4, <3>1, <3>4
  <2> QED
    BY <2>3, <2>4
<1>3. CASE handleConnect
  <2> DEFINE settings == getWiFiSettings(allocated, client)
  <2>1. settings \in Blocks /\ settings # Null
    BY <1>3, MallocGives, SettingsGiven, NoBlockIsNull DEF handleConnect
  <2>2. /\ allocated = leaked /\ allocated' = Taken(allocated, settings)
        /\ leaked' = Taken(leaked, settings) /\ at' = "handleConnect"
    BY <1>3 DEF handleConnect
  <2> HIDE DEF settings
  <2> QED
    BY <2>1, <2>2 DEF Taken
<1>4. CASE endWait
  <2>1. CASE at = "connectToWiFi"
    <3>1. /\ allocated' = (allocated \ {settingsClient}) \ {settingsAP}
          /\ at' = "loop" /\ leaked' = leaked
      BY <1>4, <2>1 DEF endWait, cleanupSettings
    <3> QED
      BY <2>1, <3>1
  <2>2. CASE at # "connectToWiFi"
    BY <1>4, <2>2 DEF endWait
  <2> QED
    BY <2>1, <2>2
<1>5. CASE waitForConnection
  BY <1>5 DEF waitForConnection, heapVars
<1>6. CASE \E c, a \in Stored \ {"none"} : updateWiFiSettings(c, a)
  BY <1>6 DEF updateWiFiSettings, heapVars
<1>7. CASE \E s \in Status, a \in Addresses : stationEvent(s, a)
  BY <1>7 DEF stationEvent, heapVars
<1>8. CASE \E d \in Datagrams : hearQuestion(d)
  BY <1>8 DEF hearQuestion, wifiVars, heapVars
<1>9. CASE UNCHANGED allWifiVars
  BY <1>9 DEF allWifiVars, wifiVars, heapVars
<1> HIDE DEF BlocksInv
<1> QED
  BY <1>1, <1>2, <1>3, <1>4, <1>5, <1>6, <1>7, <1>8, <1>9 DEF WifiNext, reset, pageOnFullHeap

\* For every size of the heap each path of connectToWiFi frees the blocks it
\* allocated, and only those; only connect.html keeps one.
THEOREM EveryPathFrees == WifiSpec => []BlocksAccounted
<1>1. WifiInit => BlocksInv
  BY BlocksStart
<1>2. BlocksInv => BlocksAccounted
  BY DEF BlocksInv
<1> QED
  BY <1>1, <1>2, BlocksStep, PTL DEF WifiSpec

LEMMA NetworkStep == NetworkInv /\ [WifiNext]_allWifiVars => NetworkInv'
<1> SUFFICES ASSUME NetworkInv, [WifiNext]_allWifiVars PROVE NetworkInv'
  OBVIOUS
<1> USE DEF NetworkInv, Places, Waiting
<1>1. ASSUME resetChip PROVE NetworkInv'
  BY <1>1 DEF resetChip
<1>2. CASE connectToWiFi /\ ~resetChip
  <2>1. CASE at' = "connectToWiFi"
    BY <1>2, <2>1 DEF connectToWiFi, beginStation, BeginMode
  <2>2. CASE at' = "loop"
    BY <1>2, <2>2 DEF connectToWiFi, AccessPoint
  <2> QED
    BY <1>2, <2>1, <2>2 DEF connectToWiFi
<1>3. CASE handleConnect
  BY <1>3 DEF handleConnect, beginStation, BeginMode
<1>4. CASE endWait
  BY <1>4 DEF endWait, radioVars
<1>5. CASE waitForConnection
  BY <1>5 DEF waitForConnection, radioVars
<1>6. CASE \E c, a \in Stored \ {"none"} : updateWiFiSettings(c, a)
  BY <1>6 DEF updateWiFiSettings, radioVars
<1>7. CASE \E s \in Status, a \in Addresses : stationEvent(s, a)
  BY <1>7 DEF stationEvent
<1>8. CASE \E d \in Datagrams : hearQuestion(d)
  BY <1>8 DEF hearQuestion, wifiVars, radioVars
<1>9. CASE UNCHANGED allWifiVars
  BY <1>9 DEF allWifiVars, wifiVars, radioVars
<1> HIDE DEF NetworkInv
<1> QED
  BY <1>1, <1>2, <1>3, <1>4, <1>5, <1>6, <1>7, <1>8, <1>9 DEF WifiNext, reset, pageOnFullHeap

\* Whenever the loop runs there is a network of the monitor's own choosing.
THEOREM AlwaysReachable == WifiSpec => []NetworkIsSetUp
<1>1. WifiInit => NetworkInv
  BY DEF WifiInit, NetworkInv, Places, Waiting
<1>2. NetworkInv => NetworkIsSetUp
  BY DEF NetworkInv, NetworkIsSetUp
<1> QED
  BY <1>1, <1>2, NetworkStep, PTL DEF WifiSpec

\* The access point goes only for a client network that takes its place.
THEOREM AccessPointKept == WifiSpec => AccessPointStays
<1>1. BlocksInv /\ [WifiNext]_allWifiVars
        => [("ap" \in opmode /\ "ap" \notin opmode') => ap = "off" /\ client = "on"]_allWifiVars
  <2> SUFFICES ASSUME BlocksInv, [WifiNext]_allWifiVars, "ap" \in opmode, "ap" \notin opmode'
               PROVE  ap = "off" /\ client = "on"
    OBVIOUS
  <2>1. opmode' # opmode
    OBVIOUS
  <2>2. ~handleConnect
    BY DEF handleConnect, beginStation, BeginMode
  <2>3. connectToWiFi
    BY <2>1, <2>2 DEF WifiNext, allWifiVars, wifiVars, radioVars, reset, pageOnFullHeap,
       waitForConnection, endWait, updateWiFiSettings, stationEvent, hearQuestion
  <2> DEFINE forAP == getWiFiAPSettings(allocated)
             forClient == getWiFiSettings(Taken(allocated, forAP), client)
             bUseAP == forAP # Null /\ ap # "off"
  <2>4. opmode' # {"ap"}
    OBVIOUS
  <2>5. /\ forClient # Null /\ client = "on"
        /\ opmode' = BeginMode({"sta"} \cup (IF bUseAP THEN {"ap"} ELSE {}))
    BY <2>3, <2>4, Zenon DEF connectToWiFi, beginStation
  <2>6. forAP # Null
    BY <2>5, TwoBlocks DEF BlocksInv
  <2>7. ~bUseAP
    BY <2>5 DEF BeginMode
  <2> QED
    BY <2>5, <2>6, <2>7
<1> QED
  BY <1>1, BlocksStart, BlocksStep, PTL DEF WifiSpec, AccessPointStays

\* connectToWiFi leaves the responder alone, or resets the chip.
LEMMA MdnsLeftAlone == connectToWiFi => resetChip \/ UNCHANGED mdnsVars
<1> SUFFICES ASSUME connectToWiFi PROVE resetChip \/ UNCHANGED mdnsVars
  OBVIOUS
<1> QED
  BY Zenon DEF connectToWiFi

LEMMA AppendOne ==
  ASSUME NEW d
  PROVE  LET s == Append(<< >>, d)
         IN  (\E S : s \in Seq(S)) /\ Len(s) = 1 /\ s[1] = d
<1> DEFINE s == Append(<< >>, d)
           S == {d}
<1>1. << >> \in Seq(S) /\ Len(<< >>) = 0 /\ d \in S
  OBVIOUS
<1> HIDE DEF S
<1>2. s \in Seq(S) /\ Len(s) = 1 /\ s[1] = d
  BY <1>1
<1> HIDE DEF s
<1>3. \E T : s \in Seq(T)
  BY <1>2
<1> QED
  BY <1>2, <1>3 DEF s

LEMMA SecondOfTwo ==
  ASSUME NEW S, NEW s \in Seq(S), Len(s) = 1, NEW d
  PROVE  LET t == Tail(Append(s, d))
         IN  (\E T : t \in Seq(T)) /\ Len(t) = 1 /\ t[1] = d
<1> DEFINE T == S \cup {d}
           a == Append(s, d)
<1>1. s \in Seq(T) /\ d \in T
  <2>1. \A i \in 1 .. Len(s) : s[i] \in T
    OBVIOUS
  <2> QED
    BY <2>1
<1>2. a \in Seq(T) /\ Len(a) = 2 /\ a[2] = d
  BY <1>1
<1> HIDE DEF a, T
<1>3. Tail(a) \in Seq(T) /\ Len(Tail(a)) = 1 /\ Tail(a)[1] = d
  BY <1>2
<1> QED
  BY <1>3 DEF a

LEMMA DatagramStep == DatagramInv /\ [WifiNext]_allWifiVars => DatagramInv'
<1> SUFFICES ASSUME DatagramInv, [WifiNext]_allWifiVars PROVE DatagramInv'
  OBVIOUS
<1> USE DEF DatagramInv
<1>1. CASE \E d \in Datagrams : hearQuestion(d)
  <2> PICK d \in Datagrams : receive(d)
    BY <1>1 DEF hearQuestion
  <2>1. taken' /\ heard' = <<d, expected>>
    BY DEF receive
  <2>2. CASE rx = << >>
    <3>1. rx' = Append(<< >>, d)
      BY <2>2 DEF receive, NextBuf
    <3> QED
      BY <2>1, <3>1, AppendOne
  <2>3. CASE rx # << >>
    <3>1. rx' = Tail(Append(rx, d))
      BY <2>3 DEF receive, NextBuf
    <3>2. PICK S : rx \in Seq(S) /\ Len(rx) = 1
      BY <2>3
    <3> QED
      BY <2>1, <3>1, <3>2, SecondOfTwo
  <2> QED
    BY <2>2, <2>3
<1>2. CASE resetChip
  BY <1>2 DEF resetChip
<1>3. CASE UNCHANGED <<rx, taken, heard>>
  BY <1>3
<1>4. CASE connectToWiFi \/ handleConnect \/ waitForConnection \/ UNCHANGED allWifiVars
           \/ (\E c, a \in Stored \ {"none"} : updateWiFiSettings(c, a))
           \/ (\E s \in Status, a \in Addresses : stationEvent(s, a))
  BY <1>2, <1>3, <1>4, MdnsLeftAlone DEF handleConnect, waitForConnection,
     updateWiFiSettings, stationEvent, allWifiVars, mdnsVars
<1>5. CASE endWait
  BY <1>3, <1>5 DEF endWait, begin, mdnsVars
<1> QED
  BY <1>1, <1>2, <1>4, <1>5 DEF WifiNext, reset, pageOnFullHeap

\* However much arrives on port 5353, one datagram is held.
THEOREM OneIsHeld == WifiSpec => []OneDatagramHeld
<1>1. WifiInit => DatagramInv
  BY DEF WifiInit, MdnsInit, DatagramInv
<1>2. DatagramInv => OneDatagramHeld
  BY DEF DatagramInv, OneDatagramHeld
<1> QED
  BY <1>1, <1>2, DatagramStep, PTL DEF WifiSpec
-----------------------------------------------------------------------------
(***************************************************************************)
(* The matcher of update().  It remembers one position, which is enough    *)
(* when the first byte of the question occurs nowhere else in it: then at  *)
(* most one occurrence can have begun and not ended.                       *)
(***************************************************************************)
StandsOut(question) ==
  /\ question \in Seq(Nat) /\ Len(question) >= 2
  /\ \A j \in 2 .. Len(question) : question[j] # question[1]

\* The first j bytes of the question are the last of the first i of f.
Begun(question, f, i, j) ==
  j <= i /\ \A m \in 1 .. j : f[i - j + m] = question[m]

\* Where the question occurs in the first i bytes of f.
Ended(question, f, i) ==
  {p \in 1 .. i : /\ p + Len(question) <= i + 1
                  /\ \A m \in 1 .. Len(question) : f[p + m - 1] = question[m]}

ScanState(question) == [index : 0 .. Len(question) - 1, found : Nat]

Matched(question, f, i, s) ==
  /\ Begun(question, f, i, s.index)
  /\ \A j \in 1 .. Len(question) - 1 : Begun(question, f, i, j) => j = s.index
  /\ IsFiniteSet(Ended(question, f, i))
  /\ s.found = Cardinality(Ended(question, f, i))

\* A byte more: what had begun goes on with it, or something begins.
LEMMA BegunMore ==
  ASSUME NEW Q, StandsOut(Q), NEW f, NEW i \in Nat, NEW j \in 1 .. Len(Q)
  PROVE  Begun(Q, f, i + 1, j) <=> Begun(Q, f, i, j - 1) /\ f[i + 1] = Q[j]
<1>1. Len(Q) \in Nat /\ j \in Nat /\ j >= 1
  BY DEF StandsOut
<1>2. ASSUME Begun(Q, f, i + 1, j)
      PROVE  Begun(Q, f, i, j - 1) /\ f[i + 1] = Q[j]
  <2>1. j <= i + 1 /\ \A m \in 1 .. j : f[i + 1 - j + m] = Q[m]
    BY <1>2 DEF Begun
  <2>2. f[i + 1] = Q[j]
    <3>1. j \in 1 .. j /\ i + 1 - j + j = i + 1
      BY <1>1
    <3> QED
      BY <2>1, <3>1
  <2>3. ASSUME NEW m \in 1 .. j - 1 PROVE f[i - (j - 1) + m] = Q[m]
    <3>1. m \in 1 .. j /\ i - (j - 1) + m = i + 1 - j + m
      BY <1>1
    <3> QED
      BY <2>1, <3>1
  <2>4. j - 1 <= i
    BY <1>1, <2>1
  <2> QED
    BY <2>2, <2>3, <2>4 DEF Begun
<1>3. ASSUME Begun(Q, f, i, j - 1), f[i + 1] = Q[j]
      PROVE  Begun(Q, f, i + 1, j)
  <2>1. j - 1 <= i /\ \A m \in 1 .. j - 1 : f[i - (j - 1) + m] = Q[m]
    BY <1>3 DEF Begun
  <2>2. ASSUME NEW m \in 1 .. j PROVE f[i + 1 - j + m] = Q[m]
    <3>1. CASE m = j
      <4>1. i + 1 - j + m = i + 1
        BY <1>1, <3>1
      <4> QED
        BY <1>3, <3>1, <4>1
    <3>2. CASE m # j
      <4>1. m \in 1 .. j - 1 /\ i - (j - 1) + m = i + 1 - j + m
        BY <1>1, <3>2
      <4> QED
        BY <2>1, <4>1
    <3> QED
      BY <3>1, <3>2
  <2>3. j <= i + 1
    BY <1>1, <2>1
  <2> QED
    BY <2>2, <2>3 DEF Begun
<1> QED
  BY <1>2, <1>3

\* An occurrence ends when the last byte of it has come.
LEMMA EndedMore ==
  ASSUME NEW Q, StandsOut(Q), NEW f, NEW i \in Nat
  PROVE  /\ Begun(Q, f, i + 1, Len(Q)) =>
              /\ Ended(Q, f, i + 1) = Ended(Q, f, i) \cup {i + 2 - Len(Q)}
              /\ i + 2 - Len(Q) \notin Ended(Q, f, i)
         /\ ~Begun(Q, f, i + 1, Len(Q)) => Ended(Q, f, i + 1) = Ended(Q, f, i)
<1> DEFINE q == Len(Q)
           At(p) == \A m \in 1 .. q : f[p + m - 1] = Q[m]
           last == i + 2 - q
<1>1. q \in Nat /\ q >= 2
  BY DEF StandsOut
<1>2. \A k \in Nat : Ended(Q, f, k) = {p \in 1 .. k : p + q <= k + 1 /\ At(p)}
  BY DEF Ended
<1>3. Begun(Q, f, i + 1, q) <=> last \in 1 .. i + 1 /\ At(last)
  <2>1. \A m \in 1 .. q : ((i + 1) - q) + m = last + m - 1
    BY <1>1
  <2>2. q <= i + 1 <=> last \in 1 .. i + 1
    BY <1>1
  <2>3. \A m \in 1 .. q : f[((i + 1) - q) + m] = f[last + m - 1]
    BY <2>1
  <2>4. Begun(Q, f, i + 1, q) <=> q <= i + 1 /\ \A m \in 1 .. q : f[((i + 1) - q) + m] = Q[m]
    BY Zenon DEF Begun
  <2> HIDE DEF last, q
  <2> QED
    BY <2>2, <2>3, <2>4
<1> HIDE DEF q, At
<1>4. ASSUME NEW p
      PROVE  (p \in 1 .. i + 1 /\ p + q <= i + 1 + 1)
               <=> (p \in 1 .. i /\ p + q <= i + 1) \/ (p = last /\ last \in 1 .. i + 1)
  BY <1>1
<1>5. ~(last + q <= i + 1) /\ i + 1 \in Nat
  BY <1>1
<1> HIDE DEF last
<1>6. ASSUME NEW p
      PROVE  p \in Ended(Q, f, i + 1)
               <=> p \in Ended(Q, f, i) \/ (p = last /\ Begun(Q, f, i + 1, q))
  BY <1>2, <1>3, <1>4, <1>5
<1>7. last \notin Ended(Q, f, i)
  BY <1>2, <1>5
<1>8. /\ Begun(Q, f, i + 1, q) => Ended(Q, f, i + 1) = Ended(Q, f, i) \cup {last}
      /\ ~Begun(Q, f, i + 1, q) => Ended(Q, f, i + 1) = Ended(Q, f, i)
  BY <1>6
<1> QED
  BY <1>7, <1>8 DEF last, q

LEMMA ScanStepMatches ==
  ASSUME NEW Q, StandsOut(Q), NEW f, NEW i \in Nat, NEW s \in ScanState(Q),
         Matched(Q, f, i, s), NEW b, Lower(b) = f[i + 1]
  PROVE  /\ ScanStep(Q, s, b) \in ScanState(Q)
         /\ Matched(Q, f, i + 1, ScanStep(Q, s, b))
<1> DEFINE q == Len(Q)
           k == s.index
           c == f[i + 1]
           t == ScanStep(Q, s, b)
           E == Ended(Q, f, i)
           E2 == Ended(Q, f, i + 1)
<1>1. q \in Nat /\ q >= 2 /\ k \in 0 .. q - 1 /\ s.found \in Nat
      /\ \A j \in 2 .. q : Q[j] # Q[1]
  BY DEF StandsOut, ScanState
<1>2. /\ Begun(Q, f, i, k) /\ IsFiniteSet(E) /\ s.found = Cardinality(E)
      /\ \A j \in 1 .. q - 1 : Begun(Q, f, i, j) => j = k
  BY DEF Matched
<1>3. \A j \in 1 .. q : Begun(Q, f, i + 1, j) <=> Begun(Q, f, i, j - 1) /\ c = Q[j]
  <2> TAKE j \in 1 .. Len(Q)
  <2>1. Begun(Q, f, i + 1, j) <=> Begun(Q, f, i, j - 1) /\ f[i + 1] = Q[j]
    BY BegunMore
  <2> QED
    BY <2>1
<1>4. Begun(Q, f, i, 0) /\ Begun(Q, f, i + 1, 0)
  BY DEF Begun
<1>5. /\ Begun(Q, f, i + 1, q) => /\ E2 = E \cup {i + 2 - q}
                                  /\ i + 2 - q \notin E
      /\ ~Begun(Q, f, i + 1, q) => E2 = E
  BY EndedMore
<1>6. t = CASE c = Q[k + 1] /\ k + 1 = q -> [index |-> 0, found |-> s.found + 1]
            [] c = Q[k + 1] /\ k + 1 # q -> [s EXCEPT !.index = k + 1]
            [] c # Q[k + 1] /\ c = Q[1] -> [s EXCEPT !.index = 1]
            [] OTHER -> [s EXCEPT !.index = 0]
  BY DEF ScanStep
<1>7. \A n \in 0 .. q - 1 : /\ [s EXCEPT !.index = n] \in ScanState(Q)
                            /\ [s EXCEPT !.index = n].index = n
                            /\ [s EXCEPT !.index = n].found = s.found
  BY DEF ScanState
<1> HIDE DEF q, k, c, t, E, E2
\* What has begun after the byte.
<1>8. ASSUME NEW j \in 1 .. q - 1, Begun(Q, f, i + 1, j)
      PROVE  c = Q[j] /\ (j = 1 \/ j = k + 1)
  <2>1. j \in 1 .. q /\ (j = 1 \/ j - 1 \in 1 .. q - 1)
    BY <1>1
  <2>2. Begun(Q, f, i, j - 1) /\ c = Q[j]
    BY <1>3, <1>8, <2>1
  <2>3. j = 1 \/ j - 1 = k
    BY <1>2, <2>1, <2>2
  <2> QED
    BY <1>1, <2>2, <2>3
<1>9. Begun(Q, f, i + 1, q) <=> k + 1 = q /\ c = Q[k + 1]
  <2>1. q \in 1 .. q /\ q - 1 \in 1 .. q - 1
    BY <1>1
  <2>2. Begun(Q, f, i + 1, q) <=> Begun(Q, f, i, q - 1) /\ c = Q[q]
    BY <1>3, <2>1
  <2>3. Begun(Q, f, i, q - 1) <=> q - 1 = k
    BY <1>2, <2>1
  <2>4. q - 1 = k <=> k + 1 = q
    BY <1>1
  <2> QED
    BY <2>2, <2>3, <2>4
<1>10. CASE c = Q[k + 1] /\ k + 1 = q
  <2> DEFINE u == [index |-> 0, found |-> s.found + 1]
  <2>1. t = u
    BY <1>6, <1>10
  <2>2. u \in ScanState(Q) /\ u.index = 0 /\ u.found = s.found + 1
    BY <1>1 DEF ScanState, q
  <2>3. IsFiniteSet(E2) /\ Cardinality(E2) = Cardinality(E) + 1
    BY <1>2, <1>5, <1>9, <1>10, FS_AddElement
  <2>4. ASSUME NEW j \in 1 .. q - 1, Begun(Q, f, i + 1, j) PROVE FALSE
    <3>1. c = Q[j] /\ (j = 1 \/ j = k + 1)
      BY <1>8, <2>4
    <3>2. q \in 2 .. q /\ j # q
      BY <1>1
    <3> QED
      BY <1>1, <1>10, <3>1, <3>2
  <2> HIDE DEF u
  <2> QED
    BY <1>2, <1>4, <2>1, <2>2, <2>3, <2>4 DEF Matched, q, t, E2
<1> DEFINE Moves(n) == /\ ~(c = Q[k + 1] /\ k + 1 = q)
                       /\ t = [s EXCEPT !.index = n] /\ Begun(Q, f, i + 1, n)
                       /\ \A j \in 1 .. q - 1 : Begun(Q, f, i + 1, j) => j = n
<1>11. ASSUME NEW n \in 0 .. q - 1, Moves(n)
       PROVE  t \in ScanState(Q) /\ Matched(Q, f, i + 1, t)
  <2>1. t \in ScanState(Q) /\ t.index = n /\ t.found = s.found
    BY <1>7, <1>11
  <2>2. E2 = E
    BY <1>5, <1>9, <1>11
  <2> QED
    BY <1>2, <1>11, <2>1, <2>2 DEF Matched, E, E2, q
<1>12. CASE c = Q[k + 1] /\ k + 1 # q
  <2>1. k + 1 \in 1 .. q - 1 /\ k + 1 \in 0 .. q - 1 /\ k + 1 \in 1 .. q /\ (k + 1) - 1 = k
    BY <1>1, <1>12
  <2>2. t = [s EXCEPT !.index = k + 1]
    BY <1>6, <1>12
  <2>3. Begun(Q, f, i + 1, k + 1)
    <3> DEFINE j == k + 1
    <3>0. j \in 1 .. q /\ j - 1 = k
      BY <2>1
    <3>00. c = Q[j]
      BY <1>12, Zenon
    <3>1. j \in 1 .. q /\ j - 1 = k /\ c = Q[j]
      BY <3>0, <3>00
    <3> HIDE DEF j
    <3>2. Begun(Q, f, i, j - 1)
      BY <1>2, <3>1
    <3>3. Begun(Q, f, i + 1, j)
      BY <1>3, <3>1, <3>2
    <3> QED
      BY <3>3 DEF j
  <2>4. ASSUME NEW j \in 1 .. q - 1, Begun(Q, f, i + 1, j) PROVE j = k + 1
    <3>1. c = Q[j] /\ (j = 1 \/ j = k + 1)
      BY <1>8, <2>4
    <3>2. k + 1 = 1 \/ k + 1 \in 2 .. q
      BY <1>1, <2>1
    <3> QED
      BY <1>1, <1>12, <3>1, <3>2
  <2>5. Moves(k + 1)
    BY <1>12, <2>2, <2>3, <2>4
  <2> HIDE DEF Moves
  <2> QED
    BY <1>11, <2>1, <2>5 DEF t
<1>13. CASE c # Q[k + 1] /\ c = Q[1]
  <2>1. 1 \in 0 .. q - 1 /\ 1 \in 1 .. q /\ 1 - 1 = 0
    BY <1>1
  <2>2. t = [s EXCEPT !.index = 1]
    BY <1>6, <1>13
  <2>3. Begun(Q, f, i + 1, 1)
    BY <1>3, <1>4, <1>13, <2>1
  <2>4. ASSUME NEW j \in 1 .. q - 1, Begun(Q, f, i + 1, j) PROVE j = 1
    BY <1>8, <1>13, <2>4
  <2>5. Moves(1)
    BY <1>13, <2>2, <2>3, <2>4
  <2> HIDE DEF Moves
  <2> QED
    BY <1>11, <2>1, <2>5 DEF t
<1>14. CASE c # Q[k + 1] /\ c # Q[1]
  <2>1. 0 \in 0 .. q - 1
    BY <1>1
  <2>2. t = [s EXCEPT !.index = 0]
    BY <1>6, <1>14
  <2>3. ASSUME NEW j \in 1 .. q - 1, Begun(Q, f, i + 1, j) PROVE j = 0
    BY <1>8, <1>14, <2>3
  <2>4. Moves(0)
    BY <1>4, <1>14, <2>2, <2>3
  <2> HIDE DEF Moves
  <2> QED
    BY <1>11, <2>1, <2>4 DEF t
<1> QED
  BY <1>10, <1>12, <1>13, <1>14 DEF t

LEMMA ScanStepType ==
  ASSUME NEW Q, StandsOut(Q), NEW s \in ScanState(Q), NEW b
  PROVE  ScanStep(Q, s, b) \in ScanState(Q)
<1> DEFINE q == Len(Q)
           k == s.index
           c == Lower(b)
           t == ScanStep(Q, s, b)
<1>1. q \in Nat /\ q >= 2 /\ k \in 0 .. q - 1 /\ s.found \in Nat
  BY DEF StandsOut, ScanState
<1>2. t = CASE c = Q[k + 1] /\ k + 1 = q -> [index |-> 0, found |-> s.found + 1]
            [] c = Q[k + 1] /\ k + 1 # q -> [s EXCEPT !.index = k + 1]
            [] c # Q[k + 1] /\ c = Q[1] -> [s EXCEPT !.index = 1]
            [] OTHER -> [s EXCEPT !.index = 0]
  BY DEF ScanStep
<1>3. \A n \in 0 .. q - 1 : [s EXCEPT !.index = n] \in ScanState(Q)
  BY DEF ScanState
<1>4. [index |-> 0, found |-> s.found + 1] \in ScanState(Q)
  BY <1>1 DEF ScanState
<1> HIDE DEF q, k, c, t
<1>5. 0 \in 0 .. q - 1 /\ 1 \in 0 .. q - 1 /\ (k + 1 # q => k + 1 \in 0 .. q - 1)
  BY <1>1
<1>6. CASE c = Q[k + 1] /\ k + 1 = q
  <2>1. t = [index |-> 0, found |-> s.found + 1]
    BY <1>2, <1>6
  <2> QED
    BY <1>4, <2>1 DEF t
<1>7. CASE c = Q[k + 1] /\ k + 1 # q
  <2>1. t = [s EXCEPT !.index = k + 1]
    BY <1>2, <1>7
  <2> QED
    BY <1>3, <1>5, <1>7, <2>1 DEF t
<1>8. CASE c # Q[k + 1] /\ c = Q[1]
  <2>1. t = [s EXCEPT !.index = 1]
    BY <1>2, <1>8
  <2> QED
    BY <1>3, <1>5, <2>1 DEF t
<1>9. CASE c # Q[k + 1] /\ c # Q[1]
  <2>1. t = [s EXCEPT !.index = 0]
    BY <1>2, <1>9
  <2> QED
    BY <1>3, <1>5, <2>1 DEF t
<1> QED
  BY <1>6, <1>7, <1>8, <1>9

\* However long a datagram is, the matcher finds each occurrence that ends in it.
LEMMA ScanMatches ==
  ASSUME NEW Q, StandsOut(Q), NEW bytes \in Seq(Nat), NEW f,
         \A i \in 1 .. Len(bytes) : f[i] = Lower(bytes[i])
  PROVE  Scan(Q, bytes) = Cardinality(Ended(Q, f, Len(bytes)))
<1> DEFINE N == Len(bytes)
           A == ScanState(Q)
           base == [index |-> 0, found |-> 0]
           Solves(g) == g = [i \in 0 .. N |-> IF i = 0 THEN base
                                              ELSE ScanStep(Q, g[i - 1], bytes[i])]
<1>1. N \in Nat
  OBVIOUS
<1>2. base \in A /\ base.index = 0 /\ base.found = 0
  BY DEF ScanState, StandsOut
<1>3. Matched(Q, f, 0, base)
  <2>1. Begun(Q, f, 0, 0)
    BY DEF Begun
  <2>2. ASSUME NEW j \in 1 .. Len(Q) - 1 PROVE ~Begun(Q, f, 0, j)
    BY DEF Begun, StandsOut
  <2>3. Ended(Q, f, 0) = {}
    BY DEF Ended
  <2>4. IsFiniteSet({}) /\ Cardinality({}) = 0
    BY FS_EmptySet
  <2> HIDE DEF base
  <2> QED
    BY <1>2, <2>1, <2>2, <2>3, <2>4 DEF Matched
<1>4. Scan(Q, bytes) = (CHOOSE g : Solves(g))[N].found
  BY DEF Scan
<1>5. \A s \in A : \A b : ScanStep(Q, s, b) \in A
  BY ScanStepType
<1> HIDE DEF N, A, base
<1>6. \E g : Solves(g)
  <2> DEFINE step == [p \in (1 .. N) \X A |-> ScanStep(Q, p[2], bytes[p[1]])]
  <2>1. step \in [(1 .. N) \X A -> A]
    BY <1>5
  <2>2. ASSUME NEW k \in 1 .. N, NEW s \in A PROVE step[<<k, s>>] = ScanStep(Q, s, bytes[k])
    OBVIOUS
  <2> HIDE DEF step
  <2>3. PICK g \in [0 .. N -> A] : StepsFrom(g, base, step, N)
    BY <1>1, <1>2, <2>1, RecursionExists
  <2>4. ASSUME NEW k \in 0 .. N
        PROVE  g[k] = IF k = 0 THEN base ELSE ScanStep(Q, g[k - 1], bytes[k])
    <3>1. CASE k = 0
      BY <2>3, <3>1 DEF StepsFrom
    <3>2. CASE k # 0
      <4>1. k \in 1 .. N /\ k - 1 \in 0 .. N
        BY <1>1, <3>2
      <4>2. g[k] = step[<<k, g[k - 1]>>] /\ g[k - 1] \in A
        BY <2>3, <4>1 DEF StepsFrom
      <4>3. step[<<k, g[k - 1]>>] = ScanStep(Q, g[k - 1], bytes[k])
        BY <2>2, <4>1, <4>2
      <4> QED
        BY <3>2, <4>2, <4>3
    <3> QED
      BY <3>1, <3>2
  <2>5. g = [k \in 0 .. N |-> g[k]]
    BY <2>3
  <2>6. Solves(g)
    BY <2>4, <2>5
  <2> HIDE DEF Solves
  <2> QED
    BY <2>6
<1>7. ASSUME NEW g, Solves(g) PROVE Matched(Q, f, N, g[N])
  <2> DEFINE S == {k \in Nat : k <= N => g[k] \in A /\ Matched(Q, f, k, g[k])}
  <2>1. ASSUME NEW k \in 0 .. N
        PROVE  g[k] = IF k = 0 THEN base ELSE ScanStep(Q, g[k - 1], bytes[k])
    BY <1>7
  <2> HIDE DEF Solves
  <2>2. 0 \in S
    <3>1. 0 \in 0 .. N
      BY <1>1
    <3>2. g[0] = base
      BY <2>1, <3>1
    <3> QED
      BY <1>2, <1>3, <3>2
  <2>3. ASSUME NEW k \in Nat, k \in S PROVE k + 1 \in S
    <3> SUFFICES ASSUME k + 1 <= N PROVE g[k + 1] \in A /\ Matched(Q, f, k + 1, g[k + 1])
      OBVIOUS
    <3>1. k + 1 \in 0 .. N /\ k + 1 # 0 /\ (k + 1) - 1 = k /\ k <= N /\ k + 1 \in 1 .. N
      BY <1>1
    <3>2. g[k] \in A /\ Matched(Q, f, k, g[k])
      BY <2>3, <3>1
    <3> DEFINE s == g[k]
               b == bytes[k + 1]
    <3>3. g[k + 1] = ScanStep(Q, s, b)
      BY <2>1, <3>1
    <3>4. Lower(b) = f[k + 1]
      BY <3>1 DEF N
    <3>5. s \in ScanState(Q) /\ Matched(Q, f, k, s)
      BY <3>2 DEF A
    <3> HIDE DEF s, b
    <3>6. ScanStep(Q, s, b) \in ScanState(Q) /\ Matched(Q, f, k + 1, ScanStep(Q, s, b))
      BY <3>4, <3>5, ScanStepMatches
    <3> QED
      BY <3>3, <3>6 DEF A
  <2> HIDE DEF S
  <2>4. \A k \in Nat : k \in S
    BY <2>2, <2>3, SetInduction
  <2> QED
    BY <1>1, <2>4 DEF S
<1> HIDE DEF Solves
<1>8. Matched(Q, f, N, (CHOOSE g : Solves(g))[N])
  <2>1. Solves(CHOOSE g : Solves(g))
    BY <1>6
  <2> QED
    BY <1>7, <2>1
<1> QED
  BY <1>4, <1>8 DEF Matched, N

\* What update() counts is what it should answer.
LEMMA ScanAnswers ==
  ASSUME NEW Q, StandsOut(Q), NEW bytes \in Seq(Nat)
  PROVE  Scan(Q, bytes) = Cardinality(Occurrences(Q, bytes))
<1> DEFINE q == Len(Q)
           N == Len(bytes)
           f == [i \in 1 .. N |-> Lower(bytes[i])]
<1>1. q \in Nat /\ q >= 2 /\ N \in Nat
  BY DEF StandsOut
<1>2. DOMAIN bytes = 1 .. N
  OBVIOUS
<1>3. f \in Seq(Nat) /\ Len(f) = N /\ DOMAIN f = 1 .. N
  <2>1. \A i \in 1 .. N : Lower(bytes[i]) \in Nat
    <3> TAKE i \in 1 .. N
    <3> DEFINE b == bytes[i]
    <3>1. b \in Nat
      OBVIOUS
    <3> HIDE DEF b
    <3>2. Lower(b) \in Nat
      BY <3>1 DEF Lower
    <3> QED
      BY <3>2 DEF b
  <2>2. f \in [1 .. N -> Nat]
    BY <2>1
  <2> HIDE DEF N, f
  <2> QED
    BY <1>1, <2>2
<1>4. \A i \in 1 .. N : f[i] = Lower(bytes[i])
  OBVIOUS
<1>5. Occurrences(Q, bytes)
        = {i \in DOMAIN f : i + q <= Len(f) + 1 /\ SubSeq(f, i, i + (q - 1)) = Q}
  <2>1. f = [i \in DOMAIN bytes |-> Lower(bytes[i])]
    BY <1>2
  <2> HIDE DEF f
  <2> QED
    BY <2>1, Zenon DEF Occurrences
<1>6. Scan(Q, bytes) = Cardinality(Ended(Q, f, N))
  <2> HIDE DEF f
  <2> QED
    BY <1>4, ScanMatches
<1> HIDE DEF q, N, f
<1>7. ASSUME NEW i \in 1 .. N, i + q <= N + 1
      PROVE  SubSeq(f, i, i + (q - 1)) = Q <=> \A m \in 1 .. q : f[i + (m - 1)] = Q[m]
  <2> DEFINE e == i + (q - 1)
             t == SubSeq(f, i, e)
  <2>1. e \in Nat /\ i <= e /\ e <= N /\ (e - i) + 1 = q
    BY <1>1, <1>7
  <2> HIDE DEF e
  <2>2. t \in Seq(Nat) /\ Len(t) = q /\ \A m \in 1 .. q : t[m] = f[i + (m - 1)]
    BY <1>1, <1>3, <2>1
  <2>3. Q \in Seq(Nat) /\ Len(Q) = q
    BY DEF StandsOut, q
  <2> HIDE DEF t
  <2>4. t = Q <=> \A m \in 1 .. q : t[m] = Q[m]
    BY <1>1, <2>2, <2>3, SeqEqual
  <2>5. t = SubSeq(f, i, i + (q - 1))
    BY DEF t, e
  <2> QED
    BY <2>2, <2>4, <2>5
<1>8. Occurrences(Q, bytes) = Ended(Q, f, N)
  <2>1. Ended(Q, f, N) = {i \in 1 .. N : i + q <= N + 1 /\ \A m \in 1 .. q : f[i + (m - 1)] = Q[m]}
    BY DEF Ended, q
  <2> QED
    BY <1>3, <1>5, <1>7, <2>1
<1> QED
  BY <1>6, <1>8

Questions == {Question(n) : n \in Names}

\* What the socket listens for is a question, and so is what was answered last.
AnswerInv ==
  /\ DatagramInv
  /\ socket = "open" => expected \in Questions
  /\ rx # << >> => /\ heard[1] \in Datagrams /\ heard[2] \in Questions
                   /\ replies = Scan(heard[2], heard[1])

LEMMA WiderSeq ==
  ASSUME NEW S, NEW T, S \subseteq T, NEW s \in Seq(S)
  PROVE  s \in Seq(T)
<1>1. \A i \in 1 .. Len(s) : s[i] \in T
  OBVIOUS
<1> QED
  BY <1>1

LEMMA BytesAreNumbers == ASSUME NEW s \in Seq(0 .. 255) PROVE s \in Seq(Nat)
<1>1. 0 .. 255 \subseteq Nat
  OBVIOUS
<1> QED
  BY <1>1, WiderSeq

LEMMA QuestionsStandOut ==
  ASSUME NamesStandOut, NEW Q \in Questions
  PROVE  StandsOut(Q)
<1> PICK n \in Names : Q = Question(n)
  BY DEF Questions
<1> DEFINE letters == [i \in DOMAIN n |-> Lower(n[i])]
           local == <<5, 108, 111, 99, 97, 108, 0, 0, 1, 0, 1>>
           size == <<Len(n)>>
<1>1. n \in Seq(Nat) /\ Len(n) \in Nat /\ Len(n) >= 2 /\ DOMAIN n = 1 .. Len(n)
  <2>1. n \in Seq(0 .. 255) /\ Len(n) \in 2 .. 255
    BY MdnsAssumption, Zenon
  <2>2. n \in Seq(Nat)
    BY <2>1, BytesAreNumbers
  <2> DEFINE k == Len(n)
  <2>3. k \in 2 .. 255
    BY <2>1
  <2> HIDE DEF k
  <2>4. k >= 2
    BY <2>3
  <2> QED
    BY <2>2, <2>4 DEF k
<1>2. letters \in Seq(Nat) /\ Len(letters) = Len(n)
  <2> DEFINE N == Len(n)
  <2>1. ASSUME NEW i \in 1 .. N PROVE Lower(n[i]) \in Nat
    <3> DEFINE b == n[i]
    <3>0. n \in Seq(Nat) /\ i \in 1 .. Len(n)
      BY <1>1
    <3>1. b \in Nat
      BY <3>0
    <3> HIDE DEF b
    <3>2. Lower(b) \in Nat
      BY <3>1 DEF Lower
    <3> QED
      BY <3>2 DEF b
  <2>2. letters \in [1 .. N -> Nat]
    BY <1>1, <2>1
  <2>3. N \in Nat
    BY <1>1
  <2> HIDE DEF N, letters
  <2>4. letters \in Seq(Nat) /\ Len(letters) = N
    BY <2>2, <2>3
  <2> QED
    BY <2>4 DEF N
<1>3. size \in Seq(Nat) /\ Len(size) = 1
  BY <1>1
<1>4. local \in Seq(Nat)
  OBVIOUS
<1>5. Q = (size \o letters) \o local
  BY DEF Question
<1> HIDE DEF letters, local, size
<1> DEFINE front == size \o letters
<1>6. front \in Seq(Nat) /\ Len(front) = 1 + Len(n)
  <2>1. front \in Seq(Nat) /\ Len(front) = Len(size) + Len(letters)
    BY <1>2, <1>3, ConcatProperties
  <2> QED
    BY <1>2, <1>3, <2>1
<1> HIDE DEF front
<1>7. Q \in Seq(Nat) /\ Len(Q) = Len(front) + Len(local) /\ Len(local) \in Nat
  <2>1. front \o local \in Seq(Nat) /\ Len(front \o local) = Len(front) + Len(local)
    BY <1>4, <1>6, SMTT(40)
  <2>2. Q = front \o local
    BY <1>5 DEF front
  <2>3. Len(local) \in Nat
    BY <1>4
  <2> QED
    BY <2>1, <2>2, <2>3
<1>8. Len(Q) >= 2
  BY <1>1, <1>6, <1>7
<1>9. \A j \in 2 .. Len(Q) : Q[j] # Q[1]
  BY DEF NamesStandOut
<1> QED
  BY <1>7, <1>8, <1>9 DEF StandsOut

LEMMA AnswerStep == AnswerInv /\ [WifiNext]_allWifiVars => AnswerInv'
<1> SUFFICES ASSUME AnswerInv, [WifiNext]_allWifiVars PROVE AnswerInv'
  OBVIOUS
<1>0. DatagramInv /\ DatagramInv'
  BY DatagramStep DEF AnswerInv
<1> USE DEF AnswerInv
<1>1. CASE \E d \in Datagrams : hearQuestion(d)
  <2> PICK d \in Datagrams : receive(d)
    BY <1>1 DEF hearQuestion
  <2>1. /\ heard' = <<d, expected>> /\ expected' = expected /\ socket' = socket
        /\ socket = "open" /\ replies' = Scan(expected, Head(rx'))
        /\ (rx' # << >> => rx'[1] = heard'[1])
    BY <1>0 DEF receive, DatagramInv
  <2>2. heard'[1] = d /\ heard'[2] = expected
    BY <2>1
  <2>3. ASSUME rx' # << >> PROVE Head(rx') = d
    <3>0. (\E S : rx' \in Seq(S)) /\ Len(rx') = 1
      BY <1>0, <2>3 DEF DatagramInv
    <3>1. Head(rx') = rx'[1]
      BY <3>0
    <3> QED
      BY <2>1, <2>2, <2>3, <3>1
  <2>4. expected \in Questions
    BY <2>1
  <2>5. socket' = "open" => expected' \in Questions
    BY <2>1, <2>4
  <2>6. rx' # << >> => replies' = Scan(heard'[2], heard'[1])
    BY <2>1, <2>2, <2>3
  <2> QED
    BY <1>0, <2>2, <2>4, <2>5, <2>6
<1>2. CASE resetChip
  BY <1>0, <1>2 DEF resetChip, MdnsInit
<1>3. CASE UNCHANGED mdnsVars
  BY <1>0, <1>3 DEF mdnsVars
<1>4. CASE connectToWiFi \/ handleConnect \/ waitForConnection \/ UNCHANGED allWifiVars
           \/ (\E c, a \in Stored \ {"none"} : updateWiFiSettings(c, a))
           \/ (\E s \in Status, a \in Addresses : stationEvent(s, a))
  BY <1>2, <1>3, <1>4, MdnsLeftAlone DEF handleConnect, waitForConnection,
     updateWiFiSettings, stationEvent, allWifiVars
<1>5. CASE endWait
  <2>1. CASE UNCHANGED mdnsVars
    BY <1>3, <2>1
  <2>2. CASE \E n \in Names : begin(n, address)
    <3> PICK n \in Names : begin(n, address)
      BY <2>2
    <3>1. /\ expected' = Question(n) /\ UNCHANGED <<rx, replies, heard>>
      BY DEF begin
    <3>2. expected' \in Questions
      BY <3>1 DEF Questions
    <3> QED
      BY <1>0, <3>1, <3>2
  <2> QED
    BY <1>5, <2>1, <2>2 DEF endWait
<1> QED
  BY <1>1, <1>2, <1>4, <1>5 DEF WifiNext, reset, pageOnFullHeap

\* Whatever the name, as long as its length is no byte of the question, and
\* whatever the datagrams: each is answered as often as it holds the question.
THEOREM QuestionsAnswered ==
  ASSUME NamesStandOut
  PROVE  WifiSpec => []EachQuestionAnswered
<1>1. WifiInit => AnswerInv
  BY DEF WifiInit, MdnsInit, AnswerInv, DatagramInv
<1>2. AnswerInv => EachQuestionAnswered
  <2> SUFFICES ASSUME AnswerInv, rx # << >>
               PROVE  replies = Cardinality(Occurrences(heard[2], heard[1]))
    BY DEF EachQuestionAnswered
  <2>1. heard[1] \in Seq(Nat)
    <3> PICK d \in Datagrams : d = heard[1]
      BY DEF AnswerInv
    <3>1. d \in Seq(0 .. 255)
      BY MdnsAssumption, Zenon
    <3>3. d \in Seq(Nat)
      BY <3>1, BytesAreNumbers
    <3> QED
      BY <3>3
  <2>2. StandsOut(heard[2])
    BY QuestionsStandOut DEF AnswerInv
  <2>3. Scan(heard[2], heard[1]) = Cardinality(Occurrences(heard[2], heard[1]))
    BY <2>1, <2>2, ScanAnswers
  <2> QED
    BY <2>3 DEF AnswerInv
<1> QED
  BY <1>1, <1>2, AnswerStep, PTL DEF WifiSpec
=============================================================================
