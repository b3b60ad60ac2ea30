----------------------------- MODULE WifiSetup -----------------------------
(***************************************************************************)
(* WiFiFunctions.ino: which networks the monitor sets up, the wait for the *)
(* station to connect, and the SETTINGS blocks on the heap that every path *)
(* has to free.  The radio runs on its own and changes the connection      *)
(* status whenever the loop yields, which in this module is the delay(500) *)
(* of the wait and the time between two requests.                          *)
(***************************************************************************)
EXTENDS MdnsResponder

CONSTANTS
  MaxWaits,    \* rounds of the wait, 30
  MaxBlocks    \* how many SETTINGS blocks the heap has room for

ASSUME WifiAssumption == MaxWaits \in Nat /\ MaxBlocks \in Nat

VARIABLES
  client, ap,      \* what the EEPROM holds: no valid record, or its use flag
  opmode,          \* the modes of the radio; like the next two, kept by the SDK
  softAP, station, \* what the access point and the station are configured with
  link, address,   \* wifi_station_get_connect_status and the address
  allocated,       \* the SETTINGS blocks allocated
  settingsAP, settingsClient,   \* connectToWiFi's, while it waits
  at,              \* setup, loop, a POST, or the caller of a wait
  cCount,          \* the rounds waited
  leaked           \* history: the blocks handleConnect has not freed

radioVars == <<opmode, softAP, station, link, address>>
heapVars == <<allocated, settingsAP, settingsClient, leaked>>
wifiVars == <<client, ap, radioVars, heapVars, at, cCount>>

Stored == {"none", "off", "on"}
Status == {"idle", "connecting", "noAp", "failed", "gotIp"}
Waiting == {"connectToWiFi", "handleConnect"}
-----------------------------------------------------------------------------
\* Mutant: begin switches the access point off instead of adding the station.
BeginModeAlone(mode) == {"sta"}
\* WiFi.begin adds the station to a radio that only is an access point.
BeginMode(mode) == IF "sta" \in mode THEN mode ELSE {"sta", "ap"}

\* It asks the SDK to connect; a station that is connected may stay where it is.
beginStation(mode) ==
  /\ opmode' = BeginMode(mode)
  /\ station' = "stored"
  /\ link' \in {link, "connecting"}
  /\ UNCHANGED address

\* Mutant: no defaults when nothing stored is to be used.
AccessPointUnlessOff(use) == IF use /\ ap = "on" THEN "stored" ELSE softAP
\* softAP with the stored record, or with the defaults in its place.
AccessPoint(use) == IF use /\ ap = "on" THEN "stored" ELSE "default"

Blocks == 1 .. MaxBlocks
Null == 0

\* The SETTINGS blocks in use, inUse, after malloc and after free.
malloc_settings(inUse) ==
  IF inUse = Blocks THEN Null ELSE CHOOSE block \in Blocks : block \notin inUse

Taken(inUse, block) == inUse \cup ({block} \ {Null})

\* Mutant: the test for NULL is the wrong way round.
cleanupSettingsNull(inUse, block) == IF block = Null THEN inUse \ {block} ELSE inUse
cleanupSettings(inUse, block) == inUse \ {block}

\* A block in which no valid record was found is freed again.
getWiFiSettings(inUse, stored) ==
  IF stored = "none" THEN Null ELSE malloc_settings(inUse)

getDefaultWiFiAPSettings(inUse) == malloc_settings(inUse)

getWiFiAPSettings(inUse) ==
  LET stored == getWiFiSettings(inUse, ap)
  IN  IF stored = Null THEN getDefaultWiFiAPSettings(inUse) ELSE stored

\* The chip starts again: the heap is new, the EEPROM and what the SDK keeps are
\* not.
resetChip ==
  /\ allocated' = {} /\ settingsAP' = Null /\ settingsClient' = Null /\ leaked' = {}
  /\ at' = "setup" /\ cCount' = 0
  /\ link' = "idle"
  /\ expected' = << >> /\ answer' = NoAddress /\ socket' = "none"
  /\ rx' = << >> /\ taken' = FALSE /\ replies' = 0 /\ heard' = << << >>, << >> >>
  /\ UNCHANGED <<client, ap, softAP, station, address>>

\* A loss of power.
reset == resetChip /\ UNCHANGED opmode

\* connectToWiFi up to its return, or up to the wait of connectToClientWiFi.
connectToWiFi ==
  LET forAP == getWiFiAPSettings(allocated)
      forClient == getWiFiSettings(Taken(allocated, forAP), client)
      held == Taken(Taken(allocated, forAP), forClient)
      bUseAP == forAP # Null /\ ap # "off"
      bUseClient == forClient # Null /\ client = "on"
      without == cleanupSettings(held, forAP)
      defaults == getDefaultWiFiAPSettings(without)
      return(inUse, block) ==
        /\ allocated' = cleanupSettings(cleanupSettings(inUse, forClient), block)
        /\ at' = "loop"
        /\ UNCHANGED <<client, ap, station, address, cCount, settingsAP,
                       settingsClient, leaked, mdnsVars>>
  IN  /\ at \in {"setup", "post"}
      /\ \/ /\ bUseClient
            /\ beginStation({"sta"} \cup (IF bUseAP THEN {"ap"} ELSE {}))
            /\ softAP' = IF bUseAP THEN AccessPoint(TRUE) ELSE softAP
            /\ allocated' = held
            /\ settingsAP' = forAP /\ settingsClient' = forClient
            /\ at' = "connectToWiFi" /\ cCount' = 0
            /\ UNCHANGED <<client, ap, leaked, mdnsVars>>
         \/ /\ ~bUseClient /\ bUseAP
            /\ opmode' = {"ap"} /\ link' = "idle"
            /\ softAP' = AccessPoint(TRUE)
            /\ return(held, forAP)
         \/ /\ ~bUseClient /\ ~bUseAP /\ defaults # Null
            /\ opmode' = {"ap"} /\ link' = "idle"
            /\ softAP' = AccessPoint(FALSE)
            /\ return(Taken(without, defaults), defaults)
         \/ /\ ~bUseClient /\ ~bUseAP /\ defaults = Null
            /\ opmode' = {"ap"}    \* the mode is set, then the NULL is used
            /\ resetChip

\* A POST to client.html or ap.html with a name and a password: the records are
\* stored, then connectToWiFi is called.
updateWiFiSettings(newClient, newAp) ==
  /\ at = "loop"
  /\ client' \in {client, newClient} /\ ap' \in {ap, newAp}
  /\ at' = "post"
  /\ UNCHANGED <<radioVars, heapVars, cCount, mdnsVars>>

\* Both pages hold one block while they are made.  A full heap gives them the
\* NULL of generateNewSettings, which is written through.
pageOnFullHeap == at = "loop" /\ allocated = Blocks /\ reset

\* connect.html: its block is never freed.
handleConnect ==
  LET settings == getWiFiSettings(allocated, client)
  IN  /\ at = "loop" /\ settings # Null
      /\ beginStation(opmode)
      /\ allocated' = Taken(allocated, settings)
      /\ leaked' = Taken(leaked, settings)
      /\ at' = "handleConnect" /\ cCount' = 0
      /\ UNCHANGED <<client, ap, softAP, settingsAP, settingsClient, mdnsVars>>

MayWait == link # "gotIp" /\ cCount < MaxWaits

\* Mutant: the count starts again in each round.
NextCountAfresh(count) == 0
NextCount(count) == count + 1

waitForConnection ==
  /\ at \in Waiting /\ MayWait
  /\ cCount' = NextCount(cCount)
  /\ UNCHANGED <<client, ap, radioVars, heapVars, at, mdnsVars>>

\* The end of connectToClientWiFi, with mdns.begin under the network's name when
\* the station is connected, and of its caller.
endWait ==
  /\ at \in Waiting /\ ~MayWait
  /\ \/ link = "gotIp" /\ \E n \in Names : begin(n, address)
     \/ link # "gotIp" /\ UNCHANGED mdnsVars
  /\ \/ /\ at = "connectToWiFi"
        /\ allocated' = cleanupSettings(cleanupSettings(allocated, settingsClient),
                                        settingsAP)
        /\ settingsAP' = Null /\ settingsClient' = Null
     \/ /\ at = "handleConnect"
        /\ UNCHANGED <<allocated, settingsAP, settingsClient>>
  /\ at' = "loop"
  /\ UNCHANGED <<client, ap, radioVars, cCount, leaked>>

\* The radio: a configured station connects, fails, or is given an address.
stationEvent(status, addr) ==
  /\ "sta" \in opmode /\ station = "stored"
  /\ link' = status
  /\ address' = IF status = "gotIp" THEN addr ELSE address
  /\ UNCHANGED <<client, ap, opmode, softAP, station, heapVars, at, cCount, mdnsVars>>

hearQuestion(d) == receive(d) /\ UNCHANGED wifiVars

WifiInit ==
  /\ MdnsInit
  /\ client = "none" /\ ap = "none"
  /\ opmode = {"ap"} /\ softAP = "factory" /\ station = "factory"
  /\ link = "idle" /\ address \in Addresses
  /\ allocated = {} /\ settingsAP = Null /\ settingsClient = Null /\ leaked = {}
  /\ at = "setup" /\ cCount = 0

WifiNext ==
  \/ connectToWiFi \/ handleConnect \/ waitForConnection \/ endWait
  \/ \E c, a \in Stored \ {"none"} : updateWiFiSettings(c, a)
  \/ \E s \in Status, a \in Addresses : stationEvent(s, a)
  \/ \E d \in Datagrams : hearQuestion(d)
  \/ pageOnFullHeap
  \/ reset

allWifiVars == <<wifiVars, mdnsVars>>

\* One loop task makes all these steps and keeps running; the radio, the network
\* and the users need not do anything.
WifiFairness ==
  WF_allWifiVars(connectToWiFi \/ waitForConnection \/ endWait)

WifiSpec == WifiInit /\ [][WifiNext]_allWifiVars /\ WifiFairness
-----------------------------------------------------------------------------
\* Every path of connectToWiFi frees what it allocated, over its defaults and its
\* wait: between requests only the blocks of connect.html are allocated, and
\* while it waits those it still points to, at most two, which are nobody else's.
\* So it takes requests to connect.html to fill the heap and reset the chip.
BlocksAccounted ==
  /\ at # "connectToWiFi" => allocated = leaked
  /\ at = "connectToWiFi" =>
       /\ {settingsAP, settingsClient} \subseteq allocated
       /\ settingsAP # settingsClient
       /\ leaked = allocated \ {settingsAP, settingsClient}

\* Whenever the loop runs there is a network over which to reach the monitor:
\* an access point of its own name, or a configured station.
NetworkIsSetUp ==
  at = "loop" => \/ "ap" \in opmode /\ softAP # "factory"
                 \/ "sta" \in opmode /\ station = "stored"

\* The access point is taken away only when the settings say so and name a
\* client network instead; connect.html, which starts a station, keeps it.
AccessPointStays ==
  [][ ("ap" \in opmode /\ "ap" \notin opmode') => ap = "off" /\ client = "on" ]_allWifiVars

\* Whatever the radio does, the wait for a connection ends and the loop goes on.
WaitEnds == at \in Waiting ~> at \notin Waiting
=============================================================================
