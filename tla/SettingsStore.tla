--------------------------- MODULE SettingsStore ---------------------------
(***************************************************************************)
(* The settings of the monitor and how they are kept: the globals the loop *)
(* runs on, the RAM copy of the EEPROM, the flash sector behind it, and    *)
(* the web forms that change them.  A save is a list of field writes, each *)
(* followed by its own commit, which erases the sector and programs it     *)
(* again.  The loop serves one request at a time, so nothing but a loss of *)
(* power comes between two writes.                                         *)
(***************************************************************************)
EXTENDS EepromImage, TLC

CONSTANTS
  Requests,      \* the arguments of the POSTs, functions of setting names
  StackTails,    \* what may follow cPlaceholder[0] in memory, up to a NUL
  CutPoints,     \* how much of a sector may be programmed when it is cut off
  FactoryFlash,  \* the contents of the flash before the first power-up
  MaxFaults      \* model bound: failed commits and cut-off ones

VARIABLES
  data, dirty,   \* EEPROMClass: _data and _dirty
  flash,         \* the sector
  settings,      \* the globals
  serving,       \* the page whose POST is being served
  todo,          \* the writes that POST still has to make
  faults         \* model bound

vars == <<data, dirty, flash, settings, serving, todo, faults>>

-----------------------------------------------------------------------------
\* Mutant: a password field that reaches into the flags behind it.
TextLayoutOverlaps == [
  clientSsid |-> <<0, 16>>, clientPassword |-> <<16, 16>>,
  apSsid |-> <<33, 16>>, apPassword |-> <<49, 18>>,
  cPulseFreq |-> <<67, 2>>, iPulseMultiFactor |-> <<69, 6>>,
  cLimit |-> <<75, 2>>, cLimitHigh |-> <<77, 2>>, cLimitDebounce |-> <<79, 2>>,
  sPushURL |-> <<81, 40>>, sPushArg |-> <<121, 10>>, iPushFreq |-> <<131, 6>> ]

\* Where each field is kept: <<position, length>>, or <<byte, bit>>.
TextLayout == [
  clientSsid        |-> <<0, 16>>,
  clientPassword    |-> <<16, 16>>,
  apSsid            |-> <<33, 16>>,
  apPassword        |-> <<49, 16>>,
  cPulseFreq        |-> <<67, 2>>,
  iPulseMultiFactor |-> <<69, 6>>,
  cLimit            |-> <<75, 2>>,
  cLimitHigh        |-> <<77, 2>>,
  cLimitDebounce    |-> <<79, 2>>,
  sPushURL          |-> <<81, 40>>,
  sPushArg          |-> <<121, 10>>,
  iPushFreq         |-> <<131, 6>> ]

FlagLayout == [
  clientUseWiFi     |-> <<32, 0>>,
  apUseWiFi         |-> <<65, 0>>,
  bPowerMonEnabled  |-> <<66, 0>>,
  bPulseLight       |-> <<66, 1>> ]

Fields == DOMAIN TextLayout \cup DOMAIN FlagLayout
CharSettings == {"cPulseFreq", "cLimit", "cLimitHigh", "cLimitDebounce"}
TextSettings == {"sPushURL", "sPushArg"}
FlagSettings == {"bPowerMonEnabled", "bPulseLight"}
GeneralSettings == CharSettings \cup TextSettings \cup FlagSettings
                     \cup {"iPulseMultiFactor", "iPushFreq"}
WiFiSettings == {"clientSsid", "clientPassword", "clientUseWiFi",
                 "apSsid", "apPassword", "apUseWiFi"}

TextArguments == TextSettings \cup
  {"clientSsid", "clientPassword", "apSsid", "apPassword"}

\* The layout fits the image; what a form sends as text is a String.
ASSUME SettingsAssumption ==
  /\ EepromSize >= 137
  /\ MaxFaults \in Nat
  /\ \A args \in Requests : \A f \in DOMAIN args \cap TextArguments :
       args[f] \in Text

\* A field as it is used: <<1>> or <<0>> for a flag, the first char of a char
\* setting, the text of any other.
Flag(value) == IF value THEN <<1>> ELSE <<0>>

FirstOf(text) == IF text = << >> THEN << >> ELSE <<text[1]>>

ReadField(img, f) ==
  IF f \in DOMAIN FlagLayout
  THEN Flag(ReadBoolean(img, FlagLayout[f][1], FlagLayout[f][2]))
  ELSE LET text == ReadString(img, TextLayout[f][1], TextLayout[f][2])
       IN IF f \in CharSettings THEN FirstOf(text) ELSE text

View(img) == [f \in Fields |-> ReadField(img, f)]

WriteField(img, f, text) ==
  IF f \in DOMAIN FlagLayout
  THEN WriteBoolean(img, FlagLayout[f][1], FlagLayout[f][2], text = <<1>>)
  ELSE WriteString(img, TextLayout[f][1], TextLayout[f][2], text)

-----------------------------------------------------------------------------
\* loadSettings: the first char of an empty String is 0.
FirstChar(text) == IF text = << >> THEN 0 ELSE text[1]

Load(img) == [f \in GeneralSettings |->
  LET text == ReadField(img, f)
  IN CASE f \in FlagSettings         -> text = <<1>>
       [] f \in CharSettings         -> FirstChar(text)
       [] f \in TextSettings         -> text
       [] f = "iPulseMultiFactor"    -> ToInt(text) \div 10
       [] OTHER                      -> ToInt(text)]

\* saveSettings: the writes in their order.  A char of 0 ends its String at
\* once.
CharText(c) == IF c = 0 THEN << >> ELSE <<c>>

SettingText(s, f) ==
  CASE f \in FlagSettings         -> Flag(s[f])
    [] f \in CharSettings         -> CharText(s[f])
    [] f \in TextSettings         -> s[f]
    [] f = "iPulseMultiFactor"    -> Stored(s[f] * 10)
    [] OTHER                      -> Stored(s[f])

SaveOrder == <<"bPowerMonEnabled", "bPulseLight", "cPulseFreq",
  "iPulseMultiFactor", "cLimit", "cLimitHigh", "cLimitDebounce",
  "sPushURL", "sPushArg", "iPushFreq">>

Put(f, text) == [field |-> f, text |-> text]

saveSettings(s) ==
  [i \in 1 .. Len(SaveOrder) |-> Put(SaveOrder[i], SettingText(s, SaveOrder[i]))]

\* escape_parameter: "+" becomes a blank, and the %XX of these characters the
\* character.  No replacement makes another one possible, so their order is
\* immaterial.
Escaped == {33, 35, 36} \cup 38 .. 44 \cup {47, 58, 59, 61, 63, 64, 91, 93}

HexDigit(d) == IF d < 10 THEN 48 + d ELSE 55 + d

EscapeOf(c) == <<37, HexDigit(c \div 16), HexDigit(c % 16)>>

escape_parameter(param) ==
  LET code(i) == {c \in Escaped : /\ i \in 1 .. Len(param) - 2
                                 /\ SubSeq(param, i, i + 2) = EscapeOf(c)}
      char(i) == IF code(i) # {} THEN CHOOSE c \in code(i) : TRUE
                 ELSE IF param[i] = 43 THEN 32 ELSE param[i]
      kept == SelectSeq([i \in 1 .. Len(param) |-> i],
                        LAMBDA i : code(i - 1) = {} /\ code(i - 2) = {})
  IN [n \in 1 .. Len(kept) |-> char(kept[n])]

\* updateGeneralSettings: a checkbox that is not sent is off, the other
\* settings that are not sent stay as they are.
Within(n, low, high) == IF n < low THEN low ELSE IF n > high THEN high ELSE n

updateGeneralSettings(s, args) == [f \in GeneralSettings |->
  IF f \notin DOMAIN args
  THEN IF f \in FlagSettings THEN FALSE ELSE s[f]
  ELSE CASE f \in FlagSettings      -> args[f] = 1
         [] f \in CharSettings      -> Within(args[f], 0, 255)
         [] f = "sPushURL"          -> escape_parameter(args[f])
         [] f = "sPushArg"          -> args[f]
         [] f = "iPulseMultiFactor" -> IF args[f] <= 0 THEN 1 ELSE args[f]
         [] OTHER                   -> Within(args[f], 5, 1000)]

\* updateWiFiSettings: the writes it makes.  A name or password is cut to what
\* toCharArray(.., 15) leaves of it; without both nothing is written.
CharArray15(text) == SubSeq(text, 1, IF Len(text) < 14 THEN Len(text) ELSE 14)

putWiFiSettings(args, ssid, password, useWiFi) ==
  LET sent(f) == IF f \in DOMAIN args THEN CharArray15(args[f]) ELSE << >>
      use == useWiFi \in DOMAIN args /\ args[useWiFi] = 1
  IN IF sent(ssid) = << >> \/ sent(password) = << >> THEN << >>
     ELSE <<Put(ssid, sent(ssid)), Put(password, sent(password)),
            Put(useWiFi, Flag(use))>>

updateWiFiSettings(args) ==
  putWiFiSettings(args, "clientSsid", "clientPassword", "clientUseWiFi")
    \o putWiFiSettings(args, "apSsid", "apPassword", "apUseWiFi")

-----------------------------------------------------------------------------
\* getWiFiSettings: no settings unless both the name and the password read as
\* something.
NoSettings == << >>

getWiFiSettings(img, ssid, password, useWiFi) ==
  LET name == ReadField(img, ssid)
      pass == ReadField(img, password)
  IN IF name = << >> \/ pass = << >> THEN NoSettings
     ELSE <<CharArray15(name), CharArray15(pass), ReadField(img, useWiFi) = <<1>>>>

DefaultAP == <<"pulsemon-3AD1", "Test1234", TRUE>>

getWiFiAPSettings(img) ==
  LET ap == getWiFiSettings(img, "apSsid", "apPassword", "apUseWiFi")
  IN IF ap = NoSettings THEN DefaultAP ELSE ap

-----------------------------------------------------------------------------
Init ==
  /\ flash \in FactoryFlash
  /\ data = flash
  /\ dirty = FALSE
  /\ settings = Load(flash)
  /\ serving = "none"
  /\ todo = << >>
  /\ faults = 0

\* A POST to general.html, up to the first write.
postGeneral(args) ==
  /\ serving = "none"
  /\ settings' = updateGeneralSettings(settings, args)
  /\ todo' = updateWiFiSettings(args) \o saveSettings(settings')
  /\ serving' = "general"
  /\ UNCHANGED <<data, dirty, flash, faults>>

\* A POST to client.html or ap.html, up to the first write.
postWiFi(args) ==
  /\ serving = "none"
  /\ todo' = updateWiFiSettings(args)
  /\ serving' = "wifi"
  /\ UNCHANGED <<data, dirty, flash, settings, faults>>

\* The sector after an erase and the programming of its first k bytes.
Programmed(img, k) == [a \in Address |-> IF a < k THEN img[a] ELSE 255]

\* EEPROM.commit, after data' has been written.
CommitDone == flash' = data' /\ dirty' = FALSE /\ UNCHANGED faults

\* Mutant: _dirty is cleared before the sector is known to be written.
CommitFailsClean ==
  /\ faults < MaxFaults
  /\ faults' = faults + 1
  /\ dirty' = FALSE
  /\ \/ UNCHANGED flash
     \/ \E k \in CutPoints : flash' = Programmed(data', k)

CommitFails ==
  /\ faults < MaxFaults
  /\ faults' = faults + 1
  /\ dirty' = TRUE
  /\ \/ UNCHANGED flash                            \* the erase failed
     \/ \E k \in CutPoints : flash' = Programmed(data', k)

\* What a write may be given: the String made of cPlaceholder runs on to the
\* next NUL.
Written(put) ==
  IF put.field \in CharSettings
  THEN {put.text \o tail : tail \in StackTails} ELSE {put.text}

\* One write and its commit.  An empty text is neither written nor committed.
writeField ==
  LET put == Head(todo)
  IN /\ todo # << >>
     /\ todo' = Tail(todo)
     /\ IF put.text = << >>
        THEN UNCHANGED <<data, dirty, flash, faults>>
        ELSE /\ \E text \in Written(put) :
                  data' = WriteField(data, put.field, text)
             /\ CommitDone \/ CommitFails
     /\ UNCHANGED <<settings, serving>>

\* The end of a POST: general.html shows what loadSettings reads back.
respond ==
  /\ serving # "none"
  /\ todo = << >>
  /\ settings' = IF serving = "general" THEN Load(data) ELSE settings
  /\ serving' = "none"
  /\ UNCHANGED <<data, dirty, flash, todo, faults>>

\* A GET of general.html loads the settings too.
getGeneral ==
  /\ serving = "none"
  /\ settings' = Load(data)
  /\ UNCHANGED <<data, dirty, flash, serving, todo, faults>>

\* EEPROM.begin and loadSettings in setup(), whose defaults are all replaced.
PowerUp ==
  /\ data' = flash'
  /\ dirty' = FALSE
  /\ settings' = Load(flash')
  /\ serving' = "none"
  /\ todo' = << >>

\* A restart at any time between two commits.
restart ==
  /\ UNCHANGED <<flash, faults>>
  /\ PowerUp

\* Power is lost while a commit has the sector erased.
cutOff ==
  /\ faults < MaxFaults
  /\ faults' = faults + 1
  /\ todo # << >> /\ Head(todo).text # << >>
  /\ \E text \in Written(Head(todo)), k \in CutPoints :
       flash' = Programmed(WriteField(data, Head(todo).field, text), k)
  /\ PowerUp

Next ==
  \/ \E args \in Requests : postGeneral(args) \/ postWiFi(args)
  \/ writeField
  \/ respond
  \/ getGeneral
  \/ restart
  \/ cutOff

Spec == Init /\ [][Next]_vars

-----------------------------------------------------------------------------
\* Forms that send what the fields can hold: no zero for a char, no factor of
\* four digits, and texts that leave room for a zero and the checksum.
FormFits(args) ==
  /\ \A f \in DOMAIN args \cap CharSettings : args[f] \in Nat \ {0}
  /\ "iPulseMultiFactor" \in DOMAIN args =>
       args.iPulseMultiFactor \in Int /\ args.iPulseMultiFactor <= 999
  /\ "iPushFreq" \in DOMAIN args => args.iPushFreq \in Int
  /\ "sPushURL" \in DOMAIN args =>
       LET url == escape_parameter(args.sPushURL)
       IN url \in Text /\ Len(url) \in 1 .. 38
  /\ "sPushArg" \in DOMAIN args => Len(args.sPushArg) \in 1 .. 8

\* An integer field that reads as no number of five digits.
FourDigits(img, f) ==
  \E n \in 0 .. 4 : img[TextLayout[f][1] + n] \notin 48 .. 57

IntSettings == {"iPulseMultiFactor", "iPushFreq"}

\* Nothing fills its field: the forms, the integers in the flash before the
\* first power-up, and what follows cPlaceholder[0] as far as a char reaches.
SettingsFit ==
  /\ \A args \in Requests : FormFits(args)
  /\ \A tail \in StackTails : tail \in Text /\ Len(tail) < 176
  /\ \A img \in FactoryFlash :
       img \in Image /\ \A f \in IntSettings : FourDigits(img, f)

-----------------------------------------------------------------------------
TypeOK ==
  /\ data \in Image /\ flash \in Image
  /\ dirty \in BOOLEAN
  /\ DOMAIN settings = GeneralSettings
  /\ serving \in {"none", "general", "wifi"}
  /\ todo \in Seq([field : Fields, text : Seq(Byte)])
  /\ faults \in 0 .. MaxFaults

\* Every field is an abstract field of a store with writes behind it: each
\* write of a save changes what its own field reads as, to the text written,
\* and no other, whatever lies beyond cPlaceholder[0], through failed and cut
\* off commits and restarts.  It is about writeString, readString,
\* writeBoolean and EEPROM.commit over one shared sector.
Store == INSTANCE FieldStore WITH
  Texts <- Seq(Byte), shown <- View(data), durable <- View(flash),
  clean <- ~dirty

ImplementsFieldStore == Store!StoreSpec

\* The globals are what loadSettings would read, except while a POST to
\* general.html is being served: the writes of the WiFi forms, and the char
\* arithmetic of their positions, never reach a general setting.
SettingsAreStored == serving # "general" => settings = Load(data)

\* A restart between requests changes no setting, unless the last commit
\* failed: what the loop runs on is what setup() would load.
RestartKeepsSettings ==
  serving = "none" /\ ~dirty => Load(flash) = settings

\* The loadSettings at the end of a POST gives back every setting just as
\* updateGeneralSettings left it.
SavedIsLoaded == [][respond => UNCHANGED settings]_vars

-----------------------------------------------------------------------------
\* README: a Measurement Frequency of zero is set to have no delay.
ZeroDelayIsKept ==
  [][respond /\ settings.cPulseFreq = 0 => settings'.cPulseFreq = 0]_vars

\* readInt reads the integer writeInt wrote, the default factor's too.
FactorIsKept ==
  [][respond /\ settings.iPulseMultiFactor <= 9999
       => UNCHANGED settings.iPulseMultiFactor]_vars

\* writeString pads the end of its own field: saving the general settings
\* leaves what the WiFi fields read as alone.
GeneralSaveKeepsWiFi ==
  [][serving = "general" /\ serving' = "general"
     /\ Head(todo).field \in GeneralSettings
       => \A f \in WiFiSettings : ReadField(data', f) = ReadField(data, f)]_vars

\* The access point has the default settings when none can be read, as on a
\* sector that was erased and never programmed.
BlankFlashUsesDefaultAP ==
  flash = [a \in Address |-> 255] => getWiFiAPSettings(data) = DefaultAP
=============================================================================
