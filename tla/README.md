# Verification of powermon

powermon is an ESP8266 sketch that counts the pulses of an electricity meter:
it samples a light sensor on the ADC, counts peaks, shows the count on a small
web server, pushes it to another server and keeps its settings in the EEPROM
(one flash sector). The code verified is `src/src/*.ino` with `Globals.h`, and
the part of the ESP8266 core and libraries it runs on that the repository
carries under `src/.pioenvs/esp01`: the EEPROM class, the clock, the serial
port, the loop task, the TCP client and server, the web server and the mDNS
responder.

The sketch is one cooperative task. `setup()` runs once; `loop()` serves at
most one HTTP request, then takes one sample, then waits, then perhaps pushes.
The task gives way in `delay()`, in `yield()` and while it waits for the
network; then the callbacks of lwIP and of the timers run. Only the interrupt
of the UART can come between any two statements. What interleaves is therefore
requests and samples, callbacks at the waits, the interrupt in `write()`,
resets and power losses at any moment, and failures of flash, heap and network.

## Inventory

Paths below `L/` are `src/.pioenvs/esp01/`.

| component | state | operations | hard behaviour | what makes it correct |
|---|---|---|---|---|
| pulse sampler (`Other.ino`) | two run counters, debounce flag, `lPulses`, ring of ADC values | `addADCValueToBuffer` | chars that wrap at 256, settings that change within a run, resets | a peak is one pulse; the ring holds the latest samples |
| field formats (`Settings.ino`) | bytes of the EEPROM image | `readString`, `writeString`, `readInt`, `writeInt`, `readBoolean`, `writeBoolean` | positions kept in a char, checksum beside the text, flags sharing a byte | what is written is read back; no write reaches another field |
| settings (`Settings.ino`, `Other.ino`, `WebContent.ino`) | the globals and the image | `loadSettings`, `saveSettings`, `updateGeneralSettings`, `updateWiFiSettings`, three pages | a save is up to 16 writes and commits; restart in the middle | the globals are what a restart would load |
| EEPROM library (`L/EEPROM`) | `_data`, `_dirty`, the sector | `begin`, `read`, `write`, `commit` | erase and programming fail on their own | a clean image is in the sector |
| ADC buffer (`Other.ino`, `Globals.ino`) | heap, `cABuffer`, `iABufferSize` | `generateADCBuffer`, `clear_alloc` | retries on a heap that shrinks, a char that counts them and wraps | it ends, with a buffer of the size it records |
| data push (`Other.ino`) | `lLastConnectionTime`, the connection | `checkWhetherToPushData`, `pushDataToServer` | a clock that wraps, a server that is down | pushes are `iPushFreq` seconds apart and are tried again |
| WiFi (`WiFiFunctions.ino`, `L/ESP8266WiFi`) | the mode, the station, `SETTINGS` blocks | `connectToWiFi`, `connectToClientWiFi`, `setupAPWiFi`, `handleConnect` | a wait of 15 s, a full heap | there is always a network to reach the monitor over; every path frees |
| web pages (`WebContent.ino`) | none | twelve handlers | effects on settings and WiFi | a handler does what the request says |
| main loop (`Main.ino`) | the light | `setup`, `loop` | every call delays samples and requests, two may never return | the sampler goes on, the light is right for it |
| clock (`L/.../core_esp8266_wiring.c`) | overflow count and last tick | `millis`, `micros_overflow_tick` | a wrap the timer has not seen | differences of its readings are the time that has passed |
| serial port (`L/.../HardwareSerial`, `cbuf.h`) | FIFO, ring, interrupt | `write`, `flush`, the transmit interrupt | the interrupt between two looks of `write()` | bytes leave once and in order |
| loop task (`L/.../core_esp8266_main.cpp`) | one event, the timer | `esp_yield`, `esp_schedule`, `__yield`, `delay` | an event for another wait, or for none | whoever waits goes on |
| TCP client and server (`L/ESP8266WiFi`) | contexts, pcbs, references, buffers | `available`, `read`, `write`, `connect`, `stop`, copies; lwIP callbacks | data, errors and closes at any wait | no callback on a deleted context; bytes in order; the right event wakes |
| mDNS responder (`L/ESP8266mDNS`, `UdpContext.h`) | the question, the chain of datagrams | `begin`, `update`, `_recv` | overlapping matches, a chain nobody reads | each question answered, one datagram held |
| web server (`L/ESP8266WebServer`) | the request parsed, the response sent | `handleClient`, `_parseRequest`, `_parseForm`, `sendContent` | requests cut or paused anywhere, writes that take a part or return too much | the handler sees what was sent; the response goes out once |

The sampler reads the settings the pages write; the pages write both the
globals and the EEPROM; `setup()` fills the globals from the EEPROM; the ring is
what `values.json` serves; the push reads `lPulses`, `iPulseMultiFactor`,
`iPushFreq`, and goes through a `WiFiClient`; the web server reads its requests
from one; `mdns.begin` is called at the end of the wait for the station; all of
them share the loop's time. `PROJECT.json` lists the hazards at their lines.

## Modules

| module | models |
|---|---|
| `PulseMeter` | abstract: a meter over the true lengths of the high and low runs |
| `PulseCounter` | the sampler: `addADCValueToBuffer`, `handleGeneralSettings` as the sampler sees it, `setup` |
| `PulseHistory` | history variables for it, and its properties |
| `EepromImage` | the field formats, as operators on an image |
| `FieldStore` | abstract: a store of named, independent, durable fields |
| `SettingsStore` | the settings, the EEPROM class and the pages that save |
| `AdcBuffer` | `generateADCBuffer` and `clear_alloc` over a heap of holes |
| `SystemClock` | `millis()` and the timer that counts the wraps |
| `SerialPort` | `write()` and `flush()` with the transmit interrupt at every step |
| `MdnsResponder` | the matcher of `update()` and the datagrams `UdpContext` holds |
| `WifiSetup` | `connectToWiFi`, the wait, `handleConnect` and their heap blocks; composes `MdnsResponder` |
| `Monitor` | `loop()`: requests, samples, the light, the waits, the push, resets |
| `TcpClient` | `WiFiClient`, `WiFiServer`, `ClientContext`, the loop task's event and timer, lwIP's callbacks |
| `WebRequest` | the request parser as operators on a stream of tokens (recursive, for TLC only) |
| `WebServer` | `handleClient`, the dispatch, `sendContent` and what the browser does |
| `MCPulse`, `MCSettings`, `MCFitting`, `MCParts`, `MCWeb` | instances for TLC; `MCFitting` is `MCSettings` with requests that fit their fields, `MCParts` explores four components that share nothing |
| `InductionLemmas` | induction over the natural numbers and recursive functions, in the form the prover can use |
| `PulseProofs`, `EepromProofs`, `SettingsProofs`, `PartsProofs`, `WifiProofs`, `MonitorProofs`, `TcpProofs` | theorems |

**Sampler.** Variables have the names of the globals. A step is one cycle's
`addADCValueToBuffer` with a reading from `RawValues`, enabled while
`bPowerMonEnabled`; a request to `general.html`, which gives the four settings
any values of their sets; or a reset. `char` is unsigned on this target
(xtensa), so a counter of type char is kept modulo `CharMod`. That
`loadDefaultSettings` is called only by `setup()`, and clears the counters and
the flag but not `lPulses`, is why the settings can change with the detector in
any state.

**Image and settings.** An image is a function from addresses to bytes, a String
a sequence of character codes. `writeString` is one operator with its two char
sums (`cEnd`, `cTEnd`) modulo 256, the clamp, the padding and the checksum;
`readString` scans all bytes of the field for the first zero, the checksum byte
included, as the code does. A POST is the update of the globals
(`postGeneral`) or none (`postWiFi`), then `writeField` once for each
`writeString` or `writeBoolean` in the order of the code, each with its
`EEPROM.commit`, then `respond` with the closing `loadSettings`. Nothing else of
the sketch can run between two of them, but power may go (`restart`, `cutOff`)
and a commit may fail (`CommitFails`): the erase, or the programming with only a
prefix written (`CutPoints`). `cPlaceholder` is a char[2] without a terminator,
so the String made of it is the char followed by any of `StackTails`.

**ADC buffer.** The heap is the sequence of its free holes; `malloc` carves out
of any hole that is large enough, and `malloc(0)` may return either. Holes of one size are kept
together with their number. One step is
one round of the loop. A success in a round whose next multiplier is below 100 is
dropped, as in the code.

**Serial port.** A step is one access of `write()` or `flush()` to state the
interrupt changes, and the interrupt may come between any two of them: the look
for room, the look at the ring, the FIFO, the arming, the ring. Bytes are numbers
modulo `ByteMod`, so order and loss can be seen.

**WiFi and mDNS.** `connectToWiFi` is one step up to its return or to the wait
of `connectToClientWiFi`, of which each round is a step. The radio changes the
connection whenever the loop gives way. `allocated` are the `SETTINGS` blocks on the
heap, `settingsAP` and `settingsClient` the pointers of the function while it waits;
`getWiFiSettings`, the defaults and `cleanupSettings` allocate and free as the code does,
and `leaked` is a history of what `handleConnect` drops. Writing through the NULL of a
full heap resets the chip. A datagram is one
pbuf, `receive` the whole callback.

**Monitor.** `phase` says where `loop()` is. Delays, requests and connects add to
`ms`, the wrapping `millis()`, and to `sinceTold`, the true time. A request
leaves the settings alone or gives them any values. `told` remembers the last
value pushed and what it was made of. In phase `stuck` a call has not returned:
`handleClient` from a cut form or a response behind its end, `connect` from a connection
that lwIP has refused. Only a reset ends it.

**TCP.** A connection, its pcb and its `ClientContext` have one number. The
sketch is any program over the operations of its clients; it runs alone until it
waits, and `task` says for what. `queue` is the queue of `loop_task`, of length
`LOOP_QUEUE_SIZE`. Callbacks are enabled while the task waits, on the argument
registered with the pcb. lwIP may have no pcb, refuse a connection (whose result
`connect` ignores: state `unconnected`) or refuse a write. Bytes are numbered per connection, `rx` is the chain of
pbufs.

**Web server.** A request is a sequence of tokens: a blank, an equal sign, an
ampersand, CR, LF, a dash, words. A `pause` is one longer than the timeout of the
stream, at which `readStringUntil` gives up. `MCWeb` builds requests together
with what they mean, which is written without the parser. `writeUnit` is one turn of the
loop of `sendContent`: a write queues what there is room for and returns whatever has been
acknowledged during its wait, of an earlier write that timed out too, and the unsigned
`size_to_send` is reduced by that. When it falls below zero, `pc` is `overrun`: the loop
reads on behind the response, which is not followed. `writeNothing` is a write that lwIP
refuses or a closed connection; `forever` is a form that `_parseForm` never leaves.
The parser is a constant of `WebServer`, to which
`MCWeb` gives `_parseRequest` of `WebRequest`, because that one is recursive.

## Runs

| run | asks | bounds |
|---|---|---|
| `pulse_meter` | the byte counters, the flag and `lPulses` implement `PulseMeter`; no run is counted twice; the counter the flag waits on is the true run (`RunsTracked`); the ring is the latest samples | `CharMod` 4, buffer of 3, `lPulses` modulo 3, runs to 6 |
| `settings_store` | globals = `loadSettings`; a restart keeps them; `loadSettings` undoes `saveSettings` | the real layout and 200 bytes, three requests, one fault |
| `settings_refinement` | the shared sector implements `FieldStore` | two requests, one fault |
| `parts` | four components that share no state, each on its own. Allocation: no division by zero, ring and block agree, the loop ends. Clock: no wrap missed, differences right over all wraps. Serial port: order, the one race that loses, progress. WiFi: blocks, reachability, the access point, the wait ends; mDNS: answers and the chain | below |
| `monitor` | the light, the spacing of pushes, what may make the told value fall; requests are served, sampling and pushes go on, unless a call does not return | `millis()` modulo 9, pulses modulo 3, two frequencies and factors |
| `tcp` | references, live contexts, bytes and windows, `connect` and `write` return for the right reason, every wait ends but that for a refused connection | two clients, two connections, three bytes in all |
| `web` | the handler sees the request that was sent, only cut forms are read for ever; the response goes out once and nothing behind it, up to the underflow; the request ends | queries to 3 tokens, files to 4, every cut, every pause but in forms |
| `pulse_largest_threshold`, `settings_zero`, `settings_factor`, `settings_long_url`, `settings_blank` | violated, see the next section | the smallest that shows it |

**pulse_meter.** `CharMod = 4` makes a counter wrap after four samples and
`MaxRun = 6` lets a run go past that; 3 plays 255. The readings 1 and 11 become
samples 0 and 2, of which the second is high under one limit and low under the
other, so that a saved limit ends or begins a run.

**settings_*.** The image is kept at its real size. `MCForms` has the longest
texts and largest numbers that fit, values that are clamped, escapes in the URL,
a form that leaves most settings alone, and WiFi forms with passwords that are
cut. The flash begins erased. One fault may hit any commit; a second would only
replace the contents of a sector that is already arbitrary, and the proof has no
bound. Factors stay below 214748365, so that `iPulseMultiFactor*10` fits an int.

**parts.** Heaps: one that is whole, on which the loop ends after the five rounds it
needs at least; one with one large hole; one in six pieces; and one of 260 holes of 100
bytes and two of 112, on which every `malloc` fails up to multiplier 230, 250 succeeds, the
char wraps to 14, the success is dropped, and the 25th round, with a multiplier of 234,
ends the loop. The microsecond register wraps at 30 with a tick at least every 12, three
times; a millisecond is 4 of them and `millis()` wraps at 16, so both wraps occur, together
and apart. A FIFO of 3, a ring of 4 and a threshold of 1 let the FIFO be full, partly full
and empty with the ring empty, filled or wrapped. Two rounds of waiting stand for
30, a heap with room for three blocks for any heap: one and two blocks are what
the code needs, the third lets `connect.html` leak one and go on. Datagrams: the
question after a false start, two questions in one, and one that stops within it.

**monitor.** A `millis()` of 9 wraps within three cycles; `iPushFreq` is 0 or 3, and
every delay 1. The time a loop takes must stay below `ClockMod - iPushFreq` for
pushes to be noticed at all; with the real width that is 49 days less the interval.
`MaxSince` saturates the history at a full turn of the clock.

**tcp.** Two connections are enough for a context in the list and one in use, for
one that replaces another in a client, and for a connect while an accepted one is
open; two clients for a copy. Three bytes in segments and reads of one or two make
a pbuf partly read, done, and done together with the next; a window of three can be
full. A send buffer of two cuts a write of three. `SizeMod` 4 lets `_size_sent`
fall below zero. A connection number is not used again, so the run stops when all
are used: hence `CHECK_DEADLOCK FALSE`; `TaskGoesOn` still holds to the end.

**web.** Sequences of `a`, `=` and `&` up to three cover empty names, empty values
and fields without an equal sign. Buffers of two bytes let a file end before, at and
after the end of a buffer, and a boundary that begins in one. Responses of 1, 3 and 5
bytes in units of 2 are less than a unit, two units with a part, and three; a send buffer
of 3 is filled by a unit that has timed out and the next; `SizeMod` 8 is above every length
and lets the count wrap.

`parts` has `CHECK_DEADLOCK FALSE` because the allocation and the clock, with its
bound on wraps, really end; in the other passing runs a deadlock would be reported.

## Fairness

* `AdcSpec`: the loop in `setup()` runs. Nothing else can.
* `MonitorSpec`: weak fairness of a step of `loop()`. `loop_wrapper` schedules the
  task again after each turn (core_esp8266_main.cpp:96). A call returns or does not: the
  steps `requestHangs` and `pushHangs` to phase `stuck` are as fair as the others, the
  three liveness properties say "or stuck", and no fairness is assumed of the reset.
  Sampling and pushing are promised only if resets end.
* `WifiSpec`: the loop task goes on. The radio, the network and the users need not.
* `SerialSpec`: the UART sends, an enabled interrupt is taken, the loop task runs.
* `TcpSpec`: the loop task runs when it has an event; the timer of `delay()` fires;
  lwIP answers a question for a name, or gives up, and does the same with a
  connection attempt that it has begun. One that `tcp_connect` refused is waited for for
  ever (`Refused`). No fairness is assumed of peers: data, acknowledgments,
  closes and errors may never come.
* `WebSpec`: the server's own steps. The browser need do nothing: a read ends by its
  timeout, and so does a write and the wait for the close. The loops of `_parseForm` have
  none; a form that is cut there leads to `forever`, which no fairness leaves.

## What the violated properties show

* **255 is a threshold that is never exceeded** (`LongRunIsCounted`). README:46
  speaks of cycles over the limit; `cLimitCountHi>cLimitHigh` needs one more, and
  a char is never more than 255.
* **Zero is not stored** (`ZeroDelayIsKept`). `String("\0")` is empty and
  `writeString` returns. The same holds for `cLimit`, `cLimitHigh`,
  `cLimitDebounce` and for clearing the URL or the argument.
* **The default factor does not survive a save** (`FactorIsKept`). 56600 fills its
  field; the checksum, 53, is read as the digit 5: 5660 becomes 56600, and at the
  next save 99999. `FullFieldGainsChecksum` proves the general case.
* **A URL of 175 characters wipes the credentials** (`GeneralSaveKeepsWiFi`).
* **A new chip does not use the defaults** (`BlankFlashUsesDefaultAP`).

## Seen while modelling

No run shows these; they are what the models step around or allow for.

* `values.json` starts at slot 0, so the graph is not in time order
  (WebContent.ino:372). A failed commit is answered as a success (Settings.ino:96).
* `iPushFreq` is counted in seconds (Other.ino:101), README:51 says cycles.
* `generateADCBuffer` drops the first blocks it gets (four on a whole heap, more on
  a fragmented one, where the char may wrap past a success). The loop does not end without
  a buffer, so the fallback of Other.ino:26 is never reached.
* A value told may fall because the product with the factor wraps (Other.ino:125),
  and `iPulseMultiFactor*10` overflows for factors above 214748364
  (Settings.ino:383).
* `handleConnect` leaks its `SETTINGS` (WebContent.ino:124); `generateNewSettings` and
  `setupAPWiFi` write through NULL on a full heap.
* `write()` can lose a byte in a narrow race (HardwareSerial:600), which
  `LostOnlyInRace` confines. When the interrupt is disarmed inside it, the byte it then
  puts into the ring stays there (:612): later writes see a ring that is not empty and go
  the same way, only one that finds the ring empty arms the interrupt again, and nothing
  empties it. The byte, and all after it, can stay for good, and a full ring makes `write()`
  wait for ever: the `gap` that `PortGoesOn` excepts.
* `tcp_connect` may refuse a connection; its result is ignored (WiFiClient:100), and
  `connect()` then waits for a callback that does not come: `Refused` in `TcpClient`,
  `pushHangs` in `Monitor`.
* `sendContent` subtracts what a write returns from an unsigned count. A write that timed
  out leaves bytes behind whose late acknowledgments the next one returns with its own
  (ClientContext:209, 216). This can be more than what is left, and then the loop runs on
  behind the response (ESP8266WebServer:169): the `overrun` of `RequestEnds`.
* `ClientContext::_error` calls `close()`, while lwIP says the pcb is already freed
  (tcp.h:104). A peer that closes leaves a writer to its 5 s timer (ClientContext:242).
  What a timed-out write had queued is sent again by `sendContent`
  (ClientContext:209), the `stalled` of `ResponseSentOnce`.
* A body cut by a pause of a second is parsed as if complete (Parsing:111): the part of it
  that `SeenAs` allows. When the pause falls between the CR and the LF of the empty line
  before it, the LF becomes part of the first argument's name, which `PartOf` allows for.
* A form cut in the middle is waited for for ever, and the loop with it (Parsing:241 and
  :219): `forever` in `WebServer`, `requestHangs` in `Monitor`. Bytes of a file that look
  like a boundary's beginning after a CR LF, and the leading empty line of a value, can be
  lost (Parsing:291, 347).
* When mDNS cannot listen `_conn` stays set and is never tried again (ESP8266mDNS:190).

## Proofs

The theorems hold for every value of the constants that satisfies the assumptions
named in the modules (`PulseCounterAssumption`, `MaxRunAssumption`, `EepromAssumption`,
`SettingsAssumption`, `AdcAssumption`, `ClockAssumption`, `SerialAssumption`,
`MdnsAssumption`, `WifiAssumption`, `MonitorAssumption`, `TcpAssumption`, `WebAssumption`), each as weak as
the code's types. TLC evaluates them in the runs. The proofs use the safety part of a
specification only, never its fairness. Some theorems need more than that, and state it as a hypothesis. TLC evaluates the last
three in the runs; the thresholds of `pulse_meter` meet the first.

* `BelowWrap` (sampler): no threshold is the largest char. What happens with it is the
  violation of `LongRunIsCounted`.
* `SettingsFit` (a save): no char setting is zero, no factor is above 999, texts leave room
  for a zero and the checksum, the integers found in the flash have at most four digits, and
  what follows `cPlaceholder` ends before the position of its last byte wraps in a char.
  The violated properties show what happens otherwise. `RestartKeeps` and
  `GlobalsAreStored` hold without it.
* `HeapsAreLarge` (ADC buffer): at `setup()` 400 bytes are free, in any holes. With less
  than the largest char the last rounds ask for nothing; the chip has some 40000.
* `NamesStandOut` (mDNS): the first byte of the question, the length of the name, does not
  occur again in it. A stored name has at most 14 characters, so this is so for every
  printable name except those of five characters, whose length is that of `local`, and of
  one. There the matcher can miss a question, for it remembers one position only.

What is proved of which component, and why:

* **PulseProofs.** `OnePulsePerRun` is not inductive; with `CountedRunIsHeld` it is: a
  count sets the flag, and only a low sample, which ends the run, clears it
  (`PeakCountsOnce`, `CountedRunsAreHeld`).
  `TrackedRuns` and `SamplerImplementsMeter` hold under `BelowWrap`: the mapping hides two
  wrapping counters, of which only the one the flag waits on equals the true run.
  `RingIsRecent` relates slots counted back from `iABufferPos` before and after a step.
* **EepromProofs.** `WriteStringIs` gives the bytes `writeString` leaves,
  `WriteStringFrame` that no other byte changes, `XorPadding` that zeros do not change a
  checksum; from them `RoundTrip`, `FullFieldGainsChecksum`, `TailIsNotStored`.
* **SettingsProofs.** `IInv` adds what `todo` may hold during a WiFi POST (texts of at most
  14 characters, which cannot reach a general field) and that `_dirty` is clear only when
  the sector holds the image. No bound on faults is needed. `SaveInv` says what a save
  under `SettingsFit` has done so far: the fields no longer in `todo` read back as the
  globals they were written from, and what is in `todo` fits its field. `SaveLoadsBack`
  is what it says when `todo` is empty; `TypeCorrect` follows. `FieldsAreStored` is the
  refinement: each `writeField` is a step of `FieldStore` on its own field, because the
  bytes of two fields are apart, except the two flags that share one.
* **PartsProofs.** `NoDivisionByZero`: 20 and 256 are multiples of 4, 10 is not.
  `RingFitsItsBlock`: types of the loop's variables. `RingHasASlot`: the first four rounds
  drop at most a tenth of the heap each; a round from 100 on follows one whose block fitted
  no hole; when the char wraps, what fitted no hole was at least two bytes, so the heap is
  still large, and the rounds below 100 ask for more than that and get nothing (`HeapInv`).
  A block got is missing from the sum of the holes once (`TotalLess`). `WrapsSeen`: at most one wrap fits
  between two ticks, because the last tick's register value is `sinceTick` behind.
  `TimeAdvances`: the sum under the last `%` grows by at most the milliseconds that have
  passed and one, since whole milliseconds are dropped once within a turn and once over a
  wrap (`WholeMillis`); and the unsigned difference of two remainders is at most that of
  the sums (`WrappedDifference`), whatever wraps between them.
  `PortKeepsOrder`: the invariant says that FIFO, ring and the byte in the hand of
  `write()` are consecutive numbers, and ties each program point to what the interrupt
  can have changed since; the position arithmetic of `cbuf` is in lemmas of its own.
  `BytesSentOnce`: until `size_to_send` wraps, it and `size_sent` add up to the response
  (`Counts`), so that a unit that begins at `size_sent` ends within the response, also when
  late acknowledgments have moved it. As long as no write has timed out nothing is unacknowledged
  between two writes, a write returns at most what it queued, and the wire is the first
  bytes of the response up to `size_sent` (`Joined`).
* **WifiProofs.** `EveryPathFrees`: what `malloc` returns is nobody else's block, so the two
  pointers differ from each other and from every leaked block, and freeing them gives back
  the blocks there were before (`TwoBlocks`), on each of the four branches and over the
  wait. `NetworkIsSetUp` needs that the station is configured during the waits. `OneDatagramHeld` holds
  for any datagrams, since the matcher is not looked into. `QuestionsAnswered` does look:
  by induction over the bytes, the index is the length of the one occurrence that has
  begun and not ended (`Matched`), because two of them would have the first byte of the
  question inside it, and the count is that of the occurrences that have ended.
* **MonitorProofs.** `PushesAreSpaced` rests on the invariant that what `millis()` shows of the
  time since the last push is at most the true time, and that in phase `push` it shows more
  than `iPushFreq`. `LightIsRight` is inductive with the types of the flags;
  `ToldFallsAsStated` adds that the value told is the product of what it was made of, and
  uses that products grow with their factors.
* **TcpProofs.** The invariant says that an event is under way only for the wait the task
  is in, which for a refused connection is none: a running task has no event, a timer belongs to a write or a delay, a context
  whose writer waits is that of the task, a connection being made has no event yet. An
  operation of a context `Kept` it: each of flush, close, ref and unref may only end a
  connection, and leaves the context and the pcb agreeing. With a queue of two the first
  fails, which is the mutant of `ConnectIsDecided`. For `AckedWritesReturn` the invariant
  adds what a waiting writer is owed: a context that still has its pcb counts what is
  outstanding, and an event is under way when that is nothing. The counter is unsigned; it
  does not wrap because no more than `SendBuffer` is ever outstanding. This needs
  `SendBuffer > 0`, and says nothing of a write that begins with bytes left over.
  `ReferencesHeld` has two parts. `ReferencesCounted`: the references of a context are the
  clients that hold it, for any finite set of clients; the cardinality changes by one with
  each `ref` and `unref`, also where a copy is assigned to itself. `AcceptedInOrder`: the
  list of the server is stated link by link, each waiting connection pointing to the next
  later one, so that a push at one end and a pop at the other need no induction over the
  chain. `BytesInTurn`: the bytes of the chain of pbufs are consecutive numbers, the pbufs
  join (`Chained`), the offset is within the first (`Placed`), and the window lacks exactly
  the chain; `_consume` and the loop of `read` keep this by induction over the pbufs.
* **InductionLemmas.** The library's induction theorems take a predicate as a parameter,
  which the installed provers cannot instantiate. `SetInduction` takes a set instead, and
  `RecursionExists` says that a function defined by recursion on a number exists; both
  rest on the well-foundedness of `<`. With them the model's recursive functions can be
  reasoned about; `RECURSIVE` operators cannot.

Only model-checked:

* all liveness (`BufferIsFound` and `AllocationEnds`, `PortGoesOn`, `WaitEnds`,
  `RequestServed`, `SamplingGoesOn`, `PushIsRetried`, `TaskGoesOn`, `RequestEnds`):
  fairness and ENABLED are out of the prover's reach;
* `HandlerSeesRequest`, for the parser of `WebRequest` has recursive operators: that it reads
  a request right, and that no earlier request leaves anything in a later one;
* the violations.

## Not modelled, and why

* HTML, CSS, JavaScript, serial texts and `displayFreeBufferInfo`: layout and logging.
  `charToIntStr`, `intToStr`, `shiftString`: no callers. Argument names are matched by
  their second letter in the code and are the settings' names here; the forms' own names
  never collide.
* Forms that pause: what the parser makes of the bytes behind a pause in a form depends on
  which of its reads gives up. Cut forms are modelled. File bytes are those of
  `HarmlessFiles`, without the sequences that the parser is known to lose.
* What `sendContent` sends when `size_to_send` has fallen below zero: memory behind the
  response, until a write fails, the browser closes, or an address cannot be read. The
  model stops at `overrun`, which only a reset leaves.
* The receive side of the serial port, `end()` and `swap()`: the sketch only prints.
* `peekBytes`, `setNoDelay`, `stopAll`, `WiFiServer::close`, static file handlers,
  `collectHeaders`: never called by the sketch. What `close()` does to the memory of a pcb
  lwIP has already freed.
* The send side of `UdpContext`; the response of mDNS is a count.
* SPIFFS, the file system, `WiFiUDP`, `WiFiMulti`, I2C, PWM and Tone, the lwIP headers and
  the SDK: most of the lines under `.pioenvs`. The sketch calls none of the former, and of
  the latter there are only declarations; modelling them would say nothing of powermon.

## Plan

1. Proofs: a write in `TcpClient` that begins with bytes left over; that the parser reads
   a request line right, with the operators of `WebRequest` as recursive functions.
2. `SamplesLost`: the composition of `PulseCounter` with `Monitor`, and which pulses a
   blocking call hides.
3. Reuse of connection numbers in `TcpClient`, so that its run does not end.
