# A TLA+ model of ESP-Module

ESP-Module is the firmware of an ESP8266 device: it joins a configured wireless
network, registers with control servers every other second, pushes the state of
its pins to them, serves a small Web interface, and updates itself at startup.
This directory models its core, checks it with TLC and proves the central
properties with TLAPS. Source paths below are relative to the repository's root.

## 1. Inventory

| Component | State | Operations | Talks to |
|---|---|---|---|
| Control server client `lib/ESP-WebClient` | `ControlServersStatus`, `ControlServersIndex`, `cfgControlServers`, `cfgControlServersRetryCount` | `ControlServerRegister`, `ControlServerPushData` | called by `loop()`; HTTP to the servers |
| Timers `lib/ESP-Common`, `Ticker` | three armed timers, `tickTimer0..2`, `sysSeconds`, `sysMinutes` | three callbacks | run by the SDK whenever the sketch yields; flags read by `loop()` |
| Wi-Fi station `lib/ESP-WiFiClient`, `ESP8266WiFiMulti` | `APlist`, scan state and result, link, station settings in flash, `WiFiClientConnected` | `initWiFi`, `connectWiFi`, `run` | called by `setup()` and by the minute tick |
| setup and loop `src/main.cpp` | `firstRun`, `iteration`, the LED pin | `setup`, `loop` | drives everything else |
| Configuration store `lib/ESP-Common` | `config.json`, the `cfg` globals | `JSONLoad`, `JSONSave` | `setup()`, `/configLoad`, `/configSave`, the file editor |
| GPIO `lib/ESP-Common`, `lib/ESP-WebServer` | `cfgPinsMode`, direction and level of the pins | `GPIOInit`, `/setModeGPIO...`, `/setGPIO...` | Web server, configuration |
| Web server `ESP8266WebServer`, `WiFiServer` | queue of connections, current client and its status, arguments | `handleClient`, `_parseRequest`, `_parseForm` | called by `loop()`; lwIP's callbacks fill the queue |
| File system editor `lib/ESP-WebServer` | files, SPIFFS descriptors, the global `fsUploadFile` | create, delete, upload, list, read | called by the Web server, the upload from inside its parser |
| OTA update `checkUpdates`, `ESP8266httpUpdate`, `Updater`, `eboot` | flash, the boot command in RTC memory | update, copy at boot | `setup()`, the boot loader |
| Access point, Blynk, HTML pages, logging | none of the program's own | | |

What makes it hard:

* **One thread, callbacks at yield points.** The sketch is not preempted, but
  every HTTP request, `delay()` and `handleClient()` yields, and timer callbacks
  run there. Each handler lowers its flag at its *end*
  (`main.cpp` 156, 181), so a callback during the handler is lost except for
  the clock counter it advances.
* **Long handlers.** A retry window runs `connectWiFi` (ten rounds of a second,
  and an unbounded wait in `ESP8266WiFiMulti::run`) between unregistering and
  enabling the servers.
* **A counter and a sentinel in one integer.** A status is 1, 0, minus the
  number of failed tries, or -100 for disabled.
* **Asynchronous scans.** A scan started in one retry window may end after it;
  the next window acts on a result that may be an hour old.
* **State that survives or goes stale.** Station settings survive a reset in
  flash; `JSONLoad` replaces addresses and networks under the statuses and the
  network list derived from them.
* **Unreliable servers.** They come, go, forget, and their answers get lost;
  the answers to pushes are ignored.
* **Web clients that stall or leave** in the middle of a request. An upload
  that is cut off leaves a global `File` open, and its SPIFFS descriptor is a
  number that is used again when the file is deleted.
* **Power.** It may go between emptying and writing `config.json`, between two
  flash sectors of a download, between the update's command and the restart,
  and in the middle of the boot loader's copy.

What each component owes: the client never asks a server more often than its
tries and starves none; a registration does not outlive its minute; disabled
servers return; the station gets back to a network in range; the LED's blink
ends. Settings that were saved come back; a pin is what its page says; an upload
is in its own file, whole, when it is answered; nobody waits for ever behind
another client; an update replaces the sketch by a whole image or not at all. The full list of hazards, each at its line, is in `PROJECT.json`.

## 2. Modules

| Module | Models | Composition |
|---|---|---|
| `ServerHealth` | abstract: health, failures in a row and the limit of every server | implemented by `ControlServers` |
| `ControlServers` | the client, the statuses and who else writes them, the servers | `Monitor == INSTANCE ServerHealth` |
| `Timers` | timers, flags, clock | |
| `WiFiClient` | `connectWiFi`, `run`, scan, settings in flash, the air | |
| `MainLoop` | `setup()` and `loop()` | instances of `Timers`, `ControlServers`, `WiFiClient` |
| `LoopHistory` | `MainLoop` with history variables | extends `MainLoop` |
| `Device` | settings, `config.json` and pins: `JSONLoad`, `JSONSave`, `GPIOInit`, `/configLoad`, `/configSave`, `/setModeGPIO` | |
| `WebServer` | `WiFiServer`, `ESP8266WebServer` and its parser, the file editor's handlers, SPIFFS descriptors | |
| `SafeUpdate` | abstract: the installed image, a verified one, the copy | implemented by `OtaUpdate` |
| `OtaUpdate` | `checkUpdates`, `ESP8266HTTPUpdate`, `Updater`, `eboot` | `Promise == INSTANCE SafeUpdate` |
| `ControlServersProofs`, `MainLoopProofs`, `LoopHistoryProofs`, `WiFiClientProofs`, `DeviceProofs`, `WebServerProofs`, `OtaUpdateProofs` | theorems | each extends what it proves about |
| `MC*` | constants for TLC | |

### Correspondence

Variables have the names of the program's globals. In addition:

* `ControlServers`: `up` and `holds` are the servers' side (who answers, who has
  a registration of this device). `waited` is a history variable, how many calls
  in a row passed an eligible slot over. One call of `ControlServerRegister` is
  one action, split by outcome: `RegisterAccepted` (lines 45-52),
  `RegisterFailed` (53-65; the server may have taken the registration when only
  the answer was lost), `RegisterNobody` (the scan finds no eligible slot).
  `Chosen(i)` is the scan: the eligible slot nearest behind `ScanStart`.
  `LoadConfig` is `JSONLoad` at run time, `Boot` any reset.
* `Timers`: `armed[t]` says the Ticker is attached. The modules that use it
  choose when a callback may come in.
* `WiFiClient`: one round of `connectWiFi`'s loop is one action, split by what
  `run()` finds: `FindConnected`, `AwaitScan`, `StartScan`, `FindNoKnown`,
  `Join`, `FailToJoin`. `x` is the loop variable and `ConnectTries` outside the
  loop. `found` is the scan result, `air` the networks in range, `remembered` the
  settings in flash, which the SDK joins by itself (`AutoJoin`).
* `MainLoop`: `pc` is the yield point the sketch is at: `connect` (in
  `connectWiFi`), `loop` (top), `push`, `register`, `minute`, `serve`. An action
  is the code between two yield points. `Yielding` says when a callback can
  come: at `serve` always, at `push` only if there is a server to push to, at
  `register` only if there is one to ask, at `connect` only in a round that
  waits. Lowering a flag belongs to the action that ends the handler, as in the
  code.
* `LoopHistory`: `stale` are the slots registered before the last minute
  callback, `sinceRetry` the minute callbacks since the servers were enabled,
  `missed` whether one of these found its flag still raised, `moved` whether the
  period was replaced. `THEOREM HistoryObserves` says they only observe.
* `Device`: `hw[p]` is what `pinMode` has made of a pin, by its place in
  `cfgPins`. `file` is `config.json` as `JSONLoad` would read it: two optional
  keys, `Unreadable`, or `Torn` (emptied or cut). `saving` is the time between
  `SPIFFS.open` and the end of `printTo`. `saved` is a history variable: the
  settings a `/configSave` has answered for. `Document` is what `JSONSave`
  writes, what did not fit into the static buffer left out.
* `WebServer`: `queue` is `_unclaimed`, `current` and `status` are
  `_currentClient` and `_currentStatus`; while the parser waits, `status` says where:
  `request` (request line, header, body), `head` (between two parts of a form), `file`
  (in an upload), or `hung`. `RequestBegins` and `MoreLines` are `_parseRequest` up to its
  next wait; a time-out may end it at any of them (`PlainRequest`, `ParseFails`). `here` and
  `sent` are the connection as `WiFiClient` sees it. `args` is the
  first of `_currentArgs`, the one the handlers use. `fds` is SPIFFS's table of
  descriptors, `fsUploadFile` the number in the global `File`. `upload` and
  `cut` are history variables: what the upload has sent, and which file a
  cut-off upload has left open (`Deleted` once that file is gone). `doomed` says that
  the upload has got the descriptor number of such a file and was closed by the very
  assignment that opened it.
* `OtaUpdate`: an address is the number of a sector. `pc` is `eboot`,
  `copyErase`, `copyWrite` (boot loader), `setup`, `read`, `write`, `end`,
  `staged` (the sketch in `checkUpdates`), or `loop`. `start`, `size`, `at` are
  `_startAddress`, `_size` and the progress, and in `eboot` those of the copy.
  `intact` and `long` say of the body what the device cannot know. One sector is
  two steps, erase and write, both in `_writeBuffer` and in `copy_raw`.

### Abstractions

Addresses and networks are model values; passwords, signal strength, HTTP
headers and texts are left out. Which known network is the best is a choice.
`httpcode` is a `char`, so the code compares the answer's code modulo 256; no
status in use is confused with 200 by it, and an answer counts as accepted or
not. A remainder by zero is taken to raise the exception the
compiler's run-time library raises, and the device resets (`DivideByZero`).
`%` is applied to the magnitude of a negative period: only whether the remainder is 0
matters, and its sign does not. Requests to servers are assumed to travel over
the station's link; servers that are clients of the device's own access point
are not modelled. In `setup()`, everything after `connectWiFi` is one step to
`loop()`: none of it touches the state of `MainLoop`. Blynk's `run()` is part of the
`serve` point.

In `Device`, all settings but the modes are one value, a text; a file system
that cannot be mounted counts as an unreadable file; the FLASH button, which during startup sets `DEBUG`, is not pressed. A torn file is read without an end (`new char[size]` and
`parseObject` of a string that nobody terminates), so what it yields is any
settings or a failure. In `WebServer`, what a client sends comes in pieces of any
size, and the parser may have to wait between any two of them. The time-outs start
anew with each (`Stream::timedRead`, `readBytesWithTimeout`) and header lines are not
counted, so a request takes as long as its client likes. What a file holds is the number of upload buffers; the texts
of pages and answers, and the second answer of an unknown page (404 behind the
root page), are left out. `strstr` over the received boundary is taken to find it
when it is there. In `OtaUpdate`, sectors are written whole, the command's CRC
tells a command from garbage, and the server offers the image that its MD5
belongs to. After a flash error `Update` goes on counting as running; nobody
asks it again before the restart, so the model clears it.

## 3. Runs

| Run | Configuration | Instance | Checks |
|---|---|---|---|
| `servers` | `MCControlServers` | 2 slots, 1 address, tries -3, 2 and 101 | `TypeOK`, `AskedInTurn`, `ImplementsMonitor` |
| `wifi` | `MCWiFiClient` | 2 networks, all 4 configurations, 2 rounds | `TypeOK`, `OldSettingsEndWithScan`, `Reconnects` |
| `loop` | `MCMainLoop` | 1 slot with 2 tries, 1 network and a configuration with and one without it, 2 rounds, step 2, hour of 2 minutes, periods 0 and 2 | `TypeOK`, `NobodyRegisteredInWindow`, `HandlerHoldsFlag`, `KeepsStation`, `DisabledUntilWindow` |
| `loop_live` | `MCLoopLive` | 1 slot, 1 network, 2 rounds, step 2, hour of 2 minutes, period 2 | `ServerReturns`, `DeadServerNoticed`, `LedGoesOut` |
| `history` | `MCLoopHistory` | 1 slot, hour of 3 minutes, periods 0, -2, 5 | `HTypeOK`, `NoStaleRegistration`, `RetriedEveryHour`, `RetriedOnSchedule`, `ZeroPeriodRestarts` |
| `stale_registration` | `MCStaleRegistration` | 1 slot, 2 addresses | `RegisteredMeansHeld`, violated |
| `configured_network` | `MCConfiguredNetwork` | as `wifi` | `ConnectsConfigured`, violated |
| `retry_period` | `MCRetryPeriod` | as `history` | `RetryPeriodExact`, violated |
| `device` | `MCDevice` | 3 pins (FLASH, serial, GPIO16), modes -1, 0, 1, 258, a text that fits and one that does not | `TypeOK`, `PinsAsShown`, `FlashOutputOnRequest`, `RestrictedLeftAlone`, `RestartRestores` |
| `web` | `MCWebServer` | 2 clients, 2 files, 2 buffers, 2 descriptors | `TypeOK`, `UploadGoesToItsFile`, `AtMostOneOpen`, `UploadedWhole`, `DoomedByDeletion`, `OnlyNamedFilesChange`, `EveryoneTaken` |
| `stale_arguments` | `MCStaleArguments` | as `web` | `DeletesWhatItNames`, violated |
| `update` | `MCOtaUpdate` | images of 2, 3 and 4 sectors, 5 for sketch and update, 1 of file system | `TypeOK`, `SketchIntact`, `StagedWhole`, `FileSystemKept`, `KeepsPromise`, `UpdateArrives` |

What they show:

* `ImplementsMonitor`: the integer encoding keeps the promise of `ServerHealth`
  with the limit clamped to 1..100, for retry counts below 1 (first failure
  disables) and beyond the sentinel (the count itself reaches -100).
* `AskedInTurn`: although the next scan starts one behind the last *start*, not
  behind the slot asked, an eligible slot is asked within as many calls as there are slots.
* `NoStaleRegistration`: a minute callback lost in a retry window does no harm,
  because nobody is registered inside it (`NobodyRegisteredInWindow`).
* `HandlerHoldsFlag`: wherever a handler yields, its own flag is still up, so a
  callback there can neither start it again nor be taken for the next tick; and no
  timer is attached before the first pass of `loop()`.
* `KeepsStation`: `loop()` uses the station as `WiFiClient` alone allows it: no
  window begins inside another one, and no networks are loaded inside a round,
  because requests are served at one point only.
* `DisabledUntilWindow`: a server that was given up is asked again after a retry
  window or a reset and by nothing else; a new configuration does not revive it, not
  even one with another address or more tries.
* `ZeroPeriodRestarts`: a period of 0 does not turn the retries off. The device
  resets in its first minute tick, so nobody waits longer than a minute.
* `RetriedEveryHour`, `RetriedOnSchedule`: as long as no minute callback is
  lost, windows come at least every hour and at least every period. A callback
  that is lost can lose the window of its minute: `missed` in the
  properties, `MinutesKept` in `ServerReturns`. This is what the
  code does, not a convenience: without it TLC finds behaviours in which every
  window is skipped.
* `ServerReturns`: a server in reach for good is registered again and again,
  after being disabled, after the link was lost, after it forgot the device.
  `DeadServerNoticed`: one that is gone for good stops counting as registered,
  although pushes ignore their errors. `LedGoesOut`: the blink ends.
* `Reconnects`: when radio and configuration settle, the station gets a network
  and keeps it, although a window may begin with an old scan, a failed one, or
  settings of an older configuration.
* `PinsAsShown`: a pin that the status page and `/getModeStr` show as INPUT or OUTPUT
  is one, through loads, edits, changes and restarts. Nothing is said of a mode they
  call "unchanged"; on GPIO16, whose registers know three modes, such a mode leaves
  whatever direction the pin had.
  `FlashOutputOnRequest`: the FLASH pin, always shown as an input, is an output only
  from a `/setModeGPIO` for it to the next load or restart, although the mode is stored
  and saved like any other. That the request is taken contradicts the comment
  at `ESP-Common.cpp` 224 and the text at `ESP-WebServer.cpp` 521; it is the action
  `SetMode`, and no run asks about it.
  `RestrictedLeftAlone`: a pin that ends up with mode -1 is not touched on the
  way.
* `RestartRestores`: settings that fitted are there after a restart, but only
  as long as no other save has begun: from then until it ends a loss of power
  leaves neither the old nor the new ones (the antecedent `saved # Nothing`).
* `UploadGoesToItsFile`, `AtMostOneOpen`: although `handleFileUpload` ignores
  `UPLOAD_FILE_ABORTED`, no upload writes into another's file and one
  descriptor at most is left open.
* `UploadedWhole`, `DoomedByDeletion`: an answered upload is
  whole in its file, with an exception TLC found: an upload is cut off, its file is
  deleted, and SPIFFS gives its number to the next upload's file, which the assignment to
  `fsUploadFile` then closes. That upload is `doomed`: it is answered with 200, and its
  file stays empty. `UploadedWhole` leaves it out, and `DoomedByDeletion` says whom it
  can happen to: only an upload after a cut-off one whose file was deleted, or after
  a doomed one that was cut off in its turn.
* `OnlyNamedFilesChange`: even so, no step changes a file other than the one its request
  or upload names.
* `EveryoneTaken`: a client in the queue is taken out of it, although others stay silent
  before or in a request, cut it off, leave in it or in an upload, or keep the connection
  when it is answered. The antecedent names what does starve the queue, and TLC finds a
  starving behaviour when any of the three is dropped: a client that sends one request
  for ever, a character now and then (`NoEndlessRequest`); one that falls silent in a
  form and stays connected (`NoSilentForm`); and the parser's endless loop after
  a client has left in a field or in the header of a part (`Hang`).
* `KeepsPromise`: download, command and copy together replace the sketch by a
  whole verified image or leave it, and only an interruption of the copy itself
  loses it; the copy is right where source and target overlap. `StagedWhole`,
  `SketchIntact`: no command ever points at anything else, and the download
  leaves the running sketch alone. `FileSystemKept`: so it does the file system, unless the
  server sends more than it announced (`long`): then the stream's end is missed
  and the file system is overwritten. `UpdateArrives`: interrupted downloads are
  made good.

### Findings

1. **A registration for the wrong server** (`stale_registration`). `/configLoad`
   replaces the address and keeps the status. The status page then lists, and
   the push goes to, a server that was never asked, until the next minute tick.
2. **Networks loaded at run time are not used** (`configured_network`). Only
   `initWiFi` passes networks on, once.
3. **The retry period starts over at the full hour** (`retry_period`). 45 minutes
   means 45 and 15; 90 means 60.
4. **A DELETE may remove a file it does not name** (`stale_arguments`). A request
   with a method other than GET and no body keeps the arguments of the
   request before, query or not, so `args() == 0` in `handleFileDelete` does not
   tell that none were sent.

### Bounds

`loop` has one slot, so that it can afford configurations with and without the
network, both kinds of period and the full slow tick; two slots, where one holds
up the other, are in `servers`, and the theorems about the composition
(`MonitorKept`, `TurnsKept`, `WindowIsClean`, `DisabledStay`) cover any number. A period
of 0 is in `loop` and `history`, where its resets are seen, and not in `loop_live`:
there the clock's scale would let every minute tick come before the first
registration, which sixty seconds do not.

The clock is scaled: `SecondsPerMinute = 1` (the seconds' counter is read by
nobody), `MinutesPerHour` 2 or 3, which still has minutes with and without a
window, a wrap, and periods below, at and above the hour. Two rounds of
`connectWiFi` instead of ten leave room for a scan to be started, awaited and
overtaken by the end of the window, which is the case ten rounds make rarer but
do not exclude. `SinceRetryCap`, one minute beyond the hour, ends the
counting of `sinceRetry`; every property compares it with less.
The only other numbers that grow, `waited` and `iteration`, are bounded by
what the code does, and that is checked. In `MCDevice` the three pins are the
kinds there are (the serial pin is an ordinary one once its mode is set), and the modes the
restricted one, the two that requests set, and one beyond a byte that GPIO16 does not
know and the others do; `INPUT_PULLDOWN_16` is left to the proofs. In `MCWebServer` one client can wait while the
other is served; one file can be deleted and the other, "/", cannot; two
descriptors suffice, as at most one stays open; two buffers (`MaxParts`) make a
first and a last one. In `MCOtaUpdate` the small sketch and the middle one fit
side by side and overlap in the copy, two middle ones do not fit, and the large one
fits beside none. The proofs cover all other sizes. No state constraint is used. Deadlock
is checked in every run.

### Fairness

`WF(Sketch)`: the processor runs and no library call hangs for ever (the wait in
`ESP8266WiFiMulti::run` is taken to end). `SF` of the three callbacks: an armed
timer is due again and again and runs at one of the yield points, of which
`handleClient()` and `delay(0)` are in every iteration; it may miss any single
one. `SF` of a successful scan, of a join of a network in range and of an
accepted registration at a reachable server: each may fail any number of times,
not for ever. Nothing is assumed of networks, servers, Web clients and
resets; where a property needs them to settle, it says so in its antecedent.
`WiFiClient` alone also assumes that retry windows recur (`WF(connectWiFi)`),
which `loop()` provides while its minutes are kept. `WebServer`: `WF(Server)`,
since `loop()` calls `handleClient` again and again and its timeouts, and those of the
parser's reads, run out when nothing comes.
`OtaUpdate`: `WF(Device)`, the processor runs. Failures, resets and losses of power
are not bounded; `UpdateArrives` says what follows when they end (`Calm`).

## 4. Proofs

All hold for every number of servers up to 255, any addresses and networks, any
retry counts and periods, any `ConnectTries`, any length of minute and hour, and any
set of requests, for any pins, modes and texts, any clients and files, any sizes of
images and flash (the named `ASSUME`s of each module).

* `TypeCorrect`. The part that needs an argument is that a status stays at or
  above -100: an eligible status is above it, so one failure reaches at most it.
* `RoundRobin`. `AskedInTurn` is not inductive: a slot may be about to be passed
  over once too often. `TurnInv` adds how far the scan is from it,
  `waited[i] + ScanDistance(i) < N`: a call that passes the slot over starts the
  next scan one slot nearer, and the slot chosen is strictly nearer than any
  other eligible one (`ScanDistanceInjective`).
* `OneIsChosen`. Whenever a slot is eligible, the scan ends at exactly one: the action that
  asks a server cannot be stuck for want of one, nor ask two. The nearest eligible
  slot exists because `<` is well-founded on the naturals (`LeastOfNaturals`, from
  the library's `WFMin`), and is unique by `ScanDistanceInjective`.
* `MonitorRefinement`. One lemma per action: each maps to the monitor's action of
  that kind or to a stutter; `FailedStep` is where the encoding meets the limit.
* `DrivesControlServers`. Every step of `loop()` is, for the servers' variables, a step of
  `ControlServers`. Hence `MonitorKept`: with `MonitorRefinement` the composition
  implements the monitor (no run repeats that).
* `TurnsKept`. The same lemma carries `AskedInTurn` over to the composition, whatever
  minutes, windows and requests do to the statuses between two calls.
* `StationDriven`. `KeepsStation`, one lemma per action again. What it rests on is
  `RoundsInv`: the sketch is at `connect` exactly while the station is inside its
  rounds. Hence `StationForgets`: `OldSettingsEndWithScan` holds in the composition too.
* `FlagsHeld`. `HandlerHoldsFlag` is inductive with the types of the timers: a callback only
  raises, and each handler lowers nothing but its own flag, in the step that ends it.
* `DisabledStay`. An action property: one case per action, of which only the end of a
  window and the resets touch a disabled status. An accepted or failed registration
  does not, because it was eligible before.
* `LoopTypeCorrect`. Needs `CounterInv`: outside the registration the tick
  counter is below its step, or the test for equality could be missed.
* `WindowIsClean`. Inductive as it stands: the window is entered by the step
  that unregisters everyone, and no step inside registers anyone.
* `RegistrationsExpire`. `NoStaleRegistration` needs `NobodyRegisteredInWindow` (a
  callback inside the window ages nothing) and `stale` a subset of the
  registered slots (who unregisters everyone empties it).
* `RetryWithinHour`. `HourInv`: with the flag down the wait is at most the
  minute of the hour; with the flag up it may be a whole hour, but then the minute
  is 0, and 0 is a multiple of every period.
* `RetryWithinPeriod`. `ScheduleInv`, the same with the minute's remainder by
  the period; `NextRemainder` says how a remainder goes on. `WaitCases` reduces every step to the
  four kinds the two waiting invariants distinguish.
* `ZeroMeansRestart`. `ZeroPeriodRestarts` with `ZeroInv`: while the period is 0, a wait
  of one minute has its flag up, since the only way to lower it is the reset.
* `HistoryObserves`, `HistoryTypeCorrect`. The history adds no behaviour.
* `WiFiClientTypeCorrect`, `OldSettingsGone`. The strengthening, `OldForgotten`, adds
  the link to the settings in flash: from the first scan on, both are networks of
  `APlist` or none.
* `DeviceTypeCorrect`, `PinsShown`, `FlashReturns`, `RestrictedUntouched`,
  `SavedSurvives`. One invariant: the types, `PinsAsShown`, and `SavedOnFlash`, that what
  has been answered for is in the file (answering comes after writing).
  `PinModeShown`: the two modes that are shown decide the pin, GPIO16 too.
  `GPIOInitShows`, `GPIOInitSkips` and `GPIOInitFlash` are the lemmas about `GPIOInit`,
  `DocumentOfFitting` and `LoadOfSaved` those about writing and reading.
* `SecondLoadChangesNothing`, `LoadIsLikeRestart`. `JSONLoad` and `GPIOInit` start from
  whatever is there. Loading the same file twice, complete or not, is loading it once
  (`PinModeTwice`, `GPIOInitTwice`). Loading what `JSONSave` wrote leaves the settings a
  restart would, and with them every pin whose mode decides what it becomes (`Decides`,
  `DecidedPinMode`): all but 4, 6 and their like, and on GPIO16 only INPUT,
  INPUT_PULLDOWN_16 and OUTPUT. With any other mode a pin keeps after a load what it
  was, and a restart begins with an input.
* `WebServerTypeCorrect`, `DescriptorsBounded`, `UploadsKeptApart`,
  `AnsweredMeansStored`. The invariant relates the descriptor table, the global `File`
  and the history: who holds a descriptor, which file it is open on in each status,
  and when the number is stale.
* `DoomNeedsDeletion`, `OnlyNamedFiles`. From the same invariant: the exception to
  `AnsweredMeansStored` needs a deletion, as a number can be stale only when `cut` is
  `Deleted`.
  `HandleNames` and `RequestNames` say which file a handler may touch.
* `UpdateTypeCorrect`, `SketchKept`, `CommandsAreGood`, `FileSystemSafe`,
  `PromiseKept`. The invariant says which sectors hold what at each `pc`: the
  running sketch at 0, the part received so far at `start`, and during the copy
  the part already copied and the part still to come, which is where the direction of the
  copy enters. `PromiseKept` maps each action to a step of `SafeUpdate` or a stutter.
* `SketchReplaced`. What `SafeUpdate` promises of every step (`PromiseCopiesVerified`,
  `PromiseReplaces`), proved of the abstract specification and inherited: the
  device starts another sketch only as the outcome of a copy, and every copy is of a
  verified image.

Model-checked only: the liveness properties (liveness under fairness is out of
the prover's reach), that is `Reconnects`, `ServerReturns`, `DeadServerNoticed`,
`LedGoesOut`, `EveryoneTaken` and `UpdateArrives`, and the four violations. `OneIsChosen` gives
the slot that an enabled registration needs, but that the action is ENABLED is not
stated as a theorem, for the same reason. No proof uses induction over data:
the operators are functions and set comprehensions, and the one minimum comes from
well-foundedness.

## 5. Order of the work, and what could follow

The modules were written in the order of the device's own core first: the
client and the timers, the station, `loop()` and its history; then the update, the
settings with the pins, and the Web server. Each was checked before it was
proved about. What could follow: a bound on the rounds of `connectWiFi` and the
consequences of `MonitorKept` stated of `loop()` (a server disabled no earlier than
its last try); the levels of the pins (they matter to
nothing but the pages), the two answers of an unknown page, and a composition of
`WebServer` with `Device` in which `config.json` is one of the editor's files (now
`Edit` lets the editor write anything into it).

## 6. Not modelled

The access point (two SDK calls, no state), Blynk (a library outside the
repository whose results the program does not read; it may also set pins), HTML and logging (wording),
`requestGET` (never called), `loopCounter` (only printed), the levels of pins other than the LED, the order
in which the compiler evaluates the arguments of `requestPOST`.

Most of the source files in the repository are vendored under `docs/esp8266`: the
Arduino core, lwIP, SPIFFS, umm_malloc, SDK headers, drivers and libraries this
firmware does not link. They are modelled where the firmware's behaviour rests on
them (`ESP8266WiFiMulti`, the scan, `Ticker`, `WiFiServer`, `ESP8266WebServer`, `Updater`,
`ESP8266HTTPUpdate`, `eboot`, SPIFFS's descriptors, `pinMode`) and are otherwise the
environment: what lwIP delivers, when the radio connects, and that a SPIFFS write
goes to the file of its descriptor. That is why the modelled lines are a small share of
all lines and a large one of `src` and `lib`. `PROJECT.json` lists for each component what is
missing.
