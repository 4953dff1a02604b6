# Verification of the MonSet firmware

TLA+ models of the parts of the MonSet telemetry logger (STM32F4, `Core/Src`,
`Core/Inc`, and one page of `www/`) whose correctness depends on the order of
things: what is on the SD card when a reset strikes, what is sent twice or never,
what a channel's state means after a week of failures, what a configuration is
after a failed save, whose samples an average holds, what an interrupt does to a
buffer that is being emptied. TLC checks the models on small instances; eight
proof modules hold theorems that TLAPS checks for every value of the constants.
Paths below are relative to `src/`; `README.md:N` is the repository's own README.

## 1. The system

One thread, `App::run` (`Core/Src/app.cpp:739`), does everything: it polls the
sensors, writes fresh readings to the card, sends what the card holds, serves the
browser and the UART, and sleeps. Beside it there are only the receive interrupt
of the modem, the timers, and the independent watchdog (about 32 s), which
resets the device. So the hard behaviours are few and of four kinds:

- a **reset or power loss** between two calls to FatFs; the card keeps what it
  has, RAM does not;
- a **call that fails**, on the card or on a link, after part of its effect has
  already happened, and an **answer that is lost, late or another's**;
- **long sequences** of loop passes, posts, sends and timers, in which one part
  reads state another has left behind (the selected file name, a `ChannelState`,
  the static buffers of the UART bridge and of `httpsPost`, averaging sums, a time
  stamp of a wrapping counter);
- the **receive interrupt** between two accesses of the main program.

### Inventory

| Component | State it keeps | Operations | Works with | What makes it correct |
|---|---|---|---|---|
| SD backup files, `sd_backup.cpp` | `m_mounted`, `m_broken`, `m_filename`; the files and their `.tmp` | `init`, `deinit`, `setFilename`, `appendLine`, `readChunkAsJsonArray`, `consumePrefix`, `exists` | called by the loop, the channel manager, the power manager, the web server | an unsent line is never dropped; a sent one goes once |
| Store-and-forward loop, `app.cpp` | `m_sdOk`, the timers, the local loop indices | poll and append, `anyBackupExists`, `retransmitBackup` | SD backup, channel manager | every stored measurement reaches the server, in order, files one after the other |
| Channel manager, `channel_manager.cpp` | `ChannelState` per channel, `m_lastRecoveryTick`, `m_lastSentChannel`, send functions | `init`, `registerChannel`, `markAlive`, `sendData`, `tick` | send functions of `App`; SD backup as a fallback; the configuration | priority kept; `alive` means something; sends return to the best channel |
| Runtime configuration, `runtime_config.cpp` | `Cfg()`, `CfgBackup()`, `runtime_config.json` and its `.tmp` | `loadFromSd`, `loadFromJson`, `saveToSd`, `validateAndFix` | boot, web server, UART bridge | what was reported saved is what the next boot loads |
| UART configuration bridge, `cfg_uart_bridge.cpp` | `s_line`, `s_jsonNeed`, `s_jsonGot`, `s_jsonBuf` | `CfgUartBridge_Tick`, one byte per call | runtime configuration | the message sent is the message applied |
| Web server, `web_server.cpp` | socket state, request buffer, `g_web_exclusive` | requests, one per connection | everything | requests do not harm the data path |
| Web mode, test send, `app_web.cpp` | `m_webActive`, `m_webLastReqTick`, `m_testState`, the flag `g_web_exclusive` | `notifyWebActivity`, `checkWebTimeout`, `runTestSend` | main loop, channel manager | the working mode always comes back |
| Power manager, `power_manager.cpp` | RTC alarm, clocks | `enterStopMode` | unmounts and mounts the card | everything is usable after the wake |
| Sensor reader, `sensor_reader*.cpp` | `m_readings`, `m_freshThisCycle`, `m_lastPollTickMs`, `m_avgSum`, `m_avgSampleCount` | `read`, `pollRtuPorts` | Modbus; the loop, the test send and the page preview call it | each reading is stored once; an average holds samples of one window; no device starves |
| Modbus RTU / TCP | transaction state | request, response, timeout | sensor reader, SCADA | an answer belongs to its request |
| Modem receive ring, `uart_ringbuf.hpp` | `m_buf`, `m_head`, `m_tail` | `push` (interrupt), `pop`, `clear` | GSM driver | bytes in order, none invented, lost only when full |
| GSM modems, MQTT client, `air780e.cpp`, `a7670c_tls.cpp`, `mqtt_client.cpp` | `m_connected`, `m_backend`, `m_mqttStarted`, the static `rx` of `httpsPost`; in the modem: power, service, session | `powerOn`, `httpsPost`, `connect`, `publish`, `disconnect`, `powerOff` | `postViaGsm`, `postViaEth` | a reported success is a delivery; a stale session costs one send at most |
| Ethernet/HTTPS, Iridium, webhook | a session per call | send functions | channel manager | a reported success is a delivery |
| Log in RAM and log tab, `circular_log.cpp`, `www/logs.html` | `m_buf`, `m_head`, `m_count`, `m_total`; in the page `allLines` and a timer | `write`, `getLine`, `clear`; `loadAll`, `pollNew`, `clearLog` | every module writes; the web server reads | the tab shows the last lines, in order, and goes on doing so |
| Battery, RTC, captive portal, data buffer | small | | | see section 7 |

`PROJECT.json` lists every component with its sources and status, and every
hazard at its line.

## 2. Modules

```
MeasurementLog <-- implements -- StoreForward -- extends --> SdBackup     MCStoreForward
                                   ^ extends
                                 StoreForwardProofs
                                   ^ extends
                                 StoreForwardOrderProofs

ChannelManager                                                            MCChannelManager
  ^ extends
ChannelManagerProofs

ConfigUpdate -- extends --> ConfigStore                                   MCConfigUpdate
  ^ extends
ConfigUpdateProofs

MainLoop -- extends --> SensorReader                                      MCMainLoop
  ^ extends
MainLoopProofs

LossyQueue <-- implements -- UartRing                                     MCUartRing
                               ^ extends
                             UartRingProofs

ModemSend                                                                 MCModemSend
  ^ extends
ModemSendProofs

RollingLog <-- implements -- CircularLog <-- extends -- LogViewer         MCLogViewer
                                                          ^ extends
                                                        LogViewerProofs
```

**SdBackup** has the backup files and the operations of class `SdBackup` as action
operators. File 0 is `backup.jsn`, file c > 0 is `backup_ch(c-1).jsn`. A line is
the set of measurement numbers it carries, a length in record lengths, and a kind:
object, array, torn (its end was never written) or garbled (something was appended
to a torn piece). `consumePrefix` is cut into copy, unlink and rename, because a
reset between them makes a difference. A chunk is a number of whole lines and an end:
at an end of line, before it, or inside the next line, because `f_gets` may fail
anywhere and what was collected is still a chunk. `damage` is a history variable that
collects the events that leave less than the whole behind.

**StoreForward** is the loop around it. `pc` is the place in `App::run`: `poll`
with one append per channel, `periodic`, `test`, `retry`, `iridium`, `rest`, and
inside `retransmitBackup` `scan`, `read`, `send`, `consume`, `unlink`, `rename`.
`lines` and `ended` are the chunk in use. A chunk read is as long as it can be
(`ReadChunk`), ends early between two lines (`ReadShort`) or inside one (`ReadCut`), or
there is none and the file is left for the next call (`ReadFails`).
An action is what runs between two points where a reset or a failing call can
be told apart. Which timers are due, which readings are fresh and whether the web
mode suppresses a send are left open, so the model does more than the code and not
less; `MainLoop` is about those. `taken` and `got` are history variables: the numbers
of the measurements written and those the server has.

**MeasurementLog** is the promise: sources take measurements one by one, and the
server holds a prefix of each at every moment.

**ChannelManager** has `sendData` one `trySend` at a time (`TrySkip`, `TryOk`,
`TryFail`, `SaveToBackup`), `tick` as one action, `Reinit` for
`App::reinitChannelManager`, which keeps every `ChannelState`, and `Wait` for the
time the rest of the loop takes. `now` is `HAL_GetTick()` modulo `Wrap`; `age`, a
history variable, is the true time since a channel worked. A failure count above 3
is kept as 3. `recoveryLen` is the prefix of the chain that `tick` looks at: it
reads the legacy `chain_count`, which differs from the new one as long as no
configuration has set `chain_order`.

**ConfigStore** has the configuration object, the file and its `.tmp`, boot, and
`saveToSd` in its steps. A configuration is `head` for any plain setting, `tail` for the
lists, of which the last in the text decides whether it fits the buffers, and the two
intervals, each with its copy in seconds of 16 bits. `Printed` is the text of `saveToSd`,
which holds both; `LoadFromJson` is what `findKey`'s `strstr` amounts to: the first
occurrence before a NUL counts, a plain setting whose key is missing keeps its value, a
list is emptied, and the copies override the exact intervals. **ConfigUpdate** adds the
two writers: `Post` is `POST /config` with a body that may be cut after two seconds,
`Tick*` is the UART bridge, whose units on the wire stand for a command line or one key
with its value. A message is taken out of a receiver that holds one byte, so units can be
lost (`Overrun`).

**SensorReader** is the structured mode of the class (`pollRtuPorts`). A device of
the configuration is a record of its physical sensor, its `channel_idx`, interval,
averaging window and enable flags. One action is one Modbus transaction: an answer
(`ReadOk`), none (`ReadFails`), or the answer to an earlier request that had timed out
(`ReadLate`), which `readRegisters` accepts if slave, function and length agree.
`lastPoll`, `fresh`, `slot` and `sum` are `m_lastPollTickMs`, `m_freshThisCycle`,
`m_readings` and `m_avgSum` with its count; `age` is history, the true time the program
has worked since a device was looked at; a value is the set of samples it is the
mean of, so the arithmetic is gone and what was mixed with what is not. The tick
counter runs modulo `Wrap`, with 0 for never, as in the code.

**MainLoop** composes it with `App::run` and `app_web.cpp`. `Flows` lists the calls
of a pass and of the two loops in which a pass can end: the web loop while a browser
is active, and the wait of the debug mode; the third end is the stop mode, in which
the tick stands still and the watchdog runs on: `Sleep`, or `SleepReset` when the
sleep and up to `Unfed` ticks since the watchdog was last fed reach its period.
`ServerTick`
is one call of `WebServer::tick` with at most one request: refused, a page, a test
send, a preview that reads the sensors, a new configuration. `Expire`, `Test`, `Send`
and `SyncFlag` are `checkWebTimeout`, `processTestSend`, the four places that send,
and the copy of `m_webActive` to `g_web_exclusive`. `stored` and `lost` are history: in
how many records a sample is, and which samples were in RAM at a reset or were used
up by a read outside the poll.

**UartRing** is the receive buffer of the modem with its interrupt. `pop` and `clear`
are cut into their single accesses (`PopCheck`, `PopRead`, `PopAdvance`, `ClearTail`,
`ClearHead`); the interrupt is one step that may come between any two of them. A byte
is known by the number of its arrival. `Overrun` is the error branch of the handler,
which pushes the byte that is still in the data register again. **LossyQueue** is what
the driver may expect: a queue of bounded length that loses bytes only when it is full
or being emptied.

**ModemSend** is `postViaGsm` and `postViaEth` with what they share and what outlives
a call: `m_connected` and `m_backend` of `MqttClient`, `m_mqttStarted` of `Air780E`,
and the static buffer of `A7670CTls::httpsPost`. One AT command is one step with its
outcomes. `fault` and `needless` are history: whether something outside the program
failed in this call, and whether the MQTT send over the modem before it failed though
nothing had.

**CircularLog** is the ring of log lines in RAM; **RollingLog** is the promise, the
list of the last lines since the last clear. **LogViewer** adds `www/logs.html`: the
page's list, one request per connection with its place and count, the answer that may
be lost or run out of room, the timer that asks again while an answer is outstanding,
and clears from this page and from another. A line in `raw` holds a character that JSON
does not allow in a string; `r.json()` rejects an answer with such a line, and one that
ends in the commas of lines that had no room (`CannotRead`). `base` and `odd` are
history: the number of the last line before the last clear, and which of five events
have happened since the page was opened: the ring wrapped, another page cleared it, two
requests overlapped, a batch was cut short in the middle, a poll had no room.

## 3. Properties and runs

| Run | Checks | Result |
|---|---|---|
| `StoreForwardFaults` | `TypeOK`, `NoSilentLoss`, `DeliveredInOrder`, `ConsumedForGood`, refinement `ImplementsLog`, with every fault | hold, 1.6 M states |
| `StoreForwardDrain` | `SequentialDrain`, `EveryMeasurementDelivered` with two channels | hold, 161 k states |
| `ChannelManagerConfig` | `TypeOK`, `DeadAfterThree`, `PriorityRespected` | hold, 2.4 M states |
| `ChannelManagerFailback` | `AliveIsFresh`, `Failback` | hold, 0.7 M states |
| `ConfigUpdateFaults` | `TypeOK`, `SavedSurvives`, `FileNeverTorn`, `MessageExact` | hold, 5.0 M states |
| `MainLoopSensors` | `TypeOK`, `StoredOnce`, `EverySampleStored`, `AverageOfItsWindow` | hold, 2.5 M states |
| `MainLoopWeb` | `OnTime`, `IdleEnds`, `QuietResumes`, `TestEnds` | hold, 0.71 M states |
| `UartRing` | `TypeOK`, `InOrder`, refinement `ImplementsQueue` | hold, 159 k states |
| `ModemSend` | `TypeOK`, `SecondTrySucceeds`, `AnnouncedIsOwn` | hold, 2,162 states |
| `LogViewer` | `TypeOK`, `ShownInOrder`, `LinesAppear`, refinement `KeepsTail` | hold, 89 k states |
| `ConfigUpdateStale` | `OnlyTheMessage` | violated |
| `MainLoopAsleep` | `SleeperSends` | violated |

What the passing runs show:

- **NoSilentLoss.** A measurement written to the card is on the server or still on
  the card, unless one of seven named events has happened: a full file was
  truncated, a line was torn, a chunk read failed inside a line, the `.tmp` file was
  not closed or not renamed, a reset hit between unlink and rename, or a send
  reported 200 for a chunk the server did not take. All other failing calls and
  resets, in any combination, cost no data; nor does a chunk read that fails between
  two lines.
- **DeliveredInOrder** and **ImplementsLog.** Under the same condition, what the
  server has of a channel is always a prefix, although chunks are sent again after
  a lost answer or a reset, and a failed chunk is appended to the file it came from.
- **SequentialDrain**, **ConsumedForGood.** Files are drained strictly in turn, and
  consuming a prefix leaves no copy of its measurements in the file. The second
  one is delicate: a failed send saves its chunk at the end of the same file, and
  only because a chunk that fits in a line is shorter than a chunk of the next
  attempt is the copy always consumed together with its original
  (`ChunkMax >= 3 * LineMax`, 1800 and 240 bytes in `config.hpp`). It holds as long as
  no line was torn and no chunk ended early: appends run into a torn line until it is
  longer than a chunk, and such a line may part the two; so may a chunk that a read
  error ended between them, and then the copy is sent a second time.
- **EveryMeasurementDelivered.** With a server that answers again and again, what is
  on the card is delivered, though a chunk is saved and read again and again.
- **DeadAfterThree**, **PriorityRespected**, **AliveIsFresh**, **Failback.** Any
  mixture of sends, failures, recovery, watchdog and new configurations keeps the
  meaning of `alive`, never passes over a channel that is enabled and alive for one
  further down the chain, and comes back to the preferred one. (The last two with a
  configuration that stays as it is.) Of dead channels `PriorityRespected` says nothing:
  the code and `README.md:150` disagree, see below.
- **SavedSurvives**, **FileNeverTorn.** A configuration that a user was told is
  saved is the one the next boot loads, whatever fails or resets until another one
  replaces it, unless an `f_close` failed unnoticed, a rename failed, or a reset hit
  between unlink and rename. Two kinds of configuration are excepted, because what is
  saved is not what is read: one whose text is longer than the buffer that reads it, and
  one whose 16-bit copies do not say what its intervals say (`CopiesAgree`): an
  interval or their product above 65535 s, or `poll_interval_s` set alone.
- **MessageExact.** If no unit was lost and the buffer was clean behind it, the
  JSON that takes effect is exactly the one sent.
- **StoredOnce**, **EverySampleStored**, **AverageOfItsWindow.** A sample is in at most
  one record, and is in one unless a reset or a read outside the poll took it; what is
  stored as an average has at least as many samples as its window, no more than the
  widest window of its channel, and only samples from slaves the channel has in some
  configuration. It is exactly the window as long as no configuration changes it: the
  sums of a wider window go on in a narrower one. New configurations, previews, tests
  and late answers come in between.
- **OnTime.** In the working mode no device waits longer than its interval and one
  round of the loop, across the wrap of the counter. A round is `poll_interval_sec`, two
  reads of all devices (one is that of a test send) and three sends. Time in Stop mode
  is not counted, since the tick the intervals are measured with stands still in it; nor
  is the time a browser has the device, in which `README.md:166-169` says that polling
  stops. A pass may end in any of the three ways, and a sleep in a wake or in a reset.
  Section 6 says what this rests on.
- **IdleEnds**, **QuietResumes**, **TestEnds.** The browser holds the device no longer
  than its timeout and one stretch of the loop; when it is quiet the sends resume, and
  not with `g_web_exclusive` left set, which `https_w5500.cpp` would answer with -99; a
  test that was asked for ends even while the browser stays to watch it.
- **InOrder**, **ImplementsQueue.** The ring loses bytes only when it is full or being
  cleared, and hands them out in order, whatever the interrupt does between the
  accesses; `clear` sets `m_tail` first, and in the other order the queue would fill
  with old bytes.
- **SecondTrySucceeds.** The modem is switched off after every call and `m_connected`
  stays set, so the next MQTT send over it fails; never two in a row for that reason.
- **AnnouncedIsOwn.** Once `httpsPost` has seen data announced it reports the status of
  this payload or none, whatever the buffer held.
- **ShownInOrder**, **LinesAppear**, **KeepsTail.** Unless the ring wrapped, another page
  cleared it, requests overlapped or a batch was cut short, the log tab shows the log from
  its first line on, without a gap and with no line twice. Every line comes to be shown
  although requests and answers get lost, unless such an event or a clear comes first, a
  poll has no room for its answer, or a raw line is in the way: any poll that asks for it
  is answered in vain until it is cleared or overwritten. The ring is the list of the last
  lines, although a clear leaves the old ones in their slots.

### Where the code and its documents disagree

The two violated runs each show one, and `PROJECT.json` quotes the lines: keys of an
earlier UART message take effect with a later, shorter one (`ConfigUpdateStale`), and
a device whose polling interval exceeds the watchdog's period (about 32 s) is reset in
every sleep and, with `send_interval_polls` above 1 (its default is 2), never comes to its
first send (`MainLoopAsleep`).

Others were met while modelling and have no run. The ones with an event of their own in a
model are excepted by name in the properties:

- Storing. A full backup file is truncated with everything in it, although
  `sd_backup.hpp:52` calls it a ring buffer. A chunk that contains a saved chunk nests
  an array in an array (`sd_backup.cpp:369`). A reset between unlink and rename leaves
  the unsent lines in a `.tmp` file nobody reads (`sd_backup.cpp:466`). `f_gets` answers
  null at the end of the file and for an error, and `readChunkAsJsonArray` does not ask
  which (`sd_backup.cpp:350-384`): an error inside a line makes a chunk with a piece of
  it, which is sent and consumed, and the line is lost. `README.md:148`
  and `app.cpp:769` expect the card to come back; `m_sdOk` is set only by `App::init`
  (`app.cpp:651`), so one failed append stops the storing until the next reset.
  `app.cpp:1024` says the fallback of the channel manager fills `backup.jsn`; it fills
  the file that happens to be selected. `README.md:106` calls the files
  `backup_pN.jsn`, the code `backup_chN.jsn`.
- Channels. `README.md:150` says an unavailable channel is left out of the chain;
  `sendData` never looks at `alive`, and a dead channel is tried in its place in every
  send (`channel_manager.cpp:125-160`). `app.cpp:700` calls `init` a reset; every
  `ChannelState` is kept. The stamp of a channel that was disabled for 49.7 days may look
  fresh again.
- Configuration. `README.md:174` puts the file at `0:/www/runtime_config.json`, the code
  at `0:/runtime_config.json` (`runtime_config.hpp:584`). A text above 6143 bytes is
  saved and cut at the next boot (`runtime_config.cpp:1036`). After a reset between
  unlink and rename the next boot finds no configuration, writes the defaults and
  removes the complete `.tmp` (`runtime_config.cpp:1020`, `1415`). `ERR SAVE` on the
  UART leaves the new configuration live in RAM (`cfg_uart_bridge.cpp:139-141`).
  `handlePostConfig` sets only the web server's copy of `m_sdOk`.
- Intervals. The copies `meas.poll_interval_s` and `send_interval_s` have 16 bits, are
  printed beside the exact values and override them at the next boot
  (`runtime_config.cpp:757-787`, `1327`): 3600 s and 24 polls boot as 5 polls, 86400 s as
  20864 s. `poll_interval_s` posted alone leaves the copy of the sending interval behind
  and changes the number of polls at the next boot. The defaults of the two pairs differ,
  so a new device runs 5 s and 2 polls until its first reset and 60 s and 5 polls after
  it. `web_server.cpp:4812-4814` says that fields which are not sent keep their values; a
  request without `regs` or `uart_ports` empties the one and resets the other
  (`runtime_config.cpp:713-733`).
- Loop. `README.md:166-170` says that polling and sending stop while the browser is
  active; the web loop is left after `poll_interval_sec` and one pass runs, with a poll,
  but without the sends (`app.cpp:795-824`, `916`). The stop mode suspends the tick, so
  intervals of devices grow by every sleep. The retry sends come after `g_web_exclusive`
  was copied in the pass and may meet a stale copy (`app.cpp:891`, `901`). With both
  Iridium flags set the retry over GSM and Ethernet is skipped (`app.cpp:891-892`). A TCP
  connection that lingers ends the wait of the debug mode at once (`app.cpp:957`).
- Sensors. The averaging sums survive a change of the window or of the device of a
  channel, and the first value after it mixes both (`sensor_reader_ext.cpp:174-187`).
  Two devices with one `channel_idx` share timers and sums. A late answer of another
  register block of the same slave is accepted (`modbus_rtu.cpp:106-123`). A test send or
  a preview uses up a completed average, which is then not stored (`app_web.cpp:118`).
- Modem. `channel_manager.hpp:50` promises the status of the send. The buffer of
  `httpsPost` is static (`a7670c_tls.cpp:516`); when the acknowledgement `+CCHSEND: 0,0`
  comes before the data, or nothing comes, the status of an earlier answer is returned,
  so 200 may be reported for a payload the server refused or never had; on a first call
  the same path returns -1 for one it took (action `Acknowledged`). The same happens after
  an announcement without its length (`a7670c_tls.cpp:541-545`). MQTT over the modem
  fails in every second send. Its `OK` means accepted by the modem, not by the broker.
  An MQTT send for the Ethernet may go to the modem while it is off. `A7670C::httpPost`
  always returns 0 for `http://`. The error branch of the receive interrupt pushes
  a byte twice (`stm32f4xx_it.c:177-182`).
- Log tab. `README.md:221` says the tab updates itself every 2 seconds while it is
  open. The timer has 3 seconds, and the page asks from the number of lines it has,
  which the server takes for a place in a ring of 500 lines (`logs.html:278`,
  `web_server.cpp:4672`): once it shows 500 lines every answer is empty, and the open tab
  never shows another line. A poll while `loadAll` is reading shows lines twice. Lines
  that do not fit the 8 KB of the answer leave their commas (`web_server.cpp:4674-4675`),
  so that the answer is no JSON. Only quotes are escaped (`web_server.cpp:4677-4680`),
  while AT commands are logged with their CR LF (`air780e.cpp:120`, `debug_uart.cpp:94`):
  one such line among the first makes every answer unreadable, and the tab asks from the
  same place again until the log is cleared or the line overwritten.
- Outside the models. `tryDhcp` calls `DHCP_stop` right after the lease, so it is never
  renewed. `https_w5500.cpp` leaves its socket open when it returns -51 or -52, and its
  TLS write has no deadline and feeds the watchdog. The clock is synchronised only at
  boot and after a wake, so never again in debug mode, where `runtime_config.hpp:462` has
  a resynchronisation period. A date with month 0 reads before the start of the table of
  month lengths.

## 4. Bounds, and why they are enough

| Constant | Value | Why |
|---|---|---|
| StoreForward `Channels` | 1 or 2 | with `backup.jsn` two or three files: one before, one after, the one being drained |
| `LineMax`, `ChunkMax` | 1, 3 | the smallest sizes with the code's ratio: a failed chunk of one record is saved, a longer one is not, and a chunk can hold a saved chunk with its original |
| `FileMax` | 4 or 100 | a small one lets a file reach its limit while it is being drained; 100 is never reached |
| `MaxMeas` | 3 or 1 | with a saved chunk of the first, three make a chunk and a tail; for liveness with two channels one each |
| `MaxSize` | 1 or 2 | a failing test send repeats without end; it only saves to a file shorter than this |
| state constraints `OneDamage`, `OneOtherLine` | `StoreForwardFaults` | a state with two kinds of damage, or with two lines that are no measurements, is checked but not left again; what several kinds do together is a matter of the proofs, which cover every property of the run |
| ChannelManager `Wrap` | 2 or 4 | the counter wraps within a few passes of the loop; the width does not matter to a difference modulo the width as long as `WATCHDOG_TIMEOUT + MaxGap < Wrap` |
| `MaxGap` | 1 or 2 | the longest time between two calls of `tick`, far below the wrap in the code (49.7 days) |
| `COUNT`, `Chains` | 2, one or two chains | both orders, with a number that is no channel |
| ConfigUpdate `Texts` | thirteen | one key, two keys in both orders, a repeated key, a text that fills the buffer, one that is longer, one longer than the reading buffer; intervals as the page sets them, exact ones, one without the other, and 3600 s with 86400 s, which does not fit in 16 bits |
| `BufSize`, `MaxMessages` | 3, 2 | a long message and then a shorter one |
| MainLoop `MaxSamples` | 3 or 0 | two samples fill one window and three the other, so that a change of the window meets an open sum; the run on time counts no samples |
| `Wrap`, `AgeMax` | 3 or 9, 0 or 8 | the counter wraps within a few passes; ages are counted up to more than `interval + Round` |
| `PollInterval`, `SendEvery` | 1 or 2, 1 or 2 | a pass with and without a send, and a sleep of one or two ticks |
| `Watchdog`, `Unfed` | 5 and 0, 3 and 1, 1 and 0 | a sleep always ends in a wake; in a wake or a reset, as it was last fed; always in a reset |
| `RetryGsm` | 0, or 3 with `Wrap` 3 | always due in the run on time; never due in the run on samples, whose properties the retries of a send do not touch |
| `Configs` | one device, or two with windows of 2 and 3 and an interval of 0 or 2 | an averaging device beside one that may not be due; a new configuration changes both |
| UartRing `SIZE`, `MaxBytes` | 4, 9 | two turns of the ring, with a full buffer in both |
| ModemSend | none | the state is finite as it is |
| LogViewer `MAX_LINES`, `MaxTotal` | 3, 4 | a log longer than a batch, and one line more than the ring holds |
| `BATCH`, `PollCount`, `ReplyMin` | 2, 2, 1 | 100, 50 and about 60 lines in the code: a second batch, and an answer with less than what was asked for. A poll is as long as a batch here, because it, too, may find no room: each quote takes two characters |
| state constraints `OneOddEvent`, `OneRawLine` | `LogViewer` | after one such event neither property says more; a second raw line is in the way of no poll that the first is not in the way of, or of one that is odd. The safety properties are proved without the constraints |
| `Connections` | 2 | one request and one that overlaps it |

In MainLoop `SendMax` and `BusMax` bound how long a send and a transaction take. No
symmetry is used: files, channels, texts and lines are ordered.

## 5. Fairness

- `StoreForward!FairSpec`: the loop never stops for good (`WF` of boot, poll and
  transfer steps, of the loop body, and of the wait at its end), the send timer
  fires again and again (`SF` of `PeriodicSend`: `m_pollCounter` counts passes, and the
  browser's idle timeout lets sends happen; `MainLoopWeb` checks both), and a chunk that
  is offered again and again is taken at last (`SF` of `SendOk`, an assumption about the
  network).
- `ChannelManager!FairSpec`: the loop calls `tick` and waits (`WF`), starts sends
  again and again (`SF`), and a call of `sendData` ends (`WF`). Nothing is assumed of
  the links beyond what the property itself says.
- `MainLoop!FairSpec`: `WF` of `Loop`, the processor runs. Which step comes is left to
  the flow; requests come or do not.
- `LogViewer!FairSpec`: the timer of the page goes off again and again (`WF` of `Poll`),
  the page lets go of an answer it cannot read (`WF` of `CannotRead`), and of the requests
  and answers sent again and again not all are lost (`SF`).

Deadlock is checked everywhere. Not assumed, and not covered: a card whose unlink or
copy fails for ever. The loop `while (exists())` of `app.cpp:1042` then sends the same
chunk without end, and feeds the watchdog on the way.

## 6. Proofs

All theorems hold for every value of the constants that satisfies the named
assumptions of the modules, which TLC evaluates in every run. Each invariant is
a conjunction of named parts; TLC has checked it before it was proved.

| Module | Theorems | The inductive invariant, and why it is needed |
|---|---|---|
| `StoreForwardProofs` | `TypeCorrect`, `NoMeasurementLost` | `TypeInv /\ SafeInv`. `Sending`: the chunk in use is a prefix of its file; `Staging`: what the `.tmp` file holds after the copy is what the chunk leaves of the file; `Received`: a chunk being consumed has reached the server; `Clean`: without damage no file ends in a torn line, so an append spoils none |
| `StoreForwardOrderProofs` | `DeliveryInOrder`, `PipelineIsLog`, `OneFileAfterTheOther`, `DeletedIsGone` | `OrderInv` adds `Selected` (which file is the current one at each place), `Written` and `InFile` (where the measurements the server lacks stand, and in which order). `PipelineIsLog` maps every step to one of MeasurementLog or a stutter. The third theorem has its own invariant (`Drained`, `OnCard`, `Present`) and assumes that reading the card does not fail. The fourth adds `FilesNeat` (while no line was torn and no chunk ended early, no line is torn, and a line that repeats an earlier one ends within the first `2 * LineMax` of its file) and `ChunkKept` (then what is sent and consumed is as much as a chunk can hold, so it reaches beyond that) |
| `ChannelManagerProofs` | `TypeCorrect`, `ThreeFailuresKill`, `ChainInOrder`, `WatchdogIsExact` | `Clock`, `Stamped`: the stamps and the true age agree as long as the counter has not lapped them; `Registered`: every enabled channel has a send function, so none is skipped for the lack of one. The last theorem assumes a configuration that stays as it is |
| `ConfigUpdateProofs` | `TypeCorrect`, `SavedStaysSaved`, `NeverTorn`, `BridgeExact` | `StoreInv`: what each step of `saveToSd` has prepared (`Prepared`), that the defaults are written only where nothing was saved (`Fresh`), and that the file holds the text of what was (`Saved`). That this text boots as what was saved is no step of the program but a fact about `LoadFromJson`: the lemma `ReloadsExactly`, with `CopiesAgree` and a text that fits as its hypotheses. `WireInv`: the message assembled so far and what is still on the wire make up the one sent (`Assembled`, `Whole`) |
| `MainLoopProofs` | `TypeCorrect`, `NeverStoredTwice`, `NothingForgotten`, `AveragesAreWhole`, `SteadyAverage`, `BrowserLeaves`, `DevicesOnTime` | `Outside`, `Building`, `Known`, `Once`: a sample is in one open window, or in one fresh slot, or in a record, and a slot is not stored when it is no longer fresh. `NothingForgotten` adds where in `read()` and in the pass a value on its way may be (`PollRead`, `Marked`, `Ahead`, `Kept`) and assumes `Separate`: no two devices of a configuration share a `channel_idx`. For the averages: `Windows` (an open sum is empty or has fewer samples than some window of its channel) and `Ready` (a fresh value fits the window of a device). For the last two see below |
| `UartRingProofs` | `TypeCorrect`, `PopInOrder`, `BufferIsQueue` | `Popping`, `Clearing`: what the interrupt cannot change inside `pop` and `clear`; `Sorted`: the slots from tail to head hold bytes in the order of arrival |
| `ModemSendProofs` | `TypeCorrect`, `NoSecondNeedlessFailure`, `AnnouncedStatusIsOwn` | `Powered`, `Protocol`, `Reconnects`, `Announced`, `NoCode`: what is on and who has connected at each place of a call |
| `LogViewerProofs` | `TypeCorrect`, `LogIsRolling`, `TabShowsInOrder` | `Numbered`: the i-th slot from the oldest holds the i-th of the last lines; `Since`: the ring holds the lines since the last clear as far as it has room; `Undisturbed`, `Shown`, `Answers`: while nothing odd has happened one request is outstanding, and it and what the page shows count from the first line after the clear |

### Time

Two theorems bound times on a counter that wraps, and their proofs have one plan.
`Travelling` says of every step how long it takes and where in the flow it leads: it is a
turn of the web server, the beginning or the end of a read, one device of it (up to
`BusMax`), a step of the pass or of a waiting loop (up to `SendMax`, or one tick of a
delay), a restart, or a sleep, which takes no tick. A table over the flow then says how
old something may be at each place, and every step adds to the table at least the time it
takes: `Patience` for the last request (`BrowserLeaves`); `Slack` for the last visit of
`read()` to each device, with `Turn` for the time since a waiting loop began
(`DevicesOnTime`). The section `Remainders` has what the proofs need to know of `% Wrap`.

`BrowserLeaves` has no hypothesis. The two reads in its bound are those of a test and of
a poll, which may both come between two looks at the timeout.

`DevicesOnTime` counts the time the program works: not the one in Stop mode, by which
every interval grows, and not the one a browser has the device. It has two hypotheses, and
each is needed:

- The longest interval and a round are together shorter than the turn of the counter
  (49.7 days).
- All configurations poll the same channels. `m_lastPollTickMs` keeps the stamp of a
  channel that is switched off; once the counter has wrapped the old stamp looks recent,
  and the device waits up to one interval more when it is switched on again. TLC shows
  this with two configurations, one of them with the device off.

### Induction

The size of a file is a recursive function over its lines, and what a chunk holds is a
statement about such sums. The induction theorems of the library take an operator as a
parameter and cannot be used; `StoreForwardOrderProofs` takes the least element of a
set of numbers instead (`WFMin`), which gives induction for a set (`SetInduction`), the
recursion equation of `Size` (`SizeRecursion`), and from it how sizes grow, split and add
up.

### Only model-checked

Liveness (`EveryMeasurementDelivered`, `Failback`, `QuietResumes`, `TestEnds`,
`LinesAppear`), which needs `ENABLED`. Every invariant, action property and refinement of
the passing runs is proved.

## 7. What is not modelled

- FatFs, HAL, mbedTLS, ioLibrary and the CMSIS headers are third-party and by far the
  largest part of the repository; of FatFs the models assume that a completed call is on
  the card. Much of `web_server.cpp` is embedded HTML and formatting.
- Ethernet and HTTPS (`w5500_net.cpp`, `https_w5500.cpp`), the SBD dialogue of Iridium and
  the webhook: the models see the result of the call, including a wrong one. Modbus TCP
  master and slave are not called by `App::run`; `SIM7020C` and `Air780eTls` have no
  caller; the captive portal is initialised and never ticked, `DataBuffer` is never
  filled, the WiFi send function is a stub.
- The web pages other than the log tab, the file manager (which can delete any file on
  the user's request) and authentication; the log export, the fallback page `/logs` and
  the copies of the log on the UART.
- The values of single configuration fields and their clamping in `validateAndFix`, except
  those of the two intervals. Time
  stamps, battery and RTC values are payload.
- The two legacy modes of the sensor reader, which have neither intervals nor windows.
- Simplifications: in MainLoop the card takes every line and requests take no time except
  the reads of a preview, NTP and the deferred start of the server are left out, and the
  run on time has no samples; in StoreForward a garbled line is one line whatever its
  length, where `f_gets` hands out a longer one in pieces; in ModemSend an AT command is
  one step, and HTTPS over Ethernet, which shares nothing with it, is left out; in
  LogViewer the line each request leaves in the log is one of the lines that may come at
  any moment.

## 8. What is left

1. `Clock`: `unixToDateTime`, the BCD registers and back, the resynchronisation and a
   late NTP answer. Wanted: no false time is taken for a valid one.
2. `IridiumSession`: the buffer of the modem, the retries of `SBDIX` and a late answer.
3. `W5500Session`: sockets and DHCP against a link that goes and comes.
4. A run of StoreForward composed with MainLoop's timers instead of the open ones.
