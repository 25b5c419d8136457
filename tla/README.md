# A TLA+ model of the Coredy R750 bridge firmware

The firmware runs on an ESP32 inside a robot vacuum. It talks the Tuya MCU
protocol over a UART to the robot's own controller (the STM32), and SmartThings
over the STDK library to the phone app; it updates itself from GitHub releases,
sealed in the robot, where a failed update cannot be repaired by wire. This
directory states what makes it correct, as TLA+ modules translated from the C
source, checks them with TLC on small instances, and proves the most important
statements with TLAPS for every instance. Paths below are relative to
`src/firmware/coredy_bridge/main/` unless they start with `src/`.

## 1. The system

| Part | State it keeps | Operations | Talks to |
|---|---|---|---|
| DP tables (`modules/coredy_bridge.c`, `.h`) | none | decode a report, encode a command, combine fault, status and activation into one operating state | used by the bridge |
| Bridge (`modules/coredy_bridge.c`, `main.c`) | last DP17/101/112, cache of published values, last network icon, once-per-session latch, `s_cloud_connected` | `on_dp` (receive task), `on_cmd`, the `coredy_bridge_cmd_*` (STDK command task), `coredy_bridge_on_st_status` (STDK status task), heartbeat | capabilities, UART, OTA (`is_cloud_connected`) |
| Capability modules (`modules/caps_*.c`) | one value per attribute; strings on the heap | set, send, command callback, init callback | STDK, bridge, `main.c`'s user callbacks |
| Capability lock (`modules/caps_lock.c`) | one recursive mutex | take, give | every string capability |
| UART transmit (`modules/tuya_uart.c`) | TX mutex | `tuya_send_frame` from any task | robot |
| UART receive (`modules/tuya_uart.c`) | parser state, payload buffer | `process_byte`, `handle_frame`, DP record walk | bridge callbacks |
| Unknown-frame store (`modules/unknown_store.c`) | 32 rows, dropped counter | record, render, clear | bridge, `GET /unknown` |
| HTTP servers (`modules/http_server.c`) | handles of two servers | pages, `/status`, `/logs` (SSE), `/unknown`, `/dp120` | store, log mirror, diagnostics |
| Log mirror (`modules/log_buffer.c`) | subscriber queues | vprintf hook, subscribe, unsubscribe | `GET /logs` |
| OTA client (`modules/coredy_ota.c`) | probation flag, fetched-once flag, boot time; the two flash slots | poll, compare, download, stage, mark valid, deliberate restart | bootloader, GitHub, bridge |
| Wi-Fi events, diagnostics, boot (`modules/wifi_events.c`, `modules/diag.c`, `main.c`) | connection flags, crash counter in RTC memory | start-up order, network reset | everything |
| Release script (`src/ota/make_release.sh`) | none | sign, write `versioninfo.json` | OTA client |
| UART sniffer (`src/tools/uart_sniffer`) | none | prints | bench tool |

What is hard in it:

* **Three tasks on one set of attributes.** A report is cached, set, copied and
  published by the receive task; a tap is set, transmitted and published by
  STDK's command task; a reconnect publishes and re-hydrates from STDK's status
  task. No lock spans two of these steps.
* **A cache that suppresses.** The robot re-reports unchanged DPs every few
  seconds, and the bridge drops what it believes the app already shows. Every
  reason for the belief to be wrong (a broken session, a failed publication, a
  tap that bypasses the cache, a restart) is a tile that stays wrong.
* **Whole frames from many tasks.** Header, payload and checksum are three
  driver calls.
* **Strings on the heap** freed by one task while another reads them.
* **Updates of a sealed device**: two slots, a probation, a deadline, power
  failures, releases that are bad in different ways.
* **A parser without a timeout.** After noise, a lost byte or a misread length
  only the bytes that follow bring the receive parser back in step.
* **Logging from every task** through a hook that a browser subscribes to.
* **Findings that must survive until polled**, and a poller whose connection
  may drop.
* **A start-up that is overtaken** by the receive task it starts, by a network
  reset, by Wi-Fi events; and one pool of sockets for two servers, the cloud and
  the updates.

`PROJECT.json` lists the hazards at their lines with the properties aimed at
each.

## 2. The modules

| Module | Models | Composes with |
|---|---|---|
| `DpMap` | the tables that decode reports and those that encode commands, pure operators | extended by `CoredyBridge` |
| `CoredyBridge` | bridge, capability values, command and status tasks, robot, UART queues, cloud session | `MCBridge` (instances), `CoredyBridgeProofs` |
| `CapsLock` | one heap string of a capability, its lock, the tasks that set, send and read it | `CapsText`, `CapsLockProofs` |
| `Attribute` | what the bridge expects of an attribute: set, copied and published at one instant each | abstract specification |
| `CapsText` | `CapsLock` with what the strings say | implements `Attribute`; `MCCapsLock`, `CapsLockProofs` |
| `FrameChannel` | what callers expect of `tuya_send_frame`: one whole frame at one instant | abstract specification |
| `TuyaTx` | `tuya_send_frame` by its three writes, with the robot's frame parser | implements `FrameChannel`; `MCTuyaTx`, `TuyaTxProofs` |
| `UnknownStore` | record, and the render/send/clear of `GET /unknown` | `MCUnknownStore`, `HttpServerProofs` |
| `TuyaRx` | `process_byte` byte by byte, with a robot that sends frames and a line that errs | `TuyaRxProofs`; what `CoredyBridge` takes as a queue of records that may lose one |
| `LogMirror` | the log hook, subscribe and unsubscribe, the streaming handler of `/logs` | `MCLogMirror`, `HttpServerProofs` |
| `CoredyOta` | OTA task, bootloader, flash slots, releases, power | `MCCoredyOta`, `CoredyOtaProofs` |
| `OtaDownload` | one attempt of `download_and_install`: redirects, chunks, the split, verification, cleanup | `OtaDownloadProofs`; the inside of `CoredyOta`'s `DownloadBegin` to `Stage` |
| `Boot` | `app_main`, the network reset, the start of the servers, the sockets, the boot counter | `BootProofs`; stands beside `CoredyBridge`, which begins where it ends |

The layering is by what can be told apart at each level. `CoredyBridge`
transmits in one step (`Transmit`), because `TuyaTx` shows that the three writes
under the mutex are one atomic send. It sets and snapshots an attribute in one
step each, because `CapsText` implements `Attribute`: the free, the strdup and
the publication of an unlocked copy are an attribute that is set, copied and
published at one instant each. It does not look into a release: `CoredyOta` needs
only whether a build starts, connects and reaches the server.

### CoredyBridge

`cap` is the value in the capability objects, `s_pub` the publish cache
(`s_pub_*`), `s_last` the three remembered DPs, and `s_last_net_state`,
`s_did_initial_query_all`, `s_cloud_connected` the statics of the same names.
`rx`, `cmd` and `st` are the program counters and locals of the three tasks.
`rxq` and `txq` are the UART, `cloud` what the app shows, `session` the MQTT
session (`lost` until STDK notices), `mcu` the robot's DPs and `mcuNet` its
network icon.

| Action | Code |
|---|---|
| `RxRecord`, `RxTest`, `RxSet`, `RxSnapshot`, `RxPublish` | `on_dp` with `handle_*`, `update_operating_state`, `changed_str`/`changed_int`, then set and `attr_*_send`; DP17 publishes two attributes one after the other |
| `CmdTap`, `CmdUsrCb`, `CmdSnapshot`, `CmdPublish` | `caps_*_cmd_*_cb`: set, user callback of `main.c` (re-reads the stored value for the enums), send |
| `StMove`, `StInitSnapshot`, `StInitPublish` | STDK changes status; on connecting it calls every `init_cb` |
| `StStatus`, `StIgnored`, `StReset`, `StQuery` | `coredy_bridge_on_st_status`: icon push, latch, `reset_publish_cache`, query-all |
| `McuReport`, `McuChange`, `McuReceive` | the robot: re-reports, changes, answers to a DP write (echo of the new value, or of the old one when it refuses), a network push and a query-all |
| `LoseTx`, `LoseRx`, `LinkLost`, `Reboot` | a frame lost on the UART, a broken session, a restart of the ESP32 |

The set, send and init callbacks have the same layout in every capability file,
so each step of them is mapped to one of the files. Start, pause, goHome and
Find Me transmit constants; Find Me has no attribute and publishes nothing.

Abstractions: an attribute value is a string constant, a number, or for the
fault summary the set of its words (their order is fixed by the code's table).
Area is in tenths of a square metre, the raw unit of DP14. `changed_*` and
`reset_publish_cache` are one step each: they are a compare and copy without
any blocking call. A raw value is a `uint32_t`, which `AsInt` turns into the
`int` that the code caches: 0xFFFFFFFF is -1, the cache's "never published", and
is suppressed. Two history variables: `touched`, the attributes a tap wrote since
the last cache reset, and `queries`, the query-all frames transmitted since STDK
last changed status, counted where a frame is transmitted. Not in this module:
`on_cmd`'s handshake answers, the heartbeat, `probe_dp120` (they change no state
here, and none of them is a query-all) and the tasks of the network reset, which
are in `Boot`: here it is a session that ends (`LinkLost`) and an INIT that STDK
reports again.

Assumptions, each a named ASSUME or CONSTANT: the slice of DPs is closed under
the attributes they drive (`SliceIsClosed`); taps are among those the handlers
accept (`TapsAreCommands`: `str2idx` refuses any other word); the query-all's
answer fits into the receive ring (`DumpFits`); publications fail while the
session is up only with `SendMayFail`. Capability pointers are non-NULL, as
`capability_init` leaves them unless memory runs out at boot. `StatusOrder` is
about STDK: no second CONNECTED in a row, and an INIT at the start (`INIT`) or
again after a network reset (`REINIT`), when `st_conn_cleanup` (`main.c:216`)
has erased the credentials and an onboarding status comes before the next
connection. That matters: `on_st_status` returns before it clears the latch
when the status is INIT (`modules/coredy_bridge.c:467-483`), so a CONNECTED
that followed a repeated INIT at once would not be hydrated.

### CapsLock, TuyaTx, UnknownStore

`CapsLock` keeps the heap as a set of allocated blocks; a dereference of a
pointer that is not allocated is remembered in `bad` with its place, so that the
properties say which accesses are safe. The lock is not modelled as recursive:
no task of these paths takes it twice. Roles (`Reporters`, `Commanders`,
`Initers`) are sets of tasks. `CapsText` adds to it the content of each block,
which stays after a free until the block is allocated again, and the last string
handed to STDK. Its refinement reads the abstract value through the stored
pointer (`Said`), which during a set still is the freed block, and each task's
pending copy through its snapshot (`ToPublish`): the strdup is the instant of a
set and of a copy, and a copy that could not be allocated is no step.

`TuyaTx` steps the robot's parser with each driver call (the UART driver keeps
their order), and remembers whether the parser ever dropped anything. It assumes
the mutex was created at boot and that `uart_write_bytes` accepts what it is
given, as the code does. `MaxFrames` bounds the wire.

`UnknownStore` has one row per slot and a hit count; a signature stands for
everything `record()` compares. The render buffer (6144 bytes) is taken to hold
a full table: 32 rows of at most 169 bytes and a header are less. The table is
in RAM and a restart empties it, which the code accepts.

### TuyaRx

`state`, `len_hi`, `len`, `idx` and `checksum_calc` are the fields of
`s_parser`; `process_byte` is one operator per case of its switch, and `handled`
says what the last byte made of a frame. The robot (`pos`, `n`, `hi`, `lo`,
`sum`, `last`) sends well-formed frames of any length up to the limit and any
content, back to back. `Receive` is a byte that arrives, `Noise` one nobody
sent, `Lose` one that was lost on the wire or in a full ring, `Restart` a reset
of the ESP32 in mid-frame. `calm` counts the bytes since the last of these, or
since a payload held the two header bytes, which a searching parser may take for
a header. What is promised is promised after `Enough` = 2 `MaxPayload` + 11 such
bytes: an imagined frame of full length, then the rest of the real one it ended
in. A payload that contains 55 AA restarts the count: no parser of this protocol
can tell it from a header, and the checksum drops the frame it imagines.
Version, command and payload bytes are not stored: no property is about them.

### LogMirror

`active`, `q` and `created` are `subs[]`, `live` the copies that `malloc` gave
out for each slot, `pc` where each task is. The hook (`Vprintf` to `Give`) is
split at the mutex, at each slot and at the unlock; formatting happens on its
stack and is part of a step. `TakeFails` is the zero-tick take: a line logged
while another task holds the mutex is not mirrored. `malloc` and a send may fail
at any time. `handle_logs` is `Request` to `Unsubscribe`. The firmware's log
server has one task, so at most one viewer is ever beyond `Request`; with two,
the model allows more than the code. `MaxLines` ends what would be an endless
drain of leftovers if tasks logged without pause.

### OtaDownload

A byte of the body is its position, so that `flash` and `sig` say not only how
much was written but what. The server redirects as it likes, announces any
length or none (-1), and sends any number of bytes, genuine or tampered with.
`ReadChunk` is one turn of the loop, for a chunk of any size up to the buffer's.
`sha_started`, `buf` and `update_handle` are what the function believes it
holds; `live` is what it really holds. `Verifies` takes RSA and SHA-256 as
perfect. `CoredyOta` sees all this as `DownloadBegin`, `DownloadFails`,
`Verified`, `Stage`.

### Boot

`booted` counts the steps of `app_main` that are done, in the order of
`BootOrder`; a task that uses something not yet set up sets `unready`. `rx` is
the receive task in `request_network_reset`, `tasks` the connection tasks it
starts (several, if it is asked several times), `evt` the event task in
`http_server_start`, `server` and `api_server` its two handles, `instances` the
servers that really run. `sockets` counts the open ones; a server of ESP-IDF
takes three for itself (listener and control). `failed` collects the calls that
the code does not repeat; `early` marks a reset that was carried out before
`app_main` listened for addresses. `Restart` is any reset, with or without a
loss of power; only `rtc` survives one, and not the other.

### CoredyOta

A slot has an image and its otadata state. The bootloader (`Boot`) puts a new
image on probation, aborts one that comes back still on probation, and falls
back to the other slot. `Tick` is one interval of `ota_task`: the deadline test
first, then the cloud test, then `Fetch`, `Compare` and the download, whose
`DownloadBegin` erases the other slot, `Verified` makes the image whole while
otadata still describes the previous one, and `Stage` selects it. `MarkValid`
happens at most once per boot, and may fail (`MarkMayFail`). `PowerLoss` may
follow any step. A build is bad by lacking one of `Starts`, `Connects`,
`Fetches`; a corrupt, short or unsigned download is `DownloadFails`.
`proven` and `confirmed` are history variables. `elapsed` counts intervals, the
time spent fetching is not counted. Releases carry the version of their image;
the bootloader, `esp_ota_*` and power are external, modelled from ESP-IDF's
documented behaviour, which includes that `esp_ota_begin` refuses while the
running image is on probation.

## 3. What is checked

Twelve runs, ten of which pass.

| Run | Question | Bounds | Distinct states |
|---|---|---|---|
| `bridge_fault` | Do the fault and status tiles agree, is nothing missing that the cache suppresses, is one query-all sent per session, over a UART that loses frames? | DP17 {none, cliff} and DP101 {running, charging}, one change, one lost session, network reset or restart, ring of 2, a first connection that succeeds | 5.4 M |
| `bridge_converges` | When disturbances end, does the app show the robot's state and the robot the right icon; and is the icon never behind what was pushed? | suction tile and Find Me, refused writes, one tap, one change, one break | 0.7 M |
| `caps_lock` | Is every locked string access safe, the heap exactly accounted for, is the lock free of whoever publishes, is each set and send atomic, does every call return? | one task of each role, two strings, three blocks: one less than they can hold at once | 114 k |
| `tuya_tx` | Do concurrent senders implement the atomic channel, and return? | three tasks, a frame with and one without a payload, two frames on the wire and those in progress | 7 k |
| `tuya_rx` | Does the parser find back after any disturbance, and lose no frame afterwards, inside its buffer? | bytes 0..3, payloads of up to 3 bytes, lengths up to 15 | 344 k |
| `log_mirror` | Is every copy of a line freed once, does a slot change hands without its old lines, does logging never wait, is a slot given back? | two loggers, two viewers, two slots of depth 1, two lines | 227 k |
| `unknown_store` | One row per signature, every frame counted, no rendered row lost? | two slots, three signatures, four records between clears | 5 k |
| `ota` | Is there always an image that can update, is no image older than a confirmed one ever run, and does the device end up on the newest good release? | six builds, bad in each way, three releases, two power losses, failing marks | 27 k |
| `ota_download` | Is exactly the genuine image staged, whatever the server does, is an intact one never refused, does each attempt end with everything released? | signature of 3, chunks of up to 4, release of 8, bodies and announcements of up to 10, 2 redirects | 11 k |
| `boot` | Is nothing used before it is set up, does the connection come back after resets, do the servers come up once each, is there a socket for updates, is the boot counter honest? | 16 sockets and pools of 4 and 3 as in the firmware, 3 starts, 2 resets, 1 lost link, 2 failing calls | 356 k |

The bounds are the smallest where the hazards occur: two attributes driven by
one DP, one tap in flight against one report of the same attribute, one session
before and one after a break; a table with one slot too few; a slot that has
been overwritten twice, so that a failed probation, a rollback and a new
download follow each other. One signature more than slots fills the table;
a heap one block short makes a copy fail for want of memory as well as at random;
three tasks are enough for a waiter to be overtaken. Four byte values are two
header bytes and two others; a payload of three can hold a false header, and a
length of two base-4 digits can exceed the limit fivefold. Chunks longer than
the signature straddle the boundary at every offset, and bodies both shorter and
longer than announced occur. One line more than a queue holds overflows it. Two
resets give two connection tasks at once; two failures let a server fail, and
fail again. The theorems below have no bounds.

Two runs show a disagreement between the code and what it says of itself; TLC
finds the trace:

* `bridge_rejected_tap`: `changed_str` compares with "the last value actually
  published" (`modules/coredy_bridge.c:37`), but the command path publishes
  without touching the cache. Tap *max* while the robot shows *normal* and
  refuses: the echo of *normal* equals the cache and is suppressed, so the app
  shows *max* until the value changes or the session is re-hydrated. The
  property looks only at quiet moments (`Quiet`: no task is publishing, both
  directions of the UART are empty), so that a tap still on its way does not
  count. The run's action constraint lets the app tap only at such moments, so
  that the trace is this one and not a race of a tap with the hydration; a
  constraint only removes behaviours, so the trace is one of `Spec`.
* `caps_lock_usr_cb`: the same callbacks read the string without the lock that
  is said to guard every capability's value storage.

Further disagreements met while modelling, visible in the models and not part
of the runs:

* the enum user callbacks read the stored value back after the lock is released
  (`main.c:98-111`); a report in between makes the bridge transmit the robot's
  own value, where `modules/coredy_bridge.h:119` says the command is translated;
* `parse_semver` accepts `v2.3.2-dirty` as 2.3.2 (`modules/coredy_ota.c:188`),
  where the comments at `:183` and `:197` imply that it does not parse or must
  be upgradeable; an image that reports it refuses every 1.x release;
* a publication that fails while the session is up is cached as published
  (`SendMayFail = TRUE` violates `CacheIsLastPublished`);
* two set+send pairs interleave although `modules/caps_lock.h:21` says the
  recursive lock lets a caller keep them atomic (no caller does);
* a frame first recorded between the rendering and the clear of
  `GET /unknown?clear=1` is discarded unseen (`modules/http_server.c:162-174`);
* `s_dropped` counts frames, not the "distinct signatures" of
  `modules/unknown_store.c:30`;
* the probation is ten minutes (`modules/coredy_ota.c:49`) where
  `src/README.md:60` says five, and update checks are gated on the cloud
  (`modules/coredy_ota.c:464`) where `modules/coredy_ota.h:24` says "No
  WiFi/cloud gating";
* the log mirror drops lines that two tasks log at once (`TakeFails`), where
  `main.c:236` says that subscribers can receive everything;
* a network reset that arrives before `main.c:274` is acknowledged and not
  carried out, which `src/docs/PROTOCOL.md:72-75` calls ignoring the user's
  gesture; and one carried out before `main.c:278` may lead to an address nobody
  listens for, so that the servers wait for the next one (`early`);
* a log server that fails to start keeps the API down
  (`modules/http_server.c:249-252`) where `:28` calls the two "genuinely
  independent";
* `src/firmware/coredy_bridge/sdkconfig` raises lwIP's sockets to 16, but
  `sdkconfig.esp32` still has 10, with which `OtaGetsSocket` fails.

### Fairness

* `CoredyBridge`: weak fairness of each task's own steps (FreeRTOS runs a ready
  task) and of STDK's status changes (it retries for ever). `McuReceive` is
  strongly fair: the robot always answers, but the ring bounded to one record may
  be full of its own re-reports between two openings. Nothing makes the robot
  repeat an unchanged DP, so `Converges` rests on the query-all alone.
* `CapsLock`, `CapsText`: weak fairness of a started task; strong fairness of taking the
  lock again in the middle of a call, since a FreeRTOS mutex wakes its waiters in
  turn. Starting a call is not fair.
* `TuyaTx`: strong fairness of the steps of a call, for the same reason.
* `TuyaRx`: none; its promises are counted in bytes.
* `LogMirror`: weak fairness of the logging tasks for `LoggingReturns`, and
  nothing of the handlers: that is what the property says. `SlotReleased` is
  stated under strong fairness of a handler's steps (`HandlersRun`): a receive
  times out after 15 seconds, a send to a browser that left fails, and FreeRTOS
  wakes the waiters of a mutex in turn.
* `CoredyOta`: the tasks and the bootloader run; for each build that can
  connect and fetch, it does so again and again. The fairness is per build
  because a link that failed exactly one build's probation for ever would cycle
  between rollback and download, and that is no fault of the code. The download
  succeeds if it is tried for ever. Releases and power losses are bounded and
  not fair. A mark that fails is not repeated before the next reset, so
  `ConvergesToRelease` exempts an image that was never marked (`Unmarked`).
* `OtaDownload`: weak fairness of an attempt's steps: each call returns, the
  reads within their timeout. The start of an attempt is not fair.
* `Boot`: weak fairness of `app_main`, of the receive task once it carries out a
  reset, of the connection tasks and the event task, and of STDK finding its
  access point while it runs. Browsers, resets, failures and restarts are not
  fair.

## 4. What is proved

`tlapm` checks every theorem from the definitions and the named ASSUMEs, with no
bound on tasks, DPs, taps, builds, slots of the store, queue lengths, boots or
losses.

| Theorem | Statement | Argument |
|---|---|---|
| `CoredyBridgeProofs!TypeCorrect` | `TypeOK` | inductive by itself, one lemma per task |
| `CoredyBridgeProofs!Hydrated` | `HydratedOncePerSession` | `HydrationInv`: the latch is unset whenever a connected status is still to be handled (`LatchInv`), so that its handler always reaches the query-all, and the frames counted since the last change of status are one once that handler is done and none before or otherwise (`QueriesInv`) |
| `CoredyBridgeProofs!Suppression` | `SuppressionSound`, given `~SendMayFail` | `CacheInv`: from the cache reset of a session on, a cached value no tap touched is on the cloud, or with the receive task on its way there; before the reset, and without a session, nothing is claimed. `TapInv`: a tap in progress keeps its attribute touched |
| `CoredyBridgeProofs!TilesAgree` | `FaultAndStateAgree`, given `~SendMayFail` | `CacheInv` brings it to the cache; `TileInv` says that each of the two cached values is what the remembered DPs say, unless the receive task still has that tile to test; `StuckWords` that a bitmap's words and its state agree |
| `CoredyBridgeProofs!IconFollows` | `IconInStep`, given `~Lossy` | `IconInv`: the last icon push on its way, or the robot's icon if there is none, is what the bridge remembers |
| `CoredyBridgeProofs!EchoShowsChoice` | a word the app may choose is encoded to a raw value whose report shows that word on its tile | the tables of the commands and of the reports are inverse to each other, shown for each enum |
| `CoredyBridgeProofs!ReadBack` | `ReadBackEncodable` | `WordsInv`: whatever boot, taps and reports store in an enum attribute, or are about to, has a code |
| `CapsLockProofs!LockedAccess` | `LockedAccessSafe` | `LockInv` (the owner is the task in a critical section) and `HeapInv` (stored string and snapshots are allocated and pairwise distinct) |
| `CapsLockProofs!PublishesUnlocked` | `NoLockAcrossPublish` | from `LockInv` |
| `CapsLockProofs!Accounted` | `HeapAccounted` | `HeapInv` and that nothing else is allocated |
| `CapsLockProofs!SetsAndSends` | `TextSpec => Atomic!Spec` | step simulation over `HeapInv`: no block that is allocated is the stored string or another task's snapshot, so no step changes what these say |
| `TuyaTxProofs!NoSplice` | `NothingDropped` | mutual exclusion is not enough; `WriterInv` puts the robot's parser exactly where the lock's holder is |
| `TuyaTxProofs!Refinement` | `Spec => Channel!Spec` | step simulation: the checksum write is the abstract send, all else maps to call, return or a stutter |
| `TuyaRxProofs!Buffer` | `BufferSafe` | inductive with the types |
| `TuyaRxProofs!Resynchronises` | `Resynced` | an out-of-step parser is either inside a frame it imagined (`Misled`), and what that frame may still swallow bounds `calm`, or searches in the middle of a real one (`Searching`), and its position does |
| `TuyaRxProofs!NoFrameLost` | `Delivers` | in step, the parser's sum is the robot's |
| `HttpServerProofs!OneOwner`, `NoCopyLost`, `InOrderToOwner` | `SlotsOwned`, `CopiesAccounted`, `OwnLinesInOrder` | `IInv`: who holds the mutex, that an idle slot's queue is empty, and that the line in the hook's hand is newer than all in the slots still to come (`Fresh`) |
| `HttpServerProofs!NoDuplicateRows` | `OneRowEach` | inductive with the types |
| `HttpServerProofs!RenderedSurvive` | `RenderedRowsSurvive` | at the clear, everything rendered has been delivered |
| `HttpServerProofs!EveryFrameCounted` | `CountsAddUp` | `CountInv`: a free row has no hits; `SumsAreHits`: any function with the right sums is the recursive `HitsUpTo`, by the least row where they differ; `OneMoreHit`: one more hit is one more in every later sum |
| `BootProofs!OrderSuffices` | `NothingUsedUnready` | the order of `BootOrder`, and `HeardInv`: no address is passed on before there is somebody to pass it to |
| `BootProofs!StartIsIdempotent` | `OneInstanceEach` | inductive with the types: a handle is set exactly when the one instance starts |
| `BootProofs!CounterCounts` | `BootCountHonest` | `CounterInv`: a valid counter has counted every start since power came on, an invalid one has seen none |
| `BootProofs!OtaNeverStarved` | `OtaGetsSocket`, given `AllFit` | `PoolsInv`: no server has more clients than its pool; the three sockets each server takes for itself come with the one instance |
| `CoredyOtaProofs!NeverStranded` | `Recoverable` | `RunInv`: the slot that runs is trusted or, on probation, the other one is; an erase happens only off probation |
| `CoredyOtaProofs!AlwaysBoots` | some slot is always bootable | from the same invariant |
| `CoredyOtaProofs!NoDowngrade` | `NeverOlderThanConfirmed`, for versions of three integers | `NewestInv`: no confirmed image is newer than the running one, than what the bootloader may turn to, or than what is being downloaded; the order on versions is shown transitive |
| `OtaDownloadProofs!Split` | `SplitExact` | `SplitInv` ties both parts and the bytes read together at each place; `ChunkSplit` is the code's arithmetic, shown not to wrap |
| `OtaDownloadProofs!IntactPasses` | `IntactIsAccepted` | from `SplitInv` |
| `OtaDownloadProofs!OnlyGenuine` | `StagedIsGenuine` | `StagedInv`: what is past the check has been verified |
| `OtaDownloadProofs!NoLeak` | `NothingLeaks` | `HeldInv`: what the function believes it holds is what it holds |

`AllFit` says that two servers with full pools, the cloud's connection and the
update client fit into lwIP's sockets. With the firmware's 4, 3 and 16 they do,
with one to spare; with the ten sockets of `sdkconfig.esp32` they do not, and
`OtaGetsSocket` fails, as the pools of v1.3.0 (the mutant `PoolV130`) make it
fail. The theorem says that nothing else is needed: no order of browsers, lost
links and resets.

`ReadBack` bounds the race of `main.c:98-111`, where a report may overwrite what
was tapped before the callback reads it back: the command that goes out may be
the robot's own value, but there always is one, and the warning "unknown value,
not sending" never replaces it. It is about values; that the pointer they are
read through may be a freed one is `caps_lock_usr_cb`'s finding.

Each of the eight modules with proofs also has the type invariant as a theorem:
`TypeCorrect`, and `StoreTypeCorrect` for the store, which shares
`HttpServerProofs` with the log mirror. For `CapsLock`, `TuyaTx`, `TuyaRx`,
`UnknownStore`, `OtaDownload` and `Boot` it replaces the check by a run, as
`OneOwner` and `ReadBack` do for `SlotsOwned` and `ReadBackEncodable`. Nearly no property is inductive by itself:
the "argument" column names the strengthening.

With these, every invariant and every action property that a passing run checks
is also proved, and so are both refinements. Only model-checked is what is out
of the prover's reach: the liveness properties (`Converges`, `EveryCallReturns`,
`EverySendReturns`, `LoggingReturns`, `SlotReleased`, `ConvergesToRelease`,
`AttemptsEnd`, `Reconnects`, `ServersComeUp`). Five theorems have a hypothesis
beyond the modules' ASSUMEs, named in the table: `~SendMayFail` (two of them),
without which the property is false (section 3); `~Lossy`, since a lost icon
push is not repeated; versions that are three integers; and `AllFit`.

## 5. Not modelled

* `dispatch_dp_payload`, the bounded walk over the records of one accepted
  payload: it keeps no state, and `CoredyBridge` starts from its records. The
  heartbeat, the handshake frames and `probe_dp120` only transmit, as `TuyaTx`
  has any task do.
* The unlocked double of `caps_ns_areaCleaned.c` and the unlocked number of
  `caps_battery.c`: one writer and one reader, corrected by the next report.
* `/`, `/status`, `/dp120`, the diagnostics report and the flags they show, page
  layout and JSON wording: text without state.
* STDK's onboarding, the NVS, lwIP beyond its socket count, RSA and SHA-256 (a
  signature is good or not), the text of a redirect.
* `src/ota/make_release.sh`, a sequential script; releases are taken to carry the
  version of their image, which it does not check.
* `src/tools/uart_sniffer`, a bench tool that is not part of the firmware.

Onboarding statuses and the other taps (Start, pause, goHome with the robot's
own DP112) are in `CoredyBridge` and covered by its theorems for every
`StMoves` and `Taps`; the committed runs leave them out, since they multiply the
states without a further case.

What could come next: the record walk as an
operator checked over short payloads; a composition of `Boot` with `CoredyOta`,
for images whose `app_main` stops before the update task.
