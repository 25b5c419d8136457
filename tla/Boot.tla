-------------------------------- MODULE Boot --------------------------------
(***************************************************************************)
(* app_main() and what runs as soon as it lets it: the UART receive task   *)
(* that may ask for a network reset, the connection tasks the reset        *)
(* starts, the event task that starts the HTTP servers (wifi_events.c,     *)
(* http_server.c), the sockets all of them draw on, and the boot counter   *)
(* of diag.c.  STDK, ESP-IDF, lwIP and the robot are external.             *)
(***************************************************************************)
EXTENDS Integers, Sequences, FiniteSets

CONSTANTS
  LWIP_MAX_SOCKETS, HTTP_LOG_MAX_SOCKETS, HTTP_API_MAX_SOCKETS,
  MaxBoots, MaxResets, MaxLinkLosses, MaxFaults  \* bounds on external events

ASSUME SocketsAreNat ==
  {LWIP_MAX_SOCKETS, HTTP_LOG_MAX_SOCKETS, HTTP_API_MAX_SOCKETS} \subseteq Nat

(* Mutant: the receive task is started before it has callbacks to call. *)
BootOrderUartFirst ==
  <<"log_buffer", "caps_lock", "unknown_store", "diag", "st_conn_init", "capabilities",
    "rx_task", "callbacks", "tx_lock", "reset_callback", "heartbeat", "ota", "wifi_events", "connect">>

(* What app_main() does, coredy_bridge_init() and tuya_uart_init() included. *)
BootOrder ==
  <<"log_buffer", "caps_lock", "unknown_store", "diag", "st_conn_init", "capabilities",
    "callbacks", "tx_lock", "rx_task", "reset_callback", "heartbeat", "ota", "wifi_events", "connect">>

VARIABLES
  booted,         \* how many of these are done; app_main has stopped when `failed` says so
  rtc,            \* rtc_crash_magic (is it the magic?) and rtc_boot_count
  starts,         \* boots since the power came on
  rx,             \* the receive task: idle, cleanup, spawn
  tasks,          \* how many tasks are starting the connection, and how many ending
  conn, ip,       \* STDK runs; the station has an address
  gotIps, evt,    \* events posted; the event task: idle, log, api
  server, api_server,  \* the handles
  instances,      \* HTTP servers really running, per port
  http_err,       \* the last http_server_start() failed
  sockets,        \* open sockets: per server, STDK, update client
  starved,        \* the update client was refused a socket
  unready,        \* a task used what was not set up
  early,          \* a reset was carried out before anybody listened for addresses
  failed,         \* calls of this boot that failed and are not repeated
  budget          \* external events so far

bootVars == <<booted, rtc, starts>>
connVars == <<rx, tasks, conn>>
httpVars == <<evt, server, api_server, instances, http_err>>
vars == <<bootVars, connVars, ip, gotIps, httpVars, sockets, starved, unready, early, failed, budget>>

NoSockets == [log |-> 0, api |-> 0, mqtt |-> 0, ota |-> 0]

Init ==
  /\ booted = 0 /\ starts = 0
  /\ rtc \in [magic : {FALSE}, count : {0, 7}]
  /\ rx = "idle" /\ tasks = [starting |-> 0, ending |-> 0]
  /\ conn = "stopped" /\ ip = FALSE
  /\ gotIps = 0 /\ evt = "idle"
  /\ server = FALSE /\ api_server = FALSE /\ http_err = FALSE
  /\ instances = [log |-> 0, api |-> 0]
  /\ sockets = NoSockets /\ starved = FALSE
  /\ unready = FALSE /\ early = FALSE /\ failed = {}
  /\ budget = [boots |-> 1, resets |-> 0, losses |-> 0, faults |-> 0]

Spend(event, max) == budget[event] < max /\ budget' = [budget EXCEPT ![event] = @ + 1]

(* A call either works, or fails and is not repeated. *)
Works == UNCHANGED <<failed, budget>>
FailsOnce(call) == Spend("faults", MaxFaults) /\ failed' = failed \cup {call}
-----------------------------------------------------------------------------
(* app_main *)

Running == "st_conn_init" \notin failed
Step(x) == Running /\ booted < Len(BootOrder) /\ BootOrder[booted + 1] = x /\ booted' = booted + 1
Done(x) == \E i \in 1..booted : BootOrder[i] = x
Uses(things) == unready' = (unready \/ \E x \in things : ~Done(x))

(* The steps whose only effect is that they are done. *)
Plain == {"log_buffer", "caps_lock", "unknown_store", "capabilities", "callbacks", "tx_lock",
          "rx_task", "reset_callback", "heartbeat", "ota"}
SetUp ==
  /\ \E x \in Plain : Step(x)
  /\ UNCHANGED <<rtc, starts, connVars, ip, gotIps, httpVars, sockets, starved, unready,
                 early, failed, budget>>

(* Mutant: the counter believes whatever the RTC memory holds. *)
DiagInitTrusts ==
  /\ Step("diag")
  /\ rtc' = [magic |-> TRUE, count |-> rtc.count + 1]
  /\ starts' = starts + 1
  /\ UNCHANGED <<connVars, ip, gotIps, httpVars, sockets, starved, unready, early, failed, budget>>

(* diag_init() *)
DiagInit ==
  /\ Step("diag")
  /\ rtc' = [magic |-> TRUE, count |-> IF rtc.magic THEN rtc.count + 1 ELSE 1]
  /\ starts' = starts + 1
  /\ UNCHANGED <<connVars, ip, gotIps, httpVars, sockets, starved, unready, early, failed, budget>>

(* st_conn_init(): without a context app_main returns. *)
StConnInit ==
  /\ Step("st_conn_init")
  /\ Works \/ FailsOnce("st_conn_init")
  /\ UNCHANGED <<rtc, starts, connVars, ip, gotIps, httpVars, sockets, starved, unready, early>>

(* wifi_events_register() *)
RegisterEvents ==
  /\ Step("wifi_events")
  /\ Works \/ FailsOnce("wifi_events")
  /\ UNCHANGED <<rtc, starts, connVars, ip, gotIps, httpVars, sockets, starved, unready, early>>

(* connection_start(): an error is only logged. *)
StConnStart == (Works /\ conn' = "running") \/ (FailsOnce("st_conn_start") /\ UNCHANGED conn)

Connect ==
  /\ Step("connect")
  /\ StConnStart
  /\ UNCHANGED <<rtc, starts, rx, tasks, ip, gotIps, httpVars, sockets, starved, unready, early>>

AppMain == SetUp \/ DiagInit \/ StConnInit \/ RegisterEvents \/ Connect
-----------------------------------------------------------------------------
(* The receive task: tuya_uart's rx_task with coredy_bridge's callbacks. *)

RxReady == rx = "idle" /\ Done("rx_task")

(* A report: on_dp() publishes, or records an unknown frame. *)
RxReport ==
  /\ RxReady
  /\ Uses({"log_buffer", "caps_lock", "unknown_store", "capabilities", "callbacks", "tx_lock"})
  /\ UNCHANGED <<bootVars, connVars, ip, gotIps, httpVars, sockets, starved, early, failed, budget>>

(* cmd 0x05: acknowledged, and ignored until there is a callback. *)
RxReset ==
  /\ RxReady /\ Spend("resets", MaxResets)
  /\ Uses({"callbacks", "tx_lock"})
  /\ rx' = IF Done("reset_callback") THEN "cleanup" ELSE "idle"
  /\ UNCHANGED <<bootVars, tasks, conn, ip, gotIps, httpVars, sockets, starved, early, failed>>

(* request_network_reset(): st_conn_cleanup() takes the station down ... *)
RxCleanup ==
  /\ rx = "cleanup" /\ rx' = "spawn"
  /\ conn' = "stopped" /\ ip' = FALSE /\ sockets' = [sockets EXCEPT !.mqtt = 0]
  /\ early' = (early \/ ~Done("wifi_events"))
  /\ UNCHANGED <<bootVars, tasks, gotIps, httpVars, starved, unready, failed, budget>>

(* Mutant: no second connection task while one is there. *)
RxSpawnSingle ==
  /\ rx = "spawn" /\ rx' = "idle"
  /\ \/ Works /\ tasks' = IF tasks.starting + tasks.ending = 0
                          THEN [tasks EXCEPT !.starting = 1] ELSE tasks
     \/ FailsOnce("xTaskCreate") /\ UNCHANGED tasks
  /\ UNCHANGED <<bootVars, conn, ip, gotIps, httpVars, sockets, starved, unready, early>>

(* ... and a task of its own starts the connection again. *)
RxSpawn ==
  /\ rx = "spawn" /\ rx' = "idle"
  /\ \/ Works /\ tasks' = [tasks EXCEPT !.starting = @ + 1]
     \/ FailsOnce("xTaskCreate") /\ UNCHANGED tasks
  /\ UNCHANGED <<bootVars, conn, ip, gotIps, httpVars, sockets, starved, unready, early>>

(* connection_start_task() *)
TaskStarts ==
  /\ tasks.starting > 0 /\ tasks' = [starting |-> tasks.starting - 1, ending |-> tasks.ending + 1]
  /\ StConnStart
  /\ UNCHANGED <<bootVars, rx, ip, gotIps, httpVars, sockets, starved, unready, early>>

TaskEnds ==
  /\ tasks.ending > 0 /\ tasks' = [tasks EXCEPT !.ending = @ - 1]
  /\ UNCHANGED <<bootVars, rx, conn, ip, gotIps, httpVars, sockets, starved, unready, early, failed, budget>>
-----------------------------------------------------------------------------
(* STDK brings the station up again and again; the event loop tells whoever
   has registered by then. *)
Listening == Done("wifi_events") /\ "wifi_events" \notin failed

GotIp ==
  /\ conn = "running" /\ ~ip /\ ip' = TRUE
  /\ gotIps' = IF Listening THEN gotIps + 1 ELSE gotIps
  /\ UNCHANGED <<bootVars, connVars, httpVars, sockets, starved, unready, early, failed, budget>>

LostIp ==
  /\ ip /\ Spend("losses", MaxLinkLosses) /\ ip' = FALSE
  /\ sockets' = [sockets EXCEPT !.mqtt = 0]
  /\ UNCHANGED <<bootVars, connVars, gotIps, httpVars, starved, unready, early, failed>>

(* Mutant: one server that runs is enough. *)
EvtStartEither ==
  /\ evt = "idle" /\ gotIps > 0 /\ gotIps' = gotIps - 1
  /\ Uses({"log_buffer", "unknown_store"})
  /\ evt' = IF server \/ api_server THEN "idle" ELSE "log"
  /\ http_err' = FALSE
  /\ UNCHANGED <<bootVars, connVars, ip, server, api_server, instances, sockets, starved, early, failed, budget>>

(* wifi_event_handler() and http_server_start(), on the event task. *)
EvtStart ==
  /\ evt = "idle" /\ gotIps > 0 /\ gotIps' = gotIps - 1
  /\ Uses({"log_buffer", "unknown_store"})
  /\ evt' = IF server /\ api_server THEN "idle" ELSE "log"
  /\ http_err' = FALSE
  /\ UNCHANGED <<bootVars, connVars, ip, server, api_server, instances, sockets, starved, early, failed, budget>>

(* Mutant: the log server is started whether it runs or not. *)
EvtLogAgain ==
  /\ evt = "log"
  /\ \/ /\ evt' = "api" /\ server' = TRUE /\ instances' = [instances EXCEPT !.log = @ + 1]
        /\ UNCHANGED <<http_err, budget>>
     \/ /\ Spend("faults", MaxFaults) /\ evt' = "idle" /\ http_err' = TRUE
        /\ UNCHANGED <<server, instances>>
  /\ UNCHANGED <<bootVars, connVars, ip, gotIps, api_server, sockets, starved, unready, early, failed>>

EvtLog ==
  /\ evt = "log"
  /\ \/ server /\ evt' = "api" /\ UNCHANGED <<server, instances, http_err, budget>>
     \/ /\ ~server /\ evt' = "api"
        /\ server' = TRUE /\ instances' = [instances EXCEPT !.log = @ + 1]
        /\ UNCHANGED <<http_err, budget>>
     \/ /\ ~server /\ evt' = "idle" /\ http_err' = TRUE /\ Spend("faults", MaxFaults)
        /\ UNCHANGED <<server, instances>>
  /\ UNCHANGED <<bootVars, connVars, ip, gotIps, api_server, sockets, starved, unready, early, failed>>

EvtApi ==
  /\ evt = "api" /\ evt' = "idle"
  /\ \/ api_server /\ UNCHANGED <<api_server, instances, http_err, budget>>
     \/ /\ ~api_server /\ api_server' = TRUE /\ instances' = [instances EXCEPT !.api = @ + 1]
        /\ UNCHANGED <<http_err, budget>>
     \/ /\ ~api_server /\ http_err' = TRUE /\ Spend("faults", MaxFaults)
        /\ UNCHANGED <<api_server, instances>>
  /\ UNCHANGED <<bootVars, connVars, ip, gotIps, server, sockets, starved, unready, early, failed>>

Evt == EvtStart \/ EvtLog \/ EvtApi
-----------------------------------------------------------------------------
(* Sockets.  A server of ESP-IDF takes three for itself. *)

InUse ==
  3 * (instances.log + instances.api)
    + sockets.log + sockets.api + sockets.mqtt + sockets.ota

(* Mutant: the pools of v1.3.0. *)
PoolV130(s) == IF s = "log" THEN 7 ELSE 4

Pool(s) == IF s = "log" THEN HTTP_LOG_MAX_SOCKETS ELSE HTTP_API_MAX_SOCKETS

(* Browsers take what a server and lwIP still give, and leave. *)
Browse(s) ==
  /\ instances[s] > 0 /\ ip /\ sockets[s] = 0
  /\ \E n \in 1..Pool(s) :
       /\ n = Pool(s) \/ InUse + n = LWIP_MAX_SOCKETS
       /\ InUse + n <= LWIP_MAX_SOCKETS
       /\ sockets' = [sockets EXCEPT ![s] = n]
  /\ UNCHANGED <<bootVars, connVars, ip, gotIps, httpVars, starved, unready, early, failed, budget>>

Leave(s) ==
  /\ sockets[s] > 0 /\ sockets' = [sockets EXCEPT ![s] = 0]
  /\ UNCHANGED <<bootVars, connVars, ip, gotIps, httpVars, starved, unready, early, failed, budget>>

(* STDK's session, and ota_task's connection, which waits for the session. *)
Mqtt ==
  /\ ip /\ sockets.mqtt = 0 /\ InUse < LWIP_MAX_SOCKETS
  /\ sockets' = [sockets EXCEPT !.mqtt = 1]
  /\ UNCHANGED <<bootVars, connVars, ip, gotIps, httpVars, starved, unready, early, failed, budget>>

OtaOpen ==
  /\ Done("ota") /\ sockets.mqtt = 1 /\ sockets.ota = 0
  /\ starved' = (starved \/ InUse >= LWIP_MAX_SOCKETS)
  /\ sockets' = IF InUse < LWIP_MAX_SOCKETS THEN [sockets EXCEPT !.ota = 1] ELSE sockets
  /\ UNCHANGED <<bootVars, connVars, ip, gotIps, httpVars, unready, early, failed, budget>>

OtaClose ==
  /\ sockets.ota = 1 /\ sockets' = [sockets EXCEPT !.ota = 0]
  /\ UNCHANGED <<bootVars, connVars, ip, gotIps, httpVars, starved, unready, early, failed, budget>>
-----------------------------------------------------------------------------
(* Deleted from the app, updated, crashed or unplugged: only the RTC memory
   survives, and not the last of these. *)
Restart(powerCycle) ==
  /\ Spend("boots", MaxBoots)
  /\ booted' = 0
  /\ IF powerCycle THEN rtc' \in [magic : {FALSE}, count : {0, 7}] /\ starts' = 0
                      ELSE UNCHANGED <<rtc, starts>>
  /\ rx' = "idle" /\ tasks' = [starting |-> 0, ending |-> 0] /\ conn' = "stopped"
  /\ ip' = FALSE /\ gotIps' = 0
  /\ evt' = "idle" /\ server' = FALSE /\ api_server' = FALSE /\ http_err' = FALSE
  /\ instances' = [log |-> 0, api |-> 0] /\ sockets' = NoSockets
  /\ starved' = FALSE /\ unready' = FALSE /\ early' = FALSE /\ failed' = {}

Next ==
  \/ AppMain
  \/ RxReport \/ RxReset \/ RxCleanup \/ RxSpawn \/ TaskStarts \/ TaskEnds
  \/ GotIp \/ LostIp \/ Evt
  \/ \E s \in {"log", "api"} : Browse(s) \/ Leave(s)
  \/ Mqtt \/ OtaOpen \/ OtaClose
  \/ \E powerCycle \in BOOLEAN : Restart(powerCycle)

Spec == Init /\ [][Next]_vars

(* The tasks run; STDK, once started, finds its access point again. *)
Fairness ==
  /\ WF_vars(AppMain) /\ WF_vars(RxCleanup \/ RxSpawn) /\ WF_vars(TaskStarts)
  /\ WF_vars(GotIp) /\ WF_vars(Evt)

FairSpec == Spec /\ Fairness
-----------------------------------------------------------------------------
(* Type invariant. *)
TypeOK ==
  /\ booted \in 0..Len(BootOrder)
  /\ rtc.magic \in BOOLEAN /\ rtc.count \in Nat /\ starts \in Nat
  /\ rx \in {"idle", "cleanup", "spawn"} /\ tasks \in [starting : Nat, ending : Nat]
  /\ conn \in {"stopped", "running"} /\ ip \in BOOLEAN
  /\ gotIps \in Nat /\ evt \in {"idle", "log", "api"}
  /\ server \in BOOLEAN /\ api_server \in BOOLEAN /\ http_err \in BOOLEAN
  /\ instances \in [log : Nat, api : Nat]
  /\ sockets \in [log : Nat, api : Nat, mqtt : {0, 1}, ota : {0, 1}]

(* No task that app_main has let loose uses what app_main has yet to set   *)
(* up: the receive task runs while app_main goes on (main.c:234,           *)
(* coredy_bridge_init, tuya_uart_init).                                    *)
NothingUsedUnready == ~unready

(* http_server_start() is "idempotent" (wifi_events.c:51) also when one of *)
(* the two servers failed before: no server is started on top of itself,   *)
(* and no handle is kept of one that does not run.                         *)
OneInstanceEach ==
  /\ instances.log = IF server THEN 1 ELSE 0
  /\ instances.api = IF api_server THEN 1 ELSE 0

(* "The OTA client must never be the thing that gets starved"              *)
(* (http_server.c:39): with both servers full and the cloud connected      *)
(* there is still a socket.                                                *)
OtaGetsSocket == ~starved

(* The boot counter of GET /status counts the starts since the power was   *)
(* last removed, whatever the RTC memory held before (diag.c:17).          *)
BootCountHonest == Done("diag") => rtc.count = starts

(* A network reset, or two, or one that races app_main, ends with the      *)
(* connection started again, unless a call that starts it failed.          *)
Reconnects ==
  <>[](conn = "running" \/ failed \cap {"st_conn_init", "st_conn_start", "xTaskCreate"} # {})

(* Both servers end up running, unless the last attempt of the handler     *)
(* failed, something they need never came about, or a reset was carried    *)
(* out while app_main had yet to register for the address it leads to.     *)
ServersComeUp == <>[]((server /\ api_server) \/ http_err \/ early \/ failed # {})
=============================================================================
