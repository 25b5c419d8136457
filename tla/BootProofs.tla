----------------------------- MODULE BootProofs -----------------------------
(***************************************************************************)
(* For any number of boots, resets, lost links and failing calls: nothing  *)
(* that app_main lets loose uses what is not set up, no server is started  *)
(* twice, the boot counter counts, and, whatever the sizes of the pools,   *)
(* as long as all of them fit together the update client gets its socket.  *)
(*                                                                         *)
(* NothingUsedUnready rests on the order of BootOrder, and on no address   *)
(* being passed on before there is somebody to pass it to (HeardInv).      *)
(* OtaGetsSocket is not inductive: a socket is left because no server has  *)
(* more than its pool (PoolsInv), and only one of each kind runs.          *)
(***************************************************************************)
EXTENDS Boot, TLAPS

HeardInv == gotIps > 0 => Done("wifi_events")

PoolsInv == sockets.log <= Pool("log") /\ sockets.api <= Pool("api")

CounterInv ==
  /\ rtc.magic => rtc.count = starts
  /\ ~rtc.magic => starts = 0
  /\ Done("diag") => rtc.magic

(* Both servers with full pools, STDK's session and the update client.     *)
AllFit == 3 * 2 + HTTP_LOG_MAX_SOCKETS + HTTP_API_MAX_SOCKETS + 2 <= LWIP_MAX_SOCKETS
-----------------------------------------------------------------------------
(* The order in which app_main does things. *)

LEMMA Order ==
  /\ Len(BootOrder) = 14
  /\ BootOrder[1] = "log_buffer" /\ BootOrder[2] = "caps_lock"
  /\ BootOrder[3] = "unknown_store" /\ BootOrder[4] = "diag"
  /\ BootOrder[5] = "st_conn_init" /\ BootOrder[6] = "capabilities"
  /\ BootOrder[7] = "callbacks" /\ BootOrder[8] = "tx_lock" /\ BootOrder[9] = "rx_task"
  /\ BootOrder[10] = "reset_callback" /\ BootOrder[11] = "heartbeat" /\ BootOrder[12] = "ota"
  /\ BootOrder[13] = "wifi_events" /\ BootOrder[14] = "connect"
BY DEF BootOrder

(* Something is done when app_main has come past its place. *)
LEMMA DonePast ==
  ASSUME booted \in 0..14
  PROVE  /\ Done("log_buffer") <=> booted >= 1
         /\ Done("caps_lock") <=> booted >= 2
         /\ Done("unknown_store") <=> booted >= 3
         /\ Done("diag") <=> booted >= 4
         /\ Done("capabilities") <=> booted >= 6
         /\ Done("callbacks") <=> booted >= 7
         /\ Done("tx_lock") <=> booted >= 8
         /\ Done("rx_task") <=> booted >= 9
         /\ Done("wifi_events") <=> booted >= 13
<1>1. \A i \in 1..booted : i \in 1..14
  OBVIOUS
<1>2. ASSUME NEW k \in 1..14
      PROVE  booted >= k <=> k \in 1..booted
  OBVIOUS
<1>3. Done("log_buffer") <=> booted >= 1
  BY <1>1, <1>2, Order DEF Done
<1>4. Done("caps_lock") <=> booted >= 2
  BY <1>1, <1>2, Order DEF Done
<1>5. Done("unknown_store") <=> booted >= 3
  BY <1>1, <1>2, Order DEF Done
<1>6. Done("diag") <=> booted >= 4
  BY <1>1, <1>2, Order DEF Done
<1>7. Done("capabilities") <=> booted >= 6
  BY <1>1, <1>2, Order DEF Done
<1>8. Done("callbacks") <=> booted >= 7
  BY <1>1, <1>2, Order DEF Done
<1>9. Done("tx_lock") <=> booted >= 8
  BY <1>1, <1>2, Order DEF Done
<1>10. Done("rx_task") <=> booted >= 9
  BY <1>1, <1>2, Order DEF Done
<1>11. Done("wifi_events") <=> booted >= 13
  BY <1>1, <1>2, Order DEF Done
<1> QED BY <1>3, <1>4, <1>5, <1>6, <1>7, <1>8, <1>9, <1>10, <1>11

(* app_main does one thing after the other, what is done stays done, and   *)
(* only diag_init() makes "diag" done.                                     *)
LEMMA MainGoesOn ==
  ASSUME booted \in 0..14, AppMain
  PROVE  /\ booted' \in 0..14
         /\ Done("wifi_events") => Done("wifi_events")'
         /\ DiagInit \/ (UNCHANGED <<rtc, starts>> /\ (Done("diag")' => Done("diag")))
<1> DEFINE Next_(x) == booted < 14 /\ booted' = booted + 1 /\ BootOrder[booted + 1] = x
<1>1. ASSUME NEW x, Step(x) PROVE Next_(x)
  BY <1>1, Order DEF Step
<1>2. DiagInit \/ (UNCHANGED <<rtc, starts>> /\ \E x : x # "diag" /\ Next_(x))
  <2>1. CASE SetUp
    <3>1. PICK x \in Plain : Step(x)
      BY <2>1 DEF SetUp
    <3>2. x # "diag"
      BY DEF Plain
    <3> QED BY <2>1, <3>1, <3>2, <1>1 DEF SetUp
  <2>2. CASE StConnInit
    BY <2>2, <1>1, "st_conn_init" # "diag" DEF StConnInit
  <2>3. CASE RegisterEvents
    BY <2>3, <1>1, "wifi_events" # "diag" DEF RegisterEvents
  <2>4. CASE Connect
    BY <2>4, <1>1, "connect" # "diag" DEF Connect
  <2> QED BY <2>1, <2>2, <2>3, <2>4 DEF AppMain
<1>3. PICK x : Next_(x)
  BY <1>1, <1>2 DEF DiagInit
<1>4. booted' \in 0..14 /\ \A i \in 1..booted : i \in 1..booted'
  BY <1>3
<1>5. Done("wifi_events") => Done("wifi_events")'
  BY <1>4 DEF Done
<1>6. ASSUME NEW y, y # "diag", Next_(y), Done("diag")' PROVE Done("diag")
  <2>1. PICK i \in 1..booted' : BootOrder[i] = "diag"
    BY <1>6 DEF Done
  <2>2. i \in 1..booted
    BY <1>6, <2>1
  <2> QED BY <2>1, <2>2 DEF Done
<1> HIDE DEF Next_
<1> QED BY <1>2, <1>4, <1>5, <1>6

(* What is done does not change when app_main does not move. *)
LEMMA DoneUnchanged ==
  ASSUME booted' = booted, NEW x
  PROVE  Done(x)' <=> Done(x)
BY DEF Done
-----------------------------------------------------------------------------
(* Who writes what: each part of the state changes only in a few actions.  *)

Restarts == \E powerCycle \in BOOLEAN : Restart(powerCycle)

LEMMA WhoBoots ==
  [Next]_vars => AppMain \/ Restarts \/ UNCHANGED bootVars
BY SMT DEF Next, vars, Restarts, RxReport, RxReset, RxCleanup, RxSpawn, TaskStarts, TaskEnds,
   GotIp, LostIp, Evt, EvtStart, EvtLog, EvtApi, Browse, Leave, Mqtt, OtaOpen, OtaClose

LEMMA WhoConnects ==
  [Next]_vars =>
    \/ Connect \/ RxReset \/ RxCleanup \/ RxSpawn \/ TaskStarts \/ TaskEnds \/ GotIp \/ LostIp
    \/ Restarts \/ UNCHANGED <<connVars, ip>>
BY SMT DEF Next, vars, Restarts, AppMain, SetUp, DiagInit, StConnInit, RegisterEvents,
   RxReport, Evt, EvtStart, EvtLog, EvtApi, Browse, Leave, Mqtt, OtaOpen, OtaClose

LEMMA WhoHears ==
  [Next]_vars => GotIp \/ EvtStart \/ Restarts \/ UNCHANGED gotIps
BY SMT DEF Next, vars, Restarts, AppMain, SetUp, DiagInit, StConnInit, RegisterEvents, Connect,
   RxReport, RxReset, RxCleanup, RxSpawn, TaskStarts, TaskEnds,
   LostIp, Evt, EvtLog, EvtApi, Browse, Leave, Mqtt, OtaOpen, OtaClose

LEMMA WhoServes ==
  [Next]_vars => Evt \/ Restarts \/ UNCHANGED httpVars
BY SMT DEF Next, vars, Restarts, AppMain, SetUp, DiagInit, StConnInit, RegisterEvents, Connect,
   RxReport, RxReset, RxCleanup, RxSpawn, TaskStarts, TaskEnds,
   GotIp, LostIp, Browse, Leave, Mqtt, OtaOpen, OtaClose

LEMMA WhoUses ==
  [Next]_vars => RxReport \/ RxReset \/ EvtStart \/ Restarts \/ UNCHANGED unready
BY SMT DEF Next, vars, Restarts, AppMain, SetUp, DiagInit, StConnInit, RegisterEvents, Connect,
   RxCleanup, RxSpawn, TaskStarts, TaskEnds,
   GotIp, LostIp, Evt, EvtLog, EvtApi, Browse, Leave, Mqtt, OtaOpen, OtaClose

LEMMA WhoOpensAndCloses ==
  [Next]_vars =>
    \/ RxCleanup \/ LostIp \/ \E s \in {"log", "api"} : Browse(s) \/ Leave(s)
    \/ Mqtt \/ OtaOpen \/ OtaClose
    \/ Restarts \/ UNCHANGED <<sockets, starved>>
BY SMT DEF Next, vars, Restarts, AppMain, SetUp, DiagInit, StConnInit, RegisterEvents, Connect,
   RxReport, RxReset, RxSpawn, TaskStarts, TaskEnds,
   GotIp, Evt, EvtStart, EvtLog, EvtApi
-----------------------------------------------------------------------------
(* Types, part by part. *)

LEMMA TypeInit == Init => TypeOK
<1> SUFFICES ASSUME Init PROVE TypeOK
  OBVIOUS
<1>1. rtc \in [magic : {FALSE}, count : {0, 7}]
  BY DEF Init
<1>4. rtc.magic \in BOOLEAN
  BY <1>1
<1>5. rtc.count \in Nat
  BY <1>1
<1>6. ip \in BOOLEAN /\ server \in BOOLEAN /\ api_server \in BOOLEAN /\ http_err \in BOOLEAN
  BY DEF Init
<1>2. instances \in [log : Nat, api : Nat] /\ tasks \in [starting : Nat, ending : Nat]
  BY DEF Init
<1>3. sockets \in [log : Nat, api : Nat, mqtt : {0, 1}, ota : {0, 1}]
  BY DEF Init, NoSockets
<1> QED BY <1>2, <1>3, <1>4, <1>5, <1>6, Order DEF Init, TypeOK

(* A restart loses everything but the RTC memory, and may lose that. *)
LEMMA RestartClears ==
  ASSUME Restarts
  PROVE  /\ booted' = 0 /\ rx' = "idle" /\ tasks' = [starting |-> 0, ending |-> 0]
         /\ conn' = "stopped" /\ ip' = FALSE /\ gotIps' = 0
         /\ evt' = "idle" /\ server' = FALSE /\ api_server' = FALSE /\ http_err' = FALSE
         /\ instances' = [log |-> 0, api |-> 0] /\ sockets' = NoSockets
         /\ starved' = FALSE /\ unready' = FALSE
         /\ \/ UNCHANGED <<rtc, starts>>
            \/ rtc' \in [magic : {FALSE}, count : {0, 7}] /\ starts' = 0
<1>1. PICK powerCycle \in BOOLEAN : Restart(powerCycle)
  BY DEF Restarts
<1>2. UNCHANGED <<rtc, starts>> \/ (rtc' \in [magic : {FALSE}, count : {0, 7}] /\ starts' = 0)
  BY <1>1 DEF Restart
<1> QED BY <1>1, <1>2 DEF Restart

LEMMA TypeStep == TypeOK /\ [Next]_vars => TypeOK'
<1> SUFFICES ASSUME TypeOK, [Next]_vars PROVE TypeOK'
  OBVIOUS
<1>1. booted \in 0..14
  BY Order DEF TypeOK
<1>2. DiagInit \/ UNCHANGED <<rtc, starts>> \/ Restarts
  BY <1>1, WhoBoots, MainGoesOn DEF bootVars
<1>3. booted' \in 0..14
  <2>1. CASE AppMain
    BY <1>1, <2>1, MainGoesOn
  <2>2. CASE Restarts
    BY <2>2, RestartClears
  <2>3. CASE UNCHANGED bootVars
    BY <1>1, <2>3 DEF bootVars
  <2> QED BY <2>1, <2>2, <2>3, WhoBoots
<1> starts \in Nat /\ rtc.count \in Nat
  BY DEF TypeOK
<1>4. starts' \in Nat
  <2>1. CASE DiagInit
    BY <2>1 DEF DiagInit
  <2>2. CASE UNCHANGED <<rtc, starts>>
    BY <2>2
  <2>3. CASE Restarts
    <3>1. UNCHANGED <<rtc, starts>> \/ (rtc' \in [magic : {FALSE}, count : {0, 7}] /\ starts' = 0)
      BY <2>3, RestartClears
    <3>2. CASE rtc' \in [magic : {FALSE}, count : {0, 7}] /\ starts' = 0
      BY <3>2
    <3> QED BY <2>2, <3>1, <3>2
  <2> QED BY <2>1, <2>2, <2>3, <1>2
<1>5. rtc'.magic \in BOOLEAN
  <2>1. CASE DiagInit
    BY <2>1 DEF TypeOK, DiagInit
  <2>2. CASE UNCHANGED <<rtc, starts>>
    BY <2>2 DEF TypeOK
  <2>3. CASE Restarts
    BY <2>3, RestartClears DEF TypeOK
  <2> QED BY <2>1, <2>2, <2>3, <1>2
<1>6. rtc'.count \in Nat
  <2>1. CASE DiagInit
    BY <2>1 DEF DiagInit
  <2>2. CASE UNCHANGED <<rtc, starts>>
    BY <2>2
  <2>3. CASE Restarts
    <3>1. UNCHANGED <<rtc, starts>> \/ (rtc' \in [magic : {FALSE}, count : {0, 7}] /\ starts' = 0)
      BY <2>3, RestartClears
    <3>2. CASE rtc' \in [magic : {FALSE}, count : {0, 7}] /\ starts' = 0
      BY <3>2
    <3> QED BY <2>2, <3>1, <3>2
  <2> QED BY <2>1, <2>2, <2>3, <1>2
<1>7. rx' \in {"idle", "cleanup", "spawn"} /\ conn' \in {"stopped", "running"} /\ ip' \in BOOLEAN
  <2>1. CASE Connect
    BY <2>1 DEF TypeOK, Connect, StConnStart
  <2>2. CASE RxReset
    BY <2>2 DEF TypeOK, RxReset
  <2>3. CASE RxCleanup
    BY <2>3 DEF TypeOK, RxCleanup
  <2>4. CASE RxSpawn
    BY <2>4 DEF TypeOK, RxSpawn
  <2>5. CASE TaskStarts
    BY <2>5 DEF TypeOK, TaskStarts, StConnStart
  <2>6. CASE TaskEnds
    BY <2>6 DEF TypeOK, TaskEnds
  <2>7. CASE GotIp
    BY <2>7 DEF TypeOK, GotIp, connVars
  <2>8. CASE LostIp
    BY <2>8 DEF TypeOK, LostIp, connVars
  <2>9. CASE Restarts
    BY <2>9, RestartClears DEF TypeOK
  <2>10. CASE UNCHANGED <<connVars, ip>>
    BY <2>10 DEF TypeOK, connVars
  <2> QED BY <2>1, <2>2, <2>3, <2>4, <2>5, <2>6, <2>7, <2>8, <2>9, <2>10, WhoConnects
<1>8. tasks' \in [starting : Nat, ending : Nat]
  <2>1. CASE Connect
    BY <2>1 DEF TypeOK, Connect, StConnStart
  <2>2. CASE RxReset
    BY <2>2 DEF TypeOK, RxReset
  <2>3. CASE RxCleanup
    BY <2>3 DEF TypeOK, RxCleanup
  <2>4. CASE RxSpawn
    BY <2>4 DEF TypeOK, RxSpawn
  <2>5. CASE TaskStarts
    BY <2>5 DEF TypeOK, TaskStarts, StConnStart
  <2>6. CASE TaskEnds
    BY <2>6 DEF TypeOK, TaskEnds
  <2>7. CASE GotIp
    BY <2>7 DEF TypeOK, GotIp, connVars
  <2>8. CASE LostIp
    BY <2>8 DEF TypeOK, LostIp, connVars
  <2>9. CASE Restarts
    BY <2>9, RestartClears DEF TypeOK
  <2>10. CASE UNCHANGED <<connVars, ip>>
    BY <2>10 DEF TypeOK, connVars
  <2> QED BY <2>1, <2>2, <2>3, <2>4, <2>5, <2>6, <2>7, <2>8, <2>9, <2>10, WhoConnects
<1>9. gotIps' \in Nat
  <2>1. CASE GotIp
    BY <2>1 DEF TypeOK, GotIp
  <2>2. CASE EvtStart
    BY <2>2 DEF TypeOK, EvtStart
  <2>3. CASE Restarts
    BY <2>3, RestartClears DEF TypeOK
  <2>4. CASE UNCHANGED gotIps
    BY <2>4 DEF TypeOK
  <2> QED BY <2>1, <2>2, <2>3, <2>4, WhoHears
<1>10. instances' \in [log : Nat, api : Nat]
  <2>1. CASE EvtStart
    BY <2>1 DEF TypeOK, EvtStart
  <2>2. CASE EvtLog
    BY <2>2 DEF TypeOK, EvtLog
  <2>3. CASE EvtApi
    BY <2>3 DEF TypeOK, EvtApi
  <2>4. CASE Restarts
    BY <2>4, RestartClears DEF TypeOK
  <2>5. CASE UNCHANGED httpVars
    BY <2>5 DEF TypeOK, httpVars
  <2> QED BY <2>1, <2>2, <2>3, <2>4, <2>5, WhoServes DEF Evt
<1>11. evt' \in {"idle", "log", "api"} /\ server' \in BOOLEAN /\ api_server' \in BOOLEAN /\ http_err' \in BOOLEAN
  <2>1. CASE EvtStart
    BY <2>1 DEF TypeOK, EvtStart
  <2>2. CASE EvtLog
    BY <2>2 DEF TypeOK, EvtLog
  <2>3. CASE EvtApi
    BY <2>3 DEF TypeOK, EvtApi
  <2>4. CASE Restarts
    BY <2>4, RestartClears DEF TypeOK
  <2>5. CASE UNCHANGED httpVars
    BY <2>5 DEF TypeOK, httpVars
  <2> QED BY <2>1, <2>2, <2>3, <2>4, <2>5, WhoServes DEF Evt
<1>12. sockets' \in [log : Nat, api : Nat, mqtt : {0, 1}, ota : {0, 1}]
  <2>1. ASSUME NEW s \in {"log", "api"}, Browse(s) PROVE sockets' \in [log : Nat, api : Nat, mqtt : {0, 1}, ota : {0, 1}]
    BY <2>1, SocketsAreNat DEF TypeOK, Browse, Pool
  <2>2. ASSUME NEW s \in {"log", "api"}, Leave(s) PROVE sockets' \in [log : Nat, api : Nat, mqtt : {0, 1}, ota : {0, 1}]
    BY <2>2 DEF TypeOK, Leave
  <2>3. CASE RxCleanup \/ LostIp \/ Mqtt \/ OtaOpen \/ OtaClose \/ UNCHANGED <<sockets, starved>>
    BY <2>3 DEF TypeOK, RxCleanup, LostIp, Mqtt, OtaOpen, OtaClose
  <2>4. CASE Restarts
    BY <2>4, RestartClears DEF NoSockets
  <2> QED BY <2>1, <2>2, <2>3, <2>4, WhoOpensAndCloses
<1> QED BY <1>3, <1>4, <1>5, <1>6, <1>7, <1>8, <1>9, <1>10, <1>11, <1>12, Order DEF TypeOK

(* Type correctness, for any bounds and any sizes of the pools. *)
THEOREM TypeCorrect == Spec => []TypeOK
BY TypeInit, TypeStep, PTL DEF Spec
-----------------------------------------------------------------------------
(* Nothing is used that is not set up. *)

LEMMA ReadyInit == Init => HeardInv /\ NothingUsedUnready
BY DEF Init, HeardInv, NothingUsedUnready

LEMMA HeardStep == TypeOK /\ HeardInv /\ [Next]_vars => HeardInv'
<1> SUFFICES ASSUME TypeOK, HeardInv, [Next]_vars PROVE HeardInv'
  OBVIOUS
<1>1. booted \in 0..14 /\ gotIps \in Nat
  BY Order DEF TypeOK
<1>2. CASE Restarts
  BY <1>2, RestartClears DEF HeardInv
<1>3. ASSUME ~Restarts PROVE Done("wifi_events") => Done("wifi_events")'
  BY <1>1, <1>3, WhoBoots, MainGoesOn, DoneUnchanged DEF bootVars
<1>4. ASSUME ~Restarts, gotIps' > 0 PROVE Done("wifi_events")
  <2>1. CASE GotIp
    BY <1>1, <1>4, <2>1 DEF GotIp, Listening, HeardInv
  <2>2. CASE EvtStart
    BY <2>2 DEF EvtStart, HeardInv
  <2>3. CASE UNCHANGED gotIps
    BY <1>4, <2>3 DEF HeardInv
  <2> QED BY <1>4, <2>1, <2>2, <2>3, WhoHears
<1> QED BY <1>2, <1>3, <1>4 DEF HeardInv

LEMMA ReadyStep ==
  TypeOK /\ HeardInv /\ NothingUsedUnready /\ [Next]_vars => NothingUsedUnready'
<1> SUFFICES ASSUME TypeOK, HeardInv, NothingUsedUnready, [Next]_vars PROVE NothingUsedUnready'
  OBVIOUS
<1>1. booted \in 0..14 /\ gotIps \in Nat
  BY Order DEF TypeOK
<1>2. ASSUME NEW things, Uses(things), \A x \in things : Done(x) PROVE ~unready'
  BY <1>2 DEF Uses, NothingUsedUnready
<1>3. CASE RxReport
  <2>1. booted >= 9
    BY <1>1, <1>3, DonePast DEF RxReport, RxReady
  <2>2. \A x \in {"log_buffer", "caps_lock", "unknown_store", "capabilities", "callbacks", "tx_lock"} : Done(x)
    BY <1>1, <2>1, DonePast
  <2> QED BY <1>2, <1>3, <2>2 DEF RxReport, NothingUsedUnready
<1>4. CASE RxReset
  <2>1. booted >= 9
    BY <1>1, <1>4, DonePast DEF RxReset, RxReady
  <2>2. \A x \in {"callbacks", "tx_lock"} : Done(x)
    BY <1>1, <2>1, DonePast
  <2> QED BY <1>2, <1>4, <2>2 DEF RxReset, NothingUsedUnready
<1>5. CASE EvtStart
  <2>1. booted >= 13
    BY <1>1, <1>5, DonePast DEF EvtStart, HeardInv
  <2>2. \A x \in {"log_buffer", "unknown_store"} : Done(x)
    BY <1>1, <2>1, DonePast
  <2> QED BY <1>2, <1>5, <2>2 DEF EvtStart, NothingUsedUnready
<1>6. CASE Restarts
  BY <1>6, RestartClears DEF NothingUsedUnready
<1>7. CASE UNCHANGED unready
  BY <1>7 DEF NothingUsedUnready
<1> QED BY <1>3, <1>4, <1>5, <1>6, <1>7, WhoUses

(* No task that app_main has let loose, whenever the robot or the access   *)
(* point speak, uses what app_main has yet to set up.                      *)
THEOREM OrderSuffices == Spec => []NothingUsedUnready
<1>1. TypeOK /\ HeardInv /\ NothingUsedUnready /\ [Next]_vars => (HeardInv /\ NothingUsedUnready)'
  BY HeardStep, ReadyStep
<1> QED BY <1>1, ReadyInit, TypeCorrect, PTL DEF Spec
-----------------------------------------------------------------------------
(* The servers and the counter. *)

LEMMA ServersStep == TypeOK /\ OneInstanceEach /\ [Next]_vars => OneInstanceEach'
<1> SUFFICES ASSUME TypeOK, OneInstanceEach, [Next]_vars PROVE OneInstanceEach'
  OBVIOUS
<1>1. CASE EvtStart
  BY <1>1 DEF EvtStart, OneInstanceEach
<1>2. CASE EvtLog
  BY <1>2 DEF EvtLog, TypeOK, OneInstanceEach
<1>3. CASE EvtApi
  BY <1>3 DEF EvtApi, TypeOK, OneInstanceEach
<1>4. CASE Restarts
  BY <1>4, RestartClears DEF OneInstanceEach
<1>5. CASE UNCHANGED httpVars
  BY <1>5 DEF httpVars, OneInstanceEach
<1> QED BY <1>1, <1>2, <1>3, <1>4, <1>5, WhoServes DEF Evt

(* However often the address comes back and whichever start fails, no      *)
(* server is started on top of itself, and every handle is of one that     *)
(* runs.                                                                   *)
THEOREM StartIsIdempotent == Spec => []OneInstanceEach
<1>1. Init => OneInstanceEach
  BY DEF Init, OneInstanceEach
<1> QED BY <1>1, ServersStep, TypeCorrect, PTL DEF Spec

LEMMA CounterInit == Init => CounterInv
<1> SUFFICES ASSUME Init PROVE CounterInv
  OBVIOUS
<1>1. rtc.magic = FALSE /\ starts = 0
  BY DEF Init
<1>2. ~Done("diag")
  BY DEF Init, Done
<1> QED BY <1>1, <1>2 DEF CounterInv

LEMMA CounterStep == TypeOK /\ CounterInv /\ [Next]_vars => CounterInv'
<1> SUFFICES ASSUME TypeOK, CounterInv, [Next]_vars PROVE CounterInv'
  OBVIOUS
<1>1. booted \in 0..14
  BY Order DEF TypeOK
<1>2. CASE DiagInit
  <2>1. rtc'.magic = TRUE
    BY <1>2 DEF DiagInit
  <2>2. rtc'.count = IF rtc.magic THEN rtc.count + 1 ELSE 1
    BY <1>2 DEF DiagInit
  <2>3. starts' = starts + 1
    BY <1>2 DEF DiagInit
  <2>4. rtc'.count = starts'
    BY <2>2, <2>3 DEF CounterInv
  <2> QED BY <2>1, <2>4 DEF CounterInv
<1>3. CASE UNCHANGED <<rtc, starts>> /\ (Done("diag")' => Done("diag"))
  BY <1>3 DEF CounterInv
<1>4. CASE Restarts
  <2>1. ~Done("diag")'
    BY <1>4, RestartClears DEF Done
  <2>2. CASE UNCHANGED <<rtc, starts>>
    BY <2>1, <2>2 DEF CounterInv
  <2>3. CASE rtc' \in [magic : {FALSE}, count : {0, 7}] /\ starts' = 0
    BY <2>1, <2>3 DEF CounterInv
  <2> QED BY <1>4, <2>2, <2>3, RestartClears
<1>5. CASE UNCHANGED bootVars
  BY <1>5, DoneUnchanged DEF bootVars, CounterInv
<1> QED BY <1>1, <1>2, <1>3, <1>4, <1>5, WhoBoots, MainGoesOn

(* What GET /status shows is the number of starts since the power came on, *)
(* however many those are and whatever the RTC memory held.                *)
THEOREM CounterCounts == Spec => []BootCountHonest
<1>1. CounterInv => BootCountHonest
  BY DEF CounterInv, BootCountHonest
<1> QED BY <1>1, CounterInit, CounterStep, TypeCorrect, PTL DEF Spec
-----------------------------------------------------------------------------
(* A socket for the update client. *)

LEMMA PoolsInit == Init => PoolsInv
BY SocketsAreNat DEF Init, PoolsInv, Pool, NoSockets

LEMMA PoolsStep == TypeOK /\ PoolsInv /\ [Next]_vars => PoolsInv'
<1> SUFFICES ASSUME TypeOK, PoolsInv, [Next]_vars PROVE PoolsInv'
  OBVIOUS
<1> USE SocketsAreNat DEF PoolsInv, Pool
<1> sockets \in [log : Nat, api : Nat, mqtt : {0, 1}, ota : {0, 1}]
  BY DEF TypeOK
<1>1. CASE RxCleanup
  BY <1>1 DEF RxCleanup
<1>2. CASE LostIp
  BY <1>2 DEF LostIp
<1>3. ASSUME NEW s \in {"log", "api"}, Browse(s) PROVE PoolsInv'
  BY <1>3 DEF Browse
<1>4. ASSUME NEW s \in {"log", "api"}, Leave(s) PROVE PoolsInv'
  BY <1>4 DEF Leave
<1>5. CASE Mqtt
  BY <1>5 DEF Mqtt
<1>6. CASE OtaOpen
  BY <1>6 DEF OtaOpen
<1>7. CASE OtaClose
  BY <1>7 DEF OtaClose
<1>8. CASE Restarts
  BY <1>8, RestartClears DEF NoSockets
<1>9. CASE UNCHANGED <<sockets, starved>>
  BY <1>9
<1> QED BY <1>1, <1>2, <1>3, <1>4, <1>5, <1>6, <1>7, <1>8, <1>9, WhoOpensAndCloses

LEMMA SocketStep ==
  AllFit /\ TypeOK /\ OneInstanceEach /\ PoolsInv /\ OtaGetsSocket /\ [Next]_vars => OtaGetsSocket'
<1> SUFFICES ASSUME AllFit, TypeOK, OneInstanceEach, PoolsInv, OtaGetsSocket, [Next]_vars
             PROVE  OtaGetsSocket'
  OBVIOUS
<1>1. ASSUME OtaOpen PROVE InUse < LWIP_MAX_SOCKETS
  <2>1. instances.log \in 0..1 /\ instances.api \in 0..1
    BY DEF OneInstanceEach
  <2>2. sockets.log \in 0..HTTP_LOG_MAX_SOCKETS /\ sockets.api \in 0..HTTP_API_MAX_SOCKETS
    BY SocketsAreNat DEF TypeOK, PoolsInv, Pool
  <2>3. sockets.mqtt = 1 /\ sockets.ota = 0
    BY <1>1 DEF OtaOpen
  <2> QED BY <2>1, <2>2, <2>3, SocketsAreNat DEF InUse, AllFit
<1>2. CASE OtaOpen
  <2>1. InUse \in Nat
    BY DEF TypeOK, InUse
  <2>2. ~(InUse >= LWIP_MAX_SOCKETS)
    BY <1>1, <1>2, <2>1, SocketsAreNat
  <2> QED BY <1>2, <2>2 DEF OtaOpen, OtaGetsSocket
<1>3. CASE Restarts
  BY <1>3, RestartClears DEF OtaGetsSocket
<1>4. ASSUME NEW s \in {"log", "api"}, Browse(s) \/ Leave(s) PROVE OtaGetsSocket'
  BY <1>4 DEF Browse, Leave, OtaGetsSocket
<1>5. CASE RxCleanup \/ LostIp \/ Mqtt \/ OtaClose
  BY <1>5 DEF RxCleanup, LostIp, Mqtt, OtaClose, OtaGetsSocket
<1>6. CASE UNCHANGED <<sockets, starved>>
  BY <1>6 DEF OtaGetsSocket
<1> QED BY <1>2, <1>3, <1>4, <1>5, <1>6, WhoOpensAndCloses

(* "The OTA client must never be the thing that gets starved"              *)
(* (http_server.c:39): if both servers with full pools, the cloud and the  *)
(* client itself fit, as 4 + 3 in 16 do, it never is.                      *)
THEOREM OtaNeverStarved == AllFit => (Spec => []OtaGetsSocket)
<1>1. Init => OtaGetsSocket
  BY DEF Init, OtaGetsSocket
<1>2. Spec => []PoolsInv
  BY PoolsInit, PoolsStep, TypeCorrect, PTL DEF Spec
<1> SUFFICES ASSUME AllFit PROVE Spec => []OtaGetsSocket
  OBVIOUS
<1>3. TypeOK /\ OneInstanceEach /\ PoolsInv /\ OtaGetsSocket /\ [Next]_vars => OtaGetsSocket'
  BY SocketStep
<1> QED BY <1>1, <1>2, <1>3, TypeCorrect, StartIsIdempotent, PTL DEF Spec
=============================================================================
