---------------------------- MODULE CoredyBridge ----------------------------
(***************************************************************************)
(* The bridge between the robot's STM32 and the SmartThings cloud          *)
(* (coredy_bridge.c with the capability modules caps_*.c and the callbacks *)
(* of main.c).  Three tasks of the ESP32 share the capabilities `cap` and  *)
(* the cache `s_pub` of what was last published:                           *)
(*                                                                         *)
(*   rx   tuya_uart_rx: turns DP reports into publications (on_dp)         *)
(*   cmd  STDK's command task: an app tap sets, transmits, publishes       *)
(*   st   STDK's status task: connects, publishes the initial values, and  *)
(*        runs coredy_bridge_on_st_status                                  *)
(*                                                                         *)
(* The robot, the cloud and STDK are external: they do what the code's     *)
(* use of them allows.  A step of a task ends where another task can see   *)
(* or change what it works on: after the cache test, after the locked set, *)
(* after the locked snapshot, after the publication, after each frame.     *)
(***************************************************************************)
EXTENDS DpMap

CONSTANTS
  DumpOrder,    \* the DPs of the robot, in the order query-all reports them
  DpValues,     \* the values each of them takes
  McuBoot,      \* the values they have at the start
  Attrs,        \* the attributes they drive
  Taps,         \* the app commands in play
  StMoves,      \* <<s, t>>: STDK may report status t after status s
  SendMayFail,  \* a publication may fail while the session is up
  Lossy,        \* frames may be lost on the UART
  McuMayReject, \* the robot may refuse a DP write
  MaxRx,        \* bound: DP records waiting in the receive ring
  MaxChanges, MaxBreaks, MaxTaps  \* bounds on external events

DPs == {DumpOrder[i] : i \in DOMAIN DumpOrder}

ASSUME DumpFits == DumpOrder \in Seq(Nat) /\ MaxRx \in Nat /\ Len(DumpOrder) <= MaxRx
ASSUME ValuesAreRaw ==
  \A d \in DPs : DpValues[d] \subseteq Nat /\ McuBoot[d] \in DpValues[d]
ASSUME SliceIsClosed ==
  /\ Attrs \subseteq AllAttrs
  /\ \A d \in DPs :
       /\ d \in OpStateDPs => "operatingState" \in Attrs
       /\ d = DP_ERROR => "hardwareFault" \in Attrs
       /\ d \in DOMAIN EnumTable => EnumTable[d].attr \in Attrs
       /\ d \in DOMAIN NumberAttr => NumberAttr[d] \in Attrs
ASSUME TapsAreCommands == Taps \subseteq AppTaps
(* "REINIT" is INIT reported again, after the network reset's
   st_conn_cleanup: the credentials are gone, so STDK is not connected before
   an onboarding status.  A lost session is reported as such. *)
ASSUME StatusOrder ==
  \A m \in StMoves :
    /\ m[2] = "INIT" => m[1] = "BOOT"
    /\ m[2] = "CONNECTED" => m[1] \notin {"REINIT", "CONNECTED"}

VARIABLES
  cap, s_pub, s_last, s_last_net_state, s_did_initial_query_all, s_cloud_connected,
  rx, cmd, st,
  rxq, txq,                       \* the UART, one direction each
  session, cloud,                 \* STDK's session and what the app shows
  mcu, mcuNet,                    \* the robot's DPs and its network icon
  budget,                         \* external events so far
  \* History:
  touched,                        \* attributes an app tap wrote since the last cache reset
  queries                         \* query-alls transmitted since STDK last changed status

bridgeVars == <<cap, s_pub, s_last, s_last_net_state, s_did_initial_query_all, s_cloud_connected>>
taskVars == <<rx, cmd, st>>
robotVars == <<mcu, mcuNet>>
vars == <<bridgeVars, taskVars, rxq, txq, session, cloud, robotVars, budget, touched, queries>>

IdleRx == [pc |-> "idle", attr |-> "none", val |-> "", then |-> FALSE, snap |-> ""]
IdleCmd == [pc |-> "idle", tap |-> Locate, snap |-> ""]
BootSt == [pc |-> "idle", left |-> {}, attr |-> "", snap |-> "", status |-> "BOOT"]

NoEvents == [changes |-> 0, breaks |-> 0, taps |-> 0]
Spend(event, max) == budget[event] < max /\ budget' = [budget EXCEPT ![event] = @ + 1]

Init ==
  /\ cap = [a \in Attrs |-> BootValue(a)]
  /\ s_pub = [a \in Attrs |-> Unpublished(a)]
  /\ s_last = NothingSeen
  /\ s_last_net_state = -1
  /\ s_did_initial_query_all = FALSE
  /\ s_cloud_connected = FALSE
  /\ rx = IdleRx /\ cmd = IdleCmd /\ st = BootSt
  /\ rxq = <<>> /\ txq = <<>>
  /\ session = "down"
  /\ cloud = [a \in Attrs |-> Unpublished(a)]
  /\ mcu = [d \in DPs |-> McuBoot[d]]
  /\ mcuNet = -1
  /\ budget = NoEvents
  /\ touched = [a \in Attrs |-> FALSE]
  /\ queries = 0

(* tuya_send_frame: one frame, whole (TuyaTx shows why). *)
Transmit(frame) ==
  /\ txq' = Append(txq, frame)
  /\ queries' = IF frame.cmd = 8 THEN queries + 1 ELSE queries
DpWrite(w) == [cmd |-> 6, dp |-> w.dp, val |-> w.val]
NetPush(state) == [cmd |-> 3, dp |-> 0, val |-> state]
QueryAll == [cmd |-> 8, dp |-> 0, val |-> 0]

(* ST_CAP_SEND_ATTR: fails without a session; a failure is only logged. *)
Publish(a, value) ==
  \/ session = "up" /\ cloud' = [cloud EXCEPT ![a] = value]
  \/ (session # "up" \/ SendMayFail) /\ UNCHANGED cloud

-----------------------------------------------------------------------------
(* The receive task. *)

(* A publication to test against the cache; `then` is set when on_dp still
   has to call update_operating_state afterwards. *)
Pending(a, value, then) ==
  [pc |-> "test", attr |-> a, val |-> value, then |-> then, snap |-> ""]

OpStateOr(then, last) ==
  IF then THEN Pending("operatingState", OpStateOf(last), FALSE) ELSE IdleRx

RxRecord ==
  /\ rx.pc = "idle" /\ rxq # <<>>
  /\ LET r == Head(rxq)
         then == r.dp \in OpStateDPs
     IN /\ s_last' = Remember(r.dp, r.val, s_last)
        /\ rx' = IF OwnAttr(r.dp, r.val) # "none"
                 THEN Pending(OwnAttr(r.dp, r.val), OwnValue(r.dp, r.val), then)
                 ELSE OpStateOr(then, s_last')
  /\ rxq' = Tail(rxq)
  /\ UNCHANGED <<cap, s_pub, s_last_net_state, s_did_initial_query_all, s_cloud_connected,
                 cmd, st, txq, session, cloud, robotVars, budget, touched, queries>>

NextPublication == OpStateOr(rx.then, s_last)

(* changed_str / changed_int: test the cache and update it. *)
Changed(a, value) == s_pub[a] # value

RxTest ==
  /\ rx.pc = "test"
  /\ IF Changed(rx.attr, rx.val)
     THEN s_pub' = [s_pub EXCEPT ![rx.attr] = rx.val] /\ rx' = [rx EXCEPT !.pc = "set"]
     ELSE rx' = NextPublication /\ UNCHANGED s_pub
  /\ UNCHANGED <<cap, s_last, s_last_net_state, s_did_initial_query_all, s_cloud_connected,
                 cmd, st, rxq, txq, session, cloud, robotVars, budget, touched, queries>>

RxSet ==
  /\ rx.pc = "set"
  /\ cap' = [cap EXCEPT ![rx.attr] = rx.val]
  /\ rx' = [rx EXCEPT !.pc = "snap"]
  /\ UNCHANGED <<s_pub, s_last, s_last_net_state, s_did_initial_query_all, s_cloud_connected,
                 cmd, st, rxq, txq, session, cloud, robotVars, budget, touched, queries>>

RxSnapshot ==
  /\ rx.pc = "snap"
  /\ rx' = [rx EXCEPT !.pc = "publish", !.snap = cap[rx.attr]]
  /\ UNCHANGED <<bridgeVars, cmd, st, rxq, txq, session, cloud, robotVars, budget, touched, queries>>

RxPublish ==
  /\ rx.pc = "publish"
  /\ Publish(rx.attr, rx.snap)
  /\ rx' = NextPublication
  /\ UNCHANGED <<bridgeVars, cmd, st, rxq, txq, session, robotVars, budget, touched, queries>>

RxStep == RxRecord \/ RxTest \/ RxSet \/ RxSnapshot \/ RxPublish
-----------------------------------------------------------------------------
(* The command task: caps_*_cmd_*_cb sets the value, runs main.c's user    *)
(* callback, and sends, with no lock held from one to the next.            *)

CmdTap(t) ==
  /\ cmd.pc = "idle" /\ session = "up"
  /\ Spend("taps", MaxTaps)
  /\ cmd' = [pc |-> "usr_cb", tap |-> t, snap |-> ""]
  /\ IF t.attr \in Attrs
     THEN cap' = [cap EXCEPT ![t.attr] = t.val] /\ touched' = [touched EXCEPT ![t.attr] = TRUE]
     ELSE UNCHANGED <<cap, touched>>
  /\ UNCHANGED <<s_pub, s_last, s_last_net_state, s_did_initial_query_all, s_cloud_connected,
                 rx, st, rxq, txq, session, cloud, robotVars, queries>>

(* The value an enum's user callback encodes is the one stored by now. *)
ValueAtCallback(t) == IF t.attr \in Attrs THEN cap[t.attr] ELSE t.val

(* Mutant: the momentary capability is sent like the others. *)
CmdUsrCbSendsAll ==
  /\ cmd.pc = "usr_cb"
  /\ Transmit(DpWrite(WriteOf(cmd.tap, ValueAtCallback(cmd.tap))))
  /\ cmd' = [cmd EXCEPT !.pc = "snap"]
  /\ UNCHANGED <<bridgeVars, rx, st, rxq, session, cloud, robotVars, budget, touched>>

CmdUsrCb ==
  /\ cmd.pc = "usr_cb"
  /\ Transmit(DpWrite(WriteOf(cmd.tap, ValueAtCallback(cmd.tap))))
  /\ cmd' = IF cmd.tap.attr \in Attrs THEN [cmd EXCEPT !.pc = "snap"] ELSE IdleCmd
  /\ UNCHANGED <<bridgeVars, rx, st, rxq, session, cloud, robotVars, budget, touched>>

CmdSnapshot ==
  /\ cmd.pc = "snap"
  /\ cmd' = [cmd EXCEPT !.pc = "publish", !.snap = cap[cmd.tap.attr]]
  /\ UNCHANGED <<bridgeVars, rx, st, rxq, txq, session, cloud, robotVars, budget, touched, queries>>

CmdPublish ==
  /\ cmd.pc = "publish"
  /\ Publish(cmd.tap.attr, cmd.snap)
  /\ cmd' = IdleCmd
  /\ UNCHANGED <<bridgeVars, rx, st, rxq, txq, session, robotVars, budget, touched, queries>>

CmdStep == CmdUsrCb \/ CmdSnapshot \/ CmdPublish
-----------------------------------------------------------------------------
(* The status task. *)

(* STDK changes state; on a new session it first calls every init_cb.  It
   leaves the connected state only after losing the session. *)
StMove(s) ==
  /\ st.pc = "idle" /\ <<st.status, s>> \in StMoves
  /\ st.status = "CONNECTED" => session = "lost"
  /\ session' = IF s = "CONNECTED" THEN "up" ELSE "down"
  /\ st' = IF s = "CONNECTED" THEN [BootSt EXCEPT !.pc = "init", !.left = Attrs, !.status = s]
           ELSE [BootSt EXCEPT !.pc = "status", !.status = s]
  /\ queries' = 0
  /\ UNCHANGED <<bridgeVars, rx, cmd, rxq, txq, cloud, robotVars, budget, touched>>

(* The init_cb of an attribute: snapshot under the lock, then publish. *)
StInitSnapshot(a) ==
  /\ st.pc = "init" /\ a \in st.left
  /\ st' = [st EXCEPT !.pc = "init_publish", !.left = @ \ {a}, !.attr = a, !.snap = cap[a]]
  /\ UNCHANGED <<bridgeVars, rx, cmd, rxq, txq, session, cloud, robotVars, budget, touched, queries>>

StInitPublish ==
  /\ st.pc = "init_publish"
  /\ Publish(st.attr, st.snap)
  /\ st' = [st EXCEPT !.pc = IF st.left = {} THEN "status" ELSE "init", !.attr = "", !.snap = ""]
  /\ UNCHANGED <<bridgeVars, rx, cmd, rxq, txq, session, robotVars, budget, touched, queries>>

NetState ==
  [s \in {"READY", "START", "NEED_CONFIRM", "ONBOARDED", "DISCONNECTED", "CONNECTED"} |->
     IF s = "CONNECTED" THEN 4 ELSE IF s = "DISCONNECTED" THEN 3
     ELSE IF s = "ONBOARDED" THEN 2 ELSE 0]

(* INIT has no icon: "nothing meaningful to report yet". *)
Statuses == DOMAIN NetState \cup {"INIT", "REINIT"}

(* Mutant: the push waits for the cloud. *)
PushNetStateOnline(s) ==
  /\ s_last_net_state' = NetState[s]
  /\ IF s = "CONNECTED" THEN Transmit(NetPush(NetState[s])) ELSE UNCHANGED <<txq, queries>>

(* The icon is pushed only when it changes. *)
PushNetState(s) ==
  IF NetState[s] # s_last_net_state
  THEN s_last_net_state' = NetState[s] /\ Transmit(NetPush(NetState[s]))
  ELSE UNCHANGED <<s_last_net_state, txq, queries>>

(* Mutant: a lost session does not arm the next query-all. *)
DidAfterNeverRearmed(s) == s = "CONNECTED" \/ s_did_initial_query_all

DidAfter(s) == s = "CONNECTED"

StIgnored ==
  /\ st.pc = "status" /\ st.status \notin DOMAIN NetState
  /\ s_cloud_connected' = FALSE
  /\ st' = [st EXCEPT !.pc = "idle"]
  /\ UNCHANGED <<cap, s_pub, s_last, s_last_net_state, s_did_initial_query_all,
                 rx, cmd, rxq, txq, session, cloud, robotVars, budget, touched, queries>>

StStatus ==
  /\ st.pc = "status" /\ st.status \in DOMAIN NetState
  /\ s_cloud_connected' = (st.status = "CONNECTED")
  /\ PushNetState(st.status)
  /\ s_did_initial_query_all' = DidAfter(st.status)
  /\ st' = [st EXCEPT !.pc = IF st.status = "CONNECTED" /\ ~s_did_initial_query_all
                             THEN "reset" ELSE "idle"]
  /\ UNCHANGED <<cap, s_pub, s_last, rx, cmd, rxq, session, cloud, robotVars, budget, touched>>

(* Mutants: the query-all is sent with the cache as it is; and not at all. *)
StResetKeepsCache ==
  /\ st.pc = "reset"
  /\ touched' = [a \in Attrs |-> cmd.pc # "idle" /\ cmd.tap.attr = a]
  /\ st' = [st EXCEPT !.pc = "query"]
  /\ UNCHANGED <<bridgeVars, rx, cmd, rxq, txq, session, cloud, robotVars, budget, queries>>
StResetSkipsQuery ==
  /\ st.pc = "reset"
  /\ s_pub' = [a \in Attrs |-> Unpublished(a)]
  /\ touched' = [a \in Attrs |-> cmd.pc # "idle" /\ cmd.tap.attr = a]
  /\ st' = [st EXCEPT !.pc = "idle"]
  /\ UNCHANGED <<cap, s_last, s_last_net_state, s_did_initial_query_all, s_cloud_connected,
                 rx, cmd, rxq, txq, session, cloud, robotVars, budget, queries>>

(* reset_publish_cache(), then the query-all frame.  A tap still in its    *)
(* handler keeps its attribute touched.                                    *)
StReset ==
  /\ st.pc = "reset"
  /\ s_pub' = [a \in Attrs |-> Unpublished(a)]
  /\ touched' = [a \in Attrs |-> cmd.pc # "idle" /\ cmd.tap.attr = a]
  /\ st' = [st EXCEPT !.pc = "query"]
  /\ UNCHANGED <<cap, s_last, s_last_net_state, s_did_initial_query_all, s_cloud_connected,
                 rx, cmd, rxq, txq, session, cloud, robotVars, budget, queries>>

StQuery ==
  /\ st.pc = "query"
  /\ Transmit(QueryAll)
  /\ st' = [st EXCEPT !.pc = "idle"]
  /\ UNCHANGED <<bridgeVars, rx, cmd, rxq, session, cloud, robotVars, budget, touched>>

StStep == (\E a \in Attrs : StInitSnapshot(a)) \/ StInitPublish \/ StIgnored \/ StStatus
          \/ StReset \/ StQuery
-----------------------------------------------------------------------------
(* The robot, the network and the power supply. *)

Report(d, v) == [dp |-> d, val |-> v]
Room(n) == Len(rxq) + n <= MaxRx
espVars == <<bridgeVars, taskVars>>

(* Unchanged DPs are re-reported at any time ... *)
McuReport(d) ==
  /\ Room(1) /\ rxq' = Append(rxq, Report(d, mcu[d]))
  /\ UNCHANGED <<espVars, txq, session, cloud, robotVars, budget, touched, queries>>

(* ... and a change is reported as it happens. *)
McuChange(d, v) ==
  /\ v # mcu[d] /\ Room(1) /\ Spend("changes", MaxChanges)
  /\ mcu' = [mcu EXCEPT ![d] = v]
  /\ rxq' = Append(rxq, Report(d, v))
  /\ UNCHANGED <<espVars, txq, session, cloud, mcuNet, touched, queries>>

Dump == [i \in DOMAIN DumpOrder |-> Report(DumpOrder[i], mcu[DumpOrder[i]])]

(* A DP write is echoed: with the new value, or with the old one when the
   robot refuses it. *)
McuWrite(f, accept) ==
  /\ f.cmd = 6 /\ f.dp \in DPs /\ Room(1)
  /\ IF accept THEN f.val \in DpValues[f.dp]
     ELSE McuMayReject \/ f.val \notin DpValues[f.dp]
  /\ mcu' = IF accept THEN [mcu EXCEPT ![f.dp] = f.val] ELSE mcu
  /\ rxq' = Append(rxq, Report(f.dp, mcu'[f.dp]))
  /\ UNCHANGED mcuNet

McuAnswer(f) ==
  \/ f.cmd = 3 /\ mcuNet' = f.val /\ UNCHANGED <<mcu, rxq>>
  \/ f.cmd = 8 /\ Room(Len(DumpOrder)) /\ rxq' = rxq \o Dump /\ UNCHANGED robotVars
  \/ f.cmd = 6 /\ f.dp \notin DPs /\ UNCHANGED <<robotVars, rxq>>
  \/ \E accept \in BOOLEAN : McuWrite(f, accept)

McuReceive ==
  /\ txq # <<>> /\ McuAnswer(Head(txq)) /\ txq' = Tail(txq)
  /\ UNCHANGED <<espVars, session, cloud, budget, touched, queries>>

LoseTx ==
  /\ Lossy /\ txq # <<>> /\ txq' = Tail(txq)
  /\ UNCHANGED <<espVars, rxq, session, cloud, robotVars, budget, touched, queries>>

LoseRx ==
  /\ Lossy /\ rxq # <<>> /\ rxq' = Tail(rxq)
  /\ UNCHANGED <<espVars, txq, session, cloud, robotVars, budget, touched, queries>>

(* The session breaks, or st_conn_cleanup ends it; STDK reports it later. *)
LinkLost ==
  /\ session = "up" /\ Spend("breaks", MaxBreaks)
  /\ session' = "lost"
  /\ UNCHANGED <<espVars, rxq, txq, cloud, robotVars, touched, queries>>

(* The ESP32 restarts: everything it keeps is in RAM. *)
Reboot ==
  /\ Spend("breaks", MaxBreaks)
  /\ cap' = [a \in Attrs |-> BootValue(a)]
  /\ s_pub' = [a \in Attrs |-> Unpublished(a)]
  /\ s_last' = NothingSeen
  /\ s_last_net_state' = -1
  /\ s_did_initial_query_all' = FALSE
  /\ s_cloud_connected' = FALSE
  /\ rx' = IdleRx /\ cmd' = IdleCmd /\ st' = BootSt
  /\ rxq' = <<>> /\ session' = "down"
  /\ touched' = [a \in Attrs |-> FALSE] /\ queries' = 0
  /\ UNCHANGED <<txq, cloud, robotVars>>

Next ==
  \/ RxStep
  \/ CmdStep \/ \E t \in Taps : CmdTap(t)
  \/ StStep \/ \E s \in Statuses : StMove(s)
  \/ \E d \in DPs : McuReport(d) \/ \E v \in DpValues[d] : McuChange(d, v)
  \/ McuReceive \/ LoseTx \/ LoseRx
  \/ LinkLost \/ Reboot

Spec == Init /\ [][Next]_vars

(* Each task runs when it can; STDK keeps trying to connect; the robot     *)
(* answers (strongly: its own re-reports may fill the bounded ring between *)
(* two openings).  Nothing makes it re-report, the app tap or a link break. *)
Fairness ==
  /\ WF_vars(RxStep) /\ WF_vars(CmdStep) /\ WF_vars(StStep)
  /\ WF_vars(\E s \in Statuses : StMove(s))
  /\ SF_vars(McuReceive)

FairSpec == Spec /\ Fairness
-----------------------------------------------------------------------------
(* Properties. *)

RxPcs == {"idle", "test", "set", "snap", "publish"}
CmdPcs == {"idle", "usr_cb", "snap", "publish"}
StPcs == {"idle", "init", "init_publish", "status", "reset", "query"}

(* Type invariant. *)
TypeOK ==
  /\ DOMAIN cap = Attrs /\ DOMAIN s_pub = Attrs /\ DOMAIN cloud = Attrs
  /\ touched \in [Attrs -> BOOLEAN]
  /\ s_last_net_state \in {-1} \cup {NetState[s] : s \in DOMAIN NetState}
  /\ s_did_initial_query_all \in BOOLEAN /\ s_cloud_connected \in BOOLEAN
  /\ queries \in Nat
  /\ DOMAIN rx = DOMAIN IdleRx /\ DOMAIN cmd = DOMAIN IdleCmd /\ DOMAIN st = DOMAIN BootSt
  /\ rx.pc \in RxPcs /\ rx.then \in BOOLEAN
  /\ rx.pc # "idle" => rx.attr \in Attrs
  /\ rx.then => "operatingState" \in Attrs
  /\ cmd.pc \in CmdPcs /\ (cmd.pc \in {"snap", "publish"} => cmd.tap.attr \in Attrs)
  /\ st.pc \in StPcs /\ st.left \subseteq Attrs /\ st.status \in Statuses \cup {"BOOT"}
  /\ st.pc = "init_publish" => st.attr \in Attrs
  /\ session \in {"down", "up", "lost"}
  /\ rxq \in Seq([dp : DPs, val : Nat]) /\ Len(rxq) <= MaxRx
  /\ mcu \in [DPs -> Nat]

Settled == rx.pc = "idle" /\ st.pc = "idle" /\ session = "up"

(* What the cache suppresses is on the app's screen: once nothing is being *)
(* published, a cached value the user has not overwritten is what the      *)
(* cloud shows.  A suppressed report is then truly redundant               *)
(* (changed_str, reset_publish_cache, the hydration at each reconnect).    *)
SuppressionSound ==
  Settled => \A a \in Attrs :
    ~touched[a] /\ s_pub[a] # Unpublished(a) => cloud[a] = s_pub[a]

(* The app never shows a robot with an obstruction as running or charging: *)
(* once both tiles have been published since the last reset, they agree,   *)
(* although they are published one after the other from three DPs.         *)
FaultAndStateAgree ==
  Settled /\ {"hardwareFault", "operatingState"} \subseteq Attrs =>
    LET stuck == {FaultName[k] : k \in StuckBits}
        fresh(a) == ~touched[a] /\ s_pub[a] # Unpublished(a)
    IN fresh("hardwareFault") /\ fresh("operatingState") =>
         (cloud["hardwareFault"] \cap stuck # {} <=> cloud["operatingState"] = "stuck")

(* Once no push is on its way, the robot's network icon shows the last     *)
(* state pushed: suppressing equal pushes loses nothing (on_st_status).    *)
IconInStep ==
  s_last_net_state # -1 /\ (\A i \in DOMAIN txq : txq[i].cmd # 3) => mcuNet = s_last_net_state

(* A session is hydrated exactly once: by the time the handler of the      *)
(* connected status is done one query-all has been transmitted, no second  *)
(* one follows until STDK changes status, and none goes out in any other   *)
(* status, whatever came before (s_did_initial_query_all, on_st_status).   *)
HydratedOncePerSession ==
  /\ queries <= 1
  /\ st.pc = "idle" => queries = IF st.status = "CONNECTED" THEN 1 ELSE 0

(* The value a callback of main.c:98-111 finds is always one it can        *)
(* encode, whoever stored it: the "unknown value, not sending" of          *)
(* coredy_bridge.c:495 never swallows a tap, and what is transmitted is    *)
(* the code of the word that the tile holds at that moment.                *)
ReadBackEncodable ==
  cmd.pc = "usr_cb" /\ ~cmd.tap.fixed =>
    ValueAtCallback(cmd.tap) \in DOMAIN CodeTable[cmd.tap.write.dp]

(* What the app shows for an attribute, when the DP values say anything. *)
Shows(a) ==
  CASE a = "operatingState" ->
         {OperatingState(mcu[DP_ERROR], mcu[DP_STATUS], mcu[DP_ACTIVATE])}
    [] a = "hardwareFault" -> {FaultSummary(mcu[DP_ERROR])}
    [] a \in NumberAttrs -> {AsInt(mcu[d]) : d \in {e \in DPs \cap DOMAIN NumberAttr : NumberAttr[e] = a}}
    [] OTHER -> UNION {IF mcu[d] \in DOMAIN EnumTable[d].of THEN {EnumTable[d].of[mcu[d]]} ELSE {}
                         : d \in {e \in DPs \cap DOMAIN EnumTable : EnumTable[e].attr = a}}

(* The app and the robot converge: when changes, breaks, restarts and taps *)
(* stop, an attribute no tap overwrote ends up showing the robot's DPs,    *)
(* although unchanged DPs need never be re-reported, and the robot's icon  *)
(* ends up showing "connected to the cloud".  It is what the cache reset   *)
(* immediately before each query-all is for.                               *)
Converges ==
  <>[](/\ \A a \in Attrs : touched[a] \/ Shows(a) = {} \/ cloud[a] \in Shows(a)
       /\ mcuNet = NetState["CONNECTED"])

(* Nothing is under way in a session: no task is publishing, no frame is   *)
(* on the UART.                                                            *)
Quiet == Settled /\ cmd.pc = "idle" /\ rxq = <<>> /\ txq = <<>>

(* coredy_bridge.c:37, "Last value actually published to SmartThings, per  *)
(* attribute": once everything is answered and published, the cache holds  *)
(* what the cloud shows, taps or not.                                      *)
CacheIsLastPublished ==
  Quiet => \A a \in Attrs : s_pub[a] # Unpublished(a) => cloud[a] = s_pub[a]
=============================================================================
