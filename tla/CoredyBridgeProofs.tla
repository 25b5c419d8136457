------------------------- MODULE CoredyBridgeProofs -------------------------
(***************************************************************************)
(* Proofs about CoredyBridge, for every robot, set of attributes, set of   *)
(* taps and every bound: type correctness, that each session is hydrated   *)
(* exactly once, that the network icon follows on a wire that loses        *)
(* nothing, and, when publications on a live session do not fail, that the *)
(* cache suppresses only what the cloud already shows and that the fault   *)
(* and status tiles agree.                                                 *)
(***************************************************************************)
EXTENDS CoredyBridge, SequenceTheorems, TLAPS

LEMMA StatusesAre ==
  Statuses = {"READY", "START", "NEED_CONFIRM", "ONBOARDED", "DISCONNECTED", "CONNECTED",
              "INIT", "REINIT"}
PROOF BY DEF Statuses, NetState

(* What on_dp publishes is an attribute of the slice. *)
LEMMA OwnAttrInSlice ==
  ASSUME NEW d \in DPs, NEW v, OwnAttr(d, v) # "none"
  PROVE  OwnAttr(d, v) \in Attrs
PROOF BY SliceIsClosed, SMT DEF OwnAttr

LEMMA OpStateInSlice ==
  ASSUME NEW d \in DPs, d \in OpStateDPs
  PROVE  "operatingState" \in Attrs
PROOF BY SliceIsClosed

LEMMA RawValues ==
  ASSUME NEW d \in DPs
  PROVE  McuBoot[d] \in Nat /\ \A v \in DpValues[d] : v \in Nat
PROOF BY ValuesAreRaw

LEMMA DPsAreNat == DPs \subseteq Nat
PROOF BY DumpFits, ElementOfSeq DEF DPs

Records == [dp : DPs, val : Nat]

LEMMA DumpIsRecords ==
  ASSUME TypeOK
  PROVE  Dump \in Seq(Records) /\ Len(Dump) = Len(DumpOrder)
<1>1. DOMAIN DumpOrder = 1..Len(DumpOrder) /\ Len(DumpOrder) \in Nat
  BY DumpFits
<1>2. \A i \in 1..Len(DumpOrder) : DumpOrder[i] \in DPs /\ mcu[DumpOrder[i]] \in Nat
  BY <1>1 DEF DPs, TypeOK
<1>3. Dump \in [1..Len(DumpOrder) -> Records]
  BY <1>1, <1>2 DEF Dump, Report, Records
<1> QED
  BY <1>1, <1>3, SeqDef

LEMMA InitType == Init => TypeOK
<1> SUFFICES ASSUME Init PROVE TypeOK
  OBVIOUS
<1>1. mcu \in [DPs -> Nat]
  BY RawValues DEF Init
<1>2. rxq \in Seq([dp : DPs, val : Nat]) /\ Len(rxq) <= MaxRx
  BY DumpFits, EmptySeq DEF Init
<1> QED
  BY <1>1, <1>2, StatusesAre
     DEF Init, TypeOK, IdleRx, IdleCmd, BootSt, RxPcs, CmdPcs, StPcs

(* The part of TypeOK about the receive task's own record. *)
RxType(r) ==
  /\ DOMAIN r = DOMAIN IdleRx
  /\ r.pc \in RxPcs /\ r.then \in BOOLEAN
  /\ r.pc # "idle" => r.attr \in Attrs
  /\ r.then => "operatingState" \in Attrs

LEMMA PendingType ==
  ASSUME NEW a \in Attrs, NEW v, NEW then \in BOOLEAN, then => "operatingState" \in Attrs
  PROVE  RxType(Pending(a, v, then))
PROOF BY DEF RxType, Pending, IdleRx, RxPcs

LEMMA OpStateOrType ==
  ASSUME NEW last, NEW then \in BOOLEAN, then => "operatingState" \in Attrs
  PROVE  RxType(OpStateOr(then, last))
<1>1. CASE then
  BY <1>1, PendingType DEF OpStateOr
<1>2. CASE ~then
  BY <1>2 DEF OpStateOr, RxType, IdleRx, RxPcs
<1> QED BY <1>1, <1>2

(* The receive task takes a record and starts its first publication. *)
LEMMA RxRecordType ==
  ASSUME TypeOK, RxRecord
  PROVE  TypeOK'
<1>1. Head(rxq) \in [dp : DPs, val : Nat] /\ Tail(rxq) \in Seq([dp : DPs, val : Nat])
      /\ Len(Tail(rxq)) = Len(rxq) - 1 /\ Len(rxq) \in Nat
  BY HeadTailProperties, LenProperties DEF TypeOK, RxRecord
<1> DEFINE d == Head(rxq).dp  v == Head(rxq).val  then == d \in OpStateDPs
<1>2. rx' = IF OwnAttr(d, v) # "none" THEN Pending(OwnAttr(d, v), OwnValue(d, v), then)
            ELSE OpStateOr(then, s_last')
  BY DEF RxRecord
<1>3. then => "operatingState" \in Attrs
  BY <1>1, OpStateInSlice
<1>4. OwnAttr(d, v) # "none" => OwnAttr(d, v) \in Attrs
  BY <1>1, OwnAttrInSlice
<1>5. RxType(rx')
  <2>1. then \in BOOLEAN
    OBVIOUS
  <2> HIDE DEF d, v, then
  <2> QED BY <1>2, <1>3, <1>4, <2>1, PendingType, OpStateOrType
<1>6. rxq' \in Seq([dp : DPs, val : Nat]) /\ Len(rxq') <= MaxRx
  BY <1>1, DumpFits DEF RxRecord, TypeOK
<1> QED
  BY <1>5, <1>6 DEF TypeOK, RxType, RxRecord, robotVars

(* The rest of the receive task. *)
LEMMA RxRestType ==
  ASSUME TypeOK, RxTest \/ RxSet \/ RxSnapshot \/ RxPublish
  PROVE  TypeOK'
<1>1. RxType(NextPublication)
  BY OpStateOrType DEF NextPublication, TypeOK
<1>2. RxType(rx')
  <2>1. CASE rx' = NextPublication
    BY <1>1, <2>1
  <2>2. CASE rx' # NextPublication
    BY <2>2 DEF RxTest, RxSet, RxSnapshot, RxPublish, TypeOK, RxType, RxPcs, IdleRx
  <2> QED BY <2>1, <2>2
<1>3. DOMAIN cap' = Attrs /\ DOMAIN s_pub' = Attrs /\ DOMAIN cloud' = Attrs
  BY DEF TypeOK, RxTest, RxSet, RxSnapshot, RxPublish, Publish, bridgeVars
<1>4. UNCHANGED <<s_last_net_state, s_did_initial_query_all, s_cloud_connected,
                 cmd, st, rxq, session, mcu, touched, queries>>
  BY DEF RxTest, RxSet, RxSnapshot, RxPublish, bridgeVars, robotVars
<1> QED
  BY <1>2, <1>3, <1>4 DEF TypeOK, RxType

LEMMA CmdType ==
  ASSUME TypeOK, CmdStep \/ \E t \in Taps : CmdTap(t)
  PROVE  TypeOK'
<1>1. CASE \E t \in Taps : CmdTap(t)
  <2> PICK t \in Taps : CmdTap(t)
    BY <1>1
  <2>1. DOMAIN cap' = Attrs /\ touched' \in [Attrs -> BOOLEAN]
    BY DEF TypeOK, CmdTap
  <2>2. DOMAIN cmd' = DOMAIN IdleCmd /\ cmd'.pc = "usr_cb"
    BY DEF CmdTap, IdleCmd
  <2>3. UNCHANGED <<s_pub, s_last_net_state, s_did_initial_query_all, s_cloud_connected,
                   rx, st, rxq, session, cloud, mcu, queries>>
    BY DEF CmdTap, robotVars
  <2> QED BY <2>1, <2>2, <2>3 DEF TypeOK, CmdPcs
<1>2. CASE CmdUsrCb
  <2>1. queries' \in Nat
    BY <1>2 DEF TypeOK, CmdUsrCb, Transmit
  <2> QED BY <1>2, <2>1 DEF TypeOK, CmdUsrCb, CmdPcs, IdleCmd, bridgeVars, robotVars
<1>3. CASE CmdSnapshot
  BY <1>3 DEF TypeOK, CmdSnapshot, CmdPcs, IdleCmd, bridgeVars, robotVars
<1>4. CASE CmdPublish
  BY <1>4 DEF TypeOK, CmdPublish, Publish, CmdPcs, IdleCmd, bridgeVars, robotVars
<1> QED BY <1>1, <1>2, <1>3, <1>4 DEF CmdStep

LEMMA StType ==
  ASSUME TypeOK, StStep \/ \E s \in Statuses : StMove(s)
  PROVE  TypeOK'
<1>1. CASE \E s \in Statuses : StMove(s)
  <2>0. queries' = 0 /\ (session' = "up" \/ session' = "down")
    BY <1>1 DEF StMove
  <2>1. queries' \in Nat /\ session' \in {"down", "up"}
    BY <2>0
  <2>2. /\ DOMAIN st' = DOMAIN BootSt /\ st'.pc \in {"init", "status"}
        /\ st'.left \subseteq Attrs /\ st'.status \in Statuses
    BY <1>1 DEF StMove, BootSt
  <2>3. UNCHANGED <<cap, s_pub, s_last_net_state, s_did_initial_query_all, s_cloud_connected,
                   rx, cmd, rxq, cloud, mcu, touched>>
    BY <1>1 DEF StMove, bridgeVars, robotVars
  <2> QED BY <2>1, <2>2, <2>3 DEF TypeOK, StPcs
<1>2. CASE \E a \in Attrs : StInitSnapshot(a)
  BY <1>2 DEF TypeOK, StInitSnapshot, StPcs, BootSt, bridgeVars, robotVars
<1>3. CASE StInitPublish
  BY <1>3 DEF TypeOK, StInitPublish, Publish, StPcs, BootSt, bridgeVars, robotVars
<1>4. CASE StIgnored
  BY <1>4 DEF TypeOK, StIgnored, StPcs, BootSt, robotVars
<1>5. CASE StStatus
  BY <1>5 DEF TypeOK, StStatus, PushNetState, Transmit, DidAfter, StPcs, BootSt, robotVars
<1>6. CASE StReset
  BY <1>6 DEF TypeOK, StReset, StPcs, BootSt, robotVars
<1>7. CASE StQuery
  BY <1>7 DEF TypeOK, StQuery, Transmit, StPcs, BootSt, bridgeVars, robotVars
<1> QED BY <1>1, <1>2, <1>3, <1>4, <1>5, <1>6, <1>7 DEF StStep

Robot == (\E d \in DPs : McuReport(d) \/ \E v \in DpValues[d] : McuChange(d, v)) \/ McuReceive

LEMMA RobotType ==
  ASSUME TypeOK, Robot
  PROVE  TypeOK'
<1> DEFINE RT == Seq([dp : DPs, val : Nat])
<1>1. rxq' \in RT /\ Len(rxq') <= MaxRx /\ mcu' \in [DPs -> Nat]
  <2>0. rxq \in RT /\ Len(rxq) \in Nat
    BY LenProperties DEF TypeOK
  <2>a. ASSUME NEW r \in [dp : DPs, val : Nat], Room(1)
        PROVE  Append(rxq, r) \in RT /\ Len(Append(rxq, r)) <= MaxRx
    BY <2>0, <2>a, DumpFits DEF Room
  <2>1. CASE \E d \in DPs : McuReport(d)
    <3> PICK d \in DPs : McuReport(d)
      BY <2>1
    <3>1. Report(d, mcu[d]) \in [dp : DPs, val : Nat]
      BY DEF TypeOK, Report
    <3> QED BY <2>a, <3>1 DEF McuReport, TypeOK, robotVars
  <2>2. CASE \E d \in DPs : \E v \in DpValues[d] : McuChange(d, v)
    <3> PICK d \in DPs : \E v \in DpValues[d] : McuChange(d, v)
      BY <2>2
    <3> PICK v \in DpValues[d] : McuChange(d, v)
      OBVIOUS
    <3>1. Report(d, v) \in [dp : DPs, val : Nat]
      BY RawValues DEF Report
    <3> QED BY <2>a, <3>1, RawValues DEF McuChange, TypeOK
  <2>3. CASE McuReceive
    <3> DEFINE f == Head(txq)
    <3>1. McuAnswer(f)
      BY <2>3 DEF McuReceive
    <3>2. CASE f.cmd = 8 /\ Room(Len(DumpOrder)) /\ rxq' = rxq \o Dump /\ UNCHANGED robotVars
      <4>1. Dump \in RT /\ Len(Dump) = Len(DumpOrder)
        BY DumpIsRecords DEF Records
      <4>2. rxq \o Dump \in RT /\ Len(rxq \o Dump) = Len(rxq) + Len(Dump)
        BY <2>0, <4>1, ConcatProperties
      <4> QED BY <3>2, <4>1, <4>2 DEF Room, TypeOK, robotVars
    <3>3. CASE \E accept \in BOOLEAN : McuWrite(f, accept)
      <4> PICK accept \in BOOLEAN : McuWrite(f, accept)
        BY <3>3
      <4> HIDE DEF f
      <4>1. mcu' \in [DPs -> Nat] /\ f.dp \in DPs
        BY RawValues DEF McuWrite, TypeOK
      <4>2. Report(f.dp, mcu'[f.dp]) \in [dp : DPs, val : Nat]
        BY <4>1 DEF Report
      <4> QED BY <2>a, <4>1, <4>2 DEF McuWrite
    <3> QED BY <2>0, <3>1, <3>2, <3>3 DEF McuAnswer, robotVars, TypeOK
  <2> QED BY <2>1, <2>2, <2>3 DEF Robot
<1>2. UNCHANGED <<espVars, session, cloud, touched, queries>>
  BY DEF Robot, McuReport, McuChange, McuReceive
<1> QED
  BY <1>1, <1>2 DEF TypeOK, espVars, bridgeVars, taskVars

Outside == LoseTx \/ LoseRx \/ LinkLost \/ Reboot

LEMMA OutsideType ==
  ASSUME TypeOK, Outside
  PROVE  TypeOK'
<1>1. CASE LoseTx
  BY <1>1 DEF TypeOK, LoseTx, espVars, bridgeVars, taskVars, robotVars
<1>2. CASE LoseRx
  <2>1. Tail(rxq) \in Seq([dp : DPs, val : Nat]) /\ Len(Tail(rxq)) = Len(rxq) - 1
        /\ Len(rxq) \in Nat
    BY <1>2, HeadTailProperties, LenProperties DEF TypeOK, LoseRx
  <2>2. rxq' \in Seq([dp : DPs, val : Nat]) /\ Len(rxq') <= MaxRx
    BY <1>2, <2>1, DumpFits DEF LoseRx, TypeOK
  <2> QED BY <1>2, <2>2 DEF TypeOK, LoseRx, espVars, bridgeVars, taskVars, robotVars
<1>3. CASE LinkLost
  BY <1>3 DEF TypeOK, LinkLost, espVars, bridgeVars, taskVars, robotVars
<1>4. CASE Reboot
  <2>1. rxq' \in Seq([dp : DPs, val : Nat]) /\ Len(rxq') <= MaxRx
    BY <1>4, EmptySeq, DumpFits DEF Reboot
  <2> QED BY <1>4, <2>1, StatusesAre
             DEF TypeOK, Reboot, IdleRx, IdleCmd, BootSt, RxPcs, CmdPcs, StPcs, robotVars
<1> QED BY <1>1, <1>2, <1>3, <1>4 DEF Outside

(* The actions of Next by the actor that takes them. *)
LEMMA NextCases ==
  Next <=> \/ RxRecord \/ (RxTest \/ RxSet \/ RxSnapshot \/ RxPublish)
           \/ (CmdStep \/ \E t \in Taps : CmdTap(t))
           \/ (StStep \/ \E s \in Statuses : StMove(s))
           \/ Robot \/ Outside
PROOF BY DEF Next, RxStep, Robot, Outside

(* TypeOK is an invariant, whatever the robot, the attributes, the taps    *)
(* and the order of statuses.                                              *)
THEOREM TypeCorrect == Spec => []TypeOK
<1>1. Init => TypeOK
  BY InitType
<1>2. TypeOK /\ [Next]_vars => TypeOK'
  <2> SUFFICES ASSUME TypeOK, [Next]_vars PROVE TypeOK'
    OBVIOUS
  <2>1. CASE Next
    BY <2>1, NextCases, RxRecordType, RxRestType, CmdType, StType, RobotType, OutsideType
  <2>2. CASE UNCHANGED vars
    BY <2>2 DEF TypeOK, vars, bridgeVars, taskVars, robotVars
  <2> QED BY <2>1, <2>2
<1> QED BY <1>1, <1>2, PTL DEF Spec

-----------------------------------------------------------------------------
(* Hydration.  The latch is FALSE whenever a connected status is still to  *)
(* be processed, so that one always leads to a query-all, and it is TRUE   *)
(* on the way there; `queries` counts what went out on the wire.  After a  *)
(* repeated INIT the latch may still be set: the onboarding clears it.     *)
LatchInv ==
  /\ st.status \in {"BOOT", "INIT"} => ~s_did_initial_query_all
  /\ st.pc = "idle" /\ st.status \in DOMAIN NetState =>
       s_did_initial_query_all = (st.status = "CONNECTED")
  /\ st.pc \in {"init", "init_publish"} => st.status = "CONNECTED"
  /\ st.pc \in {"init", "init_publish", "status"} /\ st.status = "CONNECTED" =>
       ~s_did_initial_query_all
  /\ st.pc \in {"reset", "query"} => st.status = "CONNECTED" /\ s_did_initial_query_all
  /\ session = "up" => st.status = "CONNECTED"

QueriesInv == queries = IF st.pc = "idle" /\ st.status = "CONNECTED" THEN 1 ELSE 0

HydrationInv == LatchInv /\ QueriesInv

stVars == <<s_did_initial_query_all, st>>

LEMMA HydrationInit == Init => HydrationInv
<1> SUFFICES ASSUME Init PROVE HydrationInv
  OBVIOUS
<1>1. /\ st.pc = "idle" /\ st.status = "BOOT" /\ queries = 0
      /\ ~s_did_initial_query_all /\ session = "down"
  BY DEF Init, BootSt
<1> QED BY <1>1, StatusesAre DEF HydrationInv, LatchInv, QueriesInv, Statuses

(* Only the status task, a break and a restart touch what it is about. *)
LEMMA HydrationFrame ==
  ASSUME HydrationInv, UNCHANGED stVars, queries' = queries, session' \in {session, "lost"}
  PROVE  HydrationInv'
PROOF BY DEF HydrationInv, LatchInv, QueriesInv, stVars

(* A tap and an icon push are no query-all. *)
LEMMA OtherFrames ==
  /\ \A t, value : Transmit(DpWrite(WriteOf(t, value))) => queries' = queries
  /\ \A s : PushNetState(s) => queries' = queries
PROOF BY DEF Transmit, DpWrite, NetPush, PushNetState

LEMMA LatchSt ==
  ASSUME TypeOK, HydrationInv, StStep \/ \E s \in Statuses : StMove(s)
  PROVE  LatchInv'
<1> USE DEF HydrationInv
<1>1. CASE \E s \in Statuses : StMove(s)
  <2> PICK s \in Statuses : StMove(s)
    BY <1>1
  <2>1. st.pc = "idle" /\ <<st.status, s>> \in StMoves
    BY DEF StMove
  <2>2. s = "INIT" => st.status = "BOOT"
    BY <2>1, StatusOrder
  <2>3. s = "CONNECTED" => st.status \notin {"REINIT", "CONNECTED"}
    BY <2>1, StatusOrder
  <2>4. ~s_did_initial_query_all \/ st.status \in {"REINIT", "CONNECTED"}
    BY <2>1, StatusesAre DEF LatchInv, TypeOK, Statuses
  <2>5. /\ st'.status = s /\ st'.pc = IF s = "CONNECTED" THEN "init" ELSE "status"
        /\ session' = IF s = "CONNECTED" THEN "up" ELSE "down"
        /\ s_did_initial_query_all' = s_did_initial_query_all
    BY DEF StMove, BootSt, bridgeVars
  <2>6. CASE s = "CONNECTED"
    BY <2>3, <2>4, <2>5, <2>6 DEF LatchInv
  <2>7. CASE s = "INIT"
    BY <2>2, <2>5, <2>7 DEF LatchInv
  <2>8. CASE s \notin {"CONNECTED", "INIT"}
    BY <2>5, <2>8, StatusesAre DEF LatchInv
  <2> QED BY <2>6, <2>7, <2>8
<1>2. CASE \E a \in Attrs : StInitSnapshot(a)
  BY <1>2 DEF LatchInv, TypeOK, StInitSnapshot, BootSt, bridgeVars
<1>3. CASE StInitPublish
  BY <1>3 DEF LatchInv, TypeOK, StInitPublish, BootSt, bridgeVars
<1>4. CASE StIgnored
  BY <1>4 DEF LatchInv, TypeOK, StIgnored, BootSt
<1>5. CASE StStatus
  BY <1>5 DEF LatchInv, TypeOK, StStatus, DidAfter, BootSt, NetState
<1>6. CASE StReset
  BY <1>6 DEF LatchInv, TypeOK, StReset, BootSt
<1>7. CASE StQuery
  BY <1>7 DEF LatchInv, TypeOK, StQuery, BootSt, bridgeVars
<1> QED BY <1>1, <1>2, <1>3, <1>4, <1>5, <1>6, <1>7 DEF StStep

(* The one query-all of a session is the step from "query" to "idle"; a    *)
(* connected status is not done before, as the latch leads it there.       *)
LEMMA QueriesSt ==
  ASSUME TypeOK, HydrationInv, StStep \/ \E s \in Statuses : StMove(s)
  PROVE  QueriesInv'
<1> USE DEF HydrationInv
<1>1. CASE \E s \in Statuses : StMove(s)
  BY <1>1 DEF StMove, BootSt, QueriesInv
<1>2. CASE \E a \in Attrs : StInitSnapshot(a)
  BY <1>2 DEF QueriesInv, TypeOK, StInitSnapshot, BootSt
<1>3. CASE StInitPublish
  BY <1>3 DEF QueriesInv, TypeOK, StInitPublish, BootSt
<1>4. CASE StIgnored
  <2>1. st.status # "CONNECTED"
    BY <1>4 DEF StIgnored, NetState
  <2> QED BY <1>4, <2>1 DEF QueriesInv, TypeOK, StIgnored, BootSt
<1>5. CASE StStatus
  <2>1. queries' = queries
    BY <1>5, OtherFrames DEF StStatus
  <2>2. st.status = "CONNECTED" => st'.pc = "reset"
    BY <1>5 DEF StStatus, LatchInv, TypeOK, BootSt
  <2> QED BY <1>5, <2>1, <2>2 DEF QueriesInv, TypeOK, StStatus, BootSt
<1>6. CASE StReset
  BY <1>6 DEF QueriesInv, TypeOK, StReset, BootSt
<1>7. CASE StQuery
  <2>1. queries = 0 /\ queries' = queries + 1
    BY <1>7 DEF StQuery, Transmit, QueryAll, QueriesInv
  <2>2. st.status = "CONNECTED" /\ st'.status = "CONNECTED" /\ st'.pc = "idle"
    BY <1>7 DEF StQuery, LatchInv, TypeOK, BootSt
  <2> QED BY <2>1, <2>2 DEF QueriesInv
<1> QED BY <1>1, <1>2, <1>3, <1>4, <1>5, <1>6, <1>7 DEF StStep

LEMMA HydrationNext ==
  ASSUME TypeOK, HydrationInv, [Next]_vars
  PROVE  HydrationInv'
<1>1. CASE RxRecord \/ (RxTest \/ RxSet \/ RxSnapshot \/ RxPublish)
  BY <1>1, HydrationFrame
     DEF RxRecord, RxTest, RxSet, RxSnapshot, RxPublish, stVars, bridgeVars
<1>2. CASE CmdStep \/ \E t \in Taps : CmdTap(t)
  <2>1. queries' = queries
    BY <1>2, OtherFrames DEF CmdStep, CmdTap, CmdUsrCb, CmdSnapshot, CmdPublish
  <2> QED BY <1>2, <2>1, HydrationFrame
          DEF CmdStep, CmdTap, CmdUsrCb, CmdSnapshot, CmdPublish, stVars, bridgeVars
<1>3. CASE StStep \/ \E s \in Statuses : StMove(s)
  BY <1>3, LatchSt, QueriesSt DEF HydrationInv
<1>4. CASE Robot
  BY <1>4, HydrationFrame
     DEF Robot, McuReport, McuChange, McuReceive, espVars, stVars, bridgeVars, taskVars
<1>5. CASE LoseTx \/ LoseRx \/ LinkLost
  BY <1>5, HydrationFrame
     DEF LoseTx, LoseRx, LinkLost, espVars, stVars, bridgeVars, taskVars
<1>6. CASE Reboot
  BY <1>6 DEF Reboot, HydrationInv, LatchInv, QueriesInv, BootSt, NetState
<1>7. CASE UNCHANGED vars
  BY <1>7, HydrationFrame DEF vars, stVars, bridgeVars, taskVars
<1> QED BY <1>1, <1>2, <1>3, <1>4, <1>5, <1>6, <1>7, NextCases DEF Outside

(* Every session is hydrated exactly once: one query-all is on the wire by *)
(* the time its status has been handled and no other follows or precedes   *)
(* it, for any order of statuses that StatusOrder allows (on_st_status).   *)
THEOREM Hydrated == Spec => []HydratedOncePerSession
<1>1. TypeOK /\ HydrationInv /\ [Next]_vars => HydrationInv'
  BY HydrationNext
<1>2. HydrationInv => HydratedOncePerSession
  BY DEF HydrationInv, QueriesInv, HydratedOncePerSession
<1> QED BY <1>1, <1>2, HydrationInit, TypeCorrect, PTL DEF Spec

-----------------------------------------------------------------------------
(* The cache.  From the reset of a hydration on, as long as the session is *)
(* up, an attribute that is cached and not touched by a tap is either on   *)
(* the cloud as cached, or the receive task is on its way there with it.   *)
Hydrating == session = "up" /\ st.pc \in {"query", "idle"}

Cached(a) == ~touched[a] /\ s_pub[a] # Unpublished(a)

InFlight(a) == rx.pc \in {"set", "snap", "publish"} /\ rx.attr = a

OnItsWay(a) ==
  /\ s_pub[a] = rx.val
  /\ rx.pc = "snap" => cap[a] = s_pub[a]
  /\ rx.pc = "publish" => rx.snap = s_pub[a]

CacheInv ==
  Hydrating => \A a \in Attrs :
    Cached(a) => IF InFlight(a) THEN OnItsWay(a) ELSE cloud[a] = s_pub[a]

(* A tap's attribute stays touched until its handler has published. *)
TapInv == cmd.pc # "idle" /\ cmd.tap.attr \in Attrs => touched[cmd.tap.attr]

cacheVars == <<cap, s_pub, rx, cmd, st, session, cloud, touched>>

LEMMA CacheFrame ==
  ASSUME CacheInv, TapInv, UNCHANGED cacheVars
  PROVE  CacheInv' /\ TapInv'
PROOF BY DEF CacheInv, TapInv, Hydrating, Cached, InFlight, OnItsWay, cacheVars

LEMMA CacheInit == Init => CacheInv /\ TapInv
<1> SUFFICES ASSUME Init PROVE CacheInv /\ TapInv
  OBVIOUS
<1>1. session = "down" /\ cmd.pc = "idle"
  BY DEF Init, IdleCmd
<1> QED BY <1>1 DEF CacheInv, TapInv, Hydrating

(* Between two publications nothing is in flight. *)
LEMMA BetweenPublications ==
  ASSUME NEW then, NEW last
  PROVE  OpStateOr(then, last).pc \in {"idle", "test"}
PROOF BY DEF OpStateOr, Pending, IdleRx

LEMMA CacheRx ==
  ASSUME TypeOK, CacheInv, TapInv, ~SendMayFail, RxStep
  PROVE  CacheInv' /\ TapInv'
<1>1. CASE RxRecord
  <2>1. rx.pc = "idle" /\ rx'.pc \in {"idle", "test"}
    BY <1>1, BetweenPublications DEF RxRecord, Pending
  <2>2. UNCHANGED <<cap, s_pub, cmd, st, session, cloud, touched>>
    BY <1>1 DEF RxRecord
  <2> QED BY <2>1, <2>2 DEF CacheInv, TapInv, Hydrating, Cached, InFlight
<1>2. CASE RxTest /\ Changed(rx.attr, rx.val)
  <2>1. /\ rx.pc = "test" /\ rx.attr \in Attrs
        /\ rx'.pc = "set" /\ rx'.attr = rx.attr /\ rx'.val = rx.val
        /\ s_pub' = [s_pub EXCEPT ![rx.attr] = rx.val]
        /\ UNCHANGED <<cap, cmd, st, session, cloud, touched>>
    BY <1>2 DEF RxTest, TypeOK, IdleRx
  <2> QED BY <2>1 DEF TypeOK, CacheInv, TapInv, Hydrating, Cached, InFlight, OnItsWay
<1>3. CASE RxTest /\ ~Changed(rx.attr, rx.val)
  <2>1. /\ rx.pc = "test" /\ rx'.pc \in {"idle", "test"}
        /\ UNCHANGED <<cap, s_pub, cmd, st, session, cloud, touched>>
    BY <1>3, BetweenPublications DEF RxTest, NextPublication
  <2> QED BY <2>1 DEF CacheInv, TapInv, Hydrating, Cached, InFlight
<1>4. CASE RxSet
  <2>1. /\ rx.pc = "set" /\ rx.attr \in Attrs
        /\ rx'.pc = "snap" /\ rx'.attr = rx.attr /\ rx'.val = rx.val
        /\ cap' = [cap EXCEPT ![rx.attr] = rx.val]
        /\ UNCHANGED <<s_pub, cmd, st, session, cloud, touched>>
    BY <1>4 DEF RxSet, TypeOK, IdleRx
  <2> QED BY <2>1 DEF TypeOK, CacheInv, TapInv, Hydrating, Cached, InFlight, OnItsWay
<1>5. CASE RxSnapshot
  <2>1. /\ rx.pc = "snap" /\ rx.attr \in Attrs
        /\ rx'.pc = "publish" /\ rx'.attr = rx.attr /\ rx'.val = rx.val
        /\ rx'.snap = cap[rx.attr]
        /\ UNCHANGED <<cap, s_pub, cmd, st, session, cloud, touched>>
    BY <1>5 DEF RxSnapshot, TypeOK, IdleRx, bridgeVars
  <2> QED BY <2>1 DEF TypeOK, CacheInv, TapInv, Hydrating, Cached, InFlight, OnItsWay
<1>6. CASE RxPublish
  <2>1. /\ rx.pc = "publish" /\ rx.attr \in Attrs /\ rx'.pc \in {"idle", "test"}
        /\ session = "up" => cloud' = [cloud EXCEPT ![rx.attr] = rx.snap]
        /\ UNCHANGED <<cap, s_pub, cmd, st, session, touched>>
    BY <1>6, BetweenPublications DEF RxPublish, NextPublication, Publish, TypeOK, bridgeVars
  <2> QED BY <2>1 DEF TypeOK, CacheInv, TapInv, Hydrating, Cached, InFlight, OnItsWay
<1> QED BY <1>1, <1>2, <1>3, <1>4, <1>5, <1>6 DEF RxStep

LEMMA CacheCmd ==
  ASSUME TypeOK, CacheInv, TapInv, CmdStep \/ \E t \in Taps : CmdTap(t)
  PROVE  CacheInv' /\ TapInv'
<1>1. CASE \E t \in Taps : CmdTap(t)
  <2> PICK t \in Taps : CmdTap(t)
    BY <1>1
  <2>0. cmd'.tap = t /\ UNCHANGED <<s_pub, rx, st, session, cloud>>
    BY DEF CmdTap
  <2>1. \A a \in Attrs : /\ a = t.attr => touched'[a]
                         /\ a # t.attr => touched'[a] = touched[a] /\ cap'[a] = cap[a]
    <3>1. CASE t.attr \in Attrs
      <4>1. cap' = [cap EXCEPT ![t.attr] = t.val] /\ touched' = [touched EXCEPT ![t.attr] = TRUE]
        BY <3>1 DEF CmdTap
      <4>2. DOMAIN cap = Attrs /\ touched \in [Attrs -> BOOLEAN]
        BY DEF TypeOK
      <4> QED BY <4>1, <4>2
    <3>2. CASE t.attr \notin Attrs
      BY <3>2 DEF CmdTap
    <3> QED BY <3>1, <3>2
  <2>2. TapInv'
    BY <2>0, <2>1 DEF TapInv
  <2>3. CacheInv'
    BY <2>0, <2>1 DEF CacheInv, Hydrating, Cached, InFlight, OnItsWay
  <2> QED BY <2>2, <2>3
<1>2. CASE CmdUsrCb \/ CmdSnapshot
  <2>1. /\ UNCHANGED <<cap, s_pub, rx, st, session, cloud, touched>> /\ cmd.pc # "idle"
    BY <1>2 DEF CmdUsrCb, CmdSnapshot, bridgeVars
  <2>2. cmd'.tap = cmd.tap \/ cmd'.pc = "idle"
    <3>1. CASE cmd' = IdleCmd
      BY <3>1 DEF IdleCmd
    <3>2. CASE cmd' # IdleCmd
      BY <1>2, <3>2 DEF CmdUsrCb, CmdSnapshot, TypeOK, IdleCmd
    <3> QED BY <3>1, <3>2
  <2> QED BY <2>1, <2>2 DEF CacheInv, TapInv, Hydrating, Cached, InFlight, OnItsWay
<1>3. CASE CmdPublish
  <2>1. /\ UNCHANGED <<cap, s_pub, rx, st, session, touched>>
        /\ cmd'.pc = "idle"
    BY <1>3 DEF CmdPublish, IdleCmd, bridgeVars
  <2>2. touched[cmd.tap.attr]
    BY <1>3 DEF CmdPublish, TypeOK, TapInv
  <2>3. \A a \in Attrs : a # cmd.tap.attr => cloud'[a] = cloud[a]
    BY <1>3 DEF CmdPublish, Publish, TypeOK
  <2> QED BY <2>1, <2>2, <2>3 DEF CacheInv, TapInv, Hydrating, Cached, InFlight, OnItsWay
<1> QED BY <1>1, <1>2, <1>3 DEF CmdStep

LEMMA CacheSt ==
  ASSUME TypeOK, HydrationInv, CacheInv, TapInv, StStep \/ \E s \in Statuses : StMove(s)
  PROVE  CacheInv' /\ TapInv'
<1>1. CASE StReset
  <2>1. /\ \A a \in Attrs : s_pub'[a] = Unpublished(a)
        /\ \A a \in Attrs : touched'[a] = (cmd.pc # "idle" /\ cmd.tap.attr = a)
        /\ cmd' = cmd
    BY <1>1 DEF StReset
  <2> QED BY <2>1 DEF CacheInv, Cached, TapInv
<1>2. CASE StQuery
  <2>1. /\ UNCHANGED <<cap, s_pub, rx, cmd, session, cloud, touched>> /\ st.pc = "query"
    BY <1>2 DEF StQuery, bridgeVars
  <2> QED BY <2>1 DEF CacheInv, TapInv, Hydrating, Cached, InFlight, OnItsWay
<1>3. CASE \/ \E s \in Statuses : StMove(s)
           \/ \E a \in Attrs : StInitSnapshot(a)
           \/ StInitPublish
  <2>1. st'.pc \in {"init", "init_publish", "status"} /\ UNCHANGED <<cmd, touched>>
    BY <1>3 DEF StMove, StInitSnapshot, StInitPublish, BootSt, TypeOK
  <2> QED BY <2>1 DEF CacheInv, TapInv, Hydrating
<1>4. CASE StIgnored \/ StStatus
  <2>1. UNCHANGED <<cmd, touched, session>>
    BY <1>4 DEF StIgnored, StStatus
  <2>2. st'.pc = "reset" \/ st.status # "CONNECTED"
    BY <1>4, StatusesAre
       DEF StIgnored, StStatus, HydrationInv, LatchInv, TypeOK, BootSt, Statuses
  <2>3. ~Hydrating'
    BY <2>1, <2>2 DEF Hydrating, HydrationInv, LatchInv
  <2> QED BY <2>1, <2>3 DEF CacheInv, TapInv
<1> QED BY <1>1, <1>2, <1>3, <1>4 DEF StStep

LEMMA CacheNext ==
  ASSUME TypeOK, HydrationInv, CacheInv, TapInv, ~SendMayFail, [Next]_vars
  PROVE  CacheInv' /\ TapInv'
<1>1. CASE RxStep
  BY <1>1, CacheRx
<1>2. CASE CmdStep \/ \E t \in Taps : CmdTap(t)
  BY <1>2, CacheCmd
<1>3. CASE StStep \/ \E s \in Statuses : StMove(s)
  BY <1>3, CacheSt
<1>4. CASE Robot \/ LoseTx \/ LoseRx
  BY <1>4, CacheFrame
     DEF Robot, McuReport, McuChange, McuReceive, LoseTx, LoseRx,
         espVars, cacheVars, bridgeVars, taskVars
<1>5. CASE LinkLost
  BY <1>5 DEF LinkLost, CacheInv, TapInv, Hydrating, espVars, taskVars
<1>7. CASE Reboot
  <2>1. session' = "down" /\ cmd'.pc = "idle"
    BY <1>7 DEF Reboot, IdleCmd
  <2> QED BY <2>1 DEF CacheInv, TapInv, Hydrating
<1>6. CASE UNCHANGED vars
  BY <1>6, CacheFrame DEF vars, cacheVars, bridgeVars, taskVars
<1> QED BY <1>1, <1>2, <1>3, <1>4, <1>5, <1>6, <1>7, NextCases DEF Outside, RxStep

(* The cache suppresses only what the cloud shows, for every robot, every  *)
(* set of attributes and taps, and any losses and restarts, provided that  *)
(* a publication on a live session does not fail.                          *)
THEOREM Suppression == ASSUME ~SendMayFail PROVE Spec => []SuppressionSound
<1>1. TypeOK /\ HydrationInv /\ CacheInv /\ TapInv /\ [Next]_vars => CacheInv' /\ TapInv'
  BY CacheNext
<1>2. TypeOK /\ HydrationInv /\ [Next]_vars => HydrationInv'
  BY HydrationNext
<1>3. CacheInv => SuppressionSound
  BY DEF CacheInv, SuppressionSound, Settled, Hydrating, Cached, InFlight
<1> QED BY <1>1, <1>2, <1>3, HydrationInit, CacheInit, TypeCorrect, PTL DEF Spec

-----------------------------------------------------------------------------
(* The network icon.  The last push on its way, or the robot's icon if     *)
(* there is none, is the state the bridge remembers having pushed.         *)
Icon(q, i) ==
  /\ IF i = 0 THEN mcuNet = s_last_net_state
     ELSE q[i].cmd = 3 /\ q[i].val = s_last_net_state
  /\ \A j \in (i + 1)..Len(q) : q[j].cmd # 3

IconInv == s_last_net_state # -1 => \E i \in 0..Len(txq) : Icon(txq, i)

Frames(q) == \E S : q \in Seq(S)

LEMMA AppendFrame ==
  ASSUME NEW q, Frames(q), NEW f
  PROVE  /\ Frames(Append(q, f))
         /\ Len(q) \in Nat /\ Len(Append(q, f)) = Len(q) + 1
         /\ Append(q, f)[Len(q) + 1] = f
         /\ \A i \in 1..Len(q) : Append(q, f)[i] = q[i]
<1> PICK S : q \in Seq(S)
  BY DEF Frames
<1>1. q \in Seq(S \cup {f}) /\ Len(q) \in Nat
  BY SeqDef, LenProperties
<1>2. Append(q, f) \in Seq(S \cup {f})
  BY <1>1, AppendProperties
<1> QED BY <1>1, <1>2, AppendProperties DEF Frames

LEMMA TailFrame ==
  ASSUME NEW q, Frames(q), q # <<>>
  PROVE  /\ Frames(Tail(q)) /\ Head(q) = q[1]
         /\ Len(q) \in Nat \ {0} /\ Len(Tail(q)) = Len(q) - 1
         /\ \A i \in 1..Len(Tail(q)) : Tail(q)[i] = q[i + 1]
<1> PICK S : q \in Seq(S)
  BY DEF Frames
<1> QED BY HeadTailProperties, LenProperties, EmptySeq DEF Frames

(* A frame that is no push leaves the last push where it is. *)
LEMMA IconAppend ==
  ASSUME Frames(txq), IconInv, NEW f, f.cmd # 3, txq' = Append(txq, f),
         UNCHANGED <<mcuNet, s_last_net_state>>
  PROVE  Frames(txq') /\ IconInv'
<1>1. /\ Frames(txq') /\ Len(txq) \in Nat /\ Len(txq') = Len(txq) + 1
      /\ txq'[Len(txq) + 1] = f
      /\ \A i \in 1..Len(txq) : txq'[i] = txq[i]
  BY AppendFrame
<1>2. ASSUME NEW i \in 0..Len(txq), Icon(txq, i) PROVE i \in 0..Len(txq') /\ Icon(txq, i)'
  BY <1>1, <1>2 DEF Icon
<1> QED BY <1>1, <1>2 DEF IconInv

LEMMA IconPush ==
  ASSUME Frames(txq), IconInv, NEW s \in DOMAIN NetState, PushNetState(s), UNCHANGED mcuNet
  PROVE  Frames(txq') /\ IconInv'
<1>1. CASE UNCHANGED <<s_last_net_state, txq>>
  BY <1>1 DEF IconInv, Icon
<1>2. CASE s_last_net_state' = NetState[s] /\ txq' = Append(txq, NetPush(NetState[s]))
  <2>1. /\ Frames(txq') /\ Len(txq) \in Nat /\ Len(txq') = Len(txq) + 1
        /\ txq'[Len(txq) + 1] = NetPush(NetState[s])
    BY <1>2, AppendFrame
  <2>2. Len(txq') \in 0..Len(txq') /\ Icon(txq, Len(txq))'
    BY <1>2, <2>1 DEF Icon, NetPush
  <2> QED BY <2>1, <2>2 DEF IconInv
<1> QED BY <1>1, <1>2 DEF PushNetState, Transmit

LEMMA IconReceive ==
  ASSUME Frames(txq), IconInv, McuReceive
  PROVE  Frames(txq') /\ IconInv'
<1>1. /\ Frames(txq') /\ Head(txq) = txq[1] /\ Len(txq) \in Nat \ {0}
      /\ Len(txq') = Len(txq) - 1
      /\ \A i \in 1..Len(txq') : txq'[i] = txq[i + 1]
  BY TailFrame DEF McuReceive
<1>2. /\ s_last_net_state' = s_last_net_state
      /\ mcuNet' = IF txq[1].cmd = 3 THEN txq[1].val ELSE mcuNet
  BY <1>1 DEF McuReceive, McuAnswer, McuWrite, robotVars, espVars, bridgeVars
<1>3. ASSUME NEW i \in 0..Len(txq), Icon(txq, i)
      PROVE  \E k \in 0..Len(txq') : Icon(txq, k)'
  <2>1. CASE i \in {0, 1}
    <3>1. mcuNet' = s_last_net_state
      BY <1>1, <1>2, <1>3, <2>1 DEF Icon
    <3>2. \A j \in 1..Len(txq') : txq'[j].cmd # 3
      BY <1>1, <1>3, <2>1 DEF Icon
    <3>3. Icon(txq, 0)'
      BY <1>2, <3>1, <3>2 DEF Icon
    <3>4. 0 \in 0..Len(txq')
      BY <1>1
    <3> QED BY <3>3, <3>4
  <2>2. CASE i \notin {0, 1}
    <3>1. i - 1 \in 1..Len(txq') /\ txq'[i - 1] = txq[i]
      BY <1>1, <2>2
    <3>2. \A j \in ((i - 1) + 1)..Len(txq') : txq'[j].cmd # 3
      BY <1>1, <1>3, <2>2 DEF Icon
    <3>3. Icon(txq, i - 1)'
      BY <1>2, <1>3, <2>2, <3>1, <3>2 DEF Icon
    <3> QED BY <3>1, <3>3
  <2> QED BY <2>1, <2>2
<1> QED BY <1>1, <1>2, <1>3 DEF IconInv

LEMMA IconFrame ==
  ASSUME Frames(txq), IconInv, UNCHANGED <<txq, mcuNet, s_last_net_state>>
  PROVE  Frames(txq') /\ IconInv'
BY DEF IconInv, Icon

LEMMA IconNext ==
  ASSUME ~Lossy, Frames(txq), IconInv, [Next]_vars
  PROVE  Frames(txq') /\ IconInv'
<1> USE DEF bridgeVars, espVars, robotVars
<1>1. CASE RxRecord \/ (RxTest \/ RxSet \/ RxSnapshot \/ RxPublish)
  BY <1>1, IconFrame DEF RxRecord, RxTest, RxSet, RxSnapshot, RxPublish
<1>2. CASE CmdStep \/ \E t \in Taps : CmdTap(t)
  <2>1. CASE CmdUsrCb
    BY <2>1, IconAppend DEF CmdUsrCb, Transmit, DpWrite
  <2>2. CASE CmdSnapshot \/ CmdPublish \/ \E t \in Taps : CmdTap(t)
    BY <2>2, IconFrame DEF CmdSnapshot, CmdPublish, CmdTap
  <2> QED BY <1>2, <2>1, <2>2 DEF CmdStep
<1>3. CASE StStep \/ \E s \in Statuses : StMove(s)
  <2>1. CASE StStatus
    BY <2>1, IconPush DEF StStatus
  <2>2. CASE StQuery
    BY <2>2, IconAppend DEF StQuery, Transmit, QueryAll
  <2>3. CASE \/ \E a \in Attrs : StInitSnapshot(a)
             \/ StInitPublish \/ StIgnored \/ StReset \/ \E s \in Statuses : StMove(s)
    BY <2>3, IconFrame DEF StInitSnapshot, StInitPublish, StIgnored, StReset, StMove
  <2> QED BY <1>3, <2>1, <2>2, <2>3 DEF StStep
<1>4. CASE McuReceive
  BY <1>4, IconReceive
<1>5. CASE \/ \E d \in DPs : McuReport(d) \/ \E v \in DpValues[d] : McuChange(d, v)
           \/ LoseRx \/ LinkLost
  BY <1>5, IconFrame DEF McuReport, McuChange, LoseRx, LinkLost
<1>6. CASE Reboot
  BY <1>6 DEF Reboot, IconInv
<1>7. CASE UNCHANGED vars
  BY <1>7, IconFrame DEF vars
<1> QED BY <1>1, <1>2, <1>3, <1>4, <1>5, <1>6, <1>7, NextCases DEF Outside, Robot, LoseTx

(* On a wire that loses nothing, not repeating an equal network state      *)
(* never leaves the robot's icon behind, across restarts of the ESP32 too. *)
THEOREM IconFollows == ASSUME ~Lossy PROVE Spec => []IconInStep
<1> DEFINE IInv == Frames(txq) /\ IconInv
<1>1. Init => IInv
  BY EmptySeq DEF Init, Frames, IconInv
<1>2. IInv => IconInStep
  <2> SUFFICES ASSUME Frames(txq), NEW i \in 0..Len(txq), Icon(txq, i),
                      \A j \in DOMAIN txq : txq[j].cmd # 3
               PROVE  mcuNet = s_last_net_state
    BY DEF IconInv, IconInStep
  <2>1. DOMAIN txq = 1..Len(txq) /\ Len(txq) \in Nat
    BY LenProperties DEF Frames
  <2> QED BY <2>1 DEF Icon
<1>3. IInv /\ [Next]_vars => IInv'
  BY IconNext
<1> HIDE DEF IInv
<1> QED BY <1>1, <1>2, <1>3, PTL DEF Spec
-----------------------------------------------------------------------------
(* The two fault tiles.  What is cached for each is what s_last says, but  *)
(* while the receive task still has that tile to test.                     *)
Testing(a) == rx.pc = "test" /\ rx.attr = a

FaultTile == "hardwareFault" \in Attrs /\ s_pub["hardwareFault"] # {} /\ ~Testing("hardwareFault")
StateTile == "operatingState" \in Attrs /\ s_pub["operatingState"] # ""
             /\ ~rx.then /\ ~Testing("operatingState")

TileInv ==
  /\ DOMAIN s_last = DOMAIN NothingSeen
  /\ rx.pc = "idle" => ~rx.then
  /\ Testing("hardwareFault") => rx.val = FaultSummary(s_last.dp17)
  /\ Testing("operatingState") => rx.val = OpStateOf(s_last)
  /\ FaultTile => s_pub["hardwareFault"] = FaultSummary(s_last.dp17)
  /\ StateTile => s_pub["operatingState"] = OpStateOf(s_last)

(* A bitmap's words name a stuck bit exactly when it forces "stuck". *)
LEMMA StuckWords ==
  ASSUME NEW bits, NEW dp101, NEW dp112
  PROVE  FaultSummary(bits) \cap {FaultName[k] : k \in StuckBits} # {}
           <=> OperatingState(bits, dp101, dp112) = "stuck"
<1>1. \A j, k \in 0..8 : FaultName[j] = FaultName[k] => j = k
  BY DEF FaultName
<1>2. \A k \in 0..8 : FaultName[k] \notin {"None", "unrecognized"}
  BY DEF FaultName
<1>3. SetBits(bits) \subseteq 0..8 /\ StuckBits \subseteq 0..8
  BY DEF SetBits, StuckBits, FaultName
<1>4. FaultSummary(bits) \cap {FaultName[k] : k \in StuckBits} # {}
        <=> SetBits(bits) \cap StuckBits # {}
  <2>1. CASE SetBits(bits) = {}
    <3>1. FaultSummary(bits) \subseteq {"None", "unrecognized"}
      BY <2>1 DEF FaultSummary
    <3> QED BY <1>2, <1>3, <2>1, <3>1
  <2>2. CASE SetBits(bits) # {}
    <3>1. FaultSummary(bits) = {FaultName[k] : k \in SetBits(bits)}
      BY <2>2 DEF FaultSummary
    <3> QED BY <1>1, <1>3, <3>1
  <2> QED BY <2>1, <2>2
<1>5. OperatingState(bits, dp101, dp112) = "stuck" <=> FaultState(bits) = "stuck"
  BY DEF OperatingState, StatusState, ActivateState
<1>6. FaultState(bits) = "stuck" <=> SetBits(bits) \cap StuckBits # {}
  BY DEF FaultState
<1> QED BY <1>4, <1>5, <1>6

LEMMA NeverPublished ==
  Unpublished("hardwareFault") = {} /\ Unpublished("operatingState") = ""
<1>1. {"hardwareFault", "operatingState"} \cap NumberAttrs = {}
  BY DEF NumberAttrs, NumberAttr, DP_AREA_CLEANED, DP_BATTERY_PCT, DP_BRUSH_PCT,
         DP_ROLLER_PCT, DP_HEPA_PCT
<1> QED BY <1>1 DEF Unpublished

LEMMA TileInit == Init => TileInv
<1> SUFFICES ASSUME Init PROVE TileInv
  OBVIOUS
<1>1. rx.pc = "idle" /\ ~rx.then
  BY DEF Init, IdleRx
<1>2. \A a \in Attrs : s_pub[a] = Unpublished(a)
  BY DEF Init
<1>3. s_last = NothingSeen
  BY DEF Init
<1> QED BY <1>1, <1>2, <1>3, NeverPublished DEF TileInv, FaultTile, StateTile, Testing

(* Which tile a record starts with. *)
LEMMA TileRecord ==
  ASSUME NEW d, NEW v
  PROVE  /\ OwnAttr(d, v) = "hardwareFault" <=> d = DP_ERROR
         /\ OwnAttr(d, v) # "operatingState"
         /\ d \in {DP_STATUS, DP_ACTIVATE} => OwnAttr(d, v) = "none"
PROOF BY DEF OwnAttr, NumberAttr, EnumTable, DP_ERROR, DP_STATUS, DP_ACTIVATE, DP_AREA_CLEANED,
             DP_BATTERY_PCT, DP_BRUSH_PCT, DP_ROLLER_PCT, DP_HEPA_PCT, DP_CLEAN_MODE,
             DP_FAN_SPEED, DP_WATER_LEVEL

LEMMA EnumDPs == DP_ERROR \notin DOMAIN EnumTable
PROOF BY DEF EnumTable, DP_ERROR, DP_CLEAN_MODE, DP_FAN_SPEED, DP_WATER_LEVEL

LEMMA TileRxRecord ==
  ASSUME TypeOK, TileInv, RxRecord
  PROVE  TileInv'
<1> DEFINE d == Head(rxq).dp  v == Head(rxq).val
<1>1. /\ rx.pc = "idle" /\ ~rx.then /\ s_pub' = s_pub
      /\ s_last' = Remember(d, v, s_last)
      /\ rx' = IF OwnAttr(d, v) # "none"
               THEN Pending(OwnAttr(d, v), OwnValue(d, v), d \in OpStateDPs)
               ELSE OpStateOr(d \in OpStateDPs, s_last')
  BY DEF RxRecord, TileInv
<1>2. DOMAIN s_last = DOMAIN NothingSeen
  BY DEF TileInv
<1> HIDE DEF d, v
<1>3. DOMAIN s_last' = DOMAIN NothingSeen
  BY <1>1, <1>2 DEF Remember
<1>4. CASE d = DP_ERROR
  <2>1. s_last'.dp17 = v
    BY <1>1, <1>2, <1>4 DEF Remember, NothingSeen, DP_ERROR, DP_STATUS, DP_ACTIVATE
  <2>2. OwnAttr(d, v) = "hardwareFault" /\ OwnValue(d, v) = FaultSummary(v) /\ d \in OpStateDPs
    BY <1>4, TileRecord, EnumDPs DEF OwnValue, OpStateDPs
  <2>3. rx'.pc = "test" /\ rx'.attr = "hardwareFault" /\ rx'.val = FaultSummary(v) /\ rx'.then
    BY <1>1, <2>2 DEF Pending
  <2> QED BY <1>1, <1>3, <2>1, <2>3 DEF TileInv, FaultTile, StateTile, Testing
<1>5. CASE d \in {DP_STATUS, DP_ACTIVATE}
  <2>1. s_last'.dp17 = s_last.dp17
    BY <1>1, <1>2, <1>5 DEF Remember, NothingSeen, DP_ERROR, DP_STATUS, DP_ACTIVATE
  <2>2. rx' = Pending("operatingState", OpStateOf(s_last'), FALSE)
    BY <1>1, <1>5, TileRecord DEF OpStateOr, OpStateDPs
  <2>3. rx'.pc = "test" /\ rx'.attr = "operatingState" /\ rx'.val = OpStateOf(s_last')
        /\ ~rx'.then
    BY <2>2 DEF Pending
  <2>4. FaultTile' => s_pub'["hardwareFault"] = FaultSummary(s_last'.dp17)
    BY <1>1, <2>1 DEF TileInv, FaultTile, Testing
  <2> QED BY <1>3, <2>3, <2>4 DEF TileInv, StateTile, Testing
<1>6. CASE d \notin OpStateDPs
  <2>1. s_last' = s_last
    BY <1>1, <1>6 DEF Remember, OpStateDPs
  <2>2. ~rx'.then /\ (rx'.pc = "test" => rx'.attr \notin {"hardwareFault", "operatingState"})
    <3>1. OwnAttr(d, v) \notin {"hardwareFault", "operatingState"}
      BY <1>6, TileRecord DEF OpStateDPs
    <3> QED BY <1>1, <1>6, <3>1 DEF Pending, OpStateOr, IdleRx
  <2> QED BY <1>1, <2>1, <2>2 DEF TileInv, FaultTile, StateTile, Testing
<1> QED BY <1>4, <1>5, <1>6 DEF OpStateDPs

(* After a publication or a suppressed one, the operating state is next.   *)
LEMMA TileNext ==
  ASSUME NEW then \in BOOLEAN, NEW last
  PROVE  LET r == OpStateOr(then, last) IN
           /\ ~r.then
           /\ r.pc = "test" => r.attr = "operatingState" /\ r.val = OpStateOf(last)
           /\ then => r.pc = "test"
PROOF BY DEF OpStateOr, Pending, IdleRx

LEMMA TileRxRest ==
  ASSUME TypeOK, TileInv, RxTest \/ RxSet \/ RxSnapshot \/ RxPublish
  PROVE  TileInv'
<1> USE DEF TileInv, FaultTile, StateTile, Testing
<1>1. CASE RxTest /\ Changed(rx.attr, rx.val)
  <2>1. /\ rx.pc = "test" /\ rx.attr \in Attrs /\ DOMAIN s_pub = Attrs
        /\ rx'.pc = "set" /\ rx'.then = rx.then
        /\ s_pub' = [s_pub EXCEPT ![rx.attr] = rx.val] /\ s_last' = s_last
    BY <1>1 DEF RxTest, TypeOK, IdleRx
  <2> QED BY <2>1
<1>2. CASE RxTest /\ ~Changed(rx.attr, rx.val)
  <2>1. /\ rx.pc = "test" /\ rx.then \in BOOLEAN /\ s_pub[rx.attr] = rx.val
        /\ rx' = OpStateOr(rx.then, s_last) /\ s_pub' = s_pub /\ s_last' = s_last
    BY <1>2 DEF RxTest, TypeOK, Changed, NextPublication
  <2> QED BY <2>1, TileNext
<1>3. CASE RxSet \/ RxSnapshot
  <2>1. /\ rx.pc \in {"set", "snap"} /\ rx'.pc \in {"snap", "publish"} /\ rx'.then = rx.then
        /\ s_pub' = s_pub /\ s_last' = s_last
    BY <1>3 DEF RxSet, RxSnapshot, TypeOK, IdleRx, bridgeVars
  <2> QED BY <2>1
<1>4. CASE RxPublish
  <2>1. /\ rx.pc = "publish" /\ rx.then \in BOOLEAN
        /\ rx' = OpStateOr(rx.then, s_last) /\ s_pub' = s_pub /\ s_last' = s_last
    BY <1>4 DEF RxPublish, TypeOK, NextPublication, bridgeVars
  <2> QED BY <2>1, TileNext
<1> QED BY <1>1, <1>2, <1>3, <1>4

LEMMA TileStep ==
  ASSUME TypeOK, TileInv, [Next]_vars
  PROVE  TileInv'
<1>1. CASE RxRecord
  BY <1>1, TileRxRecord
<1>2. CASE RxTest \/ RxSet \/ RxSnapshot \/ RxPublish
  BY <1>2, TileRxRest
<1>3. CASE StReset \/ Reboot
  <2>1. \A a \in Attrs : s_pub'[a] = Unpublished(a)
    BY <1>3 DEF StReset, Reboot
  <2>2. \/ rx' = rx /\ s_last' = s_last
        \/ rx' = IdleRx /\ s_last' = NothingSeen
    BY <1>3 DEF StReset, Reboot
  <2>3. ~FaultTile' /\ ~StateTile'
    BY <2>1, NeverPublished DEF FaultTile, StateTile
  <2>4. CASE rx' = rx /\ s_last' = s_last
    BY <2>3, <2>4 DEF TileInv, Testing
  <2>5. CASE rx' = IdleRx /\ s_last' = NothingSeen
    BY <2>3, <2>5 DEF TileInv, Testing, IdleRx
  <2> QED BY <2>2, <2>4, <2>5
<1>4. CASE UNCHANGED <<s_pub, s_last, rx>>
  BY <1>4 DEF TileInv, FaultTile, StateTile, Testing
<1>5. CASE CmdStep \/ \E t \in Taps : CmdTap(t)
  BY <1>4, <1>5 DEF CmdStep, CmdTap, CmdUsrCb, CmdSnapshot, CmdPublish, bridgeVars
<1>6. CASE StStep \/ \E s \in Statuses : StMove(s)
  <2>1. CASE StReset
    BY <1>3, <2>1
  <2>2. CASE ~StReset
    BY <1>4, <1>6, <2>2
       DEF StStep, StMove, StInitSnapshot, StInitPublish, StIgnored, StStatus, StQuery, bridgeVars
  <2> QED BY <2>1, <2>2
<1>7. CASE Robot \/ Outside
  <2>1. CASE Reboot
    BY <1>3, <2>1
  <2>2. CASE ~Reboot
    BY <1>4, <1>7, <2>2
       DEF Robot, McuReport, McuChange, McuReceive, Outside, LoseTx, LoseRx, LinkLost,
           espVars, bridgeVars, taskVars
  <2> QED BY <2>1, <2>2
<1>8. CASE UNCHANGED vars
  BY <1>4, <1>8 DEF vars, bridgeVars, taskVars
<1> QED BY <1>1, <1>2, <1>5, <1>6, <1>7, <1>8, NextCases

(* The fault tile and the status tile agree once both are published, for   *)
(* every robot, any losses on the wire, taps and restarts, provided that a *)
(* publication on a live session does not fail.                            *)
THEOREM TilesAgree == ASSUME ~SendMayFail PROVE Spec => []FaultAndStateAgree
<1>1. TypeOK /\ HydrationInv /\ CacheInv /\ TapInv /\ [Next]_vars => CacheInv' /\ TapInv'
  BY CacheNext
<1>2. TypeOK /\ HydrationInv /\ [Next]_vars => HydrationInv'
  BY HydrationNext
<1>3. TypeOK /\ TileInv /\ [Next]_vars => TileInv'
  BY TileStep
<1>4. CacheInv /\ TileInv => FaultAndStateAgree
  <2> DEFINE fresh(a) == ~touched[a] /\ s_pub[a] # Unpublished(a)
  <2> SUFFICES ASSUME CacheInv, TileInv, Settled,
                      "hardwareFault" \in Attrs, "operatingState" \in Attrs,
                      fresh("hardwareFault"), fresh("operatingState")
               PROVE  cloud["hardwareFault"] \cap {FaultName[k] : k \in StuckBits} # {}
                        <=> cloud["operatingState"] = "stuck"
    BY DEF FaultAndStateAgree
  <2>1. \A a \in {"hardwareFault", "operatingState"} : cloud[a] = s_pub[a]
    BY DEF CacheInv, Settled, Hydrating, Cached, InFlight
  <2>2. /\ s_pub["hardwareFault"] = FaultSummary(s_last.dp17)
        /\ s_pub["operatingState"] = OpStateOf(s_last)
    BY NeverPublished DEF TileInv, FaultTile, StateTile, Testing, Settled
  <2> QED BY <2>1, <2>2, StuckWords DEF OpStateOf
<1> QED BY <1>1, <1>2, <1>3, <1>4, HydrationInit, CacheInit, TileInit, TypeCorrect, PTL DEF Spec
-----------------------------------------------------------------------------
(* The two tables of each settable enum. *)

Raw(d) == EnumTable[d].of
Settable == {DP_CLEAN_MODE, DP_FAN_SPEED, DP_WATER_LEVEL}

LEMMA SettableDPs == DOMAIN EnumTable = Settable /\ DOMAIN CodeTable = Settable
BY DEF EnumTable, CodeTable, Settable

LEMMA CleaningTables ==
  /\ Raw(DP_CLEAN_MODE) = CleaningModeOf /\ CodeTable[DP_CLEAN_MODE] = CleaningModeCode
  /\ EnumTable[DP_CLEAN_MODE].attr = "cleaningMode"
BY SettableDPs DEF Raw, EnumTable, CodeTable, Settable, DP_CLEAN_MODE, DP_FAN_SPEED, DP_WATER_LEVEL

LEMMA SuctionTables ==
  /\ Raw(DP_FAN_SPEED) = SuctionOf /\ CodeTable[DP_FAN_SPEED] = SuctionCode
  /\ EnumTable[DP_FAN_SPEED].attr = "suctionLevel"
BY SettableDPs DEF Raw, EnumTable, CodeTable, Settable, DP_CLEAN_MODE, DP_FAN_SPEED, DP_WATER_LEVEL

LEMMA WaterTables ==
  /\ Raw(DP_WATER_LEVEL) = WaterOf /\ CodeTable[DP_WATER_LEVEL] = WaterCode
  /\ EnumTable[DP_WATER_LEVEL].attr = "waterLevel"
BY SettableDPs DEF Raw, EnumTable, CodeTable, Settable, DP_CLEAN_MODE, DP_FAN_SPEED, DP_WATER_LEVEL

(* What is reported has a code, and the code is what was reported. *)
LEMMA ReportsHaveCodes ==
  ASSUME NEW d \in Settable, NEW v \in DOMAIN Raw(d)
  PROVE  Raw(d)[v] \in DOMAIN CodeTable[d] /\ CodeTable[d][Raw(d)[v]] = v
<1>1. CASE d = DP_CLEAN_MODE
  BY <1>1, CleaningTables DEF CleaningModeOf, CleaningModeCode
<1>2. CASE d = DP_FAN_SPEED
  BY <1>2, SuctionTables DEF SuctionOf, SuctionCode
<1>3. CASE d = DP_WATER_LEVEL
  BY <1>3, WaterTables DEF WaterOf, WaterCode
<1> QED BY <1>1, <1>2, <1>3 DEF Settable

LEMMA CodesAreReported ==
  ASSUME NEW d \in Settable, NEW value \in DOMAIN CodeTable[d]
  PROVE  CodeTable[d][value] \in DOMAIN Raw(d) /\ Raw(d)[CodeTable[d][value]] = value
<1>1. CASE d = DP_CLEAN_MODE
  BY <1>1, CleaningTables DEF CleaningModeOf, CleaningModeCode
<1>2. CASE d = DP_FAN_SPEED
  BY <1>2, SuctionTables DEF SuctionOf, SuctionCode
<1>3. CASE d = DP_WATER_LEVEL
  BY <1>3, WaterTables DEF WaterOf, WaterCode
<1> QED BY <1>1, <1>2, <1>3 DEF Settable

(* The words of the app and the raw values of the robot: the table of the  *)
(* commands (coredy_bridge.c:487) and that of the reports (:214) are       *)
(* inverse to each other, so a tap the robot accepts and echoes comes back *)
(* as the word the user chose.                                             *)
THEOREM EchoShowsChoice ==
  \A d \in DOMAIN CodeTable : \A value \in DOMAIN CodeTable[d] :
    LET echoed == EncodeEnum(d, value).val
    IN OwnAttr(d, echoed) = EnumTable[d].attr /\ OwnValue(d, echoed) = value
<1> SUFFICES ASSUME NEW d \in Settable, NEW value \in DOMAIN CodeTable[d]
             PROVE  LET echoed == CodeTable[d][value]
                    IN OwnAttr(d, echoed) = EnumTable[d].attr /\ OwnValue(d, echoed) = value
  BY SettableDPs DEF EncodeEnum, Write
<1>1. d # DP_ERROR /\ d \notin DOMAIN NumberAttr /\ d \in DOMAIN EnumTable
  BY SettableDPs DEF Settable, NumberAttr, DP_ERROR, DP_CLEAN_MODE, DP_FAN_SPEED, DP_WATER_LEVEL,
     DP_AREA_CLEANED, DP_BATTERY_PCT, DP_BRUSH_PCT, DP_ROLLER_PCT, DP_HEPA_PCT
<1>2. CodeTable[d][value] \in DOMAIN EnumTable[d].of /\ EnumTable[d].of[CodeTable[d][value]] = value
  BY CodesAreReported DEF Raw
<1> QED BY <1>1, <1>2 DEF OwnAttr, OwnValue
-----------------------------------------------------------------------------
(* The enum callbacks read the stored value back after the lock is         *)
(* released, when a report may have replaced what was tapped.              *)

EnumHas(a, value) == \A d \in Settable : EnumTable[d].attr = a => value \in DOMAIN CodeTable[d]

WordsInv ==
  /\ \A a \in Attrs : EnumHas(a, cap[a])
  /\ rx.pc # "idle" => EnumHas(rx.attr, rx.val)
  /\ cmd.pc = "usr_cb" => cmd.tap \in AppTaps

LEMMA EnumAttrNames ==
  ASSUME NEW d \in Settable
  PROVE  /\ EnumTable[d].attr \notin {"operatingState", "hardwareFault", "none"} \cup NumberAttrs
         /\ \A e \in Settable : EnumTable[e].attr = EnumTable[d].attr => e = d
<1>1. NumberAttrs = {"area", "battery", "brush", "rollerBrush", "filter"}
  BY DEF NumberAttrs, NumberAttr, DP_AREA_CLEANED, DP_BATTERY_PCT, DP_BRUSH_PCT,
         DP_ROLLER_PCT, DP_HEPA_PCT
<1> QED BY <1>1, CleaningTables, SuctionTables, WaterTables DEF Settable

LEMMA BootHasWords == ASSUME NEW a PROVE EnumHas(a, BootValue(a))
<1> SUFFICES ASSUME NEW d \in Settable, EnumTable[d].attr = a
             PROVE  BootValue(a) \in DOMAIN CodeTable[d]
  BY DEF EnumHas
<1>1. CASE d = DP_CLEAN_MODE
  BY <1>1, CleaningTables DEF BootValue, CleaningModeCode
<1>2. CASE d = DP_FAN_SPEED
  BY <1>2, SuctionTables DEF BootValue, SuctionCode
<1>3. CASE d = DP_WATER_LEVEL
  BY <1>3, WaterTables DEF BootValue, WaterCode
<1> QED BY <1>1, <1>2, <1>3 DEF Settable

(* What a record publishes as its own attribute is a word of its enum. *)
LEMMA OwnHasWords ==
  ASSUME NEW d, NEW v, OwnAttr(d, v) # "none"
  PROVE  EnumHas(OwnAttr(d, v), OwnValue(d, v))
<1> SUFFICES ASSUME NEW e \in Settable, EnumTable[e].attr = OwnAttr(d, v)
             PROVE  OwnValue(d, v) \in DOMAIN CodeTable[e]
  BY DEF EnumHas
<1>1. OwnAttr(d, v) \notin {"hardwareFault"} \cup NumberAttrs
  BY EnumAttrNames
<1>2. d # DP_ERROR /\ d \notin DOMAIN NumberAttr
  BY <1>1 DEF OwnAttr, NumberAttrs
<1>3. d \in Settable /\ v \in DOMAIN EnumTable[d].of /\ OwnAttr(d, v) = EnumTable[d].attr
  BY <1>2, SettableDPs DEF OwnAttr
<1>4. e = d
  BY <1>3, EnumAttrNames
<1>5. OwnValue(d, v) = Raw(d)[v]
  BY <1>2, <1>3, SettableDPs DEF OwnValue, Raw
<1> QED BY <1>3, <1>4, <1>5, ReportsHaveCodes DEF Raw

LEMMA StateHasWords == ASSUME NEW value PROVE EnumHas("operatingState", value)
BY EnumAttrNames DEF EnumHas

LEMMA OpStateHasWords ==
  ASSUME NEW then, NEW last
  PROVE  LET r == OpStateOr(then, last) IN r.pc # "idle" => EnumHas(r.attr, r.val)
BY StateHasWords DEF OpStateOr, Pending, IdleRx

(* A tap of one of the enums, and what its handler sets. *)
LEMMA EnumTap ==
  ASSUME NEW t \in AppTaps, ~t.fixed
  PROVE  /\ t.write.dp \in Settable /\ t.attr = EnumTable[t.write.dp].attr
         /\ t.val \in DOMAIN CodeTable[t.write.dp]
<1>1. t \notin {Start, Pause, GoHome, Locate}
  <2>1. Start.fixed /\ Pause.fixed /\ GoHome.fixed /\ Locate.fixed
    BY DEF Start, Pause, GoHome, Locate, FixedTap
  <2> QED BY <2>1
<1>2. PICK d \in DOMAIN CodeTable : \E value \in DOMAIN CodeTable[d] : t = SetEnum(d, value)
  BY <1>1 DEF AppTaps
<1> QED BY <1>2, SettableDPs DEF SetEnum, EncodeEnum, Write

LEMMA TapHasWords ==
  ASSUME NEW t \in AppTaps
  PROVE  EnumHas(t.attr, t.val)
<1>1. CASE t \in {Start, Pause, GoHome, Locate}
  <2>1. /\ Start.attr = "operatingState" /\ Pause.attr = "operatingState"
        /\ GoHome.attr = "operatingState" /\ Locate.attr = "none"
    BY DEF Start, Pause, GoHome, Locate, FixedTap
  <2>2. t.attr \in {"operatingState", "none"}
    BY <1>1, <2>1
  <2> QED BY <2>2, EnumAttrNames DEF EnumHas
<1>2. CASE t \notin {Start, Pause, GoHome, Locate}
  <2>1. PICK d \in DOMAIN CodeTable : \E value \in DOMAIN CodeTable[d] : t = SetEnum(d, value)
    BY <1>2 DEF AppTaps
  <2>2. d \in Settable /\ t.attr = EnumTable[d].attr /\ t.val \in DOMAIN CodeTable[d]
    BY <2>1, SettableDPs DEF SetEnum
  <2> QED BY <2>2, EnumAttrNames DEF EnumHas
<1> QED BY <1>1, <1>2

LEMMA WordsFrame ==
  ASSUME WordsInv, UNCHANGED <<cap, rx>>, cmd'.pc = "usr_cb" => cmd' = cmd
  PROVE  WordsInv'
BY DEF WordsInv, EnumHas

LEMMA WordsRx ==
  ASSUME TypeOK, WordsInv, RxStep
  PROVE  WordsInv'
<1>1. cmd' = cmd
  BY DEF RxStep, RxRecord, RxTest, RxSet, RxSnapshot, RxPublish
<1>2. CASE RxRecord
  <2> DEFINE d == Head(rxq).dp  v == Head(rxq).val
  <2>1. /\ cap' = cap
        /\ rx' = IF OwnAttr(d, v) # "none"
                 THEN Pending(OwnAttr(d, v), OwnValue(d, v), d \in OpStateDPs)
                 ELSE OpStateOr(d \in OpStateDPs, s_last')
    BY <1>2 DEF RxRecord
  <2>2. rx'.pc # "idle" => EnumHas(rx'.attr, rx'.val)
    BY <2>1, OwnHasWords, OpStateHasWords DEF Pending
  <2> QED BY <1>1, <2>1, <2>2 DEF WordsInv, EnumHas
<1>3. CASE RxTest \/ RxPublish
  <2>1. /\ cap' = cap
        /\ \/ rx' = [rx EXCEPT !.pc = "set"] /\ rx.pc = "test"
           \/ rx' = OpStateOr(rx.then, s_last)
    BY <1>3 DEF RxTest, RxPublish, NextPublication, bridgeVars
  <2>2. rx'.pc # "idle" => EnumHas(rx'.attr, rx'.val)
    BY <2>1, OpStateHasWords DEF WordsInv, TypeOK, IdleRx
  <2> QED BY <1>1, <2>1, <2>2 DEF WordsInv, EnumHas
<1>4. CASE RxSet
  <2>1. /\ rx.pc = "set" /\ rx'.attr = rx.attr /\ rx'.val = rx.val /\ DOMAIN cap = Attrs
        /\ cap' = [cap EXCEPT ![rx.attr] = rx.val]
    BY <1>4 DEF RxSet, TypeOK, IdleRx
  <2>2. EnumHas(rx.attr, rx.val)
    BY <2>1 DEF WordsInv
  <2>3. \A a \in Attrs : cap'[a] = IF a = rx.attr THEN rx.val ELSE cap[a]
    BY <2>1
  <2> QED BY <1>1, <2>1, <2>2, <2>3 DEF WordsInv, EnumHas
<1>5. CASE RxSnapshot
  <2>1. cap' = cap /\ rx.pc = "snap" /\ rx'.attr = rx.attr /\ rx'.val = rx.val
    BY <1>5 DEF RxSnapshot, TypeOK, IdleRx, bridgeVars
  <2> QED BY <1>1, <2>1 DEF WordsInv, EnumHas
<1> QED BY <1>2, <1>3, <1>4, <1>5 DEF RxStep

LEMMA WordsTap ==
  ASSUME TypeOK, WordsInv, NEW t \in Taps, CmdTap(t)
  PROVE  WordsInv'
<1>1. rx' = rx /\ cmd'.tap = t /\ t \in AppTaps
  BY TapsAreCommands DEF CmdTap
<1>2. \A a \in Attrs : cap'[a] = cap[a] \/ (a = t.attr /\ cap'[a] = t.val)
  BY DEF CmdTap, TypeOK
<1>3. \A a \in Attrs : EnumHas(a, cap'[a])
  BY <1>2, <1>1, TapHasWords DEF WordsInv
<1> QED BY <1>1, <1>3 DEF WordsInv, EnumHas

LEMMA WordsNext ==
  ASSUME TypeOK, WordsInv, [Next]_vars
  PROVE  WordsInv'
<1>1. CASE RxStep
  BY <1>1, WordsRx
<1>2. CASE \E t \in Taps : CmdTap(t)
  BY <1>2, WordsTap
<1>3. CASE CmdStep
  <2>1. UNCHANGED <<cap, rx>>
    BY <1>3 DEF CmdStep, CmdUsrCb, CmdSnapshot, CmdPublish, bridgeVars
  <2>2. DOMAIN cmd = {"pc", "tap", "snap"}
    BY DEF TypeOK, IdleCmd
  <2>3. \/ cmd' = IdleCmd
        \/ cmd' = [cmd EXCEPT !.pc = "snap"]
        \/ cmd' = [cmd EXCEPT !.pc = "publish", !.snap = cap[cmd.tap.attr]]
    BY <1>3 DEF CmdStep, CmdUsrCb, CmdSnapshot, CmdPublish
  <2>4. cmd'.pc # "usr_cb"
    <3>1. CASE cmd' = IdleCmd
      BY <3>1 DEF IdleCmd
    <3>2. CASE cmd' = [cmd EXCEPT !.pc = "snap"]
      BY <2>2, <3>2
    <3>3. CASE cmd' = [cmd EXCEPT !.pc = "publish", !.snap = cap[cmd.tap.attr]]
      BY <2>2, <3>3
    <3> QED BY <2>3, <3>1, <3>2, <3>3
  <2>5. cmd'.pc = "usr_cb" => cmd' = cmd
    BY <2>4
  <2> QED BY <2>1, <2>5, WordsFrame
<1>4. CASE StStep \/ \E s \in Statuses : StMove(s)
  <2>1. UNCHANGED <<cap, rx, cmd>>
    BY <1>4 DEF StStep, StMove, StInitSnapshot, StInitPublish, StIgnored, StStatus, StReset,
                StQuery, bridgeVars
  <2> QED BY <2>1, WordsFrame
<1>5. CASE Reboot
  <2>1. cap' = [a \in Attrs |-> BootValue(a)] /\ rx'.pc = "idle" /\ cmd'.pc = "idle"
    BY <1>5 DEF Reboot, IdleRx, IdleCmd
  <2>2. \A a \in Attrs : EnumHas(a, cap'[a])
    BY <2>1, BootHasWords
  <2> QED BY <2>1, <2>2 DEF WordsInv, EnumHas
<1>6. CASE (Robot \/ Outside) /\ ~Reboot
  <2>1. UNCHANGED <<cap, rx, cmd>>
    BY <1>6 DEF Robot, McuReport, McuChange, McuReceive, Outside, LoseTx, LoseRx, LinkLost,
           espVars, bridgeVars, taskVars
  <2> QED BY <2>1, WordsFrame
<1>7. CASE UNCHANGED vars
  BY <1>7, WordsFrame DEF vars, bridgeVars, taskVars
<1> QED BY <1>1, <1>2, <1>3, <1>4, <1>5, <1>6, <1>7, NextCases DEF RxStep

(* Whoever stored it last, a callback finds a value it can encode. *)
THEOREM ReadBack == Spec => []ReadBackEncodable
<1>1. Init => WordsInv
  <2> SUFFICES ASSUME Init PROVE WordsInv
    OBVIOUS
  <2>1. rx.pc = "idle" /\ cmd.pc = "idle" /\ \A a \in Attrs : cap[a] = BootValue(a)
    BY DEF Init, IdleRx, IdleCmd
  <2> QED BY <2>1, BootHasWords DEF WordsInv
<1>2. TypeOK /\ WordsInv /\ [Next]_vars => WordsInv'
  BY WordsNext
<1>3. WordsInv => ReadBackEncodable
  <2> SUFFICES ASSUME WordsInv, cmd.pc = "usr_cb", ~cmd.tap.fixed
               PROVE  ValueAtCallback(cmd.tap) \in DOMAIN CodeTable[cmd.tap.write.dp]
    BY DEF ReadBackEncodable
  <2>1. /\ cmd.tap.write.dp \in Settable /\ cmd.tap.attr = EnumTable[cmd.tap.write.dp].attr
        /\ cmd.tap.val \in DOMAIN CodeTable[cmd.tap.write.dp]
    BY EnumTap DEF WordsInv
  <2> QED BY <2>1 DEF WordsInv, EnumHas, ValueAtCallback
<1> QED BY <1>1, <1>2, <1>3, TypeCorrect, PTL DEF Spec
=============================================================================
