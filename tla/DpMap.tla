------------------------------- MODULE DpMap --------------------------------
(***************************************************************************)
(* The data-point tables of coredy_bridge.c: what a DP report of the       *)
(* robot's STM32 means as SmartThings attribute values, and which DP write *)
(* an app command turns into.  Only pure operators; CoredyBridge runs them *)
(* inside its tasks.                                                       *)
(*                                                                         *)
(* A raw value is a uint32_t.  An attribute value is a string, an integer  *)
(* (percentages, and the cleaned area in tenths of a square metre), or,    *)
(* for the hardwareFault summary, the set of the words the code joins with *)
(* commas: the order of the words is that of the code's table, so the set  *)
(* determines the text.  The area is published unsigned but cached as an   *)
(* int; it stands here as that int, which determines it.                   *)
(***************************************************************************)
EXTENDS Naturals, Integers, Sequences, FiniteSets

DP_AREA_CLEANED == 14
DP_ERROR == 17
DP_STATUS == 101
DP_CLEAN_MODE == 102
DP_FAN_SPEED == 104
DP_BATTERY_PCT == 108
DP_BRUSH_PCT == 109
DP_ROLLER_PCT == 110
DP_HEPA_PCT == 111
DP_ACTIVATE == 112
DP_LOCATE == 116
DP_WATER_LEVEL == 120

(* DPs that are understood and deliberately inert. *)
InertDPs == {1, 105, 107, DP_LOCATE, 118, 119}

(***************************************************************************)
(* DP17, the fault bitmap.  Bit k of the uint32_t is 2^k.                  *)
(***************************************************************************)
FaultName ==
  [k \in 0..8 |-> <<"cliff", "imp", "whl", "brush", "fan", "roller_brush",
                    "low_power", "give_up", "no_dust">>[k + 1]]

Bit(bits, k) == (bits \div 2^k) % 2 = 1

SetBits(bits) == {k \in DOMAIN FaultName : Bit(bits, k)}

(* A bitmap with only bits outside the table is "unrecognized", not "None". *)
FaultSummary(bits) ==
  IF SetBits(bits) # {} THEN {FaultName[k] : k \in SetBits(bits)}
  ELSE IF bits = 0 THEN {"None"} ELSE {"unrecognized"}

(* The bits that mean the robot is physically stuck: cliff, imp, whl,
   brush, roller_brush. *)
StuckBits == {0, 1, 2, 3, 5}

(* The operating state a fault forces, "" when it forces none (no_dust). *)
FaultState(bits) ==
  IF SetBits(bits) \cap StuckBits # {} THEN "stuck"
  ELSE IF Bit(bits, 4) THEN "unableToCompleteOperation"
  ELSE IF Bit(bits, 6) THEN "unableToStartOrResume"
  ELSE IF Bit(bits, 7) THEN "unableToCompleteOperation" ELSE ""

StatusState ==
  [v \in {0, 1, 2, 4, 5} |-> CASE v = 0 -> "stopped" [] v = 1 -> "paused"
                               [] v = 2 -> "running" [] v = 4 -> "seekingCharger"
                               [] v = 5 -> "charging"]

(* DP112 stands in for a DP101 that is missing (-1) or not in the table. *)
ActivateState(dp112) ==
  CASE dp112 = 1 -> "running" [] dp112 = 0 -> "paused" [] OTHER -> "stopped"

OperatingState(dp17, dp101, dp112) ==
  IF FaultState(dp17) # "" THEN FaultState(dp17)
  ELSE IF dp101 \in DOMAIN StatusState THEN StatusState[dp101]
  ELSE ActivateState(dp112)

(***************************************************************************)
(* The three settable enums.  A raw value outside a table leaves the tile  *)
(* as it is: DP102 = 1 (random) and 6 (overload), DP120 = 4 (idle).        *)
(***************************************************************************)
CleaningModeOf ==
  [v \in {0, 2, 3, 4, 5} |-> CASE v = 0 -> "auto" [] v = 2 -> "edge" [] v = 3 -> "spot"
                               [] v = 4 -> "smallRoom" [] v = 5 -> "home"]
SuctionOf == [v \in 0..2 |-> <<"quiet", "normal", "max">>[v + 1]]
WaterOf == [v \in 0..2 |-> <<"low", "medium", "high">>[v + 1]]

(* The DPs whose reports set one attribute through a decode table ... *)
EnumTable ==
  [d \in {DP_CLEAN_MODE, DP_FAN_SPEED, DP_WATER_LEVEL} |->
     CASE d = DP_CLEAN_MODE -> [attr |-> "cleaningMode", of |-> CleaningModeOf]
       [] d = DP_FAN_SPEED -> [attr |-> "suctionLevel", of |-> SuctionOf]
       [] d = DP_WATER_LEVEL -> [attr |-> "waterLevel", of |-> WaterOf]]

(* ... and those whose raw number is the attribute. *)
NumberAttr ==
  [d \in {DP_AREA_CLEANED, DP_BATTERY_PCT, DP_BRUSH_PCT, DP_ROLLER_PCT, DP_HEPA_PCT} |->
     CASE d = DP_AREA_CLEANED -> "area"
       [] d = DP_BATTERY_PCT -> "battery"
       [] d = DP_BRUSH_PCT -> "brush"
       [] d = DP_ROLLER_PCT -> "rollerBrush"
       [] d = DP_HEPA_PCT -> "filter"]

EnumAttrs == {EnumTable[d].attr : d \in DOMAIN EnumTable}
NumberAttrs == {NumberAttr[d] : d \in DOMAIN NumberAttr}
AllAttrs == {"operatingState", "hardwareFault"} \cup EnumAttrs \cup NumberAttrs

KnownDPs == {DP_ERROR, DP_STATUS, DP_ACTIVATE} \cup DOMAIN EnumTable
            \cup DOMAIN NumberAttr \cup InertDPs

(* (int)v of a uint32_t: 0xFFFFFFFF is -1, which is also "never published". *)
INT_MAX == 2147483647
AsInt(v) == IF v <= INT_MAX THEN v ELSE v - INT_MAX - INT_MAX - 2

(***************************************************************************)
(* on_dp(): a record <<dp, v>> first publishes the attribute it stands for *)
(* ("none" when there is none, or v has no place in its enum), and the     *)
(* three DPs below then recompute the operating state.                     *)
(***************************************************************************)
OwnAttr(dp, v) ==
  IF dp = DP_ERROR THEN "hardwareFault"
  ELSE IF dp \in DOMAIN NumberAttr THEN NumberAttr[dp]
  ELSE IF dp \in DOMAIN EnumTable /\ v \in DOMAIN EnumTable[dp].of THEN EnumTable[dp].attr
  ELSE "none"

OwnValue(dp, v) ==
  CASE dp = DP_ERROR -> FaultSummary(v)
    [] dp \in DOMAIN EnumTable -> EnumTable[dp].of[v]
    [] OTHER -> AsInt(v)

(* Mutant: a fault alone does not recompute the operating state. *)
OpStateDPsNoFault == {DP_STATUS, DP_ACTIVATE}

OpStateDPs == {DP_ERROR, DP_STATUS, DP_ACTIVATE}

OpStateOf(last) == OperatingState(last.dp17, last.dp101, last.dp112)

(* What on_dp() remembers of a record. *)
Remember(dp, v, last) ==
  CASE dp = DP_ERROR -> [last EXCEPT !.dp17 = v]
    [] dp = DP_STATUS -> [last EXCEPT !.dp101 = AsInt(v)]
    [] dp = DP_ACTIVATE -> [last EXCEPT !.dp112 = AsInt(v)]
    [] OTHER -> last

(* No DP seen yet: -1 for the enums, but 0, which is "no fault", for DP17. *)
NothingSeen == [dp17 |-> 0, dp101 |-> -1, dp112 |-> -1]

(* "Never published": the value reset_publish_cache() leaves. *)
Unpublished(a) ==
  CASE a \in NumberAttrs -> -1 [] a = "hardwareFault" -> {} [] OTHER -> ""

(* What capability_init() puts into the capabilities at boot. *)
BootValue(a) ==
  CASE a = "operatingState" -> "stopped" [] a = "cleaningMode" -> "auto"
    [] a = "suctionLevel" -> "normal" [] a = "waterLevel" -> "medium"
    [] a = "hardwareFault" -> {"None"} [] OTHER -> 0

(***************************************************************************)
(* App commands.  A tap carries the attribute its handler sets, the value  *)
(* it sets it to, and the DP write its user callback makes.  The callbacks *)
(* of start, pause, goHome and locate write a constant; those of the three *)
(* enums read the capability's value back when they run and encode it, so  *)
(* `fixed` is FALSE and the write depends on the value found then.         *)
(***************************************************************************)
Write(d, v) == [dp |-> d, val |-> v]

FixedTap(a, value, w) == [attr |-> a, val |-> value, fixed |-> TRUE, write |-> w]
Start == FixedTap("operatingState", "running", Write(DP_ACTIVATE, 1))
Pause == FixedTap("operatingState", "paused", Write(DP_ACTIVATE, 0))
GoHome == FixedTap("operatingState", "seekingCharger", Write(DP_CLEAN_MODE, 5))
(* The momentary capability has no attribute: nothing is set or published. *)
Locate == FixedTap("none", "", Write(DP_LOCATE, 1))

(* The commands have tables of their own, from words to raw values. *)
CleaningModeCode == [auto |-> 0, edge |-> 2, spot |-> 3, smallRoom |-> 4, home |-> 5]
SuctionCode == [quiet |-> 0, normal |-> 1, max |-> 2]
WaterCode == [low |-> 0, medium |-> 1, high |-> 2]
CodeTable ==
  [d \in DOMAIN EnumTable |->
     CASE d = DP_CLEAN_MODE -> CleaningModeCode
       [] d = DP_FAN_SPEED -> SuctionCode
       [] d = DP_WATER_LEVEL -> WaterCode]

EncodeEnum(d, value) == Write(d, CodeTable[d][value])

SetEnum(d, value) ==
  [attr |-> EnumTable[d].attr, val |-> value, fixed |-> FALSE, write |-> EncodeEnum(d, value)]

(* The taps of the app: a word that is not one of its enum is refused. *)
AppTaps ==
  {Start, Pause, GoHome, Locate}
    \cup UNION {{SetEnum(d, value) : value \in DOMAIN CodeTable[d]} : d \in DOMAIN CodeTable}

(* The write the user callback makes when it finds `value` stored. *)
WriteOf(tap, value) ==
  IF tap.fixed THEN tap.write ELSE EncodeEnum(tap.write.dp, value)
=============================================================================
