------------------------------- MODULE TuyaRx -------------------------------
(***************************************************************************)
(* The receive parser of tuya_uart.c: rx_task takes one byte at a time     *)
(* from the UART and process_byte() assembles frames 55 AA ver cmd len_hi  *)
(* len_lo payload checksum.  There is no timeout: after noise, a byte lost *)
(* in an overflowing ring or a restart in mid-frame, only the bytes that   *)
(* follow bring the parser back in step.                                   *)
(*                                                                         *)
(* The robot is external: it sends well-formed frames back to back, byte   *)
(* after byte.  A payload's content is abstracted to what the parser sees  *)
(* of it, its bytes as they pass.                                          *)
(***************************************************************************)
EXTENDS Naturals

CONSTANTS
  Base,        \* 256
  H1, H2,      \* the header, 0x55 and 0xAA
  MaxPayload   \* TUYA_MAX_PAYLOAD

Bytes == 0 .. Base - 1

ASSUME BaseAssumption == Base \in Nat \ {0}
ASSUME HeaderAssumption == H1 \in Bytes /\ H2 \in Bytes /\ H1 # H2
ASSUME MaxPayloadAssumption == MaxPayload \in Nat

VARIABLES
  state, len_hi, len, idx, checksum_calc,  \* s_parser
  handled,     \* what the last byte made of a frame: "none", "ok" or "dropped"
  pos,         \* robot: position in its frame of the byte it sends next
  n, hi, lo,  \* robot: the frame's payload length, and its two bytes
  sum,         \* robot: the frame's checksum so far
  last,        \* robot: the last byte it sent
  calm         \* bytes since the line or the traffic last misled the parser

parser == <<state, len_hi, len, idx, checksum_calc, handled>>
robot == <<pos, n, hi, lo, sum, last>>
vars == <<parser, robot, calm>>

(* A parser has been misled for at most a frame it imagined, then for the  *)
(* rest of the frame in which that one ended.  Bound: calm stops above it. *)
Enough == (MaxPayload + 6) + (MaxPayload + 5)

Init ==
  /\ state = "HDR1" /\ len_hi = 0 /\ len = 0 /\ idx = 0 /\ checksum_calc = 0
  /\ handled = "none"
  /\ pos = 0 /\ n = 0 /\ hi = 0 /\ lo = 0 /\ sum = 0 /\ last = 0
  /\ calm = 0
-----------------------------------------------------------------------------
(* process_byte(), one operator per state. *)

Add(b) == checksum_calc' = (checksum_calc + b) % Base

Hdr1(b) ==
  /\ IF b = H1 THEN state' = "HDR2" /\ checksum_calc' = b ELSE UNCHANGED <<state, checksum_calc>>
  /\ handled' = "none" /\ UNCHANGED <<len_hi, len, idx>>

(* Mutant: a second 0x55 starts the search again. *)
Hdr2NoRepeat(b) ==
  /\ IF b = H2 THEN state' = "VER" /\ Add(b) ELSE state' = "HDR1" /\ UNCHANGED checksum_calc
  /\ handled' = "none" /\ UNCHANGED <<len_hi, len, idx>>

Hdr2(b) ==
  /\ \/ b = H2 /\ state' = "VER" /\ Add(b)
     \/ b = H1 /\ UNCHANGED <<state, checksum_calc>>
     \/ b \notin {H1, H2} /\ state' = "HDR1" /\ UNCHANGED checksum_calc
  /\ handled' = "none" /\ UNCHANGED <<len_hi, len, idx>>

Ver(b) == state' = "CMD" /\ Add(b) /\ handled' = "none" /\ UNCHANGED <<len_hi, len, idx>>

Cmd(b) == state' = "LENHI" /\ Add(b) /\ handled' = "none" /\ UNCHANGED <<len_hi, len, idx>>

LenHi(b) == state' = "LENLO" /\ len_hi' = b /\ Add(b) /\ handled' = "none" /\ UNCHANGED <<len, idx>>

(* Mutant: a frame too long to be real is believed. *)
AfterLengthUnbounded(l) == IF l = 0 THEN "CKSUM" ELSE "PAYLOAD"

AfterLength(l) == IF l = 0 THEN "CKSUM" ELSE IF l > MaxPayload THEN "HDR1" ELSE "PAYLOAD"

LenLo(b) ==
  /\ len' = len_hi * Base + b
  /\ idx' = 0 /\ state' = AfterLength(len') /\ Add(b)
  /\ handled' = "none" /\ UNCHANGED len_hi

Payload(b) ==
  /\ idx' = idx + 1
  /\ state' = IF idx' >= len THEN "CKSUM" ELSE "PAYLOAD"
  /\ Add(b) /\ handled' = "none" /\ UNCHANGED <<len_hi, len>>

(* Mutant: the checksum byte is summed too before it is compared. *)
CksumSummed(b) ==
  /\ handled' = IF (checksum_calc + b) % Base = b THEN "ok" ELSE "dropped"
  /\ state' = "HDR1" /\ UNCHANGED <<len_hi, len, idx, checksum_calc>>

(* handle_frame() drops the frame, or passes it to the callbacks. *)
Cksum(b) ==
  /\ handled' = IF checksum_calc = b THEN "ok" ELSE "dropped"
  /\ state' = "HDR1" /\ UNCHANGED <<len_hi, len, idx, checksum_calc>>

ProcessByte(b) ==
  \/ state = "HDR1" /\ Hdr1(b)
  \/ state = "HDR2" /\ Hdr2(b)
  \/ state = "VER" /\ Ver(b)
  \/ state = "CMD" /\ Cmd(b)
  \/ state = "LENHI" /\ LenHi(b)
  \/ state = "LENLO" /\ LenLo(b)
  \/ state = "PAYLOAD" /\ Payload(b)
  \/ state = "CKSUM" /\ Cksum(b)
-----------------------------------------------------------------------------
(* The robot (external). *)

End == 6 + n  \* position of the checksum

(* Whatever the frame carries, b may be its next byte. *)
IsNext(b) ==
  /\ pos = 0 => b = H1
  /\ pos = 1 => b = H2
  /\ pos = 4 => b = hi
  /\ pos = 5 => b = lo
  /\ pos = End => b = sum

RobotSends(b) ==
  /\ IsNext(b)
  /\ IF pos = 0
     THEN hi' \in Bytes /\ lo' \in Bytes /\ n' = hi' * Base + lo' /\ n' <= MaxPayload
     ELSE UNCHANGED <<n, hi, lo>>
  /\ pos' = IF pos = End THEN 0 ELSE pos + 1
  /\ sum' = IF pos = 0 THEN b ELSE (sum + b) % Base
  /\ last' = b

(* Header bytes inside a frame: a parser that is looking for one may take them. *)
FalseHeader(b) == pos >= 2 /\ last = H1 /\ b = H2
-----------------------------------------------------------------------------
(* A byte arrives as it was sent. *)
Receive(b) ==
  /\ RobotSends(b) /\ ProcessByte(b)
  /\ calm' = IF FalseHeader(b) THEN 0 ELSE IF calm > Enough THEN calm ELSE calm + 1

(* A byte nobody sent: noise, or another in place of a lost one. *)
Noise(b) == ProcessByte(b) /\ calm' = 0 /\ UNCHANGED robot

(* A byte is lost on the wire or in a full ring buffer, while rx_task was  *)
(* busy in a callback.                                                     *)
Lose(b) == RobotSends(b) /\ calm' = 0 /\ UNCHANGED parser

(* The ESP32 restarts; the robot does not notice (tuya_uart_init). *)
Restart ==
  /\ state' = "HDR1" /\ len_hi' = 0 /\ len' = 0 /\ idx' = 0 /\ checksum_calc' = 0
  /\ handled' = "none" /\ calm' = 0
  /\ UNCHANGED robot

Next == (\E b \in Bytes : Receive(b) \/ Noise(b) \/ Lose(b)) \/ Restart

Spec == Init /\ [][Next]_vars
-----------------------------------------------------------------------------
States == {"HDR1", "HDR2", "VER", "CMD", "LENHI", "LENLO", "PAYLOAD", "CKSUM"}

(* Type invariant. *)
TypeOK ==
  /\ state \in States /\ len_hi \in Bytes /\ len \in Nat /\ idx \in Nat
  /\ checksum_calc \in Bytes
  /\ handled \in {"none", "ok", "dropped"}
  /\ hi \in Bytes /\ lo \in Bytes /\ n = hi * Base + lo /\ n <= MaxPayload
  /\ pos \in Nat /\ pos <= End
  /\ sum \in Bytes /\ last \in Bytes
  /\ calm \in Nat

(* process_byte() stores a payload byte only inside payload[], whatever    *)
(* length the line made up.                                                *)
BufferSafe == state = "PAYLOAD" => idx < len /\ len <= MaxPayload

(* The parser expects the byte that the robot sends next, and has summed   *)
(* the frame so far.                                                       *)
InStep ==
  \/ pos = 0 /\ state \in {"HDR1", "HDR2"}
  \/ pos = 1 /\ state = "HDR2" /\ checksum_calc = sum
  \/ pos = 2 /\ state = "VER" /\ checksum_calc = sum
  \/ pos = 3 /\ state = "CMD" /\ checksum_calc = sum
  \/ pos = 4 /\ state = "LENHI" /\ checksum_calc = sum
  \/ pos = 5 /\ state = "LENLO" /\ checksum_calc = sum /\ len_hi = hi
  \/ /\ pos >= 6 /\ pos < End
     /\ state = "PAYLOAD" /\ checksum_calc = sum /\ len = n /\ idx + 6 = pos
  \/ pos >= 6 /\ pos = End /\ state = "CKSUM" /\ checksum_calc = sum

(* The comment at process_byte() on a length that is too long says         *)
(* "resync": without a timeout, the parser is back in step after at most   *)
(* an imagined frame of full length and the rest of a real one.            *)
Resynced == calm > Enough => InStep

(* Then every frame the robot sends is passed on as soon as its checksum   *)
(* arrives, and nothing else is taken for a frame.                         *)
Delivers ==
  [][calm > Enough /\ calm' > Enough
       => handled' = IF pos = End THEN "ok" ELSE "none"]_vars
=============================================================================
