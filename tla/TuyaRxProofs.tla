---------------------------- MODULE TuyaRxProofs ----------------------------
(***************************************************************************)
(* For every byte width, header and MaxPayload: the parser stays inside    *)
(* its buffer and is back in step after Enough undisturbed bytes, and from *)
(* then on every frame is delivered.                                       *)
(*                                                                         *)
(* Resynced is not inductive: the induction needs to know how long an      *)
(* out-of-step parser can still be misled.  Either it is inside a frame it *)
(* imagined, and what that frame can still swallow bounds the calm bytes   *)
(* so far; or it looks for a header in the middle of a real frame, and its *)
(* position in that frame does.                                            *)
(***************************************************************************)
EXTENDS TuyaRx, TLAPS

Full == MaxPayload + 6

(* Bytes an imagined frame may still take. *)
Left ==
  CASE state = "VER" -> MaxPayload + 5
    [] state = "CMD" -> MaxPayload + 4
    [] state = "LENHI" -> MaxPayload + 3
    [] state = "LENLO" -> MaxPayload + 2
    [] state = "PAYLOAD" -> len - idx + 1
    [] OTHER -> 1

Looking == state \in {"HDR1", "HDR2"}

Misled == ~Looking /\ calm + Left <= Full
Searching == Looking /\ pos >= 1 /\ calm <= Full + pos - 1

(* The header byte the parser holds is the robot's last, unless disturbed. *)
HeaderInv ==
  /\ state = "HDR2" => checksum_calc = H1 /\ (calm > 0 => last = H1)
  /\ pos = 1 => sum = H1 /\ last = H1
  /\ pos = 2 => last = H2

IInv == TypeOK /\ BufferSafe /\ HeaderInv /\ (InStep \/ Misled \/ Searching)
-----------------------------------------------------------------------------
LEMMA ByteSum == \A a, b \in Bytes : (a + b) % Base \in Bytes
BY BaseAssumption DEF Bytes

LEMMA LengthNat == \A a, b \in Bytes : a * Base + b \in Nat
BY BaseAssumption DEF Bytes

LEMMA BytesNat == Bytes \subseteq Nat
BY BaseAssumption DEF Bytes

LEMMA ShortestFrame == \A k \in Nat : 6 + k \in Nat /\ 6 <= 6 + k
OBVIOUS

LEMMA InitInv == Init => IInv
<1> SUFFICES ASSUME Init PROVE IInv
  OBVIOUS
<1>1. 0 \in Bytes
  BY HeaderAssumption, BaseAssumption DEF Bytes
<1>2. n = hi * Base + lo
  BY BaseAssumption DEF Init
<1> QED BY <1>1, <1>2, MaxPayloadAssumption
     DEF Init, IInv, TypeOK, States, BufferSafe, HeaderInv, InStep, End
-----------------------------------------------------------------------------
(* What a byte does to the parser alone. *)
LEMMA ParserType ==
  ASSUME TypeOK, BufferSafe, NEW b \in Bytes, ProcessByte(b)
  PROVE  /\ state' \in States /\ len_hi' \in Bytes /\ len' \in Nat /\ idx' \in Nat
         /\ checksum_calc' \in Bytes /\ handled' \in {"none", "ok", "dropped"}
         /\ BufferSafe'
<1> USE ByteSum, LengthNat, MaxPayloadAssumption, HeaderAssumption DEF TypeOK, States, BufferSafe
<1>1. CASE state = "HDR1" /\ Hdr1(b)
  BY <1>1 DEF Hdr1
<1>2. CASE state = "HDR2" /\ Hdr2(b)
  BY <1>2 DEF Hdr2, Add
<1>3. CASE state = "VER" /\ Ver(b)
  BY <1>3 DEF Ver, Add
<1>4. CASE state = "CMD" /\ Cmd(b)
  BY <1>4 DEF Cmd, Add
<1>5. CASE state = "LENHI" /\ LenHi(b)
  BY <1>5 DEF LenHi, Add
<1>6. CASE state = "LENLO" /\ LenLo(b)
  <2>1. len' \in Nat
    BY <1>6 DEF LenLo
  <2> QED BY <1>6, <2>1 DEF LenLo, AfterLength, Add
<1>7. CASE state = "PAYLOAD" /\ Payload(b)
  BY <1>7 DEF Payload, Add
<1>8. CASE state = "CKSUM" /\ Cksum(b)
  BY <1>8 DEF Cksum
<1> QED BY <1>1, <1>2, <1>3, <1>4, <1>5, <1>6, <1>7, <1>8 DEF ProcessByte

LEMMA RobotType ==
  ASSUME TypeOK, NEW b \in Bytes, RobotSends(b)
  PROVE  /\ hi' \in Bytes /\ lo' \in Bytes /\ n' = hi' * Base + lo' /\ n' <= MaxPayload
         /\ pos' \in Nat /\ pos' <= End' /\ sum' \in Bytes /\ last' \in Bytes
         /\ n \in Nat /\ n' \in Nat
         /\ pos' = 1 => sum' = H1 /\ last' = H1
         /\ pos' = 2 => last' = H2
         /\ pos # 0 => n' = n /\ hi' = hi /\ lo' = lo
<1>1. n \in Nat
  BY LengthNat DEF TypeOK
<1>2. hi' \in Bytes /\ lo' \in Bytes /\ n' = hi' * Base + lo' /\ n' <= MaxPayload
  BY DEF TypeOK, RobotSends
<1>3. n' \in Nat
  BY <1>2, LengthNat
<1>4. pos # 0 => n' = n /\ hi' = hi /\ lo' = lo
  BY DEF RobotSends
<1>5. sum' \in Bytes /\ last' \in Bytes
  BY ByteSum DEF TypeOK, RobotSends
<1>6. pos' = (IF pos = End THEN 0 ELSE pos + 1) /\ pos \in Nat /\ pos <= End
  BY DEF RobotSends, TypeOK
<1>7. pos' \in Nat /\ pos' <= End'
  <2>1. CASE pos # 0
    <3>1. End' = End /\ End \in Nat
      BY <1>1, <1>4, <2>1 DEF End
    <3> HIDE DEF End
    <3> QED BY <1>6, <3>1
  <2>2. CASE pos = 0
    <3>1. End' \in Nat /\ 6 <= End'
      BY <1>3, ShortestFrame, Zenon DEF End
    <3>2. pos' \in {0, 1}
      BY <1>6, <2>2
    <3> HIDE DEF End
    <3> QED BY <3>1, <3>2
  <2> QED BY <2>1, <2>2
<1>8. (pos' = 1 => sum' = H1 /\ last' = H1) /\ (pos' = 2 => last' = H2)
  BY <1>1, <1>6 DEF RobotSends, IsNext, End
<1> QED BY <1>1, <1>2, <1>3, <1>4, <1>5, <1>7, <1>8
-----------------------------------------------------------------------------
Progress == InStep \/ Misled \/ Searching

(* Right after a disturbance the parser may be anywhere. *)
Disturbed == TypeOK /\ BufferSafe /\ calm = 0

LEMMA Anywhere == Disturbed => Progress
<1> SUFFICES ASSUME TypeOK, BufferSafe, calm = 0 PROVE Progress
  BY DEF Disturbed
<1> USE MaxPayloadAssumption
<1>1. CASE Looking /\ pos = 0
  BY <1>1 DEF Looking, Progress, InStep
<1>2. CASE Looking /\ pos # 0
  BY <1>2 DEF Progress, Searching, TypeOK, Full
<1>3. CASE ~Looking
  <2>1. Left <= Full
    BY <1>3 DEF Left, Full, Looking, TypeOK, States, BufferSafe
  <2>2. 0 + Left <= Full
    BY <1>3, <2>1 DEF Left, Full, TypeOK, BufferSafe, Looking, States
  <2> QED BY <1>3, <2>2 DEF Progress, Misled
<1> QED BY <1>1, <1>2, <1>3

LEMMA AnywhereNext == Disturbed' => Progress'
BY Anywhere, PTL

(* Whatever arrives, a parser in HDR2 holds the header's first byte only. *)
LEMMA HoldsH1 ==
  ASSUME TypeOK, HeaderInv, NEW b \in Bytes, ProcessByte(b), state' = "HDR2"
  PROVE  checksum_calc' = H1 /\ b = H1
<1> USE DEF TypeOK, States, HeaderInv
<1>1. CASE state = "HDR1" /\ Hdr1(b)
  BY <1>1 DEF Hdr1
<1>2. CASE state = "HDR2" /\ Hdr2(b)
  BY <1>2 DEF Hdr2
<1>3. ~(state = "VER" /\ Ver(b)) /\ ~(state = "CMD" /\ Cmd(b)) /\ ~(state = "LENHI" /\ LenHi(b))
  BY DEF Ver, Cmd, LenHi
<1>4. ~(state = "LENLO" /\ LenLo(b)) /\ ~(state = "PAYLOAD" /\ Payload(b))
      /\ ~(state = "CKSUM" /\ Cksum(b))
  BY DEF LenLo, AfterLength, Payload, Cksum
<1> QED BY <1>1, <1>2, <1>3, <1>4 DEF ProcessByte
-----------------------------------------------------------------------------
(* In step, a byte that arrives as sent leaves the parser in step. *)
LEMMA StaysInStep ==
  ASSUME IInv, InStep, NEW b \in Bytes, RobotSends(b), ProcessByte(b)
  PROVE  InStep' /\ handled' = IF pos = End THEN "ok" ELSE "none"
<1> USE HeaderAssumption, MaxPayloadAssumption DEF IInv, TypeOK, States, HeaderInv
<1>n. n \in Nat
  BY LengthNat
<1>r. /\ pos' = (IF pos = End THEN 0 ELSE pos + 1)
      /\ sum' = (IF pos = 0 THEN b ELSE (sum + b) % Base)
      /\ pos # 0 => n' = n /\ hi' = hi /\ lo' = lo
      /\ IsNext(b)
  BY DEF RobotSends
<1>1. CASE pos = 0
  BY <1>1, <1>n, <1>r DEF ProcessByte, Hdr1, Hdr2, InStep, IsNext, End
<1>2. CASE pos = 1 /\ state = "HDR2" /\ checksum_calc = sum
  BY <1>2, <1>n, <1>r DEF ProcessByte, Hdr2, Add, InStep, IsNext, End
<1>3. CASE pos = 2 /\ state = "VER" /\ checksum_calc = sum
  BY <1>3, <1>n, <1>r DEF ProcessByte, Ver, Add, InStep, End
<1>4. CASE pos = 3 /\ state = "CMD" /\ checksum_calc = sum
  BY <1>4, <1>n, <1>r DEF ProcessByte, Cmd, Add, InStep, End
<1>5. CASE pos = 4 /\ state = "LENHI" /\ checksum_calc = sum
  BY <1>5, <1>n, <1>r DEF ProcessByte, LenHi, Add, InStep, IsNext, End
<1>6. CASE pos = 5 /\ state = "LENLO" /\ checksum_calc = sum /\ len_hi = hi
  <2>1. LenLo(b) /\ b = lo /\ pos' = 6 /\ n' = n /\ sum' = checksum_calc'
    BY <1>6, <1>n, <1>r DEF ProcessByte, LenLo, Add, IsNext, End
  <2>2. len' = n /\ idx' = 0 /\ handled' = "none" /\ state' = AfterLength(n)
    BY <1>6, <2>1 DEF LenLo
  <2>3. CASE n = 0
    BY <1>6, <1>n, <2>1, <2>2, <2>3 DEF AfterLength, InStep, End
  <2>4. CASE n # 0
    BY <1>6, <1>n, <2>1, <2>2, <2>4 DEF AfterLength, InStep, End
  <2> QED BY <2>3, <2>4
<1>7. CASE /\ pos >= 6 /\ pos < End
           /\ state = "PAYLOAD" /\ checksum_calc = sum /\ len = n /\ idx + 6 = pos
  <2>1. Payload(b) /\ pos' = pos + 1 /\ n' = n /\ sum' = checksum_calc'
    BY <1>7, <1>n, <1>r DEF ProcessByte, Payload, Add, End
  <2>2. idx' = idx + 1 /\ len' = n /\ handled' = "none"
        /\ state' = IF idx + 1 >= n THEN "CKSUM" ELSE "PAYLOAD"
    BY <1>7, <2>1 DEF Payload
  <2> QED BY <1>7, <1>n, <2>1, <2>2 DEF InStep, End
<1>8. CASE pos >= 6 /\ pos = End /\ state = "CKSUM" /\ checksum_calc = sum
  BY <1>8, <1>n, <1>r DEF ProcessByte, Cksum, InStep, IsNext, End
<1> QED BY <1>1, <1>2, <1>3, <1>4, <1>5, <1>6, <1>7, <1>8 DEF InStep

LEMMA LessLeft ==
  \A c, d, k, l \in Nat : c + k <= Full /\ d <= c + 1 /\ l <= k - 1 => d + l <= Full
BY MaxPayloadAssumption DEF Full

LEMMA LaterInFrame == \A c, p \in Nat : c <= Full /\ p >= 1 => c <= Full + p - 1
BY MaxPayloadAssumption DEF Full

(* A frame that the parser imagined takes the byte, or ends with it. *)
LEMMA StaysMisled ==
  ASSUME IInv, Misled, NEW b \in Bytes, RobotSends(b), ProcessByte(b),
         calm' \in Nat, calm' <= calm + 1
  PROVE  Progress'
<1> USE MaxPayloadAssumption DEF IInv, TypeOK, States, BufferSafe
<1>t. pos' \in Nat
  BY RobotType
<1>1. CASE state = "VER" /\ Ver(b)
  BY <1>1 DEF Ver, Misled, Left, Looking, Full, Progress
<1>2. CASE state = "CMD" /\ Cmd(b)
  BY <1>2 DEF Cmd, Misled, Left, Looking, Full, Progress
<1>3. CASE state = "LENHI" /\ LenHi(b)
  BY <1>3 DEF LenHi, Misled, Left, Looking, Full, Progress
<1>e. ASSUME state' = "HDR1", calm' <= Full PROVE Progress'
  <2>1. CASE pos' = 0
    BY <1>e, <2>1 DEF Progress, InStep
  <2>2. CASE pos' # 0
    <3>1. pos' >= 1
      BY <1>t, <2>2
    <3>2. calm' <= Full + pos' - 1
      BY <1>e, <1>t, <3>1, LaterInFrame, Zenon
    <3> QED BY <1>e, <3>1, <3>2 DEF Progress, Searching, Looking, Full
  <2> QED BY <2>1, <2>2
<1>l. Left \in Nat /\ calm + Left <= Full
  BY DEF Misled, Left, Looking
<1>d. ASSUME ~Looking', Left' \in Nat, Left' <= Left - 1 PROVE Progress'
  <2>1. calm' + Left' <= Full
    BY <1>d, <1>l, LessLeft, Zenon
  <2> QED BY <1>d, <2>1 DEF Progress, Misled, Full
<1>4. CASE state = "LENLO" /\ LenLo(b)
  <2>1. len' \in Nat /\ idx' = 0 /\ state' = AfterLength(len')
    BY <1>4, ParserType DEF LenLo
  <2>2. Left = MaxPayload + 2 /\ calm + Left <= Full
    BY <1>4 DEF Misled, Left
  <2>3. CASE len' = 0
    <3>1. ~Looking' /\ Left' = 1
      BY <2>1, <2>3 DEF AfterLength, Left, Looking
    <3> QED BY <2>2, <3>1, <1>d
  <2>4. CASE len' > MaxPayload
    <3>1. state' = "HDR1"
      BY <2>1, <2>4 DEF AfterLength
    <3> QED BY <2>2, <3>1, <1>e DEF Full
  <2>5. CASE len' # 0 /\ ~(len' > MaxPayload)
    <3>1. state' = "PAYLOAD"
      BY <2>1, <2>5 DEF AfterLength
    <3>2. Left' = len' - 0 + 1
      BY <2>1, <3>1 DEF Left
    <3>3. \A l \in Nat : ~(l > MaxPayload) => l - 0 + 1 \in Nat /\ l - 0 + 1 <= MaxPayload + 1
      OBVIOUS
    <3>4. Left' \in Nat /\ Left' <= MaxPayload + 1
      BY <2>1, <2>5, <3>2, <3>3, Zenon
    <3> QED BY <2>2, <3>1, <3>4, <1>d DEF Looking
  <2> QED BY <2>3, <2>4, <2>5
<1>5. CASE state = "PAYLOAD" /\ Payload(b)
  <2>1. Left = len - idx + 1
    BY <1>5 DEF Left
  <2>2. CASE idx + 1 >= len
    <3>1. ~Looking' /\ Left' = 1
      BY <1>5, <2>2 DEF Payload, Left, Looking
    <3> QED BY <1>5, <2>1, <3>1, <1>d
  <2>3. CASE ~(idx + 1 >= len)
    <3>1. ~Looking' /\ Left' = len - (idx + 1) + 1
      BY <1>5, <2>3 DEF Payload, Left, Looking
    <3>2. Left' \in Nat /\ Left' <= Left - 1
      BY <1>5, <2>1, <2>3, <3>1
    <3> QED BY <3>1, <3>2, <1>d
  <2> QED BY <2>2, <2>3
<1>6. CASE state = "CKSUM" /\ Cksum(b)
  BY <1>6, <1>e DEF Cksum, Misled, Left, Full
<1> QED BY <1>1, <1>2, <1>3, <1>4, <1>5, <1>6 DEF ProcessByte, Misled, Looking

(* A search goes on to the end of the frame, unless a header's bytes turn  *)
(* up inside it.                                                           *)
LEMMA StaysSearching ==
  ASSUME IInv, Searching, ~InStep, NEW b \in Bytes, RobotSends(b), ProcessByte(b),
         calm' \in Nat, calm' <= calm + 1, ~FalseHeader(b)
  PROVE  Progress'
<1> USE MaxPayloadAssumption, HeaderAssumption DEF IInv, TypeOK, States
<1>n. n \in Nat
  BY LengthNat
<1>t. /\ pos' = (IF pos = End THEN 0 ELSE pos + 1) /\ pos \in Nat /\ pos >= 1
      /\ calm <= Full + pos - 1 /\ Looking
  BY DEF RobotSends, Searching
<1>l. ASSUME Looking' PROVE Progress'
  <2>1. CASE pos = End
    BY <1>t, <1>l, <2>1 DEF Progress, InStep, Looking
  <2>2. CASE pos # End
    BY <1>t, <1>l, <2>2 DEF Progress, Searching, Full
  <2> QED BY <2>1, <2>2
<1>1. CASE state = "HDR1" /\ Hdr1(b)
  BY <1>1, <1>l DEF Hdr1, Looking
<1>2. CASE state = "HDR2" /\ Hdr2(b) /\ b # H2
  BY <1>2, <1>l DEF Hdr2, Looking
<1>3. CASE state = "HDR2" /\ Hdr2(b) /\ b = H2
  <2>1. pos >= 2
    BY <1>3, <1>t DEF HeaderInv, InStep
  <2>2. calm = 0
    BY <1>3, <2>1 DEF HeaderInv, FalseHeader
  <2>3. state' = "VER"
    BY <1>3 DEF Hdr2
  <2> QED BY <2>2, <2>3 DEF Progress, Misled, Looking, Left, Full
<1> QED BY <1>t, <1>1, <1>2, <1>3 DEF ProcessByte, Looking
-----------------------------------------------------------------------------
LEMMA StepInv == IInv /\ [Next]_vars => IInv'
<1> SUFFICES ASSUME IInv, [Next]_vars PROVE IInv'
  OBVIOUS
<1>i. TypeOK /\ BufferSafe /\ HeaderInv /\ Progress /\ calm \in Nat
  BY DEF IInv, Progress, TypeOK
<1>1. ASSUME NEW b \in Bytes, Receive(b) PROVE IInv'
  <2>1. RobotSends(b) /\ ProcessByte(b)
    BY <1>1 DEF Receive
  <2>2. calm' \in Nat /\ calm' <= calm + 1 /\ (FalseHeader(b) => calm' = 0)
    BY <1>1, <1>i, MaxPayloadAssumption DEF Receive
  <2>3. TypeOK' /\ BufferSafe'
    BY <1>i, <2>1, <2>2, ParserType, RobotType DEF TypeOK
  <2>4. HeaderInv'
    BY <1>i, <2>1, HoldsH1, RobotType DEF HeaderInv, RobotSends
  <2>5. CASE FalseHeader(b)
    BY <2>2, <2>3, <2>5, AnywhereNext, <2>4 DEF Disturbed, IInv, Progress
  <2>6. CASE ~FalseHeader(b)
    <3>1. Progress'
      BY <1>i, <2>1, <2>2, <2>6, StaysInStep, StaysMisled, StaysSearching DEF Progress
    <3> QED BY <2>3, <2>4, <3>1 DEF IInv, Progress
  <2> QED BY <2>5, <2>6
<1>2. ASSUME NEW b \in Bytes, Noise(b) PROVE IInv'
  <2>1. ProcessByte(b) /\ calm' = 0 /\ UNCHANGED robot
    BY <1>2 DEF Noise
  <2>2. TypeOK' /\ BufferSafe'
    BY <1>i, <2>1, ParserType DEF TypeOK, robot, End
  <2>3. HeaderInv'
    BY <1>i, <2>1, HoldsH1 DEF HeaderInv, robot
  <2> QED BY <2>1, <2>2, <2>3, AnywhereNext DEF Disturbed, IInv, Progress
<1>3. ASSUME NEW b \in Bytes, Lose(b) PROVE IInv'
  <2>1. RobotSends(b) /\ calm' = 0 /\ UNCHANGED parser
    BY <1>3 DEF Lose
  <2>2. TypeOK' /\ BufferSafe'
    BY <1>i, <2>1, RobotType DEF TypeOK, BufferSafe, parser
  <2>3. HeaderInv'
    BY <1>i, <2>1, RobotType DEF HeaderInv, parser
  <2> QED BY <2>1, <2>2, <2>3, AnywhereNext DEF Disturbed, IInv, Progress
<1>4. ASSUME Restart PROVE IInv'
  <2>1. TypeOK' /\ BufferSafe'
    BY <1>i, <1>4, HeaderAssumption, BaseAssumption
       DEF TypeOK, BufferSafe, Restart, robot, States, End, Bytes
  <2>2. HeaderInv'
    BY <1>i, <1>4 DEF HeaderInv, Restart, robot
  <2> QED BY <1>4, <2>1, <2>2, AnywhereNext DEF Restart, Disturbed, IInv, Progress
<1>5. ASSUME UNCHANGED vars PROVE IInv'
  BY <1>5 DEF IInv, vars, parser, robot, TypeOK, BufferSafe, HeaderInv, End,
              InStep, Misled, Searching, Looking, Left
<1> QED BY <1>1, <1>2, <1>3, <1>4, <1>5 DEF Next

LEMMA Invariant == Spec => []IInv
BY InitInv, StepInv, PTL DEF Spec

(* The parser's state keeps its types, whatever bytes arrive. *)
THEOREM TypeCorrect == Spec => []TypeOK
<1>1. IInv => TypeOK
  BY DEF IInv
<1> QED BY <1>1, Invariant, PTL

(* Whatever lengths the line makes up, process_byte() writes inside        *)
(* payload[] only.                                                         *)
THEOREM Buffer == Spec => []BufferSafe
<1>1. IInv => BufferSafe
  BY DEF IInv
<1> QED BY <1>1, Invariant, PTL

LEMMA CalmInStep == IInv => Resynced
<1> SUFFICES ASSUME IInv, calm > Enough PROVE InStep
  BY DEF Resynced
<1> USE MaxPayloadAssumption DEF IInv, TypeOK, States, BufferSafe
<1>1. ~Misled
  <2>1. ~Looking => Left >= 1 /\ Left \in Nat
    BY DEF Left, Looking
  <2> QED BY <2>1 DEF Misled, Full, Enough
<1>2. ~Searching
  BY DEF Searching, Full, Enough, End
<1> QED BY <1>1, <1>2

(* After Enough undisturbed bytes the parser is in step with the robot,    *)
(* wherever noise, a lost byte or a restart had left it.                   *)
THEOREM Resynchronises == Spec => []Resynced
BY CalmInStep, Invariant, PTL

(* And then every frame is delivered with its checksum, and nothing else   *)
(* is taken for a frame.                                                   *)
THEOREM NoFrameLost == Spec => Delivers
<1>1. IInv /\ [Next]_vars
        => [calm > Enough /\ calm' > Enough => handled' = IF pos = End THEN "ok" ELSE "none"]_vars
  <2> SUFFICES ASSUME IInv, Next, calm > Enough, calm' > Enough
               PROVE  handled' = IF pos = End THEN "ok" ELSE "none"
    OBVIOUS
  <2>1. InStep
    BY CalmInStep DEF Resynced
  <2>2. calm' # 0
    BY MaxPayloadAssumption DEF Enough
  <2>3. PICK b \in Bytes : Receive(b)
    BY <2>2 DEF Next, Noise, Lose, Restart
  <2> QED BY <2>1, <2>3, StaysInStep DEF Receive
<1> QED BY <1>1, Invariant, PTL DEF Spec, Delivers
=============================================================================
