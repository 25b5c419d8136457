----------------------------- MODULE TuyaTxProofs -----------------------------
(***************************************************************************)
(* For every number of tasks and every set of frames: no frame is spliced, *)
(* and tuya_send_frame() implements the atomic channel of FrameChannel.    *)
(* Mutual exclusion alone is not inductive with respect to the robot's     *)
(* parser: WriterInv also says that the parser is exactly where the lock's *)
(* holder is.                                                              *)
(***************************************************************************)
EXTENDS TuyaTx, TLAPS

Critical == {"header", "payload", "checksum", "unlock"}

LockInv ==
  /\ \A t \in Tasks : pc[t] \in Critical => s_tx_lock = t
  /\ s_tx_lock # NoTask => pc[s_tx_lock] \in Critical

WriterInv ==
  /\ \A t \in Tasks : pc[t] \in {"payload", "checksum"} => from = t /\ want = pc[t]
  /\ \A t \in Tasks : pc[t] \in {"header"} => from = NoTask /\ want = "header"
  /\ from # NoTask => from = s_tx_lock /\ pc[from] \in {"payload", "checksum"}
  /\ from = NoTask => want = "header"

IInv == TypeOK /\ LockInv /\ WriterInv /\ NothingDropped

LEMMA InitInv == Init => IInv
<1> SUFFICES ASSUME Init PROVE IInv
  OBVIOUS
<1>1. \A t \in Tasks : pc[t] = "none"
  BY DEF Init
<1>2. wire \in Seq([from : Tasks, frame : Frames])
  BY DEF Init
<1>3. TypeOK
  BY <1>2 DEF Init, TypeOK
<1>4. LockInv /\ WriterInv /\ NothingDropped
  BY <1>1, NoTaskIsNone DEF Init, LockInv, WriterInv, NothingDropped, Critical
<1> QED BY <1>3, <1>4 DEF IInv

(* A write of the lock's holder is the one the parser wants. *)
LEMMA Accepted ==
  ASSUME IInv, NEW t \in Tasks, NEW part \in {"header", "payload", "checksum"},
         pc[t] = part, Arrives(t, part)
  PROVE  /\ want' = WantAfter(part, frame[t])
         /\ from' = (IF part = "checksum" THEN NoTask ELSE t)
         /\ wire' = (IF part = "checksum"
                     THEN Append(wire, [from |-> t, frame |-> frame[t]]) ELSE wire)
         /\ dropped' = FALSE
<1>1. want = part /\ from \in {NoTask, t}
  BY DEF IInv, WriterInv
<1> QED BY <1>1 DEF Arrives, IInv, NothingDropped, TypeOK

LEMMA StepInv == IInv /\ [Next]_vars => IInv'
<1> SUFFICES ASSUME IInv, [Next]_vars PROVE IInv'
  OBVIOUS
<1> USE NoTaskIsNone
<1>1. ASSUME NEW t \in Tasks, NEW f \in Frames, Enter(t, f) PROVE IInv'
  BY <1>1 DEF Enter, At, IInv, TypeOK, LockInv, WriterInv, NothingDropped, Critical
<1>2. ASSUME NEW t \in Tasks, Lock(t) PROVE IInv'
  BY <1>2 DEF Lock, At, IInv, TypeOK, LockInv, WriterInv, NothingDropped, Critical
<1>3. ASSUME NEW t \in Tasks, WriteHeader(t) PROVE IInv'
  <2>1. pc[t] = "header" /\ pc' = [pc EXCEPT ![t] = AfterHeader(frame[t])]
        /\ Arrives(t, "header") /\ UNCHANGED <<s_tx_lock, frame>>
    BY <1>3 DEF WriteHeader, At
  <2>2. want' = AfterHeader(frame[t]) /\ from' = t /\ wire' = wire /\ dropped' = FALSE
    BY <2>1, Accepted DEF WantAfter
  <2>3. AfterHeader(frame[t]) \in {"payload", "checksum"}
    BY DEF AfterHeader
  <2> QED BY <2>1, <2>2, <2>3 DEF IInv, TypeOK, LockInv, WriterInv, NothingDropped, Critical
<1>4. ASSUME NEW t \in Tasks, WritePayload(t) PROVE IInv'
  <2>1. pc[t] = "payload" /\ pc' = [pc EXCEPT ![t] = "checksum"]
        /\ Arrives(t, "payload") /\ UNCHANGED <<s_tx_lock, frame>>
    BY <1>4 DEF WritePayload, At
  <2>2. want' = "checksum" /\ from' = t /\ wire' = wire /\ dropped' = FALSE
    BY <2>1, Accepted DEF WantAfter
  <2> QED BY <2>1, <2>2 DEF IInv, TypeOK, LockInv, WriterInv, NothingDropped, Critical
<1>5. ASSUME NEW t \in Tasks, WriteChecksum(t) PROVE IInv'
  <2>1. pc[t] = "checksum" /\ pc' = [pc EXCEPT ![t] = "unlock"]
        /\ Arrives(t, "checksum") /\ UNCHANGED <<s_tx_lock, frame>>
    BY <1>5 DEF WriteChecksum, At
  <2>2. want' = "header" /\ from' = NoTask /\ dropped' = FALSE
        /\ wire' = Append(wire, [from |-> t, frame |-> frame[t]])
    BY <2>1, Accepted DEF WantAfter
  <2>3. wire' \in Seq([from : Tasks, frame : Frames])
    BY <2>2 DEF IInv, TypeOK
  <2> QED BY <2>1, <2>2, <2>3 DEF IInv, TypeOK, LockInv, WriterInv, NothingDropped, Critical
<1>6. ASSUME NEW t \in Tasks, Unlock(t) PROVE IInv'
  BY <1>6 DEF Unlock, At, IInv, TypeOK, LockInv, WriterInv, NothingDropped, Critical
<1>7. ASSUME UNCHANGED vars PROVE IInv'
  BY <1>7 DEF vars, IInv, TypeOK, LockInv, WriterInv, NothingDropped
<1> QED BY <1>1, <1>2, <1>3, <1>4, <1>5, <1>6, <1>7 DEF Next, Step

LEMMA Invariant == Spec => []IInv
BY InitInv, StepInv, PTL DEF Spec

(* No two frames are spliced, whoever transmits: the robot's parser never  *)
(* has to drop one (tuya_send_frame under s_tx_lock).                      *)
THEOREM NoSplice == Spec => []NothingDropped
<1>1. IInv => NothingDropped
  BY DEF IInv
<1> QED BY <1>1, Invariant, PTL

(* A step of the three writes is a step of the atomic channel, or none. *)
LEMMA StepRefines == IInv /\ [Next]_vars => [Channel!Next]_(Channel!channelVars)
<1> SUFFICES ASSUME IInv, [Next]_vars PROVE [Channel!Next]_(Channel!channelVars)
  OBVIOUS
<1> DEFINE call == [t \in Tasks |-> Phase(pc[t])]
<1>t. pc \in [Tasks -> {"none", "lock", "header", "payload", "checksum", "unlock"}]
  BY DEF IInv, TypeOK
<1>a. ASSUME NEW t \in Tasks, NEW here, NEW there, At(t, here, there), Phase(here) = Phase(there)
      PROVE  call' = call
  BY <1>a, <1>t DEF At
<1>b. ASSUME NEW t \in Tasks, NEW here, NEW there, At(t, here, there)
      PROVE  call[t] = Phase(here) /\ call' = [call EXCEPT ![t] = Phase(there)]
  BY <1>b, <1>t DEF At
<1>1. ASSUME NEW t \in Tasks, NEW f \in Frames, Enter(t, f) PROVE Channel!Call(t, f)
  BY <1>1, <1>b DEF Enter, Channel!Call, Phase
<1>2. ASSUME NEW t \in Tasks, Lock(t) PROVE UNCHANGED Channel!channelVars
  BY <1>2, <1>a DEF Lock, Phase, Channel!channelVars
<1>3. ASSUME NEW t \in Tasks, WriteHeader(t) PROVE UNCHANGED Channel!channelVars
  <2>1. call' = call
    BY <1>3, <1>a DEF WriteHeader, Phase, AfterHeader
  <2>2. wire' = wire /\ frame' = frame
    BY <1>3, Accepted DEF WriteHeader, At
  <2> QED BY <2>1, <2>2 DEF Channel!channelVars
<1>4. ASSUME NEW t \in Tasks, WritePayload(t) PROVE UNCHANGED Channel!channelVars
  <2>1. call' = call
    BY <1>4, <1>a DEF WritePayload, Phase
  <2>2. wire' = wire /\ frame' = frame
    BY <1>4, Accepted DEF WritePayload, At
  <2> QED BY <2>1, <2>2 DEF Channel!channelVars
<1>5. ASSUME NEW t \in Tasks, WriteChecksum(t) PROVE Channel!Send(t)
  <2>1. call[t] = "called" /\ call' = [call EXCEPT ![t] = "sent"]
    BY <1>5, <1>b DEF WriteChecksum, Phase
  <2>2. wire' = Append(wire, [from |-> t, frame |-> frame[t]]) /\ frame' = frame
    BY <1>5, Accepted DEF WriteChecksum, At
  <2> QED BY <2>1, <2>2 DEF Channel!Send
<1>6. ASSUME NEW t \in Tasks, Unlock(t) PROVE Channel!Return(t)
  BY <1>6, <1>b DEF Unlock, Channel!Return, Phase
<1>7. ASSUME UNCHANGED vars PROVE UNCHANGED Channel!channelVars
  BY <1>7 DEF vars, Channel!channelVars
<1> QED BY <1>1, <1>2, <1>3, <1>4, <1>5, <1>6, <1>7 DEF Next, Step, Channel!Next

(* The three writes under the lock are one atomic, whole frame: what       *)
(* CoredyBridge assumes of Transmit holds for any tasks and any frames.    *)
THEOREM Refinement == Spec => SendsWholeFrames
<1>1. Init => Channel!Init
  BY DEF Init, Channel!Init, Phase
<1> QED BY <1>1, Invariant, StepRefines, PTL DEF Spec, Channel!Spec, SendsWholeFrames

(* Type correctness: the senders and the parser they feed keep their types, for any frames. *)
THEOREM TypeCorrect == Spec => []TypeOK
<1>1. IInv => TypeOK
  BY DEF IInv
<1> QED BY <1>1, Invariant, PTL
=============================================================================
