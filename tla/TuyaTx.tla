------------------------------- MODULE TuyaTx -------------------------------
(***************************************************************************)
(* tuya_send_frame() of tuya_uart.c, called by any number of tasks at once *)
(* (the heartbeat, STDK's command and status tasks, the receive task's     *)
(* handshake answers): header, payload and checksum go out as separate     *)
(* uart_write_bytes() calls under s_tx_lock.                               *)
(*                                                                         *)
(* The robot's end is external.  The UART driver keeps the order of the    *)
(* writes, so the robot's parser is stepped with each: it wants a header,  *)
(* then as many payload bytes as it announced, then a checksum over them,  *)
(* and drops what does not fit.                                            *)
(***************************************************************************)
EXTENDS Naturals, Sequences

CONSTANTS
  Tasks, Frames,
  Bare,       \* the frames with no payload, such as the query-all
  NoTask,
  MaxFrames   \* bound: frames on the wire

ASSUME NoTaskIsNone == NoTask \notin Tasks
ASSUME BareAreFrames == Bare \subseteq Frames

VARIABLES
  s_tx_lock,  \* holder
  pc, frame,  \* per task
  want,       \* what the robot's parser wants next
  from,       \* whose frame it is in the middle of
  wire,       \* the frames it accepted
  dropped     \* it has dropped a frame

vars == <<s_tx_lock, pc, frame, want, from, wire, dropped>>

Init ==
  /\ s_tx_lock = NoTask
  /\ pc = [t \in Tasks |-> "none"] /\ frame \in [Tasks -> Frames]
  /\ want = "header" /\ from = NoTask
  /\ wire = <<>> /\ dropped = FALSE

At(t, here, there) == pc[t] = here /\ pc' = [pc EXCEPT ![t] = there]

AfterHeader(f) == IF f \in Bare THEN "checksum" ELSE "payload"

(* What a parser that has just had `part` of frame f wants. *)
WantAfter(part, f) ==
  IF part = "header" THEN AfterHeader(f) ELSE IF part = "payload" THEN "checksum" ELSE "header"

(* One write arrives at the robot. *)
Arrives(t, part) ==
  IF want = part /\ from \in {NoTask, t}
  THEN /\ want' = WantAfter(part, frame[t])
       /\ from' = IF part = "checksum" THEN NoTask ELSE t
       /\ wire' = IF part = "checksum" THEN Append(wire, [from |-> t, frame |-> frame[t]])
                  ELSE wire
       /\ UNCHANGED dropped
  ELSE want' = "header" /\ from' = NoTask /\ dropped' = TRUE /\ UNCHANGED wire

Enter(t, f) ==
  /\ At(t, "none", "lock")
  /\ Len(wire) < MaxFrames
  /\ frame' = [frame EXCEPT ![t] = f]
  /\ UNCHANGED <<s_tx_lock, want, from, wire, dropped>>

(* Mutant: s_tx_lock was never created, and is not taken. *)
LockNull(t) ==
  /\ At(t, "lock", "header")
  /\ UNCHANGED <<s_tx_lock, frame, want, from, wire, dropped>>

Lock(t) ==
  /\ At(t, "lock", "header")
  /\ s_tx_lock = NoTask /\ s_tx_lock' = t
  /\ UNCHANGED <<frame, want, from, wire, dropped>>

WriteHeader(t) ==
  /\ At(t, "header", AfterHeader(frame[t]))
  /\ Arrives(t, "header")
  /\ UNCHANGED <<s_tx_lock, frame>>

WritePayload(t) ==
  /\ At(t, "payload", "checksum")
  /\ Arrives(t, "payload")
  /\ UNCHANGED <<s_tx_lock, frame>>

WriteChecksum(t) ==
  /\ At(t, "checksum", "unlock")
  /\ Arrives(t, "checksum")
  /\ UNCHANGED <<s_tx_lock, frame>>

(* Mutant: the lock is not given back. *)
UnlockForgotten(t) ==
  /\ At(t, "unlock", "none")
  /\ UNCHANGED <<s_tx_lock, frame, want, from, wire, dropped>>

Unlock(t) ==
  /\ At(t, "unlock", "none")
  /\ s_tx_lock' = NoTask
  /\ UNCHANGED <<frame, want, from, wire, dropped>>

Step(t) == Lock(t) \/ WriteHeader(t) \/ WritePayload(t) \/ WriteChecksum(t) \/ Unlock(t)

Next == \E t \in Tasks : Step(t) \/ \E f \in Frames : Enter(t, f)

Spec == Init /\ [][Next]_vars

(* A task in a call runs on; a waiter for the mutex is woken. *)
Fairness == \A t \in Tasks : SF_vars(Step(t))
FairSpec == Spec /\ Fairness
-----------------------------------------------------------------------------
(* Type invariant. *)
TypeOK ==
  /\ s_tx_lock \in Tasks \cup {NoTask}
  /\ pc \in [Tasks -> {"none", "lock", "header", "payload", "checksum", "unlock"}]
  /\ frame \in [Tasks -> Frames]
  /\ want \in {"header", "payload", "checksum"}
  /\ from \in Tasks \cup {NoTask}
  /\ wire \in Seq([from : Tasks, frame : Frames])
  /\ dropped \in BOOLEAN

(* "Two of those interleaving splices one frame into the middle of         *)
(* another; the STM32 then drops both on checksum": it never happens.      *)
NothingDropped == ~dropped

(* Each call is one atomic, whole frame on the wire (FrameChannel). *)
Phase(c) == IF c = "none" THEN "none" ELSE IF c = "unlock" THEN "sent" ELSE "called"
Channel == INSTANCE FrameChannel WITH call <- [t \in Tasks |-> Phase(pc[t])]
SendsWholeFrames == Channel!Spec

(* A call returns, however many tasks are sending. *)
EverySendReturns == \A t \in Tasks : pc[t] # "none" ~> pc[t] = "none"
=============================================================================
