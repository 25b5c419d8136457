---------------------------- MODULE FrameChannel ----------------------------
(***************************************************************************)
(* What the tasks that transmit expect of tuya_send_frame(): each call   *)
(* its frame on the wire whole, once, at some instant between the call and *)
(* the return, whoever else is sending.  CoredyBridge's Transmit is such a *)
(* call; TuyaTx shows that the three uart_write_bytes() calls implement it. *)
(***************************************************************************)
EXTENDS Sequences

CONSTANTS Tasks, Frames

VARIABLES
  call,   \* per task: "none", "called" or "sent"
  frame,  \* per task: the frame of its last call
  wire    \* the frames sent, each with its sender

channelVars == <<call, frame, wire>>

Init ==
  /\ call = [t \in Tasks |-> "none"]
  /\ frame \in [Tasks -> Frames]
  /\ wire = <<>>

Call(t, f) ==
  /\ call[t] = "none"
  /\ call' = [call EXCEPT ![t] = "called"] /\ frame' = [frame EXCEPT ![t] = f]
  /\ UNCHANGED wire

Send(t) ==
  /\ call[t] = "called"
  /\ call' = [call EXCEPT ![t] = "sent"] /\ wire' = Append(wire, [from |-> t, frame |-> frame[t]])
  /\ UNCHANGED frame

Return(t) ==
  /\ call[t] = "sent"
  /\ call' = [call EXCEPT ![t] = "none"]
  /\ UNCHANGED <<frame, wire>>

Next == \E t \in Tasks : Send(t) \/ Return(t) \/ \E f \in Frames : Call(t, f)

Spec == Init /\ [][Next]_channelVars
=============================================================================
