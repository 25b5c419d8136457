----------------------------- MODULE LogMirror -----------------------------
(***************************************************************************)
(* The mirror of the log: log_buffer.c hooks esp_log's output and copies   *)
(* every line to the queue of each subscriber; handle_logs() of            *)
(* http_server.c is a subscriber that streams its queue to a browser until *)
(* a send fails.  Any task may log at any moment.                          *)
(*                                                                         *)
(* A line is its number in the order in which the hook took subs_mutex;    *)
(* its text is left out.  The hook formats into its own stack, so the      *)
(* steps that other tasks can see are the lock, each slot, the unlock.     *)
(***************************************************************************)
EXTENDS Naturals, Sequences, Functions

CONSTANTS
  Loggers, Viewers,      \* tasks that log; requests for /logs
  Nobody,
  MAX_SUBS, QUEUE_DEPTH,
  MaxLines               \* bound: lines logged

Slots == 1 .. MAX_SUBS

ASSUME NobodyIsNone == Nobody \notin Loggers \cup Viewers
ASSUME TasksDiffer == Loggers \cap Viewers = {}
ASSUME SizesAssumption == MAX_SUBS \in Nat /\ QUEUE_DEPTH \in Nat

VARIABLES
  subs_mutex,  \* holder
  active, q,   \* subs[]: in use; the queue's lines
  created,     \* subs[].q # NULL
  pc,          \* of every task
  i,           \* the slot that the hook with the mutex is at
  slot, held,  \* per viewer: its queue (0: none), the line it has received (0: none)
  gone,        \* per viewer: the browser has closed the connection
  sent,        \* per viewer: newest line when it subscribed, then the last it took
  live,        \* per slot: the copies malloc gave out for it
  logged       \* lines so far: the newest is the one the hook with the mutex has

log == <<i, logged>>
http == <<slot, held, gone, sent>>
mirror == <<active, q, created, live>>
vars == <<subs_mutex, mirror, pc, log, http>>

(* log_buffer_init *)
Init ==
  /\ subs_mutex = Nobody
  /\ active = [s \in Slots |-> FALSE] /\ created = [s \in Slots |-> FALSE]
  /\ q = [s \in Slots |-> <<>>] /\ live = [s \in Slots |-> {}]
  /\ pc = [t \in Loggers \cup Viewers |-> "idle"]
  /\ i = 1 /\ logged = 0
  /\ slot = [v \in Viewers |-> 0] /\ held = [v \in Viewers |-> 0]
  /\ gone = [v \in Viewers |-> FALSE] /\ sent = [v \in Viewers |-> 0]

At(t, here, there) == pc[t] = here /\ pc' = [pc EXCEPT ![t] = there]

TakeMutex(t) == subs_mutex = Nobody /\ subs_mutex' = t
GiveMutex == subs_mutex' = Nobody
-----------------------------------------------------------------------------
(* log_vprintf_hook(), run by the task that logs. *)

Vprintf(t) == At(t, "idle", "take") /\ logged < MaxLines /\ UNCHANGED <<subs_mutex, mirror, log, http>>

(* Mutant: the hook waits for the mutex (portMAX_DELAY). *)
TakeFailsNever(t) == FALSE /\ At(t, "take", "idle") /\ UNCHANGED <<subs_mutex, mirror, log, http>>

(* The mutex is taken with a timeout of zero: the line is not mirrored. *)
TakeFails(t) ==
  /\ At(t, "take", "idle")
  /\ subs_mutex # Nobody
  /\ UNCHANGED <<subs_mutex, mirror, log, http>>

Take(t) ==
  /\ At(t, "take", "look") /\ TakeMutex(t)
  /\ logged' = logged + 1
  /\ UNCHANGED <<mirror, i, http>>

(* No subscriber, or nothing left of the line once colours and line ends are off. *)
Nothing(t) ==
  /\ At(t, "look", "idle") /\ GiveMutex
  /\ UNCHANGED <<mirror, log, http>>

Format(t) ==
  /\ At(t, "look", "send")
  /\ \E s \in Slots : active[s]
  /\ UNCHANGED <<subs_mutex, mirror, log, http>>

(* Mutant: the copy for a full queue is not freed. *)
QueueOrLeak(s) ==
  /\ live' = [live EXCEPT ![s] = @ \cup {logged}]
  /\ q' = IF Len(q[s]) < QUEUE_DEPTH THEN [q EXCEPT ![s] = Append(@, logged)] ELSE q

(* xQueueSend() with a timeout of zero; a copy that does not fit is freed. *)
QueueOrFree(s) ==
  IF Len(q[s]) < QUEUE_DEPTH
  THEN /\ q' = [q EXCEPT ![s] = Append(@, logged)]
       /\ live' = [live EXCEPT ![s] = @ \cup {logged}]
  ELSE UNCHANGED <<q, live>>

(* Mutant: the loop runs to i <= MAX_SUBS. *)
OfferPastEnd(t) ==
  /\ pc[t] = "send" /\ i <= MAX_SUBS + 1 /\ i' = i + 1
  /\ \/ i <= MAX_SUBS /\ active[i] /\ QueueOrFree(i)
     \/ UNCHANGED <<q, live>>
  /\ UNCHANGED <<subs_mutex, active, created, pc, logged, http>>

(* One turn of the loop over the slots; malloc may fail. *)
Offer(t) ==
  /\ pc[t] = "send" /\ i <= MAX_SUBS /\ i' = i + 1
  /\ \/ active[i] /\ QueueOrFree(i)
     \/ UNCHANGED <<q, live>>
  /\ UNCHANGED <<subs_mutex, active, created, pc, logged, http>>

Give(t) ==
  /\ i > MAX_SUBS /\ At(t, "send", "idle") /\ GiveMutex /\ i' = 1
  /\ UNCHANGED <<mirror, logged, http>>

Hook(t) == TakeFails(t) \/ Take(t) \/ Nothing(t) \/ Format(t) \/ Offer(t) \/ Give(t)
-----------------------------------------------------------------------------
(* handle_logs(), run by the log server for a browser. *)

Request(v) == At(v, "idle", "subscribe") /\ UNCHANGED <<subs_mutex, mirror, log, http>>

SubTake(v) ==
  /\ At(v, "subscribe", "choose") /\ TakeMutex(v)
  /\ UNCHANGED <<mirror, log, http>>

IsFree(s) == ~active[s] /\ \A r \in Slots : r < s => active[r]

(* log_buffer_subscribe(): the first free slot, whose queue stays for later *)
(* subscribers.                                                             *)
Subscribe(v) ==
  \E s \in Slots :
    /\ IsFree(s) /\ At(v, "choose", "hello") /\ GiveMutex
    /\ active' = [active EXCEPT ![s] = TRUE] /\ created' = [created EXCEPT ![s] = TRUE]
    /\ slot' = [slot EXCEPT ![v] = s] /\ sent' = [sent EXCEPT ![v] = logged]
    /\ UNCHANGED <<q, live, log, held, gone>>

(* All slots are in use, or there is no memory for a queue. *)
NoSlot(v) ==
  /\ At(v, "choose", "idle") /\ GiveMutex
  /\ \A s \in Slots : IsFree(s) => ~created[s]
  /\ UNCHANGED <<mirror, log, http>>

(* A send that fails, and always once the browser is gone, ends the stream. *)
Hello(v) ==
  /\ \/ ~gone[v] /\ At(v, "hello", "stream")
     \/ At(v, "hello", "leave")
  /\ UNCHANGED <<subs_mutex, mirror, log, http>>

Receive(v) ==
  /\ At(v, "stream", "write") /\ q[slot[v]] # <<>>
  /\ held' = [held EXCEPT ![v] = Head(q[slot[v]])]
  /\ q' = [q EXCEPT ![slot[v]] = Tail(@)]
  /\ UNCHANGED <<subs_mutex, active, created, live, log, slot, gone, sent>>

Write(v) ==
  /\ \/ ~gone[v] /\ At(v, "write", "stream")
     \/ At(v, "write", "drain")
  /\ live' = [live EXCEPT ![slot[v]] = @ \ {held[v]}]
  /\ sent' = [sent EXCEPT ![v] = held[v]] /\ held' = [held EXCEPT ![v] = 0]
  /\ UNCHANGED <<subs_mutex, active, q, created, log, slot, gone>>

(* Mutant: the keepalive's result is ignored. *)
KeepAliveIgnored(v) == FALSE /\ At(v, "stream", "drain") /\ UNCHANGED <<subs_mutex, mirror, log, http>>

(* Fifteen quiet seconds: a comment is sent, and fails. *)
KeepAliveFails(v) ==
  /\ At(v, "stream", "drain") /\ q[slot[v]] = <<>>
  /\ UNCHANGED <<subs_mutex, mirror, log, http>>

(* The loop over the leftovers, while the hook may add to them. *)
Drain(v) ==
  /\ pc[v] = "drain" /\ q[slot[v]] # <<>>
  /\ live' = [live EXCEPT ![slot[v]] = @ \ {Head(q[slot[v]])}]
  /\ sent' = [sent EXCEPT ![v] = Head(q[slot[v]])]
  /\ q' = [q EXCEPT ![slot[v]] = Tail(@)]
  /\ UNCHANGED <<subs_mutex, active, created, pc, log, slot, held, gone>>

Drained(v) ==
  /\ At(v, "drain", "leave") /\ q[slot[v]] = <<>>
  /\ UNCHANGED <<subs_mutex, mirror, log, http>>

UnsubTake(v) ==
  /\ At(v, "leave", "free") /\ TakeMutex(v)
  /\ UNCHANGED <<mirror, log, http>>

(* Mutant: handle_logs() has drained the queue already, so this does not. *)
EmptiedNot(s) == UNCHANGED <<q, live>>

Emptied(s) ==
  /\ q' = [q EXCEPT ![s] = <<>>]
  /\ live' = [live EXCEPT ![s] = @ \ Range(q[s])]

(* log_buffer_unsubscribe() *)
Unsubscribe(v) ==
  /\ At(v, "free", "idle") /\ GiveMutex
  /\ active' = [active EXCEPT ![slot[v]] = FALSE] /\ Emptied(slot[v])
  /\ slot' = [slot EXCEPT ![v] = 0] /\ sent' = [sent EXCEPT ![v] = 0]
  /\ gone' = [gone EXCEPT ![v] = FALSE]
  /\ UNCHANGED <<created, log, held>>

Handler(v) ==
  \/ SubTake(v) \/ Subscribe(v) \/ NoSlot(v) \/ Hello(v) \/ Receive(v) \/ Write(v)
  \/ KeepAliveFails(v) \/ Drain(v) \/ Drained(v) \/ UnsubTake(v) \/ Unsubscribe(v)

(* The browser goes away (external). *)
Leave(v) ==
  /\ slot[v] # 0 /\ ~gone[v] /\ gone' = [gone EXCEPT ![v] = TRUE]
  /\ UNCHANGED <<subs_mutex, mirror, pc, log, slot, held, sent>>
-----------------------------------------------------------------------------
Next ==
  \/ \E t \in Loggers : Vprintf(t) \/ Hook(t)
  \/ \E v \in Viewers : Request(v) \/ Handler(v) \/ Leave(v)

Spec == Init /\ [][Next]_vars

(* A task that logs runs on, whatever the log server does. *)
LoggersRun == \A t \in Loggers : WF_vars(Hook(t))
LoggersSpec == Spec /\ LoggersRun

(* FreeRTOS wakes a task that waits for the mutex; a receive times out     *)
(* after 15 s, and a send to a browser that is gone fails.                 *)
HandlersRun == \A v \in Viewers : SF_vars(Handler(v))
-----------------------------------------------------------------------------
HookPcs == {"idle", "take", "look", "send"}
HandlerPcs ==
  {"idle", "subscribe", "choose", "hello", "stream", "write", "drain", "leave", "free"}
Subscribed == {"hello", "stream", "write", "drain", "leave", "free"}

(* Type invariant. *)
TypeOK ==
  /\ subs_mutex \in Loggers \cup Viewers \cup {Nobody}
  /\ active \in [Slots -> BOOLEAN] /\ created \in [Slots -> BOOLEAN]
  /\ q \in [Slots -> Seq(Nat)] /\ live \in [Slots -> SUBSET Nat]
  /\ pc \in [Loggers \cup Viewers -> HookPcs \cup HandlerPcs]
  /\ \A t \in Loggers : pc[t] \in HookPcs
  /\ \A v \in Viewers : pc[v] \in HandlerPcs
  /\ i \in 1 .. MAX_SUBS + 1 /\ logged \in Nat
  /\ slot \in [Viewers -> Slots \cup {0}] /\ held \in [Viewers -> Nat]
  /\ gone \in [Viewers -> BOOLEAN] /\ sent \in [Viewers -> Nat]

(* log_buffer_subscribe() hands a queue to one handler only, and a slot is *)
(* in use exactly as long as a handler has it.                             *)
SlotsOwned ==
  /\ \A s \in Slots : active[s] <=> \E v \in Viewers : slot[v] = s
  /\ \A v, w \in Viewers : slot[v] = slot[w] /\ slot[v] # 0 => v = w
  /\ \A s \in Slots : active[s] => created[s]

(* Every copy the hook allocated waits in a queue or is being written by a *)
(* handler: none is lost when a queue is full, a browser leaves or a slot  *)
(* changes hands, and none is there twice.                                 *)
Queued(s) == Range(q[s])
Writing(s) == {held[v] : v \in {w \in Viewers : slot[w] = s /\ pc[w] = "write"}}
CopiesAccounted ==
  \A s \in Slots : live[s] = Queued(s) \cup Writing(s) /\ Queued(s) \cap Writing(s) = {}

(* A browser is sent the lines logged since its own request, in order and  *)
(* once, whoever had the queue before it.                                  *)
InOrder(a) == \A m, n \in 1 .. Len(a) : m < n => a[m] < a[n]
Ordered(v, s) ==
  /\ InOrder(q[s])
  /\ \A l \in Queued(s) : sent[v] < l
  /\ pc[v] = "write" => sent[v] < held[v] /\ \A l \in Queued(s) : held[v] < l
OwnLinesInOrder == \A v \in Viewers : slot[v] # 0 => Ordered(v, slot[v])

(* Logging never waits for the log server: the hook returns even if every  *)
(* handler stops where it is (both waits of the hook are of zero ticks).   *)
LoggingReturns == \A t \in Loggers : pc[t] # "idle" ~> pc[t] = "idle"

(* The slot of a browser that left is given back, lines or no lines to     *)
(* send: the keepalive notices.                                            *)
SlotReleased ==
  HandlersRun => \A v \in Viewers : gone[v] /\ slot[v] # 0 ~> slot[v] = 0
=============================================================================
