------------------------- MODULE HttpServerProofs -------------------------
(***************************************************************************)
(* The two handlers of http_server.c that keep state, each with what it    *)
(* serves; they share nothing but this module.                             *)
(*                                                                         *)
(* LogMirror, for any number of logging tasks, viewers, slots and queue    *)
(* places: every copy is accounted for, slots have one owner, and a        *)
(* browser is sent its own lines in order.  OwnLinesInOrder alone is not   *)
(* inductive.  IInv adds who holds the mutex, that an idle slot's queue is *)
(* empty, and that the line in the hook's hand is newer than everything in *)
(* the slots it has not come to yet (Fresh).                               *)
(*                                                                         *)
(* UnknownStore, for a table of any size: no signature has two rows, a     *)
(* rendered row survives until it is delivered, and every frame is         *)
(* counted.  The sum of the hits is a recursive function; what it computes *)
(* is shown by looking at the least row where it would differ.             *)
(***************************************************************************)
EXTENDS LogMirror, UnknownStore, WellFoundedInduction, TLAPS

MutexInv ==
  /\ \A t \in Loggers : pc[t] \in {"look", "send"} <=> subs_mutex = t
  /\ \A v \in Viewers : pc[v] \in {"choose", "free"} <=> subs_mutex = v

SubscribedInv == \A v \in Viewers : slot[v] # 0 <=> pc[v] \in Subscribed

IdleEmpty == \A s \in Slots : ~active[s] => q[s] = <<>>

(* The hook has a line that slot s may still be offered. *)
Pending(s) == \E t \in Loggers : pc[t] = "look" \/ (pc[t] = "send" /\ i <= s)
FromStart == (\A t \in Loggers : pc[t] # "send") => i = 1

Older(s, l) == l <= logged /\ (Pending(s) => l < logged)
Fresh ==
  /\ \A s \in Slots : \A l \in Queued(s) : Older(s, l)
  /\ \A v \in Viewers : slot[v] # 0 =>
       Older(slot[v], sent[v]) /\ (pc[v] = "write" => Older(slot[v], held[v]))

IInv ==
  /\ TypeOK /\ MutexInv /\ SubscribedInv /\ SlotsOwned /\ IdleEmpty
  /\ FromStart /\ Fresh /\ OwnLinesInOrder /\ CopiesAccounted
-----------------------------------------------------------------------------
(* What the queue operations do to the lines in a queue. *)

LEMMA AppendLines ==
  ASSUME NEW a \in Seq(Nat), NEW x \in Nat
  PROVE  /\ Append(a, x) \in Seq(Nat)
         /\ Range(Append(a, x)) = Range(a) \cup {x}
         /\ InOrder(a) /\ (\A l \in Range(a) : l < x) => InOrder(Append(a, x))
<1>1. Append(a, x) \in Seq(Nat) /\ Len(Append(a, x)) = Len(a) + 1
      /\ Append(a, x)[Len(a) + 1] = x
      /\ \A k \in 1 .. Len(a) : Append(a, x)[k] = a[k]
      /\ DOMAIN Append(a, x) = 1 .. Len(a) + 1 /\ DOMAIN a = 1 .. Len(a) /\ Len(a) \in Nat
  OBVIOUS
<1>2. Range(Append(a, x)) = Range(a) \cup {x}
  <2>1. ASSUME NEW l \in Range(Append(a, x)) PROVE l \in Range(a) \cup {x}
    BY <1>1, <2>1 DEF Range
  <2>2. ASSUME NEW l \in Range(a) PROVE l \in Range(Append(a, x))
    BY <1>1, <2>2 DEF Range
  <2>3. x \in Range(Append(a, x))
    BY <1>1 DEF Range
  <2> QED BY <2>1, <2>2, <2>3
<1>3. ASSUME InOrder(a), \A l \in Range(a) : l < x PROVE InOrder(Append(a, x))
  <2>1. \A k \in 1 .. Len(a) : a[k] < x
    BY <1>1, <1>3 DEF Range
  <2> DEFINE b == Append(a, x)
  <2>2. Len(b) = Len(a) + 1 /\ b[Len(a) + 1] = x /\ \A k \in 1 .. Len(a) : b[k] = a[k]
    BY <1>1
  <2> HIDE DEF b
  <2>3. ASSUME NEW m \in 1 .. Len(b), NEW n \in 1 .. Len(b), m < n PROVE b[m] < b[n]
    <3>1. m \in 1 .. Len(a) /\ (n \in 1 .. Len(a) \/ n = Len(a) + 1)
      BY <1>1, <2>2, <2>3
    <3>2. CASE n \in 1 .. Len(a)
      BY <1>3, <2>2, <2>3, <3>1, <3>2 DEF InOrder
    <3>3. CASE n = Len(a) + 1
      BY <2>1, <2>2, <3>1, <3>3
    <3> QED BY <3>1, <3>2, <3>3
  <2>4. InOrder(b)
    BY <2>3 DEF InOrder
  <2> QED BY <2>4 DEF b
<1> QED BY <1>1, <1>2, <1>3

LEMMA TailLines ==
  ASSUME NEW a \in Seq(Nat), a # <<>>
  PROVE  /\ Tail(a) \in Seq(Nat) /\ Head(a) \in Nat /\ Head(a) \in Range(a)
         /\ Range(a) = {Head(a)} \cup Range(Tail(a))
         /\ InOrder(a) => InOrder(Tail(a)) /\ \A l \in Range(Tail(a)) : Head(a) < l
<1>1. /\ Len(a) \in Nat /\ Len(a) >= 1 /\ Tail(a) \in Seq(Nat) /\ Len(Tail(a)) = Len(a) - 1
      /\ \A k \in 1 .. Len(a) - 1 : Tail(a)[k] = a[k + 1]
      /\ Head(a) = a[1] /\ DOMAIN a = 1 .. Len(a) /\ DOMAIN Tail(a) = 1 .. Len(a) - 1
      /\ \A k \in 1 .. Len(a) : a[k] \in Nat
  OBVIOUS
<1>2. Head(a) \in Range(a)
  BY <1>1 DEF Range
<1>3. ASSUME NEW l \in Range(Tail(a)) PROVE l \in Range(a)
  BY <1>1, <1>3 DEF Range
<1>4. ASSUME NEW l \in Range(a), l # Head(a) PROVE l \in Range(Tail(a))
  <2>1. PICK k \in 1 .. Len(a) : a[k] = l
    BY <1>1, <1>4 DEF Range
  <2>2. k - 1 \in 1 .. Len(a) - 1 /\ Tail(a)[k - 1] = l
    BY <1>1, <1>4, <2>1
  <2> QED BY <1>1, <2>2 DEF Range
<1>5. ASSUME InOrder(a) PROVE InOrder(Tail(a)) /\ \A l \in Range(Tail(a)) : Head(a) < l
  <2>1. InOrder(Tail(a))
    BY <1>1, <1>5 DEF InOrder
  <2>2. ASSUME NEW k \in 1 .. Len(a) - 1 PROVE Head(a) < Tail(a)[k]
    BY <1>1, <1>5, <2>2 DEF InOrder
  <2> QED BY <1>1, <2>1, <2>2 DEF Range
<1> QED BY <1>1, <1>2, <1>3, <1>4, <1>5

LEMMA EmptyLines == Range(<<>>) = {} /\ InOrder(<<>>) /\ <<>> \in Seq(Nat)
BY DEF Range, InOrder
-----------------------------------------------------------------------------
LEMMA InitInv == Init => IInv
<1> SUFFICES ASSUME Init PROVE IInv
  OBVIOUS
<1> USE DEF Init
<1>1. TypeOK
  BY SizesAssumption, EmptyLines, TasksDiffer, NobodyIsNone DEF TypeOK, HookPcs, HandlerPcs
<1>2. MutexInv /\ SubscribedInv /\ SlotsOwned /\ IdleEmpty /\ FromStart
  BY NobodyIsNone DEF MutexInv, SubscribedInv, SlotsOwned, IdleEmpty, FromStart, Subscribed, Slots
<1>3. \A s \in Slots : Queued(s) = {} /\ Writing(s) = {}
  BY EmptyLines DEF Queued, Writing
<1>4. Fresh /\ OwnLinesInOrder /\ CopiesAccounted
  BY <1>3 DEF Fresh, OwnLinesInOrder, CopiesAccounted
<1> QED BY <1>1, <1>2, <1>4 DEF IInv
-----------------------------------------------------------------------------
(* One task at a time has the mutex. *)
LEMMA OneHolder ==
  ASSUME IInv
  PROVE  /\ subs_mutex = Nobody => \A s \in Slots : ~Pending(s)
         /\ \A v \in Viewers : subs_mutex = v => \A s \in Slots : ~Pending(s)
         /\ \A t \in Loggers : subs_mutex = t =>
              \A r \in Loggers : r # t => pc[r] \notin {"look", "send"}
BY NobodyIsNone, TasksDiffer DEF IInv, MutexInv, Pending

(* Steps that leave the queues alone. *)
Parked == UNCHANGED <<mirror, http>> /\ \A v \in Viewers : pc'[v] = "write" <=> pc[v] = "write"

LEMMA ParkedData ==
  ASSUME IInv, Parked
  PROVE  SlotsOwned' /\ IdleEmpty' /\ OwnLinesInOrder' /\ CopiesAccounted'
<1>1. SlotsOwned' /\ IdleEmpty'
  BY DEF IInv, Parked, mirror, http, SlotsOwned, IdleEmpty
<1>2. \A s \in Slots : Queued(s)' = Queued(s)
  BY DEF Parked, mirror, Queued
<1>3. \A s \in Slots : Writing(s)' = Writing(s)
  BY DEF Parked, http, Writing
<1>4. \A v \in Viewers, s \in Slots : Ordered(v, s) => Ordered(v, s)'
  BY <1>2 DEF Parked, mirror, http, Ordered, InOrder
<1>5. OwnLinesInOrder'
  BY <1>4 DEF IInv, TypeOK, OwnLinesInOrder, Parked, http
<1>6. CopiesAccounted'
  BY <1>2, <1>3 DEF IInv, CopiesAccounted, Parked, mirror
<1> QED BY <1>1, <1>5, <1>6

(* Then what is pending decides whether Fresh goes on to hold. *)
LEMMA ParkedFresh ==
  ASSUME IInv, Parked, logged' = logged, \A s \in Slots : Pending(s)' => Pending(s)
  PROVE  Fresh'
<1>1. \A s \in Slots : Queued(s)' = Queued(s)
  BY DEF Parked, mirror, Queued
<1>2. \A s \in Slots : \A l : Older(s, l) => (l <= logged /\ (Pending(s)' => l < logged))
  BY DEF Older
<1>3. \A s \in Slots : \A l \in Queued(s) : Older(s, l)'
  BY <1>2 DEF IInv, Fresh, Older
<1>4. ASSUME NEW v \in Viewers, slot[v] # 0
      PROVE  Older(slot[v], sent[v])' /\ (pc'[v] = "write" => Older(slot[v], held[v])')
  <2>1. slot[v] \in Slots /\ slot'[v] = slot[v] /\ sent'[v] = sent[v] /\ held'[v] = held[v]
    BY <1>4 DEF IInv, TypeOK, Parked, http
  <2> QED BY <1>2, <1>4, <2>1 DEF IInv, Fresh, Older, Parked
<1> QED BY <1>1, <1>3, <1>4 DEF Fresh, Parked, http
-----------------------------------------------------------------------------
(* The hook. *)

LEMMA VprintfInv == ASSUME IInv, NEW t \in Loggers, Vprintf(t) PROVE IInv'
<1> USE DEF Vprintf, At
<1>1. TypeOK' /\ MutexInv' /\ SubscribedInv' /\ FromStart'
  BY TasksDiffer DEF IInv, TypeOK, MutexInv, SubscribedInv, FromStart, mirror, http, log,
                     HookPcs, HandlerPcs, Subscribed
<1>2. Parked /\ logged' = logged /\ \A s \in Slots : Pending(s)' => Pending(s)
  BY TasksDiffer DEF Parked, IInv, TypeOK, Pending, log
<1> QED BY <1>1, <1>2, ParkedData, ParkedFresh DEF IInv

LEMMA TakeFailsInv == ASSUME IInv, NEW t \in Loggers, TakeFails(t) PROVE IInv'
<1> USE DEF TakeFails, At
<1>1. TypeOK' /\ MutexInv' /\ SubscribedInv' /\ FromStart'
  BY TasksDiffer DEF IInv, TypeOK, MutexInv, SubscribedInv, FromStart, mirror, http, log,
                     HookPcs, HandlerPcs, Subscribed
<1>2. Parked /\ logged' = logged /\ \A s \in Slots : Pending(s)' => Pending(s)
  BY TasksDiffer DEF Parked, IInv, TypeOK, Pending, log
<1> QED BY <1>1, <1>2, ParkedData, ParkedFresh DEF IInv

LEMMA NothingInv == ASSUME IInv, NEW t \in Loggers, Nothing(t) PROVE IInv'
<1> USE DEF Nothing, At, GiveMutex
<1>1. TypeOK' /\ MutexInv' /\ SubscribedInv' /\ FromStart'
  BY TasksDiffer, NobodyIsNone
     DEF IInv, TypeOK, MutexInv, SubscribedInv, FromStart, mirror, http, log,
         HookPcs, HandlerPcs, Subscribed
<1>2. Parked /\ logged' = logged /\ \A s \in Slots : Pending(s)' => Pending(s)
  BY TasksDiffer DEF Parked, IInv, TypeOK, Pending, log
<1> QED BY <1>1, <1>2, ParkedData, ParkedFresh DEF IInv

LEMMA FormatInv == ASSUME IInv, NEW t \in Loggers, Format(t) PROVE IInv'
<1> USE DEF Format, At
<1>1. TypeOK' /\ MutexInv' /\ SubscribedInv' /\ FromStart'
  BY TasksDiffer DEF IInv, TypeOK, MutexInv, SubscribedInv, FromStart, mirror, http, log,
                     HookPcs, HandlerPcs, Subscribed
<1>2. Parked /\ logged' = logged /\ \A s \in Slots : Pending(s)
  BY TasksDiffer DEF Parked, IInv, TypeOK, Pending, log
<1> QED BY <1>1, <1>2, ParkedData, ParkedFresh DEF IInv

LEMMA GiveInv == ASSUME IInv, NEW t \in Loggers, Give(t) PROVE IInv'
<1> USE DEF Give, At, GiveMutex
<1>1. TypeOK' /\ MutexInv' /\ SubscribedInv' /\ FromStart'
  BY TasksDiffer, NobodyIsNone, SizesAssumption
     DEF IInv, TypeOK, MutexInv, SubscribedInv, FromStart, mirror, http,
         HookPcs, HandlerPcs, Subscribed
<1>2. Parked /\ logged' = logged /\ \A s \in Slots : ~Pending(s)'
  BY TasksDiffer DEF Parked, IInv, TypeOK, MutexInv, Pending
<1> QED BY <1>1, <1>2, ParkedData, ParkedFresh DEF IInv

LEMMA TakeInv == ASSUME IInv, NEW t \in Loggers, Take(t) PROVE IInv'
<1> USE DEF Take, At, TakeMutex
<1>1. TypeOK' /\ MutexInv' /\ SubscribedInv'
  BY TasksDiffer, NobodyIsNone
     DEF IInv, TypeOK, MutexInv, SubscribedInv, mirror, http, HookPcs, HandlerPcs, Subscribed
<1>2. FromStart'
  BY DEF IInv, TypeOK, FromStart
<1>3. Parked
  BY TasksDiffer DEF Parked, IInv, TypeOK
<1>4. \A s \in Slots : \A l \in Nat : Older(s, l) => Older(s, l)'
  BY DEF IInv, TypeOK, Older
<1>5. Fresh'
  <2>1. \A s \in Slots : Queued(s)' = Queued(s) /\ Queued(s) \subseteq Nat
    BY DEF mirror, Queued, IInv, TypeOK, Range
  <2> QED BY <1>3, <1>4, <2>1 DEF IInv, TypeOK, Fresh, Parked, http
<1> QED BY <1>1, <1>2, <1>3, <1>5, ParkedData DEF IInv

LEMMA OfferInv == ASSUME IInv, NEW t \in Loggers, Offer(t) PROVE IInv'
<1> USE DEF Offer
<1>x. PICK x \in Slots : x = i
  BY DEF IInv, TypeOK, Slots
<1>t. /\ i' = x + 1 /\ i' \in 1 .. MAX_SUBS + 1 /\ pc[t] = "send" /\ subs_mutex = t /\ Pending(x)
      /\ UNCHANGED <<subs_mutex, active, created, pc, logged, http>> /\ logged \in Nat
  BY <1>x, SizesAssumption DEF IInv, TypeOK, MutexInv, Pending, Slots
<1>p. \A s \in Slots : (Pending(s)' => Pending(s)) /\ (s = x => ~Pending(s)')
  BY <1>x, <1>t, OneHolder DEF Pending, IInv, TypeOK, Slots
<1>o. \A s \in Slots : \A l \in Nat : Older(s, l) => Older(s, l)'
  BY <1>t, <1>p DEF Older
<1>m. /\ MutexInv' /\ SubscribedInv' /\ SlotsOwned'
      /\ \A s \in Slots : Writing(s)' = Writing(s)
  BY <1>t DEF IInv, MutexInv, SubscribedInv, SlotsOwned, http, Writing
<1>f. FromStart'
  BY <1>t DEF FromStart
<1>n. \A s \in Slots : Queued(s) \subseteq Nat
  BY DEF IInv, TypeOK, Queued, Range
<1> HIDE DEF Offer
<1>1. CASE UNCHANGED <<q, live>>
  <2>1. TypeOK'
    BY <1>t, <1>1 DEF IInv, TypeOK, http, Slots
  <2>2. IdleEmpty' /\ \A s \in Slots : Queued(s)' = Queued(s)
    BY <1>t, <1>1 DEF IInv, IdleEmpty, Queued
  <2>3. OwnLinesInOrder'
    BY <1>t, <1>1, <2>2 DEF IInv, TypeOK, OwnLinesInOrder, Ordered, http
  <2>4. CopiesAccounted'
    BY <1>m, <1>1, <2>2 DEF IInv, CopiesAccounted
  <2>5. Fresh'
    BY <1>t, <1>o, <1>n, <2>2 DEF IInv, TypeOK, Fresh, http
  <2> QED BY <1>m, <1>f, <2>1, <2>2, <2>3, <2>4, <2>5 DEF IInv
<1>2. CASE /\ active[x] /\ q' = [q EXCEPT ![x] = Append(@, logged)]
           /\ live' = [live EXCEPT ![x] = @ \cup {logged}]
  <2>q. q[x] \in Seq(Nat) /\ q'[x] = Append(q[x], logged)
        /\ \A s \in Slots : s # x => q'[s] = q[s] /\ live'[s] = live[s]
    BY <1>t, <1>2 DEF IInv, TypeOK
  <2>l. \A l \in Queued(x) : l < logged
    BY <1>t DEF IInv, Fresh, Older
  <2>a. /\ q'[x] \in Seq(Nat) /\ Queued(x)' = Queued(x) \cup {logged}
        /\ InOrder(q[x]) => InOrder(q'[x])
    BY <1>t, <2>q, <2>l, AppendLines DEF Queued
  <2>s. \A s \in Slots : s # x => Queued(s)' = Queued(s)
    BY <2>q DEF Queued
  <2>1. TypeOK'
    BY <1>t, <1>2, <2>a DEF IInv, TypeOK, http, Slots
  <2>2. IdleEmpty'
    BY <1>t, <1>2, <2>q DEF IInv, IdleEmpty
  <2>w. ASSUME NEW v \in Viewers, slot[v] = x
        PROVE  sent[v] < logged /\ (pc[v] = "write" => held[v] < logged)
    BY <1>t, <2>w DEF IInv, Fresh, Older, Slots
  <2>3. OwnLinesInOrder'
    <3> SUFFICES ASSUME NEW v \in Viewers, slot[v] # 0 PROVE Ordered(v, slot[v])'
      BY <1>t DEF OwnLinesInOrder, http
    <3>1. Ordered(v, slot[v]) /\ slot[v] \in Slots /\ sent'[v] = sent[v] /\ held'[v] = held[v]
          /\ slot'[v] = slot[v]
      BY <1>t DEF IInv, TypeOK, OwnLinesInOrder, http
    <3>2. CASE slot[v] = x
      BY <1>t, <2>a, <2>w, <3>1, <3>2 DEF Ordered
    <3>3. CASE slot[v] # x
      BY <1>t, <2>q, <2>s, <3>1, <3>3 DEF Ordered
    <3> QED BY <3>2, <3>3
  <2>4. CopiesAccounted'
    <3>1. logged \notin Writing(x)
      BY <1>t, <2>w DEF Writing, IInv, TypeOK
    <3>2. live'[x] = live[x] \cup {logged}
      BY <1>t, <1>2 DEF IInv, TypeOK
    <3> QED BY <1>m, <2>q, <2>a, <2>s, <3>1, <3>2 DEF IInv, CopiesAccounted
  <2>5. Fresh'
    <3>1. \A l \in {logged} : Older(x, l)'
      BY <1>t, <1>p DEF Older
    <3>0. \A s \in Slots : \A l \in Queued(s) : Older(s, l)'
      BY <1>o, <1>n DEF IInv, Fresh
    <3>2. \A l \in Queued(x)' : Older(x, l)'
      BY <2>a, <3>0, <3>1, Zenon
    <3>3. \A s \in Slots : s # x => \A l \in Queued(s)' : Older(s, l)'
      BY <2>s, <3>0, Zenon
    <3>4. \A s \in Slots : \A l \in Queued(s)' : Older(s, l)'
      BY <3>2, <3>3, Zenon
    <3> QED BY <1>t, <1>o, <3>4 DEF IInv, TypeOK, Fresh, http
  <2> QED BY <1>m, <1>f, <2>1, <2>2, <2>3, <2>4, <2>5 DEF IInv
<1> QED BY <1>x, <1>1, <1>2 DEF Offer, QueueOrFree
-----------------------------------------------------------------------------
(* The handler.  Its steps on the mutex and its waits park the data.       *)

HandlerParks(v) ==
  \/ Request(v) \/ SubTake(v) \/ NoSlot(v) \/ Hello(v)
  \/ KeepAliveFails(v) \/ Drained(v) \/ UnsubTake(v)

LEMMA HandlerParksInv == ASSUME IInv, NEW v \in Viewers, HandlerParks(v) PROVE IInv'
<1> USE TasksDiffer, NobodyIsNone
    DEF HandlerParks, Request, SubTake, NoSlot, Hello, KeepAliveFails, Drained, UnsubTake, At,
        TakeMutex, GiveMutex
<1>1. TypeOK'
  <2>0. PICK p \in HandlerPcs : pc' = [pc EXCEPT ![v] = p]
    BY DEF HandlerPcs
  <2>1. pc' \in [Loggers \cup Viewers -> HookPcs \cup HandlerPcs] /\ pc'[v] \in HandlerPcs
    BY <2>0 DEF IInv, TypeOK
  <2>2. \A t \in Loggers \cup Viewers : t # v => pc'[t] = pc[t]
    BY <2>0 DEF IInv, TypeOK
  <2>3. /\ \A t \in Loggers : pc'[t] \in HookPcs
        /\ \A w \in Viewers : pc'[w] \in HandlerPcs
    BY <2>1, <2>2 DEF IInv, TypeOK
  <2>4. UNCHANGED <<mirror, log, http>> /\ subs_mutex' \in Loggers \cup Viewers \cup {Nobody}
    BY DEF IInv, TypeOK
  <2> HIDE DEF HandlerParks
  <2> QED BY <2>1, <2>3, <2>4 DEF IInv, TypeOK, mirror, http, log
<1>2. MutexInv'
  BY DEF IInv, TypeOK, MutexInv
<1>3. SubscribedInv' /\ FromStart'
  BY DEF IInv, TypeOK, SubscribedInv, FromStart, http, log, Subscribed
<1>4. Parked /\ logged' = logged /\ \A s \in Slots : Pending(s)' => Pending(s)
  BY DEF Parked, IInv, TypeOK, Pending, log
<1> QED BY <1>1, <1>2, <1>3, <1>4, ParkedData, ParkedFresh DEF IInv

(* A handler's step keeps the hook's, and what is pending. *)
LEMMA HookKept ==
  ASSUME IInv, NEW v \in Viewers, UNCHANGED log, \A t \in Loggers : pc'[t] = pc[t]
  PROVE  FromStart' /\ \A s \in Slots : \A l : Older(s, l) => Older(s, l)'
BY DEF IInv, FromStart, Pending, Older, log

LEMMA SubscribeInv == ASSUME IInv, NEW v \in Viewers, Subscribe(v) PROVE IInv'
<1> USE TasksDiffer, NobodyIsNone
<1>s. PICK s \in Slots :
        /\ IsFree(s) /\ pc[v] = "choose" /\ pc' = [pc EXCEPT ![v] = "hello"] /\ subs_mutex' = Nobody
        /\ active' = [active EXCEPT ![s] = TRUE] /\ created' = [created EXCEPT ![s] = TRUE]
        /\ slot' = [slot EXCEPT ![v] = s] /\ sent' = [sent EXCEPT ![v] = logged]
        /\ UNCHANGED <<q, live, log, held, gone>>
  BY DEF Subscribe, At, GiveMutex
<1>z. s # 0 /\ ~active[s] /\ slot[v] = 0
  BY <1>s DEF Slots, IsFree, IInv, SubscribedInv, Subscribed
<1>1. TypeOK' /\ MutexInv'
  BY <1>s DEF IInv, TypeOK, MutexInv, HookPcs, HandlerPcs, log
<1>2. SubscribedInv'
  BY <1>s, <1>z DEF IInv, TypeOK, SubscribedInv, Subscribed
<1>3. SlotsOwned' /\ IdleEmpty'
  <2>1. slot'[v] = s /\ \A w \in Viewers : w # v => slot'[w] = slot[w]
    BY <1>s DEF IInv, TypeOK
  <2>2. \A w \in Viewers : slot[w] # s
    BY <1>z DEF IInv, SlotsOwned
  <2>3. ASSUME NEW r \in Slots PROVE active'[r] <=> \E w \in Viewers : slot'[w] = r
    <3>1. CASE r = s
      BY <1>s, <2>1, <3>1 DEF IInv, TypeOK
    <3>2. CASE r # s
      <4>1. active'[r] = active[r]
        BY <1>s, <3>2 DEF IInv, TypeOK
      <4>2. \A w \in Viewers : slot'[w] = r <=> slot[w] = r
        BY <1>z, <2>1, <3>2 DEF Slots
      <4> QED BY <4>1, <4>2 DEF IInv, SlotsOwned
    <3> QED BY <3>1, <3>2
  <2>4. \A w, u \in Viewers : slot'[w] = slot'[u] /\ slot'[w] # 0 => w = u
    BY <2>1, <2>2 DEF IInv, SlotsOwned
  <2>5. (\A r \in Slots : active'[r] => created'[r]) /\ IdleEmpty'
    BY <1>s DEF IInv, TypeOK, SlotsOwned, IdleEmpty
  <2> QED BY <2>3, <2>4, <2>5 DEF SlotsOwned
<1>k. FromStart' /\ \A r \in Slots : \A l : Older(r, l) => Older(r, l)'
  BY <1>s, HookKept DEF IInv, TypeOK
<1>q. q[s] = <<>> /\ Queued(s) = {} /\ \A r \in Slots : Queued(r)' = Queued(r)
  BY <1>s, <1>z, EmptyLines DEF IInv, IdleEmpty, Queued
<1>o. Older(s, logged)
  BY <1>s, OneHolder DEF IInv, MutexInv, Older, TypeOK
<1>4. Fresh'
  <2>1. ASSUME NEW w \in Viewers, slot'[w] # 0
        PROVE  Older(slot[w], sent[w])' /\ (pc'[w] = "write" => Older(slot[w], held[w])')
    <3>1. CASE w = v
      BY <1>s, <1>k, <1>o, <3>1 DEF IInv, TypeOK
    <3>2. CASE w # v
      BY <1>s, <1>k, <2>1, <3>2 DEF IInv, TypeOK, Fresh
    <3> QED BY <3>1, <3>2
  <2> QED BY <1>k, <1>q, <2>1 DEF IInv, Fresh
<1>5. OwnLinesInOrder'
  <2> SUFFICES ASSUME NEW w \in Viewers, slot'[w] # 0 PROVE Ordered(w, slot[w])'
    BY DEF OwnLinesInOrder
  <2>1. CASE w = v
    BY <1>s, <1>q, <2>1, EmptyLines DEF IInv, TypeOK, Ordered
  <2>2. CASE w # v
    BY <1>s, <1>q, <2>2 DEF IInv, TypeOK, OwnLinesInOrder, Ordered
  <2> QED BY <2>1, <2>2
<1>6. CopiesAccounted'
  <2>1. pc[v] # "write" /\ pc'[v] # "write"
    BY <1>s DEF IInv, TypeOK
  <2>2. \A w \in Viewers : w # v => slot'[w] = slot[w] /\ pc'[w] = pc[w]
    BY <1>s DEF IInv, TypeOK
  <2>3. held' = held
    BY <1>s
  <2>4. \A r \in Slots : Writing(r)' = Writing(r)
    BY <2>1, <2>2, <2>3 DEF Writing
  <2> QED BY <1>s, <1>q, <2>4 DEF IInv, CopiesAccounted
<1> QED BY <1>1, <1>2, <1>3, <1>k, <1>4, <1>5, <1>6 DEF IInv

(* A handler's step on its own queue s disturbs no other. *)
Owns(v, s) == slot[v] = s /\ pc[v] \in Subscribed
OwnStep(v, s) ==
  /\ UNCHANGED log /\ pc' \in [Loggers \cup Viewers -> HookPcs \cup HandlerPcs]
  /\ \A t \in Loggers \cup Viewers : t # v => pc'[t] = pc[t]
  /\ \A w \in Viewers : w # v =>
       slot'[w] = slot[w] /\ held'[w] = held[w] /\ sent'[w] = sent[w]
  /\ \A r \in Slots : r # s => q'[r] = q[r] /\ live'[r] = live[r]

LEMMA OthersKept ==
  ASSUME IInv, NEW v \in Viewers, NEW s \in Slots, Owns(v, s), OwnStep(v, s), slot'[v] \in {s, 0}
  PROVE  /\ FromStart' /\ \A r \in Slots : \A l : Older(r, l) => Older(r, l)'
         /\ \A r \in Slots : r # s => Queued(r)' = Queued(r) /\ Writing(r)' = Writing(r)
         /\ \A w \in Viewers : w # v => slot[w] # s
         /\ \A w \in Viewers : w # v /\ slot'[w] # 0 => Ordered(w, slot[w])'
         /\ Writing(s) = IF pc[v] = "write" THEN {held[v]} ELSE {}
         /\ Writing(s)' = IF slot'[v] = s /\ pc'[v] = "write" THEN {held'[v]} ELSE {}
<1> USE TasksDiffer DEF Owns, OwnStep
<1>z. s # 0
  BY DEF Slots
<1>1. FromStart' /\ \A r \in Slots : \A l : Older(r, l) => Older(r, l)'
  BY HookKept
<1>2. \A w \in Viewers : w # v => slot[w] # s
  BY <1>z DEF IInv, SlotsOwned
<1>3. \A r \in Slots : r # s => Queued(r)' = Queued(r)
  BY DEF Queued
<1>4. \A r \in Slots : r # s => Writing(r)' = Writing(r)
  BY <1>z DEF Writing, Slots
<1>5. \A w \in Viewers : w # v /\ slot'[w] # 0 => Ordered(w, slot[w])'
  <2> SUFFICES ASSUME NEW w \in Viewers, w # v, slot[w] # 0 PROVE Ordered(w, slot[w])'
    OBVIOUS
  <2>1. slot[w] \in Slots /\ slot[w] # s /\ Ordered(w, slot[w]) /\ pc'[w] = pc[w]
    BY <1>2 DEF IInv, TypeOK, OwnLinesInOrder
  <2> QED BY <1>3, <2>1 DEF Ordered
<1>6. Writing(s) = IF pc[v] = "write" THEN {held[v]} ELSE {}
  BY <1>2 DEF Writing
<1>7. Writing(s)' = IF slot'[v] = s /\ pc'[v] = "write" THEN {held'[v]} ELSE {}
  BY <1>2 DEF Writing
<1> QED BY <1>1, <1>2, <1>3, <1>4, <1>5, <1>6, <1>7

(* So only the handler's own queue is left to look at. *)
LEMMA OwnStepInv ==
  ASSUME IInv, NEW v \in Viewers, NEW s \in Slots, Owns(v, s), OwnStep(v, s), slot'[v] \in {s, 0},
         TypeOK', MutexInv', SubscribedInv', SlotsOwned', IdleEmpty',
         \A l \in Queued(s)' : l \in Queued(s),
         slot'[v] = s => /\ Ordered(v, s)' /\ Older(s, sent'[v])
                         /\ pc'[v] = "write" => Older(s, held'[v]),
         live'[s] = Queued(s)' \cup Writing(s)', Queued(s)' \cap Writing(s)' = {}
  PROVE  IInv'
<1>1. CopiesAccounted'
  BY OthersKept DEF IInv, CopiesAccounted, OwnStep
<1>2. OwnLinesInOrder'
  <2>1. ASSUME NEW w \in Viewers, slot'[w] # 0 PROVE Ordered(w, slot[w])'
    <3>1. CASE w = v
      <4>1. slot'[v] = s
        BY <2>1, <3>1
      <4> QED BY <3>1, <4>1 DEF Ordered
    <3>2. CASE w # v
      BY <2>1, <3>2, OthersKept
    <3> QED BY <3>1, <3>2
  <2> QED BY <2>1 DEF OwnLinesInOrder
<1>3. Fresh'
  <2>1. \A r \in Slots : \A l : Older(r, l) => Older(r, l)'
    BY OthersKept
  <2>2. \A r \in Slots : \A l \in Queued(r)' : Older(r, l)
    BY OthersKept DEF IInv, Fresh
  <2>3. ASSUME NEW w \in Viewers, slot'[w] # 0
        PROVE  Older(slot'[w], sent'[w]) /\ (pc'[w] = "write" => Older(slot'[w], held'[w]))
    <3>1. CASE w = v
      BY <2>3, <3>1
    <3>2. CASE w # v
      BY <2>3, <3>2 DEF IInv, Fresh, OwnStep
    <3> QED BY <3>1, <3>2
  <2>4. \A w \in Viewers : slot'[w] # 0 => slot'[w] \in Slots
    BY DEF TypeOK
  <2> QED BY <2>1, <2>2, <2>3, <2>4 DEF Fresh, Older
<1> QED BY <1>1, <1>2, <1>3, OthersKept DEF IInv

LEMMA OwnSlot ==
  ASSUME IInv, NEW v \in Viewers, pc[v] \in Subscribed
  PROVE  /\ slot[v] \in Slots /\ Owns(v, slot[v]) /\ Ordered(v, slot[v]) /\ q[slot[v]] \in Seq(Nat)
         /\ active[slot[v]] /\ Older(slot[v], sent[v])
         /\ live[slot[v]] = Queued(slot[v]) \cup Writing(slot[v])
         /\ Queued(slot[v]) \cap Writing(slot[v]) = {}
BY DEF IInv, TypeOK, SubscribedInv, OwnLinesInOrder, SlotsOwned, Fresh, CopiesAccounted, Owns

LEMMA ReceiveInv == ASSUME IInv, NEW v \in Viewers, Receive(v) PROVE IInv'
<1> USE TasksDiffer, NobodyIsNone DEF Receive, At, Subscribed
<1>s. PICK s \in Slots : s = slot[v]
  BY OwnSlot
<1>0. /\ Owns(v, s) /\ Ordered(v, s) /\ q[s] \in Seq(Nat) /\ q[s] # <<>> /\ active[s]
      /\ live[s] = Queued(s) \cup Writing(s) /\ pc[v] = "stream" /\ Older(s, sent[v])
  BY <1>s, OwnSlot
<1>1. OwnStep(v, s) /\ slot'[v] = s /\ pc'[v] = "write" /\ held'[v] = Head(q[s]) /\ sent'[v] = sent[v]
  BY <1>s DEF IInv, TypeOK, OwnStep, HandlerPcs
<1>2. q'[s] = Tail(q[s]) /\ live' = live
  BY <1>s DEF IInv, TypeOK
<1>t. /\ Tail(q[s]) \in Seq(Nat) /\ Head(q[s]) \in Nat /\ Head(q[s]) \in Queued(s)
      /\ Queued(s) = {Head(q[s])} \cup Range(Tail(q[s]))
      /\ InOrder(Tail(q[s])) /\ \A l \in Range(Tail(q[s])) : Head(q[s]) < l
  BY <1>0, TailLines DEF Ordered, Queued
<1>q. Queued(s)' = Range(Tail(q[s]))
  BY <1>2 DEF Queued
<1>3. TypeOK'
  BY <1>s, <1>t DEF IInv, TypeOK, log, HookPcs, HandlerPcs
<1>4. MutexInv' /\ SubscribedInv' /\ SlotsOwned' /\ IdleEmpty'
  BY <1>0, <1>s DEF IInv, TypeOK, MutexInv, SubscribedInv, SlotsOwned, IdleEmpty
<1>5. Ordered(v, s)'
  BY <1>0, <1>1, <1>2, <1>t, <1>q DEF Ordered
<1>6. Older(s, Head(q[s]))
  BY <1>t DEF IInv, Fresh
<1>7. Writing(s) = {} /\ Writing(s)' = {Head(q[s])}
  BY <1>0, <1>1, OthersKept
<1>8. ~(Head(q[s]) < Head(q[s]))
  BY <1>t
<1> HIDE DEF Receive
<1>9. live'[s] = Queued(s)' \cup Writing(s)' /\ Queued(s)' \cap Writing(s)' = {}
  BY <1>0, <1>2, <1>t, <1>q, <1>7, <1>8
<1>a. \A l \in Queued(s)' : l \in Queued(s)
  BY <1>t, <1>q
<1> QED BY <1>0, <1>1, <1>3, <1>4, <1>5, <1>6, <1>9, <1>a, OwnStepInv

LEMMA WriteInv == ASSUME IInv, NEW v \in Viewers, Write(v) PROVE IInv'
<1> USE TasksDiffer, NobodyIsNone DEF Write, At, Subscribed
<1>s. PICK s \in Slots : s = slot[v]
  BY OwnSlot
<1>0. /\ Owns(v, s) /\ Ordered(v, s) /\ active[s] /\ pc[v] = "write"
      /\ live[s] = Queued(s) \cup Writing(s) /\ Queued(s) \cap Writing(s) = {}
      /\ Older(s, held[v])
  BY <1>s, OwnSlot DEF IInv, TypeOK, Fresh, SubscribedInv
<1>p. pc' \in [Loggers \cup Viewers -> HookPcs \cup HandlerPcs] /\ pc'[v] \in {"stream", "drain"}
      /\ \A t \in Loggers \cup Viewers : t # v => pc'[t] = pc[t]
  BY DEF IInv, TypeOK, HandlerPcs
<1>1. OwnStep(v, s) /\ slot'[v] = s /\ sent'[v] = held[v]
  BY <1>s, <1>p DEF IInv, TypeOK, OwnStep
<1>2. q' = q /\ live'[s] = live[s] \ {held[v]}
  BY <1>s DEF IInv, TypeOK
<1>q. Queued(s)' = Queued(s)
  BY <1>2 DEF Queued
<1>3. TypeOK'
  BY <1>s, <1>p DEF IInv, TypeOK, log, HookPcs, HandlerPcs
<1>u. UNCHANGED <<subs_mutex, active, created, q, slot>>
  OBVIOUS
<1>4. MutexInv' /\ SubscribedInv' /\ SlotsOwned' /\ IdleEmpty'
  <2> HIDE DEF Write
  <2>1. MutexInv'
    BY <1>0, <1>p, <1>u DEF IInv, TypeOK, MutexInv
  <2>2. SubscribedInv'
    BY <1>0, <1>p, <1>u DEF IInv, TypeOK, SubscribedInv
  <2> QED BY <1>u, <2>1, <2>2 DEF IInv, SlotsOwned, IdleEmpty
<1>5. Ordered(v, s)'
  BY <1>0, <1>1, <1>2, <1>p, <1>q DEF Ordered
<1>7. Writing(s) = {held[v]} /\ Writing(s)' = {}
  BY <1>0, <1>1, <1>p, OthersKept
<1> HIDE DEF Write
<1>9. live'[s] = Queued(s)' \cup Writing(s)' /\ Queued(s)' \cap Writing(s)' = {}
  BY <1>0, <1>2, <1>q, <1>7
<1> QED BY <1>0, <1>1, <1>p, <1>3, <1>4, <1>5, <1>9, <1>q, OwnStepInv

LEMMA DrainInv == ASSUME IInv, NEW v \in Viewers, Drain(v) PROVE IInv'
<1> USE TasksDiffer, NobodyIsNone DEF Drain, Subscribed
<1>s. PICK s \in Slots : s = slot[v]
  BY OwnSlot
<1>0. /\ Owns(v, s) /\ Ordered(v, s) /\ q[s] \in Seq(Nat) /\ q[s] # <<>> /\ active[s]
      /\ live[s] = Queued(s) \cup Writing(s) /\ pc[v] = "drain"
  BY <1>s, OwnSlot
<1>1. OwnStep(v, s) /\ slot'[v] = s /\ pc' = pc /\ sent'[v] = Head(q[s])
  BY <1>s DEF IInv, TypeOK, OwnStep
<1>2. q'[s] = Tail(q[s]) /\ live'[s] = live[s] \ {Head(q[s])}
  BY <1>s DEF IInv, TypeOK
<1>t. /\ Tail(q[s]) \in Seq(Nat) /\ Head(q[s]) \in Nat /\ Head(q[s]) \in Queued(s)
      /\ Queued(s) = {Head(q[s])} \cup Range(Tail(q[s]))
      /\ InOrder(Tail(q[s])) /\ \A l \in Range(Tail(q[s])) : Head(q[s]) < l
  BY <1>0, TailLines DEF Ordered, Queued
<1>q. Queued(s)' = Range(Tail(q[s]))
  BY <1>2 DEF Queued
<1>3. TypeOK'
  BY <1>s, <1>t DEF IInv, TypeOK, log
<1>4. MutexInv' /\ SubscribedInv' /\ SlotsOwned' /\ IdleEmpty'
  BY <1>0, <1>s DEF IInv, TypeOK, MutexInv, SubscribedInv, SlotsOwned, IdleEmpty
<1>5. Ordered(v, s)'
  BY <1>0, <1>1, <1>2, <1>t, <1>q DEF Ordered
<1>6. Older(s, Head(q[s]))
  BY <1>t DEF IInv, Fresh
<1>7. Writing(s) = {} /\ Writing(s)' = {}
  BY <1>0, <1>1, OthersKept
<1>8. ~(Head(q[s]) < Head(q[s]))
  BY <1>t
<1> HIDE DEF Drain
<1>9. live'[s] = Queued(s)' \cup Writing(s)' /\ Queued(s)' \cap Writing(s)' = {}
  BY <1>0, <1>2, <1>t, <1>q, <1>7, <1>8
<1>a. \A l \in Queued(s)' : l \in Queued(s)
  BY <1>t, <1>q
<1> QED BY <1>0, <1>1, <1>3, <1>4, <1>5, <1>6, <1>9, <1>a, OwnStepInv

LEMMA UnsubscribeInv == ASSUME IInv, NEW v \in Viewers, Unsubscribe(v) PROVE IInv'
<1> USE TasksDiffer, NobodyIsNone DEF Unsubscribe, At, GiveMutex, Emptied, Subscribed
<1>s. PICK s \in Slots : s = slot[v]
  BY OwnSlot
<1>z. s # 0
  BY SizesAssumption DEF Slots
<1>0. /\ Owns(v, s) /\ active[s] /\ pc[v] = "free"
      /\ live[s] = Queued(s) \cup Writing(s) /\ Queued(s) \cap Writing(s) = {}
  BY <1>s, OwnSlot
<1>1. OwnStep(v, s) /\ slot'[v] = 0 /\ pc'[v] = "idle"
  BY <1>s DEF IInv, TypeOK, OwnStep, HandlerPcs
<1>2. q'[s] = <<>> /\ live'[s] = live[s] \ Range(q[s]) /\ active' = [active EXCEPT ![s] = FALSE]
      /\ created' = created
  BY <1>s DEF IInv, TypeOK
<1>q. Queued(s)' = {}
  BY <1>2, EmptyLines DEF Queued
<1>3. TypeOK'
  BY <1>s, EmptyLines DEF IInv, TypeOK, log, HookPcs, HandlerPcs
<1>4. MutexInv' /\ SubscribedInv' /\ IdleEmpty'
  BY <1>0, <1>1, <1>2 DEF IInv, TypeOK, MutexInv, SubscribedInv, IdleEmpty, OwnStep
<1>5. SlotsOwned'
  <2> HIDE DEF Unsubscribe
  <2>0. \A w \in Viewers : w # v => slot[w] # s
    BY <1>0, <1>1, OthersKept
  <2>1. \A w \in Viewers : w # v => slot'[w] = slot[w] /\ slot[w] # s
    BY <1>1, <2>0 DEF OwnStep
  <2>2. ASSUME NEW r \in Slots PROVE active'[r] <=> \E w \in Viewers : slot'[w] = r
    <3>1. CASE r = s
      BY <1>1, <1>2, <1>z, <2>1, <3>1 DEF IInv, TypeOK
    <3>2. CASE r # s
      <4>0. r # 0
        BY SizesAssumption DEF Slots
      <4>1. active'[r] = active[r] /\ r # 0
        BY <1>2, <3>2, <4>0 DEF IInv, TypeOK
      <4>2. \A w \in Viewers : slot'[w] = r <=> slot[w] = r
        BY <1>s, <1>1, <2>1, <3>2, <4>1
      <4> QED BY <4>1, <4>2 DEF IInv, SlotsOwned
    <3> QED BY <3>1, <3>2
  <2>3. \A w, u \in Viewers : slot'[w] = slot'[u] /\ slot'[w] # 0 => w = u
    BY <1>1, <2>1 DEF IInv, SlotsOwned
  <2>4. \A r \in Slots : active'[r] => created'[r]
    BY <1>2 DEF IInv, TypeOK, SlotsOwned
  <2> QED BY <2>2, <2>3, <2>4 DEF SlotsOwned
<1>7. Writing(s) = {} /\ Writing(s)' = {}
  BY <1>0, <1>1, OthersKept
<1> HIDE DEF Unsubscribe
<1>9. live'[s] = Queued(s)' \cup Writing(s)' /\ Queued(s)' \cap Writing(s)' = {}
  BY <1>0, <1>2, <1>q, <1>7 DEF Queued
<1>a. (\A l \in Queued(s)' : l \in Queued(s)) /\ slot'[v] # s
  BY <1>1, <1>q, <1>z
<1> QED BY <1>0, <1>1, <1>3, <1>4, <1>5, <1>9, <1>a, OwnStepInv

LEMMA LeaveInv == ASSUME IInv, NEW v \in Viewers, Leave(v) PROVE IInv'
BY DEF Leave, IInv, TypeOK, MutexInv, SubscribedInv, SlotsOwned, IdleEmpty, FromStart, Fresh,
       OwnLinesInOrder, Ordered, CopiesAccounted, Queued, Writing, Older, Pending, mirror, log
-----------------------------------------------------------------------------
LEMMA StepInv == IInv /\ [Next]_vars => IInv'
<1> SUFFICES ASSUME IInv, [Next]_vars PROVE IInv'
  OBVIOUS
<1>1. ASSUME NEW t \in Loggers, Vprintf(t) \/ Hook(t) PROVE IInv'
  BY <1>1, VprintfInv, TakeFailsInv, TakeInv, NothingInv, FormatInv, OfferInv, GiveInv DEF Hook
<1>2. ASSUME NEW v \in Viewers, Request(v) \/ Handler(v) \/ Leave(v) PROVE IInv'
  BY <1>2, HandlerParksInv, SubscribeInv, ReceiveInv, WriteInv, DrainInv, UnsubscribeInv, LeaveInv
     DEF Handler, HandlerParks
<1>3. ASSUME UNCHANGED vars PROVE IInv'
  <2>1. Parked /\ logged' = logged /\ \A s \in Slots : Pending(s)' => Pending(s)
    BY <1>3 DEF vars, mirror, http, log, Parked, Pending
  <2>2. TypeOK' /\ MutexInv' /\ SubscribedInv' /\ FromStart'
    BY <1>3 DEF vars, mirror, http, log, IInv, TypeOK, MutexInv, SubscribedInv, FromStart
  <2> QED BY <2>1, <2>2, ParkedData, ParkedFresh DEF IInv
<1> QED BY <1>1, <1>2, <1>3 DEF Next

LEMMA Invariant == Spec => []IInv
BY InitInv, StepInv, PTL DEF Spec

(* For any tasks, slots and queue sizes: a slot in use has one handler. *)
THEOREM OneOwner == Spec => []SlotsOwned
<1>1. IInv => SlotsOwned
  BY DEF IInv
<1> QED BY <1>1, Invariant, PTL

(* No copy of a line is leaked or queued twice, however the hook, the      *)
(* handlers and a full queue interleave.                                   *)
THEOREM NoCopyLost == Spec => []CopiesAccounted
<1>1. IInv => CopiesAccounted
  BY DEF IInv
<1> QED BY <1>1, Invariant, PTL

(* A browser never gets a line of the previous subscriber of its queue,    *)
(* and gets its own in order.                                              *)
THEOREM InOrderToOwner == Spec => []OwnLinesInOrder
<1>1. IInv => OwnLinesInOrder
  BY DEF IInv
<1> QED BY <1>1, Invariant, PTL

(* Type correctness: the slots, the queues and every task keep their types, for any slots. *)
THEOREM TypeCorrect == Spec => []TypeOK
<1>1. IInv => TypeOK
  BY DEF IInv
<1> QED BY <1>1, Invariant, PTL

-----------------------------------------------------------------------------
(* Sums over the rows.  The induction theorems of the library range over   *)
(* predicates; the least element of a set of naturals serves instead.      *)
LEMMA LeastElement ==
  ASSUME NEW S \in SUBSET Nat, S # {}
  PROVE  \E m \in S : \A k \in S : m <= k
<1> DEFINE R == OpToRel(<, Nat)
<1>1. IsWellFoundedOn(R, Nat)
  BY NatLessThanWellFounded
<1>2. \A x, y \in Nat : <<x, y>> \in R <=> x < y
  BY DEF OpToRel
<1> HIDE DEF R
<1>3. PICK m \in S : \A y \in S : ~(<<y, m>> \in R)
  BY <1>1, WFMin
<1>4. \A k \in S : k \in Nat /\ m \in Nat /\ ~(k < m)
  BY <1>2, <1>3
<1>5. \A k, l \in Nat : ~(k < l) => l <= k
  OBVIOUS
<1> QED BY <1>4, <1>5

StoreInv == StoreTypeOK /\ OneRowEach /\ (poll.pc = "clear" => poll.buf \subseteq delivered)

LEMMA StoreInitInv == StoreInit => StoreInv
BY NAssumption, FreeIsNoSignature DEF StoreInit, StoreInv, StoreTypeOK, OneRowEach, NoPoll, Entries

LEMMA StoreStep == StoreInv /\ [StoreNext]_storeVars => StoreInv'
<1> SUFFICES ASSUME StoreInv, [StoreNext]_storeVars PROVE StoreInv'
  OBVIOUS
<1> USE NAssumption, FreeIsNoSignature
<1>1. ASSUME NEW sig \in Signatures, Record(sig) PROVE StoreInv'
  <2>1. poll' = poll /\ delivered' = delivered /\ records' \in Nat
    BY <1>1 DEF Record, StoreInv, StoreTypeOK
  <2>2. CASE \E r \in Entries : /\ s_entries[r] = sig
                              /\ count' = [count EXCEPT ![r] = @ + 1]
                              /\ UNCHANGED <<s_entries, s_dropped>>
    BY <2>1, <2>2 DEF StoreInv, StoreTypeOK, OneRowEach
  <2>3. CASE \E r \in Entries : /\ sig \notin Rows
                              /\ s_entries[r] = Free
                              /\ s_entries' = [s_entries EXCEPT ![r] = sig]
                              /\ count' = [count EXCEPT ![r] = 1]
                              /\ UNCHANGED s_dropped
    <3>1. PICK r \in Entries : /\ sig \notin Rows
                             /\ s_entries[r] = Free
                             /\ s_entries' = [s_entries EXCEPT ![r] = sig]
                             /\ count' = [count EXCEPT ![r] = 1]
                             /\ UNCHANGED s_dropped
      BY <2>3
    <3>2. \A j \in Entries : s_entries[j] # sig
      BY <3>1 DEF Rows
    <3>3. OneRowEach'
      BY <3>1, <3>2 DEF StoreInv, StoreTypeOK, OneRowEach
    <3>4. StoreTypeOK'
      BY <2>1, <3>1 DEF StoreInv, StoreTypeOK
    <3> QED BY <2>1, <3>3, <3>4 DEF StoreInv
  <2>4. CASE /\ s_dropped' = s_dropped + 1
             /\ UNCHANGED <<s_entries, count>>
    BY <2>1, <2>4 DEF StoreInv, StoreTypeOK, OneRowEach
  <2> QED BY <1>1, <2>2, <2>3, <2>4 DEF Record
<1>2. ASSUME NEW b \in BOOLEAN, Render(b) PROVE StoreInv'
  <2>1. Rows \subseteq Signatures
    BY DEF Rows, StoreInv, StoreTypeOK
  <2> QED BY <1>2, <2>1 DEF Render, store, StoreInv, StoreTypeOK, OneRowEach
<1>3. ASSUME NEW b \in BOOLEAN, Send(b) PROVE StoreInv'
  <2>1. UNCHANGED <<s_entries, count, s_dropped, records>>
    BY <1>3 DEF Send, store
  <2>2. delivered' \subseteq Signatures /\ delivered \subseteq delivered'
        /\ (b => poll.buf \subseteq delivered')
    BY <1>3 DEF Send, StoreInv, StoreTypeOK
  <2>3. poll' \in [pc : {"idle", "send", "clear"}, clear : BOOLEAN, buf : SUBSET Signatures]
        /\ (poll'.pc = "clear" => b /\ poll'.buf = poll.buf)
    BY <1>3 DEF Send, StoreInv, StoreTypeOK, NoPoll
  <2> QED BY <2>1, <2>2, <2>3 DEF StoreInv, StoreTypeOK, OneRowEach
<1>4. ASSUME Clear PROVE StoreInv'
  BY <1>4 DEF Clear, NoPoll, StoreInv, StoreTypeOK, OneRowEach
<1>5. ASSUME UNCHANGED storeVars PROVE StoreInv'
  BY <1>5 DEF storeVars, store, StoreInv, StoreTypeOK, OneRowEach
<1> QED BY <1>1, <1>2, <1>3, <1>4, <1>5 DEF StoreNext

LEMMA StoreInvariant == StoreSpec => []StoreInv
BY StoreInitInv, StoreStep, PTL DEF StoreSpec

(* No signature ever takes two slots, whatever the table's size. *)
THEOREM NoDuplicateRows == StoreSpec => []OneRowEach
<1>1. StoreInv => OneRowEach
  BY DEF StoreInv
<1> QED BY <1>1, StoreInvariant, PTL

(* A rendered row is cleared only once a response that held it has arrived. *)
THEOREM RenderedSurvive == StoreSpec => RenderedRowsSurvive
<1> DEFINE Kept == \A sig \in poll.buf : sig \in Rows /\ sig \notin Rows' => sig \in delivered'
<1>1. StoreInv /\ [StoreNext]_storeVars => [Kept]_storeVars
  <2> SUFFICES ASSUME StoreInv, [StoreNext]_storeVars, NEW sig \in poll.buf, sig \in Rows, sig \notin Rows'
               PROVE  sig \in delivered'
    OBVIOUS
  <2>1. CASE Clear
    BY <2>1 DEF Clear, StoreInv
  <2>2. ASSUME s_entries' = s_entries PROVE FALSE
    BY <2>2 DEF Rows
  <2>3. ASSUME NEW b \in BOOLEAN, Render(b) \/ Send(b) PROVE FALSE
    BY <2>2, <2>3 DEF Render, Send, store
  <2>4. ASSUME NEW s \in Signatures, Record(s) PROVE FALSE
    <3>1. PICK r \in Entries : s_entries[r] = sig
      BY DEF Rows
    <3>2. sig # Free /\ s_entries'[r] = sig
      BY <2>4, <3>1 DEF Record, Rows, StoreInv, StoreTypeOK
    <3> QED BY <3>2 DEF Rows
  <2>5. CASE UNCHANGED storeVars
    BY <2>2, <2>5 DEF storeVars, store
  <2> QED BY <2>1, <2>3, <2>4, <2>5 DEF StoreNext
<1> QED BY <1>1, StoreInvariant, PTL DEF StoreSpec, RenderedRowsSurvive

(* Type correctness: the table, the counters and a poll keep their types, for any slots. *)
THEOREM StoreTypeCorrect == StoreSpec => []StoreTypeOK
<1>1. StoreInv => StoreTypeOK
  BY DEF StoreInv
<1> QED BY <1>1, StoreInvariant, PTL
(* f[r] is the number of hits in the first r rows. *)
Sums(f) ==
  /\ f \in [0..N -> Nat]
  /\ f[0] = 0
  /\ \A r \in Entries : f[r] = f[r - 1] + count[r]

(* Any function with these sums is the one HitsUpTo is defined to be. *)
LEMMA SumsAreHits ==
  ASSUME NEW f, Sums(f)
  PROVE  HitsUpTo = f
<1> USE NAssumption DEF Entries
<1> DEFINE Eq(h) == h = [r \in 0..N |-> IF r = 0 THEN 0 ELSE h[r - 1] + count[r]]
<1>1. Eq(f)
  BY DEF Sums
<1>2. HitsUpTo = CHOOSE h : Eq(h)
  BY DEF HitsUpTo
<1>3. Eq(HitsUpTo)
  <2> HIDE DEF Eq
  <2> QED BY <1>1, <1>2
<1> DEFINE Differ == {r \in 0..N : HitsUpTo[r] # f[r]}
<1>4. ASSUME Differ # {} PROVE FALSE
  <2>1. PICK m \in Differ : \A k \in Differ : m <= k
    <3>1. Differ \in SUBSET Nat
      OBVIOUS
    <3> QED BY <1>4, <3>1, LeastElement
  <2>2. m # 0
    BY <1>3, <2>1 DEF Sums
  <2>3. m \in Entries /\ m - 1 \in 0..N /\ m - 1 \notin Differ
    BY <2>1, <2>2
  <2>4. HitsUpTo[m] = HitsUpTo[m - 1] + count[m] /\ f[m] = f[m - 1] + count[m]
    BY <1>3, <2>2, <2>3 DEF Sums
  <2> QED BY <2>1, <2>3, <2>4
<1>5. DOMAIN HitsUpTo = 0..N /\ HitsUpTo = [r \in 0..N |-> HitsUpTo[r]]
  BY <1>3
<1> QED BY <1>4, <1>5 DEF Sums

(* A free row has no hits, so that taking it adds the one of its frame. *)
CountInv ==
  /\ \A r \in Entries : s_entries[r] = Free => count[r] = 0
  /\ \E f : Sums(f) /\ records = f[N] + s_dropped

(* One more hit in row r is one more in every sum that includes it. *)
LEMMA OneMoreHit ==
  ASSUME StoreTypeOK, NEW f, Sums(f), NEW r \in Entries,
         count' = [count EXCEPT ![r] = count[r] + 1]
  PROVE  LET g == [j \in 0..N |-> IF j >= r THEN f[j] + 1 ELSE f[j]]
         IN  Sums(g)' /\ g[N] = f[N] + 1
<1> DEFINE g == [j \in 0..N |-> IF j >= r THEN f[j] + 1 ELSE f[j]]
<1> USE NAssumption DEF Entries
<1>1. g \in [0..N -> Nat] /\ g[0] = 0 /\ g[N] = f[N] + 1
  BY DEF Sums
<1>2. ASSUME NEW j \in Entries PROVE g[j] = g[j - 1] + count'[j]
  <2>0. /\ j \in 0..N /\ j - 1 \in 0..N /\ f[j] \in Nat /\ f[j - 1] \in Nat /\ count[j] \in Nat
        /\ f[j] = f[j - 1] + count[j]
        /\ count'[j] = IF j = r THEN count[j] + 1 ELSE count[j]
    BY DEF Sums, StoreTypeOK
  <2>1. /\ g[j] = IF j >= r THEN f[j] + 1 ELSE f[j]
        /\ g[j - 1] = IF j - 1 >= r THEN f[j - 1] + 1 ELSE f[j - 1]
    BY <2>0
  <2> HIDE DEF g
  <2> QED BY <2>0, <2>1
<1> QED BY <1>1, <1>2 DEF Sums

LEMMA CountInit == StoreInit => CountInv
<1> SUFFICES ASSUME StoreInit PROVE CountInv
  OBVIOUS
<1>1. Sums([r \in 0..N |-> 0])
  BY NAssumption DEF StoreInit, Sums, Entries
<1> QED BY <1>1, NAssumption DEF StoreInit, CountInv, Entries

LEMMA CountStep == StoreInv /\ CountInv /\ [StoreNext]_storeVars => CountInv'
<1> SUFFICES ASSUME StoreInv, CountInv, [StoreNext]_storeVars PROVE CountInv'
  OBVIOUS
<1> PICK f : Sums(f) /\ records = f[N] + s_dropped
  BY DEF CountInv
<1>0. StoreTypeOK /\ f[N] \in Nat
  BY NAssumption DEF StoreInv, Sums, Entries
<1>1. ASSUME NEW sig \in Signatures, Record(sig) PROVE CountInv'
  <2> sig # Free /\ records' = records + 1
    BY <1>1, FreeIsNoSignature DEF Record
  <2>1. ASSUME NEW r \in Entries, count' = [count EXCEPT ![r] = count[r] + 1], s_entries'[r] = sig,
               \A j \in Entries : j # r => s_entries'[j] = s_entries[j], s_dropped' = s_dropped
        PROVE  CountInv'
    <3> DEFINE g == [j \in 0..N |-> IF j >= r THEN f[j] + 1 ELSE f[j]]
    <3>1. Sums(g)' /\ g[N] = f[N] + 1
      BY <1>0, <2>1, OneMoreHit
    <3>2. \A j \in Entries : s_entries'[j] = Free => count'[j] = 0
      BY <1>0, <2>1 DEF CountInv, StoreTypeOK
    <3> HIDE DEF g
    <3>3. records' = g[N] + s_dropped'
      BY <1>0, <2>1, <3>1 DEF StoreTypeOK
    <3> QED BY <3>1, <3>2, <3>3 DEF CountInv
  <2>2. CASE \E r \in Entries : /\ s_entries[r] = sig
                              /\ count' = [count EXCEPT ![r] = @ + 1]
                              /\ UNCHANGED <<s_entries, s_dropped>>
    BY <2>1, <2>2
  <2>3. CASE \E r \in Entries : /\ s_entries[r] = Free
                              /\ s_entries' = [s_entries EXCEPT ![r] = sig]
                              /\ count' = [count EXCEPT ![r] = 1]
                              /\ UNCHANGED s_dropped
    <3> PICK r \in Entries : /\ s_entries[r] = Free
                           /\ s_entries' = [s_entries EXCEPT ![r] = sig]
                           /\ count' = [count EXCEPT ![r] = 1]
                           /\ UNCHANGED s_dropped
      BY <2>3
    <3>1. count[r] = 0
      BY DEF CountInv
    <3>2. count' = [count EXCEPT ![r] = count[r] + 1]
      BY <3>1
    <3>3. s_entries'[r] = sig /\ \A j \in Entries : j # r => s_entries'[j] = s_entries[j]
      BY <1>0 DEF StoreTypeOK
    <3> QED BY <2>1, <3>2, <3>3
  <2>4. CASE s_dropped' = s_dropped + 1 /\ UNCHANGED <<s_entries, count>>
    <3>1. Sums(f)' /\ records' = f[N] + s_dropped'
      BY <1>0, <2>4 DEF Sums, StoreTypeOK
    <3> QED BY <2>4, <3>1 DEF CountInv
  <2> QED BY <1>1, <2>2, <2>3, <2>4 DEF Record
<1>2. CASE Clear
  <2>1. Sums([r \in 0..N |-> 0])'
    BY <1>2, NAssumption DEF Clear, Sums, Entries
  <2> QED BY <1>2, <2>1, NAssumption DEF Clear, CountInv, Entries
<1>3. ASSUME UNCHANGED <<s_entries, count, s_dropped, records>> PROVE CountInv'
  BY <1>3 DEF CountInv, Sums
<1>4. CASE (\E b \in BOOLEAN : Render(b) \/ Send(b)) \/ UNCHANGED storeVars
  BY <1>3, <1>4 DEF Render, Send, storeVars, store
<1> QED BY <1>1, <1>2, <1>4 DEF StoreNext

(* No frame goes uncounted and none is counted twice, for any table size   *)
(* and any order of records and clears.                                    *)
THEOREM EveryFrameCounted == StoreSpec => []CountsAddUp
<1>1. CountInv => CountsAddUp
  BY SumsAreHits DEF CountInv, CountsAddUp
<1> QED BY <1>1, StoreInvariant, CountInit, CountStep, PTL DEF StoreSpec
=============================================================================
