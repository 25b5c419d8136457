------------------------------ MODULE CapsLock ------------------------------
(***************************************************************************)
(* One string attribute of a capability (caps_*.c) on the heap, and the    *)
(* lock of caps_lock.c that guards it.  A set frees the old string and     *)
(* duplicates the new one, a send duplicates the stored string under the   *)
(* lock and publishes the copy without it, and the user callback of an     *)
(* enum command (main.c) reads the stored pointer with no lock.            *)
(*                                                                         *)
(* A report is a set and a send (on_dp); a command is a set, the user      *)
(* callback and a send (cmd_*_cb); an init_cb is a send.  The tasks of     *)
(* each kind are constants, so that the proofs are about any number.       *)
(***************************************************************************)
EXTENDS Naturals

CONSTANTS
  Reporters, Commanders, Initers,  \* tasks by what they run
  Blocks,                          \* heap blocks the allocator may return
  NULL, NoTask,
  AllocMayFail                     \* strdup may return NULL

Tasks == Reporters \cup Commanders \cup Initers

ASSUME NullIsNoBlock == NULL \notin Blocks
ASSUME NoTaskIsNoTask == NoTask \notin Tasks
ASSUME RolesDisjoint == Initers \cap (Reporters \cup Commanders) = {}

VARIABLES
  owner,   \* holder of s_lock
  value,   \* caps_data->..._value
  heap,    \* blocks allocated
  snap,    \* each task's `snapshot`
  arg,     \* each task's argument of the user callback
  pc,
  bad      \* where an unallocated pointer was dereferenced

vars == <<owner, value, heap, snap, arg, pc, bad>>

Init ==
  /\ owner = NoTask
  /\ \E b \in Blocks : value = b /\ heap = {b}  \* capability_init has set it
  /\ snap = [t \in Tasks |-> NULL]
  /\ arg = [t \in Tasks |-> NULL]
  /\ pc = [t \in Tasks |-> "idle"]
  /\ bad = {}

At(t, from, to) == pc[t] = from /\ pc' = [pc EXCEPT ![t] = to]

(* Dereference p at a place: remembered when p is not allocated. *)
Deref(p, place) == bad' = IF p \in heap THEN bad ELSE bad \cup {place}

(* strdup: a free block, or NULL. *)
Alloc(b) == (b \in Blocks \ heap /\ heap' = heap \cup {b}) \/ (AllocMayFail /\ b = NULL /\ heap' = heap)

Take(t, from, to) == owner = NoTask /\ owner' = t /\ At(t, from, to)
Give(t, from, to) == owner' = NoTask /\ At(t, from, to)

(* caps_*_set_value *)
SetTake(t) ==
  /\ t \notin Initers
  /\ Take(t, "idle", "set_free")
  /\ UNCHANGED <<value, heap, snap, arg, bad>>

SetFree(t) ==
  /\ At(t, "set_free", "set_dup")
  /\ heap' = heap \ {value}
  /\ IF value = NULL THEN UNCHANGED bad ELSE Deref(value, "set")
  /\ UNCHANGED <<owner, value, snap, arg>>

SetDup(t) ==
  /\ At(t, "set_dup", "set_give")
  /\ \E b \in Blocks \cup {NULL} : Alloc(b) /\ value' = b
  /\ UNCHANGED <<owner, snap, arg, bad>>

SetGive(t) ==
  /\ Give(t, "set_give", IF t \in Commanders THEN "usr_cb" ELSE "send_take")
  /\ UNCHANGED <<value, heap, snap, arg, bad>>

(* on_*_cmd: the pointer is loaded, then compared with every enum string. *)
UsrCbLoad(t) ==
  /\ At(t, "usr_cb", "usr_cb_read")
  /\ arg' = [arg EXCEPT ![t] = value]
  /\ UNCHANGED <<owner, value, heap, snap, bad>>

UsrCbRead(t) ==
  /\ At(t, "usr_cb_read", "send_take")
  /\ Deref(arg[t], "usr_cb")
  /\ arg' = [arg EXCEPT ![t] = NULL]
  /\ UNCHANGED <<owner, value, heap, snap>>

(* caps_*_send; an init_cb goes straight to it. *)
SendTake(t) ==
  /\ Take(t, IF t \in Initers THEN "idle" ELSE "send_take", "send_dup")
  /\ UNCHANGED <<value, heap, snap, arg, bad>>

(* Mutant: the stored pointer itself is published. *)
SendDupAliases(t) ==
  /\ At(t, "send_dup", "send_give")
  /\ snap' = [snap EXCEPT ![t] = value]
  /\ UNCHANGED <<owner, value, heap, arg, bad>>

SendDup(t) ==
  /\ At(t, "send_dup", "send_give")
  /\ \/ value = NULL /\ UNCHANGED <<heap, snap, bad>>
     \/ /\ value # NULL
        /\ Deref(value, "send")
        /\ \E b \in Blocks \cup {NULL} : Alloc(b) /\ snap' = [snap EXCEPT ![t] = b]
  /\ UNCHANGED <<owner, value, arg>>

(* Mutant: the lock is kept for the publication. *)
SendGiveLate(t) ==
  /\ At(t, "send_give", IF snap[t] = NULL THEN "idle" ELSE "publish")
  /\ UNCHANGED <<owner, value, heap, snap, arg, bad>>

SendGive(t) ==
  /\ Give(t, "send_give", IF snap[t] = NULL THEN "idle" ELSE "publish")
  /\ UNCHANGED <<value, heap, snap, arg, bad>>

SendPublish(t) ==
  /\ At(t, "publish", "free_snapshot")
  /\ Deref(snap[t], "publish")
  /\ UNCHANGED <<owner, value, heap, snap, arg>>

(* Mutants: the snapshot leaks; a publication is repeated for ever. *)
FreeSnapshotLeaks(t) ==
  /\ At(t, "free_snapshot", "idle")
  /\ snap' = [snap EXCEPT ![t] = NULL]
  /\ UNCHANGED <<owner, value, heap, arg, bad>>
FreeSnapshotResends(t) ==
  /\ At(t, "free_snapshot", "send_dup") /\ owner = NoTask /\ owner' = t
  /\ heap' = heap \ {snap[t]} /\ snap' = [snap EXCEPT ![t] = NULL]
  /\ UNCHANGED <<value, arg, bad>>

FreeSnapshot(t) ==
  /\ At(t, "free_snapshot", "idle")
  /\ heap' = heap \ {snap[t]}
  /\ Deref(snap[t], "free")
  /\ snap' = [snap EXCEPT ![t] = NULL]
  /\ UNCHANGED <<owner, value, arg>>

Step(t) ==
  \/ SetTake(t) \/ SetFree(t) \/ SetDup(t) \/ SetGive(t)
  \/ UsrCbLoad(t) \/ UsrCbRead(t)
  \/ SendTake(t) \/ SendDup(t) \/ SendGive(t) \/ SendPublish(t) \/ FreeSnapshot(t)

Next == \E t \in Tasks : Step(t)

Spec == Init /\ [][Next]_vars

(* A task that has started runs on: the takes strongly, as a FreeRTOS      *)
(* mutex wakes its waiters.                                                *)
Fairness ==
  \A t \in Tasks : WF_vars(pc[t] # "idle" /\ Step(t)) /\ SF_vars(pc[t] = "send_take" /\ Step(t))
-----------------------------------------------------------------------------
LockedPcs == {"set_free", "set_dup", "set_give", "send_dup", "send_give"}
FreePcs == {"idle", "usr_cb", "usr_cb_read", "send_take", "publish", "free_snapshot"}
Places == {"set", "send", "publish", "free", "usr_cb"}

(* Type invariant. *)
TypeOK ==
  /\ owner \in Tasks \cup {NoTask}
  /\ value \in Blocks \cup {NULL}
  /\ heap \subseteq Blocks
  /\ snap \in [Tasks -> Blocks \cup {NULL}]
  /\ arg \in [Tasks -> Blocks \cup {NULL}]
  /\ pc \in [Tasks -> LockedPcs \cup FreePcs]
  /\ bad \subseteq Places

(* The setters and senders never touch a freed string, whoever sets and    *)
(* sends at once: the lock, and the snapshot taken under it, are enough    *)
(* for everything but the user callback (caps_lock.h, caps_*_send).        *)
LockedAccessSafe == bad \subseteq {"usr_cb"}

(* Nothing leaks and nothing is owned twice: the heap holds the stored     *)
(* string and one snapshot per sender, and no two of them are one block.   *)
HeapAccounted ==
  LET holders == {t \in Tasks : snap[t] # NULL}
      freed == \E t \in Tasks : pc[t] = "set_dup"
      stored == IF value = NULL \/ freed THEN {} ELSE {value}
  IN /\ heap = stored \cup {snap[t] : t \in holders}
     /\ \A t \in holders : snap[t] \notin stored
     /\ \A t, u \in holders : snap[t] = snap[u] => t = u

(* The lock is not held across a publication or a user callback, which     *)
(* transmits: "we must not hold the capability lock across an MQTT         *)
(* publish" (caps_ns_cleaningMode.c:38).                                   *)
NoLockAcrossPublish ==
  \A t \in Tasks : pc[t] \in {"usr_cb", "usr_cb_read", "publish", "free_snapshot"} => owner # t

(* A task inside set or send comes out: no one keeps the lock, and no      *)
(* waiter starves behind the others.                                       *)
EveryCallReturns == \A t \in Tasks : pc[t] # "idle" ~> pc[t] = "idle"

(* caps_lock.h:4, the lock guards "every capability's value storage", so   *)
(* that no task reads a string another one frees.                          *)
NoUseAfterFree == bad = {}
=============================================================================
