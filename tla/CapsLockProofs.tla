--------------------------- MODULE CapsLockProofs ---------------------------
(***************************************************************************)
(* For any number of reporting, commanding and initialising tasks, any     *)
(* heap and failing allocations: no setter or sender dereferences a freed  *)
(* string, nothing leaks, the lock is never held across a publication, and *)
(* each set and each send is atomic: CapsText implements Attribute.        *)
(***************************************************************************)
EXTENDS CapsText, TLAPS

(* The lock is held exactly by the task inside a critical section. *)
LockInv == \A t \in Tasks : owner = t <=> pc[t] \in LockedPcs

Freed == \E t \in Tasks : pc[t] = "set_dup"

Holding == {"send_give", "publish", "free_snapshot"}

(* The stored string is allocated, but for the moment between a free and   *)
(* the strdup after it; each snapshot is allocated while it is used, and   *)
(* is neither the stored string nor another task's snapshot.               *)
HeapInv ==
  /\ value # NULL => value \in heap \/ Freed
  /\ \A t \in Tasks : snap[t] # NULL => snap[t] \in heap /\ pc[t] \in Holding
  /\ \A t \in Tasks : pc[t] \in {"publish", "free_snapshot"} => snap[t] # NULL
  /\ \A t \in Tasks : snap[t] # NULL /\ snap[t] = value => Freed
  /\ \A t, u \in Tasks : snap[t] # NULL /\ snap[t] = snap[u] => t = u

(* What is allocated is the stored string or a snapshot. *)
NoLeak == \A b \in heap : (b = value /\ ~Freed) \/ \E t \in Tasks : snap[t] = b

IInv == TypeOK /\ LockInv /\ HeapInv /\ NoLeak /\ LockedAccessSafe

LEMMA InitInv == Init => IInv
<1> SUFFICES ASSUME Init PROVE IInv
  OBVIOUS
<1>1. TypeOK
  BY DEF Init, TypeOK, FreePcs
<1>2. LockInv
  BY NoTaskIsNoTask DEF Init, LockInv, LockedPcs
<1>3. HeapInv
  BY DEF Init, HeapInv
<1>4. LockedAccessSafe
  BY DEF Init, LockedAccessSafe
<1>5. NoLeak
  BY DEF Init, NoLeak, Freed
<1> QED BY <1>1, <1>2, <1>3, <1>4, <1>5 DEF IInv

LEMMA TypeNext ==
  ASSUME TypeOK, NEW t \in Tasks, Step(t)
  PROVE  TypeOK'
<1>1. CASE SetTake(t) \/ SetGive(t) \/ SendTake(t) \/ SendGive(t)
  BY <1>1 DEF TypeOK, SetTake, SetGive, SendTake, SendGive, Take, Give, At, LockedPcs, FreePcs
<1>2. CASE SetFree(t) \/ SendPublish(t) \/ FreeSnapshot(t)
  BY <1>2 DEF TypeOK, SetFree, SendPublish, FreeSnapshot, Deref, At, LockedPcs, FreePcs, Places
<1>3. CASE SetDup(t) \/ SendDup(t)
  BY <1>3 DEF TypeOK, SetDup, SendDup, Alloc, Deref, At, LockedPcs, FreePcs, Places
<1>4. CASE UsrCbLoad(t) \/ UsrCbRead(t)
  BY <1>4 DEF TypeOK, UsrCbLoad, UsrCbRead, Deref, At, LockedPcs, FreePcs, Places
<1> QED BY <1>1, <1>2, <1>3, <1>4 DEF Step

LEMMA LockNext ==
  ASSUME TypeOK, LockInv, NEW t \in Tasks, Step(t)
  PROVE  LockInv'
<1>1. CASE SetTake(t) \/ SendTake(t)
  BY <1>1, NoTaskIsNoTask
     DEF TypeOK, LockInv, SetTake, SendTake, Take, At, LockedPcs, FreePcs
<1>2. CASE SetGive(t) \/ SendGive(t)
  BY <1>2, NoTaskIsNoTask DEF TypeOK, LockInv, SetGive, SendGive, Give, At, LockedPcs, FreePcs
<1>3. CASE SetFree(t) \/ SetDup(t) \/ SendDup(t)
  BY <1>3 DEF TypeOK, LockInv, SetFree, SetDup, SendDup, At, LockedPcs
<1>4. CASE UsrCbLoad(t) \/ UsrCbRead(t) \/ SendPublish(t) \/ FreeSnapshot(t)
  BY <1>4 DEF TypeOK, LockInv, UsrCbLoad, UsrCbRead, SendPublish, FreeSnapshot, At, LockedPcs
<1> QED BY <1>1, <1>2, <1>3, <1>4 DEF Step

(* While one task is in a critical section no other is between its free    *)
(* and its strdup.                                                         *)
LEMMA NotFreed ==
  ASSUME TypeOK, LockInv, NEW t \in Tasks, pc[t] \in LockedPcs, pc[t] # "set_dup"
  PROVE  ~Freed
PROOF BY DEF LockInv, Freed, LockedPcs

LEMMA HeapNext ==
  ASSUME TypeOK, LockInv, HeapInv, NEW t \in Tasks, Step(t)
  PROVE  HeapInv'
<1>1. CASE SetTake(t) \/ SendTake(t) \/ SetGive(t) \/ SendGive(t)
  <2>1. /\ UNCHANGED <<value, heap, snap>>
        /\ pc[t] # "set_dup" /\ pc'[t] # "set_dup"
        /\ \A u \in Tasks : u # t => pc'[u] = pc[u]
        /\ pc[t] \notin Holding \/ pc'[t] \in Holding \/ snap[t] = NULL
        /\ pc'[t] \in {"publish", "free_snapshot"} => snap[t] # NULL
    BY <1>1 DEF TypeOK, SetTake, SendTake, SetGive, SendGive, Take, Give, At, Holding
  <2> QED BY <2>1 DEF HeapInv, Freed, Holding
<1>2. CASE SetFree(t)
  <2>1. ~Freed /\ Freed'
    BY <1>2, NotFreed DEF SetFree, At, LockedPcs, Freed, TypeOK
  <2>2. /\ UNCHANGED <<value, snap>> /\ heap' = heap \ {value}
        /\ \A u \in Tasks : u # t => pc'[u] = pc[u]
        /\ pc[t] = "set_free" /\ pc'[t] = "set_dup"
    BY <1>2 DEF SetFree, At, TypeOK
  <2> QED BY <2>1, <2>2 DEF HeapInv, Holding
<1>3. CASE SetDup(t)
  <2>1. PICK b \in Blocks \cup {NULL} : Alloc(b) /\ value' = b
    BY <1>3 DEF SetDup
  <2>2. /\ UNCHANGED snap
        /\ \A u \in Tasks : u # t => pc'[u] = pc[u]
        /\ pc[t] = "set_dup" /\ pc'[t] = "set_give"
    BY <1>3 DEF SetDup, At, TypeOK
  <2>3. value' # NULL => value' \in heap' /\ value' \notin heap
    BY <2>1 DEF Alloc
  <2>4. heap \subseteq heap'
    BY <2>1 DEF Alloc
  <2> QED BY <2>2, <2>3, <2>4 DEF HeapInv, Holding
<1>4. CASE SendDup(t) /\ UNCHANGED snap
  <2>1. /\ UNCHANGED value /\ heap \subseteq heap'
        /\ \A u \in Tasks : u # t => pc'[u] = pc[u]
        /\ pc[t] = "send_dup" /\ pc'[t] = "send_give"
    BY <1>4 DEF SendDup, Alloc, At, TypeOK
  <2> QED BY <1>4, <2>1 DEF HeapInv, Freed, Holding
<1>5. CASE SendDup(t) /\ snap' # snap
  <2>1. PICK b \in Blocks \cup {NULL} : Alloc(b) /\ snap' = [snap EXCEPT ![t] = b]
    BY <1>5 DEF SendDup
  <2>2. /\ UNCHANGED value
        /\ \A u \in Tasks : u # t => pc'[u] = pc[u]
        /\ pc[t] = "send_dup" /\ pc'[t] = "send_give" /\ value # NULL
    BY <1>5 DEF SendDup, At, TypeOK
  <2>3. ~Freed
    BY <2>2, NotFreed DEF LockedPcs
  <2>4. value \in heap
    BY <2>2, <2>3 DEF HeapInv
  <2>5. /\ heap \subseteq heap'
        /\ b # NULL => b \in heap' /\ b \notin heap
    BY <2>1 DEF Alloc
  <2>6. snap'[t] = b /\ \A u \in Tasks : u # t => snap'[u] = snap[u]
    BY <2>1 DEF TypeOK
  <2> QED BY <2>2, <2>3, <2>4, <2>5, <2>6 DEF HeapInv, Freed, Holding
<1>6. CASE UsrCbLoad(t) \/ UsrCbRead(t) \/ SendPublish(t)
  <2>1. /\ UNCHANGED <<value, heap, snap>>
        /\ pc[t] # "set_dup" /\ pc'[t] # "set_dup"
        /\ \A u \in Tasks : u # t => pc'[u] = pc[u]
        /\ pc[t] \notin Holding \/ (pc[t] = "publish" /\ pc'[t] = "free_snapshot")
        /\ pc'[t] \in {"publish", "free_snapshot"} => pc[t] = "publish"
    BY <1>6 DEF TypeOK, UsrCbLoad, UsrCbRead, SendPublish, At, Holding
  <2> QED BY <2>1 DEF HeapInv, Freed, Holding
<1>7. CASE FreeSnapshot(t)
  <2>1. /\ UNCHANGED value /\ heap' = heap \ {snap[t]}
        /\ snap'[t] = NULL /\ \A u \in Tasks : u # t => snap'[u] = snap[u] /\ pc'[u] = pc[u]
        /\ pc[t] = "free_snapshot" /\ pc'[t] = "idle"
    BY <1>7 DEF FreeSnapshot, At, TypeOK
  <2>2. Freed <=> Freed'
    BY <2>1 DEF Freed
  <2> QED BY <2>1, <2>2 DEF HeapInv, Holding
<1> QED BY <1>1, <1>2, <1>3, <1>4, <1>5, <1>6, <1>7 DEF Step

LEMMA LeakNext ==
  ASSUME TypeOK, LockInv, HeapInv, NoLeak, NEW t \in Tasks, Step(t)
  PROVE  NoLeak'
<1>1. CASE SetTake(t) \/ SendTake(t) \/ SetGive(t) \/ SendGive(t)
            \/ UsrCbLoad(t) \/ UsrCbRead(t) \/ SendPublish(t)
  <2>1. /\ UNCHANGED <<value, heap, snap>> /\ pc'[t] # "set_dup"
        /\ \A u \in Tasks : u # t => pc'[u] = pc[u]
    BY <1>1 DEF TypeOK, SetTake, SendTake, SetGive, SendGive, UsrCbLoad, UsrCbRead, SendPublish,
                Take, Give, At
  <2> QED BY <2>1 DEF NoLeak, Freed
<1>2. CASE SetFree(t)
  BY <1>2 DEF SetFree, NoLeak
(* The strdup after the free: no other task is at that point. *)
<1>3. CASE SetDup(t)
  <2>1. /\ UNCHANGED snap /\ pc[t] = "set_dup" /\ pc'[t] = "set_give"
        /\ \A u \in Tasks : u # t => pc'[u] = pc[u]
        /\ \A b \in heap' : b \in heap \/ b = value'
    BY <1>3 DEF TypeOK, SetDup, Alloc, At
  <2>2. Freed /\ ~Freed'
    BY <2>1 DEF Freed, LockInv, LockedPcs
  <2> QED BY <2>1, <2>2 DEF NoLeak
<1>4. CASE SendDup(t)
  <2>1. /\ UNCHANGED value /\ pc[t] = "send_dup" /\ pc'[t] = "send_give"
        /\ \A u \in Tasks : u # t => pc'[u] = pc[u] /\ snap'[u] = snap[u]
        /\ \A b \in heap' : b \in heap \/ b = snap'[t]
    BY <1>4 DEF TypeOK, SendDup, Alloc, At
  <2>2. ~Freed'
    BY <2>1, NotFreed DEF LockedPcs, Freed
  <2>3. snap[t] = NULL
    BY <2>1 DEF HeapInv, Holding
  <2> QED BY <2>1, <2>2, <2>3, NullIsNoBlock DEF NoLeak, TypeOK
<1>5. CASE FreeSnapshot(t)
  <2>1. /\ UNCHANGED value /\ heap' = heap \ {snap[t]} /\ pc'[t] = "idle"
        /\ \A u \in Tasks : u # t => pc'[u] = pc[u] /\ snap'[u] = snap[u]
    BY <1>5 DEF TypeOK, FreeSnapshot, At
  <2> QED BY <2>1 DEF NoLeak, Freed
<1> QED BY <1>1, <1>2, <1>3, <1>4, <1>5 DEF Step

LEMMA SafeNext ==
  ASSUME TypeOK, LockInv, HeapInv, LockedAccessSafe, NEW t \in Tasks, Step(t)
  PROVE  LockedAccessSafe'
<1>1. CASE SetFree(t)
  BY <1>1, NotFreed DEF SetFree, Deref, At, HeapInv, LockedAccessSafe, LockedPcs
<1>2. CASE SendDup(t)
  BY <1>2, NotFreed DEF SendDup, Deref, At, HeapInv, LockedAccessSafe, LockedPcs
<1>3. CASE SendPublish(t) \/ FreeSnapshot(t)
  BY <1>3 DEF SendPublish, FreeSnapshot, Deref, At, HeapInv, LockedAccessSafe
<1>4. CASE UsrCbRead(t)
  BY <1>4 DEF UsrCbRead, Deref, LockedAccessSafe
<1>5. CASE SetTake(t) \/ SetDup(t) \/ SetGive(t) \/ UsrCbLoad(t) \/ SendTake(t) \/ SendGive(t)
  BY <1>5 DEF SetTake, SetDup, SetGive, UsrCbLoad, SendTake, SendGive, LockedAccessSafe
<1> QED BY <1>1, <1>2, <1>3, <1>4, <1>5 DEF Step

LEMMA Invariant == Spec => []IInv
<1>1. IInv /\ [Next]_vars => IInv'
  <2> SUFFICES ASSUME IInv, [Next]_vars PROVE IInv'
    OBVIOUS
  <2>1. CASE Next
    BY <2>1, TypeNext, LockNext, HeapNext, LeakNext, SafeNext DEF Next, IInv
  <2>2. CASE UNCHANGED vars
    BY <2>2 DEF vars, IInv, TypeOK, LockInv, HeapInv, NoLeak, Freed, LockedAccessSafe
  <2> QED BY <2>1, <2>2
<1> QED BY <1>1, InitInv, PTL DEF Spec

(* No setter and no sender dereferences a freed string. *)
THEOREM LockedAccess == Spec => []LockedAccessSafe
<1>1. IInv => LockedAccessSafe
  BY DEF IInv
<1> QED BY <1>1, Invariant, PTL

(* The lock is free of a task that publishes or transmits. *)
THEOREM PublishesUnlocked == Spec => []NoLockAcrossPublish
<1>1. IInv => NoLockAcrossPublish
  BY DEF IInv, LockInv, NoLockAcrossPublish, LockedPcs
<1> QED BY <1>1, Invariant, PTL

(* Type correctness: the lock, the heap and every call stay within their types, for any tasks. *)
THEOREM TypeCorrect == Spec => []TypeOK
<1>1. IInv => TypeOK
  BY DEF IInv
<1> QED BY <1>1, Invariant, PTL

(* No string leaks and none has two owners: what the heap holds is the     *)
(* stored string and the snapshots, each of them once.                     *)
THEOREM Accounted == Spec => []HeapAccounted
<1>1. IInv => HeapAccounted
  BY NullIsNoBlock DEF IInv, TypeOK, HeapInv, NoLeak, Freed, HeapAccounted
<1> QED BY <1>1, Invariant, PTL
-----------------------------------------------------------------------------
(* With the blocks' contents: a set, a copy and a publication are one step *)
(* each of the attribute.                                                  *)

TextTypeOK == text \in [Blocks -> Strings] /\ published \in Strings \cup {NULL}

LEMMA TextStepIsStep == [TextNext]_textVars => [Next]_vars
BY DEF TextNext, TextStep, DuplicateNew, DuplicateStored, PublishText, textVars, Next, Step

LEMMA TextInvariant == TextSpec => []IInv
<1>1. TextInit => IInv
  BY InitInv DEF TextInit
<1>2. TextSpec => Spec
  <2>1. TextInit => Init
    BY DEF TextInit
  <2> QED BY <2>1, TextStepIsStep, PTL DEF TextSpec, Spec
<1> QED BY <1>2, Invariant, PTL

LEMMA TextTypeInit == TextInit => TextTypeOK
BY DEF TextInit, TextTypeOK

LEMMA TextTypeStep == IInv /\ TextTypeOK /\ [TextNext]_textVars => TextTypeOK'
<1> SUFFICES ASSUME IInv, TextTypeOK, [TextNext]_textVars PROVE TextTypeOK'
  OBVIOUS
<1> value \in Blocks \cup {NULL} /\ snap \in [Tasks -> Blocks \cup {NULL}]
  BY DEF IInv, TypeOK
<1>1. ASSUME NEW t \in Tasks, DuplicateNew(t) PROVE TextTypeOK'
  BY <1>1 DEF DuplicateNew, SetDup, TextTypeOK
<1>2. ASSUME NEW t \in Tasks, DuplicateStored(t) PROVE TextTypeOK'
  <2>1. snap'[t] = NULL \/ value \in Blocks
    BY <1>2 DEF DuplicateStored, SendDup, IInv, HeapInv, Holding, At
  <2> QED BY <1>2, <2>1 DEF DuplicateStored, TextTypeOK
<1>3. ASSUME NEW t \in Tasks, PublishText(t) PROVE TextTypeOK'
  <2>1. snap[t] \in Blocks
    BY <1>3 DEF PublishText, SendPublish, At, IInv, HeapInv
  <2> QED BY <1>3, <2>1 DEF PublishText, TextTypeOK
<1>4. CASE UNCHANGED <<text, published>>
  BY <1>4 DEF TextTypeOK
<1> QED BY <1>1, <1>2, <1>3, <1>4 DEF TextNext, TextStep, textVars

(* A step of task t disturbs no other task's copy when it writes at most a *)
(* block that was free.                                                    *)
LEMMA OthersKeepCopies ==
  ASSUME IInv, NEW t \in Tasks,
         \A u \in Tasks : u # t => pc'[u] = pc[u] /\ snap'[u] = snap[u],
         \A b \in heap : text'[b] = text[b]
  PROVE  \A u \in Tasks : u # t => ToPublish(u)' = ToPublish(u)
BY DEF ToPublish, IInv, HeapInv

LEMMA SameCopies ==
  ASSUME \A u \in Tasks : ToPublish(u)' = ToPublish(u)
  PROVE  [u \in Tasks |-> ToPublish(u)]' = [u \in Tasks |-> ToPublish(u)]
OBVIOUS

LEMMA NewIsSet ==
  ASSUME IInv, TextTypeOK, NEW t \in Tasks, DuplicateNew(t)
  PROVE  Atomic!Set
<1>1. PICK b \in Blocks \cup {NULL} : Alloc(b) /\ value' = b
  BY DEF DuplicateNew, SetDup
<1>2. /\ UNCHANGED snap /\ pc[t] = "set_dup" /\ pc'[t] = "set_give"
      /\ \A u \in Tasks : u # t => pc'[u] = pc[u]
  BY DEF DuplicateNew, SetDup, At, IInv, TypeOK
<1>3. \A c \in heap : text'[c] = text[c]
  BY <1>1 DEF DuplicateNew, Alloc, TextTypeOK, IInv, TypeOK
<1>4. ToPublish(t)' = ToPublish(t)
  BY <1>2 DEF ToPublish
<1>5. \A u \in Tasks : ToPublish(u)' = ToPublish(u)
  BY <1>2, <1>3, <1>4, OthersKeepCopies
<1>6. Said' \in Strings \cup {NULL}
  BY <1>1 DEF Said, DuplicateNew, TextTypeOK
<1>7. UNCHANGED published
  BY DEF DuplicateNew
<1> QED BY <1>5, <1>6, <1>7, SameCopies DEF Atomic!Set

LEMMA StoredIsCopy ==
  ASSUME IInv, TextTypeOK, NEW t \in Tasks, DuplicateStored(t)
  PROVE  Atomic!Copy(t) \/ UNCHANGED Atomic!attributeVars
<1>1. /\ UNCHANGED value /\ pc[t] = "send_dup" /\ pc'[t] = "send_give"
      /\ \A u \in Tasks : u # t => pc'[u] = pc[u] /\ snap'[u] = snap[u]
  BY DEF DuplicateStored, SendDup, At, IInv, TypeOK
<1>2. snap[t] = NULL /\ ToPublish(t) = NULL
  BY <1>1 DEF IInv, HeapInv, Holding, ToPublish
<1>3. value # NULL => value \in heap
  BY <1>1, NotFreed DEF IInv, HeapInv, LockedPcs
<1>4. snap'[t] # NULL => value # NULL /\ snap'[t] \in Blocks \ heap
  <2>1. CASE value = NULL
    BY <1>2, <2>1 DEF DuplicateStored, SendDup
  <2>2. CASE value # NULL
    BY <2>2 DEF DuplicateStored, SendDup, Alloc, IInv, TypeOK
  <2> QED BY <2>1, <2>2
<1>5. \A c \in heap : text'[c] = text[c]
  BY <1>4 DEF DuplicateStored, TextTypeOK, IInv, TypeOK
<1>6. Said' = Said /\ UNCHANGED published
  BY <1>1, <1>3, <1>5 DEF Said, DuplicateStored
<1>7. \A u \in Tasks : u # t => ToPublish(u)' = ToPublish(u)
  BY <1>1, <1>5, OthersKeepCopies
<1>8. CASE snap'[t] = NULL
  <2>1. ToPublish(t)' = NULL
    BY <1>8 DEF ToPublish
  <2> QED BY <1>2, <1>6, <1>7, <2>1, SameCopies DEF Atomic!attributeVars
<1>9. CASE snap'[t] # NULL
  <2>1. ToPublish(t)' = Said /\ Said # NULL
    BY <1>1, <1>4, <1>9, NullIsNoString DEF ToPublish, Said, DuplicateStored, TextTypeOK, IInv, TypeOK
  <2>2. [u \in Tasks |-> ToPublish(u)]' = [[u \in Tasks |-> ToPublish(u)] EXCEPT ![t] = Said]
    BY <1>7, <2>1
  <2> QED BY <1>2, <1>6, <2>1, <2>2 DEF Atomic!Copy
<1> QED BY <1>8, <1>9

LEMMA PublishIsPublish ==
  ASSUME IInv, TextTypeOK, NEW t \in Tasks, PublishText(t)
  PROVE  Atomic!Publish(t)
<1>1. /\ UNCHANGED <<value, text, snap>> /\ pc[t] = "publish" /\ pc'[t] = "free_snapshot"
      /\ \A u \in Tasks : u # t => pc'[u] = pc[u]
  BY DEF PublishText, SendPublish, At, IInv, TypeOK
<1>2. snap[t] # NULL /\ snap[t] \in Blocks
  BY <1>1 DEF IInv, HeapInv, TypeOK
<1>3. ToPublish(t) = text[snap[t]] /\ ToPublish(t) # NULL /\ published' = ToPublish(t)
  BY <1>1, <1>2, NullIsNoString DEF ToPublish, PublishText, TextTypeOK
<1>4. \A u \in Tasks : ToPublish(u)' = IF u = t THEN NULL ELSE ToPublish(u)
  BY <1>1 DEF ToPublish
<1>5. [u \in Tasks |-> ToPublish(u)]' = [[u \in Tasks |-> ToPublish(u)] EXCEPT ![t] = NULL]
  BY <1>4
<1>6. Said' = Said
  BY <1>1 DEF Said
<1> QED BY <1>3, <1>5, <1>6 DEF Atomic!Publish

LEMMA RestStutters ==
  ASSUME IInv, NEW t \in Tasks, UNCHANGED <<text, published>>,
         \/ SetTake(t) \/ SetFree(t) \/ SetGive(t) \/ UsrCbLoad(t) \/ UsrCbRead(t)
         \/ SendTake(t) \/ SendGive(t) \/ FreeSnapshot(t)
  PROVE  UNCHANGED Atomic!attributeVars
<1>1. UNCHANGED value
  BY DEF SetTake, SetFree, SetGive, UsrCbLoad, UsrCbRead, SendTake, SendGive, FreeSnapshot
<1>2. \A u \in Tasks : u # t => pc'[u] = pc[u] /\ snap'[u] = snap[u]
  BY DEF SetTake, SetFree, SetGive, UsrCbLoad, UsrCbRead, SendTake, SendGive, FreeSnapshot,
         Take, Give, At, IInv, TypeOK
<1>3. \/ UNCHANGED snap /\ pc[t] \notin {"send_give", "publish"} /\ pc'[t] \notin {"send_give", "publish"}
      \/ UNCHANGED snap /\ pc[t] = "send_give" /\ (pc'[t] = "publish" \/ snap[t] = NULL)
      \/ pc[t] = "free_snapshot" /\ pc'[t] = "idle"
  BY DEF SetTake, SetFree, SetGive, UsrCbLoad, UsrCbRead, SendTake, SendGive, FreeSnapshot,
         Take, Give, At, IInv, TypeOK
<1>4. ToPublish(t)' = ToPublish(t)
  BY <1>3 DEF ToPublish
<1>5. \A u \in Tasks : ToPublish(u)' = ToPublish(u)
  BY <1>2, <1>4, OthersKeepCopies
<1>6. Said' = Said
  BY <1>1 DEF Said
<1> QED BY <1>5, <1>6, SameCopies DEF Atomic!attributeVars

(* For any tasks, strings and failing allocations, the sets and sends of   *)
(* an attribute are those of Attribute: CoredyBridge may take each of them *)
(* for one step.                                                           *)
THEOREM SetsAndSends == TextSpec => SetsAndSendsAreAtomic
<1>1. TextInit => Atomic!Init
  <2> SUFFICES ASSUME TextInit PROVE Atomic!Init
    OBVIOUS
  <2>1. value \in Blocks /\ \A t \in Tasks : snap[t] = NULL
    BY DEF TextInit, Init
  <2>2. Said \in Strings
    BY <2>1, NullIsNoBlock DEF Said, TextInit
  <2>3. \A t \in Tasks : ToPublish(t) = NULL
    BY <2>1 DEF ToPublish
  <2> QED BY <2>2, <2>3 DEF TextInit, Atomic!Init
<1>2. IInv /\ TextTypeOK /\ [TextNext]_textVars => [Atomic!Next]_(Atomic!attributeVars)
  <2> SUFFICES ASSUME IInv, TextTypeOK, [TextNext]_textVars
               PROVE  Atomic!Next \/ UNCHANGED Atomic!attributeVars
    OBVIOUS
  <2>1. ASSUME NEW t \in Tasks, TextStep(t) PROVE Atomic!Next \/ UNCHANGED Atomic!attributeVars
    BY <2>1, NewIsSet, StoredIsCopy, PublishIsPublish, RestStutters DEF TextStep, Atomic!Next
  <2>2. CASE UNCHANGED textVars
    BY <2>2 DEF textVars, vars, Said, ToPublish, Atomic!attributeVars
  <2> QED BY <2>1, <2>2 DEF TextNext
<1>3. TextSpec => []TextTypeOK
  BY TextInvariant, TextTypeInit, TextTypeStep, PTL DEF TextSpec
<1> QED BY <1>1, <1>2, <1>3, TextInvariant, PTL DEF TextSpec, Atomic!Spec, SetsAndSendsAreAtomic
=============================================================================
