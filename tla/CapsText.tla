------------------------------ MODULE CapsText ------------------------------
(***************************************************************************)
(* CapsLock with what the heap blocks contain: a set duplicates the string *)
(* it is given, a send the string that is stored, and what STDK gets is    *)
(* what the snapshot contains when it is published.  A block keeps its     *)
(* text when it is freed, until it is allocated again; `bad` of CapsLock   *)
(* records who would read it meanwhile.                                    *)
(***************************************************************************)
EXTENDS CapsLock

CONSTANT Strings   \* what an attribute may say

ASSUME NullIsNoString == NULL \notin Strings

VARIABLES
  text,        \* what each block contains
  published    \* the last string handed to STDK

textVars == <<vars, text, published>>

TextInit ==
  /\ Init
  /\ \E s \in Strings : text = [b \in Blocks |-> s]
  /\ published = NULL

(* The strdup of a set, of a string its caller brings, *)
DuplicateNew(t) ==
  /\ SetDup(t)
  /\ \/ value' = NULL /\ UNCHANGED text
     \/ value' # NULL /\ \E s \in Strings : text' = [text EXCEPT ![value'] = s]
  /\ UNCHANGED published

(* the strdup of a send, *)
DuplicateStored(t) ==
  /\ SendDup(t)
  /\ \/ snap'[t] = NULL /\ UNCHANGED text
     \/ snap'[t] # NULL /\ text' = [text EXCEPT ![snap'[t]] = text[value]]
  /\ UNCHANGED published

(* and ST_CAP_SEND_ATTR_STRING. *)
PublishText(t) ==
  /\ SendPublish(t)
  /\ published' = text[snap[t]]
  /\ UNCHANGED text

TextStep(t) ==
  \/ DuplicateNew(t) \/ DuplicateStored(t) \/ PublishText(t)
  \/ /\ \/ SetTake(t) \/ SetFree(t) \/ SetGive(t) \/ UsrCbLoad(t) \/ UsrCbRead(t)
        \/ SendTake(t) \/ SendGive(t) \/ FreeSnapshot(t)
     /\ UNCHANGED <<text, published>>

TextNext == \E t \in Tasks : TextStep(t)

TextSpec == TextInit /\ [][TextNext]_textVars
FairTextSpec == TextSpec /\ Fairness
-----------------------------------------------------------------------------
(* Each set, each copy and each publication is one step of an attribute,   *)
(* for all that the string is freed and allocated piecemeal, and published *)
(* without the lock: nobody publishes a string that was not stored at one  *)
(* instant of its own send (caps_ns_cleaningMode.c:36).                    *)
Said == IF value = NULL THEN NULL ELSE text[value]
ToPublish(t) == IF pc[t] \in {"send_give", "publish"} /\ snap[t] # NULL THEN text[snap[t]] ELSE NULL

Atomic == INSTANCE Attribute WITH stored <- Said, copy <- [t \in Tasks |-> ToPublish(t)]
SetsAndSendsAreAtomic == Atomic!Spec
=============================================================================
