------------------------------ MODULE Attribute ------------------------------
(***************************************************************************)
(* What the bridge expects of a string attribute of a capability: a set    *)
(* replaces the string at one instant, a send copies it at one instant and *)
(* publishes that copy once, whoever else sets and sends.  CoredyBridge    *)
(* has these as RxSet, RxSnapshot and RxPublish; CapsText shows that free, *)
(* strdup and publish under and after the lock implement them.             *)
(***************************************************************************)
CONSTANTS Tasks, Strings, NULL

VARIABLES
  stored,     \* the string, NULL when memory ran out
  copy,       \* per task: the copy it has yet to publish
  published   \* the last string published

attributeVars == <<stored, copy, published>>

Init ==
  /\ stored \in Strings
  /\ copy = [t \in Tasks |-> NULL]
  /\ published = NULL

Set ==
  /\ stored' \in Strings \cup {NULL}
  /\ UNCHANGED <<copy, published>>

Copy(t) ==
  /\ copy[t] = NULL /\ stored # NULL
  /\ copy' = [copy EXCEPT ![t] = stored]
  /\ UNCHANGED <<stored, published>>

Publish(t) ==
  /\ copy[t] # NULL
  /\ published' = copy[t] /\ copy' = [copy EXCEPT ![t] = NULL]
  /\ UNCHANGED stored

Next == Set \/ \E t \in Tasks : Copy(t) \/ Publish(t)

Spec == Init /\ [][Next]_attributeVars
=============================================================================
