---------------------------- MODULE UnknownStore ----------------------------
(***************************************************************************)
(* The table of frames the bridge did not recognise (unknown_store.c) and  *)
(* GET /unknown?clear=1, with which the workstation polls and empties it   *)
(* (handle_unknown of http_server.c).  The receive task records; the API   *)
(* server's one task renders, sends and clears.  Recording, rendering and  *)
(* clearing each hold s_lock from end to end; the handler holds nothing    *)
(* from one to the next.                                                   *)
(*                                                                         *)
(* A signature stands for (kind, cmd, dpid, dptype, length, first 16       *)
(* bytes), which is what record() compares.                                *)
(***************************************************************************)
EXTENDS Naturals

CONSTANTS
  Signatures,
  Free,        \* what an unused slot holds
  N,           \* UNKNOWN_STORE_MAX_ENTRIES
  MaxRecords   \* bound: frames recorded since the last clear

ASSUME NAssumption == N \in Nat \ {0}
ASSUME FreeIsNoSignature == Free \notin Signatures

Entries == 1..N

VARIABLES
  s_entries, count, s_dropped,
  poll,        \* the handler: where it is, whether to clear, what it rendered
  records,     \* frames recorded since the last clear
  delivered    \* signatures in a response that reached the workstation

store == <<s_entries, count, s_dropped>>
storeVars == <<store, poll, records, delivered>>

NoPoll == [pc |-> "idle", clear |-> FALSE, buf |-> {}]
Rows == {s_entries[i] : i \in Entries} \ {Free}

StoreInit ==
  /\ s_entries = [i \in Entries |-> Free]
  /\ count = [i \in Entries |-> 0]
  /\ s_dropped = 0
  /\ poll = NoPoll
  /\ records = 0 /\ delivered = {}

(* Mutants: every record takes a free slot; a full table is not counted. *)
RecordNoDedup(sig) ==
  /\ records < MaxRecords /\ records' = records + 1
  /\ \E i \in Entries :
       /\ s_entries[i] = Free /\ \A j \in Entries : j < i => s_entries[j] # Free
       /\ s_entries' = [s_entries EXCEPT ![i] = sig] /\ count' = [count EXCEPT ![i] = 1]
  /\ UNCHANGED <<s_dropped, poll, delivered>>
RecordSilent(sig) ==
  /\ records < MaxRecords /\ records' = records + 1
  /\ \E i \in Entries :
       IF sig \in Rows
       THEN s_entries[i] = sig /\ count' = [count EXCEPT ![i] = @ + 1] /\ UNCHANGED s_entries
       ELSE IF Free \in {s_entries[j] : j \in Entries}
       THEN /\ s_entries[i] = Free /\ count' = [count EXCEPT ![i] = 1]
            /\ s_entries' = [s_entries EXCEPT ![i] = sig]
       ELSE UNCHANGED <<s_entries, count>>
  /\ UNCHANGED <<s_dropped, poll, delivered>>

(* record(): the row of the signature, else the first free slot, else none. *)
Record(sig) ==
  /\ records < MaxRecords /\ records' = records + 1
  /\ \/ \E i \in Entries :
          /\ s_entries[i] = sig
          /\ count' = [count EXCEPT ![i] = @ + 1]
          /\ UNCHANGED <<s_entries, s_dropped>>
     \/ \E i \in Entries :
          /\ sig \notin Rows
          /\ s_entries[i] = Free /\ \A j \in Entries : j < i => s_entries[j] # Free
          /\ s_entries' = [s_entries EXCEPT ![i] = sig] /\ count' = [count EXCEPT ![i] = 1]
          /\ UNCHANGED s_dropped
     \/ /\ sig \notin Rows /\ Free \notin {s_entries[i] : i \in Entries}
        /\ s_dropped' = s_dropped + 1
        /\ UNCHANGED <<s_entries, count>>
  /\ UNCHANGED <<poll, delivered>>

(* handle_unknown(): render the whole table into a buffer that holds a full
   one (32 rows of at most 169 bytes and a header, in 6144; without the
   memory for it the request ends here and changes nothing), *)
Render(clear) ==
  /\ poll.pc = "idle"
  /\ poll' = [pc |-> "send", clear |-> clear, buf |-> Rows]
  /\ UNCHANGED <<store, records, delivered>>

(* Mutant: the table is cleared whether or not the response arrived. *)
SendThenClear(ok) ==
  /\ poll.pc = "send"
  /\ delivered' = IF ok THEN delivered \cup poll.buf ELSE delivered
  /\ poll' = IF poll.clear THEN [poll EXCEPT !.pc = "clear"] ELSE NoPoll
  /\ UNCHANGED <<store, records>>

(* send it, which fails when the connection drops, *)
Send(ok) ==
  /\ poll.pc = "send"
  /\ delivered' = IF ok THEN delivered \cup poll.buf ELSE delivered
  /\ poll' = IF ok /\ poll.clear THEN [poll EXCEPT !.pc = "clear"] ELSE NoPoll
  /\ UNCHANGED <<store, records>>

(* and only after a response safely out, clear. *)
Clear ==
  /\ poll.pc = "clear"
  /\ s_entries' = [i \in Entries |-> Free] /\ count' = [i \in Entries |-> 0] /\ s_dropped' = 0
  /\ poll' = NoPoll
  /\ records' = 0
  /\ UNCHANGED delivered

StoreNext ==
  \/ \E sig \in Signatures : Record(sig)
  \/ \E b \in BOOLEAN : Render(b) \/ Send(b)
  \/ Clear

StoreSpec == StoreInit /\ [][StoreNext]_storeVars
-----------------------------------------------------------------------------
(* Type invariant. *)
StoreTypeOK ==
  /\ s_entries \in [Entries -> Signatures \cup {Free}]
  /\ count \in [Entries -> Nat]
  /\ s_dropped \in Nat /\ records \in Nat
  /\ poll \in [pc : {"idle", "send", "clear"}, clear : BOOLEAN, buf : SUBSET Signatures]
  /\ delivered \subseteq Signatures

(* "A DP that fires constantly costs one slot rather than flooding the     *)
(* table" (unknown_store.h:19): whatever is recorded and cleared in        *)
(* whatever order, no signature has two rows.                              *)
OneRowEach ==
  \A i, j \in Entries : s_entries[i] = s_entries[j] /\ s_entries[i] # Free => i = j

(* The hits in the first i rows. *)
HitsUpTo[i \in 0..N] == IF i = 0 THEN 0 ELSE HitsUpTo[i - 1] + count[i]

(* Every frame since the last clear is accounted for, in the hit count of  *)
(* its row or in the dropped counter.                                      *)
CountsAddUp == records = HitsUpTo[N] + s_dropped

(* A dropped connection "can't silently discard findings the workstation   *)
(* never received" (http_server.c:172): a row that was rendered goes away  *)
(* only when a response that held it has arrived.                          *)
RenderedRowsSurvive ==
  [][\A sig \in poll.buf : sig \in Rows /\ sig \notin Rows' => sig \in delivered']_storeVars
=============================================================================
