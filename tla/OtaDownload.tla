----------------------------- MODULE OtaDownload -----------------------------
(***************************************************************************)
(* download_and_install() of coredy_ota.c: redirects are followed by hand, *)
(* and the body is read in chunks of whatever size arrives, the first      *)
(* firmware_len bytes going to flash and to the hash, the rest being held  *)
(* back as the signature.  CoredyOta knows this as DownloadBegin,          *)
(* DownloadFails, Verified and Stage.                                      *)
(*                                                                         *)
(* A byte is its position in the body.  The server is external: it         *)
(* redirects, announces a length, and ends the body where it likes.        *)
(***************************************************************************)
EXTENDS Integers, Sequences

CONSTANTS
  SIGNATURE_SIZE, BUF_SIZE, MAX_REDIRECTS,  \* COREDY_OTA_...
  Genuine,    \* length of the release as make_release.sh wrote it
  MaxBody     \* bound: the longest body, and the longest announced

ASSUME SizesAreNat ==
  /\ SIGNATURE_SIZE \in Nat \ {0} /\ BUF_SIZE \in Nat \ {0} /\ MAX_REDIRECTS \in Nat
  /\ Genuine \in Nat /\ MaxBody \in Nat /\ Genuine > SIGNATURE_SIZE /\ Genuine <= MaxBody

VARIABLES
  pc, hop,
  content_len, firmware_len,
  flash,      \* what esp_ota_write was given and the hash has seen (total_read bytes)
  sig,        \* the signature held back (sig_len bytes)
  sha_started, buf, update_handle,  \* what the function believes it holds
  body,       \* [len, tampered]: what the server sends
  got,        \* bytes of it read so far
  live,       \* resources really held
  misuse,     \* something was released that was not held
  staged      \* the slot is selected for the next boot

held == <<sha_started, buf, update_handle>>
data == <<content_len, firmware_len, flash, sig, body, got>>
vars == <<pc, hop, data, held, live, misuse, staged>>

Init ==
  /\ pc = "idle" /\ hop = 0
  /\ content_len = 0 /\ firmware_len = 0
  /\ flash = <<>> /\ sig = <<>>
  /\ sha_started = FALSE /\ buf = FALSE /\ update_handle = FALSE
  /\ body = [len |-> 0, tampered |-> FALSE] /\ got = 0
  /\ live = {} /\ misuse = FALSE /\ staged = FALSE

Goto(from, to) == pc = from /\ pc' = to
-----------------------------------------------------------------------------
(* http_client_create(); without a client the function returns at once. *)
Create ==
  /\ Goto("idle", "open")
  /\ hop' = 0 /\ live' = live \cup {"client"}
  /\ firmware_len' = 0 /\ flash' = <<>> /\ sig' = <<>> /\ got' = 0
  /\ UNCHANGED <<content_len, body, held, misuse, staged>>

(* open_following_redirects(): the connection, one more time; ... *)
Open ==
  /\ Goto("open", "opened") /\ hop < MAX_REDIRECTS
  /\ UNCHANGED <<hop, data, held, live, misuse, staged>>

(* Mutant: the hops are not counted. *)
RedirectUncounted ==
  /\ Goto("opened", "open")
  /\ UNCHANGED <<hop, data, held, live, misuse, staged>>

(* ... a redirect, ... *)
Redirect ==
  /\ Goto("opened", "open")
  /\ hop' = hop + 1
  /\ UNCHANGED <<data, held, live, misuse, staged>>

(* ... an answer with its announced length, -1 when there is none, ... *)
Answer(announced, len, tampered) ==
  /\ Goto("opened", "headers")
  /\ content_len' = announced /\ body' = [len |-> len, tampered |-> tampered]
  /\ UNCHANGED <<hop, firmware_len, flash, sig, got, held, live, misuse, staged>>

(* ... or one redirect too many, no connection, a status other than 200. *)
NoAnswer ==
  /\ pc \in {"open", "opened"} /\ pc' = "cleanup"
  /\ UNCHANGED <<hop, data, held, live, misuse, staged>>

Headers ==
  /\ pc = "headers"
  /\ IF content_len <= SIGNATURE_SIZE
     THEN pc' = "cleanup" /\ UNCHANGED firmware_len
     ELSE pc' = "begin" /\ firmware_len' = content_len - SIGNATURE_SIZE
  /\ UNCHANGED <<hop, content_len, flash, sig, body, got, held, live, misuse, staged>>

(* A partition to write to and esp_ota_begin(), then the hash. *)
Begin ==
  /\ Goto("begin", "alloc")
  /\ update_handle' = TRUE /\ sha_started' = TRUE
  /\ live' = live \cup {"update", "sha"}
  /\ UNCHANGED <<hop, data, buf, misuse, staged>>

Alloc ==
  /\ Goto("alloc", "read")
  /\ buf' = TRUE /\ live' = live \cup {"buf"}
  /\ UNCHANGED <<hop, data, sha_started, update_handle, misuse, staged>>

(* No partition, esp_ota_begin() or malloc() fails; a read or a write does. *)
Fails ==
  /\ pc \in {"begin", "alloc", "read"} /\ pc' = "cleanup"
  /\ UNCHANGED <<hop, data, held, live, misuse, staged>>

(* The k bytes of the body that follow the first `from`. *)
Bytes(from, k) == [i \in 1..k |-> from + i]

(* Mutants: a chunk is firmware or signature, never both; and a full signature
   buffer counts as overrun. *)
FirmwarePartWhole(n) == IF Len(flash) + n > firmware_len THEN 0 ELSE n
TailFitsBelow(n) ==
  Len(sig) + (IF Len(flash) + n > firmware_len THEN Len(flash) + n - firmware_len ELSE 0)
    < SIGNATURE_SIZE

(* How much of a chunk of n bytes is firmware.  The code's unsigned          *)
(* difference does not wrap: total_read never exceeds firmware_len.         *)
FirmwarePart(n) ==
  IF Len(flash) + n > firmware_len THEN firmware_len - Len(flash) ELSE n

TailFits(n) == Len(sig) + (n - FirmwarePart(n)) <= SIGNATURE_SIZE

ReadChunk(n) ==
  /\ pc = "read" /\ n <= body.len - got
  /\ IF TailFits(n)
     THEN /\ flash' = flash \o Bytes(got, FirmwarePart(n))
          /\ sig' = sig \o Bytes(got + FirmwarePart(n), n - FirmwarePart(n))
          /\ pc' = "read"
     ELSE pc' = "cleanup" /\ UNCHANGED <<flash, sig>>
  /\ got' = got + n
  /\ UNCHANGED <<hop, content_len, firmware_len, body, held, live, misuse, staged>>

ReadEnd ==
  /\ Goto("read", "check") /\ got = body.len
  /\ UNCHANGED <<hop, data, held, live, misuse, staged>>

Complete == Len(flash) = firmware_len /\ Len(sig) = SIGNATURE_SIZE

(* verify_signature(): the hash and the signature are those of the release. *)
Verifies ==
  /\ ~body.tampered
  /\ flash = Bytes(0, Genuine - SIGNATURE_SIZE)
  /\ sig = Bytes(Genuine - SIGNATURE_SIZE, SIGNATURE_SIZE)

(* Mutant: the lengths are taken for proof enough. *)
CheckLengthsOnly ==
  /\ pc = "check"
  /\ IF Complete THEN sha_started' = FALSE /\ live' = live \ {"sha"}
                 ELSE UNCHANGED <<sha_started, live>>
  /\ pc' = IF Complete THEN "end" ELSE "cleanup"
  /\ UNCHANGED <<hop, data, buf, update_handle, misuse, staged>>

Check ==
  /\ pc = "check"
  /\ IF Complete THEN sha_started' = FALSE /\ live' = live \ {"sha"}
                 ELSE UNCHANGED <<sha_started, live>>
  /\ pc' = IF Complete /\ Verifies THEN "end" ELSE "cleanup"
  /\ UNCHANGED <<hop, data, buf, update_handle, misuse, staged>>

(* Mutant: the handle of an esp_ota_end() that failed is kept. *)
EndKeepsHandle ==
  /\ pc = "end"
  /\ live' = live \ {"update"}
  /\ \/ pc' = "stage" /\ update_handle' = FALSE
     \/ pc' = "cleanup" /\ UNCHANGED update_handle
  /\ UNCHANGED <<hop, data, sha_started, buf, misuse, staged>>

(* esp_ota_end() releases the handle whether it succeeds or not. *)
End ==
  /\ pc = "end"
  /\ live' = live \ {"update"} /\ update_handle' = FALSE
  /\ pc' \in {"stage", "cleanup"}
  /\ UNCHANGED <<hop, data, sha_started, buf, misuse, staged>>

(* esp_ota_set_boot_partition() *)
SetBoot ==
  /\ Goto("stage", "cleanup")
  /\ staged' \in {TRUE, FALSE}
  /\ UNCHANGED <<hop, data, held, live, misuse>>

Believed ==
  {"client"} \cup (IF sha_started THEN {"sha"} ELSE {}) \cup (IF buf THEN {"buf"} ELSE {})
             \cup (IF update_handle THEN {"update"} ELSE {})

Cleanup ==
  /\ Goto("cleanup", IF staged THEN "restart" ELSE "idle")
  /\ live' = live \ Believed
  /\ misuse' = (misuse \/ ~(Believed \subseteq live))
  /\ sha_started' = FALSE /\ buf' = FALSE /\ update_handle' = FALSE
  /\ UNCHANGED <<hop, data, staged>>

(* esp_restart(): the new image starts with nothing. *)
Restart ==
  /\ Goto("restart", "idle")
  /\ staged' = FALSE /\ live' = {} /\ misuse' = FALSE
  /\ UNCHANGED <<hop, data, held>>

Step ==
  \/ Open \/ Redirect \/ NoAnswer
  \/ \E a \in -1..MaxBody, n \in 0..MaxBody, t \in BOOLEAN : Answer(a, n, t)
  \/ Headers \/ Begin \/ Alloc \/ Fails
  \/ \E n \in 1..BUF_SIZE : ReadChunk(n)
  \/ ReadEnd \/ Check \/ End \/ SetBoot \/ Cleanup \/ Restart

Next == Create \/ Step

Spec == Init /\ [][Next]_vars

(* The OTA task runs; each call returns, the reads within their timeout. *)
FairSpec == Spec /\ WF_vars(Step)
-----------------------------------------------------------------------------
Resources == {"client", "sha", "buf", "update"}

(* Type invariant. *)
TypeOK ==
  /\ pc \in {"idle", "open", "opened", "headers", "begin", "alloc", "read", "check", "end", "stage",
             "cleanup", "restart"}
  /\ hop \in 0..MAX_REDIRECTS
  /\ content_len \in -1..MaxBody /\ firmware_len \in Nat
  /\ flash \in Seq(Nat) /\ sig \in Seq(Nat)
  /\ sha_started \in BOOLEAN /\ buf \in BOOLEAN /\ update_handle \in BOOLEAN
  /\ body \in [len : 0..MaxBody, tampered : BOOLEAN] /\ got \in 0..MaxBody
  /\ live \subseteq Resources /\ misuse \in BOOLEAN /\ staged \in BOOLEAN

(* "Streams url into the inactive OTA partition, holding back the trailing *)
(* bytes as the signature, hashing everything else" (coredy_ota.c:253):    *)
(* however the body is cut into chunks, and however long it is compared    *)
(* with what was announced, no byte is lost, doubled, reordered or taken   *)
(* for the wrong part, and neither buffer is overrun.                      *)
SplitExact ==
  /\ flash = Bytes(0, Len(flash)) /\ sig = Bytes(firmware_len, Len(sig))
  /\ Len(flash) <= firmware_len /\ Len(sig) <= SIGNATURE_SIZE
  /\ sig # <<>> => Len(flash) = firmware_len

(* The release, announced and delivered whole, passes every test of the    *)
(* function, whatever chunks it comes in: no chunk overflows the signature *)
(* buffer, and at the end lengths, hash and signature are right.           *)
IntactIsAccepted ==
  content_len = Genuine /\ body = [len |-> Genuine, tampered |-> FALSE] =>
    /\ pc = "read" => \A n \in 1..BUF_SIZE : n <= body.len - got => TailFits(n)
    /\ pc = "check" => Complete /\ Verifies

(* "An unsigned or corrupted image is refused outright" (coredy_ota.h:10): *)
(* a slot that is selected for the next boot holds the release's firmware, *)
(* all of it, and the update was ended.                                    *)
StagedIsGenuine ==
  staged => /\ ~body.tampered /\ flash = Bytes(0, Genuine - SIGNATURE_SIZE)
            /\ "update" \notin live

(* Whichever of its calls fails, an attempt gives back what it holds, and  *)
(* nothing twice: it is repeated every thirty seconds.                     *)
NothingLeaks == ~misuse /\ (pc = "idle" => live = {})

(* Every attempt ends, whatever the server does: redirects without end     *)
(* included.                                                               *)
AttemptsEnd == pc # "idle" ~> pc = "idle"
=============================================================================
