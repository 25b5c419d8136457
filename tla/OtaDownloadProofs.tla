-------------------------- MODULE OtaDownloadProofs --------------------------
(***************************************************************************)
(* Proofs about OtaDownload, for every size of the file, the signature,    *)
(* the chunks and the announced length, and for every call that may fail.  *)
(***************************************************************************)
EXTENDS OtaDownload, TLAPS, SequenceTheorems

(* Where the bytes read so far have gone, at each place of the function. *)
BeforeBody == {"open", "opened", "headers", "begin", "alloc"}
Sized == {"begin", "alloc", "read", "check"}
SplitInv ==
  /\ pc \in BeforeBody => flash = <<>> /\ sig = <<>> /\ got = 0
  /\ pc \in Sized => firmware_len = content_len - SIGNATURE_SIZE
  /\ pc \in {"read", "check"} => got = Len(flash) + Len(sig) /\ got <= body.len
  /\ pc = "check" => got = body.len
  /\ pc = "opened" => hop < MAX_REDIRECTS

(* Between the attempts nothing is held; within one, what the function     *)
(* believes it holds is what it holds.                                     *)
HeldInv ==
  /\ ~misuse
  /\ live = IF pc \in {"idle", "restart"} THEN {} ELSE Believed
  /\ pc \in {"idle", "restart"} => ~sha_started /\ ~buf /\ ~update_handle

(* The slot has been verified before the update is ended and staged. *)
StagedInv ==
  /\ pc \in {"end", "stage"} \/ staged =>
       ~body.tampered /\ flash = Bytes(0, Genuine - SIGNATURE_SIZE)
  /\ staged => pc \in {"cleanup", "restart"}
  /\ staged \/ pc = "stage" => ~update_handle

IInv == TypeOK /\ SplitExact /\ SplitInv /\ HeldInv /\ StagedInv
-----------------------------------------------------------------------------
(* Consecutive blocks of the body. *)
LEMMA BytesIsSeq ==
  \A a, k \in Nat : Bytes(a, k) \in Seq(Nat) /\ Len(Bytes(a, k)) = k
<1> TAKE a, k \in Nat
<1>1. \A i \in 1..k : a + i \in Nat
  OBVIOUS
<1> QED
  BY <1>1, SMT DEF Bytes

LEMMA BytesAppend ==
  ASSUME NEW a \in Nat, NEW k \in Nat, NEW n \in Nat
  PROVE  Bytes(a, k) \o Bytes(a + k, n) = Bytes(a, k + n)
<1> DEFINE s == Bytes(a, k)
           t == Bytes(a + k, n)
           u == Bytes(a, k + n)
<1>0. a + k \in Nat /\ k + n \in Nat
  OBVIOUS
<1>1. /\ s \in Seq(Nat) /\ Len(s) = k
      /\ t \in Seq(Nat) /\ Len(t) = n
      /\ u \in Seq(Nat) /\ Len(u) = k + n
  BY <1>0, BytesIsSeq, Zenon
<1>2. \A i \in 1..k : s[i] = a + i
  BY DEF Bytes
<1>3. \A i \in 1..n : t[i] = (a + k) + i
  BY DEF Bytes
<1>4. \A i \in 1..(k + n) : u[i] = a + i
  BY DEF Bytes
<1> HIDE DEF s, t, u
<1>5. s \o t \in Seq(Nat) /\ Len(s \o t) = k + n
  BY <1>1, ConcatProperties
<1>6. \A i \in 1..(k + n) : (s \o t)[i] = u[i]
  <2> TAKE i \in 1..(k + n)
  <2>1. (s \o t)[i] = IF i <= k THEN s[i] ELSE t[i - k]
    BY <1>1, ConcatProperties
  <2>2. CASE i <= k
    BY <2>1, <2>2, <1>2, <1>4
  <2>3. CASE i > k
    <3>1. i - k \in 1..n /\ (a + k) + (i - k) = a + i
      BY <2>3
    <3> QED
      BY <2>1, <2>3, <3>1, <1>3, <1>4
  <2>4. i <= k \/ i > k
    OBVIOUS
  <2> QED
    BY <2>2, <2>3, <2>4, Zenon
<1>7. s \o t = u
  BY <1>1, <1>5, <1>6, SeqEqual
<1> QED
  BY <1>7 DEF s, t, u

LEMMA NoBytes == \A a \in Nat : Bytes(a, 0) = <<>>
BY DEF Bytes

(* What a chunk does to flash and signature, with the code's arithmetic. *)
LEMMA ChunkSplit ==
  ASSUME NEW n \in 1..BUF_SIZE, TypeOK, SplitExact, TailFits(n),
         got = Len(flash) + Len(sig)
  PROVE  LET k == FirmwarePart(n) IN
         /\ k \in Nat /\ n - k \in Nat
         /\ Len(flash) + k <= firmware_len /\ Len(sig) + (n - k) <= SIGNATURE_SIZE
         /\ k > 0 => Len(sig) = 0
         /\ n - k > 0 => Len(flash) + k = firmware_len
<1> DEFINE f == Len(flash)
           g == Len(sig)
<1>1. f \in Nat /\ g \in Nat /\ firmware_len \in Nat /\ n \in Nat /\ n >= 1
  BY SizesAreNat DEF TypeOK
<1>2. f <= firmware_len /\ (g > 0 => f = firmware_len)
  BY <1>1 DEF SplitExact, TypeOK
<1>3. FirmwarePart(n) = IF f + n > firmware_len THEN firmware_len - f ELSE n
  BY DEF FirmwarePart
<1>4. g + (n - FirmwarePart(n)) <= SIGNATURE_SIZE
  BY DEF TailFits
<1> HIDE DEF f, g
<1>5. CASE f + n > firmware_len
  <2>1. FirmwarePart(n) = firmware_len - f
    BY <1>3, <1>5
  <2>2. n - (firmware_len - f) \in Nat /\ firmware_len - f \in Nat
    BY <1>1, <1>2, <1>5
  <2> QED
    BY <1>1, <1>2, <1>4, <2>1, <2>2 DEF f, g
<1>6. CASE ~(f + n > firmware_len)
  <2>1. FirmwarePart(n) = n
    BY <1>3, <1>6
  <2> QED
    BY <1>1, <1>2, <1>4, <1>6, <2>1 DEF f, g
<1> QED
  BY <1>5, <1>6
-----------------------------------------------------------------------------
LEMMA InitIInv == Init => IInv
<1> SUFFICES ASSUME Init PROVE IInv
  OBVIOUS
<1>1. TypeOK
  <2>1. 0 \in 0..MAX_REDIRECTS /\ 0 \in 0..MaxBody /\ 0 \in -1..MaxBody
    BY SizesAreNat
  <2>2. body \in [len : 0..MaxBody, tampered : BOOLEAN]
    BY <2>1 DEF Init
  <2>3. <<>> \in Seq(Nat)
    OBVIOUS
  <2> QED
    BY <2>1, <2>2, <2>3 DEF Init, TypeOK, Resources
<1>2. SplitExact
  <2>1. Bytes(0, 0) = <<>>
    BY NoBytes
  <2> QED
    BY <2>1, SizesAreNat DEF Init, SplitExact
<1> QED
  BY <1>1, <1>2 DEF Init, IInv, SplitInv, BeforeBody, Sized, HeldInv, StagedInv

(* The chunk is the only step that moves bytes. *)
LEMMA ChunkKeeps ==
  ASSUME IInv, NEW n \in 1..BUF_SIZE, ReadChunk(n)
  PROVE  TypeOK' /\ SplitExact' /\ SplitInv'
<1> DEFINE k == FirmwarePart(n)
           f == Len(flash)
           g == Len(sig)
<1>1. TypeOK /\ SplitExact /\ SplitInv
  BY DEF IInv
<1>2. /\ pc = "read" /\ n <= body.len - got
      /\ got' = got + n
      /\ UNCHANGED <<hop, content_len, firmware_len, body, held, live, misuse, staged>>
  BY DEF ReadChunk
<1>3. /\ flash \in Seq(Nat) /\ sig \in Seq(Nat) /\ f \in Nat /\ g \in Nat /\ got \in Nat
      /\ n \in Nat /\ firmware_len \in Nat /\ body.len \in Nat /\ body.len <= MaxBody
  BY <1>1, SizesAreNat DEF TypeOK
<1>4. got = f + g /\ firmware_len = content_len - SIGNATURE_SIZE
  BY <1>1, <1>2 DEF SplitInv, Sized
<1>5. flash = Bytes(0, f) /\ sig = Bytes(firmware_len, g) /\ (g > 0 => f = firmware_len)
  BY <1>1, <1>3 DEF SplitExact
<1>6. got' \in 0..MaxBody /\ got' <= body.len
  BY <1>2, <1>3, SizesAreNat
<1>7. CASE ~TailFits(n)
  <2>1. pc' = "cleanup" /\ UNCHANGED <<flash, sig>>
    BY <1>7 DEF ReadChunk
  <2>2. TypeOK'
    BY <1>1, <1>2, <1>6, <2>1 DEF TypeOK, held
  <2>3. SplitExact'
    BY <1>1, <1>2, <2>1 DEF SplitExact, Bytes
  <2> QED
    BY <2>1, <2>2, <2>3 DEF SplitInv, BeforeBody, Sized
<1>8. CASE TailFits(n)
  <2>1. pc' = "read" /\ flash' = flash \o Bytes(got, k) /\ sig' = sig \o Bytes(got + k, n - k)
    BY <1>8 DEF ReadChunk
  <2>2. /\ k \in Nat /\ n - k \in Nat
        /\ f + k <= firmware_len /\ g + (n - k) <= SIGNATURE_SIZE
        /\ k > 0 => g = 0
        /\ n - k > 0 => f + k = firmware_len
    BY <1>1, <1>4, <1>8, ChunkSplit
  <2> HIDE DEF k, f, g
  <2>3. flash' = Bytes(0, f + k)
    <3>1. CASE k = 0
      <4>1. Bytes(got, k) = <<>> /\ f + k = f
        BY <3>1, <1>3, NoBytes
      <4> QED
        BY <4>1, <2>1, <1>3, <1>5, ConcatEmptySeq
    <3>2. CASE k > 0
      <4>1. got = 0 + f
        BY <3>2, <2>2, <1>3, <1>4
      <4>2. Bytes(0, f) \o Bytes(0 + f, k) = Bytes(0, f + k)
        BY <1>3, <2>2, BytesAppend
      <4> QED
        BY <4>1, <4>2, <2>1, <1>5, Zenon
    <3> QED
      BY <3>1, <3>2, <2>2
  <2>4. sig' = Bytes(firmware_len, g + (n - k))
    <3>1. CASE n - k = 0
      <4>1. got + k \in Nat
        BY <1>3, <2>2
      <4>2. Bytes(got + k, n - k) = <<>> /\ g + (n - k) = g
        BY <3>1, <4>1, <1>3, NoBytes
      <4> QED
        BY <4>2, <2>1, <1>3, <1>5, ConcatEmptySeq
    <3>2. CASE n - k > 0
      <4>1. got + k = firmware_len + g
        BY <3>2, <2>2, <1>3, <1>4
      <4>2. Bytes(firmware_len, g) \o Bytes(firmware_len + g, n - k) = Bytes(firmware_len, g + (n - k))
        BY <1>3, <2>2, BytesAppend
      <4> QED
        BY <4>1, <4>2, <2>1, <1>5, Zenon
    <3> QED
      BY <3>1, <3>2, <2>2
  <2>5. PICK a \in Nat, b \in Nat, l \in Nat :
          a = f + k /\ b = g + (n - k) /\ l = firmware_len
    BY <1>3, <2>2
  <2>6. flash' = Bytes(0, a) /\ sig' = Bytes(l, b) /\ firmware_len' = l
    BY <1>2, <2>3, <2>4, <2>5, Zenon
  <2>7. /\ flash' \in Seq(Nat) /\ Len(flash') = a
        /\ sig' \in Seq(Nat) /\ Len(sig') = b
    BY <2>5, <2>6, BytesIsSeq, Zenon
  <2>8. TypeOK'
    BY <1>1, <1>2, <1>6, <2>1, <2>7 DEF TypeOK, held
  <2>9. b > 0 => a = l
    BY <2>2, <2>5, <1>3, <1>5
  <2>10. a <= l /\ b <= SIGNATURE_SIZE
    BY <2>2, <2>5
  <2>11. sig' # <<>> => b > 0
    <3>1. b = 0 => Bytes(l, b) = <<>>
      BY <2>5, NoBytes
    <3> QED
      BY <3>1, <2>5, <2>6
  <2>12. SplitExact'
    BY <2>6, <2>7, <2>9, <2>10, <2>11 DEF SplitExact, Bytes
  <2>13. got' = a + b
    BY <1>2, <1>3, <1>4, <2>2, <2>5
  <2>14. SplitInv'
    BY <1>2, <1>4, <1>6, <2>1, <2>7, <2>13 DEF SplitInv, BeforeBody, Sized
  <2> QED
    BY <2>8, <2>12, <2>14
<1> QED
  BY <1>7, <1>8

(* The steps before and after the body leave the bytes where they are. *)
LEMMA QuietKeeps ==
  ASSUME SplitExact, UNCHANGED <<firmware_len, flash, sig>>
  PROVE  SplitExact'
BY DEF SplitExact, Bytes

LEMMA TypeKept ==
  ASSUME IInv, Step \/ Create, \A n \in 1..BUF_SIZE : ~ReadChunk(n)
  PROVE  TypeOK'
<1>1. TypeOK /\ SplitInv
  BY DEF IInv
<1>2. <<>> \in Seq(Nat) /\ 0 \in 0..MAX_REDIRECTS /\ 0 \in 0..MaxBody
  BY SizesAreNat
<1>3. CASE Create
  BY <1>1, <1>2, <1>3 DEF Create, Goto, TypeOK, held, Resources
<1>4. CASE Redirect
  <2>1. hop < MAX_REDIRECTS
    BY <1>1, <1>4 DEF Redirect, Goto, SplitInv
  <2>2. hop' \in 0..MAX_REDIRECTS
    BY <1>1, <1>4, <2>1, SizesAreNat DEF Redirect, TypeOK
  <2> QED
    BY <1>1, <1>4, <2>2 DEF Redirect, Goto, TypeOK, data, held
<1>5. CASE \E a \in -1..MaxBody, n \in 0..MaxBody, t \in BOOLEAN : Answer(a, n, t)
  BY <1>1, <1>5 DEF Answer, Goto, TypeOK, held
<1>6. CASE Headers
  <2>1. firmware_len' \in Nat
    BY <1>1, <1>6, SizesAreNat DEF Headers, TypeOK
  <2>2. pc' \in {"cleanup", "begin"}
    BY <1>6 DEF Headers
  <2> QED
    BY <1>1, <1>6, <2>1, <2>2 DEF Headers, TypeOK, held
<1>7. CASE Open \/ NoAnswer \/ Fails \/ ReadEnd
  BY <1>1, <1>7 DEF Open, NoAnswer, Fails, ReadEnd, Goto, TypeOK, data, held
<1>8. CASE Begin \/ Alloc
  BY <1>1, <1>8 DEF Begin, Alloc, Goto, TypeOK, data, Resources
<1>9. CASE Check
  BY <1>1, <1>9 DEF Check, TypeOK, data
<1>10. CASE End \/ SetBoot
  BY <1>1, <1>10 DEF End, SetBoot, Goto, TypeOK, data, held
<1>11. CASE Cleanup \/ Restart
  BY <1>1, <1>11 DEF Cleanup, Restart, Goto, TypeOK, data, held
<1> QED
  BY <1>3, <1>4, <1>5, <1>6, <1>7, <1>8, <1>9, <1>10, <1>11 DEF Step

LEMMA SplitKept ==
  ASSUME IInv, Step \/ Create, \A n \in 1..BUF_SIZE : ~ReadChunk(n)
  PROVE  SplitExact' /\ SplitInv'
<1>1. SplitExact /\ SplitInv /\ TypeOK
  BY DEF IInv
<1> USE DEF BeforeBody, Sized
<1>2. CASE Create
  <2>1. Bytes(0, 0) = <<>>
    BY NoBytes
  <2>2. SplitExact'
    BY <1>2, <2>1, SizesAreNat DEF Create, SplitExact, Bytes
  <2> QED
    BY <1>2, <2>2 DEF Create, Goto, SplitInv
<1>3. CASE Headers
  <2>1. flash = <<>> /\ sig = <<>> /\ got = 0
    BY <1>1, <1>3 DEF Headers, SplitInv
  <2>2. firmware_len' \in Nat
    BY <1>1, <1>3, SizesAreNat DEF Headers, TypeOK
  <2>3. Bytes(firmware_len', 0) = <<>> /\ Bytes(0, 0) = <<>>
    BY <2>2, NoBytes
  <2>4. flash' = <<>> /\ sig' = <<>> /\ got' = 0
    BY <2>1, <1>3 DEF Headers
  <2>5. SplitExact'
    BY <2>2, <2>3, <2>4, SizesAreNat DEF SplitExact, Bytes
  <2> QED
    BY <1>3, <2>4, <2>5 DEF Headers, SplitInv
<1>4. CASE Open \/ Redirect \/ NoAnswer \/ Fails \/ Begin \/ Check \/ End \/ SetBoot
           \/ Cleanup \/ Restart
  <2>1. UNCHANGED data
    BY <1>4 DEF Open, Redirect, NoAnswer, Fails, Begin, Check, End, SetBoot, Cleanup, Restart
  <2>2. SplitExact'
    BY <1>1, <2>1, QuietKeeps DEF data
  <2>3. SplitInv'
    BY <1>1, <1>4, <2>1 DEF SplitInv, data, Goto, Open, Redirect, NoAnswer, Fails, Begin, Check,
       End, SetBoot, Cleanup, Restart
  <2> QED
    BY <2>2, <2>3
<1>5. CASE \E a \in -1..MaxBody, n \in 0..MaxBody, t \in BOOLEAN : Answer(a, n, t)
  <2>1. UNCHANGED <<firmware_len, flash, sig, got>> /\ pc = "opened" /\ pc' = "headers"
    BY <1>5 DEF Answer, Goto
  <2>2. SplitExact'
    BY <1>1, <2>1, QuietKeeps
  <2> QED
    BY <1>1, <2>1, <2>2 DEF SplitInv
<1>6. CASE Alloc
  <2>1. UNCHANGED data /\ pc = "alloc" /\ pc' = "read"
    BY <1>6 DEF Alloc, Goto
  <2>2. SplitExact'
    BY <1>1, <2>1, QuietKeeps DEF data
  <2>3. got = 0 /\ flash = <<>> /\ sig = <<>> /\ body.len \in Nat
    BY <1>1, <2>1, SizesAreNat DEF SplitInv, TypeOK
  <2>4. got = Len(flash) + Len(sig) /\ got <= body.len
    BY <2>3
  <2> QED
    BY <1>1, <2>1, <2>2, <2>4 DEF SplitInv, data
<1>7. CASE ReadEnd
  <2>1. UNCHANGED data /\ pc = "read" /\ pc' = "check" /\ got = body.len
    BY <1>7 DEF ReadEnd, Goto
  <2>2. SplitExact'
    BY <1>1, <2>1, QuietKeeps DEF data
  <2> QED
    BY <1>1, <2>1, <2>2 DEF SplitInv, data
<1> QED
  BY <1>2, <1>3, <1>4, <1>5, <1>6, <1>7 DEF Step

LEMMA HeldKept ==
  ASSUME IInv, Step \/ Create
  PROVE  HeldInv'
<1>1. HeldInv /\ pc \in {"idle", "open", "opened", "headers", "begin", "alloc", "read", "check", "end",
                       "stage", "cleanup", "restart"}
  BY DEF IInv, TypeOK
<1>2. CASE Create
  BY <1>1, <1>2 DEF Create, Goto, HeldInv, Believed, held
<1>3. CASE UNCHANGED <<held, live, misuse>> /\ pc \notin {"idle", "restart"}
           /\ pc' \notin {"idle", "restart"}
  BY <1>1, <1>3 DEF HeldInv, Believed, held
<1>4. CASE Open \/ Redirect \/ NoAnswer \/ Headers \/ Fails \/ ReadEnd \/ SetBoot
  BY <1>3, <1>4 DEF Open, Redirect, NoAnswer, Headers, Fails, ReadEnd, SetBoot, Goto
<1>5. CASE \E a \in -1..MaxBody, n \in 0..MaxBody, t \in BOOLEAN : Answer(a, n, t)
  BY <1>3, <1>5 DEF Answer, Goto
<1>6. CASE \E n \in 1..BUF_SIZE : ReadChunk(n)
  BY <1>3, <1>6 DEF ReadChunk
<1>7. CASE Begin
  BY <1>1, <1>7 DEF Begin, Goto, HeldInv, Believed
<1>8. CASE Alloc
  BY <1>1, <1>8 DEF Alloc, Goto, HeldInv, Believed
<1>9. CASE Check
  <2>1. pc = "check" /\ pc' \in {"end", "cleanup"} /\ UNCHANGED <<buf, update_handle, misuse>>
    BY <1>9 DEF Check
  <2>2. \/ sha_started' = FALSE /\ live' = live \ {"sha"}
        \/ UNCHANGED <<sha_started, live>>
    BY <1>9 DEF Check
  <2> QED
    BY <1>1, <2>1, <2>2 DEF HeldInv, Believed
<1>10. CASE End
  BY <1>1, <1>10 DEF End, HeldInv, Believed
<1>11. CASE Cleanup
  <2>1. pc = "cleanup" /\ live = Believed
    BY <1>1, <1>11 DEF Cleanup, Goto, HeldInv
  <2>2. live' = live \ Believed /\ (misuse' <=> misuse \/ ~(Believed \subseteq live))
    BY <1>11, Zenon DEF Cleanup
  <2>3. live' = {} /\ ~misuse'
    BY <1>1, <2>1, <2>2, Zenon DEF HeldInv
  <2>4. pc' \in {"idle", "restart"} /\ ~sha_started' /\ ~buf' /\ ~update_handle'
    BY <1>11 DEF Cleanup, Goto
  <2> QED
    BY <2>3, <2>4 DEF HeldInv
<1>12. CASE Restart
  BY <1>1, <1>12 DEF Restart, Goto, HeldInv, held
<1> QED
  BY <1>2, <1>4, <1>5, <1>6, <1>7, <1>8, <1>9, <1>10, <1>11, <1>12 DEF Step

LEMMA StagedKept ==
  ASSUME IInv, Step \/ Create
  PROVE  StagedInv'
<1>1. StagedInv /\ TypeOK
  BY DEF IInv
<1>2. CASE pc' \notin {"end", "stage"} /\ pc \notin {"cleanup", "restart"} /\ UNCHANGED staged
  BY <1>1, <1>2 DEF StagedInv
<1>3. CASE Create \/ Open \/ Redirect \/ NoAnswer \/ Headers \/ Begin \/ Alloc \/ Fails \/ ReadEnd
  BY <1>2, <1>3 DEF Create, Open, Redirect, NoAnswer, Headers, Begin, Alloc, Fails, ReadEnd, Goto
<1>4. CASE \E a \in -1..MaxBody, n \in 0..MaxBody, t \in BOOLEAN : Answer(a, n, t)
  BY <1>2, <1>4 DEF Answer, Goto
<1>5. CASE \E n \in 1..BUF_SIZE : ReadChunk(n)
  BY <1>2, <1>5 DEF ReadChunk
<1>6. CASE Check
  <2>1. pc = "check" /\ UNCHANGED <<data, staged>> /\ pc' \in {"end", "cleanup"}
        /\ (pc' = "end" => Verifies)
    BY <1>6 DEF Check
  <2>2. ~staged
    BY <1>1, <2>1 DEF StagedInv
  <2>3. pc' = "end" => ~body'.tampered /\ flash' = Bytes(0, Genuine - SIGNATURE_SIZE)
    BY <2>1 DEF Verifies, data
  <2> QED
    BY <2>1, <2>2, <2>3 DEF StagedInv, Bytes
<1>7. CASE End
  <2>1. pc = "end" /\ UNCHANGED <<data, staged>> /\ ~update_handle' /\ pc' \in {"stage", "cleanup"}
    BY <1>7 DEF End
  <2>2. ~body.tampered /\ flash = Bytes(0, Genuine - SIGNATURE_SIZE) /\ ~staged
    BY <1>1, <2>1 DEF StagedInv
  <2> QED
    BY <2>1, <2>2 DEF StagedInv, data, Bytes
<1>8. CASE SetBoot
  <2>1. pc = "stage" /\ UNCHANGED <<data, held>> /\ pc' = "cleanup"
    BY <1>8 DEF SetBoot, Goto
  <2>2. ~body.tampered /\ flash = Bytes(0, Genuine - SIGNATURE_SIZE) /\ ~update_handle
    BY <1>1, <2>1 DEF StagedInv
  <2> QED
    BY <2>1, <2>2 DEF StagedInv, data, held, Bytes
<1>9. CASE Cleanup
  <2>1. UNCHANGED <<data, staged>> /\ ~update_handle' /\ pc' = IF staged THEN "restart" ELSE "idle"
    BY <1>9 DEF Cleanup, Goto
  <2>2. staged => ~body.tampered /\ flash = Bytes(0, Genuine - SIGNATURE_SIZE)
    BY <1>1 DEF StagedInv
  <2> QED
    BY <2>1, <2>2 DEF StagedInv, data, Bytes
<1>10. CASE Restart
  BY <1>10 DEF Restart, Goto, StagedInv
<1> QED
  BY <1>3, <1>4, <1>5, <1>6, <1>7, <1>8, <1>9, <1>10 DEF Step

LEMMA Invariance == Spec => []IInv
<1>1. IInv /\ [Next]_vars => IInv'
  <2> SUFFICES ASSUME IInv, [Next]_vars PROVE IInv'
    OBVIOUS
  <2>1. CASE UNCHANGED vars
    <3>1. TypeOK'
      BY <2>1 DEF vars, data, held, IInv, TypeOK
    <3>2. SplitExact' /\ SplitInv'
      BY <2>1, QuietKeeps DEF vars, data, IInv, SplitInv
    <3>3. HeldInv'
      BY <2>1 DEF vars, held, IInv, HeldInv, Believed
    <3>4. StagedInv'
      BY <2>1 DEF vars, data, held, IInv, StagedInv, Bytes
    <3> QED
      BY <3>1, <3>2, <3>3, <3>4 DEF IInv
  <2>2. CASE \E n \in 1..BUF_SIZE : ReadChunk(n)
    <3>1. Step
      BY <2>2 DEF Step
    <3>2. TypeOK' /\ SplitExact' /\ SplitInv'
      BY <2>2, ChunkKeeps
    <3> QED
      BY <3>1, <3>2, HeldKept, StagedKept DEF IInv
  <2>3. CASE (Step \/ Create) /\ \A n \in 1..BUF_SIZE : ~ReadChunk(n)
    BY <2>3, TypeKept, SplitKept, HeldKept, StagedKept DEF IInv
  <2> QED
    BY <2>1, <2>2, <2>3 DEF Next
<1> QED
  BY <1>1, InitIInv, PTL DEF Spec
-----------------------------------------------------------------------------
(* Every variable keeps its type, the redirect count and the lengths their *)
(* bounds: no unsigned difference of download_and_install wraps.           *)
THEOREM TypeCorrect == Spec => []TypeOK
BY Invariance, PTL DEF IInv

(* However the body comes in chunks, flash gets its first firmware_len     *)
(* bytes and the signature the ones after them, in order (SplitExact).     *)
THEOREM Split == Spec => []SplitExact
BY Invariance, PTL DEF IInv

(* An attempt gives back everything it holds, once (NothingLeaks).         *)
THEOREM NoLeak == Spec => []NothingLeaks
<1>1. IInv => NothingLeaks
  BY DEF IInv, HeldInv, NothingLeaks
<1> QED
  BY <1>1, Invariance, PTL

(* Only the whole, verified firmware is ever staged (StagedIsGenuine).     *)
THEOREM OnlyGenuine == Spec => []StagedIsGenuine
<1>1. IInv => StagedIsGenuine
  <2> SUFFICES ASSUME IInv, staged PROVE StagedIsGenuine
    BY DEF StagedIsGenuine
  <2>1. ~body.tampered /\ flash = Bytes(0, Genuine - SIGNATURE_SIZE) /\ ~update_handle
    BY DEF IInv, StagedInv
  <2>2. "update" \notin live
    BY <2>1 DEF IInv, HeldInv, Believed
  <2> QED
    BY <2>1, <2>2 DEF StagedIsGenuine
<1> QED
  BY <1>1, Invariance, PTL

(* The release, announced and delivered whole, passes (IntactIsAccepted).  *)
THEOREM IntactPasses == Spec => []IntactIsAccepted
<1>1. IInv => IntactIsAccepted
  <2> SUFFICES ASSUME IInv, content_len = Genuine, body = [len |-> Genuine, tampered |-> FALSE]
               PROVE  /\ pc = "read" => \A n \in 1..BUF_SIZE : n <= body.len - got => TailFits(n)
                      /\ pc = "check" => Complete /\ Verifies
    BY DEF IntactIsAccepted
  <2> DEFINE f == Len(flash)
             g == Len(sig)
  <2>1. /\ f \in Nat /\ g \in Nat /\ f <= firmware_len /\ g <= SIGNATURE_SIZE
        /\ flash = Bytes(0, f) /\ sig = Bytes(firmware_len, g)
    BY DEF IInv, SplitExact, TypeOK
  <2>2. pc \in {"read", "check"} => got = f + g /\ firmware_len = Genuine - SIGNATURE_SIZE
    BY DEF IInv, SplitInv, Sized
  <2>3. body.len = Genuine /\ ~body.tampered
    OBVIOUS
  <2>4. ASSUME pc = "read", NEW n \in 1..BUF_SIZE, n <= body.len - got
        PROVE  TailFits(n)
    <3>1. FirmwarePart(n) = IF f + n > firmware_len THEN firmware_len - f ELSE n
      BY DEF FirmwarePart
    <3> HIDE DEF f, g
    <3>2. n \in Nat /\ n <= Genuine - (f + g) /\ firmware_len = Genuine - SIGNATURE_SIZE
      BY <2>2, <2>3, <2>4, SizesAreNat
    <3>3. g + (n - FirmwarePart(n)) <= SIGNATURE_SIZE
      BY <2>1, <3>1, <3>2, SizesAreNat
    <3> QED
      BY <3>3 DEF TailFits, g
  <2>5. ASSUME pc = "check" PROVE Complete /\ Verifies
    <3>1. got = Genuine
      BY <2>3, <2>5 DEF IInv, SplitInv
    <3>2. f = firmware_len /\ g = SIGNATURE_SIZE /\ firmware_len = Genuine - SIGNATURE_SIZE
      <4> HIDE DEF f, g
      <4> QED
        BY <2>1, <2>2, <2>5, <3>1, SizesAreNat
    <3> QED
      BY <2>1, <2>3, <3>2 DEF Complete, Verifies
  <2> QED
    BY <2>4, <2>5
<1> QED
  BY <1>1, Invariance, PTL
=============================================================================
