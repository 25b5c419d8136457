---------------------------- MODULE CoredyOtaProofs ----------------------------
(***************************************************************************)
(* For any set of builds, good or bad in whatever way, any versions, any   *)
(* interval and deadline, and however often power fails: the device always *)
(* keeps an image that can update.  Recoverable alone is not inductive: an *)
(* erase is only safe because the slot that runs is itself trusted, which  *)
(* RunInv says of every step between the bootloader and the erase.         *)
(***************************************************************************)
EXTENDS CoredyOta, TLAPS

RunInv ==
  pc # "off" =>
    /\ flash[run].image # NoImage
    /\ flash[run].state \in {"pending", "valid", "undefined"}
    /\ flash[run].state # "pending" => CanUpdate(run)
    /\ pc \in {"write", "stage"} => flash[run].state # "pending"
    /\ pc # "restart" => boot = run
    /\ pc = "restart" => Trusted(run) /\ flash[Other(run)].state = "new"
    /\ flash[run].state = "pending" => Trusted(Other(run)) /\ CanUpdate(Other(run))

IInv == TypeOK /\ Recoverable /\ RunInv

LEMMA OtherSlot == \A s \in Slots : Other(s) \in Slots /\ Other(s) # s /\ Other(Other(s)) = s
BY DEF Slots, Other

LEMMA TwoSlots == \A s, t \in Slots : t = s \/ t = Other(s)
BY DEF Slots, Other

LEMMA InitInv == Init => IInv
<1> SUFFICES ASSUME Init PROVE IInv
  OBVIOUS
<1>1. TypeOK
  BY FactoryIsAnImage DEF Init, TypeOK, States, Slots
<1>2. Recoverable
  BY FactoryIsAnImage, NoImageIsNone DEF Init, Recoverable, Trusted, CanUpdate, Slots
<1>3. RunInv
  BY DEF Init, RunInv
<1> QED BY <1>1, <1>2, <1>3 DEF IInv

(* A step that leaves the flash and the running slot alone. *)
LEMMA FlashUnchanged ==
  ASSUME IInv, flash' = flash, boot' = boot, run' = run, proven \subseteq proven',
         \/ pc' = pc \/ pc' = "off"
         \/ pc \notin {"off", "restart"} /\ pc' \notin {"off", "write", "stage", "restart"}
  PROVE  Recoverable' /\ RunInv'
<1>1. \A s \in Slots : /\ Trusted(s)' <=> Trusted(s)
                       /\ Selected(s)' <=> Selected(s)
                       /\ CanUpdate(s) => CanUpdate(s)'
  BY DEF Trusted, Selected, Bootable, CanUpdate
<1>2. Recoverable'
  BY <1>1 DEF IInv, Recoverable
<1>3. run \in Slots /\ Other(run) \in Slots
  BY OtherSlot DEF IInv, TypeOK
<1>4. RunInv'
  BY <1>1, <1>3 DEF IInv, RunInv, Other
<1> QED BY <1>2, <1>4

LEMMA TypeStep == IInv /\ [Next]_vars => TypeOK'
<1> SUFFICES ASSUME TypeOK, RunInv, [Next]_vars PROVE TypeOK'
  BY DEF IInv
<1> USE DEF TypeOK, States, flashVars, taskVars, world, history, Goto
<1>1. ASSUME NEW s \in Slots, Boot(s) PROVE TypeOK'
  BY <1>1, FactoryIsAnImage DEF Boot, AfterReset
<1>2. CASE OtaStart
  BY <1>2 DEF OtaStart
<1>3. CASE PowerLoss
  BY <1>3 DEF PowerLoss
<1>4. ASSUME NEW b \in BOOLEAN, Tick(b) PROVE TypeOK'
  BY <1>4, TimesAreNat DEF Tick
<1>5. ASSUME NEW b \in BOOLEAN, Fetch(b) PROVE TypeOK'
  <2>1. Running \in Images
    BY <1>5 DEF Fetch, Running, RunInv
  <2> QED BY <1>5, <2>1 DEF Fetch, MarkValid
<1>6. CASE FetchFails \/ Compare \/ DownloadFails \/ Restart
  BY <1>6 DEF FetchFails, Compare, DownloadFails, Restart
<1>7. CASE DownloadBegin
  BY <1>7, OtherSlot DEF DownloadBegin
<1>8. CASE Verified \/ Stage
  BY <1>8, OtherSlot DEF Verified, Stage
<1>9. ASSUME NEW i \in Images, Publish(i) PROVE TypeOK'
  BY <1>9 DEF Publish
<1>10. CASE UNCHANGED vars
  BY <1>10 DEF vars
<1> QED BY <1>1, <1>2, <1>3, <1>4, <1>5, <1>6, <1>7, <1>8, <1>9, <1>10 DEF Next

LEMMA StepInv == IInv /\ [Next]_vars => IInv'
<1> SUFFICES ASSUME IInv, [Next]_vars PROVE Recoverable' /\ RunInv'
  BY TypeStep DEF IInv
<1> USE DEF Goto
(* What is trusted stays trusted, and what is selected without probation was. *)
<1>1. ASSUME NEW s \in Slots, Boot(s) PROVE Recoverable' /\ RunInv'
  <2>1. \A t \in Slots : /\ flash'[t].image = flash[t].image
                         /\ flash'[t].state = (IF t = s /\ flash[t].state = "new" THEN "pending"
                                               ELSE AfterReset(flash[t].state))
    BY <1>1 DEF Boot
  <2>2. \A t \in Slots : (Trusted(t)' <=> Trusted(t)) /\ (CanUpdate(t)' <=> CanUpdate(t))
    BY <1>1, <2>1 DEF Boot, history, Trusted, CanUpdate, AfterReset
  <2>3. /\ run' = s /\ boot' = s /\ pc' = "starting" /\ flash'[s].image # NoImage
        /\ flash'[s].state \in {"pending", "valid", "undefined"}
    BY <1>1, <2>1, NoImageIsNone DEF Boot, Bootable, AfterReset
  <2>4. flash'[s].state # "pending" => CanUpdate(s)'
    <3>1. Selected(s)
      BY <1>1 DEF Boot, Selected
    <3>2. flash'[s].state # "pending" => Trusted(s)
      BY <2>2, <2>3 DEF Trusted
    <3> QED BY <2>2, <3>1, <3>2 DEF IInv, Recoverable
  <2>5. PICK t \in Slots : Trusted(t)' /\ CanUpdate(t)'
    BY <2>2 DEF IInv, Recoverable
  <2>6. flash'[s].state = "pending" => t = Other(s)
    BY <2>5, TwoSlots DEF Trusted
  <2>7. flash'[s].state # "pending" => Bootable(s)'
    BY <1>1, <2>1, <2>3 DEF Boot, Bootable, AfterReset
  <2>8. Recoverable'
    BY <2>3, <2>4, <2>5, <2>6, <2>7, TwoSlots DEF Recoverable, Trusted, Selected
  <2> QED BY <2>3, <2>4, <2>5, <2>6, <2>8 DEF RunInv, Other
<1>2. CASE OtaStart
  BY <1>2, FlashUnchanged DEF OtaStart, flashVars, history
<1>3. CASE PowerLoss
  BY <1>3, FlashUnchanged DEF PowerLoss, flashVars, taskVars, history
<1>4. ASSUME NEW b \in BOOLEAN, Tick(b) PROVE Recoverable' /\ RunInv'
  BY <1>4, FlashUnchanged DEF Tick, flashVars, history
<1>5. ASSUME NEW b \in BOOLEAN, Fetch(b) PROVE Recoverable' /\ RunInv'
  <2>1. /\ run' = run /\ boot' = boot /\ pc = "fetch" /\ pc' \in {"compare", "wait"}
        /\ proven' = proven \cup {flash[run].image}
    BY <1>5 DEF Fetch, Running
  <2>2. CASE UNCHANGED flash
    BY <2>1, <2>2, FlashUnchanged
  <2>3. CASE flash[run].state = "pending" /\ flash' = [flash EXCEPT ![run].state = "valid"]
    <3>1. /\ run \in Slots /\ flash'[run] = [flash[run] EXCEPT !.state = "valid"]
          /\ \A t \in Slots : t # run => flash'[t] = flash[t]
      BY <2>3 DEF IInv, TypeOK
    <3>2. flash'[run].image = flash[run].image /\ flash'[run].state = "valid"
      BY <3>1 DEF IInv, TypeOK
    <3>3. flash[run].image # NoImage /\ Trusted(Other(run)) /\ CanUpdate(Other(run))
      BY <2>1, <2>3 DEF IInv, RunInv
    <3>4. Trusted(run)' /\ CanUpdate(run)'
      BY <2>1, <3>2, <3>3 DEF Trusted, CanUpdate
    <3>5. CanUpdate(Other(run))'
      BY <2>1, <3>1, <3>3, OtherSlot DEF CanUpdate, Other
    <3>6. \A t \in Slots : CanUpdate(t)'
      BY <2>1, <3>1, <3>4, <3>5, TwoSlots DEF Other, CanUpdate
    <3>7. Recoverable'
      BY <2>1, <3>1, <3>4, <3>6 DEF Recoverable
    <3> QED BY <2>1, <3>1, <3>2, <3>3, <3>4, <3>7 DEF RunInv, IInv
  <2> QED BY <1>5, <2>2, <2>3 DEF Fetch, MarkValid
<1>6. CASE FetchFails \/ Compare \/ DownloadFails \/ Restart
  BY <1>6, FlashUnchanged
     DEF FetchFails, Compare, DownloadFails, Restart, flashVars, taskVars, history
(* The slot that runs is off probation, so it is trusted, and only the other changes. *)
<1>7. CASE DownloadBegin \/ Verified \/ Stage
  <2>1. /\ run' = run /\ proven' = proven
        /\ pc \in {"download", "write", "stage"} /\ flash[run].state # "pending"
    BY <1>7 DEF DownloadBegin, Verified, Stage, taskVars, history, IInv, RunInv
  <2>2. run \in Slots /\ flash'[run] = flash[run] /\ boot = run
    BY <1>7, <2>1, OtherSlot DEF DownloadBegin, Verified, Stage, IInv, TypeOK, RunInv
  <2>3. Trusted(run)' /\ CanUpdate(run)' /\ Bootable(run)'
    BY <2>1, <2>2 DEF IInv, RunInv, TypeOK, Trusted, CanUpdate, Bootable, AfterReset
  <2>4. CASE DownloadBegin \/ Verified
    <3>1. boot' = run /\ pc' \in {"write", "stage"}
      BY <2>2, <2>4 DEF DownloadBegin, Verified
    <3>2. \A t \in Slots : Selected(t)' => t = run
      BY <2>1, <2>3, <3>1 DEF Selected, Bootable
    <3>3. Recoverable'
      BY <2>1, <2>2, <2>3, <3>2 DEF Recoverable, Trusted, CanUpdate
    <3> QED BY <2>1, <2>2, <2>3, <3>1, <3>3 DEF RunInv, Trusted, IInv
  <2>5. CASE Stage
    <3>1. pc' = "restart" /\ flash'[Other(run)].state = "new"
      BY <2>2, <2>5, OtherSlot DEF Stage, IInv, TypeOK
    <3>2. ~Trusted(Other(run))'
      BY <2>1, <3>1 DEF Trusted, Other
    <3>3. Recoverable'
      BY <2>1, <2>2, <2>3, <3>2, TwoSlots DEF Recoverable, Other, Trusted
    <3> QED BY <2>1, <2>2, <2>3, <3>1, <3>3 DEF RunInv, Trusted, Other, IInv
  <2> QED BY <1>7, <2>4, <2>5
<1>8. ASSUME NEW i \in Images, Publish(i) PROVE Recoverable' /\ RunInv'
  BY <1>8, FlashUnchanged DEF Publish, flashVars, taskVars, history
<1>9. CASE UNCHANGED vars
  BY <1>9, FlashUnchanged DEF vars, flashVars, taskVars, history
<1> QED BY <1>1, <1>2, <1>3, <1>4, <1>5, <1>6, <1>7, <1>8, <1>9 DEF Next

LEMMA Invariant == Spec => []IInv
BY InitInv, StepInv, PTL DEF Spec

(* The sealed device never strands itself on an image that cannot update.  *)
THEOREM NeverStranded == Spec => []Recoverable
<1>1. IInv => Recoverable
  BY DEF IInv
<1> QED BY <1>1, Invariant, PTL

(* A reset never leaves the bootloader without an image to boot. *)
THEOREM AlwaysBoots == Spec => [](\E s \in Slots : Bootable(s))
<1>1. IInv => \E s \in Slots : Bootable(s)
  BY DEF IInv, TypeOK, Recoverable, Trusted, Bootable, AfterReset
<1> QED BY <1>1, Invariant, PTL

(* Type correctness: flash, otadata and the task keep their types, for any builds. *)
THEOREM TypeCorrect == Spec => []TypeOK
<1>1. IInv => TypeOK
  BY DEF IInv
<1> QED BY <1>1, Invariant, PTL

-----------------------------------------------------------------------------
(* No downgrade.  parse_semver() fails open on a text without three        *)
(* integers, so this is about versions that parse.                         *)
Versions == {v \in Seq(Nat) : Len(v) >= 3}

NotOlder(v) == \A i \in confirmed : ~VersionIsNewer(Version[i], v)

(* That no confirmed image is newer than the running one is not inductive: *)
(* the same must hold of what the bootloader may turn to, now or after an  *)
(* aborted probation, and of what is being downloaded.                     *)
NewestInv ==
  /\ \A s \in Slots :
       /\ flash[s].state \in {"new", "pending"} =>
            s = boot /\ flash[s].image # NoImage /\ NotOlder(Version[flash[s].image])
       /\ Trusted(s) /\ (Selected(s) \/ flash[Other(s)].state = "new") =>
            NotOlder(Version[flash[s].image])
  /\ pc # "off" => NotOlder(Version[Running])
  /\ pc \in {"download", "write", "stage"} => NotOlder(Version[seen])
  /\ pc = "stage" => flash[Other(run)].image = seen

LEMMA NewerMeans ==
  ASSUME NEW a \in Versions, NEW b \in Versions
  PROVE  VersionIsNewer(a, b) <=>
           \/ a[1] > b[1]
           \/ a[1] = b[1] /\ a[2] > b[2]
           \/ a[1] = b[1] /\ a[2] = b[2] /\ a[3] > b[3]
<1>1. Parses(a) /\ Parses(b)
  BY DEF Versions, Parses
<1>2. VersionIsNewer(a, b) <=>
        \E k \in 1..3 : a[k] > b[k] /\ \A j \in 1..(k - 1) : a[j] = b[j]
  BY <1>1 DEF VersionIsNewer
<1> QED BY <1>2

LEMMA Numbers == ASSUME NEW a \in Versions PROVE a[1] \in Nat /\ a[2] \in Nat /\ a[3] \in Nat
BY DEF Versions

LEMMA NotNewerThanItself == ASSUME NEW a \in Versions PROVE ~VersionIsNewer(a, a)
BY NewerMeans, Numbers

LEMMA NewerIsTransitive ==
  ASSUME NEW a \in Versions, NEW b \in Versions, NEW c \in Versions,
         ~VersionIsNewer(a, b), VersionIsNewer(c, b)
  PROVE  ~VersionIsNewer(a, c)
<1> DEFINE Less(x, y) == \/ x[1] > y[1]
                         \/ x[1] = y[1] /\ x[2] > y[2]
                         \/ x[1] = y[1] /\ x[2] = y[2] /\ x[3] > y[3]
<1>1. ~Less(a, b) /\ Less(c, b)
  BY NewerMeans
<1>2. ~Less(a, c)
  BY <1>1, Numbers
<1> QED BY <1>2, NewerMeans

LEMMA NewestInit == Init => NewestInv
BY DEF Init, NewestInv, NotOlder, Slots

(* A step that leaves the flash, the running slot and what is confirmed alone. *)
LEMMA NewestUnchanged ==
  ASSUME NewestInv, flash' = flash, boot' = boot, run' = run, confirmed' = confirmed,
         \/ pc' = "off"
         \/ pc # "off" /\ pc' \notin {"download", "write", "stage"}
         \/ pc' = pc /\ seen' = seen
         \/ pc # "off" /\ pc' = "download" /\ NotOlder(Version[seen'])
  PROVE  NewestInv'
<1>1. \A s \in Slots : Trusted(s)' = Trusted(s) /\ Selected(s)' = Selected(s)
  BY Zenon DEF Trusted, Selected, Bootable
<1>2. Running' = Running
  BY DEF Running
<1>3. \A v : NotOlder(v)' <=> NotOlder(v)
  BY DEF NotOlder
<1> QED BY <1>1, <1>2, <1>3 DEF NewestInv, Other

LEMMA NewestBoot ==
  ASSUME IInv, NewestInv, NEW s \in Slots, Boot(s)
  PROVE  NewestInv'
<1>1. \A t \in Slots : /\ flash'[t].image = flash[t].image
                       /\ flash'[t].state = (IF t = s /\ flash[t].state = "new" THEN "pending"
                                             ELSE AfterReset(flash[t].state))
  BY DEF Boot
<1>2. /\ boot' = s /\ run' = s /\ pc' = "starting" /\ confirmed' = confirmed
      /\ Bootable(s) /\ (s # boot => ~Bootable(boot)) /\ Selected(s)
  BY DEF Boot, Goto, history, Selected
<1>3. \A t \in Slots : flash[t].state = "new" => t = s
  <2> SUFFICES ASSUME NEW t \in Slots, flash[t].state = "new" PROVE t = s
    OBVIOUS
  <2>1. t = boot /\ flash[t].image # NoImage
    BY DEF NewestInv
  <2>2. Bootable(t)
    BY <2>1 DEF Bootable, AfterReset, IInv, TypeOK
  <2> QED BY <1>2, <2>1, <2>2
<1>4. \A t \in Slots : /\ flash'[t].state # "new"
                       /\ flash'[t].state = "pending" => t = s /\ flash[t].state = "new"
  BY <1>1, <1>3 DEF AfterReset
<1>5. \A t \in Slots : Trusted(t)' <=> Trusted(t)
  BY <1>1, <1>3 DEF Trusted, AfterReset
<1>6. flash[s].state = "new" \/ Trusted(s)
  BY <1>2, NoImageIsNone DEF Bootable, AfterReset, Trusted
<1>7. NotOlder(Version[flash[s].image])
  BY <1>2, <1>6 DEF NewestInv
<1>8. \A v : NotOlder(v)' <=> NotOlder(v)
  BY <1>2 DEF NotOlder
<1>9. ASSUME NEW t \in Slots, Trusted(t)', Selected(t)' PROVE NotOlder(Version[flash[t].image])
  <2>1. CASE t = s
    BY <1>7, <2>1
  <2>2. CASE t # s
    <3>1. ~Bootable(s)'
      BY <1>2, <1>9, <2>2 DEF Selected
    <3>2. flash[s].state = "new"
      BY <1>1, <1>2, <1>6, <3>1 DEF Bootable, Trusted, AfterReset
    <3>3. s = Other(t)
      BY <2>2, TwoSlots
    <3> QED BY <1>5, <1>9, <3>2, <3>3 DEF NewestInv
  <2> QED BY <2>1, <2>2
<1>10. Running' = flash[s].image
  BY <1>1, <1>2 DEF Running
<1>11. \A t \in Slots : flash'[Other(t)].state # "new"
  BY <1>4, OtherSlot
<1>12. \A t \in Slots :
         /\ flash'[t].state \in {"new", "pending"} =>
              t = s /\ flash'[t].image # NoImage /\ NotOlder(Version[flash'[t].image])
         /\ Trusted(t)' /\ (Selected(t)' \/ flash'[Other(t)].state = "new") =>
              NotOlder(Version[flash'[t].image])
  BY <1>1, <1>2, <1>4, <1>7, <1>9, <1>11, NoImageIsNone DEF Bootable
<1> QED BY <1>2, <1>7, <1>8, <1>10, <1>12 DEF NewestInv, Other

LEMMA NewestMark ==
  ASSUME \A i \in Images : Version[i] \in Versions,
         IInv, NewestInv, pc = "fetch", pc' \in {"compare", "wait"}, boot' = boot, run' = run,
         flash[run].state = "pending",
         flash' = [flash EXCEPT ![run].state = "valid"],
         confirmed' = confirmed \cup {Running}
  PROVE  NewestInv'
<1>1. run \in Slots /\ boot = run /\ Running \in Images
  BY DEF IInv, TypeOK, RunInv, Running
<1>2. /\ \A t \in Slots : flash'[t].image = flash[t].image
      /\ flash'[run].state = "valid"
      /\ \A t \in Slots : t # run => flash'[t] = flash[t]
  BY <1>1 DEF IInv, TypeOK
<1>3. \A t \in Slots : flash'[t].state \notin {"new", "pending"}
  BY <1>1, <1>2 DEF NewestInv
<1>4. Running' = Running /\ NotOlder(Version[Running])'
  BY <1>1, <1>2, NotNewerThanItself DEF NewestInv, NotOlder, Running
<1>5. Bootable(run)'
  BY <1>1, <1>2 DEF Bootable, AfterReset, Running
<1>6. \A t \in Slots : Selected(t)' => t = run
  BY <1>1, <1>5 DEF Selected
<1>7. \A t \in Slots : flash'[Other(t)].state # "new"
  BY <1>3, OtherSlot
<1>8. flash'[run].image = Running
  BY <1>1, <1>2 DEF Running
<1> QED BY <1>3, <1>4, <1>6, <1>7, <1>8 DEF NewestInv, Other

LEMMA NewestDownload ==
  ASSUME IInv, NewestInv, DownloadBegin \/ Verified \/ Stage
  PROVE  NewestInv'
<1>1. /\ run' = run /\ confirmed' = confirmed /\ seen' = seen
      /\ pc \in {"download", "write", "stage"} /\ flash[run].state # "pending"
  BY DEF Goto, DownloadBegin, Verified, Stage, taskVars, history, IInv, RunInv
<1>2. /\ run \in Slots /\ boot = run /\ flash'[run] = flash[run]
      /\ Other(run) \in Slots /\ Other(run) # run /\ Other(Other(run)) = run
      /\ \A t \in Slots : t = run \/ t = Other(run)
  BY <1>1, OtherSlot, TwoSlots DEF Goto, DownloadBegin, Verified, Stage, IInv, TypeOK, RunInv
<1>3. \A v : NotOlder(v)' <=> NotOlder(v)
  BY <1>1 DEF NotOlder
<1>4. /\ Running' = Running /\ NotOlder(Version[Running]) /\ NotOlder(Version[seen])
      /\ flash'[run].image = Running
  BY <1>1, <1>2 DEF Running, NewestInv
<1>5. flash[run].state \notin {"new", "pending"} /\ Bootable(run)'
  BY <1>1, <1>2 DEF IInv, RunInv, TypeOK, Bootable, AfterReset
<1>6. flash[Other(run)].state \notin {"new", "pending"}
  BY <1>2 DEF NewestInv
<1>7. CASE DownloadBegin \/ Verified
  <2>1. boot' = run /\ pc' \in {"write", "stage"}
    BY <1>2, <1>7 DEF Goto, DownloadBegin, Verified
  <2>2. /\ flash'[Other(run)].state = flash[Other(run)].state
        /\ pc' = "stage" => flash'[Other(run)].image = seen
    BY <1>2, <1>7 DEF Goto, DownloadBegin, Verified, IInv, TypeOK
  <2>3. \A t \in Slots : Selected(t)' => t = run
    BY <1>1, <1>5, <2>1 DEF Selected, Bootable
  <2>4. \A t \in Slots : flash'[t].state \notin {"new", "pending"}
    BY <1>2, <1>5, <1>6, <2>2
  <2>5. \A t \in Slots : flash'[Other(t)].state # "new"
    BY <2>4, OtherSlot
  <2> QED BY <1>1, <1>3, <1>4, <2>1, <2>2, <2>3, <2>4, <2>5 DEF NewestInv, Other
<1>8. CASE Stage
  <2>1. /\ boot' = Other(run) /\ pc' = "restart"
        /\ flash'[Other(run)].state = "new" /\ flash'[Other(run)].image = seen
    BY <1>2, <1>8 DEF Goto, Stage, NewestInv, IInv, TypeOK
  <2>2. ~Trusted(Other(run))' /\ seen # NoImage
    BY <1>1, <2>1, NoImageIsNone DEF Trusted, Other, IInv, TypeOK
  <2>3. flash'[run].state \notin {"new", "pending"}
    BY <1>2, <1>5
  <2>4. \A t \in Slots :
          /\ flash'[t].state \in {"new", "pending"} =>
               t = boot' /\ flash'[t].image # NoImage /\ NotOlder(Version[flash'[t].image])
          /\ Trusted(t)' => NotOlder(Version[flash'[t].image])
    BY <1>1, <1>2, <1>4, <2>1, <2>2, <2>3
  <2> QED BY <1>1, <1>3, <1>4, <2>1, <2>4 DEF NewestInv
<1> QED BY <1>7, <1>8

LEMMA NewestNext ==
  ASSUME \A i \in Images : Version[i] \in Versions, IInv, NewestInv, [Next]_vars
  PROVE  NewestInv'
<1> USE DEF Goto, flashVars, taskVars, history
<1>1. ASSUME NEW s \in Slots, Boot(s) PROVE NewestInv'
  BY <1>1, NewestBoot
<1>2. CASE OtaStart \/ PowerLoss \/ FetchFails \/ DownloadFails \/ Restart
  BY <1>2, NewestUnchanged DEF OtaStart, PowerLoss, FetchFails, DownloadFails, Restart
<1>3. ASSUME NEW b \in BOOLEAN, Tick(b) PROVE NewestInv'
  BY <1>3, NewestUnchanged DEF Tick
<1>4. ASSUME NEW b \in BOOLEAN, Fetch(b) PROVE NewestInv'
  <2>1. pc = "fetch" /\ pc' \in {"compare", "wait"} /\ boot' = boot /\ run' = run
    BY <1>4 DEF Fetch
  <2>2. CASE UNCHANGED <<flash, confirmed>>
    BY <2>1, <2>2, NewestUnchanged
  <2>3. CASE ~UNCHANGED <<flash, confirmed>>
    BY <1>4, <2>1, <2>3, NewestMark DEF Fetch, MarkValid
  <2> QED BY <2>2, <2>3
<1>5. CASE Compare
  <2>1. /\ flash' = flash /\ boot' = boot /\ run' = run /\ confirmed' = confirmed /\ seen' = seen
        /\ pc = "compare" /\ pc' = (IF Wanted THEN "download" ELSE "wait")
    BY <1>5 DEF Compare
  <2>2. CASE ~Wanted
    BY <2>1, <2>2, NewestUnchanged
  <2>3. CASE Wanted
    <3>1. VersionIsNewer(Version[seen], Version[Running]) /\ NotOlder(Version[Running])
      BY <2>1, <2>3 DEF Wanted, NewestInv
    <3>2. Running \in Images /\ seen \in Images /\ confirmed \subseteq Images
      BY <2>1 DEF Running, IInv, TypeOK, RunInv
    <3>3. NotOlder(Version[seen])
      BY <3>1, <3>2, NewerIsTransitive DEF NotOlder
    <3> QED BY <2>1, <2>3, <3>3, NewestUnchanged
  <2> QED BY <2>2, <2>3
<1>6. CASE DownloadBegin \/ Verified \/ Stage
  BY <1>6, NewestDownload
<1>7. ASSUME NEW i \in Images, Publish(i) PROVE NewestInv'
  BY <1>7, NewestUnchanged DEF Publish
<1>8. CASE UNCHANGED vars
  BY <1>8, NewestUnchanged DEF vars
<1> QED BY <1>1, <1>2, <1>3, <1>4, <1>5, <1>6, <1>7, <1>8 DEF Next

(* Neither an older release republished as the latest nor a rollback makes *)
(* the device run an image older than one it has confirmed, whatever the   *)
(* builds, their versions and the order they are published in.             *)
THEOREM NoDowngrade ==
  ASSUME \A i \in Images : Version[i] \in Versions
  PROVE  Spec => []NeverOlderThanConfirmed
<1>1. NewestInv => NeverOlderThanConfirmed
  BY DEF NewestInv, NotOlder, NeverOlderThanConfirmed
<1> QED BY <1>1, NewestInit, NewestNext, Invariant, PTL DEF Spec
=============================================================================
