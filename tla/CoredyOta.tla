------------------------------ MODULE CoredyOta ------------------------------
(***************************************************************************)
(* The update client (coredy_ota.c) with the bootloader's rollback guard:  *)
(* two flash slots, a probation that ends when the running image has       *)
(* fetched versioninfo.json itself, and a deliberate restart when it has   *)
(* not done so by the deadline.  Power may fail at any step.               *)
(*                                                                         *)
(* An image is what its build can do: start, connect to the SmartThings    *)
(* cloud, reach the update server; a bad build lacks one of them.  The     *)
(* bootloader and the esp_ota_* calls are external (ESP-IDF).              *)
(***************************************************************************)
EXTENDS Naturals, Integers, Sequences

CONSTANTS
  Images,
  Version,          \* image -> the integers sscanf finds in its version
  Starts, Connects, Fetches,  \* what each image can do
  Factory,          \* the image flashed by wire
  NoImage,
  Interval, Deadline,  \* COREDY_OTA_CHECK_INTERVAL_MS, _VERIFY_DEADLINE_MS, in seconds
  MarkMayFail,      \* esp_ota_mark_app_valid_cancel_rollback may fail
  MaxReleases, MaxPowerLosses  \* bounds

ASSUME FactoryIsAnImage == Factory \in Images
ASSUME NoImageIsNone == NoImage \notin Images
ASSUME TimesAreNat == Interval \in Nat \ {0} /\ Deadline \in Nat

Slots == {0, 1}

(* Mutant: slots counted from one. *)
OtherOffByOne(s) == 2 - s

(* esp_ota_get_next_update_partition() *)
Other(s) == 1 - s

VARIABLES
  flash,     \* per slot: the image and its otadata state
  boot,      \* the slot otadata selects
  run,       \* the slot that runs
  pc,        \* where the firmware is; "off" is the bootloader's turn
  s_pending_verify, s_fetch_ok_once,
  elapsed,   \* seconds since boot, while on probation
  seen,      \* the release in the versioninfo.json just fetched
  release,   \* the release published as "latest"
  budget,    \* external events so far
  proven,    \* images that ever fetched versioninfo.json
  confirmed  \* images that were ever marked valid

flashVars == <<flash, boot>>
taskVars == <<run, s_pending_verify, s_fetch_ok_once, elapsed, seen>>
world == <<release, budget>>
history == <<proven, confirmed>>
vars == <<flashVars, taskVars, pc, world, history>>

Running == flash[run].image

Init ==
  /\ flash = [s \in Slots |-> IF s = 0 THEN [image |-> Factory, state |-> "undefined"]
                              ELSE [image |-> NoImage, state |-> "undefined"]]
  /\ boot = 0 /\ run = 0 /\ pc = "off"
  /\ s_pending_verify = FALSE /\ s_fetch_ok_once = FALSE
  /\ elapsed = 0
  /\ seen = Factory /\ release = Factory
  /\ budget = [releases |-> 0, losses |-> 0]
  /\ proven = {} /\ confirmed = {}

Goto(here, there) == pc = here /\ pc' = there
-----------------------------------------------------------------------------
(* The bootloader. *)

(* An image still on probation has failed it; a new one goes on probation. *)
AfterReset(state) == IF state = "pending" THEN "aborted" ELSE state
Bootable(s) ==
  flash[s].image \in Images /\ AfterReset(flash[s].state) \in {"new", "valid", "undefined"}

Boot(s) ==
  /\ Goto("off", "starting")
  /\ Bootable(s) /\ (s # boot => ~Bootable(boot))
  /\ flash' = [f \in Slots |->
       [image |-> flash[f].image,
        state |-> IF f = s /\ flash[f].state = "new" THEN "pending" ELSE AfterReset(flash[f].state)]]
  /\ boot' = s /\ run' = s
  /\ s_pending_verify' = FALSE /\ s_fetch_ok_once' = FALSE /\ elapsed' = 0 /\ seen' = Factory
  /\ UNCHANGED <<world, history>>

(* coredy_ota_start(); an image that does not start resets instead. *)
OtaStart ==
  /\ pc = "starting"
  /\ IF Running \in Starts
     THEN pc' = "wait" /\ s_pending_verify' = (flash[run].state = "pending")
     ELSE pc' = "off" /\ UNCHANGED s_pending_verify
  /\ UNCHANGED <<flashVars, run, s_fetch_ok_once, elapsed, seen, world, history>>

PowerLoss ==
  /\ pc # "off" /\ pc' = "off"
  /\ budget.losses < MaxPowerLosses /\ budget' = [budget EXCEPT !.losses = @ + 1]
  /\ UNCHANGED <<flashVars, taskVars, release, history>>
-----------------------------------------------------------------------------
(* ota_task. *)

OnProbation == s_pending_verify /\ ~s_fetch_ok_once

(* Mutant: a connection to the cloud is taken for health, as it once was. *)
TickMarks(connected) ==
  /\ pc = "wait" /\ (connected => Running \in Connects)
  /\ elapsed' = IF OnProbation THEN elapsed + Interval ELSE elapsed
  /\ pc' = IF connected THEN "fetch" ELSE "wait"
  /\ flash' = IF connected /\ flash[run].state = "pending"
              THEN [flash EXCEPT ![run].state = "valid"] ELSE flash
  /\ UNCHANGED <<boot, run, s_pending_verify, s_fetch_ok_once, seen, world, history>>

(* Mutant: a tick without the cloud is skipped before the deadline test. *)
TickCloudFirst(connected) ==
  /\ pc = "wait" /\ (connected => Running \in Connects)
  /\ elapsed' = IF OnProbation /\ elapsed <= Deadline THEN elapsed + Interval ELSE elapsed
  /\ pc' = IF ~connected THEN "wait"
           ELSE IF OnProbation /\ elapsed' > Deadline THEN "off" ELSE "fetch"
  /\ UNCHANGED <<flashVars, run, s_pending_verify, s_fetch_ok_once, seen, world, history>>

(* One interval later: restart when the deadline has passed, else check for
   an update if coredy_bridge_is_cloud_connected(). *)
Tick(connected) ==
  /\ pc = "wait" /\ (connected => Running \in Connects)
  /\ elapsed' = IF OnProbation THEN elapsed + Interval ELSE elapsed
  /\ pc' = IF OnProbation /\ elapsed' > Deadline THEN "off"
           ELSE IF connected THEN "fetch" ELSE "wait"
  /\ UNCHANGED <<flashVars, run, s_pending_verify, s_fetch_ok_once, seen, world, history>>

(* coredy_ota_mark_valid(): once, whether it works or not.  An image flashed
   by wire has no otadata entry to mark. *)
MarkValid ==
  \/ /\ ~s_fetch_ok_once /\ flash[run].state = "pending"
     /\ flash' = [flash EXCEPT ![run].state = "valid"]
     /\ confirmed' = confirmed \cup {Running}
  \/ /\ s_fetch_ok_once \/ flash[run].state # "pending" \/ MarkMayFail
     /\ UNCHANGED <<flash, confirmed>>

(* fetch_url_to_buffer() and parse_versioninfo(): a malformed file still
   marks the image valid. *)
FetchFails ==
  /\ Goto("fetch", "wait")
  /\ UNCHANGED <<flashVars, taskVars, world, history>>

Fetch(wellFormed) ==
  /\ Goto("fetch", IF wellFormed THEN "compare" ELSE "wait")
  /\ Running \in Fetches
  /\ MarkValid
  /\ s_fetch_ok_once' = TRUE
  /\ seen' = release
  /\ proven' = proven \cup {Running}
  /\ UNCHANGED <<boot, run, s_pending_verify, elapsed, world>>

(* parse_semver(): three integers at the start of the text, whatever follows. *)
Parses(v) == Len(v) >= 3

(* version_is_newer(): fails open. *)
VersionIsNewer(available, current) ==
  \/ ~Parses(available) \/ ~Parses(current)
  \/ \E i \in 1..3 :
       /\ available[i] > current[i]
       /\ \A j \in 1..(i - 1) : available[j] = current[j]

(* Mutant: any version that differs is wanted. *)
WantedIfDiffers == Version[seen] # Version[Running]

Wanted == Version[seen] # Version[Running] /\ VersionIsNewer(Version[seen], Version[Running])

Compare ==
  /\ Goto("compare", IF Wanted THEN "download" ELSE "wait")
  /\ UNCHANGED <<flashVars, taskVars, world, history>>

(* download_and_install(): esp_ota_begin() erases the other slot, and refuses
   to while the running image is still on probation. *)
DownloadBegin ==
  /\ Goto("download", "write")
  /\ flash[run].state # "pending"
  /\ flash' = [flash EXCEPT ![Other(run)].image = NoImage]
  /\ UNCHANGED <<boot, taskVars, world, history>>

(* No connection, no such file, a short or badly signed image; or the boot
   partition cannot be set. *)
DownloadFails ==
  /\ pc \in {"download", "write", "stage"} /\ pc' = "wait"
  /\ UNCHANGED <<flashVars, taskVars, world, history>>

(* The image is whole and its signature good (esp_ota_end); what otadata says
   of the slot is still what it said of the image before. *)
Verified ==
  /\ Goto("write", "stage")
  /\ flash' = [flash EXCEPT ![Other(run)].image = seen]
  /\ UNCHANGED <<boot, taskVars, world, history>>

(* esp_ota_set_boot_partition() *)
Stage ==
  /\ Goto("stage", "restart")
  /\ flash' = [flash EXCEPT ![Other(run)].state = "new"]
  /\ boot' = Other(run)
  /\ UNCHANGED <<taskVars, world, history>>

Restart ==
  /\ Goto("restart", "off")
  /\ UNCHANGED <<flashVars, taskVars, world, history>>

(* Any image may be published as the latest, an older one too. *)
Publish(i) ==
  /\ i # release
  /\ budget.releases < MaxReleases /\ budget' = [budget EXCEPT !.releases = @ + 1]
  /\ release' = i
  /\ UNCHANGED <<flashVars, taskVars, pc, history>>

Next ==
  \/ \E s \in Slots : Boot(s)
  \/ OtaStart \/ PowerLoss
  \/ \E b \in BOOLEAN : Tick(b) \/ Fetch(b)
  \/ FetchFails \/ Compare \/ DownloadBegin \/ DownloadFails
  \/ Verified \/ Stage \/ Restart
  \/ \E i \in Images : Publish(i)

Spec == Init /\ [][Next]_vars

(* The task and the bootloader run; the cloud, the update server and the   *)
(* download work again and again for each image that can use them.  For    *)
(* each: a link that only ever failed one build's probation would cycle    *)
(* between rollback and download for good.                                 *)
Fairness ==
  /\ WF_vars(\E s \in Slots : Boot(s)) /\ WF_vars(OtaStart)
  /\ WF_vars(\E b \in BOOLEAN : Tick(b)) /\ WF_vars(FetchFails \/ Fetch(TRUE))
  /\ \A i \in Connects : SF_vars(Running = i /\ pc' = "fetch" /\ Tick(TRUE))
  /\ \A i \in Fetches : SF_vars(Running = i /\ Fetch(TRUE))
  /\ WF_vars(Compare) /\ WF_vars(DownloadBegin \/ DownloadFails) /\ SF_vars(DownloadBegin)
  /\ SF_vars(Verified) /\ SF_vars(Stage) /\ WF_vars(Restart)

FairSpec == Spec /\ Fairness
-----------------------------------------------------------------------------
States == {"new", "pending", "valid", "aborted", "undefined"}

(* Type invariant. *)
TypeOK ==
  /\ flash \in [Slots -> [image : Images \cup {NoImage}, state : States]]
  /\ boot \in Slots /\ run \in Slots
  /\ pc \in {"off", "starting", "wait", "fetch", "compare", "download", "write",
             "stage", "restart"}
  /\ s_pending_verify \in BOOLEAN /\ s_fetch_ok_once \in BOOLEAN
  /\ elapsed \in Nat
  /\ seen \in Images /\ release \in Images
  /\ proven \subseteq Images /\ confirmed \subseteq Images

(* "Failing to take an update is recoverable; losing the ability to take   *)
(* one is not" (README.md:61): whatever is published and whenever power    *)
(* fails, an image the bootloader would boot without a probation is one    *)
(* that has itself reached the update server, or the one flashed by wire,  *)
(* and there is always such an image left, whole, in some slot.            *)
Trusted(s) == flash[s].image # NoImage /\ flash[s].state \in {"valid", "undefined"}
Selected(s) == s = boot \/ ~Bootable(boot)
CanUpdate(s) == flash[s].image \in proven \cup {Factory}
Recoverable ==
  /\ \A s \in Slots : Trusted(s) /\ Selected(s) => CanUpdate(s)
  /\ \E s \in Slots : Trusted(s) /\ CanUpdate(s)

(* "Republishing an older tag as latest" must not downgrade the device     *)
(* (coredy_ota.c:427), nor must a rollback: once an image is confirmed, no *)
(* older one runs again.                                                   *)
NeverOlderThanConfirmed ==
  pc # "off" =>
    \A i \in confirmed : Version[i] # Version[Running] => ~VersionIsNewer(Version[i], Version[Running])

(* A mark that failed is not tried again until the next reset              *)
(* (coredy_ota.c:494), and until then esp_ota_begin() refuses.             *)
Unmarked == s_fetch_ok_once /\ flash[run].state = "pending"

(* A release that is newer than all others and does everything ends up     *)
(* running, from whatever bad image, rollback or lost power before it: the *)
(* sealed device always comes back to one that updates, unless the one it  *)
(* comes back to could not be marked valid and has yet to be reset.        *)
Best(i) ==
  /\ i \in Starts \cap Connects \cap Fetches
  /\ \A j \in Images \ {i} : VersionIsNewer(Version[i], Version[j])
ConvergesToRelease ==
  \A i \in Images : Best(i) => (<>[](release = i) => <>[](pc # "off" => Running = i \/ Unmarked))
=============================================================================
