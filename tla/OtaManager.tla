---------------------------- MODULE OtaManager ----------------------------
(* The firmware update manager of the device, main/ota_manager.c, against  *)
(* the update endpoints of the backend, backend/src/api/ota.rs, and the    *)
(* bootloader.  One task asks the backend for an update every half hour,   *)
(* streams it into the application slot that is not running, verifies it,  *)
(* makes the bootloader select it and restarts.                            *)
(*                                                                         *)
(* The bootloader, esp_ota_ops and the HTTP client are external.  The      *)
(* build enables the rollback of applications                              *)
(* (CONFIG_BOOTLOADER_APP_ROLLBACK_ENABLE in sdkconfig): a newly selected  *)
(* image is unconfirmed when it boots, and the next reset goes back to the *)
(* other slot unless it confirmed itself, which nothing in the firmware    *)
(* does.                                                                   *)
(*                                                                         *)
(* SHA-256 is taken as injective: the digest of an image is the image.     *)
(* status_set and ota_manager_get_status are atomic: every holder of the   *)
(* status mutex copies a few fields, the 500 ms timeout is never reached.  *)
EXTENDS Integers

CONSTANTS
  Firmware,    \* the images the bootloader accepts
  Other,       \* what else the backend may serve as an image
  Torn,        \* the content of a slot that is not, or not all, written
  None,        \* no project has been compiled for the device
  Releases,    \* the values of the project row, see Rows
  Slices,      \* how many one-second slices OTA_CHECK_INTERVAL_MS has
  MaxPublish,  \* bound on the changes of the project
  MaxFaults,   \* bound on the requests and flash operations that fail
  MaxResets    \* bound on the power losses

Images == Firmware \cup Other

\* fetch_latest_project: the hash and the image of the project are read from
\* two columns, which different requests write.
Rows == [hash : Images, image : Images]

ASSUME ImagesAssumption ==
  /\ Firmware # {}
  /\ Torn \notin Images
  /\ None \notin Rows
  /\ Releases \subseteq Rows \cup {None}

ASSUME BoundsAssumption ==
  /\ Slices \in Nat \ {0}
  /\ {MaxPublish, MaxFaults, MaxResets} \subseteq Nat

VARIABLES
  project,   \* the project row the backend serves, or None
  flash,     \* the content of the two application slots
  slot,      \* what otadata says of them: "valid", "new", "pending", "aborted"
  boot,      \* the slot otadata selects
  running,   \* the slot the firmware was booted from
  at,        \* where ota_check_task is
  manifest,  \* manifest_hash
  sha,       \* computed_sha
  status,    \* s_status.state
  slice,     \* i, the slices slept
  trigger,   \* s_trigger_check
  caller,    \* where ota_manager_trigger_check is: "out", or "set"
  budget     \* how many changes, faults and resets there have been

task == <<at, manifest, sha, status, slice>>
slots == <<flash, slot, boot, running>>
vars == <<project, slots, task, trigger, caller, budget>>

States == {"idle", "checking", "downloading", "verifying", "applying",
           "reboot_pending", "error"}
Places == {"settle", "top", "check", "manifest", "begin", "chunk", "streaming",
           "end", "verify", "apply", "restart", "sleep"}

\* esp_ota_get_next_update_partition: of the two slots, the one not running.
Target == 1 - running

InitWith(first) ==
  /\ project \in Releases
  /\ flash = [s \in 0..1 |-> IF s = 0 THEN first ELSE Torn]
  /\ slot = [s \in 0..1 |-> "valid"]
  /\ boot = 0
  /\ running = 0
  /\ at = "settle"
  /\ manifest = Torn
  /\ sha = Torn
  /\ status = "idle"
  /\ slice = 0
  /\ trigger = FALSE
  /\ caller = "out"
  /\ budget = [publish |-> 0, fault |-> 0, reset |-> 0]

Init == \E first \in Firmware : InitWith(first)

------------------------------------------------------------------------
\* Faults and the backend

\* A request or a flash operation that fails.
Fault ==
  /\ budget.fault < MaxFaults
  /\ budget' = [budget EXCEPT !.fault = @ + 1]

\* A step that may fail at any time, and fails where the condition holds.
FailsIf(condition) ==
  \/ Fault
  \/ condition /\ UNCHANGED budget

\* The project of the device is compiled again, deployed, or removed.
Publish ==
  /\ budget.publish < MaxPublish
  /\ budget' = [budget EXCEPT !.publish = @ + 1]
  /\ project' \in Releases \ {project}
  /\ UNCHANGED <<slots, task, trigger, caller>>

\* has_update: the backend compares the hash with the firmware_version of the
\* device, which it never sets, so every project is an update.
HasUpdate == project # None

------------------------------------------------------------------------
\* ota_check_task and ota_download_and_apply

Goto(place, state) == at' = place /\ status' = state

\* Every error of ota_download_and_apply: status ERROR, and back to the loop.
Failed == Goto("sleep", "error") /\ slice' = 0 /\ UNCHANGED <<manifest, sha>>

\* The initial delay of the task.
Settle ==
  /\ at = "settle"
  /\ Goto("top", status)
  /\ UNCHANGED <<project, slots, manifest, sha, slice, trigger, caller, budget>>

StartCheck ==
  /\ at = "top"
  /\ Goto("check", "checking")
  /\ UNCHANGED <<project, slots, manifest, sha, slice, trigger, caller, budget>>

\* The answer to the check: failed, no update, or an update to download.
Check ==
  /\ at = "check"
  /\ \/ HasUpdate /\ Goto("manifest", "downloading") /\ UNCHANGED <<slice, budget>>
     \/ FailsIf(~HasUpdate) /\ Goto("sleep", "idle") /\ slice' = 0
  /\ UNCHANGED <<project, slots, manifest, sha, trigger, caller>>

\* The manifest is fetched and parsed, and its size held against the slot's.
GetManifest ==
  /\ at = "manifest"
  /\ \/ /\ HasUpdate
        /\ Goto("begin", status)
        /\ manifest' = project.hash
        /\ UNCHANGED <<sha, slice, budget>>
     \/ FailsIf(~HasUpdate) /\ Failed
  /\ UNCHANGED <<project, slots, trigger, caller>>

\* esp_ota_begin refuses to write while the running image is unconfirmed.
Refused == slot[running] = "pending"

BeginWrite ==
  /\ at = "begin"
  /\ \/ ~Refused /\ Goto("chunk", status) /\ UNCHANGED <<manifest, sha, slice, budget>>
     \/ FailsIf(Refused) /\ Failed
  /\ UNCHANGED <<project, slots, trigger, caller>>

\* download_firmware_chunk: the backend answers with the image the project has
\* by now, and the first write spoils the slot.
RequestChunk ==
  /\ at = "chunk"
  /\ \/ /\ HasUpdate
        /\ Goto("streaming", status)
        /\ sha' = project.image
        /\ flash' = [flash EXCEPT ![Target] = Torn]
        /\ UNCHANGED <<manifest, slice, budget>>
     \/ FailsIf(~HasUpdate) /\ Failed /\ UNCHANGED flash
  /\ UNCHANGED <<project, slot, boot, running, trigger, caller>>

\* The rest is written, or the stream ends early: with an error, or as if it
\* were complete, as the length received is not held against the manifest.
Stream ==
  /\ at = "streaming"
  /\ \/ /\ flash' = [flash EXCEPT ![Target] = sha]
        /\ Goto("end", status)
        /\ UNCHANGED <<manifest, sha, slice, budget>>
     \/ Fault /\ Failed /\ UNCHANGED flash
     \/ Fault /\ Goto("end", status) /\ sha' = Torn /\ UNCHANGED <<flash, manifest, slice>>
  /\ UNCHANGED <<project, slot, boot, running, trigger, caller>>

\* esp_ota_end accepts a whole image only.
EndWrite ==
  /\ at = "end"
  /\ \/ /\ flash[Target] \in Firmware
        /\ Goto("verify", "verifying")
        /\ UNCHANGED <<manifest, sha, slice, budget>>
     \/ FailsIf(flash[Target] \notin Firmware) /\ Failed
  /\ UNCHANGED <<project, slots, trigger, caller>>

\* Mutated form of Matches: the comparison is left out.
MatchesAll == TRUE

\* The digest of what was received against the one of the manifest.
Matches == sha = manifest

Verify ==
  /\ at = "verify"
  /\ \/ Matches /\ Goto("apply", "applying") /\ UNCHANGED <<manifest, sha, slice>>
     \/ ~Matches /\ Failed
  /\ UNCHANGED <<project, slots, trigger, caller, budget>>

\* Mutated form of Select: the running partition is selected again.
SelectRunning == boot' = running /\ slot' = [slot EXCEPT ![running] = "new"]

Select == boot' = Target /\ slot' = [slot EXCEPT ![Target] = "new"]

\* Mutated form of Apply: the device restarts without selecting the slot.
ApplyForgets ==
  /\ at = "apply"
  /\ Goto("restart", "reboot_pending")
  /\ UNCHANGED <<project, slots, manifest, sha, slice, trigger, caller, budget>>

Apply ==
  /\ at = "apply"
  /\ \/ /\ Select
        /\ Goto("restart", "reboot_pending")
        /\ UNCHANGED <<manifest, sha, slice, budget>>
     \/ Fault /\ Failed /\ UNCHANGED <<slot, boot>>
  /\ UNCHANGED <<project, flash, running, trigger, caller>>

------------------------------------------------------------------------
\* The sleep between two checks, and ota_manager_trigger_check

\* Whether the loop of the slices ends after this one.
Woken == trigger \/ slice + 1 = Slices

Sleep ==
  /\ at = "sleep"
  /\ at' = IF Woken THEN "top" ELSE "sleep"
  /\ slice' = IF Woken THEN 0 ELSE slice + 1
  /\ trigger' = FALSE
  /\ UNCHANGED <<project, slots, manifest, sha, status, caller, budget>>

\* The caller looks at a snapshot of the status ...
Look ==
  /\ caller = "out"
  /\ status \in {"idle", "error"}
  /\ caller' = "set"
  /\ UNCHANGED <<project, slots, task, trigger, budget>>

\* ... and sets the flag some time later.
SetTrigger ==
  /\ caller = "set"
  /\ caller' = "out"
  /\ trigger' = TRUE
  /\ UNCHANGED <<project, slots, task, budget>>

------------------------------------------------------------------------
\* Restarts and power losses

\* The bootloader: an image that is still unconfirmed is given up for the other
\* slot, one that is new is booted unconfirmed.
Rollback ==
  /\ slot[boot] = "pending"
  /\ slot' = [slot EXCEPT ![boot] = "aborted"]
  /\ boot' = 1 - boot
  /\ running' = 1 - boot

BootSelected ==
  /\ slot[boot] # "pending"
  /\ slot' = [slot EXCEPT ![boot] = IF @ = "new" THEN "pending" ELSE @]
  /\ running' = boot
  /\ UNCHANGED boot

Reset ==
  /\ Rollback \/ BootSelected
  /\ Goto("settle", "idle")
  /\ slice' = 0 /\ trigger' = FALSE /\ caller' = "out"
  /\ manifest' = Torn /\ sha' = Torn
  /\ UNCHANGED <<project, flash>>

Restart == at = "restart" /\ Reset /\ UNCHANGED budget

PowerLoss ==
  /\ budget.reset < MaxResets
  /\ budget' = [budget EXCEPT !.reset = @ + 1]
  /\ Reset

------------------------------------------------------------------------
Task ==
  \/ Settle \/ StartCheck \/ Check \/ GetManifest \/ BeginWrite \/ RequestChunk
  \/ Stream \/ EndWrite \/ Verify \/ Apply \/ Sleep \/ Restart

Next == Task \/ Look \/ SetTrigger \/ Publish \/ PowerLoss

Spec == Init /\ [][Next]_vars

\* FreeRTOS schedules the task, and its requests time out: it always goes on.
FairSpec == Spec /\ WF_vars(Task)

------------------------------------------------------------------------
\* Properties

Bounds == [publish : 0..MaxPublish, fault : 0..MaxFaults, reset : 0..MaxResets]

TypeOK ==
  /\ project \in Rows \cup {None}
  /\ flash \in [0..1 -> Images \cup {Torn}]
  /\ slot \in [0..1 -> {"valid", "new", "pending", "aborted"}]
  /\ boot \in 0..1 /\ running \in 0..1
  /\ at \in Places
  /\ {manifest, sha} \subseteq Images \cup {Torn}
  /\ status \in States
  /\ slice \in 0..(Slices - 1)
  /\ trigger \in BOOLEAN
  /\ caller \in {"out", "set"}
  /\ budget \in Bounds

\* Whatever fails and whenever the power is lost, the slot that is selected
\* holds a whole image: the device boots.
Bootable == flash[boot] \in Firmware

\* While the running image is unconfirmed, and from the moment it is selected,
\* there is a confirmed whole image in the other slot to go back to.
WayBack ==
  slot[boot] \in {"new", "pending"} => slot[1 - boot] = "valid" /\ flash[1 - boot] \in Firmware

\* "SHA-256 verifies, and applies it": what the task selects has the digest of
\* the manifest, though the project may have changed between the two requests.
Verified == [][at = "apply" /\ boot' # boot => flash[boot'] = manifest]_vars

\* Whatever fails, the task comes back to ask for an update.
KeepsPolling == []<>(at = "check")

WellFormed == {row \in Releases \cap Rows : row.image \in Firmware /\ row.hash = row.image}

\* A well-formed release that stays the project of the device is running in the
\* end, if a confirmed image is to be updated: as long as the backend has it.
ConfirmedUpdates ==
  \A row \in WellFormed :
    project = row /\ at = "sleep" /\ slot[running] = "valid"
      ~> flash[running] = row.image \/ project # row

\* The same of any running image: "polls the Parakram backend every 30 minutes
\* for a new firmware image.  If an update is available the manager downloads,
\* SHA-256 verifies, and applies it before rebooting" (ota_manager.h).
EveryUpdateApplied ==
  \A row \in WellFormed :
    project = row /\ at = "sleep"
      ~> flash[running] = row.image \/ project # row

\* The variables have their types, the selected slot holds a whole image, and
\* an unconfirmed one leaves a way back.
SlotsSafe == TypeOK /\ Bootable /\ WayBack

\* The task keeps asking, and a good release of a confirmed device is applied.
Updates == KeepsPolling /\ ConfirmedUpdates

===========================================================================
