# Verification of the Parakram device platform

Parakram deploys signed bytecode programs to ESP32-S3 boards.  The backend
compiles an IR document into a payload and signs it, a client carries it to the
device over BLE or TCP, and the device verifies it, stops its scheduler, loads
it into the VM, saves it to flash and starts the scheduler again.  The firmware
itself is replaced by an OTA manager that polls the backend.  Around this core
the firmware has a registry of some seventy drivers, a platform abstraction
layer with four implementations, a Lua sandbox, two TCP servers, and small
services; a voice assistant is a second firmware for the same chip.

The modules here model the device: how it starts, how a program gets into it and
runs, what drives its hardware, how its firmware is replaced.  File names are
relative to `firmware/main` unless they start with another directory.

## Inventory

What each part keeps as state, what it does, how it meets the others, what is
hard about it, and what makes it correct.

| Component | State | Operations | Meets | Hard | Correct when |
|---|---|---|---|---|---|
| Boot (`app_main.c`, `security/board_auth.c`) | the step that is next | `app_main` | initialises everything, starts the transports | transports serve while steps are still to come; ignored failures | what serves is initialised; the device comes up |
| Deployment (`app_main.c`) | the `program` partition | `on_payload_received`, `try_load_from_flash` | called by BLE host, TCP server and main task; drives scheduler and VM | three tasks and no lock, power loss between two flash operations, ignored errors | what runs is one program, entire, and the one a restart brings back |
| Scheduler (`runtime/scheduler.c`) | `running`, task handle, pipelines, triggers | `start`, `stop`, `add_*`, the task's passes, `evaluate_trigger` | stopped and filled by deployments, dispatches the VM | ends and restarts racing, 32-bit clock, hysteresis | at most one task; each pipeline runs when its trigger says so, and not else |
| VM (`runtime/vm.c`) | program memory, a context per pipeline | `vm_load_program`, `vm_execute` | dispatched by the scheduler, written by deployments | absolute jumps, blocking delays, batched deadline checks | stays in its stack, leaves a pipeline only by a jump of its own, and returns in time |
| BLE transfer (`comms/ble_gatt_profile.c`) | receive buffer, offset, expected length | `deploy_access_cb`, GAP events | hands payloads to the deployment | lost writes, disconnections, lengths at the edges | a payload arrives as it was sent |
| TCP payload server, WiFi (`comms/wifi_mgr.c`) | connection, receive buffer | event handler, `tcp_server_task` | hands payloads to the deployment | silent and failing clients | every client is served in the end |
| DumbDisplay server (`comms/dumbdisplay_srv.c`) | client descriptor, mutex | server task, `dd_send_cmd`, init, deinit | shares the descriptor table with the payload server | a client that leaves while a command is sent | commands go to the client there is |
| OTA manager (`ota_manager.c`, `backend/src/api/ota.rs`) | status, trigger, two application slots, otadata | `ota_check_task`, `trigger_check`, the endpoints | polls the backend, ends in the bootloader | requests answered by different projects, power loss, rollback | the device always has something to boot, and it was verified |
| Driver registry and drivers (`drivers/`) | slots of the board; instances of each driver | `init_all`, `deinit_all`, read, write, command | used by VM and triggers | handles index another array; shared timers, ADC unit, interrupt service | a slot reaches its own device and leaves nothing on |
| Platform abstraction (`firmware/hal`) | flags, handles, interrupt tables, key-value store | `pal_*` of ESP32-S3, RP2040, STM32, Arduino | under ports of the firmware | stale handles, shared lines, power loss while an entry is written | a port that was opened serves; a store answers what was set |
| Configuration and manifest (`device_config.c`, `boot_manifest.c`) | NVS records | load, save, reset; scan and save | read and written at boot | partial writes; a buffer of fixed size | a device never starts as paired with an entry missing; the manifest fits and is that of a scan |
| Event bus, state store, faults, rate limiter, MQTT (`runtime/`, `safety/`, `comms/`) | subscribers, counters, variables, timestamps, connection | publish, subscribe; raise, clear; check; events | called from every task | no locks, a clock that wraps, tables at their limit | no fault goes without a trace; the interval is kept |
| BLE encryption (`security/ble_crypto.c`) | key pair, session key | init, key agreement, encrypt, decrypt, deinit | not called yet | the format of public keys on their way | both sides derive the same key (they do not: below) |
| Payload verification, identity (`security/`) | none | `payload_verify`, `device_identity` | first step of a deployment | layout arithmetic | accepts exactly signed payloads |
| Lua sandbox (`scripting/`, `firmware/components/lua`) | interpreter heap, tables, limits | run, hook, allocator, collector | separate from the VM | incremental collection, finalizers, memory and time limits | nothing in use is freed; a script ends |
| Voice assistant (`firmware/usecases/voice_assistant`) | ring, packets, settings, filter | three tasks | drivers and server | settings that change while audio runs; a ring that overruns | sound in order, settings taken, no overflow |
| Compiler, IR validator (`backend/src/compiler`, `ir`) | none | index, emit, pool, sign; validate | output runs in the VM | two passes that must agree; targets counted from the start of a pipeline | jumps land in their own pipeline (only in the first one: below) |
| Quotas, rate limit, provisioning, projects, other services (`backend/src`) | PostgreSQL rows, a map per address | request handlers | clients, OTA | check-then-act by concurrent requests | limits are kept |
| Android, iOS, desktop, web, CodeLM, ROS 2, RTOS, ports | - | user interfaces, tools, experiments | - | - | out of scope |

`PROJECT.json` lists the same components with what is modelled of each, and every
hazard at its line with the properties that cover it.

## Modules

| Module | Models | With |
|---|---|---|
| `Deploy` | deployments, the life of the scheduler task, program memory, flash | `MCDeploy`, `DeployProofs` |
| `ProgramSlot` | abstract: the slot a device keeps its program in | implemented by `Deploy` |
| `VM` | one execution of a pipeline | `MCVM`, `MCInterpreters`, `InterpreterProofs` |
| `Scheduler` | triggers, passes and the clock | `MCScheduler`, `SchedulerProofs` |
| `BleTransfer` | the device receiving payloads over BLE | `MCTransports`, `TransferProofs` |
| `OtaManager` | firmware updates, backend and bootloader | `MCOtaManager`, `TransferProofs` |
| `NetServers` | the payload server and the display server on one descriptor table | `MCTransports`, `NetServersProofs` |
| `Drivers`, `DriverTable` | the registry; 68 drivers as records of their decisions | `Hardware`, `MCHardware`, `HardwareProofs` |
| `PalPorts`, `PalPins`, `PalStore`, `PalTable` | ports, interrupts and key-value store of the four platforms | `Hardware`, `MCHardware`, `HardwareProofs` |
| `Boot`, `BootManifest`, `DeviceConfig` | the start of the device, its manifest, its configuration | `MCBoot`, `DeviceProofs` |
| `DeviceServices` | limiter, faults, bus, store, MQTT | `MCBoot`, `DeviceProofs` |
| `BleSession` | the encrypted session | checked as it is |
| `LuaHeap`, `LuaTable`, `LuaScript`, `Lua` | collector and allocator; tables; a run under its deadline | `MCLua`, `MCInterpreters`, `InterpreterProofs` |
| `VoiceAssistant`, `MicFilter` | the tasks of the assistant; its sample filter | `MCVoiceAssistant`, `VoiceProofs` |

Every `MC` module gives its modules small sets for TLC.  Parts that share no state
(the store and the pins, say) are checked in one run: a variable (`part`, `runs`, `way`)
says which of them takes steps in a behaviour, and the others stay where they are, so
that each part is checked as it would be alone; fairness is asked of the part that runs.
Definitions named "Mutated form of X" are plausible errors of `X`, used to see that a
property notices them; no specification uses them.

### Deploy and ProgramSlot

One action is one statement that touches shared memory, so that every
interleaving of the BLE host, TCP server, main and scheduler tasks is a behaviour:
`pc[d]` is the statement of `on_payload_received` that task `d` runs next, `at[t]`
where scheduler task `t` is in its loop.  `vm_load_program` is two steps (code,
then constants and info), the flash save three (erase, length, data),
`scheduler_stop` a request and a poll for a NULL handle, `scheduler_start` a flag
and a task creation.  Flash cells follow NOR flash: a word can be programmed only
when it is erased or holds the same value, anything else leaves garbage.
`PowerLoss` may fall between any two steps and inside a flash operation.
Payloads are the members of `Program` (what `payload_verify` accepts) or
`Garbage`.  The `Overlap` constant says whether two transports may deploy at the
same time, and `Faults` what may fail.

`ProgramSlot` promises that a program is active only while the saved copy is that
same program, and that it is replaced only after it has stopped and its copy is
gone: a device may lose its program to a power loss, it never runs one that a
restart would not bring back.  `Deploy` implements it with
`active` mapped to the program of the task that exists and `saved` to what a
restart would accept (`ImplementsSlot`).

### VM

An action is an instruction of `vm_execute`, with the checks in front of it
(deadline every eighth instruction, cap, end of the array) as actions of their
own.  The stack is its depth; a conditional jump goes either way, so a property
holds for every data.  `Spend` lets an instruction take from nothing to
`MaxCost`; a `DELAY_MS` takes what it asks, cut at the context's allowance, which
a `PIPELINE_START` overwrites.  Program memory and its loading are in `Deploy`.

The VM knows where a pipeline starts and not where it ends, and takes the target of a
jump as an index into the whole program (`vm.c:504`).  `LeftByJump` is what that gives: a
pipeline with an end at its end is left only by a jump it holds itself.  The compiler counts
the targets from the start of the pipeline (`backend/src/compiler/emitter.rs:35`, `:149`) and puts
the pipelines one behind the other without moving them (`backend/src/compiler/mod.rs:74`): what it
emits (`Emitted`) stays in its pipeline (`Contained`) only if that is the first one, which the
run `vm_relocated` shows on two pipelines and a condition.

### Scheduler

A pass looks at one pipeline per action and fires or skips it; time passes in the
execution of a pipeline (`Run`), at the end of a pass (`Delay`) and between the two
readings of the clock when a timer fires.  The clock counts modulo `Wrap`.
`age`, `fired` and `seen` are history variables for the properties.  Starting and
stopping are single steps here; their interleavings are in `Deploy`.

### BleTransfer

`Receive` is `deploy_access_cb`, the connection events are the GAP callbacks.  The client is
external: any one that keeps to what `deploy_access_cb` reads.  It sends the length with the first
data (`SendFirst`), then the rest (`SendNext`), cut into writes of any size up to `Chunk`, the
most the MTU lets through.  A payload is a sequence of its units, so that a shifted or mixed payload is
told from an intact one.  Writes without response of one connection arrive in order; one may not be
queued at all, because a client need not look at that result.

The client of this repository is *not* shown to be such a client, and cannot be.
`BleManager.transferPayload` (`android/vidyuthlabs-app/.../data/ble/BleManager.kt`) looks for the characteristic under
UUIDs other than the firmware's (`:27-29` against `ble_gatt_profile.c:42-48`), returns false when it
has not found it (`:127`), and so never begins a transfer.  If the UUIDs agreed it would write 508 bytes
at a time without asking for an MTU that holds them (`:108-147`; the firmware prefers one of 256,
`firmware/sdkconfig:621`).  What the properties of `BleTransfer` say is therefore about the device.

### OtaManager

`at` walks `ota_check_task` and `ota_download_and_apply`: check, manifest, begin,
stream, end, verify, apply, restart, sleep; each failing step goes to `Failed`.
The backend answers each request with the project of that moment, and the hash
and the image of a project are set independently.  The bootloader is external
and follows the rollback support the build enables: a selected image
boots unconfirmed, an unconfirmed one is given up at the next reset, and
`esp_ota_begin` refuses while the running image is unconfirmed.
`ota_manager_trigger_check` is two steps, as it looks at a snapshot and sets the
flag later.

### NetServers

Every call of a socket or of the mutex is a step.  Both servers take descriptors
from one table that hands out the lowest free number, so that a number one server
has closed may be a connection of the other a moment later.  A task that waits on
a descriptor is woken when another task closes it.  `Deinit` is
`dd_server_deinit`, which nothing in the firmware calls; `stopped` tells the properties
that it was.

### Drivers

A driver is a record of `DriverTable`: how many instances it has room for, what it
does with an index beyond their count (take the first one, refuse, or have one
static state), what `init` checks and gives up on, what it claims (ADC unit,
interrupt service, LEDC timer and its rate), what it accepts and what `deinit` switches
off.  `Drivers` gives all of them their behaviour: two passes of
`driver_registry_init_all` and any of `deinit_all`, one driver at a time, with a
program that reads and writes between two of them.  A handle carries the index of
the registry slot, while the driver indexes its own instances with it; most
properties say for which boards this comes out right.

### The platform abstraction layer

`PalTable` has a record per peripheral and platform: whether `init` always configures,
does nothing when a flag is set, or compares with the setting its handle remembers;
whether `deinit` clears the flag; which ports share a unit.  `PalPorts` opens, closes and
sets them in every order, with failing calls; `user` is what the calling code may
believe from the answers.  `PalPins` has the four ways to dispatch an interrupt (table
by pin, table by line, slots with wrappers).  `PalStore` writes entries cell by cell in
the layout of each platform and cuts them short anywhere.

### Boot, BootManifest, DeviceConfig

The main task walks `Steps`, the order of `app_main`; a step that initialises a module and
does nothing else that matters here is `InitModule`.  From the step that starts them the
transports may hand over a payload (`given` records what was ready then), WiFi comes and goes,
and the power may fail at any point.  The manifest is written entry by entry with the
lengths of its texts, as the buffer is what may go wrong.  The configuration is saved
entry by entry in the code's order; an entry holds the configuration it was written for, so
that a record mixed from two pairings is told from one (`OnePairing`).  `device_config_reset`
erases the namespace the manifest is kept in as well: `Boot!EraseManifest` is that step.

`PairedWhole` says that a device that starts does not come up as paired with an entry missing, and that
a save that was over left the entries of one pairing.  A second pairing does not first take the
`provisioned` flag of the earlier one away (`device_config.c:69-74`): cut off by the power it leaves the
flag over entries of both pairings until the next save or reset is over.  The variable `mixed` says
where that has happened, and `NeverMixed` (below) that it should not.

### DeviceServices and BleSession

`fault_raise` is taken apart into its reads and writes, as tasks race in it without a
lock, and it publishes to handlers that may be subscribing at the moment.  `rate_limiter_check`
runs on a clock that wraps at `Word`.  The state store is its types and its count, the MQTT
client its connection.

In `BleSession` a key of messages is the pair of key pairs it was derived from, and
messages are lost, repeated, altered, and arrive when the board has other keys.  The bytes of a
public key matter by their number and the first of them: mbedTLS writes and reads a TLS ECPoint, a length
byte and the key, 33 bytes, and `ble_crypto.c` copies 32 of these out (`:78-86`) and lets only 32 in (`:98`), which
`mbedtls_ecdh_read_public` then refuses (`:100`).  So no key is ever derived, and nothing is ever
encrypted or decrypted: the run `session_keys` shows this, and no property of messages is claimed,
since each would hold for want of a message.

### Lua

`LuaHeap` is the incremental collector step by step, with barriers, weak tables,
finalizers, emergency collections inside an allocation (inside a finalizer too, after which
`runafewfinalizers` goes on in the pause state), and the allocator of the sandbox
that counts memory; its lists are sets.  `LuaTable` follows the array part with its
limit hint, the hash part with its chains, resizing that fails half-way, and keys that die
under a traversal.  `LuaScript` has calls, protected calls, errors, finalizers,
delays and the hook that looks at the deadline.

### VoiceAssistant and MicFilter

Three tasks as in the file: capture and playback, WebSocket, configuration.  The ring is
kept with the place of every byte in the stream, so that a repeated or overtaken byte is
seen.  A driver is the settings it was opened with.  Of these a change of the sample rate or the DMA
length asks for the drivers to be opened again; one of `dma_bufs` does not (`voice_assistant.ino:405`
against 271 and 300), so `SettingsTaken` leaves that one out, and `AllSettingsTaken` (below) is what
the code does not keep.  `MicFilter` is the sample path in fixed point on words of any width.

## Runs

| Run | Bounds | Shows |
|---|---|---|
| `deploy_sequential` | 3 programs (without constants; with constants and a full table; refused by the VM), boot, BLE and TCP task, room for 2 scheduler tasks, power loss anywhere | `Isolated`: executions see one program, entire, and memory and table change only without a task; `SuccessLasts`: success means loaded, saved and running, and what runs is saved; `ImplementsSlot` |
| `deploy_faults` | the same with one transport, one task, failing flash, heap and task creation; fair | `LoadWhileStopped` and `DeploymentEnds`: memory is written only while stopped, every deployment ends |
| `interpreters_all` | bytecode: every code of up to 2 instructions over 15, and of 3 over those that spend time, with every place of the pipeline in it; stack of 2, cap of 17; fair. Lua: 3 objects of 2 sets of kinds and room for 2; 2 object keys and 3 integers, 3 of them in use at a time; deadline 2, hook 3, 4 frames; the script is fair | `TypeOK` (stack and counter keep their bounds), `LeftByJump`, `OverrunBounded`, `Terminates`; `HeapSound`, `FinalizersRun`, `TableIsMap`, `ScriptEnds` |
| `vm_relocated` | two pipelines of the compiler, the first of up to 3 nodes, the second with a condition | **violation** of `Contained` |
| `sched_all` | 15 configurations of up to 3 pipelines, clock wrapping at 26 ms, readings 0..6 around the threshold 3; fair | `OnTime`: timers keep their spacing and are prompt across the wrap, nobody starves; `FiresOnChange`: hysteresis, transitions, startup once; `TriggersReady` |
| `transports_all` | BLE: payloads of 1 and 4 units cut in every way, at most 4 units per write of which the header takes 2, a buffer of 4, 2 writes in the air; any fault; fair. TCP: one client of each server, one caller, one server task before and after a restart, 4 descriptors, payloads of 1 and 3 parts with room for 2; fair | `Intact`, `EveryTransferArrives`, `Reachable`; `DescriptorsKept`, `GivenWhole`, `ClientsServed` |
| `ota_all` | 2 firmware images and one that is none, 5 project rows, 2 slices, at most 2 project changes, 1 fault, 2 power losses; fair | `SlotsSafe`: the device stays bootable and can go back; `Verified`; `Updates`: polling goes on, a confirmed image is updated |
| `ota_second` | one project change, no fault; fair | **violation** of `EveryUpdateApplied` |
| `session_keys` | 2 phones, 2 key pairs of the board, 2 messages; keys of 31 to 33 bytes | **violation** of `BothDerive` |
| `hardware_all` | 68 drivers on 88 boards of 3 slots, 2 passes; every peripheral of 4 platforms, 2 settings; 4 pins of which two share a line; 2 keys and a store of 11 cells | `SlotsServed`, `LeftClean`, `PortsServe`, `PinsServe`, `StoreKeeps` |
| `boot_all` | an empty bus, one with doubled addresses, one with 19 devices; 1 restart; 2 configurations, 1 refused entry; 2 racing tasks, 2 faults, 5 handlers; the start is fair | `ServesWhenReady`, `ManifestSound`, `PairedWhole`, `ComesUp`, `ServicesSound` |
| `voice_all` | a ring of 4, frames of 1 and 2 in packets of 4, 3 events from outside, 2 values of `dma_bufs`; filter of 4 bits with every sample; fair | `SettingsTaken`, `PlaysInOrder`, `AudioFlows`, `NoOverflow` |

### Why the bounds are enough

* `Deploy`: the table has room for 2 pipelines, so one program fills it and one
  does not; two scheduler tasks are one more than the code means there to be, and
  suffice for a handle that names the wrong one; three programs are one running,
  one replacing it, one refused.
* `VM`: a cap of 17 is two check intervals and one, so the batch counter wraps; a
  deadline of 1 with delays of 1 and 3 and costs of 0 and 1 lies below, at and above
  every sum.  Loops make executions as long as the cap whatever the code length.
* `Scheduler`: `Wrap = 26` is the least that satisfies the assumption on intervals
  with these configurations and still lets the clock wrap within a few firings.
* `BleTransfer`: a payload that fits the first write and one that fills the buffer, cut in every
  way: a last write shorter than a header is among them.  Two writes in the air are
  one that is lost and one behind it.
* `OtaManager`: two power losses make a rollback and an update after it; one
  fault reaches each error path; two project changes fall between two requests
  and after an update.  Unbounded, the counters would only repeat this.
* `NetServers`: two listeners and two connections fill four descriptors, so that every
  closed number is taken by the other server at once; 3 parts are one more than fit.  In `transports_all` the display
  server is stopped between two commands and none is sent afterwards: nothing is promised of
  it then.  The proofs have no such restriction.
* `Drivers`: two devices of a driver, one behind another driver, and three where two fit
  are the ways in which slot and instance can differ; a second pass is what leaves
  old instances behind.
* `PalStore`: 11 cells hold one entry of either length and not two of the longer; so
  a store is filled, cut short and full.  Four pins on three lines share one.
* `Boot`: 19 devices are three more than the list holds, with the longest texts; one
  restart is a torn save and a start from it.  Two configurations are a pairing and a second one
  over it.  The configuration shares no state with the board, the bus and the radios, and with the
  manifest only the namespace, so `MCBoot` saves and resets it on a genuine board with nothing on
  the bus from then on, the manifest of two devices in NVS or none, the radios off, and one
  refused entry.  Five handlers are one more than an event has room for.
* `LuaHeap`: two of three addresses may be taken, so that one is freed and reused while
  another still refers to it; a weak table of either sort, a table with a finalizer, and a
  closure or a string are the kinds whose order in the atomic step matters.
* `LuaTable`: keys that collide in two and four nodes; three integers make the array part grow
  twice.  Three keys at a time fill either part and leave dead ones behind in the other.
* `VoiceAssistant`: three bytes in use and pieces of two wrap, overrun and leave one behind;
  three events are a change, another one while the first is taken, and a disconnection.  Two values
  of `dma_bufs` are the default and another one, which in `MCVoiceAssistant` comes first and alone
  and is followed by one more event.

`transports_all`, `hardware_all` and `voice_all` do not check for deadlock: after a
refused connection nothing can happen to the radio any more (a hazard, below); the
clients and passes of the others are bounded.

### Fairness

FreeRTOS runs every ready task, so the steps of a task are weakly fair: a
deploying task, the scheduler task, the NimBLE host, the servers, the main task, the
tasks of the assistant, and the OTA task, whose requests
time out.  Nothing makes a payload arrive, a client connect, a trigger be
requested or a project change.  `Deploy` also assumes that power losses stop,
without which no deployment could be expected to end.  In `NetServers` a client that is
connected closes, breaks off or falls silent some time.  In `Boot` an access point that
keeps being there is joined some time, and in `VoiceAssistant` the microphone delivers
sound (both strong, as either may be interrupted again and again).  In `LuaScript` a
script gets the processor and a finalizer ends by itself, because the hook does not run
in it.

## What is proved

TLAPS checks these for every value of the constants that satisfies the `ASSUME`s
of the modules.

* `DeployProofs`: `TypeCorrect`, and `Isolation` and `AlwaysIsolated`: with `Overlap = FALSE`,
  an execution only ever sees the program its pipeline was configured from,
  whatever fails and whenever the power is lost.  The property is not inductive:
  nothing in it says why no task is alive when a deployment copies.
  `IInv` adds that there is at most one deployment (`OneDeployment`), that the
  handle names the one task there is (`HandleExact`), that from the end of
  the wait to the creation of the task there is none (`QuietWhileStopped`), and what
  deployer and task know about memory at each place (`DeployerCoherent`,
  `TaskCoherent`).  On it rest, for a flash that does not fail, `ScheduledIsSaved` (what a
  task runs is what a restart brings back; `SavedInv` says what the partition holds at each
  statement of the save) and `DeployImplementsSlot`, the refinement of `ProgramSlot` step by
  step: each statement of a deployment, of the task and of the start is a step of the slot or
  leaves it alone.  `AlwaysLasts` needs besides that a task can be created and that the table
  has room for the pipelines of every program: without either, the code reports success
  although nothing runs (`SuccessRuns`, below).
* `InterpreterProofs`, of the bytecode: `TypeCorrect` (stack, counter and instruction cap for any
  code, malformed code included), `Overrun` (at most `CheckInterval` of the longest instructions
  beyond the deadline; the invariant counts the instructions since the last look)
  and `LeavesByJump` (in any program a pipeline with an end is left only by a jump of its own whose
  target is outside; with the types this is
  inductive by itself).  `FirstContained` draws from it what the compiler's code may rely on: the first
  pipeline of a program is never left.  Of later ones the same is false, as `vm_relocated` shows.
* `InterpreterProofs`, of the heap of Lua: `HeapStaysSound` and `FinalizersAlways`, for any
  objects, kinds and limits.  `HeapInv` says what the collector may still free:
  what is allocated and does not have the other white is spared (`Spared`), what is in use or
  has a finalizer is spared and refers only to what is (`Safe`), so that the rest is garbage
  nothing leads to; what a sweep has not met yet is in the lists still to come (`Sweeping`);
  and while objects are marked the gray ones are all known, none is condemned, and no weak
  table is black (`Marking`), from which the atomic step and the emergency collection both
  start.  `Closure` is the least set with what its members keep alive, so that what is
  live is inside any set that has this property; this takes the place of an induction over paths.
* `SchedulerProofs`: `TypeCorrect`, `Hysteresis`, `AlwaysReady`, `FiresWhenDue`.  The invariant
  relates `was_active` to what was read since the last firing (`Memory`) and the armed flag of
  a startup trigger to whether it fired (`Armament`).
* `TransferProofs`, of BLE: `AlwaysIntact` and `AlwaysReachable`.  `Intact` speaks of what was
  delivered, but why it is right lies in the writes that are still in the air.  `TransferInv`
  says that while nothing has failed they form a track: a sequence of places in the payloads
  that begins with what the device's buffer holds, ends where the client is, and of which each
  write leads from one place to the next.  A write received moves the beginning, one queued
  the end.  They hold for any cut into writes; of the client they take what `SendFirst` and
  `SendNext` say, and nothing of the Android application.
* `TransferProofs`, of updates: `TypeCorrect`, `AlwaysSafe`, `AppliesVerified`.
  `Selected` says which slot otadata names, `Running` that an image is whole and that
  a confirmed one is behind an unconfirmed one, `Written` what the slot being
  written holds at each stage.
* `NetServersProofs`: `AlwaysKept`, for any number of clients, senders, tasks and
  descriptors.  Numbers are given out again as soon as they are closed, so the
  invariant `Own` says of every descriptor a task remembers, at every place of every
  task, what is behind it; it holds until the display server is stopped.  `AlwaysGivenWhole`
  has no such limit: the sum of what was received and what is left is the payload that
  the client began with, whoever uses the other descriptors.
* `HardwareProofs`, of the drivers: `SlotsAreServed` and `DownIsClean`, for any board and any
  table of drivers, not only the 68 of `DriverTable`.  `DriversInv` says where the instances
  come from: each is of a device of its driver (`Placed`), on a board whose slots of a driver
  come first and without a gap they stand in the order of the slots and a pass of `init` has
  made one for each slot behind it (`InRow`), a driver that folds indices and has one device has
  one instance (`Alone`), and who has instances has claimed what it shares (`Claimed`).
  `Channels` follows the channels that `deinit` deletes, in the first life of a driver only:
  in the second, old instances are behind the handles.
* `HardwareProofs`, of the platforms: `OpenPortsServe` and `PinsAreServed`, for any rows, pins,
  lines and slots.  `PortsInv` says by which unit a port is driven (`SlotsFilled`: its own, or
  unit 0 of a table nobody has filled yet), that a port in use is switched on (`UsedIsOn`,
  `FlagIsOn`) and which setting is in force (`SettingInForce`).  `PinsInv` says that a wrapper's
  slot is its pin's (`SlotsMatch`) and that what was asked for is armed (`AskedIsArmed`).
* `HardwareProofs`, of the store: `StoreAlwaysKeeps`, for any keys, values, sizes and pages, on each
  of the four platforms.  What get answers says nothing about why a scan finds its way, so
  `StoreInv` says what the cells are: a `Chain` of addresses at each of which the cells of an entry
  that was given stand (`EntryAt`), the next one where it ends, and clear cells behind the last.
  An entry may be torn where a set is under way, or anywhere once one was cut short (`Torn`); until
  the length of its value is written nothing follows it, which is why a torn entry never leads a
  scan into the middle of another.  An acknowledged key has a whole entry in the chain (`Kept`).
  On the STM32 and the Arduino the writes to come are the rest of the entry at the end of the chain,
  a mark on one of its entries, or the wipe (`OnFlash`); on the RP2040 the copy in memory is a chain
  at all times, and the sector what is programmed of it, cut off at a page (`InShadow`,
  `TruncatedChain`).  A scan is a recursive function of the address: each of the six is
  shown to satisfy the equation of its definition (`ScanExists`) and, from an address of
  the chain, to stop at one (`ScanInto`).  Both argue from the least address for which it
  fails (`Least`), because an induction theorem cannot be cited here.
* `DeviceProofs`, of the start: `ServesReady` (the modules that are ready are those of the steps
  behind the main task, and what serves was started by one of them), `ManifestIsSound`
  (the entries written are the first devices of the bus, and 16 of the longest fit into the
  buffer: a bound on the offset by the number of entries), `PairingIsWhole` (a save under way
  has written a prefix of its entries over those of one earlier pairing, or of none; whichever
  does not hold is in `torn` or `mixed`).
* `DeviceProofs`, of the services: `ServicesAreSound` (a raised type is counted or a task is on
  its way to count it; who was told is a prefix of whom the publisher found; two readings of a
  clock differ by the time between them as long as that is less than a turn).
* `VoiceProofs`: `AlwaysInOrder` (`RingHolds`: the bytes in the ring are the last that were
  pushed, so that an overrun, a clear and a part that found no room cost bytes and never
  repeat one), `ChangesTaken` (`SettingsInv`: what has been reopened so far was reopened with
  the rate and the DMA length in force, unless a flag is set that makes `task_config` start again;
  nothing is claimed of `dma_bufs`) and
  `NeverOverflows`.  The output of the filter stays between 0 and the sum of its
  inputs, so it is never more than one full sample from the last input, and the products
  fit although each may fill more than half of the word.

### What the proofs assume

Only the `ASSUME`s of the modules, which TLC evaluates in every run, and the hypotheses a
theorem states.  `PalStore!StoreAssumption` puts every key, as the cell it takes, above the size of
the region: two characters read as a length, which the Arduino does behind a mark, are 8224 or more
and its region has 512 bytes (`hal/arduino/pal_impl.cpp:734`).  Two others say in general what the
tables of this code have in every row, and are all that the proofs know of those tables:

* `PalPorts!RowsAssumption`: where a port's handle or flag makes `init` return early, no two
  ports of the platform share a unit and none is open at boot; a table of units that starts
  zeroed belongs to an `init` that always configures, and unit 0 is one that ports share; a
  handle that remembers its setting is one that `init` looks at.
* `Drivers!DeinitAssumption`: a driver whose `deinit` switches an output off or deletes a channel
  does so to the instance of its handle, and only if there is one.

### What is only model-checked

* Everything about liveness (`DeploymentEnds`, `Terminates`, `OnTime`, `EveryTransferArrives`,
  `Updates`, `ClientsServed`, `ComesUp`, `ScriptEnds`, `AudioFlows`): out of the prover's reach.
* `TableIsMap`: the nodes of a table are found by following chains, a recursion.

## Where the code disagrees with its documents

Three runs show such a place, described in `PROJECT.json` under `findings`:

* `ota_second`: the build enables rollback and nothing confirms an image, so only one update is
  ever applied.
* `vm_relocated`: the jumps of a pipeline that is not the first of its program go to
  instructions of another pipeline ("Node ID to jump to", `docs/artifacts/03_ir_json_schema.json:498`).
* `session_keys`: `ble_crypto_set_peer_key` refuses every public key ("Both sides compute shared
  secret via ECDH", `security/ble_crypto.c:11`).

These statements are kept as definitions in the modules; each is violated, and can be seen to be
by adding it to the configuration named.

| Statement | Add to | What happens |
|---|---|---|
| `Deploy!LoadWhileStopped`, "Stop scheduler before loading new program" | `deploy_overlap.cfg` has it | two transports deploy at once and no lock keeps them apart |
| `Deploy!AtomicSwap`, "Atomic program swap" (`docs/artifacts/10_end_to_end_trace.md:468`) | `deploy_sequential.cfg` | power is lost between erase and write: neither program is there |
| `Deploy!StateReset`, "Reset all state variables to initial values" (the same, 478) | `deploy_sequential.cfg` | state variables outlive their program |
| `Deploy!SuccessRuns`, "Deployment complete, program running" | `deploy_faults.cfg` | the task could not be created (`scheduler.c:149`) |
| `Deploy!SaveIsDurable`, "Program saved to flash partition" | `deploy_faults.cfg` | a failing flash operation is ignored (`app_main.c:106`) |
| `VM!DeadlineEveryInstruction` (`vm.c:12`) | `interpreters_all.cfg` | it is checked every eighth instruction (`vm.c:230`) |
| `VM!YieldResumes`, "pause and resume later" (`vm.c:526`) | `interpreters_all.cfg` | a pipeline that yielded starts from its beginning |
| `BleTransfer!UndisturbedArrives` (`include/comms.h:28`) | `transports_all.cfg` | a transfer after an interrupted one is appended to it |
| `NetServers!CommandsReachPhone`, "Thread-safe" | `transports_all.cfg` | the phone's connection is closed between the look at the descriptor and the send, and a deployer has taken its number |
| `Drivers!DeinitSwitchesOff`, "Turn off relay (safe state) before de-initializing" | `hardware_all.cfg` | `deinit` of a relay behind another device finds no instance |
| `PalPorts!InitMeansReady` (`hal/include/parakram_pal.h:5`) | `hardware_all.cfg` | a handle or a flag that remembers a closed port: `init` answers OK and configures nothing |
| `PalStore!LastSetRead`, "Simple key=value store" | `hardware_all.cfg` | after a cut-off set the torn value is found for ever |
| `PalStore!ErasedSkipped` (`hal/arduino/pal_impl.cpp:730`) | `hardware_all.cfg` | the Arduino stops its scan at an entry marked as erased |
| `VoiceAssistant!QuietMeansDrained`, "ring truly drained" | `voice_all.cfg` | a ring whose mutex is not had within 1 ms counts as empty, and data may come in before playing ends |
| `VoiceAssistant!BuffersAlive`, "wait for reinit to complete" | `voice_all.cfg` | the frame in hand is freed and made anew |
| `VoiceAssistant!AnyChunkSent`, `OnlyMicSent` | `voice_all.cfg` | a chunk size the frames never reach is never sent; the length of a packet outlives its block, so the first packet after a change of the DMA length begins with whatever the new block holds |
| `VoiceAssistant!AllSettingsTaken` | `voice_all.cfg` | a change of `dma_bufs` (`voice_assistant.ino:405`) leaves the drivers open with the number of buffers before |
| `DeviceConfig!NeverMixed` | `boot_all.cfg` | a second pairing is cut off by the power: the flag of the first one is over entries of both |
| `BleSession!PublicKeyRead`, "Returns pointer to 32-byte local public key" (`include/ble_crypto.h:18`) | `session_keys.cfg` | what is read is the length byte and the key without its end |
| `LuaHeap!MemUsedIsHeap`, "Memory-limited allocator" | `lua_limit.cfg` has it | for a new object the old size Lua passes is its type, which the sandbox takes off the count |
| `LuaScript!DeadlineEnforced`, "Execution deadline enforcement" | `interpreters_all.cfg` | the error of the hook is caught by a protected call |

Two pipelines that share the id of a trigger also compete for it, and the later one in the table
is never executed (`scheduler.c:103`); the `OnTime` of `Scheduler` excepts it.

Noticed, and not checked by a run:

* The device cannot be found any more after a failed BLE connection attempt
  (`ble_gatt_profile.c:139`; `Reachable` excepts it).
* Hysteresis is ignored for gte and lte, and eq with a hysteresis of 0 never holds; triggers of the
  IR are not in the payload, so every pipeline gets a 5 s timer.
* The OTA endpoints read columns (`bytecode_hash`, `bytecode_b64`) that
  `backend/migrations/001_init.sql` does not create, and what they would serve is bytecode, not an
  application image, which `esp_ota_end` refuses.
* Nothing in the firmware calls the rate limiter, the MQTT client, `event_bus_subscribe`,
  `ble_crypto`, `device_config_save` and `device_config_reset`, or the Lua sandbox; the WiFi
  credentials and the `provisioned` flag that `device_config_load` reads are never used.
* `device_config_save` answers true though an entry was refused.  The scheduler feeds the
  watchdog from a task that is not registered with it.
* An empty plaintext encrypts to 28 bytes, which `ble_crypto_decrypt` refuses.
* A finalizer runs without the hook, and a call of the C library counts as one
  instruction, so neither is ended by the deadline of a script.  Emergency collections
  can put off finalizers for as long as they follow each other.

## Not modelled

* Values: what a program computes, sensor values except at triggers, cryptography.
  SHA-256 is injective in `OtaManager`, signatures are the set `Program` in `Deploy`, and
  `BleSession` has of the cryptography whose keys a message was made with and the format of a public key.
* The layout of a payload and the arithmetic on it in `payload_verify`, device identity: functions
  of bytes without state.
* What a driver does with the registers of its device, the bit timing of one-wire, clocks, delays
  and the bytes of a transfer: they depend on hardware that is not in the source.
* Of the voice assistant: recording (nothing in the file starts one), tones, volume, the choice of a
  pipeline, WiFi reconnection and ArduinoOTA.
* Of Lua: the compiler, the virtual machine, the string table, the standard libraries and the
  generational mode.  The sandbox does not turn that mode on, but opens the base library, so
  a script may (`collectgarbage("generational")`): what is shown of the heap is shown of scripts that do not.
* The 500 ms timeout of the OTA status mutex (it is held for a copy of a few fields), progress
  counters, log messages, LEDs.
* The Android client of BLE (see `BleTransfer`), scanning, service discovery and the status
  characteristic.
* The backend apart from its firmware endpoints.  Compiler and validator are recursive translations
  inside one request; `VM!Emitted` says of the compiler's output what matters to the VM, and is
  not shown of it.  Quotas, the rate limiter and the other services are single statements on
  PostgreSQL or one function behind a mutex; the race of quotas
  (`backend/src/billing/quota.rs:85`, checked before the work and counted after) is listed as a
  hazard and not covered.
* User interfaces, desktop tools, language models, ROS 2, the experimental RTOS, board start-up
  code: no part of the device firmware.
