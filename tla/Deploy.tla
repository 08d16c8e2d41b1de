------------------------------ MODULE Deploy ------------------------------
(***************************************************************************)
(* Replacing the program of a device: on_payload_received (app_main.c),    *)
(* the scheduler task it stops and starts (scheduler.c), the VM's program  *)
(* memory (vm.c) and the flash partition the program is kept in.           *)
(*                                                                         *)
(* on_payload_received runs in the task that received the payload: the     *)
(* NimBLE host task, the TCP server task, or the main task, which replays  *)
(* the payload found in flash while the other two are already serving.     *)
(* No lock is taken anywhere, so every access to shared memory, to         *)
(* s_state.running, to s_task_handle and to the partition is a step of     *)
(* its own here.  A power loss may fall between any two steps.             *)
(***************************************************************************)
EXTENDS Naturals, Sequences, FiniteSets

CONSTANTS
  Deployer,      \* tasks that may run on_payload_received
  Boot,          \* the one of them that is app_main's task
  Program,       \* payloads payload_verify accepts on this device
  HasConstants,  \* those of Program with num_constants > 0
  Oversized,     \* those of Program with num_constants > SYS_MAX_CONSTANTS
  Pipelines,     \* Pipelines[p]: PIPELINE_START instructions of program p
  MaxPipelines,  \* SYS_MAX_PIPELINES
  Task,          \* scheduler tasks the heap has room for at once
  None,          \* no program; an erased flash cell; a NULL task handle
  Garbage,       \* bytes that are no program payload_verify accepts
  Overlap,       \* whether a payload may arrive while another is deployed
  Faults         \* what may fail: "flash" (erase, write), "task" (create),
                 \* "heap" (the buffer for the saved program)

ASSUME DeployAssumption ==
  /\ Boot \in Deployer
  /\ HasConstants \subseteq Program
  /\ Oversized \subseteq HasConstants
  /\ Pipelines \in [Program -> Nat]
  /\ MaxPipelines \in Nat
  /\ None \notin Program \cup Task \cup Deployer
  /\ Garbage \notin Program \cup {None}
  /\ Overlap \in BOOLEAN
  /\ Faults \subseteq {"flash", "task", "heap"}

VARIABLES
  pc,       \* pc[d]: the statement of on_payload_received d runs next
  job,      \* job[d]: the payload d is deploying
  added,    \* added[d]: pipelines d has added to the scheduler so far
  running,  \* s_state.running
  config,   \* s_state.pipelines: the program each entry was read from
  handle,   \* s_task_handle
  at,       \* at[t]: where scheduler task t is in its loop
  idx,      \* idx[t]: the i of its pass over the pipelines
  exec,     \* exec[t]: the program whose pipeline t is executing
  image,    \* s_instructions, s_constants, s_program_info: whose bytes
  store,    \* programs whose values are in the state store
  flash,    \* the "program" partition: length word and payload bytes
  live      \* the program of the last EVT_DEPLOY_SUCCESS (history)

deployVars == <<pc, job, added>>
schedVars  == <<running, config, handle>>
taskVars   == <<at, idx, exec>>
memVars    == <<image, store>>
vars       == <<deployVars, schedVars, taskVars, memVars, flash, live>>

Payload == Program \cup {Garbage}

Step == {"idle", "readLen", "readData", "verify", "stop", "wait", "code",
         "consts", "erase", "writeLen", "writeData", "init", "add",
         "start", "create", "report"}

\* The partition holding the bytes of p and p's length.
Flashed(p) == [len |-> p, data |-> p]

\* What app_main finds at step 17: everything volatile is new, and the main
\* task is about to read the partition.
AtBoot   == [d \in Deployer |-> IF d = Boot THEN "readLen" ELSE "idle"]
NoTasks  == [t \in Task |-> "absent"]
NoImage  == [code |-> None, consts |-> None, info |-> None]

Init ==
  /\ pc = AtBoot /\ job = [d \in Deployer |-> None] /\ added = [d \in Deployer |-> 0]
  /\ running = FALSE /\ config = <<>> /\ handle = None
  /\ at = NoTasks /\ idx = [t \in Task |-> 1] /\ exec = [t \in Task |-> None]
  /\ image = NoImage /\ store = {}
  /\ flash = Flashed(None)
  /\ live = None

Goto(d, from, to) ==
  /\ pc[d] = from
  /\ pc' = [pc EXCEPT ![d] = to]

(***************************************************************************)
(* Receiving a payload, and its verification.                              *)
(***************************************************************************)

\* A complete payload reaches the callback of the BLE or the WiFi task.
\* With Overlap = FALSE the environment waits for the previous one to end.
Receive(d, x) ==
  /\ d # Boot
  /\ Overlap \/ \A e \in Deployer : pc[e] = "idle"
  /\ Goto(d, "idle", "verify")
  /\ job' = [job EXCEPT ![d] = x]
  /\ UNCHANGED <<added, schedVars, taskVars, memVars, flash, live>>

\* Mutated form of Verify: the scheduler is not stopped.
VerifyNoStop(d) ==
  /\ \/ job[d] \in Program    /\ Goto(d, "verify", "code")
     \/ job[d] \notin Program /\ Goto(d, "verify", "idle")
  /\ UNCHANGED <<job, added, schedVars, taskVars, memVars, flash, live>>

\* payload_verify accepts exactly the members of Program; a refused payload
\* is reported with EVT_DEPLOY_FAILURE and changes nothing else.
Verify(d) ==
  /\ \/ job[d] \in Program    /\ Goto(d, "verify", "stop")
     \/ job[d] \notin Program /\ Goto(d, "verify", "idle")
  /\ UNCHANGED <<job, added, schedVars, taskVars, memVars, flash, live>>

(***************************************************************************)
(* scheduler_stop: clear the flag, then poll until the handle is NULL.     *)
(***************************************************************************)
StopRequest(d) ==
  /\ Goto(d, "stop", "wait")
  /\ running' = FALSE
  /\ UNCHANGED <<job, added, config, handle, taskVars, memVars, flash, live>>

\* Mutated form of StopDone: no wait for the task to end.
StopDoneNoWait(d) ==
  /\ Goto(d, "wait", "code")
  /\ UNCHANGED <<job, added, schedVars, taskVars, memVars, flash, live>>

StopDone(d) ==
  /\ Goto(d, "wait", "code")
  /\ handle = None
  /\ UNCHANGED <<job, added, schedVars, taskVars, memVars, flash, live>>

(***************************************************************************)
(* vm_load_program: the size check, then the copy in two steps, code       *)
(* before constants and program info.                                      *)
(***************************************************************************)

\* A refused load leaves the scheduler stopped and the old image in place.
LoadRefused(d) ==
  /\ job[d] \in Oversized
  /\ Goto(d, "code", "idle")
  /\ UNCHANGED <<job, added, schedVars, taskVars, memVars, flash, live>>

LoadCode(d) ==
  /\ job[d] \notin Oversized
  /\ Goto(d, "code", "consts")
  /\ image' = [image EXCEPT !.code = job[d]]
  /\ UNCHANGED <<job, added, schedVars, taskVars, store, flash, live>>

LoadConsts(d) ==
  /\ Goto(d, "consts", "erase")
  /\ image' = [image EXCEPT
                 !.consts = IF job[d] \in HasConstants THEN job[d] ELSE @,
                 !.info   = job[d]]
  /\ UNCHANGED <<job, added, schedVars, taskVars, store, flash, live>>

(***************************************************************************)
(* Saving to flash.  Programming flash can only clear bits, so a write     *)
(* over a cell that is not erased leaves Garbage unless it held the same   *)
(* bytes.  No return value is looked at.                                   *)
(***************************************************************************)
Programmed(cell, p) == IF cell \in {None, p} THEN p ELSE Garbage

FlashStep(d, from, to, new) ==
  /\ Goto(d, from, to)
  /\ \/ flash' = new
     \/ "flash" \in Faults /\ flash' = flash
  /\ UNCHANGED <<job, added, schedVars, taskVars, memVars, live>>

\* Mutated form of Erase: the partition is not erased.
EraseSkipped(d) == FlashStep(d, "erase", "writeLen", flash)

Erase(d)     == FlashStep(d, "erase", "writeLen", Flashed(None))
WriteLen(d)  == FlashStep(d, "writeLen", "writeData",
                  [flash EXCEPT !.len = Programmed(@, job[d])])
WriteData(d) == FlashStep(d, "writeData", "init",
                  [flash EXCEPT !.data = Programmed(@, job[d])])

(***************************************************************************)
(* Configuring and starting the scheduler.                                 *)
(***************************************************************************)

\* scheduler_init: memset over s_state, the running flag included; the task
\* handle is not part of s_state.
SchedulerInit(d) ==
  /\ Goto(d, "init", "add")
  /\ running' = FALSE
  /\ config' = <<>>
  /\ added' = [added EXCEPT ![d] = 0]
  /\ UNCHANGED <<job, handle, taskVars, memVars, flash, live>>

\* One PIPELINE_START: a 5 s timer trigger and a pipeline entry.  A full
\* table drops the entry; the return value is not looked at.
AddPipeline(d) ==
  /\ pc[d] = "add"
  /\ added[d] < Pipelines[job[d]]
  /\ added' = [added EXCEPT ![d] = @ + 1]
  /\ config' = IF Len(config) < MaxPipelines THEN Append(config, job[d])
                                             ELSE config
  /\ UNCHANGED <<pc, job, running, handle, taskVars, memVars, flash, live>>

AddDone(d) ==
  /\ Goto(d, "add", "start")
  /\ added[d] >= Pipelines[job[d]]
  /\ UNCHANGED <<job, added, schedVars, taskVars, memVars, flash, live>>

\* scheduler_start: returns at once when the flag is set.
StartFlag(d) ==
  /\ \/ running /\ Goto(d, "start", "report") /\ UNCHANGED running
     \/ ~running /\ Goto(d, "start", "create") /\ running' = TRUE
  /\ UNCHANGED <<job, added, config, handle, taskVars, memVars, flash, live>>

\* xTaskCreatePinnedToCore stores the new task's handle before it can run.
StartTask(d) ==
  /\ Goto(d, "create", "report")
  /\ \/ \E t \in Task : /\ at[t] = "absent"
                        /\ at' = [at EXCEPT ![t] = "top"]
                        /\ handle' = t
     \/ /\ "task" \in Faults \/ \A t \in Task : at[t] # "absent"
        /\ UNCHANGED <<at, handle>>
  /\ UNCHANGED <<job, added, running, config, idx, exec, memVars, flash, live>>

\* EVT_DEPLOY_SUCCESS is published whatever scheduler_start returned.
Report(d) ==
  /\ Goto(d, "report", "idle")
  /\ live' = job[d]
  /\ UNCHANGED <<job, added, schedVars, taskVars, memVars, flash>>

(***************************************************************************)
(* scheduler_task.  The flag is read at the top of a pass only.            *)
(***************************************************************************)
PassBegins(t) ==
  /\ at[t] = "top"
  /\ running
  /\ at'  = [at EXCEPT ![t] = "pass"]
  /\ idx' = [idx EXCEPT ![t] = 1]
  /\ UNCHANGED <<deployVars, schedVars, exec, memVars, flash, live>>

\* The trigger of pipeline i is not due.
Skip(t) ==
  /\ at[t] = "pass"
  /\ idx[t] <= Len(config)
  /\ idx' = [idx EXCEPT ![t] = @ + 1]
  /\ UNCHANGED <<deployVars, schedVars, at, exec, memVars, flash, live>>

\* It is: the context is reset and vm_execute entered.
Dispatch(t) ==
  /\ at[t] = "pass"
  /\ idx[t] <= Len(config)
  /\ at'   = [at EXCEPT ![t] = "run"]
  /\ exec' = [exec EXCEPT ![t] = config[idx[t]]]
  /\ UNCHANGED <<deployVars, schedVars, idx, memVars, flash, live>>

\* vm_execute returns; unless no program is loaded it ran the code in the
\* image, which may have written state variables.
Complete(t) ==
  /\ at[t] = "run"
  /\ at'   = [at EXCEPT ![t] = "pass"]
  /\ exec' = [exec EXCEPT ![t] = None]
  /\ idx'  = [idx EXCEPT ![t] = @ + 1]
  /\ store' = IF image.info = None THEN store ELSE store \cup {image.code}
  /\ UNCHANGED <<deployVars, schedVars, image, flash, live>>

PassEnds(t) ==
  /\ at[t] = "pass"
  /\ idx[t] > Len(config)
  /\ at' = [at EXCEPT ![t] = "top"]
  /\ UNCHANGED <<deployVars, schedVars, idx, exec, memVars, flash, live>>

\* Mutated form of Exit: the handle is left as it is.
ExitKeepsHandle(t) ==
  /\ at[t] = "top"
  /\ ~running
  /\ at' = [at EXCEPT ![t] = "absent"]
  /\ UNCHANGED <<deployVars, schedVars, idx, exec, memVars, flash, live>>

\* The task clears the handle, whichever task the handle names, and ends.
Exit(t) ==
  /\ at[t] = "top"
  /\ ~running
  /\ at' = [at EXCEPT ![t] = "absent"]
  /\ handle' = None
  /\ UNCHANGED <<deployVars, running, config, idx, exec, memVars, flash, live>>

(***************************************************************************)
(* try_load_from_flash, and the power loss that leads to it.               *)
(***************************************************************************)

\* An erased length word ends the load; any other is taken as a length.
ReadLen ==
  /\ \/ flash.len = None /\ Goto(Boot, "readLen", "idle")
     \/ flash.len # None /\ Goto(Boot, "readLen", "readData")
  /\ job' = [job EXCEPT ![Boot] = flash.len]
  /\ UNCHANGED <<added, schedVars, taskVars, memVars, flash, live>>

\* The bytes verify only when the length read before is theirs.
ReadData ==
  /\ Goto(Boot, "readData", "verify")
  /\ job' = [job EXCEPT ![Boot] =
               IF flash.data = job[Boot] /\ flash.data \in Program
               THEN flash.data ELSE Garbage]
  /\ UNCHANGED <<added, schedVars, taskVars, memVars, flash, live>>

\* The length word was out of range, or the buffer could not be allocated.
LoadAbandoned ==
  /\ job[Boot] = Garbage \/ "heap" \in Faults
  /\ Goto(Boot, "readData", "idle")
  /\ UNCHANGED <<job, added, schedVars, taskVars, memVars, flash, live>>

\* Power returns with RAM gone and the partition as the last completed
\* flash operation left it, or with the one in progress done in part.
PowerLoss ==
  /\ pc' = AtBoot /\ job' = [d \in Deployer |-> None] /\ added' = [d \in Deployer |-> 0]
  /\ running' = FALSE /\ config' = <<>> /\ handle' = None
  /\ at' = NoTasks /\ idx' = [t \in Task |-> 1] /\ exec' = [t \in Task |-> None]
  /\ image' = NoImage /\ store' = {}
  /\ \/ UNCHANGED flash
     \/ (\E d \in Deployer : pc[d] = "erase") /\ flash' = Flashed(Garbage)
     \/ (\E d \in Deployer : pc[d] = "writeLen") /\ flash' = [flash EXCEPT !.len = Garbage]
     \/ (\E d \in Deployer : pc[d] = "writeData") /\ flash' = [flash EXCEPT !.data = Garbage]
  /\ UNCHANGED live

DeployerStep(d) ==
  \/ Verify(d) \/ StopRequest(d) \/ StopDone(d)
  \/ LoadRefused(d) \/ LoadCode(d) \/ LoadConsts(d)
  \/ Erase(d) \/ WriteLen(d) \/ WriteData(d)
  \/ SchedulerInit(d) \/ AddPipeline(d) \/ AddDone(d)
  \/ StartFlag(d) \/ StartTask(d) \/ Report(d)

BootStep == ReadLen \/ ReadData \/ LoadAbandoned

TaskStep(t) ==
  PassBegins(t) \/ Skip(t) \/ Dispatch(t) \/ Complete(t) \/ PassEnds(t) \/ Exit(t)

Next ==
  \/ \E d \in Deployer : DeployerStep(d) \/ \E x \in Payload : Receive(d, x)
  \/ \E t \in Task : TaskStep(t)
  \/ BootStep
  \/ PowerLoss

Spec == Init /\ [][Next]_vars

\* FreeRTOS runs every ready task; nothing makes a payload arrive.  Power
\* losses must stop for a deployment to have the time it takes.
Fairness ==
  /\ \A d \in Deployer : WF_vars(DeployerStep(d))
  /\ \A t \in Task : WF_vars(TaskStep(t))
  /\ WF_vars(BootStep)

FairSpec == Spec /\ Fairness /\ <>[][~PowerLoss]_vars

(***************************************************************************)
(* Properties.                                                             *)
(***************************************************************************)
TypeOK ==
  /\ pc \in [Deployer -> Step]
  /\ job \in [Deployer -> Payload \cup {None}]
  /\ added \in [Deployer -> Nat]
  /\ running \in BOOLEAN
  /\ config \in Seq(Program)
  /\ handle \in Task \cup {None}
  /\ at \in [Task -> {"absent", "top", "pass", "run"}]
  /\ idx \in [Task -> Nat \ {0}]
  /\ exec \in [Task -> Program \cup {None}]
  /\ image \in [code : Program \cup {None}, consts : Program \cup {None},
                info : Program \cup {None}]
  /\ store \subseteq Program
  /\ flash \in [len : Payload \cup {None}, data : Payload \cup {None}]
  /\ live \in Program \cup {None}

\* Scheduler tasks that exist.
Alive == {t \in Task : at[t] # "absent"}

\* The program memory holds program p and nothing of another program.
Loaded(p) ==
  /\ image.code = p
  /\ image.info = p
  /\ p \in HasConstants => image.consts = p

\* What try_load_from_flash would find.
Saved == IF flash.len = flash.data /\ flash.len \in Program THEN flash.len ELSE None

\* vm_execute never sees the program memory of another program than the one
\* its pipeline entry was configured from, nor one half overwritten
\* (scheduler.c:111-118 against vm.c:159-175).
ExecutionIsolated == \A t \in Task : at[t] = "run" => Loaded(exec[t])

\* Program memory is written only while no scheduler task exists: "Stop
\* scheduler before loading new program" (app_main.c:88).
LoadWhileStopped ==
  \A d \in Deployer : pc[d] \in {"code", "consts"} => Alive = {}

\* The pipeline table is cleared and filled only while no scheduler task
\* walks it (scheduler_init and scheduler_add_pipeline against
\* scheduler.c:97-131).
ConfigureWhileStopped ==
  \A d \in Deployer : pc[d] \in {"init", "add"} => Alive = {}

\* s_task_handle names the scheduler task there is, and there is one at
\* most: what scheduler_stop's wait for NULL relies on (scheduler.c:157).
HandleNamesTask == \A t \in Task : at[t] # "absent" => handle = t

\* EVT_DEPLOY_SUCCESS is published only for a program that is loaded, saved,
\* scheduled with all its pipelines and running (app_main.c:146).
SuccessMeansRunning ==
  \A d \in Deployer : pc[d] = "report" =>
    /\ Loaded(job[d])
    /\ Saved = job[d]
    /\ config = [i \in 1..Pipelines[job[d]] |-> job[d]]
    /\ running /\ Alive # {}

\* A program that is scheduled is the one a restart would bring back.
RunningIsSaved == Alive # {} => Saved = image.info

\* Every received payload is dealt with: scheduler_stop's wait ends, and the
\* task that received it goes back to receiving.
DeploymentEnds == \A d \in Deployer : pc[d] = "verify" ~> pc[d] = "idle"

\* After a power loss the device finds a program again if it ever had one:
\* "Atomic program swap" (docs/artifacts/10_end_to_end_trace.md:468).
AtomicSwap == pc[Boot] = "readLen" /\ live # None => Saved # None

\* A newly deployed program starts on a state store no other program wrote:
\* "Reset all state variables to initial values" (the same, line 478).
StateReset == \A d \in Deployer : pc[d] = "report" => store \subseteq {job[d]}

\* Success is reported only for a program that is running: "Deployment
\* complete, program running" (docs/artifacts/08_android_architecture.md:431).
SuccessRuns == \A d \in Deployer : pc[d] = "report" => Alive # {}

\* After the writes the partition holds the program: "Program saved to flash
\* partition" (app_main.c:109).
SaveIsDurable == \A d \in Deployer : pc[d] = "init" => Saved = job[d]

\* The deployment implements the abstract program slot.
Slot == INSTANCE ProgramSlot WITH
  active <- IF Alive = {} THEN None ELSE image.info,
  saved  <- Saved

ImplementsSlot == Slot!SlotSpec

\* The variables have their types, and memory and table belong to whoever uses
\* them: a running task sees the whole program its entry names, the table
\* changes while nobody walks it, and the handle names the one task there is.
Isolated == TypeOK /\ ExecutionIsolated /\ ConfigureWhileStopped /\ HandleNamesTask

\* A reported success means a complete, saved and running program, and what is
\* scheduled at any time is what a restart brings back (app_main.c:88-148).
SuccessLasts == SuccessMeansRunning /\ RunningIsSaved

===========================================================================
