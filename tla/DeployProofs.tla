--------------------------- MODULE DeployProofs ---------------------------
(***************************************************************************)
(* Proofs about Deploy.  Its types.  Deployments which do not overlap      *)
(* never touch the program memory or the pipeline table of a scheduler     *)
(* task that still exists.  What such deployments schedule is the saved    *)
(* program, a deployment reported as done is the one that runs, and        *)
(* together they implement a single slot for programs, ProgramSlot.        *)
(***************************************************************************)
EXTENDS Deploy, TLAPS

\* The statements after verification, and those after scheduler_stop.
Accepted == {"stop", "wait", "code", "consts", "erase", "writeLen",
             "writeData", "init", "add", "start", "create", "report"}
Stopped  == Accepted \ {"stop", "wait", "report"}
LoadDone == Accepted \ {"stop", "wait", "code", "consts"}
Filling  == {"add", "start", "create", "report"}

\* What is deployed after verification is a program.
JobInv == \A d \in Deployer : pc[d] \in Accepted => job[d] \in Program

\* A program with its info in place has code, and so has one being loaded.
ImageInv ==
  (image.info # None \/ \E d \in Deployer : pc[d] = "consts") => image.code # None

TypeInv == TypeOK /\ JobInv /\ ImageInv

\* One deployment at a time.
OneDeployment ==
  \A d, e \in Deployer : pc[d] # "idle" /\ pc[e] # "idle" => d = e

\* The handle names the scheduler task exactly while there is one.
HandleExact == \A t \in Task : at[t] # "absent" <=> handle = t

\* Between the end of scheduler_stop and xTaskCreate there is no task.
QuietWhileStopped == \A d \in Deployer : pc[d] \in Stopped => handle = None

\* A deployment past the load has its whole program in memory, and fills the
\* table with nothing else.
DeployerCoherent ==
  \A d \in Deployer :
    /\ pc[d] = "consts" => image.code = job[d]
    /\ pc[d] \in LoadDone => Loaded(job[d])
    /\ pc[d] \in Filling => \A i \in 1..Len(config) : config[i] = job[d]

\* A scheduler task walks a table of the loaded program and executes it.
TaskCoherent ==
  \A t \in Task : at[t] # "absent" =>
    /\ Loaded(image.info)
    /\ \A i \in 1..Len(config) : config[i] = image.info
    /\ at[t] = "run" => exec[t] = image.info

IInv ==
  /\ TypeInv
  /\ OneDeployment
  /\ HandleExact
  /\ QuietWhileStopped
  /\ DeployerCoherent
  /\ TaskCoherent

-----------------------------------------------------------------------------
(***************************************************************************)
(* Types.                                                                  *)
(***************************************************************************)

\* Moving one deployer leaves the others where they are.
LEMMA GotoStep ==
  ASSUME NEW d \in Deployer, NEW from, NEW to \in Step,
         pc \in [Deployer -> Step], Goto(d, from, to)
  PROVE  /\ pc' \in [Deployer -> Step]
         /\ pc[d] = from /\ pc'[d] = to
         /\ \A e \in Deployer : e # d => pc'[e] = pc[e]
  BY DEF Goto

LEMMA TypeInit == Init => TypeInv
  <1> SUFFICES ASSUME Init PROVE TypeInv
    OBVIOUS
  <1>1. /\ pc \in [Deployer -> Step]
        /\ \A d \in Deployer : pc[d] \in {"idle", "readLen"}
    BY DEF Init, AtBoot, Step
  <1>2. TypeOK
    <2>1. image \in [code : Program \cup {None}, consts : Program \cup {None},
                     info : Program \cup {None}]
      BY DEF Init, NoImage
    <2>2. flash \in [len : Payload \cup {None}, data : Payload \cup {None}]
      BY DEF Init, Flashed
    <2>3. config \in Seq(Program)
      BY DEF Init
    <2>4. /\ job \in [Deployer -> Payload \cup {None}] /\ added \in [Deployer -> Nat]
          /\ at \in [Task -> {"absent", "top", "pass", "run"}]
          /\ idx \in [Task -> Nat \ {0}] /\ exec \in [Task -> Program \cup {None}]
      BY DEF Init, NoTasks
    <2>5. running \in BOOLEAN /\ handle \in Task \cup {None} /\ store \subseteq Program
          /\ live \in Program \cup {None}
      BY DEF Init
    <2> QED
      BY <1>1, <2>1, <2>2, <2>3, <2>4, <2>5 DEF TypeOK
  <1>3. JobInv
    BY <1>1 DEF JobInv, Accepted
  <1>4. ImageInv
    BY <1>1 DEF Init, NoImage, ImageInv
  <1> QED
    BY <1>2, <1>3, <1>4 DEF TypeInv

\* Every step keeps the types, and what passed verification stays a program.
LEMMA TypeStep == TypeInv /\ [Next]_vars => TypeInv'
  <1> SUFFICES ASSUME TypeInv, [Next]_vars
               PROVE  TypeInv'
    OBVIOUS
  <1> USE DeployAssumption DEF TypeInv, TypeOK, JobInv, ImageInv, Payload,
          deployVars, schedVars, taskVars, memVars
  <1>1. ASSUME NEW d \in Deployer, NEW x \in Payload, Receive(d, x)
       PROVE  TypeInv'
    <2>1. /\ pc' \in [Deployer -> Step] /\ pc[d] = "idle" /\ pc'[d] = "verify"
          /\ \A e \in Deployer : e # d => pc'[e] = pc[e]
      BY <1>1, GotoStep DEF Receive, Step
    <2>2. TypeOK'
      BY <1>1, <2>1 DEF Receive, Accepted
    <2>3. JobInv'
      BY <1>1, <2>1 DEF Receive, Accepted
    <2>4. ImageInv'
      BY <1>1, <2>1 DEF Receive, Accepted
    <2> QED
      BY <2>2, <2>3, <2>4
  <1>2. ASSUME NEW d \in Deployer, Verify(d)
       PROVE  TypeInv'
    <2>1. /\ pc' \in [Deployer -> Step] /\ pc[d] = "verify" /\ pc'[d] \in {"stop", "idle"}
          /\ pc'[d] = "stop" => job[d] \in Program
          /\ \A e \in Deployer : e # d => pc'[e] = pc[e]
      BY <1>2, GotoStep DEF Verify, Step
    <2>2. UNCHANGED <<job, added, schedVars, taskVars, memVars, flash, live>>
      BY <1>2 DEF Verify
    <2>3. TypeOK'
      BY <2>1, <2>2
    <2>4. JobInv'
      BY <2>1, <2>2 DEF Accepted
    <2>5. ImageInv'
      BY <2>1, <2>2
    <2> QED
      BY <2>3, <2>4, <2>5
  <1>3. ASSUME NEW d \in Deployer, StopRequest(d)
       PROVE  TypeInv'
    <2>1. /\ pc' \in [Deployer -> Step] /\ pc[d] = "stop" /\ pc'[d] = "wait"
          /\ \A e \in Deployer : e # d => pc'[e] = pc[e]
      BY <1>3, GotoStep DEF StopRequest, Step
    <2>2. TypeOK'
      BY <1>3, <2>1 DEF StopRequest, Accepted
    <2>3. JobInv'
      BY <1>3, <2>1 DEF StopRequest, Accepted
    <2>4. ImageInv'
      BY <1>3, <2>1 DEF StopRequest, Accepted
    <2> QED
      BY <2>2, <2>3, <2>4
  <1>4. ASSUME NEW d \in Deployer, StopDone(d)
       PROVE  TypeInv'
    <2>1. /\ pc' \in [Deployer -> Step] /\ pc[d] = "wait" /\ pc'[d] = "code"
          /\ \A e \in Deployer : e # d => pc'[e] = pc[e]
      BY <1>4, GotoStep DEF StopDone, Step
    <2>2. TypeOK'
      BY <1>4, <2>1 DEF StopDone, Accepted
    <2>3. JobInv'
      BY <1>4, <2>1 DEF StopDone, Accepted
    <2>4. ImageInv'
      BY <1>4, <2>1 DEF StopDone, Accepted
    <2> QED
      BY <2>2, <2>3, <2>4
  <1>5. ASSUME NEW d \in Deployer, LoadRefused(d)
       PROVE  TypeInv'
    <2>1. /\ pc' \in [Deployer -> Step] /\ pc[d] = "code" /\ pc'[d] = "idle"
          /\ \A e \in Deployer : e # d => pc'[e] = pc[e]
      BY <1>5, GotoStep DEF LoadRefused, Step
    <2>2. TypeOK'
      BY <1>5, <2>1 DEF LoadRefused, Accepted
    <2>3. JobInv'
      BY <1>5, <2>1 DEF LoadRefused, Accepted
    <2>4. ImageInv'
      BY <1>5, <2>1 DEF LoadRefused, Accepted
    <2> QED
      BY <2>2, <2>3, <2>4
  <1>6. ASSUME NEW d \in Deployer, LoadCode(d)
       PROVE  TypeInv'
    <2>1. /\ pc' \in [Deployer -> Step] /\ pc[d] = "code" /\ pc'[d] = "consts"
          /\ \A e \in Deployer : e # d => pc'[e] = pc[e]
      BY <1>6, GotoStep DEF LoadCode, Step
    <2>2. TypeOK'
      BY <1>6, <2>1 DEF LoadCode, Accepted
    <2>3. JobInv'
      BY <1>6, <2>1 DEF LoadCode, Accepted
    <2>4. ImageInv'
      BY <1>6, <2>1 DEF LoadCode, Accepted
    <2> QED
      BY <2>2, <2>3, <2>4
  <1>7. ASSUME NEW d \in Deployer, LoadConsts(d)
       PROVE  TypeInv'
    <2>1. /\ pc' \in [Deployer -> Step] /\ pc[d] = "consts" /\ pc'[d] = "erase"
          /\ \A e \in Deployer : e # d => pc'[e] = pc[e]
      BY <1>7, GotoStep DEF LoadConsts, Step
    <2>2. TypeOK'
      BY <1>7, <2>1 DEF LoadConsts, Accepted
    <2>3. JobInv'
      BY <1>7, <2>1 DEF LoadConsts, Accepted
    <2>4. ImageInv'
      BY <1>7, <2>1 DEF LoadConsts, Accepted
    <2> QED
      BY <2>2, <2>3, <2>4
  <1>8. ASSUME NEW d \in Deployer, Erase(d)
       PROVE  TypeInv'
    <2>1. /\ pc' \in [Deployer -> Step] /\ pc[d] = "erase" /\ pc'[d] = "writeLen"
          /\ \A e \in Deployer : e # d => pc'[e] = pc[e]
      BY <1>8, GotoStep DEF Erase, Step, FlashStep
    <2>2. TypeOK'
      BY <1>8, <2>1 DEF Erase, Accepted, FlashStep, Flashed
    <2>3. JobInv'
      BY <1>8, <2>1 DEF Erase, Accepted, FlashStep
    <2>4. ImageInv'
      BY <1>8, <2>1 DEF Erase, Accepted, FlashStep
    <2> QED
      BY <2>2, <2>3, <2>4
  <1>9. ASSUME NEW d \in Deployer, WriteLen(d)
       PROVE  TypeInv'
    <2>1. /\ pc' \in [Deployer -> Step] /\ pc[d] = "writeLen" /\ pc'[d] = "writeData"
          /\ \A e \in Deployer : e # d => pc'[e] = pc[e]
      BY <1>9, GotoStep DEF WriteLen, Step, FlashStep
    <2>2. TypeOK'
      BY <1>9, <2>1, SMTT(20) DEF WriteLen, Accepted, FlashStep, Programmed
    <2>3. JobInv'
      BY <1>9, <2>1 DEF WriteLen, Accepted, FlashStep
    <2>4. ImageInv'
      BY <1>9, <2>1 DEF WriteLen, Accepted, FlashStep
    <2> QED
      BY <2>2, <2>3, <2>4
  <1>10. ASSUME NEW d \in Deployer, WriteData(d)
       PROVE  TypeInv'
    <2>1. /\ pc' \in [Deployer -> Step] /\ pc[d] = "writeData" /\ pc'[d] = "init"
          /\ \A e \in Deployer : e # d => pc'[e] = pc[e]
      BY <1>10, GotoStep DEF WriteData, Step, FlashStep
    <2>2. TypeOK'
      BY <1>10, <2>1, ZenonT(20) DEF WriteData, Accepted, FlashStep, Programmed
    <2>3. JobInv'
      BY <1>10, <2>1 DEF WriteData, Accepted, FlashStep
    <2>4. ImageInv'
      BY <1>10, <2>1 DEF WriteData, Accepted, FlashStep
    <2> QED
      BY <2>2, <2>3, <2>4
  <1>11. ASSUME NEW d \in Deployer, SchedulerInit(d)
       PROVE  TypeInv'
    <2>1. /\ pc' \in [Deployer -> Step] /\ pc[d] = "init" /\ pc'[d] = "add"
          /\ \A e \in Deployer : e # d => pc'[e] = pc[e]
      BY <1>11, GotoStep DEF SchedulerInit, Step
    <2>2. TypeOK'
      <3>1. config' \in Seq(Program)
        BY <1>11 DEF SchedulerInit
      <3>2. added' \in [Deployer -> Nat] /\ running' \in BOOLEAN
        BY <1>11 DEF SchedulerInit
      <3> QED
        BY <1>11, <2>1, <3>1, <3>2 DEF SchedulerInit
    <2>3. JobInv'
      BY <1>11, <2>1 DEF SchedulerInit, Accepted
    <2>4. ImageInv'
      BY <1>11, <2>1 DEF SchedulerInit, Accepted
    <2> QED
      BY <2>2, <2>3, <2>4
  <1>12. ASSUME NEW d \in Deployer, AddDone(d)
       PROVE  TypeInv'
    <2>1. /\ pc' \in [Deployer -> Step] /\ pc[d] = "add" /\ pc'[d] = "start"
          /\ \A e \in Deployer : e # d => pc'[e] = pc[e]
      BY <1>12, GotoStep DEF AddDone, Step
    <2>2. TypeOK'
      BY <1>12, <2>1 DEF AddDone, Accepted
    <2>3. JobInv'
      BY <1>12, <2>1 DEF AddDone, Accepted
    <2>4. ImageInv'
      BY <1>12, <2>1 DEF AddDone, Accepted
    <2> QED
      BY <2>2, <2>3, <2>4
  <1>13. ASSUME NEW d \in Deployer, StartFlag(d)
       PROVE  TypeInv'
    <2>1. /\ pc' \in [Deployer -> Step] /\ pc[d] = "start" /\ pc'[d] \in {"report", "create"}
          /\ \A e \in Deployer : e # d => pc'[e] = pc[e]
      BY <1>13, GotoStep DEF StartFlag, Step
    <2>2. TypeOK'
      BY <1>13, <2>1 DEF StartFlag, Accepted
    <2>3. JobInv'
      BY <1>13, <2>1 DEF StartFlag, Accepted
    <2>4. ImageInv'
      BY <1>13, <2>1 DEF StartFlag, Accepted
    <2> QED
      BY <2>2, <2>3, <2>4
  <1>14. ASSUME NEW d \in Deployer, StartTask(d)
       PROVE  TypeInv'
    <2>1. /\ pc' \in [Deployer -> Step] /\ pc[d] = "create" /\ pc'[d] = "report"
          /\ \A e \in Deployer : e # d => pc'[e] = pc[e]
      BY <1>14, GotoStep DEF StartTask, Step
    <2>2. TypeOK'
      BY <1>14, <2>1, ZenonT(20) DEF StartTask, Accepted
    <2>3. JobInv'
      BY <1>14, <2>1 DEF StartTask, Accepted
    <2>4. ImageInv'
      BY <1>14, <2>1 DEF StartTask, Accepted
    <2> QED
      BY <2>2, <2>3, <2>4
  <1>15. ASSUME NEW d \in Deployer, Report(d)
       PROVE  TypeInv'
    <2>1. /\ pc' \in [Deployer -> Step] /\ pc[d] = "report" /\ pc'[d] = "idle"
          /\ \A e \in Deployer : e # d => pc'[e] = pc[e]
      BY <1>15, GotoStep DEF Report, Step
    <2>2. TypeOK'
      BY <1>15, <2>1 DEF Report, Accepted
    <2>3. JobInv'
      BY <1>15, <2>1 DEF Report, Accepted
    <2>4. ImageInv'
      BY <1>15, <2>1 DEF Report, Accepted
    <2> QED
      BY <2>2, <2>3, <2>4
  <1>16. ASSUME NEW d \in Deployer, AddPipeline(d)
       PROVE  TypeInv'
    BY <1>16, SMTT(20) DEF AddPipeline, Accepted
  <1>17. ASSUME NEW t \in Task, PassBegins(t)
       PROVE  TypeInv'
    BY <1>17 DEF PassBegins
  <1>18. ASSUME NEW t \in Task, Skip(t)
       PROVE  TypeInv'
    BY <1>18 DEF Skip
  <1>19. ASSUME NEW t \in Task, Dispatch(t)
       PROVE  TypeInv'
    BY <1>19 DEF Dispatch
  <1>20. ASSUME NEW t \in Task, Complete(t)
       PROVE  TypeInv'
    BY <1>20 DEF Complete
  <1>21. ASSUME NEW t \in Task, PassEnds(t)
       PROVE  TypeInv'
    BY <1>21 DEF PassEnds
  <1>22. ASSUME NEW t \in Task, Exit(t)
       PROVE  TypeInv'
    BY <1>22 DEF Exit
  <1>23. ASSUME ReadLen
       PROVE  TypeInv'
    <2>1. /\ pc' \in [Deployer -> Step] /\ pc'[Boot] \in {"idle", "readData"}
          /\ \A e \in Deployer : e # Boot => pc'[e] = pc[e]
      BY <1>23, GotoStep DEF ReadLen, Step
    <2>2. TypeOK'
      BY <1>23, <2>1 DEF ReadLen
    <2>3. JobInv'
      BY <1>23, <2>1 DEF ReadLen, Accepted
    <2>4. ImageInv'
      BY <1>23, <2>1 DEF ReadLen
    <2> QED
      BY <2>2, <2>3, <2>4
  <1>24. ASSUME ReadData
       PROVE  TypeInv'
    <2>1. /\ pc' \in [Deployer -> Step] /\ pc'[Boot] = "verify"
          /\ \A e \in Deployer : e # Boot => pc'[e] = pc[e]
      BY <1>24, GotoStep DEF ReadData, Step
    <2>2. TypeOK'
      BY <1>24, <2>1 DEF ReadData
    <2>3. JobInv'
      BY <1>24, <2>1 DEF ReadData, Accepted
    <2>4. ImageInv'
      BY <1>24, <2>1 DEF ReadData
    <2> QED
      BY <2>2, <2>3, <2>4
  <1>25. ASSUME LoadAbandoned
       PROVE  TypeInv'
    <2>1. /\ pc' \in [Deployer -> Step] /\ pc'[Boot] = "idle"
          /\ \A e \in Deployer : e # Boot => pc'[e] = pc[e]
      BY <1>25, GotoStep DEF LoadAbandoned, Step
    <2>2. TypeOK'
      BY <1>25, <2>1 DEF LoadAbandoned
    <2>3. JobInv'
      BY <1>25, <2>1 DEF LoadAbandoned, Accepted
    <2>4. ImageInv'
      BY <1>25, <2>1 DEF LoadAbandoned
    <2> QED
      BY <2>2, <2>3, <2>4
  <1>26. ASSUME PowerLoss
       PROVE  TypeInv'
    <2>1. /\ pc' \in [Deployer -> Step]
          /\ \A d \in Deployer : pc'[d] \in {"idle", "readLen"}
      BY <1>26 DEF PowerLoss, AtBoot, Step
    <2>2. TypeOK'
      <3>1. image' \in [code : Program \cup {None}, consts : Program \cup {None},
                        info : Program \cup {None}]
        BY <1>26 DEF PowerLoss, NoImage
      <3>2. flash' \in [len : Payload \cup {None}, data : Payload \cup {None}]
        <4>1. \/ flash' = flash
              \/ flash' = Flashed(Garbage)
              \/ flash' = [flash EXCEPT !.len = Garbage]
              \/ flash' = [flash EXCEPT !.data = Garbage]
          BY <1>26, Zenon DEF PowerLoss
        <4> QED
          BY <4>1 DEF Flashed
      <3>3. config' \in Seq(Program)
        BY <1>26 DEF PowerLoss
      <3>4. /\ job' \in [Deployer -> Payload \cup {None}] /\ added' \in [Deployer -> Nat]
            /\ at' \in [Task -> {"absent", "top", "pass", "run"}]
            /\ idx' \in [Task -> Nat \ {0}] /\ exec' \in [Task -> Program \cup {None}]
        BY <1>26 DEF PowerLoss, NoTasks
      <3>5. /\ running' \in BOOLEAN /\ handle' \in Task \cup {None}
            /\ store' \subseteq Program /\ live' \in Program \cup {None}
        BY <1>26 DEF PowerLoss
      <3> QED
        BY <2>1, <3>1, <3>2, <3>3, <3>4, <3>5
    <2>3. JobInv'
      BY <2>1 DEF Accepted
    <2>4. ImageInv'
      BY <1>26, <2>1 DEF PowerLoss, NoImage
    <2> QED
      BY <2>2, <2>3, <2>4
  <1>27. CASE UNCHANGED vars
    BY <1>27 DEF vars
  <1> QED
    BY <1>1, <1>2, <1>3, <1>4, <1>5, <1>6, <1>7, <1>8, <1>9, <1>10, <1>11, <1>12, <1>13, <1>14, <1>15, <1>16, <1>17, <1>18, <1>19, <1>20, <1>21, <1>22, <1>23, <1>24, <1>25, <1>26, <1>27
    DEF Next, DeployerStep, TaskStep, BootStep

\* The variables keep their types whatever overlaps, fails or loses power.
THEOREM TypeCorrect == Spec => []TypeOK
  <1>1. TypeInv => TypeOK
    BY DEF TypeInv
  <1> QED
    BY TypeInit, TypeStep, <1>1, PTL DEF Spec

-----------------------------------------------------------------------------
(***************************************************************************)
(* Deployments that do not overlap.                                        *)
(***************************************************************************)

\* The device boots with no task, no table and one busy deployer.
LEMMA InitIInv == Init => IInv
  <1> SUFFICES ASSUME Init PROVE IInv
    OBVIOUS
  <1>1. TypeInv
    BY TypeInit
  <1>2. \A d \in Deployer : pc[d] \in {"idle", "readLen"} /\ (pc[d] # "idle" => d = Boot)
    BY DEF Init, AtBoot
  <1>3. OneDeployment
    BY <1>2 DEF OneDeployment
  <1>4. (\A t \in Task : at[t] = "absent") /\ handle = None
    BY DEF Init, NoTasks
  <1>5. HandleExact /\ TaskCoherent
    BY <1>4, DeployAssumption DEF HandleExact, TaskCoherent
  <1>6. QuietWhileStopped /\ DeployerCoherent
    BY <1>2 DEF QuietWhileStopped, DeployerCoherent, Stopped, LoadDone, Filling, Accepted
  <1> QED
    BY <1>1, <1>3, <1>5, <1>6 DEF IInv

\* The deployer that moves is the only busy one.
LEMMA OthersIdle ==
  ASSUME IInv, NEW d \in Deployer, pc[d] # "idle"
  PROVE  \A e \in Deployer : e # d => pc[e] = "idle"
  BY DEF IInv, OneDeployment

\* A step of the only busy deployer that leaves scheduler, tasks and program
\* memory alone keeps the invariant if it enters no phase unprepared.
LEMMA ControlStep ==
  ASSUME IInv, TypeInv', NEW d \in Deployer,
         \A e \in Deployer : e # d => pc[e] = "idle" /\ pc'[e] = "idle",
         UNCHANGED <<config, handle, at, exec, image>>,
         pc'[d] # "consts", pc'[d] \in Stopped => handle = None,
         pc'[d] \in LoadDone => pc[d] \in LoadDone /\ job'[d] = job[d],
         pc'[d] \in Filling => pc[d] \in Filling
  PROVE  IInv'
  <1> USE DEF IInv
  <1>1. OneDeployment'
    BY DEF OneDeployment
  <1>2. HandleExact'
    BY DEF HandleExact
  <1>3. QuietWhileStopped'
    BY DEF QuietWhileStopped, Stopped, Accepted
  <1>4. DeployerCoherent'
    BY DEF DeployerCoherent, Loaded, LoadDone, Filling, Accepted
  <1>5. TaskCoherent'
    BY DEF TaskCoherent, Loaded
  <1> QED
    BY <1>1, <1>2, <1>3, <1>4, <1>5

\* The steps of on_payload_received, Overlap = FALSE.
LEMMA DeployerKeepsIInv ==
  ASSUME IInv, TypeInv', NEW d \in Deployer, DeployerStep(d)
  PROVE  IInv'
  <1>1. /\ pc[d] \in Accepted \cup {"verify"}
        /\ pc \in [Deployer -> Step]
    BY DEF DeployerStep, Verify, StopRequest, StopDone, LoadRefused, LoadCode,
       LoadConsts, Erase, WriteLen, WriteData, FlashStep, SchedulerInit,
       AddPipeline, AddDone, StartFlag, StartTask, Report, Goto, Accepted,
       IInv, TypeInv, TypeOK
  <1>2. \A e \in Deployer : e # d => pc[e] = "idle"
    BY <1>1, OthersIdle DEF Accepted
  <1>3. QuietWhileStopped /\ DeployerCoherent /\ HandleExact /\ TaskCoherent
    BY DEF IInv
  <1>4. CASE Verify(d) \/ StopRequest(d) \/ StopDone(d) \/ LoadRefused(d) \/ AddDone(d)
             \/ StartFlag(d) \/ Report(d)
    <2>1. /\ UNCHANGED <<config, handle, at, exec, image, job>>
          /\ \A e \in Deployer : e # d => pc'[e] = pc[e]
          /\ \/ pc[d] = "verify" /\ pc'[d] \in {"stop", "idle"}
             \/ pc[d] = "stop"   /\ pc'[d] = "wait"
             \/ pc[d] = "wait"   /\ pc'[d] = "code" /\ handle = None
             \/ pc[d] = "code"   /\ pc'[d] = "idle"
             \/ pc[d] = "add"    /\ pc'[d] = "start"
             \/ pc[d] = "start"  /\ pc'[d] \in {"report", "create"}
             \/ pc[d] = "report" /\ pc'[d] = "idle"
      BY <1>1, <1>4 DEF Verify, StopRequest, StopDone, LoadRefused, AddDone,
         StartFlag, Report, Goto, schedVars, taskVars, memVars
    <2>2. pc'[d] \in Stopped => handle = None
      BY <1>3, <2>1 DEF QuietWhileStopped, Stopped, Accepted
    <2>3. /\ pc'[d] \in LoadDone => pc[d] \in LoadDone
          /\ pc'[d] \in Filling => pc[d] \in Filling
      BY <2>1 DEF LoadDone, Filling, Accepted
    <2> QED
      BY <1>2, <2>1, <2>2, <2>3, ControlStep
  <1>5. CASE Erase(d) \/ WriteLen(d) \/ WriteData(d)
    <2>1. /\ UNCHANGED <<config, handle, at, exec, image, job>>
          /\ \A e \in Deployer : e # d => pc'[e] = pc[e]
          /\ pc[d] \in {"erase", "writeLen", "writeData"}
          /\ pc'[d] \in {"writeLen", "writeData", "init"}
      BY <1>1, <1>5 DEF Erase, WriteLen, WriteData, FlashStep, Goto, schedVars,
         taskVars, memVars
    <2>2. /\ handle = None
          /\ pc[d] \in LoadDone /\ pc'[d] \notin Filling
      BY <1>3, <2>1 DEF QuietWhileStopped, Stopped, LoadDone, Filling, Accepted
    <2> QED
      BY <1>2, <2>1, <2>2, ControlStep
  <1>6. CASE LoadCode(d) \/ LoadConsts(d) \/ SchedulerInit(d) \/ AddPipeline(d)
    <2>1. /\ UNCHANGED <<handle, at, exec, job>>
          /\ \A e \in Deployer : e # d => pc'[e] = "idle"
          /\ \/ pc[d] = "code"   /\ pc'[d] = "consts"
             \/ pc[d] = "consts" /\ pc'[d] = "erase"
             \/ pc[d] = "init"   /\ pc'[d] = "add"
             \/ pc[d] = "add"    /\ pc'[d] = "add"
      BY <1>1, <1>2, <1>6 DEF LoadCode, LoadConsts, SchedulerInit, AddPipeline, Goto,
         schedVars, taskVars, memVars
    <2>2. handle = None /\ \A t \in Task : at[t] = "absent"
      BY <1>3, <2>1, DeployAssumption DEF QuietWhileStopped, HandleExact, Stopped, Accepted
    <2>3. OneDeployment' /\ HandleExact' /\ QuietWhileStopped' /\ TaskCoherent'
      BY <1>3, <2>1, <2>2 DEF OneDeployment, HandleExact, QuietWhileStopped, TaskCoherent
    <2>4. /\ image \in [code : Program \cup {None}, consts : Program \cup {None},
                        info : Program \cup {None}]
          /\ config \in Seq(Program)
      BY DEF IInv, TypeInv, TypeOK
    <2>5. CASE LoadCode(d)
      <3>1. pc'[d] = "consts" /\ image'.code = job'[d]
        BY <1>1, <2>1, <2>4, <2>5 DEF LoadCode, Goto
      <3>2. DeployerCoherent'
        BY <2>1, <3>1 DEF DeployerCoherent, LoadDone, Filling, Accepted
      <3> QED
        BY <2>3, <3>2 DEF IInv
    <2>6. CASE LoadConsts(d)
      <3>1. pc[d] = "consts" /\ pc'[d] = "erase"
        BY <1>1, <2>6 DEF LoadConsts, Goto
      <3>2. image.code = job[d]
        BY <1>3, <3>1 DEF DeployerCoherent
      <3>3. /\ image'.code = job[d] /\ image'.info = job[d]
            /\ job[d] \in HasConstants => image'.consts = job[d]
        BY <2>4, <2>6, <3>2 DEF LoadConsts
      <3>4. Loaded(job[d])'
        BY <2>1, <3>3 DEF Loaded
      <3>5. DeployerCoherent'
        BY <2>1, <3>1, <3>4 DEF DeployerCoherent, LoadDone, Filling, Accepted
      <3> QED
        BY <2>3, <3>5 DEF IInv
    <2>7. CASE SchedulerInit(d) \/ AddPipeline(d)
      <3>1. /\ pc[d] \in LoadDone /\ pc'[d] = "add" /\ image' = image
        BY <1>1, <2>7 DEF SchedulerInit, AddPipeline, Goto, LoadDone, Accepted, memVars
      <3>2. Loaded(job[d])'
        BY <1>3, <2>1, <3>1 DEF DeployerCoherent, Loaded
      <3>3. \A i \in 1..Len(config') : config'[i] = job[d]
        <4>1. CASE SchedulerInit(d)
          BY <4>1 DEF SchedulerInit
        <4>2. CASE AddPipeline(d)
          <5>1. \A i \in 1..Len(config) : config[i] = job[d]
            BY <1>3, <4>2 DEF AddPipeline, DeployerCoherent, Filling
          <5>2. job[d] \in Program
            BY <4>2 DEF AddPipeline, IInv, TypeInv, JobInv, Accepted
          <5>3. config' = config \/ config' = Append(config, job[d])
            BY <4>2 DEF AddPipeline
          <5> QED
            BY <2>4, <5>1, <5>2, <5>3
        <4> QED
          BY <2>7, <4>1, <4>2
      <3>4. DeployerCoherent'
        BY <2>1, <3>1, <3>2, <3>3 DEF DeployerCoherent, LoadDone, Filling, Accepted
      <3> QED
        BY <2>3, <3>4 DEF IInv
    <2> QED
      BY <1>6, <2>5, <2>6, <2>7
  <1>7. CASE StartTask(d)
    <2>1. /\ UNCHANGED <<config, image, job, exec>>
          /\ pc[d] = "create" /\ pc'[d] = "report"
          /\ \A e \in Deployer : e # d => pc'[e] = "idle"
      BY <1>1, <1>2, <1>7 DEF StartTask, Goto, memVars
    <2>2. OneDeployment' /\ QuietWhileStopped'
      BY <2>1 DEF OneDeployment, QuietWhileStopped, Stopped, Accepted
    <2>3. /\ handle = None /\ \A t \in Task : at[t] = "absent"
          /\ Loaded(job[d]) /\ \A i \in 1..Len(config) : config[i] = job[d]
      BY <1>3, <2>1, DeployAssumption DEF QuietWhileStopped, HandleExact,
         DeployerCoherent, Stopped, LoadDone, Filling, Accepted
    <2>4. DeployerCoherent'
      BY <2>1, <2>3 DEF DeployerCoherent, Loaded, LoadDone, Filling, Accepted
    <2>5. \/ handle' = None /\ \A t \in Task : at'[t] = "absent"
          \/ \E t \in Task : /\ handle' = t /\ at'[t] = "top"
                             /\ \A u \in Task : u # t => at'[u] = "absent"
      BY <1>7, <2>3 DEF StartTask, IInv, TypeInv, TypeOK
    <2>6. HandleExact'
      BY <2>5, DeployAssumption DEF HandleExact
    <2>7. TaskCoherent'
      <3>1. Loaded(image.info)' /\ image.info = job[d]
        BY <2>1, <2>3 DEF Loaded
      <3>2. \A i \in 1..Len(config') : config'[i] = image'.info
        BY <2>1, <2>3, <3>1
      <3>3. \A t \in Task : at'[t] # "run"
        BY <2>5
      <3> QED
        BY <3>1, <3>2, <3>3 DEF TaskCoherent
    <2> QED
      BY <2>2, <2>4, <2>6, <2>7 DEF IInv
  <1> QED
    BY <1>4, <1>5, <1>6, <1>7 DEF DeployerStep

\* The steps of the scheduler task.
LEMMA TaskKeepsIInv ==
  ASSUME IInv, TypeInv', NEW t \in Task, TaskStep(t)
  PROVE  IInv'
  <1>1. /\ UNCHANGED <<pc, job, config, image>>
        /\ at[t] # "absent" /\ at \in [Task -> {"absent", "top", "pass", "run"}]
        /\ idx[t] \in Nat \ {0} /\ exec \in [Task -> Program \cup {None}]
    BY DEF TaskStep, PassBegins, Skip, Dispatch, Complete, PassEnds, Exit,
       deployVars, schedVars, memVars, IInv, TypeInv, TypeOK
  <1>2. handle = t /\ \A u \in Task : u # t => at[u] = "absent"
    BY <1>1 DEF IInv, HandleExact
  <1>3. OneDeployment' /\ DeployerCoherent'
    BY <1>1 DEF IInv, OneDeployment, DeployerCoherent, Loaded
  <1>4. \A d \in Deployer : pc[d] \notin Stopped
    BY <1>2, DeployAssumption DEF IInv, QuietWhileStopped
  <1>5. QuietWhileStopped'
    BY <1>1, <1>4 DEF QuietWhileStopped
  <1>6. /\ Loaded(image.info) /\ \A i \in 1..Len(config) : config[i] = image.info
        /\ at[t] = "run" => exec[t] = image.info
    BY <1>1 DEF IInv, TaskCoherent
  <1>7. /\ \A u \in Task : u # t => at'[u] = "absent"
        /\ \/ at'[t] # "absent" /\ handle' = t
           \/ at'[t] = "absent" /\ handle' = None
        /\ at'[t] = "run" => exec'[t] = image.info
    BY <1>1, <1>2, <1>6 DEF TaskStep, PassBegins, Skip, Dispatch, Complete, PassEnds,
       Exit, schedVars
  <1>8. HandleExact'
    BY <1>7, DeployAssumption DEF HandleExact
  <1>9. TaskCoherent'
    BY <1>1, <1>6, <1>7 DEF TaskCoherent, Loaded
  <1> QED
    BY <1>3, <1>5, <1>8, <1>9 DEF IInv

\* With deployments that do not overlap, every step keeps the invariant.
LEMMA StepIInv ==
  ASSUME Overlap = FALSE, IInv, [Next]_vars
  PROVE  IInv'
  <1>1. TypeInv'
    BY TypeStep DEF IInv
  <1>2. ASSUME NEW d \in Deployer, NEW x \in Payload, Receive(d, x)
        PROVE  IInv'
    <2>1. /\ UNCHANGED <<config, handle, at, exec, image>>
          /\ \A e \in Deployer : pc[e] = "idle"
          /\ pc' = [pc EXCEPT ![d] = "verify"]
      BY <1>2 DEF Receive, Goto, schedVars, taskVars, memVars
    <2>2. pc'[d] = "verify" /\ \A e \in Deployer : e # d => pc'[e] = "idle"
      BY <2>1 DEF IInv, TypeInv, TypeOK
    <2> QED
      BY <1>1, <2>1, <2>2, ControlStep DEF Stopped, LoadDone, Filling, Accepted
  <1>3. CASE BootStep
    <2>1. /\ UNCHANGED <<config, handle, at, exec, image>>
          /\ pc[Boot] \in {"readLen", "readData"}
          /\ pc'[Boot] \in {"idle", "readData", "verify"}
          /\ \A e \in Deployer : e # Boot => pc'[e] = pc[e]
      BY <1>3, DeployAssumption DEF BootStep, ReadLen, ReadData, LoadAbandoned, Goto,
         schedVars, taskVars, memVars, IInv, TypeInv, TypeOK
    <2>2. \A e \in Deployer : e # Boot => pc[e] = "idle" /\ pc'[e] = "idle"
      BY <2>1, OthersIdle, DeployAssumption
    <2>3. pc'[Boot] \notin Stopped \cup LoadDone \cup Filling \cup {"consts"}
      BY <2>1 DEF Stopped, LoadDone, Filling, Accepted
    <2> QED
      BY <1>1, <2>1, <2>2, <2>3, ControlStep, DeployAssumption
  <1>4. CASE PowerLoss
    <2>1. /\ \A d \in Deployer : pc'[d] \in {"idle", "readLen"} /\ (pc'[d] # "idle" => d = Boot)
          /\ handle' = None /\ \A t \in Task : at'[t] = "absent"
      BY <1>4 DEF PowerLoss, AtBoot, NoTasks
    <2>2. OneDeployment' /\ QuietWhileStopped' /\ DeployerCoherent'
      BY <2>1 DEF OneDeployment, QuietWhileStopped, DeployerCoherent, Stopped, LoadDone,
         Filling, Accepted
    <2>3. HandleExact' /\ TaskCoherent'
      BY <2>1, DeployAssumption DEF HandleExact, TaskCoherent
    <2> QED
      BY <1>1, <2>2, <2>3 DEF IInv
  <1>5. CASE UNCHANGED vars
    BY <1>1, <1>5 DEF vars, deployVars, schedVars, taskVars, memVars, IInv, OneDeployment,
       HandleExact, QuietWhileStopped, DeployerCoherent, TaskCoherent, Loaded
  <1> QED
    BY <1>1, <1>2, <1>3, <1>4, <1>5, DeployerKeepsIInv, TaskKeepsIInv DEF Next

\* What the invariant says of the program memory, the table and the handle.
LEMMA IInvIsolates ==
  IInv => ExecutionIsolated /\ LoadWhileStopped /\ ConfigureWhileStopped /\ HandleNamesTask
  <1> SUFFICES ASSUME IInv
               PROVE  ExecutionIsolated /\ LoadWhileStopped /\ ConfigureWhileStopped
                      /\ HandleNamesTask
    OBVIOUS
  <1>1. ExecutionIsolated
    BY DEF IInv, TaskCoherent, ExecutionIsolated
  <1>2. \A d \in Deployer : pc[d] \in Stopped => Alive = {}
    BY DeployAssumption DEF IInv, QuietWhileStopped, HandleExact, Alive
  <1>3. LoadWhileStopped /\ ConfigureWhileStopped
    BY <1>2 DEF LoadWhileStopped, ConfigureWhileStopped, Stopped, Accepted
  <1>4. HandleNamesTask
    BY DEF IInv, HandleExact, HandleNamesTask
  <1> QED
    BY <1>1, <1>3, <1>4

\* While deployments do not overlap, vm_execute only ever runs the whole
\* program its pipeline was configured from, memory and table are written
\* only while no scheduler task exists, and the handle names that task:
\* for any number of tasks, programs and pipelines, whatever fails and
\* whenever power is lost.
THEOREM Isolation ==
  ASSUME Overlap = FALSE
  PROVE  Spec => [](ExecutionIsolated /\ LoadWhileStopped /\ ConfigureWhileStopped
                    /\ HandleNamesTask)
  <1>1. IInv /\ [Next]_vars => IInv'
    BY StepIInv
  <1> QED
    BY InitIInv, <1>1, IInvIsolates, PTL DEF Spec

\* The same with the types, as the runs check it: whoever uses memory, table
\* and handle uses its own.
THEOREM AlwaysIsolated ==
  ASSUME Overlap = FALSE
  PROVE  Spec => []Isolated
  <1>1. TypeOK /\ (ExecutionIsolated /\ LoadWhileStopped /\ ConfigureWhileStopped
                   /\ HandleNamesTask) => Isolated
    BY DEF Isolated
  <1> QED
    BY TypeCorrect, Isolation, <1>1, PTL

-----------------------------------------------------------------------------
(***************************************************************************)
(* What is saved, when flash operations do not fail.                       *)
(***************************************************************************)

\* A deployment that has saved its program.
Written == {"init"} \cup Filling

\* What the partition holds while it is written, and that a task runs what it holds.
SavedInv ==
  /\ \A d \in Deployer :
       /\ pc[d] = "writeLen" => flash = Flashed(None)
       /\ pc[d] = "writeData" => flash = [len |-> job[d], data |-> None]
       /\ pc[d] \in Written => flash = Flashed(job[d])
  /\ Alive # {} => image.info \in Program /\ flash = Flashed(image.info)

\* Erase, write of the length and write of the payload, none of which fails.
LEMMA FlashSteps ==
  ASSUME "flash" \notin Faults, TypeInv, SavedInv, NEW d \in Deployer
  PROVE  /\ Erase(d) => flash' = Flashed(None)
         /\ WriteLen(d) => flash' = [len |-> job[d], data |-> None]
         /\ WriteData(d) => flash' = Flashed(job[d])
  <1>1. ASSUME Erase(d) PROVE flash' = Flashed(None)
    BY <1>1 DEF Erase, FlashStep
  <1>2. ASSUME WriteLen(d) PROVE flash' = [len |-> job[d], data |-> None]
    <2>1. flash = Flashed(None)
      BY <1>2 DEF WriteLen, FlashStep, Goto, SavedInv
    <2> QED
      BY <1>2, <2>1 DEF WriteLen, FlashStep, Flashed, Programmed
  <1>3. ASSUME WriteData(d) PROVE flash' = Flashed(job[d])
    <2>1. flash = [len |-> job[d], data |-> None]
      BY <1>3 DEF WriteData, FlashStep, Goto, SavedInv
    <2> QED
      BY <1>3, <2>1 DEF WriteData, FlashStep, Flashed, Programmed
  <1> QED
    BY <1>1, <1>2, <1>3

\* Nobody is alive from the end of the wait to the creation of the task.
LEMMA NobodyAlive ==
  ASSUME IInv, NEW d \in Deployer, pc[d] \in Stopped
  PROVE  Alive = {} /\ handle = None
  BY DeployAssumption DEF IInv, QuietWhileStopped, HandleExact, Alive

\* A step of the deployer, the others being idle.
LEMMA DeployerKeepsSaved ==
  ASSUME "flash" \notin Faults, IInv, SavedInv, NEW d \in Deployer, DeployerStep(d)
  PROVE  SavedInv'
  <1>1. /\ pc[d] # "idle" /\ pc \in [Deployer -> Step]
        /\ at \in [Task -> {"absent", "top", "pass", "run"}]
    BY DEF DeployerStep, Verify, StopRequest, StopDone, LoadRefused, LoadCode,
       LoadConsts, Erase, WriteLen, WriteData, FlashStep, SchedulerInit,
       AddPipeline, AddDone, StartFlag, StartTask, Report, Goto,
       IInv, TypeInv, TypeOK
  <1>2. \A e \in Deployer : e # d => pc[e] = "idle"
    BY <1>1, OthersIdle
  <1>3. CASE Verify(d) \/ StopRequest(d) \/ StopDone(d) \/ LoadRefused(d) \/ AddDone(d)
             \/ StartFlag(d) \/ Report(d) \/ SchedulerInit(d) \/ AddPipeline(d)
    <2>1. /\ UNCHANGED <<job, at, image, flash>>
          /\ \A e \in Deployer : e # d => pc'[e] = pc[e]
          /\ pc'[d] \notin {"writeLen", "writeData"}
          /\ pc'[d] \in Written => pc[d] \in Written
      BY <1>1, <1>3 DEF Verify, StopRequest, StopDone, LoadRefused, AddDone, StartFlag,
         Report, SchedulerInit, AddPipeline, Goto, taskVars, memVars, Written, Filling
    <2> QED
      BY <1>2, <2>1 DEF SavedInv, Alive, Written, Filling
  <1>4. CASE LoadCode(d) \/ LoadConsts(d)
    <2>1. /\ UNCHANGED <<job, at, flash>>
          /\ \A e \in Deployer : e # d => pc'[e] = pc[e]
          /\ pc[d] \in Stopped /\ pc'[d] \in {"consts", "erase"}
      BY <1>1, <1>4 DEF LoadCode, LoadConsts, Goto, taskVars, Stopped, Accepted
    <2>2. Alive' = {}
      BY <2>1, NobodyAlive DEF Alive
    <2> QED
      BY <1>2, <2>1, <2>2 DEF SavedInv, Written, Filling
  <1>5. CASE Erase(d) \/ WriteLen(d) \/ WriteData(d)
    <2>1. /\ UNCHANGED <<job, at>>
          /\ \A e \in Deployer : e # d => pc'[e] = pc[e]
          /\ pc[d] \in Stopped
          /\ \/ pc'[d] = "writeLen" /\ Erase(d)
             \/ pc'[d] = "writeData" /\ WriteLen(d)
             \/ pc'[d] = "init" /\ WriteData(d)
      BY <1>1, <1>5 DEF Erase, WriteLen, WriteData, FlashStep, Goto, taskVars, Stopped, Accepted
    <2>2. Alive' = {}
      BY <2>1, NobodyAlive DEF Alive
    <2>3. /\ pc'[d] = "writeLen" => flash' = Flashed(None)
          /\ pc'[d] = "writeData" => flash' = [len |-> job[d], data |-> None]
          /\ pc'[d] = "init" => flash' = Flashed(job[d])
      BY <2>1, FlashSteps DEF IInv
    <2> QED
      BY <1>2, <2>1, <2>2, <2>3 DEF SavedInv, Written, Filling
  <1>6. CASE StartTask(d)
    <2>1. /\ UNCHANGED <<job, image, flash>>
          /\ \A e \in Deployer : e # d => pc'[e] = pc[e]
          /\ pc[d] = "create" /\ pc'[d] = "report"
      BY <1>1, <1>6 DEF StartTask, Goto, memVars
    <2>2. flash = Flashed(job[d]) /\ image.info = job[d] /\ job[d] \in Program
      BY <2>1 DEF SavedInv, Written, Filling, IInv, DeployerCoherent, LoadDone, Accepted, Loaded,
         TypeInv, JobInv
    <2> QED
      BY <1>2, <2>1, <2>2 DEF SavedInv, Written, Filling
  <1> QED
    BY <1>3, <1>4, <1>5, <1>6 DEF DeployerStep

\* A scheduler task touches neither flash nor image, and there is none after a power loss.
LEMMA StepSaved ==
  ASSUME Overlap = FALSE, "flash" \notin Faults, IInv, SavedInv, [Next]_vars
  PROVE  SavedInv'
  <1>1. ASSUME NEW d \in Deployer, NEW x \in Payload, Receive(d, x)
        PROVE  SavedInv'
    <2>1. /\ UNCHANGED <<at, image, flash>>
          /\ \A e \in Deployer : pc'[e] \in {"idle", "verify"}
      BY <1>1 DEF Receive, Goto, taskVars, memVars, IInv, TypeInv, TypeOK
    <2> QED
      BY <2>1 DEF SavedInv, Alive, Written, Filling
  <1>2. ASSUME NEW t \in Task, TaskStep(t)
        PROVE  SavedInv'
    <2>1. /\ UNCHANGED <<pc, job, image, flash>>
          /\ at[t] # "absent" /\ \A u \in Task : u # t => at'[u] = at[u]
      BY <1>2 DEF TaskStep, PassBegins, Skip, Dispatch, Complete, PassEnds, Exit,
         deployVars, memVars, schedVars, IInv, TypeInv, TypeOK
    <2> QED
      BY <2>1 DEF SavedInv, Alive
  <1>3. CASE BootStep
    <2>1. /\ UNCHANGED <<at, image, flash>>
          /\ pc[Boot] # "idle" /\ pc'[Boot] \in {"idle", "readData", "verify"}
          /\ \A e \in Deployer : e # Boot => pc'[e] = pc[e]
      BY <1>3, DeployAssumption DEF BootStep, ReadLen, ReadData, LoadAbandoned, Goto,
         taskVars, memVars, IInv, TypeInv, TypeOK
    <2>2. \A e \in Deployer : e # Boot => pc[e] = "idle"
      BY <2>1, OthersIdle, DeployAssumption
    <2> QED
      BY <2>1, <2>2 DEF SavedInv, Alive, Written, Filling
  <1>4. CASE PowerLoss
    <2>1. Alive' = {} /\ \A d \in Deployer : pc'[d] \in {"idle", "readLen"}
      BY <1>4 DEF PowerLoss, AtBoot, NoTasks, Alive
    <2> QED
      BY <2>1 DEF SavedInv, Written, Filling
  <1>5. CASE UNCHANGED vars
    BY <1>5 DEF vars, deployVars, schedVars, taskVars, memVars, SavedInv, Alive
  <1> QED
    BY <1>1, <1>2, <1>3, <1>4, <1>5, DeployerKeepsSaved DEF Next

LEMMA InitSaved == Init => SavedInv
  <1> SUFFICES ASSUME Init PROVE SavedInv
    OBVIOUS
  <1>1. Alive = {} /\ \A d \in Deployer : pc[d] \in {"idle", "readLen"}
    BY DEF Init, AtBoot, NoTasks, Alive
  <1> QED
    BY <1>1 DEF SavedInv, Written, Filling

\* What a restart would find is the program of the scheduler task, if there is one.
LEMMA SavedIsActive ==
  ASSUME IInv, SavedInv, Alive # {}
  PROVE  Saved = image.info /\ image.info \in Program
  <1>1. flash = [len |-> image.info, data |-> image.info] /\ image.info \in Program
    BY DEF SavedInv, Flashed
  <1>2. flash.len = image.info /\ flash.data = image.info
    BY <1>1
  <1> QED
    BY <1>1, <1>2 DEF Saved

\* Deployments that do not overlap and flash that does not fail: the scheduled program is
\* the one a restart brings back, whenever power is lost and though tasks are not created.
THEOREM ScheduledIsSaved ==
  ASSUME Overlap = FALSE, "flash" \notin Faults
  PROVE  Spec => []RunningIsSaved
  <1>1. Init => IInv /\ SavedInv
    BY InitIInv, InitSaved
  <1>2. IInv /\ SavedInv /\ [Next]_vars => (IInv /\ SavedInv)'
    BY StepIInv, StepSaved
  <1>3. IInv /\ SavedInv => RunningIsSaved
    BY SavedIsActive DEF RunningIsSaved
  <1> QED
    BY <1>1, <1>2, <1>3, PTL DEF Spec

-----------------------------------------------------------------------------
(***************************************************************************)
(* What success means, when no task creation fails either.                 *)
(***************************************************************************)

\* The flag follows the deployment, and the table grows to all its pipelines.
ReportInv ==
  \A d \in Deployer :
    /\ pc[d] = "report" => running /\ Alive # {}
    /\ pc[d] = "create" => running
    /\ pc[d] \in {"add", "start"} => ~running
    /\ pc[d] = "add" => Len(config) = added[d] /\ added[d] <= Pipelines[job[d]]
    /\ pc[d] \in {"start", "create", "report"} => Len(config) = Pipelines[job[d]]

\* Table, flag and tasks are touched by nobody else while a deployer fills and starts.
LEMMA DeployerKeepsReport ==
  ASSUME "task" \notin Faults, Task # {}, \A p \in Program : Pipelines[p] <= MaxPipelines,
         IInv, ReportInv, NEW d \in Deployer, DeployerStep(d)
  PROVE  ReportInv'
  <1>1. /\ pc[d] # "idle" /\ pc \in [Deployer -> Step] /\ added \in [Deployer -> Nat]
        /\ at \in [Task -> {"absent", "top", "pass", "run"}]
        /\ config \in Seq(Program)
    BY DEF DeployerStep, Verify, StopRequest, StopDone, LoadRefused, LoadCode,
       LoadConsts, Erase, WriteLen, WriteData, FlashStep, SchedulerInit,
       AddPipeline, AddDone, StartFlag, StartTask, Report, Goto,
       IInv, TypeInv, TypeOK
  <1>2. \A e \in Deployer : e # d => pc[e] = "idle"
    BY <1>1, OthersIdle
  <1>3. pc[d] \in Accepted => job[d] \in Program /\ Pipelines[job[d]] \in Nat
    BY DeployAssumption DEF IInv, TypeInv, JobInv
  <1>4. CASE Verify(d) \/ StopRequest(d) \/ StopDone(d) \/ LoadRefused(d) \/ LoadCode(d)
             \/ LoadConsts(d) \/ Erase(d) \/ WriteLen(d) \/ WriteData(d) \/ Report(d)
    <2>1. /\ \A e \in Deployer : e # d => pc'[e] = pc[e]
          /\ pc'[d] \notin {"add", "start", "create", "report"}
      BY <1>1, <1>4 DEF Verify, StopRequest, StopDone, LoadRefused, LoadCode, LoadConsts,
         Erase, WriteLen, WriteData, FlashStep, Report, Goto
    <2> QED
      BY <1>2, <2>1 DEF ReportInv
  <1>5. CASE SchedulerInit(d)
    <2>1. /\ running' = FALSE /\ config' = <<>> /\ added'[d] = 0 /\ UNCHANGED job
          /\ pc[d] = "init" /\ pc'[d] = "add" /\ \A e \in Deployer : e # d => pc'[e] = pc[e]
      BY <1>1, <1>5 DEF SchedulerInit, Goto
    <2> QED
      BY <1>2, <1>3, <2>1 DEF ReportInv, Accepted
  <1>6. CASE AddPipeline(d)
    <2>1. /\ UNCHANGED <<pc, job, running>> /\ pc[d] = "add"
          /\ added[d] < Pipelines[job[d]] /\ added'[d] = added[d] + 1
          /\ Len(config) = added[d] /\ ~running
      BY <1>1, <1>6 DEF AddPipeline, ReportInv
    <2>2. Len(config) < MaxPipelines
      BY <1>1, <1>3, <2>1, DeployAssumption DEF Accepted
    <2>3. Len(config') = Len(config) + 1
      BY <1>1, <1>3, <1>6, <2>1, <2>2 DEF AddPipeline, Accepted
    <2>4. added'[d] <= Pipelines[job[d]]
      BY <1>1, <1>3, <2>1 DEF Accepted
    <2> QED
      BY <1>2, <2>1, <2>3, <2>4 DEF ReportInv
  <1>7. CASE AddDone(d)
    <2>1. /\ UNCHANGED <<job, running, config>>
          /\ pc[d] = "add" /\ pc'[d] = "start" /\ \A e \in Deployer : e # d => pc'[e] = pc[e]
          /\ added[d] >= Pipelines[job[d]]
      BY <1>1, <1>7 DEF AddDone, Goto, schedVars
    <2>2. Len(config) = Pipelines[job[d]] /\ ~running
      BY <1>1, <1>3, <2>1 DEF ReportInv, Accepted
    <2> QED
      BY <1>2, <2>1, <2>2 DEF ReportInv
  <1>8. CASE StartFlag(d)
    <2>1. /\ UNCHANGED <<job, config>> /\ pc[d] = "start"
          /\ \A e \in Deployer : e # d => pc'[e] = pc[e]
          /\ ~running => running' = TRUE /\ pc'[d] = "create"
      BY <1>1, <1>8 DEF StartFlag, Goto
    <2>2. ~running /\ Len(config) = Pipelines[job[d]]
      BY <2>1 DEF ReportInv
    <2> QED
      BY <1>2, <2>1, <2>2 DEF ReportInv
  <1>9. CASE StartTask(d)
    <2>1. /\ UNCHANGED <<job, running, config>>
          /\ pc[d] = "create" /\ pc'[d] = "report" /\ \A e \in Deployer : e # d => pc'[e] = pc[e]
      BY <1>1, <1>9 DEF StartTask, Goto
    <2>2. \A t \in Task : at[t] = "absent"
      BY <2>1, NobodyAlive DEF Alive, Stopped, Accepted
    <2>3. Alive' # {}
      BY <1>1, <1>9, <2>2 DEF StartTask, Alive
    <2> QED
      BY <1>2, <2>1, <2>3 DEF ReportInv
  <1> QED
    BY <1>4, <1>5, <1>6, <1>7, <1>8, <1>9 DEF DeployerStep

\* A scheduler task ends only when the flag is cleared.
LEMMA StepReport ==
  ASSUME Overlap = FALSE, "task" \notin Faults, Task # {},
         \A p \in Program : Pipelines[p] <= MaxPipelines,
         IInv, ReportInv, [Next]_vars
  PROVE  ReportInv'
  <1>1. ASSUME NEW d \in Deployer, NEW x \in Payload, Receive(d, x)
        PROVE  ReportInv'
    <2>1. \A e \in Deployer : pc'[e] \in {"idle", "verify"}
      BY <1>1 DEF Receive, Goto, IInv, TypeInv, TypeOK
    <2> QED
      BY <2>1 DEF ReportInv
  <1>2. ASSUME NEW t \in Task, TaskStep(t)
        PROVE  ReportInv'
    <2>1. /\ UNCHANGED <<pc, job, added, running, config>>
          /\ running => at'[t] # "absent"
          /\ \A u \in Task : u # t => at'[u] = at[u]
      BY <1>2 DEF TaskStep, PassBegins, Skip, Dispatch, Complete, PassEnds, Exit,
         deployVars, schedVars, IInv, TypeInv, TypeOK
    <2>2. running => Alive' # {}
      BY <2>1 DEF Alive
    <2> QED
      BY <2>1, <2>2 DEF ReportInv
  <1>3. CASE BootStep
    <2>1. /\ pc[Boot] # "idle" /\ pc'[Boot] \in {"idle", "readData", "verify"}
          /\ \A e \in Deployer : e # Boot => pc'[e] = pc[e]
      BY <1>3, DeployAssumption DEF BootStep, ReadLen, ReadData, LoadAbandoned, Goto,
         IInv, TypeInv, TypeOK
    <2>2. \A e \in Deployer : e # Boot => pc[e] = "idle"
      BY <2>1, OthersIdle, DeployAssumption
    <2> QED
      BY <2>1, <2>2 DEF ReportInv
  <1>4. CASE PowerLoss
    <2>1. \A d \in Deployer : pc'[d] \in {"idle", "readLen"}
      BY <1>4 DEF PowerLoss, AtBoot
    <2> QED
      BY <2>1 DEF ReportInv
  <1>5. CASE UNCHANGED vars
    BY <1>5 DEF vars, deployVars, schedVars, taskVars, ReportInv, Alive
  <1> QED
    BY <1>1, <1>2, <1>3, <1>4, <1>5, DeployerKeepsReport DEF Next

LEMMA InitReport == Init => ReportInv
  <1> SUFFICES ASSUME Init PROVE ReportInv
    OBVIOUS
  <1>1. \A d \in Deployer : pc[d] \in {"idle", "readLen"}
    BY DEF Init, AtBoot
  <1> QED
    BY <1>1 DEF ReportInv

\* At the report the program is in memory, in flash and in the table, entire, and runs.
LEMMA ReportMeansRunning ==
  ASSUME IInv, SavedInv, ReportInv
  PROVE  SuccessMeansRunning
  <1> SUFFICES ASSUME NEW d \in Deployer, pc[d] = "report"
               PROVE  /\ Loaded(job[d]) /\ Saved = job[d]
                      /\ config = [i \in 1..Pipelines[job[d]] |-> job[d]]
                      /\ running /\ Alive # {}
    BY DEF SuccessMeansRunning
  <1>1. job[d] \in Program /\ Pipelines[job[d]] \in Nat /\ config \in Seq(Program)
    BY DeployAssumption DEF IInv, TypeInv, TypeOK, JobInv, Accepted
  <1>2. Loaded(job[d]) /\ \A i \in 1..Len(config) : config[i] = job[d]
    BY DEF IInv, DeployerCoherent, LoadDone, Filling, Accepted
  <1>3. Saved = job[d]
    BY <1>1 DEF SavedInv, Saved, Flashed, Written, Filling
  <1>4. running /\ Alive # {} /\ Len(config) = Pipelines[job[d]]
    BY DEF ReportInv
  <1>5. config = [i \in 1..Pipelines[job[d]] |-> job[d]]
    BY <1>1, <1>2, <1>4
  <1> QED
    BY <1>2, <1>3, <1>4, <1>5

\* With deployments that do not overlap, flash and task creation that do not fail, room
\* for a task and for the pipelines of every program, success is reported only for a
\* program that is loaded, saved, scheduled with all its pipelines and running, and what
\* is scheduled is what a restart brings back: for any number of programs, pipelines and
\* tasks, whenever power is lost.
THEOREM AlwaysLasts ==
  ASSUME Overlap = FALSE, Faults \cap {"flash", "task"} = {}, Task # {},
         \A p \in Program : Pipelines[p] <= MaxPipelines
  PROVE  Spec => []SuccessLasts
  <1>1. Init => IInv /\ SavedInv /\ ReportInv
    BY InitIInv, InitSaved, InitReport
  <1>2. IInv /\ SavedInv /\ ReportInv /\ [Next]_vars => (IInv /\ SavedInv /\ ReportInv)'
    BY StepIInv, StepSaved, StepReport
  <1>3. IInv /\ SavedInv /\ ReportInv => SuccessLasts
    BY SavedIsActive, ReportMeansRunning DEF RunningIsSaved, SuccessLasts
  <1> QED
    BY <1>1, <1>2, <1>3, PTL DEF Spec

-----------------------------------------------------------------------------
(***************************************************************************)
(* The program slot.                                                       *)
(***************************************************************************)

Active == IF Alive = {} THEN None ELSE image.info

\* The slot as the refinement mapping of Deploy has it.
LEMMA SlotSteps ==
  /\ Slot!Retire <=> (Active' = None /\ Saved' = Saved)
  /\ Slot!Clear <=> (Active = None /\ Saved' = None /\ Active' = Active)
  /\ \A p : Slot!Save(p) <=> (Active = None /\ Saved = None /\ Saved' = p /\ Active' = Active)
  /\ Slot!Activate <=> (Active = None /\ Saved # None /\ Active' = Saved /\ Saved' = Saved)
  BY DEF Slot!Retire, Slot!Clear, Slot!Save, Slot!Activate, Active

\* A step between the end of the wait and the start of the task: nothing is active, so the
\* saved copy may be erased, completed or left alone.
LEMMA QuietStep ==
  ASSUME Alive = {}, Alive' = {},
         Saved' = Saved \/ Saved' = None \/ (Saved = None /\ Saved' \in Program)
  PROVE  [Slot!SlotNext]_(Slot!slotVars)
  <1>1. Active = None /\ Active' = None
    BY DEF Active
  <1>2. CASE Saved' = Saved
    BY <1>1, <1>2 DEF Slot!SlotNext, Slot!Retire, Active
  <1>3. CASE Saved' = None
    BY <1>1, <1>3 DEF Slot!SlotNext, Slot!Clear, Active
  <1>4. CASE Saved = None /\ Saved' \in Program
    BY <1>1, <1>4 DEF Slot!SlotNext, Slot!Save, Active
  <1> QED
    BY <1>2, <1>3, <1>4

\* Memory, flash and the existence of a task are what the slot is made of.
LEMMA SlotStutters ==
  ASSUME UNCHANGED <<image, flash>>, Alive = {} <=> Alive' = {}
  PROVE  UNCHANGED Slot!slotVars
  BY DEF Slot!slotVars, Saved

\* A step of the deployer.
LEMMA DeployerKeepsSlot ==
  ASSUME "flash" \notin Faults, IInv, SavedInv, NEW d \in Deployer, DeployerStep(d)
  PROVE  [Slot!SlotNext]_(Slot!slotVars)
  <1>1. /\ None \notin Program
        /\ pc[d] \in Accepted => job[d] \in Program
    BY DeployAssumption DEF IInv, TypeInv, JobInv
  <1>2. CASE Verify(d) \/ StopRequest(d) \/ StopDone(d) \/ LoadRefused(d) \/ AddDone(d)
             \/ StartFlag(d) \/ Report(d) \/ SchedulerInit(d) \/ AddPipeline(d)
    <2>1. UNCHANGED <<at, image, flash>>
      BY <1>2 DEF Verify, StopRequest, StopDone, LoadRefused, AddDone, StartFlag,
         Report, SchedulerInit, AddPipeline, taskVars, memVars
    <2> QED
      BY <2>1, SlotStutters DEF Alive
  <1>3. CASE LoadCode(d) \/ LoadConsts(d)
    <2>1. UNCHANGED <<at, flash>> /\ pc[d] \in Stopped
      BY <1>3 DEF LoadCode, LoadConsts, Goto, taskVars, Stopped, Accepted
    <2>2. Alive = {} /\ Alive' = {} /\ Saved' = Saved
      BY <2>1, NobodyAlive DEF Alive, Saved
    <2> QED
      BY <2>2, QuietStep
  <1>4. CASE Erase(d) \/ WriteLen(d) \/ WriteData(d)
    <2>1. UNCHANGED at /\ pc[d] \in Stopped
      BY <1>4 DEF Erase, WriteLen, WriteData, FlashStep, Goto, taskVars, Stopped, Accepted
    <2>2. Alive = {} /\ Alive' = {}
      BY <2>1, NobodyAlive DEF Alive
    <2>3. TypeInv
      BY DEF IInv
    <2>4. CASE Erase(d)
      <3>1. Saved' = None
        BY <1>1, <2>3, <2>4, FlashSteps DEF Saved, Flashed
      <3> QED
        BY <2>2, <3>1, QuietStep
    <2>5. CASE WriteLen(d)
      <3>1. job[d] # None
        BY <1>1, <2>1 DEF Stopped
      <3>2. Saved' = None
        BY <3>1, <2>3, <2>5, FlashSteps DEF Saved
      <3> QED
        BY <2>2, <3>2, QuietStep
    <2>6. CASE WriteData(d)
      <3>1. job[d] \in Program
        BY <1>1, <2>1 DEF Stopped
      <3>2. flash = [len |-> job[d], data |-> None]
        BY <2>6 DEF WriteData, FlashStep, Goto, SavedInv
      <3>3. Saved = None
        BY <1>1, <3>1, <3>2 DEF Saved
      <3>4. Saved' = job[d]
        BY <2>3, <2>6, <3>1, FlashSteps DEF Saved, Flashed
      <3> QED
        BY <2>2, <3>1, <3>3, <3>4, QuietStep
    <2> QED
      BY <1>4, <2>4, <2>5, <2>6
  <1>5. CASE StartTask(d)
    <2>1. UNCHANGED <<image, flash>> /\ pc[d] = "create"
      BY <1>5 DEF StartTask, Goto, memVars
    <2>2. Alive = {}
      BY <2>1, NobodyAlive DEF Stopped, Accepted
    <2>3. /\ flash = [len |-> job[d], data |-> job[d]]
          /\ image.info = job[d] /\ job[d] \in Program
      BY <1>1, <2>1 DEF SavedInv, Written, Filling, Flashed, IInv, DeployerCoherent,
         LoadDone, Accepted, Loaded
    <2>4. Saved = image.info /\ Saved' = Saved /\ Saved # None
      BY <1>1, <2>1, <2>3 DEF Saved
    <2>5. CASE Alive' = {}
      BY <2>1, <2>2, <2>5, SlotStutters
    <2>6. CASE Alive' # {}
      <3>1. Active = None /\ Active' = Saved
        BY <2>1, <2>2, <2>4, <2>6 DEF Active
      <3> QED
        BY <2>4, <3>1, SlotSteps DEF Slot!SlotNext
    <2> QED
      BY <2>5, <2>6
  <1> QED
    BY <1>2, <1>3, <1>4, <1>5 DEF DeployerStep

\* The end of the task and the loss of power retire the active program; a loss of power
\* in the middle of a flash operation, when none is active, leaves nothing saved.
LEMMA StepSlot ==
  ASSUME Overlap = FALSE, "flash" \notin Faults, IInv, SavedInv, [Next]_vars
  PROVE  [Slot!SlotNext]_(Slot!slotVars)
  <1>1. ASSUME NEW d \in Deployer, NEW x \in Payload, Receive(d, x)
        PROVE  [Slot!SlotNext]_(Slot!slotVars)
    BY <1>1, SlotStutters DEF Receive, taskVars, memVars, Alive
  <1>2. ASSUME NEW t \in Task, TaskStep(t)
        PROVE  [Slot!SlotNext]_(Slot!slotVars)
    <2>1. UNCHANGED <<image, flash>> /\ at[t] # "absent"
      BY <1>2 DEF TaskStep, PassBegins, Skip, Dispatch, Complete, PassEnds, Exit, memVars
    <2>2. Alive # {} /\ Saved' = Saved
      BY <2>1 DEF Alive, Saved
    <2>3. CASE Alive' = {}
      <3>1. Active' = None
        BY <2>3 DEF Active
      <3> QED
        BY <2>2, <3>1, SlotSteps DEF Slot!SlotNext
    <2> QED
      BY <2>1, <2>2, <2>3, SlotStutters
  <1>3. CASE BootStep
    BY <1>3, SlotStutters DEF BootStep, ReadLen, ReadData, LoadAbandoned, taskVars,
       memVars, Alive
  <1>4. CASE PowerLoss
    <2>1. Alive' = {}
      BY <1>4 DEF PowerLoss, NoTasks, Alive
    <2>2. CASE UNCHANGED flash
      <3>1. Active' = None /\ Saved' = Saved
        BY <2>1, <2>2 DEF Active, Saved
      <3> QED
        BY <3>1, SlotSteps DEF Slot!SlotNext
    <2>3. ASSUME NEW d \in Deployer, pc[d] \in {"erase", "writeLen", "writeData"},
                 flash' \in {Flashed(Garbage), [flash EXCEPT !.len = Garbage],
                             [flash EXCEPT !.data = Garbage]}
          PROVE  [Slot!SlotNext]_(Slot!slotVars)
      <3>1. Alive = {}
        BY <2>3, NobodyAlive DEF Stopped, Accepted
      <3>2. Garbage \notin Program /\ flash \in [len : Payload \cup {None}, data : Payload \cup {None}]
        BY DeployAssumption DEF IInv, TypeInv, TypeOK
      <3>3. flash'.len = Garbage \/ flash'.data = Garbage
        BY <2>3, <3>2 DEF Flashed
      <3>4. Saved' = None
        BY <3>2, <3>3 DEF Saved
      <3> QED
        BY <2>1, <3>1, <3>4, QuietStep
    <2> QED
      BY <1>4, <2>2, <2>3 DEF PowerLoss
  <1>5. CASE UNCHANGED vars
    BY <1>5, SlotStutters DEF vars, taskVars, memVars, Alive
  <1> QED
    BY <1>1, <1>2, <1>3, <1>4, <1>5, DeployerKeepsSlot DEF Next

LEMMA InitSlot == Init => Slot!SlotInit
  <1> SUFFICES ASSUME Init PROVE Slot!SlotInit
    OBVIOUS
  <1>1. Alive = {} /\ Saved = None
    BY DeployAssumption DEF Init, NoTasks, Flashed, Alive, Saved
  <1> QED
    BY <1>1 DEF Slot!SlotInit

\* A device whose deployments do not overlap and whose flash does not fail implements the
\* abstract program slot: the running program changes only by stopping, by losing its
\* saved copy, by gaining a complete one and by starting that one, whatever tasks, heap
\* and power do and for any number of programs and tasks.
THEOREM DeployImplementsSlot ==
  ASSUME Overlap = FALSE, "flash" \notin Faults
  PROVE  Spec => ImplementsSlot
  <1>1. Init => IInv /\ SavedInv
    BY InitIInv, InitSaved
  <1>2. IInv /\ SavedInv /\ [Next]_vars => (IInv /\ SavedInv)'
    BY StepIInv, StepSaved
  <1>3. IInv /\ SavedInv /\ [Next]_vars => [Slot!SlotNext]_(Slot!slotVars)
    BY StepSlot
  <1> QED
    BY <1>1, <1>2, <1>3, InitSlot, PTL DEF Spec, ImplementsSlot, Slot!SlotSpec
===========================================================================
